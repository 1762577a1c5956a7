----------------------------- MODULE MCProvider -----------------------------
(***************************************************************************)
(* Two processes, two goroutines in the first; two models whose IDs fold   *)
(* to one profile name.                                                    *)
(***************************************************************************)
EXTENDS Provider

Id(r, s) == [route |-> r, vendor |-> "v", sep |-> s, base |-> "b"]

\* us.v.b and us.v:b, which share a profile name.
MCModels == {Id("us", "."), Id("us", ":")}

MCThreads == {<<1, "a">>, <<1, "b">>, <<2, "a">>}

Both == <<"study", "study">>

Alien == [name |-> ProfileName("study", Id("us", ".")), wraps |-> Identity(Id("us", ":")),
          active |-> TRUE]

\* An empty account, with a process that tags nothing or without, and one in which
\* another program made a profile.
MCStarts ==
  {[tag |-> Both, account |-> <<>>], [tag |-> <<"", "study">>, account |-> <<>>],
   [tag |-> Both, account |-> <<Alien>>]}
=============================================================================
