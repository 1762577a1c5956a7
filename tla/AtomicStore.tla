----------------------------- MODULE AtomicStore -----------------------------
(***************************************************************************)
(* What the three files of one problem are to their readers: a suite that  *)
(* never changes once there is one, an entry that may be replaced, and a   *)
(* list of distinct refuted forms that forgets only its oldest.  Each      *)
(* operation is one step.                                                  *)
(***************************************************************************)
EXTENDS Integers, Sequences

CONSTANTS Suites, Entries, Forms, Cap

VARIABLE store  \* the contents of each file, <<>> if there is none to read

Init == store = [p \in {"specs", "solutions", "failures"} |-> <<>>]

Put(p, list) == store' = [store EXCEPT ![p] = list]

Suite == store["specs"] = <<>> /\ \E s \in Suites : Put("specs", <<s>>)

Entry == \E e \in Entries : Put("solutions", <<e>>)

Refuted ==
  \E f \in Forms :
    LET old == store["failures"]
    IN /\ \A i \in DOMAIN old : old[i] # f
       /\ Put("failures", IF Len(old) < Cap THEN Append(old, f)
                          ELSE SubSeq(Append(old, f), Len(old) + 2 - Cap, Len(old) + 1))

Next == Suite \/ Entry \/ Refuted
=============================================================================
