------------------------------- MODULE Evidence -------------------------------
(***************************************************************************)
(* The fan-out of one tier filling up candidate by candidate, beside the   *)
(* configurations it may be drawn under: the score's laws can be read off  *)
(* the steps, what the cache admits off the fan-out, and the rival vote on *)
(* texts is taken over the same candidates.                                *)
(***************************************************************************)
EXTENDS Config, TextVote

CONSTANTS
  Candidates,  \* what a sample, drawn and verified, may be: [source, report]
  Names,       \* of models and of the cache directory, "" among them
  Configs,     \* configurations as a file may hold them
  MaxSamples   \* bound on the fan-out

\* The types of config.Config and config.Tier; no tier is wider than the fan-out here
\* may get.
ASSUME ConfigsAssumption ==
  /\ MaxSamples \in Nat
  /\ Configs \subseteq
       [tiers : Seq([samples : 0..MaxSamples, price : Nat, planner : Names]),
        alpha : Int, budget : Int, planner : Names, testModel : Names, cacheDir : Names,
        admit : 0..100]

VARIABLE cands

Init == cands = <<>>

Draw == /\ Len(cands) < MaxSamples
        /\ \E c \in Candidates : cands' = Append(cands, c)

Next == Draw

Spec == Init /\ [][Next]_cands

-----------------------------------------------------------------------------
\* The newcomer is in a leading class: in one that led before it came, or its own.
Backs ==
  LET i == Len(cands')
  IN \E w \in Winners(cands') : i \in w /\ w \ {i} \in Winners(cands) \cup {{}}

\* The statistic is monotone in evidence (cluster.go:142-144): another survivor
\* in the leading class never lowers the score, and any other candidate, a
\* refuted one or a survivor that behaves differently, never raises it.
MonotoneInEvidence ==
  [][IF Backs /\ Cardinality(Winners(cands')) = 1
       THEN Score(cands') >= Score(cands)
       ELSE Score(cands') <= Score(cands)]_cands

\* What represents a class, before and after the newcomer came to it or to another.
Succession ==
  \A cl \in Group(cands) :
    LET r == Rep(cands, cl)
        n == Len(cands')
        takes == /\ Behaviour(cands'[n]) = Behaviour(cands[r])
                 /\ Weight[cands'[n].source] < Weight[cands[r].source]
    IN Rep(cands', ClusterOf(cands', r)) = IF takes THEN n ELSE r

\* A representative speaks for its class and is the simplest of it (cluster.go:64-65,
\* 89-101): a newcomer takes its place exactly when it behaves alike and is simpler, so
\* nobody who behaves otherwise ever does, and of equals the first keeps it.
RepresentativeHolds == [][Succession]_cands

\* What matters of a configuration to the cache that is on in it.
Admissions ==
  {[fanouts |-> Fanouts(c), admit |-> Load(c).admit, derived |-> c.admit = 0,
    valid |-> Validate(Load(c))] : c \in {d \in Configs : d.cacheDir # "" /\ Consistent(d)}}

\* Arm zero can be reached (config.go:302-306, 321-340): with a derived admission
\* score an agreeing fan-out of any tier is admitted; an explicit one is refused when
\* no fan-out of any tier could be, and only then.
EveryTierCanAdmit ==
  \A a \in Admissions : Len(cands) \in a.fanouts =>
    /\ a.derived =>
         /\ a.valid
         /\ Winners(cands) = {DOMAIN cands} => Score(cands) >= a.admit
    /\ ~a.valid => Score(cands) < a.admit
    /\ a.valid => \E n \in a.fanouts : UnanimousScore(n) >= a.admit

\* The orders n samples may arrive in.
Orders == [n \in 1..MaxSamples |-> {o \in [1..n -> 1..n] : IsInjective(o)}]

\* The vote is independent of the order of the samples, and goes to a class no other
\* outnumbers (text.go:106-118).
VoteIgnoresOrder ==
  cands # <<>> =>
    LET v == Vote(cands, [i \in DOMAIN cands |-> i])
        votes(k) == Cardinality({i \in DOMAIN cands : TextKey[cands[i].source] = k})
    IN /\ \A o \in Orders[Len(cands)] : Vote(cands, o) = v
       /\ v.n = votes(TextKey[cands[v.rep].source])
       /\ \A i \in DOMAIN cands : votes(TextKey[cands[i].source]) <= v.n
=============================================================================
