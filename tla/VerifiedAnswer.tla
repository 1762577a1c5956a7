---------------------------- MODULE VerifiedAnswer ----------------------------
(***************************************************************************)
(* What a router promises its caller, with the arms, tiers, repairs and    *)
(* caches left out: a query gets one oracle before it gets any answer, and *)
(* the only answers are programs that pass both partitions of it.          *)
(***************************************************************************)
CONSTANTS Sources, OraclePairs, NoAnswer, NoOracle

VARIABLES phase,   \* "idle", "asked", "judging" or "over"
          oracle,  \* the oracle of the current query
          answer   \* its answer

avars == <<phase, oracle, answer>>

AInit == phase = "idle" /\ oracle = NoOracle /\ answer = NoAnswer

\* A new query, once the last one is over.
Ask == /\ phase \in {"idle", "over"}
       /\ phase' = "asked" /\ oracle' = NoOracle /\ answer' = NoAnswer

\* The oracle is written before there is anything for it to judge.
Contract == /\ phase = "asked"
            /\ \E o \in OraclePairs : oracle' = o
            /\ phase' = "judging"
            /\ UNCHANGED answer

\* An answer is a program both partitions accepted.
Answer == /\ phase = "judging" /\ answer = NoAnswer
          /\ \E s \in Sources : /\ s \in oracle.vis \cap oracle.hid
                                /\ answer' = s
          /\ UNCHANGED <<phase, oracle>>

\* The query ends, answered or not.
End == /\ phase \in {"asked", "judging"}
       /\ phase' = "over"
       /\ UNCHANGED <<oracle, answer>>

ANext == Ask \/ Contract \/ Answer \/ End

ASpec == AInit /\ [][ANext]_avars
=============================================================================
