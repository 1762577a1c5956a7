----------------------------- MODULE Speculative -----------------------------
(***************************************************************************)
(* Router.speculative: under a deadline every tier samples at once, each   *)
(* in a goroutine of its own, and the cheapest candidate that survives     *)
(* both partitions is the answer.  The router waits for all of them, then  *)
(* offers their representatives to the held-out partition in tier order.   *)
(***************************************************************************)
EXTENDS Router

\* The cascade's plan is drawn, then the fan-outs are started together; none of
\* them carries a diagnostic.
EnterSpeculative ==
  /\ pc = "cascade" /\ conf.deadline
  /\ pc' = "fanout"
  /\ prompted' = prompted \cup AvoidQuotes
  /\ UNCHANGED <<disk, job, ctx, spec, work, res, trace, consulted, observed>>

\* Tier k's goroutine ends with a fan-out.
TierSamples(k) ==
  /\ pc = "fanout" /\ outs[k].st = "running"
  /\ \E cs \in [1..Tier[k].samples -> Sampled] :
       outs' = [outs EXCEPT ![k] = [st |-> "sampled", cands |-> cs]]
  /\ UNCHANGED <<disk, job, pc, ctx, spec, tier, cands, carried, repair, chosen,
                 res, trace, history, observed>>

\* Tier k's goroutine ends with an error, which is dropped.
TierErrs(k) ==
  /\ pc = "fanout" /\ outs[k].st = "running"
  /\ MayFail
  /\ outs' = [outs EXCEPT ![k] = [st |-> "failed", cands |-> <<>>]]
  /\ UNCHANGED <<disk, job, pc, ctx, spec, tier, cands, carried, repair, chosen,
                 res, trace, history, observed>>

\* Bug: a goroutine that failed is waited for.
AllSampled == \A k \in Tiers : outs[k].st = "sampled"

\* The channel is closed when every goroutine has ended.
AllEnded == \A k \in Tiers : outs[k].st # "running"

Collect ==
  /\ pc = "fanout"
  /\ AllEnded
  /\ pc' = "holdout"
  /\ UNCHANGED <<disk, job, ctx, spec, work, res, trace, history, observed>>

\* Bug: a tier that was refused is offered again.
OfferingAgain == {k \in Tiers : outs[k].st = "sampled" /\ Winners(outs[k].cands) # {}}

\* The tiers from the current one on with a survivor to offer.
Offering == {k \in tier..NTiers :
               outs[k].st = "sampled" /\ Winners(outs[k].cands) # {}}

\* Bug: the offers are taken in the order they came in.
CheapestAny(k) == k \in Offering

Cheapest(k) == k \in Offering /\ \A j \in Offering : k <= j

\* The next tier's representative passes the held-out partition.  Its score is
\* recorded; no threshold is looked at.
AcceptSpeculative ==
  /\ pc = "holdout"
  /\ \E k \in Tiers :
       /\ Cheapest(k)
       /\ \E w \in Winners(outs[k].cands) :
            LET source == outs[k].cands[Rep(outs[k].cands, w)].source
            IN /\ TRUE \in AcceptVerdicts(source)
               /\ res' = Accepted(source, k, Score(outs[k].cands))
       /\ consulted' = [consulted EXCEPT ![k] = @ + 1]
       /\ trace' = Append(trace, Step(k, "accept"))
  /\ pc' = "finish"
  /\ UNCHANGED <<disk, job, ctx, spec, work, prompted, observed>>

\* It fails: on to the tier after it.
RejectSpeculative ==
  /\ pc = "holdout"
  /\ \E k \in Tiers :
       /\ Cheapest(k)
       /\ \E w \in Winners(outs[k].cands) :
            FALSE \in AcceptVerdicts(outs[k].cands[Rep(outs[k].cands, w)].source)
       /\ consulted' = [consulted EXCEPT ![k] = @ + 1]
       /\ trace' = Append(trace, Step(k, "reject"))
       /\ tier' = k + 1
  /\ UNCHANGED <<disk, job, pc, ctx, spec, cands, carried, repair, chosen, outs,
                 res, prompted, observed>>

\* No tier has a candidate left to offer.
NoneSurvived ==
  /\ pc = "holdout" /\ Offering = {}
  /\ pc' = "finish"
  /\ UNCHANGED <<disk, job, ctx, spec, work, res, trace, history, observed>>

SpeculativeStep == \/ EnterSpeculative
                   \/ \E k \in Tiers : TierSamples(k) \/ TierErrs(k)
                   \/ Collect
                   \/ AcceptSpeculative \/ RejectSpeculative
                   \/ NoneSurvived
=============================================================================
