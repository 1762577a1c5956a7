------------------------------ MODULE Sequential ------------------------------
(***************************************************************************)
(* Router.sequential: one tier at a time, cheapest first.  A tier samples, *)
(* repairs if nothing survived, is routed on its score, and offers one     *)
(* representative to the held-out partition.                               *)
(***************************************************************************)
EXTENDS Router

\* Bug: one tier too early.
LastButOne(k) == k + 1 >= NTiers

Last(k) == k = NTiers

\* bestRefuted: the first of those that got furthest up the ladder.
BestRefuted(cs) ==
  CHOOSE i \in DOMAIN cs : \A j \in DOMAIN cs :
    \/ cs[i].report.failedAt > cs[j].report.failedAt
    \/ cs[i].report.failedAt = cs[j].report.failedAt /\ i <= j

\* preferRepair: correctness per dollar, 0.45/price against
\* 0.35/(price of the next tier * its samples).
PreferRepair(k) ==
  /\ Tier[k].repairDepth > 0
  /\ \/ Last(k)
     \/ 45 * Tier[k+1].price * Tier[k+1].samples > 35 * Tier[k].price

\* The loop goes on to the next tier, or ends with nothing accepted.
NextTier ==
  IF Last(tier)
  THEN pc' = "finish" /\ UNCHANGED tier
  ELSE pc' = "tier" /\ tier' = tier + 1

ClearTier == /\ cands' = <<>> /\ chosen' = 0
             /\ repair' = [round |-> 0, quotes |-> {}]

\* The cascade's own plan is drawn here; it sees the problem alone, and when the
\* call fails there is no plan.
EnterSequential ==
  /\ pc = "cascade" /\ ~conf.deadline
  /\ pc' = "tier"
  /\ UNCHANGED <<disk, job, ctx, spec, work, res, trace, history, observed>>

\* The head of the loop looks at the context.
TierHead ==
  /\ pc = "tier"
  /\ IF ctx = "live"
     THEN /\ pc' = "sample"
          /\ UNCHANGED <<disk, job, ctx, spec, work, res, trace, history, observed>>
     ELSE Fail("ctx")

\* sampleTier: the whole fan-out, told of the carried and the recorded failures.
SampleTier ==
  /\ pc = "sample"
  /\ cands' \in [1..Tier[tier].samples -> Sampled]
  /\ prompted' = prompted \cup carried \cup AvoidQuotes
  /\ pc' = "route"
  /\ UNCHANGED <<disk, job, ctx, spec, tier, carried, repair, chosen, outs, res,
                 trace, consulted, observed>>

\* sampleTier: one failed call fails the fan-out, and the solve with it.
SampleFails ==
  /\ pc = "sample"
  /\ MayFail
  /\ \/ Tier[tier].planner # NoModel /\ Fail("planner")
     \/ Fail("coder")

\* A call of the fan-out that fails because the model was not reached in time fails with
\* DeadlineExceeded, as one under a passed deadline would (bedrock.go:115), and Solve
\* takes that for no error: it finishes with what it has, which is nothing.  A planner's
\* prompt quotes no failure, a coder's quotes those it is told to avoid.
SampleTimesOut ==
  /\ pc = "sample"
  /\ "provider" \in Faults
  /\ pc' = "finish"
  /\ res' = [res EXCEPT !.err = "late"]
  /\ prompted' \in {prompted, prompted \cup carried \cup AvoidQuotes}
  /\ UNCHANGED <<disk, job, ctx, spec, work, trace, consulted, observed>>

\* Every sample was refuted: remember them, then repair the best of them or
\* escalate.
RouteRefuted ==
  /\ pc = "route" /\ Winners(cands) = {}
  /\ failures' = RecordFailure(cands)
  /\ LET best == cands[BestRefuted(cands)]
     IN IF PreferRepair(tier)
        THEN /\ pc' = "repair"
             /\ repair' = [round |-> 0, quotes |-> best.report.quotes]
             /\ UNCHANGED <<tier, cands, carried, chosen, trace>>
        ELSE /\ carried' = carried \cup best.report.quotes
             /\ trace' = Append(trace, Step(tier, "escalate"))
             /\ NextTier /\ ClearTier
  /\ UNCHANGED <<specs, solutions, job, ctx, spec, outs, res, history, observed>>

\* Bug: one round too many.
OneRoundMore == repair.round <= Tier[tier].repairDepth

RoundsLeft == repair.round < Tier[tier].repairDepth

\* repairLoop, one round that ends with a report.
RepairRound ==
  /\ pc = "repair" /\ RoundsLeft
  /\ prompted' = prompted \cup repair.quotes
  /\ \E d \in Sampled :
       IF d.report.ok
       THEN /\ cands' = Append(cands, d)
            /\ trace' = Append(trace, Step(tier, "repair"))
            /\ pc' = "route"
            /\ UNCHANGED repair
       ELSE /\ repair' = [round |-> repair.round + 1, quotes |-> d.report.quotes]
            /\ trace' = Append(trace, Step(tier, "escalate"))
            /\ UNCHANGED <<pc, cands>>
  /\ UNCHANGED <<disk, job, ctx, spec, tier, carried, chosen, outs, res, consulted, observed>>

\* repairLoop gives up: out of rounds, or a call failed, or its answer held no
\* code.
RepairGivesUp ==
  /\ pc = "repair"
  /\ \/ ~RoundsLeft /\ UNCHANGED prompted
     \/ RoundsLeft /\ prompted' = prompted \cup repair.quotes
  /\ carried' = carried \cup cands[BestRefuted(cands)].report.quotes
  /\ trace' = Append(trace, Step(tier, "escalate"))
  /\ NextTier /\ ClearTier
  /\ UNCHANGED <<disk, job, ctx, spec, outs, res, consulted, observed>>

\* Bug: a tier is left only when nothing survived it.
BelowNever == Winners(cands) = {} /\ ~Last(tier)

\* The score does not reach the threshold and there is a tier to escalate to.
BelowThreshold == Score(cands) < Threshold(tier) /\ ~Last(tier)

RouteBelow ==
  /\ pc = "route" /\ Winners(cands) # {}
  /\ BelowThreshold
  /\ trace' = Append(trace, Step(tier, "escalate"))
  /\ NextTier /\ ClearTier
  /\ UNCHANGED <<disk, job, ctx, spec, carried, outs, res, history, observed>>

\* The representative of the winning class goes to the held-out partition.
RouteAbove ==
  /\ pc = "route" /\ Winners(cands) # {}
  /\ ~BelowThreshold
  /\ \E w \in Winners(cands) : chosen' = Rep(cands, w)
  /\ pc' = "accept"
  /\ UNCHANGED <<disk, job, ctx, spec, tier, cands, carried, repair, outs, res,
                 trace, history, observed>>

\* acceptOne passed.
AcceptTier ==
  /\ pc = "accept"
  /\ TRUE \in AcceptVerdicts(cands[chosen].source)
  /\ consulted' = [consulted EXCEPT ![tier] = @ + 1]
  /\ res' = Accepted(cands[chosen].source, tier, Score(cands))
  /\ trace' = Append(trace, Step(tier, "accept"))
  /\ pc' = "finish"
  /\ UNCHANGED <<disk, job, ctx, spec, work, prompted, observed>>

\* acceptOne failed: escalate.  The candidate's visible report is OK, so
\* recordFailure skips it.
RejectTier ==
  /\ pc = "accept"
  /\ FALSE \in AcceptVerdicts(cands[chosen].source)
  /\ consulted' = [consulted EXCEPT ![tier] = @ + 1]
  /\ failures' = RecordFailure(<<cands[chosen]>>)
  /\ carried' = carried \cup RefusalQuotes
  /\ trace' = Append(trace, Step(tier, "reject"))
  /\ NextTier /\ ClearTier
  /\ UNCHANGED <<specs, solutions, job, ctx, spec, outs, res, prompted, observed>>

SequentialStep == \/ EnterSequential \/ TierHead
                  \/ SampleTier \/ SampleFails \/ SampleTimesOut
                  \/ RouteRefuted \/ RepairRound \/ RepairGivesUp
                  \/ RouteBelow \/ RouteAbove
                  \/ AcceptTier \/ RejectTier
=============================================================================
