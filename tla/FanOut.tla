-------------------------------- MODULE FanOut --------------------------------
(***************************************************************************)
(* Ladder against Router: the reports of a fan-out that was run step by    *)
(* step (cascade.go sampleTierN, ladder.go), and those Router takes it to  *)
(* have when it treats the fan-out as one step.                            *)
(***************************************************************************)
EXTENDS Ladder, Sequences

\* What a partition without a test lets pass is nothing (ladder.go:232, 314), so
\* that vis and hid are the programs that pass, as Router reads them.
ASSUME SuitesAssumption ==
  \A s \in Suites : (~s.visRuns => s.vis = {}) /\ (~s.hidRuns => s.hid = {})

\* Router counts its rungs from 0.
RouterFacts ==
  [p \in Programs |-> [stage |-> Facts[p].stage - 1, racy |-> Facts[p].racy,
                       concurrent |-> Facts[p].concurrent, tests |-> Facts[p].tests, quotes |-> Facts[p].quotes]]

R == INSTANCE Router WITH
  Facts <- RouterFacts, Weight <- [p \in Programs |-> 0], spec <- suite,
  conf <- [deadline |-> opts.skipRace],
  Problems <- {}, Models <- {}, NoModel <- "nil", NTiers <- 1, Tier <- <<>>,
  CascadePlanner <- "nil", TestModels <- {}, Oracles <- {}, Similarity <- <<>>,
  CacheEnabled <- FALSE, CacheTopK <- 0, CacheMinSim <- 0, CacheAdmitAt <- 0,
  Certificates <- {}, DeadlineModes <- {}, ShadowModes <- {}, MaxSolves <- 0,
  specs <- <<>>, solutions <- {}, failures <- <<>>, solves <- 0, pc <- "cascade",
  problem <- "nil", tier <- 1, cands <- <<>>, carried <- {}, repair <- <<>>, chosen <- 0,
  outs <- <<>>, res <- <<>>, trace <- <<>>, prompted <- {}, consulted <- <<>>, observed <- <<>>

\* Two reports a router cannot tell apart: it reads the verdict and, of a survivor,
\* the outcomes of its tests, and it quotes the diagnostic.
Alike(r, s) ==
  /\ r.ok = s.ok
  /\ r.ok => r.tests = s.tests
  /\ "hidden" \in r.quotes => "hidden" \in s.quotes

\* What Router assumes of a fan-out that was returned (Router.Reports and
\* AcceptVerdicts for ladder.go:161-322): no report is possible here and not
\* there, while neither optional bound is set.
ReportsAsRouterAssumes ==
  outcome = "returned" /\ ~opts.maxAllocs /\ ~opts.maxComplexity =>
    \A i \in Slots : src[i] # NoProgram =>
      /\ \E s \in R!Reports(src[i]) : Alike(rep[i], s)
      /\ rep[i].ok => acc[i] \in R!AcceptVerdicts(src[i])
=============================================================================
