------------------------------- MODULE MCLadder -------------------------------
(***************************************************************************)
(* A small instance of Ladder and of its comparison with Router.           *)
(***************************************************************************)
EXTENDS FanOut

Rec(stage, races, allocates, complex, quotes) ==
  [stage |-> stage, racy |-> "racy" \in races, concurrent |-> "concurrent" \in races,
   allocates |-> allocates, complex |-> complex, tests |-> "v1", quotes |-> quotes]

\* "shared" races when the goroutines of its tests use it, and has none of its own.
MCFacts == [good   |-> Rec(6, {}, FALSE, FALSE, {}),
            racy   |-> Rec(6, {"racy", "concurrent"}, TRUE,  FALSE, {}),
            weak   |-> Rec(6, {"concurrent"}, FALSE, TRUE,  {}),
            shared |-> Rec(6, {"racy"}, FALSE, FALSE, {}),
            misfit |-> Rec(5, {}, FALSE, FALSE, {"hidden"}),
            untyped |-> Rec(3, {}, FALSE, FALSE, {}),
            broken |-> Rec(1, {}, FALSE, FALSE, {})]

Suite(visRuns, hidRuns) ==
  [vis |-> IF visRuns THEN Programs \cap {"good", "racy", "weak", "shared"} ELSE {},
   hid |-> IF hidRuns THEN Programs \cap {"good", "racy", "shared"} ELSE {},
   visRuns |-> visRuns, hidRuns |-> hidRuns, benches |-> TRUE]

MCSuites == {Suite(TRUE, TRUE), Suite(FALSE, TRUE), Suite(TRUE, FALSE)}

Opts(skipRace, bounds) ==
  [skipRace |-> skipRace, maxAllocs |-> bounds, maxComplexity |-> bounds]

MCOptions == {Opts(FALSE, FALSE), Opts(TRUE, FALSE), Opts(FALSE, TRUE)}

=============================================================================
