------------------------------ MODULE MCCascade ------------------------------
(***************************************************************************)
(* Small instances of Cascade.  A program is named for what becomes of it. *)
(***************************************************************************)
EXTENDS Cascade

Rec(stage, races, tests, quotes) ==
  [stage |-> stage, racy |-> races, concurrent |-> races, tests |-> tests, quotes |-> quotes]

MCFacts == [good   |-> Rec(StageTest, FALSE, "v1", {}),
            weak   |-> Rec(StageTest, FALSE, "v1", {}),
            racy   |-> Rec(StageTest, TRUE,  "v1", {}),
            other  |-> Rec(StageTest, FALSE, "v2", {}),
            bad    |-> Rec(StageTest, FALSE, "v1", {}),
            misfit |-> Rec(StageVet,  FALSE, "v1", {"hidden"}),
            broken |-> Rec(StageParse, FALSE, "v1", {})]

MCWeight == [p \in DOMAIN MCFacts |-> IF p = "weak" THEN 1 ELSE 2]

\* A sound suite, and one that rejects the good program outright.
Sound  == [vis |-> Programs \cap {"good", "weak", "racy", "other"}, hid |-> Programs \cap {"good", "racy"}]
Twisted == [vis |-> Programs \cap {"weak"}, hid |-> Programs \cap {"weak"}]

T(model, planner, samples, depth, price) ==
  [model |-> model, planner |-> planner, samples |-> samples, repairDepth |-> depth,
   price |-> price]

TwoTiers   == <<T("small", "nil", 2, 1, 1), T("large", "nil", 1, 1, 20)>>
ThreeTiers == <<T("small", "nil", 1, 1, 1), T("mid", "nil", 2, 1, 3), T("large", "nil", 1, 1, 5)>>
OneSample == [k \in 1..2 |-> [TwoTiers[k] EXCEPT !.samples = 1]]

\* Two problems alike enough for a transfer.
Alike == [p \in Problems |-> [q \in Problems |-> 80]]

One     == <<25>>
Certs   == {NoCert, [valid |-> TRUE, tau |-> One], [valid |-> FALSE, tau |-> One]}
None    == {NoCert}
SoundTwisted == {Sound, Twisted}
JustSound == {Sound}
=============================================================================
