------------------------------ MODULE MCCollect ------------------------------
(***************************************************************************)
(* The record collectors on a benchmark of two problems and two tiers.     *)
(***************************************************************************)
EXTENDS Collect

Site(b, p, r, d) == [builds |-> b, plain |-> p, race |-> r, report |-> d]

\* An edit that does not build, one the race detector alone refutes, one that
\* survives, one refuted by a wrong answer, one refuted either way.
MCSites ==
  <<Site(FALSE, FALSE, FALSE, FALSE), Site(TRUE, FALSE, TRUE, TRUE),
    Site(TRUE, FALSE, FALSE, FALSE), Site(TRUE, TRUE, TRUE, FALSE),
    Site(TRUE, TRUE, TRUE, TRUE)>>

\* No child is late; the test run of the edit that survives is, alone or with that of
\* an edit the tests refute; the build of an edit is, and the test run of another.
MCLateRuns == {{}, {<<3, 2>>}, {<<2, 2>>, <<3, 2>>}, {<<2, 1>>, <<4, 2>>}}

MCGenerated == <<Suites, {"sound", "wrong"}>>

=============================================================================
