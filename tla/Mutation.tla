------------------------------- MODULE Mutation -------------------------------
(***************************************************************************)
(* The harvest of small edits of a solution that its suite kills           *)
(* (internal/verify/mutation.go), which seed the judge with known defects. *)
(*                                                                         *)
(* A site is one edit: whether it builds, whether the ordinary test run    *)
(* refutes it, whether the run under the race detector does, and whether   *)
(* that one reports a data race.  A child process is <<site, stage>>,      *)
(* stage 1 being the build, 2 the test run that decides and 3 the second   *)
(* one of the race harvest.  lost are the children that did not get to     *)
(* their end, because of their own timeout or of the context's: a lost     *)
(* build is a failed build, and a lost test run is a failed test run.      *)
(* After the site last, during which the context ended, nothing is started.*)
(***************************************************************************)
EXTENDS Integers, FiniteSets

Refuted(site, kind) == IF kind = "logic" THEN site.plain ELSE site.race

\* The sites that built, and those whose test run failed.
Built(sites, lost, last) == {i \in DOMAIN sites : sites[i].builds /\ <<i, 1>> \notin lost /\ i <= last}

Killed(sites, kind, lost, last) ==
  {i \in Built(sites, lost, last) : Refuted(sites[i], kind) \/ <<i, 2>> \in lost}

FirstOf(S, n) == {i \in S : Cardinality({j \in S : j < i}) < n}

\* Bug: a failure under the detector is enough.
RefutedIsEnough(sites, i, lost) == TRUE

\* A race report is read in the output of a run that got to its end: go prints nothing
\* of a package before that.
ReportsRace(sites, i, lost) == sites[i].report /\ <<i, 2>> \notin lost

\* The first n edits that build and are killed; of those, for the scar-free kind,
\* the ones with a data race.
Harvest(sites, n, kind, lost, last) ==
  LET first == FirstOf(Killed(sites, kind, lost, last), n)
  IN IF kind = "scar-free" THEN {i \in first : ReportsRace(sites, i, lost)} ELSE first
=============================================================================
