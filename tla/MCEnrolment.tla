----------------------------- MODULE MCEnrolment -----------------------------
(* Two chains of processes on one tablet with one account and two fingers. *)
EXTENDS Enrolment, TLC

CONSTANTS j1, j2

TwoJobs == {j1, j2}
JobSymmetry == Permutations(TwoJobs)
=============================================================================
