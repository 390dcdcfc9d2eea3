---------------------------- MODULE MCJobManager ----------------------------
(* Small instances of JobManager for TLC. *)
EXTENDS JobManager, TLC

\* Every wait of advance lasts one unit of time.
MCStepWait == [s \in 1..5 |-> 1]

JobSymmetry == Permutations(Jobs)
=============================================================================
