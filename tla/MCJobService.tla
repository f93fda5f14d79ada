---------------------------- MODULE MCJobService ----------------------------
(***************************************************************************)
(* Small instances of JobService for TLC: an expression that fires at      *)
(* every second, also past the horizon.                                    *)
(***************************************************************************)
EXTENDS JobService

MCFires == [e \in Expressions |-> 1 .. MaxTime + 1]

WorkerSymmetry == Permutations(Workers)

=============================================================================
