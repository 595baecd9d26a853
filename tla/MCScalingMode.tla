---------------------------- MODULE MCScalingMode ----------------------------
(***************************************************************************)
(* Instances of ScalingMode for TLC.                                       *)
(***************************************************************************)
EXTENDS ScalingMode, TLC

CONSTANTS e1, e2, w1, w2

WorkerSymmetry == Permutations({w1, w2})

=============================================================================
