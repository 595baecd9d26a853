---------------------------- MODULE MCTaskBroker ----------------------------
(***************************************************************************)
(* Instances of TaskBroker for TLC.  Requests are interchangeable, and so  *)
(* are the runners of a cfg that treats them alike.                        *)
(***************************************************************************)
EXTENDS TaskBroker

CONSTANTS q1, q2, r1, r2

RequestSymmetry == Permutations({q1, q2})

=============================================================================
