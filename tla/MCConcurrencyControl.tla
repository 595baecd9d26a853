------------------------ MODULE MCConcurrencyControl ------------------------
(***************************************************************************)
(* Instances of ConcurrencyControl for TLC.  Two webhook executions, each  *)
(* started twice, compete for one unit of production capacity; one         *)
(* evaluation execution has a queue of its own; one manual execution is    *)
(* not limited.                                                            *)
(***************************************************************************)
EXTENDS ConcurrencyControl

CONSTANTS w1, w2, w3, v1, m1

MCmode == [e \in Executions |->
              CASE e = v1 -> "evaluation"
                [] e = m1 -> "manual"
                [] e = w2 -> "trigger"
                [] OTHER  -> "webhook"]

MClimits == [t \in {"production", "evaluation"} |-> 1]

\* Evaluation is unlimited: only the production queue exists.
MCproductionOnly == [t \in {"production", "evaluation"} |->
                        IF t = "production" THEN 1 ELSE -5]

=============================================================================
