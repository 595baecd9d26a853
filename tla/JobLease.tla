------------------------------ MODULE JobLease ------------------------------
(***************************************************************************)
(* What the job queue of scaling mode promises about an execution: it is   *)
(* in the hands of one worker at a time unless a lease ran out under a     *)
(* worker that went on, a worker that is lost gives it back, that happens  *)
(* a bounded number of times, and once its job is closed nobody takes it   *)
(* again.                                                                  *)
(***************************************************************************)
EXTENDS Naturals

CONSTANTS
    Executions,
    Workers,
    MaxTakes      \* how often an execution may be taken by a worker

VARIABLES
    busy,    \* busy[e]: the workers that process execution e
    takes,   \* takes[e]: how often e was taken
    open,    \* the executions that may still be taken
    split    \* those whose lease ran out under a worker that went on

leaseVars == <<busy, takes, open, split>>

LeaseInit ==
    /\ busy = [e \in Executions |-> {}]
    /\ takes = [e \in Executions |-> 0]
    /\ open = Executions
    /\ split = {}

Take(e, w) ==
    /\ e \in open /\ takes[e] < MaxTakes
    /\ busy[e] = {} \/ e \in split
    /\ busy' = [busy EXCEPT ![e] = @ \cup {w}]
    /\ takes' = [takes EXCEPT ![e] = @ + 1]
    /\ UNCHANGED <<open, split>>

\* The worker is through with the execution, which is closed with it or was, unless
\* the worker no longer had the lease.
Finish(e, w) ==
    /\ w \in busy[e]
    /\ busy' = [busy EXCEPT ![e] = @ \ {w}]
    /\ open' = open \ {e} \/ (e \in split /\ open' = open)
    /\ UNCHANGED <<takes, split>>

Close(e) ==
    /\ e \in open
    /\ open' = open \ {e}
    /\ UNCHANGED <<busy, takes, split>>

\* The lease runs out under a worker, which goes on; it may have been the last one.
Expire(e) ==
    /\ busy[e] # {} /\ e \in open
    /\ split' = split \cup {e}
    /\ open' \in {open, open \ {e}}
    /\ UNCHANGED <<busy, takes>>

\* A worker is lost with everything it was processing.
Lose(w) ==
    /\ busy' = [e \in Executions |-> busy[e] \ {w}]
    /\ UNCHANGED <<takes, open, split>>

LeaseNext ==
    \/ \E e \in Executions, w \in Workers : Take(e, w) \/ Finish(e, w)
    \/ \E e \in Executions : Close(e) \/ Expire(e)
    \/ \E w \in Workers : Lose(w)

LeaseSpec == LeaseInit /\ [][LeaseNext]_leaseVars

=============================================================================
