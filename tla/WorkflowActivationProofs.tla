---------------------- MODULE WorkflowActivationProofs ----------------------
(***************************************************************************)
(* WorkflowActivation, proved for any number of mains, edits and faults.   *)
(*                                                                         *)
(* As long as operations on the workflow have not overlapped, a main has   *)
(* one operation in flight at most, and what it knows of its triggers is   *)
(* what runs, apart from those that a failed activation or removal left    *)
(* running.  What the triggers should be is decided by the one main that   *)
(* really is the leader; the others only have triggers to close.           *)
(***************************************************************************)
EXTENDS WorkflowActivation, SequenceFacts

Callers == {"init", "takeover", "command", "api", "retry", "error", "stepdown", "stop"}

\* Those that add; the others only remove.
Adders == {"init", "takeover", "command", "api", "retry"}

Commands == {"add", "remove"}

ApiStates == {"idle", "remove", "save", "add", "adding"}

Operations == [kind: Commands, by: Callers, trigger: Triggers \cup {0}, id: 1..10]

\* Types, also after an overlap.
ActivationTypes ==
    /\ multiMain \in BOOLEAN /\ active \in BOOLEAN /\ excused \in BOOLEAN
    /\ up \in [Mains -> {"down", "starting", "up", "stopping"}]
    /\ leader \in [Mains -> BOOLEAN] /\ trying \in [Mains -> BOOLEAN]
    /\ leaderKey \in Mains \cup {NoMain, GoneMain}
    /\ listening \in [Mains -> SUBSET Triggers] /\ entry \in [Mains -> Triggers \cup {0}]
    /\ queued \in [Mains -> {"no", "armed", "fired"}]
    /\ ops \in [Mains -> SUBSET Operations]
    /\ \A m \in Mains : \A op \in ops[m] : op.kind = "remove" <=> op.trigger # 0
    /\ inbox \in [Mains -> Seq(Commands)]
    /\ api \in [pc: ApiStates, main: Mains \cup {NoMain}, want: BOOLEAN]

\* Each fault leaves one trigger running at most, so that there is always a number left.
LeftIsCounted ==
    /\ faults \in 0..MaxFaults
    /\ left \in [Mains -> SUBSET Triggers]
    /\ \A m \in Mains : /\ left[m] \subseteq listening[m] /\ IsFiniteSet(left[m])
                        /\ Cardinality(left[m]) <= faults

\* A main that is down has nothing in memory, and trying to become the leader is for
\* one of several mains that is not.
DownIsEmpty ==
    \A m \in Mains :
        /\ ~Up(m) => /\ listening[m] = {} /\ entry[m] = 0 /\ ops[m] = {} /\ inbox[m] = <<>>
                     /\ queued[m] = "no" /\ ~leader[m] /\ ~trying[m]
        /\ trying[m] => multiMain /\ ~leader[m]

\* One operation at a time; apart from what was left running, memory holds the trigger that
\* runs, an addition finds none, and a main that is no leader is removing what it has.  A
\* removal closes what is in memory.
MemoryIsTrue(m) ==
    /\ \A p, q \in ops[m] : p = q
    /\ own(m) = IF kept(m) = 0 THEN {} ELSE {kept(m)}
    /\ \A op \in ops[m] : IF op.kind = "add" THEN kept(m) = 0 /\ leader[m]
                                             ELSE op.trigger = entry[m]
    /\ ~leader[m] /\ kept(m) # 0 => ops[m] # {}

\* The main that has the key is a leader; a single main is the leader and needs no key.
Roles ==
    /\ \A m \in Mains : leaderKey = m => leader[m]
    /\ ~multiMain => /\ leaderKey = NoMain
                     /\ \A m \in Mains : (Up(m) => leader[m]) /\ inbox[m] = <<>>
                     /\ \A m, n \in Mains : Up(m) /\ Up(n) => m = n
                     /\ api.pc # "idle" => api.main \in Mains /\ Up(api.main)

\* The main that is the leader, and does not only take itself for it.
holds(m) == IF multiMain THEN leaderKey = m ELSE Up(m)

adds(m) == \E op \in ops[m] : op.kind = "add"

\* Nothing runs on m that is not being removed, and nothing is being added.
clear(m) == ~adds(m) /\ (kept(m) # 0 => ops[m] # {})

\* The update waits for its own operation, on a single main; commands are for several.
CallersAreKnown ==
    /\ multiMain => api.pc \in {"idle", "save", "add"}
    /\ api.pc = "add" => active
    /\ \A m \in Mains : \A op \in ops[m] :
          /\ op.by = "api" => /\ ~multiMain /\ api.main = m
                              /\ api.pc = IF op.kind = "add" THEN "adding" ELSE "remove"
          /\ op.kind = "add" => op.by \in Adders
          /\ op.by = "command" => multiMain
          /\ op.by = "retry" => ~multiMain /\ queued[m] = "fired"

\* Commands are sent one update or one retry at a time.
CommandsInTurn ==
    \A m \in Mains :
        /\ inbox[m] \in {<<>>, <<"remove">>, <<"add">>, <<"remove", "add">>}
        /\ api.pc # "idle" => inbox[m] \in {<<>>, <<"remove">>}

\* While a retry waits nothing is updated, and with several mains the leader has
\* nothing to add to.
RetryIsAlone ==
    \A r \in Mains : queued[r] = "armed" =>
        /\ active /\ api.pc = "idle"
        /\ multiMain => /\ \A other \in Mains : queued[other] = "armed" => other = r
                        /\ \A m \in Mains : holds(m) => clear(m) /\ inbox[m] = <<>>
        /\ ~multiMain => (kept(r) # 0 => ops[r] # {})

\* What is under way at the leader: it is not told to add while it has the triggers or
\* adds them, and only an active workflow is added.
LeaderIsInTurn(m) ==
    holds(m) =>
        /\ inbox[m] = <<"add">> \/ (inbox[m] = <<>> /\ api.pc \in {"save", "add"}) => clear(m)
        /\ inbox[m] \in {<<"add">>, <<"remove", "add">>} => active
        /\ inbox[m] = <<"remove">> /\ active => api.pc \in {"save", "add"}
        /\ \A op \in ops[m] : op.kind = "add" =>
              /\ inbox[m] = <<>>
              /\ op.by # "api" => api.pc = "idle"
              /\ multiMain => \A r \in Mains : queued[r] # "armed"
        /\ ~active /\ inbox[m] = <<>> => clear(m)

\* The leader has the triggers of an active workflow, or something will add them.
LeaderGetsTriggers(m) ==
    holds(m) /\ active /\ up[m] = "up" =>
        \/ kept(m) # 0 /\ ops[m] = {}
        \/ adds(m) \/ queued[m] = "armed"
        \/ inbox[m] \in {<<"add">>, <<"remove", "add">>}
        \/ api.pc \in {"remove", "save", "add"}

\* A single main's update has removed what there was before it saves; a stop may close
\* what was left running meanwhile.
SingleUpdate ==
    ~multiMain /\ api.pc \in {"save", "add"} =>
        kept(api.main) = 0 /\ \A op \in ops[api.main] : op.kind = "remove"

\* What holds until operations overlap.
InTurn ==
    /\ Roles /\ CallersAreKnown /\ CommandsInTurn /\ RetryIsAlone /\ SingleUpdate
    /\ \A m \in Mains : MemoryIsTrue(m) /\ LeaderIsInTurn(m) /\ LeaderGetsTriggers(m)

\* The inductive invariant.
ActivationInv ==
    /\ ActivationTypes
    /\ LeftIsCounted
    /\ DownIsEmpty
    /\ ~excused => InTurn

-----------------------------------------------------------------------------
(* Types                                                                   *)

LEMMA LeastIsMember ==
    ASSUME NEW S \in SUBSET Nat, S # {}
    PROVE  Min(S) \in S
BY LeastNumber DEF Min

\* An operation that begins while none is in flight.
LEMMA NewOperation ==
    ASSUME ActivationTypes, NEW m \in Mains, \A p, q \in ops[m] : p = q, NEW by \in Callers
    PROVE  /\ addOp(m, by) \in Operations /\ addOp(m, by).kind = "add"
           /\ addOp(m, by).by = by /\ addOp(m, by).trigger = 0
           /\ removeOp(m, by) \in Operations /\ removeOp(m, by).kind = "remove"
           /\ removeOp(m, by).by = by /\ removeOp(m, by).trigger = entry[m]
<1> DEFINE ids == {op.id : op \in ops[m]}
           i == Min(1..10 \ ids)
<1>1. \A x, y \in ids : x = y
  OBVIOUS
<1>2. 1 \notin ids \/ 2 \notin ids
  BY <1>1
<1>3. 1..10 \ ids \in SUBSET Nat /\ 1..10 \ ids # {}
  BY <1>2
<1>4. i \in 1..10
  BY <1>3, LeastIsMember
<1>5. entry[m] \in Triggers \cup {0}
  BY DEF ActivationTypes
<1>6. addOp(m, by) = [kind |-> "add", by |-> by, trigger |-> 0, id |-> i]
  BY DEF addOp
<1> HIDE DEF i
<1>7. /\ addOp(m, by) \in Operations /\ addOp(m, by).kind = "add"
      /\ addOp(m, by).by = by /\ addOp(m, by).trigger = 0
  BY <1>4, <1>6 DEF Operations, Commands
<1> DEFINE r == addOp(m, by)
<1>8. removeOp(m, by) = [r EXCEPT !.kind = "remove", !.trigger = entry[m]]
  BY DEF removeOp
<1> HIDE DEF r
<1>9. r \in Operations /\ r.by = by
  BY <1>7 DEF r
<1>10. /\ removeOp(m, by) \in Operations /\ removeOp(m, by).kind = "remove"
       /\ removeOp(m, by).by = by /\ removeOp(m, by).trigger = entry[m]
  BY <1>5, <1>8, <1>9 DEF Operations, Commands
<1> QED  BY <1>7, <1>10

\* Nothing of the workflow runs but what was left running, and there is a number for the next.
LEMMA FreshTrigger ==
    ASSUME LeftIsCounted, NEW m \in Mains, own(m) = {}, \A op \in ops[m] : op.trigger = 0
    PROVE  freshTrigger(m) \in Triggers /\ freshTrigger(m) # 0 /\ freshTrigger(m) \notin left[m]
<1>1. MaxEdits \in Nat /\ MaxFaults \in Nat
  BY ActivationAssumption
<1>2. Triggers \in SUBSET Nat /\ 0 \notin Triggers
  BY <1>1 DEF Triggers
<1>3. listening[m] = left[m] /\ left[m] \in SUBSET Triggers /\ IsFiniteSet(left[m])
  BY DEF LeftIsCounted, own
<1>4. Cardinality(left[m]) <= MaxFaults
  <2>1. Cardinality(left[m]) \in Nat
    BY <1>3, FS_CardinalityType
  <2>2. Cardinality(left[m]) <= faults /\ faults \in 0..MaxFaults
    BY DEF LeftIsCounted
  <2> QED  BY <1>1, <2>1, <2>2
<1>5. Cardinality(Triggers) = 3 + MaxEdits + MaxFaults
  <2>1. 1 \in Int /\ 3 + MaxEdits + MaxFaults \in Int /\ ~(1 > 3 + MaxEdits + MaxFaults)
    BY <1>1
  <2>2. Cardinality(1..(3 + MaxEdits + MaxFaults)) = (3 + MaxEdits + MaxFaults) - 1 + 1
    BY <2>1, FS_Interval
  <2> QED  BY <1>1, <2>2 DEF Triggers
<1>6. left[m] # Triggers
  <2>1. ASSUME left[m] = Triggers
        PROVE  FALSE
    <3>1. 3 + MaxEdits + MaxFaults <= MaxFaults
      BY <1>4, <1>5, <2>1
    <3> QED  BY <1>1, <3>1
  <2> QED  BY <2>1
<1> DEFINE S == Triggers \ (listening[m] \cup {op.trigger : op \in ops[m]})
<1>7. S \in SUBSET Nat /\ S # {} /\ S \subseteq Triggers \ left[m]
  <2>1. {op.trigger : op \in ops[m]} \subseteq {0}
    OBVIOUS
  <2>2. PICK x \in Triggers : x \notin left[m]
    BY <1>3, <1>6
  <2>3. x \in S
    BY <1>2, <1>3, <2>1, <2>2
  <2> QED  BY <1>2, <1>3, <2>3
<1>8. Min(S) \in S
  BY <1>7, LeastIsMember
<1> QED  BY <1>2, <1>7, <1>8 DEF freshTrigger

\* What beginning an operation does.
LEMMA BeginAdd ==
    ASSUME ActivationTypes, NEW m \in Mains, MemoryIsTrue(m), NEW by \in Callers, beginAdd(m, by)
    PROVE  /\ ops' \in [Mains -> SUBSET Operations]
           /\ \A n \in Mains \ {m} : ops'[n] = ops[n]
           /\ ~leader'[m] => ops'[m] = ops[m]
           /\ leader'[m] => \E a \in Operations : /\ a.kind = "add" /\ a.by = by /\ a.trigger = 0
                                                  /\ ops'[m] = ops[m] \cup {a}
<1>1. ops \in [Mains -> SUBSET Operations] /\ \A p, q \in ops[m] : p = q
  BY DEF ActivationTypes, MemoryIsTrue
<1>2. /\ addOp(m, by) \in Operations /\ addOp(m, by).kind = "add"
      /\ addOp(m, by).by = by /\ addOp(m, by).trigger = 0
  BY <1>1, NewOperation
<1> QED  BY <1>1, <1>2 DEF beginAdd

LEMMA BeginRemove ==
    ASSUME ActivationTypes, NEW m \in Mains, MemoryIsTrue(m), NEW by \in Callers, beginRemove(m, by)
    PROVE  /\ ops' \in [Mains -> SUBSET Operations]
           /\ \A n \in Mains \ {m} : ops'[n] = ops[n]
           /\ entry[m] = 0 => ops'[m] = ops[m]
           /\ entry[m] # 0 => \E a \in Operations :
                                 /\ a.kind = "remove" /\ a.by = by /\ a.trigger = entry[m]
                                 /\ ops'[m] = ops[m] \cup {a}
<1>1. ops \in [Mains -> SUBSET Operations] /\ \A p, q \in ops[m] : p = q
  BY DEF ActivationTypes, MemoryIsTrue
<1>2. /\ removeOp(m, by) \in Operations /\ removeOp(m, by).kind = "remove"
      /\ removeOp(m, by).by = by /\ removeOp(m, by).trigger = entry[m]
  BY <1>1, NewOperation
<1> QED  BY <1>1, <1>2 DEF beginRemove

LEMMA NotInMemory ==
    ASSUME NEW m \in Mains, entry[m] = 0
    PROVE  kept(m) = 0
BY DEF kept

\* The operation that ends was the only one.
LEMMA EndOperation ==
    ASSUME ActivationTypes, NEW m \in Mains, MemoryIsTrue(m), NEW op \in ops[m], endOp(m, op)
    PROVE  /\ ops' \in [Mains -> SUBSET Operations] /\ ops'[m] = {}
           /\ \A n \in Mains \ {m} : ops'[n] = ops[n]
BY DEF endOp, MemoryIsTrue, ActivationTypes

-----------------------------------------------------------------------------
(* A main a step leaves alone                                              *)

LEMMA MemoryKept ==
    ASSUME NEW n \in Mains, MemoryIsTrue(n),
           ops'[n] = ops[n], kept(n)' = kept(n), own(n)' = own(n), entry'[n] = entry[n],
           leader'[n] = leader[n]
    PROVE  MemoryIsTrue(n)'
BY DEF MemoryIsTrue

\* Neither the update nor a retry begins, and no command is sent to n or taken by it.
LEMMA LeaderKept ==
    ASSUME NEW n \in Mains, LeaderIsInTurn(n), holds(n)' => holds(n),
           ops'[n] = ops[n], kept(n)' = kept(n), inbox'[n] = inbox[n],
           active' = active, multiMain' = multiMain,
           api.pc = "idle" => api'.pc = "idle",
           api'.pc \in {"save", "add"} => api.pc \in {"save", "add"},
           inbox[n] = <<"remove">> /\ active /\ api.pc \in {"save", "add"}
              => api'.pc \in {"save", "add"},
           \A r \in Mains : queued'[r] = "armed" => queued[r] = "armed"
    PROVE  LeaderIsInTurn(n)'
BY DEF LeaderIsInTurn, clear, adds

LEMMA TriggersKept ==
    ASSUME NEW n \in Mains, LeaderGetsTriggers(n), holds(n)' => holds(n),
           ops'[n] = ops[n], kept(n)' = kept(n), inbox'[n] = inbox[n], queued'[n] = queued[n],
           up'[n] = up[n], active' = active,
           api.pc \in {"remove", "save", "add"} => api'.pc \in {"remove", "save", "add"}
    PROVE  LeaderGetsTriggers(n)'
BY DEF LeaderGetsTriggers, adds

-----------------------------------------------------------------------------
(* Operations that end                                                     *)

LEMMA AddSucceedsInTurn ==
    ASSUME ActivationTypes, LeftIsCounted, DownIsEmpty, InTurn, NEW m \in Mains, NEW op \in ops[m],
           AddSucceeds(m, op)
    PROVE  ActivationTypes' /\ DownIsEmpty' /\ InTurn'
<1> DEFINE t == freshTrigger(m)
<1>1. /\ MemoryIsTrue(m) /\ LeaderIsInTurn(m) /\ Roles /\ CallersAreKnown /\ RetryIsAlone
      /\ SingleUpdate /\ CommandsInTurn
  BY DEF InTurn
<1>2. /\ op.kind = "add" /\ op.trigger = 0 /\ kept(m) = 0 /\ own(m) = {} /\ leader[m]
      /\ ops[m] = {op} /\ op.by \in Callers
  BY <1>1 DEF AddSucceeds, MemoryIsTrue, ActivationTypes, Operations, Commands
<1>3. t \in Triggers /\ t # 0 /\ t \notin left[m]
  BY <1>2, FreshTrigger
<1>4. /\ ops' \in [Mains -> SUBSET Operations] /\ ops'[m] = {}
      /\ \A n \in Mains \ {m} : ops'[n] = ops[n]
  BY <1>1, EndOperation DEF AddSucceeds
<1>5. /\ listening' = [listening EXCEPT ![m] = @ \cup {t}] /\ entry' = [entry EXCEPT ![m] = t]
      /\ queued' = [queued EXCEPT ![m] = "no"]
      /\ api' = (IF op.by = "api" THEN NoCall ELSE api)
      /\ UNCHANGED <<multiMain, up, leader, leaderKey, trying, left, active, inbox, excused>>
  BY DEF AddSucceeds, apiEnds, mainVars
<1> HIDE DEF t
<1>6. /\ kept(m)' = t /\ own(m)' = {t} /\ queued'[m] = "no"
      /\ \A n \in Mains \ {m} : /\ kept(n)' = kept(n) /\ own(n)' = own(n)
                                /\ queued'[n] = queued[n]
                                /\ entry'[n] = entry[n] /\ listening'[n] = listening[n]
  <2>1. /\ entry'[m] = t /\ listening'[m] = listening[m] \cup {t} /\ queued'[m] = "no"
        /\ \A n \in Mains \ {m} : /\ entry'[n] = entry[n] /\ listening'[n] = listening[n]
                                  /\ queued'[n] = queued[n]
    BY <1>5 DEF ActivationTypes
  <2> QED  BY <1>2, <1>3, <1>5, <2>1 DEF kept, own
<1>7. ActivationTypes'
  <2>1. /\ entry' \in [Mains -> Triggers \cup {0}] /\ listening' \in [Mains -> SUBSET Triggers]
        /\ queued' \in [Mains -> {"no", "armed", "fired"}]
    BY <1>3, <1>5 DEF ActivationTypes
  <2>2. api' \in [pc: ApiStates, main: Mains \cup {NoMain}, want: BOOLEAN]
    BY <1>5 DEF ActivationTypes, NoCall, ApiStates
  <2>3. \A n \in Mains : \A p \in ops'[n] : p.kind = "remove" <=> p.trigger # 0
    BY <1>4 DEF ActivationTypes
  <2> QED  BY <1>4, <1>5, <2>1, <2>2, <2>3 DEF ActivationTypes
<1>8. Up(m) /\ (\A n \in Mains : Up(n)' = Up(n))
  BY <1>2, <1>5 DEF DownIsEmpty, Up
<1>9. DownIsEmpty'
  BY <1>4, <1>5, <1>6, <1>8 DEF DownIsEmpty
<1>10. \A n \in Mains : holds(n)' = holds(n)
  BY <1>5, <1>8 DEF holds
<1>11. \/ api'.pc = api.pc
       \/ op.by = "api" /\ api.pc = "adding" /\ api'.pc = "idle" /\ ~multiMain
  BY <1>1, <1>2, <1>5 DEF NoCall, CallersAreKnown
<1>12. \A n \in Mains : MemoryIsTrue(n)'
  <2>1. MemoryIsTrue(m)'
    BY <1>2, <1>3, <1>4, <1>5, <1>6 DEF MemoryIsTrue
  <2>2. ASSUME NEW n \in Mains \ {m}
        PROVE  MemoryIsTrue(n)'
    <3>1. MemoryIsTrue(n)
      BY DEF InTurn
    <3> QED  BY <1>4, <1>5, <1>6, <3>1, MemoryKept
  <2> QED  BY <2>1, <2>2
<1>13. Roles'
  BY <1>1, <1>5, <1>8 DEF Roles, NoCall
<1>14. CallersAreKnown'
  BY <1>1, <1>2, <1>4, <1>5, <1>6 DEF CallersAreKnown, NoCall, Roles
<1>15. CommandsInTurn'
  BY <1>1, <1>5, <1>11 DEF CommandsInTurn
<1>16. RetryIsAlone'
  BY <1>1, <1>2, <1>4, <1>5, <1>6, <1>8, <1>10, <1>11 DEF RetryIsAlone, clear, adds
<1>17. SingleUpdate'
  BY <1>1, <1>2, <1>4, <1>5, <1>6 DEF SingleUpdate, NoCall, Roles
<1>18. ASSUME NEW n \in Mains
       PROVE  LeaderIsInTurn(n)' /\ LeaderGetsTriggers(n)'
  <2>1. CASE n # m
    <3>1. LeaderIsInTurn(n) /\ LeaderGetsTriggers(n)
      BY DEF InTurn
    <3> QED  BY <1>4, <1>5, <1>6, <1>10, <1>11, <2>1, <3>1, LeaderKept, TriggersKept
  <2>2. CASE n = m
    <3>1. holds(m) => inbox[m] = <<>> /\ active /\ api'.pc \notin {"save", "add"}
      BY <1>1, <1>2, <1>11 DEF LeaderIsInTurn, clear, adds, CallersAreKnown
    <3>2. LeaderIsInTurn(m)'
      BY <1>4, <1>5, <1>10, <3>1 DEF LeaderIsInTurn
    <3>3. LeaderGetsTriggers(m)'
      BY <1>3, <1>4, <1>6 DEF LeaderGetsTriggers
    <3> QED  BY <2>2, <3>2, <3>3
  <2> QED  BY <2>1, <2>2
<1> QED
  BY <1>7, <1>9, <1>12, <1>13, <1>14, <1>15, <1>16, <1>17, <1>18 DEF InTurn

\* There is one main at most that really is the leader, and it is up.
LEMMA OneHolder ==
    ASSUME DownIsEmpty, Roles, NEW m \in Mains, holds(m)
    PROVE  Up(m) /\ leader[m] /\ \A n \in Mains : holds(n) => n = m
BY DEF DownIsEmpty, Roles, holds

LEMMA AddFailsInTurn ==
    ASSUME ActivationTypes, LeftIsCounted, DownIsEmpty, InTurn, NEW m \in Mains, NEW op \in ops[m],
           NEW progress \in Progress, NEW authorization \in BOOLEAN,
           AddFails(m, op, progress, authorization)
    PROVE  ActivationTypes' /\ DownIsEmpty' /\ (~excused' => InTurn')
<1> DEFINE armed == \/ op.by \in {"init", "takeover"} /\ ~authorization
                    \/ op.by = "retry" /\ queued[m] # "no"
<1>1. /\ MemoryIsTrue(m) /\ LeaderIsInTurn(m) /\ Roles /\ CallersAreKnown /\ RetryIsAlone
      /\ SingleUpdate /\ CommandsInTurn
  BY DEF InTurn
<1>2. /\ op.kind = "add" /\ op.trigger = 0 /\ kept(m) = 0 /\ own(m) = {} /\ leader[m]
      /\ ops[m] = {op} /\ op.by \in Adders
  BY <1>1 DEF AddFails, MemoryIsTrue, CallersAreKnown, ActivationTypes, Operations, Commands
<1>3. /\ ops' \in [Mains -> SUBSET Operations] /\ ops'[m] = {}
      /\ \A n \in Mains \ {m} : ops'[n] = ops[n]
  BY <1>1, EndOperation DEF AddFails
<1>4. /\ active' = (IF op.by \in {"command", "api"} THEN FALSE ELSE active)
      /\ excused' = (excused \/ authorization \/ lostKey(m))
      /\ api' = (IF op.by = "api" THEN NoCall ELSE api)
      /\ UNCHANGED <<multiMain, up, leader, leaderKey, trying, inbox>>
      /\ leaveRunning(m, progress)
  BY DEF AddFails, apiEnds, mainVars, overlap
<1>0. /\ kept(m)' = 0 /\ own(m)' = {}
      /\ \A n \in Mains \ {m} : /\ kept(n)' = kept(n) /\ own(n)' = own(n)
                                /\ entry'[n] = entry[n] /\ listening'[n] = listening[n]
      /\ entry' \in [Mains -> Triggers \cup {0}] /\ listening' \in [Mains -> SUBSET Triggers]
  <2> DEFINE t == freshTrigger(m)
  <2>1. t \in Triggers /\ t # 0
    BY <1>2, FreshTrigger
  <2>2. /\ listening' = [listening EXCEPT ![m] = IF progress = "none" THEN @ ELSE @ \cup {t}]
        /\ left' = [left EXCEPT ![m] = IF progress = "none" THEN @ ELSE @ \cup {t}]
        /\ entry' = [entry EXCEPT ![m] = IF progress = "triggers" THEN t ELSE @]
    BY <1>4 DEF leaveRunning
  <2> HIDE DEF t
  <2>3. entry' \in [Mains -> Triggers \cup {0}] /\ listening' \in [Mains -> SUBSET Triggers]
    BY <2>1, <2>2 DEF ActivationTypes
  <2>4. /\ listening'[m] = IF progress = "none" THEN listening[m] ELSE listening[m] \cup {t}
        /\ left'[m] = IF progress = "none" THEN left[m] ELSE left[m] \cup {t}
        /\ entry'[m] = IF progress = "triggers" THEN t ELSE entry[m]
        /\ \A n \in Mains \ {m} : /\ entry'[n] = entry[n] /\ listening'[n] = listening[n]
                                  /\ left'[n] = left[n]
    BY <2>2 DEF ActivationTypes, LeftIsCounted
  <2>5. own(m)' = {}
    BY <1>2, <2>4 DEF own
  <2>6. kept(m)' = 0
    BY <1>2, <2>4 DEF kept
  <2> QED  BY <2>3, <2>4, <2>5, <2>6 DEF kept, own
<1>5. queued' = [queued EXCEPT ![m] = IF armed THEN "armed" ELSE @]
  BY DEF AddFails
<1>6. /\ queued'[m] = (IF armed THEN "armed" ELSE queued[m])
      /\ \A n \in Mains \ {m} : queued'[n] = queued[n]
  BY <1>5 DEF ActivationTypes
<1>7. ActivationTypes'
  <2>1. queued' \in [Mains -> {"no", "armed", "fired"}]
    BY <1>5 DEF ActivationTypes
  <2>2. api' \in [pc: ApiStates, main: Mains \cup {NoMain}, want: BOOLEAN]
    BY <1>4 DEF ActivationTypes, NoCall, ApiStates
  <2>3. \A n \in Mains : \A p \in ops'[n] : p.kind = "remove" <=> p.trigger # 0
    BY <1>3 DEF ActivationTypes
  <2>4. active' \in BOOLEAN
    BY <1>4 DEF ActivationTypes
  <2>5. excused' \in BOOLEAN
    BY <1>4, Zenon DEF ActivationTypes, lostKey
  <2> QED  BY <1>0, <1>3, <1>4, <2>1, <2>2, <2>3, <2>4, <2>5 DEF ActivationTypes
<1>8. Up(m) /\ (\A n \in Mains : Up(n)' = Up(n))
  BY <1>2, <1>4 DEF DownIsEmpty, Up
<1>9. DownIsEmpty'
  BY <1>0, <1>3, <1>4, <1>6, <1>8 DEF DownIsEmpty
<1>10. ASSUME ~excused'
       PROVE  InTurn'
  <2>1. ~authorization /\ holds(m)
    BY <1>4, <1>8, <1>10 DEF lostKey, holds
  <2>2. \A n \in Mains : holds(n)' = holds(n) /\ (holds(n)' => n = m)
    BY <1>1, <1>4, <1>8, <2>1, OneHolder DEF holds
  <2>3. /\ inbox[m] = <<>> /\ active /\ (op.by # "api" => api.pc = "idle")
        /\ multiMain => \A r \in Mains : queued[r] # "armed"
    BY <1>1, <1>2, <2>1 DEF LeaderIsInTurn, clear, adds
  <2>4. op.by = "api" => api.pc = "adding" /\ ~multiMain /\ \A r \in Mains : queued[r] # "armed"
    BY <1>1, <1>2 DEF CallersAreKnown, RetryIsAlone
  <2>5. api'.pc = "idle" \/ api' = api
    BY <1>4 DEF NoCall
  <2>6. api'.pc = "idle"
    BY <1>4, <2>3 DEF NoCall
  <2>7. Roles'
    BY <1>1, <1>4, <1>8, <2>6 DEF Roles
  <2>8. CallersAreKnown'
    BY <1>1, <1>3, <1>4, <1>6, <2>4, <2>6 DEF CallersAreKnown, Roles
  <2>9. CommandsInTurn'
    BY <1>1, <1>4, <2>6 DEF CommandsInTurn
  <2>10. SingleUpdate'
    BY <2>6 DEF SingleUpdate
  <2>11. op.by = "command" => multiMain
    BY <1>1 DEF CallersAreKnown
  <2>12. RetryIsAlone'
    <3>1. SUFFICES ASSUME NEW r \in Mains, queued'[r] = "armed"
                   PROVE  /\ active' /\ api'.pc = "idle"
                          /\ multiMain' => /\ \A o \in Mains : queued'[o] = "armed" => o = r
                                           /\ \A n \in Mains : holds(n)' => clear(n)' /\ inbox'[n] = <<>>
                          /\ ~multiMain' => (kept(r)' # 0 => ops'[r] # {})
      BY DEF RetryIsAlone
    <3>2. op.by \notin {"command", "api"}
      BY <1>6, <2>3, <2>4, <2>11, <3>1
    <3>3. multiMain => r = m /\ \A o \in Mains : queued'[o] = "armed" => o = r
      BY <1>6, <2>3, <3>1
    <3>4. clear(m)'
      BY <1>0, <1>2, <1>3, <1>4 DEF clear, adds
    <3>5. kept(r)' # 0 => ops'[r] # {} \/ multiMain
      BY <1>0, <1>1, <1>2, <1>3, <1>4, <1>6, <3>1 DEF RetryIsAlone
    <3> QED  BY <1>4, <2>2, <2>3, <2>6, <3>2, <3>3, <3>4, <3>5
  <2>13. \A n \in Mains : MemoryIsTrue(n)'
    <3>1. MemoryIsTrue(m)'
      BY <1>0, <1>3, <1>4 DEF MemoryIsTrue
    <3>2. ASSUME NEW n \in Mains \ {m}
          PROVE  MemoryIsTrue(n)'
      <4>1. MemoryIsTrue(n)
        BY DEF InTurn
      <4> QED  BY <1>0, <1>3, <1>4, <4>1, MemoryKept
    <3> QED  BY <3>1, <3>2
  <2>14. \A n \in Mains : LeaderIsInTurn(n)'
    <3>1. LeaderIsInTurn(m)'
      BY <1>0, <1>3, <1>4, <2>3, <2>6 DEF LeaderIsInTurn, clear, adds
    <3> QED  BY <2>2, <3>1 DEF LeaderIsInTurn
  <2>15. \A n \in Mains : LeaderGetsTriggers(n)'
    <3>1. op.by = "retry" => queued[m] = "fired"
      BY <1>1 DEF CallersAreKnown
    <3>2. op.by \notin {"command", "api"} => armed
      BY <1>2, <2>1, <3>1 DEF Adders
    <3>3. LeaderGetsTriggers(m)'
      BY <1>4, <1>6, <3>2 DEF LeaderGetsTriggers
    <3> QED  BY <2>2, <3>3 DEF LeaderGetsTriggers
  <2> QED  BY <2>7, <2>8, <2>9, <2>10, <2>12, <2>13, <2>14, <2>15 DEF InTurn
<1> QED  BY <1>7, <1>9, <1>10

\* A removal has ended, well or not: nothing of the workflow runs but what was left running.
LEMMA RemovalInTurn ==
    ASSUME ActivationTypes, DownIsEmpty, InTurn, NEW m \in Mains, NEW op \in ops[m],
           op.kind = "remove", endOp(m, op),
           kept(m)' = 0, own(m)' = {}, listening' \in [Mains -> SUBSET Triggers],
           entry' \in [Mains -> Triggers \cup {0}],
           \A n \in Mains \ {m} : /\ kept(n)' = kept(n) /\ own(n)' = own(n)
                                  /\ entry'[n] = entry[n] /\ listening'[n] = listening[n],
           api' = IF op.by = "api" THEN [api EXCEPT !.pc = "save"] ELSE api,
           UNCHANGED <<multiMain, up, leader, leaderKey, trying, queued, active, inbox>>,
           excused' = FALSE
    PROVE  ActivationTypes' /\ DownIsEmpty' /\ InTurn'
<1>1. /\ MemoryIsTrue(m) /\ LeaderIsInTurn(m) /\ LeaderGetsTriggers(m) /\ Roles
      /\ CallersAreKnown /\ RetryIsAlone /\ SingleUpdate /\ CommandsInTurn
  BY DEF InTurn
<1>2. ops[m] = {op}
  BY <1>1 DEF MemoryIsTrue
<1>3. /\ ops' \in [Mains -> SUBSET Operations] /\ ops'[m] = {}
      /\ \A n \in Mains \ {m} : ops'[n] = ops[n]
  BY <1>1, EndOperation
<1>6. api \in [pc: ApiStates, main: Mains \cup {NoMain}, want: BOOLEAN]
  BY DEF ActivationTypes
<1>7. /\ api' \in [pc: ApiStates, main: Mains \cup {NoMain}, want: BOOLEAN]
      /\ api'.main = api.main /\ api'.pc = (IF op.by = "api" THEN "save" ELSE api.pc)
      /\ op.by = "api" => api.pc = "remove" /\ ~multiMain /\ api.main = m
  BY <1>1, <1>2, <1>6 DEF ApiStates, CallersAreKnown
<1>8. ActivationTypes'
  <2>1. \A n \in Mains : \A p \in ops'[n] : p.kind = "remove" <=> p.trigger # 0
    <3>1. \A n \in Mains : \A p \in ops[n] : p.kind = "remove" <=> p.trigger # 0
      BY DEF ActivationTypes
    <3> QED  BY <1>3, <3>1
  <2> QED  BY <1>3, <1>7, <2>1 DEF ActivationTypes
<1>9. Up(m) /\ (\A n \in Mains : Up(n)' = Up(n))
  BY <1>2 DEF DownIsEmpty, Up
<1>10. DownIsEmpty'
  BY <1>3, <1>9 DEF DownIsEmpty
<1>11. \A n \in Mains : holds(n)' = holds(n) /\ (~multiMain /\ holds(n) => n = m)
  BY <1>1, <1>9 DEF holds, Roles
<1>12. Roles'
  BY <1>1, <1>7, <1>9 DEF Roles
<1>13. CallersAreKnown'
  BY <1>1, <1>3, <1>7 DEF CallersAreKnown
<1>14. CommandsInTurn'
  BY <1>1, <1>7 DEF CommandsInTurn
<1>15. SingleUpdate'
  BY <1>1, <1>2, <1>3, <1>7 DEF SingleUpdate, Roles
<1>16. RetryIsAlone'
  BY <1>1, <1>2, <1>3, <1>7, <1>11 DEF RetryIsAlone, clear, adds
<1>17. \A n \in Mains : MemoryIsTrue(n)'
  <2>1. MemoryIsTrue(m)'
    BY <1>3 DEF MemoryIsTrue
  <2>2. ASSUME NEW n \in Mains \ {m}
        PROVE  MemoryIsTrue(n)'
    <3>1. MemoryIsTrue(n)
      BY DEF InTurn
    <3> QED  BY <1>3, <3>1, MemoryKept
  <2> QED  BY <2>1, <2>2
<1>18. ASSUME NEW n \in Mains
       PROVE  LeaderIsInTurn(n)' /\ LeaderGetsTriggers(n)'
  <2>1. CASE n # m
    <3>1. LeaderIsInTurn(n) /\ LeaderGetsTriggers(n)
      BY DEF InTurn
    <3>2. CASE multiMain
      BY <1>3, <1>7, <1>11, <2>1, <3>1, <3>2, LeaderKept, TriggersKept
    <3>3. CASE ~multiMain
      BY <1>11, <2>1, <3>3 DEF LeaderIsInTurn, LeaderGetsTriggers
    <3> QED  BY <3>2, <3>3
  <2>2. CASE n = m
    <3>1. LeaderIsInTurn(m)'
      BY <1>1, <1>3, <1>7, <1>11 DEF LeaderIsInTurn, clear, adds, Roles
    <3>2. LeaderGetsTriggers(m)'
      BY <1>1, <1>2, <1>3, <1>7, <1>11 DEF LeaderGetsTriggers, adds
    <3> QED  BY <2>2, <3>1, <3>2
  <2> QED  BY <2>1, <2>2
<1> QED
  BY <1>8, <1>10, <1>12, <1>13, <1>14, <1>15, <1>16, <1>17, <1>18 DEF InTurn

LEMMA RemoveEndsInTurn ==
    ASSUME ActivationTypes, LeftIsCounted, DownIsEmpty, InTurn, ~excused, NEW m \in Mains,
           NEW op \in ops[m], RemoveEnds(m, op)
    PROVE  ActivationTypes' /\ DownIsEmpty' /\ InTurn'
<1>1. op.kind = "remove" /\ op.trigger = entry[m] /\ entry[m] # 0 /\ MemoryIsTrue(m)
  BY DEF RemoveEnds, InTurn, MemoryIsTrue, ActivationTypes
<1>2. /\ listening' = [listening EXCEPT ![m] = @ \ {op.trigger}] /\ entry' = [entry EXCEPT ![m] = 0]
      /\ left' = [left EXCEPT ![m] = @ \ {op.trigger}] /\ endOp(m, op)
      /\ api' = (IF op.by = "api" THEN [api EXCEPT !.pc = "save"] ELSE api)
      /\ UNCHANGED <<multiMain, up, leader, leaderKey, trying, queued, active, inbox>>
      /\ excused' = excused
  BY DEF RemoveEnds, mainVars
<1>3. /\ entry'[m] = 0 /\ listening'[m] = listening[m] \ {entry[m]}
      /\ left'[m] = left[m] \ {entry[m]}
      /\ \A n \in Mains \ {m} : /\ entry'[n] = entry[n] /\ listening'[n] = listening[n]
                                /\ left'[n] = left[n]
  BY <1>1, <1>2 DEF ActivationTypes, LeftIsCounted
<1>4. \A n \in Mains \ {m} : kept(n)' = kept(n) /\ own(n)' = own(n)
  BY <1>3 DEF kept, own
<1>5. kept(m)' = 0
  BY <1>3 DEF kept
<1>6. own(m)' = {}
  <2>1. own(m) \subseteq {entry[m]}
    BY <1>1 DEF MemoryIsTrue, kept
  <2>2. own(m)' = own(m) \ {entry[m]}
    BY <1>3 DEF own
  <2> QED  BY <2>1, <2>2
<1>7. listening' \in [Mains -> SUBSET Triggers] /\ entry' \in [Mains -> Triggers \cup {0}]
  BY <1>2 DEF ActivationTypes
<1>8. excused' = FALSE
  BY <1>2 DEF ActivationTypes
<1> QED  BY <1>1, <1>2, <1>3, <1>4, <1>5, <1>6, <1>7, <1>8, RemovalInTurn

\* What cannot be closed counts as left running from here on.
LEMMA RemoveFailsInTurn ==
    ASSUME ActivationTypes, LeftIsCounted, DownIsEmpty, InTurn, NEW m \in Mains,
           NEW op \in ops[m], RemoveFails(m, op)
    PROVE  ActivationTypes' /\ DownIsEmpty' /\ (~excused' => InTurn')
<1>1. op.kind = "remove" /\ op.trigger = entry[m] /\ entry[m] # 0 /\ MemoryIsTrue(m)
  BY DEF RemoveFails, InTurn, MemoryIsTrue, ActivationTypes
<1>2. /\ left' = [left EXCEPT ![m] = @ \cup (listening[m] \cap {op.trigger})] /\ endOp(m, op)
      /\ api' = (IF op.by = "api" THEN NoCall ELSE api)
      /\ UNCHANGED <<multiMain, up, leader, leaderKey, trying, listening, entry, queued, active, inbox>>
      /\ excused' = (excused \/ op.by = "api")
  BY DEF RemoveFails, mainVars, overlap, apiEnds
<1>3. /\ left'[m] = left[m] \cup (listening[m] \cap {entry[m]})
      /\ \A n \in Mains \ {m} : left'[n] = left[n]
  BY <1>1, <1>2 DEF LeftIsCounted
<1>4. \A n \in Mains \ {m} : kept(n)' = kept(n) /\ own(n)' = own(n)
  BY <1>2, <1>3 DEF kept, own
<1>5. own(m) = IF kept(m) = 0 THEN {} ELSE {kept(m)}
  BY <1>1 DEF MemoryIsTrue
<1>6. entry[m] \in left'[m]
  <2>1. CASE entry[m] \in left[m]
    BY <1>3, <2>1
  <2>2. CASE entry[m] \notin left[m]
    <3>1. own(m) = {entry[m]}
      BY <1>1, <1>5, <2>2 DEF kept
    <3> QED  BY <1>3, <3>1 DEF own
  <2> QED  BY <2>1, <2>2
<1>7. kept(m)' = 0
  BY <1>2, <1>6 DEF kept
<1>8. own(m)' = {}
  <2>1. own(m) \subseteq {entry[m]}
    BY <1>5 DEF kept
  <2> QED  BY <1>2, <1>3, <1>6, <2>1 DEF own
<1>9. ASSUME ~excused'
      PROVE  ActivationTypes' /\ DownIsEmpty' /\ InTurn'
  <2>1. excused' = FALSE /\ op.by # "api"
    BY <1>2, <1>9 DEF ActivationTypes
  <2>2. listening' \in [Mains -> SUBSET Triggers] /\ entry' \in [Mains -> Triggers \cup {0}]
    BY <1>2 DEF ActivationTypes
  <2> QED  BY <1>1, <1>2, <1>4, <1>7, <1>8, <2>1, <2>2, RemovalInTurn
<1>10. ActivationTypes' /\ DownIsEmpty'
  <2>1. /\ ops' \in [Mains -> SUBSET Operations] /\ ops'[m] = {}
        /\ \A n \in Mains \ {m} : ops'[n] = ops[n]
    BY <1>1, <1>2, EndOperation
  <2>2. api' \in [pc: ApiStates, main: Mains \cup {NoMain}, want: BOOLEAN]
    BY <1>2 DEF ActivationTypes, NoCall, ApiStates
  <2>3. excused' \in BOOLEAN
    BY <1>2, Zenon DEF ActivationTypes
  <2>4. \A n \in Mains : \A p \in ops'[n] : p.kind = "remove" <=> p.trigger # 0
    BY <2>1 DEF ActivationTypes
  <2>5. ActivationTypes'
    BY <1>2, <2>1, <2>2, <2>3, <2>4 DEF ActivationTypes
  <2>6. \A n \in Mains : Up(n)' = Up(n)
    BY <1>2 DEF Up
  <2> QED  BY <1>2, <2>1, <2>5, <2>6 DEF DownIsEmpty
<1> QED  BY <1>9, <1>10

-----------------------------------------------------------------------------
(* Errors, retries and commands                                            *)

LEMMA TriggerErrorInTurn ==
    ASSUME ActivationTypes, DownIsEmpty, InTurn, NEW m \in Mains, NEW t, TriggerError(m, t)
    PROVE  ActivationTypes' /\ DownIsEmpty' /\ (~excused' => InTurn')
<1>1. /\ MemoryIsTrue(m) /\ LeaderIsInTurn(m) /\ Roles /\ CallersAreKnown /\ RetryIsAlone
      /\ SingleUpdate /\ CommandsInTurn
  BY DEF InTurn
<1>2. Up(m) /\ t \in listening[m] /\ beginRemove(m, "error")
  BY DEF TriggerError
<1>3. /\ ops' \in [Mains -> SUBSET Operations]
      /\ \A n \in Mains \ {m} : ops'[n] = ops[n]
      /\ entry[m] = 0 => ops'[m] = ops[m]
      /\ entry[m] # 0 => \E a \in Operations :
                            /\ a.kind = "remove" /\ a.by = "error" /\ a.trigger = entry[m]
                            /\ ops'[m] = ops[m] \cup {a}
  BY <1>1, <1>2, BeginRemove DEF Callers
<1>5. /\ queued' = [queued EXCEPT ![m] = "armed"]
      /\ excused' = (excused \/ Busy \/ lostKey(m) \/ t \in left[m])
      /\ UNCHANGED <<multiMain, up, leader, leaderKey, trying, listening, entry, left, active,
                     inbox, api>>
      /\ \A n \in Mains : kept(n)' = kept(n) /\ own(n)' = own(n)
  BY DEF TriggerError, mainVars, overlap, kept, own
<1>6. queued'[m] = "armed" /\ \A n \in Mains \ {m} : queued'[n] = queued[n]
  BY <1>5 DEF ActivationTypes
<1>7. ActivationTypes'
  <2>1. queued' \in [Mains -> {"no", "armed", "fired"}]
    BY <1>5 DEF ActivationTypes
  <2>2. \A n \in Mains : \A p \in ops'[n] : p.kind = "remove" <=> p.trigger # 0
    BY <1>3 DEF ActivationTypes
  <2>3. excused' \in BOOLEAN
    BY <1>5, Zenon DEF ActivationTypes, lostKey, Busy
  <2> QED  BY <1>3, <1>5, <2>1, <2>2, <2>3 DEF ActivationTypes
<1>8. \A n \in Mains : Up(n)' = Up(n)
  BY <1>5 DEF Up
<1>9. DownIsEmpty'
  BY <1>2, <1>3, <1>5, <1>6, <1>8 DEF DownIsEmpty
<1>10. ASSUME ~excused'
       PROVE  InTurn'
  <2>1. holds(m) /\ ~Busy
    BY <1>2, <1>5, <1>10 DEF lostKey, holds
  <2>0. kept(m) # 0 /\ entry[m] # 0
    <3>1. t \in own(m)
      BY <1>2, <1>5, <1>10 DEF own
    <3> QED  BY <1>1, <3>1 DEF MemoryIsTrue, kept
  <2>14. PICK a \in Operations : /\ a.kind = "remove" /\ a.by = "error" /\ a.trigger = entry[m]
                                 /\ ops'[m] = ops[m] \cup {a}
    BY <1>3, <2>0
  <2>2. \A n \in Mains : holds(n)' = holds(n) /\ (holds(n)' => n = m)
    BY <1>1, <1>5, <1>8, <2>1, OneHolder DEF holds
  <2>3. /\ api.pc = "idle" /\ (multiMain => \A r \in Mains : queued[r] # "armed")
        /\ \A n \in Mains : ops[n] = {} /\ inbox[n] = <<>>
    BY <2>1 DEF Busy, retryElsewhere, inFlight
  <2>4. active /\ leader[m]
    BY <1>1, <2>0, <2>1, <2>3 DEF LeaderIsInTurn, clear, MemoryIsTrue
  <2>5. ops'[m] = {a} /\ \A n \in Mains \ {m} : ops'[n] = {}
    BY <1>3, <2>14, <2>3
  <2>6. clear(m)'
    BY <2>14, <2>5 DEF clear, adds
  <2>7. Roles'
    BY <1>1, <1>5, <1>8 DEF Roles
  <2>8. CallersAreKnown'
    BY <1>1, <2>14, <1>5, <2>5 DEF CallersAreKnown
  <2>9. CommandsInTurn' /\ SingleUpdate'
    BY <1>1, <1>5, <2>3 DEF CommandsInTurn, SingleUpdate
  <2>10. RetryIsAlone'
    BY <1>1, <1>5, <1>6, <2>2, <2>3, <2>4, <2>5, <2>6 DEF RetryIsAlone
  <2>11. \A n \in Mains : MemoryIsTrue(n)'
    <3>1. MemoryIsTrue(m)'
      BY <1>1, <2>14, <1>5, <2>5 DEF MemoryIsTrue
    <3>2. ASSUME NEW n \in Mains \ {m}
          PROVE  MemoryIsTrue(n)'
      <4>1. MemoryIsTrue(n)
        BY DEF InTurn
      <4> QED  BY <1>3, <1>5, <4>1, MemoryKept
    <3> QED  BY <3>1, <3>2
  <2>12. \A n \in Mains : LeaderIsInTurn(n)'
    <3>1. LeaderIsInTurn(m)'
      BY <2>14, <1>5, <2>3, <2>4, <2>5, <2>6 DEF LeaderIsInTurn
    <3> QED  BY <2>2, <3>1 DEF LeaderIsInTurn
  <2>13. \A n \in Mains : LeaderGetsTriggers(n)'
    BY <1>6, <2>2 DEF LeaderGetsTriggers
  <2> QED  BY <2>7, <2>8, <2>9, <2>10, <2>11, <2>12, <2>13 DEF InTurn
<1> QED  BY <1>7, <1>9, <1>10

\* A command goes to the mains that are up.
LEMMA Published ==
    ASSUME ActivationTypes, DownIsEmpty, NEW command \in Commands, publishCommand(command)
    PROVE  /\ inbox' \in [Mains -> Seq(Commands)]
           /\ \A n \in Mains : ~Up(n) => inbox'[n] = <<>>
           /\ \A n \in Mains : Up(n) => inbox'[n] = Append(inbox[n], command)
<1>1. inbox \in [Mains -> Seq(Commands)] /\ \A n \in Mains : ~Up(n) => inbox[n] = <<>>
  BY DEF ActivationTypes, DownIsEmpty
<1>2. \A n \in Mains : Append(inbox[n], command) \in Seq(Commands)
  BY <1>1
<1> QED  BY <1>1, <1>2 DEF publishCommand

LEMMA RetryActivationInTurn ==
    ASSUME ActivationTypes, DownIsEmpty, InTurn, NEW m \in Mains, RetryActivation(m)
    PROVE  ActivationTypes' /\ DownIsEmpty' /\ (~excused' => InTurn')
<1>1. /\ MemoryIsTrue(m) /\ Roles /\ CallersAreKnown /\ RetryIsAlone
      /\ SingleUpdate /\ CommandsInTurn
  BY DEF InTurn
<1>2. /\ queued[m] = "armed" /\ queued' = [queued EXCEPT ![m] = "fired"]
      /\ excused' = (excused \/ inFlight(m) \/ api.pc # "idle" \/ \E other \in Mains : inbox[other] # <<>>)
      /\ UNCHANGED <<multiMain, up, leader, leaderKey, trying, listening, entry, left, active,
                     api>>
      /\ \A n \in Mains : kept(n)' = kept(n) /\ own(n)' = own(n)
  BY DEF RetryActivation, mainVars, overlap, kept, own
<1>3. Up(m) /\ \A n \in Mains : Up(n)' = Up(n)
  BY <1>2 DEF DownIsEmpty, Up
<1>4. queued'[m] = "fired" /\ \A n \in Mains \ {m} : queued'[n] = queued[n]
  BY <1>2 DEF ActivationTypes
<1>5. queued' \in [Mains -> {"no", "armed", "fired"}]
  BY <1>2 DEF ActivationTypes
<1>6. excused' \in BOOLEAN
  BY <1>2, Zenon DEF ActivationTypes, inFlight
<1>7. \A n \in Mains : holds(n)' = holds(n)
  BY <1>2, <1>3 DEF holds
<1>8. ~excused' => /\ ops[m] = {} /\ api.pc = "idle" /\ active
                   /\ \A n \in Mains : inbox[n] = <<>>
  BY <1>1, <1>2 DEF inFlight, RetryIsAlone
<1>9. Roles /\ (~multiMain => inbox' = inbox) => Roles'
  BY <1>2, <1>3 DEF Roles
<1>10. CASE multiMain
  <2>1. ops' = ops /\ publishCommand("add")
    BY <1>10 DEF RetryActivation
  <2>2. /\ inbox' \in [Mains -> Seq(Commands)]
        /\ \A n \in Mains : ~Up(n) => inbox'[n] = <<>>
        /\ \A n \in Mains : Up(n) => inbox'[n] = Append(inbox[n], "add")
    BY <2>1, Published DEF Commands
  <2>3. ActivationTypes'
    BY <1>2, <1>5, <1>6, <2>1, <2>2 DEF ActivationTypes
  <2>4. DownIsEmpty'
    BY <1>2, <1>3, <1>4, <2>1, <2>2 DEF DownIsEmpty
  <2>5. ASSUME ~excused'
        PROVE  InTurn'
    <3>1. \A n \in Mains : Up(n) => inbox'[n] = <<"add">>
      BY <1>8, <2>2, <2>5
    <3>2. \A n \in Mains : holds(n) => clear(n) /\ Up(n)
      BY <1>1, <1>2, <1>10, OneHolder DEF RetryIsAlone
    <3>3. \A r \in Mains : queued'[r] # "armed"
      BY <1>1, <1>2, <1>4, <1>10 DEF RetryIsAlone
    <3>4. Roles' /\ RetryIsAlone' /\ SingleUpdate'
      BY <1>1, <1>2, <1>9, <1>10, <3>3 DEF RetryIsAlone, SingleUpdate
    <3>5. CallersAreKnown'
      BY <1>1, <1>2, <1>10, <2>1 DEF CallersAreKnown
    <3>6. CommandsInTurn'
      BY <1>2, <1>8, <2>2, <2>5, <3>1 DEF CommandsInTurn
    <3>7. ASSUME NEW n \in Mains
          PROVE  MemoryIsTrue(n)' /\ LeaderIsInTurn(n)' /\ LeaderGetsTriggers(n)'
      <4>1. MemoryIsTrue(n)
        BY DEF InTurn
      <4>2. MemoryIsTrue(n)'
        BY <1>2, <2>1, <4>1, MemoryKept
      <4>3. holds(n)' => inbox'[n] = <<"add">> /\ clear(n)' /\ active'
        BY <1>2, <1>7, <1>8, <2>1, <2>5, <3>1, <3>2 DEF clear, adds
      <4>4. LeaderIsInTurn(n)'
        BY <4>3 DEF LeaderIsInTurn, clear, adds
      <4>5. LeaderGetsTriggers(n)'
        BY <4>3 DEF LeaderGetsTriggers
      <4> QED  BY <4>2, <4>4, <4>5
    <3> QED  BY <3>4, <3>5, <3>6, <3>7 DEF InTurn
  <2> QED  BY <2>3, <2>4, <2>5
<1>11. CASE ~multiMain
  <2>1. inbox' = inbox /\ ops' = [ops EXCEPT ![m] = @ \cup {addOp(m, "retry")}]
    BY <1>11 DEF RetryActivation
  <2>2. \A p, q \in ops[m] : p = q
    BY <1>1 DEF MemoryIsTrue
  <2>3. /\ addOp(m, "retry") \in Operations /\ addOp(m, "retry").kind = "add"
        /\ addOp(m, "retry").by = "retry" /\ addOp(m, "retry").trigger = 0
    BY <2>2, NewOperation DEF Callers
  <2>4. /\ ops' \in [Mains -> SUBSET Operations] /\ ops'[m] = ops[m] \cup {addOp(m, "retry")}
        /\ \A n \in Mains \ {m} : ops'[n] = ops[n]
    BY <2>1, <2>3 DEF ActivationTypes
  <2>5. PICK a \in Operations : /\ a.kind = "add" /\ a.by = "retry" /\ a.trigger = 0
                                /\ ops'[m] = ops[m] \cup {a}
    BY <2>3, <2>4
  <2>6. ActivationTypes'
    <3>1. \A n \in Mains : \A p \in ops[n] : p.kind = "remove" <=> p.trigger # 0
      BY DEF ActivationTypes
    <3>2. \A n \in Mains \ {m} : ops'[n] = ops[n]
      BY <2>4
    <3>3. \A n \in Mains : \A p \in ops'[n] : p.kind = "remove" <=> p.trigger # 0
      BY <2>5, <3>1, <3>2
    <3> QED  BY <1>2, <1>5, <1>6, <2>1, <2>4, <3>3 DEF ActivationTypes
  <2>7. DownIsEmpty'
    BY <1>2, <1>3, <1>4, <2>1, <2>4 DEF DownIsEmpty
  <2>8. ASSUME ~excused'
        PROVE  InTurn'
    <3>1. ops'[m] = {a}
      BY <1>8, <2>5, <2>8
    <3>2. \A n \in Mains : Up(n) => n = m
      BY <1>1, <1>3, <1>11 DEF Roles
    <3>3. \A n \in Mains \ {m} : ~holds(n) /\ queued[n] # "armed" /\ ops[n] = {}
      BY <1>11, <3>2 DEF holds, DownIsEmpty
    <3>4. \A r \in Mains : queued'[r] # "armed"
      BY <1>4, <3>3
    <3>5. kept(m) = 0 /\ leader[m]
      BY <1>1, <1>2, <1>3, <1>8, <1>11, <2>8 DEF RetryIsAlone, Roles
    <3>6. Roles' /\ RetryIsAlone' /\ CommandsInTurn' /\ SingleUpdate'
      BY <1>1, <1>2, <1>8, <1>9, <2>1, <2>8, <3>4 DEF RetryIsAlone, CommandsInTurn, SingleUpdate
    <3>7. CallersAreKnown'
      BY <1>1, <1>2, <1>4, <1>11, <2>4, <2>5, <3>1, <3>3 DEF CallersAreKnown, Adders
    <3>8. ASSUME NEW n \in Mains
          PROVE  MemoryIsTrue(n)' /\ LeaderIsInTurn(n)' /\ LeaderGetsTriggers(n)'
      <4>1. CASE n # m
        <5>1. MemoryIsTrue(n)
          BY DEF InTurn
        <5>2. MemoryIsTrue(n)'
          BY <1>2, <2>4, <4>1, <5>1, MemoryKept
        <5> QED  BY <1>7, <3>3, <4>1, <5>2 DEF LeaderIsInTurn, LeaderGetsTriggers
      <4>2. CASE n = m
        <5>1. MemoryIsTrue(m)'
          BY <1>1, <1>2, <2>5, <3>1, <3>5 DEF MemoryIsTrue
        <5>2. LeaderIsInTurn(m)'
          BY <1>2, <1>8, <1>11, <2>1, <2>8 DEF LeaderIsInTurn
        <5>3. LeaderGetsTriggers(m)'
          BY <2>5, <3>1 DEF LeaderGetsTriggers, adds
        <5> QED  BY <4>2, <5>1, <5>2, <5>3
      <4> QED  BY <4>1, <4>2
    <3> QED  BY <3>6, <3>7, <3>8 DEF InTurn
  <2> QED  BY <2>6, <2>7, <2>8
<1> QED  BY <1>10, <1>11

LEMMA ReceiveCommandInTurn ==
    ASSUME ActivationTypes, DownIsEmpty, InTurn, NEW m \in Mains, ReceiveCommand(m)
    PROVE  ActivationTypes' /\ DownIsEmpty' /\ (~excused' => InTurn')
<1>1. /\ MemoryIsTrue(m) /\ LeaderIsInTurn(m) /\ LeaderGetsTriggers(m) /\ Roles
      /\ CallersAreKnown /\ RetryIsAlone /\ SingleUpdate /\ CommandsInTurn
  BY DEF InTurn
<1> DEFINE command == Head(inbox[m])
<1>2. /\ Up(m) /\ inbox[m] # <<>> /\ inbox' = [inbox EXCEPT ![m] = Tail(@)]
      /\ UNCHANGED <<multiMain, up, leader, leaderKey, trying, listening, entry, left, queued,
                     active, api>>
      /\ \A n \in Mains : kept(n)' = kept(n) /\ own(n)' = own(n)
  BY DEF ReceiveCommand, kept, own
<1>3. multiMain
  BY <1>1, <1>2 DEF Roles
<1>4. \/ /\ inbox[m] = <<"remove">> /\ command = "remove" /\ Tail(inbox[m]) = <<>>
      \/ /\ inbox[m] = <<"add">> /\ command = "add" /\ Tail(inbox[m]) = <<>>
      \/ /\ inbox[m] = <<"remove", "add">> /\ command = "remove" /\ Tail(inbox[m]) = <<"add">>
  <2>1. inbox[m] \in {<<"remove">>, <<"add">>, <<"remove", "add">>}
    BY <1>1, <1>2 DEF CommandsInTurn
  <2>2. CASE inbox[m] = <<"remove">>
    BY <2>2
  <2>3. CASE inbox[m] = <<"add">>
    BY <2>3
  <2>4. CASE inbox[m] = <<"remove", "add">>
    BY <2>4
  <2> QED  BY <2>1, <2>2, <2>3, <2>4
<1>5. /\ ~leader[m] => UNCHANGED <<ops, excused>>
      /\ leader[m] /\ command = "add" => beginAdd(m, "command")
      /\ leader[m] /\ command = "remove" => beginRemove(m, "command")
      /\ leader[m] => excused' = (excused \/ inFlight(m) \/ lostKey(m))
  BY DEF ReceiveCommand, handleAddWebhooksTriggersAndPollers, handleRemoveTriggersAndPollers,
         overlap
<1>6. /\ inbox' \in [Mains -> Seq(Commands)] /\ inbox'[m] = Tail(inbox[m])
      /\ \A n \in Mains \ {m} : inbox'[n] = inbox[n]
  <2>1. inbox \in [Mains -> Seq(Commands)]
    BY DEF ActivationTypes
  <2>2. inbox[m] \in Seq(Commands)
    BY <2>1
  <2>3. Tail(inbox[m]) \in Seq(Commands)
    BY <1>2, <2>2
  <2> QED  BY <1>2, <2>1, <2>3
<1> HIDE DEF command
<1>7. /\ ops' \in [Mains -> SUBSET Operations] /\ \A n \in Mains \ {m} : ops'[n] = ops[n]
      /\ \/ ops'[m] = ops[m] /\ (leader[m] => command = "remove" /\ entry[m] = 0)
         \/ \E a \in Operations : /\ ops'[m] = ops[m] \cup {a} /\ leader[m] /\ a.by = "command"
                                  /\ a.kind = command
                                  /\ a.trigger = IF command = "add" THEN 0 ELSE entry[m]
                                  /\ command = "remove" => entry[m] # 0
  <2>1. CASE ~leader[m]
    BY <1>5, <2>1 DEF ActivationTypes
  <2>2. CASE leader[m] /\ command = "add"
    <3>1. leader'[m] /\ beginAdd(m, "command") /\ "command" \in Callers
      BY <1>2, <1>5, <2>2 DEF Callers
    <3> QED  BY <1>1, <2>2, <3>1, BeginAdd
  <2>3. CASE leader[m] /\ command = "remove"
    <3>1. beginRemove(m, "command") /\ "command" \in Callers
      BY <1>2, <1>5, <2>3 DEF Callers
    <3> QED  BY <1>1, <2>3, <3>1, BeginRemove
  <2> QED  BY <1>4, <2>1, <2>2, <2>3
<1>8. ActivationTypes'
  <2>1. \A n \in Mains : \A p \in ops'[n] : p.kind = "remove" <=> p.trigger # 0
    BY <1>4, <1>7 DEF ActivationTypes
  <2>2. excused' \in BOOLEAN
    <3>1. CASE leader[m]
      BY <1>5, <3>1, Zenon DEF ActivationTypes, lostKey, inFlight
    <3>2. CASE ~leader[m]
      BY <1>5, <3>2 DEF ActivationTypes
    <3> QED  BY <3>1, <3>2
  <2> QED  BY <1>2, <1>6, <1>7, <2>1, <2>2 DEF ActivationTypes
<1>9. \A n \in Mains : Up(n)' = Up(n)
  BY <1>2 DEF Up
<1>10. DownIsEmpty'
  BY <1>2, <1>6, <1>7, <1>9 DEF DownIsEmpty
<1>11. ASSUME ~excused'
       PROVE  InTurn'
  <2>1. \A n \in Mains : holds(n)' = holds(n)
    BY <1>2, <1>9 DEF holds
  <2>2. leader[m] => holds(m) /\ ops[m] = {}
    BY <1>3, <1>5, <1>11 DEF lostKey, inFlight, holds
  <2>3. holds(m) => leader[m] /\ \A n \in Mains : holds(n) => n = m
    BY <1>1, OneHolder
  <2>4. Roles'
    BY <1>1, <1>2, <1>3, <1>9 DEF Roles
  <2>5. CallersAreKnown'
    BY <1>1, <1>2, <1>3, <1>7 DEF CallersAreKnown, Adders
  <2>6. CommandsInTurn'
    BY <1>1, <1>2, <1>4, <1>6 DEF CommandsInTurn
  <2>7. SingleUpdate'
    BY <1>2, <1>3 DEF SingleUpdate
  <2>8. holds(m) => /\ \A r \in Mains : queued[r] # "armed"
                    /\ command = "add" => kept(m) = 0 /\ active /\ api.pc = "idle"
    <3>1. holds(m) => \A r \in Mains : queued[r] # "armed"
      BY <1>1, <1>2, <1>3 DEF RetryIsAlone
    <3>2. ASSUME holds(m), command = "add"
          PROVE  kept(m) = 0 /\ active /\ api.pc = "idle"
      <4>1. inbox[m] = <<"add">>
        BY <1>4, <3>2
      <4>2. clear(m) /\ active
        BY <1>1, <3>2, <4>1 DEF LeaderIsInTurn
      <4>3. api.pc = "idle"
        BY <1>1, <4>1 DEF CommandsInTurn
      <4> QED  BY <2>2, <2>3, <3>2, <4>2, <4>3 DEF clear
    <3> QED  BY <3>1, <3>2
  <2>9. RetryIsAlone'
    <3>1. CASE leader[m]
      BY <1>2, <2>2, <2>8, <3>1 DEF RetryIsAlone
    <3>2. CASE ~leader[m]
      <4>1. ops' = ops
        BY <1>5, <3>2
      <4>2. \A n \in Mains : holds(n) => inbox'[n] = inbox[n]
        BY <1>6, <2>3, <3>2
      <4> QED  BY <1>1, <1>2, <1>3, <2>1, <4>1, <4>2 DEF RetryIsAlone, clear, adds
    <3> QED  BY <3>1, <3>2
  <2>10. \A n \in Mains : MemoryIsTrue(n)'
    <3>1. MemoryIsTrue(m)'
      <4>1. CASE ops'[m] = ops[m]
        BY <1>1, <1>2, <4>1 DEF MemoryIsTrue
      <4>2. CASE ops'[m] # ops[m]
        <5>1. PICK a \in Operations : /\ ops'[m] = ops[m] \cup {a} /\ leader[m] /\ a.by = "command"
                                      /\ a.kind = command
                                      /\ a.trigger = IF command = "add" THEN 0 ELSE entry[m]
          BY <1>7, <4>2
        <5>2. ops'[m] = {a} /\ (command = "add" => kept(m) = 0) /\ command \in {"add", "remove"}
          BY <1>4, <2>2, <2>8, <5>1
        <5> QED  BY <1>1, <1>2, <5>1, <5>2 DEF MemoryIsTrue
      <4> QED  BY <4>1, <4>2
    <3>2. ASSUME NEW n \in Mains \ {m}
          PROVE  MemoryIsTrue(n)'
      <4>1. MemoryIsTrue(n)
        BY DEF InTurn
      <4> QED  BY <1>2, <1>7, <4>1, MemoryKept
    <3> QED  BY <3>1, <3>2
  <2>11. ASSUME NEW n \in Mains
         PROVE  LeaderIsInTurn(n)' /\ LeaderGetsTriggers(n)'
    <3>1. CASE n # m
      <4>1. LeaderIsInTurn(n) /\ LeaderGetsTriggers(n)
        BY DEF InTurn
      <4> QED  BY <1>2, <1>6, <1>7, <2>1, <3>1, <4>1, LeaderKept, TriggersKept
    <3>2. CASE ~holds(m)
      BY <2>1, <3>1, <3>2 DEF LeaderIsInTurn, LeaderGetsTriggers
    <3>3. CASE holds(m) /\ command = "add"
      <4>1. PICK a \in Operations : /\ ops'[m] = {a} /\ a.kind = "add" /\ a.by = "command"
        BY <1>7, <2>2, <2>3, <3>3
      <4>2. inbox'[m] = <<>> /\ active' /\ api'.pc = "idle" /\ \A r \in Mains : queued'[r] # "armed"
        BY <1>2, <1>4, <1>6, <2>8, <3>3
      <4>3. LeaderIsInTurn(m)'
        BY <4>1, <4>2 DEF LeaderIsInTurn
      <4>4. LeaderGetsTriggers(m)'
        BY <4>1 DEF LeaderGetsTriggers, adds
      <4> QED  BY <3>1, <4>3, <4>4
    <3>4. CASE holds(m) /\ command = "remove"
      <4>1. clear(m)'
        BY <1>2, <1>7, <2>2, <2>3, <3>4, NotInMemory DEF clear, adds
      <4>2. \/ inbox[m] = <<"remove">> /\ inbox'[m] = <<>> /\ (active => api.pc \in {"save", "add"})
            \/ inbox[m] = <<"remove", "add">> /\ inbox'[m] = <<"add">> /\ active
        BY <1>1, <1>4, <1>6, <3>4 DEF LeaderIsInTurn
      <4>3. LeaderIsInTurn(m)'
        BY <1>2, <4>1, <4>2 DEF LeaderIsInTurn, clear, adds
      <4>4. LeaderGetsTriggers(m)'
        BY <1>2, <4>2 DEF LeaderGetsTriggers
      <4> QED  BY <3>1, <4>3, <4>4
    <3> QED  BY <1>4, <3>1, <3>2, <3>3, <3>4
  <2> QED  BY <2>4, <2>5, <2>6, <2>7, <2>9, <2>10, <2>11 DEF InTurn
<1> QED  BY <1>8, <1>10, <1>11

-----------------------------------------------------------------------------
(* The update of a workflow                                                *)

LEMMA UpdateWorkflowInTurn ==
    ASSUME ActivationTypes, DownIsEmpty, InTurn, NEW m \in Mains, NEW want \in BOOLEAN,
           UpdateWorkflow(m, want)
    PROVE  ActivationTypes' /\ DownIsEmpty' /\ (~excused' => InTurn')
<1>1. /\ MemoryIsTrue(m) /\ Roles /\ CallersAreKnown /\ RetryIsAlone
      /\ SingleUpdate /\ CommandsInTurn
  BY DEF InTurn
<1>2. /\ Up(m) /\ api.pc = "idle"
      /\ excused' = (excused \/ Busy)
      /\ api' = [pc |-> IF ops' = ops THEN "save" ELSE "remove", main |-> m, want |-> want]
      /\ UNCHANGED <<multiMain, up, leader, leaderKey, trying, listening, entry, left, active>>
      /\ \A n \in Mains : kept(n)' = kept(n) /\ own(n)' = own(n)
  BY DEF UpdateWorkflow, mainVars, overlap, Up, kept, own
<1>3. /\ active /\ ~multiMain => /\ queued' = [queued EXCEPT ![m] = "no"]
                                 /\ beginRemove(m, "api") /\ inbox' = inbox
      /\ ~(active /\ ~multiMain) => /\ ops' = ops /\ queued' = queued
                                    /\ active => publishCommand("remove")
                                    /\ ~active => inbox' = inbox
  BY DEF UpdateWorkflow
<1>4. /\ inbox' \in [Mains -> Seq(Commands)]
      /\ \A n \in Mains : ~Up(n) => inbox'[n] = <<>>
      /\ ~(active /\ multiMain) => inbox' = inbox
      /\ active /\ multiMain => \A n \in Mains : Up(n) => inbox'[n] = Append(inbox[n], "remove")
  <2>1. CASE active /\ multiMain
    BY <1>3, <2>1, Published DEF Commands
  <2>2. CASE ~(active /\ multiMain)
    BY <1>3, <2>2 DEF ActivationTypes, DownIsEmpty
  <2> QED  BY <2>1, <2>2
<1>5. /\ queued' \in [Mains -> {"no", "armed", "fired"}]
      /\ \A n \in Mains : queued'[n] \in {"no", queued[n]}
      /\ active /\ ~multiMain => queued'[m] = "no"
      /\ \A n \in Mains \ {m} : queued'[n] = queued[n]
  BY <1>3 DEF ActivationTypes
<1>6. /\ ops' \in [Mains -> SUBSET Operations] /\ \A n \in Mains \ {m} : ops'[n] = ops[n]
      /\ active /\ ~multiMain /\ entry[m] # 0 =>
            \E a \in Operations : /\ a.kind = "remove" /\ a.by = "api" /\ a.trigger = entry[m]
                                  /\ ops'[m] = ops[m] \cup {a}
      /\ ~(active /\ ~multiMain) => ops' = ops
      /\ ~(active /\ ~multiMain /\ entry[m] # 0) => ops'[m] = ops[m]
  <2>1. CASE active /\ ~multiMain
    <3>1. beginRemove(m, "api") /\ "api" \in Callers
      BY <1>3, <2>1 DEF Callers
    <3> QED  BY <1>1, <2>1, <3>1, BeginRemove
  <2>2. CASE ~(active /\ ~multiMain)
    BY <1>3, <2>2 DEF ActivationTypes
  <2> QED  BY <2>1, <2>2
<1>7. /\ api' \in [pc: ApiStates, main: Mains \cup {NoMain}, want: BOOLEAN]
      /\ api'.main = m /\ api'.pc = (IF ops' = ops THEN "save" ELSE "remove")
  BY <1>2 DEF ApiStates
<1>8. ActivationTypes'
  <2>1. \A n \in Mains : \A p \in ops'[n] : p.kind = "remove" <=> p.trigger # 0
    BY <1>6 DEF ActivationTypes
  <2>2. excused' \in BOOLEAN
    BY <1>2, Zenon DEF ActivationTypes, Busy
  <2> QED  BY <1>2, <1>4, <1>5, <1>6, <1>7, <2>1, <2>2 DEF ActivationTypes
<1>9. \A n \in Mains : Up(n)' = Up(n)
  BY <1>2 DEF Up
<1>10. DownIsEmpty'
  BY <1>2, <1>4, <1>5, <1>6, <1>9 DEF DownIsEmpty
<1>11. ASSUME ~excused'
       PROVE  InTurn'
  <2>1. /\ multiMain => \A r \in Mains : queued[r] # "armed"
        /\ \A n \in Mains : ops[n] = {} /\ inbox[n] = <<>>
    BY <1>2, <1>11 DEF Busy, retryElsewhere, inFlight
  <2>2. /\ \A n \in Mains : holds(n)' = holds(n) /\ (holds(n) => Up(n))
        /\ ~multiMain => holds(m) /\ \A n \in Mains : Up(n) => n = m
    BY <1>1, <1>2, <1>9, OneHolder DEF holds, Roles
  <2>3. \A n \in Mains : holds(n) /\ ~active => kept(n) = 0
    <3>1. SUFFICES ASSUME NEW n \in Mains, holds(n), ~active
                   PROVE  kept(n) = 0
      OBVIOUS
    <3>2. LeaderIsInTurn(n)
      BY DEF InTurn
    <3> QED  BY <2>1, <3>1, <3>2 DEF LeaderIsInTurn, clear
  <2>4. \A r \in Mains : queued'[r] # "armed"
    <3>1. SUFFICES ASSUME NEW r \in Mains, queued'[r] = "armed"
                   PROVE  FALSE
      OBVIOUS
    <3>2. queued[r] = "armed" /\ Up(r) /\ active /\ ~multiMain
      BY <1>1, <1>5, <2>1, <3>1 DEF RetryIsAlone, DownIsEmpty
    <3> QED  BY <1>5, <2>2, <3>1, <3>2
  <2>5. \/ api'.pc = "save" /\ (\A n \in Mains : ops'[n] = {}) /\ (~multiMain => kept(m) = 0)
        \/ /\ api'.pc = "remove" /\ ~multiMain /\ active
           /\ \A n \in Mains \ {m} : ops'[n] = {}
           /\ \E a \in Operations : /\ a.kind = "remove" /\ a.by = "api" /\ a.trigger = entry[m]
                                    /\ ops'[m] = {a}
    <3>1. CASE active /\ ~multiMain /\ entry[m] # 0
      <4>1. PICK a \in Operations : /\ a.kind = "remove" /\ a.by = "api" /\ a.trigger = entry[m]
                                    /\ ops'[m] = ops[m] \cup {a}
        BY <1>6, <3>1
      <4>2. ops'[m] = {a} /\ ops' # ops
        BY <2>1, <4>1
      <4> QED  BY <1>6, <1>7, <2>1, <3>1, <4>1, <4>2
    <3>2. CASE ~(active /\ ~multiMain /\ entry[m] # 0)
      <4>1. \A n \in Mains : ops'[n] = ops[n]
        BY <1>6, <3>2
      <4>2. ops' = ops
        BY <1>6, <4>1 DEF ActivationTypes
      <4> QED  BY <1>7, <2>1, <2>2, <2>3, <3>2, <4>2, NotInMemory
    <3> QED  BY <3>1, <3>2
  <2>6. \A n \in Mains : Up(n) =>
           inbox'[n] = IF active /\ multiMain THEN <<"remove">> ELSE <<>>
    <3>1. Append(<<>>, "remove") = <<"remove">>
      OBVIOUS
    <3>2. CASE active /\ multiMain
      BY <1>4, <2>1, <3>1, <3>2
    <3>3. CASE ~(active /\ multiMain)
      BY <1>4, <2>1, <3>3
    <3> QED  BY <3>2, <3>3
  <2>7. Roles'
    BY <1>1, <1>2, <1>4, <1>7, <1>9 DEF Roles
  <2>8. CallersAreKnown'
    BY <1>2, <1>7, <2>5 DEF CallersAreKnown
  <2>9. CommandsInTurn'
    BY <1>4, <2>6 DEF CommandsInTurn
  <2>10. RetryIsAlone'
    BY <2>4 DEF RetryIsAlone
  <2>11. SingleUpdate'
    BY <1>2, <1>7, <2>5 DEF SingleUpdate
  <2>12. \A n \in Mains : MemoryIsTrue(n)'
    <3>1. MemoryIsTrue(m)'
      <4>1. CASE ops'[m] = {}
        <5>1. /\ kept(m)' = kept(m) /\ own(m)' = own(m) /\ entry'[m] = entry[m]
              /\ leader'[m] = leader[m]
          BY <1>2
        <5> QED  BY <1>1, <2>1, <4>1, <5>1, MemoryKept
      <4>2. CASE ops'[m] # {}
        <5>1. PICK a \in Operations : a.kind = "remove" /\ a.trigger = entry[m] /\ ops'[m] = {a}
          BY <2>5, <4>2
        <5> QED  BY <1>1, <1>2, <5>1 DEF MemoryIsTrue
      <4> QED  BY <4>1, <4>2
    <3>2. ASSUME NEW n \in Mains \ {m}
          PROVE  MemoryIsTrue(n)'
      <4>1. MemoryIsTrue(n)
        BY DEF InTurn
      <4> QED  BY <1>2, <1>6, <4>1, MemoryKept
    <3> QED  BY <3>1, <3>2
  <2>13. ASSUME NEW n \in Mains
         PROVE  LeaderIsInTurn(n)' /\ LeaderGetsTriggers(n)'
    <3>1. LeaderGetsTriggers(n)'
      BY <2>5 DEF LeaderGetsTriggers
    <3>2. ~adds(n)'
      BY <2>5 DEF adds
    <3>3. holds(n)' => inbox'[n] = IF active /\ multiMain THEN <<"remove">> ELSE <<>>
      BY <2>2, <2>6
    <3>4. holds(n)' => clear(n)' \/ (active /\ multiMain)
      BY <1>2, <2>2, <2>3, <2>5, <3>2 DEF clear
    <3>5. active /\ multiMain => api'.pc = "save"
      BY <2>5
    <3>6. LeaderIsInTurn(n)'
      BY <1>2, <3>2, <3>3, <3>4, <3>5 DEF LeaderIsInTurn, adds
    <3> QED  BY <3>1, <3>6
  <2> QED  BY <2>7, <2>8, <2>9, <2>10, <2>11, <2>12, <2>13 DEF InTurn
<1> QED  BY <1>8, <1>10, <1>11

LEMMA AppendToOne ==
    ASSUME NEW a, NEW b
    PROVE  Append(<<a>>, b) = <<a, b>>
<1> DEFINE S == {a, b}
<1>0. <<a>> \in Seq(S) /\ <<a, b>> \in Seq(S)
  OBVIOUS
<1>1. PICK s \in Seq(S) : s = <<a>>
  BY <1>0
<1>2. PICK u \in Seq(S) : u = <<a, b>>
  BY <1>0
<1>3. Len(s) = 1 /\ s[1] = a
  BY <1>1
<1>4. Len(u) = 2 /\ u[1] = a /\ u[2] = b
  BY <1>2
<1>5. b \in S
  OBVIOUS
<1> HIDE DEF S
<1>6. /\ Append(s, b) \in Seq(S) /\ Len(Append(s, b)) = Len(s) + 1
      /\ \A i \in 1..Len(s) : Append(s, b)[i] = s[i]
      /\ Append(s, b)[Len(s) + 1] = b
  BY <1>5, AppendProperties
<1>7. Len(Append(s, b)) = 2 /\ Append(s, b)[1] = a /\ Append(s, b)[2] = b
  BY <1>3, <1>6
<1>8. Append(s, b) = u
  <2>1. \A i \in 1..Len(u) : Append(s, b)[i] = u[i]
    BY <1>4, <1>7
  <2> QED  BY <1>4, <1>6, <1>7, <2>1, SeqEqual
<1> QED  BY <1>1, <1>2, <1>8

\* While an update waits to save or to add, nothing is being added.
LEMMA NothingAddedMeanwhile ==
    ASSUME InTurn, api.pc \in {"save", "add"}, NEW n \in Mains, holds(n)
    PROVE  /\ ~adds(n) /\ inbox[n] \in {<<>>, <<"remove">>} /\ (inbox[n] = <<>> => clear(n))
           /\ \A r \in Mains : queued[r] # "armed"
<1>1. LeaderIsInTurn(n) /\ CommandsInTurn /\ CallersAreKnown /\ RetryIsAlone
  BY DEF InTurn
<1>2. ~adds(n)
  BY <1>1 DEF LeaderIsInTurn, CallersAreKnown, adds
<1>3. inbox[n] \in {<<>>, <<"remove">>}
  BY <1>1 DEF CommandsInTurn
<1>4. inbox[n] = <<>> => clear(n)
  BY <1>1 DEF LeaderIsInTurn
<1>5. \A r \in Mains : queued[r] # "armed"
  BY <1>1 DEF RetryIsAlone
<1> QED  BY <1>2, <1>3, <1>4, <1>5

LEMMA SaveWorkflowInTurn ==
    ASSUME ActivationTypes, DownIsEmpty, InTurn, SaveWorkflow
    PROVE  ActivationTypes' /\ DownIsEmpty' /\ InTurn'
<1>1. Roles /\ CallersAreKnown /\ RetryIsAlone /\ SingleUpdate /\ CommandsInTurn
  BY DEF InTurn
<1>2. /\ api.pc = "save" /\ active' = api.want
      /\ api' = (IF api.want THEN [api EXCEPT !.pc = "add"] ELSE NoCall)
      /\ UNCHANGED <<multiMain, up, leader, leaderKey, trying, listening, entry, left, queued,
                     ops, inbox, excused>>
      /\ \A n \in Mains : kept(n)' = kept(n) /\ own(n)' = own(n)
  BY DEF SaveWorkflow, mainVars, triggerVars, kept, own
<1>3. api \in [pc: ApiStates, main: Mains \cup {NoMain}, want: BOOLEAN]
  BY DEF ActivationTypes
<1>4. /\ api' \in [pc: ApiStates, main: Mains \cup {NoMain}, want: BOOLEAN] /\ active' \in BOOLEAN
      /\ active' => api'.pc = "add" /\ api'.main = api.main
      /\ ~active' => api'.pc = "idle"
  BY <1>2, <1>3 DEF ApiStates, NoCall
<1>5. ActivationTypes'
  BY <1>2, <1>4 DEF ActivationTypes
<1>6. \A n \in Mains : Up(n)' = Up(n) /\ holds(n)' = holds(n) /\ adds(n)' = adds(n) /\ clear(n)' = clear(n)
  BY <1>2 DEF Up, holds, adds, clear
<1>7. DownIsEmpty'
  BY <1>2, <1>6 DEF DownIsEmpty
<1>8. \A r \in Mains : queued[r] # "armed"
  BY <1>1, <1>2 DEF RetryIsAlone
<1>9. Roles'
  BY <1>1, <1>2, <1>4, <1>6 DEF Roles
<1>10. CallersAreKnown'
  BY <1>1, <1>2, <1>4 DEF CallersAreKnown
<1>11. CommandsInTurn'
  BY <1>1, <1>2 DEF CommandsInTurn
<1>12. RetryIsAlone' /\ SingleUpdate'
  BY <1>1, <1>2, <1>4, <1>8 DEF RetryIsAlone, SingleUpdate, kept
<1>13. ASSUME NEW n \in Mains
       PROVE  MemoryIsTrue(n)' /\ LeaderIsInTurn(n)' /\ LeaderGetsTriggers(n)'
  <2>1. MemoryIsTrue(n)
    BY DEF InTurn
  <2>2. MemoryIsTrue(n)'
    BY <1>2, <2>1, MemoryKept
  <2>3. LeaderIsInTurn(n)'
    <3>1. SUFFICES ASSUME holds(n)
                   PROVE  LeaderIsInTurn(n)'
      BY <1>6 DEF LeaderIsInTurn
    <3>2. ~adds(n) /\ inbox[n] \in {<<>>, <<"remove">>} /\ (inbox[n] = <<>> => clear(n))
      BY <1>2, <3>1, NothingAddedMeanwhile
    <3> QED  BY <1>2, <1>4, <1>6, <3>2 DEF LeaderIsInTurn, adds
  <2>4. LeaderGetsTriggers(n)'
    BY <1>4 DEF LeaderGetsTriggers
  <2> QED  BY <2>2, <2>3, <2>4
<1> QED  BY <1>5, <1>7, <1>9, <1>10, <1>11, <1>12, <1>13 DEF InTurn

LEMMA ActivateWorkflowInTurn ==
    ASSUME ActivationTypes, DownIsEmpty, InTurn, ActivateWorkflow
    PROVE  ActivationTypes' /\ DownIsEmpty' /\ (~excused' => InTurn')
<1>1. Roles /\ CallersAreKnown /\ RetryIsAlone /\ SingleUpdate /\ CommandsInTurn
  BY DEF InTurn
<1>2. /\ api.pc = "add"
      /\ excused' = (excused \/ (~multiMain /\ inFlight(api.main)))
      /\ UNCHANGED <<multiMain, up, leader, leaderKey, trying, listening, entry, left, queued,
                     active>>
      /\ \A n \in Mains : kept(n)' = kept(n) /\ own(n)' = own(n)
  BY DEF ActivateWorkflow, overlap, kept, own
<1>3. active /\ \A r \in Mains : queued[r] # "armed"
  BY <1>1, <1>2 DEF CallersAreKnown, RetryIsAlone
<1>4. excused' \in BOOLEAN
  BY <1>2, Zenon DEF ActivationTypes, inFlight
<1>5. \A n \in Mains : Up(n)' = Up(n) /\ holds(n)' = holds(n)
  BY <1>2 DEF Up, holds
<1>6. api \in [pc: ApiStates, main: Mains \cup {NoMain}, want: BOOLEAN]
  BY DEF ActivationTypes
<1>7. CASE multiMain
  <2>1. publishCommand("add") /\ api' = NoCall /\ ops' = ops
    BY <1>7 DEF ActivateWorkflow
  <2>2. /\ inbox' \in [Mains -> Seq(Commands)]
        /\ \A n \in Mains : ~Up(n) => inbox'[n] = <<>>
        /\ \A n \in Mains : Up(n) => inbox'[n] = Append(inbox[n], "add")
    BY <2>1, Published DEF Commands
  <2>3. api' \in [pc: ApiStates, main: Mains \cup {NoMain}, want: BOOLEAN] /\ api'.pc = "idle"
    BY <2>1 DEF NoCall, ApiStates
  <2>4. ActivationTypes'
    BY <1>2, <1>4, <2>1, <2>2, <2>3 DEF ActivationTypes
  <2>5. DownIsEmpty'
    BY <1>2, <1>5, <2>1, <2>2 DEF DownIsEmpty
  <2>6. \A n \in Mains : /\ inbox[n] = <<>> => Append(inbox[n], "add") = <<"add">>
                         /\ inbox[n] = <<"remove">> => Append(inbox[n], "add") = <<"remove", "add">>
    <3>1. Append(<<>>, "add") = <<"add">>
      OBVIOUS
    <3>2. Append(<<"remove">>, "add") = <<"remove", "add">>
      BY AppendToOne
    <3> QED  BY <3>1, <3>2
  <2>7. CommandsInTurn'
    BY <1>1, <1>2, <2>2, <2>3, <2>6 DEF CommandsInTurn
  <2>8. Roles' /\ RetryIsAlone' /\ SingleUpdate'
    BY <1>1, <1>2, <1>3, <1>7 DEF Roles, RetryIsAlone, SingleUpdate
  <2>9. CallersAreKnown'
    BY <1>1, <1>2, <1>7, <2>1, <2>3 DEF CallersAreKnown
  <2>10. ASSUME NEW n \in Mains
         PROVE  MemoryIsTrue(n)' /\ LeaderIsInTurn(n)' /\ LeaderGetsTriggers(n)'
    <3>1. MemoryIsTrue(n)
      BY DEF InTurn
    <3>2. MemoryIsTrue(n)'
      BY <1>2, <2>1, <3>1, MemoryKept
    <3>3. ASSUME holds(n)
          PROVE  /\ ~adds(n)'
                 /\ inbox'[n] = <<"remove", "add">> \/ (inbox'[n] = <<"add">> /\ clear(n)')
      <4>1. ~adds(n) /\ inbox[n] \in {<<>>, <<"remove">>} /\ (inbox[n] = <<>> => clear(n))
        BY <1>2, <3>3, NothingAddedMeanwhile
      <4>2. Up(n)
        BY <1>1, <3>3, OneHolder
      <4>3. adds(n)' = adds(n) /\ clear(n)' = clear(n)
        BY <1>2, <2>1 DEF adds, clear
      <4> QED  BY <2>2, <2>6, <4>1, <4>2, <4>3
    <3>4. LeaderIsInTurn(n)'
      BY <1>2, <1>3, <1>5, <2>3, <3>3 DEF LeaderIsInTurn, adds
    <3>5. LeaderGetsTriggers(n)'
      BY <1>5, <3>3 DEF LeaderGetsTriggers
    <3> QED  BY <3>2, <3>4, <3>5
  <2> QED  BY <2>4, <2>5, <2>7, <2>8, <2>9, <2>10 DEF InTurn
<1>8. CASE ~multiMain
  <2>1. PICK m \in Mains : api.main = m
    BY <1>1, <1>2, <1>8 DEF Roles
  <2>2. MemoryIsTrue(m)
    BY DEF InTurn
  <2>3. /\ Up(m) /\ leader[m] /\ kept(m) = 0 /\ inbox[m] = <<>>
        /\ \A n \in Mains : holds(n) => n = m
    BY <1>1, <1>2, <1>8, <2>1 DEF Roles, SingleUpdate, holds
  <2>4. beginAdd(m, "api") /\ leader'[m] /\ inbox' = inbox /\ api' = [api EXCEPT !.pc = "adding"]
    BY <1>2, <1>8, <2>1, <2>3 DEF ActivateWorkflow
  <2>5. /\ ops' \in [Mains -> SUBSET Operations] /\ \A n \in Mains \ {m} : ops'[n] = ops[n]
        /\ \E a \in Operations : /\ a.kind = "add" /\ a.by = "api" /\ a.trigger = 0
                                 /\ ops'[m] = ops[m] \cup {a}
    BY <2>2, <2>4, BeginAdd DEF Callers
  <2>6. PICK a \in Operations : /\ a.kind = "add" /\ a.by = "api" /\ a.trigger = 0
                                /\ ops'[m] = ops[m] \cup {a}
    BY <2>5
  <2>7. /\ api' \in [pc: ApiStates, main: Mains \cup {NoMain}, want: BOOLEAN]
        /\ api'.pc = "adding" /\ api'.main = m
    BY <1>6, <2>1, <2>4 DEF ApiStates
  <2>8. ActivationTypes'
    <3>1. \A n \in Mains : \A p \in ops[n] : p.kind = "remove" <=> p.trigger # 0
      BY DEF ActivationTypes
    <3>2. \A n \in Mains \ {m} : ops'[n] = ops[n]
      BY <2>5
    <3>3. \A n \in Mains : \A p \in ops'[n] : p.kind = "remove" <=> p.trigger # 0
      BY <2>6, <3>1, <3>2
    <3> QED  BY <1>2, <1>4, <2>4, <2>5, <2>7, <3>3 DEF ActivationTypes
  <2>9. DownIsEmpty'
    BY <1>2, <1>5, <2>3, <2>4, <2>5 DEF DownIsEmpty
  <2>10. ASSUME ~excused'
         PROVE  InTurn'
    <3>0. ops[m] = {}
      BY <1>2, <1>8, <2>1, <2>10 DEF inFlight
    <3>1. a.kind = "add" /\ a.by = "api" /\ a.trigger = 0 /\ ops'[m] = {a}
      BY <2>6, <3>0
    <3>10. Roles'
      BY <1>1, <1>2, <1>5, <2>3, <2>4, <2>7 DEF Roles
    <3>11. CallersAreKnown'
      <4>1. \A n \in Mains \ {m} : ops'[n] = {}
        BY <1>5, <1>8, <2>3, <2>5 DEF holds, DownIsEmpty
      <4> QED  BY <1>2, <1>8, <3>1, <2>7, <4>1 DEF CallersAreKnown, Adders
    <3>12. CommandsInTurn'
      BY <1>1, <1>2, <2>4 DEF CommandsInTurn
    <3>13. RetryIsAlone' /\ SingleUpdate'
      BY <1>2, <1>3, <2>7 DEF RetryIsAlone, SingleUpdate
    <3>14. ASSUME NEW n \in Mains
           PROVE  MemoryIsTrue(n)' /\ LeaderIsInTurn(n)' /\ LeaderGetsTriggers(n)'
      <4>1. CASE n # m
        <5>1. MemoryIsTrue(n)
          BY DEF InTurn
        <5>2. MemoryIsTrue(n)'
          BY <1>2, <2>5, <4>1, <5>1, MemoryKept
        <5> QED  BY <1>5, <2>3, <4>1, <5>2 DEF LeaderIsInTurn, LeaderGetsTriggers
      <4>2. CASE n = m
        <5>1. MemoryIsTrue(m)'
          BY <1>2, <2>2, <2>3, <3>1 DEF MemoryIsTrue
        <5>2. LeaderIsInTurn(m)'
          <6>1. /\ inbox'[m] = <<>> /\ active' /\ ~multiMain' /\ api'.pc = "adding"
                /\ \A p \in ops'[m] : p.by = "api"
            BY <1>2, <1>3, <1>8, <2>3, <2>4, <3>1, <2>7
          <6> QED  BY <6>1 DEF LeaderIsInTurn
        <5>3. LeaderGetsTriggers(m)'
          BY <3>1 DEF LeaderGetsTriggers, adds
        <5> QED  BY <4>2, <5>1, <5>2, <5>3
      <4> QED  BY <4>1, <4>2
    <3> QED  BY <3>10, <3>11, <3>12, <3>13, <3>14 DEF InTurn
  <2> QED  BY <2>8, <2>9, <2>10
<1> QED  BY <1>7, <1>8

-----------------------------------------------------------------------------
(* Leadership                                                              *)

LEMMA StartMainInTurn ==
    ASSUME ActivationTypes, DownIsEmpty, InTurn, NEW m \in Mains, StartMain(m)
    PROVE  ActivationTypes' /\ DownIsEmpty' /\ InTurn'
<1>1. /\ Roles /\ CallersAreKnown /\ RetryIsAlone /\ SingleUpdate /\ CommandsInTurn
  BY DEF InTurn
<1>2. /\ ~Up(m) /\ (multiMain \/ \A other \in Mains : ~Up(other))
      /\ up' = [up EXCEPT ![m] = "starting"]
      /\ UNCHANGED <<multiMain, trying, listening, entry, left, queued, ops, active, inbox, api,
                     excused>>
      /\ \A n \in Mains : kept(n)' = kept(n) /\ own(n)' = own(n)
  BY DEF StartMain, triggerVars, Up, kept, own
<1>3. /\ own(m) = {} /\ kept(m) = 0 /\ ops[m] = {} /\ inbox[m] = <<>>
      /\ queued[m] = "no" /\ ~leader[m] /\ ~trying[m] /\ leaderKey # m
      /\ listening[m] = {} /\ entry[m] = 0
  BY <1>1, <1>2 DEF DownIsEmpty, Roles, own, kept
<1>4. /\ leaderKey' = (IF multiMain /\ leaderKey = NoMain THEN m ELSE leaderKey)
      /\ leader' = [leader EXCEPT ![m] = (~multiMain \/ leaderKey = NoMain)]
  BY DEF StartMain, tryBecomeLeader
<1>5. /\ up' \in [Mains -> {"down", "starting", "up", "stopping"}] /\ up'[m] = "starting"
      /\ \A n \in Mains \ {m} : up'[n] = up[n]
  BY <1>2 DEF ActivationTypes
<1>6. \A n \in Mains \ {m} : leader'[n] = leader[n]
  BY <1>4 DEF ActivationTypes
<1>7. leader'[m] <=> (~multiMain \/ leaderKey = NoMain)
  BY <1>4 DEF ActivationTypes
<1>8. leader' \in [Mains -> BOOLEAN]
  <2>1. (~multiMain \/ leaderKey = NoMain) \in BOOLEAN
    BY Zenon
  <2> QED  BY <1>4, <2>1 DEF ActivationTypes
<1>9. ActivationTypes'
  BY <1>2, <1>4, <1>5, <1>8 DEF ActivationTypes
<1>10. Up(m)' /\ \A n \in Mains \ {m} : Up(n)' = Up(n)
  BY <1>5 DEF Up
<1>11. DownIsEmpty'
  BY <1>2, <1>3, <1>6, <1>10 DEF DownIsEmpty
<1>12. \A n \in Mains \ {m} : holds(n)' => holds(n)
  BY <1>2, <1>4, <1>10 DEF holds
<1>13. Roles'
  <2>1. \A n \in Mains : leaderKey' = n => leader'[n]
    BY <1>1, <1>3, <1>4, <1>6, <1>7, ActivationAssumption DEF Roles
  <2>2. ASSUME ~multiMain
        PROVE  /\ leaderKey' = NoMain
               /\ \A n \in Mains : (Up(n)' => leader'[n]) /\ inbox'[n] = <<>>
               /\ \A n, o \in Mains : Up(n)' /\ Up(o)' => n = o
               /\ api'.pc = "idle"
    BY <1>1, <1>2, <1>4, <1>6, <1>7, <1>10, <2>2 DEF Roles
  <2> QED  BY <1>2, <2>1, <2>2 DEF Roles
<1>14. CallersAreKnown'
  BY <1>1, <1>2 DEF CallersAreKnown
<1>15. CommandsInTurn' /\ SingleUpdate'
  BY <1>1, <1>2 DEF CommandsInTurn, SingleUpdate, kept
<1>16. clear(m)' /\ \A n \in Mains : clear(n)' = clear(n)
  BY <1>2, <1>3 DEF clear, adds
<1>17. RetryIsAlone'
  BY <1>1, <1>2, <1>3, <1>12, <1>16 DEF RetryIsAlone
<1>18. ASSUME NEW n \in Mains
       PROVE  MemoryIsTrue(n)' /\ LeaderIsInTurn(n)' /\ LeaderGetsTriggers(n)'
  <2>1. MemoryIsTrue(n) /\ LeaderIsInTurn(n) /\ LeaderGetsTriggers(n)
    BY DEF InTurn
  <2>2. CASE n # m
    BY <1>2, <1>5, <1>6, <1>12, <2>1, <2>2, MemoryKept, LeaderKept, TriggersKept
  <2>3. CASE n = m
    <3>1. MemoryIsTrue(m)'
      BY <1>2, <1>3 DEF MemoryIsTrue
    <3>2. LeaderIsInTurn(m)'
      BY <1>2, <1>3, <1>16 DEF LeaderIsInTurn
    <3>3. LeaderGetsTriggers(m)'
      BY <1>5 DEF LeaderGetsTriggers
    <3> QED  BY <2>3, <3>1, <3>2, <3>3
  <2> QED  BY <2>2, <2>3
<1> QED  BY <1>9, <1>11, <1>13, <1>14, <1>15, <1>17, <1>18 DEF InTurn

\* A leader that adds the active workflows, when it has started or taken over.
LEMMA AddActiveInTurn ==
    ASSUME ActivationTypes, DownIsEmpty, InTurn, NEW m \in Mains, NEW by \in {"init", "takeover"},
           Up(m), Up(m)', leader'[m], addActiveWorkflows(m, by),
           up' \in [Mains -> {"down", "starting", "up", "stopping"}],
           leader' \in [Mains -> BOOLEAN], trying' \in [Mains -> BOOLEAN],
           leaderKey' \in Mains \cup {NoMain, GoneMain},
           \A n \in Mains \ {m} : /\ up'[n] = up[n] /\ leader'[n] = leader[n]
                                  /\ trying'[n] = trying[n] /\ (leaderKey' = n => leaderKey = n),
           ~trying'[m], ~multiMain => leaderKey' = leaderKey,
           UNCHANGED <<multiMain, listening, entry, left, queued, active, inbox, api>>,
           \A n \in Mains : kept(n)' = kept(n) /\ own(n)' = own(n)
    PROVE  ActivationTypes' /\ DownIsEmpty' /\ (~excused' => InTurn')
<1>1. /\ MemoryIsTrue(m) /\ Roles /\ CallersAreKnown /\ RetryIsAlone
      /\ SingleUpdate /\ CommandsInTurn
  BY DEF InTurn
<1>2. /\ ops' \in [Mains -> SUBSET Operations] /\ \A n \in Mains \ {m} : ops'[n] = ops[n]
      /\ active => \E a \in Operations : /\ a.kind = "add" /\ a.by = by /\ a.trigger = 0
                                         /\ ops'[m] = ops[m] \cup {a}
      /\ ~active => ops' = ops
  <2>1. CASE active
    <3>1. beginAdd(m, by) /\ by \in Callers
      BY <2>1 DEF addActiveWorkflows, Callers
    <3> QED  BY <1>1, <2>1, <3>1, BeginAdd
  <2>2. CASE ~active
    BY <2>2 DEF addActiveWorkflows, ActivationTypes
  <2> QED  BY <2>1, <2>2
<1>3. excused' = (excused \/ (leader'[m] /\ (\/ inFlight(m) \/ kept(m) # 0 \/ inbox[m] # <<>>
                                             \/ api.pc # "idle" \/ retryElsewhere)))
  BY DEF addActiveWorkflows, overlap
<1>4. ActivationTypes'
  <2>1. \A n \in Mains : \A p \in ops'[n] : p.kind = "remove" <=> p.trigger # 0
    <3>1. \A n \in Mains : \A p \in ops[n] : p.kind = "remove" <=> p.trigger # 0
      BY DEF ActivationTypes
    <3>2. CASE active
      BY <1>2, <3>1, <3>2
    <3>3. CASE ~active
      BY <1>2, <3>1, <3>3
    <3> QED  BY <3>2, <3>3
  <2>2. excused' \in BOOLEAN
    BY <1>3, Zenon DEF ActivationTypes, inFlight
  <2> QED  BY <1>2, <2>1, <2>2 DEF ActivationTypes
<1>5. \A n \in Mains : Up(n)' = Up(n)
  BY DEF Up
<1>6. DownIsEmpty'
  BY <1>2, <1>5 DEF DownIsEmpty
<1>7. ASSUME ~excused'
      PROVE  InTurn'
  <2>1. /\ ops[m] = {} /\ kept(m) = 0 /\ inbox[m] = <<>> /\ api.pc = "idle"
        /\ multiMain => \A r \in Mains : queued[r] # "armed"
    BY <1>3, <1>7 DEF inFlight, retryElsewhere
  <2>2. \/ ~active /\ ops'[m] = {}
        \/ active /\ \E a \in Operations : /\ a.kind = "add" /\ a.by = by /\ ops'[m] = {a}
    BY <1>2, <2>1
  <2>3. \A n \in Mains \ {m} : holds(n)' => holds(n)
    BY <1>5 DEF holds
  <2>4. Roles'
    <3>1. \A n \in Mains : leaderKey' = n => leader'[n]
      BY <1>1 DEF Roles
    <3>2. ASSUME ~multiMain
          PROVE  /\ leaderKey' = NoMain
                 /\ \A n \in Mains : (Up(n)' => leader'[n]) /\ inbox'[n] = <<>>
                 /\ \A n, o \in Mains : Up(n)' /\ Up(o)' => n = o
      BY <1>1, <1>5, <3>2 DEF Roles
    <3> QED  BY <2>1, <3>1, <3>2 DEF Roles
  <2>5. CallersAreKnown'
    BY <1>1, <1>2, <2>1, <2>2 DEF CallersAreKnown, Adders
  <2>6. CommandsInTurn' /\ SingleUpdate'
    BY <1>1, <2>1 DEF CommandsInTurn, SingleUpdate
  <2>7. RetryIsAlone'
    BY <1>1, <1>2, <2>1 DEF RetryIsAlone
  <2>8. ASSUME NEW n \in Mains
        PROVE  MemoryIsTrue(n)' /\ LeaderIsInTurn(n)' /\ LeaderGetsTriggers(n)'
    <3>1. MemoryIsTrue(n) /\ LeaderIsInTurn(n) /\ LeaderGetsTriggers(n)
      BY DEF InTurn
    <3>2. CASE n # m
      BY <1>2, <2>3, <3>1, <3>2, MemoryKept, LeaderKept, TriggersKept
    <3>3. CASE n = m
      <4>1. MemoryIsTrue(m)'
        BY <1>1, <2>1, <2>2 DEF MemoryIsTrue
      <4>2. LeaderIsInTurn(m)'
        BY <2>1, <2>2 DEF LeaderIsInTurn, clear, adds
      <4>3. LeaderGetsTriggers(m)'
        BY <2>2 DEF LeaderGetsTriggers, adds
      <4> QED  BY <3>3, <4>1, <4>2, <4>3
    <3> QED  BY <3>2, <3>3
  <2> QED  BY <2>4, <2>5, <2>6, <2>7, <2>8 DEF InTurn
<1> QED  BY <1>4, <1>6, <1>7

LEMMA InitActiveWorkflowsInTurn ==
    ASSUME ActivationTypes, DownIsEmpty, InTurn, ~excused, NEW m \in Mains, InitActiveWorkflows(m)
    PROVE  ActivationTypes' /\ DownIsEmpty' /\ (~excused' => InTurn')
<1>1. /\ up[m] = "starting" /\ up' = [up EXCEPT ![m] = "up"] /\ addActiveWorkflows(m, "init")
      /\ UNCHANGED <<multiMain, leader, leaderKey, trying, listening, entry, left, queued,
                     active, inbox, api>>
      /\ \A n \in Mains : kept(n)' = kept(n) /\ own(n)' = own(n)
  BY DEF InitActiveWorkflows, kept, own
<1>2. /\ up' \in [Mains -> {"down", "starting", "up", "stopping"}] /\ up'[m] = "up"
      /\ \A n \in Mains \ {m} : up'[n] = up[n]
  BY <1>1 DEF ActivationTypes
<1>3. Up(m) /\ Up(m)' /\ \A n \in Mains : Up(n)' = Up(n)
  BY <1>1, <1>2 DEF Up
<1>4. CASE leader[m]
  <2>1. leader'[m] /\ ~trying'[m]
    BY <1>1, <1>4 DEF DownIsEmpty
  <2>2. leader' \in [Mains -> BOOLEAN] /\ trying' \in [Mains -> BOOLEAN]
        /\ leaderKey' \in Mains \cup {NoMain, GoneMain}
    BY <1>1 DEF ActivationTypes
  <2> QED  BY <1>1, <1>2, <1>3, <2>1, <2>2, AddActiveInTurn
<1>5. CASE ~leader[m]
  <2>1. ops' = ops
    BY <1>1, <1>5 DEF addActiveWorkflows, beginAdd, ActivationTypes
  <2>2. ~excused'
    BY <1>1, <1>5 DEF addActiveWorkflows, overlap
  <2>3. excused' \in BOOLEAN
    BY <1>1, Zenon DEF addActiveWorkflows, overlap
  <2>4. ActivationTypes' /\ DownIsEmpty'
    BY <1>1, <1>2, <1>3, <2>1, <2>3 DEF ActivationTypes, DownIsEmpty
  <2>5. \A n \in Mains : holds(n)' = holds(n)
    BY <1>1, <1>3 DEF holds
  <2>6. Roles /\ CallersAreKnown /\ RetryIsAlone /\ SingleUpdate /\ CommandsInTurn
    BY DEF InTurn
  <2>7. Roles' /\ CallersAreKnown' /\ SingleUpdate' /\ CommandsInTurn'
    BY <1>1, <1>3, <2>1, <2>6 DEF Roles, CallersAreKnown, SingleUpdate, CommandsInTurn
  <2>8. RetryIsAlone'
    BY <1>1, <2>1, <2>5, <2>6 DEF RetryIsAlone, clear, adds
  <2>9. ~holds(m)
    BY <1>5, <2>6, OneHolder
  <2>10. ASSUME NEW n \in Mains
         PROVE  MemoryIsTrue(n)' /\ LeaderIsInTurn(n)' /\ LeaderGetsTriggers(n)'
    <3>1. MemoryIsTrue(n) /\ LeaderIsInTurn(n) /\ LeaderGetsTriggers(n)
      BY DEF InTurn
    <3>2. MemoryIsTrue(n)' /\ LeaderIsInTurn(n)'
      BY <1>1, <2>1, <2>5, <3>1, MemoryKept, LeaderKept
    <3>3. CASE n # m
      BY <1>1, <1>2, <2>1, <2>5, <3>1, <3>2, <3>3, TriggersKept
    <3>4. CASE n = m
      BY <2>5, <2>9, <3>2, <3>4 DEF LeaderGetsTriggers
    <3> QED  BY <3>3, <3>4
  <2> QED  BY <2>4, <2>7, <2>8, <2>10 DEF InTurn
<1> QED  BY <1>4, <1>5

LEMMA TakeOverInTurn ==
    ASSUME ActivationTypes, DownIsEmpty, InTurn, NEW m \in Mains, TakeOver(m)
    PROVE  ActivationTypes' /\ DownIsEmpty' /\ (~excused' => InTurn')
<1>1. /\ trying[m] /\ trying' = [trying EXCEPT ![m] = FALSE]
      /\ leaderKey' = (IF leaderKey = NoMain THEN m ELSE leaderKey)
      /\ leader' = [leader EXCEPT ![m] = (leaderKey = NoMain)]
      /\ leaderKey = NoMain => addActiveWorkflows(m, "takeover")
      /\ leaderKey # NoMain => ops' = ops /\ excused' = excused
      /\ UNCHANGED <<multiMain, up, listening, entry, left, queued, active, inbox, api>>
      /\ \A n \in Mains : kept(n)' = kept(n) /\ own(n)' = own(n)
  BY DEF TakeOver, tryBecomeLeader, kept, own
<1>2. Up(m) /\ multiMain /\ ~leader[m]
  BY <1>1 DEF DownIsEmpty
<1>3. \A n \in Mains : Up(n)' = Up(n)
  BY <1>1 DEF Up
<1>4. /\ trying' \in [Mains -> BOOLEAN] /\ ~trying'[m]
      /\ \A n \in Mains \ {m} : trying'[n] = trying[n] /\ leader'[n] = leader[n]
      /\ leaderKey' \in Mains \cup {NoMain, GoneMain}
  BY <1>1 DEF ActivationTypes
<1>5. leader'[m] <=> leaderKey = NoMain
  BY <1>1 DEF ActivationTypes
<1>6. leader' \in [Mains -> BOOLEAN]
  <2>1. (leaderKey = NoMain) \in BOOLEAN
    BY Zenon
  <2> QED  BY <1>1, <2>1 DEF ActivationTypes
<1>7. CASE leaderKey = NoMain
  <2>1. leader'[m] /\ Up(m)' /\ addActiveWorkflows(m, "takeover")
    BY <1>1, <1>2, <1>3, <1>5, <1>7
  <2>2. \A n \in Mains \ {m} : leaderKey' = n => leaderKey = n
    BY <1>1, <1>7
  <2>3. up' \in [Mains -> {"down", "starting", "up", "stopping"}]
    BY <1>1 DEF ActivationTypes
  <2> QED  BY <1>1, <1>2, <1>4, <1>6, <2>1, <2>2, <2>3, AddActiveInTurn
<1>8. CASE leaderKey # NoMain
  <2>1. ops' = ops /\ excused' = excused /\ leaderKey' = leaderKey /\ ~leader'[m]
    BY <1>1, <1>5, <1>8
  <2>2. ActivationTypes'
    BY <1>1, <1>4, <1>6, <2>1 DEF ActivationTypes
  <2>3. DownIsEmpty'
    BY <1>1, <1>2, <1>3, <1>4, <2>1 DEF DownIsEmpty
  <2>4. \A n \in Mains : holds(n)' = holds(n) /\ leader'[n] = leader[n]
    BY <1>1, <1>2, <1>3, <1>4, <1>6, <2>1 DEF holds, ActivationTypes
  <2>5. Roles /\ CallersAreKnown /\ RetryIsAlone /\ SingleUpdate /\ CommandsInTurn
    BY DEF InTurn
  <2>6. Roles' /\ CallersAreKnown' /\ SingleUpdate' /\ CommandsInTurn'
    BY <1>1, <1>2, <1>3, <2>1, <2>4, <2>5 DEF Roles, CallersAreKnown, SingleUpdate, CommandsInTurn
  <2>7. RetryIsAlone'
    BY <1>1, <2>1, <2>4, <2>5 DEF RetryIsAlone, clear, adds
  <2>8. ASSUME NEW n \in Mains
        PROVE  MemoryIsTrue(n)' /\ LeaderIsInTurn(n)' /\ LeaderGetsTriggers(n)'
    <3>1. MemoryIsTrue(n) /\ LeaderIsInTurn(n) /\ LeaderGetsTriggers(n)
      BY DEF InTurn
    <3> QED  BY <1>1, <2>1, <2>4, <3>1, MemoryKept, LeaderKept, TriggersKept
  <2> QED  BY <2>2, <2>3, <2>6, <2>7, <2>8 DEF InTurn
<1> QED  BY <1>7, <1>8

\* A main that is told to step down is not the one that has the key.
LEMMA StepDownInTurn ==
    ASSUME ActivationTypes, DownIsEmpty, InTurn, NEW m \in Mains, Up(m), leaderKey # m, multiMain,
           stepDown(m),
           trying' \in [Mains -> BOOLEAN], \A n \in Mains \ {m} : trying'[n] = trying[n],
           UNCHANGED <<multiMain, up, leaderKey, listening, entry, left, queued, active, inbox, api>>,
           \A n \in Mains : kept(n)' = kept(n) /\ own(n)' = own(n)
    PROVE  ActivationTypes' /\ DownIsEmpty' /\ (~excused' => InTurn')
<1>1. /\ MemoryIsTrue(m) /\ Roles /\ CallersAreKnown /\ RetryIsAlone
      /\ SingleUpdate /\ CommandsInTurn
  BY DEF InTurn
<1>2. /\ leader' = [leader EXCEPT ![m] = FALSE] /\ beginRemove(m, "stepdown") /\ "stepdown" \in Callers
      /\ excused' = (excused \/ inFlight(m))
  BY DEF stepDown, overlap, Callers
<1>3. /\ ops' \in [Mains -> SUBSET Operations] /\ \A n \in Mains \ {m} : ops'[n] = ops[n]
      /\ entry[m] = 0 => ops'[m] = ops[m]
      /\ entry[m] # 0 => \E a \in Operations :
                            /\ a.kind = "remove" /\ a.by = "stepdown" /\ a.trigger = entry[m]
                            /\ ops'[m] = ops[m] \cup {a}
  BY <1>1, <1>2, BeginRemove
<1>4. /\ leader' \in [Mains -> BOOLEAN] /\ ~leader'[m]
      /\ \A n \in Mains \ {m} : leader'[n] = leader[n]
  BY <1>2 DEF ActivationTypes
<1>5. ActivationTypes'
  <2>1. \A n \in Mains : \A p \in ops'[n] : p.kind = "remove" <=> p.trigger # 0
    BY <1>3 DEF ActivationTypes
  <2>2. excused' \in BOOLEAN
    BY <1>2, Zenon DEF ActivationTypes, inFlight
  <2> QED  BY <1>3, <1>4, <2>1, <2>2 DEF ActivationTypes
<1>6. \A n \in Mains : Up(n)' = Up(n)
  BY DEF Up
<1>7. DownIsEmpty'
  BY <1>3, <1>4, <1>6 DEF DownIsEmpty
<1>8. ASSUME ~excused'
      PROVE  InTurn'
  <2>1. ops[m] = {}
    BY <1>2, <1>8 DEF inFlight
  <2>2. /\ entry[m] = 0 => ops'[m] = {}
        /\ entry[m] # 0 => \E a \in Operations :
                              /\ a.kind = "remove" /\ a.by = "stepdown" /\ a.trigger = entry[m]
                              /\ ops'[m] = {a}
    BY <1>3, <2>1
  <2>3. ~holds(m) /\ \A n \in Mains : holds(n)' = holds(n)
    BY <1>6 DEF holds
  <2>4. Roles'
    BY <1>1, <1>4 DEF Roles
  <2>5. CallersAreKnown'
    BY <1>1, <1>3, <2>2 DEF CallersAreKnown
  <2>6. SingleUpdate' /\ CommandsInTurn'
    BY <1>1 DEF SingleUpdate, CommandsInTurn
  <2>7. RetryIsAlone'
    BY <1>1, <1>3, <2>3 DEF RetryIsAlone, clear, adds
  <2>8. ASSUME NEW n \in Mains
        PROVE  MemoryIsTrue(n)' /\ LeaderIsInTurn(n)' /\ LeaderGetsTriggers(n)'
    <3>1. MemoryIsTrue(n) /\ LeaderIsInTurn(n) /\ LeaderGetsTriggers(n)
      BY DEF InTurn
    <3>2. CASE n # m
      BY <1>3, <1>4, <2>3, <3>1, <3>2, MemoryKept, LeaderKept, TriggersKept
    <3>3. CASE n = m
      <4>1. MemoryIsTrue(m)'
        BY <1>1, <1>4, <2>2, NotInMemory DEF MemoryIsTrue
      <4> QED  BY <2>3, <3>3, <4>1 DEF LeaderIsInTurn, LeaderGetsTriggers
    <3> QED  BY <3>2, <3>3
  <2> QED  BY <2>4, <2>5, <2>6, <2>7, <2>8 DEF InTurn
<1> QED  BY <1>5, <1>7, <1>8

LEMMA CheckLeaderInTurn ==
    ASSUME ActivationTypes, DownIsEmpty, InTurn, NEW m \in Mains, StepDown(m) \/ LeadershipVacant(m)
    PROVE  ActivationTypes' /\ DownIsEmpty' /\ (~excused' => InTurn')
<1>1. Roles
  BY DEF InTurn
<1>0. \A n \in Mains : kept(n)' = kept(n) /\ own(n)' = own(n)
  BY DEF StepDown, LeadershipVacant, kept, own
<1>2. CASE StepDown(m)
  <2>1. /\ Up(m) /\ leaderKey # m /\ leaderKey # NoMain /\ stepDown(m)
        /\ UNCHANGED <<multiMain, up, leaderKey, trying, listening, entry, left, queued, active, inbox, api>>
    BY <1>2 DEF StepDown
  <2>2. multiMain
    BY <1>1, <2>1 DEF Roles
  <2>3. trying' \in [Mains -> BOOLEAN]
    BY <2>1 DEF ActivationTypes
  <2> QED  BY <1>0, <2>1, <2>2, <2>3, StepDownInTurn
<1>3. CASE LeadershipVacant(m)
  <2>1. /\ multiMain /\ Up(m) /\ leaderKey = NoMain /\ stepDown(m)
        /\ trying' = [trying EXCEPT ![m] = TRUE]
        /\ UNCHANGED <<multiMain, up, leaderKey, listening, entry, left, queued, active, inbox, api>>
    BY <1>3 DEF LeadershipVacant
  <2>2. trying' \in [Mains -> BOOLEAN] /\ \A n \in Mains \ {m} : trying'[n] = trying[n]
    BY <2>1 DEF ActivationTypes
  <2>3. leaderKey # m
    BY <2>1, ActivationAssumption
  <2> QED  BY <1>0, <2>1, <2>2, <2>3, StepDownInTurn
<1> QED  BY <1>2, <1>3

LEMMA LeaderKeyExpiresInTurn ==
    ASSUME ActivationTypes, DownIsEmpty, InTurn, LeaderKeyExpires
    PROVE  ActivationTypes' /\ DownIsEmpty' /\ InTurn'
<1>1. /\ leaderKey # NoMain /\ leaderKey' = NoMain
      /\ UNCHANGED <<multiMain, up, leader, trying, listening, entry, left, queued, ops, active,
                     inbox, api, excused>>
      /\ \A n \in Mains : kept(n)' = kept(n) /\ own(n)' = own(n)
  BY DEF LeaderKeyExpires, triggerVars, kept, own
<1>2. Roles /\ CallersAreKnown /\ RetryIsAlone /\ SingleUpdate /\ CommandsInTurn
  BY DEF InTurn
<1>3. multiMain
  BY <1>1, <1>2 DEF Roles
<1>4. \A n \in Mains : ~holds(n)' /\ Up(n)' = Up(n)
  BY <1>1, <1>3, ActivationAssumption DEF holds, Up
<1>5. ActivationTypes' /\ DownIsEmpty'
  BY <1>1, <1>4 DEF ActivationTypes, DownIsEmpty
<1>6. Roles'
  BY <1>1, <1>3, ActivationAssumption DEF Roles
<1>7. CallersAreKnown' /\ SingleUpdate' /\ CommandsInTurn'
  BY <1>1, <1>2 DEF CallersAreKnown, SingleUpdate, kept, CommandsInTurn
<1>8. RetryIsAlone'
  BY <1>1, <1>2, <1>3, <1>4 DEF RetryIsAlone
<1>9. ASSUME NEW n \in Mains
      PROVE  MemoryIsTrue(n)' /\ LeaderIsInTurn(n)' /\ LeaderGetsTriggers(n)'
  <2>1. MemoryIsTrue(n)
    BY DEF InTurn
  <2>2. MemoryIsTrue(n)'
    BY <1>1, <2>1, MemoryKept
  <2> QED  BY <1>4, <2>2 DEF LeaderIsInTurn, LeaderGetsTriggers
<1> QED  BY <1>5, <1>6, <1>7, <1>8, <1>9 DEF InTurn

-----------------------------------------------------------------------------
(* The end of a main                                                       *)

LEMMA GoneInTurn ==
    ASSUME ActivationTypes, LeftIsCounted, DownIsEmpty, InTurn, NEW m \in Mains, gone(m),
           leaderKey' \in {leaderKey, NoMain, GoneMain}, leaderKey' # m,
           ~multiMain => leaderKey' = NoMain
    PROVE  ActivationTypes' /\ DownIsEmpty' /\ (~excused' => InTurn')
<1>1. Roles /\ CallersAreKnown /\ RetryIsAlone /\ SingleUpdate /\ CommandsInTurn
  BY DEF InTurn
<1>2. /\ up' = [up EXCEPT ![m] = "down"] /\ leader' = [leader EXCEPT ![m] = FALSE]
      /\ trying' = [trying EXCEPT ![m] = FALSE]
      /\ listening' = [listening EXCEPT ![m] = {}] /\ entry' = [entry EXCEPT ![m] = 0]
      /\ left' = [left EXCEPT ![m] = {}]
      /\ queued' = [queued EXCEPT ![m] = "no"] /\ ops' = [ops EXCEPT ![m] = {}]
      /\ inbox' = [inbox EXCEPT ![m] = <<>>]
      /\ api' = (IF api.main = m THEN NoCall ELSE api)
      /\ excused' = (excused \/ api.main = m)
      /\ multiMain' = multiMain /\ active' = active
  BY DEF gone, overlap
<1>3. /\ up'[m] = "down" /\ ~leader'[m] /\ ~trying'[m] /\ listening'[m] = {} /\ entry'[m] = 0
      /\ queued'[m] = "no" /\ ops'[m] = {} /\ inbox'[m] = <<>>
  BY <1>2 DEF ActivationTypes
<1>4. \A n \in Mains \ {m} :
        /\ up'[n] = up[n] /\ leader'[n] = leader[n] /\ trying'[n] = trying[n]
        /\ listening'[n] = listening[n] /\ entry'[n] = entry[n] /\ queued'[n] = queued[n]
        /\ ops'[n] = ops[n] /\ inbox'[n] = inbox[n]
  BY <1>2 DEF ActivationTypes
<1>0. /\ kept(m)' = 0 /\ own(m)' = {}
      /\ \A n \in Mains \ {m} : kept(n)' = kept(n) /\ own(n)' = own(n)
  <2>1. \A n \in Mains \ {m} : left'[n] = left[n]
    BY <1>2 DEF LeftIsCounted
  <2> QED  BY <1>3, <1>4, <2>1 DEF kept, own
<1>5. ActivationTypes'
  <2>1. /\ up' \in [Mains -> {"down", "starting", "up", "stopping"}]
        /\ leader' \in [Mains -> BOOLEAN] /\ trying' \in [Mains -> BOOLEAN]
        /\ listening' \in [Mains -> SUBSET Triggers] /\ entry' \in [Mains -> Triggers \cup {0}]
        /\ queued' \in [Mains -> {"no", "armed", "fired"}] /\ ops' \in [Mains -> SUBSET Operations]
    BY <1>2 DEF ActivationTypes
  <2>2. inbox' \in [Mains -> Seq(Commands)]
    BY <1>2 DEF ActivationTypes
  <2>3. \A n \in Mains : \A p \in ops'[n] : p.kind = "remove" <=> p.trigger # 0
    BY <1>3, <1>4 DEF ActivationTypes
  <2>4. api' \in [pc: ApiStates, main: Mains \cup {NoMain}, want: BOOLEAN]
    BY <1>2 DEF ActivationTypes, NoCall, ApiStates
  <2>5. excused' \in BOOLEAN
    BY <1>2, Zenon DEF ActivationTypes
  <2>6. leaderKey' \in Mains \cup {NoMain, GoneMain}
    BY DEF ActivationTypes
  <2> QED  BY <1>2, <2>1, <2>2, <2>3, <2>4, <2>5, <2>6 DEF ActivationTypes
<1>6. ~Up(m)' /\ \A n \in Mains \ {m} : Up(n)' = Up(n)
  BY <1>3, <1>4 DEF Up
<1>7. DownIsEmpty'
  BY <1>2, <1>3, <1>4, <1>6 DEF DownIsEmpty
<1>8. ASSUME ~excused'
      PROVE  InTurn'
  <2>1. api' = api /\ api.main # m
    BY <1>2, <1>8
  <2>2. ~holds(m)' /\ \A n \in Mains : holds(n)' => holds(n)
    BY <1>2, <1>6, ActivationAssumption DEF holds
  <2>3. Roles'
    <3>1. \A n \in Mains : leaderKey' = n => leader'[n]
      BY <1>1, <1>4, ActivationAssumption DEF Roles
    <3>2. ASSUME ~multiMain
          PROVE  /\ \A n \in Mains : (Up(n)' => leader'[n]) /\ inbox'[n] = <<>>
                 /\ \A n, o \in Mains : Up(n)' /\ Up(o)' => n = o
                 /\ api'.pc # "idle" => api'.main \in Mains /\ up'[api'.main] # "down"
      <4>1. \A n \in Mains : (Up(n)' => leader'[n]) /\ inbox'[n] = <<>>
        BY <1>1, <1>3, <1>4, <1>6, <3>2 DEF Roles
      <4>2. \A n, o \in Mains : Up(n)' /\ Up(o)' => n = o
        BY <1>1, <1>6, <3>2 DEF Roles
      <4>3. api.pc # "idle" => api.main \in Mains /\ Up(api.main)
        BY <1>1, <3>2 DEF Roles
      <4>4. api'.pc # "idle" => api'.main \in Mains /\ up'[api'.main] # "down"
        BY <1>4, <2>1, <4>3 DEF Up
      <4> QED  BY <4>1, <4>2, <4>4
    <3> QED  BY <1>2, <3>1, <3>2 DEF Roles, Up
  <2>4. CallersAreKnown'
    BY <1>1, <1>2, <1>3, <1>4, <2>1 DEF CallersAreKnown
  <2>5. CommandsInTurn'
    BY <1>1, <1>3, <1>4, <2>1 DEF CommandsInTurn
  <2>6. SingleUpdate'
    BY <1>0, <1>1, <1>2, <1>4, <2>1 DEF SingleUpdate, Roles
  <2>7. RetryIsAlone'
    BY <1>0, <1>1, <1>2, <1>3, <1>4, <2>1, <2>2 DEF RetryIsAlone, clear, adds
  <2>8. ASSUME NEW n \in Mains
        PROVE  MemoryIsTrue(n)' /\ LeaderIsInTurn(n)' /\ LeaderGetsTriggers(n)'
    <3>1. MemoryIsTrue(n) /\ LeaderIsInTurn(n) /\ LeaderGetsTriggers(n)
      BY DEF InTurn
    <3>2. CASE n # m
      <4>1. \A r \in Mains : queued'[r] = "armed" => queued[r] = "armed"
        BY <1>3, <1>4
      <4> QED  BY <1>0, <1>2, <1>4, <2>1, <2>2, <3>1, <3>2, <4>1, MemoryKept, LeaderKept, TriggersKept
    <3>3. CASE n = m
      <4>1. MemoryIsTrue(m)'
        BY <1>0, <1>3 DEF MemoryIsTrue
      <4> QED  BY <2>2, <3>3, <4>1 DEF LeaderIsInTurn, LeaderGetsTriggers
    <3> QED  BY <3>2, <3>3
  <2> QED  BY <2>3, <2>4, <2>5, <2>6, <2>7, <2>8 DEF InTurn
<1> QED  BY <1>5, <1>7, <1>8

LEMMA EndOfMainInTurn ==
    ASSUME ActivationTypes, LeftIsCounted, DownIsEmpty, InTurn, NEW m \in Mains, Crash(m) \/ ExitMain(m)
    PROVE  ActivationTypes' /\ DownIsEmpty' /\ (~excused' => InTurn')
<1>1. Roles
  BY DEF InTurn
<1>2. gone(m)
  BY DEF Crash, ExitMain
<1>3. NoMain # m /\ GoneMain # m
  BY ActivationAssumption
<1>4. /\ leaderKey' \in {leaderKey, NoMain, GoneMain} /\ leaderKey' # m
      /\ ~multiMain => leaderKey' = NoMain
  BY <1>1, <1>3 DEF Crash, ExitMain, Roles
<1> QED  BY <1>2, <1>4, GoneInTurn

LEMMA StopMainInTurn ==
    ASSUME ActivationTypes, DownIsEmpty, InTurn, NEW m \in Mains, StopMain(m)
    PROVE  ActivationTypes' /\ DownIsEmpty' /\ (~excused' => InTurn')
<1>1. /\ MemoryIsTrue(m) /\ LeaderIsInTurn(m) /\ Roles /\ CallersAreKnown /\ RetryIsAlone
      /\ SingleUpdate /\ CommandsInTurn
  BY DEF InTurn
<1>2. /\ up[m] = "up" /\ up' = [up EXCEPT ![m] = "stopping"]
      /\ queued' = [queued EXCEPT ![m] = "no"] /\ beginRemove(m, "stop") /\ "stop" \in Callers
      /\ excused' = (excused \/ inFlight(m))
      /\ UNCHANGED <<multiMain, leader, leaderKey, trying, listening, entry, left, active,
                     inbox, api>>
      /\ \A n \in Mains : kept(n)' = kept(n) /\ own(n)' = own(n)
  BY DEF StopMain, overlap, Callers, kept, own
<1>3. /\ ops' \in [Mains -> SUBSET Operations] /\ \A n \in Mains \ {m} : ops'[n] = ops[n]
      /\ entry[m] = 0 => ops'[m] = ops[m]
      /\ entry[m] # 0 => \E a \in Operations :
                            /\ a.kind = "remove" /\ a.by = "stop" /\ a.trigger = entry[m]
                            /\ ops'[m] = ops[m] \cup {a}
  BY <1>1, <1>2, BeginRemove
<1>4. /\ up' \in [Mains -> {"down", "starting", "up", "stopping"}] /\ up'[m] = "stopping"
      /\ queued' \in [Mains -> {"no", "armed", "fired"}] /\ queued'[m] = "no"
      /\ \A n \in Mains \ {m} : up'[n] = up[n] /\ queued'[n] = queued[n]
  BY <1>2 DEF ActivationTypes
<1>5. ActivationTypes'
  <2>1. \A n \in Mains : \A p \in ops'[n] : p.kind = "remove" <=> p.trigger # 0
    BY <1>3 DEF ActivationTypes
  <2>2. excused' \in BOOLEAN
    BY <1>2, Zenon DEF ActivationTypes, inFlight
  <2> QED  BY <1>2, <1>3, <1>4, <2>1, <2>2 DEF ActivationTypes
<1>6. Up(m) /\ \A n \in Mains : Up(n)' = Up(n)
  BY <1>2, <1>4 DEF Up
<1>7. DownIsEmpty'
  BY <1>2, <1>3, <1>4, <1>6 DEF DownIsEmpty
<1>8. ASSUME ~excused'
      PROVE  InTurn'
  <2>1. ops[m] = {}
    BY <1>2, <1>8 DEF inFlight
  <2>2. /\ entry[m] = 0 => ops'[m] = {}
        /\ entry[m] # 0 => \E a \in Operations :
                              /\ a.kind = "remove" /\ a.by = "stop" /\ a.trigger = entry[m]
                              /\ ops'[m] = {a}
    BY <1>3, <2>1
  <2>3. \A n \in Mains : holds(n)' = holds(n)
    BY <1>2, <1>6 DEF holds
  <2>4. clear(m)' /\ ~adds(m)'
    BY <1>2, <2>2, NotInMemory DEF clear, adds
  <2>5. Roles'
    BY <1>1, <1>2, <1>6 DEF Roles
  <2>6. CallersAreKnown'
    BY <1>1, <1>2, <1>3, <1>4, <2>2 DEF CallersAreKnown
  <2>7. CommandsInTurn'
    BY <1>1, <1>2 DEF CommandsInTurn
  <2>8. SingleUpdate'
    BY <1>1, <1>2, <1>3, <2>2, NotInMemory DEF SingleUpdate, kept, Roles
  <2>9. \A r \in Mains : queued'[r] = "armed" => queued[r] = "armed" /\ r # m
    BY <1>4
  <2>10. \A n \in Mains \ {m} : clear(n)' = clear(n)
    BY <1>2, <1>3 DEF clear, adds
  <2>11. RetryIsAlone'
    BY <1>1, <1>2, <1>3, <2>3, <2>4, <2>9, <2>10 DEF RetryIsAlone
  <2>12. ASSUME NEW n \in Mains
         PROVE  MemoryIsTrue(n)' /\ LeaderIsInTurn(n)' /\ LeaderGetsTriggers(n)'
    <3>1. MemoryIsTrue(n) /\ LeaderIsInTurn(n) /\ LeaderGetsTriggers(n)
      BY DEF InTurn
    <3>2. CASE n # m
      BY <1>2, <1>3, <1>4, <2>3, <2>9, <3>1, <3>2, MemoryKept, LeaderKept, TriggersKept
    <3>3. CASE n = m
      <4>1. MemoryIsTrue(m)'
        BY <1>1, <1>2, <2>2, NotInMemory DEF MemoryIsTrue
      <4>2. LeaderIsInTurn(m)'
        BY <1>1, <1>2, <2>3, <2>4 DEF LeaderIsInTurn, adds
      <4>3. LeaderGetsTriggers(m)'
        BY <1>4 DEF LeaderGetsTriggers
      <4> QED  BY <3>3, <4>1, <4>2, <4>3
    <3> QED  BY <3>2, <3>3
  <2> QED  BY <2>5, <2>6, <2>7, <2>8, <2>11, <2>12 DEF InTurn
<1> QED  BY <1>5, <1>7, <1>8

-----------------------------------------------------------------------------
(* Theorems                                                                *)

LEMMA ActivationInitInTurn == ActivationInit => ActivationInv
<1> SUFFICES ASSUME ActivationInit PROVE ActivationInv
  OBVIOUS
<1>1. /\ multiMain \in BOOLEAN /\ active \in BOOLEAN /\ excused = FALSE
      /\ up = [m \in Mains |-> "down"] /\ leader = [m \in Mains |-> FALSE]
      /\ leaderKey = NoMain /\ trying = [m \in Mains |-> FALSE]
      /\ listening = [m \in Mains |-> {}] /\ entry = [m \in Mains |-> 0]
      /\ left = [m \in Mains |-> {}] /\ faults = 0
      /\ queued = [m \in Mains |-> "no"] /\ ops = [m \in Mains |-> {}]
      /\ inbox = [m \in Mains |-> <<>>] /\ api = NoCall
  BY ActivationAssumption DEF ActivationInit
<1>2. /\ api \in [pc: ApiStates, main: Mains \cup {NoMain}, want: BOOLEAN] /\ api.pc = "idle"
  BY <1>1 DEF NoCall, ApiStates
<1>3. \A m \in Mains : /\ ~Up(m) /\ ~leader[m] /\ ~trying[m] /\ listening[m] = {} /\ entry[m] = 0
                       /\ queued[m] = "no" /\ ops[m] = {} /\ inbox[m] = <<>>
  BY <1>1 DEF Up
<1>0. \A m \in Mains : kept(m) = 0 /\ own(m) = {}
  BY <1>3 DEF kept, own
<1>11. LeftIsCounted
  <2>1. MaxFaults \in Nat
    BY ActivationAssumption
  <2>2. IsFiniteSet({}) /\ Cardinality({}) = 0
    BY FS_EmptySet
  <2> QED  BY <1>1, <2>1, <2>2 DEF LeftIsCounted
<1>4. inbox \in [Mains -> Seq(Commands)]
  BY <1>1
<1>5. ActivationTypes
  BY <1>1, <1>2, <1>3, <1>4 DEF ActivationTypes
<1>6. DownIsEmpty
  BY <1>3 DEF DownIsEmpty
<1>7. \A m \in Mains : ~holds(m)
  BY <1>1, <1>3, ActivationAssumption DEF holds
<1>8. Roles
  BY <1>1, <1>2, <1>3, ActivationAssumption DEF Roles
<1>9. CallersAreKnown /\ CommandsInTurn /\ RetryIsAlone /\ SingleUpdate
  BY <1>2, <1>3 DEF CallersAreKnown, CommandsInTurn, RetryIsAlone, SingleUpdate
<1>10. \A m \in Mains : MemoryIsTrue(m) /\ LeaderIsInTurn(m) /\ LeaderGetsTriggers(m)
  BY <1>0, <1>3, <1>7 DEF MemoryIsTrue, LeaderIsInTurn, LeaderGetsTriggers
<1> QED  BY <1>5, <1>6, <1>8, <1>9, <1>10, <1>11 DEF ActivationInv, InTurn

\* A set of triggers left running, after a step that adds or removes one of them.
LEMMA LeftOne ==
    ASSUME NEW S, IsFiniteSet(S), NEW k \in Nat, Cardinality(S) <= k, NEW x
    PROVE  /\ IsFiniteSet(S \ {x}) /\ Cardinality(S \ {x}) <= k
           /\ IsFiniteSet(S \cup {x}) /\ Cardinality(S \cup {x}) <= k + 1
<1>1. Cardinality(S) \in Nat
  BY FS_CardinalityType
<1>2. /\ IsFiniteSet(S \cup {x})
      /\ Cardinality(S \cup {x}) = IF x \in S THEN Cardinality(S) ELSE Cardinality(S) + 1
  BY FS_AddElement
<1>3. /\ IsFiniteSet(S \ {x})
      /\ Cardinality(S \ {x}) = IF x \in S THEN Cardinality(S) - 1 ELSE Cardinality(S)
  BY FS_RemoveElement
<1> QED  BY <1>1, <1>2, <1>3

\* What a fault leaves running is counted by that fault.
LEMMA OneMoreLeft ==
    ASSUME LeftIsCounted, fault, NEW m \in Mains, NEW t \in Triggers,
           left' = [left EXCEPT ![m] = @ \cup {t}],
           listening' \in [Mains -> SUBSET Triggers], t \in listening'[m],
           \A n \in Mains : listening[n] \subseteq listening'[n]
    PROVE  LeftIsCounted'
<1>1. faults \in 0..MaxFaults /\ faults < MaxFaults /\ faults' = faults + 1 /\ MaxFaults \in Nat
  BY ActivationAssumption DEF fault, LeftIsCounted
<1>2. left' \in [Mains -> SUBSET Triggers]
  BY DEF LeftIsCounted
<1>3. ASSUME NEW n \in Mains
      PROVE  /\ left'[n] \subseteq listening'[n] /\ IsFiniteSet(left'[n])
             /\ Cardinality(left'[n]) <= faults'
  <2>1. /\ left[n] \subseteq listening[n] /\ IsFiniteSet(left[n]) /\ Cardinality(left[n]) <= faults
        /\ left'[n] = IF n = m THEN left[n] \cup {t} ELSE left[n]
    BY DEF LeftIsCounted
  <2>2. faults \in Nat /\ Cardinality(left[n]) \in Nat
    BY <1>1, <2>1, FS_CardinalityType
  <2>3. IsFiniteSet(left[n] \cup {t}) /\ Cardinality(left[n] \cup {t}) <= faults + 1
    BY <2>1, <2>2, LeftOne
  <2> QED  BY <1>1, <2>1, <2>2, <2>3
<1>4. faults' \in 0..MaxFaults
  BY <1>1
<1> QED  BY <1>2, <1>3, <1>4 DEF LeftIsCounted

\* Steps that leave nothing behind.
LEMMA LeftKept ==
    ASSUME LeftIsCounted, left' = left, faults' = faults \/ fault,
           \A n \in Mains : listening[n] \subseteq listening'[n]
    PROVE  LeftIsCounted'
<1>1. faults \in 0..MaxFaults /\ MaxFaults \in Nat
  BY ActivationAssumption DEF LeftIsCounted
<1>2. faults' \in 0..MaxFaults /\ faults' >= faults
  BY <1>1 DEF fault
<1>3. \A n \in Mains : /\ left[n] \subseteq listening'[n] /\ IsFiniteSet(left[n])
                       /\ Cardinality(left[n]) <= faults
  BY DEF LeftIsCounted
<1>4. \A n \in Mains : Cardinality(left[n]) \in Nat
  BY <1>3, FS_CardinalityType
<1>5. \A n \in Mains : Cardinality(left[n]) <= faults'
  BY <1>1, <1>2, <1>3, <1>4
<1> QED  BY <1>2, <1>3, <1>5 DEF LeftIsCounted

LEMMA AddFailsLeaves ==
    ASSUME ActivationTypes, LeftIsCounted, InTurn, NEW m \in Mains, NEW op \in ops[m],
           NEW progress \in Progress, NEW authorization \in BOOLEAN,
           AddFails(m, op, progress, authorization)
    PROVE  LeftIsCounted'
<1> DEFINE t == freshTrigger(m)
<1>1. fault /\ leaveRunning(m, progress) /\ op.kind = "add" /\ MemoryIsTrue(m)
  BY DEF AddFails, InTurn
<1>2. own(m) = {} /\ \A p \in ops[m] : p.trigger = 0
  BY <1>1 DEF MemoryIsTrue, ActivationTypes, Operations, Commands
<1>3. t \in Triggers
  BY <1>2, FreshTrigger
<1>4. /\ listening' = [listening EXCEPT ![m] = IF progress = "none" THEN @ ELSE @ \cup {t}]
      /\ left' = [left EXCEPT ![m] = IF progress = "none" THEN @ ELSE @ \cup {t}]
  BY <1>1 DEF leaveRunning
<1> HIDE DEF t
<1>5. /\ listening' \in [Mains -> SUBSET Triggers]
      /\ \A n \in Mains : listening[n] \subseteq listening'[n]
  BY <1>3, <1>4 DEF ActivationTypes
<1>6. CASE progress = "none"
  <2>1. left' = left
    BY <1>4, <1>6 DEF LeftIsCounted
  <2> QED  BY <1>1, <1>5, <2>1, LeftKept
<1>7. CASE progress # "none"
  <2>1. left' = [left EXCEPT ![m] = @ \cup {t}] /\ t \in listening'[m]
    BY <1>4, <1>7 DEF ActivationTypes
  <2> QED  BY <1>1, <1>3, <1>5, <2>1, OneMoreLeft
<1> QED  BY <1>6, <1>7

LEMMA RemovalLeaves ==
    ASSUME ActivationTypes, LeftIsCounted, NEW m \in Mains, NEW op \in ops[m],
           RemoveEnds(m, op) \/ RemoveFails(m, op)
    PROVE  LeftIsCounted'
<1>1. CASE RemoveEnds(m, op)
  <2>1. /\ listening' = [listening EXCEPT ![m] = @ \ {op.trigger}]
        /\ left' = [left EXCEPT ![m] = @ \ {op.trigger}] /\ faults' = faults
    BY <1>1 DEF RemoveEnds
  <2>2. left' \in [Mains -> SUBSET Triggers]
    BY <2>1 DEF LeftIsCounted
  <2>3. ASSUME NEW n \in Mains
        PROVE  /\ left'[n] \subseteq listening'[n] /\ IsFiniteSet(left'[n])
               /\ Cardinality(left'[n]) <= faults
    <3>1. /\ left[n] \subseteq listening[n] /\ IsFiniteSet(left[n]) /\ Cardinality(left[n]) <= faults
          /\ faults \in 0..MaxFaults /\ MaxFaults \in Nat
      BY ActivationAssumption DEF LeftIsCounted
    <3>2. /\ left'[n] = IF n = m THEN left[n] \ {op.trigger} ELSE left[n]
          /\ listening'[n] = IF n = m THEN listening[n] \ {op.trigger} ELSE listening[n]
      BY <2>1 DEF LeftIsCounted, ActivationTypes
    <3>4. faults \in Nat
      BY <3>1
    <3>3. IsFiniteSet(left[n] \ {op.trigger}) /\ Cardinality(left[n] \ {op.trigger}) <= faults
      BY <3>1, <3>4, LeftOne
    <3> QED  BY <3>1, <3>2, <3>3
  <2> QED  BY <2>1, <2>2, <2>3 DEF LeftIsCounted
<1>2. CASE RemoveFails(m, op)
  <2>1. /\ listening' = listening /\ fault
        /\ left' = [left EXCEPT ![m] = @ \cup (listening[m] \cap {op.trigger})]
    BY <1>2 DEF RemoveFails
  <2>2. CASE op.trigger \in listening[m]
    <3>1. listening[m] \cap {op.trigger} = {op.trigger}
      BY <2>2
    <3>2. left' = [left EXCEPT ![m] = @ \cup {op.trigger}]
      BY <2>1, <3>1
    <3>3. op.trigger \in Triggers /\ listening' \in [Mains -> SUBSET Triggers]
      BY <2>1, <2>2 DEF ActivationTypes
    <3> QED  BY <2>1, <2>2, <3>2, <3>3, OneMoreLeft
  <2>3. CASE op.trigger \notin listening[m]
    <3>1. left' = left
      BY <2>1, <2>3 DEF LeftIsCounted
    <3> QED  BY <2>1, <3>1, LeftKept
  <2> QED  BY <2>2, <2>3
<1> QED  BY <1>1, <1>2

LEMMA EndOfMainLeaves ==
    ASSUME ActivationTypes, LeftIsCounted, NEW m \in Mains, Crash(m) \/ ExitMain(m)
    PROVE  LeftIsCounted'
<1>1. /\ listening' = [listening EXCEPT ![m] = {}] /\ left' = [left EXCEPT ![m] = {}]
      /\ faults' = faults \/ fault
  BY DEF Crash, ExitMain, gone
<1>2. faults \in 0..MaxFaults /\ MaxFaults \in Nat
  BY ActivationAssumption DEF LeftIsCounted
<1>3. faults' \in 0..MaxFaults /\ faults' >= faults
  BY <1>1, <1>2 DEF fault
<1>4. left' \in [Mains -> SUBSET Triggers]
  BY <1>1 DEF LeftIsCounted
<1>5. IsFiniteSet({}) /\ Cardinality({}) = 0
  BY FS_EmptySet
<1>6. ASSUME NEW n \in Mains
      PROVE  /\ left'[n] \subseteq listening'[n] /\ IsFiniteSet(left'[n])
             /\ Cardinality(left'[n]) <= faults'
  <2>1. /\ left[n] \subseteq listening[n] /\ IsFiniteSet(left[n]) /\ Cardinality(left[n]) <= faults
    BY DEF LeftIsCounted
  <2>2. Cardinality(left[n]) \in Nat
    BY <2>1, FS_CardinalityType
  <2>3. /\ left'[n] = IF n = m THEN {} ELSE left[n]
        /\ listening'[n] = IF n = m THEN {} ELSE listening[n]
    BY <1>1 DEF LeftIsCounted, ActivationTypes
  <2> QED  BY <1>2, <1>3, <1>5, <2>1, <2>2, <2>3
<1> QED  BY <1>3, <1>4, <1>6 DEF LeftIsCounted

LEMMA LeftIsCountedNext ==
    ASSUME ActivationInv, ActivationNext
    PROVE  LeftIsCounted'
<1>1. ActivationTypes /\ LeftIsCounted /\ InTurn
  BY DEF ActivationInv, ActivationNext
<1>2. ASSUME NEW m \in Mains, NEW op \in ops[m], NEW progress \in Progress,
             NEW authorization \in BOOLEAN, AddFails(m, op, progress, authorization)
      PROVE  LeftIsCounted'
  BY <1>1, <1>2, AddFailsLeaves
<1>3. ASSUME NEW m \in Mains, NEW op \in ops[m], RemoveEnds(m, op) \/ RemoveFails(m, op)
      PROVE  LeftIsCounted'
  BY <1>1, <1>3, RemovalLeaves
<1>4. ASSUME NEW m \in Mains, Crash(m) \/ ExitMain(m)
      PROVE  LeftIsCounted'
  BY <1>1, <1>4, EndOfMainLeaves
<1>5. ASSUME NEW m \in Mains, NEW op \in ops[m], AddSucceeds(m, op)
      PROVE  LeftIsCounted'
  <2>1. left' = left /\ faults' = faults
        /\ listening' = [listening EXCEPT ![m] = @ \cup {freshTrigger(m)}]
    BY <1>5 DEF AddSucceeds
  <2>2. \A n \in Mains : listening[n] \subseteq listening'[n]
    BY <1>1, <2>1 DEF ActivationTypes
  <2> QED  BY <1>1, <2>1, <2>2, LeftKept
<1>6. ASSUME left' = left, listening' = listening, faults' = faults \/ fault
      PROVE  LeftIsCounted'
  BY <1>1, <1>6, LeftKept
<1>7. CASE SaveWorkflow \/ ActivateWorkflow \/ LeaderKeyExpires
  BY <1>6, <1>7 DEF SaveWorkflow, ActivateWorkflow, LeaderKeyExpires, triggerVars
<1>8. ASSUME NEW m \in Mains,
             \/ RetryActivation(m) \/ ReceiveCommand(m) \/ InitActiveWorkflows(m)
             \/ StepDown(m) \/ LeadershipVacant(m) \/ TakeOver(m)
      PROVE  LeftIsCounted'
  BY <1>6, <1>8 DEF RetryActivation, ReceiveCommand, InitActiveWorkflows, StepDown, LeadershipVacant,
                    TakeOver
<1>9. ASSUME NEW m \in Mains, StartMain(m) \/ StopMain(m) \/ \E want \in BOOLEAN : UpdateWorkflow(m, want)
      PROVE  LeftIsCounted'
  BY <1>6, <1>9 DEF StartMain, StopMain, UpdateWorkflow, triggerVars
<1>10. ASSUME NEW m \in Mains, NEW t \in listening[m], TriggerError(m, t)
       PROVE  LeftIsCounted'
  BY <1>6, <1>10 DEF TriggerError
<1> QED
  BY <1>2, <1>3, <1>4, <1>5, <1>7, <1>8, <1>9, <1>10 DEF ActivationNext

LEMMA ActivationNextInTurn ==
    ASSUME ActivationInv, ActivationNext
    PROVE  ActivationInv'
<1>1. ~excused /\ ActivationTypes /\ LeftIsCounted /\ DownIsEmpty /\ InTurn
  BY DEF ActivationInv, ActivationNext
<1> SUFFICES ActivationTypes' /\ DownIsEmpty' /\ (~excused' => InTurn')
  BY LeftIsCountedNext DEF ActivationInv
<1>2. CASE SaveWorkflow
  BY <1>1, <1>2, SaveWorkflowInTurn
<1>3. CASE ActivateWorkflow
  BY <1>1, <1>3, ActivateWorkflowInTurn
<1>4. CASE LeaderKeyExpires
  BY <1>1, <1>4, LeaderKeyExpiresInTurn
<1>5. ASSUME NEW m \in Mains, NEW op \in ops[m], AddSucceeds(m, op)
      PROVE  ActivationTypes' /\ DownIsEmpty' /\ (~excused' => InTurn')
  BY <1>1, <1>5, AddSucceedsInTurn
<1>6. ASSUME NEW m \in Mains, NEW op \in ops[m], RemoveEnds(m, op)
      PROVE  ActivationTypes' /\ DownIsEmpty' /\ (~excused' => InTurn')
  BY <1>1, <1>6, RemoveEndsInTurn
<1>18. ASSUME NEW m \in Mains, NEW op \in ops[m], RemoveFails(m, op)
       PROVE  ActivationTypes' /\ DownIsEmpty' /\ (~excused' => InTurn')
  BY <1>1, <1>18, RemoveFailsInTurn
<1>7. ASSUME NEW m \in Mains, NEW op \in ops[m], NEW progress \in Progress,
             NEW authorization \in BOOLEAN, AddFails(m, op, progress, authorization)
      PROVE  ActivationTypes' /\ DownIsEmpty' /\ (~excused' => InTurn')
  BY <1>1, <1>7, AddFailsInTurn
<1>8. ASSUME NEW m \in Mains, RetryActivation(m)
      PROVE  ActivationTypes' /\ DownIsEmpty' /\ (~excused' => InTurn')
  BY <1>1, <1>8, RetryActivationInTurn
<1>9. ASSUME NEW m \in Mains, ReceiveCommand(m)
      PROVE  ActivationTypes' /\ DownIsEmpty' /\ (~excused' => InTurn')
  BY <1>1, <1>9, ReceiveCommandInTurn
<1>10. ASSUME NEW m \in Mains, InitActiveWorkflows(m)
       PROVE  ActivationTypes' /\ DownIsEmpty' /\ (~excused' => InTurn')
  BY <1>1, <1>10, InitActiveWorkflowsInTurn
<1>11. ASSUME NEW m \in Mains, StepDown(m) \/ LeadershipVacant(m)
       PROVE  ActivationTypes' /\ DownIsEmpty' /\ (~excused' => InTurn')
  BY <1>1, <1>11, CheckLeaderInTurn
<1>12. ASSUME NEW m \in Mains, TakeOver(m)
       PROVE  ActivationTypes' /\ DownIsEmpty' /\ (~excused' => InTurn')
  BY <1>1, <1>12, TakeOverInTurn
<1>13. ASSUME NEW m \in Mains, Crash(m) \/ ExitMain(m)
       PROVE  ActivationTypes' /\ DownIsEmpty' /\ (~excused' => InTurn')
  BY <1>1, <1>13, EndOfMainInTurn
<1>14. ASSUME NEW m \in Mains, NEW t \in listening[m], TriggerError(m, t)
       PROVE  ActivationTypes' /\ DownIsEmpty' /\ (~excused' => InTurn')
  BY <1>1, <1>14, TriggerErrorInTurn
<1>15. ASSUME NEW m \in Mains, StartMain(m)
       PROVE  ActivationTypes' /\ DownIsEmpty' /\ (~excused' => InTurn')
  BY <1>1, <1>15, StartMainInTurn
<1>16. ASSUME NEW m \in Mains, StopMain(m)
       PROVE  ActivationTypes' /\ DownIsEmpty' /\ (~excused' => InTurn')
  BY <1>1, <1>16, StopMainInTurn
<1>17. ASSUME NEW m \in Mains, NEW want \in BOOLEAN, UpdateWorkflow(m, want)
       PROVE  ActivationTypes' /\ DownIsEmpty' /\ (~excused' => InTurn')
  BY <1>1, <1>17, UpdateWorkflowInTurn
<1> QED
  BY <1>2, <1>3, <1>4, <1>5, <1>6, <1>7, <1>8, <1>9, <1>10, <1>11, <1>12, <1>13, <1>14, <1>15,
     <1>16, <1>17, <1>18 DEF ActivationNext

LEMMA ActivationStutters ==
    ASSUME ActivationInv, UNCHANGED activationVars
    PROVE  ActivationInv'
<1>1. UNCHANGED <<multiMain, up, leader, leaderKey, trying, listening, entry, left, queued, ops, active,
                  inbox, api, excused, faults>>
  BY DEF activationVars, mainVars, triggerVars
<1>0. \A n \in Mains : kept(n)' = kept(n) /\ own(n)' = own(n)
  BY <1>1 DEF kept, own
<1>2. ActivationTypes' /\ DownIsEmpty' /\ LeftIsCounted'
  BY <1>1 DEF ActivationInv, ActivationTypes, DownIsEmpty, LeftIsCounted, Up
<1>3. ASSUME InTurn
      PROVE  InTurn'
  <2>1. Roles' /\ CallersAreKnown' /\ CommandsInTurn' /\ SingleUpdate'
    BY <1>1, <1>3 DEF InTurn, Roles, CallersAreKnown, CommandsInTurn, SingleUpdate, Up, kept
  <2>2. RetryIsAlone'
    BY <1>0, <1>1, <1>3 DEF InTurn, RetryIsAlone, holds, clear, adds, Up
  <2>3. ASSUME NEW m \in Mains
        PROVE  MemoryIsTrue(m)' /\ LeaderIsInTurn(m)' /\ LeaderGetsTriggers(m)'
    <3>1. MemoryIsTrue(m) /\ LeaderIsInTurn(m) /\ LeaderGetsTriggers(m)
      BY <1>3 DEF InTurn
    <3>2. holds(m)' = holds(m)
      BY <1>1 DEF holds, Up
    <3> QED  BY <1>0, <1>1, <3>1, <3>2, MemoryKept, LeaderKept, TriggersKept
  <2> QED  BY <2>1, <2>2, <2>3 DEF InTurn
<1> QED  BY <1>1, <1>2, <1>3 DEF ActivationInv

\* As long as operations have not overlapped, each main has one of them in flight at most
\* and knows what runs (activeWorkflows), apart from what ActiveWorkflows.add and remove
\* left running when they failed; and the main that holds the leader key has the triggers
\* of an active workflow, or an addition, a command or a retry that will bring them, and
\* never two of these at once.  What is left running is bounded by the failures.  For any
\* number of mains, edits, partial failures, lost keys, stops and crashes.
THEOREM ActivationInvariant == ActivationSpec => []ActivationInv
<1>1. ActivationInit => ActivationInv
  BY ActivationInitInTurn
<1>2. ActivationInv /\ [ActivationNext]_activationVars => ActivationInv'
  BY ActivationNextInTurn, ActivationStutters
<1> QED  BY <1>1, <1>2, PTL DEF ActivationSpec

\* Types, and nothing runs on a main that is down; also after an overlap.
THEOREM ActivationTypeOKHolds == ActivationSpec => []ActivationTypeOK
<1>1. ActivationInv => ActivationTypeOK
  BY DEF ActivationInv, ActivationTypes, LeftIsCounted, DownIsEmpty, ActivationTypeOK, Up, ApiStates
<1> QED  BY <1>1, ActivationInvariant, PTL

\* What a settled main has in memory.
LEMMA SettledFollows ==
    ASSUME ActivationInv
    PROVE  TriggersFollowLeader
<1> SUFFICES ASSUME Settled, NEW m \in Mains
             PROVE  IF active /\ leader[m] /\ queued[m] # "armed"
                      THEN kept(m) # 0 /\ own(m) = {kept(m)}
                      ELSE own(m) = {}
  BY DEF TriggersFollowLeader
<1>1. /\ ~excused /\ InTurn /\ DownIsEmpty /\ api.pc = "idle"
      /\ \A n \in Mains : ops[n] = {} /\ inbox[n] = <<>>
      /\ multiMain => \A r \in Mains : queued[r] # "armed"
      /\ up[m] \in {"up", "down"} /\ (leader[m] => ~multiMain \/ leaderKey = m)
  BY DEF Settled, Busy, inFlight, retryElsewhere, ActivationInv
<1>2. MemoryIsTrue(m) /\ LeaderIsInTurn(m) /\ LeaderGetsTriggers(m) /\ RetryIsAlone
  BY <1>1 DEF InTurn
<1>3. leader[m] => holds(m) /\ up[m] = "up"
  BY <1>1 DEF holds, DownIsEmpty, Up
<1>4. own(m) = IF kept(m) = 0 THEN {} ELSE {kept(m)}
  BY <1>2 DEF MemoryIsTrue
<1>5. CASE ~leader[m]
  BY <1>1, <1>2, <1>4, <1>5 DEF MemoryIsTrue
<1>6. CASE leader[m] /\ active /\ queued[m] # "armed"
  <2>1. kept(m) # 0
    <3>1. ops[m] = {} /\ inbox[m] \notin {<<"add">>, <<"remove", "add">>}
      BY <1>1
    <3>2. ~adds(m)
      BY <3>1 DEF adds
    <3>3. api.pc \notin {"remove", "save", "add"}
      BY <1>1
    <3>4. LeaderGetsTriggers(m) /\ holds(m) /\ up[m] = "up"
      BY <1>2, <1>3, <1>6
    <3> QED  BY <1>6, <3>1, <3>2, <3>3, <3>4 DEF LeaderGetsTriggers
  <2> QED  BY <1>4, <1>6, <2>1
<1>7. CASE leader[m] /\ ~active
  <2>1. kept(m) = 0
    BY <1>1, <1>2, <1>3, <1>7 DEF LeaderIsInTurn, clear
  <2> QED  BY <1>4, <1>7, <2>1
<1>8. CASE leader[m] /\ queued[m] = "armed"
  <2>1. kept(m) = 0
    BY <1>1, <1>2, <1>8 DEF RetryIsAlone
  <2> QED  BY <1>4, <1>8, <2>1
<1> QED  BY <1>5, <1>6, <1>7, <1>8

\* "Only the leader is allowed to manage triggers and pollers in memory, to ensure they are
\* not duplicated" (shouldAddTriggersAndPollers): once all is settled, and if operations
\* never overlapped, the triggers of an active workflow run once, on the leader, or wait for
\* the next try; those of an inactive one run nowhere.  Triggers that a failed activation or
\* removal left running are apart from that (NotDuplicated is the stronger claim, and false).
THEOREM TriggersFollowLeaderHolds == ActivationSpec => []TriggersFollowLeader
<1>1. ActivationInv => TriggersFollowLeader
  BY SettledFollows
<1> QED  BY <1>1, ActivationInvariant, PTL

=============================================================================
