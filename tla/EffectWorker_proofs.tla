------------------------ MODULE EffectWorker_proofs ------------------------
(***************************************************************************)
(* Proofs about EffectWorker for any effects, threads, workers, waiters,   *)
(* bounds on faults and crashes, and pids.                                 *)
(*                                                                         *)
(* The argument has two layers.  RowInv speaks of the table alone and is   *)
(* preserved by every statement of EffectOutbox; IInv adds what a fiber    *)
(* knows of the row it claimed and what earlier processes left behind, and *)
(* is preserved by every step.                                             *)
(***************************************************************************)
EXTENDS EffectWorker, TLAPS

(* Insertions are numbered upwards, and an effect that was never inserted  *)
(* has never been attempted.                                               *)
RowsNumbered ==
    \A e \in Effect :
        /\ rowid[e] <= lastRowid
        /\ status[e] = "absent" => attempts[e] = 0

RowInv ==
    /\ OutboxTypeOK
    /\ RowsNumbered
    /\ OneRunningPerLane
    /\ StartsInOrder

-----------------------------------------------------------------------------
(* The statements preserve RowInv. *)

LEMMA OutboxInitRowInv == OutboxInit => RowInv
  BY OutboxAssumption
  DEF OutboxInit, RowInv, OutboxTypeOK, Status, Unsettled, Settled, RowsNumbered,
      OneRunningPerLane, StartsInOrder

LEMMA InsertPreservesRowInv ==
    ASSUME NEW new, NEW isDue \in BOOLEAN, NEW thread, NEW types,
           RowInv, InsertThenCancel(new, isDue, CancelMatches(new, thread, types))
    PROVE  RowInv'
<1> DEFINE gone == CancelMatches(new, thread, types)
<1> USE DEF RowInv, OutboxTypeOK, Status, Unsettled, Settled
<1>1. OutboxTypeOK'
  BY OutboxAssumption DEF InsertThenCancel
<1>2. RowsNumbered'
  BY DEF InsertThenCancel, RowsNumbered
<1>3. OneRunningPerLane'
  BY DEF InsertThenCancel, OneRunningPerLane, SameLane
<1>4. StartsInOrder'
  BY DEF InsertThenCancel, StartsInOrder, SameLane, RowsNumbered
<1> QED
  BY <1>1, <1>2, <1>3, <1>4

LEMMA ClaimPreservesRowInv ==
    ASSUME NEW e \in Effect, NEW owner \in Pid, RowInv, ClaimRow(e, owner)
    PROVE  RowInv'
<1> USE DEF RowInv, OutboxTypeOK, Status, Unsettled, Settled
<1>1. OutboxTypeOK'
  BY DEF ClaimRow
<1>2. RowsNumbered'
  BY DEF ClaimRow, Claimable, RowsNumbered
<1>3. OneRunningPerLane'
  BY DEF ClaimRow, Claimable, Blocks, OneRunningPerLane, SameLane
<1>4. StartsInOrder'
  BY DEF ClaimRow, Claimable, Blocks, StartsInOrder, SameLane
<1> QED
  BY <1>1, <1>2, <1>3, <1>4

LEMMA SettlePreservesRowInv ==
    ASSUME NEW e \in Effect, NEW owner, NEW outcome \in Settled, RowInv,
           SettleRow(e, owner, outcome)
    PROVE  RowInv'
<1> USE DEF RowInv, OutboxTypeOK, Status, Unsettled, Settled
<1>1. OutboxTypeOK'
  BY DEF SettleRow
<1>2. RowsNumbered'
  BY DEF SettleRow, OwnsLease, RowsNumbered
<1>3. OneRunningPerLane'
  BY DEF SettleRow, OneRunningPerLane, SameLane
<1>4. StartsInOrder'
  BY DEF SettleRow, StartsInOrder, SameLane
<1> QED
  BY <1>1, <1>2, <1>3, <1>4

LEMMA RetryPreservesRowInv ==
    ASSUME NEW e \in Effect, NEW owner, NEW isDue \in BOOLEAN, RowInv,
           RetryRow(e, owner, isDue)
    PROVE  RowInv'
<1> USE DEF RowInv, OutboxTypeOK, Status, Unsettled, Settled
<1>1. OutboxTypeOK'
  BY DEF RetryRow
<1>2. RowsNumbered'
  BY DEF RetryRow, OwnsLease, RowsNumbered
<1>3. OneRunningPerLane'
  BY DEF RetryRow, OneRunningPerLane, SameLane
<1>4. StartsInOrder'
  BY DEF RetryRow, OwnsLease, StartsInOrder, SameLane
<1> QED
  BY <1>1, <1>2, <1>3, <1>4

LEMMA TimePreservesRowInv ==
    ASSUME NEW e \in Effect, RowInv, BecomeDue(e) \/ PruneRow(e)
    PROVE  RowInv'
<1> USE DEF RowInv, OutboxTypeOK, Status, Unsettled, Settled
<1>1. OutboxTypeOK'
  BY DEF BecomeDue, PruneRow
<1>2. RowsNumbered'
  BY DEF BecomeDue, PruneRow, RowsNumbered
<1>3. OneRunningPerLane'
  BY DEF BecomeDue, PruneRow, OneRunningPerLane, SameLane
<1>4. StartsInOrder'
  BY DEF BecomeDue, PruneRow, StartsInOrder, SameLane
<1> QED
  BY <1>1, <1>2, <1>3, <1>4

LEMMA ReconcilePreservesRowInv ==
    ASSUME RowInv, ReconcileCancelRows \/ ReconcileRequeueRows
    PROVE  RowInv'
<1> USE DEF RowInv, OutboxTypeOK, Status, Unsettled, Settled
<1>1. OutboxTypeOK'
  BY OutboxAssumption DEF ReconcileCancelRows, ReconcileRequeueRows
<1>2. RowsNumbered'
  BY DEF ReconcileCancelRows, ReconcileRequeueRows, RowsNumbered
<1>3. /\ rowid' = rowid /\ attempts' = attempts
      /\ \A e \in Effect :
            /\ status'[e] = "running" => status[e] = "running"
            /\ status'[e] \in Unsettled => status[e] \in Unsettled
  BY DEF ReconcileCancelRows, ReconcileRequeueRows
<1>4. OneRunningPerLane'
  BY <1>3 DEF OneRunningPerLane, SameLane
<1>5. StartsInOrder'
  BY <1>3 DEF StartsInOrder, SameLane
<1> QED
  BY <1>1, <1>2, <1>4, <1>5

LEMMA StutterPreservesRowInv ==
    ASSUME RowInv, UNCHANGED rowVars PROVE RowInv'
  BY DEF RowInv, rowVars, OutboxTypeOK, RowsNumbered, OneRunningPerLane, StartsInOrder, SameLane

-----------------------------------------------------------------------------
(* What a fiber knows of the row it claimed. *)

(* A busy fiber holds the lease of its effect until a command cancels it.  *)
FibersHoldTheirRows ==
    \A w \in Worker :
        /\ pc[w] # "idle" => cur[w] \in Effect
        /\ phase # "up" => pc[w] = "idle"
        /\ Busy(w) => \/ OwnsLease(cur[w], pid)
                      \/ status[cur[w]] = "cancelled"
                      \/ status[cur[w]] = "pruned" /\ pc[w] \in {"executing", "settling"}

FibersHoldDistinctRows ==
    \A v, w \in Worker : v # w /\ Busy(v) /\ Busy(w) => cur[v] # cur[w]

(* A later process finds what its predecessors drove already settled, once *)
(* the first statement of the reconciliation ran.                          *)
EarlierProcessesAreOver ==
    \A e \in Effect :
        /\ e \in beganHere \cup beganBefore => status[e] # "absent"
        /\ phase # "recovering" /\ e \in beganBefore /\ TypeOf[e] \in ProcessBound
            => status[e] \notin Unsettled

IInv ==
    /\ TypeOK
    /\ RowInv
    /\ FibersHoldTheirRows
    /\ FibersHoldDistinctRows
    /\ EarlierProcessesAreOver
    /\ ProcessBoundStaysInProcess

-----------------------------------------------------------------------------
(* Every step is one statement on the table or leaves it alone. *)
LEMMA StepPreservesRowInv ==
    ASSUME TypeOK, RowInv, FibersHoldTheirRows, [Next]_vars PROVE RowInv'
<1> USE DEF TypeOK
<1>1. CASE UNCHANGED vars
  BY <1>1, StutterPreservesRowInv DEF vars
<1>2. CASE CommitCommand \/ RecoverThread
  BY <1>2, InsertPreservesRowInv DEF CommitCommand, RecoverThread, CommitOutbox
<1>3. CASE \E w \in Worker : ClaimNext(w)
  BY <1>3, ClaimPreservesRowInv DEF ClaimNext
<1>4. CASE \E w \in Worker : Settle(w)
  <2>1. PICK w \in Worker : Settle(w)
    BY <1>4
  <2>2. cur[w] \in Effect
    BY <2>1 DEF FibersHoldTheirRows, Settle
  <2>3. CASE SucceedRow(cur[w], pid)
    BY <2>2, <2>3, SettlePreservesRowInv DEF SucceedRow, Settled
  <2>4. CASE FailRow(cur[w], pid)
    BY <2>2, <2>4, SettlePreservesRowInv DEF FailRow, Settled
  <2>5. CASE RetryRow(cur[w], pid, FALSE) \/ RetryRow(cur[w], pid, TRUE)
    BY <2>2, <2>5, RetryPreservesRowInv
  <2> QED
    BY <2>1, <2>3, <2>4, <2>5 DEF Settle, SettleStatement
<1>5. CASE \E e \in Effect : BackoffElapses(e) \/ Prune(e)
  BY <1>5, TimePreservesRowInv DEF BackoffElapses, Prune
<1>6. CASE ReconcileCancel \/ ReconcileRequeue
  BY <1>6, ReconcilePreservesRowInv DEF ReconcileCancel, ReconcileRequeue
<1>7. CASE \/ Crash
           \/ \E e \in Effect : SignalCancellation(e)
           \/ \E x \in Waiter : WaiterStep(x)
  BY <1>7, StutterPreservesRowInv
  DEF Crash, SignalCancellation, WaiterStep, AwaitRegister, AwaitRead, AwaitBegin, AwaitResolves
<1>8. CASE \E w \in Worker :
              \/ Arm(w) \/ SkipCancelled(w) \/ Execute(w) \/ RecheckFails(w)
              \/ (\E outcome \in Op : ExecutionEnds(w, outcome))
              \/ ExecutionCancelled(w) \/ Cleanup(w) \/ SettleTooLate(w) \/ SettleFails(w)
  BY <1>8, StutterPreservesRowInv
  DEF Arm, SkipCancelled, Execute, RecheckFails, ExecutionEnds, ExecutionCancelled, Cleanup,
      SettleTooLate, SettleFails
<1> QED
  BY <1>1, <1>2, <1>3, <1>4, <1>5, <1>6, <1>7, <1>8 DEF Next, WorkerStep

-----------------------------------------------------------------------------
LEMMA StepPreservesTypeOK ==
    ASSUME TypeOK, RowInv', FibersHoldTheirRows, [Next]_vars PROVE TypeOK'
<1> USE DEF TypeOK, RowInv
<1>1. CASE UNCHANGED vars
  BY <1>1 DEF vars, memVars, histVars
<1>2. CASE CommitCommand \/ RecoverThread
  BY <1>2 DEF CommitCommand, RecoverThread, CommitOutbox, CancelMatches, histVars
<1>3. ASSUME NEW w \in Worker, WorkerStep(w) PROVE TypeOK'
  <2> USE DEF histVars, Release, PC, Op
  <2>1. CASE ClaimNext(w)
    BY <2>1 DEF ClaimNext
  <2>2. CASE Arm(w)
    <3>1. cur[w] \in Effect
      BY <2>2 DEF Arm, FibersHoldTheirRows
    <3> QED
      BY <2>2, <3>1 DEF Arm
  <2>8. CASE SkipCancelled(w)
    BY <2>8 DEF SkipCancelled
  <2>9. CASE Execute(w)
    <3>1. cur[w] \in Effect
      BY <2>9 DEF Execute, FibersHoldTheirRows
    <3> QED
      BY <2>9, <3>1 DEF Execute
  <2>3. CASE RecheckFails(w)
    BY <2>3 DEF RecheckFails
  <2>4. CASE \E outcome \in Op : ExecutionEnds(w, outcome)
    BY <2>4 DEF ExecutionEnds
  <2>10. CASE ExecutionCancelled(w)
    BY <2>10 DEF ExecutionCancelled
  <2>5. CASE Settle(w) \/ Cleanup(w)
    <3>1. pc' \in [Worker -> PC] /\ cur' \in [Worker -> Effect \cup {NoEffect}]
      BY <2>5 DEF Settle, Cleanup, Forget
    <3>2. op' \in [Worker -> Op]
      BY <2>5 DEF Settle, Cleanup, Forget
    <3>3. fallback' \in [Worker -> BOOLEAN] /\ fired' \in [Worker -> BOOLEAN]
      BY <2>5 DEF Settle, Cleanup, Forget
    <3>4. signals' \subseteq Effect
      BY <2>5 DEF Settle, Cleanup, Forget
    <3>5. wfired' \in [Waiter -> BOOLEAN]
      <4>1. CASE UNCHANGED wfired
        BY <4>1
      <4>2. CASE SignalSettled(IF SettlesRow(w) THEN {cur[w]} ELSE {})
        BY <4>2 DEF SignalSettled
      <4> QED
        BY <2>5, <4>1, <4>2 DEF Settle, Cleanup, Forget
    <3>6. UNCHANGED <<phase, pid, toSignal, wstate, beganHere, beganBefore, faults, crashes>>
      BY <2>5 DEF Settle, Cleanup
    <3> QED
      BY <3>1, <3>2, <3>3, <3>4, <3>5, <3>6
  <2>6. CASE SettleTooLate(w)
    BY <2>6 DEF SettleTooLate
  <2>7. CASE SettleFails(w)
    <3>1. FallbackOf(w) \in Op
      BY DEF FallbackOf
    <3>2. faults' \in Nat
      BY <2>7 DEF SettleFails
    <3>3. pc' \in [Worker -> PC] /\ cur' \in [Worker -> Effect \cup {NoEffect}]
      BY <2>7 DEF SettleFails
    <3>4. op' \in [Worker -> Op]
      BY <2>7, <3>1 DEF SettleFails
    <3>5. fallback' \in [Worker -> BOOLEAN] /\ fired' \in [Worker -> BOOLEAN]
      BY <2>7 DEF SettleFails
    <3> QED
      BY <2>7, <3>2, <3>3, <3>4, <3>5 DEF SettleFails
  <2> QED
    BY <1>3, <2>1, <2>2, <2>3, <2>4, <2>5, <2>6, <2>7, <2>8, <2>9, <2>10 DEF WorkerStep
<1>4. CASE \E x \in Waiter : WaiterStep(x)
  BY <1>4 DEF WaiterStep, AwaitRegister, AwaitRead, AwaitBegin, AwaitResolves, SignalSettled, histVars
<1>5. CASE \E e \in Effect : SignalCancellation(e) \/ BackoffElapses(e) \/ Prune(e)
  BY <1>5 DEF SignalCancellation, BackoffElapses, Prune, SignalSettled, memVars, histVars
<1>6. CASE Crash
  BY <1>6 DEF Crash, PC, Op
<1>7. CASE ReconcileCancel \/ ReconcileRequeue
  BY <1>7 DEF ReconcileCancel, ReconcileRequeue, memVars, histVars
<1> QED
  BY <1>1, <1>2, <1>3, <1>4, <1>5, <1>6, <1>7 DEF Next

-----------------------------------------------------------------------------
(* The steps of one fiber and the steps of everything else, as they look   *)
(* to the fibers: what they may change of pc, cur, pid and status.         *)
LEMMA StepPreservesFibersHoldTheirRows ==
    ASSUME IInv, [Next]_vars PROVE FibersHoldTheirRows'
<1> USE DEF IInv, TypeOK, OutboxTypeOK, FibersHoldTheirRows, Busy, OwnsLease, Unsettled
<1>1. CASE UNCHANGED vars
  BY <1>1 DEF vars, memVars, rowVars
<1>2. CASE CommitCommand
  BY <1>2 DEF CommitCommand, CommitOutbox, InsertThenCancel
<1>3. CASE RecoverThread
  BY <1>3 DEF RecoverThread, CommitOutbox, InsertThenCancel
<1>4. ASSUME NEW w \in Worker, WorkerStep(w) PROVE FibersHoldTheirRows'
  <2> USE DEF Release, rowVars
  <2>1. CASE ClaimNext(w)
    BY <2>1 DEF ClaimNext, ClaimRow, Claimable
  <2>2. CASE Arm(w)
    BY <2>2 DEF Arm
  <2>3. CASE SkipCancelled(w)
    BY <2>3 DEF SkipCancelled
  <2>4. CASE Execute(w)
    BY <2>4 DEF Execute
  <2>5. CASE RecheckFails(w)
    BY <2>5 DEF RecheckFails
  <2>6. CASE \E outcome \in Op : ExecutionEnds(w, outcome)
    BY <2>6 DEF ExecutionEnds
  <2>7. CASE ExecutionCancelled(w)
    BY <2>7 DEF ExecutionCancelled
  <2>8. CASE Settle(w)
    <3>1. \A v \in Worker \ {w} : Busy(v) => cur[v] # cur[w]
      BY <2>8 DEF Settle, FibersHoldDistinctRows
    <3>2. cur[w] \in Effect
      BY <2>8 DEF Settle
    <3>3. /\ status' = [status EXCEPT ![cur[w]] = status'[cur[w]]]
          /\ lease' = [lease EXCEPT ![cur[w]] = NoPid]
          /\ pid' = pid /\ phase' = phase
      BY <2>8, <3>2
      DEF Settle, SettleStatement, SucceedRow, FailRow, SettleRow, RetryRow
    <3>4. /\ cur' = [cur EXCEPT ![w] = cur'[w]]
          /\ pc' = [pc EXCEPT ![w] = pc'[w]]
          /\ \/ pc'[w] = "idle"
             \/ pc'[w] = "cleanup" /\ cur'[w] = cur[w]
      BY <2>8 DEF Settle, Forget
    <3> QED
      BY <2>8, <3>1, <3>2, <3>3, <3>4 DEF Settle
  <2>9. CASE Cleanup(w)
    BY <2>9 DEF Cleanup, Forget
  <2>10. CASE SettleTooLate(w)
    BY <2>10 DEF SettleTooLate
  <2>11. CASE SettleFails(w)
    BY <2>11 DEF SettleFails
  <2> QED
    BY <1>4, <2>1, <2>2, <2>3, <2>4, <2>5, <2>6, <2>7, <2>8, <2>9, <2>10, <2>11
    DEF WorkerStep
<1>5. CASE \E x \in Waiter : WaiterStep(x)
  BY <1>5 DEF WaiterStep, AwaitRegister, AwaitRead, AwaitBegin, AwaitResolves, rowVars
<1>6. CASE \E e \in Effect : SignalCancellation(e) \/ BackoffElapses(e)
  BY <1>6 DEF SignalCancellation, BackoffElapses, BecomeDue, memVars, rowVars
<1>7. CASE \E e \in Effect : Prune(e)
  BY <1>7 DEF Prune, PruneRow, memVars
<1>8. CASE Crash
  BY <1>8 DEF Crash
<1>9. CASE ReconcileCancel
  BY <1>9 DEF ReconcileCancel, ReconcileCancelRows, memVars
<1>10. CASE ReconcileRequeue
  BY <1>10 DEF ReconcileRequeue, ReconcileRequeueRows, memVars
<1> QED
  BY <1>1, <1>2, <1>3, <1>4, <1>5, <1>6, <1>7, <1>8, <1>9, <1>10 DEF Next

LEMMA StepPreservesFibersHoldDistinctRows ==
    ASSUME IInv, [Next]_vars PROVE FibersHoldDistinctRows'
<1> USE DEF IInv, TypeOK, FibersHoldDistinctRows, Busy
<1>1. CASE \E w \in Worker : ClaimNext(w)
  <2>1. PICK w \in Worker, e \in Effect :
            /\ ClaimRow(e, pid)
            /\ cur' = [cur EXCEPT ![w] = e]
            /\ pc' = [pc EXCEPT ![w] = "claimed"]
    BY <1>1 DEF ClaimNext
  <2>2. status[e] = "pending"
    BY <2>1 DEF ClaimRow, Claimable
  <2>3. \A v \in Worker : Busy(v) => cur[v] # e
    BY <2>2 DEF FibersHoldTheirRows, OwnsLease
  <2> QED
    BY <2>1, <2>3
<1>2. CASE \E w \in Worker : /\ WorkerStep(w) /\ ~ClaimNext(w)
  BY <1>2
  DEF WorkerStep, Arm, SkipCancelled, Execute, RecheckFails, ExecutionEnds,
      ExecutionCancelled, Settle, Forget, Cleanup, SettleTooLate, SettleFails, Release, PC
<1>3. CASE Crash
  BY <1>3 DEF Crash
<1>4. CASE UNCHANGED <<pc, cur>>
  BY <1>4
<1> QED
  BY <1>1, <1>2, <1>3, <1>4
  DEF Next, vars, memVars, CommitCommand, RecoverThread, WaiterStep, AwaitRegister, AwaitRead,
      AwaitBegin, AwaitResolves, SignalCancellation, BackoffElapses, Prune, ReconcileCancel,
      ReconcileRequeue

(* An effect that an earlier process began is claimed again only if it is  *)
(* safe to replay.                                                         *)
LEMMA StepPreservesEarlierProcessesAreOver ==
    ASSUME IInv, [Next]_vars
    PROVE  EarlierProcessesAreOver' /\ ProcessBoundStaysInProcess'
<1> USE DEF IInv, TypeOK, OutboxTypeOK, EarlierProcessesAreOver, ProcessBoundStaysInProcess,
            Unsettled
<1>1. CASE UNCHANGED vars
  BY <1>1 DEF vars, memVars, histVars, rowVars
<1>2. CASE CommitCommand
  BY <1>2 DEF CommitCommand, CommitOutbox, InsertThenCancel, CancelMatches, histVars
<1>3. CASE RecoverThread
  BY <1>3 DEF RecoverThread, CommitOutbox, InsertThenCancel, CancelMatches, histVars
<1>4. ASSUME NEW w \in Worker, WorkerStep(w)
      PROVE EarlierProcessesAreOver' /\ ProcessBoundStaysInProcess'
  <2> USE DEF Release, rowVars, histVars
  <2>1. CASE ClaimNext(w)
    BY <2>1 DEF ClaimNext, ClaimRow, Claimable
  <2>2. CASE Arm(w)
    BY <2>2 DEF Arm
  <2>3. CASE SkipCancelled(w)
    BY <2>3 DEF SkipCancelled
  <2>4. CASE Execute(w)
    <3>1. cur[w] \in Effect /\ phase = "up" /\ status[cur[w]] = "running"
      BY <2>4 DEF Execute, FibersHoldTheirRows, OwnsLease, Busy
    <3>2. TypeOf[cur[w]] \in ProcessBound => cur[w] \notin beganBefore
      BY <3>1
    <3> QED
      BY <2>4, <3>1, <3>2 DEF Execute
  <2>5. CASE RecheckFails(w)
    BY <2>5 DEF RecheckFails
  <2>6. CASE \E outcome \in Op : ExecutionEnds(w, outcome)
    BY <2>6 DEF ExecutionEnds
  <2>7. CASE ExecutionCancelled(w)
    BY <2>7 DEF ExecutionCancelled
  <2>8. CASE Settle(w)
    <3>1. cur[w] \in Effect /\ phase = "up" /\ OwnsLease(cur[w], pid)
      BY <2>8
      DEF Settle, SettleStatement, SucceedRow, FailRow, SettleRow, RetryRow,
          FibersHoldTheirRows
    <3>2. /\ status' = [status EXCEPT ![cur[w]] = status'[cur[w]]]
          /\ status'[cur[w]] # "absent"
      BY <2>8, <3>1
      DEF Settle, SettleStatement, SucceedRow, FailRow, SettleRow, RetryRow
    <3>3. \A v \in Worker : pc'[v] = "executing" => pc[v] = "executing" /\ cur'[v] = cur[v]
      BY <2>8 DEF Settle, Forget
    <3>4. phase' = phase /\ beganHere' = beganHere /\ beganBefore' = beganBefore
      BY <2>8 DEF Settle
    <3>5. ~(cur[w] \in beganBefore /\ TypeOf[cur[w]] \in ProcessBound)
      BY <3>1 DEF OwnsLease
    <3> QED
      BY <3>1, <3>2, <3>3, <3>4, <3>5
  <2>9. CASE Cleanup(w)
    BY <2>9 DEF Cleanup, Forget
  <2>10. CASE SettleTooLate(w)
    BY <2>10 DEF SettleTooLate
  <2>11. CASE SettleFails(w)
    BY <2>11 DEF SettleFails
  <2> QED
    BY <1>4, <2>1, <2>2, <2>3, <2>4, <2>5, <2>6, <2>7, <2>8, <2>9, <2>10, <2>11
    DEF WorkerStep
<1>5. CASE \E x \in Waiter : WaiterStep(x)
  BY <1>5 DEF WaiterStep, AwaitRegister, AwaitRead, AwaitBegin, AwaitResolves, rowVars, histVars
<1>6. CASE \E e \in Effect : SignalCancellation(e) \/ BackoffElapses(e)
  BY <1>6 DEF SignalCancellation, BackoffElapses, BecomeDue, memVars, rowVars, histVars
<1>7. CASE \E e \in Effect : Prune(e)
  BY <1>7 DEF Prune, PruneRow, memVars, histVars
<1>8. CASE Crash
  BY <1>8 DEF Crash, rowVars
<1>9. CASE ReconcileCancel
  BY <1>9 DEF ReconcileCancel, ReconcileCancelRows, memVars, histVars, FibersHoldTheirRows
<1>10. CASE ReconcileRequeue
  BY <1>10
  DEF ReconcileRequeue, ReconcileRequeueRows, ReplaySafe, ProcessBound, memVars, histVars
<1> QED
  BY <1>1, <1>2, <1>3, <1>4, <1>5, <1>6, <1>7, <1>8, <1>9, <1>10 DEF Next

-----------------------------------------------------------------------------
(* IInv is inductive. *)
LEMMA InitIInv == Init => IInv
<1> SUFFICES ASSUME Init PROVE IInv
  OBVIOUS
<1>1. RowInv
  BY OutboxInitRowInv DEF Init
<1> QED
  BY <1>1, WorkerAssumption
  DEF Init, OutboxInit, IInv, RowInv, TypeOK, PC, Op, FibersHoldTheirRows,
      FibersHoldDistinctRows, EarlierProcessesAreOver, ProcessBoundStaysInProcess, Busy

LEMMA NextIInv == IInv /\ [Next]_vars => IInv'
<1> SUFFICES ASSUME IInv, [Next]_vars PROVE IInv'
  OBVIOUS
<1>1. RowInv'
  BY StepPreservesRowInv DEF IInv
<1>2. TypeOK'
  BY <1>1, StepPreservesTypeOK DEF IInv
<1>3. FibersHoldTheirRows' /\ FibersHoldDistinctRows'
  BY StepPreservesFibersHoldTheirRows, StepPreservesFibersHoldDistinctRows
<1>4. EarlierProcessesAreOver' /\ ProcessBoundStaysInProcess'
  BY StepPreservesEarlierProcessesAreOver
<1> QED
  BY <1>1, <1>2, <1>3, <1>4 DEF IInv

THEOREM Invariance == Spec => []IInv
  BY InitIInv, NextIInv, PTL DEF Spec

(* Every variable keeps its type. *)
THEOREM TypeCorrect == Spec => []TypeOK
  BY Invariance, PTL DEF IInv

(* claimNext never lets two rows of one lane run, whatever the commands,   *)
(* faults and crashes.                                                     *)
THEOREM LaneMutex == Spec => []OneRunningPerLane
<1>1. IInv => OneRunningPerLane
  BY DEF IInv, RowInv
<1> QED
  BY <1>1, Invariance, PTL

(* No effect is attempted while an older one of its lane is unsettled.     *)
THEOREM FirstInFirstStarted == Spec => []StartsInOrder
<1>1. IInv => StartsInOrder
  BY DEF IInv, RowInv
<1> QED
  BY <1>1, Invariance, PTL

(* reconcileAfterProcessLoss leaves nothing process-bound to a successor.  *)
THEOREM NoReplayOfProcessBound == Spec => []ProcessBoundStaysInProcess
<1>1. IInv => ProcessBoundStaysInProcess
  BY DEF IInv
<1> QED
  BY <1>1, Invariance, PTL

-----------------------------------------------------------------------------
(* What the transaction of a command does to one row. *)
LEMMA CommitChanges ==
    ASSUME TypeOK, CommitCommand \/ RecoverThread
    PROVE  /\ toSignal \subseteq toSignal'
           /\ \A e \in Effect :
                \/ status'[e] = status[e]
                \/ status[e] = "absent" /\ status'[e] = "pending"
                \/ /\ status[e] \in Unsettled \cup {"absent"}
                   /\ status'[e] = "cancelled"
                   /\ e \in toSignal'
<1>1. PICK new, isDue, thread, types : CommitOutbox(new, isDue, thread, types)
  BY DEF CommitCommand, RecoverThread
<1> DEFINE gone == CancelMatches(new, thread, types)
<1>2. /\ new \subseteq {e \in Effect : status[e] = "absent"}
      /\ gone \subseteq {e \in Effect : status[e] \in Unsettled \/ e \in new}
  BY <1>1 DEF CommitOutbox, InsertThenCancel, CancelMatches
<1>3. /\ toSignal' = toSignal \cup gone
      /\ status' = [e \in Effect |-> IF e \in gone THEN "cancelled"
                                     ELSE IF e \in new THEN "pending" ELSE status[e]]
  BY <1>1 DEF CommitOutbox, InsertThenCancel
<1> HIDE DEF gone
<1> QED
  BY <1>2, <1>3

(* A settled row stays as it is, or is pruned. *)
THEOREM NoRevival == Spec => SettledIsFinal
<1> DEFINE Final == \A e \in Effect :
               status[e] \in Settled => status'[e] = status[e] \/ status'[e] = "pruned"
<1>1. ASSUME IInv, [Next]_vars PROVE Final
  <2> USE DEF IInv, TypeOK, OutboxTypeOK, Settled, Unsettled
  <2>1. CASE CommitCommand \/ RecoverThread
    BY <1>1, <2>1, CommitChanges
  <2>2. CASE \E w \in Worker : ClaimNext(w)
    BY <1>1, <2>2 DEF ClaimNext, ClaimRow, Claimable
  <2>3. CASE \E w \in Worker : Settle(w)
    <3>1. PICK w \in Worker : Settle(w)
      BY <1>1, <2>3
    <3>2. cur[w] \in Effect
      BY <1>1, <3>1 DEF Settle, FibersHoldTheirRows
    <3>3. /\ status[cur[w]] = "running"
          /\ status' = [status EXCEPT ![cur[w]] = status'[cur[w]]]
      BY <1>1, <3>1, <3>2
      DEF Settle, SettleStatement, SucceedRow, FailRow, SettleRow, RetryRow, OwnsLease
    <3> QED
      BY <1>1, <3>2, <3>3
  <2>4. CASE \E e \in Effect : BackoffElapses(e) \/ Prune(e)
    BY <1>1, <2>4 DEF BackoffElapses, BecomeDue, Prune, PruneRow
  <2>5. CASE ReconcileCancel \/ ReconcileRequeue
    BY <1>1, <2>5
    DEF ReconcileCancel, ReconcileCancelRows, ReconcileRequeue, ReconcileRequeueRows
  <2>6. CASE UNCHANGED status
    BY <1>1, <2>6
  <2> QED
    BY <1>1, <2>1, <2>2, <2>3, <2>4, <2>5, <2>6
    DEF Next, vars, rowVars, Crash, SignalCancellation, WaiterStep, AwaitRegister, AwaitRead,
        AwaitBegin, AwaitResolves, WorkerStep, Arm, SkipCancelled, Execute, RecheckFails, ExecutionEnds,
        ExecutionCancelled, Cleanup, SettleTooLate, SettleFails
<1>2. IInv /\ [Next]_vars => [Final]_vars
  BY <1>1
<1> QED
  BY <1>2, Invariance, PTL DEF Spec, SettledIsFinal

-----------------------------------------------------------------------------
(* Cancellation, where a fiber is not suspended inside a settlement. *)
CancelInv ==
    /\ \A w \in Worker : pc[w] # "cleanup"
    /\ \A w \in Worker : pc[w] \in {"armed", "executing"} => cur[w] \in signals
    /\ CancellationReaches

LEMMA StepPreservesCancelInv ==
    ASSUME ~Preemptible, IInv, IInv', CancelInv, [Next]_vars PROVE CancelInv'
<1> USE DEF IInv, TypeOK, OutboxTypeOK, CancelInv, CancellationReaches, PC
<1>1. CASE UNCHANGED vars
  BY <1>1 DEF vars, memVars, rowVars
<1>10. \A w \in Worker : pc[w] # "idle" => cur[w] \in Effect
  BY DEF FibersHoldTheirRows
<1>2. CASE CommitCommand \/ RecoverThread
  <2>1. UNCHANGED <<pc, cur, fired, signals>>
    BY <1>2 DEF CommitCommand, RecoverThread
  <2> QED
    BY <1>2, <1>10, <2>1, CommitChanges DEF Unsettled
<1>3. ASSUME NEW w \in Worker, WorkerStep(w) PROVE CancelInv'
  <2> USE DEF Release, rowVars
  <2>1. \A v \in Worker \ {w} : Busy(v) /\ Busy(w) => cur[v] # cur[w]
    BY DEF FibersHoldDistinctRows
  <2>2. CASE ClaimNext(w)
    BY <2>2 DEF ClaimNext, ClaimRow, Claimable
  <2>3. CASE Arm(w) \/ RecheckFails(w) \/ SettleTooLate(w) \/ SettleFails(w)
    BY <2>3 DEF Arm, RecheckFails, SettleTooLate, SettleFails
  <2>4. CASE Execute(w)
    BY <2>4 DEF Execute, FibersHoldTheirRows, OwnsLease, Busy
  <2>5. CASE SkipCancelled(w)
    BY <2>1, <2>5 DEF SkipCancelled, Busy
  <2>6. CASE \E outcome \in Op : ExecutionEnds(w, outcome)
    BY <2>1, <2>6 DEF ExecutionEnds, Busy
  <2>7. CASE ExecutionCancelled(w)
    BY <2>1, <2>7 DEF ExecutionCancelled, Busy
  <2>8. CASE Settle(w)
    <3>1. \A v \in Worker \ {w} : Busy(v) => cur[v] # cur[w]
      BY <2>1, <2>8 DEF Settle, Busy
    <3>2. cur[w] \in Effect
      BY <2>8 DEF Settle, FibersHoldTheirRows
    <3>3. status' = [status EXCEPT ![cur[w]] = status'[cur[w]]]
      BY <2>8, <3>2
      DEF Settle, SettleStatement, SucceedRow, FailRow, SettleRow, RetryRow
    <3>4. /\ toSignal' = toSignal
          /\ signals' = signals \ {cur[w]}
          /\ pc' = [pc EXCEPT ![w] = "idle"]
          /\ cur' = [cur EXCEPT ![w] = NoEffect]
          /\ fired' = [fired EXCEPT ![w] = FALSE]
      BY <2>8 DEF Settle, Forget
    <3> QED
      BY <3>1, <3>2, <3>3, <3>4 DEF Busy
  <2>9. ~Cleanup(w)
    BY DEF Cleanup
  <2> QED
    BY <1>3, <2>2, <2>3, <2>4, <2>5, <2>6, <2>7, <2>8, <2>9 DEF WorkerStep
<1>4. CASE \E x \in Waiter : WaiterStep(x)
  BY <1>4 DEF WaiterStep, AwaitRegister, AwaitRead, AwaitBegin, AwaitResolves, rowVars
<1>5. CASE \E e \in Effect : SignalCancellation(e)
  <2>1. PICK e \in Effect : SignalCancellation(e)
    BY <1>5
  <2>2. /\ pc' = pc /\ cur' = cur /\ status' = status /\ signals' = signals
        /\ toSignal' = toSignal \ {e}
    BY <2>1 DEF SignalCancellation, rowVars
  <2>3. ASSUME NEW w \in Worker, fired[w] PROVE fired'[w]
    BY <2>1, <2>3, Zenon DEF SignalCancellation
  <2>4. ASSUME NEW w \in Worker, e \in signals, cur[w] = e, pc[w] = "executing"
        PROVE  fired'[w]
    BY <2>1, <2>4 DEF SignalCancellation
  <2> QED
    BY <2>2, <2>3, <2>4
<1>6. CASE \E e \in Effect : BackoffElapses(e)
  BY <1>6 DEF BackoffElapses, BecomeDue, memVars
<1>7. CASE \E e \in Effect : Prune(e)
  BY <1>7 DEF Prune, PruneRow, memVars, FibersHoldTheirRows, OwnsLease, Busy
<1>8. CASE Crash
  BY <1>8 DEF Crash
<1>9. CASE ReconcileCancel \/ ReconcileRequeue
  BY <1>9 DEF ReconcileCancel, ReconcileRequeue, memVars, FibersHoldTheirRows
<1> QED
  BY <1>1, <1>2, <1>3, <1>4, <1>5, <1>6, <1>7, <1>8, <1>9 DEF Next

(* A cancellation that commits at any time reaches the execution, provided *)
(* a settlement's map updates follow its statement without suspension.     *)
THEOREM NoMissedCancellation ==
    ASSUME ~Preemptible PROVE Spec => []CancellationReaches
<1>1. Init => CancelInv
  BY DEF Init, CancelInv, CancellationReaches
<1>2. IInv /\ IInv' /\ CancelInv /\ [Next]_vars => CancelInv'
  BY StepPreservesCancelInv
<1>3. CancelInv => CancellationReaches
  BY DEF CancelInv
<1> QED
  BY <1>1, <1>2, <1>3, Invariance, PTL DEF Spec

(* Then two executions of one lane never overlap, but for the moment it    *)
(* takes to interrupt the cancelled one.                                   *)
THEOREM NoOverlap ==
    ASSUME ~Preemptible PROVE Spec => []ExclusiveExecution
<1>1. IInv /\ CancellationReaches => ExclusiveExecution
  <2> SUFFICES ASSUME IInv, CancellationReaches,
                      NEW v \in Worker, NEW w \in Worker, v # w,
                      pc[v] = "executing", pc[w] = "executing",
                      SameLane(cur[v], cur[w])
               PROVE  \E u \in {v, w} : fired[u] \/ cur[u] \in toSignal
    BY DEF ExclusiveExecution
  <2>1. Busy(v) /\ Busy(w)
    BY DEF Busy
  <2>2. cur[v] # cur[w]
    BY <2>1 DEF IInv, FibersHoldDistinctRows
  <2>3. ~(OwnsLease(cur[v], pid) /\ OwnsLease(cur[w], pid))
    BY <2>2 DEF IInv, RowInv, OneRunningPerLane, FibersHoldTheirRows, OwnsLease
  <2>4. \E u \in {v, w} : status[cur[u]] \in {"cancelled", "pruned"}
    BY <2>1, <2>3 DEF IInv, FibersHoldTheirRows
  <2> QED
    BY <2>4 DEF CancellationReaches
<1> QED
  BY <1>1, Invariance, NoMissedCancellation, PTL
-----------------------------------------------------------------------------
(* How often an effect is attempted. *)
Allowance == MaxAttempts + faults + crashes

(* What may be claimed again has an attempt left: a row that waits, any    *)
(* row that a new process finds, and the row of a fiber that is about to   *)
(* put it back.                                                            *)
AttemptsLeft ==
    /\ AttemptsBounded
    /\ \A e \in Effect : status[e] = "pending" \/ phase # "up" => attempts[e] < Allowance
    /\ \A w \in Worker : pc[w] = "settling" =>
        /\ op[w] = "retry" => attempts[cur[w]] < MaxAttempts
        /\ op[w] = "requeue" => attempts[cur[w]] < Allowance

LEMMA AllowanceType == TypeOK => Allowance \in Nat /\ MaxAttempts <= Allowance /\ 0 < Allowance
  BY WorkerAssumption DEF TypeOK, Allowance

(* Faults and crashes only add to the allowance. *)
LEMMA AllowanceGrows ==
    ASSUME TypeOK, [Next]_vars
    PROVE  \/ Allowance' = Allowance
           \/ /\ Allowance' = Allowance + 1
              /\ Crash \/ \E w \in Worker : RecheckFails(w) \/ SettleFails(w)
<1> USE WorkerAssumption DEF TypeOK, Allowance
<1>1. CASE Crash \/ \E w \in Worker : RecheckFails(w) \/ SettleFails(w)
  BY <1>1 DEF Crash, RecheckFails, SettleFails
<1>2. CASE UNCHANGED <<faults, crashes>>
  BY <1>2
<1> QED
  BY <1>1, <1>2
  DEF Next, vars, histVars, CommitCommand, RecoverThread, WorkerStep, ClaimNext, Arm, SkipCancelled,
      Execute, ExecutionEnds, ExecutionCancelled, Settle, Cleanup, SettleTooLate, WaiterStep,
      AwaitRegister, AwaitRead, AwaitBegin, AwaitResolves, SignalCancellation, BackoffElapses,
      Prune, ReconcileCancel, ReconcileRequeue

LEMMA StepPreservesAttemptsLeft ==
    ASSUME IInv, IInv', AttemptsLeft, [Next]_vars PROVE AttemptsLeft'
<1> USE DEF IInv, TypeOK, OutboxTypeOK, AttemptsLeft, AttemptsBounded
<1>0. /\ Allowance \in Nat /\ Allowance' \in Nat
      /\ MaxAttempts \in Nat /\ MaxAttempts <= Allowance /\ 0 < Allowance
      /\ Allowance <= Allowance'
  BY AllowanceType, AllowanceGrows, WorkerAssumption
<1>1. \A e \in Effect : attempts[e] <= Allowance
  BY DEF Allowance
<1> DEFINE Later == /\ \A e \in Effect : attempts'[e] <= Allowance'
                    /\ \A e \in Effect : status'[e] = "pending" \/ phase' # "up" =>
                           attempts'[e] < Allowance'
                    /\ \A w \in Worker : pc'[w] = "settling" =>
                           /\ op'[w] = "retry" => attempts'[cur'[w]] < MaxAttempts
                           /\ op'[w] = "requeue" => attempts'[cur'[w]] < Allowance'
<1>2. SUFFICES Later
  BY DEF Allowance
<1>3. \A w \in Worker : pc[w] # "idle" => cur[w] \in Effect
  BY DEF FibersHoldTheirRows
<1> HIDE DEF AttemptsBounded
<1>4. CASE UNCHANGED vars
  BY <1>0, <1>1, <1>3, <1>4 DEF vars, memVars, rowVars
<1>5. CASE CommitCommand \/ RecoverThread
  <2>1. UNCHANGED <<phase, pc, cur, op, attempts>>
    BY <1>5 DEF CommitCommand, RecoverThread, CommitOutbox, InsertThenCancel
  <2>2. \A e \in Effect : status'[e] = "pending" => status[e] = "pending" \/ attempts[e] = 0
    BY <1>5, CommitChanges DEF RowInv, RowsNumbered
  <2> QED
    BY <1>0, <1>1, <1>3, <2>1, <2>2
<1>6. ASSUME NEW w \in Worker, ClaimNext(w) PROVE Later
  <2>1. PICK e \in Effect : ClaimRow(e, pid) /\ cur' = [cur EXCEPT ![w] = e]
    BY <1>6 DEF ClaimNext
  <2>2. /\ status[e] = "pending"
        /\ status' = [status EXCEPT ![e] = "running"]
        /\ attempts' = [attempts EXCEPT ![e] = @ + 1]
        /\ phase = "up" /\ phase' = "up" /\ op' = op
        /\ pc' = [pc EXCEPT ![w] = "claimed"]
    BY <1>6, <2>1 DEF ClaimNext, ClaimRow, Claimable
  <2>3. \A v \in Worker : pc[v] = "settling" => cur[v] # e
    BY <2>2 DEF FibersHoldTheirRows, Busy, OwnsLease
  <2> QED
    BY <1>0, <1>1, <1>3, <2>1, <2>2, <2>3
<1>7. ASSUME NEW w \in Worker, Settle(w) PROVE Later
  <2>1. /\ pc[w] = "settling" /\ cur[w] \in Effect
        /\ attempts' = attempts /\ phase' = phase
        /\ \A v \in Worker : pc'[v] = "settling" =>
              pc[v] = "settling" /\ cur'[v] = cur[v] /\ op'[v] = op[v]
    BY <1>3, <1>7
    DEF Settle, SettleStatement, SucceedRow, FailRow, SettleRow, RetryRow, Forget, Release
  <2>2. \A e \in Effect : status'[e] = "pending" =>
           status[e] = "pending" \/ (e = cur[w] /\ op[w] \in {"retry", "requeue"})
    <3>1. CASE SucceedRow(cur[w], pid) \/ FailRow(cur[w], pid)
      BY <2>1, <3>1 DEF SucceedRow, FailRow, SettleRow
    <3>2. CASE op[w] \in {"retry", "requeue"} /\ \E isDue \in BOOLEAN : RetryRow(cur[w], pid, isDue)
      BY <2>1, <3>2 DEF RetryRow
    <3> QED
      BY <1>7, <3>1, <3>2 DEF Settle, SettleStatement
  <2> QED
    BY <1>0, <1>1, <1>3, <2>1, <2>2
<1>8. ASSUME NEW w \in Worker, RecheckFails(w) \/ SettleFails(w) PROVE Later
  <2>1. Allowance' = Allowance + 1
    <3>1. faults' = faults + 1 /\ crashes' = crashes
      BY <1>8 DEF RecheckFails, SettleFails
    <3> QED
      BY <3>1, WorkerAssumption DEF Allowance
  <2>2. /\ UNCHANGED <<attempts, status, phase>>
        /\ \A v \in Worker : pc'[v] = "settling" =>
              /\ pc[v] # "idle" /\ cur'[v] = cur[v]
              /\ op'[v] = "retry" => pc[v] = "settling" /\ op[v] = "retry"
    BY <1>8 DEF RecheckFails, SettleFails, Release, FallbackOf, rowVars
  <2> QED
    BY <1>0, <1>1, <1>3, <2>1, <2>2
<1>9. ASSUME NEW w \in Worker, NEW outcome \in Op, ExecutionEnds(w, outcome) PROVE Later
  <2>1. /\ UNCHANGED <<attempts, status, phase, cur>>
        /\ pc[w] = "executing"
        /\ pc' = [pc EXCEPT ![w] = "settling"]
        /\ op' = [op EXCEPT ![w] = outcome]
        /\ outcome \in SettlementsOf(cur[w])
    BY <1>9 DEF ExecutionEnds, rowVars
  <2>2. outcome # "requeue" /\ (outcome = "retry" => attempts[cur[w]] < MaxAttempts)
    BY <1>0, <1>3, <2>1 DEF SettlementsOf
  <2> QED
    BY <1>0, <1>1, <1>3, <2>1, <2>2
<1>10. CASE \E w \in Worker :
               \/ Arm(w) \/ SkipCancelled(w) \/ Execute(w) \/ ExecutionCancelled(w)
               \/ Cleanup(w) \/ SettleTooLate(w)
  <2>1. UNCHANGED <<attempts, status, phase>>
    BY <1>10 DEF Arm, SkipCancelled, Execute, ExecutionCancelled, Cleanup, SettleTooLate, rowVars
  <2>2. \A v \in Worker : pc'[v] = "settling" =>
           pc[v] = "settling" /\ cur'[v] = cur[v] /\ op'[v] = op[v]
    BY <1>10
    DEF Arm, SkipCancelled, Execute, ExecutionCancelled, Cleanup, SettleTooLate, Forget, Release
  <2> QED
    BY <1>0, <1>1, <1>3, <2>1, <2>2
<1>11. CASE Crash
  <2>1. Allowance' = Allowance + 1
    BY <1>11, WorkerAssumption DEF Crash, Allowance
  <2>2. UNCHANGED <<attempts, status>> /\ \A w \in Worker : pc'[w] = "idle"
    BY <1>11 DEF Crash, rowVars
  <2> QED
    BY <1>0, <1>1, <2>1, <2>2
<1>12. CASE ReconcileCancel \/ ReconcileRequeue
  <2>1. UNCHANGED <<attempts, pc, cur, op>> /\ phase # "up"
    BY <1>12
    DEF ReconcileCancel, ReconcileRequeue, ReconcileCancelRows, ReconcileRequeueRows, memVars
  <2> QED
    BY <1>0, <1>1, <1>3, <2>1
<1>13. CASE \E e \in Effect : BackoffElapses(e) \/ Prune(e)
  <2>1. /\ UNCHANGED <<attempts, phase, pc, cur, op>>
        /\ \A e \in Effect : status'[e] = "pending" => status[e] = "pending"
    BY <1>13 DEF BackoffElapses, BecomeDue, Prune, PruneRow, memVars
  <2> QED
    BY <1>0, <1>1, <1>3, <2>1
<1>14. CASE (\E x \in Waiter : WaiterStep(x)) \/ \E e \in Effect : SignalCancellation(e)
  <2>1. UNCHANGED <<attempts, status, phase, pc, cur, op>>
    BY <1>14
    DEF WaiterStep, AwaitRegister, AwaitRead, AwaitBegin, AwaitResolves, SignalCancellation, rowVars
  <2> QED
    BY <1>0, <1>1, <1>3, <2>1
<1> QED
  BY <1>4, <1>5, <1>6, <1>7, <1>8, <1>9, <1>10, <1>11, <1>12, <1>13, <1>14 DEF Next, WorkerStep

(* An effect is attempted MaxAttempts times at most, and once more for     *)
(* each failed statement and each loss of the process.                     *)
THEOREM FewAttempts == Spec => []AttemptsBounded
<1>1. Init => AttemptsLeft
  BY WorkerAssumption DEF Init, OutboxInit, AttemptsLeft, AttemptsBounded, Allowance
<1>2. IInv /\ IInv' /\ AttemptsLeft /\ [Next]_vars => AttemptsLeft'
  BY StepPreservesAttemptsLeft
<1>3. AttemptsLeft => AttemptsBounded
  BY DEF AttemptsLeft
<1> QED
  BY <1>1, <1>2, <1>3, Invariance, PTL DEF Spec
=============================================================================
