---------------------------- MODULE EffectWorker ----------------------------
(***************************************************************************)
(* The effect system of the orchestrator: the fibers of EffectWorker.ts    *)
(* working off the outbox, the commands that enqueue and cancel rows       *)
(* (EventSink.commitCommand), the callers of awaitSettled, and the         *)
(* reconciliation that a new server process runs before its workers start. *)
(*                                                                         *)
(* One process runs all fibers, so a fiber is interrupted only where it    *)
(* waits: for a permit, for a reader thread, for an execution.  An action  *)
(* is what a fiber does between two waits.  Preemptible adds the other     *)
(* place the Effect scheduler can suspend a fiber, between a settlement's  *)
(* statement and the map updates that follow it.                           *)
(***************************************************************************)
EXTENDS EffectOutbox

CONSTANTS
    Worker,         \* fibers of runDaemonWithOptions
    Waiter,         \* callers of awaitSettled
    AwaitedBy,      \* the effect a waiter waits for
    NoEffect,
    MaxAttempts,    \* maxAttempts
    Preemptible,    \* may a fiber be suspended inside succeed, retry and fail?
    MaxDbFaults,    \* bound: failing statements
    MaxCrashes      \* bound: losses of the process

ASSUME WorkerAssumption ==
    /\ AwaitedBy \in [Waiter -> Effect]
    /\ NoEffect \notin Effect
    /\ MaxAttempts \in Nat \ {0}
    /\ Preemptible \in BOOLEAN
    /\ MaxDbFaults \in Nat
    /\ MaxCrashes \in Nat

(* What dispatchRunInterrupt and dispatchThreadStop cancel: the turns that *)
(* were going to start.                                                    *)
CommandCancels == {"provider-turn.start", "provider-turn.restart"}

VARIABLES
    phase,          \* recovering, reconciling, up
    pid,            \* process.pid; all fibers share the workerId made from it
    pc,             \* [Worker -> PC]
    cur,            \* [Worker -> the claimed effect or NoEffect]
    op,             \* [Worker -> the settlement being tried]
    fallback,       \* [Worker -> is it the last one onError tries?]
    signals,        \* keys of cancellationSignals
    fired,          \* [Worker -> is the Deferred it armed done?]
    toSignal,       \* cancelled by a committed command, not yet signalled
    wstate,         \* [Waiter -> progress of awaitSettled]
    wfired,         \* [Waiter -> is the Deferred it registered done?]
    beganHere,      \* history: effects whose execution began in this process
    beganBefore,    \* history: ... in an earlier process
    faults, crashes

memVars  == <<pid, pc, cur, op, fallback, signals, fired, toSignal, wstate, wfired, beganHere>>
histVars == <<beganBefore, faults, crashes>>
vars     == <<rowVars, phase, memVars, histVars>>

PC == {"idle", "claimed", "armed", "executing", "settling", "cleanup"}
Op == {"none", "succeed", "fail", "retry", "requeue"}

TypeOK ==
    /\ OutboxTypeOK
    /\ phase \in {"recovering", "reconciling", "up"}
    /\ pid \in Pid
    /\ pc \in [Worker -> PC]
    /\ cur \in [Worker -> Effect \cup {NoEffect}]
    /\ op \in [Worker -> Op]
    /\ fallback \in [Worker -> BOOLEAN]
    /\ signals \subseteq Effect
    /\ fired \in [Worker -> BOOLEAN]
    /\ toSignal \subseteq Effect
    /\ wstate \in [Waiter -> {"idle", "registered", "unsettled", "waiting", "resolved"}]
    /\ wfired \in [Waiter -> BOOLEAN]
    /\ beganHere \subseteq Effect
    /\ beganBefore \subseteq Effect
    /\ faults \in Nat
    /\ crashes \in Nat

Init ==
    /\ OutboxInit
    /\ phase = "recovering"
    /\ pid \in Pid
    /\ pc = [w \in Worker |-> "idle"]
    /\ cur = [w \in Worker |-> NoEffect]
    /\ op = [w \in Worker |-> "none"]
    /\ fallback = [w \in Worker |-> FALSE]
    /\ signals = {}
    /\ fired = [w \in Worker |-> FALSE]
    /\ toSignal = {}
    /\ wstate = [x \in Waiter |-> "idle"]
    /\ wfired = [x \in Waiter |-> FALSE]
    /\ beganHere = {}
    /\ beganBefore = {}
    /\ faults = 0
    /\ crashes = 0

-----------------------------------------------------------------------------
(* Mutant of Registered: the Deferred is made after the read.              *)
RegisteredLate(x) == wstate[x] = "waiting"

(* signalSettled: complete the Deferred that the waiters of e registered.  *)
Registered(x) == wstate[x] \in {"registered", "unsettled", "waiting"}

SignalSettled(S) ==
    wfired' = [x \in Waiter |-> wfired[x] \/ (Registered(x) /\ AwaitedBy[x] \in S)]

Release(w) ==
    /\ pc' = [pc EXCEPT ![w] = "idle"]
    /\ cur' = [cur EXCEPT ![w] = NoEffect]
    /\ op' = [op EXCEPT ![w] = "none"]
    /\ fallback' = [fallback EXCEPT ![w] = FALSE]
    /\ fired' = [fired EXCEPT ![w] = FALSE]

-----------------------------------------------------------------------------
(* Commands. *)

(* Mutant of CommitOutbox: what was cancelled is not signalled. *)
CommitOutboxSilently(new, isDue, thread, types) ==
    /\ InsertThenCancel(new, isDue, CancelMatches(new, thread, types))
    /\ UNCHANGED toSignal

(* The transaction of commitCommand.  A transaction that inserts several   *)
(* rows is consecutive steps here: with no insertion between them and each *)
(* row still pending, a worker could not tell.                             *)
CommitOutbox(new, isDue, thread, types) ==
    LET cancels == CancelMatches(new, thread, types)
    IN  /\ InsertThenCancel(new, isDue, cancels)
        /\ toSignal' = toSignal \cup cancels

CommitCommand ==
    /\ phase = "up"
    /\ \E new \in {{}} \cup {{e} : e \in Effect}, isDue \in BOOLEAN,
          thread \in Thread, types \in {{}, CommandCancels} :
            CommitOutbox(new, isDue, thread, types)
    /\ UNCHANGED <<phase, pid, pc, cur, op, fallback, signals, fired, wstate, wfired,
                   beganHere, histVars>>

(* signalCancellations, after the commit. *)
SignalCancellation(e) ==
    /\ e \in toSignal
    /\ toSignal' = toSignal \ {e}
    /\ fired' = [w \in Worker |->
            fired[w] \/ (e \in signals /\ cur[w] = e /\ pc[w] \in {"armed", "executing"})]
    /\ SignalSettled({e})
    /\ UNCHANGED <<rowVars, phase, pid, pc, cur, op, fallback, signals, wstate, beganHere,
                   histVars>>

-----------------------------------------------------------------------------
(* runOnce. *)

ClaimNext(w) ==
    /\ phase = "up"
    /\ pc[w] = "idle"
    /\ \E e \in Effect :
        /\ ClaimRow(e, pid)
        /\ cur' = [cur EXCEPT ![w] = e]
    /\ pc' = [pc EXCEPT ![w] = "claimed"]
    /\ UNCHANGED <<phase, pid, op, fallback, signals, fired, toSignal, wstate, wfired,
                   beganHere, histVars>>

(* claimNext stores a fresh Deferred and runOnce arms it. *)
Arm(w) ==
    /\ pc[w] = "claimed"
    /\ signals' = signals \cup {cur[w]}
    /\ pc' = [pc EXCEPT ![w] = "armed"]
    /\ UNCHANGED <<rowVars, phase, pid, cur, op, fallback, fired, toSignal, wstate, wfired,
                   beganHere, histVars>>

(* The durable reread finds the claim cancelled. *)
SkipCancelled(w) ==
    /\ pc[w] = "armed"
    /\ status[cur[w]] = "cancelled"
    /\ signals' = signals \ {cur[w]}
    /\ Release(w)
    /\ UNCHANGED <<rowVars, phase, pid, toSignal, wstate, wfired, beganHere, histVars>>

(* Mutant of Execute: the durable state is not read again. *)
ExecuteUnchecked(w) ==
    /\ pc[w] = "armed"
    /\ pc' = [pc EXCEPT ![w] = "executing"]
    /\ beganHere' = beganHere \cup {cur[w]}
    /\ UNCHANGED <<rowVars, phase, pid, cur, op, fallback, signals, fired, toSignal, wstate,
                   wfired, histVars>>

Execute(w) ==
    /\ pc[w] = "armed"
    /\ status[cur[w]] # "cancelled"
    /\ pc' = [pc EXCEPT ![w] = "executing"]
    /\ beganHere' = beganHere \cup {cur[w]}
    /\ UNCHANGED <<rowVars, phase, pid, cur, op, fallback, signals, fired, toSignal, wstate,
                   wfired, histVars>>

(* The reread itself fails: requeueClaim. *)
RecheckFails(w) ==
    /\ pc[w] = "armed"
    /\ faults < MaxDbFaults
    /\ faults' = faults + 1
    /\ pc' = [pc EXCEPT ![w] = "settling"]
    /\ op' = [op EXCEPT ![w] = "requeue"]
    /\ fallback' = [fallback EXCEPT ![w] = TRUE]
    /\ UNCHANGED <<rowVars, phase, pid, cur, signals, fired, toSignal, wstate, wfired,
                   beganHere, beganBefore, crashes>>

(* Mutant of SettlementsOf: one attempt too many. *)
SettlementsOfLate(e) ==
    { IF attempts[e] > MaxAttempts THEN "fail" ELSE "retry", "succeed" }

(* The execution ends by itself; the settlement depends on how.  A control *)
(* failure that says the turn is already over counts as success.           *)
SettlementsOf(e) ==
    { IF attempts[e] >= MaxAttempts THEN "fail" ELSE "retry", "succeed" }

ExecutionEnds(w, outcome) ==
    /\ pc[w] = "executing"
    /\ outcome \in SettlementsOf(cur[w])
    /\ signals' = signals \ {cur[w]}
    /\ pc' = [pc EXCEPT ![w] = "settling"]
    /\ op' = [op EXCEPT ![w] = outcome]
    /\ UNCHANGED <<rowVars, phase, pid, cur, fallback, fired, toSignal, wstate, wfired,
                   beganHere, histVars>>

(* The armed Deferred wins the race and interrupts the execution. *)
ExecutionCancelled(w) ==
    /\ pc[w] = "executing"
    /\ fired[w]
    /\ signals' = signals \ {cur[w]}
    /\ Release(w)
    /\ UNCHANGED <<rowVars, phase, pid, toSignal, wstate, wfired, beganHere, histVars>>

(* The map updates that follow a settlement that changed the row. *)
Forget(w, settled) ==
    /\ signals' = signals \ {cur[w]}
    /\ SignalSettled(IF settled THEN {cur[w]} ELSE {})
    /\ Release(w)

SettleStatement(w) ==
    \/ op[w] = "succeed" /\ SucceedRow(cur[w], pid)
    \/ op[w] = "fail"    /\ FailRow(cur[w], pid)
    \/ op[w] = "retry"   /\ RetryRow(cur[w], pid, FALSE)
    \/ op[w] = "requeue" /\ RetryRow(cur[w], pid, TRUE)

SettlesRow(w) == op[w] \in {"succeed", "fail"}

Settle(w) ==
    /\ pc[w] = "settling"
    /\ SettleStatement(w)
    /\ \/ Forget(w, SettlesRow(w))
       \/ /\ Preemptible
          /\ pc' = [pc EXCEPT ![w] = "cleanup"]
          /\ UNCHANGED <<cur, op, fallback, signals, fired, wfired>>
    /\ UNCHANGED <<phase, pid, toSignal, wstate, beganHere, histVars>>

Cleanup(w) ==
    /\ pc[w] = "cleanup"
    /\ Forget(w, SettlesRow(w))
    /\ UNCHANGED <<rowVars, phase, pid, toSignal, wstate, beganHere, histVars>>

(* The row is no longer this fiber's: it was cancelled while it executed.  *)
SettleTooLate(w) ==
    /\ pc[w] = "settling"
    /\ ~OwnsLease(cur[w], pid)
    /\ Release(w)
    /\ UNCHANGED <<rowVars, phase, pid, signals, toSignal, wstate, wfired, beganHere, histVars>>

(* The statement fails.  onError tries once more: recoverPostSuccess-      *)
(* Settlement, terminalizeClaim or requeueClaim.  When that fails too the  *)
(* row stays running.                                                      *)
FallbackOf(w) ==
    IF \/ op[w] = "fail"
       \/ op[w] = "succeed" /\ TypeOf[cur[w]] \in ProcessBound
    THEN "fail" ELSE "requeue"

SettleFails(w) ==
    /\ pc[w] = "settling"
    /\ faults < MaxDbFaults
    /\ faults' = faults + 1
    /\ \/ fallback[w] /\ Release(w)
       \/ /\ ~fallback[w]
          /\ op' = [op EXCEPT ![w] = FallbackOf(w)]
          /\ fallback' = [fallback EXCEPT ![w] = TRUE]
          /\ UNCHANGED <<pc, cur, fired>>
    /\ UNCHANGED <<rowVars, phase, pid, signals, toSignal, wstate, wfired, beganHere,
                   beganBefore, crashes>>

-----------------------------------------------------------------------------
(* awaitSettled: register, read on a reader thread, wait. *)

AwaitRegister(x) ==
    /\ phase = "up"
    /\ wstate[x] = "idle"
    /\ wstate' = [wstate EXCEPT ![x] = "registered"]
    /\ UNCHANGED <<rowVars, phase, pid, pc, cur, op, fallback, signals, fired, toSignal,
                   wfired, beganHere, histVars>>

AwaitRead(x) ==
    /\ wstate[x] = "registered"
    /\ IF status[AwaitedBy[x]] \in Unsettled
          THEN /\ wstate' = [wstate EXCEPT ![x] = "unsettled"]
               /\ UNCHANGED wfired
          ELSE /\ wstate' = [wstate EXCEPT ![x] = "resolved"]
               /\ SignalSettled({AwaitedBy[x]})
    /\ UNCHANGED <<rowVars, phase, pid, pc, cur, op, fallback, signals, fired, toSignal,
                   beganHere, histVars>>

AwaitBegin(x) ==
    /\ wstate[x] = "unsettled"
    /\ wstate' = [wstate EXCEPT ![x] = "waiting"]
    /\ UNCHANGED <<rowVars, phase, pid, pc, cur, op, fallback, signals, fired, toSignal,
                   wfired, beganHere, histVars>>

AwaitResolves(x) ==
    /\ wstate[x] = "waiting"
    /\ wfired[x]
    /\ wstate' = [wstate EXCEPT ![x] = "resolved"]
    /\ UNCHANGED <<rowVars, phase, pid, pc, cur, op, fallback, signals, fired, toSignal,
                   wfired, beganHere, histVars>>

-----------------------------------------------------------------------------
(* Process loss and recovery. *)

(* The process ends, by a crash or because a shutdown interrupts its       *)
(* fibers.  The next one may be given the same pid.                        *)
Crash ==
    /\ crashes < MaxCrashes
    /\ crashes' = crashes + 1
    /\ phase' = "recovering"
    /\ pid' \in Pid
    /\ pc' = [w \in Worker |-> "idle"]
    /\ cur' = [w \in Worker |-> NoEffect]
    /\ op' = [w \in Worker |-> "none"]
    /\ fallback' = [w \in Worker |-> FALSE]
    /\ signals' = {}
    /\ fired' = [w \in Worker |-> FALSE]
    /\ toSignal' = {}
    /\ wstate' = [x \in Waiter |-> "idle"]
    /\ wfired' = [x \in Waiter |-> FALSE]
    /\ beganHere' = {}
    /\ beganBefore' = beganBefore \cup beganHere
    /\ UNCHANGED <<rowVars, faults>>

(* reconcileProjection commits one command per thread it repairs. *)
RecoverThread ==
    /\ phase = "recovering"
    /\ \E new \in {{}} \cup {{e} : e \in {f \in Effect : TypeOf[f] = "provider-runtime.continue"}},
          thread \in Thread :
            CommitOutbox(new, TRUE, thread, ProcessBound)
    /\ UNCHANGED <<phase, pid, pc, cur, op, fallback, signals, fired, wstate, wfired,
                   beganHere, histVars>>

ReconcileCancel ==
    /\ phase = "recovering"
    /\ phase' = "reconciling"
    /\ ReconcileCancelRows
    /\ UNCHANGED <<memVars, histVars>>

ReconcileRequeue ==
    /\ phase = "reconciling"
    /\ phase' = "up"
    /\ ReconcileRequeueRows
    /\ UNCHANGED <<memVars, histVars>>

-----------------------------------------------------------------------------
(* Time. *)

BackoffElapses(e) ==
    /\ BecomeDue(e)
    /\ UNCHANGED <<phase, memVars, histVars>>

(* The week of retention outlasts every step but an execution. *)
Prune(e) ==
    /\ phase = "up"
    /\ e \notin toSignal
    /\ \A w \in Worker : cur[w] = e => pc[w] = "executing"
    /\ PruneRow(e)
    /\ UNCHANGED <<phase, memVars, histVars>>

-----------------------------------------------------------------------------
WorkerStep(w) ==
    \/ ClaimNext(w)
    \/ Arm(w)
    \/ SkipCancelled(w)
    \/ Execute(w)
    \/ RecheckFails(w)
    \/ \E outcome \in Op : ExecutionEnds(w, outcome)
    \/ ExecutionCancelled(w)
    \/ Settle(w)
    \/ Cleanup(w)
    \/ SettleTooLate(w)
    \/ SettleFails(w)

WaiterStep(x) ==
    \/ AwaitRegister(x) \/ AwaitRead(x) \/ AwaitBegin(x) \/ AwaitResolves(x)

Next ==
    \/ CommitCommand
    \/ \E w \in Worker : WorkerStep(w)
    \/ \E x \in Waiter : WaiterStep(x)
    \/ \E e \in Effect : SignalCancellation(e) \/ BackoffElapses(e) \/ Prune(e)
    \/ Crash
    \/ RecoverThread
    \/ ReconcileCancel
    \/ ReconcileRequeue

Spec == Init /\ [][Next]_vars

(* The daemon polls even when no notification arrives, a committed command *)
(* goes on to signal (EventSink masks interruption), time passes, startup  *)
(* runs recovery before it serves, and an execution ends: an executor      *)
(* bounds its own provider calls, delegated-tasks.stop by boundExecution.  *)
Fairness ==
    /\ \A w \in Worker :
        /\ WF_vars(ClaimNext(w))
        /\ WF_vars(Arm(w))
        /\ WF_vars(SkipCancelled(w) \/ Execute(w))
        /\ WF_vars(\E outcome \in Op : ExecutionEnds(w, outcome))
        /\ WF_vars(Settle(w) \/ SettleTooLate(w))
        /\ WF_vars(Cleanup(w))
    /\ \A x \in Waiter : WF_vars(AwaitRead(x) \/ AwaitBegin(x) \/ AwaitResolves(x))
    /\ \A e \in Effect : WF_vars(SignalCancellation(e)) /\ WF_vars(BackoffElapses(e))
    /\ WF_vars(ReconcileCancel)
    /\ WF_vars(ReconcileRequeue)

FairSpec == Spec /\ Fairness

-----------------------------------------------------------------------------
(* Properties. *)

Busy(w) == pc[w] \in {"claimed", "armed", "executing", "settling"}

(* The effects of one lane run one at a time: the lane of a thread never   *)
(* has two rows running, whatever is retried, cancelled, requeued after a  *)
(* failed statement or replayed after a crash (claimableCandidate-         *)
(* Predicate).                                                             *)
OneRunningPerLane ==
    \A a, b \in Effect :
        status[a] = "running" /\ status[b] = "running" /\ SameLane(a, b) => a = b

(* A turn never races a pending rollback: an effect has been attempted     *)
(* only if everything enqueued before it in its lane is settled.           *)
StartsInOrder ==
    \A a, b \in Effect :
        SameLane(a, b) /\ status[a] \in Unsettled /\ rowid[a] < rowid[b] => attempts[b] = 0

(* Two executions overlap in a lane only when the older was cancelled and  *)
(* is about to be interrupted.                                             *)
ExclusiveExecution ==
    \A v, w \in Worker :
        /\ v # w
        /\ pc[v] = "executing" /\ pc[w] = "executing"
        /\ SameLane(cur[v], cur[w])
        => \E u \in {v, w} : fired[u] \/ cur[u] \in toSignal

(* A cancellation is never missed: an execution whose row is cancelled is  *)
(* interrupted or is about to be, whether the command committed before or  *)
(* after the worker armed its Deferred (the read-to-registration race of   *)
(* runOnce).                                                               *)
CancellationReaches ==
    \A w \in Worker :
        pc[w] = "executing" /\ status[cur[w]] \in {"cancelled", "pruned"}
        => fired[w] \/ cur[w] \in toSignal

(* What drives the provider is never executed again by a later process.    *)
ProcessBoundStaysInProcess ==
    \A w \in Worker :
        pc[w] = "executing" /\ TypeOf[cur[w]] \in ProcessBound => cur[w] \notin beganBefore

(* Only a crash and a failed statement buy an effect another attempt.      *)
AttemptsBounded ==
    \A e \in Effect : attempts[e] <= MaxAttempts + faults + crashes

(* A settled row is never settled again or revived: a fiber whose effect   *)
(* was cancelled cannot report it succeeded, failed or pending.            *)
SettledIsFinal ==
    [][\A e \in Effect :
        status[e] \in Settled => status'[e] = status[e] \/ status'[e] = "pruned"]_vars

(* Every effect a command enqueued settles, unless a settlement and its    *)
(* fallback have both failed: that one waits for the next process.         *)
EveryEffectSettles ==
    \A e \in Effect :
        status[e] \in Unsettled ~> status[e] \notin Unsettled \/ faults >= 2

(* Every call of awaitSettled returns, or its process is lost; with the    *)
(* same exception.                                                         *)
WaitersReturn ==
    \A x \in Waiter : Registered(x) ~> ~Registered(x) \/ faults >= 2
=============================================================================
