---------------------------- MODULE EffectOutbox ----------------------------
(***************************************************************************)
(* The durable half of orchestration-v2/EffectOutbox.ts: the rows of the   *)
(* table orchestration_v2_effect_outbox and the SQL statements that change *)
(* them.  A statement is one action on the row variables; SQLite runs it   *)
(* atomically.  What the server keeps in memory about a row (cancellation  *)
(* signals, worker fibers) is in EffectWorker, which composes these        *)
(* statements into the steps of the running server.                        *)
(***************************************************************************)
EXTENDS Naturals

CONSTANTS
    Effect,         \* effect ids
    Thread,         \* thread ids
    ThreadOf,       \* the thread an effect belongs to
    TypeOf,         \* the request type of an effect
    Pid,            \* process ids the operating system may hand out
    NoPid           \* SQL NULL in lease_owner

ReplaySafe == { "provider-runtime.continue", "provider-session.detach",
                "provider-thread.rollback", "checkpoint.capture",
                "scheduled-tasks.cleanup", "terminal.cleanup",
                "preview.cleanup", "attachment.cleanup",
                "thread-title.generate", "delegated-tasks.stop" }

ProcessBound == { "provider-turn.start", "provider-turn.interrupt",
                  "provider-turn.steer", "provider-turn.restart",
                  "runtime-request.respond" }

EffectType == ReplaySafe \cup ProcessBound

ASSUME OutboxAssumption ==
    /\ ThreadOf \in [Effect -> Thread]
    /\ TypeOf \in [Effect -> EffectType]
    /\ NoPid \notin Pid

(***************************************************************************)
(* "absent" is an effect never inserted and "pruned" one whose row was     *)
(* deleted: the table holds no row for either.  rowid numbers the          *)
(* insertions; only the order of rows that coexist is ever compared.       *)
(***************************************************************************)
Unsettled == {"pending", "running"}
Settled   == {"succeeded", "failed", "cancelled"}
Status    == Unsettled \cup Settled \cup {"absent", "pruned"}

VARIABLES
    status,         \* [Effect -> Status]
    rowid,          \* [Effect -> Nat], 0 before the insertion
    lastRowid,      \* the highest rowid given out
    attempts,       \* attempt_count
    due,            \* available_at <= now
    lease           \* lease_owner

rowVars == <<status, rowid, lastRowid, attempts, due, lease>>

OutboxTypeOK ==
    /\ status \in [Effect -> Status]
    /\ rowid \in [Effect -> Nat]
    /\ lastRowid \in Nat
    /\ attempts \in [Effect -> Nat]
    /\ due \in [Effect -> BOOLEAN]
    /\ lease \in [Effect -> Pid \cup {NoPid}]

OutboxInit ==
    /\ status = [e \in Effect |-> "absent"]
    /\ rowid = [e \in Effect |-> 0]
    /\ lastRowid = 0
    /\ attempts = [e \in Effect |-> 0]
    /\ due = [e \in Effect |-> FALSE]
    /\ lease = [e \in Effect |-> NoPid]

-----------------------------------------------------------------------------
(* Title generation runs beside everything else its thread has queued. *)
SameLane(a, b) ==
    /\ ThreadOf[a] = ThreadOf[b]
    /\ (TypeOf[a] = "thread-title.generate") <=> (TypeOf[b] = "thread-title.generate")

(* Mutants of Blocks: the NOT EXISTS over running rows is forgotten; an     *)
(* older row blocks only once its back-off is over.                        *)
BlocksIfOlder(a, e) ==
    SameLane(a, e) /\ status[a] = "pending" /\ rowid[a] < rowid[e]

BlocksIfDue(a, e) ==
    /\ SameLane(a, e)
    /\ \/ status[a] = "running"
       \/ status[a] = "pending" /\ due[a] /\ rowid[a] < rowid[e]

(* A pending row is a candidate unless its lane has a running row or an    *)
(* older pending one.  The older row blocks even while it backs off.       *)
Blocks(a, e) ==
    /\ SameLane(a, e)
    /\ \/ status[a] = "running"
       \/ status[a] = "pending" /\ rowid[a] < rowid[e]

Claimable(e) ==
    /\ status[e] = "pending"
    /\ due[e]
    /\ \A a \in Effect : ~Blocks(a, e)

OwnsLease(e, owner) == status[e] = "running" /\ lease[e] = owner

-----------------------------------------------------------------------------
(* INSERT ... ON CONFLICT DO NOTHING for a row the table does not hold;    *)
(* re-inserting a row it holds changes nothing.  isDue is FALSE when the   *)
(* caller gave a future availableAt.  cancels is the set of rows the same  *)
(* transaction cancels after the insertion (cancelUnsettled).              *)
InsertThenCancel(new, isDue, cancels) ==
    /\ new \subseteq {e \in Effect : status[e] = "absent"}
    /\ status' = [e \in Effect |->
            IF e \in cancels THEN "cancelled"
            ELSE IF e \in new THEN "pending" ELSE status[e]]
    /\ lastRowid' = IF new = {} THEN lastRowid ELSE lastRowid + 1
    /\ rowid' = [e \in Effect |-> IF e \in new THEN lastRowid + 1 ELSE rowid[e]]
    /\ due' = [e \in Effect |-> IF e \in new THEN isDue ELSE due[e]]
    /\ lease' = [e \in Effect |-> IF e \in cancels THEN NoPid ELSE lease[e]]
    /\ UNCHANGED attempts

(* The rows cancelUnsettled matches once new is inserted. *)
CancelMatches(new, thread, types) ==
    {e \in Effect : /\ status[e] \in Unsettled \/ e \in new
                    /\ ThreadOf[e] = thread
                    /\ TypeOf[e] \in types}

(* Mutant of ClaimRow: attempts are counted down. *)
ClaimRowCountingDown(e, owner) ==
    /\ Claimable(e)
    /\ status' = [status EXCEPT ![e] = "running"]
    /\ attempts' = [attempts EXCEPT ![e] = @ - 1]
    /\ lease' = [lease EXCEPT ![e] = owner]
    /\ UNCHANGED <<rowid, lastRowid, due>>

(* The order of claims between lanes (available_at, created_at, effect_id) *)
(* is left open: any candidate may be the one the statement picks.         *)
ClaimRow(e, owner) ==
    /\ Claimable(e)
    /\ status' = [status EXCEPT ![e] = "running"]
    /\ attempts' = [attempts EXCEPT ![e] = @ + 1]
    /\ lease' = [lease EXCEPT ![e] = owner]
    /\ UNCHANGED <<rowid, lastRowid, due>>

(* Mutant of SettleRow: WHERE effect_id = ... alone. *)
SettleRowById(e, owner, outcome) ==
    /\ status' = [status EXCEPT ![e] = outcome]
    /\ lease' = [lease EXCEPT ![e] = NoPid]
    /\ UNCHANGED <<rowid, lastRowid, attempts, due>>

SettleRow(e, owner, outcome) ==
    /\ OwnsLease(e, owner)
    /\ status' = [status EXCEPT ![e] = outcome]
    /\ lease' = [lease EXCEPT ![e] = NoPid]
    /\ UNCHANGED <<rowid, lastRowid, attempts, due>>

SucceedRow(e, owner) == SettleRow(e, owner, "succeeded")

FailRow(e, owner) == SettleRow(e, owner, "failed")

(* isDue is TRUE when delayMs = 0. *)
RetryRow(e, owner, isDue) ==
    /\ OwnsLease(e, owner)
    /\ status' = [status EXCEPT ![e] = "pending"]
    /\ due' = [due EXCEPT ![e] = isDue]
    /\ lease' = [lease EXCEPT ![e] = NoPid]
    /\ UNCHANGED <<rowid, lastRowid, attempts>>

(* The clock reaches the available_at of a pending row. *)
BecomeDue(e) ==
    /\ status[e] = "pending" /\ ~due[e]
    /\ due' = [due EXCEPT ![e] = TRUE]
    /\ UNCHANGED <<status, rowid, lastRowid, attempts, lease>>

(* Mutants: pending process-bound rows survive the loss; a type is missing *)
(* from the list of replayed ones.                                         *)
ReconcileCancelRunning ==
    LET lost == {e \in Effect : status[e] = "running" /\ TypeOf[e] \in ProcessBound}
    IN  /\ status' = [e \in Effect |-> IF e \in lost THEN "cancelled" ELSE status[e]]
        /\ lease' = [e \in Effect |-> IF e \in lost THEN NoPid ELSE lease[e]]
        /\ UNCHANGED <<rowid, lastRowid, attempts, due>>

ReconcileRequeueIncomplete ==
    LET replayed == {e \in Effect : status[e] = "running"
                        /\ TypeOf[e] \in ReplaySafe \ {"provider-runtime.continue"}}
    IN  /\ status' = [e \in Effect |-> IF e \in replayed THEN "pending" ELSE status[e]]
        /\ due' = [e \in Effect |-> IF e \in replayed THEN TRUE ELSE due[e]]
        /\ lease' = [e \in Effect |-> IF e \in replayed THEN NoPid ELSE lease[e]]
        /\ UNCHANGED <<rowid, lastRowid, attempts>>

(* The two UPDATEs of reconcileAfterProcessLoss. *)
ReconcileCancelRows ==
    LET lost == {e \in Effect : status[e] \in Unsettled /\ TypeOf[e] \in ProcessBound}
    IN  /\ status' = [e \in Effect |-> IF e \in lost THEN "cancelled" ELSE status[e]]
        /\ lease' = [e \in Effect |-> IF e \in lost THEN NoPid ELSE lease[e]]
        /\ UNCHANGED <<rowid, lastRowid, attempts, due>>

ReconcileRequeueRows ==
    LET replayed == {e \in Effect : status[e] = "running" /\ TypeOf[e] \in ReplaySafe}
    IN  /\ status' = [e \in Effect |-> IF e \in replayed THEN "pending" ELSE status[e]]
        /\ due' = [e \in Effect |-> IF e \in replayed THEN TRUE ELSE due[e]]
        /\ lease' = [e \in Effect |-> IF e \in replayed THEN NoPid ELSE lease[e]]
        /\ UNCHANGED <<rowid, lastRowid, attempts>>

(* Failed rows are kept: they retain the worktrees of deleted threads. *)
PruneRow(e) ==
    /\ status[e] \in {"succeeded", "cancelled"}
    /\ status' = [status EXCEPT ![e] = "pruned"]
    /\ UNCHANGED <<rowid, lastRowid, attempts, due, lease>>
=============================================================================
