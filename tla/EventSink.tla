------------------------------ MODULE EventSink ------------------------------
(***************************************************************************)
(* The write path of orchestration-v2/EventSink.ts and the part of         *)
(* Orchestrator.ts that drives it.  A dispatched command takes its         *)
(* thread's lock, looks for a receipt, is planned, and is then accepted    *)
(* (commitCommand) or refused (commitRejectedCommand).  Internal writers   *)
(* and retried effects enter at the transaction.  Three locks are nested:  *)
(* the thread's lock, SQLite's only write connection, and the publish      *)
(* lane, which a transaction takes before it commits and holds until its   *)
(* events are on the channel.                                              *)
(***************************************************************************)
EXTENDS Naturals, Sequences, FiniteSets

CONSTANTS
    Request,        \* one attempt to write: an RPC, or an internal write
    NoRequest,
    Command,        \* command ids; two requests may carry the same one
    NoCommand,      \* the command of an internal write
    Thread,
    CommandOf,      \* [Request -> Command \cup {NoCommand}]
    ThreadOf,       \* [Request -> Thread]
    BatchSize,      \* how many events the request's plan has
    Direct,         \* requests that enter at the transaction
    MaxCrashes

ASSUME SinkAssumption ==
    /\ NoRequest \notin Request
    /\ NoCommand \notin Command
    /\ CommandOf \in [Request -> Command \cup {NoCommand}]
    /\ ThreadOf \in [Request -> Thread]
    /\ BatchSize \in [Request -> Nat]
    /\ Direct \subseteq Request
    /\ \A r \in Request : CommandOf[r] = NoCommand => r \in Direct
    /\ \A r \in Direct : BatchSize[r] > 0
    /\ MaxCrashes \in Nat

VARIABLES
    log,            \* the requests whose events are stored, in sequence order
    receiptStatus,  \* [Command -> {"none", "accepted", "rejected"}]
    receiptBy,      \* the request that stored the receipt
    pc,             \* where each request is
    stored,         \* storedEvents: the sequences its transaction appended
    reply,          \* what the caller was told
    locked,         \* threadDispatch: the holder of each thread's lock
    db,             \* the holder of the write connection
    lane,           \* publishLane
    channel,        \* sequences put on the PubSub since the server started
    crashes

vars == <<log, receiptStatus, receiptBy, pc, stored, reply, locked, db, lane,
          channel, crashes>>

Stage == {"idle", "planning", "refusing", "opening", "writing", "written",
          "committing", "publishing", "done"}

Reply == {"none", "accepted", "replayed", "rejected", "conflict", "failed"}

TypeOK ==
    /\ log \in Seq(Request)
    /\ receiptStatus \in [Command -> {"none", "accepted", "rejected"}]
    /\ receiptBy \in [Command -> Request \cup {NoRequest}]
    /\ pc \in [Request -> Stage]
    /\ stored \in [Request -> Seq(Nat \ {0})]
    /\ reply \in [Request -> Reply]
    /\ locked \in [Thread -> Request \cup {NoRequest}]
    /\ db \in Request \cup {NoRequest}
    /\ lane \in Request \cup {NoRequest}
    /\ channel \in Seq(Nat \ {0})
    /\ crashes \in 0 .. MaxCrashes

Init ==
    /\ log = << >>
    /\ receiptStatus = [c \in Command |-> "none"]
    /\ receiptBy = [c \in Command |-> NoRequest]
    /\ pc = [r \in Request |-> "idle"]
    /\ stored = [r \in Request |-> << >>]
    /\ reply = [r \in Request |-> "none"]
    /\ locked = [t \in Thread |-> NoRequest]
    /\ db = NoRequest
    /\ lane = NoRequest
    /\ channel = << >>
    /\ crashes = 0

-----------------------------------------------------------------------------
At(r, stage) == pc[r] = stage

GoTo(r, stage) == pc' = [pc EXCEPT ![r] = stage]

(* The request ends: its caller has an answer and its thread is unlocked. *)
Answer(r, answer) ==
    /\ pc' = [pc EXCEPT ![r] = "done"]
    /\ reply' = [reply EXCEPT ![r] = answer]
    /\ locked' = [t \in Thread |-> IF locked[t] = r THEN NoRequest ELSE locked[t]]

Known(r) == CommandOf[r] # NoCommand /\ receiptStatus[CommandOf[r]] # "none"

Record(r, verdict) ==
    /\ receiptStatus' = [receiptStatus EXCEPT ![CommandOf[r]] = verdict]
    /\ receiptBy' = [receiptBy EXCEPT ![CommandOf[r]] = r]

(* What dispatch answers when it finds a receipt before planning. *)
ReplayedAnswer(r) ==
    IF receiptStatus[CommandOf[r]] = "rejected" THEN "rejected"
    ELSE IF ThreadOf[receiptBy[CommandOf[r]]] # ThreadOf[r] THEN "conflict"
    ELSE "replayed"

-----------------------------------------------------------------------------
(* A dispatch takes its thread's lock, then reads the receipt. *)
Dispatch(r) ==
    /\ At(r, "idle") /\ r \notin Direct
    /\ locked[ThreadOf[r]] = NoRequest
    /\ IF Known(r)
       THEN Answer(r, ReplayedAnswer(r))
       ELSE /\ locked' = [locked EXCEPT ![ThreadOf[r]] = r]
            /\ GoTo(r, "planning")
            /\ UNCHANGED reply
    /\ UNCHANGED <<log, receiptStatus, receiptBy, stored, db, lane, channel, crashes>>

(* dispatchOnce accepts or fails; which depends on state that is not       *)
(* modelled here, and on reads that may fail.  A plan without events is    *)
(* committed, too, if it has effects.                                      *)
Plan(r) ==
    /\ At(r, "planning")
    /\ GoTo(r, "opening") \/ GoTo(r, "refusing")
    /\ UNCHANGED <<log, receiptStatus, receiptBy, stored, reply, locked, db,
                   lane, channel, crashes>>

(* A plan without events or effects only leaves its receipt. *)
RecordNoop(r) ==
    /\ At(r, "planning") /\ BatchSize[r] = 0
    /\ db = NoRequest
    /\ IF Known(r)
       THEN UNCHANGED <<receiptStatus, receiptBy>> /\ Answer(r, "replayed")
       ELSE Record(r, "accepted") /\ Answer(r, "accepted")
    /\ UNCHANGED <<log, stored, db, lane, channel, crashes>>

(* commitRejectedCommand: one transaction, no lane. *)
Refuse(r) ==
    /\ At(r, "refusing")
    /\ db = NoRequest
    /\ IF Known(r) THEN UNCHANGED <<receiptStatus, receiptBy>> ELSE Record(r, "rejected")
    /\ Answer(r, "rejected")
    /\ UNCHANGED <<log, stored, db, lane, channel, crashes>>

EnterDirectly(r) ==
    /\ At(r, "idle") /\ r \in Direct
    /\ GoTo(r, "opening")
    /\ UNCHANGED <<log, receiptStatus, receiptBy, stored, reply, locked, db,
                   lane, channel, crashes>>

(* BEGIN waits for the only write connection. *)
OpenTransaction(r) ==
    /\ At(r, "opening")
    /\ db = NoRequest
    /\ db' = r
    /\ GoTo(r, "writing")
    /\ UNCHANGED <<log, receiptStatus, receiptBy, stored, reply, locked, lane,
                   channel, crashes>>

(* Mutant of WriteBatch: the receipt is not reserved first. *)
WriteBatchAgain(r) ==
    /\ At(r, "writing")
    /\ stored' = [stored EXCEPT ![r] = [k \in 1 .. BatchSize[r] |-> Len(log) + k]]
    /\ GoTo(r, "written")
    /\ UNCHANGED <<log, receiptStatus, receiptBy, reply, locked, db, lane,
                   channel, crashes>>

(* The body of the transaction: reserve the receipt, append, apply to the  *)
(* projections, enqueue.  Nobody sees any of it before the COMMIT, so only *)
(* the storedEvents it returns are recorded; the rest is in Commit.        *)
WriteBatch(r) ==
    /\ At(r, "writing")
    /\ stored' = [stored EXCEPT ![r] =
            [k \in 1 .. (IF Known(r) THEN 0 ELSE BatchSize[r]) |-> Len(log) + k]]
    /\ GoTo(r, "written")
    /\ UNCHANGED <<log, receiptStatus, receiptBy, reply, locked, db, lane,
                   channel, crashes>>

(* Mutant of TakeLane: nobody waits for the lane. *)
TakeLaneAtOnce(r) ==
    /\ At(r, "written")
    /\ lane' = r
    /\ GoTo(r, "committing")
    /\ UNCHANGED <<log, receiptStatus, receiptBy, stored, reply, locked, db,
                   channel, crashes>>

TakeLane(r) ==
    /\ At(r, "written")
    /\ lane = NoRequest
    /\ lane' = r
    /\ GoTo(r, "committing")
    /\ UNCHANGED <<log, receiptStatus, receiptBy, stored, reply, locked, db,
                   channel, crashes>>

(* Mutants of Commit: the lane is let go before the publication; the       *)
(* receipt is upserted, not inserted if absent.                            *)
CommitReleasingLane(r) ==
    /\ At(r, "committing")
    /\ log' = log \o [k \in 1 .. Len(stored[r]) |-> r]
    /\ IF CommandOf[r] = NoCommand \/ Known(r)
       THEN UNCHANGED <<receiptStatus, receiptBy>>
       ELSE Record(r, "accepted")
    /\ db' = NoRequest
    /\ lane' = NoRequest
    /\ GoTo(r, "publishing")
    /\ UNCHANGED <<stored, reply, locked, channel, crashes>>

CommitUpserting(r) ==
    /\ At(r, "committing")
    /\ log' = log \o [k \in 1 .. Len(stored[r]) |-> r]
    /\ IF CommandOf[r] = NoCommand
       THEN UNCHANGED <<receiptStatus, receiptBy>>
       ELSE Record(r, "accepted")
    /\ db' = NoRequest
    /\ GoTo(r, "publishing")
    /\ UNCHANGED <<stored, reply, locked, lane, channel, crashes>>

Commit(r) ==
    /\ At(r, "committing")
    /\ log' = log \o [k \in 1 .. Len(stored[r]) |-> r]
    /\ IF CommandOf[r] = NoCommand \/ Known(r)
       THEN UNCHANGED <<receiptStatus, receiptBy>>
       ELSE Record(r, "accepted")
    /\ db' = NoRequest
    /\ GoTo(r, "publishing")
    /\ UNCHANGED <<stored, reply, locked, lane, channel, crashes>>

(* Mutant of CommittedAnswer: the replayed flag is dropped. *)
CommittedAnswerUnflagged(r) ==
    IF CommandOf[r] # NoCommand /\ receiptStatus[CommandOf[r]] = "rejected"
    THEN "rejected" ELSE "accepted"

(* What the caller hears after commitCommand returns. *)
CommittedAnswer(r) ==
    IF CommandOf[r] = NoCommand \/ receiptBy[CommandOf[r]] = r THEN "accepted"
    ELSE IF receiptStatus[CommandOf[r]] = "rejected" THEN "rejected"
    ELSE "replayed"

(* publish, then the finalizer of commitThenPublish. *)
Publish(r) ==
    /\ At(r, "publishing")
    /\ channel' = channel \o stored[r]
    /\ lane' = NoRequest
    /\ Answer(r, CommittedAnswer(r))
    /\ UNCHANGED <<log, receiptStatus, receiptBy, stored, db, crashes>>

-----------------------------------------------------------------------------
(* Mutants of Abort: the finalizer forgets the lane; an interruption also  *)
(* hits a writer that has committed.                                       *)
AbortHoldingLane(r) ==
    /\ pc[r] \in {"planning", "refusing", "opening", "writing", "committing"}
    /\ db' = IF db = r THEN NoRequest ELSE db
    /\ Answer(r, "failed")
    /\ UNCHANGED <<log, receiptStatus, receiptBy, stored, lane, channel, crashes>>

AbortUnmasked(r) ==
    /\ pc[r] \in {"planning", "refusing", "opening", "writing", "committing", "publishing"}
    /\ db' = IF db = r THEN NoRequest ELSE db
    /\ lane' = IF lane = r THEN NoRequest ELSE lane
    /\ Answer(r, "failed")
    /\ UNCHANGED <<log, receiptStatus, receiptBy, stored, channel, crashes>>

(* An interruption of the caller, or a statement that fails: the work is   *)
(* rolled back.  commitThenPublish masks interruption from the wait for    *)
(* the lane on, and its finalizer releases the lane if COMMIT fails.       *)
Abort(r) ==
    /\ pc[r] \in {"planning", "refusing", "opening", "writing", "committing"}
    /\ db' = IF db = r THEN NoRequest ELSE db
    /\ lane' = IF lane = r THEN NoRequest ELSE lane
    /\ Answer(r, "failed")
    /\ UNCHANGED <<log, receiptStatus, receiptBy, stored, channel, crashes>>

(* The process dies: its locks, channel and callers are gone; what was     *)
(* committed stays.  Requests that never arrived may be sent afterwards.   *)
Crash ==
    /\ crashes < MaxCrashes
    /\ crashes' = crashes + 1
    /\ pc' = [r \in Request |-> IF pc[r] = "idle" THEN "idle" ELSE "done"]
    /\ reply' = [r \in Request |->
            IF pc[r] \in {"idle", "done"} THEN reply[r] ELSE "failed"]
    /\ locked' = [t \in Thread |-> NoRequest]
    /\ db' = NoRequest
    /\ lane' = NoRequest
    /\ channel' = << >>
    /\ UNCHANGED <<log, receiptStatus, receiptBy, stored>>

Progress(r) ==
    \/ Plan(r) \/ RecordNoop(r) \/ Refuse(r)
    \/ OpenTransaction(r) \/ WriteBatch(r) \/ TakeLane(r) \/ Commit(r) \/ Publish(r)

Next ==
    \/ \E r \in Request : Dispatch(r) \/ EnterDirectly(r) \/ Progress(r) \/ Abort(r)
    \/ Crash

Spec == Init /\ [][Next]_vars

(* The event loop runs every fiber that can run.  The locks are given up   *)
(* and the requests are finitely many, so nobody is passed over for ever.  *)
Fairness == \A r \in Request : WF_vars(Dispatch(r)) /\ WF_vars(Progress(r))

FairSpec == Spec /\ Fairness

-----------------------------------------------------------------------------
EventsOf(r) == {i \in 1 .. Len(log) : log[i] = r}

(* Comment of commitThenPublish: "reordered publication makes clients drop *)
(* earlier sequences."  What is on the channel rises without a gap, across *)
(* all writers, and was committed before it was announced.                 *)
LiveOrder ==
    /\ \A k \in 1 .. Len(channel) - 1 : channel[k + 1] = channel[k] + 1
    /\ \A k \in 1 .. Len(channel) : channel[k] \in 1 .. Len(log)

(* A command id takes effect at most once, however often it is sent, also  *)
(* when the first sender was cut off by a crash or an interruption; and    *)
(* its receipt tells whether it did.                                       *)
AtMostOnce == \A c \in Command : \A r \in Request :
    CommandOf[r] = c /\ EventsOf(r) # {} =>
        /\ receiptStatus[c] = "accepted" /\ receiptBy[c] = r
        /\ Cardinality(EventsOf(r)) = BatchSize[r]

(* What a caller was told stays true: an accepted command's whole batch is *)
(* in the log, and a rejected command has no events and never will.        *)
AnswersAreTrue ==
    /\ TypeOK
    /\ \A r \in Request :
        /\ reply[r] = "accepted" => Cardinality(EventsOf(r)) = BatchSize[r]
        /\ reply[r] = "replayed" => receiptStatus[CommandOf[r]] = "accepted"
        /\ reply[r] = "rejected" => receiptStatus[CommandOf[r]] = "rejected"

(* Comment in dispatchWithReceiptEffect: "Receipts only prove execution    *)
(* for the thread they were recorded against."  A dispatch that is told    *)
(* its command was replayed names the thread the receipt is for.           *)
ReplayIsForItsThread == \A r \in Request :
    reply[r] = "replayed" => ThreadOf[receiptBy[CommandOf[r]]] = ThreadOf[r]

(* An accepted receipt and its events are never taken back, and a rejected *)
(* command is never accepted later.                                        *)
VerdictIsFinal == [][\A c \in Command : receiptStatus[c] # "none" =>
    receiptStatus'[c] = receiptStatus[c] /\ receiptBy'[c] = receiptBy[c]]_vars

(* Thread lock, write connection and lane never wait on each other: in the *)
(* end every dispatched command and every write that was begun is answered. *)
EveryRequestAnswered == <>[](\A r \in Request :
    r \notin Direct \/ pc[r] # "idle" => pc[r] = "done")

(* Comment of commitThenPublish: "Once it commits, every subscriber must   *)
(* hear about it before this writer can exit."  Only a crash keeps a       *)
(* committed event off the channel.                                        *)
CommittedIsAnnounced == <>[](crashes > 0 \/
    \A i \in 1 .. Len(log) : \E k \in 1 .. Len(channel) : channel[k] = i)

-----------------------------------------------------------------------------
(* How the write path is an event log: its batches are the requests'       *)
(* plans, and a batch counts as announced once its publish step ran.       *)
PlannedBatches == {[k \in 1 .. BatchSize[r] |-> r] : r \in Request}

Announced ==
    IF \E r \in Request : pc[r] = "publishing"
    THEN LET r == CHOOSE q \in Request : pc[q] = "publishing"
         IN  Len(log) - Len(stored[r])
    ELSE Len(log)

Abstract == INSTANCE EventLog
    WITH Entry <- Request, Batch <- PlannedBatches, announced <- Announced

(* Writers, receipts, locks and crashes together behave as one log whose   *)
(* events are announced in order, batch by batch: what EventLog promises   *)
(* to every stream built on it.                                            *)
ImplementsEventLog == Abstract!Spec
=============================================================================
