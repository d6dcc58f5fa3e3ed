------------------------------- MODULE RunQueue -------------------------------
(***************************************************************************)
(* The messages of one thread on their way to the agent: sent at once,     *)
(* queued behind the active run, steered into its turn, or given to a      *)
(* restarted turn (Orchestrator.ts), while the thread's effects start,     *)
(* steer, interrupt and capture one after the other                        *)
(* (ProviderTurnStartService, ProviderTurnControlService,                  *)
(* RunExecutionService, CheckpointCaptureService, EffectWorker).           *)
(*                                                                         *)
(* A command holds the thread's lock from its read to its commit, and      *)
(* commits what it has read.  The writers of a run's status hold no lock;  *)
(* the reaction to the end of a run takes it.  A run is named by the       *)
(* message it was created for.                                             *)
(***************************************************************************)
EXTENDS SequencesExt, Subsequences

CONSTANTS
    Msg, NoMsg,
    Agent,                  \* the messages that no user has written
    MaxAttempts,            \* turns of a run; bound of the model
    MaxTries,               \* executions of an effect that fails: maxAttempts of the worker
    MaxActs                 \* what users do besides sending; bound of the model

ASSUME MessagesAssumption == NoMsg \notin Msg /\ Agent \subseteq Msg
ASSUME BoundsAssumption ==
    MaxAttempts \in Nat \ {0} /\ MaxTries \in Nat \ {0} /\ MaxActs \in Nat

VARIABLES
    run,            \* status, active attempt, and per attempt its text and turn row
    queue, held,    \* queued runs in delivery order, and those with queueHeld
    stopped,        \* runs with a run_interrupt_request
    lane,           \* the thread's unsettled effects; the first is executed
    exec,           \* how far it has come, the attempt it has read, its failed tries
    captured,       \* runs whose capture effect has been enqueued
    asked,          \* turns that the provider was asked to interrupt
    ended,          \* turns that have ended and are yet to be finalized
    ends,           \* terminal run updates that nobody has reacted to
    last,           \* the run that was started last
    cmd,            \* the command that holds the lock
    sent, delivered,    \* messages the thread has, and the copies the agent got
    confirmed,      \* messages of which a call has said that it gave them
    forgone,        \* messages withdrawn by a user or lost to a failure that is shown
    dropped,        \* messages of steers that failed for good: the log tells of them
    late,           \* runs that a restart took from their end
    acts

runVars == <<run, asked, ended>>
queueVars == <<queue, held, last>>
effectVars == <<lane, exec, captured>>
agentVars == <<delivered, confirmed>>
histVars == <<agentVars, forgone, dropped, late>>
vars == <<run, queue, held, stopped, lane, exec, captured, asked, ended, ends, last, cmd,
          sent, delivered, confirmed, forgone, dropped, late, acts>>

Attempt == 1 .. MaxAttempts

Terminal == {"completed", "interrupted", "failed", "cancelled"}
Live == {"starting", "running", "waiting"}

Sends == {"auto", "queue", "restart"}
Picks == {"promote", "cancel", "move", "start"}

TypeOK ==
    /\ run \in [Msg ->
         [st : {"none", "queued"} \cup Live \cup Terminal, cur : 0 .. MaxAttempts,
          text : [Attempt -> Msg \cup {NoMsg}],
          turn : [Attempt -> {"none", "accepted", "running", "completed", "interrupted", "failed"}]]]
    /\ queue \in Seq(Msg) /\ held \subseteq ToSet(queue)
    /\ \A m \in Msg : run[m].st = "queued" <=> m \in ToSet(queue)
    /\ lane \in Seq([type : {"start", "restart", "steer", "interrupt", "capture"},
                     run : Msg, att : 0 .. MaxAttempts, msg : Msg \cup {NoMsg}])
    /\ exec \in [pc : {"idle", "await", "open", "call", "send", "steer", "follow", "poll",
                     "settle", "capture", "stamp"},
                 att : 0 .. MaxAttempts, tries : 0 .. MaxTries - 1]
    /\ asked \cup ended \subseteq Msg \X Attempt
    /\ ends \in Seq([run : Msg, st : Terminal])
    /\ last \in Msg \cup {NoMsg}
    /\ cmd.kind \in {"none", "stop", "resume", "settle", "followup"} \cup Sends \cup Picks
    /\ stopped \cup captured \cup sent \cup late \subseteq Msg
    /\ confirmed \cup forgone \cup dropped \subseteq Msg
    /\ delivered \in [Msg -> Nat] /\ acts \in 0 .. MaxActs

NoRun == [st |-> "none", cur |-> 0, text |-> [a \in Attempt |-> NoMsg],
          turn |-> [a \in Attempt |-> "none"]]
Resting == [pc |-> "idle", att |-> 0, tries |-> 0]
NoCommand == [kind |-> "none", msg |-> NoMsg, copy |-> << >>]

Init ==
    /\ run = [m \in Msg |-> NoRun] /\ asked = {} /\ ended = {}
    /\ queue = << >> /\ held = {} /\ last = NoMsg
    /\ lane = << >> /\ exec = Resting /\ captured = {}
    /\ stopped = {} /\ ends = << >> /\ cmd = NoCommand
    /\ sent = {} /\ delivered = [m \in Msg |-> 0] /\ confirmed = {}
    /\ forgone = {} /\ dropped = {} /\ late = {} /\ acts = 0

-----------------------------------------------------------------------------
(* Helpers. *)

ActiveRuns(rows) == {m \in Msg : rows[m].st \in Live}

(* The latest turn row of a run's active attempt. *)
TurnOf(row) == IF row.cur = 0 THEN "none" ELSE row.turn[row.cur]

Effect(type, r, a, m) == [type |-> type, run |-> r, att |-> a, msg |-> m]
Ended(r, st) == Append(ends, [run |-> r, st |-> st])

(* A run as it is created for a message. *)
NewRun(m, st) == [NoRun EXCEPT !.st = st, !.cur = 1, !.text[1] = m]

(* Mutant of IsCurrent: any attempt of the run. *)
IsCurrentRun(r, a, st) == run[r].st = st

(* writeIfRunCurrent: the run is in this attempt and this status. *)
IsCurrent(r, a, st) == run[r].cur = a /\ run[r].st = st

(* Enqueueing an effect id that exists does nothing. *)
CaptureOf(r) == IF r \in captured THEN << >> ELSE << Effect("capture", r, 0, NoMsg) >>

-----------------------------------------------------------------------------
(* startNextQueuedRun: nothing while a run is active or all is held; the   *)
(* failure of the run that ended holds the queue; otherwise the first that *)
(* is not held starts, or the one a user has picked.                       *)
NextInLine(q, h, picked) ==
    IF picked # NoMsg THEN picked
    ELSE Head(Among(q, Msg \ h))

(* Mutant of StartNext: what is active is not read again. *)
StartNextAnyway(q, h, failed, picked) ==
    LET m == NextInLine(q, h, picked)
    IN  IF ToSet(q) \subseteq h
        THEN queue' = q /\ held' = h /\ UNCHANGED <<run, lane, last>>
        ELSE /\ queue' = Among(q, Msg \ {m})
             /\ held' = h \ {m}
             /\ run' = [run EXCEPT ![m].st = "starting"]
             /\ lane' = Append(lane, Effect("start", m, 0, NoMsg))
             /\ last' = m

StartNext(q, h, failed, picked) ==
    LET m == NextInLine(q, h, picked)
    IN  IF ActiveRuns(run) # {} \/ ToSet(q) \subseteq h
        THEN queue' = q /\ held' = h /\ UNCHANGED <<run, lane, last>>
        ELSE IF failed # NoMsg /\ failed = last
        THEN queue' = q /\ held' = ToSet(q) /\ UNCHANGED <<run, lane, last>>
        ELSE /\ queue' = Among(q, Msg \ {m})
             /\ held' = h \ {m}
             /\ run' = [run EXCEPT ![m].st = "starting"]
             /\ lane' = Append(lane, Effect("start", m, 0, NoMsg))
             /\ last' = m

(* Mutant of React: only a completed run starts the next. *)
ReactToCompletion ==
    /\ ends # << >> /\ cmd = NoCommand
    /\ IF Head(ends).st = "completed" THEN StartNext(queue, held, NoMsg, NoMsg)
       ELSE UNCHANGED <<run, queue, held, lane, last>>
    /\ ends' = Tail(ends)
    /\ UNCHANGED <<stopped, exec, captured, asked, ended, cmd, sent, histVars, acts>>

(* handleRunUpdate: the newest run's completion releases what no user      *)
(* waits to review, unless the run was stopped.                            *)
React ==
    /\ ends # << >> /\ cmd = NoCommand
    /\ LET e        == Head(ends)
           released == IF e.st = "completed" /\ e.run = last /\ e.run \notin stopped
                       THEN held \ Agent ELSE held
       IN  StartNext(queue, released, IF e.st = "failed" THEN e.run ELSE NoMsg, NoMsg)
    /\ ends' = Tail(ends)
    /\ UNCHANGED <<stopped, exec, captured, asked, ended, cmd, sent, histVars, acts>>

-----------------------------------------------------------------------------
(* Commands: the lock, the read and the commit of what was read. *)

Begin(kind, m) ==
    /\ cmd = NoCommand
    /\ cmd' = [kind |-> kind, msg |-> m, copy |-> run]
    /\ UNCHANGED <<runVars, queueVars, stopped, lane, captured, ends, histVars>>

Send(m) ==
    /\ m \notin sent
    /\ \E kind \in Sends :
        /\ kind = "restart" => \A r \in ActiveRuns(run) : run[r].cur < MaxAttempts
        /\ Begin(kind, m)
    /\ UNCHANGED <<exec, sent, acts>>

Intervene ==
    /\ acts < MaxActs /\ acts' = acts + 1
    /\ \/ \E m \in ToSet(queue), kind \in Picks : Begin(kind, m)
       \/ sent # {} /\ \E kind \in {"stop", "resume"} : Begin(kind, NoMsg)
    /\ UNCHANGED <<exec, sent>>

(* A refused command changes nothing. *)
Refuse ==
    /\ cmd' = NoCommand
    /\ UNCHANGED <<runVars, queueVars, stopped, effectVars, ends, sent, histVars, acts>>

(* What the plan has read. *)
Targets == ActiveRuns(cmd.copy)
Target == CHOOSE r \in Targets : TRUE

(* dispatchSteerIntoRun's conditions. *)
Steerable ==
    /\ Targets # {}
    /\ cmd.copy[Target].st = "running" /\ TurnOf(cmd.copy[Target]) = "running"
    /\ Target \notin stopped

(* The effect that waits for this command ends with it. *)
LaneAfter == IF cmd.kind = "followup" THEN Tail(lane) ELSE lane
ExecAfter == IF cmd.kind = "followup" THEN Resting ELSE exec

Sending == cmd.kind \in Sends \cup {"followup"}

(* A user's message that starts or queues releases what was held; another  *)
(* one is held with the rest.                                              *)
Held(m) == IF m \notin Agent \/ held = {} THEN {} ELSE held \cup {m}

StartAtOnce ==
    LET m == cmd.msg
    IN  /\ Sending /\ Targets = {}
        /\ run' = [run EXCEPT ![m] = NewRun(m, "starting")]
        /\ lane' = Append(LaneAfter, Effect("start", m, 0, NoMsg))
        /\ exec' = ExecAfter
        /\ held' = IF m \in Agent THEN held ELSE {}
        /\ last' = m /\ sent' = sent \cup {m} /\ cmd' = NoCommand
        /\ UNCHANGED <<queue, stopped, captured, asked, ended, ends, histVars, acts>>

QueueBehind ==
    LET m == cmd.msg
    IN  /\ cmd.kind \in {"auto", "queue", "followup"} /\ Targets # {}
        /\ cmd.kind = "auto" => ~Steerable
        /\ run' = [run EXCEPT ![m] = NewRun(m, "queued")]
        /\ queue' = Append(queue, m) /\ held' = Held(m)
        /\ lane' = LaneAfter /\ exec' = ExecAfter
        /\ sent' = sent \cup {m} /\ cmd' = NoCommand
        /\ UNCHANGED <<stopped, captured, asked, ended, ends, last, histVars, acts>>

SteerEffect(m) == Effect("steer", Target, cmd.copy[Target].cur, m)

SteerActive ==
    /\ cmd.kind = "auto" /\ Steerable
    /\ lane' = Append(lane, SteerEffect(cmd.msg))
    /\ sent' = sent \cup {cmd.msg} /\ cmd' = NoCommand
    /\ UNCHANGED <<runVars, queueVars, stopped, exec, captured, ends, histVars, acts>>

(* The run as it was read starts again with a new attempt. *)
RestartActive ==
    LET r == Target
        a == cmd.copy[r].cur + 1
    IN  /\ cmd.kind = "restart" /\ Steerable
        /\ run' = [run EXCEPT ![r].st = "starting", ![r].cur = a, ![r].text[a] = cmd.msg]
        /\ lane' = Append(lane, Effect("restart", r, a - 1, NoMsg))
        /\ late' = IF run[r].st = "running" THEN late ELSE late \cup {r}
        /\ sent' = sent \cup {cmd.msg} /\ cmd' = NoCommand
        /\ UNCHANGED <<queueVars, stopped, exec, captured, asked, ended, ends,
                       agentVars, forgone, dropped, acts>>

(* A refused message is over: its command id keeps the rejection. *)
RefuseRestart ==
    /\ cmd.kind = "restart" /\ Targets # {} /\ ~Steerable
    /\ sent' = sent \cup {cmd.msg} /\ forgone' = forgone \cup {cmd.msg}
    /\ cmd' = NoCommand
    /\ UNCHANGED <<runVars, queueVars, stopped, effectVars, ends, agentVars, dropped, late, acts>>

(* The queued run and the steer change places in one commit. *)
Promote ==
    LET m == cmd.msg
    IN  /\ cmd.kind = "promote" /\ Steerable
        /\ run' = [run EXCEPT ![m].st = "cancelled"]
        /\ queue' = Among(queue, Msg \ {m}) /\ held' = held \ {m}
        /\ lane' = Append(lane, SteerEffect(m))
        /\ ends' = Ended(m, "cancelled") /\ cmd' = NoCommand
        /\ UNCHANGED <<stopped, exec, captured, asked, ended, last, sent, histVars, acts>>

CancelQueued ==
    LET m == cmd.msg
    IN  /\ cmd.kind = "cancel"
        /\ run' = [run EXCEPT ![m].st = "cancelled"]
        /\ queue' = Among(queue, Msg \ {m}) /\ held' = held \ {m}
        /\ ends' = Ended(m, "cancelled") /\ forgone' = forgone \cup {m} /\ cmd' = NoCommand
        /\ UNCHANGED <<stopped, effectVars, asked, ended, last, sent, agentVars, dropped, late,
                       acts>>

MoveToFront ==
    /\ cmd.kind = "move"
    /\ queue' = << cmd.msg >> \o Among(queue, Msg \ {cmd.msg})
    /\ cmd' = NoCommand
    /\ UNCHANGED <<runVars, held, last, stopped, effectVars, ends, sent, histVars, acts>>

(* queue.resume and queued-run.start release the queue, then start. *)
ResumeQueue ==
    /\ \/ cmd.kind = "resume" /\ StartNext(queue, {}, NoMsg, NoMsg)
       \/ cmd.kind = "start" /\ Targets = {} /\ StartNext(queue, {}, NoMsg, cmd.msg)
    /\ cmd' = NoCommand
    /\ UNCHANGED <<stopped, exec, captured, asked, ended, ends, sent, histVars, acts>>

RefusePick == Refuse /\
    \/ cmd.kind = "promote" /\ ~Steerable
    \/ cmd.kind = "start" /\ Targets # {}

-----------------------------------------------------------------------------
(* Stop: thread.stop, and run.interrupt with holdQueue. *)

Startup == {"start", "restart"}

(* The turns of earlier attempts that a cancelled restart leaves running. *)
SupersededTurns(r) == {a \in 1 .. cmd.copy[r].cur - 1 : cmd.copy[r].turn[a] = "running"}

InterruptsOf(r) == [k \in 1 .. (IF SupersededTurns(r) = {} THEN 0 ELSE 1) |->
    Effect("interrupt", r, Max(SupersededTurns(r)), NoMsg)]

(* Without a turn row the run ends at once, and what would start it is     *)
(* cancelled, its execution included.                                      *)
StopBeforeTurn ==
    LET r == Target
    IN  /\ cmd.kind = "stop" /\ Targets # {}
        /\ cmd.copy[r].st # "waiting" /\ TurnOf(cmd.copy[r]) \in {"none", "accepted"}
        /\ run' = [run EXCEPT ![r].st = "interrupted", ![r].cur = cmd.copy[r].cur]
        /\ ends' = Ended(r, "interrupted")
        /\ lane' = Among(lane, {e \in ToSet(lane) : e.type \notin Startup})
                    \o InterruptsOf(r)
        /\ exec' = IF lane # << >> /\ Head(lane).type \in Startup THEN Resting ELSE exec
        /\ stopped' = stopped \cup {r} /\ held' = ToSet(queue) /\ cmd' = NoCommand
        /\ forgone' = forgone \cup {cmd.copy[r].text[cmd.copy[r].cur]}
        /\ UNCHANGED <<queue, last, captured, asked, ended, sent, agentVars, dropped, late, acts>>

(* With one, the run stays as it is until its turn has ended. *)
StopTurn ==
    LET r == Target
    IN  /\ cmd.kind = "stop" /\ Targets # {}
        /\ cmd.copy[r].st # "waiting" /\ TurnOf(cmd.copy[r]) \notin {"none", "accepted"}
        /\ lane' = Append(lane, Effect("interrupt", r, cmd.copy[r].cur, NoMsg))
        /\ stopped' = stopped \cup {r} /\ held' = ToSet(queue) /\ cmd' = NoCommand
        /\ UNCHANGED <<runVars, queue, last, exec, captured, ends, sent, histVars, acts>>

(* Nothing to interrupt: the last run is marked, if it is over. *)
StopIdle ==
    /\ cmd.kind = "stop"
    /\ \A r \in Targets : cmd.copy[r].st = "waiting"
    /\ stopped' = IF last # NoMsg /\ Targets = {} THEN stopped \cup {last} ELSE stopped
    /\ held' = ToSet(queue) /\ cmd' = NoCommand
    /\ UNCHANGED <<runVars, queue, last, effectVars, ends, sent, histVars, acts>>

Commit ==
    \/ StartAtOnce \/ QueueBehind \/ SteerActive \/ RestartActive \/ RefuseRestart
    \/ Promote \/ CancelQueued \/ MoveToFront \/ ResumeQueue \/ RefusePick
    \/ StopBeforeTurn \/ StopTurn \/ StopIdle

-----------------------------------------------------------------------------
(* The effect at the head of the lane.                                     *)

Current == Head(lane)

Executing(types, pc) == lane # << >> /\ Current.type \in types /\ exec.pc = pc

(* The effect succeeds, or fails for good. *)
Settled == lane' = Tail(lane) /\ exec' = Resting
GoTo(pc, a) == exec' = [exec EXCEPT !.pc = pc, !.att = a] /\ UNCHANGED lane

(* A failed execution is repeated, unless it was the last: willRetry.  The  *)
(* effect stays first in the lane.                                          *)
WillRetry == exec.tries + 1 < MaxTries
TryAgain == exec' = [Resting EXCEPT !.tries = exec.tries + 1] /\ UNCHANGED lane

SetStatus(r, st) == run' = [run EXCEPT ![r].st = st]
SetTurn(r, a, t) == run' = [run EXCEPT ![r].turn[a] = t]

(* What an effect changes only where it says so. *)
Quiet == UNCHANGED <<queueVars, stopped, cmd, sent, dropped, late, acts>>

(* start: the run is read, and must be starting. *)
ReadForStart(r) ==
    /\ IF run[r].st = "starting" THEN GoTo("open", run[r].cur) ELSE Settled
    /\ UNCHANGED <<runVars, captured, ends, agentVars, forgone>> /\ Quiet

BeginStart == Executing({"start"}, "idle") /\ ReadForStart(Current.run)

(* interruptAndAwaitTerminal: then the restarted run starts like another. *)
BeginRestart ==
    /\ Executing({"restart"}, "idle")
    /\ asked' = IF run[Current.run].turn[Current.att] = "running"
                THEN asked \cup {<<Current.run, Current.att>>} ELSE asked
    /\ GoTo("await", Current.att)
    /\ UNCHANGED <<run, ended, captured, ends, agentVars, forgone>> /\ Quiet

RestartGoesOn ==
    /\ Executing({"restart"}, "await")
    /\ run[Current.run].turn[Current.att] # "running"
    /\ ReadForStart(Current.run)

(* A start that fails ends its run, if the run is still this attempt's:    *)
(* settleStartFailure, and the end of startRootRun.                        *)
StartFails(st) ==
    LET r == Current.run
    IN  /\ IF IsCurrent(r, exec.att, st)
              THEN /\ SetStatus(r, "failed") /\ ends' = Ended(r, "failed")
                   /\ forgone' = forgone \cup {run[r].text[exec.att]}
              ELSE UNCHANGED <<run, ends, forgone>>
        /\ Settled
        /\ UNCHANGED <<asked, ended, captured, agentVars>> /\ Quiet

(* The opening fails: the last try settles the run, and so does one that     *)
(* asks for a sign-in.                                                      *)
OpenFails ==
    /\ Executing(Startup, "open")
    /\ \/ StartFails("starting")
       \/ /\ WillRetry /\ TryAgain
          /\ UNCHANGED <<runVars, captured, ends, agentVars, forgone>> /\ Quiet

(* The session is open: the run is running, if it is still this attempt's. *)
OpenSucceeds ==
    /\ Executing(Startup, "open")
    /\ IF IsCurrent(Current.run, exec.att, "starting")
          THEN SetStatus(Current.run, "running") /\ GoTo("call", exec.att)
          ELSE UNCHANGED run /\ Settled
    /\ UNCHANGED <<asked, ended, captured, ends, agentVars, forgone>> /\ Quiet

(* shouldStartProviderTurn, and the call that follows it. *)
CheckBeforeCall ==
    /\ Executing(Startup, "call")
    /\ IF IsCurrent(Current.run, exec.att, "running") THEN GoTo("send", exec.att) ELSE Settled
    /\ UNCHANGED <<runVars, captured, ends, agentVars, forgone>> /\ Quiet

CallFails == Executing(Startup, "send") /\ StartFails("running")

(* The agent gets a copy. *)
Delivers(m) == delivered' = [delivered EXCEPT ![m] = @ + 1]

CallSucceeds ==
    LET r == Current.run
    IN  /\ Executing(Startup, "send")
        /\ SetTurn(r, exec.att, "accepted")
        /\ Delivers(run[r].text[exec.att])
        /\ confirmed' = confirmed \cup {run[r].text[exec.att]}
        /\ Settled
        /\ UNCHANGED <<asked, ended, captured, ends, forgone>> /\ Quiet

(* What a steer changes only where it says so. *)
QuietSteer ==
    UNCHANGED <<runVars, queueVars, stopped, captured, ends, cmd, sent, forgone, late, acts>>

TargetTurn == run[Current.run].turn[Current.att]

(* The execution fails.  After the last try the effect does, with a warning *)
(* in the log.                                                              *)
FailedTry ==
    \/ WillRetry /\ TryAgain /\ UNCHANGED dropped
    \/ ~WillRetry /\ Settled /\ dropped' = dropped \cup {Current.msg}

(* The turn as it is read after the failure: if it has completed, the       *)
(* message is dispatched again.                                             *)
SteerFailed ==
    \/ TargetTurn = "completed" /\ GoTo("follow", Current.att) /\ UNCHANGED dropped
    \/ TargetTurn # "completed" /\ FailedTry

(* Mutant of LoadSteer: with a turn that is over there is nothing to do. *)
LoadSteerIfRunning ==
    /\ Executing({"steer"}, "idle")
    /\ IF TargetTurn = "running" THEN GoTo("steer", Current.att) ELSE Settled
    /\ UNCHANGED <<agentVars, dropped>> /\ QuietSteer

(* load: the turn runs, or the run goes on with its attempt; then the       *)
(* session may be gone.                                                     *)
LoadSteer ==
    LET open == TargetTurn = "running" \/ IsCurrent(Current.run, Current.att, "running")
    IN  /\ Executing({"steer"}, "idle")
        /\ \/ open /\ GoTo("steer", Current.att) /\ UNCHANGED dropped
           \/ open /\ FailedTry
           \/ ~open /\ SteerFailed
        /\ UNCHANGED agentVars /\ QuietSteer

(* Mutant of SteerSucceeds: an answer after the turn's end counts as none. *)
SteerSucceedsInTime ==
    /\ Executing({"steer"}, "steer")
    /\ Delivers(Current.msg) /\ confirmed' = confirmed \cup {Current.msg}
    /\ IF TargetTurn = "running" THEN Settled /\ UNCHANGED dropped ELSE SteerFailed
    /\ QuietSteer

(* steerTurn, in a turn that may have ended since. *)
SteerSucceeds ==
    /\ Executing({"steer"}, "steer")
    /\ Delivers(Current.msg) /\ confirmed' = confirmed \cup {Current.msg}
    /\ Settled
    /\ UNCHANGED dropped /\ QuietSteer

(* steerTurn fails, before or after the provider has taken the text. *)
SteerFails ==
    /\ Executing({"steer"}, "steer")
    /\ Delivers(Current.msg) \/ UNCHANGED delivered
    /\ SteerFailed
    /\ UNCHANGED confirmed /\ QuietSteer

FollowUp ==
    /\ Executing({"steer"}, "follow")
    /\ Begin("followup", Current.msg)
    /\ UNCHANGED <<exec, sent, acts>>

(* The dispatch fails; that the provider is disabled counts as success, and *)
(* the message goes no further.                                             *)
FollowUpFails ==
    /\ Executing({"steer"}, "follow") /\ cmd.kind # "followup"
    /\ \/ FailedTry
       \/ Settled /\ dropped' = dropped \cup {Current.msg}
    /\ UNCHANGED agentVars /\ QuietSteer

(* interrupt: ask, look for two seconds at most, and settle the run that   *)
(* no terminal event has ended.                                            *)
BeginInterrupt ==
    /\ Executing({"interrupt"}, "idle")
    /\ asked' = asked \cup {<<Current.run, Current.att>>}
    /\ GoTo("poll", Current.att)
    /\ UNCHANGED <<run, ended, captured, ends, agentVars, forgone>> /\ Quiet

SettleInterrupt ==
    /\ Executing({"interrupt"}, "poll")
    /\ Begin("settle", Current.run)
    /\ GoTo("settle", exec.att) /\ UNCHANGED <<sent, acts>>

(* settleInterruptedRun. *)
SettleInterruptedRun ==
    LET r == cmd.msg
        a == exec.att
        c == cmd.copy[r]
    IN  /\ cmd.kind = "settle" /\ cmd' = NoCommand
        /\ IF c.cur = a /\ c.st = "running" /\ c.turn[a] # "none"
              THEN /\ run' = [run EXCEPT ![r].st = "interrupted",
                        ![r].turn[a] = IF c.turn[a] = "running" THEN "interrupted" ELSE @]
                   /\ ends' = Ended(r, "interrupted")
                   /\ lane' = Tail(lane) \o CaptureOf(r) /\ captured' = captured \cup {r}
              ELSE UNCHANGED <<run, ends, captured>> /\ lane' = Tail(lane)
        /\ exec' = Resting
        /\ UNCHANGED <<asked, ended, queueVars, stopped, sent, histVars, acts>>

(* capture: the run as it is read, completed or only given its checkpoint. *)
CaptureReads ==
    /\ Executing({"capture"}, "idle")
    /\ LET r == Current.run
       IN \/ run[r].st = "waiting" /\ GoTo("capture", run[r].cur)
          \/ run[r].st \in {"interrupted", "cancelled"} /\ GoTo("stamp", run[r].cur)
          \/ run[r].st \notin {"waiting", "interrupted", "cancelled"} /\ Settled
    /\ UNCHANGED <<runVars, captured, ends, agentVars, forgone>> /\ Quiet

CaptureCommits ==
    LET r  == Current.run
        st == IF exec.pc = "capture" THEN "completed" ELSE "interrupted"
    IN  /\ Executing({"capture"}, "capture") \/ Executing({"capture"}, "stamp")
        /\ run' = [run EXCEPT ![r].st = st, ![r].cur = exec.att]
        /\ ends' = Ended(r, st)
        /\ Settled
        /\ UNCHANGED <<asked, ended, captured, agentVars, forgone>> /\ Quiet

-----------------------------------------------------------------------------
(* The provider, and the ingestion of its events. *)

TurnRow(r, a) ==
    /\ run[r].turn[a] = "accepted" /\ SetTurn(r, a, "running")
    /\ UNCHANGED <<asked, ended, effectVars, ends, agentVars, forgone>> /\ Quiet

TurnEnds(r, a) ==
    /\ run[r].turn[a] = "running"
    /\ \E t \in {"completed", "failed"} \cup (IF <<r, a>> \in asked THEN {"interrupted"} ELSE {}) :
            SetTurn(r, a, t)
    /\ ended' = ended \cup {<<r, a>>}
    /\ UNCHANGED <<asked, effectVars, ends, agentVars, forgone>> /\ Quiet

(* finalizeRootRun: only the run's current attempt settles it. *)
Finalize(r, a) ==
    LET t == run[r].turn[a]
    IN  /\ <<r, a>> \in ended
        /\ ended' = ended \ {<<r, a>>}
        /\ IF ~IsCurrent(r, a, "running")
              THEN UNCHANGED <<run, lane, captured, ends>>
              ELSE /\ SetStatus(r, IF t = "completed" THEN "waiting" ELSE t)
                   /\ IF t = "completed" THEN UNCHANGED ends ELSE ends' = Ended(r, t)
                   /\ IF t = "failed" THEN UNCHANGED <<lane, captured>>
                      ELSE lane' = lane \o CaptureOf(r) /\ captured' = captured \cup {r}
        /\ UNCHANGED <<asked, exec, agentVars, forgone>> /\ Quiet

(* For one turn, these three follow each other. *)
TurnGoesOn(r, a) == TurnRow(r, a) \/ TurnEnds(r, a) \/ Finalize(r, a)

-----------------------------------------------------------------------------
EffectStep ==
    \/ BeginStart \/ BeginRestart \/ RestartGoesOn \/ OpenFails \/ OpenSucceeds
    \/ CheckBeforeCall \/ CallFails \/ CallSucceeds
    \/ LoadSteer \/ SteerSucceeds \/ SteerFails \/ FollowUp \/ FollowUpFails
    \/ BeginInterrupt \/ SettleInterrupt \/ SettleInterruptedRun
    \/ CaptureReads \/ CaptureCommits

System ==
    \/ Commit \/ React \/ EffectStep
    \/ \E r \in Msg, a \in Attempt : TurnGoesOn(r, a)

Next == (\E m \in Msg : Send(m)) \/ Intervene \/ System

Spec == Init /\ [][Next]_vars

(* Handlers that hold the lock finish, the reaction to a run's end gets the *)
(* lock, the lane's head is executed, and a turn begins, ends and is        *)
(* finalized.  Users owe nothing.  Since their acts are bounded, and tries  *)
(* and turns as well, it is enough that something of this goes on.          *)
Fairness == WF_vars(System)

FairSpec == Spec /\ Fairness

-----------------------------------------------------------------------------
(* Properties. *)

(* An effect that will hand the message to the agent. *)
InLane(m) ==
    \E e \in ToSet(lane) :
        \/ e.type = "steer" /\ e.msg = m
        \/ e.type \in Startup /\ run[e.run].text[run[e.run].cur] = m

(* No message gets lost between the lock, the lane and the provider: what  *)
(* the thread has taken is queued, or an effect carries it, or the agent   *)
(* has it, or a user withdrew it or saw it fail.  The exceptions are a     *)
(* steer that the worker has given up, of which the log alone tells, and a *)
(* restart that took a run from its end.                                   *)
NothingLost ==
    /\ TypeOK
    /\ late = {} => \A m \in sent :
        \/ m \in ToSet(queue) \/ InLane(m)
        \/ delivered[m] > 0
        \/ m \in forgone \cup dropped

(* Once a call has said that it gave the agent a message, no call gives it *)
(* again, however the message was moved between queue, steering, restart   *)
(* and follow-up, and however often its steer was tried.  A call that      *)
(* failed may have given a copy, and the next one gives another.           *)
DeliveredOnce ==
    [][\A m \in confirmed : delivered'[m] = delivered[m]]_vars

(* The thread never has two active runs, although sends, reactions, picks  *)
(* and follow-ups all start runs.                                          *)
OneActiveRun == \A r, q \in ActiveRuns(run) : r = q

(* Only the turn of its current attempt completes a run: the late end of a *)
(* turn that a restart has superseded does not.                            *)
SettledByItsOwnTurn ==
    \A r \in Msg : run[r].st \in {"waiting", "completed"} => TurnOf(run[r]) = "completed"

(* The queue moves: a message that is not held leaves it, or comes to be   *)
(* held.                                                                   *)
QueueMoves ==
    \A m \in Msg :
        m \in ToSet(queue) \ held ~> m \notin ToSet(queue) \ held \/ late # {}

(* feature-lifecycles.md: the final attempt completes the run and creates  *)
(* the run's checkpoint.  A run that waits for its capture has one coming. *)
FinalAttemptIsCaptured ==
    \A r \in Msg : run[r].st = "waiting" =>
        \E e \in ToSet(lane) : e.type = "capture" /\ e.run = r
=============================================================================
