--------------------------- MODULE ProviderSessions ---------------------------
(***************************************************************************)
(* One provider session of ProviderSessionManager.ts: the process that a    *)
(* provider runs for it, the live entry that the manager keeps, the turns   *)
(* of the threads that share it, its idle timer, and its release, which     *)
(* closes the process and records what it left behind.  A session id can    *)
(* be opened again as soon as its entry is gone; each opening is a runtime, *)
(* numbered in order.                                                       *)
(***************************************************************************)
EXTENDS Integers, FiniteSets

CONSTANTS
    Thread,
    MaxRuntimes,    \* openings of the session
    MaxStarts,      \* turn starts, repeated ones included
    MaxUpsets,      \* other activities, closes, force stops, detaches, failing
                    \* statements and dying providers, all together
    MaxPins         \* idle periods that background work can hold off a release

SessionAssumption ==
    /\ IsFiniteSet(Thread) /\ {"idle", "any"} \cap Thread = {}
    /\ {MaxRuntimes, MaxStarts, MaxUpsets, MaxPins} \subseteq Nat

ASSUME SessionAssumption

Runtime == 1 .. MaxRuntimes
TurnKey == Thread \X (1 .. MaxStarts)

VARIABLES
    owner,      \* the thread whose session this is, "any" if threads may share it
    live,       \* the runtime of the live entry, 0 without one
    attached, busy, pins,   \* the live entry: its threads, busy turns, idle periods held off
    proc,       \* each runtime's process
    timer,      \* the idle timer armed for each runtime's entry
    rel,        \* the release of each runtime
    op,         \* each thread's turn, from the opening of the session to its end
    told,       \* terminal events that the runtime's pump has not handled
    req,        \* a request to the user that belongs to no run
    pump,       \* the fiber that handles each runtime's events
    rec,        \* status of the session's row
    starts, upsets

entryVars == <<live, attached, busy, pins>>
countVars == <<starts, upsets>>
vars == <<owner, entryVars, proc, timer, rel, op, told, req, pump, rec, countVars>>

TypeOK ==
    /\ owner \in {"any"} \cup Thread
    /\ live \in 0 .. MaxRuntimes
    /\ attached \subseteq Thread /\ busy \subseteq TurnKey
    /\ pins \in 0 .. MaxPins
    /\ proc \in [Runtime -> {"none", "up", "down"}]
    /\ timer \in [Runtime -> [st : {"off", "asleep", "probing"}, on : 0 .. MaxRuntimes]]
    /\ rel \in [Runtime ->
            [st : {"none", "tasks", "records", "retry", "done"},
             cause : {"idle", "any"} \cup Thread, threads : SUBSET Thread]]
    /\ op \in [Thread ->
            [pc : {"idle", "again", "opening", "publishing", "aborting", "joining", "ready",
                   "starting", "running", "ended"},
             rt : 0 .. MaxRuntimes, ord : 0 .. MaxStarts]]
    /\ told \subseteq Runtime \X Thread \X (1 .. MaxStarts)
    /\ req \in [st : {"none", "ingesting", "pending", "over"},
               rt : 0 .. MaxRuntimes, by : {"any"} \cup Thread]
    /\ pump \in [Runtime -> {"off", "on", "failed"}]
    /\ rec \in {"none", "ready", "stopped"}
    /\ starts \in 0 .. MaxStarts /\ upsets \in 0 .. MaxUpsets
    /\ live = 0 => attached = {} /\ busy = {} /\ pins = 0

Init ==
    /\ owner \in {"any"} \cup Thread
    /\ live = 0 /\ attached = {} /\ busy = {} /\ pins = 0
    /\ proc = [r \in Runtime |-> "none"]
    /\ timer = [r \in Runtime |-> [st |-> "off", on |-> 0]]
    /\ rel = [r \in Runtime |->
            [st |-> "none", cause |-> "any", threads |-> {}]]
    /\ op = [t \in Thread |-> [pc |-> "idle", rt |-> 0, ord |-> 0]]
    /\ told = {}
    /\ req = [st |-> "none", rt |-> 0, by |-> "any"]
    /\ pump = [r \in Runtime |-> "off"]
    /\ rec = "none"
    /\ starts = 0 /\ upsets = 0

-----------------------------------------------------------------------------
Upset == upsets < MaxUpsets /\ upsets' = upsets + 1

(* Mutant: openings of one session id run side by side. *)
LockIsAlwaysFree == TRUE

(* sessionOpen, the lock of an opening, and of a retried release. *)
LockIsFree == \A t \in Thread : op[t].pc \notin {"opening", "publishing", "aborting", "joining"}

(* requestEventPermit of the live entry. *)
Ingesting(r) == req.st = "ingesting" /\ req.rt = r

(* Mutant: a removal does not wait for the pump. *)
PermitIsAlwaysFree == TRUE

PermitIsFree == ~Ingesting(live)

Moves(t, pc) == op' = [op EXCEPT ![t].pc = pc]

(* The thread is done with this start; "again" may repeat it. *)
Leaves(t, pc) ==
    op' = [op EXCEPT ![t] =
            [pc |-> pc, rt |-> 0, ord |-> IF pc = "again" THEN op[t].ord ELSE 0]]

(* The live entry gets a new idle timer, unless a turn is busy on it; its  *)
(* old one is interrupted.                                                 *)
Schedule(newAttached, newBusy, newPins) ==
    /\ live' = live
    /\ attached' = newAttached
    /\ busy' = newBusy
    /\ pins' = newPins
    /\ IF live # 0 /\ newBusy = {}
       THEN timer' = [timer EXCEPT ![live] = [st |-> "asleep", on |-> 0]]
       ELSE UNCHANGED timer

TimerOff(r) == [timer EXCEPT ![r] = [st |-> "off", on |-> 0]]

Touch == Schedule(attached, busy, pins)

(* Mutant: the end of a turn arms no timer. *)
MarkIdleOnly(t, o) ==
    /\ busy' = busy \ {<<t, o>>}
    /\ UNCHANGED <<live, attached, pins, timer>>

MarkIdle(t, o) == Schedule(attached, busy \ {<<t, o>>}, pins)

(* The entry leaves the map; the rest of the release works from its copy. *)
RemoveLeaving(cause, threads) ==
    /\ live # 0 /\ PermitIsFree
    /\ live' = 0 /\ attached' = {} /\ busy' = {} /\ pins' = 0
    /\ rel' = [rel EXCEPT ![live] =
            [st |-> "tasks", cause |-> cause, threads |-> threads]]

Remove(cause) == RemoveLeaving(cause, attached)

-----------------------------------------------------------------------------
(* Opening the session, and the start of a turn on it.  A thread's starts  *)
(* come one by one; "again" may also repeat the run it has just tried.     *)

Opens(t, r, pc) ==
    /\ starts < MaxStarts
    /\ starts' = starts + 1
    /\ \E o \in {starts + 1} \cup (IF op[t].pc = "again" THEN {op[t].ord} ELSE {}) :
        /\ \A q \in Runtime : <<q, t, o>> \notin told
        /\ op' = [op EXCEPT ![t] = [pc |-> pc, rt |-> r, ord |-> o]]

MayOpen(t) == owner \in {"any", t} /\ op[t].pc \in {"idle", "again"} /\ LockIsFree

OpenFresh(t) ==
    /\ MayOpen(t) /\ live = 0
    /\ \E r \in Runtime :
        /\ proc[r] = "none" /\ \A q \in 1 .. r - 1 : proc[q] # "none"
        /\ Opens(t, r, "opening")
        /\ proc' = [proc EXCEPT ![r] = "up"]
    /\ UNCHANGED <<owner, entryVars, timer, rel, told, req, pump, rec, upsets>>

OpenFails(t) ==
    /\ op[t].pc = "opening"
    /\ Leaves(t, "again")
    /\ proc' = [proc EXCEPT ![op[t].rt] = "down"]
    /\ UNCHANGED <<owner, entryVars, timer, rel, told, req, pump, rec, countVars>>

OpenSucceeds(t) ==
    /\ op[t].pc = "opening"
    /\ Moves(t, "publishing")
    /\ live' = op[t].rt /\ attached' = {t} /\ busy' = {} /\ pins' = 0
    /\ UNCHANGED <<owner, proc, timer, rel, told, req, pump, rec, countVars>>

Publish(t) ==
    /\ op[t].pc = "publishing"
    /\ Moves(t, "ready")
    /\ rec' = "ready"
    /\ pump' = [pump EXCEPT ![op[t].rt] = "on"]
    /\ Touch
    /\ UNCHANGED <<owner, proc, rel, told, req, countVars>>

(* The lock is held until the failed opening has been released. *)
PublishFails(t) ==
    /\ op[t].pc = "publishing" /\ Upset
    /\ IF live = 0
       THEN Leaves(t, "again") /\ UNCHANGED <<entryVars, rel>>
       ELSE Moves(t, "aborting") /\ Remove("any")
    /\ UNCHANGED <<owner, proc, timer, told, req, pump, rec, starts>>

AbortEnds(t) ==
    /\ op[t].pc = "aborting"
    /\ rel[op[t].rt].st \in {"retry", "done"}
    /\ Leaves(t, "again")
    /\ UNCHANGED <<owner, entryVars, proc, timer, rel, told, req, pump, rec, countVars>>

OpenLive(t) ==
    /\ MayOpen(t) /\ live # 0
    /\ \/ /\ t \in attached
          /\ Opens(t, live, "ready")
          /\ Touch
       \/ /\ t \notin attached
          /\ Opens(t, live, "joining")
          /\ attached' = attached \cup {t}
          /\ UNCHANGED <<live, busy, pins, timer>>
    /\ UNCHANGED <<owner, proc, rel, told, req, pump, rec, upsets>>

Joined(t) ==
    /\ op[t].pc = "joining"
    /\ Moves(t, "ready")
    /\ rec' = IF live = 0 THEN rec ELSE "ready"
    /\ Touch
    /\ UNCHANGED <<owner, proc, rel, told, req, pump, countVars>>

JoinFails(t) ==
    /\ op[t].pc = "joining" /\ Upset
    /\ Leaves(t, "again")
    /\ attached' = attached \ {t}
    /\ UNCHANGED <<owner, live, busy, pins, proc, timer, rel, told, req, pump, rec,
                   starts>>

(* startTurn: attach again if need be, and mark the turn busy on this      *)
(* runtime's entry; the start fails if that entry is gone.                 *)
BeginTurn(t) ==
    LET r == op[t].rt
        joins == live # 0 /\ t \notin attached
    IN  /\ op[t].pc = "ready"
        /\ attached' = IF joins THEN attached \cup {t} ELSE attached
        /\ rec' = IF joins THEN "ready" ELSE rec
        /\ IF live = r
           THEN /\ busy' = busy \cup {<<t, op[t].ord>>}
                /\ pins' = 0
                /\ timer' = TimerOff(r)
                /\ Moves(t, "starting")
           ELSE /\ UNCHANGED <<busy, pins, timer>>
                /\ Leaves(t, "again")
        /\ UNCHANGED <<owner, live, proc, rel, told, req, pump, countVars>>

(* The turn start finds that its run is no longer current. *)
Withdraw(t) ==
    /\ op[t].pc = "ready"
    /\ Leaves(t, "idle")
    /\ UNCHANGED <<owner, entryVars, proc, timer, rel, told, req, pump, rec, countVars>>

StartSucceeds(t) ==
    /\ op[t].pc = "starting" /\ proc[op[t].rt] = "up"
    /\ Moves(t, "running")
    /\ UNCHANGED <<owner, entryVars, proc, timer, rel, told, req, pump, rec, countVars>>

(* Mutant: only a terminal event ends a busy turn. *)
StartFailsQuietly(t) ==
    /\ op[t].pc = "starting"
    /\ Leaves(t, "again")
    /\ UNCHANGED <<owner, entryVars, proc, timer, rel, told, req, pump, rec, countVars>>

StartFails(t) ==
    /\ op[t].pc = "starting"
    /\ Leaves(t, "again")
    /\ MarkIdle(t, op[t].ord)
    /\ UNCHANGED <<owner, proc, rel, told, req, pump, rec, countVars>>

TurnEnds(t) ==
    /\ op[t].pc = "running" /\ proc[op[t].rt] = "up"
    /\ Moves(t, "ended")
    /\ told' = told \cup {<<op[t].rt, t, op[t].ord>>}
    /\ UNCHANGED <<owner, entryVars, proc, timer, rel, req, pump, rec, countVars>>

(* The subscribers of a released runtime are ended: its turns are over. *)
TurnLost(t) ==
    /\ op[t].pc \in {"running", "ended"}
    /\ rel[op[t].rt].st \notin {"none", "tasks"}
    /\ Leaves(t, "idle")
    /\ UNCHANGED <<owner, entryVars, proc, timer, rel, told, req, pump, rec, countVars>>

-----------------------------------------------------------------------------
(* What a runtime reports, and its pump.                                   *)

Pumping(r) == pump[r] = "on" /\ ~Ingesting(r)

(* The entry goes idle before anybody hears of the terminal event. *)
PumpTerminal(r) ==
    /\ Pumping(r)
    /\ \E k \in TurnKey :
        LET t == k[1]
            mine == op[t] = [pc |-> "ended", rt |-> r, ord |-> k[2]]
        IN  /\ <<r, t, k[2]>> \in told
            /\ told' = told \ {<<r, t, k[2]>>}
            /\ MarkIdle(t, k[2])
            /\ IF mine /\ rel[r].st \in {"none", "tasks"} THEN Leaves(t, "again") ELSE op' = op
    /\ UNCHANGED <<owner, proc, rel, req, pump, rec, countVars>>

(* An event of the provider, which also renews the budget of its           *)
(* background work, or a steer, an answer or a lookup.                     *)
Activity(r) ==
    /\ Upset
    /\ proc[r] = "up"
    /\ \/ Pumping(r) /\ Schedule(attached, busy, 0)
       \/ live = r /\ Touch
    /\ UNCHANGED <<owner, proc, rel, op, told, req, pump, rec, starts>>

(* The pump takes the permit and writes a thread's request, if the entry   *)
(* is still this runtime's; otherwise it drops it.                         *)
PumpRequest(r) ==
    /\ Pumping(r) /\ req.st = "none" /\ live = r
    /\ \E t \in attached : req' = [st |-> "ingesting", rt |-> r, by |-> t]
    /\ Touch
    /\ UNCHANGED <<owner, proc, rel, op, told, pump, rec, countVars>>

Ingested ==
    /\ req.st = "ingesting"
    /\ req' = [req EXCEPT !.st = "pending"]
    /\ UNCHANGED <<owner, entryVars, proc, timer, rel, op, told, pump, rec, countVars>>

IngestFails ==
    /\ req.st = "ingesting" /\ Upset
    /\ req' = [req EXCEPT !.st = "over"]
    /\ pump' = [pump EXCEPT ![req.rt] = "failed"]
    /\ UNCHANGED <<owner, entryVars, proc, timer, rel, op, told, rec, starts>>

Answer ==
    /\ req.st = "pending"
    /\ req' = [req EXCEPT !.st = "over"]
    /\ UNCHANGED <<owner, entryVars, proc, timer, rel, op, told, pump, rec, countVars>>

ProviderDies(r) ==
    /\ proc[r] = "up" /\ pump[r] = "on" /\ Upset
    /\ proc' = [proc EXCEPT ![r] = "down"]
    /\ UNCHANGED <<owner, entryVars, timer, rel, op, told, req, pump, rec, starts>>

(* The stream of events is over, or its handler has failed. *)
PumpEnds(r) ==
    /\ \/ pump[r] = "failed"
       \/ /\ pump[r] = "on" /\ proc[r] = "down"
          /\ ~Ingesting(r)
          /\ \A k \in TurnKey : <<r, k[1], k[2]>> \notin told
    /\ pump' = [pump EXCEPT ![r] = "off"]
    /\ told' = {x \in told : x[1] # r}
    /\ IF live = r THEN Remove("any") ELSE UNCHANGED <<entryVars, rel>>
    /\ UNCHANGED <<owner, proc, timer, op, req, rec, countVars>>

-----------------------------------------------------------------------------
(* The idle timer.  The permit is given back within the time of a timer.   *)
(* A timer that is replaced is interrupted, so that the live entry's own    *)
(* has the entry's generation; one left over from an entry that is being   *)
(* released may have it by chance.                                         *)

StillIdle(r) == live # 0 /\ busy = {}

GivesUp(r) == timer' = TimerOff(r) /\ UNCHANGED <<entryVars, rel>>

TimerWakes(r) ==
    /\ timer[r].st = "asleep" /\ PermitIsFree
    /\ \/ /\ StillIdle(r)
          /\ timer' = [timer EXCEPT ![r] = [st |-> "probing", on |-> live]]
          /\ UNCHANGED <<entryVars, rel>>
       \/ (~StillIdle(r) \/ live # r) /\ GivesUp(r)
    /\ UNCHANGED <<owner, proc, op, told, req, pump, rec, countVars>>

(* Background work holds the release off, for so many periods at most. *)
StayPinned(r) ==
    /\ timer[r].st = "probing" /\ pins < MaxPins
    /\ \/ /\ StillIdle(r) /\ live = timer[r].on
          /\ pins' = pins + 1
          /\ timer' = [timer EXCEPT ![r] = [st |-> "asleep", on |-> 0]]
          /\ UNCHANGED <<live, attached, busy, rel>>
       \/ (~StillIdle(r) \/ live # r) /\ GivesUp(r)
    /\ UNCHANGED <<owner, proc, op, told, req, pump, rec, countVars>>

ReleaseIdle(r) ==
    /\ timer[r].st = "probing" /\ PermitIsFree
    /\ \/ StillIdle(r) /\ timer' = TimerOff(r) /\ Remove("idle")
       \/ (~StillIdle(r) \/ live # r) /\ GivesUp(r)
    /\ UNCHANGED <<owner, proc, op, told, req, pump, rec, countVars>>

-----------------------------------------------------------------------------
(* The release of a runtime whose entry is gone.                           *)

(* The roster of background tasks has been read: the entry's timer is      *)
(* cancelled, subscribers are ended, and the process is closed.            *)
CloseScope(r) ==
    /\ rel[r].st = "tasks"
    /\ rel' = [rel EXCEPT ![r].st = "records", ![r].cause = "any"]
    /\ timer' = TimerOff(r)
    /\ proc' = [proc EXCEPT ![r] = "down"]
    /\ UNCHANGED <<owner, entryVars, op, told, req, pump, rec, countVars>>

StoppedRow(r) == IF rel[r].threads = {} THEN rec ELSE "stopped"

(* Mutant: pending requests are settled whenever they were made. *)
SettledAll(r) ==
    IF req.st = "pending" /\ req.by \in rel[r].threads THEN [req EXCEPT !.st = "over"] ELSE req

(* Requests that were made before the removal, by whichever runtime. *)
Settled(r) ==
    IF req.st = "pending" /\ req.rt <= r /\ req.by \in rel[r].threads
    THEN [req EXCEPT !.st = "over"] ELSE req

(* Each of the two writes may fail; the first attempt does not look for a  *)
(* runtime that has taken this one's place.                                *)
WriteRecords(r, row, next) ==
    \/ next = "done" /\ upsets' = upsets /\ rec' = row /\ req' = Settled(r)
    \/ next = "retry" /\ Upset /\ rec' \in {rec, row} /\ req' \in {req, Settled(r)}

RecordRelease(r) ==
    /\ rel[r].st = "records"
    /\ \E next \in {"retry", "done"} :
        rel' = [rel EXCEPT ![r].st = next] /\ WriteRecords(r, StoppedRow(r), next)
    /\ UNCHANGED <<owner, entryVars, proc, timer, op, told, pump, starts>>

(* A later attempt holds the lock of openings, and leaves the row of a     *)
(* session that has been opened again alone.                               *)
RetryRecords(r) ==
    /\ rel[r].st = "retry" /\ LockIsFree
    /\ \E next \in {"retry", "done"} :
        /\ rel' = [rel EXCEPT ![r].st = next]
        /\ WriteRecords(r, IF live = 0 THEN StoppedRow(r) ELSE rec, next)
    /\ UNCHANGED <<owner, entryVars, proc, timer, op, told, pump, starts>>

-----------------------------------------------------------------------------
(* Stops from outside.                                                     *)

Close ==
    /\ Upset /\ Remove("any")
    /\ UNCHANGED <<owner, proc, timer, op, told, req, pump, rec, starts>>

(* Mutant: what other threads do is asked earlier, not at the removal. *)
ForceStopAnyway(t) ==
    /\ Upset /\ owner \in {"any", t}
    /\ Remove(t)
    /\ UNCHANGED <<owner, proc, timer, op, told, req, pump, rec, starts>>

(* releaseUnlessBusy, for the thread that is being stopped by force. *)
ForceStop(t) ==
    /\ Upset /\ owner \in {"any", t} /\ \A k \in busy : k[1] = t
    /\ Remove(t)
    /\ UNCHANGED <<owner, proc, timer, op, told, req, pump, rec, starts>>

(* A session that only one thread may use ends with its thread, whose      *)
(* records the command that detached it has written.                       *)
Detach(t) ==
    /\ Upset /\ t \in attached
    /\ IF attached = {t} /\ owner = t
       THEN RemoveLeaving("any", {}) /\ UNCHANGED timer
       ELSE Schedule(attached \ {t}, busy, pins) /\ UNCHANGED rel
    /\ UNCHANGED <<owner, proc, op, told, req, pump, rec, starts>>

-----------------------------------------------------------------------------
ThreadStep(t) ==
    \/ OpenFresh(t) \/ OpenFails(t) \/ OpenSucceeds(t) \/ Publish(t) \/ PublishFails(t)
    \/ AbortEnds(t) \/ OpenLive(t) \/ Joined(t) \/ JoinFails(t)
    \/ BeginTurn(t) \/ Withdraw(t) \/ StartSucceeds(t) \/ StartFails(t)
    \/ TurnEnds(t) \/ TurnLost(t)

RuntimeStep(r) ==
    PumpTerminal(r) \/ Activity(r) \/ PumpRequest(r) \/ ProviderDies(r) \/ PumpEnds(r)

ReleaseStep(r) ==
    CloseScope(r) \/ RecordRelease(r) \/ RetryRecords(r)

Next ==
    \/ \E t \in Thread : ThreadStep(t) \/ ForceStop(t) \/ Detach(t)
    \/ \E r \in Runtime :
        RuntimeStep(r) \/ TimerWakes(r) \/ StayPinned(r) \/ ReleaseIdle(r) \/ ReleaseStep(r)
    \/ Ingested \/ IngestFails \/ Answer \/ Close

Spec == Init /\ [][Next]_vars

(* A thread's start runs on, as long as the adapter answers, and a         *)
(* provider ends each of its turns.                                        *)
Progress(t) ==
    \/ OpenFails(t) \/ OpenSucceeds(t) \/ Publish(t) \/ AbortEnds(t) \/ Joined(t)
    \/ BeginTurn(t) \/ Withdraw(t) \/ StartSucceeds(t) \/ StartFails(t)
    \/ TurnEnds(t) \/ TurnLost(t)

(* Fibers run and time passes.  Nobody owes an opening, an activity, a     *)
(* request, an answer or a stop.                                           *)
Fairness ==
    /\ \A t \in Thread : WF_vars(Progress(t))
    /\ \A r \in Runtime :
        /\ WF_vars(PumpTerminal(r) \/ PumpEnds(r))
        /\ WF_vars(TimerWakes(r) \/ StayPinned(r) \/ ReleaseIdle(r))
        /\ WF_vars(ReleaseStep(r))
    /\ WF_vars(Ingested)

FairSpec == Spec /\ Fairness

-----------------------------------------------------------------------------
OnRuntime(t, r) == op[t].rt = r /\ op[t].pc \in {"starting", "running", "ended"}

(* "a released or replaced session must not gain a busy turn that never    *)
(* ends": the busy turns of the live entry are exactly the turns that      *)
(* start, run, or have ended without the pump's knowledge, on its runtime. *)
BusyIsExact ==
    /\ busy = {<<t, op[t].ord>> : t \in {u \in Thread : live # 0 /\ OnRuntime(u, live)}}
    /\ \A t \in Thread : live # 0 /\ OnRuntime(t, live) /\ op[t].pc = "ended" =>
            <<live, t, op[t].ord>> \in told

(* A process is the live entry's, is being opened, or is being released:   *)
(* two openings never make two processes, and none is forgotten.           *)
ProcessIsOwned ==
    /\ TypeOK
    /\ \A r \in Runtime : proc[r] = "up" =>
        \/ live = r
        \/ rel[r].st = "tasks"
        \/ \E t \in Thread : op[t].pc = "opening" /\ op[t].rt = r

(* Once a release is recorded, no request of its threads from before it    *)
(* waits for an answer that no process could take, one included that was   *)
(* being written when the entry went.                                      *)
RequestsSettled == \A r \in Runtime :
    rel[r].st = "done" /\ req.rt \in 1 .. r /\ req.by \in rel[r].threads =>
        req.st = "over"

(* Neither the idle timer nor another thread's force stop takes a runtime  *)
(* on which a turn is being started or runs, whatever timers, retries and  *)
(* replacements there were before.                                         *)
TurnsAreSpared == [][\A r \in Runtime :
    rel[r].st = "none" /\ rel'[r].st # "none" /\ rel'[r].cause # "any" =>
        \A t \in Thread : op[t].rt = r /\ op[t].pc \in {"starting", "running"} =>
            rel'[r].cause = t]_vars

(* The records of a release, late ones included, touch no request of a     *)
(* runtime that has not been released.                                     *)
OwnRequestsOnly == [][
    req.st = "pending" /\ req'.st # "pending" /\ rel' # rel => rel[req.rt].st # "none"]_vars

(* A session that nobody uses any more ends: its process is closed and its *)
(* release recorded, whatever failed on the way.                           *)
EverySessionEnds == <>[](
    /\ live = 0
    /\ \A r \in Runtime : proc[r] # "up" /\ rel[r].st \in {"none", "done"})

(* Test "release retries leave a replacement session alone": a session     *)
(* that has been opened again is not left recorded as stopped.             *)
LiveSessionIsRecorded == live # 0 /\ LockIsFree => rec # "stopped"
=============================================================================
