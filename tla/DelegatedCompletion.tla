------------------------- MODULE DelegatedCompletion -------------------------
(***************************************************************************)
(* A run that delegates tasks, and how their results come back to it.      *)
(*                                                                         *)
(* One row holds the run's status, its checkpoint and its cohort: whether  *)
(* results are still wanted, and the delivery that carries them.  Two      *)
(* kinds of writers share it.  The writers of the status (turn start,      *)
(* finalization, checkpoint capture) take no thread lock.  Everything else *)
(* (a task that ends, an acknowledgement, Stop, the message that wakes the *)
(* parent, the reaction to a finished run) holds the thread's lock from    *)
(* reading the row to committing its plan: Begin takes the lock and a copy *)
(* of the row, one action per kind of handler commits.                     *)
(*                                                                         *)
(* A delivery puts the results of its tasks to the thread as a message,    *)
(* the wake of its generation; a wake is a run of the same thread, queued  *)
(* while another is active, and held there after a provider failed.        *)
(*                                                                         *)
(* Left out: steering restarts and messages steered into a live turn;      *)
(* the other holds of the queue (usage limit, missing worktree, Stop with  *)
(* holdQueue); Stop without a provider session; archiving; crashes.        *)
(***************************************************************************)
EXTENDS Naturals, FiniteSets, Sequences

CONSTANTS
  Task,      \* tasks the run may delegate
  MaxStops   \* bound: Stop commands and cancellations by the user

ASSUME CompletionAssumption ==
  /\ IsFiniteSet(Task)
  /\ MaxStops \in Nat

VARIABLES
  row,      \* the run's projection row
  turn,     \* the provider's turn
  start,    \* where the effect provider-turn.start has got to
  capture,  \* the effect checkpoint.capture
  task,     \* the delegated tasks' rows
  wake,     \* the wake's run, by generation
  carried,  \* the tasks named in the wake's message
  offers,   \* continuation requests waiting to be dispatched
  ends,     \* terminal run updates waiting for their reaction, in order
  cmd,      \* the handler that holds the thread's lock
  stops,    \* Stop commands and cancellations so far
  stopped,  \* a Stop has reached the run: it may delegate no more
  told      \* how often a wake has put each result to the parent

vars == <<row, turn, start, capture, task, wake, carried, offers, ends, cmd, stops, stopped, told>>

\* A generation is reserved for a result that no earlier one carries.
MaxGen == Cardinality(Task)
Gen == 1..MaxGen
Settled == {"completed", "interrupted", "failed"}
Status == {"starting", "running", "waiting"} \cup Settled
Final == {"acknowledged", "delivered", "disposed"}

Row == [status: Status, checkpoint: BOOLEAN,
        disposition: {"none", "open", "stopped", "disposed"},
        next: 1..MaxGen + 1, gen: 0..MaxGen, ids: SUBSET Task]

TaskRow == [phase: {"unborn", "running", "done"}, policy: {"always", "settled_only"},
            delivery: {"none", "pending", "claimed"} \cup Final]

Kind == {"delegate", "end", "policy", "ack", "stopStart", "stopTurn", "stopWake", "cancelWake",
         "dispatch", "deliver", "next", "resume", "resumed"}

Free == [kind |-> "free"]

Live(r) == r.status \in {"starting", "running"}
Active(r) == Live(r) \/ r.status = "waiting"
WakeActive == \E g \in Gen : wake[g] = "active"

\* A held run has the status queued, too.
Waits(g) == wake[g] \in {"queued", "held"}

-----------------------------------------------------------------------------
TypeOK ==
  /\ row \in Row
  /\ turn \in {"none", "running", "completed", "interrupted", "failed", "closed"}
  /\ start \in {"queued", "read", "opening", "calling", "done"}
  /\ capture \in [pc: {"none", "queued", "running", "done", "failed"}, copy: {"none"} \cup Status]
  /\ task \in [Task -> TaskRow]
  /\ wake \in [Gen -> {"none", "queued", "held", "active", "cancelled"} \cup Settled]
  /\ carried \in [Gen -> SUBSET Task]
  /\ offers \subseteq Gen
  /\ ends \in Seq((0..MaxGen) \X {"deliver", "next"})
  /\ cmd \in {Free} \cup [kind: Kind, arg: Task \cup 0..MaxGen, copy: Row]
  /\ stops \in 0..MaxStops
  /\ stopped \in BOOLEAN
  /\ told \in [Task -> Nat]

Init ==
  /\ row = [status |-> "starting", checkpoint |-> FALSE,
            disposition |-> "none", next |-> 1, gen |-> 0, ids |-> {}]
  /\ turn = "none"
  /\ start = "queued"
  /\ capture = [pc |-> "none", copy |-> "none"]
  /\ task = [t \in Task |-> [phase |-> "unborn", policy |-> "always", delivery |-> "none"]]
  /\ wake = [g \in Gen |-> "none"]
  /\ carried = [g \in Gen |-> {}]
  /\ offers = {}
  /\ ends = <<>>
  /\ cmd = Free
  /\ stops = 0
  /\ stopped = FALSE
  /\ told = [t \in Task |-> 0]

-----------------------------------------------------------------------------
(* The writers of the status.  None of them holds the thread's lock.        *)

\* Terminal run updates are reacted to one after the other, in the order of
\* their commits.  A wake has results to deliver first; the parent has none
\* (it is 0 here), so only the queue is looked at, once for updates that follow
\* each other.
ParentEndsCompleted(r, es) ==
  IF r.status = "completed" THEN Append(es, <<0, "next">>) ELSE es

ParentEnds(r, es) ==
  IF r.status \in Settled /\ (es = <<>> \/ es[Len(es)] # <<0, "next">>)
  THEN Append(es, <<0, "next">>) ELSE es

WakesEnd(S, es) ==
  IF S = {} THEN es ELSE Append(es, <<CHOOSE g \in S : TRUE, "deliver">>)

\* The payload of a status writer has no cohort, and the projection keeps the
\* one it has.
SetStatusWhole(st) ==
  /\ row' = [row EXCEPT !.status = st, !.disposition = "none", !.gen = 0, !.ids = {}]
  /\ ends' = ParentEnds(row', ends)

SetStatus(st) ==
  /\ row' = [row EXCEPT !.status = st]
  /\ ends' = ParentEnds(row', ends)

\* writeIfRunCurrent: the write happens only if the status is still the
\* expected one.
IfCurrent(expected, st) ==
  IF row.status = expected THEN SetStatus(st) ELSE UNCHANGED <<row, ends>>

StartRead ==
  /\ start = "queued"
  /\ start' = IF row.status = "starting" THEN "read" ELSE "done"
  /\ UNCHANGED <<row, turn, capture, task, wake, carried, offers, ends, cmd, stops, stopped, told>>

StartWrite ==
  /\ start = "read"
  /\ IfCurrent("starting", "running")
  /\ start' = IF row.status = "starting" THEN "opening" ELSE "done"
  /\ UNCHANGED <<turn, capture, task, wake, carried, offers, cmd, stops, stopped, told>>

StartFails ==
  /\ start = "read"
  /\ IfCurrent("starting", "failed")
  /\ start' = "done"
  /\ UNCHANGED <<turn, capture, task, wake, carried, offers, cmd, stops, stopped, told>>

StartCheck ==
  /\ start = "opening"
  /\ start' = IF row.status = "running" THEN "calling" ELSE "done"
  /\ UNCHANGED <<row, turn, capture, task, wake, carried, offers, ends, cmd, stops, stopped, told>>

TurnOpens ==
  /\ start = "calling"
  /\ start' = "done"
  /\ turn' = "running"
  /\ UNCHANGED <<row, capture, task, wake, carried, offers, ends, cmd, stops, stopped, told>>

\* A Stop before the turn cancels the start effect; its execution is
\* interrupted some time after.
StartInterrupted ==
  /\ start \in {"read", "opening", "calling"}
  /\ row.status = "interrupted"
  /\ start' = "done"
  /\ UNCHANGED <<row, turn, capture, task, wake, carried, offers, ends, cmd, stops, stopped, told>>

\* The provider ends the turn, by itself or because Stop asked it to.
TurnEnds ==
  /\ turn = "running"
  /\ turn' \in Settled
  /\ UNCHANGED <<row, start, capture, task, wake, carried, offers, ends, cmd, stops, stopped, told>>

\* A completed turn leaves the run waiting for its checkpoint.
Finalize ==
  /\ turn \in Settled
  /\ IfCurrent("running", IF turn = "completed" THEN "waiting" ELSE turn)
  /\ capture' = IF row.status = "running" /\ turn # "failed" /\ capture.pc = "none"
                THEN [capture EXCEPT !.pc = "queued"] ELSE capture
  /\ turn' = "closed"
  /\ UNCHANGED <<start, task, wake, carried, offers, cmd, stops, stopped, told>>

\* A run that is no longer waiting is an error, after which the effect is
\* retried or given up.  (A checkpoint can only be there already in a later
\* process.)
CaptureRead ==
  /\ capture.pc = "queued"
  /\ \/ /\ row.status \in {"waiting", "interrupted"}
        /\ capture' = [pc |-> "running", copy |-> row.status]
     \/ /\ row.status \notin {"waiting", "interrupted"}
        /\ \E pc \in {"queued", "failed"} : capture' = [capture EXCEPT !.pc = pc]
  /\ UNCHANGED <<row, turn, start, task, wake, carried, offers, ends, cmd, stops, stopped, told>>

\* The commit does not look at the status again.
CaptureCommit ==
  /\ capture.pc = "running"
  /\ row' = [row EXCEPT !.checkpoint = TRUE,
                        !.status = IF capture.copy = "waiting" THEN "completed" ELSE capture.copy]
  /\ ends' = ParentEnds(row', ends)
  /\ capture' = [pc |-> "done", copy |-> "none"]
  /\ UNCHANGED <<turn, start, task, wake, carried, offers, cmd, stops, stopped, told>>

-----------------------------------------------------------------------------
(* The handlers that hold the thread's lock.                                *)

Begin(kind, arg) ==
  /\ cmd = Free
  /\ cmd' = [kind |-> kind, arg |-> arg, copy |-> row]
  /\ UNCHANGED <<row, turn, start, capture, task, wake, carried, offers, ends, stops, stopped, told>>

Undecided(t) == task[t].phase # "unborn" /\ task[t].delivery \notin Final

\* An update of the cohort that leaves the rest of the row as it is now.
MergedAsRead(r) == r

Merged(r) == [r EXCEPT !.status = row.status, !.checkpoint = row.checkpoint]

\* The row is written only if the plan has changed it.
WriteMerged(r) ==
  IF r = cmd.copy
  THEN UNCHANGED <<row, ends>>
  ELSE row' = Merged(r) /\ ends' = ParentEnds(row', ends)

\* The plan's copy of the whole row.
WriteWhole(r, cancelled) ==
  /\ row' = r
  /\ ends' = WakesEnd(cancelled, ParentEnds(r, ends))

Decide(S, d) ==
  task' = [t \in Task |-> IF t \in S THEN [task[t] EXCEPT !.delivery = d] ELSE task[t]]

Queued(g) == IF g # 0 /\ Waits(g) THEN {g} ELSE {}

\* A delivery with results and no message yet is offered to the thread.
Offerable(r) ==
  IF r.disposition = "open" /\ r.gen # 0 /\ r.ids # {} /\ wake[r.gen] = "none" THEN {r.gen} ELSE {}

BeginDelegate(t) ==
  /\ turn = "running"
  /\ Active(row)
  /\ ~ stopped
  /\ task[t].phase = "unborn"
  /\ Begin("delegate", t)

Delegate ==
  /\ cmd.kind = "delegate"
  /\ \E policy \in {"always", "settled_only"} :
       task' = [task EXCEPT ![cmd.arg] =
                  [phase |-> "running", policy |-> policy, delivery |-> "none"]]
  /\ cmd' = Free
  /\ UNCHANGED <<row, turn, start, capture, wake, carried, offers, ends, stops, stopped, told>>

\* What to do with a result: the task's delivery, the run's cohort, and
\* whether to offer the delivery to the thread.
PlanDelivery(t, policy, r) ==
  LET g == r.gen
      Plan(delivery, run, offer) == [delivery |-> delivery, run |-> run, offer |-> offer]
      join == [r EXCEPT !.ids = @ \cup {t}]
      reserve == [r EXCEPT !.disposition = "open", !.next = @ + 1, !.gen = r.next, !.ids = {t}]
  IN CASE task[t].delivery \in Final -> Plan(task[t].delivery, r, FALSE)
       [] task[t].delivery \notin Final /\ r.disposition \in {"stopped", "disposed"}
            -> Plan("disposed", r, FALSE)
       [] OTHER ->
            IF policy = "settled_only" /\ Live(r) THEN Plan(task[t].delivery, r, FALSE)
            ELSE IF g = 0 THEN Plan("claimed", reserve, TRUE)
            ELSE IF Waits(g) THEN Plan("claimed", join, FALSE)
            ELSE IF wake[g] = "none" THEN Plan("claimed", join, TRUE)
            ELSE Plan("pending", r, FALSE)

ReserveQuietly(plan) ==
  /\ WriteMerged(plan.run)
  /\ offers' = IF plan.offer THEN offers \cup Offerable(plan.run) ELSE offers
  /\ UNCHANGED carried

\* The plan's effects, apart from the task's row.
Reserve(plan) ==
  /\ WriteMerged(plan.run)
  /\ carried' = [g \in Gen |-> IF g \in Queued(cmd.copy.gen) THEN plan.run.ids ELSE carried[g]]
  /\ offers' = IF plan.offer THEN offers \cup Offerable(plan.run) ELSE offers

\* The child's result reaches the parent's thread.
BeginEnd(t) ==
  /\ task[t].phase = "running"
  /\ Begin("end", t)

EndTask ==
  /\ cmd.kind = "end"
  /\ LET t == cmd.arg
         plan == PlanDelivery(t, task[t].policy, cmd.copy)
     IN /\ Reserve(plan)
        /\ task' = [task EXCEPT ![t].phase = "done", ![t].delivery = plan.delivery]
  /\ cmd' = Free
  /\ UNCHANGED <<turn, start, capture, wake, stops, stopped, told>>

\* A blocking wait for the task has timed out: from now on its result wakes
\* the parent.  The delivery is offered again whatever the plan.
BeginPolicy(t) ==
  /\ task[t].phase # "unborn"
  /\ task[t].policy = "settled_only"
  /\ Begin("policy", t)

SetPolicy ==
  /\ cmd.kind = "policy"
  /\ LET t == cmd.arg
         plan == IF task[t].phase = "done" /\ Live(cmd.copy)
                 THEN [PlanDelivery(t, "always", cmd.copy) EXCEPT !.offer = TRUE]
                 ELSE [delivery |-> task[t].delivery, run |-> cmd.copy, offer |-> TRUE]
     IN /\ Reserve(plan)
        /\ task' = [task EXCEPT ![t].policy = "always", ![t].delivery = plan.delivery]
  /\ cmd' = Free
  /\ UNCHANGED <<turn, start, capture, wake, stops, stopped, told>>

\* The parent has read the result by itself.
BeginAck(t) ==
  /\ task[t].phase = "done"
  /\ task[t].delivery \notin {"acknowledged", "disposed"}
  /\ Begin("ack", t)

Acknowledge ==
  /\ cmd.kind = "ack"
  /\ LET r == cmd.copy
         rest == r.ids \ {cmd.arg}
         cancelled == IF rest = {} THEN Queued(r.gen) ELSE {}
         clear == rest = {} /\ (wake[r.gen] = "none" \/ Waits(r.gen))
     IN IF r.gen # 0 /\ cmd.arg \in r.ids
        THEN /\ row' = Merged([r EXCEPT !.ids = rest, !.gen = IF clear THEN 0 ELSE @])
             /\ ends' = WakesEnd(cancelled, ParentEnds(row', ends))
             /\ wake' = [g \in Gen |-> IF g \in cancelled THEN "cancelled" ELSE wake[g]]
             /\ carried' = [g \in Gen |-> IF g \in Queued(r.gen) \ cancelled
                                          THEN rest ELSE carried[g]]
        ELSE UNCHANGED <<row, ends, wake, carried>>
  /\ Decide({cmd.arg}, "acknowledged")
  /\ cmd' = Free
  /\ UNCHANGED <<turn, start, capture, offers, stops, stopped, told>>

-----------------------------------------------------------------------------
(* Stop and cancellation.                                                   *)

DisposedAfresh(r, d) == [r EXCEPT !.disposition = d, !.next = 1, !.gen = 0, !.ids = {}]

Disposed(r, d) ==
  [r EXCEPT !.disposition = IF @ = "disposed" THEN @ ELSE d, !.gen = 0, !.ids = {}]

\* The cohort wants no more results; all that are undecided are disposed of,
\* and a queued wake is cancelled.  The row is the one that was read.
DisposeCohort(d) ==
  LET cancelled == Queued(cmd.copy.gen)
  IN /\ WriteWhole(Disposed(cmd.copy, d), cancelled)
     /\ Decide({t \in Task : Undecided(t)}, "disposed")
     /\ wake' = [g \in Gen |-> IF g \in cancelled THEN "cancelled" ELSE wake[g]]

ByUser(kind, arg) ==
  /\ cmd = Free
  /\ stops < MaxStops
  /\ stops' = stops + 1
  /\ cmd' = [kind |-> kind, arg |-> arg, copy |-> row]
  /\ UNCHANGED <<row, turn, start, capture, task, wake, carried, offers, ends, stopped, told>>

\* Stop on the run before the provider's turn is known: the run itself is
\* interrupted and its start effect cancelled.  There is no cohort yet.
BeginStopStart ==
  /\ turn = "none"
  /\ Live(row)
  /\ ByUser("stopStart", 0)

StopStart ==
  /\ cmd.kind = "stopStart"
  /\ WriteWhole([cmd.copy EXCEPT !.status = "interrupted"], {})
  /\ start' = IF start = "queued" THEN "done" ELSE start
  /\ stopped' = TRUE
  /\ cmd' = Free
  /\ UNCHANGED <<turn, capture, task, wake, carried, offers, stops, told>>

\* Stop on the run with a turn, or for background work (of any kind) that it
\* has left as long as no later run has started: the cohort is disposed of, and
\* the turn asked to end.
BeginStopTurn ==
  /\ turn # "none"
  /\ Live(row) \/ (turn = "closed" /\ \A g \in Gen : wake[g] \in {"none", "queued", "held", "cancelled"})
  /\ ByUser("stopTurn", 0)

StopTurn ==
  /\ cmd.kind = "stopTurn"
  /\ IF cmd.copy.disposition = "none" /\ \A t \in Task : task[t].phase = "unborn"
     THEN UNCHANGED <<row, ends, task, wake>>
     ELSE DisposeCohort("stopped")
  /\ stopped' = TRUE
  /\ cmd' = Free
  /\ UNCHANGED <<turn, start, capture, carried, offers, stops, told>>

\* Stop on a wake: only the results it carries are disposed of while other
\* results are still to come.
BeginStopWake(g) ==
  /\ wake[g] = "active"
  /\ ByUser("stopWake", g)

StopWake ==
  /\ cmd.kind = "stopWake"
  /\ LET mine == carried[cmd.arg]
         kept == IF cmd.copy.disposition = "open"
                 THEN {t \in Task : Undecided(t) /\ t \notin mine} ELSE {}
     IN IF kept = {}
        THEN DisposeCohort("stopped")
        ELSE /\ WriteWhole(cmd.copy, {})
             /\ Decide({t \in mine : Undecided(t)}, "disposed")
             /\ UNCHANGED wake
  /\ cmd' = Free
  /\ UNCHANGED <<turn, start, capture, carried, offers, stops, stopped, told>>

\* The user removes a wake from the queue.
BeginCancelWake(g) ==
  /\ Waits(g)
  /\ ByUser("cancelWake", g)

CancelWake ==
  /\ cmd.kind = "cancelWake"
  /\ DisposeCohort("disposed")
  /\ cmd' = Free
  /\ UNCHANGED <<turn, start, capture, carried, offers, stops, stopped, told>>

-----------------------------------------------------------------------------
(* Wakes.                                                                   *)

IdleWhenNotLive == ~ Live(cmd.copy) /\ ~ WakeActive

\* No run of the thread is active.
Idle == ~ Active(cmd.copy) /\ ~ WakeActive

\* A wake that starts puts the results of its message to the parent.
StartWake(g, ids) ==
  /\ wake' = [wake EXCEPT ![g] = "active"]
  /\ told' = [t \in Task |-> IF t \in ids THEN told[t] + 1 ELSE told[t]]

\* A continuation request is dispatched as a message of its generation, if
\* that is still the one to deliver and has no message yet.  (It would be held
\* if another were, but there is one delivery at a time.)
BeginDispatch(g) ==
  /\ g \in offers
  /\ Begin("dispatch", g)

Dispatch ==
  /\ cmd.kind = "dispatch"
  /\ LET g == cmd.arg
         r == cmd.copy
     IN IF r.disposition = "open" /\ r.gen = g /\ wake[g] = "none"
        THEN /\ carried' = [carried EXCEPT ![g] = r.ids]
             /\ IF Idle
                THEN StartWake(g, r.ids)
                ELSE wake' = [wake EXCEPT ![g] = "queued"] /\ UNCHANGED told
        ELSE UNCHANGED <<carried, wake, told>>
  /\ offers' = offers \ {cmd.arg}
  /\ cmd' = Free
  /\ UNCHANGED <<row, turn, start, capture, task, ends, stops, stopped>>

\* The wake's own turn, finalization and capture are those of any run.  A
\* queued wake that cannot be started is one that starts and fails.
WakeEnds(g) ==
  /\ wake[g] = "active"
  /\ \E st \in Settled : wake' = [wake EXCEPT ![g] = st]
  /\ ends' = WakesEnd({g}, ends)
  /\ UNCHANGED <<row, turn, start, capture, task, carried, offers, cmd, stops, stopped, told>>

\* The reaction to a terminal run update, first part: if the run was the wake
\* of the current generation, its results are delivered and those that came
\* meanwhile are reserved for the next.  The row is the one that was read.
TakeReaction(g, phase, rest) ==
  /\ cmd = Free
  /\ ends # <<>> /\ Head(ends) = <<g, phase>>
  /\ ends' = rest
  /\ cmd' = [kind |-> phase, arg |-> g, copy |-> row]
  /\ UNCHANGED <<row, turn, start, capture, task, wake, carried, offers, stops, stopped, told>>

BeginDeliver(g) == TakeReaction(g, "deliver", <<<<g, "next">>>> \o Tail(ends))

UnreadUnlessCompleted(g, claimed) == IF wake[g] # "completed" THEN claimed ELSE {}

\* What a wake carried when it was cancelled before it started.
Unread(g, claimed) == IF wake[g] = "cancelled" THEN claimed ELSE {}

\* Results that came while a wake was under way.
Due == {t \in Task : task[t].phase = "done" /\ task[t].delivery = "pending"}

Deliver ==
  /\ cmd.kind = "deliver"
  /\ LET g == cmd.arg
         r == cmd.copy
         claimed == {t \in r.ids : task[t].delivery = "claimed"}
         again == Unread(g, claimed)
         follow == IF r.disposition = "open" THEN Due \cup again ELSE {}
         later(t) == IF t \in follow THEN "claimed"
                     ELSE IF t \in again THEN "pending"
                     ELSE IF t \in claimed THEN "delivered" ELSE task[t].delivery
     IN IF r.gen = g
        THEN /\ row' = [r EXCEPT !.next = IF follow = {} THEN @ ELSE @ + 1,
                                 !.gen = IF follow = {} THEN 0 ELSE r.next,
                                 !.ids = follow]
             /\ ends' = ParentEnds(row', ends)
             /\ task' = [t \in Task |-> [task[t] EXCEPT !.delivery = later(t)]]
             /\ offers' = IF follow = {} THEN offers ELSE offers \cup Offerable(row')
        ELSE UNCHANGED <<row, ends, task, offers>>
  /\ cmd' = Free
  /\ UNCHANGED <<turn, start, capture, wake, carried, stops, stopped, told>>

\* Second part: the next queued run starts, unless a run is active.  After a
\* failure of the provider, in the run that was executed last, all that is
\* queued is held instead; other failures do not hold the queue.
BeginNext(g) == TakeReaction(g, "next", Tail(ends))

FailedLast(g) ==
  /\ IF g = 0 THEN cmd.copy.status = "failed" ELSE wake[g] = "failed"
  /\ \A h \in Gen : h > g => wake[h] = "none" \/ Waits(h) \/ wake[h] = "cancelled"

StartNext ==
  /\ cmd.kind \in {"next", "resumed"}
  /\ IF Idle /\ \E g \in Gen : wake[g] = "queued"
     THEN \E g \in Gen :
            /\ wake[g] = "queued"
            /\ \/ StartWake(g, carried[g])
               \/ /\ cmd.kind = "next" /\ FailedLast(cmd.arg)
                  /\ wake' = [wake EXCEPT ![g] = "held"]
                  /\ UNCHANGED told
     ELSE UNCHANGED <<wake, told>>
  /\ cmd' = Free
  /\ UNCHANGED <<row, turn, start, capture, task, carried, offers, ends, stops, stopped>>

\* The user resumes the queue; the handler goes on to the next queued run.
BeginResume ==
  /\ \E g \in Gen : wake[g] = "held"
  /\ Begin("resume", 0)

Resume ==
  /\ cmd.kind = "resume"
  /\ wake' = [g \in Gen |-> IF wake[g] = "held" THEN "queued" ELSE wake[g]]
  /\ cmd' = [cmd EXCEPT !.kind = "resumed", !.copy = row]
  /\ UNCHANGED <<row, turn, start, capture, task, carried, offers, ends, stops, stopped, told>>

-----------------------------------------------------------------------------
Unlocked == StartRead \/ StartWrite \/ StartCheck \/ TurnOpens \/ TurnEnds \/ Finalize
            \/ CaptureRead \/ CaptureCommit

Commits == Delegate \/ EndTask \/ SetPolicy \/ Acknowledge \/ StopStart \/ StopTurn \/ StopWake \/ CancelWake
           \/ Dispatch \/ Deliver \/ StartNext \/ Resume

Reacts(g) == BeginDispatch(g) \/ BeginDeliver(g) \/ WakeEnds(g)

Next ==
  \/ Unlocked \/ StartFails \/ StartInterrupted
  \/ \E t \in Task : BeginDelegate(t) \/ BeginEnd(t) \/ BeginPolicy(t) \/ BeginAck(t)
  \/ BeginStopStart \/ BeginStopTurn \/ BeginResume
  \/ \E g \in Gen : BeginStopWake(g) \/ BeginCancelWake(g) \/ Reacts(g)
  \/ \E g \in 0..MaxGen : BeginNext(g)
  \/ Commits

Spec == Init /\ [][Next]_vars

\* Handlers and effects that are due run; the provider ends its turns.  The
\* user and the delegated tasks owe nothing.
FairSpec ==
  /\ Spec
  /\ WF_vars(Unlocked)
  /\ WF_vars(Commits)
  /\ \A g \in Gen : WF_vars(BeginDispatch(g)) /\ WF_vars(BeginDeliver(g)) /\ WF_vars(WakeEnds(g))
  /\ \A g \in 0..MaxGen : WF_vars(BeginNext(g))

-----------------------------------------------------------------------------
(* Properties.                                                              *)

\* A result that is claimed is carried by the current delivery of a cohort
\* that is open: no writer of the row loses a claim it did not decide on.
ClaimsAreCarried ==
  /\ TypeOK
  /\ \A t \in Task : task[t].delivery = "claimed" =>
       row.disposition = "open" /\ row.gen # 0 /\ t \in row.ids

\* A wake that waits in the queue is the current delivery and names exactly
\* its results, each of them still to be told: what joins, is acknowledged or
\* disposed of meanwhile changes the message in the same commit.
QueuedWakeIsCurrent ==
  \A g \in Gen : Waits(g) =>
    /\ row.disposition = "open" /\ row.gen = g
    /\ carried[g] = row.ids /\ carried[g] # {}
    /\ \A t \in carried[g] : task[t].delivery = "claimed"

\* The thread never has two active runs: a wake starts only when the parent
\* has settled, and one wake at a time.
SingleActiveRun ==
  WakeActive => ~ Active(row) /\ \A g, h \in Gen : wake[g] = "active" /\ wake[h] = "active" => g = h

\* No result is put to the parent twice, through any number of generations,
\* cancelled wakes and stops.
ToldOnce == \A t \in Task : told[t] <= 1

\* Generations go forward, and a cohort that was stopped or disposed of is
\* not opened again, although every writer writes the row it has read.
CohortStepsForward ==
  [][/\ row.next <= row'.next
     /\ row.disposition \in {"stopped", "disposed"} => row'.disposition \in {"stopped", "disposed"}
    ]_row

UserKinds == {"stopStart", "stopTurn", "stopWake", "cancelWake"}

\* While no Stop has reached the run, and but for the commit of a cancellation,
\* its status only goes forward: a waiting run stays or settles, and a settled
\* run stays as it is, although the cohort's writers read the row before they
\* write it.
StatusStepsForward ==
  [][~ stopped /\ cmd.kind \notin UserKinds =>
       /\ row.status = "waiting" => row'.status \in {"waiting"} \cup Settled
       /\ row.status \in Settled => row'.status = row.status]_row

\* A run that checkpoint capture has completed is never active again.
CompletionIsKept ==
  [][row.status = "completed" => row'.status \in Settled]_row

\* A result that was reserved reaches the parent: it is delivered or read,
\* unless a provider failure has held the queue or the user has stopped
\* something.
ResultsReachParent ==
  \A t \in Task : (task[t].delivery \in {"pending", "claimed"}) ~>
                    (task[t].delivery \in Final \/ stops > 0 \/ \E g \in Gen : wake[g] = "held")
=============================================================================
