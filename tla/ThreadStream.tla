----------------------------- MODULE ThreadStream -----------------------------
(***************************************************************************)
(* A client following one thread: subscribeOrchestrationV2Thread of ws.ts  *)
(* (resume from a cursor, or start from a snapshot), the bounded stream of *)
(* EventSink.ts and LiveStreamBudget.ts behind it, the coalescer of        *)
(* ThreadLiveEventCoalescer.ts in front of the socket, and the cursor and  *)
(* data of the client in client-runtime/state/threads.ts; beside them the  *)
(* pruning of old events by ProjectionMaintenance.ts.                      *)
(*                                                                         *)
(* The log is EventLog's: an event is the thread it belongs to and the     *)
(* entity it replaces, if it is an update that may be coalesced.  All      *)
(* sequences below are positions in it.                                    *)
(***************************************************************************)
EXTENDS EventLog, FiniteSets, SequencesExt, Subsequences

CONSTANTS
    Thread, Key, NoKey,
    FamilyOf,           \* [Key -> family]: message or turn-item updates
    Client, Watches,    \* [Client -> Thread]
    MaxItems,           \* LIVE_STREAM_MAX_ITEMS
    PageSize,           \* rows of one catch-up page
    MaxReplay,          \* THREAD_RESUME_MAX_REPLAY_EVENTS
    MaxEvents, MaxLosses, MaxPasses      \* bounds of the model

ASSUME StreamAssumption ==
    /\ Entry \subseteq [thread : Thread, key : Key \cup {NoKey}]
    /\ \A batch \in Batch : batch \in Seq(Entry) /\ batch # << >>
    /\ NoKey \notin Key
    /\ Watches \in [Client -> Thread]
    /\ {MaxItems, PageSize, MaxReplay} \subseteq Nat \ {0}
    /\ {MaxEvents, MaxLosses, MaxPasses} \subseteq Nat

VARIABLES
    sub,            \* [Client -> the server's side of its subscription]
    cli,            \* [Client -> what the client holds]
    prune,          \* the prune mark, boundary and pass
    gone,           \* events that were deleted
    losses

vars == <<logVars, sub, cli, prune, gone, losses>>

Phase == {"offline", "resuming", "measured", "read", "snapshot", "initial",
          "opening", "subscribed", "latest", "paging", "live", "failed"}

Draining == {"subscribed", "latest", "paging", "live"}

Offline == [phase |-> "offline",
    start    |-> 0,         \* where the event stream begins (afterSequence)
    latest   |-> 0,         \* the high-water mark that was read
    through  |-> 0,         \* throughSequence
    pos      |-> 0,         \* items taken from the PubSub subscription
    retained |-> << >>,     \* live events held by the live stream budget
    readTo   |-> 0,         \* catch-up cursor
    page     |-> << >>,     \* rows of the current page not pulled yet
    pending  |-> << >>,     \* coalescer: events waiting for the window
    output   |-> << >>,     \* coalescer: events ready to send
    snapshot |-> FALSE,     \* the first item in flight is a snapshot
    sent     |-> << >>]     \* in flight to the client

NoData == [hasData |-> FALSE, cursor |-> 0, known |-> {}]

EventsOfThread(t) == {i \in 1 .. Len(log) : log[i].thread = t}

Latest(t) == CHOOSE i \in EventsOfThread(t) \cup {0} :
    \A j \in EventsOfThread(t) : j <= i

(* The stored events of a thread after one sequence up to another. *)
Stored(t, after, upTo) ==
    InOrder({i \in EventsOfThread(t) \ gone : after < i /\ i <= upTo})

TypeOK ==
    /\ log \in Seq(Entry) /\ announced \in 0 .. Len(log)
    /\ channel \in Seq(Nat)
    /\ \A c \in Client :
        /\ sub[c].phase \in Phase
        /\ sub[c].pos \in 0 .. Len(channel)
        /\ \A f \in {"retained", "page", "pending", "output", "sent"} :
               sub[c][f] \in Seq(EventsOfThread(Watches[c]))
        /\ cli[c] \in [hasData : BOOLEAN, cursor : 0 .. Len(log),
                       known : SUBSET EventsOfThread(Watches[c])]
    /\ prune \in [mark : 0 .. Len(log), due : BOOLEAN, through : 0 .. Len(log),
                  next : 0 .. Len(log), deleting : BOOLEAN, passes : 0 .. MaxPasses]
    /\ gone \subseteq 1 .. prune.through
    /\ losses \in 0 .. MaxLosses

Init ==
    /\ LogInit
    /\ sub = [c \in Client |-> Offline]
    /\ cli = [c \in Client |-> NoData]
    /\ prune = [mark |-> 0, due |-> FALSE, through |-> 0, next |-> 0,
                deleting |-> FALSE, passes |-> 0]
    /\ gone = {}
    /\ losses = 0

-----------------------------------------------------------------------------
(* Coalescing: within a run of updates, an update is dropped when a later  *)
(* one replaces the same entity and neither its family nor the other one   *)
(* switched to a different entity in between.                              *)
Switches(items, p) ==
    LET key(q)  == log[items[q]].key
        near(q) == /\ key(q) # NoKey /\ FamilyOf[key(q)] = FamilyOf[key(p)]
                   /\ \A x \in q + 1 .. p - 1 : key(x) # NoKey
                   /\ \A x \in q + 1 .. p - 1 : FamilyOf[key(x)] # FamilyOf[key(p)]
    IN  key(p) = NoKey \/ \E q \in 1 .. p - 1 : near(q) /\ key(q) # key(p)

(* Mutant of Superseded: an update is replaced across a switch to another  *)
(* entity.                                                                 *)
SupersededAcross(items, k) == \E m \in k + 1 .. Len(items) :
    /\ log[items[m]].key = log[items[k]].key
    /\ log[items[k]].key # NoKey

Superseded(items, k) == \E m \in k + 1 .. Len(items) :
    /\ log[items[m]].key = log[items[k]].key
    /\ \A p \in k + 1 .. m : ~Switches(items, p)

Coalesce(items) ==
    LET kept == InOrder({k \in DOMAIN items : ~Superseded(items, k)})
    IN  [k \in DOMAIN kept |-> items[kept[k]]]

(* The subscription ends with LiveStreamBufferError; only what is already  *)
(* on its way may still reach the client.                                  *)
Fail(s) == [s EXCEPT !.phase = "failed", !.retained = << >>, !.page = << >>,
                     !.pending = << >>, !.output = << >>]

(* The coalescer takes one event: an update waits for the window, anything *)
(* else flushes what is pending before it.                                 *)
OfferOne(s, i) ==
    IF s.phase = "failed" THEN s
    ELSE IF Len(s.pending) + Len(s.output) + Len(s.sent) >= MaxItems THEN Fail(s)
    ELSE IF log[i].key # NoKey THEN [s EXCEPT !.pending = Append(@, i)]
    ELSE [s EXCEPT !.pending = << >>,
                   !.output = @ \o Coalesce(Append(s.pending, i))]

(* One batch of live events, one after the other. *)
OfferAll(s, items) ==
    LET after[k \in 0 .. Len(items)] ==
            IF k = 0 THEN s ELSE OfferOne(after[k - 1], items[k])
    IN  after[Len(items)]

-----------------------------------------------------------------------------
(* One server step of a subscription. *)
Serve(c, from, next) ==
    /\ sub[c].phase \in from
    /\ sub' = [sub EXCEPT ![c] = next]
    /\ UNCHANGED <<logVars, cli, prune, gone, losses>>

(* The client subscribes with its cursor, or without one. *)
Resume(c) ==
    /\ cli[c].hasData
    /\ Serve(c, {"offline"},
             [Offline EXCEPT !.phase = "resuming", !.start = Latest(Watches[c])])

StartAfresh(c) ==
    /\ ~cli[c].hasData
    /\ Serve(c, {"offline"}, [Offline EXCEPT !.phase = "snapshot"])

(* A cursor below the prune boundary may miss events that were deleted. *)
Missing(c) ==
    /\ cli[c].cursor < sub[c].start
    /\ cli[c].cursor < prune.through

CheckBoundary(c) ==
    Serve(c, {"resuming"}, [sub[c] EXCEPT !.phase =
        IF cli[c].cursor > sub[c].start \/ Missing(c) THEN "snapshot" ELSE "measured"])

(* decideThreadResume bounds what a client is replayed. *)
Replayable(replay) == Len(replay) <= MaxReplay

(* Too many or too large events, or a recreated thread: send a snapshot. *)
PreferSnapshot(c) ==
    /\ Stored(Watches[c], cli[c].cursor, sub[c].start) # << >>
    /\ Serve(c, {"measured"}, [sub[c] EXCEPT !.phase = "snapshot"])

ReadReplay(c) ==
    LET replay == Stored(Watches[c], cli[c].cursor, sub[c].start)
    IN  /\ Replayable(replay)
        /\ Serve(c, {"measured"}, [sub[c] EXCEPT !.phase = "read", !.sent = replay])

(* Mutant of CheckBoundaryAgain: the replay is trusted. *)
TrustReplay(c) ==
    Serve(c, {"read"}, [sub[c] EXCEPT !.phase = "initial", !.sent = Coalesce(@)])

(* The boundary is read again: a pass may have deleted during the read. *)
CheckBoundaryAgain(c) ==
    Serve(c, {"read"},
        IF Missing(c) THEN [sub[c] EXCEPT !.phase = "snapshot", !.sent = << >>]
        ELSE [sub[c] EXCEPT !.phase = "initial", !.sent = Coalesce(@)])

(* Mutant of LoadSnapshot: an earlier snapshot of the thread is reused. *)
LoadSnapshotCached(c) == \E i \in EventsOfThread(Watches[c]) :
    Serve(c, {"snapshot"}, [sub[c] EXCEPT !.phase = "initial",
            !.start = i, !.sent = << i >>, !.snapshot = TRUE])

(* One transaction reads the projection and the thread's last sequence.    *)
(* The snapshot item stands for the sequence it was taken at.              *)
LoadSnapshot(c) ==
    /\ EventsOfThread(Watches[c]) # {}
    /\ Serve(c, {"snapshot"}, [sub[c] EXCEPT !.phase = "initial",
            !.start = Latest(Watches[c]), !.sent = << Latest(Watches[c]) >>,
            !.snapshot = TRUE])

(* The event stream is opened once the client took the initial items. *)
OpenStream(c) ==
    /\ sub[c].sent = << >>
    /\ Serve(c, {"initial"}, [sub[c] EXCEPT !.phase = "opening"])

SubscribeChannel(c) ==
    Serve(c, {"opening"}, [sub[c] EXCEPT !.phase = "subscribed",
            !.pos = Len(channel), !.through = sub[c].start])

ReadLatest(c) ==
    Serve(c, {"subscribed"}, [sub[c] EXCEPT !.phase = "latest", !.latest = Len(log)])

BeginCatchUp(c) ==
    Serve(c, {"latest"}, [sub[c] EXCEPT !.phase = "paging",
            !.through = IF sub[c].latest > sub[c].start THEN sub[c].latest ELSE sub[c].start,
            !.readTo = sub[c].start])

(* Mutant of ReadPage: a full page counts as the last one, too. *)
ReadPageOnce(c) ==
    LET s    == sub[c]
        rows == Stored(Watches[c], s.readTo, s.latest)
        page == SubSeq(rows, 1, IF Len(rows) < PageSize THEN Len(rows) ELSE PageSize)
    IN  /\ s.page = << >>
        /\ Serve(c, {"paging"},
             IF page = << >> THEN [s EXCEPT !.phase = "live"]
             ELSE [s EXCEPT !.page = page, !.readTo = s.latest])

(* A short page, or one that reaches the high-water mark, is the last. *)
ReadPage(c) ==
    LET s    == sub[c]
        rows == Stored(Watches[c], s.readTo, s.latest)
        page == SubSeq(rows, 1, IF Len(rows) < PageSize THEN Len(rows) ELSE PageSize)
    IN  /\ s.page = << >>
        /\ Serve(c, {"paging"},
             IF page = << >> THEN [s EXCEPT !.phase = "live"]
             ELSE [s EXCEPT !.page = page,
                       !.readTo = IF Len(page) < PageSize THEN s.latest ELSE Last(page)])

(* A replayed event is charged while it is handed on. *)
PullPage(c) ==
    LET s == sub[c]
    IN  /\ s.page # << >>
        /\ Serve(c, {"paging"},
             IF Len(s.retained) >= MaxItems THEN Fail(s)
             ELSE OfferOne([s EXCEPT !.page = Tail(@)], Head(s.page)))

(* The drain takes one event at a time from the PubSub. *)
Drain(c) ==
    LET s    == sub[c]
        i    == channel[s.pos + 1]
        next == [s EXCEPT !.pos = @ + 1]
    IN  /\ s.pos < Len(channel)
        /\ Serve(c, Draining,
             IF ~(log[i].thread = Watches[c] /\ i > s.through) THEN next
             ELSE IF Len(s.retained) >= MaxItems THEN Fail(s)
             ELSE [next EXCEPT !.retained = Append(@, i)])

(* Live events that the catch-up already covered are dropped here. *)
PullLive(c) ==
    LET s     == sub[c]
        fresh == {i \in EventsOfThread(Watches[c]) : i > s.through}
    IN  /\ s.retained # << >>
        /\ Serve(c, {"live"},
             OfferAll([s EXCEPT !.retained = << >>], Among(s.retained, fresh)))

FlushWindow(c) ==
    LET s == sub[c]
    IN  /\ s.pending # << >>
        /\ Serve(c, Draining,
             [s EXCEPT !.pending = << >>, !.output = @ \o Coalesce(s.pending)])

SendOutput(c) ==
    /\ sub[c].sent = << >> /\ sub[c].output # << >>
    /\ Serve(c, Draining, [sub[c] EXCEPT !.sent = sub[c].output, !.output = << >>])

-----------------------------------------------------------------------------
(* applyItems: a snapshot replaces data and cursor; an event at or below   *)
(* the cursor is dropped, any other moves it.                              *)
Applied(held, c, i) ==
    IF sub[c].snapshot
    THEN [hasData |-> TRUE, cursor |-> i, known |-> {j \in EventsOfThread(Watches[c]) : j <= i}]
    ELSE IF i <= held.cursor THEN held
    ELSE [held EXCEPT !.cursor = i, !.known = IF held.hasData THEN @ \cup {i} ELSE @]

Receive(c) ==
    /\ sub[c].phase \in Draining \cup {"initial", "failed"}
    /\ sub[c].sent # << >>
    /\ cli' = [cli EXCEPT ![c] = Applied(@, c, Head(sub[c].sent))]
    /\ sub' = [sub EXCEPT ![c].sent = Tail(@), ![c].snapshot = FALSE]
    /\ UNCHANGED <<logVars, prune, gone, losses>>

(* The snapshot a client without data loads over HTTP before it subscribes. *)
LoadOverHttp(c) ==
    /\ sub[c].phase = "offline" /\ ~cli[c].hasData
    /\ EventsOfThread(Watches[c]) # {}
    /\ cli' = [cli EXCEPT ![c] = [hasData |-> TRUE, cursor |-> Latest(Watches[c]),
                                  known |-> EventsOfThread(Watches[c])]]
    /\ UNCHANGED <<logVars, sub, prune, gone, losses>>

(* The client sees the stream's error and subscribes again. *)
SeeFailure(c) ==
    /\ sub[c].sent = << >>
    /\ Serve(c, {"failed"}, Offline)

(* The connection is lost with everything in flight; the client may be     *)
(* restarted without its cache.                                            *)
Disconnect(c) ==
    /\ losses < MaxLosses
    /\ losses' = losses + 1
    /\ sub' = [sub EXCEPT ![c] = Offline]
    /\ \/ UNCHANGED cli
       \/ cli' = [cli EXCEPT ![c] = NoData]
    /\ UNCHANGED <<logVars, prune, gone>>

-----------------------------------------------------------------------------
Write ==
    /\ \E batch \in Batch :
        /\ Len(log) + Len(batch) <= MaxEvents
        /\ AppendToLog(batch)
    /\ UNCHANGED <<sub, cli, prune, gone, losses>>

AnnounceBatch ==
    /\ Announce
    /\ UNCHANGED <<sub, cli, prune, gone, losses>>

Crash ==
    /\ losses < MaxLosses
    /\ losses' = losses + 1
    /\ RestartLog
    /\ sub' = [c \in Client |-> Offline]
    /\ prune' = [prune EXCEPT !.deleting = FALSE]
    /\ UNCHANGED <<cli, gone>>

(* RETAINED_EVENT_HISTORY passes.  No subscription takes a day to start. *)
MarkAges ==
    /\ ~prune.due /\ prune.passes < MaxPasses
    /\ \A c \in Client : sub[c].phase \in {"offline", "live", "failed"}
    /\ prune' = [prune EXCEPT !.due = TRUE, !.passes = @ + 1]
    /\ UNCHANGED <<logVars, sub, cli, gone, losses>>

(* A pass publishes its boundary before it deletes anything. *)
BeginPass ==
    /\ prune.due /\ ~prune.deleting
    /\ prune' = [prune EXCEPT !.deleting = TRUE, !.next = Len(log),
            !.through = IF prune.mark > @ THEN prune.mark ELSE @]
    /\ UNCHANGED <<logVars, sub, cli, gone, losses>>

(* Some events are kept on purpose, a thread's last one always. *)
DeleteEvent ==
    /\ prune.deleting
    /\ \E i \in (1 .. prune.through) \ gone :
        /\ i # Latest(log[i].thread)
        /\ gone' = gone \cup {i}
    /\ UNCHANGED <<logVars, sub, cli, prune, losses>>

EndPass ==
    /\ prune.deleting
    /\ prune' = [prune EXCEPT !.deleting = FALSE, !.due = FALSE, !.mark = prune.next]
    /\ UNCHANGED <<logVars, sub, cli, gone, losses>>

Handshake(c) ==
    \/ Resume(c) \/ StartAfresh(c) \/ CheckBoundary(c) \/ PreferSnapshot(c)
    \/ ReadReplay(c) \/ CheckBoundaryAgain(c) \/ LoadSnapshot(c) \/ OpenStream(c)
    \/ SubscribeChannel(c) \/ ReadLatest(c) \/ BeginCatchUp(c)

Deliver(c) ==
    \/ ReadPage(c) \/ PullPage(c) \/ PullLive(c) \/ FlushWindow(c) \/ SendOutput(c)

ClientStep(c) ==
    \/ Handshake(c) \/ Drain(c) \/ Deliver(c) \/ Receive(c)
    \/ LoadOverHttp(c) \/ SeeFailure(c) \/ Disconnect(c)

Maintenance == MarkAges \/ BeginPass \/ DeleteEvent \/ EndPass

StreamNext ==
    \/ \E c \in Client : ClientStep(c)
    \/ Write \/ AnnounceBatch \/ Crash \/ Maintenance

StreamSpec == Init /\ [][StreamNext]_vars

(* Fibers that can run are run, the socket delivers while it is open, and  *)
(* a client subscribes again after a failure.                              *)
FairStream ==
    /\ StreamSpec
    /\ WF_vars(AnnounceBatch)
    /\ \A c \in Client :
        /\ WF_vars(Handshake(c)) /\ WF_vars(Drain(c)) /\ WF_vars(Deliver(c))
        /\ WF_vars(FlushWindow(c)) /\ WF_vars(Receive(c)) /\ WF_vars(SeeFailure(c))

-----------------------------------------------------------------------------
(* The data shows event i, or a later state of the entity it updated. *)
Reflected(c, i) ==
    \/ i \in cli[c].known
    \/ \E j \in cli[c].known : j > i /\ log[i].key # NoKey /\ log[j].key = log[i].key

(* Still to come: a later state of the entity lies beyond the cursor. *)
Upcoming(c, i) == \E j \in EventsOfThread(Watches[c]) :
    j > cli[c].cursor /\ log[i].key # NoKey /\ log[j].key = log[i].key

(* A client that resumes with its cursor never misses an event: whatever   *)
(* mix of snapshot, replay, catch-up pages, live events, coalescing,       *)
(* overflows, reconnects, restarts and pruning got it to its cursor, every *)
(* event of its thread up to the cursor is in its data, or was replaced by *)
(* an update that the cursor has yet to pass.                              *)
NothingSkipped ==
    /\ TypeOK
    /\ \A c \in Client : cli[c].hasData =>
        \A i \in EventsOfThread(Watches[c]) :
            i <= cli[c].cursor => Reflected(c, i) \/ Upcoming(c, i)

(* Comment of coalesceLiveUpdatedEvents: "Both entity families use         *)
(* insertion order", so coalescing must not let an entity overtake one of  *)
(* its family that came first: whoever shows the later one has shown the   *)
(* earlier one before.                                                     *)
EntitiesInOrder == \A c \in Client : \A j \in cli[c].known :
    \A i \in EventsOfThread(Watches[c]) :
        /\ i < j /\ log[i].key # NoKey /\ log[j].key # NoKey
        /\ FamilyOf[log[i].key] = FamilyOf[log[j].key]
        => \E k \in cli[c].known : k <= j /\ log[k].key = log[i].key

(* No snapshot or event takes a client that keeps its cache back in time. *)
NoStepBack == [][\A c \in Client :
    cli[c].hasData /\ cli'[c].hasData => cli[c].cursor <= cli'[c].cursor]_vars

(* Once the writers pause and connections last, a client with a thread to  *)
(* follow shows all of it: no live event is lost between the catch-up and  *)
(* the live tail, and an overflowing buffer does not starve it.            *)
UpToDate(c) == \A i \in EventsOfThread(Watches[c]) :
    cli[c].hasData /\ Reflected(c, i)

CatchesUp == \A c \in Client : <>[]UpToDate(c)
=============================================================================
