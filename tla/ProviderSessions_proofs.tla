------------------------ MODULE ProviderSessions_proofs ------------------------
(***************************************************************************)
(* Proofs about ProviderSessions for any threads and any bounds.            *)
(*                                                                         *)
(* The lock of openings makes a runtime that is being opened one thread's   *)
(* alone; a runtime that is live has not been released; and what the pump   *)
(* has been told of a turn is the end of that turn.  From these follows     *)
(* which turns are busy, and from that whom a release may cut off.          *)
(***************************************************************************)
EXTENDS ProviderSessions, TLAPS

(* TypeOK in the parts that steps disturb. *)
EntryTypes ==
    /\ live \in 0 .. MaxRuntimes
    /\ attached \subseteq Thread /\ busy \subseteq TurnKey /\ pins \in 0 .. MaxPins
    /\ live = 0 => attached = {} /\ busy = {} /\ pins = 0

ProcTypes == proc \in [Runtime -> {"none", "up", "down"}]

TimerTypes ==
    timer \in [Runtime -> [st : {"off", "asleep", "probing"}, on : 0 .. MaxRuntimes]]

RelTypes ==
    rel \in [Runtime ->
            [st : {"none", "tasks", "records", "retry", "done"},
             cause : {"idle", "any"} \cup Thread, threads : SUBSET Thread]]

Places == {"idle", "again", "opening", "publishing", "aborting", "joining", "ready",
           "starting", "running", "ended"}

OpTypes == op \in [Thread -> [pc : Places, rt : 0 .. MaxRuntimes, ord : 0 .. MaxStarts]]

EventTypes ==
    /\ told \subseteq Runtime \X Thread \X (1 .. MaxStarts)
    /\ req \in [st : {"none", "ingesting", "pending", "over"},
               rt : 0 .. MaxRuntimes, by : {"any"} \cup Thread]
    /\ pump \in [Runtime -> {"off", "on", "failed"}]

RestTypes ==
    /\ owner \in {"any"} \cup Thread
    /\ rec \in {"none", "ready", "stopped"}
    /\ starts \in 0 .. MaxStarts /\ upsets \in 0 .. MaxUpsets

LEMMA TypeParts ==
    TypeOK <=> /\ EntryTypes /\ ProcTypes /\ TimerTypes /\ RelTypes
               /\ OpTypes /\ EventTypes /\ RestTypes
BY DEF TypeOK, EntryTypes, ProcTypes, TimerTypes, RelTypes, OpTypes, EventTypes,
       RestTypes, Places

LEMMA TypePartsNext ==
    TypeOK' <=> /\ EntryTypes' /\ ProcTypes' /\ TimerTypes' /\ RelTypes'
                /\ OpTypes' /\ EventTypes' /\ RestTypes'
BY DEF TypeOK, EntryTypes, ProcTypes, TimerTypes, RelTypes, OpTypes, EventTypes,
       RestTypes, Places

-----------------------------------------------------------------------------
Opening(t) == op[t].pc \in {"opening", "publishing", "aborting", "joining"}

OneOpening == \A t, u \in Thread : Opening(t) /\ Opening(u) => t = u

(* A thread that has begun to open is on a runtime that has a process, or  *)
(* had one.                                                                *)
TurnsPlaced == \A t \in Thread :
    /\ op[t].rt # 0 => proc[op[t].rt] # "none"
    /\ op[t].pc \notin {"idle", "again"} => op[t].rt # 0
    /\ op[t].pc # "idle" => op[t].ord # 0

OpeningIsFresh == \A t \in Thread : op[t].pc = "opening" =>
    /\ live = 0
    /\ rel[op[t].rt].st = "none"
    /\ \A u \in Thread : op[u].rt = op[t].rt => u = t

LiveIsUnreleased ==
    /\ live # 0 => proc[live] # "none" /\ rel[live].st = "none"
    /\ \A r \in Runtime : proc[r] = "none" => rel[r].st = "none"

(* What waits for the pump is the end of a turn that is over.              *)
ToldHasEnded == \A r \in Runtime, t \in Thread, o \in 1 .. MaxStarts :
    <<r, t, o>> \in told /\ op[t].pc \notin {"idle", "again"} /\ op[t].ord = o =>
        op[t].pc = "ended" /\ op[t].rt = r

(* BusyIsExact, turn by turn. *)
OnLive(t) == live # 0 /\ op[t].rt = live /\ op[t].pc \in {"starting", "running", "ended"}

BusyTurns ==
    /\ \A t \in Thread, o \in 1 .. MaxStarts :
        <<t, o>> \in busy <=> OnLive(t) /\ op[t].ord = o
    /\ \A t \in Thread : OnLive(t) /\ op[t].pc = "ended" => <<live, t, op[t].ord>> \in told

ProcessOwned == \A r \in Runtime : proc[r] = "up" =>
    \/ live = r
    \/ rel[r].st = "tasks"
    \/ \E t \in Thread : op[t].pc = "opening" /\ op[t].rt = r

Shape ==
    /\ OneOpening
    /\ TurnsPlaced
    /\ OpeningIsFresh
    /\ LiveIsUnreleased
    /\ ToldHasEnded
    /\ BusyTurns
    /\ ProcessOwned

IInv == TypeOK /\ Shape

LEMMA Bounds ==
    /\ MaxRuntimes \in Nat /\ MaxStarts \in Nat /\ MaxUpsets \in Nat /\ MaxPins \in Nat
    /\ "idle" \notin Thread /\ "any" \notin Thread
BY SessionAssumption DEF SessionAssumption

-----------------------------------------------------------------------------
(* What the operators that actions share do. *)

LEMMA MovesFacts ==
    ASSUME OpTypes, NEW t \in Thread, NEW pc \in Places, Moves(t, pc)
    PROVE  /\ OpTypes'
           /\ op'[t].pc = pc /\ op'[t].rt = op[t].rt /\ op'[t].ord = op[t].ord
           /\ \A u \in Thread : u # t => op'[u] = op[u]
BY DEF OpTypes, Moves

LEMMA LeavesFacts ==
    ASSUME OpTypes, NEW t \in Thread, NEW pc \in {"idle", "again"}, Leaves(t, pc)
    PROVE  /\ OpTypes'
           /\ op'[t].pc = pc /\ op'[t].rt = 0
           /\ op'[t].ord = IF pc = "again" THEN op[t].ord ELSE 0
           /\ \A u \in Thread : u # t => op'[u] = op[u]
BY Bounds DEF OpTypes, Leaves, Places

LEMMA OpensFacts ==
    ASSUME OpTypes, RestTypes, TurnsPlaced, NEW t \in Thread, NEW r \in Runtime,
           NEW pc \in Places, Opens(t, r, pc)
    PROVE  /\ OpTypes' /\ starts' \in 0 .. MaxStarts
           /\ op'[t].pc = pc /\ op'[t].rt = r /\ op'[t].ord \in 1 .. MaxStarts
           /\ \A q \in Runtime : <<q, t, op'[t].ord>> \notin told
           /\ \A u \in Thread : u # t => op'[u] = op[u]
BY Bounds DEF OpTypes, RestTypes, TurnsPlaced, Opens, Places, Runtime

LEMMA ScheduleFacts ==
    ASSUME EntryTypes, TimerTypes,
           NEW a \in SUBSET Thread, NEW b \in SUBSET TurnKey, NEW p \in 0 .. MaxPins,
           live = 0 => a = {} /\ b = {} /\ p = 0,
           Schedule(a, b, p)
    PROVE  EntryTypes' /\ TimerTypes' /\ live' = live /\ busy' = b
BY Bounds DEF EntryTypes, TimerTypes, Schedule, Runtime

LEMMA TimerOffFacts ==
    ASSUME TimerTypes, NEW r \in Runtime, timer' = TimerOff(r) PROVE TimerTypes'
BY Bounds DEF TimerTypes, TimerOff, Runtime

LEMMA RemoveFacts ==
    ASSUME EntryTypes, RelTypes, NEW c \in {"idle", "any"} \cup Thread,
           NEW ts \in SUBSET Thread, RemoveLeaving(c, ts)
    PROVE  /\ EntryTypes' /\ RelTypes'
           /\ live \in Runtime /\ live' = 0 /\ busy' = {}
           /\ rel'[live].st = "tasks" /\ rel'[live].cause = c
           /\ \A r \in Runtime : r # live => rel'[r] = rel[r]
BY Bounds DEF EntryTypes, RelTypes, RemoveLeaving, Runtime

-----------------------------------------------------------------------------
(* Steps that no turn notices: those of timers, of the pump between events, *)
(* of records, and the end of a process that nobody needs to own.          *)
LEMMA QuietStep ==
    ASSUME TypeOK, Shape, UNCHANGED <<op, live, busy, told>>,
           \A r \in Runtime : rel'[r].st = "none" <=> rel[r].st = "none",
           \A r \in Runtime : proc'[r] = "none" <=> proc[r] = "none",
           \A r \in Runtime : proc'[r] = "up" =>
                proc[r] = "up" /\ (rel[r].st = "tasks" => rel'[r].st = "tasks")
    PROVE  Shape'
<1>1. live \in 0 .. MaxRuntimes /\ \A t \in Thread : op[t].rt \in 0 .. MaxRuntimes
  BY DEF TypeOK
<1>2. OneOpening' /\ ToldHasEnded' /\ BusyTurns'
  BY DEF Shape, OneOpening, Opening, ToldHasEnded, BusyTurns, OnLive
<1>3. TurnsPlaced' /\ OpeningIsFresh'
  BY <1>1, Bounds DEF Shape, TurnsPlaced, OpeningIsFresh, Runtime
<1>4. LiveIsUnreleased' /\ ProcessOwned'
  BY <1>1, Bounds DEF Shape, LiveIsUnreleased, ProcessOwned, Runtime
<1> QED
  BY <1>2, <1>3, <1>4 DEF Shape

(* The removal of the entry. *)
LEMMA RemovalStep ==
    ASSUME TypeOK, Shape, UNCHANGED <<op, proc>>, told' \subseteq told,
           live' = 0, busy' = {}, live # 0,
           rel'[live].st = "tasks",
           \A r \in Runtime : r # live => rel'[r] = rel[r]
    PROVE  Shape'
<1>1. live \in 0 .. MaxRuntimes /\ \A t \in Thread : op[t].rt \in 0 .. MaxRuntimes
  BY DEF TypeOK
<1>2. OneOpening' /\ ToldHasEnded' /\ BusyTurns'
  BY DEF Shape, OneOpening, Opening, ToldHasEnded, BusyTurns, OnLive
<1>3. TurnsPlaced' /\ OpeningIsFresh'
  BY <1>1, Bounds DEF Shape, TurnsPlaced, OpeningIsFresh, Runtime
<1>4. LiveIsUnreleased' /\ ProcessOwned'
  BY <1>1, Bounds DEF Shape, LiveIsUnreleased, ProcessOwned, Runtime
<1> QED
  BY <1>2, <1>3, <1>4 DEF Shape

LEMMA InitInv == Init => IInv
BY Bounds DEF Init, IInv, Shape, TypeOK, OneOpening, Opening, TurnsPlaced, OpeningIsFresh,
       LiveIsUnreleased, ToldHasEnded, BusyTurns, OnLive, ProcessOwned, Runtime

-----------------------------------------------------------------------------
(* Openings. *)

LEMMA OpenFreshInv ==
    ASSUME IInv, NEW t \in Thread, OpenFresh(t) PROVE IInv'
<1> USE DEF IInv
<1>1. PICK r \in Runtime :
        /\ proc[r] = "none" /\ Opens(t, r, "opening")
        /\ proc' = [proc EXCEPT ![r] = "up"]
  BY DEF OpenFresh
<1>2. /\ OpTypes' /\ starts' \in 0 .. MaxStarts
      /\ op'[t].pc = "opening" /\ op'[t].rt = r /\ op'[t].ord \in 1 .. MaxStarts
      /\ \A q \in Runtime : <<q, t, op'[t].ord>> \notin told
      /\ \A u \in Thread : u # t => op'[u] = op[u]
  BY <1>1, TypeParts, OpensFacts DEF Shape, Places
<1>3. UNCHANGED <<entryVars, timer, rel, told, req, pump, rec, upsets, owner>>
      /\ live = 0 /\ \A u \in Thread : ~Opening(u)
  BY DEF OpenFresh, MayOpen, LockIsFree, Opening
<1>4. TypeOK'
  BY <1>1, <1>2, <1>3, TypeParts, TypePartsNext DEF EntryTypes, ProcTypes, TimerTypes, RelTypes,
     EventTypes, RestTypes, entryVars
<1>5. /\ proc'[r] = "up" /\ \A q \in Runtime : q # r => proc'[q] = proc[q]
      /\ r # 0 /\ \A u \in Thread : op[u].rt # 0 => op[u].rt \in Runtime
  BY <1>1, TypeParts, Bounds DEF OpTypes, ProcTypes, Runtime
<1>6. \A u \in Thread : op[u].rt # r
  BY <1>1, <1>5 DEF Shape, TurnsPlaced
<1>7. OneOpening' /\ TurnsPlaced'
  BY <1>1, <1>2, <1>3, <1>5, <1>6, Bounds DEF Shape, OneOpening, Opening, TurnsPlaced
<1>8. OpeningIsFresh'
  BY <1>1, <1>2, <1>3, <1>6 DEF Shape, Opening, OpeningIsFresh, LiveIsUnreleased, entryVars
<1>9. LiveIsUnreleased' /\ ProcessOwned'
  BY <1>1, <1>2, <1>3, Bounds, TypeParts
     DEF OpTypes, ProcTypes, Shape, Opening, LiveIsUnreleased, ProcessOwned, entryVars, Runtime
<1>10. ToldHasEnded' /\ BusyTurns'
  <2>1. ToldHasEnded'
    BY <1>2, <1>3, TypeParts DEF OpTypes, Shape, ToldHasEnded
  <2>2. BusyTurns'
    BY <1>2, <1>3, Bounds, TypeParts DEF OpTypes, Shape, BusyTurns, OnLive, entryVars
  <2> QED
    BY <2>1, <2>2
<1> QED
  BY <1>4, <1>7, <1>8, <1>9, <1>10 DEF Shape

LEMMA OpenFailsInv ==
    ASSUME IInv, NEW t \in Thread, OpenFails(t) PROVE IInv'
<1> USE DEF IInv
<1> DEFINE r == op[t].rt
<1>1. /\ OpTypes' /\ op'[t].pc = "again" /\ op'[t].rt = 0 /\ op'[t].ord = op[t].ord
      /\ \A u \in Thread : u # t => op'[u] = op[u]
  BY TypeParts, LeavesFacts DEF OpenFails
<1>2. /\ op[t].pc = "opening" /\ r \in Runtime /\ proc' = [proc EXCEPT ![r] = "down"]
      /\ UNCHANGED <<entryVars, timer, rel, told, req, pump, rec, countVars, owner>>
  BY TypeParts, Bounds DEF OpenFails, OpTypes, Shape, TurnsPlaced, Runtime
<1>3. /\ proc'[r] = "down" /\ \A q \in Runtime : q # r => proc'[q] = proc[q]
      /\ \A u \in Thread : op[u].rt # 0 => op[u].rt \in Runtime
  BY <1>2, TypeParts, Bounds DEF OpTypes, ProcTypes, Runtime
<1>4. TypeOK'
  BY <1>1, <1>2, TypeParts, TypePartsNext DEF EntryTypes, ProcTypes, TimerTypes, RelTypes,
     EventTypes, RestTypes, entryVars, countVars
<1>5. OneOpening' /\ TurnsPlaced' /\ OpeningIsFresh'
  BY <1>1, <1>2, <1>3 DEF Shape, OneOpening, Opening, TurnsPlaced, OpeningIsFresh, entryVars
<1>6. LiveIsUnreleased' /\ ProcessOwned'
  BY <1>1, <1>2, TypeParts DEF OpTypes, ProcTypes, Shape, LiveIsUnreleased, ProcessOwned,
     OpeningIsFresh, entryVars
<1>7. ToldHasEnded' /\ BusyTurns'
  BY <1>1, <1>2 DEF Shape, ToldHasEnded, BusyTurns, OnLive, entryVars
<1> QED
  BY <1>4, <1>5, <1>6, <1>7 DEF Shape

LEMMA OpenSucceedsInv ==
    ASSUME IInv, NEW t \in Thread, OpenSucceeds(t) PROVE IInv'
<1> USE DEF IInv
<1> DEFINE r == op[t].rt
<1>1. /\ OpTypes' /\ op'[t].pc = "publishing" /\ op'[t].rt = r /\ op'[t].ord = op[t].ord
      /\ \A u \in Thread : u # t => op'[u] = op[u]
  BY TypeParts, MovesFacts DEF OpenSucceeds, Places
<1>2. /\ op[t].pc = "opening" /\ r \in Runtime /\ live = 0 /\ rel[r].st = "none"
      /\ \A u \in Thread : op[u].rt = r => u = t
      /\ live' = r /\ attached' = {t} /\ busy' = {} /\ pins' = 0
      /\ UNCHANGED <<proc, timer, rel, told, req, pump, rec, countVars, owner>>
  BY Bounds DEF OpenSucceeds, TypeOK, Shape, TurnsPlaced, OpeningIsFresh, Runtime
<1>3. TypeOK'
  <2>1. EntryTypes'
    BY <1>2, Bounds, TypeParts DEF EntryTypes, Runtime
  <2>2. ProcTypes' /\ TimerTypes' /\ RelTypes' /\ EventTypes' /\ RestTypes'
    BY <1>2, TypeParts DEF ProcTypes, TimerTypes, RelTypes, EventTypes, RestTypes, countVars
  <2> QED
    BY <1>1, <2>1, <2>2, TypePartsNext
<1>4. OneOpening' /\ TurnsPlaced' /\ OpeningIsFresh'
  BY <1>1, <1>2, TypeParts DEF OpTypes, ProcTypes, Shape, OneOpening, Opening, TurnsPlaced,
     OpeningIsFresh
<1>5. LiveIsUnreleased' /\ ProcessOwned'
  BY <1>1, <1>2, Bounds DEF Shape, LiveIsUnreleased, TurnsPlaced, ProcessOwned, Runtime
<1>6. ToldHasEnded' /\ BusyTurns'
  <2>1. ToldHasEnded'
    BY <1>1, <1>2, TypeParts DEF OpTypes, Shape, ToldHasEnded
  <2>2. BusyTurns'
    BY <1>1, <1>2, TypeParts DEF OpTypes, Shape, BusyTurns, OnLive
  <2> QED
    BY <2>1, <2>2
<1> QED
  BY <1>3, <1>4, <1>5, <1>6 DEF Shape

(* The steps of a thread that leave the entry's turns and releases alone.  *)
LEMMA PlainStep ==
    ASSUME TypeOK, Shape, NEW t \in Thread, OpTypes',
           UNCHANGED <<live, busy, told, rel, proc>>,
           op[t].pc # "opening" /\ op'[t].pc # "opening",
           op'[t].rt \in {0, op[t].rt},
           op'[t].pc \notin {"idle", "again"} => op[t].pc \notin {"idle", "again"}
                /\ op'[t].rt = op[t].rt /\ op'[t].ord = op[t].ord,
           op'[t].pc # "idle" => op'[t].ord # 0,
           op'[t].pc = "ended" <=> op[t].pc = "ended",
           OnLive(t)' <=> OnLive(t),
           Opening(t)' => Opening(t),
           \A u \in Thread : u # t => op'[u] = op[u]
    PROVE  Shape'
<1>1. OneOpening' /\ TurnsPlaced' /\ OpeningIsFresh'
  <2>1. OneOpening'
    BY TypeParts DEF OpTypes, Shape, OneOpening, Opening
  <2>2. TurnsPlaced'
    BY TypeParts DEF OpTypes, Shape, TurnsPlaced
  <2>3. OpeningIsFresh'
    <3> SUFFICES ASSUME NEW v \in Thread, op'[v].pc = "opening"
                 PROVE  /\ live' = 0 /\ rel'[op'[v].rt].st = "none"
                        /\ \A u \in Thread : op'[u].rt = op'[v].rt => u = v
      BY DEF OpeningIsFresh
    <3>1. v # t /\ op'[v] = op[v] /\ op[v].rt # 0
      BY DEF Shape, TurnsPlaced
    <3>2. /\ live = 0 /\ rel[op[v].rt].st = "none"
          /\ \A u \in Thread : op[u].rt = op[v].rt => u = v
      BY <3>1 DEF Shape, OpeningIsFresh
    <3>3. ASSUME NEW u \in Thread, op'[u].rt = op'[v].rt PROVE op[u].rt = op[v].rt
      BY <3>1, <3>3
    <3> QED
      BY <3>1, <3>2, <3>3
  <2> QED
    BY <2>1, <2>2, <2>3
<1>2. LiveIsUnreleased' /\ ProcessOwned'
  BY DEF Shape, LiveIsUnreleased, ProcessOwned
<1>3. ToldHasEnded' /\ BusyTurns'
  <2>1. ToldHasEnded'
    BY TypeParts DEF OpTypes, Shape, ToldHasEnded
  <2>2. BusyTurns'
    BY TypeParts DEF OpTypes, Shape, BusyTurns, OnLive
  <2> QED
    BY <2>1, <2>2
<1> QED
  BY <1>1, <1>2, <1>3 DEF Shape

LEMMA PublishInv ==
    ASSUME IInv, NEW t \in Thread, Publish(t) PROVE IInv'
<1> USE DEF IInv
<1>1. /\ OpTypes' /\ op'[t].pc = "ready" /\ op'[t].rt = op[t].rt /\ op'[t].ord = op[t].ord
      /\ \A u \in Thread : u # t => op'[u] = op[u]
  BY TypeParts, MovesFacts DEF Publish, Places
<1>2. EntryTypes' /\ TimerTypes' /\ live' = live /\ busy' = busy
  BY TypeParts, ScheduleFacts DEF Publish, Touch, EntryTypes
<1>3. TypeOK'
  BY <1>1, <1>2, TypeParts, TypePartsNext, Bounds DEF Publish, ProcTypes, RelTypes,
     EventTypes, RestTypes,
     countVars
<1>4. Shape'
  BY <1>1, <1>2, PlainStep DEF Publish, OnLive, Opening, Shape, TurnsPlaced
<1> QED
  BY <1>3, <1>4

LEMMA PublishFailsInv ==
    ASSUME IInv, NEW t \in Thread, PublishFails(t) PROVE IInv'
<1> USE DEF IInv
<1>1. CASE live = 0
  <2>1. /\ OpTypes' /\ op'[t].pc = "again" /\ op'[t].rt = 0 /\ op'[t].ord = op[t].ord
        /\ \A u \in Thread : u # t => op'[u] = op[u]
    BY <1>1, TypeParts, LeavesFacts DEF PublishFails
  <2>2. TypeOK'
    BY <1>1, <2>1, TypeParts, TypePartsNext, Bounds DEF PublishFails, Upset, EntryTypes,
       ProcTypes, TimerTypes,
       RelTypes, EventTypes, RestTypes, entryVars
  <2>3. Shape'
    BY <1>1, <2>1, PlainStep DEF PublishFails, OnLive, Opening, Shape, TurnsPlaced, entryVars
  <2> QED
    BY <2>2, <2>3
<1>2. CASE live # 0
  <2>1. /\ OpTypes' /\ op'[t].pc = "aborting" /\ op'[t].rt = op[t].rt
        /\ op'[t].ord = op[t].ord
        /\ \A u \in Thread : u # t => op'[u] = op[u]
    BY <1>2, TypeParts, MovesFacts DEF PublishFails, Places
  <2>2. /\ EntryTypes' /\ RelTypes' /\ live \in Runtime /\ live' = 0 /\ busy' = {}
        /\ rel'[live].st = "tasks" /\ \A r \in Runtime : r # live => rel'[r] = rel[r]
    BY <1>2, TypeParts, RemoveFacts DEF PublishFails, Remove, EntryTypes
  <2>3. TypeOK'
    BY <2>1, <2>2, TypeParts, TypePartsNext, Bounds DEF PublishFails, Upset, ProcTypes, TimerTypes,
       EventTypes, RestTypes
  <2>4. op[t].pc = "publishing" /\ UNCHANGED <<proc, told>>
    BY DEF PublishFails
  <2>5. OneOpening' /\ TurnsPlaced' /\ OpeningIsFresh'
    BY <1>2, <2>1, <2>2, <2>4 DEF Shape, OneOpening, Opening, TurnsPlaced, OpeningIsFresh
  <2>6. LiveIsUnreleased' /\ ProcessOwned'
    BY <1>2, <2>1, <2>2, <2>4 DEF Shape, LiveIsUnreleased, ProcessOwned, OpeningIsFresh
  <2>7. ToldHasEnded' /\ BusyTurns'
    BY <2>1, <2>2, <2>4 DEF Shape, ToldHasEnded, BusyTurns, OnLive
  <2> QED
    BY <2>3, <2>5, <2>6, <2>7 DEF Shape
<1> QED
  BY <1>1, <1>2

LEMMA AbortEndsInv ==
    ASSUME IInv, NEW t \in Thread, AbortEnds(t) PROVE IInv'
<1> USE DEF IInv
<1>1. /\ OpTypes' /\ op'[t].pc = "again" /\ op'[t].rt = 0 /\ op'[t].ord = op[t].ord
      /\ \A u \in Thread : u # t => op'[u] = op[u]
  BY TypeParts, LeavesFacts DEF AbortEnds
<1>2. TypeOK'
  BY <1>1, TypeParts, TypePartsNext DEF AbortEnds, EntryTypes, ProcTypes, TimerTypes, RelTypes,
     EventTypes, RestTypes, entryVars, countVars
<1>3. Shape'
  BY <1>1, PlainStep DEF AbortEnds, OnLive, Opening, Shape, TurnsPlaced, entryVars
<1> QED
  BY <1>2, <1>3

LEMMA OpenLiveInv ==
    ASSUME IInv, NEW t \in Thread, OpenLive(t) PROVE IInv'
<1> USE DEF IInv
<1>1. PICK pc \in {"ready", "joining"} : Opens(t, live, pc)
  BY DEF OpenLive
<1>2. /\ live \in Runtime /\ op[t].pc \in {"idle", "again"} /\ \A u \in Thread : ~Opening(u)
      /\ UNCHANGED <<owner, proc, rel, told, req, pump, rec, upsets>>
  BY Bounds DEF OpenLive, MayOpen, LockIsFree, Opening, TypeOK, Runtime
<1>3. /\ OpTypes' /\ starts' \in 0 .. MaxStarts
      /\ op'[t].pc = pc /\ op'[t].rt = live /\ op'[t].ord \in 1 .. MaxStarts
      /\ \A q \in Runtime : <<q, t, op'[t].ord>> \notin told
      /\ \A u \in Thread : u # t => op'[u] = op[u]
  BY <1>1, <1>2, TypeParts, OpensFacts DEF Shape, Places
<1>4. EntryTypes' /\ TimerTypes' /\ live' = live /\ busy' = busy
  <2>1. CASE Touch
    BY <2>1, TypeParts, ScheduleFacts DEF Touch, EntryTypes
  <2>2. CASE attached' = attached \cup {t} /\ UNCHANGED <<live, busy, pins, timer>>
    BY <1>2, <2>2, TypeParts, Bounds DEF EntryTypes, TimerTypes, Runtime
  <2> QED
    BY <2>1, <2>2 DEF OpenLive
<1>5. TypeOK'
  BY <1>2, <1>3, <1>4, TypeParts, TypePartsNext DEF ProcTypes, RelTypes, EventTypes, RestTypes
<1>6. OneOpening' /\ TurnsPlaced' /\ OpeningIsFresh'
  BY <1>2, <1>3, <1>4, Bounds DEF Shape, OneOpening, Opening, TurnsPlaced, OpeningIsFresh,
     LiveIsUnreleased, Runtime
<1>7. LiveIsUnreleased' /\ ProcessOwned'
  BY <1>2, <1>3, <1>4 DEF Shape, LiveIsUnreleased, ProcessOwned
<1>8. ToldHasEnded' /\ BusyTurns'
  BY <1>2, <1>3, <1>4 DEF Shape, ToldHasEnded, BusyTurns, OnLive
<1> QED
  BY <1>5, <1>6, <1>7, <1>8 DEF Shape

LEMMA JoinedInv ==
    ASSUME IInv, NEW t \in Thread, Joined(t) PROVE IInv'
<1> USE DEF IInv
<1>1. /\ OpTypes' /\ op'[t].pc = "ready" /\ op'[t].rt = op[t].rt /\ op'[t].ord = op[t].ord
      /\ \A u \in Thread : u # t => op'[u] = op[u]
  BY TypeParts, MovesFacts DEF Joined, Places
<1>2. EntryTypes' /\ TimerTypes' /\ live' = live /\ busy' = busy
  BY TypeParts, ScheduleFacts DEF Joined, Touch, EntryTypes
<1>3. TypeOK'
  BY <1>1, <1>2, TypeParts, TypePartsNext DEF Joined, ProcTypes, RelTypes, EventTypes,
     RestTypes, countVars
<1>4. Shape'
  BY <1>1, <1>2, PlainStep DEF Joined, OnLive, Opening, Shape, TurnsPlaced
<1> QED
  BY <1>3, <1>4

LEMMA JoinFailsInv ==
    ASSUME IInv, NEW t \in Thread, JoinFails(t) PROVE IInv'
<1> USE DEF IInv
<1>1. /\ OpTypes' /\ op'[t].pc = "again" /\ op'[t].rt = 0 /\ op'[t].ord = op[t].ord
      /\ \A u \in Thread : u # t => op'[u] = op[u]
  BY TypeParts, LeavesFacts DEF JoinFails
<1>2. TypeOK'
  BY <1>1, TypeParts, TypePartsNext, Bounds DEF JoinFails, Upset, EntryTypes, ProcTypes,
     TimerTypes, RelTypes,
     EventTypes, RestTypes
<1>3. Shape'
  BY <1>1, PlainStep DEF JoinFails, OnLive, Opening, Shape, TurnsPlaced
<1> QED
  BY <1>2, <1>3

-----------------------------------------------------------------------------
(* Turns. *)

LEMMA BeginTurnInv ==
    ASSUME IInv, NEW t \in Thread, BeginTurn(t) PROVE IInv'
<1> USE DEF IInv
<1>1. /\ op[t].pc = "ready" /\ op[t].rt \in Runtime /\ op[t].ord \in 1 .. MaxStarts
      /\ UNCHANGED <<owner, live, proc, rel, told, req, pump, countVars>>
  BY TypeParts, Bounds DEF BeginTurn, OpTypes, Shape, TurnsPlaced, Runtime
<1>2. attached' \in SUBSET Thread /\ (live = 0 => attached' = attached)
      /\ rec' \in {"none", "ready", "stopped"}
  BY TypeParts DEF BeginTurn, EntryTypes, RestTypes
<1>3. CASE live = op[t].rt
  <2>1. /\ OpTypes' /\ op'[t].pc = "starting" /\ op'[t].rt = op[t].rt
        /\ op'[t].ord = op[t].ord
        /\ \A u \in Thread : u # t => op'[u] = op[u]
    BY <1>3, TypeParts, MovesFacts DEF BeginTurn, Places
  <2>2. /\ busy' = busy \cup {<<t, op[t].ord>>} /\ pins' = 0
        /\ timer' = TimerOff(op[t].rt)
    BY <1>3 DEF BeginTurn
  <2>3. EntryTypes' /\ TimerTypes'
    BY <1>1, <1>2, <1>3, <2>2, TypeParts, TimerOffFacts, Bounds
       DEF EntryTypes, Runtime, TurnKey
  <2>4. TypeOK'
    BY <1>1, <1>2, <2>1, <2>3, TypeParts, TypePartsNext
       DEF ProcTypes, RelTypes, EventTypes, RestTypes, countVars
  <2>5. OneOpening' /\ TurnsPlaced' /\ OpeningIsFresh' /\ LiveIsUnreleased' /\ ProcessOwned'
    BY <1>1, <2>1 DEF Shape, OneOpening, Opening, TurnsPlaced, OpeningIsFresh,
       LiveIsUnreleased, ProcessOwned
  <2>6. ToldHasEnded' /\ BusyTurns'
    BY <1>1, <1>3, <2>1, <2>2, Bounds DEF Shape, ToldHasEnded, BusyTurns, OnLive, Runtime
  <2> QED
    BY <2>4, <2>5, <2>6 DEF Shape
<1>4. CASE live # op[t].rt
  <2>1. /\ OpTypes' /\ op'[t].pc = "again" /\ op'[t].rt = 0 /\ op'[t].ord = op[t].ord
        /\ \A u \in Thread : u # t => op'[u] = op[u]
    BY <1>4, TypeParts, LeavesFacts DEF BeginTurn
  <2>2. UNCHANGED <<busy, pins, timer>>
    BY <1>4 DEF BeginTurn
  <2>3. TypeOK'
    BY <1>1, <1>2, <2>1, <2>2, TypeParts, TypePartsNext
       DEF EntryTypes, ProcTypes, TimerTypes, RelTypes, EventTypes, RestTypes, countVars
  <2>4. Shape'
    BY <1>1, <2>1, <2>2, Bounds, PlainStep DEF OnLive, Opening
  <2> QED
    BY <2>3, <2>4
<1> QED
  BY <1>3, <1>4

LEMMA WithdrawInv ==
    ASSUME IInv, NEW t \in Thread, Withdraw(t) PROVE IInv'
<1> USE DEF IInv
<1>1. /\ OpTypes' /\ op'[t].pc = "idle" /\ op'[t].rt = 0
      /\ \A u \in Thread : u # t => op'[u] = op[u]
  BY TypeParts, LeavesFacts DEF Withdraw
<1>2. TypeOK'
  BY <1>1, TypeParts, TypePartsNext DEF Withdraw, EntryTypes, ProcTypes, TimerTypes, RelTypes,
     EventTypes, RestTypes, entryVars, countVars
<1>3. Shape'
  BY <1>1, PlainStep DEF Withdraw, OnLive, Opening, entryVars
<1> QED
  BY <1>2, <1>3

LEMMA StartSucceedsInv ==
    ASSUME IInv, NEW t \in Thread, StartSucceeds(t) PROVE IInv'
<1> USE DEF IInv
<1>1. /\ OpTypes' /\ op'[t].pc = "running" /\ op'[t].rt = op[t].rt /\ op'[t].ord = op[t].ord
      /\ \A u \in Thread : u # t => op'[u] = op[u]
  BY TypeParts, MovesFacts DEF StartSucceeds, Places
<1>2. TypeOK'
  BY <1>1, TypeParts, TypePartsNext DEF StartSucceeds, EntryTypes, ProcTypes, TimerTypes,
     RelTypes, EventTypes, RestTypes, entryVars, countVars
<1>3. Shape'
  BY <1>1, PlainStep DEF StartSucceeds, OnLive, Opening, Shape, TurnsPlaced, entryVars
<1> QED
  BY <1>2, <1>3

(* Only the thread's own turn leaves the busy ones, if it was among them.  *)
LEMMA StartFailsInv ==
    ASSUME IInv, NEW t \in Thread, StartFails(t) PROVE IInv'
<1> USE DEF IInv
<1>1. /\ OpTypes' /\ op'[t].pc = "again" /\ op'[t].rt = 0 /\ op'[t].ord = op[t].ord
      /\ \A u \in Thread : u # t => op'[u] = op[u]
  BY TypeParts, LeavesFacts DEF StartFails
<1>2. /\ EntryTypes' /\ TimerTypes' /\ live' = live
      /\ busy' = busy \ {<<t, op[t].ord>>}
  BY TypeParts, ScheduleFacts DEF StartFails, MarkIdle, EntryTypes
<1>3. TypeOK'
  BY <1>1, <1>2, TypeParts, TypePartsNext DEF StartFails, ProcTypes, RelTypes, EventTypes,
     RestTypes, countVars
<1>4. op[t].pc = "starting" /\ UNCHANGED <<proc, rel, told>>
  BY DEF StartFails
<1>5. OneOpening' /\ TurnsPlaced' /\ OpeningIsFresh' /\ LiveIsUnreleased' /\ ProcessOwned'
  BY <1>1, <1>2, <1>4 DEF Shape, OneOpening, Opening, TurnsPlaced, OpeningIsFresh,
     LiveIsUnreleased, ProcessOwned
<1>6. ToldHasEnded' /\ BusyTurns'
  BY <1>1, <1>2, <1>4 DEF Shape, ToldHasEnded, BusyTurns, OnLive
<1> QED
  BY <1>3, <1>5, <1>6 DEF Shape

LEMMA TurnEndsInv ==
    ASSUME IInv, NEW t \in Thread, TurnEnds(t) PROVE IInv'
<1> USE DEF IInv
<1>1. /\ OpTypes' /\ op'[t].pc = "ended" /\ op'[t].rt = op[t].rt /\ op'[t].ord = op[t].ord
      /\ \A u \in Thread : u # t => op'[u] = op[u]
  BY TypeParts, MovesFacts DEF TurnEnds, Places
<1>2. /\ op[t].pc = "running" /\ op[t].rt \in Runtime /\ op[t].ord \in 1 .. MaxStarts
      /\ told' = told \cup {<<op[t].rt, t, op[t].ord>>}
      /\ UNCHANGED <<owner, entryVars, proc, timer, rel, req, pump, rec, countVars>>
  BY TypeParts, Bounds DEF TurnEnds, OpTypes, Shape, TurnsPlaced, Runtime
<1>3. TypeOK'
  BY <1>1, <1>2, TypeParts, TypePartsNext DEF EntryTypes, ProcTypes, TimerTypes, RelTypes,
     EventTypes, RestTypes, entryVars, countVars
<1>4. OneOpening' /\ TurnsPlaced' /\ OpeningIsFresh' /\ LiveIsUnreleased' /\ ProcessOwned'
  BY <1>1, <1>2 DEF Shape, OneOpening, Opening, TurnsPlaced, OpeningIsFresh,
     LiveIsUnreleased, ProcessOwned, entryVars
<1>5. ToldHasEnded'
  BY <1>1, <1>2 DEF Shape, ToldHasEnded
<1>6. BusyTurns'
  BY <1>1, <1>2 DEF Shape, BusyTurns, OnLive, entryVars
<1> QED
  BY <1>3, <1>4, <1>5, <1>6 DEF Shape

(* A turn that lost its runtime is not on the live one. *)
LEMMA TurnLostInv ==
    ASSUME IInv, NEW t \in Thread, TurnLost(t) PROVE IInv'
<1> USE DEF IInv
<1>1. /\ OpTypes' /\ op'[t].pc = "idle" /\ op'[t].rt = 0
      /\ \A u \in Thread : u # t => op'[u] = op[u]
  BY TypeParts, LeavesFacts DEF TurnLost
<1>2. TypeOK'
  BY <1>1, TypeParts, TypePartsNext DEF TurnLost, EntryTypes, ProcTypes, TimerTypes, RelTypes,
     EventTypes, RestTypes, entryVars, countVars
<1>3. op[t].pc \in {"running", "ended"} /\ ~OnLive(t)
      /\ UNCHANGED <<live, busy, told, rel, proc>>
  BY DEF TurnLost, OnLive, Shape, LiveIsUnreleased, entryVars
<1>4. OneOpening' /\ TurnsPlaced' /\ OpeningIsFresh' /\ LiveIsUnreleased' /\ ProcessOwned'
  BY <1>1, <1>3 DEF Shape, OneOpening, Opening, TurnsPlaced, OpeningIsFresh,
     LiveIsUnreleased, ProcessOwned
<1>5. ToldHasEnded' /\ BusyTurns'
  BY <1>1, <1>3 DEF Shape, ToldHasEnded, BusyTurns, OnLive
<1> QED
  BY <1>2, <1>4, <1>5 DEF Shape

-----------------------------------------------------------------------------
(* The pump. *)

LEMMA PumpTerminalInv ==
    ASSUME IInv, NEW r \in Runtime, PumpTerminal(r) PROVE IInv'
<1> USE DEF IInv
<1> DEFINE mine(t, o) == op[t] = [pc |-> "ended", rt |-> r, ord |-> o]
<1>1. PICK t \in Thread, o \in 1 .. MaxStarts :
        /\ <<r, t, o>> \in told
        /\ told' = told \ {<<r, t, o>>}
        /\ MarkIdle(t, o)
        /\ IF mine(t, o) /\ rel[r].st \in {"none", "tasks"} THEN Leaves(t, "again")
           ELSE op' = op
  BY DEF PumpTerminal, TurnKey
<1>2. /\ EntryTypes' /\ TimerTypes' /\ live' = live
      /\ busy' = busy \ {<<t, o>>}
  BY <1>1, TypeParts, ScheduleFacts DEF MarkIdle, EntryTypes
<1>3. UNCHANGED <<owner, proc, rel, req, pump, rec, countVars>>
  BY DEF PumpTerminal
<1>4. OpTypes'
  BY <1>1, TypeParts, LeavesFacts DEF OpTypes
<1>5. TypeOK'
  BY <1>1, <1>2, <1>3, <1>4, TypeParts, TypePartsNext DEF ProcTypes, RelTypes, EventTypes,
     RestTypes, countVars
<1>6. mine(t, o) <=> op[t].pc = "ended" /\ op[t].rt = r /\ op[t].ord = o
  BY TypeParts DEF OpTypes
<1>7. CASE mine(t, o) /\ rel[r].st \in {"none", "tasks"}
  <2>1. /\ op'[t].pc = "again" /\ op'[t].rt = 0 /\ op'[t].ord = op[t].ord
        /\ \A u \in Thread : u # t => op'[u] = op[u]
    BY <1>1, <1>7, TypeParts, LeavesFacts
  <2>2. OneOpening' /\ TurnsPlaced' /\ OpeningIsFresh' /\ LiveIsUnreleased' /\ ProcessOwned'
    BY <1>2, <1>3, <1>6, <1>7, <2>1 DEF Shape, OneOpening, Opening, TurnsPlaced,
       OpeningIsFresh, LiveIsUnreleased, ProcessOwned
  <2>3. ToldHasEnded'
    BY <1>1, <2>1 DEF Shape, ToldHasEnded
  <2>4. BusyTurns'
    BY <1>1, <1>2, <1>6, <1>7, <2>1 DEF Shape, BusyTurns, OnLive
  <2> QED
    BY <1>5, <2>2, <2>3, <2>4 DEF Shape
<1>8. CASE ~(mine(t, o) /\ rel[r].st \in {"none", "tasks"})
  <2>1. op' = op
    BY <1>1, <1>8
  <2>2. ~(OnLive(t) /\ op[t].ord = o)
    BY <1>1, <1>6, <1>8 DEF Shape, OnLive, ToldHasEnded, LiveIsUnreleased
  <2>3. OneOpening' /\ TurnsPlaced' /\ OpeningIsFresh' /\ LiveIsUnreleased' /\ ProcessOwned'
    BY <1>2, <1>3, <2>1 DEF Shape, OneOpening, Opening, TurnsPlaced,
       OpeningIsFresh, LiveIsUnreleased, ProcessOwned
  <2>4. ToldHasEnded'
    BY <1>1, <2>1 DEF Shape, ToldHasEnded
  <2>5. BusyTurns'
    BY <1>1, <1>2, <2>1, <2>2 DEF Shape, BusyTurns, OnLive
  <2> QED
    BY <1>5, <2>3, <2>4, <2>5 DEF Shape
<1> QED
  BY <1>7, <1>8

LEMMA ActivityInv ==
    ASSUME IInv, NEW r \in Runtime, Activity(r) PROVE IInv'
<1> USE DEF IInv
<1>1. EntryTypes' /\ TimerTypes' /\ live' = live /\ busy' = busy
  <2>1. Schedule(attached, busy, 0) \/ Schedule(attached, busy, pins)
    BY DEF Activity, Touch
  <2> QED
    BY <2>1, TypeParts, ScheduleFacts, Bounds DEF EntryTypes
<1>2. TypeOK'
  BY <1>1, TypeParts, TypePartsNext, Bounds DEF Activity, Upset, ProcTypes, RelTypes, OpTypes,
     EventTypes, RestTypes
<1>3. Shape'
  BY <1>1, QuietStep DEF Activity
<1> QED
  BY <1>2, <1>3

LEMMA PumpRequestInv ==
    ASSUME IInv, NEW r \in Runtime, PumpRequest(r) PROVE IInv'
<1> USE DEF IInv
<1>1. EntryTypes' /\ TimerTypes' /\ live' = live /\ busy' = busy
  BY TypeParts, ScheduleFacts DEF PumpRequest, Touch, EntryTypes
<1>2. EventTypes'
  BY TypeParts, Bounds DEF PumpRequest, EntryTypes, EventTypes, Runtime
<1>3. TypeOK'
  BY <1>1, <1>2, TypeParts, TypePartsNext DEF PumpRequest, ProcTypes, RelTypes, OpTypes,
     RestTypes, countVars
<1>4. Shape'
  BY <1>1, QuietStep DEF PumpRequest
<1> QED
  BY <1>3, <1>4

LEMMA RequestStepsInv ==
    ASSUME IInv, Ingested \/ IngestFails \/ Answer PROVE IInv'
<1> USE DEF IInv
<1>1. EventTypes' /\ upsets' \in 0 .. MaxUpsets
  BY TypeParts, Bounds DEF Ingested, IngestFails, Answer, Upset, EventTypes, RestTypes,
     Runtime, countVars
<1>2. UNCHANGED <<owner, entryVars, proc, timer, rel, op, told, rec, starts>>
  BY DEF Ingested, IngestFails, Answer, countVars
<1>3. TypeOK'
  BY <1>1, <1>2, TypeParts, TypePartsNext DEF EntryTypes, ProcTypes, TimerTypes, RelTypes,
     OpTypes, RestTypes, entryVars
<1>4. Shape'
  BY <1>2, QuietStep DEF entryVars
<1> QED
  BY <1>3, <1>4

LEMMA ProviderDiesInv ==
    ASSUME IInv, NEW r \in Runtime, ProviderDies(r) PROVE IInv'
<1> USE DEF IInv
<1>1. TypeOK'
  BY TypeParts, TypePartsNext, Bounds DEF ProviderDies, Upset, EntryTypes, ProcTypes,
     TimerTypes, RelTypes, OpTypes, EventTypes, RestTypes, entryVars
<1>2. \A q \in Runtime : proc'[q] = proc[q] \/ (proc[q] = "up" /\ proc'[q] = "down")
  BY TypeParts DEF ProviderDies, ProcTypes
<1>3. Shape'
  BY <1>2, QuietStep DEF ProviderDies, entryVars
<1> QED
  BY <1>1, <1>3

LEMMA PumpEndsInv ==
    ASSUME IInv, NEW r \in Runtime, PumpEnds(r) PROVE IInv'
<1> USE DEF IInv
<1>1. /\ pump' = [pump EXCEPT ![r] = "off"]
      /\ told' = {x \in told : x[1] # r}
      /\ UNCHANGED <<owner, proc, timer, op, req, rec, countVars>>
  BY DEF PumpEnds
<1>2. EventTypes'
  BY <1>1, TypeParts DEF EventTypes
<1>3. CASE live = r
  <2>1. /\ EntryTypes' /\ RelTypes' /\ live \in Runtime /\ live' = 0 /\ busy' = {}
        /\ rel'[live].st = "tasks" /\ \A q \in Runtime : q # live => rel'[q] = rel[q]
    BY <1>3, TypeParts, RemoveFacts DEF PumpEnds, Remove, EntryTypes
  <2>2. TypeOK'
    BY <1>1, <1>2, <2>1, TypeParts, TypePartsNext DEF ProcTypes, TimerTypes, OpTypes,
       RestTypes, countVars
  <2>3. Shape'
    BY <1>1, <2>1, RemovalStep, Bounds DEF Runtime
  <2> QED
    BY <2>2, <2>3
<1>4. CASE live # r
  <2>1. UNCHANGED <<entryVars, rel>>
    BY <1>4 DEF PumpEnds
  <2>2. TypeOK'
    BY <1>1, <1>2, <2>1, TypeParts, TypePartsNext DEF EntryTypes, ProcTypes, TimerTypes,
       RelTypes, OpTypes, RestTypes, entryVars, countVars
  <2>3. OneOpening' /\ TurnsPlaced' /\ OpeningIsFresh' /\ LiveIsUnreleased' /\ ProcessOwned'
    BY <1>1, <2>1 DEF Shape, OneOpening, Opening, TurnsPlaced, OpeningIsFresh,
       LiveIsUnreleased, ProcessOwned, entryVars
  <2>4. ToldHasEnded' /\ BusyTurns'
    BY <1>1, <1>4, <2>1 DEF Shape, ToldHasEnded, BusyTurns, OnLive, entryVars
  <2> QED
    BY <2>2, <2>3, <2>4 DEF Shape
<1> QED
  BY <1>3, <1>4

-----------------------------------------------------------------------------
(* Timers and releases. *)

LEMMA TimerStepsInv ==
    ASSUME IInv, NEW r \in Runtime, TimerWakes(r) \/ StayPinned(r) PROVE IInv'
<1> USE DEF IInv
<1>1. TimerTypes'
  <2>1. \/ timer' = TimerOff(r)
        \/ timer' = [timer EXCEPT ![r] = [st |-> "probing", on |-> live]]
        \/ timer' = [timer EXCEPT ![r] = [st |-> "asleep", on |-> 0]]
    BY DEF TimerWakes, StayPinned, GivesUp
  <2> QED
    BY <2>1, TypeParts, TimerOffFacts, Bounds DEF TimerTypes, EntryTypes
<1>2. EntryTypes'
  <2>1. /\ UNCHANGED <<live, attached, busy>>
        /\ \/ pins' = pins
           \/ live # 0 /\ pins < MaxPins /\ pins' = pins + 1
    BY DEF TimerWakes, StayPinned, GivesUp, StillIdle, entryVars
  <2> QED
    BY <2>1, TypeParts, Bounds DEF EntryTypes
<1>3. UNCHANGED <<owner, live, busy, proc, rel, op, told, req, pump, rec, countVars>>
  BY DEF TimerWakes, StayPinned, GivesUp, entryVars
<1>4. TypeOK'
  BY <1>1, <1>2, <1>3, TypeParts, TypePartsNext DEF ProcTypes, RelTypes, OpTypes, EventTypes,
     RestTypes, countVars
<1>5. Shape'
  BY <1>3, QuietStep
<1> QED
  BY <1>4, <1>5

LEMMA ReleaseIdleInv ==
    ASSUME IInv, NEW r \in Runtime, ReleaseIdle(r) PROVE IInv'
<1> USE DEF IInv
<1>1. /\ TimerTypes'
      /\ UNCHANGED <<owner, proc, op, told, req, pump, rec, countVars>>
  BY TypeParts, TimerOffFacts DEF ReleaseIdle, GivesUp
<1>2. CASE Remove("idle")
  <2>1. /\ EntryTypes' /\ RelTypes' /\ live \in Runtime /\ live' = 0 /\ busy' = {}
        /\ rel'[live].st = "tasks" /\ \A q \in Runtime : q # live => rel'[q] = rel[q]
    BY <1>2, TypeParts, RemoveFacts DEF Remove, EntryTypes
  <2>2. TypeOK'
    BY <1>1, <2>1, TypeParts, TypePartsNext DEF ProcTypes, OpTypes, EventTypes, RestTypes,
       countVars
  <2>3. Shape'
    BY <1>1, <2>1, RemovalStep, Bounds DEF Runtime
  <2> QED
    BY <2>2, <2>3
<1>3. CASE GivesUp(r)
  <2>1. TypeOK'
    BY <1>1, <1>3, TypeParts, TypePartsNext DEF GivesUp, EntryTypes, ProcTypes, RelTypes,
       OpTypes, EventTypes, RestTypes, entryVars, countVars
  <2>2. Shape'
    BY <1>1, <1>3, QuietStep DEF GivesUp, entryVars
  <2> QED
    BY <2>1, <2>2
<1> QED
  BY <1>2, <1>3 DEF ReleaseIdle

LEMMA CloseScopeInv ==
    ASSUME IInv, NEW r \in Runtime, CloseScope(r) PROVE IInv'
<1> USE DEF IInv
<1>1. /\ rel[r].st = "tasks" /\ timer' = TimerOff(r)
      /\ UNCHANGED <<owner, entryVars, op, told, req, pump, rec, countVars>>
  BY DEF CloseScope
<1>2. /\ RelTypes' /\ rel'[r].st = "records"
      /\ \A q \in Runtime : q # r => rel'[q] = rel[q]
  BY TypeParts DEF CloseScope, RelTypes
<1>3. /\ ProcTypes' /\ proc'[r] = "down"
      /\ \A q \in Runtime : q # r => proc'[q] = proc[q]
  BY TypeParts DEF CloseScope, ProcTypes
<1>4. TypeOK'
  BY <1>1, <1>2, <1>3, TypeParts, TypePartsNext, TimerOffFacts
     DEF EntryTypes, OpTypes, EventTypes, RestTypes, entryVars, countVars
<1>5. proc[r] # "none"
  BY <1>1 DEF Shape, LiveIsUnreleased
<1>6. Shape'
  BY <1>1, <1>2, <1>3, <1>5, QuietStep DEF entryVars
<1> QED
  BY <1>4, <1>6

LEMMA RecordStepsInv ==
    ASSUME IInv, NEW r \in Runtime, RecordRelease(r) \/ RetryRecords(r) PROVE IInv'
<1> USE DEF IInv
<1>1. /\ rel[r].st \in {"records", "retry"}
      /\ UNCHANGED <<owner, entryVars, proc, timer, op, told, pump, starts>>
      /\ \E next \in {"retry", "done"} : rel' = [rel EXCEPT ![r].st = next]
  BY DEF RecordRelease, RetryRecords
<1>2. /\ rec' \in {"none", "ready", "stopped"} /\ upsets' \in 0 .. MaxUpsets
      /\ EventTypes'
  <2>1. PICK next \in {"retry", "done"}, row \in {rec, "stopped"} : WriteRecords(r, row, next)
    BY DEF RecordRelease, RetryRecords, StoppedRow
  <2>2. req' \in {req, [req EXCEPT !.st = "over"]}
    BY <2>1 DEF WriteRecords, Settled
  <2>3. rec' \in {rec, row} /\ (upsets' = upsets \/ Upset)
    BY <2>1 DEF WriteRecords
  <2> QED
    BY <1>1, <2>2, <2>3, TypeParts, Bounds DEF EventTypes, RestTypes, Upset
<1>3. /\ RelTypes' /\ rel'[r].st \in {"retry", "done"}
      /\ \A q \in Runtime : q # r => rel'[q] = rel[q]
  BY <1>1, TypeParts DEF RelTypes
<1>4. TypeOK'
  BY <1>1, <1>2, <1>3, TypeParts, TypePartsNext
     DEF EntryTypes, ProcTypes, TimerTypes, OpTypes, RestTypes, entryVars
<1>5. Shape'
  BY <1>1, <1>3, QuietStep DEF entryVars
<1> QED
  BY <1>4, <1>5

(* Close and ForceStop. *)
LEMMA StopInv ==
    ASSUME IInv, NEW c \in {"any"} \cup Thread, Upset, Remove(c),
           UNCHANGED <<owner, proc, timer, op, told, req, pump, rec, starts>>
    PROVE  IInv'
<1> USE DEF IInv
<1>1. /\ EntryTypes' /\ RelTypes' /\ live \in Runtime /\ live' = 0 /\ busy' = {}
      /\ rel'[live].st = "tasks" /\ \A q \in Runtime : q # live => rel'[q] = rel[q]
  BY TypeParts, RemoveFacts DEF Remove, EntryTypes
<1>2. TypeOK'
  BY <1>1, TypeParts, TypePartsNext, Bounds DEF Upset, ProcTypes, TimerTypes, OpTypes,
     EventTypes, RestTypes
<1>3. Shape'
  BY <1>1, RemovalStep, Bounds DEF Runtime
<1> QED
  BY <1>2, <1>3

LEMMA DetachInv ==
    ASSUME IInv, NEW t \in Thread, Detach(t) PROVE IInv'
<1> USE DEF IInv
<1>1. Upset /\ t \in attached /\ UNCHANGED <<owner, proc, op, told, req, pump, rec, starts>>
  BY DEF Detach
<1>2. CASE attached = {t} /\ owner = t
  <2>1. UNCHANGED timer
    BY <1>2 DEF Detach
  <2>2. /\ EntryTypes' /\ RelTypes' /\ live \in Runtime /\ live' = 0 /\ busy' = {}
        /\ rel'[live].st = "tasks" /\ \A q \in Runtime : q # live => rel'[q] = rel[q]
    BY <1>2, TypeParts, RemoveFacts DEF Detach
  <2>3. TypeOK'
    BY <1>1, <2>1, <2>2, TypeParts, TypePartsNext, Bounds DEF Upset, ProcTypes, TimerTypes,
       OpTypes, EventTypes, RestTypes
  <2>4. Shape'
    BY <1>1, <2>2, RemovalStep, Bounds DEF Runtime
  <2> QED
    BY <2>3, <2>4
<1>3. CASE ~(attached = {t} /\ owner = t)
  <2>1. UNCHANGED rel
    BY <1>3 DEF Detach
  <2>2. EntryTypes' /\ TimerTypes' /\ live' = live /\ busy' = busy
    BY <1>1, <1>3, TypeParts, ScheduleFacts DEF Detach, EntryTypes
  <2>3. TypeOK'
    BY <1>1, <2>1, <2>2, TypeParts, TypePartsNext, Bounds DEF Upset, ProcTypes, RelTypes,
       OpTypes, EventTypes, RestTypes
  <2>4. Shape'
    BY <1>1, <2>1, <2>2, QuietStep
  <2> QED
    BY <2>3, <2>4
<1> QED
  BY <1>2, <1>3

-----------------------------------------------------------------------------
LEMMA StepInv == IInv /\ [Next]_vars => IInv'
<1> SUFFICES ASSUME IInv, [Next]_vars PROVE IInv'
  OBVIOUS
<1>1. ASSUME NEW t \in Thread, ThreadStep(t) PROVE IInv'
  BY <1>1, OpenFreshInv, OpenFailsInv, OpenSucceedsInv, PublishInv, PublishFailsInv,
     AbortEndsInv, OpenLiveInv, JoinedInv, JoinFailsInv, BeginTurnInv, WithdrawInv,
     StartSucceedsInv, StartFailsInv, TurnEndsInv, TurnLostInv DEF ThreadStep
<1>2. ASSUME NEW r \in Runtime, RuntimeStep(r) PROVE IInv'
  BY <1>2, PumpTerminalInv, ActivityInv, PumpRequestInv, ProviderDiesInv, PumpEndsInv
     DEF RuntimeStep
<1>3. ASSUME NEW r \in Runtime,
             TimerWakes(r) \/ StayPinned(r) \/ ReleaseIdle(r) \/ ReleaseStep(r)
      PROVE IInv'
  BY <1>3, TimerStepsInv, ReleaseIdleInv, CloseScopeInv, RecordStepsInv DEF ReleaseStep
<1>4. ASSUME NEW t \in Thread, ForceStop(t) \/ Detach(t) PROVE IInv'
  BY <1>4, StopInv, DetachInv DEF ForceStop
<1>5. ASSUME Ingested \/ IngestFails \/ Answer PROVE IInv'
  BY <1>5, RequestStepsInv
<1>6. ASSUME Close PROVE IInv'
  BY <1>6, StopInv DEF Close
<1>7. ASSUME UNCHANGED vars PROVE IInv'
  <2>1. UNCHANGED <<owner, live, attached, busy, pins, proc, timer, rel, op, told, req, pump,
                    rec, starts, upsets>>
    BY <1>7 DEF vars, entryVars, countVars
  <2>2. TypeOK'
    BY <2>1, TypeParts, TypePartsNext DEF IInv, EntryTypes, ProcTypes, TimerTypes, RelTypes,
       OpTypes, EventTypes, RestTypes
  <2> QED
    BY <2>1, <2>2, QuietStep DEF IInv
<1> QED
  BY <1>1, <1>2, <1>3, <1>4, <1>5, <1>6, <1>7 DEF Next

(* The inductive invariant. *)
THEOREM SessionInvariance == Spec => []IInv
BY InitInv, StepInv, PTL DEF Spec

(* Two openings of a session never make two processes, and no process is   *)
(* forgotten: each is the live entry's, being opened, or being released.   *)
THEOREM ProcessesOwned == Spec => []ProcessIsOwned
<1>1. IInv => ProcessIsOwned
  BY DEF IInv, Shape, ProcessIsOwned, ProcessOwned
<1> QED
  BY <1>1, SessionInvariance, PTL

(* The busy turns of the live entry are exactly the turns on its runtime,  *)
(* so that no released or replaced session keeps one that never ends.      *)
THEOREM BusyTurnsExact == Spec => []BusyIsExact
<1>1. ASSUME IInv PROVE BusyIsExact
  <2>1. \A t \in Thread : live # 0 /\ OnRuntime(t, live) <=> OnLive(t)
    BY DEF OnRuntime, OnLive
  <2>2. \A t \in Thread : OnLive(t) => op[t].ord \in 1 .. MaxStarts
    BY <1>1, TypeParts, Bounds DEF IInv, OpTypes, OnLive, Shape, TurnsPlaced
  <2>3. busy \subseteq Thread \X (1 .. MaxStarts)
    BY <1>1, TypeParts DEF IInv, EntryTypes, TurnKey
  <2>4. busy = {<<t, op[t].ord>> : t \in {u \in Thread : OnLive(u)}}
    BY <1>1, <2>2, <2>3 DEF IInv, Shape, BusyTurns
  <2>5. {u \in Thread : OnLive(u)} = {u \in Thread : live # 0 /\ OnRuntime(u, live)}
    BY <2>1
  <2> QED
    BY <1>1, <2>1, <2>4, <2>5 DEF IInv, Shape, BusyTurns, BusyIsExact
<1> QED
  BY <1>1, SessionInvariance, PTL

(* Neither the idle timer nor another thread's force stop releases a       *)
(* runtime on which a turn is being started or runs.                       *)
LEMMA StepSpares ==
    ASSUME IInv, [Next]_vars, NEW r \in Runtime, NEW t \in Thread,
           rel[r].st = "none", rel'[r].st # "none", rel'[r].cause # "any",
           op[t].rt = r, op[t].pc \in {"starting", "running"}
    PROVE  rel'[r].cause = t
<1>1. live = r => OnLive(t) /\ <<t, op[t].ord>> \in busy
  <2>1. r # 0 /\ op[t].ord \in 1 .. MaxStarts
    BY TypeParts, Bounds DEF IInv, OpTypes, Shape, TurnsPlaced, Runtime
  <2> QED
    BY <2>1 DEF IInv, Shape, BusyTurns, OnLive
<1>2. \A c \in {"idle", "any"} \cup Thread, ts \in SUBSET Thread :
        RemoveLeaving(c, ts) => r = live /\ rel'[r].cause = c
  BY TypeParts, RemoveFacts DEF IInv
<1>3. attached \in SUBSET Thread
  BY TypeParts DEF IInv, EntryTypes
<1>4. ASSUME NEW u \in Thread, ThreadStep(u) PROVE FALSE
  BY <1>2, <1>3, <1>4 DEF ThreadStep, OpenFresh, OpenFails, OpenSucceeds, Publish, PublishFails,
     AbortEnds, OpenLive, Joined, JoinFails, BeginTurn, Withdraw, StartSucceeds, StartFails,
     TurnEnds, TurnLost, Remove
<1>5. ASSUME NEW q \in Runtime, RuntimeStep(q) PROVE FALSE
  BY <1>2, <1>3, <1>5 DEF RuntimeStep, PumpTerminal, Activity, PumpRequest, ProviderDies,
     PumpEnds, Remove
<1>6. ASSUME NEW q \in Runtime, ReleaseStep(q) PROVE FALSE
  BY <1>6, TypeParts DEF IInv, RelTypes, ReleaseStep, CloseScope, RecordRelease, RetryRecords
<1>7. ASSUME NEW q \in Runtime, TimerWakes(q) \/ StayPinned(q) \/ ReleaseIdle(q) PROVE FALSE
  BY <1>1, <1>2, <1>3, <1>7 DEF TimerWakes, StayPinned, ReleaseIdle, GivesUp, StillIdle, Remove
<1>8. ASSUME NEW u \in Thread, ForceStop(u) \/ Detach(u) PROVE rel'[r].cause = t
  <2>1. CASE ForceStop(u)
    BY <1>1, <1>2, <1>3, <2>1 DEF ForceStop, Remove
  <2>2. CASE Detach(u)
    BY <1>2, <2>2 DEF Detach
  <2> QED
    BY <1>8, <2>1, <2>2
<1>9. ASSUME Ingested \/ IngestFails \/ Answer \/ Close \/ UNCHANGED vars PROVE FALSE
  BY <1>2, <1>3, <1>9 DEF Ingested, IngestFails, Answer, Close, Remove, vars
<1> QED
  BY <1>4, <1>5, <1>6, <1>7, <1>8, <1>9 DEF Next

THEOREM StopsSpareTurns == Spec => TurnsAreSpared
<1>1. IInv /\ [Next]_vars =>
        [\A r \in Runtime :
            rel[r].st = "none" /\ rel'[r].st # "none" /\ rel'[r].cause # "any" =>
                \A t \in Thread : op[t].rt = r /\ op[t].pc \in {"starting", "running"} =>
                    rel'[r].cause = t]_vars
  BY StepSpares
<1> QED
  BY <1>1, SessionInvariance, PTL DEF Spec, TurnsAreSpared

-----------------------------------------------------------------------------
(* Requests to the user.  Runtimes are opened in order and live in order,  *)
(* so that a request of a runtime before the live one is older than every  *)
(* request to come; and the pump's permit keeps the entry in place while a *)
(* request is written.                                                     *)

OpenedInOrder ==
    /\ \A q, p \in Runtime : q < p /\ proc[q] = "none" => proc[p] = "none"
    /\ \A t \in Thread, p \in Runtime :
            op[t].pc = "opening" /\ op[t].rt < p => proc[p] = "none"
    /\ \A p \in Runtime : live # 0 /\ live < p => proc[p] = "none"

RequestPlaced ==
    /\ req.st = "none" => req.rt = 0
    /\ req.st # "none" => req.rt # 0 /\ (live = req.rt \/ rel[req.rt].st # "none")
    /\ req.st = "ingesting" => live = req.rt

RInv == IInv /\ OpenedInOrder /\ RequestPlaced /\ RequestsSettled

(* What steps do that neither open a runtime nor touch a request or a      *)
(* record.                                                                 *)
Steady ==
    /\ req' = req
    /\ \A r \in Runtime : proc'[r] = "none" <=> proc[r] = "none"
    /\ live' # live => live' = 0 /\ rel'[live].st # "none" /\ ~Ingesting(live)
    /\ \A r \in Runtime :
            /\ rel[r].st # "none" => rel'[r].st # "none"
            /\ rel'[r].st = "done" => rel'[r] = rel[r]
    /\ \A t \in Thread : op'[t].pc = "opening" => op'[t] = op[t]

LEMMA SteadyStep == ASSUME RInv, Steady PROVE OpenedInOrder' /\ RequestPlaced' /\ RequestsSettled'
<1>1. /\ live \in 0 .. MaxRuntimes /\ req.rt \in 0 .. MaxRuntimes
      /\ req.st \in {"none", "ingesting", "pending", "over"}
  BY TypeParts DEF RInv, IInv, EntryTypes, EventTypes
<1>2. OpenedInOrder'
  BY <1>1, Bounds DEF RInv, Steady, OpenedInOrder, Runtime
<1>3. RequestPlaced'
  BY <1>1, Bounds DEF RInv, Steady, RequestPlaced, Ingesting, Runtime
<1>4. RequestsSettled'
  BY <1>1, Bounds DEF RInv, Steady, RequestsSettled, Runtime
<1> QED
  BY <1>2, <1>3, <1>4

(* A removal of the entry. *)
LEMMA RemovalIsSteady ==
    ASSUME IInv, NEW c \in {"idle", "any"} \cup Thread, NEW ts \in SUBSET Thread,
           RemoveLeaving(c, ts), UNCHANGED <<req, proc>>,
           \A t \in Thread : op'[t].pc = "opening" => op'[t] = op[t]
    PROVE  Steady
<1>1. /\ live' = 0 /\ rel'[live].st = "tasks"
      /\ \A r \in Runtime : r # live => rel'[r] = rel[r]
  BY TypeParts, RemoveFacts DEF IInv
<1> QED
  BY <1>1 DEF RemoveLeaving, PermitIsFree, Steady

LEMMA ThreadIsSteady ==
    ASSUME IInv, NEW t \in Thread, ThreadStep(t), ~OpenFresh(t), ~OpenSucceeds(t)
    PROVE  Steady
<1>1. attached \in SUBSET Thread /\ OpTypes /\ TurnsPlaced /\ RestTypes
  BY TypeParts DEF IInv, EntryTypes, Shape
<1>2. CASE OpenFails(t)
  <2>1. op[t].rt # 0 /\ proc[op[t].rt] # "none" /\ proc \in [Runtime -> {"none", "up", "down"}]
    BY <1>1, <1>2, TypeParts DEF IInv, OpenFails, TurnsPlaced, ProcTypes
  <2> QED
    BY <1>1, <1>2, <2>1, LeavesFacts DEF OpenFails, Steady, entryVars
<1>3. CASE PublishFails(t)
  <2>1. CASE live = 0
    BY <1>1, <1>3, <2>1, LeavesFacts DEF PublishFails, Steady, entryVars
  <2>2. CASE live # 0
    <3>1. \A u \in Thread : op'[u].pc = "opening" => op'[u] = op[u]
      BY <1>1, <1>3, <2>2, MovesFacts DEF PublishFails, Places
    <3> QED
      BY <1>1, <1>3, <2>2, <3>1, RemovalIsSteady DEF PublishFails, Remove
  <2> QED
    BY <2>1, <2>2
<1>4. CASE OpenLive(t)
  <2>1. PICK pc \in {"ready", "joining"} : Opens(t, live, pc)
    BY <1>4 DEF OpenLive
  <2>2. live \in Runtime
    BY <1>4, TypeParts, Bounds DEF IInv, EntryTypes, OpenLive, Runtime
  <2>3. \A u \in Thread : op'[u].pc = "opening" => op'[u] = op[u]
    BY <1>1, <2>1, <2>2, OpensFacts DEF Places
  <2> QED
    BY <1>4, <2>3 DEF OpenLive, Touch, Schedule, Steady
<1>5. CASE AbortEnds(t) \/ JoinFails(t) \/ Withdraw(t) \/ TurnLost(t)
  BY <1>1, <1>5, LeavesFacts DEF AbortEnds, JoinFails, Withdraw, TurnLost, Steady, entryVars
<1>6. CASE StartFails(t)
  BY <1>1, <1>6, LeavesFacts DEF StartFails, MarkIdle, Schedule, Steady
<1>7. CASE Publish(t) \/ Joined(t)
  BY <1>1, <1>7, MovesFacts DEF Publish, Joined, Touch, Schedule, Steady, Places
<1>8. CASE BeginTurn(t)
  <2>1. \A u \in Thread : op'[u].pc = "opening" => op'[u] = op[u]
    BY <1>1, <1>8, MovesFacts, LeavesFacts DEF BeginTurn, Places
  <2> QED
    BY <1>8, <2>1 DEF BeginTurn, Steady
<1>9. CASE StartSucceeds(t) \/ TurnEnds(t)
  BY <1>1, <1>9, MovesFacts DEF StartSucceeds, TurnEnds, Steady, Places, entryVars
<1> QED
  BY <1>2, <1>3, <1>4, <1>5, <1>6, <1>7, <1>8, <1>9 DEF ThreadStep

LEMMA RuntimeIsSteady ==
    ASSUME IInv, NEW r \in Runtime, RuntimeStep(r), ~PumpRequest(r)
    PROVE  Steady
<1>1. attached \in SUBSET Thread /\ OpTypes
  BY TypeParts DEF IInv, EntryTypes
<1>2. CASE PumpTerminal(r)
  <2>1. PICK t \in Thread : Leaves(t, "again") \/ op' = op
    BY <1>2 DEF PumpTerminal, TurnKey
  <2>2. \A u \in Thread : op'[u].pc = "opening" => op'[u] = op[u]
    BY <1>1, <2>1, LeavesFacts
  <2> QED
    BY <1>2, <2>2 DEF PumpTerminal, MarkIdle, Schedule, Steady
<1>3. CASE Activity(r)
  BY <1>3 DEF Activity, Touch, Schedule, Steady
<1>4. CASE ProviderDies(r)
  <2>1. \A q \in Runtime : proc'[q] = "none" <=> proc[q] = "none"
    BY <1>4, TypeParts DEF IInv, ProcTypes, ProviderDies
  <2> QED
    BY <1>4, <2>1 DEF ProviderDies, Steady, entryVars
<1>5. CASE PumpEnds(r)
  <2>1. CASE live = r
    BY <1>1, <1>5, <2>1, RemovalIsSteady DEF PumpEnds, Remove
  <2>2. CASE live # r
    BY <1>5, <2>2 DEF PumpEnds, Steady, entryVars
  <2> QED
    BY <2>1, <2>2
<1> QED
  BY <1>2, <1>3, <1>4, <1>5 DEF RuntimeStep

LEMMA ReleaseIsSteady ==
    ASSUME IInv, NEW r \in Runtime,
           TimerWakes(r) \/ StayPinned(r) \/ ReleaseIdle(r) \/ CloseScope(r)
    PROVE  Steady
<1>1. attached \in SUBSET Thread
  BY TypeParts DEF IInv, EntryTypes
<1>2. CASE TimerWakes(r) \/ StayPinned(r)
  BY <1>2 DEF TimerWakes, StayPinned, GivesUp, Steady, entryVars
<1>3. CASE ReleaseIdle(r)
  <2>1. UNCHANGED <<req, proc, op>> /\ (Remove("idle") \/ UNCHANGED <<entryVars, rel>>)
    BY <1>3 DEF ReleaseIdle, GivesUp
  <2> QED
    BY <1>1, <2>1, RemovalIsSteady DEF Remove, Steady, entryVars
<1>4. CASE CloseScope(r)
  <2>1. /\ UNCHANGED <<entryVars, req, op>> /\ rel[r].st = "tasks" /\ rel'[r].st = "records"
        /\ \A q \in Runtime : q # r => rel'[q] = rel[q]
    BY <1>4, TypeParts DEF IInv, RelTypes, CloseScope
  <2>2. \A q \in Runtime : proc'[q] = "none" <=> proc[q] = "none"
    BY <1>4, TypeParts DEF IInv, Shape, LiveIsUnreleased, ProcTypes, CloseScope
  <2> QED
    BY <2>1, <2>2 DEF Steady, entryVars
<1> QED
  BY <1>2, <1>3, <1>4

LEMMA StopIsSteady ==
    ASSUME IInv, Close \/ \E t \in Thread : ForceStop(t) \/ Detach(t)
    PROVE  Steady
<1>1. attached \in SUBSET Thread
  BY TypeParts DEF IInv, EntryTypes
<1>2. CASE Close
  BY <1>1, <1>2, RemovalIsSteady DEF Close, Remove
<1>3. ASSUME NEW t \in Thread, ForceStop(t) PROVE Steady
  BY <1>1, <1>3, RemovalIsSteady DEF ForceStop, Remove
<1>4. ASSUME NEW t \in Thread, Detach(t) PROVE Steady
  <2>1. CASE attached = {t} /\ owner = t
    BY <1>4, <2>1, RemovalIsSteady DEF Detach
  <2>2. CASE ~(attached = {t} /\ owner = t)
    BY <1>4, <2>2 DEF Detach, Schedule, Steady
  <2> QED
    BY <2>1, <2>2
<1> QED
  BY <1>2, <1>3, <1>4

(* A fresh runtime is the first that has never had a process. *)
LEMMA OpenFreshInOrder ==
    ASSUME RInv, NEW t \in Thread, OpenFresh(t)
    PROVE  OpenedInOrder' /\ RequestPlaced' /\ RequestsSettled'
<1>1. PICK r \in Runtime :
        /\ proc[r] = "none" /\ \A q \in 1 .. r - 1 : proc[q] # "none"
        /\ Opens(t, r, "opening")
        /\ proc' = [proc EXCEPT ![r] = "up"]
  BY DEF OpenFresh
<1>2. /\ op'[t].rt = r /\ \A u \in Thread : u # t => op'[u] = op[u]
  BY <1>1, TypeParts, OpensFacts DEF RInv, IInv, Shape, Places
<1>3. proc'[r] = "up" /\ \A q \in Runtime : q # r => proc'[q] = proc[q]
  BY <1>1, TypeParts DEF RInv, IInv, ProcTypes
<1>4. live' = live /\ live = 0 /\ UNCHANGED <<rel, req>> /\ \A u \in Thread : ~Opening(u)
  BY DEF OpenFresh, MayOpen, LockIsFree, Opening, entryVars
<1>5. OpenedInOrder'
  BY <1>1, <1>2, <1>3, <1>4, Bounds DEF RInv, OpenedInOrder, Opening, Runtime
<1>6. RequestPlaced' /\ RequestsSettled'
  BY <1>4 DEF RInv, RequestPlaced, RequestsSettled
<1> QED
  BY <1>5, <1>6

LEMMA OpenSucceedsInOrder ==
    ASSUME RInv, NEW t \in Thread, OpenSucceeds(t)
    PROVE  OpenedInOrder' /\ RequestPlaced' /\ RequestsSettled'
<1>1. /\ op[t].pc = "opening" /\ live = 0 /\ live' = op[t].rt
      /\ UNCHANGED <<proc, rel, req>>
  BY DEF RInv, IInv, Shape, OpeningIsFresh, OpenSucceeds
<1>2. op'[t].pc # "opening" /\ \A u \in Thread : u # t => op'[u] = op[u]
  BY TypeParts, MovesFacts DEF RInv, IInv, OpenSucceeds, Places
<1>3. OpenedInOrder'
  BY <1>1, <1>2 DEF RInv, OpenedInOrder
<1>4. RequestPlaced' /\ RequestsSettled'
  BY <1>1 DEF RInv, RequestPlaced, RequestsSettled
<1> QED
  BY <1>3, <1>4

(* No release of the live runtime, or of a later one, is recorded. *)
LEMMA ReleasesArePast ==
    ASSUME RInv, NEW r \in Runtime, rel[r].st # "none", live # 0
    PROVE  r < live
BY TypeParts, Bounds DEF RInv, IInv, EntryTypes, Shape, LiveIsUnreleased, OpenedInOrder, Runtime

LEMMA RequestStepsSettle ==
    ASSUME RInv, (\E r \in Runtime : PumpRequest(r)) \/ Ingested \/ IngestFails \/ Answer
    PROVE  OpenedInOrder' /\ RequestPlaced' /\ RequestsSettled'
<1>1. UNCHANGED <<live, proc, rel, op>>
  BY DEF PumpRequest, Touch, Schedule, Ingested, IngestFails, Answer, entryVars
<1>2. OpenedInOrder'
  BY <1>1 DEF RInv, OpenedInOrder
<1>3. req \in [st : {"none", "ingesting", "pending", "over"},
               rt : 0 .. MaxRuntimes, by : {"any"} \cup Thread]
  BY TypeParts DEF RInv, IInv, EventTypes
<1>4. CASE \E r \in Runtime : PumpRequest(r)
  <2>1. PICK r \in Runtime, t \in attached :
          live = r /\ req' = [st |-> "ingesting", rt |-> r, by |-> t]
    BY <1>4 DEF PumpRequest
  <2>2. RequestPlaced'
    BY <1>1, <2>1, Bounds DEF RequestPlaced, Runtime
  <2>3. RequestsSettled'
    BY <1>1, <2>1, ReleasesArePast, Bounds DEF RequestsSettled, Runtime
  <2> QED
    BY <1>2, <2>2, <2>3
<1>5. CASE Ingested
  <2>1. req.st = "ingesting" /\ live = req.rt /\ live # 0
    BY <1>5 DEF Ingested, RInv, RequestPlaced
  <2>2. req'.st = "pending" /\ req'.rt = req.rt
    BY <1>3, <1>5 DEF Ingested
  <2>3. RequestPlaced'
    BY <1>1, <2>1, <2>2 DEF RequestPlaced
  <2>4. RequestsSettled'
    BY <1>1, <2>1, <2>2, ReleasesArePast, Bounds DEF RequestsSettled, Runtime
  <2> QED
    BY <1>2, <2>3, <2>4
<1>6. CASE IngestFails \/ Answer
  <2>1. req'.st = "over" /\ req'.rt = req.rt /\ req.st # "none"
    BY <1>3, <1>6 DEF IngestFails, Answer
  <2>2. RequestPlaced' /\ RequestsSettled'
    BY <1>1, <2>1 DEF RInv, RequestPlaced, RequestsSettled
  <2> QED
    BY <1>2, <2>2
<1> QED
  BY <1>4, <1>5, <1>6

(* A release that is recorded has settled what was asked before it. *)
LEMMA RecordStepsSettle ==
    ASSUME RInv, NEW r \in Runtime, RecordRelease(r) \/ RetryRecords(r)
    PROVE  OpenedInOrder' /\ RequestPlaced' /\ RequestsSettled'
<1>1. PICK next \in {"retry", "done"}, row \in {rec, "stopped"} :
        rel' = [rel EXCEPT ![r].st = next] /\ WriteRecords(r, row, next)
  BY DEF RecordRelease, RetryRecords, StoppedRow
<1>2. rel[r].st \in {"records", "retry"} /\ UNCHANGED <<live, proc, op>>
  BY DEF RecordRelease, RetryRecords, entryVars
<1>3. OpenedInOrder'
  BY <1>2 DEF RInv, OpenedInOrder
<1>4. /\ rel'[r].st = next /\ rel'[r].threads = rel[r].threads
      /\ \A q \in Runtime : q # r => rel'[q] = rel[q]
  BY <1>1, TypeParts DEF RInv, IInv, RelTypes
<1>5. /\ req.st \in {"none", "ingesting", "pending", "over"} /\ req.rt \in 0 .. MaxRuntimes
      /\ req'.rt = req.rt /\ req'.by = req.by
      /\ req'.st = req.st \/ (req.st = "pending" /\ req'.st = "over")
      /\ next = "done" /\ req.st = "pending" /\ req.rt <= r /\ req.by \in rel[r].threads =>
            req'.st = "over"
  <2>1. req \in [st : {"none", "ingesting", "pending", "over"},
                 rt : 0 .. MaxRuntimes, by : {"any"} \cup Thread]
    BY TypeParts DEF RInv, IInv, EventTypes
  <2> QED
    BY <1>1, <2>1 DEF WriteRecords, Settled
<1>6. RequestPlaced'
  BY <1>2, <1>4, <1>5, Bounds DEF RInv, RequestPlaced, Runtime
<1>7. req.st = "ingesting" => r < req.rt
  BY <1>2, ReleasesArePast DEF RInv, RequestPlaced
<1>8. RequestsSettled'
  BY <1>2, <1>4, <1>5, <1>7, Bounds DEF RInv, RequestPlaced, RequestsSettled, Runtime
<1> QED
  BY <1>3, <1>6, <1>8

LEMMA RInvStep == RInv /\ [Next]_vars => RInv'
<1> SUFFICES ASSUME RInv, [Next]_vars PROVE RInv'
  OBVIOUS
<1>1. IInv /\ IInv'
  BY StepInv DEF RInv
<1>2. ASSUME NEW t \in Thread, ThreadStep(t)
      PROVE  OpenedInOrder' /\ RequestPlaced' /\ RequestsSettled'
  BY <1>1, <1>2, ThreadIsSteady, SteadyStep, OpenFreshInOrder, OpenSucceedsInOrder
<1>3. ASSUME NEW r \in Runtime, RuntimeStep(r)
      PROVE  OpenedInOrder' /\ RequestPlaced' /\ RequestsSettled'
  BY <1>1, <1>3, RuntimeIsSteady, SteadyStep, RequestStepsSettle
<1>4. ASSUME NEW r \in Runtime,
             TimerWakes(r) \/ StayPinned(r) \/ ReleaseIdle(r) \/ ReleaseStep(r)
      PROVE  OpenedInOrder' /\ RequestPlaced' /\ RequestsSettled'
  BY <1>1, <1>4, ReleaseIsSteady, SteadyStep, RecordStepsSettle DEF ReleaseStep
<1>5. ASSUME Close \/ \E t \in Thread : ForceStop(t) \/ Detach(t)
      PROVE  OpenedInOrder' /\ RequestPlaced' /\ RequestsSettled'
  BY <1>1, <1>5, StopIsSteady, SteadyStep
<1>6. ASSUME Ingested \/ IngestFails \/ Answer
      PROVE  OpenedInOrder' /\ RequestPlaced' /\ RequestsSettled'
  BY <1>6, RequestStepsSettle
<1>7. ASSUME UNCHANGED vars PROVE OpenedInOrder' /\ RequestPlaced' /\ RequestsSettled'
  BY <1>7, SteadyStep DEF vars, entryVars, Steady
<1> QED
  BY <1>1, <1>2, <1>3, <1>4, <1>5, <1>6, <1>7 DEF Next, RInv

(* The inductive invariant of requests and records. *)
THEOREM RequestInvariance == Spec => []RInv
<1>1. Init => RInv
  BY InitInv, Bounds DEF Init, RInv, OpenedInOrder, RequestPlaced, RequestsSettled, Runtime
<1> QED
  BY <1>1, RInvStep, PTL DEF Spec

(* Once a release is recorded, no request of its threads from before it    *)
(* waits for an answer that no process could take.                         *)
THEOREM ReleasesSettleRequests == Spec => []RequestsSettled
<1>1. RInv => RequestsSettled
  BY DEF RInv
<1> QED
  BY <1>1, RequestInvariance, PTL

(* The records of a release, late ones included, touch no request of a     *)
(* runtime that has not been released.                                     *)
THEOREM ReleasesSpareRequests == Spec => OwnRequestsOnly
<1>1. ASSUME RInv, [Next]_vars, req.st = "pending", rel' # rel
      PROVE  req'.st = "pending" \/ rel[req.rt].st # "none"
  <2>1. CASE \E r \in Runtime : RecordRelease(r) \/ RetryRecords(r)
    <3>1. PICK r \in Runtime : RecordRelease(r) \/ RetryRecords(r)
      BY <2>1
    <3>2. rel[r].st \in {"records", "retry"}
      BY <3>1 DEF RecordRelease, RetryRecords
    <3>3. req' = req \/ req.rt <= r
      BY <3>1 DEF RecordRelease, RetryRecords, WriteRecords, Settled
    <3>4. live = req.rt /\ req.rt # 0 => r < req.rt
      BY <1>1, <3>2, ReleasesArePast
    <3>5. req.rt \in 0 .. MaxRuntimes
      BY <1>1, TypeParts DEF RInv, IInv, EventTypes
    <3> QED
      BY <1>1, <3>3, <3>4, <3>5, Bounds DEF RInv, RequestPlaced, Runtime
  <2>2. CASE \E t \in Thread : ThreadStep(t) \/ ForceStop(t) \/ Detach(t)
    BY <1>1, <2>2 DEF ThreadStep, ForceStop, Detach, OpenFresh, OpenFails, OpenSucceeds,
       Publish, PublishFails, AbortEnds, OpenLive, Joined, JoinFails, BeginTurn, Withdraw,
       StartSucceeds, StartFails, TurnEnds, TurnLost
  <2>3. CASE \E r \in Runtime : RuntimeStep(r)
    BY <1>1, <2>3 DEF RuntimeStep, PumpTerminal, Activity, PumpRequest, ProviderDies, PumpEnds
  <2>4. CASE \E r \in Runtime : TimerWakes(r) \/ StayPinned(r) \/ ReleaseIdle(r) \/ CloseScope(r)
    BY <1>1, <2>4 DEF TimerWakes, StayPinned, ReleaseIdle, CloseScope
  <2>5. CASE Ingested \/ IngestFails \/ Answer \/ Close \/ UNCHANGED vars
    BY <1>1, <2>5 DEF Ingested, IngestFails, Answer, Close, vars
  <2> QED
    BY <1>1, <2>1, <2>2, <2>3, <2>4, <2>5 DEF Next, ReleaseStep
<1>2. RInv /\ [Next]_vars =>
        [req.st = "pending" /\ req'.st # "pending" /\ rel' # rel => rel[req.rt].st # "none"]_vars
  BY <1>1
<1> QED
  BY <1>2, RequestInvariance, PTL DEF Spec, OwnRequestsOnly

=============================================================================
