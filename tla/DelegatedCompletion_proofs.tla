---------------------- MODULE DelegatedCompletion_proofs ----------------------
(***************************************************************************)
(* Proofs about DelegatedCompletion for any finite set of tasks and any     *)
(* number of interventions.                                                 *)
(*                                                                         *)
(* Whoever holds the thread's lock has read a row whose cohort is still     *)
(* that of the run; only its status may have gone on.  So a handler may     *)
(* decide on the cohort from its copy.  Once a wake has started, the parent *)
(* has settled, and so has the copy: no handler takes a told result for     *)
(* one that the running parent may still wait for.                          *)
(*                                                                         *)
(* As long as no Stop has reached the run, its turn comes to one end, and  *)
(* the row and every copy of it are on the way there (OneWay).             *)
(***************************************************************************)
EXTENDS DelegatedCompletion, FiniteSetTheorems, SequenceTheorems, TLAPS

Started(g) == wake[g] \in {"active"} \cup Settled
Over == {"cancelled"} \cup Settled

SameCohort(r) ==
  r.disposition = row.disposition /\ r.next = row.next /\ r.gen = row.gen /\ r.ids = row.ids

-----------------------------------------------------------------------------
(* TypeOK in the parts that steps disturb; the sequence of ends is below. *)

RowType == row \in Row

PlainType ==
  /\ turn \in {"none", "running", "completed", "interrupted", "failed", "closed"}
  /\ start \in {"queued", "read", "opening", "calling", "done"}
  /\ capture \in [pc: {"none", "queued", "running", "done", "failed"}, copy: {"none"} \cup Status]
  /\ stops \in 0..MaxStops /\ stopped \in BOOLEAN

TaskType == task \in [Task -> TaskRow] /\ told \in [Task -> Nat]

WakeType ==
  /\ wake \in [Gen -> {"none", "queued", "held", "active", "cancelled"} \cup Settled]
  /\ carried \in [Gen -> SUBSET Task] /\ offers \subseteq Gen

CmdType == cmd \in {Free} \cup [kind: Kind, arg: Task \cup 0..MaxGen, copy: Row]

Types == RowType /\ PlainType /\ TaskType /\ WakeType /\ CmdType

-----------------------------------------------------------------------------
(* The inductive invariant, part by part. *)

\* The row's cohort: the current generation is the last one reserved.
CohortShape ==
  /\ row.disposition = "none" => row.next = 1
  /\ row.disposition # "open" => row.gen = 0
  /\ row.gen = 0 => row.ids = {}
  /\ row.gen # 0 => row.next = row.gen + 1

\* Tasks and the ids of the current delivery.
TaskShape == \A t \in Task :
  /\ task[t].phase = "unborn" => task[t].delivery = "none"
  /\ task[t].phase = "running" => task[t].delivery \in {"none", "disposed"}
  /\ task[t].delivery = "claimed" => t \in row.ids
  /\ t \in row.ids => task[t].delivery \in {"claimed"} \cup Final

\* Wakes: none is ahead of the generations, and one that waits or runs is the
\* current one's, unless the cohort was disposed of under a run.
WakeShape == \A g \in Gen :
  /\ g >= row.next => wake[g] = "none"
  /\ Waits(g) => row.gen = g /\ carried[g] = row.ids
  /\ wake[g] = "active" /\ row.disposition = "open" => row.gen = g
  /\ row.gen = g => wake[g] # "cancelled"
  /\ row.gen = g /\ (wake[g] = "none" \/ Waits(g)) =>
       row.ids # {} /\ \A t \in row.ids : task[t].delivery = "claimed"

OneWake == \A g, h \in Gen : wake[g] = "active" /\ wake[h] = "active" => g = h

\* What was told is decided, or about to be with the wake under way.
ToldShape == \A t \in Task :
  /\ told[t] <= 1
  /\ told[t] # 0 => \/ task[t].delivery \in Final
                    \/ task[t].delivery = "claimed" /\ Started(row.gen)

\* Each generation so far has decided a task, or carries one now.
Spent == {t \in Task : task[t].delivery \in Final} \cup row.ids

GenerationsSpent == row.next <= Cardinality(Spent) + 1

\* A started wake finds its parent settled, in the row and in any copy of it.
ParentSettled ==
  WakeActive \/ (row.disposition = "open" /\ \E g \in Gen : Started(g)) =>
    ~ Active(row) /\ (cmd # Free => ~ Active(cmd.copy))

\* What the holder of the lock knows.
Locked == cmd # Free =>
  /\ SameCohort(cmd.copy)
  /\ ~ Active(cmd.copy) => ~ Active(row)
  /\ cmd.kind \in {"delegate", "end", "policy", "ack"} => cmd.arg \in Task
  /\ cmd.kind = "delegate" => task[cmd.arg].phase = "unborn"
  /\ cmd.kind = "end" => task[cmd.arg].phase = "running"
  /\ cmd.kind = "ack" => task[cmd.arg].phase = "done"
  /\ cmd.kind \in {"stopWake", "dispatch", "deliver"} => cmd.arg \in Gen
  /\ cmd.kind = "stopWake" =>
       Started(cmd.arg) /\ (row.disposition = "open" => row.gen = cmd.arg)
  /\ cmd.kind = "deliver" => wake[cmd.arg] \in Over

CaptureHolds == capture.pc = "running" => capture.copy \in {"waiting", "interrupted"}

\* Wakes whose end is to be reacted to are over.
Ending(w) == ((0..MaxGen) \X {"next"}) \cup ({g \in Gen : w[g] \in Over} \X {"deliver"})

EndsOver == ends \in Seq(Ending(wake))

Shape == /\ CohortShape /\ TaskShape /\ WakeShape /\ OneWake /\ ToldShape
         /\ GenerationsSpent /\ ParentSettled /\ Locked /\ CaptureHolds

IInv == Types /\ Shape /\ EndsOver

-----------------------------------------------------------------------------
(* Generations, ends and copies. *)

LEMMA TasksAreFinite == IsFiniteSet(Task) /\ MaxGen \in Nat /\ MaxStops \in Nat
BY CompletionAssumption, FS_CardinalityType DEF CompletionAssumption, MaxGen

LEMMA SpentBounds ==
  ASSUME NEW S \in SUBSET Task, NEW T \in SUBSET Task
  PROVE  /\ Cardinality(S) \in Nat /\ Cardinality(S) <= MaxGen
         /\ S \subseteq T => Cardinality(S) <= Cardinality(T)
         /\ \A x \in T \ S : S \subseteq T => Cardinality(S) + 1 <= Cardinality(T)
<1>1. IsFiniteSet(S) /\ IsFiniteSet(T)
  BY TasksAreFinite, FS_Subset
<1>2. Cardinality(S) \in Nat /\ Cardinality(T) \in Nat /\ Cardinality(S) <= MaxGen
  BY <1>1, TasksAreFinite, FS_Subset, FS_CardinalityType DEF MaxGen
<1>3. S \subseteq T => Cardinality(S) <= Cardinality(T)
  BY <1>1, FS_Subset
<1>4. ASSUME NEW x \in T \ S, S \subseteq T PROVE Cardinality(S) + 1 <= Cardinality(T)
  <2>1. S \cup {x} \in SUBSET T
    BY <1>4
  <2>2. Cardinality(S \cup {x}) <= Cardinality(T)
    BY <1>1, <2>1, FS_Subset
  <2> QED BY <1>1, <1>4, <2>2, FS_AddElement
<1> QED BY <1>2, <1>3, <1>4

\* What is decided or carried stays so, and a generation adds to it.
LEMMA SpentStep ==
  ASSUME RowType, TaskType, GenerationsSpent, Spent \subseteq Spent', Spent' \subseteq Task,
         \/ row'.next = row.next
         \/ row'.next = row.next + 1 /\ Spent # Spent'
  PROVE  GenerationsSpent' /\ row'.next \in 1..MaxGen + 1
<1>1. Spent \subseteq Task /\ row.next \in 1..MaxGen + 1
  BY DEF Spent, RowType, Row
<1>2. CASE row'.next = row.next
  BY <1>1, <1>2, SpentBounds DEF GenerationsSpent
<1>3. CASE row'.next = row.next + 1 /\ Spent # Spent'
  <2>1. PICK x \in Spent' \ Spent : TRUE
    BY <1>3
  <2>2. Cardinality(Spent) + 1 <= Cardinality(Spent')
    BY <1>1, <2>1, SpentBounds
  <2> QED BY <1>1, <1>3, <2>2, SpentBounds, TasksAreFinite DEF GenerationsSpent
<1> QED BY <1>2, <1>3

LEMMA ParentEndsOver ==
  ASSUME NEW w, NEW es \in Seq(Ending(w)), NEW r
  PROVE  ParentEnds(r, es) \in Seq(Ending(w))
BY TasksAreFinite DEF ParentEnds, Ending

LEMMA WakesEndOver ==
  ASSUME NEW w, NEW es \in Seq(Ending(w)), NEW S, \A g \in S : g \in Gen /\ w[g] \in Over
  PROVE  WakesEnd(S, es) \in Seq(Ending(w))
<1>1. CASE S = {}
  BY <1>1 DEF WakesEnd
<1>2. CASE S # {}
  <2> DEFINE g == CHOOSE x \in S : TRUE
  <2>1. g \in S
    BY <1>2
  <2>2. <<g, "deliver">> \in Ending(w)
    BY <2>1 DEF Ending
  <2>3. Append(es, <<g, "deliver">>) \in Seq(Ending(w))
    BY <2>2
  <2> QED BY <1>2, <2>3 DEF WakesEnd
<1> QED BY <1>1, <1>2

LEMMA EndsStayOver ==
  ASSUME EndsOver, \A g \in Gen : wake[g] \in Over => wake'[g] \in Over
  PROVE  ends \in Seq(Ending(wake'))
<1>1. Ending(wake) \subseteq Ending(wake')
  BY DEF Ending
<1> QED BY <1>1, SeqMonotonic DEF EndsOver

LEMMA ParentDone ==
  ASSUME RowType PROVE ~ Active(row) <=> row.status \in Settled
BY DEF RowType, Row, Active, Live, Status, Settled

-----------------------------------------------------------------------------
(* The writers of the status, which hold no lock. *)

LEMMA StatusStep ==
  ASSUME IInv, RowType', PlainType', CaptureHolds',
         SameCohort(row'), ~ Active(row) => ~ Active(row'),
         ends' \in {ends, ParentEnds(row', ends)},
         UNCHANGED <<task, wake, carried, offers, cmd, told>>
  PROVE  IInv'
<1> USE DEF IInv
<1>1. Types'
  BY DEF Types, TaskType, WakeType, CmdType
<1>2. CohortShape' /\ TaskShape' /\ ToldShape' /\ Spent' = Spent
  BY DEF Shape, CohortShape, TaskShape, ToldShape, SameCohort, Spent, Started
<1>3. WakeShape' /\ OneWake'
  BY DEF Shape, WakeShape, OneWake, SameCohort, Waits
<1>4. GenerationsSpent'
  BY <1>2 DEF Shape, GenerationsSpent, SameCohort
<1>5. ParentSettled'
  BY DEF Shape, ParentSettled, WakeActive, Started, SameCohort
<1>6. Locked'
  BY DEF Shape, Locked, SameCohort, Started
<1>7. EndsOver'
  BY ParentEndsOver DEF EndsOver
<1> QED BY <1>1, <1>2, <1>3, <1>4, <1>5, <1>6, <1>7 DEF Shape

LEMMA SettledIsInactive ==
  ASSUME NEW r, r.status \in Settled PROVE ~ Active(r)
BY DEF Settled, Active, Live

\* What SetStatus and IfCurrent write.
LEMMA StatusWritten ==
  ASSUME RowType, NEW st \in Status, SetStatus(st), Active(row) \/ st \in Settled
  PROVE  /\ RowType' /\ SameCohort(row') /\ row'.status = st
         /\ ~ Active(row) => ~ Active(row')
         /\ ends' \in {ends, ParentEnds(row', ends)}
<1>1. /\ row' = [row EXCEPT !.status = st]
      /\ ends' = ParentEnds(row', ends)
  BY DEF SetStatus
<1>2. RowType' /\ SameCohort(row') /\ row'.status = st
  BY <1>1 DEF RowType, Row, SameCohort
<1>3. ~ Active(row) => ~ Active(row')
  BY <1>2, SettledIsInactive
<1> QED BY <1>1, <1>2, <1>3

LEMMA IfCurrentWritten ==
  ASSUME RowType, NEW e \in {"starting", "running"}, NEW st \in Status, IfCurrent(e, st)
  PROVE  /\ RowType' /\ SameCohort(row')
         /\ ~ Active(row) => ~ Active(row')
         /\ ends' \in {ends, ParentEnds(row', ends)}
<1>1. CASE row.status = e
  <2>1. Active(row) /\ SetStatus(st)
    BY <1>1 DEF IfCurrent, Active, Live
  <2> QED BY <2>1, StatusWritten
<1>2. CASE row.status # e
  BY <1>2 DEF IfCurrent, SameCohort, RowType
<1> QED BY <1>1, <1>2

LEMMA UnlockedInv == ASSUME IInv, Unlocked \/ StartFails \/ StartInterrupted PROVE IInv'
<1> USE DEF IInv
<1>0. RowType /\ PlainType /\ CaptureHolds
  BY DEF Types, Shape
<1>1. CASE StartRead \/ StartCheck \/ TurnOpens \/ TurnEnds \/ StartInterrupted
  <2>1. UNCHANGED <<row, ends, capture, stops, stopped, task, wake, carried, offers, cmd, told>>
    BY <1>1 DEF StartRead, StartCheck, TurnOpens, TurnEnds, StartInterrupted
  <2>2. PlainType'
    BY <1>0, <1>1, <2>1
       DEF PlainType, StartRead, StartCheck, TurnOpens, TurnEnds, StartInterrupted, Settled
  <2> QED BY <1>0, <2>1, <2>2, StatusStep DEF RowType, CaptureHolds, SameCohort
<1>2. CASE StartWrite \/ StartFails
  <2>1. \E st \in {"running", "failed"} : IfCurrent("starting", st)
    BY <1>2 DEF StartWrite, StartFails
  <2>2. UNCHANGED <<turn, capture, stops, stopped, task, wake, carried, offers, cmd, told>>
    BY <1>2 DEF StartWrite, StartFails
  <2>3. PlainType' /\ CaptureHolds'
    BY <1>0, <1>2, <2>2 DEF PlainType, CaptureHolds, StartWrite, StartFails
  <2>4. {"running", "failed"} \subseteq Status
    BY DEF Status, Settled
  <2> QED BY <1>0, <2>1, <2>2, <2>3, <2>4, IfCurrentWritten, StatusStep
<1>3. CASE Finalize
  <2>1. \E st \in Status : IfCurrent("running", st)
    BY <1>3 DEF Finalize, Settled, Status
  <2>2. UNCHANGED <<stops, stopped, task, wake, carried, offers, cmd, told>>
    BY <1>3 DEF Finalize
  <2>3. PlainType' /\ CaptureHolds'
    BY <1>0, <1>3 DEF PlainType, CaptureHolds, Finalize, Settled
  <2> QED BY <1>0, <2>1, <2>2, <2>3, IfCurrentWritten, StatusStep
<1>4. CASE CaptureRead
  <2>1. UNCHANGED <<row, ends, task, wake, carried, offers, cmd, told>>
    BY <1>4 DEF CaptureRead
  <2>2. PlainType' /\ CaptureHolds'
    BY <1>0, <1>4 DEF PlainType, CaptureHolds, CaptureRead, RowType, Row
  <2> QED BY <1>0, <2>1, <2>2, StatusStep DEF RowType, SameCohort
<1>5. CASE CaptureCommit
  <2>1. /\ UNCHANGED <<task, wake, carried, offers, cmd, told>>
        /\ ends' = ParentEnds(row', ends)
    BY <1>5 DEF CaptureCommit
  <2>2. PlainType' /\ CaptureHolds'
    BY <1>0, <1>5 DEF PlainType, CaptureHolds, CaptureCommit
  <2>3. /\ row' = [row EXCEPT !.checkpoint = TRUE, !.status = row'.status]
        /\ row'.status \in {"completed", "interrupted"}
    BY <1>0, <1>5 DEF CaptureCommit, CaptureHolds, RowType, Row
  <2>4. RowType' /\ SameCohort(row') /\ row'.status \in Settled
    BY <1>0, <2>3 DEF RowType, Row, SameCohort, Settled, Status
  <2> QED BY <2>1, <2>2, <2>4, SettledIsInactive, StatusStep
<1> QED BY <1>1, <1>2, <1>3, <1>4, <1>5 DEF Unlocked

-----------------------------------------------------------------------------
(* Taking the lock, and the end of a wake. *)

\* What a handler of kind k for a may rely on when it begins.
Entitled(k, a) ==
  /\ k \in {"delegate", "end", "policy", "ack"} => a \in Task
  /\ k = "delegate" => task[a].phase = "unborn"
  /\ k = "end" => task[a].phase = "running"
  /\ k = "ack" => task[a].phase = "done"
  /\ k \in {"stopWake", "dispatch", "deliver"} => a \in Gen
  /\ k = "stopWake" => wake[a] = "active"
  /\ k = "deliver" => wake[a] \in Over

LEMMA LockStep ==
  ASSUME IInv, NEW k \in Kind, NEW a \in Task \cup 0..MaxGen, Entitled(k, a),
         cmd' = [kind |-> k, arg |-> a, copy |-> row], EndsOver', stops' \in 0..MaxStops,
         UNCHANGED <<row, turn, start, capture, task, wake, carried, offers, stopped, told>>
  PROVE  IInv'
<1> USE DEF IInv
<1>1. Types'
  BY DEF Types, RowType, PlainType, TaskType, WakeType, CmdType
<1>2. CohortShape' /\ TaskShape' /\ ToldShape' /\ GenerationsSpent'
  BY DEF Shape, CohortShape, TaskShape, ToldShape, GenerationsSpent, Spent, Started
<1>3. WakeShape' /\ OneWake' /\ CaptureHolds'
  BY DEF Shape, WakeShape, OneWake, CaptureHolds, Waits
<1>4. ParentSettled'
  BY DEF Shape, ParentSettled, WakeActive, Started
<1>5. Locked'
  <2>1. k = "stopWake" /\ row.disposition = "open" => row.gen = a
    BY DEF Entitled, Shape, WakeShape
  <2> QED BY <2>1 DEF Locked, Entitled, SameCohort, Started, Over
<1> QED BY <1>1, <1>2, <1>3, <1>4, <1>5 DEF Shape

LEMMA BeginStep ==
  ASSUME IInv, NEW k \in Kind, NEW a \in Task \cup 0..MaxGen, Entitled(k, a),
         Begin(k, a) \/ ByUser(k, a)
  PROVE  IInv'
<1>1. /\ cmd' = [kind |-> k, arg |-> a, copy |-> row]
      /\ UNCHANGED <<row, turn, start, capture, task, wake, carried, offers, ends, stopped, told>>
  BY DEF Begin, ByUser
<1>2. EndsOver'
  BY <1>1 DEF IInv, EndsOver
<1>3. stops' \in 0..MaxStops
  BY TasksAreFinite DEF Begin, ByUser, IInv, Types, PlainType
<1> QED BY <1>1, <1>2, <1>3, LockStep

LEMMA TaskBegins ==
  ASSUME IInv, NEW t \in Task, BeginDelegate(t) \/ BeginEnd(t) \/ BeginPolicy(t) \/ BeginAck(t)
  PROVE  IInv'
<1>1. \E k \in {"delegate", "end", "policy", "ack"} : Begin(k, t) /\ Entitled(k, t)
  BY DEF BeginDelegate, BeginEnd, BeginPolicy, BeginAck, Entitled
<1> QED BY <1>1, BeginStep DEF Kind

LEMMA UserBegins ==
  ASSUME IInv, BeginStopStart \/ BeginStopTurn \/ BeginResume PROVE IInv'
<1>1. \E k \in {"stopStart", "stopTurn", "resume"} : (Begin(k, 0) \/ ByUser(k, 0)) /\ Entitled(k, 0)
  BY DEF BeginStopStart, BeginStopTurn, BeginResume, Entitled
<1> QED BY <1>1, TasksAreFinite, BeginStep DEF Kind

LEMMA GenBegins ==
  ASSUME IInv, NEW g \in Gen, BeginStopWake(g) \/ BeginCancelWake(g) \/ BeginDispatch(g)
  PROVE  IInv'
<1>1. \E k \in {"stopWake", "cancelWake", "dispatch"} :
        (Begin(k, g) \/ ByUser(k, g)) /\ Entitled(k, g)
  BY DEF BeginStopWake, BeginCancelWake, BeginDispatch, Entitled
<1>2. g \in 0..MaxGen
  BY DEF Gen
<1> QED BY <1>1, <1>2, BeginStep DEF Kind

LEMMA ReactionBegins ==
  ASSUME IInv, NEW g \in 0..MaxGen,
         BeginNext(g) \/ (g \in Gen /\ BeginDeliver(g))
  PROVE  IInv'
<1> DEFINE E == Ending(wake)
<1>0. ends \in Seq(E)
  BY DEF IInv, EndsOver
<1>1. stops \in 0..MaxStops
  BY DEF IInv, Types, PlainType
<1>2. CASE BeginNext(g)
  <2>1. /\ ends # <<>> /\ ends' = Tail(ends)
        /\ cmd' = [kind |-> "next", arg |-> g, copy |-> row]
        /\ UNCHANGED <<row, turn, start, capture, task, wake, carried, offers, stops, stopped, told>>
    BY <1>2 DEF BeginNext, TakeReaction
  <2>2. Tail(ends) \in Seq(E)
    BY <1>0, <2>1, HeadTailProperties
  <2>3. EndsOver'
    BY <2>1, <2>2 DEF EndsOver
  <2> QED BY <1>1, <2>1, <2>3, LockStep DEF Entitled, Kind
<1>3. CASE g \in Gen /\ BeginDeliver(g)
  <2>1. /\ ends # <<>> /\ Head(ends) = <<g, "deliver">>
        /\ ends' = <<<<g, "next">>>> \o Tail(ends)
        /\ cmd' = [kind |-> "deliver", arg |-> g, copy |-> row]
        /\ UNCHANGED <<row, turn, start, capture, task, wake, carried, offers, stops, stopped, told>>
    BY <1>3 DEF BeginDeliver, TakeReaction
  <2>2. Tail(ends) \in Seq(E) /\ <<g, "deliver">> \in E
    BY <1>0, <2>1, HeadTailProperties
  <2>3. wake[g] \in Over
    BY <2>2 DEF Ending
  <2>4. <<g, "next">> \in E
    BY DEF Ending
  <2>5. EndsOver'
    BY <2>1, <2>2, <2>4 DEF EndsOver
  <2> QED BY <1>1, <1>3, <2>1, <2>3, <2>5, LockStep DEF Entitled, Kind
<1> QED BY <1>2, <1>3

LEMMA WakeEndsInv == ASSUME IInv, NEW g \in Gen, WakeEnds(g) PROVE IInv'
<1> USE DEF IInv
<1>1. PICK st \in Settled : wake' = [wake EXCEPT ![g] = st]
  BY DEF WakeEnds
<1>2. /\ wake[g] = "active" /\ ends' = WakesEnd({g}, ends)
      /\ UNCHANGED <<row, turn, start, capture, task, carried, offers, cmd, stops, stopped, told>>
  BY DEF WakeEnds
<1>3. wake \in [Gen -> {"none", "queued", "held", "active", "cancelled"} \cup Settled]
  BY DEF Types, WakeType
<1>4. \A h \in Gen : /\ Started(h)' <=> Started(h)
                     /\ Waits(h)' <=> Waits(h)
                     /\ wake'[h] = "active" => wake[h] = "active"
                     /\ wake'[h] \in {"none", "cancelled"} => wake'[h] = wake[h]
                     /\ wake[h] \in Over => wake'[h] \in Over
                     /\ wake[h] = "none" => wake'[h] = "none"
  BY <1>1, <1>2, <1>3 DEF Started, Waits, Settled, Over
<1>5. Types'
  BY <1>1, <1>2 DEF Types, RowType, PlainType, TaskType, WakeType, CmdType, Settled
<1>6. CohortShape' /\ TaskShape' /\ GenerationsSpent' /\ CaptureHolds'
  BY <1>2 DEF Shape, CohortShape, TaskShape, GenerationsSpent, Spent, CaptureHolds
<1>7. ToldShape'
  <2>1. \A t \in Task : task[t].delivery = "claimed" => row.gen \in Gen
    BY DEF Shape, TaskShape, CohortShape, Types, RowType, Row, Gen
  <2> QED BY <1>2, <1>4, <2>1 DEF Shape, ToldShape
<1>8. WakeShape' /\ OneWake'
  BY <1>2, <1>4 DEF Shape, WakeShape, OneWake
<1>9. ParentSettled'
  BY <1>2, <1>4 DEF Shape, ParentSettled, WakeActive
<1>10. Locked'
  BY <1>2, <1>4 DEF Shape, Locked, SameCohort
<1>11. EndsOver'
  <2>1. ends \in Seq(Ending(wake'))
    BY <1>4, EndsStayOver
  <2>2. wake'[g] \in Over
    BY <1>1, <1>3 DEF Over
  <2> QED BY <1>2, <2>1, <2>2, WakesEndOver DEF EndsOver
<1> QED BY <1>5, <1>6, <1>7, <1>8, <1>9, <1>10, <1>11 DEF Shape

-----------------------------------------------------------------------------
(* Commits that leave the cohort as it is. *)

\* What the copy tells of the row.
LEMMA CopyFacts ==
  ASSUME IInv, cmd # Free
  PROVE  /\ cmd \in [kind: Kind, arg: Task \cup 0..MaxGen, copy: Row]
         /\ cmd.copy \in Row /\ SameCohort(cmd.copy)
         /\ ~ Active(cmd.copy) => ~ Active(row)
BY DEF IInv, Types, CmdType, Shape, Locked

\* A handler that has committed has given the lock up.
LEMMA Unlocks ==
  ASSUME cmd' = Free,
         WakeActive' \/ (row'.disposition = "open" /\ \E g \in Gen : Started(g)')
            => ~ Active(row')
  PROVE  ParentSettled' /\ Locked'
BY DEF ParentSettled, Locked

LEMMA DelegateInv == ASSUME IInv, Delegate PROVE IInv'
<1> USE DEF IInv
<1> DEFINE t == cmd.arg
<1>1. cmd # Free /\ cmd' = Free /\ t \in Task /\ task[t].phase = "unborn"
  BY DEF Delegate, Free, Shape, Locked
<1>2. PICK p \in {"always", "settled_only"} :
        task' = [task EXCEPT ![t] = [phase |-> "running", policy |-> p, delivery |-> "none"]]
  BY DEF Delegate
<1>3. UNCHANGED <<row, turn, start, capture, wake, carried, offers, ends, stops, stopped, told>>
  BY DEF Delegate
<1>4. /\ task' \in [Task -> TaskRow]
      /\ \A u \in Task : task'[u].delivery = task[u].delivery
      /\ \A u \in Task : u # t => task'[u] = task[u]
      /\ task'[t].phase = "running" /\ task'[t].delivery = "none"
  BY <1>1, <1>2 DEF Types, TaskType, TaskRow, Shape, TaskShape
<1>5. Types'
  BY <1>1, <1>3, <1>4 DEF Types, RowType, PlainType, TaskType, WakeType, CmdType
<1>6. CohortShape' /\ TaskShape' /\ ToldShape' /\ Spent' = Spent
  BY <1>3, <1>4 DEF Shape, CohortShape, TaskShape, ToldShape, Spent, Started
<1>7. WakeShape' /\ OneWake' /\ CaptureHolds' /\ GenerationsSpent'
  <2>1. row.ids \subseteq Task
    BY DEF Types, RowType, Row
  <2> QED BY <1>3, <1>4, <1>6, <2>1
             DEF Shape, WakeShape, OneWake, CaptureHolds, GenerationsSpent, Waits
<1>8. ParentSettled' /\ Locked'
  BY <1>1, <1>3, Unlocks DEF Shape, ParentSettled, WakeActive, Started
<1>9. EndsOver'
  BY <1>3 DEF EndsOver
<1> QED BY <1>5, <1>6, <1>7, <1>8, <1>9 DEF Shape

\* A row written with the copy's status, and the same cohort.
LEMMA WholeStep ==
  ASSUME IInv, cmd # Free, cmd' = Free, NEW st \in Status,
         st = cmd.copy.status \/ st \in Settled,
         row' = [cmd.copy EXCEPT !.status = st],
         ends' = ParentEnds(row', ends), PlainType', CaptureHolds',
         UNCHANGED <<task, wake, carried, offers, told>>
  PROVE  IInv'
<1> USE DEF IInv
<1>1. RowType' /\ SameCohort(row') /\ row'.status = st
  BY CopyFacts DEF RowType, Row, SameCohort
<1>2. ~ Active(cmd.copy) => ~ Active(row')
  BY <1>1, SettledIsInactive DEF Active, Live
<1>3. Types'
  BY <1>1 DEF Types, TaskType, WakeType, CmdType
<1>4. CohortShape' /\ TaskShape' /\ ToldShape' /\ Spent' = Spent
  BY <1>1 DEF Shape, CohortShape, TaskShape, ToldShape, SameCohort, Spent, Started
<1>5. WakeShape' /\ OneWake'
  BY <1>1 DEF Shape, WakeShape, OneWake, SameCohort, Waits
<1>6. GenerationsSpent'
  BY <1>1, <1>4 DEF Shape, GenerationsSpent, SameCohort
<1>7. ParentSettled' /\ Locked'
  BY <1>1, <1>2, Unlocks DEF Shape, ParentSettled, WakeActive, Started, SameCohort
<1>8. EndsOver'
  BY ParentEndsOver DEF EndsOver
<1> QED BY <1>3, <1>4, <1>5, <1>6, <1>7, <1>8 DEF Shape

LEMMA StopStartInv == ASSUME IInv, StopStart PROVE IInv'
<1>1. cmd # Free /\ cmd' = Free
  BY DEF StopStart, Free
<1>2. /\ row' = [cmd.copy EXCEPT !.status = "interrupted"]
      /\ ends' = ParentEnds(row', ends)
  BY DEF StopStart, WriteWhole, WakesEnd
<1>3. PlainType' /\ CaptureHolds'
  BY DEF StopStart, IInv, Types, PlainType, Shape, CaptureHolds
<1>4. UNCHANGED <<task, wake, carried, offers, told>>
  BY DEF StopStart
<1> QED BY <1>1, <1>2, <1>3, <1>4, WholeStep DEF Settled, Status

\* Nothing but the lock.
LEMMA IdleCommit ==
  ASSUME IInv, cmd # Free, cmd' = Free, PlainType', CaptureHolds', offers' \subseteq offers,
         UNCHANGED <<row, ends, task, wake, carried, told>>
  PROVE  IInv'
<1> USE DEF IInv
<1>1. Types'
  BY DEF Types, RowType, TaskType, WakeType, CmdType
<1>2. CohortShape' /\ TaskShape' /\ ToldShape' /\ GenerationsSpent'
  BY DEF Shape, CohortShape, TaskShape, ToldShape, GenerationsSpent, Spent, Started
<1>3. WakeShape' /\ OneWake'
  BY DEF Shape, WakeShape, OneWake, Waits
<1>4. ParentSettled' /\ Locked'
  BY Unlocks DEF Shape, ParentSettled, WakeActive, Started
<1>5. EndsOver'
  BY DEF EndsOver
<1> QED BY <1>1, <1>2, <1>3, <1>4, <1>5 DEF Shape

-----------------------------------------------------------------------------
(* Stop and cancellation. *)

LEMMA QueuedIsCurrent ==
  ASSUME IInv, cmd # Free
  PROVE  \A g \in Gen : g \in Queued(cmd.copy.gen) <=> Waits(g)
<1>1. cmd.copy.gen = row.gen /\ row.gen \in 0..MaxGen
  BY CopyFacts DEF SameCohort, IInv, Types, RowType, Row
<1>2. \A g \in Gen : g # 0 /\ (Waits(g) => row.gen = g)
  BY DEF IInv, Shape, WakeShape, Gen
<1> QED BY <1>1, <1>2 DEF Queued

LEMMA DisposeInv ==
  ASSUME IInv, cmd # Free, cmd' = Free, NEW d \in {"stopped", "disposed"}, DisposeCohort(d),
         PlainType', CaptureHolds', UNCHANGED <<carried, offers, told>>
  PROVE  IInv'
<1> USE DEF IInv
<1> DEFINE S == Queued(cmd.copy.gen)
<1>1. /\ row' = Disposed(cmd.copy, d)
      /\ ends' = WakesEnd(S, ParentEnds(row', ends))
      /\ wake' = [g \in Gen |-> IF g \in S THEN "cancelled" ELSE wake[g]]
      /\ task' = [t \in Task |-> IF Undecided(t) THEN [task[t] EXCEPT !.delivery = "disposed"]
                                 ELSE task[t]]
  BY DEF DisposeCohort, WriteWhole, Decide
<1>2. /\ RowType' /\ row'.disposition \in {"stopped", "disposed"}
      /\ row'.gen = 0 /\ row'.ids = {} /\ row'.next = row.next /\ row'.status = cmd.copy.status
  <2>1. PICK e \in {"stopped", "disposed"} :
          row' = [cmd.copy EXCEPT !.disposition = e, !.gen = 0, !.ids = {}]
    BY <1>1 DEF Disposed
  <2>2. cmd.copy \in Row /\ cmd.copy.next = row.next /\ 0 \in 0..MaxGen
    BY CopyFacts, TasksAreFinite DEF SameCohort
  <2> QED BY <2>1, <2>2 DEF RowType, Row
<1>3. \A g \in Gen : /\ ~ Waits(g)'
                     /\ wake'[g] = "active" <=> wake[g] = "active"
                     /\ wake'[g] = "none" <=> wake[g] = "none"
                     /\ wake[g] \in Over => wake'[g] \in Over
                     /\ g \in S => wake'[g] \in Over
  BY <1>1, QueuedIsCurrent DEF Waits, Over, Settled
<1>4. \A t \in Task : /\ task'[t].phase = task[t].phase
                      /\ task'[t].delivery # "claimed"
                      /\ task[t].delivery \in Final => task'[t].delivery \in Final
                      /\ t \in row.ids => task'[t].delivery \in Final
                      /\ task[t].delivery = "none" => task'[t].delivery \in {"none", "disposed"}
                      /\ task[t].phase = "unborn" => task'[t].delivery = task[t].delivery
                      /\ task[t].delivery \in {"claimed", "disposed"} => task'[t].delivery \in Final
                      /\ task[t].delivery = "disposed" => task'[t].delivery = "disposed"
  BY <1>1 DEF Types, TaskType, TaskRow, Shape, TaskShape, Undecided, Final
<1>5. Types'
  <2>1. TaskType'
    <3>1. "disposed" \in {"none", "pending", "claimed"} \cup Final
      BY DEF Final
    <3> QED BY <1>1, <3>1 DEF Types, TaskType, TaskRow
  <2>2. WakeType'
    BY <1>1 DEF Types, WakeType
  <2> QED BY <1>2, <2>1, <2>2 DEF Types, CmdType
<1>6. CohortShape'
  BY <1>2 DEF Shape, CohortShape
<1>7. TaskShape'
  BY <1>2, <1>4 DEF Shape, TaskShape
<1>8. ToldShape'
  BY <1>4 DEF Shape, ToldShape
<1>9. GenerationsSpent'
  <2>1. Spent \subseteq Spent' /\ Spent' \subseteq Task
    BY <1>2, <1>4 DEF Spent, Types, RowType, Row
  <2> QED BY <1>2, <2>1, SpentStep DEF Types, Shape
<1>10. WakeShape'
  BY <1>2, <1>3 DEF Shape, WakeShape, Gen
<1>11. OneWake'
  BY <1>3 DEF Shape, OneWake
<1>12. ParentSettled' /\ Locked'
  BY <1>2, <1>3, Unlocks DEF Shape, ParentSettled, WakeActive, Active, Live
<1>13. EndsOver'
  <2>1. ends \in Seq(Ending(wake'))
    BY <1>3, EndsStayOver
  <2>2. ParentEnds(row', ends) \in Seq(Ending(wake'))
    BY <2>1, ParentEndsOver
  <2>3. \A g \in S : g \in Gen /\ wake'[g] \in Over
    <3>1. S \subseteq Gen
      BY CopyFacts DEF Queued, Row, Gen
    <3> QED BY <1>3, <3>1
  <2> QED BY <1>1, <2>2, <2>3, WakesEndOver DEF EndsOver
<1> QED BY <1>5, <1>6, <1>7, <1>8, <1>9, <1>10, <1>11, <1>12, <1>13 DEF Shape

LEMMA StopTurnInv == ASSUME IInv, StopTurn PROVE IInv'
<1>1. cmd # Free /\ cmd' = Free /\ UNCHANGED <<carried, offers, told>>
  BY DEF StopTurn, Free
<1>2. PlainType' /\ CaptureHolds'
  BY DEF StopTurn, IInv, Types, PlainType, Shape, CaptureHolds
<1>3. CASE UNCHANGED <<row, ends, task, wake>>
  BY <1>1, <1>2, <1>3, IdleCommit
<1>4. CASE DisposeCohort("stopped")
  BY <1>1, <1>2, <1>4, DisposeInv
<1> QED BY <1>3, <1>4 DEF StopTurn

LEMMA CancelWakeInv == ASSUME IInv, CancelWake PROVE IInv'
<1>1. cmd # Free /\ cmd' = Free /\ UNCHANGED <<carried, offers, told>>
  BY DEF CancelWake, Free
<1>2. PlainType' /\ CaptureHolds'
  BY DEF CancelWake, IInv, Types, PlainType, Shape, CaptureHolds
<1> QED BY <1>1, <1>2, DisposeInv DEF CancelWake

\* Stop on a wake disposes of what that wake has told; the delivery keeps the
\* ids until the wake's end.
LEMMA StopWakeInv == ASSUME IInv, StopWake PROVE IInv'
<1> USE DEF IInv
<1> DEFINE mine == carried[cmd.arg]
<1>1. cmd # Free /\ cmd' = Free /\ UNCHANGED <<carried, offers, told, turn, start, capture, stops, stopped>>
  BY DEF StopWake, Free
<1>2. PlainType' /\ CaptureHolds'
  BY <1>1 DEF Types, PlainType, Shape, CaptureHolds
<1>3. CASE DisposeCohort("stopped")
  BY <1>1, <1>2, <1>3, DisposeInv
<1>4. CASE /\ cmd.copy.disposition = "open"
           /\ WriteWhole(cmd.copy, {})
           /\ Decide({t \in mine : Undecided(t)}, "disposed")
           /\ UNCHANGED wake
  <2>1. /\ row' = cmd.copy /\ ends' = ParentEnds(row', ends) /\ wake' = wake
        /\ task' = [t \in Task |-> IF t \in mine /\ Undecided(t)
                                   THEN [task[t] EXCEPT !.delivery = "disposed"] ELSE task[t]]
    BY <1>4 DEF WriteWhole, WakesEnd, Decide
  <2>2. /\ RowType' /\ row'.next = row.next /\ row'.gen = row.gen /\ row'.ids = row.ids
        /\ row'.disposition = row.disposition /\ row.disposition = "open"
        /\ cmd.arg \in Gen /\ Started(cmd.arg) /\ row.gen = cmd.arg
    BY <1>1, <1>4, <2>1, CopyFacts DEF RowType, SameCohort, Shape, Locked, StopWake
  <2>3. \A t \in Task : /\ task'[t].phase = task[t].phase
                        /\ task'[t].delivery \in {task[t].delivery, "disposed"}
                        /\ task[t].delivery \in Final => task'[t].delivery = task[t].delivery
                        /\ task[t].phase = "unborn" => task'[t].delivery = task[t].delivery
    BY <2>1 DEF Types, TaskType, TaskRow, Undecided
  <2>4. Types'
    <3>1. TaskType'
      <4>1. "disposed" \in {"none", "pending", "claimed"} \cup Final
        BY DEF Final
      <4> QED BY <1>1, <2>1, <4>1 DEF Types, TaskType, TaskRow
    <3> QED BY <1>1, <1>2, <2>1, <2>2, <3>1 DEF Types, WakeType, CmdType
  <2>5. CohortShape'
    BY <2>2 DEF Shape, CohortShape
  <2>6. TaskShape'
    BY <2>2, <2>3 DEF Shape, TaskShape, Final
  <2>7. ToldShape'
    BY <1>1, <2>1, <2>2, <2>3 DEF Shape, ToldShape, Started, Final
  <2>8. GenerationsSpent'
    <3>1. Spent \subseteq Spent' /\ Spent' \subseteq Task
      BY <2>2, <2>3 DEF Spent, Types, RowType, Row
    <3> QED BY <2>2, <3>1, SpentStep DEF Types, Shape
  <2>9. WakeShape' /\ OneWake'
    <3>1. ~ Waits(row.gen) /\ wake[row.gen] # "none"
      BY <2>2 DEF Started, Waits, Settled
    <3> QED BY <1>1, <2>1, <2>2, <3>1 DEF Shape, WakeShape, OneWake, Waits
  <2>10. ParentSettled' /\ Locked'
    BY <1>1, <2>1, <2>2, Unlocks DEF Shape, ParentSettled, WakeActive, Started
  <2>11. EndsOver'
    BY <2>1, ParentEndsOver DEF EndsOver
  <2> QED BY <1>2, <2>4, <2>5, <2>6, <2>7, <2>8, <2>9, <2>10, <2>11 DEF Shape
<1> QED BY <1>3, <1>4 DEF StopWake

-----------------------------------------------------------------------------
(* The parent reads a result by itself. *)

LEMMA AcknowledgeInv == ASSUME IInv, Acknowledge PROVE IInv'
<1> USE DEF IInv
<1> DEFINE t == cmd.arg
           r == cmd.copy
           rest == r.ids \ {t}
           S == IF rest = {} THEN Queued(r.gen) ELSE {}
           clear == rest = {} /\ (wake[r.gen] = "none" \/ Waits(r.gen))
<1>1. cmd # Free /\ cmd' = Free /\ UNCHANGED <<turn, start, capture, offers, stops, stopped, told>>
  BY DEF Acknowledge, Free
<1>2. PlainType' /\ CaptureHolds'
  BY <1>1 DEF Types, PlainType, Shape, CaptureHolds
<1>3. /\ r \in Row /\ r.disposition = row.disposition /\ r.next = row.next
      /\ r.gen = row.gen /\ r.ids = row.ids
      /\ t \in Task /\ task[t].phase = "done"
  BY <1>1, CopyFacts DEF SameCohort, Shape, Locked, Acknowledge
<1>4. task' = [u \in Task |-> IF u \in {t} THEN [task[u] EXCEPT !.delivery = "acknowledged"]
                              ELSE task[u]]
  BY DEF Acknowledge, Decide
<1>5. /\ \A u \in Task : u # t => task'[u] = task[u]
      /\ task'[t].phase = "done" /\ task'[t].delivery = "acknowledged"
  BY <1>3, <1>4 DEF Types, TaskType, TaskRow
<1>6. TaskType'
  <2>1. "acknowledged" \in {"none", "pending", "claimed"} \cup Final
    BY DEF Final
  <2> QED BY <1>1, <1>4, <2>1 DEF Types, TaskType, TaskRow
<1>7. "acknowledged" \in Final
  BY DEF Final
<1>8. \A u \in Task : task[u].delivery \in Final => task'[u].delivery \in Final
  BY <1>5, <1>7
<1>9. CASE ~ (r.gen # 0 /\ t \in r.ids)
  <2>1. UNCHANGED <<row, ends, wake, carried>> /\ t \notin row.ids
    BY <1>3, <1>9 DEF Acknowledge, Shape, CohortShape
  <2>2. Types'
    BY <1>1, <1>2, <1>6, <2>1 DEF Types, RowType, WakeType, CmdType
  <2>3. CohortShape'
    BY <2>1 DEF Shape, CohortShape
  <2>4. TaskShape'
    BY <1>5, <1>7, <2>1 DEF Shape, TaskShape
  <2>5. ToldShape'
    BY <1>1, <1>5, <1>7, <2>1 DEF Shape, ToldShape, Started
  <2>6. GenerationsSpent'
    <3>1. Spent \subseteq Spent' /\ Spent' \subseteq Task
      BY <1>8, <2>1 DEF Spent, Types, RowType, Row
    <3> QED BY <2>1, <3>1, SpentStep DEF Types, Shape
  <2>7. WakeShape' /\ OneWake'
    <3>1. row.ids \subseteq Task
      BY DEF Types, RowType, Row
    <3> QED BY <1>5, <2>1, <3>1 DEF Shape, WakeShape, OneWake, Waits
  <2>8. ParentSettled' /\ Locked'
    BY <1>1, <2>1, Unlocks DEF Shape, ParentSettled, WakeActive, Started
  <2>9. EndsOver'
    BY <2>1 DEF EndsOver
  <2> QED BY <1>2, <2>2, <2>3, <2>4, <2>5, <2>6, <2>7, <2>8, <2>9 DEF Shape
<1>10. CASE r.gen # 0 /\ t \in r.ids
  <2>1. /\ row' = Merged([r EXCEPT !.ids = rest, !.gen = IF clear THEN 0 ELSE @])
        /\ ends' = WakesEnd(S, ParentEnds(row', ends))
        /\ wake' = [g \in Gen |-> IF g \in S THEN "cancelled" ELSE wake[g]]
        /\ carried' = [g \in Gen |-> IF g \in Queued(r.gen) \ S THEN rest ELSE carried[g]]
    BY <1>10 DEF Acknowledge
  <2>2. row.gen \in Gen /\ row.disposition = "open" /\ row.ids \subseteq Task
    BY <1>3, <1>10 DEF Types, RowType, Row, Gen, Shape, CohortShape
  <2>3. /\ RowType' /\ row'.ids = rest /\ row'.gen = (IF clear THEN 0 ELSE row.gen)
        /\ row'.next = row.next /\ row'.disposition = "open" /\ row'.status = row.status
    <3>1. PICK g \in {0, row.gen} : /\ g = IF clear THEN 0 ELSE row.gen
                                    /\ row' = Merged([r EXCEPT !.ids = rest, !.gen = g])
      BY <1>3, <2>1
    <3>2. row' = [r EXCEPT !.ids = rest, !.gen = g, !.status = row.status,
                           !.checkpoint = row.checkpoint]
      BY <1>3, <3>1 DEF Merged
    <3>3. g \in 0..MaxGen
      BY <2>2, TasksAreFinite DEF Gen
    <3>4. row.status \in Status /\ row.checkpoint \in BOOLEAN /\ rest \in SUBSET Task
      BY <1>3, <2>2 DEF Types, RowType, Row
    <3>5. /\ row'.ids = rest /\ row'.gen = g /\ row'.next = r.next
          /\ row'.disposition = r.disposition /\ row'.status = row.status
      BY <1>3, <3>2 DEF Row
    <3>6. row' \in Row
      BY <1>3, <3>2, <3>3, <3>4 DEF Row
    <3> QED BY <1>3, <2>2, <3>1, <3>5, <3>6 DEF RowType
  <2>4. \A g \in Gen : g \in Queued(r.gen) <=> Waits(g)
    BY <1>1, QueuedIsCurrent
  <2>5. \A g \in Gen : g \in S <=> rest = {} /\ Waits(g)
    BY <2>4
  <2>6. \A g \in Gen : /\ wake'[g] = IF g \in S THEN "cancelled" ELSE wake[g]
                       /\ Waits(g)' <=> Waits(g) /\ rest # {}
                       /\ wake'[g] = "active" <=> wake[g] = "active"
                       /\ wake'[g] = "none" <=> wake[g] = "none"
                       /\ Started(g)' <=> Started(g)
                       /\ wake[g] \in Over => wake'[g] \in Over
                       /\ carried'[g] = IF Waits(g) /\ rest # {} THEN rest ELSE carried[g]
    BY <2>1, <2>4, <2>5 DEF Waits, Started, Over, Settled
  <2>7. Types'
    <3>1. WakeType'
      BY <1>1, <2>1, <2>2, <1>3 DEF Types, WakeType
    <3> QED BY <1>1, <1>2, <1>6, <2>3, <3>1 DEF Types, CmdType
  <2>8. CohortShape'
    BY <2>2, <2>3 DEF Shape, CohortShape, Gen
  <2>9. TaskShape'
    BY <1>3, <1>5, <1>7, <2>3 DEF Shape, TaskShape
  <2>10. ToldShape'
    <3>1. \A u \in Task : u # t /\ told[u] # 0 /\ task[u].delivery = "claimed" =>
            u \in rest /\ Started(row.gen)
      BY <1>3, <1>7 DEF Shape, ToldShape, TaskShape, Final
    <3> QED BY <1>1, <1>5, <1>7, <2>2, <2>3, <2>6, <3>1 DEF Shape, ToldShape
  <2>11. GenerationsSpent'
    <3>1. Spent \subseteq Spent' /\ Spent' \subseteq Task
      BY <1>3, <1>5, <1>7, <1>8, <2>2, <2>3 DEF Spent
    <3> QED BY <2>3, <3>1, SpentStep DEF Types, Shape
  <2>12. WakeShape'
    <3>1. ASSUME NEW g \in Gen
          PROVE  /\ g >= row'.next => wake'[g] = "none"
                 /\ Waits(g)' => row'.gen = g /\ carried'[g] = row'.ids
                 /\ wake'[g] = "active" => row'.gen = g
      BY <1>3, <2>2, <2>3, <2>6 DEF Shape, WakeShape, Waits
    <3>2. ASSUME NEW g \in Gen, row'.gen = g
          PROVE  /\ wake'[g] # "cancelled"
                 /\ wake'[g] = "none" \/ Waits(g)' =>
                      row'.ids # {} /\ \A u \in row'.ids : task'[u].delivery = "claimed"
      <4>1. g # 0 /\ row.gen = g /\ ~ clear
        BY <2>3, <3>2 DEF Gen
      <4>2. wake[g] # "cancelled" /\ g \notin S
        BY <1>3, <2>5, <4>1 DEF Shape, WakeShape
      <4>3. wake'[g] = "none" \/ Waits(g)' => rest # {} /\ (wake[g] = "none" \/ Waits(g))
        BY <1>3, <2>6, <4>1
      <4> QED BY <1>3, <1>5, <2>2, <2>3, <2>6, <4>1, <4>2, <4>3 DEF Shape, WakeShape
    <3> QED BY <3>1, <3>2 DEF WakeShape
  <2>13. OneWake'
    BY <2>6 DEF Shape, OneWake
  <2>14. ParentSettled' /\ Locked'
    BY <1>1, <2>2, <2>3, <2>6, Unlocks DEF Shape, ParentSettled, WakeActive, Active, Live
  <2>15. EndsOver'
    <3>1. ends \in Seq(Ending(wake'))
      BY <2>6, EndsStayOver
    <3>2. ParentEnds(row', ends) \in Seq(Ending(wake'))
      BY <3>1, ParentEndsOver
    <3>3. \A g \in S : g \in Gen /\ wake'[g] \in Over
      <4>1. S \subseteq Gen
        BY <1>3, <2>2 DEF Queued
      <4> QED BY <2>6, <4>1 DEF Over
    <3> QED BY <2>1, <3>2, <3>3, WakesEndOver DEF EndsOver
  <2> QED BY <1>2, <2>7, <2>8, <2>9, <2>10, <2>11, <2>12, <2>13, <2>14, <2>15 DEF Shape
<1> QED BY <1>9, <1>10

-----------------------------------------------------------------------------
(* A task ends, or its result is to wake the parent from now on.            *)

\* The ways of planDelegatedCompletionDelivery with a result: nothing changes;
\* the result is put off or disposed of; it joins the delivery that has not
\* started; it opens the next generation.
Keeps(p, t) == p.run = cmd.copy /\ p.delivery = task[t].delivery

PutsOff(p, t) ==
  /\ p.run = cmd.copy /\ p.delivery \in {"disposed", "pending"}
  /\ task[t].delivery \notin {"claimed"} \cup Final

Joins(p, t) ==
  /\ row.gen # 0 /\ (wake[row.gen] = "none" \/ Waits(row.gen))
  /\ p.delivery = "claimed" /\ task[t].delivery \notin Final
  /\ p.run = [cmd.copy EXCEPT !.ids = @ \cup {t}]

Reserves(p, t) ==
  /\ row.gen = 0 /\ row.disposition \notin {"stopped", "disposed"}
  /\ p.delivery = "claimed" /\ task[t].delivery \notin Final
  /\ p.run = [cmd.copy EXCEPT !.disposition = "open", !.next = @ + 1,
                              !.gen = cmd.copy.next, !.ids = {t}]

LEMMA PlanWays ==
  ASSUME IInv, cmd # Free, NEW t \in Task, NEW pol,
         task[t].delivery # "claimed" \/ Live(cmd.copy)
  PROVE  LET p == PlanDelivery(t, pol, cmd.copy)
         IN  /\ Keeps(p, t) \/ PutsOff(p, t) \/ Joins(p, t) \/ Reserves(p, t)
             /\ DOMAIN p = {"delivery", "run", "offer"}
<1> USE DEF IInv
<1> DEFINE p == PlanDelivery(t, pol, cmd.copy)
           r == cmd.copy
<1>1. /\ r.gen = row.gen /\ r.disposition = row.disposition /\ r.next = row.next
      /\ r.ids = row.ids /\ row.gen \in {0} \cup Gen
  BY CopyFacts DEF SameCohort, Types, RowType, Row, Gen
<1>2. task[t].delivery = "claimed" => /\ row.disposition = "open" /\ row.gen # 0
                                      /\ ~ Started(row.gen)
  <2>1. task[t].delivery = "claimed" => row.disposition = "open" /\ row.gen # 0
    BY DEF Shape, TaskShape, CohortShape
  <2>2. task[t].delivery = "claimed" => Active(cmd.copy)
    BY DEF Active
  <2> QED BY <1>1, <2>1, <2>2 DEF Shape, ParentSettled
<1>3. row.gen # 0 => wake[row.gen] \in {"none", "queued", "held", "active"} \cup Settled
  BY <1>1 DEF Types, WakeType, Shape, WakeShape
<1>4. CASE task[t].delivery \in Final
  BY <1>4 DEF PlanDelivery, Keeps
<1>5. CASE task[t].delivery \notin Final /\ r.disposition \in {"stopped", "disposed"}
  BY <1>1, <1>2, <1>5 DEF PlanDelivery, PutsOff
<1>6. CASE task[t].delivery \notin Final /\ r.disposition \notin {"stopped", "disposed"}
  <2>1. CASE pol = "settled_only" /\ Live(r)
    BY <1>6, <2>1 DEF PlanDelivery, Keeps
  <2>2. CASE ~ (pol = "settled_only" /\ Live(r)) /\ row.gen = 0
    BY <1>1, <1>6, <2>2 DEF PlanDelivery, Reserves
  <2>3. CASE ~ (pol = "settled_only" /\ Live(r)) /\ row.gen # 0
    <3>1. CASE wake[row.gen] = "none" \/ Waits(row.gen)
      BY <1>1, <1>6, <2>3, <3>1 DEF PlanDelivery, Joins
    <3>2. CASE ~ (wake[row.gen] = "none" \/ Waits(row.gen))
      <4>1. Started(row.gen)
        BY <1>3, <2>3, <3>2 DEF Waits, Started
      <4>2. p = [delivery |-> "pending", run |-> r, offer |-> FALSE]
        BY <1>1, <1>6, <2>3, <3>2 DEF PlanDelivery
      <4> QED BY <1>2, <1>6, <4>1, <4>2 DEF PutsOff
    <3> QED BY <3>1, <3>2
  <2> QED BY <2>1, <2>2, <2>3
<1> QED BY <1>4, <1>5, <1>6

\* What Reserve writes of the row.
LEMMA Merges ==
  ASSUME IInv, cmd # Free, NEW r \in Row, WriteMerged(r)
  PROVE  /\ row'.disposition = r.disposition /\ row'.next = r.next /\ row'.gen = r.gen
         /\ row'.ids = r.ids /\ row'.status = row.status /\ row' \in Row
         /\ ends' \in {ends, ParentEnds(row', ends)}
<1>1. SameCohort(cmd.copy) /\ row \in Row
  BY CopyFacts DEF IInv, Types, RowType
<1>2. CASE r = cmd.copy
  BY <1>1, <1>2 DEF WriteMerged, SameCohort
<1>3. CASE r # cmd.copy
  <2>1. /\ row' = [r EXCEPT !.status = row.status, !.checkpoint = row.checkpoint]
        /\ ends' = ParentEnds(row', ends)
    BY <1>3 DEF WriteMerged, Merged
  <2> QED BY <1>1, <2>1 DEF Row
<1> QED BY <1>2, <1>3

\* A generation that can be reserved has a number left.
LEMMA RoomForGeneration ==
  ASSUME IInv, NEW t \in Task, row.gen = 0, task[t].delivery \notin Final
  PROVE  row.next \in 1..MaxGen
<1>1. Spent \subseteq Task /\ t \notin Spent /\ row.next \in 1..MaxGen + 1
  BY DEF IInv, Types, RowType, Row, Shape, CohortShape, Spent
<1>2. Cardinality(Spent) + 1 <= Cardinality(Spent \cup {t})
  BY <1>1, SpentBounds
<1>3. Cardinality(Spent \cup {t}) <= MaxGen /\ Cardinality(Spent \cup {t}) \in Nat
  BY <1>1, SpentBounds
<1>4. Cardinality(Spent) \in Nat
  BY <1>1, SpentBounds
<1> QED BY <1>1, <1>2, <1>3, <1>4, TasksAreFinite DEF IInv, Shape, GenerationsSpent

LEMMA PlanStep ==
  ASSUME IInv, cmd # Free, cmd' = Free, NEW t \in Task, NEW p,
         Keeps(p, t) \/ PutsOff(p, t) \/ Joins(p, t) \/ Reserves(p, t), Reserve(p),
         task' \in [Task -> TaskRow], \A u \in Task : u # t => task'[u] = task[u],
         task'[t].delivery = p.delivery,
         task'[t].phase = "done" \/ (Keeps(p, t) /\ task'[t].phase = task[t].phase),
         UNCHANGED <<turn, start, capture, wake, stops, stopped, told>>
  PROVE  IInv'
<1> USE DEF IInv
<1> DEFINE r == cmd.copy
<1>1. /\ r \in Row /\ r.disposition = row.disposition /\ r.next = row.next
      /\ r.gen = row.gen /\ r.ids = row.ids /\ row \in Row
  BY CopyFacts DEF SameCohort, Types, RowType
<1>2. /\ WriteMerged(p.run)
      /\ carried' = [g \in Gen |-> IF g \in Queued(r.gen) THEN p.run.ids ELSE carried[g]]
      /\ offers' = offers \/ offers' = offers \cup Offerable(p.run)
  BY DEF Reserve
<1>3. PlainType' /\ CaptureHolds'
  BY DEF Types, PlainType, Shape, CaptureHolds
<1>4. TaskType'
  BY DEF TaskType, Types
<1>5. \A g \in Gen : carried'[g] = IF Waits(g) THEN p.run.ids ELSE carried[g]
  BY <1>2, QueuedIsCurrent
<1>6. \A g \in Gen : (Started(g)' <=> Started(g)) /\ (Waits(g)' <=> Waits(g))
  BY DEF Started, Waits
\* What every way has to show of the row.
<1>7. SUFFICES /\ row'.status = row.status /\ row' \in Row
               /\ ends' \in {ends, ParentEnds(row', ends)}
               /\ p.run.ids = row'.ids /\ p.run.gen = row'.gen
               /\ CohortShape' /\ TaskShape' /\ WakeShape' /\ ToldShape'
               /\ Spent \subseteq Spent'
               /\ row'.next = row.next \/ (row'.next = row.next + 1 /\ Spent # Spent')
               /\ row'.disposition = "open" /\ (\E g \in Gen : Started(g))
                    => row.disposition = "open"
  <2>1. Types'
    <3>1. Offerable(p.run) \subseteq Gen
      BY <1>7 DEF Offerable, Row, Gen
    <3>2. p.run.ids \in SUBSET Task
      BY <1>7 DEF Row
    <3>3. WakeType'
      BY <1>2, <3>1, <3>2 DEF WakeType, Types
    <3> QED BY <1>3, <1>4, <1>7, <3>3 DEF Types, RowType, CmdType
  <2>2. GenerationsSpent'
    <3>1. Spent' \subseteq Task
      BY <1>7 DEF Spent, Row
    <3> QED BY <1>7, <3>1, SpentStep DEF Types, Shape
  <2>3. ParentSettled' /\ Locked'
    BY <1>6, <1>7, Unlocks DEF Shape, ParentSettled, WakeActive, Active, Live
  <2>4. OneWake' /\ EndsOver'
    BY <1>7, ParentEndsOver DEF Shape, OneWake, EndsOver
  <2> QED BY <1>3, <1>7, <2>1, <2>2, <2>3, <2>4 DEF Shape
<1>8. CASE Keeps(p, t) \/ PutsOff(p, t)
  <2>2. /\ row'.disposition = row.disposition /\ row'.next = row.next /\ row'.gen = row.gen
        /\ row'.ids = row.ids /\ row'.status = row.status /\ row' \in Row
        /\ ends' \in {ends, ParentEnds(row', ends)}
    <3>1. p.run = r
      BY <1>8 DEF Keeps, PutsOff
    <3> QED BY <1>1, <1>2, <3>1, Merges
  <2>3. p.run = r
    BY <1>8 DEF Keeps, PutsOff
  <2>4. \/ task'[t].delivery = task[t].delivery
        \/ /\ task'[t].delivery \in {"disposed", "pending"} /\ task'[t].phase = "done"
           /\ task[t].delivery \notin {"claimed"} \cup Final
    BY <1>8 DEF Keeps, PutsOff
  <2>5. CohortShape'
    BY <2>2 DEF Shape, CohortShape
  <2>6. TaskShape'
    BY <2>2, <2>4 DEF Shape, TaskShape, Types, TaskType
  <2>7. WakeShape'
    <3>1. \A u \in row.ids : task[u].delivery = "claimed" => task'[u].delivery = "claimed"
      BY <1>1, <2>4 DEF Row
    <3> QED BY <1>1, <1>5, <1>6, <2>2, <2>3, <3>1 DEF Shape, WakeShape
  <2>8. ToldShape'
    BY <2>2, <2>4 DEF Shape, ToldShape, Started
  <2>9. Spent \subseteq Spent'
    BY <2>2, <2>4 DEF Spent
  <2> QED BY <1>1, <2>2, <2>3, <2>5, <2>6, <2>7, <2>8, <2>9
<1>9. CASE Joins(p, t)
  <2>1. /\ p.run \in Row /\ p.run.disposition = r.disposition /\ p.run.next = r.next
        /\ p.run.gen = r.gen /\ p.run.ids = r.ids \cup {t}
    <3>1. p.run = [r EXCEPT !.ids = @ \cup {t}]
      BY <1>9 DEF Joins
    <3> QED BY <1>1, <3>1 DEF Row
  <2>2. /\ row'.disposition = row.disposition /\ row'.next = row.next /\ row'.gen = row.gen
        /\ row'.ids = row.ids \cup {t} /\ row'.status = row.status /\ row' \in Row
        /\ ends' \in {ends, ParentEnds(row', ends)}
    BY <1>1, <1>2, <2>1, Merges
  <2>3. p.run.ids = row'.ids /\ p.run.gen = row'.gen
    BY <1>1, <2>1, <2>2
  <2>4. /\ row.gen \in Gen /\ ~ Started(row.gen) /\ (wake[row.gen] = "none" \/ Waits(row.gen))
        /\ task[t].delivery \notin Final /\ task'[t].delivery = "claimed"
        /\ task'[t].phase = "done" \/ task'[t].phase = task[t].phase
    BY <1>1, <1>9 DEF Joins, Row, Gen, Started, Waits, Settled
  <2>5. CohortShape'
    BY <2>2, <2>4 DEF Shape, CohortShape, Gen
  <2>6. TaskShape'
    <3>1. task'[t].phase = "done" \/ task[t].delivery = "claimed"
      BY <1>9 DEF Joins, Keeps
    <3> QED BY <2>2, <2>4, <3>1 DEF Shape, TaskShape
  <2>7. WakeShape'
    <3>1. \A u \in row'.ids : task'[u].delivery = "claimed"
      BY <1>1, <2>2, <2>4 DEF Shape, WakeShape, Row
    <3> QED BY <1>5, <1>6, <2>2, <2>3, <2>4, <3>1 DEF Shape, WakeShape
  <2>8. ToldShape'
    <3>1. told[t] = 0
      BY <2>4 DEF Shape, ToldShape
    <3> QED BY <2>2, <3>1 DEF Shape, ToldShape, Started
  <2>9. Spent \subseteq Spent'
    BY <2>2, <2>4 DEF Spent
  <2> QED BY <2>2, <2>3, <2>5, <2>6, <2>7, <2>8, <2>9
<1>10. CASE Reserves(p, t)
  <2>1. row.gen = 0 /\ row.ids = {} /\ row.next \in 1..MaxGen
    BY <1>10, RoomForGeneration DEF Reserves, Shape, CohortShape
  <2>2. /\ p.run \in Row /\ p.run.disposition = "open" /\ p.run.next = r.next + 1
        /\ p.run.gen = r.next /\ p.run.ids = {t}
    <3>1. p.run = [r EXCEPT !.disposition = "open", !.next = @ + 1, !.gen = r.next, !.ids = {t}]
      BY <1>10 DEF Reserves
    <3>2. r.next + 1 \in 1..MaxGen + 1 /\ r.next \in 0..MaxGen /\ {t} \in SUBSET Task
      BY <1>1, <2>1, TasksAreFinite
    <3>3. /\ p.run.disposition = "open" /\ p.run.next = r.next + 1
          /\ p.run.gen = r.next /\ p.run.ids = {t}
      BY <1>1, <3>1 DEF Row
    <3>4. p.run \in Row
      BY <1>1, <3>1, <3>2 DEF Row
    <3> QED BY <3>3, <3>4
  <2>3. /\ row'.disposition = "open" /\ row'.next = row.next + 1 /\ row'.gen = row.next
        /\ row'.ids = {t} /\ row'.status = row.status /\ row' \in Row
        /\ ends' \in {ends, ParentEnds(row', ends)}
    BY <1>1, <1>2, <2>2, Merges
  <2>4. p.run.ids = row'.ids /\ p.run.gen = row'.gen
    BY <1>1, <2>2, <2>3
  <2>5. /\ task[t].delivery \notin {"claimed"} \cup Final /\ task'[t].delivery = "claimed"
        /\ task'[t].phase = "done"
        /\ \A u \in Task : task[u].delivery # "claimed"
        /\ row.disposition \in {"none", "open"}
    BY <1>1, <1>10, <2>1 DEF Reserves, Keeps, Shape, TaskShape, Row
  <2>6. CohortShape'
    BY <2>1, <2>3 DEF CohortShape
  <2>7. TaskShape'
    BY <2>1, <2>3, <2>5 DEF Shape, TaskShape
  <2>8. \A g \in Gen : /\ wake[g] # "active" \/ row.disposition # "open"
                       /\ g >= row.next => wake[g] = "none"
                       /\ row.disposition = "none" => wake[g] = "none"
                       /\ ~ Waits(g)
    BY <2>1 DEF Shape, WakeShape, CohortShape, Gen
  <2>9. WakeShape'
    BY <1>6, <2>1, <2>3, <2>4, <2>5, <2>8 DEF WakeShape, Gen
  <2>10. ToldShape'
    BY <2>5 DEF Shape, ToldShape
  <2>11. Spent \subseteq Spent' /\ t \in Spent' \ Spent
    BY <2>1, <2>3, <2>5 DEF Spent
  <2>12. (\E g \in Gen : Started(g)) => row.disposition = "open"
    BY <2>5, <2>8 DEF Started, Settled
  <2> QED BY <2>3, <2>4, <2>6, <2>7, <2>9, <2>10, <2>11, <2>12
<1> QED BY <1>8, <1>9, <1>10

\* The delivery of a planned result has its type.
LEMMA PlannedType ==
  ASSUME TaskType, NEW t \in Task, NEW p,
         Keeps(p, t) \/ PutsOff(p, t) \/ Joins(p, t) \/ Reserves(p, t)
  PROVE  p.delivery \in {"none", "pending", "claimed"} \cup Final
BY DEF TaskType, TaskRow, Keeps, PutsOff, Joins, Reserves, Final

LEMMA EndTaskInv == ASSUME IInv, EndTask PROVE IInv'
<1> DEFINE t == cmd.arg
           p == PlanDelivery(t, task[t].policy, cmd.copy)
<1>1. cmd # Free /\ cmd' = Free /\ t \in Task
  BY DEF EndTask, Free, IInv, Shape, Locked
<1>2. /\ Reserve(p)
      /\ task' = [task EXCEPT ![t].phase = "done", ![t].delivery = p.delivery]
      /\ UNCHANGED <<turn, start, capture, wake, stops, stopped, told>>
  BY DEF EndTask
<1>3. task[t].delivery # "claimed"
  BY <1>1 DEF EndTask, IInv, Shape, TaskShape, Locked
<1>4. Keeps(p, t) \/ PutsOff(p, t) \/ Joins(p, t) \/ Reserves(p, t)
  BY <1>1, <1>3, PlanWays
<1>5. p.delivery \in {"none", "pending", "claimed"} \cup Final
  BY <1>1, <1>4, PlannedType DEF IInv, Types
<1>6. /\ task' \in [Task -> TaskRow] /\ \A u \in Task : u # t => task'[u] = task[u]
      /\ task'[t].delivery = p.delivery /\ task'[t].phase = "done"
  BY <1>1, <1>2, <1>5 DEF IInv, Types, TaskType, TaskRow
<1> QED BY <1>1, <1>2, <1>4, <1>6, PlanStep

LEMMA SetPolicyInv == ASSUME IInv, SetPolicy PROVE IInv'
<1> DEFINE t == cmd.arg
           q == PlanDelivery(t, "always", cmd.copy)
           p == IF task[t].phase = "done" /\ Live(cmd.copy) THEN [q EXCEPT !.offer = TRUE]
                ELSE [delivery |-> task[t].delivery, run |-> cmd.copy, offer |-> TRUE]
<1>1. cmd # Free /\ cmd' = Free /\ t \in Task
  BY DEF SetPolicy, Free, IInv, Shape, Locked
<1>2. /\ Reserve(p)
      /\ task' = [task EXCEPT ![t].policy = "always", ![t].delivery = p.delivery]
      /\ UNCHANGED <<turn, start, capture, wake, stops, stopped, told>>
  BY DEF SetPolicy
<1>3. /\ Keeps(p, t) \/ PutsOff(p, t) \/ Joins(p, t) \/ Reserves(p, t)
      /\ Keeps(p, t) \/ task[t].phase = "done"
  <2>1. CASE task[t].phase = "done" /\ Live(cmd.copy)
    <3>1. /\ Keeps(q, t) \/ PutsOff(q, t) \/ Joins(q, t) \/ Reserves(q, t)
          /\ DOMAIN q = {"delivery", "run", "offer"}
      BY <1>1, <2>1, PlanWays
    <3>2. p = [q EXCEPT !.offer = TRUE]
      BY <2>1
    <3>3. p.run = q.run /\ p.delivery = q.delivery
      BY <3>1, <3>2
    <3> QED BY <2>1, <3>1, <3>3 DEF Keeps, PutsOff, Joins, Reserves
  <2>2. CASE ~ (task[t].phase = "done" /\ Live(cmd.copy))
    <3>1. p.run = cmd.copy /\ p.delivery = task[t].delivery
      BY <2>2
    <3> QED BY <3>1 DEF Keeps
  <2> QED BY <2>1, <2>2
<1>4. p.delivery \in {"none", "pending", "claimed"} \cup Final
  BY <1>1, <1>3, PlannedType DEF IInv, Types
<1>5. /\ task' \in [Task -> TaskRow] /\ \A u \in Task : u # t => task'[u] = task[u]
      /\ task'[t].delivery = p.delivery /\ task'[t].phase = task[t].phase
  <2> HIDE DEF p
  <2> QED BY <1>1, <1>2, <1>4 DEF IInv, Types, TaskType, TaskRow
<1> HIDE DEF p
<1> QED BY <1>1, <1>2, <1>3, <1>5, PlanStep

-----------------------------------------------------------------------------
(* Wakes. *)

\* A wake begins to wait, or waits in another way; the lock is freed or kept.
LEMMA WaitStep ==
  ASSUME IInv, cmd # Free, CmdType', Locked',
         cmd' = Free \/ cmd'.copy = row,
         wake' \in [Gen -> {"none", "queued", "held", "active", "cancelled"} \cup Settled],
         carried' \in [Gen -> SUBSET Task], offers' \subseteq Gen,
         \A g \in Gen : \/ wake'[g] = wake[g] /\ (carried'[g] = carried[g] \/ ~ Waits(g))
                        \/ /\ row.gen = g /\ wake[g] \in {"none", "queued", "held"}
                           /\ wake'[g] \in {"queued", "held"} /\ carried'[g] = row.ids,
         UNCHANGED <<row, turn, start, capture, task, ends, stops, stopped, told>>
  PROVE  IInv'
<1> USE DEF IInv
<1>1. Types'
  BY DEF Types, RowType, PlainType, TaskType, WakeType
<1>2. \A g \in Gen : /\ Started(g)' <=> Started(g)
                     /\ wake'[g] = "active" <=> wake[g] = "active"
                     /\ wake'[g] = "cancelled" <=> wake[g] = "cancelled"
                     /\ wake[g] \in Over => wake'[g] \in Over
  BY DEF Started, Over, Settled
<1>3. CohortShape' /\ TaskShape' /\ GenerationsSpent' /\ CaptureHolds'
  BY DEF Shape, CohortShape, TaskShape, GenerationsSpent, Spent, CaptureHolds
<1>4. ToldShape'
  <2>1. \A t \in Task : task[t].delivery = "claimed" => row.gen \in Gen
    BY DEF Shape, TaskShape, CohortShape, Types, RowType, Row, Gen
  <2> QED BY <1>2, <2>1 DEF Shape, ToldShape
<1>5. WakeShape'
  <2>1. ASSUME NEW g \in Gen, wake'[g] = wake[g], carried'[g] = carried[g] \/ ~ Waits(g)
        PROVE  /\ g >= row'.next => wake'[g] = "none"
               /\ Waits(g)' => row'.gen = g /\ carried'[g] = row'.ids
               /\ wake'[g] = "active" /\ row'.disposition = "open" => row'.gen = g
               /\ row'.gen = g => wake'[g] # "cancelled"
               /\ row'.gen = g /\ (wake'[g] = "none" \/ Waits(g)') =>
                    row'.ids # {} /\ \A t \in row'.ids : task'[t].delivery = "claimed"
    BY <2>1 DEF Shape, WakeShape, Waits
  <2>2. ASSUME NEW g \in Gen, row.gen = g, wake[g] \in {"none", "queued", "held"},
               wake'[g] \in {"queued", "held"}, carried'[g] = row.ids
        PROVE  /\ g >= row'.next => wake'[g] = "none"
               /\ Waits(g)' => row'.gen = g /\ carried'[g] = row'.ids
               /\ wake'[g] = "active" /\ row'.disposition = "open" => row'.gen = g
               /\ row'.gen = g => wake'[g] # "cancelled"
               /\ row'.gen = g /\ (wake'[g] = "none" \/ Waits(g)') =>
                    row'.ids # {} /\ \A t \in row'.ids : task'[t].delivery = "claimed"
    <3>1. ~ (g >= row.next)
      BY <2>2 DEF Shape, CohortShape, Gen
    <3> QED BY <2>2, <3>1 DEF Shape, WakeShape, Waits
  <2> QED BY <2>1, <2>2 DEF WakeShape
<1>6. OneWake'
  BY <1>2 DEF Shape, OneWake
<1>7. ParentSettled'
  BY <1>2 DEF Shape, ParentSettled, WakeActive
<1>8. EndsOver'
  BY <1>2, EndsStayOver DEF EndsOver
<1> QED BY <1>1, <1>3, <1>4, <1>5, <1>6, <1>7, <1>8 DEF Shape

\* The current wake starts, in an idle thread, with the results of its message.
LEMMA StartStep ==
  ASSUME IInv, cmd # Free, cmd' = Free, NEW g \in Gen, row.gen = g,
         wake[g] \in {"none", "queued"}, Idle, StartWake(g, row.ids),
         carried' \in [Gen -> SUBSET Task], offers' \subseteq Gen,
         UNCHANGED <<row, turn, start, capture, task, ends, stops, stopped>>
  PROVE  IInv'
<1> USE DEF IInv
<1>1. /\ wake' = [wake EXCEPT ![g] = "active"]
      /\ told' = [t \in Task |-> IF t \in row.ids THEN told[t] + 1 ELSE told[t]]
  BY DEF StartWake
<1>2. ~ WakeActive /\ ~ Active(row) /\ row.disposition = "open" /\ g < row.next
  BY CopyFacts DEF Idle, Shape, CohortShape, Gen
<1>3. \A h \in Gen : /\ wake'[h] = IF h = g THEN "active" ELSE wake[h]
                     /\ h # g => ~ Waits(h) /\ wake[h] # "active"
                     /\ wake[h] \in Over => wake'[h] \in Over
  BY <1>1, <1>2 DEF Types, WakeType, Shape, WakeShape, WakeActive, Over, Settled
<1>4. \A t \in row.ids : task[t].delivery = "claimed" /\ told[t] = 0
  <2>1. ~ Started(g) /\ (wake[g] = "none" \/ Waits(g))
    BY DEF Started, Settled, Waits
  <2>2. \A t \in row.ids : task[t].delivery = "claimed" /\ t \in Task
    BY <2>1 DEF Shape, WakeShape, Types, RowType, Row
  <2> QED BY <2>1, <2>2 DEF Shape, ToldShape, Final
<1>5. Types'
  <2>1. told' \in [Task -> Nat]
    BY <1>1 DEF Types, TaskType
  <2> QED BY <1>1, <2>1 DEF Types, RowType, PlainType, TaskType, WakeType, CmdType
<1>6. CohortShape' /\ TaskShape' /\ GenerationsSpent' /\ CaptureHolds'
  BY DEF Shape, CohortShape, TaskShape, GenerationsSpent, Spent, CaptureHolds
<1>7. ToldShape'
  <2>1. Started(row.gen)'
    BY <1>3 DEF Started
  <2>2. \A t \in Task : t \notin row.ids => task[t].delivery # "claimed"
    BY DEF Shape, TaskShape
  <2> QED BY <1>1, <1>4, <2>1, <2>2 DEF Shape, ToldShape
<1>8. WakeShape' /\ OneWake'
  <2>1. \A h \in Gen : h # g => ~ Waits(h)' /\ wake'[h] # "active"
    BY <1>3 DEF Waits
  <2>2. ~ Waits(g)' /\ wake'[g] = "active" /\ ~ (g >= row.next)
    BY <1>2, <1>3 DEF Waits, Gen, Types, RowType, Row
  <2>3. \A h \in Gen : h # g /\ h >= row.next => wake'[h] = "none"
    BY <1>3 DEF Shape, WakeShape
  <2> QED BY <2>1, <2>2, <2>3 DEF WakeShape, OneWake
<1>9. ParentSettled' /\ Locked'
  BY <1>2, Unlocks
<1>10. EndsOver'
  BY <1>3, EndsStayOver DEF EndsOver
<1> QED BY <1>5, <1>6, <1>7, <1>8, <1>9, <1>10 DEF Shape

LEMMA DispatchInv == ASSUME IInv, Dispatch PROVE IInv'
<1> DEFINE g == cmd.arg
           r == cmd.copy
<1>1. /\ cmd # Free /\ cmd' = Free /\ g \in Gen /\ offers' = offers \ {g}
      /\ UNCHANGED <<row, turn, start, capture, task, ends, stops, stopped>>
  BY DEF Dispatch, Free, IInv, Shape, Locked
<1>2. r.disposition = row.disposition /\ r.gen = row.gen /\ r.ids = row.ids /\ r.ids \in SUBSET Task
  BY <1>1, CopyFacts DEF SameCohort, Row
<1>3. PlainType' /\ CaptureHolds' /\ offers' \subseteq Gen
  BY <1>1 DEF IInv, Types, PlainType, WakeType, Shape, CaptureHolds
<1>4. CmdType' /\ Locked'
  BY <1>1 DEF CmdType, Locked
<1>5. CASE /\ row.disposition = "open" /\ row.gen = g /\ wake[g] = "none"
           /\ carried' = [carried EXCEPT ![g] = r.ids]
  <2>1. /\ carried' \in [Gen -> SUBSET Task] /\ carried'[g] = row.ids
        /\ \A h \in Gen : h # g => carried'[h] = carried[h]
    BY <1>1, <1>2, <1>5 DEF IInv, Types, WakeType
  <2>2. CASE Idle /\ StartWake(g, r.ids)
    <3>1. StartWake(g, row.ids)
      BY <1>2, <2>2
    <3> QED BY <1>1, <1>3, <1>5, <2>1, <2>2, <3>1, StartStep
  <2>3. CASE wake' = [wake EXCEPT ![g] = "queued"] /\ told' = told
    <3>1. /\ wake' \in [Gen -> {"none", "queued", "held", "active", "cancelled"} \cup Settled]
          /\ wake'[g] = "queued" /\ \A h \in Gen : h # g => wake'[h] = wake[h]
      BY <1>1, <2>3 DEF IInv, Types, WakeType
    <3> QED BY <1>1, <1>3, <1>4, <1>5, <2>1, <2>3, <3>1, WaitStep
  <2> QED BY <1>1, <1>2, <1>5, <2>2, <2>3 DEF Dispatch
<1>6. CASE UNCHANGED <<carried, wake, told>>
  BY <1>1, <1>3, <1>6, IdleCommit
<1> QED BY <1>2, <1>5, <1>6 DEF Dispatch

LEMMA StartNextInv == ASSUME IInv, StartNext PROVE IInv'
<1>1. /\ cmd # Free /\ cmd' = Free
      /\ UNCHANGED <<row, turn, start, capture, task, carried, offers, ends, stops, stopped>>
  BY DEF StartNext, Free
<1>2. PlainType' /\ CaptureHolds' /\ CmdType' /\ Locked'
  BY <1>1 DEF IInv, Types, PlainType, Shape, CaptureHolds, CmdType, Locked
<1>3. carried \in [Gen -> SUBSET Task] /\ offers \subseteq Gen
  BY DEF IInv, Types, WakeType
<1>4. ASSUME Idle, NEW g \in Gen, wake[g] = "queued",
             \/ StartWake(g, carried[g])
             \/ wake' = [wake EXCEPT ![g] = "held"] /\ told' = told
      PROVE  IInv'
  <2>1. row.gen = g /\ carried[g] = row.ids
    BY <1>4 DEF IInv, Shape, WakeShape, Waits
  <2>2. CASE StartWake(g, carried[g])
    <3>1. StartWake(g, row.ids)
      BY <2>1, <2>2
    <3> QED BY <1>1, <1>3, <1>4, <2>1, <3>1, StartStep
  <2>3. CASE wake' = [wake EXCEPT ![g] = "held"] /\ told' = told
    <3>1. /\ wake' \in [Gen -> {"none", "queued", "held", "active", "cancelled"} \cup Settled]
          /\ wake'[g] = "held" /\ \A h \in Gen : h # g => wake'[h] = wake[h]
      BY <2>3 DEF IInv, Types, WakeType
    <3> QED BY <1>1, <1>2, <1>3, <1>4, <2>1, <2>3, <3>1, WaitStep
  <2> QED BY <1>4, <2>2, <2>3
<1>5. CASE UNCHANGED <<wake, told>>
  BY <1>1, <1>2, <1>5, IdleCommit
<1> QED BY <1>4, <1>5 DEF StartNext

LEMMA ResumeInv == ASSUME IInv, Resume PROVE IInv'
<1>1. /\ cmd.kind = "resume" /\ cmd # Free
      /\ wake' = [g \in Gen |-> IF wake[g] = "held" THEN "queued" ELSE wake[g]]
      /\ cmd' = [cmd EXCEPT !.kind = "resumed", !.copy = row]
      /\ UNCHANGED <<row, turn, start, capture, task, carried, offers, ends, stops, stopped, told>>
  BY DEF Resume, Free
<1>2. row \in Row /\ carried \in [Gen -> SUBSET Task] /\ offers \subseteq Gen
  BY DEF IInv, Types, RowType, WakeType
<1>3. cmd' \in [kind: Kind, arg: Task \cup 0..MaxGen, copy: Row]
  BY <1>1, <1>2, CopyFacts DEF Kind
<1>4. cmd'.kind = "resumed" /\ cmd'.copy = row
  BY <1>1, CopyFacts
<1>5. CmdType' /\ Locked'
  BY <1>1, <1>3, <1>4 DEF CmdType, Locked, SameCohort
<1>6. wake' \in [Gen -> {"none", "queued", "held", "active", "cancelled"} \cup Settled]
  BY <1>1 DEF IInv, Types, WakeType
<1>7. \A g \in Gen : \/ wake'[g] = wake[g]
                     \/ /\ row.gen = g /\ wake[g] \in {"none", "queued", "held"}
                        /\ wake'[g] \in {"queued", "held"} /\ carried'[g] = row.ids
  BY <1>1 DEF IInv, Shape, WakeShape, Waits
<1> QED BY <1>1, <1>2, <1>4, <1>5, <1>6, <1>7, WaitStep

\* The reaction to the end of a wake: what it has told is delivered, and what
\* came meanwhile opens the next generation.
LEMMA DeliverInv == ASSUME IInv, Deliver PROVE IInv'
<1> USE DEF IInv
<1> DEFINE g == cmd.arg
           r == cmd.copy
           claimed == {t \in r.ids : task[t].delivery = "claimed"}
           again == Unread(g, claimed)
           follow == IF r.disposition = "open" THEN Due \cup again ELSE {}
           later(t) == IF t \in follow THEN "claimed"
                       ELSE IF t \in again THEN "pending"
                       ELSE IF t \in claimed THEN "delivered" ELSE task[t].delivery
<1>1. /\ cmd # Free /\ cmd' = Free /\ g \in Gen /\ wake[g] \in Over
      /\ UNCHANGED <<turn, start, capture, wake, carried, stops, stopped, told>>
  BY DEF Deliver, Free, Shape, Locked
<1>2. PlainType' /\ CaptureHolds'
  BY <1>1 DEF Types, PlainType, Shape, CaptureHolds
<1>3. CASE r.gen # g
  <2>1. UNCHANGED <<row, ends, task, offers>>
    BY <1>3 DEF Deliver
  <2> QED BY <1>1, <1>2, <2>1, IdleCommit
<1>4. CASE r.gen = g
  <2>1. /\ r \in Row /\ r.disposition = row.disposition /\ r.next = row.next
        /\ r.gen = row.gen /\ r.ids = row.ids
    BY <1>1, CopyFacts DEF SameCohort
  <2>2. /\ row.disposition = "open" /\ row.next = g + 1 /\ row.gen = g /\ g # 0
        /\ wake[g] # "cancelled" /\ Started(g) /\ ~ Waits(g) /\ wake[g] # "active"
    BY <1>1, <1>4, <2>1 DEF Shape, CohortShape, WakeShape, Gen, Over, Started, Waits, Settled
  <2>3. ~ Active(row) /\ ~ Active(r)
    BY <1>1, <2>2 DEF Shape, ParentSettled
  <2>4. again = {} /\ follow = Due
    BY <2>1, <2>2 DEF Unread
  <2>5. /\ row' = [r EXCEPT !.next = IF Due = {} THEN @ ELSE @ + 1,
                            !.gen = IF Due = {} THEN 0 ELSE r.next,
                            !.ids = Due]
        /\ ends' = ParentEnds(row', ends)
        /\ task' = [t \in Task |-> [task[t] EXCEPT !.delivery = later(t)]]
        /\ offers' = IF Due = {} THEN offers ELSE offers \cup Offerable(row')
    BY <1>4, <2>4 DEF Deliver
  <2>6. \A t \in Task : later(t) = IF t \in Due THEN "claimed"
                                   ELSE IF task[t].delivery = "claimed" THEN "delivered"
                                   ELSE task[t].delivery
    BY <2>1, <2>4 DEF Shape, TaskShape
  <2>7. \A t \in Task : /\ task'[t].phase = task[t].phase
                        /\ task'[t].delivery = later(t)
    BY <2>5 DEF Types, TaskType, TaskRow
  <2>8. TaskType'
    <3>1. \A t \in Task : later(t) \in {"none", "pending", "claimed"} \cup Final
      BY <2>6 DEF Types, TaskType, TaskRow, Final
    <3> QED BY <1>1, <2>5, <3>1 DEF Types, TaskType, TaskRow
  <2>9. Due \subseteq Task /\ \A t \in Due : /\ task[t].delivery = "pending"
                                             /\ task[t].phase = "done"
    BY DEF Due
  <2>10. \A t \in Task : /\ task[t].delivery \in Final => task'[t].delivery = task[t].delivery
                         /\ task[t].delivery = "claimed" => task'[t].delivery = "delivered"
                         /\ t \in Due <=> task'[t].delivery = "claimed"
                         /\ t \notin Due /\ task[t].delivery # "claimed"
                              => task'[t].delivery = task[t].delivery
    BY <2>6, <2>7, <2>9 DEF Final
  <2>11. /\ row'.next = (IF Due = {} THEN row.next ELSE row.next + 1)
         /\ row'.gen = (IF Due = {} THEN 0 ELSE row.next)
         /\ row'.ids = Due /\ row'.disposition = "open" /\ row'.status = r.status
    BY <2>1, <2>2, <2>5 DEF Row
  <2>12. Spent \subseteq Spent' /\ Spent' \subseteq Task /\ Due \cap Spent = {}
    <3>1. row.ids \subseteq Task /\ \A t \in row.ids : task[t].delivery \in {"claimed"} \cup Final
      BY DEF Types, RowType, Row, Shape, TaskShape
    <3> QED BY <2>9, <2>10, <2>11, <3>1 DEF Spent, Final
  <2>13. GenerationsSpent' /\ row'.next \in 1..MaxGen + 1
    <3>1. Due # {} => Spent # Spent'
      BY <2>9, <2>11, <2>12 DEF Spent
    <3> QED BY <2>11, <2>12, <3>1, SpentStep DEF Types, Shape
  <2>14. RowType'
    <3>1. row'.gen \in 0..MaxGen
      BY <2>2, <2>11, <2>13, <1>1, TasksAreFinite DEF Gen
    <3>2. row' = [r EXCEPT !.next = row'.next, !.gen = row'.gen, !.ids = Due]
      BY <2>1, <2>2, <2>5, <2>11
    <3> QED BY <2>1, <2>9, <2>13, <3>1, <3>2 DEF RowType, Row
  <2>15. Types'
    <3>1. Offerable(row') \subseteq Gen
      BY <2>14 DEF Offerable, RowType, Row, Gen
    <3> QED BY <1>1, <1>2, <2>5, <2>8, <2>14, <3>1 DEF Types, WakeType, CmdType
  <2>16. CohortShape'
    BY <2>2, <2>11, <1>1 DEF CohortShape, Gen
  <2>17. TaskShape'
    BY <2>7, <2>9, <2>10, <2>11 DEF Shape, TaskShape, Final
  <2>18. ToldShape'
    BY <1>1, <2>9, <2>10 DEF Shape, ToldShape, Final
  <2>19. WakeShape'
    <3>1. \A h \in Gen : /\ h >= row.next => wake[h] = "none"
                         /\ ~ Waits(h) /\ wake[h] # "active"
      BY <2>2 DEF Shape, WakeShape
    <3>2. \A h \in Gen : Waits(h)' <=> Waits(h)
      BY <1>1 DEF Waits
    <3>3. \A t \in Due : task'[t].delivery = "claimed"
      BY <2>9, <2>10
    <3>4. \A h \in Gen : /\ h >= row'.next => wake'[h] = "none"
                         /\ row'.gen = h => h = row.next /\ Due # {}
      BY <1>1, <2>2, <2>11, <3>1 DEF Gen
    <3> QED BY <1>1, <2>11, <3>1, <3>2, <3>3, <3>4 DEF WakeShape, Gen
  <2>20. OneWake'
    BY <1>1 DEF Shape, OneWake
  <2>21. ParentSettled' /\ Locked'
    BY <1>1, <2>3, <2>11, Unlocks DEF Active, Live
  <2>22. EndsOver'
    BY <1>1, <2>5, ParentEndsOver DEF EndsOver
  <2> QED BY <1>2, <2>13, <2>15, <2>16, <2>17, <2>18, <2>19, <2>20, <2>21, <2>22 DEF Shape
<1> QED BY <1>3, <1>4

-----------------------------------------------------------------------------
LEMMA InitInv == Init => IInv
<1> SUFFICES ASSUME Init PROVE IInv
  OBVIOUS
<1>1. Types
  <2>1. row \in Row
    BY TasksAreFinite DEF Init, Row, Status
  <2>2. TaskType
    BY DEF Init, TaskType, TaskRow
  <2>3. PlainType
    <3>1. capture \in [pc: {"none", "queued", "running", "done", "failed"}, copy: {"none"} \cup Status]
      BY DEF Init
    <3>2. stops = 0 /\ stopped = FALSE
      BY DEF Init
    <3>3. stops \in 0..MaxStops
      BY <3>2, TasksAreFinite
    <3>4. stopped \in BOOLEAN
      BY <3>2
    <3>5. /\ turn \in {"none", "running", "completed", "interrupted", "failed", "closed"}
          /\ start \in {"queued", "read", "opening", "calling", "done"}
      BY DEF Init
    <3> QED BY <3>1, <3>3, <3>4, <3>5 DEF PlainType
  <2>4. WakeType
    BY DEF Init, WakeType
  <2> QED BY <2>1, <2>2, <2>3, <2>4 DEF Init, Types, RowType, CmdType
<1>2. CohortShape /\ TaskShape /\ ToldShape /\ CaptureHolds /\ Locked /\ OneWake
  BY DEF Init, CohortShape, TaskShape, ToldShape, CaptureHolds, Locked, OneWake, Free
<1>3. WakeShape /\ ParentSettled
  BY DEF Init, WakeShape, ParentSettled, WakeActive, Waits, Gen
<1>4. GenerationsSpent
  <2>1. Spent \subseteq Task /\ row.next = 1
    BY DEF Init, Spent
  <2> QED BY <2>1, SpentBounds DEF GenerationsSpent
<1>5. EndsOver
  BY DEF Init, EndsOver
<1> QED BY <1>1, <1>2, <1>3, <1>4, <1>5 DEF IInv, Shape

LEMMA StepInv == IInv /\ [Next]_vars => IInv'
<1> SUFFICES ASSUME IInv, [Next]_vars PROVE IInv'
  OBVIOUS
<1>1. CASE UNCHANGED vars
  <2>1. RowType' /\ PlainType' /\ CaptureHolds' /\ SameCohort(row')
    BY <1>1 DEF vars, IInv, Types, RowType, PlainType, Shape, CaptureHolds, SameCohort
  <2> QED BY <1>1, <2>1, StatusStep DEF vars
<1>2. CASE Unlocked \/ StartFails \/ StartInterrupted
  BY <1>2, UnlockedInv
<1>3. CASE \E t \in Task : BeginDelegate(t) \/ BeginEnd(t) \/ BeginPolicy(t) \/ BeginAck(t)
  BY <1>3, TaskBegins
<1>4. CASE BeginStopStart \/ BeginStopTurn \/ BeginResume
  BY <1>4, UserBegins
<1>5. CASE \E g \in Gen : BeginStopWake(g) \/ BeginCancelWake(g) \/ Reacts(g)
  <2>1. \A g \in Gen : g \in 0..MaxGen
    BY DEF Gen
  <2> QED BY <1>5, <2>1, GenBegins, ReactionBegins, WakeEndsInv DEF Reacts
<1>6. CASE \E g \in 0..MaxGen : BeginNext(g)
  BY <1>6, ReactionBegins
<1>7. CASE Commits
  BY <1>7, DelegateInv, EndTaskInv, SetPolicyInv, AcknowledgeInv, StopStartInv, StopTurnInv,
     StopWakeInv, CancelWakeInv, DispatchInv, DeliverInv, StartNextInv, ResumeInv DEF Commits
<1> QED BY <1>1, <1>2, <1>3, <1>4, <1>5, <1>6, <1>7 DEF Next

(* The inductive invariant: the holder of the lock knows the cohort, claims *)
(* and ids agree, wakes go with their generation, each generation decides a *)
(* task, and a started wake finds its parent settled.                       *)
THEOREM CompletionInvariance == Spec => []IInv
BY InitInv, StepInv, PTL DEF Spec

LEMMA Consequences ==
  IInv => ClaimsAreCarried /\ QueuedWakeIsCurrent /\ SingleActiveRun /\ ToldOnce
<1> SUFFICES ASSUME IInv PROVE ClaimsAreCarried /\ QueuedWakeIsCurrent /\ SingleActiveRun /\ ToldOnce
  OBVIOUS
<1>1. TypeOK
  <2>1. ends \in Seq((0..MaxGen) \X {"deliver", "next"})
    <3>1. Ending(wake) \subseteq (0..MaxGen) \X {"deliver", "next"}
      BY DEF Ending, Gen
    <3> QED BY <3>1, SeqMonotonic DEF IInv, EndsOver
  <2> QED BY <2>1 DEF IInv, Types, RowType, PlainType, TaskType, WakeType, CmdType, TypeOK
<1>2. ClaimsAreCarried
  BY <1>1 DEF IInv, Shape, TaskShape, CohortShape, ClaimsAreCarried
<1>3. QueuedWakeIsCurrent
  <2>1. \A g \in Gen : g # 0
    BY DEF Gen
  <2> QED BY <2>1 DEF IInv, Shape, WakeShape, CohortShape, QueuedWakeIsCurrent
<1>4. SingleActiveRun
  BY DEF IInv, Shape, ParentSettled, OneWake, SingleActiveRun
<1>5. ToldOnce
  BY DEF IInv, Shape, ToldShape, ToldOnce
<1> QED BY <1>2, <1>3, <1>4, <1>5

(* No writer of the run's row loses a claim that it did not decide on,      *)
(* although none but the status writers merge with each other.              *)
THEOREM ClaimsCarried == Spec => []ClaimsAreCarried
BY CompletionInvariance, Consequences, PTL

(* A wake that waits in the queue names exactly the results of the current  *)
(* delivery.                                                                *)
THEOREM QueuedWakesCurrent == Spec => []QueuedWakeIsCurrent
BY CompletionInvariance, Consequences, PTL

(* A wake runs only when its parent has settled, and one wake at a time.    *)
THEOREM OneRunOfParent == Spec => []SingleActiveRun
BY CompletionInvariance, Consequences, PTL

(* However many generations, stops and cancellations there are, no result   *)
(* is put to the parent twice.                                              *)
THEOREM ResultsToldOnce == Spec => []ToldOnce
BY CompletionInvariance, Consequences, PTL

-----------------------------------------------------------------------------
(* What no step may do to the cohort. *)

GoesForward ==
  /\ row.next <= row'.next
  /\ row.disposition \in {"stopped", "disposed"} => row'.disposition \in {"stopped", "disposed"}

LEMMA SameGoesForward == ASSUME RowType, SameCohort(row') PROVE GoesForward
BY DEF RowType, Row, SameCohort, GoesForward

LEMMA UnlockedGoesForward ==
  ASSUME IInv, Unlocked \/ StartFails \/ StartInterrupted PROVE GoesForward
<1>0. RowType /\ PlainType /\ CaptureHolds
  BY DEF IInv, Types, Shape
<1>1. SUFFICES SameCohort(row')
  BY <1>0, SameGoesForward
<1>2. CASE StartRead \/ StartCheck \/ TurnOpens \/ TurnEnds \/ StartInterrupted \/ CaptureRead
  BY <1>2 DEF StartRead, StartCheck, TurnOpens, TurnEnds, StartInterrupted, CaptureRead, SameCohort
<1>3. CASE StartWrite \/ StartFails \/ Finalize
  <2>1. \E e \in {"starting", "running"}, st \in Status : IfCurrent(e, st)
    BY <1>3 DEF StartWrite, StartFails, Finalize, Settled, Status
  <2> QED BY <1>0, <2>1, IfCurrentWritten
<1>4. CASE CaptureCommit
  <2>1. row' = [row EXCEPT !.checkpoint = TRUE, !.status = row'.status]
    BY <1>0, <1>4 DEF CaptureCommit, RowType, Row
  <2> QED BY <1>0, <2>1 DEF RowType, Row, SameCohort
<1> QED BY <1>2, <1>3, <1>4 DEF Unlocked

\* What a handler that plans a delivery writes of the row.
LEMMA PlanWritten ==
  ASSUME IInv, EndTask \/ SetPolicy
  PROVE  \E p : /\ \/ Keeps(p, cmd.arg) \/ PutsOff(p, cmd.arg)
                   \/ Joins(p, cmd.arg) \/ Reserves(p, cmd.arg)
                /\ WriteMerged(p.run)
<1> DEFINE t == cmd.arg
           r == cmd.copy
<1>1. cmd # Free /\ t \in Task
  BY DEF EndTask, SetPolicy, Free, IInv, Shape, Locked
<1>2. CASE EndTask
  <2>1. task[t].delivery # "claimed"
    BY <1>1, <1>2 DEF EndTask, IInv, Shape, TaskShape, Locked
  <2> QED BY <1>1, <1>2, <2>1, PlanWays DEF EndTask, Reserve
<1>3. CASE SetPolicy /\ task[t].phase = "done" /\ Live(r)
  <2> DEFINE q == PlanDelivery(t, "always", r)
             p == [q EXCEPT !.offer = TRUE]
  <2>1. /\ Keeps(q, t) \/ PutsOff(q, t) \/ Joins(q, t) \/ Reserves(q, t)
        /\ DOMAIN q = {"delivery", "run", "offer"}
    BY <1>1, <1>3, PlanWays
  <2>2. p.run = q.run /\ p.delivery = q.delivery
    BY <2>1
  <2>3. WriteMerged(p.run)
    BY <1>3 DEF SetPolicy, Reserve
  <2>4. Keeps(p, t) \/ PutsOff(p, t) \/ Joins(p, t) \/ Reserves(p, t)
    BY <2>1, <2>2 DEF Keeps, PutsOff, Joins, Reserves
  <2> QED BY <2>3, <2>4
<1>4. CASE SetPolicy /\ ~ (task[t].phase = "done" /\ Live(r))
  <2> DEFINE p == [delivery |-> task[t].delivery, run |-> r, offer |-> TRUE]
  <2>1. WriteMerged(p.run) /\ Keeps(p, t)
    BY <1>4 DEF SetPolicy, Reserve, Keeps
  <2> QED BY <2>1
<1> QED BY <1>2, <1>3, <1>4

LEMMA PlanGoesForward == ASSUME IInv, EndTask \/ SetPolicy PROVE GoesForward
<1> DEFINE t == cmd.arg
           r == cmd.copy
<1>1. cmd # Free
  BY DEF EndTask, SetPolicy, Free
<1>2. r \in Row /\ SameCohort(r) /\ row \in Row
  BY <1>1, CopyFacts DEF IInv, Types, RowType
<1>3. PICK p : /\ Keeps(p, t) \/ PutsOff(p, t) \/ Joins(p, t) \/ Reserves(p, t)
               /\ WriteMerged(p.run)
  BY PlanWritten
<1>4. /\ p.run.next \in {r.next, r.next + 1}
      /\ row.disposition \in {"stopped", "disposed"} => p.run.disposition = r.disposition
      /\ p.run.disposition \in {r.disposition, "open"}
  BY <1>2, <1>3 DEF Keeps, PutsOff, Joins, Reserves, Row
<1>5. CASE p.run = r
  BY <1>2, <1>3, <1>5 DEF WriteMerged, GoesForward, Row
<1>6. CASE p.run # r
  <2>1. row' = Merged(p.run)
    BY <1>3, <1>6 DEF WriteMerged
  <2>2. row'.next = p.run.next /\ row'.disposition = p.run.disposition
    BY <1>2, <1>3, <2>1 DEF Merged, Keeps, PutsOff, Joins, Reserves, Row
  <2> QED BY <1>2, <1>4, <2>2 DEF SameCohort, GoesForward, Row
<1> QED BY <1>5, <1>6

LEMMA CommitsGoForward == ASSUME IInv, Commits PROVE GoesForward
<1> DEFINE r == cmd.copy
<1>1. cmd # Free
  BY DEF Commits, Delegate, EndTask, SetPolicy, Acknowledge, StopStart, StopTurn, StopWake,
         CancelWake, Dispatch, Deliver, StartNext, Resume, Free
<1>2. r \in Row /\ SameCohort(r) /\ row \in Row /\ RowType
  BY <1>1, CopyFacts DEF IInv, Types, RowType
<1>3. CASE UNCHANGED row
  BY <1>2, <1>3 DEF GoesForward, Row
<1>4. CASE EndTask \/ SetPolicy
  BY <1>4, PlanGoesForward
<1>5. CASE Acknowledge
  <2>1. CASE row' # row
    <3> DEFINE rest == r.ids \ {cmd.arg}
               clear == rest = {} /\ (wake[r.gen] = "none" \/ Waits(r.gen))
    <3>1. row' = Merged([r EXCEPT !.ids = rest, !.gen = IF clear THEN 0 ELSE @])
      BY <1>5, <2>1 DEF Acknowledge
    <3> HIDE DEF rest, clear
    <3>2. row'.next = r.next /\ row'.disposition = r.disposition
      BY <1>2, <3>1 DEF Merged, Row
    <3> QED BY <1>2, <3>2 DEF SameCohort, GoesForward, Row
  <2> QED BY <1>3, <2>1
<1>6. ASSUME NEW d \in {"stopped", "disposed"}, DisposeCohort(d) PROVE GoesForward
  <2>1. row' = Disposed(r, d)
    BY <1>6 DEF DisposeCohort, WriteWhole
  <2> QED BY <1>2, <2>1 DEF Disposed, SameCohort, GoesForward, Row
<1>7. CASE StopStart \/ (StopWake /\ row' = r)
  <2>1. SameCohort(row')
    BY <1>2, <1>7 DEF StopStart, WriteWhole, SameCohort, Row
  <2> QED BY <1>2, <2>1, SameGoesForward
<1>8. CASE Deliver
  <2>1. CASE row' # row
    <3>1. \E follow : row' = [r EXCEPT !.next = IF follow = {} THEN @ ELSE @ + 1,
                                      !.gen = IF follow = {} THEN 0 ELSE r.next,
                                      !.ids = follow]
      BY <1>8, <2>1 DEF Deliver
    <3>2. row'.next \in {r.next, r.next + 1} /\ row'.disposition = r.disposition
      BY <1>2, <3>1 DEF Row
    <3> QED BY <1>2, <3>2 DEF SameCohort, GoesForward, Row
  <2> QED BY <1>3, <2>1
<1>9. CASE StopTurn \/ StopWake \/ CancelWake
  BY <1>3, <1>6, <1>7, <1>9 DEF StopTurn, StopWake, CancelWake, WriteWhole
<1>10. CASE Delegate \/ Dispatch \/ StartNext \/ Resume
  BY <1>3, <1>10 DEF Delegate, Dispatch, StartNext, Resume
<1> QED BY <1>4, <1>5, <1>7, <1>8, <1>9, <1>10 DEF Commits

(* Generations go forward, and a cohort that was stopped or disposed of is  *)
(* not opened again, although every handler writes the row it has read.     *)
THEOREM CohortGoesForward == Spec => CohortStepsForward
<1>1. IInv /\ [Next]_vars => [GoesForward]_row
  <2> SUFFICES ASSUME IInv, Next, row' # row PROVE GoesForward
    BY DEF vars
  <2>1. CASE Unlocked \/ StartFails \/ StartInterrupted
    BY <2>1, UnlockedGoesForward
  <2>2. CASE Commits
    BY <2>2, CommitsGoForward
  <2>3. ASSUME ~ (Unlocked \/ StartFails \/ StartInterrupted \/ Commits) PROVE FALSE
    BY <2>3 DEF Next, Reacts, Begin, ByUser, TakeReaction, BeginDelegate, BeginEnd, BeginPolicy,
       BeginAck, BeginStopStart, BeginStopTurn, BeginResume, BeginStopWake, BeginCancelWake,
       BeginDispatch, BeginDeliver, BeginNext, WakeEnds
  <2> QED BY <2>1, <2>2, <2>3
<1> QED BY <1>1, CompletionInvariance, PTL DEF Spec, CohortStepsForward, GoesForward

-----------------------------------------------------------------------------
(* The status goes one way while no Stop has reached the run.               *)

\* The statuses that a handler may write or find.
Seen == {row.status} \cup (IF cmd = Free THEN {} ELSE {cmd.copy.status})

Early == {"starting", "running"}

Ended == start = "done" /\ turn \in {"none", "closed"}

\* The run's turn comes to one end, and the row and the copy have got to some
\* place on the way to it: a commit may put the row back on that way, never on
\* another.
OneWay == ~ stopped =>
  /\ start # "done" => turn = "none"
  /\ ~ Ended => Seen \subseteq Early /\ capture.pc = "none"
  /\ capture.pc = "none" => Seen \subseteq Early \cup {"failed"}
  /\ capture.pc = "running" => Seen \subseteq Early \cup {capture.copy}
  /\ capture.pc \in {"queued", "failed"} =>
       Seen \subseteq Early \cup {"waiting"} \/ Seen \subseteq Early \cup {"interrupted"}
  /\ capture.pc = "done" =>
       \/ Seen \subseteq Early \cup {"waiting", "completed"}
       \/ Seen \subseteq Early \cup {"interrupted"}

\* A step that shows no new status, nor moves the turn or its checkpoint.
LEMMA SeenBefore ==
  ASSUME OneWay, Seen' \subseteq Seen \/ stopped', stopped => stopped',
         UNCHANGED <<start, turn, capture>>
  PROVE  OneWay'
<1>1. CASE stopped'
  BY <1>1 DEF OneWay
<1>2. CASE ~ stopped'
  <2>1. ~ stopped /\ Seen' \subseteq Seen
    BY <1>2
  <2> HIDE DEF Seen
  <2> QED BY <2>1 DEF OneWay, Ended
<1> QED BY <1>1, <1>2

\* Taking the lock reads the row.
LEMMA ReadsAreSeen ==
  ASSUME UNCHANGED row, cmd' = cmd \/ cmd' = Free \/ cmd'.copy = row
  PROVE  Seen' \subseteq Seen
BY DEF Seen

\* A planned delivery leaves the row's status as it is now.
LEMMA PlanStatus ==
  ASSUME IInv, EndTask \/ SetPolicy
  PROVE  row'.status = row.status
<1>1. cmd # Free
  BY DEF EndTask, SetPolicy, Free
<1>2. cmd.copy \in Row /\ row \in Row
  BY <1>1, CopyFacts DEF IInv, Types, RowType
<1>3. PICK p : /\ \/ Keeps(p, cmd.arg) \/ PutsOff(p, cmd.arg)
                  \/ Joins(p, cmd.arg) \/ Reserves(p, cmd.arg)
               /\ WriteMerged(p.run)
  BY PlanWritten
<1> QED BY <1>2, <1>3 DEF WriteMerged, Merged, Keeps, PutsOff, Joins, Reserves, Row

\* A handler writes the status it has read, or that of the row.
LEMMA CommitsSeen ==
  ASSUME IInv, Commits
  PROVE  Seen' \subseteq Seen \/ stopped'
<1> DEFINE r == cmd.copy
<1>1. cmd # Free
  BY DEF Commits, Delegate, EndTask, SetPolicy, Acknowledge, StopStart, StopTurn, StopWake,
         CancelWake, Dispatch, Deliver, StartNext, Resume, Free
<1>2. r \in Row /\ row \in Row
  BY <1>1, CopyFacts DEF IInv, Types, RowType
<1>3. CASE StopStart \/ StopTurn
  BY <1>3 DEF StopStart, StopTurn
<1>4. CASE Resume
  BY <1>4 DEF Resume, Seen, Free
<1>5. CASE Commits /\ ~ (StopStart \/ StopTurn \/ Resume)
  <2>1. cmd' = Free
    BY <1>5 DEF Commits, Delegate, EndTask, SetPolicy, Acknowledge, StopWake, CancelWake,
                Dispatch, Deliver, StartNext
  <2>2. row' = row \/ row'.status \in {row.status, r.status}
    <3>1. CASE EndTask \/ SetPolicy
      BY <1>1, <1>2, <3>1, PlanStatus
    <3>2. CASE Acknowledge
      BY <1>2, <3>2 DEF Acknowledge, Merged, Row
    <3>3. CASE StopWake \/ CancelWake
      BY <1>2, <3>3 DEF StopWake, CancelWake, DisposeCohort, WriteWhole, Disposed, Row
    <3>4. CASE Deliver
      BY <1>2, <3>4 DEF Deliver, Row
    <3>5. CASE Delegate \/ Dispatch \/ StartNext
      BY <3>5 DEF Delegate, Dispatch, StartNext
    <3> QED BY <1>5, <3>1, <3>2, <3>3, <3>4, <3>5 DEF Commits
  <2> QED BY <1>1, <2>1, <2>2 DEF Seen
<1> QED BY <1>3, <1>4, <1>5

\* The writers of the status: each moves on along the one way.
LEMMA UnlockedOneWay ==
  ASSUME IInv, OneWay, Unlocked \/ StartFails \/ StartInterrupted
  PROVE  OneWay'
<1> SUFFICES ASSUME ~ stopped PROVE OneWay'
  <2>1. stopped' = stopped
    BY DEF Unlocked, StartRead, StartWrite, StartCheck, TurnOpens, TurnEnds, Finalize, CaptureRead,
           CaptureCommit, StartFails, StartInterrupted
  <2> QED BY <2>1 DEF OneWay
<1> DEFINE others == IF cmd = Free THEN {} ELSE {cmd.copy.status}
<1>1. cmd' = cmd /\ row \in Row /\ PlainType
  BY DEF Unlocked, StartRead, StartWrite, StartCheck, TurnOpens, TurnEnds, Finalize, CaptureRead,
         CaptureCommit, StartFails, StartInterrupted, IInv, Types, RowType
<1>2. Seen = {row.status} \cup others /\ Seen' = {row'.status} \cup others
  BY <1>1 DEF Seen
<1> HIDE DEF others
<1>3. CASE StartRead \/ StartCheck \/ TurnOpens \/ TurnEnds \/ StartInterrupted
  BY <1>1, <1>2, <1>3
     DEF StartRead, StartCheck, TurnOpens, TurnEnds, StartInterrupted, OneWay, Ended, Early, Settled
<1>4. CASE StartWrite \/ StartFails
  <2>1. /\ row'.status \in {row.status, "running", "failed"}
        /\ StartWrite => row'.status \in {row.status, "running"}
    BY <1>1, <1>4 DEF StartWrite, StartFails, IfCurrent, SetStatus, Row
  <2> QED BY <1>2, <1>4, <2>1 DEF StartWrite, StartFails, OneWay, Ended, Early
<1>5. CASE Finalize
  <2>1. CASE row.status = "running"
    <3>1. row'.status = IF turn = "completed" THEN "waiting" ELSE turn
      BY <1>1, <1>5, <2>1 DEF Finalize, IfCurrent, SetStatus, Row
    <3>2. capture.pc = "none" /\ Seen \subseteq Early /\ start = "done" /\ start' = "done"
      BY <1>5 DEF Finalize, OneWay, Ended, Settled
    <3>3. /\ capture'.pc = IF turn = "failed" THEN "none" ELSE "queued"
          /\ turn' = "closed" /\ turn \in {"completed", "interrupted", "failed"}
      BY <1>1, <1>5, <2>1, <3>2 DEF Finalize, PlainType, Settled
    <3> QED BY <1>2, <3>1, <3>2, <3>3 DEF OneWay, Ended, Early
  <2>2. CASE row.status # "running"
    BY <1>2, <1>5, <2>2 DEF Finalize, IfCurrent, OneWay, Ended, Early, Settled
  <2> QED BY <2>1, <2>2
<1>6. CASE CaptureRead
  <2>1. row' = row /\ start' = start /\ turn' = turn /\ capture.pc = "queued" /\ Seen' = Seen
    BY <1>2, <1>6 DEF CaptureRead
  <2>2. CASE /\ capture' = [pc |-> "running", copy |-> row.status]
             /\ row.status \in {"waiting", "interrupted"}
    BY <1>2, <2>1, <2>2 DEF OneWay, Ended, Early
  <2>3. CASE capture'.pc \in {"queued", "failed"}
    BY <2>1, <2>3 DEF OneWay, Ended
  <2> QED BY <1>1, <1>6, <2>2, <2>3 DEF CaptureRead, PlainType
<1>7. CASE CaptureCommit
  <2>1. /\ capture.pc = "running" /\ capture'.pc = "done" /\ start' = start /\ turn' = turn
        /\ row'.status = IF capture.copy = "waiting" THEN "completed" ELSE capture.copy
    BY <1>1, <1>7 DEF CaptureCommit, Row
  <2>2. capture.copy \in {"waiting", "interrupted"}
    BY <2>1 DEF IInv, Shape, CaptureHolds
  <2> QED BY <1>2, <2>1, <2>2 DEF OneWay, Ended, Early
<1> QED BY <1>3, <1>4, <1>5, <1>6, <1>7 DEF Unlocked

\* The step of the invariant.
LEMMA OneWayStep == IInv /\ OneWay /\ [Next]_vars => OneWay'
<1> SUFFICES ASSUME IInv, OneWay, [Next]_vars PROVE OneWay'
  OBVIOUS
<1>1. CASE Unlocked \/ StartFails \/ StartInterrupted
  BY <1>1, UnlockedOneWay
<1>2. CASE Commits
  <2>1. stopped => stopped'
    BY <1>2 DEF Commits, Delegate, EndTask, SetPolicy, Acknowledge, StopStart, StopTurn, StopWake,
       CancelWake, Dispatch, Deliver, StartNext, Resume
  <2>2. CASE StopStart
    BY <2>2 DEF StopStart, OneWay
  <2>3. CASE ~ StopStart
    <3>1. UNCHANGED <<start, turn, capture>>
      BY <1>2, <2>3 DEF Commits, Delegate, EndTask, SetPolicy, Acknowledge, StopTurn, StopWake,
         CancelWake, Dispatch, Deliver, StartNext, Resume
    <3> QED BY <1>2, <2>1, <3>1, CommitsSeen, SeenBefore
  <2> QED BY <2>2, <2>3
<1>3. CASE ~ (Unlocked \/ StartFails \/ StartInterrupted \/ Commits)
  <2>1. \/ UNCHANGED vars
        \/ \E k, a : Begin(k, a) \/ ByUser(k, a)
        \/ \E g, k, rest : TakeReaction(g, k, rest)
        \/ \E g \in Gen : WakeEnds(g)
    BY <1>3 DEF Next, Reacts, BeginDelegate, BeginEnd, BeginPolicy, BeginAck, BeginStopStart,
       BeginStopTurn, BeginResume, BeginStopWake, BeginCancelWake, BeginDispatch, BeginDeliver,
       BeginNext
  <2>2. /\ UNCHANGED <<row, start, turn, capture, stopped>>
        /\ cmd' = cmd \/ cmd'.copy = row
    <3>1. CASE \E k, a : Begin(k, a) \/ ByUser(k, a)
      BY <3>1 DEF Begin, ByUser
    <3>2. CASE \E g, k, rest : TakeReaction(g, k, rest)
      BY <3>2 DEF TakeReaction
    <3>3. CASE UNCHANGED vars \/ \E g \in Gen : WakeEnds(g)
      BY <3>3 DEF WakeEnds, vars
    <3> QED BY <2>1, <3>1, <3>2, <3>3
  <2> QED BY <2>2, ReadsAreSeen, SeenBefore
<1> QED BY <1>1, <1>2, <1>3

LEMMA OneWayInit == Init => OneWay
BY DEF Init, OneWay, Seen, Ended, Early, Free

-----------------------------------------------------------------------------
StatusForward ==
  ~ stopped /\ cmd.kind \notin UserKinds =>
    /\ row.status = "waiting" => row'.status \in {"waiting"} \cup Settled
    /\ row.status \in Settled => row'.status = row.status

\* The reaction to a wake that is over finds the parent settled, and knows it.
LEMMA DeliverReadsSettled ==
  ASSUME IInv, OneWay, ~ stopped, Deliver, row' # row
  PROVE  row'.status = row.status
<1> DEFINE r == cmd.copy
<1>1. cmd # Free /\ r \in Row /\ row \in Row /\ SameCohort(r)
  BY CopyFacts DEF Deliver, Free, IInv, Types, RowType
<1>2. r.gen = cmd.arg /\ cmd.arg \in Gen /\ wake[cmd.arg] \in Over /\ row'.status = r.status
  BY <1>1 DEF Deliver, IInv, Shape, Locked, Row
<1>3. row.disposition = "open" /\ Started(cmd.arg)
  BY <1>1, <1>2 DEF IInv, Shape, CohortShape, WakeShape, SameCohort, Started, Over, Gen
<1>4. ~ Active(row) /\ ~ Active(r)
  BY <1>1, <1>2, <1>3 DEF IInv, Shape, ParentSettled
<1>5. row.status \in Settled /\ r.status \in Settled
  BY <1>1, <1>4 DEF Active, Live, Row, Status
<1>6. row.status \in Seen /\ r.status \in Seen
  BY <1>1 DEF Seen
<1>7. PICK s \in Settled : Seen \cap Settled \subseteq {s}
  <2> HIDE DEF Seen
  <2>1. capture.pc = "running" => capture.copy \in {"waiting", "interrupted"}
    BY DEF IInv, Shape, CaptureHolds
  <2>2. capture.pc \in {"none", "queued", "running", "done", "failed"}
    BY DEF IInv, Types, PlainType
  <2> QED BY <2>1, <2>2 DEF OneWay, Early, Settled
<1> QED BY <1>2, <1>5, <1>6, <1>7

\* No step of the specification puts a waiting or settled run back.
LEMMA StepsForward ==
  ASSUME IInv, OneWay, Next, row' # row
  PROVE  StatusForward
<1> SUFFICES ASSUME ~ stopped, cmd.kind \notin UserKinds
             PROVE  /\ row.status = "waiting" => row'.status \in {"waiting"} \cup Settled
                    /\ row.status \in Settled => row'.status = row.status
  BY DEF StatusForward
<1>1. row \in Row
  BY DEF IInv, Types, RowType
<1>2. CASE StartWrite \/ StartFails \/ Finalize
  BY <1>1, <1>2 DEF StartWrite, StartFails, Finalize, IfCurrent, Settled
<1>3. CASE CaptureCommit
  <2>1. /\ capture.pc = "running" /\ capture.copy \in {"waiting", "interrupted"}
        /\ row'.status = IF capture.copy = "waiting" THEN "completed" ELSE capture.copy
    BY <1>1, <1>3 DEF CaptureCommit, Row, IInv, Shape, CaptureHolds
  <2>2. row.status \in Early \cup {capture.copy}
    BY <2>1 DEF OneWay, Seen
  <2> QED BY <2>1, <2>2 DEF Early, Settled
<1>4. CASE EndTask \/ SetPolicy
  BY <1>4, PlanStatus
<1>5. CASE Acknowledge
  <2>1. cmd.copy \in Row
    BY <1>5, CopyFacts DEF Acknowledge, Free
  <2>2. row'.status = row.status
    BY <1>1, <1>5, <2>1 DEF Acknowledge, Merged, Row
  <2> QED BY <2>2 DEF Settled
<1>6. CASE Deliver
  BY <1>6, DeliverReadsSettled
<1>7. ~ (StopStart \/ StopTurn \/ StopWake \/ CancelWake)
  BY DEF StopStart, StopTurn, StopWake, CancelWake, UserKinds
<1>8. ASSUME ~ (StartWrite \/ StartFails \/ Finalize \/ CaptureCommit \/ EndTask \/ SetPolicy
                \/ Acknowledge \/ Deliver)
      PROVE  FALSE
  BY <1>7, <1>8 DEF Next, Unlocked, Commits, StartRead, StartCheck, TurnOpens, TurnEnds,
       CaptureRead, StartInterrupted, Delegate, Dispatch, StartNext, Resume,
       Reacts, Begin, ByUser, TakeReaction, BeginDelegate, BeginEnd, BeginPolicy,
       BeginAck, BeginStopStart, BeginStopTurn, BeginResume, BeginStopWake, BeginCancelWake,
       BeginDispatch, BeginDeliver, BeginNext, WakeEnds
<1> QED BY <1>2, <1>3, <1>4, <1>5, <1>6, <1>8

\* While no Stop has reached the run, and but for the commit of a
\* cancellation, a waiting run stays or settles and a settled run stays as it
\* is, although the handlers of the cohort write rows that they read before.
THEOREM StatusGoesForward == Spec => StatusStepsForward
<1>1. Spec => [](IInv /\ OneWay)
  BY CompletionInvariance, OneWayInit, OneWayStep, PTL DEF Spec
<1>2. IInv /\ OneWay /\ [Next]_vars => [StatusForward]_row
  BY StepsForward DEF vars
<1> QED BY <1>1, <1>2, PTL DEF Spec, StatusStepsForward, StatusForward
=============================================================================
