------------------------ MODULE RunQueueMessages_proofs ------------------------
(***************************************************************************)
(* What becomes of a thread's messages, for any messages and any bounds:    *)
(* that none is given again once a call has confirmed it, that only its own *)
(* turn settles a run, and that no message is lost but those that the       *)
(* worker has given up.                                                     *)
(*                                                                         *)
(* The invariant says where a message may be.  One that no call has         *)
(* confirmed is new: it has a queued run, or one steer in the lane, however *)
(* often that was tried, or it is the text of the attempt that a run is to  *)
(* start; never two of these.                                               *)
(* From the moment an effect has read the run that it starts until the call *)
(* has returned, no other writer moves that run.  And the holder of the     *)
(* lock, who plans from rows that others go on writing, may rely on the     *)
(* attempts and texts it has read, and on turns that have begun.            *)
(*                                                                         *)
(* That nothing is lost needs the effects too: unless a restart has taken a *)
(* run from its end, one effect at most starts a run, it is the thread's    *)
(* only active one, and no other effect moves it.                           *)
(***************************************************************************)
EXTENDS RunQueue_proofs, Subsequences_proofs

-----------------------------------------------------------------------------
(* The rows, field by field. *)
St(m) == run[m].st
Cur(m) == run[m].cur
Text(m, a) == run[m].text[a]
Turn(m, a) == run[m].turn[a]

(* A run whose agent was asked for a turn, and one that still is to ask. *)
Begun(m) == \E a \in Attempt : Turn(m, a) # "none"
Unsent(m) ==
    \/ St(m) = "starting"
    \/ (St(m) = "running" /\ Turn(m, Cur(m)) = "none")

TurnStatus == {"none", "accepted", "running", "completed", "interrupted", "failed"}
RunStatus == {"none", "queued"} \cup Live \cup Terminal

RunRow == [st : RunStatus, cur : 0 .. MaxAttempts,
           text : [Attempt -> Msg \cup {NoMsg}], turn : [Attempt -> TurnStatus]]

LaneEffect == [type : {"start", "restart", "steer", "interrupt", "capture"},
               run : Msg, att : 0 .. MaxAttempts, msg : Msg \cup {NoMsg}]

Effects == ToSet(lane)

-----------------------------------------------------------------------------
(* Writes of rows, field by field. *)
SameSt == \A m \in Msg : St(m)' = St(m)
SameCur == \A m \in Msg : Cur(m)' = Cur(m)
SameText == \A m \in Msg, a \in Attempt : Text(m, a)' = Text(m, a)
SameTurn == \A m \in Msg, a \in Attempt : Turn(m, a)' = Turn(m, a)

SetsSt(r, s) == \A m \in Msg : St(m)' = IF m = r THEN s ELSE St(m)
SetsCur(r, c) == \A m \in Msg : Cur(m)' = IF m = r THEN c ELSE Cur(m)
SetsText(r, b, t) == \A m \in Msg, a \in Attempt :
    Text(m, a)' = IF m = r /\ a = b THEN t ELSE Text(m, a)
SetsTurn(r, b, t) == \A m \in Msg, a \in Attempt :
    Turn(m, a)' = IF m = r /\ a = b THEN t ELSE Turn(m, a)

Rows == run \in [Msg -> RunRow]

LEMMA RowTypes ==
    ASSUME Rows, NEW m \in Msg
    PROVE  /\ St(m) \in RunStatus /\ Cur(m) \in 0 .. MaxAttempts
           /\ \A a \in Attempt : Text(m, a) \in Msg \cup {NoMsg} /\ Turn(m, a) \in TurnStatus
BY DEF Rows, RunRow, St, Cur, Text, Turn

LEMMA RowsKept ==
    ASSUME run' = run PROVE SameSt /\ SameCur /\ SameText /\ SameTurn
BY DEF SameSt, SameCur, SameText, SameTurn, St, Cur, Text, Turn

LEMMA StWritten ==
    ASSUME Rows, NEW r \in Msg, NEW s \in RunStatus, run' = [run EXCEPT ![r].st = s]
    PROVE  /\ Rows'
           /\ SetsSt(r, s) /\ SameCur /\ SameText /\ SameTurn
BY DEF Rows, RunRow, SetsSt, SameCur, SameText, SameTurn, St, Cur, Text, Turn

LEMMA TurnWritten ==
    ASSUME Rows, NEW r \in Msg, NEW a \in Attempt, NEW t \in TurnStatus,
           run' = [run EXCEPT ![r].turn[a] = t]
    PROVE  /\ Rows'
           /\ SameSt /\ SameCur /\ SameText /\ SetsTurn(r, a, t)
BY DEF Rows, RunRow, SameSt, SameCur, SameText, SetsTurn, St, Cur, Text, Turn

LEMMA StTurnWritten ==
    ASSUME Rows, NEW r \in Msg, NEW a \in Attempt, NEW t \in TurnStatus, NEW s \in RunStatus,
           run' = [run EXCEPT ![r].st = s, ![r].turn[a] = t]
    PROVE  /\ Rows'
           /\ SetsSt(r, s) /\ SameCur /\ SameText /\ SetsTurn(r, a, t)
BY DEF Rows, RunRow, SetsSt, SameCur, SameText, SetsTurn, St, Cur, Text, Turn

LEMMA StCurWritten ==
    ASSUME Rows, NEW r \in Msg, NEW s \in RunStatus, NEW c \in 0 .. MaxAttempts,
           run' = [run EXCEPT ![r].st = s, ![r].cur = c]
    PROVE  /\ Rows'
           /\ SetsSt(r, s) /\ SetsCur(r, c) /\ SameText /\ SameTurn
BY DEF Rows, RunRow, SetsSt, SetsCur, SameText, SameTurn, St, Cur, Text, Turn

LEMMA RestartWritten ==
    ASSUME Rows, NEW r \in Msg, NEW s \in RunStatus, NEW a \in Attempt, NEW m \in Msg,
           run' = [run EXCEPT ![r].st = s, ![r].cur = a, ![r].text[a] = m]
    PROVE  /\ Rows'
           /\ SetsSt(r, s) /\ SetsCur(r, a) /\ SetsText(r, a, m) /\ SameTurn
<1>1. a \in 0 .. MaxAttempts
  BY BoundsAssumption DEF Attempt
<1>2. Rows'
  <2> DEFINE text == [run[r].text EXCEPT ![a] = m]
             row == [run[r] EXCEPT !.st = s, !.cur = a, !.text = text]
  <2>1. run[r] \in RunRow /\ text \in [Attempt -> Msg \cup {NoMsg}]
    BY DEF Rows, RunRow
  <2>2. row \in RunRow
    <3> HIDE DEF text
    <3> QED
      BY <1>1, <2>1 DEF RunRow
  <2>3. run' = [run EXCEPT ![r] = row]
    BY DEF Rows
  <2> HIDE DEF row
  <2> QED
    BY <2>2, <2>3 DEF Rows
<1>3. SetsSt(r, s) /\ SetsCur(r, a) /\ SameTurn
  BY <1>1 DEF Rows, RunRow, SetsSt, SetsCur, SameTurn, St, Cur, Turn
<1>4. SetsText(r, a, m)
  BY <1>1 DEF Rows, RunRow, SetsText, Text
<1> QED
  BY <1>2, <1>3, <1>4

LEMMA RunCreated ==
    ASSUME Rows, NEW r \in Msg, NEW s \in RunStatus, run' = [run EXCEPT ![r] = NewRun(r, s)]
    PROVE  /\ Rows'
           /\ SetsSt(r, s) /\ SetsCur(r, 1)
           /\ \A m \in Msg, a \in Attempt :
                /\ Text(m, a)' = IF m = r THEN (IF a = 1 THEN m ELSE NoMsg) ELSE Text(m, a)
                /\ Turn(m, a)' = IF m = r THEN "none" ELSE Turn(m, a)
<1> DEFINE row == NewRun(r, s)
<1>1. 1 \in Attempt /\ 1 \in 0 .. MaxAttempts
  BY BoundsAssumption DEF Attempt
<1>2. NoRun \in RunRow /\ \A a \in Attempt : NoRun.text[a] = NoMsg /\ NoRun.turn[a] = "none"
  BY BoundsAssumption DEF NoRun, RunRow, RunStatus, TurnStatus
<1>3. row \in RunRow
  BY <1>1, <1>2 DEF NewRun, RunRow
<1>5. /\ row.st = s /\ row.cur = 1
      /\ \A a \in Attempt : row.text[a] = IF a = 1 THEN r ELSE NoMsg
      /\ \A a \in Attempt : row.turn[a] = "none"
  BY <1>1, <1>2 DEF NewRun, RunRow
<1> HIDE DEF row
<1>4. run' = [run EXCEPT ![r] = row]
  BY DEF row
<1> QED
  BY <1>3, <1>4, <1>5 DEF Rows, SetsSt, SetsCur, St, Cur, Text, Turn

-----------------------------------------------------------------------------
(* The lane and the queue, as sets and as sequences. *)
Only(s, S) == \A i, j \in DOMAIN s : s[i] \in S /\ s[j] \in S => i = j

LEMMA Appended ==
    ASSUME NEW T, NEW s \in Seq(T), NEW e \in T
    PROVE  /\ Append(s, e) \in Seq(T) /\ Append(s, e) # << >>
           /\ ToSet(Append(s, e)) = ToSet(s) \cup {e}
           /\ s # << >> => Head(Append(s, e)) = Head(s)
           /\ s = << >> => Head(Append(s, e)) = e
           /\ \A S : Only(s, S) /\ (e \in S => ToSet(s) \cap S = {}) => Only(Append(s, e), S)
<1> DEFINE t == Append(s, e)
<1>1. /\ t \in Seq(T) /\ Len(s) \in Nat /\ DOMAIN t = 1 .. Len(s) + 1 /\ DOMAIN s = 1 .. Len(s)
      /\ \A i \in 1 .. Len(s) : t[i] = s[i]
      /\ t[Len(s) + 1] = e
  OBVIOUS
<1>2. ToSet(t) = ToSet(s) \cup {e}
  BY <1>1 DEF ToSet
<1>3. ASSUME NEW S, Only(s, S), e \in S => ToSet(s) \cap S = {} PROVE Only(t, S)
  <2> SUFFICES ASSUME NEW i \in DOMAIN t, NEW j \in DOMAIN t, t[i] \in S, t[j] \in S
               PROVE  i = j
    BY DEF Only
  <2>1. CASE i \in 1 .. Len(s) /\ j \in 1 .. Len(s)
    BY <1>1, <1>3, <2>1 DEF Only
  <2>2. CASE i = Len(s) + 1 \/ j = Len(s) + 1
    <3>1. e \in S
      BY <1>1, <2>2
    <3>2. \A k \in 1 .. Len(s) : t[k] \notin S
      BY <1>1, <1>3, <3>1 DEF ToSet
    <3> QED
      BY <1>1, <3>2
  <2> QED
    BY <1>1, <2>1, <2>2
<1> QED
  BY <1>1, <1>2, <1>3, HeadTailAppend, AppendProperties

LEMMA Tailed ==
    ASSUME NEW T, NEW s \in Seq(T), s # << >>
    PROVE  /\ Tail(s) \in Seq(T) /\ Head(s) \in T /\ Head(s) \in ToSet(s)
           /\ ToSet(s) = {Head(s)} \cup ToSet(Tail(s))
           /\ \A S : Only(s, S) => Only(Tail(s), S)
           /\ \A S : Only(s, S) /\ Head(s) \in S => ToSet(Tail(s)) \cap S = {}
<1> DEFINE t == Tail(s)
<1>1. /\ t \in Seq(T) /\ Len(s) \in Nat /\ Len(s) >= 1 /\ DOMAIN t = 1 .. Len(s) - 1
      /\ DOMAIN s = 1 .. Len(s)
      /\ \A i \in 1 .. Len(s) - 1 : t[i] = s[i + 1] /\ i + 1 \in 1 .. Len(s)
      /\ Head(s) = s[1] /\ Head(s) \in T
  BY EmptySeq
<1> HIDE DEF t
<1>2. \A i \in 2 .. Len(s) : i - 1 \in 1 .. Len(s) - 1 /\ t[i - 1] = s[i]
  BY <1>1
<1>3. ToSet(s) = {Head(s)} \cup ToSet(t)
  <2>1. ToSet(s) = {s[i] : i \in 1 .. Len(s)} /\ ToSet(t) = {t[i] : i \in 1 .. Len(s) - 1}
    BY <1>1 DEF ToSet
  <2>2. \A i \in 1 .. Len(s) : i = 1 \/ i \in 2 .. Len(s)
    BY <1>1
  <2>3. \A i \in 1 .. Len(s) : s[i] = Head(s) \/ \E k \in 1 .. Len(s) - 1 : s[i] = t[k]
    BY <1>1, <1>2, <2>2
  <2>4. 1 \in 1 .. Len(s)
    BY <1>1
  <2> QED
    BY <1>1, <2>1, <2>3, <2>4
<1>4. \A S : Only(s, S) => Only(t, S)
  <2>1. ASSUME NEW S, Only(s, S), NEW i \in 1 .. Len(s) - 1, NEW j \in 1 .. Len(s) - 1,
               t[i] \in S, t[j] \in S
        PROVE  i = j
    <3>1. i + 1 \in DOMAIN s /\ j + 1 \in DOMAIN s /\ s[i + 1] \in S /\ s[j + 1] \in S
      BY <1>1, <2>1
    <3>2. i + 1 = j + 1
      BY <2>1, <3>1 DEF Only
    <3> QED
      BY <3>2
  <2> QED
    BY <1>1, <2>1 DEF Only
<1>5. ASSUME NEW S, Only(s, S), Head(s) \in S PROVE ToSet(t) \cap S = {}
  <2>1. \A i \in 1 .. Len(s) - 1 : t[i] \notin S
    <3> SUFFICES ASSUME NEW i \in 1 .. Len(s) - 1, t[i] \in S PROVE FALSE
      OBVIOUS
    <3>1. s[i + 1] \in S /\ i + 1 \in 1 .. Len(s) /\ s[1] \in S /\ 1 \in 1 .. Len(s)
      BY <1>1, <1>5
    <3>2. i + 1 = 1
      BY <1>1, <1>5, <3>1 DEF Only
    <3> QED
      BY <3>2
  <2> QED
    BY <1>1, <2>1 DEF ToSet
<1>6. Head(s) \in ToSet(s)
  BY <1>3
<1> QED
  BY <1>1, <1>3, <1>4, <1>5, <1>6 DEF t

LEMMA Filtered ==
    ASSUME NEW T, NEW s \in Seq(T), NEW R
    PROVE  /\ Among(s, R) \in Seq(T)
           /\ ToSet(Among(s, R)) = ToSet(s) \cap R
           /\ s # << >> /\ Head(s) \in R =>
                Among(s, R) # << >> /\ Head(Among(s, R)) = Head(s)
           /\ \A S : Only(s, S) => Only(Among(s, R), S)
<1>0. Among(s, R) \in Seq(T)
  BY AmongKeeps
<1>2. \E at \in [1 .. Len(Among(s, R)) -> 1 .. Len(s)] :
        /\ \A k, l \in 1 .. Len(Among(s, R)) : k < l => at[k] < at[l]
        /\ \A k \in 1 .. Len(Among(s, R)) : Among(s, R)[k] = s[at[k]]
  BY AmongRises
<1>1. ASSUME NEW S, Only(s, S) PROVE Only(Among(s, R), S)
  <2> DEFINE t == Among(s, R)
  <2>1. t \in Seq(T)
    BY <1>0
  <2>2. PICK at \in [1 .. Len(t) -> 1 .. Len(s)] :
            /\ \A k, l \in 1 .. Len(t) : k < l => at[k] < at[l]
            /\ \A k \in 1 .. Len(t) : t[k] = s[at[k]]
    BY <1>2
  <2> HIDE DEF t
  <2> SUFFICES ASSUME NEW i \in DOMAIN t, NEW j \in DOMAIN t, t[i] \in S, t[j] \in S
               PROVE  i = j
    BY DEF Only, t
  <2>3. i \in 1 .. Len(t) /\ j \in 1 .. Len(t) /\ Len(t) \in Nat /\ Len(s) \in Nat
    BY <2>1
  <2>4. at[i] = at[j]
    BY <1>1, <2>2, <2>3 DEF Only
  <2>5. at[i] \in Nat /\ i \in Nat /\ j \in Nat
    BY <2>2, <2>3
  <2> QED
    BY <2>2, <2>3, <2>4, <2>5
<1> QED
  BY <1>0, <1>1, AmongKeeps

LEMMA Prepended ==
    ASSUME NEW T, NEW s \in Seq(T), NEW e \in T
    PROVE  << e >> \o s \in Seq(T) /\ ToSet(<< e >> \o s) = ToSet(s) \cup {e}
<1> DEFINE t == << e >> \o s
<1>1. /\ t \in Seq(T) /\ Len(s) \in Nat /\ DOMAIN t = 1 .. Len(s) + 1 /\ DOMAIN s = 1 .. Len(s)
      /\ t[1] = e
      /\ \A i \in 1 .. Len(s) : t[i + 1] = s[i]
  OBVIOUS
<1> HIDE DEF t
<1>2. \A i \in 2 .. Len(s) + 1 : i - 1 \in 1 .. Len(s) /\ t[i] = s[i - 1]
  BY <1>1
<1>3. \A i \in 1 .. Len(s) + 1 : i = 1 \/ i \in 2 .. Len(s) + 1
  BY <1>1
<1>4. \A i \in 1 .. Len(s) : i + 1 \in 1 .. Len(s) + 1
  BY <1>1
<1>5. ToSet(t) \subseteq ToSet(s) \cup {e}
  BY <1>1, <1>2, <1>3 DEF ToSet
<1>6. e \in ToSet(t) /\ ToSet(s) \subseteq ToSet(t)
  <2>1. 1 \in 1 .. Len(s) + 1
    BY <1>1
  <2> QED
    BY <1>1, <1>4, <2>1 DEF ToSet
<1> QED
  BY <1>1, <1>5, <1>6 DEF t

-----------------------------------------------------------------------------
(* The inductive invariant, in four parts. *)

Over == {"completed", "interrupted", "failed"}

(* Runs.  One that is active has a text, and no turn beyond its attempt;    *)
(* what is starting has not asked the agent; only its own turn settles it.  *)
ActiveRowOK == \A m \in Msg : St(m) \in Live =>
    /\ Cur(m) \in Attempt /\ Text(m, Cur(m)) \in Msg
    /\ \A a \in Attempt : a > Cur(m) => Turn(m, a) = "none"

StartingIsUnsent == \A m \in Msg : St(m) = "starting" => Turn(m, Cur(m)) = "none"

SettledInv == \A m \in Msg : St(m) \in {"waiting", "completed"} =>
    Cur(m) \in Attempt /\ Turn(m, Cur(m)) = "completed"

EndedIsOver == \A m \in Msg, a \in Attempt : <<m, a>> \in ended => Turn(m, a) \in Over

RowInv == ActiveRowOK /\ StartingIsUnsent /\ SettledInv /\ EndedIsOver

(* Messages.  Where one that no call has confirmed is, it is only there.    *)
UnsentIsNew == \A m \in Msg : m \notin sent =>
    m \notin confirmed /\ St(m) = "none" /\ ~Begun(m)

QueuedIsNew == \A m \in Msg : St(m) = "queued" =>
    m \in sent /\ m \notin confirmed /\ ~Begun(m) /\ Cur(m) = 1 /\ Text(m, 1) = m

SteersOf(m) == {e \in LaneEffect : e.type = "steer" /\ e.msg = m}

NewToAgent(m) ==
    /\ m \in sent /\ m \notin confirmed /\ ~Begun(m)
    /\ St(m) \in {"none", "cancelled"}
    /\ \A r \in Msg, a \in Attempt : Text(r, a) = m => r = m

SteerIsNew == \A e \in Effects : e.type = "steer" => NewToAgent(e.msg)

OneSteerIn(s) == \A m \in Msg : Only(s, SteersOf(m))
OneSteer == OneSteerIn(lane)

UnsentIsUnconfirmed == \A r \in Msg : Unsent(r) => Text(r, Cur(r)) \notin confirmed

(* A message is the text of one attempt. *)
TextIsSent == \A r \in Msg, a \in Attempt : Text(r, a) # NoMsg => Text(r, a) \in sent
OneText == \A r, q \in Msg, a, b \in Attempt :
    Text(r, a) = Text(q, b) /\ Text(r, a) # NoMsg => r = q /\ a = b

MessageInv ==
    /\ UnsentIsNew /\ QueuedIsNew /\ SteerIsNew /\ OneSteer /\ UnsentIsUnconfirmed
    /\ TextIsSent /\ OneText

(* The lane.  The attempt that an effect starts is its run's until the call *)
(* has returned: no other writer changes it.                                *)
EffectTyped(e) ==
    /\ e.type \in {"restart", "steer", "interrupt"} => e.att \in Attempt
    /\ e.type = "steer" => e.msg \in Msg
    /\ e.type = "capture" => Begun(e.run)

EffectsTyped == \A e \in Effects : EffectTyped(e)

ExecKind ==
    /\ exec.pc # "idle" => lane # << >>
    /\ exec.pc \in {"open", "call", "send"} =>
            Current.type \in Startup /\ exec.att \in Attempt
    /\ exec.pc = "await" => Current.type = "restart"
    /\ exec.pc \in {"steer", "follow"} => Current.type = "steer"
    /\ exec.pc \in {"poll", "settle"} => Current.type = "interrupt" /\ exec.att \in Attempt
    /\ exec.pc \in {"capture", "stamp"} => Current.type = "capture"
    /\ exec.pc = "capture" => exec.att \in Attempt

Holds(r, a, st) == Cur(r) = a /\ St(r) = st /\ Turn(r, a) = "none"

StartHolds ==
    /\ exec.pc = "open" => Holds(Current.run, exec.att, "starting")
    /\ exec.pc \in {"call", "send"} => Holds(Current.run, exec.att, "running")

CaptureHolds == exec.pc = "capture" => Turn(Current.run, exec.att) = "completed"

LaneInv == EffectsTyped /\ ExecKind /\ StartHolds /\ CaptureHolds

(* The lock.  What its holder has read, and what may have changed since.    *)
Copied(m) ==
    /\ cmd.copy[m].st \in Live =>
            /\ St(m) \in Live \cup Over
            /\ cmd.copy[m].cur \in Attempt /\ cmd.copy[m].text[cmd.copy[m].cur] \in Msg
            /\ \A a \in Attempt : a > cmd.copy[m].cur => Turn(m, a) = "none"
    /\ \A a \in Attempt : cmd.copy[m].text[a] = Text(m, a)
    /\ \A a \in Attempt : cmd.copy[m].turn[a] # "none" => Turn(m, a) # "none"
    /\ St(m) \in Live => Cur(m) = cmd.copy[m].cur

CopyInv == cmd # NoCommand => cmd.copy \in [Msg -> RunRow] /\ \A m \in Msg : Copied(m)

CommandInv ==
    /\ cmd.kind \in Sends => cmd.msg \in Msg \ sent
    /\ cmd.kind = "restart" => \A r \in Targets : cmd.copy[r].cur < MaxAttempts
    /\ cmd.kind \in Picks => cmd.msg \in ToSet(queue)
    /\ cmd.kind = "followup" => exec.pc = "follow" /\ cmd.msg = Current.msg
    /\ cmd.kind = "settle" => exec.pc = "settle" /\ cmd.msg = Current.run

LockInv == CopyInv /\ CommandInv

-----------------------------------------------------------------------------
(* The type invariant, in parts. *)
QueueOK ==
    /\ queue \in Seq(Msg) /\ held \subseteq ToSet(queue)
    /\ \A m \in Msg : St(m) = "queued" <=> m \in ToSet(queue)

ExecPc == {"idle", "await", "open", "call", "send", "steer", "follow", "poll", "settle",
           "capture", "stamp"}
ExecType == [pc : ExecPc, att : 0 .. MaxAttempts, tries : 0 .. MaxTries - 1]

LaneOK == lane \in Seq(LaneEffect) /\ exec \in ExecType

RecordsOK ==
    /\ asked \subseteq Msg \X Attempt /\ ended \subseteq Msg \X Attempt
    /\ ends \in Seq([run : Msg, st : Terminal])
    /\ last \in Msg \cup {NoMsg}
    /\ stopped \subseteq Msg /\ captured \subseteq Msg
    /\ sent \subseteq Msg /\ forgone \subseteq Msg /\ late \subseteq Msg
    /\ confirmed \subseteq Msg /\ dropped \subseteq Msg
    /\ delivered \in [Msg -> Nat] /\ acts \in 0 .. MaxActs

KindOK == cmd.kind \in {"none", "stop", "resume", "settle", "followup"} \cup Sends \cup Picks

LEMMA TypeParts == TypeOK <=> Rows /\ QueueOK /\ LaneOK /\ RecordsOK /\ KindOK
BY DEF TypeOK, Rows, RunRow, RunStatus, TurnStatus, QueueOK, LaneOK, LaneEffect, ExecType,
       ExecPc, RecordsOK, KindOK, St

MessagesInv ==
    /\ Rows /\ QueueOK /\ LaneOK /\ RecordsOK /\ KindOK
    /\ RowInv /\ MessageInv /\ LaneInv /\ LockInv

-----------------------------------------------------------------------------
(* Effects. *)
LEMMA EffectFields ==
    /\ \A t \in {"start", "restart", "steer", "interrupt", "capture"}, r \in Msg,
          a \in 0 .. MaxAttempts, m \in Msg \cup {NoMsg} :
            /\ Effect(t, r, a, m) \in LaneEffect
            /\ Effect(t, r, a, m).type = t /\ Effect(t, r, a, m).run = r
            /\ Effect(t, r, a, m).att = a /\ Effect(t, r, a, m).msg = m
    /\ \A e \in LaneEffect :
            /\ e.type \in {"start", "restart", "steer", "interrupt", "capture"}
            /\ e.run \in Msg /\ e.att \in 0 .. MaxAttempts /\ e.msg \in Msg \cup {NoMsg}
BY DEF LaneEffect, Effect

LEMMA CurrentEffect ==
    ASSUME LaneOK, lane # << >>
    PROVE  Current \in Effects /\ Current \in LaneEffect /\ Current.run \in Msg
BY Tailed, EffectFields DEF Current, LaneOK, Effects

LEMMA EffectsAreTyped == ASSUME LaneOK PROVE Effects \subseteq LaneEffect
BY DEF LaneOK, Effects, ToSet

LEMMA AttemptZero == 0 \in 0 .. MaxAttempts /\ Attempt \subseteq 0 .. MaxAttempts
BY BoundsAssumption DEF Attempt

(* Where an execution goes. *)
LEMMA RestingTyped == Resting \in ExecType /\ Resting.pc = "idle"
BY AttemptZero, BoundsAssumption DEF Resting, ExecType, ExecPc

LEMMA GoesTo ==
    ASSUME LaneOK, NEW pc \in ExecPc, NEW a \in 0 .. MaxAttempts, GoTo(pc, a)
    PROVE  exec' \in ExecType /\ exec'.pc = pc /\ exec'.att = a /\ lane' = lane
BY DEF GoTo, LaneOK, ExecType

LEMMA TriesAgain ==
    ASSUME LaneOK, WillRetry, TryAgain
    PROVE  exec' \in ExecType /\ exec'.pc = "idle" /\ lane' = lane
<1>1. exec.tries + 1 \in 0 .. MaxTries - 1
  BY BoundsAssumption DEF LaneOK, ExecType, WillRetry
<1>2. exec' = [pc |-> "idle", att |-> 0, tries |-> exec.tries + 1]
  BY DEF TryAgain, Resting
<1>3. "idle" \in ExecPc /\ lane' = lane
  BY DEF ExecPc, TryAgain
<1> QED
  BY <1>1, <1>2, <1>3, AttemptZero DEF ExecType

(* What appends a capture. *)
LEMMA CaptureAppended ==
    ASSUME NEW s \in Seq(LaneEffect), NEW r
    PROVE  \/ s \o CaptureOf(r) = s
           \/ s \o CaptureOf(r) = Append(s, Effect("capture", r, 0, NoMsg))
<1>1. s \o << >> = s
  OBVIOUS
<1>2. \A e : s \o << e >> = Append(s, e)
  OBVIOUS
<1> QED
  BY <1>1, <1>2 DEF CaptureOf

-----------------------------------------------------------------------------
(* Steps that keep a part of the invariant. *)

LEMMA RowsStill ==
    ASSUME RowInv, SameSt, SameCur, SameText, SameTurn, ended' \subseteq ended
    PROVE  RowInv'
<1>0. \A m \in Msg : St(m) \in Live => Cur(m) \in Attempt
  BY DEF RowInv, ActiveRowOK
<1>1. ActiveRowOK'
  BY DEF RowInv, ActiveRowOK, SameSt, SameCur, SameText, SameTurn
<1>3. StartingIsUnsent'
  BY <1>0 DEF RowInv, StartingIsUnsent, SameSt, SameCur, SameTurn, Live
<1>2. SettledInv' /\ EndedIsOver'
  BY DEF RowInv, SettledInv, EndedIsOver, SameSt, SameCur, SameTurn
<1> QED
  BY <1>1, <1>2, <1>3 DEF RowInv

LEMMA QueueKept ==
    ASSUME QueueOK, queue' = queue, held' \subseteq ToSet(queue),
           \A m \in Msg : St(m)' = "queued" <=> St(m) = "queued"
    PROVE  QueueOK'
BY DEF QueueOK

(* No message goes anywhere but out of the lane. *)
LEMMA MessagesKept ==
    ASSUME RowInv, MessageInv, sent \subseteq sent', confirmed' = confirmed, SameText,
           \A m \in Msg : Begun(m)' => Begun(m),
           \A m \in Msg : St(m) \in {"none", "cancelled"} /\ ~Begun(m) => St(m)' = St(m),
           \A m \in Msg : St(m)' = "queued" => St(m) = "queued" /\ Cur(m)' = Cur(m),
           \A m \in Msg : Unsent(m)' =>
                \/ Unsent(m) /\ Cur(m)' = Cur(m)
                \/ Text(m, Cur(m))' \notin confirmed,
           \A e \in Effects' : e.type = "steer" =>
                \/ e \in Effects /\ e.msg \in Msg
                \/ NewToAgent(e.msg)',
           OneSteer'
    PROVE  MessageInv'
<1> USE DEF MessageInv
<1>1. UnsentIsNew'
  BY DEF UnsentIsNew
<1>2. QueuedIsNew'
  <2>1. 1 \in Attempt
    BY BoundsAssumption DEF Attempt
  <2> QED
    BY <2>1 DEF QueuedIsNew, SameText
<1>3. SteerIsNew'
  <2>1. \A m \in Msg : NewToAgent(m) => NewToAgent(m)'
    BY DEF NewToAgent, SameText
  <2> QED
    BY <2>1 DEF SteerIsNew
<1>4. UnsentIsUnconfirmed'
  <2>1. \A m \in Msg : Unsent(m) => Cur(m) \in Attempt
    BY DEF Unsent, Live, RowInv, ActiveRowOK
  <2> QED
    BY <2>1 DEF UnsentIsUnconfirmed, SameText
<1>5. TextIsSent' /\ OneText'
  BY DEF TextIsSent, OneText, SameText
<1> QED
  BY <1>1, <1>2, <1>3, <1>4, <1>5

LEMMA LaneKept ==
    ASSUME LaneInv, exec' = exec,
           lane # << >> => lane' # << >> /\ Head(lane') = Head(lane),
           LaneOK, LaneOK', \A e \in Effects' : e \in Effects \/ EffectTyped(e)',
           \A m \in Msg : Begun(m) => Begun(m)',
           exec.pc \in {"open", "call", "send"} =>
                \A r \in Msg, a \in Attempt, s \in {"starting", "running"} :
                    Holds(r, a, s) => Holds(r, a, s)',
           \A r \in Msg, a \in Attempt : Turn(r, a) = "completed" => Turn(r, a)' = "completed"
    PROVE  LaneInv'
<1> USE DEF LaneInv
<1>1. EffectsTyped'
  BY EffectsAreTyped, EffectFields DEF EffectsTyped, EffectTyped
<1>2. ExecKind'
  BY DEF ExecKind, Current
<1>3. StartHolds'
  BY CurrentEffect DEF StartHolds, ExecKind, Current
<1>4. CaptureHolds'
  BY CurrentEffect DEF CaptureHolds, ExecKind, Current
<1> QED
  BY <1>1, <1>2, <1>3, <1>4

LEMMA LaneRests ==
    ASSUME LaneInv, exec'.pc = "idle",
           LaneOK, LaneOK', \A e \in Effects' : e \in Effects \/ EffectTyped(e)',
           \A m \in Msg : Begun(m) => Begun(m)'
    PROVE  LaneInv'
<1> USE DEF LaneInv
<1>1. EffectsTyped'
  BY EffectsAreTyped, EffectFields DEF EffectsTyped, EffectTyped
<1> QED
  BY <1>1 DEF ExecKind, StartHolds, CaptureHolds

LEMMA LockFreed == ASSUME cmd' = NoCommand PROVE LockInv' /\ KindOK'
BY DEF LockInv, CopyInv, CommandInv, NoCommand, Sends, Picks, KindOK

(* Who takes the lock reads the rows. *)
LEMMA LockTaken ==
    ASSUME Rows, RowInv, cmd'.copy = run, run' = run
    PROVE  CopyInv'
<1>1. SameSt /\ SameCur /\ SameText /\ SameTurn
  BY RowsKept
<1>2. ASSUME NEW m \in Msg PROVE Copied(m)'
  BY <1>1, <1>2 DEF Copied, RowInv, ActiveRowOK, SameSt, SameCur, SameText, SameTurn, St, Cur,
     Text, Turn
<1> QED
  BY <1>2 DEF CopyInv, Rows

(* What those who write without the lock leave to its holder. *)
LEMMA CopyKept ==
    ASSUME CopyInv, cmd' = cmd, SameText,
           \A m \in Msg : St(m) \in Live \cup Over => St(m)' \in Live \cup Over,
           \A m \in Msg : St(m)' \in Live => St(m) \in Live /\ Cur(m)' = Cur(m),
           \A m \in Msg, a \in Attempt : Turn(m, a) # "none" => Turn(m, a)' # "none",
           \A m \in Msg, a \in Attempt : Turn(m, a)' # "none" =>
                Turn(m, a) # "none" \/ (St(m) \in Live /\ Cur(m) = a)
    PROVE  CopyInv'
<1> SUFFICES ASSUME cmd # NoCommand, NEW m \in Msg PROVE Copied(m)'
  BY DEF CopyInv
<1>1. Copied(m) /\ cmd.copy[m].cur \in 0 .. MaxAttempts
  BY DEF CopyInv, RunRow
<1>2. ASSUME cmd.copy[m].st \in Live, NEW a \in Attempt, a > cmd.copy[m].cur
      PROVE  Turn(m, a)' = "none"
  BY <1>1, <1>2 DEF Copied, Attempt
<1>3. \A a \in Attempt : Text(m, a)' = Text(m, a)
  BY DEF SameText
<1>4. /\ cmd.copy[m].st \in Live => St(m)' \in Live \cup Over
      /\ \A a \in Attempt : cmd.copy[m].turn[a] # "none" => Turn(m, a)' # "none"
      /\ St(m)' \in Live => Cur(m)' = cmd.copy[m].cur
  BY <1>1 DEF Copied
<1> QED
  BY <1>1, <1>2, <1>3, <1>4 DEF Copied

LEMMA CommandKept ==
    ASSUME CommandInv, cmd' = cmd, sent' = sent, queue' = queue,
           exec.pc \in {"follow", "settle"} /\ cmd.kind \in {"followup", "settle"} =>
                exec' = exec /\ Head(lane') = Head(lane)
    PROVE  CommandInv'
BY DEF CommandInv, Current, Targets

-----------------------------------------------------------------------------
(* What a step does to the lane. *)

LEMMA LaneAppended ==
    ASSUME NEW s \in Seq(LaneEffect), OneSteerIn(s), NEW e \in LaneEffect
    PROVE  /\ Append(s, e) \in Seq(LaneEffect) /\ ToSet(Append(s, e)) = ToSet(s) \cup {e}
           /\ Append(s, e) # << >> /\ (s # << >> => Head(Append(s, e)) = Head(s))
           /\ (e.type = "steer" => \A f \in ToSet(s) : f.type = "steer" => f.msg # e.msg)
                => OneSteerIn(Append(s, e))
<1>1. /\ Append(s, e) \in Seq(LaneEffect) /\ ToSet(Append(s, e)) = ToSet(s) \cup {e}
      /\ Append(s, e) # << >> /\ (s # << >> => Head(Append(s, e)) = Head(s))
      /\ \A S : Only(s, S) /\ (e \in S => ToSet(s) \cap S = {}) => Only(Append(s, e), S)
  BY Appended
<1>2. ASSUME e.type = "steer" => \A f \in ToSet(s) : f.type = "steer" => f.msg # e.msg
      PROVE  OneSteerIn(Append(s, e))
  <2> SUFFICES ASSUME NEW m \in Msg PROVE Only(Append(s, e), SteersOf(m))
    BY DEF OneSteerIn
  <2>1. Only(s, SteersOf(m))
    BY DEF OneSteerIn
  <2>2. e \in SteersOf(m) => ToSet(s) \cap SteersOf(m) = {}
    BY <1>2 DEF SteersOf
  <2> QED
    BY <1>1, <2>1, <2>2
<1> QED
  BY <1>1, <1>2

LEMMA LanePopped ==
    ASSUME LaneOK, OneSteer, EffectsTyped, lane # << >>
    PROVE  /\ Tail(lane) \in Seq(LaneEffect) /\ Effects = {Current} \cup ToSet(Tail(lane))
           /\ OneSteerIn(Tail(lane))
           /\ Current.type = "steer" =>
                \A f \in ToSet(Tail(lane)) : f.type = "steer" => f.msg # Current.msg
<1> DEFINE t == Tail(lane)
<1>1. /\ t \in Seq(LaneEffect) /\ Effects = {Current} \cup ToSet(t)
      /\ Current \in LaneEffect
      /\ \A S : Only(lane, S) => Only(t, S)
      /\ \A S : Only(lane, S) /\ Current \in S => ToSet(t) \cap S = {}
  BY Tailed DEF LaneOK, Effects, Current
<1> HIDE DEF t
<1>2. OneSteerIn(t)
  BY <1>1 DEF OneSteer, OneSteerIn
<1>3. ASSUME Current.type = "steer", NEW f \in ToSet(t), f.type = "steer", f.msg = Current.msg
      PROVE  FALSE
  <2> DEFINE m == Current.msg
  <2>1. m \in Msg
    BY <1>1, <1>3 DEF EffectsTyped, EffectTyped
  <2>2. f \in LaneEffect
    BY <1>1 DEF ToSet
  <2>3. Current \in SteersOf(m) /\ f \in SteersOf(m)
    BY <1>1, <1>3, <2>2 DEF SteersOf
  <2> QED
    BY <1>1, <1>3, <2>1, <2>3 DEF OneSteer, OneSteerIn
<1> QED
  BY <1>1, <1>2, <1>3 DEF t

-----------------------------------------------------------------------------
(* A step that writes no run, and enqueues neither a steer nor a capture. *)
LEMMA Unmoved ==
    ASSUME MessagesInv, run' = run, ended' \subseteq ended, confirmed' = confirmed,
           sent \subseteq sent', LaneOK', OneSteer',
           \A e \in Effects' : e \in Effects \/
                (e.type \notin {"steer", "capture"} /\ EffectTyped(e))
    PROVE  /\ Rows' /\ RowInv' /\ MessageInv'
           /\ SameSt /\ SameCur /\ SameText /\ SameTurn
           /\ exec' = exec /\ (lane # << >> => lane' # << >> /\ Head(lane') = Head(lane))
                => LaneInv'
           /\ exec'.pc = "idle" => LaneInv'
<1> USE DEF MessagesInv
<1>1. SameSt /\ SameCur /\ SameText /\ SameTurn /\ Rows'
  BY RowsKept DEF Rows
<1>2. RowInv'
  BY <1>1, RowsStill
<1>3. \A m \in Msg : Begun(m)' <=> Begun(m)
  BY <1>1 DEF Begun, SameTurn
<1>4. \A m \in Msg : St(m)' = St(m) /\ Cur(m)' = Cur(m)
  BY <1>1 DEF SameSt, SameCur
<1>5. \A m \in Msg : Unsent(m)' => Unsent(m)
  BY DEF Unsent, St, Cur, Turn
<1>6. \A e \in Effects : e.type = "steer" => e.msg \in Msg
  BY DEF LaneInv, EffectsTyped, EffectTyped
<1>7. MessageInv'
  <2>1. \A e \in Effects' : e.type = "steer" => e \in Effects /\ e.msg \in Msg
    BY <1>6
  <2> QED
    BY <1>1, <1>3, <1>4, <1>5, <2>1, MessagesKept
<1>8. \A e \in Effects' : e \in Effects \/ EffectTyped(e)'
  BY DEF EffectTyped
<1>9. \A r \in Msg, a \in Attempt, s \in {"starting", "running"} :
        Holds(r, a, s) => Holds(r, a, s)'
  BY <1>1 DEF Holds, SameSt, SameCur, SameTurn
<1>10. \A r \in Msg, a \in Attempt : Turn(r, a) = "completed" => Turn(r, a)' = "completed"
  BY <1>1 DEF SameTurn
<1>11. exec' = exec /\ (lane # << >> => lane' # << >> /\ Head(lane') = Head(lane)) => LaneInv'
  BY <1>3, <1>8, <1>9, <1>10, LaneKept
<1>12. exec'.pc = "idle" => LaneInv'
  BY <1>3, <1>8, LaneRests
<1> QED
  BY <1>1, <1>2, <1>7, <1>11, <1>12

LEMMA StatusesStill ==
    ASSUME MessagesInv, run' = run, queue' = queue, held' \subseteq ToSet(queue)
    PROVE  QueueOK'
BY DEF MessagesInv, QueueOK, St

-----------------------------------------------------------------------------
(* What the holder of the lock knows. *)

LEMMA TargetKnown ==
    ASSUME MessagesInv, cmd # NoCommand, Targets # {}
    PROVE  /\ Target \in Msg /\ Target \in sent
           /\ St(Target) \in Live \cup Over
           /\ cmd.copy[Target].cur \in Attempt
           /\ cmd.copy[Target].text[cmd.copy[Target].cur] = Text(Target, cmd.copy[Target].cur)
           /\ Text(Target, cmd.copy[Target].cur) \in Msg
           /\ \A a \in Attempt : a > cmd.copy[Target].cur => Turn(Target, a) = "none"
           /\ St(Target) \in Live => Cur(Target) = cmd.copy[Target].cur
           /\ Steerable => Turn(Target, cmd.copy[Target].cur) # "none"
<1> DEFINE r == Target
<1>1. r \in Targets
  BY DEF Target
<1>2. r \in Msg /\ cmd.copy[r].st \in Live
  BY <1>1 DEF Targets, ActiveRuns
<1>3. Copied(r)
  BY <1>2 DEF MessagesInv, LockInv, CopyInv
<1> HIDE DEF r
<1>4. /\ St(r) \in Live \cup Over /\ cmd.copy[r].cur \in Attempt
      /\ cmd.copy[r].text[cmd.copy[r].cur] = Text(r, cmd.copy[r].cur)
      /\ Text(r, cmd.copy[r].cur) \in Msg
      /\ \A a \in Attempt : a > cmd.copy[r].cur => Turn(r, a) = "none"
      /\ St(r) \in Live => Cur(r) = cmd.copy[r].cur
  BY <1>2, <1>3 DEF Copied
<1>5. r \in sent
  BY <1>2, <1>4 DEF MessagesInv, MessageInv, UnsentIsNew, Live, Over
<1>6. cmd.copy[r].turn[cmd.copy[r].cur] = "running" => Turn(r, cmd.copy[r].cur) # "none"
  BY <1>3, <1>4 DEF Copied
<1>7. Steerable => cmd.copy[r].turn[cmd.copy[r].cur] = "running"
  BY <1>4 DEF Steerable, TurnOf, r
<1> QED
  BY <1>2, <1>4, <1>5, <1>6, <1>7 DEF r

LEMMA CommandTaken ==
    ASSUME cmd.kind # "none"
    PROVE  cmd # NoCommand
BY DEF NoCommand

(* The message that is sent is new, or carried by the effect that waits.    *)
LEMMA MessageIsNew ==
    ASSUME MessagesInv, Sending
    PROVE  /\ cmd.msg \in Msg /\ St(cmd.msg) \in {"none", "cancelled"} /\ ~Begun(cmd.msg)
           /\ cmd.msg \notin confirmed
           /\ \A r \in Msg, a \in Attempt : Text(r, a) = cmd.msg => r = cmd.msg
           /\ cmd.kind \in Sends => cmd.msg \notin sent
           /\ cmd.kind = "followup" =>
                lane # << >> /\ Current.type = "steer" /\ Current.msg = cmd.msg
<1> DEFINE m == cmd.msg
<1>1. CASE cmd.kind \in Sends
  <2>1. m \in Msg /\ m \notin sent
    BY <1>1 DEF MessagesInv, LockInv, CommandInv
  <2>2. \A r \in Msg, a \in Attempt : Text(r, a) # m
    BY <2>1, MessagesAssumption DEF MessagesInv, MessageInv, TextIsSent
  <2>3. "followup" \notin Sends
    BY DEF Sends
  <2> QED
    BY <1>1, <2>1, <2>2, <2>3 DEF MessagesInv, MessageInv, UnsentIsNew
<1>2. CASE cmd.kind = "followup"
  <2>1. /\ lane # << >> /\ Current.type = "steer" /\ m = Current.msg /\ Current \in Effects
        /\ m \in Msg
    BY <1>2, CurrentEffect DEF MessagesInv, LockInv, CommandInv, LaneInv, ExecKind,
       EffectsTyped, EffectTyped
  <2>2. "followup" \notin Sends
    BY DEF Sends
  <2> QED
    BY <1>2, <2>1, <2>2 DEF MessagesInv, MessageInv, SteerIsNew, NewToAgent
<1> QED
  BY <1>1, <1>2 DEF Sending

(* A follow-up takes the place of its steer. *)
LEMMA LaneAfterCommand ==
    ASSUME MessagesInv, Sending
    PROVE  /\ LaneAfter \in Seq(LaneEffect) /\ OneSteerIn(LaneAfter)
           /\ ToSet(LaneAfter) \subseteq Effects
           /\ \A f \in ToSet(LaneAfter) : f.type = "steer" => f.msg # cmd.msg
           /\ cmd.kind # "followup" => LaneAfter = lane
<1>1. CASE cmd.kind = "followup"
  BY <1>1, LanePopped, MessageIsNew DEF LaneAfter, MessagesInv, MessageInv, LaneInv
<1>2. CASE cmd.kind # "followup"
  BY <1>2, MessageIsNew DEF LaneAfter, MessagesInv, MessageInv, LaneOK, OneSteer, Effects,
     Sending, SteerIsNew, NewToAgent
<1> QED
  BY <1>1, <1>2

-----------------------------------------------------------------------------
(* A run is created for the message. *)
LEMMA Created ==
    ASSUME MessagesInv, Sending, NEW s \in {"starting", "queued"},
           run' = [run EXCEPT ![cmd.msg] = NewRun(cmd.msg, s)],
           ended' = ended, confirmed' = confirmed, sent' = sent \cup {cmd.msg},
           lane' = LaneAfter \/ lane' = Append(LaneAfter, Effect("start", cmd.msg, 0, NoMsg)),
           exec' = ExecAfter
    PROVE  Rows' /\ LaneOK' /\ RowInv' /\ MessageInv' /\ LaneInv'
<1> DEFINE m == cmd.msg
<1> USE DEF MessagesInv
<1>1. /\ m \in Msg /\ St(m) \in {"none", "cancelled"} /\ ~Begun(m)
      /\ m \notin confirmed
      /\ \A r \in Msg, a \in Attempt : Text(r, a) = m => r = m
  BY MessageIsNew
<1>2. /\ Rows' /\ SetsSt(m, s) /\ SetsCur(m, 1)
      /\ \A q \in Msg, a \in Attempt :
            /\ Text(q, a)' = IF q = m THEN (IF a = 1 THEN q ELSE NoMsg) ELSE Text(q, a)
            /\ Turn(q, a)' = IF q = m THEN "none" ELSE Turn(q, a)
  <2>1. s \in RunStatus
    BY DEF RunStatus, Live
  <2> QED
    BY <1>1, <2>1, RunCreated
<1>3. /\ lane' \in Seq(LaneEffect) /\ OneSteerIn(lane')
      /\ \A e \in Effects' : (e \in Effects /\ (e.type = "steer" => e.msg # m))
                                \/ e = Effect("start", m, 0, NoMsg)
      /\ cmd.kind # "followup" /\ lane # << >> => lane' # << >> /\ Head(lane') = Head(lane)
  <2>1. /\ Effect("start", m, 0, NoMsg) \in LaneEffect
        /\ Effect("start", m, 0, NoMsg).type = "start"
    BY <1>1, EffectFields, AttemptZero
  <2>2. /\ LaneAfter \in Seq(LaneEffect) /\ OneSteerIn(LaneAfter)
        /\ \A e \in ToSet(LaneAfter) : e \in Effects /\ (e.type = "steer" => e.msg # m)
        /\ cmd.kind # "followup" => LaneAfter = lane
    BY LaneAfterCommand
  <2>3. CASE lane' = LaneAfter
    BY <2>2, <2>3 DEF Effects
  <2>4. CASE lane' = Append(LaneAfter, Effect("start", m, 0, NoMsg))
    <3> DEFINE e == Effect("start", m, 0, NoMsg)
    <3>1. /\ Append(LaneAfter, e) \in Seq(LaneEffect)
          /\ ToSet(Append(LaneAfter, e)) = ToSet(LaneAfter) \cup {e}
          /\ OneSteerIn(Append(LaneAfter, e)) /\ Append(LaneAfter, e) # << >>
          /\ LaneAfter # << >> => Head(Append(LaneAfter, e)) = Head(LaneAfter)
      BY <2>1, <2>2, LaneAppended
    <3> QED
      BY <2>2, <2>4, <3>1 DEF Effects
  <2> QED
    BY <2>3, <2>4
<1>4. LaneOK'
  BY <1>3, RestingTyped DEF LaneOK, ExecAfter
<1> HIDE DEF m
<1>5. 1 \in Attempt /\ \A a \in Attempt : a \in Nat
  BY BoundsAssumption DEF Attempt
<1>6. RowInv'
  <2>1. ActiveRowOK'
    BY <1>1, <1>2, <1>5 DEF ActiveRowOK, RowInv, SetsSt, SetsCur
  <2>2. StartingIsUnsent'
    <3>1. \A q \in Msg : St(q) = "starting" => Cur(q) \in Attempt
      BY DEF RowInv, ActiveRowOK, Live
    <3> QED
      BY <1>1, <1>2, <1>5, <3>1 DEF StartingIsUnsent, RowInv, SetsSt, SetsCur
  <2>3. SettledInv'
    BY <1>1, <1>2, <1>5 DEF SettledInv, RowInv, SetsSt, SetsCur
  <2>4. EndedIsOver'
    BY <1>1, <1>2 DEF EndedIsOver, RowInv, Begun, Over
  <2> QED
    BY <2>1, <2>2, <2>3, <2>4 DEF RowInv
<1>7. MessageInv'
  <2> USE DEF MessageInv
  <2>0. m # NoMsg
    BY <1>1, MessagesAssumption
  <2>1. \A q \in Msg : Begun(q)' <=> q # m /\ Begun(q)
    BY <1>2 DEF Begun
  <2>2. UnsentIsNew'
    BY <1>2, <2>1 DEF UnsentIsNew, SetsSt, m
  <2>3. QueuedIsNew'
    BY <1>1, <1>2, <1>5, <2>1 DEF QueuedIsNew, SetsSt, SetsCur, m
  <2>4. SteerIsNew'
    <3>1. ASSUME NEW e \in Effects', e.type = "steer"
          PROVE  e \in Effects /\ e.msg # m /\ e.msg \in Msg
      <4>1. Effect("start", m, 0, NoMsg).type # "steer"
        BY DEF Effect
      <4> QED
        BY <1>3, <3>1, <4>1 DEF LaneInv, EffectsTyped, EffectTyped, m
    <3>2. SUFFICES ASSUME NEW e \in Effects', e.type = "steer"
                   PROVE  NewToAgent(e.msg)'
      BY DEF SteerIsNew
    <3>3. /\ NewToAgent(e.msg)
          /\ e.msg \in Msg /\ e.msg # m /\ e.msg # NoMsg
      BY <3>1, <3>2, MessagesAssumption DEF SteerIsNew
    <3> QED
      BY <1>2, <2>1, <3>3 DEF SetsSt, NewToAgent
  <2>5. OneSteer'
    BY <1>3 DEF OneSteer
  <2>6. UnsentIsUnconfirmed'
    <3>1. \A q \in Msg : Unsent(q) => Cur(q) \in Attempt
      BY DEF Unsent, Live, RowInv, ActiveRowOK
    <3>2. \A q \in Msg : q # m /\ Unsent(q)' => Unsent(q) /\ Cur(q)' = Cur(q)
      BY <1>2, <1>6 DEF Unsent, SetsSt, SetsCur, RowInv, ActiveRowOK, Live
    <3> QED
      BY <1>1, <1>2, <1>5, <3>1, <3>2 DEF UnsentIsUnconfirmed, SetsCur
  <2>7. TextIsSent'
    BY <1>1, <1>2 DEF TextIsSent, m
  <2>8. OneText'
    BY <1>1, <1>2, <1>5 DEF OneText
  <2> QED
    BY <2>2, <2>3, <2>4, <2>5, <2>6, <2>7, <2>8
<1>8. LaneInv'
  <2>1. \A q \in Msg : Begun(q) => Begun(q)'
    BY <1>1, <1>2 DEF Begun
  <2>2. \A e \in Effects' : e \in Effects \/ EffectTyped(e)'
    BY <1>3 DEF EffectTyped, Effect
  <2>3. CASE cmd.kind = "followup"
    BY <2>1, <2>2, <2>3, <1>4, RestingTyped, LaneRests DEF ExecAfter
  <2>4. CASE cmd.kind # "followup"
    <3>1. \A r \in Msg, a \in Attempt, x \in {"starting", "running"} :
            Holds(r, a, x) => Holds(r, a, x)'
      BY <1>1, <1>2 DEF Holds, SetsSt, SetsCur
    <3>2. \A r \in Msg, a \in Attempt :
            Turn(r, a) = "completed" => Turn(r, a)' = "completed"
      BY <1>1, <1>2 DEF Begun
    <3> QED
      BY <2>1, <2>2, <2>4, <1>3, <1>4, <3>1, <3>2, LaneKept DEF ExecAfter
  <2> QED
    BY <2>3, <2>4
<1> QED
  BY <1>2, <1>4, <1>6, <1>7, <1>8

LEMMA StartAtOnceKeeps == ASSUME MessagesInv, StartAtOnce PROVE MessagesInv'
<1> DEFINE m == cmd.msg
<1>1. /\ m \in Msg /\ St(m) \in {"none", "cancelled"}
  BY MessageIsNew DEF StartAtOnce
<1>2. Rows' /\ LaneOK' /\ RowInv' /\ MessageInv' /\ LaneInv'
  BY Created DEF StartAtOnce, histVars, agentVars
<1>3. LockInv' /\ KindOK'
  BY LockFreed DEF StartAtOnce
<1>4. SetsSt(m, "starting")
  BY <1>1, RunCreated DEF StartAtOnce, MessagesInv, RunStatus, Live
<1>5. QueueOK'
  BY <1>1, <1>4, QueueKept DEF StartAtOnce, MessagesInv, QueueOK, SetsSt
<1>6. RecordsOK'
  BY <1>1 DEF StartAtOnce, MessagesInv, RecordsOK, histVars, agentVars
<1> QED
  BY <1>2, <1>3, <1>5, <1>6 DEF MessagesInv

LEMMA QueueBehindKeeps == ASSUME MessagesInv, QueueBehind PROVE MessagesInv'
<1> DEFINE m == cmd.msg
<1>0. Sending
  BY DEF QueueBehind, Sending, Sends
<1>1. /\ m \in Msg /\ St(m) \in {"none", "cancelled"}
  BY <1>0, MessageIsNew
<1>2. Rows' /\ LaneOK' /\ RowInv' /\ MessageInv' /\ LaneInv'
  BY <1>0, Created DEF QueueBehind, histVars, agentVars
<1>3. LockInv' /\ KindOK'
  BY LockFreed DEF QueueBehind
<1>4. SetsSt(m, "queued")
  BY <1>1, RunCreated DEF QueueBehind, MessagesInv, RunStatus
<1>5. QueueOK'
  <2>1. queue' \in Seq(Msg) /\ ToSet(queue') = ToSet(queue) \cup {m}
    BY <1>1, Appended DEF QueueBehind, MessagesInv, QueueOK
  <2>2. held' \subseteq ToSet(queue')
    BY <2>1 DEF QueueBehind, Held, MessagesInv, QueueOK
  <2> QED
    BY <1>1, <1>4, <2>1, <2>2 DEF MessagesInv, QueueOK, SetsSt
<1>6. RecordsOK'
  BY <1>1 DEF QueueBehind, MessagesInv, RecordsOK, histVars, agentVars
<1> QED
  BY <1>2, <1>3, <1>5, <1>6 DEF MessagesInv

-----------------------------------------------------------------------------
LEMMA TargetEffect ==
    ASSUME MessagesInv, cmd # NoCommand, Targets # {},
           NEW t \in {"start", "restart", "steer", "interrupt", "capture"},
           NEW m \in Msg \cup {NoMsg}, NEW e, e = Effect(t, Target, cmd.copy[Target].cur, m)
    PROVE  e \in LaneEffect /\ e.type = t /\ e.msg = m /\ e.att \in Attempt /\ e.run = Target
<1>1. /\ Target \in Msg /\ cmd.copy[Target].cur \in Attempt
      /\ cmd.copy[Target].cur \in 0 .. MaxAttempts
  BY TargetKnown, AttemptZero
<1> QED
  BY <1>1 DEF Effect, LaneEffect

(* Commands that write no run. *)

LEMMA SteerActiveKeeps == ASSUME MessagesInv, SteerActive PROVE MessagesInv'
<1>m. PICK m : m = cmd.msg
  OBVIOUS
<1>e. PICK e : e = SteerEffect(m)
  OBVIOUS
<1> USE DEF MessagesInv
<1>0. Sending /\ cmd # NoCommand /\ Targets # {} /\ cmd.kind \in Sends
  BY CommandTaken DEF SteerActive, Sending, Sends, Steerable
<1>1. /\ m \in Msg /\ m \notin sent /\ St(m) \in {"none", "cancelled"} /\ ~Begun(m)
      /\ m \notin confirmed
      /\ \A r \in Msg, a \in Attempt : Text(r, a) = m => r = m
  BY <1>m, <1>0, MessageIsNew
<1>2. /\ e \in LaneEffect /\ e.type = "steer" /\ e.msg = m /\ e.att \in Attempt
  BY <1>e, <1>0, <1>1, TargetEffect DEF SteerEffect
<1>3. run' = run /\ lane' = Append(lane, e) /\ exec' = exec
  BY <1>m, <1>e DEF SteerActive, runVars
<1>4. /\ lane' \in Seq(LaneEffect) /\ OneSteer' /\ Effects' = Effects \cup {e}
      /\ lane # << >> => lane' # << >> /\ Head(lane') = Head(lane)
  <2>1. \A f \in Effects : f.type = "steer" => f.msg # m
    BY <1>1 DEF MessageInv, SteerIsNew, NewToAgent
  <2> QED
    BY <1>2, <1>3, <2>1, LaneAppended DEF LaneOK, OneSteer, MessageInv, Effects
<1>5. SameSt /\ SameCur /\ SameText /\ SameTurn /\ Rows'
  BY <1>3, RowsKept DEF Rows
<1>6. \A q \in Msg : Begun(q)' <=> Begun(q)
  BY <1>5 DEF Begun, SameTurn
<1>7. RowInv'
  BY <1>5, RowsStill DEF SteerActive, runVars
<1>8. MessageInv'
  <2>1. sent \subseteq sent' /\ delivered' = delivered /\ confirmed' = confirmed /\ m \in sent'
    BY <1>m DEF SteerActive, histVars, agentVars
  <2>2. NewToAgent(m)'
    BY <1>1, <1>5, <1>6, <2>1 DEF NewToAgent, SameSt, SameText
  <2>3. \A f \in Effects' : f.type = "steer" =>
            (f \in Effects /\ f.msg \in Msg) \/ NewToAgent(f.msg)'
    BY <1>2, <1>4, <2>2 DEF LaneInv, EffectsTyped, EffectTyped
  <2>4. \A q \in Msg : Unsent(q)' => Unsent(q)
    BY <1>3 DEF Unsent, St, Cur, Turn
  <2> QED
    BY <1>4, <1>5, <1>6, <2>1, <2>3, <2>4, MessagesKept DEF SameSt, SameCur
<1>9. LaneOK'
  BY <1>3, <1>4 DEF LaneOK
<1>10. LaneInv'
  <2>1. \A f \in Effects' : f \in Effects \/ EffectTyped(f)'
    BY <1>1, <1>2, <1>4 DEF EffectTyped
  <2>2. \A r \in Msg, a \in Attempt, s \in {"starting", "running"} :
            Holds(r, a, s) => Holds(r, a, s)'
    BY <1>5 DEF Holds, SameSt, SameCur, SameTurn
  <2>3. \A r \in Msg, a \in Attempt : Turn(r, a) = "completed" => Turn(r, a)' = "completed"
    BY <1>5 DEF SameTurn
  <2> QED
    BY <1>3, <1>4, <1>6, <1>9, <2>1, <2>2, <2>3, LaneKept
<1>11. LockInv' /\ KindOK'
  BY LockFreed DEF SteerActive
<1>12. QueueOK'
  BY <1>3, StatusesStill DEF SteerActive, queueVars, QueueOK
<1>13. RecordsOK'
  BY <1>m, <1>1 DEF SteerActive, RecordsOK, histVars, agentVars, runVars, queueVars
<1> QED
  BY <1>5, <1>7, <1>8, <1>9, <1>10, <1>11, <1>12, <1>13

(* Refusals, a new order, a stop that only marks. *)
LEMMA IdleCommandKeeps ==
    ASSUME MessagesInv, RefuseRestart \/ MoveToFront \/ RefusePick \/ StopTurn \/ StopIdle
    PROVE  MessagesInv'
<1> USE DEF MessagesInv
<1>0. cmd # NoCommand /\ (cmd.kind = "restart" => Sending /\ cmd.kind \in Sends)
  BY CommandTaken DEF RefuseRestart, MoveToFront, RefusePick, Refuse, StopTurn, StopIdle, Sends,
     Sending
<1>1. /\ run' = run /\ ended' = ended /\ exec' = exec /\ cmd' = NoCommand
      /\ delivered' = delivered /\ confirmed' = confirmed /\ dropped' = dropped
      /\ asked' = asked /\ ends' = ends /\ captured' = captured
      /\ last' = last /\ late' = late /\ acts' = acts
  BY DEF RefuseRestart, MoveToFront, RefusePick, Refuse, StopTurn, StopIdle, runVars, histVars,
     agentVars, effectVars, queueVars
<1>2. cmd.kind = "restart" => cmd.msg \in Msg
  BY <1>0, MessageIsNew
<1>3. /\ sent \subseteq sent' /\ sent' \subseteq Msg /\ forgone' \subseteq Msg
  BY <1>2 DEF RefuseRestart, MoveToFront, RefusePick, Refuse, StopTurn, StopIdle, histVars,
     agentVars, RecordsOK
<1>4. stopped' \subseteq Msg
  BY <1>0, TargetKnown DEF RefuseRestart, MoveToFront, RefusePick, Refuse, StopTurn, StopIdle,
     RecordsOK
<1>5. RecordsOK'
  BY <1>1, <1>3, <1>4 DEF RecordsOK
<1>6. QueueOK'
  <2>1. CASE MoveToFront
    <3> DEFINE m == cmd.msg
               q == Among(queue, Msg \ {m})
    <3>1. m \in Msg /\ m \in ToSet(queue) /\ ToSet(queue) \subseteq Msg
      BY <2>1 DEF MoveToFront, LockInv, CommandInv, Picks, QueueOK, ToSet
    <3>2. q \in Seq(Msg) /\ ToSet(q) = ToSet(queue) \cap (Msg \ {m})
      BY Filtered DEF QueueOK
    <3>3. queue' = << m >> \o q /\ held' = held
      BY <2>1 DEF MoveToFront
    <3> HIDE DEF q, m
    <3>4. << m >> \o q \in Seq(Msg) /\ ToSet(<< m >> \o q) = ToSet(q) \cup {m}
      BY <3>1, <3>2, Prepended
    <3>5. queue' \in Seq(Msg) /\ ToSet(queue') = ToSet(queue)
      BY <3>1, <3>2, <3>3, <3>4
    <3> QED
      BY <1>1, <3>3, <3>5 DEF QueueOK, St
  <2>2. CASE RefuseRestart \/ RefusePick \/ StopTurn \/ StopIdle
    <3>1. queue' = queue /\ (held' = held \/ held' = ToSet(queue))
      BY <2>2 DEF RefuseRestart, RefusePick, Refuse, StopTurn, StopIdle, queueVars
    <3> QED
      BY <1>1, <3>1, StatusesStill DEF QueueOK
  <2> QED
    BY <2>1, <2>2
<1>7. /\ LaneOK' /\ OneSteer'
      /\ \A e \in Effects' : e \in Effects \/ (e.type \notin {"steer", "capture"} /\ EffectTyped(e))
      /\ lane # << >> => lane' # << >> /\ Head(lane') = Head(lane)
  <2>1. CASE StopTurn
    <3>e. PICK e : e = Effect("interrupt", Target, cmd.copy[Target].cur, NoMsg)
      OBVIOUS
    <3>1. e \in LaneEffect /\ e.type = "interrupt" /\ e.att \in Attempt
      BY <3>e, <1>0, <2>1, TargetEffect DEF StopTurn
    <3>2. lane' = Append(lane, e)
      BY <3>e, <2>1 DEF StopTurn
    <3>3. /\ lane' \in Seq(LaneEffect) /\ Effects' = Effects \cup {e} /\ OneSteer'
          /\ lane # << >> => lane' # << >> /\ Head(lane') = Head(lane)
      BY <3>1, <3>2, LaneAppended DEF LaneOK, MessageInv, OneSteer, Effects
    <3> QED
      BY <1>1, <3>1, <3>3 DEF LaneOK, EffectTyped
  <2>2. CASE RefuseRestart \/ RefusePick \/ MoveToFront \/ StopIdle
    <3>1. lane' = lane
      BY <2>2 DEF RefuseRestart, RefusePick, Refuse, MoveToFront, StopIdle, effectVars
    <3> QED
      BY <1>1, <3>1 DEF LaneOK, MessageInv, OneSteer, Effects
  <2> QED
    BY <2>1, <2>2
<1>8. Rows' /\ RowInv' /\ MessageInv' /\ LaneInv'
  BY <1>1, <1>3, <1>7, Unmoved
<1> QED
  BY <1>1, <1>5, <1>6, <1>7, <1>8, LockFreed

-----------------------------------------------------------------------------
(* Commands about a queued message. *)

LEMMA PickedIsQueued ==
    ASSUME MessagesInv, NEW m \in ToSet(queue)
    PROVE  /\ m \in Msg /\ St(m) = "queued" /\ m \in sent /\ m \notin confirmed /\ ~Begun(m)
           /\ Cur(m) = 1 /\ Text(m, 1) = m
           /\ \A r \in Msg, a \in Attempt : Text(r, a) = m => r = m
<1>1. m \in Msg
  BY DEF MessagesInv, QueueOK, ToSet
<1>2. /\ St(m) = "queued" /\ m \in sent /\ m \notin confirmed /\ ~Begun(m)
      /\ Cur(m) = 1 /\ Text(m, 1) = m
  BY <1>1 DEF MessagesInv, QueueOK, MessageInv, QueuedIsNew
<1>3. 1 \in Attempt /\ m # NoMsg
  BY <1>1, BoundsAssumption, MessagesAssumption DEF Attempt
<1>4. \A r \in Msg, a \in Attempt : Text(r, a) = m => r = m
  BY <1>1, <1>2, <1>3 DEF MessagesInv, MessageInv, OneText
<1> QED
  BY <1>1, <1>2, <1>4

(* The message leaves the queue, and its run gets another status. *)
LEMMA Dequeued ==
    ASSUME MessagesInv, NEW m \in ToSet(queue), NEW s \in {"starting", "cancelled"},
           run' = [run EXCEPT ![m].st = s], ended' = ended,
           queue' = Among(queue, Msg \ {m}), NEW h, h \subseteq ToSet(queue), held' = h \ {m}
    PROVE  /\ Rows' /\ QueueOK' /\ RowInv'
           /\ SetsSt(m, s) /\ SameCur /\ SameText /\ SameTurn
           /\ \A q \in Msg : Begun(q)' <=> Begun(q)
           /\ \A r \in Msg, a \in Attempt, x \in {"starting", "running"} :
                Holds(r, a, x) => Holds(r, a, x)'
           /\ \A q \in Msg : Unsent(q)' => q = m \/ Unsent(q)
<1> USE DEF MessagesInv
<1>1. m \in Msg /\ St(m) = "queued" /\ ~Begun(m) /\ Cur(m) = 1 /\ Text(m, 1) = m
  BY PickedIsQueued
<1>2. Rows' /\ SetsSt(m, s) /\ SameCur /\ SameText /\ SameTurn
  BY <1>1, StWritten DEF RunStatus, Live, Terminal
<1>3. QueueOK'
  <2>1. queue' \in Seq(Msg) /\ ToSet(queue') = ToSet(queue) \cap (Msg \ {m})
    BY Filtered DEF QueueOK
  <2>2. ToSet(queue) \subseteq Msg
    BY DEF QueueOK, ToSet
  <2> QED
    BY <1>1, <1>2, <2>1, <2>2 DEF QueueOK, SetsSt
<1>4. RowInv'
  <2>0. 1 \in Attempt
    BY BoundsAssumption DEF Attempt
  <2>1. ActiveRowOK'
    BY <1>1, <1>2, <2>0 DEF RowInv, ActiveRowOK, SetsSt, SameCur, SameText, SameTurn, Begun
  <2>2. StartingIsUnsent'
    <3>1. \A q \in Msg : St(q) = "starting" => Cur(q) \in Attempt
      BY DEF RowInv, ActiveRowOK, Live
    <3> QED
      BY <1>1, <1>2, <2>0, <3>1 DEF RowInv, StartingIsUnsent, SetsSt, SameCur, SameTurn, Begun
  <2>3. SettledInv' /\ EndedIsOver'
    BY <1>1, <1>2 DEF RowInv, SettledInv, EndedIsOver, SetsSt, SameCur, SameTurn
  <2> QED
    BY <2>1, <2>2, <2>3 DEF RowInv
<1>5. \A q \in Msg : Begun(q)' <=> Begun(q)
  BY <1>2 DEF Begun, SameTurn
<1>6. \A r \in Msg, a \in Attempt, x \in {"starting", "running"} :
            Holds(r, a, x) => Holds(r, a, x)'
  BY <1>1, <1>2 DEF Holds, SetsSt, SameCur, SameTurn
<1>7. \A q \in Msg : Unsent(q)' => q = m \/ Unsent(q)
  <2> SUFFICES ASSUME NEW q \in Msg, q # m, Unsent(q)' PROVE Unsent(q)
    OBVIOUS
  <2>1. St(q)' = St(q) /\ Cur(q)' = Cur(q) /\ \A a \in Attempt : Turn(q, a)' = Turn(q, a)
    BY <1>2 DEF SetsSt, SameCur, SameTurn
  <2>2. St(q) = "running" => Cur(q) \in Attempt
    BY DEF RowInv, ActiveRowOK, Live
  <2> QED
    BY <2>1, <2>2 DEF Unsent
<1> QED
  BY <1>2, <1>3, <1>4, <1>5, <1>6, <1>7

LEMMA CancelKeeps == ASSUME MessagesInv, CancelQueued PROVE MessagesInv'
<1>m. PICK m : m = cmd.msg
  OBVIOUS
<1> USE DEF MessagesInv
<1>1. m \in ToSet(queue)
  BY <1>m DEF CancelQueued, LockInv, CommandInv, Picks
<1>2. m \in Msg /\ St(m) = "queued" /\ Cur(m) = 1
  BY <1>1, PickedIsQueued
<1>3. /\ Rows' /\ QueueOK' /\ RowInv'
      /\ SetsSt(m, "cancelled") /\ SameCur /\ SameText /\ SameTurn
      /\ \A q \in Msg : Begun(q)' <=> Begun(q)
      /\ \A r \in Msg, a \in Attempt, x \in {"starting", "running"} :
            Holds(r, a, x) => Holds(r, a, x)'
      /\ \A q \in Msg : Unsent(q)' => q = m \/ Unsent(q)
  BY <1>m, <1>1, Dequeued DEF CancelQueued, QueueOK
<1>4. /\ lane' = lane /\ exec' = exec /\ cmd' = NoCommand /\ sent' = sent
      /\ delivered' = delivered /\ confirmed' = confirmed
  BY DEF CancelQueued, effectVars, agentVars
<1>5. LaneOK' /\ OneSteer' /\ Effects' = Effects
  BY <1>4 DEF LaneOK, MessageInv, OneSteer, Effects
<1>6. MessageInv'
  <2>1. ~Unsent(m)'
    BY <1>2, <1>3 DEF Unsent, SetsSt
  <2>2. \A e \in Effects' : e.type = "steer" => e \in Effects /\ e.msg \in Msg
    BY <1>5 DEF LaneInv, EffectsTyped, EffectTyped
  <2>3. \A q \in Msg : /\ St(q) \in {"none", "cancelled"} => St(q)' = St(q)
                       /\ St(q)' = "queued" => St(q) = "queued" /\ Cur(q)' = Cur(q)
                       /\ Cur(q)' = Cur(q)
    BY <1>2, <1>3 DEF SetsSt, SameCur
  <2> QED
    BY <1>3, <1>4, <1>5, <2>1, <2>2, <2>3, MessagesKept
<1>7. LaneInv'
  BY <1>3, <1>4, <1>5, LaneKept DEF SameTurn
<1>8. RecordsOK'
  <2>1. ends' \in Seq([run : Msg, st : Terminal])
    BY <1>m, <1>2 DEF CancelQueued, Ended, RecordsOK, Terminal
  <2> QED
    BY <1>m, <1>2, <2>1 DEF CancelQueued, RecordsOK, effectVars, agentVars
<1> QED
  BY <1>3, <1>4, <1>5, <1>6, <1>7, <1>8, LockFreed

LEMMA PromoteKeeps == ASSUME MessagesInv, Promote PROVE MessagesInv'
<1>m. PICK m : m = cmd.msg
  OBVIOUS
<1>e. PICK e : e = SteerEffect(m)
  OBVIOUS
<1> USE DEF MessagesInv
<1>0. cmd # NoCommand /\ Targets # {}
  BY CommandTaken DEF Promote, Steerable
<1>1. m \in ToSet(queue)
  BY <1>m DEF Promote, LockInv, CommandInv, Picks
<1>2. /\ m \in Msg /\ St(m) = "queued" /\ m \in sent /\ m \notin confirmed /\ ~Begun(m)
      /\ \A r \in Msg, a \in Attempt : Text(r, a) = m => r = m
  BY <1>1, PickedIsQueued
<1>3. /\ Rows' /\ QueueOK' /\ RowInv'
      /\ SetsSt(m, "cancelled") /\ SameCur /\ SameText /\ SameTurn
      /\ \A q \in Msg : Begun(q)' <=> Begun(q)
      /\ \A r \in Msg, a \in Attempt, x \in {"starting", "running"} :
            Holds(r, a, x) => Holds(r, a, x)'
      /\ \A q \in Msg : Unsent(q)' => q = m \/ Unsent(q)
  BY <1>m, <1>1, Dequeued DEF Promote, QueueOK
<1>4. /\ lane' = Append(lane, e) /\ exec' = exec /\ cmd' = NoCommand /\ sent' = sent
      /\ delivered' = delivered /\ confirmed' = confirmed
  BY <1>m, <1>e DEF Promote, histVars, agentVars
<1>5. /\ e \in LaneEffect /\ e.type = "steer" /\ e.msg = m /\ e.att \in Attempt
  BY <1>e, <1>0, <1>2, TargetEffect DEF SteerEffect
<1>6. /\ lane' \in Seq(LaneEffect) /\ OneSteer' /\ Effects' = Effects \cup {e}
      /\ lane # << >> => lane' # << >> /\ Head(lane') = Head(lane)
  <2>1. \A f \in Effects : f.type = "steer" => f.msg # m
    BY <1>2 DEF MessageInv, SteerIsNew, NewToAgent
  <2> QED
    BY <1>4, <1>5, <2>1, LaneAppended DEF LaneOK, OneSteer, MessageInv, Effects
<1>7. LaneOK'
  BY <1>4, <1>6 DEF LaneOK
<1>8. MessageInv'
  <2>1. ~Unsent(m)'
    BY <1>2, <1>3 DEF Unsent, SetsSt
  <2>2. NewToAgent(m)'
    BY <1>2, <1>3, <1>4 DEF NewToAgent, SetsSt, SameText
  <2>3. \A f \in Effects' : f.type = "steer" =>
            (f \in Effects /\ f.msg \in Msg) \/ NewToAgent(f.msg)'
    BY <1>5, <1>6, <2>2 DEF LaneInv, EffectsTyped, EffectTyped
  <2>4. \A q \in Msg : /\ St(q) \in {"none", "cancelled"} => St(q)' = St(q)
                       /\ St(q)' = "queued" => St(q) = "queued" /\ Cur(q)' = Cur(q)
                       /\ Cur(q)' = Cur(q)
    BY <1>2, <1>3 DEF SetsSt, SameCur
  <2> QED
    BY <1>3, <1>4, <1>6, <2>1, <2>3, <2>4, MessagesKept
<1>9. LaneInv'
  <2>1. \A f \in Effects' : f \in Effects \/ EffectTyped(f)'
    BY <1>2, <1>5, <1>6 DEF EffectTyped
  <2> QED
    BY <1>3, <1>4, <1>6, <1>7, <2>1, LaneKept DEF SameTurn
<1>10. RecordsOK'
  <2>1. ends' \in Seq([run : Msg, st : Terminal])
    BY <1>m, <1>2 DEF Promote, Ended, RecordsOK, Terminal
  <2> QED
    BY <1>2, <2>1 DEF Promote, RecordsOK, histVars, agentVars
<1> QED
  BY <1>3, <1>4, <1>7, <1>8, <1>9, <1>10, LockFreed

-----------------------------------------------------------------------------
(* The next run of the queue. *)

LEMMA NextIsQueued ==
    ASSUME MessagesInv, NEW h, NEW p, p # NoMsg => p \in ToSet(queue),
           ~(ToSet(queue) \subseteq h)
    PROVE  NextInLine(queue, h, p) \in ToSet(queue)
<1> DEFINE s == Among(queue, Msg \ h)
<1>1. queue \in Seq(Msg) /\ ToSet(queue) \subseteq Msg
  BY DEF MessagesInv, QueueOK, ToSet
<1>2. s \in Seq(Msg) /\ ToSet(s) = ToSet(queue) \cap (Msg \ h)
  BY <1>1, Filtered
<1> HIDE DEF s
<1>3. ToSet(s) # {}
  BY <1>1, <1>2
<1>4. s # << >>
  BY <1>3 DEF ToSet
<1>5. Head(s) \in ToSet(queue)
  BY <1>2, <1>4, Tailed
<1> QED
  BY <1>5 DEF NextInLine, s

LEMMA StartNextKeeps ==
    ASSUME MessagesInv, NEW h, h \subseteq ToSet(queue), NEW f, NEW p,
           p # NoMsg => p \in ToSet(queue), StartNext(queue, h, f, p),
           exec' = exec, ended' = ended, sent' = sent, confirmed' = confirmed
    PROVE  /\ Rows' /\ QueueOK' /\ LaneOK' /\ RowInv' /\ MessageInv' /\ LaneInv'
           /\ last' \in Msg \cup {NoMsg}
<1> USE DEF MessagesInv
<1>1. CASE UNCHANGED <<run, lane, last>> /\ queue' = queue /\ (held' = h \/ held' = ToSet(queue))
  <2>1. LaneOK' /\ OneSteer' /\ Effects' = Effects /\ lane' = lane
    BY <1>1 DEF LaneOK, MessageInv, OneSteer, Effects
  <2>2. Rows' /\ RowInv' /\ MessageInv' /\ LaneInv'
    BY <1>1, <2>1, Unmoved
  <2>3. QueueOK'
    BY <1>1, StatusesStill
  <2> QED
    BY <1>1, <2>1, <2>2, <2>3 DEF RecordsOK
<1>2. ASSUME NEW m \in ToSet(queue), queue' = Among(queue, Msg \ {m}), held' = h \ {m},
             run' = [run EXCEPT ![m].st = "starting"],
             lane' = Append(lane, Effect("start", m, 0, NoMsg)), last' = m
      PROVE  /\ Rows' /\ QueueOK' /\ LaneOK' /\ RowInv' /\ MessageInv' /\ LaneInv'
             /\ last' \in Msg \cup {NoMsg}
  <2>1. /\ m \in Msg /\ St(m) = "queued" /\ m \notin confirmed /\ Cur(m) = 1 /\ Text(m, 1) = m
    BY PickedIsQueued
  <2>2. /\ Rows' /\ QueueOK' /\ RowInv'
        /\ SetsSt(m, "starting") /\ SameCur /\ SameText /\ SameTurn
        /\ \A q \in Msg : Begun(q)' <=> Begun(q)
        /\ \A r \in Msg, a \in Attempt, x \in {"starting", "running"} :
                Holds(r, a, x) => Holds(r, a, x)'
        /\ \A q \in Msg : Unsent(q)' => q = m \/ Unsent(q)
    BY <1>2, Dequeued
  <2>3. PICK e : e = Effect("start", m, 0, NoMsg)
    OBVIOUS
  <2>4. e \in LaneEffect /\ e.type = "start"
    BY <2>1, <2>3, AttemptZero DEF Effect, LaneEffect
  <2>5. /\ lane' \in Seq(LaneEffect) /\ OneSteer' /\ Effects' = Effects \cup {e}
        /\ lane # << >> => lane' # << >> /\ Head(lane') = Head(lane)
    BY <1>2, <2>3, <2>4, LaneAppended DEF LaneOK, OneSteer, MessageInv, Effects
  <2>6. LaneOK'
    BY <2>5 DEF LaneOK
  <2>7. MessageInv'
    <3>1. 1 \in Attempt
      BY BoundsAssumption DEF Attempt
    <3>2. Text(m, Cur(m))' \notin confirmed
      BY <2>1, <2>2, <3>1 DEF SameText, SameCur
    <3>3. \A q \in Msg : /\ St(q) \in {"none", "cancelled"} => St(q)' = St(q)
                         /\ St(q)' = "queued" => St(q) = "queued" /\ Cur(q)' = Cur(q)
                         /\ Cur(q)' = Cur(q)
      BY <2>1, <2>2 DEF SetsSt, SameCur
    <3>4. \A d \in Effects' : d.type = "steer" => d \in Effects /\ d.msg \in Msg
      BY <2>4, <2>5 DEF LaneInv, EffectsTyped, EffectTyped
    <3>5. \A q \in Msg : Unsent(q)' => (Unsent(q) /\ Cur(q)' = Cur(q))
                                       \/ Text(q, Cur(q))' \notin confirmed
      BY <2>2, <3>2, <3>3
    <3> QED
      BY <2>2, <2>5, <3>3, <3>4, <3>5, MessagesKept
  <2>8. LaneInv'
    <3>1. \A d \in Effects' : d \in Effects \/ EffectTyped(d)'
      BY <2>4, <2>5 DEF EffectTyped
    <3> QED
      BY <2>2, <2>5, <2>6, <3>1, LaneKept DEF SameTurn
  <2> QED
    BY <1>2, <2>1, <2>2, <2>6, <2>7, <2>8
<1>3. CASE ~(ToSet(queue) \subseteq h)
  <2>1. NextInLine(queue, h, p) \in ToSet(queue)
    BY <1>3, NextIsQueued
  <2> QED
    BY <1>1, <1>2, <2>1 DEF StartNext
<1> QED
  BY <1>1, <1>3 DEF StartNext

LEMMA ResumeKeeps == ASSUME MessagesInv, ResumeQueue PROVE MessagesInv'
<1> USE DEF MessagesInv
<1>1. PICK p : StartNext(queue, {}, NoMsg, p) /\ (p # NoMsg => p = cmd.msg /\ cmd.kind = "start")
  BY DEF ResumeQueue
<1>2. p # NoMsg => p \in ToSet(queue)
  BY <1>1 DEF LockInv, CommandInv, Picks
<1>3. /\ exec' = exec /\ ended' = ended /\ sent' = sent /\ delivered' = delivered
      /\ confirmed' = confirmed
      /\ cmd' = NoCommand
  BY DEF ResumeQueue, histVars, agentVars
<1>4. /\ Rows' /\ QueueOK' /\ LaneOK' /\ RowInv' /\ MessageInv' /\ LaneInv'
      /\ last' \in Msg \cup {NoMsg}
  BY <1>1, <1>2, <1>3, StartNextKeeps
<1>5. RecordsOK'
  BY <1>4 DEF ResumeQueue, RecordsOK, histVars, agentVars
<1> QED
  BY <1>3, <1>4, <1>5, LockFreed

LEMMA ReactKeeps == ASSUME MessagesInv, React PROVE MessagesInv'
<1> USE DEF MessagesInv
<1>1. PICK h, f : StartNext(queue, h, f, NoMsg) /\ h \subseteq held
  BY DEF React
<1>2. h \subseteq ToSet(queue)
  BY <1>1 DEF QueueOK
<1>3. /\ exec' = exec /\ ended' = ended /\ sent' = sent /\ delivered' = delivered
      /\ confirmed' = confirmed
      /\ cmd' = NoCommand
  BY DEF React, histVars, agentVars
<1>4. /\ Rows' /\ QueueOK' /\ LaneOK' /\ RowInv' /\ MessageInv' /\ LaneInv'
      /\ last' \in Msg \cup {NoMsg}
  BY <1>1, <1>2, <1>3, StartNextKeeps
<1>5. RecordsOK'
  BY <1>4 DEF React, RecordsOK, histVars, agentVars
<1> QED
  BY <1>3, <1>4, <1>5, LockFreed

-----------------------------------------------------------------------------
(* A restart. *)
LEMMA RestartActiveKeeps == ASSUME MessagesInv, RestartActive PROVE MessagesInv'
<1> USE DEF MessagesInv
<1>m. PICK m : m = cmd.msg
  OBVIOUS
<1>r. PICK r : r = Target
  OBVIOUS
<1>c. PICK c : c = cmd.copy[r].cur
  OBVIOUS
<1>0. /\ Sending /\ cmd # NoCommand /\ Targets # {} /\ Steerable
      /\ cmd.kind \in Sends /\ cmd.kind = "restart"
  BY CommandTaken DEF RestartActive, Sending, Sends, Steerable
<1>1. /\ m \in Msg /\ m \notin sent /\ m \notin confirmed /\ m # NoMsg
      /\ \A q \in Msg, b \in Attempt : Text(q, b) # m
  <2>1. m \in Msg /\ m \notin sent /\ m \notin confirmed
    BY <1>m, <1>0, MessageIsNew
  <2> QED
    BY <2>1, MessagesAssumption DEF MessageInv, TextIsSent
<1>2. /\ r \in Msg /\ r \in sent /\ St(r) \in Live \cup Over
      /\ c \in Attempt /\ Turn(r, c) # "none"
      /\ \A b \in Attempt : b > c => Turn(r, b) = "none"
      /\ St(r) \in Live => Cur(r) = c
  BY <1>r, <1>c, <1>0, TargetKnown
<1>3. c < MaxAttempts
  <2>1. r \in Targets
    BY <1>r, <1>0 DEF Target
  <2> QED
    BY <1>c, <1>0, <2>1 DEF LockInv, CommandInv
<1>4. /\ c \in Nat /\ c + 1 \in Attempt /\ c + 1 > c /\ (c + 1) - 1 = c
      /\ \A b \in Attempt : b \in Nat
  BY <1>2, <1>3, BoundsAssumption DEF Attempt
<1>a. PICK a : a = c + 1
  OBVIOUS
<1>5. /\ Rows' /\ SetsSt(r, "starting") /\ SetsCur(r, a) /\ SetsText(r, a, m) /\ SameTurn
  <2>1. run' = [run EXCEPT ![r].st = "starting", ![r].cur = a, ![r].text[a] = m]
    BY <1>m, <1>r, <1>c, <1>a DEF RestartActive
  <2> QED
    BY <1>a, <1>1, <1>2, <1>4, <2>1, RestartWritten DEF RunStatus, Live
<1>6. /\ exec' = exec /\ cmd' = NoCommand /\ sent' = sent \cup {m} /\ delivered' = delivered
      /\ confirmed' = confirmed
      /\ ended' = ended /\ queue' = queue /\ held' = held
  BY <1>m DEF RestartActive, queueVars, agentVars
<1>7. RowInv'
  <2>1. ActiveRowOK'
    <3>1. \A b \in Attempt : b > a => Turn(r, b) = "none"
      BY <1>2, <1>4, <1>a
    <3>2. a \in Attempt /\ Cur(r)' = a /\ Text(r, a)' = m
      BY <1>a, <1>2, <1>4, <1>5 DEF SetsCur, SetsText
    <3>3. /\ Cur(r)' \in Attempt /\ Text(r, Cur(r))' \in Msg
          /\ \A b \in Attempt : b > Cur(r)' => Turn(r, b)' = "none"
      BY <1>1, <1>2, <1>5, <3>1, <3>2 DEF SameTurn
    <3>4. ASSUME NEW q \in Msg, q # r, St(q)' \in Live
          PROVE  /\ Cur(q)' \in Attempt /\ Text(q, Cur(q))' \in Msg
                 /\ \A b \in Attempt : b > Cur(q)' => Turn(q, b)' = "none"
      <4>1. St(q)' = St(q) /\ Cur(q)' = Cur(q)
            /\ \A b \in Attempt : Text(q, b)' = Text(q, b) /\ Turn(q, b)' = Turn(q, b)
        BY <1>5, <3>4 DEF SetsSt, SetsCur, SetsText, SameTurn
      <4> QED
        BY <3>4, <4>1 DEF RowInv, ActiveRowOK
    <3> QED
      BY <3>3, <3>4 DEF ActiveRowOK
  <2>2. StartingIsUnsent'
    <3>1. \A q \in Msg : St(q) = "starting" => Cur(q) \in Attempt
      BY DEF RowInv, ActiveRowOK, Live
    <3> QED
      BY <1>a, <1>2, <1>4, <1>5, <3>1 DEF RowInv, StartingIsUnsent, SetsSt, SetsCur, SameTurn
  <2>3. SettledInv' /\ EndedIsOver'
    BY <1>5, <1>6 DEF RowInv, SettledInv, EndedIsOver, SetsSt, SetsCur, SameTurn
  <2> QED
    BY <2>1, <2>2, <2>3 DEF RowInv
<1>8. \A q \in Msg : Begun(q)' <=> Begun(q)
  BY <1>5 DEF Begun, SameTurn
<1>e. PICK e : e = Effect("restart", r, c, NoMsg)
  OBVIOUS
<1>9. /\ e \in LaneEffect /\ e.type = "restart" /\ e.att \in Attempt
  BY <1>e, <1>2, AttemptZero DEF Effect, LaneEffect
<1>10. /\ lane' \in Seq(LaneEffect) /\ OneSteer' /\ Effects' = Effects \cup {e}
       /\ lane # << >> => lane' # << >> /\ Head(lane') = Head(lane)
  <2>1. lane' = Append(lane, e)
    BY <1>r, <1>c, <1>e, <1>4 DEF RestartActive
  <2> QED
    BY <1>9, <2>1, LaneAppended DEF LaneOK, OneSteer, MessageInv, Effects
<1>11. LaneOK'
  BY <1>6, <1>10 DEF LaneOK
<1>12. MessageInv'
  <2> USE DEF MessageInv
  <2>1. UnsentIsNew'
    BY <1>2, <1>5, <1>6, <1>8 DEF UnsentIsNew, SetsSt
  <2>2. QueuedIsNew'
    <3>1. 1 \in Attempt
      BY BoundsAssumption DEF Attempt
    <3> QED
      BY <1>5, <1>6, <1>8, <3>1 DEF QueuedIsNew, SetsSt, SetsCur, SetsText
  <2>3. SteerIsNew'
    <3>1. \A d \in Effects' : d.type = "steer" => d \in Effects /\ d.msg \in Msg
      BY <1>9, <1>10 DEF LaneInv, EffectsTyped, EffectTyped
    <3>2. \A q \in Msg : NewToAgent(q) => NewToAgent(q)'
      BY <1>1, <1>2, <1>5, <1>6, <1>8 DEF NewToAgent, SetsSt, SetsText, Live, Over
    <3> QED
      BY <3>1, <3>2 DEF SteerIsNew
  <2>4. UnsentIsUnconfirmed'
    <3>1. \A q \in Msg : Unsent(q) => Cur(q) \in Attempt
      BY DEF Unsent, Live, RowInv, ActiveRowOK
    <3>2. \A q \in Msg : q # r /\ Unsent(q)' => Unsent(q) /\ Cur(q)' = Cur(q)
      BY <1>5, <1>7 DEF Unsent, SetsSt, SetsCur, SameTurn, RowInv, ActiveRowOK, Live
    <3>3. Text(r, Cur(r))' \notin confirmed'
      <4>1. a \in Attempt /\ Cur(r)' = a /\ Text(r, a)' = m
        BY <1>a, <1>2, <1>4, <1>5 DEF SetsCur, SetsText
      <4> QED
        BY <1>1, <1>6, <4>1
    <3>4. ASSUME NEW q \in Msg, q # r, Unsent(q)' PROVE Text(q, Cur(q))' \notin confirmed'
      <4>1. Unsent(q) /\ Cur(q)' = Cur(q) /\ Cur(q) \in Attempt
        BY <3>1, <3>2, <3>4
      <4>2. Text(q, Cur(q))' = Text(q, Cur(q))
        BY <1>5, <3>4, <4>1 DEF SetsText
      <4> QED
        BY <1>6, <4>1, <4>2 DEF UnsentIsUnconfirmed
    <3> QED
      BY <3>3, <3>4 DEF UnsentIsUnconfirmed
  <2>5. TextIsSent'
    BY <1>1, <1>5, <1>6 DEF TextIsSent, SetsText
  <2>6. OneText'
    BY <1>1, <1>5 DEF OneText, SetsText
  <2> QED
    BY <1>10, <2>1, <2>2, <2>3, <2>4, <2>5, <2>6
<1>13. LaneInv'
  <2>1. \A d \in Effects' : d \in Effects \/ EffectTyped(d)'
    BY <1>9, <1>10 DEF EffectTyped
  <2>2. \A q \in Msg, b \in Attempt, x \in {"starting", "running"} :
            Holds(q, b, x) => Holds(q, b, x)'
    BY <1>2, <1>5 DEF Holds, SetsSt, SetsCur, SameTurn, Live
  <2> QED
    BY <1>5, <1>6, <1>8, <1>10, <1>11, <2>1, <2>2, LaneKept DEF SameTurn
<1>14. QueueOK'
  BY <1>2, <1>5, <1>6, QueueKept DEF QueueOK, SetsSt, Live, Over
<1>15. RecordsOK'
  BY <1>m, <1>r, <1>1, <1>2 DEF RestartActive, RecordsOK, queueVars, agentVars
<1> QED
  BY <1>5, <1>6, <1>7, <1>11, <1>12, <1>13, <1>14, <1>15, LockFreed

(* A finite set of numbers has a largest one. *)
LEMMA MaxIsMember ==
    ASSUME NEW I, IsFiniteSet(I), I \subseteq Nat, I # {}
    PROVE  Max(I) \in I
<1> DEFINE n == Cardinality(I)
<1>1. n \in Nat /\ n # 0
  BY FS_CardinalityType, FS_EmptySet
<1>2. n \in 1 .. n
  BY <1>1
<1>3. PICK i \in I : Rank(i, I) = n
  BY <1>2, RankTaken
<1>4. \A j \in I : i >= j
  <2> SUFFICES ASSUME NEW j \in I, i < j PROVE FALSE
    OBVIOUS
  <2>1. Rank(i, I) < Rank(j, I) /\ Rank(j, I) \in 1 .. n
    BY RankRises, RankInRange
  <2> QED
    BY <1>1, <1>3, <2>1
<1> QED
  BY <1>4 DEF Max

-----------------------------------------------------------------------------
(* A stop before the turn. *)

LEMMA InterruptsAppended ==
    ASSUME MessagesInv, cmd # NoCommand, Targets # {}, NEW s \in Seq(LaneEffect)
    PROVE  \/ s \o InterruptsOf(Target) = s
           \/ \E a \in Attempt :
                s \o InterruptsOf(Target) = Append(s, Effect("interrupt", Target, a, NoMsg))
<1>1. s \o << >> = s /\ \A e : s \o << e >> = Append(s, e)
  OBVIOUS
<1>2. CASE SupersededTurns(Target) = {}
  <2>1. InterruptsOf(Target) = << >>
    BY <1>2 DEF InterruptsOf
  <2> QED
    BY <1>1, <2>1
<1>3. CASE SupersededTurns(Target) # {}
  <2> DEFINE I == SupersededTurns(Target)
             c == cmd.copy[Target].cur
  <2>1. c \in Attempt
    BY TargetKnown
  <2>2. I \subseteq 1 .. c - 1
    BY DEF SupersededTurns
  <2>3. c - 1 \in Int /\ 1 .. c - 1 \subseteq Nat /\ 1 .. c - 1 \subseteq Attempt
    BY <2>1, BoundsAssumption DEF Attempt
  <2> HIDE DEF I, c
  <2>4. IsFiniteSet(I) /\ I \subseteq Nat
    <3> DEFINE d == c - 1
    <3>1. d \in Int /\ I \subseteq 1 .. d /\ 1 .. d \subseteq Nat
      BY <2>2, <2>3
    <3> HIDE DEF d
    <3>2. IsFiniteSet(1 .. d)
      BY <3>1, FS_Interval
    <3> QED
      BY <3>1, <3>2, FS_Subset
  <2>5. I # {}
    BY <1>3 DEF I
  <2>6. Max(I) \in Attempt
    BY <2>2, <2>3, <2>4, <2>5, MaxIsMember
  <2>7. InterruptsOf(Target) = << Effect("interrupt", Target, Max(I), NoMsg) >>
    BY <1>3 DEF InterruptsOf, I
  <2> QED
    BY <1>1, <2>6, <2>7
<1> QED
  BY <1>2, <1>3

LEMMA StopBeforeTurnKeeps == ASSUME MessagesInv, StopBeforeTurn PROVE MessagesInv'
<1> USE DEF MessagesInv
<1>r. PICK r : r = Target
  OBVIOUS
<1>c. PICK c : c = cmd.copy[r].cur
  OBVIOUS
<1>0. cmd # NoCommand /\ Targets # {}
  BY CommandTaken DEF StopBeforeTurn
<1>1. /\ r \in Msg /\ St(r) \in Live \cup Over /\ c \in Attempt
      /\ cmd.copy[r].text[c] \in Msg
  BY <1>r, <1>c, <1>0, TargetKnown
<1>2. /\ Rows' /\ SetsSt(r, "interrupted") /\ SetsCur(r, c) /\ SameText /\ SameTurn
  BY <1>r, <1>c, <1>1, StCurWritten, AttemptZero DEF StopBeforeTurn, RunStatus, Terminal
<1>3. /\ cmd' = NoCommand /\ sent' = sent /\ delivered' = delivered /\ confirmed' = confirmed
      /\ ended' = ended /\ queue' = queue /\ held' = ToSet(queue)
  BY DEF StopBeforeTurn, agentVars
<1>4. \A q \in Msg : Begun(q)' <=> Begun(q)
  BY <1>2 DEF Begun, SameTurn
<1>5. RowInv'
  <2>1. ActiveRowOK'
    BY <1>2 DEF RowInv, ActiveRowOK, SetsSt, SetsCur, SameText, SameTurn, Live
  <2>2. StartingIsUnsent'
    <3>1. \A q \in Msg : St(q) = "starting" => Cur(q) \in Attempt
      BY DEF RowInv, ActiveRowOK, Live
    <3> QED
      BY <1>2, <3>1 DEF RowInv, StartingIsUnsent, SetsSt, SetsCur, SameTurn
  <2>3. SettledInv' /\ EndedIsOver'
    BY <1>2, <1>3 DEF RowInv, SettledInv, EndedIsOver, SetsSt, SetsCur, SameTurn
  <2> QED
    BY <2>1, <2>2, <2>3 DEF RowInv
<1>6. /\ lane' \in Seq(LaneEffect) /\ OneSteer'
      /\ \A e \in Effects' : e \in Effects \/
            (e \in LaneEffect /\ e.type = "interrupt" /\ e.att \in Attempt)
      /\ lane # << >> /\ Head(lane).type \notin Startup => lane' # << >> /\ Head(lane') = Head(lane)
  <2> DEFINE R == {e \in Effects : e.type \notin Startup}
             s == Among(lane, R)
  <2>1. /\ s \in Seq(LaneEffect) /\ ToSet(s) \subseteq Effects
        /\ OneSteerIn(s)
        /\ lane # << >> /\ Head(lane) \in R => s # << >> /\ Head(s) = Head(lane)
    <3> HIDE DEF R
    <3> QED
      BY Filtered DEF LaneOK, MessageInv, OneSteer, OneSteerIn, Effects
  <2>2. lane' = s \o InterruptsOf(r)
    BY <1>r DEF StopBeforeTurn, Effects
  <2>3. lane # << >> /\ Head(lane).type \notin Startup => Head(lane) \in R
    BY CurrentEffect DEF Current
  <2> HIDE DEF s, R
  <2>4. CASE lane' = s
    BY <2>1, <2>3, <2>4 DEF OneSteer, Effects
  <2>5. ASSUME NEW a \in Attempt, lane' = Append(s, Effect("interrupt", r, a, NoMsg))
        PROVE  /\ lane' \in Seq(LaneEffect) /\ OneSteer'
               /\ \A e \in Effects' : e \in Effects \/
                    (e \in LaneEffect /\ e.type = "interrupt" /\ e.att \in Attempt)
               /\ lane # << >> /\ Head(lane).type \notin Startup =>
                    lane' # << >> /\ Head(lane') = Head(lane)
    <3>1. PICK e : e = Effect("interrupt", r, a, NoMsg)
      OBVIOUS
    <3>2. e \in LaneEffect /\ e.type = "interrupt" /\ e.att = a
      BY <1>1, <2>5, <3>1, AttemptZero DEF Effect, LaneEffect
    <3>3. lane' = Append(s, e)
      BY <2>5, <3>1
    <3> QED
      BY <2>1, <2>3, <3>2, <3>3, LaneAppended DEF OneSteer, Effects
  <2> QED
    BY <1>r, <1>0, <2>1, <2>2, <2>4, <2>5, InterruptsAppended
<1>7. exec' = Resting \/ (exec' = exec /\ ~(lane # << >> /\ Head(lane).type \in Startup))
  BY DEF StopBeforeTurn
<1>8. LaneOK'
  BY <1>6, <1>7, RestingTyped DEF LaneOK
<1>9. MessageInv'
  <2>1. \A q \in Msg : Unsent(q)' => Unsent(q) /\ Cur(q)' = Cur(q)
    <3> SUFFICES ASSUME NEW q \in Msg, Unsent(q)' PROVE Unsent(q) /\ Cur(q)' = Cur(q)
      OBVIOUS
    <3>1. q # r
      BY <1>2 DEF Unsent, SetsSt
    <3>2. St(q)' = St(q) /\ Cur(q)' = Cur(q) /\ \A a \in Attempt : Turn(q, a)' = Turn(q, a)
      BY <1>2, <3>1 DEF SetsSt, SetsCur, SameTurn
    <3>3. St(q) = "running" => Cur(q) \in Attempt
      BY DEF RowInv, ActiveRowOK, Live
    <3> QED
      BY <3>2, <3>3 DEF Unsent
  <2>2. \A e \in Effects' : e.type = "steer" => e \in Effects /\ e.msg \in Msg
    BY <1>6 DEF LaneInv, EffectsTyped, EffectTyped
  <2>3. \A q \in Msg : /\ St(q) \in {"none", "cancelled"} => St(q)' = St(q)
                       /\ St(q)' = "queued" => St(q) = "queued" /\ Cur(q)' = Cur(q)
    BY <1>1, <1>2 DEF SetsSt, SetsCur, Live, Over
  <2> QED
    BY <1>2, <1>3, <1>4, <1>6, <2>1, <2>2, <2>3, MessagesKept
<1>10. LaneInv'
  <2>1. \A e \in Effects' : e \in Effects \/ EffectTyped(e)'
    BY <1>6 DEF EffectTyped
  <2>2. CASE exec' = Resting
    BY <2>1, <2>2, <1>4, <1>8, RestingTyped, LaneRests
  <2>3. CASE exec' = exec /\ ~(lane # << >> /\ Head(lane).type \in Startup)
    <3>1. exec.pc \notin {"open", "call", "send"}
      BY <2>3 DEF LaneInv, ExecKind, Current
    <3> QED
      BY <2>1, <2>3, <1>2, <1>4, <1>6, <1>8, <3>1, LaneKept DEF SameTurn
  <2> QED
    BY <1>7, <2>2, <2>3
<1>11. QueueOK'
  BY <1>1, <1>2, <1>3, QueueKept DEF QueueOK, SetsSt, Live, Over
<1>12. RecordsOK'
  <2>1. ends' \in Seq([run : Msg, st : Terminal])
    BY <1>r, <1>1 DEF StopBeforeTurn, Ended, RecordsOK, Terminal
  <2> QED
    BY <1>r, <1>c, <1>1, <2>1 DEF StopBeforeTurn, RecordsOK, agentVars
<1> QED
  BY <1>2, <1>3, <1>5, <1>8, <1>9, <1>10, <1>11, <1>12, LockFreed

LEMMA CommitKeeps == ASSUME MessagesInv, Commit PROVE MessagesInv'
BY StartAtOnceKeeps, QueueBehindKeeps, SteerActiveKeeps, RestartActiveKeeps, IdleCommandKeeps,
   PromoteKeeps, CancelKeeps, ResumeKeeps, StopBeforeTurnKeeps DEF Commit

-----------------------------------------------------------------------------
(* Taking the lock. *)

LEMMA BegunCommand ==
    ASSUME MessagesInv, NEW k, NEW m, Begin(k, m), sent' = sent
    PROVE  /\ Rows' /\ QueueOK' /\ RowInv' /\ MessageInv' /\ CopyInv' /\ lane' = lane
           /\ cmd'.kind = k /\ cmd'.msg = m /\ cmd'.copy = run
           /\ EffectsTyped' /\ SameSt /\ SameCur /\ SameText /\ SameTurn
           /\ exec' = exec => LaneOK' /\ LaneInv'
<1> USE DEF MessagesInv
<1>1. /\ run' = run /\ ended' = ended /\ delivered' = delivered /\ confirmed' = confirmed
      /\ queue' = queue
      /\ held' = held /\ lane' = lane
      /\ cmd'.kind = k /\ cmd'.msg = m /\ cmd'.copy = run
  BY DEF Begin, runVars, queueVars, histVars, agentVars
<1>2. Rows' /\ SameSt /\ SameCur /\ SameText /\ SameTurn
  BY <1>1, RowsKept DEF Rows
<1>3. RowInv'
  BY <1>1, <1>2, RowsStill
<1>4. OneSteer' /\ Effects' = Effects
  BY <1>1 DEF MessageInv, OneSteer, Effects
<1>5. \A q \in Msg : Begun(q)' <=> Begun(q)
  BY <1>2 DEF Begun, SameTurn
<1>6. MessageInv'
  <2>1. \A q \in Msg : Unsent(q)' => Unsent(q)
    BY <1>1 DEF Unsent, St, Cur, Turn
  <2>2. \A e \in Effects' : e.type = "steer" => e \in Effects /\ e.msg \in Msg
    BY <1>4 DEF LaneInv, EffectsTyped, EffectTyped
  <2> QED
    BY <1>1, <1>2, <1>4, <1>5, <2>1, <2>2, MessagesKept DEF SameSt, SameCur
<1>7. CopyInv'
  BY <1>1, LockTaken
<1>8. QueueOK'
  BY <1>1, StatusesStill DEF QueueOK
<1>9. exec' = exec => LaneOK' /\ LaneInv'
  <2> SUFFICES ASSUME exec' = exec PROVE LaneOK' /\ LaneInv'
    OBVIOUS
  <2>1. LaneOK'
    BY <1>1 DEF LaneOK
  <2> QED
    BY <1>1, <1>4, <2>1, Unmoved
<1>10. EffectsTyped'
  BY <1>4, <1>5, EffectsAreTyped, EffectFields DEF LaneInv, EffectsTyped, EffectTyped
<1> QED
  BY <1>1, <1>2, <1>3, <1>6, <1>7, <1>8, <1>9, <1>10

LEMMA SendKeeps == ASSUME MessagesInv, NEW m \in Msg, Send(m) PROVE MessagesInv'
<1> USE DEF MessagesInv
<1>1. PICK k \in Sends : Begin(k, m)
             /\ (k = "restart" => \A r \in ActiveRuns(run) : run[r].cur < MaxAttempts)
  BY DEF Send
<1>2. m \notin sent /\ exec' = exec /\ sent' = sent
  BY DEF Send
<1>3. /\ Rows' /\ QueueOK' /\ RowInv' /\ MessageInv' /\ CopyInv'
      /\ cmd'.kind = k /\ cmd'.msg = m /\ cmd'.copy = run /\ LaneOK' /\ LaneInv'
  BY <1>1, <1>2, BegunCommand
<1>4. CommandInv'
  <2>1. k \notin Picks \cup {"followup", "settle"}
    BY DEF Sends, Picks
  <2> QED
    BY <1>1, <1>2, <1>3, <2>1 DEF CommandInv, Targets
<1>5. KindOK'
  BY <1>1, <1>3 DEF KindOK
<1>6. RecordsOK'
  BY <1>1 DEF Send, Begin, RecordsOK, runVars, queueVars, histVars, agentVars
<1> QED
  BY <1>3, <1>4, <1>5, <1>6 DEF LockInv

LEMMA InterveneKeeps == ASSUME MessagesInv, Intervene PROVE MessagesInv'
<1> USE DEF MessagesInv
<1>1. PICK k \in Picks \cup {"stop", "resume"}, m \in Msg \cup {NoMsg} :
        Begin(k, m) /\ (k \in Picks => m \in ToSet(queue))
  <2>1. ToSet(queue) \subseteq Msg
    BY DEF QueueOK, ToSet
  <2>2. {"stop", "resume"} \cap Picks = {}
    BY DEF Picks
  <2> QED
    BY <2>1, <2>2 DEF Intervene
<1>2. exec' = exec /\ sent' = sent
  BY DEF Intervene
<1>3. /\ Rows' /\ QueueOK' /\ RowInv' /\ MessageInv' /\ CopyInv'
      /\ cmd'.kind = k /\ cmd'.msg = m /\ cmd'.copy = run /\ LaneOK' /\ LaneInv'
  BY <1>1, <1>2, BegunCommand
<1>4. CommandInv'
  <2>1. k \notin Sends \cup {"followup", "settle", "restart"}
    BY DEF Sends, Picks
  <2>2. queue' = queue
    BY <1>1 DEF Begin, queueVars
  <2> QED
    BY <1>1, <1>2, <1>3, <2>1, <2>2 DEF CommandInv
<1>5. KindOK'
  BY <1>1, <1>3 DEF KindOK
<1>6. RecordsOK'
  <2>1. acts' \in 0 .. MaxActs
    BY BoundsAssumption DEF Intervene, RecordsOK
  <2> QED
    BY <1>1, <1>2, <2>1 DEF Begin, RecordsOK, runVars, queueVars, histVars, agentVars
<1> QED
  BY <1>3, <1>4, <1>5, <1>6 DEF LockInv

LEMMA FollowUpKeeps == ASSUME MessagesInv, FollowUp PROVE MessagesInv'
<1> USE DEF MessagesInv
<1>1. Begin("followup", Current.msg) /\ exec' = exec /\ sent' = sent /\ exec.pc = "follow"
  BY DEF FollowUp, Executing
<1>2. /\ Rows' /\ QueueOK' /\ RowInv' /\ MessageInv' /\ CopyInv' /\ lane' = lane
      /\ cmd'.kind = "followup" /\ cmd'.msg = Current.msg /\ LaneOK' /\ LaneInv'
  BY <1>1, BegunCommand
<1>3. CommandInv'
  BY <1>1, <1>2 DEF CommandInv, Sends, Picks, Current
<1>4. KindOK'
  BY <1>2 DEF KindOK
<1>5. RecordsOK'
  BY <1>1 DEF FollowUp, Begin, RecordsOK, runVars, queueVars, histVars, agentVars
<1> QED
  BY <1>2, <1>3, <1>4, <1>5 DEF LockInv

LEMMA SettleInterruptKeeps == ASSUME MessagesInv, SettleInterrupt PROVE MessagesInv'
<1> USE DEF MessagesInv
<1>1. /\ Begin("settle", Current.run) /\ sent' = sent /\ exec.pc = "poll" /\ lane # << >>
      /\ GoTo("settle", exec.att)
  BY DEF SettleInterrupt, Executing
<1>8. exec' \in ExecType /\ exec'.pc = "settle" /\ exec'.att = exec.att
  <2>1. exec.att \in 0 .. MaxAttempts /\ "settle" \in ExecPc
    BY DEF LaneOK, ExecType, ExecPc
  <2> QED
    BY <1>1, <2>1, GoesTo
<1>2. /\ Rows' /\ QueueOK' /\ RowInv' /\ MessageInv' /\ CopyInv' /\ lane' = lane
      /\ cmd'.kind = "settle" /\ cmd'.msg = Current.run /\ EffectsTyped'
  BY <1>1, BegunCommand
<1>3. CommandInv'
  BY <1>8, <1>2 DEF CommandInv, Sends, Picks, Current
<1>4. KindOK'
  BY <1>2 DEF KindOK
<1>5. RecordsOK'
  BY <1>1 DEF SettleInterrupt, Begin, RecordsOK, runVars, queueVars, histVars, agentVars
<1>6. LaneOK'
  BY <1>8, <1>2 DEF LaneOK
<1>7. LaneInv'
  BY <1>1, <1>2, <1>8 DEF LaneInv, ExecKind, StartHolds, CaptureHolds, Current
<1> QED
  BY <1>2, <1>3, <1>4, <1>5, <1>6, <1>7 DEF LockInv

-----------------------------------------------------------------------------
(* Effects that read. *)

LEMMA ReadsKeep ==
    ASSUME MessagesInv, run' = run, ended' \subseteq ended, confirmed' = confirmed,
           UNCHANGED <<queue, held, cmd, sent>>,
           exec.pc \notin {"follow", "settle"} \/ cmd.kind \notin {"followup", "settle"},
           lane # << >>, lane' \in {lane, Tail(lane)}, exec' \in ExecType
    PROVE  /\ Rows' /\ QueueOK' /\ LaneOK' /\ KindOK' /\ RowInv' /\ MessageInv' /\ LockInv'
           /\ EffectsTyped' /\ SameSt /\ SameCur /\ SameTurn
           /\ exec'.pc = "idle" => LaneInv'
<1> USE DEF MessagesInv
<1>1. /\ lane' \in Seq(LaneEffect) /\ OneSteer' /\ Effects' \subseteq Effects
  <2>1. CASE lane' = lane
    BY <2>1 DEF LaneOK, MessageInv, OneSteer, Effects
  <2>2. CASE lane' = Tail(lane)
    BY <2>2, LanePopped DEF LaneInv, MessageInv, OneSteer, Effects
  <2> QED
    BY <2>1, <2>2
<1>2. LaneOK'
  BY <1>1 DEF LaneOK
<1>3. /\ cmd' = cmd /\ sent' = sent /\ queue' = queue /\ held' = held
  OBVIOUS
<1>4. /\ Rows' /\ RowInv' /\ MessageInv' /\ SameSt /\ SameCur /\ SameText /\ SameTurn
      /\ exec'.pc = "idle" => LaneInv'
  BY <1>1, <1>2, <1>3, Unmoved
<1>5. LockInv'
  <2>1. CopyInv'
    <3>1. \A m \in Msg : St(m)' = St(m) /\ Cur(m)' = Cur(m)
      BY <1>4 DEF SameSt, SameCur
    <3>2. \A m \in Msg, a \in Attempt : Turn(m, a)' = Turn(m, a)
      BY <1>4 DEF SameTurn
    <3> QED
      BY <1>3, <1>4, <3>1, <3>2, CopyKept DEF LockInv
  <2>2. CommandInv'
    BY <1>3, CommandKept DEF LockInv
  <2> QED
    BY <2>1, <2>2 DEF LockInv
<1>6. QueueOK'
  BY <1>3, StatusesStill DEF QueueOK
<1>7. KindOK'
  BY <1>3 DEF KindOK
<1>8. EffectsTyped'
  <2>1. \A q \in Msg : Begun(q)' <=> Begun(q)
    BY <1>4 DEF Begun, SameTurn
  <2> QED
    BY <1>1, <2>1, EffectsAreTyped, EffectFields DEF LaneInv, EffectsTyped, EffectTyped
<1> QED
  BY <1>2, <1>4, <1>5, <1>6, <1>7, <1>8

(* Such a step that changes nothing else either. *)
LEMMA QuietReads ==
    ASSUME MessagesInv, Quiet, UNCHANGED <<runVars, captured, ends, agentVars, forgone>>,
           exec.pc \notin {"follow", "settle"}, lane # << >>, lane' \in {lane, Tail(lane)},
           exec' \in ExecType
    PROVE  /\ Rows' /\ QueueOK' /\ LaneOK' /\ KindOK' /\ RowInv' /\ MessageInv' /\ LockInv'
           /\ EffectsTyped' /\ SameSt /\ SameCur /\ SameTurn /\ RecordsOK'
           /\ exec'.pc = "idle" => LaneInv'
<1>1. /\ run' = run /\ ended' = ended /\ confirmed' = confirmed
      /\ UNCHANGED <<queue, held, cmd, sent>>
  BY DEF Quiet, runVars, agentVars, queueVars
<1>2. RecordsOK'
  BY <1>1 DEF MessagesInv, RecordsOK, Quiet, runVars, agentVars, queueVars
<1> QED
  BY <1>1, <1>2, ReadsKeep

LEMMA SettledTyped ==
    ASSUME Settled
    PROVE  lane' \in {lane, Tail(lane)} /\ exec' \in ExecType /\ exec'.pc = "idle"
BY RestingTyped DEF Settled

LEMMA ReadForStartKeeps ==
    ASSUME MessagesInv, ReadForStart(Current.run), exec.pc \in {"idle", "await"},
           lane # << >>, Current.type \in Startup
    PROVE  MessagesInv'
<1> USE DEF MessagesInv
<1>1. PICK r : r = Current.run
  OBVIOUS
<1>2. r \in Msg
  BY <1>1, CurrentEffect
<1>3. Quiet /\ UNCHANGED <<runVars, captured, ends, agentVars, forgone>>
  BY DEF ReadForStart
<1>4. CASE Settled
  BY <1>3, <1>4, QuietReads, SettledTyped
<1>5. CASE St(r) = "starting" /\ GoTo("open", Cur(r))
  <2>1. Cur(r) \in Attempt /\ Turn(r, Cur(r)) = "none"
    BY <1>2, <1>5 DEF RowInv, ActiveRowOK, StartingIsUnsent, Live
  <2>2. exec' \in ExecType /\ exec'.pc = "open" /\ exec'.att = Cur(r) /\ lane' = lane
    <3>1. Cur(r) \in 0 .. MaxAttempts /\ "open" \in ExecPc
      BY <2>1, AttemptZero DEF ExecPc
    <3> QED
      BY <1>5, <3>1, GoesTo
  <2>3. /\ Rows' /\ QueueOK' /\ LaneOK' /\ KindOK' /\ RowInv' /\ MessageInv' /\ LockInv'
        /\ EffectsTyped' /\ SameSt /\ SameCur /\ SameTurn /\ RecordsOK'
    BY <1>3, <2>2, QuietReads
  <2>4. Holds(r, Cur(r), "starting")'
    BY <1>2, <1>5, <2>1, <2>3 DEF Holds, SameSt, SameCur, SameTurn
  <2>5. Cur(r)' = Cur(r)
    BY <1>2, <2>3 DEF SameCur
  <2>6. LaneInv'
    BY <1>1, <2>1, <2>2, <2>3, <2>4, <2>5 DEF LaneInv, ExecKind, StartHolds, CaptureHolds, Current
  <2> QED
    BY <2>3, <2>6
<1> QED
  BY <1>1, <1>4, <1>5 DEF ReadForStart, St, Cur

(* The other effects that only read. *)
LEMMA QuietEffectKeeps ==
    ASSUME MessagesInv,
           BeginStart \/ BeginRestart \/ RestartGoesOn \/ CheckBeforeCall \/ BeginInterrupt
    PROVE  MessagesInv'
<1> USE DEF MessagesInv
<1>1. CASE BeginStart
  BY <1>1, ReadForStartKeeps DEF BeginStart, Executing, Startup
<1>2. CASE RestartGoesOn
  BY <1>2, ReadForStartKeeps DEF RestartGoesOn, Executing, Startup
<1>3. CASE BeginRestart \/ BeginInterrupt
  <2>1. /\ lane # << >> /\ exec.pc = "idle" /\ Current.type \in {"restart", "interrupt"}
        /\ Current.run \in Msg /\ Current.att \in Attempt
    BY <1>3, CurrentEffect DEF BeginRestart, BeginInterrupt, Executing, LaneInv, EffectsTyped,
       EffectTyped
  <2>2. /\ run' = run /\ ended' = ended /\ delivered' = delivered /\ confirmed' = confirmed
        /\ Quiet /\ captured' = captured /\ ends' = ends /\ forgone' = forgone
        /\ asked' \subseteq asked \cup {<<Current.run, Current.att>>}
    BY <1>3 DEF BeginRestart, BeginInterrupt, agentVars
  <2>3. PICK pc \in {"await", "poll"} : /\ GoTo(pc, Current.att)
                                       /\ (pc = "await" => Current.type = "restart")
                                       /\ (pc = "poll" => Current.type = "interrupt")
    BY <1>3 DEF BeginRestart, BeginInterrupt, Executing
  <2>7. exec' \in ExecType /\ exec'.pc = pc /\ exec'.att = Current.att /\ lane' = lane
    <3>1. Current.att \in 0 .. MaxAttempts /\ pc \in ExecPc
      BY <2>1, AttemptZero DEF ExecPc
    <3> QED
      BY <2>3, <3>1, GoesTo
  <2>4. /\ Rows' /\ QueueOK' /\ LaneOK' /\ KindOK' /\ RowInv' /\ MessageInv' /\ LockInv'
        /\ EffectsTyped'
    <3>1. UNCHANGED <<queue, held, cmd, sent>>
      BY <2>2 DEF Quiet, queueVars
    <3> QED
      BY <2>1, <2>2, <2>7, <3>1, ReadsKeep
  <2>5. LaneInv'
    BY <2>1, <2>3, <2>4, <2>7 DEF LaneInv, ExecKind, StartHolds, CaptureHolds, Current
  <2>6. RecordsOK'
    BY <2>1, <2>2 DEF RecordsOK, Quiet, queueVars
  <2> QED
    BY <2>4, <2>5, <2>6
<1>4. CASE CheckBeforeCall
  <2>1. /\ Quiet /\ UNCHANGED <<runVars, captured, ends, agentVars, forgone>>
        /\ lane # << >> /\ exec.pc = "call" /\ Current.type \in Startup
    BY <1>4 DEF CheckBeforeCall, Executing
  <2>3. CASE Settled
    BY <2>1, <2>3, QuietReads, SettledTyped
  <2>4. CASE GoTo("send", exec.att)
    <3>1. /\ exec.att \in Attempt /\ Holds(Current.run, exec.att, "running")
          /\ Current.run \in Msg
      BY <2>1, CurrentEffect DEF LaneInv, ExecKind, StartHolds
    <3>2. exec' \in ExecType /\ exec'.pc = "send" /\ exec'.att = exec.att /\ lane' = lane
      <4>1. exec.att \in 0 .. MaxAttempts /\ "send" \in ExecPc
        BY DEF LaneOK, ExecType, ExecPc
      <4> QED
        BY <2>4, <4>1, GoesTo
    <3>3. /\ Rows' /\ QueueOK' /\ LaneOK' /\ KindOK' /\ RowInv' /\ MessageInv' /\ LockInv'
          /\ EffectsTyped' /\ RecordsOK' /\ SameSt /\ SameCur /\ SameTurn
      BY <2>1, <3>2, QuietReads
    <3>4. Holds(Current.run, exec.att, "running")' /\ Current' = Current
      BY <3>1, <3>2, <3>3 DEF Holds, SameSt, SameCur, SameTurn, Current
    <3>5. LaneInv'
      BY <2>1, <3>1, <3>2, <3>3, <3>4 DEF LaneInv, ExecKind, StartHolds, CaptureHolds, Current
    <3> QED
      BY <3>3, <3>5
  <2> QED
    BY <1>4, <2>3, <2>4 DEF CheckBeforeCall
<1> QED
  BY <1>1, <1>2, <1>3, <1>4

LEMMA CaptureReadsKeeps == ASSUME MessagesInv, CaptureReads PROVE MessagesInv'
<1> USE DEF MessagesInv
<1>1. PICK r : r = Current.run
  OBVIOUS
<1>2. /\ lane # << >> /\ exec.pc = "idle" /\ Current.type = "capture" /\ r \in Msg
      /\ Quiet /\ UNCHANGED <<runVars, captured, ends, agentVars, forgone>>
  BY <1>1, CurrentEffect DEF CaptureReads, Executing
<1>3. CASE Settled
  BY <1>2, <1>3, QuietReads, SettledTyped
<1>4. ASSUME NEW pc \in {"capture", "stamp"}, GoTo(pc, Cur(r)),
             pc = "capture" => St(r) = "waiting"
      PROVE  MessagesInv'
  <2>1. exec' \in ExecType /\ exec'.pc = pc /\ exec'.att = Cur(r) /\ lane' = lane
    <3>1. Cur(r) \in 0 .. MaxAttempts /\ pc \in ExecPc
      BY <1>2, RowTypes DEF ExecPc
    <3> QED
      BY <1>4, <3>1, GoesTo
  <2>2. /\ Rows' /\ QueueOK' /\ LaneOK' /\ KindOK' /\ RowInv' /\ MessageInv' /\ LockInv'
        /\ EffectsTyped' /\ RecordsOK' /\ SameTurn
    BY <1>2, <2>1, QuietReads
  <2>3. pc = "capture" => Cur(r) \in Attempt /\ Turn(r, Cur(r))' = "completed"
    <3>1. St(r) = "waiting" => Cur(r) \in Attempt /\ Turn(r, Cur(r)) = "completed"
      BY <1>2 DEF RowInv, SettledInv
    <3>2. run' = run
      BY <1>2 DEF runVars
    <3> QED
      BY <1>4, <3>1, <3>2 DEF Turn, Cur
  <2>4. Cur(r)' = Cur(r)
    BY <1>2 DEF Cur, runVars
  <2>5. LaneInv'
    BY <1>1, <1>2, <2>1, <2>2, <2>3, <2>4 DEF LaneInv, ExecKind, StartHolds, CaptureHolds, Current
  <2> QED
    BY <2>2, <2>5
<1>5. CASE St(r) = "waiting" /\ GoTo("capture", Cur(r))
  BY <1>4, <1>5
<1>6. CASE GoTo("stamp", Cur(r))
  BY <1>4, <1>6
<1> QED
  BY <1>1, <1>3, <1>5, <1>6 DEF CaptureReads, St, Cur

-----------------------------------------------------------------------------
(* Steering. *)
LEMMA SteerFacts ==
    ASSUME MessagesInv, lane # << >>, Current.type = "steer"
    PROVE  /\ Current \in Effects /\ Current.msg \in Msg /\ NewToAgent(Current.msg)
           /\ Current.att \in 0 .. MaxAttempts
BY CurrentEffect, EffectFields DEF MessagesInv, MessageInv, SteerIsNew, LaneInv, EffectsTyped,
   EffectTyped

LEMMA FailedTryTyped ==
    ASSUME LaneOK, FailedTry
    PROVE  /\ lane' \in {lane, Tail(lane)} /\ exec' \in ExecType /\ exec'.pc = "idle"
           /\ dropped' \subseteq dropped \cup {Current.msg}
BY TriesAgain, SettledTyped DEF FailedTry

LEMMA SteerFailedTyped ==
    ASSUME LaneOK, SteerFailed, Current.att \in 0 .. MaxAttempts
    PROVE  /\ lane' \in {lane, Tail(lane)} /\ exec' \in ExecType
           /\ exec'.pc = "idle" \/ (exec'.pc = "follow" /\ lane' = lane)
           /\ dropped' \subseteq dropped \cup {Current.msg}
<1>1. "follow" \in ExecPc
  BY DEF ExecPc
<1> QED
  BY <1>1, FailedTryTyped, GoesTo DEF SteerFailed

(* No call confirms the message.                                           *)
LEMMA SteerWaits ==
    ASSUME MessagesInv, QuietSteer, lane # << >>, Current.type = "steer",
           exec.pc \in {"idle", "steer"} \/ (exec.pc = "follow" /\ cmd.kind # "followup"),
           confirmed' = confirmed, delivered' \in [Msg -> Nat],
           dropped' \subseteq dropped \cup {Current.msg},
           lane' \in {lane, Tail(lane)}, exec' \in ExecType,
           exec'.pc = "idle" \/ (exec'.pc \in {"steer", "follow"} /\ lane' = lane)
    PROVE  MessagesInv'
<1> USE DEF MessagesInv
<1>1. Current.msg \in Msg
  BY SteerFacts
<1>2. /\ run' = run /\ ended' = ended /\ UNCHANGED <<queue, held, cmd, sent>>
      /\ exec.pc \notin {"follow", "settle"} \/ cmd.kind \notin {"followup", "settle"}
  BY DEF QuietSteer, runVars, queueVars, LockInv, CommandInv
<1>3. /\ Rows' /\ QueueOK' /\ LaneOK' /\ KindOK' /\ RowInv' /\ MessageInv' /\ LockInv'
      /\ EffectsTyped' /\ (exec'.pc = "idle" => LaneInv')
  BY <1>2, ReadsKeep
<1>4. RecordsOK'
  BY <1>1 DEF RecordsOK, QuietSteer, runVars, queueVars
<1>5. exec'.pc \in {"steer", "follow"} /\ lane' = lane => LaneInv'
  BY <1>3 DEF LaneInv, ExecKind, StartHolds, CaptureHolds, Current
<1> QED
  BY <1>3, <1>4, <1>5

LEMMA LoadSteerKeeps == ASSUME MessagesInv, LoadSteer PROVE MessagesInv'
<1>1. /\ lane # << >> /\ Current.type = "steer" /\ exec.pc = "idle" /\ QuietSteer
      /\ confirmed' = confirmed /\ delivered' = delivered
  BY DEF LoadSteer, Executing, agentVars
<1>2. LaneOK /\ delivered' \in [Msg -> Nat] /\ Current.att \in 0 .. MaxAttempts
  BY <1>1, SteerFacts DEF MessagesInv, RecordsOK
<1>3. "steer" \in ExecPc
  BY DEF ExecPc
<1>4. CASE GoTo("steer", Current.att) /\ dropped' = dropped
  <2>1. exec' \in ExecType /\ exec'.pc = "steer" /\ lane' = lane
    BY <1>2, <1>3, <1>4, GoesTo
  <2> QED
    BY <1>1, <1>2, <1>4, <2>1, SteerWaits
<1>5. CASE FailedTry
  BY <1>1, <1>2, <1>5, FailedTryTyped, SteerWaits
<1>6. CASE SteerFailed
  BY <1>1, <1>2, <1>6, SteerFailedTyped, SteerWaits
<1> QED
  BY <1>4, <1>5, <1>6 DEF LoadSteer

LEMMA SteerFailsKeeps == ASSUME MessagesInv, SteerFails PROVE MessagesInv'
<1>1. /\ lane # << >> /\ Current.type = "steer" /\ exec.pc = "steer" /\ QuietSteer
      /\ confirmed' = confirmed /\ SteerFailed
  BY DEF SteerFails, Executing
<1>2. LaneOK /\ delivered' \in [Msg -> Nat] /\ Current.att \in 0 .. MaxAttempts
  BY <1>1, SteerFacts DEF MessagesInv, RecordsOK, SteerFails, Delivers
<1> QED
  BY <1>1, <1>2, SteerFailedTyped, SteerWaits

LEMMA FollowUpFailsKeeps == ASSUME MessagesInv, FollowUpFails PROVE MessagesInv'
<1>1. /\ lane # << >> /\ Current.type = "steer" /\ exec.pc = "follow" /\ QuietSteer
      /\ cmd.kind # "followup" /\ confirmed' = confirmed /\ delivered' = delivered
  BY DEF FollowUpFails, Executing, agentVars
<1>2. LaneOK /\ delivered' \in [Msg -> Nat]
  BY <1>1 DEF MessagesInv, RecordsOK
<1>3. CASE FailedTry
  BY <1>1, <1>2, <1>3, FailedTryTyped, SteerWaits
<1>4. CASE Settled /\ dropped' = dropped \cup {Current.msg}
  BY <1>1, <1>2, <1>4, SettledTyped, SteerWaits
<1> QED
  BY <1>3, <1>4 DEF FollowUpFails

(* The call says that the agent has it. *)
LEMMA SteerSucceedsKeeps == ASSUME MessagesInv, SteerSucceeds PROVE MessagesInv'
<1> USE DEF MessagesInv
<1>m. PICK m : m = Current.msg
  OBVIOUS
<1>1. /\ lane # << >> /\ exec.pc = "steer" /\ Current.type = "steer" /\ Current \in Effects
      /\ m \in Msg /\ run' = run /\ ended' = ended /\ QuietSteer /\ NewToAgent(m)
  BY <1>m, SteerFacts DEF SteerSucceeds, Executing, QuietSteer, runVars
<1>2. /\ delivered' = [delivered EXCEPT ![m] = @ + 1] /\ Settled /\ dropped' = dropped
      /\ confirmed' = confirmed \cup {m}
  BY <1>m DEF SteerSucceeds, Delivers
<1>3. /\ lane' = Tail(lane) /\ exec' = Resting /\ cmd' = cmd /\ sent' = sent
      /\ queue' = queue /\ held' = held
  BY <1>1, <1>2 DEF Settled, QuietSteer, queueVars
<1>4. /\ lane' \in Seq(LaneEffect) /\ OneSteer' /\ Effects' \subseteq Effects
      /\ \A f \in Effects' : f.type = "steer" => f.msg # m
  BY <1>m, <1>1, <1>3, LanePopped DEF LaneInv, MessageInv, OneSteer, Effects
<1>5. LaneOK'
  BY <1>3, <1>4, RestingTyped DEF LaneOK
<1>6. Rows' /\ SameSt /\ SameCur /\ SameText /\ SameTurn
  BY <1>1, RowsKept DEF Rows
<1>7. RowInv'
  BY <1>1, <1>6, RowsStill
<1>8. \A q \in Msg : Begun(q)' <=> Begun(q)
  BY <1>6 DEF Begun, SameTurn
<1>9. delivered' \in [Msg -> Nat] /\ \A q \in Msg : q # m => (q \in confirmed' <=> q \in confirmed)
  BY <1>1, <1>2 DEF RecordsOK
<1>10. MessageInv'
  <2> USE DEF MessageInv
  <2>1. UnsentIsNew'
    BY <1>1, <1>3, <1>6, <1>8, <1>9 DEF UnsentIsNew, SameSt, NewToAgent
  <2>2. QueuedIsNew'
    <3>1. 1 \in Attempt
      BY BoundsAssumption DEF Attempt
    <3> QED
      BY <1>1, <1>3, <1>6, <1>8, <1>9, <3>1 DEF QueuedIsNew, SameSt, SameCur, SameText,
         NewToAgent
  <2>3. SteerIsNew'
    <3>1. \A q \in Msg : q # m /\ NewToAgent(q) => NewToAgent(q)'
      BY <1>1, <1>3, <1>6, <1>8, <1>9 DEF NewToAgent, SameSt, SameText
    <3> QED
      BY <1>4, <3>1 DEF SteerIsNew, LaneInv, EffectsTyped, EffectTyped
  <2>4. UnsentIsUnconfirmed'
    <3> SUFFICES ASSUME NEW q \in Msg, Unsent(q)' PROVE Text(q, Cur(q))' \notin confirmed'
      BY DEF UnsentIsUnconfirmed
    <3>1. Unsent(q)
      BY <1>1 DEF Unsent, St, Cur, Turn
    <3>2. Cur(q) \in Attempt /\ Text(q, Cur(q)) \in Msg /\ St(q) \in Live
      BY <3>1 DEF Unsent, Live, RowInv, ActiveRowOK
    <3>3. Text(q, Cur(q)) # m
      BY <1>1, <3>2 DEF NewToAgent, Live
    <3>4. Text(q, Cur(q))' = Text(q, Cur(q))
      BY <1>1 DEF Text, Cur
    <3> QED
      BY <1>9, <3>1, <3>2, <3>3, <3>4 DEF UnsentIsUnconfirmed
  <2>5. TextIsSent' /\ OneText'
    BY <1>1, <1>3, <1>6 DEF TextIsSent, OneText, SameText
  <2> QED
    BY <1>4, <2>1, <2>2, <2>3, <2>4, <2>5
<1>11. LaneInv'
  BY <1>3, <1>4, <1>5, <1>8, RestingTyped, LaneRests
<1>12. LockInv'
  <2>1. \A q \in Msg : St(q)' = St(q) /\ Cur(q)' = Cur(q)
    BY <1>6 DEF SameSt, SameCur
  <2>2. \A q \in Msg, a \in Attempt : Turn(q, a)' = Turn(q, a)
    BY <1>6 DEF SameTurn
  <2>3. CopyInv'
    BY <1>1, <1>3, <1>6, <2>1, <2>2, CopyKept DEF LockInv
  <2> QED
    BY <1>1, <1>3, <2>3, CommandKept DEF LockInv
<1>13. QueueOK' /\ KindOK'
  BY <1>1, <1>3, StatusesStill DEF QueueOK, KindOK
<1>14. RecordsOK'
  BY <1>1, <1>2, <1>9 DEF RecordsOK, QuietSteer, runVars, queueVars
<1> QED
  BY <1>5, <1>6, <1>7, <1>10, <1>11, <1>12, <1>13, <1>14

-----------------------------------------------------------------------------
(* The run moves on: it runs, waits, or is over. *)
LEMMA RunMoves ==
    ASSUME MessagesInv, NEW r \in Msg, St(r) \in {"starting", "running"},
           NEW s \in {"running", "waiting", "interrupted", "failed"},
           s = "waiting" => Turn(r, Cur(r)) = "completed",
           run' = [run EXCEPT ![r].st = s], ended' \subseteq ended, queue' = queue,
           held' = held, sent' = sent, confirmed' = confirmed, cmd' = cmd,
           OneSteer', \A e \in Effects' : e.type = "steer" => e \in Effects
    PROVE  /\ Rows' /\ QueueOK' /\ KindOK' /\ RowInv' /\ MessageInv' /\ CopyInv'
           /\ SetsSt(r, s) /\ SameCur /\ SameText /\ SameTurn
           /\ \A q \in Msg : Begun(q)' <=> Begun(q)
<1> USE DEF MessagesInv
<1>1. Rows' /\ SetsSt(r, s) /\ SameCur /\ SameText /\ SameTurn
  BY StWritten DEF RunStatus, Live, Terminal
<1>2. \A q \in Msg : Begun(q)' <=> Begun(q)
  BY <1>1 DEF Begun, SameTurn
<1>3. \A q \in Msg : St(q) \in Live => Cur(q) \in Attempt
  BY DEF RowInv, ActiveRowOK
<1>4. \A q \in Msg : St(q)' \in Live => St(q) \in Live /\ Cur(q)' = Cur(q)
  BY <1>1 DEF SetsSt, SameCur, Live
<1>5. RowInv'
  <2>1. ActiveRowOK'
    BY <1>1, <1>3, <1>4 DEF RowInv, ActiveRowOK, SameCur, SameText, SameTurn
  <2>2. StartingIsUnsent'
    BY <1>1, <1>3 DEF RowInv, StartingIsUnsent, SetsSt, SameCur, SameTurn, Live
  <2>3. SettledInv'
    BY <1>1, <1>3 DEF RowInv, SettledInv, SetsSt, SameCur, SameTurn, Live
  <2>4. EndedIsOver'
    BY <1>1 DEF RowInv, EndedIsOver, SameTurn
  <2> QED
    BY <2>1, <2>2, <2>3, <2>4 DEF RowInv
<1>6. MessageInv'
  <2>1. \A q \in Msg : Unsent(q)' => Unsent(q) /\ Cur(q)' = Cur(q)
    <3> SUFFICES ASSUME NEW q \in Msg, Unsent(q)' PROVE Unsent(q) /\ Cur(q)' = Cur(q)
      OBVIOUS
    <3>1. St(q)' \in Live
      BY DEF Unsent, Live
    <3>2. /\ St(q) \in Live /\ Cur(q)' = Cur(q) /\ Cur(q) \in Attempt
          /\ \A a \in Attempt : Turn(q, a)' = Turn(q, a)
      BY <1>1, <1>3, <1>4, <3>1 DEF SameTurn
    <3>3. CASE q = r
      BY <1>1, <3>2, <3>3 DEF Unsent, SetsSt
    <3>4. CASE q # r
      BY <1>1, <3>2, <3>4 DEF Unsent, SetsSt
    <3> QED
      BY <3>3, <3>4
  <2>2. \A e \in Effects' : e.type = "steer" => e \in Effects /\ e.msg \in Msg
    BY DEF LaneInv, EffectsTyped, EffectTyped
  <2>3. \A q \in Msg : /\ St(q) \in {"none", "cancelled"} => St(q)' = St(q)
                       /\ St(q)' = "queued" => St(q) = "queued" /\ Cur(q)' = Cur(q)
    BY <1>1 DEF SetsSt, SameCur
  <2> QED
    BY <1>1, <1>2, <2>1, <2>2, <2>3, MessagesKept
<1>7. CopyInv'
  <2>1. \A q \in Msg : St(q) \in Live \cup Over => St(q)' \in Live \cup Over
    BY <1>1 DEF SetsSt, Live, Over
  <2>2. \A q \in Msg, a \in Attempt : Turn(q, a)' = Turn(q, a)
    BY <1>1 DEF SameTurn
  <2> QED
    BY <1>1, <1>4, <2>1, <2>2, CopyKept DEF LockInv
<1>8. QueueOK'
  BY <1>1, QueueKept DEF QueueOK, SetsSt
<1> QED
  BY <1>1, <1>2, <1>5, <1>6, <1>7, <1>8 DEF KindOK

LEMMA StartFailsKeeps ==
    ASSUME MessagesInv, NEW s, StartFails(s), lane # << >>,
           (exec.pc = "open" /\ s = "starting") \/ (exec.pc = "send" /\ s = "running")
    PROVE  MessagesInv'
<1> USE DEF MessagesInv
<1>r. PICK r : r = Current.run
  OBVIOUS
<1>1. r \in Msg /\ exec.att \in Attempt /\ Holds(r, exec.att, s)
  BY <1>r, CurrentEffect DEF LaneInv, ExecKind, StartHolds
<1>2. IsCurrent(r, exec.att, s) /\ Text(r, exec.att) \in Msg
  BY <1>1 DEF Holds, IsCurrent, St, Cur, RowInv, ActiveRowOK, Live
<1>3. /\ run' = [run EXCEPT ![r].st = "failed"] /\ lane' = Tail(lane) /\ exec' = Resting
      /\ ended' = ended /\ queue' = queue /\ held' = held /\ sent' = sent
      /\ delivered' = delivered /\ confirmed' = confirmed
      /\ cmd' = cmd /\ ends' = Ended(r, "failed")
  BY <1>r, <1>2 DEF StartFails, SetStatus, Settled, Quiet, queueVars, agentVars
<1>4. lane' \in Seq(LaneEffect) /\ OneSteer' /\ Effects' \subseteq Effects
  BY <1>3, LanePopped DEF LaneInv, MessageInv, OneSteer, Effects
<1>5. St(r) \in {"starting", "running"}
  BY <1>1 DEF Holds
<1>6. /\ Rows' /\ QueueOK' /\ KindOK' /\ RowInv' /\ MessageInv' /\ CopyInv'
      /\ \A q \in Msg : Begun(q)' <=> Begun(q)
  BY <1>1, <1>3, <1>4, <1>5, RunMoves
<1>7. LaneOK'
  BY <1>3, <1>4, RestingTyped DEF LaneOK
<1>8. LaneInv'
  BY <1>3, <1>4, <1>6, <1>7, RestingTyped, LaneRests
<1>9. LockInv'
  BY <1>3, <1>6, CommandKept DEF LockInv
<1>10. RecordsOK'
  <2>1. ends' \in Seq([run : Msg, st : Terminal])
    BY <1>1, <1>3 DEF Ended, RecordsOK, Terminal
  <2> QED
    BY <1>r, <1>2, <2>1 DEF StartFails, RecordsOK, Quiet, queueVars, agentVars, Text
<1> QED
  BY <1>6, <1>7, <1>8, <1>9, <1>10

LEMMA OpenFailsKeeps == ASSUME MessagesInv, OpenFails PROVE MessagesInv'
<1>1. lane # << >> /\ exec.pc = "open"
  BY DEF OpenFails, Executing
<1>2. CASE StartFails("starting")
  BY <1>1, <1>2, StartFailsKeeps
<1>3. CASE /\ WillRetry /\ TryAgain
           /\ UNCHANGED <<runVars, captured, ends, agentVars, forgone>> /\ Quiet
  <2>1. exec' \in ExecType /\ exec'.pc = "idle" /\ lane' = lane
    BY <1>3, TriesAgain DEF MessagesInv
  <2> QED
    BY <1>1, <1>3, <2>1, QuietReads DEF MessagesInv
<1> QED
  BY <1>2, <1>3 DEF OpenFails

LEMMA OpenSucceedsKeeps == ASSUME MessagesInv, OpenSucceeds PROVE MessagesInv'
<1> USE DEF MessagesInv
<1>r. PICK r : r = Current.run
  OBVIOUS
<1>0. lane # << >> /\ exec.pc = "open" /\ Current.type \in Startup
  BY DEF OpenSucceeds, Executing
<1>1. r \in Msg /\ exec.att \in Attempt /\ Holds(r, exec.att, "starting")
  BY <1>r, <1>0, CurrentEffect DEF LaneInv, ExecKind, StartHolds
<1>2. IsCurrent(r, exec.att, "starting")
  BY <1>1 DEF Holds, IsCurrent, St, Cur
<1>3. /\ run' = [run EXCEPT ![r].st = "running"] /\ GoTo("call", exec.att)
      /\ ended' = ended /\ queue' = queue /\ held' = held /\ sent' = sent
      /\ delivered' = delivered /\ confirmed' = confirmed /\ cmd' = cmd
  BY <1>r, <1>2 DEF OpenSucceeds, SetStatus, Quiet, queueVars, agentVars
<1>10. exec' \in ExecType /\ exec'.pc = "call" /\ exec'.att = exec.att /\ lane' = lane
  <2>1. exec.att \in 0 .. MaxAttempts /\ "call" \in ExecPc
    BY DEF LaneOK, ExecType, ExecPc
  <2> QED
    BY <1>3, <2>1, GoesTo
<1>4. LaneOK' /\ OneSteer' /\ Effects' = Effects
  BY <1>10 DEF LaneOK, MessageInv, OneSteer, Effects
<1>5. St(r) \in {"starting", "running"}
  BY <1>1 DEF Holds
<1>6. /\ Rows' /\ QueueOK' /\ KindOK' /\ RowInv' /\ MessageInv' /\ CopyInv'
      /\ SetsSt(r, "running") /\ SameCur /\ SameTurn
      /\ \A q \in Msg : Begun(q)' <=> Begun(q)
  BY <1>1, <1>3, <1>4, <1>5, RunMoves
<1>7. LaneInv'
  <2>1. EffectsTyped'
    BY <1>4, <1>6, EffectsAreTyped, EffectFields DEF LaneInv, EffectsTyped, EffectTyped
  <2>2. PICK b : b = exec.att
    OBVIOUS
  <2>3. Current' = Current /\ Current.run = r
    BY <1>r, <1>10 DEF Current
  <2>4. StartHolds'
    <3>1. St(r)' = "running" /\ Cur(r)' = b /\ Turn(r, b)' = "none"
      BY <1>1, <1>6, <2>2 DEF Holds, SetsSt, SameCur, SameTurn
    <3>2. exec'.pc = "call" /\ exec'.att = b
      BY <1>10, <2>2
    <3> QED
      BY <2>3, <3>1, <3>2 DEF StartHolds, Holds
  <2> QED
    BY <1>0, <1>1, <1>10, <2>1, <2>3, <2>4 DEF LaneInv, ExecKind, CaptureHolds
<1>8. LockInv'
  BY <1>0, <1>3, <1>6, CommandKept DEF LockInv
<1>9. RecordsOK'
  BY DEF OpenSucceeds, RecordsOK, Quiet, queueVars, agentVars
<1> QED
  BY <1>4, <1>6, <1>7, <1>8, <1>9

(* finalizeRootRun. *)
LEMMA FinalizeKeeps ==
    ASSUME MessagesInv, NEW r \in Msg, NEW a \in Attempt, Finalize(r, a)
    PROVE  MessagesInv'
<1> USE DEF MessagesInv
<1>1. Turn(r, a) \in Over /\ Turn(r, a) # "none"
  BY DEF Finalize, RowInv, EndedIsOver, Over
<1>2. /\ exec' = exec /\ queue' = queue /\ held' = held /\ sent' = sent
      /\ delivered' = delivered /\ confirmed' = confirmed /\ dropped' = dropped
      /\ cmd' = cmd /\ ended' \subseteq ended
      /\ asked' = asked /\ stopped' = stopped /\ last' = last /\ forgone' = forgone
      /\ late' = late /\ acts' = acts
  BY DEF Finalize, Quiet, queueVars, agentVars
<1>e. PICK e : e = Effect("capture", r, 0, NoMsg)
  OBVIOUS
<1>3. e \in LaneEffect /\ e.type = "capture" /\ e.run = r
  BY <1>e, AttemptZero DEF Effect, LaneEffect
<1>4. lane' = lane \/ lane' = Append(lane, e)
  BY <1>e, CaptureAppended DEF Finalize, LaneOK
<1>5. /\ lane' \in Seq(LaneEffect) /\ OneSteer' /\ Effects' \subseteq Effects \cup {e}
      /\ lane # << >> => lane' # << >> /\ Head(lane') = Head(lane)
  <2>1. CASE lane' = lane
    BY <2>1 DEF LaneOK, MessageInv, OneSteer, Effects
  <2>2. CASE lane' = Append(lane, e)
    BY <1>3, <2>2, LaneAppended DEF LaneOK, MessageInv, OneSteer, Effects
  <2> QED
    BY <1>4, <2>1, <2>2
<1>6. LaneOK'
  BY <1>2, <1>5 DEF LaneOK
<1>7. captured' \subseteq captured \cup {r}
  BY DEF Finalize
<1>8. CASE run' = run /\ lane' = lane /\ ends' = ends
  <2>1. Effects' = Effects
    BY <1>8 DEF Effects
  <2>2. /\ Rows' /\ RowInv' /\ MessageInv' /\ SameSt /\ SameCur /\ SameText /\ SameTurn
        /\ LaneInv'
    BY <1>2, <1>5, <1>6, <1>8, <2>1, Unmoved
  <2>3. QueueOK' /\ KindOK'
    BY <1>2, <1>8, StatusesStill DEF QueueOK, KindOK
  <2>4. CopyInv'
    <3>1. \A q \in Msg : St(q)' = St(q) /\ Cur(q)' = Cur(q)
      BY <2>2 DEF SameSt, SameCur
    <3>2. \A q \in Msg, b \in Attempt : Turn(q, b)' = Turn(q, b)
      BY <2>2 DEF SameTurn
    <3> QED
      BY <1>2, <2>2, <3>1, <3>2, CopyKept DEF LockInv
  <2>5. LockInv'
    BY <1>2, <1>8, <2>4, CommandKept DEF LockInv
  <2>6. RecordsOK'
    BY <1>2, <1>7, <1>8 DEF RecordsOK
  <2> QED
    BY <1>6, <2>2, <2>3, <2>5, <2>6
<1>9. ASSUME NEW s \in {"waiting", "interrupted", "failed"}, IsCurrent(r, a, "running"),
             s = "waiting" => Turn(r, a) = "completed",
             run' = [run EXCEPT ![r].st = s], ends' \in Seq([run : Msg, st : Terminal])
      PROVE  MessagesInv'
  <2>1. St(r) = "running" /\ Cur(r) = a
    BY <1>9 DEF IsCurrent, St, Cur
  <2>2. /\ Rows' /\ QueueOK' /\ KindOK' /\ RowInv' /\ MessageInv' /\ CopyInv'
        /\ SetsSt(r, s) /\ SameCur /\ SameTurn
        /\ \A q \in Msg : Begun(q)' <=> Begun(q)
    BY <1>2, <1>3, <1>5, <1>9, <2>1, RunMoves
  <2>3. LaneInv'
    <3>1. \A d \in Effects' : d \in Effects \/ EffectTyped(d)'
      BY <1>1, <1>3, <1>5, <2>2 DEF EffectTyped, Begun
    <3>2. \A q \in Msg, b \in Attempt, x \in {"starting", "running"} :
            Holds(q, b, x) => Holds(q, b, x)'
      BY <1>1, <2>1, <2>2 DEF Holds, SetsSt, SameCur, SameTurn
    <3> QED
      BY <1>2, <1>5, <1>6, <2>2, <3>1, <3>2, LaneKept DEF SameTurn
  <2>4. LockInv'
    <3>1. exec.pc \in {"follow", "settle"} => lane # << >>
      BY DEF LaneInv, ExecKind
    <3> QED
      BY <1>2, <1>5, <2>2, <3>1, CommandKept DEF LockInv
  <2>5. RecordsOK'
    BY <1>2, <1>7, <1>9 DEF RecordsOK
  <2> QED
    BY <1>6, <2>2, <2>3, <2>4, <2>5
<1>10. CASE IsCurrent(r, a, "running")
  <2>1. CASE Turn(r, a) = "completed"
    <3>1. run' = [run EXCEPT ![r].st = "waiting"] /\ ends' = ends
      BY <1>10, <2>1 DEF Finalize, SetStatus, Turn
    <3> QED
      BY <1>9, <1>10, <2>1, <3>1 DEF RecordsOK
  <2>2. CASE Turn(r, a) \in {"interrupted", "failed"}
    <3> DEFINE t == Turn(r, a)
    <3>1. run' = [run EXCEPT ![r].st = t] /\ ends' = Ended(r, t)
      BY <1>10, <2>2 DEF Finalize, SetStatus, Turn
    <3>2. ends' \in Seq([run : Msg, st : Terminal])
      BY <2>2, <3>1 DEF Ended, RecordsOK, Terminal
    <3> QED
      BY <1>9, <1>10, <2>2, <3>1, <3>2
  <2> QED
    BY <1>1, <2>1, <2>2 DEF Over
<1> QED
  BY <1>8, <1>10 DEF Finalize

-----------------------------------------------------------------------------
(* The agent takes the text. *)
LEMMA CallSucceedsKeeps == ASSUME MessagesInv, CallSucceeds PROVE MessagesInv'
<1> USE DEF MessagesInv
<1>r. PICK r : r = Current.run
  OBVIOUS
<1>a. PICK a : a = exec.att
  OBVIOUS
<1>t. PICK t : t = Text(r, a)
  OBVIOUS
<1>0. lane # << >> /\ exec.pc = "send" /\ Current.type \in Startup
  BY DEF CallSucceeds, Executing
<1>1. r \in Msg /\ a \in Attempt /\ St(r) = "running" /\ Cur(r) = a /\ Turn(r, a) = "none"
  BY <1>r, <1>a, <1>0, CurrentEffect DEF LaneInv, ExecKind, StartHolds, Holds
<1>2. t \in Msg /\ t # NoMsg /\ t \notin confirmed /\ t \in sent /\ r \in sent
  <2>1. t \in Msg /\ t # NoMsg
    BY <1>t, <1>1, MessagesAssumption DEF RowInv, ActiveRowOK, Live
  <2>2. Unsent(r)
    BY <1>1 DEF Unsent
  <2> QED
    BY <1>t, <1>1, <2>1, <2>2 DEF MessageInv, UnsentIsUnconfirmed, TextIsSent, UnsentIsNew
<1>3. /\ run' = [run EXCEPT ![r].turn[a] = "accepted"]
      /\ delivered' = [delivered EXCEPT ![t] = @ + 1] /\ confirmed' = confirmed \cup {t}
      /\ lane' = Tail(lane) /\ exec' = Resting /\ cmd' = cmd /\ sent' = sent
      /\ queue' = queue /\ held' = held /\ ended' = ended
  BY <1>r, <1>a, <1>t DEF CallSucceeds, Delivers, SetTurn, Settled, Quiet, queueVars, Text
<1>4. /\ lane' \in Seq(LaneEffect) /\ OneSteer' /\ Effects' \subseteq Effects
  BY <1>0, <1>3, LanePopped DEF LaneInv, MessageInv, OneSteer, Effects
<1>5. LaneOK'
  BY <1>3, <1>4, RestingTyped DEF LaneOK
<1>6. Rows' /\ SameSt /\ SameCur /\ SameText /\ SetsTurn(r, a, "accepted")
  BY <1>1, <1>3, TurnWritten DEF TurnStatus
<1>7. \A q \in Msg : /\ q # r => (Begun(q)' <=> Begun(q))
                     /\ Begun(q) => Begun(q)'
  BY <1>6 DEF Begun, SetsTurn
<1>8. \A q \in Msg : St(q) \in Live => Cur(q) \in Attempt
  BY DEF RowInv, ActiveRowOK
<1>9. RowInv'
  <2>1. ActiveRowOK'
    <3>1. \A b \in Attempt : b > a => b # a
      BY <1>1 DEF Attempt
    <3> QED
      BY <1>1, <1>6, <1>8, <3>1 DEF RowInv, ActiveRowOK, SameSt, SameCur, SameText, SetsTurn
  <2>2. StartingIsUnsent'
    BY <1>1, <1>6, <1>8 DEF RowInv, StartingIsUnsent, SameSt, SameCur, SetsTurn, Live
  <2>3. SettledInv'
    BY <1>1, <1>6 DEF RowInv, SettledInv, SameSt, SameCur, SetsTurn
  <2>4. EndedIsOver'
    BY <1>1, <1>3, <1>6 DEF RowInv, EndedIsOver, SetsTurn, Over
  <2> QED
    BY <2>1, <2>2, <2>3, <2>4 DEF RowInv
<1>10. /\ delivered' \in [Msg -> Nat] /\ confirmed' \subseteq Msg
       /\ \A q \in Msg : q # t => (q \in confirmed' <=> q \in confirmed)
  BY <1>2, <1>3 DEF RecordsOK
<1>11. \A q \in Msg, b \in Attempt : Text(q, b) = t => q = r /\ b = a
  BY <1>t, <1>1, <1>2 DEF MessageInv, OneText
<1>12. MessageInv'
  <2> USE DEF MessageInv
  <2>1. UnsentIsNew'
    BY <1>2, <1>3, <1>6, <1>7, <1>10 DEF UnsentIsNew, SameSt
  <2>2. QueuedIsNew'
    <3>1. 1 \in Attempt
      BY BoundsAssumption DEF Attempt
    <3> SUFFICES ASSUME NEW q \in Msg, St(q)' = "queued"
                 PROVE  /\ q \in sent' /\ q \notin confirmed' /\ ~Begun(q)' /\ Cur(q)' = 1
                        /\ Text(q, 1)' = q
      BY DEF QueuedIsNew
    <3>2. /\ St(q) = "queued" /\ q # r /\ q \in sent /\ q \notin confirmed /\ ~Begun(q)
          /\ Cur(q) = 1 /\ Text(q, 1) = q
      BY <1>1, <1>6 DEF QueuedIsNew, SameSt
    <3>3. q # t
      BY <1>11, <3>1, <3>2
    <3> QED
      BY <1>3, <1>6, <1>7, <1>10, <3>1, <3>2, <3>3 DEF SameCur, SameText
  <2>3. SteerIsNew'
    <3>1. ASSUME NEW q \in Msg, NewToAgent(q) PROVE NewToAgent(q)'
      <4>1. q # r /\ q # t
        BY <1>t, <1>1, <3>1 DEF NewToAgent
      <4> QED
        BY <1>3, <1>6, <1>7, <1>10, <3>1, <4>1 DEF NewToAgent, SameSt, SameText
    <3> QED
      BY <1>4, <3>1 DEF SteerIsNew, LaneInv, EffectsTyped, EffectTyped
  <2>4. UnsentIsUnconfirmed'
    <3> SUFFICES ASSUME NEW q \in Msg, Unsent(q)' PROVE Text(q, Cur(q))' \notin confirmed'
      BY DEF UnsentIsUnconfirmed
    <3>1. St(q) \in Live /\ St(q)' = St(q) /\ Cur(q)' = Cur(q) /\ Cur(q) \in Attempt
      BY <1>6, <1>8 DEF Unsent, SameSt, SameCur, Live
    <3>2. q # r
      BY <1>1, <1>6, <3>1 DEF Unsent, SetsTurn
    <3>3. Unsent(q)
      BY <1>6, <3>1, <3>2 DEF Unsent, SetsTurn
    <3>4. /\ Text(q, Cur(q)) \in Msg /\ Text(q, Cur(q)) # t
          /\ Text(q, Cur(q))' = Text(q, Cur(q))
      BY <1>6, <1>11, <3>1, <3>2 DEF RowInv, ActiveRowOK, SameText
    <3> QED
      BY <1>10, <3>3, <3>4 DEF UnsentIsUnconfirmed
  <2>5. TextIsSent' /\ OneText'
    BY <1>3, <1>6 DEF TextIsSent, OneText, SameText
  <2> QED
    BY <1>4, <2>1, <2>2, <2>3, <2>4, <2>5
<1>13. LaneInv'
  BY <1>3, <1>4, <1>5, <1>7, RestingTyped, LaneRests
<1>14. LockInv'
  <2>1. \A q \in Msg : St(q)' = St(q) /\ Cur(q)' = Cur(q)
    BY <1>6 DEF SameSt, SameCur
  <2>2. \A q \in Msg, b \in Attempt :
            /\ Turn(q, b) # "none" => Turn(q, b)' # "none"
            /\ Turn(q, b)' # "none" => Turn(q, b) # "none" \/ (St(q) \in Live /\ Cur(q) = b)
    BY <1>1, <1>6 DEF SetsTurn, Live
  <2>3. CopyInv'
    BY <1>3, <1>6, <2>1, <2>2, CopyKept DEF LockInv
  <2> QED
    BY <1>0, <1>3, <2>3, CommandKept DEF LockInv
<1>15. QueueOK' /\ KindOK'
  BY <1>3, <1>6, QueueKept DEF QueueOK, KindOK, SameSt
<1>16. RecordsOK'
  BY <1>10 DEF CallSucceeds, RecordsOK, Quiet, queueVars, agentVars
<1> QED
  BY <1>5, <1>6, <1>9, <1>12, <1>13, <1>14, <1>15, <1>16

-----------------------------------------------------------------------------
(* Turns that the agent was asked for. *)
LEMMA TurnMoves ==
    ASSUME MessagesInv, NEW r \in Msg, NEW a \in Attempt, Turn(r, a) \in {"accepted", "running"},
           NEW t \in {"running"} \cup Over, run' = [run EXCEPT ![r].turn[a] = t],
           ended' \subseteq ended \/ (ended' \subseteq ended \cup {<<r, a>>} /\ t \in Over),
           UNCHANGED <<lane, exec, captured, ends, agentVars, forgone>>, asked' = asked, Quiet
    PROVE  MessagesInv'
<1> USE DEF MessagesInv
<1>1. Rows' /\ SameSt /\ SameCur /\ SameText /\ SetsTurn(r, a, t)
  BY TurnWritten DEF TurnStatus, Over
<1>2. cmd' = cmd /\ sent' = sent /\ queue' = queue /\ held' = held
  BY DEF Quiet, queueVars, agentVars
<1>3. /\ LaneOK' /\ OneSteer' /\ Effects' = Effects
  BY DEF LaneOK, MessageInv, OneSteer, Effects
<1>4. t # "none"
  BY DEF Over
<1>5. \A q \in Msg : Begun(q)' <=> Begun(q)
  BY <1>1, <1>4 DEF Begun, SetsTurn
<1>6. \A q \in Msg : St(q) \in Live => Cur(q) \in Attempt
  BY DEF RowInv, ActiveRowOK
<1>7. RowInv'
  <2>1. ActiveRowOK'
    BY <1>1, <1>6 DEF RowInv, ActiveRowOK, SameSt, SameCur, SameText, SetsTurn
  <2>2. StartingIsUnsent'
    BY <1>1, <1>6 DEF RowInv, StartingIsUnsent, SameSt, SameCur, SetsTurn, Live
  <2>3. SettledInv'
    BY <1>1 DEF RowInv, SettledInv, SameSt, SameCur, SetsTurn
  <2>4. EndedIsOver'
    BY <1>1 DEF RowInv, EndedIsOver, SetsTurn, Over
  <2> QED
    BY <2>1, <2>2, <2>3, <2>4 DEF RowInv
<1>8. MessageInv'
  <2>1. \A q \in Msg : Unsent(q)' => Unsent(q) /\ Cur(q)' = Cur(q)
    <3> SUFFICES ASSUME NEW q \in Msg, Unsent(q)' PROVE Unsent(q) /\ Cur(q)' = Cur(q)
      OBVIOUS
    <3>1. St(q) \in Live /\ St(q)' = St(q) /\ Cur(q)' = Cur(q) /\ Cur(q) \in Attempt
      BY <1>1, <1>6 DEF Unsent, SameSt, SameCur, Live
    <3> QED
      BY <1>1, <1>4, <3>1 DEF Unsent, SetsTurn
  <2>2. \A e \in Effects' : e.type = "steer" => e \in Effects /\ e.msg \in Msg
    BY <1>3 DEF LaneInv, EffectsTyped, EffectTyped
  <2> QED
    BY <1>1, <1>2, <1>3, <1>5, <2>1, <2>2, MessagesKept DEF SameSt, SameCur, agentVars
<1>9. LaneInv'
  <2>1. \A q \in Msg, b \in Attempt, x \in {"starting", "running"} :
            Holds(q, b, x) => Holds(q, b, x)'
    BY <1>1 DEF Holds, SameSt, SameCur, SetsTurn
  <2>2. \A q \in Msg, b \in Attempt : Turn(q, b) = "completed" => Turn(q, b)' = "completed"
    BY <1>1 DEF SetsTurn
  <2> QED
    BY <1>3, <1>5, <2>1, <2>2, LaneKept
<1>10. LockInv'
  <2>1. \A q \in Msg : St(q)' = St(q) /\ Cur(q)' = Cur(q)
    BY <1>1 DEF SameSt, SameCur
  <2>2. \A q \in Msg, b \in Attempt : Turn(q, b) # "none" <=> Turn(q, b)' # "none"
    BY <1>1, <1>4 DEF SetsTurn
  <2>3. CopyInv'
    BY <1>1, <1>2, <2>1, <2>2, CopyKept DEF LockInv
  <2> QED
    BY <1>2, <2>3, CommandKept DEF LockInv
<1>11. QueueOK' /\ KindOK'
  BY <1>1, <1>2, QueueKept DEF QueueOK, KindOK, SameSt
<1>12. RecordsOK'
  BY <1>2 DEF RecordsOK, Quiet, queueVars, agentVars
<1> QED
  BY <1>1, <1>3, <1>7, <1>8, <1>9, <1>10, <1>11, <1>12

LEMMA ProviderKeeps ==
    ASSUME MessagesInv, NEW r \in Msg, NEW a \in Attempt, TurnRow(r, a) \/ TurnEnds(r, a)
    PROVE  MessagesInv'
<1>1. CASE TurnRow(r, a)
  BY <1>1, TurnMoves DEF TurnRow, SetTurn, effectVars, Turn
<1>2. CASE TurnEnds(r, a)
  <2>1. PICK t \in Over : run' = [run EXCEPT ![r].turn[a] = t]
    BY <1>2 DEF TurnEnds, SetTurn, Over
  <2> QED
    BY <1>2, <2>1, TurnMoves DEF TurnEnds, effectVars, Turn
<1> QED
  BY <1>1, <1>2

-----------------------------------------------------------------------------
(* The run ends in another way, or is given its checkpoint. *)
LEMMA RunCloses ==
    ASSUME MessagesInv, NEW r \in Msg, NEW s \in {"completed", "interrupted"},
           St(r) \notin {"none", "cancelled", "queued"} \/ Begun(r),
           Rows', SetsSt(r, s), \A q \in Msg : q # r => Cur(q)' = Cur(q),
           s = "completed" => Cur(r)' \in Attempt /\ Turn(r, Cur(r))' = "completed",
           SameText,
           \A q \in Msg, b \in Attempt : q # r => Turn(q, b)' = Turn(q, b),
           \A b \in Attempt : Turn(r, b)' = Turn(r, b) \/
                (Turn(r, b) # "none" /\ Turn(r, b)' = "interrupted"),
           ended' = ended, queue' = queue, held' = held, sent' = sent, confirmed' = confirmed,
           OneSteer', \A e \in Effects' : e.type = "steer" => e \in Effects
    PROVE  /\ QueueOK' /\ RowInv' /\ MessageInv'
           /\ cmd' = cmd => CopyInv'
           /\ \A q \in Msg : Begun(q)' <=> Begun(q)
<1> USE DEF MessagesInv
<1>1. \A q \in Msg : Begun(q)' <=> Begun(q)
  BY DEF Begun
<1>2. \A q \in Msg : St(q) \in Live => Cur(q) \in Attempt
  BY DEF RowInv, ActiveRowOK
<1>3. \A q \in Msg : St(q)' \in Live => q # r /\ St(q)' = St(q) /\ Cur(q)' = Cur(q)
  BY DEF SetsSt, Live
<1>4. RowInv'
  <2>1. ActiveRowOK'
    BY <1>2, <1>3 DEF RowInv, ActiveRowOK, SameText
  <2>2. StartingIsUnsent'
    BY <1>2, <1>3 DEF RowInv, StartingIsUnsent, Live
  <2>3. SettledInv'
    BY DEF RowInv, SettledInv, SetsSt
  <2>4. EndedIsOver'
    <3> SUFFICES ASSUME NEW q \in Msg, NEW b \in Attempt, <<q, b>> \in ended'
                 PROVE  Turn(q, b)' \in Over
      BY DEF EndedIsOver
    <3>1. Turn(q, b) \in Over
      BY DEF RowInv, EndedIsOver
    <3>2. Turn(q, b)' = Turn(q, b) \/ Turn(q, b)' = "interrupted"
      BY <3>1
    <3> QED
      BY <3>1, <3>2 DEF Over
  <2> QED
    BY <2>1, <2>2, <2>3, <2>4 DEF RowInv
<1>5. St(r) # "queued"
  BY DEF MessageInv, QueuedIsNew
<1>6. MessageInv'
  <2>1. \A q \in Msg : Unsent(q)' => Unsent(q) /\ Cur(q)' = Cur(q)
    <3> SUFFICES ASSUME NEW q \in Msg, Unsent(q)' PROVE Unsent(q) /\ Cur(q)' = Cur(q)
      OBVIOUS
    <3>1. St(q)' \in Live
      BY DEF Unsent, Live
    <3>2. /\ q # r /\ St(q)' = St(q) /\ Cur(q)' = Cur(q) /\ Cur(q) \in Attempt
          /\ \A b \in Attempt : Turn(q, b)' = Turn(q, b)
      BY <1>2, <1>3, <3>1
    <3> QED
      BY <3>2 DEF Unsent
  <2>2. \A e \in Effects' : e.type = "steer" => e \in Effects /\ e.msg \in Msg
    BY DEF LaneInv, EffectsTyped, EffectTyped
  <2>3. \A q \in Msg : /\ St(q) \in {"none", "cancelled"} /\ ~Begun(q) => St(q)' = St(q)
                       /\ St(q)' = "queued" => St(q) = "queued" /\ Cur(q)' = Cur(q)
    BY DEF SetsSt
  <2> QED
    BY <1>1, <2>1, <2>2, <2>3, MessagesKept
<1>7. cmd' = cmd => CopyInv'
  <2>1. \A q \in Msg : St(q) \in Live \cup Over => St(q)' \in Live \cup Over
    BY DEF SetsSt, Live, Over
  <2>2. \A q \in Msg, b \in Attempt : Turn(q, b)' # "none" <=> Turn(q, b) # "none"
    OBVIOUS
  <2>3. \A q \in Msg : St(q)' \in Live => St(q) \in Live /\ Cur(q)' = Cur(q)
    BY <1>3
  <2> QED
    BY <2>1, <2>2, <2>3, CopyKept DEF LockInv
<1>8. QueueOK'
  BY <1>5, QueueKept DEF QueueOK, SetsSt
<1> QED
  BY <1>1, <1>4, <1>6, <1>7, <1>8

LEMMA CaptureCommitsKeeps == ASSUME MessagesInv, CaptureCommits PROVE MessagesInv'
<1> USE DEF MessagesInv
<1>r. PICK r : r = Current.run
  OBVIOUS
<1>a. PICK a : a = exec.att
  OBVIOUS
<1>0. /\ lane # << >> /\ exec.pc \in {"capture", "stamp"} /\ Current.type = "capture"
      /\ r \in Msg /\ a \in 0 .. MaxAttempts /\ Begun(r)
  <2>1. lane # << >> /\ exec.pc \in {"capture", "stamp"} /\ Current.type = "capture"
    BY DEF CaptureCommits, Executing
  <2>2. Current \in Effects /\ r \in Msg
    BY <1>r, <2>1, CurrentEffect
  <2> QED
    BY <1>r, <1>a, <2>1, <2>2 DEF LaneInv, EffectsTyped, EffectTyped, LaneOK, ExecType
<1>s. PICK s \in {"completed", "interrupted"} :
        s = IF exec.pc = "capture" THEN "completed" ELSE "interrupted"
  OBVIOUS
<1>1. /\ run' = [run EXCEPT ![r].st = s, ![r].cur = a] /\ ends' = Ended(r, s)
      /\ lane' = Tail(lane) /\ exec' = Resting /\ cmd' = cmd /\ sent' = sent /\ queue' = queue
      /\ held' = held /\ ended' = ended /\ delivered' = delivered /\ confirmed' = confirmed
  BY <1>r, <1>a, <1>s DEF CaptureCommits, Settled, Quiet, queueVars, agentVars
<1>2. Rows' /\ SetsSt(r, s) /\ SetsCur(r, a) /\ SameText /\ SameTurn
  BY <1>0, <1>1, StCurWritten DEF RunStatus, Terminal
<1>3. s = "completed" => a \in Attempt /\ Turn(r, a) = "completed"
  BY <1>r, <1>a, <1>s DEF LaneInv, ExecKind, CaptureHolds
<1>4. /\ lane' \in Seq(LaneEffect) /\ OneSteer' /\ Effects' \subseteq Effects
  BY <1>0, <1>1, LanePopped DEF LaneInv, MessageInv, OneSteer, Effects
<1>5. s = "completed" => Cur(r)' \in Attempt /\ Turn(r, Cur(r))' = "completed"
  BY <1>0, <1>2, <1>3 DEF SetsCur, SameTurn
<1>6. /\ QueueOK' /\ RowInv' /\ MessageInv' /\ CopyInv'
      /\ \A q \in Msg : Begun(q)' <=> Begun(q)
  <2>1. \A q \in Msg, b \in Attempt : Turn(q, b)' = Turn(q, b)
    BY <1>2 DEF SameTurn
  <2>2. \A q \in Msg : q # r => Cur(q)' = Cur(q)
    BY <1>2 DEF SetsCur
  <2> QED
    BY <1>0, <1>1, <1>2, <1>4, <1>5, <2>1, <2>2, RunCloses
<1>7. LaneOK'
  BY <1>1, <1>4, RestingTyped DEF LaneOK
<1>8. LaneInv'
  BY <1>1, <1>4, <1>6, <1>7, RestingTyped, LaneRests
<1>9. LockInv' /\ KindOK'
  BY <1>0, <1>1, <1>6, CommandKept DEF LockInv, KindOK
<1>10. RecordsOK'
  <2>1. ends' \in Seq([run : Msg, st : Terminal])
    BY <1>0, <1>1 DEF Ended, RecordsOK, Terminal
  <2> QED
    BY <2>1 DEF CaptureCommits, RecordsOK, Quiet, queueVars, agentVars
<1> QED
  BY <1>2, <1>6, <1>7, <1>8, <1>9, <1>10

LEMMA SettleRunKeeps == ASSUME MessagesInv, SettleInterruptedRun PROVE MessagesInv'
<1> USE DEF MessagesInv
<1>r. PICK r : r = cmd.msg
  OBVIOUS
<1>a. PICK a : a = exec.att
  OBVIOUS
<1>0. /\ cmd # NoCommand /\ exec.pc = "settle" /\ lane # << >> /\ r \in Msg /\ a \in Attempt
  BY <1>r, <1>a, CommandTaken, CurrentEffect DEF SettleInterruptedRun, LockInv, CommandInv,
     LaneInv, ExecKind
<1>1. /\ exec' = Resting /\ cmd' = NoCommand /\ sent' = sent /\ queue' = queue
      /\ held' = held /\ ended' = ended /\ delivered' = delivered /\ confirmed' = confirmed
      /\ asked' = asked /\ last' = last /\ stopped' = stopped /\ forgone' = forgone
      /\ dropped' = dropped /\ late' = late /\ acts' = acts
  BY DEF SettleInterruptedRun, queueVars, histVars, agentVars
<1>e. PICK e : e = Effect("capture", r, 0, NoMsg)
  OBVIOUS
<1>2. e \in LaneEffect /\ e.type = "capture" /\ e.run = r
  BY <1>0, <1>e, AttemptZero DEF Effect, LaneEffect
<1>3. /\ Tail(lane) \in Seq(LaneEffect) /\ ToSet(Tail(lane)) \subseteq Effects
      /\ OneSteerIn(Tail(lane))
  BY <1>0, LanePopped DEF LaneInv, MessageInv
<1>4. lane' = Tail(lane) \/ lane' = Append(Tail(lane), e)
  BY <1>r, <1>e, <1>3, CaptureAppended DEF SettleInterruptedRun
<1>5. /\ lane' \in Seq(LaneEffect) /\ OneSteer' /\ Effects' \subseteq Effects \cup {e}
  <2>1. CASE lane' = Tail(lane)
    BY <1>3, <2>1 DEF OneSteer, Effects
  <2>2. CASE lane' = Append(Tail(lane), e)
    <3> DEFINE s == Tail(lane)
    <3>1. s \in Seq(LaneEffect) /\ OneSteerIn(s) /\ lane' = Append(s, e)
          /\ ToSet(s) \subseteq Effects
      BY <1>3, <2>2
    <3> HIDE DEF s
    <3> QED
      BY <1>2, <3>1, LaneAppended DEF OneSteer, Effects
  <2> QED
    BY <1>4, <2>1, <2>2
<1>6. LaneOK'
  BY <1>1, <1>5, RestingTyped DEF LaneOK
<1>7. CASE run' = run /\ lane' = Tail(lane) /\ ends' = ends /\ captured' = captured
  <2>1. Effects' \subseteq Effects
    BY <1>3, <1>7 DEF Effects
  <2>2. Rows' /\ RowInv' /\ MessageInv' /\ LaneInv'
    BY <1>1, <1>5, <1>6, <1>7, <2>1, RestingTyped, Unmoved
  <2>3. QueueOK'
    BY <1>1, <1>7, StatusesStill DEF QueueOK
  <2>4. RecordsOK'
    BY <1>1, <1>7 DEF RecordsOK
  <2> QED
    BY <1>1, <1>6, <2>2, <2>3, <2>4, LockFreed
<1>8. ASSUME cmd.copy[r].st = "running", cmd.copy[r].turn[a] # "none",
             NEW t, t = IF cmd.copy[r].turn[a] = "running" THEN "interrupted" ELSE Turn(r, a),
             run' = [run EXCEPT ![r].st = "interrupted", ![r].turn[a] = t],
             ends' = Ended(r, "interrupted"), captured' = captured \cup {r}
      PROVE  MessagesInv'
  <2>1. St(r) \in Live \cup Over /\ Turn(r, a) # "none" /\ Turn(r, a) \in TurnStatus
    BY <1>0, <1>8, RowTypes DEF LockInv, CopyInv, Copied, Live
  <2>2. t = "interrupted" \/ t = Turn(r, a)
    BY <1>8
  <2>3. Rows' /\ SetsSt(r, "interrupted") /\ SameCur /\ SameText /\ SetsTurn(r, a, t)
    BY <1>0, <1>8, <2>1, <2>2, StTurnWritten DEF RunStatus, Terminal, TurnStatus
  <2>4. /\ QueueOK' /\ RowInv' /\ MessageInv'
        /\ \A q \in Msg : Begun(q)' <=> Begun(q)
    <3>1. \A e2 \in Effects' : e2.type = "steer" => e2 \in Effects
      BY <1>2, <1>5
    <3>2. \A q \in Msg : q # r => Cur(q)' = Cur(q)
      BY <2>3 DEF SameCur
    <3>3. \A q \in Msg, b \in Attempt : q # r => Turn(q, b)' = Turn(q, b)
      BY <2>3 DEF SetsTurn
    <3>4. \A b \in Attempt : Turn(r, b)' = Turn(r, b) \/
                (Turn(r, b) # "none" /\ Turn(r, b)' = "interrupted")
      BY <1>0, <2>1, <2>2, <2>3 DEF SetsTurn
    <3>5. St(r) \notin {"none", "cancelled", "queued"}
      BY <2>1 DEF Live, Over
    <3> QED
      BY <1>0, <1>1, <1>5, <2>3, <3>1, <3>2, <3>3, <3>4, <3>5, RunCloses
  <2>5. LaneInv'
    <3>1. Begun(r)
      BY <1>0, <2>1 DEF Begun
    <3>2. \A d \in Effects' : d \in Effects \/ EffectTyped(d)'
      BY <1>0, <1>2, <1>5, <2>4, <3>1 DEF EffectTyped
    <3> QED
      BY <1>1, <1>6, <2>4, <3>2, RestingTyped, LaneRests
  <2>6. RecordsOK'
    <3>1. ends' \in Seq([run : Msg, st : Terminal])
      BY <1>0, <1>8 DEF Ended, RecordsOK, Terminal
    <3> QED
      BY <1>0, <1>1, <1>8, <3>1 DEF RecordsOK
  <2> QED
    BY <1>1, <1>6, <2>3, <2>4, <2>5, <2>6, LockFreed
<1>9. CASE cmd.copy[r].cur = a /\ cmd.copy[r].st = "running" /\ cmd.copy[r].turn[a] # "none"
  <2>1. /\ run' = [run EXCEPT ![r].st = "interrupted",
               ![r].turn[a] = IF cmd.copy[r].turn[a] = "running" THEN "interrupted" ELSE @]
        /\ ends' = Ended(r, "interrupted") /\ captured' = captured \cup {r}
    BY <1>r, <1>a, <1>9 DEF SettleInterruptedRun
  <2>2. PICK t : t = IF cmd.copy[r].turn[a] = "running" THEN "interrupted" ELSE Turn(r, a)
    OBVIOUS
  <2>3. run' = [run EXCEPT ![r].st = "interrupted", ![r].turn[a] = t]
    BY <1>0, <2>1, <2>2 DEF Rows, RunRow, Turn
  <2> QED
    BY <1>8, <1>9, <2>1, <2>2, <2>3
<1>10. CASE ~(cmd.copy[r].cur = a /\ cmd.copy[r].st = "running" /\ cmd.copy[r].turn[a] # "none")
  BY <1>r, <1>a, <1>7, <1>10 DEF SettleInterruptedRun
<1> QED
  BY <1>9, <1>10

-----------------------------------------------------------------------------
LEMMA EffectStepKeeps == ASSUME MessagesInv, EffectStep PROVE MessagesInv'
<1>1. CASE BeginStart \/ BeginRestart \/ RestartGoesOn \/ CheckBeforeCall \/ BeginInterrupt
  BY <1>1, QuietEffectKeeps
<1>2. CASE OpenFails \/ OpenSucceeds
  BY <1>2, OpenFailsKeeps, OpenSucceedsKeeps
<1>3. CASE CallFails \/ CallSucceeds
  BY <1>3, StartFailsKeeps, CallSucceedsKeeps DEF CallFails, Executing
<1>4. CASE LoadSteer \/ SteerSucceeds \/ SteerFails \/ FollowUp \/ FollowUpFails
  BY <1>4, LoadSteerKeeps, SteerSucceedsKeeps, SteerFailsKeeps, FollowUpKeeps, FollowUpFailsKeeps
<1>5. CASE SettleInterrupt \/ SettleInterruptedRun \/ CaptureReads \/ CaptureCommits
  BY <1>5, SettleInterruptKeeps, SettleRunKeeps, CaptureReadsKeeps, CaptureCommitsKeeps
<1> QED
  BY <1>1, <1>2, <1>3, <1>4, <1>5 DEF EffectStep

LEMMA InitMessages == Init => MessagesInv
<1> SUFFICES ASSUME Init PROVE MessagesInv
  OBVIOUS
<1>1. 0 \in 0 .. MaxAttempts /\ 0 \in 0 .. MaxActs /\ 1 \in Attempt
  BY BoundsAssumption DEF Attempt
<1>2. NoRun \in RunRow /\ NoRun.st = "none" /\ NoRun.cur = 0
      /\ \A a \in Attempt : NoRun.text[a] = NoMsg /\ NoRun.turn[a] = "none"
  BY <1>1 DEF NoRun, RunRow, RunStatus, TurnStatus
<1>3. /\ \A m \in Msg : St(m) = "none" /\ ~Begun(m) /\ ~Unsent(m)
      /\ \A m \in Msg, a \in Attempt : Text(m, a) = NoMsg /\ Turn(m, a) = "none"
  BY <1>2 DEF Init, St, Begun, Unsent, Text, Turn
<1>4. Effects = {} /\ Resting.pc = "idle" /\ NoCommand.kind = "none"
  BY DEF Init, Effects, ToSet, Resting, NoCommand
<1>5. Rows
  BY <1>2 DEF Init, Rows
<1>6. QueueOK /\ LaneOK /\ RecordsOK /\ KindOK
  <2>1. QueueOK
    BY <1>3 DEF Init, QueueOK, ToSet
  <2>2. LaneOK
    BY RestingTyped DEF Init, LaneOK
  <2>3. RecordsOK
    BY <1>1 DEF Init, RecordsOK
  <2> QED
    BY <1>4, <2>1, <2>2, <2>3 DEF Init, KindOK
<1>7. RowInv
  BY <1>3 DEF Init, RowInv, ActiveRowOK, StartingIsUnsent, SettledInv, EndedIsOver, Live
<1>8. MessageInv
  <2>1. \A m \in Msg : m \notin confirmed
    BY DEF Init
  <2>2. OneSteer
    BY DEF Init, OneSteer, OneSteerIn, Only
  <2> QED
    BY <1>3, <1>4, <2>1, <2>2 DEF MessageInv, UnsentIsNew, QueuedIsNew, SteerIsNew,
       UnsentIsUnconfirmed, TextIsSent, OneText
<1>9. LaneInv
  BY <1>4 DEF Init, LaneInv, EffectsTyped, ExecKind, StartHolds, CaptureHolds
<1>10. LockInv
  BY <1>4 DEF Init, LockInv, CopyInv, CommandInv, Sends, Picks
<1> QED
  BY <1>5, <1>6, <1>7, <1>8, <1>9, <1>10 DEF MessagesInv

LEMMA StillKeeps == ASSUME MessagesInv, UNCHANGED vars PROVE MessagesInv'
<1> USE DEF MessagesInv, vars
<1>1. LaneOK' /\ OneSteer' /\ Effects' = Effects /\ exec' = exec /\ lane' = lane
  BY DEF LaneOK, MessageInv, OneSteer, Effects
<1>2. /\ Rows' /\ RowInv' /\ MessageInv' /\ LaneInv'
      /\ SameSt /\ SameCur /\ SameText /\ SameTurn
  BY <1>1, Unmoved
<1>3. QueueOK' /\ RecordsOK' /\ KindOK'
  BY <1>2, StatusesStill DEF QueueOK, RecordsOK, KindOK
<1>4. CopyInv'
  <2>1. \A q \in Msg : St(q)' = St(q) /\ Cur(q)' = Cur(q)
    BY <1>2 DEF SameSt, SameCur
  <2>2. \A q \in Msg, b \in Attempt : Turn(q, b)' = Turn(q, b)
    BY <1>2 DEF SameTurn
  <2> QED
    BY <1>2, <2>1, <2>2, CopyKept DEF LockInv
<1>5. LockInv'
  BY <1>1, <1>4, CommandKept DEF LockInv
<1> QED
  BY <1>1, <1>2, <1>3, <1>5

LEMMA NextMessages == ASSUME MessagesInv, [Next]_vars PROVE MessagesInv'
<1>1. CASE \E m \in Msg : Send(m)
  BY <1>1, SendKeeps
<1>2. CASE \E r \in Msg, a \in Attempt : TurnGoesOn(r, a)
  BY <1>2, ProviderKeeps, FinalizeKeeps DEF TurnGoesOn
<1>3. CASE Commit \/ React \/ EffectStep
  BY <1>3, CommitKeeps, ReactKeeps, EffectStepKeeps
<1> QED
  BY <1>1, <1>2, <1>3, InterveneKeeps, StillKeeps DEF Next, System

(* The inductive invariant of a thread's messages: where a message that no  *)
(* call has confirmed is, it is only there, through the failures and        *)
(* repetitions of its steer; and no one but the executor of the lane moves  *)
(* a run between its start and the answer of its provider.                  *)
THEOREM MessagesInvariance == Spec => []MessagesInv
BY InitMessages, NextMessages, PTL DEF Spec

(* Queue, lane, runs and lock keep their types; a run is queued when and    *)
(* only when the queue holds it (the queue's rows and the runs' statuses    *)
(* are written together, by Orchestrator.ts).                               *)
THEOREM QueueTypes == Spec => []TypeOK
<1>1. MessagesInv => TypeOK
  BY TypeParts DEF MessagesInv
<1> QED
  BY <1>1, MessagesInvariance, PTL

(* A run waits or completes only by the end of its current attempt's turn   *)
(* (finalizeRootRun, the capture's commit).                                 *)
THEOREM SettledByOwnTurn == Spec => []SettledByItsOwnTurn
<1>1. MessagesInv => SettledByItsOwnTurn
  <2> SUFFICES ASSUME MessagesInv, NEW r \in Msg, run[r].st \in {"waiting", "completed"}
               PROVE  TurnOf(run[r]) = "completed"
    BY DEF SettledByItsOwnTurn
  <2>1. Cur(r) \in Attempt /\ Turn(r, Cur(r)) = "completed"
    BY DEF MessagesInv, RowInv, SettledInv, St
  <2>2. Cur(r) # 0
    BY <2>1 DEF Attempt
  <2> QED
    BY <2>1, <2>2 DEF TurnOf, Cur, Turn
<1> QED
  BY <1>1, MessagesInvariance, PTL

-----------------------------------------------------------------------------
(* No call gives a message that one has confirmed. *)
LEMMA DeliversNew ==
    ASSUME MessagesInv, [Next]_vars, NEW m \in confirmed
    PROVE  delivered'[m] = delivered[m]
<1> USE DEF MessagesInv
<1>0. m \in Msg /\ delivered \in [Msg -> Nat]
  BY DEF RecordsOK
<1>1. CASE CallSucceeds
  <2>1. lane # << >> /\ exec.pc = "send"
    BY <1>1 DEF CallSucceeds, Executing
  <2>r. PICK r : r = Current.run
    OBVIOUS
  <2>2. r \in Msg /\ exec.att \in Attempt /\ Holds(r, exec.att, "running")
    BY <2>1, <2>r, CurrentEffect DEF LaneInv, ExecKind, StartHolds
  <2>3. Text(r, exec.att) \in Msg /\ Unsent(r) /\ Cur(r) = exec.att
    BY <2>2 DEF Holds, RowInv, ActiveRowOK, Live, Unsent
  <2>4. Text(r, exec.att) # m
    BY <2>2, <2>3 DEF MessageInv, UnsentIsUnconfirmed
  <2>5. Delivers(Text(r, exec.att))
    BY <1>1, <2>r DEF CallSucceeds, Text
  <2> QED
    BY <1>0, <2>4, <2>5 DEF Delivers
<1>2. CASE SteerSucceeds \/ SteerFails
  <2>1. lane # << >> /\ Current.type = "steer"
    BY <1>2 DEF SteerSucceeds, SteerFails, Executing
  <2>2. Current.msg # m
    BY <2>1, SteerFacts DEF NewToAgent
  <2>3. Delivers(Current.msg) \/ delivered' = delivered
    BY <1>2 DEF SteerSucceeds, SteerFails
  <2> QED
    BY <1>0, <2>2, <2>3 DEF Delivers
<1>3. CASE UNCHANGED vars \/ React \/ Intervene \/ \E t \in Msg : Send(t)
  BY <1>3 DEF vars, React, Intervene, Send, Begin, histVars, agentVars
<1>4. CASE Commit
  BY <1>4 DEF Commit, StartAtOnce, QueueBehind, SteerActive, RestartActive, RefuseRestart,
     Promote, CancelQueued, MoveToFront, ResumeQueue, RefusePick, Refuse, StopBeforeTurn, StopTurn,
     StopIdle, histVars, agentVars
<1>5. CASE \E r \in Msg, a \in Attempt : TurnGoesOn(r, a)
  BY <1>5 DEF TurnGoesOn, TurnRow, TurnEnds, Finalize, agentVars
<1>6. CASE EffectStep /\ ~CallSucceeds /\ ~SteerSucceeds /\ ~SteerFails
  BY <1>6 DEF EffectStep, BeginStart, BeginRestart, RestartGoesOn, ReadForStart, OpenFails,
     OpenSucceeds, CheckBeforeCall, CallFails, StartFails, LoadSteer, FollowUp, FollowUpFails,
     BeginInterrupt, SettleInterrupt, Begin, SettleInterruptedRun, CaptureReads, CaptureCommits,
     histVars, agentVars
<1> QED
  BY <1>1, <1>2, <1>3, <1>4, <1>5, <1>6 DEF Next, System

(* Once a call has said that it gave the agent a message, no call gives it  *)
(* again, for any number of messages, attempts and tries, and whatever way  *)
(* the message took between the queue, steering, restarts, promotion and    *)
(* follow-ups (Orchestrator.ts, startRootRun, steer).  A call that failed   *)
(* may have given it, and is repeated: of such copies there may be several. *)
THEOREM OneDelivery == Spec => DeliveredOnce
<1>1. MessagesInv /\ [Next]_vars => [\A m \in confirmed : delivered'[m] = delivered[m]]_vars
  BY DeliversNew
<1> QED
  BY <1>1, MessagesInvariance, PTL DEF Spec, DeliveredOnce

-----------------------------------------------------------------------------
(* Where a message is that the thread has taken.                            *)
Carries(e, m) ==
    \/ e.type = "steer" /\ e.msg = m
    \/ e.type \in Startup /\ Text(e.run, Cur(e.run)) = m

Gone == forgone \cup dropped

Safe(m) ==
    m \in ToSet(queue) \/ (\E e \in Effects : Carries(e, m)) \/ delivered[m] > 0 \/ m \in Gone

(* One effect at most starts a run, and the run is its until the call has   *)
(* returned; what is captured does not run again.                           *)
Startups == {e \in LaneEffect : e.type \in Startup}
OneStartup == Only(lane, Startups)

StartupRuns == \A e \in Effects : e.type \in Startup =>
    St(e.run) = "starting" \/ (exec.pc \in {"call", "send"} /\ e = Current)

CaptureRests == exec.pc \in {"capture", "stamp"} =>
    St(Current.run) \notin {"starting", "running", "none", "queued"}

AllSafe == \A m \in sent : Safe(m)

Carried == OneStartup /\ StartupRuns /\ CaptureRests /\ AllSafe
CarriedInv == late = {} => Carried

LEMMA InLaneCarried == NothingLost <=> TypeOK /\ (late = {} => AllSafe)
BY DEF NothingLost, AllSafe, Safe, Gone, InLane, Carries, Effects, Text, Cur

LEMMA StartupIsActive ==
    ASSUME MessagesInv, StartupRuns, NEW e \in Effects, e.type \in Startup
    PROVE  /\ e.run \in Msg /\ St(e.run) \in {"starting", "running"}
           /\ e.run \in ActiveRuns(run)
           /\ Cur(e.run) \in Attempt /\ Text(e.run, Cur(e.run)) \in Msg
           /\ Turn(e.run, Cur(e.run)) = "none"
<1> USE DEF MessagesInv
<1>r. PICK r : r = e.run
  OBVIOUS
<1>1. r \in Msg
  BY <1>r, EffectsAreTyped, EffectFields
<1>2. St(r) \in {"starting", "running"} /\ (St(r) = "running" => Turn(r, Cur(r)) = "none")
  BY <1>r DEF StartupRuns, LaneInv, StartHolds, Holds
<1>3. St(r) \in Live /\ Cur(r) \in Attempt /\ Text(r, Cur(r)) \in Msg
  BY <1>1, <1>2 DEF RowInv, ActiveRowOK, Live
<1>4. Turn(r, Cur(r)) = "none"
  BY <1>1, <1>2 DEF RowInv, StartingIsUnsent
<1>5. r \in ActiveRuns(run)
  BY <1>1, <1>3 DEF ActiveRuns, St
<1> QED
  BY <1>r, <1>1, <1>2, <1>3, <1>4, <1>5

(* A step that starts nothing and drops nothing that starts a run. *)
LEMMA CarriedKept ==
    ASSUME MessagesInv, Carried, OneStartup', CaptureRests',
           \A e \in Effects' : e.type \in Startup => e \in Effects,
           \A e \in Effects : e.type \in Startup =>
                /\ e \in Effects'
                /\ St(e.run)' = St(e.run) /\ Cur(e.run)' = Cur(e.run)
                /\ \A a \in Attempt : Text(e.run, a)' = Text(e.run, a),
           exec.pc \in {"call", "send"} => exec'.pc \in {"call", "send"}
                                               /\ Head(lane') = Head(lane),
           \A e \in Effects : e.type = "steer" => e \in Effects' \/ Safe(e.msg)',
           \A m \in ToSet(queue) : m \in ToSet(queue') \/ Safe(m)',
           \A m \in sent' : m \in sent \/ Safe(m)',
           Gone \subseteq Gone', \A m \in Msg : delivered[m] > 0 => delivered'[m] > 0
    PROVE  Carried'
<1> USE DEF Carried
<1>1. StartupRuns'
  BY DEF StartupRuns, Current
<1>2. AllSafe'
  <2> SUFFICES ASSUME NEW m \in sent' PROVE Safe(m)'
    BY DEF AllSafe
  <2>1. CASE m \notin sent
    BY <2>1
  <2>2. CASE m \in sent
    <3>1. m \in Msg
      BY <2>2 DEF MessagesInv, RecordsOK
    <3>2. ASSUME NEW e \in Effects, Carries(e, m) PROVE Safe(m)'
      <4>1. CASE e.type = "steer" /\ e.msg = m
        BY <4>1 DEF Safe, Carries
      <4>2. CASE e.type \in Startup /\ Text(e.run, Cur(e.run)) = m
        <5>1. Cur(e.run) \in Attempt
          BY <4>2, StartupIsActive
        <5>2. e \in Effects' /\ Text(e.run, Cur(e.run))' = m
          BY <4>2, <5>1
        <5> QED
          BY <4>2, <5>2 DEF Safe, Carries
      <4> QED
        BY <3>2, <4>1, <4>2 DEF Carries
    <3> QED
      BY <2>2, <3>1, <3>2 DEF AllSafe, Safe
  <2> QED
    BY <2>1, <2>2
<1> QED
  BY <1>1, <1>2

(* A step that ends the effect which starts a run. *)
LEMMA StartupPopped ==
    ASSUME MessagesInv, Carried, lane # << >>, Current.type \in Startup,
           lane' = Tail(lane), exec' = Resting, queue' = queue, sent' = sent,
           NEW t, t = Text(Current.run, Cur(Current.run)), delivered'[t] > 0 \/ t \in Gone',
           Gone \subseteq Gone', \A m \in Msg : delivered[m] > 0 => delivered'[m] > 0
    PROVE  Carried'
<1> USE DEF Carried
<1>1. /\ Effects = {Current} \cup Effects' /\ OneStartup'
      /\ Effects' \cap Startups = {} /\ Effects' \subseteq LaneEffect
  <2>1. Current \in Startups
    BY CurrentEffect DEF Startups, MessagesInv
  <2>2. lane \in Seq(LaneEffect) /\ Only(lane, Startups) /\ Head(lane) \in Startups
    BY <2>1 DEF MessagesInv, LaneOK, OneStartup, Current
  <2>3. Tail(lane) \in Seq(LaneEffect)
    BY <2>2, Tailed
  <2>4. ToSet(Tail(lane)) \subseteq LaneEffect
    BY <2>3 DEF ToSet
  <2> HIDE DEF Carried
  <2>5. /\ ToSet(lane) = {Head(lane)} \cup ToSet(Tail(lane)) /\ Only(Tail(lane), Startups)
        /\ ToSet(Tail(lane)) \cap Startups = {}
    BY <2>2, Tailed
  <2> QED
    BY <2>4, <2>5 DEF Effects, Current, OneStartup
<1>2. \A e \in Effects' : e.type \notin Startup
  BY <1>1 DEF Startups
<1>3. exec'.pc = "idle"
  BY DEF Resting
<1>4. AllSafe'
  <2> SUFFICES ASSUME NEW m \in sent PROVE Safe(m)'
    BY DEF AllSafe
  <2>1. m \in Msg
    BY DEF MessagesInv, RecordsOK
  <2>2. ASSUME NEW e \in Effects, Carries(e, m) PROVE Safe(m)'
    <3>1. CASE e = Current
      <4>1. m = t
        BY <2>2, <3>1 DEF Carries, Startup
      <4> QED
        BY <4>1 DEF Safe
    <3>2. CASE e \in Effects'
      <4>1. e.type = "steer" /\ e.msg = m
        BY <1>2, <2>2, <3>2 DEF Carries
      <4> QED
        BY <3>2, <4>1 DEF Safe, Carries
    <3> QED
      BY <1>1, <3>1, <3>2
  <2> QED
    BY <2>1, <2>2 DEF AllSafe, Safe
<1> QED
  BY <1>1, <1>2, <1>3, <1>4 DEF StartupRuns, CaptureRests

(* A step that starts a run when nothing else does. *)
LEMMA StartupAdded ==
    ASSUME MessagesInv, Carried, \A e \in Effects : e.type \notin Startup,
           NEW L \in Seq(LaneEffect), ToSet(L) \subseteq Effects,
           NEW d \in LaneEffect, d.type \in Startup, lane' = Append(L, d),
           St(d.run)' = "starting", CaptureRests',
           \A e \in Effects : e.type = "steer" => e \in ToSet(L) \/ Safe(e.msg)',
           \A m \in ToSet(queue) : m \in ToSet(queue') \/ Safe(m)',
           \A m \in sent' : m \in sent \/ Safe(m)',
           Gone \subseteq Gone', delivered' = delivered
    PROVE  Carried'
<1> USE DEF Carried
<1>1. Effects' = ToSet(L) \cup {d} /\ OneStartup'
  <2>1. ToSet(L) \cap Startups = {}
    BY DEF Startups
  <2>2. Only(L, Startups)
    <3>1. \A i \in DOMAIN L : L[i] \in ToSet(L)
      BY DEF ToSet
    <3> QED
      BY <2>1, <3>1 DEF Only
  <2> HIDE DEF Carried
  <2> QED
    BY <2>1, <2>2, Appended DEF Effects, OneStartup
<1>2. StartupRuns'
  BY <1>1 DEF StartupRuns
<1>3. AllSafe'
  <2> SUFFICES ASSUME NEW m \in sent', m \in sent PROVE Safe(m)'
    BY DEF AllSafe
  <2>1. ASSUME NEW e \in Effects, Carries(e, m) PROVE Safe(m)'
    <3>1. e.type = "steer" /\ e.msg = m
      BY <2>1 DEF Carries
    <3> QED
      BY <1>1, <3>1 DEF Safe, Carries
  <2> QED
    BY <2>1 DEF AllSafe, Safe
<1> QED
  BY <1>1, <1>2, <1>3

-----------------------------------------------------------------------------
(* What an ordinary step does to the lane. *)
LEMMA LaneMoves ==
    ASSUME MessagesInv, OneStartup,
           NEW s, s = lane \/ (lane # << >> /\ Current.type \notin Startup /\ s = Tail(lane)),
           lane' = s \/ \E d \in LaneEffect : d.type \notin Startup /\ lane' = Append(s, d)
    PROVE  /\ OneStartup'
           /\ \A e \in Effects' : e.type \in Startup => e \in Effects
           /\ \A e \in Effects : e \in Effects' \/ (e = Current /\ s # lane)
           /\ \A e \in Effects : e.type \in Startup => e \in Effects'
           /\ s = lane => Effects \subseteq Effects' /\ (lane # << >> => Head(lane') = Head(lane))
<1>1. /\ s \in Seq(LaneEffect) /\ Only(s, Startups) /\ ToSet(s) \subseteq Effects
      /\ Effects \subseteq ToSet(s) \cup {Current}
      /\ s = lane => ToSet(s) = Effects
      /\ \A e \in Effects : e.type \in Startup => e \in ToSet(s)
  <2>1. CASE s = lane
    BY <2>1 DEF MessagesInv, LaneOK, OneStartup, Effects
  <2>2. CASE lane # << >> /\ Current.type \notin Startup /\ s = Tail(lane)
    <3>1. /\ Tail(lane) \in Seq(LaneEffect) /\ ToSet(lane) = {Head(lane)} \cup ToSet(Tail(lane))
          /\ Only(Tail(lane), Startups)
      BY <2>2, Tailed DEF MessagesInv, LaneOK, OneStartup
    <3>2. s = lane => ToSet(s) = Effects
      BY DEF Effects
    <3> QED
      BY <2>2, <3>1, <3>2 DEF Effects, Current
  <2> QED
    BY <2>1, <2>2
<1>2. CASE lane' = s
  BY <1>1, <1>2 DEF Effects, OneStartup
<1>3. CASE \E d \in LaneEffect : d.type \notin Startup /\ lane' = Append(s, d)
  <2>1. PICK d \in LaneEffect : d.type \notin Startup /\ lane' = Append(s, d)
    BY <1>3
  <2>2. d \notin Startups
    BY <2>1 DEF Startups
  <2>3. /\ ToSet(Append(s, d)) = ToSet(s) \cup {d} /\ Only(Append(s, d), Startups)
        /\ s # << >> => Head(Append(s, d)) = Head(s)
    BY <1>1, <2>2, Appended
  <2>4. Effects' = ToSet(s) \cup {d}
    BY <2>1, <2>3 DEF Effects
  <2> QED
    BY <1>1, <2>1, <2>3, <2>4 DEF OneStartup
<1> QED
  BY <1>2, <1>3

(* The capture that is executed stays as it was read. *)
LEMMA CaptureStays ==
    ASSUME CaptureRests, exec' = exec, Head(lane') = Head(lane),
           \A r \in Msg : St(r)' \in {"starting", "running", "none", "queued"} =>
                St(r) \in {"starting", "running", "none", "queued"} \/ r # Current.run,
           exec.pc \in {"capture", "stamp"} => Current.run \in Msg
    PROVE  CaptureRests'
BY DEF CaptureRests, Current

LEMMA CapturedBegun ==
    ASSUME MessagesInv, exec.pc \in {"capture", "stamp"}
    PROVE  lane # << >> /\ Current.type = "capture" /\ Current.run \in Msg /\ Begun(Current.run)
<1> USE DEF MessagesInv
<1>1. lane # << >> /\ Current.type = "capture"
  BY DEF LaneInv, ExecKind
<1>2. Current \in Effects /\ Current.run \in Msg
  BY <1>1, CurrentEffect
<1> QED
  BY <1>1, <1>2 DEF LaneInv, EffectsTyped, EffectTyped

(* The rows are left alone. *)
LEMMA CarriedStill ==
    ASSUME MessagesInv, Carried, run' = run,
           NEW s, s = lane \/ (lane # << >> /\ Current.type \notin Startup /\ s = Tail(lane)),
           NEW c, c = Current, s # lane /\ c.type = "steer" => Safe(c.msg)',
           lane' = s \/ \E d \in LaneEffect : d.type \notin Startup /\ lane' = Append(s, d),
           exec.pc \in {"call", "send"} => s = lane /\ exec'.pc \in {"call", "send"},
           exec'.pc \in {"capture", "stamp"} => exec' = exec /\ s = lane,
           \A m \in ToSet(queue) : m \in ToSet(queue'),
           \A m \in sent' : m \in sent \/ Safe(m)',
           Gone \subseteq Gone', \A m \in Msg : delivered[m] > 0 => delivered'[m] > 0
    PROVE  Carried'
<1>1. SameSt /\ SameCur /\ SameText
  BY RowsKept
<1>2. /\ OneStartup'
      /\ \A e \in Effects' : e.type \in Startup => e \in Effects
      /\ \A e \in Effects : e \in Effects' \/ (e = Current /\ s # lane)
      /\ \A e \in Effects : e.type \in Startup => e \in Effects'
      /\ s = lane => Effects \subseteq Effects' /\ (lane # << >> => Head(lane') = Head(lane))
  BY LaneMoves DEF Carried
<1>3. CaptureRests'
  <2> SUFFICES ASSUME exec'.pc \in {"capture", "stamp"} PROVE CaptureRests'
    BY DEF CaptureRests
  <2>1. Head(lane') = Head(lane) /\ exec' = exec /\ Current.run \in Msg
    BY <1>2, CapturedBegun
  <2> QED
    BY <1>1, <2>1, CaptureStays DEF Carried, SameSt
<1>4. \A e \in Effects : e.type = "steer" => e \in Effects' \/ Safe(e.msg)'
  BY <1>2
<1>5. \A e \in Effects : e.type \in Startup =>
        /\ e \in Effects'
        /\ St(e.run)' = St(e.run) /\ Cur(e.run)' = Cur(e.run)
        /\ \A a \in Attempt : Text(e.run, a)' = Text(e.run, a)
  BY <1>1, <1>2, StartupIsActive DEF Carried, SameSt, SameCur, SameText
<1>6. exec.pc \in {"call", "send"} => exec'.pc \in {"call", "send"} /\ Head(lane') = Head(lane)
  BY <1>2 DEF MessagesInv, LaneInv, ExecKind
<1> QED
  BY <1>2, <1>3, <1>4, <1>5, <1>6, CarriedKept

-----------------------------------------------------------------------------
(* Commands that move no run. *)

LEMMA SafeInLane ==
    ASSUME NEW m, NEW e \in Effects', e.type = "steer", e.msg = m
    PROVE  Safe(m)'
BY DEF Safe, Carries

LEMMA PlainCarried ==
    ASSUME MessagesInv, Carried, run' = run, lane' = lane,
           exec' = exec
             \/ (exec.pc \notin {"call", "send"} /\ exec'.pc \notin {"capture", "stamp"}),
           ToSet(queue') = ToSet(queue), sent' \subseteq sent \cup Gone',
           Gone \subseteq Gone', \A m \in Msg : delivered[m] > 0 => delivered'[m] > 0
    PROVE  Carried'
<1>1. \A m \in sent' : m \in sent \/ Safe(m)'
  BY DEF Safe
<1>2. PICK c : c = Current
  OBVIOUS
<1> QED
  BY <1>1, <1>2, CarriedStill

LEMMA IdleCarried ==
    ASSUME MessagesInv, Carried,
           \/ UNCHANGED vars \/ Intervene \/ FollowUp \/ SettleInterrupt
           \/ BeginRestart \/ BeginInterrupt
           \/ RefuseRestart \/ MoveToFront \/ RefusePick \/ StopIdle
           \/ \E m \in Msg : Send(m)
    PROVE  Carried'
<1>1. CASE UNCHANGED vars \/ Intervene \/ \E m \in Msg : Send(m)
  BY <1>1, PlainCarried DEF vars, Intervene, Send, Begin, runVars, queueVars, histVars,
     agentVars, Gone
<1>2. CASE FollowUp
  BY <1>2, PlainCarried DEF FollowUp, Begin, runVars, queueVars, histVars, agentVars, Gone
<1>3. CASE SettleInterrupt
  <2>1. exec.pc = "poll" /\ GoTo("settle", exec.att)
    BY <1>3 DEF SettleInterrupt, Executing
  <2>2. exec'.pc = "settle" /\ lane' = lane
    BY <2>1, GoesTo DEF MessagesInv, LaneOK, ExecType, ExecPc
  <2> QED
    BY <1>3, <2>1, <2>2, PlainCarried DEF SettleInterrupt, Begin, runVars, queueVars, histVars,
       agentVars, Gone
<1>7. CASE BeginRestart \/ BeginInterrupt
  <2>1. lane # << >> /\ exec.pc = "idle" /\ \E pc \in {"await", "poll"} : GoTo(pc, Current.att)
    BY <1>7 DEF BeginRestart, BeginInterrupt, Executing
  <2>2. LaneOK /\ Current.att \in 0 .. MaxAttempts /\ {"await", "poll"} \subseteq ExecPc
    BY <2>1, CurrentEffect, EffectFields DEF MessagesInv, ExecPc
  <2>3. exec'.pc \in {"await", "poll"} /\ lane' = lane
    BY <2>1, <2>2, GoesTo
  <2> QED
    BY <1>7, <2>1, <2>3, PlainCarried DEF BeginRestart, BeginInterrupt, Quiet, queueVars,
       agentVars, Gone
<1>4. CASE RefuseRestart
  <2>1. sent' = sent \cup {cmd.msg} /\ Gone' = Gone \cup {cmd.msg}
    BY <1>4 DEF RefuseRestart, Gone
  <2> QED
    BY <1>4, <2>1, PlainCarried DEF RefuseRestart, runVars, queueVars, effectVars, agentVars
<1>5. CASE RefusePick \/ StopIdle
  BY <1>5, PlainCarried DEF RefusePick, Refuse, StopIdle, runVars, queueVars, effectVars, histVars,
     agentVars, Gone
<1>6. CASE MoveToFront
  <2>1. cmd.msg \in ToSet(queue)
    BY <1>6 DEF MoveToFront, MessagesInv, LockInv, CommandInv, Picks
  <2>2. queue \in Seq(Msg) /\ cmd.msg \in Msg
    BY <2>1, PickedIsQueued DEF MessagesInv, QueueOK
  <2>3. /\ Among(queue, Msg \ {cmd.msg}) \in Seq(Msg)
        /\ ToSet(Among(queue, Msg \ {cmd.msg})) = ToSet(queue) \cap (Msg \ {cmd.msg})
    BY <2>2, Filtered
  <2>4. ToSet(queue') = ToSet(Among(queue, Msg \ {cmd.msg})) \cup {cmd.msg}
    <3> DEFINE m == cmd.msg
               q == Among(queue, Msg \ {m})
    <3>1. queue' = << m >> \o q
      BY <1>6 DEF MoveToFront
    <3>2. q \in Seq(Msg) /\ m \in Msg
      BY <2>2, <2>3
    <3> HIDE DEF q, m
    <3>3. ToSet(queue') = ToSet(q) \cup {m}
      BY <3>1, <3>2, Prepended
    <3> QED
      BY <3>3 DEF q, m
  <2>5. ToSet(queue) \subseteq Msg
    BY <2>2 DEF ToSet
  <2>6. ToSet(queue') = ToSet(queue)
    BY <2>1, <2>3, <2>4, <2>5
  <2> QED
    BY <1>6, <2>6, PlainCarried DEF MoveToFront, runVars, effectVars, histVars, agentVars, Gone
<1> QED
  BY <1>1, <1>2, <1>3, <1>4, <1>5, <1>6, <1>7

LEMMA StopTurnCarried == ASSUME MessagesInv, Carried, StopTurn PROVE Carried'
<1>0. cmd # NoCommand /\ Targets # {}
  BY CommandTaken DEF StopTurn
<1>1. PICK d : d = Effect("interrupt", Target, cmd.copy[Target].cur, NoMsg)
  OBVIOUS
<1>2. d \in LaneEffect /\ d.type = "interrupt"
  BY <1>0, <1>1, TargetEffect
<1>3. lane' = Append(lane, d)
  BY <1>1 DEF StopTurn
<1>4. d.type \notin Startup
  BY <1>2 DEF Startup
<1>5. PICK c : c = Current
  OBVIOUS
<1>6. run' = run /\ exec' = exec /\ queue' = queue /\ sent' = sent /\ Gone' = Gone
      /\ delivered' = delivered
  BY DEF StopTurn, runVars, histVars, agentVars, Gone
<1> QED
  BY <1>2, <1>3, <1>4, <1>5, <1>6, CarriedStill

LEMMA SteerActiveCarried == ASSUME MessagesInv, Carried, SteerActive PROVE Carried'
<1>0. cmd # NoCommand /\ Targets # {} /\ cmd.msg \in Msg
  BY CommandTaken DEF SteerActive, Steerable, MessagesInv, LockInv, CommandInv, Sends
<1>1. PICK d : d = SteerEffect(cmd.msg)
  OBVIOUS
<1>m. PICK m : m = cmd.msg
  OBVIOUS
<1>2. d \in LaneEffect /\ d.type = "steer" /\ d.msg = m
  BY <1>0, <1>1, <1>m, TargetEffect DEF SteerEffect
<1>3. lane' = Append(lane, d)
  BY <1>1 DEF SteerActive
<1>4. d.type \notin Startup
  BY <1>2 DEF Startup
<1>5. PICK c : c = Current
  OBVIOUS
<1>6. run' = run /\ exec' = exec /\ queue' = queue /\ sent' = sent \cup {m} /\ Gone' = Gone
      /\ delivered' = delivered
  BY <1>m DEF SteerActive, runVars, queueVars, histVars, agentVars, Gone
<1>7. d \in Effects'
  BY <1>2, <1>3, Appended DEF Effects, MessagesInv, LaneOK
<1>8. Safe(m)'
  BY <1>2, <1>7, SafeInLane
<1> QED
  BY <1>2, <1>3, <1>4, <1>5, <1>6, <1>8, CarriedStill

(* A steer that is tried again, or is over: then its message is with the    *)
(* agent, or given up.                                                      *)
SteerMoves ==
    /\ lane # << >> /\ Current.type = "steer" /\ exec.pc \in {"idle", "steer", "follow"}
    /\ QuietSteer /\ dropped \subseteq dropped'
    /\ \A m \in Msg : delivered[m] > 0 => delivered'[m] > 0

LEMMA SteerQuiet ==
    ASSUME SteerMoves
    PROVE  run' = run /\ queue' = queue /\ sent' = sent /\ Gone \subseteq Gone'
BY DEF SteerMoves, QuietSteer, runVars, queueVars, Gone

LEMMA SteerStays ==
    ASSUME MessagesInv, Carried, SteerMoves, lane' = lane,
           exec'.pc \in {"idle", "steer", "follow"}
    PROVE  Carried'
<1>1. exec.pc \notin {"call", "send"} /\ \A m \in Msg : delivered[m] > 0 => delivered'[m] > 0
  BY DEF SteerMoves
<1> QED
  BY <1>1, SteerQuiet, PlainCarried

LEMMA SteerOver ==
    ASSUME MessagesInv, Carried, SteerMoves, Settled,
           delivered'[Current.msg] > 0 \/ Current.msg \in dropped'
    PROVE  Carried'
<1>c. PICK c : c = Current
  OBVIOUS
<1>s. PICK s : s = Tail(lane)
  OBVIOUS
<1>1. /\ lane # << >> /\ c.type = "steer" /\ c.type \notin Startup
      /\ exec.pc \notin {"call", "send"}
  BY <1>c DEF SteerMoves, Startup
<1>2. Safe(c.msg)'
  BY <1>c DEF Safe, Gone
<1>3. lane' = s /\ exec'.pc = "idle"
  BY <1>s DEF Settled, Resting
<1>4. \A m \in Msg : delivered[m] > 0 => delivered'[m] > 0
  BY DEF SteerMoves
<1> QED
  BY <1>c, <1>s, <1>1, <1>2, <1>3, <1>4, SteerQuiet, CarriedStill

LEMMA FailedTryCarried ==
    ASSUME MessagesInv, Carried, SteerMoves, FailedTry PROVE Carried'
<1>1. CASE WillRetry /\ TryAgain
  <2>1. lane' = lane /\ exec'.pc = "idle"
    BY <1>1, TriesAgain DEF MessagesInv
  <2> QED
    BY <2>1, SteerStays
<1>2. CASE Settled /\ dropped' = dropped \cup {Current.msg}
  BY <1>2, SteerOver
<1> QED
  BY <1>1, <1>2 DEF FailedTry

LEMMA SteerFailedCarried ==
    ASSUME MessagesInv, Carried, SteerMoves, SteerFailed PROVE Carried'
<1>1. CASE GoTo("follow", Current.att)
  <2>1. LaneOK /\ Current.att \in 0 .. MaxAttempts /\ "follow" \in ExecPc
    BY SteerFacts DEF SteerMoves, MessagesInv, ExecPc
  <2>2. lane' = lane /\ exec'.pc = "follow"
    BY <1>1, <2>1, GoesTo
  <2> QED
    BY <2>2, SteerStays
<1> QED
  BY <1>1, FailedTryCarried DEF SteerFailed

LEMMA SteerCarried ==
    ASSUME MessagesInv, Carried, LoadSteer \/ SteerSucceeds \/ SteerFails \/ FollowUpFails
    PROVE  Carried'
<1>1. lane # << >> /\ Current.type = "steer" /\ exec.pc \in {"idle", "steer", "follow"}
      /\ QuietSteer
  BY DEF LoadSteer, SteerSucceeds, SteerFails, FollowUpFails, Executing
<1>2. /\ LaneOK /\ delivered \in [Msg -> Nat] /\ Current.msg \in Msg
      /\ Current.att \in 0 .. MaxAttempts
  BY <1>1, SteerFacts DEF MessagesInv, RecordsOK
<1>3. /\ FailedTry => dropped \subseteq dropped'
      /\ SteerFailed => dropped \subseteq dropped'
  BY DEF FailedTry, SteerFailed
<1>4. /\ Delivers(Current.msg) => delivered'[Current.msg] > 0
      /\ Delivers(Current.msg) \/ delivered' = delivered =>
            \A m \in Msg : delivered[m] > 0 => delivered'[m] > 0
  BY <1>2 DEF Delivers
<1>5. CASE LoadSteer
  <2>1. delivered' = delivered
    BY <1>5 DEF LoadSteer, agentVars
  <2>2. CASE GoTo("steer", Current.att) /\ dropped' = dropped
    <3>1. "steer" \in ExecPc
      BY DEF ExecPc
    <3>2. lane' = lane /\ exec'.pc = "steer"
      BY <1>2, <2>2, <3>1, GoesTo
    <3> QED
      BY <1>1, <1>4, <2>1, <2>2, <3>2, SteerStays DEF SteerMoves
  <2>3. CASE FailedTry
    BY <1>1, <1>3, <1>4, <2>1, <2>3, FailedTryCarried DEF SteerMoves
  <2>4. CASE SteerFailed
    BY <1>1, <1>3, <1>4, <2>1, <2>4, SteerFailedCarried DEF SteerMoves
  <2> QED
    BY <1>5, <2>2, <2>3, <2>4 DEF LoadSteer
<1>6. CASE SteerSucceeds
  <2>1. Delivers(Current.msg) /\ Settled /\ dropped' = dropped
    BY <1>6 DEF SteerSucceeds
  <2> QED
    BY <1>1, <1>4, <2>1, SteerOver DEF SteerMoves
<1>7. CASE SteerFails
  <2>1. (Delivers(Current.msg) \/ delivered' = delivered) /\ SteerFailed
    BY <1>7 DEF SteerFails
  <2> QED
    BY <1>1, <1>3, <1>4, <2>1, SteerFailedCarried DEF SteerMoves
<1>8. CASE FollowUpFails
  <2>1. delivered' = delivered
    BY <1>8 DEF FollowUpFails, agentVars
  <2>2. CASE FailedTry
    BY <1>1, <1>3, <1>4, <2>1, <2>2, FailedTryCarried DEF SteerMoves
  <2>3. CASE Settled /\ dropped' = dropped \cup {Current.msg}
    BY <1>1, <1>4, <2>1, <2>3, SteerOver DEF SteerMoves
  <2> QED
    BY <1>8, <2>2, <2>3 DEF FollowUpFails
<1> QED
  BY <1>5, <1>6, <1>7, <1>8

(* The run of an effect that starts one is there for it.                    *)
LEMMA StartReadsCarried ==
    ASSUME MessagesInv, Carried, BeginStart \/ RestartGoesOn \/ CheckBeforeCall
    PROVE  Carried'
<1>0. lane # << >> /\ Current.type \in Startup /\ Current \in Effects
  BY CurrentEffect DEF BeginStart, RestartGoesOn, CheckBeforeCall, Executing, Startup, MessagesInv
<1>1. run' = run /\ queue' = queue /\ sent' = sent /\ Gone' = Gone
      /\ delivered' = delivered
  BY DEF BeginStart, RestartGoesOn, CheckBeforeCall, ReadForStart, runVars, Quiet, queueVars,
     agentVars, Gone
<1>4. LaneOK /\ Current.run \in Msg /\ {"open", "send"} \subseteq ExecPc
      /\ exec.att \in 0 .. MaxAttempts
  BY <1>0, CurrentEffect DEF MessagesInv, LaneOK, ExecType, ExecPc
<1>2. CASE BeginStart \/ RestartGoesOn
  <2>1. exec.pc \in {"idle", "await"}
    BY <1>2 DEF BeginStart, RestartGoesOn, Executing
  <2>2. run[Current.run].st = "starting"
    BY <1>0, <2>1 DEF Carried, StartupRuns, St
  <2>3. GoTo("open", Cur(Current.run)) /\ Cur(Current.run) \in 0 .. MaxAttempts
    BY <1>2, <1>4, <2>2, RowTypes DEF BeginStart, RestartGoesOn, ReadForStart, Cur, MessagesInv
  <2>4. lane' = lane /\ exec'.pc = "open"
    BY <1>4, <2>3, GoesTo
  <2> QED
    BY <1>1, <2>1, <2>4, PlainCarried
<1>3. CASE CheckBeforeCall
  <2>1. exec.pc = "call"
    BY <1>3 DEF CheckBeforeCall, Executing
  <2>2. IsCurrent(Current.run, exec.att, "running")
    BY <2>1 DEF MessagesInv, LaneInv, StartHolds, Holds, IsCurrent, St, Cur
  <2>3. lane' = lane /\ exec'.pc = "send"
    BY <1>3, <1>4, <2>2, GoesTo DEF CheckBeforeCall
  <2>4. PICK c : c = Current
    OBVIOUS
  <2>5. c.type # "steer"
    BY <1>0, <2>4 DEF Startup
  <2> QED
    BY <1>1, <2>1, <2>3, <2>4, <2>5, CarriedStill
<1> QED
  BY <1>2, <1>3

-----------------------------------------------------------------------------
(* Commands that start, queue or withdraw a run. *)

LEMMA LaneAfterDrops ==
    ASSUME MessagesInv, Sending
    PROVE  \A e \in Effects : e \in ToSet(LaneAfter) \/ (e.type = "steer" /\ e.msg = cmd.msg)
<1>1. CASE cmd.kind = "followup"
  <2>1. lane # << >> /\ Current.type = "steer" /\ cmd.msg = Current.msg
    BY <1>1 DEF MessagesInv, LockInv, CommandInv, LaneInv, ExecKind
  <2>2. Effects = {Current} \cup ToSet(Tail(lane))
    BY <2>1, LanePopped DEF MessagesInv, MessageInv, LaneInv
  <2> QED
    BY <1>1, <2>1, <2>2 DEF LaneAfter
<1>2. CASE cmd.kind # "followup"
  BY <1>2 DEF LaneAfter, Effects
<1> QED
  BY <1>1, <1>2

LEMMA NothingStarts ==
    ASSUME MessagesInv, StartupRuns, ActiveRuns(run) = {}
    PROVE  \A e \in Effects : e.type \notin Startup
BY StartupIsActive

LEMMA StartAtOnceCarried == ASSUME MessagesInv, IInv, Carried, StartAtOnce PROVE Carried'
<1>m. PICK m : m = cmd.msg
  OBVIOUS
<1>L. PICK L : L = LaneAfter
  OBVIOUS
<1>d. PICK d : d = Effect("start", m, 0, NoMsg)
  OBVIOUS
<1>0. Sending /\ cmd.kind # "none" /\ cmd # NoCommand /\ Targets = {}
  BY CommandTaken DEF StartAtOnce, Sending, Sends
<1>1. m \in Msg /\ ~Begun(m)
  BY <1>m, <1>0, MessageIsNew
<1>2. \A e \in Effects : e.type \notin Startup
  BY <1>0, TargetsSeen, NothingStarts DEF Carried
<1>3. /\ L \in Seq(LaneEffect) /\ ToSet(L) \subseteq Effects /\ (cmd.kind # "followup" => L = lane)
      /\ \A e \in Effects : e \in ToSet(L) \/ (e.type = "steer" /\ e.msg = m)
  BY <1>m, <1>L, <1>0, LaneAfterCommand, LaneAfterDrops
<1>4. d \in LaneEffect /\ d.type = "start" /\ d.type \in Startup /\ d.run = m
  BY <1>d, <1>1, AttemptZero DEF Effect, LaneEffect, Startup
<1>5. lane' = Append(L, d) /\ exec' = ExecAfter /\ sent' = sent \cup {m} /\ queue' = queue
      /\ Gone' = Gone /\ delivered' = delivered
  BY <1>m, <1>L, <1>d DEF StartAtOnce, histVars, agentVars, Gone
<1>6. /\ SetsSt(m, "starting") /\ SetsCur(m, 1)
      /\ Text(m, 1)' = m
  <2>1. 1 \in Attempt
    BY BoundsAssumption DEF Attempt
  <2> QED
    BY <1>m, <1>1, <2>1, RunCreated DEF StartAtOnce, MessagesInv, RunStatus, Live
<1>7. d \in Effects' /\ (L # << >> => Head(lane') = Head(L))
  BY <1>3, <1>4, <1>5, Appended DEF Effects
<1>8. Safe(m)'
  <2>1. Cur(m)' = 1
    BY <1>1, <1>6 DEF SetsCur
  <2>2. Text(m, Cur(m))' = m
    BY <1>6, <2>1 DEF Text, Cur
  <2> QED
    BY <1>4, <1>7, <2>2 DEF Safe, Carries
<1>9. CaptureRests'
  <2> SUFFICES ASSUME exec'.pc \in {"capture", "stamp"} PROVE CaptureRests'
    BY DEF CaptureRests
  <2>1. exec' = exec /\ cmd.kind # "followup"
    BY <1>5 DEF ExecAfter, Resting
  <2>2. lane # << >> /\ Current.run \in Msg /\ Current.run # m
    BY <1>1, <2>1, CapturedBegun
  <2> QED
    BY <1>3, <1>6, <1>7, <2>1, <2>2, CaptureStays DEF Carried, SetsSt
<1>10. St(d.run)' = "starting"
  BY <1>1, <1>4, <1>6 DEF SetsSt
<1> QED
  BY <1>2, <1>3, <1>4, <1>5, <1>8, <1>9, <1>10, StartupAdded

LEMMA QueueBehindCarried == ASSUME MessagesInv, Carried, QueueBehind PROVE Carried'
<1>m. PICK m : m = cmd.msg
  OBVIOUS
<1>s. PICK s : s = LaneAfter
  OBVIOUS
<1>0. Sending
  BY DEF QueueBehind, Sending, Sends
<1>1. m \in Msg /\ ~Begun(m) /\ St(m) \in {"none", "cancelled"}
  BY <1>m, <1>0, MessageIsNew
<1>2. /\ lane' = s /\ exec' = ExecAfter /\ sent' = sent \cup {m} /\ queue' = Append(queue, m)
      /\ Gone' = Gone /\ delivered' = delivered
  BY <1>m, <1>s DEF QueueBehind, histVars, agentVars, Gone
<1>3. /\ SetsSt(m, "queued") /\ SetsCur(m, 1)
      /\ \A q \in Msg, a \in Attempt : q # m => Text(q, a)' = Text(q, a)
  <2>1. run' = [run EXCEPT ![m] = NewRun(m, "queued")]
    BY <1>m DEF QueueBehind
  <2>2. Rows /\ "queued" \in RunStatus
    BY DEF MessagesInv, RunStatus
  <2> QED
    BY <1>1, <2>1, <2>2, RunCreated
<1>4. ToSet(queue') = ToSet(queue) \cup {m}
  BY <1>1, <1>2, Appended DEF MessagesInv, QueueOK
<1>5. s = lane \/ (lane # << >> /\ Current.type = "steer" /\ Current.type \notin Startup
                    /\ s = Tail(lane) /\ Current.msg = m /\ exec.pc = "follow"
                    /\ exec' = Resting)
  BY <1>m, <1>s, <1>2 DEF LaneAfter, ExecAfter, MessagesInv, LockInv, CommandInv, LaneInv,
     ExecKind, Startup
<1>6. /\ OneStartup'
      /\ \A e \in Effects' : e.type \in Startup => e \in Effects
      /\ \A e \in Effects : e \in Effects' \/ (e = Current /\ s # lane)
      /\ \A e \in Effects : e.type \in Startup => e \in Effects'
      /\ s = lane => Effects \subseteq Effects' /\ (lane # << >> => Head(lane') = Head(lane))
  BY <1>2, <1>5, LaneMoves DEF Carried
<1>7. Safe(m)'
  BY <1>4 DEF Safe
<1>8. exec' = exec \/ (exec' = Resting /\ exec.pc = "follow")
  BY <1>2 DEF ExecAfter, MessagesInv, LockInv, CommandInv
<1>9. CaptureRests'
  <2> SUFFICES ASSUME exec'.pc \in {"capture", "stamp"} PROVE CaptureRests'
    BY DEF CaptureRests
  <2>1. exec' = exec /\ s = lane
    BY <1>5, <1>8 DEF Resting
  <2>2. lane # << >> /\ Current.run \in Msg /\ Current.run # m
    BY <1>1, <2>1, CapturedBegun
  <2> QED
    BY <1>3, <1>6, <2>1, <2>2, CaptureStays DEF Carried, SetsSt
<1>10. \A e \in Effects : e.type \in Startup =>
        /\ e \in Effects'
        /\ St(e.run)' = St(e.run) /\ Cur(e.run)' = Cur(e.run)
        /\ \A a \in Attempt : Text(e.run, a)' = Text(e.run, a)
  <2> SUFFICES ASSUME NEW e \in Effects, e.type \in Startup
               PROVE  /\ e \in Effects'
                      /\ St(e.run)' = St(e.run) /\ Cur(e.run)' = Cur(e.run)
                      /\ \A a \in Attempt : Text(e.run, a)' = Text(e.run, a)
    OBVIOUS
  <2>1. e.run \in Msg /\ e.run # m
    BY <1>1, StartupIsActive DEF Carried
  <2> QED
    BY <1>3, <1>6, <2>1 DEF SetsSt, SetsCur
<1>11. exec.pc \in {"call", "send"} => exec'.pc \in {"call", "send"} /\ Head(lane') = Head(lane)
  BY <1>5, <1>6, <1>8 DEF MessagesInv, LaneInv, ExecKind
<1>12. \A e \in Effects : e.type = "steer" => e \in Effects' \/ Safe(e.msg)'
  BY <1>5, <1>6, <1>7
<1> QED
  BY <1>2, <1>4, <1>6, <1>7, <1>9, <1>10, <1>11, <1>12, CarriedKept

(* The queued run leaves its row's status for another. *)
LEMMA CancelCarried ==
    ASSUME MessagesInv, Carried, NEW m \in ToSet(queue), run' = [run EXCEPT ![m].st = "cancelled"],
           queue' = Among(queue, Msg \ {m}), exec' = exec, sent' = sent, delivered' = delivered,
           Gone \subseteq Gone',
           lane' = lane \/ \E d \in LaneEffect : d.type \notin Startup /\ lane' = Append(lane, d),
           Safe(m)'
    PROVE  Carried'
<1>1. m \in Msg /\ St(m) = "queued" /\ ~Begun(m)
  BY PickedIsQueued
<1>2. SetsSt(m, "cancelled") /\ SameCur /\ SameText
  BY <1>1, StWritten DEF MessagesInv, RunStatus, Terminal
<1>3. ToSet(queue') = ToSet(queue) \cap (Msg \ {m}) /\ ToSet(queue) \subseteq Msg
  <2>1. queue \in Seq(Msg)
    BY DEF MessagesInv, QueueOK
  <2>2. ToSet(queue) \subseteq Msg
    BY <2>1 DEF ToSet
  <2> QED
    BY <2>1, <2>2, Filtered
<1>s. PICK s : s = lane
  OBVIOUS
<1>6. /\ OneStartup'
      /\ \A e \in Effects' : e.type \in Startup => e \in Effects
      /\ Effects \subseteq Effects' /\ (lane # << >> => Head(lane') = Head(lane))
  BY <1>s, LaneMoves DEF Carried
<1>7. CaptureRests'
  <2> SUFFICES ASSUME exec'.pc \in {"capture", "stamp"} PROVE CaptureRests'
    BY DEF CaptureRests
  <2>1. lane # << >> /\ Current.run \in Msg
    BY CapturedBegun
  <2> QED
    BY <1>2, <1>6, <2>1, CaptureStays DEF Carried, SetsSt
<1>8. \A e \in Effects : e.type \in Startup =>
        /\ e \in Effects'
        /\ St(e.run)' = St(e.run) /\ Cur(e.run)' = Cur(e.run)
        /\ \A a \in Attempt : Text(e.run, a)' = Text(e.run, a)
  <2> SUFFICES ASSUME NEW e \in Effects, e.type \in Startup
               PROVE  /\ e \in Effects'
                      /\ St(e.run)' = St(e.run) /\ Cur(e.run)' = Cur(e.run)
                      /\ \A a \in Attempt : Text(e.run, a)' = Text(e.run, a)
    OBVIOUS
  <2>1. e.run \in Msg /\ e.run # m
    BY <1>1, StartupIsActive DEF Carried
  <2> QED
    BY <1>2, <1>6, <2>1 DEF SetsSt, SameCur, SameText
<1>9. exec.pc \in {"call", "send"} => exec'.pc \in {"call", "send"} /\ Head(lane') = Head(lane)
  BY <1>6 DEF MessagesInv, LaneInv, ExecKind
<1>10. \A q \in ToSet(queue) : q \in ToSet(queue') \/ Safe(q)'
  BY <1>3
<1> QED
  BY <1>6, <1>7, <1>8, <1>9, <1>10, CarriedKept

LEMMA WithdrawCarried ==
    ASSUME MessagesInv, Carried, CancelQueued \/ Promote PROVE Carried'
<1>m. PICK m : m = cmd.msg
  OBVIOUS
<1>1. m \in ToSet(queue)
  BY <1>m DEF CancelQueued, Promote, MessagesInv, LockInv, CommandInv, Picks
<1>2. CASE CancelQueued
  <2>1. /\ run' = [run EXCEPT ![m].st = "cancelled"] /\ queue' = Among(queue, Msg \ {m})
        /\ exec' = exec /\ sent' = sent /\ delivered' = delivered /\ lane' = lane
        /\ Gone' = Gone \cup {m}
    BY <1>m, <1>2 DEF CancelQueued, effectVars, agentVars, Gone
  <2>2. Safe(m)'
    BY <2>1 DEF Safe
  <2> QED
    BY <1>1, <2>1, <2>2, CancelCarried
<1>3. CASE Promote
  <2>0. cmd # NoCommand /\ Targets # {} /\ m \in Msg
    BY <1>1, <1>3, CommandTaken, PickedIsQueued DEF Promote, Steerable
  <2>d. PICK d : d = SteerEffect(m)
    OBVIOUS
  <2>1. /\ run' = [run EXCEPT ![m].st = "cancelled"] /\ queue' = Among(queue, Msg \ {m})
        /\ exec' = exec /\ sent' = sent /\ delivered' = delivered /\ lane' = Append(lane, d)
        /\ Gone' = Gone
    BY <1>m, <1>3, <2>d DEF Promote, histVars, agentVars, Gone
  <2>2. d \in LaneEffect /\ d.type = "steer" /\ d.type \notin Startup /\ d.msg = m
    BY <2>0, <2>d, TargetEffect DEF SteerEffect, Startup
  <2>3. d \in Effects'
    BY <2>1, <2>2, Appended DEF Effects, MessagesInv, LaneOK
  <2>4. Safe(m)'
    BY <2>2, <2>3, SafeInLane
  <2> QED
    BY <1>1, <2>1, <2>2, <2>4, CancelCarried
<1> QED
  BY <1>2, <1>3

-----------------------------------------------------------------------------
(* The next run starts, if none is active. *)
LEMMA StartNextCarried ==
    ASSUME MessagesInv, Carried, NEW h, NEW f, NEW p, p # NoMsg => p \in ToSet(queue),
           StartNext(queue, h, f, p), exec' = exec, sent' = sent, UNCHANGED <<delivered, Gone>>
    PROVE  Carried'
<1>1. CASE run' = run /\ lane' = lane /\ queue' = queue
  BY <1>1, PlainCarried
<1>2. ASSUME ActiveRuns(run) = {}, NEW m \in ToSet(queue), queue' = Among(queue, Msg \ {m}),
             run' = [run EXCEPT ![m].st = "starting"],
             lane' = Append(lane, Effect("start", m, 0, NoMsg))
      PROVE  Carried'
  <2>1. m \in Msg /\ St(m) = "queued" /\ Cur(m) = 1 /\ Text(m, 1) = m /\ ~Begun(m)
    BY PickedIsQueued
  <2>2. SetsSt(m, "starting") /\ SameCur /\ SameText
    BY <1>2, <2>1, StWritten DEF MessagesInv, RunStatus, Live
  <2>d. PICK d : d = Effect("start", m, 0, NoMsg)
    OBVIOUS
  <2>L. PICK L : L = lane
    OBVIOUS
  <2>3. d \in LaneEffect /\ d.type = "start" /\ d.type \in Startup /\ d.run = m
    BY <2>d, <2>1, AttemptZero DEF Effect, LaneEffect, Startup
  <2>4. /\ L \in Seq(LaneEffect) /\ ToSet(L) = Effects /\ lane' = Append(L, d)
    BY <1>2, <2>d, <2>L DEF MessagesInv, LaneOK, Effects
  <2>5. d \in Effects' /\ (L # << >> => Head(lane') = Head(L))
    BY <2>3, <2>4, Appended DEF Effects
  <2>6. Safe(m)'
    <3>1. 1 \in Attempt
      BY BoundsAssumption DEF Attempt
    <3>2. Cur(m)' = 1 /\ Text(m, 1)' = m
      BY <2>1, <2>2, <3>1 DEF SameCur, SameText
    <3>3. Text(m, Cur(m))' = m
      BY <3>2 DEF Text, Cur
    <3> QED
      BY <2>3, <2>5, <3>3 DEF Safe, Carries
  <2>7. CaptureRests'
    <3> SUFFICES ASSUME exec'.pc \in {"capture", "stamp"} PROVE CaptureRests'
      BY DEF CaptureRests
    <3>1. lane # << >> /\ Current.run \in Msg /\ Current.run # m
      BY <2>1, CapturedBegun
    <3> QED
      BY <2>L, <2>2, <2>5, <3>1, CaptureStays DEF Carried, SetsSt
  <2>8. \A q \in ToSet(queue) : q \in ToSet(queue') \/ Safe(q)'
    <3>1. queue \in Seq(Msg)
      BY DEF MessagesInv, QueueOK
    <3>2. ToSet(queue) \subseteq Msg
      BY <3>1 DEF ToSet
    <3>3. ToSet(queue') = ToSet(queue) \cap (Msg \ {m})
      BY <1>2, <3>1, Filtered
    <3> QED
      BY <2>6, <3>2, <3>3
  <2>9. \A e \in Effects : e.type \notin Startup
    BY <1>2, NothingStarts DEF Carried
  <2>10. St(d.run)' = "starting"
    BY <2>1, <2>2, <2>3 DEF SetsSt
  <2> QED
    BY <2>3, <2>4, <2>7, <2>8, <2>9, <2>10, StartupAdded
<1>3. CASE ActiveRuns(run) = {} /\ ~(ToSet(queue) \subseteq h)
  <2>1. NextInLine(queue, h, p) \in ToSet(queue)
    BY <1>3, NextIsQueued
  <2> QED
    BY <1>1, <1>2, <1>3, <2>1 DEF StartNext
<1> QED
  BY <1>1, <1>3 DEF StartNext

LEMMA ReleasesCarried ==
    ASSUME MessagesInv, Carried, ResumeQueue \/ React PROVE Carried'
<1>1. CASE React
  <2>1. PICK h, f : StartNext(queue, h, f, NoMsg)
    BY <1>1 DEF React
  <2> QED
    BY <1>1, <2>1, StartNextCarried DEF React, histVars, agentVars, Gone
<1>2. CASE ResumeQueue
  <2>1. PICK p : StartNext(queue, {}, NoMsg, p) /\ (p # NoMsg => p = cmd.msg /\ cmd.kind = "start")
    BY <1>2 DEF ResumeQueue
  <2>2. p # NoMsg => p \in ToSet(queue)
    BY <2>1 DEF MessagesInv, LockInv, CommandInv, Picks
  <2> QED
    BY <1>2, <2>1, <2>2, StartNextCarried DEF ResumeQueue, histVars, agentVars, Gone
<1> QED
  BY <1>1, <1>2

(* A restart that takes the run from no end finds that no effect starts it. *)
LEMMA RestartCarried ==
    ASSUME MessagesInv, IInv, Carried, RestartActive, late' = late, late = {} PROVE Carried'
<1> USE DEF MessagesInv
<1>m. PICK m : m = cmd.msg
  OBVIOUS
<1>r. PICK r : r = Target
  OBVIOUS
<1>c. PICK c : c = cmd.copy[r].cur
  OBVIOUS
<1>0. cmd # NoCommand /\ Targets # {} /\ Steerable /\ cmd.kind = "restart" /\ cmd.kind \in Sends
  BY CommandTaken DEF RestartActive, Sends, Steerable
<1>1. m \in Msg
  BY <1>m, <1>0 DEF LockInv, CommandInv
<1>2. /\ r \in Msg /\ c \in Attempt /\ Turn(r, c) # "none" /\ (St(r) \in Live => Cur(r) = c)
  BY <1>r, <1>c, <1>0, TargetKnown
<1>3. c < MaxAttempts
  <2>1. r \in Targets
    BY <1>r, <1>0 DEF Target
  <2> QED
    BY <1>c, <1>0, <2>1 DEF LockInv, CommandInv
<1>a. PICK a : a = c + 1
  OBVIOUS
<1>4. a \in Attempt /\ a - 1 = c
  BY <1>a, <1>2, <1>3, BoundsAssumption DEF Attempt
<1>5. St(r) = "running"
  BY <1>r DEF RestartActive, St
<1>6. \A e \in Effects : e.type \notin Startup
  <2> SUFFICES ASSUME NEW e \in Effects, e.type \in Startup PROVE FALSE
    OBVIOUS
  <2>1. e.run \in ActiveRuns(run) /\ Turn(e.run, Cur(e.run)) = "none"
    BY StartupIsActive DEF Carried
  <2>2. e.run = r
    BY <1>r, <1>0, <2>1, TargetsSeen
  <2> QED
    BY <1>2, <1>5, <2>1, <2>2 DEF Live
<1>7. /\ SetsSt(r, "starting") /\ SetsCur(r, a) /\ SetsText(r, a, m)
  <2>1. run' = [run EXCEPT ![r].st = "starting", ![r].cur = a, ![r].text[a] = m]
    BY <1>m, <1>r, <1>c, <1>a DEF RestartActive
  <2> QED
    BY <1>1, <1>2, <1>4, <2>1, RestartWritten DEF RunStatus, Live
<1>d. PICK d : d = Effect("restart", r, c, NoMsg)
  OBVIOUS
<1>8. d \in LaneEffect /\ d.type = "restart" /\ d.type \in Startup /\ d.run = r
  BY <1>d, <1>2, AttemptZero DEF Effect, LaneEffect, Startup
<1>L. PICK L : L = lane
  OBVIOUS
<1>9. /\ lane' = Append(L, d) /\ exec' = exec /\ sent' = sent \cup {m} /\ delivered' = delivered
      /\ queue' = queue /\ Gone' = Gone
  BY <1>m, <1>r, <1>c, <1>a, <1>d, <1>L, <1>4 DEF RestartActive, queueVars, agentVars, Gone
<1>10. L \in Seq(LaneEffect) /\ ToSet(L) = Effects
  BY <1>L DEF LaneOK, Effects
<1>11. d \in Effects' /\ (L # << >> => Head(lane') = Head(L))
  BY <1>8, <1>9, <1>10, Appended DEF Effects
<1>12. Safe(m)'
  <2>1. Cur(r)' = a /\ Text(r, a)' = m
    BY <1>2, <1>4, <1>7 DEF SetsCur, SetsText
  <2>2. Text(r, Cur(r))' = m
    BY <2>1 DEF Text, Cur
  <2> QED
    BY <1>8, <1>11, <2>2 DEF Safe, Carries
<1>13. CaptureRests'
  <2> SUFFICES ASSUME exec'.pc \in {"capture", "stamp"} PROVE CaptureRests'
    BY DEF CaptureRests
  <2>1. lane # << >> /\ Current.run \in Msg /\ Current.run # r
    BY <1>5, <1>9, CapturedBegun DEF Carried, CaptureRests
  <2> QED
    BY <1>L, <1>7, <1>9, <1>11, <2>1, CaptureStays DEF Carried, SetsSt
<1>14. St(d.run)' = "starting"
  BY <1>2, <1>7, <1>8 DEF SetsSt
<1> QED
  BY <1>6, <1>8, <1>9, <1>10, <1>12, <1>13, <1>14, StartupAdded

(* Stop withdraws the text of the run whose start it cancels. *)
LEMMA StopBeforeTurnCarried ==
    ASSUME MessagesInv, IInv, Carried, StopBeforeTurn PROVE Carried'
<1> USE DEF MessagesInv
<1>r. PICK r : r = Target
  OBVIOUS
<1>c. PICK c : c = cmd.copy[r].cur
  OBVIOUS
<1>0. cmd # NoCommand /\ Targets # {}
  BY CommandTaken DEF StopBeforeTurn
<1>1. /\ r \in Msg /\ c \in Attempt /\ cmd.copy[r].text[c] = Text(r, c)
      /\ St(r) \in Live => Cur(r) = c
  BY <1>r, <1>c, <1>0, TargetKnown
<1>2. SetsSt(r, "interrupted")
  BY <1>r, <1>c, <1>1, StCurWritten, AttemptZero DEF StopBeforeTurn, RunStatus, Terminal
<1>3. /\ sent' = sent /\ delivered' = delivered /\ queue' = queue
      /\ Gone' = Gone \cup {Text(r, c)}
  BY <1>r, <1>c, <1>1 DEF StopBeforeTurn, agentVars, Gone
<1>4. /\ \A e \in Effects' : e.type \notin Startup
      /\ \A e \in Effects : e.type \notin Startup => e \in Effects'
      /\ lane # << >> /\ Head(lane).type \notin Startup => Head(lane') = Head(lane)
  <2> DEFINE R == {e \in Effects : e.type \notin Startup}
             s == Among(lane, R)
  <2>1. /\ s \in Seq(LaneEffect) /\ ToSet(s) = R
        /\ lane # << >> /\ Head(lane) \in R => s # << >> /\ Head(s) = Head(lane)
    <3>1. ToSet(lane) \cap R = R
      BY DEF Effects
    <3> HIDE DEF R
    <3> QED
      BY <3>1, Filtered DEF LaneOK
  <2>2. lane' = s \o InterruptsOf(r)
    BY <1>r DEF StopBeforeTurn, Effects
  <2>3. lane # << >> /\ Head(lane).type \notin Startup => Head(lane) \in R
    BY CurrentEffect DEF Current
  <2>4. \A e \in R : e.type \notin Startup
    OBVIOUS
  <2>5. \A e \in Effects : e.type \notin Startup => e \in R
    OBVIOUS
  <2> HIDE DEF s, R
  <2>6. CASE lane' = s
    BY <2>1, <2>3, <2>4, <2>5, <2>6 DEF Effects
  <2>7. ASSUME NEW a \in Attempt, lane' = Append(s, Effect("interrupt", r, a, NoMsg))
        PROVE  /\ \A e \in Effects' : e.type \notin Startup
               /\ \A e \in Effects : e.type \notin Startup => e \in Effects'
               /\ lane # << >> /\ Head(lane).type \notin Startup => Head(lane') = Head(lane)
    <3>1. PICK e : e = Effect("interrupt", r, a, NoMsg)
      OBVIOUS
    <3>2. e \in LaneEffect /\ e.type \notin Startup
      BY <1>1, <2>7, <3>1, AttemptZero DEF Effect, LaneEffect, Startup
    <3>3. lane' = Append(s, e)
      BY <2>7, <3>1
    <3>4. ToSet(lane') = R \cup {e} /\ (s # << >> => Head(lane') = Head(s))
      BY <2>1, <3>2, <3>3, Appended
    <3> QED
      BY <2>1, <2>3, <2>4, <2>5, <3>2, <3>4 DEF Effects
  <2> QED
    BY <1>r, <1>0, <2>1, <2>2, <2>6, <2>7, InterruptsAppended
<1>5. exec' = Resting \/ (exec' = exec /\ ~(lane # << >> /\ Head(lane).type \in Startup))
  BY DEF StopBeforeTurn
<1>6. CaptureRests'
  <2> SUFFICES ASSUME exec'.pc \in {"capture", "stamp"} PROVE CaptureRests'
    BY DEF CaptureRests
  <2>1. exec' = exec
    BY <1>5 DEF Resting
  <2>2. lane # << >> /\ Current.run \in Msg /\ Current.type = "capture"
    BY <2>1, CapturedBegun
  <2>3. Head(lane').type = "capture" /\ Head(lane') = Head(lane)
    BY <1>4, <2>2 DEF Current, Startup
  <2> QED
    BY <1>2, <2>1, <2>2, <2>3, CaptureStays DEF Carried, SetsSt
<1>7. OneStartup'
  <2>1. lane' \in Seq(LaneEffect)
    BY StopBeforeTurnKeeps DEF LaneOK
  <2>2. \A i \in DOMAIN lane' : lane'[i] \in Effects'
    BY <2>1 DEF Effects, ToSet
  <2>3. \A i \in DOMAIN lane' : lane'[i].type \notin Startup
    BY <1>4, <2>2
  <2> QED
    BY <2>3 DEF OneStartup, Only, Startups
<1>8. StartupRuns'
  BY <1>4 DEF StartupRuns
<1>9. AllSafe'
  <2> SUFFICES ASSUME NEW m \in sent PROVE Safe(m)'
    BY <1>3 DEF AllSafe
  <2>1. ASSUME NEW e \in Effects, Carries(e, m) PROVE Safe(m)'
    <3>1. CASE e.type \in Startup
      <4>1. e.run \in ActiveRuns(run) /\ St(e.run) \in Live
        BY <3>1, StartupIsActive DEF Carried, Live
      <4>2. e.run = r
        BY <1>r, <1>0, <4>1, TargetsSeen
      <4>3. m = Text(r, c)
        BY <1>1, <2>1, <3>1, <4>1, <4>2 DEF Carries, Startup
      <4> QED
        BY <1>3, <4>3 DEF Safe
    <3>2. CASE e.type = "steer" /\ e.msg = m
      BY <1>4, <3>2, SafeInLane DEF Startup
    <3> QED
      BY <2>1, <3>1, <3>2 DEF Carries
  <2> QED
    BY <1>3, <2>1 DEF Carried, AllSafe, Safe
<1> QED
  BY <1>6, <1>7, <1>8, <1>9 DEF Carried

-----------------------------------------------------------------------------
(* The effect that starts a run ends, or is tried again. *)
LEMMA StartEndsCarried ==
    ASSUME MessagesInv, Carried, OpenFails \/ CallFails \/ CallSucceeds PROVE Carried'
<1> USE DEF MessagesInv
<1>r. PICK r : r = Current.run
  OBVIOUS
<1>a. PICK a : a = exec.att
  OBVIOUS
<1>0. lane # << >> /\ Current.type \in Startup /\ exec.pc \in {"open", "send"}
      /\ (OpenFails => exec.pc = "open") /\ (OpenFails \/ exec.pc = "send")
  BY DEF OpenFails, CallFails, CallSucceeds, Executing
<1>s. PICK s : s = IF exec.pc = "open" THEN "starting" ELSE "running"
  OBVIOUS
<1>1. r \in Msg /\ a \in Attempt /\ Holds(r, a, s)
  BY <1>r, <1>a, <1>s, <1>0, CurrentEffect DEF LaneInv, ExecKind, StartHolds
<1>t. PICK t : t = Text(r, a)
  OBVIOUS
<1>2. Cur(r) = a /\ St(r) = s /\ St(r) \in Live /\ t = Text(r, Cur(r)) /\ t \in Msg
  BY <1>t, <1>1, <1>s DEF Holds, RowInv, ActiveRowOK, Live
<1>4. delivered \in [Msg -> Nat]
  BY DEF RecordsOK
<1>5. CASE StartFails(s)
  <2>1. lane' = Tail(lane) /\ exec' = Resting /\ queue' = queue /\ sent' = sent
    BY <1>5 DEF StartFails, Settled, Quiet, queueVars
  <2>2. IsCurrent(r, a, s)
    BY <1>2 DEF IsCurrent, St, Cur
  <2>3. Gone' = Gone \cup {t} /\ delivered' = delivered
    BY <1>r, <1>a, <1>t, <1>5, <2>2 DEF StartFails, Text, Quiet, agentVars, Gone
  <2> QED
    BY <1>r, <1>0, <1>2, <2>1, <2>3, StartupPopped
<1>6. CASE CallSucceeds
  <2>1. lane' = Tail(lane) /\ exec' = Resting /\ queue' = queue /\ sent' = sent
    BY <1>6 DEF CallSucceeds, Settled, Quiet, queueVars
  <2>2. delivered' = [delivered EXCEPT ![t] = @ + 1] /\ Gone' = Gone
    BY <1>r, <1>a, <1>t, <1>6 DEF CallSucceeds, Delivers, Text, Quiet, Gone
  <2>3. delivered'[t] > 0 /\ \A m \in Msg : delivered[m] > 0 => delivered'[m] > 0
    BY <1>2, <1>4, <2>2
  <2> QED
    BY <1>r, <1>0, <1>2, <2>1, <2>2, <2>3, StartupPopped
<1>7. CASE OpenFails /\ WillRetry /\ TryAgain
           /\ UNCHANGED <<runVars, captured, ends, agentVars, forgone>> /\ Quiet
  <2>1. lane' = lane /\ exec'.pc = "idle"
    BY <1>7, TriesAgain
  <2>2. /\ run' = run /\ queue' = queue /\ sent' = sent /\ Gone' = Gone
        /\ delivered' = delivered /\ exec.pc \notin {"call", "send"}
    BY <1>0, <1>7 DEF Quiet, runVars, queueVars, agentVars, Gone
  <2> QED
    BY <2>1, <2>2, PlainCarried
<1>8. CASE OpenFails
  BY <1>0, <1>s, <1>5, <1>7, <1>8 DEF OpenFails
<1>9. CASE CallFails
  BY <1>s, <1>5, <1>9 DEF CallFails, Executing
<1> QED
  BY <1>6, <1>8, <1>9

LEMMA OpenSucceedsCarried == ASSUME MessagesInv, Carried, OpenSucceeds PROVE Carried'
<1> USE DEF MessagesInv
<1>r. PICK r : r = Current.run
  OBVIOUS
<1>0. lane # << >> /\ Current.type \in Startup /\ exec.pc = "open" /\ Current \in Startups
  <2>1. lane # << >> /\ Current.type \in Startup /\ exec.pc = "open"
    BY DEF OpenSucceeds, Executing
  <2> QED
    BY <2>1, CurrentEffect DEF Startups
<1>1. r \in Msg /\ Holds(r, exec.att, "starting")
  BY <1>r, <1>0, CurrentEffect DEF LaneInv, StartHolds
<1>2. IsCurrent(r, exec.att, "starting")
  BY <1>1 DEF Holds, IsCurrent, St, Cur
<1>g. GoTo("call", exec.att) /\ exec.att \in 0 .. MaxAttempts /\ "call" \in ExecPc
  BY <1>r, <1>2 DEF OpenSucceeds, LaneOK, ExecType, ExecPc
<1>3. /\ run' = [run EXCEPT ![r].st = "running"] /\ lane' = lane /\ exec'.pc = "call"
      /\ queue' = queue /\ sent' = sent /\ delivered' = delivered /\ Gone' = Gone
  BY <1>r, <1>2, <1>g, GoesTo DEF OpenSucceeds, SetStatus, Quiet, queueVars, agentVars, Gone
<1>4. SameCur /\ SameText
  BY <1>1, <1>3, StWritten DEF RunStatus, Live
<1>5. Effects' = Effects /\ Current' = Current /\ OneStartup'
  BY <1>3 DEF Effects, Current, Carried, OneStartup
<1>6. \A e \in Effects : e.type \in Startup => e = Current
  <2> SUFFICES ASSUME NEW e \in Effects, e.type \in Startup PROVE e = Current
    OBVIOUS
  <2>1. e \in Startups
    BY EffectsAreTyped DEF Startups
  <2>2. lane \in Seq(LaneEffect) /\ Only(lane, Startups) /\ Head(lane) \in Startups
    BY <1>0 DEF LaneOK, Carried, OneStartup, Current
  <2>3. ToSet(lane) = {Head(lane)} \cup ToSet(Tail(lane)) /\ ToSet(Tail(lane)) \cap Startups = {}
    BY <1>0, <2>2, Tailed
  <2> QED
    BY <2>1, <2>3 DEF Effects, Current
<1>7. StartupRuns'
  BY <1>3, <1>5, <1>6 DEF StartupRuns
<1>8. AllSafe'
  <2> SUFFICES ASSUME NEW m \in sent PROVE Safe(m)'
    BY <1>3 DEF AllSafe
  <2>1. ASSUME NEW e \in Effects, Carries(e, m) PROVE Carries(e, m)'
    <3>1. CASE e.type \in Startup
      <4>1. e.run \in Msg /\ Cur(e.run) \in Attempt
        BY <3>1, StartupIsActive DEF Carried
      <4>2. Text(e.run, Cur(e.run))' = Text(e.run, Cur(e.run))
        BY <1>4, <4>1 DEF SameCur, SameText
      <4> QED
        BY <2>1, <3>1, <4>2 DEF Carries, Startup
    <3>2. CASE e.type = "steer"
      BY <2>1, <3>2 DEF Carries, Startup
    <3> QED
      BY <2>1, <3>1, <3>2 DEF Carries
  <2> QED
    BY <1>3, <1>5, <2>1 DEF Carried, AllSafe, Safe
<1> QED
  BY <1>3, <1>5, <1>7, <1>8 DEF Carried, CaptureRests

-----------------------------------------------------------------------------
(* A run is moved that no effect starts. *)
LEMMA RowCarried ==
    ASSUME MessagesInv, Carried, NEW r \in Msg,
           \A e \in Effects : e.type \in Startup => e.run # r,
           \A q \in Msg : q # r => /\ St(q)' = St(q) /\ Cur(q)' = Cur(q)
                                   /\ \A a \in Attempt : Text(q, a)' = Text(q, a),
           NEW s, s = lane \/ (lane # << >> /\ Current.type \notin Startup \cup {"steer"}
                                /\ s = Tail(lane)),
           lane' = s \/ \E d \in LaneEffect : d.type \notin Startup /\ lane' = Append(s, d),
           (exec' = exec /\ s = lane) \/ (exec' = Resting /\ exec.pc \notin {"call", "send"}),
           St(r)' \notin {"starting", "running", "none", "queued"},
           queue' = queue, sent' = sent, Gone' = Gone, delivered' = delivered
    PROVE  Carried'
<1>1. /\ OneStartup'
      /\ \A e \in Effects' : e.type \in Startup => e \in Effects
      /\ \A e \in Effects : e \in Effects' \/ (e = Current /\ s # lane)
      /\ \A e \in Effects : e.type \in Startup => e \in Effects'
      /\ s = lane => Effects \subseteq Effects' /\ (lane # << >> => Head(lane') = Head(lane))
  BY LaneMoves DEF Carried
<1>2. CaptureRests'
  <2> SUFFICES ASSUME exec'.pc \in {"capture", "stamp"} PROVE CaptureRests'
    BY DEF CaptureRests
  <2>1. exec' = exec /\ s = lane
    BY DEF Resting
  <2>2. lane # << >> /\ Current.run \in Msg
    BY <2>1, CapturedBegun
  <2>3. \A q \in Msg : St(q)' \in {"starting", "running", "none", "queued"} => St(q)' = St(q)
    OBVIOUS
  <2> QED
    BY <1>1, <2>1, <2>2, <2>3, CaptureStays DEF Carried
<1>3. \A e \in Effects : e.type \in Startup =>
        /\ e \in Effects'
        /\ St(e.run)' = St(e.run) /\ Cur(e.run)' = Cur(e.run)
        /\ \A a \in Attempt : Text(e.run, a)' = Text(e.run, a)
  <2> SUFFICES ASSUME NEW e \in Effects, e.type \in Startup
               PROVE  /\ e \in Effects'
                      /\ St(e.run)' = St(e.run) /\ Cur(e.run)' = Cur(e.run)
                      /\ \A a \in Attempt : Text(e.run, a)' = Text(e.run, a)
    OBVIOUS
  <2>1. e.run \in Msg /\ e.run # r
    BY StartupIsActive DEF Carried
  <2> QED
    BY <1>1, <2>1
<1>4. exec.pc \in {"call", "send"} => exec'.pc \in {"call", "send"} /\ Head(lane') = Head(lane)
  BY <1>1 DEF MessagesInv, LaneInv, ExecKind
<1>5. \A e \in Effects : e.type = "steer" => e \in Effects'
  BY <1>1
<1> QED
  BY <1>1, <1>2, <1>3, <1>4, <1>5, CarriedKept

LEMMA TurnCarried ==
    ASSUME MessagesInv, Carried, NEW r \in Msg, NEW a \in Attempt,
           TurnRow(r, a) \/ TurnEnds(r, a)
    PROVE  Carried'
<1>1. PICK t \in TurnStatus : run' = [run EXCEPT ![r].turn[a] = t]
  BY DEF TurnRow, TurnEnds, SetTurn, TurnStatus
<1>2. SameSt /\ SameCur /\ SameText
  BY <1>1, TurnWritten DEF MessagesInv
<1>3. /\ lane' = lane /\ exec' = exec /\ queue' = queue /\ sent' = sent /\ delivered' = delivered
      /\ Gone' = Gone
  BY DEF TurnRow, TurnEnds, effectVars, Quiet, queueVars, agentVars, Gone
<1>4. Effects' = Effects /\ OneStartup'
  BY <1>3 DEF Effects, Carried, OneStartup
<1>5. CaptureRests'
  <2> SUFFICES ASSUME exec'.pc \in {"capture", "stamp"} PROVE CaptureRests'
    BY DEF CaptureRests
  <2>1. Current.run \in Msg
    BY <1>3, CapturedBegun
  <2> QED
    BY <1>2, <1>3, <2>1, CaptureStays DEF Carried, SameSt
<1>6. \A e \in Effects : e.type \in Startup =>
        /\ St(e.run)' = St(e.run) /\ Cur(e.run)' = Cur(e.run)
        /\ \A b \in Attempt : Text(e.run, b)' = Text(e.run, b)
  BY <1>2, StartupIsActive DEF Carried, SameSt, SameCur, SameText
<1> QED
  BY <1>3, <1>4, <1>5, <1>6, CarriedKept

LEMMA FinalizeCarried ==
    ASSUME MessagesInv, Carried, NEW r \in Msg, NEW a \in Attempt, Finalize(r, a)
    PROVE  Carried'
<1> USE DEF MessagesInv
<1>1. Turn(r, a) \in Over /\ Turn(r, a) # "none"
  BY DEF Finalize, RowInv, EndedIsOver, Over
<1>2. /\ exec' = exec /\ queue' = queue /\ sent' = sent /\ delivered' = delivered
      /\ Gone' = Gone
  BY DEF Finalize, Quiet, queueVars, agentVars, Gone
<1>3. CASE ~IsCurrent(r, a, "running")
  BY <1>2, <1>3, PlainCarried DEF Finalize
<1>4. CASE IsCurrent(r, a, "running")
  <2>1. St(r) = "running" /\ Cur(r) = a
    BY <1>4 DEF IsCurrent, St, Cur
  <2>2. \A e \in Effects : e.type \in Startup => e.run # r
    BY <1>1, <2>1, StartupIsActive DEF Carried
  <2>3. PICK x \in {"waiting", "interrupted", "failed"} : run' = [run EXCEPT ![r].st = x]
    BY <1>1, <1>4 DEF Finalize, SetStatus, Over, Turn
  <2>4. SetsSt(r, x) /\ SameCur /\ SameText
    BY <2>3, StWritten DEF RunStatus, Live, Terminal
  <2>s. PICK s : s = lane
    OBVIOUS
  <2>d. PICK d : d = Effect("capture", r, 0, NoMsg)
    OBVIOUS
  <2>5. d \in LaneEffect /\ d.type \notin Startup
    BY <2>d, AttemptZero DEF Effect, LaneEffect, Startup
  <2>6. lane' = s \/ lane' = Append(s, d)
    BY <2>s, <2>d, CaptureAppended DEF Finalize, LaneOK
  <2>7. \A q \in Msg : q # r => /\ St(q)' = St(q) /\ Cur(q)' = Cur(q)
                                /\ \A b \in Attempt : Text(q, b)' = Text(q, b)
    BY <2>4 DEF SetsSt, SameCur, SameText
  <2>8. St(r)' \notin {"starting", "running", "none", "queued"}
    BY <2>4 DEF SetsSt
  <2> QED
    BY <1>2, <2>s, <2>2, <2>5, <2>6, <2>7, <2>8, RowCarried
<1> QED
  BY <1>3, <1>4

(* An interrupt settles a run whose turn has begun: no effect starts it.    *)
LEMMA SettleRunCarried == ASSUME MessagesInv, Carried, SettleInterruptedRun PROVE Carried'
<1> USE DEF MessagesInv
<1>r. PICK r : r = cmd.msg
  OBVIOUS
<1>a. PICK a : a = exec.att
  OBVIOUS
<1>s. PICK s : s = Tail(lane)
  OBVIOUS
<1>0. /\ cmd # NoCommand /\ exec.pc = "settle" /\ lane # << >> /\ r \in Msg /\ a \in Attempt
      /\ Current.type = "interrupt"
  BY <1>r, <1>a, CommandTaken, CurrentEffect DEF SettleInterruptedRun, LockInv, CommandInv,
     LaneInv, ExecKind
<1>1. /\ exec' = Resting /\ sent' = sent /\ queue' = queue /\ delivered' = delivered
      /\ Gone' = Gone
  BY DEF SettleInterruptedRun, queueVars, histVars, agentVars, Gone
<1>2. Current.type \notin Startup \cup {"steer"}
  BY <1>0 DEF Startup
<1>3. CASE ~(cmd.copy[r].cur = a /\ cmd.copy[r].st = "running" /\ cmd.copy[r].turn[a] # "none")
  <2>1. run' = run /\ lane' = s
    BY <1>r, <1>a, <1>s, <1>3 DEF SettleInterruptedRun
  <2>2. PICK c : c = Current
    OBVIOUS
  <2>3. c.type # "steer"
    BY <1>2, <2>2
  <2>4. exec'.pc = "idle"
    BY <1>1 DEF Resting
  <2> QED
    BY <1>s, <1>0, <1>1, <1>2, <2>1, <2>2, <2>3, <2>4, CarriedStill
<1>4. CASE cmd.copy[r].cur = a /\ cmd.copy[r].st = "running" /\ cmd.copy[r].turn[a] # "none"
  <2>1. Turn(r, a) # "none" /\ Turn(r, a) \in TurnStatus /\ (St(r) \in Live => Cur(r) = a)
    BY <1>0, <1>4, RowTypes DEF LockInv, CopyInv, Copied
  <2>2. \A e \in Effects : e.type \in Startup => e.run # r
    <3> SUFFICES ASSUME NEW e \in Effects, e.type \in Startup, e.run = r PROVE FALSE
      OBVIOUS
    <3>1. St(r) \in {"starting", "running"} /\ Turn(r, Cur(r)) = "none"
      BY StartupIsActive DEF Carried
    <3> QED
      BY <2>1, <3>1 DEF Live
  <2>3. PICK t : t = IF cmd.copy[r].turn[a] = "running" THEN "interrupted" ELSE Turn(r, a)
    OBVIOUS
  <2>4. run' = [run EXCEPT ![r].st = "interrupted",
               ![r].turn[a] = IF cmd.copy[r].turn[a] = "running" THEN "interrupted" ELSE @]
    BY <1>r, <1>a, <1>4 DEF SettleInterruptedRun
  <2>5. run' = [run EXCEPT ![r].st = "interrupted", ![r].turn[a] = t]
    BY <1>0, <2>3, <2>4 DEF Rows, RunRow, Turn
  <2>6. t \in TurnStatus
    BY <2>1, <2>3 DEF TurnStatus
  <2>7. SetsSt(r, "interrupted") /\ SameCur /\ SameText
    BY <1>0, <2>5, <2>6, StTurnWritten DEF RunStatus, Terminal
  <2>d. PICK d : d = Effect("capture", r, 0, NoMsg)
    OBVIOUS
  <2>8. d \in LaneEffect /\ d.type \notin Startup
    BY <1>0, <2>d, AttemptZero DEF Effect, LaneEffect, Startup
  <2>9. lane' = s \/ lane' = Append(s, d)
    <3>1. Tail(lane) \in Seq(LaneEffect)
      BY <1>0, Tailed DEF LaneOK
    <3> QED
      BY <1>r, <1>a, <1>s, <2>d, <3>1, CaptureAppended DEF SettleInterruptedRun
  <2>10. \A q \in Msg : q # r => /\ St(q)' = St(q) /\ Cur(q)' = Cur(q)
                                 /\ \A b \in Attempt : Text(q, b)' = Text(q, b)
    BY <2>7 DEF SetsSt, SameCur, SameText
  <2>11. St(r)' \notin {"starting", "running", "none", "queued"}
    BY <1>0, <2>7 DEF SetsSt
  <2> QED
    BY <1>s, <1>0, <1>1, <1>2, <2>2, <2>8, <2>9, <2>10, <2>11, RowCarried
<1> QED
  BY <1>3, <1>4

(* What is captured does not run again. *)
LEMMA CaptureCarried ==
    ASSUME MessagesInv, Carried, CaptureReads \/ CaptureCommits PROVE Carried'
<1> USE DEF MessagesInv
<1>r. PICK r : r = Current.run
  OBVIOUS
<1>s. PICK s : s = Tail(lane)
  OBVIOUS
<1>0. /\ lane # << >> /\ Current.type = "capture" /\ r \in Msg
      /\ exec.pc \in {"idle", "capture", "stamp"}
  <2>1. lane # << >> /\ Current.type = "capture" /\ exec.pc \in {"idle", "capture", "stamp"}
    BY DEF CaptureReads, CaptureCommits, Executing
  <2> QED
    BY <1>r, <2>1, CurrentEffect
<1>1. Current.type \notin Startup \cup {"steer"}
  BY <1>0 DEF Startup
<1>2. sent' = sent /\ queue' = queue /\ delivered' = delivered /\ Gone' = Gone
  BY DEF CaptureReads, CaptureCommits, Quiet, queueVars, agentVars, Gone
<1>3. CASE CaptureReads
  <2>1. run' = run /\ exec.pc = "idle"
    BY <1>3 DEF CaptureReads, runVars, Executing
  <2>2. CASE lane' = Tail(lane) /\ exec' = Resting
    <3>1. PICK c : c = Current
      OBVIOUS
    <3>2. c.type # "steer"
      BY <1>1, <3>1
    <3>3. exec'.pc = "idle"
      BY <2>2 DEF Resting
    <3> QED
      BY <1>s, <1>0, <1>1, <1>2, <2>1, <2>2, <3>1, <3>2, <3>3, CarriedStill
  <2>3. CASE lane' = lane /\ St(r) \in {"waiting", "interrupted", "cancelled"}
             /\ exec'.pc \in {"capture", "stamp"}
    <3>1. SameSt /\ SameCur /\ SameText
      BY <2>1, RowsKept
    <3>2. Effects' = Effects /\ Current' = Current /\ OneStartup'
      BY <2>3 DEF Effects, Current, Carried, OneStartup
    <3>3. CaptureRests'
      <4>1. Current'.run = r /\ St(r)' \in {"waiting", "interrupted", "cancelled"}
        BY <1>r, <1>0, <2>3, <3>1, <3>2 DEF SameSt
      <4> QED
        BY <4>1 DEF CaptureRests, St
    <3>4. \A e \in Effects : e.type \in Startup =>
            /\ St(e.run)' = St(e.run) /\ Cur(e.run)' = Cur(e.run)
            /\ \A b \in Attempt : Text(e.run, b)' = Text(e.run, b)
      BY <3>1, StartupIsActive DEF Carried, SameSt, SameCur, SameText
    <3> QED
      BY <1>2, <2>1, <2>3, <3>2, <3>3, <3>4, CarriedKept
  <2>4. Cur(r) \in 0 .. MaxAttempts /\ {"capture", "stamp"} \subseteq ExecPc
    BY <1>0, RowTypes DEF ExecPc
  <2>5. ASSUME NEW pc \in {"capture", "stamp"}, GoTo(pc, Cur(r)),
               St(r) \in {"waiting", "interrupted", "cancelled"}
        PROVE  Carried'
    BY <2>3, <2>4, <2>5, GoesTo
  <2> QED
    BY <1>r, <1>3, <2>2, <2>5 DEF CaptureReads, Settled, St, Cur
<1>4. CASE CaptureCommits
  <2>1. exec.pc \in {"capture", "stamp"} /\ lane' = s /\ exec' = Resting
    BY <1>s, <1>4 DEF CaptureCommits, Executing, Settled
  <2>2. \A e \in Effects : e.type \in Startup => e.run # r
    BY <1>r, <2>1 DEF Carried, CaptureRests, StartupRuns
  <2>3. PICK x \in {"completed", "interrupted"} :
            run' = [run EXCEPT ![r].st = x, ![r].cur = exec.att]
    BY <1>r, <1>4 DEF CaptureCommits
  <2>4. exec.att \in 0 .. MaxAttempts
    BY DEF LaneOK, ExecType
  <2>5. SetsSt(r, x) /\ SetsCur(r, exec.att) /\ SameText
    BY <1>0, <2>3, <2>4, StCurWritten DEF RunStatus, Terminal
  <2>6. \A q \in Msg : q # r => /\ St(q)' = St(q) /\ Cur(q)' = Cur(q)
                                /\ \A b \in Attempt : Text(q, b)' = Text(q, b)
    BY <2>5 DEF SetsSt, SetsCur, SameText
  <2>7. St(r)' \notin {"starting", "running", "none", "queued"}
    BY <1>0, <2>5 DEF SetsSt
  <2> QED
    BY <1>s, <1>0, <1>1, <1>2, <2>1, <2>2, <2>6, <2>7, RowCarried
<1> QED
  BY <1>3, <1>4

-----------------------------------------------------------------------------
(* Only a restart takes a run from its end, and what it takes stays taken. *)
LEMMA LateGrows ==
    ASSUME [Next]_vars
    PROVE  late' = late \/ (RestartActive /\ (late' = {} => late' = late))
<1>1. CASE UNCHANGED vars \/ React \/ Intervene \/ \E m \in Msg : Send(m)
  BY <1>1 DEF vars, React, Intervene, Send, Begin, histVars
<1>2. CASE Commit
  BY <1>2 DEF Commit, StartAtOnce, QueueBehind, SteerActive, RestartActive, RefuseRestart,
     Promote, CancelQueued, MoveToFront, ResumeQueue, RefusePick, Refuse, StopBeforeTurn, StopTurn,
     StopIdle, histVars
<1>3. CASE \E r \in Msg, a \in Attempt : TurnGoesOn(r, a)
  BY <1>3 DEF TurnGoesOn, TurnRow, TurnEnds, Finalize, Quiet
<1>4. CASE EffectStep
  BY <1>4 DEF EffectStep, BeginStart, BeginRestart, RestartGoesOn, ReadForStart, OpenFails,
     OpenSucceeds, CheckBeforeCall, CallFails, CallSucceeds, StartFails, LoadSteer, SteerSucceeds,
     SteerFails, FollowUp, FollowUpFails, QuietSteer, BeginInterrupt, SettleInterrupt, Begin,
     SettleInterruptedRun, CaptureReads, CaptureCommits, histVars, Quiet
<1> QED
  BY <1>1, <1>2, <1>3, <1>4 DEF Next, System

LEMMA NextCarried ==
    ASSUME MessagesInv, IInv, CarriedInv, [Next]_vars
    PROVE  CarriedInv'
<1> SUFFICES ASSUME late' = {} PROVE Carried'
  BY DEF CarriedInv
<1>1. late' = late /\ late = {}
  BY LateGrows
<1>2. Carried
  BY <1>1 DEF CarriedInv
<1>3. CASE Commit
  BY <1>1, <1>2, <1>3, StartAtOnceCarried, QueueBehindCarried, SteerActiveCarried,
     RestartCarried, IdleCarried, WithdrawCarried, ReleasesCarried, StopBeforeTurnCarried,
     StopTurnCarried DEF Commit
<1>4. CASE EffectStep
  BY <1>2, <1>4, StartReadsCarried, IdleCarried, StartEndsCarried, OpenSucceedsCarried,
     SteerCarried, SettleRunCarried, CaptureCarried DEF EffectStep
<1>5. CASE \E r \in Msg, a \in Attempt : TurnGoesOn(r, a)
  BY <1>2, <1>5, TurnCarried, FinalizeCarried DEF TurnGoesOn
<1>6. CASE UNCHANGED vars \/ Intervene \/ \E m \in Msg : Send(m)
  BY <1>2, <1>6, IdleCarried
<1>7. CASE React
  BY <1>2, <1>7, ReleasesCarried
<1> QED
  BY <1>3, <1>4, <1>5, <1>6, <1>7 DEF Next, System

LEMMA InitCarried == Init => CarriedInv
<1> SUFFICES ASSUME Init PROVE Carried
  BY DEF CarriedInv
<1>1. lane = << >> /\ Effects = {} /\ exec.pc = "idle" /\ sent = {}
  BY DEF Init, Effects, ToSet, Resting
<1> QED
  BY <1>1 DEF Carried, OneStartup, Only, StartupRuns, CaptureRests, AllSafe

(* No message that the thread has taken gets lost between the lock, the     *)
(* queue, the lane and the provider, for any number of messages, attempts,  *)
(* tries and interventions: each is queued, or carried by an effect, or     *)
(* with the agent, or withdrawn by a user or part of a failure that is      *)
(* shown (Orchestrator.ts with ProviderTurnStartService and                 *)
(* CheckpointCaptureService).  The exceptions are a steer that has failed   *)
(* to its last try, of which only the log tells (ProviderTurnControlService *)
(* with EffectWorker), and a restart that took a run from its end.          *)
THEOREM NoMessageLost == Spec => []NothingLost
<1>1. MessagesInv /\ CarriedInv => NothingLost
  BY InLaneCarried, TypeParts DEF MessagesInv, CarriedInv, Carried
<1>2. MessagesInv /\ IInv /\ CarriedInv /\ [Next]_vars => CarriedInv'
  BY NextCarried
<1> QED
  BY <1>1, <1>2, InitCarried, MessagesInvariance, QueueInvariance, PTL DEF Spec
=============================================================================
