--------------------------- MODULE EventSink_proofs ---------------------------
(***************************************************************************)
(* Proofs about EventSink for any requests, commands, threads, batch sizes *)
(* and bound on crashes.                                                   *)
(*                                                                         *)
(* The write connection serialises the transactions, and the lane extends  *)
(* the holder's turn until its batch is on the channel: LocksHeld says who *)
(* has which, BatchesNumbered what a transaction may rely on while it has  *)
(* them, and ChannelKeepsUp that the channel ends where the log does, but  *)
(* for the batch that is being published.                                  *)
(***************************************************************************)
EXTENDS EventSink, SequenceTheorems, FiniteSetTheorems, TLAPS

LocksHeld == \A r \in Request :
    /\ db = r <=> pc[r] \in {"writing", "written", "committing"}
    /\ lane = r <=> pc[r] \in {"committing", "publishing"}

BatchOf(r) == IF Known(r) THEN 0 ELSE BatchSize[r]

BatchNumbered(r) ==
    /\ pc[r] \in {"written", "committing"} =>
            /\ Len(stored[r]) = BatchOf(r)
            /\ \A k \in 1 .. BatchOf(r) : stored[r][k] = Len(log) + k
    /\ pc[r] = "publishing" =>
            /\ Len(stored[r]) <= Len(log)
            /\ \A k \in 1 .. Len(stored[r]) : stored[r][k] = Len(log) - Len(stored[r]) + k

BatchesNumbered == \A r \in Request : BatchNumbered(r)

ChannelKeepsUp ==
    channel # << >> =>
        /\ \A r \in Request : pc[r] = "publishing" =>
                channel[Len(channel)] = Len(log) - Len(stored[r])
        /\ (\A r \in Request : pc[r] # "publishing") => channel[Len(channel)] = Len(log)

LogInv ==
    /\ TypeOK
    /\ LocksHeld
    /\ BatchesNumbered
    /\ LiveOrder
    /\ ChannelKeepsUp

-----------------------------------------------------------------------------
(* What a batch does to the log. *)
LEMMA BatchAppended ==
    ASSUME log \in Seq(Request), NEW r \in Request, NEW n \in Nat,
           log' = log \o [k \in 1 .. n |-> r]
    PROVE  /\ log' \in Seq(Request)
           /\ Len(log') = Len(log) + n
           /\ \A i \in 1 .. Len(log) : log'[i] = log[i]
           /\ \A i \in Len(log) + 1 .. Len(log) + n : log'[i] = r
<1> DEFINE batch == [k \in 1 .. n |-> r]
<1>1. batch \in Seq(Request) /\ Len(batch) = n
  OBVIOUS
<1> QED
  BY <1>1, ConcatProperties

-----------------------------------------------------------------------------
(* The types of what a request holds and of what it leaves behind. *)
ControlOK ==
    /\ pc \in [Request -> Stage]
    /\ reply \in [Request -> Reply]
    /\ locked \in [Thread -> Request \cup {NoRequest}]
    /\ db \in Request \cup {NoRequest}
    /\ lane \in Request \cup {NoRequest}

StoreOK ==
    /\ log \in Seq(Request)
    /\ receiptStatus \in [Command -> {"none", "accepted", "rejected"}]
    /\ receiptBy \in [Command -> Request \cup {NoRequest}]
    /\ stored \in [Request -> Seq(Nat \ {0})]
    /\ channel \in Seq(Nat \ {0})
    /\ crashes \in 0 .. MaxCrashes

LEMMA AnswerTyped ==
    ASSUME ControlOK, NEW r \in Request, NEW a \in Reply, Answer(r, a)
    PROVE  /\ pc' \in [Request -> Stage]
           /\ reply' \in [Request -> Reply]
           /\ locked' \in [Thread -> Request \cup {NoRequest}]
  BY DEF Answer, ControlOK, Stage

LEMMA GoToTyped ==
    ASSUME ControlOK, NEW r \in Request, NEW s \in Stage, GoTo(r, s)
    PROVE  pc' \in [Request -> Stage]
  BY DEF GoTo, ControlOK

LEMMA RecordTyped ==
    ASSUME StoreOK, NEW r \in Request, NEW v \in {"accepted", "rejected"}, Record(r, v)
    PROVE  /\ receiptStatus' \in [Command -> {"none", "accepted", "rejected"}]
           /\ receiptBy' \in [Command -> Request \cup {NoRequest}]
  BY DEF Record, StoreOK

LEMMA StepPreservesControlOK ==
    ASSUME ControlOK, [Next]_vars PROVE ControlOK'
<1>1. CASE UNCHANGED vars
  BY <1>1 DEF vars, ControlOK
<1>2. ASSUME NEW r \in Request, Dispatch(r) PROVE ControlOK'
  <2>1. CASE Known(r)
    <3>1. ReplayedAnswer(r) \in Reply
      BY DEF ReplayedAnswer, Reply
    <3>2. Answer(r, ReplayedAnswer(r)) /\ UNCHANGED <<db, lane>>
      BY <1>2, <2>1 DEF Dispatch
    <3> QED
      BY <3>1, <3>2, AnswerTyped DEF ControlOK
  <2>2. CASE ~Known(r)
    BY <1>2, <2>2 DEF Dispatch, ControlOK, GoTo, Stage
  <2> QED
    BY <2>1, <2>2
<1>3. ASSUME NEW r \in Request, Plan(r) \/ EnterDirectly(r) PROVE ControlOK'
  BY <1>3 DEF Plan, EnterDirectly, ControlOK, GoTo, Stage
<1>4. ASSUME NEW r \in Request, RecordNoop(r) \/ Refuse(r) PROVE ControlOK'
  <2>1. PICK a \in Reply : Answer(r, a)
    BY <1>4 DEF RecordNoop, Refuse, Reply
  <2>2. UNCHANGED <<db, lane>>
    BY <1>4 DEF RecordNoop, Refuse
  <2> QED
    BY <2>1, <2>2, AnswerTyped DEF ControlOK
<1>5. ASSUME NEW r \in Request,
              OpenTransaction(r) \/ WriteBatch(r) \/ TakeLane(r) \/ Commit(r)
      PROVE  ControlOK'
  <2>1. PICK s \in Stage : GoTo(r, s)
    BY <1>5 DEF OpenTransaction, WriteBatch, TakeLane, Commit, Stage
  <2>2. /\ UNCHANGED <<reply, locked>>
        /\ db' \in {db, r, NoRequest} /\ lane' \in {lane, r}
    BY <1>5 DEF OpenTransaction, WriteBatch, TakeLane, Commit
  <2> QED
    BY <2>1, <2>2, GoToTyped DEF ControlOK
<1>6. ASSUME NEW r \in Request, Publish(r) PROVE ControlOK'
  <2>1. CommittedAnswer(r) \in Reply
    BY DEF CommittedAnswer, Reply
  <2>2. Answer(r, CommittedAnswer(r)) /\ db' = db /\ lane' = NoRequest
    BY <1>6 DEF Publish
  <2> QED
    BY <2>1, <2>2, AnswerTyped DEF ControlOK
<1>7. ASSUME NEW r \in Request, Abort(r) PROVE ControlOK'
  <2>1. "failed" \in Reply
    BY DEF Reply
  <2>2. Answer(r, "failed") /\ db' \in {db, NoRequest} /\ lane' \in {lane, NoRequest}
    BY <1>7 DEF Abort
  <2> QED
    BY <2>1, <2>2, AnswerTyped DEF ControlOK
<1>8. CASE Crash
  BY <1>8 DEF Crash, ControlOK, Stage, Reply
<1> QED
  BY <1>1, <1>2, <1>3, <1>4, <1>5, <1>6, <1>7, <1>8 DEF Next, Progress

LEMMA StepPreservesStoreOK ==
    ASSUME StoreOK, [Next]_vars PROVE StoreOK'
<1>1. CASE UNCHANGED <<log, receiptStatus, receiptBy, stored, channel, crashes>>
  BY <1>1 DEF StoreOK
<1>2. ASSUME NEW r \in Request, RecordNoop(r) \/ Refuse(r) PROVE StoreOK'
  <2>1. UNCHANGED <<log, stored, channel, crashes>>
    BY <1>2 DEF RecordNoop, Refuse
  <2>2. \/ UNCHANGED <<receiptStatus, receiptBy>>
        \/ \E v \in {"accepted", "rejected"} : Record(r, v)
    BY <1>2 DEF RecordNoop, Refuse
  <2> QED
    BY <2>1, <2>2, RecordTyped DEF StoreOK
<1>3. ASSUME NEW r \in Request, WriteBatch(r) PROVE StoreOK'
  <2>1. BatchOf(r) \in Nat /\ Len(log) \in Nat
    BY SinkAssumption DEF BatchOf, StoreOK
  <2>2. [k \in 1 .. BatchOf(r) |-> Len(log) + k] \in Seq(Nat \ {0})
    BY <2>1
  <2>3. /\ stored' = [stored EXCEPT ![r] = [k \in 1 .. BatchOf(r) |-> Len(log) + k]]
        /\ UNCHANGED <<log, receiptStatus, receiptBy, channel, crashes>>
    BY <1>3 DEF WriteBatch, BatchOf
  <2> QED
    BY <2>2, <2>3 DEF StoreOK
<1>4. ASSUME NEW r \in Request, Commit(r) PROVE StoreOK'
  <2>1. log' \in Seq(Request)
    BY <1>4, BatchAppended DEF Commit, StoreOK
  <2>2. UNCHANGED <<stored, channel, crashes>>
    BY <1>4 DEF Commit
  <2>3. UNCHANGED <<receiptStatus, receiptBy>> \/ Record(r, "accepted")
    BY <1>4 DEF Commit
  <2> QED
    BY <2>1, <2>2, <2>3, RecordTyped DEF StoreOK
<1>5. ASSUME NEW r \in Request, Publish(r) PROVE StoreOK'
  <2>1. channel' \in Seq(Nat \ {0})
    BY <1>5, ConcatProperties DEF Publish, StoreOK
  <2> QED
    BY <1>5, <2>1 DEF Publish, StoreOK
<1>6. CASE Crash
  BY <1>6, SinkAssumption DEF Crash, StoreOK
<1> QED
  BY <1>1, <1>2, <1>3, <1>4, <1>5, <1>6
  DEF Next, Progress, vars, Dispatch, Plan, EnterDirectly, OpenTransaction, TakeLane, Abort

LEMMA StepPreservesTypeOK ==
    ASSUME TypeOK, [Next]_vars PROVE TypeOK'
<1>1. ControlOK /\ StoreOK
  BY DEF TypeOK, ControlOK, StoreOK
<1>2. ControlOK' /\ StoreOK'
  BY <1>1, StepPreservesControlOK, StepPreservesStoreOK
<1> QED
  BY <1>2 DEF TypeOK, ControlOK, StoreOK

LEMMA StepPreservesLocksHeld ==
    ASSUME ControlOK, LocksHeld, [Next]_vars PROVE LocksHeld'
<1> USE SinkAssumption DEF ControlOK, LocksHeld, At, GoTo, Answer
<1>1. CASE UNCHANGED vars
  BY <1>1 DEF vars
<1>2. ASSUME NEW r \in Request, Dispatch(r) \/ Plan(r) \/ EnterDirectly(r)
      PROVE  LocksHeld'
  BY <1>2 DEF Dispatch, Plan, EnterDirectly
<1>7. ASSUME NEW r \in Request, RecordNoop(r) \/ Refuse(r) PROVE LocksHeld'
  <2>1. /\ UNCHANGED <<db, lane>>
        /\ pc[r] \in {"planning", "refusing"}
        /\ pc' = [pc EXCEPT ![r] = "done"]
    BY <1>7 DEF RecordNoop, Refuse
  <2> QED
    BY <2>1
<1>3. ASSUME NEW r \in Request, OpenTransaction(r) \/ WriteBatch(r) \/ TakeLane(r)
      PROVE  LocksHeld'
  BY <1>3 DEF OpenTransaction, WriteBatch, TakeLane
<1>4. ASSUME NEW r \in Request, Commit(r) \/ Publish(r) PROVE LocksHeld'
  BY <1>4 DEF Commit, Publish
<1>5. ASSUME NEW r \in Request, Abort(r) PROVE LocksHeld'
  BY <1>5 DEF Abort
<1>6. CASE Crash
  BY <1>6 DEF Crash
<1> QED
  BY <1>1, <1>2, <1>3, <1>4, <1>5, <1>6, <1>7 DEF Next, Progress

-----------------------------------------------------------------------------
(* Steps that neither write nor publish keep the numbering and the channel. *)
Quiet ==
    /\ UNCHANGED <<log, stored>>
    /\ \A r \in Request : pc'[r] = "publishing" => pc[r] = "publishing"

LEMMA QuietSteps ==
    ASSUME ControlOK, [Next]_vars
    PROVE  \/ /\ Quiet
              /\ UNCHANGED receiptStatus
              /\ \A r \in Request :
                    pc'[r] \in {"written", "committing"} => pc[r] \in {"written", "committing"}
           \/ Quiet /\ \E r \in Request : RecordNoop(r) \/ Refuse(r)
           \/ \E r \in Request : WriteBatch(r) \/ Commit(r)
<1> USE DEF ControlOK, Quiet, At, GoTo, Answer
<1>1. CASE UNCHANGED vars
  BY <1>1 DEF vars
<1>2. ASSUME NEW r \in Request, Dispatch(r)
      PROVE  /\ Quiet /\ UNCHANGED receiptStatus
             /\ pc' \in {[pc EXCEPT ![r] = "done"], [pc EXCEPT ![r] = "planning"]}
  BY <1>2 DEF Dispatch
<1>3. ASSUME NEW r \in Request, RecordNoop(r) \/ Refuse(r) PROVE Quiet
  BY <1>3 DEF RecordNoop, Refuse
<1>4. ASSUME NEW r \in Request,
              Plan(r) \/ EnterDirectly(r) \/ OpenTransaction(r) \/ TakeLane(r) \/ Abort(r)
      PROVE  /\ Quiet /\ UNCHANGED receiptStatus
             /\ \A q \in Request :
                    pc'[q] \in {"written", "committing"} => pc[q] \in {"written", "committing"}
  BY <1>4 DEF Plan, EnterDirectly, OpenTransaction, TakeLane, Abort
<1>5. ASSUME NEW r \in Request, Publish(r)
      PROVE  Quiet /\ UNCHANGED receiptStatus /\ pc' = [pc EXCEPT ![r] = "done"]
  BY <1>5 DEF Publish
<1>6. CASE Crash
  BY <1>6 DEF Crash
<1> QED
  BY <1>1, <1>2, <1>3, <1>4, <1>5, <1>6 DEF Next, Progress

LEMMA StepPreservesBatchesNumbered ==
    ASSUME TypeOK, LocksHeld, BatchesNumbered, [Next]_vars PROVE BatchesNumbered'
<1>1. ControlOK /\ StoreOK
  BY DEF TypeOK, ControlOK, StoreOK
<1>2. CASE /\ Quiet /\ UNCHANGED receiptStatus
           /\ \A r \in Request :
                 pc'[r] \in {"written", "committing"} => pc[r] \in {"written", "committing"}
  <2>1. \A r \in Request : BatchOf(r)' = BatchOf(r)
    BY <1>2 DEF BatchOf, Known
  <2> QED
    BY <1>2, <2>1 DEF BatchesNumbered, BatchNumbered, Quiet
<1>3. ASSUME Quiet, NEW r \in Request, RecordNoop(r) \/ Refuse(r) PROVE BatchesNumbered'
  <2>1. /\ db = NoRequest
        /\ pc' = [pc EXCEPT ![r] = "done"]
    BY <1>3 DEF RecordNoop, Refuse, Answer
  <2>2. \A q \in Request : pc'[q] \notin {"written", "committing"}
    BY <1>1, <2>1, SinkAssumption DEF LocksHeld, ControlOK
  <2> QED
    BY <1>3, <2>2 DEF BatchesNumbered, BatchNumbered, Quiet
<1>4. ASSUME NEW r \in Request, WriteBatch(r) PROVE BatchesNumbered'
  <2> DEFINE batch == [k \in 1 .. BatchOf(r) |-> Len(log) + k]
  <2>1. /\ stored' = [stored EXCEPT ![r] = batch]
        /\ UNCHANGED <<log, receiptStatus>>
        /\ pc[r] = "writing" /\ pc' = [pc EXCEPT ![r] = "written"]
    BY <1>4 DEF WriteBatch, BatchOf, At, GoTo
  <2>2. BatchOf(r) \in Nat
    BY SinkAssumption DEF BatchOf
  <2>3. Len(batch) = BatchOf(r) /\ \A k \in 1 .. BatchOf(r) : batch[k] = Len(log) + k
    BY <2>2
  <2>4. \A q \in Request : BatchOf(q)' = BatchOf(q)
    BY <2>1 DEF BatchOf, Known
  <2> HIDE DEF batch
  <2>5. stored'[r] = batch /\ pc'[r] = "written"
    BY <1>1, <2>1 DEF ControlOK, StoreOK
  <2>6. \A q \in Request \ {r} : stored'[q] = stored[q] /\ pc'[q] = pc[q]
    BY <1>1, <2>1 DEF ControlOK, StoreOK
  <2>8. ASSUME NEW q \in Request \ {r} PROVE BatchNumbered(q)'
    <3>1. /\ BatchNumbered(q)
          /\ stored'[q] = stored[q] /\ pc'[q] = pc[q] /\ log' = log
          /\ BatchOf(q)' = BatchOf(q)
      BY <2>1, <2>4, <2>6, <2>8 DEF BatchesNumbered
    <3> HIDE DEF BatchOf
    <3> QED
      BY <3>1 DEF BatchNumbered
  <2>9. BatchNumbered(r)'
    BY <2>1, <2>3, <2>4, <2>5 DEF BatchNumbered
  <2> QED
    BY <2>8, <2>9 DEF BatchesNumbered
<1>5. ASSUME NEW r \in Request, Commit(r) PROVE BatchesNumbered'
  <2>1. /\ pc[r] = "committing" /\ pc' = [pc EXCEPT ![r] = "publishing"]
        /\ stored' = stored
    BY <1>5 DEF Commit, At, GoTo
  <2>2. \A q \in Request \ {r} : pc'[q] \notin {"written", "committing", "publishing"}
    BY <1>1, <2>1 DEF LocksHeld, ControlOK
  <2>3. Len(stored[r]) \in Nat /\ Len(log') = Len(log) + Len(stored[r]) /\ Len(log) \in Nat
    BY <1>1, <1>5, BatchAppended DEF Commit, StoreOK
  <2>5. \A k \in 1 .. Len(stored[r]) : stored[r][k] = Len(log) + k
    BY <2>1 DEF BatchesNumbered, BatchNumbered
  <2>6. ASSUME NEW q \in Request \ {r} PROVE BatchNumbered(q)'
    BY <2>2 DEF BatchNumbered
  <2>7. /\ Len(stored'[r]) <= Len(log')
        /\ \A k \in 1 .. Len(stored'[r]) : stored'[r][k] = Len(log') - Len(stored'[r]) + k
    BY <2>1, <2>3, <2>5
  <2>8. pc'[r] = "publishing"
    BY <1>1, <2>1 DEF ControlOK
  <2>9. BatchNumbered(r)'
    BY <2>7, <2>8 DEF BatchNumbered
  <2> QED
    BY <2>6, <2>9 DEF BatchesNumbered
<1> QED
  BY <1>1, <1>2, <1>3, <1>4, <1>5, QuietSteps

-----------------------------------------------------------------------------
(* The channel. *)
Rises(s, n) ==
    /\ \A k \in 1 .. Len(s) - 1 : s[k + 1] = s[k] + 1
    /\ \A k \in 1 .. Len(s) : s[k] \in 1 .. n

LEMMA RisesOn ==
    ASSUME NEW s \in Seq(Nat \ {0}), NEW t \in Seq(Nat \ {0}), NEW n \in Nat,
           Rises(s, n), Len(t) <= n,
           \A k \in 1 .. Len(t) : t[k] = n - Len(t) + k,
           s # << >> => s[Len(s)] = n - Len(t)
    PROVE  /\ Rises(s \o t, n)
           /\ s \o t # << >> => (s \o t)[Len(s \o t)] = n
<1> DEFINE u == s \o t
<1>1. /\ Len(s) \in Nat /\ Len(t) \in Nat
      /\ Len(u) = Len(s) + Len(t)
      /\ \A k \in 1 .. Len(s) + Len(t) : u[k] = IF k <= Len(s) THEN s[k] ELSE t[k - Len(s)]
  BY ConcatProperties
<1> HIDE DEF u
<1>2. ASSUME NEW k \in 1 .. Len(u), k > Len(s)
      PROVE  u[k] = n - Len(t) + (k - Len(s))
  <2>1. k - Len(s) \in 1 .. Len(t) /\ k \in Len(s) + 1 .. Len(s) + Len(t)
    BY <1>1, <1>2
  <2>2. u[k] = t[k - Len(s)]
    BY <1>1, <2>1
  <2> QED
    BY <2>1, <2>2
<1>3. \A k \in 1 .. Len(s) : u[k] = s[k]
  BY <1>1
<1>4. Len(s) > 0 => s[Len(s)] = n - Len(t)
  BY EmptySeq
<1>5. ASSUME NEW k \in 1 .. Len(u) - 1 PROVE u[k + 1] = u[k] + 1
  <2>1. CASE k < Len(s)
    BY <1>1, <1>3, <2>1 DEF Rises
  <2>2. CASE k = Len(s)
    <3>1. k + 1 \in 1 .. Len(u) /\ k + 1 > Len(s) /\ k \in 1 .. Len(s) /\ Len(s) > 0
      BY <1>1, <1>5, <2>2
    <3>2. u[k] = n - Len(t)
      BY <1>3, <1>4, <2>2, <3>1
    <3>3. u[k + 1] = n - Len(t) + (k + 1 - Len(s))
      BY <1>2, <3>1
    <3> QED
      BY <2>2, <3>2, <3>3
  <2>3. CASE k > Len(s)
    BY <1>1, <1>2, <2>3
  <2> QED
    BY <1>1, <2>1, <2>2, <2>3
<1>6. ASSUME NEW k \in 1 .. Len(u) PROVE u[k] \in 1 .. n
  <2>1. CASE k <= Len(s)
    BY <1>1, <1>3, <2>1 DEF Rises
  <2>2. CASE k > Len(s)
    BY <1>1, <1>2, <2>2
  <2> QED
    BY <1>1, <2>1, <2>2
<1>7. u # << >> => u[Len(u)] = n
  <2>1. CASE Len(t) = 0
    <3>1. u = s
      BY <2>1, ConcatSimplifications, EmptySeq, ConcatEmptySeq DEF u
    <3> QED
      BY <2>1, <3>1
  <2>2. CASE Len(t) > 0
    BY <1>1, <1>2, <2>2
  <2> QED
    BY <1>1, <2>1, <2>2
<1> QED
  BY <1>5, <1>6, <1>7 DEF Rises, u

LEMMA StepPreservesChannel ==
    ASSUME TypeOK, LocksHeld, BatchesNumbered, LiveOrder, ChannelKeepsUp, [Next]_vars
    PROVE  LiveOrder' /\ ChannelKeepsUp'
<1>1. ControlOK /\ StoreOK
  BY DEF TypeOK, ControlOK, StoreOK
<1>2. CASE /\ UNCHANGED <<log, channel>>
           /\ \A r \in Request : (pc'[r] = "publishing") <=> (pc[r] = "publishing")
           /\ \A r \in Request : pc[r] = "publishing" => stored'[r] = stored[r]
  BY <1>2 DEF LiveOrder, ChannelKeepsUp
<1>3. ASSUME NEW r \in Request, Commit(r) PROVE LiveOrder' /\ ChannelKeepsUp'
  <2>1. /\ pc[r] = "committing" /\ pc' = [pc EXCEPT ![r] = "publishing"]
        /\ stored' = stored /\ channel' = channel
    BY <1>3 DEF Commit, At, GoTo
  <2>2. Len(stored[r]) \in Nat /\ Len(log') = Len(log) + Len(stored[r]) /\ Len(log) \in Nat
    BY <1>1, <1>3, BatchAppended DEF Commit, StoreOK
  <2>3. /\ \A q \in Request : pc[q] # "publishing"
        /\ \A q \in Request : pc'[q] = "publishing" <=> q = r
    BY <1>1, <2>1 DEF LocksHeld, ControlOK
  <2>4. LiveOrder'
    BY <1>1, <2>1, <2>2 DEF LiveOrder, StoreOK
  <2>5. channel # << >> => channel[Len(channel)] = Len(log)
    BY <2>3 DEF ChannelKeepsUp
  <2>6. Len(log) = Len(log') - Len(stored'[r])
    BY <2>1, <2>2
  <2>7. ChannelKeepsUp'
    BY <2>1, <2>3, <2>5, <2>6 DEF ChannelKeepsUp
  <2> QED
    BY <2>4, <2>7
<1>4. ASSUME NEW r \in Request, Publish(r) PROVE LiveOrder' /\ ChannelKeepsUp'
  <2>1. /\ pc[r] = "publishing" /\ pc' = [pc EXCEPT ![r] = "done"]
        /\ channel' = channel \o stored[r]
        /\ UNCHANGED <<log, stored>>
    BY <1>4 DEF Publish, At, Answer
  <2>2. /\ stored[r] \in Seq(Nat \ {0}) /\ Len(log) \in Nat
        /\ channel \in Seq(Nat \ {0})
    BY <1>1 DEF StoreOK
  <2>3. /\ Len(stored[r]) <= Len(log)
        /\ \A k \in 1 .. Len(stored[r]) : stored[r][k] = Len(log) - Len(stored[r]) + k
    BY <2>1 DEF BatchesNumbered, BatchNumbered
  <2>4. \A q \in Request : pc'[q] # "publishing"
    BY <1>1, <2>1 DEF LocksHeld, ControlOK
  <2>5. channel # << >> => channel[Len(channel)] = Len(log) - Len(stored[r])
    BY <2>1 DEF ChannelKeepsUp
  <2>6. Rises(channel, Len(log))
    BY DEF LiveOrder, Rises
  <2>7. /\ Rises(channel \o stored[r], Len(log))
        /\ channel \o stored[r] # << >> =>
                (channel \o stored[r])[Len(channel \o stored[r])] = Len(log)
    BY <2>2, <2>3, <2>5, <2>6, RisesOn
  <2>8. Rises(channel', Len(log')) /\ (channel' # << >> => channel'[Len(channel')] = Len(log'))
    BY <2>1, <2>7
  <2> QED
    BY <2>4, <2>8 DEF LiveOrder, ChannelKeepsUp, Rises
<1>5. CASE Crash
  BY <1>5 DEF Crash, LiveOrder, ChannelKeepsUp
<1>6. ASSUME NEW r \in Request, WriteBatch(r) PROVE LiveOrder' /\ ChannelKeepsUp'
  BY <1>1, <1>2, <1>6 DEF WriteBatch, At, GoTo, ControlOK, StoreOK
<1>7. ASSUME NEW r \in Request,
              \/ Dispatch(r) \/ Plan(r) \/ EnterDirectly(r) \/ OpenTransaction(r)
              \/ TakeLane(r) \/ Abort(r) \/ RecordNoop(r) \/ Refuse(r)
      PROVE  LiveOrder' /\ ChannelKeepsUp'
  <2>1. /\ UNCHANGED <<log, channel, stored>>
        /\ pc[r] # "publishing"
        /\ \E s \in Stage \ {"publishing"} : pc' = [pc EXCEPT ![r] = s]
    BY <1>7 DEF Dispatch, Plan, EnterDirectly, OpenTransaction, TakeLane, Abort, RecordNoop,
                Refuse, At, GoTo, Answer, Stage
  <2> QED
    BY <1>1, <1>2, <2>1 DEF ControlOK
<1>8. CASE UNCHANGED vars
  BY <1>2, <1>8 DEF vars
<1> QED
  BY <1>3, <1>4, <1>5, <1>6, <1>7, <1>8 DEF Next, Progress

-----------------------------------------------------------------------------
LEMMA InitLogInv == Init => LogInv
  BY SinkAssumption, EmptySeq
  DEF Init, LogInv, TypeOK, LocksHeld, BatchesNumbered, BatchNumbered, LiveOrder, ChannelKeepsUp,
      Stage, Reply

LEMMA NextLogInv == LogInv /\ [Next]_vars => LogInv'
<1> SUFFICES ASSUME LogInv, [Next]_vars PROVE LogInv'
  OBVIOUS
<1>1. ControlOK
  BY DEF LogInv, TypeOK, ControlOK
<1> QED
  BY <1>1, StepPreservesTypeOK, StepPreservesLocksHeld, StepPreservesBatchesNumbered,
     StepPreservesChannel
  DEF LogInv

(* The invariant that the theorems below follow from. *)
THEOREM LogInvariance == Spec => []LogInv
  BY InitLogInv, NextLogInv, PTL DEF Spec

(* The state of the write path is what its declarations say. *)
THEOREM SinkTypeCorrect == Spec => []TypeOK
<1>1. LogInv => TypeOK
  BY DEF LogInv
<1> QED
  BY <1>1, LogInvariance, PTL

(* The live channel announces the log in order and without a gap, for any  *)
(* number of concurrent writers (commitThenPublish).                       *)
THEOREM OrderedAnnouncements == Spec => []LiveOrder
<1>1. LogInv => LiveOrder
  BY DEF LogInv
<1> QED
  BY <1>1, LogInvariance, PTL

-----------------------------------------------------------------------------
(* Receipts and the events they stand for. *)
OnceInv == \A r \in Request :
    EventsOf(r) # {} =>
        /\ pc[r] \in {"publishing", "done"}
        /\ CommandOf[r] # NoCommand =>
                /\ receiptStatus[CommandOf[r]] = "accepted" /\ receiptBy[CommandOf[r]] = r
                /\ Cardinality(EventsOf(r)) = BatchSize[r]

(* Whoever writes a receipt has found none. *)
LEMMA ReceiptSteps ==
    ASSUME [Next]_vars
    PROVE  \/ UNCHANGED <<receiptStatus, receiptBy>>
           \/ \E r \in Request : ~Known(r) /\ \E v \in {"accepted", "rejected"} : Record(r, v)
<1>1. CASE UNCHANGED vars
  BY <1>1 DEF vars
<1>2. ASSUME NEW r \in Request,
             Dispatch(r) \/ EnterDirectly(r) \/ Plan(r) \/ OpenTransaction(r)
             \/ WriteBatch(r) \/ TakeLane(r) \/ Publish(r) \/ Abort(r)
      PROVE  UNCHANGED <<receiptStatus, receiptBy>>
  BY <1>2 DEF Dispatch, EnterDirectly, Plan, OpenTransaction, WriteBatch, TakeLane, Publish, Abort
<1>3. ASSUME NEW r \in Request, RecordNoop(r) \/ Refuse(r) \/ Commit(r)
      PROVE  \/ UNCHANGED <<receiptStatus, receiptBy>>
             \/ ~Known(r) /\ \E v \in {"accepted", "rejected"} : Record(r, v)
  BY <1>3 DEF RecordNoop, Refuse, Commit
<1>4. CASE Crash
  BY <1>4 DEF Crash
<1> QED
  BY <1>1, <1>2, <1>3, <1>4 DEF Next, Progress

LEMMA ReceiptsStay ==
    ASSUME StoreOK, [Next]_vars, NEW c \in Command, receiptStatus[c] # "none"
    PROVE  receiptStatus'[c] = receiptStatus[c] /\ receiptBy'[c] = receiptBy[c]
<1>1. ASSUME NEW r \in Request, ~Known(r), NEW v \in {"accepted", "rejected"}, Record(r, v)
      PROVE  receiptStatus'[c] = receiptStatus[c] /\ receiptBy'[c] = receiptBy[c]
  <2>1. CommandOf[r] # c
    BY <1>1, SinkAssumption DEF Known
  <2> QED
    BY <1>1, <2>1 DEF Record, StoreOK
<1> QED
  BY <1>1, ReceiptSteps

(* A commit gives its request the batch, and takes nothing from others. *)
LEMMA CommitEvents ==
    ASSUME StoreOK, NEW r \in Request, Commit(r)
    PROVE  /\ EventsOf(r)' = EventsOf(r) \cup (Len(log) + 1 .. Len(log) + Len(stored[r]))
           /\ \A q \in Request \ {r} : EventsOf(q)' = EventsOf(q)
<1>1. /\ Len(stored[r]) \in Nat /\ Len(log) \in Nat
      /\ Len(log') = Len(log) + Len(stored[r])
      /\ \A i \in 1 .. Len(log) : log'[i] = log[i]
      /\ \A i \in Len(log) + 1 .. Len(log) + Len(stored[r]) : log'[i] = r
  BY BatchAppended DEF Commit, StoreOK
<1>2. 1 .. Len(log') = (1 .. Len(log)) \cup (Len(log) + 1 .. Len(log) + Len(stored[r]))
  BY <1>1
<1> QED
  BY <1>1, <1>2 DEF EventsOf

LEMMA BatchCounted ==
    ASSUME NEW m \in Nat, NEW n \in Nat PROVE Cardinality(m + 1 .. m + n) = n
<1> DEFINE lo == m + 1
           hi == m + n
<1>1. ASSUME NEW i \in Int, NEW j \in Int
      PROVE  Cardinality(i .. j) = IF i > j THEN 0 ELSE j - i + 1
  BY FS_Interval, Zenon
<1>2. lo \in Int /\ hi \in Int
  OBVIOUS
<1>3. hi - lo + 1 = n /\ (lo > hi => n = 0)
  OBVIOUS
<1> HIDE DEF lo, hi
<1>4. Cardinality(lo .. hi) = IF lo > hi THEN 0 ELSE hi - lo + 1
  BY <1>1, <1>2, Zenon
<1>5. Cardinality(lo .. hi) = n
  BY <1>3, <1>4
<1> QED
  BY <1>5 DEF lo, hi

LEMMA StepPreservesOnceInv ==
    ASSUME ControlOK, StoreOK, BatchesNumbered, OnceInv, [Next]_vars PROVE OnceInv'
<1>1. ASSUME NEW r \in Request, Commit(r) PROVE OnceInv'
  <2> DEFINE batch == Len(log) + 1 .. Len(log) + Len(stored[r])
  <2>1. /\ pc[r] = "committing" /\ pc' = [pc EXCEPT ![r] = "publishing"]
        /\ CommandOf[r] # NoCommand /\ ~Known(r) => Record(r, "accepted")
        /\ CommandOf[r] = NoCommand \/ Known(r) => UNCHANGED <<receiptStatus, receiptBy>>
    BY <1>1 DEF Commit, At, GoTo
  <2>2. EventsOf(r) = {}
    BY <2>1 DEF OnceInv
  <2>3. EventsOf(r)' = batch /\ \A q \in Request \ {r} : EventsOf(q)' = EventsOf(q)
    BY <1>1, <2>2, CommitEvents
  <2>4. /\ Len(stored[r]) = BatchOf(r)
        /\ Len(log) \in Nat /\ BatchSize[r] \in Nat
    BY <2>1, SinkAssumption DEF BatchesNumbered, BatchNumbered, StoreOK
  <2>5. ASSUME NEW q \in Request \ {r}, EventsOf(q)' # {}
        PROVE  /\ pc'[q] \in {"publishing", "done"}
               /\ CommandOf[q] # NoCommand =>
                    /\ receiptStatus'[CommandOf[q]] = "accepted" /\ receiptBy'[CommandOf[q]] = q
                    /\ Cardinality(EventsOf(q)') = BatchSize[q]
    <3>1. EventsOf(q) # {} /\ EventsOf(q)' = EventsOf(q)
      BY <2>3, <2>5
    <3>2. pc'[q] \in {"publishing", "done"}
      BY <2>1, <3>1 DEF OnceInv, ControlOK
    <3>3. ASSUME CommandOf[q] # NoCommand
          PROVE  /\ receiptStatus'[CommandOf[q]] = "accepted"
                 /\ receiptBy'[CommandOf[q]] = q
                 /\ Cardinality(EventsOf(q)') = BatchSize[q]
      <4>1. /\ CommandOf[q] \in Command
            /\ receiptStatus[CommandOf[q]] = "accepted" /\ receiptBy[CommandOf[q]] = q
            /\ Cardinality(EventsOf(q)) = BatchSize[q]
        BY <3>1, <3>3, SinkAssumption DEF OnceInv
      <4> QED
        BY <3>1, <4>1, ReceiptsStay
    <3> QED
      BY <3>2, <3>3
  <2>6. ASSUME EventsOf(r)' # {}
        PROVE  /\ pc'[r] \in {"publishing", "done"}
               /\ CommandOf[r] # NoCommand =>
                    /\ receiptStatus'[CommandOf[r]] = "accepted" /\ receiptBy'[CommandOf[r]] = r
                    /\ Cardinality(EventsOf(r)') = BatchSize[r]
    <3>1. ~Known(r) /\ Len(stored[r]) = BatchSize[r]
      BY <2>3, <2>4, <2>6 DEF BatchOf
    <3>2. Cardinality(batch) = BatchSize[r]
      BY <2>4, <3>1, BatchCounted
    <3>3. CommandOf[r] # NoCommand =>
            receiptStatus'[CommandOf[r]] = "accepted" /\ receiptBy'[CommandOf[r]] = r
      BY <2>1, <3>1, SinkAssumption DEF Record, StoreOK
    <3>4. pc'[r] = "publishing"
      BY <2>1 DEF ControlOK
    <3> QED
      BY <2>3, <3>2, <3>3, <3>4
  <2> QED
    BY <2>5, <2>6 DEF OnceInv
<1>2. ASSUME log' = log,
             \A r \in Request : pc[r] \in {"publishing", "done"} =>
                                    pc'[r] \in {"publishing", "done"}
      PROVE  OnceInv'
  <2>1. \A r \in Request : EventsOf(r)' = EventsOf(r)
    BY <1>2 DEF EventsOf
  <2>2. ASSUME NEW r \in Request, EventsOf(r) # {}, CommandOf[r] # NoCommand
        PROVE  receiptStatus'[CommandOf[r]] = "accepted" /\ receiptBy'[CommandOf[r]] = r
    <3>1. /\ CommandOf[r] \in Command
          /\ receiptStatus[CommandOf[r]] = "accepted" /\ receiptBy[CommandOf[r]] = r
      BY <2>2, SinkAssumption DEF OnceInv
    <3> QED
      BY <3>1, ReceiptsStay
  <2> QED
    BY <1>2, <2>1, <2>2 DEF OnceInv
<1>3. ASSUME NEW r \in Request,
             \/ Dispatch(r) \/ EnterDirectly(r) \/ Plan(r) \/ RecordNoop(r) \/ Refuse(r)
             \/ OpenTransaction(r) \/ WriteBatch(r) \/ TakeLane(r) \/ Publish(r) \/ Abort(r)
      PROVE  OnceInv'
  <2>1. /\ log' = log
        /\ \E s \in Stage : pc' = [pc EXCEPT ![r] = s] /\ (s = "done" \/ pc[r] \notin {"publishing", "done"})
    BY <1>3 DEF Dispatch, EnterDirectly, Plan, RecordNoop, Refuse, OpenTransaction, WriteBatch,
                TakeLane, Publish, Abort, At, GoTo, Answer, Stage
  <2> QED
    BY <1>2, <2>1 DEF ControlOK
<1>4. CASE Crash \/ UNCHANGED vars
  BY <1>2, <1>4 DEF Crash, vars, ControlOK
<1> QED
  BY <1>1, <1>3, <1>4 DEF Next, Progress

(* A command id takes effect at most once, whatever is resent, aborted or  *)
(* cut off by a crash, and its receipt names the batch it stands for       *)
(* (commitCommand's reservation of the receipt).                           *)
THEOREM EachCommandOnce == Spec => []AtMostOnce
<1>1. Init => OnceInv
  BY EmptySeq DEF Init, OnceInv, EventsOf
<1>2. LogInv /\ OnceInv /\ [Next]_vars => OnceInv'
  BY StepPreservesOnceInv DEF LogInv, TypeOK, ControlOK, StoreOK
<1>3. OnceInv => AtMostOnce
  BY SinkAssumption DEF OnceInv, AtMostOnce
<1> QED
  BY <1>1, <1>2, <1>3, LogInvariance, PTL DEF Spec

(* No step changes a receipt: a verdict, once stored, is the command's     *)
(* verdict for ever (INSERT ... ON CONFLICT DO NOTHING).                   *)
THEOREM VerdictsStand == Spec => VerdictIsFinal
<1>1. LogInv /\ [Next]_vars =>
        [\A c \in Command : receiptStatus[c] # "none" =>
            receiptStatus'[c] = receiptStatus[c] /\ receiptBy'[c] = receiptBy[c]]_vars
  BY ReceiptsStay DEF LogInv, TypeOK, StoreOK
<1> QED
  BY <1>1, LogInvariance, PTL DEF Spec, VerdictIsFinal

-----------------------------------------------------------------------------
(* What the answers rest on.  A dispatched request that was planned holds  *)
(* its thread's lock until it leaves a verdict, and nobody else has left   *)
(* one for its command in the meantime.                                    *)
OneSender == \A r, q \in Request :
    CommandOf[r] = CommandOf[q] /\ r \notin Direct =>
        q \notin Direct /\ ThreadOf[q] = ThreadOf[r]

BeforeVerdict == {"planning", "refusing", "opening", "writing", "written", "committing"}

LockHeldUntilVerdict == \A r \in Request \ Direct :
    pc[r] \in BeforeVerdict => locked[ThreadOf[r]] = r

VerdictIsOpen == \A r \in Request \ Direct : pc[r] \in BeforeVerdict => ~Known(r)

DirectWritesOnly == \A r \in Direct : pc[r] \notin {"planning", "refusing"}

VerdictFollowsCommit == \A r \in Request : pc[r] = "publishing" =>
    /\ CommandOf[r] # NoCommand => Known(r)
    /\ CommandOf[r] = NoCommand \/ receiptBy[CommandOf[r]] = r =>
            Cardinality(EventsOf(r)) = BatchSize[r]

VerdictIsTheWriters == \A r \in Request :
    CommandOf[r] # NoCommand /\ receiptBy[CommandOf[r]] = r =>
        pc[r] \in {"publishing", "done"}

AnsweredOnce == \A r \in Request : pc[r] # "done" => reply[r] = "none"

AnswerKept(r) ==
    /\ reply[r] = "accepted" => Cardinality(EventsOf(r)) = BatchSize[r]
    /\ reply[r] \in {"replayed", "rejected"} => CommandOf[r] # NoCommand
    /\ reply[r] = "replayed" => receiptStatus[CommandOf[r]] = "accepted"
    /\ reply[r] = "rejected" => receiptStatus[CommandOf[r]] = "rejected"

AnswersInv ==
    /\ LockHeldUntilVerdict
    /\ VerdictIsOpen
    /\ DirectWritesOnly
    /\ VerdictFollowsCommit
    /\ VerdictIsTheWriters
    /\ AnsweredOnce
    /\ \A r \in Request : AnswerKept(r)

(* A dispatch leaves its verdict before it unlocks its thread. *)
LEMMA StepPreservesLockHeld ==
    ASSUME ControlOK, LockHeldUntilVerdict, [Next]_vars PROVE LockHeldUntilVerdict'
<1> USE SinkAssumption DEF ControlOK, LockHeldUntilVerdict, BeforeVerdict, At, GoTo, Answer
<1>1. CASE UNCHANGED vars
  BY <1>1 DEF vars
<1>2. ASSUME NEW r \in Request, Dispatch(r) PROVE LockHeldUntilVerdict'
  BY <1>2 DEF Dispatch
<1>3. ASSUME NEW r \in Request,
             Plan(r) \/ OpenTransaction(r) \/ WriteBatch(r) \/ TakeLane(r) \/ Commit(r)
      PROVE  LockHeldUntilVerdict'
  BY <1>3 DEF Plan, OpenTransaction, WriteBatch, TakeLane, Commit
<1>4. ASSUME NEW r \in Request, EnterDirectly(r) PROVE LockHeldUntilVerdict'
  BY <1>4 DEF EnterDirectly
<1>5. ASSUME NEW r \in Request, RecordNoop(r) \/ Refuse(r) \/ Publish(r) \/ Abort(r)
      PROVE  LockHeldUntilVerdict'
  <2>1. /\ pc' = [pc EXCEPT ![r] = "done"]
        /\ locked' = [t \in Thread |-> IF locked[t] = r THEN NoRequest ELSE locked[t]]
    BY <1>5 DEF RecordNoop, Refuse, Publish, Abort
  <2> QED
    BY <2>1
<1>6. CASE Crash
  BY <1>6 DEF Crash
<1> QED
  BY <1>1, <1>2, <1>3, <1>4, <1>5, <1>6 DEF Next, Progress

(* Two requests with one command are not both on the way to a verdict, so  *)
(* neither finds that the other has left one.                              *)
LEMMA StepPreservesVerdictIsOpen ==
    ASSUME OneSender, ControlOK, StoreOK, LockHeldUntilVerdict, VerdictIsOpen, [Next]_vars
    PROVE  VerdictIsOpen'
<1> USE DEF BeforeVerdict
<1>1. ASSUME NEW r \in Request, RecordNoop(r) \/ Refuse(r) \/ Commit(r)
      PROVE  VerdictIsOpen'
  <2>1. /\ pc[r] \in BeforeVerdict
        /\ \E s \in {"done", "publishing"} : pc' = [pc EXCEPT ![r] = s]
    BY <1>1 DEF RecordNoop, Refuse, Commit, At, GoTo, Answer
  <2>2. \/ UNCHANGED receiptStatus
        \/ \E v \in {"accepted", "rejected"} : Record(r, v)
    BY <1>1 DEF RecordNoop, Refuse, Commit
  <2> SUFFICES ASSUME NEW q \in Request \ Direct, pc'[q] \in BeforeVerdict PROVE ~Known(q)'
    BY DEF VerdictIsOpen
  <2>3. q # r /\ pc'[q] = pc[q]
    BY <2>1 DEF ControlOK
  <2>4. ~Known(q)
    BY <2>3 DEF VerdictIsOpen
  <2>5. CommandOf[q] # NoCommand /\ CommandOf[q] \in Command
    BY SinkAssumption
  <2>6. CommandOf[r] # CommandOf[q]
    <3> SUFFICES ASSUME CommandOf[r] = CommandOf[q] PROVE FALSE
      OBVIOUS
    <3>1. r \notin Direct /\ ThreadOf[r] = ThreadOf[q]
      BY DEF OneSender
    <3>2. locked[ThreadOf[q]] = q /\ locked[ThreadOf[r]] = r
      BY <2>1, <2>3, <3>1 DEF LockHeldUntilVerdict
    <3> QED
      BY <2>3, <3>1, <3>2
  <2>7. receiptStatus'[CommandOf[q]] = receiptStatus[CommandOf[q]]
    BY <2>2, <2>5, <2>6 DEF Record, StoreOK
  <2> QED
    BY <2>4, <2>7 DEF Known
<1>2. ASSUME UNCHANGED receiptStatus,
             \A r \in Request \ Direct :
                 pc'[r] \in BeforeVerdict => pc[r] \in BeforeVerdict \/ ~Known(r)
      PROVE  VerdictIsOpen'
  BY <1>2 DEF VerdictIsOpen, Known
<1>3. ASSUME NEW r \in Request, Dispatch(r) PROVE VerdictIsOpen'
  BY <1>2, <1>3 DEF Dispatch, GoTo, Answer, ControlOK
<1>4. ASSUME NEW r \in Request,
             \/ Plan(r) \/ EnterDirectly(r) \/ OpenTransaction(r) \/ WriteBatch(r)
             \/ TakeLane(r) \/ Publish(r) \/ Abort(r)
      PROVE  VerdictIsOpen'
  <2>1. /\ UNCHANGED receiptStatus
        /\ \E s \in Stage : pc' = [pc EXCEPT ![r] = s]
                            /\ (s = "done" \/ pc[r] \in BeforeVerdict \/ r \in Direct)
    BY <1>4 DEF Plan, EnterDirectly, OpenTransaction, WriteBatch, TakeLane, Publish, Abort,
                At, GoTo, Answer, Stage
  <2> QED
    BY <1>2, <2>1 DEF ControlOK
<1>5. CASE Crash \/ UNCHANGED vars
  BY <1>2, <1>5 DEF Crash, vars, ControlOK
<1> QED
  BY <1>1, <1>3, <1>4, <1>5 DEF Next, Progress

-----------------------------------------------------------------------------
(* The steps by what they mean for verdicts and answers. *)
Verdict(r) == RecordNoop(r) \/ Refuse(r)

Waits(r) == Plan(r) \/ EnterDirectly(r) \/ OpenTransaction(r) \/ WriteBatch(r) \/ TakeLane(r)

LEMMA WaitingSteps ==
    ASSUME ControlOK, NEW r \in Request, Waits(r)
    PROVE  /\ UNCHANGED <<log, receiptStatus, receiptBy, reply>>
           /\ pc[r] \notin {"publishing", "done"}
           /\ \E s \in Stage \ {"publishing", "done"} : pc' = [pc EXCEPT ![r] = s]
  BY DEF Waits, Plan, EnterDirectly, OpenTransaction, WriteBatch, TakeLane, At, GoTo, Stage

LEMMA StepPreservesAnsweredOnce ==
    ASSUME ControlOK, AnsweredOnce, [Next]_vars PROVE AnsweredOnce'
<1> USE DEF ControlOK, AnsweredOnce
<1>1. ASSUME NEW r \in Request, Waits(r) PROVE AnsweredOnce'
  BY <1>1, WaitingSteps
<1>2. ASSUME NEW r \in Request, NEW a \in Reply, Answer(r, a) PROVE AnsweredOnce'
  BY <1>2 DEF Answer
<1>3. ASSUME NEW r \in Request, Dispatch(r) PROVE AnsweredOnce'
  <2>1. CASE Known(r)
    BY <1>2, <1>3, <2>1 DEF Dispatch, ReplayedAnswer, Reply
  <2>2. CASE ~Known(r)
    BY <1>3, <2>2 DEF Dispatch, At, GoTo
  <2> QED
    BY <2>1, <2>2
<1>4. ASSUME NEW r \in Request, RecordNoop(r) \/ Refuse(r) \/ Publish(r) \/ Abort(r)
      PROVE  AnsweredOnce'
  <2>1. \E a \in Reply : Answer(r, a)
    BY <1>4 DEF RecordNoop, Refuse, Publish, Abort, CommittedAnswer, Reply
  <2> QED
    BY <1>2, <2>1
<1>5. ASSUME NEW r \in Request, Commit(r) PROVE AnsweredOnce'
  BY <1>5 DEF Commit, At, GoTo
<1>6. CASE Crash \/ UNCHANGED vars
  BY <1>6 DEF Crash, vars
<1> QED
  BY <1>1, <1>3, <1>4, <1>5, <1>6 DEF Next, Progress, Waits

LEMMA StepPreservesDirectWritesOnly ==
    ASSUME ControlOK, DirectWritesOnly, [Next]_vars PROVE DirectWritesOnly'
<1> USE SinkAssumption DEF ControlOK, DirectWritesOnly
<1>1. ASSUME NEW r \in Request,
             Dispatch(r) \/ Waits(r) \/ Verdict(r) \/ Commit(r) \/ Publish(r) \/ Abort(r)
      PROVE  DirectWritesOnly'
  <2>1. \E s \in Stage : /\ pc' = [pc EXCEPT ![r] = s]
                         /\ s \in {"planning", "refusing"} =>
                                r \notin Direct \/ pc[r] = "planning"
    BY <1>1 DEF Dispatch, Waits, Plan, EnterDirectly, OpenTransaction, WriteBatch, TakeLane,
                Verdict, RecordNoop, Refuse, Commit, Publish, Abort, At, GoTo, Answer, Stage
  <2> QED
    BY <2>1
<1>2. CASE Crash \/ UNCHANGED vars
  BY <1>2 DEF Crash, vars
<1> QED
  BY <1>1, <1>2 DEF Next, Progress, Waits, Verdict

(* A receipt names the request that left it, which is past its verdict. *)
LEMMA StepPreservesVerdictIsTheWriters ==
    ASSUME ControlOK, StoreOK, VerdictIsTheWriters, [Next]_vars PROVE VerdictIsTheWriters'
<1> DEFINE Past(r) == pc[r] \in {"publishing", "done"}
<1>1. ASSUME \A r \in Request : Past(r) => Past(r)', UNCHANGED receiptBy
      PROVE  VerdictIsTheWriters'
  BY <1>1 DEF VerdictIsTheWriters
<1>2. ASSUME NEW r \in Request, Verdict(r) \/ Commit(r) PROVE VerdictIsTheWriters'
  <2>1. \E s \in {"done", "publishing"} : pc' = [pc EXCEPT ![r] = s]
    BY <1>2 DEF Verdict, RecordNoop, Refuse, Commit, GoTo, Answer
  <2>2. UNCHANGED receiptBy \/ receiptBy' = [receiptBy EXCEPT ![CommandOf[r]] = r]
    BY <1>2 DEF Verdict, RecordNoop, Refuse, Commit, Record
  <2>3. Past(r)' /\ \A q \in Request : Past(q) => Past(q)'
    BY <2>1 DEF ControlOK
  <2>4. ASSUME NEW q \in Request \ {r}, CommandOf[q] # NoCommand, receiptBy'[CommandOf[q]] = q
        PROVE  receiptBy[CommandOf[q]] = q
    BY <2>2, <2>4, SinkAssumption DEF StoreOK
  <2> QED
    BY <2>3, <2>4 DEF VerdictIsTheWriters
<1>3. ASSUME NEW r \in Request, Waits(r) PROVE VerdictIsTheWriters'
  BY <1>1, <1>3, WaitingSteps DEF ControlOK
<1>4. ASSUME NEW r \in Request, Dispatch(r) \/ Publish(r) \/ Abort(r)
      PROVE  VerdictIsTheWriters'
  <2>1. /\ UNCHANGED receiptBy
        /\ \E s \in Stage : pc' = [pc EXCEPT ![r] = s]
                            /\ (s = "done" \/ pc[r] = "idle")
    BY <1>4 DEF Dispatch, Publish, Abort, At, GoTo, Answer, Stage
  <2> QED
    BY <1>1, <2>1 DEF ControlOK
<1>5. CASE Crash \/ UNCHANGED vars
  BY <1>1, <1>5 DEF Crash, vars, ControlOK
<1> QED
  BY <1>2, <1>3, <1>4, <1>5 DEF Next, Progress, Waits, Verdict

(* The verdict of a commit: its receipt is there, and what it accepted is  *)
(* in the log.                                                             *)
LEMMA CommitVerdict ==
    ASSUME ControlOK, StoreOK, BatchesNumbered, OnceInv, VerdictIsTheWriters,
           NEW r \in Request, Commit(r)
    PROVE  /\ CommandOf[r] # NoCommand => Known(r)'
           /\ CommandOf[r] = NoCommand \/ receiptBy'[CommandOf[r]] = r =>
                    Cardinality(EventsOf(r)') = BatchSize[r]
<1>1. /\ pc[r] = "committing"
      /\ CommandOf[r] # NoCommand /\ ~Known(r) => Record(r, "accepted")
      /\ CommandOf[r] = NoCommand \/ Known(r) => UNCHANGED <<receiptStatus, receiptBy>>
  BY DEF Commit, At
<1>2. CommandOf[r] # NoCommand => Known(r)'
  BY <1>1, SinkAssumption DEF Known, Record, StoreOK
<1>3. ASSUME CommandOf[r] = NoCommand \/ receiptBy'[CommandOf[r]] = r
      PROVE  Cardinality(EventsOf(r)') = BatchSize[r]
  <2>1. ~Known(r)
    BY <1>1, <1>3 DEF VerdictIsTheWriters, Known
  <2>2. /\ Len(log) \in Nat /\ BatchSize[r] \in Nat
        /\ Len(stored[r]) = BatchSize[r]
    BY <1>1, <2>1, SinkAssumption DEF BatchesNumbered, BatchNumbered, BatchOf, StoreOK
  <2>3. EventsOf(r) = {}
    BY <1>1 DEF OnceInv
  <2>4. EventsOf(r)' = Len(log) + 1 .. Len(log) + BatchSize[r]
    BY <2>2, <2>3, CommitEvents
  <2> QED
    BY <2>2, <2>4, BatchCounted
<1> QED
  BY <1>2, <1>3

(* What has been written about a request stays, unless it commits. *)
LEMMA EventsStay ==
    ASSUME StoreOK, [Next]_vars, NEW q \in Request, ~Commit(q)
    PROVE  EventsOf(q)' = EventsOf(q)
<1>1. ASSUME NEW r \in Request, Commit(r) PROVE EventsOf(q)' = EventsOf(q)
  BY <1>1, CommitEvents
<1>2. CASE log' = log
  BY <1>2 DEF EventsOf
<1>3. ASSUME NEW r \in Request,
             Dispatch(r) \/ Verdict(r) \/ Waits(r) \/ Publish(r) \/ Abort(r)
      PROVE  log' = log
  BY <1>3 DEF Dispatch, Verdict, RecordNoop, Refuse, Waits, Plan, EnterDirectly,
              OpenTransaction, WriteBatch, TakeLane, Publish, Abort
<1>4. ASSUME Crash \/ UNCHANGED vars PROVE log' = log
  BY <1>4 DEF Crash, vars
<1> QED
  BY <1>1, <1>2, <1>3, <1>4 DEF Next, Progress, Waits, Verdict

LEMMA StepPreservesVerdictFollowsCommit ==
    ASSUME ControlOK, StoreOK, BatchesNumbered, OnceInv, VerdictIsTheWriters,
           VerdictFollowsCommit, [Next]_vars
    PROVE  VerdictFollowsCommit'
<1> SUFFICES ASSUME NEW q \in Request, pc'[q] = "publishing"
             PROVE  /\ CommandOf[q] # NoCommand => Known(q)'
                    /\ CommandOf[q] = NoCommand \/ receiptBy'[CommandOf[q]] = q =>
                            Cardinality(EventsOf(q)') = BatchSize[q]
  BY DEF VerdictFollowsCommit
<1>1. CASE Commit(q)
  BY <1>1, CommitVerdict
<1>2. CASE ~Commit(q)
  <2>1. pc[q] = "publishing"
    <3>1. ASSUME NEW r \in Request,
                 Dispatch(r) \/ Verdict(r) \/ Publish(r) \/ Abort(r)
          PROVE  pc[q] = "publishing"
      <4>1. \E s \in {"planning", "done"} : pc' = [pc EXCEPT ![r] = s]
        BY <3>1 DEF Dispatch, Verdict, RecordNoop, Refuse, Publish, Abort, GoTo, Answer
      <4> QED
        BY <4>1 DEF ControlOK
    <3>2. ASSUME NEW r \in Request, Waits(r) PROVE pc[q] = "publishing"
      BY <3>2, WaitingSteps DEF ControlOK
    <3>3. ASSUME NEW r \in Request \ {q}, Commit(r) PROVE pc[q] = "publishing"
      BY <3>3 DEF Commit, GoTo, ControlOK
    <3>4. CASE Crash \/ UNCHANGED vars
      BY <3>4 DEF Crash, vars
    <3> QED
      BY <1>2, <3>1, <3>2, <3>3, <3>4 DEF Next, Progress, Waits, Verdict
  <2>2. EventsOf(q)' = EventsOf(q)
    BY <1>2, EventsStay
  <2>3. CASE CommandOf[q] = NoCommand
    BY <2>1, <2>2, <2>3 DEF VerdictFollowsCommit
  <2>4. CASE CommandOf[q] # NoCommand
    <3>1. Known(q) /\ CommandOf[q] \in Command
      BY <2>1, <2>4, SinkAssumption DEF VerdictFollowsCommit
    <3>2. /\ receiptStatus'[CommandOf[q]] = receiptStatus[CommandOf[q]]
          /\ receiptBy'[CommandOf[q]] = receiptBy[CommandOf[q]]
      BY <3>1, ReceiptsStay DEF Known
    <3> QED
      BY <2>1, <2>2, <2>4, <3>1, <3>2 DEF VerdictFollowsCommit, Known
  <2> QED
    BY <2>3, <2>4
<1> QED
  BY <1>1, <1>2

-----------------------------------------------------------------------------
(* An answer, once given, stays true. *)
LEMMA AnswersStay ==
    ASSUME ControlOK, StoreOK, AnsweredOnce, [Next]_vars,
           NEW q \in Request, AnswerKept(q), reply'[q] = reply[q]
    PROVE  AnswerKept(q)'
<1>1. CASE reply[q] \notin {"accepted", "replayed", "rejected"}
  BY <1>1 DEF AnswerKept
<1>2. CASE reply[q] = "accepted"
  <2>1. ~Commit(q)
    BY <1>2 DEF Commit, At, AnsweredOnce
  <2> QED
    BY <1>2, <2>1, EventsStay DEF AnswerKept
<1>3. CASE reply[q] \in {"replayed", "rejected"}
  <2>1. CommandOf[q] \in Command /\ receiptStatus[CommandOf[q]] # "none"
    BY <1>3, SinkAssumption DEF AnswerKept
  <2>2. receiptStatus'[CommandOf[q]] = receiptStatus[CommandOf[q]]
    BY <2>1, ReceiptsStay
  <2> QED
    BY <1>3, <2>2 DEF AnswerKept
<1> QED
  BY <1>1, <1>2, <1>3

(* The answer a request is given is true when it is given. *)
LEMMA DispatchAnswersTruly ==
    ASSUME ControlOK, StoreOK, NEW r \in Request, Dispatch(r), Known(r) PROVE AnswerKept(r)'
<1>1. /\ reply'[r] = ReplayedAnswer(r)
      /\ UNCHANGED receiptStatus
  BY DEF Dispatch, Answer, ControlOK
<1>2. CommandOf[r] \in Command /\ receiptStatus[CommandOf[r]] # "none"
  BY SinkAssumption DEF Known
<1> QED
  BY <1>1, <1>2 DEF ReplayedAnswer, AnswerKept, Known, StoreOK

LEMMA VerdictAnswersTruly ==
    ASSUME ControlOK, StoreOK, OnceInv, VerdictIsOpen, DirectWritesOnly,
           NEW r \in Request, Verdict(r)
    PROVE  AnswerKept(r)'
<1>1. pc[r] \in {"planning", "refusing"} /\ log' = log
  BY DEF Verdict, RecordNoop, Refuse, At
<1>2. ~Known(r) /\ CommandOf[r] \in Command /\ CommandOf[r] # NoCommand
  BY <1>1, SinkAssumption DEF VerdictIsOpen, BeforeVerdict, DirectWritesOnly
<1>3. CASE RecordNoop(r)
  <2>1. EventsOf(r) = {} /\ EventsOf(r)' = EventsOf(r)
    BY <1>1 DEF OnceInv, EventsOf
  <2>3. BatchSize[r] = 0
    BY <1>3 DEF RecordNoop
  <2>2. reply'[r] = "accepted"
    BY <1>2, <1>3 DEF RecordNoop, Answer, ControlOK
  <2> QED
    BY <2>1, <2>2, <2>3, FS_EmptySet DEF AnswerKept
<1>4. CASE Refuse(r)
  BY <1>2, <1>4 DEF Refuse, Record, Answer, AnswerKept, ControlOK, StoreOK
<1> QED
  BY <1>3, <1>4 DEF Verdict

LEMMA PublishAnswersTruly ==
    ASSUME ControlOK, StoreOK, VerdictFollowsCommit, NEW r \in Request, Publish(r)
    PROVE  AnswerKept(r)'
<1>1. /\ pc[r] = "publishing"
      /\ reply'[r] = CommittedAnswer(r)
      /\ UNCHANGED <<log, receiptStatus, receiptBy>>
  BY DEF Publish, At, Answer, ControlOK
<1>2. EventsOf(r)' = EventsOf(r)
  BY <1>1 DEF EventsOf
<1>3. CASE CommandOf[r] = NoCommand \/ receiptBy[CommandOf[r]] = r
  <2>1. reply'[r] = "accepted"
    BY <1>1, <1>3 DEF CommittedAnswer
  <2> QED
    BY <1>1, <1>2, <1>3, <2>1 DEF AnswerKept, VerdictFollowsCommit
<1>4. CASE CommandOf[r] # NoCommand /\ receiptBy[CommandOf[r]] # r
  <2>1. receiptStatus[CommandOf[r]] \in {"accepted", "rejected"}
    BY <1>1, <1>4, SinkAssumption DEF VerdictFollowsCommit, Known, StoreOK
  <2> QED
    BY <1>1, <1>4, <2>1 DEF AnswerKept, CommittedAnswer
<1> QED
  BY <1>3, <1>4

LEMMA StepPreservesAnswerKept ==
    ASSUME ControlOK, StoreOK, OnceInv, VerdictIsOpen, DirectWritesOnly,
           VerdictFollowsCommit, AnsweredOnce, [Next]_vars,
           NEW q \in Request, AnswerKept(q)
    PROVE  AnswerKept(q)'
<1>1. CASE reply'[q] = reply[q]
  BY <1>1, AnswersStay
<1>2. CASE reply'[q] = "failed"
  BY <1>2 DEF AnswerKept
<1>3. ASSUME NEW r \in Request, Dispatch(r) PROVE AnswerKept(q)'
  <2>1. CASE Known(r)
    BY <1>1, <1>3, <2>1, DispatchAnswersTruly DEF Dispatch, Answer, ControlOK
  <2>2. CASE ~Known(r)
    BY <1>1, <1>3, <2>2 DEF Dispatch
  <2> QED
    BY <2>1, <2>2
<1>4. ASSUME NEW r \in Request, Verdict(r) PROVE AnswerKept(q)'
  <2>1. r # q => reply'[q] = reply[q]
    BY <1>4 DEF Verdict, RecordNoop, Refuse, Answer, ControlOK
  <2> QED
    BY <1>1, <1>4, <2>1, VerdictAnswersTruly
<1>5. ASSUME NEW r \in Request, Publish(r) PROVE AnswerKept(q)'
  <2>1. r # q => reply'[q] = reply[q]
    BY <1>5 DEF Publish, Answer, ControlOK
  <2> QED
    BY <1>1, <1>5, <2>1, PublishAnswersTruly
<1>6. ASSUME NEW r \in Request, Abort(r) PROVE AnswerKept(q)'
  BY <1>1, <1>2, <1>6 DEF Abort, Answer, ControlOK
<1>7. ASSUME NEW r \in Request, Commit(r) \/ Waits(r) PROVE AnswerKept(q)'
  BY <1>1, <1>7, WaitingSteps DEF Commit
<1>8. CASE Crash \/ UNCHANGED vars
  BY <1>1, <1>2, <1>8 DEF Crash, vars
<1> QED
  BY <1>3, <1>4, <1>5, <1>6, <1>7, <1>8 DEF Next, Progress, Waits, Verdict

(* What a caller was told stays true, for commands that are sent by one    *)
(* kind of sender and, if dispatched, for one thread: an accepted batch is *)
(* in the log as a whole, and a refused command never gets there (dispatch *)
(* and commitCommand).  The precondition is needed: a refusal does not     *)
(* look at the receipt it finds, so a command that another thread or an    *)
(* internal writer accepted meanwhile would be answered as rejected.       *)
THEOREM TrueAnswers ==
    ASSUME OneSender PROVE Spec => []AnswersAreTrue
<1> DEFINE Kept == LogInv /\ OnceInv /\ AnswersInv
<1>1. Init => Kept
  <2>1. Init => OnceInv
    BY EmptySeq DEF Init, OnceInv, EventsOf
  <2>2. Init => AnswersInv
    BY SinkAssumption
    DEF Init, AnswersInv, LockHeldUntilVerdict, VerdictIsOpen, DirectWritesOnly,
        VerdictFollowsCommit, VerdictIsTheWriters, AnsweredOnce, AnswerKept, BeforeVerdict
  <2> QED
    BY <2>1, <2>2, InitLogInv
<1>2. Kept /\ [Next]_vars => Kept'
  <2> SUFFICES ASSUME Kept, [Next]_vars PROVE Kept'
    OBVIOUS
  <2>1. ControlOK /\ StoreOK /\ BatchesNumbered
    BY DEF LogInv, TypeOK, ControlOK, StoreOK
  <2>2. LogInv' /\ OnceInv'
    BY <2>1, NextLogInv, StepPreservesOnceInv
  <2>3. \A r \in Request : AnswerKept(r)'
    BY <2>1, StepPreservesAnswerKept DEF AnswersInv
  <2>4. LockHeldUntilVerdict' /\ VerdictIsOpen' /\ DirectWritesOnly'
    BY <2>1, StepPreservesLockHeld, StepPreservesVerdictIsOpen, StepPreservesDirectWritesOnly
    DEF AnswersInv
  <2>5. VerdictFollowsCommit' /\ VerdictIsTheWriters' /\ AnsweredOnce'
    BY <2>1, StepPreservesVerdictFollowsCommit, StepPreservesVerdictIsTheWriters,
       StepPreservesAnsweredOnce
    DEF AnswersInv
  <2> QED
    BY <2>2, <2>3, <2>4, <2>5 DEF AnswersInv
<1>3. Kept => AnswersAreTrue
  BY DEF LogInv, AnswersInv, AnswerKept, AnswersAreTrue
<1> HIDE DEF Kept
<1> QED
  BY <1>1, <1>2, <1>3, PTL DEF Spec

-----------------------------------------------------------------------------
(* The refinement of EventLog.  A commit appends, the publish step         *)
(* announces, a crash restarts the channel, and nothing else is seen.      *)
LEMMA AnnouncedWhilePublishing ==
    ASSUME LocksHeld, NEW r \in Request, pc[r] = "publishing"
    PROVE  Announced = Len(log) - Len(stored[r])
<1>1. \A q \in Request : pc[q] = "publishing" <=> q = r
  BY DEF LocksHeld
<1> QED
  BY <1>1 DEF Announced

LEMMA AnnouncedOtherwise ==
    ASSUME \A r \in Request : pc[r] # "publishing" PROVE Announced = Len(log)
  BY DEF Announced

(* Steps that neither commit nor publish nor crash are not seen. *)
LEMMA UnseenSteps ==
    ASSUME UNCHANGED <<log, channel>>,
           \A q \in Request : pc'[q] = "publishing" <=> pc[q] = "publishing",
           \A q \in Request : pc[q] = "publishing" => stored'[q] = stored[q],
           LocksHeld, LocksHeld'
    PROVE  UNCHANGED Abstract!logVars
<1>1. CASE \E r \in Request : pc[r] = "publishing"
  <2>1. PICK r \in Request : pc[r] = "publishing"
    BY <1>1
  <2>2. Announced = Len(log) - Len(stored[r])
    BY <2>1, AnnouncedWhilePublishing
  <2>3. \A q \in Request : pc'[q] = "publishing" <=> q = r
    BY <2>1 DEF LocksHeld
  <2>4. Announced' = Len(log') - Len(stored'[r])
    BY <2>3 DEF Announced
  <2> QED
    BY <2>1, <2>2, <2>4 DEF Abstract!logVars
<1>2. CASE \A r \in Request : pc[r] # "publishing"
  BY <1>2 DEF Abstract!logVars, Announced
<1> QED
  BY <1>1, <1>2

LEMMA CommitAppends ==
    ASSUME LogInv, LogInv', NEW r \in Request, Commit(r)
    PROVE  [Abstract!Next]_(Abstract!logVars)
<1> DEFINE batch == [k \in 1 .. Len(stored[r]) |-> r]
<1>1. /\ pc[r] = "committing"
      /\ log' = log \o batch
      /\ UNCHANGED <<stored, channel>>
      /\ pc' = [pc EXCEPT ![r] = "publishing"]
  BY DEF Commit, At, GoTo
<1>2. ControlOK /\ StoreOK /\ LocksHeld /\ LocksHeld'
  BY DEF LogInv, TypeOK, ControlOK, StoreOK
<1>3. \A q \in Request : pc[q] # "publishing"
  BY <1>1, <1>2 DEF LocksHeld
<1>4. \A q \in Request : pc'[q] = "publishing" <=> q = r
  BY <1>1, <1>2, <1>3 DEF ControlOK
<1>5. /\ Len(stored[r]) \in Nat /\ Len(log) \in Nat
      /\ Len(log') = Len(log) + Len(stored[r])
  BY <1>1, <1>2, BatchAppended DEF StoreOK
<1>6. Announced = Len(log)
  BY <1>3, AnnouncedOtherwise
<1>7. Announced' = Len(log') - Len(stored'[r])
  BY <1>4 DEF Announced
<1>8. Announced' = Announced
  BY <1>1, <1>5, <1>6, <1>7
<1>9. Len(stored[r]) = BatchOf(r)
  BY <1>1 DEF LogInv, BatchesNumbered, BatchNumbered
<1>10. CASE Known(r)
  <2>1. batch = << >>
    BY <1>9, <1>10 DEF BatchOf
  <2>2. log' = log
    BY <1>1, <1>2, <2>1, ConcatEmptySeq DEF StoreOK
  <2> QED
    BY <1>1, <1>8, <2>2 DEF Abstract!logVars
<1>11. CASE ~Known(r)
  <2>1. batch = [k \in 1 .. BatchSize[r] |-> r]
    BY <1>9, <1>11 DEF BatchOf
  <2>2. batch \in PlannedBatches
    BY <2>1 DEF PlannedBatches
  <2>3. Abstract!AppendToLog(batch)
    BY <1>1, <1>6, <1>8 DEF Abstract!AppendToLog
  <2> QED
    BY <2>2, <2>3 DEF Abstract!Next
<1> QED
  BY <1>10, <1>11

LEMMA PublishAnnounces ==
    ASSUME LogInv, LogInv', NEW r \in Request, Publish(r)
    PROVE  [Abstract!Next]_(Abstract!logVars)
<1>1. /\ pc[r] = "publishing"
      /\ channel' = channel \o stored[r]
      /\ UNCHANGED <<log, stored>>
      /\ pc' = [pc EXCEPT ![r] = "done"]
  BY DEF Publish, At, Answer
<1>2. ControlOK /\ StoreOK /\ LocksHeld
  BY DEF LogInv, TypeOK, ControlOK, StoreOK
<1>3. Announced = Len(log) - Len(stored[r])
  BY <1>1, <1>2, AnnouncedWhilePublishing
<1>4. \A q \in Request : pc'[q] # "publishing"
  BY <1>1, <1>2 DEF LocksHeld, ControlOK
<1>5. Announced' = Len(log)
  BY <1>1, <1>4 DEF Announced
<1>6. /\ Len(stored[r]) \in Nat /\ Len(log) \in Nat
      /\ Len(stored[r]) <= Len(log)
      /\ stored[r] \in Seq(Nat \ {0})
      /\ \A k \in 1 .. Len(stored[r]) : stored[r][k] = Len(log) - Len(stored[r]) + k
  BY <1>1, <1>2 DEF LogInv, BatchesNumbered, BatchNumbered, StoreOK
<1>7. CASE Len(stored[r]) = 0
  <2>1. channel' = channel
    BY <1>1, <1>2, <1>6, <1>7, EmptySeq, ConcatEmptySeq DEF StoreOK
  <2>2. Announced' = Announced
    BY <1>3, <1>5, <1>6, <1>7
  <2> QED
    BY <1>1, <2>1, <2>2 DEF Abstract!logVars
<1>8. CASE Len(stored[r]) > 0
  <2> DEFINE first == Announced + 1
             last == Len(log)
  <2>1. /\ first \in Nat /\ last \in Nat /\ ~(last < first)
        /\ last - first + 1 = Len(stored[r])
        /\ \A k \in 1 .. Len(stored[r]) : first + k - 1 = stored[r][k]
    <3> DEFINE n == Len(stored[r])
               m == Len(log)
    <3>1. n \in Nat /\ m \in Nat /\ n <= m /\ n > 0 /\ first = m - n + 1
      BY <1>3, <1>6, <1>8
    <3>2. \A k \in 1 .. n : stored[r][k] = m - n + k
      BY <1>6
    <3> HIDE DEF n, m, first
    <3>3. first \in Nat /\ ~(m < first) /\ m - first + 1 = n
      BY <3>1
    <3>4. \A k \in 1 .. n : first + k - 1 = stored[r][k]
      BY <3>1, <3>2
    <3> QED
      BY <3>1, <3>3, <3>4 DEF n, m
  <2>2. stored[r] = [k \in 1 .. Len(stored[r]) |-> stored[r][k]]
    BY <1>6
  <2>3. Abstract!SequencesIn(first, last) = [k \in 1 .. Len(stored[r]) |-> first + k - 1]
    BY <2>1 DEF Abstract!SequencesIn
  <2>4. Abstract!SequencesIn(first, last) = stored[r]
    BY <2>1, <2>2, <2>3
  <2>5. Announced < Len(log)
    BY <1>3, <1>6, <1>8
  <2>6. Abstract!Announce
    BY <1>1, <1>5, <2>4, <2>5 DEF Abstract!Announce
  <2> QED
    BY <2>6 DEF Abstract!Next
<1> QED
  BY <1>6, <1>7, <1>8

LEMMA StepRefines ==
    ASSUME LogInv, LogInv', [Next]_vars
    PROVE  [Abstract!Next]_(Abstract!logVars)
<1>1. ControlOK /\ StoreOK /\ LocksHeld /\ LocksHeld'
  BY DEF LogInv, TypeOK, ControlOK, StoreOK
<1>2. ASSUME NEW r \in Request,
             Dispatch(r) \/ Waits(r) \/ Verdict(r) \/ Abort(r)
      PROVE  UNCHANGED Abstract!logVars
  <2>1. /\ UNCHANGED <<log, channel>>
        /\ pc[r] # "publishing"
        /\ \E s \in Stage \ {"publishing"} : pc' = [pc EXCEPT ![r] = s]
        /\ stored' = stored \/ WriteBatch(r)
    BY <1>2 DEF Dispatch, Waits, Plan, EnterDirectly, OpenTransaction, WriteBatch, TakeLane,
                Verdict, RecordNoop, Refuse, Abort, At, GoTo, Answer, Stage
  <2>2. \A q \in Request : q # r => stored'[q] = stored[q]
    BY <1>1, <2>1 DEF WriteBatch, StoreOK
  <2> QED
    BY <1>1, <2>1, <2>2, UnseenSteps DEF ControlOK
<1>3. CASE Crash
  <2>1. \A q \in Request : pc'[q] # "publishing"
    BY <1>3 DEF Crash
  <2>2. Announced' = Len(log') /\ log' = log /\ channel' = << >>
    BY <1>3, <2>1 DEF Announced, Crash
  <2> QED
    BY <2>2 DEF Abstract!Next, Abstract!RestartLog
<1>4. CASE UNCHANGED vars
  BY <1>1, <1>4, UnseenSteps DEF vars
<1> QED
  BY <1>2, <1>3, <1>4, CommitAppends, PublishAnnounces DEF Next, Progress, Waits, Verdict

(* Any number of writers, with their receipts, locks and crashes, behave   *)
(* as one log that is announced batch by batch in its own order            *)
(* (commitThenPublish).                                                    *)
THEOREM LogRefinement == Spec => ImplementsEventLog
<1>1. Init => Abstract!LogInit
  BY EmptySeq DEF Init, Abstract!LogInit, Announced
<1>2. LogInv /\ LogInv' /\ [Next]_vars => [Abstract!Next]_(Abstract!logVars)
  BY StepRefines
<1> QED
  BY <1>1, <1>2, LogInvariance, PTL DEF Spec, ImplementsEventLog, Abstract!Spec
=============================================================================
