---------------------------- MODULE RunQueue_proofs ----------------------------
(***************************************************************************)
(* Proofs about RunQueue for any messages and any bounds.                   *)
(*                                                                         *)
(* A command plans from the rows it has read, while writers without the     *)
(* lock go on.  They never make a run active that was not, so that the      *)
(* active runs stay among those that the holder of the lock has seen.  Who  *)
(* holds the lock starts a run if it has seen none, or the one it has seen. *)
(***************************************************************************)
EXTENDS RunQueue, TLAPS

(* Every message has a run row, and every row a status. *)
RowsHaveStatus ==
    /\ DOMAIN run = Msg
    /\ \A m \in Msg : DOMAIN run[m] = {"st", "cur", "text", "turn"}

(* The holder of the lock has seen every run that is active, and one at     *)
(* most.                                                                    *)
CopyIsAhead ==
    cmd # NoCommand =>
        /\ ActiveRuns(run) \subseteq ActiveRuns(cmd.copy)
        /\ \A r, q \in ActiveRuns(cmd.copy) : r = q

IInv == RowsHaveStatus /\ OneActiveRun /\ CopyIsAhead

-----------------------------------------------------------------------------
(* What a write to one row does to the active runs. *)

(* No run becomes active unless the statement says so. *)
LEMMA WriteStatus ==
    ASSUME RowsHaveStatus, NEW r, NEW s, run' = [run EXCEPT ![r].st = s]
    PROVE  /\ RowsHaveStatus'
           /\ ActiveRuns(run') \subseteq ActiveRuns(run) \cup {r}
           /\ s \notin Live \/ r \in ActiveRuns(run) => ActiveRuns(run') \subseteq ActiveRuns(run)
BY DEF RowsHaveStatus, ActiveRuns

LEMMA WriteTurn ==
    ASSUME RowsHaveStatus, NEW r, NEW a, NEW t, run' = [run EXCEPT ![r].turn[a] = t]
    PROVE  /\ RowsHaveStatus'
           /\ ActiveRuns(run') \subseteq ActiveRuns(run)
BY DEF RowsHaveStatus, ActiveRuns

LEMMA WriteRun ==
    ASSUME RowsHaveStatus, NEW m, NEW s, run' = [run EXCEPT ![m] = NewRun(m, s)]
    PROVE  /\ RowsHaveStatus'
           /\ ActiveRuns(run') \subseteq ActiveRuns(run) \cup {m}
           /\ s \notin Live => ActiveRuns(run') \subseteq ActiveRuns(run)
<1>1. /\ NewRun(m, s).st = s
      /\ DOMAIN NewRun(m, s) = {"st", "cur", "text", "turn"}
  BY DEF NewRun, NoRun
<1> QED BY <1>1 DEF RowsHaveStatus, ActiveRuns

(* A step that activates nothing and keeps, takes or frees the lock. *)
LEMMA Narrowing ==
    ASSUME IInv, RowsHaveStatus', ActiveRuns(run') \subseteq ActiveRuns(run),
           cmd' = cmd \/ cmd' = NoCommand \/ cmd'.copy = run
    PROVE  IInv'
BY DEF IInv, OneActiveRun, CopyIsAhead

LEMMA Still ==
    ASSUME IInv, run' = run, cmd' = cmd \/ cmd' = NoCommand \/ cmd'.copy = run
    PROVE  IInv'
BY Narrowing DEF IInv, RowsHaveStatus

(* A step that starts one run and frees the lock, or takes place outside    *)
(* of it.                                                                   *)
LEMMA Activation ==
    ASSUME IInv, RowsHaveStatus', NEW r, ActiveRuns(run) \subseteq {r},
           ActiveRuns(run') \subseteq ActiveRuns(run) \cup {r}, cmd' = NoCommand
    PROVE  IInv'
BY DEF IInv, OneActiveRun, CopyIsAhead

-----------------------------------------------------------------------------
(* Commands and reactions. *)

LEMMA StartNextInv ==
    ASSUME IInv, NEW q, NEW h, NEW f, NEW p, StartNext(q, h, f, p), cmd' = NoCommand
    PROVE  IInv'
<1> DEFINE m == NextInLine(q, h, p)
<1>1. CASE run' = run
  BY <1>1, Still
<1>2. CASE ActiveRuns(run) = {} /\ run' = [run EXCEPT ![m].st = "starting"]
  BY <1>2, WriteStatus, Activation DEF IInv
<1> QED BY <1>1, <1>2 DEF StartNext

(* What the holder of the lock has seen. *)
LEMMA TargetsSeen ==
    ASSUME IInv, cmd # NoCommand
    PROVE  /\ ActiveRuns(run) \subseteq Targets
           /\ Targets # {} => ActiveRuns(run) \subseteq {Target}
<1>1. Targets # {} => Target \in Targets
  BY DEF Target
<1> QED BY <1>1 DEF IInv, CopyIsAhead, Targets

LEMMA CommitInv == ASSUME IInv, Commit PROVE IInv'
<1> USE DEF IInv
<1>0. NoCommand.kind = "none" /\ (cmd.kind # "none" => cmd # NoCommand)
  BY DEF NoCommand
<1>1. CASE StartAtOnce
  BY <1>0, <1>1, TargetsSeen, WriteRun, Activation DEF StartAtOnce, Sending, Sends
<1>2. CASE QueueBehind
  <2>1. run' = [run EXCEPT ![cmd.msg] = NewRun(cmd.msg, "queued")] /\ cmd' = NoCommand
    BY <1>2 DEF QueueBehind
  <2>2. "queued" \notin Live
    BY DEF Live
  <2> QED BY <2>1, <2>2, WriteRun, Narrowing
<1>3. CASE SteerActive
  BY <1>3, Still DEF SteerActive, runVars
<1>4. CASE RestartActive
  <2> DEFINE r == Target
             a == cmd.copy[r].cur + 1
  <2>1. ActiveRuns(run) \subseteq {r} /\ cmd' = NoCommand
    BY <1>0, <1>4, TargetsSeen DEF RestartActive, Steerable
  <2>2. run' = [run EXCEPT ![r].st = "starting", ![r].cur = a, ![r].text[a] = cmd.msg]
    BY <1>4 DEF RestartActive
  <2>3. RowsHaveStatus' /\ ActiveRuns(run') \subseteq ActiveRuns(run) \cup {r}
    BY <2>2 DEF RowsHaveStatus, ActiveRuns
  <2> QED BY <2>1, <2>3, Activation
<1>5. CASE RefuseRestart
  BY <1>5, Still DEF RefuseRestart, runVars
<1>6. CASE Promote
  <2>1. run' = [run EXCEPT ![cmd.msg].st = "cancelled"] /\ cmd' = NoCommand
    BY <1>6 DEF Promote
  <2>2. "cancelled" \notin Live
    BY DEF Live
  <2> QED BY <2>1, <2>2, WriteStatus, Narrowing
<1>7. CASE CancelQueued
  <2>1. run' = [run EXCEPT ![cmd.msg].st = "cancelled"] /\ cmd' = NoCommand
    BY <1>7 DEF CancelQueued
  <2>2. "cancelled" \notin Live
    BY DEF Live
  <2> QED BY <2>1, <2>2, WriteStatus, Narrowing
<1>8. CASE MoveToFront
  BY <1>8, Still DEF MoveToFront, runVars
<1>9. CASE ResumeQueue
  BY <1>9, StartNextInv DEF ResumeQueue
<1>10. CASE RefusePick
  BY <1>10, Still DEF RefusePick, Refuse, runVars
<1>11. CASE StopBeforeTurn
  <2> DEFINE r == Target
  <2>1. /\ run' = [run EXCEPT ![r].st = "interrupted", ![r].cur = cmd.copy[r].cur]
        /\ cmd' = NoCommand
    BY <1>11 DEF StopBeforeTurn
  <2>2. RowsHaveStatus' /\ ActiveRuns(run') \subseteq ActiveRuns(run)
    BY <2>1 DEF RowsHaveStatus, ActiveRuns, Live
  <2> QED BY <2>1, <2>2, Narrowing
<1>12. CASE StopTurn
  BY <1>12, Still DEF StopTurn, runVars
<1>13. CASE StopIdle
  BY <1>13, Still DEF StopIdle, runVars
<1> QED BY <1>1, <1>2, <1>3, <1>4, <1>5, <1>6, <1>7, <1>8, <1>9, <1>10, <1>11, <1>12,
           <1>13 DEF Commit

LEMMA BeginInv == ASSUME IInv, NEW k, NEW m, Begin(k, m) PROVE IInv'
<1>1. run' = run /\ cmd'.copy = run
  BY DEF Begin, runVars
<1> QED BY <1>1, Still

-----------------------------------------------------------------------------
(* Effects, the provider, finalization. *)

LEMMA StartFailsInv ==
    ASSUME IInv, NEW s, StartFails(s) PROVE IInv'
<1>1. cmd' = cmd
  BY DEF StartFails, Quiet
<1>2. CASE run' = run
  BY <1>1, <1>2, Still
<1>3. CASE run' = [run EXCEPT ![Current.run].st = "failed"]
  <2>1. "failed" \notin Live
    BY DEF Live
  <2> QED BY <1>1, <1>3, <2>1, WriteStatus, Narrowing DEF IInv
<1> QED BY <1>2, <1>3 DEF StartFails, SetStatus

LEMMA EffectStepInv == ASSUME IInv, EffectStep PROVE IInv'
<1> USE DEF IInv
<1>1. CASE BeginStart
  BY <1>1, Still DEF BeginStart, ReadForStart, runVars, Quiet
<1>2. CASE BeginRestart
  BY <1>2, Still DEF BeginRestart, Quiet
<1>3. CASE RestartGoesOn
  BY <1>3, Still DEF RestartGoesOn, ReadForStart, runVars, Quiet
<1>4. CASE OpenFails
  <2>1. CASE StartFails("starting")
    BY <2>1, StartFailsInv
  <2>2. CASE ~StartFails("starting")
    BY <1>4, <2>2, Still DEF OpenFails, runVars, Quiet
  <2> QED BY <2>1, <2>2
<1>5. CASE OpenSucceeds
  <2>1. cmd' = cmd
    BY <1>5 DEF OpenSucceeds, Quiet
  <2>2. CASE run' = run
    BY <2>1, <2>2, Still
  <2>3. CASE /\ run[Current.run].st = "starting"
             /\ run' = [run EXCEPT ![Current.run].st = "running"]
    <3>1. RowsHaveStatus' /\ ActiveRuns(run') \subseteq ActiveRuns(run)
      BY <2>3 DEF RowsHaveStatus, ActiveRuns, Live
    <3> QED BY <2>1, <3>1, Narrowing
  <2> QED BY <1>5, <2>2, <2>3 DEF OpenSucceeds, IsCurrent, SetStatus
<1>6. CASE CheckBeforeCall
  BY <1>6, Still DEF CheckBeforeCall, runVars, Quiet
<1>7. CASE CallFails
  BY <1>7, StartFailsInv DEF CallFails
<1>8. CASE CallSucceeds
  <2>1. cmd' = cmd /\ run' = [run EXCEPT ![Current.run].turn[exec.att] = "accepted"]
    BY <1>8 DEF CallSucceeds, SetTurn, Quiet
  <2> QED BY <2>1, WriteTurn, Narrowing
<1>9. CASE LoadSteer \/ SteerSucceeds \/ SteerFails \/ FollowUpFails
  BY <1>9, Still DEF LoadSteer, SteerSucceeds, SteerFails, FollowUpFails, runVars, QuietSteer
<1>10. CASE FollowUp
  BY <1>10, BeginInv DEF FollowUp
<1>11. CASE BeginInterrupt
  BY <1>11, Still DEF BeginInterrupt, Quiet
<1>12. CASE SettleInterrupt
  BY <1>12, BeginInv DEF SettleInterrupt
<1>13. CASE SettleInterruptedRun
  <2> DEFINE r == cmd.msg
             a == exec.att
             t == IF cmd.copy[r].turn[a] = "running" THEN "interrupted" ELSE run[r].turn[a]
  <2>1. cmd' = NoCommand
    BY <1>13 DEF SettleInterruptedRun
  <2>2. CASE run' = run
    BY <2>1, <2>2, Still
  <2>3. CASE run' = [run EXCEPT ![r].st = "interrupted", ![r].turn[a] = t]
    <3>1. RowsHaveStatus' /\ ActiveRuns(run') \subseteq ActiveRuns(run)
      BY <2>3 DEF RowsHaveStatus, ActiveRuns, Live
    <3> QED BY <2>1, <3>1, Narrowing
  <2> QED BY <1>13, <2>2, <2>3 DEF SettleInterruptedRun
<1>14. CASE CaptureReads
  BY <1>14, Still DEF CaptureReads, runVars, Quiet
<1>15. CASE CaptureCommits
  <2>1. PICK s \in {"completed", "interrupted"} :
          run' = [run EXCEPT ![Current.run].st = s, ![Current.run].cur = exec.att]
    BY <1>15 DEF CaptureCommits
  <2>2. RowsHaveStatus' /\ ActiveRuns(run') \subseteq ActiveRuns(run)
    BY <2>1 DEF RowsHaveStatus, ActiveRuns, Live
  <2>3. cmd' = cmd
    BY <1>15 DEF CaptureCommits, Quiet
  <2> QED BY <2>2, <2>3, Narrowing
<1> QED BY <1>1, <1>2, <1>3, <1>4, <1>5, <1>6, <1>7, <1>8, <1>9, <1>10, <1>11, <1>12,
           <1>13, <1>14, <1>15 DEF EffectStep

LEMMA ProviderInv ==
    ASSUME IInv, NEW r \in Msg, NEW a \in Attempt, TurnGoesOn(r, a)
    PROVE  IInv'
<1> USE DEF IInv
<1>1. CASE TurnRow(r, a)
  BY <1>1, WriteTurn, Narrowing DEF TurnRow, SetTurn, Quiet
<1>2. CASE TurnEnds(r, a)
  <2>1. PICK t : run' = [run EXCEPT ![r].turn[a] = t]
    BY <1>2 DEF TurnEnds, SetTurn
  <2>2. cmd' = cmd
    BY <1>2 DEF TurnEnds, Quiet
  <2> QED BY <2>1, <2>2, WriteTurn, Narrowing
<1>3. CASE Finalize(r, a)
  <2>1. cmd' = cmd
    BY <1>3 DEF Finalize, Quiet
  <2>2. CASE run' = run
    BY <2>1, <2>2, Still
  <2>3. CASE run[r].st = "running" /\ \E s : run' = [run EXCEPT ![r].st = s]
    <3>1. r \in ActiveRuns(run)
      BY <2>3 DEF ActiveRuns, Live
    <3> QED BY <2>1, <2>3, <3>1, WriteStatus, Narrowing
  <2> QED BY <1>3, <2>2, <2>3 DEF Finalize, IsCurrent, SetStatus
<1> QED BY <1>1, <1>2, <1>3 DEF TurnGoesOn

-----------------------------------------------------------------------------
LEMMA InitInv == Init => IInv
BY DEF Init, IInv, RowsHaveStatus, OneActiveRun, CopyIsAhead, ActiveRuns, NoRun, Live

LEMMA NextInv == IInv /\ [Next]_vars => IInv'
<1> SUFFICES ASSUME IInv, [Next]_vars PROVE IInv'
  OBVIOUS
<1>1. CASE UNCHANGED vars
  BY <1>1, Still DEF vars
<1>2. CASE \E m \in Msg : Send(m)
  BY <1>2, BeginInv DEF Send
<1>3. CASE Intervene
  BY <1>3, BeginInv DEF Intervene
<1>4. CASE Commit
  BY <1>4, CommitInv
<1>5. CASE React
  <2>1. PICK h, f : StartNext(queue, h, f, NoMsg)
    BY <1>5 DEF React
  <2>2. cmd' = NoCommand
    BY <1>5 DEF React
  <2> QED BY <2>1, <2>2, StartNextInv
<1>6. CASE EffectStep
  BY <1>6, EffectStepInv
<1>7. CASE \E r \in Msg, a \in Attempt : TurnGoesOn(r, a)
  BY <1>7, ProviderInv
<1> QED BY <1>1, <1>2, <1>3, <1>4, <1>5, <1>6, <1>7 DEF Next, System

(* The inductive invariant: whoever holds the thread's lock has seen every  *)
(* active run of the thread, whatever the writers without the lock do.      *)
THEOREM QueueInvariance == Spec => []IInv
BY InitInv, NextInv, PTL DEF Spec

(* A thread never has two active runs, for any number of messages, restarts *)
(* and interventions (startNextQueuedRun, dispatchMessage, the restart).    *)
THEOREM OneRunAtATime == Spec => []OneActiveRun
<1>1. IInv => OneActiveRun
  BY DEF IInv
<1> QED BY <1>1, QueueInvariance, PTL
=============================================================================
