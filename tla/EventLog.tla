------------------------------- MODULE EventLog -------------------------------
(***************************************************************************)
(* What EventSink.ts promises its readers: an append-only log whose new    *)
(* events are announced on one channel, batch by batch, in log order and   *)
(* without gaps.  Nothing is appended while a batch waits to be announced. *)
(* A restart loses the channel, never the log: whoever reads the log after *)
(* the restart finds the batch that was not announced before it.           *)
(***************************************************************************)
EXTENDS Naturals, Sequences

CONSTANTS
    Entry,
    Batch           \* what one writer may append at once: sequences of entries

VARIABLES
    log,            \* Seq(Entry); an event's sequence is its position
    announced,      \* how much of the log is announced or past a restart
    channel         \* sequences announced since the server started

logVars == <<log, announced, channel>>

LogInit ==
    /\ log = << >>
    /\ announced = 0
    /\ channel = << >>

AppendToLog(batch) ==
    /\ announced = Len(log)
    /\ log' = log \o batch
    /\ UNCHANGED <<announced, channel>>

(* The sequences from one to the other, in order. *)
SequencesIn(first, last) ==
    [k \in 1 .. (IF last < first THEN 0 ELSE last - first + 1) |-> first + k - 1]

Announce ==
    /\ announced < Len(log)
    /\ announced' = Len(log)
    /\ channel' = channel \o SequencesIn(announced + 1, Len(log))
    /\ UNCHANGED log

RestartLog ==
    /\ announced' = Len(log)
    /\ channel' = << >>
    /\ UNCHANGED log

Next ==
    \/ \E batch \in Batch : AppendToLog(batch)
    \/ Announce
    \/ RestartLog

Spec == LogInit /\ [][Next]_logVars
=============================================================================
