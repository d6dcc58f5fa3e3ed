---------------------------- MODULE MCThreadStream ----------------------------
(***************************************************************************)
(* An instance of ThreadStream for TLC: a client following mine while      *)
(* events of other take sequences too, updates of two items of one family  *)
(* and events that are no updates.                                         *)
(***************************************************************************)
EXTENDS ThreadStream

CONSTANTS mine, other, a, b, viewer

Plain   == [thread |-> mine, key |-> NoKey]
Foreign == [thread |-> other, key |-> NoKey]
UpdateA == [thread |-> mine, key |-> a]
UpdateB == [thread |-> mine, key |-> b]

Entries == {Plain, Foreign, UpdateA, UpdateB}

(* A transaction stores one or two events of one kind. *)
Batches == {[k \in 1 .. n |-> e] : n \in 1 .. 2, e \in Entries}

Families == [k \in Key |-> "turn-item"]

WatchesMine == [c \in Client |-> mine]

(* The two items are alike: the first to be updated is called a. *)
AComesFirst == \A j \in 1 .. Len(log) : log[j].key = b =>
    \E i \in 1 .. j - 1 : log[i].key = a

(* One event is no update, or of another thread. *)
OthersAreRare ==
    Cardinality({i \in 1 .. Len(log) : log[i] \in {Plain, Foreign}}) <= 1

(* The first pass marks what the second may delete: of a single event,     *)
(* nothing, since a thread's last one is kept.                             *)
PassesFindEvents == prune.passes > 0 => Len(log) > 1

(* Four events are for what it takes to coalesce: no passes and losses. *)
FourthIsUndisturbed == Len(log) = 4 => prune.passes = 0 /\ losses = 0

Instance == AComesFirst /\ OthersAreRare /\ PassesFindEvents /\ FourthIsUndisturbed
=============================================================================
