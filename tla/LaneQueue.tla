------------------------------ MODULE LaneQueue ------------------------------
(***************************************************************************)
(* What the effect outbox promises the rest of the server: each lane is a  *)
(* queue worked off strictly in the order of submission, one item at a     *)
(* time.  The item being worked on stays at the head of its lane until it  *)
(* is finished or withdrawn, however often it is put back, and an item     *)
(* that left never returns.                                                *)
(***************************************************************************)
EXTENDS Naturals, Sequences

CONSTANTS Item, Lane, LaneOf     \* LaneOf \in [Item -> Lane]

VARIABLES
    queue,      \* [Lane -> Seq(Item)]
    active,     \* the lanes whose head is being worked on
    seen        \* items ever submitted

qvars == <<queue, active, seen>>

Init ==
    /\ queue = [l \in Lane |-> << >>]
    /\ active = {}
    /\ seen = {}

(* One transaction may submit an item and withdraw others. *)
Submit(new, withdrawn) ==
    LET keep(i)  == i \notin withdrawn
        added(l) == IF \E i \in new : LaneOf[i] = l
                    THEN << CHOOSE i \in new : LaneOf[i] = l >>
                    ELSE << >>
    IN  /\ new \cap seen = {}
        /\ seen' = seen \cup new
        /\ queue' = [l \in Lane |-> SelectSeq(queue[l] \o added(l), keep)]
        /\ active' = {l \in active : Head(queue[l]) \notin withdrawn}

Begin(l) ==
    /\ l \notin active
    /\ queue[l] # << >>
    /\ active' = active \cup {l}
    /\ UNCHANGED <<queue, seen>>

PutBack(ls) ==
    /\ ls \subseteq active
    /\ active' = active \ ls
    /\ UNCHANGED <<queue, seen>>

Finish(l) ==
    /\ l \in active
    /\ active' = active \ {l}
    /\ queue' = [queue EXCEPT ![l] = Tail(@)]
    /\ UNCHANGED seen

Next ==
    \/ \E new \in {{}} \cup {{i} : i \in Item}, withdrawn \in SUBSET Item :
            Submit(new, withdrawn)
    \/ \E l \in Lane : Begin(l) \/ Finish(l)
    \/ \E ls \in SUBSET Lane : PutBack(ls)

Spec == Init /\ [][Next]_qvars
=============================================================================
