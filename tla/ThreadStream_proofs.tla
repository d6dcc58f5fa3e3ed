-------------------------- MODULE ThreadStream_proofs --------------------------
(***************************************************************************)
(* A client that follows a thread misses none of its events, for any       *)
(* number of clients and threads, any log and any limits.                  *)
(*                                                                         *)
(* The invariant follows an event from the log to the client.  At every    *)
(* moment of a subscription the events of its thread are of three kinds:   *)
(* those ahead, which the server will still read or take from its channel, *)
(* those in flight through the coalescer and the socket, and those that    *)
(* the client holds.  They come in this order (FlowOrder), and whatever is *)
(* of none of these kinds is replaced by an event of one (FlowComplete).   *)
(* Replacing is transitive, so what coalescing drops stays accounted for.  *)
(* A pass deletes nothing that is ahead (Retained), and what a failed      *)
(* subscription leaves in flight is still without gaps (Remnant).          *)
(***************************************************************************)
EXTENDS ThreadStream, Subsequences_proofs

-----------------------------------------------------------------------------
(* The log. *)

IsLog == log \in Seq(Entry)

LEMMA EventsAreNumbers ==
    ASSUME IsLog, NEW t
    PROVE  /\ EventsOfThread(t) \subseteq 1 .. Len(log) /\ Len(log) \in Nat
           /\ EventsOfThread(t) \subseteq Nat
           /\ \A S : S \subseteq EventsOfThread(t) => IsFiniteSet(S) /\ S \subseteq Nat
<1>1. Len(log) \in Nat /\ EventsOfThread(t) \subseteq 1 .. Len(log)
  BY DEF IsLog, EventsOfThread
<1>2. IsFiniteSet(1 .. Len(log)) /\ 1 .. Len(log) \subseteq Nat
  BY <1>1, FS_Interval
<1> QED BY <1>1, <1>2, FS_Subset

LEMMA LatestIsLast ==
    ASSUME IsLog, NEW t
    PROVE  /\ Latest(t) \in EventsOfThread(t) \cup {0}
           /\ \A i \in EventsOfThread(t) : i <= Latest(t)
           /\ EventsOfThread(t) # {} => Latest(t) \in EventsOfThread(t)
<1> DEFINE I == EventsOfThread(t)
<1>1. IsFiniteSet(I) /\ I \subseteq Nat /\ 0 \notin I
  BY EventsAreNumbers
<1>2. \E m \in I \cup {0} : \A i \in I : i <= m
  <2> HIDE DEF I
  <2>1. CASE I = {}
    BY <2>1
  <2>2. CASE I # {}
    BY <1>1, <2>2, Extremes
  <2> QED BY <2>1, <2>2
<1>3. Latest(t) \in I \cup {0} /\ \A i \in I : i <= Latest(t)
  BY <1>2 DEF Latest
<1>4. I # {} => Latest(t) # 0
  <2> HIDE DEF I
  <2>1. ASSUME NEW i \in I, Latest(t) = 0 PROVE FALSE
    <3>1. i <= 0 /\ i \in Nat /\ i # 0
      BY <1>1, <1>3, <2>1
    <3> QED BY <3>1
  <2> QED BY <2>1
<1> QED BY <1>3, <1>4

LEMMA StoredEvents ==
    ASSUME IsLog, NEW t, NEW lo, NEW hi
    PROVE  /\ Stored(t, lo, hi) \in Seq(EventsOfThread(t)) /\ Rising(Stored(t, lo, hi))
           /\ ToSet(Stored(t, lo, hi)) = {i \in EventsOfThread(t) \ gone : lo < i /\ i <= hi}
<1> DEFINE I == {i \in EventsOfThread(t) \ gone : lo < i /\ i <= hi}
<1>1. I \subseteq EventsOfThread(t)
  OBVIOUS
<1>2. IsFiniteSet(I) /\ I \subseteq Nat
  BY <1>1, EventsAreNumbers
<1> HIDE DEF I
<1>3. InOrder(I) \in Seq(I) /\ Rising(InOrder(I)) /\ ToSet(InOrder(I)) = I
  BY <1>2, InOrderLists
<1>4. InOrder(I) \in Seq(EventsOfThread(t))
  BY <1>1, <1>3, SeqMonotonic
<1> QED BY <1>3, <1>4 DEF I, Stored

-----------------------------------------------------------------------------
(* Which events a later one may stand for. *)

\* n is a later state of the entity that i updated, and no event of the thread
\* in between was of another entity of the family, or no update.
Replaces(n, i) ==
    /\ i < n /\ log[i].thread = log[n].thread /\ log[n].key = log[i].key
    /\ \A x \in i + 1 .. n : log[x].thread = log[i].thread =>
        /\ log[x].key # NoKey
        /\ FamilyOf[log[x].key] = FamilyOf[log[i].key] => log[x].key = log[i].key

\* i is in the set, or an event that replaces it.
Accounted(i, K) == i \in K \/ \E n \in K : Replaces(n, i)

LEMMA ReplacesFurther ==
    ASSUME NEW i \in Nat, NEW j \in Nat, NEW n \in Nat, Replaces(j, i), Replaces(n, j)
    PROVE  Replaces(n, i)
<1>1. i < j /\ j < n /\ i < n
  BY DEF Replaces
<1>2. \A x \in i + 1 .. n : x \in i + 1 .. j \/ x \in j + 1 .. n
  BY <1>1
<1> QED BY <1>1, <1>2 DEF Replaces

(* More events account for no less, also at second hand. *)
LEMMA AccountedMore ==
    ASSUME NEW i, NEW K, NEW L, Accounted(i, K), K \subseteq L
    PROVE  Accounted(i, L)
BY DEF Accounted

LEMMA AccountedFurther ==
    ASSUME NEW i \in Nat, NEW K \in SUBSET Nat, NEW L \in SUBSET Nat, Accounted(i, K),
           \A j \in K : Accounted(j, L)
    PROVE  Accounted(i, L)
<1>1. CASE i \in K
  BY <1>1
<1>2. CASE \E j \in K : Replaces(j, i)
  <2>1. PICK j \in K : Replaces(j, i)
    BY <1>2
  <2>2. CASE j \in L
    BY <2>1, <2>2 DEF Accounted
  <2>3. CASE \E n \in L : Replaces(n, j)
    <3>1. PICK n \in L : Replaces(n, j)
      BY <2>3
    <3>2. Replaces(n, i)
      BY <2>1, <3>1, ReplacesFurther
    <3> QED BY <3>2 DEF Accounted
  <2> QED BY <2>2, <2>3 DEF Accounted
<1> QED BY <1>1, <1>2 DEF Accounted

\* A longer log does not change what replaces what.
LEMMA ReplacesStill ==
    ASSUME NEW i \in 1 .. Len(log), NEW n \in 1 .. Len(log), Len(log) \in Nat,
           \A x \in 1 .. Len(log) : log'[x] = log[x], Replaces(n, i)
    PROVE  Replaces(n, i)'
<1>1. \A x \in i + 1 .. n : x \in 1 .. Len(log)
  OBVIOUS
<1> QED BY <1>1 DEF Replaces

-----------------------------------------------------------------------------
(* Coalescing. *)

\* Without a switch of its family, a run of updates is of one entity.
LEMMA NoSwitchOneKey ==
    ASSUME NEW items \in Seq(Nat), NEW k \in DOMAIN items, NEW m \in DOMAIN items, k < m,
           log[items[k]].key # NoKey, \A p \in k + 1 .. m : ~Switches(items, p)
    PROVE  \A p \in k + 1 .. m :
              /\ log[items[p]].key # NoKey
              /\ FamilyOf[log[items[p]].key] = FamilyOf[log[items[k]].key] =>
                    log[items[p]].key = log[items[k]].key
<1>1. k \in Nat /\ m \in Nat /\ k >= 1
  OBVIOUS
<1>2. IsFiniteSet(1 .. m) /\ 1 .. m \subseteq Nat
  BY <1>1, FirstNumbers
<1> DEFINE key(q) == log[items[q]].key
           kin(q) == FamilyOf[key(q)] = FamilyOf[key(k)]
           Odd == {p \in k + 1 .. m : kin(p) /\ key(p) # key(k)}
<1>3. \A p \in k .. m : key(p) # NoKey
  <2>1. \A p \in k + 1 .. m : key(p) # NoKey
    BY DEF Switches
  <2>2. \A p \in k .. m : p = k \/ p \in k + 1 .. m
    BY <1>1
  <2> QED BY <2>1, <2>2
<1>4. Odd = {}
  <2> SUFFICES ASSUME Odd # {} PROVE FALSE
    OBVIOUS
  <2>1. Odd \subseteq 1 .. m
    BY <1>1
  <2>2. IsFiniteSet(Odd) /\ Odd \subseteq Nat
    <3> HIDE DEF Odd
    <3> QED BY <1>2, <2>1, FS_Subset
  <2>3. PICK p \in Odd : \A x \in Odd : p <= x
    <3> HIDE DEF Odd
    <3> QED BY <2>2, Extremes
  <2>4. p \in k + 1 .. m /\ kin(p) /\ key(p) # key(k)
    BY <2>3
  <2>5. p \in Nat /\ k < p /\ p <= m
    BY <1>1, <2>4
  <2> DEFINE Kin == {q \in k .. p - 1 : kin(q)}
  <2>6. k \in Kin /\ Kin \subseteq 1 .. m
    <3>1. k \in k .. p - 1 /\ k .. p - 1 \subseteq 1 .. m
      <4> HIDE DEF Odd
      <4> QED BY <1>1, <2>5
    <3> HIDE DEF key, Odd
    <3> QED BY <3>1
  <2>7. IsFiniteSet(Kin) /\ Kin \subseteq Nat
    <3> HIDE DEF Kin
    <3> QED BY <1>2, <2>6, FS_Subset
  <2>8. PICK q \in Kin : \A x \in Kin : x <= q
    <3> HIDE DEF Kin
    <3> QED BY <2>6, <2>7, Extremes
  <2>9. q \in k .. p - 1 /\ kin(q)
    BY <2>8
  <2>10. q \in Nat /\ k <= q /\ q < p /\ q \in 1 .. p - 1
    BY <1>1, <2>5, <2>9
  <2>11. key(q) = key(k)
    <3>1. CASE q = k
      BY <3>1
    <3>2. CASE q # k
      <4>1. q \in k + 1 .. m /\ ~(p <= q)
        <5> HIDE DEF key, kin, Odd, Kin
        <5> QED BY <1>1, <2>5, <2>10, <3>2
      <4>2. q \notin Odd
        <5> HIDE DEF Odd
        <5> QED BY <2>3, <4>1
      <4> QED BY <2>9, <4>1, <4>2
    <3> QED BY <3>1, <3>2
  <2>12. \A x \in q + 1 .. p - 1 : key(x) # NoKey /\ FamilyOf[key(x)] # FamilyOf[key(p)]
    <3> SUFFICES ASSUME NEW x \in q + 1 .. p - 1
                 PROVE  key(x) # NoKey /\ FamilyOf[key(x)] # FamilyOf[key(p)]
      OBVIOUS
    <3>1. x \in k .. p - 1 /\ x \in k .. m /\ ~(x <= q)
      <4> HIDE DEF key, kin, Odd, Kin
      <4> QED BY <1>1, <2>5, <2>10
    <3>2. x \notin Kin
      <4> HIDE DEF Kin
      <4> QED BY <2>8, <3>1
    <3>3. ~kin(x)
      BY <3>1, <3>2
    <3> QED BY <1>3, <2>4, <3>1, <3>3
  <2>13. key(q) # NoKey
    <3>1. q \in k .. m
      <4> HIDE DEF key, kin, Odd, Kin
      <4> QED BY <1>1, <2>5, <2>10
    <3> QED BY <1>3, <3>1
  <2>14. Switches(items, p)
    BY <2>4, <2>9, <2>10, <2>11, <2>12, <2>13 DEF Switches
  <2> QED BY <2>4, <2>14
<1>5. \A p \in k + 1 .. m : p \in k .. m
  BY <1>1
<1> QED BY <1>3, <1>4, <1>5

\* Events of a thread one after the other, none left out.
Gapless(items, t) ==
    \A x, y \in ToSet(items), i \in EventsOfThread(t) : x < i /\ i < y => i \in ToSet(items)

\* What coalescing drops is replaced by what it keeps.
LEMMA CoalesceKeeps ==
    ASSUME IsLog, NEW t, NEW items \in Seq(EventsOfThread(t)), Rising(items), Gapless(items, t)
    PROVE  /\ Coalesce(items) \in Seq(EventsOfThread(t)) /\ Rising(Coalesce(items))
           /\ ToSet(Coalesce(items)) \subseteq ToSet(items)
           /\ \A i \in ToSet(items) : Accounted(i, ToSet(Coalesce(items)))
<1> DEFINE n == Len(items)
           I == {k \in DOMAIN items : ~Superseded(items, k)}
           kept == InOrder(I)
           out == Coalesce(items)
<1>1. /\ n \in Nat /\ DOMAIN items = 1 .. n /\ \A k \in 1 .. n : items[k] \in EventsOfThread(t)
      /\ EventsOfThread(t) \subseteq Nat /\ items \in Seq(Nat)
  <2>1. EventsOfThread(t) \subseteq Nat
    BY EventsAreNumbers
  <2> QED BY <2>1, SeqMonotonic
<1>2. IsFiniteSet(1 .. n) /\ 1 .. n \subseteq Nat
  BY <1>1, FS_Interval
<1>3. IsFiniteSet(I) /\ I \subseteq Nat /\ I \subseteq 1 .. n
  BY <1>1, <1>2, FS_Subset
<1>4. kept \in Seq(I) /\ Rising(kept) /\ ToSet(kept) = I
  <2> HIDE DEF I
  <2> QED BY <1>3, InOrderLists
<1>5. out = [k \in DOMAIN kept |-> items[kept[k]]]
  BY DEF Coalesce
<1>6. \A m \in 1 .. n : m \in I <=> ~Superseded(items, m)
  BY <1>1
<1> HIDE DEF I, kept, out
<1>7. DOMAIN kept = 1 .. Len(kept) /\ Len(kept) \in Nat /\ \A k \in DOMAIN kept : kept[k] \in I
  BY <1>4
<1>8. out \in Seq(EventsOfThread(t)) /\ DOMAIN out = DOMAIN kept
  <2>1. \A k \in DOMAIN kept : items[kept[k]] \in EventsOfThread(t)
    BY <1>1, <1>3, <1>7
  <2> QED BY <1>5, <1>7, <2>1
<1>9. Rising(out)
  BY <1>1, <1>3, <1>4, <1>5, <1>7, <1>8 DEF Rising
<1>10. \A k \in I : items[k] \in ToSet(out)
  <2> SUFFICES ASSUME NEW k \in I PROVE items[k] \in ToSet(out)
    OBVIOUS
  <2>1. PICK l \in DOMAIN kept : kept[l] = k
    BY <1>4 DEF ToSet
  <2> QED BY <1>5, <1>8, <2>1 DEF ToSet
<1>11. ToSet(out) \subseteq ToSet(items)
  BY <1>1, <1>3, <1>5, <1>7, <1>8 DEF ToSet
<1>12. ASSUME NEW k \in 1 .. n PROVE Accounted(items[k], ToSet(out))
  <2>1. CASE ~Superseded(items, k)
    BY <1>6, <1>10, <2>1 DEF Accounted
  <2>2. CASE Superseded(items, k)
    <3> DEFINE M == {m \in k + 1 .. n : /\ log[items[m]].key = log[items[k]].key
                                        /\ \A p \in k + 1 .. m : ~Switches(items, p)}
    <3>1. M # {}
      BY <2>2 DEF Superseded
    <3>2. IsFiniteSet(M) /\ M \subseteq Nat /\ M \subseteq 1 .. n
      <4>1. k + 1 .. n \subseteq 1 .. n
        BY <1>1
      <4> QED BY <1>2, <4>1, FS_Subset
    <3>3. PICK m \in M : \A x \in M : x <= m
      <4> HIDE DEF M
      <4> QED BY <3>1, <3>2, Extremes
    <3>4. /\ m \in k + 1 .. n /\ m \in 1 .. n /\ k < m /\ log[items[m]].key = log[items[k]].key
          /\ \A p \in k + 1 .. m : ~Switches(items, p)
      BY <1>1, <3>2, <3>3
    <3>5. ~Superseded(items, m)
      <4> SUFFICES ASSUME NEW l \in m + 1 .. n, log[items[l]].key = log[items[m]].key,
                          \A p \in m + 1 .. l : ~Switches(items, p)
                   PROVE  FALSE
        BY DEF Superseded
      <4>1. l \in k + 1 .. n /\ ~(l <= m)
        BY <1>1, <3>4
      <4>2. \A p \in k + 1 .. l : p \in k + 1 .. m \/ p \in m + 1 .. l
        BY <1>1, <3>4, <4>1
      <4>3. l \in M
        BY <3>4, <4>1, <4>2
      <4> HIDE DEF M
      <4> QED BY <3>3, <4>1, <4>3
    <3>6. log[items[k]].key # NoKey
      BY <3>4 DEF Switches
    <3>7. \A p \in k + 1 .. m :
              /\ log[items[p]].key # NoKey
              /\ FamilyOf[log[items[p]].key] = FamilyOf[log[items[k]].key] =>
                    log[items[p]].key = log[items[k]].key
      BY <1>1, <3>4, <3>6, NoSwitchOneKey
    <3>8. items[k] < items[m] /\ items[k] \in EventsOfThread(t) /\ items[m] \in EventsOfThread(t)
          /\ items[k] \in ToSet(items) /\ items[m] \in ToSet(items)
      BY <1>1, <3>4 DEF Rising, ToSet
    <3>9. ASSUME NEW x \in items[k] + 1 .. items[m], log[x].thread = log[items[k]].thread
          PROVE  \E p \in k + 1 .. m : items[p] = x
      <4>1. x \in EventsOfThread(t)
        BY <3>8, <3>9, EventsAreNumbers DEF EventsOfThread
      <4>2. x \in Nat /\ items[k] < x /\ (x = items[m] \/ x < items[m])
        BY <1>1, <3>8
      <4>3. x \in ToSet(items)
        BY <3>8, <4>1, <4>2 DEF Gapless
      <4>4. PICK p \in 1 .. n : items[p] = x
        BY <1>1, <4>3 DEF ToSet
      <4>5. k < p
        <5>1. p < k => items[p] < items[k]
          BY <1>1 DEF Rising
        <5>2. items[p] \in Nat /\ items[k] \in Nat /\ p \in Nat /\ k \in Nat
          BY <1>1
        <5> QED BY <4>2, <4>4, <5>1, <5>2
      <4>6. p <= m
        <5>1. m < p => items[m] < items[p]
          BY <1>1, <3>4 DEF Rising
        <5>2. items[p] \in Nat /\ items[m] \in Nat /\ p \in Nat /\ m \in Nat
          BY <1>1, <3>4
        <5> QED BY <4>2, <4>4, <5>1, <5>2
      <4>7. p \in k + 1 .. m
        BY <1>1, <4>5, <4>6
      <4> QED BY <4>4, <4>7
    <3>10. Replaces(items[m], items[k])
      <4>1. log[items[k]].thread = log[items[m]].thread
        BY <3>8 DEF EventsOfThread
      <4>2. ASSUME NEW x \in items[k] + 1 .. items[m], log[x].thread = log[items[k]].thread
            PROVE  /\ log[x].key # NoKey
                   /\ FamilyOf[log[x].key] = FamilyOf[log[items[k]].key] =>
                        log[x].key = log[items[k]].key
        BY <3>7, <3>9, <4>2
      <4> QED BY <3>4, <3>8, <4>1, <4>2 DEF Replaces
    <3>11. items[m] \in ToSet(out)
      BY <1>6, <1>10, <3>4, <3>5
    <3> QED BY <3>10, <3>11 DEF Accounted
  <2> QED BY <2>1, <2>2
<1>13. \A i \in ToSet(items) : \E k \in 1 .. n : items[k] = i
  BY <1>1 DEF ToSet
<1> QED BY <1>8, <1>9, <1>11, <1>12, <1>13 DEF out

-----------------------------------------------------------------------------
(* What is on its way to a client. *)

Subscription(t) ==
    [phase : Phase, start : Nat, latest : Nat, through : Nat, pos : Nat, readTo : Nat,
     retained : Seq(EventsOfThread(t)), page : Seq(EventsOfThread(t)),
     pending : Seq(EventsOfThread(t)), output : Seq(EventsOfThread(t)),
     sent : Seq(EventsOfThread(t)), snapshot : BOOLEAN]

Holding(t) ==
    [hasData : BOOLEAN, cursor : EventsOfThread(t) \cup {0}, known : SUBSET EventsOfThread(t)]

\* On its way to the client, and not lost when the buffers are.
InFlight(s) == ToSet(s.sent) \cup ToSet(s.output) \cup ToSet(s.pending)

Beyond(t, j) == {n \in EventsOfThread(t) : n > j}

\* A: what the server has yet to put on its way.  Everything comes in order.
FlowOrder(s, h, t, A) ==
    /\ Rising(s.sent) /\ Rising(s.output) /\ Rising(s.pending)
    /\ Before(ToSet(s.sent), ToSet(s.output)) /\ Before(ToSet(s.sent), ToSet(s.pending))
    /\ Before(ToSet(s.output), ToSet(s.pending)) /\ Before(InFlight(s), A)
    /\ \A i \in InFlight(s) \cup A : i > h.cursor
    /\ \A i \in A, j \in EventsOfThread(t) : i < j => j \in A
    /\ \A p \in ToSet(s.pending), j \in EventsOfThread(t) :
         p < j /\ j \notin A => j \in ToSet(s.pending)

\* Nothing is left out.
FlowComplete(s, h, t, A) ==
    \A i \in EventsOfThread(t) \ A : Accounted(i, h.known \cup InFlight(s) \cup A)

Flow(s, h, t, A) == h.hasData /\ FlowOrder(s, h, t, A) /\ FlowComplete(s, h, t, A)

\* What a failed subscription has still on its way is good up to anywhere.
Remnant(s, h, t) ==
    /\ h.hasData /\ Rising(s.sent)
    /\ \A j \in ToSet(s.sent) : j > h.cursor
    /\ \A j \in ToSet(s.sent) : \A i \in EventsOfThread(t) : i <= j =>
          Accounted(i, h.known \cup ToSet(s.sent) \cup Beyond(t, j))

LEMMA BuffersAreEvents ==
    ASSUME IsLog, NEW t, NEW s \in Subscription(t)
    PROVE  /\ ToSet(s.sent) \subseteq EventsOfThread(t) /\ ToSet(s.output) \subseteq EventsOfThread(t)
           /\ ToSet(s.pending) \subseteq EventsOfThread(t) /\ ToSet(s.page) \subseteq EventsOfThread(t)
           /\ ToSet(s.retained) \subseteq EventsOfThread(t)
           /\ InFlight(s) \subseteq EventsOfThread(t)
<1>1. /\ s.sent \in Seq(EventsOfThread(t)) /\ s.output \in Seq(EventsOfThread(t))
      /\ s.pending \in Seq(EventsOfThread(t)) /\ s.page \in Seq(EventsOfThread(t))
      /\ s.retained \in Seq(EventsOfThread(t))
  BY DEF Subscription
<1> QED BY <1>1, SetOfMember DEF InFlight

(* A subscription may fail in the middle of it: what is sent has no gaps. *)
LEMMA FailedFlow ==
    ASSUME IsLog, NEW t, NEW s \in Subscription(t), NEW h \in Holding(t),
           NEW A \in SUBSET EventsOfThread(t), Flow(s, h, t, A)
    PROVE  Remnant(s, h, t)
<1>0. EventsOfThread(t) \subseteq Nat
  BY EventsAreNumbers
<1>1. InFlight(s) \subseteq EventsOfThread(t) /\ ToSet(s.sent) \subseteq InFlight(s)
  BY BuffersAreEvents DEF InFlight
<1>2. ASSUME NEW j \in ToSet(s.sent), NEW i \in EventsOfThread(t), i <= j
      PROVE  Accounted(i, h.known \cup ToSet(s.sent) \cup Beyond(t, j))
  <2>1. i \notin A
    <3>1. i \in A => j < i
      BY <1>1 DEF Flow, FlowOrder, Before
    <3>2. i \in Nat /\ j \in Nat
      BY <1>0, <1>1
    <3> QED BY <1>2, <3>1, <3>2
  <2>2. Accounted(i, h.known \cup InFlight(s) \cup A)
    BY <2>1 DEF Flow, FlowComplete
  <2>3. \A n \in A \cup ToSet(s.output) \cup ToSet(s.pending) : j < n /\ n \in EventsOfThread(t)
    BY <1>1 DEF Flow, FlowOrder, Before, InFlight
  <2>4. \A n \in A \cup ToSet(s.output) \cup ToSet(s.pending) : n \in Beyond(t, j)
    <3>1. j \in Nat
      BY <1>0, <1>1
    <3> QED BY <1>0, <2>3, <3>1 DEF Beyond
  <2>5. h.known \cup InFlight(s) \cup A \subseteq h.known \cup ToSet(s.sent) \cup Beyond(t, j)
    BY <2>4 DEF InFlight
  <2> QED BY <2>2, <2>5, AccountedMore
<1>3. \A j \in ToSet(s.sent) : j > h.cursor
  BY <1>1 DEF Flow, FlowOrder
<1> QED BY <1>2, <1>3 DEF Remnant, Flow, FlowOrder

\* The window closes: what is pending is coalesced and becomes output.
LEMMA FlushKeepsFlow ==
    ASSUME IsLog, NEW t, NEW s \in Subscription(t), NEW h \in Holding(t),
           NEW A \in SUBSET EventsOfThread(t), Flow(s, h, t, A),
           NEW r, r.sent = s.sent, r.pending = << >>, r.output = s.output \o Coalesce(s.pending)
    PROVE  r.output \in Seq(EventsOfThread(t)) /\ Flow(r, h, t, A)
<1> DEFINE E == EventsOfThread(t)
           q == Coalesce(s.pending)
<1>0. E \subseteq Nat /\ h.known \subseteq E /\ h.cursor \in Nat
  BY EventsAreNumbers DEF Holding
<1>1. /\ InFlight(s) \subseteq E /\ s.pending \in Seq(E) /\ s.output \in Seq(E) /\ s.sent \in Seq(E)
      /\ ToSet(s.sent) \subseteq E /\ ToSet(s.output) \subseteq E /\ ToSet(s.pending) \subseteq E
  BY BuffersAreEvents DEF Subscription
<1>2. Gapless(s.pending, t)
  <2> SUFFICES ASSUME NEW x \in ToSet(s.pending), NEW y \in ToSet(s.pending), NEW i \in E, x < i, i < y
               PROVE  i \in ToSet(s.pending)
    BY DEF Gapless
  <2>1. i \notin A
    <3>1. i \in A => y \in A
      BY <1>1 DEF Flow, FlowOrder
    <3>2. y \in A => y < y
      BY DEF Flow, FlowOrder, Before, InFlight
    <3>3. y \in Nat
      BY <1>0, <1>1
    <3> QED BY <3>1, <3>2, <3>3
  <2> QED BY <2>1 DEF Flow, FlowOrder
<1>3. /\ q \in Seq(E) /\ Rising(q) /\ ToSet(q) \subseteq ToSet(s.pending)
      /\ \A i \in ToSet(s.pending) : Accounted(i, ToSet(q))
  BY <1>1, <1>2, CoalesceKeeps DEF Flow, FlowOrder
<1> HIDE DEF q
<1>4. /\ s.output \o q \in Seq(E) /\ ToSet(s.output \o q) = ToSet(s.output) \cup ToSet(q)
      /\ Rising(s.output \o q)
  <2>1. Before(ToSet(s.output), ToSet(q))
    BY <1>3 DEF Flow, FlowOrder, Before
  <2>2. Rising(s.output)
    BY DEF Flow, FlowOrder
  <2>3. E \in SUBSET Nat /\ s.output \in Seq(E) /\ q \in Seq(E)
    BY <1>0, <1>1, <1>3
  <2> HIDE DEF E
  <2> QED BY <1>3, <2>1, <2>2, <2>3, JoinRises
<1>5. /\ r.output \in Seq(E) /\ ToSet(r.output) = ToSet(s.output) \cup ToSet(q) /\ Rising(r.output)
      /\ r.sent = s.sent /\ Rising(r.pending) /\ ToSet(r.pending) = {}
  BY <1>4, NothingRises DEF q
<1>6. InFlight(r) = ToSet(s.sent) \cup ToSet(s.output) \cup ToSet(q) /\ InFlight(r) \subseteq InFlight(s)
  BY <1>3, <1>5 DEF InFlight
<1>7. FlowOrder(r, h, t, A)
  BY <1>3, <1>5, <1>6 DEF Flow, FlowOrder, Before
<1>8. ASSUME NEW i \in E \ A PROVE Accounted(i, h.known \cup InFlight(r) \cup A)
  <2> DEFINE K == h.known \cup InFlight(s) \cup A
             L == h.known \cup InFlight(r) \cup A
  <2>1. Accounted(i, K)
    BY DEF Flow, FlowComplete
  <2>2. ASSUME NEW j \in K PROVE Accounted(j, L)
    <3>1. CASE j \in ToSet(s.pending)
      <4>1. Accounted(j, ToSet(q)) /\ ToSet(q) \subseteq L
        BY <1>3, <1>6, <3>1
      <4> QED BY <4>1, AccountedMore
    <3>2. CASE j \notin ToSet(s.pending)
      <4>1. j \in L
        BY <1>6, <3>2 DEF InFlight
      <4> QED BY <4>1 DEF Accounted
    <3> QED BY <3>1, <3>2
  <2>3. K \in SUBSET Nat /\ L \in SUBSET Nat /\ i \in Nat
    <3>1. K \subseteq E /\ L \subseteq E
      BY <1>0, <1>1, <1>6
    <3> QED BY <1>0, <3>1
  <2> HIDE DEF K, L
  <2>4. Accounted(i, L)
    BY <2>1, <2>2, <2>3, AccountedFurther
  <2> QED BY <2>4 DEF L
<1> QED BY <1>5, <1>7, <1>8 DEF Flow, FlowComplete

\* The next event ahead waits for the window.
LEMMA PendingKeepsFlow ==
    ASSUME IsLog, NEW t, NEW s \in Subscription(t), NEW h \in Holding(t),
           NEW A \in SUBSET EventsOfThread(t), NEW i \in EventsOfThread(t),
           \A j \in A : i < j, Flow(s, h, t, A \cup {i}),
           NEW r, r.sent = s.sent, r.output = s.output, r.pending = Append(s.pending, i)
    PROVE  r.pending \in Seq(EventsOfThread(t)) /\ Flow(r, h, t, A)
<1> DEFINE E == EventsOfThread(t)
<1>0. E \subseteq Nat /\ h.known \subseteq E /\ h.cursor \in Nat
  BY EventsAreNumbers DEF Holding
<1>1. /\ InFlight(s) \subseteq E /\ s.pending \in Seq(E) /\ s.output \in Seq(E) /\ s.sent \in Seq(E)
      /\ ToSet(s.sent) \subseteq E /\ ToSet(s.output) \subseteq E /\ ToSet(s.pending) \subseteq E
  BY BuffersAreEvents DEF Subscription
<1>2. \A x \in InFlight(s) : x < i
  BY DEF Flow, FlowOrder, Before
<1>3. /\ r.pending \in Seq(E) /\ ToSet(r.pending) = ToSet(s.pending) \cup {i} /\ Rising(r.pending)
  <2>1. \A x \in ToSet(s.pending) : x < i
    BY <1>2 DEF InFlight
  <2>2. Rising(s.pending) /\ i \in E
    BY DEF Flow, FlowOrder
  <2>3. E \in SUBSET Nat /\ s.pending \in Seq(E)
    BY <1>0, <1>1
  <2> HIDE DEF E
  <2> QED BY <2>1, <2>2, <2>3, AppendRises
<1>4. InFlight(r) = InFlight(s) \cup {i} /\ InFlight(r) \cup A = InFlight(s) \cup (A \cup {i})
  BY <1>3 DEF InFlight
<1>5. i \notin A
  <2>1. i \in A => i < i
    OBVIOUS
  <2>2. i \in Nat
    BY <1>0
  <2> QED BY <2>1, <2>2
<1>6. FlowOrder(r, h, t, A)
  <2>1. Before(InFlight(r), A)
    BY <1>4 DEF Flow, FlowOrder, Before
  <2>2. \A x \in InFlight(r) \cup A : x > h.cursor
    BY <1>4 DEF Flow, FlowOrder
  <2>3. ASSUME NEW x \in A, NEW j \in E, x < j PROVE j \in A
    <3>1. j \in A \cup {i}
      BY <2>3 DEF Flow, FlowOrder
    <3>2. i < x /\ i \in Nat /\ x \in Nat /\ j \in Nat
      BY <1>0
    <3>3. j # i
      BY <2>3, <3>2
    <3> QED BY <3>1, <3>3
  <2>4. ASSUME NEW p \in ToSet(r.pending), NEW j \in E, p < j, j \notin A PROVE j \in ToSet(r.pending)
    <3>1. CASE j = i
      BY <1>3, <3>1
    <3>2. CASE p = i
      <4>1. j \in A \cup {i}
        BY <2>4, <3>2 DEF Flow, FlowOrder
      <4> QED BY <1>3, <2>4, <4>1
    <3>3. CASE p # i /\ j # i
      BY <1>3, <2>4, <3>3 DEF Flow, FlowOrder
    <3> QED BY <3>1, <3>2, <3>3
  <2>5. Before(ToSet(r.sent), ToSet(r.pending)) /\ Before(ToSet(r.output), ToSet(r.pending))
    BY <1>2, <1>3 DEF Flow, FlowOrder, Before, InFlight
  <2> QED BY <1>3, <2>1, <2>2, <2>3, <2>4, <2>5 DEF FlowOrder, Flow
<1>7. ASSUME NEW j \in E \ A PROVE Accounted(j, h.known \cup InFlight(r) \cup A)
  <2>1. CASE j = i
    BY <1>4, <2>1 DEF Accounted
  <2>2. CASE j # i
    <3>1. Accounted(j, h.known \cup InFlight(s) \cup (A \cup {i}))
      BY <2>2 DEF Flow, FlowComplete
    <3>2. h.known \cup InFlight(s) \cup (A \cup {i}) = h.known \cup InFlight(r) \cup A
      BY <1>4
    <3> QED BY <3>1, <3>2
  <2> QED BY <2>1, <2>2
<1> QED BY <1>3, <1>6, <1>7 DEF Flow, FlowComplete

\* r is the subscription s with other buffers in the coalescer.
Buffered(r, s, t) ==
    /\ r \in Subscription(t)
    /\ r.phase = s.phase /\ r.start = s.start /\ r.latest = s.latest /\ r.through = s.through
    /\ r.pos = s.pos /\ r.readTo = s.readTo /\ r.retained = s.retained /\ r.page = s.page
    /\ r.sent = s.sent /\ r.snapshot = s.snapshot

\* r is the subscription s after it failed.
Lost(r, s, h, t) ==
    /\ r \in Subscription(t) /\ r.phase = "failed" /\ Remnant(r, h, t)
    /\ r.pos = s.pos /\ r.snapshot = s.snapshot

LEMMA FailLoses ==
    ASSUME IsLog, NEW t, NEW s \in Subscription(t), NEW h \in Holding(t),
           NEW A \in SUBSET EventsOfThread(t), Flow(s, h, t, A)
    PROVE  Lost(Fail(s), s, h, t)
<1>1. << >> \in Seq(EventsOfThread(t)) /\ "failed" \in Phase
  BY DEF Phase
<1>2. /\ Fail(s) \in Subscription(t) /\ Fail(s).phase = "failed"
      /\ Fail(s).pos = s.pos /\ Fail(s).snapshot = s.snapshot /\ Fail(s).sent = s.sent
  BY <1>1 DEF Fail, Subscription
<1>3. Remnant(s, h, t)
  BY FailedFlow
<1> QED BY <1>2, <1>3 DEF Lost, Remnant

LEMMA OfferOneKeeps ==
    ASSUME IsLog, NEW t, NEW s \in Subscription(t), s.phase # "failed", NEW h \in Holding(t),
           NEW A \in SUBSET EventsOfThread(t), NEW i \in EventsOfThread(t),
           \A j \in A : i < j, Flow(s, h, t, A \cup {i})
    PROVE  \/ Lost(OfferOne(s, i), s, h, t)
           \/ Buffered(OfferOne(s, i), s, t) /\ Flow(OfferOne(s, i), h, t, A)
<1> DEFINE E == EventsOfThread(t)
           r == OfferOne(s, i)
           p == [s EXCEPT !.pending = Append(@, i)]
           q == [s EXCEPT !.pending = << >>, !.output = @ \o Coalesce(Append(s.pending, i))]
<1>1. r = Fail(s) \/ r = p \/ r = q
  BY DEF OfferOne
<1>2. CASE r = Fail(s)
  <2>1. A \cup {i} \in SUBSET E
    OBVIOUS
  <2>2. Lost(Fail(s), s, h, t)
    BY <2>1, FailLoses
  <2> QED BY <1>2, <2>2
<1>3. p.sent = s.sent /\ p.output = s.output /\ p.pending = Append(s.pending, i)
  BY DEF Subscription
<1>4. p.pending \in Seq(E) /\ Flow(p, h, t, A)
  <2> HIDE DEF p
  <2> QED BY <1>3, PendingKeepsFlow
<1>5. Buffered(p, s, t)
  BY <1>3, <1>4 DEF Buffered, Subscription
<1>6. /\ q.sent = p.sent /\ q.pending = << >> /\ q.output = p.output \o Coalesce(p.pending)
  BY DEF Subscription
<1>7. q.output \in Seq(E) /\ Flow(q, h, t, A)
  <2>1. p \in Subscription(t)
    BY <1>5 DEF Buffered
  <2> HIDE DEF p, q
  <2> QED BY <1>4, <1>6, <2>1, FlushKeepsFlow
<1>8. Buffered(q, s, t)
  <2> DEFINE out == s.output \o Coalesce(Append(s.pending, i))
  <2>1. q.output = out /\ << >> \in Seq(E)
    BY DEF Subscription
  <2>2. q = [s EXCEPT !.pending = << >>, !.output = out]
    OBVIOUS
  <2>3. out \in Seq(E)
    BY <1>7, <2>1
  <2> HIDE DEF out, p, q, r
  <2> QED BY <2>1, <2>2, <2>3 DEF Buffered, Subscription
<1>9. CASE r = p
  <2> HIDE DEF p
  <2> QED BY <1>4, <1>5, <1>9
<1>10. CASE r = q
  <2> HIDE DEF q
  <2> QED BY <1>7, <1>8, <1>10
<1> HIDE DEF p, q
<1> QED BY <1>1, <1>2, <1>9, <1>10

\* A set of numbers that holds 0 and with each number the next holds all.
LEMMA AllReached ==
    ASSUME NEW n \in Nat, NEW S, 0 \in S, \A k \in 0 .. n - 1 : k \in S => k + 1 \in S
    PROVE  \A k \in 0 .. n : k \in S
<1> DEFINE Bad == {k \in 0 .. n : k \notin S}
<1> SUFFICES ASSUME Bad # {} PROVE FALSE
  OBVIOUS
<1>1. IsFiniteSet(Bad) /\ Bad \subseteq Nat
  <2>1. Bad \subseteq 1 .. n
    OBVIOUS
  <2>2. IsFiniteSet(1 .. n) /\ 1 .. n \subseteq Nat
    BY FirstNumbers
  <2> HIDE DEF Bad
  <2> QED BY <2>1, <2>2, FS_Subset
<1>2. PICK k \in Bad : \A j \in Bad : k <= j
  <2> HIDE DEF Bad
  <2> QED BY <1>1, Extremes
<1>3. k \in 0 .. n /\ k \notin S /\ k # 0
  BY <1>2
<1>4. k - 1 \in 0 .. n - 1 /\ k - 1 + 1 = k /\ k - 1 \in 0 .. n /\ ~(k <= k - 1)
  BY <1>3
<1>5. k - 1 \in S
  BY <1>2, <1>4
<1> QED BY <1>3, <1>4, <1>5

\* After k items of a batch.
Steps(s, items, m, f) ==
    f = [k \in 0 .. m |-> IF k = 0 THEN s ELSE OfferOne(f[k - 1], items[k])]

LEMMA StepsExist ==
    ASSUME NEW s, NEW items, NEW n \in Nat
    PROVE  \E f : Steps(s, items, n, f)
<1> DEFINE S == {m \in 0 .. n : \E f : Steps(s, items, m, f)}
<1>1. 0 \in S
  <2> DEFINE f == [k \in 0 .. 0 |-> s]
  <2>1. f = [k \in 0 .. 0 |-> IF k = 0 THEN s ELSE OfferOne(f[k - 1], items[k])]
    OBVIOUS
  <2>2. Steps(s, items, 0, f)
    BY <2>1 DEF Steps
  <2> QED BY <2>2
<1>2. ASSUME NEW m \in 0 .. n - 1, m \in S PROVE m + 1 \in S
  <2>1. PICK f : Steps(s, items, m, f)
    BY <1>2
  <2> DEFINE g == [k \in 0 .. m + 1 |-> IF k <= m THEN f[k] ELSE OfferOne(f[m], items[k])]
  <2>2. ASSUME NEW k \in 0 .. m + 1
        PROVE  g[k] = IF k = 0 THEN s ELSE OfferOne(g[k - 1], items[k])
    <3>1. CASE k = 0
      <4>1. f[0] = s
        BY <2>1 DEF Steps
      <4> QED BY <3>1, <4>1
    <3>2. CASE k # 0 /\ k <= m
      <4>1. f[k] = OfferOne(f[k - 1], items[k]) /\ g[k] = f[k] /\ g[k - 1] = f[k - 1]
        BY <2>1, <3>2 DEF Steps
      <4> QED BY <3>2, <4>1
    <3>3. CASE k = m + 1
      <4>1. k - 1 = m /\ k - 1 \in 0 .. m + 1 /\ ~(k <= m) /\ k # 0 /\ k - 1 <= m
        BY <3>3
      <4>2. g[k] = OfferOne(f[m], items[k]) /\ g[k - 1] = f[m]
        BY <4>1
      <4> QED BY <4>1, <4>2
    <3> QED BY <3>1, <3>2, <3>3
  <2>3. g = [k \in 0 .. m + 1 |-> IF k = 0 THEN s ELSE OfferOne(g[k - 1], items[k])]
    <3>1. g = [k \in 0 .. m + 1 |-> g[k]]
      OBVIOUS
    <3> HIDE DEF g
    <3> QED BY <2>2, <3>1
  <2>4. Steps(s, items, m + 1, g)
    BY <2>3 DEF Steps
  <2> QED BY <2>4
<1> HIDE DEF S
<1>3. n \in S
  BY <1>1, <1>2, AllReached
<1> QED BY <1>3 DEF S

(* A batch is offered item by item. *)
LEMMA OfferAllSteps ==
    ASSUME NEW s, NEW items, Len(items) \in Nat
    PROVE  \E f : /\ f[0] = s /\ f[Len(items)] = OfferAll(s, items)
                  /\ \A k \in 1 .. Len(items) : f[k] = OfferOne(f[k - 1], items[k])
<1> DEFINE n == Len(items)
           f == CHOOSE g : Steps(s, items, n, g)
<1>1. Steps(s, items, n, f)
  BY StepsExist
<1>2. OfferAll(s, items) = f[n]
  BY DEF OfferAll, Steps
<1> HIDE DEF f
<1>3. f[0] = s /\ \A k \in 1 .. n : f[k] = OfferOne(f[k - 1], items[k])
  <2>1. 0 \in 0 .. n /\ \A k \in 1 .. n : k \in 0 .. n /\ k # 0
    OBVIOUS
  <2> QED BY <1>1, <2>1 DEF Steps
<1> QED BY <1>2, <1>3

(* Each item moves from what is ahead to what is in flight. *)
LEMMA OfferAllKeeps ==
    ASSUME IsLog, NEW t, NEW s \in Subscription(t), s.phase # "failed", NEW h \in Holding(t),
           NEW items \in Seq(EventsOfThread(t)), Rising(items),
           NEW A \in SUBSET EventsOfThread(t), Before(ToSet(items), A),
           Flow(s, h, t, A \cup ToSet(items))
    PROVE  \/ Lost(OfferAll(s, items), s, h, t)
           \/ Buffered(OfferAll(s, items), s, t) /\ Flow(OfferAll(s, items), h, t, A)
<1> DEFINE E == EventsOfThread(t)
           n == Len(items)
           Rest(k) == {items[l] : l \in k + 1 .. n}
<1>1. /\ n \in Nat /\ DOMAIN items = 1 .. n
      /\ \A k \in 1 .. n : items[k] \in E /\ items[k] \in ToSet(items)
      /\ \A x \in ToSet(items) : \E k \in 1 .. n : items[k] = x
  BY SetOfMember
<1>2. PICK f : /\ f[0] = s /\ f[n] = OfferAll(s, items)
               /\ \A k \in 1 .. n : f[k] = OfferOne(f[k - 1], items[k])
  BY <1>1, OfferAllSteps
<1> DEFINE Fine(x, k) == Buffered(x, s, t) /\ Flow(x, h, t, A \cup Rest(k))
           Good == {k \in 0 .. n : Lost(f[k], s, h, t) \/ Fine(f[k], k)}
<1>3. 0 \in Good
  <2>1. Rest(0) = ToSet(items)
    BY <1>1
  <2>2. Buffered(s, s, t)
    BY DEF Buffered
  <2>3. Fine(s, 0)
    <3> HIDE DEF Rest
    <3> QED BY <2>1, <2>2
  <2>4. 0 \in 0 .. n
    BY <1>1
  <2> HIDE DEF Fine
  <2> QED BY <1>2, <2>3, <2>4
<1>4. ASSUME NEW k \in 0 .. n - 1, k \in Good PROVE k + 1 \in Good
  <2>1. k + 1 \in 1 .. n /\ k + 1 \in 0 .. n /\ k + 1 - 1 = k
    BY <1>1
  <2> DEFINE i == items[k + 1]
             x == f[k]
             y == f[k + 1]
  <2>2. y = OfferOne(x, i) /\ i \in E
    BY <1>1, <1>2, <2>1
  <2>3. CASE Lost(x, s, h, t)
    <3>1. y = x
      BY <2>2, <2>3 DEF Lost, OfferOne
    <3> HIDE DEF x, y, Fine
    <3>2. Lost(y, s, h, t)
      BY <2>3, <3>1
    <3> QED BY <2>1, <3>2 DEF y
  <2>4. CASE Fine(x, k)
    <3> DEFINE B == A \cup Rest(k + 1)
    <3>1. B \in SUBSET E
      <4>1. \A l \in k + 1 + 1 .. n : items[l] \in E
        BY <1>1
      <4> QED BY <4>1
    <3>2. A \cup Rest(k) = B \cup {i}
      <4>1. k + 1 .. n = (k + 1 + 1 .. n) \cup {k + 1}
        BY <1>1, <2>1
      <4> QED BY <4>1
    <3>3. \A j \in B : i < j
      <4>1. \A j \in A : i < j
        BY <1>1, <2>1 DEF Before
      <4>2. \A l \in k + 1 + 1 .. n : items[k + 1] < items[l]
        <5>1. \A l \in k + 1 + 1 .. n : l \in DOMAIN items /\ k + 1 < l
          BY <1>1, <2>1
        <5>2. k + 1 \in DOMAIN items
          BY <1>1, <2>1
        <5> QED BY <5>1, <5>2 DEF Rising
      <4> QED BY <4>1, <4>2
    <3>4. Flow(x, h, t, B \cup {i}) /\ Buffered(x, s, t)
      <4> HIDE DEF x, B, Rest, i
      <4> QED BY <2>4, <3>2
    <3> HIDE DEF B, Rest, x, y, i
    <3>5. x \in Subscription(t) /\ x.phase # "failed"
      BY <3>4 DEF Buffered
    <3>6. Lost(y, x, h, t) \/ (Buffered(y, x, t) /\ Flow(y, h, t, B))
      BY <2>2, <3>1, <3>3, <3>4, <3>5, OfferOneKeeps
    <3>7. Lost(y, s, h, t) \/ (Buffered(y, s, t) /\ Flow(y, h, t, B))
      <4>1. CASE Lost(y, x, h, t)
        BY <3>4, <4>1 DEF Lost, Buffered
      <4>2. CASE Buffered(y, x, t) /\ Flow(y, h, t, B)
        <5>1. Buffered(y, s, t)
          BY <3>4, <4>2 DEF Buffered
        <5> QED BY <4>2, <5>1
      <4> QED BY <3>6, <4>1, <4>2
    <3> QED BY <2>1, <3>7 DEF B, y
  <2> HIDE DEF Fine
  <2>5. Lost(x, s, h, t) \/ Fine(x, k)
    BY <1>4
  <2> QED BY <2>3, <2>4, <2>5
<1>5. n \in Good
  <2> HIDE DEF Good
  <2>1. \A k \in 0 .. n : k \in Good
    BY <1>1, <1>3, <1>4, AllReached
  <2> QED BY <1>1, <2>1
<1>6. Rest(n) = {}
  BY <1>1
<1>7. A \cup Rest(n) = A
  BY <1>6
<1>8. Lost(f[n], s, h, t) \/ (Buffered(f[n], s, t) /\ Flow(f[n], h, t, A \cup Rest(n)))
  <2> HIDE DEF Rest
  <2> QED BY <1>5
<1> HIDE DEF Rest
<1> QED BY <1>2, <1>7, <1>8

-----------------------------------------------------------------------------
(* The invariant of one subscription, by its phase. *)

(* The channel holds the end of what is announced. *)
LogShape ==
    /\ IsLog /\ announced \in 0 .. Len(log) /\ channel \in Seq(Nat)
    /\ Len(channel) <= announced
    /\ \A k \in 1 .. Len(channel) : channel[k] = announced - Len(channel) + k

(* A pass deletes up to what it was told to. *)
PruneShape ==
    /\ prune \in [mark : 0 .. Len(log), due : BOOLEAN, through : 0 .. Len(log),
                  next : 0 .. Len(log), deleting : BOOLEAN, passes : 0 .. MaxPasses]
    /\ gone \subseteq 1 .. prune.through
    /\ losses \in 0 .. MaxLosses

\* The last sequence that a subscription took from its channel.
Drained(s) == announced - Len(channel) + s.pos

Reading == {"resuming", "measured", "read"}

Starting == {"initial", "opening", "subscribed", "latest"}

\* What the server will still read or take from the channel.
Ahead(s, t) == {i \in EventsOfThread(t) :
    \/ s.phase \in Starting /\ i > s.start
    \/ s.phase = "paging" /\ (i \in ToSet(s.page) \/ i > s.readTo)
    \/ s.phase = "live" /\ i > s.through /\ (i \in ToSet(s.retained) \/ i > Drained(s))}

(* What the client does not hold of its past, a later event replaces. *)
ClientShape(h, t) ==
    /\ \A i \in h.known : i <= h.cursor
    /\ ~h.hasData => h.known = {} /\ h.cursor = 0
    /\ h.hasData => \A i \in EventsOfThread(t) : i <= h.cursor =>
        Accounted(i, h.known \cup Beyond(t, h.cursor))

(* Which buffers are in use, and between which bounds what they hold lies. *)
BufferShape(s, t) ==
    /\ s.phase \in Reading \cup {"snapshot", "initial", "opening"} =>
        s.page = << >> /\ s.pending = << >> /\ s.output = << >> /\ s.retained = << >>
    /\ s.phase \in {"subscribed", "latest"} =>
        s.page = << >> /\ s.pending = << >> /\ s.output = << >> /\ s.through = s.start
    /\ s.phase \in Reading \cup Starting \cup {"paging", "live"} => s.start <= Len(log)
    /\ s.phase \in Draining =>
        /\ Rising(s.retained) /\ \A i \in ToSet(s.retained) : s.start < i /\ i <= Drained(s)
        /\ s.start <= s.through /\ s.through <= Len(log)
    /\ s.phase \in {"latest", "paging"} =>
        /\ s.start <= s.latest /\ s.latest <= Len(log)
        /\ \A i \in EventsOfThread(t) : s.latest < i /\ i <= Drained(s) => i \in ToSet(s.retained)
    /\ s.phase = "paging" =>
        /\ s.through = s.latest /\ s.start <= s.readTo /\ s.readTo <= s.latest
        /\ Rising(s.page) /\ \A i \in ToSet(s.page) : s.start < i /\ i <= s.readTo
    /\ s.phase = "live" => s.page = << >>

\* While the server reads, what a pass deletes lies before what it reads.
Retained(s, t) ==
    s.phase \in Reading \cup Starting \cup {"paging"} =>
        \A i \in EventsOfThread(t) :
            i <= prune.through \/ (prune.due /\ i <= prune.mark) => i <= s.start

(* A snapshot is the only thing sent, and no older than what the client has. *)
SnapshotShape(s, h) ==
    s.snapshot => s.phase = "initial" /\ s.sent = << s.start >> /\ h.cursor <= s.start

(* What a replay has read is all that is left of what the client missed. *)
ReplayShape(s, h, t) ==
    /\ s.phase \in Reading => h.hasData
    /\ s.phase \in {"measured", "read"} => h.cursor <= s.start
    /\ s.phase = "read" =>
        /\ Rising(s.sent)
        /\ \A i \in ToSet(s.sent) : h.cursor < i /\ i <= s.start
        /\ \A i \in EventsOfThread(t) \ gone : h.cursor < i /\ i <= s.start => i \in ToSet(s.sent)

Flows(s) == s.phase \in {"initial", "opening"} \cup Draining /\ ~s.snapshot

Shapes(s, h, t) ==
    /\ s \in Subscription(t) /\ h \in Holding(t) /\ s.pos <= Len(channel)
    /\ ClientShape(h, t) /\ BufferShape(s, t) /\ Retained(s, t)
    /\ SnapshotShape(s, h) /\ ReplayShape(s, h, t)

SubInv(s, h, t) ==
    /\ Shapes(s, h, t)
    /\ Flows(s) => Flow(s, h, t, Ahead(s, t))
    /\ s.phase = "failed" => Remnant(s, h, t)

-----------------------------------------------------------------------------
(* Steps of the handshake. *)

LEMMA OfflineKeeps ==
    ASSUME LogShape, NEW t, NEW h \in Holding(t), ClientShape(h, t)
    PROVE  SubInv(Offline, h, t)
<1>1. /\ Offline.phase = "offline" /\ Offline.pos = 0 /\ Offline.snapshot = FALSE
      /\ Offline \in Subscription(t)
  BY DEF Offline, Subscription, Phase
<1>2. 0 <= Len(channel)
  BY DEF LogShape
<1> QED BY <1>1, <1>2 DEF SubInv, Shapes, BufferShape, Retained, SnapshotShape, ReplayShape, Flows,
            Draining, Reading, Starting

LEMMA OfflineIsEmpty ==
    ASSUME NEW t
    PROVE  /\ Offline \in Subscription(t) /\ Offline.pos = 0 /\ Offline.snapshot = FALSE
           /\ Offline.page = << >> /\ Offline.pending = << >> /\ Offline.output = << >>
           /\ Offline.retained = << >> /\ Offline.sent = << >>
BY DEF Offline, Subscription, Phase

LEMMA ResumeKeeps ==
    ASSUME LogShape, PruneShape, NEW t, NEW h \in Holding(t), ClientShape(h, t), h.hasData
    PROVE  SubInv([Offline EXCEPT !.phase = "resuming", !.start = Latest(t)], h, t)
<1> DEFINE r == [Offline EXCEPT !.phase = "resuming", !.start = Latest(t)]
<1>1. /\ Latest(t) \in Nat /\ Latest(t) <= Len(log)
      /\ \A i \in EventsOfThread(t) : i <= Latest(t)
  BY EventsAreNumbers, LatestIsLast DEF LogShape
<1>2. /\ r.phase = "resuming" /\ r.pos = 0 /\ r.snapshot = FALSE /\ r.start = Latest(t)
      /\ r.page = << >> /\ r.pending = << >> /\ r.output = << >> /\ r.retained = << >>
      /\ r \in Subscription(t)
  BY <1>1, OfflineIsEmpty DEF Subscription, Phase
<1> HIDE DEF r
<1>3. r.pos <= Len(channel)
  BY <1>2 DEF LogShape
<1>4. BufferShape(r, t)
  BY <1>1, <1>2 DEF BufferShape, Draining, Reading, Starting
<1>5. Retained(r, t)
  BY <1>1, <1>2 DEF Retained
<1>6. SnapshotShape(r, h) /\ ReplayShape(r, h, t) /\ ~Flows(r)
  BY <1>2 DEF SnapshotShape, ReplayShape, Flows, Draining, Reading
<1>7. SubInv(r, h, t)
  BY <1>2, <1>3, <1>4, <1>5, <1>6 DEF SubInv, Shapes
<1> QED BY <1>7 DEF r

\* Whatever leads to it, the snapshot phase holds nothing yet.
LEMMA SnapshotKeeps ==
    ASSUME LogShape, NEW t, NEW h \in Holding(t), ClientShape(h, t),
           NEW r \in Subscription(t), r.phase = "snapshot", r.pos <= Len(channel), ~r.snapshot,
           r.page = << >>, r.pending = << >>, r.output = << >>, r.retained = << >>
    PROVE  SubInv(r, h, t)
BY DEF SubInv, Shapes, BufferShape, Retained, SnapshotShape, ReplayShape, Flows, Draining, Reading, Starting

LEMMA StartAfreshKeeps ==
    ASSUME LogShape, NEW t, NEW h \in Holding(t), ClientShape(h, t)
    PROVE  SubInv([Offline EXCEPT !.phase = "snapshot"], h, t)
<1> DEFINE r == [Offline EXCEPT !.phase = "snapshot"]
<1>1. /\ r.phase = "snapshot" /\ r.pos = 0 /\ r.snapshot = FALSE
      /\ r.page = << >> /\ r.pending = << >> /\ r.output = << >> /\ r.retained = << >>
      /\ r \in Subscription(t)
  BY OfflineIsEmpty DEF Subscription, Phase
<1>2. 0 <= Len(channel)
  BY DEF LogShape
<1> HIDE DEF r
<1>3. SubInv(r, h, t)
  BY <1>1, <1>2, SnapshotKeeps
<1> QED BY <1>3 DEF r

\* A subscription that reads may turn to the snapshot.
LEMMA TurnToSnapshot ==
    ASSUME LogShape, NEW t, NEW s, NEW h, SubInv(s, h, t), s.phase \in Reading,
           NEW r, r = [s EXCEPT !.phase = "snapshot"] \/ r = [s EXCEPT !.phase = "snapshot", !.sent = << >>]
    PROVE  SubInv(r, h, t)
<1>1. /\ s \in Subscription(t) /\ h \in Holding(t) /\ s.pos <= Len(channel) /\ ClientShape(h, t)
      /\ s.page = << >> /\ s.pending = << >> /\ s.output = << >> /\ s.retained = << >>
      /\ ~s.snapshot
  BY DEF SubInv, Shapes, BufferShape, SnapshotShape, Reading
<1>2. << >> \in Seq(EventsOfThread(t)) /\ "snapshot" \in Phase
  BY DEF Phase
<1>3. /\ r \in Subscription(t) /\ r.phase = "snapshot" /\ r.pos = s.pos /\ r.snapshot = s.snapshot
      /\ r.page = s.page /\ r.pending = s.pending /\ r.output = s.output /\ r.retained = s.retained
  BY <1>1, <1>2 DEF Subscription
<1> QED BY <1>1, <1>3, SnapshotKeeps

LEMMA MeasuredKeeps ==
    ASSUME LogShape, NEW t, NEW s, NEW h, SubInv(s, h, t), s.phase = "resuming",
           h.cursor <= s.start
    PROVE  SubInv([s EXCEPT !.phase = "measured"], h, t)
<1> DEFINE r == [s EXCEPT !.phase = "measured"]
<1>1. /\ s \in Subscription(t) /\ h \in Holding(t) /\ s.pos <= Len(channel) /\ ClientShape(h, t)
      /\ s.page = << >> /\ s.pending = << >> /\ s.output = << >> /\ s.retained = << >>
      /\ ~s.snapshot /\ s.start <= Len(log) /\ h.hasData
  BY DEF SubInv, Shapes, BufferShape, SnapshotShape, ReplayShape, Reading
<1>2. /\ r \in Subscription(t) /\ r.phase = "measured" /\ r.pos = s.pos /\ r.snapshot = s.snapshot
      /\ r.page = s.page /\ r.pending = s.pending /\ r.output = s.output /\ r.retained = s.retained
      /\ r.start = s.start
  BY <1>1 DEF Subscription, Phase
<1> HIDE DEF r
<1>3. BufferShape(r, t)
  BY <1>1, <1>2 DEF BufferShape, Draining, Reading, Starting
<1>4. Retained(r, t)
  BY <1>2 DEF SubInv, Shapes, Retained, Reading
<1>5. SnapshotShape(r, h) /\ ReplayShape(r, h, t) /\ ~Flows(r)
  BY <1>1, <1>2 DEF SnapshotShape, ReplayShape, Flows, Draining
<1>6. SubInv(r, h, t)
  BY <1>1, <1>2, <1>3, <1>4, <1>5 DEF SubInv, Shapes
<1> QED BY <1>6 DEF r

LEMMA ReadReplayKeeps ==
    ASSUME LogShape, NEW t, NEW s, NEW h, SubInv(s, h, t), s.phase = "measured"
    PROVE  SubInv([s EXCEPT !.phase = "read", !.sent = Stored(t, h.cursor, s.start)], h, t)
<1> DEFINE q == Stored(t, h.cursor, s.start)
           r == [s EXCEPT !.phase = "read", !.sent = q]
<1>1. /\ s \in Subscription(t) /\ h \in Holding(t) /\ s.pos <= Len(channel) /\ ClientShape(h, t)
      /\ s.page = << >> /\ s.pending = << >> /\ s.output = << >> /\ s.retained = << >>
      /\ ~s.snapshot /\ s.start <= Len(log) /\ h.hasData /\ h.cursor <= s.start
  BY DEF SubInv, Shapes, BufferShape, SnapshotShape, ReplayShape, Reading
<1>2. /\ q \in Seq(EventsOfThread(t)) /\ Rising(q)
      /\ ToSet(q) = {i \in EventsOfThread(t) \ gone : h.cursor < i /\ i <= s.start}
  BY StoredEvents DEF LogShape
<1> HIDE DEF q
<1>3. /\ r \in Subscription(t) /\ r.phase = "read" /\ r.pos = s.pos /\ r.snapshot = s.snapshot
      /\ r.page = s.page /\ r.pending = s.pending /\ r.output = s.output /\ r.retained = s.retained
      /\ r.start = s.start /\ r.sent = q
  BY <1>1, <1>2 DEF Subscription, Phase
<1> HIDE DEF r
<1>4. BufferShape(r, t)
  BY <1>1, <1>3 DEF BufferShape, Draining, Reading, Starting
<1>5. Retained(r, t)
  BY <1>3 DEF SubInv, Shapes, Retained, Reading
<1>6. SnapshotShape(r, h) /\ ReplayShape(r, h, t) /\ ~Flows(r)
  BY <1>1, <1>2, <1>3 DEF SnapshotShape, ReplayShape, Flows, Draining
<1>7. SubInv(r, h, t)
  BY <1>1, <1>3, <1>4, <1>5, <1>6 DEF SubInv, Shapes
<1> QED BY <1>7 DEF r, q

LEMMA AheadOfStart ==
    ASSUME NEW t, NEW s, s.phase \in Starting
    PROVE  Ahead(s, t) = {i \in EventsOfThread(t) : i > s.start}
BY DEF Ahead, Starting

(* The flow is about the buffers alone. *)
LEMMA SameFlow ==
    ASSUME NEW t, NEW s, NEW h, NEW A, Flow(s, h, t, A),
           NEW r, r.sent = s.sent, r.output = s.output, r.pending = s.pending
    PROVE  Flow(r, h, t, A)
<1>1. InFlight(r) = InFlight(s)
  BY DEF InFlight
<1>2. FlowOrder(r, h, t, A)
  BY <1>1 DEF Flow, FlowOrder
<1> QED BY <1>1, <1>2 DEF Flow, FlowComplete

LEMMA TrustedReplayKeeps ==
    ASSUME LogShape, PruneShape, NEW t, NEW s, NEW h, SubInv(s, h, t), s.phase = "read",
           ~(h.cursor < s.start /\ h.cursor < prune.through)
    PROVE  SubInv([s EXCEPT !.phase = "initial", !.sent = Coalesce(@)], h, t)
<1> DEFINE E == EventsOfThread(t)
           q == Coalesce(s.sent)
           r == [s EXCEPT !.phase = "initial", !.sent = q]
           A == {i \in E : i > s.start}
<1>1. /\ s \in Subscription(t) /\ h \in Holding(t) /\ s.pos <= Len(channel) /\ ClientShape(h, t)
      /\ s.page = << >> /\ s.pending = << >> /\ s.output = << >> /\ s.retained = << >>
      /\ ~s.snapshot /\ s.start <= Len(log) /\ h.hasData /\ h.cursor <= s.start
      /\ Rising(s.sent) /\ \A i \in ToSet(s.sent) : h.cursor < i /\ i <= s.start
      /\ \A i \in E \ gone : h.cursor < i /\ i <= s.start => i \in ToSet(s.sent)
  BY DEF SubInv, Shapes, BufferShape, SnapshotShape, ReplayShape, Reading
<1>2. /\ E \subseteq Nat /\ h.known \subseteq E /\ h.cursor \in Nat /\ s.start \in Nat
      /\ s.sent \in Seq(E) /\ prune.through \in Nat
  BY <1>1, EventsAreNumbers DEF LogShape, PruneShape, Holding, Subscription
<1>3. \A i \in E : h.cursor < i /\ i <= s.start => i \in ToSet(s.sent)
  <2> SUFFICES ASSUME NEW i \in E, h.cursor < i, i <= s.start PROVE i \notin gone
    BY <1>1
  <2>1. h.cursor < s.start
    BY <1>2
  <2>2. prune.through <= h.cursor
    BY <1>2, <2>1
  <2> QED BY <1>2, <2>2 DEF PruneShape
<1>4. Gapless(s.sent, t)
  <2> SUFFICES ASSUME NEW x \in ToSet(s.sent), NEW y \in ToSet(s.sent), NEW i \in E, x < i, i < y
               PROVE  i \in ToSet(s.sent)
    BY DEF Gapless
  <2>1. x \in Nat /\ y \in Nat /\ i \in Nat
    BY <1>2, SetOfMember
  <2>2. h.cursor < i /\ i <= s.start
    BY <1>1, <1>2, <2>1
  <2> QED BY <1>3, <2>2
<1>5. /\ q \in Seq(E) /\ Rising(q) /\ ToSet(q) \subseteq ToSet(s.sent)
      /\ \A i \in ToSet(s.sent) : Accounted(i, ToSet(q))
  BY <1>1, <1>2, <1>4, CoalesceKeeps DEF LogShape
<1> HIDE DEF q
<1>6. /\ r \in Subscription(t) /\ r.phase = "initial" /\ r.pos = s.pos /\ r.snapshot = s.snapshot
      /\ r.page = s.page /\ r.pending = s.pending /\ r.output = s.output /\ r.retained = s.retained
      /\ r.start = s.start /\ r.sent = q
  BY <1>1, <1>5 DEF Subscription, Phase
<1> HIDE DEF r
<1>7. BufferShape(r, t)
  BY <1>1, <1>6 DEF BufferShape, Draining, Reading
<1>8. Retained(r, t)
  BY <1>6 DEF SubInv, Shapes, Retained, Reading, Starting
<1>9. SnapshotShape(r, h) /\ ReplayShape(r, h, t)
  BY <1>1, <1>6 DEF SnapshotShape, ReplayShape, Reading
<1>10. Ahead(r, t) = A
  BY <1>6, AheadOfStart DEF Starting
<1>11. InFlight(r) = ToSet(q) /\ ToSet(r.output) = {} /\ ToSet(r.pending) = {}
       /\ Rising(r.output) /\ Rising(r.pending)
  BY <1>1, <1>6, NothingRises DEF InFlight
<1>12. FlowOrder(r, h, t, A)
  <2>1. \A i \in ToSet(q) : i \in Nat /\ h.cursor < i /\ i <= s.start
    BY <1>1, <1>2, <1>5, SetOfMember
  <2>2. Before(ToSet(q), A)
    <3> SUFFICES ASSUME NEW x \in ToSet(q), NEW y \in A PROVE x < y
      BY DEF Before
    <3>1. x \in Nat /\ y \in Nat /\ s.start \in Nat /\ x <= s.start /\ y > s.start
      BY <1>2, <2>1
    <3> QED BY <3>1
  <2>3. \A i \in A : i > h.cursor
    BY <1>1, <1>2
  <2>4. \A i \in A, j \in E : i < j => j \in A
    BY <1>2
  <2> HIDE DEF A
  <2> QED BY <1>5, <1>6, <1>11, <2>1, <2>2, <2>3, <2>4 DEF FlowOrder, Before
<1>13. ASSUME NEW i \in E \ A PROVE Accounted(i, h.known \cup InFlight(r) \cup A)
  <2> DEFINE K == h.known \cup Beyond(t, h.cursor)
             L == h.known \cup InFlight(r) \cup A
  <2>1. ASSUME NEW j \in E, h.cursor < j PROVE Accounted(j, L)
    <3>1. CASE j > s.start
      BY <3>1 DEF Accounted
    <3>2. CASE ~(j > s.start)
      <4>1. j \in ToSet(s.sent)
        BY <1>2, <1>3, <2>1, <3>2
      <4>2. Accounted(j, ToSet(q)) /\ ToSet(q) \subseteq L
        BY <1>5, <1>11, <4>1
      <4> QED BY <4>2, AccountedMore
    <3> QED BY <3>1, <3>2
  <2>2. CASE h.cursor < i
    BY <2>1, <2>2
  <2>3. CASE ~(h.cursor < i)
    <3>0. i <= h.cursor
      BY <1>2, <2>3
    <3>1. Accounted(i, K)
      BY <1>1, <3>0 DEF ClientShape
    <3>2. ASSUME NEW j \in K PROVE Accounted(j, L)
      <4>1. CASE j \in h.known
        BY <4>1 DEF Accounted
      <4>2. CASE j \in Beyond(t, h.cursor)
        <5>1. j \in E /\ h.cursor < j
          BY <1>2, <4>2 DEF Beyond
        <5> QED BY <2>1, <5>1
      <4> QED BY <4>1, <4>2
    <3>3. K \in SUBSET Nat /\ L \in SUBSET Nat /\ i \in Nat
      <4>1. ToSet(q) \subseteq E
        BY <1>5, SetOfMember
      <4>2. K \subseteq E /\ L \subseteq E
        BY <1>2, <1>11, <4>1 DEF Beyond
      <4> QED BY <1>2, <4>2
    <3> HIDE DEF K, L
    <3>4. Accounted(i, L)
      BY <3>1, <3>2, <3>3, AccountedFurther
    <3> QED BY <3>4 DEF L
  <2> QED BY <2>2, <2>3
<1>14. Flow(r, h, t, Ahead(r, t))
  <2> HIDE DEF A
  <2> QED BY <1>1, <1>10, <1>12, <1>13 DEF Flow, FlowComplete
<1>15. SubInv(r, h, t)
  BY <1>1, <1>6, <1>7, <1>8, <1>9, <1>14 DEF SubInv, Shapes
<1> QED BY <1>15 DEF r, q

LEMMA LoadSnapshotKeeps ==
    ASSUME LogShape, PruneShape, NEW t, NEW s, NEW h, SubInv(s, h, t), s.phase = "snapshot",
           EventsOfThread(t) # {}
    PROVE  SubInv([s EXCEPT !.phase = "initial", !.start = Latest(t),
                            !.sent = << Latest(t) >>, !.snapshot = TRUE], h, t)
<1> DEFINE r == [s EXCEPT !.phase = "initial", !.start = Latest(t),
                          !.sent = << Latest(t) >>, !.snapshot = TRUE]
<1>1. /\ s \in Subscription(t) /\ h \in Holding(t) /\ s.pos <= Len(channel) /\ ClientShape(h, t)
      /\ s.page = << >> /\ s.pending = << >> /\ s.output = << >> /\ s.retained = << >>
  BY DEF SubInv, Shapes, BufferShape
<1>2. /\ Latest(t) \in EventsOfThread(t) /\ \A i \in EventsOfThread(t) : i <= Latest(t)
      /\ Latest(t) \in Nat /\ Latest(t) <= Len(log)
  BY EventsAreNumbers, LatestIsLast DEF LogShape
<1>3. h.cursor <= Latest(t)
  BY <1>1, <1>2 DEF Holding
<1>4. << Latest(t) >> \in Seq(EventsOfThread(t))
  BY <1>2
<1>5. /\ r \in Subscription(t) /\ r.phase = "initial" /\ r.pos = s.pos /\ r.snapshot = TRUE
      /\ r.page = s.page /\ r.pending = s.pending /\ r.output = s.output /\ r.retained = s.retained
      /\ r.start = Latest(t) /\ r.sent = << Latest(t) >>
  BY <1>1, <1>2, <1>4 DEF Subscription, Phase
<1> HIDE DEF r
<1>6. BufferShape(r, t)
  BY <1>1, <1>2, <1>5 DEF BufferShape, Draining, Reading
<1>7. Retained(r, t)
  BY <1>2, <1>5 DEF Retained
<1>8. SnapshotShape(r, h) /\ ReplayShape(r, h, t) /\ ~Flows(r)
  BY <1>3, <1>5 DEF SnapshotShape, ReplayShape, Reading, Flows
<1>9. SubInv(r, h, t)
  BY <1>1, <1>5, <1>6, <1>7, <1>8 DEF SubInv, Shapes
<1> QED BY <1>9 DEF r

LEMMA OpenStreamKeeps ==
    ASSUME LogShape, NEW t, NEW s, NEW h, SubInv(s, h, t), s.phase = "initial", s.sent = << >>
    PROVE  SubInv([s EXCEPT !.phase = "opening"], h, t)
<1> DEFINE r == [s EXCEPT !.phase = "opening"]
<1>1. /\ s \in Subscription(t) /\ h \in Holding(t) /\ s.pos <= Len(channel) /\ ClientShape(h, t)
      /\ s.page = << >> /\ s.pending = << >> /\ s.output = << >> /\ s.retained = << >>
      /\ s.start <= Len(log) /\ ~s.snapshot
  BY DEF SubInv, Shapes, BufferShape, SnapshotShape, Starting
<1>2. /\ r \in Subscription(t) /\ r.phase = "opening" /\ r.pos = s.pos /\ r.snapshot = s.snapshot
      /\ r.page = s.page /\ r.pending = s.pending /\ r.output = s.output /\ r.retained = s.retained
      /\ r.start = s.start /\ r.sent = s.sent
  BY <1>1 DEF Subscription, Phase
<1> HIDE DEF r
<1>3. BufferShape(r, t)
  BY <1>1, <1>2 DEF BufferShape, Draining, Reading
<1>4. Retained(r, t)
  BY <1>2 DEF SubInv, Shapes, Retained, Starting
<1>5. SnapshotShape(r, h) /\ ReplayShape(r, h, t)
  BY <1>1, <1>2 DEF SnapshotShape, ReplayShape, Reading
<1>6. Flow(s, h, t, Ahead(s, t)) /\ Ahead(r, t) = Ahead(s, t)
  <2>1. r.phase \in Starting /\ s.phase \in Starting /\ Flows(s)
    BY <1>1, <1>2 DEF Starting, Flows, Draining
  <2>2. Ahead(r, t) = Ahead(s, t)
    BY <1>2, <2>1, AheadOfStart
  <2> QED BY <2>1, <2>2 DEF SubInv, Shapes
<1>7. Flow(r, h, t, Ahead(r, t))
  BY <1>2, <1>6, SameFlow
<1>8. SubInv(r, h, t)
  BY <1>1, <1>2, <1>3, <1>4, <1>5, <1>7 DEF SubInv, Shapes
<1> QED BY <1>8 DEF r

LEMMA SubscribeChannelKeeps ==
    ASSUME LogShape, NEW t, NEW s, NEW h, SubInv(s, h, t), s.phase = "opening"
    PROVE  SubInv([s EXCEPT !.phase = "subscribed", !.pos = Len(channel), !.through = s.start], h, t)
<1> DEFINE r == [s EXCEPT !.phase = "subscribed", !.pos = Len(channel), !.through = s.start]
<1>1. /\ s \in Subscription(t) /\ h \in Holding(t) /\ ClientShape(h, t)
      /\ s.page = << >> /\ s.pending = << >> /\ s.output = << >> /\ s.retained = << >>
      /\ s.start <= Len(log) /\ ~s.snapshot
  BY DEF SubInv, Shapes, BufferShape, SnapshotShape, Starting
<1>2. /\ Len(channel) \in Nat /\ s.start \in Nat
  BY <1>1 DEF LogShape, Subscription
<1>3. /\ r \in Subscription(t) /\ r.phase = "subscribed" /\ r.pos = Len(channel)
      /\ r.snapshot = s.snapshot
      /\ r.page = s.page /\ r.pending = s.pending /\ r.output = s.output /\ r.retained = s.retained
      /\ r.start = s.start /\ r.sent = s.sent /\ r.through = s.start
  BY <1>1, <1>2 DEF Subscription, Phase
<1> HIDE DEF r
<1>4. BufferShape(r, t)
  BY <1>1, <1>2, <1>3, NothingRises DEF BufferShape, Draining, Reading
<1>5. Retained(r, t)
  BY <1>3 DEF SubInv, Shapes, Retained, Starting
<1>6. SnapshotShape(r, h) /\ ReplayShape(r, h, t)
  BY <1>1, <1>3 DEF SnapshotShape, ReplayShape, Reading
<1>7. Flow(s, h, t, Ahead(s, t)) /\ Ahead(r, t) = Ahead(s, t)
  <2>1. r.phase \in Starting /\ s.phase \in Starting /\ Flows(s)
    BY <1>1, <1>3 DEF Starting, Flows, Draining
  <2>2. Ahead(r, t) = Ahead(s, t)
    BY <1>3, <2>1, AheadOfStart
  <2> QED BY <2>1, <2>2 DEF SubInv, Shapes
<1>8. Flow(r, h, t, Ahead(r, t))
  BY <1>3, <1>7, SameFlow
<1>9. r.pos <= Len(channel)
  BY <1>2, <1>3
<1>10. SubInv(r, h, t)
  BY <1>1, <1>3, <1>4, <1>5, <1>6, <1>8, <1>9 DEF SubInv, Shapes
<1> QED BY <1>10 DEF r

LEMMA ReadLatestKeeps ==
    ASSUME LogShape, NEW t, NEW s, NEW h, SubInv(s, h, t), s.phase = "subscribed"
    PROVE  SubInv([s EXCEPT !.phase = "latest", !.latest = Len(log)], h, t)
<1> DEFINE r == [s EXCEPT !.phase = "latest", !.latest = Len(log)]
<1>1. /\ s \in Subscription(t) /\ h \in Holding(t) /\ ClientShape(h, t) /\ s.pos <= Len(channel)
      /\ s.page = << >> /\ s.pending = << >> /\ s.output = << >> /\ s.through = s.start
      /\ s.start <= Len(log) /\ ~s.snapshot
      /\ Rising(s.retained) /\ \A i \in ToSet(s.retained) : s.start < i /\ i <= Drained(s)
  BY DEF SubInv, Shapes, BufferShape, SnapshotShape, Starting, Draining
<1>2. Len(log) \in Nat /\ \A i \in EventsOfThread(t) : i \in Nat /\ i <= Len(log)
  BY EventsAreNumbers DEF LogShape
<1>3. /\ r \in Subscription(t) /\ r.phase = "latest" /\ r.pos = s.pos
      /\ r.snapshot = s.snapshot /\ r.latest = Len(log)
      /\ r.page = s.page /\ r.pending = s.pending /\ r.output = s.output /\ r.retained = s.retained
      /\ r.start = s.start /\ r.sent = s.sent /\ r.through = s.through
  BY <1>1, <1>2 DEF Subscription, Phase
<1> HIDE DEF r
<1>4. Drained(r) = Drained(s) /\ \A i \in EventsOfThread(t) : ~(Len(log) < i)
  BY <1>2, <1>3 DEF Drained
<1>5. s.start <= s.start /\ Len(log) <= Len(log)
  BY <1>1, <1>2 DEF Subscription
<1>6. BufferShape(r, t)
  BY <1>1, <1>3, <1>4, <1>5 DEF BufferShape, Draining, Reading
<1>7. Retained(r, t)
  BY <1>3 DEF SubInv, Shapes, Retained, Starting
<1>8. SnapshotShape(r, h) /\ ReplayShape(r, h, t)
  BY <1>1, <1>3 DEF SnapshotShape, ReplayShape, Reading
<1>9. Flow(s, h, t, Ahead(s, t)) /\ Ahead(r, t) = Ahead(s, t)
  <2>1. r.phase \in Starting /\ s.phase \in Starting /\ Flows(s)
    BY <1>1, <1>3 DEF Starting, Flows, Draining
  <2>2. Ahead(r, t) = Ahead(s, t)
    BY <1>3, <2>1, AheadOfStart
  <2> QED BY <2>1, <2>2 DEF SubInv, Shapes
<1>10. Flow(r, h, t, Ahead(r, t))
  BY <1>3, <1>9, SameFlow
<1>11. SubInv(r, h, t)
  BY <1>1, <1>3, <1>6, <1>7, <1>8, <1>10 DEF SubInv, Shapes
<1> QED BY <1>11 DEF r

LEMMA BeginCatchUpKeeps ==
    ASSUME LogShape, NEW t, NEW s, NEW h, SubInv(s, h, t), s.phase = "latest"
    PROVE  SubInv([s EXCEPT !.phase = "paging",
                       !.through = IF s.latest > s.start THEN s.latest ELSE s.start,
                       !.readTo = s.start], h, t)
<1> DEFINE v == IF s.latest > s.start THEN s.latest ELSE s.start
           r == [s EXCEPT !.phase = "paging", !.through = v, !.readTo = s.start]
<1>1. /\ s \in Subscription(t) /\ h \in Holding(t) /\ ClientShape(h, t) /\ s.pos <= Len(channel)
      /\ s.page = << >> /\ s.pending = << >> /\ s.output = << >>
      /\ s.start <= s.latest /\ s.latest <= Len(log) /\ ~s.snapshot
      /\ Rising(s.retained) /\ \A i \in ToSet(s.retained) : s.start < i /\ i <= Drained(s)
      /\ \A i \in EventsOfThread(t) : s.latest < i /\ i <= Drained(s) => i \in ToSet(s.retained)
  BY DEF SubInv, Shapes, BufferShape, SnapshotShape, Draining
<1>2. /\ v = s.latest /\ v \in Nat /\ s.start \in Nat /\ s.latest \in Nat /\ s.start <= s.start
      /\ s.start <= Len(log)
  BY <1>1 DEF LogShape, IsLog, Subscription
<1> HIDE DEF v
<1>3. /\ r \in Subscription(t) /\ r.phase = "paging" /\ r.pos = s.pos
      /\ r.snapshot = s.snapshot /\ r.latest = s.latest /\ r.readTo = s.start
      /\ r.page = s.page /\ r.pending = s.pending /\ r.output = s.output /\ r.retained = s.retained
      /\ r.start = s.start /\ r.sent = s.sent /\ r.through = s.latest
  BY <1>1, <1>2 DEF Subscription, Phase
<1> HIDE DEF r
<1>4. Drained(r) = Drained(s)
  BY <1>3 DEF Drained
<1>5. BufferShape(r, t)
  BY <1>1, <1>2, <1>3, <1>4, NothingRises DEF BufferShape, Draining, Reading, Starting
<1>6. Retained(r, t)
  BY <1>3 DEF SubInv, Shapes, Retained, Starting
<1>7. SnapshotShape(r, h) /\ ReplayShape(r, h, t)
  BY <1>1, <1>3 DEF SnapshotShape, ReplayShape, Reading
<1>8. Ahead(s, t) = {i \in EventsOfThread(t) : i > s.start}
  BY AheadOfStart DEF Starting
<1>9. Ahead(r, t) = {i \in EventsOfThread(t) : i > s.start}
  BY <1>1, <1>3, NothingRises DEF Ahead, Starting
<1>10. Flow(r, h, t, Ahead(r, t))
  <2>1. Flow(s, h, t, Ahead(r, t))
    BY <1>1, <1>8, <1>9 DEF SubInv, Shapes, Flows, Draining
  <2> QED BY <1>3, <2>1, SameFlow
<1>11. SubInv(r, h, t)
  BY <1>1, <1>3, <1>5, <1>6, <1>7, <1>10 DEF SubInv, Shapes
<1> QED BY <1>11 DEF r, v

\* What the tail knows of a subscription that pages.
LEMMA PagingFacts ==
    ASSUME LogShape, PruneShape, NEW t, NEW s, NEW h, SubInv(s, h, t), s.phase = "paging"
    PROVE  /\ s \in Subscription(t) /\ h \in Holding(t) /\ ClientShape(h, t) /\ s.pos <= Len(channel)
           /\ s.start \in Nat /\ s.latest \in Nat /\ s.readTo \in Nat /\ Len(log) \in Nat
           /\ s.start <= s.readTo /\ s.readTo <= s.latest /\ s.latest <= Len(log) /\ s.start <= Len(log)
           /\ s.through = s.latest /\ ~s.snapshot
           /\ Rising(s.page) /\ \A i \in ToSet(s.page) : s.start < i /\ i <= s.readTo
           /\ Rising(s.retained) /\ \A i \in ToSet(s.retained) : s.start < i /\ i <= Drained(s)
           /\ \A i \in EventsOfThread(t) : s.latest < i /\ i <= Drained(s) => i \in ToSet(s.retained)
           /\ EventsOfThread(t) \subseteq Nat
           /\ Ahead(s, t) = {i \in EventsOfThread(t) : i \in ToSet(s.page) \/ i > s.readTo}
           /\ Flow(s, h, t, Ahead(s, t))
           /\ LET rows == Stored(t, s.readTo, s.latest)
              IN  /\ rows \in Seq(EventsOfThread(t)) /\ Rising(rows)
                  /\ ToSet(rows) = {i \in EventsOfThread(t) : s.readTo < i /\ i <= s.latest}
<1>1. /\ s \in Subscription(t) /\ h \in Holding(t) /\ ClientShape(h, t) /\ s.pos <= Len(channel)
      /\ s.start <= s.readTo /\ s.readTo <= s.latest /\ s.latest <= Len(log) /\ s.start <= Len(log)
      /\ s.through = s.latest /\ ~s.snapshot
      /\ Rising(s.page) /\ \A i \in ToSet(s.page) : s.start < i /\ i <= s.readTo
      /\ Rising(s.retained) /\ \A i \in ToSet(s.retained) : s.start < i /\ i <= Drained(s)
      /\ \A i \in EventsOfThread(t) : s.latest < i /\ i <= Drained(s) => i \in ToSet(s.retained)
  BY DEF SubInv, Shapes, BufferShape, SnapshotShape, Draining
<1>2. EventsOfThread(t) \subseteq Nat /\ s.start \in Nat /\ s.latest \in Nat /\ s.readTo \in Nat
      /\ Len(log) \in Nat
  BY <1>1, EventsAreNumbers DEF LogShape, Subscription
<1>3. Ahead(s, t) = {i \in EventsOfThread(t) : i \in ToSet(s.page) \/ i > s.readTo}
  BY DEF Ahead, Starting
<1>4. Flow(s, h, t, Ahead(s, t))
  BY <1>1 DEF SubInv, Shapes, Flows, Draining
<1> DEFINE rows == Stored(t, s.readTo, s.latest)
<1>5. /\ rows \in Seq(EventsOfThread(t)) /\ Rising(rows)
      /\ ToSet(rows) = {i \in EventsOfThread(t) \ gone : s.readTo < i /\ i <= s.latest}
  BY StoredEvents DEF LogShape
<1>6. ASSUME NEW i \in EventsOfThread(t), s.readTo < i PROVE i \notin gone
  <2>1. i \in gone => i <= prune.through
    BY DEF PruneShape
  <2>2. i <= prune.through => i <= s.start
    BY DEF SubInv, Shapes, Retained
  <2> QED BY <1>1, <1>2, <1>6, <2>1, <2>2
<1>7. ToSet(rows) = {i \in EventsOfThread(t) : s.readTo < i /\ i <= s.latest}
  <2> HIDE DEF rows
  <2> QED BY <1>5, <1>6
<1> QED BY <1>1, <1>2, <1>3, <1>4, <1>5, <1>7

LEMMA LastPageKeeps ==
    ASSUME LogShape, PruneShape, NEW t, NEW s, NEW h, SubInv(s, h, t), s.phase = "paging",
           s.page = << >>, Stored(t, s.readTo, s.latest) = << >>
    PROVE  SubInv([s EXCEPT !.phase = "live"], h, t)
<1> DEFINE r == [s EXCEPT !.phase = "live"]
           E == EventsOfThread(t)
<1>1. /\ s \in Subscription(t) /\ h \in Holding(t) /\ ClientShape(h, t) /\ s.pos <= Len(channel)
      /\ s.start \in Nat /\ s.latest \in Nat /\ s.readTo \in Nat /\ Len(log) \in Nat
      /\ s.start <= s.readTo /\ s.readTo <= s.latest /\ s.latest <= Len(log) /\ s.start <= Len(log)
      /\ s.through = s.latest /\ ~s.snapshot
      /\ Rising(s.retained) /\ \A i \in ToSet(s.retained) : s.start < i /\ i <= Drained(s)
      /\ \A i \in E : s.latest < i /\ i <= Drained(s) => i \in ToSet(s.retained)
      /\ E \subseteq Nat
      /\ Ahead(s, t) = {i \in E : i \in ToSet(s.page) \/ i > s.readTo}
      /\ Flow(s, h, t, Ahead(s, t))
  BY PagingFacts
<1>2. \A i \in E : i > s.readTo <=> i > s.latest
  <2>1. {i \in E : s.readTo < i /\ i <= s.latest} = {}
    BY PagingFacts, NothingRises
  <2> QED BY <1>1, <2>1
<1>3. /\ r \in Subscription(t) /\ r.phase = "live" /\ r.pos = s.pos
      /\ r.snapshot = s.snapshot /\ r.latest = s.latest /\ r.readTo = s.readTo
      /\ r.page = s.page /\ r.pending = s.pending /\ r.output = s.output /\ r.retained = s.retained
      /\ r.start = s.start /\ r.sent = s.sent /\ r.through = s.through
  BY <1>1 DEF Subscription, Phase
<1> HIDE DEF r
<1>4. Drained(r) = Drained(s) /\ Drained(s) \in Int
  BY <1>1, <1>3 DEF Drained, LogShape, IsLog, Subscription
<1>5. s.start <= s.through
  BY <1>1
<1>6. BufferShape(r, t)
  BY <1>1, <1>3, <1>4, <1>5 DEF BufferShape, Draining, Reading, Starting
<1>7. Retained(r, t) /\ SnapshotShape(r, h) /\ ReplayShape(r, h, t)
  BY <1>1, <1>3 DEF Retained, Starting, SnapshotShape, ReplayShape, Reading
<1>8. Ahead(r, t) = Ahead(s, t)
  <2>1. Ahead(r, t) = {i \in E : i > s.latest /\ (i \in ToSet(s.retained) \/ i > Drained(s))}
    BY <1>1, <1>3, <1>4 DEF Ahead, Starting
  <2>2. \A i \in E : i > s.latest => i \in ToSet(s.retained) \/ i > Drained(s)
    BY <1>1, <1>4
  <2>3. Ahead(s, t) = {i \in E : i > s.readTo}
    BY <1>1, NothingRises
  <2> QED BY <1>2, <2>1, <2>2, <2>3
<1>9. Flow(r, h, t, Ahead(r, t))
  BY <1>1, <1>3, <1>8, SameFlow
<1>10. SubInv(r, h, t)
  BY <1>1, <1>3, <1>6, <1>7, <1>9 DEF SubInv, Shapes
<1> QED BY <1>10 DEF r

LEMMA NextPageKeeps ==
    ASSUME LogShape, PruneShape, NEW t, NEW s, NEW h, SubInv(s, h, t), s.phase = "paging",
           s.page = << >>, NEW n \in 1 .. Len(Stored(t, s.readTo, s.latest)),
           n < PageSize => n = Len(Stored(t, s.readTo, s.latest)),
           NEW page, page = SubSeq(Stored(t, s.readTo, s.latest), 1, n)
    PROVE  SubInv([s EXCEPT !.page = page,
                      !.readTo = IF Len(page) < PageSize THEN s.latest ELSE Last(page)], h, t)
<1> DEFINE E == EventsOfThread(t)
           v == IF Len(page) < PageSize THEN s.latest ELSE Last(page)
           r == [s EXCEPT !.page = page, !.readTo = v]
           rows == Stored(t, s.readTo, s.latest)
<1>1. /\ s \in Subscription(t) /\ h \in Holding(t) /\ ClientShape(h, t) /\ s.pos <= Len(channel)
      /\ s.start \in Nat /\ s.latest \in Nat /\ s.readTo \in Nat /\ Len(log) \in Nat
      /\ s.start <= s.readTo /\ s.readTo <= s.latest /\ s.latest <= Len(log) /\ s.start <= Len(log)
      /\ s.through = s.latest /\ ~s.snapshot
      /\ Rising(s.retained) /\ \A i \in ToSet(s.retained) : s.start < i /\ i <= Drained(s)
      /\ \A i \in E : s.latest < i /\ i <= Drained(s) => i \in ToSet(s.retained)
      /\ E \in SUBSET Nat
      /\ Ahead(s, t) = {i \in E : i \in ToSet(s.page) \/ i > s.readTo}
      /\ Flow(s, h, t, Ahead(s, t))
  BY PagingFacts
<1>2. /\ rows \in Seq(E) /\ Rising(rows)
      /\ ToSet(rows) = {i \in E : s.readTo < i /\ i <= s.latest}
  BY PagingFacts
<1> HIDE DEF rows
<1>3. n \in 0 .. Len(rows) /\ n # 0 /\ Len(rows) \in Nat /\ page = SubSeq(rows, 1, n)
      /\ (n < PageSize => n = Len(rows))
  <2>1. n \in 1 .. Len(rows) /\ page = SubSeq(rows, 1, n) /\ (n < PageSize => n = Len(rows))
    BY DEF rows
  <2>2. Len(rows) \in Nat
    BY <1>2
  <2> QED BY <2>1, <2>2
<1>4. /\ page \in Seq(E) /\ Len(page) = n /\ Rising(page) /\ ToSet(page) \subseteq ToSet(rows)
      /\ \A x \in ToSet(page), y \in ToSet(rows) \ ToSet(page) : x < y
      /\ n = Len(rows) => page = rows
      /\ Last(page) \in ToSet(page) /\ \A x \in ToSet(page) : x <= Last(page)
  <2>1. E \in SUBSET Nat /\ rows \in Seq(E) /\ Rising(rows) /\ n \in 0 .. Len(rows) /\ n # 0
    BY <1>1, <1>2, <1>3
  <2> HIDE DEF E
  <2> DEFINE front == SubSeq(rows, 1, n)
  <2>2. /\ front \in Seq(E) /\ Len(front) = n /\ Rising(front) /\ ToSet(front) \subseteq ToSet(rows)
        /\ \A x \in ToSet(front), y \in ToSet(rows) \ ToSet(front) : x < y
        /\ n = Len(rows) => front = rows
        /\ Last(front) \in ToSet(front) /\ \A x \in ToSet(front) : x <= Last(front)
    BY ONLY <2>1, FrontRises
  <2>3. page = front
    BY <1>3
  <2> HIDE DEF front
  <2> QED BY <2>2, <2>3
<1>5. /\ v \in Nat /\ s.readTo <= v /\ v <= s.latest /\ \A x \in ToSet(page) : x <= v
      /\ \A i \in E : i > s.readTo /\ i \notin ToSet(page) => i > v
  <2>1. CASE Len(page) < PageSize
    <3>1. v = s.latest /\ n = Len(rows) /\ page = rows
      BY <1>3, <1>4, <2>1
    <3>2. ToSet(page) = {i \in E : s.readTo < i /\ i <= s.latest}
      BY <1>2, <3>1
    <3> HIDE DEF v
    <3>3. ASSUME NEW i \in E, i > s.readTo, i \notin ToSet(page) PROVE i > v
      BY <1>1, <3>1, <3>2, <3>3
    <3> QED BY <1>1, <3>1, <3>2, <3>3
  <2>2. CASE ~(Len(page) < PageSize)
    <3>1. v = Last(page) /\ v \in ToSet(rows) /\ v \in E
      BY <1>2, <1>4, <2>2
    <3>2. v \in Nat /\ s.readTo < v /\ v <= s.latest
      BY <1>1, <1>2, <3>1
    <3>3. ASSUME NEW i \in E, i > s.readTo, i \notin ToSet(page) PROVE i > v
      <4>1. i \in Nat
        BY <1>1
      <4>2. CASE i > s.latest
        BY <1>1, <3>2, <4>1, <4>2
      <4>3. CASE ~(i > s.latest)
        <5>1. i \in ToSet(rows) \ ToSet(page)
          BY <1>1, <1>2, <3>3, <4>1, <4>3
        <5>2. v < i
          BY <1>4, <3>1, <5>1
        <5> QED BY <3>2, <4>1, <5>2
      <4> QED BY <4>2, <4>3
    <3> QED BY <1>1, <1>4, <3>1, <3>2, <3>3
  <2> QED BY <2>1, <2>2
<1> HIDE DEF v
<1>6. /\ r \in Subscription(t) /\ r.phase = "paging" /\ r.pos = s.pos
      /\ r.snapshot = s.snapshot /\ r.latest = s.latest /\ r.readTo = v
      /\ r.page = page /\ r.pending = s.pending /\ r.output = s.output /\ r.retained = s.retained
      /\ r.start = s.start /\ r.sent = s.sent /\ r.through = s.through
  BY <1>1, <1>4, <1>5 DEF Subscription, Phase
<1> HIDE DEF r
<1>7. Drained(r) = Drained(s)
  BY <1>6 DEF Drained
<1>8. s.start <= v /\ s.start <= s.latest /\ \A i \in ToSet(page) : s.start < i
  <2>1. \A i \in ToSet(page) : i \in Nat /\ s.readTo < i
    BY <1>1, <1>2, <1>4
  <2> QED BY <1>1, <1>5, <2>1
<1>9. BufferShape(r, t)
  BY <1>1, <1>4, <1>5, <1>6, <1>7, <1>8 DEF BufferShape, Draining, Reading, Starting
<1>10. Retained(r, t)
  BY <1>6 DEF SubInv, Shapes, Retained
<1>11. SnapshotShape(r, h) /\ ReplayShape(r, h, t)
  BY <1>1, <1>6 DEF SnapshotShape, ReplayShape, Reading
<1>12. Ahead(r, t) = Ahead(s, t)
  <2>1. Ahead(r, t) = {i \in E : i \in ToSet(page) \/ i > v}
    BY <1>6 DEF Ahead, Starting
  <2>2. Ahead(s, t) = {i \in E : i > s.readTo}
    BY <1>1, NothingRises
  <2>3. ASSUME NEW i \in E PROVE (i \in ToSet(page) \/ i > v) <=> i > s.readTo
    <3>1. i \in Nat
      BY <1>1
    <3>2. i \in ToSet(page) => i > s.readTo
      BY <1>1, <1>2, <1>4
    <3>3. i > v => i > s.readTo
      BY <1>1, <1>5, <3>1
    <3> QED BY <1>5, <3>2, <3>3
  <2> QED BY <2>1, <2>2, <2>3
<1>13. Flow(r, h, t, Ahead(r, t))
  BY <1>1, <1>6, <1>12, SameFlow
<1>14. SubInv(r, h, t)
  BY <1>1, <1>6, <1>9, <1>10, <1>11, <1>13 DEF SubInv, Shapes
<1> QED BY <1>14 DEF r, v

-----------------------------------------------------------------------------
(* Steps of the server that puts events on their way. *)

LEMMA LostKeeps ==
    ASSUME LogShape, NEW t, NEW s, NEW h, Shapes(s, h, t), ~s.snapshot, NEW r, Lost(r, s, h, t)
    PROVE  SubInv(r, h, t)
<1>1. /\ r \in Subscription(t) /\ r.phase = "failed" /\ r.pos = s.pos /\ ~r.snapshot
      /\ Remnant(r, h, t)
  BY DEF Lost
<1>2. BufferShape(r, t)
  BY <1>1 DEF BufferShape, Draining, Reading, Starting
<1>3. Retained(r, t)
  BY <1>1 DEF Retained, Reading, Starting
<1>4. SnapshotShape(r, h) /\ ReplayShape(r, h, t) /\ ~Flows(r)
  BY <1>1 DEF SnapshotShape, ReplayShape, Reading, Flows, Draining
<1> QED BY <1>1, <1>2, <1>3, <1>4 DEF SubInv, Shapes

LEMMA OverflowKeeps ==
    ASSUME LogShape, NEW t, NEW s, NEW h, SubInv(s, h, t), s.phase \in Draining
    PROVE  SubInv(Fail(s), h, t)
<1>1. Shapes(s, h, t) /\ ~s.snapshot /\ Flow(s, h, t, Ahead(s, t))
  BY DEF SubInv, Shapes, SnapshotShape, Draining, Flows
<1>2. Ahead(s, t) \in SUBSET EventsOfThread(t)
  BY DEF Ahead
<1>3. Lost(Fail(s), s, h, t)
  BY <1>1, <1>2, FailLoses DEF LogShape, Shapes
<1> QED BY <1>1, <1>3, LostKeeps

LEMMA BufferedKeeps ==
    ASSUME LogShape, NEW t, NEW s, NEW h, Shapes(s, h, t), s.phase \in {"paging", "live"},
           NEW r, Buffered(r, s, t), Flow(r, h, t, Ahead(s, t))
    PROVE  SubInv(r, h, t)
<1>1. /\ r.phase = s.phase /\ r.start = s.start /\ r.latest = s.latest /\ r.through = s.through
      /\ r.pos = s.pos /\ r.readTo = s.readTo /\ r.retained = s.retained /\ r.page = s.page
      /\ r.sent = s.sent /\ r.snapshot = s.snapshot /\ r \in Subscription(t)
  BY DEF Buffered
<1>2. Drained(r) = Drained(s)
  BY <1>1 DEF Drained
<1>3. BufferShape(r, t)
  BY <1>1, <1>2 DEF Shapes, BufferShape, Draining, Reading, Starting
<1>4. Retained(r, t)
  BY <1>1 DEF Shapes, Retained
<1>5. SnapshotShape(r, h) /\ ReplayShape(r, h, t)
  BY <1>1 DEF Shapes, SnapshotShape, ReplayShape, Reading
<1>6. Ahead(r, t) = Ahead(s, t)
  BY <1>1, <1>2 DEF Ahead
<1>7. Shapes(r, h, t)
  BY <1>1, <1>3, <1>4, <1>5 DEF Shapes
<1> QED BY <1>1, <1>6, <1>7 DEF SubInv

LEMMA PullPageKeeps ==
    ASSUME LogShape, PruneShape, NEW t, NEW s, NEW h, SubInv(s, h, t), s.phase = "paging",
           s.page # << >>
    PROVE  SubInv(OfferOne([s EXCEPT !.page = Tail(@)], Head(s.page)), h, t)
<1> DEFINE E == EventsOfThread(t)
           i == Head(s.page)
           rest == Tail(s.page)
           p == [s EXCEPT !.page = rest]
           r == OfferOne(p, i)
           A == {e \in E : e \in ToSet(rest) \/ e > s.readTo}
<1>1. /\ s \in Subscription(t) /\ h \in Holding(t) /\ ClientShape(h, t) /\ s.pos <= Len(channel)
      /\ s.start \in Nat /\ s.latest \in Nat /\ s.readTo \in Nat /\ Len(log) \in Nat
      /\ s.start <= s.readTo /\ s.readTo <= s.latest /\ s.latest <= Len(log) /\ s.start <= Len(log)
      /\ s.through = s.latest /\ ~s.snapshot
      /\ Rising(s.page) /\ \A e \in ToSet(s.page) : s.start < e /\ e <= s.readTo
      /\ Rising(s.retained) /\ \A e \in ToSet(s.retained) : s.start < e /\ e <= Drained(s)
      /\ \A e \in E : s.latest < e /\ e <= Drained(s) => e \in ToSet(s.retained)
      /\ E \in SUBSET Nat
      /\ Ahead(s, t) = {e \in E : e \in ToSet(s.page) \/ e > s.readTo}
      /\ Flow(s, h, t, Ahead(s, t))
  BY PagingFacts
<1>2. s.page \in Seq(E)
  BY <1>1 DEF Subscription
<1>3. /\ i \in E /\ rest \in Seq(E) /\ ToSet(s.page) = {i} \cup ToSet(rest) /\ Rising(rest)
      /\ \A e \in ToSet(rest) : i < e
  <2> HIDE DEF E
  <2> QED BY <1>1, <1>2, TailRises
<1> HIDE DEF i, rest
<1>4. /\ p \in Subscription(t) /\ p.phase = "paging" /\ p.pos = s.pos
      /\ p.snapshot = s.snapshot /\ p.latest = s.latest /\ p.readTo = s.readTo
      /\ p.page = rest /\ p.pending = s.pending /\ p.output = s.output /\ p.retained = s.retained
      /\ p.start = s.start /\ p.sent = s.sent /\ p.through = s.through
  BY <1>1, <1>3 DEF Subscription, Phase
<1> HIDE DEF p
<1>5. Shapes(p, h, t)
  <2>1. Drained(p) = Drained(s)
    BY <1>4 DEF Drained
  <2>2. s.start <= s.latest
    BY <1>1
  <2>3. BufferShape(p, t)
    BY <1>1, <1>3, <1>4, <2>1, <2>2 DEF BufferShape, Draining, Reading, Starting
  <2>4. Retained(p, t)
    BY <1>4 DEF SubInv, Shapes, Retained
  <2>5. SnapshotShape(p, h) /\ ReplayShape(p, h, t)
    BY <1>1, <1>4 DEF SnapshotShape, ReplayShape, Reading
  <2> QED BY <1>1, <1>4, <2>3, <2>4, <2>5 DEF Shapes
<1>6. Ahead(p, t) = A
  BY <1>4 DEF Ahead, Starting
<1>7. Ahead(s, t) = A \cup {i}
  BY <1>1, <1>3
<1>8. \A j \in A : i < j
  <2>1. i <= s.readTo /\ i \in Nat
    BY <1>1, <1>3
  <2>2. \A e \in E : e > s.readTo => i < e
    BY <1>1, <2>1
  <2> QED BY <1>3, <2>2
<1>9. A \in SUBSET E
  OBVIOUS
<1> HIDE DEF A
<1>10. Flow(p, h, t, A \cup {i})
  BY <1>1, <1>4, <1>7, SameFlow
<1>11. Lost(r, p, h, t) \/ (Buffered(r, p, t) /\ Flow(r, h, t, A))
  <2>1. p.phase # "failed" /\ IsLog
    BY <1>4 DEF LogShape
  <2> QED BY <1>1, <1>3, <1>4, <1>8, <1>9, <1>10, <2>1, OfferOneKeeps
<1> HIDE DEF r
<1>12. CASE Lost(r, p, h, t)
  <2>1. SubInv(r, h, t)
    BY <1>1, <1>4, <1>5, <1>12, LostKeeps
  <2> QED BY <2>1 DEF r, p, i, rest
<1>13. CASE Buffered(r, p, t) /\ Flow(r, h, t, A)
  <2>1. SubInv(r, h, t)
    BY <1>4, <1>5, <1>6, <1>13, BufferedKeeps
  <2> QED BY <2>1 DEF r, p, i, rest
<1> QED BY <1>11, <1>12, <1>13

LEMMA PullLiveKeeps ==
    ASSUME LogShape, PruneShape, NEW t, NEW s, NEW h, SubInv(s, h, t), s.phase = "live"
    PROVE  SubInv(OfferAll([s EXCEPT !.retained = << >>],
                           Among(s.retained, {i \in EventsOfThread(t) : i > s.through})), h, t)
<1> DEFINE E == EventsOfThread(t)
           fresh == {i \in E : i > s.through}
           items == Among(s.retained, fresh)
           p == [s EXCEPT !.retained = << >>]
           r == OfferAll(p, items)
           A == {e \in E : e > s.through /\ e > Drained(s)}
<1>1. /\ s \in Subscription(t) /\ h \in Holding(t) /\ ClientShape(h, t) /\ s.pos <= Len(channel)
      /\ s.start <= Len(log) /\ s.start <= s.through /\ s.through <= Len(log) /\ ~s.snapshot
      /\ s.page = << >>
      /\ Rising(s.retained) /\ \A e \in ToSet(s.retained) : s.start < e /\ e <= Drained(s)
      /\ Flow(s, h, t, Ahead(s, t))
  BY DEF SubInv, Shapes, BufferShape, SnapshotShape, Draining, Starting, Flows
<1>2. E \in SUBSET Nat /\ s.retained \in Seq(E) /\ Drained(s) \in Int /\ s.through \in Nat
  BY <1>1, EventsAreNumbers DEF Subscription, LogShape, IsLog, Drained
<1>3. /\ items \in Seq(E) /\ ToSet(items) = ToSet(s.retained) \cap fresh /\ Rising(items)
  <2> HIDE DEF E, fresh
  <2> QED BY <1>1, <1>2, AmongKeeps, AmongRising
<1> HIDE DEF items
<1>4. << >> \in Seq(E)
  OBVIOUS
<1>5. /\ p \in Subscription(t) /\ p.phase = "live" /\ p.pos = s.pos
      /\ p.snapshot = s.snapshot /\ p.latest = s.latest /\ p.readTo = s.readTo
      /\ p.page = s.page /\ p.pending = s.pending /\ p.output = s.output /\ p.retained = << >>
      /\ p.start = s.start /\ p.sent = s.sent /\ p.through = s.through
  BY <1>1, <1>4 DEF Subscription, Phase
<1> HIDE DEF p
<1>6. Shapes(p, h, t)
  <2>1. BufferShape(p, t)
    BY <1>1, <1>5, NothingRises DEF BufferShape, Draining, Reading, Starting
  <2>2. Retained(p, t)
    BY <1>5 DEF SubInv, Shapes, Retained
  <2>3. SnapshotShape(p, h) /\ ReplayShape(p, h, t)
    BY <1>1, <1>5 DEF SnapshotShape, ReplayShape, Reading
  <2> QED BY <1>1, <1>5, <2>1, <2>2, <2>3 DEF Shapes
<1>7. Ahead(p, t) = A
  <2>1. Drained(p) = Drained(s)
    BY <1>5 DEF Drained
  <2> QED BY <1>5, <2>1, NothingRises DEF Ahead, Starting
<1>8. Ahead(s, t) = A \cup ToSet(items)
  <2>1. Ahead(s, t) = {e \in E : e > s.through /\ (e \in ToSet(s.retained) \/ e > Drained(s))}
    BY DEF Ahead, Starting
  <2> QED BY <1>2, <1>3, <2>1, SetOfMember
<1>9. Before(ToSet(items), A)
  <2> SUFFICES ASSUME NEW x \in ToSet(items), NEW y \in A PROVE x < y
    BY DEF Before
  <2>1. x \in Nat /\ y \in Nat /\ x <= Drained(s) /\ y > Drained(s)
    BY <1>1, <1>2, <1>3
  <2> QED BY <1>2, <2>1
<1>10. A \in SUBSET E
  OBVIOUS
<1> HIDE DEF A
<1>11. Flow(p, h, t, A \cup ToSet(items))
  BY <1>1, <1>5, <1>8, SameFlow
<1>12. Lost(r, p, h, t) \/ (Buffered(r, p, t) /\ Flow(r, h, t, A))
  <2>1. p.phase # "failed" /\ IsLog
    BY <1>5 DEF LogShape
  <2> QED BY <1>1, <1>3, <1>5, <1>9, <1>10, <1>11, <2>1, OfferAllKeeps
<1> HIDE DEF r
<1>13. SubInv(r, h, t)
  <2>1. CASE Lost(r, p, h, t)
    BY <1>1, <1>5, <1>6, <2>1, LostKeeps
  <2>2. CASE Buffered(r, p, t) /\ Flow(r, h, t, A)
    BY <1>5, <1>6, <1>7, <2>2, BufferedKeeps
  <2> QED BY <1>12, <2>1, <2>2
<1> QED BY <1>13 DEF r, p, items

\* The next event of the channel, while the subscription has not drained it.
LEMMA NextOfChannel ==
    ASSUME LogShape, NEW t, NEW s \in Subscription(t), s.pos < Len(channel)
    PROVE  /\ channel[s.pos + 1] = Drained(s) + 1 /\ Drained(s) \in Nat
           /\ channel[s.pos + 1] \in 1 .. Len(log)
           /\ s.pos \in Nat /\ Len(channel) \in Nat /\ announced \in Nat
<1>1. s.pos \in Nat /\ Len(channel) \in Nat /\ announced \in Nat /\ Len(log) \in Nat
      /\ announced <= Len(log) /\ Len(channel) <= announced
  <2>1. s.pos \in Nat
    BY DEF Subscription
  <2>2. /\ Len(channel) \in Nat /\ announced \in Nat /\ Len(log) \in Nat
        /\ announced <= Len(log) /\ Len(channel) <= announced
    BY DEF LogShape, IsLog
  <2> QED BY <2>1, <2>2
<1>2. s.pos + 1 \in 1 .. Len(channel)
  BY <1>1
<1>3. channel[s.pos + 1] = announced - Len(channel) + (s.pos + 1)
  BY <1>2 DEF LogShape
<1> QED BY <1>1, <1>3 DEF Drained

LEMMA DrainPassesKeeps ==
    ASSUME LogShape, NEW t, NEW s, NEW h, SubInv(s, h, t), s.phase \in Draining,
           s.pos < Len(channel),
           ~(log[channel[s.pos + 1]].thread = t /\ channel[s.pos + 1] > s.through)
    PROVE  SubInv([s EXCEPT !.pos = @ + 1], h, t)
<1> DEFINE E == EventsOfThread(t)
           i == channel[s.pos + 1]
           r == [s EXCEPT !.pos = @ + 1]
<1>1. /\ s \in Subscription(t) /\ h \in Holding(t) /\ Shapes(s, h, t) /\ ~s.snapshot
      /\ Flow(s, h, t, Ahead(s, t))
  BY DEF SubInv, Shapes, SnapshotShape, Draining, Flows
<1>2. /\ i = Drained(s) + 1 /\ Drained(s) \in Nat /\ i \in 1 .. Len(log)
      /\ s.pos \in Nat /\ Len(channel) \in Nat /\ announced \in Nat
  BY <1>1, NextOfChannel
<1>3. E \subseteq Nat /\ ~(i \in E /\ i > s.through)
  BY EventsAreNumbers DEF LogShape, EventsOfThread
<1> HIDE DEF i
<1>4. /\ r \in Subscription(t) /\ r.phase = s.phase /\ r.pos = s.pos + 1
      /\ r.snapshot = s.snapshot /\ r.latest = s.latest /\ r.readTo = s.readTo
      /\ r.page = s.page /\ r.pending = s.pending /\ r.output = s.output /\ r.retained = s.retained
      /\ r.start = s.start /\ r.sent = s.sent /\ r.through = s.through
  <2> DEFINE next == s.pos + 1
  <2>1. next \in Nat /\ r = [s EXCEPT !.pos = next]
    <3>1. s \in Subscription(t)
      BY <1>1
    <3>2. r = [s EXCEPT !.pos = next]
      BY <3>1 DEF Subscription
    <3> QED BY <1>2, <3>2
  <2> HIDE DEF next, r
  <2>2. /\ r \in Subscription(t) /\ r.phase = s.phase /\ r.pos = next
        /\ r.snapshot = s.snapshot /\ r.latest = s.latest /\ r.readTo = s.readTo
        /\ r.page = s.page /\ r.pending = s.pending /\ r.output = s.output /\ r.retained = s.retained
        /\ r.start = s.start /\ r.sent = s.sent /\ r.through = s.through
    BY <1>1, <2>1 DEF Subscription
  <2> QED BY <2>2 DEF next
<1> HIDE DEF r
<1>5. Drained(r) = i
  BY <1>2, <1>4 DEF Drained
<1>6. s.start \in Nat /\ s.latest \in Nat /\ s.through \in Nat /\ s.retained \in Seq(E)
  BY <1>1 DEF Subscription
<1>7. \A e \in ToSet(s.retained) : s.start < e /\ e <= i
  <2>1. \A e \in ToSet(s.retained) : s.start < e /\ e <= Drained(s) /\ e \in Nat
    BY <1>1, <1>3, <1>6, SetOfMember DEF Shapes, BufferShape
  <2> QED BY <1>2, <2>1
<1>8. s.phase \in {"latest", "paging"} => \A e \in E : s.latest < e /\ e <= i => e \in ToSet(s.retained)
  <2> SUFFICES ASSUME s.phase \in {"latest", "paging"}, NEW e \in E, s.latest < e, e <= i
               PROVE  e \in ToSet(s.retained)
    OBVIOUS
  <2>1. s.through <= s.latest
    <3>1. (s.through = s.start /\ s.start <= s.latest) \/ s.through = s.latest
      BY <1>1 DEF Shapes, BufferShape
    <3> QED BY <1>6, <3>1
  <2>2. e # i
    BY <1>3, <1>6, <2>1
  <2>3. e <= Drained(s)
    BY <1>2, <1>3, <2>2
  <2> QED BY <1>1, <2>3 DEF Shapes, BufferShape
<1>9. BufferShape(r, t)
  BY <1>1, <1>4, <1>5, <1>7, <1>8 DEF Shapes, BufferShape
<1>10. Retained(r, t) /\ SnapshotShape(r, h) /\ ReplayShape(r, h, t)
  BY <1>1, <1>4 DEF Shapes, Retained, SnapshotShape, ReplayShape, Draining, Reading
<1>11. Ahead(r, t) = Ahead(s, t)
  <2>1. \A e \in E : e > s.through => (e > Drained(s) <=> e > Drained(r))
    BY <1>2, <1>3, <1>5
  <2> QED BY <1>4, <2>1 DEF Ahead
<1>12. Flow(r, h, t, Ahead(r, t))
  BY <1>1, <1>4, <1>11, SameFlow
<1>13. SubInv(r, h, t)
  <2>1. r.pos <= Len(channel) /\ r.phase # "failed"
    BY <1>2, <1>4 DEF Draining
  <2> QED BY <1>1, <1>4, <1>9, <1>10, <1>12, <2>1 DEF SubInv, Shapes
<1> QED BY <1>13 DEF r

LEMMA DrainTakesKeeps ==
    ASSUME LogShape, NEW t, NEW s, NEW h, SubInv(s, h, t), s.phase \in Draining,
           s.pos < Len(channel), log[channel[s.pos + 1]].thread = t,
           channel[s.pos + 1] > s.through
    PROVE  SubInv([[s EXCEPT !.pos = @ + 1] EXCEPT !.retained = Append(@, channel[s.pos + 1])], h, t)
<1> DEFINE E == EventsOfThread(t)
           i == channel[s.pos + 1]
           more == Append(s.retained, i)
           r == [[s EXCEPT !.pos = @ + 1] EXCEPT !.retained = Append(@, i)]
<1>1. /\ s \in Subscription(t) /\ h \in Holding(t) /\ Shapes(s, h, t) /\ ~s.snapshot
      /\ Flow(s, h, t, Ahead(s, t))
      /\ Rising(s.retained) /\ \A e \in ToSet(s.retained) : s.start < e /\ e <= Drained(s)
      /\ s.start <= s.through
  BY DEF SubInv, Shapes, SnapshotShape, BufferShape, Draining, Flows
<1>2. /\ i = Drained(s) + 1 /\ Drained(s) \in Nat /\ i \in 1 .. Len(log)
      /\ s.pos \in Nat /\ Len(channel) \in Nat /\ announced \in Nat
  BY <1>1, NextOfChannel
<1>3. E \in SUBSET Nat /\ i \in E /\ i > s.through
  BY <1>2, EventsAreNumbers DEF LogShape, EventsOfThread
<1> HIDE DEF i
<1>4. s.start \in Nat /\ s.latest \in Nat /\ s.through \in Nat /\ s.retained \in Seq(E)
  BY <1>1 DEF Subscription
<1>5. \A e \in ToSet(s.retained) : e \in Nat /\ e < i
  <2>1. \A e \in ToSet(s.retained) : e \in Nat /\ e <= Drained(s)
    BY <1>1, <1>3, <1>4, SetOfMember
  <2> QED BY <1>2, <2>1
<1>6. more \in Seq(E) /\ Rising(more) /\ ToSet(more) = ToSet(s.retained) \cup {i}
  <2> HIDE DEF E
  <2> QED BY <1>1, <1>3, <1>4, <1>5, AppendRises
<1> DEFINE next == s.pos + 1
<1>7. r = [s EXCEPT !.pos = next, !.retained = more] /\ next \in Nat
  <2>1. s \in Subscription(t)
    BY <1>1
  <2>2. [s EXCEPT !.pos = @ + 1].retained = s.retained
    BY <2>1 DEF Subscription
  <2>3. r = [s EXCEPT !.pos = next, !.retained = more]
    BY <2>1, <2>2 DEF Subscription
  <2> QED BY <1>2, <2>3
<1> HIDE DEF more, next
<1>8. /\ r \in Subscription(t) /\ r.phase = s.phase /\ r.pos = s.pos + 1
      /\ r.snapshot = s.snapshot /\ r.latest = s.latest /\ r.readTo = s.readTo
      /\ r.page = s.page /\ r.pending = s.pending /\ r.output = s.output /\ r.retained = more
      /\ r.start = s.start /\ r.sent = s.sent /\ r.through = s.through
  <2> HIDE DEF r
  <2>1. /\ r \in Subscription(t) /\ r.phase = s.phase /\ r.pos = next
        /\ r.snapshot = s.snapshot /\ r.latest = s.latest /\ r.readTo = s.readTo
        /\ r.page = s.page /\ r.pending = s.pending /\ r.output = s.output /\ r.retained = more
        /\ r.start = s.start /\ r.sent = s.sent /\ r.through = s.through
    BY <1>1, <1>6, <1>7 DEF Subscription
  <2> QED BY <2>1 DEF next
<1> HIDE DEF r
<1>9. Drained(r) = i
  BY <1>2, <1>8 DEF Drained
<1>10. \A e \in ToSet(more) : s.start < e /\ e <= i
  BY <1>1, <1>3, <1>4, <1>5, <1>6
<1>11. s.phase \in {"latest", "paging"} => \A e \in E : s.latest < e /\ e <= i => e \in ToSet(more)
  <2> SUFFICES ASSUME s.phase \in {"latest", "paging"}, NEW e \in E, s.latest < e, e <= i
               PROVE  e \in ToSet(more)
    OBVIOUS
  <2>1. CASE e = i
    BY <1>6, <2>1
  <2>2. CASE e # i
    <3>1. e <= Drained(s)
      BY <1>2, <1>3, <2>2
    <3> QED BY <1>1, <1>6, <3>1 DEF Shapes, BufferShape
  <2> QED BY <2>1, <2>2
<1>12. BufferShape(r, t)
  BY <1>1, <1>6, <1>8, <1>9, <1>10, <1>11 DEF Shapes, BufferShape, Draining, Reading
<1>13. Retained(r, t) /\ SnapshotShape(r, h) /\ ReplayShape(r, h, t)
  BY <1>1, <1>8 DEF Shapes, Retained, SnapshotShape, ReplayShape, Draining, Reading
<1>14. Ahead(r, t) = Ahead(s, t)
  <2>1. \A e \in E : e > s.through =>
           (e \in ToSet(s.retained) \/ e > Drained(s) <=> e \in ToSet(more) \/ e > Drained(r))
    BY <1>2, <1>3, <1>5, <1>6, <1>9
  <2> QED BY <1>8, <2>1 DEF Ahead
<1>15. Flow(r, h, t, Ahead(r, t))
  BY <1>1, <1>8, <1>14, SameFlow
<1>16. SubInv(r, h, t)
  <2>1. r.pos <= Len(channel) /\ r.phase # "failed"
    BY <1>2, <1>8 DEF Draining
  <2> QED BY <1>1, <1>8, <1>12, <1>13, <1>15, <2>1 DEF SubInv, Shapes
<1> QED BY <1>16 DEF r, i

LEMMA FlushWindowKeeps ==
    ASSUME LogShape, NEW t, NEW s, NEW h, SubInv(s, h, t), s.phase \in Draining,
           s.pending # << >>
    PROVE  SubInv([s EXCEPT !.pending = << >>, !.output = @ \o Coalesce(s.pending)], h, t)
<1> DEFINE E == EventsOfThread(t)
           out == s.output \o Coalesce(s.pending)
           r == [s EXCEPT !.pending = << >>, !.output = out]
<1>1. /\ s \in Subscription(t) /\ h \in Holding(t) /\ Shapes(s, h, t) /\ ~s.snapshot
      /\ Flow(s, h, t, Ahead(s, t)) /\ s.phase \in {"paging", "live"}
  BY DEF SubInv, Shapes, SnapshotShape, BufferShape, Draining, Flows
<1>2. Ahead(s, t) \in SUBSET E
  BY DEF Ahead
<1>3. r.sent = s.sent /\ r.pending = << >> /\ r.output = s.output \o Coalesce(s.pending)
  BY <1>1 DEF Subscription
<1>4. r.output \in Seq(E) /\ Flow(r, h, t, Ahead(s, t))
  <2> HIDE DEF r
  <2> QED BY <1>1, <1>2, <1>3, FlushKeepsFlow DEF LogShape
<1>5. Buffered(r, s, t)
  <2>1. out \in Seq(E) /\ << >> \in Seq(E)
    BY <1>3, <1>4
  <2> HIDE DEF out
  <2> QED BY <1>1, <2>1 DEF Buffered, Subscription
<1> HIDE DEF r
<1>6. SubInv(r, h, t)
  BY <1>1, <1>4, <1>5, BufferedKeeps
<1> QED BY <1>6 DEF r

LEMMA SendOutputKeeps ==
    ASSUME LogShape, NEW t, NEW s, NEW h, SubInv(s, h, t), s.phase \in Draining,
           s.sent = << >>, s.output # << >>
    PROVE  SubInv([s EXCEPT !.sent = s.output, !.output = << >>], h, t)
<1> DEFINE E == EventsOfThread(t)
           A == Ahead(s, t)
           r == [s EXCEPT !.sent = s.output, !.output = << >>]
<1>1. /\ s \in Subscription(t) /\ h \in Holding(t) /\ Shapes(s, h, t) /\ ~s.snapshot
      /\ Flow(s, h, t, A) /\ s.phase \in {"paging", "live"}
  BY DEF SubInv, Shapes, SnapshotShape, BufferShape, Draining, Flows
<1>2. /\ r \in Subscription(t) /\ r.phase = s.phase /\ r.pos = s.pos
      /\ r.snapshot = s.snapshot /\ r.latest = s.latest /\ r.readTo = s.readTo
      /\ r.page = s.page /\ r.pending = s.pending /\ r.output = << >> /\ r.retained = s.retained
      /\ r.start = s.start /\ r.sent = s.output /\ r.through = s.through
  BY <1>1 DEF Subscription
<1> HIDE DEF r
<1>3. InFlight(r) = InFlight(s) /\ ToSet(r.output) = {} /\ Rising(r.output)
  BY <1>2, NothingRises DEF InFlight
<1>4. Flow(r, h, t, A)
  <2> HIDE DEF A
  <2>1. FlowOrder(r, h, t, A)
    BY <1>1, <1>2, <1>3 DEF Flow, FlowOrder, Before
  <2> QED BY <1>1, <1>3, <2>1 DEF Flow, FlowComplete
<1>5. Drained(r) = Drained(s)
  BY <1>2 DEF Drained
<1>6. Ahead(r, t) = A
  BY <1>2, <1>5 DEF Ahead
<1>7. BufferShape(r, t)
  BY <1>1, <1>2, <1>5 DEF Shapes, BufferShape, Draining, Reading
<1>8. Retained(r, t) /\ SnapshotShape(r, h) /\ ReplayShape(r, h, t)
  BY <1>1, <1>2 DEF Shapes, Retained, SnapshotShape, ReplayShape, Draining, Reading
<1>9. SubInv(r, h, t)
  BY <1>1, <1>2, <1>4, <1>6, <1>7, <1>8 DEF SubInv, Shapes, Draining
<1> QED BY <1>9 DEF r

-----------------------------------------------------------------------------
(* Steps of the client. *)

\* r: the server's side after the client took an item.
Taken(r, s, t) ==
    /\ r \in Subscription(t) /\ r.phase = s.phase /\ r.pos = s.pos
    /\ r.snapshot = FALSE /\ r.latest = s.latest /\ r.readTo = s.readTo
    /\ r.page = s.page /\ r.pending = s.pending /\ r.output = s.output
    /\ r.retained = s.retained /\ r.start = s.start /\ r.sent = Tail(s.sent)
    /\ r.through = s.through
    /\ s.sent \in Seq(EventsOfThread(t)) /\ EventsOfThread(t) \in SUBSET Nat
    /\ Head(s.sent) \in EventsOfThread(t)
    /\ ToSet(s.sent) = {Head(s.sent)} \cup ToSet(Tail(s.sent))
    /\ Rising(s.sent) => Rising(Tail(s.sent)) /\ \A x \in ToSet(Tail(s.sent)) : Head(s.sent) < x

LEMMA TakenFields ==
    ASSUME IsLog, NEW t, NEW s \in Subscription(t), s.sent # << >>,
           NEW r, r = [s EXCEPT !.sent = Tail(@), !.snapshot = FALSE]
    PROVE  Taken(r, s, t)
<1>1. s.sent \in Seq(EventsOfThread(t)) /\ EventsOfThread(t) \in SUBSET Nat
  BY EventsAreNumbers DEF Subscription
<1>2. /\ Head(s.sent) \in EventsOfThread(t) /\ Tail(s.sent) \in Seq(EventsOfThread(t))
      /\ ToSet(s.sent) = {Head(s.sent)} \cup ToSet(Tail(s.sent))
      /\ Rising(s.sent) => Rising(Tail(s.sent)) /\ \A x \in ToSet(Tail(s.sent)) : Head(s.sent) < x
  BY <1>1, TailRises
<1> DEFINE rest == Tail(s.sent)
<1>3. r = [s EXCEPT !.sent = rest, !.snapshot = FALSE] /\ rest \in Seq(EventsOfThread(t))
  BY <1>2
<1> HIDE DEF rest
<1>4. /\ r \in Subscription(t) /\ r.phase = s.phase /\ r.pos = s.pos
      /\ r.snapshot = FALSE /\ r.latest = s.latest /\ r.readTo = s.readTo
      /\ r.page = s.page /\ r.pending = s.pending /\ r.output = s.output
      /\ r.retained = s.retained /\ r.start = s.start /\ r.sent = rest
      /\ r.through = s.through
  BY <1>3 DEF Subscription
<1> QED BY <1>1, <1>2, <1>4 DEF rest, Taken

LEMMA SnapshotTaken ==
    ASSUME LogShape, PruneShape, NEW t, NEW s, NEW h, SubInv(s, h, t), s.snapshot,
           NEW r, r = [s EXCEPT !.sent = Tail(@), !.snapshot = FALSE],
           NEW g, g = [hasData |-> TRUE, cursor |-> Head(s.sent),
                       known |-> {j \in EventsOfThread(t) : j <= Head(s.sent)}]
    PROVE  SubInv(r, g, t)
<1> DEFINE E == EventsOfThread(t)
           A == {i \in E : i > s.start}
<1>1. /\ s \in Subscription(t) /\ h \in Holding(t) /\ Shapes(s, h, t)
      /\ s.phase = "initial" /\ s.sent = << s.start >>
      /\ s.page = << >> /\ s.pending = << >> /\ s.output = << >> /\ s.retained = << >>
      /\ s.start <= Len(log) /\ s.pos <= Len(channel)
  BY DEF SubInv, Shapes, SnapshotShape, BufferShape, Starting
<1>2. Head(s.sent) = s.start /\ Tail(s.sent) = << >> /\ s.sent # << >>
  BY <1>1
<1>3. /\ r \in Subscription(t) /\ r.phase = s.phase /\ r.pos = s.pos
      /\ r.snapshot = FALSE /\ r.latest = s.latest /\ r.readTo = s.readTo
      /\ r.page = s.page /\ r.pending = s.pending /\ r.output = s.output
      /\ r.retained = s.retained /\ r.start = s.start /\ r.sent = << >>
      /\ s.start \in E /\ E \in SUBSET Nat
  <2>1. IsLog
    BY DEF LogShape
  <2>2. Taken(r, s, t)
    BY <1>1, <1>2, <2>1, TakenFields
  <2> QED BY <1>1, <1>2, <2>2 DEF Taken
<1>4. g.hasData /\ g.cursor = s.start /\ g.known = {j \in E : j <= s.start} /\ g \in Holding(t)
  BY <1>2, <1>3 DEF Holding
<1>5. ClientShape(g, t)
  BY <1>4 DEF ClientShape, Accounted
<1>6. BufferShape(r, t) /\ Retained(r, t)
  BY <1>1, <1>3 DEF Shapes, BufferShape, Retained, Draining, Reading
<1>7. SnapshotShape(r, g) /\ ReplayShape(r, g, t)
  BY <1>1, <1>3 DEF SnapshotShape, ReplayShape, Reading
<1>8. Ahead(r, t) = A
  <2>1. r.phase \in Starting
    BY <1>1, <1>3 DEF Starting
  <2>2. Ahead(r, t) = {i \in E : i > r.start}
    BY <2>1, AheadOfStart
  <2>3. r.start = s.start
    BY <1>3
  <2> QED BY <2>2, <2>3
<1>9. InFlight(r) = {} /\ ToSet(r.sent) = {} /\ ToSet(r.output) = {} /\ ToSet(r.pending) = {}
      /\ Rising(r.sent) /\ Rising(r.output) /\ Rising(r.pending)
  BY <1>1, <1>3, NothingRises DEF InFlight
<1>10. FlowOrder(r, g, t, A)
  <2>1. \A i \in A, j \in E : i < j => j \in A
    BY <1>3
  <2> QED BY <1>4, <1>9, <2>1 DEF FlowOrder, Before
<1>11. FlowComplete(r, g, t, A)
  <2>1. \A i \in E \ A : i \in g.known
    BY <1>3, <1>4
  <2> QED BY <2>1 DEF FlowComplete, Accounted
<1>12. Flow(r, g, t, Ahead(r, t))
  <2> HIDE DEF A
  <2> QED BY <1>4, <1>8, <1>10, <1>11 DEF Flow
<1> QED BY <1>1, <1>3, <1>4, <1>5, <1>6, <1>7, <1>12 DEF SubInv, Shapes

LEMMA EventTaken ==
    ASSUME LogShape, PruneShape, NEW t, NEW s, NEW h, SubInv(s, h, t), ~s.snapshot,
           s.phase \in Draining \cup {"initial"}, s.sent # << >>,
           NEW r, r = [s EXCEPT !.sent = Tail(@), !.snapshot = FALSE],
           NEW g, g = [h EXCEPT !.cursor = Head(s.sent), !.known = @ \cup {Head(s.sent)}]
    PROVE  SubInv(r, g, t) /\ h.hasData /\ h.cursor < Head(s.sent)
<1> DEFINE E == EventsOfThread(t)
           A == Ahead(s, t)
           i == Head(s.sent)
<1>1. /\ s \in Subscription(t) /\ h \in Holding(t) /\ Shapes(s, h, t)
      /\ Flow(s, h, t, A) /\ s.pos <= Len(channel) /\ h.hasData
  BY DEF SubInv, Shapes, Flows, Flow
<1>2. /\ r \in Subscription(t) /\ r.phase = s.phase /\ r.pos = s.pos
      /\ r.snapshot = FALSE /\ r.latest = s.latest /\ r.readTo = s.readTo
      /\ r.page = s.page /\ r.pending = s.pending /\ r.output = s.output
      /\ r.retained = s.retained /\ r.start = s.start /\ r.sent = Tail(s.sent)
      /\ r.through = s.through /\ E \in SUBSET Nat /\ i \in E
      /\ ToSet(s.sent) = {i} \cup ToSet(r.sent)
      /\ Rising(s.sent) => Rising(r.sent) /\ \A x \in ToSet(r.sent) : i < x
  <2>1. IsLog
    BY DEF LogShape
  <2>2. Taken(r, s, t)
    BY <1>1, <2>1, TakenFields
  <2> QED BY <1>1, <2>2 DEF Taken
<1>3. g.hasData /\ g.cursor = i /\ g.known = h.known \cup {i} /\ g \in Holding(t)
  BY <1>1, <1>2 DEF Holding
<1> HIDE DEF i
<1>4. /\ h.cursor \in Nat /\ h.known \subseteq E /\ A \subseteq E
      /\ InFlight(s) \subseteq E
  BY <1>1, <1>2, BuffersAreEvents DEF Holding, Ahead, LogShape
<1> HIDE DEF A
<1>5. i > h.cursor /\ i \in InFlight(s) /\ i \in ToSet(s.sent)
  BY <1>1, <1>2 DEF Flow, FlowOrder, InFlight
<1>6. InFlight(s) = InFlight(r) \cup {i}
  BY <1>2 DEF InFlight
<1>7. \A x \in InFlight(r) \cup A : i < x /\ x \in E
  <2>1. \A x \in ToSet(r.sent) : i < x
    BY <1>1, <1>2 DEF Flow, FlowOrder
  <2>2. \A x \in ToSet(s.output) \cup ToSet(s.pending) \cup A : i < x
    BY <1>1, <1>5 DEF Flow, FlowOrder, Before
  <2> QED BY <1>2, <1>4, <1>6, <2>1, <2>2 DEF InFlight
<1>8. ASSUME NEW e \in E, e <= i PROVE Accounted(e, g.known \cup Beyond(t, g.cursor))
  <2>1. e \notin A
    <3>1. e \in A => i < e
      BY <1>7
    <3> QED BY <1>2, <1>8, <3>1
  <2>2. Accounted(e, h.known \cup InFlight(s) \cup A)
    BY <1>1, <2>1 DEF Flow, FlowComplete
  <2>3. \A x \in InFlight(r) \cup A : x \in Beyond(t, i)
    BY <1>2, <1>7 DEF Beyond
  <2>4. h.known \cup InFlight(s) \cup A \subseteq g.known \cup Beyond(t, g.cursor)
    BY <1>3, <1>6, <2>3
  <2> QED BY <2>2, <2>4, AccountedMore
<1>9. ClientShape(g, t)
  <2>1. \A e \in g.known : e <= g.cursor
    <3>1. \A e \in h.known : e <= h.cursor
      BY <1>1 DEF Shapes, ClientShape
    <3> QED BY <1>2, <1>3, <1>4, <1>5, <3>1
  <2> QED BY <1>3, <1>8, <2>1 DEF ClientShape
<1>10. Drained(r) = Drained(s)
  BY <1>2 DEF Drained
<1>11. BufferShape(r, t) /\ Retained(r, t)
  <2>1. BufferShape(r, t)
    BY <1>1, <1>2, <1>10 DEF Shapes, BufferShape
  <2>2. Retained(r, t)
    BY <1>1, <1>2 DEF Shapes, Retained
  <2> QED BY <2>1, <2>2
<1>12. SnapshotShape(r, g) /\ ReplayShape(r, g, t) /\ r.phase # "failed"
  BY <1>2 DEF SnapshotShape, ReplayShape, Reading, Draining
<1>13. Ahead(r, t) = A
  BY <1>2, <1>10 DEF Ahead, A
<1>14. FlowOrder(r, g, t, A)
  BY <1>1, <1>2, <1>3, <1>6, <1>7 DEF Flow, FlowOrder, Before
<1>15. FlowComplete(r, g, t, A)
  <2>1. h.known \cup InFlight(s) \cup A = g.known \cup InFlight(r) \cup A
    BY <1>3, <1>6
  <2> QED BY <1>1, <2>1 DEF Flow, FlowComplete
<1>16. Flow(r, g, t, Ahead(r, t))
  BY <1>3, <1>13, <1>14, <1>15 DEF Flow
<1>17. SubInv(r, g, t)
  BY <1>1, <1>2, <1>3, <1>9, <1>11, <1>12, <1>16 DEF SubInv, Shapes
<1> QED BY <1>1, <1>4, <1>5, <1>17, <1>2 DEF i

LEMMA RemnantTaken ==
    ASSUME LogShape, PruneShape, NEW t, NEW s, NEW h, SubInv(s, h, t),
           s.phase = "failed", s.sent # << >>,
           NEW r, r = [s EXCEPT !.sent = Tail(@), !.snapshot = FALSE],
           NEW g, g = [h EXCEPT !.cursor = Head(s.sent), !.known = @ \cup {Head(s.sent)}]
    PROVE  SubInv(r, g, t) /\ h.hasData /\ h.cursor < Head(s.sent)
<1> DEFINE E == EventsOfThread(t)
           i == Head(s.sent)
<1>1. /\ s \in Subscription(t) /\ h \in Holding(t) /\ Shapes(s, h, t)
      /\ Remnant(s, h, t) /\ s.pos <= Len(channel) /\ h.hasData
  BY DEF SubInv, Shapes, Remnant
<1>2. /\ r \in Subscription(t) /\ r.phase = s.phase /\ r.pos = s.pos
      /\ r.snapshot = FALSE
      /\ r.sent = Tail(s.sent) /\ s.sent \in Seq(E)
      /\ E \in SUBSET Nat /\ i \in E
      /\ ToSet(s.sent) = {i} \cup ToSet(r.sent)
      /\ Rising(s.sent) => Rising(r.sent) /\ \A x \in ToSet(r.sent) : i < x
  <2>1. IsLog
    BY DEF LogShape
  <2>2. Taken(r, s, t)
    BY <1>1, <2>1, TakenFields
  <2> QED BY <1>1, <2>2 DEF Taken
<1>3. g.hasData /\ g.cursor = i /\ g.known = h.known \cup {i} /\ g \in Holding(t)
  BY <1>1, <1>2 DEF Holding
<1> HIDE DEF i
<1>4. /\ h.cursor \in Nat /\ h.known \subseteq E /\ ToSet(s.sent) \subseteq E
  BY <1>1, <1>2, SetOfMember DEF Holding
<1>5. i > h.cursor /\ i \in ToSet(s.sent) /\ Rising(r.sent) /\ \A x \in ToSet(r.sent) : i < x
  BY <1>1, <1>2 DEF Remnant
<1>6. ASSUME NEW e \in E, e <= i PROVE Accounted(e, g.known \cup Beyond(t, g.cursor))
  <2>1. Accounted(e, h.known \cup ToSet(s.sent) \cup Beyond(t, i))
    BY <1>1, <1>5, <1>6 DEF Remnant
  <2>2. \A x \in ToSet(r.sent) : x \in Beyond(t, i)
    BY <1>2, <1>4, <1>5 DEF Beyond
  <2>3. h.known \cup ToSet(s.sent) \cup Beyond(t, i) \subseteq g.known \cup Beyond(t, g.cursor)
    BY <1>2, <1>3, <2>2
  <2> QED BY <2>1, <2>3, AccountedMore
<1>7. ClientShape(g, t)
  <2>1. \A e \in g.known : e <= g.cursor
    <3>1. \A e \in h.known : e <= h.cursor
      BY <1>1 DEF Shapes, ClientShape
    <3> QED BY <1>2, <1>3, <1>4, <1>5, <3>1
  <2> QED BY <1>3, <1>6, <2>1 DEF ClientShape
<1>8. Remnant(r, g, t)
  <2>1. ASSUME NEW j \in ToSet(r.sent), NEW e \in E, e <= j
        PROVE  Accounted(e, g.known \cup ToSet(r.sent) \cup Beyond(t, j))
    <3>1. Accounted(e, h.known \cup ToSet(s.sent) \cup Beyond(t, j))
      BY <1>1, <1>2, <2>1 DEF Remnant
    <3>2. h.known \cup ToSet(s.sent) \cup Beyond(t, j) = g.known \cup ToSet(r.sent) \cup Beyond(t, j)
      BY <1>2, <1>3
    <3> QED BY <3>1, <3>2
  <2>2. \A j \in ToSet(r.sent) : j > g.cursor
    BY <1>2, <1>3, <1>4, <1>5
  <2> QED BY <1>3, <1>5, <2>1, <2>2 DEF Remnant
<1>9. BufferShape(r, t) /\ Retained(r, t)
  BY <1>2 DEF BufferShape, Retained, Draining, Reading, Starting
<1>10. SnapshotShape(r, g) /\ ReplayShape(r, g, t) /\ ~Flows(r)
  BY <1>2 DEF SnapshotShape, ReplayShape, Reading, Flows, Draining
<1>11. SubInv(r, g, t)
  BY <1>1, <1>2, <1>3, <1>7, <1>8, <1>9, <1>10 DEF SubInv, Shapes
<1> QED BY <1>1, <1>2, <1>4, <1>5, <1>11 DEF i

-----------------------------------------------------------------------------
(* Steps of the rest of the system. *)

LEMMA SameLog ==
    ASSUME NEW t, UNCHANGED log
    PROVE  /\ EventsOfThread(t)' = EventsOfThread(t)
           /\ \A n, i : Replaces(n, i)' <=> Replaces(n, i)
           /\ IsLog' <=> IsLog
BY DEF EventsOfThread, Replaces, IsLog

\* A step of another part of the system leaves a subscription as good as it was.
LEMMA OthersKeep ==
    ASSUME NEW t, NEW s, NEW h, SubInv(s, h, t), UNCHANGED log, gone \subseteq gone',
           s.phase \in Draining => Drained(s)' = Drained(s),
           s.pos <= Len(channel'), Retained(s, t)'
    PROVE  SubInv(s, h, t)'
<1> DEFINE E == EventsOfThread(t)
<1>1. EventsOfThread(t)' = E /\ \A n, i : Replaces(n, i)' <=> Replaces(n, i)
  BY SameLog
<1>2. s \in Subscription(t)' /\ h \in Holding(t)'
  BY <1>1 DEF SubInv, Shapes, Subscription, Holding
<1>3. ClientShape(h, t)'
  BY <1>1 DEF SubInv, Shapes, ClientShape, Accounted, Beyond
<1>4. BufferShape(s, t)'
  BY <1>1 DEF SubInv, Shapes, BufferShape, Draining
<1>5. SnapshotShape(s, h)' /\ ReplayShape(s, h, t)'
  BY <1>1 DEF SubInv, Shapes, SnapshotShape, ReplayShape
<1>6. s.phase = "live" => Drained(s)' = Drained(s)
  BY DEF Draining
<1>7. Ahead(s, t)' = Ahead(s, t)
  BY <1>1, <1>6 DEF Ahead
<1>8. Flow(s, h, t, Ahead(s, t)) => Flow(s, h, t, Ahead(s, t))'
  BY <1>1, <1>7 DEF Flow, FlowOrder, FlowComplete, Accounted
<1>9. Remnant(s, h, t) => Remnant(s, h, t)'
  BY <1>1 DEF Remnant, Accounted, Beyond
<1> QED BY <1>2, <1>3, <1>4, <1>5, <1>8, <1>9 DEF SubInv, Shapes

\* New events come after all there is, and are ahead of every subscription.
LEMMA WriteKeeps ==
    ASSUME StreamAssumption, LogShape, PruneShape, NEW t, NEW s, NEW h, SubInv(s, h, t),
           NEW batch \in Batch, log' = log \o batch,
           UNCHANGED <<announced, channel, prune, gone>>
    PROVE  SubInv(s, h, t)'
<1> DEFINE E == EventsOfThread(t)
           F == EventsOfThread(t)'
           n == Len(log)
           A == Ahead(s, t)
<1>1. /\ batch \in Seq(Entry) /\ log \in Seq(Entry) /\ n \in Nat /\ Len(log') \in Nat
      /\ n <= Len(log') /\ log' \in Seq(Entry)
      /\ \A x \in 1 .. n : log'[x] = log[x] /\ x \in 1 .. Len(log')
  BY DEF StreamAssumption, LogShape, IsLog
<1>2. /\ E \subseteq 1 .. n /\ E \subseteq F /\ F \subseteq 1 .. Len(log')
      /\ \A i \in F : i <= n => i \in E
  BY <1>1 DEF EventsOfThread
<1>3. \A i \in E, k \in E : Replaces(k, i) => Replaces(k, i)'
  BY <1>1, <1>2, ReplacesStill
<1>4. E \subseteq Nat /\ F \subseteq Nat
  BY <1>2
<1>5. /\ s \in Subscription(t) /\ h \in Holding(t) /\ Shapes(s, h, t)
      /\ s.start \in Nat /\ s.latest \in Nat /\ s.through \in Nat /\ s.readTo \in Nat
      /\ h.cursor \in Nat /\ h.cursor <= n /\ h.known \subseteq E
  <2>1. s \in Subscription(t) /\ h \in Holding(t) /\ Shapes(s, h, t)
    BY DEF SubInv, Shapes
  <2>2. h.cursor \in E \cup {0} /\ h.known \subseteq E
    BY <2>1 DEF Holding
  <2>3. h.cursor \in Nat /\ h.cursor <= n
    <3> HIDE DEF E, F, n
    <3>1. h.cursor \in 1 .. n \/ h.cursor = 0
      BY <1>2, <2>2
    <3>2. n \in Nat
      BY <1>1
    <3> QED BY <3>1, <3>2
  <2>4. s.start \in Nat /\ s.latest \in Nat /\ s.through \in Nat /\ s.readTo \in Nat
    BY <2>1 DEF Subscription
  <2> QED BY <2>1, <2>2, <2>3, <2>4
<1>6. /\ InFlight(s) \subseteq E /\ ToSet(s.sent) \subseteq E /\ ToSet(s.output) \subseteq E
      /\ ToSet(s.pending) \subseteq E
  BY <1>5, BuffersAreEvents DEF LogShape
<1>7. Drained(s)' = Drained(s) /\ Drained(s) \in Int /\ Drained(s) <= n
  <2>1. /\ s.pos \in Nat /\ s.pos <= Len(channel) /\ Len(channel) \in Nat
        /\ announced \in Nat /\ announced <= n
    BY <1>1, <1>5 DEF LogShape, Shapes, Subscription
  <2>2. Drained(s) = announced - Len(channel) + s.pos /\ Drained(s)' = Drained(s)
    BY DEF Drained
  <2>3. n \in Nat
    BY <1>1
  <2> HIDE DEF n
  <2> QED BY <2>1, <2>2, <2>3
<1>8. s \in Subscription(t)' /\ h \in Holding(t)'
  <2>1. Seq(E) \subseteq Seq(F)
    BY <1>2, SeqMonotonic
  <2> HIDE DEF E, F
  <2>2. s \in Subscription(t)'
    BY <1>5, <2>1 DEF Subscription, E, F
  <2>3. h \in Holding(t)'
    BY <1>2, <1>5 DEF Holding, E, F
  <2> QED BY <2>2, <2>3
<1> HIDE DEF n
<1>9. ClientShape(h, t)'
  <2>1. ClientShape(h, t) /\ \A i \in F : i <= h.cursor => i \in E
    BY <1>1, <1>2, <1>4, <1>5 DEF Shapes
  <2>2. \A k \in Beyond(t, h.cursor) : k \in Beyond(t, h.cursor)' /\ k \in E
    BY <1>2 DEF Beyond
  <2> HIDE DEF E, F
  <2> QED BY <1>3, <1>5, <2>1, <2>2 DEF ClientShape, Accounted, E, F
<1>10. BufferShape(s, t)'
  <2>1. \A i \in F : i <= Drained(s) => i \in E
    BY <1>1, <1>2, <1>4, <1>7
  <2>2. \A x \in Nat : x <= Len(log) => x <= Len(log')
    BY <1>1 DEF n
  <2> HIDE DEF E, F
  <2> QED BY <1>5, <1>7, <2>1, <2>2 DEF Shapes, BufferShape, E, F
<1>11. Retained(s, t)'
  <2>1. \A i \in F : i <= prune.through \/ i <= prune.mark => i \in E
    <3>1. /\ prune.through \in Nat /\ prune.through <= n
          /\ prune.mark \in Nat /\ prune.mark <= n
      BY <1>1 DEF PruneShape, n
    <3>2. n \in Nat
      BY <1>1
    <3> HIDE DEF E, F, n
    <3> QED BY <1>2, <1>4, <3>1, <3>2
  <2> QED BY <1>5, <2>1 DEF Shapes, Retained
<1>12. SnapshotShape(s, h)' /\ ReplayShape(s, h, t)'
  <2>1. s.phase \in Reading => s.start <= n
    BY <1>5 DEF Shapes, BufferShape, n
  <2>2. s.phase = "read" => \A i \in F : i <= s.start => i \in E
    BY <1>1, <1>2, <1>4, <1>5, <2>1 DEF Reading
  <2> QED BY <1>2, <1>5, <2>2 DEF Shapes, SnapshotShape, ReplayShape
<1>13. ASSUME Flows(s) PROVE Flow(s, h, t, Ahead(s, t))'
  <2>1. Flow(s, h, t, A)
    BY <1>13 DEF SubInv
  <2>2. Ahead(s, t)' = A \cup (F \ E)
    <3>1. /\ s.phase \in Starting => s.start <= n
          /\ s.phase = "paging" => s.readTo <= n
          /\ s.phase = "live" => s.through <= n
      <4>1. s.phase = "paging" => s.readTo <= s.latest /\ s.latest <= n
        BY <1>5 DEF Shapes, BufferShape, n
      <4>2. /\ s.phase \in Starting => s.start <= n
            /\ s.phase = "live" => s.through <= n
        BY <1>5 DEF Shapes, BufferShape, Draining, n
      <4> QED BY <1>1, <1>5, <4>1, <4>2
    <3>2. s.phase \in Starting \/ s.phase = "paging" \/ s.phase = "live"
      BY <1>13 DEF Flows, Starting, Draining
    <3>3. \A i \in F \ E : i > n /\ i \in Nat
      BY <1>1, <1>2, <1>4
    <3>4. \A i \in F \ E : /\ s.phase \in Starting => i > s.start
                           /\ s.phase = "paging" => i > s.readTo
                           /\ s.phase = "live" => i > s.through /\ i > Drained(s)
      <4> SUFFICES ASSUME NEW i \in F \ E
                   PROVE  /\ s.phase \in Starting => i > s.start
                          /\ s.phase = "paging" => i > s.readTo
                          /\ s.phase = "live" => i > s.through /\ i > Drained(s)
        OBVIOUS
      <4>1. i > n /\ i \in Nat
        BY <3>3
      <4>2. \A x \in Int : x <= n => i > x
        <5> HIDE DEF n
        <5> QED BY <1>1, <4>1
      <4>3. /\ s.start \in Int /\ s.readTo \in Int /\ s.through \in Int
            /\ Drained(s) \in Int /\ Drained(s) <= n
        BY <1>5, <1>7
      <4> HIDE DEF n
      <4> QED BY <3>1, <4>2, <4>3
    <3> HIDE DEF n, E, F
    <3> QED BY <1>2, <1>7, <3>2, <3>4 DEF Ahead, A, E, F
  <2>3. A \subseteq E /\ \A i \in F \ E : i > n
    BY <1>1, <1>2, <1>4 DEF Ahead
  <2> DEFINE B == A \cup (F \ E)
  <2>4. Before(InFlight(s), B) /\ \A i \in InFlight(s) \cup B : i > h.cursor
    <3>1. \A x \in InFlight(s), y \in F \ E : x < y
      BY <1>1, <1>2, <1>4, <1>6, <2>3
    <3>2. \A y \in F \ E : y > h.cursor
      BY <1>1, <1>4, <1>5, <2>3
    <3> HIDE DEF A, E, F
    <3> QED BY <2>1, <3>1, <3>2 DEF Flow, FlowOrder, Before
  <2>5. \A i \in B, j \in F : i < j => j \in B
    <3>1. \A i \in A, j \in E : i < j => j \in A
      BY <2>1 DEF Flow, FlowOrder
    <3>2. \A i \in F \ E, j \in F : i < j => j \notin E
      BY <1>1, <1>2, <1>4, <2>3
    <3> HIDE DEF A, E, F
    <3> QED BY <3>1, <3>2
  <2>6. \A p \in ToSet(s.pending), j \in F : p < j /\ j \notin B => j \in ToSet(s.pending)
    <3>1. \A p \in ToSet(s.pending), j \in E : p < j /\ j \notin A => j \in ToSet(s.pending)
      BY <2>1 DEF Flow, FlowOrder
    <3> HIDE DEF A, E, F
    <3> QED BY <3>1
  <2>7. \A i \in F \ B : \/ i \in h.known \cup InFlight(s) \cup B
                         \/ \E k \in h.known \cup InFlight(s) \cup B : Replaces(k, i)'
    <3> SUFFICES ASSUME NEW i \in F \ B
                 PROVE  \/ i \in h.known \cup InFlight(s) \cup B
                        \/ \E k \in h.known \cup InFlight(s) \cup B : Replaces(k, i)'
      OBVIOUS
    <3>1. i \in E \ A
      BY <1>2
    <3>2. Accounted(i, h.known \cup InFlight(s) \cup A)
      BY <2>1, <3>1 DEF Flow, FlowComplete
    <3>3. h.known \cup InFlight(s) \cup A \subseteq E
      BY <1>5, <1>6, <2>3
    <3> HIDE DEF A, E, F
    <3> QED BY <1>3, <3>1, <3>2, <3>3 DEF Accounted
  <2>8. /\ h.hasData /\ Rising(s.sent) /\ Rising(s.output) /\ Rising(s.pending)
        /\ Before(ToSet(s.sent), ToSet(s.output)) /\ Before(ToSet(s.sent), ToSet(s.pending))
        /\ Before(ToSet(s.output), ToSet(s.pending))
    BY <2>1 DEF Flow, FlowOrder
  <2>9. Ahead(s, t)' = B
    BY <2>2
  <2> HIDE DEF A, B
  <2> QED BY <2>4, <2>5, <2>6, <2>7, <2>8, <2>9 DEF Flow, FlowOrder, FlowComplete, Accounted
<1>14. ASSUME s.phase = "failed" PROVE Remnant(s, h, t)'
  <2>1. Remnant(s, h, t)
    BY <1>14 DEF SubInv
  <2>2. ASSUME NEW j \in ToSet(s.sent), NEW i \in F, i <= j
        PROVE  \/ i \in h.known \cup ToSet(s.sent) \cup Beyond(t, j)'
               \/ \E k \in h.known \cup ToSet(s.sent) \cup Beyond(t, j)' : Replaces(k, i)'
    <3>1. i \in E
      BY <1>1, <1>2, <1>4, <1>6, <2>2
    <3>2. Accounted(i, h.known \cup ToSet(s.sent) \cup Beyond(t, j))
      BY <2>1, <2>2, <3>1 DEF Remnant
    <3>3. \A k \in Beyond(t, j) : k \in Beyond(t, j)' /\ k \in E
      BY <1>2 DEF Beyond
    <3>4. h.known \cup ToSet(s.sent) \cup Beyond(t, j) \subseteq E
      BY <1>5, <1>6, <3>3
    <3> HIDE DEF E, F
    <3> QED BY <1>3, <3>1, <3>2, <3>3, <3>4 DEF Accounted
  <2> QED BY <2>1, <2>2 DEF Remnant, Accounted
<1>15. s.pos <= Len(channel)'
  BY <1>5 DEF Shapes
<1> HIDE DEF A, E, F
<1> QED BY <1>8, <1>9, <1>10, <1>11, <1>12, <1>13, <1>14, <1>15 DEF SubInv, Shapes, Flows

-----------------------------------------------------------------------------
(* The whole system. *)

SubsInv == \A c \in Client : \A s, h :
    s = sub[c] /\ h = cli[c] => SubInv(s, h, Watches[c])

(* The inductive invariant. *)
StreamInv ==
    /\ LogShape /\ PruneShape
    /\ sub = [c \in Client |-> sub[c]] /\ cli = [c \in Client |-> cli[c]]
    /\ SubsInv

LEMMA InitKeeps ==
    ASSUME StreamAssumption, Init
    PROVE  StreamInv
<1>1. LogShape
  <2>1. log = << >> /\ announced = 0 /\ channel = << >>
    BY DEF Init, LogInit
  <2>2. Len(log) = 0 /\ Len(channel) = 0 /\ log \in Seq(Entry) /\ channel \in Seq(Nat)
    BY <2>1
  <2> QED BY <2>1, <2>2 DEF LogShape, IsLog
<1>2. PruneShape
  <2>1. Len(log) = 0
    BY DEF Init, LogInit
  <2> QED BY <2>1 DEF Init, PruneShape, StreamAssumption
<1>3. \A t : NoData \in Holding(t) /\ ClientShape(NoData, t)
  BY DEF NoData, Holding, ClientShape
<1>4. \A t : SubInv(Offline, NoData, t)
  BY <1>1, <1>3, OfflineKeeps
<1>5. sub = [c \in Client |-> Offline] /\ cli = [c \in Client |-> NoData]
  BY DEF Init
<1>6. SubsInv
  BY <1>4, <1>5 DEF SubsInv
<1> QED BY <1>1, <1>2, <1>5, <1>6 DEF StreamInv

LEMMA HoldsNow ==
    ASSUME StreamInv, NEW c \in Client
    PROVE  /\ SubInv(sub[c], cli[c], Watches[c]) /\ LogShape /\ PruneShape
           /\ ClientShape(cli[c], Watches[c]) /\ cli[c] \in Holding(Watches[c])
           /\ sub[c] \in Subscription(Watches[c])
BY DEF StreamInv, SubsInv, SubInv, Shapes

\* Steps of one subscription.
LEMMA OneClientKeeps ==
    ASSUME StreamInv, NEW c \in Client, NEW r, NEW g, SubInv(r, g, Watches[c]),
           UNCHANGED <<log, announced, channel, prune, gone>>, losses' \in 0 .. MaxLosses,
           sub' = [sub EXCEPT ![c] = r], cli' = [cli EXCEPT ![c] = g]
    PROVE  StreamInv'
<1>1. /\ sub = [d \in Client |-> sub[d]] /\ cli = [d \in Client |-> cli[d]]
      /\ LogShape /\ PruneShape /\ SubsInv
  BY DEF StreamInv
<1>2. LogShape'
  BY <1>1 DEF LogShape, IsLog
<1>3. PruneShape'
  BY <1>1 DEF PruneShape
<1>4. /\ sub' = [d \in Client |-> sub'[d]] /\ cli' = [d \in Client |-> cli'[d]]
      /\ sub' = [d \in Client |-> IF d = c THEN r ELSE sub[d]]
      /\ cli' = [d \in Client |-> IF d = c THEN g ELSE cli[d]]
  BY <1>1
<1>5. ASSUME NEW d \in Client, NEW s, NEW h, s = sub'[d], h = cli'[d]
      PROVE  SubInv(s, h, Watches[d])'
  <2>1. SubInv(s, h, Watches[d])
    <3>1. CASE d = c
      BY <1>4, <1>5, <3>1
    <3>2. CASE d # c
      BY <1>1, <1>4, <1>5, <3>2 DEF SubsInv
    <3> QED BY <3>1, <3>2
  <2> DEFINE t == Watches[d]
  <2> HIDE DEF t
  <2>2. SubInv(s, h, t)
    BY <2>1 DEF t
  <2>3. EventsOfThread(t)' = EventsOfThread(t)
    BY SameLog
  <2>4. Drained(s)' = Drained(s)
    BY DEF Drained
  <2>5. s.pos <= Len(channel') /\ Retained(s, t)'
    BY <2>2, <2>3 DEF SubInv, Shapes, Retained
  <2>6. gone \subseteq gone'
    OBVIOUS
  <2>7. SubInv(s, h, t)'
    BY <2>2, <2>4, <2>5, <2>6, OthersKeep
  <2> QED BY <2>7 DEF t
<1>6. SubsInv'
  BY <1>5 DEF SubsInv
<1> QED BY <1>2, <1>3, <1>4, <1>6 DEF StreamInv

LEMMA ServeKeeps ==
    ASSUME StreamInv, NEW c \in Client, NEW from, NEW r, Serve(c, from, r),
           SubInv(r, cli[c], Watches[c])
    PROVE  StreamInv'
<1>1. /\ UNCHANGED <<log, announced, channel, prune, gone, cli, losses>>
      /\ sub' = [sub EXCEPT ![c] = r]
  BY DEF Serve, logVars
<1>2. losses' \in 0 .. MaxLosses
  BY <1>1 DEF StreamInv, PruneShape
<1>3. cli' = [cli EXCEPT ![c] = cli[c]]
  <2>1. cli = [d \in Client |-> cli[d]]
    BY DEF StreamInv
  <2> QED BY <1>1, <2>1
<1> QED BY <1>1, <1>2, <1>3, OneClientKeeps

LEMMA HandshakeKeeps ==
    ASSUME StreamInv, NEW c \in Client, Handshake(c)
    PROVE  StreamInv'
<1> DEFINE s == sub[c]
           h == cli[c]
           t == Watches[c]
<1>1. /\ SubInv(s, h, t) /\ LogShape /\ PruneShape /\ ClientShape(h, t)
      /\ h \in Holding(t) /\ s \in Subscription(t)
  BY HoldsNow
<1>2. CASE Resume(c)
  <2>1. SubInv([Offline EXCEPT !.phase = "resuming", !.start = Latest(t)], h, t)
    BY <1>1, <1>2, ResumeKeeps DEF Resume
  <2> QED BY <1>2, <2>1, ServeKeeps DEF Resume
<1>3. CASE StartAfresh(c)
  <2>1. SubInv([Offline EXCEPT !.phase = "snapshot"], h, t)
    BY <1>1, StartAfreshKeeps
  <2> QED BY <1>3, <2>1, ServeKeeps DEF StartAfresh
<1>4. CASE CheckBoundary(c)
  <2> DEFINE away == h.cursor > s.start \/ Missing(c)
             r == [s EXCEPT !.phase = IF away THEN "snapshot" ELSE "measured"]
  <2>1. Serve(c, {"resuming"}, r) /\ s.phase = "resuming"
    BY <1>4 DEF CheckBoundary, Serve
  <2>2. CASE away
    <3>1. r = [s EXCEPT !.phase = "snapshot"] /\ s.phase \in Reading
      BY <2>1, <2>2 DEF Reading
    <3> HIDE DEF s, h, t, r
    <3>2. SubInv(r, h, t)
      BY <1>1, <3>1, TurnToSnapshot
    <3> QED BY <2>1, <3>2, ServeKeeps DEF h, t
  <2>3. CASE ~away
    <3>1. r = [s EXCEPT !.phase = "measured"] /\ h.cursor <= s.start
      <4>1. h.cursor \in Nat
        BY <1>1, EventsAreNumbers DEF Holding, LogShape
      <4>2. s.start \in Nat
        BY <1>1 DEF Subscription
      <4>3. ~(h.cursor > s.start)
        BY <2>3
      <4> HIDE DEF s, h
      <4>4. h.cursor <= s.start
        BY <4>1, <4>2, <4>3
      <4> QED BY <2>3, <4>4
    <3> HIDE DEF s, h, t, r
    <3>2. SubInv(r, h, t)
      BY <1>1, <2>1, <3>1, MeasuredKeeps
    <3> QED BY <2>1, <3>2, ServeKeeps DEF h, t
  <2> QED BY <2>2, <2>3
<1>5. CASE PreferSnapshot(c)
  <2> DEFINE r == [s EXCEPT !.phase = "snapshot"]
  <2>1. Serve(c, {"measured"}, r) /\ s.phase \in Reading
    BY <1>5 DEF PreferSnapshot, Serve, Reading
  <2>2. SubInv(r, h, t)
    BY <1>1, <2>1, TurnToSnapshot
  <2> HIDE DEF r
  <2> QED BY <2>1, <2>2, ServeKeeps
<1>6. CASE ReadReplay(c)
  <2> DEFINE r == [s EXCEPT !.phase = "read", !.sent = Stored(t, h.cursor, s.start)]
  <2>1. Serve(c, {"measured"}, r) /\ s.phase = "measured"
    BY <1>6 DEF ReadReplay, Serve
  <2>2. SubInv(r, h, t)
    BY <1>1, <2>1, ReadReplayKeeps
  <2> HIDE DEF r
  <2> QED BY <2>1, <2>2, ServeKeeps
<1>7. CASE CheckBoundaryAgain(c)
  <2> DEFINE a == [s EXCEPT !.phase = "snapshot", !.sent = << >>]
             b == [s EXCEPT !.phase = "initial", !.sent = Coalesce(@)]
             r == IF Missing(c) THEN a ELSE b
  <2>1. Serve(c, {"read"}, r) /\ s.phase = "read"
    BY <1>7 DEF CheckBoundaryAgain, Serve
  <2>2. CASE Missing(c)
    <3>1. r = a /\ s.phase \in Reading
      BY <2>1, <2>2 DEF Reading
    <3>2. SubInv(a, h, t)
      BY <1>1, <3>1, TurnToSnapshot
    <3> HIDE DEF r, a
    <3> QED BY <2>1, <3>1, <3>2, ServeKeeps
  <2>3. CASE ~Missing(c)
    <3>1. ~(h.cursor < s.start /\ h.cursor < prune.through)
      BY <2>3 DEF Missing
    <3>2. r = b
      BY <2>3
    <3>3. SubInv(b, h, t)
      BY <1>1, <2>1, <3>1, TrustedReplayKeeps
    <3> HIDE DEF r, b
    <3> QED BY <2>1, <3>2, <3>3, ServeKeeps
  <2> QED BY <2>2, <2>3
<1>8. CASE LoadSnapshot(c)
  <2> DEFINE r == [s EXCEPT !.phase = "initial", !.start = Latest(t),
                            !.sent = << Latest(t) >>, !.snapshot = TRUE]
  <2>1. Serve(c, {"snapshot"}, r) /\ s.phase = "snapshot" /\ EventsOfThread(t) # {}
    BY <1>8 DEF LoadSnapshot, Serve
  <2>2. SubInv(r, h, t)
    BY <1>1, <2>1, LoadSnapshotKeeps
  <2> HIDE DEF r
  <2> QED BY <2>1, <2>2, ServeKeeps
<1>9. CASE OpenStream(c)
  <2> DEFINE r == [s EXCEPT !.phase = "opening"]
  <2>1. Serve(c, {"initial"}, r) /\ s.phase = "initial" /\ s.sent = << >>
    BY <1>9 DEF OpenStream, Serve
  <2>2. SubInv(r, h, t)
    BY <1>1, <2>1, OpenStreamKeeps
  <2> HIDE DEF r
  <2> QED BY <2>1, <2>2, ServeKeeps
<1>10. CASE SubscribeChannel(c)
  <2> DEFINE r == [s EXCEPT !.phase = "subscribed", !.pos = Len(channel), !.through = s.start]
  <2>1. Serve(c, {"opening"}, r) /\ s.phase = "opening"
    BY <1>10 DEF SubscribeChannel, Serve
  <2>2. SubInv(r, h, t)
    BY <1>1, <2>1, SubscribeChannelKeeps
  <2> HIDE DEF r
  <2> QED BY <2>1, <2>2, ServeKeeps
<1>11. CASE ReadLatest(c)
  <2> DEFINE r == [s EXCEPT !.phase = "latest", !.latest = Len(log)]
  <2>1. Serve(c, {"subscribed"}, r) /\ s.phase = "subscribed"
    BY <1>11 DEF ReadLatest, Serve
  <2>2. SubInv(r, h, t)
    BY <1>1, <2>1, ReadLatestKeeps
  <2> HIDE DEF r
  <2> QED BY <2>1, <2>2, ServeKeeps
<1>12. CASE BeginCatchUp(c)
  <2> DEFINE r == [s EXCEPT !.phase = "paging",
                       !.through = IF s.latest > s.start THEN s.latest ELSE s.start,
                       !.readTo = s.start]
  <2>1. Serve(c, {"latest"}, r) /\ s.phase = "latest"
    BY <1>12 DEF BeginCatchUp, Serve
  <2>2. SubInv(r, h, t)
    BY <1>1, <2>1, BeginCatchUpKeeps
  <2> HIDE DEF r
  <2> QED BY <2>1, <2>2, ServeKeeps
<1> QED BY <1>2, <1>3, <1>4, <1>5, <1>6, <1>7, <1>8, <1>9, <1>10, <1>11, <1>12 DEF Handshake

LEMMA DeliverKeeps ==
    ASSUME StreamAssumption, StreamInv, NEW c \in Client, Drain(c) \/ Deliver(c)
    PROVE  StreamInv'
<1> DEFINE s == sub[c]
           h == cli[c]
           t == Watches[c]
<1>1. /\ SubInv(s, h, t) /\ LogShape /\ PruneShape /\ ClientShape(h, t)
      /\ h \in Holding(t) /\ s \in Subscription(t)
  BY HoldsNow
<1>2. CASE ReadPage(c)
  <2> DEFINE rows == Stored(t, s.readTo, s.latest)
             n == IF Len(rows) < PageSize THEN Len(rows) ELSE PageSize
             page == SubSeq(rows, 1, n)
             last == [s EXCEPT !.phase = "live"]
             more == [s EXCEPT !.page = page,
                          !.readTo = IF Len(page) < PageSize THEN s.latest ELSE Last(page)]
             r == IF page = << >> THEN last ELSE more
  <2>1. Serve(c, {"paging"}, r) /\ s.phase = "paging" /\ s.page = << >>
    BY <1>2 DEF ReadPage, Serve
  <2>2. rows \in Seq(EventsOfThread(t)) /\ Len(rows) \in Nat /\ PageSize \in Nat \ {0}
    <3>1. rows \in Seq(EventsOfThread(t))
      BY <1>1, <2>1, PagingFacts
    <3> HIDE DEF rows
    <3> QED BY <3>1 DEF StreamAssumption
  <2> HIDE DEF rows
  <2>3. n \in 0 .. Len(rows) /\ (n = 0 => Len(rows) = 0) /\ (n < PageSize => n = Len(rows))
    BY <2>2
  <2>4. page = << >> <=> n = 0
    <3> HIDE DEF n
    <3> QED BY <2>2, <2>3
  <2> HIDE DEF n
  <2>5. CASE page = << >>
    <3>1. r = last /\ rows = << >>
      <4>1. Len(rows) = 0
        BY <2>3, <2>4, <2>5
      <4> QED BY <2>2, <2>5, <4>1, EmptySeq
    <3>2. SubInv(last, h, t)
      BY <1>1, <2>1, <3>1, LastPageKeeps DEF rows
    <3> HIDE DEF r, last, page
    <3> QED BY <2>1, <3>1, <3>2, ServeKeeps
  <2>6. CASE page # << >>
    <3>1. r = more /\ n \in 1 .. Len(rows)
      BY <2>2, <2>3, <2>4, <2>6
    <3>2. SubInv(more, h, t)
      <4> HIDE DEF page
      <4>1. page = SubSeq(rows, 1, n)
        BY DEF page
      <4> QED BY <1>1, <2>1, <2>3, <3>1, <4>1, NextPageKeeps DEF rows
    <3> HIDE DEF r, more, page
    <3> QED BY <2>1, <3>1, <3>2, ServeKeeps
  <2> QED BY <2>5, <2>6
<1>3. CASE PullPage(c)
  <2> DEFINE next == OfferOne([s EXCEPT !.page = Tail(@)], Head(s.page))
             r == IF Len(s.retained) >= MaxItems THEN Fail(s) ELSE next
  <2>1. Serve(c, {"paging"}, r) /\ s.phase = "paging" /\ s.page # << >>
    BY <1>3 DEF PullPage, Serve
  <2>2. SubInv(next, h, t)
    BY <1>1, <2>1, PullPageKeeps
  <2>3. SubInv(Fail(s), h, t)
    BY <1>1, <2>1, OverflowKeeps DEF Draining
  <2> HIDE DEF next
  <2>4. SubInv(r, h, t)
    BY <2>2, <2>3
  <2> HIDE DEF r
  <2> QED BY <2>1, <2>4, ServeKeeps
<1>4. CASE Drain(c)
  <2> DEFINE i == channel[s.pos + 1]
             next == [s EXCEPT !.pos = @ + 1]
             took == [next EXCEPT !.retained = Append(@, i)]
             passed == ~(log[i].thread = t /\ i > s.through)
             r == IF passed THEN next ELSE IF Len(s.retained) >= MaxItems THEN Fail(s) ELSE took
  <2>1. Serve(c, Draining, r) /\ s.phase \in Draining /\ s.pos < Len(channel)
    BY <1>4 DEF Drain, Serve
  <2>2. passed => SubInv(next, h, t)
    BY <1>1, <2>1, DrainPassesKeeps
  <2>3. SubInv(Fail(s), h, t)
    BY <1>1, <2>1, OverflowKeeps
  <2>4. ~passed => SubInv(took, h, t)
    BY <1>1, <2>1, DrainTakesKeeps
  <2> HIDE DEF next, took, passed
  <2>5. SubInv(r, h, t)
    BY <2>2, <2>3, <2>4
  <2> HIDE DEF r
  <2> QED BY <2>1, <2>5, ServeKeeps
<1>5. CASE PullLive(c)
  <2> DEFINE r == OfferAll([s EXCEPT !.retained = << >>],
                           Among(s.retained, {i \in EventsOfThread(t) : i > s.through}))
  <2>1. Serve(c, {"live"}, r) /\ s.phase = "live"
    BY <1>5 DEF PullLive, Serve
  <2>2. SubInv(r, h, t)
    BY <1>1, <2>1, PullLiveKeeps
  <2> HIDE DEF r
  <2> QED BY <2>1, <2>2, ServeKeeps
<1>6. CASE FlushWindow(c)
  <2> DEFINE r == [s EXCEPT !.pending = << >>, !.output = @ \o Coalesce(s.pending)]
  <2>1. Serve(c, Draining, r) /\ s.phase \in Draining /\ s.pending # << >>
    BY <1>6 DEF FlushWindow, Serve
  <2>2. SubInv(r, h, t)
    BY <1>1, <2>1, FlushWindowKeeps
  <2> HIDE DEF r
  <2> QED BY <2>1, <2>2, ServeKeeps
<1>7. CASE SendOutput(c)
  <2> DEFINE r == [s EXCEPT !.sent = s.output, !.output = << >>]
  <2>1. Serve(c, Draining, r) /\ s.phase \in Draining /\ s.sent = << >> /\ s.output # << >>
    BY <1>7 DEF SendOutput, Serve
  <2>2. SubInv(r, h, t)
    BY <1>1, <2>1, SendOutputKeeps
  <2> HIDE DEF r
  <2> QED BY <2>1, <2>2, ServeKeeps
<1> QED BY <1>2, <1>3, <1>4, <1>5, <1>6, <1>7 DEF Deliver

\* r and g: the two sides of a subscription after the client took an item.
LEMMA ReceiveFacts ==
    ASSUME StreamInv, NEW c \in Client, Receive(c)
    PROVE  \E r, g : /\ sub' = [sub EXCEPT ![c] = r] /\ cli' = [cli EXCEPT ![c] = g]
                     /\ SubInv(r, g, Watches[c])
                     /\ cli[c].cursor <= g.cursor
<1> DEFINE s == sub[c]
           h == cli[c]
           t == Watches[c]
           i == Head(s.sent)
           r == [s EXCEPT !.sent = Tail(@), !.snapshot = FALSE]
           g == Applied(h, c, i)
<1>1. /\ SubInv(s, h, t) /\ LogShape /\ PruneShape
      /\ h \in Holding(t) /\ s \in Subscription(t)
  BY HoldsNow
<1>2. /\ s.phase \in Draining \cup {"initial", "failed"} /\ s.sent # << >>
      /\ cli' = [cli EXCEPT ![c] = g]
  BY DEF Receive
<1>3. sub' = [sub EXCEPT ![c] = r]
  BY DEF Receive, StreamInv
<1>4. h.cursor \in Nat /\ i \in Nat
  <2>1. IsLog
    BY <1>1 DEF LogShape
  <2>2. s.sent \in Seq(EventsOfThread(t)) /\ EventsOfThread(t) \subseteq Nat /\ h.cursor \in EventsOfThread(t) \cup {0}
    BY <1>1, <2>1, EventsAreNumbers DEF Subscription, Holding
  <2> HIDE DEF s, h, t
  <2>3. i \in EventsOfThread(t)
    BY <1>2, <2>2
  <2> QED BY <2>2, <2>3
<1>5. CASE s.snapshot
  <2>1. g = [hasData |-> TRUE, cursor |-> i, known |-> {j \in EventsOfThread(t) : j <= i}]
    BY <1>5 DEF Applied
  <2>2. SubInv(r, g, t)
    <3> HIDE DEF s, h, t, r, g
    <3> QED BY <1>1, <1>5, <2>1, SnapshotTaken DEF r
  <2>3. h.cursor <= g.cursor
    <3>1. s.sent = << s.start >> /\ h.cursor <= s.start
      BY <1>1, <1>5 DEF SubInv, Shapes, SnapshotShape
    <3>2. i = s.start
      BY <3>1
    <3>3. g.cursor = i
      <4> HIDE DEF g, i
      <4> QED BY <2>1
    <3> QED BY <3>1, <3>2, <3>3
  <2> HIDE DEF r, g
  <2> QED BY <1>2, <1>3, <2>2, <2>3
<1>6. CASE ~s.snapshot
  <2> DEFINE f == [h EXCEPT !.cursor = i, !.known = @ \cup {i}]
  <2>1. SubInv(r, f, t) /\ h.hasData /\ h.cursor < i
    <3>1. CASE s.phase = "failed"
      <4> HIDE DEF s, h, t
      <4> QED BY <1>1, <1>2, <3>1, RemnantTaken
    <3>2. CASE s.phase # "failed"
      <4>1. s.phase \in Draining \cup {"initial"}
        BY <1>2, <3>2
      <4> HIDE DEF s, h, t
      <4> QED BY <1>1, <1>2, <1>6, <4>1, EventTaken
    <3> QED BY <3>1, <3>2
  <2>2. ~(i <= h.cursor)
    <3> HIDE DEF h, i
    <3> QED BY <1>4, <2>1
  <2>3. g = f
    BY <1>6, <2>1, <2>2 DEF Applied
  <2>4. f.cursor = i
    BY <1>1 DEF Holding
  <2>5. h.cursor <= i
    <3> HIDE DEF h, i
    <3> QED BY <1>4, <2>1
  <2> HIDE DEF r, g, f
  <2> QED BY <1>2, <1>3, <2>1, <2>3, <2>4, <2>5
<1> QED BY <1>5, <1>6

LEMMA ClientKeeps ==
    ASSUME StreamAssumption, StreamInv, NEW c \in Client, ClientStep(c)
    PROVE  StreamInv'
<1> DEFINE s == sub[c]
           h == cli[c]
           t == Watches[c]
<1>1. /\ SubInv(s, h, t) /\ LogShape /\ PruneShape /\ ClientShape(h, t)
      /\ h \in Holding(t) /\ s \in Subscription(t)
  BY HoldsNow
<1>2. /\ sub = [d \in Client |-> sub[d]] /\ cli = [d \in Client |-> cli[d]]
      /\ losses \in 0 .. MaxLosses
  BY DEF StreamInv, PruneShape
<1>3. SubInv(Offline, h, t)
  BY <1>1, OfflineKeeps
<1>4. CASE Handshake(c)
  BY <1>4, HandshakeKeeps
<1>5. CASE Drain(c) \/ Deliver(c)
  BY <1>5, DeliverKeeps
<1>6. CASE Receive(c)
  <2>1. PICK r, g : /\ sub' = [sub EXCEPT ![c] = r] /\ cli' = [cli EXCEPT ![c] = g]
                    /\ SubInv(r, g, t)
    BY <1>6, ReceiveFacts
  <2>2. UNCHANGED <<log, announced, channel, prune, gone>> /\ losses' \in 0 .. MaxLosses
    BY <1>2, <1>6 DEF Receive, logVars
  <2> QED BY <2>1, <2>2, OneClientKeeps
<1>7. CASE LoadOverHttp(c)
  <2> DEFINE g == [hasData |-> TRUE, cursor |-> Latest(t), known |-> EventsOfThread(t)]
  <2>1. /\ s.phase = "offline" /\ EventsOfThread(t) # {} /\ cli' = [cli EXCEPT ![c] = g]
        /\ UNCHANGED <<log, announced, channel, sub, prune, gone, losses>>
    BY <1>7 DEF LoadOverHttp, logVars
  <2>2. Latest(t) \in EventsOfThread(t) /\ \A i \in EventsOfThread(t) : i <= Latest(t)
    BY <1>1, <2>1, LatestIsLast DEF LogShape
  <2>3. g \in Holding(t) /\ ClientShape(g, t)
    BY <2>2 DEF Holding, ClientShape, Accounted
  <2>4. SubInv(s, g, t)
    <3>1. ~s.snapshot
      BY <1>1, <2>1 DEF SubInv, Shapes, SnapshotShape
    <3> HIDE DEF g
    <3>2. BufferShape(s, t) /\ Retained(s, t) /\ s.pos <= Len(channel)
      BY <1>1 DEF SubInv, Shapes
    <3>3. SnapshotShape(s, g) /\ ReplayShape(s, g, t) /\ ~Flows(s)
      BY <2>1, <3>1 DEF SnapshotShape, ReplayShape, Flows, Reading, Draining
    <3> QED BY <1>1, <2>1, <2>3, <3>2, <3>3 DEF SubInv, Shapes
  <2> HIDE DEF g
  <2>5. sub' = [sub EXCEPT ![c] = s] /\ losses' \in 0 .. MaxLosses
    BY <1>2, <2>1
  <2> QED BY <2>1, <2>4, <2>5, OneClientKeeps
<1>8. CASE SeeFailure(c)
  BY <1>3, <1>8, ServeKeeps DEF SeeFailure
<1>9. CASE Disconnect(c)
  <2>1. /\ UNCHANGED <<log, announced, channel, prune, gone>>
        /\ losses < MaxLosses /\ losses' = losses + 1 /\ sub' = [sub EXCEPT ![c] = Offline]
        /\ cli' = cli \/ cli' = [cli EXCEPT ![c] = NoData]
    BY <1>9 DEF Disconnect, logVars
  <2>2. losses' \in 0 .. MaxLosses
    <3>1. MaxLosses \in Nat
      BY DEF StreamAssumption
    <3> QED BY <1>2, <2>1, <3>1
  <2>3. CASE cli' = cli
    <3>1. cli' = [cli EXCEPT ![c] = h]
      BY <1>2, <2>3
    <3> QED BY <1>3, <2>1, <2>2, <3>1, OneClientKeeps
  <2>4. CASE cli' = [cli EXCEPT ![c] = NoData]
    <3>1. NoData \in Holding(t) /\ ClientShape(NoData, t)
      BY DEF NoData, Holding, ClientShape
    <3>2. SubInv(Offline, NoData, t)
      BY <1>1, <3>1, OfflineKeeps
    <3> QED BY <2>1, <2>2, <2>4, <3>2, OneClientKeeps
  <2> QED BY <2>1, <2>3, <2>4
<1> QED BY <1>4, <1>5, <1>6, <1>7, <1>8, <1>9 DEF ClientStep

LEMMA WriteStep ==
    ASSUME StreamAssumption, StreamInv, Write
    PROVE  StreamInv'
<1>1. PICK batch \in Batch :
        /\ announced = Len(log) /\ log' = log \o batch
        /\ UNCHANGED <<announced, channel, sub, cli, prune, gone, losses>>
  BY DEF Write, AppendToLog
<1>2. LogShape /\ PruneShape /\ SubsInv
  BY DEF StreamInv
<1>3. /\ batch \in Seq(Entry) /\ log \in Seq(Entry) /\ Len(log) \in Nat /\ Len(log') \in Nat
      /\ log' \in Seq(Entry) /\ Len(log) <= Len(log')
  BY <1>1, <1>2 DEF StreamAssumption, LogShape, IsLog
<1>4. LogShape'
  BY <1>1, <1>2, <1>3 DEF LogShape, IsLog
<1>5. PruneShape'
  <2>1. 0 .. Len(log) \subseteq 0 .. Len(log')
    BY <1>3
  <2> QED BY <1>1, <1>2, <2>1 DEF PruneShape
<1>6. SubsInv'
  <2> SUFFICES ASSUME NEW c \in Client, NEW s, NEW h, s = sub'[c], h = cli'[c]
               PROVE  SubInv(s, h, Watches[c])'
    BY DEF SubsInv
  <2> DEFINE t == Watches[c]
  <2>1. SubInv(s, h, t)
    BY <1>1, <1>2 DEF SubsInv
  <2> HIDE DEF t
  <2>2. SubInv(s, h, t)'
    BY <1>1, <1>2, <2>1, WriteKeeps
  <2> QED BY <2>2 DEF t
<1> QED BY <1>1, <1>4, <1>5, <1>6 DEF StreamInv

LEMMA AnnounceStep ==
    ASSUME StreamInv, AnnounceBatch
    PROVE  StreamInv'
<1> DEFINE new == SequencesIn(announced + 1, Len(log))
           n == Len(log) - announced
<1>1. /\ announced < Len(log) /\ announced' = Len(log) /\ channel' = channel \o new
      /\ UNCHANGED <<log, sub, cli, prune, gone, losses>>
  BY DEF AnnounceBatch, Announce
<1>2. LogShape /\ PruneShape /\ SubsInv
  BY DEF StreamInv
<1>3. /\ Len(log) \in Nat /\ announced \in Nat /\ channel \in Seq(Nat) /\ Len(channel) \in Nat
      /\ Len(channel) <= announced /\ n \in Nat /\ IsLog
      /\ \A k \in 1 .. Len(channel) : channel[k] = announced - Len(channel) + k
  BY <1>1, <1>2 DEF LogShape, IsLog
<1>4. new = [k \in 1 .. n |-> announced + 1 + k - 1]
  <2>1. ~(Len(log) < announced + 1) /\ Len(log) - (announced + 1) + 1 = n
    BY <1>1, <1>3
  <2> QED BY <2>1 DEF SequencesIn
<1>5. new \in Seq(Nat) /\ Len(new) = n /\ \A k \in 1 .. n : new[k] = announced + k
  <2>1. \A k \in 1 .. n : announced + 1 + k - 1 = announced + k /\ announced + k \in Nat
    BY <1>3
  <2> HIDE DEF n, new
  <2> QED BY <1>3, <1>4, <2>1
<1> HIDE DEF new
<1>6. /\ channel' \in Seq(Nat) /\ Len(channel') = Len(channel) + n
      /\ \A k \in 1 .. Len(channel) + n :
            channel'[k] = IF k <= Len(channel) THEN channel[k] ELSE new[k - Len(channel)]
  <2>1. channel' = channel \o new /\ channel \in Seq(Nat) /\ new \in Seq(Nat) /\ Len(new) = n
    BY <1>1, <1>3, <1>5
  <2> DEFINE q == channel \o new
  <2>2. channel \in Seq(Nat) /\ new \in Seq(Nat)
    BY <2>1
  <2>3. /\ q \in Seq(Nat) /\ Len(q) = Len(channel) + Len(new)
        /\ \A k \in 1 .. Len(channel) + Len(new) :
              q[k] = IF k <= Len(channel) THEN channel[k] ELSE new[k - Len(channel)]
    BY ONLY <2>2
  <2> HIDE DEF n, q
  <2>4. channel' = q
    BY <2>1 DEF q
  <2> QED BY <2>1, <2>3, <2>4
<1>7. /\ announced' - Len(channel') = announced - Len(channel)
      /\ Len(channel') <= announced'
  BY <1>1, <1>3, <1>6
<1>8. ASSUME NEW k \in 1 .. Len(channel')
      PROVE  channel'[k] = announced' - Len(channel') + k
  <2>1. CASE k <= Len(channel)
    <3>1. k \in 1 .. Len(channel) /\ channel'[k] = channel[k]
      BY <1>3, <1>6, <2>1
    <3> QED BY <1>3, <1>7, <3>1
  <2>2. CASE ~(k <= Len(channel))
    <3>1. k - Len(channel) \in 1 .. n /\ channel'[k] = new[k - Len(channel)]
      BY <1>3, <1>6, <2>2
    <3>2. channel'[k] = announced + (k - Len(channel))
      BY <1>5, <3>1
    <3> QED BY <1>3, <1>7, <3>2
  <2> QED BY <2>1, <2>2
<1>9. LogShape'
  BY <1>1, <1>3, <1>6, <1>7, <1>8 DEF LogShape, IsLog
<1>10. PruneShape'
  BY <1>1, <1>2 DEF PruneShape
<1>11. SubsInv'
  <2> SUFFICES ASSUME NEW c \in Client, NEW s, NEW h, s = sub'[c], h = cli'[c]
               PROVE  SubInv(s, h, Watches[c])'
    BY DEF SubsInv
  <2> DEFINE t == Watches[c]
  <2>1. SubInv(s, h, t)
    BY <1>1, <1>2 DEF SubsInv
  <2> HIDE DEF t
  <2>2. s.pos \in Nat /\ s.pos <= Len(channel)
    BY <2>1 DEF SubInv, Shapes, Subscription
  <2>3. s.pos <= Len(channel')
    BY <1>3, <1>6, <2>2
  <2>4. Drained(s)' = Drained(s)
    BY <1>3, <1>7, <2>2 DEF Drained
  <2>5. EventsOfThread(t)' = EventsOfThread(t)
    BY <1>1, SameLog
  <2>6. Retained(s, t)'
    BY <1>1, <2>1, <2>5 DEF SubInv, Shapes, Retained
  <2>7. SubInv(s, h, t)'
    BY <1>1, <2>1, <2>3, <2>4, <2>6, OthersKeep
  <2> QED BY <2>7 DEF t
<1> QED BY <1>1, <1>9, <1>10, <1>11 DEF StreamInv

LEMMA CrashStep ==
    ASSUME StreamAssumption, StreamInv, Crash
    PROVE  StreamInv'
<1>1. /\ losses < MaxLosses /\ losses' = losses + 1 /\ announced' = Len(log) /\ channel' = << >>
      /\ sub' = [c \in Client |-> Offline] /\ prune' = [prune EXCEPT !.deleting = FALSE]
      /\ UNCHANGED <<log, cli, gone>>
  BY DEF Crash, RestartLog
<1>2. LogShape /\ PruneShape /\ SubsInv
  BY DEF StreamInv
<1>3. LogShape'
  <2>1. Len(log) \in Nat /\ << >> \in Seq(Nat) /\ Len(<< >>) = 0
    BY <1>2 DEF LogShape, IsLog
  <2>2. Len(channel') = 0 /\ channel' \in Seq(Nat) /\ IsLog'
    BY <1>1, <1>2, <2>1 DEF LogShape, IsLog
  <2> QED BY <1>1, <2>1, <2>2 DEF LogShape
<1>4. PruneShape'
  <2>1. MaxLosses \in Nat
    BY DEF StreamAssumption
  <2>2. losses' \in 0 .. MaxLosses
    BY <1>1, <1>2, <2>1 DEF PruneShape
  <2> QED BY <1>1, <1>2, <2>2 DEF PruneShape
<1>5. SubsInv'
  <2> SUFFICES ASSUME NEW c \in Client, NEW s, NEW h, s = sub'[c], h = cli'[c]
               PROVE  SubInv(s, h, Watches[c])'
    BY DEF SubsInv
  <2> DEFINE t == Watches[c]
  <2>1. s = Offline /\ h \in Holding(t) /\ ClientShape(h, t)
    BY <1>1, <1>2, HoldsNow
  <2> HIDE DEF t
  <2>2. SubInv(s, h, t)
    BY <1>2, <2>1, OfflineKeeps
  <2>3. s.phase = "offline" /\ s.pos = 0
    BY <2>1 DEF Offline
  <2>4. s.pos <= Len(channel')
    BY <1>1, <2>3
  <2>5. Retained(s, t)' /\ s.phase \notin Draining
    BY <2>3 DEF Retained, Reading, Starting, Draining
  <2>6. SubInv(s, h, t)'
    BY <1>1, <2>2, <2>4, <2>5, OthersKeep
  <2> QED BY <2>6 DEF t
<1> QED BY <1>1, <1>3, <1>4, <1>5 DEF StreamInv

LEMMA MaintenanceStep ==
    ASSUME StreamAssumption, StreamInv, Maintenance
    PROVE  StreamInv'
<1>1. /\ UNCHANGED <<log, announced, channel, sub, cli, losses>>
      /\ gone \subseteq gone'
  BY DEF Maintenance, MarkAges, BeginPass, DeleteEvent, EndPass, logVars
<1>2. LogShape /\ PruneShape /\ SubsInv
  BY DEF StreamInv
<1>3. LogShape'
  BY <1>1, <1>2 DEF LogShape, IsLog
<1>4. /\ Len(log) \in Nat /\ MaxPasses \in Nat
      /\ prune \in [mark : 0 .. Len(log), due : BOOLEAN, through : 0 .. Len(log),
                    next : 0 .. Len(log), deleting : BOOLEAN, passes : 0 .. MaxPasses]
      /\ gone \subseteq 1 .. prune.through /\ losses' \in 0 .. MaxLosses
  BY <1>1, <1>2 DEF LogShape, IsLog, PruneShape, StreamAssumption
<1>5. PruneShape'
  <2>1. CASE MarkAges
    <3>1. prune.passes + 1 \in 0 .. MaxPasses
      BY <1>4, <2>1 DEF MarkAges
    <3> QED BY <1>1, <1>4, <2>1, <3>1 DEF MarkAges, PruneShape
  <2>2. CASE BeginPass
    <3> DEFINE v == IF prune.mark > prune.through THEN prune.mark ELSE prune.through
    <3>1. v \in 0 .. Len(log) /\ 1 .. prune.through \subseteq 1 .. v /\ Len(log) \in 0 .. Len(log)
      BY <1>4
    <3>2. prune' = [prune EXCEPT !.deleting = TRUE, !.next = Len(log), !.through = v] /\ gone' = gone
      BY <2>2 DEF BeginPass
    <3> HIDE DEF v
    <3>3. prune'.through = v /\ prune' \in [mark : 0 .. Len(log), due : BOOLEAN, through : 0 .. Len(log),
                    next : 0 .. Len(log), deleting : BOOLEAN, passes : 0 .. MaxPasses]
      BY <1>4, <3>1, <3>2
    <3> QED BY <1>1, <1>4, <3>1, <3>2, <3>3 DEF PruneShape
  <2>3. CASE DeleteEvent
    BY <1>1, <1>4, <2>3 DEF DeleteEvent, PruneShape
  <2>4. CASE EndPass
    BY <1>1, <1>4, <2>4 DEF EndPass, PruneShape
  <2> QED BY <2>1, <2>2, <2>3, <2>4 DEF Maintenance
<1>6. SubsInv'
  <2> SUFFICES ASSUME NEW c \in Client, NEW s, NEW h, s = sub'[c], h = cli'[c]
               PROVE  SubInv(s, h, Watches[c])'
    BY DEF SubsInv
  <2> DEFINE t == Watches[c]
  <2>1. SubInv(s, h, t)
    BY <1>1, <1>2 DEF SubsInv
  <2>2. s = sub[c]
    BY <1>1
  <2> HIDE DEF t
  <2>3. EventsOfThread(t)' = EventsOfThread(t)
    BY <1>1, SameLog
  <2>4. Retained(s, t)
    BY <2>1 DEF SubInv, Shapes
  <2>5. Retained(s, t)'
    <3>1. CASE MarkAges
      <4>1. s.phase \in {"offline", "live", "failed"}
        BY <2>2, <3>1 DEF MarkAges
      <4> QED BY <4>1 DEF Retained, Reading, Starting
    <3>2. CASE BeginPass
      <4>1. /\ prune.due /\ prune'.due = prune.due /\ prune'.mark = prune.mark
            /\ prune'.through = prune.mark \/ prune'.through = prune.through
        BY <1>4, <3>2 DEF BeginPass
      <4> QED BY <2>3, <2>4, <4>1 DEF Retained
    <3>3. CASE DeleteEvent
      BY <2>3, <2>4, <3>3 DEF DeleteEvent, Retained
    <3>4. CASE EndPass
      <4>1. prune'.due = FALSE /\ prune'.through = prune.through
        BY <1>4, <3>4 DEF EndPass
      <4> QED BY <2>3, <2>4, <4>1 DEF Retained
    <3> QED BY <3>1, <3>2, <3>3, <3>4 DEF Maintenance
  <2>6. s.pos <= Len(channel') /\ Drained(s)' = Drained(s)
    BY <1>1, <2>1 DEF SubInv, Shapes, Drained
  <2>7. SubInv(s, h, t)'
    BY <1>1, <2>1, <2>5, <2>6, OthersKeep
  <2> QED BY <2>7 DEF t
<1> QED BY <1>1, <1>3, <1>5, <1>6 DEF StreamInv

LEMMA StutterKeeps ==
    ASSUME StreamInv, UNCHANGED vars
    PROVE  StreamInv'
<1>1. UNCHANGED <<log, announced, channel, sub, cli, prune, gone, losses>>
  BY DEF vars, logVars
<1>2. LogShape /\ PruneShape /\ SubsInv
  BY DEF StreamInv
<1>3. LogShape' /\ PruneShape'
  BY <1>1, <1>2 DEF LogShape, IsLog, PruneShape
<1>4. SubsInv'
  <2> SUFFICES ASSUME NEW c \in Client, NEW s, NEW h, s = sub'[c], h = cli'[c]
               PROVE  SubInv(s, h, Watches[c])'
    BY DEF SubsInv
  <2> DEFINE t == Watches[c]
  <2>1. SubInv(s, h, t)
    BY <1>1, <1>2 DEF SubsInv
  <2> HIDE DEF t
  <2>2. EventsOfThread(t)' = EventsOfThread(t)
    BY <1>1, SameLog
  <2>3. Retained(s, t)' /\ s.pos <= Len(channel') /\ Drained(s)' = Drained(s)
    BY <1>1, <2>1, <2>2 DEF SubInv, Shapes, Retained, Drained
  <2>4. SubInv(s, h, t)'
    BY <1>1, <2>1, <2>3, OthersKeep
  <2> QED BY <2>4 DEF t
<1> QED BY <1>1, <1>3, <1>4 DEF StreamInv

LEMMA StepKeeps ==
    ASSUME StreamAssumption, StreamInv, [StreamNext]_vars
    PROVE  StreamInv'
BY ClientKeeps, WriteStep, AnnounceStep, CrashStep, MaintenanceStep, StutterKeeps DEF StreamNext

(* The events of a thread are at any time ahead of a subscription, on     *)
(* their way, held by the client, or replaced by one of these, whatever   *)
(* path the server took: replay, snapshot, pages or live.                 *)
THEOREM StreamInvariance == StreamSpec => []StreamInv
<1>1. Init => StreamInv
  BY StreamAssumption, InitKeeps
<1>2. StreamInv /\ [StreamNext]_vars => StreamInv'
  BY StreamAssumption, StepKeeps
<1> QED BY <1>1, <1>2, PTL DEF StreamSpec

LEMMA InvTypes == ASSUME StreamInv PROVE TypeOK
<1>1. LogShape /\ PruneShape
  BY DEF StreamInv
<1>2. ASSUME NEW c \in Client
      PROVE  /\ sub[c].phase \in Phase
             /\ sub[c].pos \in 0 .. Len(channel)
             /\ \A f \in {"retained", "page", "pending", "output", "sent"} :
                    sub[c][f] \in Seq(EventsOfThread(Watches[c]))
             /\ cli[c] \in [hasData : BOOLEAN, cursor : 0 .. Len(log),
                            known : SUBSET EventsOfThread(Watches[c])]
  <2> DEFINE s == sub[c]
             h == cli[c]
             t == Watches[c]
  <2>1. s \in Subscription(t) /\ h \in Holding(t) /\ s.pos <= Len(channel)
    BY HoldsNow DEF SubInv, Shapes
  <2>2. EventsOfThread(t) \subseteq 1 .. Len(log) /\ Len(log) \in Nat /\ Len(channel) \in Nat
    BY <1>1, EventsAreNumbers DEF LogShape
  <2> HIDE DEF s, h, t
  <2>3. s.phase \in Phase /\ s.pos \in Nat
    BY <2>1 DEF Subscription
  <2>4. /\ s["retained"] \in Seq(EventsOfThread(t)) /\ s["page"] \in Seq(EventsOfThread(t))
        /\ s["pending"] \in Seq(EventsOfThread(t)) /\ s["output"] \in Seq(EventsOfThread(t))
        /\ s["sent"] \in Seq(EventsOfThread(t))
    BY <2>1 DEF Subscription
  <2>5. h \in [hasData : BOOLEAN, cursor : 0 .. Len(log), known : SUBSET EventsOfThread(t)]
    <3>1. EventsOfThread(t) \cup {0} \subseteq 0 .. Len(log)
      BY <2>2
    <3> QED BY <2>1, <3>1 DEF Holding
  <2>6. s.pos \in 0 .. Len(channel)
    BY <2>1, <2>2, <2>3
  <2> QED BY <2>3, <2>4, <2>5, <2>6 DEF s, h, t
<1> QED BY <1>1, <1>2 DEF TypeOK, LogShape, IsLog, PruneShape

(* Subscriptions, clients, channel and pruning have the values they are    *)
(* meant to have; the buffers hold events of the client's thread only.     *)
THEOREM StreamTypes == StreamSpec => []TypeOK
BY StreamInvariance, InvTypes, PTL

LEMMA ShapeSkipsNothing == ASSUME StreamInv PROVE NothingSkipped
<1> SUFFICES ASSUME NEW c \in Client, cli[c].hasData, NEW i \in EventsOfThread(Watches[c]),
                    i <= cli[c].cursor
             PROVE  Reflected(c, i) \/ Upcoming(c, i)
  BY InvTypes DEF NothingSkipped
<1> DEFINE h == cli[c]
           t == Watches[c]
<1>1. Accounted(i, h.known \cup Beyond(t, h.cursor)) /\ h.known \subseteq EventsOfThread(t)
  BY HoldsNow DEF ClientShape, Holding
<1>2. h.cursor \in Nat /\ EventsOfThread(t) \subseteq Nat
  <2>1. IsLog /\ h \in Holding(t)
    BY HoldsNow DEF LogShape
  <2> QED BY <2>1, EventsAreNumbers DEF Holding
<1>3. CASE i \in h.known
  BY <1>3 DEF Reflected
<1>4. CASE i \in Beyond(t, h.cursor)
  <2>1. i > h.cursor /\ i \in Nat /\ i <= h.cursor
    BY <1>2, <1>4 DEF Beyond
  <2> QED BY <1>2, <2>1
<1>5. CASE \E n \in h.known \cup Beyond(t, h.cursor) : Replaces(n, i)
  <2>1. PICK n \in h.known \cup Beyond(t, h.cursor) : Replaces(n, i)
    BY <1>5
  <2>2. n \in EventsOfThread(t) /\ n \in Nat /\ i \in Nat
    BY <1>1, <1>2, <2>1 DEF Beyond
  <2>3. i < n /\ log[n].key = log[i].key
    BY <2>1 DEF Replaces
  <2>4. log[i].key # NoKey
    <3>1. n \in i + 1 .. n
      BY <2>2, <2>3
    <3>2. log[n].thread = log[i].thread
      BY <2>1 DEF Replaces
    <3>3. log[n].key # NoKey
      BY <2>1, <3>1, <3>2 DEF Replaces
    <3> QED BY <2>3, <3>3
  <2>5. CASE n \in h.known
    <3>1. n > i
      BY <2>2, <2>3
    <3> QED BY <2>3, <2>4, <2>5, <3>1 DEF Reflected
  <2>6. CASE n \in Beyond(t, h.cursor)
    BY <2>2, <2>3, <2>4, <2>6 DEF Upcoming, Beyond
  <2> QED BY <2>1, <2>5, <2>6
<1> QED BY <1>1, <1>3, <1>4, <1>5 DEF Accounted

(* Every event up to a client's cursor is in its data, or a later update   *)
(* of its entity stands for it, held or still to come: coalescing, pruning *)
(* in the middle of a replay and lost subscriptions make it skip nothing.  *)
THEOREM SkipsNothing == StreamSpec => []NothingSkipped
BY StreamInvariance, ShapeSkipsNothing, PTL

LEMMA ShapeKeepsOrder == ASSUME StreamInv PROVE EntitiesInOrder
<1> SUFFICES ASSUME NEW c \in Client, NEW j \in cli[c].known,
                    NEW i \in EventsOfThread(Watches[c]), i < j,
                    log[i].key # NoKey, log[j].key # NoKey,
                    FamilyOf[log[i].key] = FamilyOf[log[j].key]
             PROVE  \E k \in cli[c].known : k <= j /\ log[k].key = log[i].key
  BY DEF EntitiesInOrder
<1> DEFINE h == cli[c]
           t == Watches[c]
<1>1. /\ ClientShape(h, t) /\ h \in Holding(t) /\ IsLog
  BY HoldsNow DEF LogShape
<1>2. /\ EventsOfThread(t) \subseteq Nat /\ h.cursor \in Nat /\ h.known \subseteq EventsOfThread(t)
  BY <1>1, EventsAreNumbers DEF Holding
<1>3. i \in Nat /\ j \in Nat /\ j \in EventsOfThread(t) /\ j <= h.cursor /\ h.hasData
  BY <1>1, <1>2 DEF ClientShape
<1>4. i <= h.cursor
  BY <1>2, <1>3
<1>5. Accounted(i, h.known \cup Beyond(t, h.cursor))
  BY <1>1, <1>3, <1>4 DEF ClientShape
<1>6. CASE i \in h.known
  <2>1. i <= j
    BY <1>3
  <2> QED BY <1>6, <2>1
<1>7. CASE i \in Beyond(t, h.cursor)
  <2>1. i > h.cursor
    BY <1>7 DEF Beyond
  <2> QED BY <1>2, <1>3, <1>4, <2>1
<1>8. CASE \E n \in h.known \cup Beyond(t, h.cursor) : Replaces(n, i)
  <2>1. PICK n \in h.known \cup Beyond(t, h.cursor) : Replaces(n, i)
    BY <1>8
  <2>2. n \in EventsOfThread(t) /\ n \in Nat
    BY <1>2, <2>1 DEF Beyond
  <2>3. CASE n <= j
    <3>1. n \in h.known
      <4>1. ~(n > h.cursor)
        BY <1>2, <1>3, <2>2, <2>3
      <4> QED BY <2>1, <4>1 DEF Beyond
    <3>2. log[n].key = log[i].key
      BY <2>1 DEF Replaces
    <3> QED BY <2>3, <3>1, <3>2
  <2>4. CASE ~(n <= j)
    <3>1. j \in i + 1 .. n
      BY <1>3, <2>2, <2>4
    <3>2. log[j].thread = log[i].thread
      BY <1>3 DEF EventsOfThread
    <3>3. log[j].key = log[i].key
      BY <2>1, <3>1, <3>2 DEF Replaces
    <3>4. j <= j
      BY <1>3
    <3> QED BY <3>3, <3>4
  <2> QED BY <2>3, <2>4
<1> QED BY <1>5, <1>6, <1>7, <1>8 DEF Accounted

(* A client that holds an update of an entity holds, no later than it, one *)
(* of every entity of the family that came first: coalescing lets no       *)
(* entity overtake another in the insertion order of its family.           *)
THEOREM KeepsEntitiesInOrder == StreamSpec => []EntitiesInOrder
BY StreamInvariance, ShapeKeepsOrder, PTL

LEMMA StepGoesForward ==
    ASSUME StreamInv, [StreamNext]_vars, NEW c \in Client, cli[c].hasData, cli'[c].hasData
    PROVE  cli[c].cursor <= cli'[c].cursor
<1>1. cli[c].cursor \in Nat
  <2>1. IsLog /\ cli[c] \in Holding(Watches[c])
    BY HoldsNow DEF LogShape
  <2> QED BY <2>1, EventsAreNumbers DEF Holding
<1>2. CASE cli'[c] = cli[c]
  BY <1>1, <1>2
<1>3. CASE \E d \in Client : Receive(d)
  <2>1. PICK d \in Client : Receive(d)
    BY <1>3
  <2>2. PICK r, g : cli' = [cli EXCEPT ![d] = g] /\ cli[d].cursor <= g.cursor
    BY <2>1, ReceiveFacts
  <2>3. cli = [x \in Client |-> cli[x]]
    BY DEF StreamInv
  <2>4. CASE c = d
    BY <2>2, <2>3, <2>4
  <2>5. CASE c # d
    BY <1>2, <2>2, <2>3, <2>5
  <2> QED BY <2>4, <2>5
<1>4. CASE \E d \in Client : LoadOverHttp(d)
  <2>1. PICK d \in Client : ~cli[d].hasData /\ \A x \in Client : x # d => cli'[x] = cli[x]
    BY <1>4 DEF LoadOverHttp, StreamInv
  <2> QED BY <1>2, <2>1
<1>5. CASE \E d \in Client : Disconnect(d)
  <2>1. cli'[c] = cli[c] \/ cli'[c] = NoData
    BY <1>5 DEF Disconnect, StreamInv
  <2>2. NoData.hasData = FALSE
    BY DEF NoData
  <2> QED BY <1>2, <2>1, <2>2
<1>6. UNCHANGED cli \/ \E d \in Client : Receive(d) \/ LoadOverHttp(d) \/ Disconnect(d)
  BY DEF StreamNext, ClientStep, Handshake, Resume, StartAfresh, CheckBoundary, PreferSnapshot,
         ReadReplay, CheckBoundaryAgain, LoadSnapshot, OpenStream, SubscribeChannel, ReadLatest,
         BeginCatchUp, Deliver, ReadPage, PullPage, PullLive, FlushWindow, SendOutput, Drain,
         SeeFailure, Serve, Write, AnnounceBatch, Crash, Maintenance, MarkAges, BeginPass,
         DeleteEvent, EndPass, vars
<1> QED BY <1>2, <1>3, <1>4, <1>5, <1>6

(* The cursor a client resumes from never falls while it keeps its data:   *)
(* replays, snapshots and live events arrive in the order of the log.      *)
THEOREM NeverStepsBack == StreamSpec => NoStepBack
<1>1. ASSUME StreamInv, [StreamNext]_vars
      PROVE  [\A c \in Client :
                cli[c].hasData /\ cli'[c].hasData => cli[c].cursor <= cli'[c].cursor]_vars
  BY <1>1, StepGoesForward
<1> QED BY <1>1, StreamInvariance, PTL DEF StreamSpec, NoStepBack
=============================================================================
