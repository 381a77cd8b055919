------------------------------ MODULE WindowProofs ------------------------------
(***************************************************************************)
(* The parts of the window that keep lists, its frame and its boxes.  The  *)
(* history of queries: what several instances of the program do to it and  *)
(* to its file keeps every list well formed, and a run never costs a pin.  *)
(* The options: each choice arrives in the file, the menu and the engines. *)
(* The work area: the tabs are the shells alive, and their titles tell     *)
(* what is unsaved.  The frame: every size that is kept to return to is    *)
(* one the user or the program gave it.  The notices: the handles shown    *)
(* grow, so the last one is enough to know who was told.  Completion: what *)
(* is shown is about the token that was read at a place, and the closing   *)
(* characters after the caret have their openers before it.                *)
(***************************************************************************)
EXTENDS WorkArea, Options, QueryHistory, WindowFrame, Notices, Completion, SequenceLemmas

\* e has one entry per query, newest first, none later than t.
InOrder(e, t) ==
  /\ e \in Seq(Entry)
  /\ \A j, k \in 1..Len(e) : e[j].key = e[k].key => j = k
  /\ \A j, k \in 1..Len(e) : j < k => e[j].stamp > e[k].stamp
  /\ \A j \in 1..Len(e) : e[j].stamp <= t

\* e is a list a manager may hold or load.
WellKept(e, t) == InOrder(e, t) /\ Len(e) <= MaxEntries

\* The list of an instance and the file are what an earlier step made of one another,
\* so both are well formed; that a stamp is never in the future makes the new entry of
\* a run the newest, and its key is taken out of the rest before it is put in front.
HistoryKept ==
  /\ up \subseteq Instances /\ time \in Nat
  /\ DOMAIN entries = Instances /\ entries = [i \in Instances |-> entries[i]]
  /\ \A i \in Instances : WellKept(entries[i], time)
  /\ WellKept(file, time)
  /\ row \in [Instances -> 0..MaxEntries] /\ pinnedOnly \in [Instances -> BOOLEAN]
  /\ RowIsListed

-----------------------------------------------------------------------------
LEMMA EntriesAreTyped ==
  ASSUME NEW e, e \in Seq(Entry)
  PROVE  /\ Len(e) \in Nat /\ DOMAIN e = 1..Len(e)
         /\ \A j \in 1..Len(e) : e[j] \in Entry /\ e[j].stamp \in Nat /\ e[j].pinned \in BOOLEAN
                                 /\ e[j].runs \in Nat /\ e[j].key \in Keys
<1>1. Len(e) \in Nat /\ DOMAIN e = 1..Len(e) /\ \A j \in 1..Len(e) : e[j] \in Entry
  BY LenProperties, ElementOfSeq
<1> QED
  BY <1>1 DEF Entry

LEMMA EmptyIsKept ==
  ASSUME NEW t \in Nat
  PROVE  WellKept(<<>>, t) /\ DOMAIN <<>> = {}
<1>1. <<>> \in Seq(Entry) /\ Len(<<>>) = 0 /\ 1..0 = {}
  BY EmptySeq
<1>2. MaxEntries \in Nat
  BY HistoryAssumption
<1> QED
  BY <1>1, <1>2 DEF WellKept, InOrder

\* Time passes.
LEMMA KeptLater ==
  ASSUME NEW e, NEW t \in Nat, WellKept(e, t)
  PROVE  WellKept(e, t + 1)
<1>1. \A j \in 1..Len(e) : e[j].stamp \in Nat
  BY EntriesAreTyped DEF WellKept, InOrder
<1>2. \A j \in 1..Len(e) : e[j].stamp <= t + 1
  BY <1>1 DEF WellKept, InOrder
<1> QED
  BY <1>2 DEF WellKept, InOrder

\* The tab selects an entry it lists, or none where it lists none.
LEMMA RebuiltIsListed ==
  ASSUME NEW e, e \in Seq(Entry), NEW only, NEW keep
  PROVE  /\ Rebuilt(e, only, keep) \in Rows(e, only)
            \/ (Rebuilt(e, only, keep) = 0 /\ Rows(e, only) = {})
         /\ Rebuilt(e, only, keep) \in 0..Len(e)
<1>1. DOMAIN e = 1..Len(e) /\ Len(e) \in Nat
  BY EntriesAreTyped
<1>2. Rows(e, only) \subseteq 1..Len(e)
  BY <1>1 DEF Rows
<1>3. Rows(e, only) # {} => Min(Rows(e, only)) \in Rows(e, only)
  <2> SUFFICES ASSUME Rows(e, only) # {}
               PROVE  Min(Rows(e, only)) \in Rows(e, only)
    OBVIOUS
  <2>1. Rows(e, only) \subseteq Nat
    BY <1>2
  <2> QED
    BY <2>1, MinOfSet
<1>4. Rebuilt(e, only, keep) \in Rows(e, only)
      \/ (Rebuilt(e, only, keep) = 0 /\ Rows(e, only) = {})
  BY <1>3 DEF Rebuilt
<1> QED
  BY <1>1, <1>2, <1>4

\* Where the entry at j of a list is after the one at i was taken out.
LEMMA RemovedFacts ==
  ASSUME NEW e, NEW t, InOrder(e, t), NEW i \in 1..Len(e)
  PROVE  /\ InOrder(RemoveAt(e, i), t)
         /\ Len(RemoveAt(e, i)) = Len(e) - 1
         /\ \A j \in 1..Len(e) : j # i => \E k \in 1..(Len(e) - 1) : RemoveAt(e, i)[k] = e[j]
         /\ \A k \in 1..(Len(e) - 1) : \E j \in 1..Len(e) : j # i /\ RemoveAt(e, i)[k] = e[j]
<1>1. e \in Seq(Entry) /\ Len(e) \in Nat
  BY EntriesAreTyped DEF InOrder
<1> DEFINE r == RemoveAt(e, i)
<1>2. /\ r \in Seq(Entry) /\ Len(r) = Len(e) - 1
      /\ \A j \in 1..(Len(e) - 1) : r[j] = IF j < i THEN e[j] ELSE e[j + 1]
  BY <1>1, RemoveAtFacts
<1> HIDE DEF r
<1>3. \A j, k \in 1..Len(e) : e[j].key = e[k].key => j = k
  BY DEF InOrder
<1>4. \A j, k \in 1..Len(e) : j < k => e[j].stamp > e[k].stamp
  BY DEF InOrder
<1>5. \A j \in 1..Len(e) : e[j].stamp <= t
  BY DEF InOrder
<1>6. ASSUME NEW j \in 1..Len(e), j # i
      PROVE  \E k \in 1..(Len(e) - 1) : r[k] = e[j]
  <2>1. CASE j < i
    <3>1. j \in 1..(Len(e) - 1)
      BY <1>1, <2>1
    <3> QED
      BY <1>2, <2>1, <3>1
  <2>2. CASE ~(j < i)
    <3>1. j - 1 \in 1..(Len(e) - 1) /\ ~(j - 1 < i) /\ (j - 1) + 1 = j
      BY <1>1, <1>6, <2>2
    <3> QED
      BY <1>2, <3>1
  <2> QED
    BY <2>1, <2>2
<1>7. \A k \in 1..(Len(e) - 1) :
        \E j \in 1..Len(e) : j # i /\ r[k] = e[j] /\ j = IF k < i THEN k ELSE k + 1
  BY <1>1, <1>2
<1>8. ASSUME NEW j \in 1..(Len(e) - 1), NEW k \in 1..(Len(e) - 1), j < k
      PROVE  r[j].key # r[k].key /\ r[j].stamp > r[k].stamp
  <2>1. PICK a \in 1..Len(e) : r[j] = e[a] /\ a = IF j < i THEN j ELSE j + 1
    BY <1>7
  <2>2. PICK b \in 1..Len(e) : r[k] = e[b] /\ b = IF k < i THEN k ELSE k + 1
    BY <1>7
  <2>3. a < b /\ a # b
    BY <1>1, <1>8, <2>1, <2>2
  <2> QED
    BY <1>3, <1>4, <2>1, <2>2, <2>3
<1>9. \A j, k \in 1..(Len(e) - 1) : r[j].key = r[k].key => j = k
  <2> SUFFICES ASSUME NEW j \in 1..(Len(e) - 1), NEW k \in 1..(Len(e) - 1), r[j].key = r[k].key
               PROVE  j = k
    OBVIOUS
  <2>1. ~(j < k) /\ ~(k < j)
    BY <1>8
  <2> QED
    BY <1>1, <2>1
<1>10. \A k \in 1..(Len(e) - 1) : r[k].stamp <= t
  BY <1>5, <1>7
<1>11. InOrder(r, t)
  BY <1>2, <1>8, <1>9, <1>10 DEF InOrder
<1> QED
  BY <1>2, <1>6, <1>7, <1>11 DEF r

\* A new entry goes in front of a list that has none for its query.
LEMMA PutFirst ==
  ASSUME NEW e, NEW t \in Nat, InOrder(e, t), NEW new \in Entry, new.stamp = t + 1,
         \A j \in 1..Len(e) : e[j].key # new.key
  PROVE  /\ InOrder(<<new>> \o e, t + 1)
         /\ Len(<<new>> \o e) = Len(e) + 1
         /\ (<<new>> \o e)[1] = new
         /\ \A j \in 1..Len(e) : (<<new>> \o e)[j + 1] = e[j]
<1>1. e \in Seq(Entry) /\ Len(e) \in Nat /\ \A j \in 1..Len(e) : e[j].stamp \in Nat
  BY EntriesAreTyped DEF InOrder
<1> DEFINE q == <<new>> \o e
<1>2. <<new>> \in Seq(Entry) /\ Len(<<new>>) = 1 /\ <<new>>[1] = new
  OBVIOUS
<1>3. /\ q \in Seq(Entry) /\ Len(q) = 1 + Len(e)
      /\ \A i \in 1..(1 + Len(e)) : q[i] = IF i <= 1 THEN <<new>>[i] ELSE e[i - 1]
  BY <1>1, <1>2, ConcatProperties
<1> HIDE DEF q
<1>4. q[1] = new
  BY <1>1, <1>2, <1>3
<1>5. \A j \in 1..Len(e) : q[j + 1] = e[j]
  <2> TAKE j \in 1..Len(e)
  <2>1. j + 1 \in 1..(1 + Len(e)) /\ ~(j + 1 <= 1) /\ (j + 1) - 1 = j
    BY <1>1
  <2> QED
    BY <1>3, <2>1
<1>6. \A j, k \in 1..Len(e) : e[j].key = e[k].key => j = k
  BY DEF InOrder
<1>7. \A j, k \in 1..Len(e) : j < k => e[j].stamp > e[k].stamp
  BY DEF InOrder
<1>8. \A j \in 1..Len(e) : e[j].stamp <= t
  BY DEF InOrder
<1>9. \A i \in 1..Len(q) : i = 1 \/ (i - 1 \in 1..Len(e) /\ q[i] = e[i - 1])
  <2> TAKE i \in 1..Len(q)
  <2>1. i = 1 \/ (i - 1 \in 1..Len(e) /\ (i - 1) + 1 = i)
    BY <1>1, <1>3
  <2> QED
    BY <1>5, <2>1
<1>10. ASSUME NEW j \in 1..Len(q), NEW k \in 1..Len(q), j < k
       PROVE  q[j].key # q[k].key /\ q[j].stamp > q[k].stamp
  <2>1. k - 1 \in 1..Len(e) /\ q[k] = e[k - 1]
    BY <1>1, <1>3, <1>9, <1>10
  <2>2. CASE j = 1
    <3>1. e[k - 1].stamp <= t /\ e[k - 1].stamp \in Nat /\ e[k - 1].key # new.key
      BY <1>1, <1>8, <2>1
    <3> QED
      BY <1>4, <2>1, <2>2, <3>1
  <2>3. CASE j # 1
    <3>1. j - 1 \in 1..Len(e) /\ q[j] = e[j - 1] /\ j - 1 < k - 1
      BY <1>1, <1>3, <1>9, <1>10, <2>3
    <3> QED
      BY <1>1, <1>6, <1>7, <2>1, <3>1
  <2> QED
    BY <2>2, <2>3
<1>11. \A j, k \in 1..Len(q) : q[j].key = q[k].key => j = k
  <2> SUFFICES ASSUME NEW j \in 1..Len(q), NEW k \in 1..Len(q), q[j].key = q[k].key
               PROVE  j = k
    OBVIOUS
  <2>1. ~(j < k) /\ ~(k < j)
    BY <1>10
  <2> QED
    BY <1>1, <1>3, <2>1
<1>12. \A i \in 1..Len(q) : q[i].stamp <= t + 1
  <2> TAKE i \in 1..Len(q)
  <2>1. CASE i = 1
    BY <1>4, <2>1
  <2>2. CASE i # 1
    <3>1. i - 1 \in 1..Len(e) /\ q[i] = e[i - 1]
      BY <1>9, <2>2
    <3>2. e[i - 1].stamp <= t /\ e[i - 1].stamp \in Nat
      BY <1>1, <1>8, <3>1
    <3> QED
      BY <3>1, <3>2
  <2> QED
    BY <2>1, <2>2
<1>13. InOrder(q, t + 1)
  BY <1>3, <1>10, <1>11, <1>12 DEF InOrder
<1> QED
  BY <1>1, <1>3, <1>4, <1>5, <1>13 DEF q

\* Trimming a list one too long brings it to its length and drops no pin, as long as
\* something in it is not pinned.
LEMMA TrimFacts ==
  ASSUME NEW e, NEW t, InOrder(e, t), Len(e) <= MaxEntries + 1,
         Len(e) <= MaxEntries \/ \E j \in 1..Len(e) : ~e[j].pinned
  PROVE  WellKept(Trim(e), t) /\ PinnedKeys(e) \subseteq PinnedKeys(Trim(e))
<1>1. e \in Seq(Entry) /\ Len(e) \in Nat /\ DOMAIN e = 1..Len(e) /\ MaxEntries \in Nat
  BY EntriesAreTyped, HistoryAssumption DEF InOrder
<1>2. CASE Len(e) <= MaxEntries
  <2>1. Trim(e) = e
    BY <1>2 DEF Trim
  <2> QED
    BY <1>2, <2>1 DEF WellKept
<1>3. CASE ~(Len(e) <= MaxEntries)
  <2> DEFINE loose == {j \in DOMAIN e : ~e[j].pinned}
  <2>1. loose # {} /\ loose \subseteq 0..Len(e)
    BY <1>1, <1>3
  <2>2. Max(loose) \in loose
    BY <1>1, <2>1, MaxOfSet
  <2>3. PICK i \in 1..Len(e) : i = Max(loose) /\ ~e[i].pinned
    BY <1>1, <2>2
  <2>4. Trim(e) = RemoveAt(e, i)
    BY <1>3, <2>1, <2>3 DEF Trim
  <2> DEFINE r == RemoveAt(e, i)
  <2>5. /\ InOrder(r, t) /\ Len(r) = Len(e) - 1
        /\ \A j \in 1..Len(e) : j # i => \E k \in 1..(Len(e) - 1) : r[k] = e[j]
    BY RemovedFacts
  <2> HIDE DEF r, loose
  <2>6. DOMAIN r = 1..(Len(e) - 1)
    BY <1>1, <2>5, EntriesAreTyped DEF InOrder
  <2>7. WellKept(r, t)
    BY <1>1, <2>5 DEF WellKept
  <2>8. PinnedKeys(e) \subseteq PinnedKeys(r)
    <3> SUFFICES ASSUME NEW j \in 1..Len(e), e[j].pinned
                 PROVE  e[j].key \in PinnedKeys(r)
      BY <1>1 DEF PinnedKeys
    <3>1. PICK k \in 1..(Len(e) - 1) : r[k] = e[j]
      BY <2>3, <2>5
    <3> QED
      BY <2>6, <3>1 DEF PinnedKeys
  <2> QED
    BY <2>4, <2>7, <2>8 DEF r
<1> QED
  BY <1>2, <1>3

\* A run puts its query first, once, and costs no pin: the earlier entry's goes to the
\* new one, and a list too long has an entry that is not pinned, the new one if no other.
LEMMA AddedFacts ==
  ASSUME NEW e, time \in Nat, WellKept(e, time), NEW q \in Keys
  PROVE  WellKept(Added(e, q), time + 1) /\ PinnedKeys(e) \subseteq PinnedKeys(Added(e, q))
<1>1. /\ Len(e) \in Nat /\ DOMAIN e = 1..Len(e) /\ InOrder(e, time) /\ MaxEntries \in Nat
      /\ Len(e) <= MaxEntries
      /\ \A j \in 1..Len(e) : e[j].pinned \in BOOLEAN /\ e[j].runs \in Nat
  BY EntriesAreTyped, HistoryAssumption DEF WellKept, InOrder
<1> DEFINE same == {j \in DOMAIN e : e[j].key = q}
<1>2. CASE same = {}
  <2> DEFINE new == [key |-> q, stamp |-> time + 1, runs |-> 1, pinned |-> FALSE]
             l == <<new>> \o e
  <2>1. Added(e, q) = Trim(l)
    BY <1>2 DEF Added
  <2>2. new \in Entry /\ new.stamp = time + 1 /\ new.key = q /\ ~new.pinned
    BY DEF Entry
  <2> HIDE DEF new
  <2>3. \A j \in 1..Len(e) : e[j].key # new.key
    BY <1>1, <1>2, <2>2
  <2>4. /\ InOrder(l, time + 1) /\ Len(l) = Len(e) + 1 /\ l[1] = new
        /\ \A j \in 1..Len(e) : l[j + 1] = e[j]
    BY <1>1, <2>2, <2>3, PutFirst
  <2> HIDE DEF l
  <2>5. 1 \in 1..Len(l) /\ ~l[1].pinned /\ Len(l) <= MaxEntries + 1 /\ DOMAIN l = 1..Len(l)
    BY <1>1, <2>2, <2>4, EntriesAreTyped DEF InOrder
  <2>6. WellKept(Trim(l), time + 1) /\ PinnedKeys(l) \subseteq PinnedKeys(Trim(l))
    BY <2>4, <2>5, TrimFacts
  <2>7. PinnedKeys(e) \subseteq PinnedKeys(l)
    <3> SUFFICES ASSUME NEW j \in 1..Len(e), e[j].pinned
                 PROVE  e[j].key \in PinnedKeys(l)
      BY <1>1 DEF PinnedKeys
    <3>1. j + 1 \in 1..Len(l) /\ l[j + 1] = e[j]
      BY <1>1, <2>4
    <3> QED
      BY <2>5, <3>1 DEF PinnedKeys
  <2> QED
    BY <2>1, <2>6, <2>7
<1>3. CASE same # {}
  <2>1. PICK m \in 1..Len(e) : m = Min(same) /\ e[m].key = q
    <3>1. same \subseteq Nat
      BY <1>1
    <3>2. Min(same) \in same
      BY <1>3, <3>1, MinOfSet
    <3> QED
      BY <1>1, <3>2
  <2> DEFINE new == [key |-> q, stamp |-> time + 1, runs |-> e[m].runs + 1, pinned |-> e[m].pinned]
             r == RemoveAt(e, m)
             l == <<new>> \o r
  <2>2. Added(e, q) = Trim(l)
    BY <1>1, <1>3, <2>1 DEF Added
  <2>3. new \in Entry /\ new.stamp = time + 1 /\ new.key = q /\ new.pinned = e[m].pinned
    BY <1>1 DEF Entry
  <2>4. /\ InOrder(r, time) /\ Len(r) = Len(e) - 1
        /\ \A j \in 1..Len(e) : j # m => \E k \in 1..(Len(e) - 1) : r[k] = e[j]
        /\ \A k \in 1..(Len(e) - 1) : \E j \in 1..Len(e) : j # m /\ r[k] = e[j]
    BY <1>1, RemovedFacts
  <2> HIDE DEF new, r
  <2>5. \A j \in 1..Len(e) : j # m => e[j].key # q
    BY <1>1, <2>1 DEF InOrder
  <2>6. ASSUME NEW k \in 1..Len(r) PROVE r[k].key # new.key
    <3>1. k \in 1..(Len(e) - 1)
      BY <2>4
    <3>2. PICK j \in 1..Len(e) : j # m /\ r[k] = e[j]
      BY <2>4, <3>1
    <3> QED
      BY <2>3, <2>5, <3>2
  <2>7. /\ InOrder(l, time + 1) /\ Len(l) = Len(r) + 1 /\ l[1] = new
        /\ \A j \in 1..Len(r) : l[j + 1] = r[j]
    <3>1. time \in Nat
      BY <1>1
    <3> QED
      BY <2>3, <2>4, <2>6, <3>1, PutFirst, ZenonT(60)
  <2> HIDE DEF l
  <2>8. Len(l) <= MaxEntries /\ Len(l) <= MaxEntries + 1 /\ DOMAIN l = 1..Len(l) /\ Len(l) = Len(e)
    BY <1>1, <2>4, <2>7, EntriesAreTyped DEF InOrder
  <2>9. WellKept(Trim(l), time + 1) /\ PinnedKeys(l) \subseteq PinnedKeys(Trim(l))
    BY <2>7, <2>8, TrimFacts
  <2>10. PinnedKeys(e) \subseteq PinnedKeys(l)
    <3> SUFFICES ASSUME NEW j \in 1..Len(e), e[j].pinned
                 PROVE  e[j].key \in PinnedKeys(l)
      BY <1>1 DEF PinnedKeys
    <3>1. CASE j = m
      <4>1. 1 \in DOMAIN l /\ l[1].pinned /\ l[1].key = e[j].key
        BY <1>1, <2>1, <2>3, <2>7, <2>8, <3>1
      <4> QED
        BY <4>1 DEF PinnedKeys
    <3>2. CASE j # m
      <4>1. PICK k \in 1..(Len(e) - 1) : r[k] = e[j]
        BY <2>4, <3>2
      <4>2. k + 1 \in DOMAIN l /\ l[k + 1] = e[j]
        <5>1. Len(r) = Len(e) - 1 /\ Len(e) \in Nat /\ DOMAIN l = 1..Len(e)
          BY <1>1, <2>4, <2>8
        <5>2. k + 1 \in 1..Len(e) /\ k \in 1..Len(r)
          BY <5>1
        <5>3. l[k + 1] = r[k]
          BY <2>7, <5>2
        <5> QED
          BY <4>1, <5>1, <5>2, <5>3
      <4> QED
        BY <4>2 DEF PinnedKeys
    <3> QED
      BY <3>1, <3>2
  <2> QED
    BY <2>2, <2>9, <2>10
<1> QED
  BY <1>2, <1>3

\* Pinning changes nothing a list is ordered by.
LEMMA PinnedIsKept ==
  ASSUME NEW e, NEW t, WellKept(e, t), NEW m \in 1..Len(e)
  PROVE  WellKept([e EXCEPT ![m].pinned = ~@], t)
<1>1. /\ e \in Seq(Entry) /\ Len(e) \in Nat /\ DOMAIN e = 1..Len(e)
      /\ \A j \in 1..Len(e) : e[j] \in Entry
  BY EntriesAreTyped DEF WellKept, InOrder
<1> DEFINE x == [e[m] EXCEPT !.pinned = ~@]
           q == [e EXCEPT ![m] = x]
<1>2. x \in Entry /\ x.key = e[m].key /\ x.stamp = e[m].stamp
  BY <1>1 DEF Entry
<1>3. [e EXCEPT ![m].pinned = ~@] = q
  BY <1>1
<1> HIDE DEF x
<1>4. q \in Seq(Entry) /\ Len(q) = Len(e) /\ \A j \in 1..Len(e) : q[j] = IF j = m THEN x ELSE e[j]
  BY <1>1, <1>2, ExceptSeq
<1> HIDE DEF q
<1>5. \A j \in 1..Len(e) : q[j].key = e[j].key /\ q[j].stamp = e[j].stamp
  BY <1>2, <1>4
<1>6. InOrder(q, t)
  BY <1>4, <1>5 DEF InOrder, WellKept
<1> QED
  BY <1>3, <1>4, <1>6 DEF WellKept
-----------------------------------------------------------------------------
LEMMA InitKept == Init => HistoryKept
<1> SUFFICES ASSUME Init PROVE HistoryKept
  OBVIOUS
<1>1. WellKept(<<>>, 0) /\ MaxEntries \in Nat
  BY EmptyIsKept, HistoryAssumption
<1>2. RowIsListed
  BY DEF Init, RowIsListed
<1> QED
  BY <1>1, <1>2 DEF Init, HistoryKept

\* A change of the list of instance i that leaves it well formed.
LEMMA ChangeKeeps ==
  ASSUME HistoryKept, NEW i \in Instances, NEW e,
         time' \in Nat, WellKept(e, time'), \A f : WellKept(f, time) => WellKept(f, time'),
         Change(i, e), UNCHANGED <<up, pinnedOnly>>
  PROVE  HistoryKept'
<1>1. /\ entries' = [entries EXCEPT ![i] = e] /\ file' \in {e, file}
      /\ row' = [row EXCEPT ![i] = Rebuilt(e, pinnedOnly[i], @)]
  BY DEF Change, Save
<1>2. e \in Seq(Entry) /\ Len(e) <= MaxEntries /\ Len(e) \in Nat /\ MaxEntries \in Nat
  BY EntriesAreTyped, HistoryAssumption DEF WellKept, InOrder
<1>3. /\ Rebuilt(e, pinnedOnly[i], row[i]) \in Rows(e, pinnedOnly[i])
         \/ (Rebuilt(e, pinnedOnly[i], row[i]) = 0 /\ Rows(e, pinnedOnly[i]) = {})
      /\ Rebuilt(e, pinnedOnly[i], row[i]) \in 0..Len(e)
  BY <1>2, RebuiltIsListed
<1>4. DOMAIN entries = Instances /\ row \in [Instances -> 0..MaxEntries]
  BY DEF HistoryKept
<1>5. \A j \in Instances : entries'[j] = IF j = i THEN e ELSE entries[j]
  BY <1>1, <1>4
<1>6. \A j \in Instances : row'[j] = IF j = i THEN Rebuilt(e, pinnedOnly[i], row[i]) ELSE row[j]
  BY <1>1, <1>4
<1>7. DOMAIN entries' = Instances /\ entries' = [j \in Instances |-> entries'[j]]
  BY <1>1, <1>4
<1>8. \A j \in Instances : WellKept(entries'[j], time')
  BY <1>5 DEF HistoryKept
<1>9. WellKept(file', time')
  BY <1>1 DEF HistoryKept
<1>10. Rebuilt(e, pinnedOnly[i], row[i]) \in 0..MaxEntries
  BY <1>2, <1>3
<1>11. row' \in [Instances -> 0..MaxEntries]
  BY <1>1, <1>4, <1>10
<1>12. RowIsListed'
  <2> SUFFICES ASSUME NEW j \in up
               PROVE  row'[j] \in Rows(entries'[j], pinnedOnly[j])
                      \/ (row'[j] = 0 /\ Rows(entries'[j], pinnedOnly[j]) = {})
    BY DEF RowIsListed
  <2>1. j \in Instances
    BY DEF HistoryKept
  <2>2. CASE j = i
    BY <1>3, <1>5, <1>6, <2>1, <2>2
  <2>3. CASE j # i
    <3>1. row'[j] = row[j] /\ entries'[j] = entries[j]
      BY <1>5, <1>6, <2>1, <2>3
    <3> QED
      BY <3>1 DEF HistoryKept, RowIsListed
  <2> QED
    BY <2>2, <2>3
<1> QED
  BY <1>7, <1>8, <1>9, <1>11, <1>12 DEF HistoryKept

LEMMA NextKept == HistoryKept /\ [Next]_vars => HistoryKept'
<1> SUFFICES ASSUME HistoryKept, [Next]_vars PROVE HistoryKept'
  OBVIOUS
<1>1. /\ up \subseteq Instances /\ time \in Nat /\ DOMAIN entries = Instances
      /\ row \in [Instances -> 0..MaxEntries] /\ pinnedOnly \in [Instances -> BOOLEAN]
      /\ WellKept(file, time) /\ MaxEntries \in Nat
  BY HistoryAssumption DEF HistoryKept
<1>2. \A i \in Instances : /\ WellKept(entries[i], time) /\ entries[i] \in Seq(Entry)
                           /\ DOMAIN entries[i] = 1..Len(entries[i]) /\ Len(entries[i]) \in Nat
  BY EntriesAreTyped DEF HistoryKept, WellKept, InOrder
<1>3. CASE UNCHANGED vars
  <2>1. UNCHANGED <<up, entries, file, row, pinnedOnly, time>>
    BY <1>3 DEF vars
  <2>2. UNCHANGED RowIsListed
    BY <2>1, Zenon DEF RowIsListed
  <2> QED
    BY <2>1, <2>2 DEF HistoryKept
<1>4. ASSUME NEW i \in Instances, Start(i)
      PROVE  HistoryKept'
  <2>1. /\ i \notin up /\ up' = up \cup {i} /\ entries' = [entries EXCEPT ![i] = file]
        /\ pinnedOnly' = [pinnedOnly EXCEPT ![i] = FALSE]
        /\ row' = [row EXCEPT ![i] = Rebuilt(file, FALSE, 0)]
        /\ UNCHANGED <<file, time>>
    BY <1>4 DEF Start
  <2>2. file \in Seq(Entry) /\ Len(file) <= MaxEntries /\ Len(file) \in Nat
    BY <1>1, EntriesAreTyped DEF WellKept, InOrder
  <2>3. /\ Rebuilt(file, FALSE, 0) \in Rows(file, FALSE)
           \/ (Rebuilt(file, FALSE, 0) = 0 /\ Rows(file, FALSE) = {})
        /\ Rebuilt(file, FALSE, 0) \in 0..MaxEntries
    <3> PICK r : r = Rebuilt(file, FALSE, 0)
      OBVIOUS
    <3>1. r \in Rows(file, FALSE) \/ (r = 0 /\ Rows(file, FALSE) = {})
      BY <2>2, RebuiltIsListed
    <3>2. r \in 0..Len(file)
      BY <2>2, RebuiltIsListed
    <3>3. \A n, m \in Nat : n <= m => 0..n \subseteq 0..m
      OBVIOUS
    <3>4. 0..Len(file) \subseteq 0..MaxEntries
      BY <1>1, <2>2, <3>3
    <3>5. r \in 0..MaxEntries
      BY <3>2, <3>4
    <3> QED
      BY <3>1, <3>5
  <2>4. \A j \in Instances : /\ entries'[j] = IF j = i THEN file ELSE entries[j]
                             /\ row'[j] = IF j = i THEN Rebuilt(file, FALSE, 0) ELSE row[j]
                             /\ pinnedOnly'[j] = IF j = i THEN FALSE ELSE pinnedOnly[j]
    BY <1>1, <2>1
  <2>5. RowIsListed'
    <3> SUFFICES ASSUME NEW j \in up'
                 PROVE  row'[j] \in Rows(entries'[j], pinnedOnly'[j])
                        \/ (row'[j] = 0 /\ Rows(entries'[j], pinnedOnly'[j]) = {})
      BY DEF RowIsListed
    <3>1. CASE j = i
      BY <2>3, <2>4, <3>1
    <3>2. CASE j # i
      <4>1. j \in up /\ j \in Instances
        BY <1>1, <2>1, <3>2
      <4>2. row'[j] = row[j] /\ entries'[j] = entries[j] /\ pinnedOnly'[j] = pinnedOnly[j]
        BY <2>4, <3>2, <4>1
      <4> QED
        BY <4>1, <4>2 DEF HistoryKept, RowIsListed
    <3> QED
      BY <3>1, <3>2
  <2>6. \A j \in Instances : WellKept(entries'[j], time')
    BY <1>1, <1>2, <2>1, <2>4
  <2>7. DOMAIN entries' = Instances /\ entries' = [j \in Instances |-> entries'[j]]
    BY <1>1, <2>1
  <2>8. up' \subseteq Instances /\ row' \in [Instances -> 0..MaxEntries]
        /\ pinnedOnly' \in [Instances -> BOOLEAN]
    BY <1>1, <2>1, <2>3
  <2> QED
    BY <1>1, <2>1, <2>5, <2>6, <2>7, <2>8 DEF HistoryKept
<1>5. ASSUME NEW i \in Instances, Exit(i)
      PROVE  HistoryKept'
  <2>1. /\ up' = up \ {i} /\ entries' = [entries EXCEPT ![i] = <<>>]
        /\ row' = [row EXCEPT ![i] = 0] /\ UNCHANGED <<file, pinnedOnly, time>>
    BY <1>5 DEF Exit
  <2>2. \A j \in Instances : /\ entries'[j] = IF j = i THEN <<>> ELSE entries[j]
                             /\ row'[j] = IF j = i THEN 0 ELSE row[j]
    BY <1>1, <2>1
  <2>3. RowIsListed'
    <3> SUFFICES ASSUME NEW j \in up'
                 PROVE  row'[j] \in Rows(entries'[j], pinnedOnly[j])
                        \/ (row'[j] = 0 /\ Rows(entries'[j], pinnedOnly[j]) = {})
      BY <2>1 DEF RowIsListed
    <3>1. j \in up /\ j \in Instances /\ j # i
      BY <1>1, <2>1
    <3>2. row'[j] = row[j] /\ entries'[j] = entries[j]
      BY <2>2, <3>1
    <3> QED
      BY <3>1, <3>2 DEF HistoryKept, RowIsListed
  <2>4. WellKept(<<>>, time)
    BY <1>1, EmptyIsKept
  <2>5. \A j \in Instances : WellKept(entries'[j], time')
    BY <1>2, <2>1, <2>2, <2>4
  <2>6. DOMAIN entries' = Instances /\ entries' = [j \in Instances |-> entries'[j]]
    BY <1>1, <2>1
  <2>7. up' \subseteq Instances /\ row' \in [Instances -> 0..MaxEntries]
    BY <1>1, <2>1
  <2> QED
    BY <1>1, <2>1, <2>3, <2>5, <2>6, <2>7 DEF HistoryKept
<1>6. ASSUME NEW i \in Instances, Clear(i)
      PROVE  HistoryKept'
  <2>1. Change(i, <<>>) /\ UNCHANGED <<up, pinnedOnly, time>> /\ WellKept(<<>>, time)
    BY <1>1, <1>6, EmptyIsKept DEF Clear
  <2> QED
    BY <1>1, <2>1, ChangeKeeps
<1>7. ASSUME NEW i \in Instances, DeleteSelected(i)
      PROVE  HistoryKept'
  <2>1. /\ Change(i, RemoveAt(entries[i], row[i])) /\ UNCHANGED <<up, pinnedOnly, time>>
        /\ row[i] \in 1..Len(entries[i])
    BY <1>2, <1>7 DEF DeleteSelected
  <2>2. WellKept(RemoveAt(entries[i], row[i]), time)
    <3>1. InOrder(entries[i], time) /\ Len(entries[i]) <= MaxEntries
      BY <1>2 DEF WellKept
    <3>2. InOrder(RemoveAt(entries[i], row[i]), time)
          /\ Len(RemoveAt(entries[i], row[i])) = Len(entries[i]) - 1
      BY <2>1, <3>1, RemovedFacts
    <3> QED
      BY <1>1, <1>2, <3>1, <3>2 DEF WellKept
  <2> QED
    BY <1>1, <2>1, <2>2, ChangeKeeps
<1>8. ASSUME NEW i \in Instances, PinSelected(i)
      PROVE  HistoryKept'
  <2>1. /\ Change(i, [entries[i] EXCEPT ![row[i]].pinned = ~@]) /\ UNCHANGED <<up, pinnedOnly, time>>
        /\ row[i] \in 1..Len(entries[i])
    BY <1>2, <1>8 DEF PinSelected
  <2>2. WellKept([entries[i] EXCEPT ![row[i]].pinned = ~@], time)
    BY <1>2, <2>1, PinnedIsKept
  <2> QED
    BY <1>1, <2>1, <2>2, ChangeKeeps
<1>9. ASSUME NEW i \in Instances, SetFilter(i)
      PROVE  HistoryKept'
  <2>1. /\ pinnedOnly' = [pinnedOnly EXCEPT ![i] = ~@]
        /\ row' = [row EXCEPT ![i] = Rebuilt(entries[i], pinnedOnly'[i], @)]
        /\ UNCHANGED <<up, entries, file, time>>
    BY <1>9 DEF SetFilter
  <2> DEFINE r == Rebuilt(entries[i], pinnedOnly'[i], row[i])
  <2>2. /\ r \in Rows(entries[i], pinnedOnly'[i]) \/ (r = 0 /\ Rows(entries[i], pinnedOnly'[i]) = {})
        /\ r \in 0..MaxEntries
    <3>1. entries[i] \in Seq(Entry) /\ Len(entries[i]) <= MaxEntries /\ Len(entries[i]) \in Nat
      BY <1>2 DEF WellKept
    <3>2. /\ r \in Rows(entries[i], pinnedOnly'[i]) \/ (r = 0 /\ Rows(entries[i], pinnedOnly'[i]) = {})
          /\ r \in 0..Len(entries[i])
      BY <3>1, RebuiltIsListed
    <3> HIDE DEF r
    <3> QED
      BY <1>1, <3>1, <3>2
  <2> HIDE DEF r
  <2>3. row' = [row EXCEPT ![i] = r]
    BY <2>1 DEF r
  <2>4. \A j \in Instances : row'[j] = IF j = i THEN r ELSE row[j]
    BY <1>1, <2>3
  <2>5. \A j \in Instances : j # i => pinnedOnly'[j] = pinnedOnly[j]
    BY <1>1, <2>1
  <2>6. RowIsListed'
    <3> SUFFICES ASSUME NEW j \in up
                 PROVE  row'[j] \in Rows(entries[j], pinnedOnly'[j])
                        \/ (row'[j] = 0 /\ Rows(entries[j], pinnedOnly'[j]) = {})
      BY <2>1 DEF RowIsListed
    <3>1. CASE j = i
      BY <2>2, <2>4, <3>1
    <3>2. CASE j # i
      <4>1. j \in Instances /\ row'[j] = row[j] /\ pinnedOnly'[j] = pinnedOnly[j]
        BY <1>1, <2>4, <2>5, <3>2
      <4> QED
        BY <4>1 DEF HistoryKept, RowIsListed
    <3> QED
      BY <3>1, <3>2
  <2>7. row' \in [Instances -> 0..MaxEntries] /\ pinnedOnly' \in [Instances -> BOOLEAN]
    BY <1>1, <2>1, <2>2, <2>3
  <2>8. \A j \in Instances : WellKept(entries'[j], time')
    BY <1>2, <2>1
  <2>9. DOMAIN entries' = Instances /\ entries' = [j \in Instances |-> entries'[j]]
    BY <2>1 DEF HistoryKept
  <2> QED
    BY <1>1, <2>1, <2>6, <2>7, <2>8, <2>9 DEF HistoryKept
<1>10. ASSUME NEW i \in Instances, NEW q \in Keys, Add(i, q)
       PROVE  HistoryKept'
  <2>1. /\ time' = time + 1 /\ UNCHANGED <<up, pinnedOnly>>
        /\ Change(i, Added(entries[i], q)) \/ UNCHANGED <<file, entries, row>>
    BY <1>10 DEF Add
  <2>2. WellKept(Added(entries[i], q), time')
    BY <1>1, <1>2, <2>1, AddedFacts
  <2>3. \A f : WellKept(f, time) => WellKept(f, time')
    BY <1>1, <2>1, KeptLater
  <2>4. time' \in Nat
    BY <1>1, <2>1
  <2>5. CASE Change(i, Added(entries[i], q))
    BY <2>1, <2>2, <2>3, <2>4, <2>5, ChangeKeeps
  <2>6. CASE UNCHANGED <<file, entries, row>>
    BY <2>1, <2>3, <2>4, <2>6 DEF HistoryKept, RowIsListed
  <2> QED
    BY <2>1, <2>5, <2>6
<1>11. ASSUME NEW i \in Instances, NEW m \in 1..MaxEntries, Select(i, m)
       PROVE  HistoryKept'
  <2>1. /\ m \in Rows(entries[i], pinnedOnly[i]) /\ row' = [row EXCEPT ![i] = m]
        /\ UNCHANGED <<up, entries, file, pinnedOnly, time>>
    BY <1>11 DEF Select
  <2>2. \A j \in Instances : row'[j] = IF j = i THEN m ELSE row[j]
    BY <1>1, <2>1
  <2>3. RowIsListed'
    <3> SUFFICES ASSUME NEW j \in up
                 PROVE  row'[j] \in Rows(entries[j], pinnedOnly[j])
                        \/ (row'[j] = 0 /\ Rows(entries[j], pinnedOnly[j]) = {})
      BY <2>1 DEF RowIsListed
    <3>1. j \in Instances
      BY <1>1
    <3>2. j = i \/ row'[j] = row[j]
      BY <2>2, <3>1
    <3> QED
      BY <2>1, <2>2, <3>1, <3>2 DEF HistoryKept, RowIsListed
  <2>4. row' \in [Instances -> 0..MaxEntries]
    BY <1>1, <2>1
  <2>5. \A j \in Instances : WellKept(entries'[j], time')
    BY <1>2, <2>1
  <2>6. DOMAIN entries' = Instances /\ entries' = [j \in Instances |-> entries'[j]]
    BY <2>1 DEF HistoryKept
  <2> QED
    BY <1>1, <2>1, <2>3, <2>4, <2>5, <2>6 DEF HistoryKept
<1> QED
  BY <1>3, <1>4, <1>5, <1>6, <1>7, <1>8, <1>9, <1>10, <1>11 DEF Next

LEMMA KeptIsSound == HistoryKept => HistoryIsSound
<1> SUFFICES ASSUME HistoryKept PROVE HistoryIsSound
  OBVIOUS
<1>1. \A i \in Instances : /\ entries[i] \in Seq(Entry) /\ Len(entries[i]) <= MaxEntries
                           /\ DOMAIN entries[i] = 1..Len(entries[i])
  BY EntriesAreTyped DEF HistoryKept, WellKept, InOrder
<1>2. entries \in [Instances -> Seq(Entry)]
  BY <1>1 DEF HistoryKept
<1>3. TypeOK
  BY <1>1, <1>2 DEF TypeOK, HistoryKept, WellKept, InOrder
<1>4. OneEntryPerKey
  <2>1. \A i \in Instances : \A j, k \in 1..Len(entries[i]) :
          entries[i][j].key = entries[i][k].key => j = k
    BY DEF HistoryKept, WellKept, InOrder
  <2> QED
    BY <1>1, <2>1 DEF OneEntryPerKey
<1>5. NewestFirst
  <2>1. \A i \in Instances : \A j, k \in 1..Len(entries[i]) :
          j < k => entries[i][j].stamp > entries[i][k].stamp
    BY DEF HistoryKept, WellKept, InOrder
  <2> QED
    BY <1>1, <2>1 DEF NewestFirst
<1> QED
  BY <1>3, <1>4, <1>5 DEF HistoryIsSound, HistoryKept

\* QueryHistory.cpp and QueryHistoryTab.cpp: through runs, deletions, pins, filters,
\* failed saves and restarts of any number of instances that overwrite each other's
\* file, every list holds a query once, newest first, within MaxEntries, and the tab's
\* current row is an entry its filter shows.
THEOREM HistoryIsWellKept == Spec => []HistoryIsSound
<1> QED
  BY InitKept, NextKept, KeptIsSound, PTL DEF Spec

LEMMA AddKeepsPins ==
  HistoryKept /\ [Next]_vars =>
    [time' # time => \A i \in Instances : PinnedKeys(entries[i]) \subseteq PinnedKeys(entries'[i])]_vars
<1> SUFFICES ASSUME HistoryKept, Next, time' # time, NEW j \in Instances
             PROVE  PinnedKeys(entries[j]) \subseteq PinnedKeys(entries'[j])
  OBVIOUS
<1>1. PICK i \in Instances, q \in Keys : Add(i, q)
  BY DEF Next, Start, Exit, Clear, DeleteSelected, PinSelected, SetFilter, Select
<1>2. entries' = [entries EXCEPT ![i] = Added(entries[i], q)] \/ entries' = entries
  BY <1>1 DEF Add, Change
<1>3. WellKept(entries[i], time) /\ time \in Nat /\ DOMAIN entries = Instances
  BY DEF HistoryKept
<1>4. entries'[j] = (IF j = i THEN Added(entries[i], q) ELSE entries[j]) \/ entries'[j] = entries[j]
  BY <1>2, <1>3
<1>5. PinnedKeys(entries[i]) \subseteq PinnedKeys(Added(entries[i], q))
  BY <1>3, AddedFacts
<1> QED
  BY <1>4, <1>5

\* QueryHistory.cpp:183: recording a run never costs a pinned query its pin, whatever
\* the cap and however many entries are pinned.
THEOREM RunsKeepPins == Spec => PinsSurviveRuns
<1> QED
  BY InitKept, NextKept, AddKeepsPins, PTL DEF Spec, PinsSurviveRuns

-----------------------------------------------------------------------------
(* The options.                                                            *)

\* A server whose engine is still to be started keeps the timeout it was made with, and it
\* is the current one unless the server missed a change: that is what makes the engine
\* follow the setting when it is started at last.
MadeWithTheSetting ==
  \A i \in DOMAIN listed :
    running /\ ~listed[i].null /\ ~listed[i].missed /\ listed[i].engine = NoEngine =>
      listed[i].made = setting.timeout

OptionsKept == OptionsAreSound /\ MadeWithTheSetting

LEMMA OptionsFacts ==
  ASSUME OptionsKept
  PROVE  /\ listed \in Seq(Server) /\ Len(listed) \in Nat /\ DOMAIN listed = 1..Len(listed)
         /\ \A i \in 1..Len(listed) :
              /\ listed[i] \in Server /\ listed[i].null \in BOOLEAN /\ listed[i].missed \in BOOLEAN
              /\ listed[i].made \in Timeouts /\ listed[i].engine \in Timeouts \cup {NoEngine}
         /\ setting \in Settings /\ setting.mode \in Modes /\ setting.off \in BOOLEAN
         /\ setting.timeout \in Timeouts
         /\ marks \in [mode : Modes, off : BOOLEAN] /\ marks.mode \in Modes /\ marks.off \in BOOLEAN
         /\ changes \in Nat /\ MaxServers \in Nat /\ MaxChanges \in Nat
         /\ NoEngine \notin Timeouts
<1>1. listed \in Seq(Server) /\ setting \in Settings /\ marks \in [mode : Modes, off : BOOLEAN]
      /\ changes \in 0..MaxChanges
  BY DEF OptionsKept, OptionsAreSound, OptionsTypeOK
<1>2. Len(listed) \in Nat /\ DOMAIN listed = 1..Len(listed)
      /\ \A i \in 1..Len(listed) : listed[i] \in Server
  BY <1>1, LenProperties, ElementOfSeq
<1>3. \A i \in 1..Len(listed) :
        /\ listed[i].null \in BOOLEAN /\ listed[i].missed \in BOOLEAN
        /\ listed[i].made \in Timeouts /\ listed[i].engine \in Timeouts \cup {NoEngine}
  BY <1>2 DEF Server
<1>4. setting.mode \in Modes /\ setting.off \in BOOLEAN /\ setting.timeout \in Timeouts
  BY <1>1 DEF Settings
<1>5. marks.mode \in Modes /\ marks.off \in BOOLEAN
  BY <1>1
<1>6. MaxServers \in Nat /\ MaxChanges \in Nat /\ changes \in Nat /\ NoEngine \notin Timeouts
  BY <1>1, OptionsAssumption
<1> QED
  BY <1>1, <1>2, <1>3, <1>4, <1>5, <1>6

LEMMA OptionsInitKept == OptionsInit => OptionsKept
<1> SUFFICES ASSUME OptionsInit PROVE OptionsKept
  OBVIOUS
<1>1. /\ setting \in Settings /\ setting.off = FALSE /\ saved = setting
      /\ marks = [mode |-> setting.mode, off |-> setting.off] /\ shortcuts = TRUE
      /\ listed = <<>> /\ running = TRUE /\ changes = 0 /\ elsewhere = FALSE
  BY DEF OptionsInit, Shown
<1>2. marks \in [mode : Modes, off : BOOLEAN]
  BY <1>1 DEF Settings
<1>3. listed \in Seq(Server) /\ Len(listed) = 0 /\ DOMAIN listed = {}
  BY <1>1, EmptySeq
<1>a. 0 \in 0..MaxChanges /\ Len(listed) <= MaxServers /\ changes \in 0..MaxChanges
  BY <1>1, <1>3, OptionsAssumption
<1>b. shortcuts \in BOOLEAN /\ running \in BOOLEAN /\ elsewhere \in BOOLEAN /\ saved \in Settings
  BY <1>1
<1>4. OptionsTypeOK
  BY <1>1, <1>2, <1>3, <1>a, <1>b DEF OptionsTypeOK
<1> QED
  BY <1>1, <1>3, <1>4 DEF OptionsKept, OptionsAreSound, EnginesFollowTheSetting, MenuTellsSettings,
                          MadeWithTheSetting, Shown

\* A choice that leaves the servers and the timeout alone, and the menu true if nothing
\* else was ever used.
LEMMA ChoiceKeeps ==
  ASSUME OptionsKept, running, changes' \in 0..MaxChanges, UNCHANGED <<listed, running>>,
         setting' \in Settings, setting'.timeout = setting.timeout, saved' = setting',
         marks' \in [mode : Modes, off : BOOLEAN], shortcuts' \in BOOLEAN, elsewhere' \in BOOLEAN,
         ~elsewhere' => /\ marks' = [mode |-> setting'.mode, off |-> setting'.off]
                        /\ shortcuts' = ~setting'.off
  PROVE  OptionsKept'
<1>1. OptionsTypeOK'
  BY DEF OptionsKept, OptionsAreSound, OptionsTypeOK
<1>2. EnginesFollowTheSetting' /\ MadeWithTheSetting'
  BY DEF OptionsKept, OptionsAreSound, EnginesFollowTheSetting, MadeWithTheSetting
<1>3. MenuTellsSettings'
  BY DEF MenuTellsSettings, Shown
<1> QED
  BY <1>1, <1>2, <1>3 DEF OptionsKept, OptionsAreSound

\* A change of the list of servers alone.
LEMMA ListKeeps ==
  ASSUME OptionsKept, UNCHANGED <<setting, saved, marks, shortcuts, running, changes, elsewhere>>,
         listed' \in Seq(Server), Len(listed') <= MaxServers,
         \A i \in DOMAIN listed' :
           ~listed'[i].null /\ ~listed'[i].missed =>
             IF listed'[i].engine = NoEngine THEN listed'[i].made = setting.timeout
             ELSE listed'[i].engine = setting.timeout
  PROVE  OptionsKept'
<1>1. OptionsTypeOK'
  BY DEF OptionsKept, OptionsAreSound, OptionsTypeOK
<1>2. EnginesFollowTheSetting' /\ MadeWithTheSetting'
  BY DEF EnginesFollowTheSetting, MadeWithTheSetting
<1>3. MenuTellsSettings'
  BY DEF OptionsKept, OptionsAreSound, MenuTellsSettings, Shown
<1> QED
  BY <1>1, <1>2, <1>3 DEF OptionsKept, OptionsAreSound

\* Both say the same of a server at a time.
LEMMA EveryEngine ==
  ASSUME OptionsKept, running
  PROVE  \A i \in 1..Len(listed) :
           ~listed[i].null /\ ~listed[i].missed =>
             IF listed[i].engine = NoEngine THEN listed[i].made = setting.timeout
             ELSE listed[i].engine = setting.timeout
<1>1. DOMAIN listed = 1..Len(listed)
  BY OptionsFacts
<1> QED
  BY <1>1 DEF OptionsKept, OptionsAreSound, EnginesFollowTheSetting, MadeWithTheSetting

LEMMA OptionsNextKept == OptionsKept /\ [OptionsNext]_optionVars => OptionsKept'
<1> SUFFICES ASSUME OptionsKept, [OptionsNext]_optionVars PROVE OptionsKept'
  OBVIOUS
<1>1. /\ listed \in Seq(Server) /\ Len(listed) \in Nat /\ DOMAIN listed = 1..Len(listed)
      /\ \A i \in 1..Len(listed) : listed[i] \in Server
      /\ setting \in Settings /\ setting.mode \in Modes /\ setting.off \in BOOLEAN
      /\ setting.timeout \in Timeouts
      /\ marks \in [mode : Modes, off : BOOLEAN] /\ marks.mode \in Modes /\ marks.off \in BOOLEAN
      /\ changes \in Nat /\ MaxServers \in Nat /\ MaxChanges \in Nat /\ NoEngine \notin Timeouts
  BY OptionsFacts
<1>2. /\ saved = setting /\ shortcuts \in BOOLEAN /\ elsewhere \in BOOLEAN /\ running \in BOOLEAN
      /\ Len(listed) <= MaxServers
      /\ running /\ ~elsewhere => marks = [mode |-> setting.mode, off |-> setting.off]
                                  /\ shortcuts = ~setting.off
  BY DEF OptionsKept, OptionsAreSound, OptionsTypeOK, MenuTellsSettings, Shown
<1>3. ChangeSetting => running /\ changes' \in 0..MaxChanges
  BY <1>1 DEF ChangeSetting
<1>4. running => \A i \in 1..Len(listed) :
           ~listed[i].null /\ ~listed[i].missed =>
             IF listed[i].engine = NoEngine THEN listed[i].made = setting.timeout
             ELSE listed[i].engine = setting.timeout
  BY EveryEngine
<1>5. Started \in Server /\ ~Started.null /\ Started.made = setting.timeout /\ Started.engine = NoEngine
  BY <1>1 DEF Started, Server
<1>6. ASSUME NEW m \in Modes, ChooseMode(m)
      PROVE  OptionsKept'
  <2>1. /\ running /\ changes' \in 0..MaxChanges /\ UNCHANGED <<listed, running, shortcuts, elsewhere>>
        /\ setting' = [setting EXCEPT !.mode = m] /\ saved' = setting'
        /\ marks' = [marks EXCEPT !.mode = m]
    BY <1>3, <1>6 DEF ChooseMode
  <2>2. /\ setting' \in Settings /\ setting'.timeout = setting.timeout
        /\ setting'.mode = m /\ setting'.off = setting.off
    BY <1>1, <2>1 DEF Settings
  <2>3. marks' \in [mode : Modes, off : BOOLEAN] /\ marks' = [mode |-> m, off |-> marks.off]
    BY <1>1, <2>1
  <2>4. ~elsewhere => marks.off = setting.off /\ shortcuts = ~setting.off
    BY <1>2, <2>1
  <2>5. ~elsewhere' => /\ marks' = [mode |-> setting'.mode, off |-> setting'.off]
                       /\ shortcuts' = ~setting'.off
    BY <2>1, <2>2, <2>3, <2>4
  <2>6. shortcuts' \in BOOLEAN /\ elsewhere' \in BOOLEAN
    BY <1>2, <2>1
  <2> QED
    BY <2>1, <2>2, <2>3, <2>5, <2>6, ChoiceKeeps
<1>7. CASE Toggle
  <2>1. /\ running /\ changes' \in 0..MaxChanges /\ UNCHANGED <<listed, running, elsewhere>>
        /\ marks' = [marks EXCEPT !.off = ~marks.off]
        /\ setting' = [setting EXCEPT !.off = marks'.off] /\ saved' = setting'
        /\ shortcuts' = ~setting'.off
    BY <1>3, <1>7 DEF Toggle
  <2>2. /\ marks' \in [mode : Modes, off : BOOLEAN] /\ marks'.off \in BOOLEAN
        /\ marks' = [mode |-> marks.mode, off |-> marks'.off]
    BY <1>1, <2>1
  <2>3. /\ setting' \in Settings /\ setting'.timeout = setting.timeout
        /\ setting'.off = marks'.off /\ setting'.mode = setting.mode
    BY <1>1, <2>1, <2>2 DEF Settings
  <2>4. ~elsewhere => marks.mode = setting.mode
    BY <1>2, <2>1
  <2>5. ~elsewhere' => /\ marks' = [mode |-> setting'.mode, off |-> setting'.off]
                       /\ shortcuts' = ~setting'.off
    BY <2>1, <2>2, <2>3, <2>4
  <2>6. shortcuts' \in BOOLEAN /\ elsewhere' \in BOOLEAN
    BY <1>2, <2>1
  <2> QED
    BY <2>1, <2>2, <2>3, <2>5, <2>6, ChoiceKeeps
<1>8. ASSUME NEW m \in Modes, NEW off \in BOOLEAN, Preferences(m, off) \/ ManageConnections(m, off)
      PROVE  OptionsKept'
  <2>1. /\ running /\ changes' \in 0..MaxChanges /\ UNCHANGED <<listed, running, marks>>
        /\ setting' = [setting EXCEPT !.mode = m, !.off = off] /\ saved' = setting'
        /\ elsewhere' = (elsewhere \/ setting' # setting)
        /\ shortcuts' = shortcuts \/ shortcuts' = ~off
    BY <1>3, <1>8 DEF Preferences, ManageConnections
  <2>2. /\ setting' \in Settings /\ setting'.timeout = setting.timeout /\ setting'.off = off
    BY <1>1, <2>1 DEF Settings
  <2>3. ~elsewhere' => ~elsewhere /\ setting' = setting
    BY <2>1
  <2>4. ~elsewhere' => /\ marks' = [mode |-> setting'.mode, off |-> setting'.off]
                       /\ shortcuts' = ~setting'.off
    BY <1>2, <2>1, <2>2, <2>3
  <2>5. shortcuts' \in BOOLEAN /\ elsewhere' \in BOOLEAN /\ marks' \in [mode : Modes, off : BOOLEAN]
    BY <1>1, <1>2, <2>1
  <2> QED
    BY <2>1, <2>2, <2>4, <2>5, ChoiceKeeps
<1>9. ASSUME NEW new \in Server, running, Len(listed) < MaxServers, listed' = Append(listed, new),
             new.made = setting.timeout, new.engine = NoEngine,
             UNCHANGED <<setting, saved, marks, shortcuts, running, changes, elsewhere>>
      PROVE  OptionsKept'
  <2>1. /\ listed' \in Seq(Server) /\ Len(listed') = Len(listed) + 1
        /\ \A i \in 1..Len(listed) : listed'[i] = listed[i]
        /\ listed'[Len(listed) + 1] = new
    BY <1>1, <1>9, AppendProperties
  <2>2. DOMAIN listed' = 1..(Len(listed) + 1)
    BY <2>1, LenProperties
  <2>3. \A i \in DOMAIN listed' : i \in 1..Len(listed) \/ i = Len(listed) + 1
    BY <1>1, <2>2
  <2>4. Len(listed') <= MaxServers
    BY <1>1, <1>9, <2>1
  <2>5. \A i \in DOMAIN listed' :
          ~listed'[i].null /\ ~listed'[i].missed =>
            IF listed'[i].engine = NoEngine THEN listed'[i].made = setting.timeout
            ELSE listed'[i].engine = setting.timeout
    BY <1>4, <1>5, <1>9, <2>1, <2>3
  <2> QED
    BY <1>9, <2>1, <2>4, <2>5, ListKeeps
<1>10. ASSUME NEW tunnelled \in BOOLEAN, OpenServer(tunnelled)
       PROVE  OptionsKept'
  <2> PICK new : new = [Started EXCEPT !.null = tunnelled]
    OBVIOUS
  <2>1. new \in Server /\ new.made = setting.timeout /\ new.engine = NoEngine
    BY <1>5 DEF Server
  <2>2. /\ running /\ Len(listed) < MaxServers /\ listed' = Append(listed, new)
        /\ UNCHANGED <<setting, saved, marks, shortcuts, running, changes, elsewhere>>
    BY <1>10 DEF OpenServer
  <2> QED
    BY <1>9, <2>1, <2>2
<1>11. CASE TunnelUp
  BY <1>5, <1>9, <1>11 DEF TunnelUp
<1>12. ASSUME NEW i \in 1..MaxServers, StartEngine(i)
       PROVE  OptionsKept'
  <2>1. /\ running /\ i \in 1..Len(listed) /\ listed[i].engine = NoEngine
        /\ listed' = [listed EXCEPT ![i].engine = listed[i].made]
        /\ UNCHANGED <<setting, saved, marks, shortcuts, running, changes, elsewhere>>
    BY <1>1, <1>12 DEF StartEngine
  <2> PICK new : new = [listed[i] EXCEPT !.engine = listed[i].made]
    OBVIOUS
  <2>2. /\ new \in Server /\ new.engine = listed[i].made /\ new.engine # NoEngine
        /\ new.null = listed[i].null /\ new.missed = listed[i].missed
    BY <1>1, <2>1 DEF Server
  <2>3. listed' = [listed EXCEPT ![i] = new]
    BY <2>1
  <2>4. /\ listed' \in Seq(Server) /\ Len(listed') = Len(listed)
        /\ \A j \in 1..Len(listed) : listed'[j] = IF j = i THEN new ELSE listed[j]
    BY <1>1, <2>1, <2>2, <2>3, ExceptSeq
  <2>5. DOMAIN listed' = 1..Len(listed)
    BY <1>1, <2>3
  <2>6. \A j \in DOMAIN listed' :
          ~listed'[j].null /\ ~listed'[j].missed =>
            IF listed'[j].engine = NoEngine THEN listed'[j].made = setting.timeout
            ELSE listed'[j].engine = setting.timeout
    BY <1>4, <2>1, <2>2, <2>4, <2>5
  <2> QED
    BY <1>2, <2>1, <2>4, <2>6, ListKeeps
<1>13. ASSUME NEW i \in 1..MaxServers, EndServer(i)
       PROVE  OptionsKept'
  <2>1. /\ running /\ i \in 1..Len(listed) /\ listed' = RemoveAt(listed, i)
        /\ UNCHANGED <<setting, saved, marks, shortcuts, running, changes, elsewhere>>
    BY <1>1, <1>13 DEF EndServer
  <2>2. /\ listed' \in Seq(Server) /\ Len(listed') = Len(listed) - 1
        /\ \A j \in 1..(Len(listed) - 1) : listed'[j] = IF j < i THEN listed[j] ELSE listed[j + 1]
    BY <1>1, <2>1, RemoveAtFacts
  <2>3. DOMAIN listed' = 1..(Len(listed) - 1)
    BY <2>2, LenProperties
  <2>4. \A j \in DOMAIN listed' : \E k \in 1..Len(listed) : listed'[j] = listed[k]
    BY <1>1, <2>2, <2>3
  <2>5. \A j \in DOMAIN listed' :
          ~listed'[j].null /\ ~listed'[j].missed =>
            IF listed'[j].engine = NoEngine THEN listed'[j].made = setting.timeout
            ELSE listed'[j].engine = setting.timeout
    BY <1>4, <2>1, <2>4
  <2>6. Len(listed') <= MaxServers
    BY <1>1, <1>2, <2>2
  <2> QED
    BY <2>1, <2>2, <2>5, <2>6, ListKeeps
<1>14. ASSUME NEW t \in Timeouts, ChangeShellTimeout(t)
       PROVE  OptionsKept'
  <2> DEFINE nulls == {i \in DOMAIN listed : listed[i].null}
  <2>1. PICK first : first = IF nulls = {} THEN Len(listed) + 1
                             ELSE CHOOSE i \in nulls : \A j \in nulls : i <= j
    OBVIOUS
  <2>2. /\ running /\ changes' \in 0..MaxChanges
        /\ setting' = [setting EXCEPT !.timeout = t] /\ saved' = setting'
        /\ listed' = [i \in DOMAIN listed |-> IF i < first THEN WithTimeout(listed[i], t) ELSE listed[i]]
        /\ running' = (nulls = {})
        /\ UNCHANGED <<marks, shortcuts, elsewhere>>
    BY <1>3, <1>14, <2>1 DEF ChangeShellTimeout
  <2>3. /\ setting' \in Settings /\ setting'.timeout = t
        /\ setting'.mode = setting.mode /\ setting'.off = setting.off
    BY <1>1, <2>2 DEF Settings
  <2>4. \A s \in Server : /\ WithTimeout(s, t) \in Server /\ WithTimeout(s, t).null = s.null
                          /\ WithTimeout(s, t).engine = IF s.engine = NoEngine THEN NoEngine ELSE t
                          /\ WithTimeout(s, t).made = s.made
                          /\ ~WithTimeout(s, t).missed => s.engine # NoEngine \/ s.made = t
    BY <1>1 DEF WithTimeout, Server
  <2>5. \A i \in 1..Len(listed) : listed'[i] = IF i < first THEN WithTimeout(listed[i], t) ELSE listed[i]
    BY <1>1, <2>2
  <2>6. \A i \in 1..Len(listed) : listed'[i] \in Server
    BY <1>1, <2>4, <2>5
  <2>7. DOMAIN listed' = 1..Len(listed) /\ listed' = [i \in 1..Len(listed) |-> listed'[i]]
    BY <1>1, <2>2
  <2>8. listed' \in Seq(Server) /\ Len(listed') = Len(listed)
    BY <1>1, <2>6, <2>7, IsASeq, LenProperties
  <2>9. OptionsTypeOK'
    BY <1>1, <1>2, <2>2, <2>3, <2>8 DEF OptionsTypeOK
  <2>10. running' => \A i \in DOMAIN listed' : listed'[i] = WithTimeout(listed[i], t)
    <3> SUFFICES ASSUME nulls = {}, NEW i \in 1..Len(listed)
                 PROVE  listed'[i] = WithTimeout(listed[i], t)
      BY <2>2, <2>7
    <3>1. first = Len(listed) + 1
      BY <2>1
    <3>2. i < first
      BY <1>1, <3>1
    <3> QED
      BY <2>5, <3>2
  <2>11. EnginesFollowTheSetting' /\ MadeWithTheSetting'
    <3> SUFFICES ASSUME running', NEW i \in 1..Len(listed), ~listed'[i].missed
                 PROVE  /\ listed'[i].engine # NoEngine => listed'[i].engine = setting'.timeout
                        /\ listed'[i].engine = NoEngine => listed'[i].made = setting'.timeout
      BY <2>7 DEF EnginesFollowTheSetting, MadeWithTheSetting
    <3>1. listed'[i] = WithTimeout(listed[i], t) /\ listed[i] \in Server
      BY <1>1, <2>7, <2>10
    <3> QED
      BY <1>1, <2>3, <2>4, <3>1
  <2>12. MenuTellsSettings'
    BY <1>2, <2>2, <2>3 DEF MenuTellsSettings, Shown
  <2> QED
    BY <2>9, <2>11, <2>12 DEF OptionsKept, OptionsAreSound
<1>15. CASE StartAgain
  <2>1. /\ running' = TRUE /\ listed' = <<>> /\ elsewhere' = FALSE /\ setting' = saved
        /\ marks' = [mode |-> saved.mode, off |-> saved.off] /\ shortcuts' = ~saved.off
        /\ UNCHANGED <<saved, changes>>
    BY <1>15 DEF StartAgain
  <2>2. listed' \in Seq(Server) /\ Len(listed') = 0 /\ DOMAIN listed' = {}
    BY <2>1, EmptySeq
  <2>3. marks' \in [mode : Modes, off : BOOLEAN] /\ shortcuts' \in BOOLEAN
    BY <1>1, <1>2, <2>1
  <2>4. changes' \in 0..MaxChanges
    BY <2>1 DEF OptionsKept, OptionsAreSound, OptionsTypeOK
  <2>a. saved' = setting' /\ setting' \in Settings /\ saved' \in Settings
    BY <1>1, <1>2, <2>1
  <2>b. running' \in BOOLEAN /\ elsewhere' \in BOOLEAN
    BY <2>1
  <2>c. Len(listed') <= MaxServers
    BY <1>1, <2>2
  <2>5. OptionsTypeOK'
    BY <2>2, <2>3, <2>4, <2>a, <2>b, <2>c DEF OptionsTypeOK
  <2>6. MenuTellsSettings'
    BY <2>1 DEF MenuTellsSettings, Shown
  <2> QED
    BY <2>2, <2>5, <2>6 DEF OptionsKept, OptionsAreSound, EnginesFollowTheSetting, MadeWithTheSetting
<1>16. CASE UNCHANGED optionVars
  <2>1. UNCHANGED <<setting, saved, marks, shortcuts, listed, running, changes, elsewhere>>
    BY <1>16 DEF optionVars
  <2> QED
    BY <2>1 DEF OptionsKept, OptionsAreSound, OptionsTypeOK, EnginesFollowTheSetting,
                MenuTellsSettings, MadeWithTheSetting, Shown
<1> QED
  BY <1>6, <1>7, <1>8, <1>10, <1>11, <1>12, <1>13, <1>14, <1>15, <1>16 DEF OptionsNext

\* MainWindow.cpp, PreferencesDialog.cpp and ChangeShellTimeoutDialog.cpp: however the
\* settings are changed while servers come and go, what the user chose is in the file, the
\* menu that is used alone shows it, and every engine that was not being connected during
\* the change reads with the timeout set last.
THEOREM OptionsAgree == OptionsSpec => []OptionsAreSound
<1>1. OptionsKept => OptionsAreSound
  BY DEF OptionsKept
<1> QED
  BY <1>1, OptionsInitKept, OptionsNextKept, PTL DEF OptionsSpec

LEMMA ToggleMarks ==
  OptionsKept /\ [OptionsNext]_optionVars =>
    [changes' # changes /\ marks'.off # marks.off => setting'.off = marks'.off]_optionVars
<1> SUFFICES ASSUME OptionsKept, OptionsNext, changes' # changes, marks'.off # marks.off
             PROVE  setting'.off = marks'.off
  OBVIOUS
<1>1. setting \in Settings /\ marks \in [mode : Modes, off : BOOLEAN]
  BY OptionsFacts
<1>2. ASSUME NEW m \in Modes, ChooseMode(m)
      PROVE  FALSE
  <2>1. marks' = [marks EXCEPT !.mode = m]
    BY <1>2 DEF ChooseMode
  <2> QED
    BY <1>1, <2>1
<1>3. Toggle
  BY <1>2 DEF OptionsNext, Preferences, ManageConnections, OpenServer, TunnelUp, StartEngine,
              EndServer, ChangeShellTimeout, StartAgain
<1>4. setting' = [setting EXCEPT !.off = marks'.off]
  BY <1>3 DEF Toggle
<1> QED
  BY <1>1, <1>4 DEF Settings

\* MainWindow.cpp:1112-1118: a click on the mark sets what the mark then shows, even where
\* the mark was stale.
THEOREM ToggleTellsTheTruth == OptionsSpec => ToggledIsMarked
<1> QED
  BY OptionsInitKept, OptionsNextKept, ToggleMarks, PTL DEF OptionsSpec, ToggledIsMarked

-----------------------------------------------------------------------------
(* The tabs.                                                               *)

Page == {Welcome, History} \cup 1..MaxTabs

BarOK ==
  /\ IsInjective(strip) /\ strip \in Seq(Page)
  /\ current \in 0..Len(strip) /\ (current = 0 <=> strip = <<>>)

\* A title is written by updates only; between two of them it is _isTextChanged that tells
\* whether the text is the one in the file.
ShellOK(sh) ==
  /\ sh \in Shell
  /\ sh.open /\ sh.file # NoFile =>
       /\ ~sh.changed => sh.text = sh.synced
       /\ ~sh.title.star => sh.text = sh.synced

ShellsOK == shells \in Seq(Shell) /\ \A n \in DOMAIN shells : ShellOK(shells[n])

RestTyped ==
  /\ disk \in [Files -> Texts]
  /\ buttons \in [execute : BOOLEAN, stop : BOOLEAN]
  /\ confirm \in BOOLEAN /\ edits \in 0..MaxEdits /\ sent \in 0..MaxExecutions
  /\ abandoned \in BOOLEAN /\ unasked \subseteq Scripts

WorkKept == BarOK /\ ShellsOK /\ RestTyped /\ TabsAreShells /\ ExecuteIsForRunning

LEMMA WorkFacts ==
  ASSUME WorkKept
  PROVE  /\ Len(strip) \in Nat /\ DOMAIN strip = 1..Len(strip) /\ strip \in Seq(Page)
         /\ \A i \in 1..Len(strip) : strip[i] \in Page
         /\ ToSet(strip) = {strip[i] : i \in 1..Len(strip)}
         /\ \A i, j \in 1..Len(strip) : strip[i] = strip[j] => i = j
         /\ current \in 0..Len(strip) /\ current \in Nat /\ (current = 0 <=> Len(strip) = 0)
         /\ shells \in Seq(Shell) /\ Len(shells) \in Nat /\ DOMAIN shells = 1..Len(shells)
         /\ \A n \in 1..Len(shells) : ShellOK(shells[n]) /\ shells[n] \in Shell
         /\ MaxTabs \in Nat /\ MaxEdits \in Nat /\ MaxExecutions \in Nat
<1>1. strip \in Seq(Page) /\ shells \in Seq(Shell)
  BY DEF WorkKept, BarOK, ShellsOK
<1>2. /\ Len(strip) \in Nat /\ DOMAIN strip = 1..Len(strip)
      /\ \A i \in 1..Len(strip) : strip[i] \in Page
      /\ Len(shells) \in Nat /\ DOMAIN shells = 1..Len(shells)
      /\ \A n \in 1..Len(shells) : shells[n] \in Shell
  BY <1>1, LenProperties, ElementOfSeq
<1>3. ToSet(strip) = {strip[i] : i \in 1..Len(strip)}
  BY <1>2 DEF ToSet
<1>4. \A i, j \in 1..Len(strip) : strip[i] = strip[j] => i = j
  BY <1>2 DEF WorkKept, BarOK, IsInjective
<1>5. strip = <<>> <=> Len(strip) = 0
  BY <1>1, EmptySeq
<1>6. current \in 0..Len(strip) /\ current \in Nat /\ (current = 0 <=> Len(strip) = 0)
  BY <1>2, <1>5 DEF WorkKept, BarOK
<1>7. \A n \in 1..Len(shells) : ShellOK(shells[n])
  BY <1>2 DEF WorkKept, ShellsOK
<1>8. MaxTabs \in Nat /\ MaxEdits \in Nat /\ MaxExecutions \in Nat
  BY WorkAssumption
<1> QED
  BY <1>1, <1>2, <1>3, <1>4, <1>6, <1>7, <1>8

\* The shell of the current page is alive.
LEMMA CurrentIsOpen ==
  ASSUME WorkKept, CurrentShell > 0
  PROVE  CurrentShell \in 1..Len(shells) /\ shells[CurrentShell].open
<1>1. /\ Len(strip) \in Nat /\ \A i \in 1..Len(strip) : strip[i] \in Page
      /\ ToSet(strip) = {strip[i] : i \in 1..Len(strip)}
      /\ current \in 0..Len(strip) /\ MaxTabs \in Nat /\ DOMAIN shells = 1..Len(shells)
  BY WorkFacts
<1>2. current > 0 /\ CurrentShell = strip[current] /\ strip[current] > 0
  BY DEF CurrentShell
<1>3. current \in 1..Len(strip)
  BY <1>1, <1>2
<1>4. strip[current] \in Page /\ strip[current] \in ToSet(strip)
  BY <1>1, <1>3
<1>5. strip[current] \in Nat
  BY <1>1, <1>2, <1>4 DEF Page, Welcome, History
<1>6. strip[current] \in {n \in DOMAIN shells : shells[n].open}
  BY <1>4, <1>5 DEF WorkKept, TabsAreShells, Pages
<1> QED
  BY <1>1, <1>2, <1>6

\* One shell changes; it is neither opened nor closed.
LEMMA UpdateKeeps ==
  ASSUME WorkKept, NEW n \in 1..Len(shells), NEW sh, ShellOK(sh), sh.open = shells[n].open,
         shells' = [shells EXCEPT ![n] = sh], UNCHANGED <<strip, current>>
  PROVE  /\ BarOK' /\ ShellsOK' /\ TabsAreShells'
         /\ DOMAIN shells' = 1..Len(shells)
         /\ \A j \in 1..Len(shells) : shells'[j] = IF j = n THEN sh ELSE shells[j]
<1>1. /\ shells \in Seq(Shell) /\ Len(shells) \in Nat /\ DOMAIN shells = 1..Len(shells)
      /\ \A j \in 1..Len(shells) : ShellOK(shells[j])
  BY WorkFacts
<1>2. sh \in Shell
  BY DEF ShellOK
<1>3. /\ shells' \in Seq(Shell)
      /\ \A j \in 1..Len(shells) : shells'[j] = IF j = n THEN sh ELSE shells[j]
  BY <1>1, <1>2, ExceptSeq
<1>4. DOMAIN shells' = 1..Len(shells)
  BY <1>1
<1>5. BarOK'
  BY DEF WorkKept, BarOK
<1>6. \A j \in 1..Len(shells) : ShellOK(shells'[j])
  BY <1>1, <1>3
<1>7. {j \in DOMAIN shells' : shells'[j].open} = {j \in DOMAIN shells : shells[j].open}
  BY <1>1, <1>3, <1>4
<1>8. TabsAreShells'
  BY <1>7 DEF WorkKept, TabsAreShells, Pages
<1> QED
  BY <1>3, <1>4, <1>5, <1>6, <1>8 DEF ShellsOK, ShellOK

\* Only the bar changes, by pages that are no query tabs.
LEMMA BarKeeps ==
  ASSUME WorkKept, BarOK', ToSet(strip') \cap Nat = ToSet(strip) \cap Nat,
         UNCHANGED <<shells, disk, buttons, confirm, edits, sent, abandoned, unasked>>
  PROVE  WorkKept'
<1>1. ShellsOK'
  BY DEF WorkKept, ShellsOK
<1>2. RestTyped'
  BY DEF WorkKept, RestTyped
<1>3. TabsAreShells'
  BY DEF WorkKept, TabsAreShells, Pages
<1>4. ExecuteIsForRunning'
  BY DEF WorkKept, ExecuteIsForRunning
<1> QED
  BY <1>1, <1>2, <1>3, <1>4 DEF WorkKept

\* Pages are closed, their shells with them.
LEMMA CloseKeeps ==
  ASSUME WorkKept, NEW closed, Deleted(closed), BarOK', ToSet(strip') = ToSet(strip) \ closed,
         UNCHANGED <<disk, buttons, confirm, edits, sent, unasked>>
  PROVE  WorkKept'
<1>1. /\ shells \in Seq(Shell) /\ Len(shells) \in Nat /\ DOMAIN shells = 1..Len(shells)
      /\ \A n \in 1..Len(shells) : ShellOK(shells[n]) /\ shells[n] \in Shell
  BY WorkFacts
<1>2. /\ shells' = [n \in 1..Len(shells) |->
                     IF n \in closed
                     THEN [shells[n] EXCEPT !.open = FALSE, !.running = 0, !.executing = FALSE]
                     ELSE shells[n]]
      /\ abandoned' = (abandoned \/ \E n \in closed \cap Nat : shells[n].running > 0)
  BY <1>1 DEF Deleted
<1>3. \A n \in 1..Len(shells) : n \in closed => shells'[n] \in Shell /\ shells'[n].open = FALSE
  <2> SUFFICES ASSUME NEW n \in 1..Len(shells), n \in closed
               PROVE  shells'[n] \in Shell /\ shells'[n].open = FALSE
    OBVIOUS
  <2>1. shells'[n] = [shells[n] EXCEPT !.open = FALSE, !.running = 0, !.executing = FALSE]
    BY <1>2
  <2>2. shells[n] \in Shell
    BY <1>1
  <2> PICK sh : sh = shells[n]
    OBVIOUS
  <2> PICK new : new = [sh EXCEPT !.open = FALSE, !.running = 0, !.executing = FALSE]
    OBVIOUS
  <2>3. new \in Shell /\ new.open = FALSE
    BY <2>2 DEF Shell
  <2> QED
    BY <2>1, <2>3
<1>4. \A n \in 1..Len(shells) : n \notin closed => shells'[n] = shells[n]
  BY <1>2
<1>5. \A n \in 1..Len(shells) : ShellOK(shells'[n]) /\ shells'[n] \in Shell
  BY <1>1, <1>3, <1>4 DEF ShellOK
<1>6. DOMAIN shells' = 1..Len(shells) /\ shells' = [n \in 1..Len(shells) |-> shells'[n]]
  BY <1>2
<1>7. shells' \in Seq(Shell)
  BY <1>1, <1>5, <1>6, IsASeq
<1>8. ShellsOK'
  BY <1>5, <1>6, <1>7 DEF ShellsOK, ShellOK
<1>9. TabsAreShells'
  <2>1. {n \in DOMAIN shells' : shells'[n].open} = {n \in DOMAIN shells : shells[n].open} \ closed
    BY <1>1, <1>3, <1>4, <1>6
  <2>2. ToSet(strip) \cap Nat = {n \in DOMAIN shells : shells[n].open}
    BY DEF WorkKept, TabsAreShells, Pages
  <2> QED
    BY <2>1, <2>2 DEF TabsAreShells, Pages
<1>10. ExecuteIsForRunning'
  <2> SUFFICES ASSUME ~buttons.execute, ~abandoned'
               PROVE  \E n \in DOMAIN shells' : shells'[n].running > 0
    BY DEF ExecuteIsForRunning
  <2>1. ~abandoned
    BY <1>2
  <2>2. \A n \in closed \cap Nat : ~(shells[n].running > 0)
    BY <1>2
  <2>3. PICK n \in 1..Len(shells) : shells[n].running > 0
    BY <1>1, <2>1 DEF WorkKept, ExecuteIsForRunning
  <2>4. n \notin closed
    BY <2>2, <2>3
  <2> QED
    BY <1>4, <1>6, <2>3, <2>4
<1>11. abandoned' \in BOOLEAN
  BY <1>2 DEF WorkKept, RestTyped
<1>12. RestTyped'
  BY <1>11 DEF WorkKept, RestTyped
<1> QED
  BY <1>8, <1>9, <1>10, <1>12 DEF WorkKept

LEMMA TitledFacts ==
  ASSUME NEW sh \in Shell
  PROVE  /\ Titled(sh) \in Shell
         /\ Titled(sh).open = sh.open /\ Titled(sh).file = sh.file /\ Titled(sh).text = sh.text
         /\ Titled(sh).synced = sh.synced /\ Titled(sh).changed = sh.changed
         /\ Titled(sh).title.star = sh.changed /\ Titled(sh).running = sh.running
<1>1. PICK t : t = [star |-> sh.changed, of |-> IF sh.file # NoFile THEN sh.file ELSE sh.script]
  OBVIOUS
<1>2. sh.file \in Files \cup {NoFile} /\ sh.script \in Texts /\ sh.changed \in BOOLEAN
  BY DEF Shell
<1>3. t \in Title /\ t.star = sh.changed
  BY <1>1, <1>2 DEF Title
<1>4. Titled(sh) = [sh EXCEPT !.title = t]
  BY <1>1 DEF Titled
<1> QED
  BY <1>3, <1>4 DEF Shell

\* An update of a shell whose file, if it has one, holds its text unless that was changed.
LEMMA TitledIsOK ==
  ASSUME NEW sh \in Shell, ~sh.changed => sh.text = sh.synced
  PROVE  ShellOK(Titled(sh))
BY TitledFacts DEF ShellOK

LEMMA BarFrom ==
  ASSUME strip' \in Seq(Page), IsInjective(strip'), current' \in 0..Len(strip'),
         current' = 0 <=> Len(strip') = 0
  PROVE  BarOK'
<1>1. strip' = <<>> <=> Len(strip') = 0
  BY EmptySeq
<1> QED
  BY <1>1 DEF BarOK

LEMMA OpenShellKeeps ==
  ASSUME WorkKept, NEW script \in Texts, NEW execute \in BOOLEAN, OpenShell(script, execute)
  PROVE  WorkKept'
<1>1. /\ Len(strip) \in Nat /\ strip \in Seq(Page) /\ current \in Nat
      /\ shells \in Seq(Shell) /\ Len(shells) \in Nat /\ DOMAIN shells = 1..Len(shells)
      /\ \A j \in 1..Len(shells) : ShellOK(shells[j])
      /\ MaxTabs \in Nat /\ MaxExecutions \in Nat
  BY WorkFacts
<1>2. PICK n : n = Len(shells) + 1
  OBVIOUS
<1>3. PICK new : new = [open |-> TRUE, text |-> script, script |-> script, file |-> NoFile,
                        changed |-> FALSE, title |-> [star |-> FALSE, of |-> "opening"],
                        executing |-> execute, running |-> IF execute THEN 1 ELSE 0,
                        synced |-> NoScript]
  OBVIOUS
<1>4. /\ n <= MaxTabs /\ shells' = Append(shells, new)
      /\ strip' = Append(strip, n) /\ current' = Len(strip) + 1
      /\ IF execute
         THEN /\ sent < MaxExecutions /\ sent' = sent + 1
              /\ buttons' = [execute |-> FALSE, stop |-> TRUE]
              /\ unasked' = IF MustAsk(script) THEN unasked \cup {script} ELSE unasked
         ELSE UNCHANGED <<sent, buttons, unasked>>
      /\ UNCHANGED <<disk, confirm, edits, abandoned>>
  BY <1>2, <1>3 DEF OpenShell, Executing
<1>5. new \in Shell /\ new.open = TRUE /\ new.file = NoFile /\ new.running = IF execute THEN 1 ELSE 0
  <2>1. [star |-> FALSE, of |-> "opening"] \in Title
    BY DEF Title
  <2>2. NoScript \in Texts /\ (IF execute THEN 1 ELSE 0) \in Nat
    BY DEF Texts
  <2> QED
    BY <1>3, <2>1, <2>2 DEF Shell
<1>6. /\ shells' \in Seq(Shell) /\ Len(shells') = n
      /\ \A j \in 1..Len(shells) : shells'[j] = shells[j]
      /\ shells'[n] = new
  BY <1>1, <1>2, <1>4, <1>5, AppendProperties
<1>7. DOMAIN shells' = 1..n /\ \A j \in 1..n : j = n \/ j \in 1..Len(shells)
  BY <1>1, <1>2, <1>6, LenProperties
<1>8. n \in Nat /\ n \notin 1..Len(shells) /\ n \in 1..n /\ 1..Len(shells) \subseteq 1..n
      /\ n \in Page
  BY <1>1, <1>2, <1>4 DEF Page
<1>9. ToSet(strip) \cap Nat = {j \in DOMAIN shells : shells[j].open}
  BY DEF WorkKept, TabsAreShells, Pages
<1>10. n \notin ToSet(strip)
  BY <1>1, <1>8, <1>9
<1>11. IsInjective(strip)
  BY DEF WorkKept, BarOK
<1>12. strip' \in Seq(Page) /\ Len(strip') = Len(strip) + 1 /\ IsInjective(strip')
       /\ ToSet(strip') = ToSet(strip) \cup {n}
  BY <1>1, <1>4, <1>8, <1>10, <1>11, AppendProperties, OnceAppend, ToSetAppend
<1>13. BarOK'
  <2>1. current' \in 0..Len(strip') /\ (current' = 0 <=> Len(strip') = 0)
    BY <1>1, <1>4, <1>12
  <2> QED
    BY <1>12, <2>1, BarFrom
<1>14. ShellsOK'
  <2>1. \A j \in 1..n : ShellOK(shells'[j])
    BY <1>1, <1>5, <1>6, <1>7 DEF ShellOK
  <2> QED
    BY <1>6, <1>7, <2>1 DEF ShellsOK, ShellOK
<1>15. TabsAreShells'
  <2>1. {j \in DOMAIN shells' : shells'[j].open} = {j \in DOMAIN shells : shells[j].open} \cup {n}
    BY <1>1, <1>5, <1>6, <1>7, <1>8
  <2> QED
    BY <1>8, <1>9, <1>12, <2>1 DEF TabsAreShells, Pages
<1>16. RestTyped'
  <2>a. sent \in 0..MaxExecutions /\ buttons \in [execute : BOOLEAN, stop : BOOLEAN]
    BY DEF WorkKept, RestTyped
  <2>b. sent' \in 0..MaxExecutions
    BY <1>1, <1>4, <2>a
  <2>c. [execute |-> FALSE, stop |-> TRUE] \in [execute : BOOLEAN, stop : BOOLEAN]
    OBVIOUS
  <2>1. buttons' \in [execute : BOOLEAN, stop : BOOLEAN]
    BY <1>4, <2>a, <2>c
  <2>2. MustAsk(script) => script \in Scripts
    BY DEF MustAsk, Scope, Texts
  <2>3. unasked' \subseteq Scripts
    BY <1>4, <2>2 DEF WorkKept, RestTyped
  <2> QED
    BY <1>4, <2>1, <2>3, <2>b DEF WorkKept, RestTyped
<1>17. ExecuteIsForRunning'
  <2>1. CASE execute
    BY <1>5, <1>6, <1>7, <1>8, <2>1 DEF ExecuteIsForRunning
  <2>2. CASE ~execute
    <3> SUFFICES ASSUME ~buttons.execute, ~abandoned
                 PROVE  \E j \in DOMAIN shells' : shells'[j].running > 0
      BY <1>4, <2>2 DEF ExecuteIsForRunning
    <3>1. PICK j \in 1..Len(shells) : shells[j].running > 0
      BY <1>1 DEF WorkKept, ExecuteIsForRunning
    <3> QED
      BY <1>6, <1>7, <1>8, <3>1
  <2> QED
    BY <2>1, <2>2
<1> QED
  BY <1>13, <1>14, <1>15, <1>16, <1>17 DEF WorkKept

LEMMA ClosingKeeps ==
  ASSUME WorkKept, NEW i \in DOMAIN strip, CloseTab(i) \/ CloseOthers(i) \/ CloseRight(i)
  PROVE  WorkKept'
<1>1. /\ Len(strip) \in Nat /\ strip \in Seq(Page) /\ DOMAIN strip = 1..Len(strip)
      /\ \A j \in 1..Len(strip) : strip[j] \in Page
      /\ ToSet(strip) = {strip[j] : j \in 1..Len(strip)}
      /\ current \in 0..Len(strip) /\ current \in Nat /\ (current = 0 <=> Len(strip) = 0)
  BY WorkFacts
<1>2. IsInjective(strip) /\ i \in 1..Len(strip)
  BY <1>1 DEF WorkKept, BarOK
<1>3. CASE CloseTab(i)
  <2>1. /\ strip' = RemoveAt(strip, i)
        /\ current' = IF i < current \/ current = Len(strip) THEN current - 1 ELSE current
        /\ Deleted({strip[i]}) /\ UNCHANGED <<disk, buttons, confirm, edits, sent, unasked>>
    BY <1>3 DEF CloseTab, AfterRemoval
  <2>2. /\ strip' \in Seq(Page) /\ Len(strip') = Len(strip) - 1
        /\ IsInjective(strip') /\ ToSet(strip') = ToSet(strip) \ {strip[i]}
    BY <1>1, <1>2, <2>1, RemoveAtFacts, OnceRemoveAt
  <2>a. \A l \in Nat : \A c, k \in 1..l :
          /\ (IF k < c \/ c = l THEN c - 1 ELSE c) \in 0..(l - 1)
          /\ (IF k < c \/ c = l THEN c - 1 ELSE c) = 0 <=> l - 1 = 0
    OBVIOUS
  <2>b. current \in 1..Len(strip)
    BY <1>1, <1>2
  <2>3. current' \in 0..Len(strip') /\ (current' = 0 <=> Len(strip') = 0)
    BY <1>1, <1>2, <2>1, <2>2, <2>a, <2>b
  <2>4. BarOK'
    BY <2>2, <2>3, BarFrom
  <2> QED
    BY <2>1, <2>2, <2>4, CloseKeeps
<1>4. CASE CloseOthers(i)
  <2>1. /\ strip' = <<strip[i]>> /\ current' = 1
        /\ Deleted(ToSet(strip) \ {strip[i]}) /\ UNCHANGED <<disk, buttons, confirm, edits, sent, unasked>>
    BY <1>4 DEF CloseOthers, Pages
  <2>2. /\ strip' \in Seq(Page) /\ Len(strip') = 1 /\ strip'[1] = strip[i] /\ DOMAIN strip' = {1}
    <3>1. strip[i] \in Page
      BY <1>1, <1>2
    <3> QED
      BY <2>1, <3>1
  <2>3. IsInjective(strip') /\ ToSet(strip') = {strip[i]}
    BY <2>2 DEF IsInjective, ToSet
  <2>4. BarOK'
    BY <2>1, <2>2, <2>3, BarFrom
  <2>5. ToSet(strip') = ToSet(strip) \ (ToSet(strip) \ {strip[i]})
    BY <1>1, <1>2, <2>3
  <2> QED
    BY <2>1, <2>4, <2>5, CloseKeeps
<1>5. CASE CloseRight(i)
  <2>1. /\ i < Len(strip) /\ strip' = SubSeq(strip, 1, i)
        /\ current' = IF current > i THEN i ELSE current
        /\ Deleted({strip[j] : j \in (i + 1)..Len(strip)})
        /\ UNCHANGED <<disk, buttons, confirm, edits, sent, unasked>>
    BY <1>5 DEF CloseRight
  <2>2. /\ strip' \in Seq(Page) /\ Len(strip') = i /\ IsInjective(strip')
        /\ ToSet(strip') = ToSet(strip) \ {strip[j] : j \in (i + 1)..Len(strip)}
    <3>1. strip \in Seq(Page) /\ IsInjective(strip) /\ i \in 1..Len(strip)
      BY <1>1, <1>2
    <3>2. /\ SubSeq(strip, 1, i) \in Seq(Page) /\ Len(SubSeq(strip, 1, i)) = i
          /\ IsInjective(SubSeq(strip, 1, i))
          /\ ToSet(SubSeq(strip, 1, i)) = ToSet(strip) \ {strip[j] : j \in (i + 1)..Len(strip)}
      BY <3>1, OncePrefix, SMT
    <3> QED
      BY <2>1, <3>2
  <2>3. current' \in 0..Len(strip') /\ (current' = 0 <=> Len(strip') = 0)
    BY <1>1, <1>2, <2>1, <2>2
  <2>4. BarOK'
    BY <2>2, <2>3, BarFrom
  <2> QED
    BY <2>1, <2>2, <2>4, CloseKeeps
<1> QED
  BY <1>3, <1>4, <1>5

LEMMA GoToKeeps ==
  ASSUME WorkKept, NEW i, GoTo(i)
  PROVE  WorkKept'
<1>1. /\ i \in DOMAIN strip /\ current' = i
      /\ UNCHANGED <<strip, shells, disk, buttons, confirm, edits, sent, abandoned, unasked>>
  BY DEF GoTo
<1>2. Len(strip) \in Nat /\ DOMAIN strip = 1..Len(strip) /\ strip \in Seq(Page) /\ IsInjective(strip)
  BY WorkFacts DEF WorkKept, BarOK
<1>3. current' \in 0..Len(strip') /\ (current' = 0 <=> Len(strip') = 0)
  BY <1>1, <1>2
<1>4. BarOK'
  BY <1>1, <1>2, <1>3, BarFrom
<1> QED
  BY <1>1, <1>4, BarKeeps

\* The history and the welcome page are put on the bar once.
LEMMA OpenPageKeeps ==
  ASSUME WorkKept, OpenHistory \/ OpenWelcome
  PROVE  WorkKept'
<1>1. /\ Len(strip) \in Nat /\ strip \in Seq(Page) /\ DOMAIN strip = 1..Len(strip)
      /\ ToSet(strip) = {strip[j] : j \in 1..Len(strip)} /\ IsInjective(strip)
  BY WorkFacts DEF WorkKept, BarOK
<1>2. History \in Page /\ Welcome \in Page /\ History \notin Nat /\ Welcome \notin Nat
  BY DEF Page, History, Welcome
<1>3. \A p \in ToSet(strip) : Place(p) \in 1..Len(strip)
  BY <1>1 DEF Place
<1>4. CASE OpenHistory
  <2>1. UNCHANGED <<shells, disk, buttons, confirm, edits, sent, abandoned, unasked>>
    BY <1>4 DEF OpenHistory
  <2>2. CASE History \in ToSet(strip)
    <3>1. strip' = strip /\ current' = Place(History)
      BY <1>4, <2>2 DEF OpenHistory, Pages
    <3>2. current' \in 1..Len(strip)
      BY <1>3, <2>2, <3>1
    <3>3. current' \in 0..Len(strip') /\ (current' = 0 <=> Len(strip') = 0)
      BY <1>1, <3>1, <3>2
    <3>4. BarOK'
      BY <1>1, <3>1, <3>3, BarFrom
    <3> QED
      BY <2>1, <3>1, <3>4, BarKeeps
  <2>3. CASE History \notin ToSet(strip)
    <3>1. strip' = Append(strip, History) /\ current' = Len(strip) + 1
      BY <1>4, <2>3 DEF OpenHistory, Pages
    <3>2. strip' \in Seq(Page) /\ Len(strip') = Len(strip) + 1 /\ IsInjective(strip')
          /\ ToSet(strip') = ToSet(strip) \cup {History}
      BY <1>1, <1>2, <2>3, <3>1, AppendProperties, OnceAppend, ToSetAppend
    <3>3. current' \in 0..Len(strip') /\ (current' = 0 <=> Len(strip') = 0)
      BY <1>1, <3>1, <3>2
    <3>4. BarOK'
      BY <3>2, <3>3, BarFrom
    <3>5. ToSet(strip') \cap Nat = ToSet(strip) \cap Nat
      BY <1>2, <3>2
    <3> QED
      BY <2>1, <3>4, <3>5, BarKeeps
  <2> QED
    BY <2>2, <2>3
<1>5. CASE OpenWelcome
  <2>1. UNCHANGED <<shells, disk, buttons, confirm, edits, sent, abandoned, unasked>>
    BY <1>5 DEF OpenWelcome
  <2>2. CASE Welcome \in ToSet(strip)
    <3>1. strip' = strip /\ current' = Place(Welcome)
      BY <1>5, <2>2 DEF OpenWelcome, Pages
    <3>2. current' \in 1..Len(strip)
      BY <1>3, <2>2, <3>1
    <3>3. current' \in 0..Len(strip') /\ (current' = 0 <=> Len(strip') = 0)
      BY <1>1, <3>1, <3>2
    <3>4. BarOK'
      BY <1>1, <3>1, <3>3, BarFrom
    <3> QED
      BY <2>1, <3>1, <3>4, BarKeeps
  <2>3. CASE Welcome \notin ToSet(strip)
    <3>1. strip' = <<Welcome>> \o strip /\ current' = 1
      BY <1>5, <2>3 DEF OpenWelcome, Pages
    <3>2. strip' \in Seq(Page) /\ Len(strip') = Len(strip) + 1 /\ IsInjective(strip')
          /\ ToSet(strip') = ToSet(strip) \cup {Welcome}
      BY <1>1, <1>2, <2>3, <3>1, OncePrepend
    <3>3. current' \in 0..Len(strip') /\ (current' = 0 <=> Len(strip') = 0)
      BY <1>1, <3>1, <3>2
    <3>4. BarOK'
      BY <3>2, <3>3, BarFrom
    <3>5. ToSet(strip') \cap Nat = ToSet(strip) \cap Nat
      BY <1>2, <3>2
    <3> QED
      BY <2>1, <3>4, <3>5, BarKeeps
  <2> QED
    BY <2>2, <2>3
<1> QED
  BY <1>4, <1>5

\* No script ends and no button changes.
LEMMA SameRuns ==
  ASSUME WorkKept, DOMAIN shells' = 1..Len(shells), UNCHANGED <<buttons, abandoned>>,
         \A j \in 1..Len(shells) : shells'[j].running = shells[j].running
  PROVE  ExecuteIsForRunning'
<1>1. DOMAIN shells = 1..Len(shells)
  BY WorkFacts
<1> QED
  BY <1>1 DEF WorkKept, ExecuteIsForRunning

\* The text of the current tab changes: by hand, from a file or on its way to one.
LEMMA EditingKeeps ==
  ASSUME WorkKept,
         \/ \E text \in Texts : Edit(text)
         \/ \E f \in Files : OpenFile(f)
         \/ \E f \in Files, ok \in BOOLEAN : SaveScript(f, ok)
  PROVE  WorkKept'
<1>1. CurrentShell > 0
  BY DEF Edit, OpenFile, SaveScript
<1>2. PICK n : n = CurrentShell
  OBVIOUS
<1>3. n \in 1..Len(shells)
  BY <1>1, <1>2, CurrentIsOpen
<1>4. PICK sh : sh = shells[n]
  OBVIOUS
<1>5. sh \in Shell /\ ShellOK(sh) /\ sh.open = shells[n].open /\ sh.running = shells[n].running
  BY <1>3, <1>4, WorkFacts
<1>6. sh.text \in Texts /\ sh.synced \in Texts /\ MaxEdits \in Nat
      /\ disk \in [Files -> Texts] /\ edits \in 0..MaxEdits
  BY <1>5, WorkFacts DEF Shell, WorkKept, RestTyped
<1>7. ASSUME NEW new, ShellOK(new), new.open = sh.open, new.running = sh.running,
             shells' = [shells EXCEPT ![n] = new], edits < MaxEdits, edits' = edits + 1,
             disk' \in [Files -> Texts],
             UNCHANGED <<strip, current, buttons, confirm, sent, abandoned, unasked>>
      PROVE  WorkKept'
  <2>1. /\ BarOK' /\ ShellsOK' /\ TabsAreShells' /\ DOMAIN shells' = 1..Len(shells)
        /\ \A j \in 1..Len(shells) : shells'[j] = IF j = n THEN new ELSE shells[j]
    BY <1>3, <1>5, <1>7, UpdateKeeps
  <2>2. ExecuteIsForRunning'
    BY <1>5, <1>7, <2>1, SameRuns
  <2>3. edits' \in 0..MaxEdits
    BY <1>6, <1>7
  <2>4. RestTyped'
    BY <1>7, <2>3 DEF WorkKept, RestTyped
  <2> QED
    BY <2>1, <2>2, <2>4 DEF WorkKept
<1>8. ASSUME NEW text \in Texts, Edit(text)
      PROVE  WorkKept'
  <2> PICK x : x = [sh EXCEPT !.text = text, !.changed = TRUE]
    OBVIOUS
  <2>1. x \in Shell /\ x.changed /\ x.open = sh.open /\ x.running = sh.running
    BY <1>5 DEF Shell
  <2>2. /\ ShellOK(Titled(x)) /\ Titled(x).open = sh.open /\ Titled(x).running = sh.running
    BY <2>1, TitledIsOK, TitledFacts
  <2>3. /\ shells' = [shells EXCEPT ![n] = Titled(x)] /\ edits < MaxEdits /\ edits' = edits + 1
        /\ UNCHANGED <<strip, current, disk, buttons, confirm, sent, abandoned, unasked>>
    BY <1>2, <1>4, <1>8 DEF Edit, EditTab
  <2> QED
    BY <1>6, <1>7, <2>2, <2>3
<1>9. ASSUME NEW f \in Files, OpenFile(f)
      PROVE  WorkKept'
  <2>a. disk[f] \in Texts
    BY <1>6
  <2> PICK x : x = [sh EXCEPT !.text = disk[f], !.script = disk[f], !.file = f,
                              !.changed = FALSE, !.synced = disk[f]]
    OBVIOUS
  <2>1. x \in Shell /\ x.text = x.synced /\ x.open = sh.open /\ x.running = sh.running
    BY <1>5, <2>a DEF Shell
  <2>2. /\ ShellOK(Titled(x)) /\ Titled(x).open = sh.open /\ Titled(x).running = sh.running
    BY <2>1, TitledIsOK, TitledFacts
  <2>3. /\ shells' = [shells EXCEPT ![n] = Titled(x)] /\ edits < MaxEdits /\ edits' = edits + 1
        /\ UNCHANGED <<strip, current, disk, buttons, confirm, sent, abandoned, unasked>>
    BY <1>2, <1>4, <1>9 DEF OpenFile, EditTab
  <2> QED
    BY <1>6, <1>7, <2>2, <2>3
<1>10. ASSUME NEW f \in Files, NEW ok \in BOOLEAN, SaveScript(f, ok)
       PROVE  WorkKept'
  <2> DEFINE here == CurrentShell
             kept == [shells[here] EXCEPT !.script = shells[here].text]
             storedText == [kept EXCEPT !.file = f, !.changed = FALSE, !.synced = kept.text]
  <2>a. /\ shells' = [shells EXCEPT ![here] = IF ok THEN Titled(storedText) ELSE kept]
        /\ disk' = IF ok THEN [disk EXCEPT ![f] = kept.text] ELSE disk
        /\ edits < MaxEdits /\ edits' = edits + 1
        /\ UNCHANGED <<strip, current, buttons, confirm, sent, abandoned, unasked>>
    BY <1>10 DEF SaveScript, WriteTo
  <2> HIDE DEF storedText
  <2>b. storedText = [kept EXCEPT !.file = f, !.changed = FALSE, !.synced = kept.text]
    BY DEF storedText
  <2> HIDE DEF kept
  <2>c. kept = [shells[here] EXCEPT !.script = shells[here].text]
    BY DEF kept
  <2> HIDE DEF here
  <2>d. here = n /\ shells[here] = sh
    BY <1>2, <1>4 DEF here
  <2>1. /\ kept \in Shell /\ kept.open = sh.open /\ kept.running = sh.running /\ kept.text = sh.text
        /\ kept.file = sh.file /\ kept.changed = sh.changed /\ kept.title = sh.title
        /\ kept.synced = sh.synced
    BY <1>5, <1>6, <2>c, <2>d DEF Shell
  <2>2. ShellOK(kept)
    BY <1>5, <2>1 DEF ShellOK
  <2>3. /\ storedText \in Shell /\ storedText.open = sh.open /\ storedText.running = sh.running
        /\ storedText.text = storedText.synced
    BY <1>6, <2>1, <2>b DEF Shell
  <2>4. ShellOK(Titled(storedText)) /\ Titled(storedText).open = sh.open /\ Titled(storedText).running = sh.running
    BY <2>3, TitledIsOK, TitledFacts
  <2>6. disk' \in [Files -> Texts]
    BY <1>6, <2>1, <2>a
  <2>7. CASE ok
    BY <1>7, <2>4, <2>a, <2>d, <2>6, <2>7
  <2>8. CASE ~ok
    BY <1>7, <2>1, <2>2, <2>a, <2>d, <2>6, <2>8
  <2> QED
    BY <2>7, <2>8
<1> QED
  BY <1>8, <1>9, <1>10

LEMMA ExecuteKeeps ==
  ASSUME WorkKept, NEW answer, CurrentShell > 0, Execute(shells[CurrentShell].text, answer)
  PROVE  WorkKept'
<1>1. PICK n : n = CurrentShell
  OBVIOUS
<1>2. n \in 1..Len(shells)
  BY <1>1, CurrentIsOpen
<1>3. PICK sh : sh = shells[n]
  OBVIOUS
<1>4. sh \in Shell /\ ShellOK(sh)
  BY <1>2, <1>3, WorkFacts
<1>5. sh.text \in Texts /\ sh.running \in Nat
  BY <1>4 DEF Shell
<1>6. CASE answer = "cancel"
  <2>1. UNCHANGED workVars
    BY <1>6 DEF Execute
  <2>2. UNCHANGED <<strip, current, shells, disk, buttons, confirm, edits, sent, abandoned, unasked>>
    BY <2>1 DEF workVars
  <2>3. BarOK' /\ ToSet(strip') \cap Nat = ToSet(strip) \cap Nat
    BY <2>2 DEF WorkKept, BarOK
  <2> QED
    BY <2>2, <2>3, BarKeeps
<1>7. CASE answer # "cancel"
  <2> PICK x : x = [sh EXCEPT !.script = sh.text, !.executing = TRUE, !.running = sh.running + 1]
    OBVIOUS
  <2>1. /\ shells' = [shells EXCEPT ![n].script = sh.text, ![n].executing = TRUE, ![n].running = @ + 1]
        /\ sent < MaxExecutions /\ sent' = sent + 1
        /\ confirm' = (confirm /\ answer # "never")
        /\ buttons' = [execute |-> FALSE, stop |-> TRUE]
        /\ UNCHANGED <<strip, current, disk, edits, abandoned, unasked>>
    BY <1>1, <1>3, <1>7 DEF Execute, Executing
  <2>2. shells' = [shells EXCEPT ![n] = x]
    BY <1>2, <1>3, <2>1, WorkFacts
  <2>3. /\ x \in Shell /\ x.open = sh.open /\ x.running = sh.running + 1 /\ x.file = sh.file
        /\ x.changed = sh.changed /\ x.title = sh.title /\ x.text = sh.text /\ x.synced = sh.synced
    <3>1. sh.running + 1 \in Nat
      BY <1>5
    <3> QED
      BY <1>4, <1>5, <3>1 DEF Shell
  <2>4. ShellOK(x)
    BY <1>4, <2>3 DEF ShellOK
  <2>5. /\ BarOK' /\ ShellsOK' /\ TabsAreShells' /\ DOMAIN shells' = 1..Len(shells)
        /\ \A j \in 1..Len(shells) : shells'[j] = IF j = n THEN x ELSE shells[j]
    BY <1>2, <1>3, <2>1, <2>2, <2>3, <2>4, UpdateKeeps
  <2>6. shells'[n].running > 0
    <3>1. shells'[n] = x /\ x.running > 0
      BY <1>2, <1>5, <2>3, <2>5
    <3> QED
      BY <3>1
  <2>7. ExecuteIsForRunning'
    BY <1>2, <2>5, <2>6 DEF ExecuteIsForRunning
  <2>8. sent \in 0..MaxExecutions /\ MaxExecutions \in Nat
    BY WorkFacts DEF WorkKept, RestTyped
  <2>9. sent' \in 0..MaxExecutions
    BY <2>1, <2>8
  <2>10. [execute |-> FALSE, stop |-> TRUE] \in [execute : BOOLEAN, stop : BOOLEAN]
    OBVIOUS
  <2>11. confirm' \in BOOLEAN
    BY <2>1
  <2>12. RestTyped'
    BY <2>1, <2>9, <2>10, <2>11 DEF WorkKept, RestTyped
  <2> QED
    BY <2>5, <2>7, <2>12 DEF WorkKept
<1> QED
  BY <1>6, <1>7

LEMMA HandleExecutedKeeps ==
  ASSUME WorkKept, NEW n \in DOMAIN shells, HandleExecuted(n)
  PROVE  WorkKept'
<1>2. n \in 1..Len(shells)
  BY WorkFacts
<1>3. PICK sh : sh = shells[n]
  OBVIOUS
<1>4. sh \in Shell /\ ShellOK(sh) /\ sh.running > 0 /\ sh.open
  BY <1>2, <1>3, WorkFacts DEF HandleExecuted
<1>5. sh.running \in Nat
  BY <1>4 DEF Shell
<1> PICK x : x = [sh EXCEPT !.running = sh.running - 1, !.executing = FALSE]
  OBVIOUS
<1>6. sh.running - 1 \in Nat
  BY <1>4, <1>5
<1>7. /\ x \in Shell /\ x.open = sh.open /\ x.file = sh.file /\ x.changed = sh.changed
      /\ x.title = sh.title /\ x.text = sh.text /\ x.synced = sh.synced
  BY <1>4, <1>6 DEF Shell
<1>8. ShellOK(Titled(x)) /\ Titled(x).open = sh.open
  <2>1. /\ Titled(x) \in Shell /\ Titled(x).open = sh.open /\ Titled(x).file = sh.file
        /\ Titled(x).text = sh.text /\ Titled(x).synced = sh.synced
        /\ Titled(x).changed = sh.changed /\ Titled(x).title.star = sh.changed
    BY <1>7, TitledFacts
  <2> QED
    BY <1>4, <2>1 DEF ShellOK
<1>9. /\ shells' = [shells EXCEPT ![n] = Titled(x)]
      /\ buttons' = [execute |-> TRUE, stop |-> FALSE] /\ abandoned' = FALSE
      /\ UNCHANGED <<strip, current, disk, confirm, edits, sent, unasked>>
  <2>1. /\ shells' = [shells EXCEPT ![n] =
                        Titled([shells[n] EXCEPT !.running = shells[n].running - 1, !.executing = FALSE])]
    BY DEF HandleExecuted
  <2>2. /\ buttons' = [execute |-> TRUE, stop |-> FALSE] /\ abandoned' = FALSE
        /\ UNCHANGED <<strip, current, disk, confirm, edits, sent, unasked>>
    BY DEF HandleExecuted, Executed
  <2> QED
    BY <1>3, <2>1, <2>2
<1>10. BarOK' /\ ShellsOK' /\ TabsAreShells'
  BY <1>2, <1>3, <1>8, <1>9, UpdateKeeps
<1>11. ExecuteIsForRunning'
  BY <1>9 DEF ExecuteIsForRunning
<1>12. [execute |-> TRUE, stop |-> FALSE] \in [execute : BOOLEAN, stop : BOOLEAN]
  OBVIOUS
<1>13. RestTyped'
  BY <1>9, <1>12 DEF WorkKept, RestTyped
<1> QED
  BY <1>10, <1>11, <1>13 DEF WorkKept

LEMMA WorkInitKept == WorkInit => WorkKept
<1> SUFFICES ASSUME WorkInit PROVE WorkKept
  OBVIOUS
<1>1. /\ strip = <<Welcome>> \/ strip = <<>>
      /\ current = Len(strip) /\ shells = <<>> /\ disk = [f \in Files |-> NoScript]
      /\ buttons = [execute |-> TRUE, stop |-> FALSE] /\ confirm = TRUE
      /\ edits = 0 /\ sent = 0 /\ abandoned = FALSE /\ unasked = {}
  BY DEF WorkInit
<1>2. /\ IsInjective(strip) /\ strip \in Seq(Page) /\ Len(strip) \in Nat
      /\ ToSet(strip) \subseteq {Welcome} /\ (Len(strip) = 0 <=> strip = <<>>)
  <2>1. CASE strip = <<Welcome>>
    <3>1. Len(strip) = 1 /\ DOMAIN strip = {1} /\ strip[1] = Welcome
      BY <2>1
    <3>2. strip \in Seq(Page) /\ Welcome \in Page
      BY <2>1 DEF Page
    <3>3. IsInjective(strip)
      BY <3>1 DEF IsInjective
    <3>4. ToSet(strip) = {Welcome}
      BY <3>1 DEF ToSet
    <3>5. strip # <<>>
      BY <3>1, <3>2, EmptySeq
    <3> QED
      BY <3>1, <3>2, <3>3, <3>4, <3>5
  <2>2. CASE strip = <<>>
    <3>1. Len(strip) = 0 /\ DOMAIN strip = {} /\ strip \in Seq(Page)
      BY <2>2, EmptySeq
    <3> QED
      BY <2>2, <3>1 DEF IsInjective, ToSet
  <2> QED
    BY <1>1, <2>1, <2>2
<1>3. BarOK
  BY <1>1, <1>2 DEF BarOK
<1>4. shells \in Seq(Shell) /\ DOMAIN shells = {}
  BY <1>1, EmptySeq
<1>5. Welcome \notin Nat
  BY DEF Welcome
<1>6. TabsAreShells
  BY <1>2, <1>4, <1>5 DEF TabsAreShells, Pages
<1>7. NoScript \in Texts /\ MaxEdits \in Nat /\ MaxExecutions \in Nat
  BY WorkAssumption DEF Texts
<1>a. 0 \in 0..MaxEdits /\ 0 \in 0..MaxExecutions
  BY <1>7
<1>b. disk \in [Files -> Texts] /\ [execute |-> TRUE, stop |-> FALSE] \in [execute : BOOLEAN, stop : BOOLEAN]
  BY <1>1, <1>7
<1>c. confirm \in BOOLEAN /\ abandoned \in BOOLEAN /\ unasked \subseteq Scripts
  BY <1>1
<1>8. RestTyped
  BY <1>1, <1>a, <1>b, <1>c DEF RestTyped
<1> QED
  BY <1>1, <1>3, <1>4, <1>6, <1>8 DEF WorkKept, ShellsOK, ExecuteIsForRunning

LEMMA WorkNextKept == WorkKept /\ [WorkNext]_workVars => WorkKept'
<1> SUFFICES ASSUME WorkKept, [WorkNext]_workVars PROVE WorkKept'
  OBVIOUS
<1>1. ASSUME NEW s \in Texts, NEW e \in BOOLEAN, OpenTab(s, e)
      PROVE  WorkKept'
  BY <1>1, OpenShellKeeps DEF OpenTab
<1>2. CASE DuplicateTab
  <2>1. CurrentShell > 0 /\ OpenShell(shells[CurrentShell].text, AutoExec)
    BY <1>2 DEF DuplicateTab
  <2>2. shells[CurrentShell] \in Shell
    BY <2>1, CurrentIsOpen, WorkFacts
  <2>3. shells[CurrentShell].text \in Texts /\ AutoExec \in BOOLEAN
    BY <2>2, WorkAssumption DEF Shell
  <2> QED
    BY <2>1, <2>3, OpenShellKeeps
<1>3. ASSUME NEW i \in DOMAIN strip, CloseTab(i) \/ CloseOthers(i) \/ CloseRight(i)
      PROVE  WorkKept'
  BY <1>3, ClosingKeeps
<1>4. CASE NextTab \/ PreviousTab
  BY <1>4, GoToKeeps DEF NextTab, PreviousTab
<1>5. CASE OpenHistory \/ OpenWelcome
  BY <1>5, OpenPageKeeps
<1>6. CASE \/ \E text \in Texts : Edit(text)
           \/ \E f \in Files : OpenFile(f)
           \/ \E f \in Files, ok \in BOOLEAN : SaveScript(f, ok)
  BY <1>6, EditingKeeps
<1>7. ASSUME NEW a, CurrentShell > 0, Execute(shells[CurrentShell].text, a)
      PROVE  WorkKept'
  BY <1>7, ExecuteKeeps
<1>8. ASSUME NEW n \in DOMAIN shells, HandleExecuted(n)
      PROVE  WorkKept'
  BY <1>8, HandleExecutedKeeps
<1>9. CASE UNCHANGED workVars
  <2>1. UNCHANGED <<strip, current, shells, disk, buttons, confirm, edits, sent, abandoned, unasked>>
    BY <1>9 DEF workVars
  <2>2. BarOK' /\ ToSet(strip') \cap Nat = ToSet(strip) \cap Nat
    BY <2>1 DEF WorkKept, BarOK
  <2> QED
    BY <2>1, <2>2, BarKeeps
<1>10. WorkUser => WorkKept'
  BY <1>1, <1>2, <1>3, <1>4, <1>5, <1>6, <1>7 DEF WorkUser
<1>11. WorkNext => WorkKept'
  BY <1>8, <1>10 DEF WorkNext, WorkAnswers
<1>12. WorkNext \/ UNCHANGED workVars
  OBVIOUS
<1> QED
  BY <1>9, <1>11, <1>12

LEMMA WorkKeptIsSound == WorkKept => WorkAreaIsSound
<1> SUFFICES ASSUME WorkKept PROVE WorkAreaIsSound
  OBVIOUS
<1>1. WorkTypeOK
  BY DEF WorkKept, BarOK, ShellsOK, RestTyped, WorkTypeOK, Page
<1>2. StarTellsUnsaved
  BY DEF WorkKept, ShellsOK, ShellOK, StarTellsUnsaved
<1> QED
  BY <1>1, <1>2 DEF WorkKept, WorkAreaIsSound

\* WorkAreaTabWidget.cpp, QueryWidget.cpp, MainWindow.cpp: in whatever order pages are
\* opened, closed and walked through, texts edited, loaded and saved and scripts run, the
\* query tabs of the bar are the shells alive, a title without a star is that of a text
\* in its file, and Execute is greyed out only while a script runs, as long as no tab was
\* closed with its script.
THEOREM TabsAndTitlesAreTrue == WorkSpec => []WorkAreaIsSound
<1> QED
  BY WorkInitKept, WorkNextKept, WorkKeptIsSound, PTL DEF WorkSpec
-----------------------------------------------------------------------------
(* The frame of the window. *)

FrameSizes == Sizes \cup {Default, Floor}
Geometry == [flags : SUBSET Special, size : FrameSizes]

\* The special states do not mix, but for a maximized window that is minimized.
FlagsAreSound(fl) == "max" \in fl => fl \subseteq {"max", "min"}

\* What was stored when the window closed.
StoredIsSound ==
  stored # <<>> => /\ stored[1].flags \subseteq Special /\ stored[1].size \in FrameSizes
                   /\ "min" \notin stored[1].flags
                   /\ FlagsAreSound(stored[1].flags)

\* Whatever may yet maximize the window does what the user asked for last: the flag armed
\* when the surface went, and the timer it leaves when the surface is back.
IntentsAreAsked ==
  /\ armed \in BOOLEAN /\ mapped \in BOOLEAN
  /\ FlagsAreSound(flags)
  /\ armed => ~mapped /\ wish = {"max"}
  /\ \A i \in DOMAIN timers : timers[i] = "maximize" => wish = {"max"}

\* The inductive invariant.
FrameInv == FrameIsSound /\ StoredIsSound /\ IntentsAreAsked

LEMMA FrameInitInv == FrameInit => FrameInv
<1> SUFFICES ASSUME FrameInit PROVE FrameInv
  OBVIOUS
<1>1. /\ flags = {} /\ size = Default /\ normalGeometry = Default /\ mapped = FALSE
      /\ armed = FALSE /\ timers = <<>> /\ DOMAIN timers = {}
      /\ stored = <<>> /\ moves = 0 /\ timers \in Seq({"fixSize", "maximize"})
  BY EmptySeq DEF FrameInit
<1>2. FrameTypeOK /\ ReturnSizeIsGood
  BY <1>1, FrameAssumption DEF FrameTypeOK, ReturnSizeIsGood, IsFloored
<1>3. NeverMaximizedUnasked /\ StoredIsSound /\ IntentsAreAsked
  BY <1>1 DEF NeverMaximizedUnasked, StoredIsSound, IntentsAreAsked, FlagsAreSound
<1> QED
  BY <1>2, <1>3 DEF FrameInv, FrameIsSound

\* The size remembered is never the floor.
LEMMA RememberedIsGood ==
  ASSUME FrameInv, NEW fl, NEW s \in FrameSizes
  PROVE  Remembered(fl, s) \in FrameSizes /\ ~IsFloored(Remembered(fl, s))
BY DEF Remembered, FrameInv, FrameIsSound, FrameTypeOK, ReturnSizeIsGood, FrameSizes

\* A deferred check more: only "maximize" needs the user's wish.
LEMMA TimerSet ==
  ASSUME NEW q, q \in Seq({"fixSize", "maximize"}), NEW k \in {"fixSize", "maximize"}
  PROVE  /\ Append(q, k) \in Seq({"fixSize", "maximize"})
         /\ \A i \in DOMAIN Append(q, k) : (i \in DOMAIN q /\ Append(q, k)[i] = q[i]) \/ Append(q, k)[i] = k
<1>1. /\ Append(q, k) \in Seq({"fixSize", "maximize"}) /\ Len(Append(q, k)) = Len(q) + 1
      /\ \A i \in 1..Len(q) : Append(q, k)[i] = q[i]
      /\ Append(q, k)[Len(q) + 1] = k
  BY AppendProperties
<1>2. DOMAIN q = 1..Len(q) /\ Len(q) \in Nat /\ DOMAIN Append(q, k) = 1..(Len(q) + 1)
  BY <1>1, LenProperties
<1> QED
  BY <1>1, <1>2

LEMMA TimerGone ==
  ASSUME NEW q, q \in Seq({"fixSize", "maximize"}), q # <<>>
  PROVE  /\ Tail(q) \in Seq({"fixSize", "maximize"}) /\ Head(q) = q[1] /\ 1 \in DOMAIN q
         /\ \A i \in DOMAIN Tail(q) : i + 1 \in DOMAIN q /\ Tail(q)[i] = q[i + 1]
<1>1. /\ Tail(q) \in Seq({"fixSize", "maximize"}) /\ Len(Tail(q)) = Len(q) - 1
      /\ \A i \in 1..Len(Tail(q)) : Tail(q)[i] = q[i + 1]
      /\ Len(q) \in Nat \ {0}
  BY HeadTailProperties, EmptySeq
<1>2. DOMAIN q = 1..Len(q) /\ DOMAIN Tail(q) = 1..(Len(q) - 1)
  BY <1>1, LenProperties
<1> QED
  BY <1>1, <1>2

\* What is left when the parts of the invariant are known to hold after a step.
LEMMA FrameParts ==
  ASSUME FrameInv, flags' \subseteq Special, FlagsAreSound(flags'),
         size' \in FrameSizes, normalGeometry' \in FrameSizes, ~IsFloored(normalGeometry'),
         timers' \in Seq({"fixSize", "maximize"}),
         UNCHANGED stored, moves' \in 0..MaxMoves,
         "max" \in flags' => wish' = {"max"},
         armed' \in BOOLEAN, mapped' \in BOOLEAN,
         armed' => ~mapped' /\ wish' = {"max"},
         \A i \in DOMAIN timers' : timers'[i] = "maximize" => wish' = {"max"}
  PROVE  FrameInv'
BY DEF FrameInv, FrameIsSound, FrameTypeOK, ReturnSizeIsGood, NeverMaximizedUnasked, StoredIsSound,
       IntentsAreAsked, FlagsAreSound, IsFloored, FrameSizes

\* A move of the user: every timer has expired.
LEMMA MovesFacts ==
  ASSUME FrameInv, Moves
  PROVE  timers = <<>> /\ DOMAIN timers = {} /\ moves' \in 0..MaxMoves
BY FrameAssumption DEF Moves, FrameInv, FrameIsSound, FrameTypeOK

\* What the invariant says of one state.
LEMMA FrameNow ==
  ASSUME FrameInv
  PROVE  /\ flags \subseteq Special /\ FlagsAreSound(flags)
         /\ size \in FrameSizes /\ normalGeometry \in FrameSizes /\ ~IsFloored(normalGeometry)
         /\ timers \in Seq({"fixSize", "maximize"}) /\ moves \in 0..MaxMoves
         /\ "max" \in flags => wish = {"max"}
         /\ armed \in BOOLEAN /\ mapped \in BOOLEAN
         /\ armed => ~mapped /\ wish = {"max"}
         /\ \A i \in DOMAIN timers : timers[i] = "maximize" => wish = {"max"}
BY DEF FrameInv, FrameIsSound, FrameTypeOK, ReturnSizeIsGood, NeverMaximizedUnasked,
       IntentsAreAsked, FrameSizes

LEMMA LaunchedKeeps ==
  ASSUME FrameInv, Launched
  PROVE  FrameInv'
<1>1. PICK blob : blob = IF stored = <<>> THEN [flags |-> {}, size |-> Default] ELSE stored[1]
  OBVIOUS
<1>2. /\ flags' = blob.flags /\ size' = blob.size /\ wish' = blob.flags
      /\ normalGeometry' = IF blob.flags = {} /\ ~IsFloored(blob.size) THEN blob.size ELSE Default
      /\ mapped' = TRUE /\ armed' = FALSE /\ timers' = <<>>
      /\ UNCHANGED <<stored, moves>>
  BY <1>1 DEF Launched
<1>3. /\ blob.flags \subseteq Special /\ blob.size \in FrameSizes
      /\ "min" \notin blob.flags /\ FlagsAreSound(blob.flags)
  BY <1>1 DEF FrameInv, StoredIsSound, FlagsAreSound, FrameSizes
<1>4. "max" \in blob.flags => blob.flags = {"max"}
  BY <1>3 DEF FlagsAreSound
<1>5. normalGeometry' \in FrameSizes /\ ~IsFloored(normalGeometry')
  BY <1>2, <1>3, FrameAssumption DEF FrameSizes, IsFloored
<1>6. timers' \in Seq({"fixSize", "maximize"}) /\ DOMAIN timers' = {}
  BY <1>2, EmptySeq
<1>7. moves' \in 0..MaxMoves
  BY <1>2, FrameNow
<1> QED
  BY <1>2, <1>3, <1>4, <1>5, <1>6, <1>7, FrameParts

LEMMA LeaveKeeps ==
  ASSUME FrameInv, NEW s \in FrameSizes, timers = <<>>, LeftSpecialState(flags, {}, s)
  PROVE  /\ size' \in FrameSizes /\ normalGeometry' \in FrameSizes /\ ~IsFloored(normalGeometry')
         /\ timers' \in Seq({"fixSize", "maximize"})
         /\ \A i \in DOMAIN timers' : timers'[i] # "maximize"
<1>1. /\ timers' = IF flags # {} /\ {} = {} THEN Append(timers, "fixSize") ELSE timers
      /\ size' = s /\ normalGeometry' = Remembered({}, s)
  BY DEF LeftSpecialState
<1>2. timers \in Seq({"fixSize", "maximize"}) /\ DOMAIN timers = {}
  BY FrameNow
<1>3. /\ Append(timers, "fixSize") \in Seq({"fixSize", "maximize"})
      /\ \A i \in DOMAIN Append(timers, "fixSize") : Append(timers, "fixSize")[i] = "fixSize"
  BY <1>2, TimerSet
<1>4. /\ timers' \in Seq({"fixSize", "maximize"})
      /\ \A i \in DOMAIN timers' : timers'[i] # "maximize"
  BY <1>1, <1>2, <1>3
<1> QED
  BY <1>1, <1>4, RememberedIsGood

LEMMA EnterKeeps ==
  ASSUME FrameInv, Moves, mapped, NEW fl \in {{"max"}, {"full"}}, Enter(fl)
  PROVE  FrameInv'
<1>1. /\ flags' = fl /\ wish' = fl
      /\ UNCHANGED <<size, normalGeometry, mapped, armed, timers, stored>>
  BY DEF Enter
<1>2. flags' \subseteq Special /\ FlagsAreSound(flags') /\ ("max" \in flags' => wish' = {"max"})
  BY <1>1 DEF Special, FlagsAreSound
<1>3. timers = <<>> /\ DOMAIN timers = {} /\ moves' \in 0..MaxMoves
  BY MovesFacts
<1>4. ~armed
  BY FrameNow
<1> QED
  BY <1>1, <1>2, <1>3, <1>4, FrameNow, FrameParts

LEMMA UnmaximizeKeeps ==
  ASSUME FrameInv, NEW s, Unmaximize(s)
  PROVE  FrameInv'
<1>1. /\ Moves /\ mapped /\ s \in {size, Floor} /\ flags' = {}
      /\ LeftSpecialState(flags, {}, s)
      /\ UNCHANGED <<mapped, armed, stored>>
  BY DEF Unmaximize
<1>2. s \in FrameSizes
  BY <1>1, FrameNow DEF FrameSizes
<1>3. timers = <<>> /\ moves' \in 0..MaxMoves
  BY <1>1, MovesFacts
<1>4. /\ size' \in FrameSizes /\ normalGeometry' \in FrameSizes /\ ~IsFloored(normalGeometry')
      /\ timers' \in Seq({"fixSize", "maximize"})
      /\ \A i \in DOMAIN timers' : timers'[i] # "maximize"
  BY <1>1, <1>2, <1>3, LeaveKeeps
<1>5. ~armed /\ flags' \subseteq Special /\ FlagsAreSound(flags') /\ "max" \notin flags'
  BY <1>1, FrameNow DEF FlagsAreSound
<1> QED
  BY <1>1, <1>3, <1>4, <1>5, FrameNow, FrameParts

LEMMA MinimizeKeeps ==
  ASSUME FrameInv, NEW s, Minimize(s)
  PROVE  FrameInv'
<1>1. /\ Moves /\ mapped /\ "full" \notin flags /\ s \in {size, Floor}
      /\ mapped' = FALSE /\ armed' = ("max" \in flags)
      /\ UNCHANGED <<stored, wish>>
      /\ \/ flags' = {} /\ LeftSpecialState(flags, {}, s)
         \/ flags' = flags \cup {"min"} /\ UNCHANGED <<size, normalGeometry, timers>>
  BY DEF Minimize, Unmapped, Intent
<1>2. s \in FrameSizes
  BY <1>1, FrameNow DEF FrameSizes
<1>3. timers = <<>> /\ DOMAIN timers = {} /\ moves' \in 0..MaxMoves
  BY <1>1, MovesFacts
<1>4. armed' \in BOOLEAN /\ (armed' => "max" \in flags)
  <2>1. armed' = ("max" \in flags)
    BY <1>1
  <2>2. ("max" \in flags) \in BOOLEAN
    OBVIOUS
  <2> QED
    BY <2>1, <2>2, Zenon
<1>5. armed' => wish' = {"max"}
  BY <1>1, <1>4, FrameNow
<1>6. CASE flags' = {} /\ LeftSpecialState(flags, {}, s)
  <2>1. /\ size' \in FrameSizes /\ normalGeometry' \in FrameSizes /\ ~IsFloored(normalGeometry')
        /\ timers' \in Seq({"fixSize", "maximize"})
        /\ \A i \in DOMAIN timers' : timers'[i] # "maximize"
    BY <1>2, <1>3, <1>6, LeaveKeeps
  <2>2. flags' \subseteq Special /\ FlagsAreSound(flags') /\ "max" \notin flags'
    BY <1>6 DEF FlagsAreSound
  <2> QED
    BY <1>1, <1>3, <1>4, <1>5, <2>1, <2>2, FrameParts
<1>7. CASE flags' = flags \cup {"min"} /\ UNCHANGED <<size, normalGeometry, timers>>
  <2>1. flags' \subseteq Special /\ FlagsAreSound(flags')
    BY <1>7, FrameNow DEF FlagsAreSound, Special
  <2>2. "max" \in flags' => wish' = {"max"}
    BY <1>1, <1>7, FrameNow
  <2> QED
    BY <1>1, <1>3, <1>4, <1>5, <1>7, <2>1, <2>2, FrameNow, FrameParts
<1> QED
  BY <1>1, <1>6, <1>7

LEMMA RestoreWaylandKeeps ==
  ASSUME FrameInv, RestoreWayland
  PROVE  FrameInv'
<1>1. /\ Moves /\ mapped' = TRUE
      /\ \/ armed /\ timers' = Append(timers, "maximize") /\ armed' = FALSE
         \/ ~armed /\ UNCHANGED <<timers, armed>>
      /\ UNCHANGED <<flags, size, normalGeometry, stored, wish>>
  BY DEF RestoreWayland, Remapped
<1>2. timers = <<>> /\ DOMAIN timers = {} /\ moves' \in 0..MaxMoves
      /\ timers \in Seq({"fixSize", "maximize"})
  BY <1>1, MovesFacts, FrameNow
<1>3. armed' = FALSE
  BY <1>1, FrameNow
<1>4. /\ timers' \in Seq({"fixSize", "maximize"})
      /\ \A i \in DOMAIN timers' : timers'[i] = "maximize" => armed
  BY <1>1, <1>2, TimerSet
<1> QED
  BY <1>1, <1>2, <1>3, <1>4, FrameNow, FrameParts

LEMMA RestoreElsewhereKeeps ==
  ASSUME FrameInv, NEW fl, NEW s, RestoreElsewhere(fl, s)
  PROVE  FrameInv'
<1>1. PICK fix : fix = IF fl = {} THEN Append(timers, "fixSize") ELSE timers
  OBVIOUS
<1>2. /\ Moves /\ fl \in {flags \ {"min"}, {}} /\ s \in {size, Floor}
      /\ mapped' = TRUE /\ flags' = fl /\ size' = s /\ normalGeometry' = Remembered(fl, s)
      /\ \/ armed /\ timers' = Append(fix, "maximize") /\ armed' = FALSE
         \/ ~armed /\ timers' = fix /\ UNCHANGED armed
      /\ UNCHANGED <<stored, wish>>
  BY <1>1 DEF RestoreElsewhere
<1>3. timers = <<>> /\ DOMAIN timers = {} /\ moves' \in 0..MaxMoves
      /\ timers \in Seq({"fixSize", "maximize"}) /\ s \in FrameSizes
  BY <1>2, MovesFacts, FrameNow DEF FrameSizes
<1>4. /\ fix \in Seq({"fixSize", "maximize"})
      /\ \A i \in DOMAIN fix : fix[i] # "maximize"
  BY <1>1, <1>3, TimerSet
<1>5. armed' = FALSE
  BY <1>2, FrameNow
<1>6. /\ timers' \in Seq({"fixSize", "maximize"})
      /\ \A i \in DOMAIN timers' : timers'[i] = "maximize" => armed
  BY <1>2, <1>4, TimerSet
<1>7. flags' \subseteq Special /\ FlagsAreSound(flags') /\ ("max" \in flags' => "max" \in flags)
  BY <1>2, FrameNow DEF FlagsAreSound
<1>8. size' \in FrameSizes /\ normalGeometry' \in FrameSizes /\ ~IsFloored(normalGeometry')
  BY <1>2, <1>3, RememberedIsGood
<1> QED
  BY <1>2, <1>3, <1>5, <1>6, <1>7, <1>8, FrameNow, FrameParts

LEMMA FixSizeKeeps ==
  ASSUME FrameInv, FixSize
  PROVE  FrameInv'
<1>1. /\ timers # <<>> /\ timers' = Tail(timers)
      /\ \/ UNCHANGED <<size, normalGeometry>>
         \/ /\ size' = IF IsFloored(normalGeometry) THEN Default ELSE normalGeometry
            /\ normalGeometry' = Remembered(flags, size')
      /\ UNCHANGED <<flags, mapped, armed, stored, wish, moves>>
  BY DEF FixSize
<1>2. /\ timers' \in Seq({"fixSize", "maximize"})
      /\ \A i \in DOMAIN timers' : timers'[i] = "maximize" => wish' = {"max"}
  BY <1>1, TimerGone, FrameNow
<1>3. size' \in FrameSizes
  BY <1>1, FrameNow DEF FrameSizes
<1>4. normalGeometry' \in FrameSizes /\ ~IsFloored(normalGeometry')
  BY <1>1, <1>3, RememberedIsGood, FrameNow
<1> QED
  BY <1>1, <1>2, <1>3, <1>4, FrameNow, FrameParts

LEMMA MaximizeAgainKeeps ==
  ASSUME FrameInv, MaximizeAgain
  PROVE  FrameInv'
<1>1. /\ timers # <<>> /\ Head(timers) = "maximize" /\ timers' = Tail(timers)
      /\ flags' = {"max"} \/ flags' = flags
      /\ UNCHANGED <<size, normalGeometry, mapped, armed, stored, wish, moves>>
  BY DEF MaximizeAgain
<1>2. wish = {"max"}
  BY <1>1, TimerGone, FrameNow
<1>3. timers' \in Seq({"fixSize", "maximize"})
  BY <1>1, TimerGone, FrameNow
<1>4. flags' \subseteq Special /\ FlagsAreSound(flags')
  BY <1>1, FrameNow DEF FlagsAreSound, Special
<1> QED
  BY <1>1, <1>2, <1>3, <1>4, FrameNow, FrameParts

LEMMA CloseWindowKeeps ==
  ASSUME FrameInv, CloseWindow
  PROVE  FrameInv'
<1>1. /\ Moves /\ mapped' = FALSE
      /\ stored' = IF "min" \in flags THEN stored ELSE <<[flags |-> flags, size |-> size]>>
      /\ UNCHANGED <<flags, size, normalGeometry, armed, timers, wish>>
  BY DEF CloseWindow
<1>2. moves' \in 0..MaxMoves
  BY <1>1, MovesFacts
<1>3. CASE "min" \in flags
  BY <1>1, <1>2, <1>3, FrameNow, FrameParts
<1>4. CASE "min" \notin flags
  <2>1. PICK g : g = [flags |-> flags, size |-> size]
    OBVIOUS
  <2>2. stored' = <<g>> /\ stored'[1] = g /\ g.flags = flags /\ g.size = size
    BY <1>1, <1>4, <2>1
  <2>3. StoredIsSound' /\ (stored' # <<>> => "min" \notin stored'[1].flags)
    BY <1>4, <2>2, FrameNow DEF StoredIsSound
  <2> QED
    BY <1>1, <1>2, <2>3 DEF FrameInv, FrameIsSound, FrameTypeOK, ReturnSizeIsGood,
       NeverMaximizedUnasked, IntentsAreAsked
<1> QED
  BY <1>3, <1>4

LEMMA FrameIsInductive == FrameInv /\ [FrameNext]_frameVars => FrameInv'
<1> SUFFICES ASSUME FrameInv, [FrameNext]_frameVars PROVE FrameInv'
  OBVIOUS
<1>1. CASE Launched
  BY <1>1, LaunchedKeeps
<1>2. ASSUME NEW s \in Sizes \cup {Floor}, Resize(s) PROVE FrameInv'
  <2>1. /\ Moves /\ size' = s /\ normalGeometry' = Remembered(flags, s)
        /\ UNCHANGED <<flags, mapped, armed, timers, stored, wish>>
    BY <1>2 DEF Resize
  <2>2. s \in FrameSizes /\ moves' \in 0..MaxMoves
    BY <2>1, MovesFacts DEF FrameSizes
  <2>3. normalGeometry' \in FrameSizes /\ ~IsFloored(normalGeometry')
    BY <2>1, <2>2, RememberedIsGood
  <2> QED
    BY <2>1, <2>2, <2>3, FrameNow, FrameParts
<1>3. CASE Maximize
  BY <1>3, EnterKeeps DEF Maximize
<1>4. CASE FullScreen
  BY <1>4, EnterKeeps DEF FullScreen
<1>5. CASE Flicker
  BY <1>5, MovesFacts, FrameNow, FrameParts DEF Flicker
<1>6. ASSUME NEW s, Unmaximize(s) PROVE FrameInv'
  BY <1>6, UnmaximizeKeeps
<1>7. ASSUME NEW s, Minimize(s) PROVE FrameInv'
  BY <1>7, MinimizeKeeps
<1>8. CASE RestoreWayland
  BY <1>8, RestoreWaylandKeeps
<1>9. ASSUME NEW fl, NEW s, RestoreElsewhere(fl, s) PROVE FrameInv'
  BY <1>9, RestoreElsewhereKeeps
<1>10. CASE CloseWindow
  BY <1>10, CloseWindowKeeps
<1>11. CASE FixSize
  BY <1>11, FixSizeKeeps
<1>12. CASE MaximizeAgain
  BY <1>12, MaximizeAgainKeeps
<1>13. CASE UNCHANGED frameVars
  BY <1>13, FrameNow, FrameParts DEF frameVars
<1> QED
  BY <1>1, <1>2, <1>3, <1>4, <1>5, <1>6, <1>7, <1>8, <1>9, <1>10, <1>11, <1>12, <1>13
     DEF FrameNext, FrameUser, FrameTimer

\* MainWindow.cpp:1234-1243, 1281-1311: whatever the window manager collapses, hides and
\* flickers, the size to return to is never the collapsed one, and no window is maximized
\* that its user had made normal.
THEOREM FrameIsRepaired == FrameSpec => []FrameIsSound
<1>1. FrameInv => FrameIsSound
  BY DEF FrameInv
<1> QED
  BY <1>1, FrameInitInv, FrameIsInductive, PTL DEF FrameSpec
-----------------------------------------------------------------------------
(* The notices. *)

\* A failure was told to the program.
HasFailed(h) == failing[h] < Reports

\* The handles shown grow, the last of them is lastServerHandle, and no server opened after
\* it has failed.
ToldAreOfFailures ==
  /\ told \in Seq(Handles) /\ lastServerHandle \in Int
  /\ \A i, j \in DOMAIN told : i < j => told[i] < told[j]
  /\ \A i \in DOMAIN told : told[i] <= lastServerHandle
  /\ lastServerHandle = -1
     \/ (lastServerHandle \in Handles /\ lastServerHandle \in ToSet(told) /\ HasFailed(lastServerHandle))
  /\ \A h \in Handles : HasFailed(h) => h <= lastServerHandle

\* The inductive invariant.
NoticesInv == NoticesTypeOK /\ SilentChecksAreSilent /\ ToldAreOfFailures

LEMMA NoticesInitInv == NoticesInit => NoticesInv
<1> SUFFICES ASSUME NoticesInit PROVE NoticesInv
  OBVIOUS
<1>1. /\ checks = <<>> /\ updateBar = FALSE /\ enabled \in BOOLEAN /\ online \in BOOLEAN
      /\ failing = [h \in Handles |-> Reports]
      /\ lastServerHandle = -1 /\ told = <<>> /\ boxes = <<>>
  BY DEF NoticesInit
<1>2. /\ DOMAIN checks = {} /\ DOMAIN told = {} /\ Len(checks) = 0
      /\ checks \in Seq(Check) /\ told \in Seq(Handles)
      /\ boxes \in Seq({"offline", "update", "failure"})
  BY <1>1, EmptySeq
<1>3. NoticesTypeOK
  <2>1. failing \in [Handles -> 0..Reports] /\ Len(checks) <= MaxChecks
    BY <1>1, <1>2, NoticesAssumption DEF Reports
  <2> QED
    BY <1>1, <1>2, <2>1 DEF NoticesTypeOK
<1>4. SilentChecksAreSilent
  BY <1>2 DEF SilentChecksAreSilent
<1>5. ToldAreOfFailures
  BY <1>1, <1>2 DEF ToldAreOfFailures, HasFailed, Reports
<1> QED
  BY <1>3, <1>4, <1>5 DEF NoticesInv

\* A check more, which nobody has answered.
LEMMA CheckSent ==
  ASSUME NoticesInv, NEW byHand \in BOOLEAN, CheckForUpdate(byHand)
  PROVE  checks' \in Seq(Check) /\ Len(checks') <= MaxChecks /\ SilentChecksAreSilent'
<1>1. PICK c : c = [byHand |-> byHand, pending |-> TRUE, answer |-> "none"]
  OBVIOUS
<1>2. c \in Check /\ c.answer = "none"
  BY <1>1 DEF Check
<1>3. Len(checks) < MaxChecks /\ checks' = Append(checks, c)
  BY <1>1 DEF CheckForUpdate
<1>4. checks \in Seq(Check) /\ DOMAIN checks = 1..Len(checks) /\ Len(checks) \in Nat
  BY LenProperties DEF NoticesInv, NoticesTypeOK
<1>5. /\ checks' \in Seq(Check) /\ Len(checks') = Len(checks) + 1
      /\ DOMAIN checks' = 1..(Len(checks) + 1)
      /\ \A i \in 1..Len(checks) : checks'[i] = checks[i]
      /\ checks'[Len(checks) + 1] = c
  BY <1>2, <1>3, <1>4, AppendProperties, LenProperties
<1>6. \A i \in DOMAIN checks' : (i \in DOMAIN checks /\ checks'[i] = checks[i]) \/ checks'[i] = c
  BY <1>4, <1>5
<1>7. SilentChecksAreSilent'
  BY <1>2, <1>6 DEF SilentChecksAreSilent, NoticesInv
<1> QED
  BY <1>3, <1>4, <1>5, <1>7, NoticesAssumption

\* A box more, of any kind.
LEMMA BoxOpened ==
  ASSUME boxes \in Seq({"offline", "update", "failure"}),
         NEW box \in {"offline", "update", "failure"}
  PROVE  Append(boxes, box) \in Seq({"offline", "update", "failure"})
BY AppendProperties

LEMMA OnReplyKeeps ==
  ASSUME NoticesInv, NEW i \in Nat, NEW outcome \in Outcomes, OnReply(i, outcome)
  PROVE  NoticesInv'
<1>1. PICK answer : answer = IF outcome = "newer" THEN "banner" ELSE IF IsByHand(i) THEN "box" ELSE "none"
  OBVIOUS
<1>2. /\ i \in DOMAIN checks
      /\ checks' = [checks EXCEPT ![i].pending = FALSE, ![i].answer = answer]
      /\ updateBar' = (updateBar \/ answer = "banner")
      /\ boxes' = IF answer = "box" THEN Append(boxes, "update") ELSE boxes
      /\ UNCHANGED <<enabled, online, failing, lastServerHandle, told>>
  BY <1>1 DEF OnReply
<1>3. /\ checks \in Seq(Check) /\ DOMAIN checks = 1..Len(checks) /\ Len(checks) \in Nat
      /\ boxes \in Seq({"offline", "update", "failure"}) /\ updateBar \in BOOLEAN
      /\ Len(checks) <= MaxChecks
  BY LenProperties DEF NoticesInv, NoticesTypeOK
<1>4. checks[i] \in Check
  BY <1>2, <1>3, ElementOfSeq
<1>5. answer \in {"none", "box", "banner"} /\ (answer = "box" => checks[i].byHand)
  BY <1>1 DEF IsByHand
<1>6. PICK c : c = [checks[i] EXCEPT !.pending = FALSE, !.answer = answer]
  OBVIOUS
<1>7. c \in Check /\ c.answer = answer /\ c.byHand = checks[i].byHand
  BY <1>4, <1>5, <1>6 DEF Check
<1>8. checks' = [checks EXCEPT ![i] = c]
  BY <1>2, <1>3, <1>4, <1>6 DEF Check
<1>9. /\ checks' \in Seq(Check) /\ Len(checks') = Len(checks)
      /\ \A j \in 1..Len(checks) : checks'[j] = IF j = i THEN c ELSE checks[j]
  <2>1. /\ [checks EXCEPT ![i] = c] \in Seq(Check) /\ Len([checks EXCEPT ![i] = c]) = Len(checks)
        /\ \A j \in 1..Len(checks) : [checks EXCEPT ![i] = c][j] = IF j = i THEN c ELSE checks[j]
    BY <1>2, <1>3, <1>7, ExceptSeq
  <2> QED
    BY <1>8, <2>1, Zenon
<1>10. DOMAIN checks' = 1..Len(checks)
  BY <1>3, <1>8
<1>11. SilentChecksAreSilent'
  BY <1>3, <1>5, <1>7, <1>9, <1>10 DEF SilentChecksAreSilent, NoticesInv
<1>12. boxes' \in Seq({"offline", "update", "failure"}) /\ updateBar' \in BOOLEAN
  BY <1>2, <1>3, BoxOpened
<1>13. NoticesTypeOK'
  BY <1>2, <1>3, <1>9, <1>12 DEF NoticesTypeOK, NoticesInv
<1>14. ToldAreOfFailures'
  BY <1>2 DEF ToldAreOfFailures, NoticesInv, HasFailed
<1> QED
  BY <1>11, <1>13, <1>14 DEF NoticesInv

LEMMA ConnectionFailedKeeps ==
  ASSUME NoticesInv, NEW h \in Handles, ConnectionFailed(h)
  PROVE  NoticesInv'
<1>1. /\ failing[h] > 0 /\ failing' = [failing EXCEPT ![h] = @ - 1]
      /\ UNCHANGED <<checks, updateBar, enabled, online>>
      /\ \/ h <= lastServerHandle /\ UNCHANGED <<lastServerHandle, told, boxes>>
         \/ /\ ~(h <= lastServerHandle) /\ lastServerHandle' = h /\ told' = Append(told, h)
            /\ boxes' = Append(boxes, "failure")
  BY DEF ConnectionFailed, IsOld
<1>2. /\ failing \in [Handles -> 0..Reports] /\ boxes \in Seq({"offline", "update", "failure"})
      /\ told \in Seq(Handles) /\ lastServerHandle \in Int
      /\ DOMAIN told = 1..Len(told) /\ Len(told) \in Nat
      /\ h \in Int /\ Handles \subseteq Int
  BY NoticesAssumption, LenProperties DEF NoticesInv, NoticesTypeOK, ToldAreOfFailures
<1>3. failing' \in [Handles -> 0..Reports]
  BY <1>1, <1>2 DEF Reports
<1>4. /\ \A g \in Handles : HasFailed(g)' => HasFailed(g) \/ g = h
      /\ \A g \in Handles : HasFailed(g) => HasFailed(g)'
      /\ HasFailed(h)'
  BY <1>1, <1>2 DEF HasFailed, Reports
<1>5. SilentChecksAreSilent'
  BY <1>1 DEF SilentChecksAreSilent, NoticesInv
<1>6. CASE h <= lastServerHandle /\ UNCHANGED <<lastServerHandle, told, boxes>>
  <2>1. ToldAreOfFailures'
    BY <1>4, <1>6 DEF ToldAreOfFailures, NoticesInv
  <2>2. NoticesTypeOK'
    BY <1>1, <1>3, <1>6 DEF NoticesTypeOK, NoticesInv
  <2> QED
    BY <1>5, <2>1, <2>2 DEF NoticesInv
<1>7. CASE /\ ~(h <= lastServerHandle) /\ lastServerHandle' = h /\ told' = Append(told, h)
           /\ boxes' = Append(boxes, "failure")
  <2>1. /\ told' \in Seq(Handles) /\ Len(told') = Len(told) + 1
        /\ DOMAIN told' = 1..(Len(told) + 1)
        /\ \A i \in 1..Len(told) : told'[i] = told[i]
        /\ told'[Len(told) + 1] = h
    BY <1>2, <1>7, AppendProperties, LenProperties
  <2>2. lastServerHandle < h
    BY <1>2, <1>7
  <2>3. \A i \in DOMAIN told : told[i] <= lastServerHandle /\ told[i] \in Int
    BY <1>2, ElementOfSeq DEF NoticesInv, ToldAreOfFailures
  <2>4. \A i \in DOMAIN told' : told'[i] <= h
    BY <1>2, <2>1, <2>2, <2>3
  <2>5. \A i, j \in DOMAIN told' : i < j => told'[i] < told'[j]
    <3> SUFFICES ASSUME NEW i \in DOMAIN told', NEW j \in DOMAIN told', i < j
                 PROVE  told'[i] < told'[j]
      OBVIOUS
    <3>1. i \in DOMAIN told /\ told'[i] = told[i]
      BY <1>2, <2>1
    <3>2. CASE j \in DOMAIN told
      BY <1>2, <2>1, <3>1, <3>2 DEF NoticesInv, ToldAreOfFailures
    <3>3. CASE j = Len(told) + 1
      BY <1>2, <2>1, <2>2, <2>3, <3>1, <3>3
    <3> QED
      BY <1>2, <2>1, <3>2, <3>3
  <2>6. \A g \in Handles : HasFailed(g)' => g <= h
    BY <1>2, <1>4, <2>2 DEF NoticesInv, ToldAreOfFailures
  <2>7. h \in ToSet(told')
    BY <1>2, <2>1 DEF ToSet
  <2>8. ToldAreOfFailures'
    BY <1>2, <1>4, <1>7, <2>1, <2>4, <2>5, <2>6, <2>7 DEF ToldAreOfFailures, HasFailed
  <2>9. \A i, j \in DOMAIN told' : i < j => told'[i] <= told'[j]
    <3>1. \A i \in DOMAIN told' : told'[i] \in Int
      BY <1>2, <2>1, ElementOfSeq
    <3> QED
      BY <2>5, <3>1
  <2>10. boxes' \in Seq({"offline", "update", "failure"})
    BY <1>2, <1>7, BoxOpened
  <2>11. NoticesTypeOK'
    BY <1>1, <1>3, <1>7, <2>9, <2>10 DEF NoticesTypeOK, NoticesInv
  <2> QED
    BY <1>5, <2>8, <2>11 DEF NoticesInv
<1> QED
  BY <1>1, <1>6, <1>7

\* Nothing but the boxes, the banner and the settings changes.
LEMMA NoticesSame ==
  ASSUME NoticesInv, UNCHANGED <<checks, failing, lastServerHandle, told>>,
         updateBar' \in BOOLEAN, enabled' \in BOOLEAN, online' \in BOOLEAN,
         boxes' \in Seq({"offline", "update", "failure"})
  PROVE  NoticesInv'
BY DEF NoticesInv, NoticesTypeOK, SilentChecksAreSilent, ToldAreOfFailures, HasFailed

\* A check is sent, and nothing but it and the setting changes.
LEMMA NoticesChecked ==
  ASSUME NoticesInv, NEW byHand \in BOOLEAN, CheckForUpdate(byHand), enabled' \in BOOLEAN,
         UNCHANGED <<updateBar, online, failing, lastServerHandle, told, boxes>>
  PROVE  NoticesInv'
<1>1. checks' \in Seq(Check) /\ Len(checks') <= MaxChecks /\ SilentChecksAreSilent'
  BY CheckSent
<1> QED
  BY <1>1 DEF NoticesInv, NoticesTypeOK, ToldAreOfFailures, HasFailed

LEMMA NoticesIsInductive == NoticesInv /\ [NoticesNext]_noticeVars => NoticesInv'
<1> SUFFICES ASSUME NoticesInv, [NoticesNext]_noticeVars PROVE NoticesInv'
  OBVIOUS
<1>0. /\ updateBar \in BOOLEAN /\ enabled \in BOOLEAN /\ online \in BOOLEAN
      /\ boxes \in Seq({"offline", "update", "failure"})
  BY DEF NoticesInv, NoticesTypeOK
<1>1. CASE CheckAtStart
  BY <1>0, <1>1, NoticesChecked DEF CheckAtStart
<1>2. CASE ToggleCheckUpdates
  <2>1. enabled' \in BOOLEAN
    BY <1>2 DEF ToggleCheckUpdates
  <2>2. \/ CheckForUpdate(FALSE) \/ UNCHANGED checks
    BY <1>2 DEF ToggleCheckUpdates
  <2> QED
    BY <1>0, <1>2, <2>1, <2>2, NoticesChecked, NoticesSame DEF ToggleCheckUpdates
<1>3. CASE CheckForUpdatesNow
  <2>1. \/ CheckForUpdate(TRUE) /\ UNCHANGED boxes
        \/ boxes' = Append(boxes, "offline") /\ UNCHANGED checks
    BY <1>3 DEF CheckForUpdatesNow
  <2> QED
    BY <1>0, <1>3, <2>1, NoticesChecked, NoticesSame, BoxOpened DEF CheckForUpdatesNow
<1>4. ASSUME NEW i \in 1..MaxChecks, NEW outcome \in Outcomes, OnReply(i, outcome)
      PROVE  NoticesInv'
  BY <1>4, OnReplyKeeps
<1>5. CASE Dismiss
  BY <1>0, <1>5, NoticesSame DEF Dismiss
<1>6. ASSUME NEW h \in Handles, ConnectionFailed(h) PROVE NoticesInv'
  BY <1>6, ConnectionFailedKeeps
<1>7. CASE CloseBox
  <2>1. boxes' \in Seq({"offline", "update", "failure"})
    BY <1>0, <1>7, FrontLastFacts DEF CloseBox
  <2> QED
    BY <1>0, <1>7, <2>1, NoticesSame DEF CloseBox
<1>8. CASE UNCHANGED noticeVars
  BY <1>0, <1>8, NoticesSame DEF noticeVars
<1> QED
  BY <1>1, <1>2, <1>3, <1>4, <1>5, <1>6, <1>7, <1>8 DEF NoticesNext, NetworkAnswers

\* MainWindow.cpp:1152-1158, UpdateChecker.cpp:42-44: however the answers and failures come,
\* a box opens once per failing server, the newest included, and never for a check the
\* program made by itself.
THEOREM NoticesTellOnce == NoticesSpec => []NoticesAreSound
<1>1. NoticesInv => NoticesAreSound
  <2> SUFFICES ASSUME NoticesInv PROVE NoticesAreSound
    OBVIOUS
  <2>1. told \in Seq(Handles) /\ DOMAIN told = 1..Len(told) /\ Len(told) \in Nat
    BY LenProperties DEF NoticesInv, ToldAreOfFailures
  <2>2. OneBoxPerServer
    <3>1. \A i, j \in DOMAIN told : told[i] = told[j] => i = j
      <4> SUFFICES ASSUME NEW i \in DOMAIN told, NEW j \in DOMAIN told, told[i] = told[j], i < j \/ j < i
                   PROVE  FALSE
        BY <2>1
      <4>1. told[i] \in Int
        <5>1. told[i] \in Handles
          BY <2>1, ElementOfSeq
        <5>2. \A h \in Handles : h \in Nat
          BY NoticesAssumption
        <5>3. \A n \in Nat : n \in Int
          OBVIOUS
        <5> QED
          BY <5>1, <5>2, <5>3
      <4> QED
        BY <4>1 DEF NoticesInv, ToldAreOfFailures
    <3> QED
      BY <3>1 DEF OneBoxPerServer, IsInjective
  <2>3. NewestFailureIsShown
    <3> SUFFICES ASSUME NEW h \in Handles, HasFailed(h),
                        \A g \in Handles : HasFailed(g) => g <= h
                 PROVE  h \in ToSet(told)
      BY DEF NewestFailureIsShown, HasFailed
    <3>1. h <= lastServerHandle /\ h \in Nat /\ lastServerHandle \in Int
      BY NoticesAssumption DEF NoticesInv, ToldAreOfFailures
    <3>2. lastServerHandle \in ToSet(told) /\ lastServerHandle <= h
      BY <3>1 DEF NoticesInv, ToldAreOfFailures
    <3> QED
      BY <3>1, <3>2
  <2> QED
    BY <2>2, <2>3 DEF NoticesInv, NoticesAreSound
<1> QED
  BY <1>1, NoticesInitInv, NoticesIsInductive, PTL DEF NoticesSpec
-----------------------------------------------------------------------------
(* Completion. *)

\* t is l with e in the place of what is between a and b.
IsSplice(t, l, a, e, b) ==
  /\ Len(t) = a + Len(e) + (Len(l) - b)
  /\ \A i \in 1..a : t[i] = l[i]
  /\ \A i \in 1..Len(e) : t[a + i] = e[i]
  /\ \A i \in 1..(Len(l) - b) : t[a + Len(e) + i] = l[b + i]

\* at gives the closers after the caret c of l their openers.
OwedAt(l, c, at) ==
  /\ \A i \in 1..(Len(l) - c) : l[at[i]] \in {"(", "'"} /\ Closing(l[at[i]]) = l[c + i]
  /\ \A i, j \in 1..(Len(l) - c) : i < j => at[j] < at[i]

\* The property, of any line.
OwedBy(l, c) == \E at \in [1..(Len(l) - c) -> 1..c] : OwedAt(l, c, at)

\* t is l without what is between a and b.
IsCut(t, l, a, b) ==
  /\ Len(t) = a + (Len(l) - b)
  /\ \A i \in 1..a : t[i] = l[i]
  /\ \A i \in 1..(Len(l) - b) : t[a + i] = l[b + i]

\* The line and the caret in it.
LineTyped == line \in Seq(Chars) /\ caret \in 0..Len(line)

\* What the shell is asked to complete.
Askable == Seq(Chars) \ {<<>>}

LineIsTyped ==
  /\ LineTyped /\ Len(line) <= MaxLine /\ keys \in 0..MaxKeys
  /\ changed \in BOOLEAN /\ lost \in BOOLEAN /\ byTyping \in BOOLEAN

\* What is shown is about the token that info tells of, and info is what was read at seen.
PopupIsOfInfo ==
  /\ local \subseteq Known /\ popup \subseteq Known \cup OnServer
  /\ ignore \subseteq AcceptKeys /\ (popup # {} => ignore = AcceptKeys)
  /\ timer \in BOOLEAN /\ (timer => mode = "all" /\ pending \in Askable)
  /\ seen[1] \in Seq(Chars) /\ seen[2] \in 0..Len(seen[1]) /\ info = Sanitized(seen[1], seen[2])
  /\ (popup # {} => info.token # <<>>)
  /\ \A w \in popup \ local : mode = "all" /\ IsPrefix(info.token, w)

\* Names are asked for in one mode only, and for a token that is not empty.
AskedIsTyped ==
  /\ prefixes \in Seq(Askable) /\ replies \in Seq(Askable)
  /\ (prefixes # <<>> \/ replies # <<>> => mode = "all")
  /\ Len(prefixes) + Len(replies) <= askedFor /\ askedFor \in 0..MaxAsked
  /\ executing \in BOOLEAN

\* The inductive invariant of completion.
CompletionInv == LineIsTyped /\ PopupIsOfInfo /\ AskedIsTyped /\ NoKeyIsLost /\ ClosersAreOwed

\* The line with w in the place of the token, and of a parenthesis that w brings.
Replaced(w) ==
  LET rest == SubSeq(line, RightOf(line, seen[2]) + 1, Len(line)) IN
  line' = SubSeq(line, 1, LeftOf(line, seen[2])) \o w \o
            (IF Last(w) = "(" /\ rest # <<>> /\ Head(rest) = "(" THEN Tail(rest) ELSE rest)
-----------------------------------------------------------------------------
\* A part of a list, from a place to a later one.
LEMMA Slice ==
  ASSUME NEW S, NEW l \in Seq(S), NEW m \in Nat, NEW n \in Nat, 1 <= m, n <= Len(l),
         NEW t, t = SubSeq(l, m, n)
  PROVE  /\ t \in Seq(S) /\ Len(t) \in Nat
         /\ m <= n + 1 => Len(t) = n + 1 - m
         /\ n < m => t = <<>>
         /\ \A i \in 1..Len(t) : t[i] = l[m + i - 1]
<1>1. Len(l) \in Nat /\ \A i \in 1..Len(l) : l[i] \in S
  BY LenProperties, ElementOfSeq
<1>2. m \in Int /\ n \in Int /\ \A i \in m..n : l[i] \in S
  BY <1>1
<1>3. /\ t \in Seq(S) /\ Len(t) = IF m <= n THEN n - m + 1 ELSE 0
      /\ \A i \in 1..(n - m + 1) : t[i] = l[m + i - 1]
  BY <1>2, SubSeqProperties
<1>4. Len(t) \in Nat /\ (m <= n + 1 => Len(t) = n + 1 - m)
  BY <1>3
<1>5. n < m => t = <<>>
  BY <1>2, SubSeqEmpty
<1>6. \A i \in 1..Len(t) : i \in 1..(n - m + 1)
  BY <1>3
<1> QED
  BY <1>3, <1>4, <1>5, <1>6

\* What comes of a line with e in the place of what is between a and b.
LEMMA Spliced ==
  ASSUME NEW S, NEW l \in Seq(S), NEW a \in 0..Len(l), NEW b \in 0..Len(l), NEW e \in Seq(S),
         NEW t, t = SubSeq(l, 1, a) \o e \o SubSeq(l, b + 1, Len(l))
  PROVE  t \in Seq(S) /\ IsSplice(t, l, a, e, b)
<1>1. Len(l) \in Nat /\ Len(e) \in Nat /\ a \in Nat /\ b \in Nat /\ a <= Len(l) /\ b <= Len(l)
  BY LenProperties
<1>2. PICK x, y : x = SubSeq(l, 1, a) /\ y = SubSeq(l, b + 1, Len(l))
  OBVIOUS
<1>3. x \in Seq(S) /\ Len(x) = a /\ \A i \in 1..a : x[i] = l[i]
  <2>1. /\ x \in Seq(S) /\ (1 <= a + 1 => Len(x) = a + 1 - 1)
        /\ \A i \in 1..Len(x) : x[i] = l[1 + i - 1]
    BY <1>1, <1>2, Slice
  <2> QED
    BY <1>1, <2>1
<1>4. y \in Seq(S) /\ Len(y) = Len(l) - b /\ \A i \in 1..(Len(l) - b) : y[i] = l[b + i]
  <2>1. b + 1 \in Nat /\ 1 <= b + 1 /\ Len(l) <= Len(l)
    BY <1>1
  <2>2. /\ y \in Seq(S) /\ (b + 1 <= Len(l) + 1 => Len(y) = Len(l) + 1 - (b + 1))
        /\ \A i \in 1..Len(y) : y[i] = l[(b + 1) + i - 1]
    <3>1. PICK m \in Nat, n \in Nat : m = b + 1 /\ n = Len(l)
      BY <1>1, <2>1
    <3>2. 1 <= m /\ n <= Len(l) /\ y = SubSeq(l, m, n)
      BY <1>2, <2>1, <3>1
    <3>3. /\ y \in Seq(S) /\ (m <= n + 1 => Len(y) = n + 1 - m)
          /\ \A i \in 1..Len(y) : y[i] = l[m + i - 1]
      BY <3>2, Slice
    <3> QED
      BY <3>1, <3>3, Zenon
  <2> QED
    BY <1>1, <2>2
<1>5. PICK z : z = x \o e
  OBVIOUS
<1>6. /\ z \in Seq(S) /\ Len(z) = Len(x) + Len(e)
      /\ \A i \in 1..(Len(x) + Len(e)) : z[i] = IF i <= Len(x) THEN x[i] ELSE e[i - Len(x)]
  BY <1>3, <1>5, ConcatProperties
<1>7. t = z \o y
  BY <1>2, <1>5
<1>8. /\ t \in Seq(S) /\ Len(t) = Len(z) + Len(y)
      /\ \A i \in 1..(Len(z) + Len(y)) : t[i] = IF i <= Len(z) THEN z[i] ELSE y[i - Len(z)]
  <2>1. z \in Seq(S) /\ y \in Seq(S)
    BY <1>4, <1>6
  <2>2. PICK w : w = z \o y
    OBVIOUS
  <2>3. /\ w \in Seq(S) /\ Len(w) = Len(z) + Len(y)
        /\ \A i \in 1..(Len(z) + Len(y)) : w[i] = IF i <= Len(z) THEN z[i] ELSE y[i - Len(z)]
    BY <2>1, <2>2, ConcatProperties
  <2>4. w = t
    BY <1>7, <2>2
  <2> QED
    BY <2>3, <2>4, Zenon
<1>9. Len(t) = a + Len(e) + (Len(l) - b)
  BY <1>1, <1>3, <1>4, <1>6, <1>8
<1>9a. Len(x) = a /\ Len(z) = a + Len(e) /\ Len(y) = Len(l) - b
  BY <1>3, <1>4, <1>6
<1>10. ASSUME NEW i \in 1..a PROVE t[i] = l[i]
  <2>1. i <= Len(x) /\ i <= Len(z) /\ i \in 1..(Len(x) + Len(e)) /\ i \in 1..(Len(z) + Len(y))
    BY <1>1, <1>9a
  <2> QED
    BY <1>3, <1>6, <1>8, <2>1
<1>11. ASSUME NEW i \in 1..Len(e) PROVE t[a + i] = e[i]
  <2>1. PICK k : k = a + i
    OBVIOUS
  <2>2. ~(k <= Len(x)) /\ k <= Len(z) /\ k \in 1..(Len(x) + Len(e)) /\ k \in 1..(Len(z) + Len(y))
        /\ k - Len(x) = i
    BY <1>1, <1>9a, <2>1
  <2> QED
    BY <1>6, <1>8, <2>1, <2>2
<1>12. ASSUME NEW i \in 1..(Len(l) - b) PROVE t[a + Len(e) + i] = l[b + i]
  <2>1. PICK k : k = a + Len(e) + i
    OBVIOUS
  <2>2. ~(k <= Len(z)) /\ k \in 1..(Len(z) + Len(y)) /\ k - Len(z) = i
    BY <1>1, <1>9a, <2>1
  <2> QED
    BY <1>4, <1>8, <2>1, <2>2
<1> QED
  BY <1>8, <1>9, <1>10, <1>11, <1>12 DEF IsSplice

\* The token at the caret, between the characters that stop it.
LEMMA TokenFacts ==
  ASSUME NEW l \in Seq(Chars), NEW c \in 0..Len(l), NEW s, s = Sanitized(l, c)
  PROVE  /\ LeftOf(l, c) \in 0..c /\ RightOf(l, c) \in c..Len(l)
         /\ s.left \in Nat /\ s.right \in Nat /\ s.token \in Seq(Chars)
         /\ s.token # <<>> => s.left = LeftOf(l, c) /\ s.right = RightOf(l, c)
<1>1. Len(l) \in Nat /\ c \in Nat /\ c <= Len(l)
  BY LenProperties
<1>2. LeftOf(l, c) \in 0..c
  <2>1. PICK T : T = LeftStops(l, c)
    OBVIOUS
  <2>2. T \subseteq 1..c
    BY <2>1 DEF LeftStops
  <2>3. T # {} => Max(T) \in T
    <3>1. T \subseteq 0..c
      BY <2>2
    <3> QED
      BY <1>1, <3>1, MaxOfSet
  <2>4. LeftOf(l, c) = IF T = {} THEN 0 ELSE Max(T)
    BY <2>1 DEF LeftOf
  <2>5. CASE T = {}
    BY <1>1, <2>4, <2>5
  <2>6. CASE T # {}
    <3>1. PICK m : m = Max(T)
      OBVIOUS
    <3>2. LeftOf(l, c) = m
      BY <2>4, <2>6, <3>1, Zenon
    <3>3. m \in 1..c
      BY <2>2, <2>3, <2>6, <3>1, Zenon
    <3> QED
      BY <1>1, <3>2, <3>3
  <2> QED
    BY <2>5, <2>6
<1>3. RightOf(l, c) \in c..Len(l)
  <2>1. PICK T : T = RightStops(l, c)
    OBVIOUS
  <2>2. T \subseteq (c + 1)..Len(l)
    BY <2>1 DEF RightStops
  <2>3. T # {} => Min(T) \in T
    <3>1. T \subseteq Nat
      BY <1>1, <2>2
    <3> QED
      BY <3>1, MinOfSet
  <2>4. RightOf(l, c) = IF T = {} THEN Len(l) ELSE Min(T) - 1
    BY <2>1 DEF RightOf
  <2>5. CASE T = {}
    BY <1>1, <2>4, <2>5
  <2>6. CASE T # {}
    <3>1. PICK m : m = Min(T)
      OBVIOUS
    <3>2. RightOf(l, c) = m - 1
      BY <2>4, <2>6, <3>1, Zenon
    <3>3. m \in (c + 1)..Len(l)
      BY <2>2, <2>3, <2>6, <3>1, Zenon
    <3> QED
      BY <1>1, <3>2, <3>3
  <2> QED
    BY <2>5, <2>6
<1>4. SubSeq(l, LeftOf(l, c) + 1, c) \in Seq(Chars)
  <2>1. PICK m : m = LeftOf(l, c) + 1
    OBVIOUS
  <2>2. m \in Nat /\ 1 <= m
    BY <1>1, <1>2, <2>1
  <2> QED
    BY <1>1, <2>1, <2>2, Slice
<1>5. CASE s = NoInfo
  BY <1>2, <1>3, <1>5 DEF NoInfo
<1>6. CASE s = [left |-> LeftOf(l, c), right |-> RightOf(l, c), token |-> SubSeq(l, LeftOf(l, c) + 1, c)]
  <2>1. PICK x, y, z : x = LeftOf(l, c) /\ y = RightOf(l, c) /\ z = SubSeq(l, LeftOf(l, c) + 1, c)
    OBVIOUS
  <2>2. s = [left |-> x, right |-> y, token |-> z]
    BY <1>6, <2>1, Zenon
  <2>3. s.left = x /\ s.right = y /\ s.token = z
    BY <2>2
  <2>4. x \in Nat /\ y \in Nat
    BY <1>1, <1>2, <1>3, <2>1
  <2> QED
    BY <1>2, <1>3, <1>4, <2>1, <2>3, <2>4, Zenon
<1> QED
  BY <1>5, <1>6, Zenon DEF Sanitized

\* What is after the caret is found in the line.
LEMMA AfterFacts ==
  ASSUME NEW l \in Seq(Chars), NEW c \in 0..Len(l), NEW t, t = SubSeq(l, c + 1, Len(l))
  PROVE  t \in Seq(Chars) /\ Len(t) = Len(l) - c /\ \A i \in 1..(Len(l) - c) : t[i] = l[c + i]
<1>1. Len(l) \in Nat /\ c \in Nat /\ c <= Len(l)
  BY LenProperties
<1>2. PICK m : m = c + 1
  OBVIOUS
<1>3. m \in Nat /\ 1 <= m /\ Len(l) <= Len(l) /\ m <= Len(l) + 1
  BY <1>1, <1>2
<1>4. /\ t \in Seq(Chars) /\ (m <= Len(l) + 1 => Len(t) = Len(l) + 1 - m)
      /\ \A i \in 1..Len(t) : t[i] = l[m + i - 1]
  BY <1>1, <1>2, <1>3, Slice
<1>5. Len(t) = Len(l) - c
  BY <1>1, <1>2, <1>3, <1>4
<1>6. ASSUME NEW i \in 1..(Len(l) - c) PROVE t[i] = l[c + i]
  <2>1. i \in 1..Len(t) /\ m + i - 1 = c + i
    BY <1>1, <1>2, <1>5
  <2> QED
    BY <1>4, <2>1
<1> QED
  BY <1>4, <1>5, <1>6

\* In an empty line nothing is owed.
LEMMA NothingIsOwed == OwedBy(<<>>, 0)
<1> DEFINE no == [i \in 1..(Len(<<>>) - 0) |-> 0]
<1>1. 1..(Len(<<>>) - 0) = {}
  BY EmptySeq
<1>2. no \in [1..(Len(<<>>) - 0) -> 1..0]
  BY <1>1
<1>3. OwedAt(<<>>, 0, no)
  BY <1>1 DEF OwedAt
<1> QED
  BY <1>2, <1>3 DEF OwedBy

\* A character put before the caret.
LEMMA OwedAfterOne ==
  ASSUME NEW l \in Seq(Chars), NEW c \in 0..Len(l), NEW t \in Seq(Chars), Len(t) = Len(l) + 1,
         \A i \in 1..c : t[i] = l[i],
         \A i \in 1..(Len(l) - c) : t[c + 1 + i] = l[c + i],
         OwedBy(l, c)
  PROVE  OwedBy(t, c + 1)
<1>1. Len(l) \in Nat /\ c \in Nat /\ c <= Len(l) /\ Len(t) - (c + 1) = Len(l) - c
  BY LenProperties
<1>2. PICK at \in [1..(Len(l) - c) -> 1..c] : OwedAt(l, c, at)
  BY DEF OwedBy
<1>3. at \in [1..(Len(t) - (c + 1)) -> 1..(c + 1)]
  <2>1. 1..c \subseteq 1..(c + 1)
    BY <1>1
  <2>2. at \in [1..(Len(l) - c) -> 1..(c + 1)]
    BY <1>2, <2>1
  <2> QED
    BY <1>1, <2>2
<1>4. ASSUME NEW i \in 1..(Len(l) - c)
      PROVE  t[at[i]] \in {"(", "'"} /\ Closing(t[at[i]]) = t[(c + 1) + i]
  <2>1. at[i] \in 1..c
    BY <1>2
  <2>2. t[at[i]] = l[at[i]] /\ t[c + 1 + i] = l[c + i]
    BY <2>1
  <2>3. l[at[i]] \in {"(", "'"} /\ Closing(l[at[i]]) = l[c + i]
    BY <1>2 DEF OwedAt
  <2> QED
    BY <2>2, <2>3
<1>5. \A i, j \in 1..(Len(l) - c) : i < j => at[j] < at[i]
  BY <1>2 DEF OwedAt
<1>6. OwedAt(t, c + 1, at)
  BY <1>1, <1>4, <1>5 DEF OwedAt
<1> QED
  BY <1>3, <1>6 DEF OwedBy

\* An opener put before the caret with its closer after it.
LEMMA OwedAfterPair ==
  ASSUME NEW l \in Seq(Chars), NEW c \in 0..Len(l), NEW t \in Seq(Chars), Len(t) = Len(l) + 2,
         NEW q \in {"(", "'"}, t[c + 1] = q, t[c + 2] = Closing(q),
         \A i \in 1..c : t[i] = l[i],
         \A i \in 1..(Len(l) - c) : t[c + 2 + i] = l[c + i],
         OwedBy(l, c)
  PROVE  OwedBy(t, c + 1)
<1>1. Len(l) \in Nat /\ c \in Nat /\ c <= Len(l) /\ Len(t) - (c + 1) = Len(l) - c + 1
  BY LenProperties
<1>2. PICK at \in [1..(Len(l) - c) -> 1..c] : OwedAt(l, c, at)
  BY DEF OwedBy
<1>3. PICK bt : bt = [i \in 1..(Len(l) - c + 1) |-> IF i = 1 THEN c + 1 ELSE at[i - 1]]
  OBVIOUS
<1>4. \A i \in 2..(Len(l) - c + 1) : i - 1 \in 1..(Len(l) - c) /\ i # 1
  BY <1>1
<1>5. \A i \in 2..(Len(l) - c + 1) : bt[i] = at[i - 1] /\ at[i - 1] \in 1..c
  <2>1. TAKE i \in 2..(Len(l) - c + 1)
  <2>2. i \in 1..(Len(l) - c + 1) /\ i # 1
    BY <1>1, <1>4
  <2>3. bt[i] = at[i - 1]
    BY <1>3, <2>2
  <2>4. \A j \in 1..(Len(l) - c) : at[j] \in 1..c
    OBVIOUS
  <2> QED
    BY <1>4, <2>3, <2>4
<1>6. bt[1] = c + 1
  BY <1>1, <1>3
<1>7. bt \in [1..(Len(t) - (c + 1)) -> 1..(c + 1)]
  <2>1. \A i \in 1..(Len(l) - c + 1) : i = 1 \/ i \in 2..(Len(l) - c + 1)
    BY <1>1
  <2>2. \A i \in 1..(Len(l) - c + 1) : bt[i] \in 1..(c + 1)
    BY <1>1, <1>5, <1>6, <2>1
  <2>3. bt \in [1..(Len(l) - c + 1) -> 1..(c + 1)]
    BY <1>3, <2>2
  <2> QED
    BY <1>1, <2>3
<1>8. ASSUME NEW i \in 1..(Len(l) - c + 1)
      PROVE  t[bt[i]] \in {"(", "'"} /\ Closing(t[bt[i]]) = t[(c + 1) + i]
  <2>1. CASE i = 1
    <3>1. (c + 1) + i = c + 2
      BY <1>1, <2>1
    <3> QED
      BY <1>6, <2>1, <3>1
  <2>2. CASE i # 1
    <3>1. i \in 2..(Len(l) - c + 1)
      BY <1>1, <2>2
    <3>2. PICK k : k = i - 1
      OBVIOUS
    <3>3. k \in 1..(Len(l) - c) /\ (c + 1) + i = c + 2 + k
      BY <1>1, <3>1, <3>2
    <3>4. bt[i] = at[k] /\ at[k] \in 1..c
      BY <1>5, <3>1, <3>2
    <3>5. t[at[k]] = l[at[k]] /\ t[c + 2 + k] = l[c + k]
      BY <3>3, <3>4
    <3>6. l[at[k]] \in {"(", "'"} /\ Closing(l[at[k]]) = l[c + k]
      BY <1>2, <3>3 DEF OwedAt
    <3> QED
      BY <3>3, <3>4, <3>5, <3>6
  <2> QED
    BY <2>1, <2>2
<1>9. ASSUME NEW i \in 1..(Len(l) - c + 1), NEW j \in 1..(Len(l) - c + 1), i < j
      PROVE  bt[j] < bt[i]
  <2>1. j \in 2..(Len(l) - c + 1)
    BY <1>1, <1>9
  <2>2. CASE i = 1
    BY <1>1, <1>5, <1>6, <2>1, <2>2
  <2>3. CASE i # 1
    <3>1. i \in 2..(Len(l) - c + 1)
      BY <1>1, <2>3
    <3>2. i - 1 < j - 1 /\ i - 1 \in 1..(Len(l) - c) /\ j - 1 \in 1..(Len(l) - c)
      BY <1>1, <1>9, <2>1, <3>1
    <3>3. at[j - 1] < at[i - 1]
      BY <1>2, <3>2 DEF OwedAt
    <3> QED
      BY <1>5, <2>1, <3>1, <3>3
  <2> QED
    BY <2>2, <2>3
<1>10. OwedAt(t, c + 1, bt)
  BY <1>1, <1>8, <1>9 DEF OwedAt
<1> QED
  BY <1>7, <1>10 DEF OwedBy

\* The caret goes over a closer.
LEMMA OwedBeyond ==
  ASSUME NEW l \in Seq(Chars), NEW c \in 0..Len(l), c < Len(l), OwedBy(l, c)
  PROVE  OwedBy(l, c + 1)
<1>1. Len(l) \in Nat /\ c \in Nat /\ c <= Len(l)
  BY LenProperties
<1>2. PICK at \in [1..(Len(l) - c) -> 1..c] : OwedAt(l, c, at)
  BY DEF OwedBy
<1>3. PICK bt : bt = [i \in 1..(Len(l) - (c + 1)) |-> at[i + 1]]
  OBVIOUS
<1>4. \A i \in 1..(Len(l) - (c + 1)) : i + 1 \in 1..(Len(l) - c)
  BY <1>1
<1>5. \A i \in 1..(Len(l) - (c + 1)) : bt[i] = at[i + 1] /\ at[i + 1] \in 1..c
  BY <1>2, <1>3, <1>4
<1>6. bt \in [1..(Len(l) - (c + 1)) -> 1..(c + 1)]
  <2>1. 1..c \subseteq 1..(c + 1)
    BY <1>1
  <2> QED
    BY <1>3, <1>5, <2>1
<1>7. ASSUME NEW i \in 1..(Len(l) - (c + 1))
      PROVE  l[bt[i]] \in {"(", "'"} /\ Closing(l[bt[i]]) = l[(c + 1) + i]
  <2>1. PICK k : k = i + 1
    OBVIOUS
  <2>2. k \in 1..(Len(l) - c) /\ c + k = (c + 1) + i /\ bt[i] = at[k]
    BY <1>1, <1>4, <1>5, <2>1
  <2>3. l[at[k]] \in {"(", "'"} /\ Closing(l[at[k]]) = l[c + k]
    BY <1>2, <2>2 DEF OwedAt
  <2> QED
    BY <2>2, <2>3
<1>8. ASSUME NEW i \in 1..(Len(l) - (c + 1)), NEW j \in 1..(Len(l) - (c + 1)), i < j
      PROVE  bt[j] < bt[i]
  <2>1. i + 1 < j + 1 /\ i + 1 \in 1..(Len(l) - c) /\ j + 1 \in 1..(Len(l) - c)
    BY <1>1, <1>4, <1>8
  <2>2. at[j + 1] < at[i + 1]
    BY <1>2, <2>1 DEF OwedAt
  <2> QED
    BY <1>5, <2>2
<1>9. OwedAt(l, c + 1, bt)
  BY <1>1, <1>7, <1>8 DEF OwedAt
<1> QED
  BY <1>6, <1>9 DEF OwedBy

\* An opener is rubbed out with its closer.
LEMMA OwedWithoutPair ==
  ASSUME NEW l \in Seq(Chars), NEW c \in 1..Len(l), c < Len(l),
         NEW t \in Seq(Chars), Len(t) = Len(l) - 2,
         \A i \in 1..(c - 1) : t[i] = l[i],
         \A i \in 1..(Len(l) - (c + 1)) : t[c - 1 + i] = l[c + 1 + i],
         OwedBy(l, c)
  PROVE  OwedBy(t, c - 1)
<1>1. Len(l) \in Nat /\ c \in Nat /\ 1 <= c /\ Len(t) - (c - 1) = Len(l) - (c + 1)
  BY LenProperties
<1>2. PICK at \in [1..(Len(l) - c) -> 1..c] : OwedAt(l, c, at)
  BY DEF OwedBy
<1>3. PICK bt : bt = [i \in 1..(Len(l) - (c + 1)) |-> at[i + 1]]
  OBVIOUS
<1>4. \A i \in 1..(Len(l) - (c + 1)) : i + 1 \in 1..(Len(l) - c) /\ 1 \in 1..(Len(l) - c) /\ 1 < i + 1
  BY <1>1
<1>5. ASSUME NEW i \in 1..(Len(l) - (c + 1))
      PROVE  bt[i] = at[i + 1] /\ at[i + 1] \in 1..(c - 1)
  <2>1. at[i + 1] \in 1..c /\ at[1] \in 1..c
    BY <1>2, <1>4
  <2>2. at[i + 1] < at[1]
    BY <1>2, <1>4 DEF OwedAt
  <2> QED
    BY <1>1, <1>3, <2>1, <2>2
<1>6. bt \in [1..(Len(t) - (c - 1)) -> 1..(c - 1)]
  <2>1. bt \in [1..(Len(l) - (c + 1)) -> 1..(c - 1)]
    BY <1>3, <1>5
  <2> QED
    BY <1>1, <2>1
<1>7. ASSUME NEW i \in 1..(Len(l) - (c + 1))
      PROVE  t[bt[i]] \in {"(", "'"} /\ Closing(t[bt[i]]) = t[(c - 1) + i]
  <2>1. PICK k : k = i + 1
    OBVIOUS
  <2>2. k \in 1..(Len(l) - c) /\ c + k = c + 1 + i
    BY <1>1, <1>4, <2>1
  <2>2a. bt[i] = at[k] /\ at[k] \in 1..(c - 1)
    BY <1>5, <2>1
  <2>3. l[at[k]] \in {"(", "'"} /\ Closing(l[at[k]]) = l[c + k]
    BY <1>2, <2>2 DEF OwedAt
  <2>4. t[at[k]] = l[at[k]] /\ t[c - 1 + i] = l[c + 1 + i]
    BY <2>2a
  <2> QED
    BY <2>2, <2>2a, <2>3, <2>4
<1>8. ASSUME NEW i \in 1..(Len(l) - (c + 1)), NEW j \in 1..(Len(l) - (c + 1)), i < j
      PROVE  bt[j] < bt[i]
  <2>1. i + 1 < j + 1 /\ i + 1 \in 1..(Len(l) - c) /\ j + 1 \in 1..(Len(l) - c)
    BY <1>1, <1>4, <1>8
  <2>2. at[j + 1] < at[i + 1]
    BY <1>2, <2>1 DEF OwedAt
  <2> QED
    BY <1>5, <2>2
<1>9. OwedAt(t, c - 1, bt)
  BY <1>1, <1>7, <1>8 DEF OwedAt
<1> QED
  BY <1>6, <1>9 DEF OwedBy

\* One character is rubbed out, which opens no closer: the last opener is the one of the
\* closer at the caret, and goes with it.
LEMMA OwedWithoutOne ==
  ASSUME NEW l \in Seq(Chars), NEW c \in 1..Len(l),
         NEW t \in Seq(Chars), Len(t) = Len(l) - 1,
         \A i \in 1..(c - 1) : t[i] = l[i],
         \A i \in 1..(Len(l) - c) : t[c - 1 + i] = l[c + i],
         ~(c < Len(l) /\ l[c] \in {"(", "'"} /\ Closing(l[c]) = l[c + 1]),
         OwedBy(l, c)
  PROVE  OwedBy(t, c - 1)
<1>1. Len(l) \in Nat /\ c \in Nat /\ 1 <= c /\ c <= Len(l) /\ Len(t) - (c - 1) = Len(l) - c
  BY LenProperties
<1>2. PICK at \in [1..(Len(l) - c) -> 1..c] : OwedAt(l, c, at)
  BY DEF OwedBy
<1>3. ASSUME NEW i \in 1..(Len(l) - c) PROVE at[i] \in 1..(c - 1)
  <2>1. c < Len(l) /\ 1 \in 1..(Len(l) - c)
    BY <1>1
  <2>2. at[i] \in 1..c /\ at[1] \in 1..c
    BY <1>2, <2>1
  <2>3. l[at[1]] \in {"(", "'"} /\ Closing(l[at[1]]) = l[c + 1]
    BY <1>2, <2>1 DEF OwedAt
  <2>4. at[1] # c
    BY <2>1, <2>3
  <2>5. i # 1 => at[i] < at[1]
    <3>1. i # 1 => 1 < i
      BY <1>1
    <3> QED
      BY <1>2, <2>1, <3>1 DEF OwedAt
  <2> QED
    BY <1>1, <2>2, <2>4, <2>5
<1>4. at \in [1..(Len(t) - (c - 1)) -> 1..(c - 1)]
  <2>1. at \in [1..(Len(l) - c) -> 1..(c - 1)]
    BY <1>2, <1>3
  <2> QED
    BY <1>1, <2>1
<1>5. ASSUME NEW i \in 1..(Len(l) - c)
      PROVE  t[at[i]] \in {"(", "'"} /\ Closing(t[at[i]]) = t[(c - 1) + i]
  <2>1. at[i] \in 1..(c - 1)
    BY <1>3
  <2>2. l[at[i]] \in {"(", "'"} /\ Closing(l[at[i]]) = l[c + i]
    BY <1>2 DEF OwedAt
  <2>3. t[at[i]] = l[at[i]] /\ t[c - 1 + i] = l[c + i]
    BY <2>1
  <2> QED
    BY <2>2, <2>3
<1>6. \A i, j \in 1..(Len(l) - c) : i < j => at[j] < at[i]
  BY <1>2 DEF OwedAt
<1>7. OwedAt(t, c - 1, at)
  BY <1>1, <1>5, <1>6 DEF OwedAt
<1> QED
  BY <1>4, <1>7 DEF OwedBy
\* The property in terms of the line and the caret.
LEMMA OwedMeans ==
  ASSUME line \in Seq(Chars), caret \in 0..Len(line)
  PROVE  ClosersAreOwed <=> (byTyping => OwedBy(line, caret))
<1>1. After \in Seq(Chars) /\ Len(After) = Len(line) - caret
      /\ \A i \in 1..(Len(line) - caret) : After[i] = line[caret + i]
  BY AfterFacts DEF After
<1>2. ASSUME NEW at \in [1..(Len(line) - caret) -> 1..caret]
      PROVE  Closes(at) <=> OwedAt(line, caret, at)
  <2>1. DOMAIN at = 1..(Len(line) - caret)
    OBVIOUS
  <2> QED
    BY <1>1, <2>1 DEF Closes, OwedAt
<1> QED
  BY <1>2 DEF ClosersAreOwed, OwedBy

\* The same after a step.
LEMMA OwedMeansThen ==
  ASSUME line' \in Seq(Chars), caret' \in 0..Len(line')
  PROVE  ClosersAreOwed' <=> (byTyping' => OwedBy(line', caret'))
<1>1. After' \in Seq(Chars) /\ Len(After') = Len(line') - caret'
      /\ \A i \in 1..(Len(line') - caret') : After'[i] = line'[caret' + i]
  BY AfterFacts DEF After
<1>2. ASSUME NEW at \in [1..(Len(line') - caret') -> 1..caret']
      PROVE  (\A i \in DOMAIN at :
                /\ line'[at[i]] \in {"(", "'"} /\ Closing(line'[at[i]]) = After'[i]
                /\ \A j \in DOMAIN at : i < j => at[j] < at[i])
             <=> OwedAt(line', caret', at)
  <2>1. DOMAIN at = 1..(Len(line') - caret')
    OBVIOUS
  <2> QED
    BY <1>1, <2>1 DEF OwedAt
<1> QED
  BY <1>2 DEF ClosersAreOwed, Closes, OwedBy

\* A list cut between a and b.
LEMMA CutOut ==
  ASSUME NEW l \in Seq(Chars), NEW a \in 0..Len(l), NEW b \in 0..Len(l),
         NEW t, t = SubSeq(l, 1, a) \o SubSeq(l, b + 1, Len(l))
  PROVE  t \in Seq(Chars) /\ IsCut(t, l, a, b)
<1>1. Len(l) \in Nat /\ a \in Nat /\ b \in Nat /\ a <= Len(l)
  BY LenProperties
<1>2. PICK x : x = SubSeq(l, 1, a)
  OBVIOUS
<1>3. x \in Seq(Chars)
  BY <1>1, <1>2, Slice
<1>4. x \o <<>> = x
  BY <1>3, ConcatEmptySeq
<1>5. t = SubSeq(l, 1, a) \o <<>> \o SubSeq(l, b + 1, Len(l))
  BY <1>2, <1>4
<1>6. <<>> \in Seq(Chars) /\ Len(<<>>) = 0
  BY EmptySeq
<1>7. PICK e : e = <<>>
  OBVIOUS
<1>8. e \in Seq(Chars) /\ t = SubSeq(l, 1, a) \o e \o SubSeq(l, b + 1, Len(l))
  BY <1>5, <1>6, <1>7
<1>9a. t \in Seq(Chars) /\ IsSplice(t, l, a, e, b)
  BY <1>8, Spliced, Zenon
<1>9. /\ t \in Seq(Chars) /\ Len(t) = a + Len(e) + (Len(l) - b)
      /\ \A i \in 1..a : t[i] = l[i]
      /\ \A i \in 1..(Len(l) - b) : t[a + Len(e) + i] = l[b + i]
  BY <1>9a DEF IsSplice
<1>10. a + Len(e) = a
  BY <1>1, <1>6, <1>7
<1> QED
  BY <1>9, <1>10 DEF IsCut

\* What is put in is one character or two.
LEMMA OneAndTwo ==
  ASSUME NEW S, NEW c \in S, NEW d \in S
  PROVE  /\ <<c>> \in Seq(S) /\ Len(<<c>>) = 1 /\ <<c>>[1] = c
         /\ <<c, d>> \in Seq(S) /\ Len(<<c, d>>) = 2 /\ <<c, d>>[1] = c /\ <<c, d>>[2] = d
OBVIOUS

\* What is typed.
LEMMA TypedFacts ==
  ASSUME LineTyped, NEW c \in Chars, Typed(c)
  PROVE  /\ line' \in Seq(Chars) /\ caret' \in 0..Len(line')
         /\ OwedBy(line, caret) => OwedBy(line', caret')
<1>1. Len(line) \in Nat /\ caret \in Nat /\ caret <= Len(line) /\ line \in Seq(Chars) /\ caret' = caret + 1
  <2>1. caret' = caret + 1
    BY Zenon DEF Typed
  <2> QED
    BY <2>1, LenProperties DEF LineTyped
<1>2. PICK q : q = Closing(c)
  OBVIOUS
<1>3. q \in Chars
  BY <1>2 DEF Closing, Chars
<1>4. PICK one, two : one = <<c>> /\ two = <<c, q>>
  OBVIOUS
<1>5. /\ one \in Seq(Chars) /\ Len(one) = 1 /\ one[1] = c
      /\ two \in Seq(Chars) /\ Len(two) = 2 /\ two[1] = c /\ two[2] = q
  BY <1>3, <1>4, OneAndTwo
<1>6. caret \in 0..Len(line)
  BY <1>1
<1>7. CASE line' = line /\ Following = c /\ c \in {")", "'"}
  <2>1. caret < Len(line)
    BY <1>1, <1>7 DEF Following
  <2>2. OwedBy(line, caret) => OwedBy(line, caret + 1)
    BY <1>1, <1>6, <2>1, OwedBeyond
  <2> QED
    BY <1>1, <1>7, <2>1, <2>2
<1>8. CASE line' = Before \o <<c, Closing(c)>> \o After /\ c \in {"(", "'"}
  <2>1. PICK t : t = line'
    OBVIOUS
  <2>2. t = SubSeq(line, 1, caret) \o two \o SubSeq(line, caret + 1, Len(line))
    BY <1>2, <1>4, <1>8, <2>1, Zenon DEF Before, After
  <2>3a. t \in Seq(Chars) /\ IsSplice(t, line, caret, two, caret)
    BY <1>1, <1>5, <1>6, <2>2, Spliced, Zenon
  <2>3. /\ t \in Seq(Chars) /\ Len(t) = caret + Len(two) + (Len(line) - caret)
        /\ \A i \in 1..caret : t[i] = line[i]
        /\ \A i \in 1..Len(two) : t[caret + i] = two[i]
        /\ \A i \in 1..(Len(line) - caret) : t[caret + Len(two) + i] = line[caret + i]
    BY <2>3a DEF IsSplice
  <2>4. Len(t) = Len(line) + 2
    BY <1>1, <1>5, <2>3
  <2>5. t[caret + 1] = c /\ t[caret + 2] = Closing(c)
    BY <1>2, <1>5, <2>3
  <2>6. \A i \in 1..(Len(line) - caret) : t[caret + 2 + i] = line[caret + i]
    BY <1>5, <2>3
  <2>7. OwedBy(line, caret) => OwedBy(t, caret + 1)
    BY <1>1, <1>6, <1>8, <2>3, <2>4, <2>5, <2>6, OwedAfterPair
  <2>8. caret' \in 0..Len(t)
    BY <1>1, <2>4
  <2> QED
    BY <1>1, <2>1, <2>3, <2>7, <2>8
<1>9. CASE line' = Before \o <<c>> \o After
  <2>1. PICK t : t = line'
    OBVIOUS
  <2>2. t = SubSeq(line, 1, caret) \o one \o SubSeq(line, caret + 1, Len(line))
    BY <1>4, <1>9, <2>1, Zenon DEF Before, After
  <2>3a. t \in Seq(Chars) /\ IsSplice(t, line, caret, one, caret)
    BY <1>1, <1>5, <1>6, <2>2, Spliced, Zenon
  <2>3. /\ t \in Seq(Chars) /\ Len(t) = caret + Len(one) + (Len(line) - caret)
        /\ \A i \in 1..caret : t[i] = line[i]
        /\ \A i \in 1..(Len(line) - caret) : t[caret + Len(one) + i] = line[caret + i]
    BY <2>3a DEF IsSplice
  <2>4. Len(t) = Len(line) + 1
    BY <1>1, <1>5, <2>3
  <2>5. \A i \in 1..(Len(line) - caret) : t[caret + 1 + i] = line[caret + i]
    BY <1>5, <2>3
  <2>6. OwedBy(line, caret) => OwedBy(t, caret + 1)
    BY <1>1, <1>6, <2>3, <2>4, <2>5, OwedAfterOne
  <2>7. caret' \in 0..Len(t)
    BY <1>1, <2>4
  <2> QED
    BY <1>1, <2>1, <2>3, <2>6, <2>7
<1> QED
  BY <1>7, <1>8, <1>9, Zenon DEF Typed

\* What is rubbed out.
LEMMA RubbedFacts ==
  ASSUME LineTyped, caret > 0, RubsOut, caret' = caret - 1
  PROVE  /\ line' \in Seq(Chars) /\ Len(line') <= Len(line) /\ caret' \in 0..Len(line')
         /\ OwedBy(line, caret) => OwedBy(line', caret')
<1>1. Len(line) \in Nat /\ caret \in Nat /\ 1 <= caret /\ caret <= Len(line) /\ line \in Seq(Chars)
      /\ caret \in 1..Len(line) /\ caret - 1 \in 0..Len(line) /\ caret \in 0..Len(line)
  BY LenProperties DEF LineTyped
<1>2. Front(Before) = SubSeq(line, 1, caret - 1)
  <2>1. Before \in Seq(Chars) /\ Len(Before) = caret /\ \A i \in 1..caret : Before[i] = line[i]
    <3>1. PICK t : t = SubSeq(line, 1, caret)
      OBVIOUS
    <3>2. /\ t \in Seq(Chars) /\ (1 <= caret + 1 => Len(t) = caret + 1 - 1)
          /\ \A i \in 1..Len(t) : t[i] = line[1 + i - 1]
      BY <1>1, <3>1, Slice
    <3>3. t \in Seq(Chars) /\ Len(t) = caret /\ \A i \in 1..caret : t[i] = line[i]
      BY <1>1, <3>2
    <3> QED
      BY <3>1, <3>3 DEF Before
  <2>2. Before # <<>>
    BY <1>1, <2>1, EmptySeq
  <2>3. PICK f : f = Front(Before)
    OBVIOUS
  <2>4. f \in Seq(Chars) /\ Len(f) = caret - 1 /\ \A i \in 1..(caret - 1) : f[i] = Before[i]
    BY <1>1, <2>1, <2>2, <2>3, FrontLastFacts
  <2>5. PICK t : t = SubSeq(line, 1, caret - 1)
    OBVIOUS
  <2>6. /\ t \in Seq(Chars) /\ (1 <= (caret - 1) + 1 => Len(t) = (caret - 1) + 1 - 1)
        /\ \A i \in 1..Len(t) : t[i] = line[1 + i - 1]
    <3>1. caret - 1 \in Nat /\ caret - 1 <= Len(line) /\ 1 \in Nat /\ 1 <= 1
      BY <1>1
    <3> QED
      BY <1>1, <2>5, <3>1, Slice
  <2>7. Len(t) = caret - 1
    BY <1>1, <2>6
  <2>8. \A i \in 1..(caret - 1) : f[i] = t[i]
    BY <1>1, <2>1, <2>4, <2>6, <2>7
  <2>9. f = t
    BY <2>4, <2>6, <2>7, <2>8, SeqEqual
  <2> QED
    BY <2>3, <2>5, <2>9
<1>3. PICK t : t = line'
  OBVIOUS
<1>4. CASE Following # "end" /\ Previous \in {"(", "'"} /\ Closing(Previous) = Following
  <2>1. caret < Len(line) /\ Following = line[caret + 1] /\ Previous = line[caret]
    BY <1>1, <1>4 DEF Following, Previous
  <2>2. Tail(After) = SubSeq(line, (caret + 1) + 1, Len(line))
    <3>1. caret + 1 \in 1..Len(line) /\ Len(line) \in (caret + 1)..Len(line)
      BY <1>1, <2>1
    <3> QED
      BY <1>1, <3>1, HeadTailOfSubSeq DEF After
  <2>3. t = SubSeq(line, 1, caret - 1) \o SubSeq(line, (caret + 1) + 1, Len(line))
    BY <1>2, <1>3, <1>4, <2>2, Zenon DEF RubsOut
  <2>4. PICK a, b : a = caret - 1 /\ b = caret + 1
    OBVIOUS
  <2>3a. t = SubSeq(line, 1, a) \o SubSeq(line, b + 1, Len(line))
    BY <2>3, <2>4
  <2>5. a \in 0..Len(line) /\ b \in 0..Len(line)
    BY <1>1, <2>1, <2>4
  <2>6. /\ t \in Seq(Chars) /\ Len(t) = a + (Len(line) - b)
        /\ \A i \in 1..a : t[i] = line[i]
        /\ \A i \in 1..(Len(line) - b) : t[a + i] = line[b + i]
    <3>1. t \in Seq(Chars) /\ IsCut(t, line, a, b)
      BY <1>1, <2>3a, <2>5, CutOut, Zenon
    <3> QED
      BY <3>1 DEF IsCut
  <2>7. Len(t) = Len(line) - 2
    BY <1>1, <2>4, <2>6
  <2>8. OwedBy(line, caret) => OwedBy(t, caret - 1)
    BY <1>1, <2>1, <2>4, <2>6, <2>7, OwedWithoutPair
  <2>9. Len(t) <= Len(line) /\ caret' \in 0..Len(t)
    BY <1>1, <2>1, <2>7
  <2> QED
    BY <1>3, <2>6, <2>8, <2>9
<1>5. CASE ~(Following # "end" /\ Previous \in {"(", "'"} /\ Closing(Previous) = Following)
  <2>1. ~(caret < Len(line) /\ line[caret] \in {"(", "'"} /\ Closing(line[caret]) = line[caret + 1])
    <3>1. Previous = line[caret] /\ (caret < Len(line) => Following = line[caret + 1])
      BY <1>1 DEF Following, Previous
    <3>2. caret < Len(line) => line[caret + 1] # "end"
      <4>1. caret < Len(line) => caret + 1 \in 1..Len(line)
        BY <1>1
      <4>2. caret < Len(line) => line[caret + 1] \in Chars
        BY <1>1, <4>1, ElementOfSeq
      <4> QED
        BY <4>2 DEF Chars, Letters
    <3> QED
      BY <1>5, <3>1, <3>2
  <2>3. t = SubSeq(line, 1, caret - 1) \o SubSeq(line, caret + 1, Len(line))
    BY <1>2, <1>3, <1>5, Zenon DEF RubsOut, After
  <2>4. PICK a : a = caret - 1
    OBVIOUS
  <2>3a. t = SubSeq(line, 1, a) \o SubSeq(line, caret + 1, Len(line)) /\ a \in 0..Len(line)
    BY <1>1, <2>3, <2>4
  <2>6. /\ t \in Seq(Chars) /\ Len(t) = a + (Len(line) - caret)
        /\ \A i \in 1..a : t[i] = line[i]
        /\ \A i \in 1..(Len(line) - caret) : t[a + i] = line[caret + i]
    <3>1. t \in Seq(Chars) /\ IsCut(t, line, a, caret)
      BY <1>1, <2>3a, CutOut, Zenon
    <3> QED
      BY <3>1 DEF IsCut
  <2>7. Len(t) = Len(line) - 1
    BY <1>1, <2>4, <2>6
  <2>8. OwedBy(line, caret) => OwedBy(t, caret - 1)
    BY <1>1, <2>1, <2>4, <2>6, <2>7, OwedWithoutOne
  <2>9. Len(t) <= Len(line) /\ caret' \in 0..Len(t)
    BY <1>1, <2>7
  <2> QED
    BY <1>3, <2>6, <2>8, <2>9
<1> QED
  BY <1>4, <1>5

\* What is offered is chosen from the words.
LEMMA OfferedFacts ==
  ASSUME NEW words, NEW token
  PROVE  Offered(words, token) \subseteq words
BY DEF Offered

\* What is shown again is about the line as it is now.
LEMMA ShowFacts ==
  ASSUME PopupIsOfInfo, line' \in Seq(Chars), caret' \in 0..Len(line'), mode' = mode, Show
  PROVE  PopupIsOfInfo'
<1>1. CASE mode = "none"
  BY <1>1 DEF PopupIsOfInfo, Show, Hide
<1>2. CASE mode # "none"
  <2>1. PICK now : now = Sanitized(line', caret')
    OBVIOUS
  <2>2. now.token \in Seq(Chars)
    BY <2>1, TokenFacts
  <2>3. /\ info' = now /\ seen' = <<line', caret'>>
        /\ IF now.token = <<>> THEN Hide /\ UNCHANGED <<local, timer, pending>>
           ELSE /\ local' = LocalCandidates(now.token)
                /\ PopUp(local', now.token)
                /\ timer' = (mode = "all" /\ IsOfDb(now.token) /\ "(" \notin ToSet(now.token))
                /\ pending' = IF timer' THEN now.token ELSE <<>>
    BY <1>2, <2>1, Zenon DEF Show
  <2>4. seen'[1] = line' /\ seen'[2] = caret'
    BY <2>3
  <2>5. seen'[1] \in Seq(Chars) /\ seen'[2] \in 0..Len(seen'[1]) /\ info' = Sanitized(seen'[1], seen'[2])
    BY <2>1, <2>3, <2>4, Zenon
  <2>6. CASE now.token = <<>>
    <3>1. popup' = {} /\ ignore' = {} /\ local' = local /\ timer' = timer /\ pending' = pending
      BY <2>3, <2>6 DEF Hide
    <3> QED
      BY <2>5, <3>1 DEF PopupIsOfInfo
  <2>7. CASE now.token # <<>>
    <3>1. /\ local' = LocalCandidates(now.token)
          /\ PopUp(local', now.token)
          /\ timer' = (mode = "all" /\ IsOfDb(now.token) /\ "(" \notin ToSet(now.token))
          /\ pending' = IF timer' THEN now.token ELSE <<>>
      BY <2>3, <2>7
    <3>2. local' \subseteq Known
      BY <3>1, Zenon DEF LocalCandidates, Extending
    <3>3. popup' \subseteq local' /\ ignore' \subseteq AcceptKeys /\ (popup' # {} => ignore' = AcceptKeys)
      BY <3>1, OfferedFacts DEF PopUp, Hide
    <3>4. timer' \in BOOLEAN /\ (timer' => mode = "all")
      BY <3>1, Zenon
    <3>5. timer' => pending' \in Askable
      BY <2>2, <2>7, <3>1, <3>4 DEF Askable
    <3>6. popup' # {} => info'.token # <<>>
      BY <2>3, <2>7
    <3> HIDE DEF AcceptKeys
    <3> QED
      BY <2>5, <3>2, <3>3, <3>4, <3>5, <3>6 DEF PopupIsOfInfo
  <2> QED
    BY <2>6, <2>7
<1> QED
  BY <1>1, <1>2

\* What a key that edits or moves announces.
LEMMA AnnouncedFacts ==
  ASSUME PopupIsOfInfo, LineIsTyped, line' \in Seq(Chars), caret' \in 0..Len(line'), mode' = mode, Announced
  PROVE  PopupIsOfInfo' /\ keys' \in 0..MaxKeys /\ changed' \in BOOLEAN
<1>1. keys' \in 0..MaxKeys
  BY CompletionAssumption DEF Announced, LineIsTyped
<1>2. PICK isChanged \in BOOLEAN : isChanged = (changed \/ line' # line)
  BY Zenon DEF LineIsTyped
<1>3. IF caret' # caret /\ isChanged THEN Show /\ changed' = FALSE
      ELSE changed' = isChanged /\ UNCHANGED <<info, seen, local, popup, ignore, timer, pending>>
  BY <1>2, Zenon DEF Announced, AnnouncedNow
<1>4. CASE caret' # caret /\ isChanged
  BY <1>1, <1>3, <1>4, ShowFacts
<1>5. CASE ~(caret' # caret /\ isChanged)
  <2>1. /\ info' = info /\ seen' = seen /\ local' = local /\ popup' = popup /\ ignore' = ignore
        /\ timer' = timer /\ pending' = pending /\ changed' = isChanged
    BY <1>3, <1>5
  <2>2. PopupIsOfInfo'
    BY <2>1 DEF PopupIsOfInfo
  <2> QED
    BY <1>1, <2>1, <2>2
<1> QED
  BY <1>4, <1>5

\* The words are written in the characters, and what is found at a token lies in the line.
LEMMA InfoFacts ==
  ASSUME PopupIsOfInfo, LineIsTyped
  PROVE  info.left \in Nat /\ info.right \in Nat /\ From \in 0..Len(line)
<1>1. info.left \in Nat /\ info.right \in Nat
  BY TokenFacts DEF PopupIsOfInfo
<1>2. From \in 0..Len(line)
  <2>1. Len(line) \in Nat
    BY LenProperties DEF LineIsTyped, LineTyped
  <2>2. PICK m, n : m = info.left /\ n = Len(line)
    OBVIOUS
  <2>3. m \in Nat /\ n \in Nat
    BY <1>1, <2>1, <2>2
  <2>4. PICK T : T = {m, n}
    OBVIOUS
  <2>5. T \subseteq Nat /\ T # {}
    BY <2>3, <2>4
  <2>6. Min(T) \in T /\ \A k \in T : Min(T) <= k
    BY <2>5, MinOfSet
  <2>7. Min(T) \in 0..n
    BY <2>3, <2>4, <2>6
  <2>8. From = Min(T)
    BY <2>2, <2>4, Zenon DEF From
  <2> QED
    BY <2>2, <2>7, <2>8
<1> QED
  BY <1>1, <1>2

\* The line a choice leaves.
LEMMA ChosenFacts ==
  ASSUME PopupIsOfInfo, LineIsTyped, NEW word \in Known \cup OnServer, Activated(word)
  PROVE  line' \in Seq(Chars) /\ caret' \in 0..Len(line')
<1>1. info.left \in Nat /\ info.right \in Nat /\ From \in 0..Len(line)
  BY InfoFacts
<1>2. Len(line) \in Nat /\ line \in Seq(Chars) /\ word \in Seq(Chars) /\ Len(word) \in Nat
  <2>1. word \in Seq(Chars)
    BY CompletionAssumption
  <2> QED
    BY <2>1, LenProperties DEF LineIsTyped, LineTyped
<1>3. PICK right \in Nat :
        line' = SubSeq(line, 1, From) \o word \o SubSeq(line, right + 1, Len(line))
  <2>1. PICK r : r = IF Last(word) = "(" /\ info.right < Len(line) /\ line[info.right + 1] = "("
                     THEN info.right + 1 ELSE info.right
    OBVIOUS
  <2>2. r \in Nat
    BY <1>1, <2>1
  <2>3. line' = SubSeq(line, 1, From) \o word \o SubSeq(line, r + 1, Len(line))
    BY <2>1, Zenon DEF Activated
  <2> QED
    BY <2>2, <2>3
<1>4. PICK x, y : x = SubSeq(line, 1, From) /\ y = SubSeq(line, right + 1, Len(line))
  OBVIOUS
<1>5. x \in Seq(Chars) /\ Len(x) = From
  <2>1. From \in Nat /\ From <= Len(line) /\ 1 <= From + 1
    BY <1>1, <1>2
  <2>2. x \in Seq(Chars) /\ (1 <= From + 1 => Len(x) = From + 1 - 1)
    BY <1>2, <1>4, <2>1, Slice
  <2> QED
    BY <2>1, <2>2
<1>6. y \in Seq(Chars)
  <2>1. PICK m : m = right + 1
    OBVIOUS
  <2>2. m \in Nat /\ 1 <= m /\ Len(line) <= Len(line)
    BY <1>2, <2>1
  <2> QED
    BY <1>2, <1>4, <2>1, <2>2, Slice
<1>7. PICK z : z = x \o word
  OBVIOUS
<1>8. z \in Seq(Chars) /\ Len(z) = From + Len(word)
  BY <1>2, <1>5, <1>7, ConcatProperties
<1>9. PICK t : t = z \o y
  OBVIOUS
<1>10. t \in Seq(Chars) /\ Len(t) = Len(z) + Len(y) /\ Len(y) \in Nat
  BY <1>6, <1>8, <1>9, ConcatProperties, LenProperties
<1>11. line' = t
  BY <1>3, <1>4, <1>7, <1>9, Zenon
<1>12. caret' = From + Len(word)
  BY Zenon DEF Activated
<1> QED
  BY <1>1, <1>2, <1>8, <1>10, <1>11, <1>12

\* A key that edits or moves: the line goes on from what is typed, the rest by AnnouncedFacts.
LEMMA EditFacts ==
  ASSUME CompletionInv, line' \in Seq(Chars), caret' \in 0..Len(line'), Len(line') <= MaxLine,
         Announced, UNCHANGED shellVars, lost' = lost, byTyping' \in BOOLEAN,
         byTyping' => byTyping /\ (OwedBy(line, caret) => OwedBy(line', caret'))
  PROVE  CompletionInv'
<1>1. LineIsTyped /\ PopupIsOfInfo /\ AskedIsTyped /\ NoKeyIsLost /\ ClosersAreOwed
  BY DEF CompletionInv
<1>2. /\ prefixes' = prefixes /\ replies' = replies /\ executing' = executing
      /\ mode' = mode /\ askedFor' = askedFor
  BY DEF shellVars
<1>3. PopupIsOfInfo' /\ keys' \in 0..MaxKeys /\ changed' \in BOOLEAN
  BY <1>1, <1>2, AnnouncedFacts
<1>4. LineIsTyped'
  BY <1>1, <1>3 DEF LineIsTyped, LineTyped
<1>5. AskedIsTyped'
  BY <1>1, <1>2 DEF AskedIsTyped
<1>6. NoKeyIsLost'
  BY <1>1 DEF NoKeyIsLost
<1>7. ClosersAreOwed'
  <2>1. byTyping => OwedBy(line, caret)
    BY <1>1, OwedMeans DEF LineIsTyped, LineTyped
  <2>2. byTyping' => OwedBy(line', caret')
    BY <2>1
  <2> QED
    BY <2>2, OwedMeansThen
<1> QED
  BY <1>3, <1>4, <1>5, <1>6, <1>7 DEF CompletionInv

\* After Enter the line is a new one.
LEMMA EmptyLine ==
  ASSUME line' = <<>>, caret' = 0
  PROVE  /\ line' \in Seq(Chars) /\ Len(line') = 0 /\ caret' \in 0..Len(line')
         /\ ClosersAreOwed'
<1>1. line' \in Seq(Chars) /\ Len(line') = 0 /\ caret' \in 0..Len(line')
  BY EmptySeq
<1>2. OwedBy(line', caret')
  BY NothingIsOwed, Zenon
<1> QED
  BY <1>1, <1>2, OwedMeansThen

\* Every step keeps the invariant.
LEMMA CompletionStep ==
  ASSUME CompletionInv, [CompletionNext]_completionVars
  PROVE  CompletionInv'
<1>1. LineIsTyped /\ PopupIsOfInfo /\ AskedIsTyped /\ NoKeyIsLost /\ ClosersAreOwed
  BY DEF CompletionInv
<1>2. /\ line \in Seq(Chars) /\ Len(line) \in Nat /\ caret \in 0..Len(line) /\ LineTyped
      /\ Len(line) <= MaxLine /\ byTyping \in BOOLEAN /\ MaxLine \in Nat /\ MaxAsked \in Nat
  BY <1>1, LenProperties, CompletionAssumption DEF LineIsTyped, LineTyped
<1>3. ASSUME NEW c \in Chars, Type(c) PROVE CompletionInv'
  <2>1. Typed(c) /\ Len(line') <= MaxLine /\ Announced /\ UNCHANGED shellVars /\ lost' = lost
        /\ byTyping' = byTyping
    BY <1>3 DEF Type
  <2>2. /\ line' \in Seq(Chars) /\ caret' \in 0..Len(line')
        /\ OwedBy(line, caret) => OwedBy(line', caret')
    BY <1>2, <2>1, TypedFacts
  <2> QED
    BY <1>2, <2>1, <2>2, EditFacts
<1>4. ASSUME Backspace PROVE CompletionInv'
  <2>1. caret > 0 /\ RubsOut /\ caret' = caret - 1 /\ Announced /\ UNCHANGED shellVars
        /\ lost' = lost /\ byTyping' = byTyping
    BY <1>4 DEF Backspace
  <2>2. /\ line' \in Seq(Chars) /\ Len(line') <= Len(line) /\ caret' \in 0..Len(line')
        /\ OwedBy(line, caret) => OwedBy(line', caret')
    BY <1>2, <2>1, RubbedFacts
  <2>3. Len(line') <= MaxLine
    BY <1>2, <2>2, LenProperties
  <2> QED
    BY <1>2, <2>1, <2>2, <2>3, EditFacts
<1>5. ASSUME Delete PROVE CompletionInv'
  <2>1. caret < Len(line) /\ line' = Before \o Tail(After) /\ caret' = caret /\ Announced
        /\ byTyping' = FALSE /\ UNCHANGED shellVars /\ lost' = lost
    BY <1>5 DEF Delete
  <2>2. Tail(After) = SubSeq(line, (caret + 1) + 1, Len(line))
    <3>1. caret + 1 \in 1..Len(line) /\ Len(line) \in (caret + 1)..Len(line)
      BY <1>2, <2>1
    <3> QED
      BY <1>2, <3>1, HeadTailOfSubSeq DEF After
  <2>3. PICK t, b : t = line' /\ b = caret + 1
    OBVIOUS
  <2>4. b \in 0..Len(line)
    BY <1>2, <2>1, <2>3
  <2>5. t = SubSeq(line, 1, caret) \o SubSeq(line, b + 1, Len(line))
    BY <2>1, <2>2, <2>3, Zenon DEF Before
  <2>6. t \in Seq(Chars) /\ IsCut(t, line, caret, b)
    BY <1>2, <2>4, <2>5, CutOut, Zenon
  <2>7. Len(t) = Len(line) - 1
    BY <1>2, <2>3, <2>6 DEF IsCut
  <2>8. Len(t) <= MaxLine /\ caret' \in 0..Len(t)
    BY <1>2, <2>1, <2>7
  <2> QED
    BY <2>1, <2>3, <2>6, <2>8, EditFacts
<1>6. ASSUME NEW c \in 0..MaxLine, Move(c) PROVE CompletionInv'
  <2>1. c \in 0..Len(line) /\ caret' = c /\ line' = line /\ Announced /\ byTyping' = FALSE
        /\ UNCHANGED shellVars /\ lost' = lost
    BY <1>6 DEF Move
  <2> QED
    BY <1>2, <2>1, EditFacts
<1>7. ASSUME NEW key \in AcceptKeys, NEW word \in Known \cup OnServer, Choose(key, word)
      PROVE  CompletionInv'
  <2>1. /\ Activated(word) /\ Len(line') <= MaxLine /\ popup' = {} /\ ignore' = ignore \ {key}
        /\ byTyping' = FALSE /\ UNCHANGED shellVars
        /\ changed' = changed /\ info' = info /\ seen' = seen /\ local' = local /\ timer' = timer
        /\ pending' = pending /\ keys' = keys /\ lost' = lost
    BY <1>7 DEF Choose
  <2>2. line' \in Seq(Chars) /\ caret' \in 0..Len(line')
    BY <1>1, <2>1, ChosenFacts
  <2>3. /\ prefixes' = prefixes /\ replies' = replies /\ executing' = executing
        /\ mode' = mode /\ askedFor' = askedFor
    BY <2>1 DEF shellVars
  <2>4. LineIsTyped'
    BY <1>1, <2>1, <2>2 DEF LineIsTyped, LineTyped
  <2>5. PopupIsOfInfo'
    BY <1>1, <2>1, <2>3 DEF PopupIsOfInfo
  <2>6. AskedIsTyped' /\ NoKeyIsLost'
    BY <1>1, <2>1, <2>3 DEF AskedIsTyped, NoKeyIsLost
  <2>7. ClosersAreOwed'
    BY <2>1 DEF ClosersAreOwed
  <2> QED
    BY <2>4, <2>5, <2>6, <2>7 DEF CompletionInv
<1>8. ASSUME NEW key \in AcceptKeys, Press(key) PROVE CompletionInv'
  <2>1. /\ popup = {} /\ popup' = {} /\ ignore' = {}
        /\ byTyping' = TRUE /\ changed' = FALSE /\ UNCHANGED shellVars
        /\ info' = info /\ seen' = seen /\ local' = local /\ timer' = timer
        /\ pending' = pending /\ keys' = keys
    BY <1>8 DEF Press, Hide
  <2>2. line' = <<>> /\ caret' = 0 /\ lost' = FALSE
    <3>1. key \notin ignore'
      BY <2>1
    <3>2. /\ lost' = (lost \/ ~(key \notin ignore'))
          /\ line' = IF key \notin ignore' THEN <<>> ELSE line
          /\ caret' = IF key \notin ignore' THEN 0 ELSE caret
      BY <1>8, Zenon DEF Press
    <3>3. ~lost
      BY <1>1 DEF NoKeyIsLost
    <3> QED
      BY <3>1, <3>2, <3>3, Zenon
  <2>3. /\ line' \in Seq(Chars) /\ Len(line') = 0 /\ caret' \in 0..Len(line')
        /\ ClosersAreOwed'
    BY <2>2, EmptyLine
  <2>4. /\ prefixes' = prefixes /\ replies' = replies /\ executing' = executing
        /\ mode' = mode /\ askedFor' = askedFor
    BY <2>1 DEF shellVars
  <2>5. LineIsTyped'
    <3>1. Len(line') <= MaxLine
      BY <1>2, <2>3
    <3>2. keys' \in 0..MaxKeys /\ changed' \in BOOLEAN /\ lost' \in BOOLEAN /\ byTyping' \in BOOLEAN
      BY <1>1, <2>1, <2>2 DEF LineIsTyped
    <3> QED
      BY <2>3, <3>1, <3>2, Zenon DEF LineIsTyped, LineTyped
  <2>6. PopupIsOfInfo'
    BY <1>1, <2>1, <2>4 DEF PopupIsOfInfo
  <2>7. AskedIsTyped' /\ NoKeyIsLost'
    <3>1. AskedIsTyped'
      BY <1>1, <2>4 DEF AskedIsTyped
    <3> QED
      BY <2>2, <3>1 DEF NoKeyIsLost
  <2> QED
    BY <2>3, <2>5, <2>6, <2>7 DEF CompletionInv
<1>9. ASSUME line' = line, caret' = caret, changed' = changed, keys' = keys, lost' = lost,
             byTyping' = byTyping, PopupIsOfInfo', AskedIsTyped'
      PROVE  CompletionInv'
  <2>1. LineIsTyped' /\ NoKeyIsLost'
    BY <1>1, <1>9 DEF LineIsTyped, LineTyped, NoKeyIsLost
  <2>2. ClosersAreOwed'
    <3>1. byTyping' => OwedBy(line', caret')
      BY <1>1, <1>2, <1>9, OwedMeans
    <3> QED
      BY <1>2, <1>9, <3>1, OwedMeansThen
  <2> QED
    BY <1>9, <2>1, <2>2 DEF CompletionInv
<1>10. ASSUME Escape PROVE CompletionInv'
  <2>1. /\ popup' = {} /\ UNCHANGED shellVars
        /\ line' = line /\ caret' = caret /\ changed' = changed /\ info' = info /\ seen' = seen
        /\ local' = local /\ ignore' = ignore /\ timer' = timer /\ pending' = pending
        /\ keys' = keys /\ lost' = lost /\ byTyping' = byTyping
    BY <1>10 DEF Escape
  <2>2. /\ prefixes' = prefixes /\ replies' = replies /\ executing' = executing
        /\ mode' = mode /\ askedFor' = askedFor
    BY <2>1 DEF shellVars
  <2>3. PopupIsOfInfo'
    BY <1>1, <2>1, <2>2 DEF PopupIsOfInfo
  <2>4. AskedIsTyped'
    BY <1>1, <2>2 DEF AskedIsTyped
  <2> QED
    BY <1>9, <2>1, <2>3, <2>4
<1>11. ASSUME TimerFires PROVE CompletionInv'
  <2>1. /\ timer /\ timer' = FALSE
        /\ askedFor < MaxAsked \/ executing
        /\ IF executing THEN UNCHANGED <<prefixes, askedFor>>
           ELSE prefixes' = Append(prefixes, pending) /\ askedFor' = askedFor + 1
        /\ line' = line /\ caret' = caret /\ changed' = changed /\ info' = info /\ seen' = seen
        /\ local' = local /\ popup' = popup /\ ignore' = ignore /\ pending' = pending
        /\ replies' = replies /\ executing' = executing /\ mode' = mode
        /\ keys' = keys /\ lost' = lost /\ byTyping' = byTyping
    BY <1>11 DEF TimerFires
  <2>2. PopupIsOfInfo'
    BY <1>1, <2>1 DEF PopupIsOfInfo
  <2>3. AskedIsTyped'
    <3>1. CASE executing
      BY <1>1, <2>1, <3>1 DEF AskedIsTyped
    <3>2. CASE ~executing
      <4>1. prefixes' = Append(prefixes, pending) /\ askedFor' = askedFor + 1 /\ askedFor < MaxAsked
        BY <2>1, <3>2
      <4>2. mode = "all" /\ pending \in Askable
        BY <1>1, <2>1 DEF PopupIsOfInfo
      <4>3. /\ prefixes \in Seq(Askable) /\ Len(prefixes) \in Nat
            /\ replies \in Seq(Askable) /\ Len(replies) \in Nat
            /\ Len(prefixes) + Len(replies) <= askedFor /\ askedFor \in 0..MaxAsked /\ executing \in BOOLEAN
        BY <1>1, LenProperties DEF AskedIsTyped
      <4>4. prefixes' \in Seq(Askable) /\ Len(prefixes') = Len(prefixes) + 1
        BY <4>1, <4>2, <4>3, AppendProperties
      <4>5. Len(prefixes') + Len(replies') <= askedFor' /\ askedFor' \in 0..MaxAsked
        BY <1>2, <2>1, <4>1, <4>3, <4>4
      <4> QED
        BY <2>1, <4>2, <4>3, <4>4, <4>5 DEF AskedIsTyped
    <3> QED
      BY <3>1, <3>2
  <2> QED
    BY <1>9, <2>1, <2>2, <2>3
<1>12. ASSUME Answer PROVE CompletionInv'
  <2>1. /\ prefixes # <<>> /\ prefixes' = Tail(prefixes) /\ replies' = Append(replies, Head(prefixes))
        /\ line' = line /\ caret' = caret /\ changed' = changed /\ info' = info /\ seen' = seen
        /\ local' = local /\ popup' = popup /\ ignore' = ignore /\ timer' = timer /\ pending' = pending
        /\ executing' = executing /\ mode' = mode /\ askedFor' = askedFor
        /\ keys' = keys /\ lost' = lost /\ byTyping' = byTyping
    BY <1>12 DEF Answer
  <2>2. PopupIsOfInfo'
    BY <1>1, <2>1 DEF PopupIsOfInfo
  <2>3. AskedIsTyped'
    <3>1. /\ prefixes \in Seq(Askable) /\ Len(prefixes) \in Nat
          /\ replies \in Seq(Askable) /\ Len(replies) \in Nat /\ mode = "all"
          /\ Len(prefixes) + Len(replies) <= askedFor /\ askedFor \in 0..MaxAsked /\ executing \in BOOLEAN
      BY <1>1, <2>1, LenProperties DEF AskedIsTyped
    <3>2. Head(prefixes) \in Askable /\ prefixes' \in Seq(Askable) /\ Len(prefixes') = Len(prefixes) - 1
      BY <2>1, <3>1, HeadTailProperties
    <3>3. replies' \in Seq(Askable) /\ Len(replies') = Len(replies) + 1
      BY <2>1, <3>1, <3>2, AppendProperties
    <3> QED
      BY <2>1, <3>1, <3>2, <3>3 DEF AskedIsTyped
  <2> QED
    BY <1>9, <2>1, <2>2, <2>3
<1>13. ASSUME HandleReply PROVE CompletionInv'
  <2>1. PICK prefix : prefix = Head(replies)
    OBVIOUS
  <2>2. /\ replies # <<>> /\ replies' = Tail(replies)
        /\ IF IsLive(prefix)
           THEN /\ info' = Sanitized(line, caret) /\ seen' = <<line, caret>>
                /\ PopUp(local \cup Extending(OnServer, prefix), prefix)
           ELSE UNCHANGED <<info, seen, popup, ignore>>
        /\ line' = line /\ caret' = caret /\ changed' = changed
        /\ local' = local /\ timer' = timer /\ pending' = pending
        /\ prefixes' = prefixes /\ executing' = executing /\ mode' = mode /\ askedFor' = askedFor
        /\ keys' = keys /\ lost' = lost /\ byTyping' = byTyping
    BY <1>13, <2>1 DEF HandleReply
  <2>3. /\ prefixes \in Seq(Askable) /\ Len(prefixes) \in Nat
        /\ replies \in Seq(Askable) /\ Len(replies) \in Nat /\ mode = "all"
        /\ Len(prefixes) + Len(replies) <= askedFor /\ askedFor \in 0..MaxAsked /\ executing \in BOOLEAN
    BY <1>1, <2>2, LenProperties DEF AskedIsTyped
  <2>4. prefix \in Askable /\ replies' \in Seq(Askable) /\ Len(replies') = Len(replies) - 1
    BY <2>1, <2>2, <2>3, HeadTailProperties
  <2>5. AskedIsTyped'
    BY <2>2, <2>3, <2>4 DEF AskedIsTyped
  <2>6. PopupIsOfInfo'
    <3>1. CASE ~IsLive(prefix)
      <4>1. info' = info /\ seen' = seen /\ popup' = popup /\ ignore' = ignore
        BY <2>2, <3>1
      <4> QED
        BY <1>1, <2>2, <4>1 DEF PopupIsOfInfo
    <3>2. CASE IsLive(prefix)
      <4>1. /\ info' = Sanitized(line, caret) /\ seen' = <<line, caret>>
            /\ PopUp(local \cup Extending(OnServer, prefix), prefix)
        BY <2>2, <3>2
      <4>2. info'.token = prefix
        BY <3>2, <4>1 DEF IsLive
      <4>3. PICK words : words = local \cup Extending(OnServer, prefix)
        OBVIOUS
      <4>4. popup' \subseteq words /\ ignore' \subseteq AcceptKeys /\ (popup' # {} => ignore' = AcceptKeys)
        BY <4>1, <4>3, OfferedFacts DEF PopUp, Hide
      <4>5. \A w \in words : w \in local \/ (w \in OnServer /\ IsPrefix(prefix, w))
        BY <4>3, Zenon DEF Extending
      <4>6. /\ local' \subseteq Known /\ timer' \in BOOLEAN /\ (timer' => mode' = "all" /\ pending' \in Askable)
        BY <1>1, <2>2 DEF PopupIsOfInfo
      <4>7. popup' \subseteq Known \cup OnServer
        BY <2>2, <4>4, <4>5, <4>6
      <4>8. \A w \in popup' \ local' : mode' = "all" /\ IsPrefix(info'.token, w)
        BY <2>2, <2>3, <4>2, <4>4, <4>5, Zenon
      <4>9. prefix # <<>>
        BY <2>4 DEF Askable
      <4>10. seen'[1] = line /\ seen'[2] = caret
        BY <4>1
      <4>11. seen'[1] \in Seq(Chars) /\ seen'[2] \in 0..Len(seen'[1]) /\ info' = Sanitized(seen'[1], seen'[2])
        BY <1>2, <4>1, <4>10, Zenon
      <4> HIDE DEF AcceptKeys
      <4> QED
        BY <4>2, <4>4, <4>6, <4>7, <4>8, <4>9, <4>11 DEF PopupIsOfInfo
    <3> QED
      BY <3>1, <3>2
  <2> QED
    BY <1>9, <2>2, <2>5, <2>6
<1>14. ASSUME RunScript PROVE CompletionInv'
  <2>1. /\ executing' = ~executing
        /\ line' = line /\ caret' = caret /\ changed' = changed /\ info' = info /\ seen' = seen
        /\ local' = local /\ popup' = popup /\ ignore' = ignore /\ timer' = timer /\ pending' = pending
        /\ prefixes' = prefixes /\ replies' = replies /\ mode' = mode /\ askedFor' = askedFor
        /\ keys' = keys /\ lost' = lost /\ byTyping' = byTyping
    BY <1>14 DEF RunScript
  <2>2. PopupIsOfInfo' /\ AskedIsTyped'
    BY <1>1, <2>1 DEF PopupIsOfInfo, AskedIsTyped
  <2> QED
    BY <1>9, <2>1, <2>2
<1>15. ASSUME UNCHANGED completionVars PROVE CompletionInv'
  <2>1. /\ line' = line /\ caret' = caret /\ changed' = changed /\ info' = info /\ seen' = seen
        /\ local' = local /\ popup' = popup /\ ignore' = ignore /\ timer' = timer /\ pending' = pending
        /\ prefixes' = prefixes /\ replies' = replies /\ executing' = executing
        /\ mode' = mode /\ askedFor' = askedFor
        /\ keys' = keys /\ lost' = lost /\ byTyping' = byTyping
    BY <1>15 DEF completionVars
  <2>2. PopupIsOfInfo' /\ AskedIsTyped'
    BY <1>1, <2>1 DEF PopupIsOfInfo, AskedIsTyped
  <2> QED
    BY <1>9, <2>1, <2>2
<1> QED
  BY <1>3, <1>4, <1>5, <1>6, <1>7, <1>8, <1>10, <1>11, <1>12, <1>13, <1>14, <1>15
  DEF CompletionNext, CompletionUser, CompletionAnswers

\* It holds in the beginning.
LEMMA CompletionStart ==
  ASSUME CompletionInit
  PROVE  CompletionInv
<1>1. /\ line = <<>> /\ caret = 0 /\ changed = FALSE /\ info = NoInfo /\ seen = <<<<>>, 0>>
      /\ local = {} /\ popup = {} /\ ignore = {} /\ timer = FALSE /\ pending = <<>>
      /\ prefixes = <<>> /\ replies = <<>> /\ executing = FALSE
      /\ askedFor = 0 /\ keys = 0 /\ lost = FALSE /\ byTyping = TRUE
  BY DEF CompletionInit
<1>2. /\ <<>> \in Seq(Chars) /\ <<>> \in Seq(Askable) /\ Len(<<>>) = 0
      /\ MaxLine \in Nat /\ MaxKeys \in Nat /\ MaxAsked \in Nat
  BY EmptySeq, CompletionAssumption
<1>3. LineIsTyped
  <2>1. line \in Seq(Chars) /\ Len(line) = 0 /\ caret = 0
    BY <1>1, <1>2, Zenon
  <2>2. caret \in 0..Len(line) /\ Len(line) <= MaxLine
    BY <1>2, <2>1
  <2>3. keys \in 0..MaxKeys /\ changed \in BOOLEAN /\ lost \in BOOLEAN /\ byTyping \in BOOLEAN
    <3>1. keys = 0 /\ changed = FALSE /\ lost = FALSE /\ byTyping = TRUE
      BY <1>1
    <3>2. 0 \in 0..MaxKeys
      BY <1>2
    <3> QED
      BY <3>1, <3>2
  <2> QED
    BY <2>1, <2>2, <2>3, Zenon DEF LineIsTyped, LineTyped
<1>4. AskedIsTyped /\ NoKeyIsLost
  <2>1. prefixes \in Seq(Askable) /\ replies \in Seq(Askable) /\ Len(prefixes) = 0 /\ Len(replies) = 0
    BY <1>1, <1>2, Zenon
  <2>2. Len(prefixes) + Len(replies) <= askedFor /\ askedFor \in 0..MaxAsked
    BY <1>1, <1>2, <2>1
  <2>3. (prefixes # <<>> \/ replies # <<>> => mode = "all") /\ executing \in BOOLEAN /\ ~lost
    BY <1>1
  <2> QED
    BY <2>1, <2>2, <2>3, Zenon DEF AskedIsTyped, NoKeyIsLost
<1>5. Sanitized(<<>>, 0) = NoInfo
  <2>1. LeftStops(<<>>, 0) = {} /\ RightStops(<<>>, 0) = {}
    BY <1>2 DEF LeftStops, RightStops
  <2>2. LeftOf(<<>>, 0) = 0 /\ RightOf(<<>>, 0) = 0
    BY <1>2, <2>1 DEF LeftOf, RightOf
  <2>3. SubSeq(<<>>, LeftOf(<<>>, 0) + 1, 0) = <<>>
    <3>1. 0 + 1 = 1 /\ 1 \in Int /\ 0 \in Int /\ 0 < 1
      OBVIOUS
    <3>2. SubSeq(<<>>, 1, 0) = <<>>
      BY <3>1, SubSeqEmpty
    <3> QED
      BY <2>2, <3>1, <3>2
  <2> QED
    BY <2>2, <2>3 DEF Sanitized, NoInfo
<1>6. PopupIsOfInfo
  <2>1. seen[1] = <<>> /\ seen[2] = 0
    BY <1>1
  <2>2. seen[1] \in Seq(Chars) /\ seen[2] \in 0..Len(seen[1]) /\ info = Sanitized(seen[1], seen[2])
    BY <1>1, <1>2, <1>5, <2>1
  <2> QED
    BY <1>1, <2>2 DEF PopupIsOfInfo
<1>7. ClosersAreOwed
  <2>1. OwedBy(line, caret)
    BY <1>1, NothingIsOwed, Zenon
  <2> QED
    BY <1>1, <1>2, <2>1, OwedMeans
<1> QED
  BY <1>3, <1>4, <1>6, <1>7 DEF CompletionInv

\* The invariant says what is shown.
LEMMA CompletionMeans ==
  ASSUME CompletionInv
  PROVE  CompletionIsSound
<1>1. LineIsTyped /\ PopupIsOfInfo /\ AskedIsTyped /\ NoKeyIsLost /\ ClosersAreOwed
  BY DEF CompletionInv
<1>2. CompletionTypeOK
  BY <1>1 DEF LineIsTyped, LineTyped, PopupIsOfInfo, AskedIsTyped, CompletionTypeOK
<1>3. NamesAreForTheToken
  <2>1. ASSUME seen = <<line, caret>>, NEW w \in popup \ local
        PROVE  mode = "all" /\ IsPrefix(Sanitized(line, caret).token, w)
    <3>1. seen[1] = line /\ seen[2] = caret
      BY <2>1
    <3>2. info = Sanitized(seen[1], seen[2]) /\ mode = "all" /\ IsPrefix(info.token, w)
      BY <1>1 DEF PopupIsOfInfo
    <3> QED
      BY <3>1, <3>2, Zenon
  <2> QED
    BY <2>1 DEF NamesAreForTheToken
<1> QED
  BY <1>1, <1>2, <1>3 DEF CompletionIsSound

\* Completion in the editor: however late the answers of the shell come, in whatever order
\* the user types, moves, chooses and leaves, the popup is about the token at the caret,
\* swallows no key, and every closing character the editor added has its opening one.
THEOREM CompletionIsKept == CompletionSpec => []CompletionIsSound
<1>1. CompletionInit => CompletionInv
  BY CompletionStart
<1>2. CompletionInv /\ [CompletionNext]_completionVars => CompletionInv'
  BY CompletionStep
<1>3. CompletionInv => CompletionIsSound
  BY CompletionMeans
<1> QED
  BY <1>1, <1>2, <1>3, PTL DEF CompletionSpec

\* A word chosen replaces the token info was taken from.
LEMMA ChoiceReplaces ==
  ASSUME CompletionInv, NEW key, NEW word \in Known \cup OnServer, Choose(key, word), seen[1] = line
  PROVE  Replaced(word)
<1>1. LineIsTyped /\ PopupIsOfInfo
  BY DEF CompletionInv
<1>2. Activated(word) /\ popup # {}
  BY DEF Choose
<1>3. PICK c : c = seen[2]
  OBVIOUS
<1>4. line \in Seq(Chars) /\ c \in 0..Len(line) /\ Len(line) \in Nat
  BY <1>1, <1>3, LenProperties DEF PopupIsOfInfo
<1>5. info = Sanitized(line, c) /\ info.token # <<>>
  BY <1>1, <1>2, <1>3 DEF PopupIsOfInfo
<1>6. PICK m, n : m = LeftOf(line, c) /\ n = RightOf(line, c)
  OBVIOUS
<1>7. m \in 0..c /\ n \in c..Len(line) /\ info.left = m /\ info.right = n
  <2>1. /\ LeftOf(line, c) \in 0..c /\ RightOf(line, c) \in c..Len(line)
        /\ info.token # <<>> => info.left = LeftOf(line, c) /\ info.right = RightOf(line, c)
    BY <1>4, <1>5, TokenFacts
  <2> QED
    BY <1>5, <1>6, <2>1
<1>8. From = m
  <2>1. PICK T : T = {m, Len(line)}
    OBVIOUS
  <2>2. T \subseteq Nat /\ T # {}
    BY <1>4, <1>7, <2>1
  <2>3. Min(T) \in T /\ \A k \in T : Min(T) <= k
    BY <2>2, MinOfSet
  <2>4. Min(T) = m
    BY <1>4, <1>7, <2>1, <2>3
  <2>5. From = Min(T)
    BY <1>7, <2>1, Zenon DEF From
  <2> QED
    BY <2>4, <2>5
<1>9. PICK rest : rest = SubSeq(line, n + 1, Len(line))
  OBVIOUS
<1>10. rest \in Seq(Chars) /\ Len(rest) = Len(line) - n /\ \A i \in 1..(Len(line) - n) : rest[i] = line[n + i]
  <2>1. n \in 0..Len(line)
    BY <1>4, <1>7
  <2> QED
    BY <1>4, <1>9, <2>1, AfterFacts
<1>11. n < Len(line) <=> rest # <<>>
  <2>1. rest = <<>> => Len(rest) = 0
    BY EmptySeq
  <2>2. Len(rest) = 0 => rest = <<>>
    BY <1>10, EmptySeq
  <2> QED
    BY <1>4, <1>7, <1>10, <2>1, <2>2
<1>12. ASSUME n < Len(line)
       PROVE  Head(rest) = line[n + 1] /\ Tail(rest) = SubSeq(line, (n + 1) + 1, Len(line))
  <2>1. n + 1 \in 1..Len(line) /\ Len(line) \in (n + 1)..Len(line)
    BY <1>4, <1>7, <1>12
  <2> QED
    BY <1>4, <1>9, <2>1, HeadTailOfSubSeq
<1>13. PICK paren \in BOOLEAN : paren = (Last(word) = "(" /\ n < Len(line) /\ line[n + 1] = "(")
  BY Zenon
<1>14. line' = SubSeq(line, 1, m) \o word
                 \o SubSeq(line, (IF paren THEN n + 1 ELSE n) + 1, Len(line))
  BY <1>2, <1>7, <1>8, <1>13, Zenon DEF Activated
<1>15. paren <=> Last(word) = "(" /\ rest # <<>> /\ Head(rest) = "("
  BY <1>11, <1>12, <1>13, Zenon
<1>16. SubSeq(line, (IF paren THEN n + 1 ELSE n) + 1, Len(line)) =
         IF Last(word) = "(" /\ rest # <<>> /\ Head(rest) = "(" THEN Tail(rest) ELSE rest
  <2>1. CASE paren
    <3>1. n < Len(line)
      BY <1>13, <2>1, Zenon
    <3> QED
      BY <1>12, <1>15, <2>1, <3>1, Zenon
  <2>2. CASE ~paren
    BY <1>9, <1>15, <2>2, Zenon
  <2> QED
    BY <2>1, <2>2
<1> QED
  BY <1>3, <1>6, <1>9, <1>14, <1>16, Zenon DEF Replaced

\* A completion replaces the token it was offered for and nothing else.
THEOREM TokensAreReplaced == CompletionSpec => OnlyTheTokenIsReplaced
<1>1. CompletionInit => CompletionInv
  BY CompletionStart
<1>2. CompletionInv /\ [CompletionNext]_completionVars => CompletionInv'
  BY CompletionStep
<1>3. ASSUME CompletionInv, [CompletionNext]_completionVars
      PROVE  [popup # {} /\ popup' = {} /\ line' # line /\ ignore' # {} /\ seen[1] = line =>
                \E w \in Known \cup OnServer : Replaced(w)]_completionVars
  <2>1. SUFFICES ASSUME popup # {}, popup' = {}, line' # line, ignore' # {}, seen[1] = line
                 PROVE  \E w \in Known \cup OnServer : Replaced(w)
    OBVIOUS
  <2>2. ASSUME Announced PROVE FALSE
    <3>1. ASSUME Show PROVE popup' # {} \/ ignore' = {}
      <4>1. PICK now : now = Sanitized(line', caret')
        OBVIOUS
      <4>2. Hide \/ UNCHANGED popup \/ PopUp(local', now.token)
        BY <3>1, <4>1, Zenon DEF Show
      <4> QED
        BY <2>1, <4>2 DEF Hide, PopUp
    <3> QED
      BY <2>1, <2>2, <3>1 DEF Announced, AnnouncedNow
  <2>3. ~UNCHANGED completionVars
    BY <2>1 DEF completionVars
  <2>4. \A c \in Chars : ~Type(c)
    BY <2>2 DEF Type
  <2>5. ~Backspace /\ ~Delete /\ \A c \in 0..MaxLine : ~Move(c)
    BY <2>2 DEF Backspace, Delete, Move
  <2>6. \A key \in AcceptKeys : ~Press(key)
    BY <2>1 DEF Press
  <2>7. ~Escape /\ ~TimerFires /\ ~Answer /\ ~HandleReply /\ ~RunScript
    BY <2>1 DEF Escape, TimerFires, Answer, HandleReply, RunScript
  <2>8. PICK key \in AcceptKeys, word \in Known \cup OnServer : Choose(key, word)
    BY <1>3, <2>3, <2>4, <2>5, <2>6, <2>7, Zenon DEF CompletionNext, CompletionUser, CompletionAnswers
  <2>9. Replaced(word)
    BY <1>3, <2>1, <2>8, ChoiceReplaces
  <2> QED
    BY <2>9
<1>4. ASSUME [popup # {} /\ popup' = {} /\ line' # line /\ ignore' # {} /\ seen[1] = line =>
                \E w \in Known \cup OnServer : Replaced(w)]_completionVars
      PROVE  [popup # {} /\ popup' = {} /\ line' # line /\ ignore' # {} /\ seen[1] = line =>
       \E w \in Known \cup OnServer :
         LET rest == SubSeq(line, RightOf(line, seen[2]) + 1, Len(line)) IN
         line' = SubSeq(line, 1, LeftOf(line, seen[2])) \o w \o
                   (IF Last(w) = "(" /\ rest # <<>> /\ Head(rest) = "(" THEN Tail(rest) ELSE rest)]_completionVars
  BY <1>4, Zenon DEF Replaced
<1> QED
  BY <1>1, <1>2, <1>3, <1>4, PTL DEF CompletionSpec, OnlyTheTokenIsReplaced
=============================================================================
