-------------------------- MODULE SchedulerProofs --------------------------
(***************************************************************************)
(* Proofs about Scheduler for any finite set of calls and any limits.      *)
(*                                                                         *)
(* The inductive invariant IInv joins the invariants of the model with     *)
(* what they silently rely on: a waiting call is unsettled and in stage    *)
(* "queued" (otherwise tryExecuteNext could start it twice), the slot      *)
(* counter counts the operations before their .finally, and a call that    *)
(* is refused or over has been answered.  First come facts about the two   *)
(* queue operations and the start loop, then one lemma per action, and     *)
(* last the refinement of RequestService.                                  *)
(***************************************************************************)
EXTENDS Scheduler, SequenceTheorems, FiniteSetTheorems, TLAPS

\* The calls in a queue.
Elements(q) == {q[i] : i \in DOMAIN q}

\* A queue without repetitions whose ranks never decrease.
Sorted(q) ==
    \A i, j \in DOMAIN q :
        i < j => q[i] # q[j] /\ Rank(q[i]) <= Rank(q[j])

\* The calls that hold a slot, and those whose operation was started, when
\* st gives every call's stage.
Holders(st) == {r \in Requests : st[r] \in {"running", "finishing"}}
Started(st) == {r \in Requests : st[r] \in {"running", "finishing", "finished"}}

-----------------------------------------------------------------------------
\* The order whose well-foundedness gives least elements.
Less == {p \in Nat \X Nat : p[1] < p[2]}

\* Every non-empty set of naturals has a least element.
LEMMA LeastNatural ==
    ASSUME NEW T \in SUBSET Nat, T # {}
    PROVE  \E m \in T : \A n \in T : m <= n
<1>1. IsWellFoundedOn(Less, Nat)
  BY NatLessThanWellFounded DEF Less, OpToRel
<1>2. PICK m \in T : \A n \in T : ~(<<n, m>> \in Less)
  BY <1>1, WFMin
<1>3. \A n \in T : m <= n
  <2> TAKE n \in T
  <2>1. n \in Nat /\ m \in Nat /\ <<n, m>> \in Nat \X Nat
    OBVIOUS
  <2>2. ~(<<n, m>> \in Less)
    BY <1>2
  <2>3. ~(n < m)
    BY <2>1, <2>2 DEF Less
  <2> QED BY <2>1, <2>3
<1> QED BY <1>3

\* Every priority ranks between 0 and 2 in PRIORITY_ORDER.
LEMMA RankType == \A r \in Requests : Rank(r) \in 0..2
  BY CallsAssumption DEF Rank, PriorityOrder

\* findIndex in insertByPriority always leaves a position: the first entry of
\* lower priority, or the end.
LEMMA InsertPositionExists ==
    ASSUME NEW q \in Seq(Requests), NEW r \in Requests
    PROVE  \E n \in 1..(Len(q) + 1) :
              /\ \A j \in 1..(n - 1) : Rank(q[j]) <= Rank(r)
              /\ n <= Len(q) => Rank(q[n]) > Rank(r)
<1> DEFINE T == {n \in 1..Len(q) : Rank(q[n]) > Rank(r)}
<1>1. \A n \in 1..Len(q) : q[n] \in Requests /\ Rank(q[n]) \in 0..2
  BY RankType
<1>2. Len(q) \in Nat /\ Rank(r) \in 0..2
  BY RankType
<1>3. CASE T = {}
  <2>1. \A j \in 1..Len(q) : Rank(q[j]) <= Rank(r)
    BY <1>1, <1>2, <1>3
  <2> QED BY <1>2, <2>1
<1>4. CASE T # {}
  <2>0. T \in SUBSET Nat
    BY <1>2
  <2>1. PICK m \in T : \A n \in T : m <= n
    BY <1>4, <2>0, LeastNatural
  <2>2. \A j \in 1..(m - 1) : Rank(q[j]) <= Rank(r)
    <3> TAKE j \in 1..(m - 1)
    <3>1. j \in 1..Len(q) /\ ~(m <= j)
      BY <1>2
    <3>2. j \notin T
      BY <2>1, <3>1
    <3> QED BY <1>1, <1>2, <3>1, <3>2
  <2> QED BY <1>2, <2>2
<1> QED BY <1>3, <1>4

\* insertByPriority keeps the entries before that position, puts the call
\* there and shifts the others by one.
LEMMA InsertByPriorityShape ==
    ASSUME NEW q \in Seq(Requests), NEW r \in Requests
    PROVE  \E n \in 1..(Len(q) + 1) :
              /\ \A j \in 1..(n - 1) : Rank(q[j]) <= Rank(r)
              /\ n <= Len(q) => Rank(q[n]) > Rank(r)
              /\ InsertByPriority(q, r) \in Seq(Requests)
              /\ Len(InsertByPriority(q, r)) = Len(q) + 1
              /\ \A j \in 1..(Len(q) + 1) :
                    InsertByPriority(q, r)[j] =
                        IF j < n THEN q[j] ELSE IF j = n THEN r ELSE q[j - 1]
<1> DEFINE At(n) == /\ \A j \in 1..(n - 1) : Rank(q[j]) <= Rank(r)
                    /\ n <= Len(q) => Rank(q[n]) > Rank(r)
           i == CHOOSE n \in 1..(Len(q) + 1) : At(n)
           front == SubSeq(q, 1, i - 1)
           back == SubSeq(q, i, Len(q))
<1>1. i \in 1..(Len(q) + 1) /\ At(i)
  BY InsertPositionExists
<1>2. InsertByPriority(q, r) = front \o <<r>> \o back
  BY DEF InsertByPriority
<1>3. Len(q) \in Nat /\ i \in Nat /\ \A j \in 1..Len(q) : q[j] \in Requests
  BY <1>1
<1> HIDE DEF i
<1>4. /\ front \in Seq(Requests)
      /\ Len(front) = i - 1
      /\ \A j \in 1..(i - 1) : front[j] = q[j]
  <2>1. \A j \in 1..(i - 1) : q[j] \in Requests
    BY <1>1, <1>3
  <2>2. 1 \in Int /\ i - 1 \in Int
    BY <1>3
  <2> QED BY <2>1, <2>2, <1>1, <1>3, SubSeqProperties
<1>5. /\ back \in Seq(Requests)
      /\ Len(back) = Len(q) - i + 1
      /\ \A j \in 1..(Len(q) - i + 1) : back[j] = q[i + j - 1]
  <2>1. \A j \in i..Len(q) : q[j] \in Requests
    BY <1>1, <1>3
  <2>2. i \in Int /\ Len(q) \in Int
    BY <1>3
  <2> QED BY <2>1, <2>2, <1>1, <1>3, SubSeqProperties
<1> HIDE DEF front, back
<1>6. /\ <<r>> \in Seq(Requests)
      /\ Len(<<r>>) = 1
      /\ <<r>>[1] = r
  OBVIOUS
<1>7. /\ front \o <<r>> \in Seq(Requests)
      /\ Len(front \o <<r>>) = i
      /\ \A j \in 1..i : (front \o <<r>>)[j] = IF j < i THEN q[j] ELSE r
  BY <1>1, <1>3, <1>4, <1>6, ConcatProperties
<1>8. /\ (front \o <<r>>) \o back \in Seq(Requests)
      /\ Len((front \o <<r>>) \o back) = Len(q) + 1
      /\ \A j \in 1..(Len(q) + 1) :
            ((front \o <<r>>) \o back)[j] =
               IF j < i THEN q[j] ELSE IF j = i THEN r ELSE q[j - 1]
  <2> DEFINE head == front \o <<r>>
  <2>1. /\ head \in Seq(Requests)
        /\ Len(head) = i
        /\ \A j \in 1..i : head[j] = IF j < i THEN q[j] ELSE r
    BY <1>7
  <2> HIDE DEF head
  <2>2. /\ head \o back \in Seq(Requests)
        /\ Len(head \o back) = Len(head) + Len(back)
        /\ \A j \in 1..(Len(head) + Len(back)) :
              (head \o back)[j] =
                 IF j <= Len(head) THEN head[j] ELSE back[j - Len(head)]
    BY <1>5, <2>1, ConcatProperties
  <2>3. Len(head) + Len(back) = Len(q) + 1
    BY <1>1, <1>3, <1>5, <2>1
  <2>4. ASSUME NEW j \in 1..(Len(q) + 1)
        PROVE  (head \o back)[j] =
                  IF j < i THEN q[j] ELSE IF j = i THEN r ELSE q[j - 1]
    <3>1. CASE j <= i
      BY <1>1, <1>3, <2>1, <2>2, <2>3, <3>1
    <3>2. CASE j > i
      <4>1. j - i \in 1..(Len(q) - i + 1) /\ i + (j - i) - 1 = j - 1
        BY <1>1, <1>3, <3>2
      <4>2. back[j - i] = q[j - 1]
        BY <1>5, <4>1
      <4> QED BY <1>1, <1>3, <2>1, <2>2, <2>3, <3>2, <4>2
    <3>3. j <= i \/ j > i
      BY <1>3
    <3> QED BY <3>1, <3>2, <3>3
  <2>5. /\ head \o back \in Seq(Requests)
        /\ Len(head \o back) = Len(q) + 1
    BY <2>2, <2>3
  <2> QED BY <2>4, <2>5 DEF head
<1> QED BY <1>1, <1>2, <1>8

\* insertByPriority keeps a queue ordered and adds just the new call.
LEMMA InsertByPrioritySorted ==
    ASSUME NEW q \in Seq(Requests), NEW r \in Requests,
           Sorted(q), r \notin Elements(q)
    PROVE  /\ InsertByPriority(q, r) \in Seq(Requests)
           /\ Len(InsertByPriority(q, r)) = Len(q) + 1
           /\ Sorted(InsertByPriority(q, r))
           /\ Elements(InsertByPriority(q, r)) = Elements(q) \union {r}
<1> DEFINE s == InsertByPriority(q, r)
<1>1. PICK n \in 1..(Len(q) + 1) :
              /\ \A j \in 1..(n - 1) : Rank(q[j]) <= Rank(r)
              /\ n <= Len(q) => Rank(q[n]) > Rank(r)
              /\ s \in Seq(Requests)
              /\ Len(s) = Len(q) + 1
              /\ \A j \in 1..(Len(q) + 1) :
                    s[j] = IF j < n THEN q[j] ELSE IF j = n THEN r ELSE q[j - 1]
  BY InsertByPriorityShape
<1> HIDE DEF s
<1>2. /\ Len(q) \in Nat
      /\ DOMAIN q = 1..Len(q)
      /\ DOMAIN s = 1..(Len(q) + 1)
      /\ \A j \in 1..Len(q) : q[j] \in Requests /\ q[j] # r
  BY <1>1 DEF Elements
<1>3. /\ \A j \in 1..Len(q) : Rank(q[j]) \in 0..2
      /\ Rank(r) \in 0..2
  BY <1>2, RankType
<1>4. ASSUME NEW j \in 1..Len(q), n <= j
      PROVE  Rank(r) <= Rank(q[j])
  <2>1. n \in DOMAIN q /\ Rank(r) < Rank(q[n])
    BY <1>1, <1>2, <1>3, <1>4
  <2>2. n = j \/ Rank(q[n]) <= Rank(q[j])
    BY <1>2, <1>4, <2>1 DEF Sorted
  <2> QED BY <1>2, <1>3, <2>1, <2>2
<1>5. Sorted(s)
  <2> SUFFICES ASSUME NEW i \in DOMAIN s, NEW j \in DOMAIN s, i < j
               PROVE  s[i] # s[j] /\ Rank(s[i]) <= Rank(s[j])
    BY DEF Sorted
  <2>1. CASE j < n
    BY <1>1, <1>2, <2>1 DEF Sorted
  <2>2. CASE i < n /\ j = n
    BY <1>1, <1>2, <2>2
  <2>3. CASE i < n /\ n < j
    <3>1. s[i] = q[i] /\ s[j] = q[j - 1]
      BY <1>1, <1>2, <2>3
    <3>2. i \in 1..Len(q) /\ j - 1 \in 1..Len(q) /\ i < j - 1
      BY <1>1, <1>2, <2>3
    <3> QED BY <1>2, <3>1, <3>2 DEF Sorted
  <2>4. CASE i = n
    <3>1. s[i] = r /\ s[j] = q[j - 1]
      BY <1>1, <1>2, <2>4
    <3>2. j - 1 \in 1..Len(q) /\ n <= j - 1
      BY <1>1, <1>2, <2>4
    <3> QED BY <1>2, <1>4, <3>1, <3>2
  <2>5. CASE n < i
    <3>1. s[i] = q[i - 1] /\ s[j] = q[j - 1]
      BY <1>1, <1>2, <2>5
    <3>2. i - 1 \in 1..Len(q) /\ j - 1 \in 1..Len(q) /\ i - 1 < j - 1
      BY <1>1, <1>2, <2>5
    <3> QED BY <1>2, <3>1, <3>2 DEF Sorted
  <2> QED BY <1>2, <2>1, <2>2, <2>3, <2>4, <2>5
<1>6. Elements(s) = Elements(q) \union {r}
  <2>1. ASSUME NEW j \in DOMAIN s
        PROVE  s[j] \in Elements(q) \union {r}
    <3>1. CASE j < n
      BY <1>1, <1>2, <3>1 DEF Elements
    <3>2. CASE j = n
      BY <1>1, <1>2, <3>2
    <3>3. CASE n < j
      <4>1. s[j] = q[j - 1] /\ j - 1 \in DOMAIN q
        BY <1>1, <1>2, <3>3
      <4> QED BY <4>1 DEF Elements
    <3> QED BY <1>2, <3>1, <3>2, <3>3
  <2>2. ASSUME NEW j \in DOMAIN q
        PROVE  q[j] \in Elements(s)
    <3>1. CASE j < n
      <4>1. s[j] = q[j] /\ j \in DOMAIN s
        BY <1>1, <1>2, <3>1
      <4> QED BY <4>1 DEF Elements
    <3>2. CASE n <= j
      <4>1. s[j + 1] = q[j] /\ j + 1 \in DOMAIN s
        BY <1>1, <1>2, <3>2
      <4> QED BY <4>1 DEF Elements
    <3> QED BY <1>2, <3>1, <3>2
  <2>3. r \in Elements(s)
    <3>1. s[n] = r /\ n \in DOMAIN s
      BY <1>1, <1>2
    <3> QED BY <3>1 DEF Elements
  <2> QED BY <2>1, <2>2, <2>3 DEF Elements
<1> QED BY <1>1, <1>5, <1>6 DEF s

\* removeFromQueue drops one entry of the call and closes the gap.
LEMMA RemoveFromQueueShape ==
    ASSUME NEW q \in Seq(Requests), NEW r \in Elements(q)
    PROVE  \E i \in DOMAIN q :
              /\ q[i] = r
              /\ RemoveFromQueue(q, r) \in Seq(Requests)
              /\ Len(RemoveFromQueue(q, r)) = Len(q) - 1
              /\ \A j \in 1..(Len(q) - 1) :
                    RemoveFromQueue(q, r)[j] = IF j < i THEN q[j] ELSE q[j + 1]
<1> DEFINE i == CHOOSE n \in DOMAIN q : q[n] = r
           front == SubSeq(q, 1, i - 1)
           back == SubSeq(q, i + 1, Len(q))
           s == front \o back
<1>1. i \in DOMAIN q /\ q[i] = r
  BY DEF Elements
<1>2. RemoveFromQueue(q, r) = s
  BY <1>1 DEF RemoveFromQueue
<1>3. /\ Len(q) \in Nat
      /\ i \in 1..Len(q)
      /\ DOMAIN q = 1..Len(q)
      /\ \A j \in 1..Len(q) : q[j] \in Requests
  BY <1>1
<1> HIDE DEF i
<1>4. /\ front \in Seq(Requests)
      /\ Len(front) = i - 1
      /\ \A j \in 1..(i - 1) : front[j] = q[j]
  <2>1. \A j \in 1..(i - 1) : q[j] \in Requests
    BY <1>3
  <2>2. 1 \in Int /\ i - 1 \in Int
    BY <1>3
  <2> QED BY <2>1, <2>2, <1>3, SubSeqProperties
<1>5. /\ back \in Seq(Requests)
      /\ Len(back) = Len(q) - i
      /\ \A j \in 1..(Len(q) - i) : back[j] = q[i + j]
  <2>1. \A j \in (i + 1)..Len(q) : q[j] \in Requests
    BY <1>3
  <2>2. i + 1 \in Int /\ Len(q) \in Int
    BY <1>3
  <2>3. /\ back \in Seq(Requests)
        /\ Len(back) = IF i + 1 <= Len(q) THEN Len(q) - (i + 1) + 1 ELSE 0
        /\ \A j \in 1..(Len(q) - (i + 1) + 1) : back[j] = q[(i + 1) + j - 1]
    BY <2>1, <2>2, SubSeqProperties
  <2> HIDE DEF back
  <2>4. /\ Len(q) - (i + 1) + 1 = Len(q) - i
        /\ \A j \in 1..(Len(q) - i) : (i + 1) + j - 1 = i + j
    BY <1>3
  <2>5. Len(back) = Len(q) - i
    <3>1. Len(back) = IF i + 1 <= Len(q) THEN Len(q) - (i + 1) + 1 ELSE 0
      BY <2>3
    <3>2. Len(q) \in Nat /\ i \in 1..Len(q)
      BY <1>3
    <3> QED BY <3>1, <3>2
  <2>6. \A j \in 1..(Len(q) - i) : back[j] = q[i + j]
    BY <2>3, <2>4
  <2> QED BY <2>3, <2>5, <2>6
<1> HIDE DEF front, back
<1>6. /\ s \in Seq(Requests)
      /\ Len(s) = Len(q) - 1
      /\ \A j \in 1..(Len(q) - 1) : s[j] = IF j < i THEN q[j] ELSE q[j + 1]
  <2>1. /\ s \in Seq(Requests)
        /\ Len(s) = Len(front) + Len(back)
        /\ \A j \in 1..(Len(front) + Len(back)) :
              s[j] = IF j <= Len(front) THEN front[j] ELSE back[j - Len(front)]
    BY <1>4, <1>5, ConcatProperties
  <2>2. Len(front) + Len(back) = Len(q) - 1
    BY <1>3, <1>4, <1>5
  <2>3. ASSUME NEW j \in 1..(Len(q) - 1)
        PROVE  s[j] = IF j < i THEN q[j] ELSE q[j + 1]
    <3>1. CASE j < i
      BY <1>3, <1>4, <2>1, <2>2, <3>1
    <3>2. CASE i <= j
      <4>1. j - (i - 1) \in 1..(Len(q) - i) /\ i + (j - (i - 1)) = j + 1
        BY <1>3, <3>2
      <4>2. back[j - (i - 1)] = q[j + 1]
        BY <1>5, <4>1
      <4> QED BY <1>3, <1>4, <2>1, <2>2, <3>2, <4>2
    <3>3. j < i \/ i <= j
      BY <1>3
    <3> QED BY <3>1, <3>2, <3>3
  <2> QED BY <2>1, <2>2, <2>3
<1> QED BY <1>1, <1>2, <1>6

\* removeFromQueue keeps a queue ordered and drops just the call it was given.
LEMMA RemoveFromQueueSorted ==
    ASSUME NEW q \in Seq(Requests), NEW r \in Elements(q), Sorted(q)
    PROVE  /\ RemoveFromQueue(q, r) \in Seq(Requests)
           /\ Len(RemoveFromQueue(q, r)) = Len(q) - 1
           /\ Sorted(RemoveFromQueue(q, r))
           /\ Elements(RemoveFromQueue(q, r)) = Elements(q) \ {r}
<1> DEFINE s == RemoveFromQueue(q, r)
<1>1. PICK i \in DOMAIN q :
         /\ q[i] = r
         /\ s \in Seq(Requests)
         /\ Len(s) = Len(q) - 1
         /\ \A j \in 1..(Len(q) - 1) : s[j] = IF j < i THEN q[j] ELSE q[j + 1]
  BY RemoveFromQueueShape
<1>3. /\ Len(q) \in Nat
      /\ i \in 1..Len(q)
      /\ DOMAIN q = 1..Len(q)
  OBVIOUS
<1>6. /\ s \in Seq(Requests)
      /\ Len(s) = Len(q) - 1
      /\ \A j \in 1..(Len(q) - 1) : s[j] = IF j < i THEN q[j] ELSE q[j + 1]
  BY <1>1
<1> HIDE DEF s
<1>7. DOMAIN s = 1..(Len(q) - 1)
  BY <1>6
<1>8. Sorted(s)
  <2> SUFFICES ASSUME NEW m \in DOMAIN s, NEW n \in DOMAIN s, m < n
               PROVE  s[m] # s[n] /\ Rank(s[m]) <= Rank(s[n])
    BY DEF Sorted
  <2>1. CASE n < i
    BY <1>3, <1>6, <1>7, <2>1 DEF Sorted
  <2>2. CASE m < i /\ i <= n
    <3>1. s[m] = q[m] /\ s[n] = q[n + 1]
      BY <1>3, <1>6, <1>7, <2>2
    <3>2. m \in DOMAIN q /\ n + 1 \in DOMAIN q /\ m < n + 1
      BY <1>3, <1>7, <2>2
    <3> QED BY <3>1, <3>2 DEF Sorted
  <2>3. CASE i <= m
    <3>1. s[m] = q[m + 1] /\ s[n] = q[n + 1]
      BY <1>3, <1>6, <1>7, <2>3
    <3>2. m + 1 \in DOMAIN q /\ n + 1 \in DOMAIN q /\ m + 1 < n + 1
      BY <1>3, <1>7, <2>3
    <3> QED BY <3>1, <3>2 DEF Sorted
  <2> QED BY <1>3, <1>7, <2>1, <2>2, <2>3
<1>9. \A j \in DOMAIN q : j # i => q[j] # r
  <2> SUFFICES ASSUME NEW j \in DOMAIN q, j # i
               PROVE  q[j] # q[i]
    BY <1>1
  <2>1. j < i \/ i < j
    BY <1>3
  <2> QED BY <1>1, <2>1 DEF Sorted
<1>10. Elements(s) = Elements(q) \ {r}
  <2>1. ASSUME NEW j \in DOMAIN s
        PROVE  s[j] \in Elements(q) \ {r}
    <3>1. CASE j < i
      <4>1. s[j] = q[j] /\ j \in DOMAIN q /\ j # i
        BY <1>3, <1>6, <1>7, <3>1
      <4> QED BY <1>9, <4>1 DEF Elements
    <3>2. CASE i <= j
      <4>1. s[j] = q[j + 1] /\ j + 1 \in DOMAIN q /\ j + 1 # i
        BY <1>3, <1>6, <1>7, <3>2
      <4> QED BY <1>9, <4>1 DEF Elements
    <3> QED BY <1>3, <1>7, <3>1, <3>2
  <2>2. ASSUME NEW j \in DOMAIN q, j # i
        PROVE  q[j] \in Elements(s)
    <3>1. CASE j < i
      <4>1. s[j] = q[j] /\ j \in DOMAIN s
        BY <1>3, <1>6, <1>7, <3>1
      <4> QED BY <4>1 DEF Elements
    <3>2. CASE i < j
      <4>1. s[j - 1] = q[j] /\ j - 1 \in DOMAIN s
        BY <1>3, <1>6, <1>7, <3>2
      <4> QED BY <4>1 DEF Elements
    <3> QED BY <1>3, <2>2, <3>1, <3>2
  <2> QED BY <1>1, <2>1, <2>2, ZenonT(60) DEF Elements
<1> QED BY <1>6, <1>8, <1>10 DEF s

\* Counting two disjoint sets of calls.
LEMMA DisjointUnionCardinality ==
    ASSUME NEW A \in SUBSET Requests, NEW B \in SUBSET Requests,
           A \intersect B = {}
    PROVE  /\ Cardinality(A) \in Nat
           /\ Cardinality(B) \in Nat
           /\ Cardinality(A \union B) = Cardinality(A) + Cardinality(B)
<1>1. IsFiniteSet(A) /\ IsFiniteSet(B)
  BY CallsAssumption, FS_Subset
<1>2. Cardinality(A) \in Nat /\ Cardinality(B) \in Nat
  BY <1>1, FS_CardinalityType
<1>3. Cardinality(A \union B) =
        Cardinality(A) + Cardinality(B) - Cardinality({})
  BY <1>1, FS_Union
<1>4. Cardinality({}) = 0
  BY FS_EmptySet
<1> QED BY <1>2, <1>3, <1>4

\* A queue fit for the start loop: ordered, every entry waiting and unsettled.
Waiting(q, st) ==
    /\ q \in Seq(Requests)
    /\ Sorted(q)
    /\ \A r \in Elements(q) : st[r] = "queued" /\ ~Settled(r)

\* The counter n counts the slot holders and respects the limit.
Slots(n, st) ==
    /\ n \in Nat
    /\ n <= MaxConcurrency
    /\ n = Cardinality(Holders(st))

\* What tryExecuteNext establishes, whatever queue and counter it starts from:
\* it takes a prefix of the queue, each entry once, never exceeds
\* maxConcurrency, and stops with entries left only when every slot is taken.
LEMMA TryExecuteNextStep ==
    ASSUME NEW q, NEW running, NEW owned \in SUBSET Requests,
           NEW st \in [Requests -> Stages],
           Waiting(q, st), Slots(running, st),
           totals \in [processed : Nat, timedOut : Nat, rejected : Nat],
           totals.processed = Cardinality(Started(st)),
           outcome' = outcome,
           TryExecuteNext(q, running, owned, st)
    PROVE  /\ Waiting(queue, stage)'
           /\ Slots(inFlight, stage)'
           /\ Len(queue') <= Len(q)
           /\ queue' # <<>> => inFlight' = MaxConcurrency
           /\ Elements(queue') \subseteq Elements(q)
           /\ stage' \in [Requests -> Stages]
           /\ \A r \in Requests :
                 \/ stage'[r] = st[r] /\ (r \in Elements(q) => r \in Elements(queue'))
                 \/ /\ st[r] = "queued" /\ stage'[r] = "running"
                    /\ r \in inFlightRequests' /\ r \in Elements(q)
           /\ owned \subseteq inFlightRequests'
           /\ inFlightRequests' \subseteq Requests
           /\ \A r \in inFlightRequests' : r \in owned \/ stage'[r] = "running"
           /\ totals' \in [processed : Nat, timedOut : Nat, rejected : Nat]
           /\ totals'.processed = Cardinality(Started(stage'))
           /\ totals'.timedOut = totals.timedOut
           /\ totals'.rejected = totals.rejected
<1> DEFINE first(k) == {q[i] : i \in 1..k}
<1>1. PICK k \in 0..Len(q) :
        /\ k > 0 => running + Cardinality(Startable(q, k - 1)) < MaxConcurrency
        /\ k < Len(q) => running + Cardinality(Startable(q, k)) >= MaxConcurrency
        /\ queue' = SubSeq(q, k + 1, Len(q))
        /\ inFlight' = running + Cardinality(Startable(q, k))
        /\ inFlightRequests' = owned \union Startable(q, k)
        /\ stage' = [r \in Requests |->
                        IF r \in Startable(q, k) THEN "running" ELSE st[r]]
        /\ totals' = [totals EXCEPT !.processed =
                                       @ + Cardinality(Startable(q, k))]
  BY DEF TryExecuteNext
<1>2. /\ q \in Seq(Requests)
      /\ Len(q) \in Nat
      /\ k \in Nat
      /\ DOMAIN q = 1..Len(q)
      /\ \A i \in 1..Len(q) : q[i] \in Requests /\ st[q[i]] = "queued"
      /\ \A i \in 1..Len(q) : outcome[q[i]] = "none"
  BY DEF Waiting, Elements, Settled
<1>3. \A n \in 0..Len(q) : Startable(q, n) = first(n)
  BY <1>2 DEF Startable
<1> DEFINE begun == first(k)
<1>4. \A n \in 0..Len(q) :
         /\ first(n) \subseteq Requests
         /\ \A r \in first(n) : st[r] = "queued" /\ r \in Elements(q)
  BY <1>2 DEF Elements
<1>5. /\ queue' \in Seq(Requests)
      /\ Len(queue') = Len(q) - k
      /\ \A i \in 1..(Len(q) - k) : queue'[i] = q[k + i]
  <2>1. \A i \in (k + 1)..Len(q) : q[i] \in Requests
    BY <1>2
  <2>2. k + 1 \in Int /\ Len(q) \in Int
    BY <1>2
  <2> DEFINE rest == SubSeq(q, k + 1, Len(q))
  <2>3. /\ rest \in Seq(Requests)
        /\ Len(rest) = IF k + 1 <= Len(q) THEN Len(q) - (k + 1) + 1 ELSE 0
        /\ \A i \in 1..(Len(q) - (k + 1) + 1) : rest[i] = q[(k + 1) + i - 1]
    BY <2>1, <2>2, SubSeqProperties
  <2>4. queue' = rest
    BY <1>1
  <2> HIDE DEF rest
  <2>5. Len(rest) = Len(q) - k
    BY <1>1, <1>2, <2>3
  <2>6. ASSUME NEW i \in 1..(Len(q) - k)
        PROVE  rest[i] = q[k + i]
    <3>1. (k + 1) + i - 1 = k + i /\ i \in 1..(Len(q) - (k + 1) + 1)
      BY <1>2
    <3> QED BY <2>3, <3>1
  <2> QED BY <2>3, <2>4, <2>5, <2>6
<1>6. /\ DOMAIN queue' = 1..(Len(q) - k)
      /\ \A i \in DOMAIN queue' : k + i \in DOMAIN q /\ queue'[i] = q[k + i]
  BY <1>2, <1>5
<1>7. Sorted(q)
  BY DEF Waiting
<1>8. \A i, j \in DOMAIN queue' :
         i < j => queue'[i] # queue'[j] /\ Rank(queue'[i]) <= Rank(queue'[j])
  <2> TAKE i, j \in DOMAIN queue'
  <2> HAVE i < j
  <2>1. k + i < k + j
    BY <1>2, <1>6
  <2> QED BY <1>6, <1>7, <2>1 DEF Sorted
<1>9. ASSUME NEW i \in DOMAIN queue'
      PROVE  queue'[i] \in Elements(q) /\ queue'[i] \notin begun
  <2>1. queue'[i] \in Elements(q)
    BY <1>6 DEF Elements
  <2>2. ASSUME NEW m \in 1..k
        PROVE  q[m] # q[k + i]
    <3>1. m \in DOMAIN q /\ k + i \in DOMAIN q /\ m < k + i
      BY <1>2, <1>6
    <3> QED BY <1>7, <3>1 DEF Sorted
  <2> QED BY <1>6, <2>1, <2>2
<1>10. stage' = [r \in Requests |-> IF r \in begun THEN "running" ELSE st[r]]
  BY <1>1, <1>3
<1>11. stage' \in [Requests -> Stages]
  BY <1>10 DEF Stages
<1>12. \A r \in Elements(queue') :
          r \in Elements(q) /\ r \notin begun /\ r \in Requests
       /\ stage'[r] = "queued" /\ outcome'[r] = "none"
  <2> SUFFICES ASSUME NEW i \in DOMAIN queue'
               PROVE  /\ queue'[i] \in Elements(q)
                      /\ queue'[i] \notin begun
                      /\ queue'[i] \in Requests
                      /\ stage'[queue'[i]] = "queued"
                      /\ outcome'[queue'[i]] = "none"
    BY DEF Elements
  <2>1. k + i \in 1..Len(q) /\ queue'[i] = q[k + i]
    BY <1>2, <1>6
  <2>2. queue'[i] \in Requests /\ st[queue'[i]] = "queued"
        /\ outcome[queue'[i]] = "none"
    BY <1>2, <2>1
  <2> QED BY <1>9, <1>10, <2>2
<1>13. Waiting(queue, stage)'
  BY <1>5, <1>8, <1>12 DEF Waiting, Sorted, Elements, Settled, Rank
<1>14. /\ begun \in SUBSET Requests
       /\ \A r \in begun : st[r] = "queued" /\ r \in Elements(q)
  BY <1>1, <1>4
<1>15. /\ Holders(stage') = Holders(st) \union begun
       /\ Holders(st) \intersect begun = {}
       /\ Started(stage') = Started(st) \union begun
       /\ Started(st) \intersect begun = {}
       /\ Holders(st) \in SUBSET Requests
       /\ Started(st) \in SUBSET Requests
  BY <1>10, <1>14 DEF Holders, Started
<1>16. /\ Cardinality(begun) \in Nat
       /\ Cardinality(Holders(stage')) = running + Cardinality(begun)
       /\ Cardinality(Started(stage')) = totals.processed + Cardinality(begun)
  BY <1>14, <1>15, DisjointUnionCardinality DEF Slots
<1>17. running + Cardinality(begun) <= MaxConcurrency
  <2>1. CASE k = 0
    <3>1. begun = {}
      BY <2>1
    <3>2. Cardinality(begun) = 0
      BY <3>1, FS_EmptySet
    <3>3. /\ running \in Nat
          /\ MaxConcurrency \in Nat
          /\ running <= MaxConcurrency
      BY LimitsAssumption DEF Slots
    <3> QED BY <3>2, <3>3
  <2>2. CASE k > 0
    <3>1. k - 1 \in 0..Len(q) /\ q[k] \in Requests
      BY <1>1, <1>2, <2>2
    <3>2. begun = first(k - 1) \union {q[k]}
      <4>1. 1..k = 1..(k - 1) \union {k}
        BY <1>2, <2>2
      <4> QED BY <4>1
    <3>3. first(k - 1) \in SUBSET Requests
      BY <1>4, <3>1
    <3>4. IsFiniteSet(first(k - 1))
      BY <3>3, CallsAssumption, FS_Subset
    <3>5. /\ Cardinality(first(k - 1)) \in Nat
          /\ Cardinality(begun) <= Cardinality(first(k - 1)) + 1
      <4>1. Cardinality(first(k - 1)) \in Nat
        BY <3>4, FS_CardinalityType
      <4>2. \/ Cardinality(begun) = Cardinality(first(k - 1))
            \/ Cardinality(begun) = Cardinality(first(k - 1)) + 1
        BY <3>2, <3>4, FS_AddElement
      <4> QED BY <4>1, <4>2
    <3>6. running + Cardinality(first(k - 1)) < MaxConcurrency
      BY <1>1, <1>3, <2>2, <3>1
    <3>7. running \in Nat /\ MaxConcurrency \in Nat
      BY LimitsAssumption DEF Slots
    <3> QED BY <1>16, <3>5, <3>6, <3>7
  <2>3. k = 0 \/ k > 0
    BY <1>2
  <2> QED BY <2>1, <2>2, <2>3
<1>18. inFlight' = running + Cardinality(begun)
  BY <1>1, <1>3
<1>19. Slots(inFlight, stage)'
  <2>1. Slots(inFlight', stage')
    BY <1>16, <1>17, <1>18 DEF Slots
  <2> QED BY <2>1 DEF Slots, Holders
<1>20. queue' # <<>> => inFlight' = MaxConcurrency
  <2> SUFFICES ASSUME queue' # <<>>
               PROVE  inFlight' = MaxConcurrency
    OBVIOUS
  <2>1. k < Len(q)
    BY <1>2, <1>5, EmptySeq
  <2>2. inFlight' >= MaxConcurrency
    BY <1>1, <2>1
  <2>3. inFlight' \in Nat /\ MaxConcurrency \in Nat /\ inFlight' <= MaxConcurrency
    BY <1>16, <1>17, <1>18, LimitsAssumption DEF Slots
  <2> QED BY <2>2, <2>3
<1>21. ASSUME NEW r \in Requests
       PROVE  \/ stage'[r] = st[r] /\ (r \in Elements(q) => r \in Elements(queue'))
              \/ /\ st[r] = "queued" /\ stage'[r] = "running"
                 /\ r \in inFlightRequests' /\ r \in Elements(q)
  <2>1. CASE r \in begun
    BY <1>1, <1>3, <1>10, <1>14, <2>1
  <2>2. CASE r \notin begun
    <3>1. stage'[r] = st[r]
      BY <1>10, <2>2
    <3>2. ASSUME NEW i \in DOMAIN q, r = q[i]
          PROVE  r \in Elements(queue')
      <4>1. ~(i \in 1..k)
        BY <2>2, <3>2
      <4>2. i - k \in DOMAIN queue' /\ k + (i - k) = i
        BY <1>2, <1>6, <4>1
      <4> QED BY <1>6, <3>2, <4>2 DEF Elements
    <3> QED BY <3>1, <3>2 DEF Elements
  <2> QED BY <2>1, <2>2
<1>22. /\ totals' \in [processed : Nat, timedOut : Nat, rejected : Nat]
       /\ totals'.processed = Cardinality(Started(stage'))
       /\ totals'.timedOut = totals.timedOut
       /\ totals'.rejected = totals.rejected
  <2>1. totals' = [totals EXCEPT !.processed = @ + Cardinality(begun)]
    BY <1>1, <1>3
  <2>2. totals.processed + Cardinality(begun) \in Nat
    BY <1>16
  <2> QED BY <1>16, <2>1, <2>2
<1>23. /\ owned \subseteq inFlightRequests'
       /\ inFlightRequests' \subseteq Requests
       /\ \A r \in inFlightRequests' : r \in owned \/ stage'[r] = "running"
  BY <1>1, <1>3, <1>10, <1>14
<1>24. Len(queue') <= Len(q) /\ Elements(queue') \subseteq Elements(q)
  BY <1>2, <1>5, <1>12
<1> QED BY <1>11, <1>13, <1>19, <1>20, <1>21, <1>22, <1>23, <1>24

\* The calls answered in one of the ways in S.
Answered(S) == {r \in Requests : outcome[r] \in S}
Refusals == {"full", "draining", "shutdown"}

\* The counters of stats() against the calls.
Counted ==
    /\ totals.timedOut = Cardinality(Answered({"timeout"}))
    /\ totals.rejected = Cardinality(Answered(Refusals))
    /\ totals.processed = Cardinality(Started(stage))

\* NoCallLost in terms of Elements.
Reachable ==
    /\ \A r \in Requests :
          ~Settled(r) => /\ stage[r] = "queued" => r \in Elements(queue)
                         /\ stage[r] = "running" => r \in inFlightRequests
    /\ queue # <<>> => inFlight = MaxConcurrency

\* How a call's stage and its answer go together, and that only a draining
\* scheduler has drain() waiters.
Lifecycle ==
    /\ \A r \in Requests :
          /\ stage[r] = "new" => ~Settled(r)
          /\ stage[r] \in {"refused", "finishing", "finished"} => Settled(r)
    /\ \A r \in inFlightRequests : stage[r] \in {"running", "finishing"}
    /\ drainResolvers # {} => draining

\* The inductive invariant.
IInv ==
    /\ TypeOK
    /\ Waiting(queue, stage)
    /\ Len(queue) <= MaxQueue
    /\ Slots(inFlight, stage)
    /\ Counted
    /\ Reachable
    /\ Lifecycle

\* The inductive invariant contains the invariants that TLC checks.
LEMMA IInvImpliesProperties ==
    IInv => TypeOK /\ QueueDiscipline /\ Accounting /\ NoCallLost
<1> SUFFICES ASSUME IInv
             PROVE  TypeOK /\ QueueDiscipline /\ Accounting /\ NoCallLost
  OBVIOUS
<1>1. TypeOK
  BY DEF IInv
<1>2. QueueDiscipline
  BY DEF IInv, QueueDiscipline, Waiting, Sorted, Elements, Queued
<1>3. Accounting
  BY DEF IInv, Accounting, Slots, Holders, HoldsSlot, Counted, Answered,
         Refusals, Started
<1>4. NoCallLost
  BY DEF IInv, NoCallLost, Reachable, Elements, Queued
<1> QED BY <1>1, <1>2, <1>3, <1>4

\* A new scheduler satisfies the inductive invariant.
LEMMA InitIInv == Init => IInv
<1> SUFFICES ASSUME Init
             PROVE  IInv
  OBVIOUS
<1>1. TypeOK
  <2>1. queue \in Seq(Requests) /\ inFlight \in Nat
    BY DEF Init
  <2>2. stage \in [Requests -> Stages] /\ outcome \in [Requests -> Outcomes]
    BY DEF Init, Stages, Outcomes
  <2>3. totals \in [processed : Nat, timedOut : Nat, rejected : Nat]
    BY DEF Init
  <2> QED BY <2>1, <2>2, <2>3 DEF Init, TypeOK
<1>2. Waiting(queue, stage) /\ Len(queue) <= MaxQueue
  BY LimitsAssumption DEF Init, Waiting, Sorted, Elements
<1>3. /\ Holders(stage) = {}
      /\ Started(stage) = {}
      /\ Answered({"timeout"}) = {}
      /\ Answered(Refusals) = {}
  BY DEF Init, Holders, Started, Answered, Refusals
<1>4. Cardinality({}) = 0
  BY FS_EmptySet
<1>5. Slots(inFlight, stage)
  <2>1. inFlight = 0 /\ Cardinality(Holders(stage)) = 0
    BY <1>3, <1>4 DEF Init
  <2>2. 0 \in Nat /\ 0 <= MaxConcurrency
    BY LimitsAssumption
  <2> QED BY <2>1, <2>2 DEF Slots
<1>6. Counted
  BY <1>3, <1>4 DEF Init, Counted
<1>7. Reachable /\ Lifecycle
  BY DEF Init, Reachable, Lifecycle, Settled, Elements
<1> QED BY <1>1, <1>2, <1>5, <1>6, <1>7 DEF IInv

\* Counting one more call.
LEMMA AddOne ==
    ASSUME NEW A \in SUBSET Requests, NEW r \in Requests, r \notin A
    PROVE  Cardinality(A \union {r}) = Cardinality(A) + 1
<1>1. IsFiniteSet(A)
  BY CallsAssumption, FS_Subset
<1> QED BY <1>1, FS_AddElement

\* enqueue() on a draining scheduler or a full queue preserves IInv.
LEMMA RefuseIInv ==
    ASSUME IInv, NEW r \in Requests, RejectDraining(r) \/ RejectFull(r)
    PROVE  IInv'
<1>1. PICK why \in {"draining", "full"} :
        /\ stage[r] = "new"
        /\ stage' = [stage EXCEPT ![r] = "refused"]
        /\ outcome' = [outcome EXCEPT ![r] = why]
        /\ totals' = [totals EXCEPT !.rejected = @ + 1]
        /\ UNCHANGED <<queue, inFlight, inFlightRequests, draining,
                       drainResolvers, drained, deadlines>>
  BY DEF RejectDraining, RejectFull
<1>2. /\ TypeOK
      /\ outcome[r] = "none"
      /\ Waiting(queue, stage)
      /\ Slots(inFlight, stage)
      /\ Counted
      /\ Reachable
      /\ Lifecycle
      /\ Len(queue) <= MaxQueue
  BY <1>1 DEF IInv, Lifecycle, Settled
<1>3. TypeOK'
  BY <1>1, <1>2 DEF TypeOK, Stages, Outcomes
<1>4. Waiting(queue, stage)'
  BY <1>1, <1>2 DEF Waiting, Sorted, Elements, Settled, TypeOK
<1>5. /\ Holders(stage') = Holders(stage)
      /\ Started(stage') = Started(stage)
      /\ Answered({"timeout"})' = Answered({"timeout"})
      /\ Answered(Refusals)' = Answered(Refusals) \union {r}
      /\ r \notin Answered(Refusals)
      /\ Answered(Refusals) \in SUBSET Requests
  BY <1>1, <1>2 DEF Holders, Started, Answered, Refusals, TypeOK
<1>6. Slots(inFlight, stage)'
  BY <1>1, <1>2, <1>5 DEF Slots, Holders
<1>7. Counted'
  <2>1. Cardinality(Answered(Refusals)') = Cardinality(Answered(Refusals)) + 1
    BY <1>5, AddOne
  <2>2. /\ totals'.timedOut = totals.timedOut
        /\ totals'.processed = totals.processed
        /\ totals'.rejected = totals.rejected + 1
    BY <1>1, <1>2 DEF TypeOK
  <2> QED BY <1>2, <1>5, <2>1, <2>2 DEF Counted, Started
<1>8. Reachable' /\ Lifecycle'
  BY <1>1, <1>2 DEF Reachable, Lifecycle, Settled, Elements, TypeOK
<1> QED BY <1>1, <1>2, <1>3, <1>4, <1>6, <1>7, <1>8 DEF IInv

\* enqueue() of an admitted call preserves IInv, and no other call stops
\* being new.
LEMMA AdmitIInv ==
    ASSUME IInv, NEW r \in Requests, Admit(r)
    PROVE  /\ IInv'
           /\ \A s \in Requests :
                 stage'[s] = "new" <=> stage[s] = "new" /\ s # r
<1> DEFINE q == InsertByPriority(queue, r)
           st == [stage EXCEPT ![r] = "queued"]
           owned == inFlightRequests
           running == inFlight
<1>1. /\ stage[r] = "new"
      /\ Len(queue) < MaxQueue
      /\ TryExecuteNext(q, running, owned, st)
      /\ UNCHANGED <<outcome, draining, drainResolvers, drained, deadlines>>
  BY DEF Admit
<1>2. /\ TypeOK
      /\ Waiting(queue, stage)
      /\ Slots(inFlight, stage)
      /\ Counted
      /\ Reachable
      /\ Lifecycle
      /\ ~Settled(r)
  BY <1>1 DEF IInv, Lifecycle
<1>3. /\ owned \in SUBSET Requests
      /\ totals \in [processed : Nat, timedOut : Nat, rejected : Nat]
      /\ st \in [Requests -> Stages]
      /\ st[r] = "queued"
      /\ \A s \in Requests \ {r} : st[s] = stage[s]
  BY <1>2 DEF TypeOK, Stages
<1>4. r \notin Elements(queue)
  BY <1>1, <1>2 DEF Waiting
<1>5. /\ q \in Seq(Requests)
      /\ Len(q) = Len(queue) + 1
      /\ Sorted(q)
      /\ Elements(q) = Elements(queue) \union {r}
  BY <1>2, <1>4, InsertByPrioritySorted DEF Waiting
<1>6. Holders(st) = Holders(stage) /\ Started(st) = Started(stage)
  BY <1>1, <1>3 DEF Holders, Started
<1>7. Elements(queue) \subseteq Requests
  BY <1>2 DEF Waiting, Elements
<1> HIDE DEF q, st
<1>8. Waiting(q, st)
  BY <1>2, <1>3, <1>5, <1>7 DEF Waiting
<1>9. Slots(running, st) /\ totals.processed = Cardinality(Started(st))
  BY <1>2, <1>6 DEF Slots, Counted
<1>10. /\ owned \in SUBSET Requests
       /\ st \in [Requests -> Stages]
       /\ TryExecuteNext(q, running, owned, st)
       /\ totals \in [processed : Nat, timedOut : Nat, rejected : Nat]
       /\ outcome' = outcome
  BY <1>1, <1>3
<1> HIDE DEF q, st, owned, running
<1>11. /\ Waiting(queue, stage)'
       /\ Slots(inFlight, stage)'
       /\ Len(queue') <= Len(q)
       /\ queue' # <<>> => inFlight' = MaxConcurrency
       /\ stage' \in [Requests -> Stages]
       /\ \A s \in Requests :
             \/ stage'[s] = st[s] /\ (s \in Elements(q) => s \in Elements(queue'))
             \/ /\ st[s] = "queued" /\ stage'[s] = "running"
                /\ s \in inFlightRequests' /\ s \in Elements(q)
       /\ owned \subseteq inFlightRequests'
       /\ inFlightRequests' \subseteq Requests
       /\ \A s \in inFlightRequests' : s \in owned \/ stage'[s] = "running"
       /\ totals' \in [processed : Nat, timedOut : Nat, rejected : Nat]
       /\ totals'.processed = Cardinality(Started(stage'))
       /\ totals'.timedOut = totals.timedOut
       /\ totals'.rejected = totals.rejected
  BY <1>8, <1>9, <1>10, TryExecuteNextStep, ZenonT(60)
<1>12. TypeOK'
  BY <1>1, <1>2, <1>11 DEF TypeOK, Waiting, Slots
<1>13. Len(queue') <= MaxQueue
  <2>1. Len(queue) \in Nat /\ Len(queue') \in Nat /\ MaxQueue \in Nat
    BY <1>2, <1>12, LimitsAssumption DEF TypeOK
  <2> QED BY <1>1, <1>5, <1>11, <2>1
<1>14. Counted'
  BY <1>1, <1>2, <1>11 DEF Counted, Answered, Started
<1>15. Reachable'
  <2>1. ASSUME NEW s \in Requests, ~Settled(s)', stage'[s] = "queued"
        PROVE  s \in Elements(queue')
    <3>1. st[s] = "queued" /\ (s \in Elements(q) => s \in Elements(queue'))
      BY <1>11, <2>1
    <3>2. s = r \/ (stage[s] = "queued" /\ ~Settled(s))
      BY <1>1, <1>3, <2>1, <3>1 DEF Settled
    <3>3. s \in Elements(q)
      BY <1>2, <1>5, <3>2 DEF Reachable
    <3> QED BY <3>1, <3>3
  <2>2. ASSUME NEW s \in Requests, ~Settled(s)', stage'[s] = "running"
        PROVE  s \in inFlightRequests'
    <3>1. CASE stage'[s] = st[s]
      <4>1. stage[s] = "running" /\ ~Settled(s)
        BY <1>1, <1>3, <2>2, <3>1 DEF Settled
      <4> QED BY <1>2, <1>11, <4>1 DEF Reachable, owned
    <3>2. CASE stage'[s] # st[s]
      BY <1>11, <3>2
    <3> QED BY <3>1, <3>2
  <2> QED BY <1>11, <2>1, <2>2 DEF Reachable, Elements
<1>16. Lifecycle'
  BY <1>1, <1>2, <1>3, <1>11 DEF Lifecycle, Settled, owned
<1>17. \A s \in Requests :
          stage'[s] = "new" <=> stage[s] = "new" /\ s # r
  <2> TAKE s \in Requests
  <2>1. st[s] = "new" <=> stage[s] = "new" /\ s # r
    BY <1>3
  <2> QED BY <1>11, <2>1
<1> QED BY <1>17, <1>11, <1>12, <1>13, <1>14, <1>15, <1>16 DEF IInv

\* .then and .catch preserve IInv, for a late result as well.
LEMMA CompleteIInv ==
    ASSUME IInv, NEW r \in Requests, Complete(r)
    PROVE  IInv'
<1>1. /\ stage[r] = "running"
      /\ stage' = [stage EXCEPT ![r] = "finishing"]
      /\ outcome' = IF Settled(r) THEN outcome
                    ELSE [outcome EXCEPT ![r] = "own"]
      /\ UNCHANGED <<queue, inFlight, inFlightRequests, draining,
                     drainResolvers, drained, deadlines, totals>>
  BY DEF Complete
<1>2. /\ TypeOK
      /\ Waiting(queue, stage)
      /\ Slots(inFlight, stage)
      /\ Counted
      /\ Reachable
      /\ Lifecycle
  BY DEF IInv
<1>3. TypeOK'
  BY <1>1, <1>2 DEF TypeOK, Stages, Outcomes
<1>4. /\ outcome'[r] # "none"
      /\ \A s \in Requests \ {r} : outcome'[s] = outcome[s]
                                   /\ stage'[s] = stage[s]
      /\ stage'[r] = "finishing"
      /\ \A s \in Requests : outcome'[s] = outcome[s] \/ outcome'[s] = "own"
      /\ \A s \in Requests : outcome[s] # "none" => outcome'[s] = outcome[s]
  BY <1>1, <1>2 DEF TypeOK, Settled
<1>5. r \notin Elements(queue) /\ Elements(queue) \subseteq Requests
  BY <1>1, <1>2 DEF Waiting, Elements
<1>6. Waiting(queue, stage)'
  BY <1>1, <1>2, <1>4, <1>5 DEF Waiting, Sorted, Elements, Settled
<1>7. /\ Holders(stage') = Holders(stage)
      /\ Started(stage') = Started(stage)
      /\ Answered({"timeout"})' = Answered({"timeout"})
      /\ Answered(Refusals)' = Answered(Refusals)
  <2>1. Holders(stage') = Holders(stage) /\ Started(stage') = Started(stage)
    BY <1>1, <1>4 DEF Holders, Started
  <2>2. \A s \in Requests : \A S \in {{"timeout"}, Refusals} :
            outcome'[s] \in S <=> outcome[s] \in S
    BY <1>4 DEF Refusals
  <2> QED BY <2>1, <2>2 DEF Answered, Refusals
<1>8. Slots(inFlight, stage)'
  BY <1>1, <1>2, <1>7 DEF Slots, Holders
<1>9. Counted'
  BY <1>1, <1>2, <1>7 DEF Counted, Started
<1>10. Reachable' /\ Lifecycle'
  BY <1>1, <1>2, <1>4 DEF Reachable, Lifecycle, Settled, Elements
<1> QED BY <1>1, <1>3, <1>6, <1>8, <1>9, <1>10 DEF IInv

\* .finally preserves IInv: it frees exactly the slot of its own call.
LEMMA FinishIInv ==
    ASSUME IInv, NEW r \in Requests, Finish(r)
    PROVE  /\ IInv'
           /\ \A s \in Requests : stage'[s] = "new" <=> stage[s] = "new"
<1> DEFINE st == [stage EXCEPT ![r] = "finished"]
           owned == inFlightRequests \ {r}
           running == inFlight - 1
<1>1. /\ stage[r] = "finishing"
      /\ TryExecuteNext(queue, running, owned, st)
      /\ FlushDrainWaiters
      /\ UNCHANGED <<outcome, draining, deadlines>>
  BY DEF Finish
<1>2. /\ TypeOK
      /\ Waiting(queue, stage)
      /\ Slots(inFlight, stage)
      /\ Counted
      /\ Reachable
      /\ Lifecycle
      /\ Len(queue) <= MaxQueue
      /\ Settled(r)
  BY <1>1 DEF IInv, Lifecycle
<1>3. /\ owned \in SUBSET Requests
      /\ totals \in [processed : Nat, timedOut : Nat, rejected : Nat]
      /\ st \in [Requests -> Stages]
      /\ st[r] = "finished"
      /\ \A s \in Requests \ {r} : st[s] = stage[s]
  BY <1>2 DEF TypeOK, Stages
<1>4. r \notin Elements(queue) /\ Elements(queue) \subseteq Requests
  BY <1>1, <1>2 DEF Waiting, Elements
<1>5. /\ Holders(st) = Holders(stage) \ {r}
      /\ r \in Holders(stage)
      /\ Started(st) = Started(stage)
  BY <1>1, <1>3 DEF Holders, Started
<1>6. Slots(running, st)
  <2>1. IsFiniteSet(Holders(stage)) /\ IsFiniteSet(Holders(st))
    BY CallsAssumption, FS_Subset DEF Holders
  <2>2. /\ Cardinality(Holders(st)) = Cardinality(Holders(stage)) - 1
        /\ Cardinality(Holders(st)) \in Nat
    BY <1>5, <2>1, FS_RemoveElement, FS_CardinalityType
  <2>3. /\ inFlight \in Nat
        /\ MaxConcurrency \in Nat
        /\ inFlight <= MaxConcurrency
        /\ inFlight = Cardinality(Holders(stage))
    BY <1>2, LimitsAssumption DEF Slots
  <2> QED BY <2>2, <2>3 DEF Slots
<1> HIDE DEF st, owned, running
<1>7. Waiting(queue, st)
  BY <1>2, <1>3, <1>4 DEF Waiting
<1>8. totals.processed = Cardinality(Started(st))
  BY <1>2, <1>5 DEF Counted
<1>9. /\ owned \in SUBSET Requests
      /\ st \in [Requests -> Stages]
      /\ TryExecuteNext(queue, running, owned, st)
      /\ totals \in [processed : Nat, timedOut : Nat, rejected : Nat]
      /\ outcome' = outcome
  BY <1>1, <1>3
<1>10. /\ Waiting(queue, stage)'
       /\ Slots(inFlight, stage)'
       /\ Len(queue') <= Len(queue)
       /\ queue' # <<>> => inFlight' = MaxConcurrency
       /\ stage' \in [Requests -> Stages]
       /\ \A s \in Requests :
             \/ stage'[s] = st[s]
                /\ (s \in Elements(queue) => s \in Elements(queue'))
             \/ /\ st[s] = "queued" /\ stage'[s] = "running"
                /\ s \in inFlightRequests' /\ s \in Elements(queue)
       /\ owned \subseteq inFlightRequests'
       /\ inFlightRequests' \subseteq Requests
       /\ \A s \in inFlightRequests' : s \in owned \/ stage'[s] = "running"
       /\ totals' \in [processed : Nat, timedOut : Nat, rejected : Nat]
       /\ totals'.processed = Cardinality(Started(stage'))
       /\ totals'.timedOut = totals.timedOut
       /\ totals'.rejected = totals.rejected
  BY <1>6, <1>7, <1>8, <1>9, TryExecuteNextStep, ZenonT(60)
<1>11. drainResolvers' \subseteq drainResolvers /\ drained' \subseteq Drains
  BY <1>1, <1>2 DEF FlushDrainWaiters, TypeOK
<1>12. TypeOK'
  BY <1>1, <1>2, <1>10, <1>11 DEF TypeOK, Waiting, Slots
<1>13. Len(queue') <= MaxQueue
  <2>1. Len(queue) \in Nat /\ Len(queue') \in Nat /\ MaxQueue \in Nat
    BY <1>2, <1>12, LimitsAssumption DEF TypeOK
  <2> QED BY <1>2, <1>10, <2>1
<1>14. Counted'
  BY <1>1, <1>2, <1>10 DEF Counted, Answered, Started
<1>15. Reachable'
  <2>1. ASSUME NEW s \in Requests, ~Settled(s)'
        PROVE  s # r /\ ~Settled(s) /\ st[s] = stage[s]
    BY <1>1, <1>2, <1>3, <2>1 DEF Settled
  <2>2. ASSUME NEW s \in Requests, ~Settled(s)', stage'[s] = "queued"
        PROVE  s \in Elements(queue')
    <3>1. st[s] = "queued" /\ (s \in Elements(queue) => s \in Elements(queue'))
      BY <1>10, <2>2
    <3> QED BY <1>2, <2>1, <2>2, <3>1 DEF Reachable
  <2>3. ASSUME NEW s \in Requests, ~Settled(s)', stage'[s] = "running"
        PROVE  s \in inFlightRequests'
    <3>1. CASE stage'[s] = st[s]
      <4>1. s \in inFlightRequests /\ s # r
        BY <1>2, <2>1, <2>3, <3>1 DEF Reachable
      <4> QED BY <1>10, <4>1 DEF owned
    <3>2. CASE stage'[s] # st[s]
      BY <1>10, <3>2
    <3> QED BY <3>1, <3>2
  <2> QED BY <1>10, <2>2, <2>3 DEF Reachable, Elements
<1>16. Lifecycle'
  <2>1. \A s \in inFlightRequests' : stage'[s] \in {"running", "finishing"}
    <3> SUFFICES ASSUME NEW s \in inFlightRequests', s \in owned
                 PROVE  stage'[s] \in {"running", "finishing"}
      BY <1>10
    <3>1. s # r /\ s \in Requests /\ stage[s] \in {"running", "finishing"}
      BY <1>2, <1>3 DEF owned, Lifecycle
    <3>2. st[s] = stage[s] /\ st[s] # "queued"
      BY <1>3, <3>1
    <3> QED BY <1>10, <3>1, <3>2
  <2>2. \A s \in Requests :
           /\ stage'[s] = "new" => ~Settled(s)'
           /\ stage'[s] \in {"refused", "finishing", "finished"} => Settled(s)'
    <3> TAKE s \in Requests
    <3>1. CASE s = r
      BY <1>1, <1>2, <1>3, <1>10, <3>1 DEF Settled
    <3>2. CASE s # r
      BY <1>1, <1>2, <1>3, <1>10, <3>2 DEF Settled, Lifecycle
    <3> QED BY <3>1, <3>2
  <2>3. drainResolvers' # {} => draining'
    BY <1>1, <1>2, <1>11 DEF Lifecycle
  <2> QED BY <2>1, <2>2, <2>3 DEF Lifecycle
<1>17. \A s \in Requests : stage'[s] = "new" <=> stage[s] = "new"
  <2> TAKE s \in Requests
  <2>1. st[s] = "new" <=> stage[s] = "new"
    BY <1>1, <1>3
  <2> QED BY <1>10, <2>1
<1> QED BY <1>17, <1>10, <1>12, <1>13, <1>14, <1>15, <1>16 DEF IInv

\* The timer callback preserves IInv for a waiting and for a started call.
LEMMA TimeoutIInv ==
    ASSUME IInv, NEW r \in Requests, Timeout(r)
    PROVE  IInv'
<1>1. /\ stage[r] \in {"queued", "running"}
      /\ ~Settled(r)
      /\ outcome' = [outcome EXCEPT ![r] = "timeout"]
      /\ totals' = [totals EXCEPT !.timedOut = @ + 1]
      /\ IF stage[r] = "queued"
         THEN queue' = RemoveFromQueue(queue, r)
              /\ inFlightRequests' = inFlightRequests
         ELSE inFlightRequests' = inFlightRequests \ {r}
              /\ queue' = queue
      /\ UNCHANGED <<inFlight, stage, draining, deadlines>>
      /\ FlushDrainWaiters
  BY DEF Timeout
<1>2. /\ TypeOK
      /\ Waiting(queue, stage)
      /\ Slots(inFlight, stage)
      /\ Counted
      /\ Reachable
      /\ Lifecycle
      /\ Len(queue) <= MaxQueue
  BY DEF IInv
<1>3. Elements(queue) \subseteq Requests
  BY <1>2 DEF Waiting, Elements
<1>4. /\ queue' \in Seq(Requests)
      /\ Sorted(queue')
      /\ Elements(queue') = Elements(queue) \ {r}
      /\ Len(queue') <= Len(queue)
  <2>1. CASE stage[r] = "queued"
    <3>1. r \in Elements(queue) /\ queue' = RemoveFromQueue(queue, r)
      BY <1>1, <1>2, <2>1 DEF Reachable
    <3>2. /\ queue' \in Seq(Requests)
          /\ Len(queue') = Len(queue) - 1
          /\ Sorted(queue')
          /\ Elements(queue') = Elements(queue) \ {r}
      BY <1>2, <3>1, RemoveFromQueueSorted DEF Waiting
    <3> QED BY <1>2, <3>2 DEF TypeOK
  <2>2. CASE stage[r] # "queued"
    <3>1. queue' = queue /\ r \notin Elements(queue)
      BY <1>1, <1>2, <2>2 DEF Waiting
    <3>2. Len(queue) <= Len(queue)
      BY <1>2 DEF TypeOK
    <3> QED BY <1>2, <3>1, <3>2 DEF Waiting
  <2> QED BY <2>1, <2>2
<1>5. /\ outcome'[r] = "timeout"
      /\ \A s \in Requests \ {r} : outcome'[s] = outcome[s]
  BY <1>2, <1>1 DEF TypeOK
<1>6. drainResolvers' \subseteq drainResolvers /\ drained' \subseteq Drains
  BY <1>1, <1>2 DEF FlushDrainWaiters, TypeOK
<1>7. inFlightRequests \ {r} \subseteq inFlightRequests'
      /\ inFlightRequests' \subseteq inFlightRequests
  BY <1>1
<1>8. TypeOK'
  BY <1>1, <1>2, <1>4, <1>6, <1>7 DEF TypeOK, Outcomes
<1>9. Waiting(queue, stage)'
  BY <1>1, <1>2, <1>3, <1>4, <1>5
     DEF Waiting, Sorted, Elements, Settled, Rank
<1>10. Len(queue') <= MaxQueue
  <2>1. Len(queue) \in Nat /\ Len(queue') \in Nat /\ MaxQueue \in Nat
    BY <1>2, <1>8, LimitsAssumption DEF TypeOK
  <2> QED BY <1>2, <1>4, <2>1
<1>11. /\ Answered({"timeout"})' = Answered({"timeout"}) \union {r}
       /\ r \notin Answered({"timeout"})
       /\ Answered({"timeout"}) \in SUBSET Requests
       /\ Answered(Refusals)' = Answered(Refusals)
  <2>1. \A s \in Requests \ {r} : outcome'[s] = outcome[s]
    BY <1>5
  <2> QED BY <1>1, <1>5, <2>1 DEF Answered, Refusals, Settled
<1>12. Counted'
  <2>1. Cardinality(Answered({"timeout"})')
           = Cardinality(Answered({"timeout"})) + 1
    BY <1>11, AddOne
  <2>2. /\ totals'.timedOut = totals.timedOut + 1
        /\ totals'.processed = totals.processed
        /\ totals'.rejected = totals.rejected
    BY <1>1, <1>2 DEF TypeOK
  <2> QED BY <1>1, <1>2, <1>11, <2>1, <2>2 DEF Counted, Started
<1>13. Slots(inFlight, stage)'
  BY <1>1, <1>2 DEF Slots, Holders
<1>14. Reachable'
  <2>1. ASSUME NEW s \in Requests, ~Settled(s)'
        PROVE  s # r /\ ~Settled(s) /\ stage'[s] = stage[s]
    BY <1>1, <1>5, <2>1 DEF Settled
  <2>2. ASSUME NEW s \in Requests, ~Settled(s)'
        PROVE  /\ stage'[s] = "queued" => s \in Elements(queue')
               /\ stage'[s] = "running" => s \in inFlightRequests'
    BY <1>2, <1>4, <1>7, <2>1, <2>2 DEF Reachable
  <2>3. queue' # <<>> => inFlight' = MaxConcurrency
    <3>1. queue' # <<>> => queue # <<>>
      <4>1. queue = <<>> => Len(queue) = 0
        OBVIOUS
      <4>2. queue' # <<>> => Len(queue') > 0
        BY <1>4, EmptySeq
      <4> QED BY <1>2, <1>4, <4>1, <4>2 DEF TypeOK
    <3> QED BY <1>1, <1>2, <3>1 DEF Reachable
  <2> QED BY <2>2, <2>3 DEF Reachable, Elements
<1>15. Lifecycle'
  BY <1>1, <1>2, <1>5, <1>6 DEF Lifecycle, Settled
<1> QED BY <1>8, <1>9, <1>10, <1>12, <1>13, <1>14, <1>15 DEF IInv

\* markDraining() and the call of drain() preserve IInv.
LEMMA DrainCallIInv ==
    ASSUME IInv, MarkDraining \/ \E d \in Drains : Drain(d)
    PROVE  IInv'
<1>1. /\ UNCHANGED <<queue, inFlight, inFlightRequests, stage, outcome, totals>>
      /\ draining' = TRUE
      /\ drainResolvers' \in SUBSET Drains
      /\ drained' \in SUBSET Drains
      /\ deadlines' \in SUBSET BoundedDrains
  BY DEF IInv, TypeOK, MarkDraining, Drain
<1>2. TypeOK'
  BY <1>1 DEF IInv, TypeOK
<1>3. Waiting(queue, stage)' /\ Slots(inFlight, stage)' /\ Len(queue') <= MaxQueue
  BY <1>1 DEF IInv, Waiting, Slots, Sorted, Elements, Settled, Holders
<1>4. Counted' /\ Reachable' /\ Lifecycle'
  BY <1>1 DEF IInv, Counted, Answered, Started, Reachable, Lifecycle,
              Settled, Elements
<1> QED BY <1>2, <1>3, <1>4 DEF IInv

\* settlePendingForDrain preserves IInv: it reaches every unanswered call.
LEMMA DrainDeadlineIInv ==
    ASSUME IInv, NEW d \in Drains, DrainDeadline(d)
    PROVE  IInv'
<1> DEFINE pending == {r \in Queued \union inFlightRequests : ~Settled(r)}
<1>1. /\ outcome' = [r \in Requests |->
                        IF r \in pending THEN "shutdown" ELSE outcome[r]]
      /\ totals' = [totals EXCEPT !.rejected = @ + Cardinality(pending)]
      /\ queue' = <<>>
      /\ inFlightRequests' = {}
      /\ drained' = drained \union drainResolvers
      /\ drainResolvers' = {}
      /\ deadlines' = deadlines \ {d}
      /\ UNCHANGED <<inFlight, stage, draining>>
  BY DEF DrainDeadline
<1>2. /\ TypeOK
      /\ Waiting(queue, stage)
      /\ Slots(inFlight, stage)
      /\ Counted
      /\ Reachable
      /\ Lifecycle
  BY DEF IInv
<1>3. /\ pending \in SUBSET Requests
      /\ \A r \in pending : outcome[r] = "none"
  BY <1>2 DEF TypeOK, Queued, Settled
<1>4. \A r \in Requests :
         ~Settled(r) /\ stage[r] \in {"queued", "running"} => r \in pending
  BY <1>2 DEF Reachable, Elements, Queued
<1>5. Cardinality(pending) \in Nat
  BY <1>3, CallsAssumption, FS_Subset, FS_CardinalityType
<1> HIDE DEF pending
<1>6. TypeOK'
  <2>1. outcome' \in [Requests -> Outcomes]
    BY <1>1, <1>2 DEF TypeOK, Outcomes
  <2>2. totals' \in [processed : Nat, timedOut : Nat, rejected : Nat]
    BY <1>1, <1>2, <1>5 DEF TypeOK
  <2>3. queue' \in Seq(Requests)
    BY <1>1
  <2> QED BY <1>1, <1>2, <2>1, <2>2, <2>3 DEF TypeOK
<1>7. Waiting(queue, stage)' /\ Len(queue') <= MaxQueue
  BY <1>1, LimitsAssumption DEF Waiting, Sorted, Elements
<1>8. Slots(inFlight, stage)'
  BY <1>1, <1>2 DEF Slots, Holders
<1>9. /\ Answered(Refusals)' = Answered(Refusals) \union pending
      /\ Answered(Refusals) \intersect pending = {}
      /\ Answered(Refusals) \in SUBSET Requests
      /\ Answered({"timeout"})' = Answered({"timeout"})
  BY <1>1, <1>3 DEF Answered, Refusals
<1>10. Counted'
  <2>1. Cardinality(Answered(Refusals)')
           = Cardinality(Answered(Refusals)) + Cardinality(pending)
    BY <1>3, <1>9, DisjointUnionCardinality
  <2>2. /\ totals'.timedOut = totals.timedOut
        /\ totals'.processed = totals.processed
        /\ totals'.rejected = totals.rejected + Cardinality(pending)
    BY <1>1, <1>2 DEF TypeOK
  <2> QED BY <1>1, <1>2, <1>9, <2>1, <2>2 DEF Counted, Started
<1>11. Reachable'
  BY <1>1, <1>4 DEF Reachable, Settled
<1>12. Lifecycle'
  <2>1. \A r \in Requests : stage[r] = "new" => r \notin pending
    BY <1>2 DEF pending, Queued, Elements, Waiting, Lifecycle
  <2>2. \A r \in Requests :
           /\ stage'[r] = "new" => ~Settled(r)'
           /\ stage'[r] \in {"refused", "finishing", "finished"} => Settled(r)'
    BY <1>1, <1>2, <2>1 DEF Lifecycle, Settled
  <2> QED BY <1>1, <2>2 DEF Lifecycle
<1> QED BY <1>6, <1>7, <1>8, <1>10, <1>11, <1>12 DEF IInv

\* A step that changes nothing preserves IInv.
LEMMA StutterIInv ==
    ASSUME IInv, UNCHANGED vars
    PROVE  IInv'
  BY DEF IInv, vars, TypeOK, Waiting, Slots, Counted, Reachable, Lifecycle,
         Sorted, Elements, Settled, Holders, Started, Answered

\* Every step preserves IInv.
LEMMA NextIInv == IInv /\ [Next]_vars => IInv'
<1> SUFFICES ASSUME IInv, [Next]_vars
             PROVE  IInv'
  OBVIOUS
<1>1. ASSUME NEW r \in Requests, Enqueue(r)
      PROVE  IInv'
  BY <1>1, RefuseIInv, AdmitIInv DEF Enqueue
<1>2. ASSUME NEW r \in Requests, Complete(r)
      PROVE  IInv'
  BY <1>2, CompleteIInv
<1>3. ASSUME NEW r \in Requests, Finish(r)
      PROVE  IInv'
  BY <1>3, FinishIInv
<1>4. ASSUME NEW r \in Requests, Timeout(r)
      PROVE  IInv'
  BY <1>4, TimeoutIInv
<1>5. CASE MarkDraining \/ \E d \in Drains : Drain(d)
  BY <1>5, DrainCallIInv
<1>6. ASSUME NEW d \in Drains, DrainDeadline(d)
      PROVE  IInv'
  BY <1>6, DrainDeadlineIInv
<1>7. CASE UNCHANGED vars
  BY <1>7, StutterIInv
<1> QED BY <1>1, <1>2, <1>3, <1>4, <1>5, <1>6, <1>7 DEF Next

\* The inductive invariant holds in every reachable state.
THEOREM Invariance == Spec => []IInv
  BY InitIInv, NextIInv, PTL DEF Spec

\* The variables of the scheduler keep their types.
THEOREM TypeCorrect == Spec => []TypeOK
<1>1. IInv => TypeOK
  BY IInvImpliesProperties
<1> QED BY <1>1, Invariance, PTL

\* The queue stays bounded, free of repetitions, ordered by priority, and
\* holds only calls that still wait.
THEOREM QueueOrdered == Spec => []QueueDiscipline
<1>1. IInv => QueueDiscipline
  BY IInvImpliesProperties
<1> QED BY <1>1, Invariance, PTL

\* inFlight counts the running operations exactly and never exceeds
\* maxConcurrency, and the counters of stats() match what callers were told.
THEOREM SlotsAndCountersAddUp == Spec => []Accounting
<1>1. IInv => Accounting
  BY IInvImpliesProperties
<1> QED BY <1>1, Invariance, PTL

\* No unanswered call escapes the queue and inFlightRequests, and none waits
\* beside a free slot.
THEOREM CallsReachable == Spec => []NoCallLost
<1>1. IInv => NoCallLost
  BY IInvImpliesProperties
<1> QED BY <1>1, Invariance, PTL

-----------------------------------------------------------------------------
\* No step changes an answer already given.
LEMMA StepKeepsAnswers ==
    IInv /\ [Next]_vars
       => [\A r \in Requests : Settled(r) => outcome'[r] = outcome[r]]_vars
<1> SUFFICES ASSUME IInv, [Next]_vars, NEW s \in Requests, Settled(s)
             PROVE  outcome'[s] = outcome[s]
  OBVIOUS
<1>1. outcome \in [Requests -> Outcomes] /\ Lifecycle
  BY DEF IInv, TypeOK
<1>2. ASSUME NEW r \in Requests, Enqueue(r)
      PROVE  outcome'[s] = outcome[s]
  BY <1>1, <1>2 DEF Enqueue, RejectDraining, RejectFull, Admit, Lifecycle
<1>3. ASSUME NEW r \in Requests, Complete(r) \/ Timeout(r)
      PROVE  outcome'[s] = outcome[s]
  BY <1>1, <1>3 DEF Complete, Timeout
<1>4. ASSUME NEW r \in Requests, Finish(r)
      PROVE  outcome'[s] = outcome[s]
  BY <1>4 DEF Finish
<1>5. CASE MarkDraining \/ \E d \in Drains : Drain(d)
  BY <1>5 DEF MarkDraining, Drain
<1>6. ASSUME NEW d \in Drains, DrainDeadline(d)
      PROVE  outcome'[s] = outcome[s]
  BY <1>1, <1>6 DEF DrainDeadline
<1>7. CASE UNCHANGED vars
  BY <1>7 DEF vars
<1> QED BY <1>2, <1>3, <1>4, <1>5, <1>6, <1>7 DEF Next

\* Each promise of enqueue() is settled at most once.
THEOREM AnsweredAtMostOnce == Spec => AnsweredOnce
  BY Invariance, StepKeepsAnswers, PTL DEF Spec, AnsweredOnce

-----------------------------------------------------------------------------
\* In a queue without repetitions only one of two calls is before the other.
LEMMA BeforeIsStrict ==
    ASSUME NEW q \in Seq(Requests), Sorted(q), NEW a, NEW b, Before(q, a, b)
    PROVE  ~Before(q, b, a) /\ a # b /\ a \in Elements(q) /\ b \in Elements(q)
<1>1. PICK i, j \in DOMAIN q : i < j /\ q[i] = a /\ q[j] = b
  BY DEF Before
<1>2. \A m, n \in DOMAIN q : q[m] = q[n] => m = n
  <2>1. \A m, n \in DOMAIN q : m < n \/ n < m \/ m = n
    OBVIOUS
  <2> QED BY <2>1 DEF Sorted
<1>3. ASSUME NEW m \in DOMAIN q, NEW n \in DOMAIN q, m < n, q[m] = b, q[n] = a
      PROVE  FALSE
  <2>1. m = j /\ n = i
    BY <1>1, <1>2, <1>3
  <2> QED BY <1>1, <1>3, <2>1
<1> QED BY <1>1, <1>2, <1>3 DEF Before, Elements

\* The start loop takes from the front: what is behind a call neither gets in
\* front of it nor starts before it.
LEMMA StartLoopKeepsTurn ==
    ASSUME NEW q \in Seq(Requests), Sorted(q),
           NEW running, NEW owned, NEW st \in [Requests -> Stages],
           TryExecuteNext(q, running, owned, st),
           NEW a, NEW b \in Requests, st[b] # "running",
           b \in Elements(q) => Before(q, a, b)
    PROVE  /\ ~Before(queue', b, a)
           /\ stage'[b] = "running" => a \notin Queued'
<1>1. PICK k \in 0..Len(q) :
         /\ queue' = SubSeq(q, k + 1, Len(q))
         /\ stage' = [r \in Requests |-> IF r \in Startable(q, k) THEN "running" ELSE st[r]]
  BY DEF TryExecuteNext
<1>2. /\ Len(q) \in Nat /\ DOMAIN q = 1..Len(q)
      /\ DOMAIN queue' = 1..(Len(q) - k)
      /\ \A i \in 1..(Len(q) - k) : queue'[i] = q[i + k]
  BY <1>1
<1>3. \A i \in DOMAIN queue' : i + k \in DOMAIN q /\ i + k > k /\ queue'[i] = q[i + k]
  BY <1>2
<1>4. ~Before(queue', b, a)
  <2> SUFFICES ASSUME NEW i \in DOMAIN queue', NEW j \in DOMAIN queue', i < j,
                      queue'[i] = b, queue'[j] = a
               PROVE  FALSE
    BY DEF Before
  <2>1. Before(q, b, a)
    <3>1. i + k < j + k
      BY <1>2
    <3> QED BY <1>3, <3>1 DEF Before
  <2>2. Before(q, a, b)
    BY <2>1, BeforeIsStrict
  <2> QED BY <2>1, <2>2, BeforeIsStrict
<1>5. ASSUME stage'[b] = "running", a \in Queued'
      PROVE  FALSE
  <2>1. PICK i \in 1..k : b = q[i]
    BY <1>1, <1>5 DEF Startable
  <2>2. i \in DOMAIN q
    BY <1>2
  <2>3. PICK j \in DOMAIN queue' : queue'[j] = a
    BY <1>5 DEF Queued
  <2>4. i < j + k
    BY <1>2, <2>1
  <2>5. Before(q, b, a)
    BY <1>3, <2>1, <2>2, <2>3, <2>4 DEF Before
  <2>6. Before(q, a, b)
    BY <2>1, <2>2 DEF Elements
  <2> QED BY <2>5, <2>6, BeforeIsStrict
<1> QED BY <1>4, <1>5

\* The queue and the calls as an overtaking would find them.
LEMMA TurnFacts ==
    ASSUME IInv, NEW a \in Queued, NEW b \in Requests,
           Before(queue, a, b) \/ (stage[b] = "new" /\ Rank(a) <= Rank(b))
    PROVE  /\ queue \in Seq(Requests) /\ Sorted(queue)
           /\ stage \in [Requests -> Stages] /\ a \in Elements(queue)
           /\ stage[b] \in {"new", "queued"}
           /\ stage[b] = "new" => b \notin Elements(queue)
           /\ b \in Elements(queue) => Before(queue, a, b)
           /\ ~Before(queue, b, a)
<1>1. /\ queue \in Seq(Requests) /\ Sorted(queue) /\ stage \in [Requests -> Stages]
      /\ \A r \in Elements(queue) : stage[r] = "queued"
  BY DEF IInv, Waiting, TypeOK
<1>2. a \in Elements(queue)
  BY DEF Queued, Elements
<1>3. CASE Before(queue, a, b)
  BY <1>1, <1>2, <1>3, BeforeIsStrict
<1>4. CASE stage[b] = "new" /\ ~Before(queue, a, b)
  <2>1. b \notin Elements(queue)
    BY <1>1, <1>4
  <2>2. ~Before(queue, b, a)
    BY <2>1 DEF Before, Elements
  <2> QED BY <1>1, <1>2, <1>4, <2>1, <2>2
<1> QED BY <1>3, <1>4

\* insertByPriority puts a call behind those of its own priority and above and
\* moves nobody past anybody.
LEMMA InsertKeepsTurn ==
    ASSUME NEW q \in Seq(Requests), Sorted(q), NEW r \in Requests, r \notin Elements(q),
           NEW a \in Elements(q), NEW b \in Requests,
           Before(q, a, b) \/ (b = r /\ Rank(a) <= Rank(b))
    PROVE  Before(InsertByPriority(q, r), a, b)
<1> DEFINE s == InsertByPriority(q, r)
<1>1. PICK n \in 1..(Len(q) + 1) :
         /\ n <= Len(q) => Rank(q[n]) > Rank(r)
         /\ s \in Seq(Requests) /\ Len(s) = Len(q) + 1
         /\ \A j \in 1..(Len(q) + 1) :
               s[j] = IF j < n THEN q[j] ELSE IF j = n THEN r ELSE q[j - 1]
  BY InsertByPriorityShape
<1> HIDE DEF s
<1>2. DOMAIN s = 1..(Len(q) + 1) /\ DOMAIN q = 1..Len(q) /\ Len(q) \in Nat
  BY <1>1
<1> DEFINE to(j) == IF j < n THEN j ELSE j + 1
<1>3. \A j \in DOMAIN q : to(j) \in DOMAIN s /\ s[to(j)] = q[j]
  BY <1>1, <1>2
<1>4. CASE Before(q, a, b)
  <2>1. PICK i, j \in DOMAIN q : i < j /\ q[i] = a /\ q[j] = b
    BY <1>4 DEF Before
  <2>2. to(i) < to(j)
    BY <1>1, <1>2, <2>1
  <2> HIDE DEF to
  <2>3. Before(s, a, b)
    BY <1>3, <2>1, <2>2 DEF Before
  <2> QED BY <2>3 DEF s
<1>5. CASE b = r /\ Rank(a) <= Rank(b)
  <2>1. PICK i \in DOMAIN q : q[i] = a
    BY DEF Elements
  <2>2. i < n
    <3> SUFFICES ASSUME ~(i < n) PROVE FALSE
      OBVIOUS
    <3>1. n \in DOMAIN q /\ n <= Len(q) /\ (n < i \/ n = i)
      BY <1>2
    <3>2. Rank(q[n]) <= Rank(q[i])
      <4>1. q[n] \in Requests
        BY <3>1
      <4>2. Rank(q[n]) \in 0..2
        BY <4>1, RankType
      <4> QED BY <3>1, <4>2 DEF Sorted
    <3>3. Rank(q[n]) \in 0..2 /\ Rank(q[i]) \in 0..2 /\ Rank(r) \in 0..2
      BY <2>1, <3>1, RankType
    <3> QED BY <1>1, <1>5, <2>1, <3>1, <3>2, <3>3
  <2>3. i \in DOMAIN s /\ n \in DOMAIN s /\ s[i] = a /\ s[n] = b
    BY <1>1, <1>2, <1>5, <2>1, <2>2
  <2>4. Before(s, a, b)
    BY <2>2, <2>3 DEF Before
  <2> QED BY <2>4 DEF s
<1> QED BY <1>4, <1>5

LEMMA RemovalKeepsTurn ==
    ASSUME NEW q \in Seq(Requests), NEW r \in Elements(q), NEW a, NEW b,
           Before(RemoveFromQueue(q, r), a, b)
    PROVE  Before(q, a, b)
<1> DEFINE s == RemoveFromQueue(q, r)
<1>1. PICK n \in DOMAIN q :
         /\ s \in Seq(Requests) /\ Len(s) = Len(q) - 1
         /\ \A j \in 1..(Len(q) - 1) : s[j] = IF j < n THEN q[j] ELSE q[j + 1]
  BY RemoveFromQueueShape
<1> HIDE DEF s
<1>2. DOMAIN s = 1..(Len(q) - 1) /\ DOMAIN q = 1..Len(q) /\ Len(q) \in Nat
  BY <1>1
<1> DEFINE from(j) == IF j < n THEN j ELSE j + 1
<1>3. \A j \in DOMAIN s : from(j) \in DOMAIN q /\ s[j] = q[from(j)]
  BY <1>1, <1>2
<1>4. PICK i, j \in DOMAIN s : i < j /\ s[i] = a /\ s[j] = b
  BY DEF Before, s
<1>5. from(i) < from(j)
  BY <1>1, <1>2, <1>4
<1> HIDE DEF from
<1> QED BY <1>3, <1>4, <1>5 DEF Before

\* No step lets a call overtake another.
LEMMA StepKeepsTurns == IInv /\ [Next]_vars => [OvertakesNobody]_vars
<1> SUFFICES ASSUME IInv, Next, NEW a \in Queued, NEW b \in Requests,
                    Before(queue, a, b) \/ (stage[b] = "new" /\ Rank(a) <= Rank(b))
             PROVE  ~Before(queue', b, a) /\ (stage'[b] = "running" => a \notin Queued')
  BY DEF OvertakesNobody
<1>1. /\ queue \in Seq(Requests) /\ Sorted(queue)
      /\ stage \in [Requests -> Stages] /\ a \in Elements(queue)
      /\ stage[b] \in {"new", "queued"}
      /\ stage[b] = "new" => b \notin Elements(queue)
      /\ b \in Elements(queue) => Before(queue, a, b)
      /\ ~Before(queue, b, a)
  BY TurnFacts
<1>2. ASSUME NEW r \in Requests, RejectDraining(r) \/ RejectFull(r)
      PROVE  queue' = queue /\ stage'[b] # "running"
  BY <1>1, <1>2 DEF RejectDraining, RejectFull
<1>3. ASSUME NEW r \in Requests, Admit(r)
      PROVE  ~Before(queue', b, a) /\ (stage'[b] = "running" => a \notin Queued')
  <2> DEFINE q == InsertByPriority(queue, r)
             st == [stage EXCEPT ![r] = "queued"]
  <2>1. stage[r] = "new" /\ TryExecuteNext(q, inFlight, inFlightRequests, st)
    BY <1>3 DEF Admit
  <2>2. r \notin Elements(queue)
    BY <2>1 DEF IInv, Waiting
  <2>3. q \in Seq(Requests) /\ Sorted(q) /\ Elements(q) = Elements(queue) \union {r}
    BY <1>1, <2>2, InsertByPrioritySorted
  <2>4. b \in Elements(q) => Before(q, a, b)
    <3> HIDE DEF q
    <3> SUFFICES ASSUME b \in Elements(q) PROVE Before(q, a, b)
      OBVIOUS
    <3>1. Before(queue, a, b) \/ (b = r /\ Rank(a) <= Rank(b))
      BY <1>1, <2>1, <2>2, <2>3, BeforeIsStrict
    <3> QED BY <1>1, <2>2, <3>1, InsertKeepsTurn DEF q
  <2>5. st \in [Requests -> Stages] /\ st[b] # "running"
    BY <1>1 DEF Stages
  <2> HIDE DEF q, st
  <2> QED BY <2>1, <2>3, <2>4, <2>5, StartLoopKeepsTurn
<1>4. ASSUME NEW r \in Requests, Complete(r)
      PROVE  queue' = queue /\ stage'[b] # "running"
  BY <1>1, <1>4 DEF Complete
<1>5. ASSUME NEW r \in Requests, Finish(r)
      PROVE  ~Before(queue', b, a) /\ (stage'[b] = "running" => a \notin Queued')
  <2> DEFINE st == [stage EXCEPT ![r] = "finished"]
  <2>1. TryExecuteNext(queue, inFlight - 1, inFlightRequests \ {r}, st)
    BY <1>5 DEF Finish
  <2>2. st \in [Requests -> Stages] /\ st[b] # "running"
    BY <1>1 DEF Stages
  <2> HIDE DEF st
  <2> QED BY <1>1, <2>1, <2>2, StartLoopKeepsTurn
<1>6. ASSUME NEW r \in Requests, Timeout(r)
      PROVE  ~Before(queue', b, a) /\ stage'[b] # "running"
  <2>1. stage'[b] # "running"
    BY <1>1, <1>6 DEF Timeout
  <2>2. CASE queue' = queue
    BY <1>1, <2>1, <2>2
  <2>3. CASE stage[r] = "queued" /\ queue' = RemoveFromQueue(queue, r)
    <3>1. r \in Elements(queue)
      BY <1>6, <2>3 DEF Timeout, IInv, Reachable
    <3> QED BY <1>1, <2>1, <2>3, <3>1, RemovalKeepsTurn
  <2> QED BY <1>6, <2>2, <2>3 DEF Timeout
<1>7. CASE MarkDraining \/ \E d \in Drains : Drain(d)
  <2>1. queue' = queue /\ stage'[b] # "running"
    BY <1>1, <1>7 DEF MarkDraining, Drain
  <2> QED BY <1>1, <2>1
<1>8. ASSUME NEW d \in Drains, DrainDeadline(d)
      PROVE  ~Before(queue', b, a) /\ stage'[b] # "running"
  BY <1>1, <1>8 DEF DrainDeadline, Before
<1> QED BY <1>1, <1>2, <1>3, <1>4, <1>5, <1>6, <1>7, <1>8 DEF Next, Enqueue

\* Calls are started in the order of their priorities and, within one, in the
\* order of their arrival, whatever times out or drains meanwhile.
THEOREM TurnsKept == Spec => NoOvertaking
  BY Invariance, StepKeepsTurns, PTL DEF Spec, NoOvertaking

-----------------------------------------------------------------------------
(* The scheduler implements RequestService.  The argument needs IInv in    *)
(* one place above all: when flushDrainWaiters finds inFlight = 0 and an   *)
(* empty queue, no caller is left unanswered.                              *)

\* The calls whose caller still waits, and the phases RequestService sees.
Unanswered == {r \in Requests : Phase(r) = "pending"}

\* flushDrainWaiters tests inFlight and the queue: when both are empty, no
\* caller is left without an answer.
LEMMA IdleMeansNobodyWaits ==
    ASSUME IInv, inFlight = 0, queue = <<>>
    PROVE  Unanswered = {}
<1>1. Holders(stage) = {}
  <2>1. IsFiniteSet(Holders(stage))
    BY CallsAssumption, FS_Subset DEF Holders
  <2>2. Cardinality(Holders(stage)) = 0
    BY DEF IInv, Slots
  <2> QED BY <2>1, <2>2, FS_EmptySet
<1>2. Elements(queue) = {}
  BY DEF Elements
<1>3. ASSUME NEW r \in Requests, ~Settled(r)
      PROVE  stage[r] = "new"
  <2>1. stage[r] \in Stages
    BY DEF IInv, TypeOK
  <2>2. stage[r] \notin {"refused", "finishing", "finished"}
    BY <1>3 DEF IInv, Lifecycle
  <2>3. stage[r] # "queued"
    BY <1>2, <1>3 DEF IInv, Reachable
  <2>4. stage[r] # "running"
    BY <1>1 DEF Holders
  <2> QED BY <2>1, <2>2, <2>3, <2>4 DEF Stages
<1> QED BY <1>3 DEF Phase, Unanswered

\* flushDrainWaiters tells drain() waiters "done" only behind a closed door
\* and with nobody waiting.
LEMMA FlushReports ==
    ASSUME IInv, IInv', FlushDrainWaiters, draining' = draining
    PROVE  \E D \in SUBSET Drains :
              /\ drained' = drained \union D
              /\ D # {} => draining /\ Unanswered' = {}
<1>1. CASE inFlight' = 0 /\ queue' = <<>>
  <2>1. drained' = drained \union drainResolvers
    BY <1>1 DEF FlushDrainWaiters
  <2>2. drainResolvers \in SUBSET Drains /\ (drainResolvers # {} => draining)
    BY DEF IInv, TypeOK, Lifecycle
  <2>3. (Unanswered = {})'
    <3>1. IInv' /\ (inFlight = 0)' /\ (queue = <<>>)'
      BY <1>1
    <3> QED BY <3>1, IdleMeansNobodyWaits, PTL
  <2> QED BY <2>1, <2>2, <2>3
<1>2. CASE ~(inFlight' = 0 /\ queue' = <<>>)
  <2>1. drained' = drained \union {}
    BY <1>2 DEF FlushDrainWaiters
  <2> QED BY <2>1
<1> QED BY <1>1, <1>2

\* The mapped phase of every call, as one function.
Phases == [r \in Requests |-> Phase(r)]

\* A refusal of the contract, in terms of the scheduler's phases.
LEMMA RefuseMaps ==
    ASSUME NEW r \in Requests,
           Phases[r] = "new",
           Phases' = [Phases EXCEPT ![r] = "answered"],
           UNCHANGED <<draining, drained>>
    PROVE  Service!SNext
<1>1. Service!Refuse(r)
  BY DEF Service!Refuse, Phases
<1> QED BY <1>1 DEF Service!SNext

\* An acceptance of the contract, in terms of the scheduler's phases.
LEMMA AcceptMaps ==
    ASSUME NEW r \in Requests,
           ~draining,
           Phases[r] = "new",
           Phases' = [Phases EXCEPT ![r] = "pending"],
           UNCHANGED <<draining, drained>>
    PROVE  Service!SNext
<1>1. Service!Accept(r)
  BY DEF Service!Accept, Phases
<1> QED BY <1>1 DEF Service!SNext

\* An answer of the contract, in terms of the scheduler's phases.
LEMMA AnswerMaps ==
    ASSUME NEW S \in SUBSET Unanswered, NEW D \in SUBSET Drains,
           D # {} => draining /\ S = Unanswered,
           Phases' = [r \in Requests |->
                         IF r \in S THEN "answered" ELSE Phases[r]],
           drained' = drained \union D,
           UNCHANGED draining
    PROVE  Service!SNext
<1>1. Service!Pending = Unanswered /\ S \in SUBSET Requests
  BY DEF Service!Pending, Unanswered
<1>2. Service!Answer(S, D)
  BY <1>1 DEF Service!Answer, Phases
<1> QED BY <1>1, <1>2 DEF Service!SNext

\* A closing of the contract, in terms of the scheduler's phases.
LEMMA CloseMaps ==
    ASSUME NEW D \in SUBSET Drains,
           D # {} => Unanswered = {},
           draining' = TRUE,
           drained' = drained \union D,
           UNCHANGED Phases
    PROVE  Service!SNext
<1>1. Service!Pending = Unanswered
  BY DEF Service!Pending, Unanswered
<1>2. Service!Close(D)
  BY <1>1 DEF Service!Close, Phases
<1> QED BY <1>2 DEF Service!SNext

\* Every step of the scheduler is a step of the contract or leaves it alone.
LEMMA StepRefines ==
    ASSUME IInv, IInv', [Next]_vars
    PROVE  [Service!SNext]_(Service!svars)
<1>1. /\ stage \in [Requests -> Stages]
      /\ outcome \in [Requests -> Outcomes]
      /\ drainResolvers \in SUBSET Drains
      /\ Lifecycle
  BY DEF IInv, TypeOK
<1>2. \A r \in Requests : Phases[r] = Phase(r)
  BY DEF Phases
<1>3. ASSUME NEW r \in Requests, RejectDraining(r) \/ RejectFull(r)
      PROVE  Service!SNext
  <2>1. PICK why \in {"draining", "full"} :
          /\ stage[r] = "new"
          /\ stage' = [stage EXCEPT ![r] = "refused"]
          /\ outcome' = [outcome EXCEPT ![r] = why]
          /\ UNCHANGED <<draining, drained>>
    BY <1>3 DEF RejectDraining, RejectFull
  <2>2. Phases[r] = "new"
    BY <1>1, <2>1 DEF Phases, Phase, Lifecycle
  <2>3. Phases' = [Phases EXCEPT ![r] = "answered"]
    BY <1>1, <2>1 DEF Phases, Phase, Settled
  <2> QED BY <2>1, <2>2, <2>3, RefuseMaps
<1>4. ASSUME NEW r \in Requests, Admit(r)
      PROVE  Service!SNext
  <2>1. /\ stage[r] = "new"
        /\ ~draining
        /\ UNCHANGED <<outcome, draining, drained>>
    BY <1>4 DEF Admit
  <2>2. ~Settled(r) /\ Phases[r] = "new"
    BY <1>1, <2>1 DEF Phases, Phase, Lifecycle
  <2>3. \A s \in Requests :
           stage'[s] = "new" <=> stage[s] = "new" /\ s # r
    BY <1>4, AdmitIInv
  <2>4. Phases' = [Phases EXCEPT ![r] = "pending"]
    BY <2>1, <2>2, <2>3 DEF Phases, Phase, Settled
  <2> QED BY <2>1, <2>2, <2>4, AcceptMaps
<1>5. ASSUME NEW r \in Requests, Complete(r)
      PROVE  [Service!SNext]_(Service!svars)
  <2>1. /\ stage[r] = "running"
        /\ stage' = [stage EXCEPT ![r] = "finishing"]
        /\ outcome' = IF Settled(r) THEN outcome
                      ELSE [outcome EXCEPT ![r] = "own"]
        /\ UNCHANGED <<draining, drained>>
    BY <1>5 DEF Complete
  <2>2. CASE Settled(r)
    <3>1. Phases' = Phases
      BY <1>1, <2>1, <2>2 DEF Phases, Phase, Settled
    <3> QED BY <2>1, <3>1 DEF Service!svars, Phases
  <2>3. CASE ~Settled(r)
    <3>1. {r} \in SUBSET Unanswered
      BY <2>1, <2>3 DEF Unanswered, Phase
    <3>2. Phases' = [s \in Requests |->
                        IF s \in {r} THEN "answered" ELSE Phases[s]]
      BY <1>1, <2>1, <2>3 DEF Phases, Phase, Settled
    <3>3. /\ drained' = drained \union {}
          /\ {} \in SUBSET Drains
          /\ UNCHANGED draining
      BY <2>1
    <3>4. Service!SNext
      BY <3>1, <3>2, <3>3, AnswerMaps
    <3> QED BY <3>4
  <2> QED BY <2>2, <2>3
<1>6. ASSUME NEW r \in Requests, Finish(r)
      PROVE  [Service!SNext]_(Service!svars)
  <2>1. /\ FlushDrainWaiters
        /\ UNCHANGED <<outcome, draining>>
    BY <1>6 DEF Finish
  <2>2. \A s \in Requests : stage'[s] = "new" <=> stage[s] = "new"
    BY <1>6, FinishIInv
  <2>3. Phases' = Phases /\ Unanswered' = Unanswered
    BY <2>1, <2>2 DEF Phases, Phase, Settled, Unanswered
  <2>4. PICK D \in SUBSET Drains :
          /\ drained' = drained \union D
          /\ D # {} => draining /\ Unanswered' = {}
    BY <2>1, FlushReports
  <2>5. {} \in SUBSET Unanswered /\ (D # {} => draining /\ {} = Unanswered)
    BY <2>3, <2>4
  <2>6. Phases' = [s \in Requests |->
                      IF s \in {} THEN "answered" ELSE Phases[s]]
    BY <2>3 DEF Phases
  <2>7. Service!SNext
    BY <2>1, <2>4, <2>5, <2>6, AnswerMaps
  <2> QED BY <2>7
<1>7. ASSUME NEW r \in Requests, Timeout(r)
      PROVE  Service!SNext
  <2>1. /\ stage[r] \in {"queued", "running"}
        /\ ~Settled(r)
        /\ outcome' = [outcome EXCEPT ![r] = "timeout"]
        /\ UNCHANGED <<stage, draining>>
        /\ FlushDrainWaiters
    BY <1>7 DEF Timeout
  <2>2. r \in Unanswered
    BY <2>1 DEF Unanswered, Phase
  <2>3. Phases' = [s \in Requests |->
                      IF s \in {r} THEN "answered" ELSE Phases[s]]
    BY <1>1, <2>1 DEF Phases, Phase, Settled
  <2>4. PICK D \in SUBSET Drains :
          /\ drained' = drained \union D
          /\ D # {} => draining /\ Unanswered' = {}
    BY <2>1, FlushReports
  <2>5. Unanswered \ {r} \subseteq Unanswered'
    BY <1>1, <2>1 DEF Unanswered, Phase, Settled
  <2>6. {r} \in SUBSET Unanswered /\ (D # {} => draining /\ {r} = Unanswered)
    BY <2>2, <2>4, <2>5
  <2> QED BY <2>1, <2>3, <2>4, <2>6, AnswerMaps
<1>8. CASE MarkDraining
  <2>1. /\ draining' = TRUE
        /\ drained' = drained \union {}
        /\ Phases' = Phases
    BY <1>8 DEF MarkDraining, Phases, Phase, Settled
  <2>2. {} \in SUBSET Drains /\ ({} # {} => Unanswered = {})
    OBVIOUS
  <2>3. Service!SNext
    BY <2>1, <2>2, CloseMaps
  <2> QED BY <2>3
<1>9. ASSUME NEW d \in Drains, Drain(d)
      PROVE  Service!SNext
  <2>1. draining' = TRUE /\ Phases' = Phases
    BY <1>9 DEF Drain, Phases, Phase, Settled
  <2>2. CASE inFlight = 0 /\ queue = <<>>
    <3>1. drained' = drained \union {d}
      BY <1>9, <2>2 DEF Drain
    <3>2. Unanswered = {}
      BY <2>2, IdleMeansNobodyWaits
    <3> QED BY <2>1, <3>1, <3>2, CloseMaps
  <2>3. CASE ~(inFlight = 0 /\ queue = <<>>)
    <3>1. drained' = drained \union {}
      BY <1>9, <2>3 DEF Drain
    <3>2. {} \in SUBSET Drains /\ ({} # {} => Unanswered = {})
      OBVIOUS
    <3> QED BY <2>1, <3>1, <3>2, CloseMaps
  <2> QED BY <2>2, <2>3
<1>10. ASSUME NEW d \in Drains, DrainDeadline(d)
       PROVE  Service!SNext
  <2> DEFINE pending == {r \in Queued \union inFlightRequests : ~Settled(r)}
  <2>1. /\ outcome' = [r \in Requests |->
                          IF r \in pending THEN "shutdown" ELSE outcome[r]]
        /\ drained' = drained \union drainResolvers
        /\ UNCHANGED <<stage, draining>>
    BY <1>10 DEF DrainDeadline
  <2>2. \A r \in Requests : r \in pending <=> Phase(r) = "pending"
    <3> TAKE r \in Requests
    <3>1. r \in pending => ~Settled(r) /\ stage[r] # "new"
      BY DEF IInv, Waiting, Queued, Elements, Lifecycle
    <3>2. ~Settled(r) /\ stage[r] # "new" => stage[r] \in {"queued", "running"}
      BY <1>1 DEF Lifecycle, Stages
    <3>3. ~Settled(r) /\ stage[r] \in {"queued", "running"} => r \in pending
      BY DEF IInv, Reachable, Queued, Elements
    <3> QED BY <3>1, <3>2, <3>3 DEF Phase
  <2> HIDE DEF pending
  <2>3. Phases' = [r \in Requests |->
                      IF r \in Unanswered THEN "answered" ELSE Phases[r]]
    BY <1>1, <2>1, <2>2 DEF Phases, Phase, Settled, Unanswered
  <2>4. Unanswered \in SUBSET Unanswered
        /\ (drainResolvers # {} => draining /\ Unanswered = Unanswered)
    BY <1>1 DEF Lifecycle
  <2> QED BY <1>1, <2>1, <2>3, <2>4, AnswerMaps
<1>11. CASE UNCHANGED vars
  BY <1>11 DEF vars, Service!svars, Phase, Settled
<1> QED
  BY <1>3, <1>4, <1>5, <1>6, <1>7, <1>8, <1>9, <1>10, <1>11 DEF Next, Enqueue

\* A new scheduler is a new service.
LEMMA InitRefines == Init => Service!SInit
  BY DEF Init, Service!SInit, Phase, Settled

\* The scheduler implements RequestService: nothing is accepted once draining,
\* nothing is answered twice, and a drain() is told "done" only when nobody
\* still waits, so that shutdown may close the database.
THEOREM ImplementsService == Spec => ServiceSpec
<1>1. IInv /\ IInv' /\ [Next]_vars => [Service!SNext]_(Service!svars)
  BY StepRefines
<1> QED
  BY <1>1, Invariance, InitRefines, PTL DEF Spec, ServiceSpec, Service!SSpec
=============================================================================
