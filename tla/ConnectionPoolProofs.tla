------------------------ MODULE ConnectionPoolProofs ------------------------
(***************************************************************************)
(* Proofs about ConnectionPool for any finite set of adapters, any bounds  *)
(* and any handles, whichever closes reject: no connection is shared,      *)
(* closed under its user or lost without a failed close, no waiter is      *)
(* stranded, and waiters are served in their order.                        *)
(*                                                                         *)
(* PoolSound is inductive with three additions.  The connections of two    *)
(* adapters differ and active is what the holders hold, at every stage of  *)
(* acquire() and release() (OneHolderEach, ApartFromIdle).  What drain()   *)
(* has closed it never meets again, and only those inside acquire() when   *)
(* it began can still come out with a connection (DrainInv, ClosedBehind). *)
(* And there is always a handle for a connection to be opened, because     *)
(* each idle one was given back by an adapter that is through, and each    *)
(* one lost by a failed close was idle or such an adapter's                *)
(* (HandlesSuffice).                                                       *)
(***************************************************************************)
EXTENDS ConnectionPool, SequenceTheorems, FiniteSetTheorems, TLAPS

\* The adapters that are not through yet.
Live == {k \in Callers : pc[k] \notin {"closed", "failed", "closeFailed"}}

OneHolderEach ==
    /\ \A j, k \in Callers : j # k /\ conn[j] # NoConn => conn[j] # conn[k]
    /\ \A k \in Callers : conn[k] \in active <=> pc[k] = "holding"
    /\ \A c \in active : \E k \in Callers : conn[k] = c

ApartFromIdle ==
    /\ IsInjective(idle)
    /\ \A k \in Callers : conn[k] \notin ToSet(idle)
    /\ \A k \in Callers : conn[k] \notin lost
    /\ lost \intersect ToSet(idle) = {}

HandlesSuffice ==
    Len(idle) + Cardinality(lost) + Cardinality(Live) <= Prewarmed + Cardinality(Callers)

DrainInv ==
    /\ drained <=> drainStage # "none"
    /\ drained => \A k \in Callers : InAcquire(k) => k \in late
    /\ drainStage \in {"closingDatabase", "done"} \/ ~dbOpen =>
          \A k \in Callers : pc[k] = "holding" => k \in late
    /\ ~dbOpen => drainStage \in {"done", "failed"}
ClosedBehind ==
    /\ drainStage = "none" => closing = 1
    /\ closing >= 1
    /\ drainStage # "none" => \A i \in DOMAIN idle : i < closing => idle[i] \notin open
    /\ drainStage \notin {"none", "closingIdle", "failed"} => idle = <<>>

IInv ==
    /\ TypeOK /\ OneHolderEach /\ ApartFromIdle /\ HandlesSuffice
    /\ IsInjective(waitQueue) /\ NoStrandedWaiter /\ NoLeakedConnection
    /\ DrainInv /\ ClosedBehind

-----------------------------------------------------------------------------
LEMMA ConfigType ==
    /\ MaxConnections \in Nat \ {0} /\ MinConnections \in 0..MaxConnections
    /\ Prewarmed \in 1..MaxConnections
    /\ IsFiniteSet(Callers) /\ IsFiniteSet(Conns)
    /\ Cardinality(Callers) \in Nat /\ Cardinality(Conns) \in Nat
    /\ Cardinality(Conns) > MaxConnections + Cardinality(Callers)
    /\ FirstConn \in Conns /\ NoConn \notin Conns
<1>1. /\ MaxConnections \in Nat \ {0} /\ MinConnections \in 0..MaxConnections
      /\ IsFiniteSet(Callers) /\ IsFiniteSet(Conns)
      /\ Cardinality(Conns) > MaxConnections + Cardinality(Callers)
      /\ FirstConn \in Conns /\ NoConn \notin Conns
    BY PoolConfigAssumption
<1>2. Cardinality(Callers) \in Nat /\ Cardinality(Conns) \in Nat
    BY <1>1, FS_CardinalityType
<1>3. Prewarmed \in 1..MaxConnections
    BY <1>1 DEF Prewarmed
<1> QED
    BY <1>1, <1>2, <1>3

\* Sequences: what taking an end off, putting one on, or taking one out leaves.
LEMMA FrontFacts ==
    ASSUME NEW S, NEW s \in Seq(S), s # <<>>
    PROVE  /\ Front(s) \in Seq(S) /\ Len(Front(s)) = Len(s) - 1
           /\ \A i \in DOMAIN Front(s) : i \in DOMAIN s /\ Front(s)[i] = s[i]
           /\ Last(s) \in ToSet(s) /\ Last(s) \in S
           /\ ToSet(s) = ToSet(Front(s)) \union {Last(s)}
           /\ IsInjective(s) => IsInjective(Front(s)) /\ Last(s) \notin ToSet(Front(s))
<1>1. /\ Front(s) \in Seq(S) /\ Len(Front(s)) = Len(s) - 1
      /\ \A i \in 1..(Len(s) - 1) : Front(s)[i] = s[i]
      /\ Len(s) \in Nat \ {0} /\ DOMAIN s = 1..Len(s) /\ s[Len(s)] \in S
  <2>1. Len(s) \in Nat \ {0} /\ DOMAIN s = 1..Len(s)
      OBVIOUS
  <2>2. s[Len(s)] \in S
      BY <2>1
  <2>3. Front(s) \in Seq(S) /\ Len(Front(s)) = Len(s) - 1
      BY <2>1 DEF Front
  <2>4. \A i \in 1..(Len(s) - 1) : Front(s)[i] = s[i]
      BY <2>1 DEF Front
  <2> QED
      BY <2>1, <2>2, <2>3, <2>4
<1>2. DOMAIN Front(s) = 1..(Len(s) - 1)
    BY <1>1
<1>3. \A i \in DOMAIN Front(s) : i \in DOMAIN s /\ Front(s)[i] = s[i] /\ i # Len(s)
    BY <1>1, <1>2
<1>4. ToSet(s) = ToSet(Front(s)) \union {Last(s)}
  <2>1. \A x \in ToSet(s) : x \in ToSet(Front(s)) \union {Last(s)}
    <3>1. TAKE x \in ToSet(s)
    <3>2. PICK i \in 1..Len(s) : x = s[i]
        BY <1>1 DEF ToSet
    <3>3. CASE i = Len(s)
        BY <3>2, <3>3 DEF Last
    <3>4. CASE i # Len(s)
        BY <1>1, <1>2, <3>2, <3>4 DEF ToSet
    <3> QED
        BY <3>3, <3>4
  <2>2. ToSet(Front(s)) \subseteq ToSet(s)
      BY <1>3 DEF ToSet
  <2>3. Last(s) \in ToSet(s)
      BY <1>1 DEF ToSet, Last
  <2> QED
      BY <2>1, <2>2, <2>3
<1>5. IsInjective(s) => IsInjective(Front(s)) /\ Last(s) \notin ToSet(Front(s))
    BY <1>1, <1>3 DEF IsInjective, ToSet, Last
<1> QED
    BY <1>1, <1>3, <1>4, <1>5 DEF Last

LEMMA AppendFacts ==
    ASSUME NEW S, NEW s \in Seq(S), NEW x \in S
    PROVE  /\ Append(s, x) \in Seq(S) /\ Len(Append(s, x)) = Len(s) + 1
           /\ \A i \in DOMAIN s : i \in DOMAIN Append(s, x) /\ Append(s, x)[i] = s[i]
           /\ \A i \in DOMAIN Append(s, x) : i \notin DOMAIN s => Append(s, x)[i] = x
           /\ \A i, j \in DOMAIN Append(s, x) : i < j => i \in DOMAIN s
           /\ ToSet(Append(s, x)) = ToSet(s) \union {x}
           /\ IsInjective(s) /\ x \notin ToSet(s) => IsInjective(Append(s, x))
<1> DEFINE t == Append(s, x)
<1>1. /\ t \in Seq(S) /\ Len(t) = Len(s) + 1 /\ Len(s) \in Nat
      /\ DOMAIN s = 1..Len(s) /\ DOMAIN t = 1..(Len(s) + 1)
      /\ \A i \in 1..Len(s) : t[i] = s[i]
      /\ t[Len(s) + 1] = x
    OBVIOUS
<1> HIDE DEF t
<1>2. \A i \in DOMAIN t : i \notin DOMAIN s => i = Len(s) + 1
    BY <1>1
<1>3. DOMAIN s \subseteq DOMAIN t /\ Len(s) + 1 \in DOMAIN t
    BY <1>1
<1>4. ToSet(t) = ToSet(s) \union {x}
    BY <1>1, <1>2, <1>3 DEF ToSet
<1>5. IsInjective(s) /\ x \notin ToSet(s) => IsInjective(t)
    BY <1>1, <1>2, <1>3 DEF IsInjective, ToSet
<1>6. \A i, j \in DOMAIN t : i < j => i \in DOMAIN s
    BY <1>1
<1> QED
    BY <1>1, <1>2, <1>3, <1>4, <1>5, <1>6 DEF t

LEMMA SliceFacts ==
    ASSUME NEW S, NEW s \in Seq(S), NEW n \in 0..Len(s)
    PROVE  LET t == SubSeq(s, n + 1, Len(s))
           IN  /\ t \in Seq(S) /\ Len(t) = Len(s) - n
               /\ \A i \in DOMAIN t : i + n \in DOMAIN s /\ t[i] = s[i + n]
               /\ ToSet(t) \subseteq ToSet(s)
               /\ \A i \in DOMAIN s : s[i] \in ToSet(SubSeq(s, 1, n)) \union ToSet(t)
               /\ IsInjective(s) => IsInjective(t)
<1> DEFINE t == SubSeq(s, n + 1, Len(s))
           r == SubSeq(s, 1, n)
<1>1. /\ t \in Seq(S) /\ Len(t) = Len(s) - n /\ DOMAIN t = 1..(Len(s) - n)
      /\ \A i \in 1..(Len(s) - n) : t[i] = s[i + n]
      /\ Len(s) \in Nat /\ DOMAIN s = 1..Len(s)
    OBVIOUS
<1>2. DOMAIN r = 1..n /\ \A i \in 1..n : r[i] = s[i]
    OBVIOUS
<1> HIDE DEF t, r
<1>3. \A i \in DOMAIN t : i + n \in DOMAIN s /\ t[i] = s[i + n]
    BY <1>1
<1>4. ToSet(t) \subseteq ToSet(s)
    BY <1>3 DEF ToSet
<1>5. ASSUME NEW i \in DOMAIN s PROVE s[i] \in ToSet(r) \union ToSet(t)
  <2>1. CASE i <= n
      BY <1>1, <1>2, <2>1 DEF ToSet
  <2>2. CASE i > n
    <3>1. i - n \in DOMAIN t /\ t[i - n] = s[i]
        BY <1>1, <2>2
    <3> QED
        BY <3>1 DEF ToSet
  <2> QED
      BY <1>1, <2>1, <2>2
<1>6. IsInjective(s) => IsInjective(t)
    BY <1>1, <1>3 DEF IsInjective
<1> QED
    BY <1>1, <1>3, <1>4, <1>5, <1>6 DEF t, r

LEMMA TailFacts ==
    ASSUME NEW S, NEW s \in Seq(S), s # <<>>
    PROVE  /\ Tail(s) \in Seq(S) /\ Len(Tail(s)) = Len(s) - 1
           /\ \A i \in DOMAIN Tail(s) : i + 1 \in DOMAIN s /\ Tail(s)[i] = s[i + 1]
           /\ Head(s) \in ToSet(s) /\ Head(s) \in S
           /\ ToSet(s) = ToSet(Tail(s)) \union {Head(s)}
           /\ IsInjective(s) => IsInjective(Tail(s)) /\ Head(s) \notin ToSet(Tail(s))
<1>1. /\ Tail(s) \in Seq(S) /\ Len(Tail(s)) = Len(s) - 1 /\ DOMAIN Tail(s) = 1..(Len(s) - 1)
      /\ \A i \in 1..(Len(s) - 1) : Tail(s)[i] = s[i + 1]
      /\ Len(s) \in Nat \ {0} /\ DOMAIN s = 1..Len(s) /\ Head(s) = s[1] /\ s[1] \in S
    OBVIOUS
<1>2. \A i \in DOMAIN Tail(s) : i + 1 \in DOMAIN s /\ Tail(s)[i] = s[i + 1] /\ i + 1 # 1
    BY <1>1
<1>3. Head(s) \in ToSet(s)
    BY <1>1 DEF ToSet
<1>4. ASSUME NEW x \in ToSet(s) PROVE x \in ToSet(Tail(s)) \union {Head(s)}
  <2>1. PICK i \in 1..Len(s) : x = s[i]
      BY <1>1 DEF ToSet
  <2>2. CASE i = 1
      BY <1>1, <2>1, <2>2
  <2>3. CASE i # 1
    <3>1. i - 1 \in DOMAIN Tail(s) /\ Tail(s)[i - 1] = s[i]
        BY <1>1, <2>3
    <3> QED
        BY <3>1, <2>1 DEF ToSet
  <2> QED
      BY <2>2, <2>3
<1>5. ToSet(Tail(s)) \subseteq ToSet(s)
    BY <1>2 DEF ToSet
<1>6. IsInjective(s) => IsInjective(Tail(s)) /\ Head(s) \notin ToSet(Tail(s))
    BY <1>1, <1>2 DEF IsInjective, ToSet
<1> QED
    BY <1>1, <1>2, <1>3, <1>4, <1>5, <1>6

LEMMA RemoveAtFacts ==
    ASSUME NEW S, NEW s \in Seq(S), NEW n \in DOMAIN s
    PROVE  LET t == RemoveAt(s, n)
               from(i) == IF i < n THEN i ELSE i + 1
           IN  /\ t \in Seq(S) /\ Len(t) = Len(s) - 1
               /\ \A i \in DOMAIN t : from(i) \in DOMAIN s /\ from(i) # n /\ t[i] = s[from(i)]
               /\ \A i \in DOMAIN s : i # n => s[i] \in ToSet(t)
               /\ IsInjective(s) => IsInjective(t) /\ ToSet(t) = ToSet(s) \ {s[n]}
<1> DEFINE t == RemoveAt(s, n)
           from(i) == IF i < n THEN i ELSE i + 1
           a == SubSeq(s, 1, n - 1)
           b == SubSeq(s, n + 1, Len(s))
<1>1. Len(s) \in Nat /\ DOMAIN s = 1..Len(s) /\ n \in 1..Len(s)
    OBVIOUS
<1>2. a \in Seq(S) /\ Len(a) = n - 1 /\ \A i \in 1..(n - 1) : a[i] = s[i]
    BY <1>1
<1>3. b \in Seq(S) /\ Len(b) = Len(s) - n /\ \A i \in 1..(Len(s) - n) : b[i] = s[i + n]
    BY <1>1
<1>4. t = a \o b
    BY DEF RemoveAt
<1> HIDE DEF a, b, t
<1>5. /\ t \in Seq(S) /\ Len(t) = Len(s) - 1 /\ DOMAIN t = 1..(Len(s) - 1)
      /\ \A i \in 1..(Len(s) - 1) : t[i] = IF i <= n - 1 THEN a[i] ELSE b[i - (n - 1)]
  <2>1. a \o b \in Seq(S) /\ Len(a \o b) = Len(a) + Len(b)
      BY <1>2, <1>3, ConcatProperties
  <2>2. Len(t) = Len(s) - 1
      BY <1>1, <1>2, <1>3, <1>4, <2>1
  <2>3. \A i \in 1..(Len(a) + Len(b)) :
           (a \o b)[i] = IF i <= Len(a) THEN a[i] ELSE b[i - Len(a)]
      BY <1>2, <1>3, ConcatProperties
  <2>4. t \in Seq(S) /\ DOMAIN t = 1..(Len(s) - 1)
      BY <1>4, <2>1, <2>2
  <2>5. Len(a) + Len(b) = Len(s) - 1
      BY <1>1, <1>2, <1>3
  <2> QED
      BY <1>2, <1>4, <2>2, <2>3, <2>4, <2>5
<1>6. ASSUME NEW i \in DOMAIN t
      PROVE  from(i) \in DOMAIN s /\ from(i) # n /\ t[i] = s[from(i)]
  <2>1. CASE i < n
      BY <1>1, <1>2, <1>5, <2>1
  <2>2. CASE ~(i < n)
    <3>1. i - (n - 1) \in 1..(Len(s) - n) /\ (i - (n - 1)) + n = i + 1
        BY <1>1, <1>5, <2>2
    <3>2. t[i] = b[i - (n - 1)]
        BY <1>1, <1>5, <2>2
    <3>3. t[i] = s[i + 1]
        BY <1>3, <3>1, <3>2
    <3> QED
        BY <1>1, <1>5, <2>2, <3>3
  <2> QED
      BY <2>1, <2>2
<1>7. ASSUME NEW i \in DOMAIN s, i # n PROVE s[i] \in ToSet(t)
  <2>1. CASE i < n
    <3>1. i \in DOMAIN t /\ from(i) = i
        BY <1>1, <1>5, <2>1
    <3> QED
        BY <3>1, <1>6 DEF ToSet
  <2>2. CASE i > n
    <3>1. i - 1 \in DOMAIN t /\ from(i - 1) = i
        BY <1>1, <1>5, <2>2
    <3> QED
        BY <3>1, <1>6 DEF ToSet
  <2> QED
      BY <1>1, <1>7, <2>1, <2>2
<1>8. \A i, j \in DOMAIN t : from(i) = from(j) => i = j
    BY <1>1, <1>5
<1> HIDE DEF from
<1>9. IsInjective(s) => IsInjective(t) /\ ToSet(t) = ToSet(s) \ {s[n]}
    BY <1>6, <1>7, <1>8 DEF IsInjective, ToSet
<1> QED
    BY <1>5, <1>6, <1>7, <1>9 DEF t, from

LEMMA SetOfSequence ==
    ASSUME NEW S, NEW s \in Seq(S)
    PROVE  IsFiniteSet(ToSet(s)) /\ Cardinality(ToSet(s)) <= Len(s)
<1>1. Len(s) \in Nat /\ DOMAIN s = 1..Len(s) /\ s \in [1..Len(s) -> ToSet(s)]
    BY DEF ToSet
<1>2. IsFiniteSet(1..Len(s)) /\ Cardinality(1..Len(s)) = Len(s)
    BY <1>1, FS_Interval
<1>3. s \in Surjection(1..Len(s), ToSet(s))
    BY <1>1 DEF Surjection, ToSet
<1> QED
    BY <1>2, <1>3, FS_Surjection

-----------------------------------------------------------------------------
\* The configuration leaves handles for the connections that come with the
\* database, one of them FirstConn.
LEMMA InitialHandles ==
    \E s \in [1..Prewarmed -> Conns] : IsInjective(s) /\ s[1] = FirstConn
<1> DEFINE n == Cardinality(Conns)
<1>1. n \in Nat /\ Prewarmed \in 1..n /\ FirstConn \in Conns /\ IsFiniteSet(Conns)
    BY ConfigType
<1>2. PICK f : f \in Bijection(1..n, Conns)
    BY <1>1, FS_CardinalityType DEF ExistsBijection
<1>3. /\ f \in [1..n -> Conns]
      /\ \A i, j \in 1..n : f[i] = f[j] => i = j
      /\ \A c \in Conns : \E i \in 1..n : f[i] = c
    BY <1>2 DEF Bijection, Injection, Surjection, IsInjective
<1>4. PICK first \in 1..n : f[first] = FirstConn
    BY <1>1, <1>3
<1> DEFINE place(i) == IF i = 1 THEN first ELSE IF i = first THEN 1 ELSE i
           s == [i \in 1..Prewarmed |-> f[place(i)]]
<1>5. \A i \in 1..Prewarmed : place(i) \in 1..n
    BY <1>1
<1>6. \A i, j \in 1..Prewarmed : place(i) = place(j) => i = j
    BY <1>1
<1>7. s \in [1..Prewarmed -> Conns] /\ s[1] = FirstConn
    BY <1>1, <1>3, <1>4, <1>5
<1>8. IsInjective(s)
    BY <1>3, <1>5, <1>6 DEF IsInjective
<1> QED
    BY <1>7, <1>8

LEMMA InitIInv == Init => IInv
<1> SUFFICES ASSUME Init PROVE IInv
    OBVIOUS
<1>1. /\ idle \in [1..Prewarmed -> Conns] /\ IsInjective(idle)
    BY InitialHandles DEF Init
<1>2. idle \in Seq(Conns) /\ Len(idle) = Prewarmed
    BY <1>1, ConfigType
<1>3. /\ active = {} /\ waitQueue = <<>> /\ drained = FALSE /\ drainStage = "none"
      /\ closing = 1 /\ open = ToSet(idle) /\ dbOpen = TRUE /\ late = {} /\ lost = {}
      /\ pc = [k \in Callers |-> "start"] /\ conn = [k \in Callers |-> NoConn]
    BY DEF Init
<1>4. ToSet(idle) \subseteq Conns /\ NoConn \notin ToSet(idle) /\ ToSet(waitQueue) = {}
    BY <1>2, <1>3, ConfigType DEF ToSet
<1>5. TypeOK
  <2>1. /\ pc \in [Callers -> CallerStages] /\ conn \in [Callers -> Conns \union {NoConn}]
        /\ \A k \in Callers : pc[k] = "start" /\ conn[k] = NoConn
      BY <1>3 DEF CallerStages
  <2>2. waitQueue \in Seq(Callers)
      BY <1>3
  <2> QED
      BY <1>2, <1>3, <1>4, <2>1, <2>2 DEF TypeOK, DrainStages
<1>6. OneHolderEach /\ ApartFromIdle /\ NoStrandedWaiter /\ NoLeakedConnection
    BY <1>1, <1>3, <1>4 DEF OneHolderEach, ApartFromIdle, NoStrandedWaiter, NoLeakedConnection
<1>7. HandlesSuffice
  <2>1. Live = Callers
      BY <1>3 DEF Live
  <2> QED
      BY <1>2, <1>3, <2>1, ConfigType, FS_EmptySet DEF HandlesSuffice
<1>8. IsInjective(waitQueue) /\ DrainInv /\ ClosedBehind
    BY <1>3 DEF IsInjective, DrainInv, ClosedBehind, InAcquire
<1> QED
    BY <1>5, <1>6, <1>7, <1>8 DEF IInv

-----------------------------------------------------------------------------
LEMMA LiveType == IsFiniteSet(Live) /\ Cardinality(Live) \in Nat
<1>1. Live \subseteq Callers
    BY DEF Live
<1> QED
    BY <1>1, ConfigType, FS_Subset, FS_CardinalityType

LEMMA LostType ==
    ASSUME TypeOK
    PROVE  IsFiniteSet(lost) /\ Cardinality(lost) \in Nat
<1>1. lost \subseteq Conns
    BY DEF TypeOK
<1> QED
    BY <1>1, ConfigType, FS_Subset, FS_CardinalityType

\* How the handles in use follow the callers that get through: for a step, what
\* is left to show is that no handle goes to the idle list, or is lost from
\* elsewhere, but by one of them.
LEMMA NobodyReturns ==
    ASSUME IInv, Live' \subseteq Live, Len(idle') \in Nat, Len(idle') <= Len(idle), lost' \subseteq lost
    PROVE  HandlesSuffice'
<1>1. Cardinality(Live') <= Cardinality(Live) /\ Cardinality(Live') \in Nat
    BY LiveType, FS_Subset, FS_CardinalityType
<1>2. /\ Cardinality(Live) \in Nat /\ Len(idle) \in Nat /\ Prewarmed \in Nat
      /\ Cardinality(Callers) \in Nat /\ IsFiniteSet(lost) /\ Cardinality(lost) \in Nat
    BY LiveType, LostType, ConfigType DEF IInv, TypeOK
<1>3. Cardinality(lost') <= Cardinality(lost) /\ Cardinality(lost') \in Nat
    BY <1>2, FS_Subset, FS_CardinalityType
<1>4. Len(idle) + Cardinality(lost) + Cardinality(Live) <= Prewarmed + Cardinality(Callers)
    BY DEF IInv, HandlesSuffice
<1> QED
    BY <1>1, <1>2, <1>3, <1>4 DEF HandlesSuffice

LEMMA OneReturns ==
    ASSUME IInv, NEW k \in Live, Live' = Live \ {k}, Len(idle') = Len(idle) + 1, lost' = lost
    PROVE  HandlesSuffice'
<1>1. Cardinality(Live') = Cardinality(Live) - 1
    BY LiveType, FS_RemoveElement
<1>2. /\ Cardinality(Live) \in Nat /\ Len(idle) \in Nat /\ Prewarmed \in Nat
      /\ Cardinality(Callers) \in Nat /\ Cardinality(lost) \in Nat
    BY LiveType, LostType, ConfigType DEF IInv, TypeOK
<1>3. Len(idle) + Cardinality(lost) + Cardinality(Live) <= Prewarmed + Cardinality(Callers)
    BY DEF IInv, HandlesSuffice
<1> QED
    BY <1>1, <1>2, <1>3 DEF HandlesSuffice

LEMMA OneIsLost ==
    ASSUME IInv, NEW k \in Live, Live' = Live \ {k}, idle' = idle, NEW c,
           lost' \subseteq lost \union {c}
    PROVE  HandlesSuffice'
<1>1. Cardinality(Live') = Cardinality(Live) - 1
    BY LiveType, FS_RemoveElement
<1>2. /\ Cardinality(Live) \in Nat /\ Len(idle) \in Nat /\ Prewarmed \in Nat
      /\ Cardinality(Callers) \in Nat /\ IsFiniteSet(lost) /\ Cardinality(lost) \in Nat
    BY LiveType, LostType, ConfigType DEF IInv, TypeOK
<1>3. Cardinality(lost') \in Nat /\ Cardinality(lost') <= Cardinality(lost) + 1
  <2>1. /\ IsFiniteSet(lost \union {c}) /\ Cardinality(lost \union {c}) \in Nat
        /\ Cardinality(lost \union {c}) <= Cardinality(lost) + 1
    <3>1. /\ IsFiniteSet(lost \union {c})
          /\ Cardinality(lost \union {c}) = Cardinality(lost) \/ Cardinality(lost \union {c}) = Cardinality(lost) + 1
        BY <1>2, FS_AddElement
    <3> QED
        BY <1>2, <3>1
  <2>2. Cardinality(lost') \in Nat /\ Cardinality(lost') <= Cardinality(lost \union {c})
      BY <2>1, FS_Subset, FS_CardinalityType
  <2> QED
      BY <1>2, <2>1, <2>2
<1>4. Len(idle) + Cardinality(lost) + Cardinality(Live) <= Prewarmed + Cardinality(Callers)
    BY DEF IInv, HandlesSuffice
<1> QED
    BY <1>1, <1>2, <1>3, <1>4 DEF HandlesSuffice

\* What acquire() does between two awaits, with the connection of its caller
\* closed or never opened.
LEMMA NextConnectionKeeps ==
    ASSUME IInv, NEW k \in Callers, pc[k] \in {"start", "discarding"},
           drained => k \in late, NextConnection(k), open' = open \ {conn[k]},
           UNCHANGED <<active, drained, drainStage, closing, dbOpen, late, lost>>
    PROVE  IInv'
<1>1. TypeOK /\ OneHolderEach /\ ApartFromIdle /\ NoStrandedWaiter /\ NoLeakedConnection
    BY DEF IInv
<1>2. /\ k \notin ToSet(waitQueue)
      /\ pc \in [Callers -> CallerStages] /\ conn \in [Callers -> Conns \union {NoConn}]
      /\ idle \in Seq(Conns) /\ waitQueue \in Seq(Callers) /\ IsInjective(waitQueue)
      /\ NoConn \notin Conns /\ active \subseteq Conns /\ open \subseteq Conns
      /\ NoConn \notin ToSet(idle)
    BY <1>1, ConfigType DEF NoStrandedWaiter, TypeOK, IInv, ToSet
<1>3. DrainInv'
    BY <1>2 DEF IInv, DrainInv, InAcquire, NextConnection
<1>4. CASE /\ idle # <<>>
           /\ idle' = Front(idle)
           /\ conn' = [conn EXCEPT ![k] = Last(idle)]
           /\ pc' = [pc EXCEPT ![k] = "validating"]
           /\ UNCHANGED waitQueue
  <2> DEFINE c == Last(idle)
             front == Front(idle)
  <2>1. /\ front \in Seq(Conns) /\ Len(front) = Len(idle) - 1
        /\ \A i \in DOMAIN front : i \in DOMAIN idle /\ front[i] = idle[i]
        /\ c \in ToSet(idle) /\ c \in Conns /\ c \notin ToSet(front) /\ IsInjective(front)
        /\ ToSet(idle) = ToSet(front) \union {c}
      BY <1>1, <1>2, <1>4, FrontFacts DEF ApartFromIdle
  <2> HIDE DEF c, front
  <2>2. /\ idle' = front
        /\ conn' = [conn EXCEPT ![k] = c] /\ pc' = [pc EXCEPT ![k] = "validating"]
      BY <1>4 DEF c, front
  <2>3. TypeOK'
      BY <1>1, <1>2, <1>4, <2>1, <2>2 DEF TypeOK, CallerStages
  <2>4. OneHolderEach'
      BY <1>1, <1>2, <2>1, <2>2 DEF OneHolderEach, ApartFromIdle, TypeOK
  <2>5. ApartFromIdle'
      BY <1>1, <1>2, <2>1, <2>2 DEF ApartFromIdle
  <2>6. NoLeakedConnection'
      BY <1>1, <1>2, <2>1, <2>2 DEF NoLeakedConnection, InAcquire, OneHolderEach, TypeOK
  <2>7. NoStrandedWaiter' /\ IsInjective(waitQueue')
      BY <1>1, <1>2, <1>4, <2>2 DEF NoStrandedWaiter
  <2>8. ClosedBehind'
      BY <1>2, <1>4, <2>1, <2>2 DEF IInv, ClosedBehind
  <2>9. HandlesSuffice'
    <3>1. Live' \subseteq Live
        BY <1>2, <2>2 DEF Live
    <3>2. Len(idle') \in Nat /\ Len(idle') <= Len(idle)
        BY <1>2, <2>1, <2>2
    <3> QED
        BY <3>1, <3>2, NobodyReturns
  <2> QED
      BY <1>3, <2>3, <2>4, <2>5, <2>6, <2>7, <2>8, <2>9 DEF IInv
<1>5. CASE /\ idle = <<>>
           /\ Cardinality(active) < MaxConnections
           /\ conn' = [conn EXCEPT ![k] = NoConn]
           /\ pc' = [pc EXCEPT ![k] = "creating"]
           /\ UNCHANGED <<idle, waitQueue>>
  <2>1. TypeOK'
      BY <1>1, <1>2, <1>5 DEF TypeOK, CallerStages
  <2>2. OneHolderEach' /\ ApartFromIdle'
      BY <1>1, <1>2, <1>5 DEF OneHolderEach, ApartFromIdle, TypeOK
  <2>3. NoLeakedConnection'
      BY <1>1, <1>2, <1>5 DEF NoLeakedConnection, InAcquire
  <2>4. NoStrandedWaiter' /\ IsInjective(waitQueue')
      BY <1>1, <1>2, <1>5 DEF NoStrandedWaiter
  <2>5. ClosedBehind'
      BY <1>2, <1>5 DEF IInv, ClosedBehind
  <2>6. HandlesSuffice'
    <3>1. Live' \subseteq Live
        BY <1>2, <1>5 DEF Live
    <3> QED
        BY <1>2, <1>5, <3>1, NobodyReturns
  <2> QED
      BY <1>3, <2>1, <2>2, <2>3, <2>4, <2>5, <2>6 DEF IInv
<1>6. CASE /\ idle = <<>>
           /\ Cardinality(active) >= MaxConnections
           /\ conn' = [conn EXCEPT ![k] = NoConn]
           /\ pc' = [pc EXCEPT ![k] = "waiting"]
           /\ waitQueue' = Append(waitQueue, k)
           /\ UNCHANGED idle
  <2> DEFINE q == Append(waitQueue, k)
  <2>1. /\ q \in Seq(Callers) /\ IsInjective(q)
        /\ ToSet(q) = ToSet(waitQueue) \union {k}
      BY <1>2, AppendFacts
  <2> HIDE DEF q
  <2>2. waitQueue' = q
      BY <1>6 DEF q
  <2>3. TypeOK'
      BY <1>1, <1>2, <1>6, <2>1, <2>2 DEF TypeOK, CallerStages
  <2>4. OneHolderEach' /\ ApartFromIdle'
      BY <1>1, <1>2, <1>6 DEF OneHolderEach, ApartFromIdle, TypeOK
  <2>5. NoLeakedConnection'
      BY <1>1, <1>2, <1>6 DEF NoLeakedConnection, InAcquire
  <2>6. active # {}
    <3>1. Cardinality({}) = 0
        BY FS_EmptySet
    <3>2. Cardinality(active) >= MaxConnections /\ MaxConnections \in Nat \ {0}
        BY <1>6, ConfigType
    <3> QED
        BY <3>1, <3>2
  <2>7. NoStrandedWaiter' /\ IsInjective(waitQueue')
      BY <1>1, <1>2, <1>6, <2>1, <2>2, <2>6 DEF NoStrandedWaiter
  <2>8. ClosedBehind'
      BY <1>2, <1>6 DEF IInv, ClosedBehind
  <2>9. HandlesSuffice'
    <3>1. Live' \subseteq Live
        BY <1>2, <1>6 DEF Live
    <3> QED
        BY <1>2, <1>6, <3>1, NobodyReturns
  <2> QED
      BY <1>3, <2>3, <2>4, <2>5, <2>7, <2>8, <2>9 DEF IInv
<1> QED
    BY <1>4, <1>5, <1>6 DEF NextConnection

LEMMA AcquireKeeps ==
    ASSUME IInv, NEW k \in Callers, Acquire(k)
    PROVE  IInv'
<1>1. TypeOK /\ pc[k] = "start" /\ conn[k] = NoConn /\ conn[k] \notin open
    BY ConfigType DEF IInv, TypeOK, Acquire
<1>2. CASE ~drained /\ NextConnection(k)
    BY <1>1, <1>2, NextConnectionKeeps DEF Acquire
<1>3. CASE /\ drained
           /\ pc' = [pc EXCEPT ![k] = "failed"]
           /\ UNCHANGED <<idle, waitQueue, conn>>
  <2>1. UNCHANGED <<idle, active, waitQueue, drained, drainStage, closing, open,
                    dbOpen, conn, late, lost>>
      BY <1>3 DEF Acquire
  <2>2. TypeOK' /\ OneHolderEach' /\ ApartFromIdle'
      BY <1>1, <1>3, <2>1 DEF IInv, TypeOK, CallerStages, OneHolderEach, ApartFromIdle
  <2>3. NoLeakedConnection' /\ NoStrandedWaiter'
      BY <1>1, <1>3, <2>1 DEF IInv, TypeOK, NoLeakedConnection, NoStrandedWaiter, InAcquire
  <2>4. DrainInv' /\ ClosedBehind' /\ IsInjective(waitQueue')
      BY <1>1, <1>3, <2>1 DEF IInv, TypeOK, DrainInv, ClosedBehind, InAcquire
  <2>5. HandlesSuffice'
    <3>1. Live' \subseteq Live
        BY <1>1, <1>3 DEF Live, TypeOK
    <3> QED
        BY <1>1, <2>1, <3>1, NobodyReturns DEF TypeOK
  <2> QED
      BY <2>2, <2>3, <2>4, <2>5 DEF IInv
<1> QED
    BY <1>2, <1>3 DEF Acquire

-----------------------------------------------------------------------------
\* Steps that touch neither the idle list nor the wait queue: what is left to
\* show is what they do to their own caller.
LEMMA ListsStand ==
    ASSUME IInv, UNCHANGED <<idle, waitQueue, closing, drainStage>>, open' \subseteq open,
           Live' \subseteq Live, lost' \subseteq lost,
           TypeOK', OneHolderEach', ApartFromIdle', NoLeakedConnection', NoStrandedWaiter', DrainInv'
    PROVE  IInv'
<1>1. Len(idle') \in Nat /\ Len(idle') = Len(idle)
    BY DEF IInv, TypeOK
<1>2. HandlesSuffice'
    BY <1>1, NobodyReturns
<1>3. ClosedBehind'
    BY DEF IInv, ClosedBehind
<1> QED
    BY <1>2, <1>3 DEF IInv

LEMMA ValidatedKeeps ==
    ASSUME IInv, NEW k \in Callers, Validated(k)
    PROVE  IInv'
<1>1. TypeOK /\ OneHolderEach /\ ApartFromIdle /\ NoLeakedConnection /\ NoStrandedWaiter /\ DrainInv
    BY DEF IInv
<1>2. /\ pc[k] = "validating" /\ conn[k] \in open
      /\ active' = active \union {conn[k]}
      /\ pc' = [pc EXCEPT ![k] = "holding"]
      /\ UNCHANGED <<idle, waitQueue, drained, drainStage, closing, open, dbOpen, conn, late, lost>>
    BY DEF Validated
<1>3. TypeOK'
    BY <1>1, <1>2 DEF TypeOK, CallerStages
<1>4. conn[k] # NoConn /\ \A j \in Callers : j # k => conn[j] # conn[k]
    BY <1>1, <1>2 DEF TypeOK, OneHolderEach
<1>5. OneHolderEach' /\ ApartFromIdle'
    BY <1>1, <1>2, <1>4 DEF TypeOK, OneHolderEach, ApartFromIdle
<1>6. NoLeakedConnection' /\ NoStrandedWaiter'
    BY <1>1, <1>2 DEF TypeOK, NoLeakedConnection, NoStrandedWaiter, InAcquire
<1>7. DrainInv'
  <2>1. drainStage # "none" => k \in late
      BY <1>1, <1>2 DEF DrainInv, InAcquire
  <2> QED
      BY <1>1, <1>2, <2>1 DEF TypeOK, DrainInv, InAcquire
<1>8. Live' \subseteq Live
    BY <1>1, <1>2 DEF TypeOK, Live
<1> QED
    BY <1>2, <1>3, <1>5, <1>6, <1>7, <1>8, ListsStand

LEMMA ValidationFailedKeeps ==
    ASSUME IInv, NEW k \in Callers, ValidationFailed(k)
    PROVE  IInv'
<1>1. TypeOK /\ OneHolderEach /\ ApartFromIdle /\ NoLeakedConnection /\ NoStrandedWaiter /\ DrainInv
    BY DEF IInv
<1>2. /\ pc[k] = "validating"
      /\ pc' = [pc EXCEPT ![k] = "discarding"]
      /\ UNCHANGED <<idle, active, waitQueue, drained, drainStage, closing, open, dbOpen, conn, late, lost>>
    BY DEF ValidationFailed
<1>3. TypeOK' /\ OneHolderEach' /\ ApartFromIdle'
    BY <1>1, <1>2 DEF TypeOK, CallerStages, OneHolderEach, ApartFromIdle
<1>4. NoLeakedConnection' /\ NoStrandedWaiter' /\ DrainInv'
    BY <1>1, <1>2 DEF TypeOK, NoLeakedConnection, NoStrandedWaiter, DrainInv, InAcquire
<1>5. Live' \subseteq Live
    BY <1>1, <1>2 DEF TypeOK, Live
<1> QED
    BY <1>2, <1>3, <1>4, <1>5, ListsStand

LEMMA DiscardedKeeps ==
    ASSUME IInv, NEW k \in Callers, Discarded(k)
    PROVE  IInv'
<1>1. drained => k \in late
    BY DEF IInv, DrainInv, InAcquire, Discarded
<1> QED
    BY <1>1, NextConnectionKeeps DEF Discarded

LEMMA CreationFailedKeeps ==
    ASSUME IInv, NEW k \in Callers, CreationFailed(k)
    PROVE  IInv'
<1>1. TypeOK /\ OneHolderEach /\ ApartFromIdle /\ NoLeakedConnection /\ NoStrandedWaiter /\ DrainInv
    BY DEF IInv
<1>2. /\ pc[k] = "creating"
      /\ pc' = [pc EXCEPT ![k] = "failed"]
      /\ UNCHANGED <<idle, active, waitQueue, drained, drainStage, closing, open, dbOpen, conn, late, lost>>
    BY DEF CreationFailed
<1>3. TypeOK' /\ OneHolderEach' /\ ApartFromIdle'
    BY <1>1, <1>2 DEF TypeOK, CallerStages, OneHolderEach, ApartFromIdle
<1>4. conn[k] \notin open
    BY <1>1, <1>2, ConfigType DEF TypeOK
<1>5. NoLeakedConnection' /\ NoStrandedWaiter' /\ DrainInv'
    BY <1>1, <1>2, <1>4 DEF TypeOK, NoLeakedConnection, NoStrandedWaiter, DrainInv, InAcquire
<1>6. Live' \subseteq Live
    BY <1>1, <1>2 DEF TypeOK, Live
<1> QED
    BY <1>2, <1>3, <1>5, <1>6, ListsStand

LEMMA UnionBound ==
    ASSUME NEW S, IsFiniteSet(S), NEW T, IsFiniteSet(T)
    PROVE  /\ IsFiniteSet(S \union T)
           /\ Cardinality(S) \in Nat /\ Cardinality(T) \in Nat /\ Cardinality(S \union T) \in Nat
           /\ Cardinality(S \union T) <= Cardinality(S) + Cardinality(T)
<1>1. IsFiniteSet(S \intersect T)
  <2>1. S \intersect T \in SUBSET S
      OBVIOUS
  <2> QED
      BY <2>1, FS_Subset
<1>2. /\ Cardinality(S) \in Nat /\ Cardinality(T) \in Nat
      /\ Cardinality(S \intersect T) \in Nat
    BY <1>1, FS_CardinalityType
<1>3. /\ IsFiniteSet(S \union T)
      /\ Cardinality(S \union T) = Cardinality(S) + Cardinality(T) - Cardinality(S \intersect T)
    BY FS_Union
<1>4. Cardinality(S \union T) \in Nat
    BY <1>3, FS_CardinalityType
<1> QED
    BY <1>2, <1>3, <1>4

\* There is a handle for the connection to be opened.
LEMMA HandleLeft ==
    ASSUME IInv, NEW k \in Callers, pc[k] = "creating"
    PROVE  \E c \in Conns : c \notin InUse
<1>1. TypeOK /\ OneHolderEach /\ ApartFromIdle /\ NoLeakedConnection /\ HandlesSuffice
    BY DEF IInv
<1> DEFINE L == Live \ {k}
           U == {conn[j] : j \in L}
           V == {FirstConn} \union ToSet(idle)
           W == (V \union U) \union lost
<1>2. k \in Live /\ L \subseteq Callers /\ conn[k] = NoConn
    BY <1>1 DEF Live, TypeOK
<1>3. IsFiniteSet(L) /\ Cardinality(L) = Cardinality(Live) - 1
    BY <1>2, LiveType, FS_RemoveElement
<1>4. IsFiniteSet(U) /\ Cardinality(U) <= Cardinality(L)
  <2> DEFINE f == [j \in L |-> conn[j]]
  <2>1. f \in Surjection(L, U)
      BY DEF Surjection
  <2> QED
      BY <2>1, <1>3, FS_Surjection
<1>5. IsFiniteSet(ToSet(idle)) /\ Cardinality(ToSet(idle)) <= Len(idle) /\ Len(idle) \in Nat
  <2>1. idle \in Seq(Conns)
      BY <1>1 DEF TypeOK
  <2> QED
      BY <2>1, SetOfSequence
<1>6. IsFiniteSet(W) /\ Cardinality(W) <= 1 + Len(idle) + Cardinality(U) + Cardinality(lost)
  <2>1. IsFiniteSet({FirstConn}) /\ Cardinality({FirstConn}) = 1
      BY FS_Singleton
  <2>2. /\ IsFiniteSet(V) /\ Cardinality(ToSet(idle)) \in Nat /\ Cardinality(V) \in Nat
        /\ Cardinality(V) <= 1 + Cardinality(ToSet(idle))
      BY <1>5, <2>1, UnionBound
  <2> HIDE DEF U, V
  <2>3. /\ IsFiniteSet(V \union U) /\ Cardinality(U) \in Nat /\ Cardinality(V \union U) \in Nat
        /\ Cardinality(V \union U) <= Cardinality(V) + Cardinality(U)
      BY <1>4, <2>2, UnionBound
  <2>4. /\ IsFiniteSet(W) /\ Cardinality(lost) \in Nat /\ Cardinality(W) \in Nat
        /\ Cardinality(W) <= Cardinality(V \union U) + Cardinality(lost)
      BY <1>1, <2>3, LostType, UnionBound
  <2> QED
      BY <1>5, <2>2, <2>3, <2>4
<1>7. Cardinality(W) < Cardinality(Conns)
  <2>1. Len(idle) + Cardinality(lost) + Cardinality(Live) <= Prewarmed + Cardinality(Callers)
      BY <1>1 DEF HandlesSuffice
  <2>2. /\ Cardinality(U) \in Nat /\ Cardinality(L) \in Nat /\ Cardinality(Live) \in Nat
        /\ Cardinality(W) \in Nat /\ Cardinality(lost) \in Nat
      BY <1>1, <1>3, <1>4, <1>6, LiveType, LostType, FS_CardinalityType
  <2>3. /\ MaxConnections \in Nat /\ Prewarmed \in 1..MaxConnections /\ Cardinality(Callers) \in Nat
        /\ Cardinality(Conns) \in Nat /\ Cardinality(Conns) > MaxConnections + Cardinality(Callers)
      BY ConfigType
  <2> HIDE DEF W, V, U, L
  <2>4. Cardinality(W) <= Len(idle) + Cardinality(lost) + Cardinality(Live)
      BY <1>3, <1>4, <1>5, <1>6, <2>2
  <2> QED
      BY <1>5, <2>1, <2>2, <2>3, <2>4
<1>8. PICK c \in Conns : c \notin W
  <2>1. ~(Conns \subseteq W)
    <3>1. SUFFICES ASSUME Conns \subseteq W PROVE FALSE
        OBVIOUS
    <3>2. Conns \in SUBSET W
        BY <3>1
    <3> HIDE DEF W
    <3>3. Cardinality(Conns) <= Cardinality(W)
        BY <1>6, <3>2, FS_Subset
    <3>4. Cardinality(Conns) \in Nat /\ Cardinality(W) \in Nat
        BY <1>6, ConfigType, FS_CardinalityType
    <3> QED
        BY <1>7, <3>3, <3>4
  <2> QED
      BY <2>1
<1>9. c # NoConn /\ c # FirstConn /\ c \notin ToSet(idle) /\ c \notin lost
    BY <1>8, ConfigType
<1>10. \A j \in Callers : conn[j] # c
  <2>1. SUFFICES ASSUME NEW j \in Callers, conn[j] = c PROVE FALSE
      OBVIOUS
  <2>2. j \in L
      BY <1>1, <1>2, <1>9, <2>1 DEF Live, TypeOK
  <2> QED
      BY <1>8, <2>1, <2>2
<1>11. c \notin active /\ c \notin open
    BY <1>1, <1>9, <1>10 DEF OneHolderEach, NoLeakedConnection
<1> QED
    BY <1>8, <1>9, <1>10, <1>11 DEF InUse

LEMMA CreatedKeeps ==
    ASSUME IInv, NEW k \in Callers, Created(k)
    PROVE  IInv'
<1>1. /\ TypeOK /\ OneHolderEach /\ ApartFromIdle /\ NoLeakedConnection /\ NoStrandedWaiter
      /\ DrainInv /\ ClosedBehind /\ IsInjective(waitQueue)
    BY DEF IInv
<1> DEFINE c == CHOOSE x \in Conns \ InUse : TRUE
<1>2. c \in Conns /\ c \notin InUse
    BY HandleLeft DEF Created
<1>3. /\ pc[k] = "creating"
      /\ open' = open \union {c} /\ active' = active \union {c}
      /\ conn' = [conn EXCEPT ![k] = c]
      /\ pc' = [pc EXCEPT ![k] = "holding"]
      /\ UNCHANGED <<idle, waitQueue, drained, drainStage, closing, dbOpen, late, lost>>
    BY DEF Created
<1> HIDE DEF c
<1>4. /\ c \notin open /\ c \notin active /\ c \notin ToSet(idle) /\ c \notin lost
      /\ \A j \in Callers : conn[j] # c
    BY <1>2 DEF InUse
<1>5. NoConn \notin Conns
    BY ConfigType
<1>6. TypeOK'
    BY <1>1, <1>2, <1>3, <1>5 DEF TypeOK, CallerStages
<1>7. OneHolderEach' /\ ApartFromIdle'
    BY <1>1, <1>2, <1>3, <1>4, <1>5 DEF TypeOK, OneHolderEach, ApartFromIdle
<1>8. NoLeakedConnection'
  <2>1. conn[k] \notin open
      BY <1>1, <1>3, <1>5 DEF TypeOK
  <2> QED
      BY <1>1, <1>3, <2>1 DEF TypeOK, NoLeakedConnection, InAcquire
<1>9. NoStrandedWaiter'
    BY <1>1, <1>3 DEF TypeOK, NoStrandedWaiter
<1>10. DrainInv'
  <2>1. drainStage # "none" => k \in late
      BY <1>1, <1>3 DEF DrainInv, InAcquire
  <2> QED
      BY <1>1, <1>3, <2>1 DEF TypeOK, DrainInv, InAcquire
<1>11. ClosedBehind'
    BY <1>1, <1>3, <1>4 DEF ClosedBehind, ToSet
<1>12. HandlesSuffice'
  <2>1. Live' \subseteq Live
      BY <1>1, <1>3 DEF TypeOK, Live
  <2>2. Len(idle') \in Nat /\ Len(idle') <= Len(idle)
      BY <1>1, <1>3 DEF TypeOK
  <2> QED
      BY <1>3, <2>1, <2>2, NobodyReturns
<1> QED
    BY <1>1, <1>3, <1>6, <1>7, <1>8, <1>9, <1>10, <1>11, <1>12 DEF IInv

LEMMA WaitTimeoutKeeps ==
    ASSUME IInv, NEW k \in Callers, WaitTimeout(k)
    PROVE  IInv'
<1>1. /\ TypeOK /\ OneHolderEach /\ ApartFromIdle /\ NoLeakedConnection /\ NoStrandedWaiter
      /\ DrainInv /\ ClosedBehind /\ IsInjective(waitQueue)
    BY DEF IInv
<1>2. /\ pc[k] = "waiting"
      /\ pc' = [pc EXCEPT ![k] = "failed"]
      /\ UNCHANGED <<idle, active, drained, drainStage, closing, open, dbOpen, conn, late, lost>>
    BY DEF WaitTimeout
<1>3. PICK i \in DOMAIN waitQueue : waitQueue[i] = k /\ waitQueue' = RemoveAt(waitQueue, i)
    BY DEF WaitTimeout
<1>4. /\ waitQueue' \in Seq(Callers) /\ IsInjective(waitQueue')
      /\ ToSet(waitQueue') = ToSet(waitQueue) \ {k}
    BY <1>1, <1>3, RemoveAtFacts DEF TypeOK
<1>5. waitQueue # <<>>
    BY <1>3
<1>6. TypeOK' /\ OneHolderEach' /\ ApartFromIdle'
    BY <1>1, <1>2, <1>4 DEF TypeOK, CallerStages, OneHolderEach, ApartFromIdle
<1>7. conn[k] \notin open
    BY <1>1, <1>2, ConfigType DEF TypeOK
<1>8. NoLeakedConnection' /\ NoStrandedWaiter'
    BY <1>1, <1>2, <1>4, <1>5, <1>7 DEF TypeOK, NoLeakedConnection, NoStrandedWaiter, InAcquire
<1>9. DrainInv' /\ ClosedBehind'
    BY <1>1, <1>2 DEF TypeOK, DrainInv, ClosedBehind, InAcquire
<1>10. HandlesSuffice'
  <2>1. Live' \subseteq Live
      BY <1>1, <1>2 DEF TypeOK, Live
  <2>2. Len(idle') \in Nat /\ Len(idle') <= Len(idle)
      BY <1>1, <1>2 DEF TypeOK
  <2> QED
      BY <1>2, <2>1, <2>2, NobodyReturns
<1> QED
    BY <1>4, <1>6, <1>8, <1>9, <1>10 DEF IInv

-----------------------------------------------------------------------------
LEMMA CloseKeeps ==
    ASSUME IInv, NEW k \in Callers, Close(k)
    PROVE  IInv'
<1> DEFINE c == conn[k]
<1>1. /\ TypeOK /\ OneHolderEach /\ ApartFromIdle /\ NoLeakedConnection /\ NoStrandedWaiter
      /\ DrainInv /\ ClosedBehind /\ IsInjective(waitQueue)
    BY DEF IInv
<1>2. /\ pc[k] = "holding"
      /\ UNCHANGED <<drained, drainStage, closing, open, dbOpen, late, lost>>
    BY DEF Close
<1>3. /\ c \in Conns /\ c \in active /\ c \notin ToSet(idle)
      /\ \A j \in Callers : j # k => conn[j] # c
      /\ NoConn \notin Conns /\ NoConn \notin ToSet(idle) /\ NoConn \notin active
      /\ NoConn \notin lost /\ c \notin lost
      /\ pc \in [Callers -> CallerStages] /\ conn \in [Callers -> Conns \union {NoConn}]
      /\ idle \in Seq(Conns) /\ waitQueue \in Seq(Callers)
    BY <1>1, <1>2, ConfigType DEF TypeOK, OneHolderEach, ApartFromIdle, ToSet
<1>4. k \in Live
    BY <1>2 DEF Live
<1>5. Len(idle) \in Nat
    BY <1>3
<1> HIDE DEF c
<1>6. CASE /\ drained
           /\ active' = active \ {c}
           /\ pc' = [pc EXCEPT ![k] = "releasing"]
           /\ UNCHANGED <<idle, waitQueue, conn>>
  <2>1. TypeOK'
      BY <1>1, <1>2, <1>6 DEF TypeOK, CallerStages
  <2>2. OneHolderEach' /\ ApartFromIdle'
      BY <1>1, <1>2, <1>3, <1>6 DEF OneHolderEach, ApartFromIdle, c
  <2>3. NoLeakedConnection' /\ NoStrandedWaiter' /\ DrainInv'
      BY <1>1, <1>2, <1>3, <1>6 DEF NoLeakedConnection, NoStrandedWaiter, DrainInv, InAcquire, c
  <2>4. Live' \subseteq Live
      BY <1>2, <1>3, <1>6 DEF Live
  <2> QED
      BY <1>2, <1>6, <2>1, <2>2, <2>3, <2>4, ListsStand
<1>7. CASE /\ ~drained
           /\ waitQueue # <<>>
           /\ waitQueue' = Tail(waitQueue)
           /\ pc' = [pc EXCEPT ![k] = "closed", ![Head(waitQueue)] = "holding"]
           /\ conn' = [conn EXCEPT ![Head(waitQueue)] = c, ![k] = NoConn]
           /\ UNCHANGED <<idle, active>>
  <2> DEFINE h == Head(waitQueue)
             q == Tail(waitQueue)
  <2>1. /\ q \in Seq(Callers) /\ IsInjective(q)
        /\ h \in ToSet(waitQueue) /\ h \in Callers /\ h \notin ToSet(q)
        /\ ToSet(waitQueue) = ToSet(q) \union {h}
      BY <1>1, <1>3, <1>7, TailFacts
  <2> HIDE DEF h, q
  <2>2. /\ waitQueue' = q
        /\ pc' = [pc EXCEPT ![k] = "closed", ![h] = "holding"]
        /\ conn' = [conn EXCEPT ![h] = c, ![k] = NoConn]
      BY <1>7 DEF h, q
  <2>3. pc[h] = "waiting" /\ conn[h] = NoConn /\ h # k
      BY <1>1, <1>2, <2>1 DEF NoStrandedWaiter, TypeOK
  <2>4. /\ pc' \in [Callers -> CallerStages] /\ conn' \in [Callers -> Conns \union {NoConn}]
        /\ pc'[k] = "closed" /\ pc'[h] = "holding" /\ conn'[k] = NoConn /\ conn'[h] = c
        /\ \A j \in Callers : j # k /\ j # h => pc'[j] = pc[j] /\ conn'[j] = conn[j]
      BY <1>3, <2>1, <2>2, <2>3 DEF CallerStages
  <2>5. TypeOK'
    <3>1. ASSUME NEW j \in Callers
          PROVE  conn'[j] # NoConn <=> pc'[j] \in {"validating", "discarding", "holding", "releasing"}
      <4>1. CASE j = k \/ j = h
          BY <1>3, <2>4, <4>1
      <4>2. CASE j # k /\ j # h
          BY <1>1, <2>4, <4>2 DEF TypeOK
      <4> QED
          BY <4>1, <4>2
    <3> QED
        BY <1>1, <1>2, <1>7, <2>1, <2>2, <2>4, <3>1 DEF TypeOK
  <2>6. OneHolderEach'
    <3>1. \A i, j \in Callers : i # j /\ conn'[i] # NoConn => conn'[i] # conn'[j]
        BY <1>1, <1>3, <2>3, <2>4 DEF OneHolderEach
    <3>2. \A j \in Callers : conn'[j] \in active <=> pc'[j] = "holding"
        BY <1>1, <1>3, <2>3, <2>4 DEF OneHolderEach
    <3>3. ASSUME NEW x \in active PROVE \E j \in Callers : conn'[j] = x
      <4>1. PICK j \in Callers : conn[j] = x
          BY <1>1 DEF OneHolderEach
      <4>2. j # h /\ (j = k => x = c)
          BY <1>3, <2>3, <4>1 DEF c
      <4> QED
          BY <2>1, <2>4, <4>1, <4>2
    <3> QED
        BY <1>7, <3>1, <3>2, <3>3 DEF OneHolderEach
  <2>7. ApartFromIdle'
      BY <1>1, <1>2, <1>3, <1>7, <2>1, <2>4 DEF ApartFromIdle
  <2>8. NoLeakedConnection'
      BY <1>1, <1>2, <1>3, <1>7, <2>1, <2>3, <2>4 DEF NoLeakedConnection, InAcquire
  <2>9. NoStrandedWaiter'
      BY <1>1, <1>2, <1>3, <1>7, <2>1, <2>2, <2>3, <2>4, ZenonT(60) DEF NoStrandedWaiter
  <2>10. DrainInv' /\ ClosedBehind'
      BY <1>1, <1>2, <1>7 DEF DrainInv, ClosedBehind
  <2>11. HandlesSuffice'
    <3>1. Live' \subseteq Live
        BY <1>2, <2>1, <2>3, <2>4 DEF Live
    <3> QED
        BY <1>2, <1>5, <1>7, <3>1, NobodyReturns
  <2> QED
      BY <2>1, <2>2, <2>5, <2>6, <2>7, <2>8, <2>9, <2>10, <2>11 DEF IInv
<1>8. CASE /\ ~drained
           /\ waitQueue = <<>>
           /\ active' = active \ {c}
           /\ idle' = Append(idle, c)
           /\ pc' = [pc EXCEPT ![k] = "closed"]
           /\ conn' = [conn EXCEPT ![k] = NoConn]
           /\ UNCHANGED waitQueue
  <2> DEFINE i == Append(idle, c)
  <2>1. /\ i \in Seq(Conns) /\ Len(i) = Len(idle) + 1 /\ IsInjective(i)
        /\ ToSet(i) = ToSet(idle) \union {c}
      BY <1>1, <1>3, AppendFacts DEF ApartFromIdle
  <2> HIDE DEF i
  <2>2. idle' = i
      BY <1>8 DEF i
  <2>3. TypeOK'
      BY <1>1, <1>2, <1>3, <1>8, <2>1, <2>2 DEF TypeOK, CallerStages
  <2>4. OneHolderEach'
      BY <1>1, <1>2, <1>3, <1>8 DEF OneHolderEach
  <2>5. ApartFromIdle'
      BY <1>1, <1>2, <1>3, <1>8, <2>1, <2>2 DEF ApartFromIdle
  <2>6. NoLeakedConnection'
      BY <1>1, <1>2, <1>3, <1>8, <2>1, <2>2 DEF NoLeakedConnection, InAcquire
  <2>7. NoStrandedWaiter' /\ IsInjective(waitQueue')
      BY <1>1, <1>2, <1>3, <1>8 DEF NoStrandedWaiter
  <2>8. DrainInv' /\ ClosedBehind'
      BY <1>1, <1>2, <1>8 DEF DrainInv, ClosedBehind
  <2>9. HandlesSuffice'
    <3>1. Live' = Live \ {k}
        BY <1>2, <1>3, <1>8 DEF Live
    <3> QED
        BY <1>2, <1>4, <2>1, <2>2, <3>1, OneReturns
  <2> QED
      BY <2>3, <2>4, <2>5, <2>6, <2>7, <2>8, <2>9 DEF IInv
<1> QED
    BY <1>6, <1>7, <1>8 DEF Close, c

LEMMA ReleasedKeeps ==
    ASSUME IInv, NEW k \in Callers, Released(k)
    PROVE  IInv'
<1>1. /\ TypeOK /\ OneHolderEach /\ ApartFromIdle /\ NoLeakedConnection /\ NoStrandedWaiter
      /\ DrainInv /\ ClosedBehind /\ IsInjective(waitQueue)
    BY DEF IInv
<1>2. /\ pc[k] = "releasing"
      /\ open' = open \ {conn[k]}
      /\ drainStage' = IF active = {} /\ drainStage = "waiting"
                       THEN "closingDatabase" ELSE drainStage
      /\ pc' = [pc EXCEPT ![k] = "closed"]
      /\ conn' = [conn EXCEPT ![k] = NoConn]
      /\ UNCHANGED <<idle, active, waitQueue, drained, closing, dbOpen, late, lost>>
    BY DEF Released
<1>3. /\ NoConn \notin Conns /\ NoConn \notin active /\ NoConn \notin ToSet(idle)
      /\ pc \in [Callers -> CallerStages] /\ conn \in [Callers -> Conns \union {NoConn}]
      /\ NoConn \notin lost
    BY <1>1, ConfigType DEF TypeOK, ToSet
<1>4. TypeOK'
    BY <1>1, <1>2, <1>3 DEF TypeOK, CallerStages, DrainStages
<1>5. OneHolderEach' /\ ApartFromIdle'
    BY <1>1, <1>2, <1>3 DEF OneHolderEach, ApartFromIdle
<1>6. NoLeakedConnection' /\ NoStrandedWaiter'
    BY <1>1, <1>2, <1>3 DEF NoLeakedConnection, NoStrandedWaiter, InAcquire
<1>7. DrainInv'
  <2>1. active = {} => \A j \in Callers : pc[j] # "holding"
      BY <1>1 DEF OneHolderEach
  <2> QED
      BY <1>1, <1>2, <1>3, <2>1 DEF DrainInv, InAcquire
<1>8. ClosedBehind'
    BY <1>1, <1>2 DEF ClosedBehind
<1>9. HandlesSuffice'
  <2>1. Live' \subseteq Live
      BY <1>2, <1>3 DEF Live
  <2>2. Len(idle') \in Nat /\ Len(idle') <= Len(idle)
      BY <1>1, <1>2 DEF TypeOK
  <2> QED
      BY <1>2, <2>1, <2>2, NobodyReturns
<1> QED
    BY <1>1, <1>2, <1>4, <1>5, <1>6, <1>7, <1>8, <1>9 DEF IInv

\* Both sorts of failing close of the connection in hand.
LEMMA CloseRejectsFacts ==
    ASSUME NEW c, CloseRejects(c)
    PROVE  /\ open' \subseteq open /\ open \subseteq open' \union {c}
           /\ lost \subseteq lost' /\ lost' \subseteq lost \union (open \intersect {c})
           /\ c \in open' => c \in lost'
BY DEF CloseRejects

LEMMA RejectedKeeps ==
    ASSUME IInv, NEW k \in Callers, pc[k] \in {"discarding", "releasing"}, CloseRejects(conn[k]),
           NEW stage \in {"failed", "closeFailed"}, pc' = [pc EXCEPT ![k] = stage],
           conn' = [conn EXCEPT ![k] = NoConn],
           UNCHANGED <<idle, active, waitQueue, drained, drainStage, closing, dbOpen, late>>
    PROVE  IInv'
<1> DEFINE c == conn[k]
<1>1. /\ TypeOK /\ OneHolderEach /\ ApartFromIdle /\ NoLeakedConnection /\ NoStrandedWaiter
      /\ DrainInv /\ ClosedBehind /\ IsInjective(waitQueue)
    BY DEF IInv
<1>2. /\ c \in Conns /\ c \notin ToSet(idle) /\ c \notin active
      /\ \A j \in Callers : j # k => conn[j] # c
      /\ NoConn \notin Conns /\ NoConn \notin ToSet(idle) /\ NoConn \notin active
      /\ pc \in [Callers -> CallerStages] /\ conn \in [Callers -> Conns \union {NoConn}]
    BY <1>1, ConfigType DEF TypeOK, OneHolderEach, ApartFromIdle, ToSet
<1>3. /\ open' \subseteq open /\ open \subseteq open' \union {c}
      /\ lost \subseteq lost' /\ lost' \subseteq lost \union {c}
      /\ c \in open' => c \in lost'
    BY CloseRejectsFacts
<1> HIDE DEF c
<1>4. /\ pc'[k] = stage /\ conn'[k] = NoConn
      /\ \A j \in Callers : j # k => pc'[j] = pc[j] /\ conn'[j] = conn[j]
      /\ pc' \in [Callers -> CallerStages] /\ conn' \in [Callers -> Conns \union {NoConn}]
    BY <1>2 DEF CallerStages
<1>5. TypeOK'
  <2>1. \A j \in Callers :
           conn'[j] # NoConn <=> pc'[j] \in {"validating", "discarding", "holding", "releasing"}
      BY <1>1, <1>4 DEF TypeOK
  <2> QED
      BY <1>1, <1>2, <1>3, <1>4, <2>1 DEF TypeOK
<1>6. OneHolderEach'
    BY <1>1, <1>2, <1>4 DEF OneHolderEach, c
<1>7. ApartFromIdle'
    BY <1>1, <1>2, <1>3, <1>4 DEF ApartFromIdle, TypeOK
<1>8. NoLeakedConnection'
  <2>1. ASSUME NEW x \in open', x # c, x \notin active \union ToSet(idle) \union lost
        PROVE  \E j \in Callers : (InAcquire(j) \/ pc[j] = "releasing") /\ conn[j] = x /\ j # k
      BY <1>1, <1>3, <2>1 DEF NoLeakedConnection, c
  <2> QED
      BY <1>3, <1>4, <2>1 DEF NoLeakedConnection, InAcquire
<1>9. NoStrandedWaiter' /\ DrainInv'
    BY <1>1, <1>4 DEF NoStrandedWaiter, DrainInv, InAcquire
<1>10. ClosedBehind'
    BY <1>1, <1>3 DEF ClosedBehind
<1>11. HandlesSuffice'
  <2>1. k \in Live /\ Live' = Live \ {k}
      BY <1>4 DEF Live
  <2> QED
      BY <1>3, <2>1, OneIsLost
<1> QED
    BY <1>1, <1>5, <1>6, <1>7, <1>8, <1>9, <1>10, <1>11 DEF IInv

LEMMA EvictIdleKeeps ==
    ASSUME IInv, EvictIdle
    PROVE  IInv'
<1>1. /\ TypeOK /\ OneHolderEach /\ ApartFromIdle /\ NoLeakedConnection /\ NoStrandedWaiter
      /\ DrainInv /\ ClosedBehind /\ IsInjective(waitQueue)
    BY DEF IInv
<1>2. /\ ~drained
      /\ UNCHANGED <<active, waitQueue, drained, drainStage, closing, dbOpen, pc, conn, late>>
    BY DEF EvictIdle
<1>3. PICK n \in 1..Len(idle) :
          /\ idle' = SubSeq(idle, n + 1, Len(idle))
          /\ \E left \in SUBSET (open \intersect ToSet(SubSeq(idle, 1, n))) :
                /\ open' = open \ (ToSet(SubSeq(idle, 1, n)) \ left)
                /\ lost' = lost \union left
    BY DEF EvictIdle
<1> DEFINE gone == ToSet(SubSeq(idle, 1, n))
<1>4. PICK left \in SUBSET (open \intersect gone) :
          open' = open \ (gone \ left) /\ lost' = lost \union left
    BY <1>3
<1>5. idle \in Seq(Conns) /\ Len(idle) \in Nat /\ n \in 0..Len(idle) /\ lost \subseteq Conns
    BY <1>1 DEF TypeOK
<1>6. /\ idle' \in Seq(Conns) /\ Len(idle') = Len(idle) - n
      /\ ToSet(idle') \subseteq ToSet(idle) /\ IsInjective(idle')
      /\ \A i \in DOMAIN idle : idle[i] \in gone \union ToSet(idle')
    BY <1>1, <1>3, <1>5, SliceFacts DEF ApartFromIdle
<1>7. /\ gone \subseteq ToSet(idle) /\ gone \intersect ToSet(idle') = {}
      /\ IsFiniteSet(gone) /\ Cardinality(gone) \in Nat /\ Cardinality(gone) <= n
  <2> DEFINE r == SubSeq(idle, 1, n)
             t == SubSeq(idle, n + 1, Len(idle))
  <2>1. /\ r \in Seq(Conns) /\ Len(r) = n /\ DOMAIN r = 1..n /\ \A i \in 1..n : r[i] = idle[i]
        /\ DOMAIN t = 1..(Len(idle) - n) /\ \A i \in 1..(Len(idle) - n) : t[i] = idle[i + n]
        /\ DOMAIN idle = 1..Len(idle)
      BY <1>5
  <2>2. IsFiniteSet(gone) /\ Cardinality(gone) <= n /\ Cardinality(gone) \in Nat
      BY <2>1, SetOfSequence, FS_CardinalityType
  <2> HIDE DEF r, t
  <2>3. gone = ToSet(r) /\ idle' = t
      BY <1>3 DEF r, t
  <2>4. gone \subseteq ToSet(idle)
      BY <1>5, <2>1, <2>3 DEF ToSet
  <2>5. ASSUME NEW i \in DOMAIN r, NEW j \in DOMAIN t PROVE r[i] # t[j]
    <3>1. i \in DOMAIN idle /\ j + n \in DOMAIN idle /\ i # j + n
        BY <1>5, <2>1
    <3> QED
        BY <1>1, <2>1, <3>1 DEF ApartFromIdle, IsInjective
  <2>6. \A x \in ToSet(r) : x \notin ToSet(t)
      BY <2>5 DEF ToSet
  <2>7. gone \intersect ToSet(idle') = {}
      BY <2>3, <2>6
  <2> QED
      BY <2>2, <2>4, <2>7
<1> HIDE DEF gone
<1>8. TypeOK'
    BY <1>1, <1>2, <1>4, <1>5, <1>6 DEF TypeOK
<1>9. OneHolderEach'
    BY <1>1, <1>2 DEF OneHolderEach
<1>10. ApartFromIdle'
    BY <1>1, <1>2, <1>4, <1>6, <1>7 DEF ApartFromIdle
<1>11. NoLeakedConnection'
  <2>1. \A c \in ToSet(idle) : c \in gone \union ToSet(idle')
      BY <1>6 DEF ToSet
  <2> QED
      BY <1>1, <1>2, <1>4, <2>1 DEF NoLeakedConnection, InAcquire
<1>12. NoStrandedWaiter' /\ DrainInv' /\ ClosedBehind'
    BY <1>1, <1>2 DEF NoStrandedWaiter, DrainInv, ClosedBehind, InAcquire
<1>13. HandlesSuffice'
  <2>1. Live' = Live
      BY <1>2 DEF Live
  <2>2. /\ IsFiniteSet(lost) /\ Cardinality(lost) \in Nat /\ Cardinality(Live) \in Nat
        /\ Prewarmed \in Nat /\ Cardinality(Callers) \in Nat
      BY <1>1, LostType, LiveType, ConfigType
  <2>3. IsFiniteSet(left) /\ Cardinality(left) <= n /\ Cardinality(left) \in Nat
    <3>1. left \in SUBSET gone
        BY <1>4
    <3>2. IsFiniteSet(left) /\ Cardinality(left) <= Cardinality(gone)
        BY <1>7, <3>1, FS_Subset
    <3> QED
        BY <1>5, <1>7, <3>2, FS_CardinalityType
  <2>4. Cardinality(lost') \in Nat /\ Cardinality(lost') <= Cardinality(lost) + Cardinality(left)
      BY <1>4, <2>2, <2>3, UnionBound
  <2>5. Len(idle) + Cardinality(lost) + Cardinality(Live) <= Prewarmed + Cardinality(Callers)
      BY DEF IInv, HandlesSuffice
  <2>6. Len(idle') + Cardinality(lost') <= Len(idle) + Cardinality(lost)
      BY <1>5, <1>6, <2>2, <2>3, <2>4
  <2> QED
      BY <1>5, <1>6, <2>1, <2>2, <2>4, <2>5, <2>6 DEF HandlesSuffice
<1> QED
    BY <1>1, <1>2, <1>6, <1>8, <1>9, <1>10, <1>11, <1>12, <1>13 DEF IInv

LEMMA StartDrainKeeps ==
    ASSUME IInv, StartDrain
    PROVE  IInv'
<1>1. /\ TypeOK /\ OneHolderEach /\ ApartFromIdle /\ NoLeakedConnection /\ NoStrandedWaiter
      /\ DrainInv /\ ClosedBehind /\ IsInjective(waitQueue)
    BY DEF IInv
<1>2. /\ drainStage = "none" /\ drained' = TRUE /\ drainStage' = "closingIdle"
      /\ late' = {k \in Callers : InAcquire(k)}
      /\ UNCHANGED <<idle, active, waitQueue, closing, open, dbOpen, pc, conn, lost>>
    BY DEF StartDrain
<1>3. TypeOK' /\ OneHolderEach' /\ ApartFromIdle'
    BY <1>1, <1>2 DEF TypeOK, DrainStages, OneHolderEach, ApartFromIdle
<1>4. NoLeakedConnection' /\ NoStrandedWaiter' /\ DrainInv'
    BY <1>1, <1>2 DEF NoLeakedConnection, NoStrandedWaiter, DrainInv, InAcquire
<1>5. ClosedBehind'
  <2>1. \A i \in DOMAIN idle : i >= 1
      BY <1>1 DEF TypeOK
  <2> QED
      BY <1>1, <1>2, <2>1 DEF ClosedBehind, TypeOK
<1>6. HandlesSuffice'
    BY <1>2 DEF IInv, HandlesSuffice, Live
<1> QED
    BY <1>1, <1>2, <1>3, <1>4, <1>5, <1>6 DEF IInv

LEMMA CloseNextIdleKeeps ==
    ASSUME IInv, CloseNextIdle
    PROVE  IInv'
<1>1. /\ TypeOK /\ OneHolderEach /\ ApartFromIdle /\ NoLeakedConnection /\ NoStrandedWaiter
      /\ DrainInv /\ ClosedBehind /\ IsInjective(waitQueue)
    BY DEF IInv
<1>2. /\ drainStage = "closingIdle" /\ closing <= Len(idle)
      /\ open' = open \ {idle[closing]} /\ closing' = closing + 1
      /\ UNCHANGED <<idle, active, waitQueue, drained, drainStage, dbOpen, pc, conn, late, lost>>
    BY DEF CloseNextIdle
<1>3. TypeOK' /\ OneHolderEach' /\ ApartFromIdle'
    BY <1>1, <1>2 DEF TypeOK, OneHolderEach, ApartFromIdle
<1>4. NoLeakedConnection' /\ NoStrandedWaiter' /\ DrainInv'
    BY <1>1, <1>2 DEF NoLeakedConnection, NoStrandedWaiter, DrainInv, InAcquire
<1>5. ClosedBehind'
  <2>1. closing \in Nat /\ \A i \in DOMAIN idle : i \in Nat
      BY <1>1 DEF TypeOK
  <2>2. ASSUME NEW i \in DOMAIN idle, i < closing + 1 PROVE idle[i] \notin open'
    <3>1. i < closing \/ i = closing
        BY <2>1, <2>2
    <3> QED
        BY <1>1, <1>2, <3>1 DEF ClosedBehind
  <2> QED
      BY <1>1, <1>2, <2>1, <2>2 DEF ClosedBehind
<1>6. HandlesSuffice'
    BY <1>2 DEF IInv, HandlesSuffice, Live
<1> QED
    BY <1>1, <1>2, <1>3, <1>4, <1>5, <1>6 DEF IInv

LEMMA IdleClosedKeeps ==
    ASSUME IInv, IdleClosed
    PROVE  IInv'
<1>1. /\ TypeOK /\ OneHolderEach /\ ApartFromIdle /\ NoLeakedConnection /\ NoStrandedWaiter
      /\ DrainInv /\ ClosedBehind /\ IsInjective(waitQueue)
    BY DEF IInv
<1>2. /\ drainStage = "closingIdle" /\ closing > Len(idle)
      /\ idle' = <<>> /\ waitQueue' = <<>>
      /\ pc' = [k \in Callers |-> IF k \in ToSet(waitQueue) THEN "failed" ELSE pc[k]]
      /\ drainStage' = IF active # {} THEN "waiting" ELSE "closingDatabase"
      /\ UNCHANGED <<active, drained, closing, open, dbOpen, conn, late, lost>>
    BY DEF IdleClosed
<1>3. /\ ToSet(idle') = {} /\ ToSet(waitQueue') = {}
      /\ IsInjective(idle') /\ IsInjective(waitQueue')
      /\ idle' \in Seq(Conns) /\ waitQueue' \in Seq(Callers) /\ Len(idle') = 0
    BY <1>2 DEF ToSet, IsInjective
<1>4. \A k \in Callers : pc'[k] = IF pc[k] = "waiting" THEN "failed" ELSE pc[k]
    BY <1>1, <1>2 DEF NoStrandedWaiter
<1>5. pc' \in [Callers -> CallerStages]
    BY <1>1, <1>2 DEF TypeOK, CallerStages
<1>6. TypeOK'
  <2>1. \A k \in Callers :
           conn'[k] # NoConn <=> pc'[k] \in {"validating", "discarding", "holding", "releasing"}
      BY <1>1, <1>2, <1>4 DEF TypeOK
  <2> QED
      BY <1>1, <1>2, <1>3, <1>5, <2>1 DEF TypeOK, DrainStages
<1>7. OneHolderEach' /\ ApartFromIdle'
    BY <1>1, <1>2, <1>3, <1>4 DEF OneHolderEach, ApartFromIdle
<1>8. NoLeakedConnection'
  <2>1. \A c \in ToSet(idle) : c \notin open
    <3>1. \A i \in DOMAIN idle : i < closing
        BY <1>1, <1>2 DEF TypeOK
    <3> QED
        BY <1>1, <1>2, <3>1 DEF ClosedBehind, ToSet
  <2> QED
      BY <1>1, <1>2, <1>4, <2>1 DEF NoLeakedConnection, InAcquire
<1>9. NoStrandedWaiter'
    BY <1>2, <1>3, <1>4 DEF NoStrandedWaiter
<1>10. DrainInv'
  <2>1. active = {} => \A k \in Callers : pc[k] # "holding"
      BY <1>1 DEF OneHolderEach
  <2> QED
      BY <1>1, <1>2, <1>4, <2>1 DEF DrainInv, InAcquire
<1>11. ClosedBehind'
    BY <1>1, <1>2 DEF ClosedBehind
<1>12. HandlesSuffice'
  <2>1. Live' \subseteq Live
      BY <1>4 DEF Live
  <2>2. Len(idle') \in Nat /\ Len(idle') <= Len(idle)
      BY <1>1, <1>3 DEF TypeOK
  <2> QED
      BY <1>2, <2>1, <2>2, NobodyReturns
<1> QED
    BY <1>3, <1>6, <1>7, <1>8, <1>9, <1>10, <1>11, <1>12 DEF IInv

LEMMA DatabaseClosedKeeps ==
    ASSUME IInv, DatabaseClosed
    PROVE  IInv'
<1>1. /\ TypeOK /\ OneHolderEach /\ ApartFromIdle /\ NoLeakedConnection /\ NoStrandedWaiter
      /\ DrainInv /\ ClosedBehind /\ IsInjective(waitQueue)
    BY DEF IInv
<1>2. /\ drainStage = "closingDatabase" /\ drainStage' = "done" /\ dbOpen' = FALSE
      /\ open' = open \ {FirstConn} /\ lost' = lost \ {FirstConn}
      /\ UNCHANGED <<idle, active, waitQueue, drained, closing, pc, conn, late>>
    BY DEF DatabaseClosed
<1>3. TypeOK' /\ OneHolderEach' /\ ApartFromIdle'
    BY <1>1, <1>2 DEF TypeOK, DrainStages, OneHolderEach, ApartFromIdle
<1>4. NoLeakedConnection' /\ NoStrandedWaiter'
    BY <1>1, <1>2 DEF NoLeakedConnection, NoStrandedWaiter, InAcquire
<1>5. DrainInv' /\ ClosedBehind'
    BY <1>1, <1>2 DEF DrainInv, ClosedBehind, InAcquire
<1>6. HandlesSuffice'
  <2>1. Live' \subseteq Live /\ lost' \subseteq lost
      BY <1>2 DEF Live
  <2> QED
      BY <1>1, <1>2, <2>1, NobodyReturns DEF TypeOK
<1> QED
    BY <1>1, <1>2, <1>3, <1>4, <1>5, <1>6 DEF IInv

LEMMA DatabaseCloseFailsKeeps ==
    ASSUME IInv, DatabaseCloseFails
    PROVE  IInv'
<1>1. /\ TypeOK /\ OneHolderEach /\ ApartFromIdle /\ NoLeakedConnection /\ NoStrandedWaiter
      /\ DrainInv /\ ClosedBehind /\ IsInjective(waitQueue)
    BY DEF IInv
<1>2. /\ drainStage = "closingDatabase" /\ drainStage' = "failed" /\ dbOpen' \in BOOLEAN
      /\ open' \subseteq open /\ lost' \subseteq lost
      /\ open \subseteq open' \union {FirstConn} /\ lost \subseteq lost' \union {FirstConn}
      /\ FirstConn \in open' => (FirstConn \in lost <=> FirstConn \in lost')
      /\ UNCHANGED <<idle, active, waitQueue, drained, closing, pc, conn, late>>
    BY DEF DatabaseCloseFails
<1>3. TypeOK' /\ OneHolderEach' /\ ApartFromIdle'
    BY <1>1, <1>2 DEF TypeOK, DrainStages, OneHolderEach, ApartFromIdle
<1>4. NoLeakedConnection' /\ NoStrandedWaiter'
    BY <1>1, <1>2 DEF NoLeakedConnection, NoStrandedWaiter, InAcquire
<1>5. DrainInv' /\ ClosedBehind'
    BY <1>1, <1>2 DEF DrainInv, ClosedBehind, InAcquire
<1>6. HandlesSuffice'
  <2>1. Live' \subseteq Live /\ lost' \subseteq lost
      BY <1>2 DEF Live
  <2> QED
      BY <1>1, <1>2, <2>1, NobodyReturns DEF TypeOK
<1> QED
    BY <1>1, <1>2, <1>3, <1>4, <1>5, <1>6 DEF IInv

LEMMA CloseIdleRejectedKeeps ==
    ASSUME IInv, CloseIdleRejected
    PROVE  IInv'
<1>1. /\ TypeOK /\ OneHolderEach /\ ApartFromIdle /\ NoLeakedConnection /\ NoStrandedWaiter
      /\ DrainInv /\ ClosedBehind /\ IsInjective(waitQueue)
    BY DEF IInv
<1>2. /\ drainStage = "closingIdle" /\ drainStage' = "failed" /\ open' \subseteq open
      /\ UNCHANGED <<idle, active, waitQueue, drained, closing, dbOpen, pc, conn, late, lost>>
    BY DEF CloseIdleRejected
<1>3. TypeOK' /\ OneHolderEach' /\ ApartFromIdle'
    BY <1>1, <1>2 DEF TypeOK, DrainStages, OneHolderEach, ApartFromIdle
<1>4. NoLeakedConnection' /\ NoStrandedWaiter' /\ DrainInv'
    BY <1>1, <1>2 DEF NoLeakedConnection, NoStrandedWaiter, DrainInv, InAcquire
<1>5. ClosedBehind'
    BY <1>1, <1>2 DEF ClosedBehind
<1>6. HandlesSuffice'
    BY <1>2 DEF IInv, HandlesSuffice, Live
<1> QED
    BY <1>1, <1>2, <1>3, <1>4, <1>5, <1>6 DEF IInv

LEMMA StutterKeeps ==
    ASSUME IInv, UNCHANGED vars
    PROVE  IInv'
<1>1. UNCHANGED <<idle, active, waitQueue, drained, drainStage, closing, open, dbOpen,
                  pc, conn, late, lost>>
    BY DEF vars
<1>2. TypeOK' /\ OneHolderEach' /\ ApartFromIdle'
    BY <1>1 DEF IInv, TypeOK, OneHolderEach, ApartFromIdle
<1>3. NoLeakedConnection' /\ NoStrandedWaiter' /\ DrainInv' /\ ClosedBehind'
    BY <1>1 DEF IInv, NoLeakedConnection, NoStrandedWaiter, DrainInv, ClosedBehind, InAcquire
<1>4. HandlesSuffice' /\ IsInjective(waitQueue')
    BY <1>1 DEF IInv, HandlesSuffice, Live
<1> QED
    BY <1>2, <1>3, <1>4 DEF IInv

LEMMA StepIInv == IInv /\ [Next]_vars => IInv'
<1> SUFFICES ASSUME IInv, [Next]_vars PROVE IInv'
    OBVIOUS
<1>1. ASSUME NEW k \in Callers,
             \/ Acquire(k) \/ Validated(k) \/ ValidationFailed(k) \/ Discarded(k)
             \/ Created(k) \/ CreationFailed(k) \/ WaitTimeout(k)
             \/ Close(k) \/ Released(k)
      PROVE  IInv'
    BY <1>1, AcquireKeeps, ValidatedKeeps, ValidationFailedKeeps, DiscardedKeeps,
       CreatedKeeps, CreationFailedKeeps, WaitTimeoutKeeps, CloseKeeps, ReleasedKeeps
<1>2. ASSUME NEW k \in Callers, DiscardRejected(k) \/ ReleaseRejected(k)
      PROVE  IInv'
    BY <1>2, RejectedKeeps DEF DiscardRejected, ReleaseRejected
<1>3. CASE \/ EvictIdle \/ StartDrain \/ CloseNextIdle \/ IdleClosed \/ DatabaseClosed
           \/ CloseIdleRejected \/ DatabaseCloseFails
    BY <1>3, EvictIdleKeeps, StartDrainKeeps, CloseNextIdleKeeps, IdleClosedKeeps,
       DatabaseClosedKeeps, CloseIdleRejectedKeeps, DatabaseCloseFailsKeeps
<1> QED
    BY <1>1, <1>2, <1>3, StutterKeeps DEF Next

-----------------------------------------------------------------------------
\* Every reachable state of the pool satisfies the inductive invariant.
THEOREM Invariance == Spec => []IInv
BY InitIInv, StepIInv, PTL DEF Spec

LEMMA HoldersOf ==
    ASSUME IInv, NEW c \in Conns
    PROVE  Cardinality(Holders(c)) = IF c \in active THEN 1 ELSE 0
<1>1. /\ \A j, k \in Callers : j # k /\ conn[j] # NoConn => conn[j] # conn[k]
      /\ \A k \in Callers : conn[k] \in active <=> pc[k] = "holding"
      /\ c # NoConn /\ (c \in active => \E k \in Callers : conn[k] = c)
    BY ConfigType DEF IInv, OneHolderEach
<1>2. CASE c \in active
  <2>1. PICK k \in Callers : conn[k] = c
      BY <1>1, <1>2
  <2>2. Holders(c) = {k}
      BY <1>1, <1>2, <2>1 DEF Holders
  <2> QED
      BY <1>2, <2>2, FS_Singleton
<1>3. CASE c \notin active
  <2>1. Holders(c) = {}
      BY <1>1, <1>3 DEF Holders
  <2> QED
      BY <1>3, <2>1, FS_EmptySet
<1> QED
    BY <1>2, <1>3

LEMMA IInvImpliesSound == IInv => PoolSound
<1> SUFFICES ASSUME IInv PROVE PoolSound
    OBVIOUS
<1>1. TypeOK /\ OneHolderEach /\ ApartFromIdle /\ DrainInv
    BY DEF IInv
<1>2. ExclusiveConnections
  <2>1. \A i, j \in DOMAIN idle : i # j => idle[i] # idle[j]
      BY <1>1 DEF ApartFromIdle, IsInjective
  <2>2. active \intersect ToSet(idle) = {} /\ lost \intersect (active \union ToSet(idle)) = {}
      BY <1>1 DEF OneHolderEach, ApartFromIdle
  <2>3. ASSUME NEW c \in Conns, NEW k \in Callers,
               pc[k] \in {"validating", "discarding"}, conn[k] = c
        PROVE  /\ c \notin active \union ToSet(idle)
               /\ \A j \in Callers \ {k} : InAcquire(j) => conn[j] # c
      BY <1>1, <2>3, ConfigType DEF OneHolderEach, ApartFromIdle
  <2> QED
      BY <2>1, <2>2, <2>3, HoldersOf DEF ExclusiveConnections
<1>3. DrainSparesHolders
    BY <1>1 DEF DrainInv, DrainSparesHolders
<1> QED
    BY <1>2, <1>3 DEF IInv, PoolSound

\* However acquire(), release(), the eviction timer and drain() interleave, and
\* whichever closes reject, no connection is shared, closed under its user or
\* lost without a failed close, and no caller of acquire() waits for a wakeup
\* that will not come.
THEOREM PoolStaysSound == Spec => []PoolSound
BY Invariance, IInvImpliesSound, PTL

-----------------------------------------------------------------------------
\* The things a step may do to the queue.
LEMMA EnqueueKeepsOrder ==
    ASSUME NEW q \in Seq(Callers), NEW k \in Callers, k \notin ToSet(q),
           NEW a \in ToSet(q), NEW b \in Callers, Ahead(Append(q, k), b, a)
    PROVE  Ahead(q, b, a)
<1> DEFINE t == Append(q, k)
<1>1. /\ \A i \in DOMAIN q : i \in DOMAIN t /\ t[i] = q[i]
      /\ \A i \in DOMAIN t : i \notin DOMAIN q => t[i] = k
      /\ \A i, j \in DOMAIN t : i < j => i \in DOMAIN q
    BY AppendFacts
<1> HIDE DEF t
<1>2. PICK i, j \in DOMAIN t : i < j /\ t[i] = b /\ t[j] = a
    BY DEF Ahead, t
<1>3. i \in DOMAIN q /\ j \in DOMAIN q
    BY <1>1, <1>2
<1> QED
    BY <1>1, <1>2, <1>3 DEF Ahead

LEMMA RemovalKeepsOrder ==
    ASSUME NEW q \in Seq(Callers), NEW n \in DOMAIN q, NEW a, NEW b,
           Ahead(RemoveAt(q, n), b, a)
    PROVE  Ahead(q, b, a)
<1> DEFINE t == RemoveAt(q, n)
           from(i) == IF i < n THEN i ELSE i + 1
<1>1. t \in Seq(Callers) /\ \A i \in DOMAIN t : from(i) \in DOMAIN q /\ t[i] = q[from(i)]
    BY RemoveAtFacts
<1> HIDE DEF t
<1>2. PICK i, j \in DOMAIN t : i < j /\ t[i] = b /\ t[j] = a
    BY DEF Ahead, t
<1>3. from(i) < from(j)
  <2>1. i \in Nat /\ j \in Nat /\ n \in Nat
      BY <1>1, <1>2
  <2> QED
      BY <1>2, <2>1
<1> HIDE DEF from
<1> QED
    BY <1>1, <1>2, <1>3 DEF Ahead

LEMMA HandOverKeepsOrder ==
    ASSUME NEW q \in Seq(Callers), q # <<>>, NEW a, NEW b, Ahead(Tail(q), b, a)
    PROVE  Ahead(q, b, a)
<1> DEFINE t == Tail(q)
<1>1. t \in Seq(Callers) /\ \A i \in DOMAIN t : i + 1 \in DOMAIN q /\ t[i] = q[i + 1]
    BY TailFacts
<1> HIDE DEF t
<1>2. PICK i, j \in DOMAIN t : i < j /\ t[i] = b /\ t[j] = a
    BY DEF Ahead, t
<1>3. i + 1 < j + 1
    BY <1>1, <1>2
<1> QED
    BY <1>1, <1>2, <1>3 DEF Ahead

LEMMA HeadIsAhead ==
    ASSUME NEW q \in Seq(Callers), NEW a \in ToSet(q), a # Head(q)
    PROVE  Ahead(q, Head(q), a)
<1>1. PICK i \in DOMAIN q : q[i] = a
    BY DEF ToSet
<1>2. i # 1 /\ 1 \in DOMAIN q /\ q[1] = Head(q) /\ 1 < i
    BY <1>1
<1> QED
    BY <1>1, <1>2 DEF Ahead

\* Of the steps only Close() gives a waiter a connection, and to the first.
LEMMA NextConnectionOvertakesNobody ==
    ASSUME IInv, NEW k \in Callers, pc[k] \in {"start", "discarding"}, NextConnection(k)
    PROVE  NobodyOvertakes
<1>1. /\ waitQueue \in Seq(Callers) /\ pc \in [Callers -> CallerStages] /\ k \notin ToSet(waitQueue)
    BY DEF IInv, TypeOK, NoStrandedWaiter
<1>2. \A b \in Callers : ~(pc[b] = "waiting" /\ pc'[b] = "holding")
    BY <1>1 DEF NextConnection
<1>3. waitQueue' = waitQueue \/ waitQueue' = Append(waitQueue, k)
    BY DEF NextConnection
<1> QED
    BY <1>1, <1>2, <1>3, EnqueueKeepsOrder DEF NobodyOvertakes

LEMMA StepOvertakesNobody == IInv /\ [Next]_vars => [NobodyOvertakes]_vars
<1> SUFFICES ASSUME IInv, Next PROVE NobodyOvertakes
    OBVIOUS
<1>1. /\ waitQueue \in Seq(Callers) /\ pc \in [Callers -> CallerStages]
      /\ \A j \in Callers : pc[j] = "waiting" <=> j \in ToSet(waitQueue)
    BY DEF IInv, TypeOK, NoStrandedWaiter
<1>2. ASSUME waitQueue' = waitQueue, \A b \in Callers : pc[b] = "waiting" => pc'[b] # "holding"
      PROVE  NobodyOvertakes
    BY <1>2 DEF NobodyOvertakes
<1>3. ASSUME NEW k \in Callers, Acquire(k) PROVE NobodyOvertakes
    BY <1>1, <1>2, <1>3, NextConnectionOvertakesNobody DEF Acquire
<1>4. ASSUME NEW k \in Callers, Discarded(k) PROVE NobodyOvertakes
    BY <1>4, NextConnectionOvertakesNobody DEF Discarded
<1>5. ASSUME NEW k \in Callers, Validated(k) \/ ValidationFailed(k) PROVE NobodyOvertakes
    BY <1>1, <1>2, <1>5 DEF Validated, ValidationFailed
<1>6. ASSUME NEW k \in Callers, Created(k) \/ CreationFailed(k) PROVE NobodyOvertakes
    BY <1>1, <1>2, <1>6 DEF Created, CreationFailed
<1>7. ASSUME NEW k \in Callers, WaitTimeout(k) PROVE NobodyOvertakes
  <2>1. PICK i \in DOMAIN waitQueue : waitQueue' = RemoveAt(waitQueue, i)
      BY <1>7 DEF WaitTimeout
  <2>2. \A b \in Callers : pc[b] = "waiting" => pc'[b] # "holding"
      BY <1>1, <1>7 DEF WaitTimeout
  <2> QED
      BY <1>1, <2>1, <2>2, RemovalKeepsOrder DEF NobodyOvertakes
<1>8. ASSUME NEW k \in Callers, Close(k) PROVE NobodyOvertakes
  <2>1. pc[k] = "holding"
      BY <1>8 DEF Close
  <2>2. CASE waitQueue' = waitQueue /\ pc' \in {[pc EXCEPT ![k] = "releasing"], [pc EXCEPT ![k] = "closed"]}
      BY <1>1, <1>2, <2>2
  <2>3. CASE /\ waitQueue # <<>> /\ waitQueue' = Tail(waitQueue)
             /\ pc' = [pc EXCEPT ![k] = "closed", ![Head(waitQueue)] = "holding"]
    <3>1. \A b \in Callers : pc[b] = "waiting" /\ pc'[b] = "holding" => b = Head(waitQueue)
        BY <1>1, <2>1, <2>3
    <3> QED
        BY <1>1, <2>3, <3>1, HandOverKeepsOrder, HeadIsAhead DEF NobodyOvertakes
  <2> QED
      BY <1>8, <2>2, <2>3 DEF Close
<1>9. ASSUME NEW k \in Callers, Released(k) \/ DiscardRejected(k) \/ ReleaseRejected(k)
      PROVE  NobodyOvertakes
    BY <1>1, <1>2, <1>9 DEF Released, DiscardRejected, ReleaseRejected
<1>10. CASE \/ EvictIdle \/ StartDrain \/ CloseNextIdle \/ DatabaseClosed
            \/ CloseIdleRejected \/ DatabaseCloseFails
    BY <1>2, <1>10 DEF EvictIdle, StartDrain, CloseNextIdle, DatabaseClosed,
       CloseIdleRejected, DatabaseCloseFails
<1>11. CASE IdleClosed
  <2>1. waitQueue' = <<>> /\ \A b \in Callers : pc[b] = "waiting" => pc'[b] # "holding"
      BY <1>1, <1>11 DEF IdleClosed
  <2> QED
      BY <2>1 DEF NobodyOvertakes, Ahead
<1> QED
    BY <1>3, <1>4, <1>5, <1>6, <1>7, <1>8, <1>9, <1>10, <1>11 DEF Next

\* Waiters are served in the order in which they came, whatever times out,
\* fails or drains meanwhile.
THEOREM WaitersServedInOrder == Spec => FifoHandOver
BY Invariance, StepOvertakesNobody, PTL DEF Spec, FifoHandOver
=============================================================================
