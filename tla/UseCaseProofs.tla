--------------------------- MODULE UseCaseProofs ---------------------------
(***************************************************************************)
(* Proofs about the query use cases, for every set of graphs and of        *)
(* questions: what the tools answer is true of the graph, agrees, and is   *)
(* given to every question the validator lets through; a rename plan       *)
(* matches the impact that is announced; and a slice of a context keeps    *)
(* within its budget.  And about the export, for every table and page      *)
(* size: what it reads page by page is the whole table.                    *)
(***************************************************************************)
EXTENDS UseCases, TableReader, FiniteSetTheorems, SequenceTheorems, TLAPS

-----------------------------------------------------------------------------
(* Numbers, and functions defined by recursion over them                   *)

\* Every nonempty set of natural numbers has a least element.
LEMMA Least ==
    ASSUME NEW T \in SUBSET Nat, T # {}
    PROVE  \E n \in T : \A m \in T : n <= m
<1>1. PICK n0 \in T : TRUE
    OBVIOUS
<1>. DEFINE S == 0..n0
            U == {0..n : n \in {k \in T : k <= n0}}
<1>2. IsWellFoundedOn(StrictSubsetOrdering(S), FiniteSubsetsOf(S))
    BY FS_StrictSubsetOrderingWellFounded
<1>3. U \subseteq FiniteSubsetsOf(S)
  <2>. SUFFICES ASSUME NEW n \in T, n <= n0
                PROVE  0..n \in FiniteSubsetsOf(S)
      OBVIOUS
  <2>1. n \in Nat /\ n0 \in Nat
      BY <1>1
  <2>2. 0..n \subseteq S
      BY <2>1
  <2>3. IsFiniteSet(0..n)
      BY <2>1, FS_Interval
  <2>. QED BY <2>2, <2>3 DEF FiniteSubsetsOf
<1>4. 0..n0 \in U
    BY <1>1
<1>5. \E x \in U : \A y \in U : <<y, x>> \notin StrictSubsetOrdering(S)
  <2>. HIDE DEF U, S
  <2>. QED BY <1>2, <1>3, <1>4, WFMin
<1>6. PICK n \in T : n <= n0 /\ \A m \in T : m <= n0 => <<0..m, 0..n>> \notin StrictSubsetOrdering(S)
    BY <1>5
<1>7. \A m \in T : m < n => <<0..m, 0..n>> \in StrictSubsetOrdering(S)
  <2>. TAKE m \in T
  <2>. HAVE m < n
  <2>1. m \in Nat /\ n \in Nat /\ n0 \in Nat /\ n <= n0
    BY <1>6
  <2>2. 0..m \in SUBSET S /\ 0..n \in SUBSET S /\ 0..m \subseteq 0..n
    BY <2>1
  <2>3. n \in 0..n /\ n \notin 0..m
    BY <2>1
  <2>. QED BY <2>2, <2>3 DEF StrictSubsetOrdering
<1>8. \A m \in T : n <= m
  <2>. TAKE m \in T
  <2>1. m \in Nat /\ n \in Nat /\ n0 \in Nat /\ n <= n0
      BY <1>6
  <2>2. CASE m < n
    <3>1. m <= n0
        BY <2>1, <2>2
    <3>. HIDE DEF S
    <3>2. <<0..m, 0..n>> \in StrictSubsetOrdering(S)
        BY <2>2, <1>7
    <3>. QED BY <3>1, <3>2, <1>6
  <2>. QED BY <2>1, <2>2
<1>. QED
    BY <1>8

\* A set with zero and every successor has every natural number.
LEMMA SetInduction ==
    ASSUME NEW T \in SUBSET Nat, 0 \in T, \A n \in T : n + 1 \in T
    PROVE  T = Nat
<1>. SUFFICES ASSUME Nat \ T # {} PROVE FALSE
    OBVIOUS
<1>1. PICK n \in Nat \ T : \A m \in Nat \ T : n <= m
  <2>. DEFINE U == Nat \ T
  <2>1. U \in SUBSET Nat /\ U # {}
    OBVIOUS
  <2>. HIDE DEF U
  <2>2. \E n \in U : \A m \in U : n <= m
    BY <2>1, Least
  <2>. QED BY <2>2 DEF U
<1>2. n # 0 /\ n - 1 \in Nat /\ n - 1 \in T
    BY <1>1
<1>3. (n - 1) + 1 = n
    BY <1>1
<1>. QED
    BY <1>2, <1>3, <1>1

\* Min() is the least element.
LEMMA MinIsLeast ==
    ASSUME NEW T \in SUBSET Nat, T # {}
    PROVE  Min(T) \in T /\ \A m \in T : Min(T) <= m
BY Least DEF Min

LEMMA MinOfTwo ==
    ASSUME NEW m \in Int, NEW n \in Int
    PROVE  Min({m, n}) = IF m <= n THEN m ELSE n
<1>1. \E x \in {m, n} : \A y \in {m, n} : x <= y
    OBVIOUS
<1>2. Min({m, n}) \in {m, n} /\ \A y \in {m, n} : Min({m, n}) <= y
    BY <1>1 DEF Min
<1>. QED BY <1>2

LEMMA MaxOfTwo ==
    ASSUME NEW m \in Int, NEW n \in Int
    PROVE  Max({m, n}) = IF m >= n THEN m ELSE n
<1>1. \E x \in {m, n} : \A y \in {m, n} : x >= y
    OBVIOUS
<1>2. Max({m, n}) \in {m, n} /\ \A y \in {m, n} : Max({m, n}) >= y
    BY <1>1 DEF Max
<1>. QED BY <1>2

\* A value and a function that makes the next one of the last determine a
\* table of any length.
LEMMA Table ==
    ASSUME NEW S, NEW a \in S, NEW F \in [Nat -> [S -> S]], NEW n \in Nat
    PROVE  \E f \in [0..n -> S] : f[0] = a /\ \A k \in 1..n : f[k] = F[k][f[k - 1]]
<1>. DEFINE Has(m) == \E f \in [0..m -> S] : f[0] = a /\ \A k \in 1..m : f[k] = F[k][f[k - 1]]
            T == {m \in Nat : Has(m)}
<1>1. 0 \in T
  <2>. DEFINE f == [k \in 0..0 |-> a]
  <2>1. f \in [0..0 -> S] /\ f[0] = a /\ 1..0 = {}
      OBVIOUS
  <2>. QED BY <2>1
<1>2. ASSUME NEW m \in T PROVE m + 1 \in T
  <2>1. PICK f \in [0..m -> S] : f[0] = a /\ \A k \in 1..m : f[k] = F[k][f[k - 1]]
      OBVIOUS
  <2>. DEFINE h == [k \in 0..(m + 1) |-> IF k \in 0..m THEN f[k] ELSE F[k][f[m]]]
  <2>2. m \in Nat /\ f[m] \in S
      OBVIOUS
  <2>3. h \in [0..(m + 1) -> S]
    <3>. SUFFICES ASSUME NEW k \in 0..(m + 1) PROVE h[k] \in S
        OBVIOUS
    <3>1. F[k][f[m]] \in S
        BY <2>2
    <3>. QED BY <3>1, <2>1
  <2>4. h[0] = a
      BY <2>1, <2>2
  <2>5. ASSUME NEW k \in 1..(m + 1) PROVE h[k] = F[k][h[k - 1]]
    <3>1. CASE k \in 1..m
      <4>1. k \in 0..m /\ k - 1 \in 0..m /\ k - 1 \in 0..(m + 1)
          BY <3>1, <2>2
      <4>2. h[k] = f[k] /\ h[k - 1] = f[k - 1]
          BY <4>1
      <4>. QED BY <4>2, <2>1, <3>1
    <3>2. CASE k = m + 1
      <4>1. k \notin 0..m /\ k - 1 = m /\ m \in 0..m /\ m \in 0..(m + 1)
          BY <3>2, <2>2
      <4>2. h[k] = F[k][f[m]] /\ h[k - 1] = f[m]
          BY <4>1
      <4>. QED BY <4>2
    <3>. QED BY <3>1, <3>2, <2>2
  <2>6. Has(m + 1)
    <3>. HIDE DEF h
    <3>. QED BY <2>3, <2>4, <2>5
  <2>. HIDE DEF Has
  <2>. QED BY <2>2, <2>6
<1>3. T \in SUBSET Nat
    OBVIOUS
<1>. HIDE DEF T
<1>4. T = Nat
    BY <1>1, <1>2, <1>3, SetInduction
<1>. QED BY <1>4 DEF T

-----------------------------------------------------------------------------
(* Those that depend on a symbol                                           *)

LEMMA BeforeAndAfter ==
    ASSUME NEW E, NEW A, NEW s, NEW t \in A
    PROVE  /\ <<s, t>> \in E => s \in Before(E, A)
           /\ <<t, s>> \in E => s \in After(E, A)
           /\ s \in Before(E, A) => \E x \in A : <<s, x>> \in E
           /\ s \in After(E, A) => \E x \in A : <<x, s>> \in E
BY DEF Before, After

\* What Dependents() computes: the callers, and level after level theirs.
Levels(g, A, d) ==
    CHOOSE up : up = [k \in 1..d |-> IF k = 1 THEN Before(g.edges["calls"], A)
                                    ELSE up[k - 1] \union Before(g.edges["calls"], up[k - 1])]

LEMMA DependentsLevels ==
    ASSUME NEW g, NEW A, NEW d \in Nat \ {0}
    PROVE  /\ Dependents(g, A, d) = Levels(g, A, d)[d]
           /\ Levels(g, A, d)[1] = Before(g.edges["calls"], A)
           /\ \A k \in 2..d : Levels(g, A, d)[k] =
                  Levels(g, A, d)[k - 1] \union Before(g.edges["calls"], Levels(g, A, d)[k - 1])
<1>. DEFINE E == g.edges["calls"]
            S == SUBSET {e[1] : e \in E}
            F == [k \in Nat |-> [B \in S |-> B \union Before(E, B)]]
            G(f) == [k \in 1..d |-> IF k = 1 THEN Before(g.edges["calls"], A)
                                    ELSE f[k - 1] \union Before(g.edges["calls"], f[k - 1])]
            up == Levels(g, A, d)
<1>1. \A B : Before(E, B) \in S
    BY DEF Before
<1>2. F \in [Nat -> [S -> S]]
  <2>1. ASSUME NEW B \in S PROVE B \union Before(E, B) \in S
      BY <1>1
  <2>. QED BY <2>1
<1>3. PICK f \in [0..(d - 1) -> S] :
          f[0] = Before(E, A) /\ \A k \in 1..(d - 1) : f[k] = F[k][f[k - 1]]
  <2>. DEFINE a == Before(E, A)
              n == d - 1
  <2>1. n \in Nat /\ a \in S
      BY <1>1
  <2>2. \E f \in [0..n -> S] : f[0] = a /\ \A k \in 1..n : f[k] = F[k][f[k - 1]]
    <3>. HIDE DEF F, S, E, a, n
    <3>. QED BY <1>2, <2>1, Table, SMTT(40)
  <2>. QED BY <2>2
<1>. DEFINE h == [k \in 1..d |-> f[k - 1]]
<1>4. h = G(h)
  <2>. SUFFICES ASSUME NEW k \in 1..d
                PROVE  h[k] = IF k = 1 THEN Before(g.edges["calls"], A)
                              ELSE h[k - 1] \union Before(g.edges["calls"], h[k - 1])
      BY ZenonT(40)
  <2>1. CASE k = 1
      BY <2>1, <1>3
  <2>2. CASE k # 1
    <3>1. k - 1 \in 1..d /\ k - 1 \in 1..(d - 1) /\ (k - 1) - 1 \in 0..(d - 1) /\ k - 1 \in Nat
        BY <2>2
    <3>2. f[k - 1] = F[k - 1][f[(k - 1) - 1]]
        BY <3>1, <1>3
    <3>3. f[(k - 1) - 1] \in S
        BY <3>1
    <3>4. f[k - 1] = f[(k - 1) - 1] \union Before(E, f[(k - 1) - 1])
        BY <3>2, <3>3
    <3>. QED BY <3>1, <3>4, <2>2
  <2>. QED BY <2>1, <2>2
<1>5. up = G(up)
  <2>1. up = CHOOSE u : u = G(u)
      BY DEF Levels
  <2>. HIDE DEF h, G, up
  <2>. QED BY <1>4, <2>1
<1>6. Dependents(g, A, d) = up[d]
    BY DEF Dependents, Levels
<1>. HIDE DEF up
<1>7. 1 \in 1..d
    OBVIOUS
<1>8. up[1] = Before(E, A)
    BY <1>5, <1>7
<1>9. ASSUME NEW k \in 2..d PROVE up[k] = up[k - 1] \union Before(E, up[k - 1])
  <2>1. k \in 1..d /\ k # 1
      OBVIOUS
  <2>. QED BY <1>5, <2>1
<1>. QED BY <1>6, <1>8, <1>9 DEF up

\* The ways of n symbols from s to t along edges.
Walks(E, V, n, s, t) ==
    {p \in [1..n -> V] : p[1] = s /\ p[n] = t /\ \A i \in 1..(n - 1) : <<p[i], p[i + 1]>> \in E}

LEMMA WalkPrepended ==
    ASSUME NEW E, NEW V, NEW n \in Nat \ {0}, NEW s \in V, NEW x, NEW t, NEW p \in Walks(E, V, n, x, t), <<s, x>> \in E
    PROVE  \E q \in Walks(E, V, n + 1, s, t) : TRUE
<1>. DEFINE q == [i \in 1..(n + 1) |-> IF i = 1 THEN s ELSE p[i - 1]]
<1>1. p \in [1..n -> V] /\ p[1] = x /\ p[n] = t /\ \A i \in 1..(n - 1) : <<p[i], p[i + 1]>> \in E
    BY DEF Walks
<1>2. q \in [1..(n + 1) -> V]
  <2>. SUFFICES ASSUME NEW i \in 1..(n + 1), i # 1 PROVE p[i - 1] \in V
      OBVIOUS
  <2>1. i - 1 \in 1..n
      OBVIOUS
  <2>. QED BY <2>1, <1>1
<1>3. q[1] = s /\ q[n + 1] = t
  <2>1. 1 \in 1..(n + 1) /\ n + 1 \in 1..(n + 1) /\ n + 1 # 1 /\ (n + 1) - 1 = n
      OBVIOUS
  <2>. QED BY <2>1, <1>1
<1>4. ASSUME NEW i \in 1..((n + 1) - 1) PROVE <<q[i], q[i + 1]>> \in E
  <2>1. i \in 1..(n + 1) /\ i + 1 \in 1..(n + 1) /\ i + 1 # 1 /\ (i + 1) - 1 = i
      OBVIOUS
  <2>2. q[i + 1] = p[i]
      BY <2>1
  <2>3. CASE i = 1
      BY <2>1, <2>2, <2>3, <1>1
  <2>4. CASE i # 1
    <3>1. i - 1 \in 1..(n - 1) /\ (i - 1) + 1 = i
        BY <2>4
    <3>2. q[i] = p[i - 1]
        BY <2>1, <2>4
    <3>3. <<p[i - 1], p[(i - 1) + 1]>> \in E
        BY <3>1, <1>1
    <3>. QED BY <3>1, <3>2, <3>3, <2>2
  <2>. QED BY <2>3, <2>4
<1>. HIDE DEF q
<1>5. q \in Walks(E, V, n + 1, s, t)
    BY <1>2, <1>3, <1>4 DEF Walks
<1>. QED BY <1>5

\* Those that depend on something at some depth are those that call it, those
\* that call these, and nobody else.
LEMMA DependentsBounds ==
    ASSUME NEW g, NEW A, NEW d \in Nat \ {0}
    PROVE  /\ Before(g.edges["calls"], A) \subseteq Dependents(g, A, d)
           /\ d = 1 => Dependents(g, A, d) = Before(g.edges["calls"], A)
           /\ Before(g.edges["calls"], A) = {} => Dependents(g, A, d) = {}
           /\ Dependents(g, A, d) \subseteq {e[1] : e \in g.edges["calls"]}
<1>. DEFINE E == g.edges["calls"]
<1>. DEFINE up == Levels(g, A, d)
<1>1. /\ Dependents(g, A, d) = up[d]
      /\ up[1] = Before(E, A)
      /\ \A k \in 2..d : up[k] = up[k - 1] \union Before(E, up[k - 1])
    BY DependentsLevels
<1>. HIDE DEF up
<1>. DEFINE Bounded(k) == /\ Before(E, A) \subseteq up[k]
                          /\ Before(E, A) = {} => up[k] = {}
                          /\ up[k] \subseteq {e[1] : e \in E}
            T == {k \in Nat : k + 1 \in 1..d => Bounded(k + 1)}
<1>2. 0 \in T
  <2>1. 0 + 1 = 1 /\ Bounded(1)
      BY <1>1 DEF Before
  <2>. HIDE DEF Bounded
  <2>. QED BY <2>1
<1>3. ASSUME NEW k \in T PROVE k + 1 \in T
  <2>. SUFFICES ASSUME (k + 1) + 1 \in 1..d PROVE Bounded((k + 1) + 1)
      OBVIOUS
  <2>. DEFINE m == k + 1
  <2>1. m \in 1..d /\ Bounded(m) /\ m + 1 \in 2..d /\ (m + 1) - 1 = m
    <3>. HIDE DEF Bounded
    <3>. QED OBVIOUS
  <2>. HIDE DEF m
  <2>2. up[m + 1] = up[m] \union Before(E, up[m])
      BY <2>1, <1>1
  <2>3. Before(E, up[m]) \subseteq {e[1] : e \in E} /\ Before(E, {}) = {}
      BY DEF Before
  <2>4. Bounded(m + 1)
      BY <2>1, <2>2, <2>3
  <2>. QED BY <2>4 DEF m
<1>4. T = Nat
  <2>1. T \in SUBSET Nat
      OBVIOUS
  <2>. HIDE DEF T
  <2>. QED BY <1>2, <1>3, <2>1, SetInduction
<1>5. Bounded(d)
  <2>1. d - 1 \in Nat /\ (d - 1) + 1 = d /\ d \in 1..d
      OBVIOUS
  <2>2. d - 1 \in T
    <3>. HIDE DEF T
    <3>. QED BY <2>1, <1>4
  <2>. HIDE DEF Bounded
  <2>. QED BY <2>1, <2>2
<1>. QED BY <1>1, <1>5

\* What depends on a symbol leads to it along calls, in no more than the depth.
LEMMA DependentsWalk ==
    ASSUME NEW g, NEW V, g.edges["calls"] \subseteq V \X V, NEW t \in V, NEW d \in Nat \ {0},
           NEW s \in Dependents(g, {t}, d)
    PROVE  \E n \in 1..d : \E p \in Walks(g.edges["calls"], V, n + 1, s, t) : TRUE
<1>. DEFINE E == g.edges["calls"]
            Leads(x, k) == \E n \in 1..k : \E p \in Walks(E, V, n + 1, x, t) : TRUE
<1>. DEFINE up == Levels(g, {t}, d)
<1>1. /\ Dependents(g, {t}, d) = up[d]
      /\ up[1] = Before(E, {t})
      /\ \A k \in 2..d : up[k] = up[k - 1] \union Before(E, up[k - 1])
    BY DependentsLevels
<1>. HIDE DEF up
<1>2. [i \in 1..1 |-> t] \in Walks(E, V, 1, t, t)
    BY DEF Walks
<1>. DEFINE T == {k \in Nat : k + 1 \in 1..d => \A x \in up[k + 1] : Leads(x, k + 1)}
<1>3. 0 \in T
  <2>. SUFFICES ASSUME NEW x \in up[1] PROVE Leads(x, 1)
      OBVIOUS
  <2>1. <<x, t>> \in E /\ x \in V
      BY <1>1 DEF Before
  <2>2. \E q \in Walks(E, V, 1 + 1, x, t) : TRUE
    <3>. HIDE DEF E
    <3>1. 1 \in Nat \ {0}
        OBVIOUS
    <3>. QED BY <2>1, <1>2, <3>1, WalkPrepended
  <2>. QED BY <2>2
<1>4. ASSUME NEW k \in T PROVE k + 1 \in T
  <2>. SUFFICES ASSUME (k + 1) + 1 \in 1..d, NEW x \in up[(k + 1) + 1]
                PROVE  Leads(x, (k + 1) + 1)
      OBVIOUS
  <2>. DEFINE m == k + 1
  <2>1. m \in 1..d /\ m + 1 \in 2..d /\ (m + 1) - 1 = m /\ \A y \in up[m] : Leads(y, m)
    <3>. HIDE DEF Leads
    <3>. QED OBVIOUS
  <2>. HIDE DEF m
  <2>2. x \in up[m] \/ x \in Before(E, up[m])
    <3>1. x \in up[m + 1]
        BY DEF m
    <3>. QED BY <3>1, <2>1, <1>1
  <2>3. CASE x \in up[m]
    <3>1. Leads(x, m) /\ 1..m \subseteq 1..(m + 1)
        BY <2>1, <2>3
    <3>. QED BY <3>1 DEF m
  <2>4. CASE x \in Before(E, up[m])
    <3>1. PICK y \in up[m] : <<x, y>> \in E
        BY <2>4 DEF Before
    <3>2. PICK n \in 1..m : \E p \in Walks(E, V, n + 1, y, t) : TRUE
        BY <3>1, <2>1
    <3>3. x \in V /\ n + 1 \in Nat \ {0} /\ n + 1 \in 1..(m + 1)
        BY <3>1, <3>2, <2>1
    <3>4. \E q \in Walks(E, V, (n + 1) + 1, x, t) : TRUE
      <4>. HIDE DEF E
      <4>. QED BY <3>1, <3>2, <3>3, WalkPrepended
    <3>5. Leads(x, m + 1)
        BY <3>3, <3>4
    <3>. QED BY <3>5 DEF m
  <2>. QED BY <2>2, <2>3, <2>4
<1>5. T = Nat
  <2>1. T \in SUBSET Nat
      OBVIOUS
  <2>. HIDE DEF T
  <2>. QED BY <1>3, <1>4, <2>1, SetInduction
<1>6. \A x \in up[d] : Leads(x, d)
  <2>1. d - 1 \in Nat /\ (d - 1) + 1 = d /\ d \in 1..d
      OBVIOUS
  <2>2. d - 1 \in T
    <3>. HIDE DEF T
    <3>. QED BY <2>1, <1>5
  <2>. HIDE DEF Leads
  <2>. QED BY <2>1, <2>2
<1>. QED BY <1>1, <1>6

-----------------------------------------------------------------------------
(* The breadth first search                                                *)

\* Each frontier is what the last one leads to and was not seen before.
Expands(E, start, n, fr) ==
    /\ fr[0] = [new |-> {start}, seen |-> {start}]
    /\ \A k \in 1..n : /\ fr[k].new = After(E, fr[k - 1].new) \ fr[k - 1].seen
                       /\ fr[k].seen = fr[k - 1].seen \union fr[k].new

LEMMA FrontierSteps ==
    ASSUME NEW E, NEW start, NEW n \in Nat
    PROVE  Expands(E, start, n, Frontiers(E, start, n))
<1>. DEFINE V == {start} \union {e[2] : e \in E}
            S == [new : SUBSET V, seen : SUBSET V]
            a == [new |-> {start}, seen |-> {start}]
            Onward(r) == LET new == After(E, r.new) \ r.seen IN [new |-> new, seen |-> r.seen \union new]
            F == [k \in Nat |-> [r \in S |-> Onward(r)]]
            G(f) == [k \in 0..n |-> IF k = 0 THEN a ELSE Onward(f[k - 1])]
            fr == Frontiers(E, start, n)
<1>1. \A r \in S : Onward(r) \in S
    BY DEF After
<1>2. F \in [Nat -> [S -> S]] /\ a \in S
  <2>. HIDE DEF Onward, S, a
  <2>1. F \in [Nat -> [S -> S]]
      BY <1>1
  <2>. QED BY <2>1 DEF S, a
<1>3. PICK f \in [0..n -> S] : f[0] = a /\ \A k \in 1..n : f[k] = F[k][f[k - 1]]
  <2>. HIDE DEF F, S, a
  <2>. QED BY <1>2, Table
<1>4. f = G(f)
  <2>. SUFFICES ASSUME NEW k \in 0..n PROVE f[k] = IF k = 0 THEN a ELSE Onward(f[k - 1])
      OBVIOUS
  <2>. HIDE DEF Onward, S, a
  <2>1. CASE k = 0
      BY <2>1, <1>3
  <2>2. CASE k # 0
    <3>1. k \in 1..n /\ k \in Nat /\ k - 1 \in 0..n
        BY <2>2
    <3>. QED BY <3>1, <2>2, <1>3
  <2>. QED BY <2>1, <2>2
<1>5. fr = G(fr)
  <2>1. fr = CHOOSE h : h = G(h)
      BY DEF Frontiers
  <2>. HIDE DEF G, fr
  <2>. QED BY <1>4, <2>1
<1>. HIDE DEF fr
<1>6. fr[0] = a
  <2>1. 0 \in 0..n
      OBVIOUS
  <2>. QED BY <2>1, <1>5
<1>7. ASSUME NEW k \in 1..n
      PROVE  fr[k].new = After(E, fr[k - 1].new) \ fr[k - 1].seen /\ fr[k].seen = fr[k - 1].seen \union fr[k].new
  <2>1. k \in 0..n /\ k # 0
      OBVIOUS
  <2>2. fr[k] = Onward(fr[k - 1])
      BY <2>1, <1>5
  <2>. QED BY <2>2
<1>8. Expands(E, start, n, fr)
    BY <1>6, <1>7 DEF Expands
<1>. QED BY <1>8 DEF fr

\* The new of each frontier are seen from then on, and whatever is seen was
\* new once.
LEMMA FrontiersSeen ==
    ASSUME NEW E, NEW start, NEW n \in Nat, NEW k \in 0..n
    PROVE  /\ Frontiers(E, start, n)[k].new \subseteq {start} \union {e[2] : e \in E}
           /\ \A x \in Frontiers(E, start, n)[k].seen : \E j \in 0..k : x \in Frontiers(E, start, n)[j].new
           /\ \A j \in 0..k : Frontiers(E, start, n)[j].seen \subseteq Frontiers(E, start, n)[k].seen
<1>. DEFINE fr == Frontiers(E, start, n)
            V == {start} \union {e[2] : e \in E}
            Seen(i) == /\ fr[i].new \subseteq V
                       /\ \A x \in fr[i].seen : \E j \in 0..i : x \in fr[j].new
                       /\ \A j \in 0..i : fr[j].seen \subseteq fr[i].seen
            T == {i \in Nat : i \in 0..n => Seen(i)}
<1>0. Expands(E, start, n, fr)
    BY FrontierSteps
<1>1. /\ fr[0] = [new |-> {start}, seen |-> {start}]
      /\ \A i \in 1..n : /\ fr[i].new = After(E, fr[i - 1].new) \ fr[i - 1].seen
                         /\ fr[i].seen = fr[i - 1].seen \union fr[i].new
  <2>. HIDE DEF fr
  <2>. QED BY <1>0 DEF Expands
<1>. HIDE DEF fr
<1>2. 0 \in T
    BY <1>1
<1>3. ASSUME NEW i \in T PROVE i + 1 \in T
  <2>. SUFFICES ASSUME i + 1 \in 0..n PROVE Seen(i + 1)
      OBVIOUS
  <2>1. i \in Nat /\ i \in 0..n /\ Seen(i) /\ i + 1 \in 1..n /\ (i + 1) - 1 = i
    <3>. HIDE DEF Seen
    <3>. QED OBVIOUS
  <2>. DEFINE m == i + 1
  <2>2. /\ fr[m].new = After(E, fr[i].new) \ fr[i].seen
        /\ fr[m].seen = fr[i].seen \union fr[m].new
      BY <1>1, <2>1
  <2>. HIDE DEF m
  <2>3. 0..m = 0..i \union {m}
      BY <2>1 DEF m
  <2>4. fr[m].new \subseteq V
      BY <2>2 DEF After
  <2>5. Seen(m)
      BY <2>1, <2>2, <2>3, <2>4
  <2>. QED BY <2>5 DEF m
<1>4. T = Nat
  <2>1. T \in SUBSET Nat
      OBVIOUS
  <2>. HIDE DEF T
  <2>. QED BY <1>2, <1>3, <2>1, SetInduction
<1>5. Seen(k)
  <2>1. k \in Nat /\ k \in 0..n
      OBVIOUS
  <2>2. k \in T
    <3>. HIDE DEF T
    <3>. QED BY <2>1, <1>4
  <2>. HIDE DEF Seen
  <2>. QED BY <2>1, <2>2
<1>. QED BY <1>5 DEF fr

\* Where a walk of k edges ends is seen after k hops.
LEMMA WalksAreSeen ==
    ASSUME NEW E, NEW V, NEW s, NEW t, NEW n \in Nat, NEW k \in 0..n, NEW p \in Walks(E, V, k + 1, s, t)
    PROVE  t \in Frontiers(E, s, n)[k].seen
<1>. DEFINE fr == Frontiers(E, s, n)
            T == {i \in Nat : i \in 0..k => p[i + 1] \in fr[i].seen}
<1>0. Expands(E, s, n, fr)
    BY FrontierSteps
<1>1. /\ fr[0] = [new |-> {s}, seen |-> {s}]
      /\ \A i \in 1..n : /\ fr[i].new = After(E, fr[i - 1].new) \ fr[i - 1].seen
                         /\ fr[i].seen = fr[i - 1].seen \union fr[i].new
  <2>. HIDE DEF fr
  <2>. QED BY <1>0 DEF Expands
<1>2. \A i \in 0..n : /\ \A x \in fr[i].seen : \E j \in 0..i : x \in fr[j].new
                      /\ \A j \in 0..i : fr[j].seen \subseteq fr[i].seen
    BY FrontiersSeen
<1>. HIDE DEF fr
<1>3. p[1] = s /\ p[k + 1] = t /\ \A i \in 1..k : <<p[i], p[i + 1]>> \in E
  <2>1. (k + 1) - 1 = k
      OBVIOUS
  <2>. QED BY <2>1 DEF Walks
<1>4. 0 \in T
    BY <1>1, <1>3
<1>5. ASSUME NEW i \in T PROVE i + 1 \in T
  <2>. SUFFICES ASSUME i + 1 \in 0..k PROVE p[(i + 1) + 1] \in fr[i + 1].seen
      OBVIOUS
  <2>1. i \in 0..n /\ i + 1 \in 1..k /\ p[i + 1] \in fr[i].seen /\ i + 1 \in 0..n
      OBVIOUS
  <2>2. PICK j \in 0..i : p[i + 1] \in fr[j].new
      BY <2>1, <1>2
  <2>3. <<p[i + 1], p[(i + 1) + 1]>> \in E
      BY <2>1, <1>3
  <2>4. p[(i + 1) + 1] \in After(E, fr[j].new)
      BY <2>2, <2>3 DEF After
  <2>5. j + 1 \in 1..n /\ (j + 1) - 1 = j /\ j + 1 \in 0..(i + 1)
      BY <2>1
  <2>6. p[(i + 1) + 1] \in fr[j + 1].seen
    <3>1. /\ fr[j + 1].new = After(E, fr[j].new) \ fr[j].seen
          /\ fr[j + 1].seen = fr[j].seen \union fr[j + 1].new
        BY <2>5, <1>1
    <3>. QED BY <3>1, <2>4
  <2>. QED BY <2>1, <2>5, <2>6, <1>2
<1>6. T = Nat
  <2>1. T \in SUBSET Nat
      OBVIOUS
  <2>. HIDE DEF T
  <2>. QED BY <1>4, <1>5, <2>1, SetInduction
<1>7. k \in T
  <2>. HIDE DEF T
  <2>. QED BY <1>6
<1>. QED BY <1>3, <1>7 DEF fr

\* The paths of the search, as BfsShortestPath() builds them.
Backs(E, start, n) ==
    CHOOSE back : back = [k \in 0..n |-> IF k = 0 THEN {<<start>>}
        ELSE UNION {{Append(p, s) : p \in {q \in back[k - 1] : <<Last(q), s>> \in E}} : s \in Frontiers(E, start, n)[k].new}]

Onwards(E, back, new) == UNION {{Append(p, s) : p \in {q \in back : <<Last(q), s>> \in E}} : s \in new}

LEMMA OnwardsMembers ==
    ASSUME NEW E, NEW B, NEW N
    PROVE  /\ \A x \in N, q \in B : <<Last(q), x>> \in E => Append(q, x) \in Onwards(E, B, N)
           /\ \A p \in Onwards(E, B, N) : \E x \in N, q \in B : <<Last(q), x>> \in E /\ p = Append(q, x)
<1>1. ASSUME NEW x \in N, NEW q \in B, <<Last(q), x>> \in E
      PROVE  Append(q, x) \in Onwards(E, B, N)
  <2>. DEFINE set == {Append(p, x) : p \in {r \in B : <<Last(r), x>> \in E}}
  <2>1. Append(q, x) \in set
      BY <1>1
  <2>2. set \in {{Append(p, s) : p \in {r \in B : <<Last(r), s>> \in E}} : s \in N}
      OBVIOUS
  <2>. HIDE DEF set
  <2>. QED BY <2>1, <2>2 DEF Onwards
<1>2. ASSUME NEW p \in Onwards(E, B, N)
      PROVE  \E x \in N, q \in B : <<Last(q), x>> \in E /\ p = Append(q, x)
    BY DEF Onwards
<1>. QED BY <1>1, <1>2

LongerPaths(E, start, n, back) ==
    /\ back[0] = {<<start>>}
    /\ \A k \in 1..n : back[k] = Onwards(E, back[k - 1], Frontiers(E, start, n)[k].new)

LEMMA BackSteps ==
    ASSUME NEW E, NEW start, NEW n \in Nat
    PROVE  LongerPaths(E, start, n, Backs(E, start, n))
<1>. DEFINE V == {start} \union {e[2] : e \in E}
            S == SUBSET Seq(V)
            a == {<<start>>}
            fr == Frontiers(E, start, n)
            F == [k \in Nat |-> [B \in S |-> IF k \in 1..n THEN Onwards(E, B, fr[k].new) ELSE {}]]
            G(f) == [k \in 0..n |-> IF k = 0 THEN a ELSE Onwards(E, f[k - 1], fr[k].new)]
            back == Backs(E, start, n)
<1>1. a \in S
    OBVIOUS
<1>2. F \in [Nat -> [S -> S]]
  <2>. SUFFICES ASSUME NEW k \in Nat, NEW B \in S, k \in 1..n
                PROVE  Onwards(E, B, fr[k].new) \in S
      OBVIOUS
  <2>1. k \in 0..n
      OBVIOUS
  <2>2. fr[k].new \subseteq V
      BY <2>1, FrontiersSeen
  <2>. HIDE DEF fr, V
  <2>3. ASSUME NEW s \in fr[k].new, NEW p \in B PROVE Append(p, s) \in Seq(V)
    <3>1. p \in Seq(V) /\ s \in V
        BY <2>2
    <3>. QED BY <3>1
  <2>4. Onwards(E, B, fr[k].new) \subseteq Seq(V)
    <3>. SUFFICES ASSUME NEW p \in Onwards(E, B, fr[k].new) PROVE p \in Seq(V)
        OBVIOUS
    <3>. DEFINE N == fr[k].new
    <3>1. p \in Onwards(E, B, N)
        OBVIOUS
    <3>2. PICK x \in N, q \in B : <<Last(q), x>> \in E /\ p = Append(q, x)
      <4>. HIDE DEF N, S, F, G, a, back
      <4>. QED BY <3>1 DEF Onwards
    <3>. QED BY <3>2, <2>3
  <2>. QED BY <2>4
<1>3. PICK f \in [0..n -> S] : f[0] = a /\ \A k \in 1..n : f[k] = F[k][f[k - 1]]
  <2>. HIDE DEF F, S, a
  <2>. QED BY <1>1, <1>2, Table
<1>4. f = G(f)
  <2>. SUFFICES ASSUME NEW k \in 0..n PROVE f[k] = IF k = 0 THEN a ELSE Onwards(E, f[k - 1], fr[k].new)
      OBVIOUS
  <2>. HIDE DEF S, a, fr
  <2>1. CASE k = 0
      BY <2>1, <1>3
  <2>2. CASE k # 0
    <3>1. k \in 1..n /\ k \in Nat /\ f[k - 1] \in S
        BY <2>2
    <3>. QED BY <3>1, <2>2, <1>3
  <2>. QED BY <2>1, <2>2
<1>5. back = G(back)
  <2>1. back = CHOOSE h : h = G(h)
      BY DEF Backs, Onwards
  <2>. HIDE DEF G, back
  <2>. QED BY <1>4, <2>1
<1>. HIDE DEF back, fr
<1>6. back[0] = a
  <2>1. 0 \in 0..n
      OBVIOUS
  <2>. QED BY <2>1, <1>5
<1>7. ASSUME NEW k \in 1..n PROVE back[k] = Onwards(E, back[k - 1], fr[k].new)
  <2>1. k \in 0..n /\ k # 0
      OBVIOUS
  <2>. QED BY <2>1, <1>5
<1>8. LongerPaths(E, start, n, back)
    BY <1>6, <1>7 DEF LongerPaths, fr
<1>. QED BY <1>8 DEF back

\* A way and one more edge.
LEMMA WalkAppended ==
    ASSUME NEW E, NEW V, NEW n \in Nat \ {0}, NEW s, NEW x, NEW t \in V, NEW p \in Seq(V), Len(p) = n,
           p \in Walks(E, V, n, s, x), <<x, t>> \in E
    PROVE  Append(p, t) \in Seq(V) /\ Len(Append(p, t)) = n + 1 /\ Last(Append(p, t)) = t
           /\ Append(p, t) \in Walks(E, V, n + 1, s, t)
<1>. DEFINE q == Append(p, t)
<1>1. p \in [1..n -> V] /\ p[1] = s /\ p[n] = x /\ \A i \in 1..(n - 1) : <<p[i], p[i + 1]>> \in E
    BY DEF Walks
<1>2. q \in Seq(V) /\ Len(q) = n + 1 /\ q[n + 1] = t /\ \A i \in 1..n : q[i] = p[i]
    OBVIOUS
<1>. HIDE DEF q
<1>3. q \in [1..(n + 1) -> V] /\ q[1] = s
    BY <1>1, <1>2
<1>4. ASSUME NEW i \in 1..((n + 1) - 1) PROVE <<q[i], q[i + 1]>> \in E
  <2>1. CASE i = n
      BY <2>1, <1>1, <1>2
  <2>2. CASE i # n
    <3>1. i \in 1..(n - 1) /\ i \in 1..n /\ i + 1 \in 1..n
        BY <2>2
    <3>. QED BY <3>1, <1>1, <1>2
  <2>. QED BY <2>1, <2>2
<1>5. q \in Walks(E, V, n + 1, s, t)
    BY <1>2, <1>3, <1>4 DEF Walks
<1>. QED BY <1>2, <1>5 DEF q, Last

\* A path of the search after k hops is a way of k edges to a symbol first met
\* then, and there is one to each such symbol.
AreWaysTo(E, V, s, k, paths, new) ==
    /\ \A p \in paths : /\ p \in Seq(V) /\ Len(p) = k + 1
                        /\ p \in Walks(E, V, k + 1, s, Last(p))
                        /\ Last(p) \in new
    /\ \A x \in new : \E p \in paths : Last(p) = x

LEMMA BackPaths ==
    ASSUME NEW E, NEW V, E \subseteq V \X V, NEW s \in V, NEW n \in Nat, NEW k \in 0..n
    PROVE  AreWaysTo(E, V, s, k, Backs(E, s, n)[k], Frontiers(E, s, n)[k].new)
<1>. DEFINE fr == Frontiers(E, s, n)
            back == Backs(E, s, n)
            IsPath(p, i) == /\ p \in Seq(V) /\ Len(p) = i + 1
                            /\ p \in Walks(E, V, i + 1, s, Last(p))
                            /\ Last(p) \in fr[i].new
            Sound(i) == /\ \A p \in back[i] : IsPath(p, i)
                        /\ \A x \in fr[i].new : \E p \in back[i] : Last(p) = x
            T == {i \in Nat : i \in 0..n => Sound(i)}
<1>1. /\ fr[0] = [new |-> {s}, seen |-> {s}]
      /\ \A i \in 1..n : fr[i].new = After(E, fr[i - 1].new) \ fr[i - 1].seen
  <2>1. Expands(E, s, n, fr)
      BY FrontierSteps
  <2>. HIDE DEF fr
  <2>. QED BY <2>1 DEF Expands
<1>2. /\ back[0] = {<<s>>}
      /\ \A i \in 1..n : back[i] = Onwards(E, back[i - 1], fr[i].new)
  <2>1. LongerPaths(E, s, n, back)
      BY BackSteps
  <2>. HIDE DEF back
  <2>. QED BY <2>1 DEF LongerPaths
<1>. HIDE DEF fr, back
<1>3. 0 \in T
  <2>1. <<s>> \in Seq(V) /\ Len(<<s>>) = 1 /\ Last(<<s>>) = s
      BY DEF Last
  <2>2. <<s>> \in Walks(E, V, 1, s, s)
      BY DEF Walks
  <2>3. Sound(0)
      BY <2>1, <2>2, <1>1, <1>2
  <2>. HIDE DEF Sound
  <2>. QED BY <2>3
<1>4. ASSUME NEW i \in T PROVE i + 1 \in T
  <2>. SUFFICES ASSUME i + 1 \in 0..n PROVE Sound(i + 1)
    <3>. HIDE DEF Sound
    <3>. QED OBVIOUS
  <2>. DEFINE m == i + 1
  <2>1. i \in Nat /\ Sound(i) /\ m \in 1..n /\ m - 1 = i /\ m \in Nat \ {0}
    <3>. HIDE DEF Sound
    <3>. QED OBVIOUS
  <2>2. back[m] = Onwards(E, back[i], fr[m].new) /\ fr[m].new = After(E, fr[i].new) \ fr[i].seen
    <3>. HIDE DEF Sound
    <3>. QED BY <2>1, <1>1, <1>2
  <2>3. ASSUME NEW x \in fr[m].new, NEW q \in back[i], <<Last(q), x>> \in E
        PROVE  Append(q, x) \in back[m] /\ IsPath(Append(q, x), m) /\ Last(Append(q, x)) = x
    <3>1. q \in Seq(V) /\ Len(q) = m /\ q \in Walks(E, V, m, s, Last(q))
        BY <2>1
    <3>2. x \in V
        BY <2>3
    <3>3. Append(q, x) \in Seq(V) /\ Len(Append(q, x)) = m + 1 /\ Last(Append(q, x)) = x
          /\ Append(q, x) \in Walks(E, V, m + 1, s, x)
      <4>. HIDE DEF m
      <4>. QED BY <2>1, <2>3, <3>1, <3>2, WalkAppended
    <3>4. Append(q, x) \in back[m]
      <4>. HIDE DEF m
      <4>. QED BY <2>2, <2>3, OnwardsMembers
    <3>. QED BY <3>3, <3>4
  <2>4. ASSUME NEW p \in back[m] PROVE IsPath(p, m)
    <3>1. PICK x \in fr[m].new, q \in back[i] : <<Last(q), x>> \in E /\ p = Append(q, x)
      <4>. HIDE DEF m
      <4>. QED BY <2>2, <2>4, OnwardsMembers
    <3>. HIDE DEF IsPath, m
    <3>. QED BY <3>1, <2>3
  <2>5. ASSUME NEW x \in fr[m].new PROVE \E p \in back[m] : Last(p) = x
    <3>1. PICK y \in fr[i].new : <<y, x>> \in E
        BY <2>2 DEF After
    <3>2. PICK q \in back[i] : Last(q) = y
        BY <3>1, <2>1
    <3>. HIDE DEF IsPath, m
    <3>. QED BY <3>1, <3>2, <2>3
  <2>. HIDE DEF m, IsPath
  <2>6. Sound(m)
      BY <2>4, <2>5
  <2>. QED BY <2>6 DEF m
<1>5. T = Nat
  <2>1. T \in SUBSET Nat
      OBVIOUS
  <2>. HIDE DEF T
  <2>. QED BY <1>3, <1>4, <2>1, SetInduction
<1>6. Sound(k)
  <2>1. k \in Nat /\ k \in 0..n
      OBVIOUS
  <2>2. k \in T
    <3>. HIDE DEF T
    <3>. QED BY <2>1, <1>5
  <2>. HIDE DEF Sound
  <2>. QED BY <2>1, <2>2
<1>. QED BY <1>6 DEF fr, back, AreWaysTo

\* The search finds a shortest way, and fails only if none is short enough.
IsShortest(E, V, s, t, n, p) ==
    \E k \in 0..n : /\ p \in Walks(E, V, k + 1, s, t) /\ p \in Seq(V) /\ Len(p) = k + 1
                    /\ \A j \in 0..n : j < k => Walks(E, V, j + 1, s, t) = {}
TooFar(E, V, s, t, n) == \A k \in 0..n : Walks(E, V, k + 1, s, t) = {}

LEMMA ShortestPaths ==
    ASSUME NEW E, NEW V, E \subseteq V \X V, NEW s \in V, NEW t, NEW n \in Nat
    PROVE  /\ \A p \in BfsShortestPath(E, s, t, n) : IsShortest(E, V, s, t, n, p)
           /\ BfsShortestPath(E, s, t, n) = {} => TooFar(E, V, s, t, n)
<1>. DEFINE fr == Frontiers(E, s, n)
            back == Backs(E, s, n)
            met == {k \in 0..n : t \in fr[k].new}
<1>1. BfsShortestPath(E, s, t, n) = IF met = {} THEN {} ELSE {p \in back[Min(met)] : Last(p) = t}
    BY DEF BfsShortestPath, Backs
<1>2. ASSUME NEW k \in 0..n, NEW p \in Walks(E, V, k + 1, s, t)
      PROVE  \E j \in met : j <= k
  <2>1. t \in fr[k].seen
      BY WalksAreSeen
  <2>2. PICK j \in 0..k : t \in fr[j].new
      BY <2>1, FrontiersSeen
  <2>3. j \in 0..n /\ j <= k
      OBVIOUS
  <2>. QED BY <2>2, <2>3
<1>3. met \in SUBSET Nat /\ met \subseteq 0..n
    OBVIOUS
<1>4. ASSUME NEW k \in 0..n
      PROVE  /\ \A p \in back[k] : /\ p \in Seq(V) /\ Len(p) = k + 1
                                   /\ p \in Walks(E, V, k + 1, s, Last(p))
             /\ \A x \in fr[k].new : \E p \in back[k] : Last(p) = x
  <2>1. AreWaysTo(E, V, s, k, back[k], fr[k].new)
      BY BackPaths
  <2>. HIDE DEF fr, back
  <2>. QED BY <2>1 DEF AreWaysTo
<1>5. \A k \in met : t \in fr[k].new
    OBVIOUS
<1>. HIDE DEF fr, back, met
<1>6. CASE met = {}
    BY <1>1, <1>2, <1>6 DEF TooFar
<1>7. CASE met # {}
  <2>. DEFINE k == Min(met)
  <2>1. k \in met /\ k \in 0..n /\ \A j \in met : k <= j
      BY <1>3, <1>7, MinIsLeast
  <2>. HIDE DEF k
  <2>2. BfsShortestPath(E, s, t, n) = {p \in back[k] : Last(p) = t}
      BY <1>1, <1>7 DEF k
  <2>3. BfsShortestPath(E, s, t, n) # {}
      BY <2>1, <2>2, <1>4, <1>5
  <2>4. ASSUME NEW j \in 0..n, j < k PROVE Walks(E, V, j + 1, s, t) = {}
    <3>. SUFFICES ASSUME NEW p \in Walks(E, V, j + 1, s, t) PROVE FALSE
        OBVIOUS
    <3>1. PICK i \in met : i <= j
        BY <1>2
    <3>2. i \in Nat /\ k <= i /\ j \in Nat /\ k \in Nat
        BY <3>1, <2>1, <1>3
    <3>. QED BY <3>1, <3>2, <2>4
  <2>5. ASSUME NEW p \in BfsShortestPath(E, s, t, n)
        PROVE  p \in Walks(E, V, k + 1, s, t) /\ p \in Seq(V) /\ Len(p) = k + 1
      BY <2>1, <2>2, <1>4
  <2>. QED BY <2>1, <2>3, <2>4, <2>5 DEF IsShortest
<1>. QED BY <1>6, <1>7

-----------------------------------------------------------------------------
(* Lookups and impact                                                      *)

\* Of a finite set one can take as many as it has.
LEMMA SlicesExist ==
    ASSUME NEW S, IsFiniteSet(S), NEW n \in Nat
    PROVE  Slices(S, n) # {}
<1>. DEFINE c == Cardinality(S)
            T == {k \in Nat : k <= c => \E A \in SUBSET S : IsFiniteSet(A) /\ Cardinality(A) = k}
<1>1. c \in Nat
    BY FS_CardinalityType
<1>2. 0 \in T
    BY FS_EmptySet
<1>3. ASSUME NEW k \in T PROVE k + 1 \in T
  <2>. SUFFICES ASSUME k + 1 <= c
                PROVE  \E A \in SUBSET S : IsFiniteSet(A) /\ Cardinality(A) = k + 1
      OBVIOUS
  <2>1. PICK A \in SUBSET S : IsFiniteSet(A) /\ Cardinality(A) = k
      BY <1>1
  <2>2. A # S
      BY <2>1, <1>1
  <2>3. PICK x \in S : x \notin A
      BY <2>1, <2>2
  <2>4. IsFiniteSet(A \union {x}) /\ Cardinality(A \union {x}) = k + 1
      BY <2>1, <2>3, FS_AddElement
  <2>. QED BY <2>1, <2>3, <2>4
<1>4. T = Nat
  <2>1. T \in SUBSET Nat
      OBVIOUS
  <2>. HIDE DEF T
  <2>. QED BY <1>2, <1>3, <2>1, SetInduction
<1>5. Min({n, c}) \in Nat /\ Min({n, c}) <= c
    BY <1>1, MinOfTwo
<1>6. Min({n, c}) \in T
  <2>. HIDE DEF T
  <2>. QED BY <1>4, <1>5
<1>7. \E A \in SUBSET S : Cardinality(A) = Min({n, c})
    BY <1>5, <1>6
<1>. QED BY <1>7 DEF Slices

\* Every symbol shown has some explanation.
LEMMA ExplanationsExist ==
    ASSUME NEW g, NEW T, NEW shown
    PROVE  BuildExplanations(g, T, shown) # {}
<1>. DEFINE direct(s) == UNION {Between(g, s, t) : t \in T}
            entries(s) == IF direct(s) = {} THEN {<<"calls", 2>>} ELSE direct(s) \X {1}
            f == [s \in shown |-> CHOOSE e \in entries(s) : TRUE]
<1>1. ASSUME NEW s \in shown PROVE entries(s) # {} /\ entries(s) \subseteq Labels \X {1, 2}
  <2>1. direct(s) \subseteq Labels
      BY DEF Between
  <2>2. "calls" \in Labels
      BY DEF Labels
  <2>. HIDE DEF direct
  <2>3. CASE direct(s) = {}
      BY <2>2, <2>3
  <2>4. CASE direct(s) # {}
    <3>1. PICK l \in direct(s) : TRUE
        BY <2>4
    <3>2. <<l, 1>> \in entries(s)
        BY <3>1, <2>4
    <3>. QED BY <3>2, <2>1, <2>4
  <2>. QED BY <2>3, <2>4
<1>2. ASSUME NEW s \in shown PROVE f[s] \in entries(s) /\ f[s] \in Labels \X {1, 2}
  <2>1. f[s] = CHOOSE e \in entries(s) : TRUE
      OBVIOUS
  <2>. HIDE DEF entries, f
  <2>. QED BY <1>1, <2>1
<1>. HIDE DEF entries
<1>3. f \in [shown -> Labels \X {1, 2}]
    BY <1>2
<1>. HIDE DEF f
<1>4. f \in {h \in [shown -> (Labels \X {1, 2})] : \A s \in shown : h[s] \in entries(s)}
    BY <1>2, <1>3
<1>5. {ExplainAffectedNode(g, s, f[s][1], f[s][2]) : s \in shown} \in BuildExplanations(g, T, shown)
    BY <1>4 DEF BuildExplanations, entries
<1>. QED BY <1>5

LEMMA Clamped ==
    ASSUME NEW d \in Int
    PROVE  /\ ClampTraversalDepth(d) \in Nat \ {0}
           /\ d = 0 => ClampTraversalDepth(d) = MaxDepth
           /\ d = 1 => ClampTraversalDepth(d) = 1
           /\ d = MaxDepth => ClampTraversalDepth(d) = MaxDepth
<1>1. MaxDepth \in Nat \ {0}
    BY DepthAssumption
<1>2. Min({d, MaxDepth}) = IF d <= MaxDepth THEN d ELSE MaxDepth
    BY <1>1, MinOfTwo
<1>. QED BY <1>1, <1>2 DEF ClampTraversalDepth

\* A name that one symbol has leads to that symbol.
LEMMA ResolvedByName ==
    ASSUME NEW g, NEW q, NEW t, Named(g, q) = {t}
    PROVE  ResolveSymbol(g, q) = {Exact(t)}
BY DEF ResolveSymbol

LEMMA ResolvedAreSymbols ==
    ASSUME NEW g, NEW q, NEW r \in ResolveSymbol(g, q), r.kind # "not_found"
    PROVE  r.node \in Ids(g)
<1>1. NotFound(g).kind = "not_found" /\ \A s : Exact(s).node = s
    BY DEF NotFound, Exact
<1>2. \A s \in Named(g, q) : s \in Ids(g)
    BY DEF Named
<1>3. \A s \in Fuzzy(g, q) : s \in Ids(g) /\ [kind |-> "fuzzy", node |-> s].node = s
    BY DEF Fuzzy
<1>. QED BY <1>1, <1>2, <1>3 DEF ResolveSymbol

\* What impact_analysis says of a symbol known by its name: what depends on it,
\* and the risk of that.
TellImpact(answers, g, t, d) ==
    /\ answers # {}
    /\ \A a \in answers : /\ a.dependents = Dependents(g, {t}, ClampTraversalDepth(d))
                          /\ a.risk = Risk(g, Dependents(g, {t}, ClampTraversalDepth(d)))

LEMMA ImpactOfOne ==
    ASSUME NEW g, NEW q, NEW t, Named(g, q) = {t}, NEW m \in Nat \ {0}, NEW d \in Int,
           IsFiniteSet(Dependents(g, {t}, ClampTraversalDepth(d)))
    PROVE  TellImpact(ExecuteImpactAnalysis(g, q, m, d), g, t, d)
<1>. DEFINE r == Exact(t)
            T == Named(g, q)
            deps == Dependents(g, T, ClampTraversalDepth(d))
            answer(shown, why) ==
                [kind |-> r.kind, symbols |-> {r.node} \union shown, dependents |-> deps, risk |-> Risk(g, deps),
                 confidence |-> IF deps # {} THEN 92 ELSE 75,
                 flows |-> ProcessesOf(g, T), clusters |-> ClustersOf(g, T), explained |-> why]
            impact(res) == IF res.kind = "not_found" THEN {NoImpact(g)} ELSE SymbolImpact(g, q, res, m, d)
<1>1. ExecuteImpactAnalysis(g, q, m, d) = SymbolImpact(g, q, r, m, d)
  <2>1. ExecuteImpactAnalysis(g, q, m, d) = UNION {impact(res) : res \in ResolveSymbol(g, q)}
      BY DEF ExecuteImpactAnalysis
  <2>2. ResolveSymbol(g, q) = {r}
      BY ResolvedByName
  <2>3. impact(r) = SymbolImpact(g, q, r, m, d)
      BY DEF Exact
  <2>. HIDE DEF impact, r
  <2>. QED BY <2>1, <2>2, <2>3
<1>2. m - 1 \in Nat
    OBVIOUS
<1>3. SymbolImpact(g, q, r, m, d) =
          UNION {{answer(shown, why) : why \in BuildExplanations(g, T, shown)} : shown \in Slices(deps, m - 1)}
  <2>. HIDE DEF r
  <2>. QED BY DEF SymbolImpact
<1>4. PICK shown \in Slices(deps, m - 1) : TRUE
    BY <1>2, SlicesExist
<1>5. PICK why \in BuildExplanations(g, T, shown) : TRUE
    BY ExplanationsExist
<1>6. \A x, y : answer(x, y).dependents = deps /\ answer(x, y).risk = Risk(g, deps)
    OBVIOUS
<1>7. deps = Dependents(g, {t}, ClampTraversalDepth(d))
    OBVIOUS
<1>. HIDE DEF answer, deps, r, T
<1>8. answer(shown, why) \in SymbolImpact(g, q, r, m, d)
    BY <1>3, <1>4, <1>5
<1>9. ASSUME NEW a \in SymbolImpact(g, q, r, m, d)
      PROVE  a.dependents = deps /\ a.risk = Risk(g, deps)
    BY <1>3, <1>6
<1>. QED BY <1>1, <1>7, <1>8, <1>9 DEF TellImpact

\* A larger set is at no lower a risk.
LEMMA RiskGrows ==
    ASSUME NEW g, NEW B, IsFiniteSet(B), NEW A \in SUBSET B
    PROVE  RiskRank(Risk(g, A)) <= RiskRank(Risk(g, B))
<1>1. /\ IsFiniteSet(A) /\ Cardinality(A) \in Nat /\ Cardinality(B) \in Nat
      /\ Cardinality(A) <= Cardinality(B)
    BY FS_Subset, FS_CardinalityType
<1>2. RiskRank("low") = 0 /\ RiskRank("medium") = 1 /\ RiskRank("high") = 2 /\ RiskRank("critical") = 3
    BY DEF RiskRank
<1>3. CASE \E s \in B : g.at[s].name \in CoreNames
  <2>1. Risk(g, B) = "critical"
      BY <1>3 DEF Risk
  <2>2. Risk(g, A) \in {"low", "medium", "high", "critical"}
      BY DEF Risk
  <2>. QED BY <2>1, <2>2, <1>2
<1>4. CASE ~\E s \in B : g.at[s].name \in CoreNames
  <2>1. Risk(g, A) = IF Cardinality(A) >= 11 THEN "high" ELSE IF Cardinality(A) >= 3 THEN "medium" ELSE "low"
      BY <1>4 DEF Risk
  <2>2. Risk(g, B) = IF Cardinality(B) >= 11 THEN "high" ELSE IF Cardinality(B) >= 3 THEN "medium" ELSE "low"
      BY <1>4 DEF Risk
  <2>. QED BY <2>1, <2>2, <1>1, <1>2
<1>. QED BY <1>3, <1>4

LEMMA GraphFacts ==
    ASSUME NEW g, IsGraph(g)
    PROVE  /\ g.edges["calls"] \subseteq Ids(g) \X Ids(g)
           /\ TraceEdges(g) \subseteq Ids(g) \X Ids(g)
           /\ \A t \in Ids(g) : Named(g, t) = {t}
           /\ \A A, d : d \in Nat \ {0} => /\ Dependents(g, A, d) \subseteq Ids(g)
                                           /\ IsFiniteSet(Dependents(g, A, d))
<1>1. g.edges["calls"] \subseteq Ids(g) \X Ids(g) /\ g.edges["contains"] \subseteq Ids(g) \X Ids(g)
    BY DEF IsGraph, Labels
<1>2. TraceEdges(g) \subseteq Ids(g) \X Ids(g)
    BY <1>1 DEF TraceEdges
<1>3. \A t \in Ids(g) : Named(g, t) = {t}
    BY DEF IsGraph, Named
<1>4. ASSUME NEW A, NEW d, d \in Nat \ {0}
      PROVE  Dependents(g, A, d) \subseteq Ids(g) /\ IsFiniteSet(Dependents(g, A, d))
  <2>1. Dependents(g, A, d) \subseteq {e[1] : e \in g.edges["calls"]}
      BY <1>4, DependentsBounds
  <2>2. Dependents(g, A, d) \subseteq Ids(g)
      BY <2>1, <1>1
  <2>3. IsFiniteSet(Ids(g))
      BY DEF IsGraph
  <2>. QED BY <2>2, <2>3, FS_Subset
<1>. QED BY <1>1, <1>2, <1>3, <1>4

-----------------------------------------------------------------------------
(* Rename plans                                                            *)

\* The edits of a plan are where symbols start: the one that is renamed, and
\* all that call it.
LEMMA PlannedEdits ==
    ASSUME NEW g, IsGraph(g), NEW q, NEW file, NEW plan \in BuildRenamePlan(g, q, file), NEW t \in plan.target
    PROVE  /\ t \in Ids(g)
           /\ \A e \in plan.edits : e.at \in Ids(g) /\ e.file = g.at[e.at].file /\ e.line = g.at[e.at].start
           /\ \E e \in plan.edits : e.at = t
           /\ Before(g.edges["calls"], {t}) \subseteq {e.at : e \in plan.edits}
<1>. DEFINE planFor(r) ==
                IF r.kind = "not_found" THEN [kind |-> "not_found", target |-> {}, edits |-> {}]
                ELSE [kind |-> r.kind, target |-> {r.node},
                      edits |-> {Site(g, r.node, "definition")} \union
                                {Site(g, s, "reference") : s \in FindReferenceSites(g, r.node)}]
<1>1. PICK r \in ResolveRenameTarget(g, q, file) : plan = planFor(r)
    BY DEF BuildRenamePlan
<1>2. r.kind # "not_found"
  <2>. SUFFICES ASSUME r.kind = "not_found" PROVE FALSE
      OBVIOUS
  <2>1. planFor(r).target = {}
      OBVIOUS
  <2>. HIDE DEF planFor
  <2>. QED BY <2>1, <1>1
<1>3. r.node \in Ids(g)
  <2>1. \A s : Exact(s).node = s /\ [kind |-> "fuzzy", node |-> s].node = s
      BY DEF Exact
  <2>2. CASE r \in ResolveSymbol(g, q)
      BY <2>2, <1>2, ResolvedAreSymbols
  <2>3. CASE r \notin ResolveSymbol(g, q)
    <3>1. \E s \in Ids(g) : r = Exact(s) \/ r = [kind |-> "fuzzy", node |-> s]
        BY <2>3 DEF ResolveRenameTarget, Named
    <3>. QED BY <3>1, <2>1
  <2>. QED BY <2>2, <2>3
<1>4. plan.target = {r.node} /\ t = r.node
  <2>1. planFor(r).target = {r.node}
      BY <1>2
  <2>. HIDE DEF planFor
  <2>. QED BY <2>1, <1>1
<1>5. plan.edits = {Site(g, t, "definition")} \union {Site(g, s, "reference") : s \in FindReferenceSites(g, t)}
  <2>1. planFor(r).edits = {Site(g, r.node, "definition")} \union
                           {Site(g, s, "reference") : s \in FindReferenceSites(g, r.node)}
      BY <1>2
  <2>. HIDE DEF planFor
  <2>. QED BY <2>1, <1>1, <1>4
<1>6. \A s, kind : /\ Site(g, s, kind).at = s /\ Site(g, s, kind).file = g.at[s].file
                   /\ Site(g, s, kind).line = g.at[s].start
    BY DEF Site
<1>7. FindReferenceSites(g, t) \subseteq Ids(g)
  <2>1. \A l \in {"calls", "imports", "references"} : g.edges[l] \subseteq Ids(g) \X Ids(g)
      BY DEF IsGraph, Labels
  <2>. QED BY <2>1 DEF FindReferenceSites, Before
<1>8. Before(g.edges["calls"], {t}) \subseteq FindReferenceSites(g, t)
    BY DEF FindReferenceSites, Before
<1>. HIDE DEF planFor
<1>9. ASSUME NEW e \in plan.edits
      PROVE  e.at \in Ids(g) /\ e.file = g.at[e.at].file /\ e.line = g.at[e.at].start
  <2>1. \E s \in Ids(g) : \E kind : e = Site(g, s, kind)
      BY <1>3, <1>4, <1>5, <1>7
  <2>. QED BY <2>1, <1>6
<1>10. \E e \in plan.edits : e.at = t
    BY <1>5, <1>6
<1>11. ASSUME NEW s \in Before(g.edges["calls"], {t}) PROVE s \in {e.at : e \in plan.edits}
  <2>1. Site(g, s, "reference") \in plan.edits
      BY <1>5, <1>8
  <2>. QED BY <2>1, <1>6
<1>. QED BY <1>3, <1>4, <1>9, <1>10, <1>11

\* A change of the first line of some symbols touches them, and is taken for a
\* change of all symbols of their files.
DiffsOf(edits) == {[path |-> e.file, oldPath |-> {}, status |-> "modified", hunks |-> {<<e.line, 1>>}] : e \in edits}
Detects(g, edits, touched, seen) ==
    /\ {e.at : e \in edits} \subseteq touched \cap seen.changed
    /\ seen.changed \subseteq Ids(g)
    /\ seen.dependents = UNION {Dependents(g, Named(g, s), MaxDepth) : s \in seen.changed}
    /\ seen.risk = Risk(g, seen.changed \union seen.dependents)

LEMMA EditsAreDetected ==
    ASSUME NEW g, IsGraph(g), NEW edits, edits # {},
           \A e \in edits : e.at \in Ids(g) /\ e.file = g.at[e.at].file /\ e.line = g.at[e.at].start
    PROVE  Detects(g, edits, ResolveChangedSymbols(g, DiffsOf(edits)).symbols, ExecuteDetectChanges(g, DiffsOf(edits), 100))
<1>. DEFINE diff(e) == [path |-> e.file, oldPath |-> {}, status |-> "modified", hunks |-> {<<e.line, 1>>}]
            diffs == {diff(e) : e \in edits}
            touched == ResolveChangedSymbols(g, diffs)
            changed == {s \in Ids(g) : g.at[s].file \in touched.files}
            deps == UNION {Dependents(g, Named(g, s), MaxDepth) : s \in changed}
            seen == ExecuteDetectChanges(g, diffs, 100)
<1>1. ASSUME NEW e \in edits
      PROVE  e.at \in touched.symbols /\ e.file \in touched.files
  <2>. DEFINE h == <<e.line, 1>>
              d == diff(e)
  <2>1. d \in diffs /\ d.path = e.file /\ d.status = "modified" /\ d.hunks = {h}
      OBVIOUS
  <2>2. ~IsWholeFileChange(d)
    <3>1. d.hunks # {}
        BY <2>1
    <3>. HIDE DEF d
    <3>. QED BY <3>1, <2>1 DEF IsWholeFileChange
  <2>3. Overlaps(g, e.at, h)
    <3>1. e.line = g.at[e.at].start /\ g.at[e.at].start \in Int /\ g.at[e.at].end \in Int
          /\ g.at[e.at].start <= g.at[e.at].end
        BY DEF IsGraph
    <3>2. Max({1, 1}) = 1
        BY MaxOfTwo
    <3>3. h[1] = e.line /\ h[2] = 1
        OBVIOUS
    <3>. HIDE DEF h
    <3>. QED BY <3>1, <3>2, <3>3 DEF Overlaps
  <2>4. e.at \in Ids(g) /\ g.at[e.at].file = e.file
      OBVIOUS
  <2>. HIDE DEF diffs, d, h
  <2>5. e.at \in {s \in Ids(g) :
                    \/ g.at[s].file \in UNION {{x.path} \union x.oldPath : x \in {y \in diffs : IsWholeFileChange(y)}}
                    \/ \E x \in diffs : /\ ~IsWholeFileChange(x)
                                        /\ g.at[s].file \in {x.path} \union x.oldPath
                                        /\ \E i \in x.hunks : Overlaps(g, s, i)}
      BY <2>1, <2>2, <2>3, <2>4
  <2>6. e.at \in touched.symbols
      BY <2>5 DEF ResolveChangedSymbols
  <2>7. touched.files = {g.at[s].file : s \in touched.symbols}
      BY DEF ResolveChangedSymbols
  <2>. QED BY <2>4, <2>6, <2>7
<1>2. diffs # {} /\ touched.files # {}
    BY <1>1
<1>. HIDE DEF diffs, diff
<1>3. seen = ExecutePreCommitCheck(g, touched.files, 100)
    BY <1>2 DEF ExecuteDetectChanges
<1>4. seen.changed = changed /\ seen.dependents = deps /\ seen.risk = Risk(g, changed \union deps)
    BY <1>3 DEF ExecutePreCommitCheck
<1>5. \A e \in edits : e.at \in changed
    BY <1>1
<1>. HIDE DEF touched, seen, deps, changed
<1>6. {e.at : e \in edits} \subseteq touched.symbols \cap changed
    BY <1>1, <1>5
<1>7. changed \subseteq Ids(g) /\ deps = UNION {Dependents(g, Named(g, s), MaxDepth) : s \in changed}
    BY DEF changed, deps
<1>8. Detects(g, edits, touched.symbols, seen)
    BY <1>4, <1>6, <1>7 DEF Detects
<1>. QED BY <1>8 DEF seen, touched, diffs, diff, DiffsOf

\* A plan announces no more than detect_changes reports of its edits.
LEMMA PlanDetected ==
    ASSUME NEW g, IsGraph(g), NEW q, NEW file, NEW plan \in BuildRenamePlan(g, q, file), NEW t \in plan.target
    PROVE  LET edits == plan.edits
               diffs == {[path |-> e.file, oldPath |-> {}, status |-> "modified", hunks |-> {<<e.line, 1>>}] : e \in edits}
               seen  == ExecuteDetectChanges(g, diffs, 100)
           IN  /\ {e.at : e \in edits} \subseteq ResolveChangedSymbols(g, diffs).symbols \cap seen.changed
               /\ \A a \in ExecuteImpactAnalysis(g, t, 100, 0) :
                      a.dependents \subseteq seen.dependents /\ RiskRank(a.risk) <= RiskRank(seen.risk)
               /\ \A a \in ExecuteImpactAnalysis(g, t, 100, 1) : a.dependents \subseteq {e.at : e \in edits}
<1>. DEFINE edits == plan.edits
            diffs == {[path |-> e.file, oldPath |-> {}, status |-> "modified", hunks |-> {<<e.line, 1>>}] : e \in edits}
            seen  == ExecuteDetectChanges(g, diffs, 100)
            deps(d) == Dependents(g, {t}, ClampTraversalDepth(d))
<1>1. /\ t \in Ids(g)
      /\ \A e \in edits : e.at \in Ids(g) /\ e.file = g.at[e.at].file /\ e.line = g.at[e.at].start
      /\ \E e \in edits : e.at = t
      /\ Before(g.edges["calls"], {t}) \subseteq {e.at : e \in edits}
    BY PlannedEdits
<1>2. /\ {e.at : e \in edits} \subseteq ResolveChangedSymbols(g, diffs).symbols \cap seen.changed
      /\ seen.changed \subseteq Ids(g)
      /\ seen.dependents = UNION {Dependents(g, Named(g, s), MaxDepth) : s \in seen.changed}
      /\ seen.risk = Risk(g, seen.changed \union seen.dependents)
  <2>1. edits # {}
      BY <1>1
  <2>2. diffs = DiffsOf(edits)
      BY DEF DiffsOf
  <2>. HIDE DEF edits, diffs
  <2>3. Detects(g, edits, ResolveChangedSymbols(g, diffs).symbols, seen)
      BY <2>1, <2>2, <1>1, EditsAreDetected
  <2>. QED BY <2>3 DEF Detects
<1>3. Named(g, t) = {t} /\ 100 \in Nat \ {0} /\ MaxDepth \in Nat \ {0}
    BY <1>1, GraphFacts, DepthAssumption
<1>4. /\ deps(0) = Dependents(g, {t}, MaxDepth)
      /\ deps(1) = Before(g.edges["calls"], {t})
      /\ \A d \in {0, 1} : IsFiniteSet(deps(d))
  <2>1. ClampTraversalDepth(0) = MaxDepth /\ ClampTraversalDepth(1) = 1
      BY Clamped
  <2>2. Dependents(g, {t}, 1) = Before(g.edges["calls"], {t})
      BY DependentsBounds
  <2>3. 1 \in Nat \ {0}
      OBVIOUS
  <2>. QED BY <2>1, <2>2, <2>3, <1>3, GraphFacts
<1>5. ASSUME NEW d \in {0, 1}, NEW a \in ExecuteImpactAnalysis(g, t, 100, d)
      PROVE  a.dependents = deps(d) /\ a.risk = Risk(g, deps(d))
  <2>1. d \in Int
      OBVIOUS
  <2>2. IsFiniteSet(Dependents(g, {t}, ClampTraversalDepth(d)))
      BY <1>4
  <2>3. TellImpact(ExecuteImpactAnalysis(g, t, 100, d), g, t, d)
      BY <2>1, <2>2, <1>3, ImpactOfOne
  <2>. QED BY <2>3 DEF TellImpact
<1>. HIDE DEF deps, seen, diffs
<1>6. deps(0) \subseteq seen.dependents
  <2>1. t \in seen.changed
      BY <1>1, <1>2
  <2>2. Dependents(g, Named(g, t), MaxDepth) = deps(0)
      BY <1>3, <1>4
  <2>. QED BY <2>1, <2>2, <1>2
<1>7. RiskRank(Risk(g, deps(0))) <= RiskRank(seen.risk)
  <2>. DEFINE all == seen.changed \union seen.dependents
  <2>1. all \subseteq Ids(g)
      BY <1>2, <1>3, GraphFacts
  <2>2. IsFiniteSet(all)
      BY <2>1, FS_Subset DEF IsGraph
  <2>3. deps(0) \subseteq all
      BY <1>6
  <2>. HIDE DEF all
  <2>4. RiskRank(Risk(g, deps(0))) <= RiskRank(Risk(g, all))
      BY <2>2, <2>3, RiskGrows
  <2>. QED BY <2>4, <1>2 DEF all
<1>8. \A a \in ExecuteImpactAnalysis(g, t, 100, 0) :
          a.dependents \subseteq seen.dependents /\ RiskRank(a.risk) <= RiskRank(seen.risk)
    BY <1>5, <1>6, <1>7
<1>9. \A a \in ExecuteImpactAnalysis(g, t, 100, 1) : a.dependents \subseteq {e.at : e \in edits}
    BY <1>1, <1>4, <1>5
<1>. QED BY <1>2, <1>8, <1>9 DEF seen, diffs

-----------------------------------------------------------------------------
(* Paths                                                                   *)

\* What the trace tool answers, for two symbols that were found.
LEMMA TracedPaths ==
    ASSUME NEW g, IsGraph(g), NEW from, NEW to, NEW depth \in Int, NEW r \in ExecuteTracePath(g, from, to, depth),
           r.from.kind # "not_found", r.to.kind # "not_found"
    PROVE  /\ r.from.node \in Ids(g)
           /\ r.found \in BOOLEAN
           /\ r.found => IsShortest(TraceEdges(g), Ids(g), r.from.node, r.to.node, ClampTraversalDepth(depth), r.hops)
           /\ ~r.found => TooFar(TraceEdges(g), Ids(g), r.from.node, r.to.node, ClampTraversalDepth(depth))
<1>. DEFINE n == ClampTraversalDepth(depth)
            paths(f, t) == BfsShortestPath(TraceEdges(g), f.node, t.node, n)
            none(f, t) == [from |-> f, to |-> t, found |-> FALSE, hops |-> << >>]
            some(f, t, p) == [from |-> f, to |-> t, found |-> TRUE, hops |-> p]
            traces(f, t) == IF f.kind = "not_found" \/ t.kind = "not_found" THEN {none(f, t)}
                            ELSE IF paths(f, t) = {} THEN {none(f, t)} ELSE {some(f, t, p) : p \in paths(f, t)}
<1>1. \A f, t, p : /\ none(f, t).from = f /\ none(f, t).to = t /\ none(f, t).found = FALSE
                   /\ some(f, t, p).from = f /\ some(f, t, p).to = t /\ some(f, t, p).found = TRUE
                   /\ some(f, t, p).hops = p
    OBVIOUS
<1>2. ExecuteTracePath(g, from, to, depth) =
          UNION {traces(f, t) : f \in ResolveSymbol(g, from), t \in ResolveSymbol(g, to)}
    BY DEF ExecuteTracePath
<1>. HIDE DEF none, some, paths
<1>3. PICK f \in ResolveSymbol(g, from), t \in ResolveSymbol(g, to) : r \in traces(f, t)
  <2>. HIDE DEF traces
  <2>. QED BY <1>2
<1>4. r.from = f /\ r.to = t
    BY <1>1, <1>3
<1>5. f.node \in Ids(g)
    BY <1>4, ResolvedAreSymbols
<1>6. CASE paths(f, t) = {}
  <2>1. r = none(f, t)
      BY <1>3, <1>6
  <2>2. TooFar(TraceEdges(g), Ids(g), f.node, t.node, n)
    <3>1. n \in Nat /\ TraceEdges(g) \subseteq Ids(g) \X Ids(g)
        BY Clamped, GraphFacts
    <3>. QED BY <3>1, <1>5, <1>6, ShortestPaths DEF paths
  <2>3. r.found = FALSE
      BY <2>1, <1>1
  <2>. HIDE DEF traces
  <2>. QED BY <2>2, <2>3, <1>4, <1>5
<1>7. CASE paths(f, t) # {}
  <2>1. PICK p \in paths(f, t) : r = some(f, t, p)
      BY <1>3, <1>4, <1>7
  <2>2. r.hops = p /\ r.found = TRUE
      BY <2>1, <1>1
  <2>3. IsShortest(TraceEdges(g), Ids(g), f.node, t.node, n, p)
    <3>1. n \in Nat /\ TraceEdges(g) \subseteq Ids(g) \X Ids(g)
        BY Clamped, GraphFacts
    <3>. QED BY <3>1, <1>5, <2>1, ShortestPaths DEF paths
  <2>. HIDE DEF traces
  <2>. QED BY <2>2, <2>3, <1>4, <1>5
<1>. QED BY <1>6, <1>7

\* The ways of at most m symbols, as TraceIsShortest has them.
ShortWalks(E, V, s, t, m) ==
    {p \in UNION {[1..k -> V] : k \in 1..m} : /\ p[1] = s /\ p[Len(p)] = t
                                              /\ \A i \in 1..(Len(p) - 1) : <<p[i], p[i + 1]>> \in E}

LEMMA ShortWalksAreWalks ==
    ASSUME NEW E, NEW V, NEW s, NEW t, NEW m \in Nat
    PROVE  /\ \A p \in ShortWalks(E, V, s, t, m) : \E k \in 1..m : p \in Walks(E, V, k, s, t)
           /\ \A k \in 1..m : Walks(E, V, k, s, t) \subseteq ShortWalks(E, V, s, t, m)
<1>1. ASSUME NEW k \in 1..m, NEW p \in [1..k -> V]
      PROVE  Len(p) = k
  <2>1. k \in Nat /\ p \in Seq(V) /\ DOMAIN p = 1..k
      OBVIOUS
  <2>. QED BY <2>1
<1>2. ASSUME NEW p \in ShortWalks(E, V, s, t, m)
      PROVE  \E k \in 1..m : p \in Walks(E, V, k, s, t)
  <2>1. PICK k \in 1..m : p \in [1..k -> V]
      BY DEF ShortWalks
  <2>2. Len(p) = k
      BY <2>1, <1>1
  <2>. QED BY <2>1, <2>2 DEF ShortWalks, Walks
<1>3. ASSUME NEW k \in 1..m, NEW p \in Walks(E, V, k, s, t)
      PROVE  p \in ShortWalks(E, V, s, t, m)
  <2>1. p \in [1..k -> V]
      BY DEF Walks
  <2>2. Len(p) = k
      BY <2>1, <1>1
  <2>3. p \in UNION {[1..i -> V] : i \in 1..m}
      BY <2>1
  <2>. QED BY <2>2, <2>3 DEF ShortWalks, Walks
<1>. QED BY <1>2, <1>3

\* A shortest way is as TraceIsShortest wants it; if the goal is too far there
\* is none.
LEMMA ShortestIsShort ==
    ASSUME NEW E, NEW V, NEW s, NEW t, NEW n \in Nat, NEW p
    PROVE  /\ IsShortest(E, V, s, t, n, p) =>
                  /\ p \in ShortWalks(E, V, s, t, Len(p)) /\ Len(p) - 1 <= n
                  /\ ShortWalks(E, V, s, t, Len(p) - 1) = {}
           /\ TooFar(E, V, s, t, n) => ShortWalks(E, V, s, t, n + 1) = {}
<1>1. ASSUME NEW m \in Nat, m <= n + 1, \A j \in 0..n : j < m => Walks(E, V, j + 1, s, t) = {}
      PROVE  ShortWalks(E, V, s, t, m) = {}
  <2>. SUFFICES ASSUME NEW q \in ShortWalks(E, V, s, t, m) PROVE FALSE
      OBVIOUS
  <2>1. PICK k \in 1..m : q \in Walks(E, V, k, s, t)
      BY ShortWalksAreWalks
  <2>2. k - 1 \in 0..n /\ k - 1 < m /\ (k - 1) + 1 = k
      BY <1>1
  <2>3. Walks(E, V, (k - 1) + 1, s, t) = {}
      BY <2>2, <1>1
  <2>. QED BY <2>1, <2>2, <2>3
<1>2. ASSUME IsShortest(E, V, s, t, n, p)
      PROVE  /\ p \in ShortWalks(E, V, s, t, Len(p)) /\ Len(p) - 1 <= n
             /\ ShortWalks(E, V, s, t, Len(p) - 1) = {}
  <2>1. PICK k \in 0..n : /\ p \in Walks(E, V, k + 1, s, t) /\ Len(p) = k + 1
                          /\ \A j \in 0..n : j < k => Walks(E, V, j + 1, s, t) = {}
      BY <1>2 DEF IsShortest
  <2>2. k \in Nat /\ k <= n + 1 /\ (k + 1) - 1 = k /\ k <= n /\ k + 1 \in Nat /\ k + 1 \in 1..(k + 1)
      OBVIOUS
  <2>3. p \in ShortWalks(E, V, s, t, k + 1)
      BY <2>1, <2>2, ShortWalksAreWalks
  <2>4. ShortWalks(E, V, s, t, k) = {}
      BY <2>1, <2>2, <1>1
  <2>. QED BY <2>1, <2>2, <2>3, <2>4
<1>3. ASSUME TooFar(E, V, s, t, n)
      PROVE  ShortWalks(E, V, s, t, n + 1) = {}
  <2>1. n + 1 \in Nat /\ n + 1 <= n + 1
      OBVIOUS
  <2>. QED BY <2>1, <1>1, <1>3 DEF TooFar
<1>. QED BY <1>2, <1>3

-----------------------------------------------------------------------------
(* Verdicts                                                                *)

LEMMA ImpactUnion ==
    ASSUME NEW answers, NEW g, NEW t, NEW d, TellImpact(answers, g, t, d)
    PROVE  UNION {a.dependents : a \in answers} = Dependents(g, {t}, ClampTraversalDepth(d))
BY DEF TellImpact

\* The dependents impact_analysis gives of a symbol known by its name.
LEMMA DependentsTold ==
    ASSUME NEW g, IsGraph(g), NEW q, NEW t, Named(g, q) = {t}
    PROVE  /\ UNION {a.dependents : a \in ExecuteImpactAnalysis(g, q, 100, 0)} = Dependents(g, {t}, MaxDepth)
           /\ UNION {a.dependents : a \in ExecuteImpactAnalysis(g, q, 100, 1)} = Before(g.edges["calls"], {t})
<1>1. ASSUME NEW d \in {0, 1}
      PROVE  UNION {a.dependents : a \in ExecuteImpactAnalysis(g, q, 100, d)} = Dependents(g, {t}, ClampTraversalDepth(d))
  <2>1. d \in Int /\ 100 \in Nat \ {0}
      OBVIOUS
  <2>2. IsFiniteSet(Dependents(g, {t}, ClampTraversalDepth(d)))
      BY <2>1, Clamped, GraphFacts
  <2>3. TellImpact(ExecuteImpactAnalysis(g, q, 100, d), g, t, d)
      BY <2>1, <2>2, ImpactOfOne
  <2>. QED BY <2>3, ImpactUnion
<1>2. ClampTraversalDepth(0) = MaxDepth /\ ClampTraversalDepth(1) = 1
    BY Clamped
<1>3. Dependents(g, {t}, 1) = Before(g.edges["calls"], {t})
  <2>1. 1 \in Nat \ {0}
      OBVIOUS
  <2>. QED BY <2>1, DependentsBounds
<1>4. 0 \in {0, 1} /\ 1 \in {0, 1}
    OBVIOUS
<1>. QED BY <1>1, <1>2, <1>3, <1>4

LEMMA Graded ==
    ASSUME NEW verdict, NEW basis, NEW dynamic
    PROVE  GradeVerdict(Assessment(verdict, basis, dynamic)).verdict =
               IF basis = "absence" /\ dynamic THEN "uncertain" ELSE verdict
BY DEF GradeVerdict, Assessment

\* What verify_claim says of the usage of a symbol.
LEMMA UsageVerdict ==
    ASSUME NEW g, IsGraph(g), NEW claim, claim.kind = "usage", NEW a \in ExecuteVerifyClaim(g, claim),
           NEW s \in Ids(g), Named(g, claim.symbol) = {s}
    PROVE  LET dependents == UNION {x.dependents : x \in ExecuteImpactAnalysis(g, claim.symbol, 100, 0)}
               dead == DeadCode(g, {g.at[x].kind : x \in Ids(g)})
           IN  /\ a.verdict = "confirmed" => s \in dead /\ dependents = {}
               /\ a.verdict = "refuted" => s \notin dead /\ dependents # {}
<1>. DEFINE q == claim.symbol
            callers == Before(g.edges["calls"], {s})
            dependents == UNION {x.dependents : x \in ExecuteImpactAnalysis(g, q, 100, 0)}
            dead == DeadCode(g, {g.at[x].kind : x \in Ids(g)})
            assessed(res) ==
                IF res.kind = "not_found" THEN UnresolvedAssessment
                ELSE IF Before(g.edges["calls"], {res.node}) # {} THEN Assessment("refuted", "presence", FALSE)
                ELSE IF IsExported(g, res.node) \/ g.at[res.node].name \in EntryNames
                     THEN Assessment("uncertain", "absence", TRUE)
                ELSE Assessment("confirmed", "absence", FALSE)
            ours == IF callers # {} THEN Assessment("refuted", "presence", FALSE)
                    ELSE IF IsExported(g, s) \/ g.at[s].name \in EntryNames THEN Assessment("uncertain", "absence", TRUE)
                    ELSE Assessment("confirmed", "absence", FALSE)
<1>1. VerifyUsage(g, q) = {ours}
  <2>1. VerifyUsage(g, q) = {assessed(res) : res \in ResolveSymbol(g, q)}
      BY DEF VerifyUsage
  <2>2. ResolveSymbol(g, q) = {Exact(s)}
      BY ResolvedByName
  <2>3. assessed(Exact(s)) = ours
    <3>1. Exact(s).kind = "exact" /\ Exact(s).node = s
        BY DEF Exact
    <3>. QED BY <3>1
  <2>. HIDE DEF assessed, ours
  <2>. QED BY <2>1, <2>2, <2>3
<1>2. a \in {[verdict |-> "uncertain", confidence |-> 50]} \union {GradeVerdict(x) : x \in VerifyUsage(g, q)}
  <2>. HIDE DEF ours, dead, dependents, callers
  <2>. QED BY DEF ExecuteVerifyClaim
<1>3. a.verdict \in {"uncertain", GradeVerdict(ours).verdict}
  <2>. HIDE DEF ours
  <2>. QED BY <1>1, <1>2
<1>4. dependents = Dependents(g, {s}, MaxDepth)
  <2>. HIDE DEF dead, ours, callers
  <2>. QED BY DependentsTold, ZenonT(40)
<1>5. callers \subseteq dependents /\ (callers = {} => dependents = {})
  <2>1. MaxDepth \in Nat \ {0}
      BY DepthAssumption
  <2>. QED BY <2>1, <1>4, DependentsBounds
<1>6. s \in dead <=> callers = {} /\ ~IsExported(g, s) /\ g.at[s].name \notin EntryNames
    BY DEF DeadCode, Uncalled
<1>. HIDE DEF callers, dependents, dead
<1>7. CASE callers # {}
  <2>1. ours = Assessment("refuted", "presence", FALSE)
      BY <1>7
  <2>2. GradeVerdict(ours).verdict = "refuted"
    <3>1. GradeVerdict(Assessment("refuted", "presence", FALSE)).verdict = "refuted"
        BY DEF GradeVerdict, Assessment
    <3>. HIDE DEF ours
    <3>. QED BY <2>1, <3>1
  <2>. HIDE DEF ours
  <2>. QED BY <2>2, <1>3, <1>5, <1>6, <1>7 DEF dependents, dead
<1>8. CASE callers = {} /\ (IsExported(g, s) \/ g.at[s].name \in EntryNames)
  <2>1. ours = Assessment("uncertain", "absence", TRUE)
      BY <1>8
  <2>2. GradeVerdict(ours).verdict = "uncertain"
    <3>1. GradeVerdict(Assessment("uncertain", "absence", TRUE)).verdict = "uncertain"
        BY DEF GradeVerdict, Assessment
    <3>. HIDE DEF ours
    <3>. QED BY <2>1, <3>1
  <2>. HIDE DEF ours
  <2>. QED BY <2>2, <1>3 DEF dependents, dead
<1>9. CASE callers = {} /\ ~(IsExported(g, s) \/ g.at[s].name \in EntryNames)
  <2>1. ours = Assessment("confirmed", "absence", FALSE)
      BY <1>9
  <2>2. GradeVerdict(ours).verdict = "confirmed"
    <3>1. GradeVerdict(Assessment("confirmed", "absence", FALSE)).verdict = "confirmed"
        BY DEF GradeVerdict, Assessment
    <3>. HIDE DEF ours
    <3>. QED BY <2>1, <3>1
  <2>. HIDE DEF ours
  <2>. QED BY <2>2, <1>3, <1>5, <1>6, <1>9 DEF dependents, dead
<1>. QED BY <1>7, <1>8, <1>9

\* A verdict of verify_claim is that of one of the assessments, or "uncertain".
LEMMA VerdictOfClaim ==
    ASSUME NEW g, NEW claim, NEW A, NEW a \in ExecuteVerifyClaim(g, claim),
           \/ claim.kind = "usage" /\ A = VerifyUsage(g, claim.symbol)
           \/ claim.kind = "edge" /\ A = VerifyEdge(g, claim.from, claim.to, claim.relation)
           \/ claim.kind = "reachability" /\ A = VerifyReachability(g, claim.from, claim.to, claim.polarity)
    PROVE  a.verdict = "uncertain" \/ \E x \in A : a.verdict = GradeVerdict(x).verdict
<1>1. a \in {[verdict |-> "uncertain", confidence |-> 50]} \union {GradeVerdict(x) : x \in A}
    BY DEF ExecuteVerifyClaim
<1>. QED BY <1>1

\* What verify_claim says of a call between two symbols.
LEMMA EdgeVerdict ==
    ASSUME NEW g, IsGraph(g), NEW claim, claim.kind = "edge", claim.relation = "calls",
           NEW a \in ExecuteVerifyClaim(g, claim),
           NEW s \in Ids(g), NEW t \in Ids(g), Named(g, claim.from) = {s}, Named(g, claim.to) = {t}
    PROVE  LET dependents == UNION {x.dependents : x \in ExecuteImpactAnalysis(g, claim.to, 100, 1)}
           IN  /\ a.verdict = "confirmed" => s \in dependents
               /\ a.verdict = "refuted" => s \notin dependents
<1>. DEFINE dependents == UNION {x.dependents : x \in ExecuteImpactAnalysis(g, claim.to, 100, 1)}
            assessed(f, u) ==
                IF f.kind = "not_found" \/ u.kind = "not_found" THEN UnresolvedAssessment
                ELSE LET present == Between(g, f.node, u.node)
                         dynamic == claim.relation = "calls" /\ "references" \in present
                     IN  IF claim.relation \in present THEN Assessment("confirmed", "presence", FALSE)
                         ELSE Assessment(IF dynamic THEN "uncertain" ELSE "refuted", "absence", dynamic)
            there == <<s, t>> \in g.edges["calls"]
            dynamic == "references" \in Between(g, s, t)
            ours == IF there THEN Assessment("confirmed", "presence", FALSE)
                    ELSE Assessment(IF dynamic THEN "uncertain" ELSE "refuted", "absence", dynamic)
<1>1. VerifyEdge(g, claim.from, claim.to, claim.relation) = {ours}
  <2>1. VerifyEdge(g, claim.from, claim.to, claim.relation) =
            {assessed(f, u) : f \in ResolveSymbol(g, claim.from), u \in ResolveSymbol(g, claim.to)}
      BY DEF VerifyEdge
  <2>2. ResolveSymbol(g, claim.from) = {Exact(s)} /\ ResolveSymbol(g, claim.to) = {Exact(t)}
      BY ResolvedByName
  <2>3. assessed(Exact(s), Exact(t)) = ours
    <3>1. Exact(s).kind = "exact" /\ Exact(s).node = s /\ Exact(t).kind = "exact" /\ Exact(t).node = t
        BY DEF Exact
    <3>2. "calls" \in Between(g, s, t) <=> there
        BY DEF Between, Labels
    <3>3. assessed(Exact(s), Exact(t)) =
              LET present == Between(g, s, t)
                  dyn == "references" \in present
              IN  IF "calls" \in present THEN Assessment("confirmed", "presence", FALSE)
                  ELSE Assessment(IF dyn THEN "uncertain" ELSE "refuted", "absence", dyn)
        BY <3>1
    <3>. HIDE DEF assessed, there
    <3>. QED BY <3>2, <3>3
  <2>. HIDE DEF assessed, ours
  <2>. QED BY <2>1, <2>2, <2>3
<1>2. a.verdict \in {"uncertain", GradeVerdict(ours).verdict}
  <2>. HIDE DEF ours
  <2>. QED BY <1>1, VerdictOfClaim
<1>3. s \in dependents <=> there
  <2>1. dependents = Before(g.edges["calls"], {t})
      BY DependentsTold
  <2>. QED BY <2>1 DEF Before
<1>. HIDE DEF dependents, there, dynamic
<1>4. CASE there
  <2>1. ours = Assessment("confirmed", "presence", FALSE)
      BY <1>4
  <2>2. GradeVerdict(ours).verdict = "confirmed"
    <3>1. GradeVerdict(Assessment("confirmed", "presence", FALSE)).verdict = "confirmed"
        BY DEF GradeVerdict, Assessment
    <3>. HIDE DEF ours
    <3>. QED BY <2>1, <3>1
  <2>. HIDE DEF ours
  <2>. QED BY <2>2, <1>2, <1>3, <1>4 DEF dependents
<1>5. CASE ~there
  <2>1. GradeVerdict(ours).verdict \in {"uncertain", "refuted"}
      BY <1>5, Graded
  <2>. QED BY <2>1, <1>2, <1>3, <1>5 DEF dependents
<1>. QED BY <1>4, <1>5

\* Calls are among the edges a trace follows.
LEMMA MoreEdges ==
    ASSUME NEW E, NEW F, E \subseteq F, NEW V, NEW n, NEW s, NEW t
    PROVE  Walks(E, V, n, s, t) \subseteq Walks(F, V, n, s, t)
BY DEF Walks

\* The end points of a trace are what the names were resolved to.
LEMMA TracedEnds ==
    ASSUME NEW g, NEW from, NEW to, NEW depth, NEW r \in ExecuteTracePath(g, from, to, depth)
    PROVE  r.from \in ResolveSymbol(g, from) /\ r.to \in ResolveSymbol(g, to)
<1>. DEFINE n == ClampTraversalDepth(depth)
            paths(f, t) == BfsShortestPath(TraceEdges(g), f.node, t.node, n)
            none(f, t) == [from |-> f, to |-> t, found |-> FALSE, hops |-> << >>]
            some(f, t, p) == [from |-> f, to |-> t, found |-> TRUE, hops |-> p]
            traces(f, t) == IF f.kind = "not_found" \/ t.kind = "not_found" THEN {none(f, t)}
                            ELSE IF paths(f, t) = {} THEN {none(f, t)} ELSE {some(f, t, p) : p \in paths(f, t)}
<1>1. \A f, t, p : /\ none(f, t).from = f /\ none(f, t).to = t
                   /\ some(f, t, p).from = f /\ some(f, t, p).to = t
    OBVIOUS
<1>2. ExecuteTracePath(g, from, to, depth) =
          UNION {traces(f, t) : f \in ResolveSymbol(g, from), t \in ResolveSymbol(g, to)}
    BY DEF ExecuteTracePath
<1>. HIDE DEF none, some, paths
<1>3. PICK f \in ResolveSymbol(g, from), t \in ResolveSymbol(g, to) : r \in traces(f, t)
  <2>. HIDE DEF traces
  <2>. QED BY <1>2
<1>4. r.from = f /\ r.to = t
    BY <1>1, <1>3
<1>. QED BY <1>3, <1>4

\* A symbol that depends on another one is found to lead to it.
LEMMA DependentIsTraced ==
    ASSUME NEW g, IsGraph(g), NEW from, NEW to, NEW r \in ExecuteTracePath(g, from, to, MaxDepth),
           NEW s \in Ids(g), NEW t \in Ids(g), Named(g, from) = {s}, Named(g, to) = {t},
           s \in Dependents(g, {t}, MaxDepth)
    PROVE  /\ r.from.kind # "not_found" /\ r.to.kind # "not_found"
           /\ r.found = TRUE
<1>1. r.from = Exact(s) /\ r.to = Exact(t)
  <2>1. r.from \in ResolveSymbol(g, from) /\ r.to \in ResolveSymbol(g, to)
      BY TracedEnds
  <2>. QED BY <2>1, ResolvedByName
<1>2. r.from.kind = "exact" /\ r.from.node = s /\ r.to.kind = "exact" /\ r.to.node = t
    BY <1>1 DEF Exact
<1>3. MaxDepth \in Nat \ {0} /\ MaxDepth \in Int /\ ClampTraversalDepth(MaxDepth) = MaxDepth
    BY DepthAssumption, Clamped
<1>4. r.found \in BOOLEAN /\ (~r.found => TooFar(TraceEdges(g), Ids(g), s, t, MaxDepth))
    BY <1>2, <1>3, TracedPaths
<1>5. PICK n \in 1..MaxDepth : \E p \in Walks(g.edges["calls"], Ids(g), n + 1, s, t) : TRUE
    BY <1>3, GraphFacts, DependentsWalk
<1>6. PICK p \in Walks(TraceEdges(g), Ids(g), n + 1, s, t) : TRUE
  <2>1. g.edges["calls"] \subseteq TraceEdges(g)
      BY DEF TraceEdges
  <2>. QED BY <2>1, <1>5, MoreEdges
<1>7. ~TooFar(TraceEdges(g), Ids(g), s, t, MaxDepth)
  <2>1. n \in 0..MaxDepth
      BY <1>3
  <2>. QED BY <2>1, <1>6 DEF TooFar
<1>. QED BY <1>2, <1>4, <1>7

\* What verify_claim says of a symbol that does depend on the other one.
LEMMA ReachabilityVerdict ==
    ASSUME NEW g, IsGraph(g), NEW claim, claim.kind = "reachability", NEW a \in ExecuteVerifyClaim(g, claim),
           NEW s \in Ids(g), NEW t \in Ids(g), Named(g, claim.from) = {s}, Named(g, claim.to) = {t},
           s \in UNION {x.dependents : x \in ExecuteImpactAnalysis(g, claim.to, 100, 0)}
    PROVE  a.verdict \in {"uncertain", IF claim.polarity = "reachable" THEN "confirmed" ELSE "refuted"}
<1>. DEFINE expected == IF claim.polarity = "reachable" THEN "confirmed" ELSE "refuted"
            assessed(r) ==
                IF r.from.kind = "not_found" \/ r.to.kind = "not_found" THEN UnresolvedAssessment
                ELSE IF r.found THEN Assessment(expected, "presence", FALSE)
                ELSE Assessment(IF claim.polarity = "reachable" THEN "refuted" ELSE "uncertain", "absence", FALSE)
<1>1. s \in Dependents(g, {t}, MaxDepth)
    BY DependentsTold
<1>2. VerifyReachability(g, claim.from, claim.to, claim.polarity) =
          {assessed(r) : r \in ExecuteTracePath(g, claim.from, claim.to, MaxDepth)}
    BY DEF VerifyReachability
<1>3. ASSUME NEW r \in ExecuteTracePath(g, claim.from, claim.to, MaxDepth)
      PROVE  assessed(r) = Assessment(expected, "presence", FALSE)
  <2>1. r.from.kind # "not_found" /\ r.to.kind # "not_found" /\ r.found = TRUE
      BY <1>1, DependentIsTraced
  <2>2. r.from.kind = "not_found" \/ r.to.kind = "not_found" <=> FALSE
      BY <2>1
  <2>. HIDE DEF expected
  <2>. QED BY <2>1, <2>2
<1>. HIDE DEF assessed, expected
<1>4. \A x \in VerifyReachability(g, claim.from, claim.to, claim.polarity) : GradeVerdict(x).verdict = expected
  <2>1. GradeVerdict(Assessment(expected, "presence", FALSE)).verdict = expected
      BY DEF GradeVerdict, Assessment
  <2>. QED BY <1>2, <1>3, <2>1
<1>5. a.verdict = "uncertain" \/ a.verdict = expected
    BY <1>4, VerdictOfClaim
<1>. QED BY <1>5 DEF expected

-----------------------------------------------------------------------------
(* What the validating handler lets through                                *)

\* The checks there are, and what they come to.
CheckNames == {"required", "nonBlank", "requiredEnum", "enum", "identifier", "number",
               "nonNegative", "positive", "string", "strings"}
Faults == {"ok", "MISSING_PARAMETER", "INVALID_PARAMETER_VALUE", "INVALID_PARAMETER_TYPE"}

LEMMA FaultOf ==
    ASSUME NEW p
    PROVE  /\ \A check \in CheckNames : Fault(p, check) \in Faults
           /\ Fault(p, "required") = "ok" => p.type = "string" /\ p.shape # "empty"
           /\ Fault(p, "nonBlank") = "ok" => p.type = "string" /\ p.shape \notin {"empty", "blank"}
           /\ Fault(p, "requiredEnum") = "ok" => p.type = "string" /\ p.shape = "ok"
<1>1. \A check \in CheckNames : Fault(p, check) \in Faults
    BY DEF CheckNames, Faults, Fault
<1>. QED BY <1>1 DEF Fault

LEMMA ChecksAreKnown ==
    ASSUME NEW tool \in Tools, NEW params
    PROVE  /\ DOMAIN Checks(tool, params) \subseteq Nat
           /\ \A i \in DOMAIN Checks(tool, params) : Checks(tool, params)[i][2] \in CheckNames
<1>. DEFINE Known(checks) == DOMAIN checks \subseteq Nat /\ \A i \in DOMAIN checks : checks[i][2] \in CheckNames
<1>1. CASE tool \in SymbolTools
  <2>1. Known(SymbolToolChecks(tool))
      BY <1>1 DEF SymbolToolChecks, SymbolTools, CheckNames
  <2>. HIDE DEF Known
  <2>2. Checks(tool, params) = SymbolToolChecks(tool)
      BY <1>1 DEF Checks, SymbolTools, GraphTools
  <2>. QED BY <2>1, <2>2 DEF Known
<1>2. CASE tool \in GraphTools
  <2>1. Known(GraphToolChecks(tool))
      BY <1>2 DEF GraphToolChecks, GraphTools, CheckNames
  <2>. HIDE DEF Known
  <2>2. Checks(tool, params) = GraphToolChecks(tool)
      BY <1>2 DEF Checks, SymbolTools, GraphTools
  <2>. QED BY <2>1, <2>2 DEF Known
<1>3. CASE tool = "detect_changes"
  <2>1. Known(DetectChangesChecks(params))
      BY DEF DetectChangesChecks, CheckNames
  <2>. HIDE DEF Known
  <2>2. Checks(tool, params) = DetectChangesChecks(params)
      BY <1>3 DEF Checks, SymbolTools, GraphTools
  <2>. QED BY <2>1, <2>2 DEF Known
<1>4. CASE tool = "verify_claim"
  <2>. DEFINE kind == Param(params, "kind").value
              claim == << <<"kind", "requiredEnum">> >> \o ClaimParams(kind)
  <2>1. Known(claim)
    <3>. HIDE DEF kind
    <3>. QED BY DEF ClaimParams, CheckNames
  <2>2. Checks(tool, params) = claim
    <3>. HIDE DEF Known
    <3>. QED BY <1>4 DEF Checks, SymbolTools, GraphTools
  <2>. HIDE DEF Known, claim
  <2>. QED BY <2>1, <2>2 DEF Known
<1>. QED BY <1>1, <1>2, <1>3, <1>4 DEF Tools

\* A call is accepted only if no check finds a fault, and is never answered
\* as if it had been executed.
LEMMA ChecksPassed ==
    ASSUME NEW tool, NEW params
    PROVE  /\ ValidateToolParams(tool, params) # "execute"
           /\ ValidateToolParams(tool, params) = "ok" =>
                  /\ tool \in Tools
                  /\ \A i \in DOMAIN Checks(tool, params) :
                         Fault(Param(params, Checks(tool, params)[i][1]), Checks(tool, params)[i][2]) = "ok"
<1>. DEFINE checks == Checks(tool, params)
            faults == [i \in DOMAIN checks |-> Fault(Param(params, checks[i][1]), checks[i][2])]
            bad    == {i \in DOMAIN checks : faults[i] # "ok"}
<1>1. ValidateToolParams(tool, params) =
          IF tool \notin Tools THEN "UNKNOWN_TOOL" ELSE IF bad = {} THEN "ok" ELSE faults[Min(bad)]
    BY DEF ValidateToolParams
<1>2. CASE tool \notin Tools
  <2>. HIDE DEF bad, faults
  <2>. QED BY <1>1, <1>2
<1>3. CASE tool \in Tools /\ bad = {}
  <2>1. \A i \in DOMAIN checks : Fault(Param(params, checks[i][1]), checks[i][2]) = "ok"
      BY <1>3
  <2>. HIDE DEF bad, faults
  <2>. QED BY <1>1, <1>3, <2>1
<1>4. CASE tool \in Tools /\ bad # {}
  <2>1. bad \in SUBSET Nat /\ \A i \in DOMAIN checks : checks[i][2] \in CheckNames
      BY <1>4, ChecksAreKnown
  <2>2. \A i \in bad : faults[i] # "ok" /\ faults[i] \in Faults
      BY <2>1, FaultOf
  <2>. HIDE DEF bad, faults
  <2>3. Min(bad) \in bad
      BY <2>1, <1>4, MinIsLeast
  <2>. QED BY <1>1, <1>4, <2>2, <2>3 DEF Faults
<1>. QED BY <1>2, <1>3, <1>4

\* What passed the checks of a tool is a text wherever the tool reads one.
LEMMA TextsAreThere ==
    ASSUME NEW c, IsCall(c), ValidateToolParams(c.tool, c.params) = "ok"
    PROVE  /\ \A p \in Reads(c.tool) : Param(c.params, p).type = "string" /\ Param(c.params, p).value # ""
           /\ c.tool = "smart_search" => AsString(Param(c.params, "query")) # ""
<1>1. \A p : Param(c.params, p).type = "string" /\ Param(c.params, p).shape # "empty" => Param(c.params, p).value # ""
    BY DEF IsCall, IsParam, Param, Absent
<1>2. \A i \in DOMAIN Checks(c.tool, c.params) :
          Fault(Param(c.params, Checks(c.tool, c.params)[i][1]), Checks(c.tool, c.params)[i][2]) = "ok"
    BY ChecksPassed
<1>3. ASSUME c.tool \in SymbolTools \union {"rename"}
      PROVE  Checks(c.tool, c.params) = IF c.tool = "rename" THEN GraphToolChecks(c.tool) ELSE SymbolToolChecks(c.tool)
    BY <1>3 DEF Checks, SymbolTools, GraphTools
<1>4. \A p \in Reads(c.tool) : Fault(Param(c.params, p), "required") = "ok"
  <2>1. CASE c.tool = "rename"
      BY <2>1, <1>2, <1>3 DEF Reads, GraphToolChecks
  <2>2. CASE c.tool \in {"get_symbol_context", "impact_analysis", "trace_data_flow"}
      BY <2>2, <1>2, <1>3 DEF Reads, SymbolToolChecks, SymbolTools
  <2>3. CASE c.tool = "trace"
      BY <2>3, <1>2, <1>3 DEF Reads, SymbolToolChecks, SymbolTools
  <2>. QED BY <2>1, <2>2, <2>3 DEF Reads
<1>5. c.tool = "smart_search" => Fault(Param(c.params, "query"), "nonBlank") = "ok"
    BY <1>2, <1>3 DEF SymbolToolChecks, SymbolTools
<1>. QED BY <1>1, <1>4, <1>5, FaultOf DEF AsString

\* A claim that passed is one verify_claim can parse, unless a text is blank.
LEMMA ClaimsParse ==
    ASSUME NEW c, IsCall(c), c.tool = "verify_claim", ValidateToolParams(c.tool, c.params) = "ok",
           \A p \in DOMAIN c.params : c.params[p].shape # "blank"
    PROVE  ParseClaim(c.params).kind # "invalid"
<1>. DEFINE params == c.params
            kind == Param(params, "kind")
            claim == << <<"kind", "requiredEnum">> >> \o ClaimParams(kind.value)
<1>1. \A i \in DOMAIN claim : Fault(Param(params, claim[i][1]), claim[i][2]) = "ok"
  <2>1. Checks(c.tool, params) = claim
      BY DEF Checks, SymbolTools, GraphTools
  <2>. HIDE DEF claim
  <2>. QED BY <2>1, ChecksPassed
<1>2. \A p : AsString(Param(params, p)) = IF Param(params, p).type = "string" THEN Param(params, p).value ELSE ""
    BY DEF IsCall, IsParam, Param, Absent, AsString
<1>3. \A p : Fault(Param(params, p), "required") = "ok" => AsString(Param(params, p)) # ""
  <2>1. \A p : Param(params, p).type = "string" /\ Param(params, p).shape # "empty" => Param(params, p).value # ""
      BY DEF IsCall, IsParam, Param, Absent
  <2>. QED BY <1>2, <2>1, FaultOf
<1>4. kind.type = "string" /\ kind.shape = "ok"
  <2>1. 1 \in DOMAIN claim /\ claim[1] = <<"kind", "requiredEnum">>
      BY DEF ClaimParams
  <2>. HIDE DEF claim, kind
  <2>. QED BY <2>1, <1>1, FaultOf DEF kind
<1>5. kind.value \in {"usage", "edge", "reachability"} /\ AsString(kind) = kind.value
    BY <1>2, <1>4 DEF IsCall
<1>. DEFINE text(n) == AsString(Param(params, n))
<1>6. CASE kind.value = "usage"
  <2>1. 2 \in DOMAIN claim /\ claim[2][1] = "symbol" /\ claim[2][2] = "required"
      BY <1>6 DEF ClaimParams
  <2>2. text("symbol") # ""
    <3>. HIDE DEF claim
    <3>1. Fault(Param(params, "symbol"), "required") = "ok"
        BY <2>1, <1>1
    <3>. QED BY <3>1, <1>3
  <2>. HIDE DEF text
  <2>. QED BY <2>2, <1>5, <1>6 DEF ParseClaim, text
<1>7. ASSUME kind.value \in {"edge", "reachability"}
      PROVE  text("from") # "" /\ text("to") # ""
  <2>1. /\ 2 \in DOMAIN claim /\ claim[2][1] = "from" /\ claim[2][2] = "required"
        /\ 3 \in DOMAIN claim /\ claim[3][1] = "to" /\ claim[3][2] = "required"
      BY <1>7 DEF ClaimParams
  <2>. HIDE DEF claim
  <2>2. Fault(Param(params, "from"), "required") = "ok" /\ Fault(Param(params, "to"), "required") = "ok"
      BY <2>1, <1>1
  <2>. QED BY <2>2, <1>3
<1>8. ASSUME kind.value = "edge" PROVE Param(params, "relation").shape = "ok"
  <2>1. 4 \in DOMAIN claim /\ claim[4] = <<"relation", "requiredEnum">>
      BY <1>8 DEF ClaimParams
  <2>. HIDE DEF claim
  <2>. QED BY <2>1, <1>1, FaultOf
<1>9. ASSUME kind.value = "reachability" PROVE Param(params, "polarity").shape = "ok"
  <2>1. 4 \in DOMAIN claim /\ claim[4] = <<"polarity", "requiredEnum">>
      BY <1>9 DEF ClaimParams
  <2>. HIDE DEF claim
  <2>. QED BY <2>1, <1>1, FaultOf
<1>10. text("kind") = kind.value
    BY <1>5
<1>11. ParseClaim(params).kind =
           IF CASE text("kind") = "usage" -> text("symbol") # ""
                [] text("kind") = "edge" -> text("from") # "" /\ text("to") # "" /\ Param(params, "relation").shape = "ok"
                [] text("kind") = "reachability" -> text("from") # "" /\ text("to") # "" /\ Param(params, "polarity").shape = "ok"
                [] OTHER -> FALSE
           THEN text("kind") ELSE "invalid"
    BY DEF ParseClaim
<1>. HIDE DEF text, kind, claim
<1>12. CASE kind.value = "edge"
    BY <1>7, <1>8, <1>10, <1>11, <1>12
<1>13. CASE kind.value = "reachability"
    BY <1>7, <1>9, <1>10, <1>11, <1>13
<1>. QED BY <1>5, <1>6, <1>12, <1>13

\* Nobody gets through without a token that is known.
LEMMA TokenIsKnown ==
    ASSUME NEW header, NEW params, NEW auth, auth.enabled,
           ValidateAuthToken(ExtractAuthToken(header, params), auth)
    PROVE  {header, Param(params, "token").value} \cap auth.tokens # {}
BY DEF ValidateAuthToken, ExtractAuthToken

\* All of it, of one call.
IsUnderstood(c, header, auth) ==
    /\ auth.enabled => {header, Param(c.params, "token").value} \cap auth.tokens # {}
    /\ CallTool(c.tool, c.params) = "execute"
    /\ \A p \in Reads(c.tool) : Param(c.params, p).type = "string" /\ Param(c.params, p).value # ""
    /\ c.tool = "verify_claim" => (\E p \in DOMAIN c.params : c.params[p].shape = "blank")
                                  \/ ParseClaim(c.params).kind # "invalid"

LEMMA Understood ==
    ASSUME NEW c, IsCall(c), NEW header, NEW auth, HandleMCPRequest(c.tool, c.params, header, auth) = "execute"
    PROVE  IsUnderstood(c, header, auth)
<1>1. /\ ValidateAuthToken(ExtractAuthToken(header, c.params), auth)
      /\ ValidateToolParams(c.tool, c.params) = "ok"
    BY ChecksPassed DEF HandleMCPRequest
<1>2. c.tool \in Tools
    BY <1>1, ChecksPassed
<1>. QED BY <1>1, <1>2, TokenIsKnown, TextsAreThere, ClaimsParse DEF CallTool, IsUnderstood

-----------------------------------------------------------------------------
(* Folds: a fold is a function defined by recursion over the subsets of a  *)
(* finite set, which takes one element of each                             *)

HasTable(S, a, F, n) == \E f \in [0..n -> S] : f[0] = a /\ \A k \in 1..n : f[k] = F[k][f[k - 1]]

LEMMA TableExists ==
    ASSUME NEW S, NEW a \in S, NEW F \in [Nat -> [S -> S]], NEW n \in Nat
    PROVE  HasTable(S, a, F, n)
BY Table DEF HasTable

HasFold(S, X, base, F, one) ==
    \E f \in [SUBSET S -> X] :
        \A T \in SUBSET S : f[T] = IF T = {} THEN base ELSE F[one[T]][f[T \ {one[T]}]]

\* Such a function exists, whichever element is taken.
LEMMA FoldExists ==
    ASSUME NEW S, IsFiniteSet(S), NEW X, NEW base \in X, NEW F \in [S -> [X -> X]],
           NEW one, \A T \in SUBSET S : T # {} => one[T] \in T
    PROVE  HasFold(S, X, base, F, one)
<1>. DEFINE Y == [SUBSET S -> X]
            next(h) == [T \in SUBSET S |-> IF T = {} THEN base ELSE F[one[T]][h[T \ {one[T]}]]]
            H == [k \in Nat |-> [h \in Y |-> next(h)]]
            first == [T \in SUBSET S |-> base]
            n == Cardinality(S)
<1>1. n \in Nat /\ \A T \in SUBSET S : IsFiniteSet(T) /\ Cardinality(T) \in 0..n
  <2>1. n \in Nat
      BY FS_CardinalityType
  <2>2. ASSUME NEW T \in SUBSET S PROVE IsFiniteSet(T) /\ Cardinality(T) <= n /\ Cardinality(T) \in Nat
      BY FS_Subset, FS_CardinalityType
  <2>. QED BY <2>1, <2>2
<1>2. ASSUME NEW h \in Y PROVE next(h) \in Y
  <2>. SUFFICES ASSUME NEW T \in SUBSET S, T # {} PROVE F[one[T]][h[T \ {one[T]}]] \in X
      OBVIOUS
  <2>1. one[T] \in S /\ h[T \ {one[T]}] \in X
      OBVIOUS
  <2>. QED BY <2>1
<1>3. H \in [Nat -> [Y -> Y]] /\ first \in Y
    BY <1>2
<1>4. PICK t \in [0..n -> Y] : t[0] = first /\ \A k \in 1..n : t[k] = H[k][t[k - 1]]
  <2>1. n \in Nat
      BY <1>1
  <2>2. HasTable(Y, first, H, n)
    <3>. HIDE DEF Y, H, first, n
    <3>. QED BY <1>3, <2>1, TableExists
  <2>. HIDE DEF Y, H, first, n
  <2>. QED BY <2>2 DEF HasTable
<1>. DEFINE f == [T \in SUBSET S |-> t[Cardinality(T)][T]]
<1>5. f \in Y
  <2>. HIDE DEF n
  <2>. QED BY <1>1
<1>6. f[{}] = base
  <2>1. {} \in SUBSET S /\ Cardinality({}) = 0
      BY FS_EmptySet
  <2>2. f[{}] = t[0][{}]
      BY <2>1
  <2>. QED BY <2>1, <2>2, <1>4
<1>7. ASSUME NEW T \in SUBSET S, T # {} PROVE f[T] = F[one[T]][f[T \ {one[T]}]]
  <2>. DEFINE m == Cardinality(T)
              U == T \ {one[T]}
  <2>1. IsFiniteSet(T) /\ one[T] \in T /\ U \in SUBSET S
      BY <1>1, <1>7
  <2>7. Cardinality(U) = m - 1
      BY <2>1, FS_RemoveElement
  <2>2. m \in 1..n /\ m - 1 \in 0..n
    <3>1. m # 0
        BY <1>7, <2>1, FS_EmptySet
    <3>. HIDE DEF n
    <3>. QED BY <1>1, <3>1
  <2>3. f[T] = t[m][T] /\ f[U] = t[m - 1][U]
      BY <2>1, <2>7
  <2>. HIDE DEF m
  <2>4. t[m - 1] \in Y /\ m \in Nat
    <3>. HIDE DEF Y, n
    <3>. QED BY <1>1, <1>4, <2>2
  <2>5. t[m] = next(t[m - 1])
    <3>1. t[m] = H[m][t[m - 1]]
        BY <2>2, <1>4
    <3>. HIDE DEF next, Y
    <3>. QED BY <2>4, <3>1
  <2>6. t[m][T] = F[one[T]][t[m - 1][U]]
    <3>1. \A h : next(h)[T] = F[one[T]][h[U]]
        BY <1>7
    <3>. HIDE DEF next, U
    <3>. QED BY <2>5, <3>1
  <2>. QED BY <2>3, <2>6
<1>. HIDE DEF f
<1>. QED BY <1>5, <1>6, <1>7 DEF HasFold

\* The last of the numbers up to n, and those before it.
LEMMA MaxIsGreatest ==
    ASSUME NEW n \in Nat, NEW T \in SUBSET (1..n), T # {}
    PROVE  Max(T) \in T /\ \A m \in T : m <= Max(T)
<1>. DEFINE U == {n - m : m \in T}
<1>1. U \in SUBSET Nat /\ U # {}
    OBVIOUS
<1>2. PICK u \in U : \A v \in U : u <= v
  <2>. HIDE DEF U
  <2>. QED BY <1>1, Least
<1>3. n - u \in T /\ \A m \in T : n - u >= m
  <2>1. PICK x \in T : u = n - x
      OBVIOUS
  <2>2. n - u = x
      BY <2>1
  <2>3. ASSUME NEW m \in T PROVE x >= m
    <3>1. u <= n - m
        BY <1>2
    <3>. QED BY <2>1, <3>1
  <2>. QED BY <2>2, <2>3
<1>4. Max(T) \in T /\ \A m \in T : Max(T) >= m
    BY <1>3 DEF Max
<1>. QED BY <1>4

LEMMA MaxOfUpTo ==
    ASSUME NEW n \in Nat, NEW k \in 1..n
    PROVE  /\ Max(1..k) = k /\ (1..k) \ {k} = 1..(k - 1)
           /\ 1..k # {} /\ 1..k \in SUBSET (1..n) /\ 1..(k - 1) \in SUBSET (1..n)
<1>1. k \in 1..k /\ 1..k \in SUBSET (1..n) /\ 1..(k - 1) \in SUBSET (1..n)
    OBVIOUS
<1>4. (1..k) \ {k} = 1..(k - 1)
    OBVIOUS
<1>2. Max(1..k) \in 1..k /\ \A m \in 1..k : m <= Max(1..k)
    BY <1>1, MaxIsGreatest
<1>3. Max(1..k) = k
    BY <1>1, <1>2
<1>. QED BY <1>1, <1>3, <1>4

\* What FoldLeft() is for a list of n: the last element first.
FoldsUp(f, n, base, F) ==
    \A T \in SUBSET (1..n) : f[T] = IF T = {} THEN base ELSE F[Max(T)][f[T \ {Max(T)}]]

LEMMA FoldUpExists ==
    ASSUME NEW n \in Nat, NEW X, NEW base \in X, NEW F \in [1..n -> [X -> X]]
    PROVE  \E f \in [SUBSET (1..n) -> X] : FoldsUp(f, n, base, F)
<1>. DEFINE one == [T \in SUBSET (1..n) |-> Max(T)]
<1>1. \A T \in SUBSET (1..n) : T # {} => one[T] \in T
    BY MaxIsGreatest
<1>2. IsFiniteSet(1..n)
    BY FS_Interval
<1>3. PICK f \in [SUBSET (1..n) -> X] :
          \A T \in SUBSET (1..n) : f[T] = IF T = {} THEN base ELSE F[one[T]][f[T \ {one[T]}]]
  <2>. DEFINE D == 1..n
  <2>1. \A T \in SUBSET D : T # {} => one[T] \in T
      BY <1>1
  <2>2. IsFiniteSet(D) /\ F \in [D -> [X -> X]]
      BY <1>2
  <2>3. HasFold(D, X, base, F, one)
    <3>. HIDE DEF one, D
    <3>. QED BY <2>1, <2>2, FoldExists
  <2>. HIDE DEF one
  <2>. QED BY <2>3 DEF HasFold
<1>4. \A T \in SUBSET (1..n) : one[T] = Max(T)
    OBVIOUS
<1>. HIDE DEF one
<1>5. FoldsUp(f, n, base, F)
    BY <1>3, <1>4 DEF FoldsUp
<1>. QED BY <1>5

\* Those() element by element.
Keeps(h, list, set) ==
    /\ h[0] = << >>
    /\ \A k \in 1..Len(list) : h[k] = IF list[k] \in set THEN Append(h[k - 1], list[k]) ELSE h[k - 1]
    /\ Those(list, set) = h[Len(list)]

LEMMA ThoseSteps ==
    ASSUME NEW S, NEW list \in Seq(S), NEW set
    PROVE  \E h : Keeps(h, list, set)
<1>. DEFINE n == Len(list)
            F == [k \in 1..n |-> [a \in Seq(S) |-> IF list[k] \in set THEN Append(a, list[k]) ELSE a]]
            G(f) == [T \in SUBSET DOMAIN list |->
                        IF T = {} THEN << >>
                        ELSE IF list[Max(T)] \in set THEN Append(f[T \ {Max(T)}], list[Max(T)]) ELSE f[T \ {Max(T)}]]
            it == CHOOSE f : f = G(f)
            h == [k \in 0..n |-> it[1..k]]
<1>1. Those(list, set) = it[DOMAIN list]
    BY Zenon DEF Those, FoldLeft, MapThenFoldSet
<1>2. n \in Nat /\ DOMAIN list = 1..n /\ \A k \in 1..n : list[k] \in S
    BY LenProperties, ElementOfSeq
<1>3. \E f : f = G(f)
  <2>1. << >> \in Seq(S) /\ F \in [1..n -> [Seq(S) -> Seq(S)]]
    <3>1. ASSUME NEW k \in 1..n, NEW a \in Seq(S) PROVE Append(a, list[k]) \in Seq(S)
        BY <1>2, AppendProperties
    <3>. QED BY <3>1, EmptySeq
  <2>2. PICK f \in [SUBSET (1..n) -> Seq(S)] : FoldsUp(f, n, << >>, F)
    <3>. HIDE DEF F, n
    <3>. QED BY <1>2, <2>1, FoldUpExists
  <2>3. ASSUME NEW T \in SUBSET (1..n), T # {}
        PROVE  f[T] = IF list[Max(T)] \in set THEN Append(f[T \ {Max(T)}], list[Max(T)]) ELSE f[T \ {Max(T)}]
    <3>1. Max(T) \in 1..n
      <4>. HIDE DEF n
      <4>. QED BY <1>2, <2>3, MaxIsGreatest
    <3>2. f[T \ {Max(T)}] \in Seq(S)
        OBVIOUS
    <3>3. f[T] = F[Max(T)][f[T \ {Max(T)}]]
        BY <2>2, <2>3 DEF FoldsUp
    <3>. HIDE DEF n
    <3>. QED BY <3>1, <3>2, <3>3
  <2>4. f[{}] = << >>
      BY <2>2 DEF FoldsUp
  <2>5. f = G(f)
    <3>. HIDE DEF n
    <3>. QED BY <1>2, <2>3, <2>4
  <2>. QED BY <2>5
<1>4. it = G(it)
  <2>. HIDE DEF G
  <2>. QED BY <1>3
<1>. HIDE DEF it
<1>5. it[1..0] = << >>
  <2>1. 1..0 = {}
      OBVIOUS
  <2>. QED BY <1>4, <2>1
<1>6. ASSUME NEW k \in 1..n
      PROVE  h[k] = IF list[k] \in set THEN Append(h[k - 1], list[k]) ELSE h[k - 1]
  <2>1. /\ Max(1..k) = k /\ (1..k) \ {k} = 1..(k - 1)
        /\ 1..k # {} /\ 1..k \in SUBSET DOMAIN list
    <3>. HIDE DEF n
    <3>. QED BY <1>2, MaxOfUpTo
  <2>2. it[1..k] = IF list[Max(1..k)] \in set THEN Append(it[(1..k) \ {Max(1..k)}], list[Max(1..k)]) ELSE it[(1..k) \ {Max(1..k)}]
      BY <1>4, <2>1
  <2>3. h[k] = it[1..k] /\ h[k - 1] = it[1..(k - 1)]
    <3>. HIDE DEF n
    <3>. QED BY <1>2
  <2>. HIDE DEF h
  <2>. QED BY <2>1, <2>2, <2>3
<1>7. h[0] = << >> /\ Those(list, set) = h[n]
  <2>. HIDE DEF n
  <2>. QED BY <1>1, <1>2, <1>5
<1>. HIDE DEF h
<1>8. Keeps(h, list, set)
    BY <1>6, <1>7 DEF Keeps
<1>. QED BY <1>8
\* Firsts() element by element.
Firstly(h, list) ==
    /\ h[0] = << >>
    /\ \A k \in 1..Len(list) : h[k] = IF list[k] \in Range(h[k - 1]) THEN h[k - 1] ELSE Append(h[k - 1], list[k])
    /\ Firsts(list) = h[Len(list)]

LEMMA FirstsSteps ==
    ASSUME NEW S, NEW list \in Seq(S)
    PROVE  \E h : Firstly(h, list)
<1>. DEFINE n == Len(list)
            X == Seq(S)
            F == [k \in 1..n |-> [a \in X |-> IF list[k] \in Range(a) THEN a ELSE Append(a, list[k])]]
            G(f) == [T \in SUBSET DOMAIN list |->
                        IF T = {} THEN << >>
                        ELSE IF list[Max(T)] \in Range(f[T \ {Max(T)}]) THEN f[T \ {Max(T)}] ELSE Append(f[T \ {Max(T)}], list[Max(T)])]
            it == CHOOSE f : f = G(f)
            h == [k \in 0..n |-> it[1..k]]
<1>1. Firsts(list) = it[DOMAIN list]
    BY Zenon DEF Firsts, FoldLeft, MapThenFoldSet
<1>2. n \in Nat /\ DOMAIN list = 1..n /\ \A k \in 1..n : list[k] \in S
    BY LenProperties, ElementOfSeq
<1>3. \E f : f = G(f)
  <2>1. << >> \in X /\ F \in [1..n -> [X -> X]]
    <3>1. ASSUME NEW k \in 1..n, NEW a \in Seq(S) PROVE Append(a, list[k]) \in Seq(S)
        BY <1>2, AppendProperties
    <3>. QED BY <3>1, EmptySeq
  <2>2. PICK f \in [SUBSET (1..n) -> X] : FoldsUp(f, n, << >>, F)
    <3>. HIDE DEF F, n, X
    <3>. QED BY <1>2, <2>1, FoldUpExists
  <2>3. ASSUME NEW T \in SUBSET (1..n), T # {}
        PROVE  f[T] = IF list[Max(T)] \in Range(f[T \ {Max(T)}]) THEN f[T \ {Max(T)}] ELSE Append(f[T \ {Max(T)}], list[Max(T)])
    <3>1. Max(T) \in 1..n
      <4>. HIDE DEF n
      <4>. QED BY <1>2, <2>3, MaxIsGreatest
    <3>2. f[T \ {Max(T)}] \in X
      <4>. HIDE DEF X
      <4>. QED OBVIOUS
    <3>3. f[T] = F[Max(T)][f[T \ {Max(T)}]]
        BY <2>2, <2>3 DEF FoldsUp
    <3>. HIDE DEF n, X
    <3>. QED BY <3>1, <3>2, <3>3
  <2>4. f[{}] = << >>
      BY <2>2 DEF FoldsUp
  <2>5. f = G(f)
    <3>. HIDE DEF n
    <3>. QED BY <1>2, <2>3, <2>4
  <2>. QED BY <2>5
<1>4. it = G(it)
  <2>. HIDE DEF G
  <2>. QED BY <1>3
<1>. HIDE DEF it
<1>5. it[1..0] = << >>
  <2>1. 1..0 = {}
      OBVIOUS
  <2>. QED BY <1>4, <2>1
<1>6. ASSUME NEW k \in 1..n
      PROVE  h[k] = IF list[k] \in Range(h[k - 1]) THEN h[k - 1] ELSE Append(h[k - 1], list[k])
  <2>1. /\ Max(1..k) = k /\ (1..k) \ {k} = 1..(k - 1)
        /\ 1..k # {} /\ 1..k \in SUBSET DOMAIN list
    <3>. HIDE DEF n
    <3>. QED BY <1>2, MaxOfUpTo
  <2>2. it[1..k] = IF list[Max(1..k)] \in Range(it[(1..k) \ {Max(1..k)}]) THEN it[(1..k) \ {Max(1..k)}] ELSE Append(it[(1..k) \ {Max(1..k)}], list[Max(1..k)])
      BY <1>4, <2>1
  <2>3. h[k] = it[1..k] /\ h[k - 1] = it[1..(k - 1)]
    <3>. HIDE DEF n
    <3>. QED BY <1>2
  <2>. HIDE DEF h
  <2>. QED BY <2>1, <2>2, <2>3
<1>7. h[0] = << >> /\ Firsts(list) = h[n]
  <2>. HIDE DEF n
  <2>. QED BY <1>1, <1>2, <1>5
<1>. HIDE DEF h
<1>8. Firstly(h, list)
    BY <1>6, <1>7 DEF Firstly
<1>. QED BY <1>8
\* TokensOf() element by element.
Sums(h, g, list) ==
    /\ h[0] = 0
    /\ \A k \in 1..Len(list) : h[k] = h[k - 1] + g.at[list[k]].tokens
    /\ TokensOf(g, list) = h[Len(list)]

LEMMA TokensSteps ==
    ASSUME NEW S, NEW list \in Seq(S), NEW g, \A s \in S : g.at[s].tokens \in Int
    PROVE  \E h : Sums(h, g, list)
<1>. DEFINE n == Len(list)
            X == Int
            F == [k \in 1..n |-> [a \in X |-> a + g.at[list[k]].tokens]]
            G(f) == [T \in SUBSET DOMAIN list |->
                        IF T = {} THEN 0
                        ELSE f[T \ {Max(T)}] + g.at[list[Max(T)]].tokens]
            it == CHOOSE f : f = G(f)
            h == [k \in 0..n |-> it[1..k]]
<1>1. TokensOf(g, list) = it[DOMAIN list]
    BY Zenon DEF TokensOf, FoldLeft, MapThenFoldSet
<1>2. n \in Nat /\ DOMAIN list = 1..n /\ \A k \in 1..n : list[k] \in S
    BY LenProperties, ElementOfSeq
<1>3. \E f : f = G(f)
  <2>1. 0 \in X /\ F \in [1..n -> [X -> X]]
    <3>1. ASSUME NEW k \in 1..n, NEW a \in Int PROVE a + g.at[list[k]].tokens \in Int
        BY <1>2
    <3>. QED BY <3>1
  <2>2. PICK f \in [SUBSET (1..n) -> X] : FoldsUp(f, n, 0, F)
    <3>. HIDE DEF F, n, X
    <3>. QED BY <1>2, <2>1, FoldUpExists
  <2>3. ASSUME NEW T \in SUBSET (1..n), T # {}
        PROVE  f[T] = f[T \ {Max(T)}] + g.at[list[Max(T)]].tokens
    <3>1. Max(T) \in 1..n
      <4>. HIDE DEF n
      <4>. QED BY <1>2, <2>3, MaxIsGreatest
    <3>2. f[T \ {Max(T)}] \in X
      <4>. HIDE DEF X
      <4>. QED OBVIOUS
    <3>3. f[T] = F[Max(T)][f[T \ {Max(T)}]]
        BY <2>2, <2>3 DEF FoldsUp
    <3>. HIDE DEF n, X
    <3>. QED BY <3>1, <3>2, <3>3
  <2>4. f[{}] = 0
      BY <2>2 DEF FoldsUp
  <2>5. f = G(f)
    <3>. HIDE DEF n
    <3>. QED BY <1>2, <2>3, <2>4
  <2>. QED BY <2>5
<1>4. it = G(it)
  <2>. HIDE DEF G
  <2>. QED BY <1>3
<1>. HIDE DEF it
<1>5. it[1..0] = 0
  <2>1. 1..0 = {}
      OBVIOUS
  <2>. QED BY <1>4, <2>1
<1>6. ASSUME NEW k \in 1..n
      PROVE  h[k] = h[k - 1] + g.at[list[k]].tokens
  <2>1. /\ Max(1..k) = k /\ (1..k) \ {k} = 1..(k - 1)
        /\ 1..k # {} /\ 1..k \in SUBSET DOMAIN list
    <3>. HIDE DEF n
    <3>. QED BY <1>2, MaxOfUpTo
  <2>2. it[1..k] = it[(1..k) \ {Max(1..k)}] + g.at[list[Max(1..k)]].tokens
      BY <1>4, <2>1
  <2>3. h[k] = it[1..k] /\ h[k - 1] = it[1..(k - 1)]
    <3>. HIDE DEF n
    <3>. QED BY <1>2
  <2>. HIDE DEF h
  <2>. QED BY <2>1, <2>2, <2>3
<1>7. h[0] = 0 /\ TokensOf(g, list) = h[n]
  <2>. HIDE DEF n
  <2>. QED BY <1>1, <1>2, <1>5
<1>. HIDE DEF h
<1>8. Sums(h, g, list)
    BY <1>6, <1>7 DEF Sums
<1>. QED BY <1>8
\* TakeWithin() element by element.
Takes(h, g, list, total, budget, ids) ==
    /\ h[0] = [ids |-> ids, total |-> total]
    /\ \A k \in 1..Len(list) : h[k] = Take(g, budget, h[k - 1], list[k])
    /\ TakeWithin(g, list, total, budget, ids) = h[Len(list)]

LEMMA TakeSteps ==
    ASSUME NEW S, NEW list \in Seq(S), NEW g, \A s \in S : g.at[s].tokens \in Int,
           NEW ids \in Seq(S), NEW total \in Int, NEW budget
    PROVE  \E h : Takes(h, g, list, total, budget, ids)
<1>. DEFINE n == Len(list)
            X == [ids : Seq(S), total : Int]
            F == [k \in 1..n |-> [a \in X |-> Take(g, budget, a, list[k])]]
            G(f) == [T \in SUBSET DOMAIN list |->
                        IF T = {} THEN [ids |-> ids, total |-> total]
                        ELSE Take(g, budget, f[T \ {Max(T)}], list[Max(T)])]
            it == CHOOSE f : f = G(f)
            h == [k \in 0..n |-> it[1..k]]
<1>1. TakeWithin(g, list, total, budget, ids) = it[DOMAIN list]
    BY Zenon DEF TakeWithin, FoldLeft, MapThenFoldSet
<1>2. n \in Nat /\ DOMAIN list = 1..n /\ \A k \in 1..n : list[k] \in S
    BY LenProperties, ElementOfSeq
<1>3. \E f : f = G(f)
  <2>1. [ids |-> ids, total |-> total] \in X /\ F \in [1..n -> [X -> X]]
    <3>1. ASSUME NEW k \in 1..n, NEW a \in X PROVE Take(g, budget, a, list[k]) \in X
      <4>1. Append(a.ids, list[k]) \in Seq(S) /\ a.total + g.at[list[k]].tokens \in Int
          BY <1>2, AppendProperties
      <4>. QED BY <4>1 DEF Take
    <3>. QED BY <3>1
  <2>2. PICK f \in [SUBSET (1..n) -> X] : FoldsUp(f, n, [ids |-> ids, total |-> total], F)
    <3>. HIDE DEF F, n, X
    <3>. QED BY <1>2, <2>1, FoldUpExists
  <2>3. ASSUME NEW T \in SUBSET (1..n), T # {}
        PROVE  f[T] = Take(g, budget, f[T \ {Max(T)}], list[Max(T)])
    <3>1. Max(T) \in 1..n
      <4>. HIDE DEF n
      <4>. QED BY <1>2, <2>3, MaxIsGreatest
    <3>2. f[T \ {Max(T)}] \in X
      <4>. HIDE DEF X
      <4>. QED OBVIOUS
    <3>3. f[T] = F[Max(T)][f[T \ {Max(T)}]]
        BY <2>2, <2>3 DEF FoldsUp
    <3>. HIDE DEF n, X
    <3>. QED BY <3>1, <3>2, <3>3
  <2>4. f[{}] = [ids |-> ids, total |-> total]
      BY <2>2 DEF FoldsUp
  <2>5. f = G(f)
    <3>. HIDE DEF n
    <3>. QED BY <1>2, <2>3, <2>4
  <2>. QED BY <2>5
<1>4. it = G(it)
  <2>. HIDE DEF G
  <2>. QED BY <1>3
<1>. HIDE DEF it
<1>5. it[1..0] = [ids |-> ids, total |-> total]
  <2>1. 1..0 = {}
      OBVIOUS
  <2>. QED BY <1>4, <2>1
<1>6. ASSUME NEW k \in 1..n
      PROVE  h[k] = Take(g, budget, h[k - 1], list[k])
  <2>1. /\ Max(1..k) = k /\ (1..k) \ {k} = 1..(k - 1)
        /\ 1..k # {} /\ 1..k \in SUBSET DOMAIN list
    <3>. HIDE DEF n
    <3>. QED BY <1>2, MaxOfUpTo
  <2>2. it[1..k] = Take(g, budget, it[(1..k) \ {Max(1..k)}], list[Max(1..k)])
      BY <1>4, <2>1
  <2>3. h[k] = it[1..k] /\ h[k - 1] = it[1..(k - 1)]
    <3>. HIDE DEF n
    <3>. QED BY <1>2
  <2>. HIDE DEF h
  <2>. QED BY <2>1, <2>2, <2>3
<1>7. h[0] = [ids |-> ids, total |-> total] /\ TakeWithin(g, list, total, budget, ids) = h[n]
  <2>. HIDE DEF n
  <2>. QED BY <1>1, <1>2, <1>5
<1>. HIDE DEF h
<1>8. Takes(h, g, list, total, budget, ids)
    BY <1>6, <1>7 DEF Takes
<1>. QED BY <1>8

-----------------------------------------------------------------------------
(* Lists of a set: every element once                                      *)

Lists(q, T) ==
    /\ q \in Seq(T)
    /\ \A s \in T : \E i \in 1..Len(q) : q[i] = s
    /\ \A i, j \in 1..Len(q) : q[i] = q[j] => i = j

LEMMA ListFacts ==
    ASSUME NEW T, NEW q, Lists(q, T)
    PROVE  /\ IsFiniteSet(T) /\ Cardinality(T) = Len(q)
           /\ {q[i] : i \in DOMAIN q} = T /\ Range(q) = T
<1>. DEFINE n == Len(q)
            f == [i \in 1..n |-> q[i]]
<1>1. n \in Nat /\ DOMAIN q = 1..n /\ \A i \in 1..n : q[i] \in T
    BY LenProperties, ElementOfSeq DEF Lists
<1>2. f \in Bijection(1..n, T)
  <2>1. f \in [1..n -> T]
      BY <1>1
  <2>2. \A i, j \in 1..n : f[i] = f[j] => i = j
      BY DEF Lists
  <2>3. \A s \in T : \E i \in 1..n : f[i] = s
      BY DEF Lists
  <2>. HIDE DEF f, n
  <2>. QED BY <2>1, <2>2, <2>3 DEF Bijection, Injection, Surjection, IsInjective
<1>3. IsFiniteSet(1..n) /\ Cardinality(1..n) = n
    BY <1>1, FS_Interval
<1>4. ExistsBijection(1..n, T)
  <2>. HIDE DEF f, n
  <2>. QED BY <1>2 DEF ExistsBijection
<1>5. IsFiniteSet(T) /\ Cardinality(T) = n
  <2>. HIDE DEF f, n
  <2>. QED BY <1>3, <1>4, FS_Bijection
<1>6. {q[i] : i \in DOMAIN q} = T
    BY <1>1 DEF Lists
<1>. QED BY <1>5, <1>6 DEF Range

LEMMA ListEmpty == Lists(<< >>, {})
BY EmptySeq DEF Lists

LEMMA ListAppend ==
    ASSUME NEW T, NEW q, Lists(q, T), NEW s, s \notin T
    PROVE  Lists(Append(q, s), T \union {s})
<1>. DEFINE n == Len(q)
            U == T \union {s}
            r == Append(q, s)
<1>1. n \in Nat /\ \A i \in 1..n : q[i] \in T
    BY LenProperties, ElementOfSeq DEF Lists
<1>2. q \in Seq(U)
    BY SeqMonotonic DEF Lists
<1>3. r \in Seq(U) /\ Len(r) = n + 1 /\ (\A i \in 1..n : r[i] = q[i]) /\ r[n + 1] = s
    BY <1>2, AppendProperties
<1>4. \A t \in U : \E i \in 1..(n + 1) : r[i] = t
  <2>. TAKE t \in U
  <2>1. CASE t = s
      BY <1>1, <1>3, <2>1
  <2>2. CASE t \in T
      BY <1>1, <1>3, <2>2 DEF Lists
  <2>. QED BY <2>1, <2>2
<1>5. \A i, j \in 1..(n + 1) : r[i] = r[j] => i = j
  <2>. SUFFICES ASSUME NEW i \in 1..(n + 1), NEW j \in 1..(n + 1), r[i] = r[j] PROVE i = j
      OBVIOUS
  <2>. HIDE DEF r
  <2>1. CASE i \in 1..n /\ j \in 1..n
      BY <1>3, <2>1 DEF Lists
  <2>2. CASE i = n + 1 /\ j = n + 1
      BY <2>2
  <2>3. CASE i \in 1..n /\ j = n + 1
      BY <1>1, <1>3, <2>3
  <2>4. CASE j \in 1..n /\ i = n + 1
      BY <1>1, <1>3, <2>4
  <2>. QED BY <1>1, <2>1, <2>2, <2>3, <2>4
<1>. HIDE DEF r, U, n
<1>6. Lists(r, U)
    BY <1>3, <1>4, <1>5 DEF Lists
<1>. QED BY <1>6 DEF r, U

\* The first elements of a list.
FirstOf(list, k) == {list[i] : i \in 1..k}

LEMMA FirstOfNext ==
    ASSUME NEW list, NEW k \in Nat, k # 0
    PROVE  FirstOf(list, k) = FirstOf(list, k - 1) \union {list[k]} /\ k - 1 \in Nat
<1>1. 1..k = 1..(k - 1) \union {k}
    OBVIOUS
<1>. QED BY <1>1 DEF FirstOf

LEMMA FirstOfAll ==
    ASSUME NEW S, NEW list \in Seq(S)
    PROVE  /\ FirstOf(list, 0) = {} /\ FirstOf(list, Len(list)) = Range(list)
           /\ \A k \in 0..Len(list) : FirstOf(list, k) \subseteq Range(list)
           /\ Range(list) \subseteq S
<1>1. Len(list) \in Nat /\ DOMAIN list = 1..Len(list) /\ \A i \in 1..Len(list) : list[i] \in S
    BY LenProperties, ElementOfSeq
<1>2. \A k \in 0..Len(list) : 1..k \subseteq 1..Len(list)
    BY <1>1
<1>. QED BY <1>1, <1>2 DEF FirstOf, Range

\* Those() of a list lists those of what it lists.
LEMMA ThoseLists ==
    ASSUME NEW A, NEW list, Lists(list, A), NEW set
    PROVE  Lists(Those(list, set), A \cap set)
<1>1. list \in Seq(A) /\ Len(list) \in Nat /\ Range(list) = A
    BY ListFacts, LenProperties DEF Lists
<1>2. PICK h : Keeps(h, list, set)
    BY <1>1, ThoseSteps
<1>. DEFINE Done(k) == Lists(h[k], FirstOf(list, k) \cap set)
            T == {k \in Nat : k \in 0..Len(list) => Done(k)}
<1>3. 0 \in T
  <2>1. h[0] = << >> /\ FirstOf(list, 0) = {}
      BY <1>1, <1>2, FirstOfAll DEF Keeps
  <2>. QED BY <2>1, ListEmpty
<1>4. ASSUME NEW k \in T PROVE k + 1 \in T
  <2>. SUFFICES ASSUME k + 1 \in 0..Len(list) PROVE Done(k + 1)
      OBVIOUS
  <2>. DEFINE m == k + 1
  <2>1. m \in 1..Len(list) /\ m - 1 = k /\ Done(k) /\ m \in Nat /\ m # 0
    <3>. HIDE DEF Done
    <3>. QED BY <1>1
  <2>. HIDE DEF m
  <2>2. h[m] = IF list[m] \in set THEN Append(h[m - 1], list[m]) ELSE h[m - 1]
      BY <1>2, <2>1 DEF Keeps
  <2>3. FirstOf(list, m) = FirstOf(list, k) \union {list[m]}
      BY <2>1, FirstOfNext
  <2>4. list[m] \notin FirstOf(list, k)
    <3>1. \A i \in 1..k : i \in 1..Len(list) /\ i # m
        BY <1>1, <2>1
    <3>. QED BY <2>1, <3>1 DEF FirstOf, Lists
  <2>5. CASE list[m] \in set
    <3>1. Lists(Append(h[k], list[m]), (FirstOf(list, k) \cap set) \union {list[m]})
        BY <2>1, <2>4, ListAppend
    <3>2. (FirstOf(list, k) \cap set) \union {list[m]} = FirstOf(list, m) \cap set
        BY <2>3, <2>5
    <3>. QED BY <2>1, <2>2, <2>5, <3>1, <3>2 DEF m
  <2>6. CASE list[m] \notin set
    <3>1. FirstOf(list, k) \cap set = FirstOf(list, m) \cap set
        BY <2>3, <2>6
    <3>. QED BY <2>1, <2>2, <2>6, <3>1 DEF m
  <2>. QED BY <2>5, <2>6
<1>5. T = Nat
  <2>1. T \in SUBSET Nat
      OBVIOUS
  <2>. HIDE DEF T
  <2>. QED BY <1>3, <1>4, <2>1, SetInduction
<1>6. Done(Len(list))
  <2>1. Len(list) \in T /\ Len(list) \in 0..Len(list)
    <3>. HIDE DEF T
    <3>. QED BY <1>1, <1>5
  <2>. HIDE DEF Done
  <2>. QED BY <2>1
<1>. QED BY <1>1, <1>2, <1>6, FirstOfAll DEF Keeps

\* Firsts() of a list lists its elements.
LEMMA FirstsLists ==
    ASSUME NEW S, NEW list \in Seq(S)
    PROVE  Lists(Firsts(list), Range(list))
<1>1. Len(list) \in Nat
    BY LenProperties
<1>2. PICK h : Firstly(h, list)
    BY FirstsSteps
<1>. DEFINE Done(k) == Lists(h[k], FirstOf(list, k))
            T == {k \in Nat : k \in 0..Len(list) => Done(k)}
<1>3. 0 \in T
  <2>1. h[0] = << >> /\ FirstOf(list, 0) = {}
      BY <1>2, FirstOfAll DEF Firstly
  <2>. QED BY <2>1, ListEmpty
<1>4. ASSUME NEW k \in T PROVE k + 1 \in T
  <2>. SUFFICES ASSUME k + 1 \in 0..Len(list) PROVE Done(k + 1)
      OBVIOUS
  <2>. DEFINE m == k + 1
  <2>1. m \in 1..Len(list) /\ m - 1 = k /\ Done(k) /\ m \in Nat /\ m # 0
    <3>. HIDE DEF Done
    <3>. QED BY <1>1
  <2>. HIDE DEF m
  <2>2. h[m] = IF list[m] \in Range(h[m - 1]) THEN h[m - 1] ELSE Append(h[m - 1], list[m])
      BY <1>2, <2>1 DEF Firstly
  <2>3. FirstOf(list, m) = FirstOf(list, k) \union {list[m]}
      BY <2>1, FirstOfNext
  <2>4. Range(h[m - 1]) = FirstOf(list, k)
      BY <2>1, ListFacts
  <2>5. CASE list[m] \in FirstOf(list, k)
    <3>1. FirstOf(list, k) = FirstOf(list, m)
        BY <2>3, <2>5
    <3>. QED BY <2>1, <2>2, <2>4, <2>5, <3>1 DEF m
  <2>6. CASE list[m] \notin FirstOf(list, k)
    <3>1. Lists(Append(h[k], list[m]), FirstOf(list, k) \union {list[m]})
        BY <2>1, <2>6, ListAppend
    <3>. QED BY <2>1, <2>2, <2>3, <2>4, <2>6, <3>1 DEF m
  <2>. QED BY <2>5, <2>6
<1>5. T = Nat
  <2>1. T \in SUBSET Nat
      OBVIOUS
  <2>. HIDE DEF T
  <2>. QED BY <1>3, <1>4, <2>1, SetInduction
<1>6. Done(Len(list))
  <2>1. Len(list) \in T /\ Len(list) \in 0..Len(list)
    <3>. HIDE DEF T
    <3>. QED BY <1>1, <1>5
  <2>. HIDE DEF Done
  <2>. QED BY <2>1
<1>. QED BY <1>2, <1>6, FirstOfAll DEF Firstly

-----------------------------------------------------------------------------
(* The tokens of a set, in whatever order they are added up                *)

Picked(T) == CHOOSE x \in T : TRUE

IsCost(f, g, U) ==
    /\ f[{}] = 0
    /\ \A T \in SUBSET U : T # {} => f[T] = f[T \ {Picked(T)}] + g.at[Picked(T)].tokens

LEMMA CostExists ==
    ASSUME NEW g, NEW U, IsFiniteSet(U), \A s \in U : g.at[s].tokens \in Nat
    PROVE  \E f : IsCost(f, g, U) /\ CostOf(g, U) = f[U]
<1>. DEFINE F == [s \in U |-> [n \in Int |-> n + g.at[s].tokens]]
            one == [T \in SUBSET U |-> Picked(T)]
            G(f) == [T \in SUBSET U |->
                        IF T = {} THEN 0
                        ELSE f[T \ {CHOOSE x \in T : TRUE}] + g.at[CHOOSE x \in T : TRUE].tokens]
            it == CHOOSE f : f = G(f)
<1>1. CostOf(g, U) = it[U]
    BY Zenon DEF CostOf, FoldSet, MapThenFoldSet
<1>2. \A T \in SUBSET U : T # {} => Picked(T) \in T
    BY Zenon DEF Picked
<1>3. PICK f \in [SUBSET U -> Int] : \A T \in SUBSET U : f[T] = IF T = {} THEN 0 ELSE F[one[T]][f[T \ {one[T]}]]
  <2>1. F \in [U -> [Int -> Int]] /\ 0 \in Int
      OBVIOUS
  <2>2. \A T \in SUBSET U : T # {} => one[T] \in T
      BY <1>2
  <2>3. HasFold(U, Int, 0, F, one)
    <3>. HIDE DEF F, one
    <3>. QED BY <2>1, <2>2, FoldExists
  <2>. HIDE DEF F, one
  <2>. QED BY <2>3 DEF HasFold
<1>4. ASSUME NEW T \in SUBSET U, T # {}
      PROVE  f[T] = f[T \ {Picked(T)}] + g.at[Picked(T)].tokens
  <2>1. one[T] = Picked(T) /\ Picked(T) \in U
      BY <1>2, <1>4
  <2>2. f[T] = F[Picked(T)][f[T \ {Picked(T)}]]
    <3>. HIDE DEF F, one
    <3>. QED BY <1>3, <1>4, <2>1
  <2>3. f[T \ {Picked(T)}] \in Int
      OBVIOUS
  <2>. QED BY <2>1, <2>2, <2>3
<1>5. f[{}] = 0
  <2>1. {} \in SUBSET U
      OBVIOUS
  <2>. HIDE DEF F, one
  <2>. QED BY <1>3, <2>1
<1>6. f = G(f)
  <2>1. f = [T \in SUBSET U |-> f[T]]
      OBVIOUS
  <2>2. ASSUME NEW T \in SUBSET U
        PROVE  f[T] = IF T = {} THEN 0 ELSE f[T \ {CHOOSE x \in T : TRUE}] + g.at[CHOOSE x \in T : TRUE].tokens
      BY Zenon, <1>4, <1>5 DEF Picked
  <2>. QED BY Zenon, <2>1, <2>2
<1>7. it = G(it)
  <2>. HIDE DEF G
  <2>. QED BY <1>6
<1>. HIDE DEF it
<1>8. it[{}] = 0
  <2>1. {} \in SUBSET U
      OBVIOUS
  <2>. QED BY <1>7, <2>1
<1>9. ASSUME NEW T \in SUBSET U, T # {}
      PROVE  it[T] = it[T \ {Picked(T)}] + g.at[Picked(T)].tokens
  <2>. HIDE DEF F, one
  <2>1. it[T] = IF T = {} THEN 0 ELSE it[T \ {CHOOSE x \in T : TRUE}] + g.at[CHOOSE x \in T : TRUE].tokens
      BY Zenon, <1>7
  <2>. QED BY Zenon, <1>9, <2>1 DEF Picked
<1>10. IsCost(it, g, U)
    BY <1>8, <1>9 DEF IsCost
<1>. QED BY <1>1, <1>10

\* Whichever element is taken last, the sum is the same.
SameAnyway(f, g, T) ==
    f[T] \in Nat /\ \A y \in T : f[T] = f[T \ {y}] + g.at[y].tokens

LEMMA CostOrder ==
    ASSUME NEW g, NEW U, IsFiniteSet(U), \A s \in U : g.at[s].tokens \in Nat, NEW f, IsCost(f, g, U)
    PROVE  \A T \in SUBSET U : SameAnyway(f, g, T)
<1>. DEFINE Done(n) == \A T \in SUBSET U : Cardinality(T) <= n => SameAnyway(f, g, T)
            N == {n \in Nat : Done(n)}
<1>1. \A T \in SUBSET U : IsFiniteSet(T) /\ Cardinality(T) \in Nat
    BY FS_Subset, FS_CardinalityType
<1>2. 0 \in N
  <2>1. \A T \in SUBSET U : Cardinality(T) <= 0 => T = {}
    <3>1. \A T \in SUBSET U : Cardinality(T) <= 0 => Cardinality(T) = 0
        BY <1>1
    <3>. QED BY <1>1, <3>1, FS_EmptySet
  <2>2. SameAnyway(f, g, {})
      BY DEF SameAnyway, IsCost
  <2>. QED BY <2>1, <2>2
<1>3. ASSUME NEW n \in N PROVE n + 1 \in N
  <2>. SUFFICES ASSUME NEW T \in SUBSET U, Cardinality(T) <= n + 1 PROVE SameAnyway(f, g, T)
      OBVIOUS
  <2>. DEFINE x == Picked(T)
              tok(s) == g.at[s].tokens
  <2>1. n \in Nat /\ Done(n)
      OBVIOUS
  <2>. HIDE DEF Done
  <2>7. CASE T = {}
    <3>1. f[{}] = 0
        BY DEF IsCost
    <3>. QED BY <2>7, <3>1 DEF SameAnyway
  <2>8. CASE T # {}
    <3>2. x \in T /\ x \in U
        BY Zenon, <2>8 DEF Picked
    <3>. HIDE DEF x
    <3>3. f[T] = f[T \ {x}] + tok(x)
        BY <2>8 DEF IsCost, x
    <3>4. ASSUME NEW W \in SUBSET T, W # T PROVE SameAnyway(f, g, W)
      <4>1. /\ IsFiniteSet(T) /\ Cardinality(T) \in Nat /\ Cardinality(W) \in Nat
            /\ W \in SUBSET U
          BY <1>1
      <4>2. Cardinality(W) <= Cardinality(T) /\ Cardinality(W) # Cardinality(T)
          BY <4>1, <3>4, FS_Subset
      <4>3. Cardinality(W) <= n
          BY <2>1, <4>1, <4>2
      <4>. QED BY <2>1, <4>1, <4>3 DEF Done
    <3>5. f[T] \in Nat
      <4>1. f[T \ {x}] \in Nat /\ tok(x) \in Nat
          BY <3>2, <3>4 DEF SameAnyway
      <4>. QED BY <3>3, <4>1
    <3>6. ASSUME NEW y \in T PROVE f[T] = f[T \ {y}] + tok(y)
      <4>1. CASE y = x
          BY <3>3, <4>1
      <4>2. CASE y # x
        <5>. DEFINE V == (T \ {x}) \ {y}
        <5>1. V = (T \ {y}) \ {x} /\ V \in SUBSET U
            OBVIOUS
        <5>2. f[T \ {x}] = f[V] + tok(y)
            BY <3>2, <3>4, <4>2 DEF SameAnyway
        <5>3. f[T \ {y}] = f[V] + tok(x)
          <6>1. f[T \ {y}] = f[(T \ {y}) \ {x}] + tok(x)
              BY <3>2, <3>4, <4>2 DEF SameAnyway
          <6>. HIDE DEF V
          <6>. QED BY <5>1, <6>1
        <5>4. f[V] \in Int
          <6>1. SameAnyway(f, g, V)
              BY <3>2, <3>4
          <6>. QED BY <6>1 DEF SameAnyway
        <5>5. tok(x) \in Nat /\ tok(y) \in Nat
            BY <3>2
        <5>. HIDE DEF V, tok
        <5>. QED BY <3>3, <5>2, <5>3, <5>4, <5>5
      <4>. QED BY <4>1, <4>2
    <3>. QED BY <3>5, <3>6 DEF SameAnyway
  <2>. QED BY <2>7, <2>8
<1>4. N = Nat
  <2>1. N \in SUBSET Nat
      OBVIOUS
  <2>. HIDE DEF N
  <2>. QED BY <1>2, <1>3, <2>1, SetInduction
<1>5. \A n \in Nat : Done(n)
  <2>1. \A n \in Nat : n \in N
    <3>. HIDE DEF N
    <3>. QED BY <1>4
  <2>. HIDE DEF Done
  <2>. QED BY <2>1
<1>. QED BY <1>1, <1>5

LEMMA CostAgree ==
    ASSUME NEW g, NEW U, IsFiniteSet(U), NEW W, U \subseteq W,
           NEW f, IsCost(f, g, U), NEW h, IsCost(h, g, W)
    PROVE  \A T \in SUBSET U : f[T] = h[T]
<1>. DEFINE Done(n) == \A T \in SUBSET U : Cardinality(T) = n => f[T] = h[T]
            N == {n \in Nat : Done(n)}
<1>1. \A T \in SUBSET U : IsFiniteSet(T) /\ Cardinality(T) \in Nat
    BY FS_Subset, FS_CardinalityType
<1>2. 0 \in N
  <2>1. \A T \in SUBSET U : Cardinality(T) = 0 => T = {}
      BY <1>1, FS_EmptySet
  <2>2. f[{}] = h[{}]
      BY DEF IsCost
  <2>. QED BY <2>1, <2>2
<1>3. ASSUME NEW n \in N PROVE n + 1 \in N
  <2>. SUFFICES ASSUME NEW T \in SUBSET U, Cardinality(T) = n + 1 PROVE f[T] = h[T]
      OBVIOUS
  <2>. DEFINE x == Picked(T)
  <2>1. n \in Nat /\ Done(n)
      OBVIOUS
  <2>. HIDE DEF Done
  <2>2. T # {}
      BY <2>1, FS_EmptySet
  <2>3. x \in T
      BY Zenon, <2>2 DEF Picked
  <2>4. f[T] = f[T \ {x}] + g.at[x].tokens
      BY <2>2 DEF IsCost
  <2>5. h[T] = h[T \ {x}] + g.at[x].tokens
    <3>1. T \in SUBSET W
        OBVIOUS
    <3>. QED BY <2>2, <3>1 DEF IsCost
  <2>. HIDE DEF x
  <2>6. Cardinality(T \ {x}) = n
    <3>1. IsFiniteSet(T) /\ Cardinality(T) = n + 1
        BY <1>1
    <3>2. Cardinality(T \ {x}) = Cardinality(T) - 1
        BY <2>3, <3>1, FS_RemoveElement
    <3>. QED BY <2>1, <3>1, <3>2
  <2>7. f[T \ {x}] = h[T \ {x}]
      BY <2>1, <2>6 DEF Done
  <2>. QED BY <2>4, <2>5, <2>7
<1>4. N = Nat
  <2>1. N \in SUBSET Nat
      OBVIOUS
  <2>. HIDE DEF N
  <2>. QED BY <1>2, <1>3, <2>1, SetInduction
<1>5. \A n \in Nat : Done(n)
  <2>1. \A n \in Nat : n \in N
    <3>. HIDE DEF N
    <3>. QED BY <1>4
  <2>. HIDE DEF Done
  <2>. QED BY <2>1
<1>. QED BY <1>1, <1>5

LEMMA CostAdds ==
    ASSUME NEW g, NEW T, IsFiniteSet(T), NEW s, s \notin T,
           \A x \in T \union {s} : g.at[x].tokens \in Nat
    PROVE  CostOf(g, T) \in Nat /\ CostOf(g, T \union {s}) = CostOf(g, T) + g.at[s].tokens
<1>. DEFINE U == T \union {s}
<1>1. IsFiniteSet(U) /\ T \in SUBSET U /\ U \in SUBSET U /\ s \in U /\ U \ {s} = T
    BY FS_AddElement
<1>. HIDE DEF U
<1>2. (\A x \in T : g.at[x].tokens \in Nat) /\ \A x \in U : g.at[x].tokens \in Nat
    BY DEF U
<1>3. PICK f : IsCost(f, g, U) /\ CostOf(g, U) = f[U]
    BY <1>1, <1>2, CostExists
<1>4. PICK h : IsCost(h, g, T) /\ CostOf(g, T) = h[T]
    BY <1>2, CostExists
<1>5. SameAnyway(f, g, U) /\ SameAnyway(f, g, T)
    BY <1>1, <1>2, <1>3, CostOrder
<1>6. h[T] = f[T]
    BY <1>1, <1>3, <1>4, CostAgree
<1>7. f[U] = f[T] + g.at[s].tokens /\ f[T] \in Nat
    BY <1>1, <1>5 DEF SameAnyway
<1>. QED BY <1>3, <1>4, <1>6, <1>7 DEF U

LEMMA CostNothing == ASSUME NEW g PROVE CostOf(g, {}) = 0
<1>1. IsFiniteSet({}) /\ \A x \in {} : g.at[x].tokens \in Nat
    BY FS_EmptySet
<1>2. PICK f : IsCost(f, g, {}) /\ CostOf(g, {}) = f[{}]
    BY <1>1, CostExists
<1>. QED BY <1>2 DEF IsCost

\* What TokensOf() and TakeWithin() make of lists.
LEMMA TokensAreCost ==
    ASSUME NEW g, NEW A, NEW list, Lists(list, A), \A s \in A : g.at[s].tokens \in Nat
    PROVE  TokensOf(g, list) = CostOf(g, A)
<1>1. list \in Seq(A) /\ Len(list) \in Nat /\ Range(list) = A /\ IsFiniteSet(A)
    BY ListFacts, LenProperties DEF Lists
<1>2. PICK h : Sums(h, g, list)
  <2>1. \A s \in A : g.at[s].tokens \in Int
      OBVIOUS
  <2>. QED BY <1>1, <2>1, TokensSteps
<1>. DEFINE Done(k) == h[k] = CostOf(g, FirstOf(list, k))
            T == {k \in Nat : k \in 0..Len(list) => Done(k)}
<1>3. 0 \in T
  <2>1. h[0] = 0 /\ FirstOf(list, 0) = {}
      BY <1>1, <1>2, FirstOfAll DEF Sums
  <2>. QED BY <2>1, CostNothing
<1>4. ASSUME NEW k \in T PROVE k + 1 \in T
  <2>. SUFFICES ASSUME k + 1 \in 0..Len(list) PROVE Done(k + 1)
      OBVIOUS
  <2>. DEFINE m == k + 1
              B == FirstOf(list, k)
  <2>1. m \in 1..Len(list) /\ m - 1 = k /\ h[k] = CostOf(g, B) /\ m \in Nat /\ m # 0
      BY <1>1
  <2>. HIDE DEF m
  <2>2. h[m] = h[k] + g.at[list[m]].tokens
      BY <1>2, <2>1 DEF Sums
  <2>3. FirstOf(list, m) = B \union {list[m]}
      BY <2>1, FirstOfNext
  <2>4. list[m] \notin B
    <3>1. \A i \in 1..k : i \in 1..Len(list) /\ i # m
        BY <1>1, <2>1
    <3>. QED BY <2>1, <3>1 DEF FirstOf, Lists
  <2>5. B \subseteq A /\ list[m] \in A /\ IsFiniteSet(B)
    <3>1. B \subseteq A /\ list[m] \in A
        BY <1>1, <2>1, FirstOfAll, ElementOfSeq
    <3>. QED BY <1>1, <3>1, FS_Subset
  <2>. HIDE DEF B
  <2>6. CostOf(g, B \union {list[m]}) = CostOf(g, B) + g.at[list[m]].tokens
      BY <2>4, <2>5, CostAdds
  <2>7. h[m] = CostOf(g, FirstOf(list, m))
      BY <2>1, <2>2, <2>3, <2>6
  <2>. QED BY <2>7 DEF m
<1>5. T = Nat
  <2>1. T \in SUBSET Nat
      OBVIOUS
  <2>. HIDE DEF T
  <2>. QED BY <1>3, <1>4, <2>1, SetInduction
<1>6. Done(Len(list))
  <2>1. Len(list) \in T /\ Len(list) \in 0..Len(list)
    <3>. HIDE DEF T
    <3>. QED BY <1>1, <1>5
  <2>. HIDE DEF Done
  <2>. QED BY <2>1
<1>. QED BY <1>1, <1>2, <1>6, FirstOfAll DEF Sums

\* What has been taken when the pass has come to symbols N of those that are not
\* pinned: some of them, and what was left would not fit now either.
Taken(g, budget, pinned, N, r, K) ==
    /\ K \in SUBSET N
    /\ Lists(r.ids, pinned \union K)
    /\ r.total = CostOf(g, pinned \union K) /\ r.total \in Nat
    /\ budget # 0 => r.total <= budget \/ K = {}
    /\ K = N \/ (budget # 0 /\ \E s \in N \ K : r.total + g.at[s].tokens > budget)

LEMMA TakesOne ==
    ASSUME NEW g, NEW budget \in Int, NEW pinned, NEW N, NEW r, NEW K, Taken(g, budget, pinned, N, r, K),
           NEW s, s \notin pinned \union N, \A x \in pinned \union N \union {s} : g.at[x].tokens \in Nat
    PROVE  \E L : Taken(g, budget, pinned, N \union {s}, Take(g, budget, r, s), L)
<1>. DEFINE M == N \union {s}
            B == pinned \union K
            tok(x) == g.at[x].tokens
<1>1. r.total \in Nat /\ tok(s) \in Nat /\ s \notin B /\ \A x \in M : tok(x) \in Nat
    BY DEF Taken
<1>2. CASE budget # 0 /\ r.total + tok(s) > budget
  <2>1. Take(g, budget, r, s) = r
      BY <1>2 DEF Take
  <2>2. K \in SUBSET M /\ s \in M \ K
      BY <1>1 DEF Taken
  <2>3. Taken(g, budget, pinned, M, r, K)
      BY <1>2, <2>2 DEF Taken
  <2>. QED BY <2>1, <2>3
<1>3. CASE ~(budget # 0 /\ r.total + tok(s) > budget)
  <2>. DEFINE L == K \union {s}
              t == Take(g, budget, r, s)
  <2>1. t = [ids |-> Append(r.ids, s), total |-> r.total + tok(s)]
      BY <1>3 DEF Take
  <2>2. t.ids = Append(r.ids, s) /\ t.total = r.total + tok(s)
      BY <2>1
  <2>. HIDE DEF t
  <2>3. pinned \union L = B \union {s} /\ L \in SUBSET M
      BY DEF Taken
  <2>4. Lists(t.ids, B \union {s})
      BY <1>1, <2>2, ListAppend DEF Taken
  <2>5. t.total = CostOf(g, B \union {s})
    <3>1. IsFiniteSet(B) /\ \A x \in B \union {s} : tok(x) \in Nat
        BY ListFacts DEF Taken
    <3>2. CostOf(g, B \union {s}) = CostOf(g, B) + tok(s)
        BY <1>1, <3>1, CostAdds
    <3>. QED BY <2>2, <3>2 DEF Taken
  <2>6. t.total \in Nat
      BY <1>1, <2>2
  <2>7. budget # 0 => t.total <= budget
      BY <1>1, <1>3, <2>2
  <2>8. L = M \/ (budget # 0 /\ \E x \in M \ L : t.total + tok(x) > budget)
    <3>1. CASE K = N
        BY <3>1
    <3>2. CASE K # N
      <4>1. PICK x \in N \ K : budget # 0 /\ r.total + tok(x) > budget
          BY <3>2 DEF Taken
      <4>2. x \in M \ L /\ tok(x) \in Nat
          BY <4>1
      <4>3. t.total + tok(x) > budget
          BY <1>1, <2>2, <4>1, <4>2
      <4>. QED BY <4>1, <4>2, <4>3
    <3>. QED BY <3>1, <3>2
  <2>. HIDE DEF B, M, L
  <2>9. Taken(g, budget, pinned, M, t, L)
      BY <2>3, <2>4, <2>5, <2>6, <2>7, <2>8 DEF Taken
  <2>. QED BY <2>9 DEF t, M
<1>. QED BY <1>2, <1>3

TookFrom(g, budget, pinned, N, r) == \E K : Taken(g, budget, pinned, N, r, K)

LEMMA TakesWithin ==
    ASSUME NEW g, NEW budget \in Int, NEW pinned, NEW first, Lists(first, pinned),
           NEW N, NEW near, Lists(near, N), pinned \cap N = {},
           \A s \in pinned \union N : g.at[s].tokens \in Nat
    PROVE  TookFrom(g, budget, pinned, N, TakeWithin(g, near, CostOf(g, pinned), budget, first))
<1>. DEFINE A == pinned \union N
            total == CostOf(g, pinned)
<1>1. near \in Seq(N) /\ Len(near) \in Nat /\ Range(near) = N /\ IsFiniteSet(pinned)
    BY ListFacts, LenProperties DEF Lists
<1>2. total \in Nat
  <2>1. PICK f : IsCost(f, g, pinned) /\ CostOf(g, pinned) = f[pinned]
      BY <1>1, CostExists
  <2>2. SameAnyway(f, g, pinned)
      BY <1>1, <2>1, CostOrder
  <2>. QED BY <2>1, <2>2 DEF SameAnyway
<1>. HIDE DEF total
<1>3. PICK h : Takes(h, g, near, total, budget, first)
  <2>1. near \in Seq(A) /\ first \in Seq(A) /\ total \in Int /\ \A s \in A : g.at[s].tokens \in Int
    <3>1. N \subseteq A /\ pinned \subseteq A /\ \A s \in A : g.at[s].tokens \in Nat
        OBVIOUS
    <3>. HIDE DEF A
    <3>2. near \in Seq(A) /\ first \in Seq(A)
        BY <1>1, <3>1, SeqMonotonic DEF Lists
    <3>. QED BY <1>2, <3>1, <3>2
  <2>. HIDE DEF A
  <2>. QED BY <2>1, TakeSteps
<1>. DEFINE Done(k) == TookFrom(g, budget, pinned, FirstOf(near, k), h[k])
            T == {k \in Nat : k \in 0..Len(near) => Done(k)}
<1>4. 0 \in T
  <2>1. h[0] = [ids |-> first, total |-> total] /\ FirstOf(near, 0) = {}
      BY <1>1, <1>3, FirstOfAll DEF Takes
  <2>2. h[0].ids = first /\ h[0].total = total /\ pinned \union {} = pinned
      BY <2>1
  <2>3. Taken(g, budget, pinned, {}, h[0], {})
      BY <1>2, <2>2 DEF Taken, total
  <2>. QED BY <2>1, <2>3 DEF TookFrom
<1>5. ASSUME NEW k \in T PROVE k + 1 \in T
  <2>. SUFFICES ASSUME k + 1 \in 0..Len(near) PROVE Done(k + 1)
      OBVIOUS
  <2>. DEFINE m == k + 1
              B == FirstOf(near, k)
  <2>1. m \in 1..Len(near) /\ m - 1 = k /\ TookFrom(g, budget, pinned, B, h[k]) /\ m \in Nat /\ m # 0
      BY <1>1
  <2>. HIDE DEF m
  <2>2. h[m] = Take(g, budget, h[k], near[m])
      BY <1>3, <2>1 DEF Takes
  <2>3. FirstOf(near, m) = B \union {near[m]}
      BY <2>1, FirstOfNext
  <2>4. near[m] \notin B
    <3>1. \A i \in 1..k : i \in 1..Len(near) /\ i # m
        BY <1>1, <2>1
    <3>. QED BY <2>1, <3>1 DEF FirstOf, Lists
  <2>5. B \subseteq N /\ near[m] \in N
      BY <1>1, <2>1, FirstOfAll, ElementOfSeq
  <2>. HIDE DEF B
  <2>6. PICK K : Taken(g, budget, pinned, B, h[k], K)
      BY <2>1 DEF TookFrom
  <2>7. near[m] \notin pinned \union B /\ \A x \in pinned \union B \union {near[m]} : g.at[x].tokens \in Nat
      BY <2>4, <2>5
  <2>8. \E L : Taken(g, budget, pinned, B \union {near[m]}, Take(g, budget, h[k], near[m]), L)
      BY <2>6, <2>7, TakesOne
  <2>9. TookFrom(g, budget, pinned, FirstOf(near, m), h[m])
      BY <2>2, <2>3, <2>8 DEF TookFrom
  <2>. QED BY <2>9 DEF m
<1>6. T = Nat
  <2>1. T \in SUBSET Nat
      OBVIOUS
  <2>. HIDE DEF T
  <2>. QED BY <1>4, <1>5, <2>1, SetInduction
<1>7. Done(Len(near))
  <2>1. Len(near) \in T /\ Len(near) \in 0..Len(near)
    <3>. HIDE DEF T
    <3>. QED BY <1>1, <1>6
  <2>. HIDE DEF Done
  <2>. QED BY <2>1
<1>. QED BY <1>1, <1>3, <1>7, FirstOfAll DEF Takes, total

-----------------------------------------------------------------------------
(* The slices of a symbol's context                                        *)

LEMMA SeqsAreLists ==
    ASSUME NEW S, IsFiniteSet(S), NEW q \in SetToSeqs(S)
    PROVE  Lists(q, S)
<1>. DEFINE n == Cardinality(S)
<1>1. n \in Nat
    BY FS_CardinalityType
<1>2. q \in [1..n -> S] /\ \A i, j \in 1..n : i # j => q[i] # q[j]
    BY Zenon DEF SetToSeqs
<1>. HIDE DEF n
<1>3. q \in Injection(1..n, S)
    BY <1>2 DEF Injection, IsInjective
<1>4. q \in Surjection(1..n, S)
  <2>1. IsFiniteSet(1..n) /\ Cardinality(1..n) = n
      BY <1>1, FS_Interval
  <2>. QED BY <1>3, <2>1, FS_Injection DEF n
<1>5. q \in Seq(S) /\ Len(q) = n
    BY <1>1, <1>2
<1>6. \A s \in S : \E i \in 1..n : q[i] = s
    BY <1>4 DEF Surjection
<1>. QED BY <1>2, <1>5, <1>6 DEF Lists

\* Everything a context names, the target first.
LEMMA VisitedLists ==
    ASSUME NEW t, NEW A, NEW B, NEW p, Lists(p, A), NEW q, Lists(q, B)
    PROVE  Lists(Visited(t, p, q), {t} \union A \union B)
<1>. DEFINE All == {t} \union A \union B
            first == <<t>>
            list == first \o p \o q
<1>1. first \in Seq(All) /\ p \in Seq(All) /\ q \in Seq(All)
  <2>1. A \subseteq All /\ B \subseteq All /\ t \in All
      OBVIOUS
  <2>. HIDE DEF All
  <2>. QED BY <2>1, SeqMonotonic DEF Lists
<1>2. Range(p) = A /\ Range(q) = B /\ Range(first) = {t}
    BY ListFacts DEF Range
<1>. HIDE DEF All, first
<1>3. first \o p \in Seq(All) /\ list \in Seq(All)
    BY <1>1, ConcatProperties
<1>4. Range(list) = All
  <2>1. Range(first \o p) = Range(first) \union Range(p)
      BY <1>1, RangeConcatenation
  <2>2. Range(list) = Range(first \o p) \union Range(q)
      BY <1>1, <1>3, RangeConcatenation
  <2>. HIDE DEF list
  <2>. QED BY <1>2, <2>1, <2>2 DEF All
<1>5. Lists(Firsts(list), Range(list))
  <2>. HIDE DEF list
  <2>. QED BY <1>3, FirstsLists
<1>. QED BY <1>4, <1>5 DEF Visited, All, first

\* What SliceWithinBudget says of a slice.
GoodSlice(g, slice, all, pinned, budget) ==
    LET kept == {slice.symbols[i] : i \in DOMAIN slice.symbols} IN
    /\ pinned \subseteq kept /\ kept \subseteq all
    /\ Cardinality(kept) = Len(slice.symbols)
    /\ slice.total = CostOf(g, kept)
    /\ budget # 0 => slice.total <= budget \/ kept \subseteq pinned
    /\ (slice.reason = "complete") <=> (kept = all)
    /\ slice.reason = "token_budget" =>
           \E s \in all \ kept : CostOf(g, kept) + g.at[s].tokens > budget

LEMMA SliceIsGood ==
    ASSUME NEW g, NEW t, NEW A, NEW B, NEW p, Lists(p, A), NEW q, Lists(q, B), NEW budget \in Int, NEW pin, NEW maxDepth,
           \A s \in {t} \union A \union B : g.at[s].tokens \in Nat
    PROVE  GoodSlice(g, SliceContext(g, t, p, q, budget, pin, maxDepth), {t} \union A \union B,
                     pin \cap ({t} \union A \union B), budget)
<1>. DEFINE all == {t} \union A \union B
            ordered  == Visited(t, p, q)
            first    == Those(ordered, pin)
            unpinned == Those(ordered, Range(ordered) \ pin)
            near     == NearBy(unpinned, t, maxDepth)
            taken    == TakeWithin(g, near, TokensOf(g, first), budget, first)
            slice    == SliceContext(g, t, p, q, budget, pin, maxDepth)
            pinned   == all \cap pin
            others   == all \ pin
            N        == others \cap {s \in Range(unpinned) : (IF s = t THEN 0 ELSE 1) <= maxDepth}
<1>1. slice = [symbols |-> taken.ids, total |-> taken.total, reason |-> SliceReason(taken, first, near, unpinned)]
    BY DEF SliceContext
<1>2. Lists(ordered, all)
    BY VisitedLists
<1>. HIDE DEF ordered, all, slice
<1>3. Lists(first, pinned)
    BY <1>2, ThoseLists
<1>4. Lists(unpinned, others)
  <2>1. Lists(unpinned, all \cap (Range(ordered) \ pin)) /\ Range(ordered) = all
      BY <1>2, ThoseLists, ListFacts
  <2>2. all \cap (Range(ordered) \ pin) = others
      BY <2>1
  <2>. QED BY <2>1, <2>2
<1>. HIDE DEF unpinned, first
<1>5. Lists(near, N)
  <2>. HIDE DEF others
  <2>. QED BY <1>4, ThoseLists DEF NearBy
<1>. HIDE DEF near
<1>6. N \subseteq others /\ pinned \cap N = {} /\ pinned \union others = all /\ pinned \cap others = {}
    OBVIOUS
<1>7. \A s \in all : g.at[s].tokens \in Nat
    BY DEF all
<1>. HIDE DEF N, others, pinned
<1>8. TokensOf(g, first) = CostOf(g, pinned)
    BY <1>3, <1>6, <1>7, TokensAreCost
<1>9. TookFrom(g, budget, pinned, N, taken)
    BY <1>3, <1>5, <1>6, <1>7, <1>8, TakesWithin
<1>. HIDE DEF taken
<1>10. PICK K : Taken(g, budget, pinned, N, taken, K)
    BY <1>9 DEF TookFrom
<1>. DEFINE kept == pinned \union K
<1>11. {taken.ids[i] : i \in DOMAIN taken.ids} = kept /\ Cardinality(kept) = Len(taken.ids)
    BY <1>10, ListFacts DEF Taken
<1>12. IsFiniteSet(N) /\ Cardinality(N) = Len(near) /\ IsFiniteSet(others) /\ Cardinality(others) = Len(unpinned)
       /\ IsFiniteSet(pinned) /\ Cardinality(pinned) = Len(first)
    BY <1>3, <1>4, <1>5, ListFacts
<1>13. K \subseteq N /\ IsFiniteSet(K)
    BY <1>10, <1>12, FS_Subset DEF Taken
<1>14. /\ Cardinality(K) \in Nat /\ Cardinality(N) \in Nat /\ Cardinality(pinned) \in Nat /\ Cardinality(others) \in Nat
       /\ Cardinality(K) <= Cardinality(N) /\ (Cardinality(K) = Cardinality(N) => K = N)
       /\ Cardinality(N) <= Cardinality(others) /\ (Cardinality(N) = Cardinality(others) => N = others)
    BY <1>6, <1>12, <1>13, FS_Subset, FS_CardinalityType
<1>15. Cardinality(kept) = Cardinality(pinned) + Cardinality(K)
  <2>1. pinned \cap K = {}
      BY <1>6, <1>13
  <2>2. Cardinality(kept) = Cardinality(pinned) + Cardinality(K) - Cardinality(pinned \cap K)
      BY <1>12, <1>13, FS_Union
  <2>3. Cardinality(pinned \cap K) = 0
      BY <2>1, FS_EmptySet
  <2>. HIDE DEF kept
  <2>. QED BY <1>14, <2>2, <2>3
<1>16. (Len(taken.ids) < Len(first) + Len(near)) <=> K # N
    BY <1>11, <1>12, <1>14, <1>15
<1>17. (Len(near) < Len(unpinned)) <=> N # others
    BY <1>12, <1>14
<1>18. (SliceReason(taken, first, near, unpinned) = "complete") <=> (kept = all)
  <2>1. (SliceReason(taken, first, near, unpinned) = "complete") <=> (K = N /\ N = others)
      BY <1>16, <1>17 DEF SliceReason
  <2>2. (kept = all) <=> (K = N /\ N = others)
      BY <1>6, <1>13
  <2>. QED BY <2>1, <2>2
<1>19. SliceReason(taken, first, near, unpinned) = "token_budget" =>
           \E s \in all \ kept : CostOf(g, kept) + g.at[s].tokens > budget
  <2>. HAVE SliceReason(taken, first, near, unpinned) = "token_budget"
  <2>1. K # N
      BY <1>16 DEF SliceReason
  <2>2. PICK s \in N \ K : taken.total + g.at[s].tokens > budget
      BY <1>10, <2>1 DEF Taken
  <2>3. s \in all \ kept
      BY <1>6, <2>2
  <2>4. taken.total = CostOf(g, kept)
      BY <1>10 DEF Taken
  <2>. QED BY <2>2, <2>3, <2>4
<1>20. /\ slice.symbols = taken.ids /\ slice.total = taken.total
       /\ slice.reason = SliceReason(taken, first, near, unpinned)
    BY <1>1
<1>21. /\ pinned \subseteq kept /\ kept \subseteq all
       /\ taken.total = CostOf(g, kept)
       /\ budget # 0 => taken.total <= budget \/ kept \subseteq pinned
    BY <1>6, <1>10, <1>13 DEF Taken
<1>22. GoodSlice(g, slice, all, pinned, budget)
  <2>. HIDE DEF kept
  <2>. QED BY <1>11, <1>18, <1>19, <1>20, <1>21 DEF GoodSlice
<1>23. pinned = pin \cap all
    BY DEF pinned
<1>. QED BY <1>22, <1>23 DEF slice, all

\* What a symbol depends on are the dependents of the graph with its calls
\* turned round.
LEMMA DependenciesAreSymbols ==
    ASSUME NEW g, IsGraph(g), NEW A
    PROVE  Dependencies(g, A) \subseteq Ids(g) /\ IsFiniteSet(Dependencies(g, A))
<1>. DEFINE E == g.edges["calls"]
            R == {<<e[2], e[1]>> : e \in E}
            turned == [edges |-> [calls |-> R]]
            G(f) == [k \in 1..MaxDepth |->
                        IF k = 1 THEN After(g.edges["calls"], A) ELSE f[k - 1] \union After(g.edges["calls"], f[k - 1])]
            H(f) == [k \in 1..MaxDepth |->
                        IF k = 1 THEN Before(turned.edges["calls"], A) ELSE f[k - 1] \union Before(turned.edges["calls"], f[k - 1])]
<1>1. E \subseteq Ids(g) \X Ids(g)
    BY GraphFacts
<1>2. turned.edges["calls"] = R
    OBVIOUS
<1>3. ASSUME NEW X PROVE After(E, X) = Before(R, X)
  <2>1. \A s, t : <<s, t>> \in E <=> <<t, s>> \in R
      BY <1>1
  <2>2. {e[2] : e \in E} = {e[1] : e \in R}
    <3>1. \A e \in E : e[2] = <<e[2], e[1]>>[1]
        OBVIOUS
    <3>. QED BY <3>1
  <2>. HIDE DEF R, E
  <2>. QED BY <2>1, <2>2 DEF After, Before
<1>4. \A f : G(f) = H(f)
  <2>. HIDE DEF R, turned
  <2>. QED BY Zenon, <1>2, <1>3
<1>5. Dependencies(g, A) = (CHOOSE f : f = G(f))[MaxDepth]
    BY Zenon DEF Dependencies
<1>6. Dependents(turned, A, MaxDepth) = (CHOOSE f : f = H(f))[MaxDepth]
    BY Zenon DEF Dependents
<1>. HIDE DEF G, H
<1>7. (CHOOSE f : f = G(f)) = (CHOOSE f : f = H(f))
    BY Zenon, <1>4
<1>8. Dependents(turned, A, MaxDepth) \subseteq {e[1] : e \in R}
  <2>. HIDE DEF turned, R
  <2>. QED BY <1>2, DependentsBounds, DepthAssumption
<1>9. {e[1] : e \in R} \subseteq Ids(g)
    BY <1>1
<1>10. Dependencies(g, A) \subseteq Ids(g)
  <2>. HIDE DEF turned, R
  <2>. QED BY <1>5, <1>6, <1>7, <1>8, <1>9
<1>11. IsFiniteSet(Ids(g))
    BY DEF IsGraph
<1>. QED BY <1>10, <1>11, FS_Subset

LEMMA ContextFound ==
    ASSUME NEW g, NEW q, NEW c \in ExecuteContextRetrieval(g, q), c.target # {}
    PROVE  \E res \in ResolveSymbol(g, q) :
               /\ res.kind # "not_found" /\ c.target = {res.node}
               /\ c.callers = Dependents(g, Named(g, q), MaxDepth)
               /\ c.callees = Dependencies(g, Named(g, q))
<1>. DEFINE T == Named(g, q)
            empty == [kind |-> "not_found", target |-> {}, callers |-> {}, callees |-> {},
                      flows |-> {}, clusters |-> {}, externals |-> {}, confidence |-> 50]
            found(res) == [kind |-> res.kind, target |-> {res.node},
                           callers |-> Dependents(g, T, MaxDepth),
                           callees |-> Dependencies(g, T),
                           flows |-> ProcessesOf(g, T), clusters |-> ClustersOf(g, T),
                           externals |-> ExternalsOf(g, T), confidence |-> 92]
            context(res) == IF res.kind = "not_found" THEN empty
                            ELSE IF found(res).callers \union found(res).callees \union found(res).flows
                                    \union found(res).clusters \union found(res).externals # {}
                                 THEN found(res) ELSE [found(res) EXCEPT !.confidence = 75]
<1>1. ExecuteContextRetrieval(g, q) = {context(res) : res \in ResolveSymbol(g, q)}
    BY DEF ExecuteContextRetrieval
<1>2. PICK res \in ResolveSymbol(g, q) : c = context(res)
  <2>. HIDE DEF context
  <2>. QED BY <1>1
<1>3. empty.target = {}
    OBVIOUS
<1>4. /\ found(res).target = {res.node} /\ [found(res) EXCEPT !.confidence = 75].target = {res.node}
      /\ found(res).callers = Dependents(g, T, MaxDepth)
      /\ [found(res) EXCEPT !.confidence = 75].callers = Dependents(g, T, MaxDepth)
      /\ found(res).callees = Dependencies(g, T)
      /\ [found(res) EXCEPT !.confidence = 75].callees = Dependencies(g, T)
    OBVIOUS
<1>5. c = empty \/ c = found(res) \/ c = [found(res) EXCEPT !.confidence = 75]
  <2>. HIDE DEF empty, found
  <2>. QED BY <1>2
<1>6. res.kind # "not_found"
    BY <1>2, <1>3
<1>. HIDE DEF empty, found, context
<1>. QED BY <1>3, <1>4, <1>5, <1>6

-----------------------------------------------------------------------------
(* The theorems                                                            *)

\* There is a graph, and the reply to a question is one the tool asked may
\* give on it.  The properties are about the reply alone, so this is all that
\* has to be known of how it came about.
Told(tool) ==
    \E q \in Questions :
        /\ q.tool = tool /\ CallTool(tool, q.params) = "execute"
        /\ reply.params = q.params
        /\ reply.a \in ExecuteTool(graph, tool, q.params, q.env)
Handled ==
    \E c \in Requests, header \in Headers, auth \in AuthConfigs :
        /\ reply.call = c /\ reply.header = header /\ reply.auth = auth
        /\ reply.a = HandleMCPRequest(c.tool, c.params, header, auth)
Replied ==
    /\ graph \in Graphs
    /\ \/ reply.tool \in {"none", "http", "augment"}
       \/ reply.tool = "handler" /\ Handled
       \/ reply.tool \in Tools /\ Told(reply.tool)

LEMMA ToolsToldApart == Tools \cap {"none", "http", "augment", "handler"} = {}
BY DEF Tools, SymbolTools, GraphTools

LEMMA AskReplies ==
    ASSUME Replied, NEW q \in Questions, Ask(q)
    PROVE  Replied'
<1>1. PICK a \in ExecuteTool(graph, q.tool, q.params, q.env) :
          reply' = [tool |-> q.tool, params |-> q.params, a |-> a] /\ graph' = graph
    BY DEF Ask, Answer
<1>2. CallTool(q.tool, q.params) = "execute" /\ q.tool \in Tools
    BY DEF Ask, CallTool
<1>3. reply'.tool = q.tool /\ reply'.params = q.params /\ reply'.a = a
    BY <1>1
<1>4. Told(q.tool)'
    BY <1>1, <1>2, <1>3 DEF Told
<1>. QED BY <1>1, <1>2, <1>3, <1>4 DEF Replied

LEMMA HandleReplies ==
    ASSUME Replied, NEW c \in Requests, NEW header \in Headers, NEW auth \in AuthConfigs, Handle(c, header, auth)
    PROVE  Replied'
<1>1. /\ reply' = [tool |-> "handler", call |-> c, header |-> header, auth |-> auth,
                   a |-> HandleMCPRequest(c.tool, c.params, header, auth)]
      /\ graph' = graph
    BY DEF Handle, Answer
<1>2. /\ reply'.tool = "handler" /\ reply'.call = c /\ reply'.header = header /\ reply'.auth = auth
      /\ reply'.a = HandleMCPRequest(c.tool, c.params, header, auth)
    BY <1>1
<1>3. Handled'
    BY <1>2 DEF Handled
<1>. QED BY <1>1, <1>2, <1>3 DEF Replied

LEMMA RepliedAlways == Spec => []Replied
<1>1. Init => Replied
    BY DEF Init, Replied, Nothing
<1>2. Replied /\ [Next]_vars => Replied'
  <2>. SUFFICES ASSUME Replied, [Next]_vars PROVE Replied'
      OBVIOUS
  <2>1. CASE \E q \in Questions : Ask(q)
      BY <2>1, AskReplies
  <2>2. CASE \E c \in Requests, h \in Headers, a \in AuthConfigs : Handle(c, h, a)
      BY <2>2, HandleReplies
  <2>3. CASE \E h \in HttpQueries : Post(h)
    <3>1. graph' = graph /\ reply'.tool = "http"
        BY <2>3 DEF Post, Answer
    <3>. QED BY <3>1 DEF Replied
  <2>4. CASE \E s \in Searches : Search(s)
    <3>1. graph' = graph /\ reply'.tool = "augment"
        BY <2>4 DEF Search, Answer
    <3>. QED BY <3>1 DEF Replied
  <2>5. CASE UNCHANGED vars
      BY <2>5 DEF vars, Replied, Handled, Told
  <2>. QED BY <2>1, <2>2, <2>3, <2>4, <2>5 DEF Next
<1>. QED BY <1>1, <1>2, PTL DEF Spec

LEMMA TracesAreShortest ==
    ASSUME Replied
    PROVE  TraceIsShortest
<1>. SUFFICES ASSUME reply.tool = "trace", reply.a.from.kind # "not_found", reply.a.to.kind # "not_found"
              PROVE  LET hops  == reply.a.hops
                         depth == ClampTraversalDepth(Depth(P("maxDepth")))
                         short(n) == ShortWalks(TraceEdges(graph), Ids(graph), reply.a.from.node, reply.a.to.node, n)
                     IN  IF reply.a.found
                         THEN hops \in short(Len(hops)) /\ Len(hops) - 1 <= depth /\ short(Len(hops) - 1) = {}
                         ELSE short(depth + 1) = {}
    BY DEF TraceIsShortest, ShortWalks, Asked
<1>. DEFINE r == reply.a
            depth == Depth(P("maxDepth"))
            n == ClampTraversalDepth(depth)
            E == TraceEdges(graph)
            V == Ids(graph)
<1>1. PICK q \in Questions : reply.params = q.params /\ r \in ExecuteTool(graph, "trace", q.params, q.env)
    BY DEF Replied, Told
<1>2. IsGraph(graph) /\ IsCall(q)
    BY GraphsAssumption, CallsAssumption DEF Replied
<1>3. depth = Depth(Param(q.params, "maxDepth")) /\ depth \in Int
  <2>1. depth = Depth(Param(q.params, "maxDepth"))
      BY <1>1 DEF P
  <2>2. Param(q.params, "maxDepth").type = "number" => Param(q.params, "maxDepth").value \in Int
      BY <1>2 DEF Param, Absent, IsCall, IsParam
  <2>. QED BY <2>1, <2>2 DEF Depth
<1>4. r \in ExecuteTracePath(graph, TextOf(Param(q.params, "fromSymbol")), TextOf(Param(q.params, "toSymbol")), depth)
    BY <1>1, <1>3 DEF ExecuteTool, ToolTrace
<1>. HIDE DEF depth
<1>5. /\ r.found \in BOOLEAN
      /\ r.found => IsShortest(E, V, r.from.node, r.to.node, n, r.hops)
      /\ ~r.found => TooFar(E, V, r.from.node, r.to.node, n)
    BY <1>2, <1>3, <1>4, TracedPaths
<1>6. n \in Nat
    BY <1>3, Clamped
<1>. HIDE DEF E, V, n, r
<1>7. CASE r.found = TRUE
  <2>1. IsShortest(E, V, r.from.node, r.to.node, n, r.hops)
      BY <1>5, <1>7
  <2>2. /\ r.hops \in ShortWalks(E, V, r.from.node, r.to.node, Len(r.hops))
        /\ Len(r.hops) - 1 <= n
        /\ ShortWalks(E, V, r.from.node, r.to.node, Len(r.hops) - 1) = {}
      BY <2>1, <1>6, ShortestIsShort
  <2>. QED BY <2>2, <1>7 DEF r, E, V, n, depth
<1>8. CASE r.found = FALSE
  <2>1. TooFar(E, V, r.from.node, r.to.node, n)
      BY <1>5, <1>8
  <2>2. ShortWalks(E, V, r.from.node, r.to.node, n + 1) = {}
      BY <2>1, <1>6, ShortestIsShort
  <2>. QED BY <2>2, <1>8 DEF r, E, V, n, depth
<1>. QED BY <1>5, <1>7, <1>8

LEMMA VerdictsDoAgree ==
    ASSUME Replied
    PROVE  VerdictsAgree
<1>. SUFFICES ASSUME reply.tool = "verify_claim" PROVE VerdictsAgree
    BY DEF VerdictsAgree, Asked
<1>. DEFINE a == reply.a
            claim == ParseClaim(reply.params)
            means(q, s) == Named(graph, q) = {s}
            dependents(q, d) == UNION {x.dependents : x \in ExecuteImpactAnalysis(graph, q, 100, d)}
            dead == DeadCode(graph, {graph.at[s].kind : s \in Ids(graph)})
<1>1. PICK q \in Questions : reply.params = q.params /\ a \in ExecuteTool(graph, "verify_claim", q.params, q.env)
    BY DEF Replied, Told
<1>2. IsGraph(graph)
    BY GraphsAssumption DEF Replied
<1>3. a \in ExecuteVerifyClaim(graph, claim)
    BY <1>1 DEF ExecuteTool, ToolVerifyClaim
<1>. HIDE DEF a, claim
<1>4. ASSUME claim.kind = "usage", NEW s \in Ids(graph), means(claim.symbol, s)
      PROVE  /\ a.verdict = "confirmed" => s \in dead /\ dependents(claim.symbol, 0) = {}
             /\ a.verdict = "refuted" => s \notin dead /\ dependents(claim.symbol, 0) # {}
    BY <1>2, <1>3, <1>4, UsageVerdict
<1>5. ASSUME claim.kind = "edge", claim.relation = "calls", NEW s \in Ids(graph), NEW t \in Ids(graph),
             means(claim.from, s), means(claim.to, t)
      PROVE  /\ a.verdict = "confirmed" => s \in dependents(claim.to, 1)
             /\ a.verdict = "refuted" => s \notin dependents(claim.to, 1)
    BY <1>2, <1>3, <1>5, EdgeVerdict
<1>6. ASSUME claim.kind = "reachability", NEW s \in Ids(graph), NEW t \in Ids(graph),
             means(claim.from, s), means(claim.to, t), s \in dependents(claim.to, 0)
      PROVE  a.verdict \in {"uncertain", IF claim.polarity = "reachable" THEN "confirmed" ELSE "refuted"}
    BY <1>2, <1>3, <1>6, ReachabilityVerdict
<1>. HIDE DEF means, dependents, dead
<1>7. /\ claim.kind = "usage" =>
             \A s \in Ids(graph) : means(claim.symbol, s) =>
                 /\ a.verdict = "confirmed" => s \in dead /\ dependents(claim.symbol, 0) = {}
                 /\ a.verdict = "refuted" => s \notin dead /\ dependents(claim.symbol, 0) # {}
      /\ claim.kind = "edge" /\ claim.relation = "calls" =>
             \A s, t \in Ids(graph) : means(claim.from, s) /\ means(claim.to, t) =>
                 /\ a.verdict = "confirmed" => s \in dependents(claim.to, 1)
                 /\ a.verdict = "refuted" => s \notin dependents(claim.to, 1)
      /\ claim.kind = "reachability" =>
             \A s, t \in Ids(graph) : means(claim.from, s) /\ means(claim.to, t) /\ s \in dependents(claim.to, 0) =>
                     a.verdict \in {"uncertain", IF claim.polarity = "reachable" THEN "confirmed" ELSE "refuted"}
    BY <1>4, <1>5, <1>6
<1>. QED BY <1>7 DEF VerdictsAgree, means, dependents, dead, a, claim

LEMMA AcceptedAreUnderstood ==
    ASSUME Replied
    PROVE  AcceptedIsUnderstood
<1>. SUFFICES ASSUME reply.tool = "handler", reply.a = "execute" PROVE AcceptedIsUnderstood
    BY DEF AcceptedIsUnderstood, Asked
<1>1. PICK c \in Requests, header \in Headers, auth \in AuthConfigs :
          /\ reply.call = c /\ reply.header = header /\ reply.auth = auth
          /\ HandleMCPRequest(c.tool, c.params, header, auth) = "execute"
    BY ToolsToldApart DEF Replied, Handled
<1>2. IsCall(c)
    BY CallsAssumption
<1>3. IsUnderstood(c, header, auth)
    BY <1>1, <1>2, Understood
<1>. QED BY <1>1, <1>3 DEF AcceptedIsUnderstood, IsUnderstood

\* A path the trace tool reports is a shortest one within the depth asked for,
\* and none is reported only if there is none; what verify_claim says of a
\* usage, a call or a reachability is what find_dead_code and impact_analysis
\* say of the same graph; and a call the handler lets through carries a known
\* token and every text its tool reads: for all graphs, questions and calls.
THEOREM AnswersAlwaysAgree == Spec => []AnswersAgree
<1>1. Replied => AnswersAgree
    BY TracesAreShortest, VerdictsDoAgree, AcceptedAreUnderstood DEF AnswersAgree
<1>. QED BY <1>1, RepliedAlways, PTL

\* Applying a rename plan and asking detect_changes about the edited lines
\* reports every edited symbol, every dependent and at least the risk that
\* impact_analysis announces, for every graph and every plan on it.
THEOREM PlansAlwaysMatchImpact == Spec => []PlanMatchesImpact
<1>1. Replied => PlanMatchesImpact
  <2>. SUFFICES ASSUME Replied, reply.tool = "rename", NEW t \in reply.a.target
                PROVE  LET edits == reply.a.edits
                           diffs == {[path |-> e.file, oldPath |-> {}, status |-> "modified", hunks |-> {<<e.line, 1>>}] : e \in edits}
                           seen  == ExecuteDetectChanges(graph, diffs, 100)
                       IN  /\ {e.at : e \in edits} \subseteq ResolveChangedSymbols(graph, diffs).symbols \cap seen.changed
                           /\ \A a \in ExecuteImpactAnalysis(graph, t, 100, 0) :
                                  a.dependents \subseteq seen.dependents /\ RiskRank(a.risk) <= RiskRank(seen.risk)
                           /\ \A a \in ExecuteImpactAnalysis(graph, t, 100, 1) : a.dependents \subseteq {e.at : e \in edits}
      BY DEF PlanMatchesImpact, Asked
  <2>1. PICK q \in Questions : reply.a \in ExecuteTool(graph, "rename", q.params, q.env)
      BY DEF Replied, Told
  <2>2. IsGraph(graph)
      BY GraphsAssumption DEF Replied
  <2>3. PICK file : reply.a \in BuildRenamePlan(graph, TextOf(Param(q.params, "symbolName")), file)
      BY <2>1 DEF ExecuteTool, ToolRename
  <2>. QED BY <2>2, <2>3, PlanDetected
<1>. QED BY <1>1, RepliedAlways, PTL

\* A slice is asked for with a number, of a symbol that was found.
LEMMA SlicesAreGood ==
    ASSUME Replied
    PROVE  SliceWithinBudget
<1>. SUFFICES ASSUME reply.tool = "get_symbol_context"
              PROVE  SliceWithinBudget
    BY DEF SliceWithinBudget, Asked
<1>1. IsGraph(graph)
    BY GraphsAssumption DEF Replied
<1>2. Told("get_symbol_context")
    BY ToolsToldApart DEF Replied
<1>3. PICK q \in Questions :
          /\ reply.params = q.params
          /\ reply.a \in ExecuteTool(graph, "get_symbol_context", q.params, q.env)
    BY <1>2 DEF Told
<1>4. reply.a \in ToolGetSymbolContext(graph, reply.params)
    BY <1>3 DEF ExecuteTool
<1>. DEFINE sq == TextOf(Param(reply.params, "symbolName"))
            budget == Param(reply.params, "tokenBudget").value
            pin == Pinned(reply.params)
            depth == IF Param(reply.params, "maxDepth").type = "number" THEN Param(reply.params, "maxDepth").value ELSE 1
            slices(c) == IF Param(reply.params, "tokenBudget").type = "number" /\ c.target # {}
                         THEN {SliceContext(graph, t, callers, callees, budget, pin, depth) :
                                  t \in c.target, callers \in SetToSeqs(c.callers), callees \in SetToSeqs(c.callees)}
                         ELSE {}
<1>5. PICK c \in ExecuteContextRetrieval(graph, sq) : reply.a = [ctx |-> c, slices |-> slices(c)]
  <2>1. ToolGetSymbolContext(graph, reply.params) =
            {[ctx |-> c, slices |-> slices(c)] : c \in ExecuteContextRetrieval(graph, sq)}
      BY DEF ToolGetSymbolContext
  <2>. HIDE DEF slices
  <2>. QED BY <1>4, <2>1
<1>6. reply.a.ctx = c /\ reply.a.slices = slices(c)
    BY <1>5
<1>. HIDE DEF sq, pin, depth, budget
<1>7. ASSUME NEW slice \in slices(c)
      PROVE  GoodSlice(graph, slice, c.target \union c.callers \union c.callees,
                       pin \cap (c.target \union c.callers \union c.callees), budget)
  <2>1. Param(reply.params, "tokenBudget").type = "number" /\ c.target # {}
      BY <1>7
  <2>2. PICK t \in c.target, callers \in SetToSeqs(c.callers), callees \in SetToSeqs(c.callees) :
            slice = SliceContext(graph, t, callers, callees, budget, pin, depth)
      BY <1>7, <2>1
  <2>3. budget \in Int
    <3>1. IsCall(q)
        BY CallsAssumption
    <3>2. "tokenBudget" \in DOMAIN q.params
        BY <1>3, <2>1 DEF Param, Absent
    <3>3. IsParam(q.params["tokenBudget"])
        BY <3>1, <3>2 DEF IsCall
    <3>4. Param(reply.params, "tokenBudget") = q.params["tokenBudget"]
        BY <1>3, <3>2 DEF Param
    <3>5. q.params["tokenBudget"].type = "number"
        BY <2>1, <3>4
    <3>. QED BY <3>3, <3>4, <3>5 DEF IsParam, budget
  <2>4. PICK res \in ResolveSymbol(graph, sq) :
            /\ res.kind # "not_found" /\ c.target = {res.node}
            /\ c.callers = Dependents(graph, Named(graph, sq), MaxDepth)
            /\ c.callees = Dependencies(graph, Named(graph, sq))
      BY <2>1, ContextFound
  <2>5. /\ IsFiniteSet(c.callers) /\ c.callers \subseteq Ids(graph)
        /\ IsFiniteSet(c.callees) /\ c.callees \subseteq Ids(graph)
      BY <1>1, <2>4, GraphFacts, DependenciesAreSymbols, DepthAssumption
  <2>6. c.target = {t} /\ t \in Ids(graph)
      BY <2>2, <2>4, ResolvedAreSymbols
  <2>7. Lists(callers, c.callers) /\ Lists(callees, c.callees)
      BY <2>2, <2>5, SeqsAreLists
  <2>8. \A s \in {t} \union c.callers \union c.callees : graph.at[s].tokens \in Nat
      BY <1>1, <2>5, <2>6 DEF IsGraph
  <2>. QED BY <2>2, <2>3, <2>6, <2>7, <2>8, SliceIsGood
<1>. HIDE DEF slices
<1>8. \A slice \in reply.a.slices :
          GoodSlice(graph, slice, c.target \union c.callers \union c.callees,
                    pin \cap (c.target \union c.callers \union c.callees), budget)
    BY <1>6, <1>7
<1>. QED BY <1>6, <1>8 DEF SliceWithinBudget, GoodSlice, P, pin, budget

\* What sliceContext() promises of every slice, whatever the graph, the budget and
\* the pins: the pinned symbols, no symbol twice, the budget kept, and a
\* reason that tells what was left out.
THEOREM SlicesAlwaysWithinBudget == Spec => []SliceWithinBudget
BY RepliedAlways, SlicesAreGood, PTL

-----------------------------------------------------------------------------
(* The pages of the export                                                 *)

\* A row put into a sequence moves those behind it by one, and no other.
LEMMA RowsMoved ==
    ASSUME NEW S, NEW s \in Seq(S), NEW i \in 1..(Len(s) + 1), NEW e \in S
    PROVE  /\ InsertAt(s, i, e) \in Seq(S) /\ Len(InsertAt(s, i, e)) = Len(s) + 1
           /\ \A k \in 1..Len(s) : InsertAt(s, i, e)[k] = s[k] \/ InsertAt(s, i, e)[k + 1] = s[k]
<1> DEFINE a == SubSeq(s, 1, i - 1)
           b == SubSeq(s, i, Len(s))
           c == a \o <<e>>
           t == c \o b
<1>1. Len(s) \in Nat /\ i \in Int /\ 1 <= i /\ i <= Len(s) + 1 /\ i - 1 \in Int /\ \A k \in 1..Len(s) : s[k] \in S
    BY LenProperties, ElementOfSeq
<1>2. a \in Seq(S) /\ Len(a) = i - 1 /\ \A k \in 1..(i - 1) : a[k] = s[k]
  <2>1. \A k \in 1..(i - 1) : s[k] \in S
      BY <1>1
  <2>2. /\ a \in Seq(S) /\ Len(a) = IF 1 <= i - 1 THEN (i - 1) - 1 + 1 ELSE 0
        /\ \A k \in 1..((i - 1) - 1 + 1) : a[k] = s[1 + k - 1]
      BY <1>1, <2>1, SubSeqProperties
  <2>. HIDE DEF a
  <2>. QED BY <1>1, <2>2
<1>3. b \in Seq(S) /\ Len(b) = Len(s) - i + 1 /\ \A k \in 1..(Len(s) - i + 1) : b[k] = s[i + k - 1]
  <2>1. \A k \in i..Len(s) : s[k] \in S
      BY <1>1
  <2>2. b \in Seq(S) /\ Len(b) = (IF i <= Len(s) THEN Len(s) - i + 1 ELSE 0)
        /\ \A k \in 1..(Len(s) - i + 1) : b[k] = s[i + k - 1]
      BY <1>1, <2>1, SubSeqProperties
  <2>. HIDE DEF b
  <2>. QED BY <1>1, <2>2
<1>4. InsertAt(s, i, e) = t
    BY DEF InsertAt
<1>. HIDE DEF a, b
<1>5. c \in Seq(S) /\ Len(c) = i /\ \A k \in 1..(i - 1) : c[k] = a[k]
  <2>1. <<e>> \in Seq(S) /\ Len(<<e>>) = 1
      OBVIOUS
  <2>. QED BY <1>1, <1>2, <2>1, ConcatProperties
<1>. HIDE DEF c
<1>6. /\ t \in Seq(S) /\ Len(t) = Len(s) + 1
      /\ \A k \in 1..(Len(s) + 1) : t[k] = IF k <= i THEN c[k] ELSE b[k - i]
  <2>1. t \in Seq(S) /\ Len(t) = Len(c) + Len(b) /\ \A k \in 1..(Len(c) + Len(b)) : t[k] = IF k <= Len(c) THEN c[k] ELSE b[k - Len(c)]
      BY <1>3, <1>5, ConcatProperties
  <2>2. Len(c) + Len(b) = Len(s) + 1
      BY <1>1, <1>3, <1>5
  <2>. HIDE DEF t
  <2>. QED BY <1>5, <2>1, <2>2
<1>. HIDE DEF t
<1>7. ASSUME NEW k \in 1..Len(s) PROVE t[k] = s[k] \/ t[k + 1] = s[k]
  <2>1. CASE k < i
    <3>1. k \in 1..(i - 1) /\ k \in 1..(Len(s) + 1) /\ k <= i
        BY <1>1, <2>1
    <3>. QED BY <1>2, <1>5, <1>6, <3>1
  <2>2. CASE ~(k < i)
    <3>1. k + 1 \in 1..(Len(s) + 1) /\ ~(k + 1 <= i) /\ (k + 1) - i \in 1..(Len(s) - i + 1) /\ i + ((k + 1) - i) - 1 = k
        BY <1>1, <2>2
    <3>2. t[k + 1] = b[(k + 1) - i]
        BY <1>6, <3>1
    <3>3. b[(k + 1) - i] = s[i + ((k + 1) - i) - 1]
        BY <1>3, <3>1
    <3>. QED BY <3>1, <3>2, <3>3
  <2>. QED BY <2>1, <2>2
<1>. QED BY <1>4, <1>6, <1>7

\* What is left of a sequence without one of its rows.
LEMMA RowTaken ==
    ASSUME NEW S, NEW s \in Seq(S), NEW i \in 1..Len(s)
    PROVE  RemoveAt(s, i) \in Seq(S)
<1>1. Len(s) \in Nat /\ \A k \in 1..Len(s) : s[k] \in S
    BY LenProperties, ElementOfSeq
<1>2. i - 1 \in Int /\ i + 1 \in Int /\ (\A k \in 1..(i - 1) : s[k] \in S) /\ (\A k \in (i + 1)..Len(s) : s[k] \in S)
    BY <1>1
<1>3. SubSeq(s, 1, i - 1) \in Seq(S) /\ SubSeq(s, i + 1, Len(s)) \in Seq(S)
    BY <1>1, <1>2, SubSeqProperties
<1>. QED BY <1>3, ConcatProperties DEF RemoveAt

\* A row of the table that is behind what was read.
Ahead(t, k, r) == \E q \in 1..Len(t) : q > k /\ t[q] = r
Got(s, r) == \E k \in 1..Len(s) : s[k] = r

\* A page has the rows from skip on, as many as it may have or as there are.
LEMMA PageFacts ==
    ASSUME table \in Seq(Rows), skip \in Nat, pageSize \in Int, pageSize >= 1
    PROVE  /\ Page \in Seq(Rows) /\ Len(Page) \in Nat /\ Len(Page) <= pageSize
           /\ \A k \in 1..Len(Page) : skip + k \in 1..Len(table) /\ Page[k] = table[skip + k]
           /\ \A q \in 1..Len(table) : q > skip /\ q <= skip + pageSize => q - skip \in 1..Len(Page) /\ Page[q - skip] = table[q]
           /\ IsLast => Len(table) < skip + pageSize
           /\ ~IsLast => Len(Page) = pageSize /\ skip + pageSize <= Len(table)
           /\ skip <= Len(table) => Page = SubSeq(table, skip + 1, skip + Len(Page))
<1> DEFINE m == IF skip + pageSize > Len(table) THEN Len(table) ELSE skip + pageSize
<1>1. Len(table) \in Nat /\ m \in Int /\ skip + 1 \in Int /\ \A k \in 1..Len(table) : table[k] \in Rows
    BY LenProperties, ElementOfSeq
<1>2. m <= Len(table) /\ m <= skip + pageSize /\ (m = Len(table) \/ m = skip + pageSize) /\ (m < skip + pageSize => m = Len(table))
    BY <1>1
<1>3. Page = SubSeq(table, skip + 1, m)
    BY DEF Page
<1>. HIDE DEF m
<1>4. \A k \in (skip + 1)..m : table[k] \in Rows
    BY <1>1, <1>2
<1>5. /\ Page \in Seq(Rows) /\ Len(Page) = IF skip + 1 <= m THEN m - (skip + 1) + 1 ELSE 0
      /\ \A k \in 1..(m - (skip + 1) + 1) : Page[k] = table[(skip + 1) + k - 1]
    BY <1>1, <1>3, <1>4, SubSeqProperties
<1>6. Len(Page) = (IF skip <= m THEN m - skip ELSE 0)
    BY <1>1, <1>5
<1>7. ASSUME NEW k \in 1..Len(Page) PROVE skip + k \in 1..Len(table) /\ Page[k] = table[skip + k]
  <2>1. k \in 1..(m - (skip + 1) + 1) /\ (skip + 1) + k - 1 = skip + k /\ skip + k \in 1..Len(table)
      BY <1>1, <1>2, <1>6
  <2>. QED BY <1>5, <2>1
<1>8. ASSUME NEW q \in 1..Len(table), q > skip, q <= skip + pageSize
      PROVE  q - skip \in 1..Len(Page) /\ Page[q - skip] = table[q]
  <2>1. q - skip \in 1..Len(Page) /\ skip + (q - skip) = q
      BY <1>1, <1>2, <1>6, <1>8
  <2>. QED BY <1>7, <2>1
<1>9. IsLast => Len(table) < skip + pageSize
    BY <1>1, <1>2, <1>6 DEF IsLast
<1>10. ~IsLast => Len(Page) = pageSize /\ skip + pageSize <= Len(table)
    BY <1>1, <1>2, <1>6 DEF IsLast
<1>11. skip <= Len(table) => Page = SubSeq(table, skip + 1, skip + Len(Page))
  <2>1. skip <= Len(table) => skip + Len(Page) = m
      BY <1>1, <1>2, <1>6
  <2>. QED BY <1>3, <2>1
<1>12. Len(Page) \in Nat /\ Len(Page) <= pageSize
    BY <1>1, <1>2, <1>6
<1>. QED BY <1>5, <1>7, <1>8, <1>9, <1>10, <1>11, <1>12

\* Reading on: what was read, and the next rows.
LEMMA ReadOn ==
    ASSUME NEW S, NEW s \in Seq(S), NEW i \in Nat, NEW k \in Nat, i + k <= Len(s)
    PROVE  SubSeq(s, 1, i) \o SubSeq(s, i + 1, i + k) = SubSeq(s, 1, i + k)
<1> DEFINE a == SubSeq(s, 1, i)
           b == SubSeq(s, i + 1, i + k)
           c == SubSeq(s, 1, i + k)
<1>1. Len(s) \in Nat /\ \A q \in 1..Len(s) : s[q] \in S
    BY LenProperties, ElementOfSeq
<1>2. (\A q \in 1..i : s[q] \in S) /\ (\A q \in (i + 1)..(i + k) : s[q] \in S) /\ (\A q \in 1..(i + k) : s[q] \in S)
    BY <1>1
<1>3. a \in Seq(S) /\ Len(a) = i /\ \A q \in 1..i : a[q] = s[q]
  <2>1. a \in Seq(S) /\ Len(a) = (IF 1 <= i THEN i - 1 + 1 ELSE 0) /\ \A q \in 1..(i - 1 + 1) : a[q] = s[1 + q - 1]
      BY <1>2, SubSeqProperties
  <2>. HIDE DEF a
  <2>. QED BY <2>1
<1>4. b \in Seq(S) /\ Len(b) = k /\ \A q \in 1..k : b[q] = s[i + q]
  <2>1. /\ b \in Seq(S) /\ Len(b) = (IF i + 1 <= i + k THEN (i + k) - (i + 1) + 1 ELSE 0)
        /\ \A q \in 1..((i + k) - (i + 1) + 1) : b[q] = s[(i + 1) + q - 1]
      BY <1>2, SubSeqProperties
  <2>. HIDE DEF b
  <2>2. Len(b) = k
      BY <2>1
  <2>3. ASSUME NEW q \in 1..k PROVE b[q] = s[i + q]
    <3>1. q \in 1..((i + k) - (i + 1) + 1) /\ (i + 1) + q - 1 = i + q
        OBVIOUS
    <3>. QED BY <2>1, <3>1
  <2>. QED BY <2>1, <2>2, <2>3
<1>5. c \in Seq(S) /\ Len(c) = i + k /\ \A q \in 1..(i + k) : c[q] = s[q]
  <2>1. c \in Seq(S) /\ Len(c) = (IF 1 <= i + k THEN (i + k) - 1 + 1 ELSE 0) /\ \A q \in 1..((i + k) - 1 + 1) : c[q] = s[1 + q - 1]
      BY <1>2, SubSeqProperties
  <2>. HIDE DEF c
  <2>. QED BY <2>1
<1>. HIDE DEF a, b, c
<1>6. a \o b \in Seq(S) /\ Len(a \o b) = i + k /\ \A q \in 1..(i + k) : (a \o b)[q] = IF q <= i THEN a[q] ELSE b[q - i]
    BY <1>3, <1>4, ConcatProperties
<1>7. ASSUME NEW q \in 1..(i + k) PROVE (a \o b)[q] = c[q]
  <2>1. CASE q <= i
      BY <1>3, <1>5, <1>6, <2>1
  <2>2. CASE ~(q <= i)
    <3>1. q - i \in 1..k /\ i + (q - i) = q
        BY <2>2
    <3>. QED BY <1>4, <1>5, <1>6, <2>2, <3>1
  <2>. QED BY <2>1, <2>2
<1>8. a \o b = c
    BY <1>5, <1>6, <1>7, SeqEqual
<1>. QED BY <1>8 DEF a, b, c

\* What is said of a reading under way.
Reading ==
    /\ changes = 0 => table = initialTable /\ skip <= Len(table) /\ rows = SubSeq(initialTable, 1, skip)
    /\ ~removed => \A i \in 1..Len(initialTable) : Got(rows, initialTable[i]) \/ Ahead(table, skip, initialTable[i])

ReaderTypes ==
    /\ initialTable \in Seq(Rows) /\ table \in Seq(Rows) /\ rows \in Seq(Rows)
    /\ skip \in Nat /\ pageSize \in Int /\ changes \in Nat /\ removed \in BOOLEAN

ReaderInv ==
    /\ ReaderTypes
    /\ fetch = "fetching" => pageSize >= 1 /\ Reading
    /\ WholeTableRead

\* What was read before is part of what is read.
LEMMA GotStays ==
    ASSUME NEW S, NEW s \in Seq(S), NEW u \in Seq(S), NEW r
    PROVE  /\ Got(s, r) => Got(s \o u, r)
           /\ Got(u, r) => Got(s \o u, r)
<1>1. /\ Len(s) \in Nat /\ Len(u) \in Nat /\ Len(s \o u) = Len(s) + Len(u)
      /\ \A k \in 1..(Len(s) + Len(u)) : (s \o u)[k] = IF k <= Len(s) THEN s[k] ELSE u[k - Len(s)]
    BY LenProperties, ConcatProperties
<1>2. ASSUME NEW k \in 1..Len(s), s[k] = r PROVE Got(s \o u, r)
  <2>1. k \in 1..(Len(s) + Len(u)) /\ k <= Len(s)
      BY <1>1
  <2>2. (s \o u)[k] = r /\ k \in 1..Len(s \o u)
      BY <1>1, <1>2, <2>1
  <2>. QED BY <2>2 DEF Got
<1>3. ASSUME NEW k \in 1..Len(u), u[k] = r PROVE Got(s \o u, r)
  <2>1. k + Len(s) \in 1..(Len(s) + Len(u)) /\ ~(k + Len(s) <= Len(s)) /\ k + Len(s) - Len(s) = k
      BY <1>1
  <2>2. (s \o u)[k + Len(s)] = r /\ k + Len(s) \in 1..Len(s \o u)
      BY <1>1, <1>3, <2>1
  <2>. QED BY <2>2 DEF Got
<1>. QED BY <1>2, <1>3 DEF Got

\* A row ahead is in the page, or behind the page.
LEMMA PageReads ==
    ASSUME table \in Seq(Rows), skip \in Nat, pageSize \in Int, pageSize >= 1,
           NEW r, Ahead(table, skip, r)
    PROVE  \/ Got(Page, r)
           \/ ~IsLast /\ Ahead(table, skip + Len(Page), r)
<1>1. PICK q \in 1..Len(table) : q > skip /\ table[q] = r
    BY DEF Ahead
<1>2. Len(table) \in Nat /\ q \in Int /\ Len(Page) \in Nat
    BY LenProperties, PageFacts
<1>3. CASE q <= skip + pageSize
  <2>1. q - skip \in 1..Len(Page) /\ Page[q - skip] = table[q]
      BY <1>1, <1>3, PageFacts
  <2>. QED BY <1>1, <2>1 DEF Got
<1>4. CASE ~(q <= skip + pageSize)
  <2>1. q <= Len(table)
      BY <1>1, <1>2
  <2>2. ~IsLast
    <3>1. IsLast => Len(table) < skip + pageSize
        BY PageFacts
    <3>. QED BY <1>2, <1>4, <2>1, <3>1
  <2>3. Len(Page) = pageSize
      BY <2>2, PageFacts
  <2>4. q > skip + Len(Page)
      BY <1>2, <1>4, <2>3
  <2>. QED BY <1>1, <2>2, <2>4 DEF Ahead
<1>. QED BY <1>3, <1>4

\* What was read before a page, and the page, of a table that did not change.
LEMMA PageInOrder ==
    ASSUME table \in Seq(Rows), skip \in Nat, pageSize \in Int, pageSize >= 1,
           skip <= Len(table), rows = SubSeq(table, 1, skip)
    PROVE  /\ skip + Len(Page) <= Len(table)
           /\ rows \o Page = SubSeq(table, 1, skip + Len(Page))
           /\ IsLast => rows \o Page = table
<1>1. Len(table) \in Nat /\ Len(Page) \in Nat
    BY LenProperties, PageFacts
<1>2. Page = SubSeq(table, skip + 1, skip + Len(Page))
    BY PageFacts
<1>3. skip + Len(Page) <= Len(table)
  <2>1. CASE Len(Page) = 0
      BY <1>1, <2>1
  <2>2. CASE Len(Page) # 0
    <3>1. Len(Page) \in 1..Len(Page)
        BY <1>1, <2>2
    <3>2. skip + Len(Page) \in 1..Len(table)
        BY <3>1, PageFacts
    <3>. QED BY <1>1, <3>2
  <2>. QED BY <2>1, <2>2
<1>4. rows \o Page = SubSeq(table, 1, skip + Len(Page))
    BY <1>1, <1>2, <1>3, ReadOn
<1>5. ASSUME IsLast PROVE rows \o Page = table
  <2>1. skip + Len(Page) = Len(table)
    <3>1. Len(table) < skip + pageSize
        BY <1>5, PageFacts
    <3>2. CASE Len(table) = skip
        BY <1>1, <1>3, <3>2
    <3>3. CASE Len(table) # skip
      <4>1. Len(table) \in 1..Len(table) /\ Len(table) > skip /\ Len(table) <= skip + pageSize
          BY <1>1, <3>1, <3>3
      <4>2. Len(table) - skip \in 1..Len(Page)
          BY <4>1, PageFacts
      <4>. QED BY <1>1, <1>3, <4>2
    <3>. QED BY <3>2, <3>3
  <2>2. SubSeq(table, 1, Len(table)) = table
      BY SubSeqFull
  <2>. QED BY <1>4, <2>1, <2>2
<1>. QED BY <1>3, <1>4, <1>5

-----------------------------------------------------------------------------

LEMMA ReaderInvInit == ReaderInit => ReaderInv
<1> SUFFICES ASSUME ReaderInit PROVE ReaderInv
    OBVIOUS
<1>1. /\ initialTable \in Seq(Rows) /\ table = initialTable /\ pageSize = initialPageSize /\ pageSize \in Int
      /\ rows = <<>> /\ skip = 0 /\ changes = 0 /\ removed = FALSE
      /\ (fetch = "fetching" => pageSize >= 1) /\ fetch # "fetched"
    BY TablesAssumption DEF ReaderInit, ReaderStarts
<1>2. ReaderTypes
    BY <1>1, EmptySeq DEF ReaderTypes
<1>3. Len(table) \in Nat /\ skip <= Len(table)
    BY <1>1, LenProperties
<1>4. rows = SubSeq(initialTable, 1, skip)
    BY <1>1, SubSeqEmpty
<1>5. ASSUME NEW i \in 1..Len(initialTable) PROVE Ahead(table, skip, initialTable[i])
  <2>1. i \in 1..Len(table) /\ i > skip
      BY <1>1, <1>3
  <2>. QED BY <1>1, <2>1 DEF Ahead
<1>6. Reading
    BY <1>1, <1>3, <1>4, <1>5 DEF Reading
<1>. QED BY <1>1, <1>2, <1>6 DEF ReaderInv, WholeTableRead

LEMMA ReadPageKeepsReaderInv ==
    ASSUME ReaderInv, ReadPage
    PROVE  ReaderInv'
<1>1. /\ fetch = "fetching" /\ rows' = rows \o Page
      /\ UNCHANGED <<initialTable, initialPageSize, table, pageSize, changes, removed>>
      /\ ReaderTypes /\ pageSize >= 1 /\ Reading
    BY DEF ReaderInv, ReadPage
<1>2. /\ initialTable \in Seq(Rows) /\ table \in Seq(Rows) /\ rows \in Seq(Rows)
      /\ skip \in Nat /\ pageSize \in Int /\ changes \in Nat /\ removed \in BOOLEAN
    BY <1>1 DEF ReaderTypes
<1>3. Page \in Seq(Rows) /\ Len(Page) \in Nat
    BY <1>1, <1>2, PageFacts
<1>4. rows' \in Seq(Rows)
    BY <1>1, <1>2, <1>3, ConcatProperties
<1>5. \/ IsLast /\ fetch' = "fetched" /\ skip' = skip
      \/ ~IsLast /\ fetch' = "fetching" /\ skip' = skip + Len(Page)
    BY <1>1 DEF ReadPage
<1>6. ReaderTypes'
    BY <1>1, <1>2, <1>3, <1>4, <1>5 DEF ReaderTypes
<1>7. ASSUME changes = 0
      PROVE  /\ table = initialTable /\ skip + Len(Page) <= Len(table)
             /\ rows' = SubSeq(initialTable, 1, skip + Len(Page))
             /\ IsLast => rows' = initialTable
  <2>1. table = initialTable /\ skip <= Len(table) /\ rows = SubSeq(initialTable, 1, skip)
      BY <1>1, <1>7 DEF Reading
  <2>2. /\ skip + Len(Page) <= Len(table)
        /\ rows \o Page = SubSeq(table, 1, skip + Len(Page))
        /\ IsLast => rows \o Page = table
      BY <1>1, <1>2, <2>1, PageInOrder
  <2>. QED BY <1>1, <2>1, <2>2
<1>8. ASSUME ~removed, NEW i \in 1..Len(initialTable)
      PROVE  Got(rows', initialTable[i]) \/ (~IsLast /\ Ahead(table, skip + Len(Page), initialTable[i]))
  <2>1. Got(rows, initialTable[i]) \/ Ahead(table, skip, initialTable[i])
      BY <1>1, <1>8 DEF Reading
  <2>2. CASE Got(rows, initialTable[i])
      BY <1>1, <1>2, <1>3, <2>2, GotStays
  <2>3. CASE Ahead(table, skip, initialTable[i])
    <3>1. Got(Page, initialTable[i]) \/ (~IsLast /\ Ahead(table, skip + Len(Page), initialTable[i]))
        BY <1>1, <1>2, <2>3, PageReads
    <3>2. Got(Page, initialTable[i]) => Got(rows', initialTable[i])
        BY <1>1, <1>2, <1>3, GotStays
    <3>. QED BY <3>1, <3>2
  <2>. QED BY <2>1, <2>2, <2>3
<1>9. CASE IsLast /\ fetch' = "fetched" /\ skip' = skip
  <2>1. DOMAIN initialTable = 1..Len(initialTable) /\ DOMAIN rows' = 1..Len(rows')
      BY <1>2, <1>4, LenProperties
  <2>2. WholeTableRead'
    <3>1. changes' = 0 => rows' = initialTable'
        BY <1>1, <1>7, <1>9
    <3>2. ASSUME ~removed', NEW i \in DOMAIN initialTable'
          PROVE  \E k \in DOMAIN rows' : rows'[k] = initialTable'[i]
      <4>1. ~removed /\ i \in 1..Len(initialTable) /\ initialTable' = initialTable
          BY <1>1, <2>1, <3>2
      <4>2. Got(rows', initialTable[i])
          BY <1>8, <1>9, <4>1
      <4>. QED BY <2>1, <4>1, <4>2 DEF Got
    <3>. QED BY <3>1, <3>2 DEF WholeTableRead
  <2>. QED BY <1>6, <1>9, <2>2 DEF ReaderInv
<1>10. CASE ~IsLast /\ fetch' = "fetching" /\ skip' = skip + Len(Page)
  <2>1. Reading'
    <3>1. changes' = 0 => table' = initialTable' /\ skip' <= Len(table') /\ rows' = SubSeq(initialTable', 1, skip')
        BY <1>1, <1>7, <1>10
    <3>2. ASSUME ~removed', NEW i \in 1..Len(initialTable')
          PROVE  Got(rows', initialTable'[i]) \/ Ahead(table', skip', initialTable'[i])
        BY <1>1, <1>8, <1>10, <3>2
    <3>. QED BY <3>1, <3>2 DEF Reading
  <2>2. WholeTableRead'
      BY <1>10 DEF WholeTableRead
  <2>3. pageSize' >= 1
      BY <1>1
  <2>. QED BY <1>6, <2>1, <2>2, <2>3 DEF ReaderInv
<1>. QED BY <1>5, <1>9, <1>10

LEMMA PageExhaustedKeepsReaderInv ==
    ASSUME ReaderInv, PageExhausted
    PROVE  ReaderInv'
<1>1. /\ fetch = "fetching" /\ pageSize \in Int /\ pageSize >= 1 /\ ReaderTypes /\ Reading
      /\ UNCHANGED <<initialTable, initialPageSize, table, rows, skip, changes, removed>>
    BY DEF ReaderInv, ReaderTypes, PageExhausted
<1>2. Reading' /\ fetch' # "fetched"
    BY <1>1 DEF Reading, Got, Ahead, PageExhausted
<1>3. pageSize' \in Int /\ (fetch' = "fetching" => pageSize' >= 1)
  <2>1. CASE pageSize = 1
      BY <1>1, <2>1 DEF PageExhausted
  <2>2. CASE pageSize # 1
    <3>1. pageSize' = pageSize \div 2
        BY <2>2 DEF PageExhausted
    <3>2. pageSize >= 2
        BY <1>1, <2>2
    <3>. QED BY <1>1, <3>1, <3>2
  <2>. QED BY <2>1, <2>2
<1>4. ReaderTypes'
    BY <1>1, <1>3 DEF ReaderTypes
<1>. QED BY <1>2, <1>3, <1>4 DEF ReaderInv, WholeTableRead

LEMMA PageFailsKeepsReaderInv ==
    ASSUME ReaderInv, PageFails
    PROVE  ReaderInv'
BY DEF ReaderInv, ReaderTypes, PageFails, WholeTableRead

LEMMA AddRowKeepsReaderInv ==
    ASSUME ReaderInv, AddRow
    PROVE  ReaderInv'
<1>1. PICK at \in 1..(Len(table) + 1), r \in Rows : table' = InsertAt(table, at, r)
    BY DEF AddRow
<1>2. /\ fetch = "fetching" /\ fetch' = "fetching" /\ changes' = changes + 1
      /\ UNCHANGED <<initialTable, initialPageSize, rows, skip, pageSize, removed>>
      /\ ReaderTypes /\ pageSize >= 1 /\ Reading
    BY DEF ReaderInv, AddRow, Changing
<1>3. table \in Seq(Rows) /\ changes \in Nat /\ skip \in Nat
    BY <1>2 DEF ReaderTypes
<1>4. /\ table' \in Seq(Rows) /\ Len(table') = Len(table) + 1
      /\ \A k \in 1..Len(table) : table'[k] = table[k] \/ table'[k + 1] = table[k]
    BY <1>1, <1>3, RowsMoved
<1>5. Len(table) \in Nat
    BY <1>3, LenProperties
<1>6. ASSUME NEW e, Ahead(table, skip, e) PROVE Ahead(table', skip, e)
  <2>1. PICK q \in 1..Len(table) : q > skip /\ table[q] = e
      BY <1>6 DEF Ahead
  <2>2. q \in 1..Len(table') /\ q + 1 \in 1..Len(table') /\ q + 1 > skip
      BY <1>3, <1>4, <1>5, <2>1
  <2>3. table'[q] = e \/ table'[q + 1] = e
      BY <1>4, <2>1
  <2>. QED BY <2>1, <2>2, <2>3 DEF Ahead
<1>7. Reading'
  <2>1. changes' # 0
      BY <1>2, <1>3
  <2>2. ASSUME ~removed', NEW i \in 1..Len(initialTable')
        PROVE  Got(rows', initialTable'[i]) \/ Ahead(table', skip', initialTable'[i])
    <3>1. Got(rows, initialTable[i]) \/ Ahead(table, skip, initialTable[i])
        BY <1>2, <2>2 DEF Reading
    <3>2. Ahead(table, skip, initialTable[i]) => Ahead(table', skip, initialTable[i])
        BY <1>6
    <3>. QED BY <1>2, <3>1, <3>2
  <2>. QED BY <2>1, <2>2 DEF Reading
<1>8. ReaderTypes'
    BY <1>2, <1>3, <1>4 DEF ReaderTypes
<1>. QED BY <1>2, <1>7, <1>8 DEF ReaderInv, WholeTableRead

LEMMA RemoveRowKeepsReaderInv ==
    ASSUME ReaderInv, RemoveRow
    PROVE  ReaderInv'
<1>1. PICK at \in 1..Len(table) : table' = RemoveAt(table, at)
    BY DEF RemoveRow
<1>2. /\ fetch = "fetching" /\ fetch' = "fetching" /\ changes' = changes + 1 /\ removed' = TRUE
      /\ UNCHANGED <<initialTable, initialPageSize, rows, skip, pageSize>>
      /\ ReaderTypes /\ pageSize >= 1
    BY DEF ReaderInv, RemoveRow, Changing
<1>3. table \in Seq(Rows) /\ changes \in Nat
    BY <1>2 DEF ReaderTypes
<1>4. table' \in Seq(Rows)
    BY <1>1, <1>3, RowTaken
<1>5. ReaderTypes'
    BY <1>2, <1>3, <1>4 DEF ReaderTypes
<1>6. Reading'
    BY <1>2, <1>3 DEF Reading
<1>. QED BY <1>2, <1>5, <1>6 DEF ReaderInv, WholeTableRead

\* A reading that is not disturbed stays as it is.
LEMMA ReaderInvSteps == ReaderInv /\ [ReaderNext]_readerVars => ReaderInv'
<1> SUFFICES ASSUME ReaderInv, [ReaderNext]_readerVars PROVE ReaderInv'
    OBVIOUS
<1>1. CASE ReadPage
    BY <1>1, ReadPageKeepsReaderInv
<1>2. CASE PageExhausted
    BY <1>2, PageExhaustedKeepsReaderInv
<1>3. CASE PageFails
    BY <1>3, PageFailsKeepsReaderInv
<1>4. CASE AddRow
    BY <1>4, AddRowKeepsReaderInv
<1>5. CASE RemoveRow
    BY <1>5, RemoveRowKeepsReaderInv
<1>6. CASE UNCHANGED readerVars
    BY <1>6 DEF readerVars, ReaderInv, ReaderTypes, Reading, Got, Ahead, WholeTableRead
<1>. QED BY <1>1, <1>2, <1>3, <1>4, <1>5, <1>6 DEF ReaderNext

\* Whatever the table, the page size and the order of pages, refusals and
\* changes: a table is read whole (fetchPagedRows()).
THEOREM TablesAlwaysReadWhole == ReaderSpec => []WholeTableRead
<1>1. ReaderInit => ReaderInv
    BY ReaderInvInit
<1>2. ReaderInv /\ [ReaderNext]_readerVars => ReaderInv'
    BY ReaderInvSteps
<1>3. ReaderInv => WholeTableRead
    BY DEF ReaderInv
<1>. QED BY <1>1, <1>2, <1>3, PTL DEF ReaderSpec
=============================================================================
