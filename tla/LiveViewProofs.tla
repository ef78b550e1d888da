---------------------------- MODULE LiveViewProofs ----------------------------
(***************************************************************************)
(* Theorems about LiveView: the live view shows the latest value, whatever *)
(* the number of transactions, the datoms in them and the order in which   *)
(* they were indexed.                                                      *)
(***************************************************************************)
EXTENDS LiveView, TxStoreProofs, FiniteSetTheorems

-----------------------------------------------------------------------------
\* Induction on the subsets of a finite set, for a property given as the set
\* T of those that have it.
LEMMA SubsetInduction ==
  ASSUME NEW D, IsFiniteSet(D), NEW T,
         \A E \in SUBSET D : (\A F \in SUBSET E : F # E => F \in T) => E \in T
  PROVE  D \in T
<1> SUFFICES ASSUME D \notin T PROVE FALSE
  OBVIOUS
<1> DEFINE R == StrictSubsetOrdering(D)
<1> DEFINE B == (SUBSET D) \ T
<1>1. IsWellFoundedOn(R, SUBSET D)
  <2>1. FiniteSubsetsOf(D) = SUBSET D
    BY FS_FiniteSubsetsOfFinite
  <2>2. IsWellFoundedOn(R, FiniteSubsetsOf(D))
    BY FS_StrictSubsetOrderingWellFounded
  <2> QED
    BY <2>1, <2>2
<1>2. B \subseteq SUBSET D /\ B # {}
  OBVIOUS
<1>3. PICK E \in B : \A F \in B : ~(<<F, E>> \in R)
  <2> HIDE DEF R, B
  <2> QED BY <1>1, <1>2, WFMin
<1>4. ASSUME NEW F \in SUBSET E, F # E
      PROVE  F \in T
  <2>1. <<F, E>> \in R
    BY <1>3, <1>4 DEF StrictSubsetOrdering
  <2> QED
    BY <2>1, <1>3
<1> QED
  BY <1>3, <1>4

\* A finite set has a last element in a strict order.
LEMMA HasMaximal ==
  ASSUME NEW D, IsFiniteSet(D), D # {}, NEW R,
         \A x \in D : <<x, x>> \notin R,
         \A x, y, z \in D : <<x, y>> \in R /\ <<y, z>> \in R => <<x, z>> \in R
  PROVE  \E m \in D : \A e \in D : <<m, e>> \notin R
<1> DEFINE T == {E \in SUBSET D : E # {} => \E m \in E : \A e \in E : <<m, e>> \notin R}
<1>1. ASSUME NEW E \in SUBSET D, \A F \in SUBSET E : F # E => F \in T
      PROVE  E \in T
  <2> SUFFICES ASSUME E # {}
               PROVE  \E m \in E : \A e \in E : <<m, e>> \notin R
    OBVIOUS
  <2>1. PICK x \in E : TRUE
    OBVIOUS
  <2> DEFINE F == {y \in E : <<x, y>> \in R}
  <2>2. F \in SUBSET E /\ F # E
    OBVIOUS
  <2>3. CASE F = {}
    BY <2>3
  <2>4. CASE F # {}
    <3>1. PICK m \in F : \A e \in F : <<m, e>> \notin R
      BY <1>1, <2>2, <2>4
    <3>2. \A e \in E : <<m, e>> \notin R
      BY <3>1
    <3> QED
      BY <3>1, <3>2
  <2> QED
    BY <2>3, <2>4
<1>2. D \in T
  <2> HIDE DEF T
  <2> QED BY <1>1, SubsetInduction
<1> QED
  BY <1>2

-----------------------------------------------------------------------------
Datom == [op : {"assert", "retract"}, cell : Cell, value : Nat, id : Id]

\* Ids and the datoms of one cell are totally ordered.
LEMMA BeforeIsOrder ==
  /\ \A i \in Id : ~Before(i, i)
  /\ \A i, j, k \in Id : Before(i, j) /\ Before(j, k) => Before(i, k)
  /\ \A i, j \in Id : i = j \/ Before(i, j) \/ Before(j, i)
<1>1. \A i \in Id : i.wall \in Nat /\ i.agent \in Nat
  BY TxStoreAssumption DEF Id
<1>2. \A i, j \in Id : i = j <=> i.wall = j.wall /\ i.agent = j.agent
  BY DEF Id
<1> QED
  BY <1>1, <1>2 DEF Before

LEMMA LastOfIsLast ==
  ASSUME NEW E \in SUBSET Datom, IsFiniteSet(E), E # {}
  PROVE  LastOf(E) \in E
<1> DEFINE R == {p \in E \X E : EAVT(p[1], p[2])}
<1>1. \A x \in E : x.value \in Nat /\ x.id \in Id /\ x.op \in {"assert", "retract"}
  BY DEF Datom
<1>2. \A x \in E : ~EAVT(x, x)
  BY <1>1, BeforeIsOrder DEF EAVT
<1>3. \A x, y, z \in E : EAVT(x, y) /\ EAVT(y, z) => EAVT(x, z)
  BY <1>1, BeforeIsOrder DEF EAVT
<1>4. \A x, y \in E : <<x, y>> \in R <=> EAVT(x, y)
  OBVIOUS
<1>5. \E m \in E : \A e \in E : <<m, e>> \notin R
  <2> HIDE DEF R
  <2> QED BY <1>2, <1>3, <1>4, HasMaximal
<1> QED
  BY <1>4, <1>5 DEF LastOf

-----------------------------------------------------------------------------
\* The function that IndexAll is defined by: g[E] is the view after E.
IndexOne(g, view, E) ==
  IF E = {} THEN view ELSE IndexDatom(g[E \ {LastOf(E)}], LastOf(E))

Indexes(g, view, D) == g = [E \in SUBSET D |-> IndexOne(g, view, E)]

LEMMA IndexAllDef ==
  ASSUME NEW view, NEW D
  PROVE  IndexAll(view, D) = (CHOOSE g : Indexes(g, view, D))[D]
BY DEF IndexAll, MapThenFoldSet, Indexes, IndexOne

\* There is such a function: one that is right for n datoms gives one that is
\* right for n + 1.
LEMMA IndexExists ==
  ASSUME NEW view, NEW D \in SUBSET Datom, IsFiniteSet(D)
  PROVE  \E g : Indexes(g, view, D)
<1> DEFINE Right(g, n) == /\ g = [E \in SUBSET D |-> g[E]]
                          /\ \A E \in SUBSET D :
                               Cardinality(E) <= n => g[E] = IndexOne(g, view, E)
<1> DEFINE T == {n \in Nat : \E g : Right(g, n)}
<1>1. \A E \in SUBSET D :
        /\ IsFiniteSet(E) /\ Cardinality(E) \in Nat /\ Cardinality(E) <= Cardinality(D)
        /\ Cardinality(E) = 0 => E = {}
  BY FS_Subset, FS_CardinalityType, FS_EmptySet
<1>2. ASSUME NEW E \in SUBSET D, E # {}
      PROVE  /\ E \ {LastOf(E)} \in SUBSET D
             /\ Cardinality(E) # 0
             /\ Cardinality(E \ {LastOf(E)}) = Cardinality(E) - 1
  <2>1. LastOf(E) \in E
    BY <1>1, <1>2, LastOfIsLast
  <2> QED
    BY <2>1, <1>1, <1>2, FS_RemoveElement
<1>3. 0 \in T
  <2> DEFINE g == [E \in SUBSET D |-> view]
  <2>1. Right(g, 0)
    BY <1>1 DEF IndexOne
  <2> QED
    BY <2>1
<1>4. ASSUME NEW n \in Nat, n \in T
      PROVE  n + 1 \in T
  <2>1. PICK g : Right(g, n)
    BY <1>4
  <2> DEFINE h == [E \in SUBSET D |-> IF Cardinality(E) = n + 1
                                      THEN IndexOne(g, view, E) ELSE g[E]]
  <2>2. h = [E \in SUBSET D |-> h[E]]
    OBVIOUS
  <2>3. \A E \in SUBSET D : Cardinality(E) <= n => h[E] = g[E]
    BY <1>1
  <2>4. \A E \in SUBSET D : Cardinality(E) = n + 1 => h[E] = IndexOne(g, view, E)
    OBVIOUS
  <2> HIDE DEF h
  <2>5. ASSUME NEW E \in SUBSET D, Cardinality(E) <= n + 1
        PROVE  h[E] = IndexOne(g, view, E)
    <3>1. CASE Cardinality(E) = n + 1
      BY <3>1, <2>4
    <3>2. CASE Cardinality(E) <= n
      BY <3>2, <2>1, <2>3
    <3> QED
      BY <2>5, <3>1, <3>2, <1>1
  <2>6. ASSUME NEW E \in SUBSET D, Cardinality(E) <= n + 1
        PROVE  IndexOne(g, view, E) = IndexOne(h, view, E)
    <3>1. CASE E = {}
      BY <3>1 DEF IndexOne
    <3>2. CASE E # {}
      <4>1. E \ {LastOf(E)} \in SUBSET D /\ Cardinality(E \ {LastOf(E)}) <= n
        BY <3>2, <1>1, <1>2, <2>6
      <4>2. h[E \ {LastOf(E)}] = g[E \ {LastOf(E)}]
        BY <4>1, <2>3
      <4> QED
        BY <4>2 DEF IndexOne
    <3> QED
      BY <3>1, <3>2
  <2>7. Right(h, n + 1)
    BY <2>2, <2>5, <2>6
  <2>8. n + 1 \in Nat
    OBVIOUS
  <2> HIDE DEF Right
  <2> QED
    BY <2>7, <2>8
<1>5. Cardinality(D) \in T
  <2> DEFINE U == T \cap 0..Cardinality(D)
  <2> DEFINE R == {p \in U \X U : p[1] < p[2]}
  <2>1. Cardinality(D) \in Nat
    BY FS_CardinalityType
  <2>2. 0 \in U /\ IsFiniteSet(U) /\ U \subseteq Nat
    <3> HIDE DEF T
    <3>1. IsFiniteSet(0..Cardinality(D)) /\ U \in SUBSET (0..Cardinality(D))
      BY <2>1, FS_Interval
    <3> QED
      BY <3>1, <2>1, <1>3, FS_Subset
  <2> HIDE DEF T
  <2>3. \A x, y \in U : <<x, y>> \in R <=> x < y
    OBVIOUS
  <2>4. PICK m \in U : \A k \in U : <<m, k>> \notin R
    <3>1. \A x \in U : <<x, x>> \notin R
      BY <2>2, <2>3
    <3>2. \A x, y, z \in U : <<x, y>> \in R /\ <<y, z>> \in R => <<x, z>> \in R
      BY <2>2, <2>3
    <3> HIDE DEF R, U
    <3> QED BY <2>2, <3>1, <3>2, HasMaximal
  <2>5. m \in T /\ m \in Nat /\ m <= Cardinality(D)
    BY <2>1
  <2>6. CASE m = Cardinality(D)
    BY <2>5, <2>6
  <2>7. CASE m < Cardinality(D)
    <3>1. m + 1 \in T
      BY <2>5, <1>4
    <3>2. m + 1 \in 0..Cardinality(D) /\ m < m + 1
      BY <2>1, <2>5, <2>7
    <3> QED
      BY <3>1, <3>2, <2>3, <2>4
  <2> QED
    BY <2>1, <2>5, <2>6, <2>7
<1>6. PICK g : Right(g, Cardinality(D))
  BY <1>5
<1>7. g = [E \in SUBSET D |-> IndexOne(g, view, E)]
  <2> DEFINE h == [E \in SUBSET D |-> IndexOne(g, view, E)]
  <2>1. \A E \in SUBSET D : g[E] = h[E]
    BY <1>1, <1>6
  <2>2. g = [E \in SUBSET D |-> g[E]]
    BY <1>6
  <2> HIDE DEF Right
  <2> QED
    BY <2>1, <2>2
<1> QED
  BY <1>7 DEF Indexes

\* Induction on the datoms that were indexed, for a property of the datoms
\* and the view, given as the set R of the pairs that have it.
LEMMA IndexAllInduction ==
  ASSUME NEW view, NEW D \in SUBSET Datom, IsFiniteSet(D), NEW R,
         <<{}, view>> \in R,
         \A E \in SUBSET D : \A d \in E : \A v :
           <<E \ {d}, v>> \in R => <<E, IndexDatom(v, d)>> \in R
  PROVE  <<D, IndexAll(view, D)>> \in R
<1> DEFINE g == CHOOSE f : Indexes(f, view, D)
<1>1. Indexes(g, view, D)
  BY IndexExists
<1>2. IndexAll(view, D) = g[D]
  BY IndexAllDef
<1> HIDE DEF g
<1>3. \A E \in SUBSET D : g[E] = IndexOne(g, view, E)
  BY <1>1 DEF Indexes
<1> DEFINE T == {E \in SUBSET D : <<E, g[E]>> \in R}
<1>4. ASSUME NEW E \in SUBSET D, \A F \in SUBSET E : F # E => F \in T
      PROVE  E \in T
  <2>1. CASE E = {}
    BY <2>1, <1>3 DEF IndexOne
  <2>2. CASE E # {}
    <3>1. LastOf(E) \in E
      BY <2>2, LastOfIsLast, FS_Subset
    <3>2. E \ {LastOf(E)} \in T
      BY <3>1, <1>4
    <3>3. g[E] = IndexDatom(g[E \ {LastOf(E)}], LastOf(E))
      BY <2>2, <1>3 DEF IndexOne
    <3> QED
      BY <3>1, <3>2, <3>3
  <2> QED
    BY <2>1, <2>2
<1>5. D \in T
  <2> HIDE DEF T
  <2> QED BY <1>4, SubsetInduction
<1> QED
  BY <1>2, <1>5
-----------------------------------------------------------------------------
\* The view v as far as the cell c is concerned, when A are all assertions of
\* c and those of Done were indexed: at most one of A is shown, and it is the
\* last of all as soon as that was indexed.
IsTop(x, A) == \A y \in A : y = x \/ Before(y.id, x.id)

Fits(v, c, A, Done) ==
  /\ \A e \in v : e.cell = c => e \in A
  /\ \A e, f \in v : e.cell = c /\ f.cell = c => e = f
  /\ \A x \in A \cap Done : IsTop(x, A) => x \in v

\* A datom that takes nothing away from the last of A.
Harmless(d, c, A) ==
  d.cell = c =>
    IF d.op = "assert" THEN d \in A
    ELSE \A x \in A : IsTop(x, A) /\ x.value = d.value => Before(d.id, x.id)

LEMMA IndexFits ==
  ASSUME NEW c, NEW A, \A x \in A : x.cell = c /\ x.id \in Id /\ x.op = "assert",
         NEW v, NEW Done, Fits(v, c, A, Done),
         NEW d, d.id \in Id, Harmless(d, c, A)
  PROVE  Fits(IndexDatom(v, d), c, A, Done \cup {d})
<1> DEFINE w == IndexDatom(v, d)
<1> DEFINE shown == {e \in v : e.cell = d.cell}
<1>1. CASE d.cell # c
  <2>1. \A e : e.cell = c => (e \in w <=> e \in v)
    BY <1>1 DEF IndexDatom
  <2>2. d \notin A
    BY <1>1
  <2> QED
    BY <2>1, <2>2 DEF Fits
<1>2. CASE d.cell = c /\ d.op = "assert"
  <2>1. d \in A
    BY <1>2 DEF Harmless
  <2>2. shown \subseteq A
    BY <1>2 DEF Fits
  <2>3. CASE \E e \in shown : ~Before(e.id, d.id)
    <3>1. w = v
      BY <1>2, <2>3 DEF IndexDatom
    <3>2. IsTop(d, A) => d \in v
      BY <2>2, <2>3 DEF IsTop
    <3> QED
      BY <3>1, <3>2 DEF Fits
  <2>4. CASE ~\E e \in shown : ~Before(e.id, d.id)
    <3>1. w = (v \ shown) \cup {d}
      BY <1>2, <2>4 DEF IndexDatom
    <3>2. \A e \in w : e.cell = c <=> e = d
      BY <3>1, <1>2
    <3>3. ASSUME NEW x \in A \cap (Done \cup {d}), IsTop(x, A)
          PROVE  x \in w
      <4>1. CASE x = d
        BY <4>1, <3>1
      <4>2. CASE x # d
        <5>1. x \in shown
          BY <4>2, <3>3, <1>2 DEF Fits
        <5>2. Before(d.id, x.id) /\ Before(x.id, d.id)
          BY <5>1, <4>2, <3>3, <2>1, <2>4 DEF IsTop
        <5>3. Before(d.id, d.id)
          BY <5>2, <3>3, BeforeIsOrder
        <5> QED
          BY <5>3, BeforeIsOrder
      <4> QED
        BY <4>1, <4>2
    <3> QED
      BY <3>2, <3>3, <2>1 DEF Fits
  <2> QED
    BY <2>3, <2>4
<1>3. CASE d.cell = c /\ d.op # "assert"
  <2>1. w = v \ {e \in shown : e.value = d.value /\ ~Before(d.id, e.id)}
    BY <1>3 DEF IndexDatom
  <2>2. d \notin A
    BY <1>3
  <2>3. ASSUME NEW x \in A \cap (Done \cup {d}), IsTop(x, A)
        PROVE  x \in w
    <3>1. x \in v
      BY <2>2, <2>3 DEF Fits
    <3>2. x.value = d.value => Before(d.id, x.id)
      BY <1>3, <2>3 DEF Harmless
    <3> QED
      BY <3>1, <3>2, <2>1
  <2> QED
    BY <2>1, <2>3 DEF Fits
<1> QED
  BY <1>1, <1>2, <1>3

\* However many harmless datoms are indexed, the view fits.
LEMMA IndexAllFits ==
  ASSUME NEW c, NEW A, \A x \in A : x.cell = c /\ x.id \in Id /\ x.op = "assert",
         NEW v, NEW Done, Fits(v, c, A, Done),
         NEW D \in SUBSET Datom, IsFiniteSet(D), \A d \in D : Harmless(d, c, A)
  PROVE  Fits(IndexAll(v, D), c, A, Done \cup D)
<1> DEFINE R == {p \in (SUBSET D) \X (SUBSET (v \cup D)) : Fits(p[2], c, A, Done \cup p[1])}
<1>1. \A E, w : <<E, w>> \in R <=> /\ E \in SUBSET D /\ w \in SUBSET (v \cup D)
                                   /\ Fits(w, c, A, Done \cup E)
  OBVIOUS
<1>2. <<{}, v>> \in R
  <2>1. Done \cup {} = Done
    OBVIOUS
  <2> HIDE DEF R
  <2> QED BY <2>1, <1>1
<1>3. ASSUME NEW E \in SUBSET D, NEW d \in E, NEW w, <<E \ {d}, w>> \in R
      PROVE  <<E, IndexDatom(w, d)>> \in R
  <2>1. w \in SUBSET (v \cup D) /\ Fits(w, c, A, Done \cup (E \ {d}))
    BY <1>1, <1>3
  <2>2. IndexDatom(w, d) \in SUBSET (v \cup D)
    BY <2>1 DEF IndexDatom
  <2>3. d.id \in Id /\ Harmless(d, c, A)
    BY DEF Datom
  <2>4. Fits(IndexDatom(w, d), c, A, (Done \cup (E \ {d})) \cup {d})
    BY <2>1, <2>3, IndexFits
  <2>5. (Done \cup (E \ {d})) \cup {d} = Done \cup E
    OBVIOUS
  <2> HIDE DEF R
  <2> QED
    BY <2>2, <2>4, <2>5, <1>1
<1>4. <<D, IndexAll(v, D)>> \in R
  <2> HIDE DEF R
  <2> QED BY <1>2, <1>3, IndexAllInduction
<1> QED
  BY <1>1, <1>4
-----------------------------------------------------------------------------
\* The image of a finite set.
LEMMA ImageFinite ==
  ASSUME NEW S, IsFiniteSet(S), NEW f
  PROVE  IsFiniteSet({f[x] : x \in S})
<1> DEFINE T == {f[x] : x \in S}
<1> DEFINE g == [x \in S |-> f[x]]
<1>1. g \in Surjection(S, T)
  BY DEF Surjection
<1> QED
  BY <1>1, FS_Surjection

\* A transaction of finitely many facts, none of them asserted and retracted.
Plain(t) == /\ t \in Tx
            /\ t.asserts \cap t.retracts = {}
            /\ IsFiniteSet(t.asserts) /\ IsFiniteSet(t.retracts)

\* The assertions of the cell c by the transactions V.
AssertsOf(V, c) == {d \in UNION {Asserts(t) : t \in V} : d.cell = c}

LEMMA ValueIsNat == \A c \in Cell : \A v \in ValueOf(c) : v \in Nat
BY TxStoreAssumption DEF ValueOf, Accepted, Proposed, Rejected, Reviewed

LEMMA FactParts ==
  ASSUME NEW f \in Fact
  PROVE  f[1] \in Cell /\ f[2] \in ValueOf(f[1]) /\ f[2] \in Nat /\ f = <<f[1], f[2]>>
<1>1. PICK c \in Cell : f \in {c} \X ValueOf(c)
  BY DEF Fact
<1>2. f[1] = c /\ f[2] \in ValueOf(c) /\ f = <<f[1], f[2]>>
  BY <1>1
<1> QED
  BY <1>2, ValueIsNat

LEMMA DatomsOfFacts ==
  ASSUME NEW op \in {"assert", "retract"}, NEW F \in SUBSET Fact, NEW id \in Id
  PROVE  /\ Datoms(op, F, id) \subseteq Datom
         /\ \A d \in Datom :
              d \in Datoms(op, F, id) <=> d.op = op /\ d.id = id /\ <<d.cell, d.value>> \in F
         /\ \A d \in Datoms(op, F, id) : d.value \in ValueOf(d.cell)
         /\ \A c, v : <<c, v>> \in F =>
              [op |-> op, cell |-> c, value |-> v, id |-> id] \in Datoms(op, F, id)
         /\ IsFiniteSet(F) => IsFiniteSet(Datoms(op, F, id))
<1>1. \A f \in F : f[1] \in Cell /\ f[2] \in ValueOf(f[1]) /\ f[2] \in Nat /\ f = <<f[1], f[2]>>
  BY FactParts
<1>2. \A d \in Datoms(op, F, id) : \E f \in F :
        d = [op |-> op, cell |-> f[1], value |-> f[2], id |-> id]
  BY DEF Datoms
<1>3. \A c, v : <<c, v>> \in F =>
        [op |-> op, cell |-> c, value |-> v, id |-> id] \in Datoms(op, F, id)
  <2> SUFFICES ASSUME NEW c, NEW v, <<c, v>> \in F
               PROVE  [op |-> op, cell |-> c, value |-> v, id |-> id] \in Datoms(op, F, id)
    OBVIOUS
  <2>1. <<c, v>>[1] = c /\ <<c, v>>[2] = v
    OBVIOUS
  <2> QED
    BY <2>1 DEF Datoms
<1>4. Datoms(op, F, id) \subseteq Datom
  BY <1>1, <1>2 DEF Datom
<1>5. ASSUME NEW d \in Datom
      PROVE  d \in Datoms(op, F, id) <=> d.op = op /\ d.id = id /\ <<d.cell, d.value>> \in F
  <2>1. d = [op |-> d.op, cell |-> d.cell, value |-> d.value, id |-> d.id]
    BY DEF Datom
  <2>2. ASSUME d \in Datoms(op, F, id)
        PROVE  d.op = op /\ d.id = id /\ <<d.cell, d.value>> \in F
    BY <2>2, <1>1, <1>2
  <2>3. ASSUME d.op = op, d.id = id, <<d.cell, d.value>> \in F
        PROVE  d \in Datoms(op, F, id)
    BY <2>1, <2>3, <1>3
  <2> QED
    BY <2>2, <2>3
<1>6. \A d \in Datoms(op, F, id) : d.value \in ValueOf(d.cell)
  BY <1>1, <1>2
<1>7. IsFiniteSet(F) => IsFiniteSet(Datoms(op, F, id))
  <2> DEFINE g == [f \in F |-> [op |-> op, cell |-> f[1], value |-> f[2], id |-> id]]
  <2>1. Datoms(op, F, id) = {g[f] : f \in F}
    BY DEF Datoms
  <2> HIDE DEF g
  <2> QED
    BY <2>1, ImageFinite
<1> QED
  BY <1>3, <1>4, <1>5, <1>6, <1>7

\* The same for a transaction.
LEMMA DatomsOfTx ==
  ASSUME NEW t, Plain(t)
  PROVE  /\ Asserts(t) \subseteq Datom /\ IsFiniteSet(Asserts(t))
         /\ Retracts(t) \subseteq Datom /\ IsFiniteSet(Retracts(t))
         /\ \A d \in Asserts(t) : /\ d.op = "assert" /\ d.id = t.id
                                  /\ <<d.cell, d.value>> \in t.asserts
                                  /\ d.value \in ValueOf(d.cell)
         /\ \A d \in Retracts(t) : /\ d.op = "retract" /\ d.id = t.id
                                   /\ <<d.cell, d.value>> \in t.retracts
                                   /\ d.value \in ValueOf(d.cell)
         /\ \A c, v : <<c, v>> \in t.asserts =>
              [op |-> "assert", cell |-> c, value |-> v, id |-> t.id] \in Asserts(t)
<1>1. t.asserts \in SUBSET Fact /\ t.retracts \in SUBSET Fact /\ t.id \in Id
      /\ IsFiniteSet(t.asserts) /\ IsFiniteSet(t.retracts)
  BY DEF Plain, Tx
<1>2. /\ Asserts(t) \subseteq Datom /\ IsFiniteSet(Asserts(t))
      /\ \A d \in Asserts(t) : /\ d.op = "assert" /\ d.id = t.id
                               /\ <<d.cell, d.value>> \in t.asserts
                               /\ d.value \in ValueOf(d.cell)
      /\ \A c, v : <<c, v>> \in t.asserts =>
           [op |-> "assert", cell |-> c, value |-> v, id |-> t.id] \in Asserts(t)
  BY <1>1, DatomsOfFacts DEF Asserts
<1>3. /\ Retracts(t) \subseteq Datom /\ IsFiniteSet(Retracts(t))
      /\ \A d \in Retracts(t) : /\ d.op = "retract" /\ d.id = t.id
                                /\ <<d.cell, d.value>> \in t.retracts
                                /\ d.value \in ValueOf(d.cell)
  BY <1>1, DatomsOfFacts DEF Retracts
<1> QED
  BY <1>2, <1>3

\* What a set of transactions asserts of a cell.
LEMMA AssertsOfCell ==
  ASSUME NEW V, \A t \in V : Plain(t), NEW c
  PROVE  /\ AssertsOf(V, c) \subseteq Datom
         /\ \A d \in AssertsOf(V, c) : d.cell = c /\ d.id \in Id /\ d.op = "assert"
         /\ \A d \in AssertsOf(V, c) :
              /\ d.value \in ValueOf(c)
              /\ \E t \in V : d.id = t.id /\ <<c, d.value>> \in t.asserts
         /\ \A t \in V : \A v : <<c, v>> \in t.asserts =>
              [op |-> "assert", cell |-> c, value |-> v, id |-> t.id] \in AssertsOf(V, c)
         /\ IsFiniteSet(V) => IsFiniteSet(AssertsOf(V, c))
<1>1. \A d \in AssertsOf(V, c) : d.cell = c /\ \E t \in V : d \in Asserts(t)
  BY DEF AssertsOf
<1>2. AssertsOf(V, c) \subseteq Datom
  BY <1>1, DatomsOfTx
<1>3. ASSUME NEW d \in AssertsOf(V, c)
      PROVE  /\ d.cell = c /\ d.id \in Id /\ d.op = "assert" /\ d.value \in ValueOf(c)
             /\ \E t \in V : d.id = t.id /\ <<c, d.value>> \in t.asserts
  BY <1>1, <1>2, DatomsOfTx DEF Datom
<1>4. ASSUME NEW t \in V, NEW v, <<c, v>> \in t.asserts
      PROVE  [op |-> "assert", cell |-> c, value |-> v, id |-> t.id] \in AssertsOf(V, c)
  BY <1>4, DatomsOfTx DEF AssertsOf
<1>5. IsFiniteSet(V) => IsFiniteSet(AssertsOf(V, c))
  <2> SUFFICES ASSUME IsFiniteSet(V) PROVE IsFiniteSet(AssertsOf(V, c))
    OBVIOUS
  <2> DEFINE f == [t \in V |-> Asserts(t)]
  <2> DEFINE S == {f[t] : t \in V}
  <2>1. IsFiniteSet(S)
    BY ImageFinite
  <2>2. \A T \in S : IsFiniteSet(T)
    BY DatomsOfTx
  <2>3. IsFiniteSet(UNION S)
    <3> HIDE DEF S
    <3> QED BY <2>1, <2>2, FS_UNION
  <2>4. AssertsOf(V, c) \in SUBSET (UNION S)
    BY DEF AssertsOf
  <2> QED
    BY <2>3, <2>4, FS_Subset
<1> QED
  BY <1>2, <1>3, <1>4, <1>5
-----------------------------------------------------------------------------
\* The transactions V retract the cell c only to replace its value.
Replaced(V, c) ==
  \A t \in V : (\E v \in ValueOf(c) : <<c, v>> \in t.retracts)
                 => \E v \in ValueOf(c) : <<c, v>> \in t.asserts

\* A view fits the transactions V: what they assert of c was indexed.
FitsTxs(view, V, c) == Fits(view, c, AssertsOf(V, c), AssertsOf(V, c))

\* What a transaction retracts, it replaces by something later.
LEMMA TxHarmless ==
  ASSUME NEW V, \A t \in V : Plain(t), NEW c, Replaced(V, c), NEW t \in V
  PROVE  \A d \in Asserts(t) \cup Retracts(t) : Harmless(d, c, AssertsOf(V, c))
<1>1. ASSUME NEW d \in Asserts(t)
      PROVE  Harmless(d, c, AssertsOf(V, c))
  <2>1. d.op = "assert"
    BY DatomsOfTx
  <2>2. d.cell = c => d \in AssertsOf(V, c)
    BY DEF AssertsOf
  <2> QED
    BY <2>1, <2>2 DEF Harmless
<1>2. ASSUME NEW d \in Retracts(t)
      PROVE  Harmless(d, c, AssertsOf(V, c))
  <2> SUFFICES ASSUME d.cell = c,
                      NEW x \in AssertsOf(V, c), IsTop(x, AssertsOf(V, c)), x.value = d.value
               PROVE  Before(d.id, x.id)
    <3>1. d.op = "retract"
      BY DatomsOfTx
    <3> QED
      BY <3>1 DEF Harmless
  <2>1. d.id = t.id /\ <<c, d.value>> \in t.retracts /\ d.value \in ValueOf(c)
    BY DatomsOfTx
  <2>2. PICK v \in ValueOf(c) : <<c, v>> \in t.asserts
    BY <2>1 DEF Replaced
  <2> DEFINE y == [op |-> "assert", cell |-> c, value |-> v, id |-> t.id]
  <2>3. y \in AssertsOf(V, c)
    BY <2>2, AssertsOfCell
  <2>4. y.value = v /\ y.id = t.id
    OBVIOUS
  <2> HIDE DEF y
  <2>5. y # x
    BY <2>1, <2>2, <2>4 DEF Plain
  <2>6. Before(y.id, x.id)
    BY <2>3, <2>5 DEF IsTop
  <2> QED
    BY <2>1, <2>4, <2>6
<1> QED
  BY <1>1, <1>2

LEMMA RebuiltFits ==
  ASSUME NEW V, \A t \in V : Plain(t), IsFiniteSet(V), NEW c, Replaced(V, c)
  PROVE  FitsTxs(Rebuilt(V), V, c)
<1> DEFINE A == AssertsOf(V, c)
<1> DEFINE D == UNION {Asserts(t) \cup Retracts(t) : t \in V}
<1>1. \A x \in A : x.cell = c /\ x.id \in Id /\ x.op = "assert"
  BY AssertsOfCell
<1>2. D \in SUBSET Datom
  BY DatomsOfTx
<1>3. IsFiniteSet(D)
  <2> DEFINE f == [t \in V |-> Asserts(t) \cup Retracts(t)]
  <2> DEFINE S == {f[t] : t \in V}
  <2>1. IsFiniteSet(S)
    BY ImageFinite
  <2>2. \A T \in S : IsFiniteSet(T)
    <3>1. \A t \in V : IsFiniteSet(Asserts(t)) /\ IsFiniteSet(Retracts(t))
      BY DatomsOfTx
    <3>2. \A t \in V : IsFiniteSet(f[t])
      BY <3>1, FS_Union
    <3> QED
      BY <3>2
  <2>3. IsFiniteSet(UNION S)
    <3> HIDE DEF S
    <3> QED BY <2>1, <2>2, FS_UNION
  <2> QED
    BY <2>3
<1>4. \A d \in D : Harmless(d, c, A)
  BY TxHarmless
<1>5. Fits({}, c, A, {})
  BY DEF Fits
<1>6. Fits(IndexAll({}, D), c, A, {} \cup D)
  <2> HIDE DEF A, D
  <2> QED BY <1>1, <1>2, <1>3, <1>4, <1>5, IndexAllFits
<1>7. A \subseteq D
  BY DEF AssertsOf
<1>8. Fits(IndexAll({}, D), c, A, A)
  <2> HIDE DEF A, D
  <2> QED BY <1>6, <1>7 DEF Fits
<1> QED
  BY <1>8 DEF FitsTxs, Rebuilt

LEMMA AppliedFits ==
  ASSUME NEW V, NEW t, \A s \in V \cup {t} : Plain(s),
         NEW c, Replaced(V \cup {t}, c),
         NEW view, FitsTxs(view, V, c)
  PROVE  FitsTxs(Applied(view, t), V \cup {t}, c)
<1> DEFINE A == AssertsOf(V \cup {t}, c)
<1> DEFINE B == AssertsOf(V, c)
<1>1. \A x \in A : x.cell = c /\ x.id \in Id /\ x.op = "assert"
  BY AssertsOfCell
<1>2. B \subseteq A /\ A \subseteq B \cup Asserts(t)
  BY DEF AssertsOf
<1>3. Fits(view, c, B, B)
  BY DEF FitsTxs
<1>4. \A d \in Asserts(t) \cup Retracts(t) : Harmless(d, c, A)
  BY TxHarmless
<1>5. /\ Asserts(t) \in SUBSET Datom /\ IsFiniteSet(Asserts(t))
      /\ Retracts(t) \in SUBSET Datom /\ IsFiniteSet(Retracts(t))
  BY DatomsOfTx
<1> HIDE DEF A, B
<1>6. \A x \in B : IsTop(x, A) => IsTop(x, B)
  BY <1>2 DEF IsTop
<1>7. Fits(view, c, A, B)
  BY <1>2, <1>3, <1>6 DEF Fits
<1> DEFINE v1 == IndexAll(view, Retracts(t))
<1>8. Fits(v1, c, A, B \cup Retracts(t))
  BY <1>1, <1>4, <1>5, <1>7, IndexAllFits
<1> DEFINE v2 == IndexAll(v1, Asserts(t))
<1> HIDE DEF v1
<1>9. Fits(v2, c, A, (B \cup Retracts(t)) \cup Asserts(t))
  BY <1>1, <1>4, <1>5, <1>8, IndexAllFits
<1> HIDE DEF v2
<1>10. Fits(v2, c, A, A)
  BY <1>2, <1>9 DEF Fits
<1> QED
  BY <1>10 DEF FitsTxs, Applied, v1, v2, A

\* A view that fits shows the latest value, if there is only one.
LEMMA FitsShowsLatest ==
  ASSUME NEW V, \A t \in V : Plain(t), IsFiniteSet(V), NEW c,
         Cardinality(Latest(V, c)) <= 1,
         NEW view, FitsTxs(view, V, c)
  PROVE  {e.value : e \in {d \in view : d.cell = c}} = Latest(V, c)
<1> DEFINE A == AssertsOf(V, c)
<1> DEFINE shown == {d \in view : d.cell = c}
<1>1. /\ A \subseteq Datom /\ IsFiniteSet(A)
      /\ \A d \in A : d.cell = c /\ d.id \in Id /\ d.op = "assert"
      /\ \A d \in A :
           /\ d.value \in ValueOf(c)
           /\ \E t \in V : d.id = t.id /\ <<c, d.value>> \in t.asserts
  BY AssertsOfCell
<1>2. ASSUME NEW t \in V, NEW v, <<c, v>> \in t.asserts
      PROVE  \E d \in A : d.value = v /\ d.id = t.id
  <2> DEFINE d == [op |-> "assert", cell |-> c, value |-> v, id |-> t.id]
  <2>1. d \in A
    BY <1>2, AssertsOfCell
  <2>2. d.value = v /\ d.id = t.id
    OBVIOUS
  <2> QED
    BY <2>1, <2>2
<1>3. Fits(view, c, A, A)
  BY DEF FitsTxs
<1> HIDE DEF A
<1>4. CASE A = {}
  <2>1. Latest(V, c) = {}
    BY <1>2, <1>4 DEF Latest
  <2>2. shown = {}
    BY <1>3, <1>4 DEF Fits
  <2> QED
    BY <2>1, <2>2
<1>5. CASE A # {}
  <2> DEFINE R == {p \in A \X A : Before(p[1].id, p[2].id)}
  <2>1. \A x, y \in A : <<x, y>> \in R <=> Before(x.id, y.id)
    OBVIOUS
  <2>2. PICK m \in A : \A e \in A : ~Before(m.id, e.id)
    <3>1. \A x \in A : <<x, x>> \notin R
      BY <1>1, <2>1, BeforeIsOrder
    <3>2. \A x, y, z \in A : <<x, y>> \in R /\ <<y, z>> \in R => <<x, z>> \in R
      BY <1>1, <2>1, BeforeIsOrder
    <3>3. \E m \in A : \A e \in A : <<m, e>> \notin R
      <4> HIDE DEF R
      <4> QED BY <1>1, <1>5, <3>1, <3>2, HasMaximal
    <3> QED
      BY <2>1, <3>3
  <2>3. ASSUME NEW d \in A, \A e \in A : ~Before(d.id, e.id)
        PROVE  d.value \in Latest(V, c)
    <3>1. PICK t \in V : d.id = t.id /\ <<c, d.value>> \in t.asserts
      BY <1>1
    <3>2. ASSUME NEW u \in V, NEW w \in ValueOf(c), <<c, w>> \in u.asserts
          PROVE  ~Precedes(t, u)
      BY <3>1, <3>2, <1>2, <2>3 DEF Precedes
    <3> QED
      BY <1>1, <3>1, <3>2 DEF Latest
  <2>4. Latest(V, c) = {m.value}
    <3> DEFINE f == [d \in A |-> d.value]
    <3>1. Latest(V, c) \in SUBSET {f[d] : d \in A}
      BY <1>2 DEF Latest
    <3>2. IsFiniteSet({f[d] : d \in A})
      <4>1. IsFiniteSet(A)
        BY <1>1
      <4> HIDE DEF f
      <4> QED BY <4>1, ImageFinite
    <3>3. IsFiniteSet(Latest(V, c))
      BY <3>1, <3>2, FS_Subset
    <3>4. m.value \in Latest(V, c)
      BY <2>2, <2>3
    <3>5. Cardinality(Latest(V, c)) = 1
      BY <3>3, <3>4, FS_CardinalityType, FS_EmptySet
    <3> QED
      BY <3>3, <3>4, <3>5, FS_Singleton
  <2>5. IsTop(m, A)
    <3> SUFFICES ASSUME NEW y \in A, ~Before(y.id, m.id)
                 PROVE  y = m
      BY DEF IsTop
    <3>1. y.id = m.id
      BY <1>1, <2>2, BeforeIsOrder
    <3>2. y.value = m.value
      BY <2>2, <2>3, <2>4, <3>1
    <3>3. y \in Datom /\ m \in Datom /\ y.op = m.op /\ y.cell = m.cell
      BY <1>1
    <3> HIDE DEF R, shown
    <3> QED
      BY <3>1, <3>2, <3>3 DEF Datom
  <2>6. m \in shown
    BY <1>1, <1>3, <2>5 DEF Fits
  <2>7. shown = {m}
    BY <1>3, <2>6 DEF Fits
  <2> QED
    BY <2>4, <2>7
<1> QED
  BY <1>4, <1>5
-----------------------------------------------------------------------------
\* Finitely many transactions were written, of finitely many facts each.
StoreIsPlain == IsFiniteSet(AllTxs) /\ \A t \in AllTxs : Plain(t)

\* Every view fits what its process has loaded.
ViewsFit ==
  /\ live = [p \in Process |-> live[p]]
  /\ \A p \in Process : \A c \in Cell :
       Replaced(loaded[p], c) => FitsTxs(live[p], loaded[p], c)

LiveIInv == IInv /\ StoreIsPlain /\ ViewsFit

\* Any part of the store is finite and plain as well.
LEMMA PartIsPlain ==
  ASSUME StoreIsPlain, NEW V \in SUBSET AllTxs
  PROVE  IsFiniteSet(V) /\ \A t \in V : Plain(t)
BY FS_Subset DEF StoreIsPlain

LEMMA SameStore ==
  ASSUME StoreIsPlain, AllTxs' = AllTxs
  PROVE  StoreIsPlain'
BY DEF StoreIsPlain, Plain, Tx, Id, Fact, ValueOf

\* A command's transaction is new and plain.
LEMMA WriteIsPlain ==
  ASSUME IInv, StoreIsPlain, NEW p \in Process, NEW agent \in Agent,
         NEW asserts \in SUBSET Fact, NEW retracts \in SUBSET Fact,
         asserts \cap retracts = {}, IsFiniteSet(asserts), IsFiniteSet(retracts),
         Write(p, agent, asserts, retracts)
  PROVE  \E t : /\ Plain(t) /\ t \notin loaded[p]
                /\ loaded' = [loaded EXCEPT ![p] = loaded[p] \cup {t}]
                /\ AllTxs' = AllTxs \cup {t}
<1>1. PICK w \in NextWalls(p, agent) :
        LET t == [id |-> [wall |-> w, agent |-> agent],
                  asserts |-> asserts, retracts |-> retracts]
        IN  /\ files' = [files EXCEPT ![at[p]] = @ \cup {t}]
            /\ loaded' = [loaded EXCEPT ![p] = @ \cup {t}]
            /\ AdvanceFrontier(p, t.id)
            /\ saw' = saw \cup (loaded[p] \X {t})
  BY DEF Write
<1> DEFINE t == [id |-> [wall |-> w, agent |-> agent],
                 asserts |-> asserts, retracts |-> retracts]
<1>2. w \in Nat /\ \A s \in loaded[p] : s.id.wall < w
  BY NextIsLater DEF IInv, TypeOK, FrontierIsMax
<1>3. Plain(t)
  BY <1>2 DEF Plain, Tx, Id
<1>4. t \notin loaded[p]
  BY <1>2
<1>5. /\ loaded' = [loaded EXCEPT ![p] = loaded[p] \cup {t}]
      /\ files' = [files EXCEPT ![at[p]] = files[at[p]] \cup {t}]
  BY <1>1
<1> HIDE DEF t
<1>6. AllTxs' = AllTxs \cup {t}
  <2>1. at[p] \in Dir /\ files \in [Dir -> SUBSET Tx]
    BY DEF Write, IInv, TypeOK
  <2>2. /\ files'[at[p]] = files[at[p]] \cup {t}
        /\ \A d \in Dir : d # at[p] => files'[d] = files[d]
    BY <1>5, <2>1
  <2>3. ASSUME NEW u \in AllTxs'
        PROVE  u \in AllTxs \cup {t}
    BY <2>2 DEF AllTxs
  <2>4. ASSUME NEW u \in AllTxs \cup {t}
        PROVE  u \in AllTxs'
    <3>1. CASE u = t
      BY <3>1, <2>1, <2>2 DEF AllTxs
    <3>2. CASE u \in AllTxs
      <4>1. PICK d \in Dir : u \in files[d]
        BY <3>2 DEF AllTxs
      <4>2. u \in files'[d]
        BY <4>1, <2>2
      <4> QED
        BY <4>2 DEF AllTxs
    <3> QED
      BY <3>1, <3>2
  <2> QED
    BY <2>3, <2>4
<1> QED
  BY <1>3, <1>4, <1>5, <1>6

LEMMA FinitelyManyActive ==
  ASSUME NEW V, IsFiniteSet(V), \A t \in V : Plain(t), NEW c \in Cell,
         NEW W, W \subseteq Active(V, c)
  PROVE  IsFiniteSet({c} \X W)
<1> DEFINE f == [d \in AssertsOf(V, c) |-> d.value]
<1> DEFINE T == {f[d] : d \in AssertsOf(V, c)}
<1>1. IsFiniteSet(AssertsOf(V, c))
  BY AssertsOfCell
<1>2. IsFiniteSet(T)
  <2> HIDE DEF f
  <2> QED BY <1>1, ImageFinite
<1>3. ASSUME NEW v \in W
      PROVE  v \in T
  <2>1. PICK t \in V : <<c, v>> \in t.asserts
    BY <1>3 DEF Active, Asserted
  <2> DEFINE d == [op |-> "assert", cell |-> c, value |-> v, id |-> t.id]
  <2>2. d \in AssertsOf(V, c)
    BY <2>1, AssertsOfCell
  <2>3. f[d] = v
    BY <2>2
  <2> QED
    BY <2>2, <2>3
<1>4. IsFiniteSet(W)
  <2> HIDE DEF T
  <2> QED BY <1>2, <1>3, FS_Subset
<1> QED
  BY <1>4, FS_Singleton, FS_Product

LEMMA CommandIsPlain ==
  ASSUME IInv, StoreIsPlain, NEW p \in Process, Command(p)
  PROVE  \E t : /\ Plain(t) /\ t \notin loaded[p]
                /\ loaded' = [loaded EXCEPT ![p] = loaded[p] \cup {t}]
                /\ AllTxs' = AllTxs \cup {t}
<1>1. PICK agent \in Agent, c \in Cell :
        \/ \E v \in ValueOf(c) : AssertValue(p, agent, c, v) \/ ResetValue(p, agent, c, v)
        \/ \E V \in SUBSET ValueOf(c) : RetractValues(p, agent, c, V)
        \/ Propose(p, agent, c)
        \/ Review(p, agent, c)
        \/ Accept(p, agent, c)
        \/ Reject(p, agent, c)
  BY DEF Command
<1>2. \A v \in ValueOf(c) : {<<c, v>>} \in SUBSET Fact
  BY FactIntro
<1>3. {} \in SUBSET Fact /\ IsFiniteSet({}) /\ \A x : IsFiniteSet({x})
  BY FS_EmptySet, FS_Singleton
<1>4. c \in Proposal => /\ Accepted \in ValueOf(c)
                        /\ Proposed \in ValueOf(c)
                        /\ Rejected \in ValueOf(c)
                        /\ Reviewed \in ValueOf(c)
  BY DEF ValueOf
<1>5. CASE \E v \in ValueOf(c) : AssertValue(p, agent, c, v)
  BY <1>5, <1>2, <1>3, WriteIsPlain DEF AssertValue
<1>6. CASE \E v \in ValueOf(c) : ResetValue(p, agent, c, v)
  BY <1>6, <1>2, <1>3, WriteIsPlain DEF ResetValue
<1>7. CASE \E V \in SUBSET ValueOf(c) : RetractValues(p, agent, c, V)
  <2>1. PICK V \in SUBSET ValueOf(c) : RetractValues(p, agent, c, V)
    BY <1>7
  <2>2. Write(p, agent, {}, {c} \X V) /\ V \subseteq Active(loaded[p], c)
    BY <2>1 DEF RetractValues
  <2>3. {c} \X V \in SUBSET Fact
    BY FactIntro
  <2>4. loaded[p] \in SUBSET AllTxs
    BY DEF IInv, HeldIsWritten
  <2>5. IsFiniteSet({c} \X V)
    BY <2>2, <2>4, PartIsPlain, FinitelyManyActive
  <2> QED
    BY <2>2, <2>3, <2>5, <1>3, WriteIsPlain
<1>8. CASE Propose(p, agent, c)
  BY <1>8, <1>2, <1>3, <1>4, WriteIsPlain DEF Propose
<1>9. CASE Accept(p, agent, c)
  <2>1. {<<c, Accepted>>} \cap {<<c, Proposed>>} = {}
    BY DEF Accepted, Proposed
  <2> QED
    BY <2>1, <1>9, <1>2, <1>3, <1>4, WriteIsPlain DEF Accept
<1>10. CASE Reject(p, agent, c)
  <2>1. {<<c, Rejected>>} \cap {<<c, Proposed>>} = {}
    BY DEF Rejected, Proposed
  <2> QED
    BY <2>1, <1>10, <1>2, <1>3, <1>4, WriteIsPlain DEF Reject
<1>11. CASE Review(p, agent, c)
  BY <1>11, <1>2, <1>3, <1>4, WriteIsPlain DEF Review
<1> QED
  BY <1>1, <1>5, <1>6, <1>7, <1>8, <1>9, <1>10, <1>11

-----------------------------------------------------------------------------
\* A process has the transactions V and a view that fits them.
LEMMA ViewStep ==
  ASSUME IInv, ViewsFit, NEW p \in Process, NEW V, NEW view,
         loaded' = [loaded EXCEPT ![p] = V],
         live' = [live EXCEPT ![p] = view],
         \A c \in Cell : Replaced(V, c) => FitsTxs(view, V, c)
  PROVE  ViewsFit'
<1>1. loaded \in [Process -> SUBSET Tx] /\ live = [q \in Process |-> live[q]]
  BY DEF IInv, TypeOK, ViewsFit
<1>2. /\ loaded'[p] = V /\ live'[p] = view
      /\ \A q \in Process : q # p => loaded'[q] = loaded[q] /\ live'[q] = live[q]
      /\ live' = [q \in Process |-> live'[q]]
  BY <1>1
<1>3. ASSUME NEW q \in Process, NEW c \in Cell, Replaced(loaded'[q], c)
      PROVE  FitsTxs(live'[q], loaded'[q], c)
  BY <1>2, <1>3 DEF ViewsFit
<1> QED
  BY <1>2, <1>3 DEF ViewsFit

LEMMA LiveOpenStep ==
  ASSUME LiveIInv, NEW p \in Process, NEW d \in Dir, LiveOpen(p, d)
  PROVE  StoreIsPlain' /\ ViewsFit'
<1> DEFINE V == loaded'[p]
<1>1. loaded \in [Process -> SUBSET Tx]
  BY DEF LiveIInv, IInv, TypeOK
<1>2. files' = files /\ V \subseteq files[d] /\ loaded' = [loaded EXCEPT ![p] = V]
  BY <1>1 DEF LiveOpen, OpenCached, OpenRebuild, LiveIInv, IInv, HeldIsWritten
<1>3. AllTxs' = AllTxs /\ V \in SUBSET AllTxs
  BY <1>2 DEF AllTxs
<1>4. live' = [live EXCEPT ![p] = Rebuilt(V)]
  BY DEF LiveOpen
<1>5. IsFiniteSet(V) /\ \A t \in V : Plain(t)
  BY <1>3, PartIsPlain DEF LiveIInv
<1> HIDE DEF V
<1>6. \A c \in Cell : Replaced(V, c) => FitsTxs(Rebuilt(V), V, c)
  BY <1>5, RebuiltFits
<1>7. ViewsFit'
  BY <1>2, <1>4, <1>6, ViewStep DEF LiveIInv
<1> QED
  BY <1>3, <1>7, SameStore DEF LiveIInv

\* A process gets one more transaction, a new one or one from a file.
LEMMA AppliedStep ==
  ASSUME LiveIInv, NEW p \in Process, NEW t, Plain(t),
         loaded' = [loaded EXCEPT ![p] = loaded[p] \cup {t}],
         live' = [live EXCEPT ![p] = Applied(live[p], t)]
  PROVE  ViewsFit'
<1> DEFINE V == loaded[p] \cup {t}
<1>1. loaded[p] \in SUBSET AllTxs
  BY DEF LiveIInv, IInv, HeldIsWritten
<1>2. \A s \in loaded[p] \cup {t} : Plain(s)
  BY <1>1, PartIsPlain DEF LiveIInv
<1>3. ASSUME NEW c \in Cell, Replaced(V, c)
      PROVE  FitsTxs(Applied(live[p], t), V, c)
  <2>1. Replaced(loaded[p], c)
    BY <1>3 DEF Replaced
  <2>2. FitsTxs(live[p], loaded[p], c)
    BY <2>1 DEF LiveIInv, ViewsFit
  <2> QED
    BY <1>2, <1>3, <2>2, AppliedFits
<1> QED
  BY <1>3, ViewStep DEF LiveIInv

LEMMA LiveApplyStep ==
  ASSUME LiveIInv, NEW p \in Process, NEW t \in pending[p], LiveApply(p, t)
  PROVE  StoreIsPlain' /\ ViewsFit'
<1>1. /\ files' = files
      /\ loaded' = [loaded EXCEPT ![p] = loaded[p] \cup {t}]
      /\ live' = [live EXCEPT ![p] = Applied(live[p], t)]
  BY DEF LiveApply, Apply
<1>2. Plain(t)
  BY DEF LiveIInv, IInv, HeldIsWritten, StoreIsPlain
<1>3. AllTxs' = AllTxs
  BY <1>1 DEF AllTxs
<1>4. ViewsFit'
  BY <1>1, <1>2, AppliedStep
<1> QED
  BY <1>3, <1>4, SameStore DEF LiveIInv

LEMMA LiveCommandStep ==
  ASSUME LiveIInv, NEW p \in Process, LiveCommand(p)
  PROVE  StoreIsPlain' /\ ViewsFit'
<1>1. PICK t : /\ Plain(t) /\ t \notin loaded[p]
               /\ loaded' = [loaded EXCEPT ![p] = loaded[p] \cup {t}]
               /\ AllTxs' = AllTxs \cup {t}
  BY CommandIsPlain DEF LiveCommand, LiveIInv
<1>2. loaded'[p] \ loaded[p] = {t}
  <2>1. loaded'[p] = loaded[p] \cup {t}
    BY <1>1 DEF LiveIInv, IInv, TypeOK
  <2> QED
    BY <2>1, <1>1
<1>3. live' = [live EXCEPT ![p] = Applied(live[p], t)]
  BY <1>2 DEF LiveCommand
<1>4. ViewsFit'
  BY <1>1, <1>3, AppliedStep
<1>5. StoreIsPlain'
  <2>1. IsFiniteSet(AllTxs \cup {t}) /\ \A u \in AllTxs \cup {t} : Plain(u)
    BY <1>1, FS_AddElement DEF LiveIInv, StoreIsPlain
  <2> QED
    BY <2>1, <1>1 DEF StoreIsPlain
<1> QED
  BY <1>4, <1>5

LEMMA LiveExitStep ==
  ASSUME LiveIInv, NEW p \in Process, LiveExit(p)
  PROVE  StoreIsPlain' /\ ViewsFit'
<1>1. /\ files' = files /\ loaded' = [loaded EXCEPT ![p] = {}]
      /\ live' = [live EXCEPT ![p] = {}]
  BY DEF LiveExit, Exit
<1>2. \A c \in Cell : FitsTxs({}, {}, c)
  BY DEF FitsTxs, Fits, AssertsOf
<1>3. ViewsFit'
  BY <1>1, <1>2, ViewStep DEF LiveIInv
<1>4. AllTxs' = AllTxs
  BY <1>1 DEF AllTxs
<1> QED
  BY <1>3, <1>4, SameStore DEF LiveIInv

\* Steps that change neither what is loaded nor the transactions there are.
LEMMA LiveOtherStep ==
  ASSUME LiveIInv, UNCHANGED <<loaded, live>>, AllTxs' = AllTxs
  PROVE  StoreIsPlain' /\ ViewsFit'
<1>1. ViewsFit'
  BY DEF LiveIInv, ViewsFit
<1> QED
  BY <1>1, SameStore DEF LiveIInv

-----------------------------------------------------------------------------
LEMMA InitLiveIInv == LiveInit => LiveIInv
<1> SUFFICES ASSUME LiveInit PROVE LiveIInv
  OBVIOUS
<1>1. IInv
  BY InitIInv DEF LiveInit
<1>2. AllTxs = {}
  BY DEF LiveInit, Init, AllTxs
<1>3. StoreIsPlain
  BY <1>2, FS_EmptySet DEF StoreIsPlain
<1>4. \A c \in Cell : FitsTxs({}, {}, c)
  BY DEF FitsTxs, Fits, AssertsOf
<1>5. ViewsFit
  BY <1>4 DEF LiveInit, Init, ViewsFit
<1> QED
  BY <1>1, <1>3, <1>5 DEF LiveIInv

\* Every step of the view is one of the store, or none.
LEMMA LiveNextIsNext == [LiveNext]_liveVars => [Next]_vars
<1>1. ASSUME NEW p \in Process, NEW d \in Dir, LiveOpen(p, d)
      PROVE  Next
  BY <1>1 DEF LiveOpen, Next
<1>2. ASSUME NEW p \in Process, NEW t \in pending[p], LiveApply(p, t)
      PROVE  Next
  BY <1>2 DEF LiveApply, Next
<1>3. ASSUME NEW p \in Process, LiveCommand(p)
      PROVE  Next
  BY <1>3 DEF LiveCommand, Next
<1>4. ASSUME NEW p \in Process, LiveExit(p)
      PROVE  Next
  BY <1>4 DEF LiveExit, Next
<1>5. ASSUME NEW p \in Process, Refresh(p) \/ SaveCache(p)
      PROVE  Next
  BY <1>5 DEF Next
<1>6. ASSUME NEW d \in Dir, NEW e \in Dir, CopyFile(d, e)
      PROVE  Next
  BY <1>6 DEF Next
<1> QED
  BY <1>1, <1>2, <1>3, <1>4, <1>5, <1>6 DEF LiveNext, liveVars

LEMMA StepLiveIInv == LiveIInv /\ [LiveNext]_liveVars => LiveIInv'
<1> SUFFICES ASSUME LiveIInv, [LiveNext]_liveVars
             PROVE  StoreIsPlain' /\ ViewsFit'
  BY LiveNextIsNext, StepIInv DEF LiveIInv
<1>1. ASSUME NEW p \in Process, NEW d \in Dir, LiveOpen(p, d)
      PROVE  StoreIsPlain' /\ ViewsFit'
  BY <1>1, LiveOpenStep
<1>2. ASSUME NEW p \in Process, NEW t \in pending[p], LiveApply(p, t)
      PROVE  StoreIsPlain' /\ ViewsFit'
  BY <1>2, LiveApplyStep
<1>3. ASSUME NEW p \in Process, LiveCommand(p)
      PROVE  StoreIsPlain' /\ ViewsFit'
  BY <1>3, LiveCommandStep
<1>4. ASSUME NEW p \in Process, LiveExit(p)
      PROVE  StoreIsPlain' /\ ViewsFit'
  BY <1>4, LiveExitStep
<1>5. ASSUME NEW p \in Process, Refresh(p) \/ SaveCache(p), UNCHANGED live
      PROVE  StoreIsPlain' /\ ViewsFit'
  <2>1. UNCHANGED <<files, loaded>>
    BY <1>5 DEF Refresh, SaveCache
  <2>2. AllTxs' = AllTxs
    BY <2>1 DEF AllTxs
  <2> QED
    BY <1>5, <2>1, <2>2, LiveOtherStep
<1>6. ASSUME NEW d \in Dir, NEW e \in Dir, CopyFile(d, e), UNCHANGED live
      PROVE  StoreIsPlain' /\ ViewsFit'
  <2>1. UNCHANGED loaded
    BY <1>6 DEF CopyFile
  <2>2. AllTxs' = AllTxs
    BY <1>6, CopyFileStep DEF LiveIInv, Log!vars, AllTxs
  <2> QED
    BY <1>6, <2>1, <2>2, LiveOtherStep
<1>7. CASE UNCHANGED liveVars
  <2>1. UNCHANGED <<files, loaded, live>>
    BY <1>7 DEF liveVars, vars
  <2>2. AllTxs' = AllTxs
    BY <2>1 DEF AllTxs
  <2> QED
    BY <2>1, <2>2, LiveOtherStep
<1> QED
  BY <1>1, <1>2, <1>3, <1>4, <1>5, <1>6, <1>7 DEF LiveNext

LEMMA LiveIInvAlways == LiveSpec => []LiveIInv
BY InitLiveIInv, StepLiveIInv, PTL DEF LiveSpec

LEMMA ViewsShowLatest == LiveIInv => LiveIsLatest
<1> SUFFICES ASSUME LiveIInv,
                    NEW p \in Process, NEW c \in Cell, OnlyReplaced(loaded[p], c)
             PROVE  Shown(p, c) = Latest(loaded[p], c)
  BY DEF LiveIsLatest
<1>1. loaded[p] \in SUBSET AllTxs
  BY DEF LiveIInv, IInv, HeldIsWritten
<1>2. IsFiniteSet(loaded[p]) /\ \A t \in loaded[p] : Plain(t)
  BY <1>1, PartIsPlain DEF LiveIInv
<1>3. Replaced(loaded[p], c) /\ Cardinality(Latest(loaded[p], c)) <= 1
  BY DEF OnlyReplaced, Replaced
<1>4. FitsTxs(live[p], loaded[p], c)
  BY <1>3 DEF LiveIInv, ViewsFit
<1> QED
  BY <1>2, <1>3, <1>4, FitsShowsLatest DEF Shown

-----------------------------------------------------------------------------
(***************************************************************************)
(* INV-STORE-012 as far as it holds: index_datom, called for the datoms of *)
(* any number of transactions, of a store in the order of its datoms or of *)
(* one file after the other in any order, leaves the latest value of each  *)
(* cell that is only retracted to be replaced.                             *)
(***************************************************************************)
THEOREM LiveViewCorrect == LiveSpec => []LiveIsLatest
BY LiveIInvAlways, ViewsShowLatest, PTL
==============================================================================
