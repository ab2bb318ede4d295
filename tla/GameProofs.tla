------------------------------- MODULE GameProofs -------------------------------
(*****************************************************************************)
(* What the compiler of a game makes of every ledger, whatever the players, *)
(* the rows of its plays and their number.                                  *)
(*                                                                          *)
(* The order a play is placed in decides nothing: it keeps the rows of one  *)
(* runner in their order, and where a runner is before a row, which base he *)
(* leaves and where he ends depend on his own rows alone.  So the other     *)
(* proofs are about the rows in the order of the ledger.                    *)
(*                                                                          *)
(* Runners are kept: a runner has one last row.  Those whose last row ends  *)
(* on a base are as many as the bases taken.                                *)
(*                                                                          *)
(* What is owed: the survivors of a choice and the pitchers they have after *)
(* it are two sequences; a runner who is out leaves his pitcher at his      *)
(* place, and what is one too many drops out behind, with the batter.  So   *)
(* an earlier pitcher is there as often as he had a runner on a base.       *)
(*****************************************************************************)
EXTENDS GameCompiler, CollectionProofs

(* Sums *)

SumOf(f, S) == MapThenSumSet(LAMBDA x : f[x], S)

\* How a sum is made, for the sets of a domain.
Adds(f, D, sum) ==
    sum = [s \in D |-> IF s = {} THEN 0
                       ELSE f[CHOOSE x \in s : TRUE] + sum[s \ {CHOOSE x \in s : TRUE}]]

\* The subsets of a finite set, up to a size.
UpTo(S, n) == {s \in SUBSET S : Cardinality(s) <= n}

\* One element fewer.
LEMMA OneFewer ==
    ASSUME NEW s, IsFiniteSet(s), s # {}
    PROVE  LET x == CHOOSE x \in s : TRUE
           IN  /\ x \in s /\ IsFiniteSet(s \ {x})
               /\ Cardinality(s \ {x}) = Cardinality(s) - 1
               /\ Cardinality(s) \in Nat /\ Cardinality(s) >= 1
<1> DEFINE x == CHOOSE x \in s : TRUE
<1>1. x \in s
    OBVIOUS
<1> HIDE DEF x
<1>2. IsFiniteSet(s \ {x}) /\ Cardinality(s \ {x}) = Cardinality(s) - 1
    BY <1>1, FS_RemoveElement
<1>3. Cardinality(s \ {x}) \in Nat /\ Cardinality(s) \in Nat
    BY <1>2, FS_CardinalityType
<1> QED
    BY <1>1, <1>2, <1>3 DEF x

\* The recursion of a sum has a solution.
LEMMA SumExists ==
    ASSUME NEW f, NEW S, IsFiniteSet(S)
    PROVE  \E sum : Adds(f, SUBSET S, sum)
<1> DEFINE P(n) == \E sum : Adds(f, UpTo(S, n), sum)
           T == {n \in Nat : ~ P(n)}
<1>1. ASSUME T # {} PROVE FALSE
  <2>1. PICK n \in T : \A m \in T : n <= m
    <3>1. T \in SUBSET Nat
        OBVIOUS
    <3> HIDE DEF T
    <3> QED
        BY <1>1, <3>1, FirstExists
  <2>2. n \in Nat /\ ~ P(n)
    OBVIOUS
  <2>3. CASE n = 0
    <3>1. \A s \in UpTo(S, 0) : s = {}
      <4>1. ASSUME NEW s \in UpTo(S, 0) PROVE s = {}
        <5>1. IsFiniteSet(s) /\ Cardinality(s) <= 0
            BY FS_Subset DEF UpTo
        <5>2. Cardinality(s) \in Nat
            BY <5>1, FS_CardinalityType
        <5>3. Cardinality(s) = 0
            BY <5>1, <5>2
        <5> QED
            BY <5>1, <5>3, FS_EmptySet
      <4> QED
        BY <4>1
    <3>2. Adds(f, UpTo(S, 0), [s \in UpTo(S, 0) |-> 0])
        BY <3>1 DEF Adds
    <3> QED
        BY <3>2, <2>2, <2>3
  <2>4. CASE n # 0
    <3>1. n - 1 \in Nat /\ n - 1 \notin T
        BY <2>2, <2>4, <2>1
    <3>2. PICK g : Adds(f, UpTo(S, n - 1), g)
        BY <3>1
    <3> DEFINE c(s) == CHOOSE x \in s : TRUE
               h == [s \in UpTo(S, n) |-> IF s = {} THEN 0 ELSE f[c(s)] + g[s \ {c(s)}]]
    <3>3. ASSUME NEW s \in UpTo(S, n), s # {} PROVE s \ {c(s)} \in UpTo(S, n) /\ s \ {c(s)} \in UpTo(S, n - 1)
      <4>1. IsFiniteSet(s) /\ Cardinality(s) <= n
          BY FS_Subset DEF UpTo
      <4>2. /\ Cardinality(s \ {c(s)}) = Cardinality(s) - 1 /\ Cardinality(s) \in Nat
          BY <4>1, <3>3, OneFewer
      <4> QED
          BY <4>1, <4>2, <2>2 DEF UpTo
    <3>4. ASSUME NEW s \in UpTo(S, n - 1), s \in UpTo(S, n) PROVE h[s] = g[s]
        BY <3>2, <3>4 DEF Adds
    <3>5. ASSUME NEW s \in UpTo(S, n) PROVE h[s] = IF s = {} THEN 0 ELSE f[c(s)] + h[s \ {c(s)}]
        BY <3>3, <3>4
    <3>6. Adds(f, UpTo(S, n), h)
      <4>1. h = [s \in UpTo(S, n) |-> h[s]]
          OBVIOUS
      <4> HIDE DEF h
      <4> QED
          BY <4>1, <3>5 DEF Adds
    <3> QED
        BY <3>6, <2>2
  <2> QED
    BY <2>3, <2>4
<1>2. Cardinality(S) \in Nat
    BY FS_CardinalityType
<1>3. P(Cardinality(S))
    BY <1>1, <1>2
<1>4. UpTo(S, Cardinality(S)) = SUBSET S
    BY FS_Subset DEF UpTo
<1> QED
    BY <1>3, <1>4

\* A sum is made as it says.
LEMMA SumIs ==
    ASSUME NEW f, NEW S, IsFiniteSet(S)
    PROVE  \E sum : Adds(f, SUBSET S, sum) /\ SumOf(f, S) = sum[S]
<1> DEFINE sum == CHOOSE sum : Adds(f, SUBSET S, sum)
<1>1. Adds(f, SUBSET S, sum)
    BY SumExists
<1>2. SumOf(f, S) = sum[S]
    BY DEF SumOf, MapThenSumSet, MapThenFoldSet, Adds
<1> QED
    BY <1>1, <1>2

\* What of A is x's, and what is of one in S, when r says whose it is.
OfOne(A, r, x) == {i \in A : r[i] = x}
OfAny(A, r, S) == {i \in A : r[i] \in S}

\* A sum of natural numbers grows by as many as are counted for its members.
LEMMA SumGrows ==
    ASSUME NEW S, IsFiniteSet(S), NEW f, NEW g, NEW A, IsFiniteSet(A), NEW r,
           \A x \in S : f[x] \in Nat /\ g[x] = f[x] + Cardinality(OfOne(A, r, x))
    PROVE  /\ SumOf(f, S) \in Nat
           /\ SumOf(g, S) = SumOf(f, S) + Cardinality(OfAny(A, r, S))
<1> DEFINE of(s) == OfAny(A, r, s)
<1>1. PICK before : Adds(f, SUBSET S, before) /\ SumOf(f, S) = before[S]
    BY SumIs
<1>2. PICK after : Adds(g, SUBSET S, after) /\ SumOf(g, S) = after[S]
    BY SumIs
<1> DEFINE Q(s) == before[s] \in Nat /\ after[s] = before[s] + Cardinality(of(s))
           T == {n \in Nat : \E s \in SUBSET S : Cardinality(s) = n /\ ~ Q(s)}
<1>3. ASSUME T # {} PROVE FALSE
  <2>1. PICK n \in T : \A m \in T : n <= m
    <3>1. T \in SUBSET Nat
        OBVIOUS
    <3> HIDE DEF T
    <3> QED
        BY <1>3, <3>1, FirstExists
  <2>2. PICK s \in SUBSET S : Cardinality(s) = n /\ ~ Q(s)
    OBVIOUS
  <2>3. IsFiniteSet(s)
    BY FS_Subset
  <2>4. s # {}
    <3>1. ASSUME s = {} PROVE FALSE
      <4>1. before[s] = 0 /\ after[s] = 0
          BY <1>1, <1>2, <3>1 DEF Adds
      <4>2. of(s) = {}
          BY <3>1 DEF OfAny
      <4>3. Cardinality(of(s)) = 0
          BY <4>2, FS_EmptySet
      <4> QED
          BY <4>1, <4>3, <2>2
    <3> QED
        BY <3>1
  <2> DEFINE x == CHOOSE x \in s : TRUE
             rest == s \ {x}
  <2>5. /\ x \in s /\ IsFiniteSet(rest) /\ Cardinality(rest) = Cardinality(s) - 1
        /\ Cardinality(s) \in Nat /\ Cardinality(s) >= 1
    BY <2>3, <2>4, OneFewer
  <2>6. before[s] = f[x] + before[rest] /\ after[s] = g[x] + after[rest]
    BY <1>1, <1>2, <2>4 DEF Adds
  <2> HIDE DEF x
  <2>7. Q(rest)
    <3>1. rest \in SUBSET S
        BY <2>5
    <3>2. n - 1 \notin T /\ n - 1 \in Nat
      <4>1. n \in Nat /\ n - 1 \in Nat
          BY <2>2, <2>5
      <4> HIDE DEF T
      <4> QED
          BY <4>1, <2>1
    <3>3. Cardinality(rest) = n - 1
        BY <2>2, <2>5
    <3> QED
        BY <3>1, <3>2, <3>3
  <2>8. Cardinality(of(s)) = Cardinality(OfOne(A, r, x)) + Cardinality(of(rest))
        /\ Cardinality(of(rest)) \in Nat /\ Cardinality(OfOne(A, r, x)) \in Nat
    <3> DEFINE one == OfOne(A, r, x)
    <3>1. IsFiniteSet(one) /\ IsFiniteSet(of(rest))
      <4>1. one \in SUBSET A /\ of(rest) \in SUBSET A
          BY DEF OfOne, OfAny
      <4> HIDE DEF one, of
      <4> QED
          BY <4>1, FS_Subset
    <3>2. one \cap of(rest) = {} /\ one \cup of(rest) = of(s)
        BY <2>5 DEF OfOne, OfAny
    <3> HIDE DEF one, of
    <3>3. Cardinality(one \cap of(rest)) = 0
        BY <3>2, FS_EmptySet
    <3>4. Cardinality(one) \in Nat /\ Cardinality(of(rest)) \in Nat
        BY <3>1, FS_CardinalityType
    <3>5. Cardinality(of(s)) = Cardinality(one) + Cardinality(of(rest)) - Cardinality(one \cap of(rest))
        BY <3>1, <3>2, FS_Union
    <3>6. Cardinality(of(s)) = Cardinality(one) + Cardinality(of(rest))
        BY <3>3, <3>4, <3>5
    <3> QED
        BY <3>4, <3>6 DEF one
  <2>9. f[x] \in Nat /\ g[x] = f[x] + Cardinality(OfOne(A, r, x))
    BY <2>5
  <2> HIDE DEF of, rest
  <2>10. Q(s)
    BY <2>6, <2>7, <2>8, <2>9
  <2> QED
    BY <2>10, <2>2
<1>4. Cardinality(S) \in Nat
    BY FS_CardinalityType
<1>5. Q(S)
    BY <1>3, <1>4
<1> QED
    BY <1>1, <1>2, <1>5

\* A sum of nothing.
LEMMA SumOfNone ==
    ASSUME NEW S, IsFiniteSet(S), NEW f, \A x \in S : f[x] = 0
    PROVE  SumOf(f, S) = 0
<1>1. PICK sum : Adds(f, SUBSET S, sum) /\ SumOf(f, S) = sum[S]
    BY SumIs
<1> DEFINE T == {n \in Nat : \E s \in SUBSET S : Cardinality(s) = n /\ sum[s] # 0}
<1>2. ASSUME T # {} PROVE FALSE
  <2>1. PICK n \in T : \A m \in T : n <= m
    <3>1. T \in SUBSET Nat
        OBVIOUS
    <3> HIDE DEF T
    <3> QED
        BY <1>2, <3>1, FirstExists
  <2>2. PICK s \in SUBSET S : Cardinality(s) = n /\ sum[s] # 0
    OBVIOUS
  <2>3. IsFiniteSet(s)
    BY FS_Subset
  <2>4. s # {}
    BY <1>1, <2>2 DEF Adds
  <2> DEFINE x == CHOOSE x \in s : TRUE
             rest == s \ {x}
  <2>5. /\ x \in s /\ Cardinality(rest) = Cardinality(s) - 1
        /\ Cardinality(s) \in Nat /\ Cardinality(s) >= 1
    BY <2>3, <2>4, OneFewer
  <2>6. sum[s] = f[x] + sum[rest]
    BY <1>1, <2>4 DEF Adds
  <2> HIDE DEF x
  <2>7. rest \in SUBSET S /\ n - 1 \notin T /\ n - 1 \in Nat /\ Cardinality(rest) = n - 1
    BY <2>1, <2>2, <2>5
  <2> QED
    BY <2>2, <2>5, <2>6, <2>7
<1>3. Cardinality(S) \in Nat
    BY FS_CardinalityType
<1> QED
    BY <1>1, <1>2, <1>3

-----------------------------------------------------------------------------
(* The order the rows of a play are placed in *)

\* The rows of a play, as far as their order goes.
RowSequence(ms) ==
    /\ Len(ms) \in Nat /\ DOMAIN ms = 1 .. Len(ms) /\ ms = [i \in 1 .. Len(ms) |-> ms[i]]
    /\ \A i \in DOMAIN ms : ms[i].from \in 0 .. 3

PlacedSoFar(sofar) == {sofar[h] : h \in DOMAIN sofar}
Ready(bs, ms, sofar) ==
    {i \in DOMAIN ms \ PlacedSoFar(sofar) : Predecessors(bs, ms, i) \subseteq PlacedSoFar(sofar)}
NextPlaced(bs, ms, sofar) ==
    IF Ready(bs, ms, sofar) = {} THEN sofar
    ELSE Append(sofar, CHOOSE i \in Ready(bs, ms, sofar) :
                          \A j \in Ready(bs, ms, sofar) \ {i} : GoesBefore(ms, i, j))
Places(bs, ms, N, chosen) ==
    chosen = [n \in 0 .. N |-> IF n = 0 THEN <<>> ELSE NextPlaced(bs, ms, chosen[n - 1])]

\* Positions that are there once, each after those it waits for.
Ordered(bs, ms, sofar) ==
    /\ sofar \in Seq(DOMAIN ms) /\ Distinct(sofar)
    /\ \A h \in 1 .. Len(sofar) :
          Predecessors(bs, ms, sofar[h]) \subseteq {sofar[g] : g \in 1 .. h - 1}

\* Of the rows that wait for none, one comes first.
LEMMA FirstReady ==
    ASSUME NEW ms, RowSequence(ms), NEW R \in SUBSET DOMAIN ms, R # {}
    PROVE  \E i \in R : \A j \in R \ {i} : GoesBefore(ms, i, j)
<1> DEFINE key(i) == Deferred(ms, i) * 4 + (3 - ms[i].from)
           T == {key(i) : i \in R}
<1>1. \A i \in R : /\ i \in Nat /\ ms[i].from \in 0 .. 3 /\ Deferred(ms, i) \in {0, 1}
                   /\ key(i) \in Nat
  <2>1. \A i \in R : i \in Nat /\ ms[i].from \in 0 .. 3 /\ Deferred(ms, i) \in {0, 1}
    BY DEF RowSequence, Deferred
  <2> QED
    BY <2>1
<1>2. PICK k \in T : \A m \in T : k <= m
  <2>1. T \in SUBSET Nat /\ T # {}
    BY <1>1
  <2> HIDE DEF T
  <2> QED
    BY <2>1, FirstExists
<1> DEFINE U == {i \in R : key(i) = k}
<1>3. PICK i \in U : \A m \in U : i <= m
  <2>1. U \in SUBSET Nat /\ U # {}
    BY <1>1
  <2> HIDE DEF U
  <2> QED
    BY <2>1, FirstExists
<1>4. ASSUME NEW j \in R \ {i} PROVE GoesBefore(ms, i, j)
  <2>1. key(i) <= key(j) /\ (key(i) = key(j) => i <= j)
    <3>1. key(i) = k /\ key(j) \in T
        BY <1>3
    <3>2. key(j) = k => j \in U
        OBVIOUS
    <3> HIDE DEF T, U
    <3> QED
        BY <3>1, <3>2, <1>2, <1>3
  <2>2. /\ i \in Nat /\ ms[i].from \in 0 .. 3 /\ Deferred(ms, i) \in {0, 1}
        /\ j \in Nat /\ ms[j].from \in 0 .. 3 /\ Deferred(ms, j) \in {0, 1} /\ i # j
    BY <1>1
  <2> QED
    BY <2>1, <2>2 DEF GoesBefore
<1> QED
    BY <1>3, <1>4

\* The recursion has a solution.
LEMMA PlacesExists ==
    ASSUME NEW bs, NEW ms, NEW N \in Nat
    PROVE  \E chosen : Places(bs, ms, N, chosen)
<1> DEFINE T == {n \in Nat : ~ \E chosen : Places(bs, ms, n, chosen)}
<1>1. ASSUME T # {} PROVE FALSE
  <2>1. PICK n \in T : \A m \in T : n <= m
    <3>1. T \in SUBSET Nat
        OBVIOUS
    <3> HIDE DEF T
    <3> QED
        BY <1>1, <3>1, FirstExists
  <2>2. n \in Nat /\ ~ \E chosen : Places(bs, ms, n, chosen)
    OBVIOUS
  <2>3. CASE n = 0
    <3>1. Places(bs, ms, 0, [m \in 0 .. 0 |-> <<>>])
        BY DEF Places
    <3> QED
        BY <3>1, <2>2, <2>3
  <2>4. CASE n # 0
    <3>1. n - 1 \in Nat /\ n - 1 \notin T
        BY <2>2, <2>4, <2>1
    <3>2. PICK c : Places(bs, ms, n - 1, c)
        BY <3>1
    <3> DEFINE d == [m \in 0 .. n |-> IF m = n THEN NextPlaced(bs, ms, c[n - 1]) ELSE c[m]]
    <3>3. ASSUME NEW m \in 0 .. n
          PROVE  d[m] = IF m = 0 THEN <<>> ELSE NextPlaced(bs, ms, d[m - 1])
      <4>1. CASE m = n
          BY <4>1, <2>2, <2>4
      <4>2. CASE m # n
        <5>1. m \in 0 .. n - 1 /\ (m # 0 => m - 1 \in 0 .. n - 1 /\ m - 1 # n)
            BY <4>2, <2>2
        <5>2. c[m] = IF m = 0 THEN <<>> ELSE NextPlaced(bs, ms, c[m - 1])
            BY <3>2, <5>1 DEF Places
        <5> QED
            BY <4>2, <5>1, <5>2, <2>2
      <4> QED
          BY <4>1, <4>2
    <3>4. Places(bs, ms, n, d)
      <4>1. d = [m \in 0 .. n |-> d[m]]
          OBVIOUS
      <4> HIDE DEF d
      <4> QED
          BY <4>1, <3>3 DEF Places
    <3> QED
        BY <3>4, <2>2
  <2> QED
    BY <2>3, <2>4
<1> QED
    BY <1>1

\* One position more.
LEMMA OneMorePlaced ==
    ASSUME NEW bs, NEW ms, RowSequence(ms), NEW sofar, Ordered(bs, ms, sofar)
    PROVE  /\ Ordered(bs, ms, NextPlaced(bs, ms, sofar))
           /\ Len(sofar) \in Nat
           /\ Len(NextPlaced(bs, ms, sofar)) \in {Len(sofar), Len(sofar) + 1}
<1>1. sofar \in Seq(DOMAIN ms) /\ Distinct(sofar) /\ Len(sofar) \in Nat
    BY DEF Ordered
<1>2. CASE Ready(bs, ms, sofar) = {}
    BY <1>1, <1>2 DEF NextPlaced
<1>3. CASE Ready(bs, ms, sofar) # {}
  <2> DEFINE i == CHOOSE i \in Ready(bs, ms, sofar) :
                     \A j \in Ready(bs, ms, sofar) \ {i} : GoesBefore(ms, i, j)
             next == Append(sofar, i)
  <2>1. i \in Ready(bs, ms, sofar)
    <3>1. Ready(bs, ms, sofar) \in SUBSET DOMAIN ms
        BY DEF Ready
    <3>2. \E h \in Ready(bs, ms, sofar) : \A j \in Ready(bs, ms, sofar) \ {h} : GoesBefore(ms, h, j)
        BY <1>3, <3>1, FirstReady
    <3> QED
        BY <3>2
  <2>2. NextPlaced(bs, ms, sofar) = next
    BY <1>3 DEF NextPlaced
  <2> HIDE DEF i
  <2>3. ToSet(sofar) = PlacedSoFar(sofar) /\ DOMAIN sofar = 1 .. Len(sofar)
    BY <1>1 DEF PlacedSoFar, ToSet
  <2>4. i \in DOMAIN ms /\ i \notin ToSet(sofar) /\ Predecessors(bs, ms, i) \subseteq ToSet(sofar)
    BY <2>1, <2>3 DEF Ready
  <2>5. next \in Seq(DOMAIN ms) /\ Len(next) = Len(sofar) + 1 /\ Distinct(next)
    BY <1>1, <2>4, Enqueued
  <2>6. (\A h \in 1 .. Len(sofar) : next[h] = sofar[h]) /\ next[Len(sofar) + 1] = i
    BY <1>1, <2>4, AppendProperties
  <2> HIDE DEF next
  <2>7. ASSUME NEW h \in 1 .. Len(next)
        PROVE  Predecessors(bs, ms, next[h]) \subseteq {next[g] : g \in 1 .. h - 1}
    <3>1. CASE h \in 1 .. Len(sofar)
      <4>1. \A g \in 1 .. h - 1 : g \in 1 .. Len(sofar) /\ next[g] = sofar[g]
          BY <1>1, <2>6, <3>1
      <4>2. Predecessors(bs, ms, sofar[h]) \subseteq {sofar[g] : g \in 1 .. h - 1}
          BY <3>1 DEF Ordered
      <4> QED
          BY <4>1, <4>2, <2>6, <3>1
    <3>2. CASE h = Len(sofar) + 1
      <4>1. h - 1 = Len(sofar)
          BY <1>1, <3>2
      <4>2. Predecessors(bs, ms, i) \subseteq {sofar[g] : g \in 1 .. Len(sofar)}
          BY <2>3, <2>4 DEF PlacedSoFar
      <4> QED
          BY <4>1, <4>2, <2>6, <3>2
    <3> QED
        BY <3>1, <3>2, <1>1, <2>5
  <2> QED
    BY <1>1, <2>2, <2>5, <2>7 DEF Ordered
<1> QED
    BY <1>2, <1>3

\* Every position is there once, and the rows of a runner are in their order.
Keeps(ms, o) ==
    /\ o \in [DOMAIN ms -> DOMAIN ms] /\ (\A i \in DOMAIN ms : \E k \in DOMAIN ms : o[k] = i)
    /\ \A k, l \in DOMAIN ms : k # l => o[k] # o[l]
    /\ \A k, l \in DOMAIN ms : k < l /\ ms[o[k]].runner = ms[o[l]].runner => o[k] < o[l]

\* An order that has as many positions as the play has rows.
LEMMA FullOrderKeeps ==
    ASSUME NEW bs, NEW ms, RowSequence(ms), NEW o, Ordered(bs, ms, o), Len(o) = Len(ms)
    PROVE  Keeps(ms, o)
<1>1. /\ o \in Seq(DOMAIN ms) /\ Len(ms) \in Nat /\ DOMAIN ms = 1 .. Len(ms)
      /\ o \in [DOMAIN ms -> DOMAIN ms]
    BY DEF Ordered, RowSequence
<1>2. \A k, l \in DOMAIN ms : k # l => o[k] # o[l]
    BY <1>1 DEF Ordered, Distinct
<1>3. ASSUME NEW i \in DOMAIN ms PROVE \E k \in DOMAIN ms : o[k] = i
  <2>1. IsFiniteSet(DOMAIN ms)
    BY <1>1, FirstNumbers
  <2>2. o \in Injection(DOMAIN ms, DOMAIN ms)
    BY <1>1, <1>2 DEF Injection, IsInjective
  <2>3. o \in Surjection(DOMAIN ms, DOMAIN ms)
    BY <2>1, <2>2, FS_Injection
  <2> QED
    BY <2>3 DEF Surjection
<1>4. ASSUME NEW k \in DOMAIN ms, NEW l \in DOMAIN ms, k < l, ms[o[k]].runner = ms[o[l]].runner,
             ~ (o[k] < o[l])
      PROVE  FALSE
  <2>1. o[k] \in 1 .. Len(ms) /\ o[l] \in 1 .. Len(ms) /\ o[l] < o[k]
    BY <1>1, <1>2, <1>4
  <2>2. o[l] \in Predecessors(bs, ms, o[k])
    BY <2>1, <1>4 DEF Predecessors, Earlier
  <2>3. PICK g \in 1 .. k - 1 : o[l] = o[g]
    BY <2>2, <1>1 DEF Ordered
  <2>4. k \in 1 .. Len(ms) /\ l \in 1 .. Len(ms) /\ Len(ms) \in Nat /\ k < l
    BY <1>1, <1>4
  <2>5. g \in 1 .. Len(ms) /\ g # l
    BY <2>4
  <2> QED
    BY <2>3, <2>4, <2>5, <1>1, <1>2
<1> QED
    BY <1>1, <1>2, <1>3, <1>4 DEF Keeps

\* The order rows are placed in keeps the rows of a runner in theirs.
LEMMA PlacementKeeps ==
    ASSUME NEW bs, NEW ms, RowSequence(ms)
    PROVE  Keeps(ms, PlacementOrder(bs, ms))
<1>0. Len(ms) \in Nat /\ DOMAIN ms = 1 .. Len(ms)
    BY DEF RowSequence
<1> DEFINE chosen == CHOOSE chosen : Places(bs, ms, Len(ms), chosen)
           all == chosen[Len(ms)]
<1>1. Places(bs, ms, Len(ms), chosen)
    BY <1>0, PlacesExists
<1>2. PlacementOrder(bs, ms) = IF Len(all) < Len(ms) THEN [i \in DOMAIN ms |-> i] ELSE all
    BY DEF PlacementOrder, Places, NextPlaced, Ready, PlacedSoFar
<1> HIDE DEF chosen
<1> DEFINE P(n) == Ordered(bs, ms, chosen[n]) /\ Len(chosen[n]) \in Nat /\ Len(chosen[n]) <= n
           T == {n \in 0 .. Len(ms) : ~ P(n)}
<1>3. ASSUME T # {} PROVE FALSE
  <2>1. PICK n \in T : \A m \in T : n <= m
    <3>1. T \in SUBSET Nat
        BY <1>0
    <3> HIDE DEF T
    <3> QED
        BY <1>3, <3>1, FirstExists
  <2>2. n \in 0 .. Len(ms) /\ ~ P(n)
    OBVIOUS
  <2>3. chosen[n] = IF n = 0 THEN <<>> ELSE NextPlaced(bs, ms, chosen[n - 1])
    BY <1>1, <2>2 DEF Places
  <2>4. CASE n = 0
    <3>1. chosen[n] = <<>>
        BY <2>3, <2>4
    <3>2. Ordered(bs, ms, <<>>) /\ Len(<<>>) = 0
        BY NoneQueued DEF Ordered
    <3> QED
        BY <3>1, <3>2, <2>2, <2>4
  <2>5. CASE n # 0
    <3>1. n - 1 \in 0 .. Len(ms) /\ n - 1 \notin T
      <4>1. n - 1 \in 0 .. Len(ms) /\ ~ (n <= n - 1)
          BY <2>2, <2>5, <1>0
      <4> HIDE DEF T
      <4> QED
          BY <4>1, <2>1
    <3>2. P(n - 1)
        BY <3>1
    <3>3. /\ Ordered(bs, ms, chosen[n])
          /\ Len(chosen[n - 1]) \in Nat
          /\ Len(chosen[n]) \in {Len(chosen[n - 1]), Len(chosen[n - 1]) + 1}
        BY <2>3, <2>5, <3>2, OneMorePlaced
    <3> QED
        BY <3>2, <3>3, <2>2, <1>0
  <2> QED
    BY <2>4, <2>5
<1>4. P(Len(ms))
    BY <1>0, <1>3
<1>5. CASE Len(all) < Len(ms)
    BY <1>0, <1>2, <1>5 DEF Keeps
<1>6. CASE ~ (Len(all) < Len(ms))
  <2>1. Len(all) = Len(ms)
    BY <1>0, <1>4, <1>6
  <2> QED
    BY <1>2, <1>4, <1>6, <2>1, FullOrderKeeps
<1> QED
    BY <1>5, <1>6

-----------------------------------------------------------------------------
(* The order decides nothing *)

\* Of some positions there is a last one.
LEMMA LastExists ==
    ASSUME NEW n \in Nat, NEW T \in SUBSET (1 .. n), T # {}
    PROVE  \E i \in T : \A j \in T : j <= i
<1> DEFINE U == {n - i : i \in T}
<1>1. U \in SUBSET Nat /\ U # {}
  <2>1. \A i \in T : i \in 1 .. n /\ n - i \in Nat
    OBVIOUS
  <2> QED
    BY <2>1
<1>2. PICK m \in U : \A k \in U : m <= k
  <2> HIDE DEF U
  <2> QED
    BY <1>1, FirstExists
<1>3. PICK i \in T : m = n - i
    OBVIOUS
<1>4. ASSUME NEW j \in T PROVE j <= i
  <2>1. n - j \in U /\ j \in 1 .. n /\ i \in 1 .. n
    OBVIOUS
  <2> HIDE DEF U
  <2>2. n - i <= n - j
    BY <2>1, <1>2, <1>3
  <2> QED
    BY <2>1, <2>2
<1> QED
    BY <1>3, <1>4

\* The rows in another order.
Permuted(ms, o) == [i \in DOMAIN ms |-> ms[o[i]]]

\* What comes before a row of the same runner.
LEMMA EarlierKept ==
    ASSUME NEW ms, RowSequence(ms), NEW o, Keeps(ms, o), NEW k \in DOMAIN ms
    PROVE  /\ Earlier(Permuted(ms, o), k) \subseteq DOMAIN ms
           /\ Earlier(ms, o[k]) \subseteq DOMAIN ms
           /\ \A l \in DOMAIN ms : l \in Earlier(Permuted(ms, o), k) <=> o[l] \in Earlier(ms, o[k])
<1> DEFINE pl == Permuted(ms, o)
<1>1. DOMAIN ms = 1 .. Len(ms) /\ Len(ms) \in Nat
    BY DEF RowSequence
<1>2. o[k] \in DOMAIN ms
    BY DEF Keeps
<1>3. \A l \in DOMAIN ms : pl[l] = ms[o[l]]
    BY DEF Permuted
<1> HIDE DEF pl
<1>4. \A i \in DOMAIN ms : i \in 1 .. Len(ms) /\ 1 .. i - 1 \subseteq DOMAIN ms
    BY <1>1
<1>5. Earlier(pl, k) \subseteq DOMAIN ms /\ Earlier(ms, o[k]) \subseteq DOMAIN ms
    BY <1>2, <1>4 DEF Earlier
<1>6. ASSUME NEW l \in DOMAIN ms PROVE l \in Earlier(pl, k) <=> o[l] \in Earlier(ms, o[k])
  <2>1. l \in 1 .. Len(ms) /\ k \in 1 .. Len(ms) /\ o[l] \in 1 .. Len(ms) /\ o[k] \in 1 .. Len(ms)
    BY <1>1 DEF Keeps
  <2>2. l \in Earlier(pl, k) <=> l < k /\ ms[o[l]].runner = ms[o[k]].runner
    BY <2>1, <1>3 DEF Earlier
  <2>3. o[l] \in Earlier(ms, o[k]) <=> o[l] < o[k] /\ ms[o[l]].runner = ms[o[k]].runner
    BY <2>1 DEF Earlier
  <2>4. ms[o[l]].runner = ms[o[k]].runner => (l < k => o[l] < o[k]) /\ (k < l => o[k] < o[l])
    BY DEF Keeps
  <2> QED
    BY <2>1, <2>2, <2>3, <2>4
<1> QED
    BY <1>5, <1>6 DEF pl

\* Where a runner is before a row.
LEMMA PositionKept ==
    ASSUME NEW bs, NEW ms, RowSequence(ms), NEW o, Keeps(ms, o), NEW k \in DOMAIN ms
    PROVE  Position(bs, Permuted(ms, o), k) = Position(bs, ms, o[k])
<1> DEFINE pl == Permuted(ms, o)
<1>1. DOMAIN ms = 1 .. Len(ms) /\ Len(ms) \in Nat
    BY DEF RowSequence
<1>2. \A l \in DOMAIN ms : pl[l] = ms[o[l]]
    BY DEF Permuted
<1>3. /\ Earlier(pl, k) \subseteq DOMAIN ms
      /\ Earlier(ms, o[k]) \subseteq DOMAIN ms
      /\ \A l \in DOMAIN ms : l \in Earlier(pl, k) <=> o[l] \in Earlier(ms, o[k])
    BY EarlierKept
<1> HIDE DEF pl
<1>4. \A i \in DOMAIN ms : \E l \in DOMAIN ms : o[l] = i
    BY DEF Keeps
<1>5. CASE Earlier(pl, k) = {}
  <2>1. Earlier(ms, o[k]) = {}
    BY <1>3, <1>4, <1>5
  <2> QED
    BY <1>2, <1>5, <2>1 DEF Position, pl
<1>6. CASE Earlier(pl, k) # {}
  <2>1. Earlier(ms, o[k]) # {}
    BY <1>3, <1>6
  <2> DEFINE a == CHOOSE j \in Earlier(pl, k) : \A h \in Earlier(pl, k) : h <= j
             b == CHOOSE j \in Earlier(ms, o[k]) : \A h \in Earlier(ms, o[k]) : h <= j
  <2>2. a \in Earlier(pl, k) /\ \A h \in Earlier(pl, k) : h <= a
    <3>1. \E j \in Earlier(pl, k) : \A h \in Earlier(pl, k) : h <= j
        BY <1>1, <1>3, <1>6, LastExists
    <3> QED
        BY <3>1
  <2>3. b \in Earlier(ms, o[k]) /\ \A h \in Earlier(ms, o[k]) : h <= b
    <3>1. \E j \in Earlier(ms, o[k]) : \A h \in Earlier(ms, o[k]) : h <= j
        BY <1>1, <1>3, <2>1, LastExists
    <3> QED
        BY <3>1
  <2>4. /\ Position(bs, pl, k) = IF LandsOnBase(pl[a]) THEN pl[a].to ELSE 0
        /\ Position(bs, ms, o[k]) = IF LandsOnBase(ms[b]) THEN ms[b].to ELSE 0
    BY <1>6, <2>1 DEF Position
  <2> HIDE DEF a, b
  <2>5. o[a] = b
    <3>1. PICK l \in DOMAIN ms : o[l] = b
        BY <1>3, <1>4, <2>3
    <3>2. l \in Earlier(pl, k) /\ o[a] \in Earlier(ms, o[k])
        BY <1>3, <2>2, <2>3, <3>1
    <3>3. l <= a /\ o[a] <= o[l]
        BY <2>2, <2>3, <3>1, <3>2
    <3>4. ms[o[l]].runner = ms[o[a]].runner
      <4>1. pl[l].runner = pl[k].runner /\ pl[a].runner = pl[k].runner
          BY <3>2, <2>2 DEF Earlier
      <4> QED
          BY <4>1, <1>2, <1>3, <2>2, <3>1
    <3>5. l < a => o[l] < o[a]
        BY <3>4, <1>3, <2>2, <3>1 DEF Keeps
    <3>6. l \in 1 .. Len(ms) /\ a \in 1 .. Len(ms) /\ o[l] \in 1 .. Len(ms) /\ o[a] \in 1 .. Len(ms)
        BY <1>1, <1>3, <2>2, <3>1 DEF Keeps
    <3> QED
        BY <3>1, <3>3, <3>5, <3>6
  <2>6. pl[a] = ms[b]
    BY <1>2, <1>3, <2>2, <2>5
  <2> QED
    BY <2>4, <2>6 DEF pl
<1> QED
    BY <1>5, <1>6

\* Which runners leave the base they were on.
LEMMA OriginsKept ==
    ASSUME NEW bs, NEW ms, RowSequence(ms), NEW o, Keeps(ms, o)
    PROVE  OriginsAreSound(bs, Permuted(ms, o)) <=> OriginsAreSound(bs, ms)
<1> DEFINE pl == Permuted(ms, o)
           Sound(m, k) == m[k].from # 0 =>
                            /\ Position(bs, m, k) = m[k].from
                            /\ ~ \E j \in Earlier(m, k) : m[j].from = m[k].from /\ Leaves(m[j])
<1>1. \A l \in DOMAIN ms : pl[l] = ms[o[l]] /\ o[l] \in DOMAIN ms
    BY DEF Permuted, Keeps
<1>2. DOMAIN pl = DOMAIN ms
    BY DEF Permuted
<1>3. \A i \in DOMAIN ms : \E l \in DOMAIN ms : o[l] = i
    BY DEF Keeps
<1>4. \A k \in DOMAIN ms :
        /\ Position(bs, pl, k) = Position(bs, ms, o[k])
        /\ Earlier(pl, k) \subseteq DOMAIN ms
        /\ Earlier(ms, o[k]) \subseteq DOMAIN ms
        /\ \A l \in DOMAIN ms : l \in Earlier(pl, k) <=> o[l] \in Earlier(ms, o[k])
    BY EarlierKept, PositionKept
<1> HIDE DEF pl
<1>5. ASSUME NEW k \in DOMAIN ms PROVE Sound(pl, k) <=> Sound(ms, o[k])
  <2> DEFINE Left(m, i) == \E j \in Earlier(m, i) : m[j].from = m[i].from /\ Leaves(m[j])
  <2>1. Left(pl, k) <=> Left(ms, o[k])
    <3>1. ASSUME NEW j \in Earlier(pl, k), pl[j].from = pl[k].from, Leaves(pl[j])
          PROVE  o[j] \in Earlier(ms, o[k]) /\ ms[o[j]].from = ms[o[k]].from /\ Leaves(ms[o[j]])
        BY <1>1, <1>4, <3>1
    <3>2. ASSUME NEW j \in Earlier(ms, o[k]), ms[j].from = ms[o[k]].from, Leaves(ms[j])
          PROVE  \E l \in Earlier(pl, k) : pl[l].from = pl[k].from /\ Leaves(pl[l])
      <4>1. PICK l \in DOMAIN ms : o[l] = j
          BY <1>3, <1>4
      <4>2. l \in Earlier(pl, k) /\ pl[l] = ms[j] /\ pl[k] = ms[o[k]]
          BY <1>1, <1>4, <4>1
      <4> QED
          BY <4>2, <3>2
    <3> QED
        BY <3>1, <3>2
  <2>2. pl[k] = ms[o[k]] /\ Position(bs, pl, k) = Position(bs, ms, o[k])
    BY <1>1, <1>4
  <2> QED
    BY <2>1, <2>2
<1>6. OriginsAreSound(bs, pl) <=> \A k \in DOMAIN ms : Sound(pl, k)
    BY <1>2 DEF OriginsAreSound
<1>7. OriginsAreSound(bs, ms) <=> \A i \in DOMAIN ms : Sound(ms, i)
    BY DEF OriginsAreSound
<1> HIDE DEF Sound
<1> QED
    BY <1>1, <1>3, <1>5, <1>6, <1>7 DEF pl

\* Which bases are left, and which rows are the last of their runners.
LEMMA LandingKept ==
    ASSUME NEW ms, RowSequence(ms), NEW o, Keeps(ms, o)
    PROVE  /\ Vacated(Permuted(ms, o)) = Vacated(ms)
           /\ Landing(Permuted(ms, o)) \subseteq DOMAIN ms /\ Landing(ms) \subseteq DOMAIN ms
           /\ \A k \in DOMAIN ms : k \in Landing(Permuted(ms, o)) <=> o[k] \in Landing(ms)
<1> DEFINE pl == Permuted(ms, o)
<1>1. \A l \in DOMAIN ms : pl[l] = ms[o[l]] /\ o[l] \in DOMAIN ms
    BY DEF Permuted, Keeps
<1>2. DOMAIN pl = DOMAIN ms
    BY DEF Permuted
<1>3. \A i \in DOMAIN ms : \E l \in DOMAIN ms : o[l] = i
    BY DEF Keeps
<1>4. DOMAIN ms = 1 .. Len(ms) /\ Len(ms) \in Nat
    BY DEF RowSequence
<1>5. Len(pl) = Len(ms)
    BY <1>4 DEF Permuted
<1> HIDE DEF pl
<1>6. Vacated(pl) = Vacated(ms)
  <2>1. ASSUME NEW i \in DOMAIN pl PROVE \E l \in DOMAIN ms : pl[i].from = ms[l].from
    BY <1>1, <1>2
  <2>2. ASSUME NEW l \in DOMAIN ms PROVE \E i \in DOMAIN pl : pl[i].from = ms[l].from
    <3>1. PICK i \in DOMAIN ms : o[i] = l
        BY <1>3
    <3> QED
        BY <3>1, <1>1, <1>2
  <2>3. {pl[i].from : i \in DOMAIN pl} = {ms[i].from : i \in DOMAIN ms}
    BY <2>1, <2>2
  <2> QED
    BY <2>3 DEF Vacated
<1>7. ASSUME NEW m, DOMAIN m = DOMAIN ms, Len(m) = Len(ms), NEW k \in DOMAIN ms
      PROVE  k \in Final(m) <=> \A j \in DOMAIN ms : k < j => m[j].runner # m[k].runner
  <2>1. \A j : j \in k + 1 .. Len(m) <=> j \in DOMAIN ms /\ k < j
    BY <1>4, <1>7
  <2> QED
    BY <2>1, <1>7 DEF Final
<1>8. ASSUME NEW k \in DOMAIN ms PROVE k \in Final(pl) <=> o[k] \in Final(ms)
  <2>1. \A l \in DOMAIN ms : ms[o[l]].runner = ms[o[k]].runner => (k < l => o[k] < o[l]) /\ (l < k => o[l] < o[k])
    BY DEF Keeps
  <2>2. \A l \in DOMAIN ms : l \in Nat /\ o[l] \in Nat
    BY <1>1, <1>4
  <2>3. \A l \in DOMAIN ms : ms[o[l]].runner = ms[o[k]].runner => (k < l <=> o[k] < o[l])
    BY <2>1, <2>2
  <2>4. k \in Final(pl) <=> \A j \in DOMAIN ms : k < j => pl[j].runner # pl[k].runner
    BY <1>2, <1>5, <1>7
  <2>5. o[k] \in Final(ms) <=> \A j \in DOMAIN ms : o[k] < j => ms[j].runner # ms[o[k]].runner
    BY <1>1, <1>7
  <2>6. ASSUME k \in Final(pl), NEW j \in DOMAIN ms, o[k] < j PROVE ms[j].runner # ms[o[k]].runner
    <3>1. PICK l \in DOMAIN ms : o[l] = j
        BY <1>3
    <3>2. pl[l] = ms[j] /\ pl[k] = ms[o[k]]
        BY <3>1, <1>1
    <3> QED
        BY <3>1, <3>2, <2>3, <2>4, <2>6
  <2>7. ASSUME o[k] \in Final(ms), NEW l \in DOMAIN ms, k < l PROVE pl[l].runner # pl[k].runner
    <3>1. pl[l] = ms[o[l]] /\ pl[k] = ms[o[k]] /\ o[l] \in DOMAIN ms
        BY <1>1
    <3> QED
        BY <3>1, <2>3, <2>5, <2>7
  <2> QED
    BY <2>4, <2>5, <2>6, <2>7
<1> QED
    BY <1>1, <1>2, <1>6, <1>8 DEF Landing, Final, pl

\* Whether two rows go to one base.
LEMMA DestinationsKept ==
    ASSUME NEW bs, NEW ms, RowSequence(ms), NEW o, Keeps(ms, o)
    PROVE  DestinationsAreFree(bs, Permuted(ms, o)) <=> DestinationsAreFree(bs, ms)
<1> DEFINE pl == Permuted(ms, o)
<1>1. \A l \in DOMAIN ms : pl[l] = ms[o[l]] /\ o[l] \in DOMAIN ms
    BY DEF Permuted, Keeps
<1>2. \A i \in DOMAIN ms : \E l \in DOMAIN ms : o[l] = i
    BY DEF Keeps
<1>3. /\ Vacated(pl) = Vacated(ms)
      /\ Landing(pl) \subseteq DOMAIN ms /\ Landing(ms) \subseteq DOMAIN ms
      /\ \A k \in DOMAIN ms : k \in Landing(pl) <=> o[k] \in Landing(ms)
    BY LandingKept
<1> HIDE DEF pl
<1> DEFINE Open(m, i) == bs[m[i].to] = Nobody \/ m[i].to \in Vacated(m)
           Alone(m, i) == \A j \in Landing(m) \ {i} : m[j].to # m[i].to
<1>4. ASSUME NEW k \in Landing(pl)
      PROVE  /\ o[k] \in Landing(ms)
             /\ Open(pl, k) <=> Open(ms, o[k])
             /\ Alone(pl, k) <=> Alone(ms, o[k])
  <2>1. o[k] \in Landing(ms) /\ pl[k] = ms[o[k]] /\ k \in DOMAIN ms
    BY <1>1, <1>3
  <2>2. Alone(pl, k) => Alone(ms, o[k])
    <3>1. ASSUME Alone(pl, k), NEW j \in Landing(ms) \ {o[k]} PROVE ms[j].to # ms[o[k]].to
      <4>1. PICK l \in DOMAIN ms : o[l] = j
          BY <1>2, <1>3
      <4>2. l \in Landing(pl) \ {k}
          BY <1>3, <4>1
      <4> QED
          BY <4>1, <4>2, <3>1, <1>1, <2>1
    <3> QED
        BY <3>1
  <2>3. Alone(ms, o[k]) => Alone(pl, k)
    <3>1. ASSUME Alone(ms, o[k]), NEW l \in Landing(pl) \ {k} PROVE pl[l].to # pl[k].to
      <4>1. o[l] \in Landing(ms) /\ l \in DOMAIN ms
          BY <1>3
      <4>2. o[l] # o[k]
          BY <4>1, <2>1 DEF Keeps
      <4> QED
          BY <4>1, <4>2, <3>1, <1>1, <2>1
    <3> QED
        BY <3>1
  <2> QED
    BY <2>1, <2>2, <2>3, <1>3
<1>5. \A i \in Landing(ms) : \E k \in Landing(pl) : o[k] = i
    BY <1>2, <1>3
<1>6. /\ DestinationsAreFree(bs, pl) <=> \A k \in Landing(pl) : Open(pl, k) /\ Alone(pl, k)
      /\ DestinationsAreFree(bs, ms) <=> \A i \in Landing(ms) : Open(ms, i) /\ Alone(ms, i)
    BY DEF DestinationsAreFree
<1> HIDE DEF Open, Alone
<1>7. ASSUME DestinationsAreFree(bs, pl), NEW i \in Landing(ms) PROVE Open(ms, i) /\ Alone(ms, i)
  <2>1. PICK k \in Landing(pl) : o[k] = i
    BY <1>5
  <2> QED
    BY <2>1, <1>4, <1>6, <1>7
<1>8. ASSUME DestinationsAreFree(bs, ms), NEW k \in Landing(pl) PROVE Open(pl, k) /\ Alone(pl, k)
    BY <1>4, <1>6, <1>8
<1>9. DestinationsAreFree(bs, pl) => DestinationsAreFree(bs, ms)
    BY <1>6, <1>7
<1>10. DestinationsAreFree(bs, ms) => DestinationsAreFree(bs, pl)
    BY <1>6, <1>8
<1> QED
    BY <1>9, <1>10 DEF pl

\* Who is on which base after the play.
LEMMA PlacedKept ==
    ASSUME NEW bs, NEW ms, RowSequence(ms), NEW o, Keeps(ms, o), DestinationsAreFree(bs, ms)
    PROVE  Placed(bs, Permuted(ms, o)) = Placed(bs, ms)
<1> DEFINE pl == Permuted(ms, o)
<1>1. \A l \in DOMAIN ms : pl[l] = ms[o[l]] /\ o[l] \in DOMAIN ms
    BY DEF Permuted, Keeps
<1>2. \A i \in DOMAIN ms : \E l \in DOMAIN ms : o[l] = i
    BY DEF Keeps
<1>3. /\ Vacated(pl) = Vacated(ms)
      /\ Landing(pl) \subseteq DOMAIN ms /\ Landing(ms) \subseteq DOMAIN ms
      /\ \A k \in DOMAIN ms : k \in Landing(pl) <=> o[k] \in Landing(ms)
    BY LandingKept
<1> HIDE DEF pl
<1> DEFINE at(m, b) ==
        IF \E i \in Landing(m) : m[i].to = b
        THEN LET r == m[CHOOSE i \in Landing(m) : m[i].to = b]
             IN [runner |-> r.runner, pitcher |-> r.pitcher]
        ELSE IF b \in Vacated(m) THEN Nobody ELSE bs[b]
<1>4. ASSUME NEW b \in Base PROVE at(pl, b) = at(ms, b)
  <2>1. CASE \E i \in Landing(ms) : ms[i].to = b
    <3> DEFINE i == CHOOSE i \in Landing(ms) : ms[i].to = b
               k == CHOOSE k \in Landing(pl) : pl[k].to = b
    <3>1. i \in Landing(ms) /\ ms[i].to = b
        BY <2>1
    <3>2. \E l \in Landing(pl) : pl[l].to = b
      <4> HIDE DEF i
      <4>1. PICK l \in DOMAIN ms : o[l] = i
          BY <1>2, <1>3, <3>1
      <4> QED
          BY <4>1, <1>1, <1>3, <3>1
    <3>3. k \in Landing(pl) /\ pl[k].to = b
        BY <3>2
    <3>4. /\ at(ms, b) = [runner |-> ms[i].runner, pitcher |-> ms[i].pitcher]
          /\ at(pl, b) = [runner |-> pl[k].runner, pitcher |-> pl[k].pitcher]
        BY <2>1, <3>2
    <3> HIDE DEF i, k
    <3>5. o[k] \in Landing(ms) /\ pl[k] = ms[o[k]]
        BY <1>1, <1>3, <3>3
    <3>6. o[k] = i
        BY <3>1, <3>3, <3>5 DEF DestinationsAreFree
    <3> QED
        BY <3>4, <3>5, <3>6
  <2>2. CASE ~ \E i \in Landing(ms) : ms[i].to = b
    <3>1. ~ \E k \in Landing(pl) : pl[k].to = b
        BY <2>2, <1>1, <1>3
    <3> QED
        BY <2>2, <3>1, <1>3
  <2> QED
    BY <2>1, <2>2
<1>5. Placed(bs, pl) = [b \in Base |-> at(pl, b)] /\ Placed(bs, ms) = [b \in Base |-> at(ms, b)]
    BY DEF Placed
<1> HIDE DEF at
<1> QED
    BY <1>4, <1>5 DEF pl

\* The rows as they are placed are the rows of the play in another order.
LEMMA PlacedInOrder ==
    ASSUME NEW bs, NEW ms, RowSequence(ms)
    PROVE  OrderPlayMovements(bs, ms) = Permuted(ms, PlacementOrder(bs, ms))
<1> DEFINE o == PlacementOrder(bs, ms)
           pl == Permuted(ms, o)
           S == {ms[i] : i \in DOMAIN ms}
<1>1. Keeps(ms, o)
    BY PlacementKeeps
<1>2. DOMAIN ms = 1 .. Len(ms) /\ Len(ms) \in Nat
    BY DEF RowSequence
<1>3. OrderPlayMovements(bs, ms) = pl \o <<>>
    BY DEF OrderPlayMovements, Evaluated, Permuted
<1> HIDE DEF o
<1>4. \A i \in 1 .. Len(ms) : ms[o[i]] \in S
    BY <1>1, <1>2 DEF Keeps
<1>5. pl = [i \in 1 .. Len(ms) |-> ms[o[i]]]
    BY <1>2 DEF Permuted
<1> HIDE DEF S
<1>6. pl \in Seq(S)
    BY <1>2, <1>4, <1>5
<1> HIDE DEF pl
<1>7. pl \o <<>> = pl
    BY <1>6, ConcatEmptySeq
<1> QED
    BY <1>3, <1>7 DEF pl, o

\* What becomes of outs, bases and runs in the order a play is placed in is what becomes
\* of them in the order of its rows (orderPlayMovements, transitionMovements).
THEOREM PlacementDecidesNothing ==
    ASSUME NEW bs, NEW ms, RowSequence(ms), NEW os, NEW direct
    PROVE  TransitionMovements(os, bs, OrderPlayMovements(bs, ms), direct, ms)
             = TransitionMovements(os, bs, ms, direct, ms)
<1> DEFINE o == PlacementOrder(bs, ms)
           pl == Permuted(ms, o)
<1>1. OrderPlayMovements(bs, ms) = pl
    BY PlacedInOrder
<1>2. Keeps(ms, o)
    BY PlacementKeeps
<1> HIDE DEF o
<1>3. OriginsAreSound(bs, pl) <=> OriginsAreSound(bs, ms)
    BY <1>2, OriginsKept
<1>4. DestinationsAreFree(bs, pl) <=> DestinationsAreFree(bs, ms)
    BY <1>2, DestinationsKept
<1>5. DestinationsAreFree(bs, ms) => Placed(bs, pl) = Placed(bs, ms)
    BY <1>2, PlacedKept
<1> HIDE DEF pl
<1>6. TransitionMovements(os, bs, pl, direct, ms) = TransitionMovements(os, bs, ms, direct, ms)
  <2>1. CASE DestinationsAreFree(bs, ms)
    BY <2>1, <1>3, <1>4, <1>5 DEF TransitionMovements
  <2>2. CASE ~ DestinationsAreFree(bs, ms)
    BY <2>2, <1>3, <1>4 DEF TransitionMovements
  <2> QED
    BY <2>1, <2>2
<1> QED
    BY <1>1, <1>6

-----------------------------------------------------------------------------
(* Counting *)

\* What is matched one to one is counted alike.
LEMMA MatchedCounted ==
    ASSUME NEW A, IsFiniteSet(A), NEW B, NEW f,
           \A x \in A : f[x] \in B, \A x, y \in A : f[x] = f[y] => x = y,
           \A y \in B : \E x \in A : f[x] = y
    PROVE  IsFiniteSet(B) /\ Cardinality(B) = Cardinality(A) /\ Cardinality(A) \in Nat
<1> DEFINE g == [x \in A |-> f[x]]
<1>1. g \in [A -> B] /\ (\A x, y \in A : g[x] = g[y] => x = y) /\ (\A y \in B : \E x \in A : g[x] = y)
    OBVIOUS
<1> HIDE DEF g
<1>2. g \in Bijection(A, B)
    BY <1>1 DEF Bijection, Injection, Surjection, IsInjective
<1>3. ExistsBijection(A, B)
    BY <1>2 DEF ExistsBijection
<1> QED
    BY <1>3, FS_Bijection, FS_CardinalityType

\* What is in one of two parts is counted once.
LEMMA SplitCounted ==
    ASSUME NEW C, IsFiniteSet(C), NEW A, NEW B, C = A \cup B, A \cap B = {}
    PROVE  /\ IsFiniteSet(A) /\ IsFiniteSet(B) /\ Cardinality(C) = Cardinality(A) + Cardinality(B)
           /\ Cardinality(A) \in Nat /\ Cardinality(B) \in Nat /\ Cardinality(C) \in Nat
<1>1. IsFiniteSet(A) /\ IsFiniteSet(B)
    BY FS_Subset
<1>2. Cardinality(A \cap B) = 0
    BY FS_EmptySet
<1>3. Cardinality(C) = Cardinality(A) + Cardinality(B) - Cardinality(A \cap B)
    BY <1>1, FS_Union
<1>4. Cardinality(A) \in Nat /\ Cardinality(B) \in Nat /\ Cardinality(C) \in Nat
    BY <1>1, FS_CardinalityType
<1> QED
    BY <1>1, <1>2, <1>3, <1>4

\* The same, of two parts told apart by what they hold.
LEMMA PartsAddUp ==
    ASSUME NEW C, IsFiniteSet(C), NEW A \in SUBSET C, NEW B \in SUBSET C,
           \A x \in C : x \in B <=> x \notin A
    PROVE  /\ IsFiniteSet(A) /\ IsFiniteSet(B) /\ Cardinality(C) = Cardinality(A) + Cardinality(B)
           /\ Cardinality(A) \in Nat /\ Cardinality(B) \in Nat /\ Cardinality(C) \in Nat
<1>1. IsFiniteSet(A) /\ IsFiniteSet(B)
    BY FS_Subset
<1>2. Cardinality(A) \in Nat /\ Cardinality(B) \in Nat /\ Cardinality(C) \in Nat
    BY <1>1, FS_CardinalityType
<1>3. A \cap B = {}
    OBVIOUS
<1>4. Cardinality(A \cap B) = 0
    BY <1>3, FS_EmptySet
<1>5. Cardinality(A \cup B) = Cardinality(A) + Cardinality(B) - Cardinality(A \cap B)
    BY <1>1, FS_Union
<1>6. C = A \cup B
    OBVIOUS
<1>7. Cardinality(C) = Cardinality(A) + Cardinality(B)
    BY <1>2, <1>4, <1>5, <1>6
<1> QED
    BY <1>1, <1>2, <1>7

\* The bases, and the rows of a play, are finitely many.
LEMMA FinitelyMany ==
    /\ \A bs : IsFiniteSet(On(bs)) /\ Cardinality(On(bs)) \in Nat
    /\ \A ms : RowSequence(ms) => IsFiniteSet(DOMAIN ms)
<1>1. IsFiniteSet(Base)
  <2>1. 3 \in Nat
    OBVIOUS
  <2> QED
    BY <2>1, FirstNumbers DEF Base
<1>2. ASSUME NEW bs PROVE IsFiniteSet(On(bs)) /\ Cardinality(On(bs)) \in Nat
  <2>1. On(bs) \in SUBSET Base
    BY DEF On
  <2>2. IsFiniteSet(On(bs))
    BY <1>1, <2>1, FS_Subset
  <2> QED
    BY <2>2, FS_CardinalityType
<1>3. ASSUME NEW ms, RowSequence(ms) PROVE IsFiniteSet(DOMAIN ms)
    BY <1>3, FirstNumbers DEF RowSequence
<1> QED
    BY <1>2, <1>3

-----------------------------------------------------------------------------
(* The invariant *)

HitterNow == Hitters[Batting]
PitcherNow == Pitchers[Fielding]
Held == {Nobody} \cup Runner(HitterNow, PitcherNow)
Plate == [batter : HitterNow, pitcher : PitcherNow, walkTo : PitcherNow \cup {Nobody},
          strikeoutTo : HitterNow \cup {Nobody}, second : HitterNow \cup {Nobody}]

GameTypes ==
    /\ half \in Nat /\ balls \in Nat /\ strikes \in Nat /\ outs \in 0 .. 3 /\ tally \in Int
    /\ bases \in [Base -> Held]
    /\ plate \in {Nobody} \cup Plate
    /\ mound = [s \in Side |-> mound[s]] /\ \A s \in Side : mound[s] \in Pitchers[s] \cup {Nobody}
    /\ score \in [Side -> Nat] /\ runsOf \in [Players(Hitters) -> Nat]
    /\ chargedTo \in [Players(Pitchers) -> Nat]

\* Who had two strikes is whom a strikeout is charged to.
SecondStrike ==
    plate # Nobody =>
        IF strikes < 2 THEN plate.second = Nobody /\ plate.strikeoutTo \in {Nobody, plate.batter}
        ELSE /\ plate.second \in HitterNow
             /\ plate.second = IF plate.strikeoutTo = Nobody THEN plate.batter ELSE plate.strikeoutTo

GameInv ==
    /\ GameTypes /\ SecondStrike
    /\ RunnersAreKept /\ RunsAreCharged /\ StrikeoutsAreOwed /\ OrderDecidesNothing

\* Sides and their players.
LEMMA Lineups ==
    /\ Batting \in Side /\ Fielding \in Side /\ Batting # Fielding /\ Side = {Batting, Fielding}
    /\ \A s \in Side : IsFiniteSet(Hitters[s]) /\ IsFiniteSet(Pitchers[s])
                       /\ Hitters[s] \subseteq Players(Hitters) /\ Hitters[s] \subseteq Nat
                       /\ Pitchers[s] \subseteq Players(Pitchers) /\ Pitchers[s] \subseteq Nat
    /\ \A s, t \in Side : s # t => Hitters[s] \cap Hitters[t] = {} /\ Pitchers[s] \cap Pitchers[t] = {}
    /\ Nobody \notin HitterNow /\ Nobody \notin PitcherNow
    /\ Nobody \notin Runner(HitterNow, PitcherNow)
<1>1. Batting \in Side /\ Fielding \in Side /\ Batting # Fielding /\ Side = {Batting, Fielding}
    BY DEF Batting, Fielding, Side
<1>2. \A s \in Side : IsFiniteSet(Hitters[s]) /\ IsFiniteSet(Pitchers[s])
                      /\ Hitters[s] \subseteq Players(Hitters) /\ Hitters[s] \subseteq Nat
                      /\ Pitchers[s] \subseteq Players(Pitchers) /\ Pitchers[s] \subseteq Nat
    BY LineupsAssumption DEF Players
<1>3. \A s, t \in Side : s # t => Hitters[s] \cap Hitters[t] = {} /\ Pitchers[s] \cap Pitchers[t] = {}
    BY LineupsAssumption DEF Side
<1>4. Nobody \notin HitterNow /\ Nobody \notin PitcherNow
    BY <1>1, <1>2, NobodyAssumption DEF HitterNow, PitcherNow
<1>5. Runner(HitterNow, PitcherNow) \subseteq Runner(Players(Hitters), Players(Pitchers))
  <2>1. HitterNow \subseteq Players(Hitters) /\ PitcherNow \subseteq Players(Pitchers)
    BY <1>1, <1>2 DEF HitterNow, PitcherNow
  <2> QED
    BY <2>1 DEF Runner
<1>6. Nobody \notin Runner(HitterNow, PitcherNow)
    BY <1>5, NobodyAssumption
<1> QED
    BY <1>1, <1>2, <1>3, <1>4, <1>6

-----------------------------------------------------------------------------
(* The rows of a play *)

\* `batter` is Nobody in a play of runners alone.  A runner whose row is not his last is
\* safe on a base, and all but the batter's first row leave a base.
Play(ms, batter) ==
    /\ RowSequence(ms)
    /\ \A i \in DOMAIN ms :
          /\ ms[i].runner \in HitterNow
          /\ ms[i].outcome \in {"safe", "out", "scored"}
          /\ ms[i].outcome = "safe" => ms[i].to \in Base
          /\ ms[i].from = 0 <=> (batter # Nobody /\ i = 1)
    /\ \A i, j \in DOMAIN ms : i < j /\ ms[i].runner = ms[j].runner => ms[i].outcome = "safe"
    /\ batter # Nobody =>
          /\ 1 \in DOMAIN ms /\ ms[1].runner = batter
          /\ \A b \in On(bases) : bases[b].runner # batter

\* Nobody is on two bases.
Apart(bs) ==
    /\ bs \in [Base -> Held]
    /\ \A b, c \in On(bs) : b # c => bs[b].runner # bs[c].runner

Movers(ms) == {ms[i].runner : i \in DOMAIN ms}
MoversOn(ms) == {b \in On(bases) : bases[b].runner \in Movers(ms)}

\* The base of a runner who is on one.
LEMMA BaseIs ==
    ASSUME Apart(bases), NEW b \in On(bases)
    PROVE  BaseOf(bases, bases[b].runner) = b
<1>1. {c \in On(bases) : bases[c].runner = bases[b].runner} = {b}
    BY DEF Apart
<1> DEFINE held == {c \in On(bases) : bases[c].runner = bases[b].runner}
<1>2. b \in Nat
    BY DEF On, Base
<1>3. held = {b} /\ BaseOf(bases, bases[b].runner)
        = IF held = {} THEN 0 ELSE CHOOSE c \in held : \A d \in held : d <= c
    BY <1>1 DEF BaseOf
<1> HIDE DEF held
<1> QED
    BY <1>2, <1>3

\* The first row of a runner.
LEMMA FirstRow ==
    ASSUME NEW ms, RowSequence(ms), NEW runner \in Movers(ms)
    PROVE  \E i \in DOMAIN ms : ms[i].runner = runner /\ Earlier(ms, i) = {}
<1> DEFINE T == {i \in DOMAIN ms : ms[i].runner = runner}
<1>1. DOMAIN ms = 1 .. Len(ms) /\ Len(ms) \in Nat
    BY DEF RowSequence
<1>2. PICK i \in T : \A j \in T : i <= j
  <2>1. T \in SUBSET Nat /\ T # {}
    BY <1>1 DEF Movers
  <2> HIDE DEF T
  <2> QED
    BY <2>1, FirstExists
<1>3. ASSUME NEW j \in Earlier(ms, i) PROVE FALSE
  <2>1. i \in 1 .. Len(ms) /\ j \in 1 .. i - 1 /\ ms[j].runner = runner
    BY <1>1 DEF Earlier
  <2>2. j \in 1 .. Len(ms) /\ j < i
    BY <2>1, <1>1
  <2>3. j \in T
    BY <2>1, <2>2, <1>1
  <2>4. i <= j
    BY <1>2, <2>3
  <2> QED
    BY <2>1, <2>2, <2>4
<1> QED
    BY <1>3

\* A runner who has a row and did not bat leaves the base he is on.
LEMMA LeavesHisBase ==
    ASSUME Apart(bases), NEW ms, NEW batter, Play(ms, batter), OriginsAreSound(bases, ms),
           NEW runner \in Movers(ms), runner # batter
    PROVE  \E b \in On(bases) : /\ bases[b].runner = runner /\ b \in Vacated(ms)
                                /\ \A i \in DOMAIN ms : ms[i].runner = runner /\ Earlier(ms, i) = {}
                                                          => ms[i].from = b
<1> DEFINE held == {c \in On(bases) : bases[c].runner = runner}
<1>1. ASSUME NEW i \in DOMAIN ms, ms[i].runner = runner, Earlier(ms, i) = {}
      PROVE  ms[i].from # 0 /\ ms[i].from = BaseOf(bases, runner)
  <2>1. ms[i].from # 0
    BY <1>1 DEF Play
  <2> QED
    BY <2>1, <1>1 DEF OriginsAreSound, Position
<1>2. PICK i \in DOMAIN ms : ms[i].runner = runner /\ Earlier(ms, i) = {}
    BY FirstRow DEF Play
<1>3. held # {}
    BY <1>1, <1>2 DEF BaseOf
<1>4. PICK b \in On(bases) : bases[b].runner = runner
    BY <1>3
<1>5. BaseOf(bases, runner) = b
    BY <1>4, BaseIs
<1>6. b \in Vacated(ms)
    BY <1>1, <1>2, <1>5 DEF Vacated
<1> QED
    BY <1>1, <1>4, <1>5, <1>6

\* Each runner has one last row.
LEMMA LastRows ==
    ASSUME NEW ms, RowSequence(ms)
    PROVE  /\ Final(ms) \subseteq DOMAIN ms
           /\ \A i, j \in Final(ms) : ms[i].runner = ms[j].runner => i = j
           /\ \A runner \in Movers(ms) : \E i \in Final(ms) : ms[i].runner = runner
<1>1. DOMAIN ms = 1 .. Len(ms) /\ Len(ms) \in Nat
    BY DEF RowSequence
<1>2. Final(ms) \subseteq DOMAIN ms
    BY DEF Final
<1>3. ASSUME NEW i \in Final(ms), NEW j \in Final(ms), ms[i].runner = ms[j].runner, i # j PROVE FALSE
  <2>1. i \in 1 .. Len(ms) /\ j \in 1 .. Len(ms)
    BY <1>1, <1>2
  <2>2. CASE i < j
    <3>1. j \in i + 1 .. Len(ms)
        BY <2>1, <2>2, <1>1
    <3> QED
        BY <3>1, <1>3 DEF Final
  <2>3. CASE j < i
    <3>1. i \in j + 1 .. Len(ms)
        BY <2>1, <2>3, <1>1
    <3> QED
        BY <3>1, <1>3 DEF Final
  <2> QED
    BY <2>1, <2>2, <2>3, <1>3
<1>4. ASSUME NEW runner \in Movers(ms) PROVE \E i \in Final(ms) : ms[i].runner = runner
  <2> DEFINE T == {i \in DOMAIN ms : ms[i].runner = runner}
  <2>1. PICK i \in T : \A j \in T : j <= i
    <3>1. T \in SUBSET (1 .. Len(ms)) /\ T # {}
        BY <1>1 DEF Movers
    <3> HIDE DEF T
    <3> QED
        BY <1>1, <3>1, LastExists
  <2>2. ASSUME NEW j \in i + 1 .. Len(ms), ms[j].runner = ms[i].runner PROVE FALSE
    <3>1. i \in 1 .. Len(ms) /\ ms[i].runner = runner
        BY <1>1
    <3>2. j \in 1 .. Len(ms) /\ ~ (j <= i)
        BY <3>1, <1>1
    <3>3. j \in T
        BY <3>1, <3>2, <2>2, <1>1
    <3> QED
        BY <2>1, <3>2, <3>3
  <2> QED
    BY <2>2 DEF Final
<1> QED
    BY <1>2, <1>3, <1>4

Charged(ms) == \A i \in DOMAIN ms : ms[i].pitcher \in PitcherNow

OutRows(ms) == {i \in DOMAIN ms : IsOut(ms[i])}
ScoredRows(ms) == {i \in DOMAIN ms : ms[i].outcome = "scored"}

\* A row that is not the last one of its runner.
LEMMA OnlyTheLastEnds ==
    ASSUME NEW ms, NEW batter, Play(ms, batter), NEW i \in DOMAIN ms, i \notin Final(ms)
    PROVE  ms[i].outcome = "safe"
<1>1. PICK j \in i + 1 .. Len(ms) : ms[j].runner = ms[i].runner
    BY DEF Final
<1>2. i < j /\ j \in DOMAIN ms
  <2>1. DOMAIN ms = 1 .. Len(ms) /\ Len(ms) \in Nat
    BY DEF Play, RowSequence
  <2> QED
    BY <1>1, <2>1
<1> QED
    BY <1>1, <1>2 DEF Play

\* Each last row of a runner is out, scored, or lands him on a base.
LEMMA LastRowsSplit ==
    ASSUME NEW ms, NEW batter, Play(ms, batter)
    PROVE  /\ IsFiniteSet(Final(ms)) /\ IsFiniteSet(Landing(ms)) /\ Cardinality(Landing(ms)) \in Nat
           /\ Cardinality(OutRows(ms)) \in Nat /\ Cardinality(ScoredRows(ms)) \in Nat
           /\ Cardinality(Final(ms))
                = Cardinality(Landing(ms)) + Cardinality(OutRows(ms)) + Cardinality(ScoredRows(ms))
<1>1. IsFiniteSet(Final(ms))
  <2>1. IsFiniteSet(DOMAIN ms) /\ Final(ms) \in SUBSET DOMAIN ms
    BY FinitelyMany DEF Play, Final
  <2> QED
    BY <2>1, FS_Subset
<1>2. \A i \in DOMAIN ms : i \notin Final(ms) => ms[i].outcome = "safe"
    BY OnlyTheLastEnds
<1>3. OutRows(ms) \subseteq Final(ms) /\ ScoredRows(ms) \subseteq Final(ms) /\ Landing(ms) \subseteq Final(ms)
    BY <1>2 DEF OutRows, ScoredRows, Landing, IsOut
<1>4. \A i \in DOMAIN ms : LandsOnBase(ms[i]) <=> ms[i].outcome = "safe"
    BY DEF LandsOnBase, Play, Base
<1>5. \A i \in DOMAIN ms : ms[i].outcome \in {"safe", "out", "scored"}
    BY DEF Play
<1>6. Final(ms) \subseteq DOMAIN ms
    BY DEF Final
<1>7. Final(ms) = Landing(ms) \cup (OutRows(ms) \cup ScoredRows(ms))
    BY <1>3, <1>4, <1>5, <1>6 DEF OutRows, ScoredRows, Landing, IsOut
<1>8. Landing(ms) \cap (OutRows(ms) \cup ScoredRows(ms)) = {} /\ OutRows(ms) \cap ScoredRows(ms) = {}
    BY <1>3, <1>4, <1>6 DEF OutRows, ScoredRows, Landing, IsOut
<1> DEFINE rest == OutRows(ms) \cup ScoredRows(ms)
<1>9. /\ IsFiniteSet(Landing(ms)) /\ IsFiniteSet(rest) /\ Cardinality(Landing(ms)) \in Nat
      /\ Cardinality(Final(ms)) = Cardinality(Landing(ms)) + Cardinality(rest)
    BY <1>1, <1>7, <1>8, SplitCounted
<1>10. /\ Cardinality(rest) = Cardinality(OutRows(ms)) + Cardinality(ScoredRows(ms))
       /\ Cardinality(OutRows(ms)) \in Nat /\ Cardinality(ScoredRows(ms)) \in Nat
    BY <1>8, <1>9, SplitCounted
<1> QED
    BY <1>1, <1>9, <1>10

\* As many as have rows were on a base, or bat.
LEMMA MoversCounted ==
    ASSUME Apart(bases), NEW ms, NEW batter, Play(ms, batter), OriginsAreSound(bases, ms)
    PROVE  /\ Cardinality(MoversOn(ms)) \in Nat
           /\ Cardinality(Final(ms))
                = Cardinality(MoversOn(ms)) + (IF batter # Nobody THEN 1 ELSE 0)
<1> DEFINE others == Movers(ms) \ {batter}
<1>1. RowSequence(ms)
    BY DEF Play
<1>2. IsFiniteSet(Movers(ms)) /\ Cardinality(Movers(ms)) = Cardinality(Final(ms))
  <2> DEFINE f == [i \in Final(ms) |-> ms[i].runner]
  <2>1. IsFiniteSet(Final(ms))
    BY LastRowsSplit
  <2>2. /\ \A i \in Final(ms) : f[i] \in Movers(ms)
        /\ \A i, j \in Final(ms) : f[i] = f[j] => i = j
        /\ \A m \in Movers(ms) : \E i \in Final(ms) : f[i] = m
    <3>1. \A i \in Final(ms) : f[i] \in Movers(ms)
        BY <1>1, LastRows DEF Movers
    <3>2. \A i, j \in Final(ms) : f[i] = f[j] => i = j
        BY <1>1, LastRows
    <3>3. \A m \in Movers(ms) : \E i \in Final(ms) : f[i] = m
        BY <1>1, LastRows
    <3> QED
        BY <3>1, <3>2, <3>3
  <2> HIDE DEF f
  <2> QED
    BY <2>1, <2>2, MatchedCounted
<1>3. Cardinality(others) = Cardinality(MoversOn(ms)) /\ Cardinality(MoversOn(ms)) \in Nat
  <2> DEFINE f == [b \in MoversOn(ms) |-> bases[b].runner]
  <2>1. IsFiniteSet(MoversOn(ms))
    <3>1. MoversOn(ms) \in SUBSET On(bases) /\ IsFiniteSet(On(bases))
        BY FinitelyMany DEF MoversOn
    <3> QED
        BY <3>1, FS_Subset
  <2>2. \A b \in MoversOn(ms) : f[b] \in others
    <3>1. \A b \in MoversOn(ms) : b \in On(bases) /\ bases[b].runner \in Movers(ms)
        BY DEF MoversOn
    <3>2. \A b \in On(bases) : bases[b].runner # batter
      <4>1. ASSUME NEW b \in On(bases), batter = Nobody PROVE bases[b].runner # Nobody
        <5>1. bases[b] \in Runner(HitterNow, PitcherNow)
            BY DEF Apart, On, Held
        <5>2. bases[b].runner \in HitterNow
            BY <5>1 DEF Runner
        <5> QED
            BY <5>2, Lineups
      <4> QED
          BY <4>1 DEF Play
    <3> QED
        BY <3>1, <3>2
  <2>3. \A b, c \in MoversOn(ms) : f[b] = f[c] => b = c
    BY DEF MoversOn, Apart
  <2>4. ASSUME NEW m \in others PROVE \E b \in MoversOn(ms) : f[b] = m
    <3>1. PICK b \in On(bases) : bases[b].runner = m
        BY LeavesHisBase
    <3> QED
        BY <3>1 DEF MoversOn
  <2> HIDE DEF f, others
  <2> QED
    BY <2>1, <2>2, <2>3, <2>4, MatchedCounted
<1>4. CASE batter = Nobody
  <2>1. \A m \in Movers(ms) : m \in HitterNow
    BY DEF Movers, Play
  <2>2. others = Movers(ms)
    BY <1>4, <2>1, Lineups
  <2> QED
    BY <1>2, <1>3, <1>4, <2>2
<1>5. CASE batter # Nobody
  <2>1. batter \in Movers(ms)
    BY <1>5 DEF Play, Movers
  <2>2. Cardinality(others) = Cardinality(Movers(ms)) - 1 /\ Cardinality(Movers(ms)) \in Nat
    BY <1>2, <2>1, FS_RemoveElement, FS_CardinalityType
  <2> QED
    BY <1>2, <1>3, <1>5, <2>2
<1> QED
    BY <1>4, <1>5

\* Of the bases that are left, some were left by their runners.
LEMMA LeftCounted ==
    ASSUME Apart(bases), NEW ms, NEW batter, Play(ms, batter), OriginsAreSound(bases, ms)
    PROVE  /\ IsFiniteSet(On(bases) \ Vacated(ms)) /\ Cardinality(On(bases) \ Vacated(ms)) \in Nat
           /\ Cardinality(RunOver(ms)) \in Nat
           /\ Cardinality(On(bases)) = Cardinality(On(bases) \ Vacated(ms))
                                         + Cardinality(MoversOn(ms)) + Cardinality(RunOver(ms))
<1> DEFINE left == On(bases) \cap Vacated(ms)
           stay == On(bases) \ Vacated(ms)
<1>1. IsFiniteSet(On(bases)) /\ On(bases) = stay \cup left /\ stay \cap left = {}
    BY FinitelyMany
<1>2. MoversOn(ms) \subseteq Vacated(ms)
  <2>1. ASSUME NEW b \in MoversOn(ms) PROVE b \in Vacated(ms)
    <3>1. b \in On(bases) /\ bases[b].runner \in Movers(ms)
        BY DEF MoversOn
    <3>2. bases[b].runner # batter
      <4>1. bases[b] \in Runner(HitterNow, PitcherNow)
          BY <3>1 DEF Apart, On, Held
      <4>2. bases[b].runner \in HitterNow
          BY <4>1 DEF Runner
      <4> QED
          BY <3>1, <4>2, Lineups DEF Play
    <3>3. PICK c \in On(bases) : bases[c].runner = bases[b].runner /\ c \in Vacated(ms)
        BY <3>1, <3>2, LeavesHisBase
    <3> QED
        BY <3>1, <3>3 DEF Apart
  <2> QED
    BY <2>1
<1>3. left = MoversOn(ms) \cup RunOver(ms) /\ MoversOn(ms) \cap RunOver(ms) = {}
    BY <1>2 DEF MoversOn, RunOver, Movers
<1>4. /\ IsFiniteSet(stay) /\ IsFiniteSet(left) /\ Cardinality(stay) \in Nat
      /\ Cardinality(On(bases)) = Cardinality(stay) + Cardinality(left)
    BY <1>1, SplitCounted
<1> HIDE DEF left, stay
<1>5. /\ Cardinality(left) = Cardinality(MoversOn(ms)) + Cardinality(RunOver(ms))
      /\ Cardinality(MoversOn(ms)) \in Nat /\ Cardinality(RunOver(ms)) \in Nat
  <2> DEFINE A == MoversOn(ms)
             B == RunOver(ms)
  <2>1. IsFiniteSet(left) /\ left = A \cup B /\ A \cap B = {}
    BY <1>3, <1>4
  <2> HIDE DEF A, B
  <2>2. Cardinality(left) = Cardinality(A) + Cardinality(B) /\ Cardinality(A) \in Nat /\ Cardinality(B) \in Nat
    BY <2>1, SplitCounted
  <2> QED
    BY <2>2 DEF A, B
<1> QED
    BY <1>4, <1>5 DEF stay

\* Who lands on a base is on it, and who did not leave his base stays.
LEMMA PlacedOn ==
    ASSUME Apart(bases), NEW ms, NEW batter, Play(ms, batter), Charged(ms),
           OriginsAreSound(bases, ms), DestinationsAreFree(bases, ms)
    PROVE  /\ Apart(Placed(bases, ms))
           /\ On(Placed(bases, ms)) = {ms[i].to : i \in Landing(ms)} \cup (On(bases) \ Vacated(ms))
           /\ {ms[i].to : i \in Landing(ms)} \cap (On(bases) \ Vacated(ms)) = {}
           /\ \A i \in Landing(ms) : Placed(bases, ms)[ms[i].to]
                                       = [runner |-> ms[i].runner, pitcher |-> ms[i].pitcher]
           /\ \A b \in On(bases) \ Vacated(ms) : Placed(bases, ms)[b] = bases[b]
<1> DEFINE to == {ms[i].to : i \in Landing(ms)}
           at(i) == [runner |-> ms[i].runner, pitcher |-> ms[i].pitcher]
           pl == Placed(bases, ms)
<1>1. ASSUME NEW i \in Landing(ms)
      PROVE  /\ i \in DOMAIN ms /\ i \in Final(ms) /\ ms[i].to \in Base
             /\ at(i) \in Runner(HitterNow, PitcherNow) /\ at(i) # Nobody /\ pl[ms[i].to] = at(i)
             /\ ms[i].runner \in Movers(ms)
  <2>1. i \in DOMAIN ms /\ i \in Final(ms) /\ ms[i].to \in Base
    BY DEF Landing, Final, LandsOnBase, Play
  <2>2. at(i) \in Runner(HitterNow, PitcherNow)
    BY <2>1 DEF Play, Charged, Runner
  <2>3. at(i) # Nobody
    BY <2>2, Lineups
  <2>4. pl[ms[i].to] = at(i)
    <3> DEFINE k == CHOOSE k \in Landing(ms) : ms[k].to = ms[i].to
    <3>1. k \in Landing(ms) /\ ms[k].to = ms[i].to
        OBVIOUS
    <3>2. pl[ms[i].to] = at(k)
        BY <2>1, <3>1 DEF Placed
    <3> HIDE DEF k
    <3>3. k = i
        BY <3>1 DEF DestinationsAreFree
    <3> QED
        BY <3>2, <3>3
  <2> QED
    BY <2>1, <2>2, <2>3, <2>4 DEF Movers
<1>2. \A b \in Base : b \notin to => pl[b] = IF b \in Vacated(ms) THEN Nobody ELSE bases[b]
    BY DEF Placed
<1>3. pl = [b \in Base |-> pl[b]]
    BY DEF Placed
<1>4. ASSUME NEW b \in On(bases) \ Vacated(ms)
      PROVE  /\ b \notin to /\ pl[b] = bases[b] /\ b \in Base /\ bases[b] # Nobody
             /\ bases[b].runner \notin Movers(ms)
  <2>1. b \in Base /\ bases[b] # Nobody
    BY DEF On
  <2>2. b \notin to
    BY <2>1 DEF DestinationsAreFree
  <2>3. bases[b].runner \notin Movers(ms)
    <3>1. SUFFICES ASSUME bases[b].runner \in Movers(ms) PROVE FALSE
        OBVIOUS
    <3>2. bases[b] \in Runner(HitterNow, PitcherNow)
        BY <2>1 DEF Apart, Held
    <3>3. bases[b].runner # batter
      <4>1. bases[b].runner \in HitterNow
          BY <3>2 DEF Runner
      <4> QED
          BY <4>1, Lineups DEF Play
    <3>4. PICK c \in On(bases) : bases[c].runner = bases[b].runner /\ c \in Vacated(ms)
        BY <3>1, <3>3, LeavesHisBase
    <3> QED
        BY <3>4 DEF Apart
  <2> QED
    BY <1>2, <2>1, <2>2, <2>3
<1>8. \A i \in Landing(ms) : /\ at(i) \in Runner(HitterNow, PitcherNow)
                             /\ pl[ms[i].to].runner = ms[i].runner /\ pl[ms[i].to] = at(i)
                             /\ ms[i].runner \in Movers(ms)
    BY <1>1
<1>9. \A b \in On(bases) \ Vacated(ms) :
        pl[b] = bases[b] /\ b \in Base /\ b \in On(bases) /\ bases[b].runner \notin Movers(ms)
    BY <1>4
<1> HIDE DEF pl
<1>5. On(pl) = to \cup (On(bases) \ Vacated(ms))
  <2>1. ASSUME NEW b \in On(pl) PROVE b \in to \cup (On(bases) \ Vacated(ms))
    BY <1>2 DEF On
  <2>2. ASSUME NEW b \in to PROVE b \in On(pl)
    BY <1>1 DEF On
  <2>3. ASSUME NEW b \in On(bases) \ Vacated(ms) PROVE b \in On(pl)
    BY <1>4 DEF On
  <2> QED
    BY <2>1, <2>2, <2>3
<1>6. pl \in [Base -> Held]
  <2>1. ASSUME NEW b \in Base, b \in to PROVE pl[b] \in Held
    BY <1>8, <2>1 DEF Held
  <2>2. ASSUME NEW b \in Base, b \notin to PROVE pl[b] \in Held
    BY <1>2, <2>2 DEF Held, Apart
  <2> QED
    BY <1>3, <2>1, <2>2
<1>7. ASSUME NEW b \in On(pl), NEW c \in On(pl), pl[b].runner = pl[c].runner PROVE b = c
  <2>1. CASE b \in to /\ c \in to
    <3>1. PICK i \in Landing(ms), j \in Landing(ms) : ms[i].to = b /\ ms[j].to = c
        BY <2>1
    <3>2. ms[i].runner = ms[j].runner
        BY <1>8, <1>7, <3>1
    <3>3. i = j
        BY <3>2, LastRows DEF Play, Landing
    <3> QED
        BY <3>1, <3>3
  <2>2. CASE b \in to /\ c \in On(bases) \ Vacated(ms)
    <3>1. PICK i \in Landing(ms) : ms[i].to = b
        BY <2>2
    <3>2. pl[b].runner \in Movers(ms)
        BY <1>8, <3>1
    <3> QED
        BY <1>9, <1>7, <2>2, <3>2
  <2>3. CASE c \in to /\ b \in On(bases) \ Vacated(ms)
    <3>1. PICK i \in Landing(ms) : ms[i].to = c
        BY <2>3
    <3>2. pl[c].runner \in Movers(ms)
        BY <1>8, <3>1
    <3> QED
        BY <1>9, <1>7, <2>3, <3>2
  <2>4. CASE b \in On(bases) \ Vacated(ms) /\ c \in On(bases) \ Vacated(ms)
    BY <1>9, <1>7, <2>4 DEF Apart
  <2> QED
    BY <1>5, <2>1, <2>2, <2>3, <2>4
<1> QED
    BY <1>1, <1>4, <1>5, <1>6, <1>7 DEF Apart, pl

\* As many are on a base as were, with the batter, without those out, home or run over.
LEMMA RunnersCounted ==
    ASSUME Apart(bases), NEW ms, NEW batter, Play(ms, batter), Charged(ms),
           OriginsAreSound(bases, ms), DestinationsAreFree(bases, ms)
    PROVE  Cardinality(On(Placed(bases, ms)))
             = Cardinality(On(bases)) + (IF batter # Nobody THEN 1 ELSE 0) - Outs(ms)
                 - Cardinality(ScoredRows(ms)) - Cardinality(RunOver(ms))
<1> DEFINE to == {ms[i].to : i \in Landing(ms)}
           stay == On(bases) \ Vacated(ms)
<1>1. Cardinality(to) = Cardinality(Landing(ms)) /\ Cardinality(to) \in Nat
  <2> DEFINE f == [i \in Landing(ms) |-> ms[i].to]
  <2>1. /\ IsFiniteSet(Landing(ms)) /\ \A i \in Landing(ms) : f[i] \in to
        /\ \A i, j \in Landing(ms) : f[i] = f[j] => i = j
        /\ \A b \in to : \E i \in Landing(ms) : f[i] = b
    BY LastRowsSplit DEF DestinationsAreFree
  <2> HIDE DEF f, to
  <2>2. Cardinality(to) = Cardinality(Landing(ms)) /\ Cardinality(Landing(ms)) \in Nat
    BY <2>1, MatchedCounted
  <2> QED
    BY <2>2
<1>2. Cardinality(On(Placed(bases, ms))) = Cardinality(to) + Cardinality(stay)
  <2>1. On(Placed(bases, ms)) = to \cup stay /\ to \cap stay = {}
    BY PlacedOn
  <2>2. IsFiniteSet(On(Placed(bases, ms)))
    BY FinitelyMany
  <2> QED
    BY <2>1, <2>2, SplitCounted
<1>3. /\ Cardinality(stay) \in Nat /\ Cardinality(RunOver(ms)) \in Nat
      /\ Cardinality(On(bases)) = Cardinality(stay) + Cardinality(MoversOn(ms)) + Cardinality(RunOver(ms))
    BY LeftCounted
<1>4. /\ Cardinality(MoversOn(ms)) \in Nat
      /\ Cardinality(Final(ms)) = Cardinality(MoversOn(ms)) + (IF batter # Nobody THEN 1 ELSE 0)
    BY MoversCounted
<1>5. /\ Cardinality(Landing(ms)) \in Nat
      /\ Cardinality(OutRows(ms)) \in Nat /\ Cardinality(ScoredRows(ms)) \in Nat
      /\ Cardinality(Final(ms))
           = Cardinality(Landing(ms)) + Cardinality(OutRows(ms)) + Cardinality(ScoredRows(ms))
    BY LastRowsSplit
<1>6. Outs(ms) = Cardinality(OutRows(ms))
    BY DEF Outs, OutRows
<1> HIDE DEF to, stay
<1> QED
    BY <1>1, <1>2, <1>3, <1>4, <1>5, <1>6

-----------------------------------------------------------------------------
(* A play as a whole *)

\* A play comes out as its rows say.
LEMMA Transitioned ==
    ASSUME NEW ms, RowSequence(ms), outs \in 0 .. 3, NEW direct \in {Nobody, 0, 2},
           NEW moved, moved = TransitionMovements(outs, bases, ms, direct, ms), moved.ok,
           BatterOuts(ms) \in Nat, Outs(ms) \in Nat
    PROVE  /\ OriginsAreSound(bases, ms) /\ moved.outs \in 0 .. 3 /\ moved.scored \subseteq ScoredRows(ms)
           /\ moved.outs = 3 => moved.bases = NoBases
           /\ moved.outs < 3 =>
                /\ DestinationsAreFree(bases, ms) /\ moved.bases = Placed(bases, ms)
                /\ moved.scored = ScoredRows(ms) /\ outs + Outs(ms) <= moved.outs
                /\ (direct # 2 \/ direct = Nobody) => moved.outs = outs + Outs(ms)
<1> DEFINE resultOuts == IF direct = Nobody THEN BatterOuts(ms) ELSE direct
           anonymous == resultOuts - BatterOuts(ms)
           added == Outs(ms) + anonymous
           natural == ThirdOut(ms, outs, anonymous)
           fourths == {i \in DOMAIN ms : ms[i].fourth}
           ends == outs < 3 /\ outs + added >= 3
           fourth == CHOOSE i \in fourths : TRUE
           third == CASE ~ ends -> 0 [] ends /\ fourths # {} -> fourth [] OTHER -> natural
           final == IF outs + added >= 3 THEN 3 ELSE outs + added
           sound == /\ OriginsAreSound(bases, ms)
                    /\ resultOuts >= BatterOuts(ms)
                    /\ ends \/ DestinationsAreFree(bases, ms)
                    /\ Cardinality(fourths) <= 1
                    /\ fourths # {} => IsOut(ms[fourth]) /\ natural # 0 /\ fourth > natural
                    /\ fourths = {} => outs + added <= 3
           came == [ok |-> TRUE, outs |-> final, added |-> final - outs,
                    bases |-> IF final = 3 THEN NoBases ELSE Placed(bases, ms),
                    scored |-> {i \in DOMAIN ms : ms[i].outcome = "scored" /\ Counts(ms, i, third)}]
<1>1. moved = IF sound THEN came ELSE Refused
    BY DEF TransitionMovements
<1>2. sound /\ moved = came
  <2> HIDE DEF sound, came
  <2>1. Refused.ok = FALSE
    BY DEF Refused
  <2> QED
    BY <1>1, <2>1
<1>3. /\ moved.outs = final /\ moved.bases = IF final = 3 THEN NoBases ELSE Placed(bases, ms)
      /\ moved.scored = {i \in DOMAIN ms : ms[i].outcome = "scored" /\ Counts(ms, i, third)}
  <2> HIDE DEF final, third, sound
  <2> QED
    BY <1>2
<1>4. OriginsAreSound(bases, ms) /\ resultOuts >= BatterOuts(ms) /\ (ends \/ DestinationsAreFree(bases, ms))
    BY <1>2
<1>5. resultOuts \in Int /\ ((direct # 2 \/ direct = Nobody) => resultOuts = BatterOuts(ms))
    BY <1>4
<1>6. anonymous \in Nat /\ ((direct # 2 \/ direct = Nobody) => anonymous = 0)
  <2> HIDE DEF resultOuts
  <2> QED
    BY <1>4, <1>5
<1> HIDE DEF anonymous
<1>7. added \in Nat /\ Outs(ms) <= added /\ ((direct # 2 \/ direct = Nobody) => added = Outs(ms))
    BY <1>6
<1> HIDE DEF added
<1>8. final \in 0 .. 3 /\ (final < 3 => final = outs + added /\ ~ ends)
    BY <1>7
<1>9. moved.scored \subseteq ScoredRows(ms)
    BY <1>3 DEF ScoredRows
<1>10. ASSUME final < 3 PROVE moved.scored = ScoredRows(ms)
  <2>1. third = 0
    BY <1>8, <1>10
  <2> HIDE DEF third
  <2> QED
    BY <1>3, <2>1 DEF Counts, ScoredRows
<1> HIDE DEF ends, final
<1>11. ASSUME final < 3
       PROVE  /\ DestinationsAreFree(bases, ms) /\ final # 3 /\ outs + Outs(ms) <= final
              /\ (direct # 2 \/ direct = Nobody) => final = outs + Outs(ms)
    BY <1>4, <1>7, <1>8, <1>11
<1> QED
    BY <1>3, <1>4, <1>8, <1>9, <1>10, <1>11

\* Outs of a play are counted.
LEMMA OutsCounted ==
    ASSUME NEW ms, RowSequence(ms)
    PROVE  BatterOuts(ms) \in Nat /\ Outs(ms) \in Nat
<1>1. IsFiniteSet(DOMAIN ms)
    BY FinitelyMany
<1>2. \A s \in SUBSET DOMAIN ms : Cardinality(s) \in Nat
    BY <1>1, FS_Subset, FS_CardinalityType
<1>3. /\ {i \in DOMAIN ms : IsOut(ms[i])} \in SUBSET DOMAIN ms
      /\ {i \in DOMAIN ms : IsOut(ms[i]) /\ ms[i].from = 0} \in SUBSET DOMAIN ms
    OBVIOUS
<1> QED
    BY <1>2, <1>3 DEF Outs, BatterOuts

\* A sequence is itself.
LEMMA EvaluatedIs ==
    ASSUME NEW ms, Len(ms) \in Nat, DOMAIN ms = 1 .. Len(ms), ms = [i \in 1 .. Len(ms) |-> ms[i]]
    PROVE  Evaluated(ms) = ms
<1> DEFINE S == {ms[i] : i \in 1 .. Len(ms)}
<1>1. \A i \in 1 .. Len(ms) : ms[i] \in S
    OBVIOUS
<1> HIDE DEF S
<1>2. ms \in Seq(S)
    BY <1>1
<1> QED
    BY <1>2, ConcatEmptySeq DEF Evaluated

\* What applying movements does, in the order of the rows.
LEMMA Applied ==
    ASSUME NEW ms, RowSequence(ms), outs \in 0 .. 3, NEW direct \in {Nobody, 0, 2}, NEW put, NEW inherits,
           ApplyMovements(ms, direct, put, inherits)
    PROVE  \E moved :
             /\ OriginsAreSound(bases, ms) /\ moved.outs \in 0 .. 3 /\ moved.scored \subseteq ScoredRows(ms)
             /\ moved.outs = 3 => moved.bases = NoBases
             /\ moved.outs < 3 =>
                  /\ DestinationsAreFree(bases, ms) /\ moved.bases = Placed(bases, ms)
                  /\ moved.scored = ScoredRows(ms) /\ outs + Outs(ms) <= moved.outs
                  /\ (direct # 2 \/ direct = Nobody) => moved.outs = outs + Outs(ms)
             /\ outs' = moved.outs
             /\ bases' = WithPitchers(moved.bases, inherits)
             /\ score' = [score EXCEPT ![Batting] = @ + Cardinality(moved.scored)]
             /\ runsOf' = [h \in DOMAIN runsOf |->
                             runsOf[h] + Cardinality({i \in moved.scored : ms[i].runner = h})]
             /\ chargedTo' = [p \in DOMAIN chargedTo |->
                                chargedTo[p] + Cardinality({i \in moved.scored : ms[i].pitcher = p})]
             /\ tally' = IF moved.outs = 3 THEN 0
                         ELSE tally + put - Outs(ms) - Cardinality(moved.scored)
                                - Cardinality(RunOver(ms))
             /\ ordered => ordered'
<1>1. Evaluated(ms) = ms
    BY EvaluatedIs DEF RowSequence
<1> DEFINE moved == TransitionMovements(outs, bases, OrderPlayMovements(bases, ms), direct, ms)
<1>2. moved = TransitionMovements(outs, bases, ms, direct, ms)
    BY PlacementDecidesNothing
<1>3. BatterOuts(ms) \in Nat /\ Outs(ms) \in Nat
    BY OutsCounted
<1>4. /\ moved.ok
      /\ outs' = moved.outs
      /\ bases' = WithPitchers(moved.bases, inherits)
      /\ score' = [score EXCEPT ![Batting] = @ + Cardinality(moved.scored)]
      /\ runsOf' = [h \in DOMAIN runsOf |->
                      runsOf[h] + Cardinality({i \in moved.scored : ms[i].runner = h})]
      /\ chargedTo' = [p \in DOMAIN chargedTo |->
                         chargedTo[p] + Cardinality({i \in moved.scored : ms[i].pitcher = p})]
      /\ tally' = IF moved.outs = 3 THEN 0
                  ELSE tally + put - Outs(ms) - Cardinality(moved.scored)
                         - Cardinality(RunOver(ms))
      /\ ordered' = (ordered /\ moved = TransitionMovements(outs, bases, ms, direct, ms))
    BY <1>1 DEF ApplyMovements
<1> HIDE DEF moved
<1>5. ordered => ordered'
    BY <1>2, <1>4
<1>6. /\ OriginsAreSound(bases, ms) /\ moved.outs \in 0 .. 3 /\ moved.scored \subseteq ScoredRows(ms)
      /\ moved.outs = 3 => moved.bases = NoBases
      /\ moved.outs < 3 =>
           /\ DestinationsAreFree(bases, ms) /\ moved.bases = Placed(bases, ms)
           /\ moved.scored = ScoredRows(ms) /\ outs + Outs(ms) <= moved.outs
           /\ (direct # 2 \/ direct = Nobody) => moved.outs = outs + Outs(ms)
    BY <1>2, <1>3, <1>4, Transitioned
<1> QED
    BY <1>4, <1>5, <1>6

\* Who inherits takes nobody off his base.
LEMMA WithPitchersKept ==
    ASSUME NEW bs, Apart(bs), NEW inherits, \A r \in DOMAIN inherits : inherits[r] \in PitcherNow
    PROVE  /\ Apart(WithPitchers(bs, inherits)) /\ On(WithPitchers(bs, inherits)) = On(bs)
           /\ \A b \in On(bs) : WithPitchers(bs, inherits)[b].runner = bs[b].runner
           /\ \A b \in On(bs) : WithPitchers(bs, inherits)[b].pitcher = PitcherOf(bs[b], inherits)
<1> DEFINE w == WithPitchers(bs, inherits)
<1>1. w = [b \in Base |-> IF bs[b] = Nobody THEN Nobody
                          ELSE [bs[b] EXCEPT !.pitcher = PitcherOf(bs[b], inherits)]]
    BY DEF WithPitchers, Apart
<1>2. ASSUME NEW b \in Base, bs[b] # Nobody
      PROVE  /\ w[b] = [bs[b] EXCEPT !.pitcher = PitcherOf(bs[b], inherits)]
             /\ w[b] \in Runner(HitterNow, PitcherNow) /\ w[b] # Nobody
             /\ w[b].runner = bs[b].runner /\ w[b].pitcher = PitcherOf(bs[b], inherits)
  <2>1. w[b] = [bs[b] EXCEPT !.pitcher = PitcherOf(bs[b], inherits)]
    BY <1>1, <1>2
  <2>2. bs[b] \in Runner(HitterNow, PitcherNow)
    BY <1>2 DEF Apart, Held
  <2>3. PitcherOf(bs[b], inherits) \in PitcherNow
    BY <2>2 DEF PitcherOf, Runner
  <2> HIDE DEF w
  <2>4. /\ w[b] \in Runner(HitterNow, PitcherNow)
        /\ w[b].runner = bs[b].runner /\ w[b].pitcher = PitcherOf(bs[b], inherits)
    BY <2>1, <2>2, <2>3 DEF Runner
  <2> QED
    BY <2>1, <2>4, Lineups
<1>3. \A b \in Base : bs[b] = Nobody => w[b] = Nobody
    BY <1>1
<1>4. w = [b \in Base |-> w[b]]
    BY <1>1
<1> HIDE DEF w
<1>5. w \in [Base -> Held]
  <2>1. \A b \in Base : w[b] \in Held
    BY <1>2, <1>3 DEF Held
  <2> QED
    BY <1>4, <2>1
<1>6. On(w) = On(bs)
    BY <1>2, <1>3 DEF On
<1>7. \A b \in On(bs) : w[b].runner = bs[b].runner /\ w[b].pitcher = PitcherOf(bs[b], inherits)
    BY <1>2 DEF On
<1>8. Apart(w)
    BY <1>5, <1>6, <1>7 DEF Apart
<1> QED
    BY <1>6, <1>7, <1>8 DEF w

\* Nobody is on an empty base.
LEMMA NobodyOn == On(NoBases) = {} /\ Apart(NoBases) /\ Cardinality(On(NoBases)) = 0
<1>1. On(NoBases) = {} /\ Apart(NoBases)
    BY DEF On, NoBases, Apart, Held
<1> QED
    BY <1>1, FS_EmptySet

\* The runs of a play are in the lines of one side's batters and the other's pitchers.
LEMMA RunsKept ==
    ASSUME GameTypes, RunsAreCharged, half' = half,
           NEW ms, NEW batter, Play(ms, batter), Charged(ms),
           NEW scored, scored \subseteq DOMAIN ms,
           score' = [score EXCEPT ![Batting] = @ + Cardinality(scored)],
           runsOf' = [h \in DOMAIN runsOf |-> runsOf[h] + Cardinality({i \in scored : ms[i].runner = h})],
           chargedTo' = [p \in DOMAIN chargedTo |->
                           chargedTo[p] + Cardinality({i \in scored : ms[i].pitcher = p})]
    PROVE  /\ RunsAreCharged'
           /\ score' \in [Side -> Nat] /\ runsOf' \in [Players(Hitters) -> Nat]
           /\ chargedTo' \in [Players(Pitchers) -> Nat]
<1> DEFINE runner == [i \in DOMAIN ms |-> ms[i].runner]
           pitcher == [i \in DOMAIN ms |-> ms[i].pitcher]
<1>1. IsFiniteSet(scored) /\ \A s \in SUBSET scored : Cardinality(s) \in Nat
  <2>1. IsFiniteSet(DOMAIN ms)
    BY FinitelyMany DEF Play
  <2>2. IsFiniteSet(scored)
    BY <2>1, FS_Subset
  <2> QED
    BY <2>2, FS_Subset, FS_CardinalityType
<1>2. /\ score \in [Side -> Nat] /\ runsOf \in [Players(Hitters) -> Nat]
      /\ chargedTo \in [Players(Pitchers) -> Nat]
    BY DEF GameTypes
<1>3. Cardinality(scored) \in Nat /\ Cardinality({}) = 0
    BY <1>1, FS_EmptySet
<1>4. \A s \in Side : score'[s] = score[s] + (IF s = Batting THEN Cardinality(scored) ELSE 0)
    BY <1>2, <1>3
<1>5. \A h \in Players(Hitters) : /\ runsOf'[h] = runsOf[h] + Cardinality({i \in scored : runner[i] = h})
                                  /\ runsOf'[h] \in Nat
  <2>1. ASSUME NEW h \in Players(Hitters)
        PROVE  runsOf'[h] = runsOf[h] + Cardinality({i \in scored : runner[i] = h})
    <3>1. {i \in scored : ms[i].runner = h} = {i \in scored : runner[i] = h}
        OBVIOUS
    <3> QED
        BY <1>2, <3>1
  <2>2. \A h : {i \in scored : runner[i] = h} \in SUBSET scored
    OBVIOUS
  <2> HIDE DEF runner
  <2> QED
    BY <1>1, <1>2, <2>1, <2>2
<1>6. \A p \in Players(Pitchers) :
        /\ chargedTo'[p] = chargedTo[p] + Cardinality({i \in scored : pitcher[i] = p})
        /\ chargedTo'[p] \in Nat
  <2>1. ASSUME NEW p \in Players(Pitchers)
        PROVE  chargedTo'[p] = chargedTo[p] + Cardinality({i \in scored : pitcher[i] = p})
    <3>1. {i \in scored : ms[i].pitcher = p} = {i \in scored : pitcher[i] = p}
        OBVIOUS
    <3> QED
        BY <1>2, <3>1
  <2>2. \A p : {i \in scored : pitcher[i] = p} \in SUBSET scored
    OBVIOUS
  <2> HIDE DEF pitcher
  <2> QED
    BY <1>1, <1>2, <2>1, <2>2
<1>7. \A i \in scored : runner[i] \in Hitters[Batting] /\ pitcher[i] \in Pitchers[Fielding]
    BY DEF Play, Charged, HitterNow, PitcherNow
<1> HIDE DEF runner, pitcher
<1>8. ASSUME NEW s \in Side, NEW t \in Side \ {s}
      PROVE  score'[s] = SumOf(runsOf', Hitters[s]) /\ score'[s] = SumOf(chargedTo', Pitchers[t])
  <2>1. score[s] = SumOf(runsOf, Hitters[s]) /\ score[s] = SumOf(chargedTo, Pitchers[t])
    BY DEF RunsAreCharged, SumOf
  <2>2. SumOf(runsOf', Hitters[s])
          = SumOf(runsOf, Hitters[s]) + Cardinality({i \in scored : runner[i] \in Hitters[s]})
    <3>1. IsFiniteSet(Hitters[s]) /\ Hitters[s] \subseteq Players(Hitters)
        BY Lineups
    <3>2. \A x \in Hitters[s] :
            runsOf[x] \in Nat /\ runsOf'[x] = runsOf[x] + Cardinality({i \in scored : runner[i] = x})
        BY <1>2, <1>5, <3>1
    <3> DEFINE S == Hitters[s]
               g == runsOf'
    <3>3. IsFiniteSet(S) /\ IsFiniteSet(scored)
        BY <1>1, <3>1
    <3>4. \A x \in S : runsOf[x] \in Nat /\ g[x] = runsOf[x] + Cardinality(OfOne(scored, runner, x))
        BY <3>2 DEF OfOne
    <3> HIDE DEF S, g
    <3>5. SumOf(g, S) = SumOf(runsOf, S) + Cardinality(OfAny(scored, runner, S))
        BY <3>3, <3>4, SumGrows
    <3> QED
        BY <3>5 DEF S, g, OfAny
  <2>3. SumOf(chargedTo', Pitchers[t])
          = SumOf(chargedTo, Pitchers[t]) + Cardinality({i \in scored : pitcher[i] \in Pitchers[t]})
    <3>1. IsFiniteSet(Pitchers[t]) /\ Pitchers[t] \subseteq Players(Pitchers)
        BY Lineups
    <3>2. \A x \in Pitchers[t] :
            /\ chargedTo[x] \in Nat
            /\ chargedTo'[x] = chargedTo[x] + Cardinality({i \in scored : pitcher[i] = x})
        BY <1>2, <1>6, <3>1
    <3> DEFINE S == Pitchers[t]
               g == chargedTo'
    <3>3. IsFiniteSet(S) /\ IsFiniteSet(scored)
        BY <1>1, <3>1
    <3>4. \A x \in S : chargedTo[x] \in Nat /\ g[x] = chargedTo[x] + Cardinality(OfOne(scored, pitcher, x))
        BY <3>2 DEF OfOne
    <3> HIDE DEF S, g
    <3>5. SumOf(g, S) = SumOf(chargedTo, S) + Cardinality(OfAny(scored, pitcher, S))
        BY <3>3, <3>4, SumGrows
    <3> QED
        BY <3>5 DEF S, g, OfAny
  <2>4. CASE s = Batting
    <3>1. t = Fielding
        BY <2>4, Lineups
    <3>2. {i \in scored : runner[i] \in Hitters[s]} = scored
          /\ {i \in scored : pitcher[i] \in Pitchers[t]} = scored
        BY <1>7, <2>4, <3>1
    <3> QED
        BY <1>4, <2>1, <2>2, <2>3, <2>4, <3>2
  <2>5. CASE s # Batting
    <3>1. t = Batting /\ t # Fielding
        BY <2>5, Lineups
    <3>2. Hitters[s] \cap Hitters[Batting] = {} /\ Pitchers[t] \cap Pitchers[Fielding] = {}
        BY <2>5, <3>1, Lineups
    <3>3. {i \in scored : runner[i] \in Hitters[s]} = {}
          /\ {i \in scored : pitcher[i] \in Pitchers[t]} = {}
        BY <1>7, <3>2
    <3>4. score[s] \in Nat
        BY <1>2
    <3> QED
        BY <1>3, <1>4, <2>1, <2>2, <2>3, <2>5, <3>3, <3>4
  <2> QED
    BY <2>4, <2>5
<1>9. RunsAreCharged'
    BY <1>8 DEF RunsAreCharged, SumOf, MapThenSumSet, MapThenFoldSet
<1>10. score' = [s \in Side |-> score'[s]] /\ \A s \in Side : score'[s] \in Nat
  <2>1. score' = [s \in Side |-> score'[s]]
    BY <1>2
  <2>2. \A s \in Side : score'[s] \in Nat
    BY <1>2, <1>3, <1>4
  <2> QED
    BY <2>1, <2>2
<1>11. runsOf' = [h \in Players(Hitters) |-> runsOf'[h]]
       /\ chargedTo' = [p \in Players(Pitchers) |-> chargedTo'[p]]
    BY <1>2
<1> QED
    BY <1>5, <1>6, <1>9, <1>10, <1>11

\* Sets of bases and of rows.
LEMMA RowsFinite ==
    ASSUME NEW ms, RowSequence(ms)
    PROVE  /\ Cardinality(RunOver(ms)) \in Nat
           /\ \A s \in SUBSET DOMAIN ms : IsFiniteSet(s) /\ Cardinality(s) \in Nat
<1>1. IsFiniteSet(DOMAIN ms) /\ IsFiniteSet(On(bases))
    BY FinitelyMany
<1>2. RunOver(ms) \in SUBSET On(bases)
    BY DEF RunOver
<1> QED
    BY <1>1, <1>2, FS_Subset, FS_CardinalityType

\* A play keeps the runners and charges the runs.
LEMMA PlayKept ==
    ASSUME GameInv, NEW ms, NEW batter, Play(ms, batter), Charged(ms), NEW direct \in {Nobody, 0, 2},
           NEW put, put = IF batter # Nobody THEN 1 ELSE 0,
           NEW inherits, \A r \in DOMAIN inherits : inherits[r] \in PitcherNow,
           ApplyMovements(ms, direct, put, inherits),
           UNCHANGED <<half, mound>>, balls' \in Nat, strikes' \in Nat,
           plate' \in {Nobody, plate},
           plate' # Nobody => \A i \in DOMAIN ms : ms[i].runner # plate.batter
    PROVE  GameTypes' /\ RunnersAreKept' /\ RunsAreCharged' /\ OrderDecidesNothing'
<1>1. GameTypes /\ RunnersAreKept /\ RunsAreCharged /\ ordered /\ RowSequence(ms)
    BY DEF GameInv, OrderDecidesNothing, Play
<1>2. outs \in 0 .. 3 /\ tally \in Int
    BY <1>1 DEF GameTypes
<1>3. PICK moved :
        /\ OriginsAreSound(bases, ms) /\ moved.outs \in 0 .. 3 /\ moved.scored \subseteq ScoredRows(ms)
        /\ moved.outs = 3 => moved.bases = NoBases
        /\ moved.outs < 3 =>
             /\ DestinationsAreFree(bases, ms) /\ moved.bases = Placed(bases, ms)
             /\ moved.scored = ScoredRows(ms) /\ outs + Outs(ms) <= moved.outs
             /\ (direct # 2 \/ direct = Nobody) => moved.outs = outs + Outs(ms)
        /\ outs' = moved.outs
        /\ bases' = WithPitchers(moved.bases, inherits)
        /\ score' = [score EXCEPT ![Batting] = @ + Cardinality(moved.scored)]
        /\ runsOf' = [h \in DOMAIN runsOf |->
                        runsOf[h] + Cardinality({i \in moved.scored : ms[i].runner = h})]
        /\ chargedTo' = [p \in DOMAIN chargedTo |->
                           chargedTo[p] + Cardinality({i \in moved.scored : ms[i].pitcher = p})]
        /\ tally' = IF moved.outs = 3 THEN 0
                    ELSE tally + put - Outs(ms) - Cardinality(moved.scored)
                           - Cardinality(RunOver(ms))
        /\ ordered => ordered'
    BY <1>1, <1>2, Applied
<1>4. Apart(bases)
    BY <1>1 DEF Apart, GameTypes, RunnersAreKept
<1>5. /\ RunsAreCharged' /\ score' \in [Side -> Nat] /\ runsOf' \in [Players(Hitters) -> Nat]
      /\ chargedTo' \in [Players(Pitchers) -> Nat]
  <2>1. moved.scored \subseteq DOMAIN ms
    BY <1>3 DEF ScoredRows
  <2> QED
    BY <1>1, <1>3, <2>1, RunsKept
<1>6. Apart(moved.bases)
    BY <1>3, <1>4, PlacedOn, NobodyOn
<1>7. /\ Apart(bases') /\ On(bases') = On(moved.bases)
      /\ \A b \in On(moved.bases) : bases'[b].runner = moved.bases[b].runner
    BY <1>3, <1>6, WithPitchersKept
<1>8. Outs(ms) \in Nat /\ Cardinality(RunOver(ms)) \in Nat /\ Cardinality(moved.scored) \in Nat
  <2>1. moved.scored \in SUBSET DOMAIN ms
    BY <1>3 DEF ScoredRows
  <2> QED
    BY <1>1, <2>1, RowsFinite, OutsCounted
<1>9. outs' \in 0 .. 3 /\ tally' \in Int
    BY <1>2, <1>3, <1>8
<1>10. Batting' = Batting /\ Fielding' = Fielding
    BY DEF Batting, Fielding
<1>11. GameTypes'
  <2>1. bases' \in [Base -> Held']
    BY <1>7, <1>10 DEF Apart, Held, HitterNow, PitcherNow
  <2>2. plate' \in {Nobody} \cup Plate'
    BY <1>1, <1>10 DEF GameTypes, Plate, HitterNow, PitcherNow
  <2>3. half' \in Nat /\ mound' = [s \in Side |-> mound'[s]]
        /\ \A s \in Side : mound'[s] \in Pitchers[s] \cup {Nobody}
    BY <1>1 DEF GameTypes
  <2> QED
    BY <1>5, <1>9, <2>1, <2>2, <2>3 DEF GameTypes
<1>12. ASSUME outs' < 3 PROVE Cardinality(On(bases')) = tally'
  <2>1. DestinationsAreFree(bases, ms) /\ moved.bases = Placed(bases, ms)
        /\ moved.scored = ScoredRows(ms) /\ outs < 3 /\ moved.outs # 3
    BY <1>2, <1>3, <1>8, <1>12
  <2>2. Cardinality(On(bases)) = tally
    BY <1>1, <2>1 DEF RunnersAreKept
  <2>3. Cardinality(On(moved.bases))
          = Cardinality(On(bases)) + put - Outs(ms)
              - Cardinality(moved.scored) - Cardinality(RunOver(ms))
    BY <1>3, <1>4, <2>1, RunnersCounted
  <2> QED
    BY <1>3, <1>7, <2>1, <2>2, <2>3
<1>13. \A b, c \in On(bases') : b # c => bases'[b].runner # bases'[c].runner
    BY <1>7 DEF Apart
<1>14. ASSUME plate' # Nobody, NEW b \in On(bases') PROVE bases'[b].runner # plate'.batter
  <2>1. plate' = plate /\ plate # Nobody /\ \A i \in DOMAIN ms : ms[i].runner # plate.batter
    BY <1>14
  <2>2. moved.bases = Placed(bases, ms) /\ DestinationsAreFree(bases, ms)
    <3>1. moved.bases # NoBases
        BY <1>7, <1>14, NobodyOn
    <3> QED
        BY <1>3, <3>1
  <2>3. b \in On(moved.bases) /\ bases'[b].runner = moved.bases[b].runner
    BY <1>7, <1>14
  <2>4. CASE \E i \in Landing(ms) : ms[i].to = b
    <3>1. PICK i \in Landing(ms) : ms[i].to = b
        BY <2>4
    <3>2. moved.bases[b] = [runner |-> ms[i].runner, pitcher |-> ms[i].pitcher]
        BY <1>3, <1>4, <2>2, <3>1, PlacedOn
    <3>3. i \in DOMAIN ms
        BY DEF Landing, Final
    <3> QED
        BY <2>1, <2>3, <3>2, <3>3
  <2>5. CASE b \in On(bases) \ Vacated(ms)
    <3>1. moved.bases[b] = bases[b]
        BY <1>3, <1>4, <2>2, <2>5, PlacedOn
    <3> QED
        BY <1>1, <2>1, <2>3, <2>5, <3>1 DEF RunnersAreKept
  <2>6. b \in {ms[i].to : i \in Landing(ms)} \cup (On(bases) \ Vacated(ms))
    BY <1>3, <1>4, <2>2, <2>3, PlacedOn
  <2> QED
    BY <2>4, <2>5, <2>6
<1>15. RunnersAreKept'
    BY <1>12, <1>13, <1>14 DEF RunnersAreKept
<1> QED
    BY <1>1, <1>3, <1>5, <1>11, <1>15 DEF OrderDecidesNothing

-----------------------------------------------------------------------------
(* The plays of a ledger *)

PlayRow == [runner : HitterNow, from : 0 .. 3, to : 1 .. 4, outcome : {"safe", "out", "scored"},
        kind : OutKind, fourth : BOOLEAN, pitcher : PitcherNow \cup {Nobody}]

\* A row of a runner who is where he is looked for.
LEMMA RowsAre ==
    ASSUME NEW where \in SUBSET (HitterNow \X Base), NEW r \in Rows(where)
    PROVE  /\ r \in PlayRow /\ r.from \in Base /\ <<r.runner, r.from>> \in where
           /\ r.outcome = "safe" => r.to \in Base
           /\ LandsOnBase(r) <=> r.outcome = "safe"
<1>1. PICK at \in where : r \in RowsFrom(at[1], at[2])
    BY DEF Rows
<1>2. at[1] \in HitterNow /\ at[2] \in Base /\ at = <<at[1], at[2]>>
    OBVIOUS
<1> DEFINE row(to, outcome, kind, fourth) ==
        [runner |-> at[1], from |-> at[2], to |-> to, outcome |-> outcome,
         kind |-> kind, fourth |-> fourth, pitcher |-> Nobody]
<1>3. \/ \E to \in at[2] .. 3 : r = row(to, "safe", "none", FALSE)
      \/ r = row(4, "scored", "none", FALSE)
      \/ \E kind \in {"force", "tag", "appeal_time"} : r = row(at[2] + 1, "out", kind, FALSE)
      \/ r = row(at[2] + 1, "out", "appeal_time", TRUE)
    BY <1>1 DEF RowsFrom
<1>4. CASE \E to \in at[2] .. 3 : r = row(to, "safe", "none", FALSE)
  <2>1. PICK to \in at[2] .. 3 : r = row(to, "safe", "none", FALSE)
    BY <1>4
  <2>2. to \in Base /\ to \in 1 .. 4 /\ at[2] \in 0 .. 3 /\ to # 4
    BY <1>2 DEF Base
  <2> QED
    BY <1>2, <2>1, <2>2 DEF PlayRow, OutKind, LandsOnBase
<1>5. CASE r = row(4, "scored", "none", FALSE)
    BY <1>2, <1>5 DEF PlayRow, OutKind, LandsOnBase, Base
<1>6. CASE \E kind \in {"force", "tag", "appeal_time"} : r = row(at[2] + 1, "out", kind, FALSE)
    BY <1>2, <1>6 DEF PlayRow, OutKind, LandsOnBase, Base
<1>7. CASE r = row(at[2] + 1, "out", "appeal_time", TRUE)
    BY <1>2, <1>7 DEF PlayRow, OutKind, LandsOnBase, Base
<1> QED
    BY <1>3, <1>4, <1>5, <1>6, <1>7

\* Where the runners are after a row.
LEMMA AfterIs ==
    ASSUME NEW where \in SUBSET (HitterNow \X Base), NEW r \in Rows(where)
    PROVE  /\ After(where, r) \in SUBSET (HitterNow \X Base)
           /\ \A at \in After(where, r) : at[1] # r.runner => at \in where
           /\ \A at \in After(where, r) : at[1] = r.runner => r.outcome = "safe"
<1>1. /\ r.runner \in HitterNow /\ (r.outcome = "safe" => r.to \in Base)
      /\ LandsOnBase(r) <=> r.outcome = "safe"
    BY RowsAre DEF PlayRow
<1> QED
    BY <1>1 DEF After

\* The rows of a play as the ledger may have them.
RowsOfAPlay(where, rows) ==
    \/ rows = <<>>
    \/ \E r \in Rows(where) : rows = <<r>> \/ \E s \in Rows(After(where, r)) : rows = <<r, s>>

\* They are of runners who are on a base when it is their turn.
LEMMA RowsOfAPlayAre ==
    ASSUME NEW where \in SUBSET (HitterNow \X Base), NEW rows, RowsOfAPlay(where, rows)
    PROVE  /\ rows \in Seq(PlayRow) /\ Len(rows) \in Nat
           /\ \A i \in 1 .. Len(rows) : /\ rows[i].from \in Base
                                        /\ rows[i].outcome = "safe" => rows[i].to \in Base
                                        /\ \E b \in Base : <<rows[i].runner, b>> \in where
           /\ \A i, j \in 1 .. Len(rows) : i < j /\ rows[i].runner = rows[j].runner
                                             => rows[i].outcome = "safe"
<1>1. CASE rows = <<>>
    BY <1>1
<1>2. CASE \E r \in Rows(where) : rows = <<r>>
  <2>1. PICK r \in Rows(where) : rows = <<r>>
    BY <1>2
  <2>2. /\ r \in PlayRow /\ r.from \in Base /\ <<r.runner, r.from>> \in where
        /\ r.outcome = "safe" => r.to \in Base
    BY RowsAre
  <2>3. rows \in Seq(PlayRow) /\ Len(rows) = 1 /\ rows[1] = r
    BY <2>1, <2>2
  <2>4. \A i \in 1 .. Len(rows) : i = 1
    BY <2>3
  <2> QED
    BY <2>2, <2>3, <2>4
<1>3. CASE \E r \in Rows(where) : \E s \in Rows(After(where, r)) : rows = <<r, s>>
  <2>1. PICK r \in Rows(where) : \E s \in Rows(After(where, r)) : rows = <<r, s>>
    BY <1>3
  <2>2. PICK s \in Rows(After(where, r)) : rows = <<r, s>>
    BY <2>1
  <2>3. /\ r \in PlayRow /\ r.from \in Base /\ <<r.runner, r.from>> \in where
        /\ r.outcome = "safe" => r.to \in Base
    BY RowsAre
  <2>4. /\ After(where, r) \in SUBSET (HitterNow \X Base)
        /\ \A at \in After(where, r) : at[1] # r.runner => at \in where
        /\ \A at \in After(where, r) : at[1] = r.runner => r.outcome = "safe"
    BY AfterIs
  <2>5. /\ s \in PlayRow /\ s.from \in Base /\ <<s.runner, s.from>> \in After(where, r)
        /\ s.outcome = "safe" => s.to \in Base
    BY <2>4, RowsAre
  <2>6. rows \in Seq(PlayRow) /\ Len(rows) = 2 /\ rows[1] = r /\ rows[2] = s
    BY <2>2, <2>3, <2>5
  <2>7. \E b \in Base : <<s.runner, b>> \in where
    BY <2>3, <2>4, <2>5
  <2>8. r.runner = s.runner => r.outcome = "safe"
    BY <2>4, <2>5
  <2>9. \A i \in 1 .. Len(rows) : i = 1 \/ i = 2
    BY <2>6
  <2>10. \A i \in 1 .. Len(rows) : /\ rows[i].from \in Base
                                   /\ rows[i].outcome = "safe" => rows[i].to \in Base
                                   /\ \E b \in Base : <<rows[i].runner, b>> \in where
    <3>1. \E b \in Base : <<r.runner, b>> \in where
        BY <2>3
    <3> QED
        BY <2>3, <2>5, <2>6, <2>7, <2>9, <3>1
  <2>11. ASSUME NEW i \in 1 .. Len(rows), NEW j \in 1 .. Len(rows), i < j,
                rows[i].runner = rows[j].runner
         PROVE  rows[i].outcome = "safe"
    <3>1. i = 1 /\ j = 2
        BY <2>9, <2>11
    <3> QED
        BY <2>6, <2>8, <2>11, <3>1
  <2>12. \A i, j \in 1 .. Len(rows) : i < j /\ rows[i].runner = rows[j].runner
                                        => rows[i].outcome = "safe"
    BY <2>11
  <2>13. rows \in Seq(PlayRow) /\ Len(rows) \in Nat
    BY <2>6
  <2> QED
    BY <2>10, <2>12, <2>13
<1> QED
    BY <1>1, <1>2, <1>3 DEF RowsOfAPlay

\* The runners are where they are.
LEMMA RunnersAre ==
    ASSUME Apart(bases)
    PROVE  /\ Runners \in SUBSET (HitterNow \X Base)
           /\ \A at \in Runners : \E b \in On(bases) : at = <<bases[b].runner, b>>
<1>1. ASSUME NEW b \in On(bases) PROVE bases[b].runner \in HitterNow /\ b \in Base
  <2>1. b \in Base /\ bases[b] \in Runner(HitterNow, PitcherNow)
    BY DEF On, Apart, Held
  <2> QED
    BY <2>1 DEF Runner
<1> QED
    BY <1>1 DEF Runners

\* A play of runners alone.
LEMMA RunnersPlay ==
    ASSUME Apart(bases), NEW rows, RowsOfAPlay(Runners, rows)
    PROVE  /\ Play(rows, Nobody) /\ rows \in Seq(PlayRow)
           /\ \A i \in DOMAIN rows : \E b \in On(bases) : rows[i].runner = bases[b].runner
<1>1. Runners \in SUBSET (HitterNow \X Base)
    BY RunnersAre
<1>2. /\ rows \in Seq(PlayRow) /\ Len(rows) \in Nat
      /\ \A i \in 1 .. Len(rows) : /\ rows[i].from \in Base
                                   /\ rows[i].outcome = "safe" => rows[i].to \in Base
                                   /\ \E b \in Base : <<rows[i].runner, b>> \in Runners
      /\ \A i, j \in 1 .. Len(rows) : i < j /\ rows[i].runner = rows[j].runner
                                        => rows[i].outcome = "safe"
    BY <1>1, RowsOfAPlayAre
<1>3. DOMAIN rows = 1 .. Len(rows) /\ rows = [i \in 1 .. Len(rows) |-> rows[i]]
    BY <1>2
<1>4. \A i \in 1 .. Len(rows) : rows[i] \in PlayRow
    BY <1>2
<1>5. \A b \in Base : b \in 0 .. 3 /\ b # 0
    BY DEF Base
<1>6. RowSequence(rows)
    BY <1>2, <1>3, <1>5 DEF RowSequence
<1>7. Play(rows, Nobody)
    BY <1>2, <1>3, <1>4, <1>5, <1>6 DEF Play, PlayRow
<1>8. ASSUME NEW i \in DOMAIN rows PROVE \E b \in On(bases) : rows[i].runner = bases[b].runner
  <2>1. PICK b \in Base : <<rows[i].runner, b>> \in Runners
    BY <1>2, <1>3
  <2>2. PICK c \in On(bases) : <<rows[i].runner, b>> = <<bases[c].runner, c>>
    BY <2>1, RunnersAre
  <2> QED
    BY <2>2
<1> QED
    BY <1>2, <1>7, <1>8

\* Where a batter's row ends; 0 is out.
Ends == 0 .. 4

\* His row comes first.
WithBatter(m, rows) == <<m>> \o rows

\* The row of the batter, and where he may be looked for after it.
LEMMA BatterRow ==
    ASSUME GameInv, plate # Nobody, NEW result \in Results, NEW destination \in Ends,
           NEW pitcher \in PitcherNow,
           NEW bm, bm = BatterMovement(result, destination, pitcher)
    PROVE  /\ bm \in PlayRow /\ bm.runner = plate.batter /\ bm.from = 0 /\ bm.pitcher = pitcher
           /\ bm.outcome = "safe" => bm.to \in Base
           /\ destination \in Base => bm.outcome = "safe"
           /\ plate \in Plate /\ plate.batter \in HitterNow
           /\ \A b \in On(bases) : bases[b].runner # plate.batter
<1>1. plate \in Plate
    BY DEF GameInv, GameTypes
<1>2. plate.batter \in HitterNow
    BY <1>1 DEF Plate
<1> DEFINE to == IF destination = 0 THEN 1 ELSE destination
           outcome == CASE destination = 0 -> "out" [] destination = 4 -> "scored" [] OTHER -> "safe"
           kind == CASE destination # 0 -> "none"
                     [] destination = 0 /\ result = "strikeout" -> "strikeout"
                     [] OTHER -> "batter_runner_before_first"
<1>3. /\ to \in 1 .. 4 /\ outcome \in {"safe", "out", "scored"} /\ kind \in OutKind
      /\ outcome = "safe" => to \in Base
      /\ destination \in Base => outcome = "safe"
    BY DEF Base, OutKind, Ends
<1>4. bm = [runner |-> plate.batter, from |-> 0, to |-> to, outcome |-> outcome, kind |-> kind,
            fourth |-> FALSE, pitcher |-> pitcher]
    BY DEF BatterMovement
<1> HIDE DEF to, outcome, kind
<1>5. /\ bm \in PlayRow /\ bm.runner = plate.batter /\ bm.from = 0 /\ bm.pitcher = pitcher
      /\ bm.outcome = outcome /\ bm.to = to
    BY <1>2, <1>3, <1>4 DEF PlayRow
<1>6. \A b \in On(bases) : bases[b].runner # plate.batter
    BY DEF GameInv, RunnersAreKept
<1> QED
    BY <1>1, <1>2, <1>3, <1>5, <1>6

\* Where a runner is looked for in a play that ends a plate appearance.
Sought(destination) ==
    Runners \cup (IF destination \in Base THEN {<<plate.batter, destination>>} ELSE {})

\* A play that ends a plate appearance.
LEMMA BatterPlays ==
    ASSUME GameInv, plate # Nobody, NEW result \in Results, NEW destination \in Ends,
           NEW pitcher \in PitcherNow, NEW rows, RowsOfAPlay(Sought(destination), rows),
           NEW ms, ms = WithBatter(BatterMovement(result, destination, pitcher), rows)
    PROVE  /\ Play(ms, plate.batter) /\ ms \in Seq(PlayRow) /\ 1 \in DOMAIN ms
           /\ ms[1].runner = plate.batter /\ ms[1].pitcher = pitcher
<1> DEFINE bm == BatterMovement(result, destination, pitcher)
           where == Sought(destination)
<1>1. /\ bm \in PlayRow /\ bm.runner = plate.batter /\ bm.from = 0 /\ bm.pitcher = pitcher
      /\ bm.outcome = "safe" => bm.to \in Base
      /\ destination \in Base => bm.outcome = "safe"
      /\ plate \in Plate /\ plate.batter \in HitterNow
      /\ \A b \in On(bases) : bases[b].runner # plate.batter
    BY BatterRow
<1>2. Apart(bases)
    BY DEF GameInv, Apart, GameTypes, RunnersAreKept
<1>3. /\ where \in SUBSET (HitterNow \X Base)
      /\ \A b \in Base : <<plate.batter, b>> \in where => destination \in Base
  <2>1. /\ Runners \in SUBSET (HitterNow \X Base)
        /\ \A at \in Runners : \E b \in On(bases) : at = <<bases[b].runner, b>>
    BY <1>2, RunnersAre
  <2>2. \A b \in Base : <<plate.batter, b>> \notin Runners
    BY <1>1, <2>1
  <2> QED
    BY <1>1, <2>1, <2>2 DEF Sought
<1> HIDE DEF where, bm
<1>4. /\ rows \in Seq(PlayRow) /\ Len(rows) \in Nat
      /\ \A i \in 1 .. Len(rows) : /\ rows[i].from \in Base
                                   /\ rows[i].outcome = "safe" => rows[i].to \in Base
                                   /\ \E b \in Base : <<rows[i].runner, b>> \in where
      /\ \A i, j \in 1 .. Len(rows) : i < j /\ rows[i].runner = rows[j].runner
                                        => rows[i].outcome = "safe"
    BY <1>3, RowsOfAPlayAre DEF where
<1>5. /\ ms \in Seq(PlayRow) /\ Len(ms) = Len(rows) + 1 /\ ms[1] = bm
      /\ \A i \in 1 .. Len(rows) : ms[i + 1] = rows[i]
  <2>1. ms = <<bm>> \o rows /\ <<bm>> \in Seq(PlayRow) /\ Len(<<bm>>) = 1 /\ <<bm>>[1] = bm
    BY <1>1 DEF bm, WithBatter
  <2> QED
    BY <1>4, <2>1
<1>6. DOMAIN ms = 1 .. Len(ms) /\ ms = [i \in 1 .. Len(ms) |-> ms[i]] /\ Len(ms) \in Nat
    BY <1>4, <1>5
<1>7. ASSUME NEW i \in DOMAIN ms, i # 1 PROVE i - 1 \in 1 .. Len(rows) /\ ms[i] = rows[i - 1]
  <2>1. i - 1 \in 1 .. Len(rows) /\ (i - 1) + 1 = i
    BY <1>4, <1>5, <1>6, <1>7
  <2> QED
    BY <1>5, <2>1
<1>8. \A i \in DOMAIN ms : ms[i] \in PlayRow
    BY <1>5, <1>6
<1>9. RowSequence(ms)
    BY <1>6, <1>8 DEF RowSequence, PlayRow
<1>10. \A i \in DOMAIN ms : ms[i].outcome = "safe" => ms[i].to \in Base
    BY <1>1, <1>4, <1>5, <1>7
<1>11. Nobody # plate.batter
    BY <1>1, Lineups
<1>12. \A i \in DOMAIN ms : ms[i].from = 0 <=> i = 1
  <2>1. 0 \notin Base
    BY DEF Base
  <2> QED
    BY <1>1, <1>4, <1>5, <1>7, <2>1
<1>13. ASSUME NEW i \in DOMAIN ms, NEW j \in DOMAIN ms, i < j, ms[i].runner = ms[j].runner
       PROVE  ms[i].outcome = "safe"
  <2>1. j # 1 /\ i \in Nat /\ j \in Nat
    BY <1>6, <1>13
  <2>2. j - 1 \in 1 .. Len(rows) /\ ms[j] = rows[j - 1]
    BY <1>7, <2>1
  <2>3. CASE i = 1
    <3>1. \E b \in Base : <<plate.batter, b>> \in where
      <4>1. ms[j].runner = plate.batter
          BY <1>1, <1>5, <1>13, <2>3
      <4>2. \E b \in Base : <<rows[j - 1].runner, b>> \in where
          BY <1>4, <2>2
      <4> QED
          BY <2>2, <4>1, <4>2
    <3> QED
        BY <1>1, <1>3, <1>5, <2>3, <3>1
  <2>4. CASE i # 1
    <3>1. i - 1 \in 1 .. Len(rows) /\ ms[i] = rows[i - 1] /\ i - 1 < j - 1
        BY <1>7, <1>13, <2>1, <2>4
    <3> QED
        BY <1>4, <1>13, <2>2, <3>1
  <2> QED
    BY <2>3, <2>4
<1>14. 1 \in DOMAIN ms
    BY <1>4, <1>5, <1>6
<1>15. Play(ms, plate.batter)
    BY <1>1, <1>5, <1>8, <1>9, <1>10, <1>11, <1>12, <1>13, <1>14 DEF Play, PlayRow
<1> QED
    BY <1>1, <1>5, <1>14, <1>15

Charging(ms, p) == [i \in DOMAIN ms |-> [ms[i] EXCEPT !.pitcher = p[i]]]

\* The same rows but for whom they are charged to.
SameRows(ms, cs) ==
    /\ cs \in Seq(PlayRow) /\ DOMAIN cs = DOMAIN ms /\ Len(cs) = Len(ms)
    /\ \A i \in DOMAIN ms :
          /\ cs[i].runner = ms[i].runner /\ cs[i].from = ms[i].from /\ cs[i].to = ms[i].to
          /\ cs[i].outcome = ms[i].outcome /\ cs[i].kind = ms[i].kind

\* A play whose rows are charged anew is the same play.
LEMMA Recharged ==
    ASSUME NEW ms \in Seq(PlayRow), NEW batter, Play(ms, batter), NEW p, \A i \in DOMAIN ms : p[i] \in PitcherNow
    PROVE  /\ Evaluated(Charging(ms, p)) = Charging(ms, p) /\ SameRows(ms, Charging(ms, p))
           /\ Play(Charging(ms, p), batter) /\ Charged(Charging(ms, p))
           /\ \A i \in DOMAIN ms : Charging(ms, p)[i].pitcher = p[i]
<1> DEFINE cs == Charging(ms, p)
<1>0. cs = [i \in DOMAIN ms |-> [ms[i] EXCEPT !.pitcher = p[i]]]
    BY DEF Charging
<1> HIDE DEF cs
<1>1. DOMAIN ms = 1 .. Len(ms) /\ Len(ms) \in Nat
    BY DEF Play, RowSequence
<1>2. ASSUME NEW i \in DOMAIN ms
      PROVE  /\ cs[i].runner = ms[i].runner /\ cs[i].from = ms[i].from /\ cs[i].to = ms[i].to
             /\ cs[i].outcome = ms[i].outcome /\ cs[i].kind = ms[i].kind
             /\ cs[i].pitcher = p[i] /\ cs[i] \in PlayRow
  <2>1. ms[i] \in PlayRow /\ cs[i] = [ms[i] EXCEPT !.pitcher = p[i]] /\ p[i] \in PitcherNow
    BY <1>0, <1>1
  <2> QED
    BY <2>1 DEF PlayRow
<1>3. cs = [i \in 1 .. Len(ms) |-> cs[i]]
    BY <1>0, <1>1
<1>4. \A i \in 1 .. Len(ms) : cs[i] \in PlayRow
    BY <1>1, <1>2
<1>5. cs \in Seq(PlayRow) /\ Len(cs) = Len(ms) /\ DOMAIN cs = 1 .. Len(ms)
    BY <1>1, <1>3, <1>4
<1>6. Evaluated(cs) = cs /\ RowSequence(cs)
  <2>1. \A i \in DOMAIN cs : cs[i].from \in 0 .. 3
    BY <1>4, <1>5 DEF PlayRow
  <2> QED
    BY <1>1, <1>3, <1>5, <2>1, EvaluatedIs DEF RowSequence
<1>7. \A i \in DOMAIN ms : /\ cs[i].runner = ms[i].runner /\ cs[i].from = ms[i].from
                           /\ cs[i].to = ms[i].to /\ cs[i].outcome = ms[i].outcome
    BY <1>2
<1>8. DOMAIN cs = DOMAIN ms
    BY <1>1, <1>5
<1>9. Play(cs, batter)
  <2>1. \A i \in DOMAIN cs : /\ cs[i].runner \in HitterNow
                             /\ cs[i].outcome \in {"safe", "out", "scored"}
                             /\ cs[i].outcome = "safe" => cs[i].to \in Base
                             /\ cs[i].from = 0 <=> (batter # Nobody /\ i = 1)
    BY <1>7, <1>8 DEF Play
  <2>2. \A i, j \in DOMAIN cs : i < j /\ cs[i].runner = cs[j].runner => cs[i].outcome = "safe"
    BY <1>7, <1>8 DEF Play
  <2>3. batter # Nobody => /\ 1 \in DOMAIN cs /\ cs[1].runner = batter
                           /\ \A b \in On(bases) : bases[b].runner # batter
    BY <1>7, <1>8 DEF Play
  <2> QED
    BY <1>6, <2>1, <2>2, <2>3 DEF Play
<1>10. Charged(cs)
    BY <1>2, <1>8 DEF Charged
<1>11. SameRows(ms, cs)
    BY <1>2, <1>5, <1>8 DEF SameRows
<1> QED
    BY <1>2, <1>6, <1>9, <1>10, <1>11 DEF cs

\* The first row of a runner is one.
LEMMA FirstRowIsOne ==
    ASSUME NEW ms, RowSequence(ms), NEW i \in DOMAIN ms, NEW j \in DOMAIN ms,
           ms[i].runner = ms[j].runner, Earlier(ms, i) = {}, Earlier(ms, j) = {}
    PROVE  i = j
<1>1. i \in 1 .. Len(ms) /\ j \in 1 .. Len(ms) /\ Len(ms) \in Nat
    BY DEF RowSequence
<1>2. ASSUME i < j PROVE FALSE
  <2>1. i \in 1 .. j - 1
    BY <1>1, <1>2
  <2> QED
    BY <2>1 DEF Earlier
<1>3. ASSUME j < i PROVE FALSE
  <2>1. j \in 1 .. i - 1
    BY <1>1, <1>3
  <2> QED
    BY <2>1 DEF Earlier
<1> QED
    BY <1>1, <1>2, <1>3

\* The first row of the runner of row i, and whom a runner is charged to whose first
\* row is row j.
FirstOf(ms, i) == CHOOSE j \in DOMAIN ms : ms[j].runner = ms[i].runner /\ Earlier(ms, j) = {}
ChargedFor(leading, ms, pitcher, j) ==
    IF j <= Len(leading) THEN leading[j].pitcher
    ELSE IF bases[ms[j].from] = Nobody THEN pitcher ELSE bases[ms[j].from].pitcher
ChargedByFirst(leading, ms, pitcher, cs) ==
    \A i, j \in DOMAIN ms : ms[i].runner = ms[j].runner /\ Earlier(ms, j) = {}
        => cs[i].pitcher = ChargedFor(leading, ms, pitcher, j)

\* The rows as they are charged.
LEMMA MovementsAre ==
    ASSUME Apart(bases), NEW leading, NEW rows, NEW ms, ms = leading \o rows, ms \in Seq(PlayRow),
           NEW batter, Play(ms, batter), NEW pitcher \in PitcherNow,
           Len(leading) = IF batter = Nobody THEN 0 ELSE 1,
           batter # Nobody => leading[1].pitcher \in PitcherNow
    PROVE  /\ SameRows(ms, Movements(leading, rows, pitcher))
           /\ Play(Movements(leading, rows, pitcher), batter)
           /\ Charged(Movements(leading, rows, pitcher))
           /\ ChargedByFirst(leading, ms, pitcher, Movements(leading, rows, pitcher))
<1> DEFINE p == [i \in DOMAIN ms |-> ChargedFor(leading, ms, pitcher, FirstOf(ms, i))]
<1>1. RowSequence(ms)
    BY DEF Play
<1>2. ASSUME NEW i \in DOMAIN ms
      PROVE  /\ FirstOf(ms, i) \in DOMAIN ms /\ ms[FirstOf(ms, i)].runner = ms[i].runner
             /\ Earlier(ms, FirstOf(ms, i)) = {}
  <2>1. \E j \in DOMAIN ms : ms[j].runner = ms[i].runner /\ Earlier(ms, j) = {}
    BY <1>1, FirstRow DEF Movers
  <2> QED
    BY <2>1 DEF FirstOf
<1>3. Movements(leading, rows, pitcher) = Evaluated(Charging(ms, p))
  <2>1. Movements(leading, rows, pitcher)
          = Evaluated([i \in DOMAIN (leading \o rows) |->
                [(leading \o rows)[i] EXCEPT !.pitcher =
                    ChargedFor(leading, leading \o rows, pitcher, FirstOf(leading \o rows, i))]])
    BY DEF Movements, ChargedFor, FirstOf
  <2>2. Charging(ms, p)
          = [i \in DOMAIN ms |-> [ms[i] EXCEPT !.pitcher =
                                    ChargedFor(leading, ms, pitcher, FirstOf(ms, i))]]
    BY DEF Charging
  <2> HIDE DEF p
  <2> QED
    BY <2>1, <2>2
<1>4. \A i \in DOMAIN ms : p[i] = ChargedFor(leading, ms, pitcher, FirstOf(ms, i))
    OBVIOUS
<1> HIDE DEF p
<1>5. ASSUME NEW j \in DOMAIN ms PROVE ChargedFor(leading, ms, pitcher, j) \in PitcherNow
  <2>1. CASE j <= Len(leading)
    <3>1. batter # Nobody /\ j = 1
      <4>1. j \in 1 .. Len(ms)
          BY <1>1 DEF RowSequence
      <4> QED
          BY <2>1, <4>1
    <3> QED
        BY <2>1, <3>1 DEF ChargedFor
  <2>2. CASE ~ (j <= Len(leading))
    <3>1. ms[j].from \in Base
      <4>1. j \in 1 .. Len(ms) /\ Len(ms) \in Nat
          BY <1>1 DEF RowSequence
      <4>2. ~ (batter # Nobody /\ j = 1)
          BY <2>2
      <4>3. ms[j].from \in 0 .. 3 /\ ms[j].from # 0
          BY <4>2 DEF Play, RowSequence
      <4> QED
          BY <4>3 DEF Base
    <3>2. CASE bases[ms[j].from] = Nobody
        BY <2>2, <3>2 DEF ChargedFor
    <3>3. CASE bases[ms[j].from] # Nobody
      <4>1. bases[ms[j].from] \in Runner(HitterNow, PitcherNow)
          BY <3>1, <3>3 DEF Apart, Held
      <4> QED
          BY <2>2, <3>3, <4>1 DEF ChargedFor, Runner
    <3> QED
        BY <3>2, <3>3
  <2> QED
    BY <2>1, <2>2
<1>6. \A i \in DOMAIN ms : p[i] \in PitcherNow
    BY <1>2, <1>4, <1>5
<1>7. /\ Evaluated(Charging(ms, p)) = Charging(ms, p) /\ SameRows(ms, Charging(ms, p))
      /\ Play(Charging(ms, p), batter) /\ Charged(Charging(ms, p))
      /\ \A i \in DOMAIN ms : Charging(ms, p)[i].pitcher = p[i]
    BY <1>6, Recharged
<1>8. \A i, j \in DOMAIN ms : ms[i].runner = ms[j].runner /\ Earlier(ms, j) = {}
        => Charging(ms, p)[i].pitcher = ChargedFor(leading, ms, pitcher, j)
  <2>1. ASSUME NEW i \in DOMAIN ms, NEW j \in DOMAIN ms, ms[i].runner = ms[j].runner,
               Earlier(ms, j) = {}
        PROVE  FirstOf(ms, i) = j
    <3> DEFINE f == FirstOf(ms, i)
    <3>1. f \in DOMAIN ms /\ ms[f].runner = ms[j].runner /\ Earlier(ms, f) = {}
        BY <1>2, <2>1
    <3> HIDE DEF f
    <3>2. f = j
        BY <1>1, <2>1, <3>1, FirstRowIsOne
    <3> QED
        BY <3>2 DEF f
  <2> QED
    BY <1>4, <1>7, <2>1
<1>9. Movements(leading, rows, pitcher) = Charging(ms, p)
    BY <1>3, <1>7
<1> HIDE DEF p
<1>10. SameRows(ms, Movements(leading, rows, pitcher))
    BY <1>7, <1>9
<1>11. Play(Movements(leading, rows, pitcher), batter) /\ Charged(Movements(leading, rows, pitcher))
    BY <1>7, <1>9
<1>12. ChargedByFirst(leading, ms, pitcher, Movements(leading, rows, pitcher))
  <2>1. ASSUME NEW i \in DOMAIN ms, NEW j \in DOMAIN ms, ms[i].runner = ms[j].runner, Earlier(ms, j) = {}
        PROVE  Movements(leading, rows, pitcher)[i].pitcher = ChargedFor(leading, ms, pitcher, j)
    <3>1. Charging(ms, p)[i].pitcher = ChargedFor(leading, ms, pitcher, j)
        BY <1>8, <2>1
    <3> QED
        BY <1>9, <3>1
  <2> QED
    BY <2>1 DEF ChargedByFirst
<1> QED
    BY <1>10, <1>11, <1>12

\* A charged play whose runners inherit is the same play.
LEMMA Reinherited ==
    ASSUME NEW ms \in Seq(PlayRow), NEW batter, Play(ms, batter), Charged(ms),
           NEW inherits, \A r \in DOMAIN inherits : inherits[r] \in PitcherNow
    PROVE  /\ SameRows(ms, WithPitchers(ms, inherits))
           /\ Play(WithPitchers(ms, inherits), batter) /\ Charged(WithPitchers(ms, inherits))
           /\ \A i \in DOMAIN ms : WithPitchers(ms, inherits)[i].pitcher = PitcherOf(ms[i], inherits)
<1> DEFINE p == [i \in DOMAIN ms |-> PitcherOf(ms[i], inherits)]
<1>1. DOMAIN ms = 1 .. Len(ms) /\ \A i \in DOMAIN ms : ms[i] \in PlayRow /\ ms[i].pitcher \in PitcherNow
  <2>1. DOMAIN ms = 1 .. Len(ms)
    BY DEF Play, RowSequence
  <2> QED
    BY <2>1 DEF Charged
<1>2. \A i \in DOMAIN ms : p[i] \in PitcherNow
    BY <1>1 DEF PitcherOf
<1>3. ASSUME NEW i \in DOMAIN ms PROVE ms[i] # Nobody
  <2>1. ms[i] \in PlayRow /\ ms[i].pitcher \in PitcherNow
    BY <1>1
  <2>2. HitterNow \subseteq Players(Hitters) /\ PitcherNow \subseteq Players(Pitchers)
    BY Lineups DEF HitterNow, PitcherNow
  <2>3. ms[i] \in Movement(Players(Hitters), Players(Pitchers))
    BY <2>1, <2>2 DEF PlayRow, Movement
  <2> QED
    BY <2>3, NobodyAssumption
<1>4. WithPitchers(ms, inherits) = Charging(ms, p)
    BY <1>3 DEF WithPitchers, Charging
<1>5. \A i \in DOMAIN ms : p[i] = PitcherOf(ms[i], inherits)
    OBVIOUS
<1> HIDE DEF p
<1>6. /\ SameRows(ms, Charging(ms, p)) /\ Play(Charging(ms, p), batter) /\ Charged(Charging(ms, p))
      /\ \A i \in DOMAIN ms : Charging(ms, p)[i].pitcher = p[i]
    BY <1>2, Recharged
<1> QED
    BY <1>4, <1>5, <1>6

-----------------------------------------------------------------------------
(* Who inherits *)

\* The last row of a runner.
LEMMA LastRowIs ==
    ASSUME NEW ms, RowSequence(ms), NEW runner
    PROVE  /\ runner \notin Movers(ms) => LastRow(ms, runner) = 0
           /\ runner \in Movers(ms) => /\ LastRow(ms, runner) \in Final(ms) /\ LastRow(ms, runner) # 0
                                       /\ LastRow(ms, runner) \in DOMAIN ms
                                       /\ ms[LastRow(ms, runner)].runner = runner
<1> DEFINE T == {i \in DOMAIN ms : ms[i].runner = runner}
<1>1. DOMAIN ms = 1 .. Len(ms) /\ Len(ms) \in Nat
    BY DEF RowSequence
<1>2. LastRow(ms, runner) = CHOOSE x \in {0} \cup T : \A y \in {0} \cup T : x >= y
    BY DEF LastRow, Max
<1>3. ASSUME runner \notin Movers(ms) PROVE LastRow(ms, runner) = 0
  <2>1. T = {}
    BY <1>3 DEF Movers
  <2> HIDE DEF T
  <2> QED
    BY <1>2, <2>1
<1>4. ASSUME runner \in Movers(ms)
      PROVE  /\ LastRow(ms, runner) \in Final(ms) /\ LastRow(ms, runner) # 0
             /\ LastRow(ms, runner) \in DOMAIN ms /\ ms[LastRow(ms, runner)].runner = runner
  <2>1. T \in SUBSET (1 .. Len(ms)) /\ T # {}
    BY <1>1, <1>4 DEF Movers
  <2>2. PICK i \in T : \A j \in T : j <= i
    <3> HIDE DEF T
    <3> QED
        BY <1>1, <2>1, LastExists
  <2>3. i \in 1 .. Len(ms)
    BY <2>1
  <2>4. \A y \in T : y \in Nat
    BY <2>1
  <2> DEFINE x == LastRow(ms, runner)
  <2>5. x \in {0} \cup T /\ \A y \in {0} \cup T : x >= y
    <3> HIDE DEF T
    <3>1. \A y \in {0} \cup T : i >= y
        BY <1>1, <2>2, <2>3, <2>4
    <3> QED
        BY <1>2, <2>2, <3>1
  <2> HIDE DEF x
  <2>6. x \in T
    BY <2>3, <2>5
  <2>7. ASSUME NEW j \in x + 1 .. Len(ms), ms[j].runner = ms[x].runner PROVE FALSE
    <3>1. x \in 1 .. Len(ms) /\ ms[x].runner = runner
        BY <1>1, <2>6
    <3>2. j \in 1 .. Len(ms) /\ ~ (x >= j)
        BY <1>1, <3>1
    <3>3. j \in T
        BY <1>1, <2>7, <3>1, <3>2
    <3> QED
        BY <2>5, <3>2, <3>3
  <2>8. x \in DOMAIN ms /\ ms[x].runner = runner /\ x # 0
    BY <1>1, <2>6
  <2>9. x \in Final(ms)
    BY <2>7, <2>8 DEF Final
  <2> QED
    BY <2>8, <2>9 DEF x
<1> QED
    BY <1>3, <1>4

\* Runners with their origins, one of each.
OneOfEach(S) ==
    /\ IsFiniteSet(S) /\ \A r \in S : r.origin \in 0 .. 3
    /\ \A q, r \in S : q.origin = r.origin => q = r

Ahead(S, r) == {q \in S : q.origin > r.origin}

\* They are ranked from third base to the batter.
LEMMA Ranked ==
    ASSUME NEW S, OneOfEach(S)
    PROVE  /\ DOMAIN ByOrigin(S) = 1 .. Cardinality(S) /\ Cardinality(S) \in Nat
           /\ \A i \in 1 .. Cardinality(S) :
                 ByOrigin(S)[i] \in S /\ Cardinality(Ahead(S, ByOrigin(S)[i])) = i - 1
           /\ \A r \in S : \E i \in 1 .. Cardinality(S) : ByOrigin(S)[i] = r
           /\ \A i, j \in 1 .. Cardinality(S) :
                 i < j => ByOrigin(S)[i].origin > ByOrigin(S)[j].origin
<1> DEFINE n == Cardinality(S)
           rank(r) == Cardinality(Ahead(S, r))
<1>1. n \in Nat /\ IsFiniteSet(S)
    BY FS_CardinalityType DEF OneOfEach
<1>2. \A r \in S : IsFiniteSet(Ahead(S, r)) /\ rank(r) \in Nat
  <2>1. \A r \in S : Ahead(S, r) \in SUBSET S
    BY DEF Ahead
  <2> QED
    BY <1>1, <2>1, FS_Subset, FS_CardinalityType
<1>3. ASSUME NEW q \in S, NEW r \in S, q.origin < r.origin PROVE rank(r) < rank(q)
  <2>1. q.origin \in 0 .. 3 /\ r.origin \in 0 .. 3 /\ \A t \in S : t.origin \in 0 .. 3
    BY DEF OneOfEach
  <2>2. Ahead(S, r) \subseteq Ahead(S, q)
    BY <1>3, <2>1 DEF Ahead
  <2>3. r \in Ahead(S, q) /\ r \notin Ahead(S, r)
    BY <1>3, <2>1 DEF Ahead
  <2>4. rank(r) <= rank(q) /\ rank(r) # rank(q)
    <3> DEFINE A == Ahead(S, r)
               B == Ahead(S, q)
    <3>1. IsFiniteSet(B) /\ A \in SUBSET B /\ A # B
        BY <1>2, <2>2, <2>3
    <3> HIDE DEF A, B
    <3>2. Cardinality(A) <= Cardinality(B) /\ Cardinality(A) # Cardinality(B)
        BY <3>1, FS_Subset
    <3> QED
        BY <3>2 DEF A, B
  <2> QED
    BY <1>2, <2>4
<1>4. ASSUME NEW q \in S, NEW r \in S, rank(q) = rank(r) PROVE q = r
  <2>1. q.origin \in 0 .. 3 /\ r.origin \in 0 .. 3
    BY DEF OneOfEach
  <2>2. ~ (rank(r) < rank(q)) /\ ~ (rank(q) < rank(r))
    BY <1>2, <1>4
  <2>3. q.origin = r.origin
    BY <1>3, <2>1, <2>2
  <2> QED
    BY <2>3 DEF OneOfEach
<1>5. \A r \in S : rank(r) + 1 \in 1 .. n
  <2>1. ASSUME NEW r \in S PROVE rank(r) <= n /\ rank(r) # n
    <3> DEFINE A == Ahead(S, r)
    <3>1. A \in SUBSET S /\ A # S
      <4>1. r.origin \in 0 .. 3
          BY DEF OneOfEach
      <4> QED
          BY <4>1 DEF Ahead
    <3> HIDE DEF A
    <3>2. Cardinality(A) <= Cardinality(S) /\ Cardinality(S) # Cardinality(A)
        BY <1>1, <3>1, FS_Subset
    <3> QED
        BY <3>2 DEF A
  <2> QED
    BY <1>1, <1>2, <2>1
<1>6. \A i \in 1 .. n : \E r \in S : rank(r) = i - 1
  <2> DEFINE f == [r \in S |-> rank(r) + 1]
  <2>1. f \in Injection(S, 1 .. n)
    <3>1. f \in [S -> 1 .. n]
        BY <1>5
    <3>2. \A q, r \in S : f[q] = f[r] => q = r
        BY <1>2, <1>4
    <3> HIDE DEF f
    <3> QED
        BY <3>1, <3>2 DEF Injection, IsInjective
  <2>2. IsFiniteSet(1 .. n) /\ Cardinality(1 .. n) = n
    BY <1>1, FirstNumbers
  <2>3. f \in Surjection(S, 1 .. n)
    <3> HIDE DEF f
    <3> QED
        BY <2>1, <2>2, FS_Injection
  <2>4. \A i \in 1 .. n : \E r \in S : f[r] = i
    BY <2>3 DEF Surjection
  <2> QED
    BY <1>1, <1>2, <2>4
<1>7. DOMAIN ByOrigin(S) = 1 .. n
    BY DEF ByOrigin
<1>8. ASSUME NEW i \in 1 .. n PROVE ByOrigin(S)[i] \in S /\ rank(ByOrigin(S)[i]) = i - 1
  <2>1. ByOrigin(S)[i] = CHOOSE r \in S : rank(r) = i - 1
    BY DEF ByOrigin, Ahead
  <2> QED
    BY <1>6, <2>1
<1>9. ASSUME NEW r \in S PROVE \E i \in 1 .. n : ByOrigin(S)[i] = r
  <2> DEFINE i == rank(r) + 1
  <2>1. i \in 1 .. n /\ i - 1 = rank(r)
    BY <1>2, <1>5
  <2>2. ByOrigin(S)[i] \in S /\ rank(ByOrigin(S)[i]) = rank(r)
    BY <1>8, <2>1
  <2> QED
    BY <1>4, <2>1, <2>2
<1>10. ASSUME NEW i \in 1 .. n, NEW j \in 1 .. n, i < j
       PROVE  ByOrigin(S)[i].origin > ByOrigin(S)[j].origin
  <2> DEFINE q == ByOrigin(S)[i]
             r == ByOrigin(S)[j]
  <2>1. q \in S /\ r \in S /\ rank(q) = i - 1 /\ rank(r) = j - 1
    BY <1>8
  <2> HIDE DEF q, r
  <2>2. ~ (rank(r) < rank(q)) /\ q # r
    BY <1>1, <1>10, <2>1
  <2>3. q.origin \in 0 .. 3 /\ r.origin \in 0 .. 3 /\ q.origin # r.origin
    BY <2>1, <2>2 DEF OneOfEach
  <2>4. ~ (q.origin < r.origin)
    BY <1>3, <2>1, <2>2
  <2>5. q.origin > r.origin
    BY <2>3, <2>4
  <2> QED
    BY <2>5 DEF q, r
<1> QED
    BY <1>1, <1>7, <1>8, <1>9, <1>10

\* Those who take part in a play that ends a plate appearance.
LEMMA InvolvedAre ==
    ASSUME Apart(bases), NEW ms, NEW batter, Play(ms, batter), Charged(ms), batter # Nobody
    PROVE  /\ OneOfEach(Involved(ms))
           /\ \A r \in Involved(ms) :
                 /\ r.pitcher \in PitcherNow
                 /\ \/ r.origin = 0 /\ r.runner = batter /\ r.pitcher = ms[1].pitcher
                    \/ r.origin \in On(bases) /\ r.runner = bases[r.origin].runner
                         /\ r.pitcher = bases[r.origin].pitcher
           /\ \E r \in Involved(ms) : r.origin = 0
           /\ \A b \in On(bases) : \E r \in Involved(ms) : r.origin = b
           /\ \A q, r \in Involved(ms) : q.runner = r.runner => q = r
<1> DEFINE at(b) == [runner |-> bases[b].runner, origin |-> b, pitcher |-> bases[b].pitcher]
           first == [runner |-> ms[1].runner, origin |-> 0, pitcher |-> ms[1].pitcher]
           A == {at(b) : b \in On(bases)}
<1>1. Involved(ms) = A \cup {first}
    BY DEF Involved
<1>2. ASSUME NEW b \in On(bases) PROVE b \in 1 .. 3 /\ bases[b].pitcher \in PitcherNow
  <2>1. b \in Base /\ bases[b] \in Runner(HitterNow, PitcherNow)
    BY DEF On, Apart, Held
  <2> QED
    BY <2>1 DEF Runner, Base
<1>3. ms[1].runner = batter /\ ms[1].pitcher \in PitcherNow /\ \A b \in On(bases) : bases[b].runner # batter
    BY DEF Play, Charged
<1>4. IsFiniteSet(Involved(ms))
  <2>1. IsFiniteSet(On(bases))
    BY FinitelyMany
  <2>2. IsFiniteSet(A)
    <3> DEFINE f == [b \in On(bases) |-> at(b)]
    <3>1. /\ \A b \in On(bases) : f[b] \in A
          /\ \A b, c \in On(bases) : f[b] = f[c] => b = c
          /\ \A y \in A : \E b \in On(bases) : f[b] = y
      <4>1. \A b \in On(bases) : f[b].origin = b
          OBVIOUS
      <4>2. \A b, c \in On(bases) : f[b] = f[c] => b = c
          BY <4>1
      <4> QED
          BY <4>2
    <3> HIDE DEF f, A
    <3> QED
        BY <2>1, <3>1, MatchedCounted
  <2> HIDE DEF A, first
  <2> QED
    BY <1>1, <2>2, FS_AddElement
<1>5. ASSUME NEW r \in Involved(ms)
      PROVE  \/ r = first /\ r.origin = 0 /\ r.runner = batter /\ r.pitcher = ms[1].pitcher
             \/ /\ r.origin \in On(bases) /\ r = at(r.origin) /\ r.runner = bases[r.origin].runner
                /\ r.pitcher = bases[r.origin].pitcher
  <2>1. CASE r = first
    BY <1>3, <2>1
  <2>2. CASE r \in A
    <3>1. PICK b \in On(bases) : r = at(b)
        BY <2>2
    <3>2. r.origin = b
        BY <3>1
    <3> QED
        BY <3>1, <3>2
  <2> QED
    BY <1>1, <2>1, <2>2
<1>6. first \in Involved(ms) /\ first.origin = 0
    BY <1>1
<1>7. \A b \in On(bases) : at(b) \in Involved(ms) /\ at(b).origin = b
    BY <1>1
<1> HIDE DEF first, at
<1>8. \A r \in Involved(ms) : r.origin \in 0 .. 3 /\ r.pitcher \in PitcherNow
    BY <1>2, <1>3, <1>5
<1>9. \A q, r \in Involved(ms) : q.origin = r.origin => q = r
    BY <1>2, <1>5
<1>10. \A q, r \in Involved(ms) : q.runner = r.runner => q = r
    BY <1>3, <1>5 DEF Apart
<1> QED
    BY <1>4, <1>5, <1>6, <1>7, <1>8, <1>9, <1>10 DEF OneOfEach

\* The parts of Inherited.
Survivors(ms) == {r \in Involved(ms) : ~ OutIn(ms, r.runner)}
RunnersOut(ms, result, pitcher) ==
    {r \in Involved(ms) : /\ r.origin > 0
                          /\ OutIn(ms, r.runner)
                          /\ r.pitcher # pitcher
                          /\ result = "fielder_choice" \/ ms[LastRow(ms, r.runner)].kind = "force"}
Lead(survivors, r) == Cardinality({i \in DOMAIN survivors : survivors[i].origin > r.origin})
Own(ms, r) == IF LastRow(ms, r.runner) = 0 THEN r.pitcher ELSE ms[LastRow(ms, r.runner)].pitcher
OwnSlots(ms, survivors) == [i \in DOMAIN survivors |-> Own(ms, survivors[i])]
MoreSlots(sofar, survivors, out) ==
    IF out = {} THEN sofar
    ELSE LET r == CHOOSE r \in out : TRUE IN SlotsWith(sofar, r, Lead(survivors, r))
RetiredAt(retired, o) == {r \in retired : r.origin = o}
Slots(ms, survivors, retired, slots) ==
    slots = [origin \in 0 .. 3 |->
               IF origin = 0 THEN OwnSlots(ms, survivors)
               ELSE MoreSlots(slots[origin - 1], survivors, RetiredAt(retired, origin))]
InheritsBy(survivors, slots) ==
    [runner \in {survivors[i].runner : i \in DOMAIN survivors} |->
        slots[3][CHOOSE i \in DOMAIN survivors : survivors[i].runner = runner]]

\* The recursion over the bases has a solution.
LEMMA SlotsExist ==
    ASSUME NEW ms, NEW survivors, NEW retired
    PROVE  \E slots : Slots(ms, survivors, retired, slots)
<1> DEFINE more(sofar, o) == MoreSlots(sofar, survivors, RetiredAt(retired, o))
           s0 == OwnSlots(ms, survivors)
           s1 == more(s0, 1)
           s2 == more(s1, 2)
           s3 == more(s2, 3)
           slots == [o \in 0 .. 3 |-> CASE o = 0 -> s0 [] o = 1 -> s1 [] o = 2 -> s2 [] o = 3 -> s3]
<1>1. slots[0] = s0 /\ slots[1] = s1 /\ slots[2] = s2 /\ slots[3] = s3
  <2> HIDE DEF s0, s1, s2, s3
  <2> QED
    OBVIOUS
<1>2. slots = [o \in 0 .. 3 |-> slots[o]]
    OBVIOUS
<1> HIDE DEF slots
<1>3. slots[1] = more(slots[0], 1) /\ slots[2] = more(slots[1], 2) /\ slots[3] = more(slots[2], 3)
    BY <1>1
<1>4. ASSUME NEW o \in 0 .. 3 PROVE slots[o] = IF o = 0 THEN s0 ELSE more(slots[o - 1], o)
  <2>1. o = 0 \/ o = 1 \/ o = 2 \/ o = 3
    OBVIOUS
  <2> HIDE DEF more, s0
  <2>2. CASE o = 0
    BY <1>1, <2>2
  <2>3. CASE o = 1
    BY <1>3, <2>3
  <2>4. CASE o = 2
    BY <1>3, <2>4
  <2>5. CASE o = 3
    BY <1>3, <2>5
  <2> QED
    BY <2>1, <2>2, <2>3, <2>4, <2>5
<1>5. slots = [o \in 0 .. 3 |-> IF o = 0 THEN s0 ELSE more(slots[o - 1], o)]
    BY <1>2, <1>4
<1> QED
    BY <1>5 DEF Slots

\* Who inherits, by the slots.
LEMMA InheritedIs ==
    ASSUME NEW ms, NEW result, NEW pitcher
    PROVE  \E slots :
              /\ Slots(ms, ByOrigin(Survivors(ms)), RunnersOut(ms, result, pitcher), slots)
              /\ Inherited(ms, result, pitcher) = InheritsBy(ByOrigin(Survivors(ms)), slots)
<1> DEFINE survivors == ByOrigin(Survivors(ms))
           retired == RunnersOut(ms, result, pitcher)
           slots == CHOOSE slots : Slots(ms, survivors, retired, slots)
<1>1. Slots(ms, survivors, retired, slots)
    BY SlotsExist
<1>2. Inherited(ms, result, pitcher) = InheritsBy(survivors, slots)
    BY DEF Inherited, Slots, Survivors, RunnersOut, Lead, Own, OwnSlots, MoreSlots, RetiredAt, InheritsBy
<1> HIDE DEF slots
<1> QED
    BY <1>1, <1>2

\* The slots, base by base.
LEMMA SlotsUnfold ==
    ASSUME NEW ms, NEW survivors, NEW retired, NEW slots, Slots(ms, survivors, retired, slots)
    PROVE  /\ slots[0] = OwnSlots(ms, survivors)
           /\ slots[1] = MoreSlots(slots[0], survivors, RetiredAt(retired, 1))
           /\ slots[2] = MoreSlots(slots[1], survivors, RetiredAt(retired, 2))
           /\ slots[3] = MoreSlots(slots[2], survivors, RetiredAt(retired, 3))
<1>1. \A o \in 0 .. 3 : slots[o] =
           IF o = 0 THEN OwnSlots(ms, survivors)
           ELSE MoreSlots(slots[o - 1], survivors, RetiredAt(retired, o))
    BY DEF Slots
<1>2. 0 \in 0 .. 3 /\ 1 \in 0 .. 3 /\ 2 \in 0 .. 3 /\ 3 \in 0 .. 3
        /\ 1 - 1 = 0 /\ 2 - 1 = 1 /\ 3 - 1 = 2 /\ 1 # 0 /\ 2 # 0 /\ 3 # 0
    OBVIOUS
<1>3. slots[0] = OwnSlots(ms, survivors)
    BY <1>1, <1>2
<1>4. \A o \in 1 .. 3 : slots[o] = MoreSlots(slots[o - 1], survivors, RetiredAt(retired, o))
    BY <1>1
<1>5. /\ slots[1] = MoreSlots(slots[1 - 1], survivors, RetiredAt(retired, 1))
        /\ slots[2] = MoreSlots(slots[2 - 1], survivors, RetiredAt(retired, 2))
        /\ slots[3] = MoreSlots(slots[3 - 1], survivors, RetiredAt(retired, 3))
    BY <1>4
<1> QED
    BY <1>2, <1>3, <1>5

\* The slots are of pitchers, and no fewer than the survivors.
LEMMA SlotsAre ==
    ASSUME NEW ms, NEW S, OneOfEach(S), NEW retired, NEW slots,
           Slots(ms, ByOrigin(S), retired, slots),
           \A r \in S : Own(ms, r) \in PitcherNow, \A r \in retired : r.pitcher \in PitcherNow
    PROVE  \A o \in 0 .. 3 : slots[o] \in Seq(PitcherNow) /\ Len(slots[o]) >= Cardinality(S)
<1> DEFINE n == Cardinality(S)
           survivors == ByOrigin(S)
           kept(s) == s \in Seq(PitcherNow) /\ Len(s) >= n
<1>1. /\ DOMAIN survivors = 1 .. n /\ n \in Nat
      /\ \A i \in 1 .. n : survivors[i] \in S
    BY Ranked
<1>2. ASSUME NEW r PROVE Lead(survivors, r) \in 0 .. n
  <2> DEFINE A == {i \in 1 .. n : survivors[i].origin > r.origin}
  <2>1. IsFiniteSet(1 .. n) /\ Cardinality(1 .. n) = n /\ A \in SUBSET (1 .. n)
    BY <1>1, FirstNumbers
  <2>2. Lead(survivors, r) = Cardinality(A)
    BY <1>1 DEF Lead
  <2> HIDE DEF A
  <2>3. Cardinality(A) \in Nat /\ Cardinality(A) <= n
    BY <2>1, FS_Subset, FS_CardinalityType
  <2> QED
    BY <1>1, <2>2, <2>3
<1>3. kept(OwnSlots(ms, survivors))
  <2>1. OwnSlots(ms, survivors) = [i \in 1 .. n |-> Own(ms, survivors[i])]
    BY <1>1 DEF OwnSlots
  <2>2. \A i \in 1 .. n : Own(ms, survivors[i]) \in PitcherNow
    BY <1>1
  <2>3. OwnSlots(ms, survivors) \in Seq(PitcherNow) /\ Len(OwnSlots(ms, survivors)) = n
    BY <1>1, <2>1, <2>2
  <2> QED
    BY <1>1, <2>3
<1>4. ASSUME NEW s, kept(s), NEW o PROVE kept(MoreSlots(s, survivors, RetiredAt(retired, o)))
  <2> DEFINE out == RetiredAt(retired, o)
             r == CHOOSE r \in out : TRUE
             k == Lead(survivors, r)
  <2>1. CASE out = {}
    BY <1>4, <2>1 DEF MoreSlots
  <2>2. CASE out # {}
    <3>1. r \in retired
        BY <2>2 DEF RetiredAt
    <3>2. MoreSlots(s, survivors, out) = SlotsWith(s, r, k)
        BY <2>2 DEF MoreSlots
    <3> HIDE DEF r
    <3>3. r.pitcher \in PitcherNow /\ k \in 0 .. n
        BY <1>2, <3>1
    <3>4. SlotsWith(s, r, k) = SubSeq(s, 1, k) \o <<r.pitcher>> \o SubSeq(s, k + 1, Len(s))
        BY DEF SlotsWith
    <3> HIDE DEF k, out
    <3>5. s \in Seq(PitcherNow) /\ Len(s) \in Nat /\ Len(s) >= n /\ k \in 0 .. Len(s)
        BY <1>1, <1>4, <3>3
    <3>6. /\ SubSeq(s, 1, k) \in Seq(PitcherNow) /\ Len(SubSeq(s, 1, k)) = k
          /\ SubSeq(s, k + 1, Len(s)) \in Seq(PitcherNow)
          /\ Len(SubSeq(s, k + 1, Len(s))) = Len(s) - k
        BY <3>5, SubSeqProperties
    <3>7. <<r.pitcher>> \in Seq(PitcherNow) /\ Len(<<r.pitcher>>) = 1
        BY <3>3
    <3>8. SlotsWith(s, r, k) \in Seq(PitcherNow) /\ Len(SlotsWith(s, r, k)) = Len(s) + 1
      <4> DEFINE a == SubSeq(s, 1, k)
                 b == <<r.pitcher>>
                 c == SubSeq(s, k + 1, Len(s))
      <4>1. /\ a \in Seq(PitcherNow) /\ b \in Seq(PitcherNow) /\ c \in Seq(PitcherNow)
            /\ Len(a) = k /\ Len(b) = 1 /\ Len(c) = Len(s) - k
          BY <3>6, <3>7
      <4>2. SlotsWith(s, r, k) = a \o b \o c
          BY <3>4
      <4> HIDE DEF a, b, c
      <4>3. /\ a \o b \in Seq(PitcherNow) /\ Len(a \o b) = Len(a) + Len(b)
            /\ b \o c \in Seq(PitcherNow) /\ Len(b \o c) = Len(b) + Len(c)
          BY <4>1, ConcatProperties
      <4>4. a \o b \o c \in Seq(PitcherNow) /\ Len(a \o b \o c) = Len(a) + Len(b) + Len(c)
        <5>1. Len(a) \in Nat /\ Len(b) \in Nat /\ Len(c) \in Nat
            BY <4>1, LenProperties
        <5> QED
            BY <4>1, <4>3, <5>1, ConcatProperties
      <4> QED
          BY <3>5, <4>1, <4>2, <4>4
    <3> QED
        BY <1>1, <3>2, <3>5, <3>8 DEF out
  <2> QED
    BY <2>1, <2>2
<1> HIDE DEF kept
<1>5. /\ slots[0] = OwnSlots(ms, survivors)
      /\ slots[1] = MoreSlots(slots[0], survivors, RetiredAt(retired, 1))
      /\ slots[2] = MoreSlots(slots[1], survivors, RetiredAt(retired, 2))
      /\ slots[3] = MoreSlots(slots[2], survivors, RetiredAt(retired, 3))
    BY SlotsUnfold
<1>6. kept(slots[0]) /\ kept(slots[1]) /\ kept(slots[2]) /\ kept(slots[3])
    BY <1>3, <1>4, <1>5
<1>7. \A o \in 0 .. 3 : o = 0 \/ o = 1 \/ o = 2 \/ o = 3
    OBVIOUS
<1>8. \A o \in 0 .. 3 : kept(slots[o])
    BY <1>6, <1>7
<1> QED
    BY <1>8 DEF kept

\* Who inherits takes over a pitcher of the side in the field.
LEMMA InheritedAre ==
    ASSUME Apart(bases), NEW ms, NEW batter, Play(ms, batter), Charged(ms), batter # Nobody,
           NEW result, NEW pitcher
    PROVE  \A r \in DOMAIN Inherited(ms, result, pitcher) :
              Inherited(ms, result, pitcher)[r] \in PitcherNow
<1> DEFINE S == Survivors(ms)
           survivors == ByOrigin(S)
           retired == RunnersOut(ms, result, pitcher)
           inherits == Inherited(ms, result, pitcher)
<1>1. OneOfEach(Involved(ms)) /\ \A r \in Involved(ms) : r.pitcher \in PitcherNow
    BY InvolvedAre
<1>2. S \subseteq Involved(ms) /\ retired \subseteq Involved(ms)
    BY DEF Survivors, RunnersOut
<1>3. OneOfEach(S)
    BY <1>1, <1>2, FS_Subset DEF OneOfEach
<1>4. \A r \in S : Own(ms, r) \in PitcherNow
  <2>1. ASSUME NEW r \in S PROVE Own(ms, r) \in PitcherNow
    <3>1. LastRow(ms, r.runner) = 0 \/ LastRow(ms, r.runner) \in DOMAIN ms
        BY LastRowIs DEF Play
    <3> QED
        BY <1>1, <1>2, <3>1 DEF Own, Charged
  <2> QED
    BY <2>1
<1>5. \A r \in retired : r.pitcher \in PitcherNow
    BY <1>1, <1>2
<1>6. PICK slots :
        /\ Slots(ms, survivors, retired, slots)
        /\ inherits = InheritsBy(survivors, slots)
    BY InheritedIs
<1> HIDE DEF S, retired, inherits
<1>7. slots[3] \in Seq(PitcherNow) /\ Len(slots[3]) >= Cardinality(S)
  <2>1. 3 \in 0 .. 3
    OBVIOUS
  <2> QED
    BY <1>3, <1>4, <1>5, <1>6, <2>1, SlotsAre
<1>8. DOMAIN survivors = 1 .. Cardinality(S) /\ Cardinality(S) \in Nat
    BY <1>3, Ranked
<1> HIDE DEF survivors
<1>9. ASSUME NEW r \in DOMAIN inherits PROVE inherits[r] \in PitcherNow
  <2> DEFINE i == CHOOSE i \in DOMAIN survivors : survivors[i].runner = r
  <2>1. r \in {survivors[i_1].runner : i_1 \in DOMAIN survivors} /\ inherits[r] = slots[3][i]
    BY <1>6, <1>9 DEF InheritsBy
  <2>2. i \in DOMAIN survivors
    BY <2>1
  <2> HIDE DEF i
  <2>3. i \in 1 .. Len(slots[3])
    BY <1>7, <1>8, <2>2
  <2> QED
    BY <1>7, <2>1, <2>3
<1> QED
    BY <1>9 DEF inherits

-----------------------------------------------------------------------------
(* Every step of a ledger keeps the invariant *)

\* Nothing is charged.
LEMMA LinesKept ==
    ASSUME RunsAreCharged, UNCHANGED linesVars
    PROVE  RunsAreCharged'
<1>1. score' = score /\ runsOf' = runsOf /\ chargedTo' = chargedTo
    BY DEF linesVars
<1>2. ASSUME NEW s \in Side, NEW t \in Side \ {s}
      PROVE  /\ score'[s] = SumOf(runsOf', Hitters[s])
             /\ score'[s] = SumOf(chargedTo', Pitchers[t])
  <2>1. /\ score[s] = SumOf(runsOf, Hitters[s])
        /\ score[s] = SumOf(chargedTo, Pitchers[t])
    BY DEF RunsAreCharged, SumOf
  <2> QED
    BY <1>1, <2>1
<1> QED
    BY <1>2 DEF RunsAreCharged, SumOf, MapThenSumSet, MapThenFoldSet

\* Who comes next is free.
LEMMA NextIsFree ==
    ASSUME Free # {}
    PROVE  /\ NextHitter \in HitterNow /\ \A b \in On(bases) : bases[b].runner # NextHitter
           /\ plate # Nobody => plate.batter # NextHitter
<1>1. Free \in SUBSET Nat
    BY Lineups DEF Free
<1>2. \E h \in Free : \A g \in Free : h <= g
    BY <1>1, FirstExists
<1>3. NextHitter \in Free
    BY <1>2 DEF NextHitter
<1> QED
    BY <1>3 DEF Free, HitterNow

\* The sides do not change.
LEMMA SidesStay ==
    ASSUME UNCHANGED half
    PROVE  Batting' = Batting /\ Fielding' = Fielding /\ HitterNow' = HitterNow
           /\ PitcherNow' = PitcherNow /\ Held' = Held /\ Plate' = Plate
<1>1. Batting' = Batting /\ Fielding' = Fielding
    BY DEF Batting, Fielding
<1>2. HitterNow' = HitterNow /\ PitcherNow' = PitcherNow
    BY <1>1 DEF HitterNow, PitcherNow
<1> QED
    BY <1>1, <1>2 DEF Held, Plate

\* A half starts: the bases are empty.
LEMMA HalfStartKeeps ==
    ASSUME GameInv, HalfStart
    PROVE  GameInv'
<1>1. /\ half' = half + 1 /\ balls' = 0 /\ strikes' = 0 /\ outs' = 0 /\ tally' = 0
      /\ bases' = NoBases /\ plate' = Nobody
      /\ UNCHANGED <<mound, score, runsOf, chargedTo, ordered>> /\ UNCHANGED linesVars
      /\ ended' = ended \/ ended' = Partial
    BY DEF HalfStart, linesVars
<1>2. GameTypes'
  <2>1. bases' \in [Base -> Held']
    BY <1>1 DEF NoBases, Held
  <2> QED
    BY <1>1, <2>1 DEF GameInv, GameTypes
<1>3. SecondStrike'
    BY <1>1 DEF SecondStrike
<1>4. RunnersAreKept'
    BY <1>1, NobodyOn DEF RunnersAreKept
<1>5. RunsAreCharged'
    BY <1>1, LinesKept DEF GameInv
<1>6. StrikeoutsAreOwed'
  <2>1. Partial.result = "partial"
    BY DEF Partial
  <2> QED
    BY <1>1, <2>1 DEF GameInv, StrikeoutsAreOwed
<1>7. OrderDecidesNothing'
    BY <1>1 DEF GameInv, OrderDecidesNothing
<1> QED
    BY <1>2, <1>3, <1>4, <1>5, <1>6, <1>7 DEF GameInv

\* A batter comes up who is on no base.
LEMMA BatterStartKeeps ==
    ASSUME GameInv, NEW pitcher \in Pitchers[Fielding], BatterStart(pitcher)
    PROVE  GameInv'
<1>1. /\ Free # {} /\ balls' = 0 /\ strikes' = 0
      /\ mound' = [mound EXCEPT ![Fielding] = pitcher]
      /\ plate' = [batter |-> NextHitter, pitcher |-> pitcher, walkTo |-> Nobody,
                   strikeoutTo |-> Nobody, second |-> Nobody]
      /\ UNCHANGED <<half, outs, bases, score, runsOf, chargedTo, ended, tally, ordered>>
      /\ UNCHANGED half /\ UNCHANGED linesVars
    BY DEF BatterStart, linesVars
<1>2. NextHitter \in HitterNow /\ \A b \in On(bases) : bases[b].runner # NextHitter
    BY <1>1, NextIsFree
<1>3. Held' = Held /\ Plate' = Plate /\ HitterNow' = HitterNow
    BY <1>1, SidesStay
<1>4. plate' \in Plate /\ plate'.batter = NextHitter /\ plate'.second = Nobody /\ plate'.strikeoutTo = Nobody
    BY <1>1, <1>2 DEF Plate, PitcherNow
<1>5. GameTypes'
  <2>1. mound' = [s \in Side |-> mound'[s]] /\ \A s \in Side : mound'[s] \in Pitchers[s] \cup {Nobody}
    <3>1. mound = [s \in Side |-> mound[s]] /\ \A s \in Side : mound[s] \in Pitchers[s] \cup {Nobody}
        BY DEF GameInv, GameTypes
    <3> QED
        BY <1>1, <3>1
  <2> QED
    BY <1>1, <1>3, <1>4, <2>1 DEF GameInv, GameTypes
<1>6. SecondStrike'
    BY <1>1, <1>4 DEF SecondStrike
<1>7. RunnersAreKept'
    BY <1>1, <1>2, <1>4 DEF GameInv, RunnersAreKept
<1>8. RunsAreCharged'
    BY <1>1, LinesKept DEF GameInv
<1> QED
    BY <1>1, <1>5, <1>6, <1>7, <1>8 DEF GameInv, StrikeoutsAreOwed, OrderDecidesNothing

\* The second strike is of who is at bat.
LEMMA PitchKeeps ==
    ASSUME GameInv, NEW call \in {"ball", "strike", "foul"}, Pitch(call)
    PROVE  GameInv'
<1>1. /\ plate # Nobody /\ strikes < 3 /\ balls' = Count(call)[1] /\ strikes' = Count(call)[2]
      /\ plate' = IF strikes' = 2 /\ plate.second = Nobody
                  THEN [plate EXCEPT !.second = plate.batter] ELSE plate
      /\ UNCHANGED <<half, outs, bases, mound, score, runsOf, chargedTo, ended, tally, ordered>>
      /\ UNCHANGED half /\ UNCHANGED linesVars
    BY DEF Pitch, linesVars
<1>2. plate \in Plate /\ balls \in Nat /\ strikes \in Nat
    BY <1>1 DEF GameInv, GameTypes
<1>3. Count(call) \in {<<balls + 1, strikes>>, <<balls, strikes + 1>>,
                       <<balls, IF strikes < 2 THEN strikes + 1 ELSE strikes>>}
    BY DEF Count
<1>4. balls' \in Nat /\ strikes' \in Nat /\ strikes' \in {strikes, strikes + 1}
    BY <1>1, <1>2, <1>3
<1>5. Held' = Held /\ Plate' = Plate /\ HitterNow' = HitterNow
    BY <1>1, SidesStay
<1>6. /\ plate' \in Plate /\ plate'.batter = plate.batter /\ plate'.strikeoutTo = plate.strikeoutTo
      /\ plate'.second = IF strikes' = 2 /\ plate.second = Nobody THEN plate.batter ELSE plate.second
      /\ plate.batter \in HitterNow
    BY <1>1, <1>2 DEF Plate
<1>7. GameTypes'
    BY <1>1, <1>4, <1>5, <1>6 DEF GameInv, GameTypes
<1>8. SecondStrike'
  <2>1. Nobody \notin HitterNow
    BY Lineups
  <2>2. CASE strikes < 2
    <3>1. plate.second = Nobody /\ plate.strikeoutTo \in {Nobody, plate.batter}
        BY <1>1, <2>2 DEF GameInv, SecondStrike
    <3>2. strikes' < 2 \/ strikes' = 2
        BY <1>2, <1>4, <2>2
    <3>3. CASE strikes' < 2
        BY <1>4, <1>6, <3>1, <3>3 DEF SecondStrike
    <3>4. CASE strikes' = 2
        BY <1>5, <1>6, <3>1, <3>4 DEF SecondStrike
    <3> QED
        BY <3>2, <3>3, <3>4
  <2>3. CASE ~ (strikes < 2)
    <3>1. /\ plate.second \in HitterNow
          /\ plate.second = IF plate.strikeoutTo = Nobody THEN plate.batter ELSE plate.strikeoutTo
        BY <1>1, <2>3 DEF GameInv, SecondStrike
    <3>2. ~ (strikes' < 2)
        BY <1>2, <1>4, <2>3
    <3>3. plate'.second = plate.second
        BY <1>6, <2>1, <3>1
    <3> QED
        BY <1>5, <1>6, <3>1, <3>2, <3>3 DEF SecondStrike
  <2> QED
    BY <2>2, <2>3
<1>9. RunnersAreKept'
    BY <1>1, <1>6 DEF GameInv, RunnersAreKept
<1>10. RunsAreCharged'
    BY <1>1, LinesKept DEF GameInv
<1> QED
    BY <1>1, <1>7, <1>8, <1>9, <1>10 DEF GameInv, StrikeoutsAreOwed, OrderDecidesNothing

\* A new pitcher: the runners keep theirs.
LEMMA ChangePitcherKeeps ==
    ASSUME GameInv, NEW incoming \in Pitchers[Fielding], ChangePitcher(incoming)
    PROVE  GameInv'
<1>1. /\ mound' = [mound EXCEPT ![Fielding] = incoming]
      /\ plate' = IF plate = Nobody THEN Nobody
                  ELSE [plate EXCEPT !.pitcher = incoming,
                                     !.walkTo = IF WalkIsTransferred THEN plate.pitcher ELSE incoming]
      /\ UNCHANGED <<half, balls, strikes, outs, bases, score, runsOf, chargedTo, ended, tally, ordered>>
      /\ UNCHANGED half /\ UNCHANGED linesVars
    BY DEF ChangePitcher, linesVars
<1>2. Held' = Held /\ Plate' = Plate /\ HitterNow' = HitterNow
    BY <1>1, SidesStay
<1>3. ASSUME plate # Nobody
      PROVE  /\ plate' \in Plate /\ plate'.batter = plate.batter /\ plate'.strikeoutTo = plate.strikeoutTo
             /\ plate'.second = plate.second
  <2>1. plate \in Plate /\ incoming \in PitcherNow
    BY <1>3 DEF GameInv, GameTypes, PitcherNow
  <2> DEFINE to == IF WalkIsTransferred THEN plate.pitcher ELSE incoming
  <2>2. to \in PitcherNow
    BY <2>1 DEF Plate
  <2>3. plate' = [plate EXCEPT !.pitcher = incoming, !.walkTo = to]
    BY <1>1, <1>3
  <2> HIDE DEF to
  <2> QED
    BY <2>1, <2>2, <2>3 DEF Plate
<1>4. GameTypes'
  <2>1. mound' = [s \in Side |-> mound'[s]] /\ \A s \in Side : mound'[s] \in Pitchers[s] \cup {Nobody}
    <3>1. mound = [s \in Side |-> mound[s]] /\ \A s \in Side : mound[s] \in Pitchers[s] \cup {Nobody}
        BY DEF GameInv, GameTypes
    <3> QED
        BY <1>1, <3>1
  <2>2. plate' \in {Nobody} \cup Plate
    BY <1>1, <1>3
  <2> QED
    BY <1>1, <1>2, <2>1, <2>2 DEF GameInv, GameTypes
<1>5. SecondStrike'
    BY <1>1, <1>2, <1>3 DEF GameInv, SecondStrike
<1>6. RunnersAreKept'
    BY <1>1, <1>3 DEF GameInv, RunnersAreKept
<1>7. RunsAreCharged'
    BY <1>1, LinesKept DEF GameInv
<1> QED
    BY <1>1, <1>4, <1>5, <1>6, <1>7 DEF GameInv, StrikeoutsAreOwed, OrderDecidesNothing

\* A new batter: who had two strikes is still owed the strikeout.
LEMMA ChangeBatterKeeps ==
    ASSUME GameInv, ChangeBatter
    PROVE  GameInv'
<1>1. /\ plate # Nobody /\ Free # {}
      /\ plate' = [plate EXCEPT !.batter = NextHitter, !.strikeoutTo = StrikeoutTo(NextHitter)]
      /\ UNCHANGED <<half, balls, strikes, outs, bases, mound, score, runsOf, chargedTo, ended,
                     tally, ordered>>
      /\ UNCHANGED half /\ UNCHANGED linesVars
    BY DEF ChangeBatter, linesVars
<1>2. Held' = Held /\ Plate' = Plate /\ HitterNow' = HitterNow
    BY <1>1, SidesStay
<1>3. plate \in Plate /\ strikes \in Nat
    BY <1>1 DEF GameInv, GameTypes
<1>4. NextHitter \in HitterNow /\ \A b \in On(bases) : bases[b].runner # NextHitter
    BY <1>1, NextIsFree
<1>5. /\ strikes < 2 => StrikeoutTo(NextHitter) = NextHitter
      /\ ~ (strikes < 2) => StrikeoutTo(NextHitter)
                              = IF plate.strikeoutTo = Nobody THEN plate.batter ELSE plate.strikeoutTo
    BY <1>3 DEF StrikeoutTo
<1>6. StrikeoutTo(NextHitter) \in HitterNow
    BY <1>3, <1>4, <1>5 DEF Plate
<1>7. /\ plate' \in Plate /\ plate'.batter = NextHitter /\ plate'.second = plate.second
      /\ plate'.strikeoutTo = StrikeoutTo(NextHitter)
    BY <1>1, <1>3, <1>4, <1>6 DEF Plate
<1>8. GameTypes'
    BY <1>1, <1>2, <1>7 DEF GameInv, GameTypes
<1>9. SecondStrike'
  <2>1. StrikeoutTo(NextHitter) # Nobody
    BY <1>6, Lineups
  <2>2. CASE strikes < 2
    BY <1>1, <1>5, <1>7, <2>2 DEF GameInv, SecondStrike
  <2>3. CASE ~ (strikes < 2)
    BY <1>1, <1>2, <1>5, <1>7, <2>1, <2>3 DEF GameInv, SecondStrike
  <2> QED
    BY <2>2, <2>3
<1>10. RunnersAreKept'
    BY <1>1, <1>4, <1>7 DEF GameInv, RunnersAreKept
<1>11. RunsAreCharged'
    BY <1>1, LinesKept DEF GameInv
<1> QED
    BY <1>1, <1>8, <1>9, <1>10, <1>11 DEF GameInv, StrikeoutsAreOwed, OrderDecidesNothing

\* A new runner takes the base and the pitcher of the one before.
LEMMA ChangeRunnerKeeps ==
    ASSUME GameInv, NEW b \in Base, ChangeRunner(b)
    PROVE  GameInv'
<1>1. /\ b \in On(bases) /\ Free # {} /\ bases' = [bases EXCEPT ![b].runner = NextHitter]
      /\ UNCHANGED <<half, balls, strikes, outs, plate, mound, score, runsOf, chargedTo, ended,
                     tally, ordered>>
      /\ UNCHANGED half /\ UNCHANGED linesVars
    BY DEF ChangeRunner, linesVars
<1>2. Held' = Held /\ Plate' = Plate /\ HitterNow' = HitterNow
    BY <1>1, SidesStay
<1>3. /\ NextHitter \in HitterNow /\ \A c \in On(bases) : bases[c].runner # NextHitter
      /\ plate # Nobody => plate.batter # NextHitter
    BY <1>1, NextIsFree
<1>4. bases \in [Base -> Held]
    BY DEF GameInv, GameTypes
<1>5. bases'[b] \in Runner(HitterNow, PitcherNow) /\ bases'[b].runner = NextHitter /\ bases'[b] # Nobody
  <2>1. bases[b] \in Runner(HitterNow, PitcherNow)
    BY <1>1, <1>4 DEF On, Held
  <2>2. bases'[b] = [bases[b] EXCEPT !.runner = NextHitter]
    BY <1>1, <1>4
  <2>3. bases'[b] \in Runner(HitterNow, PitcherNow) /\ bases'[b].runner = NextHitter
    BY <1>3, <2>1, <2>2 DEF Runner
  <2> QED
    BY <2>3, Lineups
<1>6. \A c \in Base : c # b => bases'[c] = bases[c]
    BY <1>1, <1>4
<1>7. bases' = [c \in Base |-> bases'[c]]
    BY <1>1, <1>4
<1>8. On(bases') = On(bases)
    BY <1>1, <1>5, <1>6 DEF On
<1>9. GameTypes'
  <2>1. \A c \in Base : bases'[c] \in Held
    BY <1>4, <1>5, <1>6 DEF Held
  <2>2. bases' \in [Base -> Held]
    BY <1>7, <2>1
  <2> QED
    BY <1>1, <1>2, <2>2 DEF GameInv, GameTypes
<1>10. \A c \in On(bases) : bases'[c].runner = IF c = b THEN NextHitter ELSE bases[c].runner
    BY <1>5, <1>6 DEF On
<1>11. RunnersAreKept'
  <2>1. outs' < 3 => Cardinality(On(bases')) = tally'
    BY <1>1, <1>8 DEF GameInv, RunnersAreKept
  <2>2. \A c, d \in On(bases') : c # d => bases'[c].runner # bases'[d].runner
    BY <1>3, <1>8, <1>10 DEF GameInv, RunnersAreKept
  <2>3. plate' # Nobody => \A c \in On(bases') : bases'[c].runner # plate'.batter
    BY <1>1, <1>3, <1>8, <1>10 DEF GameInv, RunnersAreKept
  <2> QED
    BY <2>1, <2>2, <2>3 DEF RunnersAreKept
<1>12. RunsAreCharged'
    BY <1>1, LinesKept DEF GameInv
<1>13. SecondStrike'
    BY <1>1, <1>2 DEF GameInv, SecondStrike
<1> QED
    BY <1>1, <1>9, <1>11, <1>12, <1>13 DEF GameInv, StrikeoutsAreOwed, OrderDecidesNothing

\* Who pitches, and whom a walk is charged to.
LEMMA WhoPitches ==
    ASSUME GameInv, plate # Nobody
    PROVE  /\ plate \in Plate /\ plate.pitcher \in PitcherNow
           /\ plate.walkTo # Nobody => plate.walkTo \in PitcherNow
<1>1. plate \in Plate
    BY DEF GameInv, GameTypes
<1> QED
    BY <1>1 DEF Plate

\* A play that ends a plate appearance.
LEMMA PlateResultKeeps ==
    ASSUME GameInv, plate # Nobody, NEW result \in Results, NEW destination \in Ends,
           NEW direct \in {Nobody, 2}, NEW rows, RowsOfAPlay(Sought(destination), rows),
           PlateResult(result, destination, direct, rows)
    PROVE  GameInv'
<1> DEFINE charged == IF result = "strikeout" /\ plate.strikeoutTo # Nobody
                      THEN plate.strikeoutTo ELSE plate.batter
           pitcher == IF result \in {"walk", "intentional_walk"} /\ plate.walkTo # Nobody
                      THEN plate.walkTo ELSE plate.pitcher
           leading == <<BatterMovement(result, destination, pitcher)>>
           ms == leading \o rows
           named == Movements(leading, rows, plate.pitcher)
           Inherits == IF result \in {"fielder_choice", "double_play"}
                       THEN Inherited(named, result, plate.pitcher) ELSE <<>>
<1>1. /\ CountAllows(result)
      /\ ApplyMovements(WithPitchers(named, Inherits), direct, 1, Inherits)
      /\ ended' = [batter |-> charged, pitcher |-> pitcher, result |-> result, second |-> plate.second]
      /\ plate' = Nobody /\ balls' = 0 /\ strikes' = 0
      /\ UNCHANGED <<half, mound>>
    BY DEF PlateResult
<1>2. /\ plate \in Plate /\ plate.pitcher \in PitcherNow
      /\ plate.walkTo # Nobody => plate.walkTo \in PitcherNow
    BY WhoPitches
<1>3. pitcher \in PitcherNow
    BY <1>2
<1>4. Apart(bases)
    BY DEF GameInv, Apart, GameTypes, RunnersAreKept
<1>5. charged = IF result = "strikeout" /\ plate.strikeoutTo # Nobody
                THEN plate.strikeoutTo ELSE plate.batter
    OBVIOUS
<1> HIDE DEF charged, pitcher
<1>6. ms = leading \o rows /\ ms = WithBatter(BatterMovement(result, destination, pitcher), rows)
    BY DEF WithBatter
<1> HIDE DEF ms
<1>7. /\ Play(ms, plate.batter) /\ ms \in Seq(PlayRow) /\ 1 \in DOMAIN ms
      /\ ms[1].runner = plate.batter /\ ms[1].pitcher = pitcher
  <2>1. ms = WithBatter(BatterMovement(result, destination, pitcher), rows)
    BY <1>6
  <2> QED
    BY <1>3, <2>1, BatterPlays
<1>8. plate.batter # Nobody
  <2>1. plate.batter \in HitterNow
    BY <1>2 DEF Plate
  <2> QED
    BY <2>1, Lineups
<1>9. Len(leading) = 1 /\ leading[1].pitcher = pitcher
  <2>1. leading[1] = BatterMovement(result, destination, pitcher) /\ Len(leading) = 1
    OBVIOUS
  <2> QED
    BY <2>1 DEF BatterMovement
<1> HIDE DEF leading
<1>10. SameRows(ms, named) /\ Play(named, plate.batter) /\ Charged(named)
    BY <1>2, <1>3, <1>4, <1>7, <1>8, <1>9, <1>6, MovementsAre
<1> HIDE DEF named
<1>11. \A r \in DOMAIN Inherits : Inherits[r] \in PitcherNow
  <2>1. CASE result \in {"fielder_choice", "double_play"}
    <3>1. Inherits = Inherited(named, result, plate.pitcher)
        BY <2>1
    <3> HIDE DEF Inherits
    <3>2. \A r \in DOMAIN Inherited(named, result, plate.pitcher) :
              Inherited(named, result, plate.pitcher)[r] \in PitcherNow
        BY <1>4, <1>8, <1>10, InheritedAre
    <3> QED
        BY <3>1, <3>2
  <2>2. CASE result \notin {"fielder_choice", "double_play"}
    BY <2>2
  <2> QED
    BY <2>1, <2>2
<1> HIDE DEF Inherits
<1>12. Play(WithPitchers(named, Inherits), plate.batter) /\ Charged(WithPitchers(named, Inherits))
  <2>1. named \in Seq(PlayRow)
    BY <1>10 DEF SameRows
  <2> QED
    BY <1>10, <1>11, <2>1, Reinherited
<1>13. GameTypes' /\ RunnersAreKept' /\ RunsAreCharged' /\ OrderDecidesNothing'
  <2> DEFINE last == WithPitchers(named, Inherits)
  <2>1. Play(last, plate.batter) /\ Charged(last) /\ ApplyMovements(last, direct, 1, Inherits)
    BY <1>1, <1>12
  <2> HIDE DEF last
  <2>2. balls' \in Nat /\ strikes' \in Nat /\ plate' = Nobody /\ UNCHANGED <<half, mound>>
    BY <1>1
  <2> QED
    BY <1>8, <1>11, <2>1, <2>2, PlayKept
<1>14. StrikeoutsAreOwed'
  <2>1. ASSUME result = "strikeout" PROVE charged = plate.second
    <3>1. ~ (strikes < 2)
        BY <1>1, <2>1 DEF CountAllows
    <3>2. plate.second = IF plate.strikeoutTo = Nobody THEN plate.batter ELSE plate.strikeoutTo
        BY <3>1 DEF GameInv, SecondStrike
    <3> QED
        BY <1>5, <2>1, <3>2
  <2>2. ended'.result = result /\ ended'.batter = charged /\ ended'.second = plate.second
    BY <1>1
  <2> QED
    BY <2>1, <2>2 DEF StrikeoutsAreOwed
<1>15. SecondStrike'
    BY <1>1 DEF SecondStrike
<1> QED
    BY <1>13, <1>14, <1>15 DEF GameInv

\* A play of runners alone.
LEMMA RunnerPlayKeeps ==
    ASSUME GameInv, NEW rows, RowsOfAPlay(Runners, rows), RunnerPlay(rows)
    PROVE  GameInv'
<1> DEFINE pitcher == IF plate # Nobody THEN plate.pitcher ELSE mound[Fielding]
           leading == <<>>
           named == Movements(leading, rows, pitcher)
<1>1. /\ pitcher # Nobody /\ ApplyMovements(named, 0, 0, <<>>)
      /\ UNCHANGED <<half, balls, strikes, plate, mound, ended>>
    BY DEF RunnerPlay
<1>2. pitcher \in PitcherNow
  <2>1. CASE plate # Nobody
    BY <2>1, WhoPitches
  <2>2. CASE plate = Nobody
    <3>1. mound[Fielding] \in PitcherNow \cup {Nobody}
        BY Lineups DEF GameInv, GameTypes, PitcherNow
    <3> QED
        BY <1>1, <2>2, <3>1
  <2> QED
    BY <2>1, <2>2
<1> HIDE DEF pitcher
<1>3. Apart(bases)
    BY DEF GameInv, Apart, GameTypes, RunnersAreKept
<1>4. /\ Play(rows, Nobody) /\ rows \in Seq(PlayRow)
      /\ \A i \in DOMAIN rows : \E b \in On(bases) : rows[i].runner = bases[b].runner
    BY <1>3, RunnersPlay
<1>5. rows = leading \o rows /\ Len(leading) = 0
    BY <1>4
<1> HIDE DEF leading
<1>6. SameRows(rows, named) /\ Play(named, Nobody) /\ Charged(named)
    BY <1>2, <1>3, <1>4, <1>5, MovementsAre
<1> HIDE DEF named
<1>7. plate' # Nobody => \A i \in DOMAIN named : named[i].runner # plate.batter
  <2>1. plate # Nobody => \A b \in On(bases) : bases[b].runner # plate.batter
    BY DEF GameInv, RunnersAreKept
  <2>2. DOMAIN named = DOMAIN rows /\ \A i \in DOMAIN rows : named[i].runner = rows[i].runner
    BY <1>6 DEF SameRows
  <2> QED
    BY <1>1, <1>4, <2>1, <2>2
<1>8. balls' \in Nat /\ strikes' \in Nat
    BY <1>1 DEF GameInv, GameTypes
<1>9. GameTypes' /\ RunnersAreKept' /\ RunsAreCharged' /\ OrderDecidesNothing'
  <2> DEFINE none == <<>>
  <2>1. (\A r \in DOMAIN none : none[r] \in PitcherNow) /\ ApplyMovements(named, 0, 0, none)
    BY <1>1
  <2> HIDE DEF none
  <2> QED
    BY <1>1, <1>6, <1>7, <1>8, <2>1, PlayKept
<1>10. SecondStrike'
  <2>1. HitterNow' = HitterNow
    BY <1>1, SidesStay
  <2> QED
    BY <1>1, <2>1 DEF GameInv, SecondStrike
<1>11. StrikeoutsAreOwed'
    BY <1>1 DEF GameInv, StrikeoutsAreOwed
<1> QED
    BY <1>9, <1>10, <1>11 DEF GameInv

-----------------------------------------------------------------------------
(* Every ledger *)

\* Before the first half nothing has happened.
LEMMA GameStarts ==
    ASSUME GameInit
    PROVE  GameInv
<1>1. /\ half = 0 /\ balls = 0 /\ strikes = 0 /\ outs = 0 /\ tally = 0
      /\ bases = NoBases /\ plate = Nobody /\ ended = NoPlate
      /\ mound = [s \in Side |-> Nobody] /\ score = [s \in Side |-> 0]
      /\ runsOf = [h \in Players(Hitters) |-> 0]
      /\ chargedTo = [p \in Players(Pitchers) |-> 0] /\ ordered = TRUE
    BY DEF GameInit
<1>2. On(bases) = {} /\ Apart(bases) /\ Cardinality(On(bases)) = 0
    BY <1>1, NobodyOn
<1>3. GameTypes
  <2>1. bases \in [Base -> Held]
    BY <1>2 DEF Apart
  <2>2. mound = [s \in Side |-> mound[s]] /\ \A s \in Side : mound[s] \in Pitchers[s] \cup {Nobody}
    BY <1>1
  <2>3. /\ score \in [Side -> Nat] /\ runsOf \in [Players(Hitters) -> Nat]
        /\ chargedTo \in [Players(Pitchers) -> Nat]
    BY <1>1
  <2> QED
    BY <1>1, <2>1, <2>2, <2>3 DEF GameTypes
<1>4. SecondStrike
    BY <1>1 DEF SecondStrike
<1>5. RunnersAreKept
    BY <1>1, <1>2 DEF RunnersAreKept
<1>6. RunsAreCharged
  <2>1. ASSUME NEW s \in Side, NEW t \in Side \ {s}
        PROVE  score[s] = SumOf(runsOf, Hitters[s]) /\ score[s] = SumOf(chargedTo, Pitchers[t])
    <3>1. /\ IsFiniteSet(Hitters[s]) /\ Hitters[s] \subseteq Players(Hitters)
          /\ IsFiniteSet(Pitchers[t]) /\ Pitchers[t] \subseteq Players(Pitchers)
        BY Lineups
    <3>2. \A h \in Hitters[s] : runsOf[h] = 0
        BY <1>1, <3>1
    <3>3. \A p \in Pitchers[t] : chargedTo[p] = 0
        BY <1>1, <3>1
    <3>4. SumOf(runsOf, Hitters[s]) = 0
        BY <3>1, <3>2, SumOfNone
    <3>5. SumOf(chargedTo, Pitchers[t]) = 0
        BY <3>1, <3>3, SumOfNone
    <3> QED
        BY <1>1, <3>4, <3>5
  <2> QED
    BY <2>1 DEF RunsAreCharged, SumOf
<1>7. StrikeoutsAreOwed /\ OrderDecidesNothing
    BY <1>1 DEF StrikeoutsAreOwed, OrderDecidesNothing, NoPlate
<1> QED
    BY <1>3, <1>4, <1>5, <1>6, <1>7 DEF GameInv

\* One step of a ledger, or none.
LEMMA GameStepKeeps ==
    ASSUME GameInv, [GameNext]_gameVars
    PROVE  GameInv'
<1>1. CASE HalfStart
    BY <1>1, HalfStartKeeps
<1>2. CASE \E p \in Pitchers[Fielding] : BatterStart(p)
    BY <1>2, BatterStartKeeps
<1>3. CASE \E call \in {"ball", "strike", "foul"} : Pitch(call)
    BY <1>3, PitchKeeps
<1>4. CASE \E p \in Pitchers[Fielding] : ChangePitcher(p)
    BY <1>4, ChangePitcherKeeps
<1>5. CASE ChangeBatter
    BY <1>5, ChangeBatterKeeps
<1>6. CASE \E b \in Base : ChangeRunner(b)
    BY <1>6, ChangeRunnerKeeps
<1>7. ASSUME NEW result \in Results, NEW destination \in Ends, NEW direct \in {Nobody, 2}, plate # Nobody,
             NEW rows, RowsOfAPlay(Sought(destination), rows), PlateResult(result, destination, direct, rows)
      PROVE  GameInv'
    BY <1>7, PlateResultKeeps
<1>8. ASSUME NEW rows, RowsOfAPlay(Runners, rows), RunnerPlay(rows)
      PROVE  GameInv'
    BY <1>8, RunnerPlayKeeps
<1>9. CASE /\ FirstPitch
           /\ \E r \in Rows(Runners) :
                \/ RunnerPlay(<<r>>)
                \/ \E s \in Rows(After(Runners, r)) : RunnerPlay(<<r, s>>)
  <2>1. \E rows : RowsOfAPlay(Runners, rows) /\ RunnerPlay(rows)
    BY <1>9 DEF RowsOfAPlay
  <2> QED
    BY <1>8, <2>1
<1>10. CASE \E result \in Results, destination \in 0 .. 4, direct \in {Nobody, 2} :
               /\ plate # Nobody
               /\ \/ PlateResult(result, destination, direct, <<>>)
                  \/ \E r \in Rows(Sought(destination)) :
                        \/ PlateResult(result, destination, direct, <<r>>)
                        \/ \E s \in Rows(After(Sought(destination), r)) :
                              PlateResult(result, destination, direct, <<r, s>>)
  <2>1. PICK result \in Results, destination \in 0 .. 4, direct \in {Nobody, 2} :
               /\ plate # Nobody
               /\ \/ PlateResult(result, destination, direct, <<>>)
                  \/ \E r \in Rows(Sought(destination)) :
                        \/ PlateResult(result, destination, direct, <<r>>)
                        \/ \E s \in Rows(After(Sought(destination), r)) :
                              PlateResult(result, destination, direct, <<r, s>>)
    BY <1>10
  <2>2. destination \in Ends
    BY <2>1 DEF Ends
  <2>3. \E rows : RowsOfAPlay(Sought(destination), rows) /\ PlateResult(result, destination, direct, rows)
    BY <2>1 DEF RowsOfAPlay
  <2> QED
    BY <1>7, <2>1, <2>2, <2>3
<1>11. CASE UNCHANGED gameVars
  <2>1. /\ UNCHANGED <<half, balls, strikes, outs, bases, plate, mound, score, runsOf, chargedTo,
                       ended, tally, ordered>>
        /\ UNCHANGED half /\ UNCHANGED linesVars
    BY <1>11 DEF gameVars, linesVars
  <2>2. Held' = Held /\ Plate' = Plate /\ HitterNow' = HitterNow
    BY <2>1, SidesStay
  <2>3. GameTypes'
    BY <2>1, <2>2 DEF GameInv, GameTypes
  <2>4. SecondStrike' /\ RunnersAreKept'
    BY <2>1, <2>2 DEF GameInv, SecondStrike, RunnersAreKept
  <2>5. RunsAreCharged'
    BY <2>1, LinesKept DEF GameInv
  <2> QED
    BY <2>1, <2>3, <2>4, <2>5 DEF GameInv, StrikeoutsAreOwed, OrderDecidesNothing
<1>12. CASE GameNext
    BY <1>1, <1>2, <1>3, <1>4, <1>5, <1>6, <1>9, <1>10, <1>12 DEF GameNext, Sought
<1> QED
    BY <1>11, <1>12

\* In every ledger the batters put on are on base, out or home; each run is in the line
\* of a batter and of a pitcher; a strikeout is owed by who had two strikes; and no play
\* comes out otherwise than in the order of its rows.
THEOREM GameKept == GameSpec => [](RunnersAreKept /\ RunsAreCharged /\ StrikeoutsAreOwed
                                   /\ OrderDecidesNothing)
<1>1. GameInit => GameInv
    BY GameStarts
<1>2. GameInv /\ [GameNext]_gameVars => GameInv'
    BY GameStepKeeps
<1>3. GameInv => RunnersAreKept /\ RunsAreCharged /\ StrikeoutsAreOwed /\ OrderDecidesNothing
    BY DEF GameInv
<1> QED
    BY <1>1, <1>2, <1>3, PTL DEF GameSpec

-----------------------------------------------------------------------------
(* What pitchers owe after a choice *)

\* Where a runner is ranked.
LEMMA PlaceIs ==
    ASSUME NEW A, OneOfEach(A), NEW r \in A
    PROVE  /\ Cardinality(Ahead(A, r)) + 1 \in 1 .. Cardinality(A) /\ Cardinality(Ahead(A, r)) \in Nat
           /\ ByOrigin(A)[Cardinality(Ahead(A, r)) + 1] = r
<1>1. PICK i \in 1 .. Cardinality(A) : ByOrigin(A)[i] = r
    BY Ranked
<1>2. Cardinality(A) \in Nat /\ Cardinality(Ahead(A, r)) = i - 1
    BY <1>1, Ranked
<1>3. Cardinality(Ahead(A, r)) + 1 = i /\ Cardinality(Ahead(A, r)) \in Nat
    BY <1>2
<1> QED
    BY <1>1, <1>3

\* The survivors are ranked as they were with the one who is out among them.
LEMMA RankedWithout ==
    ASSUME NEW A, OneOfEach(A), NEW out \in A, NEW q \in A, q.origin = 0, out.origin # 0,
           NEW S, S = A \ {out}
    PROVE  LET n == Cardinality(S)
               k == Lead(ByOrigin(S), out)
           IN  /\ OneOfEach(S) /\ n \in Nat /\ Cardinality(A) = n + 1
               /\ DOMAIN ByOrigin(S) = 1 .. n
               /\ k \in 0 .. n - 1 /\ ByOrigin(A)[k + 1] = out /\ ByOrigin(A)[n + 1] = q
               /\ \A i \in 1 .. k : ByOrigin(S)[i] = ByOrigin(A)[i]
               /\ \A i \in k + 1 .. n : ByOrigin(S)[i] = ByOrigin(A)[i + 1]
<1> DEFINE n == Cardinality(S)
           k == Lead(ByOrigin(S), out)
<1>1. /\ IsFiniteSet(A) /\ \A r \in A : r.origin \in 0 .. 3
      /\ \A r, t \in A : r.origin = t.origin => r = t
    BY DEF OneOfEach
<1>2. IsFiniteSet(S) /\ Cardinality(A) = n + 1 /\ n \in Nat
  <2>1. IsFiniteSet(S) /\ Cardinality(S) = Cardinality(A) - 1
    BY <1>1, FS_RemoveElement
  <2>2. Cardinality(S) \in Nat /\ Cardinality(A) \in Nat
    BY <1>1, <2>1, FS_CardinalityType
  <2> QED
    BY <2>1, <2>2
<1>3. OneOfEach(S)
    BY <1>1, <1>2 DEF OneOfEach
<1>4. DOMAIN ByOrigin(S) = 1 .. n
    BY <1>3, Ranked
<1>5. k = Cardinality(Ahead(A, out))
  <2> DEFINE I == {i \in 1 .. n : ByOrigin(S)[i].origin > out.origin}
             f == [i \in 1 .. n |-> ByOrigin(S)[i]]
  <2>1. k = Cardinality(I)
    BY <1>4 DEF Lead
  <2>2. IsFiniteSet(I)
    <3>1. IsFiniteSet(1 .. n) /\ I \in SUBSET (1 .. n)
        BY <1>2, FirstNumbers
    <3> QED
        BY <3>1, FS_Subset
  <2>3. \A i \in I : f[i] \in Ahead(A, out)
    <3>1. \A i \in 1 .. n : ByOrigin(S)[i] \in S
        BY <1>3, Ranked
    <3> QED
        BY <3>1 DEF Ahead
  <2>4. \A i, j \in I : f[i] = f[j] => i = j
    <3>1. ASSUME NEW i \in 1 .. n, NEW j \in 1 .. n, ByOrigin(S)[i] = ByOrigin(S)[j] PROVE i = j
      <4>1. /\ Cardinality(Ahead(S, ByOrigin(S)[i])) = i - 1
            /\ Cardinality(Ahead(S, ByOrigin(S)[j])) = j - 1
          BY <1>3, Ranked
      <4>2. i - 1 = j - 1
          BY <3>1, <4>1
      <4> QED
          BY <4>2
    <3> QED
        BY <3>1
  <2>5. \A r \in Ahead(A, out) : \E i \in I : f[i] = r
    <3>1. ASSUME NEW r \in Ahead(A, out) PROVE \E i \in I : f[i] = r
      <4>1. r \in S /\ r.origin > out.origin
          BY <1>1 DEF Ahead
      <4>2. PICK i \in 1 .. n : ByOrigin(S)[i] = r
        <5>1. ASSUME NEW T, OneOfEach(T), NEW t \in T
              PROVE  \E i \in 1 .. Cardinality(T) : ByOrigin(T)[i] = t
            BY <5>1, Ranked
        <5> QED
            BY <1>3, <4>1, <5>1
      <4> QED
          BY <4>1, <4>2
    <3> QED
        BY <3>1
  <2> HIDE DEF I, f
  <2>6. Cardinality(Ahead(A, out)) = Cardinality(I)
    BY <2>2, <2>3, <2>4, <2>5, MatchedCounted
  <2> QED
    BY <2>1, <2>6
<1> HIDE DEF k, n
<1>6. ByOrigin(A)[k + 1] = out /\ k + 1 \in 1 .. n + 1 /\ k \in Nat
    BY <1>2, <1>5, PlaceIs
<1>7. /\ \A i, j \in 1 .. n + 1 : i < j => ByOrigin(A)[i].origin > ByOrigin(A)[j].origin
      /\ \A i \in 1 .. n + 1 : ByOrigin(A)[i] \in A
    BY <1>2, Ranked
<1>8. ByOrigin(A)[n + 1] = q
  <2>1. PICK j \in 1 .. n + 1 : ByOrigin(A)[j] = q
    BY <1>2, Ranked
  <2>2. ASSUME j # n + 1 PROVE FALSE
    <3>1. j < n + 1 /\ n + 1 \in 1 .. n + 1
        BY <1>2, <2>1, <2>2
    <3>2. q.origin > ByOrigin(A)[n + 1].origin /\ ByOrigin(A)[n + 1] \in A
        BY <1>7, <2>1, <3>1
    <3> QED
        BY <1>1, <3>2
  <2> QED
    BY <2>1, <2>2
<1>9. k \in 0 .. n - 1
  <2>1. k + 1 # n + 1
    BY <1>6, <1>8
  <2> QED
    BY <1>2, <1>6, <2>1
<1>10. ASSUME NEW i \in 1 .. n
       PROVE  /\ i <= k => ByOrigin(S)[i] = ByOrigin(A)[i]
              /\ i > k => ByOrigin(S)[i] = ByOrigin(A)[i + 1]
  <2> DEFINE s == ByOrigin(S)[i]
  <2>1. s \in S /\ Cardinality(Ahead(S, s)) = i - 1
    BY <1>3, Ranked DEF n
  <2> HIDE DEF s
  <2>2. s \in A /\ s # out /\ s.origin \in 0 .. 3 /\ out.origin \in 0 .. 3
    BY <1>1, <2>1
  <2>3. s.origin # out.origin
    BY <1>1, <2>2
  <2>4. ByOrigin(A)[Cardinality(Ahead(A, s)) + 1] = s /\ Cardinality(Ahead(A, s)) + 1 \in 1 .. n + 1
    BY <1>2, <2>2, PlaceIs
  <2>5. CASE s.origin > out.origin
    <3>1. Ahead(A, s) = Ahead(S, s)
        BY <2>2, <2>5 DEF Ahead
    <3>2. ByOrigin(A)[i] = s /\ i \in 1 .. n + 1
        BY <1>2, <2>1, <2>4, <3>1
    <3>3. ~ (k + 1 < i)
        BY <1>6, <1>7, <2>2, <2>5, <3>2
    <3>4. i # k + 1
        BY <1>6, <2>2, <3>2
    <3>5. i <= k
        BY <1>6, <3>2, <3>3, <3>4
    <3> QED
        BY <1>6, <3>2, <3>5 DEF s
  <2>6. CASE s.origin < out.origin
    <3>1. Ahead(A, s) = Ahead(S, s) \cup {out} /\ out \notin Ahead(S, s)
        BY <2>2, <2>6 DEF Ahead
    <3>2. IsFiniteSet(Ahead(S, s))
      <4>1. Ahead(S, s) \in SUBSET S
          BY DEF Ahead
      <4> QED
          BY <1>2, <4>1, FS_Subset
    <3>3. Cardinality(Ahead(A, s)) = Cardinality(Ahead(S, s)) + 1
        BY <3>1, <3>2, FS_AddElement
    <3>4. ByOrigin(A)[i + 1] = s /\ i + 1 \in 1 .. n + 1
        BY <1>2, <2>1, <2>4, <3>3
    <3>5. ~ (i + 1 < k + 1)
        BY <1>6, <1>7, <2>2, <2>6, <3>4
    <3>6. i # k
        BY <1>6, <2>2, <3>4
    <3>7. i > k
        BY <1>6, <3>5, <3>6
    <3> QED
        BY <1>6, <3>4, <3>7 DEF s
  <2> QED
    BY <2>2, <2>3, <2>5, <2>6
<1>11. \A i \in 1 .. k : ByOrigin(S)[i] = ByOrigin(A)[i]
  <2>1. \A i \in 1 .. k : i \in 1 .. n /\ i <= k
    BY <1>2, <1>9
  <2> QED
    BY <1>10, <2>1
<1>12. \A i \in k + 1 .. n : ByOrigin(S)[i] = ByOrigin(A)[i + 1]
  <2>1. \A i \in k + 1 .. n : i \in 1 .. n /\ i > k
    BY <1>2, <1>9
  <2> QED
    BY <1>10, <2>1
<1> QED
    BY <1>2, <1>3, <1>4, <1>6, <1>8, <1>9, <1>11, <1>12 DEF k, n

\* The slots with one more.
LEMMA SlotInserted ==
    ASSUME NEW own \in Seq(PitcherNow), NEW k \in 0 .. Len(own), NEW out, out.pitcher \in PitcherNow
    PROVE  \A i \in 1 .. Len(own) :
              SlotsWith(own, out, k)[i] = IF i <= k THEN own[i]
                                          ELSE IF i = k + 1 THEN out.pitcher ELSE own[i - 1]
<1> DEFINE n == Len(own)
           a == SubSeq(own, 1, k)
           b == <<out.pitcher>>
           c == SubSeq(own, k + 1, n)
<1>1. n \in Nat /\ k \in Nat /\ k <= n
    OBVIOUS
<1>2. a \in Seq(PitcherNow) /\ Len(a) = k /\ \A i \in 1 .. k : a[i] = own[i]
    BY <1>1
<1>3. c \in Seq(PitcherNow) /\ Len(c) = n - k /\ \A i \in 1 .. n - k : c[i] = own[k + i]
    BY <1>1
<1>4. b \in Seq(PitcherNow) /\ Len(b) = 1 /\ b[1] = out.pitcher
    OBVIOUS
<1>5. SlotsWith(own, out, k) = a \o b \o c
    BY DEF SlotsWith
<1> HIDE DEF a, b, c, n
<1> DEFINE ab == a \o b
<1>6. ab \in Seq(PitcherNow) /\ Len(ab) = k + 1
  <2>1. a \o b \in Seq(PitcherNow) /\ Len(a \o b) = Len(a) + Len(b)
    BY <1>2, <1>4, ConcatProperties
  <2> QED
    BY <1>1, <1>2, <1>4, <2>1
<1>7. \A i \in 1 .. k : ab[i] = a[i]
    BY <1>1, <1>2, <1>4, ConcatProperties
<1>8. ab[k + 1] = out.pitcher
  <2>1. \A i \in 1 .. Len(a) + Len(b) : (a \o b)[i] = IF i <= Len(a) THEN a[i] ELSE b[i - Len(a)]
    BY <1>2, <1>4, ConcatProperties
  <2>2. k + 1 \in 1 .. Len(a) + Len(b) /\ ~ (k + 1 <= Len(a)) /\ (k + 1) - Len(a) = 1
    BY <1>1, <1>2, <1>4
  <2> QED
    BY <1>4, <2>1, <2>2
<1>9. SlotsWith(own, out, k) = ab \o c
    BY <1>5
<1> HIDE DEF ab
<1>10. /\ \A i \in 1 .. k + 1 : (ab \o c)[i] = ab[i]
       /\ \A i \in k + 2 .. n + 1 : (ab \o c)[i] = c[i - (k + 1)]
  <2>1. \A i \in 1 .. Len(ab) + Len(c) : (ab \o c)[i] = IF i <= Len(ab) THEN ab[i] ELSE c[i - Len(ab)]
    BY <1>3, <1>6, ConcatProperties
  <2>2. \A i \in 1 .. k + 1 : i \in 1 .. Len(ab) + Len(c) /\ i <= Len(ab)
    BY <1>1, <1>3, <1>6
  <2>3. \A i \in k + 2 .. n + 1 : i \in 1 .. Len(ab) + Len(c) /\ ~ (i <= Len(ab)) /\ Len(ab) = k + 1
    BY <1>1, <1>3, <1>6
  <2> QED
    BY <2>1, <2>2, <2>3
<1>11. ASSUME NEW i \in 1 .. n
       PROVE  SlotsWith(own, out, k)[i] = IF i <= k THEN own[i]
                                          ELSE IF i = k + 1 THEN out.pitcher ELSE own[i - 1]
  <2>1. CASE i <= k
    <3>1. i \in 1 .. k /\ i \in 1 .. k + 1
        BY <1>1, <2>1
    <3> QED
        BY <1>2, <1>7, <1>9, <1>10, <2>1, <3>1
  <2>2. CASE i = k + 1
    <3>1. k + 1 \in 1 .. k + 1 /\ ~ (k + 1 <= k)
        BY <1>1
    <3> QED
        BY <1>8, <1>9, <1>10, <2>2, <3>1
  <2>3. CASE i > k + 1
    <3>1. i \in k + 2 .. n + 1 /\ i - (k + 1) \in 1 .. n - k /\ k + (i - (k + 1)) = i - 1
          /\ ~ (i <= k) /\ i # k + 1
        BY <1>1, <2>3
    <3>2. (ab \o c)[i] = c[i - (k + 1)]
        BY <1>10, <3>1
    <3>3. c[i - (k + 1)] = own[k + (i - (k + 1))]
        BY <1>3, <3>1
    <3> QED
        BY <1>9, <3>1, <3>2, <3>3
  <2> QED
    BY <1>1, <2>1, <2>2, <2>3
<1> QED
    BY <1>11 DEF n

\* The slots of the survivors, and those with the one who is out among them.
LEMMA SlotsTaken ==
    ASSUME NEW A, OneOfEach(A), NEW out \in A, NEW q \in A, q.origin = 0, out.origin # 0,
           NEW S, S = A \ {out},
           NEW ms, \A r \in A : Own(ms, r) = r.pitcher /\ r.pitcher \in PitcherNow
    PROVE  \A i \in 1 .. Cardinality(S) :
              /\ OwnSlots(ms, ByOrigin(S))[i] = ByOrigin(S)[i].pitcher
              /\ SlotsWith(OwnSlots(ms, ByOrigin(S)), out, Lead(ByOrigin(S), out))[i]
                   = ByOrigin(A)[i].pitcher
<1> DEFINE n == Cardinality(S)
           ranked == ByOrigin(S)
           all == ByOrigin(A)
           k == Lead(ranked, out)
           own == OwnSlots(ms, ranked)
<1>1. /\ OneOfEach(S) /\ n \in Nat /\ DOMAIN ranked = 1 .. n
      /\ k \in 0 .. n - 1 /\ all[k + 1] = out
      /\ \A i \in 1 .. k : ranked[i] = all[i]
      /\ \A i \in k + 1 .. n : ranked[i] = all[i + 1]
    BY RankedWithout
<1>2. \A i \in 1 .. n : ranked[i] \in S
    BY <1>1, Ranked
<1>3. own = [i \in 1 .. n |-> Own(ms, ranked[i])]
    BY <1>1 DEF OwnSlots
<1>4. \A r \in S : Own(ms, r) = r.pitcher /\ r.pitcher \in PitcherNow
    OBVIOUS
<1>5. out.pitcher \in PitcherNow
    OBVIOUS
<1> HIDE DEF own, k, n, ranked, all
<1>6. /\ own = [i \in 1 .. n |-> own[i]]
      /\ \A i \in 1 .. n : own[i] = ranked[i].pitcher /\ own[i] \in PitcherNow
    BY <1>2, <1>3, <1>4
<1>7. own \in Seq(PitcherNow) /\ Len(own) = n
    BY <1>1, <1>6
<1>8. \A i \in 1 .. n : SlotsWith(own, out, k)[i] = IF i <= k THEN own[i]
                                                    ELSE IF i = k + 1 THEN out.pitcher ELSE own[i - 1]
  <2>1. k \in 0 .. Len(own)
    BY <1>1, <1>7
  <2>2. \A i \in 1 .. Len(own) :
           SlotsWith(own, out, k)[i] = IF i <= k THEN own[i]
                                       ELSE IF i = k + 1 THEN out.pitcher ELSE own[i - 1]
    BY <1>5, <1>7, <2>1, SlotInserted
  <2> QED
    BY <1>7, <2>2
<1>9. ASSUME NEW i \in 1 .. n PROVE SlotsWith(own, out, k)[i] = all[i].pitcher
  <2>1. CASE i <= k
    <3>1. i \in 1 .. k
        BY <1>1, <2>1
    <3> QED
        BY <1>1, <1>6, <1>8, <2>1, <3>1
  <2>2. CASE i = k + 1
    <3>1. ~ (i <= k)
        BY <1>1, <2>2
    <3> QED
        BY <1>1, <1>8, <2>2, <3>1
  <2>3. CASE i > k + 1
    <3>1. i - 1 \in k + 1 .. n /\ i - 1 \in 1 .. n /\ (i - 1) + 1 = i /\ ~ (i <= k) /\ i # k + 1
        BY <1>1, <2>3
    <3>2. ranked[i - 1] = all[(i - 1) + 1]
        BY <1>1, <3>1
    <3>3. own[i - 1] = all[i].pitcher
        BY <1>6, <3>1, <3>2
    <3> QED
        BY <1>8, <3>1, <3>3
  <2> QED
    BY <1>1, <2>1, <2>2, <2>3
<1>10. \A i \in 1 .. n : own[i] = ranked[i].pitcher
    BY <1>6
<1> QED
    BY <1>9, <1>10 DEF own, k, n, ranked, all

\* No more slots come in than of those who are out.
LEMMA SlotsOfOne ==
    ASSUME NEW ms, NEW survivors, NEW out, out.origin \in Base,
           NEW retired \in SUBSET {out}, NEW slots, Slots(ms, survivors, retired, slots)
    PROVE  slots[3] = IF retired = {} THEN OwnSlots(ms, survivors)
                      ELSE SlotsWith(OwnSlots(ms, survivors), out, Lead(survivors, out))
<1> DEFINE own == OwnSlots(ms, survivors)
           with == SlotsWith(own, out, Lead(survivors, out))
<1>1. /\ slots[0] = own
      /\ slots[1] = MoreSlots(slots[0], survivors, RetiredAt(retired, 1))
      /\ slots[2] = MoreSlots(slots[1], survivors, RetiredAt(retired, 2))
      /\ slots[3] = MoreSlots(slots[2], survivors, RetiredAt(retired, 3))
    BY SlotsUnfold
<1>2. \A s : MoreSlots(s, survivors, {}) = s
    BY DEF MoreSlots
<1>3. MoreSlots(own, survivors, {out}) = with
  <2>1. (CHOOSE r \in {out} : TRUE) = out
    OBVIOUS
  <2> QED
    BY <2>1 DEF MoreSlots
<1>4. \A o : RetiredAt(retired, o) = IF retired # {} /\ out.origin = o THEN {out} ELSE {}
    BY DEF RetiredAt
<1> HIDE DEF own, with
<1>5. CASE retired = {}
  <2>1. RetiredAt(retired, 1) = {} /\ RetiredAt(retired, 2) = {} /\ RetiredAt(retired, 3) = {}
    BY <1>4, <1>5
  <2> QED
    BY <1>1, <1>2, <1>5, <2>1 DEF own
<1>6. CASE retired # {}
  <2>1. out.origin = 1 \/ out.origin = 2 \/ out.origin = 3
    BY DEF Base
  <2>2. CASE out.origin = 1
    <3>1. RetiredAt(retired, 1) = {out} /\ RetiredAt(retired, 2) = {} /\ RetiredAt(retired, 3) = {}
        BY <1>4, <1>6, <2>2
    <3> QED
        BY <1>1, <1>2, <1>3, <1>6, <3>1 DEF own, with
  <2>3. CASE out.origin = 2
    <3>1. RetiredAt(retired, 1) = {} /\ RetiredAt(retired, 2) = {out} /\ RetiredAt(retired, 3) = {}
        BY <1>4, <1>6, <2>3
    <3> QED
        BY <1>1, <1>2, <1>3, <1>6, <3>1 DEF own, with
  <2>4. CASE out.origin = 3
    <3>1. RetiredAt(retired, 1) = {} /\ RetiredAt(retired, 2) = {} /\ RetiredAt(retired, 3) = {out}
        BY <1>4, <1>6, <2>4
    <3> QED
        BY <1>1, <1>2, <1>3, <1>6, <3>1 DEF own, with
  <2> QED
    BY <2>1, <2>2, <2>3, <2>4
<1> QED
    BY <1>5, <1>6

\* A play that ends a plate appearance: the batter's rows are charged to `pitcher`, those
\* of a runner to the pitcher of the base he was on.
Choice(ms, batter, pitcher) ==
    /\ Apart(bases) /\ Play(ms, batter) /\ Charged(ms) /\ batter # Nobody
    /\ OriginsAreSound(bases, ms)
    /\ \A i, j \in DOMAIN ms : ms[i].runner = ms[j].runner /\ Earlier(ms, j) = {} =>
          ms[i].pitcher = IF j = 1 \/ bases[ms[j].from] = Nobody THEN pitcher
                          ELSE bases[ms[j].from].pitcher

\* Everybody has his own pitcher after his last row.
LEMMA OwnIsHis ==
    ASSUME NEW ms, NEW batter, NEW pitcher, Choice(ms, batter, pitcher), NEW r \in Involved(ms)
    PROVE  Own(ms, r) = r.pitcher /\ (r.origin = 0 => r.pitcher = pitcher)
<1>1. /\ Apart(bases) /\ Play(ms, batter) /\ Charged(ms) /\ batter # Nobody
      /\ OriginsAreSound(bases, ms) /\ RowSequence(ms)
    BY DEF Choice, Play
<1>2. \A i, j \in DOMAIN ms : ms[i].runner = ms[j].runner /\ Earlier(ms, j) = {} =>
          ms[i].pitcher = IF j = 1 \/ bases[ms[j].from] = Nobody THEN pitcher
                          ELSE bases[ms[j].from].pitcher
    BY DEF Choice
<1>3. \/ r.origin = 0 /\ r.runner = batter /\ r.pitcher = ms[1].pitcher
      \/ r.origin \in On(bases) /\ r.runner = bases[r.origin].runner
           /\ r.pitcher = bases[r.origin].pitcher
    BY <1>1, InvolvedAre
<1>4. 1 \in DOMAIN ms /\ ms[1].runner = batter /\ \A b \in On(bases) : bases[b].runner # batter
    BY <1>1 DEF Play
<1>5. r.runner \in Movers(ms) => /\ LastRow(ms, r.runner) \in DOMAIN ms /\ LastRow(ms, r.runner) # 0
                                 /\ ms[LastRow(ms, r.runner)].runner = r.runner
    BY <1>1, LastRowIs
<1>6. r.runner \notin Movers(ms) => LastRow(ms, r.runner) = 0
    BY <1>1, LastRowIs
<1>7. 0 \notin On(bases)
    BY DEF On, Base
<1>8. CASE r.origin = 0
  <2>1. Earlier(ms, 1) = {}
    BY DEF Earlier
  <2>2. \A i \in DOMAIN ms : ms[i].runner = batter => ms[i].pitcher = pitcher
    BY <1>2, <1>4, <2>1
  <2>3. r.runner = batter /\ r.pitcher = ms[1].pitcher
    BY <1>3, <1>7, <1>8
  <2>4. batter \in Movers(ms)
    BY <1>4 DEF Movers
  <2>5. Own(ms, r) = ms[LastRow(ms, r.runner)].pitcher
    BY <1>5, <2>3, <2>4 DEF Own
  <2> QED
    BY <1>4, <1>5, <2>2, <2>3, <2>4, <2>5
<1>9. CASE r.origin \in On(bases)
  <2>1. r.runner = bases[r.origin].runner /\ r.pitcher = bases[r.origin].pitcher /\ r.origin # 0
    BY <1>3, <1>7, <1>9
  <2>2. CASE r.runner \notin Movers(ms)
    BY <1>6, <2>1, <2>2 DEF Own
  <2>3. CASE r.runner \in Movers(ms)
    <3>1. PICK b \in On(bases) : /\ bases[b].runner = r.runner
                                 /\ \A i \in DOMAIN ms : ms[i].runner = r.runner /\ Earlier(ms, i) = {}
                                                           => ms[i].from = b
      <4>1. r.runner # batter
          BY <1>4, <1>9, <2>1
      <4> QED
          BY <1>1, <2>3, <4>1, LeavesHisBase
    <3>2. b = r.origin
        BY <1>1, <1>9, <2>1, <3>1 DEF Apart
    <3>3. PICK j \in DOMAIN ms : ms[j].runner = r.runner /\ Earlier(ms, j) = {}
        BY <1>1, <2>3, FirstRow
    <3>4. ms[j].from = r.origin /\ j # 1
        BY <1>4, <1>9, <2>1, <3>1, <3>2, <3>3
    <3>5. bases[r.origin] # Nobody
        BY <1>9 DEF On
    <3>6. ms[LastRow(ms, r.runner)].pitcher = bases[r.origin].pitcher
        BY <1>2, <1>5, <2>3, <3>3, <3>4, <3>5
    <3>7. Own(ms, r) = ms[LastRow(ms, r.runner)].pitcher
        BY <1>5, <2>3 DEF Own
    <3> QED
        BY <2>1, <3>6, <3>7
  <2> QED
    BY <2>2, <2>3
<1> QED
    BY <1>3, <1>8, <1>9

\* The one who is out when the batter is not.
LEMMA OneIsOut ==
    ASSUME NEW ms, NEW batter, NEW pitcher, Choice(ms, batter, pitcher), Outs(ms) = 1,
           \A i \in DOMAIN ms : IsOut(ms[i]) => ms[i].runner # batter
    PROVE  \E out \in Involved(ms) :
              /\ out.origin \in Base /\ OutIn(ms, out.runner)
              /\ Survivors(ms) = Involved(ms) \ {out}
<1>1. /\ Apart(bases) /\ Play(ms, batter) /\ Charged(ms) /\ batter # Nobody
      /\ OriginsAreSound(bases, ms) /\ RowSequence(ms)
    BY DEF Choice, Play
<1>2. PICK o : OutRows(ms) = {o}
  <2>1. IsFiniteSet(OutRows(ms))
    <3>1. IsFiniteSet(DOMAIN ms) /\ OutRows(ms) \in SUBSET DOMAIN ms
        BY <1>1, FinitelyMany DEF OutRows
    <3> QED
        BY <3>1, FS_Subset
  <2>2. Cardinality(OutRows(ms)) = 1
    BY DEF OutRows, Outs
  <2> QED
    BY <2>1, <2>2, FS_Singleton
<1> DEFINE x == ms[o].runner
<1>3. o \in DOMAIN ms /\ IsOut(ms[o]) /\ x # batter /\ x \in Movers(ms)
    BY <1>2 DEF OutRows, Movers
<1>4. \A i \in DOMAIN ms : IsOut(ms[i]) => i = o
    BY <1>2 DEF OutRows
<1>5. PICK b \in On(bases) : bases[b].runner = x
    BY <1>1, <1>3, LeavesHisBase
<1>6. /\ \A r \in Involved(ms) :
            \/ r.origin = 0 /\ r.runner = batter
            \/ r.origin \in On(bases) /\ r.runner = bases[r.origin].runner
      /\ \E r \in Involved(ms) : r.origin = b
      /\ \A q, r \in Involved(ms) : q.runner = r.runner => q = r
    BY <1>1, InvolvedAre
<1>7. PICK out \in Involved(ms) : out.origin = b
    BY <1>6
<1>8. b \in Base /\ b # 0
    BY DEF On, Base
<1>9. out.runner = x
    BY <1>5, <1>6, <1>7, <1>8
<1>10. LastRow(ms, x) = o
  <2>1. LastRow(ms, x) \in Final(ms) /\ LastRow(ms, x) \in DOMAIN ms /\ ms[LastRow(ms, x)].runner = x
    BY <1>1, <1>3, LastRowIs
  <2>2. \A i, j \in Final(ms) : ms[i].runner = ms[j].runner => i = j
    BY <1>1, LastRows
  <2>3. o \in Final(ms)
    <3>1. o \notin Final(ms) => ms[o].outcome = "safe"
        BY <1>1, <1>3, OnlyTheLastEnds
    <3> QED
        BY <1>3, <3>1 DEF IsOut
  <2> QED
    BY <2>1, <2>2, <2>3
<1>11. LastRow(ms, x) # 0
    BY <1>1, <1>3, LastRowIs
<1> HIDE DEF x
<1>12. OutIn(ms, out.runner)
    BY <1>3, <1>9, <1>10, <1>11 DEF OutIn
<1>13. ASSUME NEW r \in Involved(ms), OutIn(ms, r.runner) PROVE r = out
  <2>1. LastRow(ms, r.runner) # 0 /\ IsOut(ms[LastRow(ms, r.runner)])
    BY <1>13 DEF OutIn
  <2>2. r.runner \in Movers(ms)
    BY <1>1, <2>1, LastRowIs
  <2>3. LastRow(ms, r.runner) \in DOMAIN ms /\ ms[LastRow(ms, r.runner)].runner = r.runner
    BY <1>1, <2>2, LastRowIs
  <2>4. LastRow(ms, r.runner) = o
    BY <1>4, <2>1, <2>3
  <2>5. r.runner = x
    BY <2>3, <2>4 DEF x
  <2> QED
    BY <1>6, <1>9, <2>5
<1>14. Survivors(ms) = Involved(ms) \ {out}
    BY <1>12, <1>13 DEF Survivors
<1> QED
    BY <1>7, <1>8, <1>12, <1>14

\* Who inherits whom: everybody keeps his own pitcher, unless the one who is out had a
\* pitcher before; then those behind him move up.
MovesUp(ms, pitcher, out) ==
    LET S == Survivors(ms)
        inherits == Inherited(ms, "fielder_choice", pitcher)
    IN  /\ out.origin \in Base /\ OutIn(ms, out.runner) /\ S = Involved(ms) \ {out}
        /\ DOMAIN inherits = {r.runner : r \in S}
        /\ \A i \in 1 .. Cardinality(S) :
              inherits[ByOrigin(S)[i].runner]
                = IF out.pitcher = pitcher THEN ByOrigin(S)[i].pitcher
                  ELSE ByOrigin(Involved(ms))[i].pitcher

\* On a fielder's choice with one out, which is not the batter's.
LEMMA WhoInherits ==
    ASSUME NEW ms, NEW batter, NEW pitcher, Choice(ms, batter, pitcher), Outs(ms) = 1,
           \A i \in DOMAIN ms : IsOut(ms[i]) => ms[i].runner # batter
    PROVE  \E out \in Involved(ms) : MovesUp(ms, pitcher, out)
<1> DEFINE A == Involved(ms)
           S == Survivors(ms)
           n == Cardinality(S)
           ranked == ByOrigin(S)
           all == ByOrigin(A)
           retired == RunnersOut(ms, "fielder_choice", pitcher)
           inherits == Inherited(ms, "fielder_choice", pitcher)
<1>1. PICK out \in A : out.origin \in Base /\ OutIn(ms, out.runner) /\ S = A \ {out}
    BY OneIsOut
<1>2. Apart(bases) /\ Play(ms, batter) /\ Charged(ms) /\ batter # Nobody
    BY DEF Choice
<1>3. /\ OneOfEach(A) /\ \A r \in A : r.pitcher \in PitcherNow
      /\ \E r \in A : r.origin = 0
      /\ \A q, r \in A : q.runner = r.runner => q = r
    BY <1>2, InvolvedAre
<1>4. \A r \in A : Own(ms, r) = r.pitcher /\ r.pitcher \in PitcherNow
    BY <1>3, OwnIsHis
<1>5. out.origin # 0 /\ out.origin \in 1 .. 3
    BY <1>1 DEF Base
<1>6. PICK slots : Slots(ms, ranked, retired, slots) /\ inherits = InheritsBy(ranked, slots)
    BY InheritedIs
<1>7. retired = IF out.pitcher = pitcher THEN {} ELSE {out}
  <2>1. \A r \in A : OutIn(ms, r.runner) => r = out
    BY <1>1 DEF Survivors
  <2> QED
    BY <1>1, <1>5, <2>1 DEF RunnersOut
<1> HIDE DEF A, S, n, ranked, all, retired, inherits
<1>8. slots[3] = IF retired = {} THEN OwnSlots(ms, ranked)
                 ELSE SlotsWith(OwnSlots(ms, ranked), out, Lead(ranked, out))
  <2>1. retired \in SUBSET {out}
    BY <1>7
  <2>2. out.origin \in Base /\ Slots(ms, ranked, retired, slots)
    BY <1>1, <1>6
  <2> QED
    BY <2>1, <2>2, SlotsOfOne
<1>9. \A i \in 1 .. n : /\ OwnSlots(ms, ranked)[i] = ranked[i].pitcher
                        /\ SlotsWith(OwnSlots(ms, ranked), out, Lead(ranked, out))[i] = all[i].pitcher
  <2>1. PICK q \in A : q.origin = 0
    BY <1>3
  <2> QED
    BY <1>1, <1>3, <1>4, <1>5, <2>1, SlotsTaken DEF n, ranked, all
<1>10. /\ OneOfEach(S) /\ n \in Nat /\ DOMAIN ranked = 1 .. n
  <2>1. PICK q \in A : q.origin = 0
    BY <1>3
  <2> QED
    BY <1>1, <1>3, <1>5, <2>1, RankedWithout DEF n, ranked
<1>11. /\ \A i \in 1 .. n : ranked[i] \in S /\ Cardinality(Ahead(S, ranked[i])) = i - 1
       /\ \A r \in S : \E i \in 1 .. n : ranked[i] = r
  <2>1. ASSUME NEW T, OneOfEach(T)
        PROVE  /\ \A i \in 1 .. Cardinality(T) :
                     ByOrigin(T)[i] \in T /\ Cardinality(Ahead(T, ByOrigin(T)[i])) = i - 1
               /\ \A r \in T : \E i \in 1 .. Cardinality(T) : ByOrigin(T)[i] = r
    BY <2>1, Ranked
  <2> QED
    BY <1>10, <2>1 DEF n, ranked
<1>12. \A i, j \in 1 .. n : ranked[i].runner = ranked[j].runner => i = j
  <2>1. ASSUME NEW i \in 1 .. n, NEW j \in 1 .. n, ranked[i].runner = ranked[j].runner PROVE i = j
    <3>1. ranked[i] \in A /\ ranked[j] \in A
        BY <1>1, <1>11
    <3>2. ranked[i] = ranked[j]
        BY <1>3, <2>1, <3>1
    <3>3. i - 1 = j - 1
        BY <1>11, <3>2
    <3> QED
        BY <3>3
  <2> QED
    BY <2>1
<1>13. DOMAIN inherits = {r.runner : r \in S}
  <2>1. DOMAIN inherits = {ranked[i].runner : i \in 1 .. n}
    BY <1>6, <1>10 DEF InheritsBy
  <2>2. {ranked[i].runner : i \in 1 .. n} \subseteq {r.runner : r \in S}
    BY <1>11
  <2>3. {r.runner : r \in S} \subseteq {ranked[i].runner : i \in 1 .. n}
    <3>1. ASSUME NEW r \in S PROVE r.runner \in {ranked[i].runner : i \in 1 .. n}
      <4>1. PICK i \in 1 .. n : ranked[i] = r
          BY <1>11
      <4> QED
          BY <4>1
    <3> QED
        BY <3>1
  <2> QED
    BY <2>1, <2>2, <2>3
<1>14. ASSUME NEW i \in 1 .. n PROVE inherits[ranked[i].runner] = slots[3][i]
  <2> DEFINE x == ranked[i].runner
             j == CHOOSE j \in 1 .. n : ranked[j].runner = x
  <2>1. j \in 1 .. n /\ ranked[j].runner = x
    OBVIOUS
  <2> HIDE DEF j
  <2>2. j = i
    BY <1>12, <2>1
  <2>3. inherits = [runner \in {ranked[h].runner : h \in 1 .. n} |->
                      slots[3][CHOOSE h \in 1 .. n : ranked[h].runner = runner]]
    BY <1>6, <1>10 DEF InheritsBy
  <2>4. x \in {ranked[h].runner : h \in 1 .. n}
    OBVIOUS
  <2>5. inherits[x] = slots[3][j]
    BY <2>3, <2>4 DEF j
  <2> QED
    BY <2>2, <2>5
<1>15. \A i \in 1 .. n : inherits[ranked[i].runner] = IF out.pitcher = pitcher THEN ranked[i].pitcher
                                                      ELSE all[i].pitcher
  <2>1. CASE out.pitcher = pitcher
    <3>1. slots[3] = OwnSlots(ms, ranked)
        BY <1>7, <1>8, <2>1
    <3> QED
        BY <1>9, <1>14, <2>1, <3>1
  <2>2. CASE out.pitcher # pitcher
    <3>1. slots[3] = SlotsWith(OwnSlots(ms, ranked), out, Lead(ranked, out))
        BY <1>7, <1>8, <2>2
    <3> QED
        BY <1>9, <1>14, <2>2, <3>1
  <2> QED
    BY <2>1, <2>2
<1> QED
    BY <1>1, <1>13, <1>15 DEF A, S, n, ranked, all, inherits, MovesUp

\* Who inherits a pitcher, the rows that bring home a run for him, and where his runners are.
HeirsOf(inherits, p) == {x \in DOMAIN inherits : inherits[x] = p}
HomeFor(ms, p) == {i \in ScoredRows(ms) : ms[i].pitcher = p}
OnFor(bs, p) == {b \in On(bs) : bs[b].pitcher = p}

\* As many have an earlier pitcher after the play as were on a base for him.
LEMMA InheritedCounted ==
    ASSUME NEW ms, NEW batter, NEW pitcher, Choice(ms, batter, pitcher), Outs(ms) = 1,
           \A i \in DOMAIN ms : IsOut(ms[i]) => ms[i].runner # batter,
           NEW p, p # pitcher
    PROVE  /\ IsFiniteSet(HeirsOf(Inherited(ms, "fielder_choice", pitcher), p))
           /\ Cardinality(HeirsOf(Inherited(ms, "fielder_choice", pitcher), p))
                = Cardinality(OnFor(bases, p))
<1> DEFINE A == Involved(ms)
           S == Survivors(ms)
           n == Cardinality(S)
           ranked == ByOrigin(S)
           all == ByOrigin(A)
           inherits == Inherited(ms, "fielder_choice", pitcher)
           heirs == {x \in DOMAIN inherits : inherits[x] = p}
           owing == {b \in On(bases) : bases[b].pitcher = p}
<1>0. PICK out \in A : MovesUp(ms, pitcher, out)
    BY WhoInherits
<1>1. /\ out.origin \in Base /\ S = A \ {out}
      /\ DOMAIN inherits = {r.runner : r \in S}
      /\ \A i \in 1 .. n : inherits[ranked[i].runner] = IF out.pitcher = pitcher THEN ranked[i].pitcher
                                                        ELSE all[i].pitcher
    BY <1>0 DEF MovesUp
<1>2. Apart(bases) /\ Play(ms, batter) /\ Charged(ms) /\ batter # Nobody
    BY DEF Choice
<1>3. /\ OneOfEach(A)
      /\ \A r \in A : \/ r.origin = 0
                      \/ r.origin \in On(bases) /\ r.pitcher = bases[r.origin].pitcher
      /\ \E r \in A : r.origin = 0
      /\ \A b \in On(bases) : \E r \in A : r.origin = b
      /\ \A q, r \in A : q.runner = r.runner => q = r
    BY <1>2, InvolvedAre
<1>4. \A r \in A : r.origin = 0 => r.pitcher = pitcher
    BY OwnIsHis
<1>5. 0 \notin On(bases) /\ out.origin # 0
    BY <1>1 DEF On, Base
<1>6. PICK q \in A : q.origin = 0
    BY <1>3
<1>7. /\ OneOfEach(S) /\ n \in Nat /\ Cardinality(A) = n + 1 /\ all[n + 1] = q
    BY <1>1, <1>3, <1>5, <1>6, RankedWithout
<1>8. ASSUME NEW T, OneOfEach(T)
      PROVE  /\ \A i \in 1 .. Cardinality(T) :
                   ByOrigin(T)[i] \in T /\ Cardinality(Ahead(T, ByOrigin(T)[i])) = i - 1
             /\ \A r \in T : \E i \in 1 .. Cardinality(T) : ByOrigin(T)[i] = r
    BY <1>8, Ranked
<1>9. /\ \A i \in 1 .. n : ranked[i] \in S /\ Cardinality(Ahead(S, ranked[i])) = i - 1
      /\ \A r \in S : \E i \in 1 .. n : ranked[i] = r
    BY <1>7, <1>8
<1>10. /\ \A i \in 1 .. n + 1 : all[i] \in A /\ Cardinality(Ahead(A, all[i])) = i - 1
       /\ \A r \in A : \E i \in 1 .. n + 1 : all[i] = r
    BY <1>3, <1>7, <1>8
<1> HIDE DEF A, S, n, ranked, all, inherits
<1> DEFINE who == [i \in 1 .. n |-> IF out.pitcher = pitcher THEN ranked[i] ELSE all[i]]
           I == {i \in 1 .. n : who[i].pitcher = p}
           f == [i \in 1 .. n |-> ranked[i].runner]
           g == [i \in 1 .. n |-> who[i].origin]
<1>11. \A i \in 1 .. n : i \in 1 .. n + 1
    BY <1>7
<1>12. /\ \A i \in 1 .. n : who[i] \in A
       /\ \A i, j \in 1 .. n : who[i] = who[j] => i = j
       /\ \A i, j \in 1 .. n : ranked[i] = ranked[j] => i = j
  <2>1. ASSUME NEW i \in 1 .. n, NEW j \in 1 .. n, ranked[i] = ranked[j] PROVE i = j
    <3>1. i - 1 = j - 1
        BY <1>9, <2>1
    <3> QED
        BY <3>1
  <2>2. ASSUME NEW i \in 1 .. n, NEW j \in 1 .. n, all[i] = all[j] PROVE i = j
    <3>1. i - 1 = j - 1
        BY <1>10, <1>11, <2>2
    <3> QED
        BY <3>1
  <2>3. \A i \in 1 .. n : ranked[i] \in A /\ all[i] \in A
    BY <1>1, <1>9, <1>10, <1>11
  <2> QED
    BY <2>1, <2>2, <2>3
<1>13. \A i \in 1 .. n : inherits[ranked[i].runner] = who[i].pitcher
    BY <1>1
<1>14. IsFiniteSet(I)
  <2>1. IsFiniteSet(1 .. n) /\ I \in SUBSET (1 .. n)
    BY <1>7, FirstNumbers
  <2> QED
    BY <2>1, FS_Subset
<1>15. IsFiniteSet(heirs) /\ Cardinality(heirs) = Cardinality(I)
  <2>1. \A i \in I : f[i] \in heirs
    BY <1>1, <1>9, <1>13
  <2>2. \A i, j \in I : f[i] = f[j] => i = j
    <3>1. ASSUME NEW i \in 1 .. n, NEW j \in 1 .. n, ranked[i].runner = ranked[j].runner PROVE i = j
      <4>1. ranked[i] \in A /\ ranked[j] \in A
          BY <1>1, <1>9
      <4>2. ranked[i] = ranked[j]
          BY <1>3, <3>1, <4>1
      <4> QED
          BY <1>12, <4>2
    <3> QED
        BY <3>1
  <2>3. \A x \in heirs : \E i \in I : f[i] = x
    <3>1. ASSUME NEW x \in DOMAIN inherits, inherits[x] = p PROVE \E i \in I : f[i] = x
      <4>1. PICK r \in S : r.runner = x
          BY <1>1
      <4>2. PICK i \in 1 .. n : ranked[i] = r
          BY <1>9
      <4>3. who[i].pitcher = p
          BY <1>13, <3>1, <4>1, <4>2
      <4> HIDE DEF who
      <4> QED
          BY <4>1, <4>2, <4>3
    <3> QED
        BY <3>1
  <2> HIDE DEF I, f, heirs
  <2> QED
    BY <1>14, <2>1, <2>2, <2>3, MatchedCounted
<1>16. Cardinality(owing) = Cardinality(I)
  <2>1. \A i \in I : g[i] \in owing
    <3>1. ASSUME NEW i \in 1 .. n, who[i].pitcher = p
          PROVE  who[i].origin \in On(bases) /\ bases[who[i].origin].pitcher = p
        BY <1>3, <1>4, <1>12, <3>1
    <3> HIDE DEF who
    <3> QED
        BY <3>1
  <2>2. \A i, j \in I : g[i] = g[j] => i = j
    <3>1. \A r, t \in A : r.origin = t.origin => r = t
        BY <1>3 DEF OneOfEach
    <3> HIDE DEF who
    <3> QED
        BY <1>12, <3>1
  <2>3. \A b \in owing : \E i \in I : g[i] = b
    <3>1. ASSUME NEW b \in On(bases), bases[b].pitcher = p PROVE \E i \in I : g[i] = b
      <4>1. PICK r \in A : r.origin = b
          BY <1>3
      <4>2. r.pitcher = p
          BY <1>3, <1>5, <3>1, <4>1
      <4>3. \E i \in 1 .. n : who[i] = r
        <5>1. CASE out.pitcher = pitcher
          <6>1. r \in S
              BY <1>1, <4>2, <5>1
          <6> QED
              BY <1>9, <5>1, <6>1
        <5>2. CASE out.pitcher # pitcher
          <6>1. PICK j \in 1 .. n + 1 : all[j] = r
              BY <1>10
          <6>2. j # n + 1
              BY <1>5, <1>6, <1>7, <4>1, <6>1
          <6>3. j \in 1 .. n
              BY <1>7, <6>1, <6>2
          <6> QED
              BY <5>2, <6>1, <6>3
        <5> QED
            BY <5>1, <5>2
      <4> HIDE DEF who
      <4> QED
          BY <4>1, <4>2, <4>3
    <3> QED
        BY <3>1
  <2> HIDE DEF I, g, owing
  <2> QED
    BY <1>14, <2>1, <2>2, <2>3, MatchedCounted
<1> QED
    BY <1>15, <1>16 DEF inherits, HeirsOf, OnFor

\* Those who are not out come home or end on a base, when no one is run over.
LEMMA EndsCounted ==
    ASSUME Apart(bases), NEW ms, NEW batter, Play(ms, batter), Charged(ms), batter # Nobody,
           OriginsAreSound(bases, ms), DestinationsAreFree(bases, ms), RunOver(ms) = {},
           NEW inherits, \A x \in DOMAIN inherits : inherits[x] \in PitcherNow,
           \A x : x \in DOMAIN inherits <=> /\ ~ OutIn(ms, x)
                                            /\ x = batter \/ \E b \in On(bases) : bases[b].runner = x,
           \A i \in DOMAIN ms : ms[i].runner \in DOMAIN inherits
                                  => ms[i].pitcher = inherits[ms[i].runner],
           NEW bs, Apart(bs), On(bs) = On(Placed(bases, ms)),
           \A b \in On(bs) : /\ bs[b].runner = Placed(bases, ms)[b].runner
                            /\ bs[b].pitcher = PitcherOf(Placed(bases, ms)[b], inherits),
           NEW p, IsFiniteSet(HeirsOf(inherits, p))
    PROVE  /\ Cardinality(HeirsOf(inherits, p)) = Cardinality(HomeFor(ms, p)) + Cardinality(OnFor(bs, p))
           /\ Cardinality(HomeFor(ms, p)) \in Nat /\ Cardinality(OnFor(bs, p)) \in Nat
<1> DEFINE C == {x \in DOMAIN inherits : inherits[x] = p}
           home(x) == LastRow(ms, x) # 0 /\ ms[LastRow(ms, x)].outcome = "scored"
           A == {x \in C : home(x)}
           B == {x \in C : ~ home(x)}
           scored == {i \in ScoredRows(ms) : ms[i].pitcher = p}
           on == {b \in On(bs) : bs[b].pitcher = p}
           f == [x \in DOMAIN inherits |-> LastRow(ms, x)]
           g == [b \in On(bs) |-> bs[b].runner]
<1>1. RowSequence(ms)
    BY DEF Play
<1>2. /\ On(bs) = {ms[i].to : i \in Landing(ms)} \cup (On(bases) \ Vacated(ms))
      /\ \A i \in Landing(ms) : Placed(bases, ms)[ms[i].to]
                                  = [runner |-> ms[i].runner, pitcher |-> ms[i].pitcher]
      /\ \A b \in On(bases) \ Vacated(ms) : Placed(bases, ms)[b] = bases[b]
    BY PlacedOn
<1>3. ASSUME NEW i \in Landing(ms)
      PROVE  /\ ms[i].to \in On(bs) /\ bs[ms[i].to].runner = ms[i].runner
             /\ ms[i].runner \in DOMAIN inherits => bs[ms[i].to].pitcher = inherits[ms[i].runner]
  <2> DEFINE at == Placed(bases, ms)[ms[i].to]
  <2>1. at = [runner |-> ms[i].runner, pitcher |-> ms[i].pitcher] /\ ms[i].to \in On(bs)
    BY <1>2
  <2>2. bs[ms[i].to].runner = at.runner /\ bs[ms[i].to].pitcher = PitcherOf(at, inherits)
    BY <2>1
  <2> HIDE DEF at
  <2>3. at.runner = ms[i].runner
    BY <2>1
  <2> QED
    BY <2>1, <2>2, <2>3 DEF PitcherOf
<1>4. \A x \in Movers(ms) : /\ LastRow(ms, x) \in Final(ms) /\ LastRow(ms, x) # 0
                            /\ LastRow(ms, x) \in DOMAIN ms /\ ms[LastRow(ms, x)].runner = x
    BY <1>1, LastRowIs
<1>5. \A x : x \notin Movers(ms) => LastRow(ms, x) = 0
    BY <1>1, LastRowIs
<1>6. \A i \in Final(ms) : i \in DOMAIN ms /\ ms[i].runner \in Movers(ms) /\ LastRow(ms, ms[i].runner) = i
  <2>1. /\ Final(ms) \subseteq DOMAIN ms
        /\ \A i, j \in Final(ms) : ms[i].runner = ms[j].runner => i = j
    BY <1>1, LastRows
  <2> QED
    BY <1>4, <2>1 DEF Movers
<1>7. \A x \in Movers(ms) : x = batter \/ \E b \in On(bases) : bases[b].runner = x /\ b \in Vacated(ms)
    BY LeavesHisBase
<1>8. \A i \in Final(ms) : ms[i].outcome # "out" => ms[i].runner \in DOMAIN inherits
    BY <1>6, <1>7 DEF OutIn, IsOut
<1>9. ScoredRows(ms) \subseteq Final(ms)
  <2>1. \A i \in DOMAIN ms : i \notin Final(ms) => ms[i].outcome = "safe"
    BY OnlyTheLastEnds
  <2> QED
    BY <2>1 DEF ScoredRows
<1>10. \A b \in On(bases) \ Vacated(ms) : /\ bases[b].runner \notin Movers(ms)
                                          /\ bases[b].runner \in DOMAIN inherits
  <2>1. ASSUME NEW b \in On(bases) \ Vacated(ms), bases[b].runner \in Movers(ms) PROVE FALSE
    <3>1. bases[b].runner # batter
        BY DEF Play
    <3>2. PICK c \in On(bases) : bases[c].runner = bases[b].runner /\ c \in Vacated(ms)
        BY <1>7, <2>1, <3>1
    <3>3. c = b
        BY <2>1, <3>2 DEF Apart
    <3> QED
        BY <2>1, <3>2, <3>3
  <2> QED
    BY <1>5, <2>1 DEF OutIn
<1>11. \A b \in On(bs) : /\ bs[b].runner \in DOMAIN inherits /\ ~ home(bs[b].runner)
                         /\ bs[b].pitcher = inherits[bs[b].runner]
  <2>1. ASSUME NEW i \in Landing(ms), NEW b \in On(bs), ms[i].to = b
        PROVE  /\ bs[b].runner \in DOMAIN inherits /\ ~ home(bs[b].runner)
               /\ bs[b].pitcher = inherits[bs[b].runner]
    <3>1. i \in Final(ms) /\ ms[i].outcome = "safe"
        BY DEF Landing, LandsOnBase
    <3>2. bs[b].runner = ms[i].runner
        BY <1>3, <2>1
    <3>3. ms[i].runner \in DOMAIN inherits
        BY <1>8, <3>1
    <3>4. bs[b].pitcher = inherits[ms[i].runner]
        BY <1>3, <2>1, <3>3
    <3>5. LastRow(ms, ms[i].runner) = i
        BY <1>6, <3>1
    <3> QED
        BY <3>1, <3>2, <3>3, <3>4, <3>5
  <2>2. ASSUME NEW b \in On(bs), b \in On(bases) \ Vacated(ms)
        PROVE  /\ bs[b].runner \in DOMAIN inherits /\ ~ home(bs[b].runner)
               /\ bs[b].pitcher = inherits[bs[b].runner]
    <3>1. bs[b].runner = bases[b].runner
        BY <1>2, <2>2
    <3>2. bases[b].runner \in DOMAIN inherits /\ LastRow(ms, bases[b].runner) = 0
        BY <1>5, <1>10, <2>2
    <3>3. bs[b].pitcher = inherits[bases[b].runner]
        BY <1>2, <2>2, <3>2 DEF PitcherOf
    <3> QED
        BY <3>1, <3>2, <3>3
  <2> QED
    BY <1>2, <2>1, <2>2
<1>12. \A x \in DOMAIN inherits : ~ home(x) => \E b \in On(bs) : bs[b].runner = x
  <2>1. ASSUME NEW x \in DOMAIN inherits, ~ home(x), x \in Movers(ms)
        PROVE  \E b \in On(bs) : bs[b].runner = x
    <3> DEFINE i == LastRow(ms, x)
    <3>1. i \in Final(ms) /\ i \in DOMAIN ms /\ i # 0 /\ ms[i].runner = x
        BY <1>4, <2>1
    <3>2. ms[i].outcome # "scored" /\ ms[i].outcome # "out"
        BY <2>1, <3>1 DEF OutIn, IsOut
    <3> HIDE DEF i
    <3>3. ms[i].outcome = "safe" /\ ms[i].to \in Base
        BY <3>1, <3>2 DEF Play
    <3>4. i \in Landing(ms)
        BY <3>1, <3>3 DEF Landing, LandsOnBase, Base
    <3>5. ms[i].to \in On(bs) /\ bs[ms[i].to].runner = ms[i].runner
        BY <1>3, <3>4
    <3> QED
        BY <3>1, <3>5
  <2>2. ASSUME NEW x \in DOMAIN inherits, x \notin Movers(ms)
        PROVE  \E b \in On(bs) : bs[b].runner = x
    <3>1. batter \in Movers(ms)
        BY DEF Play, Movers
    <3>2. PICK b \in On(bases) : bases[b].runner = x
        BY <2>2, <3>1
    <3>3. b \notin Vacated(ms)
        BY <2>2, <3>2 DEF RunOver, Movers
    <3>4. b \in On(bs) /\ bs[b].runner = bases[b].runner
        BY <1>2, <3>2, <3>3
    <3> QED
        BY <3>2, <3>4
  <2> QED
    BY <2>1, <2>2
<1>13. /\ IsFiniteSet(A) /\ IsFiniteSet(B) /\ Cardinality(C) = Cardinality(A) + Cardinality(B)
       /\ Cardinality(A) \in Nat /\ Cardinality(B) \in Nat
  <2>1. A \in SUBSET C /\ B \in SUBSET C /\ \A x \in C : x \in B <=> x \notin A
    OBVIOUS
  <2>2. IsFiniteSet(C)
    BY DEF HeirsOf
  <2> HIDE DEF A, B, C
  <2> QED
    BY <2>1, <2>2, PartsAddUp
<1>14. Cardinality(scored) = Cardinality(A)
  <2>1. \A x \in A : f[x] \in scored
    <3>1. ASSUME NEW x \in DOMAIN inherits, inherits[x] = p, home(x)
          PROVE  LastRow(ms, x) \in ScoredRows(ms) /\ ms[LastRow(ms, x)].pitcher = p
      <4>1. x \in Movers(ms)
          BY <1>5, <3>1
      <4>2. LastRow(ms, x) \in DOMAIN ms /\ ms[LastRow(ms, x)].runner = x
          BY <1>4, <4>1
      <4> QED
          BY <3>1, <4>2 DEF ScoredRows
    <3> QED
        BY <3>1
  <2>2. \A x, y \in A : f[x] = f[y] => x = y
    <3>1. ASSUME NEW x \in DOMAIN inherits, NEW y \in DOMAIN inherits, home(x), home(y),
                 LastRow(ms, x) = LastRow(ms, y)
          PROVE  x = y
      <4>1. x \in Movers(ms) /\ y \in Movers(ms)
          BY <1>5, <3>1
      <4> QED
          BY <1>4, <3>1, <4>1
    <3> QED
        BY <3>1
  <2>3. \A i \in scored : \E x \in A : f[x] = i
    <3>1. ASSUME NEW i \in ScoredRows(ms), ms[i].pitcher = p PROVE \E x \in A : f[x] = i
      <4>1. i \in Final(ms) /\ i \in DOMAIN ms /\ ms[i].outcome = "scored"
          BY <1>9 DEF ScoredRows
      <4>2. /\ ms[i].runner \in DOMAIN inherits /\ LastRow(ms, ms[i].runner) = i
            /\ LastRow(ms, ms[i].runner) # 0
          BY <1>4, <1>6, <1>8, <4>1
      <4>3. inherits[ms[i].runner] = p
          BY <3>1, <4>1, <4>2
      <4> QED
          BY <4>1, <4>2, <4>3
    <3> QED
        BY <3>1
  <2>4. IsFiniteSet(A)
    BY <1>13
  <2> HIDE DEF A, B, C, f, scored
  <2> QED
    BY <2>1, <2>2, <2>3, <2>4, MatchedCounted
<1>15. Cardinality(B) = Cardinality(on)
  <2>1. \A b \in on : g[b] \in B
    BY <1>11
  <2>2. \A b, c \in on : g[b] = g[c] => b = c
    BY DEF Apart
  <2>3. \A x \in B : \E b \in on : g[b] = x
    <3>1. ASSUME NEW x \in DOMAIN inherits, inherits[x] = p, ~ home(x) PROVE \E b \in on : g[b] = x
      <4>1. PICK b \in On(bs) : bs[b].runner = x
          BY <1>12, <3>1
      <4>2. bs[b].pitcher = p
          BY <1>11, <3>1, <4>1
      <4> QED
          BY <4>1, <4>2
    <3> HIDE DEF home
    <3> QED
        BY <3>1
  <2>4. IsFiniteSet(on)
    <3>1. IsFiniteSet(On(bs)) /\ on \in SUBSET On(bs)
        BY FinitelyMany
    <3> QED
        BY <3>1, FS_Subset
  <2> HIDE DEF B, g, on
  <2> QED
    BY <2>1, <2>2, <2>3, <2>4, MatchedCounted
<1> HIDE DEF C, A, B, scored, on
<1>16. Cardinality(C) = Cardinality(scored) + Cardinality(on)
    BY <1>13, <1>14, <1>15
<1> QED
    BY <1>13, <1>14, <1>15, <1>16 DEF C, scored, on, HeirsOf, HomeFor, OnFor


-----------------------------------------------------------------------------
(* A fielder's choice as a whole *)

\* The rows of a play that are charged anew bring about the same.
LEMMA SameRowsAlike ==
    ASSUME NEW ms, NEW cs, SameRows(ms, cs)
    PROVE  /\ Outs(cs) = Outs(ms)
           /\ \A x : LastRow(cs, x) = LastRow(ms, x)
<1>1. /\ DOMAIN cs = DOMAIN ms
      /\ \A i \in DOMAIN ms : /\ cs[i].runner = ms[i].runner /\ cs[i].from = ms[i].from
                              /\ cs[i].to = ms[i].to /\ cs[i].outcome = ms[i].outcome
    BY DEF SameRows
<1>2. {i \in DOMAIN cs : IsOut(cs[i])} = {i \in DOMAIN ms : IsOut(ms[i])}
    BY <1>1 DEF IsOut
<1>3. \A x : {i \in DOMAIN cs : cs[i].runner = x} = {i \in DOMAIN ms : ms[i].runner = x}
    BY <1>1
<1> QED
    BY <1>2, <1>3 DEF Outs, LastRow

\* Where the runners are before the rows of a play does not depend on who is charged.
LEMMA SoundAlike ==
    ASSUME NEW ms, RowSequence(ms), NEW cs, SameRows(ms, cs), OriginsAreSound(bases, cs)
    PROVE  /\ OriginsAreSound(bases, ms)
           /\ \A i \in DOMAIN ms : Earlier(cs, i) = Earlier(ms, i)
           /\ \A x : OutIn(cs, x) <=> OutIn(ms, x)
<1>1. /\ DOMAIN cs = DOMAIN ms
      /\ \A i \in DOMAIN ms : /\ cs[i].runner = ms[i].runner /\ cs[i].from = ms[i].from
                              /\ cs[i].to = ms[i].to /\ cs[i].outcome = ms[i].outcome
    BY DEF SameRows
<1>2. DOMAIN ms = 1 .. Len(ms) /\ Len(ms) \in Nat
    BY DEF RowSequence
<1>3. \A i \in DOMAIN ms : 1 .. i - 1 \subseteq DOMAIN ms
    BY <1>2
<1>4. \A i \in DOMAIN ms : Earlier(cs, i) = Earlier(ms, i)
    BY <1>1, <1>3 DEF Earlier
<1>5. ASSUME NEW i \in DOMAIN ms PROVE Position(bases, cs, i) = Position(bases, ms, i)
  <2> DEFINE E == Earlier(ms, i)
             last == CHOOSE j \in E : \A h \in E : h <= j
  <2>1. CASE E = {}
    BY <1>1, <1>4, <2>1 DEF Position
  <2>2. CASE E # {}
    <3>1. E \in SUBSET DOMAIN ms
        BY <1>3 DEF Earlier
    <3>2. last \in DOMAIN ms
      <4>1. E \in SUBSET (1 .. i - 1) /\ i - 1 \in Nat
          BY <1>2 DEF Earlier
      <4> HIDE DEF E
      <4>2. \E j \in E : \A h \in E : h <= j
          BY <4>1, <2>2, LastExists
      <4> QED
          BY <3>1, <4>2
    <3>3. LandsOnBase(cs[last]) <=> LandsOnBase(ms[last])
        BY <1>1, <3>2 DEF LandsOnBase
    <3>4. cs[last].to = ms[last].to
        BY <1>1, <3>2
    <3>5. Earlier(cs, i) = E
        BY <1>4
    <3>6. Position(bases, ms, i) = IF LandsOnBase(ms[last]) THEN ms[last].to ELSE 0
        BY <2>2 DEF Position
    <3>7. Position(bases, cs, i) = IF LandsOnBase(cs[last]) THEN cs[last].to ELSE 0
        BY <2>2, <3>5 DEF Position
    <3> QED
        BY <3>3, <3>4, <3>6, <3>7
  <2> QED
    BY <2>1, <2>2
<1>6. ASSUME NEW i \in DOMAIN ms, ms[i].from # 0
      PROVE  /\ Position(bases, ms, i) = ms[i].from
             /\ ~ \E j \in Earlier(ms, i) : ms[j].from = ms[i].from /\ Leaves(ms[j])
  <2>1. /\ Position(bases, cs, i) = cs[i].from
        /\ ~ \E j \in Earlier(cs, i) : cs[j].from = cs[i].from /\ Leaves(cs[j])
    BY <1>1, <1>6 DEF OriginsAreSound
  <2>2. Earlier(ms, i) \subseteq DOMAIN ms
    BY <1>3 DEF Earlier
  <2> QED
    BY <1>1, <1>4, <1>5, <2>1, <2>2 DEF Leaves
<1>7. \A x : LastRow(ms, x) = 0 \/ LastRow(ms, x) \in DOMAIN ms
    BY LastRowIs
<1>8. \A x : OutIn(cs, x) <=> OutIn(ms, x)
    BY <1>1, <1>7, SameRowsAlike DEF OutIn, IsOut
<1> QED
    BY <1>4, <1>6, <1>8 DEF OriginsAreSound

\* The rows of a fielder's choice, as they are charged first, and with who inherits whom.
FirstCharged(rows) ==
    Movements(<<BatterMovement("fielder_choice", 1, plate.pitcher)>>, rows, plate.pitcher)
ThenInherited(rows) == Inherited(FirstCharged(rows), "fielder_choice", plate.pitcher)
AtLast(rows) == WithPitchers(FirstCharged(rows), ThenInherited(rows))

\* It is a play of the rows it is made of.
LEMMA ChoiceIs ==
    ASSUME GameInv, plate # Nobody, NEW rows, RowsOfAPlay(Sought(1), rows),
           PlateResult("fielder_choice", 1, Nobody, rows)
    PROVE  LET named == FirstCharged(rows)
               inherits == ThenInherited(rows)
               last == AtLast(rows)
           IN  /\ Apart(bases) /\ plate.batter # Nobody
               /\ Play(named, plate.batter) /\ Charged(named)
               /\ \A i, j \in DOMAIN named : named[i].runner = named[j].runner /\ Earlier(named, j) = {} =>
                     named[i].pitcher = IF j = 1 \/ bases[named[j].from] = Nobody THEN plate.pitcher
                                        ELSE bases[named[j].from].pitcher
               /\ \A x \in DOMAIN inherits : inherits[x] \in PitcherNow
               /\ SameRows(named, last) /\ Play(last, plate.batter) /\ Charged(last)
               /\ \A i \in DOMAIN named : last[i].pitcher = PitcherOf(named[i], inherits)
               /\ ApplyMovements(last, Nobody, 1, inherits)
<1> DEFINE leading == <<BatterMovement("fielder_choice", 1, plate.pitcher)>>
           ms == leading \o rows
           named == FirstCharged(rows)
           inherits == ThenInherited(rows)
           last == AtLast(rows)
<1>1. ApplyMovements(last, Nobody, 1, inherits)
    BY DEF PlateResult, AtLast, ThenInherited, FirstCharged
<1>2. plate \in Plate /\ plate.pitcher \in PitcherNow
    BY WhoPitches
<1>3. Apart(bases)
    BY DEF GameInv, Apart, GameTypes, RunnersAreKept
<1>4. named = Movements(leading, rows, plate.pitcher)
    BY DEF FirstCharged
<1>5. ms = leading \o rows
      /\ ms = WithBatter(BatterMovement("fielder_choice", 1, plate.pitcher), rows)
    BY DEF WithBatter
<1> HIDE DEF ms, named
<1>6. /\ Play(ms, plate.batter) /\ ms \in Seq(PlayRow) /\ 1 \in DOMAIN ms
      /\ ms[1].runner = plate.batter /\ ms[1].pitcher = plate.pitcher
  <2>1. 1 \in Ends /\ "fielder_choice" \in Results
    BY DEF Ends, Results
  <2>2. ms = WithBatter(BatterMovement("fielder_choice", 1, plate.pitcher), rows)
    BY <1>5
  <2> QED
    BY <1>2, <2>1, <2>2, BatterPlays
<1>7. plate.batter # Nobody
  <2>1. plate.batter \in HitterNow
    BY <1>2 DEF Plate
  <2> QED
    BY <2>1, Lineups
<1>8. Len(leading) = 1 /\ leading[1].pitcher = plate.pitcher
  <2>1. leading[1] = BatterMovement("fielder_choice", 1, plate.pitcher) /\ Len(leading) = 1
    OBVIOUS
  <2> QED
    BY <2>1 DEF BatterMovement
<1> HIDE DEF leading
<1>9. /\ SameRows(ms, named) /\ Play(named, plate.batter) /\ Charged(named)
      /\ \A i, j \in DOMAIN ms : ms[i].runner = ms[j].runner /\ Earlier(ms, j) = {}
            => named[i].pitcher = ChargedFor(leading, ms, plate.pitcher, j)
  <2> DEFINE charged == Movements(leading, rows, plate.pitcher)
  <2>1. ms = leading \o rows
    BY <1>5
  <2>2. SameRows(ms, charged) /\ Play(charged, plate.batter) /\ Charged(charged)
    BY <1>2, <1>3, <1>6, <1>7, <1>8, <2>1, MovementsAre
  <2>3. ChargedByFirst(leading, ms, plate.pitcher, charged)
    BY <1>2, <1>3, <1>6, <1>7, <1>8, <2>1, MovementsAre
  <2>4. named = charged
    BY <1>4
  <2> HIDE DEF charged
  <2> QED
    BY <2>2, <2>3, <2>4 DEF ChargedByFirst
<1>10. \A i, j \in DOMAIN named : named[i].runner = named[j].runner /\ Earlier(named, j) = {} =>
          named[i].pitcher = IF j = 1 \/ bases[named[j].from] = Nobody THEN plate.pitcher
                             ELSE bases[named[j].from].pitcher
  <2>1. /\ DOMAIN named = DOMAIN ms
        /\ \A i \in DOMAIN ms : named[i].runner = ms[i].runner /\ named[i].from = ms[i].from
    BY <1>9 DEF SameRows
  <2>2. DOMAIN ms = 1 .. Len(ms) /\ Len(ms) \in Nat
    BY <1>6 DEF Play, RowSequence
  <2>3. ASSUME NEW i \in DOMAIN ms, NEW j \in DOMAIN ms, ms[i].runner = ms[j].runner, Earlier(named, j) = {}
        PROVE  named[i].pitcher = IF j = 1 \/ bases[ms[j].from] = Nobody THEN plate.pitcher
                                  ELSE bases[ms[j].from].pitcher
    <3>1. Earlier(ms, j) = {}
      <4>1. 1 .. j - 1 \subseteq DOMAIN ms
          BY <2>2
      <4> QED
          BY <2>1, <2>3, <4>1 DEF Earlier
    <3>2. named[i].pitcher = ChargedFor(leading, ms, plate.pitcher, j)
        BY <1>9, <2>3, <3>1
    <3>3. j \in Nat /\ j >= 1
        BY <2>2
    <3>4. CASE j = 1
        BY <1>8, <3>2, <3>4 DEF ChargedFor
    <3>5. CASE j # 1
      <4>1. ~ (j <= Len(leading))
          BY <1>8, <3>3, <3>5
      <4> QED
          BY <3>2, <3>5, <4>1 DEF ChargedFor
    <3> QED
        BY <3>4, <3>5
  <2> QED
    BY <2>1, <2>3
<1>11. \A x \in DOMAIN inherits : inherits[x] \in PitcherNow
  <2>1. \A x \in DOMAIN Inherited(named, "fielder_choice", plate.pitcher) :
            Inherited(named, "fielder_choice", plate.pitcher)[x] \in PitcherNow
    BY <1>3, <1>7, <1>9, InheritedAre
  <2> QED
    BY <2>1 DEF ThenInherited, named
<1>12. last = WithPitchers(named, inherits)
    BY DEF AtLast, named
<1> HIDE DEF inherits, last
<1>13. /\ SameRows(named, last) /\ Play(last, plate.batter) /\ Charged(last)
       /\ \A i \in DOMAIN named : last[i].pitcher = PitcherOf(named[i], inherits)
  <2>1. named \in Seq(PlayRow)
    BY <1>9 DEF SameRows
  <2> QED
    BY <1>9, <1>11, <1>12, <2>1, Reinherited
<1> QED
    BY <1>1, <1>3, <1>7, <1>9, <1>10, <1>11, <1>13 DEF named, inherits, last

\* When one more is out, the batter is on a base and no one is missing, no one was run
\* over, and the batter is not the one who is out.
LEMMA ChoiceComesOut ==
    ASSUME GameInv, plate # Nobody, NEW last, Play(last, plate.batter), Charged(last), plate.batter # Nobody,
           Apart(bases),
           NEW inherits, \A x \in DOMAIN inherits : inherits[x] \in PitcherNow,
           ApplyMovements(last, Nobody, 1, inherits), outs' = outs + 1, outs' < 3,
           \E b \in On(bases') : bases'[b].runner = plate.batter,
           Cardinality(On(bases')) + score'[Batting] = Cardinality(On(bases)) + score[Batting]
    PROVE  /\ OriginsAreSound(bases, last) /\ DestinationsAreFree(bases, last)
           /\ Outs(last) = 1 /\ RunOver(last) = {} /\ ~ OutIn(last, plate.batter)
           /\ \A i \in DOMAIN last : IsOut(last[i]) => last[i].runner # plate.batter
           /\ Apart(bases') /\ On(bases') = On(Placed(bases, last))
           /\ \A b \in On(bases') : /\ bases'[b].runner = Placed(bases, last)[b].runner
                                    /\ bases'[b].pitcher = PitcherOf(Placed(bases, last)[b], inherits)
           /\ chargedTo' = [p \in DOMAIN chargedTo |->
                               chargedTo[p] + Cardinality({i \in ScoredRows(last) : last[i].pitcher = p})]
<1> DEFINE pl == Placed(bases, last)
<1>1. RowSequence(last)
    BY DEF Play
<1>2. outs \in 0 .. 3 /\ score \in [Side -> Nat] /\ Batting \in Side
    BY Lineups DEF GameInv, GameTypes
<1>3. PICK moved :
        /\ OriginsAreSound(bases, last) /\ moved.outs \in 0 .. 3
        /\ moved.outs < 3 =>
             /\ DestinationsAreFree(bases, last) /\ moved.bases = pl
             /\ moved.scored = ScoredRows(last)
             /\ moved.outs = outs + Outs(last)
        /\ outs' = moved.outs
        /\ bases' = WithPitchers(moved.bases, inherits)
        /\ score' = [score EXCEPT ![Batting] = @ + Cardinality(moved.scored)]
        /\ chargedTo' = [p \in DOMAIN chargedTo |->
                           chargedTo[p] + Cardinality({i \in moved.scored : last[i].pitcher = p})]
    BY <1>1, <1>2, Applied
<1>4. /\ DestinationsAreFree(bases, last) /\ moved.bases = pl /\ moved.scored = ScoredRows(last)
    BY <1>3
<1>5. Outs(last) = 1
  <2>1. Outs(last) \in Nat
    BY <1>1, OutsCounted
  <2> QED
    BY <1>2, <1>3, <2>1
<1>6. /\ Cardinality(On(pl)) = Cardinality(On(bases)) - Cardinality(ScoredRows(last)) - Cardinality(RunOver(last))
      /\ Cardinality(ScoredRows(last)) \in Nat
  <2>1. Cardinality(On(pl))
           = Cardinality(On(bases)) + (IF plate.batter # Nobody THEN 1 ELSE 0) - Outs(last)
               - Cardinality(ScoredRows(last)) - Cardinality(RunOver(last))
    BY <1>3, <1>4, RunnersCounted
  <2>2. Cardinality(ScoredRows(last)) \in Nat
    BY LastRowsSplit
  <2>3. IsFiniteSet(On(bases)) /\ RunOver(last) \in SUBSET On(bases)
    BY FinitelyMany DEF RunOver
  <2>4. Cardinality(On(bases)) \in Nat /\ Cardinality(RunOver(last)) \in Nat
    BY <2>3, FS_Subset, FS_CardinalityType
  <2> QED
    BY <1>5, <2>1, <2>2, <2>4
<1>7. /\ Apart(pl) /\ On(pl) = {last[i].to : i \in Landing(last)} \cup (On(bases) \ Vacated(last))
      /\ \A i \in Landing(last) : pl[last[i].to] = [runner |-> last[i].runner, pitcher |-> last[i].pitcher]
      /\ \A b \in On(bases) \ Vacated(last) : pl[b] = bases[b]
    BY <1>3, <1>4, PlacedOn
<1> HIDE DEF pl
<1>8. /\ Apart(bases') /\ On(bases') = On(pl)
      /\ \A b \in On(pl) : bases'[b].runner = pl[b].runner /\ bases'[b].pitcher = PitcherOf(pl[b], inherits)
  <2>1. bases' = WithPitchers(pl, inherits)
    BY <1>3, <1>4
  <2>2. /\ Apart(WithPitchers(pl, inherits)) /\ On(WithPitchers(pl, inherits)) = On(pl)
        /\ \A b \in On(pl) : WithPitchers(pl, inherits)[b].runner = pl[b].runner
        /\ \A b \in On(pl) : WithPitchers(pl, inherits)[b].pitcher = PitcherOf(pl[b], inherits)
    BY <1>7, WithPitchersKept
  <2> QED
    BY <2>1, <2>2
<1>9. RunOver(last) = {}
  <2>1. score'[Batting] = score[Batting] + Cardinality(ScoredRows(last)) /\ score[Batting] \in Nat
    BY <1>2, <1>3, <1>4
  <2>2. IsFiniteSet(On(bases)) /\ RunOver(last) \in SUBSET On(bases)
    BY FinitelyMany DEF RunOver
  <2>3. IsFiniteSet(RunOver(last)) /\ Cardinality(RunOver(last)) \in Nat
    BY <2>2, FS_Subset, FS_CardinalityType
  <2>4. Cardinality(On(bases)) \in Nat
    BY <2>2, FS_CardinalityType
  <2>5. Cardinality(RunOver(last)) = 0
    BY <1>6, <1>8, <2>1, <2>3, <2>4
  <2> QED
    BY <2>3, <2>5, FS_EmptySet
<1>10. PICK i \in Landing(last) : last[i].runner = plate.batter
  <2>1. PICK b \in On(pl) : pl[b].runner = plate.batter
    BY <1>8
  <2>2. \A c \in On(bases) : bases[c].runner # plate.batter
    BY DEF Play
  <2>3. PICK j \in Landing(last) : b = last[j].to
    BY <1>7, <2>1, <2>2
  <2>4. pl[last[j].to] = [runner |-> last[j].runner, pitcher |-> last[j].pitcher]
    BY <1>7
  <2>5. pl[last[j].to].runner = last[j].runner
    BY <2>4
  <2> QED
    BY <2>1, <2>3, <2>5
<1>11. i \in Final(last) /\ i \in DOMAIN last /\ ~ IsOut(last[i])
    BY DEF Landing, Final, LandsOnBase, IsOut
<1>12. \A j \in Final(last) : last[j].runner = plate.batter => j = i
    BY <1>1, <1>10, <1>11, LastRows
<1>13. ~ OutIn(last, plate.batter)
  <2>1. plate.batter \in Movers(last)
    BY <1>10, <1>11 DEF Movers
  <2>2. LastRow(last, plate.batter) \in Final(last) /\ last[LastRow(last, plate.batter)].runner = plate.batter
    BY <1>1, <2>1, LastRowIs
  <2> QED
    BY <1>11, <1>12, <2>2 DEF OutIn
<1>14. \A j \in DOMAIN last : IsOut(last[j]) => last[j].runner # plate.batter
  <2>1. \A j \in DOMAIN last : IsOut(last[j]) => j \in Final(last)
    BY OnlyTheLastEnds DEF IsOut
  <2> QED
    BY <1>11, <1>12, <2>1
<1> QED
    BY <1>3, <1>4, <1>5, <1>8, <1>9, <1>13, <1>14 DEF pl

\* The pitchers before owe what they did when one is out and the batter stays on.
LEMMA ChoiceOwes ==
    ASSUME GameInv, plate # Nobody, NEW rows, RowsOfAPlay(Sought(1), rows),
           PlateResult("fielder_choice", 1, Nobody, rows), outs' = outs + 1, outs' < 3,
           \E b \in On(bases') : bases'[b].runner = plate.batter,
           Cardinality(On(bases')) + score'[Batting] = Cardinality(On(bases)) + score[Batting],
           NEW p \in Pitchers[Fielding], p # plate.pitcher
    PROVE  Owed(p)' = Owed(p)
<1> DEFINE named == FirstCharged(rows)
           inherits == ThenInherited(rows)
           last == AtLast(rows)
           heirs == HeirsOf(inherits, p)
           home == HomeFor(last, p)
           before == OnFor(bases, p)
           after == OnFor(bases', p)
<1>1. /\ Apart(bases) /\ plate.batter # Nobody
      /\ Play(named, plate.batter) /\ Charged(named)
      /\ \A i, j \in DOMAIN named : named[i].runner = named[j].runner /\ Earlier(named, j) = {} =>
            named[i].pitcher = IF j = 1 \/ bases[named[j].from] = Nobody THEN plate.pitcher
                               ELSE bases[named[j].from].pitcher
      /\ \A x \in DOMAIN inherits : inherits[x] \in PitcherNow
      /\ SameRows(named, last) /\ Play(last, plate.batter) /\ Charged(last)
      /\ \A i \in DOMAIN named : last[i].pitcher = PitcherOf(named[i], inherits)
      /\ ApplyMovements(last, Nobody, 1, inherits)
    BY ChoiceIs
<1>2. inherits = Inherited(named, "fielder_choice", plate.pitcher)
    BY DEF ThenInherited
<1> HIDE DEF named, inherits, last
<1>3. /\ OriginsAreSound(bases, last) /\ DestinationsAreFree(bases, last)
      /\ Outs(last) = 1 /\ RunOver(last) = {} /\ ~ OutIn(last, plate.batter)
      /\ \A i \in DOMAIN last : IsOut(last[i]) => last[i].runner # plate.batter
      /\ Apart(bases') /\ On(bases') = On(Placed(bases, last))
      /\ \A b \in On(bases') : /\ bases'[b].runner = Placed(bases, last)[b].runner
                               /\ bases'[b].pitcher = PitcherOf(Placed(bases, last)[b], inherits)
      /\ chargedTo' = [q \in DOMAIN chargedTo |->
                          chargedTo[q] + Cardinality({i \in ScoredRows(last) : last[i].pitcher = q})]
    BY <1>1, ChoiceComesOut
<1>4. RowSequence(named)
    BY <1>1 DEF Play
<1>5. /\ DOMAIN last = DOMAIN named
      /\ \A i \in DOMAIN named : last[i].runner = named[i].runner /\ last[i].outcome = named[i].outcome
    BY <1>1 DEF SameRows
<1>6. /\ OriginsAreSound(bases, named) /\ Outs(named) = 1
      /\ \A x : OutIn(last, x) <=> OutIn(named, x)
    BY <1>1, <1>3, <1>4, SoundAlike, SameRowsAlike
<1>7. Choice(named, plate.batter, plate.pitcher)
    BY <1>1, <1>6 DEF Choice
<1>8. \A i \in DOMAIN named : IsOut(named[i]) => named[i].runner # plate.batter
    BY <1>3, <1>5 DEF IsOut
<1>9. IsFiniteSet(heirs) /\ Cardinality(heirs) = Cardinality(before)
    BY <1>2, <1>6, <1>7, <1>8, InheritedCounted
<1>10. \A x : x \in DOMAIN inherits <=>
              /\ ~ OutIn(last, x)
              /\ x = plate.batter \/ \E b \in On(bases) : bases[b].runner = x
  <2>1. DOMAIN inherits = {r.runner : r \in Survivors(named)}
    <3>1. PICK out \in Involved(named) : MovesUp(named, plate.pitcher, out)
        BY <1>6, <1>7, <1>8, WhoInherits
    <3> QED
        BY <1>2, <3>1 DEF MovesUp
  <2>2. \A r \in Involved(named) : \/ r.origin = 0 /\ r.runner = plate.batter
                                   \/ r.origin \in On(bases) /\ r.runner = bases[r.origin].runner
    BY <1>1, InvolvedAre
  <2>3. \E r \in Involved(named) : r.runner = plate.batter
    <3>1. PICK r \in Involved(named) : r.origin = 0
        BY <1>1, InvolvedAre
    <3>2. 0 \notin On(bases)
        BY DEF On, Base
    <3> QED
        BY <2>2, <3>1, <3>2
  <2>4. \A b \in On(bases) : \E r \in Involved(named) : r.runner = bases[b].runner
    <3>1. ASSUME NEW b \in On(bases) PROVE \E r \in Involved(named) : r.runner = bases[b].runner
      <4>1. PICK r \in Involved(named) : r.origin = b
          BY <1>1, InvolvedAre
      <4>2. b # 0
          BY DEF On, Base
      <4> QED
          BY <2>2, <4>1, <4>2
    <3> QED
        BY <3>1
  <2>5. ASSUME NEW x PROVE x \in DOMAIN inherits <=> \E r \in Involved(named) : r.runner = x /\ ~ OutIn(named, x)
    BY <2>1 DEF Survivors
  <2> QED
    BY <1>6, <2>2, <2>3, <2>4, <2>5
<1>11. \A i \in DOMAIN last : last[i].runner \in DOMAIN inherits => last[i].pitcher = inherits[last[i].runner]
    BY <1>1, <1>5 DEF PitcherOf
<1>12. /\ Cardinality(heirs) = Cardinality(home) + Cardinality(after)
       /\ Cardinality(home) \in Nat /\ Cardinality(after) \in Nat
    BY <1>1, <1>3, <1>9, <1>10, <1>11, EndsCounted
<1> HIDE DEF heirs, before
<1>13. p \in Players(Pitchers) /\ DOMAIN chargedTo = Players(Pitchers) /\ chargedTo[p] \in Nat
    BY Lineups DEF GameInv, GameTypes
<1>14. chargedTo'[p] = chargedTo[p] + Cardinality(home)
    BY <1>3, <1>13 DEF HomeFor
<1> HIDE DEF home, after
<1>15. chargedTo'[p] + Cardinality(after) = chargedTo[p] + Cardinality(before)
    BY <1>9, <1>12, <1>13, <1>14
<1> QED
    BY <1>15 DEF Owed, before, after, OnFor

\* When a fielder's choice has one more out and the batter stays on, with no one missing.
OneIsChosen ==
    /\ plate # Nobody /\ plate' = Nobody /\ ended'.result = "fielder_choice"
    /\ outs' = outs + 1 /\ outs' < 3
    /\ \E b \in On(bases') : bases'[b].runner = plate.batter
    /\ Cardinality(On(bases')) + score'[Batting] = Cardinality(On(bases)) + score[Batting]

\* Only a play of that result is such a step.
LEMMA OnlyAChoice ==
    ASSUME GameInv, [GameNext]_gameVars, OneIsChosen
    PROVE  \E rows : RowsOfAPlay(Sought(1), rows) /\ PlateResult("fielder_choice", 1, Nobody, rows)
<1>1. plate # Nobody /\ plate' = Nobody /\ ended'.result = "fielder_choice" /\ outs' = outs + 1
    BY DEF OneIsChosen
<1>2. outs \in 0 .. 3
    BY DEF GameInv, GameTypes
<1>3. ASSUME HalfStart PROVE FALSE
  <2>1. outs' = 0
    BY <1>3 DEF HalfStart
  <2> QED
    BY <1>1, <1>2, <2>1
<1>4. ASSUME NEW pitcher, BatterStart(pitcher) PROVE FALSE
    BY <1>1, <1>4 DEF BatterStart
<1>5. ASSUME outs' = outs PROVE FALSE
    BY <1>1, <1>2, <1>5
<1>6. ASSUME plate' = plate PROVE FALSE
    BY <1>1, <1>6
<1>7. CASE GameNext
  <2>1. \/ HalfStart
        \/ \E p \in Pitchers[Fielding] : BatterStart(p)
        \/ \E call \in {"ball", "strike", "foul"} : Pitch(call)
        \/ \E p \in Pitchers[Fielding] : ChangePitcher(p)
        \/ ChangeBatter
        \/ \E b \in Base : ChangeRunner(b)
        \/ \E result \in Results, destination \in 0 .. 4, direct \in {Nobody, 2} :
              /\ destination \in Destinations(result) /\ direct \in DirectOuts(result)
              /\ \/ PlateResult(result, destination, direct, <<>>)
                 \/ \E r \in Rows(Sought(destination)) :
                       \/ PlateResult(result, destination, direct, <<r>>)
                       \/ \E s \in Rows(After(Sought(destination), r)) :
                             PlateResult(result, destination, direct, <<r, s>>)
        \/ \E r \in Rows(Runners) :
              \/ RunnerPlay(<<r>>)
              \/ \E s \in Rows(After(Runners, r)) : RunnerPlay(<<r, s>>)
    BY <1>7 DEF GameNext, Sought
  <2>2. ASSUME NEW call, Pitch(call) PROVE FALSE
    BY <1>5, <2>2 DEF Pitch
  <2>3. ASSUME NEW p, ChangePitcher(p) PROVE FALSE
    BY <1>5, <2>3 DEF ChangePitcher
  <2>4. ASSUME ChangeBatter PROVE FALSE
    BY <1>5, <2>4 DEF ChangeBatter
  <2>5. ASSUME NEW b, ChangeRunner(b) PROVE FALSE
    BY <1>5, <2>5 DEF ChangeRunner
  <2>6. ASSUME NEW rows, RunnerPlay(rows) PROVE FALSE
    BY <1>6, <2>6 DEF RunnerPlay
  <2>7. ASSUME NEW result, NEW destination, NEW direct, NEW rows,
               PlateResult(result, destination, direct, rows)
        PROVE  result = "fielder_choice"
    BY <1>1, <2>7 DEF PlateResult
  <2>8. PICK result \in Results, destination \in 0 .. 4, direct \in {Nobody, 2} :
              /\ destination \in Destinations(result) /\ direct \in DirectOuts(result)
              /\ \/ PlateResult(result, destination, direct, <<>>)
                 \/ \E r \in Rows(Sought(destination)) :
                       \/ PlateResult(result, destination, direct, <<r>>)
                       \/ \E s \in Rows(After(Sought(destination), r)) :
                             PlateResult(result, destination, direct, <<r, s>>)
    BY <1>3, <1>4, <2>1, <2>2, <2>3, <2>4, <2>5, <2>6
  <2>9. PICK rows : RowsOfAPlay(Sought(destination), rows) /\ PlateResult(result, destination, direct, rows)
    BY <2>8 DEF RowsOfAPlay
  <2>10. result = "fielder_choice"
    BY <2>7, <2>9
  <2>11. destination = 1 /\ direct = Nobody
    BY <2>8, <2>10 DEF Destinations, RequiredDestination, DirectOuts
  <2> QED
    BY <2>9, <2>10, <2>11
<1>8. CASE UNCHANGED gameVars
    BY <1>6, <1>8 DEF gameVars
<1> QED
    BY <1>7, <1>8

\* In such a step the pitchers before owe what they did.
LEMMA ChoiceStepOwes ==
    ASSUME GameInv, [GameNext]_gameVars, OneIsChosen
    PROVE  \A p \in Pitchers[Fielding] \ {plate.pitcher} : Owed(p)' = Owed(p)
<1>1. PICK rows : RowsOfAPlay(Sought(1), rows) /\ PlateResult("fielder_choice", 1, Nobody, rows)
    BY OnlyAChoice
<1>2. /\ plate # Nobody /\ outs' = outs + 1 /\ outs' < 3
      /\ \E b \in On(bases') : bases'[b].runner = plate.batter
      /\ Cardinality(On(bases')) + score'[Batting] = Cardinality(On(bases)) + score[Batting]
    BY DEF OneIsChosen
<1>3. ASSUME NEW p \in Pitchers[Fielding], p # plate.pitcher PROVE Owed(p)' = Owed(p)
    BY <1>1, <1>2, <1>3, ChoiceOwes
<1> QED
    BY <1>3

\* When a runner is out on a fielder's choice and the batter stays on, the pitchers before
\* owe what they did.
THEOREM ChoicesKept == GameSpec => ChoicesKeepWhatIsOwed
<1>1. GameInit => GameInv
    BY GameStarts
<1>2. GameInv /\ [GameNext]_gameVars => GameInv'
    BY GameStepKeeps
<1>3. GameInv /\ [GameNext]_gameVars =>
        [OneIsChosen => \A p \in Pitchers[Fielding] \ {plate.pitcher} : Owed(p)' = Owed(p)]_gameVars
    BY ChoiceStepOwes
<1> QED
    BY <1>1, <1>2, <1>3, PTL DEF GameSpec, ChoicesKeepWhatIsOwed, OneIsChosen
=============================================================================
