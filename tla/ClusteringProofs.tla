-------------------------- MODULE ClusteringProofs --------------------------
(***************************************************************************)
(* Proofs about Clustering: for every finite set of alerts, the clusters   *)
(* of a flush are a partition in which linked alerts are together, and the *)
(* cap cuts an oversize cluster, in the order the alerts fired, into       *)
(* pieces of which only the last may not be full.                          *)
(***************************************************************************)
EXTENDS Clustering, FiniteSetTheorems, TLAPS

-----------------------------------------------------------------------------
(* Induction, stated about sets so that it can be cited.                   *)

LEMMA NatLeast ==
  ASSUME NEW T \in SUBSET Nat, T # {}
  PROVE  \E n \in T : \A m \in T : n <= m
<1>1. PICK n \in T : \A m \in T : ~ (<<m, n>> \in OpToRel(<, Nat))
  BY NatLessThanWellFounded, WFMin
<1>2. ASSUME NEW m \in T PROVE n <= m
  <2>1. ~ (m < n)
    BY <1>1 DEF OpToRel
  <2> QED
    BY <2>1
<1> QED
  BY <1>2

LEMMA NatSetInduction ==
  ASSUME NEW T, 0 \in T, \A n \in Nat : n \in T => n + 1 \in T
  PROVE  Nat \subseteq T
<1> DEFINE Bad == {n \in Nat : n \notin T}
<1> SUFFICES ASSUME Bad # {} PROVE FALSE
  OBVIOUS
<1>1. PICK n \in Bad : \A m \in Bad : n <= m
  BY NatLeast
<1>2. n # 0 /\ n \in Nat /\ n - 1 \in Nat
  OBVIOUS
<1>3. n - 1 \in T
  BY <1>1, <1>2
<1>4. (n - 1) + 1 \in T
  BY <1>2, <1>3
<1> QED
  BY <1>2, <1>4

(* What holds of the empty set, and of a set when it holds of the set      *)
(* without any one of its elements, holds of all finite sets.              *)
LEMMA SetDescent ==
  ASSUME NEW S, IsFiniteSet(S), NEW T, {} \in T,
         \A U \in SUBSET S : U # {} /\ (\A x \in U : U \ {x} \in T) => U \in T
  PROVE  SUBSET S \subseteq T
<1> DEFINE Bad == {U \in SUBSET S : U \notin T}
<1> SUFFICES ASSUME Bad # {} PROVE FALSE
  OBVIOUS
<1>1. IsWellFoundedOn(StrictSubsetOrdering(S), SUBSET S)
  BY FS_StrictSubsetOrderingWellFounded, FS_FiniteSubsetsOfFinite
<1>2. PICK U \in Bad : \A V \in Bad : ~ (<<V, U>> \in StrictSubsetOrdering(S))
  BY <1>1, WFMin
<1>3. ASSUME NEW x \in U PROVE U \ {x} \in T
  <2>1. <<U \ {x}, U>> \in StrictSubsetOrdering(S)
    BY DEF StrictSubsetOrdering
  <2> QED
    BY <1>2, <2>1
<1> QED
  BY <1>2, <1>3

(* An integer-valued function has its least value on a finite set.         *)
LEMMA FiniteLeast ==
  ASSUME NEW S, IsFiniteSet(S), S # {}, NEW f, \A x \in S : f[x] \in Int
  PROVE  \E x \in S : \A y \in S : f[x] <= f[y]
<1> DEFINE T == {U \in SUBSET S : U # {} => \E x \in U : \A y \in U : f[x] <= f[y]}
<1>1. {} \in T
  OBVIOUS
<1>2. ASSUME NEW U \in SUBSET S, U # {}, \A x \in U : U \ {x} \in T PROVE U \in T
  <2>1. PICK z \in U : TRUE
    BY <1>2
  <2>2. CASE U = {z}
    <3>1. f[z] <= f[z]
      BY <2>1
    <3> QED
      BY <2>2, <3>1
  <2>3. CASE U # {z}
    <3>1. PICK x \in U \ {z} : \A y \in U \ {z} : f[x] <= f[y]
      BY <1>2, <2>1, <2>3
    <3>2. f[x] \in Int /\ f[z] \in Int /\ \A y \in U : f[y] \in Int
      BY <2>1, <3>1
    <3>3. CASE f[x] <= f[z]
      <4>1. \A y \in U : f[x] <= f[y]
        BY <3>1, <3>3
      <4> QED
        BY <3>1, <4>1
    <3>4. CASE f[z] < f[x]
      <4>1. \A y \in U : f[z] <= f[y]
        BY <3>1, <3>2, <3>4
      <4> QED
        BY <2>1, <4>1
    <3> QED
      BY <3>2, <3>3, <3>4
  <2> QED
    BY <2>2, <2>3
<1>3. SUBSET S \subseteq T
  <2> HIDE DEF T
  <2> QED
    BY <1>1, <1>2, SetDescent
<1> QED
  BY <1>3

-----------------------------------------------------------------------------
(* The fold of Clusters: it exists, and its value on a set comes from its  *)
(* value on the set without the element chosen first.                      *)
Pick(s) == CHOOSE x \in s : TRUE

Partial(base, s, h) == IF s = {} THEN base ELSE Merge(Pick(s), h[s \ {Pick(s)}])

IsFold(h, D, base) == h = [s \in D |-> Partial(base, s, h)]

LEMMA PartialExists ==
  ASSUME NEW U, IsFiniteSet(U), NEW base
  PROVE  \E h : IsFold(h, SUBSET U, base)
<1> DEFINE D(n) == {s \in SUBSET U : Cardinality(s) <= n}
           T == {n \in Nat : \E h : IsFold(h, D(n), base)}
<1>1. \A s \in SUBSET U : IsFiniteSet(s) /\ Cardinality(s) \in Nat
  BY FS_Subset, FS_CardinalityType
<1>2. \A s \in SUBSET U : Cardinality(s) = 0 <=> s = {}
  BY <1>1, FS_EmptySet
<1>3. \A s \in SUBSET U :
        s # {} => Pick(s) \in s /\ Cardinality(s \ {Pick(s)}) = Cardinality(s) - 1
  <2> TAKE s \in SUBSET U
  <2> HAVE s # {}
  <2>1. Pick(s) \in s
    BY DEF Pick
  <2> QED
    BY <1>1, <2>1, FS_RemoveElement
<1>4. 0 \in T
  <2> DEFINE h0 == [s \in D(0) |-> base]
  <2>1. D(0) = {{}}
    BY <1>1, <1>2
  <2>2. IsFold(h0, D(0), base)
    <3>1. \A s \in D(0) : Partial(base, s, h0) = base
      BY <2>1 DEF Partial
    <3> HIDE DEF h0, D
    <3> QED
      BY <3>1 DEF h0, IsFold
  <2> QED
    BY <2>2
<1>5. ASSUME NEW n \in Nat, n \in T PROVE n + 1 \in T
  <2>1. PICK h : IsFold(h, D(n), base)
    BY <1>5
  <2> DEFINE g == [s \in D(n + 1) |-> Partial(base, s, h)]
  <2>2. \A s \in D(n) : s \in D(n + 1) /\ g[s] = h[s]
    <3>1. D(n) \subseteq D(n + 1)
      BY <1>1
    <3> HIDE DEF D
    <3>2. \A s \in D(n) : h[s] = Partial(base, s, h)
      BY <2>1 DEF IsFold
    <3> QED
      BY <3>1, <3>2
  <2>3. \A s \in D(n + 1) : s # {} => s \ {Pick(s)} \in D(n)
    <3> SUFFICES ASSUME NEW s \in SUBSET U, Cardinality(s) <= n + 1, s # {}
                 PROVE  Cardinality(s \ {Pick(s)}) <= n
      OBVIOUS
    <3>1. Cardinality(s) \in Nat /\ Cardinality(s \ {Pick(s)}) = Cardinality(s) - 1
      BY <1>1, <1>3
    <3> QED
      BY <3>1
  <2>4. \A s \in D(n + 1) : Partial(base, s, g) = Partial(base, s, h)
    <3> HIDE DEF g, D
    <3> QED
      BY <2>2, <2>3 DEF Partial
  <2>5. IsFold(g, D(n + 1), base)
    <3> HIDE DEF D
    <3>1. g = [s \in D(n + 1) |-> Partial(base, s, h)]
      OBVIOUS
    <3> HIDE DEF g
    <3> QED
      BY <2>4, <3>1 DEF IsFold
  <2> HIDE DEF g, D
  <2> QED
    BY <2>5
<1>6. Nat \subseteq T
  <2> HIDE DEF T
  <2> QED
    BY <1>4, <1>5, NatSetInduction
<1>7. D(Cardinality(U)) = SUBSET U
  BY <1>1, FS_Subset
<1>8. Cardinality(U) \in T
  BY <1>1, <1>6
<1> QED
  BY <1>7, <1>8

LEMMA ClustersByFold ==
  ASSUME NEW alerts, IsFiniteSet(Unions(alerts))
  PROVE  \E h : /\ IsFold(h, SUBSET Unions(alerts), {{e} : e \in alerts})
               /\ Clusters(alerts) = h[Unions(alerts)]
<1> DEFINE U == Unions(alerts)
           base == {{e} : e \in alerts}
           iter == CHOOSE h : IsFold(h, SUBSET U, base)
<1>1. Clusters(alerts) = iter[U]
  BY DEF Clusters, FoldSet, MapThenFoldSet, IsFold, Partial, Pick
<1>2. \E h : IsFold(h, SUBSET U, base)
  BY PartialExists
<1>3. IsFold(iter, SUBSET U, base)
  BY <1>2
<1> HIDE DEF iter
<1> QED
  BY <1>1, <1>3

-----------------------------------------------------------------------------
(* The clusters.                                                           *)

(* What a flush may find in the buffer: finitely many alerts with known    *)
(* fingerprints, each at a position of its own.                            *)
Entries(alerts) ==
  /\ IsFiniteSet(alerts)
  /\ \A e \in alerts : e.fp \in Fingerprints /\ e.pos \in Nat /\ e.starts \in Int
  /\ \A d, e \in alerts : d.pos = e.pos => d = e

Partition(parts, alerts) ==
  /\ UNION parts = alerts
  /\ {} \notin parts
  /\ \A p, q \in parts : p \cap q # {} => p = q

LEMMA FirstExists ==
  ASSUME NEW bucket, bucket # {}, IsFiniteSet(bucket), \A e \in bucket : e.pos \in Nat
  PROVE  First(bucket) \in bucket /\ \A d \in bucket : First(bucket).pos <= d.pos
<1> DEFINE f == [e \in bucket |-> e.pos]
<1>1. \A x \in bucket : f[x] \in Int
  OBVIOUS
<1>2. \E x \in bucket : \A y \in bucket : f[x] <= f[y]
  <2> HIDE DEF f
  <2> QED
    BY <1>1, FiniteLeast
<1>3. \E x \in bucket : \A y \in bucket : x.pos <= y.pos
  BY <1>2
<1> QED
  BY <1>3 DEF First

(* What is united are alerts of the flush, and linked alerts are both      *)
(* united with the first one of a bucket.                                  *)
LEMMA UnionsAre ==
  ASSUME NEW alerts, Entries(alerts)
  PROVE  /\ IsFiniteSet(Unions(alerts))
         /\ \A u \in Unions(alerts) : u \subseteq alerts /\ u # {}
         /\ \A d, e \in alerts : Linked(d, e) =>
              \E u, v \in Unions(alerts) : d \in u /\ e \in v /\ u \cap v # {}
<1> DEFINE Bucket(k) == {e \in alerts : k \in KeysOf[e.fp]}
           Keys == UNION {KeysOf[e.fp] : e \in alerts}
           Star(k) == {{First(Bucket(k)), e} : e \in Bucket(k)}
<1>1. Unions(alerts) = UNION {Star(k) : k \in Keys}
  BY DEF Unions
<1>2. ASSUME NEW k \in Keys PROVE First(Bucket(k)) \in Bucket(k)
  <2>1. Bucket(k) # {} /\ Bucket(k) \subseteq alerts
    BY <1>2
  <2>2. IsFiniteSet(Bucket(k)) /\ \A e \in Bucket(k) : e.pos \in Nat
    BY <2>1, FS_Subset DEF Entries
  <2> HIDE DEF Bucket
  <2> QED
    BY <2>1, <2>2, FirstExists
<1>3. \A u \in Unions(alerts) : u \subseteq alerts /\ u # {}
  <2> TAKE u \in Unions(alerts)
  <2>1. PICK k \in Keys : u \in Star(k)
    BY <1>1
  <2>2. PICK e \in Bucket(k) : u = {First(Bucket(k)), e}
    BY <2>1
  <2> QED
    BY <1>2, <2>2
<1>4. IsFiniteSet(Unions(alerts))
  <2>1. IsFiniteSet(SUBSET alerts) /\ Unions(alerts) \in SUBSET (SUBSET alerts)
    BY <1>3, FS_SUBSET DEF Entries
  <2> QED
    BY <2>1, FS_Subset
<1>5. ASSUME NEW d \in alerts, NEW e \in alerts, Linked(d, e)
      PROVE  \E u, v \in Unions(alerts) : d \in u /\ e \in v /\ u \cap v # {}
  <2>1. PICK k : k \in KeysOf[d.fp] /\ k \in KeysOf[e.fp]
    BY <1>5 DEF Linked
  <2>2. k \in Keys /\ d \in Bucket(k) /\ e \in Bucket(k)
    BY <2>1
  <2>3. {First(Bucket(k)), d} \in Star(k) /\ {First(Bucket(k)), e} \in Star(k)
    BY <2>2
  <2>4. Star(k) \subseteq Unions(alerts)
    BY <1>1, <2>2
  <2> QED
    BY <2>3, <2>4
<1> QED
  BY <1>3, <1>4, <1>5

LEMMA MergeKeeps ==
  ASSUME NEW alerts, NEW parts, Partition(parts, alerts),
         NEW pair, pair \subseteq alerts, pair # {}
  PROVE  /\ Partition(Merge(pair, parts), alerts)
         /\ \E q \in Merge(pair, parts) : pair \subseteq q
         /\ \A p \in parts : \E q \in Merge(pair, parts) : p \subseteq q
<1> DEFINE hit == {p \in parts : p \cap pair # {}}
           rest == parts \ hit
<1>1. Merge(pair, parts) = rest \cup {UNION hit}
  BY DEF Merge
<1>2. pair \subseteq UNION hit
  <2> SUFFICES ASSUME NEW x \in pair PROVE x \in UNION hit
    OBVIOUS
  <2>1. PICK p \in parts : x \in p
    BY DEF Partition
  <2> QED
    BY <2>1
<1>3. UNION hit # {}
  BY <1>2
<1>4. UNION (rest \cup {UNION hit}) = alerts
  <2>1. UNION (rest \cup {UNION hit}) = UNION parts
    OBVIOUS
  <2> QED
    BY <2>1 DEF Partition
<1>5. {} \notin rest \cup {UNION hit}
  BY <1>3 DEF Partition
<1>6. ASSUME NEW p \in rest, p \cap UNION hit # {} PROVE FALSE
  <2>1. PICK q \in hit : p \cap q # {}
    BY <1>6
  <2>2. p = q
    BY <2>1 DEF Partition
  <2> QED
    BY <2>2
<1>7. ASSUME NEW p \in rest \cup {UNION hit}, NEW q \in rest \cup {UNION hit}, p \cap q # {}
      PROVE  p = q
  <2>1. CASE p \in rest /\ q \in rest
    BY <1>7, <2>1 DEF Partition
  <2>2. CASE p \in rest /\ q = UNION hit
    BY <1>6, <1>7, <2>2
  <2>3. CASE q \in rest /\ p = UNION hit
    <3>1. q \cap UNION hit # {}
      BY <1>7, <2>3
    <3> QED
      BY <1>6, <2>3, <3>1
  <2> QED
    BY <2>1, <2>2, <2>3
<1>8. \A p \in parts : \E q \in rest \cup {UNION hit} : p \subseteq q
  <2> TAKE p \in parts
  <2>1. CASE p \in hit
    BY <2>1
  <2>2. CASE p \notin hit
    BY <2>2
  <2> QED
    BY <2>1, <2>2
<1> DEFINE merged == rest \cup {UNION hit}
<1>9. Partition(merged, alerts)
  BY <1>4, <1>5, <1>7 DEF Partition
<1>10. UNION hit \in merged
  OBVIOUS
<1>11. \A p \in parts : \E q \in merged : p \subseteq q
  BY <1>8
<1>12. merged = Merge(pair, parts)
  BY <1>1
<1> HIDE DEF merged
<1> QED
  BY <1>2, <1>9, <1>10, <1>11, <1>12

(* The clusters of a flush are a partition of its alerts, and alerts that  *)
(* share a label value are in one cluster, whatever links them.            *)
LEMMA ClustersPartition ==
  ASSUME NEW alerts, Entries(alerts)
  PROVE  /\ Partition(Clusters(alerts), alerts)
         /\ \A d, e \in alerts : Linked(d, e) =>
              \E p \in Clusters(alerts) : d \in p /\ e \in p
<1> DEFINE U == Unions(alerts)
           base == {{e} : e \in alerts}
<1>1. IsFiniteSet(U) /\ \A u \in U : u \subseteq alerts /\ u # {}
  BY UnionsAre
<1>2. PICK h : IsFold(h, SUBSET U, base) /\ Clusters(alerts) = h[U]
  BY <1>1, ClustersByFold
<1> DEFINE T == {s \in SUBSET U : /\ Partition(h[s], alerts)
                                  /\ \A u \in s : \E p \in h[s] : u \subseteq p}
<1> HIDE DEF U
<1>3. {} \in T
  <2>1. h[{}] = base
    BY <1>2 DEF IsFold, Partial
  <2>2. Partition(base, alerts)
    BY DEF Partition
  <2> QED
    BY <2>1, <2>2
<1>4. ASSUME NEW s \in SUBSET U, s # {}, \A x \in s : s \ {x} \in T PROVE s \in T
  <2> DEFINE x == Pick(s)
             t == s \ {x}
  <2>1. x \in s
    BY <1>4 DEF Pick
  <2>2. h[s] = Merge(x, h[t])
    BY <1>2, <1>4 DEF IsFold, Partial
  <2>3. t \in T /\ x \in U
    BY <1>4, <2>1
  <2>4. Partition(h[t], alerts) /\ \A u \in t : \E p \in h[t] : u \subseteq p
    BY <2>3
  <2>5. x \subseteq alerts /\ x # {}
    BY <1>1, <2>3
  <2> HIDE DEF x, t, T
  <2>6. /\ Partition(h[s], alerts)
        /\ \E q \in h[s] : x \subseteq q
        /\ \A p \in h[t] : \E q \in h[s] : p \subseteq q
    BY <2>2, <2>4, <2>5, MergeKeeps
  <2>7. \A u \in s : \E p \in h[s] : u \subseteq p
    <3> USE DEF t
    <3> TAKE u \in s
    <3>1. CASE u = x
      BY <2>6, <3>1
    <3>2. CASE u # x
      <4>1. PICK p \in h[t] : u \subseteq p
        BY <2>4, <3>2
      <4> QED
        BY <2>6, <4>1
    <3> QED
      BY <3>1, <3>2
  <2> QED
    BY <2>6, <2>7 DEF T
<1>5. SUBSET U \subseteq T
  <2> HIDE DEF T
  <2> QED
    BY <1>1, <1>3, <1>4, SetDescent
<1>6. U \in T
  BY <1>5
<1>7. /\ Partition(Clusters(alerts), alerts)
      /\ \A u \in U : \E p \in Clusters(alerts) : u \subseteq p
  BY <1>2, <1>6
<1>8. ASSUME NEW d \in alerts, NEW e \in alerts, Linked(d, e)
      PROVE  \E p \in Clusters(alerts) : d \in p /\ e \in p
  <2>1. PICK u \in U, v \in U : d \in u /\ e \in v /\ u \cap v # {}
    BY <1>8, UnionsAre DEF U
  <2>2. PICK p \in Clusters(alerts), q \in Clusters(alerts) : u \subseteq p /\ v \subseteq q
    BY <1>7
  <2>3. p \cap q # {}
    BY <2>1, <2>2
  <2>4. p = q
    BY <1>7, <2>3 DEF Partition
  <2> QED
    BY <2>1, <2>2, <2>4
<1> QED
  BY <1>7, <1>8

-----------------------------------------------------------------------------
(* The cap.                                                                *)

LEMMA Division ==
  ASSUME NEW M \in Nat \ {0}, NEW i \in Nat
  PROVE  /\ i \div M \in Nat
         /\ M * (i \div M) <= i
         /\ i < M * (i \div M) + M
  OBVIOUS

LEMMA Multiples ==
  ASSUME NEW M \in Nat \ {0}, NEW k \in Nat, NEW l \in Nat, k < l
  PROVE  M * k \in Nat /\ M * k + M <= M * l
<1>1. PICK m \in Nat : l = k + 1 + m
  <2>1. l - k - 1 \in Nat /\ l = k + 1 + (l - k - 1)
    OBVIOUS
  <2> QED
    BY <2>1
<1>2. M * l = M * k + M + M * m
  BY <1>1
<1>3. M * m \in Nat /\ M * k \in Nat
  OBVIOUS
<1>4. \A a, b, c \in Nat : c = a + M + b => a + M <= c
  OBVIOUS
<1>5. M * l \in Nat
  OBVIOUS
<1> QED
  BY <1>2, <1>3, <1>4, <1>5

(* The quotient by the cap of a number in a run of M is the run's number.  *)
LEMMA Quotient ==
  ASSUME NEW M \in Nat \ {0}, NEW i \in Nat, NEW k \in Nat
  PROVE  i \div M = k <=> M * k <= i /\ i < M * k + M
<1>1. i \div M \in Nat /\ M * (i \div M) <= i /\ i < M * (i \div M) + M
  BY Division
<1>2. i \div M < k => M * (i \div M) + M <= M * k
  BY <1>1, Multiples
<1>3. k < i \div M => M * k + M <= M * (i \div M)
  BY <1>1, Multiples
<1>4. M * k \in Nat /\ M * (i \div M) \in Nat
  BY <1>1
<1> DEFINE q == i \div M
           a == M * q
           b == M * k
<1> HIDE DEF q, a, b
<1>5. /\ q \in Nat /\ a \in Nat /\ b \in Nat
      /\ a <= i /\ i < a + M
      /\ q < k => a + M <= b
      /\ k < q => b + M <= a
      /\ q = k => a = b
  BY <1>1, <1>2, <1>3, <1>4 DEF q, a, b
<1>6. q = k <=> b <= i /\ i < b + M
  BY <1>5
<1> QED
  BY <1>6 DEF q, b

(* The place of an alert in the order of a cluster.                        *)
LEMMA IndexCounts ==
  ASSUME NEW c, Entries(c)
  PROVE  /\ [e \in c |-> Index(e, c)] \in Bijection(c, 0 .. (Cardinality(c) - 1))
         /\ \A d, e \in c : Index(d, c) < Index(e, c) => Before(d, e)
<1> DEFINE Lower(e) == {d \in c : Before(d, e)}
           n == Cardinality(c)
           f == [e \in c |-> Index(e, c)]
<1>1. IsFiniteSet(c) /\ n \in Nat
  BY FS_CardinalityType DEF Entries
<1>2. \A e \in c : IsFiniteSet(Lower(e)) /\ Index(e, c) = Cardinality(Lower(e))
                   /\ Index(e, c) \in Nat
  BY <1>1, FS_Subset, FS_CardinalityType DEF Index
<1>3. \A d, e \in c : d = e \/ Before(d, e) \/ Before(e, d)
  BY DEF Entries, Before
<1>4. \A d, e, x \in c : Before(x, d) /\ Before(d, e) => Before(x, e)
  BY DEF Entries, Before
<1>5. \A e \in c : ~ Before(e, e)
  BY DEF Entries, Before
<1>6. ASSUME NEW d \in c, NEW e \in c, Before(d, e) PROVE Index(d, c) < Index(e, c)
  <2>1. Lower(d) \cup {d} \subseteq Lower(e) /\ d \notin Lower(d)
    BY <1>4, <1>5, <1>6
  <2>2. /\ IsFiniteSet(Lower(d) \cup {d})
        /\ Cardinality(Lower(d) \cup {d}) = Cardinality(Lower(d)) + 1
    <3> HIDE DEF Lower
    <3> QED
      BY <1>2, <2>1, FS_AddElement
  <2>3. Cardinality(Lower(d) \cup {d}) <= Cardinality(Lower(e))
    <3> HIDE DEF Lower
    <3> QED
      BY <1>2, <2>1, FS_Subset
  <2> HIDE DEF Lower
  <2> QED
    BY <1>2, <2>2, <2>3
<1>7. ASSUME NEW e \in c PROVE Index(e, c) \in 0 .. (n - 1)
  <2>1. Lower(e) \subseteq c \ {e}
    BY <1>5
  <2>2. IsFiniteSet(c \ {e}) /\ Cardinality(c \ {e}) = n - 1
    BY <1>1, FS_RemoveElement
  <2>3. Cardinality(Lower(e)) <= n - 1
    <3> HIDE DEF Lower, n
    <3> QED
      BY <2>1, <2>2, FS_Subset
  <2> HIDE DEF Lower
  <2> QED
    BY <1>1, <1>2, <2>3
<1>8. f \in Injection(c, 0 .. (n - 1))
  <2>1. f \in [c -> 0 .. (n - 1)]
    BY <1>7
  <2>2. ASSUME NEW d \in c, NEW e \in c, Index(d, c) = Index(e, c) PROVE d = e
    <3>1. Index(d, c) \in Nat /\ Index(e, c) \in Nat
      BY <1>2
    <3>2. ~ (Index(d, c) < Index(e, c)) /\ ~ (Index(e, c) < Index(d, c))
      BY <2>2, <3>1
    <3>3. ~ Before(d, e) /\ ~ Before(e, d)
      BY <1>6, <3>2
    <3> QED
      BY <1>3, <3>3
  <2>3. IsInjective(f)
    BY <2>2 DEF IsInjective
  <2> QED
    BY <2>1, <2>3 DEF Injection
<1>9. IsFiniteSet(0 .. (n - 1)) /\ Cardinality(0 .. (n - 1)) = n
  BY <1>1, FS_Interval
<1>10. f \in Surjection(c, 0 .. (n - 1))
  <2> HIDE DEF f, n
  <2> QED
    BY <1>8, <1>9, FS_Injection DEF n
<1>11. f \in Bijection(c, 0 .. (n - 1))
  <2> HIDE DEF f
  <2> QED
    BY <1>8, <1>10 DEF Bijection
<1>12. \A d, e \in c : Index(d, c) < Index(e, c) => Before(d, e)
  <2> TAKE d, e \in c
  <2> HAVE Index(d, c) < Index(e, c)
  <2>1. Index(d, c) \in Nat /\ Index(e, c) \in Nat
    BY <1>2
  <2>2. d # e /\ ~ (Index(e, c) < Index(d, c))
    BY <2>1
  <2>3. ~ Before(e, d)
    BY <1>6, <2>2
  <2> QED
    BY <1>3, <2>2, <2>3
<1> QED
  BY <1>11, <1>12

(* A chunk holds a run of the order, which is full unless it is the last.  *)
LEMMA ChunkIs ==
  ASSUME NEW c, Entries(c), MaxGroupSize # 0,
         NEW k \in 0 .. ((Cardinality(c) - 1) \div MaxGroupSize), c # {}
  PROVE  /\ Chunk(k, c) # {}
         /\ k < (Cardinality(c) - 1) \div MaxGroupSize => Cardinality(Chunk(k, c)) = MaxGroupSize
<1> DEFINE n == Cardinality(c)
           M == MaxGroupSize
           f == [e \in c |-> Index(e, c)]
           last == (n - 1) \div M
<1>1. M \in Nat \ {0}
  BY LabelAssumption
<1>2. n \in Nat \ {0} /\ n - 1 \in Nat
  <2>1. IsFiniteSet(c)
    BY DEF Entries
  <2>2. n \in Nat
    BY <2>1, FS_CardinalityType
  <2>3. n # 0
    BY <2>1, FS_EmptySet
  <2> HIDE DEF n
  <2> QED
    BY <2>2, <2>3
<1>3. k \in Nat /\ last \in Nat /\ M * last <= n - 1 /\ k <= last
  <2>1. last \in Nat /\ M * last <= n - 1
    <3> HIDE DEF M, n
    <3> QED
      BY <1>1, <1>2, Division
  <2> HIDE DEF n
  <2> QED
    BY <2>1 DEF n
<1>4. M * k \in Nat /\ M * k <= n - 1 /\ (k < last => M * k + M <= n - 1)
  <2>1. CASE k = last
    <3>1. M * k \in Nat
      BY <1>1, <1>3
    <3> HIDE DEF last, M, n
    <3> QED
      BY <1>3, <2>1, <3>1
  <2>2. CASE k < last
    <3>1. M * k \in Nat /\ M * k + M <= M * last /\ M * last \in Nat
      <4> HIDE DEF last, M, n
      <4> QED
        BY <1>1, <1>3, <2>2, Multiples
    <3> HIDE DEF last
    <3> DEFINE a == M * k
               b == M * last
    <3> HIDE DEF a, b, M, n
    <3>2. a \in Nat /\ b \in Nat /\ a + M <= b /\ b <= n - 1 /\ k < last
      BY <1>3, <2>2, <3>1 DEF a, b
    <3>3. a <= n - 1 /\ a + M <= n - 1
      BY <1>1, <1>2, <3>2
    <3> QED
      BY <3>1, <3>3 DEF a
  <2> HIDE DEF last, M, n
  <2> QED
    BY <1>3, <2>1, <2>2
<1>5. f \in Bijection(c, 0 .. (n - 1))
  BY IndexCounts
<1>6. /\ \A e \in c : f[e] \in 0 .. (n - 1)
      /\ \A d, e \in c : f[d] = f[e] => d = e
      /\ \A i \in 0 .. (n - 1) : \E e \in c : f[e] = i
  <2> HIDE DEF f, n
  <2> QED
    BY <1>5 DEF Bijection, Injection, Surjection, IsInjective
<1>7. \A e \in c : e \in Chunk(k, c) <=> M * k <= f[e] /\ f[e] < M * k + M
  <2> TAKE e \in c
  <2>1. f[e] \in Nat /\ f[e] = Index(e, c)
    BY <1>2, <1>6
  <2>2. f[e] \div M = k <=> M * k <= f[e] /\ f[e] < M * k + M
    <3> HIDE DEF f, M
    <3> QED
      BY <1>1, <1>3, <2>1, Quotient
  <2>3. e \in Chunk(k, c) <=> f[e] \div M = k
    BY <2>1 DEF Chunk
  <2> HIDE DEF f, M
  <2> QED
    BY <2>2, <2>3
<1>8. Chunk(k, c) \subseteq c
  BY DEF Chunk
<1> DEFINE a == M * k
<1>9. /\ a \in Nat /\ a <= n - 1 /\ (k < last => a + M <= n - 1)
      /\ \A e \in c : e \in Chunk(k, c) <=> a <= f[e] /\ f[e] < a + M
  BY <1>4, <1>7
<1> HIDE DEF a, f, n, M, last
<1>10. Chunk(k, c) # {}
  <2>1. PICK e \in c : f[e] = a
    BY <1>2, <1>6, <1>9
  <2> QED
    BY <1>1, <1>9, <2>1
<1>11. ASSUME k < last PROVE Cardinality(Chunk(k, c)) = M
  <2> DEFINE I == a .. (a + M - 1)
             g == [e \in Chunk(k, c) |-> f[e]]
  <2>1. \A e \in Chunk(k, c) : f[e] \in I
    BY <1>1, <1>2, <1>6, <1>8, <1>9
  <2>2. ASSUME NEW i \in I PROVE \E e \in Chunk(k, c) : f[e] = i
    <3>1. i \in 0 .. (n - 1)
      BY <1>1, <1>2, <1>9, <1>11
    <3>2. PICK e \in c : f[e] = i
      BY <1>6, <3>1
    <3> QED
      BY <1>1, <1>9, <3>2
  <2>3. g \in Bijection(Chunk(k, c), I)
    <3> HIDE DEF I
    <3>1. g \in [Chunk(k, c) -> I]
      BY <2>1
    <3>2. IsInjective(g)
      BY <1>6, <1>8 DEF IsInjective
    <3>3. g \in Surjection(Chunk(k, c), I)
      BY <2>2, <3>1 DEF Surjection
    <3> QED
      BY <3>1, <3>2, <3>3 DEF Bijection, Injection
  <2>4. ExistsBijection(Chunk(k, c), I)
    BY <2>3 DEF ExistsBijection
  <2>5. IsFiniteSet(Chunk(k, c))
    BY <1>8, FS_Subset DEF Entries
  <2>6. Cardinality(I) = Cardinality(Chunk(k, c))
    <3> HIDE DEF I
    <3> QED
      BY <2>4, <2>5, FS_Bijection
  <2>7. Cardinality(I) = M
    <3>1. a \in Int /\ a + M - 1 \in Int /\ a <= a + M - 1 /\ (a + M - 1) - a + 1 = M
      BY <1>1, <1>9
    <3> QED
      BY <3>1, FS_Interval
  <2> QED
    BY <2>6, <2>7
<1> QED
  BY <1>10, <1>11 DEF M, last, n

(* Two alerts of different chunks are before each other as their chunks.   *)
LEMMA ChunksInOrder ==
  ASSUME NEW c, Entries(c), MaxGroupSize # 0, NEW k \in Nat, NEW l \in Nat, k < l,
         NEW d \in Chunk(k, c), NEW e \in Chunk(l, c)
  PROVE  Before(d, e)
<1> DEFINE M == MaxGroupSize
           i == Index(d, c)
           j == Index(e, c)
<1>1. M \in Nat \ {0}
  BY LabelAssumption
<1>2. d \in c /\ e \in c /\ i \div M = k /\ j \div M = l
  BY DEF Chunk
<1>3. i \in Nat /\ j \in Nat
  <2>1. \A x \in c : Index(x, c) \in Nat
    BY FS_Subset, FS_CardinalityType DEF Index, Entries
  <2> QED
    BY <1>2, <2>1
<1> HIDE DEF M, i, j
<1>4. M * k <= i /\ i < M * k + M /\ M * l <= j
  BY <1>1, <1>2, <1>3, Quotient
<1>5. M * k \in Nat /\ M * l \in Nat /\ M * k + M <= M * l
  BY <1>1, Multiples
<1> DEFINE a == M * k
           b == M * l
<1>6. a \in Nat /\ b \in Nat /\ a + M <= b /\ i < a + M /\ b <= j
  BY <1>4, <1>5
<1> HIDE DEF a, b
<1>7. i < j
  BY <1>1, <1>3, <1>6
<1> QED
  BY <1>2, <1>7, IndexCounts DEF i, j

(* The pieces of a cluster are a partition of it; of two pieces at least   *)
(* one is full, and one is entirely before the other.                      *)
InOrder(g, h) == \A d \in g, e \in h : Before(d, e)

LEMMA CutIs ==
  ASSUME NEW c, Entries(c), c # {}
  PROVE  /\ Partition(SplitForCap(c), c)
         /\ \A g, h \in SplitForCap(c) : g # h =>
              /\ MaxGroupSize \in {Cardinality(g), Cardinality(h)}
              /\ InOrder(g, h) \/ InOrder(h, g)
<1>1. CASE MaxGroupSize = 0 \/ Cardinality(c) <= MaxGroupSize
  BY <1>1 DEF SplitForCap, Partition
<1>2. CASE ~ (MaxGroupSize = 0 \/ Cardinality(c) <= MaxGroupSize)
  <2> DEFINE n == Cardinality(c)
             last == (n - 1) \div MaxGroupSize
  <2>1. SplitForCap(c) = {Chunk(k, c) : k \in 0 .. last} /\ MaxGroupSize # 0
    BY <1>2 DEF SplitForCap
  <2>2. MaxGroupSize \in Nat \ {0}
    BY <2>1, LabelAssumption
  <2>3. IsFiniteSet(c) /\ n \in Nat /\ n - 1 \in Nat
    <3>1. IsFiniteSet(c) /\ n \in Nat
      BY FS_CardinalityType DEF Entries
    <3>2. n # 0
      BY <3>1, FS_EmptySet
    <3> HIDE DEF n
    <3> QED
      BY <3>1, <3>2
  <2>4. last \in Nat
    <3> HIDE DEF n
    <3> QED
      BY <2>2, <2>3, Division
  <2>5. \A k \in 0 .. last : Chunk(k, c) # {} /\ Chunk(k, c) \subseteq c
    BY <2>1, ChunkIs DEF Chunk
  <2>6. \A k \in 0 .. last : k < last => Cardinality(Chunk(k, c)) = MaxGroupSize
    BY <2>1, ChunkIs
  <2>7. \A e \in c : \E k \in 0 .. last : e \in Chunk(k, c)
    <3> TAKE e \in c
    <3> DEFINE f == [x \in c |-> Index(x, c)]
               k == Index(e, c) \div MaxGroupSize
    <3>1. Index(e, c) \in 0 .. (n - 1)
      <4>1. f \in [c -> 0 .. (n - 1)]
        <5> HIDE DEF f
        <5> QED
          BY IndexCounts DEF f, Bijection, Injection
      <4> HIDE DEF n
      <4>2. f[e] \in 0 .. (n - 1)
        BY <4>1
      <4> QED
        BY <4>2
    <3>2. Index(e, c) \in Nat /\ n - 1 \in Nat /\ Index(e, c) <= n - 1
      BY <2>3, <3>1
    <3>3. k \in Nat /\ MaxGroupSize * k <= Index(e, c)
      BY <2>2, <3>2, Division
    <3>4. n - 1 < MaxGroupSize * last + MaxGroupSize
      <4> HIDE DEF n
      <4> QED
        BY <2>2, <2>3, Division
    <3>5. ASSUME last < k PROVE FALSE
      <4>1. MaxGroupSize * last + MaxGroupSize <= MaxGroupSize * k
        <5> HIDE DEF last, k
        <5> QED
          BY <2>2, <2>4, <3>3, <3>5, Multiples
      <4>2. MaxGroupSize * last \in Nat /\ MaxGroupSize * k \in Nat
        <5> HIDE DEF last, k
        <5> QED
          BY <2>2, <2>4, <3>3
      <4> DEFINE a == MaxGroupSize * last
                 b == MaxGroupSize * k
                 i == Index(e, c)
                 m == n - 1
      <4>3. /\ a \in Nat /\ b \in Nat /\ i \in Nat /\ m \in Nat
            /\ a + MaxGroupSize <= b /\ b <= i /\ i <= m /\ m < a + MaxGroupSize
        BY <3>2, <3>3, <3>4, <4>1, <4>2
      <4> HIDE DEF a, b, i, m
      <4> QED
        BY <2>2, <4>3
    <3>6. k \in 0 .. last
      <4> HIDE DEF k, last
      <4> QED
        BY <2>4, <3>3, <3>5
    <3>7. e \in Chunk(k, c)
      BY DEF Chunk
    <3> HIDE DEF k
    <3> QED
      BY <3>6, <3>7
  <2>8. \A k, l \in 0 .. last : Chunk(k, c) \cap Chunk(l, c) # {} => k = l
    BY DEF Chunk
  <2> HIDE DEF last
  <2>9. Partition(SplitForCap(c), c)
    <3>1. \A g \in SplitForCap(c) : g # {} /\ g \subseteq c
      BY <2>1, <2>5
    <3>2. \A e \in c : \E g \in SplitForCap(c) : e \in g
      BY <2>1, <2>7
    <3>3. \A g, h \in SplitForCap(c) : g \cap h # {} => g = h
      <4> TAKE g, h \in SplitForCap(c)
      <4>1. PICK k \in 0 .. last : g = Chunk(k, c)
        BY <2>1
      <4>2. PICK l \in 0 .. last : h = Chunk(l, c)
        BY <2>1
      <4> QED
        BY <2>8, <4>1, <4>2
    <3>4. UNION SplitForCap(c) = c
      BY <3>1, <3>2
    <3> QED
      BY <3>1, <3>3, <3>4 DEF Partition
  <2>10. ASSUME NEW g \in SplitForCap(c), NEW h \in SplitForCap(c), g # h
         PROVE  /\ MaxGroupSize \in {Cardinality(g), Cardinality(h)}
                /\ InOrder(g, h) \/ InOrder(h, g)
    <3>1. PICK k \in 0 .. last : g = Chunk(k, c)
      BY <2>1
    <3>2. PICK l \in 0 .. last : h = Chunk(l, c)
      BY <2>1
    <3>3. k \in Nat /\ l \in Nat /\ k # l
      BY <2>4, <2>10, <3>1, <3>2
    <3>4. CASE k < l
      <4>1. k < last
        BY <2>4, <3>3, <3>4
      <4>2. Cardinality(g) = MaxGroupSize
        BY <2>6, <3>1, <4>1
      <4>3. InOrder(g, h)
        BY <2>1, <3>1, <3>2, <3>3, <3>4, ChunksInOrder DEF InOrder
      <4> QED
        BY <4>2, <4>3
    <3>5. CASE l < k
      <4>1. l < last
        BY <2>4, <3>3, <3>5
      <4>2. Cardinality(h) = MaxGroupSize
        BY <2>6, <3>2, <4>1
      <4>3. InOrder(h, g)
        BY <2>1, <3>1, <3>2, <3>3, <3>5, ChunksInOrder DEF InOrder
      <4> QED
        BY <4>2, <4>3
    <3> QED
      BY <3>3, <3>4, <3>5
  <2> QED
    BY <2>9, <2>10
<1> QED
  BY <1>1, <1>2

-----------------------------------------------------------------------------
(* A flush.                                                                *)

LEMMA SubEntries ==
  ASSUME NEW alerts, Entries(alerts), NEW c, c \subseteq alerts
  PROVE  Entries(c)
<1>1. IsFiniteSet(c)
  BY FS_Subset DEF Entries
<1> QED
  BY <1>1 DEF Entries

(* The groups of a flush are a partition of the alerts it took; two with   *)
(* linked alerts are pieces of one cluster.                                *)
LEMMA GroupsAre ==
  ASSUME NEW alerts, Entries(alerts)
  PROVE  /\ Partition(Groups(alerts), alerts)
         /\ \A g, h \in Groups(alerts) :
              g # h /\ (\E d \in g, e \in h : Linked(d, e)) =>
                /\ MaxGroupSize \in {Cardinality(g), Cardinality(h)}
                /\ InOrder(g, h) \/ InOrder(h, g)
<1>1. Partition(Clusters(alerts), alerts)
  BY ClustersPartition
<1>2. \A c \in Clusters(alerts) : c # {} /\ c \subseteq alerts /\ Entries(c)
  BY <1>1, SubEntries DEF Partition
<1>3. \A c \in Clusters(alerts) : Partition(SplitForCap(c), c)
  BY <1>2, CutIs
<1>4. \A g \in Groups(alerts) : \E c \in Clusters(alerts) : g \in SplitForCap(c)
  BY DEF Groups
<1>5. \A c \in Clusters(alerts) : SplitForCap(c) \subseteq Groups(alerts)
  BY DEF Groups
<1>6. \A g \in Groups(alerts) : g # {} /\ g \subseteq alerts
  <2> SUFFICES ASSUME NEW g \in Groups(alerts) PROVE g # {} /\ g \subseteq alerts
    OBVIOUS
  <2>1. PICK c \in Clusters(alerts) : g \in SplitForCap(c)
    BY <1>4
  <2>2. g # {} /\ g \subseteq c
    BY <2>1, <1>3 DEF Partition
  <2> QED
    BY <2>1, <2>2, <1>2
<1>7. \A e \in alerts : \E g \in Groups(alerts) : e \in g
  <2> TAKE e \in alerts
  <2>1. PICK c \in Clusters(alerts) : e \in c
    BY <1>1 DEF Partition
  <2>2. PICK g \in SplitForCap(c) : e \in g
    BY <1>3, <2>1 DEF Partition
  <2> QED
    BY <1>5, <2>1, <2>2
<1>8. ASSUME NEW g \in Groups(alerts), NEW h \in Groups(alerts), g \cap h # {} PROVE g = h
  <2>1. PICK c \in Clusters(alerts) : g \in SplitForCap(c)
    BY <1>4
  <2>2. PICK b \in Clusters(alerts) : h \in SplitForCap(b)
    BY <1>4
  <2>3. g \subseteq c /\ h \subseteq b
    BY <1>3, <2>1, <2>2 DEF Partition
  <2>4. c = b
    BY <1>1, <1>8, <2>3 DEF Partition
  <2> QED
    BY <1>3, <1>8, <2>1, <2>2, <2>4 DEF Partition
<1>9. UNION Groups(alerts) = alerts
  BY <1>6, <1>7
<1>10. Partition(Groups(alerts), alerts)
  BY <1>6, <1>8, <1>9 DEF Partition
<1>11. ASSUME NEW g \in Groups(alerts), NEW h \in Groups(alerts), g # h,
              NEW d \in g, NEW e \in h, Linked(d, e)
       PROVE  /\ MaxGroupSize \in {Cardinality(g), Cardinality(h)}
              /\ InOrder(g, h) \/ InOrder(h, g)
  <2>1. PICK c \in Clusters(alerts) : g \in SplitForCap(c)
    BY <1>4
  <2>2. PICK b \in Clusters(alerts) : h \in SplitForCap(b)
    BY <1>4
  <2>3. d \in c /\ e \in b /\ d \in alerts /\ e \in alerts
    BY <1>3, <1>6, <2>1, <2>2 DEF Partition
  <2>4. PICK p \in Clusters(alerts) : d \in p /\ e \in p
    BY <1>11, <2>3, ClustersPartition
  <2>5. p = c /\ p = b
    BY <1>1, <2>3, <2>4 DEF Partition
  <2> QED
    BY <1>2, <1>11, <2>1, <2>2, <2>5, CutIs
<1> QED
  BY <1>10, <1>11

(* The primary alert of a group is one of those that fired first.          *)
LEMMA PrimaryIs ==
  ASSUME NEW g, Entries(g), g # {}
  PROVE  PickPrimary(g) \in g /\ \A e \in g : PickPrimary(g).starts <= e.starts
<1> DEFINE starts == [e \in g |-> e.starts]
           quiet == [e \in g |-> -Downstream[e.fp]]
           rank == [e \in g |-> NameRank[e.fp]]
           pos == [e \in g |-> e.pos]
<1>1. \A e \in g : /\ starts[e] = e.starts /\ starts[e] \in Int
                   /\ quiet[e] = -Downstream[e.fp] /\ quiet[e] \in Int /\ Downstream[e.fp] \in Int
                   /\ rank[e] = NameRank[e.fp] /\ rank[e] \in Int
                   /\ pos[e] = e.pos /\ pos[e] \in Int
  BY LabelAssumption DEF Entries
<1>2. \A s \in SUBSET g : IsFiniteSet(s)
  BY FS_Subset DEF Entries
<1> HIDE DEF starts, quiet, rank, pos
<1> DEFINE L(s, f) == {x \in s : \A y \in s : f[x] <= f[y]}
<1>3. \A s \in SUBSET g : s # {} =>
        L(s, starts) # {} /\ L(s, quiet) # {} /\ L(s, rank) # {} /\ L(s, pos) # {}
  <2> TAKE s \in SUBSET g
  <2> HAVE s # {}
  <2>1. \A x \in s : starts[x] \in Int /\ quiet[x] \in Int /\ rank[x] \in Int /\ pos[x] \in Int
    BY <1>1
  <2>2. IsFiniteSet(s)
    BY <1>2
  <2>3. \E x \in s : \A y \in s : starts[x] <= starts[y]
    BY <2>1, <2>2, FiniteLeast
  <2>4. \E x \in s : \A y \in s : quiet[x] <= quiet[y]
    BY <2>1, <2>2, FiniteLeast
  <2>5. \E x \in s : \A y \in s : rank[x] <= rank[y]
    BY <2>1, <2>2, FiniteLeast
  <2>6. \E x \in s : \A y \in s : pos[x] <= pos[y]
    BY <2>1, <2>2, FiniteLeast
  <2> QED
    BY <2>3, <2>4, <2>5, <2>6
<1> DEFINE a == L(g, starts)
           b == L(a, quiet)
           c == L(b, rank)
           d == L(c, pos)
<1>4. a \subseteq g /\ b \subseteq a /\ c \subseteq b /\ d \subseteq c
  OBVIOUS
<1>5. a # {} /\ b # {} /\ c # {} /\ d # {}
  <2>1. a # {}
    BY <1>3
  <2> HIDE DEF a
  <2>2. b # {}
    BY <1>3, <1>4, <2>1
  <2> HIDE DEF b
  <2>3. c # {}
    BY <1>3, <1>4, <2>2
  <2> HIDE DEF c
  <2>4. d # {}
    BY <1>3, <1>4, <2>3
  <2> QED
    BY <2>1, <2>2, <2>3, <2>4
<1>6. a = Earliest(g)
  BY <1>1 DEF Earliest
<1>7. PICK x \in d : TRUE
  BY <1>5
<1>8. \A y \in a : Preferred(x, y)
  <2> TAKE y \in a
  <2>1. x \in g /\ y \in g /\ x \in a /\ x \in b /\ x \in c
    BY <1>4, <1>7
  <2>2. quiet[x] <= quiet[y]
    BY <2>1
  <2>3. quiet[x] = quiet[y] => y \in b
    BY <2>1
  <2>4. y \in b => rank[x] <= rank[y]
    BY <2>1
  <2>5. y \in b /\ rank[x] = rank[y] => y \in c
    BY <2>1
  <2>6. y \in c => pos[x] <= pos[y]
    BY <1>7
  <2> HIDE DEF a, b, c, d
  <2>7. /\ quiet[x] \in Int /\ quiet[y] \in Int /\ rank[x] \in Int /\ rank[y] \in Int
        /\ Downstream[x.fp] \in Int /\ Downstream[y.fp] \in Int
        /\ quiet[x] = -Downstream[x.fp] /\ quiet[y] = -Downstream[y.fp]
        /\ rank[x] = NameRank[x.fp] /\ rank[y] = NameRank[y.fp]
        /\ pos[x] = x.pos /\ pos[y] = y.pos
    BY <1>1, <2>1
  <2> QED
    BY <2>2, <2>3, <2>4, <2>5, <2>6, <2>7 DEF Preferred
<1>9. x \in Earliest(g)
  BY <1>4, <1>6, <1>7
<1>10. \E e \in Earliest(g) : \A y \in Earliest(g) : Preferred(e, y)
  BY <1>6, <1>8, <1>9
<1>11. PickPrimary(g) \in Earliest(g)
  BY <1>10 DEF PickPrimary
<1> QED
  BY <1>11 DEF Earliest
=============================================================================
