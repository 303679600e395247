-------------------------- MODULE RdbmsCacheProofs --------------------------
(***************************************************************************)
(* Theorems about RdbmsCache, for any ids, values, links and cache size:   *)
(* the types and the length of the list hold whatever happens; and when    *)
(* nothing is edited between two steps of filter_iter, the dictionary and  *)
(* its LRU list never disagree about a node that exists, the cache holds   *)
(* what the transaction could have read, set does what it is asked to, and *)
(* a read fails only in a session that has destroyed a node.               *)
(***************************************************************************)
EXTENDS RdbmsCache, FiniteSetTheorems, SequenceTheorems, TLAPS

\* The cache as a whole: every cached node has its key in the list; when it is sound, no key
\* is there twice.
Typed(c) ==
  /\ c \in [nodes : [Ids -> CachedNode \cup {NoNode}], keys : Seq(Ids), raises : BOOLEAN]
  /\ Len(c.keys) <= CacheSize
  /\ \A i \in Ids : c.nodes[i] # NoNode => i \in ToSet(c.keys)
Sound(c) == Typed(c) /\ IsInjective(c.keys)

\* The types, but for the cache's, and that ids are handed out in order.
TableTypes ==
  /\ base \in [Ids -> Node \cup {NoNode}] /\ sql \in [Ids -> Node \cup {NoNode}]
  /\ mine \subseteq Ids /\ destroyed \subseteq Ids
  /\ seen \in [Ids -> SUBSET Node]
  /\ rows \subseteq Ids \X Values
  /\ counter \in 0..MaxId /\ failed \in BOOLEAN /\ ops \in 0..MaxOps
  /\ \A i \in Ids : base[i] # NoNode \/ sql[i] # NoNode => i <= counter

\* Keys are of ids in use; only the key of a destroyed node may stay in the list without it,
\* and its id has no row again; nothing is cached without its row.
KeysInv ==
  /\ Sound(Present)
  /\ \A i \in ToSet(lru) : i <= counter /\ (cache[i] = NoNode => i \in destroyed)
  /\ \A i \in destroyed : i <= counter /\ sql[i] = NoNode
  /\ \A i \in Ids : cache[i] # NoNode => sql[i] # NoNode

\* A node, as it is cached, could have been read in this transaction.
Readable(i, node) ==
  /\ \E n \in seen[i] : n.v = node.v
  /\ \E n \in seen[i] : node.ml \in {n.ml, Unfetched}
SeenInv ==
  /\ \A i \in Ids : sql[i] # NoNode => sql[i] \in seen[i]
  /\ \A row \in rows : sql[row[1]] # NoNode /\ \E n \in seen[row[1]] : n.v = row[2]
  /\ ~failed => \A i \in Ids : cache[i] # NoNode => Readable(i, cache[i])

TypeInv == TableTypes /\ Typed(Present)
IInv == TableTypes /\ KeysInv /\ SeenInv

-----------------------------------------------------------------------------
(* The list of keys. *)

\* What a sequence of ids holds, by its places.
LEMMA Places ==
  ASSUME NEW s \in Seq(Ids)
  PROVE  /\ Len(s) \in Nat /\ DOMAIN s = 1..Len(s) /\ \A j \in 1..Len(s) : s[j] \in Ids
         /\ \A i : i \in ToSet(s) <=> \E j \in 1..Len(s) : s[j] = i
         /\ IsInjective(s) <=> \A j, k \in 1..Len(s) : s[j] = s[k] => j = k
<1>1. Len(s) \in Nat /\ DOMAIN s = 1..Len(s)
  OBVIOUS
<1>2. \A j \in 1..Len(s) : s[j] \in Ids
  OBVIOUS
<1>3. \A i : i \in ToSet(s) <=> \E j \in 1..Len(s) : s[j] = i
  BY <1>1 DEF ToSet
<1>4. IsInjective(s) <=> \A j, k \in 1..Len(s) : s[j] = s[k] => j = k
  BY <1>1, Zenon DEF IsInjective
<1> QED
  BY <1>1, <1>2, <1>3, <1>4

\* A set of places has a first one: of the intervals up to them, one is within no other.
LEMMA FirstPlace ==
  ASSUME NEW n \in Nat, NEW P \in SUBSET (1..n), P # {}
  PROVE  \E k \in P : \A j \in P : k <= j
<1> DEFINE T == {1..j : j \in P}
           R == StrictSubsetOrdering(1..n)
<1>1. IsWellFoundedOn(R, FiniteSubsetsOf(1..n))
  BY FS_StrictSubsetOrderingWellFounded
<1>2. \A j \in P : 1..j \in SUBSET (1..n) /\ IsFiniteSet(1..j)
  BY FS_Interval
<1>3. T \subseteq FiniteSubsetsOf(1..n) /\ T # {}
  BY <1>2 DEF FiniteSubsetsOf
<1>4. \E x \in T : \A y \in T : ~(<<y, x>> \in R)
  <2> HIDE DEF T, R
  <2> QED
    BY <1>1, <1>3, WFMin
<1>5. PICK k \in P : \A j \in P : ~(<<1..j, 1..k>> \in R)
  BY <1>4
<1>6. ASSUME NEW j \in P, j < k
      PROVE  FALSE
  <2>1. 1..j \subseteq 1..k /\ k \in 1..k /\ k \notin 1..j
    BY <1>6
  <2>2. <<1..j, 1..k>> \in R
    BY <2>1, <1>2 DEF StrictSubsetOrdering
  <2> QED
    BY <2>2, <1>5
<1> QED
  BY <1>6

\* list.remove takes one key, the first.
LEMMA FirstRemoved ==
  ASSUME NEW s \in Seq(Ids), NEW i \in ToSet(s)
  PROVE  \E k \in 1..Len(s) :
           s[k] = i /\ RemoveFirst(s, i) = SubSeq(s, 1, k - 1) \o SubSeq(s, k + 1, Len(s))
<1> DEFINE P == {j \in 1..Len(s) : s[j] = i}
<1>1. P # {} /\ Len(s) \in Nat
  BY Places
<1>2. PICK k \in P : \A j \in P : k <= j
  BY <1>1, FirstPlace
<1>3. Min(P) = k
  <2>1. \A x \in P : (\A y \in P : x <= y) => x = k
    BY <1>1, <1>2
  <2> QED
    BY <1>2, <2>1 DEF Min
<1>4. SelectInSeq(s, LAMBDA v : v = i) = k
  BY <1>1, <1>3 DEF SelectInSeq
<1>5. RemoveFirst(s, i) = SubSeq(s, 1, k - 1) \o SubSeq(s, k + 1, Len(s))
  BY <1>1, <1>4 DEF RemoveFirst, RemoveAt
<1> QED
  BY <1>2, <1>5

\* What is left has all the other ids; and each in one place, if each had.
LEMMA Without ==
  ASSUME NEW s \in Seq(Ids), NEW i \in ToSet(s)
  PROVE  /\ RemoveFirst(s, i) \in Seq(Ids) /\ Len(RemoveFirst(s, i)) = Len(s) - 1
         /\ ToSet(RemoveFirst(s, i)) \cup {i} = ToSet(s)
         /\ IsInjective(s) => /\ IsInjective(RemoveFirst(s, i))
                              /\ ToSet(RemoveFirst(s, i)) = ToSet(s) \ {i}
<1>1. PICK k \in 1..Len(s) :
        s[k] = i /\ RemoveFirst(s, i) = SubSeq(s, 1, k - 1) \o SubSeq(s, k + 1, Len(s))
  BY FirstRemoved
<1> DEFINE u == SubSeq(s, 1, k - 1)
           w == SubSeq(s, k + 1, Len(s))
           t == u \o w
<1>2. Len(s) \in Nat /\ k \in Int /\ k - 1 \in Int /\ k + 1 \in Int /\ Len(s) \in Int
  BY Places
<1>3. u \in Seq(Ids) /\ Len(u) = k - 1 /\ \A j \in 1..(k - 1) : u[j] = s[j]
  OBVIOUS
<1>4. w \in Seq(Ids) /\ Len(w) = Len(s) - k /\ \A j \in 1..(Len(s) - k) : w[j] = s[j + k]
  OBVIOUS
<1> HIDE DEF u, w
<1>5. /\ t \in Seq(Ids) /\ Len(t) = Len(u) + Len(w)
      /\ \A j \in 1..(Len(u) + Len(w)) : t[j] = IF j <= Len(u) THEN u[j] ELSE w[j - Len(u)]
  BY <1>3, <1>4, ConcatProperties
<1> HIDE DEF t
<1>6. Len(t) = Len(s) - 1
  BY <1>2, <1>3, <1>4, <1>5
<1>7. ASSUME NEW j \in 1..Len(t)
      PROVE  (j < k => t[j] = s[j]) /\ (~(j < k) => t[j] = s[j + 1])
  <2>1. CASE j < k
    BY <2>1, <1>2, <1>3, <1>4, <1>5, <1>6
  <2>2. CASE ~(j < k)
    <3>1. t[j] = w[j - (k - 1)] /\ j - (k - 1) \in 1..(Len(s) - k)
      BY <2>2, <1>2, <1>3, <1>4, <1>5, <1>6
    <3>2. w[j - (k - 1)] = s[j - (k - 1) + k] /\ j - (k - 1) + k = j + 1
      BY <3>1, <1>2, <1>4
    <3> QED
      BY <2>2, <3>1, <3>2
  <2> QED
    BY <2>1, <2>2
<1>8. ASSUME NEW a \in 1..Len(t)
      PROVE  \E x \in 1..Len(s) : t[a] = s[x] /\ x # k /\ (a < k => x = a) /\ (~(a < k) => x = a + 1)
  <2>1. CASE a < k
    <3>1. a \in 1..Len(s) /\ a # k /\ t[a] = s[a]
      BY <2>1, <1>7, <1>6, <1>2
    <3> QED
      BY <2>1, <3>1
  <2>2. CASE ~(a < k)
    <3>1. a + 1 \in 1..Len(s) /\ a + 1 # k /\ t[a] = s[a + 1]
      BY <2>2, <1>7, <1>6, <1>2
    <3> QED
      BY <2>2, <3>1
  <2> QED
    BY <2>1, <2>2
<1>9. ASSUME NEW x \in 1..Len(s), x # k
      PROVE  \E j \in 1..Len(t) : t[j] = s[x]
  <2>1. CASE x < k
    <3>1. x \in 1..Len(t)
      BY <2>1, <1>2, <1>6
    <3> QED
      BY <3>1, <2>1, <1>7
  <2>2. CASE x > k
    <3>1. x - 1 \in 1..Len(t) /\ ~(x - 1 < k) /\ x - 1 + 1 = x
      BY <2>2, <1>2, <1>6
    <3>2. t[x - 1] = s[x - 1 + 1]
      BY <3>1, <1>7
    <3> QED
      BY <3>1, <3>2
  <2> QED
    BY <1>9, <2>1, <2>2, <1>2
<1>10. ASSUME NEW n
       PROVE  /\ n \in ToSet(t) => n \in ToSet(s)
              /\ n \in ToSet(s) => n \in ToSet(t) \/ n = i
  <2>1. ASSUME n \in ToSet(t)
        PROVE  n \in ToSet(s)
    <3>1. PICK j \in 1..Len(t) : t[j] = n
      BY <2>1, <1>5, Places
    <3> QED
      BY <3>1, <1>8, Places
  <2>2. ASSUME n \in ToSet(s), n # i
        PROVE  n \in ToSet(t)
    <3>1. PICK x \in 1..Len(s) : s[x] = n
      BY <2>2, Places
    <3>2. \E j \in 1..Len(t) : t[j] = n
      BY <3>1, <2>2, <1>1, <1>9
    <3> QED
      BY <3>2, <1>5, Places
  <2> QED
    BY <2>1, <2>2
<1>11. ASSUME IsInjective(s)
       PROVE  IsInjective(t) /\ i \notin ToSet(t)
  <2>1. \A x, y \in 1..Len(s) : s[x] = s[y] => x = y
    BY <1>11, Places
  <2>2. \A a, b \in 1..Len(t) : t[a] = t[b] => a = b
    <3>1. SUFFICES ASSUME NEW a \in 1..Len(t), NEW b \in 1..Len(t), t[a] = t[b]
                   PROVE  a = b
      OBVIOUS
    <3>2. PICK x \in 1..Len(s) : t[a] = s[x] /\ (a < k => x = a) /\ (~(a < k) => x = a + 1)
      BY <1>8
    <3>3. PICK y \in 1..Len(s) : t[b] = s[y] /\ (b < k => y = b) /\ (~(b < k) => y = b + 1)
      BY <1>8
    <3>4. x = y
      BY <3>1, <2>1, <3>2, <3>3
    <3> QED
      BY <3>2, <3>3, <3>4, <1>2, <1>6
  <2>3. \A a \in 1..Len(t) : t[a] # i
    BY <2>1, <1>1, <1>8
  <2> QED
    BY <2>2, <2>3, <1>5, Places
<1>12. RemoveFirst(s, i) = t
  BY <1>1 DEF t, u, w
<1> QED
  BY <1>5, <1>6, <1>10, <1>11, <1>12

\* What is left when the oldest key goes.
LEMMA AllButLast ==
  ASSUME NEW s \in Seq(Ids), Len(s) > 0
  PROVE  /\ Front(s) \in Seq(Ids) /\ Len(Front(s)) = Len(s) - 1
         /\ ToSet(Front(s)) \cup {Last(s)} = ToSet(s)
         /\ IsInjective(s) => /\ IsInjective(Front(s))
                              /\ ToSet(Front(s)) = ToSet(s) \ {Last(s)}
<1>1. PICK n \in Nat : n = Len(s) /\ n > 0
  BY Places
<1> DEFINE t == SubSeq(s, 1, n - 1)
<1>2. /\ 1 \in Int /\ n - 1 \in Int
      /\ \A j \in 1..(n - 1) : s[j] \in Ids
  BY <1>1, Places
<1>3. t \in Seq(Ids) /\ Len(t) = n - 1 /\ \A j \in 1..(n - 1) : t[j] = s[j]
  BY <1>1, <1>2, SubSeqProperties
<1>4. t = Front(s) /\ Last(s) = s[n]
  BY <1>1 DEF Front, Last
<1> HIDE DEF t
<1>5. ASSUME NEW i
      PROVE  i \in ToSet(s) <=> i \in ToSet(t) \/ i = s[n]
  <2>1. i \in ToSet(t) <=> \E j \in 1..(n - 1) : s[j] = i
    BY <1>3, Places
  <2>2. i \in ToSet(s) <=> \E j \in 1..n : s[j] = i
    BY <1>1, Places
  <2> QED
    BY <2>1, <2>2, <1>1
<1>6. ASSUME IsInjective(s)
      PROVE  IsInjective(t) /\ s[n] \notin ToSet(t)
  <2>1. \A a, b \in 1..n : s[a] = s[b] => a = b
    BY <1>1, <1>6, Places
  <2>2. \A a, b \in 1..Len(t) : t[a] = t[b] => a = b
    BY <1>3, <2>1, <1>1
  <2>3. \A a \in 1..Len(t) : t[a] # s[n]
    BY <1>3, <2>1, <1>1
  <2> QED
    BY <2>2, <2>3, <1>3, Places
<1> QED
  BY <1>1, <1>3, <1>4, <1>5, <1>6

\* What a key put in front makes of the list.
LEMMA InFront ==
  ASSUME NEW s \in Seq(Ids), NEW i \in Ids
  PROVE  /\ <<i>> \o s \in Seq(Ids) /\ Len(<<i>> \o s) = Len(s) + 1
         /\ ToSet(<<i>> \o s) = ToSet(s) \cup {i}
         /\ IsInjective(s) /\ i \notin ToSet(s) => IsInjective(<<i>> \o s)
<1> DEFINE t == <<i>> \o s
<1>1. PICK n \in Nat : n = Len(s)
  BY Places
<1>2. <<i>> \in Seq(Ids) /\ Len(<<i>>) = 1 /\ <<i>>[1] = i
  OBVIOUS
<1>3. /\ t \in Seq(Ids) /\ Len(t) = 1 + n
      /\ \A j \in 1..(1 + n) : t[j] = IF j <= 1 THEN <<i>>[j] ELSE s[j - 1]
  BY <1>1, <1>2, ConcatProperties
<1> HIDE DEF t
<1>4. Len(t) = n + 1 /\ t[1] = i /\ \A j \in 1..n : t[j + 1] = s[j]
  <2>1. t[1] = i
    BY <1>1, <1>2, <1>3
  <2>2. ASSUME NEW j \in 1..n
        PROVE  t[j + 1] = s[j]
    <3>1. j + 1 \in 1..(1 + n) /\ ~(j + 1 <= 1) /\ j + 1 - 1 = j
      BY <1>1
    <3>2. t[j + 1] = s[j + 1 - 1]
      BY <3>1, <1>3
    <3> QED
      BY <3>1, <3>2
  <2> QED
    BY <2>1, <2>2, <1>1, <1>3
<1>5. ASSUME NEW a \in 1..(n + 1)
      PROVE  a = 1 \/ \E j \in 1..n : a = j + 1 /\ t[a] = s[j]
  <2>1. CASE a # 1
    <3>1. a - 1 \in 1..n /\ a = a - 1 + 1
      BY <2>1, <1>1
    <3>2. t[a - 1 + 1] = s[a - 1]
      BY <3>1, <1>4
    <3> QED
      BY <3>1, <3>2
  <2> QED
    BY <2>1
<1>6. ASSUME IsInjective(s), i \notin ToSet(s)
      PROVE  IsInjective(t)
  <2>1. SUFFICES ASSUME NEW a \in 1..(n + 1), NEW b \in 1..(n + 1), t[a] = t[b]
                 PROVE  a = b
    BY <1>3, <1>4, Places
  <2>2. \A j \in 1..n : s[j] # i
    BY <1>1, <1>6, Places
  <2>3. \A j, k \in 1..n : s[j] = s[k] => j = k
    BY <1>1, <1>6, Places
  <2> QED
    BY <2>1, <2>2, <2>3, <1>4, <1>5
<1>7. ASSUME NEW m
      PROVE  m \in ToSet(t) <=> m \in ToSet(s) \/ m = i
  <2>0. t \in Seq(Ids) /\ Len(t) = n + 1
    BY <1>3, <1>4
  <2>a. m \in ToSet(t) <=> \E a \in 1..Len(t) : t[a] = m
    BY <2>0, Places
  <2>1. m \in ToSet(t) <=> \E a \in 1..(n + 1) : t[a] = m
    BY <2>0, <2>a
  <2>2. m \in ToSet(s) <=> \E j \in 1..n : s[j] = m
    BY <1>1, Places
  <2>3. ASSUME NEW j \in 1..n, s[j] = m
        PROVE  \E a \in 1..(n + 1) : t[a] = m
    <3>1. j + 1 \in 1..(n + 1)
      BY <1>1
    <3> QED
      BY <3>1, <2>3, <1>4
  <2>4. 1 \in 1..(n + 1)
    BY <1>1
  <2> QED
    BY <2>1, <2>2, <2>3, <2>4, <1>4, <1>5
<1> QED
  BY <1>1, <1>3, <1>4, <1>6, <1>7 DEF t

-----------------------------------------------------------------------------
(* What the operations of the cache make of it. *)

\* d comes of c by an operation on i: other nodes are as they were, or evicted, other
\* keys are not new, and no key is left without its node that was not before; it raises only
\* if there was such a key.
Follows(c, d, i) ==
  /\ Sound(d)
  /\ \A j \in Ids \ {i} : d.nodes[j] \in {c.nodes[j], NoNode}
  /\ \A j \in ToSet(d.keys) : j \in ToSet(c.keys) \/ j = i
  /\ \A j \in ToSet(d.keys) : d.nodes[j] = NoNode => j \in ToSet(c.keys) /\ c.nodes[j] = NoNode
  /\ d.raises => c.raises \/ \E j \in ToSet(c.keys) : c.nodes[j] = NoNode

LEMMA Emptied ==
  ASSUME NEW f \in [Ids -> CachedNode \cup {NoNode}], NEW i \in Ids
  PROVE  \E g \in [Ids -> CachedNode \cup {NoNode}] :
           /\ g = [f EXCEPT ![i] = NoNode]
           /\ g[i] = NoNode /\ \A j \in Ids \ {i} : g[j] = f[j]
<1>1. [f EXCEPT ![i] = NoNode] \in [Ids -> CachedNode \cup {NoNode}]
  OBVIOUS
<1>2. /\ [f EXCEPT ![i] = NoNode][i] = NoNode
      /\ \A j \in Ids \ {i} : [f EXCEPT ![i] = NoNode][j] = f[j]
  OBVIOUS
<1> QED
  BY <1>1, <1>2, Zenon

USE NumbersAssumption, NoNodeAssumption, SwitchAssumption

LEMMA CacheParts ==
  ASSUME NEW nodes, NEW keys, NEW raises
  PROVE  Typed([nodes |-> nodes, keys |-> keys, raises |-> raises]) <=>
           /\ nodes \in [Ids -> CachedNode \cup {NoNode}] /\ keys \in Seq(Ids)
           /\ raises \in BOOLEAN /\ Len(keys) <= CacheSize
           /\ \A i \in Ids : nodes[i] # NoNode => i \in ToSet(keys)
  BY DEF Typed

\* A refresh loses no key, and a deletion only that of the node it deletes; a key that is in
\* the list a second time, for a destroyed row, does no harm to the types.
LEMMA RefreshTyped ==
  ASSUME NEW c, Typed(c), NEW i \in ToSet(c.keys)
  PROVE  Typed(CacheRefresh(c, i))
<1>1. /\ c.keys \in Seq(Ids) /\ Len(c.keys) <= CacheSize /\ Len(c.keys) \in Nat
      /\ c.nodes \in [Ids -> CachedNode \cup {NoNode}] /\ c.raises \in BOOLEAN
      /\ \A j \in Ids : c.nodes[j] # NoNode => j \in ToSet(c.keys)
  BY DEF Typed
<1>2. PICK rest \in Seq(Ids) :
        /\ rest = RemoveFirst(c.keys, i) /\ Len(rest) = Len(c.keys) - 1
        /\ ToSet(rest) \cup {i} = ToSet(c.keys)
  BY <1>1, Without
<1>3. i \in Ids
  BY <1>1, Places
<1>4. PICK keys \in Seq(Ids) :
        keys = <<i>> \o rest /\ Len(keys) = Len(rest) + 1 /\ ToSet(keys) = ToSet(c.keys)
  BY <1>2, <1>3, InFront
<1>5. CacheRefresh(c, i) = [nodes |-> c.nodes, keys |-> keys, raises |-> c.raises]
  BY <1>2, <1>4 DEF CacheRefresh
<1>6. Len(keys) <= CacheSize
  BY <1>1, <1>2, <1>4
<1>7. PICK nodes \in [Ids -> CachedNode \cup {NoNode}] : nodes = c.nodes
  BY <1>1
<1>8. \A j \in Ids : nodes[j] # NoNode => j \in ToSet(keys)
  BY <1>1, <1>4, <1>7
<1>9. Typed([nodes |-> nodes, keys |-> keys, raises |-> c.raises])
  BY <1>1, <1>6, <1>8, CacheParts, Zenon
<1> QED
  BY <1>5, <1>7, <1>9

LEMMA SaveTyped ==
  ASSUME NEW c, Typed(c), NEW i \in Ids, NEW node \in CachedNode
  PROVE  Typed(CacheSave(c, i, node))
<1>1. /\ c.keys \in Seq(Ids) /\ Len(c.keys) <= CacheSize /\ Len(c.keys) \in Nat
      /\ c.nodes \in [Ids -> CachedNode \cup {NoNode}] /\ c.raises \in BOOLEAN
      /\ \A j \in Ids : c.nodes[j] # NoNode => j \in ToSet(c.keys)
  BY DEF Typed
<1>2. PICK keys \in Seq(Ids) :
        keys = <<i>> \o c.keys /\ Len(keys) = Len(c.keys) + 1 /\ ToSet(keys) = ToSet(c.keys) \cup {i}
  BY <1>1, InFront
<1>3. PICK nodes \in [Ids -> CachedNode \cup {NoNode}] : nodes = [c.nodes EXCEPT ![i] = node]
  BY <1>1
<1>4. \A j \in Ids : nodes[j] # NoNode => j \in ToSet(keys)
  BY <1>1, <1>2, <1>3
<1>5. CASE Len(keys) <= CacheSize
  <2>1. CacheSave(c, i, node) = [nodes |-> nodes, keys |-> keys, raises |-> c.raises]
    BY <1>2, <1>3, <1>5 DEF CacheSave
  <2>2. Typed([nodes |-> nodes, keys |-> keys, raises |-> c.raises])
    BY <1>1, <1>4, <1>5, CacheParts, Zenon
  <2> QED
    BY <2>1, <2>2
<1>6. CASE ~(Len(keys) <= CacheSize)
  <2>1. PICK front \in Seq(Ids), last \in Ids :
          /\ front = Front(keys) /\ last = Last(keys) /\ Len(front) = Len(keys) - 1
          /\ ToSet(front) \cup {last} = ToSet(keys)
    <3>1. Len(keys) > 0
      BY <1>1, <1>2
    <3>2. /\ Front(keys) \in Seq(Ids) /\ Len(Front(keys)) = Len(keys) - 1
          /\ ToSet(Front(keys)) \cup {Last(keys)} = ToSet(keys)
      BY <3>1, AllButLast
    <3>3. Last(keys) \in Ids
      <4>1. Last(keys) \in ToSet(keys)
        BY <3>2
      <4> QED
        BY <4>1, Places
    <3> QED
      BY <3>2, <3>3
  <2>2. PICK kept \in [Ids -> CachedNode \cup {NoNode}] :
          /\ kept = [nodes EXCEPT ![last] = NoNode]
          /\ kept[last] = NoNode /\ \A j \in Ids \ {last} : kept[j] = nodes[j]
    BY Emptied
  <2>3. CacheSave(c, i, node) =
          [nodes |-> kept, keys |-> front, raises |-> c.raises \/ nodes[last] = NoNode]
    BY <1>2, <1>3, <1>6, <2>1, <2>2 DEF CacheSave
  <2>4. \A j \in Ids : kept[j] # NoNode => j \in ToSet(front)
    BY <1>4, <2>1, <2>2
  <2>5. Len(front) <= CacheSize
    BY <1>1, <1>2, <2>1
  <2>6. (c.raises \/ nodes[last] = NoNode) \in BOOLEAN
    OBVIOUS
  <2>7. Typed([nodes |-> kept, keys |-> front, raises |-> c.raises \/ nodes[last] = NoNode])
    BY <2>4, <2>5, <2>6, CacheParts, Zenon
  <2> QED
    BY <2>3, <2>7
<1> QED
  BY <1>5, <1>6

LEMMA DelTyped ==
  ASSUME NEW c, Typed(c), NEW i \in Ids
  PROVE  Typed(CacheDel(c, i))
<1>1. /\ c.keys \in Seq(Ids) /\ Len(c.keys) <= CacheSize /\ Len(c.keys) \in Nat
      /\ c.nodes \in [Ids -> CachedNode \cup {NoNode}] /\ c.raises \in BOOLEAN
      /\ \A j \in Ids : c.nodes[j] # NoNode => j \in ToSet(c.keys)
  BY DEF Typed
<1>2. CASE c.nodes[i] = NoNode
  BY <1>2 DEF CacheDel
<1>3. CASE c.nodes[i] # NoNode
  <2>1. PICK rest \in Seq(Ids) :
          /\ rest = RemoveFirst(c.keys, i) /\ Len(rest) = Len(c.keys) - 1
          /\ ToSet(rest) \cup {i} = ToSet(c.keys)
    BY <1>1, <1>3, Without
  <2>2. PICK nodes \in [Ids -> CachedNode \cup {NoNode}] :
          /\ nodes = [c.nodes EXCEPT ![i] = NoNode]
          /\ nodes[i] = NoNode /\ \A j \in Ids \ {i} : nodes[j] = c.nodes[j]
    <3>1. PICK f \in [Ids -> CachedNode \cup {NoNode}] : f = c.nodes
      BY <1>1
    <3>2. PICK nodes \in [Ids -> CachedNode \cup {NoNode}] :
            /\ nodes = [f EXCEPT ![i] = NoNode]
            /\ nodes[i] = NoNode /\ \A j \in Ids \ {i} : nodes[j] = f[j]
      BY Emptied
    <3> QED
      BY <3>1, <3>2
  <2>3. CacheDel(c, i) = [nodes |-> nodes, keys |-> rest, raises |-> c.raises]
    BY <1>3, <2>1, <2>2 DEF CacheDel
  <2>4. \A j \in Ids : nodes[j] # NoNode => j \in ToSet(rest)
    BY <1>1, <2>1, <2>2
  <2>5. Len(rest) <= CacheSize
    BY <1>1, <2>1
  <2>6. Typed([nodes |-> nodes, keys |-> rest, raises |-> c.raises])
    BY <1>1, <2>4, <2>5, CacheParts, Zenon
  <2> QED
    BY <2>3, <2>6
<1> QED
  BY <1>2, <1>3

\* _cache_refresh moves a key to the front.
LEMMA RefreshFollows ==
  ASSUME NEW c, Sound(c), NEW i \in ToSet(c.keys)
  PROVE  Follows(c, CacheRefresh(c, i), i) /\ CacheRefresh(c, i).nodes = c.nodes
<1>1. /\ c.keys \in Seq(Ids) /\ IsInjective(c.keys) /\ Len(c.keys) <= CacheSize /\ i \in Ids
      /\ c.nodes \in [Ids -> CachedNode \cup {NoNode}] /\ c.raises \in BOOLEAN
      /\ \A j \in Ids : c.nodes[j] # NoNode => j \in ToSet(c.keys)
  BY Places DEF Sound, Typed
<1>2. PICK rest \in Seq(Ids) :
        /\ rest = RemoveFirst(c.keys, i) /\ Len(rest) = Len(c.keys) - 1
        /\ IsInjective(rest) /\ ToSet(rest) = ToSet(c.keys) \ {i}
  BY <1>1, Without
<1>3. PICK keys \in Seq(Ids) :
        /\ keys = <<i>> \o rest /\ Len(keys) = Len(rest) + 1
        /\ IsInjective(keys) /\ ToSet(keys) = ToSet(c.keys)
  <2>1. i \notin ToSet(rest) /\ ToSet(rest) \cup {i} = ToSet(c.keys)
    BY <1>2
  <2>2. /\ <<i>> \o rest \in Seq(Ids) /\ Len(<<i>> \o rest) = Len(rest) + 1
        /\ IsInjective(<<i>> \o rest) /\ ToSet(<<i>> \o rest) = ToSet(rest) \cup {i}
    BY <1>1, <1>2, <2>1, InFront
  <2> QED
    BY <2>1, <2>2, Zenon
<1>4. Len(keys) = Len(c.keys)
  <2>1. Len(c.keys) \in Nat
    BY <1>1
  <2> QED
    BY <2>1, <1>2, <1>3
<1>5. CacheRefresh(c, i) = [nodes |-> c.nodes, keys |-> keys, raises |-> c.raises]
  BY <1>2, <1>3 DEF CacheRefresh
<1>6. Typed(CacheRefresh(c, i))
  BY RefreshTyped DEF Sound
<1>7. PICK d : d = CacheRefresh(c, i)
  OBVIOUS
<1>8. d.nodes = c.nodes /\ d.keys = keys /\ d.raises = c.raises /\ Sound(d)
  BY <1>3, <1>5, <1>6, <1>7 DEF Sound
<1> QED
  BY <1>1, <1>3, <1>7, <1>8 DEF Follows

\* _cache_save of a node whose key is not in the list; the oldest key may go.
LEMMA SaveFollows ==
  ASSUME NEW c, Sound(c), NEW i \in Ids, i \notin ToSet(c.keys), NEW node \in CachedNode
  PROVE  Follows(c, CacheSave(c, i, node), i) /\ CacheSave(c, i, node).nodes[i] \in {node, NoNode}
<1>1. /\ c.keys \in Seq(Ids) /\ IsInjective(c.keys) /\ Len(c.keys) <= CacheSize
      /\ c.nodes \in [Ids -> CachedNode \cup {NoNode}] /\ c.raises \in BOOLEAN
      /\ \A j \in Ids : c.nodes[j] # NoNode => j \in ToSet(c.keys)
  BY DEF Sound, Typed
<1>2. PICK keys \in Seq(Ids) :
        /\ keys = <<i>> \o c.keys /\ Len(keys) = Len(c.keys) + 1
        /\ IsInjective(keys) /\ ToSet(keys) = ToSet(c.keys) \cup {i}
  <2>1. /\ <<i>> \o c.keys \in Seq(Ids) /\ Len(<<i>> \o c.keys) = Len(c.keys) + 1
        /\ IsInjective(<<i>> \o c.keys) /\ ToSet(<<i>> \o c.keys) = ToSet(c.keys) \cup {i}
    BY <1>1, InFront
  <2> QED
    BY <2>1, Zenon
<1>3. PICK nodes \in [Ids -> CachedNode \cup {NoNode}] :
        nodes = [c.nodes EXCEPT ![i] = node]
  BY <1>1
<1>4. nodes[i] = node /\ \A j \in Ids \ {i} : nodes[j] = c.nodes[j]
  BY <1>1, <1>3
<1>5. PICK n \in Nat : n = Len(c.keys) /\ n <= CacheSize /\ Len(keys) = n + 1
  BY <1>1, <1>2, Places
<1>6. node # NoNode
  BY NoNodeAssumption
<1>7. CASE Len(keys) <= CacheSize
  <2>1. CacheSave(c, i, node) = [nodes |-> nodes, keys |-> keys, raises |-> c.raises]
    BY <1>2, <1>3, <1>7 DEF CacheSave
  <2>2. Sound(CacheSave(c, i, node))
    <3>1. Typed(CacheSave(c, i, node))
      BY SaveTyped DEF Sound
    <3>2. CacheSave(c, i, node).keys = keys
      BY <2>1
    <3> QED
      BY <1>2, <3>1, <3>2 DEF Sound
  <2>3. \A j \in ToSet(keys) : j \in Ids
    BY <1>2, Places
  <2>4. \A j \in ToSet(keys) : nodes[j] = NoNode => j \in ToSet(c.keys) /\ c.nodes[j] = NoNode
    BY <1>2, <1>4, <1>6, <2>3
  <2> QED
    <3>1. /\ CacheSave(c, i, node).nodes = nodes /\ CacheSave(c, i, node).keys = keys
          /\ CacheSave(c, i, node).raises = c.raises
      BY <2>1
    <3> QED
      BY <1>2, <1>4, <2>2, <2>4, <3>1 DEF Follows
<1>8. CASE ~(Len(keys) <= CacheSize)
  <2>1. PICK front \in Seq(Ids), last \in ToSet(keys) :
          /\ front = Front(keys) /\ last = Last(keys) /\ Len(front) = Len(keys) - 1
          /\ IsInjective(front) /\ ToSet(front) = ToSet(keys) \ {last}
    <3>1. Len(keys) > 0
      BY <1>5
    <3>2. /\ Front(keys) \in Seq(Ids) /\ Len(Front(keys)) = Len(keys) - 1
          /\ IsInjective(Front(keys)) /\ ToSet(Front(keys)) = ToSet(keys) \ {Last(keys)}
          /\ Last(keys) \in ToSet(keys)
      BY <1>2, <3>1, AllButLast
    <3> QED
      BY <3>2, Zenon
  <2>2. last \in Ids
    <3>1. PICK j \in 1..Len(keys) : keys[j] = last
      BY <2>1, Places
    <3> QED
      BY <3>1, Places
  <2>3. PICK kept \in [Ids -> CachedNode \cup {NoNode}] :
          /\ kept = [nodes EXCEPT ![last] = NoNode]
          /\ kept[last] = NoNode /\ \A j \in Ids \ {last} : kept[j] = nodes[j]
    BY <2>2, Emptied
  <2>4. CacheSave(c, i, node) =
          [nodes |-> kept, keys |-> front,
           raises |-> c.raises \/ nodes[last] = NoNode]
    BY <1>2, <1>3, <1>8, <2>1, <2>3 DEF CacheSave
  <2>7. Sound(CacheSave(c, i, node))
    BY <2>1, <2>4, SaveTyped DEF Sound
  <2>8. \A j \in ToSet(front) : j \in Ids /\ j # last
    BY <2>1, Places
  <2>9. \A j \in ToSet(front) : kept[j] = NoNode => j \in ToSet(c.keys) /\ c.nodes[j] = NoNode
    BY <1>2, <1>4, <1>6, <2>1, <2>3, <2>8
  <2>10. \A j \in Ids \ {i} : kept[j] \in {c.nodes[j], NoNode}
    BY <1>4, <2>3
  <2>11. kept[i] \in {node, NoNode}
    BY <1>4, <2>3
  <2>12. nodes[last] = NoNode => last \in ToSet(c.keys) /\ c.nodes[last] = NoNode
    BY <1>2, <1>4, <1>6, <2>1, <2>2
  <2>13. PICK d : d = CacheSave(c, i, node)
    OBVIOUS
  <2>a. d.raises = (c.raises \/ nodes[last] = NoNode)
    BY <2>4, <2>13
  <2>14. /\ d.nodes = kept /\ d.keys = front /\ Sound(d)
         /\ d.raises => c.raises \/ nodes[last] = NoNode
    <3>1. d.nodes = kept /\ d.keys = front /\ Sound(d)
      BY <2>4, <2>7, <2>13
    <3> QED
      BY <3>1, <2>a, Zenon
  <2>15. \A j \in ToSet(front) : j \in ToSet(c.keys) \/ j = i
    BY <1>2, <2>1
  <2> QED
    BY <2>9, <2>10, <2>11, <2>12, <2>13, <2>14, <2>15 DEF Follows
<1> QED
  BY <1>7, <1>8

\* _cache_del takes node and key.
LEMMA DelFollows ==
  ASSUME NEW c, Sound(c), NEW i \in Ids
  PROVE  Follows(c, CacheDel(c, i), i) /\ CacheDel(c, i).nodes[i] = NoNode
<1>1. /\ c.keys \in Seq(Ids) /\ IsInjective(c.keys) /\ Len(c.keys) <= CacheSize
      /\ c.nodes \in [Ids -> CachedNode \cup {NoNode}] /\ c.raises \in BOOLEAN
      /\ \A j \in Ids : c.nodes[j] # NoNode => j \in ToSet(c.keys)
  BY DEF Sound, Typed
<1>2. CASE c.nodes[i] = NoNode
  BY <1>1, <1>2 DEF CacheDel, Follows
<1>3. CASE c.nodes[i] # NoNode
  <2>1. i \in ToSet(c.keys)
    BY <1>1, <1>3
  <2>2. PICK rest \in Seq(Ids) :
          /\ rest = RemoveFirst(c.keys, i) /\ Len(rest) = Len(c.keys) - 1
          /\ IsInjective(rest) /\ ToSet(rest) = ToSet(c.keys) \ {i}
    BY <1>1, <2>1, Without
  <2>3. PICK nodes \in [Ids -> CachedNode \cup {NoNode}] :
          /\ nodes = [c.nodes EXCEPT ![i] = NoNode]
          /\ nodes[i] = NoNode /\ \A j \in Ids \ {i} : nodes[j] = c.nodes[j]
    <3>1. PICK f \in [Ids -> CachedNode \cup {NoNode}] : f = c.nodes
      BY <1>1
    <3>2. PICK nodes \in [Ids -> CachedNode \cup {NoNode}] :
            /\ nodes = [f EXCEPT ![i] = NoNode]
            /\ nodes[i] = NoNode /\ \A j \in Ids \ {i} : nodes[j] = f[j]
      BY Emptied
    <3> QED
      BY <3>1, <3>2
  <2>4. Typed(CacheDel(c, i))
    BY DelTyped DEF Sound
  <2>5. CacheDel(c, i) = [nodes |-> nodes, keys |-> rest, raises |-> c.raises]
    BY <1>3, <2>2, <2>3 DEF CacheDel
  <2>6. \A j \in ToSet(rest) : j \in Ids /\ j # i
    BY <2>2, Places
  <2> QED
    BY <2>2, <2>3, <2>4, <2>5, <2>6 DEF Follows, Sound
<1> QED
  BY <1>2, <1>3

LEMMA FollowsOn ==
  ASSUME NEW c, NEW d, NEW e, NEW i, Follows(c, d, i), Follows(d, e, i)
  PROVE  Follows(c, e, i)
  BY DEF Follows

-----------------------------------------------------------------------------
(* Reading a node. *)

LEMMA NodesAreCacheable ==
  /\ Node \subseteq CachedNode /\ NoNode \notin Node
  /\ \A n \in Node : [v |-> n.v, ml |-> Unfetched] \in CachedNode
  BY DEF Node, CachedNode

LEMMA PresentIs ==
  Sound(Present) <=>
    /\ cache \in [Ids -> CachedNode \cup {NoNode}] /\ lru \in Seq(Ids)
    /\ Len(lru) <= CacheSize /\ IsInjective(lru)
    /\ \A i \in Ids : cache[i] # NoNode => i \in ToSet(lru)
  BY DEF Sound, Typed, Present, With

LEMMA PresentTyped ==
  Typed(Present) <=>
    /\ cache \in [Ids -> CachedNode \cup {NoNode}] /\ lru \in Seq(Ids)
    /\ Len(lru) <= CacheSize
    /\ \A i \in Ids : cache[i] # NoNode => i \in ToSet(lru)
  BY DEF Typed, Present, With

\* What getnode returns is a node, whole, and what it makes of the cache is one, whatever the
\* cache held.
LEMMA GetTyped ==
  ASSUME TypeInv, NEW i \in Ids, Exists(i)
  PROVE  GetNode(i) \in Node /\ \A fetch \in BOOLEAN : Typed(AfterGetNode(i, fetch))
<1>1. /\ Typed(Present) /\ sql[i] \in Node \cup {NoNode}
      /\ cache \in [Ids -> CachedNode \cup {NoNode}] /\ lru \in Seq(Ids)
  BY PresentTyped DEF TypeInv, TableTypes
<1>2. CASE cache[i] # NoNode
  <2>1. cache[i] \in CachedNode /\ i \in ToSet(lru)
    BY <1>1, <1>2, PresentTyped
  <2>2. GetNode(i) \in Node
    <3>1. CASE cache[i].ml # Unfetched
      BY <1>2, <2>1, <3>1 DEF GetNode, WithMultilink, Node, CachedNode
    <3>2. CASE cache[i].ml = Unfetched
      <4>1. cache[i].v \in Values /\ (IF sql[i] = NoNode THEN {} ELSE sql[i].ml) \in SUBSET Links
        BY <1>1, <2>1 DEF Node, CachedNode
      <4>2. GetNode(i) = [v |-> cache[i].v, ml |-> IF sql[i] = NoNode THEN {} ELSE sql[i].ml]
        BY <1>2, <3>2 DEF GetNode, WithMultilink
      <4> QED
        BY <4>1, <4>2 DEF Node
    <3> QED
      BY <3>1, <3>2
  <2>3. ASSUME NEW fetch \in BOOLEAN
        PROVE  Typed(AfterGetNode(i, fetch))
    <3>1. PICK n \in CachedNode : n = IF fetch THEN GetNode(i) ELSE cache[i]
      BY <2>1, <2>2, NodesAreCacheable
    <3>2. PICK nodes \in [Ids -> CachedNode \cup {NoNode}] :
            /\ nodes = [cache EXCEPT ![i] = IF fetch THEN GetNode(i) ELSE @]
            /\ \A j \in Ids \ {i} : nodes[j] = cache[j]
      <4>1. [cache EXCEPT ![i] = n] \in [Ids -> CachedNode \cup {NoNode}]
        BY <1>1
      <4>2. /\ [cache EXCEPT ![i] = n] = [cache EXCEPT ![i] = IF fetch THEN GetNode(i) ELSE @]
            /\ \A j \in Ids \ {i} : [cache EXCEPT ![i] = n][j] = cache[j]
        BY <1>1, <3>1
      <4> QED
        BY <4>1, <4>2, Zenon
    <3>3. Typed(With(nodes, lru)) /\ With(nodes, lru).keys = lru
      BY <1>1, <2>1, <3>2, PresentTyped DEF Typed, With
    <3>4. AfterGetNode(i, fetch) = CacheRefresh(With(nodes, lru), i)
      BY <1>2, <3>2 DEF AfterGetNode
    <3> QED
      BY <2>1, <3>3, <3>4, RefreshTyped
  <2> QED
    BY <2>2, <2>3
<1>3. CASE cache[i] = NoNode
  <2>1. sql[i] \in Node
    BY <1>1, <1>3 DEF Exists
  <2>2. ASSUME NEW fetch \in BOOLEAN
        PROVE  Typed(AfterGetNode(i, fetch))
    <3>1. PICK n \in CachedNode : n = IF fetch THEN sql[i] ELSE [v |-> sql[i].v, ml |-> Unfetched]
      BY <2>1, NodesAreCacheable
    <3>2. AfterGetNode(i, fetch) = CacheSave(Present, i, n)
      BY <1>3, <3>1 DEF AfterGetNode
    <3> QED
      BY <1>1, <3>1, <3>2, SaveTyped
  <2> QED
    BY <1>3, <2>1, <2>2 DEF GetNode
<1> QED
  BY <1>2, <1>3

\* What getnode returns is a node, whole, and one that could have been read, unless an
\* operation has raised.
LEMMA GetNodeReads ==
  ASSUME IInv, NEW i \in Ids, sql[i] # NoNode
  PROVE  GetNode(i) \in Node /\ (~failed => Readable(i, GetNode(i)))
<1>1. sql[i] \in Node /\ sql[i] \in seen[i]
  BY DEF IInv, TableTypes, SeenInv
<1>2. CASE cache[i] = NoNode
  BY <1>1, <1>2 DEF GetNode, Readable
<1>3. CASE cache[i] # NoNode
  <2>1. cache[i] \in CachedNode
    BY <1>3, PresentIs DEF IInv, KeysInv
  <2>2. GetNode(i) = IF cache[i].ml = Unfetched THEN [v |-> cache[i].v, ml |-> sql[i].ml] ELSE cache[i]
    BY <1>3 DEF GetNode, WithMultilink
  <2>3. ~failed => Readable(i, cache[i])
    BY <1>3 DEF IInv, SeenInv
  <2>4. GetNode(i) \in Node
    BY <1>1, <2>1, <2>2 DEF CachedNode, Node
  <2>5. GetNode(i).v = cache[i].v /\ GetNode(i).ml \in {cache[i].ml, sql[i].ml}
    BY <2>2
  <2>6. cache[i].ml = Unfetched => GetNode(i).ml = sql[i].ml
    BY <2>2
  <2> QED
    BY <1>1, <2>3, <2>4, <2>5, <2>6 DEF Readable
<1> QED
  BY <1>2, <1>3

LEMMA GetFollows ==
  ASSUME IInv, NEW i \in Ids, Exists(i), NEW fetch \in BOOLEAN
  PROVE  /\ sql[i] # NoNode /\ i <= counter
         /\ Follows(Present, AfterGetNode(i, fetch), i)
         /\ LET node == AfterGetNode(i, fetch).nodes[i]
            IN node # NoNode /\ ~failed => Readable(i, node)
<1>1. sql[i] # NoNode /\ i <= counter
  BY DEF Exists, IInv, KeysInv, TableTypes
<1>2. Sound(Present) /\ Present.nodes = cache /\ Present.keys = lru
  BY DEF IInv, KeysInv, Present, With
<1>3. sql[i] \in Node /\ sql[i] \in seen[i]
  BY <1>1 DEF IInv, TableTypes, SeenInv
<1>4. CASE cache[i] # NoNode
  <2>1. PICK nodes \in [Ids -> CachedNode \cup {NoNode}] :
          /\ nodes = [cache EXCEPT ![i] = IF fetch THEN GetNode(i) ELSE @]
          /\ nodes[i] = (IF fetch THEN GetNode(i) ELSE cache[i])
          /\ \A j \in Ids \ {i} : nodes[j] = cache[j]
    <3>1. cache \in [Ids -> CachedNode \cup {NoNode}] /\ GetNode(i) \in CachedNode
      BY <1>1, PresentIs, GetNodeReads, NodesAreCacheable DEF IInv, KeysInv
    <3>2. [cache EXCEPT ![i] = IF fetch THEN GetNode(i) ELSE @] \in [Ids -> CachedNode \cup {NoNode}]
      BY <3>1
    <3>3. /\ [cache EXCEPT ![i] = IF fetch THEN GetNode(i) ELSE @][i]
               = (IF fetch THEN GetNode(i) ELSE cache[i])
          /\ \A j \in Ids \ {i} :
               [cache EXCEPT ![i] = IF fetch THEN GetNode(i) ELSE @][j] = cache[j]
      BY <3>1
    <3> QED
      BY <3>2, <3>3, Zenon
  <2>2. nodes[i] # NoNode
    BY <1>1, <1>4, <2>1, GetNodeReads, NodesAreCacheable
  <2>3. i \in ToSet(lru)
    BY <1>4, PresentIs DEF IInv, KeysInv
  <2>4. PICK c : c = With(nodes, lru) /\ Sound(c) /\ c.nodes = nodes /\ c.keys = lru
    <3>1. Sound(With(nodes, lru)) /\ With(nodes, lru).nodes = nodes /\ With(nodes, lru).keys = lru
      BY <2>1, <2>3, PresentIs, <1>2 DEF Sound, Typed, With
    <3> QED
      BY <3>1
  <2>5. AfterGetNode(i, fetch) = CacheRefresh(c, i)
    BY <1>4, <2>1, <2>4 DEF AfterGetNode
  <2>6. Follows(c, CacheRefresh(c, i), i) /\ CacheRefresh(c, i).nodes = nodes
    BY <2>3, <2>4, RefreshFollows
  <2>7. ~failed => Readable(i, nodes[i])
    BY <1>1, <1>4, <2>1, GetNodeReads DEF IInv, SeenInv
  <2>8. \A j \in ToSet(lru) : j \in Ids
    BY Places, PresentIs, <1>2
  <2>9. Follows(Present, CacheRefresh(c, i), i)
    <3>1. /\ Sound(CacheRefresh(c, i))
          /\ \A j \in ToSet(CacheRefresh(c, i).keys) : j \in ToSet(lru) \/ j = i
          /\ \A j \in ToSet(CacheRefresh(c, i).keys) : nodes[j] = NoNode => j \in ToSet(lru)
          /\ CacheRefresh(c, i).raises = FALSE
      BY <2>4, <2>6 DEF Follows, CacheRefresh, With
    <3>2. \A j \in ToSet(lru) : nodes[j] = NoNode => cache[j] = NoNode
      BY <2>1, <2>2, <2>8
    <3>3. \A j \in Ids \ {i} : nodes[j] \in {cache[j], NoNode}
      BY <2>1
    <3> QED
      BY <1>2, <2>6, <3>1, <3>2, <3>3 DEF Follows
  <2> QED
    BY <1>1, <2>5, <2>6, <2>7, <2>9
<1>5. CASE cache[i] = NoNode
  <2>1. i \notin ToSet(lru)
    BY <1>1, <1>5 DEF IInv, KeysInv
  <2>2. PICK node \in CachedNode :
          /\ node = IF fetch THEN sql[i] ELSE [v |-> sql[i].v, ml |-> Unfetched]
          /\ node.v = sql[i].v /\ node.ml \in {sql[i].ml, Unfetched}
    BY <1>3, NodesAreCacheable
  <2>3. AfterGetNode(i, fetch) = CacheSave(Present, i, node)
    BY <1>5, <2>2 DEF AfterGetNode
  <2>4. Follows(Present, CacheSave(Present, i, node), i) /\ CacheSave(Present, i, node).nodes[i] \in {node, NoNode}
    BY <1>2, <2>1, SaveFollows
  <2>5. Readable(i, node)
    BY <1>3, <2>2 DEF Readable
  <2> QED
    BY <1>1, <2>3, <2>4, <2>5
<1> QED
  BY <1>4, <1>5

\* An operation of the cache on a row that stays keeps list and dictionary together.
LEMMA KeysFollow ==
  ASSUME IInv, NEW i \in Ids, sql[i] # NoNode, sql'[i] # NoNode, counter' = counter,
         NEW d, Follows(Present, d, i), Becomes(d),
         \A j \in Ids \ {i} : sql'[j] = sql[j]
  PROVE  KeysInv'
<1>1. /\ cache' = d.nodes /\ lru' = d.keys /\ destroyed' = destroyed
      /\ Present.nodes = cache /\ Present.keys = lru
  BY DEF Becomes, Present, With
<1>2. Sound(Present)'
  <2>1. /\ cache' \in [Ids -> CachedNode \cup {NoNode}] /\ lru' \in Seq(Ids)
        /\ Len(lru') <= CacheSize /\ IsInjective(lru')
        /\ \A j \in Ids : cache'[j] # NoNode => j \in ToSet(lru')
    BY <1>1 DEF Follows, Sound, Typed
  <2> QED
    BY <2>1 DEF Sound, Typed, Present, With
<1>3. ASSUME NEW j \in ToSet(lru')
      PROVE  j <= counter' /\ (cache'[j] = NoNode => j \in destroyed')
  <2>1. j \in ToSet(lru) \/ j = i
    BY <1>1, <1>3 DEF Follows
  <2>2. j <= counter
    BY <2>1 DEF IInv, KeysInv, TableTypes
  <2>3. ASSUME cache'[j] = NoNode
        PROVE  j \in destroyed'
    <3>1. j \in ToSet(lru) /\ cache[j] = NoNode
      BY <1>1, <1>3, <2>3 DEF Follows
    <3> QED
      BY <1>1, <3>1 DEF IInv, KeysInv
  <2> QED
    BY <2>2, <2>3
<1>4. ASSUME NEW j \in Ids, cache'[j] # NoNode
      PROVE  sql'[j] # NoNode
  <2>1. CASE j # i
    BY <1>1, <1>4, <2>1 DEF Follows, IInv, KeysInv
  <2> QED
    BY <2>1
<1>5. \A j \in destroyed' : j <= counter' /\ sql'[j] = NoNode
  BY <1>1 DEF IInv, KeysInv, TableTypes
<1> QED
  BY <1>2, <1>3, <1>4, <1>5 DEF KeysInv

-----------------------------------------------------------------------------
(* Every step keeps the tables. *)

LEMMA TablesStep ==
  ASSUME TypeInv, Next
  PROVE  TableTypes'
<1>a. /\ TableTypes /\ MaxId \in Nat /\ MaxOps \in Nat /\ ops \in Nat /\ counter \in Nat
      /\ Node \subseteq CachedNode /\ NoNode \notin Node
  BY NodesAreCacheable DEF TypeInv, TableTypes
<1> USE DEF TableTypes
<1>1. ASSUME NEW i \in Ids, NEW fetch \in BOOLEAN, Get(i, fetch)
      PROVE  TableTypes'
  BY <1>1, <1>a DEF Get, FailsIf, Becomes, rowvars
<1>2. CASE FilterIter
  <2>1. rows' \subseteq Ids \X Values
    BY <1>2, <1>a DEF FilterIter, Node
  <2> QED
    BY <1>2, <1>a, <2>1 DEF FilterIter, rowvars, cachevars
<1>3. ASSUME NEW row \in rows, FilterYield(row)
      PROVE  TableTypes'
  BY <1>3, <1>a DEF FilterYield, FailsIf, Becomes, rowvars
<1>4. ASSUME NEW node \in Node, CreateOk(node)
      PROVE  TableTypes'
  <2>1. counter' = counter + 1 /\ counter' \in Ids /\ counter' \in 0..MaxId
    BY <1>4, <1>a DEF CreateOk, NewId, Ids
  <2>2. sql' = [sql EXCEPT ![counter'] = node] /\ seen' = [seen EXCEPT ![counter'] = {node}]
    BY <1>4, <1>a DEF CreateOk, Writes
  <2>3. base' \in {base, sql} /\ UNCHANGED <<destroyed, rows, failed, ops>>
    BY <1>4 DEF CreateOk, NewId, cachevars
  <2>4. mine' \subseteq Ids
    <3>1. mine' = LockedAfterNewId \cup {counter'} /\ LockedAfterNewId \subseteq Ids
      BY <1>4, <1>a DEF CreateOk, LockedAfterNewId
    <3> QED
      BY <2>1, <3>1
  <2>5. \A i \in Ids : i \in Nat
    BY DEF Ids
  <2>6. \A i \in Ids : base'[i] # NoNode \/ sql'[i] # NoNode => i <= counter'
    BY <1>a, <2>1, <2>2, <2>3, <2>5
  <2>7. sql' \in [Ids -> Node \cup {NoNode}] /\ seen' \in [Ids -> SUBSET Node]
    BY <1>a, <2>1, <2>2
  <2> QED
    BY <1>a, <2>1, <2>3, <2>4, <2>6, <2>7
<1>5. CASE CreateRaises
  <2>1. counter' = counter + 1 /\ counter' \in 0..MaxId /\ base' \in {base, sql}
    BY <1>5, <1>a DEF CreateRaises, NewId
  <2>2. \A i \in Ids : i \in Nat
    BY DEF Ids
  <2>3. UNCHANGED <<sql, destroyed, seen, rows, ops>> /\ failed' = TRUE
    BY <1>5 DEF CreateRaises, cachevars
  <2>4. mine' \subseteq Ids
    BY <1>5, <1>a DEF CreateRaises, LockedAfterNewId
  <2>5. \A i \in Ids : base'[i] # NoNode \/ sql'[i] # NoNode => i <= counter'
    BY <1>a, <2>1, <2>2, <2>3
  <2> QED
    BY <1>a, <2>1, <2>3, <2>4, <2>5
<1>6. ASSUME NEW i \in Ids, Destroy(i)
      PROVE  TableTypes'
  <2>1. ops' \in 0..MaxOps /\ mine' \subseteq Ids /\ destroyed' \subseteq Ids
    BY <1>6, <1>a DEF Destroy, CanEdit, CanOperate
  <2>2. sql' = [sql EXCEPT ![i] = NoNode] /\ seen' = [seen EXCEPT ![i] = {}]
    BY <1>6, <1>a DEF Destroy, Writes
  <2>3. UNCHANGED <<base, rows, counter, failed>>
    BY <1>6 DEF Destroy
  <2> QED
    BY <1>a, <2>1, <2>2, <2>3
<1>7. ASSUME NEW i \in Ids, NEW node \in Node, SetOk(i, node)
      PROVE  TableTypes'
  <2>a. \A c : Becomes(c) => destroyed' = destroyed
    BY DEF Becomes
  <2>b. /\ ops' \in 0..MaxOps /\ sql[i] # NoNode
        /\ UNCHANGED <<base, rows, counter, failed>>
    BY <1>7, <1>a DEF SetOk, CanEdit, CanOperate
  <2>1. /\ ops' \in 0..MaxOps /\ sql[i] # NoNode
        /\ UNCHANGED <<base, destroyed, rows, counter, failed>>
    BY <1>7, <2>a, <2>b DEF SetOk
  <2>2. CASE UNCHANGED <<sql, seen, mine>>
    BY <1>a, <2>1, <2>2
  <2>3. CASE Writes(i, Written(i, GetNode(i), node)) /\ mine' = mine \cup {i}
    <3>1. Written(i, GetNode(i), node) \in Node
      <4>1. sql[i] \in Node /\ GetNode(i) \in Node
        BY <2>1, <1>a, GetTyped DEF Exists
      <4> QED
        BY <4>1 DEF Written, Node
    <3>2. PICK n \in Node : sql' = [sql EXCEPT ![i] = n] /\ seen' = [seen EXCEPT ![i] = {n}]
      BY <2>3, <3>1, <1>a DEF Writes
    <3>3. i <= counter
      BY <2>1, <1>a
    <3> QED
      BY <1>a, <2>1, <2>3, <3>2, <3>3
  <2> QED
    BY <1>7, <2>2, <2>3 DEF SetOk
<1>8. ASSUME NEW i \in Ids, NEW node \in Node, OtherCommits(i, node)
      PROVE  TableTypes'
  <2>1. /\ ops' \in 0..MaxOps /\ sql[i] # NoNode
        /\ UNCHANGED <<mine, destroyed, rows, counter, failed>>
    BY <1>8, <1>a DEF OtherCommits, cachevars
  <2>2. /\ base' = [base EXCEPT ![i] = node] /\ sql' = [sql EXCEPT ![i] = node]
        /\ seen' = [seen EXCEPT ![i] = seen[i] \cup {node}]
    BY <1>8 DEF OtherCommits
  <2>3. i <= counter
    BY <1>a, <2>1
  <2> QED
    BY <1>a, <2>1, <2>2, <2>3
<1>9. ASSUME NEW i \in Ids, NEW wanted \in SUBSET Links, SetRaises(i, wanted)
      PROVE  TableTypes'
  <2>1. ops' \in 0..MaxOps /\ failed' = TRUE /\ UNCHANGED <<rowvars, destroyed, rows, counter>>
    BY <1>9, <1>a DEF SetRaises, CanEdit, CanOperate, Becomes
  <2> QED
    BY <1>a, <2>1 DEF rowvars
<1>10. ASSUME NEW i \in Ids, SetCannotRead(i)
       PROVE  TableTypes'
  <2>1. ops' \in 0..MaxOps /\ failed' = TRUE /\ UNCHANGED <<rowvars, destroyed, rows, counter>>
    BY <1>10, <1>a DEF SetCannotRead, CanEdit, CanOperate, Becomes
  <2> QED
    BY <1>a, <2>1 DEF rowvars
<1>11. CASE Commit \/ CommitRaises
  <2>1. /\ rows' \in {{}, rows} /\ failed' \in BOOLEAN /\ base' = sql /\ mine' = {}
        /\ seen' = [j \in Ids |-> {sql[j]} \ {NoNode}] /\ UNCHANGED <<sql, counter, ops>>
        /\ destroyed' \in {{}, destroyed}
    BY <1>11 DEF Commit, CommitRaises, Dropped, ReadableOf, ClearCache, cachevars
  <2> QED
    BY <1>a, <2>1
<1>12. CASE Rollback
  <2>1. /\ rows' \in {{}, rows} /\ failed' = FALSE /\ sql' = base /\ mine' = {}
        /\ seen' = [j \in Ids |-> {base[j]} \ {NoNode}] /\ UNCHANGED <<base, counter, ops>>
        /\ destroyed' = {}
    BY <1>12 DEF Rollback, Dropped, ReadableOf, ClearCache
  <2> QED
    BY <1>a, <2>1
<1> QED
  BY <1>1, <1>2, <1>3, <1>4, <1>5, <1>6, <1>7, <1>8, <1>9, <1>10, <1>11, <1>12 DEF Next

-----------------------------------------------------------------------------
(* Every step keeps the cache's types, whatever is edited between two steps of *)
(* filter_iter.                                                                *)

LEMMA SameTyped ==
  ASSUME Typed(Present), UNCHANGED cachevars
  PROVE  Typed(Present)'
<1>1. UNCHANGED <<cache, lru>>
  BY DEF cachevars
<1> QED
  BY <1>1 DEF Typed, Present, With

LEMMA BecomesTyped ==
  ASSUME NEW c, Typed(c), Becomes(c)
  PROVE  Typed(Present)'
<1>1. cache' = c.nodes /\ lru' = c.keys
  BY DEF Becomes
<1>2. /\ cache' \in [Ids -> CachedNode \cup {NoNode}] /\ lru' \in Seq(Ids)
      /\ Len(lru') <= CacheSize
      /\ \A i \in Ids : cache'[i] # NoNode => i \in ToSet(lru')
  BY <1>1 DEF Typed
<1> QED
  BY <1>2 DEF Typed, Present, With

LEMMA ClearedTyped ==
  ASSUME ClearCache
  PROVE  Typed(Present)'
<1>1. cache' = [i \in Ids |-> NoNode] /\ lru' = <<>> /\ destroyed' = {}
  BY DEF ClearCache, Nothing
<1>2. lru' \in Seq(Ids) /\ Len(lru') = 0
  BY <1>1
<1> QED
  BY <1>1, <1>2 DEF Typed, Present, With

\* The list of a cached node may be edited in place; the key stays.
LEMMA EditedTyped ==
  ASSUME NEW c, Typed(c), NEW i \in Ids, NEW ml \in SUBSET Links
  PROVE  Typed([nodes |-> [c.nodes EXCEPT ![i] =
                             IF @ = NoNode THEN @ ELSE [v |-> @.v, ml |-> ml]],
                keys |-> c.keys, raises |-> FALSE])
<1>1. PICK f \in [Ids -> CachedNode \cup {NoNode}] : f = c.nodes
  BY DEF Typed
<1>2. PICK n \in CachedNode \cup {NoNode} :
        /\ n = IF f[i] = NoNode THEN f[i] ELSE [v |-> f[i].v, ml |-> ml]
        /\ n = NoNode <=> f[i] = NoNode
  <2>1. f[i] = NoNode \/ [v |-> f[i].v, ml |-> ml] \in CachedNode
    BY DEF CachedNode
  <2> QED
    BY <2>1
<1>3. PICK g \in [Ids -> CachedNode \cup {NoNode}] :
        /\ g = [f EXCEPT ![i] = IF @ = NoNode THEN @ ELSE [v |-> @.v, ml |-> ml]]
        /\ \A j \in Ids : g[j] = NoNode <=> f[j] = NoNode
  <2>1. [f EXCEPT ![i] = n] \in [Ids -> CachedNode \cup {NoNode}]
    OBVIOUS
  <2>2. /\ [f EXCEPT ![i] = n] = [f EXCEPT ![i] = IF @ = NoNode THEN @ ELSE [v |-> @.v, ml |-> ml]]
        /\ \A j \in Ids : [f EXCEPT ![i] = n][j] = NoNode <=> f[j] = NoNode
    BY <1>2
  <2> QED
    BY <2>1, <2>2, Zenon
<1> QED
  BY <1>1, <1>3 DEF Typed

LEMMA TypedStep ==
  ASSUME TypeInv, Next
  PROVE  Typed(Present)'
<1>a. /\ TableTypes /\ Typed(Present)
      /\ \A i \in Ids : cache[i] # NoNode => i \in ToSet(lru)
  BY PresentTyped DEF TypeInv
<1>1. ASSUME NEW i \in Ids, NEW fetch \in BOOLEAN, Get(i, fetch)
      PROVE  Typed(Present)'
  <2>1. Exists(i) /\ Becomes(AfterGetNode(i, fetch))
    BY <1>1 DEF Get
  <2> QED
    BY <2>1, GetTyped, BecomesTyped
<1>2. CASE FilterIter
  BY <1>2, <1>a, SameTyped DEF FilterIter
<1>3. ASSUME NEW row \in rows, FilterYield(row)
      PROVE  Typed(Present)'
  <2>1. PICK i \in Ids, v \in Values : i = row[1] /\ v = row[2]
    BY <1>a DEF TableTypes
  <2>2. PICK node \in CachedNode : node = [v |-> v, ml |-> Unfetched]
    BY DEF CachedNode
  <2>3. Becomes(IF cache[i] # NoNode THEN CacheRefresh(Present, i) ELSE CacheSave(Present, i, node))
    BY <1>3, <2>1, <2>2 DEF FilterYield, AfterYield
  <2>4. CASE cache[i] # NoNode
    <3>1. i \in ToSet(Present.keys)
      BY <1>a, <2>4 DEF Present, With
    <3>2. Typed(CacheRefresh(Present, i))
      BY <1>a, <3>1, RefreshTyped
    <3>3. Becomes(CacheRefresh(Present, i))
      BY <2>3, <2>4
    <3> QED
      BY <3>2, <3>3, BecomesTyped
  <2>5. CASE cache[i] = NoNode
    <3>1. Typed(CacheSave(Present, i, node))
      BY <1>a, SaveTyped
    <3>2. Becomes(CacheSave(Present, i, node))
      BY <2>3, <2>5
    <3> QED
      BY <3>1, <3>2, BecomesTyped
  <2> QED
    BY <2>4, <2>5
<1>4. ASSUME NEW node \in Node, CreateOk(node)
      PROVE  Typed(Present)'
  BY <1>4, <1>a, SameTyped DEF CreateOk
<1>5. CASE CreateRaises
  BY <1>5, <1>a, SameTyped DEF CreateRaises
<1>6. ASSUME NEW i \in Ids, Destroy(i)
      PROVE  Typed(Present)'
  <2>1. cache' = [cache EXCEPT ![i] = NoNode] /\ UNCHANGED lru
    BY <1>6 DEF Destroy
  <2>2. PICK f \in [Ids -> CachedNode \cup {NoNode}] : f = cache
    BY <1>a, PresentTyped
  <2>3. PICK g \in [Ids -> CachedNode \cup {NoNode}] :
          /\ g = [f EXCEPT ![i] = NoNode]
          /\ g[i] = NoNode /\ \A j \in Ids \ {i} : g[j] = f[j]
    BY Emptied
  <2>4. cache' = g /\ \A j \in Ids : g[j] # NoNode => j \in ToSet(lru)
    BY <1>a, <2>1, <2>2, <2>3
  <2>5. lru \in Seq(Ids) /\ Len(lru) <= CacheSize
    BY <1>a, PresentTyped
  <2> QED
    BY <1>a, <2>1, <2>4, <2>5 DEF Typed, Present, With
<1>7. ASSUME NEW i \in Ids, NEW node \in Node, SetOk(i, node)
      PROVE  Typed(Present)'
  <2>1. Exists(i)
    BY <1>7 DEF SetOk, Exists
  <2>2. Typed(AfterGetNode(i, TRUE))
    BY <2>1, GetTyped
  <2>3. CASE GetNode(i) # node
    <3>1. Becomes(CacheDel(AfterGetNode(i, TRUE), i))
      BY <1>7, <2>3 DEF SetOk
    <3>2. Typed(CacheDel(AfterGetNode(i, TRUE), i))
      BY <2>2, DelTyped
    <3> QED
      BY <3>1, <3>2, BecomesTyped
  <2>4. CASE GetNode(i) = node
    <3>1. Becomes(AfterGetNode(i, TRUE))
      BY <1>7, <2>4 DEF SetOk
    <3> QED
      BY <2>2, <3>1, BecomesTyped
  <2> QED
    BY <2>3, <2>4
<1>8. ASSUME NEW i \in Ids, NEW node \in Node, OtherCommits(i, node)
      PROVE  Typed(Present)'
  BY <1>8, <1>a, SameTyped DEF OtherCommits
<1>9. ASSUME NEW i \in Ids, NEW wanted \in SUBSET Links, SetRaises(i, wanted)
      PROVE  Typed(Present)'
  <2>1. Exists(i)
    BY <1>9 DEF SetRaises, Exists
  <2>2. PICK c : c = AfterGetNode(i, TRUE) /\ Typed(c)
    BY <2>1, GetTyped
  <2>3. GetNode(i).ml \in SUBSET Links
    BY <2>1, GetTyped DEF Node
  <2>4. PICK ml \in SUBSET Links :
          Becomes([nodes |-> [c.nodes EXCEPT ![i] = IF @ = NoNode THEN @ ELSE [v |-> @.v, ml |-> ml]],
                   keys |-> c.keys, raises |-> FALSE])
    <3>1. \A ml \in {GetNode(i).ml} \cup {(GetNode(i).ml \cap wanted) \cup some :
                                            some \in SUBSET (wanted \ GetNode(i).ml)} :
            ml \in SUBSET Links
      BY <2>3
    <3> QED
      BY <1>9, <2>2, <3>1 DEF SetRaises
  <2> QED
    BY <2>2, <2>4, EditedTyped, BecomesTyped
<1>10. CASE Commit \/ Rollback
  BY <1>10, ClearedTyped DEF Commit, Rollback
<1>11. CASE CommitRaises
  BY <1>11, <1>a, SameTyped DEF CommitRaises
<1>12. ASSUME NEW i \in Ids, SetCannotRead(i)
       PROVE  Typed(Present)'
  <2>1. Exists(i) /\ Becomes(AfterGetNode(i, TRUE))
    BY <1>12 DEF SetCannotRead, Exists
  <2> QED
    BY <2>1, GetTyped, BecomesTyped
<1> QED
  BY <1>1, <1>2, <1>3, <1>4, <1>5, <1>6, <1>7, <1>8, <1>9, <1>10, <1>11, <1>12 DEF Next

-----------------------------------------------------------------------------
(* Every step keeps list and dictionary together. *)

LEMMA ClearedKeys ==
  ASSUME ClearCache
  PROVE  KeysInv'
<1>1. cache' = [i \in Ids |-> NoNode] /\ lru' = <<>> /\ destroyed' = {}
  BY DEF ClearCache, Nothing
<1>2. lru' \in Seq(Ids) /\ Len(lru') = 0 /\ ToSet(lru') = {} /\ IsInjective(lru')
  BY <1>1 DEF ToSet, IsInjective
<1>3. Sound(Present)'
  BY <1>1, <1>2 DEF Sound, Typed, Present, With
<1> QED
  BY <1>1, <1>2, <1>3 DEF KeysInv

LEMMA SameKeys ==
  ASSUME IInv, UNCHANGED cachevars, counter <= counter', counter \in Nat, counter' \in Nat,
         \A i \in Ids : i <= counter => (sql[i] = NoNode <=> sql'[i] = NoNode)
  PROVE  KeysInv'
<1>1. UNCHANGED <<cache, lru, destroyed>>
  BY DEF cachevars
<1>2. KeysInv /\ \A j \in ToSet(lru) : j \in Ids /\ j \in Nat
  BY Places, PresentIs DEF IInv, KeysInv, Ids
<1>3. Sound(Present)'
  BY <1>1, <1>2 DEF KeysInv, Sound, Typed, Present, With
<1>4. \A i \in Ids : cache[i] # NoNode => i \in ToSet(lru)
  BY <1>2, PresentIs DEF KeysInv
<1>5. ASSUME NEW j \in ToSet(lru)
      PROVE  j <= counter /\ j <= counter'
  BY <1>2, <1>5 DEF KeysInv
<1>6. ASSUME NEW j \in destroyed
      PROVE  j <= counter' /\ sql'[j] = NoNode
  <2>1. j \in Ids /\ j \in Nat /\ j <= counter /\ sql[j] = NoNode
    BY <1>2, <1>6 DEF IInv, TableTypes, KeysInv, Ids
  <2> QED
    BY <2>1
<1> QED
  BY <1>1, <1>2, <1>3, <1>4, <1>5, <1>6 DEF KeysInv

LEMMA KeysStep ==
  ASSUME IInv, ~EditsWhileIterating, Next
  PROVE  KeysInv'
<1>a. /\ TableTypes /\ KeysInv /\ counter \in Nat /\ NoNode \notin Node
      /\ lru \in Seq(Ids)
      /\ \A j \in ToSet(lru) : j \in Ids /\ j \in Nat /\ j <= counter
  <2>1. TableTypes /\ KeysInv /\ counter \in Nat /\ NoNode \notin Node
    BY NodesAreCacheable DEF IInv, TableTypes
  <2>2. lru \in Seq(Ids)
    BY <2>1, PresentIs DEF KeysInv
  <2>3. \A j \in ToSet(lru) : j \in Ids
    BY <2>2, Places
  <2>4. \A j \in Ids : j \in Nat
    BY DEF Ids
  <2> QED
    BY <2>1, <2>2, <2>3, <2>4 DEF KeysInv
<1>1. ASSUME NEW i \in Ids, NEW fetch \in BOOLEAN, Get(i, fetch)
      PROVE  KeysInv'
  <2>1. /\ Exists(i) /\ Becomes(AfterGetNode(i, fetch)) /\ sql' = sql /\ counter' = counter
    BY <1>1 DEF Get, rowvars
  <2>2. sql[i] # NoNode /\ Follows(Present, AfterGetNode(i, fetch), i)
    BY <2>1, GetFollows
  <2> QED
    BY <2>1, <2>2, KeysFollow
<1>2. CASE FilterIter
  BY <1>2, <1>a, SameKeys DEF FilterIter, rowvars
<1>3. ASSUME NEW row \in rows, FilterYield(row)
      PROVE  KeysInv'
  <2>1. PICK i \in Ids, v \in Values : i = row[1] /\ v = row[2] /\ sql[i] # NoNode
    BY <1>a DEF TableTypes, IInv, SeenInv
  <2>2. /\ sql' = sql /\ counter' = counter
        /\ Becomes(IF cache[i] # NoNode THEN CacheRefresh(Present, i)
                   ELSE CacheSave(Present, i, [v |-> v, ml |-> Unfetched]))
    BY <1>3, <2>1 DEF FilterYield, AfterYield, rowvars
  <2>3. Sound(Present) /\ Present.nodes = cache /\ Present.keys = lru
    BY <1>a DEF KeysInv, Present, With
  <2>4. CASE cache[i] # NoNode
    <3>1. i \in ToSet(lru)
      BY <2>4, <2>3, PresentIs
    <3>2. Follows(Present, CacheRefresh(Present, i), i)
      BY <2>3, <3>1, RefreshFollows
    <3>3. Becomes(CacheRefresh(Present, i))
      BY <2>2, <2>4
    <3> QED
      BY <2>1, <2>2, <3>2, <3>3, KeysFollow
  <2>5. CASE cache[i] = NoNode
    <3>1. i \notin ToSet(lru)
      BY <2>5, <2>1, <1>a DEF KeysInv
    <3>2. [v |-> v, ml |-> Unfetched] \in CachedNode
      BY DEF CachedNode
    <3>3. Follows(Present, CacheSave(Present, i, [v |-> v, ml |-> Unfetched]), i)
      BY <2>3, <3>1, <3>2, SaveFollows
    <3>4. Becomes(CacheSave(Present, i, [v |-> v, ml |-> Unfetched]))
      BY <2>2, <2>5
    <3> QED
      BY <2>1, <2>2, <3>3, <3>4, KeysFollow
  <2> QED
    BY <2>4, <2>5
<1>4. ASSUME NEW node \in Node, CreateOk(node)
      PROVE  KeysInv'
  <2>1. counter' = counter + 1 /\ UNCHANGED cachevars
    BY <1>4 DEF CreateOk, NewId
  <2>2. sql' = [sql EXCEPT ![counter'] = node]
    BY <1>4 DEF CreateOk, Writes
  <2>3. counter <= counter' /\ counter' \in Nat /\ \A j \in Ids : j <= counter => j # counter'
    BY <1>a, <2>1
  <2>4. \A j \in Ids : j <= counter => sql'[j] = sql[j]
    BY <1>a, <2>2, <2>3 DEF TableTypes
  <2> QED
    BY <1>a, <2>1, <2>3, <2>4, SameKeys
<1>5. CASE CreateRaises
  <2>1. counter' = counter + 1 /\ UNCHANGED cachevars /\ sql' = sql
    BY <1>5 DEF CreateRaises, NewId
  <2>2. counter <= counter' /\ counter' \in Nat
    BY <1>a, <2>1
  <2> QED
    BY <1>a, <2>1, <2>2, SameKeys
<1>6. ASSUME NEW i \in Ids, Destroy(i)
      PROVE  KeysInv'
  <2>1. /\ cache' = [cache EXCEPT ![i] = NoNode] /\ sql' = [sql EXCEPT ![i] = NoNode]
        /\ destroyed' = destroyed \cup {i} /\ Exists(i) /\ UNCHANGED <<lru, counter>>
    BY <1>6 DEF Destroy, Writes
  <2>2. /\ cache \in [Ids -> CachedNode \cup {NoNode}] /\ Len(lru) <= CacheSize /\ IsInjective(lru)
        /\ \A j \in Ids : cache[j] # NoNode => j \in ToSet(lru)
    BY <1>a, PresentIs DEF KeysInv
  <2>3. /\ cache' \in [Ids -> CachedNode \cup {NoNode}]
        /\ \A j \in Ids : cache'[j] # NoNode => cache[j] # NoNode /\ j # i
    BY <2>1, <2>2
  <2>4. \A j \in Ids \ {i} : sql'[j] = sql[j] /\ cache'[j] = cache[j]
    BY <2>1, <2>2, <1>a DEF TableTypes
  <2>5. sql'[i] = NoNode
    BY <2>1, <1>a DEF TableTypes
  <2>6. Sound(Present)'
    BY <2>1, <2>2, <2>3, <1>a DEF Sound, Typed, Present, With
  <2>7. i <= counter
    BY <1>a, <2>1 DEF Exists, KeysInv, TableTypes
  <2> QED
    BY <1>a, <2>1, <2>3, <2>4, <2>5, <2>6, <2>7 DEF KeysInv, TableTypes
<1>7. ASSUME NEW i \in Ids, NEW node \in Node, SetOk(i, node)
      PROVE  KeysInv'
  <2>1. sql[i] # NoNode /\ counter' = counter /\ Exists(i)
    BY <1>7 DEF SetOk, Exists
  <2>2. Follows(Present, AfterGetNode(i, TRUE), i)
    BY <2>1, GetFollows
  <2>3. CASE GetNode(i) # node
    <3>1. /\ Becomes(CacheDel(AfterGetNode(i, TRUE), i))
          /\ sql' = [sql EXCEPT ![i] = Written(i, GetNode(i), node)]
      BY <1>7, <2>3 DEF SetOk, Writes
    <3>2. Follows(AfterGetNode(i, TRUE), CacheDel(AfterGetNode(i, TRUE), i), i)
      BY <2>2, DelFollows DEF Follows
    <3>3. Follows(Present, CacheDel(AfterGetNode(i, TRUE), i), i)
      BY <2>2, <3>2, FollowsOn
    <3>4. Written(i, GetNode(i), node) \in Node
      BY <2>1, <1>a, GetNodeReads DEF Written, Node, TableTypes
    <3>5. sql'[i] # NoNode /\ \A j \in Ids \ {i} : sql'[j] = sql[j]
      BY <3>1, <3>4, <1>a DEF TableTypes
    <3> QED
      BY <2>1, <3>1, <3>3, <3>5, KeysFollow
  <2>4. CASE GetNode(i) = node
    <3>1. Becomes(AfterGetNode(i, TRUE)) /\ sql' = sql
      BY <1>7, <2>4 DEF SetOk
    <3> QED
      BY <2>1, <2>2, <3>1, KeysFollow
  <2> QED
    BY <2>3, <2>4
<1>8. ASSUME NEW i \in Ids, NEW node \in Node, OtherCommits(i, node)
      PROVE  KeysInv'
  <2>1. sql[i] # NoNode /\ UNCHANGED <<cachevars, counter>> /\ sql' = [sql EXCEPT ![i] = node]
    BY <1>8 DEF OtherCommits
  <2>2. \A j \in Ids : sql[j] = NoNode <=> sql'[j] = NoNode
    BY <2>1, <1>a DEF TableTypes
  <2> QED
    BY <1>a, <2>1, <2>2, SameKeys
<1>9. ASSUME NEW i \in Ids, NEW wanted \in SUBSET Links, SetRaises(i, wanted)
      PROVE  KeysInv'
  <2>1. sql[i] # NoNode /\ counter' = counter /\ sql' = sql /\ Exists(i)
    BY <1>9 DEF SetRaises, Exists, rowvars
  <2>2. Follows(Present, AfterGetNode(i, TRUE), i)
    BY <2>1, GetFollows
  <2>3. PICK c : c = AfterGetNode(i, TRUE)
    OBVIOUS
  <2>4. PICK ml \in SUBSET Links :
          Becomes([nodes |-> [c.nodes EXCEPT ![i] = IF @ = NoNode THEN @ ELSE [v |-> @.v, ml |-> ml]],
                   keys |-> c.keys, raises |-> FALSE])
    <3>1. GetNode(i).ml \in SUBSET Links
      BY <2>1, GetNodeReads DEF Node
    <3>2. \A ml \in {GetNode(i).ml} \cup {(GetNode(i).ml \cap wanted) \cup some :
                                            some \in SUBSET (wanted \ GetNode(i).ml)} :
            ml \in SUBSET Links
      BY <3>1
    <3> QED
      BY <1>9, <2>3, <3>2 DEF SetRaises
  <2>5. PICK f \in [Ids -> CachedNode \cup {NoNode}] : f = c.nodes
    BY <2>2, <2>3 DEF Follows, Sound, Typed
  <2>6. PICK g \in [Ids -> CachedNode \cup {NoNode}] :
          /\ g = [f EXCEPT ![i] = IF @ = NoNode THEN @ ELSE [v |-> @.v, ml |-> ml]]
          /\ \A j \in Ids : g[j] = NoNode <=> f[j] = NoNode
          /\ \A j \in Ids \ {i} : g[j] = f[j]
    <3>1. f[i] = NoNode \/ [v |-> f[i].v, ml |-> ml] \in CachedNode
      BY DEF CachedNode
    <3>2. PICK n \in CachedNode \cup {NoNode} :
            /\ n = IF f[i] = NoNode THEN f[i] ELSE [v |-> f[i].v, ml |-> ml]
            /\ n = NoNode <=> f[i] = NoNode
      BY <3>1
    <3>3. [f EXCEPT ![i] = n] \in [Ids -> CachedNode \cup {NoNode}]
      OBVIOUS
    <3>4. /\ [f EXCEPT ![i] = n] = [f EXCEPT ![i] = IF @ = NoNode THEN @ ELSE [v |-> @.v, ml |-> ml]]
          /\ \A j \in Ids : [f EXCEPT ![i] = n][j] = NoNode <=> f[j] = NoNode
          /\ \A j \in Ids \ {i} : [f EXCEPT ![i] = n][j] = f[j]
      BY <3>2
    <3> QED
      BY <3>3, <3>4, Zenon
  <2>7. PICK d : d = [nodes |-> g, keys |-> c.keys, raises |-> FALSE]
    OBVIOUS
  <2>8. Becomes(d)
    BY <2>4, <2>5, <2>6, <2>7
  <2>9. Sound(d)
    BY <2>2, <2>3, <2>5, <2>6, <2>7 DEF Sound, Typed, Follows
  <2>10. \A j \in ToSet(c.keys) : j \in Ids
    <3>1. c.keys \in Seq(Ids)
      BY <2>2, <2>3 DEF Follows, Sound, Typed
    <3> QED
      BY <3>1, Places
  <2>11. Follows(Present, d, i)
    BY <2>2, <2>3, <2>5, <2>6, <2>7, <2>9, <2>10 DEF Follows
  <2> QED
    BY <2>1, <2>8, <2>11, KeysFollow
<1>10. CASE Commit \/ Rollback
  BY <1>10, ClearedKeys DEF Commit, Rollback
<1>11. CASE CommitRaises
  BY <1>11, <1>a, SameKeys DEF CommitRaises
<1>12. ASSUME NEW i \in Ids, SetCannotRead(i)
       PROVE  KeysInv'
  <2>1. /\ Exists(i) /\ Becomes(AfterGetNode(i, TRUE)) /\ sql' = sql /\ counter' = counter
    BY <1>12 DEF SetCannotRead, Exists, rowvars
  <2>2. sql[i] # NoNode /\ Follows(Present, AfterGetNode(i, TRUE), i)
    BY <2>1, GetFollows
  <2> QED
    BY <2>1, <2>2, KeysFollow
<1> QED
  BY <1>1, <1>2, <1>3, <1>4, <1>5, <1>6, <1>7, <1>8, <1>9, <1>10, <1>11, <1>12 DEF Next

-----------------------------------------------------------------------------
(* Every step keeps what is cached within what could have been read. *)

\* SeenInv, of what the cache holds after an operation d of it on node i.
LEMMA SeenFollows ==
  ASSUME IInv, NEW i \in Ids, NEW d, Follows(Present, d, i), Becomes(d),
         ~failed' => ~failed /\ (d.nodes[i] # NoNode => Readable(i, d.nodes[i])),
         UNCHANGED <<sql, seen>>, rows' \subseteq rows
  PROVE  SeenInv'
<1>1. cache' = d.nodes /\ Present.nodes = cache
  BY DEF Becomes, Present, With
<1>2. ASSUME NEW j \in Ids, ~failed', cache'[j] # NoNode
      PROVE  Readable(j, cache[j])'
  <2>1. CASE j = i
    BY <1>1, <1>2, <2>1 DEF Readable
  <2>2. CASE j # i
    <3>1. cache'[j] = cache[j]
      BY <1>1, <1>2, <2>2 DEF Follows
    <3>2. Readable(j, cache[j])
      BY <1>2, <3>1 DEF IInv, SeenInv
    <3> QED
      BY <3>1, <3>2 DEF Readable
  <2> QED
    BY <2>1, <2>2
<1>3. SeenInv
  BY DEF IInv
<1> QED
  BY <1>2, <1>3 DEF SeenInv

\* After a write of node i, no row being held by an iterator.
LEMMA SeenWritten ==
  ASSUME IInv, NEW i \in Ids, NEW new \in Node \cup {NoNode}, Writes(i, new), rows' = {},
         failed' = failed, cache'[i] = NoNode,
         \A j \in Ids \ {i} : cache'[j] \in {cache[j], NoNode}
  PROVE  SeenInv'
<1>1. TableTypes /\ SeenInv
  BY DEF IInv
<1>2. /\ sql'[i] = new /\ seen'[i] = {new} \ {NoNode}
      /\ \A j \in Ids \ {i} : sql'[j] = sql[j] /\ seen'[j] = seen[j]
  BY <1>1 DEF TableTypes, Writes
<1>3. \A j \in Ids : sql'[j] # NoNode => sql'[j] \in seen'[j]
  BY <1>1, <1>2 DEF SeenInv
<1>4. ASSUME NEW j \in Ids, ~failed', cache'[j] # NoNode
      PROVE  Readable(j, cache[j])'
  <2>1. j # i /\ cache'[j] = cache[j] /\ ~failed
    BY <1>4
  <2>2. Readable(j, cache[j])
    BY <1>1, <1>4, <2>1 DEF SeenInv
  <2> QED
    BY <1>2, <2>1, <2>2 DEF Readable
<1> QED
  BY <1>3, <1>4 DEF SeenInv

LEMMA SeenAnew ==
  ASSUME TableTypes, ClearCache, rows' = {}, NEW table \in [Ids -> Node \cup {NoNode}],
         sql' = table, seen' = ReadableOf(table)
  PROVE  SeenInv'
<1>1. cache' = [j \in Ids |-> NoNode] /\ seen' = [j \in Ids |-> {table[j]} \ {NoNode}]
  BY DEF ClearCache, Nothing, ReadableOf
<1> QED
  BY <1>1 DEF SeenInv

LEMMA SeenStep ==
  ASSUME IInv, ~EditsWhileIterating, Next
  PROVE  SeenInv'
<1>a. /\ TableTypes /\ KeysInv /\ SeenInv /\ NoNode \notin Node
      /\ cache \in [Ids -> CachedNode \cup {NoNode}]
  BY NodesAreCacheable, PresentIs DEF IInv, KeysInv
<1>1. ASSUME NEW i \in Ids, NEW fetch \in BOOLEAN, Get(i, fetch)
      PROVE  SeenInv'
  <2>1. /\ Exists(i) /\ Becomes(AfterGetNode(i, fetch)) /\ UNCHANGED <<sql, seen, rows>>
        /\ ~failed' => ~failed
    BY <1>1 DEF Get, FailsIf, rowvars
  <2> QED
    BY <2>1, GetFollows, SeenFollows
<1>2. CASE FilterIter
  <2>1. /\ rows' = {<<i, sql[i].v>> : i \in {j \in Ids : sql[j] # NoNode}}
        /\ UNCHANGED <<sql, seen, cache, failed>>
    BY <1>2 DEF FilterIter, rowvars, cachevars
  <2>2. \A row \in rows' : sql[row[1]] # NoNode /\ \E n \in seen[row[1]] : n.v = row[2]
    BY <1>a, <2>1 DEF SeenInv
  <2> QED
    BY <1>a, <2>1, <2>2 DEF SeenInv, Readable
<1>3. ASSUME NEW row \in rows, FilterYield(row)
      PROVE  SeenInv'
  <2>1. PICK i \in Ids, v \in Values :
               i = row[1] /\ v = row[2] /\ sql[i] # NoNode /\ \E n \in seen[i] : n.v = v
    BY <1>a DEF TableTypes, SeenInv
  <2>2. /\ UNCHANGED <<sql, seen>> /\ rows' \subseteq rows /\ (~failed' => ~failed)
        /\ Becomes(IF cache[i] # NoNode THEN CacheRefresh(Present, i)
                   ELSE CacheSave(Present, i, [v |-> v, ml |-> Unfetched]))
    BY <1>3, <2>1 DEF FilterYield, AfterYield, FailsIf, rowvars
  <2>3. Sound(Present) /\ Present.nodes = cache /\ Present.keys = lru
    BY <1>a DEF KeysInv, Present, With
  <2>4. CASE cache[i] # NoNode
    <3>1. i \in ToSet(lru)
      BY <2>4, <2>3, PresentIs
    <3>2. Follows(Present, CacheRefresh(Present, i), i) /\ CacheRefresh(Present, i).nodes = cache
      BY <2>3, <3>1, RefreshFollows
    <3>3. Becomes(CacheRefresh(Present, i))
      BY <2>2, <2>4
    <3>4. ~failed => Readable(i, cache[i])
      BY <2>4, <1>a DEF SeenInv
    <3> QED
      BY <2>2, <3>2, <3>3, <3>4, SeenFollows
  <2>5. CASE cache[i] = NoNode
    <3>1. i \notin ToSet(lru)
      BY <2>5, <2>1, <1>a DEF KeysInv
    <3>2. PICK node \in CachedNode : node = [v |-> v, ml |-> Unfetched]
      BY DEF CachedNode
    <3>3. /\ Follows(Present, CacheSave(Present, i, node), i)
          /\ CacheSave(Present, i, node).nodes[i] \in {node, NoNode}
      BY <2>3, <3>1, SaveFollows
    <3>4. Becomes(CacheSave(Present, i, node))
      BY <2>2, <2>5, <3>2
    <3>5. Readable(i, node)
      BY <2>1, <3>2 DEF Readable
    <3> QED
      BY <2>2, <3>3, <3>4, <3>5, SeenFollows
  <2> QED
    BY <2>4, <2>5
<1>4. ASSUME NEW node \in Node, CreateOk(node)
      PROVE  SeenInv'
  <2>1. /\ counter' = counter + 1 /\ counter < MaxId /\ rows = {} /\ rows' = rows /\ failed' = failed
        /\ UNCHANGED <<cache, lru>> /\ Writes(counter', node)
    BY <1>4, <1>a DEF CreateOk, NewId, CanEdit, cachevars
  <2>2. PICK i \in Ids : i = counter' /\ ~(i <= counter)
    BY <1>a, <2>1 DEF TableTypes, Ids
  <2>a. Writes(i, node)
    BY <2>1, <2>2
  <2>3. cache[i] = NoNode
    BY <1>a, <2>2 DEF KeysInv, TableTypes
  <2>4. cache' = cache /\ rows' = {} /\ failed' = failed
    BY <2>1
  <2>5. cache'[i] = NoNode /\ \A j \in Ids \ {i} : cache'[j] \in {cache[j], NoNode}
    BY <2>3, <2>4
  <2> QED
    BY <2>a, <2>4, <2>5, SeenWritten
<1>5. CASE CreateRaises
  <2>1. UNCHANGED <<sql, seen, rows>> /\ failed' = TRUE
    BY <1>5 DEF CreateRaises
  <2> QED
    BY <2>1, <1>a DEF SeenInv
<1>6. ASSUME NEW i \in Ids, Destroy(i)
      PROVE  SeenInv'
  <2>1. /\ Writes(i, NoNode)
        /\ cache' = [cache EXCEPT ![i] = NoNode] /\ rows' = {} /\ failed' = failed
    BY <1>6 DEF Destroy, CanEdit
  <2>2. cache'[i] = NoNode /\ \A j \in Ids \ {i} : cache'[j] \in {cache[j], NoNode}
    BY <2>1, <1>a
  <2> QED
    BY <2>1, <2>2, SeenWritten
<1>7. ASSUME NEW i \in Ids, NEW node \in Node, SetOk(i, node)
      PROVE  SeenInv'
  <2>1. sql[i] # NoNode /\ Exists(i) /\ rows = {} /\ UNCHANGED <<rows, failed>>
    BY <1>7 DEF SetOk, Exists, CanEdit
  <2>2. Follows(Present, AfterGetNode(i, TRUE), i)
    BY <2>1, GetFollows
  <2>3. CASE GetNode(i) # node
    <3>1. PICK new \in Node : new = Written(i, GetNode(i), node)
      BY <2>1, <1>a, GetNodeReads DEF Written, Node, TableTypes
    <3>2. /\ Becomes(CacheDel(AfterGetNode(i, TRUE), i))
          /\ Writes(i, new)
      BY <1>7, <2>3, <3>1 DEF SetOk
    <3>3. /\ Follows(AfterGetNode(i, TRUE), CacheDel(AfterGetNode(i, TRUE), i), i)
          /\ CacheDel(AfterGetNode(i, TRUE), i).nodes[i] = NoNode
      BY <2>2, DelFollows DEF Follows
    <3>4. Follows(Present, CacheDel(AfterGetNode(i, TRUE), i), i)
      BY <2>2, <3>3, FollowsOn
    <3>5. cache'[i] = NoNode /\ \A j \in Ids \ {i} : cache'[j] \in {cache[j], NoNode}
      BY <3>2, <3>3, <3>4 DEF Becomes, Follows, Present, With
    <3>6. rows' = {}
      BY <2>1
    <3> QED
      BY <2>1, <3>2, <3>5, <3>6, SeenWritten
  <2>4. CASE GetNode(i) = node
    <3>1. Becomes(AfterGetNode(i, TRUE)) /\ UNCHANGED <<sql, seen>>
      BY <1>7, <2>4 DEF SetOk
    <3> QED
      BY <2>1, <3>1, GetFollows, SeenFollows
  <2> QED
    BY <2>3, <2>4
<1>8. ASSUME NEW i \in Ids, NEW node \in Node, OtherCommits(i, node)
      PROVE  SeenInv'
  <2>1. /\ UNCHANGED <<cache, rows, failed>> /\ sql' = [sql EXCEPT ![i] = node]
        /\ seen' = [seen EXCEPT ![i] = seen[i] \cup {node}]
    BY <1>8 DEF OtherCommits, cachevars
  <2>2. \A j \in Ids : seen[j] \subseteq seen'[j] /\ (sql'[j] = sql[j] \/ sql'[j] \in seen'[j])
    BY <2>1, <1>a DEF TableTypes
  <2>3. \A j \in Ids : sql[j] # NoNode => sql'[j] # NoNode
    BY <2>1, <1>a DEF TableTypes
  <2>4. \A j \in Ids : sql'[j] # NoNode => sql'[j] \in seen'[j]
    BY <2>2, <1>a DEF SeenInv
  <2>5. \A row \in rows : row[1] \in Ids
    BY <1>a DEF TableTypes
  <2>6. \A row \in rows : sql'[row[1]] # NoNode /\ \E n \in seen'[row[1]] : n.v = row[2]
    BY <2>2, <2>3, <2>5, <1>a DEF SeenInv
  <2>7. ~failed => \A j \in Ids : cache[j] # NoNode => Readable(j, cache[j])'
    BY <2>1, <2>2, <1>a DEF SeenInv, Readable
  <2> QED
    BY <2>1, <2>4, <2>6, <2>7 DEF SeenInv
<1>9. ASSUME NEW i \in Ids, NEW wanted \in SUBSET Links, SetRaises(i, wanted)
      PROVE  SeenInv'
  <2>1. UNCHANGED <<sql, seen, rows>> /\ failed' = TRUE
    BY <1>9 DEF SetRaises, rowvars
  <2> QED
    BY <2>1, <1>a DEF SeenInv
<1>10. CASE Commit
  <2>1. ClearCache /\ rows' = {} /\ sql' = sql /\ seen' = ReadableOf(sql)
    BY <1>10 DEF Commit, Dropped
  <2> QED
    BY <2>1, <1>a, SeenAnew DEF TableTypes
<1>11. CASE Rollback
  <2>1. ClearCache /\ rows' = {} /\ sql' = base /\ seen' = ReadableOf(base)
    BY <1>11 DEF Rollback, Dropped
  <2> QED
    BY <2>1, <1>a, SeenAnew DEF TableTypes
<1>12. CASE CommitRaises
  <2>1. rows' = {} /\ failed' = TRUE /\ sql' = sql /\ seen' = [j \in Ids |-> {sql[j]} \ {NoNode}]
    BY <1>12 DEF CommitRaises, Dropped, ReadableOf
  <2> QED
    BY <2>1 DEF SeenInv
<1>13. ASSUME NEW i \in Ids, SetCannotRead(i)
       PROVE  SeenInv'
  <2>1. UNCHANGED <<sql, seen, rows>> /\ failed' = TRUE
    BY <1>13 DEF SetCannotRead, rowvars
  <2> QED
    BY <2>1, <1>a DEF SeenInv
<1> QED
  BY <1>1, <1>2, <1>3, <1>4, <1>5, <1>6, <1>7, <1>8, <1>9, <1>10, <1>11, <1>12, <1>13 DEF Next

-----------------------------------------------------------------------------
(* The theorems. *)

LEMMA InitIInv ==
  ASSUME Init
  PROVE  IInv
<1>1. /\ base = [i \in Ids |-> NoNode] /\ sql = base
      /\ mine = {} /\ destroyed = {} /\ rows = {} /\ counter = 0 /\ ops = 0 /\ failed = FALSE
      /\ seen = [i \in Ids |-> {sql[i]} \ {NoNode}]
      /\ cache = [i \in Ids |-> NoNode] /\ lru = <<>>
  BY DEF Init, Nothing, ReadableOf
<1>2. TableTypes
  <2>1. /\ base \in [Ids -> Node \cup {NoNode}] /\ sql \in [Ids -> Node \cup {NoNode}]
    BY <1>1
  <2>2. \A i \in Ids : base[i] = NoNode /\ sql[i] = NoNode
    BY <1>1
  <2>3. seen \in [Ids -> SUBSET Node]
    BY <1>1, <2>2
  <2>4. mine \subseteq Ids /\ destroyed \subseteq Ids /\ rows \subseteq Ids \X Values /\ failed \in BOOLEAN
    BY <1>1
  <2>5. counter \in 0..MaxId /\ ops \in 0..MaxOps
    BY <1>1
  <2> QED
    BY <2>1, <2>2, <2>3, <2>4, <2>5 DEF TableTypes
<1>3. lru \in Seq(Ids) /\ Len(lru) = 0 /\ ToSet(lru) = {} /\ IsInjective(lru)
  BY <1>1 DEF ToSet, IsInjective
<1>4. Sound(Present)
  <2>1. cache \in [Ids -> CachedNode \cup {NoNode}] /\ \A i \in Ids : cache[i] = NoNode
    BY <1>1
  <2>2. Len(lru) <= CacheSize
    <3>1. CacheSize \in Nat
      BY NumbersAssumption
    <3> QED
      BY <1>3, <3>1
  <2> QED
    BY <1>3, <2>1, <2>2, PresentIs
<1>5. KeysInv
  BY <1>1, <1>3, <1>4 DEF KeysInv
<1> QED
  BY <1>1, <1>2, <1>5 DEF IInv, SeenInv

LEMMA NextKeeps ==
  ASSUME ~EditsWhileIterating, IInv, [Next]_vars
  PROVE  IInv'
<1>1. CASE UNCHANGED vars
  <2>1. /\ UNCHANGED <<base, sql, mine, seen, cache, lru, destroyed>>
        /\ UNCHANGED <<rows, counter, failed, ops>>
    BY <1>1 DEF vars
  <2>2. TableTypes'
    BY <2>1 DEF IInv, TableTypes
  <2>3. KeysInv'
    BY <2>1 DEF IInv, KeysInv, Sound, Typed, Present, With
  <2>4. SeenInv'
    BY <2>1 DEF IInv, SeenInv, Readable
  <2> QED
    BY <2>2, <2>3, <2>4 DEF IInv
<1>2. CASE Next
  <2>1. TypeInv
    BY DEF IInv, TypeInv, KeysInv, Sound
  <2> QED
    BY <1>2, <2>1, TablesStep, KeysStep, SeenStep DEF IInv
<1> QED
  BY <1>1, <1>2

\* A set of a node that the cache has up to date writes what it was asked to.
LEMMA SetWrites ==
  ASSUME RollsBack, IInv, NEW i \in Ids, NEW node \in Node, SetOk(i, node), seen[i] = {sql[i]}
  PROVE  sql'[i] = node
<1>1. sql[i] # NoNode /\ ~failed /\ sql[i] \in Node /\ sql \in [Ids -> Node \cup {NoNode}]
  BY DEF SetOk, CanEdit, CanOperate, IInv, TableTypes
<1>2. GetNode(i) \in Node /\ Readable(i, GetNode(i))
  BY <1>1, GetNodeReads
<1>3. GetNode(i) = sql[i]
  <2>1. CASE cache[i] = NoNode
    BY <2>1 DEF GetNode
  <2>2. CASE cache[i] # NoNode
    <3>1. Readable(i, cache[i])
      BY <1>1, <2>2 DEF IInv, SeenInv
    <3>2. cache[i].v = sql[i].v /\ cache[i].ml \in {sql[i].ml, Unfetched}
      BY <3>1 DEF Readable
    <3>3. GetNode(i).v = sql[i].v /\ GetNode(i).ml = sql[i].ml
      BY <1>1, <2>2, <3>2 DEF GetNode, WithMultilink
    <3> QED
      BY <1>1, <1>2, <3>3 DEF Node
  <2> QED
    BY <2>1, <2>2
<1>4. CASE sql[i] # node
  <2>1. sql' = [sql EXCEPT ![i] = Written(i, sql[i], node)]
    BY <1>3, <1>4 DEF SetOk, Writes
  <2>2. PICK v \in Values, links \in SUBSET Links : sql[i] = [v |-> v, ml |-> links]
    BY <1>1 DEF Node
  <2>3. PICK w \in Values, wanted \in SUBSET Links : node = [v |-> w, ml |-> wanted]
    BY DEF Node
  <2>4. Written(i, sql[i], node)
          = [v |-> IF w # v THEN w ELSE v, ml |-> (links \ (links \ wanted)) \cup (wanted \ links)]
    BY <2>2, <2>3 DEF Written
  <2>5. (links \ (links \ wanted)) \cup (wanted \ links) = wanted /\ (IF w # v THEN w ELSE v) = w
    OBVIOUS
  <2>6. Written(i, sql[i], node) = node
    BY <2>3, <2>4, <2>5
  <2> QED
    BY <1>1, <2>1, <2>6
<1>5. CASE sql[i] = node
  BY <1>3, <1>5 DEF SetOk
<1> QED
  BY <1>4, <1>5

\* While nothing is edited between two steps of filter_iter, the tables, the cache's two
\* parts and what the transaction could have read go together, inductively.
THEOREM Invariance == ~EditsWhileIterating => (Spec => []IInv)
<1> SUFFICES ASSUME ~EditsWhileIterating
             PROVE  Spec => []IInv
  OBVIOUS
<1>1. Init => IInv
  BY InitIInv
<1>2. IInv /\ [Next]_vars => IInv'
  BY NextKeeps
<1> QED
  BY <1>1, <1>2, PTL DEF Spec

\* Whatever is edited meanwhile, the variables keep their types, a cached node its key in the
\* list, and cache_lru never passes RDBMS_CACHE_SIZE.
THEOREM TypeCorrect == Spec => []TypeOK
<1>1. Init => TypeInv
  BY InitIInv DEF IInv, TypeInv, KeysInv, Sound
<1>2. TypeInv /\ [Next]_vars => TypeInv'
  <2> SUFFICES ASSUME TypeInv, [Next]_vars
               PROVE  TypeInv'
    OBVIOUS
  <2>1. CASE Next
    BY <2>1, TablesStep, TypedStep DEF TypeInv
  <2>2. CASE UNCHANGED vars
    <3>1. /\ UNCHANGED <<base, sql, mine, seen, cachevars, destroyed>>
          /\ UNCHANGED <<rows, counter, failed, ops>>
      BY <2>2 DEF vars, cachevars
    <3> QED
      BY <3>1, SameTyped DEF TypeInv, TableTypes
  <2> QED
    BY <2>1, <2>2
<1>3. TypeInv => TypeOK
  <2>1. SUFFICES ASSUME TypeInv
                 PROVE  TypeOK
    OBVIOUS
  <2>2. TableTypes /\ Typed(Present)
    BY <2>1 DEF TypeInv
  <2>3. {mine, destroyed} \subseteq SUBSET Ids /\ lru \in Seq(Ids) /\ Len(lru) <= CacheSize
        /\ cache \in [Ids -> CachedNode \cup {NoNode}]
    BY <2>2, PresentTyped DEF TableTypes
  <2>4. {base, sql} \subseteq [Ids -> Node \cup {NoNode}]
    BY <2>2 DEF TableTypes
  <2> QED
    BY <2>2, <2>3, <2>4 DEF TypeOK, TableTypes
<1> QED
  BY <1>1, <1>2, <1>3, PTL DEF Spec

\* _cache_save may take the last key of cache_lru and delete its node: of the rows that
\* exist, list and dictionary name the same, each once.
THEOREM ListMatchesDictionary == ~EditsWhileIterating => (Spec => []LruMatchesCache)
<1> SUFFICES ASSUME ~EditsWhileIterating
             PROVE  Spec => []LruMatchesCache
  OBVIOUS
<1>1. IInv => LruMatchesCache
  BY PresentIs DEF IInv, KeysInv, LruMatchesCache
<1> QED
  BY <1>1, Invariance, PTL

\* Nothing cached is older than the transaction or than its own last edit of the node,
\* until an operation raises.
THEOREM CacheIsCurrent == ~EditsWhileIterating => (Spec => []CacheIsOfThisTransaction)
<1> SUFFICES ASSUME ~EditsWhileIterating
             PROVE  Spec => []CacheIsOfThisTransaction
  OBVIOUS
<1>1. IInv => CacheIsOfThisTransaction
  BY DEF IInv, SeenInv, Readable, CacheIsOfThisTransaction
<1> QED
  BY <1>1, Invariance, PTL

\* A set writes only the difference from the cached node, and yet leaves the row as it was
\* asked to, if no other session edited it meanwhile and callers roll back what failed.
THEOREM SetsTakeEffect == ~EditsWhileIterating /\ RollsBack => (Spec => SetTakesEffect)
<1> SUFFICES ASSUME ~EditsWhileIterating, RollsBack
             PROVE  Spec => SetTakesEffect
  OBVIOUS
<1>1. IInv => (\A i \in Ids, node \in Node :
                 SetOk(i, node) /\ seen[i] = {sql[i]} => sql'[i] = node)
  BY SetWrites
<1> QED
  BY <1>1, Invariance, PTL DEF SetTakesEffect

\* getnode and filter_iter raise only when a key of the list has lost its node, which
\* takes a destroyed one.
LEMMA ReadFails ==
  ASSUME ~EditsWhileIterating, IInv, failed', ~failed,
         \/ \E i \in Ids, fetch \in BOOLEAN : Get(i, fetch)
         \/ \E row \in rows : FilterYield(row)
  PROVE  destroyed # {}
<1>1. ASSUME NEW i \in Ids, NEW c, Follows(Present, c, i), c.raises
      PROVE  destroyed # {}
  <2>1. Present.raises = FALSE /\ Present.keys = lru /\ Present.nodes = cache
    BY DEF Present, With
  <2>2. PICK j \in ToSet(lru) : cache[j] = NoNode
    BY <1>1, <2>1 DEF Follows
  <2> QED
    BY <2>2 DEF IInv, KeysInv
<1>2. ASSUME NEW i \in Ids, NEW fetch \in BOOLEAN, Get(i, fetch)
      PROVE  destroyed # {}
  <2>1. Exists(i) /\ AfterGetNode(i, fetch).raises
    BY <1>2 DEF Get, FailsIf
  <2> QED
    BY <2>1, <1>1, GetFollows
<1>3. ASSUME NEW row \in rows, FilterYield(row)
      PROVE  destroyed # {}
  <2>1. PICK i \in Ids, v \in Values : i = row[1] /\ v = row[2] /\ sql[i] # NoNode
    BY DEF TableTypes, IInv, SeenInv
  <2>2. PICK node \in CachedNode : node = [v |-> v, ml |-> Unfetched]
    BY DEF CachedNode
  <2>3. (IF cache[i] # NoNode THEN CacheRefresh(Present, i) ELSE CacheSave(Present, i, node)).raises
    BY <1>3, <2>1, <2>2 DEF FilterYield, AfterYield, FailsIf
  <2>4. Sound(Present) /\ Present.keys = lru /\ Present.raises = FALSE
    BY DEF IInv, KeysInv, Present, With
  <2>5. cache[i] = NoNode
    BY <2>3, <2>4 DEF CacheRefresh
  <2>6. i \notin ToSet(lru)
    BY <2>1, <2>5 DEF IInv, KeysInv
  <2>7. Follows(Present, CacheSave(Present, i, node), i)
    BY <2>4, <2>6, SaveFollows
  <2> QED
    BY <2>3, <2>5, <2>7, <1>1
<1> QED
  BY <1>2, <1>3

\* A read raises in no session that has not destroyed a node since its cache was last
\* cleared, whatever else it did and whatever the size of the cache.
THEOREM ReadsFailForDestroyedOnly ==
  ~EditsWhileIterating => (Spec => ReadsFailOnlyAfterDestroy)
<1> SUFFICES ASSUME ~EditsWhileIterating
             PROVE  Spec => ReadsFailOnlyAfterDestroy
  OBVIOUS
<1>1. IInv => ((\/ \E i \in Ids, fetch \in BOOLEAN : Get(i, fetch)
                \/ \E row \in rows : FilterYield(row))
                 => (failed' => failed \/ destroyed # {}))
  BY ReadFails, Zenon
<1> QED
  BY <1>1, Invariance, PTL DEF ReadsFailOnlyAfterDestroy

=============================================================================
