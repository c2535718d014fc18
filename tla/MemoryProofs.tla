---------------------------- MODULE MemoryProofs ----------------------------
(***************************************************************************)
(* Lemmas about the pools in memory: what storing, removing and overwriting *)
(* an entry leaves of a pool in order.                                      *)
(***************************************************************************)
EXTENDS Mote, FiniteSetTheorems, Induction

(* The consistent pools with room for size entries, each in X.              *)
Pool(size, X) ==
    {p \in [memory : [0..size-1 -> X \cup {NULL}],
            array  : [0..size-1 -> (0..size-1) \cup {NULL}],
            count  : 0..size] : Memory!Consistent(p)}

USE DEF Memory!Used, Memory!At

LEMMA LeastPlace ==
    ASSUME NEW S \in SUBSET Nat, S # {}
    PROVE  Memory!Min(S) \in S /\ \A k \in S : Memory!Min(S) <= k
<1>1. PICK x \in S : \A y \in S : x <= y
  BY Least
<1>2. Memory!Min(S) = CHOOSE m \in S : \A y \in S : m <= y
  BY DEF Memory!Min
<1>3. QED  BY <1>1, <1>2

LEMMA SameCardinality ==
    ASSUME NEW S PROVE Memory!Cardinality(S) = Cardinality(S)
BY DEF Memory!Cardinality, Cardinality, Memory!IsFiniteSet, IsFiniteSet

LEMMA Interval ==
    ASSUME NEW n \in Nat
    PROVE  IsFiniteSet(0..n-1) /\ Cardinality(0..n-1) = n
<1>1. 0 \in Int /\ n-1 \in Int
  OBVIOUS
<1>2. /\ IsFiniteSet(0..n-1)
      /\ Cardinality(0..n-1) = IF 0 > n-1 THEN 0 ELSE n-1-0+1
  BY ONLY <1>1, FS_Interval
<1>3. QED  BY <1>2

(* What being a pool means, one fact at a time.                             *)
LEMMA PoolFacts ==
    ASSUME NEW size \in Nat, NEW X, NEW p \in Pool(size, X)
    PROVE  /\ p = [memory |-> p.memory, array |-> p.array, count |-> p.count]
           /\ p.memory \in [0..size-1 -> X \cup {NULL}]
           /\ p.array \in [0..size-1 -> (0..size-1) \cup {NULL}]
           /\ p.count \in 0..size /\ Memory!Size(p) = size
           /\ \A k \in 0..size-1 :
                 IF k < p.count THEN p.array[k] \in 0..size-1 ELSE p.array[k] = NULL
           /\ \A k, l \in 0..p.count-1 : p.array[k] = p.array[l] => k = l
           /\ \A b \in 0..size-1 :
                 p.memory[b] # NULL <=> \E k \in 0..p.count-1 : p.array[k] = b
<1>1. p \in [memory : [0..size-1 -> X \cup {NULL}],
            array  : [0..size-1 -> (0..size-1) \cup {NULL}],
            count  : 0..size] /\ Memory!Consistent(p)
  BY DEF Pool
<1>2. DOMAIN p.memory = 0..size-1 /\ DOMAIN p.array = 0..size-1
  BY <1>1
<1>3. Memory!Size(p) = size
  BY <1>2, Interval, SameCardinality DEF Memory!Size
<1>4. \A b \in 0..size-1 :
         p.memory[b] # NULL <=> \E k \in 0..p.count-1 : p.array[k] = b
  <2>1. {b \in DOMAIN p.memory : p.memory[b] # NULL} = {p.array[k] : k \in 0..p.count-1}
    BY <1>1 DEF Memory!Consistent
  <2>2. QED  BY <1>2, <2>1
<1>5. QED  BY <1>1, <1>2, <1>3, <1>4 DEF Memory!Consistent

(* The same facts, put together again.                                      *)
LEMMA PoolFrom ==
    ASSUME NEW size \in Nat, NEW X,
           NEW memo \in [0..size-1 -> X \cup {NULL}],
           NEW arr \in [0..size-1 -> (0..size-1) \cup {NULL}],
           NEW n \in 0..size,
           \A k \in 0..size-1 : IF k < n THEN arr[k] \in 0..size-1 ELSE arr[k] = NULL,
           \A k, l \in 0..n-1 : arr[k] = arr[l] => k = l,
           \A b \in 0..size-1 : memo[b] # NULL <=> \E k \in 0..n-1 : arr[k] = b
    PROVE  [memory |-> memo, array |-> arr, count |-> n] \in Pool(size, X)
<1> DEFINE p == [memory |-> memo, array |-> arr, count |-> n]
<1>1. Memory!Size(p) = size
  <2>1. DOMAIN p.array = 0..size-1
    OBVIOUS
  <2>2. QED  BY <2>1, Interval, SameCardinality DEF Memory!Size
<1>2. {b \in DOMAIN p.memory : p.memory[b] # NULL} = {p.array[k] : k \in 0..p.count-1}
  <2>1. \A k \in 0..n-1 : arr[k] \in 0..size-1
    OBVIOUS
  <2>2. QED  BY <2>1
<1>3. Memory!Consistent(p)
  BY <1>1, <1>2 DEF Memory!Consistent
<1>4. QED  BY <1>3 DEF Pool

(* A pool that has been started is empty.                                   *)
LEMMA InitPool ==
    ASSUME NEW size \in Nat, NEW X
    PROVE  /\ Memory!init_graph(size) \in Pool(size, X)
           /\ Memory!init_graph(size).count = 0
<1> DEFINE null == [b \in 0..size-1 |-> NULL]
<1>1. /\ null \in [0..size-1 -> X \cup {NULL}]
      /\ null \in [0..size-1 -> (0..size-1) \cup {NULL}]
      /\ \A b \in 0..size-1 : null[b] = NULL
      /\ 0 \in 0..size
  OBVIOUS
<1> HIDE DEF null
<1>2. [memory |-> null, array |-> null, count |-> 0] \in Pool(size, X)
  <2>1. /\ \A k \in 0..size-1 : IF k < 0 THEN null[k] \in 0..size-1 ELSE null[k] = NULL
        /\ 0..0-1 = {}
    BY <1>1
  <2>2. QED  BY <1>1, <2>1, PoolFrom
<1>3. QED  BY <1>2 DEF Memory!init_graph, null

(* While the counter is below the capacity memb_alloc() finds a free block, *)
(* and the first place that is NULL is the one behind the last entry.       *)
LEMMA FreeBlock ==
    ASSUME NEW size \in Nat, NEW X, NEW p \in Pool(size, X), p.count < size
    PROVE  \E b \in 0..size-1 : p.memory[b] = NULL
<1>1. SUFFICES ASSUME \A b \in 0..size-1 : p.memory[b] # NULL PROVE FALSE
  OBVIOUS
<1>2. \A b \in 0..size-1 : \E k \in 0..p.count-1 : p.array[k] = b
  BY <1>1, PoolFacts
<1> DEFINE f == [b \in 0..size-1 |-> CHOOSE k \in 0..p.count-1 : p.array[k] = b]
<1>3. f \in [0..size-1 -> 0..p.count-1] /\ \A b \in 0..size-1 : p.array[f[b]] = b
  BY <1>2
<1> HIDE DEF f
<1>4. p.count \in Nat
  BY PoolFacts
<1>5. /\ IsFiniteSet(0..size-1) /\ IsFiniteSet(0..p.count-1)
      /\ Cardinality(0..p.count-1) < Cardinality(0..size-1)
  BY <1>4, Interval
<1>6. \E b, c \in 0..size-1 : b # c /\ f[b] = f[c]
  <2> DEFINE S == 0..size-1
             T == 0..p.count-1
  <2>1. IsFiniteSet(S) /\ IsFiniteSet(T) /\ Cardinality(T) < Cardinality(S) /\ f \in [S -> T]
    BY <1>3, <1>5
  <2> HIDE DEF S, T
  <2>2. \E b, c \in S : b # c /\ f[b] = f[c]
    BY <2>1, FS_PigeonHole
  <2>3. QED  BY <2>2 DEF S
<1>7. QED  BY <1>3, <1>6

(* An entry is stored in a free block, behind those there are.              *)
LEMMA InsertPool ==
    ASSUME NEW size \in Nat, NEW X, NULL \notin X, NEW p \in Pool(size, X),
           NEW x \in X, p.count < size
    PROVE  LET q == Memory!Insert(p, x)
           IN  /\ q \in Pool(size, X)
               /\ q.count = p.count + 1
               /\ Memory!At(q, p.count) = x
               /\ \A k \in Memory!Used(p) : Memory!At(q, k) = Memory!At(p, k)
<1> DEFINE free == {b \in DOMAIN p.memory : p.memory[b] = NULL}
           empty == {k \in DOMAIN p.array : p.array[k] = NULL}
           block == Memory!Min(free)
           n == p.count
           memo == [p.memory EXCEPT ![block] = x]
           arr == [p.array EXCEPT ![n] = block]
<1>1. /\ p.memory \in [0..size-1 -> X \cup {NULL}]
      /\ p.array \in [0..size-1 -> (0..size-1) \cup {NULL}]
      /\ n \in 0..size-1 /\ n + 1 \in 0..size
      /\ \A k \in 0..size-1 : IF k < n THEN p.array[k] \in 0..size-1 ELSE p.array[k] = NULL
      /\ \A k, l \in 0..n-1 : p.array[k] = p.array[l] => k = l
      /\ \A b \in 0..size-1 : p.memory[b] # NULL <=> \E k \in 0..n-1 : p.array[k] = b
  BY PoolFacts
<1>2. block \in 0..size-1 /\ p.memory[block] = NULL
  <2>1. free \in SUBSET Nat /\ free # {}
    BY <1>1, FreeBlock
  <2>2. block \in free
    BY <2>1, LeastPlace
  <2>3. QED  BY <1>1, <2>2
<1>3. Memory!Min(empty) = n
  <2>1. empty \in SUBSET Nat /\ n \in empty
    BY <1>1
  <2>2. Memory!Min(empty) \in empty /\ Memory!Min(empty) <= n
    BY <2>1, LeastPlace
  <2>3. \A k \in empty : ~(k < n)
    BY <1>1, NullAssumption
  <2>4. Memory!Min(empty) \in Nat /\ n \in Nat /\ ~(Memory!Min(empty) < n)
    BY <2>1, <2>2, <2>3
  <2>5. QED  BY <2>2, <2>4
<1>4. Memory!Insert(p, x) = [memory |-> memo, array |-> arr, count |-> n + 1]
  BY <1>3 DEF Memory!Insert
<1> HIDE DEF block, free, empty, n
<1>5. /\ memo \in [0..size-1 -> X \cup {NULL}]
      /\ arr \in [0..size-1 -> (0..size-1) \cup {NULL}]
      /\ memo[block] = x /\ \A b \in 0..size-1 : b # block => memo[b] = p.memory[b]
      /\ arr[n] = block /\ \A k \in 0..size-1 : k # n => arr[k] = p.array[k]
  BY <1>1, <1>2
<1> HIDE DEF memo, arr
<1>6. \A k \in 0..n-1 : k \in 0..size-1 /\ k # n /\ p.array[k] # block /\ p.array[k] \in 0..size-1
  BY <1>1, <1>2
<1>7. [memory |-> memo, array |-> arr, count |-> n + 1] \in Pool(size, X)
  <2> DEFINE c == n + 1
  <2>1. c = n + 1 /\ c \in 0..size
    BY <1>1
  <2> HIDE DEF c
  <2>2. ASSUME NEW k \in 0..size-1
        PROVE  IF k < c THEN arr[k] \in 0..size-1 ELSE arr[k] = NULL
    <3>1. CASE k = n
      BY <1>1, <2>1, <1>2, <1>5, <3>1
    <3>2. CASE k # n
      <4>1. (k < c <=> k < n) /\ arr[k] = p.array[k]
        BY <1>1, <2>1, <1>5, <3>2
      <4>2. QED  BY <1>1, <2>1, <4>1
    <3>3. QED  BY <3>1, <3>2
  <2>3. ASSUME NEW k \in 0..c-1, NEW l \in 0..c-1, arr[k] = arr[l] PROVE k = l
    <3>1. /\ k \in 0..n-1 \/ k = n
          /\ l \in 0..n-1 \/ l = n
      BY <1>1, <2>1
    <3>2. QED  BY <1>1, <2>1, <1>5, <1>6, <2>3, <3>1
  <2>4. ASSUME NEW b \in 0..size-1
        PROVE  memo[b] # NULL <=> \E k \in 0..c-1 : arr[k] = b
    <3>1. CASE b = block
      <4>1. n \in 0..c-1 /\ arr[n] = block /\ memo[block] = x /\ x # NULL
        BY <1>1, <2>1, <1>5
      <4>2. QED  BY <3>1, <4>1
    <3>2. CASE b # block
      <4>1. memo[b] = p.memory[b]
        BY <1>5, <3>2
      <4>2. (\E k \in 0..c-1 : arr[k] = b) <=> \E k \in 0..n-1 : p.array[k] = b
        <5>1. \A k \in 0..n-1 : k \in 0..c-1 /\ arr[k] = p.array[k]
          BY <1>1, <2>1, <1>5, <1>6
        <5>2. \A k \in 0..c-1 : k \in 0..n-1 \/ k = n
          BY <1>1, <2>1
        <5>3. QED  BY <1>5, <3>2, <5>1, <5>2
      <4>3. p.memory[b] # NULL <=> \E k \in 0..n-1 : p.array[k] = b
        BY <1>1
      <4>4. QED  BY <4>1, <4>2, <4>3
    <3>3. QED  BY <3>1, <3>2
  <2>5. [memory |-> memo, array |-> arr, count |-> c] \in Pool(size, X)
    <3>1. /\ memo \in [0..size-1 -> X \cup {NULL}]
          /\ arr \in [0..size-1 -> (0..size-1) \cup {NULL}]
      BY <1>5
    <3>2. c \in 0..size
      BY <2>1
    <3> HIDE DEF c
    <3>3. QED  BY <2>2, <2>3, <2>4, <3>1, <3>2, PoolFrom
  <2>6. QED  BY <2>1, <2>5
<1>8. memo[arr[n]] = x /\ \A k \in 0..n-1 : memo[arr[k]] = p.memory[p.array[k]]
  BY <1>5, <1>6
<1>9. QED  BY <1>4, <1>7, <1>8 DEF n

(* Removing an entry frees its block and moves up those behind it.          *)
LEMMA RemoveAtPool ==
    ASSUME NEW size \in Nat, NEW X, NULL \notin X, NEW p \in Pool(size, X),
           NEW k \in Memory!Used(p)
    PROVE  LET q == Memory!RemoveAt(p, k)
           IN  /\ q \in Pool(size, X)
               /\ q.count = p.count - 1
               /\ \A l \in 0..p.count-2 :
                     Memory!At(q, l) = IF l < k THEN Memory!At(p, l) ELSE Memory!At(p, l+1)
<1> DEFINE n == p.count
           memo == [p.memory EXCEPT ![p.array[k]] = NULL]
           arr == [l \in DOMAIN p.array |->
                     IF l = n - 1 THEN NULL
                     ELSE IF k <= l /\ l < n - 1 THEN p.array[l+1] ELSE p.array[l]]
<1>1. /\ p.memory \in [0..size-1 -> X \cup {NULL}]
      /\ p.array \in [0..size-1 -> (0..size-1) \cup {NULL}]
      /\ n \in 0..size /\ n - 1 \in 0..size-1 /\ n - 1 \in 0..size /\ k \in 0..n-1
      /\ \A l \in 0..size-1 : IF l < n THEN p.array[l] \in 0..size-1 ELSE p.array[l] = NULL
      /\ \A j, l \in 0..n-1 : p.array[j] = p.array[l] => j = l
      /\ \A b \in 0..size-1 : p.memory[b] # NULL <=> \E l \in 0..n-1 : p.array[l] = b
  BY PoolFacts
<1>2. Memory!RemoveAt(p, k) = [memory |-> memo, array |-> arr, count |-> n - 1]
  BY DEF Memory!RemoveAt
<1> HIDE DEF n
<1>3. \A l \in 0..n-1 : p.array[l] \in 0..size-1 /\ (l # k => p.array[l] # p.array[k])
  BY <1>1
<1>4. /\ memo \in [0..size-1 -> X \cup {NULL}]
      /\ memo[p.array[k]] = NULL
      /\ \A b \in 0..size-1 : b # p.array[k] => memo[b] = p.memory[b]
  BY <1>1, <1>3
<1>5. ASSUME NEW l \in 0..size-1
      PROVE  /\ l >= n - 1 => arr[l] = NULL
             /\ l < n - 1 /\ l < k => arr[l] = p.array[l]
             /\ l < n - 1 /\ k <= l => arr[l] = p.array[l+1] /\ l + 1 \in 0..n-1
  <2>1. l > n - 1 => p.array[l] = NULL
    BY <1>1
  <2>2. QED  BY <1>1, <2>1
<1>6. arr \in [0..size-1 -> (0..size-1) \cup {NULL}]
  <2>1. DOMAIN arr = 0..size-1
    BY <1>1
  <2>2. \A l \in 0..size-1 : l < n - 1 => l \in 0..n-1
    BY <1>1
  <2>3. \A l \in 0..size-1 : arr[l] \in (0..size-1) \cup {NULL}
    BY <1>1, <1>3, <1>5, <2>2
  <2>4. arr = [l \in 0..size-1 |-> arr[l]]
    BY <2>1
  <2>5. QED  BY <2>3, <2>4
<1> DEFINE up(l) == IF l < k THEN l ELSE l + 1
<1>7. ASSUME NEW l \in 0..n-2
      PROVE  l \in 0..size-1 /\ up(l) \in 0..n-1 /\ up(l) # k /\ arr[l] = p.array[up(l)]
  BY <1>1, <1>5
<1> HIDE DEF memo, arr
<1>8. [memory |-> memo, array |-> arr, count |-> n - 1] \in Pool(size, X)
  <2>1. ASSUME NEW l \in 0..size-1
        PROVE  IF l < n - 1 THEN arr[l] \in 0..size-1 ELSE arr[l] = NULL
    <3>1. CASE l < n - 1
      <4>1. l \in 0..n-2
        BY <1>1, <3>1
      <4>2. QED  BY <1>3, <1>7, <3>1, <4>1
    <3>2. CASE ~(l < n - 1)
      BY <1>1, <1>5, <3>2
    <3>3. QED  BY <3>1, <3>2
  <2>2. ASSUME NEW j \in 0..n-1-1, NEW l \in 0..n-1-1, arr[j] = arr[l] PROVE j = l
    <3>1. j \in 0..n-2 /\ l \in 0..n-2
      BY <1>1
    <3>2. up(j) = up(l)
      <4>1. \A b, c \in 0..n-1 : p.array[b] = p.array[c] => b = c
        BY <1>1
      <4>2. up(j) \in 0..n-1 /\ up(l) \in 0..n-1 /\ p.array[up(j)] = p.array[up(l)]
        BY <1>7, <2>2, <3>1
      <4> HIDE DEF up
      <4>3. QED  BY <4>1, <4>2
    <3>3. QED  BY <1>1, <3>2
  <2>3. ASSUME NEW b \in 0..size-1
        PROVE  memo[b] # NULL <=> \E l \in 0..n-1-1 : arr[l] = b
    <3>1. ASSUME NEW l \in 0..n-1-1, arr[l] = b PROVE memo[b] # NULL
      <4>1. l \in 0..n-2
        BY <1>1
      <4>2. up(l) \in 0..n-1 /\ p.array[up(l)] = b /\ b # p.array[k]
        BY <1>3, <1>7, <3>1, <4>1
      <4>3. QED  BY <1>1, <1>4, <4>2
    <3>2. ASSUME memo[b] # NULL PROVE \E l \in 0..n-1-1 : arr[l] = b
      <4>1. b # p.array[k] /\ p.memory[b] # NULL
        BY <1>4, <3>2
      <4>2. PICK j \in 0..n-1 : p.array[j] = b
        BY <1>1, <4>1
      <4>3. j # k
        BY <4>1, <4>2
      <4>4. CASE j < k
        <5>1. j \in 0..n-2 /\ j \in 0..n-1-1 /\ up(j) = j
          BY <1>1, <4>4
        <5>2. QED  BY <1>7, <4>2, <5>1
      <4>5. CASE j > k
        <5>1. j-1 \in 0..n-2 /\ j-1 \in 0..n-1-1 /\ up(j-1) = j
          BY <1>1, <4>5
        <5>2. QED  BY <1>7, <4>2, <5>1
      <4>6. QED  BY <1>1, <4>3, <4>4, <4>5
    <3>3. QED  BY <3>1, <3>2
  <2>4. QED  BY <1>1, <1>4, <1>6, <2>1, <2>2, <2>3, PoolFrom
<1>9. \A l \in 0..n-2 : memo[arr[l]] = p.memory[p.array[up(l)]]
  BY <1>3, <1>4, <1>7
<1>10. QED  BY <1>2, <1>8, <1>9 DEF n

(* Overwriting an entry leaves the pointers alone.                          *)
LEMMA OverwritePool ==
    ASSUME NEW size \in Nat, NEW X, NULL \notin X, NEW p \in Pool(size, X),
           NEW k \in Memory!Used(p), NEW x \in X
    PROVE  LET q == Memory!Overwrite(p, k, x)
           IN  /\ q \in Pool(size, X)
               /\ q.count = p.count
               /\ \A l \in Memory!Used(p) :
                     Memory!At(q, l) = IF l = k THEN x ELSE Memory!At(p, l)
<1> DEFINE memo == [p.memory EXCEPT ![p.array[k]] = x]
           n == p.count
<1>1. /\ p.memory \in [0..size-1 -> X \cup {NULL}]
      /\ p.array \in [0..size-1 -> (0..size-1) \cup {NULL}]
      /\ n \in 0..size /\ k \in 0..n-1 /\ \A l \in 0..n-1 : l \in 0..size-1
      /\ \A l \in 0..size-1 : IF l < n THEN p.array[l] \in 0..size-1 ELSE p.array[l] = NULL
      /\ \A j, l \in 0..n-1 : p.array[j] = p.array[l] => j = l
      /\ \A b \in 0..size-1 : p.memory[b] # NULL <=> \E l \in 0..n-1 : p.array[l] = b
  BY PoolFacts
<1>2. Memory!Overwrite(p, k, x) = [memory |-> memo, array |-> p.array, count |-> n]
  BY DEF Memory!Overwrite
<1> HIDE DEF n
<1>3. \A l \in 0..n-1 : p.array[l] \in 0..size-1 /\ (l # k => p.array[l] # p.array[k])
  BY <1>1
<1>4. /\ memo \in [0..size-1 -> X \cup {NULL}]
      /\ memo[p.array[k]] = x
      /\ \A b \in 0..size-1 : b # p.array[k] => memo[b] = p.memory[b]
  BY <1>1, <1>3
<1> HIDE DEF memo
<1>5. \A b \in 0..size-1 : memo[b] # NULL <=> \E l \in 0..n-1 : p.array[l] = b
  <2>1. k \in 0..n-1 /\ x # NULL
    BY <1>1
  <2>2. \A b \in 0..size-1 : p.memory[b] # NULL <=> \E l \in 0..n-1 : p.array[l] = b
    BY <1>1
  <2>3. QED  BY <1>4, <2>1, <2>2
<1>6. [memory |-> memo, array |-> p.array, count |-> n] \in Pool(size, X)
  <2>1. /\ p.array \in [0..size-1 -> (0..size-1) \cup {NULL}]
        /\ n \in 0..size
        /\ \A l \in 0..size-1 : IF l < n THEN p.array[l] \in 0..size-1 ELSE p.array[l] = NULL
        /\ \A j, l \in 0..n-1 : p.array[j] = p.array[l] => j = l
    BY <1>1
  <2>2. memo \in [0..size-1 -> X \cup {NULL}]
    BY <1>4
  <2>3. QED  BY <1>5, <2>1, <2>2, PoolFrom
<1>7. QED  BY <1>2, <1>3, <1>4, <1>6 DEF n

-----------------------------------------------------------------------------
(* What the functions of graph.c make of the entries of a pool, seen as a   *)
(* set: the pools of the nodes and the edges hold nothing twice.            *)
NodePool ==
    {p \in Pool(MAX_NODES, Address) :
        \A k, l \in Memory!Used(p) : Memory!At(p, k) = Memory!At(p, l) => k = l}

EdgePool ==
    {p \in Pool(MAX_EDGES, Link) :
        \A k, l \in Memory!Used(p) :
            SameEdge(Memory!At(p, k), Memory!At(p, l)) => k = l}

LEMMA EntryTypes ==
    ASSUME NEW size \in Nat, NEW X, NULL \notin X, NEW p \in Pool(size, X)
    PROVE  /\ \A k \in Memory!Used(p) : Memory!At(p, k) \in X
           /\ Memory!Entries(p) \subseteq X
           /\ p.count \in Nat /\ Memory!Used(p) \subseteq Nat
<1>1. ASSUME NEW k \in 0..p.count-1 PROVE p.memory[p.array[k]] \in X
  <2>1. k \in 0..size-1 /\ p.array[k] \in 0..size-1
    BY PoolFacts
  <2>2. p.memory[p.array[k]] # NULL /\ p.memory[p.array[k]] \in X \cup {NULL}
    BY <2>1, PoolFacts
  <2>3. QED  BY <2>2
<1>2. p.count \in Nat
  BY PoolFacts
<1>3. QED  BY <1>1, <1>2 DEF Memory!Entries

(* The entries after a store, a removal and an overwriting.                 *)
LEMMA InsertEntries ==
    ASSUME NEW size \in Nat, NEW X, NULL \notin X, NEW p \in Pool(size, X),
           NEW x \in X, p.count < size
    PROVE  /\ Memory!Entries(Memory!Insert(p, x)) = Memory!Entries(p) \cup {x}
           /\ \A k \in Memory!Used(Memory!Insert(p, x)) :
                 k \in Memory!Used(p) \/ k = p.count
<1> DEFINE q == Memory!Insert(p, x)
<1>1. /\ q.count = p.count + 1 /\ Memory!At(q, p.count) = x
      /\ \A k \in Memory!Used(p) : Memory!At(q, k) = Memory!At(p, k)
  BY InsertPool
<1>2. p.count \in Nat
  BY EntryTypes
<1> HIDE DEF q
<1>3. Memory!Used(q) = Memory!Used(p) \cup {p.count}
  BY <1>1, <1>2
<1> USE DEF Memory!Entries
<1> HIDE DEF Memory!At, Memory!Used
<1>4. QED  BY <1>1, <1>3 DEF q

LEMMA RemoveEntries ==
    ASSUME NEW size \in Nat, NEW X, NULL \notin X, NEW p \in Pool(size, X),
           NEW k \in Memory!Used(p)
    PROVE  Memory!Entries(Memory!RemoveAt(p, k)) =
              {Memory!At(p, l) : l \in Memory!Used(p) \ {k}}
<1> DEFINE q == Memory!RemoveAt(p, k)
           up(l) == IF l < k THEN l ELSE l + 1
<1>1. /\ q.count = p.count - 1
      /\ \A l \in 0..p.count-2 :
            Memory!At(q, l) = IF l < k THEN Memory!At(p, l) ELSE Memory!At(p, l+1)
  BY RemoveAtPool
<1>2. p.count \in Nat /\ k \in 0..p.count-1
  BY EntryTypes
<1> HIDE DEF q
<1>3. Memory!Used(q) = 0..p.count-2
  BY <1>1, <1>2
<1>4. \A l \in 0..p.count-2 : up(l) \in Memory!Used(p) \ {k}
  BY <1>2
<1>5. \A l \in Memory!Used(p) \ {k} : \E j \in 0..p.count-2 : up(j) = l
  <2> SUFFICES ASSUME NEW l \in Memory!Used(p) \ {k}
               PROVE  \E j \in 0..p.count-2 : up(j) = l
    OBVIOUS
  <2>1. CASE l < k
    <3>1. l \in 0..p.count-2 /\ up(l) = l
      BY <1>2, <2>1
    <3>2. QED  BY <3>1
  <2>2. CASE l > k
    <3>1. l-1 \in 0..p.count-2 /\ up(l-1) = l
      BY <1>2, <2>2
    <3>2. QED  BY <3>1
  <2>3. QED  BY <1>2, <2>1, <2>2
<1>6. \A l \in 0..p.count-2 : Memory!At(q, l) = Memory!At(p, up(l))
  BY <1>1
<1> USE DEF Memory!Entries
<1> HIDE DEF Memory!At, Memory!Used, up
<1>7. QED  BY <1>3, <1>4, <1>5, <1>6 DEF q

LEMMA OverwriteEntries ==
    ASSUME NEW size \in Nat, NEW X, NULL \notin X, NEW p \in Pool(size, X),
           NEW k \in Memory!Used(p), NEW x \in X
    PROVE  Memory!Entries(Memory!Overwrite(p, k, x)) =
              {Memory!At(p, l) : l \in Memory!Used(p) \ {k}} \cup {x}
<1> DEFINE q == Memory!Overwrite(p, k, x)
<1>1. /\ q.count = p.count
      /\ \A l \in Memory!Used(p) : Memory!At(q, l) = IF l = k THEN x ELSE Memory!At(p, l)
  BY OverwritePool
<1> HIDE DEF q
<1>2. Memory!Used(q) = Memory!Used(p)
  BY <1>1
<1> USE DEF Memory!Entries
<1> HIDE DEF Memory!At, Memory!Used
<1>3. QED  BY <1>1, <1>2 DEF q

(* The counter of a pool without duplicates counts its entries.             *)
LEMMA CountEntries ==
    ASSUME NEW size \in Nat, NEW X, NULL \notin X, NEW p \in Pool(size, X),
           \A k, l \in Memory!Used(p) : Memory!At(p, k) = Memory!At(p, l) => k = l
    PROVE  /\ IsFiniteSet(Memory!Entries(p))
           /\ Cardinality(Memory!Entries(p)) = p.count
<1> DEFINE f == [k \in Memory!Used(p) |-> Memory!At(p, k)]
<1>1. f \in Bijection(Memory!Used(p), Memory!Entries(p))
  <2> HIDE DEF Memory!At, Memory!Used
  <2>1. f \in Surjection(Memory!Used(p), Memory!Entries(p))
    BY DEF Memory!Entries, Surjection
  <2>2. \A k, l \in Memory!Used(p) : f[k] = f[l] => k = l
    OBVIOUS
  <2>3. QED  BY <2>1, <2>2 DEF Bijection, Injection, Surjection, IsInjective
<1>2. IsFiniteSet(Memory!Used(p)) /\ Cardinality(Memory!Used(p)) = p.count
  BY EntryTypes, Interval
<1> HIDE DEF f, Memory!Used
<1>3. ExistsBijection(Memory!Used(p), Memory!Entries(p))
  BY <1>1 DEF ExistsBijection
<1>4. QED  BY <1>2, <1>3, FS_Bijection

LEMMA NodePoolFacts ==
    ASSUME NEW p \in NodePool
    PROVE  /\ p \in Pool(MAX_NODES, Address) /\ MAX_NODES \in Nat
           /\ Memory!Entries(p) \subseteq Address
           /\ IsFiniteSet(Memory!Entries(p))
           /\ Cardinality(Memory!Entries(p)) = p.count /\ p.count \in 0..MAX_NODES
<1>1. MAX_NODES \in Nat /\ NULL \notin Address
  BY CapacityAssumption, NullAssumption
<1>2. p \in Pool(MAX_NODES, Address)
  BY DEF NodePool
<1>3. QED  BY <1>1, <1>2, EntryTypes, CountEntries, PoolFacts DEF NodePool

LEMMA EdgePoolFacts ==
    ASSUME NEW p \in EdgePool
    PROVE  /\ p \in Pool(MAX_EDGES, Link) /\ MAX_EDGES \in Nat
           /\ Memory!Entries(p) \subseteq Link
           /\ IsFiniteSet(Memory!Entries(p))
           /\ Cardinality(Memory!Entries(p)) = p.count /\ p.count \in 0..MAX_EDGES
<1>1. MAX_EDGES \in Nat /\ NULL \notin Link
  BY CapacityAssumption, NullAssumption
<1>2. p \in Pool(MAX_EDGES, Link)
  BY DEF EdgePool
<1>3. \A k, l \in Memory!Used(p) : Memory!At(p, k) = Memory!At(p, l) => k = l
  BY DEF EdgePool, SameEdge
<1>4. QED  BY <1>1, <1>2, <1>3, EntryTypes, CountEntries, PoolFacts

(* add_node() and remove_node().                                            *)
LEMMA StoreNode ==
    ASSUME NEW p \in NodePool, NEW x \in Address
    PROVE  /\ Memory!add_node(p, x) \in NodePool
           /\ Memory!Entries(Memory!add_node(p, x)) =
                 IF x \in Memory!Entries(p) \/ p.count < MAX_NODES
                 THEN Memory!Entries(p) \cup {x} ELSE Memory!Entries(p)
<1>1. /\ p \in Pool(MAX_NODES, Address) /\ MAX_NODES \in Nat /\ NULL \notin Address
      /\ Memory!Size(p) = MAX_NODES /\ p.count \in 0..MAX_NODES
      /\ Memory!Used(p) \subseteq Nat
  BY NodePoolFacts, PoolFacts, NullAssumption, EntryTypes
<1>2. x \in Memory!Entries(p) <=> Memory!NodeAt(p, x) # {}
  BY DEF Memory!Entries, Memory!NodeAt
<1>3. CASE Memory!NodeAt(p, x) # {}
  <2> DEFINE k == Memory!Min(Memory!NodeAt(p, x))
             q == Memory!Overwrite(p, k, x)
  <2>1. Memory!NodeAt(p, x) \in SUBSET Nat
    BY <1>1 DEF Memory!NodeAt
  <2>2. k \in Memory!NodeAt(p, x)
    BY <1>3, <2>1, LeastPlace
  <2>3. k \in Memory!Used(p) /\ Memory!At(p, k) = x
    BY <2>2 DEF Memory!NodeAt
  <2>4. Memory!add_node(p, x) = q
    BY <1>3 DEF Memory!add_node
  <2> HIDE DEF k, q
  <2>5. /\ q \in Pool(MAX_NODES, Address) /\ q.count = p.count
        /\ \A l \in Memory!Used(p) : Memory!At(q, l) = IF l = k THEN x ELSE Memory!At(p, l)
    BY <1>1, <2>3, OverwritePool DEF q
  <2>6. Memory!Entries(q) = {Memory!At(p, l) : l \in Memory!Used(p) \ {k}} \cup {x}
    BY <1>1, <2>3, OverwriteEntries DEF q
  <2>7. Memory!Entries(q) = Memory!Entries(p)
    BY <2>3, <2>6 DEF Memory!Entries
  <2>8. Memory!Used(q) = Memory!Used(p) /\ \A l \in Memory!Used(p) : Memory!At(q, l) = Memory!At(p, l)
    BY <2>3, <2>5
  <2>9. q \in NodePool
    <3> HIDE DEF Memory!Used, Memory!At
    <3>1. QED  BY <2>5, <2>8 DEF NodePool
  <2>10. QED  BY <1>2, <1>3, <2>4, <2>7, <2>9
<1>4. CASE Memory!NodeAt(p, x) = {} /\ p.count < MAX_NODES
  <2> DEFINE q == Memory!Insert(p, x)
  <2>1. Memory!add_node(p, x) = q
    BY <1>1, <1>4 DEF Memory!add_node
  <2> HIDE DEF q
  <2>2. /\ q \in Pool(MAX_NODES, Address)
        /\ Memory!At(q, p.count) = x
        /\ \A l \in Memory!Used(p) : Memory!At(q, l) = Memory!At(p, l)
    BY <1>1, <1>4, InsertPool DEF q
  <2>3. /\ Memory!Entries(q) = Memory!Entries(p) \cup {x}
        /\ \A l \in Memory!Used(q) : l \in Memory!Used(p) \/ l = p.count
    BY <1>1, <1>4, InsertEntries DEF q
  <2>4. \A l \in Memory!Used(p) : Memory!At(p, l) # x
    BY <1>4 DEF Memory!NodeAt
  <2>5. q \in NodePool
    <3> HIDE DEF Memory!Used, Memory!At
    <3>1. QED  BY <2>2, <2>3, <2>4 DEF NodePool
  <2>6. QED  BY <1>4, <2>1, <2>3, <2>5
<1>5. CASE Memory!NodeAt(p, x) = {} /\ ~(p.count < MAX_NODES)
  BY <1>1, <1>2, <1>5 DEF Memory!add_node
<1>6. QED  BY <1>3, <1>4, <1>5

LEMMA DropNode ==
    ASSUME NEW p \in NodePool, NEW x
    PROVE  /\ Memory!remove_node(p, x) \in NodePool
           /\ Memory!Entries(Memory!remove_node(p, x)) = Memory!Entries(p) \ {x}
<1>1. /\ p \in Pool(MAX_NODES, Address) /\ MAX_NODES \in Nat /\ NULL \notin Address
      /\ p.count \in 0..MAX_NODES /\ Memory!Used(p) \subseteq Nat
  BY NodePoolFacts, PoolFacts, NullAssumption, EntryTypes
<1>2. CASE Memory!NodeAt(p, x) = {}
  BY <1>2 DEF Memory!remove_node, Memory!NodeAt, Memory!Entries
<1>3. CASE Memory!NodeAt(p, x) # {}
  <2> DEFINE k == Memory!Min(Memory!NodeAt(p, x))
             q == Memory!RemoveAt(p, k)
             up(l) == IF l < k THEN l ELSE l + 1
  <2>1. Memory!NodeAt(p, x) \in SUBSET Nat
    BY <1>1 DEF Memory!NodeAt
  <2>2. k \in Memory!NodeAt(p, x)
    BY <1>3, <2>1, LeastPlace
  <2>3. k \in Memory!Used(p) /\ Memory!At(p, k) = x
    BY <2>2 DEF Memory!NodeAt
  <2>4. Memory!remove_node(p, x) = q
    BY <1>3 DEF Memory!remove_node
  <2> HIDE DEF k, q
  <2>5. /\ q \in Pool(MAX_NODES, Address) /\ q.count = p.count - 1
        /\ \A l \in 0..p.count-2 : Memory!At(q, l) = Memory!At(p, up(l))
    BY <1>1, <2>3, RemoveAtPool DEF q
  <2>6. Memory!Entries(q) = {Memory!At(p, l) : l \in Memory!Used(p) \ {k}}
    BY <1>1, <2>3, RemoveEntries DEF q
  <2>7. \A l, j \in Memory!Used(p) : Memory!At(p, l) = Memory!At(p, j) => l = j
    BY DEF NodePool
  <2>8. Memory!Entries(q) = Memory!Entries(p) \ {x}
    <3> HIDE DEF Memory!Used, Memory!At
    <3>1. QED  BY <2>3, <2>6, <2>7 DEF Memory!Entries
  <2>9. Memory!Used(q) = 0..p.count-2
    BY <1>1, <2>5
  <2>10. \A l, j \in 0..p.count-2 : up(l) \in Memory!Used(p) /\ (up(l) = up(j) => l = j)
    BY <1>1, <2>3
  <2>11. q \in NodePool
    <3> HIDE DEF Memory!Used, Memory!At, up
    <3>1. QED  BY <2>5, <2>7, <2>9, <2>10 DEF NodePool
  <2>12. QED  BY <2>4, <2>8, <2>11
<1>4. QED  BY <1>2, <1>3

(* add_edge() and remove_edge().  There is one place at most for an edge,   *)
(* and it may be overwritten by a record of the same edge.                  *)
LEMMA PlaceOfEdge ==
    ASSUME NEW p \in EdgePool, NEW k \in Memory!Used(p)
    PROVE  LET e == Memory!At(p, k)
           IN  /\ e \in Link /\ e \in Memory!Entries(p)
               /\ Memory!EdgeAt(p, e.src, e.dst) = {k}
               /\ Memory!Min(Memory!EdgeAt(p, e.src, e.dst)) = k
               /\ Memory!remove_edge(p, e.src, e.dst) = Memory!RemoveAt(p, k)
<1> DEFINE e == Memory!At(p, k)
<1>1. p \in Pool(MAX_EDGES, Link) /\ MAX_EDGES \in Nat /\ NULL \notin Link
  BY EdgePoolFacts, NullAssumption
<1>2. e \in Link /\ e \in Memory!Entries(p) /\ k \in Nat
  <2>1. e \in Link /\ k \in Nat
    BY <1>1, EntryTypes
  <2>2. QED  BY <2>1 DEF Memory!Entries
<1>3. Memory!EdgeAt(p, e.src, e.dst) = {k}
  <2> HIDE DEF Memory!Used, Memory!At
  <2>1. QED  BY DEF EdgePool, Memory!EdgeAt, SameEdge
<1>4. Memory!Min({k}) = k
  <2>1. {k} \in SUBSET Nat /\ {k} # {}
    BY <1>2
  <2>2. Memory!Min({k}) \in {k}
    BY <2>1, LeastPlace
  <2>3. QED  BY <2>2
<1> HIDE DEF e
<1>5. QED  BY <1>2, <1>3, <1>4 DEF Memory!remove_edge, e

LEMMA ReplaceEdge ==
    ASSUME NEW p \in EdgePool, NEW k \in Memory!Used(p), NEW x \in Link,
           SameEdge(x, Memory!At(p, k))
    PROVE  LET q == Memory!Overwrite(p, k, x)
           IN  /\ q \in EdgePool /\ q.count = p.count
               /\ Memory!Entries(q) = (Memory!Entries(p) \ {Memory!At(p, k)}) \cup {x}
               /\ \A l \in Memory!Used(p) :
                     Memory!At(q, l) = IF l = k THEN x ELSE Memory!At(p, l)
<1> DEFINE q == Memory!Overwrite(p, k, x)
<1>1. p \in Pool(MAX_EDGES, Link) /\ MAX_EDGES \in Nat /\ NULL \notin Link
  BY EdgePoolFacts, NullAssumption
<1>2. /\ q \in Pool(MAX_EDGES, Link) /\ q.count = p.count
      /\ \A l \in Memory!Used(p) : Memory!At(q, l) = IF l = k THEN x ELSE Memory!At(p, l)
  BY <1>1, OverwritePool
<1>3. Memory!Entries(q) = {Memory!At(p, l) : l \in Memory!Used(p) \ {k}} \cup {x}
  BY <1>1, OverwriteEntries
<1>4. \A l, j \in Memory!Used(p) : SameEdge(Memory!At(p, l), Memory!At(p, j)) => l = j
  BY DEF EdgePool
<1> HIDE DEF q
<1>5. Memory!Used(q) = Memory!Used(p)
  BY <1>2
<1> HIDE DEF Memory!Used, Memory!At
<1>6. Memory!Entries(q) = (Memory!Entries(p) \ {Memory!At(p, k)}) \cup {x}
  BY <1>3, <1>4 DEF Memory!Entries, SameEdge
<1>7. \A l, j \in Memory!Used(q) : SameEdge(Memory!At(q, l), Memory!At(q, j)) => l = j
  BY <1>2, <1>4, <1>5 DEF SameEdge
<1>8. QED  BY <1>2, <1>6, <1>7 DEF EdgePool, q

LEMMA StoreEdge ==
    ASSUME NEW n \in NodePool, NEW p \in EdgePool, NEW e \in Link
    PROVE  LET q == Memory!add_edge(n, p, e)
               E == Memory!Entries(p)
               N == Memory!Entries(n)
           IN  /\ q \in EdgePool
               /\ Memory!Entries(q) =
                     IF find_edge(E, e) # {}
                     THEN IF \E f \in find_edge(E, e) : f.ttl > e.ttl THEN E
                          ELSE (E \ find_edge(E, e)) \cup {e}
                     ELSE IF e.src \in N /\ e.dst \in N /\ p.count < MAX_EDGES
                     THEN E \cup {e} ELSE E
<1> DEFINE E == Memory!Entries(p)
           N == Memory!Entries(n)
           places == Memory!EdgeAt(p, e.src, e.dst)
           q == Memory!add_edge(n, p, e)
<1>1. /\ p \in Pool(MAX_EDGES, Link) /\ MAX_EDGES \in Nat /\ NULL \notin Link
      /\ Memory!Size(p) = MAX_EDGES /\ p.count \in 0..MAX_EDGES
  BY EdgePoolFacts, PoolFacts, NullAssumption
<1>2. \A x : Memory!NodeAt(n, x) = {} <=> x \notin N
  BY DEF Memory!NodeAt, Memory!Entries
<1>3. find_edge(E, e) = {Memory!At(p, k) : k \in places}
  <2> HIDE DEF Memory!Used, Memory!At
  <2>1. QED  BY DEF find_edge, SameEdge, Memory!EdgeAt, Memory!Entries
<1>4. ASSUME places # {} PROVE \E k \in Memory!Used(p) :
                                  /\ Memory!Min(places) = k
                                  /\ find_edge(E, e) = {Memory!At(p, k)}
                                  /\ SameEdge(e, Memory!At(p, k))
  <2>1. PICK k \in places : TRUE
    BY <1>4
  <2>2. /\ k \in Memory!Used(p) /\ Memory!At(p, k).src = e.src /\ Memory!At(p, k).dst = e.dst
    BY <2>1 DEF Memory!EdgeAt
  <2>3. places = {k} /\ Memory!Min(places) = k
    BY <2>2, PlaceOfEdge
  <2> HIDE DEF Memory!Used, Memory!At, places
  <2>4. QED  BY <1>3, <2>2, <2>3 DEF SameEdge
<1>5. CASE places # {}
  <2>1. PICK k \in Memory!Used(p) :
               /\ Memory!Min(places) = k
               /\ find_edge(E, e) = {Memory!At(p, k)}
               /\ SameEdge(e, Memory!At(p, k))
    BY <1>4, <1>5
  <2>2. q = IF Memory!At(p, k).ttl > e.ttl THEN p ELSE Memory!Overwrite(p, k, e)
    BY <1>5, <2>1 DEF Memory!add_edge
  <2> HIDE DEF Memory!Used, Memory!At, places, q
  <2>3. CASE Memory!At(p, k).ttl > e.ttl
    BY <2>1, <2>2, <2>3 DEF q
  <2>4. CASE ~(Memory!At(p, k).ttl > e.ttl)
    <3>1. /\ Memory!Overwrite(p, k, e) \in EdgePool
          /\ Memory!Entries(Memory!Overwrite(p, k, e)) = (E \ {Memory!At(p, k)}) \cup {e}
      BY <2>1, ReplaceEdge
    <3>2. q = Memory!Overwrite(p, k, e)
      BY <2>2, <2>4
    <3> HIDE DEF E
    <3>3. QED  BY <2>1, <2>4, <3>1, <3>2 DEF q, E
  <2>5. QED  BY <2>3, <2>4
<1>6. CASE places = {}
  <2>1. find_edge(E, e) = {}
    BY <1>3, <1>6
  <2>2. q = IF e.src \in N /\ e.dst \in N /\ p.count < MAX_EDGES THEN Memory!Insert(p, e) ELSE p
    BY <1>1, <1>2, <1>6 DEF Memory!add_edge
  <2>3. CASE e.src \in N /\ e.dst \in N /\ p.count < MAX_EDGES
    <3> DEFINE r == Memory!Insert(p, e)
    <3>1. /\ r \in Pool(MAX_EDGES, Link) /\ Memory!At(r, p.count) = e
          /\ \A l \in Memory!Used(p) : Memory!At(r, l) = Memory!At(p, l)
      BY <1>1, <2>3, InsertPool
    <3>2. /\ Memory!Entries(r) = Memory!Entries(p) \cup {e}
          /\ \A l \in Memory!Used(r) : l \in Memory!Used(p) \/ l = p.count
      BY <1>1, <2>3, InsertEntries
    <3>3. \A l \in Memory!Used(p) : ~SameEdge(e, Memory!At(p, l))
      BY <1>6 DEF Memory!EdgeAt, SameEdge
    <3>4. \A l, j \in Memory!Used(p) : SameEdge(Memory!At(p, l), Memory!At(p, j)) => l = j
      BY DEF EdgePool
    <3> HIDE DEF r, Memory!Used, Memory!At
    <3>5. \A l, j \in Memory!Used(r) : SameEdge(Memory!At(r, l), Memory!At(r, j)) => l = j
      BY <3>1, <3>2, <3>3, <3>4 DEF SameEdge
    <3>6. r \in EdgePool
      BY <3>1, <3>5 DEF EdgePool
    <3> HIDE DEF q
    <3>7. QED  BY <2>1, <2>2, <2>3, <3>2, <3>6 DEF r, q
  <2>4. CASE ~(e.src \in N /\ e.dst \in N /\ p.count < MAX_EDGES)
    <3> HIDE DEF q
    <3>1. QED  BY <2>1, <2>2, <2>4 DEF q
  <2>5. QED  BY <2>3, <2>4
<1>7. QED  BY <1>5, <1>6

LEMMA DropEdge ==
    ASSUME NEW p \in EdgePool, NEW k \in Memory!Used(p)
    PROVE  LET q == Memory!RemoveAt(p, k)
           IN  /\ q \in EdgePool /\ q.count = p.count - 1
               /\ Memory!Entries(q) = Memory!Entries(p) \ {Memory!At(p, k)}
               /\ \A l \in 0..p.count-2 :
                     Memory!At(q, l) = IF l < k THEN Memory!At(p, l) ELSE Memory!At(p, l+1)
<1> DEFINE q == Memory!RemoveAt(p, k)
           up(l) == IF l < k THEN l ELSE l + 1
<1>1. p \in Pool(MAX_EDGES, Link) /\ MAX_EDGES \in Nat /\ NULL \notin Link /\ p.count \in Nat
  BY EdgePoolFacts, NullAssumption
<1>2. /\ q \in Pool(MAX_EDGES, Link) /\ q.count = p.count - 1
      /\ \A l \in 0..p.count-2 :
            Memory!At(q, l) = IF l < k THEN Memory!At(p, l) ELSE Memory!At(p, l+1)
  <2> HIDE DEF Memory!At, Memory!Used
  <2>1. QED  BY <1>1, RemoveAtPool
<1>3. Memory!Entries(q) = {Memory!At(p, l) : l \in Memory!Used(p) \ {k}}
  BY <1>1, RemoveEntries
<1>4. \A l, j \in Memory!Used(p) : SameEdge(Memory!At(p, l), Memory!At(p, j)) => l = j
  BY DEF EdgePool
<1> HIDE DEF q
<1>5. Memory!Used(q) = 0..p.count-2
  BY <1>1, <1>2
<1>6. \A l, j \in 0..p.count-2 : up(l) \in Memory!Used(p) /\ (up(l) = up(j) => l = j)
  BY <1>1
<1>7. \A l \in 0..p.count-2 : Memory!At(q, l) = Memory!At(p, up(l))
  BY <1>2
<1> HIDE DEF Memory!Used, Memory!At, up
<1>8. Memory!Entries(q) = Memory!Entries(p) \ {Memory!At(p, k)}
  BY <1>3, <1>4 DEF Memory!Entries, SameEdge
<1>9. \A l, j \in Memory!Used(q) : SameEdge(Memory!At(q, l), Memory!At(q, j)) => l = j
  BY <1>4, <1>5, <1>6, <1>7
<1>10. QED  BY <1>2, <1>8, <1>9 DEF EdgePool, q

-----------------------------------------------------------------------------
(* What the places hold is listed completely and in the order of the array: *)
(* each place once.                                                         *)
LEMMA PickedDef ==
    ASSUME NEW p, p.count \in Nat, NEW places
    PROVE  \E f : /\ f = [n \in 0..p.count |->
                            IF n = 0 THEN <<>>
                            ELSE IF n-1 \in places THEN Append(f[n-1], Memory!At(p, n-1))
                            ELSE f[n-1]]
                  /\ Memory!Picked(p, places) = f[p.count]
<1> HIDE DEF Memory!At
<1> DEFINE Def(f, m) == f = [n \in 0..m |->
                               IF n = 0 THEN <<>>
                               ELSE IF n-1 \in places THEN Append(f[n-1], Memory!At(p, n-1))
                               ELSE f[n-1]]
           S == {m \in 0..p.count : \E f : Def(f, m)}
<1>1. 0 \in S
  <2> DEFINE f == [n \in 0..0 |-> <<>>]
  <2>1. Def(f, 0)
    OBVIOUS
  <2> HIDE DEF f, Def
  <2>2. QED  BY <2>1
<1>2. ASSUME NEW m \in 0..p.count-1, m \in S PROVE m + 1 \in S
  <2>1. PICK f : Def(f, m)
    BY <1>2
  <2> DEFINE g == [n \in 0..m+1 |->
                     IF n = m+1 THEN IF m \in places THEN Append(f[m], Memory!At(p, m)) ELSE f[m]
                     ELSE f[n]]
  <2>2. ASSUME NEW n \in 0..m+1
        PROVE  g[n] = IF n = 0 THEN <<>>
                      ELSE IF n-1 \in places THEN Append(g[n-1], Memory!At(p, n-1))
                      ELSE g[n-1]
    <3>1. CASE n = m+1
      BY <3>1
    <3>2. CASE n # m+1 /\ n # 0
      <4>1. n \in 0..m /\ n-1 \in 0..m
        BY <3>2
      <4>2. f[n] = IF n-1 \in places THEN Append(f[n-1], Memory!At(p, n-1)) ELSE f[n-1]
        BY <2>1, <3>2, <4>1
      <4>3. g[n] = f[n] /\ g[n-1] = f[n-1]
        BY <3>2, <4>1
      <4>4. QED  BY <3>2, <4>2, <4>3
    <3>3. CASE n = 0
      BY <2>1, <3>3
    <3>4. QED  BY <3>1, <3>2, <3>3
  <2> HIDE DEF Def
  <2>3. Def(g, m+1)
    BY <2>2 DEF Def
  <2>4. QED  BY <2>3
<1>3. p.count \in S
  <2> HIDE DEF S
  <2>1. 0..p.count \subseteq S
    BY <1>1, <1>2, UpTo
  <2>2. QED  BY <2>1
<1> DEFINE f == CHOOSE f : Def(f, p.count)
<1>4. Def(f, p.count)
  <2> HIDE DEF Def
  <2>1. QED  BY <1>3
<1>5. Memory!Picked(p, places) = f[p.count]
  BY DEF Memory!Picked
<1>6. QED  BY <1>4, <1>5

LEMMA PickedPlaces ==
    ASSUME NEW p, p.count \in Nat, NEW places \in SUBSET Memory!Used(p)
    PROVE  LET out == Memory!Picked(p, places)
           IN  /\ out \in Seq(Memory!Entries(p))
               /\ \E at \in Bijection(1..Len(out), places) :
                     \A j \in 1..Len(out) : out[j] = Memory!At(p, at[j])
<1>1. PICK f : /\ f = [n \in 0..p.count |->
                         IF n = 0 THEN <<>>
                         ELSE IF n-1 \in places THEN Append(f[n-1], Memory!At(p, n-1))
                         ELSE f[n-1]]
               /\ Memory!Picked(p, places) = f[p.count]
  BY PickedDef
<1> HIDE DEF Memory!At
<1>2. f[0] = <<>>
  BY <1>1
<1>3. ASSUME NEW n \in 0..p.count-1
      PROVE  f[n+1] = IF n \in places THEN Append(f[n], Memory!At(p, n)) ELSE f[n]
  <2>1. n+1 \in 0..p.count /\ n+1 # 0 /\ (n+1)-1 = n
    OBVIOUS
  <2>2. QED  BY <1>1, <2>1
<1>a. \A k \in places : k \in Nat /\ k < p.count
  <2>1. \A k \in 0..p.count-1 : k \in Nat /\ k < p.count
    OBVIOUS
  <2>2. QED  BY <2>1
<1> DEFINE upto(n) == {k \in places : k < n}
           Good(n) == /\ f[n] \in Seq(Memory!Entries(p))
                      /\ \E at \in [1..Len(f[n]) -> upto(n)] :
                            /\ \A j, k \in 1..Len(f[n]) : at[j] = at[k] => j = k
                            /\ \A k \in upto(n) : \E j \in 1..Len(f[n]) : at[j] = k
                            /\ \A j \in 1..Len(f[n]) : f[n][j] = Memory!At(p, at[j])
           S == {n \in 0..p.count : Good(n)}
<1>4. Good(0)
  <2> DEFINE at == [j \in 1..0 |-> 0]
  <2>1. Len(f[0]) = 0 /\ 1..0 = {} /\ f[0] \in Seq(Memory!Entries(p)) /\ upto(0) = {}
    <3>1. upto(0) = {}
      <4>1. \A k \in places : ~(k < 0)
        BY <1>a
      <4>2. QED  BY <4>1
    <3> HIDE DEF upto
    <3>2. QED  BY <1>2, <3>1
  <2>2. at \in [1..0 -> upto(0)]
    BY <2>1
  <2>3. QED  BY <2>1, <2>2
<1>5. ASSUME NEW n \in 0..p.count-1, Good(n) PROVE Good(n+1)
  <2>1. PICK at \in [1..Len(f[n]) -> upto(n)] :
               /\ \A j, k \in 1..Len(f[n]) : at[j] = at[k] => j = k
               /\ \A k \in upto(n) : \E j \in 1..Len(f[n]) : at[j] = k
               /\ \A j \in 1..Len(f[n]) : f[n][j] = Memory!At(p, at[j])
    BY <1>5
  <2>2. f[n] \in Seq(Memory!Entries(p)) /\ Len(f[n]) \in Nat
    BY <1>5
  <2>b. \A k \in places : (k < n+1 <=> k < n \/ k = n) /\ (k = n => ~(k < n))
    BY <1>a
  <2>c. upto(n+1) = {k \in places : k < n \/ k = n}
    BY <2>b
  <2>3. CASE n \notin places
    <3>1. f[n+1] = f[n] /\ upto(n+1) = upto(n)
      BY <1>3, <2>3, <2>c
    <3>2. QED  BY <2>2, <2>1, <3>1
  <2>4. CASE n \in places
    <3> DEFINE L == Len(f[n])
               x == Memory!At(p, n)
               g == [j \in 1..L+1 |-> IF j = L+1 THEN n ELSE at[j]]
    <3>1. x \in Memory!Entries(p)
      BY <2>4 DEF Memory!Entries
    <3>2. f[n+1] = Append(f[n], x)
      BY <1>3, <2>4
    <3> HIDE DEF x
    <3>3. /\ f[n+1] \in Seq(Memory!Entries(p)) /\ Len(f[n+1]) = L+1
          /\ f[n+1][L+1] = x /\ \A j \in 1..L : f[n+1][j] = f[n][j]
      BY <2>2, <3>1, <3>2
    <3>4. upto(n+1) = upto(n) \cup {n} /\ n \notin upto(n)
      BY <2>b, <2>c, <2>4
    <3>5. /\ L \in Nat /\ L+1 \in 1..L+1 /\ \A j \in 1..L : j \in 1..L+1 /\ j # L+1
          /\ \A j \in 1..L+1 : j = L+1 \/ j \in 1..L
      BY <2>2
    <3> HIDE DEF upto, L
    <3>6. g[L+1] = n /\ \A j \in 1..L : g[j] = at[j] /\ at[j] \in upto(n)
      BY <2>1, <3>5 DEF L
    <3>7. g \in [1..L+1 -> upto(n+1)]
      BY <3>4, <3>5, <3>6
    <3> HIDE DEF g
    <3>8. \A j, k \in 1..L+1 : g[j] = g[k] => j = k
      BY <2>1, <3>4, <3>5, <3>6 DEF L
    <3>9. \A k \in upto(n+1) : \E j \in 1..L+1 : g[j] = k
      BY <2>1, <3>4, <3>5, <3>6 DEF L
    <3>10. \A j \in 1..L+1 : f[n+1][j] = Memory!At(p, g[j])
      BY <2>1, <3>3, <3>5, <3>6 DEF L, x
    <3>11. QED  BY <3>3, <3>7, <3>8, <3>9, <3>10
  <2>5. QED  BY <2>3, <2>4
<1>6. Good(p.count)
  <2> HIDE DEF Good
  <2>1. 0 \in S /\ \A n \in 0..p.count-1 : n \in S => n + 1 \in S
    BY <1>4, <1>5
  <2> HIDE DEF S
  <2>2. 0..p.count \subseteq S
    BY <2>1, UpTo
  <2>3. QED  BY <2>2 DEF S
<1>7. upto(p.count) = places
  BY <1>a
<1> DEFINE out == Memory!Picked(p, places)
<1>8. PICK at \in [1..Len(out) -> places] :
               /\ \A j, k \in 1..Len(out) : at[j] = at[k] => j = k
               /\ \A k \in places : \E j \in 1..Len(out) : at[j] = k
               /\ \A j \in 1..Len(out) : out[j] = Memory!At(p, at[j])
  <2>1. out = f[p.count]
    BY <1>1
  <2>2. \E at \in [1..Len(f[p.count]) -> upto(p.count)] :
               /\ \A j, k \in 1..Len(f[p.count]) : at[j] = at[k] => j = k
               /\ \A k \in upto(p.count) : \E j \in 1..Len(f[p.count]) : at[j] = k
               /\ \A j \in 1..Len(f[p.count]) : f[p.count][j] = Memory!At(p, at[j])
    BY <1>6
  <2> HIDE DEF upto, out
  <2>3. QED  BY <1>7, <2>1, <2>2
<1>9. at \in Bijection(1..Len(out), places)
  BY <1>8 DEF Bijection, Injection, Surjection, IsInjective
<1>10. out \in Seq(Memory!Entries(p))
  BY <1>1, <1>6
<1>11. QED  BY <1>8, <1>9, <1>10

(* The sequence s lists the records of E, every edge once.                  *)
Lists(s, E) ==
    /\ s \in Seq(E)
    /\ \A e \in E : \E j \in 1..Len(s) : s[j] = e
    /\ \A j, k \in 1..Len(s) : SameEdge(s[j], s[k]) => j = k

LEMMA PickedLists ==
    ASSUME NEW p \in EdgePool, NEW places \in SUBSET Memory!Used(p)
    PROVE  Lists(Memory!Picked(p, places), {Memory!At(p, k) : k \in places})
<1> DEFINE out == Memory!Picked(p, places)
           E == {Memory!At(p, k) : k \in places}
<1>1. p.count \in Nat
  BY EdgePoolFacts
<1>2. out \in Seq(Memory!Entries(p))
  BY <1>1, PickedPlaces
<1>3. PICK at \in Bijection(1..Len(out), places) :
               \A j \in 1..Len(out) : out[j] = Memory!At(p, at[j])
  BY <1>1, PickedPlaces
<1>4. /\ at \in [1..Len(out) -> places]
      /\ \A j, k \in 1..Len(out) : at[j] = at[k] => j = k
      /\ \A k \in places : \E j \in 1..Len(out) : at[j] = k
  BY DEF Bijection, Injection, Surjection, IsInjective
<1>5. \A l, j \in Memory!Used(p) : SameEdge(Memory!At(p, l), Memory!At(p, j)) => l = j
  BY DEF EdgePool
<1> HIDE DEF Memory!Used, Memory!At, out
<1>6. \A j, k \in 1..Len(out) : SameEdge(out[j], out[k]) => j = k
  <2>1. \A j \in 1..Len(out) : out[j] = Memory!At(p, at[j]) /\ at[j] \in Memory!Used(p)
    BY <1>3, <1>4
  <2>2. QED  BY <1>4, <1>5, <2>1
<1>7. \A e \in E : \E j \in 1..Len(out) : out[j] = e
  BY <1>3, <1>4
<1>8. out \in Seq(E)
  <2>1. \A j \in 1..Len(out) : out[j] \in E
    BY <1>3, <1>4
  <2> HIDE DEF E
  <2>2. out = [j \in 1..Len(out) |-> out[j]] /\ Len(out) \in Nat
    BY <1>2
  <2>3. QED  BY <2>1, <2>2
<1> HIDE DEF E
<1>9. QED  BY <1>6, <1>7, <1>8 DEF Lists, out, E

LEMMA Listings ==
    ASSUME NEW p \in EdgePool
    PROVE  /\ \A x : /\ Lists(Memory!get_outgoing_edges(p, x),
                               {e \in Memory!Entries(p) : e.src = x})
                    /\ Lists(Memory!get_ingoing_edges(p, x),
                               {e \in Memory!Entries(p) : e.dst = x})
           /\ Lists(Memory!Listing(p), Memory!Entries(p))
<1>1. ASSUME NEW x
      PROVE  /\ Lists(Memory!get_outgoing_edges(p, x), {e \in Memory!Entries(p) : e.src = x})
             /\ Lists(Memory!get_ingoing_edges(p, x), {e \in Memory!Entries(p) : e.dst = x})
  <2> DEFINE from == {k \in Memory!Used(p) : Memory!At(p, k).src = x}
             to == {k \in Memory!Used(p) : Memory!At(p, k).dst = x}
  <2>1. /\ Memory!get_outgoing_edges(p, x) = Memory!Picked(p, from)
        /\ Memory!get_ingoing_edges(p, x) = Memory!Picked(p, to)
    BY DEF Memory!get_outgoing_edges, Memory!get_ingoing_edges
  <2>2. /\ Lists(Memory!Picked(p, from), {Memory!At(p, k) : k \in from})
        /\ Lists(Memory!Picked(p, to), {Memory!At(p, k) : k \in to})
    BY PickedLists
  <2> HIDE DEF Memory!Used, Memory!At
  <2>3. /\ {Memory!At(p, k) : k \in from} = {e \in Memory!Entries(p) : e.src = x}
        /\ {Memory!At(p, k) : k \in to} = {e \in Memory!Entries(p) : e.dst = x}
    BY DEF Memory!Entries
  <2> HIDE DEF from, to
  <2>4. QED  BY <2>1, <2>2, <2>3
<1>2. Lists(Memory!Listing(p), Memory!Entries(p))
  <2> DEFINE s == Memory!Listing(p)
             n == p.count
  <2>1. n \in Nat
    BY EdgePoolFacts
  <2>2. s = [k \in 1..n |-> Memory!At(p, k-1)]
    BY DEF Memory!Listing
  <2>3. \A k \in 1..n : k-1 \in 0..n-1
    BY <2>1
  <2>4. \A k \in 0..n-1 : k+1 \in 1..n /\ (k+1)-1 = k
    BY <2>1
  <2>5. Memory!Used(p) = 0..n-1
    OBVIOUS
  <2>6. \A l, j \in Memory!Used(p) : SameEdge(Memory!At(p, l), Memory!At(p, j)) => l = j
    BY DEF EdgePool
  <2> HIDE DEF s, n, Memory!Used, Memory!At
  <2>7. \A k \in 1..n : s[k] = Memory!At(p, k-1) /\ s[k] \in Memory!Entries(p)
    BY <2>2, <2>3, <2>5 DEF Memory!Entries
  <2>8. s \in Seq(Memory!Entries(p)) /\ Len(s) = n
    BY <2>1, <2>2, <2>7
  <2>9. \A e \in Memory!Entries(p) : \E j \in 1..n : s[j] = e
    <3> SUFFICES ASSUME NEW k \in 0..n-1 PROVE \E j \in 1..n : s[j] = Memory!At(p, k)
      BY <2>5 DEF Memory!Entries
    <3>1. k+1 \in 1..n /\ s[k+1] = Memory!At(p, k)
      BY <2>4, <2>7
    <3>2. QED  BY <3>1
  <2>10. \A j, k \in 1..n : SameEdge(s[j], s[k]) => j = k
    <3> SUFFICES ASSUME NEW j \in 1..n, NEW k \in 1..n, SameEdge(s[j], s[k]) PROVE j = k
      OBVIOUS
    <3>1. j-1 = k-1
      BY <2>3, <2>5, <2>6, <2>7
    <3>2. QED  BY <2>1, <3>1
  <2>11. QED  BY <2>8, <2>9, <2>10 DEF Lists, s
<1>3. QED  BY <1>1, <1>2
=============================================================================
