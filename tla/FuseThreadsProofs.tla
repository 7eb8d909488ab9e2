------------------------- MODULE FuseThreadsProofs --------------------------
(***************************************************************************)
(* Proofs about FuseThreads for any number of threads, calls and names.    *)
(***************************************************************************)
EXTENDS FuseThreads, DataProofs

-----------------------------------------------------------------------------
(* What is below a block.  K gives the children of each of the blocks       *)
(* 1 .. n, which are older than it.                                         *)

Older(K, n) ==
  /\ n \in Nat
  /\ K \in [1 .. n -> SUBSET Nat]
  /\ \A id \in 1 .. n : \A k \in K[id] : k \in 1 .. n /\ k < id

Closed(K, S) == \A x \in S : K[x] \subseteq S

\* The least set with a block that has the children of its blocks.
Reach(K, id) ==
  {x \in DOMAIN K : \A S \in SUBSET DOMAIN K : id \in S /\ Closed(K, S) => x \in S}

LEMMA ReachClosed ==
  ASSUME NEW n, NEW K, Older(K, n), NEW id \in 1 .. n
  PROVE  /\ id \in Reach(K, id)
         /\ Reach(K, id) \subseteq 1 .. n
         /\ \A x \in Reach(K, id) : K[x] \subseteq Reach(K, id)
<1>1. DOMAIN K = 1 .. n /\ \A x \in 1 .. n : K[x] \subseteq 1 .. n
  BY DEF Older
<1>2. Reach(K, id) \subseteq 1 .. n /\ id \in Reach(K, id)
  BY <1>1 DEF Reach
<1>3. ASSUME NEW x \in Reach(K, id), NEW k \in K[x] PROVE k \in Reach(K, id)
  <2>1. k \in 1 .. n
    BY <1>1, <1>2
  <2>2. ASSUME NEW S \in SUBSET 1 .. n, id \in S, Closed(K, S) PROVE k \in S
    BY <1>1, <1>3, <2>2 DEF Reach, Closed
  <2> QED BY <1>1, <2>1, <2>2 DEF Reach
<1> QED BY <1>2, <1>3

LEMMA ReachLeast ==
  ASSUME NEW n, NEW K, Older(K, n), NEW id \in 1 .. n,
         NEW S, S \subseteq 1 .. n, id \in S,
         \A x \in S : \A k \in K[x] : k \in S
  PROVE  Reach(K, id) \subseteq S
BY DEF Reach, Closed, Older

\* Below a block below is below.
LEMMA ReachTrans ==
  ASSUME NEW n, NEW K, Older(K, n), NEW id \in 1 .. n, NEW x \in Reach(K, id)
  PROVE  x \in 1 .. n /\ Reach(K, x) \subseteq Reach(K, id)
<1>1. /\ x \in 1 .. n /\ Reach(K, id) \subseteq 1 .. n
      /\ \A y \in Reach(K, id) : \A k \in K[y] : k \in Reach(K, id)
  BY ReachClosed
<1> QED BY <1>1, ReachLeast

\* Each block but the first has a parent there.
LEMMA ReachParent ==
  ASSUME NEW n, NEW K, Older(K, n), NEW id \in 1 .. n,
         NEW x \in Reach(K, id), x # id
  PROVE  \E w \in Reach(K, id) : x \in K[w]
<1> DEFINE S == {y \in Reach(K, id) : y = id \/ \E w \in Reach(K, id) : y \in K[w]}
<1>1. /\ id \in Reach(K, id) /\ Reach(K, id) \subseteq 1 .. n
      /\ \A y \in Reach(K, id) : K[y] \subseteq Reach(K, id)
  BY ReachClosed
<1>2. S \subseteq 1 .. n /\ id \in S /\ \A y \in S : \A k \in K[y] : k \in S
  BY <1>1
<1> HIDE DEF S
<1>3. Reach(K, id) \subseteq S
  BY <1>2, ReachLeast
<1> QED BY <1>3 DEF S

\* What is below a block is older.
LEMMA ReachOlder ==
  ASSUME NEW n, NEW K, Older(K, n), NEW id \in 1 .. n, NEW x \in Reach(K, id)
  PROVE  x \in 1 .. n /\ x <= id
<1> DEFINE S == 1 .. id
<1>1. n \in Nat /\ \A y \in 1 .. n : \A k \in K[y] : k \in 1 .. n /\ k < y
  BY DEF Older
<1>2. S \subseteq 1 .. n /\ id \in S /\ \A y \in S : \A k \in K[y] : k \in S
  BY <1>1
<1> HIDE DEF S
<1>3. Reach(K, id) \subseteq S
  BY <1>2, ReachLeast
<1> QED BY <1>1, <1>3 DEF S

\* It is below one of the children.
LEMMA ReachKid ==
  ASSUME NEW n, NEW K, Older(K, n), NEW id \in 1 .. n
  PROVE  /\ Reach(K, id) = {id} \cup UNION {Reach(K, k) : k \in K[id]}
         /\ \A k \in K[id] : k \in 1 .. n /\ id \notin Reach(K, k)
<1> DEFINE S == {id} \cup UNION {Reach(K, k) : k \in K[id]}
<1>1. /\ id \in Reach(K, id) /\ Reach(K, id) \subseteq 1 .. n
      /\ \A y \in Reach(K, id) : K[y] \subseteq Reach(K, id)
  BY ReachClosed
<1>2. \A k \in K[id] : k \in 1 .. n /\ k < id
  BY DEF Older
<1>3. \A k \in K[id] : /\ k \in Reach(K, k) /\ Reach(K, k) \subseteq 1 .. n
                       /\ \A y \in Reach(K, k) : K[y] \subseteq Reach(K, k)
  BY <1>2, ReachClosed
<1>4. \A k \in K[id] : Reach(K, k) \subseteq Reach(K, id)
  BY <1>1, ReachTrans
<1>5. S \subseteq 1 .. n /\ id \in S /\ \A y \in S : \A k \in K[y] : k \in S
  BY <1>3
<1>6. S \subseteq Reach(K, id)
  BY <1>1, <1>4
<1> HIDE DEF S
<1>7. Reach(K, id) \subseteq S
  BY <1>5, ReachLeast
<1>8. \A k \in K[id] : id \notin Reach(K, k)
  <2> SUFFICES ASSUME NEW k \in K[id], id \in Reach(K, k) PROVE FALSE
    OBVIOUS
  <2>1. k \in 1 .. n /\ k < id
    BY <1>2
  <2>2. id <= k
    BY <2>1, ReachOlder
  <2>3. k \in Nat /\ id \in Nat
    BY <2>1 DEF Older
  <2> QED BY <2>1, <2>2, <2>3
<1> QED BY <1>2, <1>6, <1>7, <1>8 DEF S

\* New blocks change nothing below the old.
LEMMA ReachSame ==
  ASSUME NEW n, NEW K, Older(K, n), NEW n2, NEW K2, Older(K2, n2), n <= n2,
         \A x \in 1 .. n : K2[x] = K[x],
         NEW id \in 1 .. n
  PROVE  Reach(K2, id) = Reach(K, id) /\ id \in 1 .. n2
<1>1. n \in Nat /\ n2 \in Nat /\ \A x \in 1 .. n : x \in 1 .. n2
  BY DEF Older
<1>2. Reach(K2, id) \subseteq Reach(K, id)
  <2>1. /\ id \in Reach(K, id) /\ Reach(K, id) \subseteq 1 .. n
        /\ \A y \in Reach(K, id) : K[y] \subseteq Reach(K, id)
    BY ReachClosed
  <2>2. /\ Reach(K, id) \subseteq 1 .. n2
        /\ \A y \in Reach(K, id) : \A k \in K2[y] : k \in Reach(K, id)
    BY <1>1, <2>1
  <2> QED BY <1>1, <2>1, <2>2, ReachLeast
<1>3. Reach(K, id) \subseteq Reach(K2, id)
  <2> DEFINE S == Reach(K2, id) \cap 1 .. n
  <2>1. /\ id \in Reach(K2, id)
        /\ \A y \in Reach(K2, id) : K2[y] \subseteq Reach(K2, id)
    BY <1>1, ReachClosed
  <2>2. \A y \in 1 .. n : K[y] \subseteq 1 .. n
    BY DEF Older
  <2>3. S \subseteq 1 .. n /\ id \in S /\ \A y \in S : \A k \in K[y] : k \in S
    BY <2>1, <2>2
  <2> HIDE DEF S
  <2>4. Reach(K, id) \subseteq S
    BY <2>3, ReachLeast
  <2> QED BY <2>4 DEF S
<1> QED BY <1>1, <1>2, <1>3

-----------------------------------------------------------------------------
(* A path and its replacement *)

\* Blocks from a root down, each a child of the one before.
Chain(K, blocks, root) ==
  /\ blocks \in Seq(Nat) /\ blocks # <<>>
  /\ blocks[1] = root /\ root \in DOMAIN K
  /\ \A i \in 1 .. Len(blocks) - 1 : blocks[i + 1] \in K[blocks[i]]

\* No block below a root has two parents there.
Tree(K, root) ==
  \A x, y \in Reach(K, root) : x # y => K[x] \cap K[y] = {}

LEMMA ChainLen ==
  ASSUME NEW n, NEW K, Older(K, n), NEW c, NEW root, Chain(K, c, root)
  PROVE  /\ Len(c) \in Nat /\ Len(c) >= 1 /\ root \in 1 .. n /\ c[1] = root
         /\ DOMAIN c = 1 .. Len(c) /\ c \in Seq(Nat)
         /\ \A i \in 1 .. Len(c) : c[i] \in Nat
         /\ \A i \in 1 .. Len(c) - 1 : c[i + 1] \in K[c[i]]
BY DEF Chain, Older

\* A path is in the tree.
LEMMA ChainIn ==
  ASSUME NEW n, NEW K, Older(K, n), NEW c, NEW root, Chain(K, c, root)
  PROVE  \A i \in 1 .. Len(c) : c[i] \in Reach(K, root) /\ c[i] \in 1 .. n
<1> DEFINE k == Len(c)
           S == {i \in 1 .. k : c[i] \notin Reach(K, root)}
<1>1. /\ k \in Nat /\ k >= 1 /\ root \in 1 .. n /\ c[1] = root
      /\ \A i \in 1 .. k - 1 : c[i + 1] \in K[c[i]]
  BY ChainLen
<1>2. /\ root \in Reach(K, root) /\ Reach(K, root) \subseteq 1 .. n
      /\ \A x \in Reach(K, root) : K[x] \subseteq Reach(K, root)
  BY <1>1, ReachClosed
<1> HIDE DEF k
<1>3. ASSUME S # {} PROVE FALSE
  <2>1. S \subseteq Nat
    BY <1>1
  <2>2. PICK m \in S : \A i \in S : m <= i
    <3> HIDE DEF S
    <3> QED BY <1>3, <2>1, LeastNumber
  <2>3. m \in 1 .. k /\ c[m] \notin Reach(K, root)
    OBVIOUS
  <2>4. m # 1
    BY <1>1, <1>2, <2>3
  <2>5. m - 1 \in 1 .. k - 1 /\ m - 1 \in 1 .. k /\ (m - 1) + 1 = m /\ ~ (m <= m - 1)
    BY <1>1, <2>3, <2>4
  <2>6. m - 1 \notin S
    <3> HIDE DEF S
    <3> QED BY <2>2, <2>5
  <2>7. c[m - 1] \in Reach(K, root)
    BY <2>5, <2>6
  <2>8. c[m] \in K[c[m - 1]]
    BY <1>1, <2>5
  <2> QED BY <1>2, <2>3, <2>7, <2>8
<1> QED BY <1>2, <1>3 DEF k

\* It goes to older and older blocks.
LEMMA ChainDown ==
  ASSUME NEW n, NEW K, Older(K, n), NEW c, NEW root, Chain(K, c, root),
         NEW i \in 1 .. Len(c), NEW j \in 1 .. Len(c), i < j
  PROVE  c[j] < c[i]
<1> DEFINE k == Len(c)
           S == {m \in 1 .. k : i < m /\ ~ (c[m] < c[i])}
<1>1. /\ k \in Nat /\ k >= 1
      /\ \A m \in 1 .. k - 1 : c[m + 1] \in K[c[m]]
  BY ChainLen
<1>2. \A m \in 1 .. k : c[m] \in 1 .. n /\ c[m] \in Nat
  BY ChainIn, ChainLen
<1>3. \A m \in 1 .. k - 1 : c[m + 1] < c[m]
  <2> SUFFICES ASSUME NEW m \in 1 .. k - 1 PROVE c[m + 1] < c[m]
    OBVIOUS
  <2>1. m \in 1 .. k
    BY <1>1
  <2> QED BY <1>1, <1>2, <2>1 DEF Older
<1>4. i \in 1 .. k /\ j \in 1 .. k
  OBVIOUS
<1> HIDE DEF k
<1>5. ASSUME S # {} PROVE FALSE
  <2>1. S \subseteq Nat
    BY <1>1
  <2>2. PICK m \in S : \A x \in S : m <= x
    <3> HIDE DEF S
    <3> QED BY <1>5, <2>1, LeastNumber
  <2>3. m \in 1 .. k /\ i < m /\ ~ (c[m] < c[i])
    OBVIOUS
  <2>4. m - 1 \in 1 .. k - 1 /\ m - 1 \in 1 .. k /\ (m - 1) + 1 = m /\ ~ (m <= m - 1)
        /\ i <= m - 1
    BY <1>1, <1>4, <2>3
  <2>5. m - 1 \notin S
    <3> HIDE DEF S
    <3> QED BY <2>2, <2>4
  <2>6. c[m] < c[m - 1]
    BY <1>3, <2>4
  <2>7. c[m] \in Nat /\ c[m - 1] \in Nat /\ c[i] \in Nat
    BY <1>2, <1>4, <2>3, <2>4
  <2>8. CASE i = m - 1
    BY <2>3, <2>6, <2>8
  <2>9. CASE i # m - 1
    <3>1. i < m - 1
      BY <1>4, <2>3, <2>4, <2>9
    <3>2. c[m - 1] < c[i]
      BY <2>4, <2>5, <3>1
    <3> QED BY <2>3, <2>6, <2>7, <3>2
  <2> QED BY <2>8, <2>9
<1> QED BY <1>4, <1>5

\* So its blocks are different.
LEMMA ChainOnce ==
  ASSUME NEW n, NEW K, Older(K, n), NEW c, NEW root, Chain(K, c, root),
         NEW i \in 1 .. Len(c), NEW j \in 1 .. Len(c), c[i] = c[j]
  PROVE  i = j
<1>1. Len(c) \in Nat /\ c[i] \in Nat /\ i \in Nat /\ j \in Nat
  BY ChainLen
<1>2. CASE i < j
  BY <1>1, <1>2, ChainDown
<1>3. CASE j < i
  BY <1>1, <1>3, ChainDown
<1> QED BY <1>1, <1>2, <1>3

\* The blocks 1 .. n and new ones: a leaf if there is one, o = 1, then copies of
\* a path c, bottom up.  The last block of the path loses the children remove
\* and gets the leaf, each other one its new child for the old.
Rebuilt(K, n, K2, n2, c, remove, o) ==
  /\ o \in {0, 1}
  /\ n2 = n + o + Len(c)
  /\ K2 \in [1 .. n2 -> SUBSET Nat]
  /\ \A x \in 1 .. n : K2[x] = K[x]
  /\ o = 1 => K2[n + 1] = {}
  /\ \A i \in 1 .. Len(c) - 1 : K2[n2 + 1 - i] = (K[c[i]] \ {c[i + 1]}) \cup {n2 - i}
  /\ K2[n2 + 1 - Len(c)] =
       (K[c[Len(c)]] \ remove) \cup (IF o = 1 THEN {n + 1} ELSE {})
  /\ remove \subseteq K[c[Len(c)]]

\* z is a child of the copy of block i of the path.
NewKid(K, n, n2, c, remove, o, i, z) ==
  \/ /\ z \in K[c[i]]
     /\ i < Len(c) => z # c[i + 1]
     /\ i = Len(c) => z \notin remove
  \/ i < Len(c) /\ z = n2 - i
  \/ i = Len(c) /\ o = 1 /\ z = n + 1

\* The children of a new block, and which block is the copy of which.
LEMMA RebuiltKids ==
  ASSUME NEW n, NEW K, Older(K, n), NEW c, NEW root, Chain(K, c, root),
         NEW n2, NEW K2, NEW remove, NEW o, Rebuilt(K, n, K2, n2, c, remove, o)
  PROVE  /\ n \in Nat /\ n2 \in Nat /\ n < n2 /\ n2 - Len(c) >= n
         /\ \A y \in 1 .. n2 : \/ y \in 1 .. n
                               \/ o = 1 /\ y = n + 1 /\ K2[y] = {}
                               \/ \E i \in 1 .. Len(c) : y = n2 + 1 - i
         /\ \A i \in 1 .. Len(c) :
              /\ n2 + 1 - i \in 1 .. n2 /\ n2 + 1 - i > n
              /\ \A z \in K2[n2 + 1 - i] : NewKid(K, n, n2, c, remove, o, i, z)
         /\ o = 1 => n + 1 < n2 + 1 - Len(c)
<1> DEFINE k == Len(c)
<1>1. k \in Nat /\ k >= 1 /\ n \in Nat
  BY ChainLen DEF Older
<1>2. o \in {0, 1} /\ n2 = n + o + k
  BY DEF Rebuilt
<1>3. n2 \in Nat /\ n < n2 /\ n2 - k >= n /\ (o = 1 => n + 1 < n2 + 1 - k)
  BY <1>1, <1>2
<1>4. \A i \in 1 .. k : n2 + 1 - i \in 1 .. n2 /\ n2 + 1 - i > n
  BY <1>1, <1>2
<1>5. ASSUME NEW y \in 1 .. n2
      PROVE  \/ y \in 1 .. n
             \/ o = 1 /\ y = n + 1 /\ K2[y] = {}
             \/ \E i \in 1 .. k : y = n2 + 1 - i
  <2>1. CASE y \in 1 .. n
    BY <2>1
  <2>2. CASE o = 1 /\ y = n + 1
    BY <2>2 DEF Rebuilt
  <2>3. CASE y \notin 1 .. n /\ ~ (o = 1 /\ y = n + 1)
    <3>1. n2 + 1 - y \in 1 .. k /\ y = n2 + 1 - (n2 + 1 - y)
      BY <1>1, <1>2, <2>3
    <3> QED BY <3>1
  <2> QED BY <2>1, <2>2, <2>3
<1>6. ASSUME NEW i \in 1 .. k, NEW z \in K2[n2 + 1 - i]
      PROVE  NewKid(K, n, n2, c, remove, o, i, z)
  <2>1. CASE i = k
    BY <1>1, <2>1 DEF Rebuilt, NewKid
  <2>2. CASE i # k
    <3>1. i \in 1 .. k - 1 /\ i < k
      BY <1>1, <2>2
    <3>2. \A j \in 1 .. k - 1 :
            K2[n2 + 1 - j] = (K[c[j]] \ {c[j + 1]}) \cup {n2 - j}
      BY DEF Rebuilt
    <3>3. \/ z \in K[c[i]] /\ z # c[i + 1]
          \/ z = n2 - i
      BY <1>6, <3>1, <3>2
    <3> HIDE DEF k
    <3>4. i < Len(c) /\ i # Len(c)
      BY <3>1, <2>2 DEF k
    <3> QED BY <3>3, <3>4, Zenon DEF NewKid
  <2> QED BY <2>1, <2>2
<1> QED BY <1>1, <1>3, <1>4, <1>5, <1>6

\* New blocks name older blocks.
LEMMA RebuiltOlder ==
  ASSUME NEW n, NEW K, Older(K, n), NEW c, NEW root, Chain(K, c, root),
         NEW n2, NEW K2, NEW remove, NEW o, Rebuilt(K, n, K2, n2, c, remove, o)
  PROVE  Older(K2, n2)
<1> DEFINE k == Len(c)
<1>1. /\ n \in Nat /\ n2 \in Nat /\ n < n2
      /\ \A y \in 1 .. n2 : \/ y \in 1 .. n
                            \/ o = 1 /\ y = n + 1 /\ K2[y] = {}
                            \/ \E i \in 1 .. k : y = n2 + 1 - i
      /\ \A i \in 1 .. k :
           /\ n2 + 1 - i \in 1 .. n2 /\ n2 + 1 - i > n
           /\ \A z \in K2[n2 + 1 - i] : NewKid(K, n, n2, c, remove, o, i, z)
      /\ o = 1 => n + 1 < n2 + 1 - k
  BY RebuiltKids
<1>2. K2 \in [1 .. n2 -> SUBSET Nat] /\ \A x \in 1 .. n : K2[x] = K[x]
  BY DEF Rebuilt
<1>3. \A i \in 1 .. k : c[i] \in 1 .. n
  BY ChainIn
<1>4. \A x \in 1 .. n : \A z \in K[x] : z \in 1 .. n /\ z < x
  BY DEF Older
<1>5. k \in Nat
  BY ChainLen
<1> HIDE DEF k
<1>6. ASSUME NEW y \in 1 .. n2, NEW z \in K2[y] PROVE z \in 1 .. n2 /\ z < y
  <2>1. CASE y \in 1 .. n
    BY <1>1, <1>2, <1>4, <1>6, <2>1
  <2>2. ASSUME NEW i \in 1 .. k, y = n2 + 1 - i PROVE z \in 1 .. n2 /\ z < y
    <3>1. y > n
      BY <1>1, <2>2
    <3>2. CASE z \in K[c[i]]
      <4>1. z \in 1 .. n
        BY <1>3, <1>4, <3>2
      <4> QED BY <1>1, <3>1, <4>1
    <3>3. CASE i < k /\ z = n2 - i
      <4>1. n2 + 1 - (i + 1) \in 1 .. n2
        <5>1. i + 1 \in 1 .. k
          BY <1>5, <3>3
        <5> QED BY <1>1, <5>1
      <4> QED BY <1>1, <1>5, <2>2, <3>3, <4>1
    <3>4. CASE i = k /\ o = 1 /\ z = n + 1
      BY <1>1, <2>2, <3>4
    <3> QED BY <1>1, <1>6, <2>2, <3>2, <3>3, <3>4 DEF NewKid, k
  <2> QED BY <1>1, <1>6, <2>1, <2>2
<1> QED BY <1>1, <1>2, <1>6 DEF Older

\* All new blocks are below the new root.
LEMMA RebuiltIn ==
  ASSUME NEW n, NEW K, Older(K, n), NEW c, NEW root, Chain(K, c, root),
         NEW n2, NEW K2, NEW remove, NEW o, Rebuilt(K, n, K2, n2, c, remove, o)
  PROVE  n + 1 .. n2 \subseteq Reach(K2, n2)
<1> DEFINE k == Len(c)
           S == {i \in 1 .. k : n2 + 1 - i \notin Reach(K2, n2)}
<1>1. /\ n \in Nat /\ n2 \in Nat /\ n < n2 /\ k \in Nat /\ k >= 1
      /\ \A y \in 1 .. n2 : \/ y \in 1 .. n
                            \/ o = 1 /\ y = n + 1 /\ K2[y] = {}
                            \/ \E i \in 1 .. k : y = n2 + 1 - i
  BY RebuiltKids, ChainLen
<1>2. Older(K2, n2)
  BY RebuiltOlder
<1>3. n2 \in 1 .. n2
  BY <1>1
<1>4. /\ n2 \in Reach(K2, n2)
      /\ \A x \in Reach(K2, n2) : K2[x] \subseteq Reach(K2, n2)
  BY <1>2, <1>3, ReachClosed
<1>5. /\ \A i \in 1 .. k - 1 : n2 - i \in K2[n2 + 1 - i]
      /\ o = 1 => n + 1 \in K2[n2 + 1 - k]
  BY DEF Rebuilt
<1> HIDE DEF k
<1>6. ASSUME S # {} PROVE FALSE
  <2>1. S \subseteq Nat
    BY <1>1
  <2>2. PICK m \in S : \A x \in S : m <= x
    <3> HIDE DEF S
    <3> QED BY <1>6, <2>1, LeastNumber
  <2>3. m \in 1 .. k /\ n2 + 1 - m \notin Reach(K2, n2)
    OBVIOUS
  <2>4. m # 1
    BY <1>1, <1>4, <2>3
  <2>5. /\ m - 1 \in 1 .. k - 1 /\ m - 1 \in 1 .. k /\ ~ (m <= m - 1)
        /\ n2 - (m - 1) = n2 + 1 - m
    BY <1>1, <2>3, <2>4
  <2>6. m - 1 \notin S
    <3> HIDE DEF S
    <3> QED BY <2>2, <2>5
  <2>7. n2 + 1 - (m - 1) \in Reach(K2, n2)
    BY <2>5, <2>6
  <2>8. n2 - (m - 1) \in K2[n2 + 1 - (m - 1)]
    BY <1>5, <2>5
  <2>9. n2 - (m - 1) \in Reach(K2, n2)
    BY <1>4, <2>7, <2>8
  <2> QED BY <2>3, <2>5, <2>9
<1>7. \A i \in 1 .. k : n2 + 1 - i \in Reach(K2, n2)
  BY <1>6
<1>8. o = 1 => n + 1 \in Reach(K2, n2)
  <2>1. k \in 1 .. k
    BY <1>1
  <2> QED BY <1>4, <1>5, <1>7, <2>1
<1>9. \A y \in n + 1 .. n2 : y \in 1 .. n2 /\ y \notin 1 .. n
  BY <1>1
<1> QED BY <1>1, <1>7, <1>8, <1>9

\* What the children remove have below them.
Removed(K, remove) == UNION {Reach(K, x) : x \in remove}

\* Below the new root are new blocks and blocks of the old tree.
LEMMA RebuiltFrom ==
  ASSUME NEW n, NEW K, Older(K, n), NEW c, NEW root, Chain(K, c, root),
         NEW n2, NEW K2, NEW remove, NEW o, Rebuilt(K, n, K2, n2, c, remove, o)
  PROVE  Reach(K2, n2) \subseteq (n + 1 .. n2) \cup Reach(K, root)
<1> DEFINE S == (n + 1 .. n2) \cup Reach(K, root)
<1>1. /\ n \in Nat /\ n2 \in Nat /\ n < n2
      /\ \A y \in 1 .. n2 : \/ y \in 1 .. n
                            \/ o = 1 /\ y = n + 1 /\ K2[y] = {}
                            \/ \E i \in 1 .. Len(c) : y = n2 + 1 - i
      /\ \A i \in 1 .. Len(c) :
           /\ n2 + 1 - i \in 1 .. n2 /\ n2 + 1 - i > n
           /\ \A z \in K2[n2 + 1 - i] : NewKid(K, n, n2, c, remove, o, i, z)
  BY RebuiltKids
<1>2. Older(K2, n2) /\ root \in 1 .. n /\ Len(c) \in Nat
  BY RebuiltOlder, ChainLen
<1>3. \A i \in 1 .. Len(c) : c[i] \in Reach(K, root)
  BY ChainIn
<1>4. /\ Reach(K, root) \subseteq 1 .. n
      /\ \A x \in Reach(K, root) : K[x] \subseteq Reach(K, root)
  BY <1>2, ReachClosed
<1>5. ASSUME NEW y \in S, NEW z \in K2[y] PROVE z \in S
  <2>1. CASE y \in Reach(K, root)
    <3>1. K2[y] = K[y]
      BY <1>4, <2>1 DEF Rebuilt
    <3> QED BY <1>4, <1>5, <2>1, <3>1
  <2>2. CASE y \in n + 1 .. n2
    <3>1. y \in 1 .. n2 /\ y \notin 1 .. n
      BY <1>1, <2>2
    <3>2. PICK i \in 1 .. Len(c) : y = n2 + 1 - i
      BY <1>1, <1>5, <3>1
    <3>3. NewKid(K, n, n2, c, remove, o, i, z)
      BY <1>1, <1>5, <3>2
    <3>4. CASE z \in K[c[i]]
      BY <1>3, <1>4, <3>4
    <3>5. CASE i < Len(c) /\ z = n2 - i
      <4>1. i + 1 \in 1 .. Len(c) /\ n2 + 1 - (i + 1) = n2 - i
        BY <1>1, <1>2, <3>5
      <4>2. z \in 1 .. n2 /\ z > n
        BY <1>1, <3>5, <4>1
      <4> QED BY <1>1, <4>2
    <3>6. CASE z = n + 1
      BY <1>1, <3>6
    <3> QED BY <3>3, <3>4, <3>5, <3>6 DEF NewKid
  <2> QED BY <2>1, <2>2
<1>6. S \subseteq 1 .. n2 /\ n2 \in S /\ n2 \in 1 .. n2
  BY <1>1, <1>4
<1> HIDE DEF S
<1>7. Reach(K2, n2) \subseteq S
  BY <1>2, <1>5, <1>6, ReachLeast
<1> QED BY <1>7 DEF S

\* What the old tree had is in the new one, replaced or removed.
LEMMA RebuiltKeeps ==
  ASSUME NEW n, NEW K, Older(K, n), NEW c, NEW root, Chain(K, c, root),
         NEW n2, NEW K2, NEW remove, NEW o, Rebuilt(K, n, K2, n2, c, remove, o)
  PROVE  Reach(K, root) \subseteq Reach(K2, n2) \cup ToSet(c) \cup Removed(K, remove)
<1> DEFINE k == Len(c)
           S == (Reach(K2, n2) \cap 1 .. n) \cup ToSet(c) \cup Removed(K, remove)
<1>1. /\ n \in Nat /\ n2 \in Nat /\ n < n2
      /\ \A i \in 1 .. k : n2 + 1 - i \in 1 .. n2 /\ n2 + 1 - i > n
  BY RebuiltKids
<1>2. /\ Older(K2, n2) /\ root \in 1 .. n /\ k \in Nat /\ k >= 1
      /\ c[1] = root /\ DOMAIN c = 1 .. k
  BY RebuiltOlder, ChainLen
<1>3. ToSet(c) = {c[i] : i \in 1 .. k}
  BY <1>2 DEF ToSet
<1>4. \A i \in 1 .. k : c[i] \in 1 .. n
  BY ChainIn
<1>5. \A i \in 1 .. k : K2[n2 + 1 - i] \subseteq Reach(K2, n2)
  <2>1. n2 \in 1 .. n2
    BY <1>1
  <2>2. \A x \in Reach(K2, n2) : K2[x] \subseteq Reach(K2, n2)
    BY <1>2, <2>1, ReachClosed
  <2>3. n + 1 .. n2 \subseteq Reach(K2, n2)
    BY RebuiltIn
  <2>4. \A i \in 1 .. k : n2 + 1 - i \in n + 1 .. n2
    BY <1>1
  <2> QED BY <2>2, <2>3, <2>4
<1>6. /\ \A x \in 1 .. n : K2[x] = K[x] /\ K[x] \subseteq 1 .. n
      /\ \A i \in 1 .. k - 1 : K[c[i]] \subseteq K2[n2 + 1 - i] \cup {c[i + 1]}
      /\ K[c[k]] \subseteq K2[n2 + 1 - k] \cup remove
      /\ remove \subseteq K[c[k]]
  BY DEF Rebuilt, Older
<1>7. k \in 1 .. k /\ remove \subseteq 1 .. n
  BY <1>2, <1>4, <1>6
<1>8. \A x \in remove : /\ x \in Reach(K, x) /\ Reach(K, x) \subseteq 1 .. n
                        /\ \A y \in Reach(K, x) : K[y] \subseteq Reach(K, x)
  BY <1>7, ReachClosed
<1> HIDE DEF k
<1>9. ASSUME NEW y \in S, NEW z \in K[y] PROVE z \in S
  <2>1. CASE y \in Reach(K2, n2) /\ y \in 1 .. n
    <3>1. n2 \in 1 .. n2
      BY <1>1
    <3>2. \A x \in Reach(K2, n2) : K2[x] \subseteq Reach(K2, n2)
      BY <1>2, <3>1, ReachClosed
    <3> QED BY <1>6, <1>9, <2>1, <3>2
  <2>2. CASE y \in Removed(K, remove)
    <3>1. PICK x \in remove : y \in Reach(K, x)
      BY <2>2 DEF Removed
    <3>2. z \in Reach(K, x)
      BY <1>8, <1>9, <3>1
    <3> QED BY <3>2 DEF Removed
  <2>3. CASE y \in ToSet(c)
    <3>1. PICK i \in 1 .. k : y = c[i]
      BY <1>3, <2>3
    <3>2. z \in 1 .. n
      BY <1>4, <1>6, <1>9, <3>1
    <3>3. CASE i = k
      <4>1. CASE z \in remove
        BY <1>8, <4>1 DEF Removed
      <4>2. CASE z \notin remove
        BY <1>5, <1>6, <1>7, <1>9, <3>1, <3>2, <3>3, <4>2
      <4> QED BY <4>1, <4>2
    <3>4. CASE i # k
      <4>1. i \in 1 .. k - 1 /\ i + 1 \in 1 .. k
        BY <1>2, <3>4
      <4>2. CASE z = c[i + 1]
        BY <1>3, <4>1, <4>2
      <4>3. CASE z # c[i + 1]
        BY <1>5, <1>6, <1>9, <3>1, <3>2, <4>1, <4>3
      <4> QED BY <4>2, <4>3
    <3> QED BY <3>3, <3>4
  <2> QED BY <2>1, <2>2, <2>3
<1>10. S \subseteq 1 .. n /\ root \in S
  <2>1. ToSet(c) \subseteq 1 .. n
    BY <1>3, <1>4
  <2>2. Removed(K, remove) \subseteq 1 .. n
    BY <1>8 DEF Removed
  <2>3. root \in ToSet(c)
    <3>1. 1 \in 1 .. k
      BY <1>2
    <3> QED BY <1>2, <1>3, <3>1
  <2> QED BY <2>1, <2>2, <2>3
<1> HIDE DEF S
<1>11. Reach(K, root) \subseteq S
  BY <1>2, <1>9, <1>10, ReachLeast
<1> QED BY <1>11 DEF S

\* In a tree the parent of a block of a path is the block before it.
LEMMA PathParent ==
  ASSUME NEW n, NEW K, Older(K, n), NEW c, NEW root, Chain(K, c, root),
         Tree(K, root), NEW y \in Reach(K, root), NEW j \in 1 .. Len(c), c[j] \in K[y]
  PROVE  j - 1 \in 1 .. Len(c) - 1 /\ j - 1 \in 1 .. Len(c) /\ y = c[j - 1]
<1> DEFINE k == Len(c)
<1>1. /\ k \in Nat /\ root \in 1 .. n /\ c[1] = root
      /\ \A i \in 1 .. k - 1 : c[i + 1] \in K[c[i]]
  BY ChainLen
<1>2. y \in 1 .. n /\ y <= root
  BY <1>1, ReachOlder
<1>3. c[j] < y /\ c[j] \in 1 .. n /\ n \in Nat
  BY <1>2 DEF Older
<1>4. j # 1
  BY <1>1, <1>2, <1>3
<1>5. j \in 1 .. k
  OBVIOUS
<1> HIDE DEF k
<1>6. j - 1 \in 1 .. k - 1 /\ j - 1 \in 1 .. k /\ (j - 1) + 1 = j
  BY <1>1, <1>4, <1>5
<1>7. c[j] \in K[c[j - 1]]
  BY <1>1, <1>6
<1>8. c[j - 1] \in Reach(K, root)
  BY <1>6, ChainIn DEF k
<1>9. y = c[j - 1]
  BY <1>7, <1>8 DEF Tree
<1> QED BY <1>6, <1>9 DEF k

\* And the parent of a block removed is removed or the end of the path.
LEMMA RemovedParent ==
  ASSUME NEW n, NEW K, Older(K, n), NEW c, NEW root, Chain(K, c, root),
         Tree(K, root), NEW remove, remove \subseteq K[c[Len(c)]],
         NEW y \in Reach(K, root), NEW z \in K[y], z \in Removed(K, remove)
  PROVE  \/ z \in remove /\ y = c[Len(c)]
         \/ y \in Removed(K, remove)
<1> DEFINE e == c[Len(c)]
<1>1. PICK x \in remove : z \in Reach(K, x)
  BY DEF Removed
<1>2. Len(c) \in 1 .. Len(c) /\ root \in 1 .. n
  BY ChainLen
<1>3. e \in Reach(K, root) /\ e \in 1 .. n
  BY <1>2, ChainIn
<1>4. x \in K[e] /\ x \in 1 .. n
  BY <1>1, <1>3 DEF Older
<1>5. x \in Reach(K, root)
  BY <1>2, <1>3, <1>4, ReachClosed
<1>6. CASE z = x
  BY <1>1, <1>3, <1>4, <1>6 DEF Tree
<1>7. CASE z # x
  <2>1. PICK w \in Reach(K, x) : z \in K[w]
    BY <1>1, <1>4, <1>7, ReachParent
  <2>2. w \in Reach(K, root)
    BY <1>2, <1>5, ReachTrans
  <2>3. w = y
    BY <2>1, <2>2 DEF Tree
  <2> QED BY <2>3, <1>1 DEF Removed
<1> QED BY <1>6, <1>7

\* The end of a path is not below what is removed from it, nor is what is above.
LEMMA PathNotRemoved ==
  ASSUME NEW n, NEW K, Older(K, n), NEW c, NEW root, Chain(K, c, root),
         NEW remove, remove \subseteq K[c[Len(c)]], NEW i \in 1 .. Len(c)
  PROVE  c[i] \notin Removed(K, remove)
<1> SUFFICES ASSUME NEW x \in remove, c[i] \in Reach(K, x) PROVE FALSE
  BY DEF Removed
<1> DEFINE e == c[Len(c)]
<1>1. Len(c) \in Nat /\ Len(c) \in 1 .. Len(c)
  BY ChainLen
<1>2. e \in 1 .. n /\ c[i] \in 1 .. n /\ n \in Nat
  BY <1>1, ChainIn DEF Older
<1>3. x \in 1 .. n /\ x < e
  BY <1>2 DEF Older
<1>4. c[i] <= x
  BY <1>3, ReachOlder
<1>5. i = Len(c) \/ i < Len(c)
  BY <1>1
<1>6. i < Len(c) => e < c[i]
  BY <1>1, ChainDown
<1> HIDE DEF e
<1>7. c[i] < e
  BY <1>2, <1>3, <1>4
<1> QED BY <1>2, <1>5, <1>6, <1>7 DEF e

\* In the new tree there is nothing of the path and of what is removed.
LEMMA RebuiltWithout ==
  ASSUME NEW n, NEW K, Older(K, n), NEW c, NEW root, Chain(K, c, root),
         NEW n2, NEW K2, NEW remove, NEW o, Rebuilt(K, n, K2, n2, c, remove, o),
         Tree(K, root)
  PROVE  Reach(K2, n2) \cap (ToSet(c) \cup Removed(K, remove)) = {}
<1> DEFINE k == Len(c)
           Out == ToSet(c) \cup Removed(K, remove)
           S == (n + 1 .. n2) \cup (Reach(K, root) \ Out)
<1>1. /\ n \in Nat /\ n2 \in Nat /\ n < n2
      /\ \A y \in 1 .. n2 : \/ y \in 1 .. n
                            \/ o = 1 /\ y = n + 1 /\ K2[y] = {}
                            \/ \E i \in 1 .. k : y = n2 + 1 - i
      /\ \A i \in 1 .. k :
           /\ n2 + 1 - i \in 1 .. n2 /\ n2 + 1 - i > n
           /\ \A z \in K2[n2 + 1 - i] : NewKid(K, n, n2, c, remove, o, i, z)
  BY RebuiltKids
<1>2. /\ Older(K2, n2) /\ root \in 1 .. n /\ k \in Nat /\ k >= 1
      /\ DOMAIN c = 1 .. k
  BY RebuiltOlder, ChainLen
<1>3. ToSet(c) = {c[i] : i \in 1 .. k}
  BY <1>2 DEF ToSet
<1>4. \A i \in 1 .. k : c[i] \in Reach(K, root) /\ c[i] \in 1 .. n
  BY ChainIn
<1>5. /\ Reach(K, root) \subseteq 1 .. n
      /\ \A x \in Reach(K, root) : K[x] \subseteq Reach(K, root)
  BY <1>2, ReachClosed
<1>6. remove \subseteq K[c[k]] /\ \A x \in 1 .. n : K2[x] = K[x]
  BY DEF Rebuilt
<1>7. ASSUME NEW y \in Reach(K, root), y \notin Out, NEW z \in K[y] PROVE z \notin Out
  <2>1. ASSUME NEW j \in 1 .. k, z = c[j] PROVE FALSE
    <3>1. j - 1 \in 1 .. k /\ y = c[j - 1]
      BY <1>7, <2>1, PathParent
    <3> QED BY <1>3, <1>7, <3>1
  <2>2. ASSUME z \in Removed(K, remove) PROVE FALSE
    <3>1. y = c[k] \/ y \in Removed(K, remove)
      BY <1>6, <1>7, <2>2, RemovedParent
    <3>2. k \in 1 .. k
      BY <1>2
    <3> QED BY <1>3, <1>7, <3>1, <3>2
  <2> QED BY <1>3, <2>1, <2>2
<1>8. ASSUME NEW i \in 1 .. k, NEW z \in K[c[i]],
             i < k => z # c[i + 1], i = k => z \notin remove
      PROVE  z \notin Out
  <2>1. ASSUME NEW j \in 1 .. k, z = c[j] PROVE FALSE
    <3>1. /\ j - 1 \in 1 .. k - 1 /\ j - 1 \in 1 .. k /\ c[i] = c[j - 1]
      BY <1>4, <1>8, <2>1, PathParent
    <3>2. i = j - 1
      BY <3>1, ChainOnce
    <3>3. i < k /\ i + 1 = j
      BY <1>2, <3>1, <3>2
    <3> QED BY <1>8, <2>1, <3>3
  <2>2. ASSUME z \in Removed(K, remove) PROVE FALSE
    <3>1. (z \in remove /\ c[i] = c[k]) \/ c[i] \in Removed(K, remove)
      BY <1>4, <1>6, <1>8, <2>2, RemovedParent
    <3>2. c[i] \notin Removed(K, remove)
      BY <1>6, PathNotRemoved
    <3>3. k \in 1 .. k
      BY <1>2
    <3>4. c[i] = c[k] => i = k
      BY <3>3, ChainOnce
    <3> QED BY <1>8, <3>1, <3>2, <3>4
  <2> QED BY <1>3, <2>1, <2>2
<1> HIDE DEF Out, k
<1>9. ASSUME NEW y \in S, NEW z \in K2[y] PROVE z \in S
  <2>1. CASE y \in Reach(K, root) \ Out
    <3>1. K2[y] = K[y]
      BY <1>5, <1>6, <2>1
    <3> QED BY <1>5, <1>7, <1>9, <2>1, <3>1
  <2>2. CASE y \in n + 1 .. n2
    <3>1. y \in 1 .. n2 /\ y \notin 1 .. n
      BY <1>1, <2>2
    <3>2. PICK i \in 1 .. k : y = n2 + 1 - i
      BY <1>1, <1>9, <3>1
    <3>3. NewKid(K, n, n2, c, remove, o, i, z)
      BY <1>1, <1>9, <3>2
    <3>4. CASE z \in K[c[i]] /\ (i < k => z # c[i + 1]) /\ (i = k => z \notin remove)
      BY <1>4, <1>5, <1>8, <3>4
    <3>5. CASE i < k /\ z = n2 - i
      <4>1. i + 1 \in 1 .. k /\ n2 + 1 - (i + 1) = n2 - i
        BY <1>1, <1>2, <3>5
      <4>2. z \in 1 .. n2 /\ z > n
        BY <1>1, <3>5, <4>1
      <4> QED BY <1>1, <4>2
    <3>6. CASE z = n + 1
      BY <1>1, <3>6
    <3> QED BY <3>3, <3>4, <3>5, <3>6 DEF NewKid, k
  <2> QED BY <2>1, <2>2
<1>10. S \subseteq 1 .. n2 /\ n2 \in S /\ n2 \in 1 .. n2
  BY <1>1, <1>5
<1>11. Out \subseteq 1 .. n
  <2>1. \A x \in remove : x \in 1 .. n
    <3>1. k \in 1 .. k
      BY <1>2
    <3>2. c[k] \in 1 .. n
      BY <1>4, <3>1
    <3> QED BY <1>6, <3>2 DEF Older
  <2>2. \A x \in remove : Reach(K, x) \subseteq 1 .. n
    BY <2>1, ReachClosed
  <2> QED BY <1>3, <1>4, <2>2 DEF Out, Removed
<1> HIDE DEF S
<1>12. Reach(K2, n2) \subseteq S
  BY <1>2, <1>9, <1>10, ReachLeast
<1>13. S \cap Out = {}
  BY <1>1, <1>11 DEF S
<1> QED BY <1>12, <1>13 DEF Out

\* The new tree is one.
LEMMA RebuiltTree ==
  ASSUME NEW n, NEW K, Older(K, n), NEW c, NEW root, Chain(K, c, root),
         NEW n2, NEW K2, NEW remove, NEW o, Rebuilt(K, n, K2, n2, c, remove, o),
         Tree(K, root)
  PROVE  Tree(K2, n2)
<1> DEFINE k == Len(c)
           Copy(i, z) == NewKid(K, n, n2, c, remove, o, i, z)
<1>1. /\ n \in Nat /\ n2 \in Nat /\ n < n2
      /\ \A y \in 1 .. n2 : \/ y \in 1 .. n
                            \/ o = 1 /\ y = n + 1 /\ K2[y] = {}
                            \/ \E i \in 1 .. k : y = n2 + 1 - i
      /\ \A i \in 1 .. k :
           /\ n2 + 1 - i \in 1 .. n2 /\ n2 + 1 - i > n
           /\ \A z \in K2[n2 + 1 - i] : Copy(i, z)
  BY RebuiltKids
<1>2. /\ Older(K2, n2) /\ root \in 1 .. n /\ k \in Nat /\ k >= 1
      /\ DOMAIN c = 1 .. k
  BY RebuiltOlder, ChainLen
<1>3. ToSet(c) = {c[i] : i \in 1 .. k}
  BY <1>2 DEF ToSet
<1>4. \A i \in 1 .. k : c[i] \in Reach(K, root) /\ c[i] \in 1 .. n
  BY ChainIn
<1>5. \A x \in 1 .. n : K2[x] = K[x] /\ \A z \in K[x] : z \in 1 .. n
  BY DEF Rebuilt, Older
<1>6. ASSUME NEW y \in Reach(K2, n2), NEW z \in K2[y]
      PROVE  \/ y \in Reach(K, root) /\ y \notin ToSet(c) /\ z \in K[y] /\ z \in 1 .. n
             \/ \E i \in 1 .. k : y = n2 + 1 - i /\ Copy(i, z)
  <2>1. n2 \in 1 .. n2
    BY <1>1
  <2>2. y \in 1 .. n2
    BY <1>2, <2>1, ReachClosed
  <2>3. CASE y \in 1 .. n
    <3>1. y \notin ToSet(c)
      BY RebuiltWithout
    <3>2. y \in (n + 1 .. n2) \cup Reach(K, root)
      BY RebuiltFrom
    <3>3. y \notin n + 1 .. n2
      BY <1>1, <2>3
    <3> QED BY <1>5, <1>6, <2>3, <3>1, <3>2, <3>3
  <2>4. CASE y \notin 1 .. n
    BY <1>1, <1>6, <2>2, <2>4
  <2> QED BY <2>3, <2>4
<1>7. \A i \in 1 .. k : \A z \in K2[n2 + 1 - i] :
        \/ z \in K[c[i]] /\ z \in 1 .. n
        \/ i < k /\ z = n2 - i /\ z > n + o
        \/ i = k /\ o = 1 /\ z = n + 1
  <2> SUFFICES ASSUME NEW i \in 1 .. k, NEW z \in K2[n2 + 1 - i]
               PROVE  \/ z \in K[c[i]] /\ z \in 1 .. n
                      \/ i < k /\ z = n2 - i /\ z > n + o
                      \/ i = k /\ o = 1 /\ z = n + 1
    OBVIOUS
  <2>1. Copy(i, z)
    BY <1>1
  <2>2. n2 = n + o + k /\ o \in {0, 1}
    BY DEF Rebuilt
  <2>3. i < k => n2 - i > n + o
    BY <1>1, <1>2, <2>2
  <2> QED BY <1>4, <1>5, <2>1, <2>3 DEF NewKid
<1>8. ASSUME NEW i \in 1 .. k, NEW z \in K2[n2 + 1 - i], z \in 1 .. n
      PROVE  z \in K[c[i]]
  <2>1. ~ (z > n + o) /\ z # n + 1
    <3>1. o \in {0, 1}
      BY DEF Rebuilt
    <3> QED BY <1>1, <1>8, <3>1
  <2> QED BY <1>7, <2>1
<1> HIDE DEF k, Copy
<1>9. ASSUME NEW x \in Reach(K2, n2), NEW y \in Reach(K2, n2), NEW z \in K2[x],
             z \in K2[y],
             x \in Reach(K, root), x \notin ToSet(c), z \in K[x], z \in 1 .. n
      PROVE  x = y
  <2>1. CASE y \in Reach(K, root) /\ z \in K[y]
    BY <1>9, <2>1 DEF Tree
  <2>2. ASSUME NEW i \in 1 .. k, y = n2 + 1 - i PROVE x = y
    <3>1. z \in K[c[i]]
      BY <1>8, <1>9, <2>2
    <3>2. x = c[i]
      BY <1>4, <1>9, <3>1 DEF Tree
    <3> QED BY <1>3, <1>9, <3>2
  <2> QED BY <1>6, <1>9, <2>1, <2>2
<1>10. ASSUME NEW i \in 1 .. k, NEW j \in 1 .. k,
              NEW z \in K2[n2 + 1 - i], z \in K2[n2 + 1 - j]
       PROVE  i = j
  <2>1. CASE z \in 1 .. n
    <3>1. z \in K[c[i]] /\ z \in K[c[j]]
      BY <1>8, <1>10, <2>1
    <3>2. c[i] = c[j]
      BY <1>4, <3>1 DEF Tree
    <3> QED BY <3>2, ChainOnce DEF k
  <2>2. CASE z \notin 1 .. n
    <3>1. /\ (i < k /\ z = n2 - i /\ z > n + o) \/ (i = k /\ o = 1 /\ z = n + 1)
          /\ (j < k /\ z = n2 - j /\ z > n + o) \/ (j = k /\ o = 1 /\ z = n + 1)
      BY <1>7, <1>10, <2>2
    <3> QED BY <1>1, <1>2, <3>1
  <2> QED BY <2>1, <2>2
<1>11. ASSUME NEW x \in Reach(K2, n2), NEW y \in Reach(K2, n2),
              NEW z \in K2[x], z \in K2[y]
       PROVE  x = y
  <2>1. CASE x \in Reach(K, root) /\ x \notin ToSet(c) /\ z \in K[x] /\ z \in 1 .. n
    BY <1>9, <1>11, <2>1
  <2>2. CASE y \in Reach(K, root) /\ y \notin ToSet(c) /\ z \in K[y] /\ z \in 1 .. n
    BY <1>9, <1>11, <2>2
  <2>3. CASE (\E i \in 1 .. k : x = n2 + 1 - i) /\ (\E j \in 1 .. k : y = n2 + 1 - j)
    BY <1>10, <1>11, <2>3
  <2> QED BY <1>6, <1>11, <2>1, <2>2, <2>3
<1> QED BY <1>11 DEF Tree

-----------------------------------------------------------------------------
(* Below and get_path *)

\* The children of every block.
Kids == [id \in DOMAIN made |-> made[id].kids]

\* Below is what can be reached.
LEMMA BelowReach ==
  ASSUME NEW n, Older(Kids, n), NEW root \in 1 .. n
  PROVE  Below(root) = Reach(Kids, root)
<1> DEFINE K == Kids
           Round(f) == [id \in DOMAIN made |->
                          {id} \cup UNION {f[kid] : kid \in made[id].kids}]
           below == CHOOSE f : f = Round(f)
           reach == [id \in DOMAIN made |-> Reach(K, id)]
<1>1. /\ DOMAIN made = 1 .. n /\ n \in Nat
      /\ \A id \in 1 .. n : made[id].kids = K[id]
  BY DEF Older, Kids
<1>2. \A id \in 1 .. n : \A kid \in K[id] : kid \in 1 .. n /\ kid < id
  BY DEF Older
<1>3. \A id \in 1 .. n : Reach(K, id) = {id} \cup UNION {Reach(K, kid) : kid \in K[id]}
  BY ReachKid
<1> HIDE DEF K
<1>4. reach = Round(reach)
  <2>1. \A id \in 1 .. n : {Reach(K, kid) : kid \in K[id]} = {reach[kid] : kid \in K[id]}
    BY <1>1, <1>2
  <2> QED BY <1>1, <1>3, <2>1
<1> HIDE DEF reach
<1>5. below = Round(below)
  <2> HIDE DEF Round
  <2> QED BY <1>4
<1>6. Below(root) = below[root]
  BY DEF Below
<1> HIDE DEF below
<1>7. \A id \in 1 .. n : below[id] = {id} \cup UNION {below[kid] : kid \in K[id]}
  BY <1>1, <1>5
<1> DEFINE S == {id \in 1 .. n : below[id] # Reach(K, id)}
<1>8. ASSUME S # {} PROVE FALSE
  <2>1. S \subseteq Nat
    BY <1>1
  <2>2. PICK m \in S : \A id \in S : m <= id
    <3> HIDE DEF S
    <3> QED BY <1>8, <2>1, LeastNumber
  <2>3. m \in 1 .. n /\ below[m] # Reach(K, m)
    OBVIOUS
  <2>4. \A kid \in K[m] : below[kid] = Reach(K, kid)
    <3> SUFFICES ASSUME NEW kid \in K[m] PROVE below[kid] = Reach(K, kid)
      OBVIOUS
    <3>1. kid \in 1 .. n /\ kid < m
      BY <1>2, <2>3
    <3>2. ~ (m <= kid)
      BY <1>1, <2>3, <3>1
    <3>3. kid \notin S
      <4> HIDE DEF S
      <4> QED BY <2>2, <3>2
    <3> QED BY <3>1, <3>3
  <2>5. {below[kid] : kid \in K[m]} = {Reach(K, kid) : kid \in K[m]}
    BY <2>4
  <2> QED BY <1>3, <1>7, <2>3, <2>5
<1> QED BY <1>6, <1>8 DEF K

\* A path with one more block.
LEMMA AppendChain ==
  ASSUME NEW n, NEW K, Older(K, n), NEW c, NEW root, Chain(K, c, root),
         NEW kid \in K[Last(c)]
  PROVE  /\ Chain(K, Append(c, kid), root)
         /\ Len(Append(c, kid)) = Len(c) + 1
<1>1. /\ Len(c) \in Nat /\ Len(c) >= 1 /\ root \in 1 .. n /\ c[1] = root
      /\ c \in Seq(Nat)
      /\ \A i \in 1 .. Len(c) - 1 : c[i + 1] \in K[c[i]]
  BY ChainLen
<1>2. Last(c) = c[Len(c)] /\ Len(c) \in 1 .. Len(c)
  BY <1>1 DEF Last
<1>3. Last(c) \in 1 .. n
  BY <1>2, ChainIn
<1>4. kid \in Nat
  BY <1>3 DEF Older
<1>5. /\ Append(c, kid) \in Seq(Nat) /\ Len(Append(c, kid)) = Len(c) + 1
      /\ \A i \in 1 .. Len(c) : Append(c, kid)[i] = c[i]
      /\ Append(c, kid)[Len(c) + 1] = kid
  BY <1>1, <1>4, AppendAt
<1> DEFINE d == Append(c, kid)
<1> HIDE DEF d
<1>6. d \in Seq(Nat) /\ Len(d) = Len(c) + 1
      /\ (\A i \in 1 .. Len(c) : d[i] = c[i]) /\ d[Len(c) + 1] = kid
  BY <1>5 DEF d
<1>7. d # <<>>
  BY <1>1, <1>6
<1>8. d[1] = root
  <2>1. 1 \in 1 .. Len(c)
    BY <1>1
  <2> QED BY <1>1, <1>6, <2>1
<1>9. \A i \in 1 .. Len(d) - 1 : d[i + 1] \in K[d[i]]
  <2> SUFFICES ASSUME NEW i \in 1 .. Len(c) PROVE d[i + 1] \in K[d[i]]
    BY <1>1, <1>6
  <2>1. CASE i = Len(c)
    BY <1>2, <1>6, <2>1
  <2>2. CASE i # Len(c)
    <3>1. i \in 1 .. Len(c) - 1 /\ i + 1 \in 1 .. Len(c)
      BY <1>1, <2>2
    <3> QED BY <1>1, <1>6, <3>1
  <2> QED BY <2>1, <2>2
<1>10. root \in DOMAIN K
  BY DEF Chain
<1>11. Chain(K, d, root)
  BY <1>6, <1>7, <1>8, <1>9, <1>10 DEF Chain
<1> QED BY <1>6, <1>11 DEF d

\* One name of get_path.
WalkOn(W, name, n) ==
  UNION {IF Len(blocks) < n \/ get_path_part(blocks, name) = {}
         THEN {blocks} ELSE get_path_part(blocks, name) : blocks \in W}

\* The walk over the first m names.
IsWalk(f, m, root, path) ==
  /\ f = [k \in 0 .. m |-> f[k]]
  /\ f[0] = {<<root>>}
  /\ \A k \in 1 .. m : f[k] = WalkOn(f[k - 1], path[k], k)

LEMMA WalksExist ==
  ASSUME NEW root, NEW path, NEW N \in Nat
  PROVE  \E f : IsWalk(f, N, root, path)
<1> DEFINE S == {m \in 0 .. N : ~ \E f : IsWalk(f, m, root, path)}
<1>1. ASSUME S # {} PROVE FALSE
  <2>1. S \subseteq Nat
    OBVIOUS
  <2>2. PICK m \in S : \A k \in S : m <= k
    <3> HIDE DEF S
    <3> QED BY <1>1, <2>1, LeastNumber
  <2>3. m \in 0 .. N /\ m \in Nat /\ ~ \E f : IsWalk(f, m, root, path)
    OBVIOUS
  <2>4. m # 0
    <3> DEFINE zero == [k \in 0 .. 0 |-> {<<root>>}]
    <3>1. zero = [k \in 0 .. 0 |-> zero[k]] /\ zero[0] = {<<root>>}
      OBVIOUS
    <3>2. \A k \in 1 .. 0 : FALSE
      OBVIOUS
    <3> HIDE DEF zero
    <3>3. IsWalk(zero, 0, root, path)
      BY <3>1, <3>2 DEF IsWalk
    <3> QED BY <2>3, <3>3
  <2>5. m - 1 \in 0 .. N /\ m - 1 \notin S
    <3> HIDE DEF S
    <3>1. m - 1 \in 0 .. N /\ ~ (m <= m - 1)
      BY <2>3, <2>4
    <3> QED BY <2>2, <3>1
  <2>6. PICK f : IsWalk(f, m - 1, root, path)
    BY <2>5
  <2> DEFINE next == WalkOn(f[m - 1], path[m], m)
             g == [k \in 0 .. m |-> IF k = m THEN next ELSE f[k]]
  <2> HIDE DEF next
  <2>7. /\ f[0] = {<<root>>}
        /\ \A k \in 1 .. m - 1 : f[k] = WalkOn(f[k - 1], path[k], k)
    BY <2>6 DEF IsWalk
  <2>8. g = [k \in 0 .. m |-> g[k]] /\ g[0] = {<<root>>} /\ g[m] = next
    BY <2>3, <2>4, <2>7
  <2>9. ASSUME NEW k \in 1 .. m PROVE g[k] = WalkOn(g[k - 1], path[k], k)
    <3>1. k - 1 \in 0 .. m /\ k - 1 # m /\ k \in 0 .. m
      BY <2>3
    <3>2. g[k - 1] = f[k - 1]
      BY <3>1
    <3>3. CASE k = m
      BY <2>8, <3>2, <3>3 DEF next
    <3>4. CASE k # m
      <4>1. k \in 1 .. m - 1
        BY <2>3, <3>4
      <4>2. g[k] = f[k]
        BY <3>1, <3>4
      <4> QED BY <2>7, <3>2, <4>1, <4>2
    <3> QED BY <3>3, <3>4
  <2>10. IsWalk(g, m, root, path)
    <3> HIDE DEF g
    <3> QED BY <2>8, <2>9 DEF IsWalk
  <2> QED BY <2>3, <2>10
<1>2. N \in 0 .. N
  OBVIOUS
<1> QED BY <1>1, <1>2

\* get_path goes name by name.
LEMMA GetPathWalk ==
  ASSUME NEW root, NEW path, Len(path) \in Nat
  PROVE  \E walk : /\ walk[0] = {<<root>>}
                   /\ \A k \in 1 .. Len(path) :
                        walk[k] = WalkOn(walk[k - 1], path[k], k)
                   /\ get_path(root, path) = walk[Len(path)]
<1> DEFINE N == Len(path)
           Round(f) == [m \in 0 .. N |->
             IF m = 0 THEN {<<root>>}
             ELSE UNION {IF Len(b) < m \/ get_path_part(b, path[m]) = {}
                         THEN {b} ELSE get_path_part(b, path[m]) : b \in f[m - 1]}]
           walk == CHOOSE f : f = Round(f)
<1>1. get_path(root, path) = walk[N]
  BY DEF get_path
<1>2. PICK f : IsWalk(f, N, root, path)
  BY WalksExist
<1>3. f = Round(f)
  <2>1. /\ f = [k \in 0 .. N |-> f[k]] /\ f[0] = {<<root>>}
        /\ \A k \in 1 .. N : f[k] = WalkOn(f[k - 1], path[k], k)
    BY <1>2 DEF IsWalk
  <2>2. \A k \in 0 .. N : k # 0 => k \in 1 .. N
    OBVIOUS
  <2> QED BY <2>1, <2>2 DEF WalkOn
<1>4. walk = Round(walk)
  <2> HIDE DEF Round
  <2> QED BY <1>3
<1> HIDE DEF walk
<1>5. /\ walk[0] = {<<root>>}
      /\ \A k \in 1 .. N : walk[k] = WalkOn(walk[k - 1], path[k], k)
  <2>1. 0 \in 0 .. N /\ \A k \in 1 .. N : k \in 0 .. N /\ k # 0
    OBVIOUS
  <2> QED BY <1>4, <2>1 DEF WalkOn
<1> QED BY <1>1, <1>5

\* get_path finds a path of the tree it looks in.
LEMMA GetPathChain ==
  ASSUME NEW n, Older(Kids, n), NEW root \in 1 .. n, NEW path, Len(path) \in Nat,
         NEW blocks \in get_path(root, path)
  PROVE  Chain(Kids, blocks, root)
<1> DEFINE N == Len(path)
<1>1. PICK walk : /\ walk[0] = {<<root>>}
                  /\ \A k \in 1 .. N : walk[k] = WalkOn(walk[k - 1], path[k], k)
                  /\ get_path(root, path) = walk[N]
  BY GetPathWalk
<1>5. /\ walk[0] = {<<root>>}
      /\ \A k \in 1 .. N : walk[k] = WalkOn(walk[k - 1], path[k], k)
  BY <1>1
<1>6. DOMAIN made = 1 .. n /\ n \in Nat /\ \A id \in 1 .. n : made[id].kids = Kids[id]
  BY DEF Older, Kids
<1> HIDE DEF N
<1>7. N \in Nat
  BY DEF N
<1> DEFINE S == {m \in 0 .. N : \E b \in walk[m] : ~ Chain(Kids, b, root)}
<1>8. ASSUME S # {} PROVE FALSE
  <2>1. S \subseteq Nat
    BY <1>7
  <2>2. PICK m \in S : \A k \in S : m <= k
    <3> HIDE DEF S
    <3> QED BY <1>8, <2>1, LeastNumber
  <2>3. PICK b \in walk[m] : ~ Chain(Kids, b, root)
    OBVIOUS
  <2>4. m \in 0 .. N
    OBVIOUS
  <2>5. m # 0
    <3>1. <<root>> \in Seq(Nat) /\ Len(<<root>>) = 1 /\ <<root>>[1] = root
          /\ <<root>> # <<>>
      BY <1>6
    <3>2. \A i \in 1 .. 1 - 1 : FALSE
      OBVIOUS
    <3>3. Chain(Kids, <<root>>, root)
      BY <1>6, <3>1, <3>2 DEF Chain, Kids
    <3> QED BY <1>5, <2>3, <3>3
  <2>6. m \in 1 .. N /\ m - 1 \in 0 .. N /\ ~ (m <= m - 1)
    BY <1>7, <2>4, <2>5
  <2>7. m - 1 \notin S
    <3> HIDE DEF S
    <3> QED BY <2>2, <2>6
  <2>8. \A a \in walk[m - 1] : Chain(Kids, a, root)
    BY <2>6, <2>7
  <2> HIDE DEF S
  <2>9. b \in WalkOn(walk[m - 1], path[m], m)
    BY <1>5, <2>3, <2>6
  <2>10. PICK a \in walk[m - 1] : b = a \/ b \in get_path_part(a, path[m])
    BY <2>9 DEF WalkOn
  <2>11. Chain(Kids, a, root)
    BY <2>8
  <2>12. ASSUME b \in get_path_part(a, path[m]) PROVE FALSE
    <3>1. Last(a) \in 1 .. n
      <4>1. Len(a) \in 1 .. Len(a)
        BY <2>11, ChainLen
      <4> QED BY <2>11, <4>1, ChainIn DEF Last
    <3>2. PICK kid \in made[Last(a)].kids : b = Append(a, kid)
      BY <2>12 DEF get_path_part
    <3>3. kid \in Kids[Last(a)]
      BY <1>6, <3>1
    <3> QED BY <2>3, <2>11, <3>2, <3>3, AppendChain
  <2> QED BY <2>3, <2>10, <2>11, <2>12
<1>9. N \in 0 .. N
  BY <1>7
<1> QED BY <1>1, <1>8, <1>9

-----------------------------------------------------------------------------
(* Types *)

Kinds == {"dir", "file", "contents"}
Blocks == [kind : Kinds, name : Names \cup {"", "/"}, kids : SUBSET Nat,
           data : Seq(Values \cup {"old"})]

Threading ==
  [pc : PCs, op : {"none"} \cup Changes \cup Reads, path : Seq(Names),
   value : Seq(Values), resolve : Seq({"absent", "parent", "present", "again"}),
   root : Nat, blocks : Seq(Nat), new : Nat, sweep : SUBSET Nat]

\* The states in which a thread works on the blocks of a path.
Holding == {"fetch", "sweep", "build", "switch", "switching", "free"}

\* What an operation may have still to resolve.
Asked(op) ==
  IF op = "create"
  THEN {<<"absent", "absent", "parent">>, <<"absent", "parent">>, <<"parent">>, <<"again">>}
  ELSE IF op = "mkdir" THEN {<<"absent", "parent">>, <<"parent">>}
  ELSE {<<"present">>}

\* The operation a thread can be at a place for.
Fits(r) ==
  /\ r.op \in Changes => r.path # <<>> /\ Len(r.value) = 1
  /\ r.pc \in {"root", "walk"} => r.op \in Changes \cup Reads /\ r.resolve \in Asked(r.op)
  /\ r.pc = "fetch" => r.op \in {"readdir", "read", "write"}
  /\ r.pc \in {"build", "switch", "switching", "free"} => r.op \in Changes
  /\ r.pc = "sweep" => r.op \in {"write", "rmdir"} /\ r.sweep # {}
  /\ r.pc \notin {"sweep", "hung"} => r.sweep = {}

\* A thread's blocks are a path of made blocks; while it works on them they
\* start at the root it read.  rmdir removes something below the root.
Formed(K, r) ==
  /\ {r.root, r.new} \subseteq {0} \cup DOMAIN K
  /\ r.blocks # <<>> => Chain(K, r.blocks, r.blocks[1])
  /\ r.blocks # <<>> => r.blocks[1] = r.root \/ r.op = "create"
  /\ r.pc \in {"root", "walk"} /\ r.op # "create" => r.blocks = <<>>
  /\ r.pc = "walk" => r.root \in DOMAIN K
  /\ r.pc \in {"switch", "switching"} => r.new \in DOMAIN K
  /\ r.pc \in Holding => r.blocks # <<>> /\ r.blocks[1] = r.root
  /\ r.pc \in Holding /\ r.op = "rmdir" => Len(r.blocks) >= 2
  /\ r.sweep # {} => r.blocks # <<>> /\ r.sweep \subseteq Reach(K, Last(r.blocks))

Types ==
  /\ made \in Seq(Blocks)
  /\ Older(Kids, Len(made))
  /\ freed \subseteq DOMAIN made
  /\ root_block_ \in DOMAIN made
  /\ th \in [Threads -> Threading]
  /\ \A t \in Threads : Fits(th[t]) /\ Formed(Kids, th[t])
  /\ crashed \in BOOLEAN /\ stale \in BOOLEAN
  /\ calls \in 0 .. MaxCalls
  /\ beside \subseteq Threads

\* What holds of every thread and of the blocks.
LEMMA TypesFacts ==
  ASSUME Types
  PROVE  /\ Len(made) \in Nat /\ DOMAIN made = 1 .. Len(made)
         /\ DOMAIN Kids = 1 .. Len(made)
         /\ \A id \in 1 .. Len(made) : made[id] \in Blocks /\ Kids[id] = made[id].kids
         /\ root_block_ \in 1 .. Len(made) /\ freed \subseteq 1 .. Len(made)
         /\ \A t \in Threads : th[t] \in Threading
BY DEF Types, Kids

LEMMA EntryBlock ==
  ASSUME NEW kind \in {"dir", "file"}, NEW name \in Names \cup {"", "/"},
         NEW kids \in SUBSET Nat
  PROVE  Entry(kind, name, kids) \in Blocks /\ Entry(kind, name, kids).kids = kids
<1>1. <<>> \in Seq(Values \cup {"old"})
  <2> DEFINE D == Values \cup {"old"}
  <2> HIDE DEF D
  <2>1. <<>> \in Seq(D)
    BY EmptySeq
  <2> QED BY <2>1 DEF D
<1> QED BY <1>1 DEF Entry, Blocks, Kinds

LEMMA ContentsBlock ==
  ASSUME NEW value \in Values \cup {"old"}
  PROVE  Contents(value) \in Blocks /\ Contents(value).kids = {}
<1>1. <<value>> \in Seq(Values \cup {"old"})
  OBVIOUS
<1> QED BY <1>1 DEF Contents, Blocks, Kinds

\* The blocks at the start.
LEMMA InitBlocks ==
  ASSUME Init
  PROVE  /\ made \in Seq(Blocks) /\ Len(made) = 4 /\ DOMAIN made = 1 .. 4
         /\ Kids[1] = {} /\ Kids[2] = {1} /\ Kids[3] = {} /\ Kids[4] = {2, 3}
         /\ Older(Kids, 4)
<1> DEFINE b1 == Contents("old")
           b2 == Entry("file", FileName, {1})
           b3 == Entry("dir", DirName, {})
           b4 == Entry("dir", "/", {2, 3})
<1>1. /\ b1 \in Blocks /\ b2 \in Blocks /\ b3 \in Blocks /\ b4 \in Blocks
      /\ b1.kids = {} /\ b2.kids = {1} /\ b3.kids = {} /\ b4.kids = {2, 3}
  <2>1. {1} \in SUBSET Nat /\ {2, 3} \in SUBSET Nat /\ {} \in SUBSET Nat
    OBVIOUS
  <2>2. FileName \in Names /\ DirName \in Names
    BY StartAssumption
  <2> QED BY <2>1, <2>2, EntryBlock, ContentsBlock
<1> HIDE DEF b1, b2, b3, b4
<1>2. made = <<b1, b2, b3, b4>>
  BY DEF Init, b1, b2, b3, b4
<1>3. /\ made \in Seq(Blocks) /\ Len(made) = 4 /\ DOMAIN made = 1 .. 4
      /\ made[1] = b1 /\ made[2] = b2 /\ made[3] = b3 /\ made[4] = b4
  BY <1>1, <1>2
<1>4. \A id \in 1 .. 4 : id = 1 \/ id = 2 \/ id = 3 \/ id = 4
  OBVIOUS
<1>5. /\ DOMAIN Kids = 1 .. 4 /\ Kids = [id \in 1 .. 4 |-> Kids[id]]
      /\ Kids[1] = {} /\ Kids[2] = {1} /\ Kids[3] = {} /\ Kids[4] = {2, 3}
  BY <1>1, <1>3 DEF Kids
<1>6. Older(Kids, 4)
  <2>1. Kids \in [1 .. 4 -> SUBSET Nat]
    BY <1>4, <1>5
  <2>2. \A id \in 1 .. 4 : \A k \in Kids[id] : k \in 1 .. 4 /\ k < id
    BY <1>4, <1>5
  <2> QED BY <2>1, <2>2 DEF Older
<1> QED BY <1>3, <1>5, <1>6

LEMMA InitTypes == Init => Types
<1> SUFFICES ASSUME Init PROVE Types
  OBVIOUS
<1>1. made \in Seq(Blocks) /\ Len(made) = 4 /\ DOMAIN made = 1 .. 4
  BY InitBlocks
<1>2. Older(Kids, 4)
  BY InitBlocks
<1>3. Idle \in Threading
  BY DEF Idle, Threading, PCs
<1>4. Fits(Idle) /\ Formed(Kids, Idle)
  BY DEF Idle, Fits, Formed, Changes, Holding
<1>5. th = [t \in Threads |-> Idle]
  BY DEF Init
<1>6. th \in [Threads -> Threading] /\ \A t \in Threads : Fits(th[t]) /\ Formed(Kids, th[t])
  BY <1>3, <1>4, <1>5, Zenon
<1>7. calls \in 0 .. MaxCalls
  BY ThreadBounds DEF Init
<1>8. /\ freed = {} /\ root_block_ = 4 /\ beside = {}
       /\ crashed = FALSE /\ stale = FALSE
  BY DEF Init
<1>9. root_block_ \in DOMAIN made /\ freed \subseteq DOMAIN made /\ beside \subseteq Threads
  BY <1>1, <1>8
<1>10. crashed \in BOOLEAN /\ stale \in BOOLEAN
  BY <1>8, Zenon
<1> QED BY <1>1, <1>2, <1>6, <1>7, <1>9, <1>10, Zenon DEF Types

\* A step that changes one thread and no block.
LEMMA OneThread ==
  ASSUME Types, NEW t \in Threads, NEW r \in Threading, th' = [th EXCEPT ![t] = r]
  PROVE  /\ th'[t] = r /\ \A u \in Threads \ {t} : th'[u] = th[u]
         /\ th' \in [Threads -> Threading]
BY DEF Types

LEMMA SameBlocks ==
  ASSUME Types, NEW t \in Threads, NEW r \in Threading, th' = [th EXCEPT ![t] = r],
         made' = made, Fits(r), Formed(Kids, r)
  PROVE  /\ made' \in Seq(Blocks) /\ Older(Kids', Len(made'))
         /\ Kids' = Kids
         /\ th' \in [Threads -> Threading]
         /\ \A u \in Threads : Fits(th'[u]) /\ Formed(Kids', th'[u])
<1>1. Kids' = Kids
  BY DEF Kids
<1>2. /\ th'[t] = r /\ \A u \in Threads \ {t} : th'[u] = th[u]
      /\ th' \in [Threads -> Threading]
  BY OneThread
<1>3. made \in Seq(Blocks) /\ Older(Kids, Len(made))
      /\ \A u \in Threads : Fits(th[u]) /\ Formed(Kids, th[u])
  BY DEF Types
<1> QED BY <1>1, <1>2, <1>3, Zenon

-----------------------------------------------------------------------------
(* The steps of a thread *)

\* Thread t goes on with r.
Moves(t, r) ==
  /\ r \in Threading /\ th' = [th EXCEPT ![t] = r]
  /\ Fits(r) /\ Formed(Kids, r)

LEMMA CallStep ==
  ASSUME Types, NEW t \in Threads, Call(t)
  PROVE  Moves(t, th'[t]) /\ th[t].pc = "idle" /\ th'[t].pc = "root"
<1>1. PICK op \in Changes \cup Reads, path \in Paths, value \in Values :
        /\ op \in Changes => path # <<>>
        /\ th' = [th EXCEPT ![t] =
             [Idle EXCEPT !.pc = "root", !.op = op, !.path = path,
                          !.value = <<value>>, !.resolve = Resolves(op)]]
  BY DEF Call
<1> DEFINE r == [Idle EXCEPT !.pc = "root", !.op = op, !.path = path,
                             !.value = <<value>>, !.resolve = Resolves(op)]
<1>2. path \in Seq(Names)
  <2>1. PICK m \in 0 .. MaxDepth : path \in [1 .. m -> Names]
    BY DEF Paths, BoundedSeq, SeqOf
  <2>2. m \in Nat
    BY <2>1, ThreadBounds
  <2>3. Seq(Names) = UNION {[1 .. k -> Names] : k \in Nat}
    BY SeqDef, Zenon
  <2> QED BY <2>1, <2>2, <2>3, Zenon
<1>3. <<value>> \in Seq(Values) /\ Len(<<value>>) = 1
  OBVIOUS
<1>4. Resolves(op) \in Asked(op)
  BY DEF Resolves, Asked, Changes, Reads
<1>5. Resolves(op) \in Seq({"absent", "parent", "present", "again"})
  <2> DEFINE R == {"absent", "parent", "present", "again"}
  <2>1. "absent" \in R /\ "parent" \in R /\ "present" \in R
    OBVIOUS
  <2> HIDE DEF R
  <2>2. /\ <<"absent", "parent">> \in Seq(R) /\ <<"present">> \in Seq(R)
        /\ <<"absent", "absent", "parent">> \in Seq(R)
    BY <2>1
  <2>3. Resolves(op) \in Seq(R)
    BY <2>2 DEF Resolves
  <2> QED BY <2>3 DEF R
<1>6. /\ r.pc = "root" /\ r.op = op /\ r.path = path /\ r.value = <<value>>
      /\ r.resolve = Resolves(op) /\ r.root = 0 /\ r.blocks = <<>> /\ r.new = 0
      /\ r.sweep = {}
  BY DEF Idle
<1>7. <<>> \in Seq(Nat)
  BY EmptySeq
<1>8. r \in Threading
  BY <1>2, <1>3, <1>5, <1>7 DEF Idle, Threading, PCs
<1> HIDE DEF r
<1>9. Fits(r)
  BY <1>1, <1>3, <1>4, <1>6 DEF Fits
<1>10. Formed(Kids, r)
  BY <1>6 DEF Formed, Holding
<1>11. th' = [th EXCEPT ![t] = r]
  BY <1>1 DEF r
<1>12. th'[t] = r
  BY <1>8, <1>11, OneThread
<1>13. th[t].pc = "idle"
  BY DEF Call
<1> QED BY <1>6, <1>8, <1>9, <1>10, <1>11, <1>12, <1>13 DEF Moves

LEMMA RootStep ==
  ASSUME Types, NEW t \in Threads, Root(t)
  PROVE  /\ Moves(t, th'[t]) /\ th[t].pc = "root"
         /\ th'[t].pc = "walk" /\ th'[t].root = root_block_
<1> DEFINE r == th[t]
           q == [r EXCEPT !.pc = "walk", !.root = root_block_]
<1>1. r \in Threading /\ Fits(r) /\ Formed(Kids, r) /\ r.pc = "root"
  BY DEF Types, Root
<1>2. th' = [th EXCEPT ![t] = q]
  BY <1>1 DEF Root, Types
<1>3. root_block_ \in DOMAIN Kids /\ root_block_ \in Nat
  BY TypesFacts
<1> HIDE DEF r
<1>4. /\ q.pc = "walk" /\ q.op = r.op /\ q.path = r.path /\ q.value = r.value
      /\ q.resolve = r.resolve /\ q.root = root_block_ /\ q.blocks = r.blocks
      /\ q.new = r.new /\ q.sweep = r.sweep
  BY <1>1 DEF Threading
<1>5. q \in Threading
  BY <1>1, <1>3 DEF Threading, PCs
<1> HIDE DEF q
<1>6. Fits(q)
  BY <1>1, <1>4 DEF Fits
<1>7. Formed(Kids, q)
  BY <1>1, <1>3, <1>4 DEF Formed, Holding
<1>8. th'[t] = q
  BY <1>2, <1>5, OneThread
<1>9. th[t].pc = "root"
  BY <1>1 DEF r
<1> QED BY <1>2, <1>4, <1>5, <1>6, <1>7, <1>8, <1>9 DEF Moves

LEMMA IdleMoves ==
  ASSUME NEW K
  PROVE  /\ Idle \in Threading /\ Fits(Idle) /\ Formed(K, Idle)
         /\ Idle.pc = "idle" /\ Idle.op = "none" /\ Idle.sweep = {}
<1>1. /\ <<>> \in Seq(Nat) /\ <<>> \in Seq(Names) /\ <<>> \in Seq(Values)
      /\ <<>> \in Seq({"absent", "parent", "present", "again"})
  BY EmptySeq, Zenon
<1>2. Idle \in Threading
  BY <1>1 DEF Idle, Threading, PCs
<1> QED BY <1>2 DEF Idle, Fits, Formed, Changes, Holding

\* A thread that only gets to another place.
LEMMA GoesTo ==
  ASSUME NEW r \in Threading, NEW p \in PCs
  PROVE  LET q == [r EXCEPT !.pc = p] IN
         /\ q \in Threading
         /\ q.pc = p /\ q.op = r.op /\ q.path = r.path /\ q.value = r.value
         /\ q.resolve = r.resolve /\ q.root = r.root /\ q.blocks = r.blocks
         /\ q.new = r.new /\ q.sweep = r.sweep
<1> DEFINE q == [r EXCEPT !.pc = p]
<1>1. q \in Threading
  BY DEF Threading
<1>2. /\ q.pc = p /\ q.op = r.op /\ q.path = r.path /\ q.value = r.value
      /\ q.resolve = r.resolve /\ q.root = r.root /\ q.blocks = r.blocks
      /\ q.new = r.new /\ q.sweep = r.sweep
  BY DEF Threading
<1> QED BY <1>1, <1>2

\* A thread that waits for ever.
LEMMA HangMoves ==
  ASSUME Types, NEW t \in Threads, Hang(t)
  PROVE  /\ Moves(t, th'[t]) /\ th'[t].pc = "hung" /\ th'[t].sweep = th[t].sweep
         /\ th'[t].op = th[t].op /\ th'[t].blocks = th[t].blocks
         /\ made' = made /\ freed' = freed
<1> DEFINE r == th[t]
           q == [r EXCEPT !.pc = "hung"]
<1>1. r \in Threading /\ Fits(r) /\ Formed(Kids, r) /\ "hung" \in PCs
  BY DEF Types, PCs
<1>2. th' = [th EXCEPT ![t] = q]
  BY <1>1 DEF Hang, Types
<1> HIDE DEF r
<1>3. /\ q \in Threading
      /\ q.pc = "hung" /\ q.op = r.op /\ q.path = r.path /\ q.value = r.value
      /\ q.resolve = r.resolve /\ q.root = r.root /\ q.blocks = r.blocks
      /\ q.new = r.new /\ q.sweep = r.sweep
  BY <1>1, GoesTo
<1> HIDE DEF q
<1>4. Fits(q)
  BY <1>1, <1>3 DEF Fits
<1>5. Formed(Kids, q)
  BY <1>1, <1>3 DEF Formed, Holding
<1>6. th'[t] = q
  BY <1>2, <1>3, OneThread
<1> QED BY <1>2, <1>3, <1>4, <1>5, <1>6 DEF Moves, Hang, r

\* What an operation does with blocks it found.
Goes(op, p) ==
  \/ p = "fetch" /\ op \in {"readdir", "read", "write"}
  \/ p = "build" /\ op \in Changes

\* A thread that found the blocks it works on.
LEMMA HoldMoves ==
  ASSUME NEW K, NEW r \in Threading, Fits(r), Formed(K, r), r.pc = "walk",
         NEW blocks, Chain(K, blocks, r.root), NEW q, Goes(r.op, q.pc),
         r.op = "rmdir" => Len(blocks) >= 2,
         q.op = r.op, q.path = r.path, q.value = r.value, q.root = r.root,
         q.blocks = blocks, q.new = r.new, q.sweep = r.sweep
  PROVE  Fits(q) /\ Formed(K, q)
<1>1. blocks \in Seq(Nat) /\ blocks # <<>> /\ blocks[1] = r.root
  BY DEF Chain
<1>2. q.pc \in {"build", "fetch"}
  BY DEF Goes
<1>3. r.sweep = {}
  BY DEF Fits
<1>4. Fits(q)
  BY <1>2, <1>3 DEF Fits, Goes
<1>5. Formed(K, q)
  BY <1>1, <1>2, <1>3 DEF Formed, Holding
<1> QED BY <1>4, <1>5

\* The path a thread looks for.
LEMMA TargetLen ==
  ASSUME NEW r \in Threading, Fits(r), r.pc \in {"root", "walk"}
  PROVE  /\ Len(Target(r)) \in Nat
         /\ r.op = "rmdir" => Len(Target(r)) >= 1
<1>1. r.path \in Seq(Names)
  BY DEF Threading
<1>2. CASE Head(r.resolve) = "parent"
  <2>1. r.op # "rmdir"
    BY <1>2 DEF Fits, Asked
  <2>2. r.op \in Changes
    BY <1>2 DEF Fits, Asked, Changes
  <2>3. r.path # <<>>
    BY <2>2 DEF Fits
  <2>4. Len(Front(r.path)) \in Nat
    BY <1>1, <2>3 DEF Front
  <2> QED BY <1>2, <2>1, <2>4 DEF Target
<1>3. CASE Head(r.resolve) # "parent"
  <2>1. r.op = "rmdir" => r.path # <<>>
    BY DEF Fits, Changes
  <2> QED BY <1>1, <1>3, <2>1 DEF Target
<1> QED BY <1>2, <1>3

\* What is resolved, and what is left then.
LEMMA AskedFor ==
  ASSUME NEW r, Fits(r), r.pc \in {"root", "walk"}
  PROVE  \/ /\ Head(r.resolve) = "absent" /\ r.op \in {"mkdir", "create"}
            /\ Tail(r.resolve) \in Asked(r.op)
            /\ Tail(r.resolve) \in Seq({"absent", "parent", "present", "again"})
         \/ Head(r.resolve) = "parent" /\ r.op \in {"mkdir", "create"}
         \/ Head(r.resolve) = "again" /\ r.op = "create"
         \/ Head(r.resolve) = "present" /\ r.op \in {"rmdir", "write"} \cup Reads
<1> DEFINE R == {"absent", "parent", "present", "again"}
<1>1. "absent" \in R /\ "parent" \in R /\ "present" \in R
  OBVIOUS
<1> HIDE DEF R
<1>2. <<"parent">> \in Seq(R) /\ <<"absent", "parent">> \in Seq(R)
  BY <1>1
<1>3. /\ Head(<<"absent", "absent", "parent">>) = "absent"
      /\ Tail(<<"absent", "absent", "parent">>) = <<"absent", "parent">>
      /\ Head(<<"absent", "parent">>) = "absent"
      /\ Tail(<<"absent", "parent">>) = <<"parent">>
      /\ Head(<<"parent">>) = "parent" /\ Head(<<"again">>) = "again"
      /\ Head(<<"present">>) = "present"
  OBVIOUS
<1>4. r.op \in Changes \cup Reads /\ r.resolve \in Asked(r.op)
  BY DEF Fits
<1>5. CASE r.op = "create"
  <2>1. r.resolve \in {<<"absent", "absent", "parent">>, <<"absent", "parent">>,
                       <<"parent">>, <<"again">>}
    BY <1>4, <1>5, Zenon DEF Asked
  <2>2. /\ <<"absent", "parent">> \in Asked(r.op) /\ <<"parent">> \in Asked(r.op)
    BY <1>5, Zenon DEF Asked
  <2>3. \/ Head(r.resolve) \in {"parent", "again"}
        \/ /\ Head(r.resolve) = "absent"
           /\ Tail(r.resolve) \in {<<"absent", "parent">>, <<"parent">>}
    BY <1>3, <2>1, Zenon
  <2>4. Tail(r.resolve) \in {<<"absent", "parent">>, <<"parent">>} =>
          Tail(r.resolve) \in Asked(r.op) /\ Tail(r.resolve) \in Seq(R)
    BY <1>2, <2>2, Zenon
  <2> QED BY <1>5, <2>3, <2>4, Zenon DEF R
<1>6. CASE r.op = "mkdir"
  <2>1. r.resolve \in {<<"absent", "parent">>, <<"parent">>}
    BY <1>4, <1>6 DEF Asked
  <2>2. <<"parent">> \in Asked(r.op)
    BY <1>6 DEF Asked
  <2>3. \/ Head(r.resolve) = "parent"
        \/ Head(r.resolve) = "absent" /\ Tail(r.resolve) = <<"parent">>
    BY <1>3, <2>1, Zenon
  <2> QED BY <1>2, <1>6, <2>2, <2>3, Zenon DEF R
<1>7. CASE r.op \notin {"create", "mkdir"}
  <2>1. r.resolve = <<"present">>
    BY <1>4, <1>7 DEF Asked
  <2>2. r.op \in {"rmdir", "write"} \cup Reads
    BY <1>4, <1>7 DEF Changes
  <2> QED BY <1>3, <2>1, <2>2, Zenon
<1> QED BY <1>5, <1>6, <1>7

LEMMA FoundMoves ==
  ASSUME NEW K, NEW r \in Threading, Fits(r), Formed(K, r), r.pc = "walk",
         NEW blocks, Chain(K, blocks, r.root), Complete(blocks, Target(r))
  PROVE  LET q == Found(r, blocks) IN
         /\ q \in Threading /\ Fits(q) /\ Formed(K, q)
         /\ q.pc \in {"idle", "build", "fetch"}
         /\ q.pc \in {"build", "fetch"} => q.root = r.root
         /\ q.pc = "build" => q.op # "write"
<1> DEFINE q == Found(r, blocks)
           b == [r EXCEPT !.pc = "build", !.blocks = blocks]
           f == [r EXCEPT !.pc = "fetch", !.blocks = blocks]
<1>1. r.op = "rmdir" => Len(blocks) >= 2
  <2>1. Len(Target(r)) \in Nat /\ (r.op = "rmdir" => Len(Target(r)) >= 1)
    BY TargetLen
  <2>2. Len(blocks) = Len(Target(r)) + 1
    BY DEF Complete
  <2> QED BY <2>1, <2>2
<1>2. ASSUME r.op \in Changes
      PROVE  /\ b \in Threading /\ Fits(b) /\ Formed(K, b)
             /\ b.pc = "build" /\ b.op = r.op /\ b.root = r.root
  <2>1. Goes(r.op, "build")
    BY <1>2 DEF Goes
  <2>2. "build" \in PCs /\ blocks \in Seq(Nat)
    BY DEF PCs, Chain
  <2>3. b \in Threading
    BY <2>2 DEF Threading
  <2>4. /\ b.pc = "build" /\ b.op = r.op /\ b.path = r.path /\ b.value = r.value
        /\ b.resolve = r.resolve /\ b.root = r.root /\ b.blocks = blocks
        /\ b.new = r.new /\ b.sweep = r.sweep
    BY DEF Threading
  <2> HIDE DEF b
  <2>5. Goes(r.op, b.pc)
    BY <2>1, <2>4
  <2>6. Fits(b) /\ Formed(K, b)
    BY <1>1, <2>4, <2>5, HoldMoves
  <2> QED BY <2>3, <2>4, <2>6
<1>3. ASSUME r.op \in {"readdir", "read", "write"}
      PROVE  /\ f \in Threading /\ Fits(f) /\ Formed(K, f)
             /\ f.pc = "fetch" /\ f.op = r.op /\ f.root = r.root
  <2>1. Goes(r.op, "fetch")
    BY <1>3 DEF Goes
  <2>2. "fetch" \in PCs /\ blocks \in Seq(Nat)
    BY DEF PCs, Chain
  <2>3. f \in Threading
    BY <2>2 DEF Threading
  <2>4. /\ f.pc = "fetch" /\ f.op = r.op /\ f.path = r.path /\ f.value = r.value
        /\ f.resolve = r.resolve /\ f.root = r.root /\ f.blocks = blocks
        /\ f.new = r.new /\ f.sweep = r.sweep
    BY DEF Threading
  <2> HIDE DEF f
  <2>5. Goes(r.op, f.pc)
    BY <2>1, <2>4
  <2>6. Fits(f) /\ Formed(K, f)
    BY <1>1, <2>4, <2>5, HoldMoves
  <2> QED BY <2>3, <2>4, <2>6
<1>4. /\ Idle \in Threading /\ Fits(Idle) /\ Formed(K, Idle) /\ Idle.pc = "idle"
  BY IdleMoves
<1>5. \/ q = Idle
      \/ q = b /\ r.op \in Changes /\ r.op # "write"
      \/ q = f /\ r.op \in {"readdir", "read", "write"}
  <2>1. \/ Head(r.resolve) = "absent" /\ r.op \in {"mkdir", "create"}
        \/ Head(r.resolve) = "parent" /\ r.op \in {"mkdir", "create"}
        \/ Head(r.resolve) = "again" /\ r.op = "create"
        \/ Head(r.resolve) = "present" /\ r.op \in {"rmdir", "write"} \cup Reads
    BY AskedFor
  <2> HIDE DEF b, f
  <2>2. CASE Head(r.resolve) = "absent" /\ r.op \in {"mkdir", "create"}
    BY <2>2 DEF Found
  <2>3. CASE Head(r.resolve) = "again" /\ r.op = "create"
    BY <2>3 DEF Found
  <2>4. CASE Head(r.resolve) = "parent" /\ r.op \in {"mkdir", "create"}
    BY <2>4 DEF Found, Changes, b
  <2>5. CASE Head(r.resolve) = "present" /\ r.op = "getattr"
    BY <2>5 DEF Found
  <2>6. CASE Head(r.resolve) = "present" /\ r.op = "rmdir"
    BY <2>6 DEF Found, Changes, b
  <2>7. CASE Head(r.resolve) = "present" /\ r.op = "readdir"
    BY <2>7 DEF Found, f
  <2>8. CASE Head(r.resolve) = "present" /\ r.op \in {"read", "write"}
    BY <2>8 DEF Found, f
  <2> QED BY <2>1, <2>2, <2>3, <2>4, <2>5, <2>6, <2>7, <2>8 DEF Reads
<1> HIDE DEF q, b, f
<1>6. /\ q \in Threading /\ Fits(q) /\ Formed(K, q)
      /\ q.pc \in {"idle", "build", "fetch"}
      /\ q.pc \in {"build", "fetch"} => q.root = r.root
      /\ q.pc = "build" => q.op # "write"
  BY <1>2, <1>3, <1>4, <1>5
<1> QED BY <1>6 DEF q

LEMMA MissingMoves ==
  ASSUME NEW K, NEW r \in Threading, Fits(r), Formed(K, r), r.pc = "walk"
  PROVE  LET q == Missing(r) IN
         /\ q \in Threading /\ Fits(q) /\ Formed(K, q)
         /\ q.pc \in {"idle", "root", "aborted"}
<1> DEFINE q == Missing(r)
           again == [r EXCEPT !.pc = "root", !.resolve = Tail(@)]
           dead == [r EXCEPT !.pc = "aborted"]
<1>1. CASE Head(r.resolve) = "absent"
  <2>1. q = again
    BY <1>1 DEF Missing
  <2>2. /\ r.op \in {"mkdir", "create"} /\ Tail(r.resolve) \in Asked(r.op)
        /\ Tail(r.resolve) \in Seq({"absent", "parent", "present", "again"})
    <3>1. Head(r.resolve) \notin {"parent", "again", "present"}
      BY <1>1
    <3> QED BY <3>1, AskedFor
  <2>3. again \in Threading
    BY <2>2 DEF Threading, PCs
  <2>4. /\ again.pc = "root" /\ again.op = r.op /\ again.path = r.path
        /\ again.value = r.value
        /\ again.resolve = Tail(r.resolve) /\ again.root = r.root
        /\ again.blocks = r.blocks /\ again.new = r.new /\ again.sweep = r.sweep
    BY DEF Threading
  <2> HIDE DEF again, q
  <2>5. Fits(again)
    BY <2>2, <2>4 DEF Fits
  <2>6. Formed(K, again)
    BY <2>4 DEF Formed, Holding
  <2> QED BY <2>1, <2>3, <2>4, <2>5, <2>6 DEF q
<1>2. CASE Head(r.resolve) = "again"
  <2>1. q = dead
    BY <1>2 DEF Missing
  <2>2. "aborted" \in PCs
    BY DEF PCs
  <2>3. /\ dead \in Threading
        /\ dead.pc = "aborted" /\ dead.op = r.op /\ dead.path = r.path
        /\ dead.value = r.value
        /\ dead.resolve = r.resolve /\ dead.root = r.root
        /\ dead.blocks = r.blocks /\ dead.new = r.new /\ dead.sweep = r.sweep
    BY <2>2, GoesTo
  <2> HIDE DEF dead, q
  <2>4. Fits(dead)
    BY <2>3 DEF Fits
  <2>5. Formed(K, dead)
    BY <2>3 DEF Formed, Holding
  <2> QED BY <2>1, <2>3, <2>4, <2>5 DEF q
<1>3. CASE Head(r.resolve) \notin {"absent", "again"}
  <2>1. q = Idle
    BY <1>3 DEF Missing
  <2>2. Idle \in Threading /\ Fits(Idle) /\ Formed(K, Idle) /\ Idle.pc = "idle"
    BY IdleMoves
  <2> HIDE DEF q
  <2> QED BY <2>1, <2>2 DEF q
<1> QED BY <1>1, <1>2, <1>3

LEMMA WalkStep ==
  ASSUME Types, NEW t \in Threads, Walk(t)
  PROVE  /\ Moves(t, th'[t]) /\ th[t].pc = "walk"
         /\ th'[t].pc \in {"hung", "idle", "build", "fetch", "root", "aborted"}
         /\ th'[t].pc \in {"build", "fetch"} => th'[t].root = th[t].root
         /\ th'[t].pc = "build" => th'[t].op # "write"
         /\ made' = made /\ freed' = freed /\ crashed' \in BOOLEAN
<1> DEFINE r == th[t]
<1>1. r \in Threading /\ Fits(r) /\ Formed(Kids, r) /\ r.pc = "walk"
  BY DEF Types, Walk
<1>2. PICK blocks \in get_path(r.root, Target(r)) :
        \/ Hang(t) /\ UNCHANGED crashed
        \/ /\ th' = [th EXCEPT ![t] = IF Complete(blocks, Target(r))
                                      THEN Found(r, blocks) ELSE Missing(r)]
           /\ crashed' = (th'[t].pc = "aborted")
           /\ UNCHANGED <<made, freed>>
  BY DEF Walk
<1>3. CASE Hang(t) /\ UNCHANGED crashed
  <2>1. crashed' \in BOOLEAN
    BY <1>3 DEF Types
  <2> QED BY <1>1, <1>3, <2>1, HangMoves
<1>4. CASE /\ th' = [th EXCEPT ![t] = IF Complete(blocks, Target(r))
                                      THEN Found(r, blocks) ELSE Missing(r)]
           /\ crashed' = (th'[t].pc = "aborted")
           /\ UNCHANGED <<made, freed>>
  <2> DEFINE q == IF Complete(blocks, Target(r)) THEN Found(r, blocks) ELSE Missing(r)
  <2>1. r.root \in 1 .. Len(made) /\ Older(Kids, Len(made))
    BY <1>1, TypesFacts DEF Formed, Types
  <2>2. Len(Target(r)) \in Nat
    BY <1>1, TargetLen
  <2>3. Chain(Kids, blocks, r.root)
    BY <1>2, <2>1, <2>2, GetPathChain
  <2> HIDE DEF r
  <2>4. /\ q \in Threading /\ Fits(q) /\ Formed(Kids, q)
        /\ q.pc \in {"idle", "build", "fetch", "root", "aborted"}
        /\ q.pc \in {"build", "fetch"} => q.root = r.root
        /\ q.pc = "build" => q.op # "write"
    <3>1. CASE Complete(blocks, Target(r))
      <4>1. q = Found(r, blocks)
        BY <3>1
      <4> HIDE DEF q
      <4> QED BY <1>1, <2>3, <3>1, <4>1, FoundMoves
    <3>2. CASE ~ Complete(blocks, Target(r))
      <4>1. q = Missing(r)
        BY <3>2
      <4> HIDE DEF q
      <4> QED BY <1>1, <3>2, <4>1, MissingMoves
    <3> QED BY <3>1, <3>2
  <2>5. th' = [th EXCEPT ![t] = q]
    BY <1>4
  <2> HIDE DEF q
  <2>6. th'[t] = q
    BY <2>4, <2>5, OneThread
  <2>7. crashed' \in BOOLEAN
    BY <1>4, Zenon
  <2> QED BY <1>1, <1>4, <2>4, <2>5, <2>6, <2>7 DEF Moves, r
<1> QED BY <1>2, <1>3, <1>4

LEMMA ReturnMoves ==
  ASSUME Types, NEW t \in Threads, th' = [th EXCEPT ![t] = Idle]
  PROVE  Moves(t, th'[t]) /\ th'[t].pc = "idle"
<1>1. Idle \in Threading /\ Fits(Idle) /\ Formed(Kids, Idle) /\ Idle.pc = "idle"
  BY IdleMoves
<1>2. th'[t] = Idle
  BY <1>1, OneThread
<1> QED BY <1>1, <1>2 DEF Moves

\* The path a thread works on is one from its root, its last block is below.
LEMMA HeldChain ==
  ASSUME Types, NEW t \in Threads, th[t].pc \in Holding
  PROVE  /\ Chain(Kids, th[t].blocks, th[t].root)
         /\ th[t].root \in 1 .. Len(made)
         /\ Last(th[t].blocks) \in 1 .. Len(made)
         /\ Last(th[t].blocks) \in ToSet(th[t].blocks)
         /\ ToSet(th[t].blocks) \subseteq Reach(Kids, th[t].root)
         /\ Reach(Kids, Last(th[t].blocks)) \subseteq Reach(Kids, th[t].root)
<1> DEFINE c == th[t].blocks
           root == th[t].root
<1>1. Older(Kids, Len(made)) /\ Chain(Kids, c, root)
  BY DEF Types, Formed
<1> HIDE DEF c, root
<1>2. Len(c) \in Nat /\ Len(c) >= 1 /\ root \in 1 .. Len(made) /\ DOMAIN c = 1 .. Len(c)
  BY <1>1, ChainLen
<1>3. \A i \in 1 .. Len(c) : c[i] \in Reach(Kids, root) /\ c[i] \in 1 .. Len(made)
  BY <1>1, ChainIn
<1>4. Last(c) = c[Len(c)] /\ Len(c) \in 1 .. Len(c)
  BY <1>2 DEF Last
<1>5. Last(c) \in ToSet(c) /\ ToSet(c) \subseteq Reach(Kids, root)
  BY <1>2, <1>3, <1>4 DEF ToSet
<1>6. Last(c) \in 1 .. Len(made) /\ Last(c) \in Reach(Kids, root)
  BY <1>3, <1>4
<1>7. Reach(Kids, Last(c)) \subseteq Reach(Kids, root)
  BY <1>1, <1>2, <1>6, ReachTrans
<1> QED BY <1>1, <1>2, <1>5, <1>6, <1>7 DEF c, root

LEMMA FetchStep ==
  ASSUME Types, NEW t \in Threads, Fetch(t)
  PROVE  /\ Moves(t, th'[t]) /\ th[t].pc = "fetch"
         /\ th'[t].pc \in {"hung", "idle", "sweep"}
         /\ th'[t].pc = "sweep" => /\ th'[t].op = "write" /\ th'[t].root = th[t].root
                                   /\ th'[t].blocks = th[t].blocks
                                   /\ th'[t].sweep = {Last(th[t].blocks)}
         /\ made' = made /\ freed' = freed
<1> DEFINE r == th[t]
           q == [r EXCEPT !.pc = "sweep", !.sweep = {Last(r.blocks)}]
<1>1. r \in Threading /\ Fits(r) /\ Formed(Kids, r) /\ r.pc = "fetch" /\ r.pc \in Holding
  BY DEF Types, Fetch, Holding
<1>2. \/ Hang(t)
      \/ r.op = "write" /\ th' = [th EXCEPT ![t].pc = "sweep", ![t].sweep = {Last(r.blocks)}]
           /\ UNCHANGED <<made, freed>>
      \/ th' = [th EXCEPT ![t] = Idle] /\ UNCHANGED <<made, freed>>
  BY DEF Fetch, Return
<1>3. CASE Hang(t)
  BY <1>1, <1>3, HangMoves
<1>4. CASE th' = [th EXCEPT ![t] = Idle] /\ UNCHANGED <<made, freed>>
  BY <1>1, <1>4, ReturnMoves
<1>5. CASE /\ r.op = "write"
           /\ th' = [th EXCEPT ![t].pc = "sweep", ![t].sweep = {Last(r.blocks)}]
           /\ UNCHANGED <<made, freed>>
  <2>1. th' = [th EXCEPT ![t] = q]
    BY <1>1, <1>5 DEF Types
  <2>2. Last(r.blocks) \in 1 .. Len(made) /\ Older(Kids, Len(made))
    BY <1>1, HeldChain DEF Types
  <2>3. Last(r.blocks) \in Nat
    BY <2>2 DEF Older
  <2>4. Last(r.blocks) \in Reach(Kids, Last(r.blocks))
    BY <2>2, ReachClosed
  <2> HIDE DEF r
  <2>5. q \in Threading
    BY <1>1, <2>3 DEF Threading, PCs
  <2>6. /\ q.pc = "sweep" /\ q.op = r.op /\ q.path = r.path /\ q.value = r.value
        /\ q.resolve = r.resolve /\ q.root = r.root /\ q.blocks = r.blocks
        /\ q.new = r.new /\ q.sweep = {Last(r.blocks)}
    BY <1>1 DEF Threading
  <2> HIDE DEF q
  <2>7. Fits(q)
    BY <1>1, <1>5, <2>6 DEF Fits
  <2>8. Formed(Kids, q)
    BY <1>1, <1>5, <2>4, <2>6 DEF Formed, Holding
  <2>9. th'[t] = q
    BY <2>1, <2>5, OneThread
  <2> QED BY <1>1, <1>5, <2>1, <2>5, <2>6, <2>7, <2>8, <2>9 DEF Moves, r
<1> QED BY <1>2, <1>3, <1>4, <1>5

\* The children of a block below another are below both.
LEMMA SweepKids ==
  ASSUME NEW n, NEW K, Older(K, n), NEW last \in 1 .. n, NEW id \in Reach(K, last)
  PROVE  /\ id \in 1 .. n /\ K[id] \subseteq 1 .. n
         /\ K[id] \subseteq Reach(K, id) \ {id}
         /\ K[id] \subseteq Reach(K, last) \ {last}
         /\ \A k \in K[id] : Reach(K, k) \subseteq Reach(K, last)
<1>1. /\ last \in Reach(K, last) /\ Reach(K, last) \subseteq 1 .. n
      /\ \A x \in Reach(K, last) : K[x] \subseteq Reach(K, last)
  BY ReachClosed
<1>2. id \in 1 .. n /\ id <= last /\ K[id] \subseteq Reach(K, last)
  BY <1>1, ReachOlder
<1>3. /\ id \in Reach(K, id) /\ \A x \in Reach(K, id) : K[x] \subseteq Reach(K, id)
  BY <1>2, ReachClosed
<1>4. \A k \in K[id] : k \in 1 .. n /\ k < id
  BY <1>2 DEF Older
<1>5. \A k \in K[id] : k # id /\ k # last
  BY <1>2, <1>4
<1>6. \A k \in K[id] : Reach(K, k) \subseteq Reach(K, last)
  BY <1>2, ReachTrans
<1> QED BY <1>2, <1>3, <1>4, <1>5, <1>6

LEMMA SweepStep ==
  ASSUME Types, NEW t \in Threads, Sweep(t)
  PROVE  /\ Moves(t, th'[t]) /\ th[t].pc = "sweep" /\ made' = made
         /\ th'[t].pc # "idle" => th'[t].op = th[t].op /\ th'[t].blocks = th[t].blocks
         /\ \/ /\ th'[t].pc = "hung" /\ th'[t].sweep # {} /\ freed' = freed
            \/ \E id \in th[t].sweep :
                 /\ freed' = freed \cup Kids[id]
                 /\ \/ /\ th'[t].pc = "sweep" /\ th'[t].root = th[t].root
                       /\ th'[t].sweep = (th[t].sweep \ {id}) \cup Kids[id]
                    \/ /\ (th[t].sweep \ {id}) \cup Kids[id] = {}
                       /\ \/ /\ th'[t].pc = "build" /\ th'[t].root = th[t].root
                             /\ th[t].op = "write"
                          \/ th'[t].pc = "idle" /\ th[t].op = "rmdir"
<1> DEFINE r == th[t]
<1>1. /\ r \in Threading /\ Fits(r) /\ Formed(Kids, r) /\ r.pc = "sweep"
      /\ r.pc \in Holding /\ Older(Kids, Len(made)) /\ r.op \in {"write", "rmdir"}
  BY DEF Types, Sweep, Holding, Fits
<1>2. /\ r.sweep # {} /\ r.sweep \subseteq Reach(Kids, Last(r.blocks))
      /\ Last(r.blocks) \in 1 .. Len(made)
  BY <1>1, HeldChain DEF Fits, Formed
<1>3. PICK id \in r.sweep :
        \/ Hang(t)
        \/ /\ freed' = freed \cup made[id].kids
           /\ th' = [th EXCEPT ![t] =
                IF (r.sweep \ {id}) \cup made[id].kids # {}
                THEN [r EXCEPT !.sweep = (r.sweep \ {id}) \cup made[id].kids]
                ELSE IF r.op = "write" THEN [r EXCEPT !.pc = "build", !.sweep = {}]
                ELSE Idle]
           /\ UNCHANGED made
  BY DEF Sweep
<1>4. /\ id \in 1 .. Len(made) /\ Kids[id] \subseteq 1 .. Len(made)
      /\ Kids[id] \subseteq Reach(Kids, Last(r.blocks))
  BY <1>1, <1>2, SweepKids
<1>5. made[id].kids = Kids[id]
  BY <1>4, TypesFacts
<1> DEFINE left == (r.sweep \ {id}) \cup Kids[id]
<1>6. CASE Hang(t)
  BY <1>1, <1>2, <1>6, HangMoves
<1>7. ASSUME freed' = freed \cup Kids[id], UNCHANGED made, left # {},
             th' = [th EXCEPT ![t] = [r EXCEPT !.sweep = left]]
      PROVE  /\ Moves(t, th'[t]) /\ th'[t].pc = "sweep" /\ th'[t].op = r.op
             /\ th'[t].blocks = r.blocks /\ th'[t].root = r.root
             /\ th'[t].sweep = left
  <2> DEFINE q == [r EXCEPT !.sweep = left]
  <2>1. left \subseteq Nat /\ left \subseteq Reach(Kids, Last(r.blocks))
    <3>1. Reach(Kids, Last(r.blocks)) \subseteq Nat
      <4>1. Reach(Kids, Last(r.blocks)) \subseteq 1 .. Len(made)
        BY <1>1, <1>2, ReachClosed
      <4>2. 1 .. Len(made) \subseteq Nat
        BY TypesFacts
      <4> QED BY <4>1, <4>2
    <3> QED BY <1>2, <1>4, <3>1
  <2> HIDE DEF r, left
  <2>2. q \in Threading
    BY <1>1, <2>1 DEF Threading
  <2>3. /\ q.pc = r.pc /\ q.op = r.op /\ q.path = r.path /\ q.value = r.value
        /\ q.resolve = r.resolve /\ q.root = r.root /\ q.blocks = r.blocks
        /\ q.new = r.new /\ q.sweep = left
    BY <1>1 DEF Threading
  <2>4. th' = [th EXCEPT ![t] = q]
    BY <1>7
  <2> HIDE DEF q
  <2>5. Fits(q)
    BY <1>1, <1>7, <2>3 DEF Fits
  <2>6. Formed(Kids, q)
    BY <1>1, <2>1, <2>3 DEF Formed, Holding
  <2>7. th'[t] = q
    BY <2>2, <2>4, OneThread
  <2> QED BY <1>1, <2>2, <2>3, <2>4, <2>5, <2>6, <2>7 DEF Moves
<1>8. ASSUME freed' = freed \cup Kids[id], UNCHANGED made, left = {}, r.op = "write",
             th' = [th EXCEPT ![t] = [r EXCEPT !.pc = "build", !.sweep = {}]]
      PROVE  /\ Moves(t, th'[t]) /\ th'[t].pc = "build" /\ th'[t].op = r.op
             /\ th'[t].blocks = r.blocks /\ th'[t].root = r.root
  <2> DEFINE q == [r EXCEPT !.pc = "build", !.sweep = {}]
  <2> HIDE DEF r, left
  <2>2. q \in Threading
    BY <1>1 DEF Threading, PCs
  <2>3. /\ q.pc = "build" /\ q.op = r.op /\ q.path = r.path /\ q.value = r.value
        /\ q.resolve = r.resolve /\ q.root = r.root /\ q.blocks = r.blocks
        /\ q.new = r.new /\ q.sweep = {}
    BY <1>1 DEF Threading
  <2>4. th' = [th EXCEPT ![t] = q]
    BY <1>8
  <2> HIDE DEF q
  <2>5. Fits(q)
    BY <1>1, <1>8, <2>3 DEF Fits, Changes
  <2>6. Formed(Kids, q)
    BY <1>1, <1>8, <2>3 DEF Formed, Holding
  <2>7. th'[t] = q
    BY <2>2, <2>4, OneThread
  <2> QED BY <1>1, <2>2, <2>3, <2>4, <2>5, <2>6, <2>7 DEF Moves
<1>9. CASE /\ freed' = freed \cup Kids[id] /\ UNCHANGED made
           /\ th' = [th EXCEPT ![t] =
                IF left # {} THEN [r EXCEPT !.sweep = left]
                ELSE IF r.op = "write" THEN [r EXCEPT !.pc = "build", !.sweep = {}]
                ELSE Idle]
  <2>1. CASE left # {}
    <3>1. th' = [th EXCEPT ![t] = [r EXCEPT !.sweep = left]]
      BY <1>9, <2>1, Zenon
    <3> QED BY <1>1, <1>7, <1>9, <2>1, <3>1
  <2>2. CASE left = {} /\ r.op = "write"
    <3>1. th' = [th EXCEPT ![t] = [r EXCEPT !.pc = "build", !.sweep = {}]]
      BY <1>9, <2>2, Zenon
    <3> QED BY <1>1, <1>8, <1>9, <2>2, <3>1
  <2>3. CASE left = {} /\ r.op # "write"
    <3>1. th' = [th EXCEPT ![t] = Idle] /\ r.op = "rmdir"
      BY <1>1, <1>9, <2>3
    <3> QED BY <1>1, <1>9, <2>3, <3>1, ReturnMoves
  <2> QED BY <2>1, <2>2, <2>3
<1> QED BY <1>3, <1>5, <1>6, <1>9

LEMMA SwitchMoves ==
  ASSUME Types, NEW t \in Threads, th[t].pc \in {"switch", "switching"},
         NEW p \in {"switching", "free"}, th' = [th EXCEPT ![t].pc = p]
  PROVE  /\ Moves(t, th'[t]) /\ th'[t].pc = p
         /\ th'[t].op = th[t].op /\ th'[t].root = th[t].root
         /\ th'[t].blocks = th[t].blocks /\ th'[t].new = th[t].new
<1> DEFINE r == th[t]
           q == [r EXCEPT !.pc = p]
<1>1. /\ r \in Threading /\ Fits(r) /\ Formed(Kids, r) /\ p \in PCs
      /\ r.pc \in {"switch", "switching"}
  BY DEF Types, PCs
<1>2. th' = [th EXCEPT ![t] = q]
  BY <1>1 DEF Types
<1> HIDE DEF r
<1>3. /\ q \in Threading
      /\ q.pc = p /\ q.op = r.op /\ q.path = r.path /\ q.value = r.value
      /\ q.resolve = r.resolve /\ q.root = r.root /\ q.blocks = r.blocks
      /\ q.new = r.new /\ q.sweep = r.sweep
  BY <1>1, GoesTo
<1> HIDE DEF q
<1>4. Fits(q)
  BY <1>1, <1>3 DEF Fits
<1>5. Formed(Kids, q)
  BY <1>1, <1>3 DEF Formed, Holding
<1>6. th'[t] = q
  BY <1>2, <1>3, OneThread
<1> QED BY <1>2, <1>3, <1>4, <1>5, <1>6 DEF Moves, r

LEMMA FreePathStep ==
  ASSUME Types, NEW t \in Threads, FreePath(t)
  PROVE  /\ Moves(t, th'[t]) /\ th[t].pc = "free" /\ made' = made
         /\ freed' = freed \cup ToSet(th[t].blocks)
         /\ th'[t].pc \in {"root", "sweep", "idle"}
         /\ th[t].op = "rmdir" =>
              /\ th'[t].pc = "sweep" /\ th'[t].op = "rmdir"
              /\ th'[t].root = th[t].root /\ th'[t].blocks = th[t].blocks
              /\ th'[t].sweep = {Last(th[t].blocks)}
         /\ th[t].op # "rmdir" => th'[t].pc \in {"root", "idle"}
<1> DEFINE r == th[t]
           c == [r EXCEPT !.pc = "root", !.resolve = <<"again">>]
           d == [r EXCEPT !.pc = "sweep", !.sweep = {Last(r.blocks)}]
<1>1. /\ r \in Threading /\ Fits(r) /\ Formed(Kids, r) /\ r.pc = "free" /\ r.pc \in Holding
      /\ r.op \in Changes
  BY DEF Types, FreePath, Holding, Fits
<1>2. freed' = freed \cup ToSet(r.blocks) /\ made' = made
  BY DEF FreePath
<1>3. CASE r.op = "create"
  <2>1. th' = [th EXCEPT ![t] = c]
    BY <1>3 DEF FreePath
  <2>2. <<"again">> \in Seq({"absent", "parent", "present", "again"})
    <3> DEFINE R == {"absent", "parent", "present", "again"}
    <3>1. "again" \in R
      OBVIOUS
    <3> HIDE DEF R
    <3>2. <<"again">> \in Seq(R)
      BY <3>1
    <3> QED BY <3>2 DEF R
  <2> HIDE DEF r
  <2>3. c \in Threading
    BY <1>1, <2>2 DEF Threading, PCs
  <2>4. /\ c.pc = "root" /\ c.op = r.op /\ c.path = r.path /\ c.value = r.value
        /\ c.resolve = <<"again">> /\ c.root = r.root /\ c.blocks = r.blocks
        /\ c.new = r.new /\ c.sweep = r.sweep
    BY <1>1 DEF Threading
  <2> HIDE DEF c
  <2>5. c.resolve \in Asked(c.op)
    BY <1>3, <2>4, Zenon DEF Asked
  <2>6. Fits(c)
    BY <1>1, <1>3, <2>4, <2>5 DEF Fits
  <2>7. Formed(Kids, c)
    BY <1>1, <1>3, <2>4 DEF Formed, Holding
  <2>8. th'[t] = c
    BY <2>1, <2>3, OneThread
  <2> QED BY <1>1, <1>2, <1>3, <2>1, <2>3, <2>4, <2>6, <2>7, <2>8 DEF Moves, r
<1>4. CASE r.op = "rmdir"
  <2>1. th' = [th EXCEPT ![t] = d]
    BY <1>4 DEF FreePath
  <2>2. Last(r.blocks) \in 1 .. Len(made) /\ Older(Kids, Len(made))
    BY <1>1, HeldChain DEF Types
  <2>3. Last(r.blocks) \in Nat /\ Last(r.blocks) \in Reach(Kids, Last(r.blocks))
    <3>1. Last(r.blocks) \in Nat
      BY <2>2 DEF Older
    <3> QED BY <2>2, <3>1, ReachClosed
  <2> HIDE DEF r
  <2>4. d \in Threading
    BY <1>1, <2>3 DEF Threading, PCs
  <2>5. /\ d.pc = "sweep" /\ d.op = r.op /\ d.path = r.path /\ d.value = r.value
        /\ d.resolve = r.resolve /\ d.root = r.root /\ d.blocks = r.blocks
        /\ d.new = r.new /\ d.sweep = {Last(r.blocks)}
    BY <1>1 DEF Threading
  <2> HIDE DEF d
  <2>6. Fits(d)
    BY <1>1, <1>4, <2>5 DEF Fits
  <2>7. Formed(Kids, d)
    BY <1>1, <1>4, <2>3, <2>5 DEF Formed, Holding
  <2>8. th'[t] = d
    BY <2>1, <2>4, OneThread
  <2> QED BY <1>1, <1>2, <1>4, <2>1, <2>4, <2>5, <2>6, <2>7, <2>8 DEF Moves, r
<1>5. CASE r.op \in {"mkdir", "write"}
  <2>1. th' = [th EXCEPT ![t] = Idle]
    BY <1>5 DEF FreePath
  <2> QED BY <1>1, <1>2, <1>5, <2>1, ReturnMoves
<1> QED BY <1>1, <1>3, <1>4, <1>5 DEF Changes

-----------------------------------------------------------------------------
(* New blocks *)

\* Copies of the blocks of a path.
Copies(s, K, c, remove, add, base) ==
  /\ s \in Seq(Blocks) /\ Len(s) = Len(c)
  /\ s[1].kids = (K[c[Len(c)]] \ remove) \cup add
  /\ \A j \in 2 .. Len(c) :
       s[j].kids = (K[c[Len(c) + 1 - j]] \ {c[Len(c) + 2 - j]}) \cup {base + j - 2}

LEMMA CopyBlock ==
  ASSUME NEW b \in Blocks, NEW kids \in SUBSET Nat
  PROVE  [b EXCEPT !.kids = kids] \in Blocks /\ [b EXCEPT !.kids = kids].kids = kids
BY DEF Blocks

LEMMA ReplaceChain ==
  ASSUME Types, NEW c, NEW root, Chain(Kids, c, root),
         NEW remove, NEW add \in SUBSET Nat, NEW base \in Nat
  PROVE  Copies(replace_chain(c, remove, add, base), Kids, c, remove, add, base)
<1> DEFINE k == Len(c)
           s == replace_chain(c, remove, add, base)
           kids(i) == IF i = k THEN (made[c[i]].kids \ remove) \cup add
                      ELSE (made[c[i]].kids \ {c[i + 1]}) \cup {base + k - i - 1}
           copy(i) == IF i = k
             THEN [made[c[i]] EXCEPT !.kids = (@ \ remove) \cup add]
             ELSE [made[c[i]] EXCEPT !.kids = (@ \ {c[i + 1]}) \cup {base + k - i - 1}]
<1>1. Older(Kids, Len(made)) /\ k \in Nat /\ k >= 1
  BY ChainLen DEF Types
<1>2. \A i \in 1 .. k : c[i] \in 1 .. Len(made)
  BY <1>1, ChainIn
<1>3. \A i \in 1 .. k : made[c[i]] \in Blocks /\ made[c[i]].kids = Kids[c[i]]
  BY <1>2, TypesFacts
<1>4. s = [j \in 1 .. k |-> copy(k + 1 - j)]
  BY DEF replace_chain
<1> HIDE DEF s
<1>5. ASSUME NEW i \in 1 .. k
      PROVE  copy(i) \in Blocks /\ copy(i).kids = kids(i)
  <2>1. made[c[i]] \in Blocks /\ made[c[i]].kids \in SUBSET Nat
    BY <1>3 DEF Blocks
  <2>2. base + k - i - 1 \in Nat \/ i = k
    BY <1>1
  <2>3. kids(i) \in SUBSET Nat
    BY <2>1, <2>2
  <2>4. copy(i) = [made[c[i]] EXCEPT !.kids = kids(i)]
    <3>1. CASE i = k
      BY <2>1, <3>1
    <3>2. CASE i # k
      BY <2>1, <3>2
    <3> QED BY <3>1, <3>2
  <2> HIDE DEF kids, copy
  <2> QED BY <2>1, <2>3, <2>4, CopyBlock
<1>6. \A j \in 1 .. k : k + 1 - j \in 1 .. k
  BY <1>1
<1> HIDE DEF copy
<1>7. \A j \in 1 .. k : s[j] \in Blocks /\ s[j].kids = kids(k + 1 - j)
  BY <1>4, <1>5, <1>6
<1>8. s \in [1 .. k -> Blocks] /\ DOMAIN s = 1 .. k
  BY <1>4, <1>7
<1>9. s \in Seq(Blocks) /\ Len(s) = k
  <2>1. Seq(Blocks) = UNION {[1 .. m -> Blocks] : m \in Nat}
    BY SeqDef, Zenon
  <2>2. s \in Seq(Blocks)
    BY <1>1, <1>8, <2>1, Zenon
  <2> QED BY <1>1, <1>8, <2>2
<1>10. s[1].kids = (Kids[c[k]] \ remove) \cup add
  <2>1. 1 \in 1 .. k /\ k + 1 - 1 = k /\ k \in 1 .. k
    BY <1>1
  <2> QED BY <1>3, <1>7, <2>1
<1>11. ASSUME NEW j \in 2 .. k
       PROVE  s[j].kids = (Kids[c[k + 1 - j]] \ {c[k + 2 - j]}) \cup {base + j - 2}
  <2>1. /\ j \in 1 .. k /\ k + 1 - j \in 1 .. k /\ k + 1 - j # k
        /\ (k + 1 - j) + 1 = k + 2 - j
        /\ base + k - (k + 1 - j) - 1 = base + j - 2
    BY <1>1
  <2>2. s[j].kids = kids(k + 1 - j)
    BY <1>7, <2>1
  <2>3. made[c[k + 1 - j]].kids = Kids[c[k + 1 - j]]
    BY <1>3, <2>1
  <2> QED BY <2>1, <2>2, <2>3
<1> QED BY <1>9, <1>10, <1>11 DEF Copies, s

\* A leaf, if there is one, and the blocks s.
AfterLeaf(w, s, o) ==
  /\ w \in Seq(Blocks) /\ Len(w) = o + Len(s)
  /\ o = 1 => w[1].kids = {}
  /\ \A i \in 1 .. Len(s) : w[o + i] = s[i]

\* The child the last block of the path gets.
Added(o, n) == IF o = 1 THEN {n + 1} ELSE {}

\* The blocks after those of a leaf, if there is one, and of a path are added.
LEMMA CopiesRebuilt ==
  ASSUME NEW m \in Seq(Blocks), NEW n \in Nat, n = Len(m),
         NEW K, Older(K, n), K = [id \in DOMAIN m |-> m[id].kids],
         NEW c, NEW root, Chain(K, c, root), NEW remove, NEW s,
         remove \subseteq K[c[Len(c)]],
         NEW o \in {0, 1}, Copies(s, K, c, remove, Added(o, n), n + o + 1),
         NEW w, AfterLeaf(w, s, o), NEW m2, m2 = m \o w,
         NEW K2, K2 = [id \in DOMAIN m2 |-> m2[id].kids]
  PROVE  m2 \in Seq(Blocks) /\ Rebuilt(K, n, K2, Len(m2), c, remove, o)
<1> DEFINE k == Len(c)
           n2 == Len(m2)
           add == Added(o, n)
           base == n + o + 1
<1>1. k \in Nat /\ k >= 1
  BY ChainLen
<1>2. /\ s \in Seq(Blocks) /\ Len(s) = k
      /\ s[1].kids = (K[c[k]] \ remove) \cup add
      /\ \A j \in 2 .. k :
           s[j].kids = (K[c[k + 1 - j]] \ {c[k + 2 - j]}) \cup {base + j - 2}
  BY DEF Copies
<1>3. /\ w \in Seq(Blocks) /\ Len(w) = o + k
      /\ o = 1 => w[1].kids = {}
      /\ \A i \in 1 .. k : w[o + i] = s[i]
  BY <1>2 DEF AfterLeaf
<1> HIDE DEF k, add
<1>5. /\ m2 \in Seq(Blocks) /\ n2 = n + Len(w)
      /\ \A i \in 1 .. n : m2[i] = m[i]
      /\ \A i \in 1 .. Len(w) : m2[n + i] = w[i]
  BY <1>3, ConcatAt
<1>6. n2 = n + o + k /\ n2 \in Nat
  BY <1>1, <1>3, <1>5
<1>7. DOMAIN m2 = 1 .. n2 /\ DOMAIN m = 1 .. n
  BY <1>5
<1>8. \A id \in 1 .. n2 : m2[id] \in Blocks
  BY <1>5, <1>7
<1> HIDE DEF n2
<1>9. K2 \in [1 .. n2 -> SUBSET Nat] /\ \A id \in 1 .. n2 : K2[id] = m2[id].kids
  <2>1. \A id \in 1 .. n2 : m2[id].kids \in SUBSET Nat
    BY <1>8 DEF Blocks
  <2> QED BY <1>7, <2>1
<1>10. \A x \in 1 .. n : K2[x] = K[x]
  <2>1. \A x \in 1 .. n : x \in 1 .. n2 /\ K[x] = m[x].kids
    BY <1>1, <1>6, <1>7
  <2> QED BY <1>5, <1>9, <2>1
<1>11. \A j \in 1 .. k : n + o + j \in 1 .. n2 /\ K2[n + o + j] = s[j].kids
  <2> SUFFICES ASSUME NEW j \in 1 .. k
               PROVE  n + o + j \in 1 .. n2 /\ K2[n + o + j] = s[j].kids
    OBVIOUS
  <2>1. o + j \in 1 .. Len(w) /\ n + (o + j) = n + o + j /\ n + o + j \in 1 .. n2
    BY <1>1, <1>3, <1>6
  <2>2. m2[n + (o + j)] = s[j]
    BY <1>3, <1>5, <2>1
  <2> QED BY <1>9, <2>1, <2>2
<1>12. o = 1 => K2[n + 1] = {}
  <2> SUFFICES ASSUME o = 1 PROVE K2[n + 1] = {}
    OBVIOUS
  <2>1. 1 \in 1 .. Len(w) /\ n + 1 \in 1 .. n2
    BY <1>1, <1>3, <1>6
  <2>2. m2[n + 1] = w[1]
    BY <1>5, <2>1
  <2> QED BY <1>3, <1>9, <2>1, <2>2
<1>13. K2[n2 + 1 - k] = (K[c[k]] \ remove) \cup add
  <2>1. n2 + 1 - k = n + o + 1 /\ 1 \in 1 .. k
    BY <1>1, <1>6
  <2>2. K2[n + o + 1] = s[1].kids
    BY <1>11, <2>1
  <2> QED BY <1>2, <2>1, <2>2, Zenon
<1>14. ASSUME NEW i \in 1 .. k - 1
       PROVE  K2[n2 + 1 - i] = (K[c[i]] \ {c[i + 1]}) \cup {n2 - i}
  <2>1. PICK j \in 2 .. k : j = k + 1 - i
    BY <1>1
  <2>2. /\ j \in 1 .. k /\ n2 + 1 - i = n + o + j /\ k + 1 - j = i /\ k + 2 - j = i + 1
        /\ base + j - 2 = n2 - i
    BY <1>1, <1>6, <2>1
  <2>3. s[j].kids = (K[c[k + 1 - j]] \ {c[k + 2 - j]}) \cup {base + j - 2}
    BY <1>2
  <2>4. K2[n + o + j] = s[j].kids
    BY <1>11, <2>2
  <2> QED BY <2>2, <2>3, <2>4
<1>15. Rebuilt(K, n, K2, n2, c, remove, o)
  BY <1>6, <1>9, <1>10, <1>12, <1>13, <1>14 DEF Rebuilt, Added, add, k
<1> QED BY <1>5, <1>15 DEF n2

\* The path a change copies, what it takes from the last block of it, and
\* whether it makes a leaf.
Copied(r) == IF r.op = "rmdir" THEN Front(r.blocks) ELSE r.blocks
Cut(K, r) ==
  IF r.op = "rmdir" THEN {Last(r.blocks)}
  ELSE IF r.op = "write" THEN K[Last(r.blocks)] ELSE {}
Leaf(r) == IF r.op = "rmdir" THEN 0 ELSE 1

\* A path without its last block.
LEMMA FrontChain ==
  ASSUME NEW n, NEW K, Older(K, n), NEW c, NEW root, Chain(K, c, root), Len(c) >= 2
  PROVE  /\ Chain(K, Front(c), root) /\ Len(Front(c)) = Len(c) - 1
         /\ Last(c) \in K[Front(c)[Len(Front(c))]]
         /\ ToSet(c) = ToSet(Front(c)) \cup {Last(c)}
<1> DEFINE f == Front(c)
           k == Len(c)
<1>1. /\ k \in Nat /\ c \in Seq(Nat) /\ c[1] = root /\ DOMAIN c = 1 .. k
      /\ \A i \in 1 .. k - 1 : c[i + 1] \in K[c[i]]
  BY ChainLen
<1>2. k - 1 \in Nat /\ 1 <= k - 1 /\ k - 1 <= Len(c) /\ k \in 1 .. k
  BY <1>1
<1>3. /\ f \in Seq(Nat) /\ DOMAIN f = 1 .. k - 1 /\ Len(f) = k - 1
      /\ \A i \in 1 .. k - 1 : f[i] = c[i]
  <2>1. /\ SubSeq(c, 1, k - 1) \in Seq(Nat)
        /\ DOMAIN SubSeq(c, 1, k - 1) = 1 .. (k - 1) - 1 + 1
        /\ Len(SubSeq(c, 1, k - 1)) = (k - 1) - 1 + 1
        /\ \A i \in 1 .. (k - 1) - 1 + 1 : SubSeq(c, 1, k - 1)[i] = c[1 + i - 1]
    BY <1>1, <1>2, PartAt
  <2>2. (k - 1) - 1 + 1 = k - 1 /\ \A i \in 1 .. k - 1 : 1 + i - 1 = i
    BY <1>2
  <2>3. f = SubSeq(c, 1, k - 1)
    BY DEF Front
  <2> HIDE DEF f
  <2> QED BY <2>1, <2>2, <2>3
<1> HIDE DEF f, k
<1>4. f # <<>> /\ f[1] = root
  <2>1. 1 \in 1 .. k - 1
    BY <1>2
  <2>2. f[1] = root
    BY <1>1, <1>3, <2>1
  <2>3. f # <<>>
    BY <1>2, <1>3
  <2> QED BY <2>2, <2>3
<1>5. \A i \in 1 .. Len(f) - 1 : f[i + 1] \in K[f[i]]
  <2> SUFFICES ASSUME NEW i \in 1 .. Len(f) - 1 PROVE f[i + 1] \in K[f[i]]
    OBVIOUS
  <2>1. i \in 1 .. k - 1 /\ i + 1 \in 1 .. k - 1
    BY <1>2, <1>3
  <2> QED BY <1>1, <1>3, <2>1
<1>6. Chain(K, f, root)
  BY <1>3, <1>4, <1>5 DEF Chain
<1>7. Last(c) = c[k]
  BY DEF Last, k
<1>8. Last(c) \in K[f[Len(f)]]
  <2>1. k - 1 \in 1 .. k - 1 /\ (k - 1) + 1 = k
    BY <1>2
  <2>2. c[k] \in K[c[k - 1]]
    BY <1>1, <2>1
  <2> QED BY <1>3, <1>7, <2>1, <2>2
<1>9. ToSet(c) = ToSet(f) \cup {Last(c)}
  <2>1. ToSet(c) = {c[i] : i \in 1 .. k} /\ ToSet(f) = {f[i] : i \in 1 .. k - 1}
    BY <1>1, <1>3 DEF ToSet
  <2>2. \A i \in 1 .. k : i = k \/ i \in 1 .. k - 1
    BY <1>1
  <2>3. \A i \in 1 .. k - 1 : i \in 1 .. k
    BY <1>1
  <2> QED BY <1>2, <1>3, <1>7, <2>1, <2>2, <2>3
<1> QED BY <1>3, <1>6, <1>8, <1>9 DEF f, k

\* What a change copies and what it takes out are the path and, for rmdir and
\* write, all below it.
LEMMA CopiedCut ==
  ASSUME NEW n, NEW K, Older(K, n), NEW r, Chain(K, r.blocks, r.root),
         r.op \in Changes, r.op = "rmdir" => Len(r.blocks) >= 2
  PROVE  /\ Chain(K, Copied(r), r.root)
         /\ Len(Copied(r)) + Leaf(r) = Len(r.blocks) + 1 - (IF r.op = "rmdir" THEN 2 ELSE 0)
         /\ Cut(K, r) \subseteq K[Copied(r)[Len(Copied(r))]]
         /\ ToSet(Copied(r)) \cup Removed(K, Cut(K, r)) =
              ToSet(r.blocks) \cup
                (IF r.op \in {"rmdir", "write"}
                 THEN Reach(K, Last(r.blocks)) \ {Last(r.blocks)} ELSE {})
<1> DEFINE c == r.blocks
           last == Last(c)
<1>1. /\ Len(c) \in Nat /\ Len(c) >= 1 /\ DOMAIN c = 1 .. Len(c)
      /\ last \in 1 .. n /\ last = c[Len(c)] /\ last \in ToSet(c)
  <2>1. Len(c) \in Nat /\ Len(c) >= 1 /\ DOMAIN c = 1 .. Len(c)
    BY ChainLen
  <2>2. \A i \in 1 .. Len(c) : c[i] \in 1 .. n
    BY ChainIn
  <2>3. Len(c) \in 1 .. Len(c)
    BY <2>1
  <2> QED BY <2>1, <2>2, <2>3 DEF Last, ToSet
<1>2. CASE r.op = "rmdir"
  <2>1. /\ Chain(K, Front(c), r.root) /\ Len(Front(c)) = Len(c) - 1
        /\ last \in K[Front(c)[Len(Front(c))]]
        /\ ToSet(c) = ToSet(Front(c)) \cup {last}
    BY <1>2, FrontChain
  <2>2. Removed(K, {last}) = Reach(K, last)
    BY DEF Removed
  <2>3. last \in Reach(K, last)
    BY <1>1, ReachClosed
  <2>4. Copied(r) = Front(c) /\ Cut(K, r) = {last} /\ Leaf(r) = 0
    BY <1>2 DEF Copied, Cut, Leaf
  <2> HIDE DEF c, last
  <2>5. Len(Copied(r)) + Leaf(r) = Len(c) + 1 - 2
    <3>1. Len(Copied(r)) = Len(c) - 1 /\ Leaf(r) = 0
      BY <2>1, <2>4, Zenon
    <3>2. Len(c) \in Nat
      BY <1>1
    <3> QED BY <3>1, <3>2
  <2>6. ToSet(Copied(r)) \cup Removed(K, Cut(K, r)) = ToSet(c) \cup (Reach(K, last) \ {last})
    BY <2>1, <2>2, <2>3, <2>4
  <2> QED BY <1>2, <2>1, <2>4, <2>5, <2>6 DEF c, last
<1>3. CASE r.op = "write"
  <2>1. Copied(r) = c /\ Cut(K, r) = K[last] /\ Leaf(r) = 1
    BY <1>3 DEF Copied, Cut, Leaf
  <2>2. /\ Reach(K, last) = {last} \cup UNION {Reach(K, k) : k \in K[last]}
        /\ \A k \in K[last] : last \notin Reach(K, k)
    BY <1>1, ReachKid
  <2>3. Removed(K, K[last]) = UNION {Reach(K, k) : k \in K[last]}
    BY DEF Removed
  <2> HIDE DEF last
  <2>4. Removed(K, K[last]) = Reach(K, last) \ {last}
    BY <2>2, <2>3
  <2> QED BY <1>1, <1>3, <2>1, <2>4 DEF last
<1>4. CASE r.op \in {"mkdir", "create"}
  <2>1. Copied(r) = c /\ Cut(K, r) = {} /\ Leaf(r) = 1
    BY <1>4 DEF Copied, Cut, Leaf
  <2>2. Removed(K, {}) = {}
    BY DEF Removed
  <2>3. ToSet(Copied(r)) \cup Removed(K, Cut(K, r)) = ToSet(c)
    BY <2>1, <2>2
  <2>4. r.op # "rmdir" /\ r.op \notin {"rmdir", "write"}
    BY <1>4
  <2>5. Len(Copied(r)) + Leaf(r) = Len(c) + 1 - 0
    BY <1>1, <2>1
  <2> QED BY <1>4, <2>1, <2>3, <2>4, <2>5
<1> QED BY <1>2, <1>3, <1>4 DEF Changes

\* A change with a leaf, and one without.
LEMMA LeafBuilt ==
  ASSUME Types, NEW c, NEW root, Chain(Kids, c, root), NEW remove,
         remove \subseteq Kids[c[Len(c)]], NEW leaf \in Blocks, leaf.kids = {},
         NEW w, made' = made \o w,
         w = <<leaf>> \o replace_chain(c, remove, {Len(made) + 1}, Len(made) + 1 + 1)
  PROVE  /\ made' \in Seq(Blocks) /\ Len(made') = Len(made) + Len(w)
         /\ Rebuilt(Kids, Len(made), Kids', Len(made'), c, remove, 1)
<1> DEFINE add == {Len(made) + 1}
           base == Len(made) + 1 + 1
           s == replace_chain(c, remove, add, base)
           l == <<leaf>>
<1>1. /\ made \in Seq(Blocks) /\ Len(made) \in Nat /\ Older(Kids, Len(made))
      /\ Kids = [id \in DOMAIN made |-> made[id].kids]
      /\ Kids' = [id \in DOMAIN made' |-> made'[id].kids]
  BY TypesFacts DEF Types, Kids
<1>2. add \in SUBSET Nat /\ base \in Nat
  BY <1>1
<1>3. w = l \o s /\ l \in Seq(Blocks) /\ Len(l) = 1 /\ l[1].kids = {}
  OBVIOUS
<1>4. add = Added(1, Len(made))
  BY DEF Added
<1> HIDE DEF add, base, l
<1>5. Copies(s, Kids, c, remove, add, base)
  BY <1>2, ReplaceChain
<1>6. s \in Seq(Blocks) /\ Len(s) \in Nat
  <2>1. s \in Seq(Blocks)
    BY <1>5 DEF Copies
  <2> QED BY <2>1
<1> HIDE DEF s
<1>7. /\ w \in Seq(Blocks) /\ Len(w) = 1 + Len(s)
      /\ \A i \in 1 .. Len(l) : w[i] = l[i]
      /\ \A i \in 1 .. Len(s) : w[1 + i] = s[i]
  <2>1. l \in Seq(Blocks)
    BY <1>3
  <2>2. /\ l \o s \in Seq(Blocks) /\ Len(l \o s) = Len(l) + Len(s)
        /\ \A i \in 1 .. Len(l) : (l \o s)[i] = l[i]
        /\ \A i \in 1 .. Len(s) : (l \o s)[Len(l) + i] = s[i]
    BY <1>6, <2>1, ConcatAt
  <2>3. Len(l) = 1 /\ w = l \o s
    BY <1>3
  <2> QED BY <2>2, <2>3, Zenon
<1>8. AfterLeaf(w, s, 1)
  <2>1. 1 \in 1 .. Len(l)
    BY <1>3
  <2>2. w[1].kids = {}
    BY <1>3, <1>7, <2>1
  <2> QED BY <1>7, <2>2 DEF AfterLeaf
<1>9. Len(made') = Len(made) + Len(w)
  BY <1>1, <1>7, ConcatAt
<1>10. Copies(s, Kids, c, remove, Added(1, Len(made)), Len(made) + 1 + 1)
  BY <1>4, <1>5 DEF base
<1> QED BY <1>1, <1>8, <1>9, <1>10, CopiesRebuilt

LEMMA NoLeafBuilt ==
  ASSUME Types, NEW c, NEW root, Chain(Kids, c, root), NEW remove,
         remove \subseteq Kids[c[Len(c)]],
         NEW w, made' = made \o w, w = replace_chain(c, remove, {}, Len(made) + 1)
  PROVE  /\ made' \in Seq(Blocks) /\ Len(made') = Len(made) + Len(w)
         /\ Rebuilt(Kids, Len(made), Kids', Len(made'), c, remove, 0)
<1> DEFINE add == {}
           base == Len(made) + 1
           o == 0
<1>1. /\ made \in Seq(Blocks) /\ Len(made) \in Nat /\ Older(Kids, Len(made))
      /\ Kids = [id \in DOMAIN made |-> made[id].kids]
      /\ Kids' = [id \in DOMAIN made' |-> made'[id].kids]
  BY TypesFacts DEF Types, Kids
<1>2. add \in SUBSET Nat /\ base \in Nat /\ w = replace_chain(c, remove, add, base)
  BY <1>1
<1>3. add = Added(o, Len(made)) /\ base = Len(made) + o + 1 /\ o \in {0, 1}
  BY <1>1 DEF Added
<1> HIDE DEF add, base
<1>4. Copies(w, Kids, c, remove, add, base)
  BY <1>2, ReplaceChain
<1>5. w \in Seq(Blocks) /\ Len(w) \in Nat
  <2>1. w \in Seq(Blocks)
    BY <1>4 DEF Copies
  <2> QED BY <2>1
<1>6. AfterLeaf(w, w, o)
  BY <1>5 DEF AfterLeaf
<1>7. Len(made') = Len(made) + Len(w)
  BY <1>1, <1>5, ConcatAt
<1> HIDE DEF o
<1>8. Copies(w, Kids, c, remove, Added(o, Len(made)), Len(made) + o + 1)
  BY <1>3, <1>4
<1>9. made' \in Seq(Blocks) /\ Rebuilt(Kids, Len(made), Kids', Len(made'), c, remove, o)
  BY <1>1, <1>3, <1>6, <1>8, CopiesRebuilt
<1> QED BY <1>7, <1>9 DEF o

LEMMA BuildStep ==
  ASSUME Types, NEW t \in Threads, Build(t)
  PROVE  /\ made' \in Seq(Blocks)
         /\ Rebuilt(Kids, Len(made), Kids', Len(made'), Copied(th[t]),
                    Cut(Kids, th[t]), Leaf(th[t]))
         /\ th[t].pc = "build" /\ th[t].op \in Changes
         /\ th' = [th EXCEPT ![t] = [th[t] EXCEPT !.pc = "switch", !.new = Len(made')]]
<1> DEFINE r == th[t]
           id == Len(made) + 1
           c == Copied(r)
           remove == Cut(Kids, r)
<1>1. /\ r \in Threading /\ Fits(r) /\ Formed(Kids, r) /\ r.pc = "build" /\ r.pc \in Holding
      /\ r.op \in Changes /\ Older(Kids, Len(made)) /\ made \in Seq(Blocks)
  BY DEF Types, Build, Holding, Fits
<1>2. /\ Chain(Kids, r.blocks, r.root) /\ Last(r.blocks) \in 1 .. Len(made)
      /\ (r.op = "rmdir" => Len(r.blocks) >= 2)
  BY <1>1, HeldChain DEF Formed
<1>3. Chain(Kids, c, r.root) /\ remove \subseteq Kids[c[Len(c)]]
  BY <1>1, <1>2, CopiedCut
<1> DEFINE w == NewBlocks(r)
<1>4. made' = made \o w
  BY DEF Build
<1>5. made[Last(r.blocks)].kids = Kids[Last(r.blocks)]
  BY <1>2, TypesFacts
<1>6. r.path \in Seq(Names) /\ r.path # <<>> /\ Len(r.value) = 1 /\ r.value \in Seq(Values)
  BY <1>1 DEF Fits, Threading
<1>7. Last(r.path) \in Names \cup {"", "/"} /\ r.value[1] \in Values \cup {"old"}
  <2>1. Last(r.path) \in Names
    BY <1>6 DEF Last
  <2>2. r.value[1] \in Values
    BY <1>6
  <2> QED BY <2>1, <2>2
<1>8. /\ made' \in Seq(Blocks) /\ Len(made') = Len(made) + Len(w)
      /\ Rebuilt(Kids, Len(made), Kids', Len(made'), c, remove, Leaf(r))
  <2>1. CASE r.op \in {"mkdir", "create", "write"}
    <3> DEFINE leaf == IF r.op = "mkdir" THEN Entry("dir", Last(r.path), {})
                       ELSE IF r.op = "create" THEN Entry("file", Last(r.path), {})
                       ELSE Contents(r.value[1])
    <3>1. c = r.blocks /\ Leaf(r) = 1
      BY <2>1 DEF Copied, Leaf
    <3>2. NewBlocks(r) = <<leaf>> \o replace_chain(r.blocks, remove, {id}, id + 1)
      <4>1. CASE r.op = "mkdir"
        BY <4>1 DEF NewBlocks, Cut
      <4>2. CASE r.op = "create"
        BY <4>2 DEF NewBlocks, Cut
      <4>3. CASE r.op = "write"
        BY <1>5, <4>3 DEF NewBlocks, Cut
      <4> QED BY <2>1, <4>1, <4>2, <4>3
    <3>3. leaf \in Blocks /\ leaf.kids = {}
      <4>1. {} \in SUBSET Nat
        OBVIOUS
      <4>2. /\ Entry("dir", Last(r.path), {}) \in Blocks
            /\ Entry("dir", Last(r.path), {}).kids = {}
        BY <1>7, <4>1, EntryBlock
      <4>3. /\ Entry("file", Last(r.path), {}) \in Blocks
            /\ Entry("file", Last(r.path), {}).kids = {}
        BY <1>7, <4>1, EntryBlock
      <4>4. Contents(r.value[1]) \in Blocks /\ Contents(r.value[1]).kids = {}
        BY <1>7, ContentsBlock
      <4> QED BY <4>2, <4>3, <4>4
    <3>4. w = <<leaf>> \o replace_chain(c, remove, {Len(made) + 1}, Len(made) + 1 + 1)
      BY <3>1, <3>2
    <3> HIDE DEF leaf, remove, c, w, r
    <3> QED BY <1>3, <1>4, <3>1, <3>3, <3>4, LeafBuilt
  <2>2. CASE r.op = "rmdir"
    <3>1. c = Front(r.blocks) /\ Leaf(r) = 0 /\ remove = {Last(r.blocks)}
      BY <2>2 DEF Copied, Leaf, Cut
    <3>2. NewBlocks(r) = replace_chain(Front(r.blocks), {Last(r.blocks)}, {}, id)
      BY <2>2 DEF NewBlocks
    <3>3. w = replace_chain(c, remove, {}, Len(made) + 1)
      BY <3>1, <3>2
    <3> HIDE DEF remove, c, w, r
    <3> QED BY <1>3, <1>4, <3>1, <3>3, NoLeafBuilt
  <2> QED BY <1>1, <2>1, <2>2 DEF Changes
<1>9. th' = [th EXCEPT ![t] = [th[t] EXCEPT !.pc = "switch", !.new = Len(made')]]
  <2>1. th' = [th EXCEPT ![t].pc = "switch", ![t].new = Len(made) + Len(w)]
    BY DEF Build
  <2> HIDE DEF w
  <2>2. th' = [th EXCEPT ![t].pc = "switch", ![t].new = Len(made')]
    BY <1>8, <2>1
  <2> QED BY <1>1, <2>2 DEF Types
<1> QED BY <1>1, <1>8, <1>9

-----------------------------------------------------------------------------
(* Types hold *)

\* K2 has the blocks of K and more.
Grows(K, n, K2, n2) ==
  Older(K, n) /\ Older(K2, n2) /\ n <= n2 /\ \A x \in 1 .. n : K2[x] = K[x]

LEMMA GrowsReach ==
  ASSUME NEW K, NEW n, NEW K2, NEW n2, Grows(K, n, K2, n2), NEW id \in 1 .. n
  PROVE  Reach(K2, id) = Reach(K, id) /\ id \in 1 .. n2
BY ReachSame DEF Grows

LEMMA GrowsChain ==
  ASSUME NEW K, NEW n, NEW K2, NEW n2, Grows(K, n, K2, n2),
         NEW c, NEW root, Chain(K, c, root)
  PROVE  Chain(K2, c, root) /\ Last(c) \in 1 .. n
<1>1. Older(K, n) /\ Older(K2, n2) /\ n <= n2 /\ (\A x \in 1 .. n : K2[x] = K[x])
      /\ n \in Nat /\ n2 \in Nat
  BY DEF Grows, Older
<1>2. /\ Len(c) \in Nat /\ Len(c) >= 1 /\ root \in 1 .. n /\ c[1] = root
      /\ c \in Seq(Nat) /\ c # <<>>
      /\ \A i \in 1 .. Len(c) - 1 : c[i + 1] \in K[c[i]]
  <2>1. c # <<>>
    BY DEF Chain
  <2> QED BY <1>1, <2>1, ChainLen
<1>3. \A i \in 1 .. Len(c) : c[i] \in 1 .. n
  BY <1>1, ChainIn
<1>4. \A i \in 1 .. Len(c) - 1 : c[i + 1] \in K2[c[i]]
  <2>1. \A i \in 1 .. Len(c) - 1 : i \in 1 .. Len(c)
    BY <1>2
  <2> QED BY <1>1, <1>2, <1>3, <2>1
<1>5. root \in DOMAIN K2
  BY <1>1, <1>2 DEF Older
<1>6. Len(c) \in 1 .. Len(c)
  BY <1>2
<1> QED BY <1>2, <1>3, <1>4, <1>5, <1>6 DEF Chain, Last

LEMMA GrowsFormed ==
  ASSUME NEW K, NEW n, NEW K2, NEW n2, Grows(K, n, K2, n2), NEW r, Formed(K, r)
  PROVE  Formed(K2, r)
<1>1. DOMAIN K = 1 .. n /\ DOMAIN K2 = 1 .. n2 /\ 1 .. n \subseteq 1 .. n2
  BY DEF Grows, Older
<1>2. r.blocks # <<>> => /\ Chain(K2, r.blocks, r.blocks[1])
                         /\ Reach(K2, Last(r.blocks)) = Reach(K, Last(r.blocks))
  <2> SUFFICES ASSUME r.blocks # <<>>
               PROVE  /\ Chain(K2, r.blocks, r.blocks[1])
                      /\ Reach(K2, Last(r.blocks)) = Reach(K, Last(r.blocks))
    OBVIOUS
  <2>1. Chain(K, r.blocks, r.blocks[1])
    BY DEF Formed
  <2>2. Chain(K2, r.blocks, r.blocks[1]) /\ Last(r.blocks) \in 1 .. n
    BY <2>1, GrowsChain
  <2> QED BY <2>2, GrowsReach
<1> QED BY <1>1, <1>2 DEF Formed

LEMMA BuildGrows ==
  ASSUME Types, NEW t \in Threads, Build(t)
  PROVE  Grows(Kids, Len(made), Kids', Len(made'))
<1> DEFINE r == th[t]
           c == Copied(r)
           remove == Cut(Kids, r)
           o == Leaf(r)
           n == Len(made)
           n2 == Len(made')
           K2 == Kids'
<1>1. Rebuilt(Kids, n, K2, n2, c, remove, o)
  BY BuildStep
<1>2. Older(Kids, n) /\ Chain(Kids, c, r.root)
  <2>1. /\ Older(Kids, n) /\ r.pc \in Holding /\ r.op \in Changes /\ Formed(Kids, r)
    BY BuildStep DEF Types, Holding
  <2>2. Chain(Kids, r.blocks, r.root) /\ (r.op = "rmdir" => Len(r.blocks) >= 2)
    BY <2>1, HeldChain DEF Formed
  <2> QED BY <2>1, <2>2, CopiedCut
<1> HIDE DEF r, c, remove, o, n, n2, K2
<1>3. Older(K2, n2)
  BY <1>1, <1>2, RebuiltOlder
<1>4. n \in Nat /\ n2 \in Nat /\ n < n2
  BY <1>1, <1>2, RebuiltKids
<1>5. \A x \in 1 .. n : K2[x] = Kids[x]
  BY <1>1 DEF Rebuilt
<1>6. n <= n2
  BY <1>4
<1>7. Grows(Kids, n, K2, n2)
  BY <1>2, <1>3, <1>5, <1>6 DEF Grows
<1> QED BY <1>7 DEF n, n2, K2

\* The thread that built.
LEMMA BuildMoves ==
  ASSUME Types, NEW t \in Threads, Build(t)
  PROVE  /\ th' \in [Threads -> Threading] /\ \A u \in Threads \ {t} : th'[u] = th[u]
         /\ th'[t].pc = "switch" /\ th'[t].new = Len(made')
         /\ th'[t].op = th[t].op /\ th'[t].root = th[t].root
         /\ th'[t].blocks = th[t].blocks
         /\ Fits(th'[t]) /\ Formed(Kids', th'[t])
<1> DEFINE r == th[t]
           K2 == Kids'
           n2 == Len(made')
           q == [r EXCEPT !.pc = "switch", !.new = n2]
<1>1. r \in Threading /\ Fits(r) /\ Formed(Kids, r) /\ r.pc = "build" /\ r.op \in Changes
  BY BuildStep DEF Types
<1>2. th' = [th EXCEPT ![t] = q]
  BY BuildStep
<1>3. Grows(Kids, Len(made), K2, n2)
  BY BuildGrows
<1>4. Formed(K2, r)
  BY <1>1, <1>3, GrowsFormed
<1>5. n2 \in Nat /\ n2 \in DOMAIN K2
  <2>1. made' \in Seq(Blocks)
    BY BuildStep
  <2>2. n2 \in Nat
    BY <2>1
  <2>3. Len(made) < n2 /\ Len(made) \in Nat
    <3>1. /\ Rebuilt(Kids, Len(made), K2, n2, Copied(r), Cut(Kids, r), Leaf(r))
          /\ Older(Kids, Len(made))
      BY BuildStep DEF Types
    <3>2. r.pc \in Holding
      BY <1>1 DEF Holding
    <3>3. Chain(Kids, r.blocks, r.root) /\ (r.op = "rmdir" => Len(r.blocks) >= 2)
      BY <1>1, <3>2, HeldChain DEF Formed
    <3>4. Chain(Kids, Copied(r), r.root)
      BY <1>1, <3>1, <3>3, CopiedCut
    <3> HIDE DEF r, n2, K2
    <3> QED BY <3>1, <3>4, RebuiltKids
  <2>4. DOMAIN K2 = 1 .. n2
    BY <1>3 DEF Grows, Older
  <2> HIDE DEF n2, K2
  <2> QED BY <2>2, <2>3, <2>4
<1> HIDE DEF r, n2, K2
<1>6. q \in Threading
  BY <1>1, <1>5 DEF Threading, PCs
<1>7. /\ q.pc = "switch" /\ q.op = r.op /\ q.path = r.path /\ q.value = r.value
      /\ q.resolve = r.resolve /\ q.root = r.root /\ q.blocks = r.blocks
      /\ q.new = n2 /\ q.sweep = r.sweep
  BY <1>1 DEF Threading
<1> HIDE DEF q
<1>8. Fits(q)
  BY <1>1, <1>7 DEF Fits
<1>9. Formed(K2, q)
  BY <1>1, <1>4, <1>5, <1>7 DEF Formed, Holding
<1>10. /\ th'[t] = q /\ \A u \in Threads \ {t} : th'[u] = th[u]
       /\ th' \in [Threads -> Threading]
  BY <1>2, <1>6, OneThread
<1> QED BY <1>7, <1>8, <1>9, <1>10 DEF K2, n2, r

LEMMA BuildTypes ==
  ASSUME Types, NEW t \in Threads, Build(t)
  PROVE  /\ made' \in Seq(Blocks) /\ Older(Kids', Len(made'))
         /\ DOMAIN made \subseteq DOMAIN made'
         /\ th' \in [Threads -> Threading]
         /\ \A u \in Threads : Fits(th'[u]) /\ Formed(Kids', th'[u])
<1>1. made' \in Seq(Blocks) /\ Grows(Kids, Len(made), Kids', Len(made'))
  BY BuildStep, BuildGrows
<1>2. Older(Kids', Len(made'))
  BY <1>1 DEF Grows
<1>3. DOMAIN made \subseteq DOMAIN made'
  <2>1. DOMAIN made = 1 .. Len(made) /\ DOMAIN made' = 1 .. Len(made')
    BY <1>1, TypesFacts
  <2>2. Len(made) \in Nat /\ Len(made') \in Nat /\ Len(made) <= Len(made')
    BY <1>1 DEF Grows, Older
  <2> QED BY <2>1, <2>2
<1>4. \A u \in Threads : Fits(th[u]) /\ Formed(Kids', th[u])
  <2>1. \A u \in Threads : Fits(th[u]) /\ Formed(Kids, th[u])
    BY DEF Types
  <2> QED BY <1>1, <2>1, GrowsFormed
<1>5. /\ th' \in [Threads -> Threading] /\ \A u \in Threads \ {t} : th'[u] = th[u]
      /\ Fits(th'[t]) /\ Formed(Kids', th'[t])
  BY BuildMoves
<1> QED BY <1>1, <1>2, <1>3, <1>4, <1>5, Zenon

\* What the blocks and the threads are after a step.
LEMMA WorkTypes ==
  ASSUME Types, NEW t \in Threads, Step(t)
  PROVE  /\ made' \in Seq(Blocks) /\ Older(Kids', Len(made'))
         /\ DOMAIN made \subseteq DOMAIN made'
         /\ th' \in [Threads -> Threading]
         /\ \A u \in Threads : Fits(th'[u]) /\ Formed(Kids', th'[u])
<1>1. ASSUME made' = made, Moves(t, th'[t])
      PROVE  /\ made' \in Seq(Blocks) /\ Older(Kids', Len(made'))
             /\ DOMAIN made \subseteq DOMAIN made'
             /\ th' \in [Threads -> Threading]
             /\ \A u \in Threads : Fits(th'[u]) /\ Formed(Kids', th'[u])
  <2> DEFINE r == th'[t]
  <2>1. r \in Threading /\ th' = [th EXCEPT ![t] = r] /\ Fits(r) /\ Formed(Kids, r)
    BY <1>1 DEF Moves
  <2> HIDE DEF r
  <2>2. DOMAIN made \subseteq DOMAIN made'
    BY <1>1
  <2> QED BY <1>1, <2>1, <2>2, SameBlocks
<1>2. CASE Call(t)
  BY <1>1, <1>2, CallStep DEF Call
<1>3. CASE Root(t)
  BY <1>1, <1>3, RootStep DEF Root
<1>4. CASE RaceCrash(t)
  <2>1. made' = made /\ th' = th
    BY <1>4 DEF RaceCrash
  <2>2. Kids' = Kids
    BY <2>1 DEF Kids
  <2> QED BY <2>1, <2>2 DEF Types
<1>5. CASE Walk(t)
  BY <1>1, <1>5, WalkStep
<1>6. CASE Fetch(t)
  BY <1>1, <1>6, FetchStep
<1>7. CASE Sweep(t)
  BY <1>1, <1>7, SweepStep
<1>8. CASE Build(t)
  BY <1>8, BuildTypes
<1>9. CASE BeginSwitch(t)
  <2>1. th[t].pc \in {"switch", "switching"} /\ "switching" \in {"switching", "free"}
        /\ th' = [th EXCEPT ![t].pc = "switching"] /\ made' = made
    BY <1>9 DEF BeginSwitch
  <2>2. Moves(t, th'[t])
    BY <2>1, SwitchMoves
  <2> QED BY <1>1, <2>1, <2>2
<1>10. CASE EndSwitch(t)
  <2>1. th[t].pc \in {"switch", "switching"} /\ "free" \in {"switching", "free"}
        /\ th' = [th EXCEPT ![t].pc = "free"] /\ made' = made
    BY <1>10 DEF EndSwitch
  <2>2. Moves(t, th'[t])
    BY <2>1, SwitchMoves
  <2> QED BY <1>1, <2>1, <2>2
<1>11. CASE FreePath(t)
  BY <1>1, <1>11, FreePathStep
<1> QED BY <1>2, <1>3, <1>4, <1>5, <1>6, <1>7, <1>8, <1>9, <1>10, <1>11 DEF Step, Work

\* The blocks freed by a step.
LEMMA WorkFrees ==
  ASSUME Types, NEW t \in Threads, Step(t)
  PROVE  freed' \subseteq DOMAIN made /\ root_block_' \in DOMAIN made'
         /\ calls' \in 0 .. MaxCalls
<1>1. /\ freed \subseteq DOMAIN made /\ root_block_ \in DOMAIN made /\ calls \in 0 .. MaxCalls
      /\ Older(Kids, Len(made)) /\ DOMAIN made = 1 .. Len(made)
      /\ DOMAIN made \subseteq DOMAIN made'
  BY TypesFacts, WorkTypes DEF Types
<1>2. CASE Call(t)
  <2>1. calls' \in 0 .. MaxCalls
    BY <1>1, <1>2, ThreadBounds DEF Call
  <2> QED BY <1>1, <1>2, <2>1 DEF Call
<1>3. CASE Root(t) \/ RaceCrash(t) \/ Build(t) \/ BeginSwitch(t)
  BY <1>1, <1>3 DEF Root, RaceCrash, Build, BeginSwitch
<1>4. CASE Walk(t)
  <2>1. freed' = freed
    BY <1>4, WalkStep
  <2>2. root_block_' = root_block_ /\ calls' = calls
    BY <1>4 DEF Walk
  <2> QED BY <1>1, <2>1, <2>2
<1>5. CASE Fetch(t)
  <2>1. freed' = freed
    BY <1>5, FetchStep
  <2>2. root_block_' = root_block_ /\ calls' = calls
    BY <1>5 DEF Fetch
  <2> QED BY <1>1, <2>1, <2>2
<1>6. CASE EndSwitch(t)
  <2>1. freed' = freed /\ calls' = calls /\ root_block_' = th[t].new /\ made' = made
        /\ th[t].pc = "switching"
    BY <1>6 DEF EndSwitch
  <2>2. th[t].new \in DOMAIN Kids /\ DOMAIN Kids = DOMAIN made
    BY <2>1 DEF Types, Formed, Kids
  <2> QED BY <1>1, <2>1, <2>2
<1>7. CASE FreePath(t)
  <2>1. freed' = freed \cup ToSet(th[t].blocks) /\ th[t].pc = "free"
    BY <1>7, FreePathStep
  <2>2. th[t].pc \in Holding
    BY <2>1 DEF Holding
  <2>3. ToSet(th[t].blocks) \subseteq Reach(Kids, th[t].root) /\ th[t].root \in 1 .. Len(made)
    BY <2>2, HeldChain
  <2>4. Reach(Kids, th[t].root) \subseteq 1 .. Len(made)
    BY <1>1, <2>3, ReachClosed
  <2>5. root_block_' = root_block_ /\ calls' = calls
    BY <1>7 DEF FreePath
  <2> QED BY <1>1, <2>1, <2>3, <2>4, <2>5
<1>8. CASE Sweep(t)
  <2>1. /\ th[t].pc = "sweep"
        /\ freed' = freed \/ \E id \in th[t].sweep : freed' = freed \cup Kids[id]
    BY <1>8, SweepStep
  <2>2. th[t].pc \in Holding
    BY <2>1 DEF Holding
  <2>3. /\ Last(th[t].blocks) \in 1 .. Len(made)
        /\ th[t].sweep \subseteq Reach(Kids, Last(th[t].blocks))
    BY <2>1, <2>2, HeldChain DEF Types, Fits, Formed
  <2>4. \A id \in th[t].sweep : Kids[id] \subseteq 1 .. Len(made)
    BY <1>1, <2>3, SweepKids
  <2>5. root_block_' = root_block_ /\ calls' = calls
    BY <1>8 DEF Sweep
  <2> QED BY <1>1, <2>1, <2>4, <2>5
<1> QED BY <1>2, <1>3, <1>4, <1>5, <1>6, <1>7, <1>8 DEF Step, Work

LEMMA WorkFlags ==
  ASSUME Types, NEW t \in Threads, Step(t)
  PROVE  crashed' \in BOOLEAN /\ stale' \in BOOLEAN
<1>1. crashed \in BOOLEAN /\ stale \in BOOLEAN
  BY DEF Types
<1>2. CASE Call(t) \/ Root(t) \/ Fetch(t) \/ Sweep(t) \/ Build(t) \/ BeginSwitch(t)
           \/ FreePath(t)
  <2>1. crashed' = crashed /\ stale' = stale
    BY <1>2 DEF Call, Root, Fetch, Sweep, Build, BeginSwitch, FreePath
  <2> QED BY <1>1, <2>1, Zenon
<1>3. CASE RaceCrash(t)
  <2>1. crashed' = TRUE /\ stale' = stale
    BY <1>3, Zenon DEF RaceCrash
  <2> QED BY <1>1, <2>1, Zenon
<1>4. CASE Walk(t)
  <2>1. crashed' \in BOOLEAN
    BY <1>4, WalkStep
  <2>2. stale' = stale
    BY <1>4 DEF Walk
  <2> QED BY <1>1, <2>1, <2>2, Zenon
<1>5. CASE EndSwitch(t)
  <2>1. crashed' = crashed
    BY <1>5 DEF EndSwitch
  <2>2. stale' = (stale \/ root_block_ # th[t].root)
    BY <1>5, Zenon DEF EndSwitch
  <2>3. stale' \in BOOLEAN
    BY <2>2, Zenon
  <2> QED BY <1>1, <2>1, <2>3, Zenon
<1> QED BY <1>2, <1>3, <1>4, <1>5, Zenon DEF Step, Work

LEMMA NextTypes == Types /\ [Next]_vars => Types'
<1> SUFFICES ASSUME Types, [Next]_vars PROVE Types'
  OBVIOUS
<1>1. CASE UNCHANGED vars
  <2>1. /\ made' = made /\ freed' = freed /\ root_block_' = root_block_ /\ th' = th
        /\ crashed' = crashed /\ calls' = calls /\ stale' = stale /\ beside' = beside
    BY <1>1 DEF vars
  <2>2. Kids' = Kids
    BY <2>1 DEF Kids
  <2> QED BY <2>1, <2>2, Zenon DEF Types
<1>2. CASE Next
  <2>1. PICK t \in Threads : Step(t)
    BY <1>2 DEF Next
  <2>2. beside' \subseteq Threads
    BY <1>2 DEF Next, Watch
  <2>3. /\ made' \in Seq(Blocks) /\ Older(Kids', Len(made'))
        /\ DOMAIN made \subseteq DOMAIN made'
        /\ th' \in [Threads -> Threading]
        /\ \A u \in Threads : Fits(th'[u]) /\ Formed(Kids', th'[u])
    BY <2>1, WorkTypes
  <2>4. freed' \subseteq DOMAIN made /\ root_block_' \in DOMAIN made'
        /\ calls' \in 0 .. MaxCalls
    BY <2>1, WorkFrees
  <2>5. freed' \subseteq DOMAIN made'
    BY <2>3, <2>4
  <2>6. crashed' \in BOOLEAN /\ stale' \in BOOLEAN
    BY <2>1, WorkFlags
  <2> QED BY <2>2, <2>3, <2>4, <2>5, <2>6, Zenon DEF Types
<1> QED BY <1>1, <1>2

LEMMA TypesAlways == Spec => []Types
<1> QED BY InitTypes, NextTypes, PTL DEF Spec

\* Blocks name only older blocks, and a thread holds only blocks that were made,
\* on a path from its root: block_fuse.cc never follows a child in a circle.
THEOREM FuseTypes == Spec => []TypeOK
<1>1. ASSUME Types PROVE TypeOK
  <2>1. /\ Older(Kids, Len(made)) /\ DOMAIN made = 1 .. Len(made) /\ Len(made) \in Nat
        /\ \A id \in 1 .. Len(made) : made[id] \in Blocks /\ Kids[id] = made[id].kids
    BY <1>1, TypesFacts DEF Types
  <2>2. ASSUME NEW id \in DOMAIN made
        PROVE  /\ made[id].kind \in {"dir", "file", "contents"}
               /\ \A kid \in made[id].kids : kid \in 1 .. id - 1
    <3>1. id \in 1 .. Len(made)
      BY <2>1
    <3>2. made[id].kind \in {"dir", "file", "contents"}
      BY <2>1, <3>1 DEF Blocks, Kinds
    <3>3. \A kid \in made[id].kids : kid \in 1 .. Len(made) /\ kid < id
      BY <2>1, <3>1 DEF Older
    <3> QED BY <2>1, <3>1, <3>2, <3>3
  <2>3. ASSUME NEW t \in Threads
        PROVE  LET r == th[t] IN
               /\ r.pc \in PCs
               /\ {r.root, r.new} \subseteq {0} \cup DOMAIN made
               /\ ToSet(r.blocks) \cup r.sweep \subseteq DOMAIN made
               /\ r.blocks # <<>> => Head(r.blocks) = r.root \/ r.op = "create"
    <3> DEFINE r == th[t]
    <3>1. r \in Threading /\ Formed(Kids, r) /\ DOMAIN Kids = DOMAIN made
      BY <1>1, TypesFacts DEF Types
    <3> HIDE DEF r
    <3>2. r.pc \in PCs /\ r.blocks \in Seq(Nat)
      BY <3>1 DEF Threading
    <3>3. {r.root, r.new} \subseteq {0} \cup DOMAIN made
      BY <3>1 DEF Formed
    <3>4. r.blocks # <<>> => Head(r.blocks) = r.root \/ r.op = "create"
      BY <3>1, <3>2 DEF Formed
    <3>5. CASE r.blocks = <<>>
      <4>1. r.sweep = {}
        BY <3>1, <3>5 DEF Formed
      <4>2. ToSet(r.blocks) = {}
        BY <3>5 DEF ToSet
      <4> QED BY <3>2, <3>3, <3>4, <4>1, <4>2 DEF r
    <3>6. CASE r.blocks # <<>>
      <4>1. Chain(Kids, r.blocks, r.blocks[1])
        BY <3>1, <3>6 DEF Formed
      <4>2. \A i \in 1 .. Len(r.blocks) : r.blocks[i] \in 1 .. Len(made)
        BY <2>1, <4>1, ChainIn
      <4>3. Len(r.blocks) \in 1 .. Len(r.blocks) /\ DOMAIN r.blocks = 1 .. Len(r.blocks)
        BY <3>2, <3>6
      <4>4. ToSet(r.blocks) \subseteq DOMAIN made /\ Last(r.blocks) \in 1 .. Len(made)
        BY <2>1, <4>2, <4>3 DEF ToSet, Last
      <4>5. Reach(Kids, Last(r.blocks)) \subseteq 1 .. Len(made)
        BY <2>1, <4>4, ReachClosed
      <4>6. r.sweep \subseteq DOMAIN made
        BY <2>1, <3>1, <4>5 DEF Formed
      <4> QED BY <3>2, <3>3, <3>4, <4>4, <4>6 DEF r
    <3> QED BY <3>5, <3>6
  <2>4. /\ freed \subseteq DOMAIN made /\ root_block_ \in DOMAIN made
        /\ crashed \in BOOLEAN /\ stale \in BOOLEAN
        /\ calls \in 0 .. MaxCalls /\ beside \subseteq Threads
    BY <1>1 DEF Types
  <2> QED BY <2>2, <2>3, <2>4, Zenon DEF TypeOK
<1> QED BY <1>1, TypesAlways, PTL

-----------------------------------------------------------------------------
(* No block in use is dropped, no dropped block forgotten *)

\* What a thread has made and not yet put in place.
Unplaced(r) == r.pc \in {"switch", "switching"}
Fresh(r) ==
  (r.new - Len(r.blocks) + (IF r.op = "rmdir" THEN 2 ELSE 0)) .. r.new
Hidden == UNION {Fresh(th[t]) : t \in {u \in Threads : Unplaced(th[u])}}

\* What is below the last block of the path.
Under(K, r) == Reach(K, Last(r.blocks)) \ {Last(r.blocks)}

\* What a change takes out of the tree besides the path.
Gone(K, r) == IF r.op \in {"rmdir", "write"} THEN Under(K, r) ELSE {}

\* What a sweep has still to free.
Left(K, sweep) == UNION {Reach(K, id) \ {id} : id \in sweep}

\* What a thread will free of blocks no longer in the tree.
Pending(K, r) ==
  IF r.pc = "free"
  THEN ToSet(r.blocks) \cup (IF r.op = "rmdir" THEN Under(K, r) ELSE {})
  ELSE IF r.pc = "sweep" /\ r.op = "rmdir" THEN Left(K, r.sweep) ELSE {}

\* Nobody works on blocks another thread has not put in place; a write has
\* freed the old contents before it puts the new ones in place.
Apart(K, F, H, r) ==
  /\ r.pc \in Holding \cup {"walk"} => Reach(K, r.root) \cap H = {}
  /\ r.op = "write" /\ r.pc = "sweep" => Under(K, r) \subseteq F \cup Left(K, r.sweep)
  /\ r.op = "write" /\ r.pc \in {"build", "switch", "switching"} => Under(K, r) \subseteq F

\* The new blocks are the tree without the path and what is gone.
Prepared(K, r) ==
  Unplaced(r) =>
    /\ Fresh(r) \subseteq DOMAIN K /\ r.new \in Fresh(r)
    /\ Reach(K, r.new) \subseteq Fresh(r) \cup Reach(K, r.root)
    /\ Fresh(r) \subseteq Reach(K, r.new)
    /\ Reach(K, r.root) \subseteq Reach(K, r.new) \cup ToSet(r.blocks) \cup Gone(K, r)
    /\ Tree(K, r.root) =>
         Tree(K, r.new) /\ Reach(K, r.new) \cap (ToSet(r.blocks) \cup Gone(K, r)) = {}

Separate ==
  /\ \A t \in Threads : Apart(Kids, freed, Hidden, th[t]) /\ Prepared(Kids, th[t])
  /\ \A t, u \in Threads : t # u /\ Unplaced(th[t]) /\ Unplaced(th[u]) =>
       Fresh(th[t]) \cap Fresh(th[u]) = {}
  /\ Reach(Kids, root_block_) \cap Hidden = {}
  /\ freed \cap Hidden = {}

\* The tree, while no update is lost: blocks have one parent, none is freed but
\* for what a write replaces, and none will be by a thread done with the root.
Whole ==
  /\ Tree(Kids, root_block_)
  /\ \A x \in freed \cap Reach(Kids, root_block_) :
       \E t \in Threads : Scraps(th[t]) /\ x \in Under(Kids, th[t])
  /\ \A t \in Threads : Pending(Kids, th[t]) \cap Reach(Kids, root_block_) = {}

\* Every other block is freed, or a thread has it to put in place or to free.
Covered ==
  \A x \in DOMAIN made :
    \/ x \in Reach(Kids, root_block_) \cup freed
    \/ \E t \in Threads : \/ Unplaced(th[t]) /\ x \in Fresh(th[t])
                          \/ x \in Pending(Kids, th[t])

Sound ==
  ~ stale => Whole /\ (Covered \/ \E t \in Threads : th[t].pc = "hung")

LEMMA HiddenIs ==
  ASSUME NEW x
  PROVE  /\ x \in Hidden <=> \E u \in Threads : Unplaced(th[u]) /\ x \in Fresh(th[u])
         /\ x \in Hidden' <=> \E u \in Threads : Unplaced(th'[u]) /\ x \in Fresh(th'[u])
BY DEF Hidden, Unplaced, Fresh

\* More is freed, or put in place.
LEMMA ApartStays ==
  ASSUME NEW K, NEW F, NEW H, NEW r, Apart(K, F, H, r),
         NEW F2, F \subseteq F2, NEW H2, H2 \subseteq H
  PROVE  Apart(K, F2, H2, r)
BY DEF Apart

\* A step in which no block is made and a thread comes to hold none back.
LEMMA SeparateStays ==
  ASSUME Types, Separate, NEW t \in Threads, NEW r \in Threading,
         th' = [th EXCEPT ![t] = r], made' = made, freed \subseteq freed',
         Unplaced(r) => Unplaced(th[t]) /\ Fresh(r) = Fresh(th[t]),
         Apart(Kids, freed', Hidden, r), Prepared(Kids, r),
         Reach(Kids, root_block_') \cap Hidden' = {}, freed' \cap Hidden = {}
  PROVE  Separate'
<1>1. /\ th'[t] = r /\ \A u \in Threads \ {t} : th'[u] = th[u]
      /\ th' \in [Threads -> Threading]
  BY OneThread
<1>2. Kids' = Kids
  BY DEF Kids
<1>3. \A u \in Threads : Unplaced(th'[u]) => Unplaced(th[u]) /\ Fresh(th'[u]) = Fresh(th[u])
  BY <1>1
<1>4. Hidden' \subseteq Hidden
  BY <1>3, HiddenIs
<1>5. ASSUME NEW u \in Threads
      PROVE  Apart(Kids, freed', Hidden', th'[u]) /\ Prepared(Kids, th'[u])
  <2>1. Apart(Kids, freed, Hidden, th[u]) /\ Prepared(Kids, th[u])
    BY DEF Separate
  <2>2. Apart(Kids, freed', Hidden', th[u])
    BY <1>4, <2>1, ApartStays
  <2>3. Apart(Kids, freed', Hidden', r)
    BY <1>4, ApartStays
  <2> QED BY <1>1, <2>1, <2>2, <2>3
<1>6. \A u, v \in Threads : u # v /\ Unplaced(th'[u]) /\ Unplaced(th'[v]) =>
        Fresh(th'[u]) \cap Fresh(th'[v]) = {}
  BY <1>3 DEF Separate
<1>7. freed' \cap Hidden' = {}
  BY <1>4
<1> QED BY <1>2, <1>5, <1>6, <1>7 DEF Separate

\* In most places a thread is apart and has nothing prepared.
LEMMA ApartElsewhere ==
  ASSUME NEW K, NEW F, NEW H, NEW r, r.pc \notin Holding \cup {"walk"}
  PROVE  Apart(K, F, H, r) /\ Prepared(K, r) /\ ~ Unplaced(r)
         /\ Pending(K, r) = {}
BY DEF Apart, Prepared, Unplaced, Holding, Pending

\* What one more block swept leaves.
Swept(K, sweep, id) == (sweep \ {id}) \cup K[id]

LEMMA SweepLeft ==
  ASSUME NEW n, NEW K, Older(K, n), NEW sweep, sweep \subseteq 1 .. n, NEW id \in sweep
  PROVE  /\ K[id] \subseteq Left(K, sweep)
         /\ Left(K, Swept(K, sweep, id)) \subseteq Left(K, sweep)
         /\ Left(K, sweep) \subseteq K[id] \cup Left(K, Swept(K, sweep, id))
<1> DEFINE left == Swept(K, sweep, id)
<1>0. left = (sweep \ {id}) \cup K[id]
  BY DEF Swept
<1> HIDE DEF left
<1>1. /\ Reach(K, id) = {id} \cup UNION {Reach(K, k) : k \in K[id]}
      /\ \A k \in K[id] : k \in 1 .. n /\ id \notin Reach(K, k)
  BY ReachKid
<1>2. \A k \in K[id] : k \in Reach(K, k)
  BY <1>1, ReachClosed
<1>3. \A k \in K[id] : Reach(K, k) \subseteq Reach(K, id) \ {id}
  BY <1>1
<1>4. K[id] \subseteq Left(K, sweep)
  BY <1>2, <1>3 DEF Left
<1>5. Left(K, left) \subseteq Left(K, sweep)
  <2> SUFFICES ASSUME NEW x \in Left(K, left) PROVE x \in Left(K, sweep)
    OBVIOUS
  <2>1. PICK y \in left : x \in Reach(K, y) \ {y}
    BY DEF Left
  <2>2. CASE y \in sweep
    BY <2>1, <2>2 DEF Left
  <2>3. CASE y \in K[id]
    BY <1>3, <2>1, <2>3 DEF Left
  <2> QED BY <1>0, <2>2, <2>3
<1>6. Left(K, sweep) \subseteq K[id] \cup Left(K, left)
  <2> SUFFICES ASSUME NEW x \in Left(K, sweep), x \notin K[id] PROVE x \in Left(K, left)
    OBVIOUS
  <2>1. PICK y \in sweep : x \in Reach(K, y) \ {y}
    BY DEF Left
  <2>2. CASE y # id
    BY <1>0, <2>1, <2>2 DEF Left
  <2>3. CASE y = id
    <3>1. PICK k \in K[id] : x \in Reach(K, k)
      BY <1>1, <2>1, <2>3
    <3>2. x # k /\ k \in left
      BY <1>0
    <3> QED BY <3>1, <3>2 DEF Left
  <2> QED BY <2>2, <2>3
<1> QED BY <1>4, <1>5, <1>6 DEF left

\* A step in which no block is made and the root stays: the blocks D that it
\* frees are ones the thread had to free, or contents it replaces.
LEMMA SoundStays ==
  ASSUME Types, Sound, NEW t \in Threads, NEW r \in Threading,
         th' = [th EXCEPT ![t] = r], made' = made, root_block_' = root_block_,
         stale' = stale, th[t].pc # "hung", NEW D, freed' = freed \cup D,
         D \subseteq Pending(Kids, th[t]) \/ (Scraps(r) /\ D \subseteq Under(Kids, r)),
         Pending(Kids, r) \subseteq Pending(Kids, th[t]),
         r.pc = "hung" \/ Pending(Kids, th[t]) \subseteq Pending(Kids, r) \cup freed',
         Scraps(th[t]) => Scraps(r) /\ Under(Kids, r) = Under(Kids, th[t]),
         Unplaced(th[t]) => Unplaced(r) /\ Fresh(r) = Fresh(th[t])
  PROVE  Sound'
<1>1. /\ th'[t] = r /\ \A u \in Threads \ {t} : th'[u] = th[u]
  BY OneThread
<1>2. Kids' = Kids
  BY DEF Kids
<1> SUFFICES ASSUME ~ stale PROVE Whole' /\ (Covered' \/ \E u \in Threads : th'[u].pc = "hung")
  BY DEF Sound
<1>3. Whole /\ (Covered \/ \E u \in Threads : th[u].pc = "hung")
  BY DEF Sound
<1>4. Whole'
  <2>1. Tree(Kids, root_block_')
    BY <1>3 DEF Whole
  <2>2. ASSUME NEW x \in freed' \cap Reach(Kids, root_block_)
        PROVE  \E u \in Threads : Scraps(th'[u]) /\ x \in Under(Kids, th'[u])
    <3>1. CASE x \in freed
      <4>1. PICK u \in Threads : Scraps(th[u]) /\ x \in Under(Kids, th[u])
        BY <1>3, <3>1 DEF Whole
      <4>2. CASE u = t
        BY <1>1, <4>1, <4>2
      <4>3. CASE u # t
        BY <1>1, <4>1, <4>3
      <4> QED BY <4>2, <4>3
    <3>2. CASE x \in D
      <4>1. Pending(Kids, th[t]) \cap Reach(Kids, root_block_) = {}
        BY <1>3 DEF Whole
      <4>2. Scraps(r) /\ x \in Under(Kids, r)
        BY <3>2, <4>1
      <4> QED BY <1>1, <4>2
    <3> QED BY <3>1, <3>2
  <2>3. \A u \in Threads : Pending(Kids, th'[u]) \cap Reach(Kids, root_block_) = {}
    <3>1. \A u \in Threads : Pending(Kids, th[u]) \cap Reach(Kids, root_block_) = {}
      BY <1>3 DEF Whole
    <3>2. \A u \in Threads : Pending(Kids, th'[u]) \subseteq Pending(Kids, th[u])
      BY <1>1
    <3> QED BY <3>1, <3>2
  <2> QED BY <1>2, <2>1, <2>2, <2>3 DEF Whole
<1>5. CASE \E u \in Threads : th[u].pc = "hung"
  BY <1>1, <1>4, <1>5
<1>6. CASE r.pc = "hung"
  BY <1>1, <1>4, <1>6
<1>7. CASE Covered /\ r.pc # "hung"
  <2>1. ASSUME NEW x \in DOMAIN made
        PROVE  \/ x \in Reach(Kids, root_block_) \cup freed'
               \/ \E u \in Threads : \/ Unplaced(th'[u]) /\ x \in Fresh(th'[u])
                                     \/ x \in Pending(Kids, th'[u])
    <3>1. CASE x \in Reach(Kids, root_block_) \cup freed
      BY <3>1
    <3>2. ASSUME NEW u \in Threads,
                 (Unplaced(th[u]) /\ x \in Fresh(th[u])) \/ x \in Pending(Kids, th[u])
          PROVE  \/ x \in Reach(Kids, root_block_) \cup freed'
                 \/ \E v \in Threads : \/ Unplaced(th'[v]) /\ x \in Fresh(th'[v])
                                       \/ x \in Pending(Kids, th'[v])
      <4>1. CASE u = t
        BY <1>1, <1>7, <3>2, <4>1
      <4>2. CASE u # t
        BY <1>1, <3>2, <4>2
      <4> QED BY <4>1, <4>2
    <3> QED BY <1>7, <3>1, <3>2 DEF Covered
  <2>2. Covered'
    BY <1>2, <2>1 DEF Covered
  <2> QED BY <1>4, <2>2
<1> QED BY <1>3, <1>5, <1>6, <1>7

\* A step that frees nothing, by a thread with nothing to free.
LEMMA SoundQuiet ==
  ASSUME Types, Sound, NEW t \in Threads, NEW r \in Threading,
         th' = [th EXCEPT ![t] = r], made' = made, root_block_' = root_block_,
         stale' = stale, th[t].pc # "hung", freed' = freed,
         Pending(Kids, th[t]) = {}, Pending(Kids, r) = {},
         Scraps(th[t]) => Scraps(r) /\ Under(Kids, r) = Under(Kids, th[t]),
         Unplaced(th[t]) => Unplaced(r) /\ Fresh(r) = Fresh(th[t])
  PROVE  Sound'
<1> DEFINE D == {}
<1>1. freed' = freed \cup D /\ D \subseteq Pending(Kids, th[t])
  OBVIOUS
<1>2. /\ Pending(Kids, r) \subseteq Pending(Kids, th[t])
      /\ Pending(Kids, th[t]) \subseteq Pending(Kids, r) \cup freed'
  OBVIOUS
<1> HIDE DEF D
<1> QED BY <1>1, <1>2, SoundStays

\* The same when the root stays.
LEMMA SeparateQuiet ==
  ASSUME Types, Separate, NEW t \in Threads, NEW r \in Threading,
         th' = [th EXCEPT ![t] = r], made' = made, root_block_' = root_block_,
         NEW D, freed' = freed \cup D, D \cap Hidden = {},
         Unplaced(r) => Unplaced(th[t]) /\ Fresh(r) = Fresh(th[t]),
         Apart(Kids, freed', Hidden, r), Prepared(Kids, r)
  PROVE  Separate'
<1>1. /\ th'[t] = r /\ \A u \in Threads \ {t} : th'[u] = th[u]
  BY OneThread
<1>2. Hidden' \subseteq Hidden
  BY <1>1, HiddenIs
<1>3. Reach(Kids, root_block_) \cap Hidden = {} /\ freed \cap Hidden = {}
  BY DEF Separate
<1>4. Reach(Kids, root_block_') \cap Hidden' = {}
  BY <1>2, <1>3
<1>5. freed' \cap Hidden = {} /\ freed \subseteq freed'
  BY <1>3
<1> QED BY <1>4, <1>5, SeparateStays

\* A step to or from a place where a thread holds nothing.
LEMMA RestStep ==
  ASSUME Types, Separate, Sound, NEW t \in Threads, Moves(t, th'[t]),
         made' = made, freed' = freed, root_block_' = root_block_, stale' = stale,
         th[t].pc # "hung", ~ Scraps(th[t]), ~ Unplaced(th[t]),
         Pending(Kids, th[t]) = {}, th'[t].pc \notin Holding \cup {"walk"}
  PROVE  Separate' /\ Sound'
<1> DEFINE r == th'[t]
           D == {}
<1>1. r \in Threading /\ th' = [th EXCEPT ![t] = r]
  BY DEF Moves
<1> HIDE DEF r
<1>2. Apart(Kids, freed', Hidden, r) /\ Prepared(Kids, r) /\ ~ Unplaced(r)
      /\ Pending(Kids, r) = {}
  BY ApartElsewhere DEF r
<1>3. freed' = freed \cup D /\ D \cap Hidden = {}
  OBVIOUS
<1> HIDE DEF D
<1>4. Separate'
  BY <1>1, <1>2, <1>3, SeparateQuiet
<1>5. Sound'
  BY <1>1, <1>2, SoundQuiet
<1> QED BY <1>4, <1>5

\* A step to a place where a thread has a root to walk or a path from it, and
\* nothing to put in place.
LEMMA GoOnStep ==
  ASSUME Types, Separate, Sound, NEW t \in Threads, Moves(t, th'[t]),
         made' = made, freed' = freed, root_block_' = root_block_, stale' = stale,
         th[t].pc # "hung", ~ Scraps(th[t]), ~ Unplaced(th[t]),
         Pending(Kids, th[t]) = {}, ~ Unplaced(th'[t]), Pending(Kids, th'[t]) = {},
         Apart(Kids, freed, Hidden, th'[t])
  PROVE  Separate' /\ Sound'
<1> DEFINE r == th'[t]
           D == {}
<1>1. r \in Threading /\ th' = [th EXCEPT ![t] = r]
  BY DEF Moves
<1> HIDE DEF r
<1>2. Apart(Kids, freed', Hidden, r) /\ ~ Unplaced(r) /\ Pending(Kids, r) = {}
  BY DEF r
<1>3. Prepared(Kids, r)
  BY <1>2 DEF Prepared
<1>4. freed' = freed \cup D /\ D \cap Hidden = {}
  OBVIOUS
<1> HIDE DEF D
<1>5. Separate'
  BY <1>1, <1>2, <1>3, <1>4, SeparateQuiet
<1>6. Sound'
  BY <1>1, <1>2, SoundQuiet
<1> QED BY <1>5, <1>6

LEMMA CallSound ==
  ASSUME Types, Separate, Sound, NEW t \in Threads, Call(t)
  PROVE  Separate' /\ Sound'
<1>1. Moves(t, th'[t]) /\ th[t].pc = "idle" /\ th'[t].pc = "root"
  BY CallStep
<1>2. made' = made /\ freed' = freed /\ root_block_' = root_block_ /\ stale' = stale
  BY DEF Call
<1>3. ~ Scraps(th[t]) /\ ~ Unplaced(th[t]) /\ Pending(Kids, th[t]) = {}
  BY <1>1 DEF Scraps, Unplaced, Pending
<1>4. th'[t].pc \notin Holding \cup {"walk"} /\ th[t].pc # "hung"
  BY <1>1 DEF Holding
<1> QED BY <1>1, <1>2, <1>3, <1>4, RestStep

LEMMA RootSound ==
  ASSUME Types, Separate, Sound, NEW t \in Threads, Root(t)
  PROVE  Separate' /\ Sound'
<1>1. /\ Moves(t, th'[t]) /\ th[t].pc = "root"
      /\ th'[t].pc = "walk" /\ th'[t].root = root_block_
  BY RootStep
<1>2. made' = made /\ freed' = freed /\ root_block_' = root_block_ /\ stale' = stale
  BY DEF Root
<1>3. ~ Scraps(th[t]) /\ ~ Unplaced(th[t]) /\ Pending(Kids, th[t]) = {}
      /\ ~ Unplaced(th'[t]) /\ Pending(Kids, th'[t]) = {}
  BY <1>1 DEF Scraps, Unplaced, Pending
<1>4. Apart(Kids, freed, Hidden, th'[t])
  BY <1>1 DEF Apart, Separate
<1> QED BY <1>1, <1>2, <1>3, <1>4, GoOnStep

LEMMA WalkSound ==
  ASSUME Types, Separate, Sound, NEW t \in Threads, Walk(t)
  PROVE  Separate' /\ Sound'
<1>1. /\ Moves(t, th'[t]) /\ th[t].pc = "walk"
      /\ th'[t].pc \in {"hung", "idle", "build", "fetch", "root", "aborted"}
      /\ th'[t].pc \in {"build", "fetch"} => th'[t].root = th[t].root
      /\ th'[t].pc = "build" => th'[t].op # "write"
      /\ made' = made /\ freed' = freed
  BY WalkStep
<1>2. root_block_' = root_block_ /\ stale' = stale
  BY DEF Walk
<1>3. ~ Scraps(th[t]) /\ ~ Unplaced(th[t]) /\ Pending(Kids, th[t]) = {}
      /\ ~ Unplaced(th'[t]) /\ Pending(Kids, th'[t]) = {}
  BY <1>1 DEF Scraps, Unplaced, Pending
<1>4. Apart(Kids, freed, Hidden, th[t])
  BY DEF Separate
<1>5. Apart(Kids, freed, Hidden, th'[t])
  BY <1>1, <1>4 DEF Apart, Holding
<1> QED BY <1>1, <1>2, <1>3, <1>5, GoOnStep

LEMMA FetchSound ==
  ASSUME Types, Separate, Sound, NEW t \in Threads, Fetch(t)
  PROVE  Separate' /\ Sound'
<1>1. /\ Moves(t, th'[t]) /\ th[t].pc = "fetch"
      /\ th'[t].pc \in {"hung", "idle", "sweep"}
      /\ th'[t].pc = "sweep" => /\ th'[t].op = "write" /\ th'[t].root = th[t].root
                                /\ th'[t].blocks = th[t].blocks
                                /\ th'[t].sweep = {Last(th[t].blocks)}
      /\ made' = made /\ freed' = freed
  BY FetchStep
<1>2. root_block_' = root_block_ /\ stale' = stale
  BY DEF Fetch
<1>3. ~ Scraps(th[t]) /\ ~ Unplaced(th[t]) /\ Pending(Kids, th[t]) = {}
      /\ ~ Unplaced(th'[t]) /\ Pending(Kids, th'[t]) = {}
  BY <1>1 DEF Scraps, Unplaced, Pending
<1>4. Apart(Kids, freed, Hidden, th[t])
  BY DEF Separate
<1>5. th'[t].pc = "sweep" => Under(Kids, th'[t]) \subseteq Left(Kids, th'[t].sweep)
  BY <1>1 DEF Under, Left
<1>6. Apart(Kids, freed, Hidden, th'[t])
  BY <1>1, <1>4, <1>5 DEF Apart, Holding
<1> QED BY <1>1, <1>2, <1>3, <1>6, GoOnStep

LEMMA BeginSwitchSound ==
  ASSUME Types, Separate, Sound, NEW t \in Threads, BeginSwitch(t)
  PROVE  Separate' /\ Sound'
<1> DEFINE r == th'[t]
           D == {}
<1>1. /\ th[t].pc = "switch" /\ th' = [th EXCEPT ![t].pc = "switching"]
      /\ made' = made /\ freed' = freed /\ root_block_' = root_block_ /\ stale' = stale
  BY DEF BeginSwitch
<1>2. /\ Moves(t, r) /\ r.pc = "switching"
      /\ r.op = th[t].op /\ r.root = th[t].root
      /\ r.blocks = th[t].blocks /\ r.new = th[t].new
  BY <1>1, SwitchMoves
<1>3. r \in Threading /\ th' = [th EXCEPT ![t] = r]
  BY <1>2 DEF Moves
<1> HIDE DEF r
<1>4. Unplaced(r) /\ Unplaced(th[t]) /\ Fresh(r) = Fresh(th[t])
  BY <1>1, <1>2 DEF Unplaced, Fresh
<1>5. Apart(Kids, freed, Hidden, th[t]) /\ Prepared(Kids, th[t])
  BY DEF Separate
<1>6. Apart(Kids, freed', Hidden, r)
  BY <1>1, <1>2, <1>5 DEF Apart, Holding, Under
<1>7. Gone(Kids, r) = Gone(Kids, th[t]) /\ Under(Kids, r) = Under(Kids, th[t])
  BY <1>2 DEF Gone, Under
<1>8. Prepared(Kids, r)
  BY <1>2, <1>4, <1>5, <1>7 DEF Prepared
<1>9. freed' = freed \cup D /\ D \cap Hidden = {}
  BY <1>1
<1> HIDE DEF D
<1>10. Separate'
  BY <1>1, <1>3, <1>4, <1>6, <1>8, <1>9, SeparateQuiet
<1>11. Pending(Kids, th[t]) = {} /\ Pending(Kids, r) = {} /\ th[t].pc # "hung"
  BY <1>1, <1>2 DEF Pending
<1>12. Scraps(th[t]) => Scraps(r) /\ Under(Kids, r) = Under(Kids, th[t])
  BY <1>1, <1>2, <1>7 DEF Scraps
<1>13. Sound'
  BY <1>1, <1>3, <1>4, <1>11, <1>12, SoundQuiet
<1> QED BY <1>10, <1>13

\* What a thread that holds a path sees is not hidden.
LEMMA HeldApart ==
  ASSUME Types, Separate, NEW t \in Threads, th[t].pc \in Holding
  PROVE  /\ Reach(Kids, th[t].root) \cap Hidden = {}
         /\ ToSet(th[t].blocks) \cap Hidden = {}
         /\ Reach(Kids, Last(th[t].blocks)) \cap Hidden = {}
<1>1. Apart(Kids, freed, Hidden, th[t])
  BY DEF Separate
<1>2. Reach(Kids, th[t].root) \cap Hidden = {}
  BY <1>1 DEF Apart
<1>3. /\ ToSet(th[t].blocks) \subseteq Reach(Kids, th[t].root)
      /\ Reach(Kids, Last(th[t].blocks)) \subseteq Reach(Kids, th[t].root)
  BY HeldChain
<1> QED BY <1>2, <1>3

LEMMA SweepSound ==
  ASSUME Types, Separate, Sound, NEW t \in Threads, Sweep(t)
  PROVE  Separate' /\ Sound'
<1> DEFINE q == th[t]
           r == th'[t]
<1>1. /\ Moves(t, r) /\ q.pc = "sweep" /\ made' = made
      /\ r.pc # "idle" => r.op = q.op /\ r.blocks = q.blocks
      /\ \/ r.pc = "hung" /\ r.sweep # {} /\ freed' = freed
         \/ \E id \in q.sweep :
              /\ freed' = freed \cup Kids[id]
              /\ \/ /\ r.pc = "sweep" /\ r.root = q.root
                    /\ r.sweep = (q.sweep \ {id}) \cup Kids[id]
                 \/ /\ (q.sweep \ {id}) \cup Kids[id] = {}
                    /\ \/ r.pc = "build" /\ r.root = q.root /\ q.op = "write"
                       \/ r.pc = "idle" /\ q.op = "rmdir"
  BY SweepStep
<1>2. r \in Threading /\ th' = [th EXCEPT ![t] = r]
  BY <1>1 DEF Moves
<1>3. root_block_' = root_block_ /\ stale' = stale
  BY DEF Sweep
<1>4. /\ q.pc \in Holding /\ Older(Kids, Len(made)) /\ q.op \in {"write", "rmdir"}
      /\ q.sweep \subseteq Reach(Kids, Last(q.blocks))
  BY <1>1 DEF Types, Fits, Formed, Holding
<1>5. /\ Last(q.blocks) \in 1 .. Len(made)
      /\ Reach(Kids, Last(q.blocks)) \cap Hidden = {}
      /\ Reach(Kids, q.root) \cap Hidden = {}
  BY <1>4, HeldChain, HeldApart
<1>6. Apart(Kids, freed, Hidden, q)
  BY DEF Separate
<1>7. /\ ~ Unplaced(q)
      /\ Scraps(q) <=> q.op = "write"
      /\ Pending(Kids, q) = IF q.op = "rmdir" THEN Left(Kids, q.sweep) ELSE {}
  BY <1>1 DEF Unplaced, Scraps, Pending
<1> HIDE DEF q, r
<1>8. r.pc # "idle" => Under(Kids, r) = Under(Kids, q)
  BY <1>1 DEF Under
<1>9. CASE r.pc = "hung" /\ r.sweep # {} /\ freed' = freed
  <2> DEFINE D == {}
  <2>1. Apart(Kids, freed', Hidden, r) /\ Prepared(Kids, r) /\ ~ Unplaced(r)
        /\ Pending(Kids, r) = {}
    <3>1. r.pc \notin Holding \cup {"walk"}
      BY <1>9 DEF Holding
    <3> QED BY <3>1, ApartElsewhere
  <2>2. /\ freed' = freed \cup D /\ D \cap Hidden = {} /\ D \subseteq Pending(Kids, th[t])
    BY <1>9
  <2>3. Scraps(th[t]) => Scraps(r) /\ Under(Kids, r) = Under(Kids, th[t])
    BY <1>1, <1>7, <1>8, <1>9 DEF Scraps, q
  <2>4. Pending(Kids, r) \subseteq Pending(Kids, th[t]) /\ ~ Unplaced(th[t])
        /\ th[t].pc # "hung"
    BY <1>1, <1>7, <2>1 DEF q
  <2> HIDE DEF D
  <2>5. Separate'
    BY <1>1, <1>2, <1>3, <2>1, <2>2, SeparateQuiet
  <2>6. Sound'
    BY <1>1, <1>2, <1>3, <1>9, <2>2, <2>3, <2>4, SoundStays
  <2> QED BY <2>5, <2>6
<1>10. ASSUME NEW id \in q.sweep, freed' = freed \cup Kids[id],
              \/ /\ r.pc = "sweep" /\ r.root = q.root
                 /\ r.sweep = (q.sweep \ {id}) \cup Kids[id]
              \/ /\ (q.sweep \ {id}) \cup Kids[id] = {}
                 /\ \/ r.pc = "build" /\ r.root = q.root /\ q.op = "write"
                    \/ r.pc = "idle" /\ q.op = "rmdir"
       PROVE  Separate' /\ Sound'
  <2> DEFINE D == Kids[id]
             left == (q.sweep \ {id}) \cup D
  <2>1. Kids[id] \subseteq Reach(Kids, Last(q.blocks)) \ {Last(q.blocks)}
    <3>1. id \in Reach(Kids, Last(q.blocks))
      BY <1>4
    <3> QED BY <1>4, <1>5, <3>1, SweepKids
  <2>2. D \subseteq Under(Kids, q) /\ D \cap Hidden = {}
    BY <1>5, <2>1 DEF Under
  <2>3. q.sweep \subseteq 1 .. Len(made)
    <3>1. Reach(Kids, Last(q.blocks)) \subseteq 1 .. Len(made)
      BY <1>4, <1>5, ReachClosed
    <3> QED BY <1>4, <3>1
  <2>4. /\ D \subseteq Left(Kids, q.sweep)
        /\ Left(Kids, left) \subseteq Left(Kids, q.sweep)
        /\ Left(Kids, q.sweep) \subseteq D \cup Left(Kids, left)
    <3>1. left = Swept(Kids, q.sweep, id)
      BY DEF Swept
    <3> HIDE DEF left
    <3>2. /\ Kids[id] \subseteq Left(Kids, q.sweep)
          /\ Left(Kids, Swept(Kids, q.sweep, id)) \subseteq Left(Kids, q.sweep)
          /\ Left(Kids, q.sweep) \subseteq Kids[id] \cup Left(Kids, Swept(Kids, q.sweep, id))
      BY <1>4, <2>3, SweepLeft
    <3> QED BY <3>1, <3>2
  <2>5. left = {} => Left(Kids, left) = {}
    BY DEF Left
  <2>6. ~ Unplaced(r) /\ Prepared(Kids, r)
    BY <1>10 DEF Unplaced, Prepared
  <2>7. freed' = freed \cup D
    BY <1>10
  <2>8. CASE q.op = "write"
    <3>1. /\ r.pc \in {"sweep", "build"} /\ r.op = "write" /\ r.root = q.root
          /\ r.pc = "sweep" => r.sweep = left
          /\ r.pc = "build" => left = {}
      BY <1>1, <1>10, <2>8
    <3>2. Under(Kids, q) \subseteq freed \cup Left(Kids, q.sweep)
      BY <1>1, <1>6, <2>8 DEF Apart
    <3> HIDE DEF D, left
    <3>3. Under(Kids, r) \subseteq freed' \cup Left(Kids, left)
      BY <1>8, <2>4, <2>7, <3>1, <3>2
    <3>4. Under(Kids, r) \subseteq freed' \cup Left(Kids, r.sweep) \/ r.pc # "sweep"
      BY <3>1, <3>3
    <3>5. Under(Kids, r) \subseteq freed' \/ r.pc # "build"
      BY <2>5, <3>1, <3>3
    <3>6. Apart(Kids, freed', Hidden, r)
      BY <1>5, <3>1, <3>4, <3>5 DEF Apart
    <3>7. Separate'
      BY <1>1, <1>2, <1>3, <2>2, <2>6, <2>7, <3>6, SeparateQuiet
    <3>8. Scraps(r) /\ Pending(Kids, r) = {} /\ Under(Kids, r) = Under(Kids, th[t])
      BY <1>8, <3>1 DEF Scraps, Pending, q
    <3>9. D \subseteq Under(Kids, r) /\ Pending(Kids, th[t]) = {} /\ ~ Unplaced(th[t])
          /\ th[t].pc # "hung"
      BY <1>1, <1>7, <1>8, <2>2, <2>8, <3>1 DEF q
    <3>10. Pending(Kids, r) \subseteq Pending(Kids, th[t])
           /\ Pending(Kids, th[t]) \subseteq Pending(Kids, r) \cup freed'
      BY <3>8, <3>9
    <3>11. Sound'
      BY <1>1, <1>2, <1>3, <2>7, <3>8, <3>9, <3>10, SoundStays
    <3> QED BY <3>7, <3>11
  <2>9. CASE q.op = "rmdir"
    <3>1. /\ r.pc \in {"sweep", "idle"}
          /\ r.pc = "sweep" => r.sweep = left /\ r.op = "rmdir" /\ r.root = q.root
          /\ r.pc = "idle" => left = {}
      BY <1>1, <1>10, <2>9
    <3> HIDE DEF D, left
    <3>2. Apart(Kids, freed', Hidden, r)
      BY <1>5, <3>1 DEF Apart, Holding
    <3>3. Separate'
      BY <1>1, <1>2, <1>3, <2>2, <2>6, <2>7, <3>2, SeparateQuiet
    <3>4. Pending(Kids, r) = Left(Kids, left)
      <4>1. CASE r.pc = "sweep"
        BY <3>1, <4>1 DEF Pending
      <4>2. CASE r.pc = "idle"
        BY <2>5, <3>1, <4>2 DEF Pending
      <4> QED BY <3>1, <4>1, <4>2
    <3>5. Pending(Kids, th[t]) = Left(Kids, q.sweep) /\ ~ Scraps(th[t]) /\ ~ Unplaced(th[t])
          /\ th[t].pc # "hung"
      BY <1>1, <1>7, <2>9 DEF q
    <3>6. /\ D \subseteq Pending(Kids, th[t])
          /\ Pending(Kids, r) \subseteq Pending(Kids, th[t])
          /\ Pending(Kids, th[t]) \subseteq Pending(Kids, r) \cup freed'
      BY <2>4, <2>7, <3>4, <3>5
    <3>7. Sound'
      BY <1>1, <1>2, <1>3, <2>7, <3>5, <3>6, SoundStays
    <3> QED BY <3>3, <3>7
  <2> QED BY <1>4, <2>8, <2>9
<1> QED BY <1>1, <1>9, <1>10

LEMMA FreePathSound ==
  ASSUME Types, Separate, Sound, NEW t \in Threads, FreePath(t)
  PROVE  Separate' /\ Sound'
<1> DEFINE q == th[t]
           r == th'[t]
           D == ToSet(q.blocks)
<1>1. /\ Moves(t, r) /\ q.pc = "free" /\ made' = made
      /\ freed' = freed \cup D
      /\ r.pc \in {"root", "sweep", "idle"}
      /\ q.op = "rmdir" =>
           /\ r.pc = "sweep" /\ r.op = "rmdir"
           /\ r.root = q.root /\ r.blocks = q.blocks
           /\ r.sweep = {Last(q.blocks)}
      /\ q.op # "rmdir" => r.pc \in {"root", "idle"}
  BY FreePathStep
<1>2. r \in Threading /\ th' = [th EXCEPT ![t] = r]
  BY <1>1 DEF Moves
<1>3. root_block_' = root_block_ /\ stale' = stale
  BY DEF FreePath
<1>4. q.pc \in Holding
  BY <1>1 DEF Holding
<1>5. D \cap Hidden = {} /\ Reach(Kids, q.root) \cap Hidden = {}
  BY <1>4, HeldApart
<1> HIDE DEF q, r, D
<1>6. ~ Unplaced(r) /\ Prepared(Kids, r)
  BY <1>1 DEF Unplaced, Prepared
<1>7. Apart(Kids, freed', Hidden, r)
  BY <1>1, <1>5 DEF Apart, Holding
<1>8. Separate'
  BY <1>1, <1>2, <1>3, <1>5, <1>6, <1>7, SeparateQuiet
<1>9. Pending(Kids, th[t]) = D \cup (IF q.op = "rmdir" THEN Under(Kids, q) ELSE {})
  BY <1>1 DEF Pending, q, D
<1>10. ~ Scraps(th[t]) /\ ~ Unplaced(th[t]) /\ th[t].pc # "hung"
  BY <1>1 DEF Scraps, Unplaced, q
<1>11. Pending(Kids, r) = IF q.op = "rmdir" THEN Under(Kids, q) ELSE {}
  <2>1. CASE q.op = "rmdir"
    <3>1. Left(Kids, {Last(q.blocks)}) = Under(Kids, q)
      BY DEF Left, Under
    <3> QED BY <1>1, <2>1, <3>1 DEF Pending
  <2>2. CASE q.op # "rmdir"
    BY <1>1, <2>2 DEF Pending
  <2> QED BY <2>1, <2>2
<1>12. /\ D \subseteq Pending(Kids, th[t])
       /\ Pending(Kids, r) \subseteq Pending(Kids, th[t])
       /\ Pending(Kids, th[t]) \subseteq Pending(Kids, r) \cup freed'
  BY <1>1, <1>9, <1>11
<1>13. Sound'
  BY <1>1, <1>2, <1>3, <1>10, <1>12, SoundStays
<1> QED BY <1>8, <1>13

\* What a thread has to free is not hidden.
LEMMA PendingSeen ==
  ASSUME Types, Separate, NEW t \in Threads
  PROVE  Pending(Kids, th[t]) \cap Hidden = {}
<1> DEFINE r == th[t]
           last == Last(r.blocks)
<1>1. CASE r.pc \in Holding
  <2>1. ToSet(r.blocks) \cap Hidden = {} /\ Reach(Kids, last) \cap Hidden = {}
        /\ last \in 1 .. Len(made)
    BY <1>1, HeldApart, HeldChain
  <2>2. Left(Kids, r.sweep) \subseteq Reach(Kids, last)
    <3>1. r.sweep \subseteq Reach(Kids, last) /\ Older(Kids, Len(made))
      BY DEF Types, Formed
    <3> HIDE DEF r, last
    <3>2. \A id \in r.sweep : Reach(Kids, id) \subseteq Reach(Kids, last)
      BY <2>1, <3>1, ReachTrans
    <3> QED BY <3>2 DEF Left
  <2> QED BY <2>1, <2>2 DEF Pending, Under
<1>2. CASE r.pc \notin Holding
  BY <1>2 DEF Pending, Holding
<1> QED BY <1>1, <1>2

LEMMA EndSwitchSeparate ==
  ASSUME Types, Separate, NEW t \in Threads, EndSwitch(t)
  PROVE  /\ Separate' /\ Moves(t, th'[t]) /\ th'[t].pc = "free"
         /\ th'[t].op = th[t].op /\ th'[t].blocks = th[t].blocks
<1> DEFINE q == th[t]
           r == th'[t]
<1>1. /\ q.pc = "switching" /\ th' = [th EXCEPT ![t].pc = "free"]
      /\ made' = made /\ freed' = freed /\ root_block_' = q.new
  BY DEF EndSwitch
<1>2. /\ Moves(t, r) /\ r.pc = "free"
      /\ r.op = q.op /\ r.root = q.root /\ r.blocks = q.blocks
  BY <1>1, SwitchMoves
<1>3. r \in Threading /\ th' = [th EXCEPT ![t] = r]
  BY <1>2 DEF Moves
<1>4. \A u \in Threads \ {t} : th'[u] = th[u]
  BY <1>3, OneThread
<1>5. Apart(Kids, freed, Hidden, q) /\ Prepared(Kids, q) /\ Unplaced(q)
  BY <1>1 DEF Separate, Unplaced
<1>6. Reach(Kids, q.root) \cap Hidden = {}
  BY <1>1, <1>5 DEF Apart, Holding
<1>7. \A u \in Threads \ {t} : Unplaced(th[u]) => Fresh(q) \cap Fresh(th[u]) = {}
  BY <1>5 DEF Separate
<1>8. Reach(Kids, q.new) \subseteq Fresh(q) \cup Reach(Kids, q.root)
  BY <1>5 DEF Prepared
<1>9. ~ Unplaced(r) /\ Apart(Kids, freed', Hidden, r) /\ Prepared(Kids, r)
  <2> HIDE DEF q, r
  <2> QED BY <1>2, <1>6 DEF Unplaced, Apart, Holding, Prepared
<1>10. ASSUME NEW x \in Reach(Kids, q.new), x \in Hidden' PROVE FALSE
  <2>1. PICK u \in Threads : Unplaced(th'[u]) /\ x \in Fresh(th'[u])
    BY <1>10, HiddenIs
  <2>2. u # t
    BY <1>9, <2>1
  <2>3. Unplaced(th[u]) /\ x \in Fresh(th[u])
    BY <1>4, <2>1, <2>2
  <2>4. x \in Hidden
    BY <2>3, HiddenIs
  <2>5. x \in Reach(Kids, q.root)
    BY <1>7, <1>8, <1>10, <2>2, <2>3
  <2> QED BY <1>6, <2>4, <2>5
<1>11. Reach(Kids, root_block_') \cap Hidden' = {}
  BY <1>1, <1>10
<1>12. freed' \cap Hidden = {} /\ freed \subseteq freed'
  BY <1>1 DEF Separate
<1> HIDE DEF r
<1>13. Separate'
  BY <1>1, <1>3, <1>9, <1>11, <1>12, SeparateStays
<1> QED BY <1>2, <1>13 DEF r

LEMMA EndSwitchSound ==
  ASSUME Types, Separate, Sound, NEW t \in Threads, EndSwitch(t)
  PROVE  Separate' /\ Sound'
<1> DEFINE q == th[t]
           r == th'[t]
           new == q.new
           Out == ToSet(q.blocks) \cup Gone(Kids, q)
<1>1. /\ Separate' /\ Moves(t, r) /\ r.pc = "free"
      /\ r.op = q.op /\ r.blocks = q.blocks
  BY EndSwitchSeparate
<1>2. /\ q.pc = "switching" /\ made' = made /\ freed' = freed /\ root_block_' = new
      /\ stale' = (stale \/ root_block_ # q.root)
  BY DEF EndSwitch
<1>3. r \in Threading /\ th' = [th EXCEPT ![t] = r]
  BY <1>1 DEF Moves
<1>4. \A u \in Threads \ {t} : th'[u] = th[u]
  BY <1>3, OneThread
<1>5. Kids' = Kids
  BY <1>2 DEF Kids
<1> SUFFICES ASSUME ~ stale'
             PROVE  Whole' /\ (Covered' \/ \E u \in Threads : th'[u].pc = "hung")
  BY <1>1 DEF Sound
<1>6. ~ stale /\ root_block_ = q.root
  BY <1>2
<1>7. Whole /\ (Covered \/ \E u \in Threads : th[u].pc = "hung")
  BY <1>6 DEF Sound
<1>8. Unplaced(q) /\ Apart(Kids, freed, Hidden, q) /\ Prepared(Kids, q)
  BY <1>2 DEF Separate, Unplaced
<1>9. /\ Reach(Kids, new) \subseteq Fresh(q) \cup Reach(Kids, root_block_)
      /\ Fresh(q) \subseteq Reach(Kids, new)
      /\ Reach(Kids, root_block_) \subseteq Reach(Kids, new) \cup Out
      /\ Tree(Kids, new) /\ Reach(Kids, new) \cap Out = {}
  BY <1>6, <1>7, <1>8 DEF Prepared, Whole
<1>10. Fresh(q) \subseteq Hidden
  BY <1>8, HiddenIs
<1>11. freed \cap Hidden = {}
  BY DEF Separate
<1>12. Pending(Kids, q) = {}
       /\ Pending(Kids, r) = ToSet(q.blocks) \cup (IF q.op = "rmdir" THEN Under(Kids, q) ELSE {})
  <2>1. Under(Kids, r) = Under(Kids, q)
    BY <1>1 DEF Under
  <2> HIDE DEF q, r
  <2> QED BY <1>1, <1>2, <2>1 DEF Pending
<1>13. /\ Pending(Kids, r) \subseteq Out
       /\ Out \subseteq Pending(Kids, r) \cup freed
  <2>1. q.op = "write" => Under(Kids, q) \subseteq freed
    BY <1>2, <1>8 DEF Apart
  <2>2. CASE q.op = "rmdir"
    BY <1>12, <2>2 DEF Gone
  <2>3. CASE q.op = "write"
    BY <1>12, <2>1, <2>3 DEF Gone
  <2>4. CASE q.op \notin {"rmdir", "write"}
    BY <1>12, <2>4 DEF Gone
  <2> QED BY <2>2, <2>3, <2>4
<1>14. Scraps(q) => Under(Kids, q) \subseteq Out
  BY DEF Scraps, Gone
<1> HIDE DEF q, r, Out, new
<1>15. ASSUME NEW x \in freed \cap Reach(Kids, new)
       PROVE  \E u \in Threads : Scraps(th'[u]) /\ x \in Under(Kids, th'[u])
  <2>1. x \in Reach(Kids, root_block_)
    BY <1>9, <1>10, <1>11
  <2>2. PICK u \in Threads : Scraps(th[u]) /\ x \in Under(Kids, th[u])
    BY <1>7, <2>1 DEF Whole
  <2>3. u # t
    BY <1>9, <1>14, <2>2 DEF q
  <2> QED BY <1>4, <2>2, <2>3
<1>16. ASSUME NEW u \in Threads
       PROVE  Pending(Kids, th'[u]) \cap Reach(Kids, new) = {}
  <2>1. CASE u = t
    BY <1>9, <1>13, <2>1 DEF r
  <2>2. CASE u # t
    <3>1. /\ Pending(Kids, th[u]) \cap Hidden = {}
          /\ Pending(Kids, th[u]) \cap Reach(Kids, root_block_) = {}
      BY <1>7, PendingSeen DEF Whole
    <3>2. Pending(Kids, th[u]) \cap Reach(Kids, new) = {}
      BY <1>9, <1>10, <3>1
    <3> QED BY <1>4, <2>2, <3>2
  <2> QED BY <2>1, <2>2
<1>17. Whole'
  BY <1>2, <1>5, <1>9, <1>15, <1>16 DEF Whole
<1>18. CASE \E u \in Threads : th[u].pc = "hung"
  <2>1. PICK u \in Threads : th[u].pc = "hung"
    BY <1>18
  <2>2. u # t
    BY <1>2, <2>1 DEF q
  <2> QED BY <1>4, <1>17, <2>1, <2>2
<1>19. CASE Covered
  <2>1. ASSUME NEW x \in DOMAIN made
        PROVE  \/ x \in Reach(Kids, new) \cup freed
               \/ \E u \in Threads : \/ Unplaced(th'[u]) /\ x \in Fresh(th'[u])
                                     \/ x \in Pending(Kids, th'[u])
    <3>1. CASE x \in Reach(Kids, root_block_)
      <4>1. x \in Reach(Kids, new) \cup freed \cup Pending(Kids, th'[t])
        BY <1>9, <1>13, <3>1 DEF r
      <4> QED BY <4>1
    <3>2. CASE x \in freed
      BY <3>2
    <3>3. ASSUME NEW u \in Threads,
                 (Unplaced(th[u]) /\ x \in Fresh(th[u])) \/ x \in Pending(Kids, th[u])
          PROVE  \/ x \in Reach(Kids, new) \cup freed
                 \/ \E v \in Threads : \/ Unplaced(th'[v]) /\ x \in Fresh(th'[v])
                                       \/ x \in Pending(Kids, th'[v])
      <4>1. CASE u = t
        BY <1>9, <1>12, <3>3, <4>1 DEF q
      <4>2. CASE u # t
        BY <1>4, <3>3, <4>2
      <4> QED BY <4>1, <4>2
    <3> QED BY <1>19, <3>1, <3>2, <3>3 DEF Covered
  <2>2. Covered'
    BY <1>2, <1>5, <2>1 DEF Covered
  <2> QED BY <1>17, <2>2
<1> QED BY <1>7, <1>18, <1>19

\* New blocks change nothing for a thread that does not hold them.
LEMMA GrowsUnder ==
  ASSUME NEW K, NEW n, NEW K2, NEW n2, Grows(K, n, K2, n2),
         NEW r, Formed(K, r), r.blocks # <<>>
  PROVE  /\ Under(K2, r) = Under(K, r) /\ Last(r.blocks) \in 1 .. n
         /\ Gone(K2, r) = Gone(K, r)
<1>1. Chain(K, r.blocks, r.blocks[1])
  BY DEF Formed
<1>2. Last(r.blocks) \in 1 .. n
  BY <1>1, GrowsChain
<1>3. Reach(K2, Last(r.blocks)) = Reach(K, Last(r.blocks))
  BY <1>2, GrowsReach
<1> QED BY <1>2, <1>3 DEF Under, Gone

LEMMA GrowsLeft ==
  ASSUME NEW K, NEW n, NEW K2, NEW n2, Grows(K, n, K2, n2),
         NEW r, Formed(K, r)
  PROVE  Left(K2, r.sweep) = Left(K, r.sweep)
<1>1. CASE r.sweep = {}
  BY <1>1 DEF Left
<1>2. CASE r.sweep # {}
  <2>1. r.blocks # <<>> /\ r.sweep \subseteq Reach(K, Last(r.blocks))
    BY <1>2 DEF Formed
  <2>2. Last(r.blocks) \in 1 .. n /\ Older(K, n)
    BY <2>1, GrowsUnder DEF Grows
  <2>3. Reach(K, Last(r.blocks)) \subseteq 1 .. n
    BY <2>2, ReachClosed
  <2>4. \A id \in r.sweep : Reach(K2, id) = Reach(K, id)
    BY <2>1, <2>3, GrowsReach
  <2> QED BY <2>4 DEF Left
<1> QED BY <1>1, <1>2

LEMMA GrowsTree ==
  ASSUME NEW K, NEW n, NEW K2, NEW n2, Grows(K, n, K2, n2), NEW root \in 1 .. n
  PROVE  Tree(K2, root) <=> Tree(K, root)
<1>1. Reach(K2, root) = Reach(K, root)
  BY GrowsReach
<1>2. Reach(K, root) \subseteq 1 .. n
  BY ReachClosed DEF Grows
<1>3. \A x \in Reach(K, root) : K2[x] = K[x]
  BY <1>2 DEF Grows
<1> QED BY <1>1, <1>3 DEF Tree

LEMMA GrowsPending ==
  ASSUME NEW K, NEW n, NEW K2, NEW n2, Grows(K, n, K2, n2),
         NEW r, Formed(K, r)
  PROVE  Pending(K2, r) = Pending(K, r)
<1>1. Left(K2, r.sweep) = Left(K, r.sweep)
  BY GrowsLeft
<1>2. r.pc = "free" => Under(K2, r) = Under(K, r)
  <2>1. r.pc = "free" => r.blocks # <<>>
    BY DEF Formed, Holding
  <2> QED BY <2>1, GrowsUnder
<1> QED BY <1>1, <1>2 DEF Pending

\* The root of a thread that has one.
LEMMA RootIn ==
  ASSUME NEW K, NEW n, Older(K, n), NEW r, Formed(K, r), r.pc \in Holding \cup {"walk"}
  PROVE  r.root \in 1 .. n
<1>1. DOMAIN K = 1 .. n
  BY DEF Older
<1>2. CASE r.pc \in Holding
  BY <1>1, <1>2 DEF Formed, Chain
<1>3. CASE r.pc = "walk"
  BY <1>1, <1>3 DEF Formed
<1> QED BY <1>2, <1>3

LEMMA GrowsApart ==
  ASSUME NEW K, NEW n, NEW K2, NEW n2, Grows(K, n, K2, n2),
         NEW r, Formed(K, r), NEW F, NEW H, Apart(K, F, H, r),
         NEW H2, H2 \subseteq H \cup (n + 1 .. n2)
  PROVE  Apart(K2, F, H2, r)
<1>1. Older(K, n) /\ n \in Nat /\ n2 \in Nat
  BY DEF Grows, Older
<1>2. ASSUME r.pc \in Holding \cup {"walk"} PROVE Reach(K2, r.root) \cap H2 = {}
  <2>1. r.root \in 1 .. n
    BY <1>1, <1>2, RootIn
  <2>2. Reach(K2, r.root) = Reach(K, r.root) /\ Reach(K, r.root) \subseteq 1 .. n
    BY <1>1, <2>1, GrowsReach, ReachClosed
  <2>3. Reach(K, r.root) \cap H = {}
    BY <1>2 DEF Apart
  <2>4. (1 .. n) \cap (n + 1 .. n2) = {}
    BY <1>1
  <2> QED BY <2>2, <2>3, <2>4
<1>3. r.pc \in Holding => Under(K2, r) = Under(K, r)
  <2>1. r.pc \in Holding => r.blocks # <<>>
    BY DEF Formed
  <2> QED BY <2>1, GrowsUnder
<1>4. Left(K2, r.sweep) = Left(K, r.sweep)
  BY GrowsLeft
<1>5. r.pc \in {"sweep", "build", "switch", "switching"} => r.pc \in Holding
  BY DEF Holding
<1> QED BY <1>2, <1>3, <1>4, <1>5 DEF Apart

LEMMA GrowsPrepared ==
  ASSUME NEW K, NEW n, NEW K2, NEW n2, Grows(K, n, K2, n2),
         NEW r, Formed(K, r), Prepared(K, r)
  PROVE  Prepared(K2, r)
<1> SUFFICES ASSUME Unplaced(r)
             PROVE  /\ Fresh(r) \subseteq DOMAIN K2 /\ r.new \in Fresh(r)
                    /\ Reach(K2, r.new) \subseteq Fresh(r) \cup Reach(K2, r.root)
                    /\ Fresh(r) \subseteq Reach(K2, r.new)
                    /\ Reach(K2, r.root) \subseteq
                         Reach(K2, r.new) \cup ToSet(r.blocks) \cup Gone(K2, r)
                    /\ Tree(K2, r.root) =>
                         /\ Tree(K2, r.new)
                         /\ Reach(K2, r.new) \cap (ToSet(r.blocks) \cup Gone(K2, r)) = {}
  BY DEF Prepared
<1>1. /\ Older(K, n) /\ Older(K2, n2) /\ n \in Nat /\ n2 \in Nat /\ n <= n2
      /\ DOMAIN K = 1 .. n /\ DOMAIN K2 = 1 .. n2
  BY DEF Grows, Older
<1>2. r.pc \in Holding
  BY DEF Unplaced, Holding
<1>3. r.new \in 1 .. n /\ r.blocks # <<>>
  BY <1>1, <1>2 DEF Formed, Unplaced
<1>4. r.root \in 1 .. n
  BY <1>1, <1>2, RootIn
<1>5. Reach(K2, r.new) = Reach(K, r.new) /\ Reach(K2, r.root) = Reach(K, r.root)
  BY <1>3, <1>4, GrowsReach
<1>6. Gone(K2, r) = Gone(K, r)
  BY <1>3, GrowsUnder
<1>7. /\ Tree(K2, r.root) <=> Tree(K, r.root)
      /\ Tree(K2, r.new) <=> Tree(K, r.new)
  BY <1>3, <1>4, GrowsTree
<1>8. DOMAIN K \subseteq DOMAIN K2
  BY <1>1
<1> QED BY <1>5, <1>6, <1>7, <1>8 DEF Prepared

\* What a thread gets from building: the blocks that were added, and a new root
\* over the tree without the path and what is gone.
LEMMA BuildPrepares ==
  ASSUME Types, NEW t \in Threads, Build(t)
  PROVE  Fresh(th'[t]) = Len(made) + 1 .. Len(made') /\ Prepared(Kids', th'[t])
<1> DEFINE q == th[t]
           r == th'[t]
           n == Len(made)
           n2 == Len(made')
           K == Kids
           K2 == Kids'
           c == Copied(q)
           cut == Cut(K, q)
           o == Leaf(q)
           Out == ToSet(q.blocks) \cup Gone(K, q)
<1>1. /\ Rebuilt(K, n, K2, n2, c, cut, o) /\ q.pc = "build" /\ q.op \in Changes
      /\ Grows(K, n, K2, n2) /\ Older(K, n) /\ Formed(K, q)
  BY BuildStep, BuildGrows DEF Types
<1>2. /\ r.pc = "switch" /\ r.new = n2 /\ r.op = q.op /\ r.root = q.root
      /\ r.blocks = q.blocks
  BY BuildMoves
<1>3. q.pc \in Holding
  BY <1>1 DEF Holding
<1>4. /\ Chain(K, q.blocks, q.root) /\ q.root \in 1 .. n
      /\ (q.op = "rmdir" => Len(q.blocks) >= 2) /\ q.blocks # <<>>
  BY <1>1, <1>3, HeldChain DEF Formed
<1> HIDE DEF q, r, n, n2, K, K2
<1>5. /\ Chain(K, c, q.root)
      /\ Len(c) + o = Len(q.blocks) + 1 - (IF q.op = "rmdir" THEN 2 ELSE 0)
      /\ ToSet(c) \cup Removed(K, cut) =
           ToSet(q.blocks) \cup
             (IF q.op \in {"rmdir", "write"}
              THEN Reach(K, Last(q.blocks)) \ {Last(q.blocks)} ELSE {})
  BY <1>1, <1>4, CopiedCut
<1>6. ToSet(c) \cup Removed(K, cut) = Out
  BY <1>5 DEF Gone, Under
<1> HIDE DEF c, cut, o, Out
<1>7. /\ n \in Nat /\ n2 \in Nat /\ n < n2 /\ Len(c) \in Nat /\ o \in {0, 1}
      /\ n2 = n + o + Len(c) /\ Len(q.blocks) \in Nat
  <2>1. n \in Nat /\ n2 \in Nat /\ n < n2
    BY <1>1, <1>5, RebuiltKids
  <2>2. Len(c) \in Nat /\ Len(q.blocks) \in Nat
    BY <1>1, <1>4, <1>5, ChainLen
  <2> QED BY <1>1, <2>1, <2>2 DEF Rebuilt
<1>8. Fresh(r) = n + 1 .. n2
  <2>1. n2 - Len(q.blocks) + (IF q.op = "rmdir" THEN 2 ELSE 0) = n + 1
    <3> DEFINE d == IF q.op = "rmdir" THEN 2 ELSE 0
               k == Len(q.blocks)
               m == Len(c)
    <3>1. d \in Nat /\ k \in Nat /\ m \in Nat /\ o \in Nat /\ n \in Nat /\ n2 \in Nat
      BY <1>7
    <3>2. m + o = k + 1 - d /\ n2 = n + o + m
      BY <1>5, <1>7
    <3> HIDE DEF d, k, m
    <3>3. n2 - k + d = n + 1
      BY <3>1, <3>2
    <3> QED BY <3>3 DEF d, k
  <2> QED BY <1>2, <2>1 DEF Fresh
<1>9. DOMAIN K2 = 1 .. n2
  BY <1>1 DEF Grows, Older
<1>10. /\ n + 1 .. n2 \subseteq Reach(K2, n2)
       /\ Reach(K2, n2) \subseteq (n + 1 .. n2) \cup Reach(K, q.root)
       /\ Reach(K, q.root) \subseteq Reach(K2, n2) \cup Out
  <2>1. n + 1 .. n2 \subseteq Reach(K2, n2)
    BY <1>1, <1>5, RebuiltIn
  <2>2. Reach(K2, n2) \subseteq (n + 1 .. n2) \cup Reach(K, q.root)
    BY <1>1, <1>5, RebuiltFrom
  <2>3. Reach(K, q.root) \subseteq Reach(K2, n2) \cup ToSet(c) \cup Removed(K, cut)
    BY <1>1, <1>5, RebuiltKeeps
  <2> QED BY <1>6, <2>1, <2>2, <2>3
<1>11. Tree(K, q.root) => Tree(K2, n2) /\ Reach(K2, n2) \cap Out = {}
  <2> SUFFICES ASSUME Tree(K, q.root) PROVE Tree(K2, n2) /\ Reach(K2, n2) \cap Out = {}
    OBVIOUS
  <2>1. Tree(K2, n2)
    BY <1>1, <1>5, RebuiltTree
  <2>2. Reach(K2, n2) \cap (ToSet(c) \cup Removed(K, cut)) = {}
    BY <1>1, <1>5, RebuiltWithout
  <2> QED BY <1>6, <2>1, <2>2
<1>12. Gone(K2, r) = Gone(K, q)
  <2>1. Gone(K2, q) = Gone(K, q)
    BY <1>1, <1>4, GrowsUnder
  <2> QED BY <1>2, <2>1 DEF Gone, Under
<1>13. ToSet(r.blocks) \cup Gone(K2, r) = Out
  BY <1>2, <1>12 DEF Out
<1>14. Reach(K2, r.root) = Reach(K, q.root) /\ (Tree(K2, r.root) <=> Tree(K, q.root))
  BY <1>1, <1>2, <1>4, GrowsReach, GrowsTree
<1>15. Fresh(r) \subseteq DOMAIN K2 /\ r.new \in Fresh(r)
  <2>1. n + 1 .. n2 \subseteq 1 .. n2 /\ n2 \in n + 1 .. n2
    BY <1>7
  <2> QED BY <1>2, <1>8, <1>9, <2>1
<1>16. Reach(K2, r.new) \subseteq Fresh(r) \cup Reach(K2, r.root)
       /\ Fresh(r) \subseteq Reach(K2, r.new)
  BY <1>2, <1>8, <1>10, <1>14
<1>17. Reach(K2, r.root) \subseteq Reach(K2, r.new) \cup ToSet(r.blocks) \cup Gone(K2, r)
  BY <1>2, <1>10, <1>13, <1>14
<1>18. Tree(K2, r.root) =>
         Tree(K2, r.new) /\ Reach(K2, r.new) \cap (ToSet(r.blocks) \cup Gone(K2, r)) = {}
  BY <1>2, <1>11, <1>13, <1>14
<1>19. Prepared(K2, r)
  BY <1>15, <1>16, <1>17, <1>18 DEF Prepared
<1> QED BY <1>8, <1>19 DEF n, n2, K2, r

\* Separate and Sound after a step, in terms of the values after it.
LEMMA BuildSeparate ==
  ASSUME Types, Separate, NEW t \in Threads, Build(t)
  PROVE  Separate'
<1> DEFINE q == th[t]
           r == th'[t]
           n == Len(made)
           n2 == Len(made')
           K2 == Kids'
           H2 == Hidden'
<1>1. /\ Grows(Kids, n, K2, n2) /\ Older(Kids, n) /\ q.pc = "build"
      /\ \A u \in Threads : Formed(Kids, th[u])
  BY BuildStep, BuildGrows DEF Types
<1>2. /\ \A u \in Threads \ {t} : th'[u] = th[u]
      /\ r.pc = "switch" /\ r.op = q.op /\ r.root = q.root /\ r.blocks = q.blocks
  BY BuildMoves
<1>3. Fresh(r) = n + 1 .. n2 /\ Prepared(K2, r)
  BY BuildPrepares
<1>4. freed' = freed /\ root_block_' = root_block_
  BY DEF Build
<1>5. /\ n \in Nat /\ n2 \in Nat /\ DOMAIN Kids = 1 .. n
      /\ (1 .. n) \cap (n + 1 .. n2) = {}
  <2>1. n \in Nat /\ n2 \in Nat /\ DOMAIN Kids = 1 .. n
    BY <1>1 DEF Grows, Older
  <2> QED BY <2>1
<1>6. H2 \subseteq Hidden \cup (n + 1 .. n2)
  <2> SUFFICES ASSUME NEW x \in H2, x \notin n + 1 .. n2 PROVE x \in Hidden
    OBVIOUS
  <2>1. PICK u \in Threads : Unplaced(th'[u]) /\ x \in Fresh(th'[u])
    BY HiddenIs
  <2>2. u # t
    BY <1>3, <2>1
  <2> QED BY <1>2, <2>1, <2>2, HiddenIs
<1>7. \A u \in Threads : Apart(Kids, freed, Hidden, th[u]) /\ Prepared(Kids, th[u])
  BY DEF Separate
<1>8. root_block_ \in 1 .. n /\ freed \subseteq 1 .. n
  BY TypesFacts
<1> HIDE DEF q, r, n, n2, K2, H2
<1>9. \A u \in Threads : Apart(K2, freed, H2, th[u]) /\ Prepared(K2, th[u])
  BY <1>1, <1>6, <1>7, GrowsApart, GrowsPrepared
<1>10. Apart(K2, freed, H2, r)
  <2>1. Apart(K2, freed, H2, q)
    BY <1>9 DEF q
  <2>2. Under(K2, r) = Under(K2, q)
    BY <1>2 DEF Under
  <2> QED BY <1>1, <1>2, <2>1, <2>2 DEF Apart, Holding
<1>11. ASSUME NEW u \in Threads PROVE Apart(K2, freed, H2, th'[u]) /\ Prepared(K2, th'[u])
  <2>1. CASE u = t
    BY <1>3, <1>10, <2>1 DEF r
  <2>2. CASE u # t
    BY <1>2, <1>9, <2>2
  <2> QED BY <2>1, <2>2
<1>12. \A u \in Threads : Unplaced(th[u]) => Fresh(th[u]) \subseteq 1 .. n
  BY <1>5, <1>7 DEF Prepared
<1>13. ASSUME NEW u \in Threads, NEW v \in Threads, u # v, Unplaced(th'[u]), Unplaced(th'[v])
       PROVE  Fresh(th'[u]) \cap Fresh(th'[v]) = {}
  <2>1. CASE u = t
    <3>1. th'[v] = th[v] /\ th'[u] = r
      BY <1>2, <1>13, <2>1 DEF r
    <3>2. Fresh(th'[v]) \subseteq 1 .. n
      BY <1>12, <1>13, <3>1
    <3> QED BY <1>3, <1>5, <3>1, <3>2
  <2>2. CASE v = t
    <3>1. th'[u] = th[u] /\ th'[v] = r
      BY <1>2, <1>13, <2>2 DEF r
    <3>2. Fresh(th'[u]) \subseteq 1 .. n
      BY <1>12, <1>13, <3>1
    <3> QED BY <1>3, <1>5, <3>1, <3>2
  <2>3. CASE u # t /\ v # t
    <3>1. th'[u] = th[u] /\ th'[v] = th[v]
      BY <1>2, <2>3
    <3> QED BY <1>13, <3>1 DEF Separate
  <2> QED BY <2>1, <2>2, <2>3
<1>14. Reach(K2, root_block_) \cap H2 = {}
  <2>1. Reach(K2, root_block_) = Reach(Kids, root_block_)
        /\ Reach(Kids, root_block_) \subseteq 1 .. n
    BY <1>1, <1>8, GrowsReach, ReachClosed
  <2>2. Reach(Kids, root_block_) \cap Hidden = {}
    BY DEF Separate
  <2> QED BY <1>5, <1>6, <2>1, <2>2
<1>15. freed \cap H2 = {}
  <2>1. freed \cap Hidden = {}
    BY DEF Separate
  <2> QED BY <1>5, <1>6, <1>8, <2>1
<1> QED BY <1>4, <1>11, <1>13, <1>14, <1>15 DEF Separate, K2, H2

LEMMA BuildSound ==
  ASSUME Types, Separate, Sound, NEW t \in Threads, Build(t)
  PROVE  Separate' /\ Sound'
<1> DEFINE q == th[t]
           r == th'[t]
           n == Len(made)
           n2 == Len(made')
           K2 == Kids'
<1>1. /\ Grows(Kids, n, K2, n2) /\ Older(Kids, n) /\ q.pc = "build"
      /\ \A u \in Threads : Formed(Kids, th[u])
      /\ made' \in Seq(Blocks)
  BY BuildStep, BuildGrows DEF Types
<1>2. /\ \A u \in Threads \ {t} : th'[u] = th[u]
      /\ r.pc = "switch" /\ r.op = q.op /\ r.blocks = q.blocks
  BY BuildMoves
<1>3. Fresh(r) = n + 1 .. n2
  BY BuildPrepares
<1>4. freed' = freed /\ root_block_' = root_block_ /\ stale' = stale
  BY DEF Build
<1>5. /\ n \in Nat /\ n2 \in Nat /\ DOMAIN made = 1 .. n /\ DOMAIN made' = 1 .. n2
      /\ root_block_ \in 1 .. n
  BY <1>1, TypesFacts
<1>6. Separate'
  BY BuildSeparate
<1> SUFFICES ASSUME ~ stale
             PROVE  Whole' /\ (Covered' \/ \E u \in Threads : th'[u].pc = "hung")
  BY <1>4, <1>6 DEF Sound
<1>7. Whole /\ (Covered \/ \E u \in Threads : th[u].pc = "hung")
  BY DEF Sound
<1> HIDE DEF q, r, n, n2, K2
<1>8. Reach(K2, root_block_) = Reach(Kids, root_block_) /\ Tree(K2, root_block_)
  BY <1>1, <1>5, <1>7, GrowsReach, GrowsTree DEF Whole
<1>9. \A u \in Threads : Pending(K2, th[u]) = Pending(Kids, th[u])
  BY <1>1, GrowsPending
<1>10. Pending(K2, r) = {} /\ Pending(K2, q) = {} /\ Unplaced(r) /\ ~ Unplaced(q)
  BY <1>1, <1>2 DEF Pending, Unplaced
<1>11. ASSUME NEW u \in Threads, Scraps(th[u])
       PROVE  Scraps(th'[u]) /\ Under(K2, th'[u]) = Under(Kids, th[u])
  <2>1. th[u].blocks # <<>>
    <3>1. Formed(Kids, th[u])
      BY <1>1
    <3> QED BY <1>11, <3>1 DEF Scraps, Formed, Holding
  <2>2. Under(K2, th[u]) = Under(Kids, th[u])
    BY <1>1, <2>1, GrowsUnder
  <2>3. CASE u = t
    <3>1. Scraps(r) /\ Under(K2, r) = Under(K2, q)
      <4>1. q.op = "write"
        BY <1>11, <2>3 DEF Scraps, q
      <4> QED BY <1>2, <4>1 DEF Scraps, Under
    <3> QED BY <2>2, <2>3, <3>1 DEF q, r
  <2>4. CASE u # t
    BY <1>2, <1>11, <2>2, <2>4
  <2> QED BY <2>3, <2>4
<1>12. ASSUME NEW x \in freed \cap Reach(K2, root_block_)
       PROVE  \E u \in Threads : Scraps(th'[u]) /\ x \in Under(K2, th'[u])
  <2>1. PICK u \in Threads : Scraps(th[u]) /\ x \in Under(Kids, th[u])
    BY <1>7, <1>8 DEF Whole
  <2> QED BY <1>11, <2>1
<1>13. ASSUME NEW u \in Threads PROVE Pending(K2, th'[u]) \cap Reach(K2, root_block_) = {}
  <2>1. CASE u = t
    BY <1>10, <2>1 DEF r
  <2>2. CASE u # t
    <3>1. Pending(Kids, th[u]) \cap Reach(Kids, root_block_) = {}
      BY <1>7 DEF Whole
    <3> QED BY <1>2, <1>8, <1>9, <2>2, <3>1
  <2> QED BY <2>1, <2>2
<1>14. Whole'
  BY <1>4, <1>8, <1>12, <1>13 DEF Whole, K2
<1>15. CASE \E u \in Threads : th[u].pc = "hung"
  <2>1. PICK u \in Threads : th[u].pc = "hung"
    BY <1>15
  <2>2. u # t
    BY <1>1, <2>1 DEF q
  <2> QED BY <1>2, <1>14, <2>1, <2>2
<1>16. CASE Covered
  <2>1. ASSUME NEW x \in 1 .. n2
        PROVE  \/ x \in Reach(K2, root_block_) \cup freed
               \/ \E u \in Threads : \/ Unplaced(th'[u]) /\ x \in Fresh(th'[u])
                                     \/ x \in Pending(K2, th'[u])
    <3>1. x \in 1 .. n \/ x \in n + 1 .. n2
      BY <1>5
    <3>2. CASE x \in n + 1 .. n2
      BY <1>3, <1>10, <3>2 DEF r
    <3>3. CASE x \in 1 .. n
      <4>1. CASE x \in Reach(Kids, root_block_) \cup freed
        BY <1>8, <4>1
      <4>2. ASSUME NEW u \in Threads,
                   (Unplaced(th[u]) /\ x \in Fresh(th[u])) \/ x \in Pending(Kids, th[u])
            PROVE  \E v \in Threads : \/ Unplaced(th'[v]) /\ x \in Fresh(th'[v])
                                      \/ x \in Pending(K2, th'[v])
        <5>1. u # t
          BY <1>9, <1>10, <4>2 DEF q
        <5> QED BY <1>2, <1>9, <4>2, <5>1
      <4> QED BY <1>5, <1>16, <3>3, <4>1, <4>2 DEF Covered
    <3> QED BY <3>1, <3>2, <3>3
  <2>2. Covered'
    BY <1>4, <1>5, <2>1 DEF Covered, K2
  <2> QED BY <1>14, <2>2
<1> QED BY <1>6, <1>7, <1>15, <1>16

\* At the start the tree is all there is, and no thread has anything.
LEMMA InitSound == Init => Separate /\ Sound
<1> SUFFICES ASSUME Init PROVE Separate /\ Sound
  OBVIOUS
<1>1. /\ DOMAIN made = 1 .. 4 /\ Older(Kids, 4)
      /\ Kids[1] = {} /\ Kids[2] = {1} /\ Kids[3] = {} /\ Kids[4] = {2, 3}
  BY InitBlocks
<1>2. \A id \in 1 .. 4 : id = 1 \/ id = 2 \/ id = 3 \/ id = 4
  OBVIOUS
<1>3. /\ root_block_ = 4 /\ freed = {} /\ \A t \in Threads : th[t].pc = "idle"
  BY DEF Init, Idle
<1>4. /\ 4 \in Reach(Kids, 4) /\ Reach(Kids, 4) \subseteq 1 .. 4
      /\ \A x \in Reach(Kids, 4) : Kids[x] \subseteq Reach(Kids, 4)
  <2>1. 4 \in 1 .. 4
    OBVIOUS
  <2> QED BY <1>1, <2>1, ReachClosed
<1>5. 2 \in Reach(Kids, 4) /\ 3 \in Reach(Kids, 4) /\ 1 \in Reach(Kids, 4)
  BY <1>1, <1>4
<1>6. \A t \in Threads : /\ Apart(Kids, freed, Hidden, th[t]) /\ Prepared(Kids, th[t])
                         /\ ~ Unplaced(th[t]) /\ Pending(Kids, th[t]) = {}
  <2>1. \A t \in Threads : th[t].pc \notin Holding \cup {"walk"}
    BY <1>3 DEF Holding
  <2> QED BY <2>1, ApartElsewhere
<1>7. Hidden = {}
  <2>1. \A x : x \notin Hidden
    BY <1>6, HiddenIs
  <2> QED BY <2>1
<1>8. Separate
  BY <1>3, <1>6, <1>7 DEF Separate
<1>9. Tree(Kids, root_block_)
  <2> SUFFICES ASSUME NEW x \in 1 .. 4, NEW y \in 1 .. 4, x # y
               PROVE  Kids[x] \cap Kids[y] = {}
    BY <1>3, <1>4 DEF Tree
  <2>1. /\ x = 1 \/ x = 2 \/ x = 3 \/ x = 4
        /\ y = 1 \/ y = 2 \/ y = 3 \/ y = 4
    BY <1>2
  <2> QED BY <1>1, <2>1
<1>10. Whole
  BY <1>3, <1>6, <1>9 DEF Whole
<1>11. Covered
  BY <1>1, <1>2, <1>3, <1>4, <1>5 DEF Covered
<1> QED BY <1>8, <1>10, <1>11 DEF Sound

\* Each step keeps the threads apart and the tree sound.
LEMMA NextSound == Types /\ Separate /\ Sound /\ [Next]_vars => Separate' /\ Sound'
<1> SUFFICES ASSUME Types, Separate, Sound, [Next]_vars PROVE Separate' /\ Sound'
  OBVIOUS
<1>1. ASSUME made' = made, freed' = freed, root_block_' = root_block_, th' = th,
             stale' = stale
      PROVE  Separate' /\ Sound'
  <2>1. Kids' = Kids
    BY <1>1 DEF Kids
  <2>2. Hidden' = Hidden
    BY <1>1 DEF Hidden
  <2>3. Separate'
    BY <1>1, <2>1, <2>2 DEF Separate
  <2>4. Whole' <=> Whole
    BY <1>1, <2>1 DEF Whole
  <2>5. Covered' <=> Covered
    BY <1>1, <2>1 DEF Covered
  <2> QED BY <1>1, <2>3, <2>4, <2>5 DEF Sound
<1>2. CASE UNCHANGED vars
  BY <1>1, <1>2 DEF vars
<1>3. CASE Next
  <2>1. PICK t \in Threads : Step(t)
    BY <1>3 DEF Next
  <2>2. CASE RaceCrash(t)
    BY <1>1, <2>2 DEF RaceCrash
  <2>3. CASE Call(t)
    BY <2>3, CallSound
  <2>4. CASE Root(t)
    BY <2>4, RootSound
  <2>5. CASE Walk(t)
    BY <2>5, WalkSound
  <2>6. CASE Fetch(t)
    BY <2>6, FetchSound
  <2>7. CASE Sweep(t)
    BY <2>7, SweepSound
  <2>8. CASE Build(t)
    BY <2>8, BuildSound
  <2>9. CASE BeginSwitch(t)
    BY <2>9, BeginSwitchSound
  <2>10. CASE EndSwitch(t)
    BY <2>10, EndSwitchSound
  <2>11. CASE FreePath(t)
    BY <2>11, FreePathSound
  <2> QED BY <2>1, <2>2, <2>3, <2>4, <2>5, <2>6, <2>7, <2>8, <2>9, <2>10, <2>11, Zenon
          DEF Step, Work
<1> QED BY <1>2, <1>3

LEMMA SoundAlways == Spec => [](Types /\ Separate /\ Sound)
<1>1. Init => Types /\ Separate /\ Sound
  BY InitTypes, InitSound
<1>2. Types /\ Separate /\ Sound /\ [Next]_vars => (Types /\ Separate /\ Sound)'
  BY NextTypes, NextSound
<1> QED BY <1>1, <1>2, PTL DEF Spec

\* Whatever the threads do, and however often: as long as no update is lost, no
\* block below root_block_ was freed but for the contents a write replaces.
\* Every operation of block_fuse.cc frees only blocks it took out of the tree.
THEOREM TreeStaysIntact == Spec => []IntactUnlessStale
<1>1. ASSUME Types, Sound PROVE IntactUnlessStale
  <2> SUFFICES ASSUME ~ stale, NEW x \in Below(root_block_) \cap freed PROVE x \in Scrapped
    BY DEF IntactUnlessStale
  <2>1. Older(Kids, Len(made)) /\ root_block_ \in 1 .. Len(made)
    BY <1>1, TypesFacts DEF Types
  <2>2. x \in freed \cap Reach(Kids, root_block_)
    BY <2>1, BelowReach
  <2>3. PICK t \in Threads : Scraps(th[t]) /\ x \in Under(Kids, th[t])
    BY <1>1, <2>2 DEF Sound, Whole
  <2>4. th[t].blocks # <<>> /\ Formed(Kids, th[t])
    <3>1. Formed(Kids, th[t])
      BY <1>1 DEF Types
    <3> QED BY <2>3, <3>1 DEF Scraps, Formed, Holding
  <2>5. Last(th[t].blocks) \in 1 .. Len(made)
    <3> DEFINE c == th[t].blocks
    <3>1. Chain(Kids, c, c[1])
      BY <2>4 DEF Formed
    <3> HIDE DEF c
    <3>2. Len(c) \in Nat /\ Len(c) >= 1
      BY <2>1, <3>1, ChainLen
    <3>3. Len(c) \in 1 .. Len(c)
      BY <3>2
    <3>4. c[Len(c)] \in 1 .. Len(made)
      BY <2>1, <3>1, <3>3, ChainIn
    <3> QED BY <3>4 DEF Last, c
  <2>6. Below(Last(th[t].blocks)) = Reach(Kids, Last(th[t].blocks))
    BY <2>1, <2>5, BelowReach
  <2>7. x \in Below(Last(th[t].blocks)) \ {Last(th[t].blocks)}
    BY <2>3, <2>6 DEF Under
  <2> QED BY <2>3, <2>7 DEF Scrapped
<1> QED BY <1>1, SoundAlways, PTL

\* And nothing leaks: when no call is under way and no update was lost, the
\* blocks not passed to free_block are the blocks of the tree.
THEOREM QuietTreeIsExact == Spec => []ExactWhenQuiet
<1>1. ASSUME Types, Sound PROVE ExactWhenQuiet
  <2> SUFFICES ASSUME ~ stale, \A t \in Threads : th[t].pc = "idle"
               PROVE  DOMAIN made \ freed = Below(root_block_)
    BY DEF ExactWhenQuiet
  <2>1. /\ Older(Kids, Len(made)) /\ root_block_ \in 1 .. Len(made)
        /\ DOMAIN made = 1 .. Len(made)
    BY <1>1, TypesFacts DEF Types
  <2>2. Below(root_block_) = Reach(Kids, root_block_)
    BY <2>1, BelowReach
  <2>3. Reach(Kids, root_block_) \subseteq DOMAIN made
    BY <2>1, ReachClosed
  <2>4. \A t \in Threads : /\ ~ Unplaced(th[t]) /\ Pending(Kids, th[t]) = {}
                           /\ ~ Scraps(th[t]) /\ th[t].pc # "hung"
    BY DEF Unplaced, Pending, Scraps
  <2>5. Whole /\ Covered
    BY <1>1, <2>4 DEF Sound
  <2>6. freed \cap Reach(Kids, root_block_) = {}
    BY <2>4, <2>5 DEF Whole
  <2>7. \A x \in DOMAIN made : x \in Reach(Kids, root_block_) \cup freed
    BY <2>4, <2>5 DEF Covered
  <2> QED BY <2>2, <2>3, <2>6, <2>7
<1> QED BY <1>1, SoundAlways, PTL

=============================================================================
