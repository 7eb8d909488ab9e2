-------------------------- MODULE FusePathsProofs ---------------------------
(***************************************************************************)
(* Proofs about FuseThreads, continued: the names in the tree, what the     *)
(* walks find there, and who can come to wait for ever.                     *)
(***************************************************************************)
EXTENDS FuseThreadsProofs

-----------------------------------------------------------------------------
(* Names.  L gives the blocks whose children are K.                         *)

\* A block is the directory entry of this name.
Named(b, name) == b.kind # "contents" /\ b.name = name

\* The blocks of all of a path.
Leads(K, L, c, root, path) ==
  /\ Chain(K, c, root)
  /\ Len(c) = Len(path) + 1
  /\ \A i \in 1 .. Len(path) : Named(L[c[i + 1]], path[i])

\* The path exists.
Here(K, L, root, path) == \E c : Leads(K, L, c, root, path)

\* Entries of one directory have different names.
Unique(K, L, root) ==
  \A x \in Reach(K, root) : \A k \in K[x], l \in K[x] :
    L[k].kind # "contents" /\ Named(L[l], L[k].name) => k = l

\* A walk over m names of a path: as far as it could go.
Follows(b, m, path) ==
  /\ Len(b) <= m + 1
  /\ \A i \in 1 .. Len(b) - 1 : Named(made[b[i + 1]], path[i])
  /\ Len(b) <= m => \A k \in Kids[b[Len(b)]] : ~ Named(made[k], path[Len(b)])

\* One more name.
LEMMA FollowsOn ==
  ASSUME NEW n, Older(Kids, n), NEW root \in 1 .. n, NEW path, NEW m \in Nat,
         m >= 1, NEW a, Chain(Kids, a, root), Follows(a, m - 1, path),
         NEW b, b \in WalkOn({a}, path[m], m)
  PROVE  Chain(Kids, b, root) /\ Follows(b, m, path)
<1>1. /\ Len(a) \in Nat /\ Len(a) >= 1 /\ Len(a) <= m /\ Last(a) = a[Len(a)]
      /\ a \in Seq(Nat) /\ Last(a) \in 1 .. n
      /\ Last(a) \in DOMAIN made /\ Kids[Last(a)] = made[Last(a)].kids
  <2>1. Len(a) \in Nat /\ Len(a) >= 1 /\ Len(a) \in 1 .. Len(a) /\ a \in Seq(Nat)
    BY ChainLen
  <2>2. Last(a) = a[Len(a)] /\ Last(a) \in 1 .. n
    BY <2>1, ChainIn DEF Last
  <2> QED BY <2>1, <2>2 DEF Follows, Older, Kids
<1>2. CASE b = a
  <2>1. Len(a) < m \/ get_path_part(a, path[m]) = {} \/ a \in get_path_part(a, path[m])
    BY <1>2 DEF WalkOn
  <2>2. a \notin get_path_part(a, path[m])
    <3> SUFFICES ASSUME NEW kid \in made[Last(a)].kids, a = Append(a, kid) PROVE FALSE
      BY DEF get_path_part
    <3>1. kid \in Nat
      BY <1>1 DEF Older
    <3>2. Len(Append(a, kid)) = Len(a) + 1
      BY <1>1, <3>1
    <3> QED BY <1>1, <3>2
  <2>3. CASE Len(a) < m
    BY <1>1, <1>2, <2>3 DEF Follows
  <2>4. CASE Len(a) = m /\ get_path_part(a, path[m]) = {}
    <3>1. \A k \in Kids[Last(a)] : ~ Named(made[k], path[m])
      BY <1>1, <2>4, Zenon DEF get_path_part, Named
    <3> QED BY <1>1, <1>2, <2>4, <3>1 DEF Follows
  <2> QED BY <1>1, <2>1, <2>2, <2>3, <2>4
<1>3. CASE b # a
  <2>1. ~ (Len(a) < m) /\ b \in get_path_part(a, path[m])
    BY <1>3 DEF WalkOn
  <2>2. PICK kid \in Kids[Last(a)] : b = Append(a, kid) /\ Named(made[kid], path[m])
    BY <1>1, <2>1 DEF get_path_part, Named
  <2>3. kid \in Nat
    BY <1>1 DEF Older
  <2>4. /\ Len(b) = m + 1 /\ b[m + 1] = kid /\ Len(a) = m
        /\ \A i \in 1 .. m : b[i] = a[i]
    BY <1>1, <2>1, <2>2, <2>3, AppendAt
  <2>5. Chain(Kids, b, root)
    BY <2>2, AppendChain
  <2>6. ASSUME NEW i \in 1 .. Len(b) - 1 PROVE Named(made[b[i + 1]], path[i])
    <3>1. CASE i = m
      BY <2>2, <2>4, <3>1
    <3>2. CASE i # m
      <4>1. i \in 1 .. Len(a) - 1 /\ i + 1 \in 1 .. m
        BY <2>4, <3>2
      <4> QED BY <2>4, <4>1 DEF Follows
    <3> QED BY <3>1, <3>2
  <2> QED BY <2>4, <2>5, <2>6 DEF Follows
<1> QED BY <1>2, <1>3

\* What get_path finds: something, and each is the path as far as there are
\* entries of these names.
LEMMA GetPathFollows ==
  ASSUME NEW n, Older(Kids, n), NEW root \in 1 .. n, NEW path, Len(path) \in Nat
  PROVE  /\ get_path(root, path) # {}
         /\ \A b \in get_path(root, path) :
              Chain(Kids, b, root) /\ Follows(b, Len(path), path)
<1> DEFINE N == Len(path)
           Good(W, m) == /\ W # {}
                         /\ \A b \in W : Chain(Kids, b, root) /\ Follows(b, m, path)
<1>1. PICK walk : /\ walk[0] = {<<root>>}
                  /\ \A k \in 1 .. N : walk[k] = WalkOn(walk[k - 1], path[k], k)
                  /\ get_path(root, path) = walk[N]
  BY GetPathWalk
<1> DEFINE S == {m \in 0 .. N : ~ Good(walk[m], m)}
<1> HIDE DEF N, Good
<1>2. N \in Nat
  BY DEF N
<1>3. Good(walk[0], 0)
  <2>1. <<root>> \in Seq(Nat) /\ Len(<<root>>) = 1 /\ <<root>>[1] = root
        /\ <<root>> # <<>> /\ root \in DOMAIN Kids
    BY DEF Older
  <2>2. Chain(Kids, <<root>>, root) /\ Follows(<<root>>, 0, path)
    BY <2>1 DEF Chain, Follows
  <2> QED BY <1>1, <2>2 DEF Good
<1>4. ASSUME S # {} PROVE FALSE
  <2>1. S \subseteq Nat
    BY <1>2
  <2>2. PICK m \in S : \A k \in S : m <= k
    <3> HIDE DEF S
    <3> QED BY <1>4, <2>1, LeastNumber
  <2>3. m \in 0 .. N /\ ~ Good(walk[m], m)
    OBVIOUS
  <2>4. m # 0
    BY <1>3, <2>3
  <2>5. m \in 1 .. N /\ m \in Nat /\ m >= 1 /\ m - 1 \in 0 .. N /\ ~ (m <= m - 1)
    BY <1>2, <2>3, <2>4
  <2>6. m - 1 \notin S
    <3> HIDE DEF S
    <3> QED BY <2>2, <2>5
  <2>7. Good(walk[m - 1], m - 1)
    BY <2>5, <2>6
  <2> HIDE DEF S
  <2>8. walk[m] = WalkOn(walk[m - 1], path[m], m)
    BY <1>1, <2>5
  <2>9. ASSUME NEW b \in walk[m] PROVE Chain(Kids, b, root) /\ Follows(b, m, path)
    <3>1. PICK a \in walk[m - 1] : b \in WalkOn({a}, path[m], m)
      BY <2>8, <2>9 DEF WalkOn
    <3>2. Chain(Kids, a, root) /\ Follows(a, m - 1, path)
      BY <2>7 DEF Good
    <3> QED BY <2>5, <3>1, <3>2, FollowsOn
  <2>10. walk[m] # {}
    <3>1. PICK a \in walk[m - 1] : TRUE
      BY <2>7 DEF Good
    <3>2. WalkOn({a}, path[m], m) # {}
      BY DEF WalkOn
    <3>3. WalkOn({a}, path[m], m) \subseteq WalkOn(walk[m - 1], path[m], m)
      BY DEF WalkOn
    <3> QED BY <2>8, <3>2, <3>3
  <2> QED BY <2>3, <2>9, <2>10 DEF Good
<1>5. N \in 0 .. N /\ N \notin S
  <2> HIDE DEF S
  <2> QED BY <1>2, <1>4
<1> QED BY <1>1, <1>5 DEF Good, N

\* The first m blocks after the root have the names of the path.
Spells(L, b, m, path) == \A i \in 1 .. m - 1 : Named(L[b[i + 1]], path[i])

\* Where names are unique two paths with the same names are the same.
LEMMA SameWay ==
  ASSUME NEW n, NEW K, Older(K, n), NEW L, NEW root, Unique(K, L, root),
         NEW b, Chain(K, b, root), NEW c, Chain(K, c, root), NEW path,
         Len(b) <= Len(c), Spells(L, b, Len(b), path), Spells(L, c, Len(b), path)
  PROVE  \A i \in 1 .. Len(b) : b[i] = c[i]
<1> DEFINE m == Len(b)
           S == {i \in 1 .. m : b[i] # c[i]}
<1>1. /\ Len(b) \in Nat /\ b[1] = root /\ Len(c) \in Nat /\ c[1] = root
      /\ \A i \in 1 .. Len(b) - 1 : b[i + 1] \in K[b[i]]
      /\ \A i \in 1 .. Len(c) - 1 : c[i + 1] \in K[c[i]]
  BY ChainLen
<1>2. ASSUME S # {} PROVE FALSE
  <2>1. S \subseteq Nat
    BY <1>1
  <2>2. PICK j \in S : \A i \in S : j <= i
    <3> HIDE DEF S
    <3> QED BY <1>2, <2>1, LeastNumber
  <2>3. j \in 1 .. m /\ b[j] # c[j]
    OBVIOUS
  <2>4. j # 1
    BY <1>1, <2>3
  <2>5. /\ j - 1 \in 1 .. m - 1 /\ j - 1 \in 1 .. m /\ ~ (j <= j - 1)
        /\ j - 1 \in 1 .. Len(b) - 1 /\ j - 1 \in 1 .. Len(c) - 1
        /\ j - 1 \in 1 .. Len(b) /\ (j - 1) + 1 = j
    BY <1>1, <2>3, <2>4
  <2>6. j - 1 \notin S
    <3> HIDE DEF S
    <3> QED BY <2>2, <2>5
  <2>7. b[j - 1] = c[j - 1]
    BY <2>5, <2>6
  <2> DEFINE x == b[j - 1]
  <2>8. x \in Reach(K, root) /\ b[j] \in K[x] /\ c[j] \in K[x]
    <3>1. b[j] \in K[b[j - 1]] /\ c[j] \in K[c[j - 1]]
      BY <1>1, <2>5
    <3> QED BY <2>5, <2>7, <3>1, ChainIn
  <2>9. Named(L[b[j]], path[j - 1]) /\ Named(L[c[j]], path[j - 1])
    BY <2>5 DEF Spells
  <2>10. L[b[j]].kind # "contents" /\ Named(L[c[j]], L[b[j]].name)
    BY <2>9 DEF Named
  <2> HIDE DEF x, S
  <2> QED BY <2>3, <2>8, <2>10 DEF Unique
<1> QED BY <1>2

\* Sequences with the same elements are equal.
LEMMA SameElements ==
  ASSUME NEW S, NEW b \in Seq(S), NEW c \in Seq(S), Len(b) = Len(c),
         \A i \in 1 .. Len(b) : b[i] = c[i]
  PROVE  b = c
OBVIOUS

\* get_path finds an existing path, and nothing else.
LEMMA WalkIs ==
  ASSUME NEW n, Older(Kids, n), NEW root \in 1 .. n, NEW path, Len(path) \in Nat,
         Unique(Kids, made, root), NEW c, Leads(Kids, made, c, root, path),
         NEW b \in get_path(root, path)
  PROVE  b = c
<1>1. Chain(Kids, b, root) /\ Follows(b, Len(path), path)
  BY GetPathFollows
<1>2. /\ Chain(Kids, c, root) /\ Len(c) = Len(path) + 1
      /\ \A i \in 1 .. Len(path) : Named(made[c[i + 1]], path[i])
  BY DEF Leads
<1>3. /\ Len(b) \in Nat /\ Len(b) >= 1 /\ Len(b) <= Len(c)
      /\ \A i \in 1 .. Len(b) - 1 : Named(made[b[i + 1]], path[i])
  BY <1>1, <1>2, ChainLen DEF Follows
<1>4. \A i \in 1 .. Len(b) - 1 : i \in 1 .. Len(path)
  BY <1>2, <1>3
<1>5. \A i \in 1 .. Len(b) : b[i] = c[i]
  <2>1. Spells(made, c, Len(b), path)
    BY <1>2, <1>4 DEF Spells
  <2>2. Spells(made, b, Len(b), path)
    BY <1>3 DEF Spells
  <2>3. Chain(Kids, b, root) /\ Chain(Kids, c, root) /\ Len(b) <= Len(c)
    BY <1>1, <1>2, <1>3
  <2> QED BY <2>1, <2>2, <2>3, SameWay
<1>6. Len(b) = Len(c)
  <2> SUFFICES ASSUME Len(b) # Len(c) PROVE FALSE
    OBVIOUS
  <2>1. Len(b) \in 1 .. Len(path) /\ Len(b) \in 1 .. Len(c) - 1 /\ Len(b) \in 1 .. Len(b)
        /\ Len(b) <= Len(path)
    BY <1>2, <1>3
  <2>2. Named(made[c[Len(b) + 1]], path[Len(b)])
    BY <1>2, <2>1
  <2>3. c[Len(b) + 1] \in Kids[b[Len(b)]]
    <3>1. \A i \in 1 .. Len(c) - 1 : c[i + 1] \in Kids[c[i]]
      BY <1>2, ChainLen
    <3> QED BY <1>5, <2>1, <3>1
  <2> QED BY <1>1, <2>1, <2>2, <2>3 DEF Follows
<1> QED BY <1>1, <1>2, <1>5, <1>6, SameElements DEF Chain

\* A complete walk is the path.
LEMMA FoundIsHere ==
  ASSUME NEW n, Older(Kids, n), NEW root \in 1 .. n, NEW path, Len(path) \in Nat,
         NEW b \in get_path(root, path), Complete(b, path)
  PROVE  Leads(Kids, made, b, root, path)
<1>1. Chain(Kids, b, root) /\ Follows(b, Len(path), path)
  BY GetPathFollows
<1>2. Len(b) - 1 = Len(path)
  BY DEF Complete
<1> QED BY <1>1, <1>2 DEF Follows, Complete, Leads

\* An incomplete one shows that there is none.
LEMMA MissedIsNot ==
  ASSUME NEW n, Older(Kids, n), NEW root \in 1 .. n, NEW path, Len(path) \in Nat,
         Unique(Kids, made, root), NEW b \in get_path(root, path),
         ~ Complete(b, path)
  PROVE  ~ Here(Kids, made, root, path)
<1> SUFFICES ASSUME NEW c, Leads(Kids, made, c, root, path) PROVE FALSE
  BY DEF Here
<1>1. b = c
  BY WalkIs
<1> QED BY <1>1 DEF Leads, Complete

-----------------------------------------------------------------------------
(* Names in a tree whose path was rebuilt *)

Alike(a, b) == a.kind = b.kind /\ a.name = b.name /\ a.data = b.data

\* The old blocks, and copies of the blocks of the path.
Relabelled(L, n, L2, n2, c) ==
  /\ \A x \in 1 .. n : L2[x] = L[x]
  /\ \A i \in 1 .. Len(c) : Alike(L2[n2 + 1 - i], L[c[i]])

\* The new tree has unique names if the old had and the leaf's name was free.
LEMMA RebuiltUnique ==
  ASSUME NEW n, NEW K, Older(K, n), NEW c, NEW root, Chain(K, c, root),
         NEW n2, NEW K2, NEW remove, NEW o, Rebuilt(K, n, K2, n2, c, remove, o),
         NEW L, NEW L2, Relabelled(L, n, L2, n2, c), Unique(K, L, root),
         o = 1 /\ L2[n + 1].kind # "contents" =>
           \A z \in K[c[Len(c)]] : ~ Named(L[z], L2[n + 1].name)
  PROVE  Unique(K2, L2, n2)
<1> DEFINE kk == Len(c)
<1>1. /\ n \in Nat /\ n2 \in Nat /\ n < n2
      /\ \A y \in 1 .. n2 : \/ y \in 1 .. n
                            \/ o = 1 /\ y = n + 1 /\ K2[y] = {}
                            \/ \E i \in 1 .. kk : y = n2 + 1 - i
      /\ \A i \in 1 .. kk :
           \A z \in K2[n2 + 1 - i] : NewKid(K, n, n2, c, remove, o, i, z)
  BY RebuiltKids
<1>2. kk \in Nat /\ \A i \in 1 .. kk - 1 : c[i + 1] \in K[c[i]]
  BY ChainLen
<1>3. \A i \in 1 .. kk : c[i] \in Reach(K, root) /\ c[i] \in 1 .. n
  BY ChainIn
<1>4. /\ \A x \in 1 .. n : K2[x] = K[x]
      /\ \A x \in 1 .. n : \A z \in K[x] : z \in 1 .. n
  BY DEF Rebuilt, Older
<1>5. \A x \in Reach(K2, n2) : x \in 1 .. n2 /\ (x \in 1 .. n => x \in Reach(K, root))
  <2>1. Older(K2, n2) /\ n2 \in 1 .. n2
    BY <1>1, RebuiltOlder
  <2>2. Reach(K2, n2) \subseteq 1 .. n2
    BY <2>1, ReachClosed
  <2>3. Reach(K2, n2) \subseteq (n + 1 .. n2) \cup Reach(K, root)
    BY RebuiltFrom
  <2>4. \A x \in 1 .. n : x \notin n + 1 .. n2
    BY <1>1
  <2> QED BY <2>2, <2>3, <2>4
<1> DEFINE Old(i, z, y) == y \in K[c[i]] /\ Alike(L2[z], L[y])
\* A child of a copy is one of the original, as it was or copied, or the leaf.
<1>6. ASSUME NEW i \in 1 .. kk, NEW z \in K2[n2 + 1 - i]
      PROVE  \/ z \in K[c[i]] /\ L2[z] = L[z] /\ (i < kk => z # c[i + 1])
             \/ i < kk /\ z = n2 - i /\ c[i + 1] \in K[c[i]] /\ Alike(L2[z], L[c[i + 1]])
             \/ i = kk /\ o = 1 /\ z = n + 1
  <2>1. NewKid(K, n, n2, c, remove, o, i, z)
    BY <1>1
  <2>2. CASE z \in K[c[i]] /\ (i < kk => z # c[i + 1])
    <3>1. z \in 1 .. n
      BY <1>3, <1>4, <2>2
    <3> QED BY <2>2, <3>1 DEF Relabelled
  <2>3. CASE i < kk /\ z = n2 - i
    <3>1. i + 1 \in 1 .. kk /\ i \in 1 .. kk - 1 /\ n2 + 1 - (i + 1) = n2 - i
      BY <1>1, <1>2, <2>3
    <3>2. Alike(L2[n2 + 1 - (i + 1)], L[c[i + 1]])
      BY <3>1 DEF Relabelled
    <3> QED BY <1>2, <2>3, <3>1, <3>2
  <2> QED BY <2>1, <2>2, <2>3 DEF NewKid
<1>7. ASSUME NEW x \in Reach(K2, n2), NEW k \in K2[x], NEW l \in K2[x],
             L2[k].kind # "contents", Named(L2[l], L2[k].name)
      PROVE  k = l
  <2>1. CASE x \in 1 .. n
    <3>1. x \in Reach(K, root) /\ k \in K[x] /\ l \in K[x] /\ k \in 1 .. n /\ l \in 1 .. n
      BY <1>4, <1>5, <1>7, <2>1
    <3>2. L2[k] = L[k] /\ L2[l] = L[l]
      BY <3>1 DEF Relabelled
    <3> QED BY <1>7, <3>1, <3>2 DEF Unique
  <2>2. ASSUME NEW i \in 1 .. kk, x = n2 + 1 - i PROVE k = l
    <3> DEFINE e == c[i]
               f == c[i + 1]
    <3>1. \A u \in K[e], v \in K[e] :
            L[u].kind # "contents" /\ L[v].kind # "contents" /\ L[u].name = L[v].name
              => u = v
      BY <1>3 DEF Unique, Named
    <3>2. /\ L2[k].kind # "contents" /\ L2[l].kind # "contents"
          /\ L2[k].name = L2[l].name
      BY <1>7 DEF Named
    <3> DEFINE A(z) == z \in K[e] /\ L2[z] = L[z] /\ (i < kk => z # f)
               B(z) == i < kk /\ z = n2 - i /\ f \in K[e] /\ Alike(L2[z], L[f])
               C(z) == i = kk /\ o = 1 /\ z = n + 1
    <3>3. (A(k) \/ B(k) \/ C(k)) /\ (A(l) \/ B(l) \/ C(l))
      BY <1>6, <1>7, <2>2
    <3>4. CASE A(k) /\ A(l)
      BY <3>1, <3>2, <3>4
    <3>5. ~ (A(k) /\ B(l)) /\ ~ (B(k) /\ A(l))
      BY <3>1, <3>2 DEF Alike
    <3>6. ~ (A(k) /\ C(l)) /\ ~ (C(k) /\ A(l))
      BY <3>2 DEF Named
    <3>7. ~ (B(k) /\ C(l)) /\ ~ (C(k) /\ B(l))
      BY <1>2
    <3>8. CASE (B(k) /\ B(l)) \/ (C(k) /\ C(l))
      BY <3>8
    <3> HIDE DEF A, B, C
    <3> QED BY <3>3, <3>4, <3>5, <3>6, <3>7, <3>8
  <2> QED BY <1>1, <1>5, <1>7, <2>1, <2>2
<1> QED BY <1>7 DEF Unique

\* A function on 1 .. m is a sequence.
LEMMA FunSeq ==
  ASSUME NEW S, NEW m \in Nat, NEW f \in [1 .. m -> S]
  PROVE  f \in Seq(S) /\ Len(f) = m
OBVIOUS

\* The first j blocks of d are copies of those of c, the others are old.
Parts(d, c, n, n2, j) ==
  /\ j \in 1 .. Len(d) /\ j <= Len(c)
  /\ \A i \in 1 .. j : d[i] = n2 + 1 - i
  /\ \A i \in 1 .. Len(d) : i > j => d[i] \in 1 .. n

\* It left the path for a child that is still there.
Leaves(d, c, remove, j) ==
  /\ j < Len(d) /\ j < Len(c) => d[j + 1] # c[j + 1]
  /\ j < Len(d) /\ j = Len(c) => d[j + 1] \notin remove

\* What d was before.
Before(d, c, j) == [i \in 1 .. Len(d) |-> IF i <= j THEN c[i] ELSE d[i]]

\* d is the copy of the path with the leaf.
ToLeaf(d, c, n, n2) ==
  /\ Len(d) = Len(c) + 1 /\ d[Len(d)] = n + 1
  /\ \A i \in 1 .. Len(c) : d[i] = n2 + 1 - i

\* Below a block that is old all is old.
LEMMA OldFrom ==
  ASSUME NEW n, NEW K, Older(K, n), NEW n2, NEW K2, Older(K2, n2), n <= n2,
         \A x \in 1 .. n : K2[x] = K[x],
         NEW d, NEW root, Chain(K2, d, root), NEW m \in 1 .. Len(d), d[m] \in 1 .. n,
         NEW i \in 1 .. Len(d), m <= i
  PROVE  d[i] \in 1 .. n
<1> DEFINE S == {l \in 1 .. Len(d) : m <= l /\ d[l] \notin 1 .. n}
<1>1. Len(d) \in Nat /\ \A l \in 1 .. Len(d) - 1 : d[l + 1] \in K2[d[l]]
  BY ChainLen
<1>2. \A x \in 1 .. n : \A y \in K2[x] : y \in 1 .. n
  BY DEF Older
<1>3. ASSUME S # {} PROVE FALSE
  <2>1. S \subseteq Nat
    BY <1>1
  <2>2. PICK l \in S : \A k \in S : l <= k
    <3> HIDE DEF S
    <3> QED BY <1>3, <2>1, LeastNumber
  <2>3. l \in 1 .. Len(d) /\ m <= l /\ d[l] \notin 1 .. n
    OBVIOUS
  <2>4. l # m
    BY <2>3
  <2>5. /\ l - 1 \in 1 .. Len(d) /\ l - 1 \in 1 .. Len(d) - 1 /\ m <= l - 1
        /\ ~ (l <= l - 1) /\ (l - 1) + 1 = l
    BY <1>1, <2>3, <2>4
  <2>6. l - 1 \notin S
    <3> HIDE DEF S
    <3> QED BY <2>2, <2>5
  <2>7. d[l - 1] \in 1 .. n
    BY <2>5, <2>6
  <2>8. d[l] \in K2[d[l - 1]]
    BY <1>1, <2>5
  <2> QED BY <1>2, <2>3, <2>7, <2>8
<1> QED BY <1>3

\* A path in the new tree goes along copies, then on in the old tree, or to the
\* leaf.
LEMMA NewChain ==
  ASSUME NEW n, NEW K, Older(K, n), NEW c, NEW root, Chain(K, c, root),
         NEW n2, NEW K2, NEW remove, NEW o, Rebuilt(K, n, K2, n2, c, remove, o),
         NEW d, Chain(K2, d, n2)
  PROVE  \/ \E j \in Nat : /\ Parts(d, c, n, n2, j) /\ Leaves(d, c, remove, j)
                           /\ j < Len(d) => d[j + 1] \in K[c[j]]
         \/ o = 1 /\ ToLeaf(d, c, n, n2)
<1> DEFINE kk == Len(c)
           m == Len(d)
           S == {i \in 1 .. m : i > kk \/ d[i] # n2 + 1 - i}
<1>1. /\ n \in Nat /\ n2 \in Nat /\ n < n2
      /\ \A i \in 1 .. kk :
           \A z \in K2[n2 + 1 - i] : NewKid(K, n, n2, c, remove, o, i, z)
  BY RebuiltKids
<1>2. kk \in Nat /\ kk >= 1
  BY ChainLen
<1>3. Older(K2, n2) /\ (\A x \in 1 .. n : K2[x] = K[x]) /\ (o = 1 => K2[n + 1] = {})
  BY RebuiltOlder DEF Rebuilt
<1>4. m \in Nat /\ m >= 1 /\ d[1] = n2 /\ \A i \in 1 .. m - 1 : d[i + 1] \in K2[d[i]]
  BY <1>3, ChainLen
<1>5. CASE S = {}
  <2>1. m <= kk /\ \A i \in 1 .. m : d[i] = n2 + 1 - i
    <3>1. \A i \in 1 .. m : ~ (i > kk) /\ d[i] = n2 + 1 - i
      BY <1>5
    <3>2. m \in 1 .. m
      BY <1>4
    <3> QED BY <1>2, <1>4, <3>1, <3>2
  <2>2. Parts(d, c, n, n2, m) /\ Leaves(d, c, remove, m) /\ ~ (m < Len(d))
    BY <1>1, <1>2, <1>4, <2>1 DEF Parts, Leaves
  <2> QED BY <1>4, <2>2
<1>6. CASE S # {}
  <2>1. S \subseteq Nat
    BY <1>4
  <2>2. PICK l \in S : \A k \in S : l <= k
    <3> HIDE DEF S
    <3> QED BY <1>6, <2>1, LeastNumber
  <2>3. l \in 1 .. m /\ (l > kk \/ d[l] # n2 + 1 - l)
    OBVIOUS
  <2>4. l # 1
    BY <1>1, <1>2, <1>4, <2>3
  <2> DEFINE j == l - 1
  <2>5. j \in 1 .. m /\ j \in Nat /\ j + 1 = l /\ j < m /\ j \in 1 .. m - 1
    BY <1>4, <2>3, <2>4
  <2>6. \A i \in 1 .. j : i \in 1 .. m /\ ~ (l <= i)
    BY <2>5, <1>4
  <2>7. \A i \in 1 .. j : i <= kk /\ d[i] = n2 + 1 - i
    <3>1. \A i \in 1 .. j : i \notin S
      <4> HIDE DEF S, j
      <4> QED BY <2>2, <2>6
    <3>2. \A i \in 1 .. j : ~ (i > kk) /\ d[i] = n2 + 1 - i
      BY <2>6, <3>1
    <3> QED BY <1>2, <2>5, <3>2
  <2>8. j \in 1 .. j
    BY <2>5
  <2>9. j <= kk /\ j \in 1 .. kk /\ d[j] = n2 + 1 - j
    BY <1>2, <2>5, <2>7, <2>8
  <2>10. NewKid(K, n, n2, c, remove, o, j, d[l])
    BY <1>1, <1>4, <2>5, <2>9
  <2> HIDE DEF S, j
  <2>11. CASE /\ d[l] \in K[c[j]] /\ (j < kk => d[l] # c[j + 1])
              /\ (j = kk => d[l] \notin remove)
    <3>1. d[l] \in 1 .. n
      <4>1. c[j] \in 1 .. n
        BY <2>9, ChainIn
      <4> QED BY <2>11, <4>1 DEF Older
    <3>2. \A i \in 1 .. m : i > j => l <= i
      BY <2>5
    <3>3. ASSUME NEW i \in 1 .. m, i > j PROVE d[i] \in 1 .. n
      <4>1. l <= i /\ n <= n2
        BY <1>1, <3>2, <3>3
      <4> QED BY <1>3, <2>3, <3>1, <4>1, OldFrom
    <3>4. Parts(d, c, n, n2, j)
      BY <2>5, <2>7, <2>9, <3>3 DEF Parts
    <3>5. Leaves(d, c, remove, j)
      BY <2>5, <2>11 DEF Leaves
    <3> QED BY <2>5, <2>11, <3>4, <3>5
  <2>12. CASE j < kk /\ d[l] = n2 - j
    <3>1. n2 - j = n2 + 1 - l /\ ~ (l > kk)
      BY <1>1, <1>2, <2>5, <2>12
    <3> QED BY <2>3, <2>12, <3>1
  <2>13. CASE j = kk /\ o = 1 /\ d[l] = n + 1
    <3>1. l = m
      <4> SUFFICES ASSUME l # m PROVE FALSE
        OBVIOUS
      <4>1. l \in 1 .. m - 1
        BY <1>4, <2>3
      <4> QED BY <1>3, <1>4, <2>13, <4>1
    <3>2. ToLeaf(d, c, n, n2)
      BY <2>5, <2>7, <2>13, <3>1 DEF ToLeaf
    <3> QED BY <2>13, <3>2
  <2> QED BY <2>10, <2>11, <2>12, <2>13 DEF NewKid
<1> QED BY <1>5, <1>6

\* In the first case it was a path of the old tree, with the same names.
LEMMA PartsBefore ==
  ASSUME NEW n, NEW K, Older(K, n), NEW c, NEW root, Chain(K, c, root),
         NEW n2, NEW K2, NEW remove, NEW o, Rebuilt(K, n, K2, n2, c, remove, o),
         NEW L, NEW L2, Relabelled(L, n, L2, n2, c),
         NEW path, Len(path) \in Nat, NEW d, Leads(K2, L2, d, n2, path),
         NEW j \in Nat, Parts(d, c, n, n2, j), j < Len(d) => d[j + 1] \in K[c[j]]
  PROVE  /\ Leads(K, L, Before(d, c, j), root, path)
         /\ Len(Before(d, c, j)) = Len(d)
<1> DEFINE e == Before(d, c, j)
           m == Len(d)
<1>1. Older(K2, n2) /\ \A x \in 1 .. n : K2[x] = K[x]
  BY RebuiltOlder DEF Rebuilt
<1>2. /\ Chain(K2, d, n2) /\ m = Len(path) + 1
      /\ \A i \in 1 .. Len(path) : Named(L2[d[i + 1]], path[i])
  BY DEF Leads
<1>3. m \in Nat /\ m >= 1 /\ \A i \in 1 .. m - 1 : d[i + 1] \in K2[d[i]]
  BY <1>1, <1>2, ChainLen
<1>4. /\ Len(c) \in Nat /\ c[1] = root /\ root \in DOMAIN K
      /\ \A i \in 1 .. Len(c) - 1 : c[i + 1] \in K[c[i]]
      /\ \A i \in 1 .. Len(c) : c[i] \in Nat
  BY ChainLen DEF Chain
<1>5. /\ j \in 1 .. m /\ j <= Len(c)
      /\ \A i \in 1 .. j : d[i] = n2 + 1 - i
      /\ \A i \in 1 .. m : i > j => d[i] \in 1 .. n
  BY DEF Parts
<1>6. /\ \A i \in 1 .. m : i <= j => e[i] = c[i] /\ i \in 1 .. Len(c)
      /\ \A i \in 1 .. m : i > j => e[i] = d[i]
      /\ \A i \in 1 .. m : ~ (i <= j) => i > j
  BY <1>3, <1>4, <1>5 DEF Before
<1>7. e \in Seq(Nat) /\ Len(e) = m
  <2>1. e \in [1 .. m -> Nat]
    <3>1. \A i \in 1 .. m : (IF i <= j THEN c[i] ELSE d[i]) \in Nat
      BY <1>4, <1>5, <1>6
    <3> QED BY <3>1 DEF Before
  <2> HIDE DEF e
  <2> QED BY <1>3, <2>1, FunSeq
<1> HIDE DEF e
<1>8. e # <<>> /\ e[1] = root
  <2>1. 1 \in 1 .. m /\ 1 <= j
    BY <1>3, <1>5
  <2> QED BY <1>3, <1>4, <1>6, <1>7, <2>1
<1>9. ASSUME NEW i \in 1 .. m - 1 PROVE e[i + 1] \in K[e[i]]
  <2>1. i \in 1 .. m /\ i + 1 \in 1 .. m
    BY <1>3
  <2>2. CASE i + 1 <= j
    <3>1. i <= j /\ i \in 1 .. Len(c) - 1
      BY <1>3, <1>4, <1>5, <2>2
    <3> QED BY <1>4, <1>6, <2>1, <2>2, <3>1
  <2>3. CASE i = j
    <3>1. j < m /\ i + 1 > j /\ i <= j
      BY <1>3, <1>5, <2>3
    <3> QED BY <1>6, <2>1, <2>3, <3>1
  <2>4. CASE i > j
    <3>1. i + 1 > j
      BY <1>5, <2>4
    <3>2. d[i] \in 1 .. n /\ e[i] = d[i] /\ e[i + 1] = d[i + 1]
      BY <1>5, <1>6, <2>1, <2>4, <3>1
    <3> QED BY <1>1, <1>3, <3>2
  <2> QED BY <1>5, <2>2, <2>3, <2>4
<1>10. Chain(K, e, root)
  BY <1>4, <1>7, <1>8, <1>9 DEF Chain
<1>11. ASSUME NEW i \in 1 .. Len(path) PROVE Named(L[e[i + 1]], path[i])
  <2>1. i + 1 \in 1 .. m
    BY <1>2
  <2>2. CASE i + 1 <= j
    <3>1. i + 1 \in 1 .. j /\ i + 1 \in 1 .. Len(c)
      BY <1>4, <1>5, <2>1, <2>2
    <3>2. d[i + 1] = n2 + 1 - (i + 1) /\ e[i + 1] = c[i + 1]
      BY <1>5, <1>6, <2>1, <2>2, <3>1
    <3>3. Alike(L2[d[i + 1]], L[e[i + 1]])
      BY <3>1, <3>2 DEF Relabelled
    <3> QED BY <1>2, <3>3 DEF Alike, Named
  <2>3. CASE i + 1 > j
    <3>1. e[i + 1] = d[i + 1] /\ d[i + 1] \in 1 .. n
      BY <1>5, <1>6, <2>1, <2>3
    <3>2. L2[d[i + 1]] = L[e[i + 1]]
      BY <3>1 DEF Relabelled
    <3> QED BY <1>2, <3>2
  <2> QED BY <1>5, <2>1, <2>2, <2>3
<1> QED BY <1>2, <1>7, <1>10, <1>11 DEF Leads, e

\* How far a path goes along another.
LEMMA CommonPart ==
  ASSUME NEW n, NEW K, Older(K, n), NEW root, NEW c, Chain(K, c, root),
         NEW e, Chain(K, e, root)
  PROVE  \E j \in Nat : /\ j \in 1 .. Len(e) /\ j <= Len(c)
                        /\ \A i \in 1 .. j : e[i] = c[i]
                        /\ j < Len(e) /\ j < Len(c) => e[j + 1] # c[j + 1]
<1> DEFINE S == {i \in Nat : i >= 1 /\ (i > Len(e) \/ i > Len(c) \/ e[i] # c[i])}
<1>1. Len(c) \in Nat /\ Len(c) >= 1 /\ c[1] = root /\ Len(e) \in Nat /\ Len(e) >= 1
      /\ e[1] = root
  BY ChainLen
<1>2. S \subseteq Nat
  OBVIOUS
<1>3. S # {}
  <2>1. Len(e) + 1 \in S
    BY <1>1
  <2> QED BY <2>1
<1>4. PICK l \in S : \A k \in S : l <= k
  <2> HIDE DEF S
  <2> QED BY <1>2, <1>3, LeastNumber
<1>5. l \in Nat /\ l >= 1 /\ (l > Len(e) \/ l > Len(c) \/ e[l] # c[l])
  OBVIOUS
<1>6. l # 1
  BY <1>1, <1>5
<1> DEFINE j == l - 1
<1>7. j \in Nat /\ j >= 1 /\ j + 1 = l
  BY <1>5, <1>6
<1>8. \A i \in 1 .. j : i \notin S
  <2> SUFFICES ASSUME NEW i \in 1 .. j, i \in S PROVE FALSE
    OBVIOUS
  <2>1. l <= i
    <3> HIDE DEF S
    <3> QED BY <1>4
  <2> QED BY <1>7, <2>1
<1>9. \A i \in 1 .. j : ~ (i > Len(e)) /\ ~ (i > Len(c)) /\ e[i] = c[i]
  BY <1>8
<1> HIDE DEF S, j
<1>10. j \in 1 .. j
  BY <1>7
<1>11. j \in 1 .. Len(e) /\ j <= Len(c)
  BY <1>1, <1>7, <1>9, <1>10
<1>12. j < Len(e) /\ j < Len(c) => e[j + 1] # c[j + 1]
  BY <1>1, <1>5, <1>7
<1> QED BY <1>7, <1>9, <1>11, <1>12

\* What a path of the old tree is in the new.
After(e, n2, j) == [i \in 1 .. Len(e) |-> IF i <= j THEN n2 + 1 - i ELSE e[i]]

LEMMA PartsAfter ==
  ASSUME NEW n, NEW K, Older(K, n), NEW c, NEW root, Chain(K, c, root),
         NEW n2, NEW K2, NEW remove, NEW o, Rebuilt(K, n, K2, n2, c, remove, o),
         NEW L, NEW L2, Relabelled(L, n, L2, n2, c),
         NEW path, Len(path) \in Nat, NEW e, Leads(K, L, e, root, path),
         NEW j \in Nat, j \in 1 .. Len(e), j <= Len(c),
         \A i \in 1 .. j : e[i] = c[i], Leaves(e, c, remove, j)
  PROVE  /\ Leads(K2, L2, After(e, n2, j), n2, path)
         /\ Len(After(e, n2, j)) = Len(e)
<1> DEFINE d == After(e, n2, j)
           m == Len(e)
<1>1. Older(K2, n2) /\ \A x \in 1 .. n : K2[x] = K[x]
  BY RebuiltOlder DEF Rebuilt
<1>2. /\ Chain(K, e, root) /\ m = Len(path) + 1
      /\ \A i \in 1 .. Len(path) : Named(L[e[i + 1]], path[i])
  BY DEF Leads
<1>3. /\ m \in Nat /\ m >= 1 /\ \A i \in 1 .. m - 1 : e[i + 1] \in K[e[i]]
      /\ \A i \in 1 .. m : e[i] \in 1 .. n
  BY <1>2, ChainLen, ChainIn
<1>4. Len(c) \in Nat
  BY ChainLen
<1>5. /\ n \in Nat /\ n2 \in Nat /\ n < n2
      /\ \A i \in 1 .. Len(c) : n2 + 1 - i \in 1 .. n2
  BY RebuiltKids
<1>6. /\ \A i \in 1 .. m : i <= j => d[i] = n2 + 1 - i /\ i \in 1 .. Len(c) /\ e[i] = c[i]
      /\ \A i \in 1 .. m : i > j => d[i] = e[i]
  BY <1>3, <1>4 DEF After
<1>7. d \in Seq(Nat) /\ Len(d) = m
  <2>1. d \in [1 .. m -> Nat]
    <3>1. \A i \in 1 .. m : (IF i <= j THEN n2 + 1 - i ELSE e[i]) \in Nat
      BY <1>3, <1>5, <1>6
    <3> QED BY <3>1 DEF After
  <2> HIDE DEF d
  <2> QED BY <1>3, <2>1, FunSeq
<1> HIDE DEF d
<1>8. d # <<>> /\ d[1] = n2 /\ n2 \in DOMAIN K2
  <2>1. 1 \in 1 .. m /\ 1 <= j /\ n2 \in 1 .. n2
    BY <1>3, <1>5
  <2>2. DOMAIN K2 = 1 .. n2
    BY <1>1 DEF Older
  <2> QED BY <1>3, <1>5, <1>6, <1>7, <2>1, <2>2
<1>9. ASSUME NEW i \in 1 .. m - 1 PROVE d[i + 1] \in K2[d[i]]
  <2>1. i \in 1 .. m /\ i + 1 \in 1 .. m
    BY <1>3
  <2>2. CASE i + 1 <= j
    <3>1. i <= j /\ i \in 1 .. Len(c) - 1 /\ n2 + 1 - (i + 1) = n2 - i
      <4>1. i \in Nat /\ i >= 1
        BY <1>3
      <4>2. i <= j /\ i \in 1 .. Len(c) - 1
        BY <1>4, <2>2, <4>1
      <4>3. n2 + 1 - (i + 1) = n2 - i
        BY <1>5, <4>1
      <4> QED BY <4>2, <4>3
    <3>2. d[i] = n2 + 1 - i /\ d[i + 1] = n2 - i
      BY <1>6, <2>1, <2>2, <3>1
    <3>3. n2 - i \in K2[n2 + 1 - i]
      BY <3>1 DEF Rebuilt
    <3> QED BY <3>2, <3>3
  <2>3. CASE i = j
    <3>1. j < m /\ i + 1 > j /\ i <= j
      BY <1>3, <2>3
    <3>2. d[i] = n2 + 1 - j /\ d[i + 1] = e[i + 1] /\ e[i + 1] \in K[c[j]]
          /\ j \in 1 .. Len(c)
      BY <1>3, <1>6, <2>1, <2>3, <3>1
    <3>3. CASE j < Len(c)
      <4>1. e[i + 1] # c[j + 1] /\ j \in 1 .. Len(c) - 1
        BY <1>4, <2>3, <3>1, <3>3 DEF Leaves
      <4>2. K2[n2 + 1 - j] = (K[c[j]] \ {c[j + 1]}) \cup {n2 - j}
        BY <4>1 DEF Rebuilt
      <4> QED BY <3>2, <4>1, <4>2
    <3>4. CASE j = Len(c)
      <4>1. e[i + 1] \notin remove
        BY <2>3, <3>1, <3>4 DEF Leaves
      <4>2. K[c[j]] \ remove \subseteq K2[n2 + 1 - j]
        BY <3>4 DEF Rebuilt
      <4> QED BY <3>2, <4>1, <4>2
    <3> QED BY <1>4, <3>3, <3>4
  <2>4. CASE i > j
    <3>1. i + 1 > j
      BY <2>4
    <3>2. d[i] = e[i] /\ d[i + 1] = e[i + 1] /\ e[i] \in 1 .. n
      BY <1>3, <1>6, <2>1, <2>4, <3>1
    <3> QED BY <1>1, <1>3, <3>2
  <2> QED BY <2>2, <2>3, <2>4
<1>10. Chain(K2, d, n2)
  BY <1>7, <1>8, <1>9 DEF Chain
<1>11. ASSUME NEW i \in 1 .. Len(path) PROVE Named(L2[d[i + 1]], path[i])
  <2>1. i + 1 \in 1 .. m
    BY <1>2
  <2>2. CASE i + 1 <= j
    <3>1. i + 1 \in 1 .. Len(c) /\ d[i + 1] = n2 + 1 - (i + 1) /\ e[i + 1] = c[i + 1]
      BY <1>6, <2>1, <2>2
    <3>2. Alike(L2[d[i + 1]], L[e[i + 1]])
      BY <3>1 DEF Relabelled
    <3> QED BY <1>2, <3>2 DEF Alike, Named
  <2>3. CASE i + 1 > j
    <3>1. d[i + 1] = e[i + 1] /\ e[i + 1] \in 1 .. n
      BY <1>3, <1>6, <2>1, <2>3
    <3>2. L2[d[i + 1]] = L[e[i + 1]]
      BY <3>1 DEF Relabelled
    <3> QED BY <1>2, <3>2
  <2> QED BY <2>1, <2>2, <2>3
<1> QED BY <1>2, <1>7, <1>10, <1>11 DEF Leads, d

\* The leaf is the last block of the path and its own name.
WithLeaf(c, n, n2) == [i \in 1 .. Len(c) + 1 |-> IF i <= Len(c) THEN n2 + 1 - i ELSE n + 1]

LEMMA LeafHere ==
  ASSUME NEW n, NEW K, Older(K, n), NEW c, NEW root,
         NEW n2, NEW K2, NEW remove, Rebuilt(K, n, K2, n2, c, remove, 1),
         NEW L, NEW L2, Relabelled(L, n, L2, n2, c),
         NEW S, NEW path \in Seq(S), Leads(K, L, c, root, path),
         NEW name \in S, Named(L2[n + 1], name)
  PROVE  Leads(K2, L2, WithLeaf(c, n, n2), n2, Append(path, name))
<1> DEFINE d == WithLeaf(c, n, n2)
           kk == Len(c)
           p == Append(path, name)
<1>1. /\ Chain(K, c, root) /\ kk = Len(path) + 1
      /\ \A i \in 1 .. Len(path) : Named(L[c[i + 1]], path[i])
  BY DEF Leads
<1>2. Older(K2, n2)
  BY <1>1, RebuiltOlder
<1>3. /\ Len(path) \in Nat /\ kk \in Nat /\ kk >= 1
      /\ Len(p) = kk /\ p[kk] = name /\ \A i \in 1 .. Len(path) : p[i] = path[i]
  BY <1>1, AppendAt
<1>4. /\ n \in Nat /\ n2 \in Nat /\ n < n2
      /\ \A i \in 1 .. kk : n2 + 1 - i \in 1 .. n2
  BY <1>1, RebuiltKids
<1>5. /\ \A i \in 1 .. kk : d[i] = n2 + 1 - i
      /\ d[kk + 1] = n + 1
  BY <1>3 DEF WithLeaf
<1>6. d \in Seq(Nat) /\ Len(d) = kk + 1
  <2>1. d \in [1 .. kk + 1 -> Nat]
    <3>1. \A i \in 1 .. kk + 1 : i <= kk => i \in 1 .. kk
      BY <1>3
    <3>2. \A i \in 1 .. kk + 1 : (IF i <= kk THEN n2 + 1 - i ELSE n + 1) \in Nat
      BY <1>4, <3>1
    <3> QED BY <3>2 DEF WithLeaf
  <2>2. kk + 1 \in Nat
    BY <1>3
  <2> HIDE DEF d
  <2> QED BY <2>1, <2>2, FunSeq
<1> HIDE DEF d
<1>7. d # <<>> /\ d[1] = n2 /\ n2 \in DOMAIN K2
  <2>1. 1 \in 1 .. kk /\ n2 \in 1 .. n2
    BY <1>3, <1>4
  <2>2. DOMAIN K2 = 1 .. n2
    BY <1>2 DEF Older
  <2> QED BY <1>3, <1>4, <1>5, <1>6, <2>1, <2>2
<1>8. ASSUME NEW i \in 1 .. kk PROVE d[i + 1] \in K2[d[i]]
  <2>1. CASE i = kk
    <3>1. n + 1 \in K2[n2 + 1 - kk]
      BY DEF Rebuilt
    <3> QED BY <1>5, <2>1, <3>1
  <2>2. CASE i # kk
    <3>1. i \in 1 .. kk - 1 /\ i + 1 \in 1 .. kk /\ n2 + 1 - (i + 1) = n2 - i
      BY <1>3, <1>4, <2>2
    <3>2. n2 - i \in K2[n2 + 1 - i]
      BY <3>1 DEF Rebuilt
    <3> QED BY <1>5, <3>1, <3>2
  <2> QED BY <2>1, <2>2
<1>9. Chain(K2, d, n2)
  <2>1. (kk + 1) - 1 = kk
    BY <1>3
  <2> QED BY <1>6, <1>7, <1>8, <2>1 DEF Chain
<1>10. ASSUME NEW i \in 1 .. kk PROVE Named(L2[d[i + 1]], p[i])
  <2>1. CASE i = kk
    BY <1>3, <1>5, <2>1
  <2>2. CASE i # kk
    <3>1. i \in 1 .. Len(path) /\ i + 1 \in 1 .. kk
      BY <1>1, <1>3, <2>2
    <3>2. Alike(L2[d[i + 1]], L[c[i + 1]]) /\ p[i] = path[i]
      BY <1>3, <1>5, <3>1 DEF Relabelled
    <3> QED BY <1>1, <3>1, <3>2 DEF Alike, Named
  <2> QED BY <2>1, <2>2
<1> QED BY <1>3, <1>6, <1>9, <1>10 DEF Leads, d

\* Nothing else leads to it.
LEMMA LeafPath ==
  ASSUME NEW n, NEW K, Older(K, n), NEW c, NEW root, NEW n2, NEW K2,
         NEW L, NEW L2, Relabelled(L, n, L2, n2, c),
         NEW S, NEW path \in Seq(S), Leads(K, L, c, root, path),
         NEW q \in Seq(S), NEW d, Leads(K2, L2, d, n2, q), ToLeaf(d, c, n, n2)
  PROVE  /\ L2[n + 1].kind # "contents" /\ L2[n + 1].name \in S
         /\ q = Append(path, L2[n + 1].name)
<1> DEFINE kk == Len(c)
           name == L2[n + 1].name
<1>1. /\ Chain(K, c, root) /\ kk = Len(path) + 1
      /\ \A i \in 1 .. Len(path) : Named(L[c[i + 1]], path[i])
  BY DEF Leads
<1>2. /\ Len(d) = Len(q) + 1
      /\ \A i \in 1 .. Len(q) : Named(L2[d[i + 1]], q[i])
  BY DEF Leads
<1>3. /\ Len(d) = kk + 1 /\ d[kk + 1] = n + 1
      /\ \A i \in 1 .. kk : d[i] = n2 + 1 - i
  BY DEF ToLeaf
<1>4. Len(path) \in Nat /\ Len(q) \in Nat /\ Len(q) = kk /\ kk \in 1 .. kk /\ kk \in Nat
  BY <1>1, <1>2, <1>3
<1>5. Named(L2[n + 1], q[kk]) /\ q[kk] \in S
  BY <1>2, <1>3, <1>4
<1>6. L2[n + 1].kind # "contents" /\ name = q[kk] /\ name \in S
  BY <1>5 DEF Named
<1>7. ASSUME NEW i \in 1 .. Len(path) PROVE q[i] = path[i]
  <2>1. i + 1 \in 1 .. kk /\ i \in 1 .. Len(q)
    BY <1>1, <1>4
  <2>2. Named(L2[d[i + 1]], q[i]) /\ d[i + 1] = n2 + 1 - (i + 1)
    BY <1>2, <1>3, <2>1
  <2>3. Alike(L2[d[i + 1]], L[c[i + 1]])
    BY <2>1, <2>2 DEF Relabelled
  <2> QED BY <1>1, <2>2, <2>3 DEF Alike, Named
<1> DEFINE p == Append(path, name)
<1> HIDE DEF name
<1>8. /\ p \in Seq(S) /\ Len(p) = kk /\ p[kk] = name
      /\ \A i \in 1 .. Len(path) : p[i] = path[i]
  BY <1>1, <1>4, <1>6, AppendAt
<1> HIDE DEF p
<1>9. \A i \in 1 .. kk : q[i] = p[i]
  <2>1. \A i \in 1 .. kk : i = kk \/ i \in 1 .. Len(path)
    BY <1>1, <1>4
  <2> QED BY <1>6, <1>7, <1>8, <2>1
<1>10. Len(q) = Len(p) /\ \A i \in 1 .. Len(q) : q[i] = p[i]
  BY <1>4, <1>8, <1>9
<1>11. p \in Seq(S) /\ q \in Seq(S)
  BY <1>8
<1>12. q = p
  BY <1>10, <1>11, SameElements
<1> QED BY <1>6, <1>12 DEF p, name

-----------------------------------------------------------------------------
(* Names when blocks are added *)

LEMMA FrontLast ==
  ASSUME NEW S, NEW p \in Seq(S), p # <<>>
  PROVE  /\ Front(p) \in Seq(S) /\ Len(Front(p)) = Len(p) - 1 /\ Last(p) \in S
         /\ Append(Front(p), Last(p)) = p
         /\ Len(p) \in Nat /\ Len(p) >= 1
<1> DEFINE f == Front(p)
           a == Last(p)
           k == Len(p)
<1>1. k \in Nat /\ k >= 1 /\ a = p[k] /\ k \in 1 .. k /\ a \in S
  BY DEF Last
<1>2. f \in Seq(S) /\ Len(f) = k - 1 /\ \A i \in 1 .. k - 1 : f[i] = p[i]
  <2> DEFINE g == SubSeq(p, 1, k - 1)
  <2>1. f = g
    BY DEF Front
  <2>2. CASE k = 1
    <3>1. k - 1 = 0 /\ 0 - 1 + 1 = 0 /\ 1 .. 0 = {}
      BY <2>2
    <3>2. g \in Seq(S) /\ DOMAIN g = 1 .. 0 - 1 + 1
      <4>1. SubSeq(p, 1, 0) \in Seq(S) /\ DOMAIN SubSeq(p, 1, 0) = 1 .. 0 - 1 + 1
        BY <1>1, PartAt
      <4> QED BY <3>1, <4>1
    <3> HIDE DEF g
    <3>3. DOMAIN g = {}
      BY <3>1, <3>2
    <3>4. Len(g) = 0
      BY <3>2, <3>3
    <3> QED BY <2>1, <3>1, <3>2, <3>4
  <2>3. CASE k # 1
    <3>1. /\ k - 1 \in Nat /\ 1 <= k - 1 /\ k - 1 <= k /\ (k - 1) - 1 + 1 = k - 1
          /\ \A i \in 1 .. k - 1 : 1 + i - 1 = i
      <4> HIDE DEF k
      <4>1. k - 1 \in Nat /\ 1 <= k - 1 /\ k - 1 <= k /\ (k - 1) - 1 + 1 = k - 1
        BY <1>1, <2>3
      <4>2. \A i \in 1 .. k - 1 : 1 + i - 1 = i
        OBVIOUS
      <4> QED BY <4>1, <4>2
    <3>2. /\ g \in Seq(S) /\ Len(g) = (k - 1) - 1 + 1
          /\ \A i \in 1 .. (k - 1) - 1 + 1 : g[i] = p[1 + i - 1]
      BY <3>1, PartAt
    <3> HIDE DEF g
    <3> QED BY <2>1, <3>1, <3>2
  <2> QED BY <2>2, <2>3
<1> HIDE DEF f, a
<1> DEFINE q == Append(f, a)
<1>3. /\ q \in Seq(S) /\ Len(q) = k /\ q[k] = a
      /\ \A i \in 1 .. k - 1 : q[i] = f[i]
  <2>1. q \in Seq(S) /\ Len(q) = Len(f) + 1 /\ q[Len(f) + 1] = a
        /\ \A i \in 1 .. Len(f) : q[i] = f[i]
    BY <1>1, <1>2, AppendAt
  <2>2. Len(f) + 1 = k
    BY <1>1, <1>2
  <2> HIDE DEF q
  <2> QED BY <1>2, <2>1, <2>2
<1> HIDE DEF q
<1>4. Len(q) = Len(p) /\ \A i \in 1 .. Len(q) : q[i] = p[i]
  <2>1. \A i \in 1 .. k : i = k \/ i \in 1 .. k - 1
    BY <1>1
  <2> QED BY <1>1, <1>2, <1>3, <2>1
<1>5. q = p
  BY <1>3, <1>4, SameElements
<1> QED BY <1>1, <1>2, <1>5 DEF q, f, a

\* One more entry.
LEMMA LeadsOn ==
  ASSUME NEW n, NEW K, Older(K, n), NEW L, NEW c, NEW root, NEW S, NEW path \in Seq(S),
         Leads(K, L, c, root, path), NEW z \in K[c[Len(c)]], NEW name \in S,
         Named(L[z], name)
  PROVE  Leads(K, L, Append(c, z), root, Append(path, name))
<1> DEFINE d == Append(c, z)
           p == Append(path, name)
           k == Len(c)
<1>1. /\ Chain(K, c, root) /\ k = Len(path) + 1
      /\ \A i \in 1 .. Len(path) : Named(L[c[i + 1]], path[i])
  BY DEF Leads
<1>2. k \in Nat /\ k >= 1 /\ c \in Seq(Nat) /\ k \in 1 .. k /\ Len(path) \in Nat
  BY <1>1, ChainLen
<1>3. c[k] \in 1 .. n
  BY <1>1, <1>2, ChainIn
<1>4. z \in Nat /\ Last(c) = c[k]
  BY <1>3 DEF Older, Last
<1>5. Chain(K, d, root)
  BY <1>1, <1>4, AppendChain
<1>6. Len(d) = k + 1 /\ d[k + 1] = z /\ \A i \in 1 .. k : d[i] = c[i]
  BY <1>2, <1>4, AppendAt
<1>7. Len(p) = k /\ p[k] = name /\ \A i \in 1 .. Len(path) : p[i] = path[i]
  BY <1>1, <1>2, AppendAt
<1> HIDE DEF d, p
<1>8. ASSUME NEW i \in 1 .. k PROVE Named(L[d[i + 1]], p[i])
  <2>1. CASE i = k
    BY <1>6, <1>7, <2>1
  <2>2. CASE i # k
    <3>1. i \in 1 .. Len(path) /\ i + 1 \in 1 .. k
      BY <1>1, <1>2, <2>2
    <3> QED BY <1>1, <1>6, <1>7, <3>1
  <2> QED BY <2>1, <2>2
<1> QED BY <1>5, <1>6, <1>7, <1>8 DEF Leads, d, p

\* L2 has the blocks of L.
Extends(L, n, L2) == \A x \in 1 .. n : L2[x] = L[x]

LEMMA GrowsLeads ==
  ASSUME NEW K, NEW n, NEW K2, NEW n2, Grows(K, n, K2, n2), NEW L, NEW L2,
         Extends(L, n, L2), NEW c, NEW root \in 1 .. n, NEW path, Len(path) \in Nat
  PROVE  Leads(K, L, c, root, path) <=> Leads(K2, L2, c, root, path)
<1>1. /\ Older(K, n) /\ Older(K2, n2) /\ n <= n2 /\ \A x \in 1 .. n : K2[x] = K[x]
  BY DEF Grows
<1>2. ASSUME Chain(K2, c, root) PROVE Chain(K, c, root)
  <2>1. /\ Len(c) \in Nat /\ Len(c) >= 1 /\ c[1] = root /\ c \in Seq(Nat) /\ c # <<>>
        /\ \A i \in 1 .. Len(c) - 1 : c[i + 1] \in K2[c[i]]
    <3>1. c # <<>>
      BY <1>2 DEF Chain
    <3> QED BY <1>1, <1>2, <3>1, ChainLen
  <2>2. 1 \in 1 .. Len(c) /\ \A i \in 1 .. Len(c) : 1 <= i
    BY <2>1
  <2>3. c[1] \in 1 .. n
    BY <2>1
  <2>4. \A i \in 1 .. Len(c) : c[i] \in 1 .. n
    BY <1>1, <1>2, <2>2, <2>3, OldFrom
  <2>5. \A i \in 1 .. Len(c) - 1 : i \in 1 .. Len(c)
    BY <2>1
  <2>6. \A i \in 1 .. Len(c) - 1 : c[i + 1] \in K[c[i]]
    BY <1>1, <2>1, <2>4, <2>5
  <2>7. root \in DOMAIN K
    BY <1>1 DEF Older
  <2> QED BY <2>1, <2>6, <2>7 DEF Chain
<1>3. ASSUME Chain(K, c, root), Len(c) = Len(path) + 1
      PROVE  \A i \in 1 .. Len(path) : L2[c[i + 1]] = L[c[i + 1]]
  <2>1. \A i \in 1 .. Len(c) : c[i] \in 1 .. n
    BY <1>1, <1>3, ChainIn
  <2>2. \A i \in 1 .. Len(path) : i + 1 \in 1 .. Len(c)
    BY <1>3
  <2> QED BY <2>1, <2>2 DEF Extends
<1>4. Chain(K, c, root) => Chain(K2, c, root)
  BY GrowsChain
<1> QED BY <1>2, <1>3, <1>4 DEF Leads

LEMMA GrowsHere ==
  ASSUME NEW K, NEW n, NEW K2, NEW n2, Grows(K, n, K2, n2), NEW L, NEW L2,
         Extends(L, n, L2), NEW root \in 1 .. n, NEW path, Len(path) \in Nat
  PROVE  Here(K, L, root, path) <=> Here(K2, L2, root, path)
<1>1. \A c : Leads(K, L, c, root, path) <=> Leads(K2, L2, c, root, path)
  BY GrowsLeads
<1> QED BY <1>1 DEF Here

LEMMA GrowsUnique ==
  ASSUME NEW K, NEW n, NEW K2, NEW n2, Grows(K, n, K2, n2), NEW L, NEW L2,
         Extends(L, n, L2), NEW root \in 1 .. n
  PROVE  Unique(K, L, root) <=> Unique(K2, L2, root)
<1>1. Older(K, n) /\ \A x \in 1 .. n : K2[x] = K[x]
  BY DEF Grows
<1>2. Reach(K2, root) = Reach(K, root) /\ Reach(K, root) \subseteq 1 .. n
  BY <1>1, GrowsReach, ReachClosed
<1>3. \A x \in Reach(K, root) : K2[x] = K[x] /\ \A k \in K[x] : L2[k] = L[k]
  <2>1. \A x \in 1 .. n : \A k \in K[x] : k \in 1 .. n
    BY <1>1 DEF Older
  <2> QED BY <1>1, <1>2, <2>1 DEF Extends
<1> QED BY <1>2, <1>3 DEF Unique

-----------------------------------------------------------------------------
(* Names in the new tree of a change *)

Adds(r) == r.op \in {"mkdir", "create"}

\* The path of the blocks a call works on: the parent's, if it adds an entry.
Resolved(r) == IF Adds(r) THEN Front(r.path) ELSE r.path

LEMMA ReplaceAlike ==
  ASSUME Types, NEW c, NEW root, Chain(Kids, c, root), NEW remove,
         NEW add \in SUBSET Nat, NEW base \in Nat
  PROVE  \A i \in 1 .. Len(c) :
           Alike(replace_chain(c, remove, add, base)[Len(c) + 1 - i], made[c[i]])
<1> DEFINE k == Len(c)
           s == replace_chain(c, remove, add, base)
           copy(i) == IF i = k
             THEN [made[c[i]] EXCEPT !.kids = (@ \ remove) \cup add]
             ELSE [made[c[i]] EXCEPT !.kids = (@ \ {c[i + 1]}) \cup {base + k - i - 1}]
<1>1. Older(Kids, Len(made)) /\ k \in Nat /\ k >= 1
  BY ChainLen DEF Types
<1>2. \A i \in 1 .. k : c[i] \in 1 .. Len(made)
  BY <1>1, ChainIn
<1>3. \A i \in 1 .. k : made[c[i]] \in Blocks
  BY <1>2, TypesFacts
<1>4. s = [j \in 1 .. k |-> copy(k + 1 - j)]
  BY DEF replace_chain
<1> HIDE DEF s
<1>5. ASSUME NEW i \in 1 .. k PROVE Alike(copy(i), made[c[i]])
  <2>1. made[c[i]] \in Blocks
    BY <1>3
  <2>2. CASE i = k
    BY <2>1, <2>2 DEF Alike, Blocks
  <2>3. CASE i # k
    BY <2>1, <2>3 DEF Alike, Blocks
  <2> QED BY <2>2, <2>3
<1> HIDE DEF copy
<1>6. ASSUME NEW i \in 1 .. k PROVE Alike(s[k + 1 - i], made[c[i]])
  <2>1. k + 1 - i \in 1 .. k /\ k + 1 - (k + 1 - i) = i
    BY <1>1
  <2>2. s[k + 1 - i] = copy(i)
    BY <1>4, <2>1
  <2> QED BY <1>5, <2>2
<1> QED BY <1>6 DEF s

\* The blocks w that end with copies of a path are added.
LEMMA AddedAlike ==
  ASSUME NEW m \in Seq(Blocks), NEW w \in Seq(Blocks), NEW m2, m2 = m \o w,
         NEW c, Len(c) \in Nat, NEW s, Len(s) = Len(c), NEW o \in {0, 1},
         AfterLeaf(w, s, o),
         \A i \in 1 .. Len(c) : Alike(s[Len(c) + 1 - i], m[c[i]])
  PROVE  Relabelled(m, Len(m), m2, Len(m2), c) /\ (o = 1 => m2[Len(m) + 1] = w[1])
<1> DEFINE k == Len(c)
           n == Len(m)
           n2 == Len(m2)
<1>1. /\ n \in Nat /\ Len(w) \in Nat /\ n2 = n + Len(w)
      /\ \A i \in 1 .. n : m2[i] = m[i]
      /\ \A i \in 1 .. Len(w) : m2[n + i] = w[i]
  BY ConcatAt
<1>2. k \in Nat /\ Len(w) = o + k /\ \A i \in 1 .. k : w[o + i] = s[i]
  BY DEF AfterLeaf
<1> HIDE DEF n, n2, k
<1>3. ASSUME NEW i \in 1 .. k PROVE Alike(m2[n2 + 1 - i], m[c[i]])
  <2>1. /\ k + 1 - i \in 1 .. k /\ o + (k + 1 - i) \in 1 .. Len(w)
        /\ n + (o + (k + 1 - i)) = n2 + 1 - i
    BY <1>1, <1>2
  <2>2. m2[n2 + 1 - i] = s[k + 1 - i]
    BY <1>1, <1>2, <2>1
  <2> QED BY <2>2 DEF k
<1>4. o = 1 => m2[n + 1] = w[1]
  <2>1. o = 1 => 1 \in 1 .. Len(w)
    BY <1>2
  <2> QED BY <1>1, <2>1
<1> QED BY <1>1, <1>3, <1>4 DEF Relabelled, n, n2, k

\* What a change makes first.
LeafBlock(r) ==
  IF r.op = "mkdir" THEN Entry("dir", Last(r.path), {})
  ELSE IF r.op = "create" THEN Entry("file", Last(r.path), {})
  ELSE Contents(r.value[1])

LEMMA BuildRelabels ==
  ASSUME Types, NEW t \in Threads, Build(t)
  PROVE  /\ Relabelled(made, Len(made), made', Len(made'), Copied(th[t]))
         /\ th[t].op # "rmdir" => made'[Len(made) + 1] = LeafBlock(th[t])
<1> DEFINE r == th[t]
           c == Copied(r)
           remove == Cut(Kids, r)
           id == Len(made) + 1
           w == NewBlocks(r)
<1>1. /\ r \in Threading /\ Fits(r) /\ Formed(Kids, r) /\ r.pc \in Holding
      /\ r.op \in Changes /\ Older(Kids, Len(made)) /\ made \in Seq(Blocks)
      /\ Len(made) \in Nat
  BY BuildStep, TypesFacts DEF Types, Holding, Fits
<1>2. /\ Chain(Kids, r.blocks, r.root) /\ Last(r.blocks) \in 1 .. Len(made)
      /\ (r.op = "rmdir" => Len(r.blocks) >= 2)
  BY <1>1, HeldChain DEF Formed
<1>3. Chain(Kids, c, r.root)
  BY <1>1, <1>2, CopiedCut
<1>4. made' = made \o w
  BY DEF Build
<1>5. made[Last(r.blocks)].kids = Kids[Last(r.blocks)]
  BY <1>2, TypesFacts
<1>6. Len(c) \in Nat
  BY <1>1, <1>3, ChainLen
<1>7. CASE r.op = "rmdir"
  <2> DEFINE s == replace_chain(c, remove, {}, id)
             base == id
             add == {}
  <2>1. w = s
    BY <1>7 DEF NewBlocks, Copied, Cut
  <2>2. add \in SUBSET Nat /\ base \in Nat
    BY <1>1
  <2> HIDE DEF r, c, remove, w, base, add
  <2>3. /\ Copies(replace_chain(c, remove, add, base), Kids, c, remove, add, base)
        /\ \A i \in 1 .. Len(c) :
             Alike(replace_chain(c, remove, add, base)[Len(c) + 1 - i], made[c[i]])
    BY <1>3, <2>2, ReplaceChain, ReplaceAlike
  <2>4. /\ s \in Seq(Blocks) /\ Len(s) = Len(c)
        /\ \A i \in 1 .. Len(c) : Alike(s[Len(c) + 1 - i], made[c[i]])
    BY <2>3 DEF Copies, base, add
  <2> HIDE DEF s
  <2>5. AfterLeaf(w, s, 0)
    BY <2>1, <2>4 DEF AfterLeaf
  <2>6. w \in Seq(Blocks) /\ 0 \in {0, 1}
    BY <2>1, <2>4
  <2>7. Relabelled(made, Len(made), made', Len(made'), c)
    BY <1>1, <1>4, <1>6, <2>4, <2>5, <2>6, AddedAlike
  <2> QED BY <1>7, <2>7 DEF r, c
<1>8. CASE r.op # "rmdir"
  <2> DEFINE leaf == LeafBlock(r)
             add == {id}
             base == id + 1
             s == replace_chain(c, remove, add, base)
             l == <<leaf>>
  <2>1. w = l \o s
    <3>1. CASE r.op = "mkdir"
      BY <3>1 DEF NewBlocks, Cut, Copied, LeafBlock
    <3>2. CASE r.op = "create"
      BY <3>2 DEF NewBlocks, Cut, Copied, LeafBlock
    <3>3. CASE r.op = "write"
      BY <1>5, <3>3 DEF NewBlocks, Cut, Copied, LeafBlock
    <3> QED BY <1>1, <1>8, <3>1, <3>2, <3>3 DEF Changes
  <2>2. add \in SUBSET Nat /\ base \in Nat
    BY <1>1
  <2>3. leaf \in Blocks /\ leaf.kids = {}
    <3>1. r.path \in Seq(Names) /\ r.path # <<>> /\ Len(r.value) = 1
          /\ r.value \in Seq(Values)
      BY <1>1 DEF Fits, Threading
    <3>2. Last(r.path) \in Names \cup {"", "/"} /\ r.value[1] \in Values \cup {"old"}
      <4>1. Last(r.path) \in Names
        BY <3>1 DEF Last
      <4>2. r.value[1] \in Values
        BY <3>1
      <4> QED BY <4>1, <4>2
    <3>3. {} \in SUBSET Nat
      OBVIOUS
    <3>4. /\ Entry("dir", Last(r.path), {}) \in Blocks
          /\ Entry("dir", Last(r.path), {}).kids = {}
      BY <3>2, <3>3, EntryBlock
    <3>5. /\ Entry("file", Last(r.path), {}) \in Blocks
          /\ Entry("file", Last(r.path), {}).kids = {}
      BY <3>2, <3>3, EntryBlock
    <3>6. Contents(r.value[1]) \in Blocks /\ Contents(r.value[1]).kids = {}
      BY <3>2, ContentsBlock
    <3> HIDE DEF r
    <3> QED BY <3>4, <3>5, <3>6 DEF LeafBlock
  <2> HIDE DEF r, c, remove, w, base, add, leaf
  <2>4. Copies(s, Kids, c, remove, add, base)
    BY <1>3, <2>2, ReplaceChain
  <2>5. \A i \in 1 .. Len(c) : Alike(s[Len(c) + 1 - i], made[c[i]])
    BY <1>3, <2>2, ReplaceAlike
  <2>6. s \in Seq(Blocks) /\ Len(s) = Len(c)
    BY <2>4 DEF Copies
  <2> HIDE DEF s
  <2>7. l \in Seq(Blocks) /\ Len(l) = 1 /\ l[1] = leaf
    BY <2>3
  <2> HIDE DEF l
  <2>8. /\ w \in Seq(Blocks) /\ Len(w) = 1 + Len(s) /\ w[1] = leaf
        /\ \A i \in 1 .. Len(s) : w[1 + i] = s[i]
    <3>1. /\ l \o s \in Seq(Blocks) /\ Len(l \o s) = Len(l) + Len(s)
          /\ \A i \in 1 .. Len(l) : (l \o s)[i] = l[i]
          /\ \A i \in 1 .. Len(s) : (l \o s)[Len(l) + i] = s[i]
      <4>1. l \in Seq(Blocks) /\ s \in Seq(Blocks)
        BY <2>6, <2>7
      <4> QED BY <4>1, ConcatAt
    <3>2. 1 \in 1 .. Len(l)
      BY <2>7
    <3> QED BY <2>1, <2>7, <3>1, <3>2, Zenon
  <2>9. AfterLeaf(w, s, 1)
    BY <2>3, <2>8 DEF AfterLeaf
  <2>10. Relabelled(made, Len(made), made', Len(made'), c) /\ made'[Len(made) + 1] = w[1]
    <3> DEFINE o == 1
    <3>1. o \in {0, 1} /\ AfterLeaf(w, s, o)
      BY <2>9
    <3>2. made \in Seq(Blocks) /\ w \in Seq(Blocks)
      BY <1>1, <2>8
    <3> HIDE DEF o
    <3>3. /\ Relabelled(made, Len(made), made', Len(made'), c)
          /\ o = 1 => made'[Len(made) + 1] = w[1]
      BY <1>4, <1>6, <2>5, <2>6, <3>1, <3>2, AddedAlike
    <3> QED BY <3>3 DEF o
  <2> QED BY <2>8, <2>10 DEF r, c, leaf
<1> QED BY <1>7, <1>8

\* The names in the new tree of a change: they are unique if they were and the
\* change was due; the paths are the old ones and the one it adds.
Renamed(K, L, r) ==
  /\ Unique(K, L, r.root) /\ (Adds(r) => ~ Here(K, L, r.root, r.path)) =>
       Unique(K, L, r.new)
  /\ \A q \in Seq(Names) : Here(K, L, r.new, q) =>
       Here(K, L, r.root, q) \/ (Adds(r) /\ q = r.path)
  /\ Adds(r) => Here(K, L, r.new, r.path)

LEMMA LeafNames ==
  ASSUME NEW r, r.op \in Changes
  PROVE  /\ Adds(r) => LeafBlock(r).kind # "contents" /\ LeafBlock(r).name = Last(r.path)
         /\ r.op = "write" => LeafBlock(r).kind = "contents"
         /\ Leaf(r) = 1 <=> r.op # "rmdir"
         /\ r.op # "rmdir" => Copied(r) = r.blocks
         /\ r.op # "rmdir" => Adds(r) \/ r.op = "write"
<1>1. Leaf(r) = 1 <=> r.op # "rmdir"
  BY DEF Leaf
<1>2. /\ r.op # "rmdir" => Copied(r) = r.blocks
      /\ r.op # "rmdir" => Adds(r) \/ r.op = "write"
  BY DEF Copied, Adds, Changes
<1>3. Adds(r) => LeafBlock(r).kind # "contents" /\ LeafBlock(r).name = Last(r.path)
  BY DEF Adds, LeafBlock, Entry
<1>4. r.op = "write" => LeafBlock(r).kind = "contents"
  BY DEF LeafBlock, Contents
<1> QED BY <1>1, <1>2, <1>3, <1>4

LEMMA BuiltNames ==
  ASSUME NEW n, NEW K, Older(K, n), NEW n2, NEW K2, NEW L, NEW L2, NEW r, NEW p,
         Chain(K, Copied(r), r.root),
         Rebuilt(K, n, K2, n2, Copied(r), Cut(K, r), Leaf(r)),
         Relabelled(L, n, L2, n2, Copied(r)),
         r.op \in Changes, r.path \in Seq(Names), r.path # <<>>,
         Leads(K, L, r.blocks, r.root, Resolved(r)),
         r.op # "rmdir" => L2[n + 1] = LeafBlock(r),
         p.op = r.op, p.path = r.path, p.root = r.root, p.new = n2
  PROVE  Renamed(K2, L2, p)
<1> DEFINE c == Copied(r)
           root == r.root
           remove == Cut(K, r)
           o == Leaf(r)
           path == r.path
           front == Front(path)
           name == Last(path)
           adds == Adds(r)
<1>1. Chain(K, c, root) /\ Rebuilt(K, n, K2, n2, c, remove, o) /\ Relabelled(L, n, L2, n2, c)
  OBVIOUS
<1>2. /\ adds => L2[n + 1].kind # "contents" /\ L2[n + 1].name = name
      /\ r.op = "write" => L2[n + 1].kind = "contents"
      /\ o = 1 <=> r.op # "rmdir"
      /\ r.op # "rmdir" => c = r.blocks
      /\ r.op # "rmdir" => adds \/ r.op = "write"
      /\ adds => r.op # "rmdir"
  <2>1. adds => r.op # "rmdir"
    BY DEF Adds
  <2>2. r.op = "write" => r.op # "rmdir"
    OBVIOUS
  <2> QED BY <2>1, <2>2, LeafNames
<1>3. /\ front \in Seq(Names) /\ name \in Names /\ Append(front, name) = path
      /\ path \in Seq(Names) /\ Len(path) \in Nat
  BY FrontLast
<1>4. /\ adds => Leads(K, L, c, root, front)
      /\ r.op = "write" => Leads(K, L, c, root, path)
  <2>1. adds => Resolved(r) = front
    BY DEF Resolved
  <2>2. r.op = "write" => Resolved(r) = path
    BY DEF Resolved, Adds
  <2>3. r.op = "write" => r.op # "rmdir"
    OBVIOUS
  <2> QED BY <1>2, <2>1, <2>2, <2>3
<1>5. Adds(p) <=> adds
  BY DEF Adds
<1> HIDE DEF c, root, remove, o, path, front, name, adds
<1>6. Older(K2, n2)
  BY <1>1, RebuiltOlder
<1>7. n \in Nat /\ n2 \in Nat /\ n < n2 /\ root \in 1 .. n
  BY <1>1, RebuiltKids, ChainLen
<1>8. Grows(K, n, K2, n2) /\ Extends(L, n, L2)
  <2>1. n <= n2
    BY <1>7
  <2>2. (\A x \in 1 .. n : K2[x] = K[x]) /\ (\A x \in 1 .. n : L2[x] = L[x])
    BY <1>1 DEF Rebuilt, Relabelled
  <2> QED BY <1>6, <2>1, <2>2 DEF Grows, Extends
<1>9. ASSUME Unique(K2, L2, root), adds => ~ Here(K2, L2, root, path)
      PROVE  Unique(K2, L2, n2)
  <2>1. Unique(K, L, root)
    BY <1>7, <1>8, <1>9, GrowsUnique
  <2>2. ASSUME o = 1, L2[n + 1].kind # "contents", NEW z \in K[c[Len(c)]],
               Named(L[z], L2[n + 1].name)
        PROVE  FALSE
    <3>1. adds /\ Leads(K, L, c, root, front)
      BY <1>2, <1>4, <2>2
    <3>2. Named(L[z], name)
      BY <1>2, <2>2, <3>1
    <3>3. Leads(K, L, Append(c, z), root, path)
      BY <1>3, <3>1, <3>2, LeadsOn
    <3>4. Here(K, L, root, path)
      BY <3>3 DEF Here
    <3> QED BY <1>3, <1>7, <1>8, <1>9, <3>1, <3>4, GrowsHere
  <2>3. o = 1 /\ L2[n + 1].kind # "contents" =>
          \A z \in K[c[Len(c)]] : ~ Named(L[z], L2[n + 1].name)
    BY <2>2
  <2> QED BY <1>1, <2>1, <2>3, RebuiltUnique
<1>10. ASSUME NEW q \in Seq(Names), NEW d, Leads(K2, L2, d, n2, q)
       PROVE  Here(K2, L2, root, q) \/ (adds /\ q = path)
  <2>1. Len(q) \in Nat /\ Chain(K2, d, n2)
    BY <1>10 DEF Leads
  <2>2. ASSUME NEW j \in Nat, Parts(d, c, n, n2, j), j < Len(d) => d[j + 1] \in K[c[j]]
        PROVE  Here(K2, L2, root, q)
    <3>1. Leads(K, L, Before(d, c, j), root, q)
      BY <1>1, <1>10, <2>1, <2>2, PartsBefore
    <3>2. Here(K, L, root, q)
      BY <3>1 DEF Here
    <3> QED BY <1>7, <1>8, <2>1, <3>2, GrowsHere
  <2>3. CASE o = 1 /\ ToLeaf(d, c, n, n2)
    <3>1. CASE adds
      <4>0. Leads(K, L, c, root, front)
        BY <1>4, <3>1
      <4>1. q = Append(front, L2[n + 1].name)
        BY <1>1, <1>3, <1>10, <2>3, <4>0, LeafPath
      <4> QED BY <1>2, <1>3, <3>1, <4>1
    <3>2. CASE r.op = "write"
      <4>0. Leads(K, L, c, root, path) /\ path \in Seq(Names)
        BY <1>3, <1>4, <3>2
      <4>1. Relabelled(L, n, L2, n2, c) /\ ToLeaf(d, c, n, n2)
        BY <1>1, <2>3
      <4>2. L2[n + 1].kind # "contents"
        BY <1>10, <4>0, <4>1, LeafPath
      <4> QED BY <1>2, <3>2, <4>2
    <3> QED BY <1>2, <2>3, <3>1, <3>2
  <2>4. \/ \E j \in Nat : /\ Parts(d, c, n, n2, j) /\ Leaves(d, c, remove, j)
                          /\ j < Len(d) => d[j + 1] \in K[c[j]]
        \/ o = 1 /\ ToLeaf(d, c, n, n2)
    BY <1>1, <2>1, NewChain
  <2> QED BY <2>2, <2>3, <2>4
<1>11. ASSUME adds PROVE Here(K2, L2, n2, path)
  <2>1. Named(L2[n + 1], name) /\ Leads(K, L, c, root, front) /\ o = 1
    BY <1>2, <1>4, <1>11 DEF Named
  <2>2. Rebuilt(K, n, K2, n2, c, remove, 1)
    BY <1>1, <2>1
  <2>3. Leads(K2, L2, WithLeaf(c, n, n2), n2, Append(front, name))
    BY <1>1, <1>3, <2>1, <2>2, LeafHere
  <2> QED BY <1>3, <2>3 DEF Here
<1>12. p.path = path /\ p.root = root /\ p.new = n2
  BY DEF path, root
<1>13. Unique(K2, L2, p.root) /\ (Adds(p) => ~ Here(K2, L2, p.root, p.path)) =>
         Unique(K2, L2, p.new)
  <2> SUFFICES ASSUME Unique(K2, L2, p.root),
                      Adds(p) => ~ Here(K2, L2, p.root, p.path)
               PROVE  Unique(K2, L2, p.new)
    OBVIOUS
  <2>1. Unique(K2, L2, root) /\ (adds => ~ Here(K2, L2, root, path))
    BY <1>5, <1>12
  <2>2. Unique(K2, L2, n2)
    BY <1>9, <2>1
  <2> QED BY <1>12, <2>2
<1>14. \A q \in Seq(Names) : Here(K2, L2, p.new, q) =>
         Here(K2, L2, p.root, q) \/ (Adds(p) /\ q = p.path)
  <2> SUFFICES ASSUME NEW q \in Seq(Names), Here(K2, L2, p.new, q)
               PROVE  Here(K2, L2, p.root, q) \/ (Adds(p) /\ q = p.path)
    OBVIOUS
  <2>1. PICK d : Leads(K2, L2, d, n2, q)
    BY <1>12 DEF Here
  <2> QED BY <1>5, <1>10, <1>12, <2>1
<1>15. Adds(p) => Here(K2, L2, p.new, p.path)
  BY <1>5, <1>11, <1>12
<1> QED BY <1>13, <1>14, <1>15 DEF Renamed

-----------------------------------------------------------------------------
(* What the steps do with a call *)

\* A call goes on with what it has.
Same(q, r) ==
  /\ q.op = r.op /\ q.path = r.path /\ q.value = r.value /\ q.resolve = r.resolve
  /\ q.root = r.root /\ q.blocks = r.blocks

Others(t) == \A u \in Threads \ {t} : th'[u] = th[u]

\* A thread in the tree after it looked for a path, with what the walk gave.
Turned(q, r, b) ==
  \/ q = Idle
  \/ /\ Complete(b, Target(r)) /\ q.pc \in {"fetch", "build"}
     /\ q.op = r.op /\ q.path = r.path /\ q.root = r.root /\ q.blocks = b
     /\ Target(r) = Resolved(r)
     /\ Adds(r) => q.pc = "build" /\ Head(r.resolve) = "parent"
  \/ /\ ~ Complete(b, Target(r)) /\ Head(r.resolve) = "absent" /\ q.pc = "root"
     /\ q.op = r.op /\ q.path = r.path /\ q.root = r.root
     /\ Head(q.resolve) \in {"absent", "parent"}
  \/ /\ ~ Complete(b, Target(r)) /\ Head(r.resolve) = "again" /\ q.pc = "aborted"
     /\ q.op = r.op /\ q.path = r.path

\* What follows after a path that shall not be there.
LEMMA NextAsked ==
  ASSUME NEW r, Fits(r), r.pc \in {"root", "walk"}, Head(r.resolve) = "absent"
  PROVE  Head(Tail(r.resolve)) \in {"absent", "parent"}
<1>1. /\ Tail(<<"absent", "absent", "parent">>) = <<"absent", "parent">>
      /\ Tail(<<"absent", "parent">>) = <<"parent">>
      /\ Head(<<"absent", "parent">>) = "absent"
      /\ Head(<<"parent">>) = "parent" /\ Head(<<"again">>) = "again"
      /\ Head(<<"present">>) = "present"
  OBVIOUS
<1>2. "absent" # "again" /\ "absent" # "parent" /\ "absent" # "present"
  OBVIOUS
<1>3. r.op \in Changes \cup Reads /\ r.resolve \in Asked(r.op)
  BY DEF Fits
<1>4. \/ r.resolve = <<"absent", "absent", "parent">> \/ r.resolve = <<"absent", "parent">>
      \/ r.resolve = <<"parent">> \/ r.resolve = <<"again">> \/ r.resolve = <<"present">>
  BY <1>3, Zenon DEF Asked
<1>5. CASE r.resolve = <<"absent", "absent", "parent">> \/ r.resolve = <<"absent", "parent">>
  BY <1>1, <1>5, Zenon
<1>6. CASE r.resolve = <<"parent">> \/ r.resolve = <<"again">> \/ r.resolve = <<"present">>
  BY <1>1, <1>2, <1>6, Zenon
<1> QED BY <1>4, <1>5, <1>6

LEMMA FoundTurns ==
  ASSUME NEW r \in Threading, Fits(r), r.pc = "walk", NEW b \in Seq(Nat),
         Complete(b, Target(r))
  PROVE  Turned(Found(r, b), r, b)
<1> DEFINE q == Found(r, b)
<1>1. \/ Head(r.resolve) = "absent" /\ r.op \in {"mkdir", "create"}
      \/ Head(r.resolve) = "parent" /\ r.op \in {"mkdir", "create"}
      \/ Head(r.resolve) = "again" /\ r.op = "create"
      \/ Head(r.resolve) = "present" /\ r.op \in {"rmdir", "write"} \cup Reads
  BY AskedFor
<1>2. CASE Head(r.resolve) \in {"absent", "again"}
  <2>1. q = Idle
    <3>1. CASE Head(r.resolve) = "absent" /\ r.op \in {"mkdir", "create"}
      BY <3>1 DEF Found
    <3>2. CASE Head(r.resolve) = "again" /\ r.op = "create"
      BY <3>2 DEF Found
    <3> QED BY <1>1, <1>2, <3>1, <3>2
  <2> HIDE DEF q
  <2>2. Turned(q, r, b)
    BY <2>1 DEF Turned
  <2> QED BY <2>2 DEF q
<1>3. ASSUME NEW pc \in {"fetch", "build"}, q = [r EXCEPT !.pc = pc, !.blocks = b]
      PROVE  /\ q.pc = pc /\ q.op = r.op /\ q.path = r.path /\ q.root = r.root
             /\ q.blocks = b
  <2> HIDE DEF q
  <2> QED BY <1>3 DEF Threading
<1>4. CASE Head(r.resolve) = "parent" /\ r.op \in {"mkdir", "create"}
  <2>1. q = [r EXCEPT !.pc = "build", !.blocks = b]
    BY <1>4 DEF Found
  <2>2. q.pc = "build" /\ q.op = r.op /\ q.path = r.path /\ q.root = r.root /\ q.blocks = b
    BY <1>3, <2>1
  <2>3. Target(r) = Resolved(r)
    BY <1>4 DEF Target, Resolved, Adds
  <2> HIDE DEF q
  <2>4. Turned(q, r, b)
    BY <1>4, <2>2, <2>3 DEF Turned
  <2> QED BY <2>4 DEF q
<1>5. CASE Head(r.resolve) = "present" /\ r.op \in {"rmdir", "write"} \cup Reads
  <2>1. Target(r) = Resolved(r) /\ ~ Adds(r)
    BY <1>5 DEF Target, Resolved, Adds, Reads
  <2>2. \/ q = Idle
        \/ q = [r EXCEPT !.pc = "build", !.blocks = b]
        \/ q = [r EXCEPT !.pc = "fetch", !.blocks = b]
    <3>1. CASE r.op = "getattr"
      BY <1>5, <3>1 DEF Found
    <3>2. CASE r.op = "rmdir"
      BY <1>5, <3>2 DEF Found
    <3>3. CASE r.op = "readdir"
      BY <1>5, <3>3 DEF Found
    <3>4. CASE r.op \in {"read", "write"}
      BY <1>5, <3>4 DEF Found
    <3> QED BY <1>5, <3>1, <3>2, <3>3, <3>4 DEF Reads
  <2>3. \/ q = Idle
        \/ /\ q.pc \in {"fetch", "build"} /\ q.op = r.op /\ q.path = r.path
           /\ q.root = r.root /\ q.blocks = b
    BY <1>3, <2>2
  <2> HIDE DEF q
  <2>4. Turned(q, r, b)
    BY <2>1, <2>3 DEF Turned
  <2> QED BY <2>4 DEF q
<1> QED BY <1>1, <1>2, <1>4, <1>5

LEMMA MissingTurns ==
  ASSUME NEW r \in Threading, Fits(r), r.pc = "walk", NEW b,
         ~ Complete(b, Target(r))
  PROVE  Turned(Missing(r), r, b)
<1> DEFINE q == Missing(r)
<1>1. CASE Head(r.resolve) = "absent"
  <2>1. q = [r EXCEPT !.pc = "root", !.resolve = Tail(r.resolve)]
    BY <1>1 DEF Missing
  <2> HIDE DEF q
  <2>2. /\ q.pc = "root" /\ q.op = r.op /\ q.path = r.path /\ q.root = r.root
        /\ q.resolve = Tail(r.resolve)
    BY <2>1 DEF Threading
  <2>3. Head(q.resolve) \in {"absent", "parent"}
    BY <1>1, <2>2, NextAsked
  <2>4. Turned(q, r, b)
    BY <1>1, <2>2, <2>3 DEF Turned
  <2> QED BY <2>4 DEF q
<1>2. CASE Head(r.resolve) = "again"
  <2>1. q = [r EXCEPT !.pc = "aborted"]
    BY <1>2 DEF Missing
  <2> HIDE DEF q
  <2>2. q.pc = "aborted" /\ q.op = r.op /\ q.path = r.path
    BY <2>1 DEF Threading
  <2>3. Turned(q, r, b)
    BY <1>2, <2>2 DEF Turned
  <2> QED BY <2>3 DEF q
<1>3. CASE Head(r.resolve) \notin {"absent", "again"}
  <2>1. q = Idle
    BY <1>3 DEF Missing
  <2> HIDE DEF q
  <2>2. Turned(q, r, b)
    BY <2>1 DEF Turned
  <2> QED BY <2>2 DEF q
<1> QED BY <1>1, <1>2, <1>3

\* A step of get_path ends in waiting for ever or in what the path found means.
LEMMA WalkTurns ==
  ASSUME Types, NEW t \in Threads, Walk(t)
  PROVE  /\ Others(t) /\ th[t].pc = "walk" /\ th[t].root \in 1 .. Len(made)
         /\ Len(Target(th[t])) \in Nat
         /\ \E b \in get_path(th[t].root, Target(th[t])) :
              \/ /\ MayHang(Fetched(b, Target(th[t]))) /\ th'[t].pc = "hung"
                 /\ th'[t].op = th[t].op /\ th'[t].path = th[t].path
              \/ Turned(th'[t], th[t], b)
<1> DEFINE r == th[t]
<1>1. /\ r \in Threading /\ Fits(r) /\ Formed(Kids, r) /\ r.pc = "walk"
      /\ r.root \in 1 .. Len(made) /\ Older(Kids, Len(made))
  BY TypesFacts DEF Types, Walk, Formed
<1>2. Len(Target(r)) \in Nat
  BY <1>1, TargetLen
<1>3. PICK b \in get_path(r.root, Target(r)) :
        \/ MayHang(Fetched(b, Target(r))) /\ Hang(t)
        \/ th' = [th EXCEPT ![t] = IF Complete(b, Target(r))
                                   THEN Found(r, b) ELSE Missing(r)]
  BY DEF Walk
<1>4. Chain(Kids, b, r.root)
  BY <1>1, <1>2, GetPathChain
<1>5. th \in [Threads -> Threading]
  BY DEF Types
<1>6. CASE MayHang(Fetched(b, Target(r))) /\ Hang(t)
  <2>1. th' = [th EXCEPT ![t].pc = "hung"]
    BY <1>6 DEF Hang
  <2>2. th'[t] = [r EXCEPT !.pc = "hung"] /\ Others(t)
    BY <1>5, <2>1 DEF Others
  <2> HIDE DEF r
  <2>3. th'[t].pc = "hung" /\ th'[t].op = r.op /\ th'[t].path = r.path
    BY <1>1, <2>2 DEF Threading
  <2> QED BY <1>1, <1>2, <1>3, <1>6, <2>2, <2>3 DEF r
<1>7. CASE th' = [th EXCEPT ![t] = IF Complete(b, Target(r))
                                   THEN Found(r, b) ELSE Missing(r)]
  <2>1. th'[t] = (IF Complete(b, Target(r)) THEN Found(r, b) ELSE Missing(r)) /\ Others(t)
    BY <1>5, <1>7 DEF Others
  <2> HIDE DEF r
  <2>2. CASE Complete(b, Target(r))
    <3>1. b \in Seq(Nat)
      BY <1>4 DEF Chain
    <3>2. Turned(th'[t], r, b)
      BY <1>1, <2>1, <2>2, <3>1, FoundTurns
    <3> QED BY <1>1, <1>2, <1>3, <2>1, <3>2 DEF r
  <2>3. CASE ~ Complete(b, Target(r))
    <3>1. Turned(th'[t], r, b)
      BY <1>1, <2>1, <2>3, MissingTurns
    <3> QED BY <1>1, <1>2, <1>3, <2>1, <3>1 DEF r
  <2> QED BY <2>2, <2>3
<1> QED BY <1>3, <1>6, <1>7

LEMMA RootTurns ==
  ASSUME Types, NEW t \in Threads, Root(t)
  PROVE  /\ Others(t) /\ th[t].pc = "root" /\ th'[t].pc = "walk"
         /\ th'[t].root = root_block_
         /\ th'[t].op = th[t].op /\ th'[t].path = th[t].path
         /\ th'[t].resolve = th[t].resolve
<1> DEFINE r == th[t]
<1>1. r \in Threading /\ r.pc = "root" /\ th \in [Threads -> Threading]
      /\ th' = [th EXCEPT ![t].pc = "walk", ![t].root = root_block_]
  BY TypesFacts DEF Root, Types
<1>2. th'[t] = [r EXCEPT !.pc = "walk", !.root = root_block_] /\ Others(t)
  BY <1>1 DEF Others
<1> HIDE DEF r
<1>3. /\ th'[t].pc = "walk" /\ th'[t].root = root_block_
      /\ th'[t].op = r.op /\ th'[t].path = r.path /\ th'[t].resolve = r.resolve
  BY <1>1, <1>2 DEF Threading
<1> QED BY <1>1, <1>2, <1>3 DEF r

\* A thread only gets to another place, or sweeps.
GoesOn(t, p, s) ==
  \/ th' = [th EXCEPT ![t] = [th[t] EXCEPT !.pc = p, !.sweep = s]]
  \/ th' = [th EXCEPT ![t].pc = p, ![t].sweep = s]
  \/ s = th[t].sweep /\ th' = [th EXCEPT ![t].pc = p]

LEMMA SameTurns ==
  ASSUME Types, NEW t \in Threads, NEW p \in PCs, NEW s \in SUBSET Nat, GoesOn(t, p, s)
  PROVE  Others(t) /\ Same(th'[t], th[t]) /\ th'[t].pc = p /\ th'[t].sweep = s
         /\ th'[t].new = th[t].new
<1> DEFINE r == th[t]
<1>1. r \in Threading /\ th \in [Threads -> Threading]
  BY TypesFacts DEF Types
<1>2. Others(t) /\ (\/ th'[t] = [r EXCEPT !.pc = p, !.sweep = s]
                    \/ s = r.sweep /\ th'[t] = [r EXCEPT !.pc = p])
  BY <1>1 DEF Others, GoesOn
<1> HIDE DEF r
<1>3. Same(th'[t], r) /\ th'[t].pc = p /\ th'[t].sweep = s /\ th'[t].new = r.new
  BY <1>1, <1>2 DEF Threading, Same
<1> QED BY <1>2, <1>3 DEF r

LEMMA ReturnTurns ==
  ASSUME Types, NEW t \in Threads, th' = [th EXCEPT ![t] = Idle]
  PROVE  Others(t) /\ th'[t] = Idle
BY DEF Types, Others

LEMMA FetchTurns ==
  ASSUME Types, NEW t \in Threads, Fetch(t)
  PROVE  /\ Others(t) /\ th[t].pc = "fetch"
         /\ \/ /\ MayHang(Kids[Last(th[t].blocks)])
               /\ th'[t].pc = "hung" /\ Same(th'[t], th[t])
            \/ /\ th[t].op = "write" /\ th'[t].pc = "sweep" /\ Same(th'[t], th[t])
               /\ th'[t].sweep = {Last(th[t].blocks)}
            \/ th'[t] = Idle
<1> DEFINE r == th[t]
<1>1. r.pc = "fetch" /\ r.pc \in Holding /\ r \in Threading
  BY TypesFacts DEF Fetch, Holding
<1>2. Last(r.blocks) \in 1 .. Len(made) /\ Last(r.blocks) \in Nat
      /\ made[Last(r.blocks)].kids = Kids[Last(r.blocks)]
  BY <1>1, HeldChain, TypesFacts
<1>3. "hung" \in PCs /\ "sweep" \in PCs
  BY DEF PCs
<1>4. CASE MayHang(made[Last(r.blocks)].kids) /\ Hang(t)
  <2>1. GoesOn(t, "hung", r.sweep) /\ r.sweep \in SUBSET Nat
    BY <1>1, <1>4 DEF Hang, Threading, GoesOn
  <2>2. Others(t) /\ Same(th'[t], r) /\ th'[t].pc = "hung"
    BY <1>3, <2>1, SameTurns
  <2> QED BY <1>1, <1>2, <1>4, <2>2
<1>5. CASE r.op = "write" /\ th' = [th EXCEPT ![t].pc = "sweep", ![t].sweep = {Last(r.blocks)}]
  <2> DEFINE s == {Last(r.blocks)}
  <2>1. s \in SUBSET Nat /\ GoesOn(t, "sweep", s)
    BY <1>2, <1>5 DEF GoesOn
  <2> HIDE DEF s
  <2>2. Others(t) /\ Same(th'[t], th[t]) /\ th'[t].pc = "sweep" /\ th'[t].sweep = s
    BY <1>3, <2>1, SameTurns
  <2> QED BY <1>1, <1>5, <2>2 DEF s
<1>6. CASE th' = [th EXCEPT ![t] = Idle]
  BY <1>1, <1>6, ReturnTurns
<1> QED BY <1>4, <1>5, <1>6 DEF Fetch, Return

LEMMA SweepTurns ==
  ASSUME Types, NEW t \in Threads, Sweep(t)
  PROVE  /\ Others(t) /\ th[t].pc = "sweep"
         /\ \E id \in th[t].sweep :
              \/ MayHang(Kids[id]) /\ th'[t].pc = "hung" /\ Same(th'[t], th[t])
              \/ /\ freed' = freed \cup Kids[id] /\ th'[t].pc = "sweep"
                 /\ Same(th'[t], th[t]) /\ th'[t].sweep = Swept(Kids, th[t].sweep, id)
              \/ th[t].op = "write" /\ th'[t].pc = "build" /\ Same(th'[t], th[t])
              \/ th'[t] = Idle
<1> DEFINE r == th[t]
<1>1. /\ r \in Threading /\ r.pc = "sweep" /\ r.pc \in Holding /\ Formed(Kids, r)
      /\ Fits(r) /\ Older(Kids, Len(made))
  BY TypesFacts DEF Sweep, Holding, Types
<1>2. r.sweep \subseteq Reach(Kids, Last(r.blocks)) /\ Last(r.blocks) \in 1 .. Len(made)
  BY <1>1, HeldChain DEF Fits, Formed
<1>3. PICK id \in r.sweep :
        \/ MayHang(made[id].kids) /\ Hang(t)
        \/ /\ freed' = freed \cup made[id].kids
           /\ th' = [th EXCEPT ![t] =
                IF (r.sweep \ {id}) \cup made[id].kids # {}
                THEN [r EXCEPT !.sweep = (r.sweep \ {id}) \cup made[id].kids]
                ELSE IF r.op = "write" THEN [r EXCEPT !.pc = "build", !.sweep = {}]
                ELSE Idle]
  BY DEF Sweep
<1>4. id \in 1 .. Len(made) /\ Kids[id] \subseteq 1 .. Len(made) /\ made[id].kids = Kids[id]
  BY <1>1, <1>2, SweepKids, TypesFacts
<1> DEFINE left == Swept(Kids, r.sweep, id)
<1>5. left = (r.sweep \ {id}) \cup Kids[id] /\ left \in SUBSET Nat
  <2>1. Kids[id] \subseteq Nat /\ r.sweep \subseteq Nat
    BY <1>1, <1>4 DEF Threading
  <2> QED BY <2>1 DEF Swept
<1> HIDE DEF left
<1>6. "hung" \in PCs /\ "sweep" \in PCs /\ "build" \in PCs /\ {} \in SUBSET Nat
  BY DEF PCs
<1>7. CASE MayHang(made[id].kids) /\ Hang(t)
  <2>1. GoesOn(t, "hung", r.sweep) /\ r.sweep \in SUBSET Nat
    BY <1>1, <1>7 DEF Hang, Threading, GoesOn
  <2>2. Others(t) /\ Same(th'[t], r) /\ th'[t].pc = "hung"
    BY <1>6, <2>1, SameTurns
  <2> QED BY <1>1, <1>4, <1>7, <2>2
<1>8. CASE th' = [th EXCEPT ![t] = [r EXCEPT !.sweep = left]] /\ freed' = freed \cup Kids[id]
  <2>1. [r EXCEPT !.sweep = left] = [r EXCEPT !.pc = "sweep", !.sweep = left]
    <3> HIDE DEF r
    <3> QED BY <1>1 DEF Threading
  <2>2. GoesOn(t, "sweep", left)
    BY <1>8, <2>1, Zenon DEF GoesOn
  <2>3. Others(t) /\ Same(th'[t], r) /\ th'[t].pc = "sweep" /\ th'[t].sweep = left
    <3>1. left \in SUBSET Nat
      BY <1>5
    <3> QED BY <1>6, <2>2, <3>1, SameTurns
  <2> QED BY <1>1, <1>8, <2>3 DEF left
<1>9. CASE r.op = "write" /\ th' = [th EXCEPT ![t] = [r EXCEPT !.pc = "build", !.sweep = {}]]
  <2>1. GoesOn(t, "build", {})
    BY <1>9 DEF GoesOn
  <2>2. Others(t) /\ Same(th'[t], r) /\ th'[t].pc = "build"
    BY <1>6, <2>1, SameTurns
  <2> QED BY <1>1, <1>9, <2>2
<1>10. CASE th' = [th EXCEPT ![t] = Idle]
  BY <1>1, <1>10, ReturnTurns
<1> QED BY <1>3, <1>4, <1>5, <1>7, <1>8, <1>9, <1>10

LEMMA BuildTurns ==
  ASSUME Types, NEW t \in Threads, Build(t)
  PROVE  /\ Others(t) /\ th[t].pc = "build" /\ th'[t].pc = "switch"
         /\ Same(th'[t], th[t]) /\ th'[t].new = Len(made')
<1> DEFINE r == th[t]
           q == [r EXCEPT !.pc = "switch", !.new = Len(made')]
<1>1. r \in Threading /\ th \in [Threads -> Threading] /\ r.pc = "build"
      /\ th' = [th EXCEPT ![t] = q]
  BY BuildStep, TypesFacts DEF Types
<1>2. th'[t] = q /\ Others(t)
  BY <1>1 DEF Others
<1>3. th'[t].pc = "switch" /\ th'[t].new = Len(made')
  BY BuildMoves
<1> HIDE DEF r
<1>4. Same(q, r)
  BY <1>1 DEF Threading, Same
<1> QED BY <1>1, <1>2, <1>3, <1>4 DEF r

LEMMA SwitchTurns ==
  ASSUME Types, NEW t \in Threads, BeginSwitch(t) \/ EndSwitch(t)
  PROVE  /\ Others(t) /\ Same(th'[t], th[t]) /\ th'[t].new = th[t].new
         /\ BeginSwitch(t) => th[t].pc = "switch" /\ th'[t].pc = "switching"
         /\ EndSwitch(t) => th[t].pc = "switching" /\ th'[t].pc = "free"
<1>1. "switching" \in PCs /\ "free" \in PCs /\ th[t].sweep \in SUBSET Nat
  BY TypesFacts DEF PCs, Threading
<1>2. CASE BeginSwitch(t)
  <2>1. th[t].pc = "switch" /\ GoesOn(t, "switching", th[t].sweep)
    BY <1>2 DEF BeginSwitch, GoesOn
  <2>2. /\ Others(t) /\ Same(th'[t], th[t]) /\ th'[t].pc = "switching"
        /\ th'[t].new = th[t].new
    BY <1>1, <2>1, SameTurns
  <2> QED BY <2>1, <2>2 DEF EndSwitch
<1>3. CASE EndSwitch(t)
  <2>1. th[t].pc = "switching" /\ GoesOn(t, "free", th[t].sweep)
    BY <1>3 DEF EndSwitch, GoesOn
  <2>2. /\ Others(t) /\ Same(th'[t], th[t]) /\ th'[t].pc = "free"
        /\ th'[t].new = th[t].new
    BY <1>1, <2>1, SameTurns
  <2> QED BY <2>1, <2>2 DEF BeginSwitch
<1> QED BY <1>2, <1>3

LEMMA FreePathTurns ==
  ASSUME Types, NEW t \in Threads, FreePath(t)
  PROVE  /\ Others(t) /\ th[t].pc = "free"
         /\ \/ /\ th[t].op = "create" /\ th'[t].pc = "root"
               /\ th'[t].op = "create" /\ th'[t].path = th[t].path
               /\ th'[t].root = th[t].root /\ Head(th'[t].resolve) = "again"
            \/ /\ th[t].op = "rmdir" /\ th'[t].pc = "sweep" /\ Same(th'[t], th[t])
               /\ th'[t].sweep = {Last(th[t].blocks)}
            \/ th'[t] = Idle
<1> DEFINE r == th[t]
<1>1. /\ r \in Threading /\ r.pc = "free" /\ r.op \in Changes /\ r.pc \in Holding
      /\ th \in [Threads -> Threading]
  BY TypesFacts DEF Types, FreePath, Fits, Holding
<1>2. CASE r.op = "create"
  <2>1. th' = [th EXCEPT ![t] = [r EXCEPT !.pc = "root", !.resolve = <<"again">>]]
    BY <1>2 DEF FreePath
  <2>2. th'[t] = [r EXCEPT !.pc = "root", !.resolve = <<"again">>] /\ Others(t)
    BY <1>1, <2>1 DEF Others
  <2>3. Head(<<"again">>) = "again"
    OBVIOUS
  <2> HIDE DEF r
  <2>4. /\ th'[t].pc = "root" /\ th'[t].op = r.op /\ th'[t].path = r.path
        /\ th'[t].root = r.root /\ th'[t].resolve = <<"again">>
    BY <1>1, <2>2 DEF Threading
  <2>5. Head(th'[t].resolve) = "again"
    BY <2>3, <2>4, Zenon
  <2> QED BY <1>1, <1>2, <2>2, <2>4, <2>5 DEF r
<1>3. CASE r.op = "rmdir"
  <2>1. th' = [th EXCEPT ![t] = [r EXCEPT !.pc = "sweep", !.sweep = {Last(r.blocks)}]]
    BY <1>3 DEF FreePath
  <2> DEFINE s == {Last(r.blocks)}
  <2>2. "sweep" \in PCs /\ s \in SUBSET Nat
    BY <1>1, HeldChain, TypesFacts DEF PCs
  <2>3. GoesOn(t, "sweep", s)
    BY <2>1 DEF GoesOn
  <2> HIDE DEF s
  <2>4. Others(t) /\ Same(th'[t], th[t]) /\ th'[t].pc = "sweep" /\ th'[t].sweep = s
    BY <2>2, <2>3, SameTurns
  <2> QED BY <1>1, <1>3, <2>4 DEF s
<1>4. CASE r.op \in {"mkdir", "write"}
  <2>1. th' = [th EXCEPT ![t] = Idle]
    BY <1>4 DEF FreePath
  <2> QED BY <1>1, <2>1, ReturnTurns
<1> QED BY <1>1, <1>2, <1>3, <1>4 DEF Changes

-----------------------------------------------------------------------------
(* The paths of the threads and the locks *)

\* A thread's blocks are those of its path.
Traced ==
  \A t \in Threads : th[t].pc \in Holding =>
    Leads(Kids, made, th[t].blocks, th[t].root, Resolved(th[t]))

\* The kernel keeps calls on the same directory or file apart.
Locked ==
  \A t, u \in Threads : t # u /\ th[t].pc # "idle" /\ th[u].pc # "idle" =>
    Locks(th[t].op, th[t].path) \cap Locks(th[u].op, th[u].path) = {}

LEMMA IdleIs == Idle.pc = "idle" /\ Idle.op = "none"
BY DEF Idle

\* A step goes on with the call, or ends it.
LEMMA WorkCall ==
  ASSUME Types, NEW t \in Threads, RaceCrash(t) \/ Work(t)
  PROVE  /\ Others(t)
         /\ th'[t].pc # "idle" =>
              th[t].pc # "idle" /\ th'[t].op = th[t].op /\ th'[t].path = th[t].path
<1>1. CASE RaceCrash(t)
  BY <1>1 DEF RaceCrash, Others
<1>2. CASE Root(t)
  BY <1>2, RootTurns
<1>3. CASE Walk(t)
  BY <1>3, WalkTurns, IdleIs DEF Turned
<1>4. CASE Fetch(t)
  BY <1>4, FetchTurns, IdleIs DEF Same
<1>5. CASE Sweep(t)
  BY <1>5, SweepTurns, IdleIs DEF Same
<1>6. CASE Build(t)
  BY <1>6, BuildTurns DEF Same
<1>7. CASE BeginSwitch(t) \/ EndSwitch(t)
  BY <1>7, SwitchTurns DEF Same
<1>8. CASE FreePath(t)
  BY <1>8, FreePathTurns, IdleIs DEF Same
<1> QED BY <1>1, <1>2, <1>3, <1>4, <1>5, <1>6, <1>7, <1>8 DEF Work

LEMMA CallTurns ==
  ASSUME Types, NEW t \in Threads, Call(t)
  PROVE  /\ Others(t) /\ th[t].pc = "idle" /\ th'[t].pc = "root"
         /\ th'[t].resolve = Resolves(th'[t].op)
         /\ th'[t].op \in Changes \cup Reads
         /\ \A u \in Threads \ {t} : th[u].pc # "idle" =>
              Locks(th'[t].op, th'[t].path) \cap Locks(th[u].op, th[u].path) = {}
<1>1. PICK op \in Changes \cup Reads, path \in Paths, value \in Values :
        /\ \A u \in Threads \ {t} :
             th[u].pc # "idle" => Locks(op, path) \cap Locks(th[u].op, th[u].path) = {}
        /\ th' = [th EXCEPT ![t] =
             [Idle EXCEPT !.pc = "root", !.op = op, !.path = path,
                          !.value = <<value>>, !.resolve = Resolves(op)]]
  BY DEF Call
<1> DEFINE r == [Idle EXCEPT !.pc = "root", !.op = op, !.path = path,
                             !.value = <<value>>, !.resolve = Resolves(op)]
<1>2. r.pc = "root" /\ r.op = op /\ r.path = path /\ r.resolve = Resolves(op)
  BY DEF Idle
<1>3. th'[t] = r /\ Others(t)
  BY <1>1 DEF Types, Others
<1>4. th[t].pc = "idle"
  BY DEF Call
<1> HIDE DEF r
<1> QED BY <1>1, <1>2, <1>3, <1>4

LEMMA LockedStep ==
  ASSUME Types, Locked, NEW t \in Threads, Step(t)
  PROVE  Locked'
<1>1. CASE Call(t)
  <2>1. /\ Others(t)
        /\ \A u \in Threads \ {t} : th[u].pc # "idle" =>
             Locks(th'[t].op, th'[t].path) \cap Locks(th[u].op, th[u].path) = {}
    BY <1>1, CallTurns
  <2> SUFFICES ASSUME NEW v \in Threads, NEW u \in Threads, v # u,
                      th'[v].pc # "idle", th'[u].pc # "idle"
               PROVE  Locks(th'[v].op, th'[v].path) \cap Locks(th'[u].op, th'[u].path) = {}
    BY DEF Locked
  <2>2. CASE v # t /\ u # t
    BY <2>1, <2>2 DEF Others, Locked
  <2>3. CASE v = t
    <3>1. th'[u] = th[u] /\ u \in Threads \ {t}
      BY <2>1, <2>3 DEF Others
    <3> QED BY <2>1, <2>3, <3>1
  <2>4. CASE u = t
    <3>1. th'[v] = th[v] /\ v \in Threads \ {t}
      BY <2>1, <2>4 DEF Others
    <3> QED BY <2>1, <2>4, <3>1
  <2> QED BY <2>2, <2>3, <2>4
<1>2. CASE RaceCrash(t) \/ Work(t)
  <2>1. \A u \in Threads : th'[u].pc # "idle" =>
          th[u].pc # "idle" /\ th'[u].op = th[u].op /\ th'[u].path = th[u].path
    BY <1>2, WorkCall DEF Others
  <2> QED BY <2>1 DEF Locked
<1> QED BY <1>1, <1>2 DEF Step

LEMMA SameLeads ==
  ASSUME NEW q, NEW r, Same(q, r), NEW K, NEW L, Leads(K, L, r.blocks, r.root, Resolved(r))
  PROVE  Leads(K, L, q.blocks, q.root, Resolved(q))
<1>1. Resolved(q) = Resolved(r) /\ q.blocks = r.blocks /\ q.root = r.root
  BY DEF Same, Resolved, Adds
<1> QED BY <1>1

\* The length of the path.
LEMMA ResolvedLen ==
  ASSUME NEW r \in Threading, Fits(r)
  PROVE  Len(Resolved(r)) \in Nat /\ Resolved(r) \in Seq(Names)
<1>1. r.path \in Seq(Names)
  BY DEF Threading
<1>2. Adds(r) => r.path # <<>>
  BY DEF Fits, Adds, Changes
<1>3. Adds(r) => Front(r.path) \in Seq(Names)
  BY <1>1, <1>2, FrontLast
<1> QED BY <1>1, <1>3 DEF Resolved

LEMMA TracedStays ==
  ASSUME Traced, NEW t \in Threads, Others(t), made' = made,
         th'[t].pc \in Holding =>
           Leads(Kids, made, th'[t].blocks, th'[t].root, Resolved(th'[t]))
  PROVE  Traced'
<1>1. Kids' = Kids
  BY DEF Kids
<1>2. ASSUME NEW u \in Threads, th'[u].pc \in Holding
      PROVE  Leads(Kids, made, th'[u].blocks, th'[u].root, Resolved(th'[u]))
  BY <1>2 DEF Others, Traced
<1> QED BY <1>1, <1>2 DEF Traced

LEMMA BuildTraced ==
  ASSUME Types, Traced, NEW t \in Threads, Build(t)
  PROVE  Traced'
<1> DEFINE K2 == Kids'
           n2 == Len(made')
           L2 == made'
<1>1. Grows(Kids, Len(made), K2, n2)
  BY BuildGrows
<1>2. Extends(made, Len(made), L2)
  BY BuildRelabels DEF Relabelled, Extends
<1>3. Others(t) /\ th[t].pc = "build" /\ Same(th'[t], th[t])
  BY BuildTurns
<1> HIDE DEF K2, n2, L2
<1>4. ASSUME NEW u \in Threads, th[u].pc \in Holding
      PROVE  Leads(K2, L2, th[u].blocks, th[u].root, Resolved(th[u]))
  <2>1. Leads(Kids, made, th[u].blocks, th[u].root, Resolved(th[u]))
    BY <1>4 DEF Traced
  <2>2. th[u].root \in 1 .. Len(made)
    BY <1>4, HeldChain
  <2>3. Len(Resolved(th[u])) \in Nat
    BY TypesFacts, ResolvedLen DEF Types
  <2> QED BY <1>1, <1>2, <2>1, <2>2, <2>3, GrowsLeads
<1>5. ASSUME NEW u \in Threads, th'[u].pc \in Holding
      PROVE  Leads(K2, L2, th'[u].blocks, th'[u].root, Resolved(th'[u]))
  <2>1. CASE u = t
    <3>1. th[t].pc \in Holding
      BY <1>3 DEF Holding
    <3>2. Leads(K2, L2, th[t].blocks, th[t].root, Resolved(th[t]))
      BY <1>4, <3>1
    <3> QED BY <1>3, <2>1, <3>2, SameLeads
  <2>2. CASE u # t
    BY <1>3, <1>4, <1>5, <2>2 DEF Others
  <2> QED BY <2>1, <2>2
<1> QED BY <1>5 DEF Traced, K2, L2

LEMMA TracedStep ==
  ASSUME Types, Traced, NEW t \in Threads, Step(t)
  PROVE  Traced'
<1>1. ASSUME th[t].pc \in Holding, Same(th'[t], th[t])
      PROVE  Leads(Kids, made, th'[t].blocks, th'[t].root, Resolved(th'[t]))
  <2>1. Leads(Kids, made, th[t].blocks, th[t].root, Resolved(th[t]))
    BY <1>1 DEF Traced
  <2> QED BY <1>1, <2>1, SameLeads
<1>2. CASE Call(t)
  <2>1. Others(t) /\ th'[t].pc \notin Holding /\ made' = made
    BY <1>2, CallTurns DEF Call, Holding
  <2> QED BY <2>1, TracedStays
<1>3. CASE RaceCrash(t)
  <2>1. th' = th /\ made' = made
    BY <1>3 DEF RaceCrash
  <2>2. Kids' = Kids
    BY <2>1 DEF Kids
  <2> QED BY <2>1, <2>2 DEF Traced
<1>4. CASE Root(t)
  <2>1. Others(t) /\ th'[t].pc \notin Holding /\ made' = made
    BY <1>4, RootTurns DEF Root, Holding
  <2> QED BY <2>1, TracedStays
<1>5. CASE Walk(t)
  <2>1. /\ Others(t) /\ made' = made /\ Older(Kids, Len(made))
        /\ th[t].root \in 1 .. Len(made) /\ Len(Target(th[t])) \in Nat
    BY <1>5, WalkTurns, WalkStep DEF Types
  <2>2. PICK b \in get_path(th[t].root, Target(th[t])) :
          th'[t].pc = "hung" \/ Turned(th'[t], th[t], b)
    BY <1>5, WalkTurns
  <2>3. ASSUME th'[t].pc \in Holding
        PROVE  Leads(Kids, made, th'[t].blocks, th'[t].root, Resolved(th'[t]))
    <3>1. /\ Complete(b, Target(th[t])) /\ th'[t].op = th[t].op /\ th'[t].path = th[t].path
          /\ th'[t].root = th[t].root /\ th'[t].blocks = b
          /\ Target(th[t]) = Resolved(th[t])
      BY <2>2, <2>3, IdleIs DEF Turned, Holding
    <3>2. Leads(Kids, made, b, th[t].root, Target(th[t]))
      BY <2>1, <3>1, FoundIsHere
    <3>3. Resolved(th'[t]) = Resolved(th[t])
      BY <3>1 DEF Resolved, Adds
    <3> QED BY <3>1, <3>2, <3>3
  <2> QED BY <2>1, <2>3, TracedStays
<1>6. CASE Fetch(t)
  <2>1. Others(t) /\ made' = made /\ th[t].pc \in Holding
        /\ (th'[t].pc \in Holding => Same(th'[t], th[t]))
    BY <1>6, FetchTurns, FetchStep, IdleIs DEF Holding
  <2> QED BY <1>1, <2>1, TracedStays
<1>7. CASE Sweep(t)
  <2>1. Others(t) /\ made' = made /\ th[t].pc \in Holding
        /\ (th'[t].pc \in Holding => Same(th'[t], th[t]))
    BY <1>7, SweepTurns, SweepStep, IdleIs DEF Holding
  <2> QED BY <1>1, <2>1, TracedStays
<1>8. CASE Build(t)
  BY <1>8, BuildTraced
<1>9. CASE BeginSwitch(t) \/ EndSwitch(t)
  <2>1. Others(t) /\ made' = made /\ th[t].pc \in Holding /\ Same(th'[t], th[t])
    BY <1>9, SwitchTurns DEF Holding, BeginSwitch, EndSwitch
  <2> QED BY <1>1, <2>1, TracedStays
<1>10. CASE FreePath(t)
  <2>1. Others(t) /\ made' = made /\ th[t].pc \in Holding
        /\ (th'[t].pc \in Holding => Same(th'[t], th[t]))
    BY <1>10, FreePathTurns, FreePathStep, IdleIs DEF Holding
  <2> QED BY <1>1, <2>1, TracedStays
<1> QED BY <1>2, <1>3, <1>4, <1>5, <1>6, <1>7, <1>8, <1>9, <1>10 DEF Step, Work

-----------------------------------------------------------------------------
(* Names stay unique *)

\* mkdir or create is looking whether its path is there; it has seen that it is
\* not.
Checking(r) == Adds(r) /\ r.pc = "walk" /\ Head(r.resolve) = "absent"
Checked(r) ==
  /\ Adds(r)
  /\ \/ r.pc \in {"root", "walk"} /\ Head(r.resolve) = "parent"
     \/ r.pc \in {"build", "switch", "switching"}

\* What a thread sees from its root, root is the one of the tree: a path that is
\* not in the tree it looks at is not in the present one.
Looked(K, L, root, r) ==
  /\ r.pc \in Holding \cup {"walk"} => Unique(K, L, r.root)
  /\ Checking(r) /\ Here(K, L, root, r.path) => Here(K, L, r.root, r.path)
  /\ Checked(r) => ~ Here(K, L, root, r.path)

\* As long as no update is lost entries have different names, and nobody adds one
\* that is there.
NamesKept ==
  /\ \A t \in Threads : Unplaced(th[t]) => Renamed(Kids, made, th[t])
  /\ ~ stale =>
       /\ Unique(Kids, made, root_block_)
       /\ \A t \in Threads : Looked(Kids, made, root_block_, th[t])

\* A step that makes no block and keeps the root.
LEMMA NamesStay ==
  ASSUME NamesKept, NEW t \in Threads, Others(t), made' = made,
         root_block_' = root_block_, stale' = stale,
         Unplaced(th'[t]) => Renamed(Kids, made, th'[t]),
         ~ stale => Looked(Kids, made, root_block_, th'[t])
  PROVE  NamesKept'
<1>1. Kids' = Kids
  BY DEF Kids
<1>2. ASSUME NEW u \in Threads
      PROVE  /\ Unplaced(th'[u]) => Renamed(Kids, made, th'[u])
             /\ ~ stale => Looked(Kids, made, root_block_, th'[u])
  <2>1. CASE u = t
    BY <2>1
  <2>2. CASE u # t
    BY <2>2 DEF Others, NamesKept
  <2> QED BY <2>1, <2>2
<1>3. ~ stale => Unique(Kids, made, root_block_)
  BY DEF NamesKept
<1> QED BY <1>1, <1>2, <1>3 DEF NamesKept

\* A thread in these places has nothing to keep.
LEMMA LookedAway ==
  ASSUME NEW K, NEW L, NEW root, NEW r, r.pc \in {"idle", "hung", "aborted"}
  PROVE  Looked(K, L, root, r) /\ ~ Unplaced(r)
BY DEF Looked, Checking, Checked, Holding, Unplaced

\* A thread that goes on with a path.
LEMMA LookedOn ==
  ASSUME NEW K, NEW L, NEW root, NEW r, Looked(K, L, root, r), r.pc \in Holding,
         NEW q, Same(q, r), q.pc \in Holding \cup {"root"},
         q.pc = "build" => ~ Adds(r),
         q.pc \in {"switch", "switching"} => r.pc \in {"build", "switch"},
         q.pc = "root" => Head(q.resolve) = "again"
  PROVE  Looked(K, L, root, q)
<1>1. q.op = r.op /\ q.path = r.path /\ q.root = r.root /\ (Adds(q) <=> Adds(r))
  BY DEF Same, Adds
<1>2. ~ Checking(q) /\ (q.pc \in Holding \cup {"walk"} => Unique(K, L, q.root))
  BY <1>1 DEF Looked, Checking, Holding
<1>3. Checked(q) => Checked(r)
  BY <1>1 DEF Checked, Holding
<1> QED BY <1>1, <1>2, <1>3 DEF Looked

LEMMA RootNames ==
  ASSUME Types, NamesKept, NEW t \in Threads, Root(t)
  PROVE  NamesKept'
<1> DEFINE r == th[t]
           q == th'[t]
<1>1. /\ Others(t) /\ r.pc = "root" /\ q.pc = "walk" /\ q.root = root_block_
      /\ q.op = r.op /\ q.path = r.path /\ q.resolve = r.resolve
  BY RootTurns
<1>2. made' = made /\ root_block_' = root_block_ /\ stale' = stale
  BY DEF Root
<1>3. ~ stale => Looked(Kids, made, root_block_, r) /\ Unique(Kids, made, root_block_)
  BY DEF NamesKept
<1> HIDE DEF r, q
<1>4. Checked(q) => Checked(r)
  BY <1>1 DEF Checked, Adds
<1>5. ~ stale => Looked(Kids, made, root_block_, q)
  BY <1>1, <1>3, <1>4 DEF Looked
<1>6. ~ Unplaced(q)
  BY <1>1 DEF Unplaced
<1> QED BY <1>1, <1>2, <1>5, <1>6, NamesStay DEF q

LEMMA WalkNames ==
  ASSUME Types, NamesKept, NEW t \in Threads, Walk(t)
  PROVE  NamesKept'
<1> DEFINE r == th[t]
           q == th'[t]
           root == root_block_
<1>1. /\ Others(t) /\ made' = made /\ Older(Kids, Len(made)) /\ r.pc = "walk"
      /\ r.root \in 1 .. Len(made) /\ Len(Target(r)) \in Nat
  BY WalkTurns, WalkStep DEF Types
<1>2. PICK b \in get_path(r.root, Target(r)) : q.pc = "hung" \/ Turned(q, r, b)
  BY WalkTurns
<1>3. root_block_' = root_block_ /\ stale' = stale
  BY DEF Walk
<1>4. ~ stale => Looked(Kids, made, root, r)
  BY DEF NamesKept
<1> HIDE DEF r, q, root
<1>5. ~ Unplaced(q)
  BY <1>2, IdleIs DEF Turned, Unplaced
<1>6. ASSUME ~ stale PROVE Looked(Kids, made, root, q)
  <2>0. Looked(Kids, made, root, r) /\ Unique(Kids, made, r.root)
    BY <1>1, <1>4, <1>6 DEF Looked
  <2>1. CASE q.pc \in {"idle", "hung", "aborted"}
    BY <2>1, LookedAway
  <2>2. CASE /\ Complete(b, Target(r)) /\ q.pc \in {"fetch", "build"}
             /\ q.op = r.op /\ q.path = r.path /\ q.root = r.root
             /\ Adds(r) => q.pc = "build" /\ Head(r.resolve) = "parent"
    <3>1. Checked(q) => Checked(r)
      BY <1>1, <2>2 DEF Checked, Adds
    <3>2. ~ Checking(q)
      BY <2>2 DEF Checking
    <3> QED BY <2>0, <2>2, <3>1, <3>2 DEF Looked
  <2>3. CASE /\ ~ Complete(b, Target(r)) /\ Head(r.resolve) = "absent" /\ q.pc = "root"
             /\ q.op = r.op /\ q.path = r.path
    <3>1. Target(r) = r.path
      BY <2>3 DEF Target
    <3>2. ~ Here(Kids, made, r.root, r.path)
      BY <1>1, <2>0, <2>3, <3>1, MissedIsNot
    <3>3. Adds(q) => ~ Here(Kids, made, root, q.path)
      <4>1. Adds(q) => Checking(r)
        BY <1>1, <2>3 DEF Checking, Adds
      <4> QED BY <2>0, <2>3, <3>2, <4>1 DEF Looked
    <3>4. ~ Checking(q) /\ q.pc \notin Holding \cup {"walk"}
      BY <2>3 DEF Checking, Holding
    <3> QED BY <3>3, <3>4 DEF Looked, Checked
  <2> QED BY <1>2, <2>1, <2>2, <2>3, IdleIs DEF Turned
<1> QED BY <1>1, <1>3, <1>5, <1>6, NamesStay DEF q, root

LEMMA HeldNames ==
  ASSUME Types, NamesKept, NEW t \in Threads,
         Fetch(t) \/ Sweep(t) \/ BeginSwitch(t) \/ FreePath(t)
  PROVE  NamesKept'
<1> DEFINE r == th[t]
           q == th'[t]
           root == root_block_
<1>1. made' = made /\ root_block_' = root_block_ /\ stale' = stale
  BY FetchStep, SweepStep, FreePathStep DEF Fetch, Sweep, BeginSwitch, FreePath
<1>2. ~ stale => Looked(Kids, made, root, r)
  BY DEF NamesKept
<1>3. CASE Fetch(t) \/ Sweep(t)
  <2>1. /\ Others(t) /\ r.pc \in Holding
        /\ \/ q.pc \in {"idle", "hung"}
           \/ /\ Same(q, r) /\ q.pc \in {"sweep", "build"} /\ (q.pc = "build" => r.op = "write")
    <3>1. CASE Fetch(t)
      BY <3>1, FetchTurns, IdleIs DEF Holding
    <3>2. CASE Sweep(t)
      BY <3>2, SweepTurns, IdleIs DEF Holding
    <3> QED BY <1>3, <3>1, <3>2
  <2> HIDE DEF r, q, root
  <2>2. ~ Unplaced(q)
    BY <2>1 DEF Unplaced
  <2>3. ASSUME ~ stale PROVE Looked(Kids, made, root, q)
    <3>1. CASE q.pc \in {"idle", "hung"}
      BY <3>1, LookedAway
    <3>2. CASE Same(q, r) /\ q.pc \in {"sweep", "build"} /\ (q.pc = "build" => r.op = "write")
      <4>1. /\ q.pc \in Holding \cup {"root"} /\ q.pc \notin {"switch", "switching", "root"}
            /\ (q.pc = "build" => ~ Adds(r))
        BY <3>2 DEF Holding, Adds
      <4> QED BY <1>2, <2>1, <2>3, <3>2, <4>1, LookedOn
    <3> QED BY <2>1, <3>1, <3>2
  <2> QED BY <1>1, <2>1, <2>2, <2>3, NamesStay DEF q, root
<1>4. CASE BeginSwitch(t)
  <2>1. /\ Others(t) /\ Same(q, r) /\ q.new = r.new /\ r.pc = "switch" /\ q.pc = "switching"
    BY <1>4, SwitchTurns
  <2>2. Renamed(Kids, made, r)
    BY <2>1 DEF NamesKept, Unplaced
  <2> HIDE DEF r, q, root
  <2>3. Renamed(Kids, made, q)
    <3>1. q.root = r.root /\ q.new = r.new /\ q.path = r.path /\ (Adds(q) <=> Adds(r))
      BY <2>1 DEF Same, Adds
    <3> QED BY <2>2, <3>1 DEF Renamed
  <2>4. ASSUME ~ stale PROVE Looked(Kids, made, root, q)
    <3>1. r.pc \in Holding /\ q.pc \in Holding \cup {"root"} /\ r.pc \in {"build", "switch"}
          /\ q.pc \notin {"build", "root"}
      BY <2>1 DEF Holding
    <3> QED BY <1>2, <2>1, <2>4, <3>1, LookedOn
  <2> QED BY <1>1, <2>1, <2>3, <2>4, NamesStay DEF q, root
<1>5. CASE FreePath(t)
  <2>1. /\ Others(t) /\ r.pc \in Holding
        /\ \/ q.pc = "root" /\ Head(q.resolve) = "again"
           \/ q.pc = "sweep" /\ Same(q, r)
           \/ q.pc = "idle"
    BY <1>5, FreePathTurns, IdleIs DEF Holding
  <2> HIDE DEF r, q, root
  <2>2. ~ Unplaced(q)
    BY <2>1 DEF Unplaced
  <2>3. ASSUME ~ stale PROVE Looked(Kids, made, root, q)
    <3>1. CASE q.pc = "root" /\ Head(q.resolve) = "again"
      BY <3>1 DEF Looked, Checking, Checked, Holding
    <3>2. CASE q.pc = "sweep" /\ Same(q, r)
      <4>1. q.pc \in Holding \cup {"root"} /\ q.pc \notin {"build", "switch", "switching", "root"}
        BY <3>2 DEF Holding
      <4> QED BY <1>2, <2>1, <2>3, <3>2, <4>1, LookedOn
    <3>3. CASE q.pc = "idle"
      BY <3>3, LookedAway
    <3> QED BY <2>1, <3>1, <3>2, <3>3
  <2> QED BY <1>1, <2>1, <2>2, <2>3, NamesStay DEF q, root
<1> QED BY <1>3, <1>4, <1>5

LEMMA GrowsRenamed ==
  ASSUME NEW K, NEW n, NEW K2, NEW n2, Grows(K, n, K2, n2), NEW L, NEW L2,
         Extends(L, n, L2), NEW r, r.root \in 1 .. n, r.new \in 1 .. n,
         r.path \in Seq(Names), Renamed(K, L, r)
  PROVE  Renamed(K2, L2, r)
<1>1. /\ Unique(K, L, r.root) <=> Unique(K2, L2, r.root)
      /\ Unique(K, L, r.new) <=> Unique(K2, L2, r.new)
  BY GrowsUnique
<1>2. ASSUME NEW q \in Seq(Names)
      PROVE  /\ Here(K, L, r.root, q) <=> Here(K2, L2, r.root, q)
             /\ Here(K, L, r.new, q) <=> Here(K2, L2, r.new, q)
  <2>1. Len(q) \in Nat
    OBVIOUS
  <2> QED BY <2>1, GrowsHere
<1> QED BY <1>1, <1>2 DEF Renamed

LEMMA GrowsLooked ==
  ASSUME NEW K, NEW n, NEW K2, NEW n2, Grows(K, n, K2, n2), NEW L, NEW L2,
         Extends(L, n, L2), NEW root \in 1 .. n, NEW r,
         r.pc \in Holding \cup {"walk"} => r.root \in 1 .. n, Len(r.path) \in Nat,
         Looked(K, L, root, r)
  PROVE  Looked(K2, L2, root, r)
<1>1. Here(K, L, root, r.path) <=> Here(K2, L2, root, r.path)
  BY GrowsHere
<1>2. r.pc \in Holding \cup {"walk"} =>
        /\ Unique(K, L, r.root) <=> Unique(K2, L2, r.root)
        /\ Here(K, L, r.root, r.path) <=> Here(K2, L2, r.root, r.path)
  BY GrowsHere, GrowsUnique
<1>3. Checking(r) => r.pc \in Holding \cup {"walk"}
  BY DEF Checking
<1> QED BY <1>1, <1>2, <1>3 DEF Looked

LEMMA BuildNames ==
  ASSUME Types, Traced, NamesKept, NEW t \in Threads, Build(t)
  PROVE  NamesKept'
<1> DEFINE r == th[t]
           q == th'[t]
           n == Len(made)
           K2 == Kids'
           n2 == Len(made')
           L2 == made'
<1>1. Grows(Kids, n, K2, n2) /\ Older(Kids, n)
  BY BuildGrows DEF Types
<1>2. /\ Relabelled(made, n, L2, n2, Copied(r))
      /\ r.op # "rmdir" => L2[n + 1] = LeafBlock(r)
  BY BuildRelabels
<1>3. Extends(made, n, L2)
  BY <1>2 DEF Relabelled, Extends
<1>4. /\ Others(t) /\ r.pc = "build" /\ q.pc = "switch" /\ Same(q, r) /\ q.new = n2
  BY BuildTurns
<1>5. /\ Rebuilt(Kids, n, K2, n2, Copied(r), Cut(Kids, r), Leaf(r)) /\ r.op \in Changes
  BY BuildStep
<1>6. root_block_' = root_block_ /\ stale' = stale /\ root_block_ \in 1 .. n
  BY TypesFacts DEF Build
<1>7. \A u \in Threads : /\ th[u] \in Threading /\ Fits(th[u]) /\ Formed(Kids, th[u])
                         /\ DOMAIN Kids = 1 .. n
  BY TypesFacts DEF Types
<1>8. \A u \in Threads : /\ th[u].path \in Seq(Names) /\ Len(th[u].path) \in Nat
                         /\ th[u].pc \in Holding \cup {"walk"} => th[u].root \in 1 .. n
                         /\ Unplaced(th[u]) => th[u].new \in 1 .. n
  <2> SUFFICES ASSUME NEW u \in Threads
               PROVE  /\ th[u].path \in Seq(Names) /\ Len(th[u].path) \in Nat
                      /\ th[u].pc \in Holding \cup {"walk"} => th[u].root \in 1 .. n
                      /\ Unplaced(th[u]) => th[u].new \in 1 .. n
    OBVIOUS
  <2>1. th[u].path \in Seq(Names)
    BY <1>7 DEF Threading
  <2>2. th[u].pc = "walk" => th[u].root \in 1 .. n
    BY <1>7 DEF Formed
  <2>3. th[u].pc \in Holding => th[u].root \in 1 .. n
    BY HeldChain
  <2>4. Unplaced(th[u]) => th[u].new \in 1 .. n
    BY <1>7 DEF Formed, Unplaced
  <2> QED BY <2>1, <2>2, <2>3, <2>4
<1>9. r.pc \in Holding /\ Leads(Kids, made, r.blocks, r.root, Resolved(r))
  BY <1>4 DEF Holding, Traced
<1>10. r.path # <<>>
  BY <1>5, <1>7 DEF Fits
<1>11. Chain(Kids, Copied(r), r.root)
  <2>1. Chain(Kids, r.blocks, r.root) /\ (r.op = "rmdir" => Len(r.blocks) >= 2)
    BY <1>7, <1>9, HeldChain DEF Formed
  <2> QED BY <1>1, <1>5, <2>1, CopiedCut
<1>12. ASSUME NEW u \in Threads, Unplaced(th[u]) PROVE Renamed(K2, L2, th[u])
  <2>1. Renamed(Kids, made, th[u])
    BY <1>12 DEF NamesKept
  <2>2. th[u].root \in 1 .. n /\ th[u].new \in 1 .. n /\ th[u].path \in Seq(Names)
    BY <1>8, <1>12 DEF Unplaced, Holding
  <2> HIDE DEF n, K2, n2, L2
  <2> QED BY <1>1, <1>3, <2>1, <2>2, GrowsRenamed
<1>13. ASSUME NEW u \in Threads, ~ stale PROVE Looked(K2, L2, root_block_, th[u])
  <2>1. Looked(Kids, made, root_block_, th[u])
    BY <1>13 DEF NamesKept
  <2>2. /\ th[u].pc \in Holding \cup {"walk"} => th[u].root \in 1 .. n
        /\ Len(th[u].path) \in Nat
    BY <1>8
  <2> HIDE DEF n, K2, n2, L2
  <2> QED BY <1>1, <1>3, <1>6, <2>1, <2>2, GrowsLooked
<1>14. Renamed(K2, L2, q)
  <2>1. q.op = r.op /\ q.path = r.path /\ q.root = r.root /\ r.path \in Seq(Names)
    BY <1>4, <1>8 DEF Same
  <2> HIDE DEF r, q, n, K2, n2, L2
  <2> QED BY <1>1, <1>2, <1>4, <1>5, <1>9, <1>10, <1>11, <2>1, BuiltNames
<1>15. ASSUME ~ stale PROVE Looked(K2, L2, root_block_, q)
  <2>1. Looked(K2, L2, root_block_, r)
    BY <1>13, <1>15
  <2>2. q.pc \in Holding \cup {"root"} /\ q.pc \notin {"build", "root"} /\ r.pc \in {"build", "switch"}
    BY <1>4 DEF Holding
  <2> HIDE DEF r, q, K2, L2
  <2> QED BY <1>4, <1>9, <2>1, <2>2, LookedOn
<1>16. ~ stale => Unique(K2, L2, root_block_)
  <2>1. ~ stale => Unique(Kids, made, root_block_)
    BY DEF NamesKept
  <2> HIDE DEF n, K2, n2, L2
  <2> QED BY <1>1, <1>3, <1>6, <2>1, GrowsUnique
<1>17. ASSUME NEW u \in Threads
       PROVE  /\ Unplaced(th'[u]) => Renamed(K2, L2, th'[u])
              /\ ~ stale => Looked(K2, L2, root_block_, th'[u])
  <2>1. CASE u = t
    BY <1>14, <1>15, <2>1
  <2>2. CASE u # t
    <3>1. th'[u] = th[u]
      BY <1>4, <2>2 DEF Others
    <3> QED BY <1>12, <1>13, <3>1
  <2> QED BY <2>1, <2>2
<1> QED BY <1>6, <1>16, <1>17 DEF NamesKept, K2, L2

\* Two calls that add the same entry have the same lock.
LEMMA AddsApart ==
  ASSUME Locked, NEW t \in Threads, NEW u \in Threads, t # u,
         th[t].pc # "idle", th[u].pc # "idle", Adds(th[t]), Adds(th[u])
  PROVE  th[t].path # th[u].path
<1>1. Locks(th[t].op, th[t].path) = {Front(th[t].path)}
  BY DEF Locks, Adds
<1>2. Locks(th[u].op, th[u].path) = {Front(th[u].path)}
  BY DEF Locks, Adds
<1>3. Locks(th[t].op, th[t].path) \cap Locks(th[u].op, th[u].path) = {}
  BY DEF Locked
<1> QED BY <1>1, <1>2, <1>3

LEMMA EndSwitchNames ==
  ASSUME Types, Locked, NamesKept, NEW t \in Threads, EndSwitch(t)
  PROVE  NamesKept'
<1> DEFINE r == th[t]
           q == th'[t]
           root == root_block_
           new == r.new
<1>1. /\ Others(t) /\ Same(q, r) /\ r.pc = "switching" /\ q.pc = "free"
  BY SwitchTurns
<1>2. made' = made /\ root_block_' = new /\ (~ stale' => ~ stale /\ root = r.root)
  BY DEF EndSwitch
<1>3. Kids' = Kids
  BY <1>2 DEF Kids
<1>4. Renamed(Kids, made, r)
  BY <1>1 DEF NamesKept, Unplaced
<1>5. ASSUME NEW u \in Threads, Unplaced(th'[u]) PROVE Renamed(Kids, made, th'[u])
  <2>1. u # t
    BY <1>1, <1>5 DEF Unplaced
  <2> QED BY <1>1, <1>5, <2>1 DEF Others, NamesKept
<1>6. ASSUME ~ stale'
      PROVE  /\ Unique(Kids, made, new)
             /\ \A u \in Threads : Looked(Kids, made, new, th'[u])
  <2>1. ~ stale /\ root = r.root
    BY <1>2, <1>6
  <2>2. /\ Unique(Kids, made, root)
        /\ \A u \in Threads : Looked(Kids, made, root, th[u])
    BY <2>1 DEF NamesKept
  <2>3. Adds(r) => ~ Here(Kids, made, root, r.path)
    <3>1. Looked(Kids, made, root, r)
      BY <2>2
    <3> HIDE DEF r, root
    <3> QED BY <1>1, <3>1 DEF Looked, Checked
  <2>4. Unique(Kids, made, new)
    BY <1>4, <2>1, <2>2, <2>3 DEF Renamed
  <2>5. ASSUME NEW u \in Threads PROVE Looked(Kids, made, new, th'[u])
    <3>1. CASE u = t
      <4>1. Looked(Kids, made, root, r)
        BY <2>2
      <4>2. ~ Checking(q) /\ ~ Checked(q) /\ q.root = r.root /\ r.pc \in Holding
        BY <1>1 DEF Checking, Checked, Same, Holding
      <4> HIDE DEF r, q, root, new
      <4>3. Looked(Kids, made, new, q)
        BY <4>1, <4>2 DEF Looked
      <4> QED BY <3>1, <4>3 DEF q
    <3>2. CASE u # t
      <4> DEFINE v == th[u]
      <4>1. th'[u] = v /\ Looked(Kids, made, root, v) /\ v.path \in Seq(Names)
        BY <1>1, <2>2, <3>2, TypesFacts DEF Others, Threading
      <4>2. Adds(v) /\ Adds(r) /\ v.pc # "idle" => v.path # r.path
        BY <1>1, <3>2, AddsApart
      <4>3. Here(Kids, made, new, v.path) =>
              Here(Kids, made, root, v.path) \/ (Adds(r) /\ v.path = r.path)
        BY <1>4, <2>1, <4>1 DEF Renamed
      <4>4. Checking(v) \/ Checked(v) => Adds(v) /\ v.pc # "idle"
        BY DEF Checking, Checked
      <4> HIDE DEF v, r, root, new
      <4>5. Looked(Kids, made, new, v)
        BY <4>1, <4>2, <4>3, <4>4 DEF Looked
      <4> QED BY <4>1, <4>5
    <3> QED BY <3>1, <3>2
  <2> QED BY <2>4, <2>5
<1>7. root_block_' = new /\ made' = made
  BY <1>2
<1> HIDE DEF new
<1> QED BY <1>3, <1>5, <1>6, <1>7 DEF NamesKept

LEMMA NamesStep ==
  ASSUME Types, Traced, Locked, NamesKept, NEW t \in Threads, Step(t)
  PROVE  NamesKept'
<1>1. CASE Call(t)
  <2> DEFINE q == th'[t]
  <2>1. Others(t) /\ q.pc = "root" /\ q.resolve = Resolves(q.op)
    BY <1>1, CallTurns
  <2>2. made' = made /\ root_block_' = root_block_ /\ stale' = stale
    BY <1>1 DEF Call
  <2> HIDE DEF q
  <2>3. Adds(q) => Head(q.resolve) = "absent"
    <3>1. /\ Head(<<"absent", "parent">>) = "absent"
          /\ Head(<<"absent", "absent", "parent">>) = "absent"
      OBVIOUS
    <3>2. q.op = "mkdir" => q.resolve = <<"absent", "parent">>
      BY <2>1 DEF Resolves
    <3>3. q.op = "create" => q.resolve = <<"absent", "absent", "parent">>
      BY <2>1 DEF Resolves
    <3> QED BY <3>1, <3>2, <3>3, Zenon DEF Adds
  <2>4. ~ Checking(q) /\ ~ Checked(q) /\ ~ Unplaced(q) /\ q.pc \notin Holding \cup {"walk"}
    BY <2>1, <2>3 DEF Checking, Checked, Unplaced, Holding
  <2>5. Looked(Kids, made, root_block_, q)
    BY <2>4 DEF Looked
  <2> QED BY <2>1, <2>2, <2>4, <2>5, NamesStay DEF q
<1>2. CASE RaceCrash(t)
  <2>1. th' = th /\ made' = made /\ root_block_' = root_block_ /\ stale' = stale
    BY <1>2 DEF RaceCrash
  <2>2. Kids' = Kids
    BY <2>1 DEF Kids
  <2> QED BY <2>1, <2>2 DEF NamesKept
<1> QED BY <1>1, <1>2, RootNames, WalkNames, HeldNames, BuildNames, EndSwitchNames
        DEF Step, Work

-----------------------------------------------------------------------------
(* A thread nobody disturbs is not stuck *)

\* Siblings in a tree have nothing below them in common.
LEMMA SiblingsApart ==
  ASSUME NEW n, NEW K, Older(K, n), NEW root \in 1 .. n, Tree(K, root),
         NEW x \in Reach(K, root), NEW a \in K[x], NEW b \in K[x], a # b
  PROVE  Reach(K, a) \cap Reach(K, b) = {}
<1> DEFINE S == Reach(K, b) \ Reach(K, a)
<1>1. x \in 1 .. n /\ Reach(K, x) \subseteq Reach(K, root)
  BY ReachTrans
<1>2. a \in 1 .. n /\ b \in 1 .. n /\ x \notin Reach(K, a) /\ x \notin Reach(K, b)
  BY <1>1, ReachKid
<1>3. Reach(K, a) \subseteq Reach(K, root) /\ Reach(K, b) \subseteq Reach(K, root)
  BY <1>1, SweepKids
<1>4. ASSUME NEW z \in Reach(K, root), NEW k \in K[z], k \in Reach(K, a)
      PROVE  (k = a /\ z = x) \/ z \in Reach(K, a)
  <2>1. CASE k = a
    BY <2>1 DEF Tree
  <2>2. CASE k # a
    <3>1. PICK w \in Reach(K, a) : k \in K[w]
      BY <1>2, <1>4, <2>2, ReachParent
    <3> QED BY <3>1, <1>3 DEF Tree
  <2> QED BY <2>1, <2>2
<1>5. b \in Reach(K, b) /\ Reach(K, b) \subseteq 1 .. n
      /\ \A z \in Reach(K, b) : K[z] \subseteq Reach(K, b)
  BY <1>2, ReachClosed
<1>6. b \in S
  <2>1. b \notin Reach(K, a)
    BY <1>2, <1>4
  <2> QED BY <1>5, <2>1
<1>7. ASSUME NEW z \in S, NEW k \in K[z]
      PROVE  k \in S
  <2>1. z \in Reach(K, root) /\ z # x /\ k \in Reach(K, b)
    BY <1>2, <1>3, <1>5
  <2>2. z \notin Reach(K, a)
    OBVIOUS
  <2>3. k \notin Reach(K, a)
    BY <1>4, <2>1, <2>2
  <2> QED BY <2>1, <2>3
<1>8. S \subseteq 1 .. n /\ \A z \in S : \A k \in K[z] : k \in S
  BY <1>5, <1>7
<1> HIDE DEF S
<1>9. Reach(K, b) \subseteq S
  BY <1>2, <1>6, <1>8, ReachLeast
<1> QED BY <1>9 DEF S

\* What a sweep has left, nobody else has freed, and it comes to each block by one
\* way.
Clear(K, F, last, sweep) ==
  /\ Tree(K, last)
  /\ Left(K, sweep) \cap F = {}
  /\ \A x, y \in sweep : x # y => Reach(K, x) \cap Reach(K, y) = {}

\* A sweep of a tree nobody else frees.
LEMMA ClearStart ==
  ASSUME NEW n, NEW K, Older(K, n), NEW root \in 1 .. n, Tree(K, root),
         NEW F, Reach(K, root) \cap F = {}, NEW last \in Reach(K, root)
  PROVE  Clear(K, F, last, {last}) /\ K[last] \cap F = {}
<1>1. Reach(K, last) \subseteq Reach(K, root) /\ K[last] \subseteq Reach(K, root)
  BY ReachTrans, ReachClosed
<1>2. Tree(K, last)
  BY <1>1 DEF Tree
<1>3. Left(K, {last}) \cap F = {}
  BY <1>1 DEF Left
<1> QED BY <1>1, <1>2, <1>3 DEF Clear

LEMMA ClearOn ==
  ASSUME NEW n, NEW K, Older(K, n), NEW last \in 1 .. n, NEW F, NEW sweep,
         sweep \subseteq Reach(K, last), Clear(K, F, last, sweep), NEW id \in sweep
  PROVE  K[id] \cap F = {} /\ Clear(K, F \cup K[id], last, Swept(K, sweep, id))
<1> DEFINE S == Swept(K, sweep, id)
<1>1. sweep \subseteq 1 .. n
  BY ReachClosed
<1>2. K[id] \subseteq Left(K, sweep) /\ Left(K, S) \subseteq Left(K, sweep)
  BY <1>1, SweepLeft
<1>3. \A k \in K[id] : k \in 1 .. n /\ k \in Reach(K, k) /\ k \in Reach(K, id)
                       /\ Reach(K, k) \subseteq Reach(K, id)
  BY <1>1, SweepKids, ReachClosed
<1>4. \A a, b \in K[id] : a # b => Reach(K, a) \cap Reach(K, b) = {}
  BY SiblingsApart DEF Clear
<1>5. \A y \in sweep : y # id => Reach(K, y) \cap Reach(K, id) = {}
  BY DEF Clear
<1>6. ASSUME NEW x \in S, NEW y \in S, x # y
      PROVE  Reach(K, x) \cap Reach(K, y) = {}
  <2>1. CASE x \in K[id] /\ y \in K[id]
    BY <1>4, <1>6, <2>1
  <2>2. CASE x \in K[id] /\ y \in sweep \ {id}
    BY <1>3, <1>5, <2>2
  <2>3. CASE x \in sweep \ {id} /\ y \in K[id]
    BY <1>3, <1>5, <2>3
  <2>4. CASE x \in sweep \ {id} /\ y \in sweep \ {id}
    BY <1>6, <2>4 DEF Clear
  <2> QED BY <2>1, <2>2, <2>3, <2>4 DEF Swept
<1>7. ASSUME NEW k \in K[id]
      PROVE  k \notin Left(K, S)
  <2> SUFFICES ASSUME NEW y \in S, k \in Reach(K, y), k # y
               PROVE  FALSE
    BY DEF Left
  <2>1. k \in S
    BY DEF Swept
  <2> QED BY <1>3, <1>6, <2>1
<1>8. Left(K, S) \cap (F \cup K[id]) = {} /\ K[id] \cap F = {}
  BY <1>2, <1>7 DEF Clear
<1> QED BY <1>6, <1>8 DEF Clear

\* The path is not below its last block.
LEMMA ClearPath ==
  ASSUME NEW n, NEW K, Older(K, n), NEW c, NEW root, Chain(K, c, root), NEW F,
         Clear(K, F, Last(c), {Last(c)})
  PROVE  Clear(K, F \cup ToSet(c), Last(c), {Last(c)})
<1>1. Len(c) \in Nat /\ Len(c) >= 1 /\ DOMAIN c = 1 .. Len(c)
  BY ChainLen
<1>2. Last(c) = c[Len(c)] /\ \A i \in 1 .. Len(c) : c[i] \in 1 .. n
  BY ChainIn DEF Last
<1>3. ASSUME NEW i \in 1 .. Len(c), c[i] \in Reach(K, Last(c)), c[i] # Last(c)
      PROVE  FALSE
  <2>1. i < Len(c) /\ Len(c) \in 1 .. Len(c)
    BY <1>1, <1>2, <1>3
  <2>2. c[Len(c)] < c[i]
    BY <2>1, ChainDown
  <2>3. c[i] <= Last(c)
    BY <1>1, <1>2, <1>3, <2>1, ReachOlder
  <2>4. c[i] \in Nat /\ c[Len(c)] \in Nat /\ n \in Nat
    BY <1>2, <2>1 DEF Older
  <2> QED BY <1>2, <2>2, <2>3, <2>4
<1>4. Left(K, {Last(c)}) \cap ToSet(c) = {}
  BY <1>1, <1>3 DEF Left, ToSet
<1> QED BY <1>4 DEF Clear

Undisturbed(t) == th[t].pc # "idle" /\ t \notin beside

\* create has put its file in place and goes to look for it.
Again(r) ==
  /\ r.op = "create"
  /\ r.pc = "free" \/ (r.pc \in {"root", "walk"} /\ Head(r.resolve) = "again")

\* A thread works on the present tree; what it has to free is its own; create's
\* file is there; it is not stuck.
Safe(K, L, F, root, r) ==
  /\ r.pc \in {"walk", "fetch"} => r.root = root
  /\ r.pc = "free" /\ r.op = "rmdir" => Clear(K, F, Last(r.blocks), {Last(r.blocks)})
  /\ r.pc = "sweep" => Clear(K, F, Last(r.blocks), r.sweep)
  /\ Again(r) => Here(K, L, root, r.path)
  /\ r.pc \notin {"hung", "aborted"}

NoOther(t) == \A u \in Threads \ {t} : ~ Changing(u)

\* So it is for a thread next to which there was no change, as long as no update
\* was lost.
Alone ==
  \A t \in Threads : Undisturbed(t) =>
    NoOther(t) /\ (~ stale => Safe(Kids, made, freed, root_block_, th[t]))

\* A thread that changes nothing leaves everything to the others.
LEMMA QuietStep ==
  ASSUME Types, NEW u \in Threads, Step(u), ~ Changing(u)
  PROVE  /\ made' = made /\ freed' = freed /\ root_block_' = root_block_
         /\ stale' = stale /\ Others(u)
<1>1. Others(u)
  BY WorkCall, CallTurns DEF Step
<1>2. Fits(th[u])
  BY DEF Types
<1>3. CASE Call(u) \/ RaceCrash(u) \/ Root(u)
  BY <1>1, <1>3 DEF Call, RaceCrash, Root
<1>4. CASE Walk(u)
  BY <1>1, <1>4, WalkStep DEF Walk
<1>5. CASE Fetch(u)
  BY <1>1, <1>5, FetchStep DEF Fetch
<1>6. ASSUME th[u].pc \in {"build", "switch", "switching", "free", "sweep"}
      PROVE  FALSE
  BY <1>2, <1>6 DEF Fits, Changing, Changes
<1>7. CASE Sweep(u) \/ Build(u) \/ BeginSwitch(u) \/ EndSwitch(u) \/ FreePath(u)
  BY <1>6, <1>7 DEF Sweep, Build, BeginSwitch, EndSwitch, FreePath
<1> QED BY <1>3, <1>4, <1>5, <1>7 DEF Step, Work

\* The tree is free of scraps.
LEMMA NoScraps ==
  ASSUME Types, Sound, ~ stale, NEW t \in Threads, NoOther(t), ~ Scraps(th[t])
  PROVE  /\ Tree(Kids, root_block_) /\ Reach(Kids, root_block_) \cap freed = {}
         /\ root_block_ \in 1 .. Len(made) /\ Older(Kids, Len(made))
<1>1. Whole
  BY DEF Sound
<1>2. ASSUME NEW x \in freed \cap Reach(Kids, root_block_)
      PROVE  FALSE
  <2>1. PICK u \in Threads : Scraps(th[u])
    BY <1>1 DEF Whole
  <2>2. Changing(u)
    BY <2>1 DEF Scraps, Changing, Changes
  <2> QED BY <2>1, <2>2 DEF NoOther
<1>3. Tree(Kids, root_block_)
  BY <1>1 DEF Whole
<1>4. root_block_ \in 1 .. Len(made) /\ Older(Kids, Len(made))
  BY TypesFacts DEF Types
<1> QED BY <1>2, <1>3, <1>4

LEMMA FetchedIn ==
  ASSUME Types, NEW root \in 1 .. Len(made), NEW path, Len(path) \in Nat,
         NEW b \in get_path(root, path)
  PROVE  Fetched(b, path) \subseteq Reach(Kids, root)
<1>1. Older(Kids, Len(made))
  BY DEF Types
<1>2. Chain(Kids, b, root)
  BY <1>1, GetPathChain
<1>3. DOMAIN b = 1 .. Len(b) /\ \A i \in 1 .. Len(b) : b[i] \in Reach(Kids, root)
  BY <1>1, <1>2, ChainLen, ChainIn
<1>4. \A x \in Reach(Kids, root) : x \in 1 .. Len(made) /\ Kids[x] \subseteq Reach(Kids, root)
  BY <1>1, ReachClosed
<1>5. \A x \in 1 .. Len(made) : Kids[x] = made[x].kids
  BY TypesFacts
<1>6. \A i \in DOMAIN b : made[b[i]].kids \subseteq Reach(Kids, root)
  BY <1>3, <1>4, <1>5
<1> QED BY <1>6 DEF Fetched

\* What a thread at these places has to show is nothing.
LEMMA SafeAway ==
  ASSUME NEW K, NEW L, NEW F, NEW root, NEW r, r.pc \in {"build", "switch", "switching"}
  PROVE  Safe(K, L, F, root, r)
BY DEF Safe, Again

LEMMA CallSafe ==
  ASSUME Types, NEW t \in Threads, Call(t)
  PROVE  Safe(Kids, made, freed, root_block_, th'[t])
<1> DEFINE q == th'[t]
<1>1. q.pc = "root" /\ q.resolve = Resolves(q.op)
  BY CallTurns
<1> HIDE DEF q
<1>2. q.op = "create" => q.resolve = <<"absent", "absent", "parent">>
  BY <1>1 DEF Resolves
<1>3. ~ Again(q)
  <2>1. Head(<<"absent", "absent", "parent">>) = "absent"
    OBVIOUS
  <2> QED BY <1>1, <1>2, <2>1 DEF Again
<1>4. Safe(Kids, made, freed, root_block_, q)
  BY <1>1, <1>3 DEF Safe
<1> QED BY <1>4 DEF q

LEMMA RootSafe ==
  ASSUME Types, NEW t \in Threads, Root(t), Safe(Kids, made, freed, root_block_, th[t])
  PROVE  Safe(Kids, made, freed, root_block_, th'[t])
<1> DEFINE r == th[t]
           q == th'[t]
<1>1. /\ r.pc = "root" /\ q.pc = "walk" /\ q.root = root_block_
      /\ q.op = r.op /\ q.path = r.path /\ q.resolve = r.resolve
  BY RootTurns
<1> HIDE DEF q, r
<1>2. Again(q) => Again(r)
  BY <1>1 DEF Again
<1>3. Again(q) => Here(Kids, made, root_block_, q.path)
  BY <1>1, <1>2 DEF Safe, r
<1>4. Safe(Kids, made, freed, root_block_, q)
  BY <1>1, <1>3 DEF Safe
<1> QED BY <1>4 DEF q

LEMMA WalkSafe ==
  ASSUME Types, Sound, NamesKept, ~ stale, NEW t \in Threads, Walk(t), NoOther(t),
         Safe(Kids, made, freed, root_block_, th[t])
  PROVE  th'[t] = Idle \/ Safe(Kids, made, freed, root_block_, th'[t])
<1> DEFINE r == th[t]
           q == th'[t]
<1>1. r.pc = "walk" /\ r.root \in 1 .. Len(made) /\ Len(Target(r)) \in Nat
  BY WalkTurns
<1>2. PICK b \in get_path(r.root, Target(r)) :
        \/ MayHang(Fetched(b, Target(r)))
        \/ Turned(q, r, b)
  BY WalkTurns
<1>3. r.root = root_block_
  BY <1>1 DEF Safe
<1>4. ~ Scraps(r)
  BY <1>1 DEF Scraps
<1>5. Reach(Kids, root_block_) \cap freed = {} /\ Older(Kids, Len(made))
  BY <1>4, NoScraps
<1>6. ~ MayHang(Fetched(b, Target(r)))
  BY <1>1, <1>3, <1>5, FetchedIn DEF MayHang
<1>7. Unique(Kids, made, r.root)
  BY <1>1 DEF NamesKept, Looked
<1>8. Fits(r)
  BY DEF Types
<1>9. Safe(Kids, made, freed, root_block_, r)
  OBVIOUS
<1> HIDE DEF q, r
<1>10. CASE q = Idle
  BY <1>10 DEF q
<1>11. CASE /\ q.pc \in {"fetch", "build"} /\ q.root = r.root
  BY <1>3, <1>11 DEF Safe, Again, q
<1>12. CASE q.pc = "root" /\ Head(q.resolve) \in {"absent", "parent"}
  BY <1>12 DEF Safe, Again, q
<1>13. CASE ~ Complete(b, Target(r)) /\ Head(r.resolve) = "again"
  <2>1. r.op = "create"
    BY <1>1, <1>8, <1>13, AskedFor
  <2>2. Here(Kids, made, r.root, r.path)
    BY <1>1, <1>3, <1>9, <1>13, <2>1 DEF Safe, Again
  <2>3. Target(r) = r.path
    BY <1>13 DEF Target
  <2> QED BY <1>1, <1>5, <1>7, <1>13, <2>2, <2>3, MissedIsNot
<1> QED BY <1>2, <1>6, <1>10, <1>11, <1>12, <1>13 DEF Turned

LEMMA FetchSafe ==
  ASSUME Types, Sound, ~ stale, NEW t \in Threads, Fetch(t), NoOther(t),
         Safe(Kids, made, freed, root_block_, th[t])
  PROVE  th'[t] = Idle \/ Safe(Kids, made, freed, root_block_, th'[t])
<1> DEFINE r == th[t]
           q == th'[t]
           last == Last(r.blocks)
<1>1. /\ r.pc = "fetch"
      /\ \/ MayHang(Kids[last])
         \/ q.pc = "sweep" /\ Same(q, r) /\ q.sweep = {last}
         \/ q = Idle
  BY FetchTurns
<1>2. r.root = root_block_ /\ ~ Scraps(r) /\ r.pc \in Holding
  BY <1>1 DEF Safe, Scraps, Holding
<1>3. /\ Tree(Kids, root_block_) /\ Reach(Kids, root_block_) \cap freed = {}
      /\ root_block_ \in 1 .. Len(made) /\ Older(Kids, Len(made))
  BY <1>2, NoScraps
<1>4. last \in Reach(Kids, root_block_)
  BY <1>2, HeldChain
<1> HIDE DEF q, r, last
<1>5. Clear(Kids, freed, last, {last}) /\ Kids[last] \cap freed = {}
  BY <1>3, <1>4, ClearStart
<1>6. CASE q.pc = "sweep" /\ Same(q, r) /\ q.sweep = {last}
  <2>1. Last(q.blocks) = last
    BY <1>6 DEF Same, last
  <2>2. Safe(Kids, made, freed, root_block_, q)
    BY <1>5, <1>6, <2>1 DEF Safe, Again
  <2> QED BY <2>2 DEF q
<1> QED BY <1>1, <1>5, <1>6 DEF MayHang, q

LEMMA SweepSafe ==
  ASSUME Types, NEW t \in Threads, Sweep(t), Safe(Kids, made, freed, root_block_, th[t])
  PROVE  th'[t] = Idle \/ Safe(Kids, made, freed', root_block_, th'[t])
<1> DEFINE r == th[t]
           q == th'[t]
           last == Last(r.blocks)
<1>1. r.pc = "sweep" /\ r.pc \in Holding
  BY SweepTurns DEF Holding
<1>2. PICK id \in r.sweep :
        \/ MayHang(Kids[id])
        \/ /\ freed' = freed \cup Kids[id] /\ q.pc = "sweep"
           /\ Same(q, r) /\ q.sweep = Swept(Kids, r.sweep, id)
        \/ q.pc = "build"
        \/ q = Idle
  BY SweepTurns
<1>3. last \in 1 .. Len(made) /\ Older(Kids, Len(made))
  BY <1>1, HeldChain DEF Types
<1>4. r.sweep \subseteq Reach(Kids, last)
  BY <1>2 DEF Types, Formed
<1>5. Clear(Kids, freed, last, r.sweep)
  BY <1>1 DEF Safe
<1> HIDE DEF q, r, last
<1>6. /\ Kids[id] \cap freed = {}
      /\ Clear(Kids, freed \cup Kids[id], last, Swept(Kids, r.sweep, id))
  BY <1>3, <1>4, <1>5, ClearOn
<1>7. CASE /\ freed' = freed \cup Kids[id] /\ q.pc = "sweep"
           /\ Same(q, r) /\ q.sweep = Swept(Kids, r.sweep, id)
  <2>1. Last(q.blocks) = last
    BY <1>7 DEF Same, last
  <2>2. Clear(Kids, freed', Last(q.blocks), q.sweep)
    BY <1>6, <1>7, <2>1
  <2>3. Safe(Kids, made, freed', root_block_, q)
    BY <1>7, <2>2 DEF Safe, Again
  <2> QED BY <2>3 DEF q
<1>8. CASE q.pc = "build"
  BY <1>8, SafeAway DEF q
<1> QED BY <1>2, <1>6, <1>7, <1>8 DEF MayHang, q

LEMMA EndSwitchSafe ==
  ASSUME Types, Sound, NamesKept, NEW t \in Threads, EndSwitch(t), NoOther(t), ~ stale'
  PROVE  Safe(Kids, made, freed, root_block_', th'[t])
<1> DEFINE r == th[t]
           q == th'[t]
           last == Last(r.blocks)
<1>1. r.pc = "switching" /\ q.pc = "free" /\ Same(q, r)
  BY SwitchTurns
<1>2. ~ stale /\ root_block_ = r.root /\ root_block_' = r.new
  BY DEF EndSwitch, Types
<1>3. Renamed(Kids, made, r)
  BY <1>1 DEF NamesKept, Unplaced
<1>4. q.op = r.op /\ q.path = r.path /\ q.blocks = r.blocks
  BY <1>1 DEF Same
<1>5. q.op = "rmdir" => Clear(Kids, freed, last, {last})
  <2> SUFFICES ASSUME q.op = "rmdir"
               PROVE  Clear(Kids, freed, last, {last})
    OBVIOUS
  <2>1. ~ Scraps(r) /\ r.pc \in Holding
    BY <1>1, <1>4 DEF Scraps, Holding
  <2>2. /\ Tree(Kids, root_block_) /\ Reach(Kids, root_block_) \cap freed = {}
        /\ root_block_ \in 1 .. Len(made) /\ Older(Kids, Len(made))
    BY <1>2, <2>1, NoScraps
  <2>3. last \in Reach(Kids, root_block_)
    BY <1>2, <2>1, HeldChain
  <2> HIDE DEF last
  <2> QED BY <2>2, <2>3, ClearStart
<1> HIDE DEF q, r
<1>6. Again(q) => Here(Kids, made, root_block_', q.path)
  BY <1>2, <1>3, <1>4 DEF Again, Renamed, Adds
<1>7. Safe(Kids, made, freed, root_block_', q)
  BY <1>1, <1>4, <1>5, <1>6 DEF Safe
<1> QED BY <1>7 DEF q

LEMMA FreePathSafe ==
  ASSUME Types, NEW t \in Threads, FreePath(t), Safe(Kids, made, freed, root_block_, th[t])
  PROVE  th'[t] = Idle \/ Safe(Kids, made, freed', root_block_, th'[t])
<1> DEFINE r == th[t]
           q == th'[t]
           last == Last(r.blocks)
<1>1. /\ r.pc = "free" /\ r.pc \in Holding
      /\ \/ /\ r.op = "create" /\ q.pc = "root" /\ q.path = r.path
         \/ /\ r.op = "rmdir" /\ q.pc = "sweep" /\ Same(q, r) /\ q.sweep = {last}
         \/ q = Idle
  BY FreePathTurns DEF Holding
<1>2. freed' = freed \cup ToSet(r.blocks)
  BY FreePathStep
<1>3. Chain(Kids, r.blocks, r.root) /\ Older(Kids, Len(made))
  BY <1>1, HeldChain DEF Types
<1>4. Safe(Kids, made, freed, root_block_, r)
  OBVIOUS
<1> HIDE DEF q, r
<1>5. CASE r.op = "create" /\ q.pc = "root" /\ q.path = r.path
  <2>1. Here(Kids, made, root_block_, q.path)
    BY <1>1, <1>4, <1>5 DEF Safe, Again
  <2> QED BY <1>5, <2>1 DEF Safe, q
<1>6. CASE r.op = "rmdir" /\ q.pc = "sweep" /\ Same(q, r) /\ q.sweep = {last}
  <2>1. Clear(Kids, freed, last, {last})
    BY <1>1, <1>4, <1>6 DEF Safe
  <2>2. Clear(Kids, freed', last, {last})
    BY <1>2, <1>3, <2>1, ClearPath
  <2>3. Last(q.blocks) = last
    BY <1>6 DEF Same
  <2>4. Safe(Kids, made, freed', root_block_, q)
    BY <1>6, <2>2, <2>3 DEF Safe, Again
  <2> QED BY <2>4 DEF q
<1> QED BY <1>1, <1>5, <1>6 DEF q

\* What a step makes of a thread that was safe.
LEMMA SafeStep ==
  ASSUME Types, Sound, NamesKept, NEW t \in Threads, RaceCrash(t) \/ Work(t), NoOther(t),
         ~ stale => Safe(Kids, made, freed, root_block_, th[t]), ~ stale'
  PROVE  th'[t] = Idle \/ Safe(Kids', made', freed', root_block_', th'[t])
<1>1. CASE RaceCrash(t)
  <2>1. UNCHANGED <<made, freed, root_block_, th, stale>>
    BY <1>1 DEF RaceCrash
  <2>2. Kids' = Kids
    BY <2>1 DEF Kids
  <2> QED BY <2>1, <2>2
<1>2. CASE Root(t)
  <2>1. UNCHANGED <<made, freed, root_block_, stale>>
    BY <1>2 DEF Root
  <2>2. Kids' = Kids
    BY <2>1 DEF Kids
  <2>3. Safe(Kids, made, freed, root_block_, th'[t])
    BY <1>2, <2>1, RootSafe
  <2> QED BY <2>1, <2>2, <2>3
<1>3. CASE Walk(t) \/ Fetch(t)
  <2>1. UNCHANGED <<made, freed, root_block_, stale>>
    BY <1>3, WalkStep, FetchStep DEF Walk, Fetch
  <2>2. Kids' = Kids
    BY <2>1 DEF Kids
  <2>3. th'[t] = Idle \/ Safe(Kids, made, freed, root_block_, th'[t])
    BY <1>3, <2>1, WalkSafe, FetchSafe
  <2> QED BY <2>1, <2>2, <2>3
<1>4. CASE Sweep(t) \/ FreePath(t)
  <2>1. UNCHANGED <<made, root_block_, stale>>
    BY <1>4, SweepStep, FreePathStep DEF Sweep, FreePath
  <2>2. Kids' = Kids
    BY <2>1 DEF Kids
  <2>3. th'[t] = Idle \/ Safe(Kids, made, freed', root_block_, th'[t])
    BY <1>4, <2>1, SweepSafe, FreePathSafe
  <2> QED BY <2>1, <2>2, <2>3
<1>5. CASE Build(t) \/ BeginSwitch(t)
  <2>1. th'[t].pc \in {"build", "switch", "switching"}
    BY <1>5, BuildTurns, SwitchTurns
  <2> QED BY <2>1, SafeAway
<1>6. CASE EndSwitch(t)
  <2>1. UNCHANGED <<made, freed>>
    BY <1>6 DEF EndSwitch
  <2>2. Kids' = Kids
    BY <2>1 DEF Kids
  <2>3. Safe(Kids, made, freed, root_block_', th'[t])
    BY <1>6, EndSwitchSafe
  <2> QED BY <2>1, <2>2, <2>3
<1> QED BY <1>1, <1>2, <1>3, <1>4, <1>5, <1>6 DEF Work

LEMMA AloneStep ==
  ASSUME Types, Sound, NamesKept, Alone, NEW t \in Threads, Step(t), Watch
  PROVE  Alone'
<1> SUFFICES ASSUME NEW v \in Threads, th'[v].pc # "idle", v \notin beside'
             PROVE  /\ \A u \in Threads \ {v} : ~ Changing(u)'
                    /\ ~ stale' => Safe(Kids', made', freed', root_block_', th'[v])
  BY DEF Alone, Undisturbed, NoOther
<1>1. v \notin beside /\ \A u \in Threads \ {v} : ~ Changing(u)'
  BY DEF Watch
<1>2. CASE v # t
  <2>1. Others(t)
    BY WorkCall, CallTurns DEF Step
  <2>2. th'[v] = th[v]
    BY <1>2, <2>1 DEF Others
  <2>3. NoOther(v) /\ (~ stale => Safe(Kids, made, freed, root_block_, th[v]))
    BY <1>1, <2>2 DEF Alone, Undisturbed
  <2>4. ~ Changing(t)
    BY <1>2, <2>3 DEF NoOther
  <2>5. made' = made /\ freed' = freed /\ root_block_' = root_block_ /\ stale' = stale
    BY <2>4, QuietStep
  <2>6. Kids' = Kids
    BY <2>5 DEF Kids
  <2> QED BY <1>1, <2>2, <2>3, <2>5, <2>6
<1>3. CASE v = t /\ Call(t)
  <2>1. UNCHANGED <<made, freed, root_block_, stale>>
    BY <1>3 DEF Call
  <2>2. Kids' = Kids
    BY <2>1 DEF Kids
  <2>3. Safe(Kids, made, freed, root_block_, th'[t])
    BY <1>3, CallSafe
  <2> QED BY <1>1, <1>3, <2>1, <2>2, <2>3
<1>4. CASE v = t /\ (RaceCrash(t) \/ Work(t))
  <2>1. th[t].pc # "idle"
    BY <1>4, WorkCall
  <2>2. NoOther(t) /\ (~ stale => Safe(Kids, made, freed, root_block_, th[t]))
    BY <1>1, <1>4, <2>1 DEF Alone, Undisturbed
  <2>3. th'[t] # Idle
    BY <1>4, IdleIs
  <2>4. ~ stale' => Safe(Kids', made', freed', root_block_', th'[t])
    BY <1>4, <2>2, <2>3, SafeStep
  <2> QED BY <1>1, <1>4, <2>4
<1> QED BY <1>2, <1>3, <1>4 DEF Step

-----------------------------------------------------------------------------
(* Who can come to wait for ever *)

LEMMA InitNames == Init => Traced /\ Locked /\ NamesKept /\ Alone
<1> SUFFICES ASSUME Init
             PROVE  Traced /\ Locked /\ NamesKept /\ Alone
  OBVIOUS
<1>1. \A t \in Threads : th[t].pc = "idle"
  BY IdleIs DEF Init
<1>2. Traced
  BY <1>1 DEF Traced, Holding
<1>3. Locked
  BY <1>1 DEF Locked
<1>4. Alone
  BY <1>1 DEF Alone, Undisturbed
<1>5. /\ Kids[1] = {} /\ Kids[2] = {1} /\ Kids[3] = {} /\ Kids[4] = {2, 3}
      /\ Older(Kids, 4)
  BY InitBlocks
<1>6. made[2].name = FileName /\ made[3].name = DirName /\ root_block_ = 4
  BY DEF Init, Entry
<1>7. Unique(Kids, made, root_block_)
  <2> SUFFICES ASSUME NEW x \in Reach(Kids, 4), NEW k \in Kids[x], NEW l \in Kids[x],
                      Named(made[l], made[k].name)
               PROVE  k = l
    BY <1>6 DEF Unique
  <2>1. x \in 1 .. 4
    BY <1>5, ReachClosed
  <2>2. x = 1 \/ x = 2 \/ x = 3 \/ x = 4
    BY <2>1
  <2>3. made[l].name = made[k].name
    BY DEF Named
  <2> QED BY <1>5, <1>6, <2>2, <2>3, StartAssumption
<1>8. \A t \in Threads : /\ Looked(Kids, made, root_block_, th[t])
                         /\ ~ Unplaced(th[t])
  BY <1>1, LookedAway
<1>9. NamesKept
  BY <1>7, <1>8 DEF NamesKept
<1> QED BY <1>2, <1>3, <1>4, <1>9

LEMMA NextNames ==
  Types /\ Sound /\ Traced /\ Locked /\ NamesKept /\ Alone /\ [Next]_vars
    => Traced' /\ Locked' /\ NamesKept' /\ Alone'
<1> SUFFICES ASSUME Types, Sound, Traced, Locked, NamesKept, Alone, [Next]_vars
             PROVE  Traced' /\ Locked' /\ NamesKept' /\ Alone'
  OBVIOUS
<1>1. CASE Next
  <2>1. PICK t \in Threads : Step(t)
    BY <1>1 DEF Next
  <2>2. Watch
    BY <1>1 DEF Next
  <2> QED BY <2>1, <2>2, TracedStep, LockedStep, NamesStep, AloneStep
<1>2. CASE UNCHANGED vars
  <2>1. /\ made' = made /\ freed' = freed /\ root_block_' = root_block_
        /\ th' = th /\ stale' = stale /\ beside' = beside
    BY <1>2 DEF vars
  <2>2. Kids' = Kids
    BY <2>1 DEF Kids
  <2>3. Traced' /\ Locked' /\ NamesKept'
    BY <2>1, <2>2 DEF Traced, Locked, NamesKept
  <2>4. Alone'
    BY <2>1, <2>2 DEF Alone, Undisturbed, NoOther, Changing
  <2> QED BY <2>3, <2>4
<1> QED BY <1>1, <1>2

LEMMA NamesAlways == Spec => [](Traced /\ Locked /\ NamesKept /\ Alone)
<1>1. Spec => [](Types /\ Separate /\ Sound)
  BY SoundAlways
<1> QED BY <1>1, InitNames, NextNames, PTL DEF Spec

\* For any number of threads, names and calls and any depth of paths: a call
\* waits for ever on a freed block (the fetches of get_path, of write and of
\* recursive_free_children_blocks have no time limit), or create's assertion that
\* its new file is there fails, only if another thread made a change during the
\* call or an update of root_block_ was lost before.
THEOREM OnlyChangesStick == Spec => []StuckOnlyBesideChange
<1>1. Alone => StuckOnlyBesideChange
  BY DEF Alone, Undisturbed, Safe, StuckOnlyBesideChange
<1> QED BY <1>1, NamesAlways, PTL

=============================================================================
