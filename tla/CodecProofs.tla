---------------------------- MODULE CodecProofs -----------------------------
(***************************************************************************)
(* Proofs about Mode and Echo: what is kept of the mode an entry was made  *)
(* with, and which packets an echoing host accepts.                        *)
(***************************************************************************)
EXTENDS Mode, Echo, DataProofs

-----------------------------------------------------------------------------
(* The checksum *)

\* The most a byte adds.
Most == 255 * 256

\* A byte adds at most Most.
LEMMA InWordBound ==
  ASSUME NEW i \in Nat, NEW byte \in Byte
  PROVE  InWord(i, byte) \in Nat /\ InWord(i, byte) <= Most
BY DEF InWord, Byte, Most

\* The bytes of a body.
LEMMA BodyBytes ==
  ASSUME NEW S, NEW body \in Seq(S)
  PROVE  Len(body) \in Nat /\ \A k \in 1 .. Len(body) : body[k] \in S
OBVIOUS

\* What a byte of a body adds.
LEMMA WordBound ==
  ASSUME NEW body \in Seq(Byte), NEW k \in 1 .. Len(body)
  PROVE  InWord(k, body[k]) \in Nat /\ InWord(k, body[k]) <= Most
<1>1. k \in Nat
  BY BodyBytes
<1>2. body[k] \in Byte
  BY BodyBytes
<1> QED BY <1>1, <1>2, InWordBound, Zenon

\* The partial sums of the loop over a body.
IsPartialSum(f, m, body) ==
  /\ f \in [0 .. m -> Nat]
  /\ f[0] = 0
  /\ \A k \in 1 .. m : f[k] = f[k - 1] + InWord(k, body[k])
  /\ f[m] <= Most * m

\* The loop has a sum after each of its rounds.
LEMMA PartialSumsExist ==
  ASSUME NEW body \in Seq(Byte)
  PROVE  \E f : IsPartialSum(f, Len(body), body)
<1> DEFINE S == {m \in 0 .. Len(body) : ~ \E f : IsPartialSum(f, m, body)}
<1>1. Len(body) \in Nat /\ \A k \in 1 .. Len(body) : body[k] \in Byte
  BY BodyBytes
<1>2. ASSUME S # {} PROVE FALSE
  <2>1. S \subseteq Nat
    BY <1>1
  <2>2. PICK m \in S : \A k \in S : m <= k
    <3> HIDE DEF S
    <3> QED BY <1>2, <2>1, LeastNumber
  <2>3. m \in 0 .. Len(body) /\ m \in Nat
    BY <1>1
  <2>4. m # 0
    <3> DEFINE zero == [k \in 0 .. 0 |-> 0]
    <3>1. zero \in [0 .. 0 -> Nat] /\ zero[0] = 0
      OBVIOUS
    <3>2. \A k \in 1 .. 0 : FALSE
      OBVIOUS
    <3> HIDE DEF zero
    <3>3. IsPartialSum(zero, 0, body)
      BY <3>1, <3>2 DEF IsPartialSum
    <3> QED BY <3>3
  <2>5. m - 1 \in 0 .. Len(body) /\ m - 1 \notin S
    <3> HIDE DEF S
    <3>1. m - 1 \in 0 .. Len(body) /\ ~ (m <= m - 1)
      BY <1>1, <2>3, <2>4
    <3> QED BY <2>2, <3>1
  <2>6. PICK f : IsPartialSum(f, m - 1, body)
    BY <2>5
  <2> DEFINE next == f[m - 1] + InWord(m, body[m])
             g == [k \in 0 .. m |-> IF k = m THEN next ELSE f[k]]
  <2>7. /\ f \in [0 .. m - 1 -> Nat] /\ f[0] = 0
        /\ \A k \in 1 .. m - 1 : f[k] = f[k - 1] + InWord(k, body[k])
        /\ f[m - 1] <= Most * (m - 1)
    BY <2>6 DEF IsPartialSum
  <2>8. InWord(m, body[m]) \in Nat /\ InWord(m, body[m]) <= Most
    <3> HIDE DEF S
    <3>1. m \in 1 .. Len(body)
      BY <1>1, <2>3, <2>4
    <3> QED BY <3>1, WordBound
  <2>9. f[m - 1] \in Nat
    BY <2>3, <2>4, <2>7
  <2>10. next \in Nat /\ next <= Most * m
    BY <2>3, <2>7, <2>8, <2>9 DEF Most
  <2> HIDE DEF next
  <2>11. g \in [0 .. m -> Nat] /\ g[0] = 0 /\ g[m] = next
    BY <2>3, <2>4, <2>7, <2>10
  <2>12. ASSUME NEW k \in 1 .. m
         PROVE  g[k] = g[k - 1] + InWord(k, body[k])
    <3>1. CASE k = m
      BY <2>3, <2>4, <3>1 DEF next
    <3>2. CASE k # m
      BY <2>3, <2>4, <2>7, <3>2
    <3> QED BY <3>1, <3>2
  <2>13. IsPartialSum(g, m, body)
    <3> HIDE DEF g
    <3> QED BY <2>10, <2>11, <2>12 DEF IsPartialSum
  <2> QED BY <2>13
<1> QED BY <1>1, <1>2

\* The sum of a body is a number, below what its length allows.
LEMMA BodySumBound ==
  ASSUME NEW body \in Seq(Byte)
  PROVE  BodySum(body) \in Nat /\ BodySum(body) <= Most * Len(body)
<1> DEFINE N == Len(body)
           Round(f) == [n \in 0 .. N |->
                          IF n = 0 THEN 0 ELSE f[n - 1] + InWord(n, body[n])]
           sum == CHOOSE f : f = Round(f)
<1>1. N \in Nat
  OBVIOUS
<1>2. PICK f : IsPartialSum(f, N, body)
  BY PartialSumsExist
<1>3. f \in [0 .. N -> Nat] /\ f[0] = 0 /\ f[N] <= Most * N
      /\ \A k \in 1 .. N : f[k] = f[k - 1] + InWord(k, body[k])
  BY <1>2 DEF IsPartialSum
<1>4. f = Round(f)
  BY <1>1, <1>3
<1>5. sum = Round(sum)
  <2> HIDE DEF Round
  <2> QED BY <1>4
<1>6. BodySum(body) = sum[N]
  BY DEF BodySum
<1> HIDE DEF sum
<1>7. sum[0] = 0 /\ \A k \in 1 .. N : sum[k] = sum[k - 1] + InWord(k, body[k])
  BY <1>1, <1>5
<1> DEFINE S == {k \in 0 .. N : sum[k] # f[k]}
<1>8. ASSUME S # {} PROVE FALSE
  <2>1. S \subseteq Nat
    BY <1>1
  <2>2. PICK m \in S : \A k \in S : m <= k
    <3> HIDE DEF S
    <3> QED BY <1>8, <2>1, LeastNumber
  <2>3. m \in 1 .. N
    BY <1>1, <1>3, <1>7
  <2>4. m - 1 \in 0 .. N /\ m - 1 \notin S
    BY <1>1, <2>2, <2>3
  <2> QED BY <1>3, <1>7, <2>3, <2>4
<1>9. sum[N] = f[N]
  BY <1>1, <1>8
<1> QED BY <1>1, <1>3, <1>6, <1>9

\* What a request is made of: two words, and bytes that fit an IP packet.
Sendable(identifier, sequence_number, body) ==
  /\ identifier \in Nat /\ identifier < 65536
  /\ sequence_number \in Nat /\ sequence_number < 65536
  /\ body \in Seq(Byte) /\ Len(body) <= 65100

\* The 32 bits of the sum are enough for any packet.
LEMMA SumFits ==
  ASSUME NEW identifier, NEW sequence_number, NEW body,
         Sendable(identifier, sequence_number, body)
  PROVE  /\ Sum(identifier, sequence_number, body) \in Nat
         /\ Sum(identifier, sequence_number, body) < 65536 * 65536
<1>1. /\ identifier \in Nat /\ identifier < 65536
      /\ sequence_number \in Nat /\ sequence_number < 65536
      /\ body \in Seq(Byte) /\ Len(body) <= 65100
  BY DEF Sendable
<1>2. Len(body) \in Nat
  BY <1>1, BodyBytes
<1>3. BodySum(body) \in Nat /\ BodySum(body) <= Most * Len(body)
  BY <1>1, BodySumBound
<1> QED BY <1>1, <1>2, <1>3 DEF Sum, TYPE, CODE, Most

\* A sum is its lower and its upper half.
LEMMA Halves ==
  ASSUME NEW sum \in Nat, sum < 65536 * 65536
  PROVE  \E h, l \in Nat :
           /\ h < 65536 /\ l < 65536 /\ sum = h * 65536 + l
           /\ sum \div 65536 = h /\ sum % 65536 = l
<1>1. sum \div 65536 \in Nat /\ sum \div 65536 < 65536
  BY SMT
<1>2. sum % 65536 \in Nat /\ sum % 65536 < 65536
  BY SMT
<1>3. sum = (sum \div 65536) * 65536 + (sum % 65536)
  BY SMT
<1> QED BY <1>1, <1>2, <1>3

\* The remainder of a multiple and a rest.
LEMMA Remainder ==
  ASSUME NEW h \in Nat, NEW m \in Nat, NEW x \in Nat, x < m
  PROVE  (h * m + x) % m = x
BY SMT

\* The words of a packet with the checksum that checksum computes add up to a
\* multiple of 65535 exactly if adding the carries to the sum does not carry.
LEMMA ChecksumCarry ==
  ASSUME NEW sum \in Nat, sum < 65536 * 65536
  PROVE  (sum + checksum(sum)) % 65535 = 0 <=> ~ SecondCarry(sum)
<1>1. PICK h, l \in Nat :
        /\ h < 65536 /\ l < 65536 /\ sum = h * 65536 + l
        /\ sum \div 65536 = h /\ sum % 65536 = l
  BY Halves
<1>2. checksum(sum) = 65535 - ((sum + h) % 65536)
  BY <1>1 DEF checksum, Complement
<1>3. SecondCarry(sum) <=> l + h >= 65536
  BY <1>1 DEF SecondCarry
<1>4. CASE l + h < 65536
  <2>1. (sum + h) % 65536 = l + h
    <3>1. sum + h = h * 65536 + (l + h) /\ l + h \in Nat
      BY <1>1
    <3> QED BY <1>1, <1>4, <3>1, Remainder
  <2>2. sum + checksum(sum) = (h + 1) * 65535 + 0
    BY <1>1, <1>2, <2>1
  <2>3. (sum + checksum(sum)) % 65535 = 0
    BY <1>1, <2>2, Remainder
  <2> QED BY <1>1, <1>3, <1>4, <2>3
<1>5. CASE l + h >= 65536
  <2>1. (sum + h) % 65536 = l + h - 65536
    <3>1. /\ sum + h = (h + 1) * 65536 + (l + h - 65536)
          /\ l + h - 65536 \in Nat /\ l + h - 65536 < 65536
      BY <1>1, <1>5
    <3> QED BY <1>1, <3>1, Remainder
  <2>2. sum + checksum(sum) = (h + 2) * 65535 + 1
    BY <1>1, <1>2, <2>1
  <2>3. (sum + checksum(sum)) % 65535 = 1
    BY <1>1, <2>2, Remainder
  <2> QED BY <1>1, <1>3, <1>5, <2>3
<1> QED BY <1>1, <1>4, <1>5

\* The echoing host accepts a request exactly if adding the carries to its sum
\* does not carry.  (A right checksum would never be refused.)
THEOREM AcceptedUnlessSecondCarry ==
  ASSUME NEW identifier \in Nat, identifier < 65536,
         NEW sequence_number \in Nat, sequence_number < 65536,
         NEW body \in Seq(Byte), Len(body) <= 65100
  PROVE  Accepts(EchoRequest(identifier, sequence_number, body))
           <=> ~ SecondCarry(Sum(identifier, sequence_number, body))
<1> DEFINE sum == Sum(identifier, sequence_number, body)
<1>1. sum \in Nat /\ sum < 65536 * 65536
  <2>1. Sendable(identifier, sequence_number, body)
    BY DEF Sendable
  <2> QED BY <2>1, SumFits
<1>2. Written(EchoRequest(identifier, sequence_number, body)) = sum + checksum(sum)
  <2>1. BodySum(body) \in Nat
    BY BodySumBound
  <2>2. checksum(sum) \in Int
    BY <1>1 DEF checksum, Complement
  <2> QED BY <2>1, <2>2 DEF Written, EchoRequest, Sum, TYPE, CODE
<1> HIDE DEF sum
<1>3. (sum + checksum(sum)) % 65535 = 0 <=> ~ SecondCarry(sum)
  BY <1>1, ChecksumCarry
<1> QED BY <1>2, <1>3 DEF Accepts, sum

-----------------------------------------------------------------------------
(* Modes *)

Rwe == {"NONE", "READ", "READ_WRITE", "READ_EXECUTE", "READ_WRITE_EXECUTE",
        "WRITE", "WRITE_EXECUTE", "EXECUTE"}
Modes == [user : Rwe, group : Rwe, other : Rwe, type : {"DIR", "REGULAR"}]

\* The constructor of Mode from a mode_t makes a mode.
LEMMA ModeOfType == \A mode : ModeOf(mode) \in Modes
BY DEF ModeOf, Modes, Rwe, rwe_from_mode_t, type_from_mode_t

\* The enumerators have different numbers, so that each is read as it was
\* written.
LEMMA RweRead ==
  ASSUME NEW name \in Rwe
  PROVE  RweProto[name] \in Byte /\ EnumOf(RweProto, RweProto[name]) = name
<1>1. DOMAIN RweProto = Rwe
  BY DEF RweProto, Rwe
<1>2. \A other \in Rwe : RweProto[other] = RweProto[name] => other = name
  BY DEF RweProto, Rwe
<1>3. RweProto[name] \in Byte
  BY DEF RweProto, Rwe, Byte
<1> QED BY <1>1, <1>2, <1>3 DEF EnumOf

LEMMA TypeRead ==
  ASSUME NEW name \in {"DIR", "REGULAR"}
  PROVE  TypeProto[name] \in Byte /\ EnumOf(TypeProto, TypeProto[name]) = name
<1>1. DOMAIN TypeProto = {"DIR", "REGULAR"}
  BY DEF TypeProto
<1>2. \A other \in {"DIR", "REGULAR"} :
        TypeProto[other] = TypeProto[name] => other = name
  BY DEF TypeProto
<1>3. TypeProto[name] \in Byte
  BY DEF TypeProto, Byte
<1> QED BY <1>1, <1>2, <1>3 DEF EnumOf

\* A mode comes back from protobuf as it went.
LEMMA ModeRead ==
  ASSUME NEW m \in Modes
  PROVE  from_proto(gen_proto(m)) = m
<1>1. /\ EnumOf(RweProto, RweProto[m.user]) = m.user
      /\ EnumOf(RweProto, RweProto[m.group]) = m.group
      /\ EnumOf(RweProto, RweProto[m.other]) = m.other
  BY RweRead DEF Modes
<1>2. EnumOf(TypeProto, TypeProto[m.type]) = m.type
  BY TypeRead DEF Modes
<1>3. from_proto(gen_proto(m)) = [user |-> m.user, group |-> m.group,
                                  other |-> m.other, type |-> m.type]
  BY <1>1, <1>2 DEF from_proto, gen_proto
<1> QED BY <1>3 DEF Modes

\* The three bits of a class of users come back as they were asked for: the
\* tests of user_mode_from_mode_t and its like are in an order that loses none.
LEMMA BitsKept ==
  ASSUME NEW mode, NEW who \in {User, Group, Other}
  PROVE  rwe_to_mode_t(rwe_from_mode_t(mode, who), who)
           = mode \cap {R(who), W(who), X(who)}
<1>1. CASE R(who) \in mode /\ W(who) \in mode
  BY <1>1 DEF rwe_to_mode_t, rwe_from_mode_t
<1>2. CASE R(who) \in mode /\ W(who) \notin mode
  BY <1>2 DEF rwe_to_mode_t, rwe_from_mode_t
<1>3. CASE R(who) \notin mode /\ W(who) \in mode
  BY <1>3 DEF rwe_to_mode_t, rwe_from_mode_t
<1>4. CASE R(who) \notin mode /\ W(who) \notin mode
  BY <1>4 DEF rwe_to_mode_t, rwe_from_mode_t
<1> QED BY <1>1, <1>2, <1>3, <1>4

\* Whatever a user asks for, what it is told after the mode went through a
\* Stat, protobuf and the network is the type and the nine permission bits.
THEOREM ModeReported ==
  ASSUME NEW mode
  PROVE  to_mode_t(from_proto(gen_proto(ModeOf(mode)))) = Reported(mode)
<1>1. from_proto(gen_proto(ModeOf(mode))) = ModeOf(mode)
  BY ModeOfType, ModeRead
<1>2. to_mode_t(ModeOf(mode)) =
        type_to_mode(type_from_mode_t(mode))
          \cup (mode \cap {R(User), W(User), X(User)})
          \cup (mode \cap {R(Group), W(Group), X(Group)})
          \cup (mode \cap {R(Other), W(Other), X(Other)})
  BY BitsKept DEF to_mode_t, ModeOf
<1>3. PermissionBits = {R(User), W(User), X(User)} \cup {R(Group), W(Group), X(Group)}
                         \cup {R(Other), W(Other), X(Other)}
  BY DEF PermissionBits, R, W, X, User, Group, Other
<1>4. to_mode_t(ModeOf(mode)) = Reported(mode)
  BY <1>2, <1>3 DEF Reported
<1> QED BY <1>1, <1>4

=============================================================================
