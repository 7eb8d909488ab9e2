-------------------------------- MODULE Mode --------------------------------
(***************************************************************************)
(* Mode: the permissions and the type of an entry, converted from the      *)
(* mode_t of a call, to protobuf and back, and to the mode_t of an answer. *)
(*                                                                         *)
(* A mode_t is the set of its bits by number.  Three bits each for other,  *)
(* group and user start at 0, 3 and 6: execute, write, read.               *)
(***************************************************************************)
EXTENDS Integers

S_IFDIR == 14
S_IFREG == 15

Other == 0
Group == 3
User == 6

X(who) == who
W(who) == who + 1
R(who) == who + 2

PermissionBits == 0 .. 8

-----------------------------------------------------------------------------
(* From a mode_t.  ReadWriteExecute is the name of the enumerator. *)

\* Read alone is tested before read and execute.
ReadFirst(mode, who) ==
  IF {R(who), W(who), X(who)} \subseteq mode THEN "READ_WRITE_EXECUTE"
  ELSE IF {R(who), W(who)} \subseteq mode THEN "READ_WRITE"
  ELSE IF {R(who)} \subseteq mode THEN "READ"
  ELSE IF {R(who), X(who)} \subseteq mode THEN "READ_EXECUTE"
  ELSE IF {W(who), X(who)} \subseteq mode THEN "WRITE_EXECUTE"
  ELSE IF {W(who)} \subseteq mode THEN "WRITE"
  ELSE IF {X(who)} \subseteq mode THEN "EXECUTE"
  ELSE "NONE"

\* user_mode_from_mode_t, group_mode_from_mode_t, other_mode_from_mode_t: the
\* first test whose bits are all set decides.
rwe_from_mode_t(mode, who) ==
  IF {R(who), W(who), X(who)} \subseteq mode THEN "READ_WRITE_EXECUTE"
  ELSE IF {R(who), W(who)} \subseteq mode THEN "READ_WRITE"
  ELSE IF {R(who), X(who)} \subseteq mode THEN "READ_EXECUTE"
  ELSE IF {R(who)} \subseteq mode THEN "READ"
  ELSE IF {W(who), X(who)} \subseteq mode THEN "WRITE_EXECUTE"
  ELSE IF {W(who)} \subseteq mode THEN "WRITE"
  ELSE IF {X(who)} \subseteq mode THEN "EXECUTE"
  ELSE "NONE"

\* FileTypeFactory::from_mode_t; without either bit it throws.
CanType(mode) == {S_IFDIR, S_IFREG} \cap mode # {}
type_from_mode_t(mode) == IF S_IFDIR \in mode THEN "DIR" ELSE "REGULAR"

ModeOf(mode) ==
  [user |-> rwe_from_mode_t(mode, User),
   group |-> rwe_from_mode_t(mode, Group),
   other |-> rwe_from_mode_t(mode, Other),
   type |-> type_from_mode_t(mode)]

-----------------------------------------------------------------------------
(* To a mode_t *)

\* get_user_mode_t, get_group_mode_t, get_other_mode_t
rwe_to_mode_t(rwe, who) ==
  CASE rwe = "NONE" -> {}
    [] rwe = "READ" -> {R(who)}
    [] rwe = "READ_WRITE" -> {R(who), W(who)}
    [] rwe = "READ_EXECUTE" -> {R(who), X(who)}
    [] rwe = "READ_WRITE_EXECUTE" -> {R(who), W(who), X(who)}
    [] rwe = "WRITE" -> {W(who)}
    [] rwe = "WRITE_EXECUTE" -> {W(who), X(who)}
    [] rwe = "EXECUTE" -> {X(who)}

type_to_mode(type) == IF type = "DIR" THEN {S_IFDIR} ELSE {S_IFREG}

to_mode_t(m) ==
  type_to_mode(m.type)
    \cup rwe_to_mode_t(m.user, User)
    \cup rwe_to_mode_t(m.group, Group)
    \cup rwe_to_mode_t(m.other, Other)

-----------------------------------------------------------------------------
(* Protobuf: the numbers of the enumerators in block_data.proto *)

RweProto == [NONE |-> 2, READ |-> 3, READ_WRITE |-> 4, READ_EXECUTE |-> 5,
             READ_WRITE_EXECUTE |-> 6, WRITE |-> 7, WRITE_EXECUTE |-> 8,
             EXECUTE |-> 9]
TypeProto == [DIR |-> 2, REGULAR |-> 3]

gen_proto(m) ==
  <<RweProto[m.user], RweProto[m.group], RweProto[m.other], TypeProto[m.type]>>

\* The enumerator with a number; UNKNOWN, 1, throws and is never written.
EnumOf(numbers, n) == CHOOSE name \in DOMAIN numbers : numbers[name] = n

from_proto(p) ==
  [user |-> EnumOf(RweProto, p[1]),
   group |-> EnumOf(RweProto, p[2]),
   other |-> EnumOf(RweProto, p[3]),
   type |-> EnumOf(TypeProto, p[4])]

\* What a user is told of a mode it asked for: the type and the nine permission
\* bits.  Set-user-id, set-group-id and the sticky bit are not kept.
Reported(mode) == type_to_mode(type_from_mode_t(mode)) \cup (mode \cap PermissionBits)

=============================================================================
