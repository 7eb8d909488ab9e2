--------------------------- MODULE MCDistributed ----------------------------
(* Distributed for TLC. *)
EXTENDS Distributed

\* Different permissions for each class of users, and the set-user-id bit.
MCModeBits == {{R(User), X(User), R(Group), W(Group), W(Other), X(Other), 11}}

\* A short file, and one whose sum is 2^17 - 1 in the first block node 0 makes
\* after its root.
MCContents == {<<1>>, <<0, 255, 255, 242, 201>>}
=============================================================================
