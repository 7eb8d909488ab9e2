----------------------------- MODULE FileSystem -----------------------------
(***************************************************************************)
(* What BlockFuse promises to a user: a tree of named directories and      *)
(* files.  A path is the sequence of names below /.  Removing a directory  *)
(* removes what is in it.  A file keeps exactly what was written to it     *)
(* while it fits into one block; once it is larger its contents are left   *)
(* open.                                                                   *)
(***************************************************************************)
EXTENDS Integers, SequencesExt

CONSTANTS Paths,     \* paths operations may name
          Buffers,   \* what one write may carry
          Limit      \* bytes up to which contents are promised

VARIABLE tree        \* path -> directory or file, for the paths that exist

Directory == [kind |-> "dir", data |-> <<>>]
File(bytes) == IF Len(bytes) <= Limit THEN [kind |-> "file", data |-> bytes]
               ELSE [kind |-> "large", data |-> <<>>]

Init == tree = (<<>> :> Directory)

CanAdd(p) ==
  /\ p \notin DOMAIN tree
  /\ Front(p) \in DOMAIN tree
  /\ tree[Front(p)].kind = "dir"

Mkdir(p) == CanAdd(p) /\ tree' = tree @@ (p :> Directory)

Create(p) == CanAdd(p) /\ tree' = tree @@ (p :> File(<<>>))

Delete(p) ==
  /\ p \in DOMAIN tree
  /\ tree' = Restrict(tree, {q \in DOMAIN tree : ~ IsPrefix(p, q)})

\* The bytes of file s once buf has been written at offset.
Overwrite(s, buf, offset) ==
  [i \in 1 .. Max({Len(s), offset + Len(buf)}) |->
     IF i \in offset + 1 .. offset + Len(buf) THEN buf[i - offset] ELSE s[i]]

Write(p, buf, offset) ==
  /\ p \in DOMAIN tree
  /\ tree[p].kind = "file"
  /\ offset <= Len(tree[p].data)
  /\ tree' = [tree EXCEPT ![p] = File(Overwrite(@.data, buf, offset))]

Next ==
  \E p \in Paths \ {<<>>} :
    \/ Mkdir(p)
    \/ Create(p)
    \/ Delete(p)
    \/ \E buf \in Buffers, offset \in 0 .. Limit : Write(p, buf, offset)

Spec == Init /\ [][Next]_tree
=============================================================================
