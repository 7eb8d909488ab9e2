--------------------------- MODULE MCFuseThreads ----------------------------
(***************************************************************************)
(* FuseThreads for TLC.  A behaviour explores the tree in one of two ways. *)
(* Wide: three calls of any kind on paths of up to two names, a directory  *)
(* and an entry in it.  Deep: five calls, out of six on one branch of      *)
(* three names, enough to remove the directory above the parent of a mkdir *)
(* under way, make it anew, and create something else at the parent's      *)
(* path.                                                                   *)
(***************************************************************************)
EXTENDS FuseThreads

VARIABLE way    \* "wide" or "deep", from the beginning on

WideCalls == 3
WideDepth == 2

Parent == <<DirName, FileName>>

DeepCalls ==
  {<<"mkdir", <<DirName>>>>, <<"rmdir", <<DirName>>>>,
   <<"mkdir", Parent>>, <<"create", Parent>>, <<"write", Parent>>,
   <<"mkdir", Append(Parent, DirName)>>}

\* What may begin.
Allowed(op, path) ==
  \/ way = "wide" /\ calls < WideCalls /\ Len(path) <= WideDepth
  \/ way = "deep" /\ <<op, path>> \in DeepCalls

MCNext ==
  /\ Next
  /\ \A t \in Threads :
       th[t].pc = "idle" /\ th'[t].pc # "idle" => Allowed(th'[t].op, th'[t].path)
  /\ UNCHANGED way

MCInit == Init /\ way \in {"wide", "deep"}

DeepInit == Init /\ way = "deep"

\* With way left out, behaviours of Spec.
MCSpec == MCInit /\ [][MCNext]_<<vars, way>> /\ Fairness

DeepSpec == DeepInit /\ [][MCNext]_<<vars, way>> /\ Fairness
=============================================================================
