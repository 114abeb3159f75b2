---------------------------- MODULE MCFsWatcher ----------------------------
(***************************************************************************)
(* An instance of FsWatcher for TLC: a directory that holds a persistent   *)
(* watch and a oneshot's target, which share a descriptor, and a file      *)
(* watched on its own.                                                     *)
(***************************************************************************)
EXTENDS FsWatcher

MCModified == {"dir_modified", "file_modified"}
MCOneshot == {"target"}
MCWdOf == [w \in MCModified \cup MCOneshot |-> IF w = "file_modified" THEN "file" ELSE "dir"]
=============================================================================
