------------------------------ MODULE MCLibrary ------------------------------
(* Small instances of Library for TLC.                                     *)
EXTENDS Library, TLC

\* Folders are interchangeable where every one of them is mapped and none removable.  Used by
\* a safety run only.
FolderSymmetry == Permutations(Folder)
=============================================================================
