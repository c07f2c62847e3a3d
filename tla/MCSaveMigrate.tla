---------------------------- MODULE MCSaveMigrate ----------------------------
(* Small instances of SaveMigrate for TLC.                                 *)
EXTENDS SaveMigrate
CONSTANTS d, x
\* A directory with an entry in it.
DirOnly == [p \in {d, x} |-> IF p = x THEN {d} ELSE {}]
=============================================================================
