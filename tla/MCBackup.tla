------------------------------- MODULE MCBackup ------------------------------
(* A small instance of Backup for TLC.                                     *)
EXTENDS Backup

\* The home, a cache path and an unlisted directory in it, and another protected root.
CONSTANTS player, cache, config, saves

MCOwn == [c \in Cache |-> c]
=============================================================================
