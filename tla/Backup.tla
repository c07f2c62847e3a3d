------------------------------- MODULE Backup --------------------------------
(***************************************************************************)
(* One off-site backup at a time: the filesystem transaction in            *)
(* src/pkgs/emubox-restic-backup/emubox_restic_backup.py, the units that   *)
(* run it in src/modules/backups/default.nix, and the status report.       *)
(*                                                                         *)
(*   - the backup unit prepares (a read-only snapshot of /data, bound to a *)
(*     mountpoint, and an exclusion file), runs restic, prints its marker, *)
(*     and cleans up whatever happened;                                    *)
(*   - the reconcile unit removes what an interrupted backup left; it runs *)
(*     at boot before any backup, and whenever somebody starts it;         *)
(*   - the report asks the service manager for the unit's invocation and   *)
(*     result, and the journal for the marker of that invocation.          *)
(*                                                                         *)
(* Any command may fail, a helper may be killed between any two commands,  *)
(* and power may be lost at any time; /run does not survive it.            *)
(***************************************************************************)
EXTENDS Naturals

CONSTANTS
  Cache,          \* declared exclusions: cache paths below the player's home
  Place,          \* places under /data, and elsewhere, that they may lead to
  Home,           \* those in the player's home, itself included
  Root,           \* the protected roots: what a backup is of
  Own,            \* where each cache path leads with no link on its way
  MaxRuns,        \* bound: activations of the backup unit
  MaxReconciles,  \* bound: starts of the reconcile unit besides the boot's
  MaxPowerLosses, \* bound: power losses
  MaxLinks        \* bound: links the player makes or removes

ASSUME BackupAssumption ==
  MaxRuns \in Nat /\ MaxReconciles \in Nat /\ MaxPowerLosses \in Nat /\ MaxLinks \in Nat

\* The build refuses a declared path that is not strictly below the home, or declared twice.
ASSUME CacheAssumption ==
  /\ Home \subseteq Place /\ Root \subseteq Place
  /\ Own \in [Cache -> Home \ Root]
  /\ \A c, d \in Cache : c # d => Own[c] # Own[d]

Units == {"backup", "reconcile"}
Runs  == 0..MaxRuns                 \* activations, in order; 0 stands for none

VARIABLES
  \* Files.  A snapshot is named by the activation that took it.
  snapshot,  \* the transient snapshot
  dir,       \* the mountpoint is there
  bind,      \* what is bound to it: "none", "rw" or "ro"
  source,    \* the snapshot that is bound
  links,     \* where the cache paths lead in the live home
  held,      \* and where they lead in the snapshot
  excluded,  \* the activation that wrote the exclusion file
  dropped,   \* the places in that file
  \* The service manager.
  pc,        \* the command each unit is at
  cleaning,  \* the backup unit is at its ExecStopPost
  inv,       \* its InvocationID
  result,    \* its Result
  \* What lasts.
  stored,    \* activations whose backup is in the repository
  evidence,  \* activations whose marker is in the journal
  failed,    \* activations that ended as failed
  \* The status report.
  askPc,     \* its query
  askInv,    \* the invocation it was told
  askResult, \* the result it was told
  reported,  \* the activation its last line called a success
  \* Bounds.
  runs, reconciles, powerLosses, linkings

exclusions == <<held, excluded, dropped>>
home     == <<links, linkings>>
files    == <<snapshot, dir, bind, source, exclusions>>
manager  == <<cleaning, inv, result>>
lasting  == <<stored, evidence, failed>>
report   == <<askPc, askInv, askResult, reported>>
bounds   == <<runs, reconciles, powerLosses>>
vars     == <<files, home, pc, manager, lasting, report, bounds>>

-----------------------------------------------------------------------------
(* How a unit goes on.                                                     *)

Goes(u, from, to) ==
  /\ pc[u] = from
  /\ pc' = [pc EXCEPT ![u] = to]

\* The backup's helper, restic or the marker has failed: on to the cleanup.
Fails ==
  /\ pc' = [pc EXCEPT !["backup"] = "look"]
  /\ cleaning' = TRUE
  /\ result' = "failed"
  /\ failed' = failed \cup {inv}
  /\ UNCHANGED inv

\* Mutant of StopFails: a cleanup that fails leaves the result alone.
MutStopFails ==
  /\ pc' = [pc EXCEPT !["backup"] = "idle"]
  /\ cleaning' = FALSE
  /\ UNCHANGED <<inv, result, failed>>

\* The cleanup itself has failed.
StopFails ==
  /\ pc' = [pc EXCEPT !["backup"] = "idle"]
  /\ cleaning' = FALSE
  /\ result' = "failed"
  /\ failed' = failed \cup {inv}
  /\ UNCHANGED inv

\* What follows a reconciliation: nothing, the snapshot, or the rest of the cleanup.
AfterReconcile(u) ==
  IF u = "reconcile" THEN "idle" ELSE IF cleaning THEN "unlink" ELSE "snapshot"

-----------------------------------------------------------------------------
(* reconcile(): the same commands in prepare, in cleanup and at boot.  It  *)
(* holds no lock.                                                          *)

LookMount(u) ==
  /\ pc[u] = "look"
  /\ pc' = [pc EXCEPT ![u] = IF bind = "none" THEN "rmdir" ELSE "umount"]
  /\ UNCHANGED <<files, manager, lasting, report, bounds>>

Umount(u) ==
  /\ bind # "none"
  /\ Goes(u, "umount", "rmdir")
  /\ bind' = "none"
  /\ source' = 0
  /\ UNCHANGED <<snapshot, dir, exclusions, manager, lasting, report, bounds>>

\* A mountpoint that somebody has bound again is not empty, and stays.
RemoveDir(u) ==
  /\ Goes(u, "rmdir", "glob")
  /\ dir' = (dir /\ bind # "none")
  /\ UNCHANGED <<snapshot, bind, source, exclusions, manager, lasting, report, bounds>>

LookSnapshot(u) ==
  /\ pc[u] = "glob"
  /\ pc' = [pc EXCEPT ![u] = IF snapshot = 0 THEN AfterReconcile(u) ELSE "delete"]
  /\ UNCHANGED <<files, manager, lasting, report, bounds>>

DeleteSnapshot(u) ==
  /\ snapshot # 0
  /\ Goes(u, "delete", AfterReconcile(u))
  /\ snapshot' = 0
  /\ UNCHANGED <<dir, bind, source, exclusions, manager, lasting, report, bounds>>

\* The command refuses: what it names is busy, or gone by now.
ReconcileFails(u) ==
  /\ pc[u] \in {"umount", "delete"}
  /\ IF u = "reconcile"
     THEN pc' = [pc EXCEPT ![u] = "idle"] /\ UNCHANGED <<manager, failed>>
     ELSE IF cleaning THEN StopFails ELSE Fails
  /\ UNCHANGED <<files, stored, evidence, report, bounds>>

Reconcile(u) ==
  \/ LookMount(u) \/ Umount(u) \/ RemoveDir(u) \/ LookSnapshot(u) \/ DeleteSnapshot(u)
  \/ ReconcileFails(u)

-----------------------------------------------------------------------------
(* The backup unit: prepare.                                               *)

\* An activation gets a new identity and a result of success to begin with.  It waits for a
\* reconcile unit that is being started.
Activate ==
  /\ pc["reconcile"] = "idle"
  /\ runs < MaxRuns
  /\ Goes("backup", "idle", "open")
  /\ runs' = runs + 1
  /\ inv' = runs + 1
  /\ result' = "success"
  /\ UNCHANGED <<files, cleaning, lasting, report, reconciles, powerLosses>>

\* The repository opens, or is created where restic says there is none.
OpenRepository ==
  /\ Goes("backup", "open", "look")
  /\ UNCHANGED <<files, manager, lasting, report, bounds>>

RepositoryFails ==
  /\ pc["backup"] = "open"
  /\ Fails
  /\ UNCHANGED <<files, stored, evidence, report, bounds>>

TakeSnapshot ==
  /\ snapshot = 0
  /\ Goes("backup", "snapshot", "mkdir")
  /\ snapshot' = inv
  /\ held' = links
  /\ UNCHANGED <<dir, bind, source, excluded, dropped, manager, lasting, report, bounds>>

MakeDir ==
  /\ ~dir
  /\ Goes("backup", "mkdir", "mount")
  /\ dir' = TRUE
  /\ UNCHANGED <<snapshot, bind, source, exclusions, manager, lasting, report, bounds>>

BindSnapshot ==
  /\ dir
  /\ snapshot # 0
  /\ Goes("backup", "mount", "remount")
  /\ bind' = "rw"
  /\ source' = snapshot
  /\ UNCHANGED <<snapshot, dir, exclusions, manager, lasting, report, bounds>>

Remount ==
  /\ bind # "none"
  /\ Goes("backup", "remount", "exclude")
  /\ bind' = "ro"
  /\ UNCHANGED <<snapshot, dir, source, exclusions, manager, lasting, report, bounds>>

\* The source can be read: it is bound, and its snapshot has not been deleted under it.
Readable == bind # "none" /\ source = snapshot

\* Mutant of Resolved: the links are followed in the live home.
MutResolved == IF Readable THEN links ELSE Own

\* Where the cache paths lead in the source; in one that was taken away nothing is a link.
Resolved == IF Readable THEN held ELSE Own

Places(lead) == {lead[c] : c \in Cache}

\* None leads out of the home, to a protected root, or where another leads.
Acceptable(lead) ==
  /\ \A c \in Cache : lead[c] \in Home \ Root
  /\ \A c, d \in Cache : c # d => lead[c] # lead[d]

\* Mutant of WriteExclusions: a file that is there already is kept.
MutWriteExclusions ==
  /\ Acceptable(Resolved)
  /\ Goes("backup", "exclude", "restic")
  /\ IF excluded = 0 THEN excluded' = inv /\ dropped' = Places(Resolved)
     ELSE UNCHANGED <<excluded, dropped>>
  /\ UNCHANGED <<snapshot, held, dir, bind, source, manager, lasting, report, bounds>>

\* The exclusions are resolved in the source and written.
WriteExclusions ==
  /\ Acceptable(Resolved)
  /\ Goes("backup", "exclude", "restic")
  /\ excluded' = inv
  /\ dropped' = Places(Resolved)
  /\ UNCHANGED <<snapshot, held, dir, bind, source, manager, lasting, report, bounds>>

\* A command of the transaction fails, or an exclusion is refused: what it made is unwound.
PrepareFails ==
  /\ pc["backup"] \in {"snapshot", "mkdir", "mount", "remount", "exclude"}
  /\ pc' = [pc EXCEPT !["backup"] =
              IF pc["backup"] \in {"remount", "exclude"} THEN "undoMount" ELSE "undoSnapshot"]
  /\ UNCHANGED <<files, manager, lasting, report, bounds>>

UndoMount ==
  /\ Goes("backup", "undoMount", "undoSnapshot")
  /\ bind' = "none"
  /\ source' = 0
  /\ UNCHANGED <<snapshot, dir, exclusions, manager, lasting, report, bounds>>

UndoSnapshot ==
  /\ Goes("backup", "undoSnapshot", "undoExclusions")
  /\ snapshot' = 0
  /\ UNCHANGED <<dir, bind, source, exclusions, manager, lasting, report, bounds>>

UndoExclusions ==
  /\ pc["backup"] = "undoExclusions"
  /\ excluded' = 0 /\ dropped' = {}
  /\ Fails
  /\ UNCHANGED <<snapshot, held, dir, bind, source, stored, evidence, report, bounds>>

\* A command of the unwinding fails, and the rest of it is left to the cleanup.
UndoFails ==
  /\ \/ pc["backup"] = "undoMount" /\ bind # "none"
     \/ pc["backup"] = "undoSnapshot" /\ snapshot # 0
  /\ Fails
  /\ UNCHANGED <<files, stored, evidence, report, bounds>>

Prepare ==
  \/ Activate \/ OpenRepository \/ RepositoryFails
  \/ TakeSnapshot \/ MakeDir \/ BindSnapshot \/ Remount \/ WriteExclusions
  \/ PrepareFails \/ UndoMount \/ UndoSnapshot \/ UndoExclusions \/ UndoFails

-----------------------------------------------------------------------------
(* The backup unit: restic, the marker, the cleanup.                       *)

\* External: restic waits for the repository's lock, then reads the source to its end.
ResticReads ==
  /\ Readable
  /\ Goes("backup", "restic", "send")
  /\ UNCHANGED <<files, manager, lasting, report, bounds>>

ResticStores ==
  /\ Goes("backup", "send", "mark")
  /\ stored' = stored \cup {inv}
  /\ UNCHANGED <<files, manager, evidence, failed, report, bounds>>

\* No lock, no network, no source: any other status than success.
ResticFails ==
  /\ pc["backup"] \in {"restic", "send"}
  /\ Fails
  /\ UNCHANGED <<files, stored, evidence, report, bounds>>

\* The marker names the repository and the newest snapshot in it, and the invocation.
PrintMarker ==
  /\ Goes("backup", "mark", "look")
  /\ cleaning' = TRUE
  /\ evidence' = evidence \cup {inv}
  /\ UNCHANGED <<files, inv, result, stored, failed, report, bounds>>

MarkerFails ==
  /\ pc["backup"] = "mark"
  /\ Fails
  /\ UNCHANGED <<files, stored, evidence, report, bounds>>

\* A timeout or a stop: the helper dies where it is and unwinds nothing.
Killed ==
  /\ pc["backup"] # "idle"
  /\ IF cleaning THEN StopFails ELSE Fails
  /\ UNCHANGED <<files, stored, evidence, report, bounds>>

\* The cleanup ends with the exclusion file.
RemoveExclusions ==
  /\ Goes("backup", "unlink", "idle")
  /\ excluded' = 0 /\ dropped' = {}
  /\ cleaning' = FALSE
  /\ UNCHANGED <<snapshot, held, dir, bind, source, inv, result, lasting, report, bounds>>

Backup ==
  \/ ResticReads \/ ResticStores \/ ResticFails \/ PrintMarker \/ MarkerFails
  \/ Killed \/ RemoveExclusions

-----------------------------------------------------------------------------
(* The surroundings.                                                       *)

\* The reconcile unit is started again: by an administrator, or by a switch of the configuration,
\* which starts what multi-user.target wants.  Its order before the backup unit delays the start
\* of that unit and not its own.
StartReconcile ==
  /\ reconciles < MaxReconciles
  /\ Goes("reconcile", "idle", "look")
  /\ reconciles' = reconciles + 1
  /\ UNCHANGED <<files, manager, lasting, report, runs, powerLosses>>

\* Power is lost: /run is gone, the snapshot is not, and the boot starts the reconcile unit.
PowerLoss ==
  /\ powerLosses < MaxPowerLosses
  /\ powerLosses' = powerLosses + 1
  /\ dir' = FALSE /\ bind' = "none" /\ source' = 0 /\ excluded' = 0 /\ dropped' = {}
  /\ pc' = [u \in Units |-> IF u = "reconcile" THEN "look" ELSE "idle"]
  /\ cleaning' = FALSE /\ inv' = 0 /\ result' = "success"
  /\ askPc' = "idle" /\ askInv' = 0 /\ askResult' = "success" /\ reported' = 0
  /\ UNCHANGED <<snapshot, held, lasting, runs, reconciles>>

\* The player makes a cache path, or a directory on its way, a link, or puts it back.
PlayerLinks ==
  /\ linkings < MaxLinks
  /\ linkings' = linkings + 1
  /\ \E c \in Cache, p \in Place : links' = [links EXCEPT ![c] = p]
  /\ UNCHANGED <<files, pc, manager, lasting, report, bounds>>

-----------------------------------------------------------------------------
(* The status report.                                                      *)

AskInvocation ==
  /\ askPc = "idle"
  /\ askPc' = "result"
  /\ askInv' = inv
  /\ UNCHANGED <<files, pc, manager, lasting, askResult, reported, bounds>>

AskResult ==
  /\ askPc = "result"
  /\ askPc' = "journal"
  /\ askResult' = result
  /\ UNCHANGED <<files, pc, manager, lasting, askInv, reported, bounds>>

\* Mutant of Healthy: any marker in the journal will do.
MutHealthy == askInv # 0 /\ askResult = "success" /\ evidence # {}

\* layer_health: a run, its success, and the one marker that is its own.
Healthy == askInv # 0 /\ askResult = "success" /\ askInv \in evidence

\* The line is printed: OK with the invocation it speaks of, or a warning.
AskJournal ==
  /\ askPc = "journal"
  /\ askPc' = "idle"
  /\ reported' = IF Healthy THEN askInv ELSE 0
  /\ UNCHANGED <<files, pc, manager, lasting, askInv, askResult, bounds>>

Report == AskInvocation \/ AskResult \/ AskJournal

-----------------------------------------------------------------------------
(* The specification.                                                      *)

\* A boot that finds nothing; the boot's reconcile unit is about to run.
Init ==
  /\ snapshot = 0 /\ dir = FALSE /\ bind = "none" /\ source = 0
  /\ links = Own /\ held = Own /\ excluded = 0 /\ dropped = {}
  /\ pc = [u \in Units |-> IF u = "reconcile" THEN "look" ELSE "idle"]
  /\ cleaning = FALSE /\ inv = 0 /\ result = "success"
  /\ stored = {} /\ evidence = {} /\ failed = {}
  /\ askPc = "idle" /\ askInv = 0 /\ askResult = "success" /\ reported = 0
  /\ runs = 0 /\ reconciles = 0 /\ powerLosses = 0 /\ linkings = 0

BackupUnit == Prepare \/ Backup \/ Reconcile("backup")

Next ==
  \/ /\ BackupUnit \/ Reconcile("reconcile") \/ StartReconcile \/ PowerLoss \/ Report
     /\ UNCHANGED home
  \/ PlayerLinks

Spec == Init /\ [][Next]_vars

-----------------------------------------------------------------------------
(* Properties.                                                             *)

ReconcilePcs == {"idle", "look", "umount", "rmdir", "glob", "delete"}

BackupPcs == ReconcilePcs \cup
  {"open", "snapshot", "mkdir", "mount", "remount", "exclude", "undoMount", "undoSnapshot",
   "undoExclusions", "restic", "send", "mark", "unlink"}

UnitsTypeOK ==
  /\ snapshot \in Runs /\ source \in Runs /\ excluded \in Runs
  /\ bind \in {"none", "rw", "ro"}
  /\ dir \in BOOLEAN
  /\ pc \in [Units -> BackupPcs]
  /\ pc["reconcile"] \in ReconcilePcs
  /\ cleaning \in BOOLEAN
  /\ inv \in Runs /\ askInv \in Runs /\ reported \in Runs
  /\ result \in {"success", "failed"} /\ askResult \in {"success", "failed"}
  /\ stored \subseteq Runs /\ evidence \subseteq Runs /\ failed \subseteq Runs
  /\ askPc \in {"idle", "result", "journal"}
  /\ runs \in Runs /\ reconciles \in 0..MaxReconciles /\ powerLosses \in 0..MaxPowerLosses

LinksTypeOK ==
  /\ links \in [Cache -> Place] /\ held \in [Cache -> Place] /\ dropped \subseteq Place
  /\ linkings \in 0..MaxLinks

\* The variables stay within their intended ranges.
TypeOK == UnitsTypeOK /\ LinksTypeOK

\* What restic finds bound, if anything, is the snapshot of its own activation, read-only, and
\* the exclusions are those resolved in it; whatever earlier activations left behind.
FreshSource ==
  pc["backup"] = "restic" /\ bind # "none" =>
    bind = "ro" /\ source = inv /\ excluded = inv /\ snapshot \in {0, inv}

\* What restic leaves out of a source it can read is where that very snapshot's cache paths lead,
\* and no protected root: links that the player turns while a backup is prepared change nothing.
RootsAreKept ==
  pc["backup"] = "restic" /\ Readable =>
    dropped = Places(held) /\ dropped \cap Root = {}

\* An activation that is over and not reported as failed has left nothing behind.
NothingLeft ==
  pc = [u \in Units |-> "idle"] /\ inv # 0 /\ result = "success" =>
    snapshot = 0 /\ bind = "none" /\ ~dir /\ excluded = 0

\* The report never calls a backup a success that is not in the repository.
OkMeansStored == reported # 0 => reported \in stored

\* An activation that printed its marker and then failed in its cleanup is not taken for a
\* success once it has failed.  The report breaks this when the next activation starts between
\* its two queries: the result it is told is that one's.
FailureIsTold ==
  [][AskResult /\ askInv \in evidence /\ askInv \in failed => askResult' = "failed"]_vars

\* Short of that, it is told: a report that asks for the result while the activation it was told
\* of is still the last one never gets a success of an activation that has failed.
OwnFailureIsTold ==
  [][AskResult /\ askInv = inv /\ askInv \in failed => askResult' = "failed"]_vars

-----------------------------------------------------------------------------
(* The inductive invariant.                                                *)

\* What the transaction has made by each of its commands.  The reconcile unit can only take
\* away from it.
SourceInv ==
  /\ bind = "none" <=> source = 0
  /\ bind # "none" => dir
  /\ pc["backup"] \in {"rmdir", "glob", "delete", "snapshot", "mkdir", "mount", "unlink"} =>
       bind = "none"
  /\ pc["backup"] \in {"glob", "delete", "snapshot", "mkdir", "unlink"} => ~dir
  /\ pc["backup"] \in {"snapshot", "unlink"} => snapshot = 0
  /\ pc["backup"] \in {"mkdir", "mount", "remount", "exclude", "restic"} => snapshot \in {0, inv}
  /\ pc["backup"] \in {"remount", "exclude", "restic"} => source \in {0, inv}
  /\ pc["backup"] \in {"exclude", "restic"} => bind # "rw"
  /\ pc["backup"] = "restic" => excluded = inv

\* The end of an activation, and what it says of it.
EndInv ==
  /\ cleaning => pc["backup"] \in {"look", "umount", "rmdir", "glob", "delete", "unlink"}
  /\ pc["backup"] = "unlink" => cleaning
  /\ pc["backup"] # "idle" => inv # 0
  /\ pc["backup"] = "idle" /\ inv # 0 /\ result = "success" =>
       snapshot = 0 /\ bind = "none" /\ ~dir /\ excluded = 0

\* A marker is in the journal only of a backup that is in the repository.
EvidenceInv ==
  /\ pc["backup"] = "mark" => inv \in stored
  /\ evidence \subseteq stored
  /\ reported # 0 => reported \in evidence

\* No activation has failed that has not begun, and the last one's failure is in its result.
FailedInv ==
  /\ failed \subseteq 1..runs /\ inv \in 0..runs
  /\ inv \in failed => result = "failed"

BackupInv == TypeOK /\ SourceInv /\ EndInv /\ EvidenceInv /\ RootsAreKept
=============================================================================
