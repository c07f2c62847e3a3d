# Verification of emubox

emubox is a NixOS appliance: a kiosk session that runs a game frontend (ES-DE) and, on request, a
desktop; a game-library tool that scrapes artwork and regenerates the frontend's gamelists; a
backup helper around restic; a migration of legacy save directories; a step that prepares
emulator settings before every launch; and small status reporters. This directory holds TLA+
models of that code, TLC configurations that check them on small instances, and TLAPS proofs.

Paths below are relative to `src/` unless they name a module of this directory.

## 1. Inventory

| Component | State it keeps | Operations | Talks to |
|---|---|---|---|
| **Game library** `pkgs/emubox-library/library.py`, `modules/library/default.nix` | `pending`, `revisions.json`, `last-run.json`, live gamelists, one work area per folder, the claim (an `flock`) | `scrape`, `generate`, `capture`, `cleanup`, `report`; the session's pre-frontend step | Skyscraper (child process that inherits the claim's descriptor), the session, ES-DE (rewrites gamelists), the family (ROM folders) |
| **Kiosk session and Tools entry** `modules/kiosk/default.nix`, `modules/library/default.nix:11-31` | crash counter, per-session restart mark, one-shot desktop flag, shell traps | the frontend loop, the desktop block, the Tools entry's restart request | library step, prepare, ES-DE, Plasma, SDDM |
| **Recovery** `modules/recovery/default.nix` | the mode flag | `emubox-mode` status / switch, the session's `clear` | kiosk session, display manager |
| **Restic backup** `pkgs/emubox-restic-backup/emubox_restic_backup.py`, `modules/backups/default.nix` | bind mount and btrfs snapshot, lock, exclusion file, per-layer markers | `prepare`, `cleanup`, `reconcile`, `initialize`, `status`; units, timers | systemd, restic, btrbk |
| **Save migration** `pkgs/emubox-save-migrate/emubox_save_migrate.py`, `modules/saves/default.nix` | legacy and save trees | preflight, moves; bind mounts that follow | initrd persistence, display manager |
| **Prepare** `pkgs/emubox-prepare/emubox_prepare.py` | owned settings files, custom-systems file, RetroAchievements token cache | one editor per file format, token resolution, credential removal | kiosk session, RetroAchievements API |
| **Status** `pkgs/emubox-status/emubox_status.py` | none | run each reporter with a timeout, worst status | reporters |
| **Controllers** `pkgs/emubox-controllers-status/...`, `modules/controllers/default.nix` | none | classify joysticks and ports | udev |
| **BIOS check** `pkgs/emubox-check-bios/emubox_check_bios.py` | none | digest and classify files | status |
| **Persistence** `modules/persistence/default.nix` | root subvolume, persisted directories, machine-id | initrd units | saves, systemd |
| Emulator declarations, hardware, networking, secrets, build and install glue, packaged third-party software | - | declarations | - |

What is hard, by component, and what makes it correct:

* **Library.** Any number of scrape commands (from the frontend or an admin's shell), the generator
  and the session contend for one non-blocking claim; every one of them may be killed, hung up
  on, or lose power between two file writes; children outlive killed parents and keep the claim;
  the frontend rewrites gamelists the generator copied. Correct means: one holder at a time; a
  folder recorded as fetched is still pending; a folder leaves the pending list only for an
  attempt younger than its newest fetch and only after its outcome is recorded; a folder that
  cannot be generated delays the frontend once; no gamelist is rolled back; the frontend is
  always reached.
* **Kiosk.** Exits, signals and requests race: the frontend may exit on its own while the Tools
  entry asks for a restart, the mark must excuse one exit only, three quick crashes must end in
  the greeter and nothing may end in a black screen; the desktop's pid is unknown for a moment
  in which a TERM may arrive; the flag is cleared by another process.
* **Backup.** A transaction of mount, snapshot, exclusions and lock over a crash at any step, the
  boot's reconcile, a cleanup that does not take the lock, retries against a repository lock,
  and a status report that pairs a unit's invocation with a result.
* **Save migration.** A crash between any two moves, a retry at the next boot, and bind mounts
  that would hide what was not moved.
* **Prepare.** Atomic rewrites, a cached token that may outlive the account name it belongs to,
  and removal of credentials that must go on when one file fails.
* **Status, controllers.** One command runs the reporters one after the other. Each may hang, be
  killed, fork a worker that outlives it or be stuck in the kernel; devices come and go while they
  are read. Correct means: a partial report never passes for a healthy one, no reporter hides
  another's finding, and the command ends.
* **Persistence.** The root is deleted at every boot, by units that the service manager starts
  twice, before what must last is bound into it. Correct means: what is mounted is never an old
  root and never deleted, and the system never starts without its persisted state.
* **BIOS check.** Sequential and stateless.

`PROJECT.json` lists every hazard at its line with the properties that cover it.

## 2. Plan

What was built, in the order of importance, and what is left of each. Every module is
parameterised by constants, has one action per operation, and a module of proofs beside it.

| Module | Models | Abstract specification | Left |
|---|---|---|---|
| **Library** | scrapes, generator and the session's step around one claim | **FolderLife**: one folder's life | the merge of two concrete gamelists |
| **Kiosk** | the session's script, the mode flag, the Tools entry, the display manager | **Screen**: what the TV shows | - |
| **Backup** | the backup and reconcile units, the report's backup layer | - | the maintenance and local layers, freshness, the time budgets |
| **SaveMigrate** | two trees of files, the preflight, the moves, crashes and retries | - | - |
| **OwnedFile**, **Prepare** | the editors of a settings file as operators; runs of prepare, the token, the removal of credentials | - | the editors of concrete lines, the refusal of malformed documents |
| **Status** | the status command; composes **LibraryReport** and **ControllersReport** | - | the inside of the backups' report is in Backup |
| **Boot** | the initrd's units; composes SaveMigrate | SaveMigrate itself | stage 2's bind mounts |

How they hang together: Boot ends where a frontend may start, and Kiosk begins there. Kiosk's
`PreFrontendStep` is the session's step of Library, and its `Prepare` is a run of module Prepare:
there each is one step, because what it does besides taking time does not touch the kiosk's state.
Status runs LibraryReport, which reads what Library writes; its fields are messages there.

## 3. Library

### State

| Variables | Code |
|---|---|
| `pending`, `revision`, `result`, `outcome` | the files `pending`, `revisions.json`, `last-run.json` (its run result and its per-folder outcomes) |
| `issued` | `uuid4` of a fetch, as a counter: it never repeats |
| `gamelist[f]` | how many of the frontend's writes the live gamelist carries, and whether it parses |
| `work` | folders with a work area |
| `roms` | folders under the ROM root |
| `child[p]` | the scraper child of `p`: none, attached, or orphan (its parent was killed) |
| `scrapePc`, `scrapeTodo`, `scrapeCur`, `scrapeOut` | one scrape command's control point, folders left, folder in hand, outcomes so far |
| `genPc`, `genTodo`, `genCur`, `genOut`, `genCopy` | the generator's control point, plan, folder, outcome, copied gamelist |
| `sesPc`, `revs`, `taken`, `batch`, `toClean`, `cleanCur`, `deferred`, `cleaned` | the session's step: where it is, what capture printed, what cleanup has left to do |
| `newer` | history only: folders a fetch stored something for since they were captured or taken up |

The claim is not a variable. The kernel keeps a `flock` while any descriptor of it is open, so
`Pins(p)` says `p` is in its locked section or a child that inherited its descriptor lives, and
`ClaimFree` is what `LOCK_EX | LOCK_NB` finds.

### Actions

Scrape: `ScrapeLock`, `ScrapeRefuse`/`ScrapeRecordRefusal` (unusable credentials),
`ScrapeDiscover`, `ScrapePassOver` (unmapped folder), `ScrapeSpawn`, `ScrapeFetched`,
`ScrapeFetchFails`, then identity, pending list and outcome one write at a time (`ScrapeRevise`,
`ScrapeMark`, `ScrapeNote`), `ScrapeSettle`, `ScrapeRecord`. `ScrapeInterrupt` and `ScrapeDies`
are possible at every point the code leaves them possible.

Generator: `GenRefused` (exit 75), `GenLock`, `GenPlan`, `GenPassOver`, `GenCopy`, `GenSpawn`,
`GenInvoked`, `GenFails`, `GenPublish`, `GenRecord`, `GenUnmark`, `GenExit`; `GenTerminated` (the
default action of a signal except while the child runs), `GenUnwound`, `GenDies`.

Session: capture (`CaptureLock` ... `CapturePending`, or `CaptureFails`), the window
(`OpenWindow`, `WindowFails`, `WindowCloses`, `WindowExpires`), cleanup (`CleanupLock` ...
`CleanupDone`, or `CleanupFails`), the frontend and the next iteration. Surroundings:
`FrontendWrites`, `FamilyChangesRoms`, `OrphanEnds`, `SessionReplaced`, `PowerLoss`.

### Abstractions

* Every state file is replaced by an atomic rename; a completed rename survives a power loss.
* A clock is not kept: a deadline may expire at every step that tests it.
* The window's end and the hangup of the generator are one step. The generator cannot take another
  step in the time a hangup needs to reach it that it could not also take before.
* A gamelist is its family data: the merge of two lists is the family's writes it carries.
* A state file is always what one of the writes left, whole. One that something else spoiled, which the code
  reads as empty (`library.py:150-156`), is not modelled.
* A session that is replaced is followed by another. Whether the display manager brings one is Kiosk's (section 4).

### Runs

| Run | Instance | What it shows |
|---|---|---|
| `claim` | two scrape commands, one folder that the family may delete and copy back, two fetches, one frontend edit, fairness | `ClaimExclusive`: two commands never share the cache or the state files, orphaned children included. `WorkOutlivesChild`: no work area goes from under a child of the generator's, an orphan included. `FamilyDataKept`: no generation rolls a gamelist back. `FrontendReached`, `GenerationEnds`: whoever holds the claim, the session gets past it and a generator ends. |
| `pending` | two folders, one scrape command, two fetches | `LifeImplemented`: what all the processes do to a folder is FolderLife's life of it. `BatchIsSettled`, `NoFetchLost`: a captured batch is settled by the cleanup after it, and no fetch is taken off the list with an older one. `OutcomesCarried`: only a finished run drops outcomes; refusals, interruptions, the generator and cleanup keep those of the folders they did not work on. |

Why the bounds are enough: contention needs two holders of different kind, and `claim` has two
commands of the one kind that may be many. A fetch can be lost only where a folder is fetched,
captured and fetched again, which is two fetches; a second folder lets a batch be half settled, and has an
outcome that work on the first might drop. (That a folder's outcome may go with its directory is in the theorem
only: no folder of `pending` is removable.)
A roll-back needs one edit between copy and publication. The bounds `MaxFetches` and `MaxEdits` only
stop the counters. No run has a folder without a platform: it would add nothing but
`ScrapePassOver` and `GenPassOver` to the interleavings, and the theorems hold for any folders, mapped
or not, and for all values of the bounds.

### Refinement

`FolderLife` knows no process, claim, file or crash: a fetch makes a folder wait, an attempt takes it
up, the attempt is judged, and only a judged folder is settled; a fetch returns it to waiting from
anywhere. The mapping has the pending list for what is not settled, and the history variable `newer`
for what was fetched since it was taken up. `LifeImplemented` is what the library promises in one
formula, and the sharper for not naming `revisions.json`: a revision is how the code finds out what
`newer` says.

### Fairness

`WF_vars(SessionStep)`: the session runs each command under `timeout`, and the window under
2100 s. `WF_vars(GenWork)`: the generator has an overall deadline and one per child. Nothing is
assumed of a scrape, of a scraper child or of the frontend, which may run for ever.
`FrontendReached` excuses a session that is replaced, or a box that loses power, again and again.

### Proofs (LibraryProofs)

The proofs are for any sets of folders and scrape commands and any bounds, from
`LibraryAssumption` alone (the processes are distinct, the bounds are naturals).

1. `TypeCorrect`. `TypeOK` alone is not inductive: a control point that works on a folder must have
   one, which `InHand` says. `Typing == TypeOK /\ InHand` is proved by one lemma per process.
2. `ClaimSafe`. Every step either pins nothing new (`Shrinks`) or takes a free claim (`Taken`);
   mutual exclusion follows from that alone. `ScraperAlone`, `GeneratorAlone`, `SessionAlone` then
   say that a process in its locked section is the only one, which the later layers need: most of
   the actions of other processes are simply impossible there.
3. `RecordInv`: what a run has counted as fetched is pending, what is about to leave the list is
   recorded. It gives `FetchedStaysPending` and `LeavingIsRecorded`.
4. `BatchInv`: how captured identities, stored identities and the fetches since then relate. It gives
   `PendingIsIdentified`, `CleanupSettlesBatch` and `FetchesAreServed`.
5. `WindowInv`: a generator at work is in the session's window, its child in its own folder's work
   area, and what it copied is what is live. It gives `WorkIsKept` (a child is started into its folder's work area, and none is
   discarded or made anew while the child lives, orphaned or not) and `FamilyDataIsKept`.
6. `InvariantHolds`: all layers together. From it `LifeIsImplemented`: one lemma per process says which
   FolderLife action, or none, each of its steps is. `OutcomesAreCarried` needs the typing only.

`NobodyIsStuck` is `NeverStuck`, which no run lists (the liveness theorems below use it). The layers above leave no control point of the session or of a generator at which no
guard of its next step holds (`SessionGuard`, `GeneratorGuard`), whoever holds the claim and whatever child runs on. That such a
guard enables its action is its hypothesis, which section 10 explains.

`FrontendIsReached` and `GenerationsEnd` are the two liveness properties, proved as section 10 says. Both go
through the control points one by one: `SessionGoes`, `CleanupGoes`, `GeneratorGoes` and `PlanGoes` say where a process's own
step leads, `SessionStands` and `GeneratorStands` that nobody else moves it back. What they leave open is a
loop over a finite set: cleanup that takes folders off one list for ever (`CleansForEver`), a generator that takes them from
one plan for ever (`GeneratesForEver`).

### Limits the model shows

A generator that is killed outright leaves its child, which works on in the work area beside the
running frontend (`library.py:372` starts it in a session of its own, and only a living parent ends it),
although `openspec/specs/library/spec.md:151` titles a requirement "never while the frontend runs". The
model has this orphan: the claim stays held by it, `WorkIsKept` holds of its work area, and nothing it does reaches
the live gamelist.

## 4. Kiosk

### State

| Variables | Code |
|---|---|
| `sesPc` | the command `emubox-session` is at; `none` without a session |
| `crashes`, `requested`, `status` | the script's counter, the last exit's excuse, the status it exits with |
| `termPending`, `interrupted`, `rc` | `desktop_term_pending`, `desktop_wait_interrupted`, `desktop_rc` |
| `desktop`, `told`, `desktopStatus` | Plasma, whether a TERM has reached it, what it exited with |
| `fe`, `long`, `lingering` | the frontend this session launched last, whether its run is past the crash window, and one that outlived its session |
| `toolPc`, `waiting`, `target` | each Tools entry's command, which entry the frontend waits for, which process its pid names |
| `mark`, `flag` | the restart mark (absent, fresh, lapsed) and the mode flag, both in RAM |
| `dm`, `signals` | the display manager, and the signals of the stop it is at |
| `adminPc`, `adminMode`, `settled`, `switches` | `emubox-mode` |
| `open`, `owed`, `selected`, `due` | history: no guard reads them |

The trap is not a variable: `Armed` is the set of commands under it.

### Actions

One action per command of the script. The desktop block: `ReadMode`, `ClearMode` or `ClearRefused`
(sudo fails), `ArmTrap`, `LaunchDesktop`, `RecordPid`, `ForwardPending`, `ResetWait`,
`WaitReturns`, `CheckWait`, `Untrap`. The loop: `Prune`, `Prepare`, `PreFrontendStep` (module
Library, here one step), `LaunchFrontend`, `CageReturns`, `TestMark`, `StatMark`, `RemoveMark`,
`Count`, `Sleep`. `Exit` is the end of the script under its EXIT trap. `Signal` is a TERM or HUP at
any command: under the trap it sets the two flags and is passed on if the pid is known; anywhere
else it ends the script, through the EXIT trap.

The Tools entry: `ToolsStart`, `ToolsFind` (the pid), `ToolsTouch`, `ToolsKill` or `ToolsKillFails`
and `ToolsWithdraw`; `ToolsEnds` at any point. `emubox-mode`: `SwitchWrite`, then
`SwitchRestart` or `SwitchRefused`. Surroundings: `Login`, `Restarted`, `RunLong`, `FrontendExits`,
`LingeringEnds`, `DesktopExits`, `Lapse`, `Reboot`.

### Abstractions

* The crash window and the mark's fifteen seconds are two flags that may turn at any time.
* The display manager is modelled as the script's comments and options describe it: one automatic
  login, a greeter after a session that ended cleanly, nothing after status 1, a stop that signals
  the script and waits for it; and, as the recovery documents do, a restart that meets it logging player in and may
  leave it looping (below). A script that is killed outright (SIGKILL) is not modelled.
* The wall clock does not step back.
* Argument, privilege and configuration checks of `emubox-mode` leave the state alone.
* A second Tools entry, left over from an earlier frontend, may withdraw a mark that was touched
  for another one: the code has one mark for all. `RequestIsHonoured` says so.

### Runs

| Run | Instance | What it shows |
|---|---|---|
| `kiosk` | one Tools entry, two switches, two signals per stop, fairness | `RequestIsHonoured`, `ExcusedByOwnRequest`: a request excuses the exit it asked for and no other. `SessionOutlivesDesktop`: no interleaving of signals leaves a desktop behind. `NeverStuck`: the script, the display manager and a desktop that was told to end always have a step of their own. `ScreenImplemented`: the TV shows a behaviour of Screen, so a selection gives one desktop. `SwitchDecides`: a settled switch decides. `ScreenComesBack`, `CrashLoopEnds`, `SwitchCompletes`: nothing ends in a black screen, but for a switch that meets a login. |
| `accepted` | no Tools entry, two switches | a counterexample; see Findings. |

Why the bounds are enough: one entry already races with the frontend, with its own earlier request and
with an entry's frontend that is gone, and the theorems hold for any number of entries; a switch can be
lost only against a session that a start or an earlier switch brought up; a second signal meets the
script in the second wait. The crash limit is the code's own.

### Fairness

`WF_vars(SessionStep)`: the script's commands return; the library's step is bounded in time and
`wait` is repeated until the desktop is gone. `WF_vars(DisplayManager)`: SDDM logs in and
restarts, and a stop delivers its signal; one that loops has no step, and nothing is assumed of it. `WF_vars(DesktopObeys)`: a desktop that was told to
end does. Nothing is assumed of the frontend, of a desktop nobody told to end, or of a Tools entry.

### Refinement

`Screen` is the TV as the person before it sees it: dark, the frontend, a desktop that is coming, a
desktop, or the greeter, and a selection that a desktop takes with it before it appears. `Picture`
reads that from the processes: the desktop that runs, the command the script is at, the frontend this
session launched. A frontend that outlived its session (`lingering`) has lost its compositor and shows
nothing.

### Proofs (KioskProofs)

For any set of Tools entries and any bounds, from `KioskAssumption`. `KioskInv` has five layers, each
proved by one lemma with one step per action that can disturb it:

1. `TypeOK`, in four parts. It is not inductive alone: the counter's bound needs the script to end
   when it has counted to the limit.
2. `SessionInv`: who has a script, and where it is while the frontend runs.
3. `DesktopInv`: the desktop runs only under the trap, and the script is past an uninterrupted wait
   only when it is gone and its status known. It gives `NoDesktopLeftBehind` and `StatusIsReal` (the
   status of an interrupted wait is never taken for the desktop's).
4. `MarkInv`: the mark is fresh exactly while a touch of it stands, and what is owed to a request is in
   the mark until `requested` has it. It gives `RequestsAreHonoured` and `OnlyRequestsExcuse`.
5. `FlagInv`: the flag says what was selected and what a switch promised. It gives
   `DesktopIsOneShot` and `SwitchesDecide`.

`NobodyIsStuck` is `NeverStuck` (section 10), and more than the run asks (`SomebodyActs`): whenever nobody of the session's own has a
step to take, the greeter is up, a frontend runs, or a desktop that nobody told to end, or the display manager loops. The wait for the
desktop is the one place where a guard could fail for ever; `KioskInv` and `WaitInv` say that it does not.

`ScreenIsImplemented` follows from all five, action by action. The type invariants of Library, Kiosk, Backup,
SaveMigrate and Prepare are proved (`TypeCorrect`), and are no property of a run of their own.

The three liveness properties are proved as section 10 says. `WaitInv` is what they need besides `KioskInv`: a
stop that waits has signalled, and a desktop that is gone leaves the script's wait.
`CrashLoopsEnd` counts: the crash limit is the code's own three, so that each value of the counter is a case of its own
and nothing is left open. `StopsEnd` follows a TERM through the script: before the trap, under it with the pid unknown, in
either wait, and after it. With `SignalsCease` it gives `SwitchesComplete`. `DarkIsUnaided`, `ScreenRests` and
`EntriesCease` join it with the loop to `ScreenReturns`. They leave open that switches are made for ever, that
one stop signals for ever, and that entries touch the mark for ever while no frontend runs: the bound on switches, the bound on
signals, and the finite set of entries exclude them.

### Limits the model shows

A switch that is made while SDDM is still logging player in can leave it looping, with no session and no greeter until a
reboot: `openspec/specs/recovery/spec.md:149-153` excludes this from its guarantee, `README.md:231-233` tells the operator to
wait, and the code guards against it nowhere. `SwitchRestart` therefore has two outcomes where it meets a login, the first one
of a boot included, and a display manager that loops leaves that state by `Reboot` only. `ScreenComesBack`, `SwitchCompletes`
and the theorems `SwitchesComplete` and `ScreenReturns` name the case (`Looping`) as the one end that is not a picture:
a switch made once the session is there never comes to it, nor does one that meets the stop before a login.

### Findings

`accepted`: a session that is starting reads the flag and then has it removed. If `emubox-mode desktop`
writes between the two, or between the session's start and its read, the removal takes the new
selection with it; the restart is accepted all the same, the command reports success, and the next
session is the frontend. `openspec/specs/recovery/spec.md:115` promises the mode that was asked for.
`SwitchDecides` shows that, a reboot apart, this is the only way: a switch made while no session is starting decides.
`SettledSwitchIsSelected` is its other boundary, a theorem: at an accepted restart the flag holds the desktop
that was asked for if no session was starting when it was written, and the kiosk always.

## 5. Backup

### State

| Variables | Code |
|---|---|
| `snapshot`, `dir`, `bind`, `source`, `excluded` | the transient snapshot, the mountpoint, what is bound to it and how, the exclusion file; each named by the activation that made it |
| `links`, `held` | where the declared cache paths lead, in the live home and in the snapshot |
| `dropped` | the places the exclusion file names |
| `pc[u]` | the command the backup unit or the reconcile unit is at |
| `cleaning` | the backup unit is at its `ExecStopPost` |
| `inv`, `result` | the unit's `InvocationID` and `Result`, as the service manager tells them |
| `stored`, `evidence` | backups in the repository, markers in the journal |
| `failed` | history only: activations that ended as failed |
| `askPc`, `askInv`, `askResult`, `reported` | one status report: where it is, what it was told, what it said |

### Actions

`reconcile()` is the same code in three places, so its commands are actions with the unit as a
parameter: `LookMount`, `Umount`, `RemoveDir`, `LookSnapshot`, `DeleteSnapshot`, and
`ReconcileFails`. Whether a command is next is decided by what the code looked at, one step
before the command runs. `AfterReconcile` says how each caller goes on.

Prepare: `Activate`, `OpenRepository` or `RepositoryFails`, the reconciliation, `TakeSnapshot`,
`MakeDir`, `BindSnapshot`, `Remount`, `WriteExclusions`. Any of them may fail (`PrepareFails`), and what it
made is unwound, `UndoMount`, `UndoSnapshot`, `UndoExclusions`, each of which may fail in its turn
(`UndoFails`). Then `ResticReads`, `ResticStores` or `ResticFails`, `PrintMarker` or `MarkerFails`, and the
cleanup, which is a reconciliation and `RemoveExclusions`. `WriteExclusions` resolves the declared cache paths
in the source (`Resolved`) and needs the result to be `Acceptable`: within the home, no protected root, no two the
same; otherwise `PrepareFails` is all that is left. `Killed` is a timeout or a stop: possible at every
command, it unwinds nothing. Surroundings: `StartReconcile`, `PowerLoss`, `PlayerLinks` (the player turns a cache
path, or what is on its way, into a link, or back), and the report's
`AskInvocation`, `AskResult`, `AskJournal`.

### Abstractions

* The `flock` in `prepare` is not modelled: nothing but `prepare` takes it, and systemd runs one
  activation of a unit at a time. In particular neither the cleanup nor the reconcile unit takes it.
* The service manager gives an activation its identity and resets its result in one step.
* Opening the repository succeeds or fails.
* Paths are places: where a declared path leads is a place in the player's home, a protected root or one outside both. A
  path that leads nowhere yet, in particular any in a source that a reconciliation has taken away, is where it was
  declared (`Own`), which the build keeps strictly below the home and different for each. The home is itself a root.
  Where a root leads is not modelled: none of them is the player's to replace.
* One layer of the report. Freshness, the time budgets, the maintenance and the local layers, and the
  command line are not modelled.

### Runs

| Run | Instance | What it shows |
|---|---|---|
| `backup` | three activations, one further start of the reconcile unit, one power loss; a cache path, which the player turns once, an unlisted directory beside it, the home and another root | `FreshSource`: whatever earlier activations left, and whoever else reconciles, restic finds its own activation's snapshot, read-only, with its own exclusions, or nothing at all. `RootsAreKept`: what restic leaves out is where that snapshot's cache paths lead, and never a protected root, whatever links the player turns meanwhile. `NothingLeft`: leftovers show in the unit's result. `OkMeansStored`: the report calls a success only what is in the repository. |
| `backup_status` | two activations | a counterexample; see Findings. |

Why the bounds are enough: a leftover needs an activation that leaves it and one that finds it; the third lets a
report's two queries straddle one whole activation, and a kill in a cleanup be cleaned up by a cleanup that is killed.
The theorems hold for all values of the bounds.

No fairness is assumed and no liveness is stated: every command may fail or hang for ever, and what the code
promises of progress rests on time limits that are not modelled.

### Proofs (BackupProofs)

For any bounds, cache paths and roots, from no assumption but `BackupAssumption` and `CacheAssumption`. `BackupInv` is
`TypeOK` and four layers, each proved by one lemma that goes through the actions:

1. `SourceInv`: at each command, what the commands before it have made, or a reconcile unit has since taken
   away. It gives `SourceIsFresh`.
2. `EndInv`: an activation is over with a success only past the last command of its cleanup. It gives
   `LeftoversShow`.
3. `EvidenceInv`: markers only of stored backups, reports only of markers. It gives `SuccessIsStored`.
4. `RootsAreKept` is inductive beside `SourceInv` (`LinksNext`): a source that a reconciliation takes away before restic
   reads is not one restic can read, and nothing replaces its snapshot in the meantime.

A fifth, `FailedInv`, gives `OwnFailuresAreTold`, the boundary of the finding below.

### Findings

`backup_status`: the report asks for `InvocationID` and then for `Result`. An activation that printed its marker and
then failed in its cleanup is told by the first query; if the next activation starts before the second, that one's
result, success to begin with, is paired with the marker, and the line says OK of an activation that
failed. The docstring of `layer_health` says this cannot be. What remains true is `OkMeansStored`, and that it takes
a new activation: while the one the report was told of is still the last, its failure is told (`OwnFailuresAreTold`).

### Limits the model shows

`reconcile()` takes no lock. The reconcile unit is ordered before the backup unit, which delays a backup and not
a reconciliation: started by hand or by a configuration switch while a backup runs, it unmounts and deletes a
source that was not interrupted. `FreshSource` shows that restic then fails and never backs up something else.

`validate_exclusions` compares what a cache path resolves to with the four roots, the home and the other exclusions, and
with nothing else (line 340). A relative link from a cache path to another directory of the home is followed and
accepted, so that directory is left out of the backup; a save route's directory in the home (its legacy path) is one.
`openspec/specs/backups/spec.md:65` has any unlisted path of the home included, and has a path that aliases a
save route refused. `RootsAreKept` states what the code keeps: it is about the roots, not about the places below
the home.

The time budgets are not modelled: `modules/backups/default.nix` asserts them of constants when the system is
built, and what is left to check hangs on what each restic command locks, which this repository does not say.
One thing a reader should know: only `restic backup` itself is given `--retry-lock`. The gate's
`restic cat config` and the marker's `restic snapshots` are not, so that if the restic in use lets them ask for a
lock they fail at once against an exclusive one; the backup then fails before its retry window begins.
`RepositoryFails` and `MarkerFails` are such failures here, whatever their reason.

## 6. SaveMigrate

### State

| Variables | Code |
|---|---|
| `legacy[r]`, `saves[r]` | the tree at the emulator's own path and the one below `/data/saves`: for every place nothing, a file's content, a directory, or a link to a directory |
| `mounted` | routes whose destination is mounted over the legacy tree |
| `pc`, `todo`, `cur`, `left` | the service: what it is doing, routes to come, the route in hand, entries listed and not yet dealt with |
| `frontend` | the display manager runs |

`Source(r)` is what the service finds at the emulator's own path: once the route is mounted, the destination
itself.

### Actions

`Begin` or `Refuse` is the preflight of one tree (`Conflicts`). Then one entry at a time, in the order of a
walk from the bottom (`Turn`): `MoveFile`, `DropFile` (a file that is there already, and the same), `MoveDir`; or
`MoveFails`, or `LinkFails` (a link whose target is empty cannot be removed as a directory is). `EndTree`,
`Done`. After it `Mount` and `StartFrontend`. Surroundings: `Play` (an emulator writes or removes a save), `Rerun` (the
routes' target is asked for again), `PowerLoss`, `Reboot`.

### Abstractions

* The order of the routes is any order. Every route has one legacy path, as all fourteen have.
* All trees are in one btrfs subvolume: a move is a rename, and operations last in the order they were made.
* A preflight is one step. A move is one step, or fails with at most the directories above it made.
* Links to files, and entries that are neither, are not modelled.
* The routes' own directories exist: `ExecStartPre` makes them.

### Runs

| Run | Instance | What it shows |
|---|---|---|
| `migrate` | module Boot, which composes this one with the initrd: a mounted route and one by setting, any two trees of a directory and an entry in it, two contents, one fault, one further run, fairness | `NoSaveLost`: whatever fails, no file of an unmounted route is lost. `NothingHidden`: no mount covers a file, and no frontend runs before every route is done. `RetrySafe`: an interrupted migration is not in its own way, links to directories apart. `NeverStuck`: a box without a frontend is never at a standstill. `ComesUp`: trees that do not differ and have no link always lead to a frontend. And of the initrd, section 9. |
| `migrate_rerun` | one mounted route, a further run | a counterexample; see Findings. |

Why the bounds are enough: a conflict needs two contents; order within a tree needs an entry in a directory, and
entries beside one another act only on themselves; order between routes needs one that is done and one that is
refused. Every pair of trees is an initial state.
The theorems hold for any routes, trees, contents and bounds.

### Fairness

`FairBootSpec`: the initrd's units, the service and the units after it go on, and somebody switches a
box on again that stopped in the initrd or shows no frontend. Nothing is assumed of emulators, of a
failure's not happening, or of a second run.

### Proofs (SaveMigrateProofs)

From two assumptions: the places of a tree are in a partial order of directories (`SaveAssumption`), and there are finitely
many of them (`TreeAssumption`), as in any tree on a disk. Only `Listed` needs the second. Four lemmas say what making and
removing an entry does to a tree, and `MoveStep` what a step does to each entry of the tree in hand. `SaveInv` is
`TypeOK`, `NothingHidden` and `MoveInv`, whose parts are needed in turn: a move finds directories above it only because
the tree in hand is `Free`, it stays free although emulators may write beside a second run only because the directories
left behind have been made (`UnderFrontend`), and nothing is hidden because what the service has passed is
`BehindIt`, clean. `SavesKept` and `RetriesAreSafe` are action properties that follow from `MoveStep` and `Free`.

`Listed` says what keeps a migration from standing still: while no frontend runs, what is listed and not yet come to is still
there, and a directory among it has at most a directory in its way. That some listed entry then has its turn
(`TurnComes`: an entry comes after those below it, and in one directory files come before directories) is true of finite trees only, and goes by the
greatest number of directories above an entry (`DeepestExists`).

`LinkIsFinal` is what `RetrySafe` leaves out: once a box starts with a link and the directory made for it, it is `Doomed`. Neither
goes away while no frontend runs, the route is refused, and so no frontend ever runs.

`ComesUp` and `NeverStuck` are about the whole boot and are proved there (section 9).

### Findings

`migrate_rerun`: the service is a oneshot without `RemainAfterExit`, so it is inactive when done, and the routes'
target and through it the display manager require it. A configuration switch, or the restart of the display
manager by which `emubox-mode` works, therefore runs it again, with the routes mounted. Both trees of a route are
one then: each file is found to be the same as itself, and is removed as a duplicate.
`modules/persistence/default.nix:53-60` describes this second start for the units of the initrd. `NoSaveLost` shows that
files are lost in no other way.

### Limits the model shows

A link to a directory is listed with the directories. A directory is made for it at the destination, the link
stays, and the two are a conflict at the next boot, which then has no frontend (`emubox_save_migrate.py:69`;
the docstring at line 31 calls a failed migration safe to retry). `LinkIsFinal` proves that no start after that one
comes to the frontend either: somebody has to remove the link. `RetrySafe` shows that nothing else is in the way of
a retry, and `ComesUp` leaves such trees out.

## 7. OwnedFile and Prepare

`OwnedFile` is what the three editors make of one file; it has no state. `Prepare` EXTENDS it with the runs.

### State

| Variables | Code |
|---|---|
| `files[f]` | a settings file: absent, empty, not readable as its format, or for every section its instances and for every key the values it is assigned in each, in order; and the region above the first header |
| `secrets[c]` | the token cache and PPSSPP's whole-file token |
| `systems` | the custom systems file |
| `revenant[c]` | what a power loss may bring back of an unlinked credential file: an unlink is not synced |
| `litter` | whether a temporary file with a credential in it was left behind |
| `enabled`, `account`, `serial` | the box's declaration, and the service: its current account and token |
| `pc[p]`, `doc[p]`, `outcome[p]`, `login[p]` | a run, the session's or an admin's: where it is, whether its document has the feature on, what the login came to |
| `tables[p]`, `todo[p]`, `cur[p]`, `next[p]` | what it enforces with the login merged in, what it has yet to do, the item in hand and its staged content |
| `failed`, `alone` | history only: what could not be written, and whether another run, an emulator or a power loss has interfered |

### Operators and actions

`Enforced` is the sweep and the write of the enforced keys, `Seeded` the pass after it, `InPlace` both, with no
write where nothing changed; `Recreated` is a file made anew, `Assert` the choice between them with its early
returns, `Edit` the editor of a format. `Merged` is the folding of a login into the tables.

A run: `Start`; `CredentialsUnreadable`, `Accepted`, `Rejected` or `Unreachable`, which end in `Resolves`; then one item after another in the
code's order (`Turn`): `Passes` over what holds already, `Unlink`, `Stage` and `Replace` (the temporary file and
the rename, between which other processes act), `InstallSystems`, `CannotWrite`; `Ends`. Surroundings: `Dies`,
`PowerLoss`, `EmulatorSaves`, `Rebuild`, `AccountChanges`.

### Abstractions

* A file is values of keys. Comments, spacing, byte order marks and the order of different keys are presentation. What
  the proofs say of the editors is about assignments, not about lines.
* Values that would not read back are a set, `Unwritable`. Names of keys and sections all read back.
* DuckStation's token in its encrypted form is the token, or is removed where the machine's id cannot be read. Its
  timestamp, owners and modes are left out. An account name reads back.
* The sync of the directory belongs to the rename. If that sync fails, the code reports a failure of a write that
  was done.
* `hardcore` and `enabled` are keys of the tables like any other. The custom systems file is installed in one step.
* A malformed document ends the program before it touches anything, and is not modelled.

### Runs

| Run | Instance | What it shows |
|---|---|---|
| `prepare` | the session's run and an admin's; three targets, as DuckStation, PPSSPP and PCSX2, over two files of the INI format; one save of an emulator, one fault, one rebuild, one change of password | `Delivered`, `Quiet`: an undisturbed run leaves each file it could write as declared, and would find nothing to write again. `NoLoginLeft`, `LoginKept`: no credential stays where none was resolved, and the resolved one is everywhere. `CacheFollowsAnswers`: however runs overlap, the cache changes by an answer only. `FamilyKept`: nothing is taken that is not the flake's. |
| `prepare_litter` | one fault, one rebuild | a counterexample; see Findings. |

Why the bounds are enough: the one draft of the settings file has an assignment above the first header, a repeated section,
and repeated enforced, seeded and login keys; the other is torn. Interference needs two runs; what a run finds of
an earlier one needs two. The theorems hold for any files of all three formats, tables, targets and bounds.
`CHECK_DEADLOCK FALSE`: a box on which no more runs are started stands still.

No fairness is assumed and no liveness is stated: a run has no loop, and its one wait has a limit of five seconds.

### Proofs (OwnedFileProofs, PrepareProofs)

From `OwnedFileAssumption` and `PrepareAssumption`: a value is no marker, a key is declared in one tier
(`_seed_enforce_overlap_error` and `_target_validation_error` see to it), the items are apart.

`OwnedFileProofs` is about one file. `Settled` says of a file why an editor would leave it: nothing is owned in it, or
it has what is declared, or there is nothing to remove. `EditSettles`: an editor's result is `Settled`. `SettledStays`: such a file is left
as it is. Together they are `EditIsIdempotent`; `EditDeclares` follows from the first, and `EditKeeps` compares
the two passes with the file they were given.

`PrepareProofs` is about runs. `TypeOK` is not inductive: what is staged must be a file (`InHand`). `PrepareInv` is
`TypeOK` and, for every run, `InHand`, `Declaring` (its tables keep the tiers apart and remove every login key where nothing
was resolved), `Answered` (the cache is in hand only after an answer) and `Settles`: of a run that is alone, everything
behind it is as it declares it. `Settles` survives the run's own write because an editor finds nothing to do in
its own work, which is `EditIsIdempotent`. A step is either another run's, which leaves this one `Untouched`, or its
own, one lemma for each action. All six properties of the run `prepare` follow from it.

### Findings

`prepare_litter`: a credential is written to a temporary file of a unique name. Only an exception removes it; a kill or a
power cut before the rename leaves it, and no later run looks for it, not even the one that takes the
credentials off the box. `openspec/specs/retroachievements/spec.md:68-70` promises that switching the feature off
leaves no credential on it. `NoLoginLeft` shows that the files which the program names are clean.

### Limits the model shows

* The cache has no account name. After a change of name, a run that does not reach the service pairs the new name
  with the old token, until it does.
* A settings file that an emulator writes between an admin's `Stage` and `Replace` loses what was written. The
  session's run is never beside an emulator.
* Of two overlapping runs, the one that was answered first may write last; the next run that reaches the service heals it.
* A seeded key that is assigned only above the first header is swept there if another section enforces a key of that
  name (`LeftAlone`).

## 8. Status, LibraryReport and ControllersReport

`Status` is one run of `emubox-status`. It EXTENDS the two reports, which know nothing of it: each is a process
with steps of its own and an exit status. The backups' reporter is kept as a process only; what it says is in Backup.

### State

| Variables | Code |
|---|---|
| `agPc`, `current`, `section`, `worst`, `exit` | the command: what it does, the reporter whose turn it is, the state each section names, the worst so far, its exit status |
| `clock` | since the reporter was started: before 45 s, before 60 s, after |
| `worker`, `scan`, `found`, `uncounted`, `pipe` | the library report's forked worker: the process, what it reads next, the folders it discovered and has still to count, what it sent |
| `reporter`, `got`, `libCode` | its parent: the process, the messages it received, its exit status |
| `bus`, `plugs`, `steady` | the device at each event node; `steady` is history |
| `conPc`, `nodes`, `node`, `vendor`, `warned`, `conCode` | the controllers' report: what it does, joysticks to come, the one whose vendor it has read, its verdict and exit status |
| `other`, `otherCode` | the backups' reporter |

`wedged` is a process in a read that even SIGKILL cannot end, which is what the fork is for; `doomed` is one that
was killed there and dies when the read returns. `Closed` is the end of file the command waits for: not the
reporter's exit, but that nobody holds its output, a worker that inherited it included.

### Actions

The command: `ListUnreadable`, `ListRead`, `CannotRun`, `Start`, `Collect`, `Cut` and `Reap`, `Finish`. The order of
the reporters is a constant (`Place`), because the module system makes it.

The library's report: `ReportStarts` or `ReportCannotStart`, `ReportReads`, `ReportEnds` (complete, closed or out of
time), `ReportKilled`; the worker's `ScanRecord`, `ScanPending`, `ScanFolders`, `ScanCount`, `ScanDone`, `ScanError`,
`WorkerGone`, `WorkerWedges`, `WorkerFreed`. The controllers' report: `ReadDatabase`, `ReadVendor`,
`ReadProduct`, `ControllersExit`, `ControllersFail`, and `Plug` beside them.

### Abstractions

* A message is what it is about; one cut short is none, since the parent takes whole lines.
* What the counts are, and the record's contents, are Library's business: here a field is received or is not.
* `Tick` lets the sixty seconds pass only where the library's report has ended: the fifteen seconds between the two
  limits are enough for it to print what it has. That is an assumption about a loaded box.
* A flood of output is read as it comes and is not modelled: it is bounded by the limit.
* The ports' lines are no finding, and are left out.

### Runs

| Run | Instance | What it shows |
|---|---|---|
| `status` | two folders; two event nodes, three devices (an accepted pad, the same pad in another mode, and a keyboard whose product after the pad's vendor would be accepted), three changes; fairness | `HealthyIsComplete`: no partial scan passes for a whole one. `CutOffOnlyStuck`: a library report that is only slow is ended by its own deadline. `WorstIsTold`: the exit status is the worst section's. `PadWarned`: a pad in an unaccepted mode that stays connected is warned of. `NeverStuck`: while the command runs, whoever it waits for has a step to take. `Answers`: the command always ends. |
| `status_stall` | one folder, one node | a counterexample; see Findings. |

Why the bounds are enough: a scan is partial between folders or within one, which is two; a stale read pairs one
device's vendor with another's product, which is an unplug and a plug on one node, and a third change is one on
the node beside it. The theorems hold for any folders, devices, nodes, order and bound.
`CHECK_DEADLOCK FALSE`: the command ends.

### Fairness

The command goes on, time passes, the library's report looks at its deadline, and a reporter that was killed in
the kernel is at some time let go (`WF_vars(OtherFreed)`; without that `Reap` waits for ever, as
`emubox_status.py` does). Nothing is assumed of a worker, of the controllers' report or of the backups'
getting anywhere.

### Proofs (StatusProofs)

`StatusInv` joins what the command keeps (`TurnInv`, `WorstInv`, `OkInv`), what the library's report
keeps (`OrderInv`: the worker sends in its scan's order and "done" last; `CodeInv`: a status of 0 comes of a
complete scan; `FreshInv`), what the controllers' keeps (`ExaminedInv`: a joystick that stays is still to be
examined, half examined, accepted or warned of), and `LimitInv`, the one part about two of them: the
library's report runs only while the command waits for it, within the limit. The lemmas go module by module:
a reporter's step leaves the command's variables alone, and the other way round. All four safety properties are
theorems. `NobodyIsStuck` is `NeverStuck` (section 10): until the command is done, it has a step itself, or the
clock, the library's deadline or the kernel has (`SomebodyActs`), because `ReapInv` says that a reporter cut off is never
waited for in vain. `CommandAnswers` is the liveness property `Answers`, proved as section 10 says. The order of the reporters
is a constant, and there are three, so it goes through them one by one and leaves nothing open.

### Findings

`status_stall`: at its deadline the report kills its worker and does not wait for it, so that a stuck read cannot
hold it. But the worker has inherited the report's output, and `emubox_status.py:130-137` reads that to its end: the
command waits out its sixty seconds and prints "did not run" for a report that had answered.
`openspec/specs/library/spec.md:336` promises the available results and a warning "rather than a reporter
timeout". `CutOffOnlyStuck` shows that it happens in no other way.

## 9. Boot

`Boot` EXTENDS SaveMigrate with the units of the initrd (`modules/persistence/default.nix`).

| Variables | Code |
|---|---|
| `stage` | the initrd, the second transaction (for the switch to the new root), or the system |
| `jobs`, `active` | units to be started, units that are active |
| `wipe`, `root`, `old` | where the script of `rollback-root` is, the `@root` subvolume, whether it holds anything of an earlier boot |
| `binds`, `dirs` | mounts on `/etc/machine-id`, whether the persisted directories are there |

`Needs` is what a unit requires and is ordered after, `Remains` whether it is active when its script has ended
(`RemainAfterExit`, or a mount). The script of `rollback-root` is `StartWipe` (with its
`ConditionPathIsMountPoint`), `DeleteNested`, `DeleteRoot`, `CreateRoot`; then `MountRoot`, `PersistDirs`,
`PersistMachineId`, `SwitchRoot`, `Activate`. `UnitFails` takes what requires the unit with it; `PowerLoss`,
`Reboot` and `Restart` begin again with what the disk holds. On the new root the steps are SaveMigrate's.

Abstractions: the deletion of nested subvolumes is one step; of the persisted list only that its directories are
there; an initrd that failed waits for somebody to switch the box off and on.

The run `migrate` (section 6) checks it, about 1.7 million states: `RootIsFresh`: what is mounted as the root is
there, and nothing in it is of an earlier boot, although a second transaction starts whatever is not active.
`NeverStuck` and `ComesUp`: see section 6. A root may be left by any interruption, with other subvolumes in it or without; one fault suffices for each place it can bite, and
the theorems hold for any number.

`BootProofs`: `BootInv` says of the root that `rollback-root` stands between an earlier boot's and the mount
(`RootInv`), of the transactions that the activation is asked for in the second only and that nothing is left of them on the new
root (`StageInv`), and of the migration
that it has not begun before the system has (`WaitInv`). It gives `RootIsMadeAnew` and `StateIsPersisted` (the system starts with its directories, and with the
machine id bound once). And
`BootRunsMigration`: every behaviour of the boot is one of SaveMigrate, so that its safety theorems hold of the
whole boot (`BootKeepsSaves`) without a further proof.

`NobodyIsStuck` is `NeverStuck` of the whole boot (section 10). In the initrd, what stands in a unit's way has its own turn, and
when no unit is left the root is switched to or the box has stopped (`UnitsGoOn`); behind it the service has a route, an entry
whose turn it is, or is done (`ServiceGoesOn`), because `Listed` (section 6) holds of the boot as well, by `BootRunsMigration`.

`BoxComesUp` is `ComesUp`, proved as section 10 says, of a box that is supposed to stay dark for ever (`Dark`):

1. `FreeKept`: without a frontend nobody writes to the trees, and trees that do not differ stay so through every move, failure
   and further run, also of a run over mounted routes (`MountedStep`).
2. `DarkFailsNoMore`: while nothing is mounted, the service refuses no such tree (`NoRefusal`). A further run may
   refuse, over a mounted route with a link in it; the next start of the box has nothing mounted (`Fresh`).
3. `DarkStopsNoMore`: a start of the initrd in which nothing fails leaves it no way to stop (`Whole`).
4. `InitrdEnds`: the stages follow one another, within a stage units are started and not asked for again, and between two
   starts the root is wiped once. The five units are cases, so nothing is left open.
5. `ServiceEnds`: routes are taken from the list, entries from a route's, and then routes are mounted. The three sets are
   constants' subsets, and what is left open is that one of them changes for ever (`TodoForEver`, `LeftForEver`, `MountsForEver`).

With 4 and 5 the box has no step left, and by `NobodyIsStuck` it has one. Faults or further runs without end are the other
two exceptions; the bounds exclude them.

## 10. Not modelled

* **BIOS check**: one pass over files that nothing of the box writes, with a digest each. It has no state, nothing
  runs beside it, and its cases are a unit test's.
* `pkgs/emubox-library/emubox_library_generate.py`: it calls one function of the library.
* **Controllers**: the udev rules and the kernel's assignment of ports are data; the ports' lines are no finding.
* **Backups**: the maintenance and the local layers, which are restic's and btrbk's own work with a marker after it; how
  old a marker may be, which compares two readings of the wall clock (a marker from a clock that ran ahead
  counts as fresh, `emubox_restic_backup.py:235`); the time budgets (section 5).
* **Prepare**: the text of settings files, the refusal of malformed documents, the encryption of DuckStation's token.
* **Library**: the merge of two gamelists entry by entry.
* **Persistence**: the bind mounts of stage 2, which are impermanence's, and an id that PID 1 writes through the bind.
* Emulator declarations, hardware, networking, remote access, secrets, build, hosts and install scripts,
  packaged third-party software: declarations and glue, without steps of their own.

**What the proofs of liveness rest on.** Every property of a passing run is stated by a theorem. The four `NeverStuck` (three of them properties of a run, Library's a step of its proofs) and the
seven liveness properties (`FrontendReached`, `GenerationEnds`, `ScreenComesBack`, `CrashLoopEnds`, `SwitchCompletes`, `ComesUp`,
`Answers`) are proved from the specification, the latter with its fairness, and from what two limits of the prover leave:

* ENABLED is out of its reach, and `NeverStuck` is about it. Each of the four modules therefore writes down what the fair
  actions ask for: the conjuncts without a prime of their definitions (`SessionGuard`, `ScriptGuard`, `CommandGuard`,
  `UnitGuard` and so on). The hypothesis `[]GuardsSuffice` says that where one of these holds, its action is enabled. It says
  nothing of where they hold, which is what the theorems `NobodyIsStuck` prove; the theorems on liveness use those. TLC
  evaluates ENABLED itself, in `NeverStuck`, and on the instances of the four runs (Library's is `claim`) it finds
  all four and `GuardsSuffice` invariants, and `SomebodyActs` where it is defined.
* Induction over data is out of its reach where it would be within a temporal formula: that a finite set does not shrink for
  ever, or a bounded counter grow. (About one state it is not: a least counterexample among the naturals does, `LeastNatural`.) Where an
  argument comes to that, the theorem says so in a disjunct: `S` shrinks for ever is
  `<>[][S' \subseteq S]_vars /\ []<><<S' # S>>_vars`, which is false of any finite `S`. No behaviour TLC sees has one, so the run
  checks the property without them.

What is left to a theorem is the part that goes wrong in code: every interleaving, every failure and every
path on the way. `CrashLoopsEnd` and `CommandAnswers` have no such disjunct.

The definitions named `Mut...` are small faults (a dropped guard, a missing reset, a swapped order)
of the definitions that follow them. No specification uses them; they show that each property
would notice.
