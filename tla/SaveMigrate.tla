---------------------------- MODULE SaveMigrate ------------------------------
(***************************************************************************)
(* The migration of saves at boot: the mover in                            *)
(* src/pkgs/emubox-save-migrate/emubox_save_migrate.py and the units       *)
(* around it in src/modules/saves/default.nix.                             *)
(*                                                                         *)
(* Every route has a tree at the emulator's own path, its legacy tree, and *)
(* one below /data/saves.  One service, route by route, checks that no     *)
(* file of the first is in the way of another in the second, and moves     *)
(* entry by entry.  Then some routes have their second tree mounted over   *)
(* the first, and the frontend starts.                                     *)
(*                                                                         *)
(* A move may fail and power may be lost between any two of them; both     *)
(* trees last.  The service does not remain active, so whatever asks for   *)
(* the routes' target again - a switch of the configuration, a restart of  *)
(* the display manager - runs it again, over the mounted routes too.       *)
(***************************************************************************)
EXTENDS Naturals, FiniteSets

CONSTANTS
  Route,     \* the declared routes
  Bound,     \* those whose mechanism is a bind mount
  Path,      \* where an entry may be, the same in both trees
  Above,     \* the directories a path lies in, the tree's own excepted
  Content,   \* what a file may hold
  MaxFaults, \* bound: failed moves and power losses
  MaxReruns  \* bound: runs of the service after the boot's

Entry == {"none", "dir", "link"} \cup Content  \* "link" leads to a directory elsewhere

ASSUME SaveAssumption ==
  /\ Bound \subseteq Route
  /\ Above \in [Path -> SUBSET Path]
  /\ \A p \in Path : p \notin Above[p] /\ \A q \in Above[p] : Above[q] \subseteq Above[p]
  /\ Content \cap {"none", "dir", "link"} = {}
  /\ MaxFaults \in Nat /\ MaxReruns \in Nat

\* A tree on a disk is finite, however deep.
ASSUME TreeAssumption == IsFiniteSet(Path)

VARIABLES
  legacy,   \* the tree at the emulator's own path, whatever is mounted over it
  saves,    \* the tree at the destination
  mounted,  \* routes whose destination is mounted over the legacy tree
  pc,       \* the service: between two trees, moving, done or failed
  todo,     \* routes it has not come to
  cur,      \* the route it is at
  left,     \* entries it has listed and not come to
  frontend, \* the display manager runs
  faults, reruns

trees   == <<legacy, saves>>
service == <<pc, todo, cur, left>>
bounds  == <<faults, reruns>>
vars    == <<trees, mounted, service, frontend, bounds>>

\* A tree: every entry lies in directories.
Trees == {t \in [Path -> Entry] : \A p \in Path : t[p] # "none" => \A q \in Above[p] : t[q] = "dir"}

\* What the service finds at the emulator's own path.
Source(r) == IF r \in mounted THEN saves[r] ELSE legacy[r]

-----------------------------------------------------------------------------
(* The service.                                                            *)

\* Mutant of Conflicts: two files of one name pass, whatever they hold.
MutConflicts(r) ==
  {p \in Path : /\ Source(r)[p] # "none" /\ saves[r][p] # "none"
                /\ ~(Source(r)[p] = "dir" /\ saves[r][p] = "dir")
                /\ ~(Source(r)[p] \in Content /\ saves[r][p] \in Content)}

\* Mutant of Conflicts: a directory that is there already is in the way.
MutConflictsOfDirs(r) ==
  {p \in Path : /\ Source(r)[p] # "none" /\ saves[r][p] # "none"
                /\ ~(Source(r)[p] \in Content /\ saves[r][p] = Source(r)[p])}

\* What the preflight refuses: anything in the way but a directory of a directory and a file of a
\* file that is the same.
Conflicts(r) ==
  {p \in Path : /\ Source(r)[p] # "none" /\ saves[r][p] # "none"
                /\ ~(Source(r)[p] = "dir" /\ saves[r][p] = "dir")
                /\ ~(Source(r)[p] \in Content /\ saves[r][p] = Source(r)[p])}

\* The preflight finds nothing in the way of the tree.
Begin(r) ==
  /\ pc = "route"
  /\ r \in todo
  /\ Conflicts(r) = {}
  /\ pc' = "move"
  /\ todo' = todo \ {r}
  /\ cur' = r
  /\ left' = {p \in Path : Source(r)[p] # "none"}
  /\ UNCHANGED <<trees, mounted, frontend, bounds>>

\* Mutant of Refuse: the other trees are migrated all the same.
MutRefuse(r) ==
  /\ pc = "route"
  /\ r \in todo
  /\ Conflicts(r) # {}
  /\ todo' = todo \ {r}
  /\ UNCHANGED <<trees, mounted, pc, cur, left, frontend, bounds>>

\* The preflight refuses, and with this tree all that were to follow.
Refuse(r) ==
  /\ pc = "route"
  /\ r \in todo
  /\ Conflicts(r) # {}
  /\ pc' = "failed"
  /\ UNCHANGED <<trees, mounted, todo, cur, left, frontend, bounds>>

\* Bottom up: what lies deeper comes before, and the files of a directory before its directories.
Turn(p) ==
  /\ pc = "move"
  /\ p \in left
  /\ \A q \in left : Above[p] \subseteq Above[q] =>
       /\ Above[q] = Above[p]
       /\ Source(cur)[q] \in Content => Source(cur)[p] \in Content

\* The destination's tree with the directories an entry needs, and the entry itself.
With(t, p, e) ==
  [q \in Path |-> IF q = p THEN e ELSE IF q \in Above[p] /\ t[q] = "none" THEN "dir" ELSE t[q]]

Without(t, p) == [t EXCEPT ![p] = "none"]

\* A file that is at the destination is removed here; the preflight has found it the same.
DropFile(p) ==
  /\ Turn(p)
  /\ Source(cur)[p] \in Content
  /\ saves[cur][p] # "none"
  /\ IF cur \in mounted
     THEN saves' = [saves EXCEPT ![cur] = Without(@, p)] /\ UNCHANGED legacy
     ELSE legacy' = [legacy EXCEPT ![cur] = Without(@, p)] /\ UNCHANGED saves
  /\ left' = left \ {p}
  /\ UNCHANGED <<mounted, pc, todo, cur, frontend, bounds>>

\* Any other file is renamed.
MoveFile(p) ==
  /\ Turn(p)
  /\ Source(cur)[p] \in Content
  /\ saves[cur][p] = "none"
  /\ saves' = [saves EXCEPT ![cur] = With(@, p, legacy[cur][p])]
  /\ legacy' = [legacy EXCEPT ![cur] = Without(@, p)]
  /\ left' = left \ {p}
  /\ UNCHANGED <<mounted, pc, todo, cur, frontend, bounds>>

\* Nothing lies in the directory any more.
Empty(t, p) == \A q \in Path : p \in Above[q] => t[q] = "none"

\* A directory, or a link to one, is made at the destination, and removed here if it is empty.  A
\* link stays, its target not being empty.
MoveDir(p) ==
  /\ Turn(p)
  /\ Source(cur)[p] \in {"dir", "link"}
  /\ saves[cur][p] \in {"none", "dir"}
  /\ LET made   == With(saves[cur], p, "dir")
         leaves == Source(cur)[p] = "dir" /\ Empty(Source(cur), p)
     IN IF cur \in mounted
        THEN /\ saves' = [saves EXCEPT ![cur] = IF leaves THEN Without(made, p) ELSE made]
             /\ UNCHANGED legacy
        ELSE /\ saves' = [saves EXCEPT ![cur] = made]
             /\ legacy' = [legacy EXCEPT ![cur] = IF leaves THEN Without(@, p) ELSE @]
  /\ left' = left \ {p}
  /\ UNCHANGED <<mounted, pc, todo, cur, frontend, bounds>>

\* Mutant of MoveFails: a file is copied, and a copy that fails leaves what it has come to.
MutMoveFails(p) ==
  /\ Turn(p)
  /\ faults < MaxFaults
  /\ faults' = faults + 1
  /\ pc' = "failed"
  /\ \E c \in Content : saves' = [saves EXCEPT ![cur] = With(@, p, c)]
  /\ UNCHANGED <<legacy, mounted, todo, cur, left, frontend, reruns>>

\* A file operation fails, or the entry is gone: the service ends where it is.  The
\* directories it lies in may have been made.
MoveFails(p) ==
  /\ Turn(p)
  /\ faults < MaxFaults
  /\ faults' = faults + 1
  /\ pc' = "failed"
  /\ \/ UNCHANGED saves
     \/ Source(cur)[p] # "none" /\ saves' = [saves EXCEPT ![cur] = With(@, p, @[p])]
  /\ UNCHANGED <<legacy, mounted, todo, cur, left, frontend, reruns>>

\* The removal of a link whose target is empty fails, the directory having been made.
LinkFails(p) ==
  /\ Turn(p)
  /\ Source(cur)[p] = "link"
  /\ saves[cur][p] = "none"
  /\ saves' = [saves EXCEPT ![cur] = With(@, p, "dir")]
  /\ pc' = "failed"
  /\ UNCHANGED <<legacy, mounted, todo, cur, left, frontend, bounds>>

EndTree ==
  /\ pc = "move"
  /\ left = {}
  /\ pc' = "route"
  /\ UNCHANGED <<trees, mounted, todo, cur, left, frontend, bounds>>

Done ==
  /\ pc = "route"
  /\ todo = {}
  /\ pc' = "done"
  /\ UNCHANGED <<trees, mounted, todo, cur, left, frontend, bounds>>

Migrate ==
  \/ \E r \in Route : Begin(r) \/ Refuse(r)
  \/ \E p \in Path : DropFile(p) \/ MoveFile(p) \/ MoveDir(p) \/ MoveFails(p) \/ LinkFails(p)
  \/ EndTree \/ Done

-----------------------------------------------------------------------------
(* The units after it, and the surroundings.                               *)

\* A bind mount is started when the service has succeeded.
Mount(r) ==
  /\ pc = "done"
  /\ r \in Bound \ mounted
  /\ mounted' = mounted \cup {r}
  /\ UNCHANGED <<trees, service, frontend, bounds>>

\* Mutant of StartFrontend: the target requires a mount of every route, also of one by setting.
MutStartFrontend ==
  /\ pc = "done"
  /\ mounted = Route
  /\ ~frontend
  /\ frontend' = TRUE
  /\ UNCHANGED <<trees, mounted, service, bounds>>

\* The display manager requires the routes' target, and the target the service and every mount.
StartFrontend ==
  /\ pc = "done"
  /\ mounted = Bound
  /\ ~frontend
  /\ frontend' = TRUE
  /\ UNCHANGED <<trees, mounted, service, bounds>>

\* External: an emulator writes or removes a save, at the destination by mount or by setting.
Play(r, p) ==
  /\ frontend
  /\ saves[r][p] \in Content \cup {"none"}
  /\ \A q \in Above[p] : saves[r][q] = "dir"
  /\ \E c \in Content \cup {"none"} : saves' = [saves EXCEPT ![r] = [@ EXCEPT ![p] = c]]
  /\ UNCHANGED <<legacy, mounted, service, frontend, bounds>>

\* The target is asked for again: by a switch of the configuration, under the running frontend, or
\* by a restart of the display manager, which waits for it.
Rerun ==
  /\ pc \in {"done", "failed"}
  /\ reruns < MaxReruns
  /\ reruns' = reruns + 1
  /\ pc' = "route"
  /\ todo' = Route
  /\ frontend' \in {frontend, FALSE}
  /\ UNCHANGED <<trees, mounted, cur, left, faults>>

\* The box starts: nothing is mounted, and the service is the first to run.
Boots ==
  /\ pc' = "route"
  /\ todo' = Route
  /\ mounted' = {}
  /\ frontend' = FALSE
  /\ UNCHANGED <<trees, cur, left, reruns>>

PowerLoss ==
  /\ faults < MaxFaults
  /\ faults' = faults + 1
  /\ Boots

\* The box is switched off and on again: from the frontend, or because there is none.
Reboot ==
  /\ pc = "failed" \/ (pc = "done" /\ frontend)
  /\ Boots
  /\ UNCHANGED faults

\* A boot after an upgrade that declares the routes: any two trees.
Init ==
  /\ legacy \in [Route -> Trees]
  /\ saves \in [Route -> Trees]
  /\ mounted = {}
  /\ pc = "route"
  /\ todo = Route
  /\ cur \in Route
  /\ left = {}
  /\ frontend = FALSE
  /\ faults = 0 /\ reruns = 0

Next ==
  \/ Migrate
  \/ \E r \in Route : Mount(r)
  \/ StartFrontend
  \/ \E r \in Route, p \in Path : Play(r, p)
  \/ Rerun
  \/ PowerLoss
  \/ Reboot

Spec == Init /\ [][Next]_vars

\* The service's own steps and the units after it are taken, and a box without a frontend is
\* started again.  Nothing is assumed of the emulators.
Progress == Migrate \/ (\E r \in Route : Mount(r)) \/ StartFrontend
            \/ (pc = "failed" /\ Reboot)

FairSpec == Spec /\ WF_vars(Progress)

-----------------------------------------------------------------------------
(* Properties.                                                             *)

\* The variables stay within their intended ranges; both trees are trees.
TypeOK ==
  /\ legacy \in [Route -> Trees] /\ saves \in [Route -> Trees]
  /\ mounted \subseteq Bound
  /\ pc \in {"route", "move", "done", "failed"}
  /\ todo \subseteq Route /\ cur \in Route /\ left \subseteq Path
  /\ frontend \in BOOLEAN
  /\ faults \in 0..MaxFaults /\ reruns \in 0..MaxReruns

\* What the family has of a route: where a file is, and what it holds.
Kept(r) == {e \in Path \X Content : legacy[r][e[1]] = e[2] \/ saves[r][e[1]] = e[2]}

\* No step of the service costs a file of a route that is not mounted, whatever failed, was
\* interrupted or was there before.
NoSaveLost == [][Migrate => \A r \in Route \ mounted : Kept(r) \subseteq Kept(r)']_vars

\* No mount covers a file, and no frontend runs before every file of every route is where its
\* emulator will look.
NothingHidden ==
  mounted # {} \/ frontend => \A r \in Route, p \in Path : legacy[r][p] \notin Content

\* A tree that was interrupted between any two moves is not in its own way at the next attempt;
\* only a link to a directory is, once a directory has been made for it and the link has stayed.
RetrySafe ==
  [][Migrate => \A r \in Route \ mounted : \A p \in Conflicts(r)' :
       p \in Conflicts(r) \/ legacy[r][p] = "link"]_vars

\* Two trees that do not differ, none of them with a link in it.
Clear == \A r \in Route : Conflicts(r) = {} /\ \A p \in Path : legacy[r][p] # "link"

\* Such trees never keep the frontend from coming up in the end, however often a boot fails or
\* is cut short in the middle of them.
ComesUp == Clear => <>frontend

\* The service can run at any time.  The code breaks this when it runs over a mounted route: both
\* of its trees are one then, every file is in the way of itself, found the same, and removed.
SafeToRerun == [][Migrate => \A r \in Route : Kept(r) \subseteq Kept(r)']_vars

-----------------------------------------------------------------------------
(* The inductive invariant.                                                *)

\* No file is left at the emulator's own path.
Clean(r) == \A p \in Path : legacy[r][p] \notin Content

\* A directory that is left there is at the destination too.
Made(r) == \A p \in Path : legacy[r][p] = "dir" => saves[r][p] = "dir"

\* Nothing is in the way of a file or a directory of the tree.
Free(r) ==
  \A p \in Path :
    /\ legacy[r][p] \in Content => saves[r][p] \in {"none", legacy[r][p]}
    /\ legacy[r][p] = "dir" => saves[r][p] \in {"none", "dir"}

\* The tree in hand stays free, and what the service has come to is dealt with.
InHand ==
  pc = "move" /\ cur \notin mounted =>
    /\ Free(cur)
    /\ \A p \in Path : legacy[cur][p] \in Content => p \in left
    /\ \A p \in Path : legacy[cur][p] = "dir" => p \in left \/ saves[cur][p] = "dir"

\* So is every tree the service is done with.
BehindIt ==
  \A r \in Route \ todo : pc \in {"route", "done"} \/ (pc = "move" /\ r # cur) =>
    Clean(r) /\ (r \in mounted \/ Made(r))

\* Emulators run over trees that have been dealt with, also while the service runs again.
UnderFrontend == frontend => \A r \in Route \ mounted : Made(r)

MoveInv ==
  /\ pc = "move" => cur \notin todo
  /\ pc = "done" => todo = {}
  /\ InHand
  /\ BehindIt
  /\ UnderFrontend

SaveInv == TypeOK /\ MoveInv /\ NothingHidden
=============================================================================
