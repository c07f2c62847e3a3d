------------------------------ MODULE BootProofs ------------------------------
(* Theorems about Boot, for any routes, trees and bounds.                  *)
EXTENDS Boot, SaveMigrateProofs

USE DEF initrdVars, bootVars, vars, trees, service, bounds

-----------------------------------------------------------------------------
(* The steps, one by one.                                                  *)

\* The two flags stay flags.
LEMMA FlagTyping == FlagTypeOK /\ BootNext => FlagTypeOK'
<1> SUFFICES ASSUME FlagTypeOK, BootNext PROVE FlagTypeOK'
  OBVIOUS
<1>1. UNCHANGED old \/ DeleteRoot \/ InitrdBegins
  <2>1. ASSUME Initrd PROVE UNCHANGED old \/ DeleteRoot
    BY <2>1 DEF Initrd, SwitchRoot, StartWipe, DeleteNested, CreateRoot, MountRoot, PersistDirs,
                PersistMachineId, Activate
  <2>2. ASSUME NEW u \in Units, UnitFails(u) PROVE UNCHANGED old
    BY <2>2 DEF UnitFails
  <2>3. ASSUME UNCHANGED initrdVars PROVE UNCHANGED old
    BY <2>3
  <2>4. Restart => InitrdBegins
    BY Zenon DEF Restart
  <2>5. QED
    <3>1. CASE Initrd
      BY <2>1, <3>1
    <3>2. CASE \E u \in Units : UnitFails(u)
      BY <2>2, <3>2
    <3>3. CASE UNCHANGED initrdVars
      BY <2>3, <3>3
    <3>4. CASE InitrdBegins
      BY <3>4
    <3>5. QED
      BY <2>4, <3>1, <3>2, <3>3, <3>4 DEF BootNext
<1>2. UNCHANGED dirs \/ PersistDirs
  BY DEF BootNext, Initrd, SwitchRoot, StartWipe, DeleteNested, DeleteRoot, CreateRoot, MountRoot,
         PersistMachineId, Activate, UnitFails, Restart, InitrdBegins
<1>3. ASSUME InitrdBegins PROVE old' \in BOOLEAN
  <2>1. old' = (root \in {"used", "nested"})
    BY <1>3 DEF InitrdBegins
  <2>2. QED
    BY <2>1
<1>4. QED
  BY <1>1, <1>2, <1>3, Zenon DEF FlagTypeOK, DeleteRoot, PersistDirs

OrderInv == InitrdTypeOK /\ RootInv /\ StageInv /\ WaitInv

\* The initrd comes up in order, whatever the disk holds.
LEMMA BeginsInOrder ==
  ASSUME InitrdTypeOK, FlagTypeOK, StageInv, InitrdBegins,
         pc' = "route", todo' = Route, mounted' = {}, ~frontend'
  PROVE  OrderInv'
<1>1. /\ stage' = "initrd" /\ jobs' = Units \ {"activation"} /\ active' = {} /\ wipe' = "off"
      /\ binds' = 0 /\ root' = root
  BY DEF InitrdBegins
<1>2. old' => root \in {"used", "nested"}
  BY DEF InitrdBegins
<1>3. InitrdTypeOK'
  BY <1>1 DEF InitrdTypeOK, Units
<1>4. RootInv'
  BY <1>1, <1>2 DEF RootInv, Mounted, Units
<1>5. StageInv'
  BY <1>1 DEF StageInv, Mounted, Units
<1>6. QED
  BY <1>3, <1>4, <1>5 DEF OrderInv, WaitInv

\* Each step of the initrd keeps its order.
LEMMA InitrdKeeps ==
  ASSUME BootInv, Initrd
  PROVE  OrderInv'
<1> USE DEF BootInv, OrderInv, InitrdTypeOK, RootInv, StageInv, WaitInv, Mounted, Ready, Started,
            Needs, Remains, Units
<1>1. CASE SwitchRoot
  BY <1>1 DEF SwitchRoot
<1>2. CASE StartWipe
  BY <1>2 DEF StartWipe
<1>3. CASE DeleteNested
  BY <1>3 DEF DeleteNested
<1>4. CASE DeleteRoot
  BY <1>4 DEF DeleteRoot
<1>5. CASE CreateRoot
  BY <1>5 DEF CreateRoot
<1>6. CASE MountRoot
  BY <1>6 DEF MountRoot
<1>7. CASE PersistDirs
  BY <1>7 DEF PersistDirs
<1>8. CASE PersistMachineId
  BY <1>8 DEF PersistMachineId
<1>9. CASE Activate
  BY <1>9 DEF Activate
<1>10. QED
  BY <1>1, <1>2, <1>3, <1>4, <1>5, <1>6, <1>7, <1>8, <1>9 DEF Initrd

\* A unit that fails takes with it what requires it.
LEMMA FailureKeeps ==
  ASSUME BootInv, NEW u \in Units, UnitFails(u)
  PROVE  OrderInv'
<1> USE DEF BootInv, OrderInv, InitrdTypeOK, RootInv, StageInv, WaitInv, Mounted, Ready, Needs, Units
<1>1. stage # "system"
  BY DEF UnitFails
<1>2. QED
  BY <1>1 DEF UnitFails

-----------------------------------------------------------------------------
(* The theorems.                                                           *)

\* The inductive invariant holds at the start.
LEMMA BootInitially == BootInit => BootInv
<1> SUFFICES ASSUME BootInit PROVE BootInv
  OBVIOUS
<1>1. FlagTypeOK
  <2>1. old = (root \in {"used", "nested"}) /\ dirs \in BOOLEAN
    BY DEF BootInit
  <2>2. QED
    BY <2>1 DEF FlagTypeOK
<1>2. old => root \in {"used", "nested"}
  BY DEF BootInit
<1>3. InitrdTypeOK /\ StageInv /\ WaitInv
  BY DEF BootInit, Init, InitrdTypeOK, StageInv, WaitInv, Mounted, Units
<1>4. RootInv
  BY <1>2 DEF BootInit, RootInv, Mounted, Units
<1>5. QED
  BY <1>1, <1>3, <1>4 DEF BootInv

\* Every step of a boot, and everything that cuts it short, keeps the invariant.
LEMMA BootKeeps == BootInv /\ [BootNext]_bootVars => BootInv'
<1> SUFFICES ASSUME BootInv, [BootNext]_bootVars PROVE BootInv'
  OBVIOUS
<1>0. CASE UNCHANGED bootVars
  BY <1>0 DEF BootInv, InitrdTypeOK, FlagTypeOK, RootInv, StageInv, WaitInv, Mounted
<1>1. CASE BootNext
  <2>1. FlagTypeOK'
    BY <1>1, FlagTyping DEF BootInv
  <2>2. ASSUME Initrd PROVE OrderInv'
    BY <2>2, InitrdKeeps
  <2>3. ASSUME NEW u \in Units, UnitFails(u) PROVE OrderInv'
    BY <2>3, FailureKeeps
  <2>4. ASSUME stage = "system" /\ SystemSteps /\ UNCHANGED initrdVars PROVE OrderInv'
    BY <2>4 DEF BootInv, OrderInv, InitrdTypeOK, RootInv, StageInv, WaitInv, Mounted
  <2>5. ASSUME PowerLoss \/ Reboot, InitrdBegins PROVE OrderInv'
    <3>1. pc' = "route" /\ todo' = Route /\ mounted' = {} /\ ~frontend'
      BY <2>5 DEF PowerLoss, Reboot, Boots
    <3>2. QED
      BY <2>5, <3>1, BeginsInOrder DEF BootInv
  <2>6. ASSUME Restart PROVE OrderInv'
    <3>1. pc' = "route" /\ todo' = Route /\ mounted' = {} /\ ~frontend'
      BY <2>6 DEF Restart, Stopped, BootInv, WaitInv
    <3>2. InitrdBegins
      BY <2>6, Zenon DEF Restart
    <3>3. QED
      BY <3>1, <3>2, BeginsInOrder DEF BootInv
  <2>7. OrderInv'
    BY <1>1, <2>2, <2>3, <2>4, <2>5, <2>6, Zenon DEF BootNext
  <2>8. QED
    BY <2>1, <2>7 DEF BootInv, OrderInv
<1>2. QED
  BY <1>0, <1>1

\* The initrd's units keep their order through failures, power losses and the second transaction
\* (modules/persistence/default.nix:25-160).
THEOREM BootInvariant == BootSpec => []BootInv
  BY BootInitially, BootKeeps, PTL DEF BootSpec

\* The root that is mounted is made for this boot and stays (modules/persistence/default.nix:29).
THEOREM RootIsMadeAnew == BootSpec => []RootIsFresh
<1>1. BootInv => RootIsFresh
  BY DEF BootInv, RootInv, RootIsFresh
<1>2. QED
  BY <1>1, BootInvariant, PTL

\* The system starts with its persisted directories and one bind of its machine id
\* (modules/persistence/default.nix:92-160).
THEOREM StateIsPersisted == BootSpec => []StatePersists
<1>1. BootInv => StatePersists
  BY DEF BootInv, InitrdTypeOK, StageInv, StatePersists
<1>2. QED
  BY <1>1, BootInvariant, PTL

\* The migration behaves behind the initrd as SaveMigrate says of it alone: every step of a boot is
\* one of its steps or none, a failure of the initrd's being a boot cut short.
THEOREM BootRunsMigration == BootSpec => Spec
<1>1. BootInit => Init
  BY DEF BootInit
<1>2. BootInv /\ [BootNext]_bootVars => [Next]_vars
  <2> SUFFICES ASSUME BootInv, [BootNext]_bootVars PROVE [Next]_vars
    OBVIOUS
  <2>1. CASE Initrd \/ Restart \/ UNCHANGED bootVars
    <3>1. UNCHANGED vars
      BY <2>1
      DEF Initrd, SwitchRoot, StartWipe, DeleteNested, DeleteRoot, CreateRoot, MountRoot, PersistDirs,
          PersistMachineId, Activate, Restart
    <3>2. QED
      BY <3>1
  <2>2. ASSUME NEW u \in Units, UnitFails(u) PROVE PowerLoss
    <3>1. stage # "system"
      BY <2>2 DEF UnitFails, BootInv, StageInv, Ready
    <3>2. QED
      BY <2>2, <3>1 DEF UnitFails, BootInv, WaitInv, PowerLoss, Boots
  <2>3. CASE stage = "system" /\ SystemSteps /\ UNCHANGED initrdVars
    BY <2>3, Zenon DEF SystemSteps, Next
  <2>4. QED
    BY <2>1, <2>2, <2>3, Zenon DEF BootNext, Next
<1>3. QED
  BY <1>1, <1>2, BootInvariant, PTL DEF BootSpec, Spec

\* So what is proved of the migration alone holds of the whole boot: no save is hidden or lost, and
\* an interrupted migration is not in its own way.
COROLLARY BootKeepsSaves == BootSpec => []NothingHidden /\ NoSaveLost /\ RetrySafe
  BY BootRunsMigration, NoFileHidden, SavesKept, RetriesAreSafe

-----------------------------------------------------------------------------
(* Nobody is stuck.  This theorem and that of liveness take                *)
(* []GuardsSuffice as their hypothesis: that an action whose guard holds   *)
(* is enabled, the one fact about ENABLED they need.                       *)

\* What the units of the initrd ask for.
UnitGuard ==
  \/ Ready("rollback-root") /\ wipe = "off"                              \* StartWipe
  \/ wipe = "delete" /\ root = "nested"                                 \* DeleteNested
  \/ wipe = "delete" /\ root # "nested"                                 \* DeleteRoot
  \/ wipe = "create"                                                    \* CreateRoot
  \/ Ready("sysroot.mount") /\ root # "absent"                           \* MountRoot
  \/ Ready("persist-dirs")                                              \* PersistDirs
  \/ Ready("persist-machine-id")                                        \* PersistMachineId
  \/ Ready("activation") /\ stage = "switch"                             \* Activate
  \/ stage = "initrd" /\ jobs = {} /\ Mounted                             \* SwitchRoot

\* What the moves of an entry ask for.
EntryGuard(p) ==
  /\ Turn(p)
  /\ \/ Source(cur)[p] \in Content /\ saves[cur][p] # "none"             \* DropFile
     \/ Source(cur)[p] \in Content /\ saves[cur][p] = "none"             \* MoveFile
     \/ Source(cur)[p] \in {"dir", "link"} /\ saves[cur][p] \in {"none", "dir"}    \* MoveDir

\* What the service and the units after it ask for.
ServiceGuard ==
  \/ pc = "route" /\ \E r \in todo : Conflicts(r) = {}                   \* Begin
  \/ pc = "route" /\ \E r \in todo : Conflicts(r) # {}                   \* Refuse
  \/ pc = "route" /\ todo = {}                                          \* Done
  \/ \E p \in Path : EntryGuard(p)
  \/ pc = "move" /\ left = {}                                           \* EndTree
  \/ pc = "done" /\ Bound \ mounted # {}                                \* Mount
  \/ pc = "done" /\ mounted = Bound /\ ~frontend                         \* StartFrontend

\* A guard that holds enables its action: the primed conjuncts only assign.
GuardsSuffice ==
  /\ UnitGuard => ENABLED <<BootProgress>>_bootVars
  /\ stage = "system" /\ ServiceGuard => ENABLED <<BootProgress>>_bootVars
  /\ stage = "system" /\ pc = "failed" => ENABLED <<BootProgress>>_bootVars     \* Reboot
  /\ Stopped => ENABLED <<BootProgress>>_bootVars                              \* Restart

\* The initrd's transactions come to no deadlock: what stands in a unit's way has its own turn,
\* and when no unit is left the root is switched to or the box has stopped.
LEMMA UnitsGoOn == BootInv /\ stage # "system" => UnitGuard \/ Stopped
<1> SUFFICES ASSUME BootInv, stage # "system"
             PROVE  UnitGuard \/ Stopped
  OBVIOUS
<1> USE DEF BootInv, InitrdTypeOK, RootInv, StageInv, Mounted, Ready, Needs, Units, UnitGuard
<1>1. CASE "rollback-root" \in jobs
  BY <1>1
<1>2. CASE "rollback-root" \notin jobs /\ "sysroot.mount" \in jobs
  BY <1>2
<1>3. CASE /\ "rollback-root" \notin jobs /\ "sysroot.mount" \notin jobs
           /\ "persist-dirs" \in jobs \/ "persist-machine-id" \in jobs
  BY <1>3
<1>4. CASE jobs = {"activation"}
  BY <1>4
<1>5. CASE jobs = {}
  BY <1>5 DEF Stopped
<1>6. QED
  BY <1>1, <1>2, <1>3, <1>4, <1>5

\* The service, and the units after it, come to none either: of the entries that are left one lies
\* deepest, is still there, and has nothing in its way that a move does not pass.
LEMMA ServiceGoesOn == SaveInv /\ Listed /\ ~frontend => ServiceGuard \/ pc = "failed"
<1> SUFFICES ASSUME SaveInv, Listed, ~frontend
             PROVE  ServiceGuard \/ pc = "failed"
  OBVIOUS
<1>1. TypeOK
  BY DEF SaveInv
<1>2. CASE pc = "route"
  BY <1>2 DEF ServiceGuard
<1>3. CASE pc = "move" /\ left # {}
  <2>1. PICK p \in left : Turn(p)
    BY <1>1, <1>3, TurnComes
  <2>2. p \in Path /\ cur \in Route
    BY <1>1, <2>1 DEF TypeOK
  <2>3. /\ Source(cur)[p] # "none"
        /\ Source(cur)[p] \in {"dir", "link"} => saves[cur][p] \in {"none", "dir"}
    BY <1>3, <2>1 DEF Listed
  <2>4. Source(cur)[p] \in Entry
    BY <1>1, <2>2 DEF TypeOK, Trees, Source
  <2>5. EntryGuard(p)
    BY <2>1, <2>3, <2>4 DEF Entry, EntryGuard
  <2>6. QED
    BY <2>2, <2>5 DEF ServiceGuard
<1>4. CASE pc = "move" /\ left = {}
  BY <1>4 DEF ServiceGuard
<1>5. CASE pc = "done"
  BY <1>1, <1>5 DEF TypeOK, ServiceGuard
<1>6. QED
  BY <1>1, <1>2, <1>3, <1>4, <1>5 DEF TypeOK

\* A box that has not come up always has a next step: a unit's turn has come, the migration has an
\* entry it can move or refuse, or it is switched off and on (modules/persistence/default.nix:25-160,
\* emubox_save_migrate.py:37-83, modules/saves/default.nix:62-95).
THEOREM NobodyIsStuck == BootSpec /\ []GuardsSuffice => []NeverStuck
<1>1. BootInv /\ SaveInv /\ Listed /\ GuardsSuffice => NeverStuck
  BY UnitsGoOn, ServiceGoesOn DEF GuardsSuffice, NeverStuck, BootInv, InitrdTypeOK
<1>2. QED
  BY <1>1, BootInvariant, BootRunsMigration, SaveInvariant, ListedHolds, PTL

-----------------------------------------------------------------------------
(* Trees that do not differ stay so until the frontend runs.               *)

\* Nothing is in the way of anything, and no link is left to be followed.
FreeTrees == \A r \in Route : Free(r) /\ \A p \in Path : legacy[r][p] # "link"

\* Trees that do not differ are free, nothing being mounted at the start.
LEMMA ClearIsFree == Init /\ Clear => FreeTrees
<1> SUFFICES ASSUME Init, Clear, NEW r \in Route
             PROVE  Free(r) /\ \A p \in Path : legacy[r][p] # "link"
  BY DEF FreeTrees
<1>1. r \notin mounted /\ Conflicts(r) = {} /\ \A p \in Path : legacy[r][p] # "link"
  BY DEF Init, Clear
<1>2. QED
  BY <1>1, PassedIsFree

\* A step in a tree that is mounted takes entries off the destination, and touches nothing else.
LEMMA MountedStep ==
  ASSUME SaveInv, Migrate, pc = "move", cur \in mounted, NEW q \in Path
  PROVE  legacy' = legacy /\ saves'[cur][q] \in {"none", saves[cur][q]}
<1> USE DEF SaveInv, Source
<1>1. saves \in [Route -> Trees] /\ cur \in Route /\ saves[cur] \in Trees /\ left \subseteq Path
  BY DEF TypeOK
<1>2. \A p \in Path : saves[cur][p] # "none" => \A a \in Above[p] : saves[cur][a] = "dir"
  BY <1>1 DEF Trees
<1>3. "dir" \notin Content /\ "none" \notin Content /\ "link" \notin Content
  BY SaveAssumption
<1>4. saves[cur] = [p \in Path |-> saves[cur][p]]
  BY <1>1 DEF Trees
<1>5. ASSUME NEW p \in Path, DropFile(p)
      PROVE  legacy' = legacy /\ saves'[cur][q] \in {"none", saves[cur][q]}
  BY <1>1, <1>4, <1>5 DEF DropFile, Without
<1>6. ASSUME NEW p \in Path
      PROVE  ~MoveFile(p) /\ ~LinkFails(p)
  BY <1>3 DEF MoveFile, LinkFails
<1>7. ASSUME NEW p \in Path, MoveDir(p)
      PROVE  legacy' = legacy /\ saves'[cur][q] \in {"none", saves[cur][q]}
  <2>1. saves[cur][p] = "dir"
    BY <1>7 DEF MoveDir
  <2>2. With(saves[cur], p, "dir") = saves[cur]
    BY <1>2, <1>4, <2>1 DEF With
  <2>3. QED
    BY <1>1, <1>4, <1>7, <2>2 DEF MoveDir, Without
<1>8. ASSUME NEW p \in Path, MoveFails(p)
      PROVE  legacy' = legacy /\ saves'[cur][q] \in {"none", saves[cur][q]}
  <2>1. saves[cur][p] # "none" => With(saves[cur], p, saves[cur][p]) = saves[cur]
    BY <1>2, <1>4 DEF With
  <2>2. QED
    BY <1>1, <1>8, <2>1 DEF MoveFails
<1>9. QED
  BY <1>5, <1>6, <1>7, <1>8 DEF Migrate, Begin, Refuse, EndTree, Done

\* Free trees stay free, whatever fails and is run again.
LEMMA FreeKept ==
  ASSUME SaveInv, FreeTrees, [Next]_vars, ~frontend
  PROVE  FreeTrees'
<1> SUFFICES ASSUME NEW r \in Route
             PROVE  Free(r)' /\ \A p \in Path : legacy'[r][p] # "link"
  BY DEF FreeTrees
<1>1. Free(r) /\ \A p \in Path : legacy[r][p] # "link"
  BY DEF FreeTrees
<1>2. CASE Migrate /\ r # cur
  BY <1>1, <1>2, OthersKept DEF Free, SaveInv
<1>3. CASE Migrate /\ pc # "move"
  BY <1>1, <1>3 DEF Free, Migrate, Begin, Refuse, DropFile, MoveFile, MoveDir, MoveFails, LinkFails,
     EndTree, Done, Turn
<1>4. CASE Migrate /\ pc = "move" /\ r = cur /\ cur \notin mounted
  <2>1. cur' = cur
    BY <1>4 DEF Migrate, Begin, Refuse, DropFile, MoveFile, MoveDir, MoveFails, LinkFails, EndTree,
       Done
  <2>2. Free(r)'
    BY <1>4, <2>1, StaysFree DEF Free
  <2>3. \A p \in Path : legacy'[r][p] # "link"
    BY <1>1, <1>4, MoveStep
  <2>4. QED
    BY <2>2, <2>3
<1>5. CASE Migrate /\ pc = "move" /\ r = cur /\ cur \in mounted
  BY <1>1, <1>5, MountedStep DEF Free
<1>6. CASE UNCHANGED trees
  BY <1>1, <1>6 DEF Free
<1>7. QED
  BY <1>2, <1>3, <1>4, <1>5, <1>6
     DEF Next, Mount, StartFrontend, Play, Rerun, PowerLoss, Reboot, Boots

\* While nothing is mounted, the service refuses no free tree and comes to no link in one: it ends
\* only where an operation fails.
LEMMA NoRefusal ==
  ASSUME SaveInv, FreeTrees, Migrate, mounted = {}, faults' = faults
  PROVE  pc' # "failed"
<1>1. \A r \in Route : Source(r) = legacy[r] /\ legacy[r] \in Trees
  BY DEF Source, SaveInv, TypeOK
<1>2. \A r \in Route : Conflicts(r) = {}
  BY <1>1 DEF FreeTrees, Free, Conflicts, Trees, Entry
<1>3. \A r \in Route : ~Refuse(r)
  BY <1>2 DEF Refuse
<1>4. \A p \in Path : ~LinkFails(p)
  BY <1>1 DEF LinkFails, FreeTrees, SaveInv, TypeOK
<1>5. \A p \in Path : ~MoveFails(p)
  BY DEF MoveFails, SaveInv, TypeOK
<1>6. QED
  BY <1>3, <1>4, <1>5 DEF Migrate, Begin, DropFile, MoveFile, MoveDir, Turn, EndTree, Done

-----------------------------------------------------------------------------
(* The box comes up.  A boot that has not come to the frontend is followed *)
(* from the last fault and the last new run of the service on.             *)

\* What the bounds on faults and runs exclude.
FaultsForEver == []<><<faults' # faults>>_bootVars
RerunsForEver == []<><<reruns' # reruns>>_bootVars

\* What a finite set excludes: one that shrinks, or grows within another, again and again.
KeepsTodo   == todo' \subseteq todo
KeepsLeft   == left' \subseteq left
KeepsMounts == mounted \subseteq mounted'
TodoForEver   == <>[][KeepsTodo]_bootVars /\ []<><<todo' # todo>>_bootVars
LeftForEver   == <>[][KeepsLeft]_bootVars /\ []<><<left' # left>>_bootVars
MountsForEver == <>[][KeepsMounts]_bootVars /\ []<><<mounted' # mounted>>_bootVars

Ok == BootInv /\ SaveInv /\ FreeTrees /\ ~frontend

\* The steps that are left: those of the initrd, of the service and the units after it, and the
\* family's.
Serves == stage = "system" /\ (Migrate \/ \E r \in Route : Mount(r)) /\ UNCHANGED initrdVars
Again  == stage = "system" /\ pc = "failed" /\ Reboot /\ InitrdBegins
Calm   == UNCHANGED <<faults, reruns>> /\ (Initrd \/ Serves \/ Again \/ Restart)

\* Without faults, new runs and a frontend there are no other steps.
LEMMA CalmSteps ==
  ASSUME Ok, ~frontend', BootNext, faults' = faults, reruns' = reruns
  PROVE  Calm
<1>1. faults \in Nat /\ reruns \in Nat /\ frontend \in BOOLEAN
  BY SaveAssumption DEF Ok, SaveInv, TypeOK
<1>2. ASSUME NEW u \in Units PROVE ~UnitFails(u)
  BY <1>1 DEF UnitFails
<1>3. /\ ~PowerLoss /\ ~Rerun /\ ~StartFrontend
      /\ \A r \in Route, p \in Path : ~Play(r, p)
  <2>1. ~PowerLoss
    BY <1>1 DEF PowerLoss
  <2>2. ~Rerun
    <3>1. Rerun => reruns' = reruns + 1
      BY Zenon DEF Rerun
    <3>2. QED
      BY <1>1, <3>1
  <2>3. ~StartFrontend
    BY DEF StartFrontend
  <2>4. \A r \in Route, p \in Path : ~Play(r, p)
    BY Zenon DEF Play, Ok
  <2>5. QED
    BY <2>1, <2>2, <2>3, <2>4
<1>4. Reboot => pc = "failed"
  BY DEF Reboot, Ok
<1>5. QED
  BY <1>2, <1>3, <1>4, Zenon DEF BootNext, SystemSteps, Calm, Serves, Again

\* Progress is one of them.
LEMMA ProgressIsCalm == BootProgress /\ ~frontend' => Initrd \/ Serves \/ Again \/ Restart
<1>1. StartFrontend => frontend'
  BY DEF StartFrontend
<1>2. QED
  BY <1>1, Zenon DEF BootProgress, Serves, Again

\* Nothing happens in the initrd once the system runs, and nothing of the system before.
LEMMA StagesApart ==
  ASSUME Ok
  PROVE  /\ Initrd \/ Restart => stage # "system" /\ pc = "route" /\ UNCHANGED vars
         /\ Serves \/ Again => stage = "system"
<1>1. Initrd \/ Restart => UNCHANGED vars
  BY DEF Initrd, SwitchRoot, StartWipe, DeleteNested, DeleteRoot, CreateRoot, MountRoot, PersistDirs,
         PersistMachineId, Activate, Restart
<1>2. Initrd \/ Restart => stage # "system"
  BY DEF Ok, BootInv, StageInv, RootInv, Initrd, SwitchRoot, StartWipe, DeleteNested, DeleteRoot,
         CreateRoot, MountRoot, PersistDirs, PersistMachineId, Activate, Restart, Stopped, Ready
<1>3. stage # "system" => pc = "route"
  BY DEF Ok, BootInv, WaitInv
<1>4. QED
  BY <1>1, <1>2, <1>3 DEF Serves, Again

-----------------------------------------------------------------------------
(* The service comes to no refusal after the next start of the box.        *)

\* What a start of the box leaves: a service that has nothing mounted until it is done.
Fresh  == pc # "failed" /\ (pc = "done" \/ mounted = {})
Failed == pc = "failed"

\* It stays so.
LEMMA FreshStays == Ok /\ Calm /\ Fresh => Fresh'
<1> SUFFICES ASSUME Ok, Calm, Fresh PROVE Fresh'
  OBVIOUS
<1>1. CASE Initrd \/ Restart
  BY <1>1, StagesApart DEF Fresh
<1>2. CASE Migrate
  <2>1. pc # "done"
    BY <1>2 DEF Migrate, Begin, Refuse, DropFile, MoveFile, MoveDir, MoveFails, LinkFails, Turn,
                EndTree, Done
  <2>2. mounted' = mounted
    BY <1>2 DEF Migrate, Begin, Refuse, DropFile, MoveFile, MoveDir, MoveFails, LinkFails, EndTree,
                Done
  <2>3. QED
    BY <1>2, <2>1, <2>2, NoRefusal DEF Fresh, Ok, Calm
<1>3. CASE \E r \in Route : Mount(r)
  BY <1>3 DEF Mount, Fresh
<1>4. QED
  BY <1>1, <1>2, <1>3 DEF Calm, Serves, Again, Fresh

\* A service that has ended stays so until the box is started again.
LEMMA FailedUntilAgain == Ok /\ Calm /\ Failed => Failed' \/ Fresh'
<1> SUFFICES ASSUME Ok, Calm, Failed PROVE Failed' \/ Fresh'
  OBVIOUS
<1>1. ~Initrd /\ ~Restart
  BY StagesApart DEF Failed
<1>2. ~Migrate /\ \A r \in Route : ~Mount(r)
  BY DEF Failed, Migrate, Begin, Refuse, DropFile, MoveFile, MoveDir, MoveFails, LinkFails, Turn,
         EndTree, Done, Mount
<1>3. Again => Fresh'
  BY DEF Again, Reboot, Boots, Fresh
<1>4. QED
  BY <1>1, <1>2, <1>3 DEF Calm, Serves

\* Starting it again is the only way on.
LEMMA OnlyAgain ==
  ASSUME Ok, Failed, Initrd \/ Serves \/ Again \/ Restart
  PROVE  Fresh'
<1>1. ~Initrd /\ ~Restart
  BY StagesApart DEF Failed
<1>2. ~Migrate /\ \A r \in Route : ~Mount(r)
  BY DEF Failed, Migrate, Begin, Refuse, DropFile, MoveFile, MoveDir, MoveFails, LinkFails, Turn,
         EndTree, Done, Mount
<1>3. QED
  BY <1>1, <1>2 DEF Again, Serves, Reboot, Boots, Fresh

\* A box that stays dark: trees that do not differ, no faults and no new runs of the service after
\* some time, and yet no frontend.
Dark == FairBootSpec /\ []GuardsSuffice /\ Clear /\ []~frontend /\ ~FaultsForEver /\ ~RerunsForEver

\* The invariants all hold of it.
LEMMA DarkIsOk == Dark => []Ok
<1>1. BootInit /\ Clear => FreeTrees
  BY ClearIsFree DEF BootInit
<1>2. SaveInv /\ FreeTrees /\ [Next]_vars /\ ~frontend => FreeTrees'
  BY FreeKept
<1>3. Ok <=> BootInv /\ SaveInv /\ FreeTrees /\ ~frontend
  BY DEF Ok
<1>4. QED
  BY <1>1, <1>2, <1>3, BootInvariant, BootRunsMigration, SaveInvariant, PTL
  DEF Dark, FairBootSpec, BootSpec, Spec

\* It comes to rest from everything but its own steps.
LEMMA DarkIsCalm == Dark => <>[][Calm]_bootVars
<1>1. Ok /\ ~frontend' /\ [BootNext]_bootVars /\ ~<<faults' # faults>>_bootVars
        /\ ~<<reruns' # reruns>>_bootVars => [Calm]_bootVars
  BY CalmSteps
<1>2. QED
  BY <1>1, DarkIsOk, PTL DEF Dark, FairBootSpec, BootSpec, FaultsForEver, RerunsForEver

\* And takes steps of its own for ever.
LEMMA DarkGoesOn == Dark => []<><<Initrd \/ Serves \/ Again \/ Restart>>_bootVars
<1>1. <<BootProgress>>_bootVars /\ ~frontend' => <<Initrd \/ Serves \/ Again \/ Restart>>_bootVars
  BY ProgressIsCalm
<1>2. ~frontend /\ NeverStuck => ENABLED <<BootProgress>>_bootVars
  BY DEF NeverStuck
<1>3. QED
  BY <1>1, <1>2, NobodyIsStuck, PTL DEF Dark, FairBootSpec

\* It does not fail for ever: the next start is the last that is needed.
LEMMA DarkFailsNoMore == Dark => <>[]~Failed
<1>1. Ok /\ [Calm]_bootVars =>
        /\ Fresh => Fresh'
        /\ Failed => Failed' \/ Fresh'
  <2>1. UNCHANGED bootVars => (Fresh => Fresh') /\ (Failed => Failed')
    BY DEF Fresh, Failed
  <2>2. QED
    BY <2>1, FreshStays, FailedUntilAgain
<1>2. Ok /\ Failed /\ <<Initrd \/ Serves \/ Again \/ Restart>>_bootVars => Fresh'
  BY OnlyAgain
<1>3. Fresh => ~Failed
  BY DEF Fresh, Failed
<1>4. QED
  BY <1>1, <1>2, <1>3, DarkIsOk, DarkIsCalm, DarkGoesOn, PTL

-----------------------------------------------------------------------------
(* The initrd comes to its end after its next start.                       *)

\* What a start of the initrd leaves: nothing that failed, in either transaction.
Whole ==
  /\ stage = "initrd" => "sysroot.mount" \in jobs \cup active /\ "activation" \notin jobs \cup active
  /\ stage = "switch" => "activation" \in jobs

\* It stays so, and then the initrd does not come to a stop.
LEMMA WholeStays ==
  /\ Ok /\ Calm /\ Whole => Whole' /\ ~Restart
  /\ Ok /\ Restart => Whole'
<1> USE DEF Whole, Ok, BootInv, InitrdTypeOK, RootInv, StageInv, Mounted, Ready, Started, Needs,
            Remains, Units
<1>1. InitrdBegins => Whole'
  BY DEF InitrdBegins
<1>2. ASSUME Ok, Initrd, Whole PROVE Whole'
  BY <1>2 DEF Initrd, SwitchRoot, StartWipe, DeleteNested, DeleteRoot, CreateRoot, MountRoot,
              PersistDirs, PersistMachineId, Activate
<1>3. ASSUME Ok, Whole PROVE ~Restart
  BY <1>3 DEF Restart, Stopped
<1>4. Serves /\ Whole => Whole'
  BY DEF Serves
<1>5. Restart => InitrdBegins
  BY Zenon DEF Restart
<1>6. QED
  BY <1>1, <1>2, <1>3, <1>4, <1>5 DEF Calm, Again

\* So it comes to a stop no more.
LEMMA DarkStopsNoMore == Dark => <>[][~Restart]_bootVars
<1>1. Ok /\ [Calm]_bootVars =>
        /\ Whole => Whole' /\ ([~Restart]_bootVars)
        /\ <<Restart>>_bootVars => Whole'
  <2>1. UNCHANGED bootVars => (Whole => Whole')
    BY DEF Whole
  <2>2. QED
    BY <2>1, WholeStays
<1>2. QED
  BY <1>1, DarkIsOk, DarkIsCalm, PTL

\* Where the initrd is: at a stage, with units to start, and with a root to wipe.
At(s)     == stage = s
ToStart(u) == u \in jobs
Wipes(w)  == wipe = w
Nested    == root = "nested"

\* The steps of a box that fails and stops no more.
Steady == Ok /\ (Initrd \/ Serves \/ UNCHANGED bootVars)

\* The stages follow one another.
LEMMA StagesFollow ==
  Steady => /\ At("switch") => At("switch")' \/ At("system")'
            /\ At("initrd") => At("initrd")' \/ At("switch")'
            /\ At("system") => At("system")'
<1> USE DEF Steady, At, Serves
<1>1. Ok /\ Initrd => stage # "system"
  BY StagesApart
<1>2. Initrd => stage' = stage \/ (stage = "initrd" /\ stage' = "switch") \/ stage' = "system"
  BY DEF Initrd, SwitchRoot, StartWipe, DeleteNested, DeleteRoot, CreateRoot, MountRoot, PersistDirs,
         PersistMachineId, Activate
<1>3. Initrd /\ stage' = "system" /\ stage # "system" => stage = "switch"
  BY DEF Initrd, SwitchRoot, StartWipe, DeleteNested, DeleteRoot, CreateRoot, MountRoot, PersistDirs,
         PersistMachineId, Activate
<1>4. QED
  BY <1>1, <1>2, <1>3

\* Within a stage, units are started and not asked for again.
LEMMA UnitsFollow ==
  ASSUME Steady, stage' = stage, NEW u \in Units
  PROVE  ToStart(u)' => ToStart(u)
<1>1. Initrd => jobs' \subseteq jobs \/ stage' # stage
  BY DEF Initrd, SwitchRoot, StartWipe, DeleteNested, DeleteRoot, CreateRoot, MountRoot, PersistDirs,
         PersistMachineId, Activate, Started
<1>2. QED
  BY <1>1 DEF Steady, Serves, ToStart

\* Between two starts of units, the root is wiped, once.
LEMMA WipeFollows ==
  ASSUME Steady, stage' = stage, jobs' = jobs
  PROVE  /\ Wipes("create") => Wipes("create")'
         /\ Wipes("delete") => Wipes("delete")' \/ Wipes("create")'
         /\ ~Nested => ~Nested'
         /\ Initrd /\ wipe' = wipe => Nested /\ ~Nested'
<1> USE DEF Wipes, Nested
<1>1. CASE Initrd
  <2> USE DEF Steady, Ok, BootInv, InitrdTypeOK, RootInv, StageInv, Ready, Started
  <2>1. ~SwitchRoot /\ ~CreateRoot /\ ~MountRoot /\ ~PersistDirs /\ ~PersistMachineId /\ ~Activate
    BY DEF SwitchRoot, CreateRoot, MountRoot, PersistDirs, PersistMachineId, Activate, Units
  <2>2. StartWipe => wipe = "off" /\ wipe' # "off" /\ root' = root
    BY DEF StartWipe
  <2>3. QED
    BY <1>1, <2>1, <2>2 DEF Initrd, DeleteNested, DeleteRoot
<1>2. CASE ~Initrd
  BY <1>2 DEF Steady, Serves
<1>3. QED
  BY <1>1, <1>2

\* A box that fails and stops no more comes to the system, or takes no step.
LEMMA InitrdEnds ==
  []Ok /\ <>[][Steady]_bootVars => <>[][~Initrd]_bootVars
<1> DEFINE SameStage == /\ At("initrd") <=> At("initrd")'
                        /\ At("switch") <=> At("switch")'
                        /\ At("system") <=> At("system")'
           SameJobs  == /\ ToStart("rollback-root") <=> ToStart("rollback-root")'
                        /\ ToStart("sysroot.mount") <=> ToStart("sysroot.mount")'
                        /\ ToStart("persist-dirs") <=> ToStart("persist-dirs")'
                        /\ ToStart("persist-machine-id") <=> ToStart("persist-machine-id")'
                        /\ ToStart("activation") <=> ToStart("activation")'
           SameWipe  == /\ Wipes("off") <=> Wipes("off")'
                        /\ Wipes("delete") <=> Wipes("delete")'
                        /\ Wipes("create") <=> Wipes("create")'
<1>1. Ok => /\ At("initrd") \/ At("switch") \/ At("system")
            /\ ~(At("initrd") /\ At("switch")) /\ ~(At("initrd") /\ At("system"))
            /\ ~(At("switch") /\ At("system"))
            /\ Wipes("off") \/ Wipes("delete") \/ Wipes("create")
            /\ ~(Wipes("off") /\ Wipes("delete")) /\ ~(Wipes("off") /\ Wipes("create"))
            /\ ~(Wipes("delete") /\ Wipes("create"))
  BY DEF Ok, BootInv, InitrdTypeOK, At, Wipes
<1>2. Ok /\ Ok' /\ SameStage => stage' = stage
  BY DEF Ok, BootInv, InitrdTypeOK, At
<1>3. Ok /\ Ok' /\ SameJobs => jobs' = jobs
  <2> SUFFICES ASSUME Ok, Ok', SameJobs PROVE jobs' = jobs
    OBVIOUS
  <2>1. jobs \subseteq Units /\ jobs' \subseteq Units
    BY DEF Ok, BootInv, InitrdTypeOK
  <2>2. \A u \in Units : u \in jobs <=> u \in jobs'
    BY DEF ToStart, Units
  <2>3. QED
    BY <2>1, <2>2
<1>4. Ok /\ Ok' /\ SameWipe => wipe' = wipe
  BY DEF Ok, BootInv, InitrdTypeOK, Wipes
<1>5. Ok /\ [Steady]_bootVars => Steady
  BY DEF Steady
<1>6. Steady /\ Ok' /\ SameStage =>
        /\ ToStart("rollback-root")' => ToStart("rollback-root")
        /\ ToStart("sysroot.mount")' => ToStart("sysroot.mount")
        /\ ToStart("persist-dirs")' => ToStart("persist-dirs")
        /\ ToStart("persist-machine-id")' => ToStart("persist-machine-id")
        /\ ToStart("activation")' => ToStart("activation")
  BY <1>2, UnitsFollow DEF Steady, Units
<1>7. Steady /\ Ok' /\ SameStage /\ SameJobs =>
        /\ Wipes("create") => Wipes("create")'
        /\ Wipes("delete") => Wipes("delete")' \/ Wipes("create")'
        /\ ~Nested => ~Nested'
        /\ Initrd /\ SameWipe => Nested /\ ~Nested'
  BY <1>2, <1>3, <1>4, WipeFollows DEF Steady
<1>8. UNCHANGED bootVars => SameStage /\ SameJobs /\ SameWipe
  BY DEF At, ToStart, Wipes
<1>9. []Ok /\ <>[][Steady]_bootVars => <>[][SameStage]_bootVars
  BY <1>1, <1>5, StagesFollow, PTL
<1> DEFINE Settled == Steady /\ Ok' /\ SameStage
<1>10. Ok /\ Ok' /\ [Steady]_bootVars /\ [SameStage]_bootVars => Settled
  BY <1>5, <1>8
<1>11. Settled =>
        /\ ToStart("rollback-root")' => ToStart("rollback-root")
        /\ ToStart("sysroot.mount")' => ToStart("sysroot.mount")
        /\ ToStart("persist-dirs")' => ToStart("persist-dirs")
        /\ ToStart("persist-machine-id")' => ToStart("persist-machine-id")
        /\ ToStart("activation")' => ToStart("activation")
  BY <1>6
<1> HIDE DEF Settled
<1>12. []Ok /\ <>[][Steady]_bootVars => <>[][SameJobs]_bootVars
  BY <1>9, <1>10, <1>11, PTL
<1> DEFINE Still == Steady /\ Ok' /\ SameStage /\ SameJobs
<1>13. Ok /\ Ok' /\ [Steady]_bootVars /\ [SameStage]_bootVars /\ [SameJobs]_bootVars => Still
  BY <1>5, <1>8
<1>14. Still =>
        /\ Wipes("create") => Wipes("create")'
        /\ Wipes("delete") => Wipes("delete")' \/ Wipes("create")'
  BY <1>7
<1>15. Still /\ Initrd /\ SameWipe => Nested /\ ~Nested'
  BY <1>7
<1>16. Still => (~Nested => ~Nested')
  BY <1>7
<1>17. Ok /\ [SameWipe]_bootVars => SameWipe
  BY <1>8
<1> HIDE DEF Still, SameStage, SameJobs
<1>18. []Ok /\ <>[][Steady]_bootVars => <>[][Still]_bootVars
  BY <1>9, <1>12, <1>13, PTL
<1>19. UNCHANGED bootVars => SameWipe /\ (~Nested => ~Nested') /\ ~<<Initrd>>_bootVars
  BY DEF Wipes, Nested
<1>20. []Ok /\ <>[][Still]_bootVars => <>[][SameWipe]_bootVars
  BY <1>1, <1>14, <1>19, PTL
<1> HIDE DEF SameWipe
<1>21. []Ok /\ <>[][Still]_bootVars => <>[][~Initrd]_bootVars
  BY <1>17, <1>19, <1>15, <1>16, <1>20, PTL
<1>22. QED
  BY <1>18, <1>21, PTL

-----------------------------------------------------------------------------
(* The service comes to its end.                                           *)

\* Where the service is.
Pc(c) == pc = c

\* The service takes routes from its list, entries from a route's, and then routes are mounted.
LEMMA ServiceFollows ==
  ASSUME Steady, ~Failed'
  PROVE  /\ KeepsTodo /\ KeepsMounts
         /\ todo' = todo =>
              /\ KeepsLeft
              /\ Pc("done") => Pc("done")'
              /\ Pc("route") => Pc("route")' \/ Pc("done")'
         /\ todo' = todo /\ left' = left /\ mounted' = mounted /\ pc' = pc => ~Serves
<1> USE DEF KeepsTodo, KeepsMounts, KeepsLeft, Pc, Failed
<1>1. ASSUME NEW r \in Route, Begin(r)
      PROVE  todo' \subseteq todo /\ todo' # todo /\ mounted' = mounted
  BY <1>1 DEF Begin
<1>2. \A r \in Route : ~Refuse(r)
  BY DEF Refuse
<1>3. ASSUME NEW p \in Path, DropFile(p) \/ MoveFile(p) \/ MoveDir(p)
      PROVE  /\ todo' = todo /\ mounted' = mounted /\ pc = "move" /\ pc' = pc
             /\ left' \subseteq left /\ left' # left
  BY <1>3 DEF DropFile, MoveFile, MoveDir, Turn
<1>4. \A p \in Path : ~MoveFails(p) /\ ~LinkFails(p)
  BY DEF MoveFails, LinkFails
<1>5. EndTree \/ Done => /\ todo' = todo /\ mounted' = mounted /\ left' = left /\ pc' # pc
                         /\ (pc = "move" /\ pc' = "route") \/ pc' = "done"
  BY DEF EndTree, Done
<1>6. ASSUME NEW r \in Route, Mount(r)
      PROVE  /\ todo' = todo /\ left' = left /\ pc' = pc
             /\ mounted \subseteq mounted' /\ mounted' # mounted
  BY <1>6 DEF Mount
<1>7. Steady /\ ~Serves => UNCHANGED vars
  BY StagesApart DEF Steady
<1>8. CASE Serves
  <2>1. Migrate \/ \E r \in Route : Mount(r)
    BY <1>8 DEF Serves
  <2>2. QED
    BY <2>1, <1>1, <1>2, <1>3, <1>4, <1>5, <1>6 DEF Migrate
<1>9. CASE ~Serves
  BY <1>7, <1>9
<1>10. QED
  BY <1>8, <1>9

\* Unless a finite set changes for ever, the service and the mounts after it come to rest.
LEMMA ServiceEnds ==
  []Ok /\ <>[][Steady]_bootVars /\ <>[]~Failed =>
    \/ <>[][~Serves]_bootVars
    \/ TodoForEver \/ LeftForEver \/ MountsForEver
<1> DEFINE SamePc == /\ Pc("route") <=> Pc("route")'
                     /\ Pc("move") <=> Pc("move")'
                     /\ Pc("done") <=> Pc("done")'
           Goes == Steady /\ ~Failed /\ ~Failed' /\ Ok'
<1>1. Ok /\ ~Failed => /\ Pc("route") \/ Pc("move") \/ Pc("done")
                       /\ ~(Pc("route") /\ Pc("move")) /\ ~(Pc("route") /\ Pc("done"))
                       /\ ~(Pc("move") /\ Pc("done"))
  BY DEF Ok, SaveInv, TypeOK, Failed, Pc
<1>2. Goes /\ SamePc => pc' = pc
  BY DEF Steady, Ok, SaveInv, TypeOK, Failed, Pc
<1>3. Goes => KeepsTodo /\ KeepsMounts
  BY ServiceFollows
<1>4. Goes /\ todo' = todo => /\ KeepsLeft
                              /\ Pc("done") => Pc("done")'
                              /\ Pc("route") => Pc("route")' \/ Pc("done")'
  BY ServiceFollows
<1>5. Goes /\ todo' = todo /\ left' = left /\ mounted' = mounted /\ SamePc => ~<<Serves>>_bootVars
  BY <1>2, ServiceFollows
<1>6. Ok /\ Ok' /\ ~Failed /\ ~Failed' /\ [Steady]_bootVars => Goes
  BY DEF Steady
<1>7. /\ ~<<todo' # todo>>_bootVars => todo' = todo
      /\ ~<<left' # left>>_bootVars => left' = left
      /\ ~<<mounted' # mounted>>_bootVars => mounted' = mounted
  OBVIOUS
<1> HIDE DEF Goes
<1>8. []Ok /\ <>[][Steady]_bootVars /\ <>[]~Failed => <>[][Goes]_bootVars
  BY <1>6, PTL
<1>9. QED
  BY <1>1, <1>3, <1>4, <1>5, <1>6, <1>7, PTL DEF TodoForEver, LeftForEver, MountsForEver

\* What is left to a box that stays dark are the steps of the initrd and of the service.
LEMMA DarkIsSteady == Dark => <>[][Steady]_bootVars
<1>1. Ok /\ ~Failed /\ [Calm]_bootVars /\ [~Restart]_bootVars => [Steady]_bootVars
  BY Zenon DEF Calm, Again, Failed, Steady
<1>2. QED
  BY <1>1, DarkIsOk, DarkIsCalm, DarkFailsNoMore, DarkStopsNoMore, PTL

\* Trees that do not differ never keep the frontend from coming up, however often a boot fails or is
\* cut short: unless faults or new runs of the service never end, or a finite set changes for ever
\* (emubox_save_migrate.py:37-83, modules/saves/default.nix:62-95, modules/persistence/default.nix).
THEOREM BoxComesUp ==
  FairBootSpec /\ []GuardsSuffice =>
    \/ ComesUp
    \/ FaultsForEver \/ RerunsForEver
    \/ TodoForEver \/ LeftForEver \/ MountsForEver
<1>1. Dark => TodoForEver \/ LeftForEver \/ MountsForEver
  <2>1. Ok /\ ~Failed /\ <<Initrd \/ Serves \/ Again \/ Restart>>_bootVars
          /\ [~Initrd]_bootVars /\ [~Serves]_bootVars /\ [~Restart]_bootVars => FALSE
    BY DEF Again, Failed
  <2>2. QED
    BY <2>1, DarkIsOk, DarkIsSteady, DarkFailsNoMore, DarkStopsNoMore, DarkGoesOn, InitrdEnds,
       ServiceEnds, PTL
<1>2. QED
  BY <1>1, PTL DEF Dark, ComesUp
=============================================================================
