--------------------------------- MODULE Boot ---------------------------------
(***************************************************************************)
(* The box from power on to the frontend: the units of the initrd in       *)
(* src/modules/persistence/default.nix, and after them the migration of    *)
(* saves, which SaveMigrate describes.                                     *)
(*                                                                         *)
(* The root subvolume is made anew before it is mounted; then the          *)
(* persisted directories are made and /etc/machine-id is bound to its      *)
(* persisted copy, before the system on the new root is activated.  The    *)
(* service manager starts these units twice: for the initrd's own target,  *)
(* and again, as far as they are not active, for the switch to the new     *)
(* root, when the root is mounted.                                         *)
(***************************************************************************)
EXTENDS SaveMigrate

VARIABLES
  stage,   \* "initrd", "switch" in the second transaction, "system" on the new root
  jobs,    \* units to be started
  active,  \* units that are active
  wipe,    \* rollback-root's script: "off", or what it does next
  root,    \* the @root subvolume: "absent", "blank", "used", "nested" with others in it
  old,     \* something of an earlier boot is in it
  binds,   \* mounts on /etc/machine-id
  dirs     \* the persisted directories are there

initrdVars == <<stage, jobs, active, wipe, root, old, binds, dirs>>
bootVars   == <<vars, initrdVars>>

Units == {"rollback-root", "sysroot.mount", "persist-dirs", "persist-machine-id", "activation"}

\* Mutant of Needs: the root is mounted whether or not it has been made anew.
MutNeeds(u) == IF u \in {"persist-dirs", "persist-machine-id"} THEN {"sysroot.mount"}
               ELSE IF u = "activation" THEN Units \ {"rollback-root", "activation"} ELSE {}

\* The units that u requires and is ordered after.
Needs(u) == IF u = "sysroot.mount" THEN {"rollback-root"}
            ELSE IF u \in {"persist-dirs", "persist-machine-id"} THEN {"sysroot.mount"}
            ELSE IF u = "activation" THEN Units \ {"rollback-root", "activation"} ELSE {}

\* A unit that stays active when it has been started: a mount, and these oneshots.
Remains(u) == u \in Units

Mounted == "sysroot.mount" \in active

-----------------------------------------------------------------------------
(* The service manager.                                                    *)

\* The turn of u has come: what it waits for is started.
Ready(u) == u \in jobs /\ Needs(u) \cap jobs = {}

Started(u) ==
  /\ jobs' = jobs \ {u}
  /\ active' = IF Remains(u) THEN active \cup {u} ELSE active

\* A unit fails, or a command of its script: what requires it is not started.
UnitFails(u) ==
  /\ Ready(u)
  /\ faults < MaxFaults
  /\ faults' = faults + 1
  /\ jobs' = {v \in jobs \ {u} : u \notin Needs(v) /\ \A w \in Needs(v) : u \notin Needs(w)}
  /\ wipe' = "off"
  /\ UNCHANGED <<stage, active, root, old, binds, dirs, trees, mounted, service, frontend, reruns>>

\* The initrd's target is reached with a root: the units of the second transaction.
SwitchRoot ==
  /\ stage = "initrd"
  /\ jobs = {} /\ Mounted
  /\ stage' = "switch"
  /\ jobs' = Units \ active
  /\ UNCHANGED <<active, wipe, root, old, binds, dirs, vars>>

-----------------------------------------------------------------------------
(* The units.                                                              *)

\* rollback-root starts, unless /sysroot is a mount point.
StartWipe ==
  /\ Ready("rollback-root")
  /\ wipe = "off"
  /\ IF Mounted
     THEN jobs' = jobs \ {"rollback-root"} /\ UNCHANGED wipe
     ELSE wipe' = (IF root = "absent" THEN "create" ELSE "delete") /\ UNCHANGED jobs
  /\ UNCHANGED <<stage, active, root, old, binds, dirs, vars>>

DeleteNested ==
  /\ wipe = "delete"
  /\ root = "nested"
  /\ root' = "used"
  /\ UNCHANGED <<stage, jobs, active, wipe, old, binds, dirs, vars>>

DeleteRoot ==
  /\ wipe = "delete"
  /\ root # "nested"
  /\ root' = "absent" /\ old' = FALSE
  /\ wipe' = "create"
  /\ UNCHANGED <<stage, jobs, active, binds, dirs, vars>>

CreateRoot ==
  /\ wipe = "create"
  /\ root' = "blank"
  /\ wipe' = "off"
  /\ Started("rollback-root")
  /\ UNCHANGED <<stage, old, binds, dirs, vars>>

MountRoot ==
  /\ Ready("sysroot.mount")
  /\ root # "absent"
  /\ Started("sysroot.mount")
  /\ UNCHANGED <<stage, wipe, root, old, binds, dirs, vars>>

PersistDirs ==
  /\ Ready("persist-dirs")
  /\ dirs' = TRUE
  /\ Started("persist-dirs")
  /\ UNCHANGED <<stage, wipe, root, old, binds, vars>>

\* The bind is made on a file of the root, which the script makes where it is not.
PersistMachineId ==
  /\ Ready("persist-machine-id")
  /\ binds' = binds + 1
  /\ root' = IF root = "blank" THEN "used" ELSE root
  /\ Started("persist-machine-id")
  /\ UNCHANGED <<stage, wipe, old, dirs, vars>>

\* External: the system is activated on the new root, PID 1 runs on it, and may make subvolumes.
Activate ==
  /\ stage = "switch"
  /\ Ready("activation")
  /\ Started("activation")
  /\ stage' = "system"
  /\ root' \in {"used", "nested"}
  /\ UNCHANGED <<wipe, old, binds, dirs, vars>>

Initrd ==
  \/ SwitchRoot
  \/ StartWipe \/ DeleteNested \/ DeleteRoot \/ CreateRoot
  \/ MountRoot \/ PersistDirs \/ PersistMachineId \/ Activate

-----------------------------------------------------------------------------
(* The boot.                                                               *)

\* The initrd comes up, with what the disk holds.
InitrdBegins ==
  /\ stage' = "initrd"
  /\ jobs' = Units \ {"activation"}
  /\ active' = {}
  /\ wipe' = "off"
  /\ old' = (root \in {"used", "nested"})
  /\ binds' = 0
  /\ UNCHANGED <<root, dirs>>

\* The initrd has come to a stop without a system.
Stopped == stage # "system" /\ jobs = {} /\ (stage = "initrd" => ~Mounted)

\* Someone switches the box off and on again.
Restart == Stopped /\ InitrdBegins /\ UNCHANGED vars

SystemSteps ==
  \/ Migrate
  \/ \E r \in Route : Mount(r)
  \/ StartFrontend
  \/ \E r \in Route, p \in Path : Play(r, p)
  \/ Rerun

BootInit ==
  /\ Init
  /\ stage = "initrd" /\ jobs = Units \ {"activation"} /\ active = {} /\ wipe = "off"
  /\ root \in {"blank", "used", "nested"}
  /\ old = (root \in {"used", "nested"})
  /\ binds = 0 /\ dirs \in BOOLEAN

BootNext ==
  \/ Initrd
  \/ \E u \in Units : UnitFails(u)
  \/ stage = "system" /\ SystemSteps /\ UNCHANGED initrdVars
  \/ PowerLoss /\ InitrdBegins
  \/ stage = "system" /\ Reboot /\ InitrdBegins
  \/ Restart

BootSpec == BootInit /\ [][BootNext]_bootVars

BootProgress ==
  \/ Initrd
  \/ stage = "system" /\ (Migrate \/ (\E r \in Route : Mount(r)) \/ StartFrontend)
       /\ UNCHANGED initrdVars
  \/ stage = "system" /\ pc = "failed" /\ Reboot /\ InitrdBegins
  \/ Restart

\* The units are started, and a box that does not come up is switched off and on again.
FairBootSpec == BootSpec /\ WF_bootVars(BootProgress)

-----------------------------------------------------------------------------
(* Properties.                                                             *)

\* What is mounted as the root is there, and holds nothing of an earlier boot: it is never
\* mounted before it is made anew, nor deleted while it is mounted, whatever failed, was cut
\* short or was started a second time.
RootIsFresh == Mounted => root # "absent" /\ ~old

\* The system never starts without its persisted directories and its persisted machine id, and
\* has the id bound once.
StatePersists == stage = "system" => dirs /\ binds = 1

\* A box that has not come up is never at a standstill: a unit's turn has come, the migration has
\* an entry it can move or refuse, or it is the family's to switch the box off and on.
NeverStuck == ~(stage = "system" /\ frontend) => ENABLED <<BootProgress>>_bootVars

-----------------------------------------------------------------------------
(* The inductive invariant.                                                *)

InitrdTypeOK ==
  /\ stage \in {"initrd", "switch", "system"}
  /\ jobs \subseteq Units /\ active \subseteq Units /\ jobs \cap active = {}
  /\ wipe \in {"off", "delete", "create"}
  /\ root \in {"absent", "blank", "used", "nested"}
  /\ binds = (IF "persist-machine-id" \in active THEN 1 ELSE 0)

\* Of the root: rollback-root is what stands between an earlier boot's and the mount.
RootInv ==
  /\ old => root \in {"used", "nested"}
  /\ wipe # "off" => "rollback-root" \in jobs /\ ~Mounted
  /\ wipe = "create" => root = "absent"
  /\ "rollback-root" \in active => root # "absent" /\ ~old
  /\ Mounted => "rollback-root" \in active
  /\ "sysroot.mount" \in jobs => "rollback-root" \in jobs \cup active

\* Of the transactions: nothing is left of them on the new root, and the second comes to its end
\* only with what it needs.
StageInv ==
  /\ stage # "initrd" => Mounted
  /\ stage = "system" => jobs = {} /\ {"persist-dirs", "persist-machine-id"} \subseteq active
  /\ "activation" \in jobs =>
       stage # "initrd" /\ {"persist-dirs", "persist-machine-id"} \subseteq jobs \cup active
  /\ "persist-dirs" \in active => dirs

\* Nothing of the migration has begun before the system has.
WaitInv == stage # "system" => pc = "route" /\ todo = Route /\ mounted = {} /\ ~frontend

FlagTypeOK == old \in BOOLEAN /\ dirs \in BOOLEAN

BootInv == InitrdTypeOK /\ FlagTypeOK /\ RootInv /\ StageInv /\ WaitInv
=============================================================================
