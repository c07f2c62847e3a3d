-------------------------- MODULE ControllersReport --------------------------
(***************************************************************************)
(* The report of the controllers:                                          *)
(* src/pkgs/emubox-controllers-status/emubox_controllers_status.py.  It    *)
(* reads udev's database once and then, event node by event node, the      *)
(* vendor and the product the device there reports, while pads come and go *)
(* and the kernel gives their node to the next device.                     *)
(*                                                                         *)
(* The ports' lines are left out: a port's occupancy is no finding.  What  *)
(* is plugged in is followed while the report looks, and anything can be   *)
(* plugged in when it begins.                                              *)
(***************************************************************************)
EXTENDS Naturals

CONSTANTS
  Event,     \* event nodes
  Device,    \* input devices: records of pad (udev marks it a joystick), vendor, product
  Accepted,  \* accepted modes: records of vendor, product
  MaxPlugs   \* bound: devices plugged in or unplugged

\* What stands for a node without a device.
Unplugged == [pad |-> FALSE, vendor |-> "none", product |-> "none"]

ASSUME MaxPlugsAssumption == MaxPlugs \in Nat

VARIABLES
  bus,       \* the device at each event node, while the report looks
  plugs,     \* plugs and unplugs so far
  conPc,     \* what the report does
  nodes,     \* joysticks of the database still to be examined
  node,      \* the one whose vendor was read
  vendor,    \* what it reported
  warned,    \* an unaccepted mode was found
  conCode,   \* the report's exit status
  \* History, read by no action's guard.
  steady     \* nodes whose device has not changed since the report began

Looking == {"database", "vendor", "product"}
Empty   == [e \in Event |-> Unplugged]

busVars == <<bus, plugs, steady>>
conVars == <<conPc, nodes, node, vendor, warned, conCode>>
controllersVars == <<busVars, conVars>>

Vendors == {d.vendor : d \in Device} \cup {"none"}

ControllersTypeOK ==
  /\ bus \in [Event -> Device \cup {Unplugged}]
  /\ plugs \in 0..MaxPlugs
  /\ conPc \in {"none", "exited"} \cup Looking
  /\ nodes \subseteq Event /\ node \in Event \cup {"none"} /\ vendor \in Vendors
  /\ warned \in BOOLEAN
  /\ conCode \in {"none", "0", "1", "3", "killed"}
  /\ steady \subseteq Event

\* External: a device goes, or the next one takes a free node.
Plug(e) ==
  /\ conPc \in Looking
  /\ plugs < MaxPlugs
  /\ plugs' = plugs + 1
  /\ steady' = steady \ {e}
  /\ \E d \in Device \cup {Unplugged} :
       /\ d = Unplugged <=> bus[e] # Unplugged
       /\ bus' = [bus EXCEPT ![e] = d]
  /\ UNCHANGED conVars

\* The event nodes udev marks joysticks.
Joysticks == {e \in Event : bus[e].pad}

ControllersStart ==
  /\ conPc' = "database"
  /\ bus' \in [Event -> Device \cup {Unplugged}]
  /\ steady' = Event
  /\ UNCHANGED <<plugs, nodes, node, vendor, warned, conCode>>

\* The process ends with status code, by itself or killed.
ControllersEnd(code) ==
  /\ conPc' = "exited"
  /\ conCode' = code
  /\ bus' = Empty /\ plugs' = 0 /\ steady' = Event
  /\ nodes' = {} /\ node' = "none" /\ vendor' = "none" /\ warned' = FALSE

ReadDatabase ==
  /\ conPc = "database"
  /\ nodes' = Joysticks
  /\ conPc' = "vendor"
  /\ UNCHANGED <<busVars, node, vendor, warned, conCode>>

\* The vendor of the device that has the node now; a node without one is passed over.
ReadVendor(e) ==
  /\ conPc = "vendor"
  /\ e \in nodes
  /\ nodes' = nodes \ {e}
  /\ IF bus[e] = Unplugged
     THEN UNCHANGED <<conPc, node, vendor>>
     ELSE conPc' = "product" /\ node' = e /\ vendor' = bus[e].vendor
  /\ UNCHANGED <<busVars, warned, conCode>>

\* Mutant of ReadProduct: the last device examined decides.
MutReadProduct ==
  /\ conPc = "product"
  /\ conPc' = "vendor"
  /\ warned' = IF bus[node] = Unplugged THEN warned
               ELSE [vendor |-> vendor, product |-> bus[node].product] \notin Accepted
  /\ UNCHANGED <<busVars, nodes, node, vendor, conCode>>

\* The product, and whether the two are an accepted mode.
ReadProduct ==
  /\ conPc = "product"
  /\ conPc' = "vendor"
  /\ warned' = \/ warned
               \/ /\ bus[node] # Unplugged
                  /\ [vendor |-> vendor, product |-> bus[node].product] \notin Accepted
  /\ UNCHANGED <<busVars, nodes, node, vendor, conCode>>

ControllersExit ==
  /\ conPc = "vendor"
  /\ nodes = {}
  /\ ControllersEnd(IF warned THEN "1" ELSE "0")

\* The database cannot be read, or anything else of the report's own fails.
ControllersFail ==
  /\ conPc \in Looking
  /\ ControllersEnd("3")

Controllers ==
  \/ \E e \in Event : Plug(e)
  \/ ReadDatabase \/ ReadProduct \/ ControllersExit \/ ControllersFail
  \/ \E e \in Event : ReadVendor(e)

-----------------------------------------------------------------------------
(* What the report maintains, for the proofs.                              *)

Judged(e) == warned \/ [vendor |-> bus[e].vendor, product |-> bus[e].product] \in Accepted

\* A joystick that stays is still to be examined, half examined, accepted or warned of.
ExaminedInv ==
  /\ conPc \in {"vendor", "product"} =>
       \A e \in steady :
         bus[e].pad =>
           \/ e \in nodes
           \/ conPc = "product" /\ node = e /\ vendor = bus[e].vendor
           \/ Judged(e)
  /\ conPc = "product" => node \in Event
=============================================================================
