-------------------------------- MODULE Screen --------------------------------
(***************************************************************************)
(* What the person at the TV is promised of its picture.  The frontend and *)
(* the desktop are never there together and never replace each other       *)
(* directly; a desktop comes of a selection, takes that selection with it  *)
(* before it appears, and what ends leaves the TV dark until the next      *)
(* session or the greeter.  Kiosk implements this.                         *)
(***************************************************************************)
VARIABLES
  picture,    \* "dark", "frontend", "opening" (a desktop is coming), "desktop", "greeter"
  selection   \* a desktop was selected and not yet taken

Init == picture = "dark" /\ selection = FALSE

Select ==
  /\ selection' = TRUE
  /\ UNCHANGED picture

\* The frontend or the greeter appears on a dark TV.
Appear ==
  /\ picture = "dark"
  /\ picture' \in {"frontend", "greeter"}
  /\ UNCHANGED selection

\* One selection is taken by one desktop.
Open ==
  /\ picture = "dark"
  /\ selection
  /\ picture' = "opening"
  /\ selection' = FALSE

OpenDesktop ==
  /\ picture = "opening"
  /\ picture' = "desktop"
  /\ UNCHANGED selection

Vanish ==
  /\ picture' = "dark"
  /\ UNCHANGED selection

\* Power is lost: a selection does not survive it.
PowerOff == picture' = "dark" /\ selection' = FALSE

Next == Select \/ Appear \/ Open \/ OpenDesktop \/ Vanish \/ PowerOff

Spec == Init /\ [][Next]_<<picture, selection>>
=============================================================================
