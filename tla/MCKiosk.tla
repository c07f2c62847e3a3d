------------------------------- MODULE MCKiosk -------------------------------
(* Small instances of Kiosk for TLC.                                       *)
EXTENDS Kiosk
=============================================================================
