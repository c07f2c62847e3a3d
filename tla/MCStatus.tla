------------------------------- MODULE MCStatus -------------------------------
(* A small instance of Status for TLC: an accepted pad, the same pad in another mode, and a *)
(* keyboard whose product, read after the first one's vendor, would be accepted.           *)
EXTENDS Status

MCDevice ==
  {[pad |-> TRUE,  vendor |-> "v1", product |-> "p1"],
   [pad |-> TRUE,  vendor |-> "v1", product |-> "p2"],
   [pad |-> FALSE, vendor |-> "v2", product |-> "p1"]}

MCAccepted == {[vendor |-> "v1", product |-> "p1"]}

MCPlace == [controllers |-> 1, library |-> 2, backups |-> 3]
=============================================================================
