-------------------------- MODULE MCEmergencyAdmins --------------------------
(* Small instances of EmergencyAdmins.  The ids of administrators are their order. *)
EXTENDS EmergencyAdmins

ThreeAdmins == 1..3

=============================================================================
