----------------------------- MODULE MCPermissions ---------------------------
(* Instances of an incident and its permissions for TLC. *)
EXTENDS MCIncident, IncidentPermissions
=============================================================================
