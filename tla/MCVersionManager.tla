-------------------------- MODULE MCVersionManager --------------------------
(* Values for VersionManager. *)
EXTENDS VersionManager
MCVersions == 1..7
=============================================================================
