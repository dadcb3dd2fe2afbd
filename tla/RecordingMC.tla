------------------------------ MODULE RecordingMC ------------------------------
(* Values for the constants of Recording that a .cfg cannot write. *)
EXTENDS Recording, SchedulerMC
================================================================================
