------------------------------- MODULE MCVmRun -------------------------------
(* VmRun with two vCPUs for TLC.                                           *)
EXTENDS VmRun
=============================================================================
