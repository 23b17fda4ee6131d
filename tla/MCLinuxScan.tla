----------------------------- MODULE MCLinuxScan -----------------------------
(* Instance of LinuxScan for TLC. *)
EXTENDS LinuxScan
===============================================================================
