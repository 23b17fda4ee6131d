----------------------------- MODULE MCLinuxLink -----------------------------
(* Instance of LinuxLink for TLC. *)
EXTENDS LinuxLink
===============================================================================
