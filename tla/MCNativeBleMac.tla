---------------------------- MODULE MCNativeBleMac ----------------------------
(* Instance of NativeBleMac for TLC. *)
EXTENDS NativeBleMac
===============================================================================
