--------------------------- MODULE MCDBusConnection ---------------------------
(* Instance of DBusConnection for TLC. *)
EXTENDS DBusConnection
===============================================================================
