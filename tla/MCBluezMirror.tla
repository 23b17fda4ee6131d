---------------------------- MODULE MCBluezMirror ----------------------------
(* Instance of BluezMirror for TLC: two adapters, a device and a service  *)
(* of the device below the first.                                             *)
EXTENDS BluezMirror

CONSTANTS hci0, hci1, dev, service

MCPaths == {hci0, hci1, dev, service}

MCDepth == [p \in MCPaths |-> CASE p \in {hci0, hci1} -> 3
                                [] p = dev -> 4
                                [] p = service -> 5]

MCAbove == [p \in MCPaths |-> CASE p \in {hci0, hci1} -> {}
                                [] p = dev -> {hci0}
                                [] p = service -> {hci0, dev}]

MCRank == [p \in MCPaths |-> CASE p = hci0 -> 1
                               [] p = dev -> 2
                               [] p = service -> 3
                               [] p = hci1 -> 4]
===============================================================================
