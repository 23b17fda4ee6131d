----------------------------- MODULE BluezMirror -----------------------------
(***************************************************************************)
(* The tree of objects the Linux backend keeps about BlueZ:                *)
(* BluezService::adapters, BluezAdapter::devices,                          *)
(* BluezDevice::gatt_services and BluezGattService::gatt_characteristics.  *)
(*                                                                         *)
(* BlueZ (external) exports objects on D-Bus, announces them with          *)
(* InterfacesAdded and InterfacesRemoved, and announces new property       *)
(* values with PropertiesChanged.  BluezService::init takes a snapshot     *)
(* with GetManagedObjects, then installs the match rule without which the  *)
(* bus routes no signal here.  If there is an adapter by then,             *)
(* NativeBleInternal starts the async thread, and run_async applies one    *)
(* signal per pass to the tree.                                            *)
(*                                                                         *)
(* A path is a model value.  What the code computes from its text is       *)
(* given: its number of elements (Depth), the paths that are a prefix of   *)
(* it (Above) and its place in the order of std::map (Rank).               *)
(***************************************************************************)
EXTENDS Naturals, Sequences

CONSTANTS Paths,       \* the object paths of adapters, devices, services, characteristics
          Depth,       \* path -> number of '/' in it
          Above,       \* path -> the paths that are a proper prefix of it
          Rank,        \* path -> place in lexicographic order
          Extended,    \* the paths whose objects may have further interfaces
          Values,      \* values of the one property of an object that is followed
          Blank,       \* the value of an object filed without that property
          MaxEvents    \* bound: the changes BlueZ makes

ASSUME DepthAssumption == Depth \in [Paths -> 3..6]
\* A prefix sorts first.  No path has two prefixes of one depth: with fewer than
\* eleven adapters no adapter's path is a prefix of another's.
ASSUME AboveAssumption ==
    /\ Above \in [Paths -> SUBSET Paths]
    /\ \A p \in Paths : \A d \in 3..(Depth[p] - 1) : \E q \in Above[p] : Depth[q] = d
    /\ \A p \in Paths : \A q \in Above[p] :
          /\ Depth[q] < Depth[p] /\ Above[q] \subseteq Above[p]
          /\ \A r \in Above[p] : Depth[q] = Depth[r] => q = r
ASSUME RankAssumption ==
    /\ Rank \in [Paths -> Nat]
    /\ \A p, q \in Paths : Rank[p] = Rank[q] => p = q
    /\ \A p \in Paths : \A q \in Above[p] : Rank[q] < Rank[p]
ASSUME ExtendedAssumption == Extended \subseteq Paths
ASSUME ValuesAssumption == Blank \notin Values
ASSUME EventsAssumption == MaxEvents \in Nat

AdapterDepth == 3

VARIABLES
    exported,  \* BlueZ: exported path -> current value of its property
    events,    \* BlueZ: number of changes made
    bus,       \* signals routed to this connection and not yet processed
    routed,    \* is the match rule for BlueZ's signals installed at the bus?
    phase,     \* how far the constructor has come
    snapshot,  \* the part of the GetManagedObjects reply not yet filed
    mirror,    \* the tree: path of an object it holds -> the value the object holds
    lost,      \* history: paths with a signal the bus never routed here
    cut,       \* history: adapters whose removal BlueZ did not mean
    shadowed   \* history: paths added again while the tree held an old object

bluezVars == <<exported, events>>
history == <<lost, cut, shadowed>>
vars == <<bluezVars, bus, routed, phase, snapshot, mirror, history>>

Signal == [op : {"added", "changed"}, path : Paths, val : Values]
            \cup [op : {"interface", "removed"}, path : Paths]

\* A map from some paths to values, and the map without entries.
IsMap(f, V) == DOMAIN f \subseteq Paths /\ f \in [DOMAIN f -> V]
NoObjects == [p \in {} |-> Blank]

\* Every object is reachable from an adapter: the walk from BluezService down to a
\* characteristic passes through the maps of all the objects above it.
IsTree(tree) == \A p \in DOMAIN tree : Above[p] \subseteq DOMAIN tree

TypeOK ==
    /\ IsMap(exported, Values)
    /\ events \in 0..MaxEvents
    /\ bus \in Seq(Signal)
    /\ routed \in BOOLEAN
    /\ phase \in {"new", "listed", "watching", "running", "absent", "crashed"}
    /\ IsMap(snapshot, Values)
    /\ IsMap(mirror, Values \cup {Blank})
    /\ IsTree(mirror)
    /\ lost \subseteq Paths
    /\ cut \subseteq Paths
    /\ shadowed \subseteq Paths

-------------------------------------------------------------------------------
(* add_path and remove_path, from BluezService down the tree.                *)

\* A path is filed by the object whose path is its longest proper prefix, if
\* the tree has that object.  emplace keeps the object there is, if there is one.
Claimed(tree, p) ==
    \/ Depth[p] = AdapterDepth
    \/ \E q \in DOMAIN tree : q \in Above[p] /\ Depth[q] = Depth[p] - 1

AddPath(tree, p, v) ==
    IF p \notin DOMAIN tree /\ Claimed(tree, p)
    THEN [q \in DOMAIN tree \cup {p} |-> IF q = p THEN v ELSE tree[q]]
    ELSE tree

\* Mutant of RemovePath: the objects filed under the adapter stay.
RemoveAdapterOnly(tree, p) ==
    IF Depth[p] = AdapterDepth
    THEN [q \in DOMAIN tree \ {p} |-> tree[q]]
    ELSE tree

\* Mutant of RemovePath: an adapter removes nothing either.
RemoveNothing(tree, p) == tree

\* adapters.erase destroys an adapter with everything filed under it.  The
\* remove_path of an adapter removes nothing yet (a TODO in the code).
RemovePath(tree, p) ==
    IF Depth[p] = AdapterDepth
    THEN [q \in {r \in DOMAIN tree : r # p /\ p \notin Above[r]} |-> tree[q]]
    ELSE tree

\* Mutant of SetOption: the signal is not passed down to the objects of a device.
SetOptionShallow(tree, p, v) ==
    IF p \in DOMAIN tree /\ Depth[p] <= 4 THEN [tree EXCEPT ![p] = v] ELSE tree

\* process_received_signal: the object with exactly this path takes the value.
SetOption(tree, p, v) ==
    IF p \in DOMAIN tree THEN [tree EXCEPT ![p] = v] ELSE tree

-------------------------------------------------------------------------------
(* BluezService::init and the constructor NativeBleInternal().               *)

\* Mutant of FileListed: the objects come in the order of the reply.
FileAnyOrder ==
    /\ phase = "listed"
    /\ \E p \in DOMAIN snapshot :
          /\ mirror' = AddPath(mirror, p, snapshot[p])
          /\ snapshot' = [q \in DOMAIN snapshot \ {p} |-> snapshot[q]]
    /\ UNCHANGED <<bluezVars, bus, routed, phase, history>>

\* The reply of GetManagedObjects, and the callback InterfacesAdded for each of
\* its objects: in path order, for the reply has been put into a std::map.
ListObjects ==
    /\ phase = "new"
    /\ phase' = "listed"
    /\ snapshot' = exported
    /\ UNCHANGED <<bluezVars, bus, routed, mirror, history>>

\* GetManagedObjects fails (BlueZ does not run, or the call times out): there is no
\* reply, and extract() walks an iterator nobody has set up.
ListFails ==
    /\ phase = "new"
    /\ phase' \in {"listed", "crashed"}
    /\ UNCHANGED <<bluezVars, bus, routed, snapshot, mirror, history>>

FileListed ==
    /\ phase = "listed"
    /\ \E p \in DOMAIN snapshot :
          /\ \A q \in DOMAIN snapshot : Rank[p] <= Rank[q]
          /\ mirror' = AddPath(mirror, p, snapshot[p])
          /\ snapshot' = [q \in DOMAIN snapshot \ {p} |-> snapshot[q]]
    /\ UNCHANGED <<bluezVars, bus, routed, phase, history>>

AddMatch ==
    /\ phase = "listed"
    /\ DOMAIN snapshot = {}
    /\ phase' = "watching"
    /\ routed' = TRUE
    /\ UNCHANGED <<bluezVars, bus, snapshot, mirror, history>>

\* add_match fails: the error is printed and freed, and init goes on as if the
\* bus had the rule.
AddMatchFails ==
    /\ phase = "listed"
    /\ DOMAIN snapshot = {}
    /\ phase' = "watching"
    /\ UNCHANGED <<bluezVars, bus, routed, snapshot, mirror, history>>

\* get_first_adapter: without an adapter the async thread is not started, and what
\* the bus routes here stays in the queue.
StartThread ==
    /\ phase = "watching"
    /\ phase' = IF \E p \in DOMAIN mirror : Depth[p] = AdapterDepth
                THEN "running" ELSE "absent"
    /\ UNCHANGED <<bluezVars, bus, routed, snapshot, mirror, history>>

Construct == ListObjects \/ ListFails \/ FileListed \/ AddMatch \/ AddMatchFails \/ StartThread

-------------------------------------------------------------------------------
(* BlueZ (external).  A parent is exported before its children and after     *)
(* them withdrawn.                                                           *)

\* The bus routes a signal here only if it has the match rule.  What is said before
\* the snapshot is in the snapshot; what is said after it, and not routed, is lost.
Announce(signal) ==
    /\ bus' = IF routed THEN Append(bus, signal) ELSE bus
    /\ lost' = IF phase # "new" /\ ~routed THEN lost \cup {signal.path} ELSE lost

\* When this object will not look any more, what BlueZ does is not followed.
Change ==
    /\ phase \notin {"absent", "crashed"}
    /\ events < MaxEvents
    /\ events' = events + 1
    /\ UNCHANGED <<routed, phase, snapshot, mirror>>

Export(p, v) ==
    /\ Change
    /\ p \notin DOMAIN exported
    /\ Above[p] \subseteq DOMAIN exported
    /\ exported' = [q \in DOMAIN exported \cup {p} |-> IF q = p THEN v ELSE exported[q]]
    /\ Announce([op |-> "added", path |-> p, val |-> v])
    /\ UNCHANGED <<cut, shadowed>>

Withdraw(p) ==
    /\ Change
    /\ p \in DOMAIN exported
    /\ \A q \in DOMAIN exported : p \notin Above[q]
    /\ exported' = [q \in DOMAIN exported \ {p} |-> exported[q]]
    /\ Announce([op |-> "removed", path |-> p])
    /\ UNCHANGED <<cut, shadowed>>

ChangeValue(p, v) ==
    /\ Change
    /\ p \in DOMAIN exported
    /\ exported[p] # v
    /\ exported' = [exported EXCEPT ![p] = v]
    /\ Announce([op |-> "changed", path |-> p, val |-> v])
    /\ UNCHANGED <<cut, shadowed>>

\* An object gains or loses an interface besides its own (a media or a battery
\* interface): the signals are the same, and the object stays exported.
GainInterface(p) ==
    /\ Change
    /\ p \in DOMAIN exported \cap Extended
    /\ Announce([op |-> "interface", path |-> p])
    /\ UNCHANGED <<exported, cut, shadowed>>

LoseInterface(p) ==
    /\ Change
    /\ p \in DOMAIN exported \cap Extended
    /\ Announce([op |-> "removed", path |-> p])
    /\ cut' = IF Depth[p] = AdapterDepth /\ routed THEN cut \cup {p} ELSE cut
    /\ UNCHANGED <<exported, shadowed>>

-------------------------------------------------------------------------------
(* BluezService::run_async: one signal per pass.                             *)

Receive(op) ==
    /\ phase = "running"
    /\ bus # <<>>
    /\ Head(bus).op = op
    /\ bus' = Tail(bus)
    /\ UNCHANGED <<bluezVars, routed, phase, snapshot>>

InterfacesAdded ==
    /\ Receive("added")
    /\ LET s == Head(bus) IN
          /\ mirror' = AddPath(mirror, s.path, s.val)
          /\ shadowed' = IF s.path \in DOMAIN mirror
                         THEN shadowed \cup {s.path} ELSE shadowed \ {s.path}
    /\ UNCHANGED <<lost, cut>>

\* The same signal for an interface the tree does not follow: an object the
\* tree lacks is filed without its properties.
OtherInterfaceAdded ==
    /\ Receive("interface")
    /\ LET p == Head(bus).path IN
          /\ mirror' = AddPath(mirror, p, Blank)
          /\ UNCHANGED shadowed
    /\ UNCHANGED <<lost, cut>>

InterfacesRemoved ==
    /\ Receive("removed")
    /\ mirror' = RemovePath(mirror, Head(bus).path)
    /\ UNCHANGED history

\* Mutant of PropertiesChanged: a signal is kept until its object is filed.
PropertiesChangedKept ==
    /\ Receive("changed")
    /\ LET s == Head(bus) IN
          /\ s.path \in DOMAIN mirror
          /\ mirror' = SetOption(mirror, s.path, s.val)
          /\ shadowed' = shadowed \ {s.path}
    /\ UNCHANGED <<lost, cut>>

PropertiesChanged ==
    /\ Receive("changed")
    /\ LET s == Head(bus) IN
          /\ mirror' = SetOption(mirror, s.path, s.val)
          /\ shadowed' = shadowed \ {s.path}
    /\ UNCHANGED <<lost, cut>>

RunAsync == InterfacesAdded \/ OtherInterfaceAdded \/ InterfacesRemoved \/ PropertiesChanged

-------------------------------------------------------------------------------
\* BlueZ may have exported anything before the object is constructed.
Init ==
    /\ exported \in UNION {[S -> Values] : S \in {T \in SUBSET Paths : \A p \in T : Above[p] \subseteq T}}
    /\ events = 0
    /\ bus = <<>>
    /\ routed = FALSE
    /\ phase = "new"
    /\ snapshot = NoObjects
    /\ mirror = NoObjects
    /\ lost = {}
    /\ cut = {}
    /\ shadowed = {}

BlueZ == \E p \in Paths : \/ \E v \in Values : Export(p, v) \/ ChangeValue(p, v)
                          \/ Withdraw(p) \/ GainInterface(p) \/ LoseInterface(p)

Next == Construct \/ BlueZ \/ RunAsync

\* The constructing thread and the async thread run; nothing is assumed of BlueZ.
Spec == Init /\ [][Next]_vars /\ WF_vars(Construct \/ RunAsync)

-------------------------------------------------------------------------------
(* Properties.                                                               *)

InStep == phase = "running" /\ bus = <<>>

\* What may go wrong with a path goes wrong with everything filed below it.
Spoiled(p, S) == ({p} \cup Above[p]) \cap S # {}

\* Once every routed signal has been applied the tree holds every object BlueZ
\* exports.  The code can lose one in three ways: a signal about it was sent between
\* the snapshot and the match rule (BluezService.cpp:19-21); add_match failed and a
\* signal about it was sent at any time since (Connection.cpp:37-40); an adapter was
\* erased because one of its interfaces went (the FIXME in BluezService.cpp:79).  An
\* object that none of this happened to, nor to one above it, is there even when
\* the bus routes nothing here.
ExportedIsMirrored ==
    InStep => \A p \in DOMAIN exported :
                 Spoiled(p, lost \cup cut) \/ p \in DOMAIN mirror

\* ... and each object holds the value BlueZ last announced, but for the same three
\* ways and for emplace, which keeps the old object of a path removed and added again
\* (BluezAdapter.cpp:52, BluezDevice.cpp:52, BluezGattService.cpp:53).
MirrorHasValues ==
    InStep => \A p \in DOMAIN exported :
                 \/ Spoiled(p, lost \cup cut)
                 \/ p \in shadowed
                 \/ p \in DOMAIN mirror /\ mirror[p] = exported[p]

\* No adapter outlives its export: once in step, get_first_adapter and the routing
\* of signals meet only adapters BlueZ still has, or whose removal was never routed
\* here.
NoGhostAdapter ==
    InStep => \A p \in DOMAIN mirror :
                 Depth[p] = AdapterDepth => p \in DOMAIN exported \cup lost

\* Once the async thread runs, whatever BlueZ does, the tree is in step again and
\* again, and for good once BlueZ rests.
ComesInStep == (phase = "running") ~> InStep
===============================================================================
