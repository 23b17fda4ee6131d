------------------------------ MODULE LinuxScan ------------------------------
(***************************************************************************)
(* Scanning on Linux: NativeBleInternal::scan_start, scan_stop,            *)
(* scan_timeout and scan_is_active, run by one application thread, while   *)
(* the async thread files the devices BlueZ announces and calls the hook   *)
(* BluezAdapter::OnDeviceFound.                                            *)
(*                                                                         *)
(* scan_start first reports the devices already filed and then installs    *)
(* the hook, without any lock against the async thread.  The hook stays    *)
(* when the scan stops.  A device without a name is not reported.          *)
(***************************************************************************)
EXTENDS Naturals, Sequences

CONSTANTS Devices,    \* the devices in reach of the adapter
          MaxEvents,  \* bound: the changes BlueZ makes on its own
          MaxScans    \* bound: calls of scan_start

ASSUME BoundsAssumption == MaxEvents \in Nat /\ MaxScans \in Nat

Names == {"unnamed", "named"}

VARIABLES
    devs,      \* BlueZ: device -> "absent", or exported "unnamed" or "named"
    mine,      \* BlueZ: is this client's discovery running?
    others,    \* BlueZ: is the discovery of another client running?
    events,    \* BlueZ: number of changes made
    bus,       \* announcements the async thread has not yet applied
    filed,     \* BluezAdapter::devices: device -> "absent", "unnamed" or "named"
    cached,    \* Adapter1::_discovering, which scan_is_active returns
    attached,  \* is the adapter object of the application the one in the tree?
    hook,      \* is BluezAdapter::OnDeviceFound installed?
    scans,     \* number of calls of scan_start
    pc,        \* where the application thread is
    timed,     \* is it in scan_timeout?
    visited,   \* the devices the loop of scan_start has passed
    told,      \* the devices given to callback_on_scan_found since scan_start
    raced,     \* history: was a device filed while the loop of scan_start ran?
    gap,       \* history: devices filed after that loop and before the first hook
    late,      \* history: filed devices whose name came since scan_start
    stale      \* history: devices exported again while their old object was filed

bluezVars == <<devs, mine, others, events>>
treeVars == <<filed, cached, attached>>
userVars == <<hook, scans, pc, timed, visited>>
history == <<raced, gap, late, stale>>
vars == <<bluezVars, bus, treeVars, userVars, told, history>>

Announcement == [op : {"added"}, dev : Devices, name : Names]
                    \cup [op : {"name"}, dev : Devices]
                    \cup [op : {"discovering"}, val : BOOLEAN]
                    \cup [op : {"gone"}]

TypeOK ==
    /\ devs \in [Devices -> Names \cup {"absent"}]
    /\ mine \in BOOLEAN /\ others \in BOOLEAN
    /\ events \in 0..MaxEvents /\ scans \in 0..MaxScans
    /\ bus \in Seq(Announcement)
    /\ filed \in [Devices -> Names \cup {"absent"}]
    /\ cached \in BOOLEAN /\ attached \in BOOLEAN /\ hook \in BOOLEAN
    /\ pc \in {"idle", "listing", "hooking", "filtering", "starting", "sleeping", "stopping"}
    /\ timed \in BOOLEAN
    /\ visited \subseteq Devices /\ told \subseteq Devices
    /\ \A d \in visited \cup told : filed[d] # "absent"
    /\ raced \in BOOLEAN
    /\ gap \subseteq Devices /\ late \subseteq Devices /\ stale \subseteq Devices

Init ==
    /\ devs \in [Devices -> Names \cup {"absent"}]
    /\ mine = FALSE /\ others \in BOOLEAN
    /\ events = 0
    /\ bus = <<>>
    /\ filed = devs
    /\ cached = others /\ attached = TRUE
    /\ hook = FALSE /\ scans = 0 /\ pc = "idle" /\ timed = FALSE
    /\ visited = {} /\ told = {}
    /\ raced = FALSE
    /\ gap = {} /\ late = {} /\ stale = {}

-------------------------------------------------------------------------------
(* BlueZ (external).                                                         *)

Say(a) == bus' = Append(bus, a)

\* Discovering is announced when the adapter starts or stops as a whole.
SetDiscovery(m, o) ==
    /\ mine' = m /\ others' = o
    /\ IF (m \/ o) = (mine \/ others)
       THEN UNCHANGED bus
       ELSE Say([op |-> "discovering", val |-> (m \/ o)])

Change ==
    /\ events < MaxEvents
    /\ events' = events + 1
    /\ UNCHANGED <<treeVars, userVars, told, history>>

Appear(d, name) ==
    /\ Change
    /\ mine \/ others
    /\ devs[d] = "absent"
    /\ devs' = [devs EXCEPT ![d] = name]
    /\ Say([op |-> "added", dev |-> d, name |-> name])
    /\ UNCHANGED <<mine, others>>

LearnName(d) ==
    /\ Change
    /\ devs[d] = "unnamed"
    /\ devs' = [devs EXCEPT ![d] = "named"]
    /\ Say([op |-> "name", dev |-> d])
    /\ UNCHANGED <<mine, others>>

\* The removal is announced; the remove_path of an adapter ignores it.
Vanish(d) ==
    /\ Change
    /\ devs[d] # "absent"
    /\ devs' = [devs EXCEPT ![d] = "absent"]
    /\ UNCHANGED <<mine, others, bus>>

OtherClient ==
    /\ Change
    /\ SetDiscovery(mine, ~others)
    /\ UNCHANGED devs

\* The adapter is unplugged and plugged in again under its old path.
Replug ==
    /\ Change
    /\ devs' = [d \in Devices |-> "absent"]
    /\ mine' = FALSE /\ others' = FALSE
    /\ Say([op |-> "gone"])

-------------------------------------------------------------------------------
(* The application thread.                                                   *)

Unmoved == UNCHANGED <<treeVars, history>>

ScanStart(with_timeout) ==
    /\ pc = "idle"
    /\ scans < MaxScans
    /\ scans' = scans + 1
    /\ pc' = "listing"
    /\ timed' = with_timeout
    /\ visited' = {} /\ told' = {}
    /\ raced' = FALSE /\ gap' = {} /\ late' = {}
    /\ UNCHANGED <<bluezVars, bus, treeVars, hook, stale>>

\* Mutant of ListNext: a device is reported the first time only.
ListUnreported(d) ==
    /\ pc = "listing"
    /\ filed[d] # "absent"
    /\ d \notin visited
    /\ visited' = visited \cup {d}
    /\ told' = IF filed[d] = "named" /\ ~hook THEN told \cup {d} ELSE told
    /\ Unmoved
    /\ UNCHANGED <<bluezVars, bus, hook, scans, pc, timed>>

ListNext(d) ==
    /\ pc = "listing"
    /\ filed[d] # "absent"
    /\ d \notin visited
    /\ visited' = visited \cup {d}
    /\ told' = IF filed[d] = "named" THEN told \cup {d} ELSE told
    /\ Unmoved
    /\ UNCHANGED <<bluezVars, bus, hook, scans, pc, timed>>

\* The loop ends after the last device, or anywhere if the async thread has put a
\* device into the same std::map meanwhile: the two threads race.
ListEnd ==
    /\ pc = "listing"
    /\ raced \/ \A d \in Devices : filed[d] # "absent" => d \in visited
    /\ pc' = "hooking"
    /\ Unmoved
    /\ UNCHANGED <<bluezVars, bus, hook, scans, timed, visited, told>>

InstallHook ==
    /\ pc = "hooking"
    /\ hook' = TRUE
    /\ pc' = "filtering"
    /\ Unmoved
    /\ UNCHANGED <<bluezVars, bus, scans, timed, visited, told>>

\* SetDiscoveryFilter() returns, whether it succeeded or not.
FilterReturns ==
    /\ pc = "filtering"
    /\ pc' = "starting"
    /\ Unmoved
    /\ UNCHANGED <<bluezVars, bus, hook, scans, timed, visited, told>>

\* StartDiscovery() returns and callback_on_scan_start is called, whether it
\* succeeded or not; then scan_timeout sleeps.
StartReturns(ok) ==
    /\ pc = "starting"
    /\ SetDiscovery(mine \/ ok, others)
    /\ pc' = IF timed THEN "sleeping" ELSE "idle"
    /\ Unmoved
    /\ UNCHANGED <<devs, events, hook, scans, timed, visited, told>>

WakeUp ==
    /\ pc = "sleeping"
    /\ pc' = "stopping"
    /\ Unmoved
    /\ UNCHANGED <<bluezVars, bus, hook, scans, timed, visited, told>>

ScanStop ==
    /\ pc = "idle"
    /\ pc' = "stopping"
    /\ timed' = FALSE
    /\ Unmoved
    /\ UNCHANGED <<bluezVars, bus, hook, scans, visited, told>>

StopReturns(ok) ==
    /\ pc = "stopping"
    /\ SetDiscovery(mine /\ ~ok, others)
    /\ pc' = "idle"
    /\ timed' = FALSE
    /\ Unmoved
    /\ UNCHANGED <<devs, events, hook, scans, visited, told>>

-------------------------------------------------------------------------------
(* The async thread applies the next announcement.  Once the adapter has     *)
(* been erased from the tree the object of the application gets none.        *)

Apply(op) ==
    /\ bus # <<>>
    /\ Head(bus).op = op
    /\ bus' = Tail(bus)
    /\ UNCHANGED <<bluezVars, userVars>>

\* Mutant of ApplyAdded: the announcement is reported, filed or not.
ApplyAddedUnfiled ==
    /\ Apply("added")
    /\ LET d == Head(bus).dev IN
          /\ filed' = IF attached /\ filed[d] = "absent"
                      THEN [filed EXCEPT ![d] = Head(bus).name] ELSE filed
          /\ told' = IF hook /\ Head(bus).name = "named" THEN told \cup {d} ELSE told
    /\ UNCHANGED <<cached, attached, history>>

\* BluezAdapter::add_path: emplace keeps the object there is, and the hook is
\* given what that object holds.
ApplyAdded ==
    /\ Apply("added")
    /\ LET d == Head(bus).dev IN
          /\ filed' = IF attached /\ filed[d] = "absent"
                      THEN [filed EXCEPT ![d] = Head(bus).name] ELSE filed
          /\ told' = IF attached /\ hook /\ filed'[d] = "named" THEN told \cup {d} ELSE told
          /\ raced' = (raced \/ (filed' # filed /\ pc = "listing"))
          /\ gap' = IF filed' # filed /\ pc = "hooking" /\ ~hook THEN gap \cup {d} ELSE gap
          /\ stale' = IF filed[d] = "unnamed" THEN stale \cup {d} ELSE stale
    /\ UNCHANGED <<cached, attached, late>>

\* Device1::add_option, option Name: no hook is called.
ApplyName ==
    /\ Apply("name")
    /\ LET d == Head(bus).dev IN
          /\ filed' = IF attached /\ filed[d] # "absent"
                      THEN [filed EXCEPT ![d] = "named"] ELSE filed
          /\ late' = late \cup {d}
    /\ UNCHANGED <<cached, attached, told, raced, gap, stale>>

\* Mutant of ApplyDiscovering: only the start of a discovery is taken over.
ApplyDiscoveringStart ==
    /\ Apply("discovering")
    /\ cached' = IF attached THEN cached \/ Head(bus).val ELSE cached
    /\ UNCHANGED <<filed, attached, told, history>>

\* Adapter1::add_option, option Discovering.
ApplyDiscovering ==
    /\ Apply("discovering")
    /\ cached' = IF attached THEN Head(bus).val ELSE cached
    /\ UNCHANGED <<filed, attached, told, history>>

\* adapters.erase; the shared pointer of NativeBleInternal keeps the object alive.
ApplyGone ==
    /\ Apply("gone")
    /\ attached' = FALSE
    /\ UNCHANGED <<filed, cached, told, history>>

RunAsync == ApplyAdded \/ ApplyName \/ ApplyDiscovering \/ ApplyGone

-------------------------------------------------------------------------------
BlueZ ==
    \/ \E d \in Devices : (\E name \in Names : Appear(d, name)) \/ LearnName(d) \/ Vanish(d)
    \/ OtherClient \/ Replug

Application == ScanStop \/ \E with_timeout \in BOOLEAN : ScanStart(with_timeout)

Continue ==
    \/ \E d \in Devices : ListNext(d)
    \/ ListEnd \/ InstallHook \/ FilterReturns \/ WakeUp
    \/ \E ok \in BOOLEAN : StartReturns(ok) \/ StopReturns(ok)

Next == BlueZ \/ Application \/ Continue \/ RunAsync

\* Both threads run and a request is answered or times out.
Spec == Init /\ [][Next]_vars /\ WF_vars(Continue) /\ WF_vars(RunAsync)

-------------------------------------------------------------------------------
(* Properties.                                                               *)

\* Once scan_start has installed the hook and every announcement has been applied,
\* each device BlueZ has by name has been reported since scan_start, whether it
\* was filed long before, during the loop or after.  The devices the code can
\* miss are those filed between the end of the loop and the first hook, those
\* whose name came after their first announcement, those hidden by the old object
\* of an earlier appearance, and, when the two threads raced on the map or
\* the adapter was replugged, any (NativeBleInternal.cpp:29-43).
ScanReportsDevices ==
    (bus = <<>> /\ hook /\ attached /\ ~raced /\ pc \notin {"listing", "hooking"}) =>
        \A d \in Devices : devs[d] = "named" => d \in told \cup gap \cup late \cup stale

\* When the last discovery has stopped scan_is_active() says so before long.
StopTakesEffect ==
    (~mine /\ ~others /\ attached) ~> (~cached \/ mine \/ others \/ ~attached)
===============================================================================
