------------------------------ MODULE LinuxLink ------------------------------
(***************************************************************************)
(* Connecting to a device and talking to a characteristic of it, on Linux: *)
(* NativeBleInternal::connect, read, notify, indicate, write_request,      *)
(* write_command and disconnect, run by one application thread, while the  *)
(* async thread applies the signals of BlueZ and calls the hooks           *)
(* OnConnected, OnDisconnected and ValueChanged.                           *)
(*                                                                         *)
(* Every operation is a lookup in the mirror, the installation of a hook   *)
(* and a blocking request.  BlueZ (external) carries the request out,      *)
(* announces what changed and then answers: the answer goes straight to    *)
(* the caller, whereas the announcements wait for the async thread, which  *)
(* applies one each millisecond.  Each device has one service with one     *)
(* characteristic.                                                         *)
(***************************************************************************)
EXTENDS Naturals, Sequences, FiniteSets, SequencesExt

CONSTANTS Devices,     \* the devices the mirror has filed
          None,        \* no device
          MaxLinkUps,  \* bound: times the link of a device comes up, an earlier link included
          MaxValues,   \* bound: values the characteristic of a device announces
          MaxSinks     \* bound: notify and indicate calls

ASSUME NoneAssumption == None \notin Devices
ASSUME BoundsAssumption == MaxLinkUps \in Nat \ {0} /\ MaxValues \in Nat /\ MaxSinks \in Nat

NoSink == 0
Sinks == 1..MaxSinks

VARIABLES
    link,            \* BlueZ: the devices with a link
    gatt,            \* BlueZ: the devices whose service and characteristic are exported
    notifying,       \* BlueZ: the devices whose characteristic announces its values
    ups,             \* BlueZ: device -> times its link came up
    values,          \* BlueZ: device -> number of values announced
    bus,             \* announcements the async thread has not yet applied
    chars,           \* the devices whose characteristic is filed in the mirror
    onConnected,     \* the devices with the hook Device1::OnConnected installed
    sink,            \* device -> number of the callback in ValueChanged, or NoSink
    device,          \* NativeBleInternal::device, or None
    asked,           \* number of notify and indicate calls that installed a callback
    pc,              \* where the application thread is
    buffer,          \* the array read() makes for its callback: "none", "live", "freed"
    attempt,         \* history: how far the latest connect() got while its link lasts
    served,          \* history: device -> connect() requests that brought its link up
    connectCalls,    \* history: device -> calls of callback_on_device_connected
    ended,           \* history: devices whose link made by a connect() went down, unreported
    accepted,        \* history: the StartNotify requests that succeeded
    delivered        \* history: device -> its values given to a notify callback, and which

bluezVars == <<link, gatt, notifying, ups, values>>
hookVars == <<onConnected, sink>>
userVars == <<device, asked, pc, buffer>>
counts == <<served, connectCalls, ended>>
history == <<attempt, counts, accepted, delivered>>
vars == <<bluezVars, bus, chars, hookVars, userVars, history>>

Announcement ==
    [op : {"connected"}, dev : Devices, val : BOOLEAN]
        \cup [op : {"services"}, dev : Devices]
        \cup [op : {"value"}, dev : Devices, val : 1..MaxValues]

TypeOK ==
    /\ link \subseteq Devices /\ gatt \subseteq Devices /\ notifying \subseteq Devices
    /\ ups \in [Devices -> 0..MaxLinkUps]
    /\ values \in [Devices -> 0..MaxValues]
    /\ bus \in Seq(Announcement)
    /\ chars \subseteq Devices /\ onConnected \subseteq Devices
    /\ sink \in [Devices -> Sinks \cup {NoSink}]
    /\ device \in Devices \cup {None}
    /\ asked \in 0..MaxSinks
    /\ pc \in {"idle", "hooking", "connecting", "sinking", "subscribing", "subscribed",
               "reading", "copied", "callback", "writing", "disconnecting", "crashed"}
    /\ pc # "idle" => device # None
    /\ buffer \in {"none", "live", "freed"}
    /\ attempt \in {"none", "linked", "ok"}
    /\ {served, connectCalls} \subseteq [Devices -> 0..MaxLinkUps]
    /\ ended \subseteq Devices
    /\ accepted \subseteq [dev : Devices, sink : Sinks, from : 1..(MaxValues + 1)]
    /\ delivered \in [Devices -> Seq([sink : Sinks, val : 1..MaxValues])]

NoneYet == [d \in Devices |-> 0]

Init ==
    /\ link \in SUBSET Devices
    /\ gatt \in SUBSET link
    /\ notifying = {}
    /\ ups = [d \in Devices |-> IF d \in link THEN 1 ELSE 0]
    /\ values = NoneYet
    /\ bus = <<>>
    /\ chars = gatt
    /\ onConnected = {} /\ sink = [d \in Devices |-> NoSink]
    /\ device = None /\ asked = 0 /\ pc = "idle" /\ buffer = "none"
    /\ attempt = "none"
    /\ served = NoneYet /\ connectCalls = NoneYet /\ ended = {}
    /\ accepted = {}
    /\ delivered = [d \in Devices |-> <<>>]

Bump(f, d) == [f EXCEPT ![d] = @ + 1]

-------------------------------------------------------------------------------
(* BlueZ (external).                                                         *)

\* A link comes up because this object asked for it, or another program did.
LinkUp(d) ==
    /\ d \notin link
    /\ ups[d] < MaxLinkUps
    /\ link' = link \cup {d}
    /\ ups' = Bump(ups, d)
    /\ bus' = Append(bus, [op |-> "connected", dev |-> d, val |-> TRUE])
    /\ IF pc = "connecting" /\ device = d
       THEN served' = Bump(served, d) /\ attempt' = "linked"
       ELSE UNCHANGED <<served, attempt>>
    /\ UNCHANGED <<gatt, notifying, values, chars, hookVars, userVars, connectCalls,
                   ended, accepted, delivered>>

\* The services of a connected device are discovered and exported.
Resolve(d) ==
    /\ d \in link \ gatt
    /\ gatt' = gatt \cup {d}
    /\ bus' = Append(bus, [op |-> "services", dev |-> d])
    /\ UNCHANGED <<link, notifying, ups, values, chars, hookVars, userVars, history>>

\* On request of anybody, or because the device went out of reach.  BlueZ keeps
\* the services of some devices exported; the mirror keeps those of all.
LinkDown(d) ==
    /\ d \in link
    /\ link' = link \ {d}
    /\ gatt' \in {gatt, gatt \ {d}}
    /\ notifying' = notifying \ {d}
    /\ bus' = Append(bus, [op |-> "connected", dev |-> d, val |-> FALSE])
    /\ ended' = IF device = d /\ attempt = "ok" THEN ended \cup {d} ELSE ended
    /\ attempt' = IF device = d THEN "none" ELSE attempt
    /\ UNCHANGED <<ups, values, chars, hookVars, userVars, served, connectCalls,
                   accepted, delivered>>

AnnounceValue(d) ==
    /\ values[d] < MaxValues
    /\ values' = Bump(values, d)
    /\ bus' = Append(bus, [op |-> "value", dev |-> d, val |-> values[d] + 1])

Notification(d) ==
    /\ d \in notifying
    /\ AnnounceValue(d)
    /\ UNCHANGED <<link, gatt, notifying, ups, chars, hookVars, userVars, history>>

-------------------------------------------------------------------------------
(* The application thread.                                                   *)

Unmoved == UNCHANGED <<bluezVars, bus, chars>>

\* Mutant of Connect: the result of get_device is not compared with nullptr.
ConnectUnchecked(d) ==
    /\ pc = "idle"
    /\ device' = d
    /\ pc' = "hooking"
    /\ attempt' = "none"
    /\ Unmoved
    /\ UNCHANGED <<hookVars, asked, buffer, counts, accepted, delivered>>

\* get_device: an address no filed device has leaves the object without a device.
Connect(d) ==
    /\ pc = "idle"
    /\ device' = d
    /\ pc' = IF d = None THEN "idle" ELSE "hooking"
    /\ attempt' = "none"
    /\ Unmoved
    /\ UNCHANGED <<hookVars, asked, buffer, counts, accepted, delivered>>

\* Mutant of InstallConnected: the hook is forgotten.
NoHook ==
    /\ pc = "hooking"
    /\ pc' = "connecting"
    /\ Unmoved
    /\ UNCHANGED <<hookVars, device, asked, buffer, history>>

InstallConnected ==
    /\ pc = "hooking"
    /\ onConnected' = onConnected \cup {device}
    /\ pc' = "connecting"
    /\ Unmoved
    /\ UNCHANGED <<sink, device, asked, buffer, history>>

\* Connect() succeeds once the link it asked for is up and the services are known to
\* BlueZ.  Its error is not looked at by connect(), which returns nothing.
ConnectReturns(ok) ==
    /\ pc = "connecting"
    /\ ok => attempt = "linked" /\ device \in gatt
    /\ pc' = "idle"
    /\ attempt' = IF ok THEN "ok" ELSE "none"
    /\ Unmoved
    /\ UNCHANGED <<hookVars, device, asked, buffer, counts, accepted, delivered>>

\* read, notify, indicate and the two writes return at once, without a word, if
\* there is no device or its characteristic is not filed.
Begin(where) ==
    /\ pc = "idle"
    /\ device \in chars
    /\ pc' = where
    /\ Unmoved
    /\ UNCHANGED <<hookVars, device, asked, buffer, history>>

Notify == asked < MaxSinks /\ Begin("sinking")

\* Mutant of InstallSink: the callback of the first subscription is kept.
InstallFirstSink ==
    /\ pc = "sinking"
    /\ asked' = asked + 1
    /\ sink' = IF sink[device] = NoSink THEN [sink EXCEPT ![device] = asked'] ELSE sink
    /\ pc' = "subscribing"
    /\ Unmoved
    /\ UNCHANGED <<onConnected, device, buffer, history>>

\* The callback replaces the one in ValueChanged.
InstallSink ==
    /\ pc = "sinking"
    /\ asked' = asked + 1
    /\ sink' = [sink EXCEPT ![device] = asked']
    /\ pc' = "subscribing"
    /\ Unmoved
    /\ UNCHANGED <<onConnected, device, buffer, history>>

\* BlueZ carries StartNotify out; indicate() sends the same request.  Values may be
\* announced before the call has returned.
StartNotify ==
    /\ pc = "subscribing"
    /\ device \in link \cap gatt
    /\ pc' = "subscribed"
    /\ notifying' = notifying \cup {device}
    /\ accepted' = accepted \cup {[dev |-> device, sink |-> asked, from |-> values[device] + 1]}
    /\ UNCHANGED <<link, gatt, ups, values, bus, chars, hookVars, device, asked, buffer,
                   attempt, counts, delivered>>

\* With the answer, an error or a timeout.
NotifyReturns ==
    /\ pc \in {"subscribing", "subscribed"}
    /\ pc' = "idle"
    /\ Unmoved
    /\ UNCHANGED <<hookVars, device, asked, buffer, history>>

Read == Begin("reading")

\* ReadValue() returns the value, which BlueZ may announce as a change too, and the
\* bytes are copied into an array.  After an error there is no reply, and extract()
\* walks an iterator nobody has set up: it finds nothing there or it crashes.
ReadReturns(ok) ==
    /\ pc = "reading"
    /\ ok => device \in link \cap gatt
    /\ \/ pc' = "copied" /\ buffer' = "live"
       \/ ~ok /\ pc' = "crashed" /\ UNCHANGED buffer
    /\ \/ ok /\ AnnounceValue(device)
       \/ UNCHANGED <<values, bus>>
    /\ UNCHANGED <<link, gatt, notifying, ups, chars, hookVars, device, asked, history>>

\* delete[], and then the call of callback_on_read with the pointer.
FreeBuffer ==
    /\ pc = "copied"
    /\ buffer' = "freed"
    /\ pc' = "callback"
    /\ Unmoved
    /\ UNCHANGED <<hookVars, device, asked, history>>

\* callback_on_read comes back.
ReadDone ==
    /\ pc = "callback"
    /\ pc' = "idle"
    /\ buffer' = "none"
    /\ Unmoved
    /\ UNCHANGED <<hookVars, device, asked, history>>

Write == Begin("writing")

WriteReturns ==
    /\ pc = "writing"
    /\ pc' = "idle"
    /\ Unmoved
    /\ UNCHANGED <<hookVars, device, asked, buffer, history>>

\* The handle stays: is_connected() goes on answering true.
Disconnect ==
    /\ pc = "idle"
    /\ device # None
    /\ pc' = "disconnecting"
    /\ Unmoved
    /\ UNCHANGED <<hookVars, device, asked, buffer, history>>

DisconnectReturns(ok) ==
    /\ pc = "disconnecting"
    /\ ok => device \notin link
    /\ pc' = "idle"
    /\ Unmoved
    /\ UNCHANGED <<hookVars, device, asked, buffer, history>>

-------------------------------------------------------------------------------
(* The async thread applies the next announcement.                           *)

\* Nothing in the code installs Device1::OnDisconnected.
onDisconnected == {}

Apply(op) ==
    /\ bus # <<>>
    /\ Head(bus).op = op
    /\ bus' = Tail(bus)
    /\ UNCHANGED <<bluezVars, hookVars, userVars, attempt, served, accepted>>

\* Device1::add_option, option Connected.
ApplyConnected ==
    /\ Apply("connected")
    /\ LET d == Head(bus).dev
           up == Head(bus).val
       IN  /\ connectCalls' =
                  IF up /\ d \in onConnected THEN Bump(connectCalls, d) ELSE connectCalls
           /\ ended' = IF ~up /\ d \in onDisconnected THEN ended \ {d} ELSE ended
    /\ UNCHANGED <<chars, delivered>>

\* Mutant of ApplyServices: the paths below a device are filed only while it has
\* no connection hook.
ApplyServicesUnhooked ==
    /\ Apply("services")
    /\ chars' = IF Head(bus).dev \in onConnected THEN chars ELSE chars \cup {Head(bus).dev}
    /\ UNCHANGED <<connectCalls, ended, delivered>>

\* The service and the characteristic are filed.
ApplyServices ==
    /\ Apply("services")
    /\ chars' = chars \cup {Head(bus).dev}
    /\ UNCHANGED <<connectCalls, ended, delivered>>

\* GattCharacteristic1::add_option, option Value.
ApplyValue ==
    /\ Apply("value")
    /\ LET d == Head(bus).dev
           item == [sink |-> sink[d], val |-> Head(bus).val]
       IN  delivered' = IF sink[d] # NoSink
                        THEN [delivered EXCEPT ![d] = Append(@, item)] ELSE delivered
    /\ UNCHANGED <<chars, connectCalls, ended>>

RunAsync == ApplyConnected \/ ApplyServices \/ ApplyValue

-------------------------------------------------------------------------------
BlueZ == \E d \in Devices : LinkUp(d) \/ Resolve(d) \/ LinkDown(d) \/ Notification(d)

Application ==
    \/ \E d \in Devices \cup {None} : Connect(d)
    \/ Notify \/ Read \/ Write \/ Disconnect

Continue ==
    \/ InstallConnected \/ InstallSink \/ FreeBuffer \/ ReadDone \/ WriteReturns
    \/ StartNotify \/ NotifyReturns
    \/ \E ok \in BOOLEAN : ConnectReturns(ok) \/ ReadReturns(ok) \/ DisconnectReturns(ok)

Next == BlueZ \/ Application \/ Continue \/ (pc # "crashed" /\ RunAsync)

\* Both threads run and a request is answered or times out.
Spec == Init /\ [][Next]_vars /\ WF_vars(Continue) /\ WF_vars(pc # "crashed" /\ RunAsync)

-------------------------------------------------------------------------------
(* Properties.                                                               *)

NotPending(d, op) == \A i \in DOMAIN bus : ~(bus[i].dev = d /\ bus[i].op = op)

\* Every link a connect() brought up is reported to callback_on_device_connected
\* once, and no more links than came up are: the hook is in place before the
\* request, so the announcement cannot overtake it (NativeBleInternal.cpp:75-76).
\* It is the link that is reported, not its services: see ConnectedMeansReady.
ConnectedIsReportedOnce ==
    \A d \in Devices :
        NotPending(d, "connected") =>
            served[d] <= connectCalls[d] /\ connectCalls[d] <= ups[d]

\* A value the device announces after StartNotify succeeded reaches a callback
\* exactly once, in order, and never a callback older than the one of that
\* request, though another notify() may replace the callback at any time.
NotifyIsGapless ==
    /\ \A a \in accepted : \A v \in a.from..values[a.dev] :
          \/ \E i \in DOMAIN bus : bus[i] = [op |-> "value", dev |-> a.dev, val |-> v]
          \/ \E i \in DOMAIN delivered[a.dev] :
                delivered[a.dev][i].val = v /\ delivered[a.dev][i].sink >= a.sink
    /\ \A d \in Devices : \A i, j \in DOMAIN delivered[d] :
          i < j => /\ delivered[d][i].val < delivered[d][j].val
                   /\ delivered[d][i].sink <= delivered[d][j].sink

\* After a successful connect() the characteristic can be used at some time,
\* provided the process has not crashed.
ConnectedBecomesUsable ==
    \A d \in Devices :
        (attempt = "ok" /\ device = d) ~> (d \in chars \/ pc = "crashed")

\* The callback of read() is given a pointer to the data (NativeBleController.h:132).
ReadDataIsLive == pc = "callback" => buffer = "live"

\* connect() does not return, and callback_on_device_connected is not called, until
\* the services and characteristics are discovered (TUTORIAL.md:122 and 69): after
\* both, at the latest, an operation on one finds it.
ConnectedMeansReady ==
    attempt = "ok" /\ NotPending(device, "connected") /\ connectCalls[device] = ups[device] =>
        device \in chars

\* The end of a connection is reported to callback_on_device_disconnected
\* (TUTORIAL.md:170).
DisconnectIsReported ==
    \A d \in ended : ~NotPending(d, "connected")
===============================================================================
