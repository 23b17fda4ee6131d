-------------------------- MODULE NativeBleWindows --------------------------
(***************************************************************************)
(* NativeBleInternal on Windows: scanning, connecting with the discovery   *)
(* of services, the operations on characteristics and disconnecting.       *)
(*                                                                         *)
(* The application makes its calls from one thread, and from its callback  *)
(* for the end of a scan.  WinRT (external) runs the advertisement handler *)
(* and one connection handler per BluetoothLEDevice object on threads of   *)
(* its own; nothing is locked.  Each connect() makes a device object, here *)
(* a number; a service has one characteristic.  The advertisement handlers *)
(* that are past their test are counted per peripheral.                    *)
(***************************************************************************)
EXTENDS Naturals, Sequences, SequencesExt, FiniteSets, Selection

CONSTANTS Advertisers,   \* the peripherals that advertise
          Spellings,     \* the addresses the application passes, as character codes
          NumServices,   \* the services of a peripheral
          MaxConnects,   \* bound: calls of connect
          MaxCalls,      \* bound: calls of scan_start, scan_timeout and connect
          MaxNested,     \* bound: calls of scan_stop from within its own callback
          MaxHandlers,   \* bound: handlers that pass their test for a peripheral in a scan
          MaxListeners   \* bound: notify and indicate calls on a characteristic

ASSUME BoundsAssumption ==
    /\ NumServices \in Nat \ {0} /\ MaxConnects \in Nat \ {0}
    /\ MaxCalls \in Nat /\ MaxNested \in Nat /\ MaxHandlers \in Nat /\ MaxListeners \in Nat
ASSUME SpellingsAssumption == Spellings \subseteq Seq(Nat)

Devices == 1..MaxConnects
Null == 0
App == 0
Threads == {App} \cup Devices  \* thread d runs the connection handler of device object d
Services == 1..NumServices

VARIABLES
    watcher,      \* the advertisement watcher: "none", "started", "stopped"
    scanning,     \* NativeBleInternal::scanning
    detected,     \* NativeBleInternal::detected_addresses
    inserting,    \* peripheral -> handlers that found it new and have not inserted it
    reporting,    \* peripheral -> handlers that inserted it and have not reported it
    calls,        \* number of scans started and connections made
    nested,       \* open calls of scan_stop, each inside its callback
    pc,           \* where the application thread is
    at,           \* the service the loop of connect() or an operation is at
    device,       \* NativeBleInternal::device
    opened,       \* number of device objects made
    object,       \* device object -> "none", "open", "closed"
    up,           \* device object -> its peripheral has a link
    events,       \* WinRT: device objects whose loss of link has not been handled
    step,         \* thread -> where it is in disconnect_execute and the callback after it
    cache,        \* characteristics_map: service -> device object of its characteristic, or Null
    listeners,    \* service -> ValueChanged handlers on the cached characteristic
    dialled,      \* history: the latest address passed to connect, and the number it became
    told,         \* history: the latest connection callback, "up" or "down"
    heard, found, \* history: named peripherals handled, and reported how often, in this scan
    overtaken,    \* history: peripherals with a handler at work as the scan began or as another passed
    restarted,    \* history: the scan was started from within the callback of scan_stop
    raced,        \* history: a connection handler was at work during the latest connect()
    spoiled,      \* history: since it was cleared, the map kept or took a characteristic of an
                  \* object other than the open device, or that device was forgotten unclosed
    contended,    \* history: disconnect_execute overlapped with itself or with connect()
    crash         \* "no", or why the process died

scanVars == <<watcher, scanning, detected, inserting, reporting, nested, heard, found, overtaken,
              restarted>>
linkVars == <<device, opened, object, up, events>>
cacheVars == <<cache, listeners, spoiled>>
callVars == <<dialled, calls>>
appVars == <<pc, at, callVars>>
outcome == <<told, raced, contended, crash>>
vars == <<scanVars, linkVars, cacheVars, appVars, step, outcome>>

----------------------------------------------------------------------------
(* Addresses.  format_mac_address keeps hexadecimal digits; it subtracts   *)
(* 32 from an upper-case letter.  strtoull stops at the first character    *)
(* that is no hexadecimal digit.                                           *)

Upper == 65..70
Lower == 97..102
Hex == (48..57) \cup Upper \cup Lower
HexValue(c) == IF c \in Upper THEN c - 55 ELSE IF c \in Lower THEN c - 87 ELSE c - 48
NumberOf(digits) == FoldLeft(LAMBDA n, c : 16 * n + HexValue(c), 0, digits)

KeepSeparators(address) == address

FormatMacAddress(address) ==
    LET kept == Selected(address, Hex)
    IN  [i \in DOMAIN kept |-> IF kept[i] \in Upper THEN kept[i] - 32 ELSE kept[i]]

Strtoull(s) ==
    LET ends == {i \in DOMAIN s : s[i] \notin Hex} \cup {Len(s) + 1}
    IN  NumberOf(SubSeq(s, 1, (CHOOSE i \in ends : \A j \in ends : i <= j) - 1))

(* The number an address stands for, in either case and with separators. *)
Denotes(address) == NumberOf(Selected(address, Hex))

----------------------------------------------------------------------------
(* Scanning. *)

Alive == crash = "no"
At(place) == Alive /\ pc = place
Free == At("idle") /\ nested = 0
Goto(place) ==
    pc' = place /\ UNCHANGED <<scanVars, cacheVars, at, callVars, linkVars, step, outcome>>

(* The application may call when it is free, and from the callback of scan_stop. *)
CallsAllowed == Alive /\ (pc = "idle" \/ nested > 0)

StartWatcher ==
    /\ calls < MaxCalls /\ calls' = calls + 1
    /\ detected' = {}
    /\ heard' = {} /\ found' = [a \in Advertisers |-> 0]
    /\ overtaken' = {a \in Advertisers : inserting[a] > 0 \/ reporting[a] > 0}
    /\ restarted' = (nested > 0)
    /\ watcher' = "started" /\ scanning' = TRUE
    /\ UNCHANGED <<inserting, reporting, nested>>

ScanStart ==
    /\ CallsAllowed
    /\ StartWatcher
    /\ UNCHANGED <<pc, at, dialled, linkVars, cacheVars, step, outcome>>

(* The calling thread sleeps between the start and the stop. *)
ScanTimeout ==
    /\ Free
    /\ StartWatcher
    /\ pc' = "sleeping"
    /\ UNCHANGED <<at, dialled, linkVars, cacheVars, step, outcome>>

(* scan_stop up to its callback: what follows it waits for the callback to return. *)
StopWatcher ==
    /\ scanning
    /\ watcher' = "stopped" /\ nested' = nested + 1
    /\ UNCHANGED <<scanning, detected, inserting, reporting, heard, found, overtaken, restarted>>

ScanStop ==
    /\ CallsAllowed /\ nested < MaxNested
    /\ StopWatcher
    /\ UNCHANGED <<linkVars, cacheVars, appVars, step, outcome>>

WakeUp ==
    /\ At("sleeping") /\ nested = 0
    /\ StopWatcher
    /\ pc' = "idle"
    /\ UNCHANGED <<at, callVars, linkVars, cacheVars, step, outcome>>

ReturnFromStop(flag, after) ==
    /\ Alive /\ nested > 0 /\ nested' = nested - 1
    /\ scanning' = flag
    /\ pc' = IF nested = 1 /\ pc = "stopping" THEN after ELSE pc
    /\ UNCHANGED <<watcher, detected, inserting, reporting, heard, found, overtaken, restarted,
                   at, callVars, linkVars, cacheVars, step, outcome>>

ScanStopForgetsFlag == ReturnFromStop(scanning, "opening")
ScanStopReturns == ReturnFromStop(FALSE, "opening")

(* The handler of Received looks an address up, inserts it and reports it; between these *)
(* steps scan_start may clear the addresses, and another handler may look up the same.   *)
(* WinRT (external) may run it late, after the watcher was stopped.                      *)
Received(a, named) ==
    /\ Alive /\ watcher # "none"
    /\ heard' = IF named THEN heard \cup {a} ELSE heard
    /\ IF named /\ a \notin detected
       THEN /\ found[a] + inserting[a] + reporting[a] < MaxHandlers
            /\ inserting' = [inserting EXCEPT ![a] = @ + 1]
            /\ overtaken' = IF inserting[a] > 0 THEN overtaken \cup {a} ELSE overtaken
       ELSE UNCHANGED <<inserting, overtaken>>
    /\ UNCHANGED <<watcher, scanning, detected, reporting, nested, found, restarted, linkVars, cacheVars,
                   appVars, step, outcome>>

DetectNothing(a) == detected
Detect(a) == detected \cup {a}

InsertAddress(a) ==
    /\ Alive /\ inserting[a] > 0
    /\ inserting' = [inserting EXCEPT ![a] = @ - 1]
    /\ reporting' = [reporting EXCEPT ![a] = @ + 1]
    /\ detected' = Detect(a)
    /\ UNCHANGED <<watcher, scanning, nested, heard, found, overtaken, restarted, linkVars,
                   cacheVars, appVars, step, outcome>>

ReportFound(a) ==
    /\ Alive /\ reporting[a] > 0
    /\ reporting' = [reporting EXCEPT ![a] = @ - 1]
    /\ found' = [found EXCEPT ![a] = @ + 1]
    /\ UNCHANGED <<watcher, scanning, detected, inserting, nested, heard, overtaken, restarted,
                   linkVars, cacheVars, appVars, step, outcome>>

----------------------------------------------------------------------------
(* connect(). *)

Connect(address) ==
    /\ Free
    /\ opened < MaxConnects /\ calls < MaxCalls
    /\ calls' = calls + 1
    /\ dialled' = [spelling |-> address, number |-> Strtoull(FormatMacAddress(address))]
    /\ IF scanning
       THEN StopWatcher /\ pc' = "stopping"
       ELSE UNCHANGED scanVars /\ pc' = "opening"
    /\ UNCHANGED <<at, linkVars, cacheVars, step, outcome>>

(* Thread t is past the test of disconnect_execute. *)
Executing(t) == step[t] \in {"services", "close", "clear", "reset"}

(* The device object, with its handler; none for an address WinRT does not know. *)
Open ==
    /\ At("opening")
    /\ opened' = opened + 1 /\ device' = opened'
    /\ object' = [object EXCEPT ![opened'] = "open"]
    /\ raced' = \E t \in Threads : step[t] # "none"
    /\ contended' = (contended \/ \E t \in Threads : Executing(t))
    /\ pc' = "discovering"
    /\ UNCHANGED <<scanVars, cacheVars, at, callVars, up, events, step, told, crash>>

OpenFindsNone ==
    /\ At("opening")
    /\ device' = Null /\ crash' = "no device"
    /\ UNCHANGED <<scanVars, cacheVars, appVars, opened, object, up, events, step, told, raced, contended>>

(* disconnect_execute, entered by thread t. *)
Begin(t) == step' = [step EXCEPT ![t] = "test"]

NullDevice == crash' = "null device" /\ UNCHANGED <<told, raced, contended>>

(* The uncached request for the services brings the link up; a closed device throws, out *)
(* of connect(), and so does a closed service later on.                                  *)
DiscoverServices ==
    /\ At("discovering") /\ device # Null /\ object[device] = "open"
    /\ up' = [up EXCEPT ![device] = TRUE] /\ pc' = "service" /\ at' = 1
    /\ UNCHANGED <<scanVars, cacheVars, callVars, device, opened, object, events, step, outcome>>

QuitFrom(place) == At(place) /\ Goto("idle")

FailFrom(place) ==
    /\ At(place) /\ pc' = "ending" /\ at' = 1 /\ Begin(App)
    /\ UNCHANGED <<scanVars, cacheVars, callVars, linkVars, outcome>>

DiscoverServicesFails == device # Null /\ object[device] = "open" /\ FailFrom("discovering")

DiscoverServicesThrows ==
    /\ At("discovering") /\ device # Null /\ object[device] = "closed"
    /\ Goto("idle")

DiscoverWithoutDevice ==
    /\ At("discovering") /\ device = Null
    /\ NullDevice
    /\ UNCHANGED <<scanVars, cacheVars, appVars, linkVars, step>>

GetCharacteristics == At("service") /\ object[opened] = "open" /\ Goto("caching")

GetCharacteristicsFails == FailFrom("service")

GetCharacteristicsThrows == At("service") /\ object[opened] = "closed" /\ Goto("idle")

FollowingPast(s) == s + 1
Following(s) == IF s < NumServices THEN s + 1 ELSE 1

(* emplace keeps what the map has. *)
CacheCharacteristic ==
    /\ At("caching")
    /\ cache' = [cache EXCEPT ![at] = IF @ = Null THEN opened ELSE @]
    /\ spoiled' = (spoiled \/ object[opened] = "closed" \/ cache'[at] # device)
    /\ at' = Following(at)
    /\ pc' = IF at < NumServices THEN "service" ELSE "connected"
    /\ UNCHANGED <<scanVars, listeners, callVars, linkVars, step, outcome>>

Connected ==
    /\ At("connected")
    /\ told' = "up"
    /\ pc' = "idle"
    /\ UNCHANGED <<scanVars, cacheVars, at, callVars, linkVars, step, raced, contended, crash>>

----------------------------------------------------------------------------
(* disconnect_execute and the callback after it, run by thread t.  Each    *)
(* step reads this->device again, whatever it has become.                  *)

ToStep(t, place) == step' = [step EXCEPT ![t] = place]

(* Another thread is past its test, or connect() is about to use the device. *)
Overlaps(t) ==
    \/ \E u \in Threads \ {t} : Executing(u)
    \/ t # App /\ pc = "discovering"

SkipTest == "services"
AfterTest == IF device = Null THEN "report" ELSE "services"

TestDevice(t) ==
    /\ Alive /\ step[t] = "test"
    /\ ToStep(t, AfterTest)
    /\ contended' = (contended \/ (device # Null /\ Overlaps(t)))
    /\ UNCHANGED <<scanVars, linkVars, cacheVars, appVars, told, raced, crash>>

CloseServices(t) ==
    /\ Alive /\ step[t] = "services" /\ device # Null /\ object[device] = "open"
    /\ ToStep(t, "close")
    /\ UNCHANGED <<scanVars, linkVars, cacheVars, appVars, outcome>>

(* The request throws on a device that another thread has closed: out of the handler, or of the call. *)
CloseServicesThrows(t) ==
    /\ Alive /\ step[t] = "services" /\ device # Null /\ object[device] = "closed"
    /\ ToStep(t, "none")
    /\ pc' = IF t = App THEN "idle" ELSE pc
    /\ UNCHANGED <<scanVars, linkVars, cacheVars, at, callVars, outcome>>

CloseDevice(t) ==
    /\ Alive /\ step[t] = "close" /\ device # Null
    /\ object' = [object EXCEPT ![device] = "closed"]
    /\ up' = [up EXCEPT ![device] = FALSE]
    /\ raced' = (raced \/ (t # App /\ pc \in {"service", "caching", "connected"}))
    /\ ToStep(t, "clear")
    /\ UNCHANGED <<scanVars, cacheVars, appVars, device, opened, events, told, contended, crash>>

CloseWithoutDevice(t) ==
    /\ Alive /\ step[t] \in {"services", "close"} /\ device = Null
    /\ NullDevice
    /\ UNCHANGED <<scanVars, cacheVars, appVars, linkVars, step>>

KeepCache == UNCHANGED <<cache, listeners>>

EmptyCache ==
    /\ cache' = [s \in Services |-> Null]
    /\ listeners' = [s \in Services |-> 0]

ClearCache(t) ==
    /\ Alive /\ step[t] = "clear"
    /\ EmptyCache
    /\ spoiled' = FALSE
    /\ ToStep(t, "reset")
    /\ UNCHANGED <<scanVars, linkVars, appVars, outcome>>

(* The device forgotten here need not be the one that was closed. *)
ResetDevice(t) ==
    /\ Alive /\ step[t] = "reset"
    /\ device' = Null
    /\ spoiled' = (spoiled \/ (device # Null /\ object[device] = "open"))
    /\ ToStep(t, "report")
    /\ UNCHANGED <<scanVars, cache, listeners, appVars, opened, object, up, events, outcome>>

Report(t) ==
    /\ Alive /\ step[t] = "report"
    /\ told' = "down"
    /\ ToStep(t, "none")
    /\ pc' = IF t = App THEN "idle" ELSE pc
    /\ UNCHANGED <<scanVars, linkVars, cacheVars, at, callVars, raced, contended, crash>>

(* WinRT: the link goes; Close() may revoke an event not yet handled. *)
LoseLink(d) ==
    /\ Alive /\ object[d] = "open" /\ up[d]
    /\ up' = [up EXCEPT ![d] = FALSE]
    /\ events' = events \cup {d}
    /\ UNCHANGED <<scanVars, cacheVars, appVars, device, opened, object, step, outcome>>

RevokeEvent(d) ==
    /\ Alive /\ d \in events /\ object[d] = "closed"
    /\ events' = events \ {d}
    /\ UNCHANGED <<scanVars, cacheVars, appVars, device, opened, object, up, step, outcome>>

RegainLink(d) ==
    /\ Alive /\ object[d] = "open" /\ d \in events
    /\ up' = [up EXCEPT ![d] = TRUE]
    /\ UNCHANGED <<scanVars, cacheVars, appVars, device, opened, object, events, step, outcome>>

(* The handler of ConnectionStatusChanged: it ends this->device, not its own object d. *)
TakeEvent(d, place) ==
    /\ Alive /\ d \in events /\ step[d] = "none"
    /\ events' = events \ {d}
    /\ ToStep(d, place)
    /\ UNCHANGED <<scanVars, cacheVars, appVars, device, opened, object, up, outcome>>

HandlerDoesNothing(d) == TakeEvent(d, "none")
ConnectionStatusChanged(d) == TakeEvent(d, IF up[d] THEN "none" ELSE "test")

IsConnected == device # Null /\ up[device]

Disconnect == nested = 0 /\ IsConnected /\ FailFrom("idle")

----------------------------------------------------------------------------
(* The operations on the characteristic of a service.  fetch_characteristic *)
(* gives a pointer into the map, or null; both are used without a test.    *)

Fetch(s) ==
    /\ Free /\ told = "up"
    /\ at' = s
    /\ IF cache[s] = Null
       THEN crash' = "null characteristic" /\ UNCHANGED pc
       ELSE pc' = "requesting" /\ UNCHANGED crash
    /\ UNCHANGED <<scanVars, cacheVars, callVars, linkVars, step, told, raced, contended>>

(* The request on the characteristic, refused if it lacks the property; notify *)
(* and indicate go on to attach their callback.                               *)
Use(next) ==
    /\ Alive
    /\ cache[at] # Null
    /\ pc' = next
    /\ at' = IF next = "idle" THEN 1 ELSE at
    /\ UNCHANGED <<scanVars, spoiled, cache, callVars, linkVars, step, outcome>>

Request ==
    /\ pc = "requesting"
    /\ Use("idle") /\ UNCHANGED listeners

RequestNotifications ==
    /\ pc = "requesting" /\ listeners[at] < MaxListeners
    /\ cache[at] # Null /\ object[cache[at]] = "open"
    /\ Use("configuring") /\ UNCHANGED listeners

AddListener ==
    /\ pc = "configuring"
    /\ Use("idle")
    /\ listeners' = [listeners EXCEPT ![at] = @ + 1]

UseDangling ==
    /\ Alive /\ pc \in {"requesting", "configuring"} /\ cache[at] = Null
    /\ crash' = "dangling characteristic"
    /\ UNCHANGED <<scanVars, cacheVars, appVars, linkVars, step, told, raced, contended>>

----------------------------------------------------------------------------
Init ==
    /\ watcher = "none" /\ scanning = FALSE /\ detected = {}
    /\ inserting = [a \in Advertisers |-> 0] /\ reporting = [a \in Advertisers |-> 0]
    /\ calls = 0 /\ nested = 0
    /\ pc = "idle" /\ at = 1 /\ dialled = [spelling |-> <<>>, number |-> Denotes(<<>>)]
    /\ device = Null /\ opened = 0
    /\ object = [d \in Devices |-> "none"] /\ up = [d \in Devices |-> FALSE] /\ events = {}
    /\ step = [t \in Threads |-> "none"]
    /\ cache = [s \in Services |-> Null] /\ listeners = [s \in Services |-> 0]
    /\ told = "down" /\ heard = {} /\ found = [a \in Advertisers |-> 0] /\ overtaken = {}
    /\ restarted = FALSE /\ raced = FALSE /\ spoiled = FALSE /\ contended = FALSE
    /\ crash = "no"

ExecuteStep(t) ==
    \/ TestDevice(t)
    \/ CloseServices(t) \/ CloseServicesThrows(t)
    \/ CloseDevice(t) \/ CloseWithoutDevice(t)
    \/ ClearCache(t) \/ ResetDevice(t)
    \/ Report(t)

ConnectStep ==
    \/ Open \/ OpenFindsNone
    \/ DiscoverServices \/ DiscoverServicesFails \/ DiscoverServicesThrows \/ DiscoverWithoutDevice
    \/ GetCharacteristics \/ GetCharacteristicsFails \/ GetCharacteristicsThrows
    \/ CacheCharacteristic \/ Connected

OperationStep == Request \/ RequestNotifications \/ AddListener \/ UseDangling

HandlerStep ==
    \E a \in Advertisers :
        InsertAddress(a) \/ ReportFound(a) \/ \E named \in BOOLEAN : Received(a, named)

Continue == WakeUp \/ ScanStopReturns \/ ConnectStep \/ OperationStep

Next ==
    \/ ScanStart \/ ScanTimeout \/ ScanStop
    \/ \E address \in Spellings : Connect(address)
    \/ Disconnect
    \/ \E s \in Services : Fetch(s)
    \/ Continue
    \/ \E t \in Threads : ExecuteStep(t)
    \/ HandlerStep
    \/ \E d \in Devices : LoseLink(d) \/ RegainLink(d) \/ RevokeEvent(d) \/ ConnectionStatusChanged(d)

(* connect() and disconnect_execute run on; every WinRT request ends, with success or without. *)
Fairness ==
    /\ WF_vars(ConnectStep)
    /\ \A t \in Threads : WF_vars(ExecuteStep(t))
    /\ \A d \in Devices : WF_vars(ConnectionStatusChanged(d))

Spec == Init /\ [][Next]_vars /\ Fairness

----------------------------------------------------------------------------
(* Types of the variables that the code keeps. *)
TypeOK ==
    /\ watcher \in {"none", "started", "stopped"} /\ scanning \in BOOLEAN
    /\ detected \subseteq Advertisers
    /\ inserting \in [Advertisers -> Nat] /\ reporting \in [Advertisers -> Nat]
    /\ calls \in 0..MaxCalls /\ nested \in Nat
    /\ pc \in {"idle", "sleeping", "stopping", "opening", "discovering", "service", "caching", "connected",
               "ending", "requesting", "configuring"}
    /\ at \in Services
    /\ device \in Devices \cup {Null} /\ opened \in 0..MaxConnects
    /\ object \in [Devices -> {"none", "open", "closed"}] /\ up \in [Devices -> BOOLEAN]
    /\ events \subseteq Devices
    /\ step \in [Threads -> {"none", "test", "services", "close", "clear", "reset", "report"}]
    /\ cache \in [Services -> Devices \cup {Null}] /\ listeners \in [Services -> Nat]
    /\ told \in {"up", "down"} /\ contended \in BOOLEAN
    /\ crash \in {"no", "no device", "null device", "null characteristic", "dangling characteristic"}

(* scan_is_active() (line 58) tells whether the watcher runs, unless the application began *)
(* this scan from within callback_on_scan_stop: line 54 then forgets that it runs.         *)
FlagFollowsWatcher == nested = 0 /\ ~restarted => (scanning <=> watcher = "started")

(* In each scan a peripheral is reported exactly once, for its first advertisement with a *)
(* name, or is about to be, whatever came without a name, late or in an earlier scan.  The *)
(* exceptions are in the three steps of the handler (lines 39-42), where nothing is locked: *)
(* another handler passes the test before the insertion, or scan_start clears meanwhile.   *)
FoundOncePerScan ==
    \A a \in Advertisers \ overtaken :
        found[a] + inserting[a] + reporting[a] = IF a \in heard THEN 1 ELSE 0

(* connect() looks for the device whose address it was given, *)
(* in whatever way the address is spelt (lines 78-81).        *)
OpensTheDeviceNamed ==
    dialled.number = Denotes(dialled.spelling)

(* No call is under way and no event of WinRT waits. *)
Settled ==
    Free /\ events = {} /\ \A t \in Threads : step[t] = "none"

(* At rest the connection callbacks have told the application what is so, through every *)
(* failure of the discovery and every loss of link; the exceptions are a handler already *)
(* at work as connect() opens its device, and one that closes the device during the      *)
(* discovery, after which line 119 still reports a connection.                           *)
ViewIsTrue == Settled /\ ~raced => (told = "up" <=> IsConnected)

(* At rest every cached characteristic, and so every callback attached to one, belongs to *)
(* the present device, unless since the map was cleared line 105 kept or cached one of an *)
(* object other than the open device, or line 245, late, forgot a device that it had not  *)
(* closed and that connect() had opened meanwhile.                                        *)
CachedIsLive ==
    Settled /\ ~spoiled =>
        \A s \in Services : cache[s] \in {Null, device} /\ (listeners[s] > 0 => cache[s] # Null)

(* The null device is used only if two threads were in disconnect_execute at once, or *)
(* a connection handler was in it while connect() began.                              *)
NullDeviceNeedsOverlap == crash = "null device" => contended

(* A connection that was reported and lost is reported as lost, or comes back. *)
LossIsReported == (told = "up" /\ device # Null /\ ~up[device]) ~> (told = "down" \/ IsConnected \/ ~Alive)
===============================================================================
