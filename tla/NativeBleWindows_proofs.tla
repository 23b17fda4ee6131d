------------------------ MODULE NativeBleWindows_proofs ------------------------
(***************************************************************************)
(* Theorems about NativeBleWindows, for any number of connections,         *)
(* services, calls and advertisers.                                        *)
(***************************************************************************)
EXTENDS NativeBleWindows, QueueLemmas, SequenceTheorems, TLAPS

Steps == {"none", "test", "services", "close", "clear", "reset", "report"}

\* The part of the types that the argument needs; the application thread is in
\* disconnect_execute only where a call of it waits for that.
Shape ==
    /\ opened \in Nat
    /\ step \in [Threads -> Steps]
    /\ step[App] # "none" => pc = "ending"

\* Who is past the test of device, or about to use it in connect(), has a device
\* and is alone, unless an overlap was noticed.
Guarded ==
    /\ \A t \in Threads : Executing(t) => device # Null
    /\ \A t, u \in Threads : Executing(t) /\ Executing(u) => t = u
    /\ pc = "discovering" => device # Null /\ \A t \in Threads : ~Executing(t)

DeviceInv ==
    /\ Shape
    /\ Alive /\ ~contended => Guarded
    /\ NullDeviceNeedsOverlap

LEMMA ThreadFacts ==
    /\ App \in Threads /\ Devices \subseteq Threads
    /\ \A d \in Devices : d # App
BY BoundsAssumption DEF App, Threads, Devices

LEMMA DeviceInit == Init => DeviceInv
BY ThreadFacts
DEF Init, DeviceInv, Shape, Guarded, NullDeviceNeedsOverlap, Executing, Steps, Alive, App, Threads

\* A step that touches neither the device nor the threads in disconnect_execute,
\* and brings the application neither into nor out of the places that matter.
LEMMA DeviceFrame ==
    ASSUME DeviceInv, Alive, UNCHANGED <<device, opened, step, contended>>,
           crash' \in {crash, "null characteristic", "dangling characteristic"},
           pc' # "discovering" \/ pc' = pc, pc = "ending" => pc' = pc
    PROVE  DeviceInv'
BY DEF DeviceInv, Shape, Guarded, NullDeviceNeedsOverlap, Executing, Alive

\* Where the application goes into disconnect_execute.
LEMMA FailFromKeeps ==
    ASSUME DeviceInv, NEW place, FailFrom(place)
    PROVE  DeviceInv'
<1> USE DEF FailFrom, Begin, At, Alive, outcome, linkVars
<1>1. Shape'
  BY ThreadFacts DEF DeviceInv, Shape, Steps
<1>2. \A t \in Threads : Executing(t)' => Executing(t)
  BY ThreadFacts DEF DeviceInv, Shape, Executing
<1>3. Alive /\ ~contended => Guarded'
  BY <1>2 DEF DeviceInv, Guarded
<1>4. NullDeviceNeedsOverlap'
  BY DEF DeviceInv, NullDeviceNeedsOverlap
<1> QED BY <1>1, <1>3, <1>4 DEF DeviceInv

\* disconnect_execute, whichever thread is in it.
LEMMA ExecuteKeeps ==
    ASSUME DeviceInv, NEW t \in Threads, ExecuteStep(t)
    PROVE  DeviceInv'
<1> USE ThreadFacts DEF ToStep, appVars, callVars, linkVars
<1>1. CASE TestDevice(t)
  <2> USE <1>1 DEF TestDevice, AfterTest
  <2>1. Shape'
    BY DEF DeviceInv, Shape, Steps
  <2>2. ASSUME Alive', ~contended' PROVE Guarded'
    <3>1. Guarded
      BY <2>2 DEF DeviceInv, Alive
    <3>2. CASE device = Null
      BY <3>1, <3>2 DEF DeviceInv, Shape, Guarded, Executing
    <3>3. CASE device # Null
      <4>1. ~Overlaps(t)
        BY <2>2, <3>3
      <4>2. \A u \in Threads \ {t} : ~Executing(u)
        BY <4>1 DEF Overlaps
      <4>3. \A u \in Threads \ {t} : ~Executing(u)'
        BY <4>2 DEF DeviceInv, Shape, Executing
      <4>4. pc' # "discovering"
        BY <4>1 DEF DeviceInv, Shape, Overlaps
      <4> QED BY <3>3, <4>3, <4>4 DEF Guarded
    <3> QED BY <3>2, <3>3
  <2>3. NullDeviceNeedsOverlap'
    BY DEF DeviceInv, NullDeviceNeedsOverlap
  <2> QED BY <2>1, <2>2, <2>3 DEF DeviceInv
<1>2. CASE CloseServices(t) \/ CloseDevice(t) \/ ClearCache(t)
  <2> USE <1>2 DEF CloseServices, CloseDevice, ClearCache, outcome
  <2>1. Shape'
    BY DEF DeviceInv, Shape, Steps
  <2>2. \A u \in Threads : Executing(u)' <=> Executing(u)
    BY DEF DeviceInv, Shape, Executing
  <2> QED BY <2>1, <2>2 DEF DeviceInv, Guarded, NullDeviceNeedsOverlap, Alive
<1>6. CASE CloseServicesThrows(t)
  <2> USE <1>6 DEF CloseServicesThrows, outcome
  <2>1. Shape'
    BY DEF DeviceInv, Shape, Steps
  <2>2. \A u \in Threads : Executing(u)' => Executing(u)
    BY DEF DeviceInv, Shape, Executing
  <2>3. pc' = "discovering" => pc = "discovering"
    OBVIOUS
  <2> QED BY <2>1, <2>2, <2>3 DEF DeviceInv, Guarded, NullDeviceNeedsOverlap, Alive
<1>3. CASE ResetDevice(t)
  <2> USE <1>3 DEF ResetDevice, outcome
  <2>1. Shape'
    BY DEF DeviceInv, Shape, Steps
  <2>2. ASSUME Alive', ~contended' PROVE Guarded'
    <3>1. Guarded /\ Executing(t)
      BY <2>2 DEF DeviceInv, Alive, Executing
    <3>2. \A u \in Threads : ~Executing(u)'
      BY <3>1 DEF DeviceInv, Shape, Guarded, Executing
    <3> QED BY <3>1, <3>2 DEF Guarded
  <2>3. NullDeviceNeedsOverlap'
    BY DEF DeviceInv, NullDeviceNeedsOverlap
  <2> QED BY <2>1, <2>2, <2>3 DEF DeviceInv
<1>4. CASE CloseWithoutDevice(t)
  <2> USE <1>4 DEF CloseWithoutDevice, NullDevice
  <2>1. contended
    BY DEF DeviceInv, Guarded, Executing
  <2> QED BY <2>1 DEF DeviceInv, Shape, NullDeviceNeedsOverlap
<1>5. CASE Report(t)
  BY <1>5 DEF Report, DeviceInv, Shape, Guarded, NullDeviceNeedsOverlap, Executing, Steps, Alive
<1> QED BY <1>1, <1>2, <1>3, <1>4, <1>5, <1>6 DEF ExecuteStep

LEMMA ConnectKeeps ==
    ASSUME DeviceInv, ConnectStep
    PROVE  DeviceInv'
<1> USE ThreadFacts DEF appVars, callVars, linkVars, outcome, Goto, At
<1>1. CASE Open
  <2> USE <1>1 DEF Open
  <2>1. Shape'
    BY DEF DeviceInv, Shape
  <2>2. ASSUME Alive', ~contended' PROVE Guarded'
    <3>1. \A t \in Threads : ~Executing(t)'
      BY <2>2 DEF Executing
    <3>2. device' # Null
      BY DEF DeviceInv, Shape, Null
    <3> QED BY <3>1, <3>2 DEF Guarded
  <2>3. NullDeviceNeedsOverlap'
    BY DEF DeviceInv, NullDeviceNeedsOverlap, Alive
  <2> QED BY <2>1, <2>2, <2>3 DEF DeviceInv
<1>2. CASE OpenFindsNone
  BY <1>2 DEF OpenFindsNone, DeviceInv, Shape, NullDeviceNeedsOverlap, Alive
<1>3. CASE DiscoverWithoutDevice
  <2> USE <1>3 DEF DiscoverWithoutDevice, NullDevice
  <2>1. contended
    BY DEF DeviceInv, Guarded
  <2> QED BY <2>1 DEF DeviceInv, Shape, NullDeviceNeedsOverlap
<1>4. CASE DiscoverServicesFails \/ GetCharacteristicsFails
  BY <1>4, FailFromKeeps DEF DiscoverServicesFails, GetCharacteristicsFails
<1>5. CASE DiscoverServices
  BY <1>5, DeviceFrame DEF DiscoverServices
<1>6. CASE DiscoverServicesThrows \/ GetCharacteristics \/ GetCharacteristicsThrows
  BY <1>6, DeviceFrame DEF DiscoverServicesThrows, GetCharacteristics, GetCharacteristicsThrows
<1>7. CASE CacheCharacteristic
  BY <1>7, DeviceFrame DEF CacheCharacteristic
<1>8. CASE Connected
  BY <1>8, DeviceFrame DEF Connected
<1> QED BY <1>1, <1>2, <1>3, <1>4, <1>5, <1>6, <1>7, <1>8 DEF ConnectStep

\* The handler of a connection starts at the test.
LEMMA HandlerKeeps ==
    ASSUME DeviceInv, NEW d \in Devices, ConnectionStatusChanged(d)
    PROVE  DeviceInv'
<1> USE ThreadFacts DEF ConnectionStatusChanged, TakeEvent, ToStep, appVars, callVars, outcome
<1>1. Shape'
  BY DEF DeviceInv, Shape, Steps
<1>2. \A t \in Threads : Executing(t)' => Executing(t)
  BY DEF DeviceInv, Shape, Executing
<1> QED BY <1>1, <1>2 DEF DeviceInv, Guarded, NullDeviceNeedsOverlap, Alive

LEMMA DeviceNext == DeviceInv /\ [Next]_vars => DeviceInv'
<1> SUFFICES ASSUME DeviceInv, [Next]_vars PROVE DeviceInv'
  OBVIOUS
<1> USE DEF linkVars, appVars, callVars, outcome, At
<1>1. CASE ScanStart \/ ScanStop
  BY <1>1, DeviceFrame DEF ScanStart, ScanStop, CallsAllowed
<1>2. CASE ScanTimeout
  BY <1>2, DeviceFrame DEF ScanTimeout, Free
<1>3. CASE \E address \in Spellings : Connect(address)
  BY <1>3, DeviceFrame DEF Connect, Free
<1>4. CASE Disconnect
  BY <1>4, FailFromKeeps DEF Disconnect
<1>5. CASE \E s \in Services : Fetch(s)
  BY <1>5, DeviceFrame DEF Fetch, Free
<1>6. CASE WakeUp
  BY <1>6, DeviceFrame DEF WakeUp
<1>7. CASE ScanStopReturns
  BY <1>7, DeviceFrame DEF ScanStopReturns, ReturnFromStop
<1>8. CASE ConnectStep
  BY <1>8, ConnectKeeps
<1>9. CASE OperationStep
  BY <1>9, DeviceFrame DEF OperationStep, Request, RequestNotifications, AddListener, Use, UseDangling
<1>10. CASE \E t \in Threads : ExecuteStep(t)
  BY <1>10, ExecuteKeeps
<1>11. CASE HandlerStep
  BY <1>11, DeviceFrame DEF HandlerStep, Received, InsertAddress, ReportFound
<1>12. CASE \E d \in Devices : LoseLink(d) \/ RegainLink(d) \/ RevokeEvent(d)
  BY <1>12, DeviceFrame DEF LoseLink, RegainLink, RevokeEvent
<1>13. CASE \E d \in Devices : ConnectionStatusChanged(d)
  BY <1>13, HandlerKeeps
<1>14. CASE UNCHANGED vars
  BY <1>14 DEF vars, DeviceInv, Shape, Guarded, NullDeviceNeedsOverlap, Executing, Alive
<1> QED
  BY <1>1, <1>2, <1>3, <1>4, <1>5, <1>6, <1>7, <1>8, <1>9, <1>10, <1>11, <1>12, <1>13, <1>14
  DEF Next, Continue

\* disconnect_execute and connect() use a null device only after an overlap: while
\* one thread at a time is in them the one test of line 238 is enough.
THEOREM NullDeviceNeedsTwo == Spec => []NullDeviceNeedsOverlap
<1>1. DeviceInv => NullDeviceNeedsOverlap
  BY DEF DeviceInv
<1> QED BY <1>1, DeviceInit, DeviceNext, PTL DEF Spec

-------------------------------------------------------------------------------
(* The inductive invariant behind the properties of scans, of the cache and  *)
(* of what the application has been told.                                    *)

\* Where the application thread is: connect() has a number for the device object it is
\* about to make, and uses the one it has made; only disconnect_execute keeps it "ending".
PlaceInv ==
    /\ pc \in {"stopping", "opening"} => opened < MaxConnects
    /\ pc \in {"discovering", "service", "caching", "connected"} => opened # 0
    /\ pc = "ending" <=> step[App] # "none"

\* A peripheral whose handlers were not overtaken has been found, or is with the one handler
\* that passed the test, and its address is kept from the insertion on.
FoundInv ==
    \A a \in Advertisers \ overtaken :
        /\ found[a] + inserting[a] + reporting[a] = IF a \in heard THEN 1 ELSE 0
        /\ a \in detected <=> found[a] + reporting[a] > 0

\* While scan_stop is in its callback the watcher is stopped, unless that callback started it.
ScanInv ==
    /\ ~restarted => IF nested = 0 THEN (scanning <=> watcher = "started") ELSE watcher = "stopped"
    /\ found \in [Advertisers -> Nat]
    /\ FoundInv

\* Who has closed a device and has not forgotten it.
Forgetting(t) == step[t] \in {"clear", "reset"}

\* this->device holds no open device.
Unheld == device = Null \/ object[device] = "closed"

\* this->device is the latest object or none, and who closed it is about to forget it.
ObjectInv ==
    /\ device \in {Null, opened}
    /\ device # Null => object[device] \in {"open", "closed"}
    /\ device # Null /\ object[device] = "closed" => \E t \in Threads : Forgetting(t)
    /\ step[App] = "report" => device = Null

\* Unless an exception was noticed, a device that is gone has had its entries removed, or its
\* closer is about to, and old entries outlive a connect() only until the loop over the
\* services meets them or its failure clears the map.
EntriesInv ==
    /\ Unheld => (\E t \in Threads : step[t] = "clear") \/ \A s \in Services : cache[s] = Null
    /\ ~Unheld /\ pc \notin {"discovering", "ending"} =>
          \A s \in Services : cache[s] \in {Null, device} \/ (pc \in {"service", "caching"} /\ s >= at)

CacheInv ==
    /\ \A s \in Services : listeners[s] > 0 => cache[s] # Null
    /\ ~spoiled => EntriesInv

\* Who is on the way to forgetting the device.
Closing(t) == step[t] \in {"test", "services", "close", "clear", "reset"}

\* A lost link is waiting to be handled or being handled.
LossInv ==
    device # Null /\ ~up[device] /\ pc # "discovering" =>
        device \in events \/ \E t \in Threads : Closing(t)

\* What is reported is the end of the device there was, what is forgotten was closed, and
\* connect() has its device, open, until it has reported it.
ViewInv ==
    /\ told = "up" /\ device = Null => \E t \in Threads : step[t] = "report"
    /\ \A t \in Threads : step[t] = "report" => device = Null
    /\ \A t \in Threads : Forgetting(t) => Unheld
    /\ told = "down" /\ device # Null =>
          \/ pc \in {"discovering", "service", "caching", "connected", "ending"}
          \/ \E t \in Threads : Forgetting(t)
    /\ pc \in {"service", "caching", "connected"} => device # Null /\ object[device] = "open"

ToldInv == ~raced => ViewInv

-------------------------------------------------------------------------------
(* Types.                                                                    *)

\* The types, in the parts that an action changes as one.
ScanTypes ==
    /\ watcher \in {"none", "started", "stopped"} /\ scanning \in BOOLEAN
    /\ detected \subseteq Advertisers
    /\ inserting \in [Advertisers -> Nat] /\ reporting \in [Advertisers -> Nat]
    /\ nested \in Nat

LinkTypes ==
    /\ device \in Devices \cup {Null} /\ opened \in 0..MaxConnects
    /\ object \in [Devices -> {"none", "open", "closed"}] /\ up \in [Devices -> BOOLEAN]
    /\ events \subseteq Devices

CacheTypes == cache \in [Services -> Devices \cup {Null}] /\ listeners \in [Services -> Nat]

CallTypes ==
    /\ calls \in 0..MaxCalls /\ at \in Services
    /\ pc \in {"idle", "sleeping", "stopping", "opening", "discovering", "service", "caching", "connected",
               "ending", "requesting", "configuring"}

ThreadTypes ==
    /\ step \in [Threads -> Steps]
    /\ told \in {"up", "down"} /\ contended \in BOOLEAN
    /\ crash \in {"no", "no device", "null device", "null characteristic", "dangling characteristic"}

TypeInv == ScanTypes /\ LinkTypes /\ CacheTypes /\ CallTypes /\ ThreadTypes /\ PlaceInv

LEMMA TypeParts == TypeOK <=> ScanTypes /\ LinkTypes /\ CacheTypes /\ CallTypes /\ ThreadTypes
BY DEF TypeOK, ScanTypes, LinkTypes, CacheTypes, CallTypes, ThreadTypes, Steps

LEMMA TypeInit == Init => TypeInv
<1> SUFFICES ASSUME Init PROVE TypeInv
  OBVIOUS
<1>1. ScanTypes
  BY DEF Init, ScanTypes
<1>2. LinkTypes
  <2>1. opened \in 0..MaxConnects
    BY BoundsAssumption DEF Init
  <2> QED BY <2>1 DEF Init, LinkTypes
<1>3. CacheTypes
  BY DEF Init, CacheTypes
<1>4. CallTypes
  <2>1. calls \in 0..MaxCalls /\ 1 \in Services
    BY BoundsAssumption DEF Init, Services
  <2> QED BY <2>1 DEF Init, CallTypes
<1>5. ThreadTypes
  BY DEF Init, ThreadTypes, Steps
<1>6. PlaceInv
  BY ThreadFacts DEF Init, PlaceInv
<1> QED BY <1>1, <1>2, <1>3, <1>4, <1>5, <1>6 DEF TypeInv

\* The parts that a step leaves alone.
LEMMA TypeFrame ==
    ASSUME TypeInv
    PROVE  /\ UNCHANGED scanVars => ScanTypes'
           /\ UNCHANGED linkVars => LinkTypes'
           /\ UNCHANGED <<cache, listeners>> => CacheTypes'
           /\ UNCHANGED <<pc, at, calls>> => CallTypes'
           /\ UNCHANGED <<step, told, contended, crash>> => ThreadTypes'
           /\ UNCHANGED <<pc, opened, step>> => PlaceInv'
<1>1. UNCHANGED scanVars => ScanTypes'
  BY DEF TypeInv, ScanTypes, scanVars
<1>2. UNCHANGED linkVars => LinkTypes'
  BY DEF TypeInv, LinkTypes, linkVars
<1>3. UNCHANGED <<cache, listeners>> => CacheTypes'
  BY DEF TypeInv, CacheTypes
<1>4. UNCHANGED <<pc, at, calls>> => CallTypes'
  BY DEF TypeInv, CallTypes
<1>5. UNCHANGED <<step, told, contended, crash>> => ThreadTypes'
  BY DEF TypeInv, ThreadTypes
<1>6. UNCHANGED <<pc, opened, step>> => PlaceInv'
  BY DEF TypeInv, PlaceInv
<1> QED BY <1>1, <1>2, <1>3, <1>4, <1>5, <1>6

LEMMA StartTypes ==
    ASSUME TypeInv, StartWatcher, at' = at
    PROVE  ScanTypes' /\ (pc' \in {pc, "sleeping"} => CallTypes')
<1>1. ScanTypes'
  <2>1. watcher' \in {"none", "started", "stopped"} /\ scanning' \in BOOLEAN
    BY DEF StartWatcher
  <2>2. detected' \subseteq Advertisers
    BY DEF StartWatcher
  <2>3. inserting' \in [Advertisers -> Nat] /\ reporting' \in [Advertisers -> Nat] /\ nested' \in Nat
    BY DEF StartWatcher, TypeInv, ScanTypes
  <2> QED BY <2>1, <2>2, <2>3 DEF ScanTypes
<1>2. calls' \in 0..MaxCalls
  <2>1. MaxCalls \in Nat /\ calls \in 0..MaxCalls
    BY BoundsAssumption DEF TypeInv, CallTypes
  <2>2. calls < MaxCalls /\ calls' = calls + 1
    BY DEF StartWatcher
  <2> QED BY <2>1, <2>2
<1>3. pc' \in {pc, "sleeping"} => CallTypes'
  BY <1>2 DEF TypeInv, CallTypes
<1> QED BY <1>1, <1>3

LEMMA StopTypes ==
    ASSUME TypeInv, StopWatcher
    PROVE  ScanTypes'
<1>1. nested \in Nat /\ nested' = nested + 1
  BY DEF StopWatcher, TypeInv, ScanTypes
<1>2. nested' \in Nat
  BY <1>1
<1>3. watcher' = "stopped" /\ UNCHANGED <<scanning, detected, inserting, reporting>>
  BY DEF StopWatcher
<1> QED BY <1>2, <1>3 DEF TypeInv, ScanTypes

LEMMA ScanTypesNext ==
    ASSUME TypeInv,
           ScanStart \/ ScanTimeout \/ ScanStop \/ WakeUp \/ ScanStopReturns
    PROVE  TypeInv'
<1> USE TypeFrame DEF appVars, callVars, cacheVars, outcome
<1>1. CASE ScanStart
  <2>1. ScanTypes' /\ CallTypes'
    BY <1>1, StartTypes DEF ScanStart
  <2> QED BY <1>1, <2>1 DEF ScanStart, TypeInv, linkVars
<1>2. CASE ScanTimeout
  <2>1. ScanTypes' /\ CallTypes'
    BY <1>2, StartTypes DEF ScanTimeout
  <2>2. PlaceInv'
    BY <1>2 DEF ScanTimeout, TypeInv, PlaceInv, linkVars, Free, At
  <2> QED BY <1>2, <2>1, <2>2 DEF ScanTimeout, TypeInv
<1>3. CASE ScanStop
  BY <1>3, StopTypes DEF ScanStop, TypeInv, linkVars
<1>4. CASE WakeUp
  <2>1. CallTypes' /\ PlaceInv'
    BY <1>4 DEF WakeUp, TypeInv, CallTypes, PlaceInv, linkVars, At
  <2> QED BY <1>4, <2>1, StopTypes DEF WakeUp, TypeInv
<1>5. CASE ScanStopReturns
  <2> USE <1>5 DEF ScanStopReturns, ReturnFromStop
  <2>1. ScanTypes'
    <3>1. nested \in Nat /\ nested > 0 /\ nested' = nested - 1
      BY DEF TypeInv, ScanTypes
    <3>2. nested' \in Nat
      BY <3>1
    <3>3. scanning' = FALSE /\ UNCHANGED <<watcher, detected, inserting, reporting>>
      OBVIOUS
    <3> QED BY <3>2, <3>3 DEF TypeInv, ScanTypes
  <2>2. pc' = pc \/ (pc = "stopping" /\ pc' = "opening")
    OBVIOUS
  <2>3. CallTypes'
    BY <2>2 DEF TypeInv, CallTypes
  <2>4. PlaceInv'
    BY <2>2 DEF TypeInv, PlaceInv, linkVars
  <2> QED BY <2>1, <2>3, <2>4 DEF TypeInv
<1> QED BY <1>1, <1>2, <1>3, <1>4, <1>5

LEMMA FailFromTypes ==
    ASSUME TypeInv, NEW place, FailFrom(place)
    PROVE  TypeInv'
<1> USE DEF FailFrom, Begin, callVars, cacheVars, outcome
<1>1. CallTypes'
  BY BoundsAssumption DEF TypeInv, CallTypes, Services
<1>2. ThreadTypes' /\ step'[App] = "test"
  BY ThreadFacts DEF TypeInv, ThreadTypes, Steps
<1>3. PlaceInv'
  BY <1>2 DEF PlaceInv
<1> QED BY <1>1, <1>2, <1>3, TypeFrame DEF TypeInv

LEMMA ConnectTypes ==
    ASSUME TypeInv,
           ConnectStep \/ \E address \in Spellings : Connect(address)
    PROVE  TypeInv'
<1> USE TypeFrame DEF appVars, callVars, cacheVars, outcome, At
<1>1. CASE \E address \in Spellings : Connect(address)
  <2> PICK address \in Spellings : Connect(address)
    BY <1>1
  <2> USE DEF Connect
  <2>1. ScanTypes'
    BY StopTypes
  <2>2. calls' \in 0..MaxCalls
    <3>1. MaxCalls \in Nat /\ calls \in 0..MaxCalls /\ calls < MaxCalls /\ calls' = calls + 1
      BY BoundsAssumption DEF TypeInv, CallTypes
    <3> QED BY <3>1
  <2>3. CallTypes'
    BY <2>2 DEF TypeInv, CallTypes
  <2>4. PlaceInv'
    BY DEF TypeInv, PlaceInv, linkVars, Free
  <2> QED BY <2>1, <2>3, <2>4 DEF TypeInv
<1>2. CASE Open
  <2> USE <1>2 DEF Open
  <2>1. opened' \in 0..MaxConnects /\ opened' \in Devices /\ opened' # 0
    <3>1. opened \in 0..MaxConnects /\ opened < MaxConnects /\ opened' = opened + 1 /\ MaxConnects \in Nat
      BY BoundsAssumption DEF TypeInv, LinkTypes, PlaceInv
    <3> QED BY <3>1 DEF Devices
  <2>2. LinkTypes'
    BY <2>1 DEF TypeInv, LinkTypes
  <2>3. CallTypes'
    BY DEF TypeInv, CallTypes
  <2>4. ThreadTypes'
    <3>1. contended' \in BOOLEAN
      BY DEF TypeInv, ThreadTypes
    <3> QED BY <3>1 DEF TypeInv, ThreadTypes
  <2>5. PlaceInv'
    BY <2>1 DEF TypeInv, PlaceInv
  <2> QED BY <2>2, <2>3, <2>4, <2>5 DEF TypeInv
<1>3. CASE OpenFindsNone
  <2> USE <1>3 DEF OpenFindsNone
  <2>1. LinkTypes' /\ ThreadTypes'
    BY DEF TypeInv, LinkTypes, ThreadTypes
  <2> QED BY <2>1 DEF TypeInv
<1>4. CASE DiscoverServices
  <2> USE <1>4 DEF DiscoverServices
  <2>1. LinkTypes'
    BY DEF TypeInv, LinkTypes
  <2>2. CallTypes'
    <3>1. 1 \in Services
      BY BoundsAssumption DEF Services
    <3> QED BY <3>1 DEF TypeInv, CallTypes
  <2>3. PlaceInv'
    BY DEF TypeInv, PlaceInv
  <2> QED BY <2>1, <2>2, <2>3 DEF TypeInv
<1>5. CASE DiscoverWithoutDevice
  <2> USE <1>5 DEF DiscoverWithoutDevice, NullDevice
  <2>1. ThreadTypes'
    BY DEF TypeInv, ThreadTypes
  <2> QED BY <2>1 DEF TypeInv, linkVars
<1>6. CASE DiscoverServicesFails \/ GetCharacteristicsFails
  BY <1>6, FailFromTypes DEF DiscoverServicesFails, GetCharacteristicsFails
<1>7. CASE DiscoverServicesThrows \/ GetCharacteristics \/ GetCharacteristicsThrows
  <2> USE <1>7 DEF DiscoverServicesThrows, GetCharacteristics, GetCharacteristicsThrows, Goto
  <2>1. CallTypes' /\ PlaceInv'
    BY DEF TypeInv, CallTypes, PlaceInv, linkVars
  <2> QED BY <2>1 DEF TypeInv
<1>8. CASE CacheCharacteristic
  <2> USE <1>8 DEF CacheCharacteristic
  <2>1. opened \in Devices
    <3>1. opened \in 0..MaxConnects /\ opened # 0 /\ MaxConnects \in Nat
      BY BoundsAssumption DEF TypeInv, LinkTypes, PlaceInv
    <3> QED BY <3>1 DEF Devices
  <2>2. CacheTypes'
    BY <2>1 DEF TypeInv, CacheTypes
  <2>3. at' \in Services
    <3>1. at \in 1..NumServices /\ NumServices \in Nat \ {0}
      BY BoundsAssumption DEF TypeInv, CallTypes, Services
    <3> QED BY <3>1 DEF Following, Services
  <2>4. CallTypes' /\ PlaceInv'
    BY <2>3 DEF TypeInv, CallTypes, PlaceInv, linkVars
  <2> QED BY <2>2, <2>4 DEF TypeInv
<1>9. CASE Connected
  <2> USE <1>9 DEF Connected
  <2>1. CallTypes' /\ PlaceInv' /\ ThreadTypes'
    BY DEF TypeInv, CallTypes, PlaceInv, ThreadTypes, linkVars
  <2> QED BY <2>1 DEF TypeInv
<1> QED BY <1>1, <1>2, <1>3, <1>4, <1>5, <1>6, <1>7, <1>8, <1>9 DEF ConnectStep

LEMMA OperationTypes ==
    ASSUME TypeInv,
           OperationStep \/ \E s \in Services : Fetch(s)
    PROVE  TypeInv'
<1> USE TypeFrame DEF appVars, callVars, cacheVars, outcome
<1>0. 1 \in Services
  BY BoundsAssumption DEF Services
<1>1. CASE \E s \in Services : Fetch(s)
  <2> PICK s \in Services : Fetch(s)
    BY <1>1
  <2>1. CallTypes' /\ PlaceInv' /\ ThreadTypes'
    BY DEF Fetch, TypeInv, CallTypes, PlaceInv, ThreadTypes, linkVars, Free, At
  <2> QED BY <2>1 DEF Fetch, TypeInv
<1>2. ASSUME NEW next \in {"idle", "configuring"}, Use(next), pc \in {"requesting", "configuring"}
      PROVE  CallTypes' /\ PlaceInv' /\ ScanTypes' /\ LinkTypes' /\ ThreadTypes'
  <2>1. CallTypes' /\ PlaceInv'
    BY <1>0, <1>2 DEF Use, TypeInv, CallTypes, PlaceInv, linkVars
  <2> QED BY <1>2, <2>1 DEF Use
<1>3. CASE Request
  BY <1>2, <1>3 DEF Request, Use, TypeInv
<1>4. CASE RequestNotifications
  BY <1>2, <1>4 DEF RequestNotifications, Use, TypeInv
<1>5. CASE AddListener
  <2>1. CacheTypes'
    <3>1. listeners \in [Services -> Nat] /\ at \in Services
      BY DEF TypeInv, CacheTypes, CallTypes
    <3>2. listeners[at] + 1 \in Nat
      BY <3>1
    <3>3. listeners' = [listeners EXCEPT ![at] = listeners[at] + 1]
      BY <1>5, <3>1 DEF AddListener
    <3>4. listeners' \in [Services -> Nat]
      BY <3>1, <3>2, <3>3
    <3> QED BY <1>5, <3>4 DEF AddListener, Use, TypeInv, CacheTypes
  <2> QED BY <1>2, <1>5, <2>1 DEF AddListener, TypeInv
<1>6. CASE UseDangling
  <2>1. ThreadTypes'
    BY <1>6 DEF UseDangling, TypeInv, ThreadTypes
  <2> QED BY <1>6, <2>1 DEF UseDangling, TypeInv, linkVars
<1> QED BY <1>1, <1>3, <1>4, <1>5, <1>6 DEF OperationStep

LEMMA ExecuteTypes ==
    ASSUME TypeInv, NEW t \in Threads, ExecuteStep(t)
    PROVE  TypeInv'
<1> USE TypeFrame, ThreadFacts DEF appVars, callVars, cacheVars, outcome, ToStep
\* A step of disconnect_execute that does not leave it.
<1>1. ASSUME NEW place \in Steps \ {"none"}, step[t] # "none",
             step' = [step EXCEPT ![t] = place], UNCHANGED <<pc, opened>>
      PROVE  PlaceInv' /\ step' \in [Threads -> Steps]
  <2>1. step'[App] # "none" <=> step[App] # "none"
    BY <1>1 DEF TypeInv, ThreadTypes
  <2> QED BY <1>1, <2>1 DEF TypeInv, PlaceInv, ThreadTypes
<1>2. CASE TestDevice(t)
  <2> USE <1>2 DEF TestDevice
  <2>1. AfterTest \in Steps \ {"none"}
    BY DEF AfterTest, Steps
  <2>2. contended' \in BOOLEAN
    BY DEF TypeInv, ThreadTypes
  <2>3. PlaceInv' /\ step' \in [Threads -> Steps]
    BY <1>1, <2>1 DEF linkVars
  <2> QED BY <2>2, <2>3 DEF TypeInv, ThreadTypes
<1>3. CASE CloseServices(t)
  <2> USE <1>3 DEF CloseServices
  <2>1. PlaceInv' /\ step' \in [Threads -> Steps]
    BY <1>1 DEF linkVars, Steps
  <2> QED BY <2>1 DEF TypeInv, ThreadTypes
<1>4. CASE CloseDevice(t)
  <2> USE <1>4 DEF CloseDevice
  <2>1. PlaceInv' /\ step' \in [Threads -> Steps]
    BY <1>1 DEF Steps
  <2>2. LinkTypes'
    BY DEF TypeInv, LinkTypes
  <2> QED BY <2>1, <2>2 DEF TypeInv, ThreadTypes
<1>7. CASE ClearCache(t)
  <2> USE <1>7 DEF ClearCache, EmptyCache
  <2>1. PlaceInv' /\ step' \in [Threads -> Steps]
    BY <1>1 DEF Steps, linkVars
  <2>2. CacheTypes'
    BY DEF CacheTypes
  <2> QED BY <2>1, <2>2 DEF TypeInv, ThreadTypes
<1>8. CASE ResetDevice(t)
  <2> USE <1>8 DEF ResetDevice
  <2>1. PlaceInv' /\ step' \in [Threads -> Steps]
    BY <1>1 DEF Steps
  <2>2. LinkTypes'
    BY DEF TypeInv, LinkTypes
  <2> QED BY <2>1, <2>2 DEF TypeInv, ThreadTypes
<1>9. CASE CloseServicesThrows(t)
  <2> USE <1>9 DEF CloseServicesThrows
  <2>1. ThreadTypes'
    BY DEF TypeInv, ThreadTypes, Steps
  <2>2. CallTypes'
    BY DEF TypeInv, CallTypes
  <2>3. PlaceInv'
    BY DEF TypeInv, ThreadTypes, PlaceInv, linkVars
  <2> QED BY <2>1, <2>2, <2>3 DEF TypeInv
<1>5. CASE CloseWithoutDevice(t)
  <2> USE <1>5 DEF CloseWithoutDevice, NullDevice
  <2>1. ThreadTypes'
    BY DEF TypeInv, ThreadTypes
  <2> QED BY <2>1 DEF TypeInv, linkVars
<1>6. CASE Report(t)
  <2> USE <1>6 DEF Report
  <2>1. ThreadTypes'
    BY DEF TypeInv, ThreadTypes, Steps
  <2>2. CallTypes'
    BY DEF TypeInv, CallTypes
  <2>3. PlaceInv'
    BY DEF TypeInv, ThreadTypes, PlaceInv, linkVars
  <2> QED BY <2>1, <2>2, <2>3 DEF TypeInv
<1> QED BY <1>2, <1>3, <1>4, <1>5, <1>6, <1>7, <1>8, <1>9 DEF ExecuteStep

LEMMA SystemTypes ==
    ASSUME TypeInv,
           \/ HandlerStep
           \/ \E d \in Devices : LoseLink(d) \/ RegainLink(d) \/ RevokeEvent(d) \/ ConnectionStatusChanged(d)
    PROVE  TypeInv'
<1> USE TypeFrame, ThreadFacts DEF appVars, callVars, cacheVars, outcome
<1>1. CASE HandlerStep
  <2>1. ASSUME NEW a \in Advertisers, NEW named \in BOOLEAN, Received(a, named)
        PROVE  TypeInv'
    <3>1. inserting' \in [Advertisers -> Nat]
      BY <2>1 DEF Received, TypeInv, ScanTypes
    <3>2. ScanTypes'
      BY <2>1, <3>1 DEF Received, TypeInv, ScanTypes
    <3> QED BY <2>1, <3>2 DEF Received, TypeInv, linkVars
  <2>2. ASSUME NEW a \in Advertisers, InsertAddress(a)
        PROVE  TypeInv'
    <3>1. /\ inserting \in [Advertisers -> Nat] /\ reporting \in [Advertisers -> Nat] /\ inserting[a] > 0
          /\ inserting' = [inserting EXCEPT ![a] = inserting[a] - 1]
          /\ reporting' = [reporting EXCEPT ![a] = reporting[a] + 1]
      BY <2>2 DEF InsertAddress, TypeInv, ScanTypes
    <3>2. inserting' \in [Advertisers -> Nat] /\ reporting' \in [Advertisers -> Nat]
      BY <3>1
    <3>3. ScanTypes'
      BY <2>2, <3>2 DEF InsertAddress, Detect, TypeInv, ScanTypes
    <3> QED BY <2>2, <3>3 DEF InsertAddress, TypeInv, linkVars
  <2>3. ASSUME NEW a \in Advertisers, ReportFound(a)
        PROVE  TypeInv'
    <3>1. /\ reporting \in [Advertisers -> Nat] /\ reporting[a] > 0
          /\ reporting' = [reporting EXCEPT ![a] = reporting[a] - 1]
      BY <2>3 DEF ReportFound, TypeInv, ScanTypes
    <3>2. reporting' \in [Advertisers -> Nat]
      BY <3>1
    <3>3. ScanTypes'
      BY <2>3, <3>2 DEF ReportFound, TypeInv, ScanTypes
    <3> QED BY <2>3, <3>3 DEF ReportFound, TypeInv, linkVars
  <2> QED BY <1>1, <2>1, <2>2, <2>3 DEF HandlerStep
<1>2. ASSUME NEW d \in Devices, LoseLink(d) \/ RegainLink(d) \/ RevokeEvent(d)
      PROVE  TypeInv'
  <2> USE <1>2 DEF LoseLink, RegainLink, RevokeEvent
  <2>1. LinkTypes'
    BY DEF TypeInv, LinkTypes
  <2> QED BY <2>1 DEF TypeInv
<1>3. ASSUME NEW d \in Devices, ConnectionStatusChanged(d)
      PROVE  TypeInv'
  <2> USE <1>3 DEF ConnectionStatusChanged, TakeEvent, ToStep
  <2>1. LinkTypes' /\ ThreadTypes'
    BY DEF TypeInv, LinkTypes, ThreadTypes, Steps
  <2>2. PlaceInv'
    BY DEF TypeInv, PlaceInv, ThreadTypes
  <2> QED BY <2>1, <2>2 DEF TypeInv
<1> QED BY <1>1, <1>2, <1>3

LEMMA TypeNext == TypeInv /\ [Next]_vars => TypeInv'
<1> SUFFICES ASSUME TypeInv, [Next]_vars PROVE TypeInv'
  OBVIOUS
<1>1. CASE Disconnect
  BY <1>1, FailFromTypes DEF Disconnect
<1>2. CASE UNCHANGED vars
  BY <1>2, TypeFrame DEF vars, TypeInv, cacheVars, appVars, callVars, outcome, linkVars
<1> QED
  BY <1>1, <1>2, ScanTypesNext, ConnectTypes, OperationTypes, ExecuteTypes, SystemTypes
  DEF Next, Continue

\* The code's variables keep their types.
THEOREM WindowsTypes == Spec => []TypeOK
<1>1. TypeInv => TypeOK
  BY TypeParts DEF TypeInv
<1> QED BY <1>1, TypeInit, TypeNext, PTL DEF Spec

-------------------------------------------------------------------------------
(* Scans.                                                                    *)

LEMMA ScanFrame == ScanInv /\ UNCHANGED scanVars => ScanInv'
BY DEF ScanInv, FoundInv, scanVars

\* What the end of a scan leaves alone.
LEMMA FoundFrame ==
    ASSUME FoundInv, UNCHANGED <<detected, inserting, reporting, heard, found, overtaken>>
    PROVE  FoundInv'
BY DEF FoundInv

LEMMA StopKeepsScan ==
    ASSUME TypeInv, ScanInv, StopWatcher
    PROVE  ScanInv'
<1>1. nested' # 0 /\ watcher' = "stopped"
  BY DEF StopWatcher, TypeInv, ScanTypes
<1> QED BY <1>1, FoundFrame DEF StopWatcher, ScanInv

LEMMA StartKeepsScan ==
    ASSUME TypeInv, ScanInv, StartWatcher
    PROVE  ScanInv'
<1> USE DEF StartWatcher
<1>1. FoundInv'
  <2> SUFFICES ASSUME NEW a \in Advertisers, a \notin overtaken'
               PROVE  /\ found'[a] + inserting'[a] + reporting'[a] = IF a \in heard' THEN 1 ELSE 0
                      /\ a \in detected' <=> found'[a] + reporting'[a] > 0
    BY DEF FoundInv
  <2>1. inserting[a] \in Nat /\ reporting[a] \in Nat
    BY DEF TypeInv, ScanTypes
  <2>2. ~(inserting[a] > 0) /\ ~(reporting[a] > 0)
    OBVIOUS
  <2>3. inserting'[a] = 0 /\ reporting'[a] = 0 /\ found'[a] = 0
    BY <2>1, <2>2
  <2> QED BY <2>3
<1>2. ~restarted' => nested' = 0
  <2>1. ~restarted' => ~(nested > 0)
    BY Zenon
  <2>2. nested \in Nat /\ nested' = nested
    BY DEF TypeInv, ScanTypes
  <2> QED BY <2>1, <2>2
<1>3. found' \in [Advertisers -> Nat]
  OBVIOUS
<1> QED BY <1>1, <1>2, <1>3 DEF ScanInv

\* A handler that passes the test alone finds a peripheral that was not heard by name.
LEMMA ReceivedKeepsFound ==
    ASSUME TypeInv, ScanInv, NEW a \in Advertisers, NEW named \in BOOLEAN, Received(a, named)
    PROVE  FoundInv'
<1> SUFFICES ASSUME NEW b \in Advertisers, b \notin overtaken'
             PROVE  /\ found'[b] + inserting'[b] + reporting'[b] = IF b \in heard' THEN 1 ELSE 0
                    /\ b \in detected' <=> found'[b] + reporting'[b] > 0
  BY DEF FoundInv
<1>1. /\ inserting \in [Advertisers -> Nat] /\ reporting \in [Advertisers -> Nat]
      /\ found \in [Advertisers -> Nat]
      /\ UNCHANGED <<detected, reporting, found>>
      /\ heard' = IF named THEN heard \cup {a} ELSE heard
  BY DEF Received, TypeInv, ScanTypes, ScanInv
<1>2. b \notin overtaken
  BY DEF Received
<1>3. /\ found[b] + inserting[b] + reporting[b] = IF b \in heard THEN 1 ELSE 0
      /\ b \in detected <=> found[b] + reporting[b] > 0
  BY <1>2 DEF ScanInv, FoundInv
<1>4. CASE named /\ a \notin detected
  <2>1. inserting' = [inserting EXCEPT ![a] = inserting[a] + 1]
    BY <1>4 DEF Received
  <2>2. CASE b = a
    <3>1. ~(inserting[a] > 0)
      BY <1>4, <2>2 DEF Received
    <3>2. inserting[a] = 0 /\ found[a] = 0 /\ reporting[a] = 0
      BY <1>1, <1>3, <1>4, <2>2, <3>1
    <3>3. inserting'[a] = 1 /\ a \in heard'
      BY <1>1, <1>4, <2>1, <3>2
    <3> QED BY <1>1, <1>4, <2>2, <3>2, <3>3
  <2>3. CASE b # a
    <3>1. inserting'[b] = inserting[b] /\ (b \in heard' <=> b \in heard)
      BY <1>1, <2>1, <2>3
    <3> QED BY <1>1, <1>3, <3>1
  <2> QED BY <2>2, <2>3
<1>5. CASE ~(named /\ a \notin detected)
  <2>1. inserting' = inserting
    BY <1>5 DEF Received
  <2>2. b \in heard' <=> b \in heard
    <3>1. CASE named /\ b = a
      <4>1. found[b] + reporting[b] > 0
        BY <1>3, <1>5, <3>1
      <4>2. found[b] + inserting[b] + reporting[b] # 0
        BY <1>1, <4>1
      <4> QED BY <1>1, <1>3, <3>1, <4>2
    <3>2. CASE ~(named /\ b = a)
      BY <1>1, <3>2
    <3> QED BY <3>1, <3>2
  <2> QED BY <1>1, <1>3, <2>1, <2>2
<1> QED BY <1>4, <1>5

\* The insertion and the report pass the peripheral on.
LEMMA HandlerKeepsFound ==
    ASSUME TypeInv, ScanInv, NEW a \in Advertisers, InsertAddress(a) \/ ReportFound(a)
    PROVE  FoundInv' /\ found' \in [Advertisers -> Nat]
<1>1. /\ inserting \in [Advertisers -> Nat] /\ reporting \in [Advertisers -> Nat]
      /\ found \in [Advertisers -> Nat]
  BY DEF TypeInv, ScanTypes, ScanInv
<1>2. ASSUME NEW b \in Advertisers, b \notin overtaken
      PROVE  /\ found[b] + inserting[b] + reporting[b] = IF b \in heard THEN 1 ELSE 0
             /\ b \in detected <=> found[b] + reporting[b] > 0
  BY <1>2 DEF ScanInv, FoundInv
<1>3. CASE InsertAddress(a)
  <2>1. /\ inserting' = [inserting EXCEPT ![a] = inserting[a] - 1]
        /\ reporting' = [reporting EXCEPT ![a] = reporting[a] + 1]
        /\ detected' = detected \cup {a} /\ UNCHANGED <<heard, found, overtaken>>
    BY <1>1, <1>3 DEF InsertAddress, Detect
  <2>2. ASSUME NEW b \in Advertisers, b \notin overtaken
        PROVE  /\ found'[b] + inserting'[b] + reporting'[b] = IF b \in heard' THEN 1 ELSE 0
               /\ b \in detected' <=> found'[b] + reporting'[b] > 0
    <3>1. CASE b = a
      BY <1>1, <1>2, <2>1, <2>2, <3>1
    <3>2. CASE b # a
      BY <1>1, <1>2, <2>1, <2>2, <3>2
    <3> QED BY <3>1, <3>2
  <2> QED BY <1>1, <2>1, <2>2 DEF FoundInv
<1>4. CASE ReportFound(a)
  <2>1. /\ reporting' = [reporting EXCEPT ![a] = reporting[a] - 1]
        /\ found' = [found EXCEPT ![a] = found[a] + 1]
        /\ UNCHANGED <<detected, inserting, heard, overtaken>>
    BY <1>1, <1>4 DEF ReportFound
  <2>2. ASSUME NEW b \in Advertisers, b \notin overtaken
        PROVE  /\ found'[b] + inserting'[b] + reporting'[b] = IF b \in heard' THEN 1 ELSE 0
               /\ b \in detected' <=> found'[b] + reporting'[b] > 0
    <3>1. CASE b = a
      BY <1>1, <1>2, <2>1, <2>2, <3>1
    <3>2. CASE b # a
      BY <1>1, <1>2, <2>1, <2>2, <3>2
    <3> QED BY <3>1, <3>2
  <2>3. found' \in [Advertisers -> Nat]
    BY <1>1, <2>1
  <2> QED BY <2>1, <2>2, <2>3 DEF FoundInv
<1> QED BY <1>3, <1>4

LEMMA ScanNext == TypeInv /\ ScanInv /\ [Next]_vars => ScanInv'
<1> SUFFICES ASSUME TypeInv, ScanInv, [Next]_vars PROVE ScanInv'
  OBVIOUS
<1>1. CASE ScanStart
  BY <1>1, StartKeepsScan DEF ScanStart
<1>2. CASE ScanTimeout
  BY <1>2, StartKeepsScan DEF ScanTimeout
<1>3. CASE ScanStop
  BY <1>3, StopKeepsScan DEF ScanStop
<1>4. CASE WakeUp
  BY <1>4, StopKeepsScan DEF WakeUp
<1>5. CASE ScanStopReturns
  <2> USE <1>5 DEF ScanStopReturns, ReturnFromStop
  <2>1. ~restarted => watcher = "stopped"
    BY DEF ScanInv, TypeInv, ScanTypes
  <2> QED BY <2>1, FoundFrame DEF ScanInv
<1>6. CASE \E address \in Spellings : Connect(address)
  BY <1>6, StopKeepsScan, ScanFrame DEF Connect
<1>7. CASE Disconnect \/ ConnectStep
  BY <1>7, ScanFrame
  DEF Disconnect, FailFrom, ConnectStep, Open, OpenFindsNone, DiscoverServices, DiscoverServicesFails,
      DiscoverServicesThrows, DiscoverWithoutDevice, GetCharacteristics, GetCharacteristicsFails,
      GetCharacteristicsThrows, Goto, CacheCharacteristic, Connected
<1>8. CASE OperationStep \/ \E s \in Services : Fetch(s)
  BY <1>8, ScanFrame DEF Fetch, OperationStep, Request, RequestNotifications, AddListener, Use, UseDangling
<1>9. CASE \E t \in Threads : ExecuteStep(t)
  BY <1>9, ScanFrame
  DEF ExecuteStep, TestDevice, CloseServices, CloseServicesThrows, CloseDevice, CloseWithoutDevice,
      ClearCache, ResetDevice, Report
<1>10. CASE HandlerStep
  <2>1. UNCHANGED <<restarted, nested, scanning, watcher>>
    BY <1>10 DEF HandlerStep, Received, InsertAddress, ReportFound
  <2>2. FoundInv' /\ found' \in [Advertisers -> Nat]
    BY <1>10, ReceivedKeepsFound, HandlerKeepsFound DEF HandlerStep, Received, ScanInv
  <2> QED BY <2>1, <2>2 DEF ScanInv
<1>11. CASE \E d \in Devices : LoseLink(d) \/ RegainLink(d) \/ RevokeEvent(d) \/ ConnectionStatusChanged(d)
  BY <1>11, ScanFrame DEF LoseLink, RegainLink, RevokeEvent, ConnectionStatusChanged, TakeEvent
<1>12. CASE UNCHANGED vars
  BY <1>12, ScanFrame DEF vars
<1> QED
  BY <1>1, <1>2, <1>3, <1>4, <1>5, <1>6, <1>7, <1>8, <1>9, <1>10, <1>11, <1>12
  DEF Next, Continue

LEMMA ScanInit == Init => ScanInv
BY DEF Init, ScanInv, FoundInv

\* scan_is_active() tells whether the watcher runs, unless the callback of scan_stop
\* started the scan, which line 54 then forgets.
THEOREM FlagIsTrue == Spec => []FlagFollowsWatcher
<1>1. ScanInv => FlagFollowsWatcher
  BY DEF ScanInv, FlagFollowsWatcher
<1> QED BY <1>1, TypeInit, TypeNext, ScanInit, ScanNext, PTL DEF Spec

\* In each scan a peripheral is reported once, and only for an advertisement with a name,
\* unless a handler that passed the test was overtaken by a scan_start or by another.
THEOREM FoundOnce == Spec => []FoundOncePerScan
<1>1. ScanInv => FoundOncePerScan
  BY DEF ScanInv, FoundInv, FoundOncePerScan
<1> QED BY <1>1, TypeInit, TypeNext, ScanInit, ScanNext, PTL DEF Spec

-------------------------------------------------------------------------------
(* The device object, the cache and the application's view, while the        *)
(* process lives.                                                            *)

LiveInv == ObjectInv /\ CacheInv /\ LossInv /\ ToldInv

LEMMA LiveInit == Init => LiveInv
<1> SUFFICES ASSUME Init PROVE LiveInv
  OBVIOUS
<1>1. ObjectInv
  BY ThreadFacts DEF Init, ObjectInv
<1>2. CacheInv
  BY DEF Init, CacheInv, EntriesInv
<1>3. LossInv
  BY DEF Init, LossInv
<1>4. ToldInv
  BY DEF Init, ToldInv, ViewInv, Forgetting
<1> QED BY <1>1, <1>2, <1>3, <1>4 DEF LiveInv

\* The number of the device object that connect() makes.
LEMMA NextObject ==
    ASSUME TypeInv, Open
    PROVE  opened' \in Devices /\ opened' = opened + 1 /\ opened' # Null /\ opened' # opened
<1>1. opened \in 0..MaxConnects /\ opened < MaxConnects /\ opened' = opened + 1 /\ MaxConnects \in Nat
  BY BoundsAssumption DEF TypeInv, LinkTypes, PlaceInv, Open, At
<1> QED BY <1>1 DEF Devices, Null

LEMMA DeviceIsObject == ASSUME TypeInv, device # Null PROVE device \in Devices
BY DEF TypeInv, LinkTypes

\* Only disconnect_execute brings a thread to the report, and who has closed the device
\* stays until it has forgotten it.
LEMMA ObjectFrame ==
    ASSUME ObjectInv, UNCHANGED <<device, opened, object>>,
           step'[App] = "report" => step[App] = "report" \/ device = Null,
           \A t \in Threads : Forgetting(t) => Forgetting(t)'
    PROVE  ObjectInv'
BY DEF ObjectInv

LEMMA ObjectExecute ==
    ASSUME TypeInv, ObjectInv, NEW t \in Threads, ExecuteStep(t), Alive'
    PROVE  ObjectInv'
<1> USE ThreadFacts DEF ToStep
<1>0. step \in [Threads -> Steps]
  BY DEF TypeInv, ThreadTypes
<1>1. CASE TestDevice(t)
  BY <1>0, <1>1, ObjectFrame DEF TestDevice, AfterTest, Forgetting, linkVars
<1>2. CASE CloseServices(t) \/ CloseServicesThrows(t)
  BY <1>0, <1>2, ObjectFrame DEF CloseServices, CloseServicesThrows, Forgetting, linkVars
<1>3. CASE CloseDevice(t)
  <2>1. device \in Devices /\ device = opened /\ object \in [Devices -> {"none", "open", "closed"}]
    BY <1>3, DeviceIsObject DEF CloseDevice, ObjectInv, TypeInv, LinkTypes
  <2>2. device' = device /\ opened' = opened /\ object'[device] = "closed" /\ step'[t] = "clear"
    BY <1>0, <1>3, <2>1 DEF CloseDevice
  <2>3. step'[App] = "report" => step[App] = "report"
    BY <1>0, <1>3 DEF CloseDevice
  <2>4. ~(step'[App] = "report")
    BY <1>3, <2>3 DEF CloseDevice, ObjectInv
  <2> QED BY <2>1, <2>2, <2>4 DEF ObjectInv, Forgetting
<1>4. CASE CloseWithoutDevice(t)
  BY <1>4 DEF CloseWithoutDevice, NullDevice, Alive
<1>5. CASE ClearCache(t)
  BY <1>0, <1>5, ObjectFrame DEF ClearCache, Forgetting, linkVars
<1>6. CASE ResetDevice(t)
  BY <1>6 DEF ResetDevice, ObjectInv
<1>7. CASE Report(t)
  BY <1>0, <1>7, ObjectFrame DEF Report, Forgetting, linkVars
<1> QED BY <1>1, <1>2, <1>3, <1>4, <1>5, <1>6, <1>7 DEF ExecuteStep

LEMMA ObjectNext ==
    ASSUME TypeInv, ObjectInv, Next, Alive'
    PROVE  ObjectInv'
<1> USE ThreadFacts DEF appVars, linkVars
<1>0. step \in [Threads -> Steps]
  BY DEF TypeInv, ThreadTypes
<1>13. step' = step => \A t \in Threads : Forgetting(t) => Forgetting(t)'
  BY DEF Forgetting
<1>1. CASE ScanStart \/ ScanTimeout \/ ScanStop \/ WakeUp \/ ScanStopReturns
  BY <1>1, <1>13, ObjectFrame DEF ScanStart, ScanTimeout, ScanStop, WakeUp, ScanStopReturns, ReturnFromStop
<1>2. CASE \E address \in Spellings : Connect(address)
  BY <1>2, <1>13, ObjectFrame DEF Connect
<1>3. CASE Open
  <2>1. step'[App] # "report"
    BY <1>3 DEF Open, At, TypeInv, PlaceInv
  <2>2. device' = opened' /\ opened' # Null /\ object'[opened'] = "open"
    BY <1>3, NextObject DEF Open, TypeInv, LinkTypes
  <2> QED BY <2>1, <2>2 DEF ObjectInv
<1>4. CASE OpenFindsNone \/ DiscoverWithoutDevice
  BY <1>4 DEF OpenFindsNone, DiscoverWithoutDevice, NullDevice, Alive
<1>5. CASE DiscoverServices \/ CacheCharacteristic \/ Connected
  BY <1>5, <1>13, ObjectFrame DEF DiscoverServices, CacheCharacteristic, Connected
<1>6. CASE DiscoverServicesThrows \/ GetCharacteristics \/ GetCharacteristicsThrows
  BY <1>6, <1>13, ObjectFrame DEF DiscoverServicesThrows, GetCharacteristics, GetCharacteristicsThrows, Goto
<1>7. CASE DiscoverServicesFails \/ GetCharacteristicsFails \/ Disconnect
  <2>1. PICK place \in {"discovering", "service", "idle"} : FailFrom(place)
    BY <1>7 DEF DiscoverServicesFails, GetCharacteristicsFails, Disconnect
  <2>2. step[App] = "none"
    BY <2>1 DEF FailFrom, At, TypeInv, PlaceInv
  <2>3. \A t \in Threads : Forgetting(t) => Forgetting(t)'
    BY <1>0, <2>1, <2>2 DEF FailFrom, Begin, Forgetting
  <2> QED BY <1>0, <2>1, <2>3, ObjectFrame DEF FailFrom, Begin
<1>8. CASE OperationStep \/ \E s \in Services : Fetch(s)
  BY <1>8, <1>13, ObjectFrame
  DEF Fetch, OperationStep, Request, RequestNotifications, AddListener, Use, UseDangling
<1>9. CASE \E t \in Threads : ExecuteStep(t)
  BY <1>9, ObjectExecute
<1>10. CASE HandlerStep
  BY <1>10, <1>13, ObjectFrame DEF HandlerStep, Received, InsertAddress, ReportFound
<1>11. CASE \E d \in Devices : LoseLink(d) \/ RegainLink(d) \/ RevokeEvent(d)
  BY <1>11, <1>13, ObjectFrame DEF LoseLink, RegainLink, RevokeEvent
<1>12. CASE \E d \in Devices : ConnectionStatusChanged(d)
  BY <1>0, <1>12, ObjectFrame DEF ConnectionStatusChanged, TakeEvent, ToStep, Forgetting
<1> QED
  BY <1>1, <1>2, <1>3, <1>4, <1>5, <1>6, <1>7, <1>8, <1>9, <1>10, <1>11, <1>12
  DEF Next, Continue, ConnectStep

Connecting == {"discovering", "service", "caching", "connected", "ending"}

\* A step that touches neither the map nor the device, and keeps the application
\* inside or outside the part of connect() that fills the map.
LEMMA CacheFrame ==
    ASSUME CacheInv, UNCHANGED <<device, object, cache, spoiled>>, listeners' = listeners,
           \A t \in Threads : step[t] = "clear" => step'[t] = "clear",
           \/ UNCHANGED <<pc, at>>
           \/ pc \notin Connecting /\ pc' \notin Connecting
           \/ pc' \in {"discovering", "ending"}
           \/ pc = "service" /\ pc' = "caching" /\ at' = at
           \/ Unheld
    PROVE  CacheInv'
<1>1. Unheld' <=> Unheld
  BY DEF Unheld
<1>2. (\E t \in Threads : step[t] = "clear") => \E t \in Threads : step'[t] = "clear"
  OBVIOUS
<1>3. CASE UNCHANGED <<pc, at>>
  BY <1>1, <1>2, <1>3 DEF CacheInv, EntriesInv
<1>4. CASE pc \notin Connecting /\ pc' \notin Connecting
  BY <1>1, <1>2, <1>4 DEF CacheInv, EntriesInv, Connecting
<1>5. CASE pc' \in {"discovering", "ending"}
  BY <1>1, <1>2, <1>5 DEF CacheInv, EntriesInv
<1>6. CASE pc = "service" /\ pc' = "caching" /\ at' = at
  BY <1>1, <1>2, <1>6 DEF CacheInv, EntriesInv
<1>7. CASE Unheld
  BY <1>1, <1>2, <1>7 DEF CacheInv, EntriesInv
<1> QED BY <1>3, <1>4, <1>5, <1>6, <1>7

\* Each turn of the loop puts the characteristic of one service in the map: the map then
\* holds only those of this device up to there, unless it kept another or the device is gone.
LEMMA CachingKeeps ==
    ASSUME TypeInv, ObjectInv, CacheInv, CacheCharacteristic
    PROVE  CacheInv'
<1> USE DEF CacheCharacteristic, linkVars, outcome, callVars
<1>0. /\ pc = "caching" /\ opened \in Devices /\ opened # Null /\ UNCHANGED <<device, object, listeners>>
      /\ cache \in [Services -> Devices \cup {Null}] /\ at \in Services /\ Null = 0
      /\ cache' = [cache EXCEPT ![at] = IF cache[at] = Null THEN opened ELSE cache[at]]
  <2>1. opened \in 0..MaxConnects /\ opened # 0 /\ MaxConnects \in Nat
    BY BoundsAssumption DEF TypeInv, LinkTypes, PlaceInv, At
  <2>2. opened \in Devices /\ opened # Null
    BY <2>1 DEF Devices, Null
  <2> QED BY <2>2 DEF TypeInv, CacheTypes, CallTypes, At, Null
<1>1. \A s \in Services : listeners'[s] > 0 => cache'[s] # Null
  BY <1>0 DEF CacheInv
<1>2. SUFFICES ASSUME ~spoiled' PROVE EntriesInv'
  BY <1>1 DEF CacheInv
<1>3. ~spoiled /\ object[opened] # "closed" /\ cache'[at] = device
  BY <1>2, Zenon
<1>4. cache'[at] # Null
  BY <1>0
<1>5. device = opened /\ device' = device /\ ~Unheld /\ ~Unheld'
  BY <1>0, <1>3, <1>4 DEF ObjectInv, Unheld
<1>6. \A s \in Services : cache[s] \in {Null, device} \/ s >= at
  BY <1>0, <1>3, <1>5 DEF CacheInv, EntriesInv
<1>7. at \in 1..NumServices /\ NumServices \in Nat
  BY <1>0, BoundsAssumption DEF Services
<1>8. \A s \in Services : cache'[s] \in {Null, device} \/ s > at
  <2> SUFFICES ASSUME NEW s \in Services, s # at PROVE cache'[s] \in {Null, device} \/ s > at
    BY <1>3
  <2>1. cache'[s] = cache[s]
    BY <1>0
  <2> QED BY <1>6, <1>7, <2>1 DEF Services
<1>9. CASE at < NumServices
  <2>1. pc' = "service" /\ at' = at + 1
    BY <1>9 DEF Following
  <2>2. \A s \in Services : s > at => s >= at'
    BY <1>7, <2>1 DEF Services
  <2> QED BY <1>5, <1>8, <2>1, <2>2 DEF EntriesInv
<1>10. CASE ~(at < NumServices)
  <2>1. \A s \in Services : ~(s > at)
    BY <1>7, <1>10 DEF Services
  <2> QED BY <1>5, <1>8, <2>1 DEF EntriesInv
<1> QED BY <1>9, <1>10

LEMMA CacheExecute ==
    ASSUME TypeInv, ObjectInv, CacheInv, NEW t \in Threads, ExecuteStep(t), Alive'
    PROVE  CacheInv'
<1> USE DEF appVars, linkVars, cacheVars, ToStep
<1>0. step \in [Threads -> Steps]
  BY DEF TypeInv, ThreadTypes
<1>1. CASE TestDevice(t) \/ CloseServices(t)
  <2>1. \A u \in Threads : step[u] = "clear" => step'[u] = "clear"
    BY <1>0, <1>1 DEF TestDevice, CloseServices
  <2> QED BY <1>1, <2>1, CacheFrame DEF TestDevice, CloseServices
<1>2. CASE CloseServicesThrows(t)
  <2>1. \A u \in Threads : step[u] = "clear" => step'[u] = "clear"
    BY <1>0, <1>2 DEF CloseServicesThrows
  <2>2. Unheld
    BY <1>2 DEF CloseServicesThrows, Unheld
  <2> QED BY <1>2, <2>1, <2>2, CacheFrame DEF CloseServicesThrows
\* The map of a device that was just closed is cleared next.
<1>3. CASE CloseDevice(t)
  <2>1. step'[t] = "clear" /\ UNCHANGED <<device, cache, listeners, spoiled>>
    BY <1>0, <1>3 DEF CloseDevice
  <2>2. Unheld'
    BY <1>3, DeviceIsObject DEF CloseDevice, Unheld, TypeInv, LinkTypes
  <2> QED BY <2>1, <2>2 DEF CacheInv, EntriesInv
<1>4. CASE CloseWithoutDevice(t)
  BY <1>4 DEF CloseWithoutDevice, NullDevice, Alive
<1>5. CASE ClearCache(t)
  <2>1. \A s \in Services : cache'[s] = Null /\ ~(listeners'[s] > 0)
    BY <1>5 DEF ClearCache, EmptyCache
  <2> QED BY <2>1 DEF CacheInv, EntriesInv
\* The device that is forgotten was closed, or this is noticed.
<1>6. CASE ResetDevice(t)
  <2>1. ~spoiled' => ~spoiled /\ ~(device # Null /\ object[device] = "open")
    BY <1>6, Zenon DEF ResetDevice
  <2>2. ~spoiled' => Unheld
    BY <2>1 DEF ObjectInv, Unheld
  <2>3. \A u \in Threads : step[u] = "clear" => step'[u] = "clear"
    BY <1>0, <1>6 DEF ResetDevice
  <2>4. Unheld' /\ UNCHANGED <<cache, listeners>>
    BY <1>6 DEF ResetDevice, Unheld
  <2> QED BY <2>1, <2>2, <2>3, <2>4 DEF CacheInv, EntriesInv
<1>7. CASE Report(t)
  <2>1. \A u \in Threads : step[u] = "clear" => step'[u] = "clear"
    BY <1>0, <1>7 DEF Report
  <2>2. CASE t = App
    <3>1. Unheld
      BY <1>7, <2>2 DEF Report, ObjectInv, Unheld
    <3> QED BY <1>7, <2>1, <3>1, CacheFrame DEF Report
  <2>3. CASE t # App
    BY <1>7, <2>1, <2>3, CacheFrame DEF Report
  <2> QED BY <2>2, <2>3
<1> QED BY <1>1, <1>2, <1>3, <1>4, <1>5, <1>6, <1>7 DEF ExecuteStep

LEMMA CacheNext ==
    ASSUME TypeInv, ObjectInv, CacheInv, Next, Alive'
    PROVE  CacheInv'
<1> USE DEF appVars, linkVars, cacheVars, At, Free, Connecting
<1>0. step' = step => \A t \in Threads : step[t] = "clear" => step'[t] = "clear"
  OBVIOUS
<1>1. CASE ScanStart \/ ScanTimeout \/ ScanStop \/ WakeUp \/ ScanStopReturns
  BY <1>0, <1>1, CacheFrame DEF ScanStart, ScanTimeout, ScanStop, WakeUp, ScanStopReturns, ReturnFromStop
<1>2. CASE \E address \in Spellings : Connect(address)
  BY <1>0, <1>2, CacheFrame DEF Connect
<1>3. CASE Open
  <2>1. device' \in Devices /\ device' # Null /\ object'[device'] = "open"
    BY <1>3, NextObject DEF Open, TypeInv, LinkTypes
  <2>2. ~Unheld' /\ pc' = "discovering" /\ UNCHANGED <<cache, listeners, spoiled>>
    BY <1>3, <2>1 DEF Open, Unheld
  <2> QED BY <2>2 DEF CacheInv, EntriesInv
<1>4. CASE OpenFindsNone \/ DiscoverWithoutDevice
  BY <1>4 DEF OpenFindsNone, DiscoverWithoutDevice, NullDevice, Alive
<1>5. CASE DiscoverServices
  <2>1. \A s \in Services : s >= at'
    BY <1>5 DEF DiscoverServices, Services
  <2>2. ~Unheld' /\ pc' = "service" /\ UNCHANGED <<cache, listeners, spoiled>>
    BY <1>5 DEF DiscoverServices, Unheld
  <2> QED BY <2>1, <2>2 DEF CacheInv, EntriesInv
<1>6. CASE DiscoverServicesFails \/ GetCharacteristicsFails \/ Disconnect
  <2>1. PICK place \in {"discovering", "service", "idle"} : FailFrom(place)
    BY <1>6 DEF DiscoverServicesFails, GetCharacteristicsFails, Disconnect
  <2>2. step[App] = "none"
    BY <2>1 DEF FailFrom, TypeInv, PlaceInv
  <2>3. \A t \in Threads : step[t] = "clear" => step'[t] = "clear"
    BY <2>1, <2>2 DEF FailFrom, Begin, TypeInv, ThreadTypes
  <2> QED BY <2>1, <2>3, CacheFrame DEF FailFrom
<1>7. CASE GetCharacteristics
  BY <1>0, <1>7, CacheFrame DEF GetCharacteristics, Goto
<1>8. CASE DiscoverServicesThrows \/ GetCharacteristicsThrows
  <2>1. Unheld
    BY <1>8 DEF DiscoverServicesThrows, GetCharacteristicsThrows, ObjectInv, Unheld
  <2> QED BY <1>0, <1>8, <2>1, CacheFrame DEF DiscoverServicesThrows, GetCharacteristicsThrows, Goto
<1>9. CASE CacheCharacteristic
  BY <1>9, CachingKeeps
<1>10. CASE Connected
  BY <1>10 DEF Connected, CacheInv, EntriesInv, Unheld
<1>11. CASE \E s \in Services : Fetch(s)
  BY <1>0, <1>11, CacheFrame DEF Fetch
<1>12. CASE Request \/ RequestNotifications \/ UseDangling
  BY <1>0, <1>12, CacheFrame DEF Request, RequestNotifications, Use, UseDangling
<1>13. CASE AddListener
  <2>1. cache[at] # Null /\ \A s \in Services : s # at => listeners'[s] = listeners[s]
    BY <1>13 DEF AddListener, Use, TypeInv, CacheTypes
  <2>2. \A s \in Services : listeners'[s] > 0 => cache'[s] # Null
    BY <1>13, <2>1 DEF AddListener, Use, CacheInv
  <2>3. /\ pc = "configuring" /\ pc' = "idle"
        /\ UNCHANGED <<device, object, cache, spoiled, step>>
    BY <1>13 DEF AddListener, Use
  <2> QED BY <2>2, <2>3 DEF CacheInv, EntriesInv, Unheld
<1>14. CASE \E t \in Threads : ExecuteStep(t)
  BY <1>14, CacheExecute
<1>15. CASE HandlerStep
  BY <1>0, <1>15, CacheFrame DEF HandlerStep, Received, InsertAddress, ReportFound
<1>16. CASE \E d \in Devices : LoseLink(d) \/ RegainLink(d) \/ RevokeEvent(d)
  BY <1>0, <1>16, CacheFrame DEF LoseLink, RegainLink, RevokeEvent
<1>17. CASE \E d \in Devices : ConnectionStatusChanged(d)
  <2>1. \A t \in Threads : step[t] = "clear" => step'[t] = "clear"
    BY <1>17 DEF ConnectionStatusChanged, TakeEvent, ToStep, TypeInv, ThreadTypes
  <2> QED BY <1>17, <2>1, CacheFrame DEF ConnectionStatusChanged, TakeEvent
<1> QED
  BY <1>1, <1>2, <1>3, <1>4, <1>5, <1>6, <1>7, <1>8, <1>9, <1>10, <1>11, <1>12, <1>13, <1>14, <1>15, <1>16,
     <1>17
  DEF Next, Continue, ConnectStep, OperationStep

LEMMA LossFrame ==
    ASSUME LossInv, UNCHANGED <<device, up>>, device \in events => device \in events',
           \A t \in Threads : Closing(t) => Closing(t)', pc = "discovering" => pc' = "discovering"
    PROVE  LossInv'
BY DEF LossInv

\* The application thread enters disconnect_execute: it is on the way to close the device.
LEMMA FailFromCloses ==
    ASSUME TypeInv, NEW place, FailFrom(place)
    PROVE  LossInv'
<1>1. step'[App] = "test"
  BY ThreadFacts DEF FailFrom, Begin, TypeInv, ThreadTypes
<1> QED BY <1>1, ThreadFacts DEF LossInv, Closing

LEMMA LossExecute ==
    ASSUME TypeInv, ObjectInv, LossInv, NEW t \in Threads, ExecuteStep(t), Alive'
    PROVE  LossInv'
<1> USE DEF ToStep, linkVars
<1>0. step \in [Threads -> Steps]
  BY DEF TypeInv, ThreadTypes
<1>1. CASE TestDevice(t)
  <2>1. CASE device = Null
    BY <1>1, <2>1 DEF TestDevice, LossInv
  <2>2. CASE device # Null
    <3>1. \A u \in Threads : Closing(u) => Closing(u)'
      BY <1>0, <1>1, <2>2 DEF TestDevice, AfterTest, Closing
    <3> QED BY <1>1, <3>1, LossFrame DEF TestDevice, appVars
  <2> QED BY <2>1, <2>2
<1>2. CASE CloseServices(t)
  <2>1. \A u \in Threads : Closing(u) => Closing(u)'
    BY <1>0, <1>2 DEF CloseServices, Closing
  <2> QED BY <1>2, <2>1, LossFrame DEF CloseServices, appVars
<1>3. CASE CloseDevice(t) \/ ClearCache(t)
  <2>1. Closing(t)' /\ pc' = pc
    BY <1>0, <1>3 DEF CloseDevice, ClearCache, Closing, appVars
  <2> QED BY <2>1 DEF LossInv
<1>4. CASE CloseWithoutDevice(t)
  BY <1>4 DEF CloseWithoutDevice, NullDevice, Alive
<1>5. CASE Report(t)
  <2>1. \A u \in Threads : Closing(u) => Closing(u)'
    BY <1>0, <1>5 DEF Report, Closing
  <2>2. pc = "discovering" => pc' = "discovering"
    BY <1>5 DEF Report, TypeInv, PlaceInv
  <2> QED BY <1>5, <2>1, <2>2, LossFrame DEF Report
<1>6. CASE ResetDevice(t)
  BY <1>6 DEF ResetDevice, LossInv
\* The thread that closed the device is still in disconnect_execute.
<1>7. CASE CloseServicesThrows(t)
  <2>1. PICK u \in Threads : Forgetting(u)
    BY <1>7 DEF CloseServicesThrows, ObjectInv
  <2>2. Closing(u)'
    BY <1>0, <1>7, <2>1 DEF CloseServicesThrows, Forgetting, Closing
  <2> QED BY <2>2 DEF LossInv
<1> QED BY <1>1, <1>2, <1>3, <1>4, <1>5, <1>6, <1>7 DEF ExecuteStep

LEMMA LossNext ==
    ASSUME TypeInv, ObjectInv, LossInv, Next, Alive'
    PROVE  LossInv'
<1> USE DEF appVars, linkVars, At, Free
<1>0. step \in [Threads -> Steps] /\ up \in [Devices -> BOOLEAN]
  BY DEF TypeInv, ThreadTypes, LinkTypes
<1>1. step' = step => \A t \in Threads : Closing(t) => Closing(t)'
  BY DEF Closing
<1>2. CASE ScanStart \/ ScanTimeout \/ ScanStop \/ WakeUp \/ ScanStopReturns
  BY <1>1, <1>2, LossFrame DEF ScanStart, ScanTimeout, ScanStop, WakeUp, ScanStopReturns, ReturnFromStop
<1>3. CASE \E address \in Spellings : Connect(address)
  BY <1>1, <1>3, LossFrame DEF Connect
<1>4. CASE Open
  BY <1>4 DEF Open, LossInv
<1>5. CASE OpenFindsNone \/ DiscoverWithoutDevice
  BY <1>5 DEF OpenFindsNone, DiscoverWithoutDevice, NullDevice, Alive
<1>6. CASE DiscoverServices
  BY <1>0, <1>6, DeviceIsObject DEF DiscoverServices, LossInv
<1>7. CASE DiscoverServicesFails \/ GetCharacteristicsFails \/ Disconnect
  BY <1>7, FailFromCloses DEF DiscoverServicesFails, GetCharacteristicsFails, Disconnect
<1>8. CASE GetCharacteristics \/ GetCharacteristicsThrows \/ CacheCharacteristic \/ Connected
  BY <1>1, <1>8, LossFrame
  DEF GetCharacteristics, GetCharacteristicsThrows, Goto, CacheCharacteristic, Connected
<1>9. CASE OperationStep \/ \E s \in Services : Fetch(s)
  BY <1>1, <1>9, LossFrame
  DEF Fetch, OperationStep, Request, RequestNotifications, AddListener, Use, UseDangling
<1>10. CASE \E t \in Threads : ExecuteStep(t)
  BY <1>10, LossExecute
<1>11. CASE HandlerStep
  BY <1>1, <1>11, LossFrame DEF HandlerStep, Received, InsertAddress, ReportFound
<1>15. CASE DiscoverServicesThrows
  <2>1. PICK u \in Threads : Forgetting(u)
    BY <1>15 DEF DiscoverServicesThrows, ObjectInv
  <2>2. Closing(u)'
    BY <1>15, <2>1 DEF DiscoverServicesThrows, Goto, Forgetting, Closing
  <2> QED BY <2>2 DEF LossInv
<1>12. ASSUME NEW d \in Devices, LoseLink(d) \/ RegainLink(d) PROVE LossInv'
  <2>1. UNCHANGED <<device, step, pc>> /\ (device # Null /\ d # device => up'[device] = up[device])
    BY <1>0, <1>12, DeviceIsObject DEF LoseLink, RegainLink
  <2>2. device \in events => device \in events'
    BY <1>12 DEF LoseLink, RegainLink
  <2>3. d = device => up'[device] \/ device \in events'
    BY <1>0, <1>12 DEF LoseLink, RegainLink
  <2> QED BY <1>1, <2>1, <2>2, <2>3 DEF LossInv
<1>13. ASSUME NEW d \in Devices, RevokeEvent(d) PROVE LossInv'
  <2>1. CASE device = d
    <3>1. PICK u \in Threads : Forgetting(u)
      BY <1>13, <2>1, ThreadFacts DEF RevokeEvent, ObjectInv, Null, App
    <3>2. Closing(u)'
      BY <1>13, <3>1 DEF RevokeEvent, Forgetting, Closing
    <3> QED BY <3>2 DEF LossInv
  <2>2. CASE device # d
    <3>1. device \in events => device \in events'
      BY <1>13, <2>2 DEF RevokeEvent
    <3> QED BY <1>1, <1>13, <3>1, LossFrame DEF RevokeEvent
  <2> QED BY <2>1, <2>2
<1>14. ASSUME NEW d \in Devices, ConnectionStatusChanged(d) PROVE LossInv'
  <2> USE <1>14 DEF ConnectionStatusChanged, TakeEvent, ToStep
  <2>1. \A t \in Threads : Closing(t) => Closing(t)'
    BY <1>0 DEF Closing
  <2>2. CASE d = device /\ ~up[d]
    <3>1. d \in Threads /\ step'[d] = "test"
      BY <1>0, <2>2, ThreadFacts
    <3> QED BY <3>1 DEF LossInv, Closing
  <2>3. CASE d # device
    BY <2>1, <2>3, LossFrame
  <2>4. CASE d = device /\ up[d]
    BY <2>4 DEF LossInv
  <2> QED BY <2>2, <2>3, <2>4
<1> QED
  BY <1>2, <1>3, <1>4, <1>5, <1>6, <1>7, <1>8, <1>9, <1>10, <1>11, <1>12, <1>13, <1>14, <1>15
  DEF Next, Continue, ConnectStep

\* The reports, the closers and the device stay, and connect() is not left with a device
\* unreported, unless its closer will report it.
LEMMA ToldFrame ==
    ASSUME ToldInv, UNCHANGED <<raced, device, object, told>>,
           \A t \in Threads : step'[t] = "report" <=> step[t] = "report",
           \A t \in Threads : Forgetting(t)' <=> Forgetting(t),
           \/ pc' = pc
           \/ pc \notin Connecting /\ pc' \notin Connecting
           \/ pc' = "ending"
           \/ pc' = "idle" /\ \E t \in Threads : Forgetting(t)
    PROVE  ToldInv'
<1>1. SUFFICES ASSUME ~raced, ViewInv PROVE ViewInv'
  BY DEF ToldInv
<1>2. Unheld' <=> Unheld
  BY DEF Unheld
<1>3. (\E t \in Threads : step[t] = "report") => \E t \in Threads : step'[t] = "report"
  OBVIOUS
<1>4. (\E t \in Threads : Forgetting(t)) => \E t \in Threads : Forgetting(t)'
  OBVIOUS
<1>5. pc' \in {"service", "caching", "connected"} => pc' = pc
  BY DEF Connecting
<1>6. told' = "down" /\ device' # Null =>
          \/ pc' \in {"discovering", "service", "caching", "connected", "ending"}
          \/ \E t \in Threads : Forgetting(t)'
  BY <1>1, <1>4 DEF ViewInv, Connecting
<1>7. pc' \in {"service", "caching", "connected"} => device' # Null /\ object'[device'] = "open"
  BY <1>1, <1>5 DEF ViewInv
<1> QED BY <1>1, <1>2, <1>3, <1>6, <1>7 DEF ViewInv

LEMMA ToldExecute ==
    ASSUME TypeInv, ObjectInv, ToldInv, NEW t \in Threads, ExecuteStep(t), Alive'
    PROVE  ToldInv'
<1> USE ThreadFacts DEF ToStep, linkVars, outcome
<1>0. step \in [Threads -> Steps]
  BY DEF TypeInv, ThreadTypes
<1>1. CASE TestDevice(t)
  <2> USE <1>1 DEF TestDevice, appVars
  <2>0. \A u \in Threads : Forgetting(u)' <=> Forgetting(u)
    BY <1>0 DEF AfterTest, Forgetting
  <2>1. CASE device = Null
    <3>1. /\ \A u \in Threads : step[u] = "report" => step'[u] = "report"
          /\ UNCHANGED <<device, told, pc, raced, object>>
      BY <1>0, <2>1 DEF AfterTest
    <3> QED BY <2>0, <2>1, <3>1 DEF ToldInv, ViewInv, Unheld
  <2>2. CASE device # Null
    <3>1. \A u \in Threads : step'[u] = "report" <=> step[u] = "report"
      BY <1>0, <2>2 DEF AfterTest
    <3> QED BY <2>0, <3>1, ToldFrame
  <2> QED BY <2>1, <2>2
<1>2. CASE CloseServices(t) \/ ClearCache(t)
  <2>1. /\ \A u \in Threads : step'[u] = "report" <=> step[u] = "report"
        /\ \A u \in Threads : Forgetting(u)' <=> Forgetting(u)
    BY <1>0, <1>2 DEF CloseServices, ClearCache, Forgetting
  <2> QED BY <1>2, <2>1, ToldFrame DEF CloseServices, ClearCache, appVars
\* The closer, another thread than this, will report the end of the device.
<1>3. CASE CloseServicesThrows(t)
  <2>1. /\ \A u \in Threads : step'[u] = "report" <=> step[u] = "report"
        /\ \A u \in Threads : Forgetting(u)' <=> Forgetting(u)
    BY <1>0, <1>3 DEF CloseServicesThrows, Forgetting
  <2>2. \E u \in Threads : Forgetting(u)
    BY <1>3 DEF CloseServicesThrows, ObjectInv
  <2> QED BY <1>3, <2>1, <2>2, ToldFrame DEF CloseServicesThrows
\* The thread of a handler that closes the device in the middle of connect() is noticed.
<1>4. CASE CloseDevice(t)
  <2> USE <1>4 DEF CloseDevice, appVars
  <2>1. SUFFICES ASSUME ~raced' PROVE ViewInv'
    BY DEF ToldInv
  <2>2. ~raced /\ ~(t # App /\ pc \in {"service", "caching", "connected"})
    BY <2>1, Zenon
  <2>3. t = App => pc = "ending"
    BY DEF TypeInv, PlaceInv
  <2>4. Unheld' /\ Forgetting(t)'
    BY <1>0, DeviceIsObject DEF Unheld, Forgetting, TypeInv, LinkTypes
  <2>5. /\ \A u \in Threads : step'[u] = "report" <=> step[u] = "report"
        /\ device' = device /\ device # Null /\ pc' = pc
    BY <1>0
  <2> QED BY <2>2, <2>3, <2>4, <2>5 DEF ToldInv, ViewInv
<1>5. CASE CloseWithoutDevice(t)
  BY <1>5 DEF CloseWithoutDevice, NullDevice, Alive
\* What is forgotten was closed: it is not the open device of connect().
<1>6. CASE ResetDevice(t)
  <2> USE <1>6 DEF ResetDevice, appVars
  <2>1. SUFFICES ASSUME ~raced, ViewInv PROVE ViewInv'
    BY DEF ToldInv
  <2>2. Unheld
    BY <2>1 DEF ViewInv, Forgetting
  <2>3. device' = Null /\ step'[t] = "report" /\ Unheld' /\ UNCHANGED <<pc, told>>
    BY <1>0 DEF Unheld
  <2>4. ~(pc \in {"service", "caching", "connected"})
    BY <2>1, <2>2 DEF ViewInv, Unheld
  <2> QED BY <2>3, <2>4 DEF ViewInv
<1>7. CASE Report(t)
  <2> USE <1>7 DEF Report
  <2>1. SUFFICES ASSUME ~raced, ViewInv PROVE ViewInv'
    BY DEF ToldInv
  <2>2. \A u \in Threads : step'[u] = "report" => step[u] = "report"
    BY <1>0
  <2>3. UNCHANGED <<device, object>> /\ told' = "down" /\ (pc' = pc \/ pc' = "idle") /\ device = Null
    BY <2>1 DEF ViewInv
  <2>4. Unheld'
    BY <2>3 DEF Unheld
  <2> QED BY <2>1, <2>2, <2>3, <2>4 DEF ViewInv
<1> QED BY <1>1, <1>2, <1>3, <1>4, <1>5, <1>6, <1>7 DEF ExecuteStep

LEMMA ToldNext ==
    ASSUME TypeInv, ObjectInv, ToldInv, Next, Alive'
    PROVE  ToldInv'
<1> USE ThreadFacts DEF appVars, linkVars, outcome, At, Free, Connecting
<1>0. step \in [Threads -> Steps] /\ told \in {"up", "down"}
  BY DEF TypeInv, ThreadTypes
<1>1. step' = step =>
          /\ \A t \in Threads : step'[t] = "report" <=> step[t] = "report"
          /\ \A t \in Threads : Forgetting(t)' <=> Forgetting(t)
  BY DEF Forgetting
<1>2. CASE ScanStart \/ ScanTimeout \/ ScanStop \/ WakeUp \/ ScanStopReturns
  BY <1>1, <1>2, ToldFrame DEF ScanStart, ScanTimeout, ScanStop, WakeUp, ScanStopReturns, ReturnFromStop
<1>3. CASE \E address \in Spellings : Connect(address)
  BY <1>1, <1>3, ToldFrame DEF Connect
\* No handler is at work if raced is reset here: nothing is being reported.
<1>4. CASE Open
  <2>1. device' # Null /\ pc' = "discovering" /\ UNCHANGED <<step, told>>
    BY <1>4, NextObject DEF Open
  <2>2. ~raced' => \A t \in Threads : step[t] = "none"
    BY <1>4 DEF Open
  <2>3. ~raced' => \A t \in Threads : step'[t] # "report" /\ ~Forgetting(t)'
    BY <2>1, <2>2 DEF Forgetting
  <2> QED BY <2>1, <2>3 DEF ToldInv, ViewInv
<1>5. CASE OpenFindsNone \/ DiscoverWithoutDevice
  BY <1>5 DEF OpenFindsNone, DiscoverWithoutDevice, NullDevice, Alive
\* The step of connect() changes its place only.
<1>17. ASSUME UNCHANGED <<device, object, told, step, raced>>, device # Null, object[device] = "open",
              pc' \in {"service", "caching", "connected"}
       PROVE  ToldInv'
  <2>1. \A t \in Threads : Forgetting(t)' <=> Forgetting(t)
    BY <1>1, <1>17
  <2>2. Unheld' <=> Unheld
    BY <1>17 DEF Unheld
  <2> QED BY <1>17, <2>1, <2>2 DEF ToldInv, ViewInv
<1>6. CASE DiscoverServices
  BY <1>6, <1>17 DEF DiscoverServices
<1>7. ASSUME NEW place \in {"idle", "discovering", "service"}, FailFrom(place) PROVE ToldInv'
  <2>1. /\ \A t \in Threads : step'[t] = "report" <=> step[t] = "report"
        /\ \A t \in Threads : Forgetting(t)' <=> Forgetting(t)
    <3>1. step[App] = "none"
      BY <1>7 DEF FailFrom, TypeInv, PlaceInv
    <3>2. step' = [step EXCEPT ![App] = "test"]
      BY <1>7 DEF FailFrom, Begin
    <3>3. \A t \in Threads : IF t = App THEN step'[t] = "test" ELSE step'[t] = step[t]
      BY <1>0, <3>2
    <3> QED BY <3>1, <3>3 DEF Forgetting
  <2> QED BY <1>7, <2>1, ToldFrame DEF FailFrom
<1>8. CASE GetCharacteristics
  <2>1. raced \/ (device # Null /\ object[device] = "open")
    BY <1>8 DEF GetCharacteristics, ToldInv, ViewInv
  <2>2. CASE raced
    BY <1>8, <2>2 DEF GetCharacteristics, Goto, ToldInv
  <2> QED BY <1>8, <1>17, <2>1, <2>2 DEF GetCharacteristics, Goto
<1>9. CASE DiscoverServicesThrows
  <2>1. \E t \in Threads : Forgetting(t)
    BY <1>9 DEF DiscoverServicesThrows, ObjectInv
  <2> QED BY <1>1, <1>9, <2>1, ToldFrame DEF DiscoverServicesThrows, Goto
<1>18. CASE GetCharacteristicsThrows
  <2>1. raced
    BY <1>18 DEF GetCharacteristicsThrows, ObjectInv, ToldInv, ViewInv
  <2> QED BY <1>18, <2>1 DEF GetCharacteristicsThrows, Goto, ToldInv
<1>10. CASE CacheCharacteristic
  <2>1. raced \/ (device # Null /\ object[device] = "open")
    BY <1>10 DEF CacheCharacteristic, ToldInv, ViewInv
  <2>2. CASE raced
    BY <1>10, <2>2 DEF CacheCharacteristic, ToldInv
  <2> QED BY <1>10, <1>17, <2>1, <2>2 DEF CacheCharacteristic
<1>11. CASE Connected
  <2>1. CASE raced
    BY <1>11, <2>1 DEF Connected, ToldInv
  <2>2. CASE ~raced
    <3>1. device # Null /\ ViewInv
      BY <1>11, <2>2 DEF Connected, ToldInv, ViewInv
    <3>2. /\ \A t \in Threads : step'[t] = "report" <=> step[t] = "report"
          /\ \A t \in Threads : Forgetting(t)' <=> Forgetting(t)
      BY <1>1, <1>11 DEF Connected
    <3>3. UNCHANGED <<device, object>> /\ told' = "up" /\ pc' = "idle" /\ (Unheld' <=> Unheld)
      BY <1>11 DEF Connected, Unheld
    <3> QED BY <3>1, <3>2, <3>3 DEF ToldInv, ViewInv
  <2> QED BY <2>1, <2>2
<1>12. CASE OperationStep \/ \E s \in Services : Fetch(s)
  BY <1>1, <1>12, ToldFrame
  DEF Fetch, OperationStep, Request, RequestNotifications, AddListener, Use, UseDangling
<1>13. CASE \E t \in Threads : ExecuteStep(t)
  BY <1>13, ToldExecute
<1>14. CASE HandlerStep
  BY <1>1, <1>14, ToldFrame DEF HandlerStep, Received, InsertAddress, ReportFound
<1>15. CASE \E d \in Devices : LoseLink(d) \/ RegainLink(d) \/ RevokeEvent(d)
  BY <1>1, <1>15, ToldFrame DEF LoseLink, RegainLink, RevokeEvent
<1>16. ASSUME NEW d \in Devices, ConnectionStatusChanged(d) PROVE ToldInv'
  <2>1. /\ \A t \in Threads : step'[t] = "report" <=> step[t] = "report"
        /\ \A t \in Threads : Forgetting(t)' <=> Forgetting(t)
    BY <1>0, <1>16 DEF ConnectionStatusChanged, TakeEvent, ToStep, Forgetting
  <2> QED BY <1>16, <2>1, ToldFrame DEF ConnectionStatusChanged, TakeEvent
<1> QED
  BY <1>2, <1>3, <1>4, <1>5, <1>6, <1>7, <1>8, <1>9, <1>10, <1>11, <1>12, <1>13, <1>14, <1>15, <1>16, <1>18
  DEF Next, Continue, ConnectStep, DiscoverServicesFails, GetCharacteristicsFails, Disconnect

\* Nothing happens once the process has died.
LEMMA AliveBefore == Next /\ Alive' => Alive
BY DEF Next, Continue, ConnectStep, OperationStep, ExecuteStep, HandlerStep, ScanStart, ScanTimeout, ScanStop,
       WakeUp, ScanStopReturns, ReturnFromStop, CallsAllowed, Free, At, Connect, Open, OpenFindsNone,
       DiscoverServices, DiscoverServicesFails, DiscoverServicesThrows, DiscoverWithoutDevice, Goto,
       GetCharacteristics, GetCharacteristicsFails, GetCharacteristicsThrows, FailFrom, CacheCharacteristic,
       Connected, Disconnect, Fetch, Request, RequestNotifications, AddListener, Use, UseDangling,
       TestDevice, CloseServices, CloseServicesThrows, CloseDevice, CloseWithoutDevice, ClearCache,
       ResetDevice, Report, Received, InsertAddress, ReportFound, LoseLink, RegainLink, RevokeEvent,
       ConnectionStatusChanged, TakeEvent

LEMMA LiveNext == TypeInv /\ (Alive => LiveInv) /\ [Next]_vars => (Alive => LiveInv)'
<1> SUFFICES ASSUME TypeInv, Alive => LiveInv, [Next]_vars, Alive' PROVE LiveInv'
  OBVIOUS
<1>1. CASE Next
  BY <1>1, AliveBefore, ObjectNext, CacheNext, LossNext, ToldNext DEF LiveInv
<1>2. CASE UNCHANGED vars
  BY <1>2
  DEF vars, linkVars, cacheVars, appVars, callVars, outcome, Alive, LiveInv, ObjectInv, CacheInv, EntriesInv,
      Unheld, Forgetting, LossInv, ToldInv, ViewInv, Closing
<1> QED BY <1>1, <1>2

\* The inductive invariant.  It says nothing of the device once the process has died.
IInv == TypeInv /\ ScanInv /\ (Alive => LiveInv)

LEMMA Inductive == (Init => IInv) /\ (IInv /\ [Next]_vars => IInv')
<1>1. Init => IInv
  BY TypeInit, ScanInit, LiveInit DEF IInv
<1>2. IInv /\ [Next]_vars => IInv'
  BY TypeNext, ScanNext, LiveNext DEF IInv
<1> QED BY <1>1, <1>2

\* At rest every cached characteristic, and so every callback attached to one, belongs to
\* the present device, unless since the map was cleared line 105 kept or cached one of an
\* object other than the open device, or line 245 forgot a device that was not closed.
THEOREM CacheIsLive == Spec => []CachedIsLive
<1>1. IInv => CachedIsLive
  <2> SUFFICES ASSUME TypeInv, Alive => LiveInv, Settled, ~spoiled
               PROVE  \A s \in Services : cache[s] \in {Null, device} /\ (listeners[s] > 0 => cache[s] # Null)
    BY DEF CachedIsLive, IInv
  <2>1. EntriesInv /\ pc = "idle" /\ \A t \in Threads : step[t] # "clear"
    BY DEF Settled, Free, At, LiveInv, CacheInv
  <2>2. \A s \in Services : cache[s] \in {Null, device}
    BY <2>1 DEF EntriesInv
  <2> QED BY <2>2 DEF Settled, Free, At, LiveInv, CacheInv
<1> QED BY <1>1, Inductive, PTL DEF Spec

\* At rest the application has been told whether its device has a link, unless a handler
\* of an earlier device was at work during connect() or ended the device during it.
THEOREM ViewAtRest == Spec => []ViewIsTrue
<1>1. IInv => ViewIsTrue
  <2> SUFFICES ASSUME TypeInv, Alive => LiveInv, Settled, ~raced
               PROVE  told = "up" <=> IsConnected
    BY DEF ViewIsTrue, IInv
  <2>1. /\ LossInv /\ ToldInv /\ pc = "idle" /\ events = {} /\ told \in {"up", "down"}
        /\ \A t \in Threads : step[t] = "none"
    BY DEF Settled, Free, At, LiveInv, TypeInv, ThreadTypes
  <2>2. ~\E t \in Threads : Closing(t) \/ Forgetting(t) \/ step[t] = "report"
    BY <2>1 DEF Closing, Forgetting
  <2>3. CASE told = "up"
    <3>1. device # Null
      BY <2>1, <2>2, <2>3 DEF ToldInv, ViewInv
    <3>2. up[device]
      BY <2>1, <2>2, <3>1 DEF LossInv
    <3> QED BY <2>3, <3>1, <3>2 DEF IsConnected
  <2>4. CASE told = "down"
    BY <2>1, <2>2, <2>4 DEF ToldInv, ViewInv, IsConnected
  <2> QED BY <2>1, <2>3, <2>4
<1> QED BY <1>1, Inductive, PTL DEF Spec
----------------------------------------------------------------------------
(* The address.                                                            *)

NoCapitals(address) == \A i \in DOMAIN address : address[i] \notin Upper

\* A sequence of hexadecimal digits is read to its end.
LEMMA DigitsAreRead ==
    ASSUME NEW digits \in Seq(Hex)
    PROVE  Strtoull(digits) = NumberOf(digits)
<1>1. {i \in DOMAIN digits : digits[i] \notin Hex} = {}
  OBVIOUS
<1>2. PICK n \in Nat : n = Len(digits)
  OBVIOUS
<1>3. (CHOOSE i \in {n + 1} : \A j \in {n + 1} : i <= j) - 1 = n
  <2>1. (CHOOSE i \in {n + 1} : \A j \in {n + 1} : i <= j) \in {n + 1}
    <3>1. \E i \in {n + 1} : \A j \in {n + 1} : i <= j
      BY <1>2
    <3> QED BY <3>1
  <2> QED BY <2>1, <1>2
<1>4. SubSeq(digits, 1, n) = digits
  BY <1>2
<1>5. {i \in DOMAIN digits : digits[i] \notin Hex} \cup {Len(digits) + 1} = {n + 1}
  BY <1>1, <1>2
<1> QED BY <1>3, <1>4, <1>5, Zenon DEF Strtoull

\* format_mac_address removes what is no digit, and in a spelling without capitals no more.
LEMMA FormatKeepsNumber ==
    ASSUME NEW address \in Seq(Nat), NoCapitals(address)
    PROVE  Strtoull(FormatMacAddress(address)) = Denotes(address)
<1>1. address \in Seq(Nat \ Upper)
  BY DEF NoCapitals
<1>2. Selected(address, Hex) \in Seq((Nat \ Upper) \cap Hex)
  BY <1>1, SelectedElements
<1>3. PICK kept : kept = Selected(address, Hex)
  OBVIOUS
<1>4. kept \in Seq(Hex) /\ \A i \in DOMAIN kept : kept[i] \notin Upper
  BY <1>2, <1>3
<1>5. [i \in DOMAIN kept |-> IF kept[i] \in Upper THEN kept[i] - 32 ELSE kept[i]] = kept
  BY <1>4
<1>6. FormatMacAddress(address) = kept
  BY <1>3, <1>5, Zenon DEF FormatMacAddress
<1>7. Denotes(address) = NumberOf(kept)
  BY <1>3, Zenon DEF Denotes
<1> QED BY <1>4, <1>6, <1>7, DigitsAreRead

\* The number is left as it is by all but Connect.
LEMMA DialledNext ==
    ASSUME [Next]_vars, ~\E address \in Spellings : Connect(address)
    PROVE  UNCHANGED dialled
<1> USE DEF callVars, appVars
<1>1. CASE ScanStart \/ ScanTimeout \/ ScanStop \/ WakeUp \/ ScanStopReturns
  BY <1>1 DEF ScanStart, ScanTimeout, ScanStop, WakeUp, ScanStopReturns, ReturnFromStop
<1>2. CASE Disconnect \/ ConnectStep
  BY <1>2
  DEF Disconnect, FailFrom, ConnectStep, Open, OpenFindsNone, DiscoverServices, DiscoverServicesFails,
      DiscoverServicesThrows, DiscoverWithoutDevice, GetCharacteristics, GetCharacteristicsFails,
      GetCharacteristicsThrows, Goto, CacheCharacteristic, Connected
<1>3. CASE OperationStep \/ \E s \in Services : Fetch(s)
  BY <1>3 DEF Fetch, OperationStep, Request, RequestNotifications, AddListener, Use, UseDangling
<1>4. CASE \E t \in Threads : ExecuteStep(t)
  BY <1>4
  DEF ExecuteStep, TestDevice, CloseServices, CloseServicesThrows, CloseDevice, CloseWithoutDevice,
      ClearCache, ResetDevice, Report
<1>5. CASE HandlerStep
  BY <1>5 DEF HandlerStep, Received, InsertAddress, ReportFound
<1>6. CASE \E d \in Devices : LoseLink(d) \/ RegainLink(d) \/ RevokeEvent(d) \/ ConnectionStatusChanged(d)
  BY <1>6 DEF LoseLink, RegainLink, RevokeEvent, ConnectionStatusChanged, TakeEvent
<1>7. CASE UNCHANGED vars
  BY <1>7 DEF vars
<1> QED BY <1>1, <1>2, <1>3, <1>4, <1>5, <1>6, <1>7 DEF Next, Continue

\* Whatever separators it is spelt with, an address without capitals opens the device that
\* it names. (With capitals the code subtracts 32 from them and opens another.)
THEOREM NamedIsOpened ==
    ASSUME \A address \in Spellings : NoCapitals(address)
    PROVE  Spec => []OpensTheDeviceNamed
<1>1. Init => OpensTheDeviceNamed
  <2>1. Init => dialled = [spelling |-> <<>>, number |-> Denotes(<<>>)]
    BY DEF Init
  <2> QED BY <2>1 DEF OpensTheDeviceNamed
<1>2. OpensTheDeviceNamed /\ [Next]_vars => OpensTheDeviceNamed'
  <2> SUFFICES ASSUME OpensTheDeviceNamed, [Next]_vars
               PROVE  OpensTheDeviceNamed'
    OBVIOUS
  <2>1. ASSUME NEW address \in Spellings, Connect(address)
        PROVE  OpensTheDeviceNamed'
    <3>1. Strtoull(FormatMacAddress(address)) = Denotes(address)
      BY FormatKeepsNumber, SpellingsAssumption
    <3>2. dialled' = [spelling |-> address, number |-> Strtoull(FormatMacAddress(address))]
      BY <2>1 DEF Connect
    <3> QED BY <3>1, <3>2, Zenon DEF OpensTheDeviceNamed
  <2>2. CASE UNCHANGED dialled
    BY <2>2, Zenon DEF OpensTheDeviceNamed
  <2> QED BY <2>1, <2>2, DialledNext
<1> QED BY <1>1, <1>2, PTL DEF Spec
===============================================================================
