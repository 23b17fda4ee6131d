---------------------------- MODULE NativeBleMac ----------------------------
(***************************************************************************)
(* NativeBleInternal and Macable on macOS: scanning, the busy wait of      *)
(* connect(), the discovery that ends it, and the one slot through which   *)
(* every read, notify and indicate gets its values.                        *)
(*                                                                         *)
(* The application calls from one thread.  CoreBluetooth (external) runs   *)
(* the delegate methods on a serial queue, one whole method at a time, so  *)
(* that an event and its method are one step.  A service has one           *)
(* characteristic.  A write changes nothing kept here.                     *)
(***************************************************************************)
EXTENDS Integers, Sequences, FiniteSets

CONSTANTS Peripherals,  \* the peripherals CoreBluetooth knows
          Nil,          \* no peripheral
          Services,     \* the services of a peripheral
          Readable,     \* those whose characteristic can be read
          Notifying,    \* those whose characteristic notifies
          SizeValues,   \* values of the 8-bit size kept by the scan callback
          MaxConnects, MaxReads, MaxSubscriptions  \* bounds: calls of the application

ASSUME PeripheralsAssumption == Nil \notin Peripherals /\ IsFiniteSet(Peripherals)
ASSUME ServicesAssumption == IsFiniteSet(Services) /\ Readable \subseteq Services /\ Notifying \subseteq Services
ASSUME BoundsAssumption ==
    SizeValues \in Nat \ {0} /\ MaxConnects \in Nat /\ MaxReads \in Nat /\ MaxSubscriptions \in Nat

VARIABLES
    scanning,       \* CoreBluetooth: a scan runs
    detected,       \* NativeBleInternal::detected_addresses
    heard,          \* history: the peripherals discovered in the present scan
    found,          \* history: those reported in it
    repeated,       \* history: those reported again in one scan while eight bits held the size
    pc,             \* the application thread: "idle", "waiting", "saving"
    peripheral,     \* Macable's peripheral, or Nil
    ready,          \* Macable's peripheralReady
    servicesCount,  \* the global counter of services
    delegates,      \* the peripherals whose delegate is the Macable object
    connecting,     \* CoreBluetooth: connections asked for
    linked,         \* CoreBluetooth: peripherals with a link
    discovering,    \* CoreBluetooth: peripherals whose services are asked for
    asked,          \* CoreBluetooth: characteristics asked for: <<peripheral, service>>
    populated,      \* CoreBluetooth: characteristics known: <<peripheral, service>>
    slot,           \* onCharacteristicUpdated: the callback in it, and those it will restore
    saved,          \* the slot as read() found it
    reads,          \* CoreBluetooth: reads not answered: <<peripheral, read>>
    subscribed,     \* CoreBluetooth: services that notify: <<peripheral, service>>
    connects, readCalls, subscriptions,  \* number of calls made
    mistaken,       \* history: the reads whose callback was called with a value of something else
    excuse,         \* history: something went wrong since the latest connect() began
    overlapped,     \* history: an earlier connection or discovery was under way when it began
    mixed,          \* history: a discovery began during another, or an answer to one was lost
    spoiled,        \* history: since the latest notify() or indicate() a read was refused or not
                    \* answered, or read() saved an old slot
    disturbed       \* history: the reads that were refused, failed or not answered, met another
                    \* read or value, or had their callback put back

scanVars == <<scanning, detected, heard, found, repeated>>
connectVars == <<peripheral, ready, servicesCount, delegates, connecting, linked, discovering, asked,
                 populated, connects, excuse, overlapped, mixed>>
slotVars == <<slot, saved, reads, subscribed, readCalls, subscriptions, mistaken, spoiled,
              disturbed>>
vars == <<scanVars, connectVars, slotVars, pc>>

----------------------------------------------------------------------------
(* Scanning. *)

(* Neither call empties the set of detected peripherals. *)
NothingHeard == heard' = {} /\ found' = {}

ScanStart ==
    /\ pc = "idle" /\ scanning' = TRUE
    /\ NothingHeard
    /\ UNCHANGED <<detected, repeated, connectVars, slotVars, pc>>

ScanStop ==
    /\ pc = "idle" /\ scanning' = FALSE
    /\ NothingHeard
    /\ UNCHANGED <<detected, repeated, connectVars, slotVars, pc>>

(* The set's size before the insertion is kept in eight bits. *)
SizeAfter == Cardinality(detected') % SizeValues
KeptSize == Cardinality(detected) % SizeValues
Reports == KeptSize # Cardinality(detected')

(* centralManager:didDiscoverPeripheral: and the callback setup() installed. *)
DidDiscoverPeripheral(p) ==
    /\ scanning
    /\ detected' = detected \cup {p}
    /\ heard' = heard \cup {p}
    /\ found' = IF Reports THEN found \cup {p} ELSE found
    /\ repeated' = IF Reports /\ p \in found /\ Cardinality(detected) < SizeValues
                    THEN repeated \cup {p} ELSE repeated
    /\ UNCHANGED <<scanning, connectVars, slotVars, pc>>

----------------------------------------------------------------------------
(* Connecting. *)

(* An address whose length is not 36: connect() returns at once. *)
ConnectRefused == pc = "idle" /\ UNCHANGED vars

(* connect() up to its busy wait; for an address CoreBluetooth does not know p is Nil. *)
Connect(p) ==
    /\ pc = "idle" /\ connects < MaxConnects
    /\ connects' = connects + 1
    /\ peripheral' = p
    /\ delegates' = delegates \cup ({p} \ {Nil})
    /\ connecting' = connecting \cup ({p} \ {Nil})
    /\ excuse' = (ready \/ p = Nil)
    /\ overlapped' = (connecting \cup discovering # {} \/ asked # {})
    /\ pc' = "waiting"
    /\ UNCHANGED <<scanVars, slotVars, ready, servicesCount, linked, discovering, asked, populated, mixed>>

ConnectReturns ==
    /\ pc = "waiting" /\ ready
    /\ pc' = "idle"
    /\ UNCHANGED <<scanVars, connectVars, slotVars>>

DidConnect(p) ==
    /\ p \in connecting
    /\ connecting' = connecting \ {p}
    /\ linked' = linked \cup {p}
    /\ discovering' = discovering \cup {p}
    /\ UNCHANGED <<scanVars, slotVars, pc, peripheral, ready, servicesCount, delegates, asked, populated,
                   connects, excuse, overlapped, mixed>>

(* The delegate has no method for a connection that fails. *)
FailsToConnect(p) ==
    /\ p \in connecting
    /\ connecting' = connecting \ {p}
    /\ excuse' = TRUE
    /\ UNCHANGED <<scanVars, slotVars, pc, peripheral, ready, servicesCount, delegates, linked, discovering,
                   asked, populated, connects, overlapped, mixed>>

Without(pairs, p) == {x \in pairs : x[1] # p}
Calls(asking) == {x[2] : x \in asking}

KeepCount(offered) == servicesCount
CountServices(offered) == Cardinality(offered)

(* peripheral:didDiscoverServices: with the services found; not called without a delegate. *)
DidDiscoverServices(p, offered) ==
    /\ p \in discovering /\ p \in delegates
    /\ discovering' = discovering \ {p}
    /\ servicesCount' = CountServices(offered)
    /\ asked' = asked \cup ({p} \X offered)
    /\ populated' = Without(populated, p)
    /\ mixed' = (asked # {})
    /\ excuse' = (excuse \/ offered = {} \/ asked # {})
    /\ UNCHANGED <<scanVars, slotVars, pc, peripheral, ready, delegates, connecting, linked, connects,
                   overlapped>>

ServicesLost(p) ==
    /\ p \in discovering
    /\ discovering' = discovering \ {p}
    /\ excuse' = TRUE
    /\ UNCHANGED <<scanVars, slotVars, pc, peripheral, ready, servicesCount, delegates, connecting, linked,
                   asked, populated, connects, overlapped, mixed>>

(* peripheral:didDiscoverCharacteristicsForService: with success or an error. *)
CountFound(ok) == IF ok THEN servicesCount - 1 ELSE servicesCount
CountAnswered(ok) == servicesCount - 1
LastButOne(count) == count <= 1
LastOne(count) == count = 0

DidDiscoverCharacteristics(p, s, ok) ==
    /\ <<p, s>> \in asked /\ p \in delegates
    /\ asked' = asked \ {<<p, s>>}
    /\ servicesCount' = CountAnswered(ok)
    /\ populated' = IF ok THEN populated \cup {<<p, s>>} ELSE populated
    /\ ready' = (ready \/ (ok /\ LastOne(servicesCount')))
    /\ excuse' = (excuse \/ ~ok)
    /\ UNCHANGED <<scanVars, slotVars, pc, peripheral, delegates, connecting, linked, discovering, connects,
                   overlapped, mixed>>

CharacteristicsLost(p, s) ==
    /\ <<p, s>> \in asked /\ p \notin delegates
    /\ asked' = asked \ {<<p, s>>}
    /\ excuse' = TRUE
    /\ mixed' = TRUE
    /\ UNCHANGED <<scanVars, slotVars, pc, peripheral, ready, servicesCount, delegates, connecting, linked,
                   discovering, populated, connects, overlapped>>

(* cancelPeripheralConnection: the end is announced later. *)
Disconnect ==
    /\ pc = "idle" /\ peripheral # Nil
    /\ connecting' = connecting \ {peripheral}
    /\ UNCHANGED <<scanVars, slotVars, pc, peripheral, ready, servicesCount, delegates, linked, discovering,
                   asked, populated, connects, excuse, overlapped, mixed>>

(* centralManager:didDisconnectPeripheral: takes the delegate from the present peripheral, *)
(* whichever one was disconnected.                                                         *)
DidDisconnect(p) ==
    /\ p \in linked
    /\ linked' = linked \ {p}
    /\ delegates' = delegates \ {peripheral}
    /\ ready' = FALSE
    /\ discovering' = discovering \ {p}
    /\ asked' = Without(asked, p)
    /\ populated' = Without(populated, p)
    /\ reads' = Without(reads, p)
    /\ subscribed' = Without(subscribed, p)
    /\ excuse' = TRUE
    /\ spoiled' = (spoiled \/ reads' # reads)
    /\ disturbed' = disturbed \cup Calls(reads \ reads')
    /\ UNCHANGED <<scanVars, pc, peripheral, servicesCount, connecting, connects, overlapped, mixed,
                   slot, saved, readCalls, subscriptions, mistaken>>

----------------------------------------------------------------------------
(* Values. *)

Found(s) == <<peripheral, s>> \in populated

(* read() takes a copy of the slot, ... *)
ReadSaves ==
    /\ pc = "idle" /\ readCalls < MaxReads
    /\ saved' = slot
    /\ pc' = "saving"
    /\ UNCHANGED <<scanVars, connectVars, slot, reads, subscribed, readCalls, subscriptions, mistaken, spoiled,
                   disturbed>>

(* ... installs a callback that will put it back, and asks for the value. *)
ReadCallback(k) == [kind |-> "read", id |-> k]
CallsIn(callbacks) == {callbacks[i].id : i \in {j \in DOMAIN callbacks : callbacks[j].kind = "read"}}

ReadAsks(s) ==
    /\ pc = "saving"
    /\ readCalls' = readCalls + 1
    /\ slot' = <<ReadCallback(readCalls')>> \o saved
    /\ reads' = IF Found(s) /\ s \in Readable THEN reads \cup {<<peripheral, readCalls'>>} ELSE reads
    /\ spoiled' = (spoiled \/ reads' = reads \/ slot # saved)
    /\ disturbed' = disturbed
          \cup (IF reads # {} THEN Calls(reads) \cup {readCalls'} ELSE {})
          \cup (IF reads' = reads THEN {readCalls'} ELSE {})
          \cup (IF slot # saved THEN CallsIn(saved) ELSE {})
    /\ saved' = <<>>
    /\ pc' = "idle"
    /\ UNCHANGED <<scanVars, connectVars, subscribed, subscriptions, mistaken>>

(* notify() and indicate(): both subscribe to notifications and forget what the slot held. *)
NotifyCallback(k) == [kind |-> "notify", id |-> k]
FoundAtAll(s) == Found(s)
CanNotify(s) == Found(s) /\ s \in Notifying

Subscribe(s) ==
    /\ pc = "idle" /\ subscriptions < MaxSubscriptions
    /\ subscriptions' = subscriptions + 1
    /\ slot' = <<NotifyCallback(subscriptions')>>
    /\ subscribed' = IF CanNotify(s) THEN subscribed \cup {<<peripheral, s>>} ELSE subscribed
    /\ spoiled' = FALSE
    /\ UNCHANGED <<scanVars, connectVars, saved, reads, readCalls, mistaken, disturbed, pc>>

(* peripheral:didUpdateValueForCharacteristic: a read callback puts the slot back, then is called. *)
ReadOnTop == slot # <<>> /\ slot[1].kind = "read"
Called == IF ReadOnTop THEN {slot[1].id} ELSE {}

ForgetToRestore == slot
RestoreNothing == IF ReadOnTop THEN <<>> ELSE slot
Restore == IF ReadOnTop THEN Tail(slot) ELSE slot

DidUpdateValue(value) ==
    /\ slot' = Restore
    /\ mistaken' = mistaken \cup (Called \ {value})
    /\ UNCHANGED <<scanVars, connectVars, saved, subscribed, readCalls, subscriptions, spoiled, pc>>

(* What no read has asked for: a notified value, and what the characteristic holds *)
(* when a read fails, the value that came last or none.                            *)
OtherValue == 0

(* The answer to a read is its value or an error, which the method does not look at. *)
ReadAnswered(p, k, ok) ==
    /\ <<p, k>> \in reads /\ p \in delegates
    /\ reads' = reads \ {<<p, k>>}
    /\ DidUpdateValue(IF ok THEN k ELSE OtherValue)
    /\ disturbed' = IF ok THEN disturbed ELSE disturbed \cup {k}

AnswerLost(p, k) ==
    /\ <<p, k>> \in reads /\ p \notin delegates
    /\ reads' = reads \ {<<p, k>>}
    /\ spoiled' = TRUE
    /\ disturbed' = disturbed \cup {k}
    /\ UNCHANGED <<scanVars, connectVars, slot, saved, subscribed, readCalls, subscriptions, mistaken, pc>>

Notified(p, s) ==
    /\ <<p, s>> \in subscribed /\ p \in delegates
    /\ DidUpdateValue(OtherValue)
    /\ disturbed' = disturbed \cup Calls(reads)
    /\ UNCHANGED reads

----------------------------------------------------------------------------
Init ==
    /\ scanning = FALSE /\ detected = {} /\ heard = {} /\ found = {} /\ repeated = {}
    /\ pc = "idle" /\ peripheral = Nil /\ ready = FALSE /\ servicesCount = 0
    /\ delegates = {} /\ connecting = {} /\ linked = {} /\ discovering = {} /\ asked = {} /\ populated = {}
    /\ slot = <<>> /\ saved = <<>> /\ reads = {} /\ subscribed = {}
    /\ connects = 0 /\ readCalls = 0 /\ subscriptions = 0 /\ mistaken = {}
    /\ excuse = FALSE /\ overlapped = FALSE /\ mixed = FALSE /\ spoiled = FALSE /\ disturbed = {}

(* What CoreBluetooth owes the application. *)
Answer(p) ==
    \/ DidConnect(p) \/ FailsToConnect(p)
    \/ \E offered \in {Services, {}} : DidDiscoverServices(p, offered)
    \/ ServicesLost(p)
    \/ \E s \in Services : CharacteristicsLost(p, s) \/ \E ok \in BOOLEAN : DidDiscoverCharacteristics(p, s, ok)
    \/ \E k \in 1..MaxReads : AnswerLost(p, k) \/ \E ok \in BOOLEAN : ReadAnswered(p, k, ok)

Continue == ConnectReturns \/ \E s \in Services : ReadAsks(s)

Next ==
    \/ ScanStart \/ ScanStop
    \/ ConnectRefused \/ \E p \in Peripherals \cup {Nil} : Connect(p)
    \/ Disconnect
    \/ ReadSaves
    \/ \E s \in Services : Subscribe(s)
    \/ Continue
    \/ \E p \in Peripherals :
          DidDiscoverPeripheral(p) \/ Answer(p) \/ DidDisconnect(p) \/ \E s \in Services : Notified(p, s)

(* The application thread runs on, and CoreBluetooth answers every request in some way. *)
Fairness == WF_vars(Continue) /\ \A p \in Peripherals : WF_vars(Answer(p))

Spec == Init /\ [][Next]_vars /\ Fairness

----------------------------------------------------------------------------
Callbacks == [kind : {"read"}, id : 1..MaxReads] \cup [kind : {"notify"}, id : 1..MaxSubscriptions]
Characteristics == Peripherals \X Services

(* Types; what is known or asked of a peripheral is so only while it has a link. *)
TypeOK ==
    /\ scanning \in BOOLEAN /\ detected \subseteq Peripherals /\ heard \subseteq detected
    /\ found \subseteq heard /\ repeated \subseteq Peripherals
    /\ pc \in {"idle", "waiting", "saving"} /\ peripheral \in Peripherals \cup {Nil}
    /\ ready \in BOOLEAN /\ servicesCount \in Int
    /\ delegates \subseteq Peripherals /\ connecting \subseteq Peripherals /\ linked \subseteq Peripherals
    /\ discovering \subseteq linked
    /\ asked \subseteq Characteristics /\ populated \subseteq Characteristics
    /\ subscribed \subseteq linked \X Notifying
    /\ slot \in Seq(Callbacks) /\ saved \in Seq(Callbacks) /\ reads \subseteq linked \X (1..MaxReads)

(* A peripheral discovered for the first time is reported, and in a scan none is reported twice *)
(* until as many are detected as eight bits can count: from then on every discovery is reported *)
(* again.  In a later scan only new peripherals are reported: see EachScanReports.              *)
FoundOnce ==
    /\ [](repeated = {})
    /\ [][detected' \ detected \subseteq found']_vars

(* While scanning, when a device is found the callback for a found device is called *)
(* (NativeBleController.h:49-50): so a peripheral discovered in a scan is reported   *)
(* in it.                                                                            *)
EachScanReports == heard \subseteq found

(* onConnected: is_connected() means that the present peripheral has a link and every         *)
(* characteristic is known, unless something failed, connect() began while still connected or *)
(* while an earlier connection or discovery was under way: that one, too, sets the flag.      *)
ReadyMeansPopulated ==
    ready /\ ~excuse /\ ~overlapped => peripheral \in linked /\ {peripheral} \X Services \subseteq populated

(* The one counter is the number of services whose characteristics are awaited, as long as *)
(* discoveries do not overlap and none lost its delegate.                                  *)
CountIsRight == asked # {} /\ ~mixed => servicesCount = Cardinality(asked)

(* read() borrows the slot: once the reads are answered, with a value or an error, it is as the *)
(* latest notify() or indicate() left it and values reach that callback again, unless since     *)
(* then a read was refused, not answered, or had saved the slot before another value was        *)
(* handled.                                                                                     *)
ReadLeavesTheSlot ==
    reads = {} /\ ~spoiled =>
        slot = IF subscriptions = 0 THEN <<>> ELSE <<NotifyCallback(subscriptions)>>

(* The callback of a read is called only with the value that this read asked for, also between  *)
(* notifications, unless another read or value met it while it waited.  A read that fails calls *)
(* it too, with an old value or none: macable.h:79-80 promises the call only for a success.     *)
ReadGetsItsValue == mistaken \subseteq disturbed

(* connect() returns, unless something went wrong: then it waits for ever. *)
ConnectEnds == pc = "waiting" ~> (pc = "idle" \/ excuse)
===============================================================================
