# NativeBLE: specifications and proofs

NativeBLE is a C++ library that gives an application one interface to Bluetooth Low
Energy on Linux (BlueZ over D-Bus), Windows (WinRT) and macOS (CoreBluetooth). This
directory holds TLA+ models of it, the TLC configurations that check them on small
instances, and proofs checked by TLAPS. Paths below are relative to `src/src-ble/`
unless they start otherwise.

## 1. Inventory

| Component | State it keeps | Operations | Talks to |
|---|---|---|---|
| `NativeBleController` | pointer to the platform object | forwards every call | platform object |
| Callbacks (`NativeBleControllerTypes.h`) | five `std::function` slots | called by the platform object | application |
| Linux `NativeBleInternal` | adapter, device, async thread and its flag | `setup`, `scan_*`, `connect`, `read`, `notify`, `indicate`, `write_*`, `disconnect`, destructor | BluezService, the tree, user callbacks |
| `BluezService` | connection, object manager, map of adapters | `init`, `run_async`, `add_path`, `remove_path`, `get_first_adapter` | Connection, ObjectManager, adapters |
| `BluezAdapter` / `Adapter1` | map of devices, `Discovering`, hook `OnDeviceFound` | `add_path`, `get_device`, discovery calls | Connection, devices |
| `BluezDevice` / `Device1` | map of services, address, name, `Connected`, hooks | `add_path`, `get_characteristic`, `Connect`, `Disconnect` | Connection, services |
| `BluezGattService`, `BluezGattCharacteristic` and their interfaces | UUIDs, characteristics, last value, hook `ValueChanged` | `add_path`, `StartNotify`, `ReadValue`, `WriteValue` | Connection |
| `simpledbus` `Connection` | D-Bus connection, one error record | blocking call, pop, add and remove match, flush | libdbus |
| `ObjectManager`, `Properties`, `PropertyHandler` | callbacks | snapshot, routing of signals, options | Connection, the tree |
| `Message`, `Holder` | a D-Bus message and its iterator, a tagged value | marshalling | libdbus |
| Windows `NativeBleInternal` | scanner, `scanning`, device, map of characteristics | as above | WinRT and its threads |
| macOS `NativeBleInternal`, `Macable` | peripheral, readiness flag, one value callback, counter of services | as above | CoreBluetooth and its queue |
| C API, test program, build files | none | forwarding | facade |

**Threads on Linux.** The application's threads call the object. If there is an adapter the
object starts one thread of its own, which pops one D-Bus message per millisecond, applies
it to the tree and runs the user callbacks. Nothing is locked: the threads share the D-Bus
connection with its error record, the maps of the tree and the hook slots.

**Threads elsewhere.** On Windows the application's thread waits for each WinRT request, while
WinRT runs the advertisement handler and the handler of `ConnectionStatusChanged` of each device
object on its own threads; again nothing is locked. On macOS the application's thread spins in
`connect()` on a flag that the methods of the delegate set, which CoreBluetooth runs one at a time
on a serial queue.

**What is hard.** Replies taken out of the queue by the wrong thread; the shared error
record; destruction while the async thread is in a callback; the gap between the snapshot of
BlueZ's objects and the subscription to their changes; objects that outlive their export;
hooks installed before or after the request or the listing they are for; answers that overtake
announcements; stale caches (`scan_is_active`, `is_connected`). On Windows a disconnection that two
threads carry out at once, a handler of an old device object that ends the present one, scans
restarted from the callback that reports their end, a map that keeps characteristics of a closed
device. On macOS the one callback slot of all reads and notifications, the one counter and the
one flag of all discoveries, sizes kept in eight bits. In values: signs, widths and nesting through
a union and a hand-written signature. `PROJECT.json` lists each at
its line, with the properties that cover it or the reason why none does.

**What makes each component correct.**

- *Connection*: a reply is the caller's own and a failed call does not look good, the error record
  recovers, signals are delivered in order and once, every call and the destructor return.
- *The tree*: in step with BlueZ it holds every exported object with its current value, nothing
  above an object is missing, no erased adapter stays.
- *Scanning*: every device of the adapter is reported after `scan_start`; `scan_is_active`
  follows the discovery.
- *Connection to a device*: a connection and its end are reported, once; a value announced after
  a subscription reaches the callback of that subscription or of a later one; the memory handed
  to a callback is alive; after `connect()` the characteristics can be used.
- *Values*: what is sent is what the peer gets, at every depth, and what the peer sent is what the
  reader extracts.
- *Windows*: at rest the application was told what is so, and what is cached belongs to the present
  device; each scan reports a device once; a lost link is reported.
- *macOS*: readiness means that the characteristics are known; a read gets its own value and gives
  the slot back to the latest subscription; `connect()` returns; each scan reports what it finds.

## 2. Modules

| Module | Models | Run | Proofs |
|---|---|---|---|
| `SignalChannel` | abstract specification: a FIFO channel of signals that the receiver may close | through `DBusConnection` | |
| `DBusConnection` | `Connection`, `run_async` as a message loop, construction and destruction of the Linux object; refines `SignalChannel` | `dbus` | `DBusConnection_proofs` |
| `BluezMirror` | the tree, `BluezService::init`, `add_path`, `remove_path`, routing of signals | `mirror` | `BluezMirror_proofs` |
| `LinuxLink` | `connect`, `read`, `notify`, `indicate`, `write_*`, `disconnect` and the hooks | `link`, `read_data`, `connect_ready`, `disconnect_reported` | `LinuxLink_proofs` |
| `LinuxScan` | `scan_start`, `scan_stop`, `scan_timeout`, `scan_is_active` and the hook | `scan` | `LinuxScan_proofs` |
| `DBusValues` | `Holder`, the writing and reading of `Message`, the messages of `Properties`, `ObjectManager` and `GattCharacteristic1` | `values` | `DBusValues_proofs` |
| `NativeBleWindows` | `windows/NativeBleInternal.cpp` against the threads of WinRT | `windows`, `windows_address` | `NativeBleWindows_proofs` |
| `NativeBleMac` | `macos/NativeBleInternal.mm` and `Macable` against CoreBluetooth | `mac`, `mac_rescan` | `NativeBleMac_proofs` |
| `Selection` | the elements of a sequence that belong to a set | through `DBusConnection`, `DBusValues`, `NativeBleWindows` | `QueueLemmas` |

`QueueLemmas` states facts about queues for all the proof modules: what appending and taking an element
does to the places and the number of the elements of a set, and what `Selected` returns. `Selected` says
the same as `SelectSeq`, which is a recursion that the prover cannot follow, by ranks: its k-th element
is the one with k of the set up to it.

The modules meet at the signals. `DBusConnection` shows that signals reach
`process_received_signal` one at a time, in order, each once. The other three therefore take
`bus`, the FIFO of announcements not yet applied, as given, and have one action per kind of
signal. In the same way they take a blocking call as one step that returns with success or
without; `CallReturns` is what allows that. An error message handed back as a valid reply is for them any
failed call: `ReadValue` is the one caller that looks into its reply while other threads run, and it finds no
bytes in the text of an error. `BluezMirror` shows which objects are in the
tree; `LinuxLink` and `LinuxScan` start from a tree that is in step and follow one level of it.
`DBusValues` shows that the values the signals carry, model values in the other modules, come
through. The Windows and macOS modules stand for themselves: a program is built with one platform.

### DBusConnection

`incoming` is libdbus's queue, `err` is `Connection::err` (set or not), `pc`, `mine`, `got` and
`result` are where each thread is in `send_with_reply_and_block`, the serial of its call, the
reply libdbus gave it and the one it returned. `loop` and `current` are the async thread's place
in `async_thread_function`; `life` follows `~NativeBleInternal`, `~BluezService` and
`~Connection`.

`send_with_reply_and_block` (`Connection.cpp:75-85`) is four steps because other threads run between them:
`Enter` (libdbus sends, or refuses because `err` is set), `TakeReply` or `TimeOut`, `CheckError`, and
`FreeError`. libdbus turns an error message into NULL and a text in `err`, but it does not overwrite an error
that is there: `HandOver` then gives the caller the error message itself. If the thread whose error it was
frees the record before the caller tests it, line 83 returns a failed or timed-out call as a valid `Message`.
The history variable `crossed` holds the threads this can happen to: those that were blocked when another
thread's error was put into the record. `Pop` takes the first message whatever it is, as `read_write_pop`
does. `RemoveMatch` is the last blocking call, made by `~BluezService` after the join, and `Flush` pops until
the queue is empty. External: the queue and reply matching of libdbus, the bus and BlueZ (`Emit`, `Answer`).

The 1 ms and 10 ms sleeps are not modelled: they set speed, not order. `async_thread_active`
is `volatile bool`; it is read and written as one step. Without an adapter there is no async thread and
`~NativeBleInternal` calls `joinable()` on a null pointer (`linux/NativeBleInternal.cpp:18`): `Destroy` ends in
`life = "faulted"`.

### BluezMirror

A path is a model value; its depth, prefixes and place in `std::map`'s order are constants
with assumptions. `mirror` maps the path of each object of the tree to the value it holds for
its one followed property. The four nested maps are one function because the code files a path only
under an object whose path is its prefix: `IsTree` (in `TypeOK`) says that is enough.
`AddPath` is the chain `BluezService::add_path` to `BluezGattService::add_path`; `RemovePath` is
`BluezService::remove_path`; `SetOption` is the walk of `process_received_signal`.

`phase` follows the constructor: `ListObjects` or `ListFails`, `FileListed` for each object of the
snapshot in path order, `AddMatch` or `AddMatchFails` (the error is printed, `routed` stays false and the
construction goes on), `StartThread` (no thread without an adapter). BlueZ
(external) exports parents first and withdraws them last. Three history variables name what the
code cannot repair, so that the invariants say exactly where it falls short: `lost` (signals
after the snapshot that the bus did not route here, because there was no match rule yet or because
`add_match` failed), `cut` (adapters erased though BlueZ only announced the loss of one
interface), `shadowed` (objects that `emplace` kept).

### LinuxLink

One application thread. `pc` is where it is in an operation, `bus` the announcements waiting for the async
thread, `chars` the devices whose characteristic is in the tree, `onConnected` and `sink` the hook slots.
BlueZ carries out a request, announces what changed and answers; the answer returns to the caller at once
(`ConnectReturns`, `NotifyReturns`, ...) while announcements wait in `bus`. `StartNotify`, which BlueZ carries
out, and the return to the caller are two steps: values may be announced, and reach the callback, before
`notify()` returns. `FreeBuffer` is the array of `read()`. A failed `ReadValue` continues with an
uninitialised iterator: the model lets it find nothing or crash. A device has one service with one
characteristic; the payload is the number of the announcement.

### LinuxScan

`filed` is `BluezAdapter::devices` with the name each object holds, `cached` is
`Adapter1::_discovering`, `hook` is `OnDeviceFound`. `scan_start` is one step per iteration of its
loop, then the hook, the filter, `StartDiscovery`. If a device is filed during the loop the two
threads race on the `std::map`, and the loop may end anywhere (`ListEnd`). `attached` becomes
false when the adapter is erased: the application's shared pointer keeps an object that no
signal reaches any more. History variables `raced`, `gap`, `late` and `stale` name the devices the code
can miss.

### DBusValues

A `Holder` is a record with the fields of the class; an argument is what libdbus sees between two
D-Bus programs. `Encode` is `_append_argument`, `Decode` is `_extract_generic` with its array and
dictionary, `Signature` is `Holder::signature`, `Assign` is `operator=`, which appends to the
containers its target already has. `CreateNumber` widens to the union's 64 bits and `GetNumber`
masks and casts back. The state machine around them is the traffic: `Set`, `Get`, `GetAll`,
`GetManagedObjects`, the three signals, `ReadValue` and `WriteValue`, each incoming message read argument by
argument with the iterator `iter` as `extract` and `extract_next` move it. The peer (external) keeps
`props` and `value`. libdbus stops a program that opens a variant with an incomplete signature or
appends a Boolean that is neither 0 nor 1: `SetCrashes`. A Boolean taken as four bytes from a
one-byte member may by chance be right, and then it is sent like any other.

`Represents` is the reference: it says which argument a Holder stands for, without reference to
how the code computes it, and allows what the code leaves out (entries without a text for a key,
types it does not know, and variants of variants of them: what a Holder that was never given a value
stands for).

Values are nested and these functions call themselves. The module declares no RECURSIVE operator, so that it
can be proved about: a call inside a function (`DecodeCall`, `AssignCall`, ...) is a constant operator, which
`MCDBusValues` gives the function itself as its value, and the theorems assume to be the function. The loop
of `_extract_dict` is likewise what the last entry adds to what the others made. Widths are numbers
of values: `Size` for each type, `Lengths` for the length of a write.

### NativeBleWindows

Each `connect()` makes a `BluetoothLEDevice`, a number here; `device` is the member, `object` and
`up` the state of each object and of its link. `pc` is the application's thread in `connect()`, in the
operations on a characteristic and in the sleep of `scan_timeout`; `nested` counts the calls of
`scan_stop` that are inside their callback, from which the application may call again. `step`
follows each thread through `disconnect_execute` and the callback after it, one step per statement because
each uses `this->device` or the map again, whatever another thread has made of them: `TestDevice`,
`CloseServices`, `CloseDevice`, `ClearCache`, `ResetDevice`, `Report`. `cache` is `characteristics_map`, in
which `emplace` keeps what is there. The handler of an advertisement is three steps, because it runs on
threads of WinRT with nothing locked: `Received` looks the address up (line 39), `InsertAddress` inserts it
(line 41), `ReportFound` calls the callback (line 42); `inserting` and `reporting` count the handlers in
between, of which there are at most `MaxHandlers` per scan and advertiser, those that have reported included.
One operation on the `std::set` or the map is one step: what two at once do to its memory is not modelled.
A request on a closed object throws, which ends the handler or the call (`CloseServicesThrows`,
`DiscoverServicesThrows`, `GetCharacteristicsThrows`). External: advertisements and the delay of their
handlers, the loss and return of links, the order of events, and the failure of any request.

Crashes are part of the model (`crash`): a null device, no device for the address, a null or erased
characteristic. History variables name the exceptions of the invariants: `restarted` (the present scan was
started from within the callback of `scan_stop`, after which line 54 clears its flag), `overtaken` (the
advertisers for which, in the present scan, another handler passed the test before the insertion or the set
was cleared between the steps of a handler), `raced` (a connection handler at work during the latest
`connect()`), `spoiled` (since the map was last cleared it kept or took a characteristic of another object, or
line 245 forgot a device that it had not closed), `contended` (two threads in `disconnect_execute`, or one
while `connect()` began). `FormatMacAddress` and `Strtoull` work on character codes, because the finding below
is about them.

### NativeBleMac

CoreBluetooth's queue is serial and a method of the delegate does not wait, so each event and its method are
one action. `peripheral`, `ready` and `servicesCount` are Macable's; `delegates` are the peripherals that call
it. `slot` is `onCharacteristicUpdated`: the callback in it followed by those that the closures of `read()`
will put back, one under the other; `ReadSaves` and `ReadAsks` are two steps because a value may come between
the copy and the assignment. `didUpdateValueForCharacteristic` does not look at its error
(`macable.mm:161-164`): a read that fails calls its callback with what the characteristic held before, or
nothing (`OtherValue`), where `macable.h:79-80` promises the call "if read is successful"; `ReadGetsItsValue`
names it as an exception. `connect()` waits at `waiting` for `ready`; for an address that does not have 36
characters it returns at once (`ConnectRefused`). External (`connecting`, `linked`, `discovering`, `asked`,
`populated`, `reads`, `subscribed`): what CoreBluetooth has been asked and knows; it may answer in any order,
fail, or drop a link at any time, and answers of a peripheral without a delegate are lost.

History variables name the exceptions: `excuse` (something failed since `connect()` began, or it began while
the flag was still set), `overlapped` (it began while an earlier connection or discovery was under way, which
is possible because any discovery that ends sets the flag), `mixed` (discoveries overlapped or lost their
delegate), `spoiled` (since the latest `notify()` or `indicate()` a read was refused or not answered, or had
saved the slot before another value was handled), `disturbed` (the reads that failed, were refused or lost, or
met another read or value while they waited). `heard` and `found` are the peripherals discovered and reported
in the present scan; no scan empties `detected`, which is the finding of `mac_rescan`. The liveness property
says that without a failure `connect()` returns; after one the busy wait may have no end, and that is what the
code does.

## 3. What is checked

| Run | Instance | Shows |
|---|---|---|
| `dbus` | 1 application thread and the async thread, 2 signals, 2 calls and the final RemoveMatch | `NoPoisonedError`, `ReplyIsOwn`, `NoUseAfterClose`; refinement `ChannelImplemented`; liveness `CallReturns`, `DestroyReturns`, `QueueDrains`; no deadlock |
| `mirror` | 2 adapters, a device and its service, 2 values, 3 changes by BlueZ | `ExportedIsMirrored`, `MirrorHasValues`, `NoGhostAdapter`, liveness `ComesInStep` |
| `link` | 1 device, 2 link-ups, 2 values, 2 subscriptions | `ConnectedIsReportedOnce`, `NotifyIsGapless`, liveness `ConnectedBecomesUsable` |
| `scan` | 2 devices, 3 changes by BlueZ, 2 scans | `ScanReportsDevices`, liveness `StopTakesEffect` |
| `values` | 13 Holders, alone and nested, 6 arguments of the peer, 2 properties, chunks of 0 to 5 bytes | `ExtractedIsSent`, `SetArrives`, `WriteArrives` |
| `windows` | 1 advertiser, 2 services, 3 calls, 2 of them `connect`, 2 nested `scan_stop`, 2 handlers, 1 listener | `FlagFollowsWatcher`, `FoundOncePerScan`, `OpensTheDeviceNamed`, `ViewIsTrue`, `CachedIsLive`, `NullDeviceNeedsOverlap`, liveness `LossIsReported` |
| `mac` | 2 peripherals with a readable and a notifying service, 2 connects, 2 reads, 1 subscription | `FoundOnce`, `ReadyMeansPopulated`, `CountIsRight`, `ReadLeavesTheSlot`, `ReadGetsItsValue`, liveness `ConnectEnds` |
| `read_data` | as `link` | finding: `read()` passes freed memory (`linux/NativeBleInternal.cpp:108-109`) |
| `connect_ready` | as `link` | findings, one counterexample: `connect()` returns (`TUTORIAL.md:122`) and the connection is reported (`TUTORIAL.md:69`) before the characteristics can be used |
| `disconnect_reported` | as `link` | finding: the disconnection callback is never called (`TUTORIAL.md:170`) |
| `mac_rescan` | as `mac`, 1 connect, 1 read | finding: a scan does not report what an earlier one has reported (`NativeBleController.h:49-50`, `TUTORIAL.md:76`) |
| `windows_address` | as `windows`, an address with an upper-case letter | finding: an upper-case address becomes the number of another device (`windows/NativeBleInternal.cpp:323`) |

**Bounds.** They limit what the environment does, never the code. Two signals show order and
one signal waiting behind another; two calls let one call be late while the next is made, and the
async thread call from a callback while the application thread is blocked. Three changes
suffice to remove an object, add it again and change it, or to lose a signal and repair it; the
initial state of `BluezMirror` is any set of exported objects, so no change is spent on
building it. Two link-ups (one of them possibly before the start) let a stale
announcement meet a new connection, two
subscriptions let a callback be replaced while values are queued. Two scans let the hook of the
first see the devices of the second.

On Windows two device objects are what a late handler of one needs to meet the other; three calls allow a scan
to be restarted before or between the connections; two services distinguish the first from the last of the
discovery; two handlers let both pass the test, or one meet a restarted scan; `MaxNested` 2 is a `scan_stop`
inside the callback of another. Passing runs use an address with a separator in lower case. On macOS the sizes
wrap at `SizeValues` 2, not 256, so that two peripherals are enough to wrap them; two peripherals make
discoveries overlap; two reads nest their restores above a notification. In `values` the widths are scaled
(bytes of 4 values, 64-bit numbers of 32) and keep their order, so that every mask and sign bit is met; the
Holders include negative numbers, the extremes of a type, an empty array, arrays of arrays and of
dictionaries; `Lengths` 4 cuts the chunk of five bytes, as 16 bits cut one of 65536.

**Deadlock** is checked in `dbus`, where `Stopped` marks the legitimate ends. In the other runs
the environment may rest for ever and the application need not call, or the process may have died, so they set
`CHECK_DEADLOCK FALSE`.

**Fairness.** The operating system runs both threads (weak fairness of `AsyncStep`, `ReturnStep` of each
thread, `DestructorStep`, `Continue`, `RunAsync`), and a blocked call ends because libdbus times it out
(`Connection.cpp:76` passes -1, 25 seconds). Nothing is assumed of BlueZ, the bus or the application. In
`DBusConnection` BlueZ may send for ever only up to `MaxSignals`; that `~Connection` ends its flush relies on
the match rule having been removed, or on the bound when RemoveMatch fails. In `NativeBleWindows` `connect()`,
`disconnect_execute` and the handler of a lost link run on, and each WinRT request ends, with success or
without (`.get()` waits for nothing else); no callback of the application has to return, no link to be lost,
regained or kept, and handlers of advertisements need not run. In `NativeBleMac` the application's thread runs
on and CoreBluetooth answers each request in some way, failure and lost answer included. `DBusValues` states
no fairness.

**Mutants.** Each property has a mutant in `PROJECT.json`: a definition changed the way a
plausible bug would change it (a forgotten `dbus_error_free`, a reply matched without its serial, a
thread not joined, the snapshot walked in the order of the reply, a hook not installed, ...), kept next
to the definition in the module; TLC finds the property violated.

## 4. What is proved

Every safety property of the passing runs is a theorem for every value of the
constants, and so is the refinement of `SignalChannel`. Each invariant was checked by TLC first and
then strengthened until it was inductive; the strengthenings say why the code is right, and are
listed here. Types come first in each module, as a conjunction of parts (`LinkTypes`, `SlotTypes`,
...) with a lemma that an untouched part stands.

`DBusConnection_proofs`, for any set of application threads and any bounds:

- `TypeCorrect`: `Spec => []TypeOK`. Not inductive alone: `TypeInv` adds `LoopInv`, that the async
  thread holds a signal exactly while it handles one and is inside a call only then; otherwise
  `FinishHandling` could append `NoSignal` to `handled`. `RemoveAtProperties` says what removing an
  element leaves.
- `ErrorNeverPoisoned`: `Spec => []NoPoisonedError`. Read the other way round it says that a set
  record has a thread at `returned` or `clearing`. It is inductive given the types: a thread leaves
  `returned` for good only if it found the record clear, and `clearing` only by freeing it, which
  clears it whatever the other threads did in between.
- `RepliesAreOwn`: `Spec => []ReplyIsOwn`. `ReplyInv` follows success from the queue to the hands of
  libdbus to the result, shows that an error message is in those hands only with `err` set or the thread
  `crossed`, adds that a requested serial is not yet answered, and that a serial no
  call has used (`Fresh`) is neither requested nor answered: so an answer, once given, stands.
- `NothingUsesClosed`: `Spec => []NoUseAfterClose`. `CloseInv` says that from `removing` on the loop has
  ended and from `flushing` on every thread is idle; `LoopInv` gives that no signal is in hand.
- `ChannelIsImplemented`: `Spec => ChannelImplemented`, the refinement. `QueueInv` says that the signals in
  `incoming`, replies left out, are `n+1, ..., emitted` for some `n`. `HoldsSteps` shows how each change
  of the queue changes that run: a reply put in or taken out anywhere leaves it, a signal sent
  lengthens it, a signal popped takes its head. So popping is `Receive`, sending is `Send`, the end of the
  object is `Close`, and the steps of calls are stutters (`ChannelStep`, one case per action).

`BluezMirror_proofs`, for any sets of paths and values, with `Depth`, `Above` and `Rank` as assumed:

- `MirrorIsATree`: `Spec => []TypeOK`, which includes `IsTree(mirror)`. `AboveIsAChain` shows that the
  prefixes of a path are the parent and the prefixes of the parent, hence `AddPathTree`; `RemovePathTree` uses
  that prefixes are transitive.
- `NothingMissing` and `ValuesAreCurrent`: `Spec => []ExportedIsMirrored`, `Spec => []MirrorHasValues`. An
  exported object is *good* if no signal of it was lost (before the match rule, or for want of one) and no
  adapter above it cut. `PlaceInv` gives each good object a place: 0 if it is in the tree, or that of its
  announcement in `bus`, with no signal behind it that erases its adapter; a parent's place is not behind its
  child's. So when an announcement is applied the parent is there. `ValueInv` says that the last announcement
  of a good object, or else the tree, has the value BlueZ exports. `ListInv` does the same for the snapshot,
  which is filed in the order of `Rank`.
- `GhostsLeave`: `Spec => []NoGhostAdapter`. `GhostInv`: for an adapter that is in the tree, or announced, but
  not exported, a removal waits behind in `bus`.

`LinuxLink_proofs`, for any devices and any bounds:

- `LinkTypes`: `Spec => []TypeOK`. The bound of `connectCalls` in it needs `LinkInv`.
- `ReportedOnceLinux`: `Spec => []ConnectedIsReportedOnce`. `LinkInv`: the calls of the callback and the
  announcements that still wait are together at least the links made while the hook was installed and at
  most all links; `connect()` has installed the hook before it asks.
- `Gapless`: `Spec => []NotifyIsGapless`. `ValueInv`: the values delivered and those that wait increase, in
  this order; `SinkInv`: the callback in the slot is as new as every accepted subscription, because it is
  assigned before the request (`StepInv`).

`LinuxScan_proofs`, for any devices and any bounds:

- `ScanTypes`: `Spec => []TypeOK`.
- `NoDeviceIsMissed`: `Spec => []ScanReportsDevices`. `LoopInv`: the devices the loop of `scan_start` has passed, and
  after it all that are filed, are reported if they have a name, or excused by a history variable. `ExportInv`:
  until the adapter is withdrawn each device of BlueZ is filed or announced, and so is its name, behind the
  device it belongs to.

`NativeBleWindows_proofs`, for any numbers of services, connections, calls and advertisers:

- `WindowsTypes`: `Spec => []TypeOK`. `PlaceInv` adds where the application thread may be.
- `NullDeviceNeedsTwo`: `Spec => []NullDeviceNeedsOverlap`. `DeviceInv` adds to the property what holds while
  there was no overlap (`Guarded`): a thread past the test of line 238 finds a device, it is the only such
  thread, and `connect()` is not at the same time about to use the device; and `Shape`, the types this needs.
  `ResetDevice` is the one step that takes the device away, and by `Guarded` nobody else relied on it. So the
  single test is enough for one thread, and no other hazard is needed for the crash.
- `FlagIsTrue`, `FoundOnce`: `Spec => []FlagFollowsWatcher`, `Spec => []FoundOncePerScan`. `ScanInv` follows
  the flag through the open calls of `scan_stop`; its `FoundInv` says of a peripheral not `overtaken` that at
  most one handler is with it, and that its address is in `detected` exactly from the insertion on.
- `CacheIsLive`: `Spec => []CachedIsLive`. `ObjectInv`: `device` is the latest object made, or null, and if it
  is closed its closer is about to forget it; `CacheInv`, unless `spoiled`: an entry of an older object lasts
  only until the loop over the services meets it or a failure clears the map, and without an open device the
  map is empty or a thread is about to clear it.
- `ViewAtRest`: `Spec => []ViewIsTrue`. `LossInv`: a device without a link has its event waiting, or a thread
  is about to close it; `ToldInv`, unless `raced`: an application told "up" has a device, or a thread is about
  to say "down", no thread says so of a device that is there, and none that is about to forget the device
  meets an open one. The three hold while the process lives (`Alive`).
- `NamedIsOpened`: `Spec => []OpensTheDeviceNamed`, assuming that no address has a capital letter. Without the
  assumption it is false: that is the finding of `windows_address`. `FormatKeepsNumber` shows that the
  spelling then keeps its digits and loses only what is no digit, `DigitsAreRead` that `strtoull` reads all of
  it. Nothing is used of the fold by which `NumberOf` adds digits up.

`NativeBleMac_proofs`, for any finite sets of peripherals and services and any bounds:

- `MacTypes`: `Spec => []TypeOK`.
- `ReportedOnce`: `Spec => FoundOnce`, which has a part about steps: a peripheral new in `detected` is in `found'`.
  `FoundInv` says that what was reported in a scan is detected. `KeptNumber`: a number modulo `SizeValues` is never
  more than itself, so an insertion is always seen, and is itself while it is less, so that without an insertion
  nothing is reported.
- `CounterCounts`: `Spec => []CountIsRight`. `CountInv` adds `OneDiscovery`: without a mixture all that is
  awaited is of one peripheral, so that a lost link withdraws all of it and an answer takes one away.
- `ReadyIsPopulated`: `Spec => []ReadyMeansPopulated`. `ReadyInv`: a `connect()` that begins alone stays alone;
  its connection, its services and their characteristics are awaited one after the other, and while
  characteristics are awaited the counter has their number, so it reaches zero with the last of them.
  The first attempt failed, for a good reason: with three `connect()`s a
  connection begun earlier can still be under way when the flag is set, and its discovery then makes a later
  `connect()` return. Two `connect()`s, the bound of the run, hide it. The exception `overlapped` names
  that case.
- `SlotIsLeft`: `Spec => []ReadLeavesTheSlot`. `SlotInv` adds that in the slot, and in the copy `read()` has made of
  it, callbacks of reads lie on the callback of the latest subscription and on nothing else (`Stacked`), and that
  they are no more than the reads that wait; so without reads that callback alone is left.
- `ReadsGetTheirs`: `Spec => []ReadGetsItsValue`. `AnswerInv`: an undisturbed read is the only one that
  waits, and of the callbacks in the slot only the top one can be of such a read.

`DBusValues_proofs`, for every width of the numbers and every depth of nesting:

- `ValueTypes`, `ExtractedRight`, `SetRight`, `WriteRight`: `Spec => []TypeOK`, `Spec =>
  []ExtractedIsSent`, `Spec => []SetArrives`, `Spec => []WriteArrives`. All four follow from `ValueInv`:
  the peer's properties are arguments and stand for what `Set` was given (`PeerOk`), what was extracted
  stands for what is in the message, and the iterator is at the argument that is extracted next, or the
  last one extracted (`MessageOk`), and the latest write has arrived (`ChunkOk`). `DecodeRight` says of
  each argument that what is extracted from it stands for it and has a type exactly if the code knows
  the argument's; `EncodeRight` says of each Holder with a complete signature that what is sent stands
  for it. Both go by cases, one lemma per kind of value: `NumberSurvives` (a number that is widened to
  64 bits, masked and cast back is the number, negative ones included), `ArrayRight`, `DictRight`,
  `ArraySent`, `CopyIsSame` (`operator=` on a fresh Holder makes a copy).
- The hypothesis `Values(S, H)` stands for induction over data, which the prover has no rule for that
  could be used: `S` is any set of arguments that holds exactly what can be made of its own members, and
  in which every nonempty subset has an argument with no part in that subset; `H` is the same for
  Holders. Such sets exist: the least that are closed under making values. If a lemma failed for some
  arguments, there would be one of them with no part among them, and the cases show that there is none.
  The rest of the hypothesis is that the peer's arguments and the program's Holders are in those sets
  and that a call inside a function is a call of that function, for the arguments it can have; each call
  is of a part, so these equations have a solution, and in `MCDBusValues` they hold by definition.
- What D-Bus asks of messages is in `S` and in `CallerAssumption`: the keys of a dictionary are basic,
  distinct and of one type, an array is uniform. The run has arguments and Holders of that kind only.
- The first attempt failed, for a good reason: `Represents` allowed an array element or entry to be left
  out if its type, or that of the content of a variant, was not known. The code also leaves out a
  variant of a variant of one, which the run did not contain. `Known` is now what the code computes it
  to be for every depth, and the run contains the case.

Assumptions: the named `ASSUME`s of the modules. `AboveAssumption` excludes a machine on which one
adapter's path is a prefix of another's (`hci1` and `hci10`), where the code would file wrongly.

**Only model-checked**: liveness under fairness, which the prover has no rules for: `CallReturns`, `DestroyReturns`,
`QueueDrains`, `ComesInStep`, `ConnectedBecomesUsable`, `StopTakesEffect`, `LossIsReported`,
`ConnectEnds`. Findings are counterexamples, for which one instance is enough.

## 5. What is not modelled

- The facade and the C API forward calls; the agent is a placeholder; build files and the test
  program have no state.
- Data races whose outcome cannot be enumerated: a `std::function` slot written while it is called,
  an error record freed twice. The steps of the two threads are there, the memory corruption is not.
- libdbus refuses a call made with the error record set and returns NULL. A libdbus built to abort
  on such a call instead is not modelled.
- The adapter prefix confusion above; UUIDs, with the conversions to and from GUIDs of
  `windows/NativeBleInternal.cpp:270-316`, which keep no state: a UUID is the identity of a service.
- Of values: the bytes beside a one-byte Boolean that libdbus overwrites when one is extracted (the value
  itself is modelled), arrays of mixed types and an empty dictionary inside a variant (the caller would have
  to build them), doubles (a 64-bit number like the others), and the text of `Holder::represent` and
  `Message::to_string`.
- On Linux the result of `format_mac_address` is not used. On macOS an address of 36 characters that is no UUID,
  for which `connect()` would raise an exception, is not modelled.
- The `std::function` property of Macable is not atomic: that copying it races with its assignment
  is two steps in the model, a torn copy is not.
- `StopNotify`, `GetDiscoveryFilters`, `Connection::send` and Macable's
  `subscribeToIndicationsOnCharacteristic` have no caller. `Properties::Get`, `GetAll` and `Set` have none
  either; they are modelled because they are the way the public `Holder` meets the bus.

## 6. Plan

1. (done) `DBusConnection` with `SignalChannel`, `BluezMirror`, `LinuxLink`, `LinuxScan`; the proofs above.
2. (done) `NativeBleWindows` with its runs and the proof about the null device.
3. (done) `NativeBleMac` with its run and the proofs of `FoundOnce` and `CountIsRight`.
4. (done) `DBusValues` with its run; the conversion of addresses that is used is in `NativeBleWindows`.
5. (done) Proofs: the refinement of `SignalChannel`, type correctness and every safety property of
   `BluezMirror`, `LinuxLink`, `LinuxScan`, `NativeBleWindows` and `NativeBleMac`.
6. (done) Proofs: the four properties of `DBusValues`, by well-founded sets of values in place of recursion.
