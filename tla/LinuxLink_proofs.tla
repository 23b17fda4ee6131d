---------------------------- MODULE LinuxLink_proofs ----------------------------
(***************************************************************************)
(* Theorems about LinuxLink, for any devices and any bounds.               *)
(***************************************************************************)
EXTENDS LinuxLink, TLAPS, QueueLemmas

-------------------------------------------------------------------------------
(* The inductive invariant.                                                  *)

\* Where the application thread installs its callback and where it waits for the answer.
StepInv ==
    /\ pc = "sinking" => asked < MaxSinks
    /\ pc = "subscribing" => asked \in Sinks /\ sink[device] = asked

UpOf(d) == [op |-> "connected", dev |-> d, val |-> TRUE]
Pending(d) == Count(bus, {UpOf(d)})

\* A link that comes up is announced once: an announcement is waiting or has called the
\* callback, if the hook was there.  A connect() has installed it before its request.
LinkInv ==
    /\ pc = "connecting" => device \in onConnected
    /\ \A d \in Devices :
          /\ d \notin onConnected => served[d] = 0
          /\ served[d] <= connectCalls[d] + Pending(d)
          /\ connectCalls[d] + Pending(d) <= ups[d]

\* Values wait in the order in which they were announced, behind those delivered, and
\* the callback in the slot is as new as every request that succeeded.
ValueAt(i, d) == bus[i].op = "value" /\ bus[i].dev = d

SinkInv ==
    /\ \A d \in Devices : sink[d] <= asked
    /\ \A a \in accepted : a.sink <= sink[a.dev]

ValueInv ==
    \A d \in Devices :
        /\ \A i \in DOMAIN bus : ValueAt(i, d) => bus[i].val <= values[d]
        /\ \A i, j \in DOMAIN bus : i < j /\ ValueAt(i, d) /\ ValueAt(j, d) => bus[i].val < bus[j].val
        /\ \A k \in DOMAIN delivered[d] :
              /\ delivered[d][k].val <= values[d] /\ delivered[d][k].sink <= sink[d]
              /\ \A i \in DOMAIN bus : ValueAt(i, d) => delivered[d][k].val < bus[i].val

IInv == TypeOK /\ StepInv /\ LinkInv /\ SinkInv /\ ValueInv /\ NotifyIsGapless

-------------------------------------------------------------------------------
(* Types.                                                                    *)

LEMMA Bounds ==
    /\ MaxLinkUps \in Nat /\ MaxValues \in Nat /\ MaxSinks \in Nat
    /\ Sinks \subseteq Nat /\ NoSink \in Nat /\ NoSink \notin Sinks
BY BoundsAssumption DEF Sinks, NoSink

\* The kinds of announcements.
LEMMA Kinds ==
    ASSUME NEW m \in Announcement
    PROVE  /\ m.dev \in Devices
           /\ m.op \in {"connected", "services", "value"}
           /\ m.op = "connected" => m.val \in BOOLEAN /\ m = [op |-> "connected", dev |-> m.dev, val |-> m.val]
           /\ m.op = "value" => m.val \in 1..MaxValues /\ m = [op |-> "value", dev |-> m.dev, val |-> m.val]
BY DEF Announcement

LEMMA IsAnnouncement ==
    ASSUME NEW d \in Devices
    PROVE  /\ \A b \in BOOLEAN : [op |-> "connected", dev |-> d, val |-> b] \in Announcement
           /\ [op |-> "services", dev |-> d] \in Announcement
           /\ \A v \in 1..MaxValues : [op |-> "value", dev |-> d, val |-> v] \in Announcement
BY DEF Announcement

\* The announcement the async thread takes.
LEMMA ApplyTakes ==
    ASSUME TypeOK, NEW op, Apply(op)
    PROVE  /\ Head(bus) \in Announcement /\ Head(bus).op = op /\ Head(bus).dev \in Devices
           /\ bus # <<>> /\ bus' = Tail(bus) /\ bus' \in Seq(Announcement)
<1>1. bus \in Seq(Announcement) /\ bus # <<>> /\ bus' = Tail(bus) /\ Head(bus).op = op
  BY DEF Apply, TypeOK
<1>2. Head(bus) \in Announcement /\ Tail(bus) \in Seq(Announcement)
  BY <1>1, TailPlaces
<1> QED BY <1>1, <1>2, Kinds

LEMMA PendingIsNat ==
    ASSUME TypeOK
    PROVE  \A d \in Devices : Pending(d) \in Nat
BY PlacesAreFinite DEF TypeOK, Pending

\* The counters of LinkInv are numbers, whose order the arithmetic below needs.
LEMMA LinkCounts ==
    ASSUME TypeOK, LinkInv, NEW d \in Devices
    PROVE  /\ MaxLinkUps \in Nat /\ Pending(d) \in Nat
           /\ served[d] \in 0..MaxLinkUps /\ connectCalls[d] \in 0..MaxLinkUps
           /\ ups[d] \in 0..MaxLinkUps
           /\ served[d] <= connectCalls[d] + Pending(d)
           /\ connectCalls[d] + Pending(d) <= ups[d]
           /\ d \notin onConnected => served[d] = 0
<1>1. MaxLinkUps \in Nat /\ Pending(d) \in Nat
  BY Bounds, PendingIsNat
<1>2. served \in [Devices -> 0..MaxLinkUps] /\ connectCalls \in [Devices -> 0..MaxLinkUps]
  BY DEF TypeOK
<1>3. ups \in [Devices -> 0..MaxLinkUps]
  BY DEF TypeOK
<1> QED BY <1>1, <1>2, <1>3 DEF LinkInv

LEMMA TypeInit == Init => TypeOK /\ StepInv
<1> SUFFICES ASSUME Init PROVE TypeOK /\ StepInv
  OBVIOUS
<1>1. bus \in Seq(Announcement) /\ delivered \in [Devices -> Seq([sink : Sinks, val : 1..MaxValues])]
  BY DEF Init
<1>2. ups \in [Devices -> 0..MaxLinkUps]
  BY BoundsAssumption DEF Init
<1> QED BY <1>1, <1>2, Bounds DEF Init, TypeOK, StepInv, NoneYet, NoSink

LEMMA LinkUpType ==
    ASSUME TypeOK, StepInv, LinkInv, NEW d \in Devices, LinkUp(d)
    PROVE  TypeOK' /\ StepInv'
<1>1. bus' \in Seq(Announcement)
  BY IsAnnouncement, AppendPlaces DEF LinkUp, TypeOK
<1>2. ups' \in [Devices -> 0..MaxLinkUps]
  BY Bounds DEF LinkUp, TypeOK, Bump
<1>3. served' \in [Devices -> 0..MaxLinkUps]
  <2>1. ups[d] < MaxLinkUps
    BY DEF LinkUp
  <2>2. served[d] + 1 \in 0..MaxLinkUps
    BY <2>1, LinkCounts
  <2> QED BY <2>2 DEF LinkUp, TypeOK, Bump
<1> QED BY <1>1, <1>2, <1>3 DEF LinkUp, TypeOK, StepInv, hookVars, userVars

LEMMA AnnounceType ==
    ASSUME TypeOK, NEW d \in Devices, AnnounceValue(d)
    PROVE  /\ bus' \in Seq(Announcement) /\ values' \in [Devices -> 0..MaxValues]
           /\ values[d] + 1 \in 1..MaxValues
<1>1. values[d] \in 0..MaxValues /\ values[d] < MaxValues /\ MaxValues \in Nat
  BY Bounds DEF TypeOK, AnnounceValue
<1>2. values[d] + 1 \in 1..MaxValues
  BY <1>1
<1>3. bus' \in Seq(Announcement)
  BY <1>2, IsAnnouncement, AppendPlaces DEF AnnounceValue, TypeOK
<1> QED BY <1>2, <1>3 DEF AnnounceValue, TypeOK, Bump

LEMMA BlueZType == TypeOK /\ StepInv /\ LinkInv /\ BlueZ => TypeOK' /\ StepInv'
<1> SUFFICES ASSUME TypeOK, StepInv, LinkInv, NEW d \in Devices,
                    LinkUp(d) \/ Resolve(d) \/ LinkDown(d) \/ Notification(d)
             PROVE  TypeOK' /\ StepInv'
  BY DEF BlueZ
<1>1. CASE LinkUp(d)
  BY <1>1, LinkUpType
<1>2. CASE Resolve(d)
  <2>1. bus' \in Seq(Announcement)
    BY <1>2, IsAnnouncement, AppendPlaces DEF Resolve, TypeOK
  <2> QED BY <1>2, <2>1 DEF Resolve, TypeOK, StepInv, hookVars, userVars, history, counts
<1>3. CASE LinkDown(d)
  <2>1. bus' \in Seq(Announcement)
    <3>1. [op |-> "connected", dev |-> d, val |-> FALSE] \in Announcement
      BY IsAnnouncement
    <3> QED BY <1>3, <3>1, AppendPlaces DEF LinkDown, TypeOK
  <2>2. gatt' \subseteq Devices /\ link' \subseteq Devices /\ notifying' \subseteq Devices
    BY <1>3 DEF LinkDown, TypeOK
  <2>3. ended' \subseteq Devices /\ attempt' \in {"none", "linked", "ok"}
    BY <1>3 DEF LinkDown, TypeOK
  <2> QED BY <1>3, <2>1, <2>2, <2>3 DEF LinkDown, TypeOK, StepInv, hookVars, userVars
<1>4. CASE Notification(d)
  <2>1. bus' \in Seq(Announcement) /\ values' \in [Devices -> 0..MaxValues]
    BY <1>4, AnnounceType DEF Notification
  <2> QED BY <1>4, <2>1 DEF Notification, TypeOK, StepInv, hookVars, userVars, history, counts
<1> QED BY <1>1, <1>2, <1>3, <1>4

LEMMA ApplicationType == TypeOK /\ StepInv /\ Application => TypeOK' /\ StepInv'
<1> SUFFICES ASSUME TypeOK, StepInv, Application PROVE TypeOK' /\ StepInv'
  OBVIOUS
<1> USE DEF bluezVars, hookVars, history, counts, Unmoved
<1>1. ASSUME NEW d \in Devices \cup {None}, Connect(d)
      PROVE  TypeOK' /\ StepInv'
  BY <1>1 DEF Connect, TypeOK, StepInv
<1>2. ASSUME NEW where \in {"reading", "writing"}, Begin(where)
      PROVE  TypeOK' /\ StepInv'
  BY <1>2, NoneAssumption DEF Begin, TypeOK, StepInv
<1>3. CASE Notify
  BY <1>3, NoneAssumption DEF Notify, Begin, TypeOK, StepInv
<1>4. CASE Disconnect
  BY <1>4 DEF Disconnect, TypeOK, StepInv
<1> QED BY <1>1, <1>2, <1>3, <1>4 DEF Application, Read, Write

LEMMA ContinueType == TypeOK /\ StepInv /\ Continue => TypeOK' /\ StepInv'
<1> SUFFICES ASSUME TypeOK, StepInv, Continue PROVE TypeOK' /\ StepInv'
  OBVIOUS
<1> USE DEF bluezVars, hookVars, history, counts, Unmoved
<1>1. CASE InstallConnected
  BY <1>1 DEF InstallConnected, TypeOK, StepInv
<1>2. CASE InstallSink
  <2>1. asked' \in Sinks /\ asked' \in 0..MaxSinks /\ device \in Devices
    BY <1>2, Bounds DEF InstallSink, TypeOK, StepInv, Sinks
  <2> QED BY <1>2, <2>1 DEF InstallSink, TypeOK, StepInv
<1>3. CASE FreeBuffer \/ ReadDone \/ WriteReturns
  BY <1>3 DEF FreeBuffer, ReadDone, WriteReturns, TypeOK, StepInv
<1>4. ASSUME NEW ok \in BOOLEAN, ConnectReturns(ok) \/ DisconnectReturns(ok)
      PROVE  TypeOK' /\ StepInv'
  BY <1>4 DEF ConnectReturns, DisconnectReturns, TypeOK, StepInv
<1>5. CASE StartNotify
  <2>1. device \in Devices /\ asked \in Sinks
    BY <1>5 DEF StartNotify, TypeOK, StepInv
  <2>2. values[device] + 1 \in 1..(MaxValues + 1)
    BY <2>1, Bounds DEF TypeOK
  <2>3. accepted' \subseteq [dev : Devices, sink : Sinks, from : 1..(MaxValues + 1)]
    BY <1>5, <2>1, <2>2 DEF StartNotify, TypeOK
  <2>4. notifying' \subseteq Devices
    BY <1>5, <2>1 DEF StartNotify, TypeOK
  <2> QED BY <1>5, <2>3, <2>4 DEF StartNotify, TypeOK, StepInv
<1>6. ASSUME NEW ok \in BOOLEAN, ReadReturns(ok)
      PROVE  TypeOK' /\ StepInv'
  <2>1. device \in Devices
    BY <1>6 DEF ReadReturns, TypeOK
  <2>2. bus' \in Seq(Announcement) /\ values' \in [Devices -> 0..MaxValues]
    BY <1>6, <2>1, AnnounceType DEF ReadReturns, TypeOK
  <2> QED BY <1>6, <2>2 DEF ReadReturns, TypeOK, StepInv
<1>7. CASE NotifyReturns
  BY <1>7 DEF NotifyReturns, Unmoved, TypeOK, StepInv
<1> QED BY <1>1, <1>2, <1>3, <1>4, <1>5, <1>6, <1>7 DEF Continue

LEMMA AsyncType == TypeOK /\ StepInv /\ LinkInv /\ RunAsync => TypeOK' /\ StepInv'
<1> SUFFICES ASSUME TypeOK, StepInv, LinkInv, RunAsync PROVE TypeOK' /\ StepInv'
  OBVIOUS
<1> USE DEF bluezVars, hookVars, userVars
<1> DEFINE d == Head(bus).dev
<1>1. CASE ApplyConnected
  <2>1. /\ Head(bus) \in Announcement /\ d \in Devices /\ Head(bus).op = "connected"
        /\ bus # <<>> /\ bus' \in Seq(Announcement)
    BY <1>1, ApplyTakes DEF ApplyConnected
  <2>2. CASE Head(bus).val /\ d \in onConnected
    <3>1. Head(bus) = UpOf(d)
      BY <2>1, <2>2, Kinds DEF UpOf
    <3>2. Pending(d) = Count(Tail(bus), {UpOf(d)}) + 1 /\ Count(Tail(bus), {UpOf(d)}) \in Nat
      <4>1. bus \in Seq(Announcement) /\ Tail(bus) \in Seq(Announcement)
        BY <2>1, TailPlaces DEF TypeOK
      <4>2. Count(Tail(bus), {UpOf(d)}) \in Nat
        BY <4>1, PlacesAreFinite
      <4>3. Head(bus) \in {UpOf(d)}
        BY <3>1
      <4> QED BY <2>1, <4>1, <4>2, <4>3, CountTail DEF Pending
    <3>3. connectCalls[d] + 1 \in 0..MaxLinkUps
      BY <2>1, <3>2, LinkCounts
    <3>4. connectCalls' \in [Devices -> 0..MaxLinkUps]
      BY <1>1, <2>2, <3>3 DEF ApplyConnected, TypeOK, Bump
    <3> QED BY <1>1, <2>1, <3>4 DEF ApplyConnected, Apply, onDisconnected, TypeOK, StepInv
  <2>3. CASE ~(Head(bus).val /\ d \in onConnected)
    BY <1>1, <2>1, <2>3 DEF ApplyConnected, Apply, onDisconnected, TypeOK, StepInv
  <2> QED BY <2>2, <2>3
<1>2. CASE ApplyServices
  <2>1. d \in Devices /\ bus' \in Seq(Announcement)
    BY <1>2, ApplyTakes DEF ApplyServices
  <2> QED BY <1>2, <2>1 DEF ApplyServices, Apply, TypeOK, StepInv
<1>3. CASE ApplyValue
  <2>1. d \in Devices /\ bus' \in Seq(Announcement) /\ Head(bus).val \in 1..MaxValues
    BY <1>3, ApplyTakes, Kinds DEF ApplyValue
  <2>2. delivered' \in [Devices -> Seq([sink : Sinks, val : 1..MaxValues])]
    <3>1. sink[d] # NoSink => [sink |-> sink[d], val |-> Head(bus).val] \in [sink : Sinks, val : 1..MaxValues]
      BY <2>1 DEF TypeOK
    <3>2. delivered[d] \in Seq([sink : Sinks, val : 1..MaxValues])
      BY <2>1 DEF TypeOK
    <3>3. delivered' = IF sink[d] # NoSink
                       THEN [delivered EXCEPT ![d] = Append(@, [sink |-> sink[d], val |-> Head(bus).val])]
                       ELSE delivered
      BY <1>3 DEF ApplyValue
    <3>4. PICK item : item = [sink |-> sink[d], val |-> Head(bus).val]
      OBVIOUS
    <3>5. sink[d] # NoSink => Append(delivered[d], item) \in Seq([sink : Sinks, val : 1..MaxValues])
      BY <3>1, <3>2, <3>4, AppendPlaces, Zenon
    <3> QED BY <2>1, <3>3, <3>4, <3>5 DEF TypeOK
  <2> QED BY <1>3, <2>1, <2>2 DEF ApplyValue, Apply, TypeOK, StepInv
<1> QED BY <1>1, <1>2, <1>3 DEF RunAsync

LEMMA TypeNext == TypeOK /\ StepInv /\ LinkInv /\ [Next]_vars => TypeOK' /\ StepInv'
<1>1. TypeOK /\ StepInv /\ UNCHANGED vars => TypeOK' /\ StepInv'
  BY DEF vars, bluezVars, hookVars, userVars, history, counts, TypeOK, StepInv
<1> QED BY <1>1, BlueZType, ApplicationType, ContinueType, AsyncType DEF Next

-------------------------------------------------------------------------------
(* Links and their announcements.                                            *)

LEMMA LinkInit == Init => LinkInv
<1> SUFFICES ASSUME Init PROVE LinkInv
  OBVIOUS
<1>1. \A d \in Devices : Pending(d) = 0
  <2> SUFFICES ASSUME NEW d \in Devices PROVE Pending(d) = 0
    OBVIOUS
  <2>1. bus \in Seq(Announcement) /\ DOMAIN bus = {}
    BY DEF Init
  <2> QED BY <2>1, PlacesAreFinite DEF Pending
<1>2. \A d \in Devices : served[d] = 0 /\ connectCalls[d] = 0 /\ ups[d] \in {0, 1}
  BY DEF Init, NoneYet
<1> QED BY <1>1, <1>2 DEF Init, LinkInv

\* What an announcement that BlueZ adds does to the announcements of links.
LEMMA PendingAppend ==
    ASSUME TypeOK, NEW m \in Announcement, bus' = Append(bus, m), NEW d \in Devices
    PROVE  Pending(d)' = IF m = UpOf(d) THEN Pending(d) + 1 ELSE Pending(d)
<1>1. bus \in Seq(Announcement)
  BY DEF TypeOK
<1>2. UpOf(d)' = UpOf(d)
  BY DEF UpOf
<1>3. m \in {UpOf(d)} <=> m = UpOf(d)
  OBVIOUS
<1> QED BY <1>1, <1>2, <1>3, CountAppend DEF Pending

\* An announcement of anything but a link that came up.
LEMMA OtherAppend ==
    ASSUME TypeOK, LinkInv, NEW m \in Announcement, bus' = Append(bus, m),
           m.op = "connected" => m.val = FALSE,
           pc' = "connecting" => pc = "connecting",
           UNCHANGED <<device, onConnected, served, connectCalls, ups>>
    PROVE  LinkInv'
<1>1. \A d \in Devices : m # UpOf(d)
  BY DEF UpOf
<1>2. \A d \in Devices : Pending(d)' = Pending(d)
  BY <1>1, PendingAppend
<1> QED BY <1>2 DEF LinkInv

LEMMA BlueZLink == TypeOK /\ LinkInv /\ BlueZ => LinkInv'
<1> SUFFICES ASSUME TypeOK, LinkInv, NEW d \in Devices,
                    LinkUp(d) \/ Resolve(d) \/ LinkDown(d) \/ Notification(d)
             PROVE  LinkInv'
  BY DEF BlueZ
<1> USE DEF hookVars, userVars, history, counts
<1>1. CASE LinkUp(d)
  <2>1. UpOf(d) \in Announcement /\ bus' = Append(bus, UpOf(d))
    BY <1>1, IsAnnouncement DEF LinkUp, UpOf
  <2>2. \A e \in Devices : Pending(e)' = IF e = d THEN Pending(e) + 1 ELSE Pending(e)
    BY <2>1, PendingAppend DEF UpOf
  <2>3. ups' = [ups EXCEPT ![d] = @ + 1] /\ connectCalls' = connectCalls
    BY <1>1 DEF LinkUp, Bump
  <2>4. ups'[d] = ups[d] + 1 /\ \A e \in Devices \ {d} : ups'[e] = ups[e]
    BY <2>3 DEF TypeOK
  <2>5. /\ \A e \in Devices \ {d} : served'[e] = served[e]
        /\ served'[d] = served[d] \/ (d \in onConnected /\ served'[d] = served[d] + 1)
    BY <1>1 DEF LinkUp, Bump, TypeOK, LinkInv
  <2>6. UNCHANGED <<pc, device, onConnected>>
    BY <1>1 DEF LinkUp
  <2> SUFFICES ASSUME NEW e \in Devices
               PROVE  /\ e \notin onConnected => served'[e] = 0
                      /\ served'[e] <= connectCalls[e] + Pending(e)'
                      /\ connectCalls[e] + Pending(e)' <= ups'[e]
    BY <2>3, <2>6 DEF LinkInv
  <2> QED BY <2>2, <2>4, <2>5, LinkCounts
<1>2. CASE Resolve(d)
  BY <1>2, IsAnnouncement, OtherAppend DEF Resolve
<1>3. CASE LinkDown(d)
  <2>1. [op |-> "connected", dev |-> d, val |-> FALSE] \in Announcement
    BY IsAnnouncement
  <2> QED BY <1>3, <2>1, OtherAppend DEF LinkDown
<1>4. CASE Notification(d)
  BY <1>4, AnnounceType, IsAnnouncement, OtherAppend DEF Notification, AnnounceValue
<1> QED BY <1>1, <1>2, <1>3, <1>4

LEMMA UserLink == TypeOK /\ LinkInv /\ (Application \/ Continue) => LinkInv'
<1> SUFFICES ASSUME TypeOK, LinkInv, Application \/ Continue PROVE LinkInv'
  OBVIOUS
<1> USE DEF bluezVars, hookVars, userVars, history, counts, Unmoved
<1>1. ASSUME UNCHANGED <<bus, served, connectCalls, ups>>, onConnected \subseteq onConnected',
             pc' = "connecting" => device' \in onConnected'
      PROVE  LinkInv'
  BY <1>1 DEF LinkInv, Pending, UpOf
<1>2. CASE Application
  BY <1>1, <1>2 DEF Application, Connect, Notify, Read, Write, Begin, Disconnect
<1>3. CASE InstallConnected
  BY <1>1, <1>3 DEF InstallConnected
<1>4. CASE InstallSink \/ FreeBuffer \/ ReadDone \/ WriteReturns
  BY <1>1, <1>4 DEF InstallSink, FreeBuffer, ReadDone, WriteReturns
<1>5. ASSUME NEW ok \in BOOLEAN, ConnectReturns(ok) \/ DisconnectReturns(ok)
      PROVE  LinkInv'
  BY <1>1, <1>5 DEF ConnectReturns, DisconnectReturns
<1>6. ASSUME NEW ok \in BOOLEAN, ReadReturns(ok)
      PROVE  LinkInv'
  <2>1. device \in Devices
    BY <1>6 DEF ReadReturns, TypeOK
  <2>2. CASE AnnounceValue(device)
    BY <1>6, <2>1, <2>2, AnnounceType, IsAnnouncement, OtherAppend DEF ReadReturns, AnnounceValue
  <2>3. CASE UNCHANGED <<values, bus>>
    <3>1. pc' # "connecting" /\ UNCHANGED <<ups, onConnected, served, connectCalls>>
      BY <1>6 DEF ReadReturns
    <3> QED BY <1>1, <2>3, <3>1
  <2> QED BY <1>6, <2>2, <2>3 DEF ReadReturns
<1>7. CASE StartNotify \/ NotifyReturns
  BY <1>1, <1>7 DEF StartNotify, NotifyReturns
<1> QED BY <1>2, <1>3, <1>4, <1>5, <1>6, <1>7 DEF Continue

LEMMA AsyncLink == TypeOK /\ LinkInv /\ RunAsync => LinkInv'
<1> SUFFICES ASSUME TypeOK, LinkInv, RunAsync PROVE LinkInv'
  OBVIOUS
<1> DEFINE m == Head(bus)
<1>1. PICK op : Apply(op)
  BY DEF RunAsync, ApplyConnected, ApplyServices, ApplyValue
<1>2. /\ m \in Announcement /\ m.dev \in Devices /\ bus # <<>> /\ bus' = Tail(bus)
      /\ UNCHANGED <<pc, device, onConnected, served, ups>>
  BY <1>1, ApplyTakes DEF Apply, bluezVars, hookVars, userVars
<1>3. ASSUME NEW d \in Devices
      PROVE  /\ Pending(d) = IF m = UpOf(d) THEN Pending(d)' + 1 ELSE Pending(d)'
             /\ Pending(d)' \in Nat
  <2>1. bus \in Seq(Announcement) /\ bus' \in Seq(Announcement)
    BY <1>1, ApplyTakes DEF TypeOK
  <2>2. Pending(d)' = Count(Tail(bus), {UpOf(d)})
    BY <1>2 DEF Pending, UpOf
  <2>3. m \in {UpOf(d)} <=> m = UpOf(d)
    OBVIOUS
  <2>4. Count(Tail(bus), {UpOf(d)}) \in Nat
    BY <1>2, <2>1, PlacesAreFinite
  <2> QED BY <1>2, <2>1, <2>2, <2>3, <2>4, CountTail DEF Pending
<1>4. \A d \in Devices :
         connectCalls'[d] = IF m = UpOf(d) /\ d \in onConnected THEN connectCalls[d] + 1
                            ELSE connectCalls[d]
  <2>1. CASE ApplyConnected
    <3>1. m = [op |-> "connected", dev |-> m.dev, val |-> m.val] /\ m.val \in BOOLEAN
      BY <1>2, <2>1, Kinds DEF ApplyConnected, Apply
    <3>2. \A d \in Devices : m = UpOf(d) <=> d = m.dev /\ m.val
      BY <3>1 DEF UpOf
    <3>3. connectCalls \in [Devices -> 0..MaxLinkUps]
      BY DEF TypeOK
    <3> QED BY <1>2, <2>1, <3>2, <3>3 DEF ApplyConnected, Bump
  <2>2. CASE ApplyServices \/ ApplyValue
    <3>1. m.op # "connected" /\ connectCalls' = connectCalls
      BY <2>2 DEF ApplyServices, ApplyValue, Apply
    <3> QED BY <3>1 DEF UpOf
  <2> QED BY <2>1, <2>2 DEF RunAsync
<1> HIDE DEF m
<1> SUFFICES ASSUME NEW d \in Devices
             PROVE  /\ served[d] <= connectCalls'[d] + Pending(d)'
                    /\ connectCalls'[d] + Pending(d)' <= ups[d]
  BY <1>2 DEF LinkInv
<1> QED BY <1>3, <1>4, LinkCounts

LEMMA LinkNext == TypeOK /\ LinkInv /\ [Next]_vars => LinkInv'
<1>1. LinkInv /\ UNCHANGED vars => LinkInv'
  BY DEF vars, bluezVars, hookVars, userVars, history, counts, LinkInv, Pending, UpOf
<1> QED BY <1>1, BlueZLink, UserLink, AsyncLink DEF Next

-------------------------------------------------------------------------------
(* Values and their callbacks.                                               *)

ValueMsg(d, v) == [op |-> "value", dev |-> d, val |-> v]
Waits(d, v) == \E i \in DOMAIN bus : bus[i] = ValueMsg(d, v)
Given(a, v) ==
    \E i \in DOMAIN delivered[a.dev] :
        delivered[a.dev][i].val = v /\ delivered[a.dev][i].sink >= a.sink
NothingLost == \A a \in accepted : \A v \in a.from..values[a.dev] : Waits(a.dev, v) \/ Given(a, v)
InOrder ==
    \A d \in Devices : \A i, j \in DOMAIN delivered[d] :
        i < j => /\ delivered[d][i].val < delivered[d][j].val
                 /\ delivered[d][i].sink <= delivered[d][j].sink

LEMMA GaplessParts == NotifyIsGapless <=> NothingLost /\ InOrder
BY DEF NotifyIsGapless, NothingLost, InOrder, Waits, Given, ValueMsg

\* What is used of the types of the entries.
LEMMA EntryTypes ==
    ASSUME TypeOK
    PROVE  /\ \A d \in Devices : values[d] \in Nat /\ sink[d] \in Nat
           /\ \A a \in accepted : a.dev \in Devices /\ a.sink \in Nat \ {0} /\ a.from \in Nat
           /\ \A i \in DOMAIN bus : bus[i] \in Announcement
           /\ \A d \in Devices : \A k \in DOMAIN delivered[d] :
                 delivered[d][k].val \in Nat /\ delivered[d][k].sink \in Nat
           /\ asked \in Nat
<1>1. \A d \in Devices : delivered[d] \in Seq([sink : Sinks, val : 1..MaxValues])
  BY DEF TypeOK
<1>2. \A d \in Devices : \A k \in DOMAIN delivered[d] : delivered[d][k] \in [sink : Sinks, val : 1..MaxValues]
  BY <1>1, ElementsOfSeq
<1>3. \A d \in Devices : \A k \in DOMAIN delivered[d] :
         delivered[d][k].val \in Nat /\ delivered[d][k].sink \in Nat
  BY <1>2, Bounds DEF Sinks
<1>4. \A i \in DOMAIN bus : bus[i] \in Announcement
  BY DEF TypeOK
<1>5. \A a \in accepted : a.dev \in Devices /\ a.sink \in Nat \ {0} /\ a.from \in Nat
  <2>1. accepted \subseteq [dev : Devices, sink : Sinks, from : 1..(MaxValues + 1)]
    BY DEF TypeOK
  <2>2. Sinks \subseteq Nat \ {0} /\ 1..(MaxValues + 1) \subseteq Nat
    BY Bounds DEF NoSink
  <2> QED BY <2>1, <2>2
<1>6. \A d \in Devices : values[d] \in 0..MaxValues /\ sink[d] \in Sinks \cup {NoSink}
  BY DEF TypeOK
<1>7. asked \in Nat
  BY DEF TypeOK
<1>8. \A d \in Devices : values[d] \in Nat /\ sink[d] \in Nat
  BY <1>6, Bounds
<1> QED BY <1>3, <1>4, <1>5, <1>7, <1>8

LEMMA ValueInit == Init => SinkInv /\ ValueInv /\ NotifyIsGapless
BY DEF Init, SinkInv, ValueInv, NotifyIsGapless, NoSink

\* Every callback in a slot was installed by a call made so far.
LEMMA SinkNext == TypeOK /\ StepInv /\ SinkInv /\ [Next]_vars => SinkInv'
<1> SUFFICES ASSUME TypeOK, StepInv, SinkInv, [Next]_vars PROVE SinkInv'
  OBVIOUS
<1> USE DEF bluezVars, hookVars, userVars, history, counts, Unmoved
<1>1. CASE UNCHANGED <<sink, asked, accepted>>
  BY <1>1 DEF SinkInv
<1>2. CASE InstallSink
  <2>1. asked \in Nat /\ asked' = asked + 1 /\ sink' = [sink EXCEPT ![device] = asked + 1]
    BY <1>2, EntryTypes DEF InstallSink
  <2>2. \A d \in Devices : sink[d] \in Nat /\ sink[d] <= asked
    BY EntryTypes DEF SinkInv
  <2>3. \A d \in Devices : sink'[d] = sink[d] \/ sink'[d] = asked + 1
    BY <2>1 DEF TypeOK
  <2>4. \A d \in Devices : sink[d] <= sink'[d] /\ sink'[d] <= asked'
    BY <2>1, <2>2, <2>3
  <2>5. \A a \in accepted : a.sink <= sink'[a.dev]
    <3> SUFFICES ASSUME NEW a \in accepted PROVE a.sink <= sink'[a.dev]
      OBVIOUS
    <3>1. a.dev \in Devices /\ a.sink \in Nat /\ a.sink <= sink[a.dev]
      BY EntryTypes DEF SinkInv
    <3>2. sink'[a.dev] \in Nat
      BY <2>1, <2>2, <2>3, <3>1
    <3> QED BY <2>2, <2>4, <3>1, <3>2
  <2>6. accepted' = accepted
    BY <1>2 DEF InstallSink
  <2> QED BY <2>4, <2>5, <2>6 DEF SinkInv
<1>3. CASE StartNotify
  <2>1. sink[device] = asked /\ asked \in Nat
    BY <1>3, EntryTypes DEF StartNotify, StepInv
  <2>2. UNCHANGED <<sink, asked, device>>
    BY <1>3 DEF StartNotify
  <2>3. \A a \in accepted' : a \in accepted \/ (a.dev = device /\ a.sink = asked)
    BY <1>3 DEF StartNotify
  <2> QED BY <2>1, <2>2, <2>3 DEF SinkInv
<1>4. CASE UNCHANGED vars
  BY <1>1, <1>4 DEF vars
<1>5. CASE BlueZ
  BY <1>1, <1>5 DEF BlueZ, LinkUp, Resolve, LinkDown, Notification
<1>6. CASE Application
  BY <1>1, <1>6 DEF Application, Connect, Notify, Read, Write, Begin, Disconnect
<1>7. CASE InstallConnected \/ FreeBuffer \/ ReadDone \/ WriteReturns \/ NotifyReturns
  BY <1>1, <1>7 DEF InstallConnected, FreeBuffer, ReadDone, WriteReturns, NotifyReturns
<1>8. ASSUME NEW ok \in BOOLEAN, ConnectReturns(ok) \/ ReadReturns(ok) \/ DisconnectReturns(ok)
      PROVE  SinkInv'
  BY <1>1, <1>8 DEF ConnectReturns, ReadReturns, DisconnectReturns
<1>9. CASE RunAsync
  BY <1>1, <1>9 DEF RunAsync, ApplyConnected, ApplyServices, ApplyValue, Apply
<1> QED BY <1>2, <1>3, <1>4, <1>5, <1>6, <1>7, <1>8, <1>9 DEF Next, Continue

\* A step that leaves the queue alone; a new request covers values yet to come only.
LEMMA QueueRests ==
    ASSUME TypeOK, ValueInv, NotifyIsGapless, UNCHANGED <<bus, values, delivered>>,
           \A d \in Devices : sink'[d] \in Nat /\ sink[d] <= sink'[d],
           \A a \in accepted' :
               a \in accepted \/ (a.from \in Nat /\ values[a.dev] \in Nat /\ values[a.dev] < a.from)
    PROVE  ValueInv' /\ NotifyIsGapless'
<1>1. ValueInv'
  <2>1. \A d \in Devices : \A k \in DOMAIN delivered[d] : delivered[d][k].sink <= sink'[d]
    <3> SUFFICES ASSUME NEW d \in Devices, NEW k \in DOMAIN delivered[d]
                 PROVE  delivered[d][k].sink <= sink'[d]
      OBVIOUS
    <3>1. delivered[d][k].sink \in Nat /\ sink[d] \in Nat /\ delivered[d][k].sink <= sink[d]
      BY EntryTypes DEF ValueInv
    <3> QED BY <3>1
  <2> QED BY <2>1 DEF ValueInv, ValueAt
<1>2. NothingLost'
  <2> SUFFICES ASSUME NEW a \in accepted', NEW v \in a.from..values[a.dev]
               PROVE  Waits(a.dev, v)' \/ Given(a, v)'
    BY DEF NothingLost
  <2>1. a \in accepted
    OBVIOUS
  <2>2. Waits(a.dev, v) \/ Given(a, v)
    BY <2>1, GaplessParts DEF NothingLost
  <2> QED BY <2>2 DEF Waits, Given, ValueMsg
<1>3. InOrder'
  BY GaplessParts DEF InOrder
<1> QED BY <1>1, <1>2, <1>3 DEF NotifyIsGapless, NothingLost, InOrder, Waits, Given, ValueMsg

\* BlueZ announces something else than a value.
LEMMA OtherAnnounced ==
    ASSUME TypeOK, ValueInv, NotifyIsGapless, NEW m \in Announcement, m.op # "value",
           bus' = Append(bus, m), UNCHANGED <<values, delivered, sink, accepted>>
    PROVE  ValueInv' /\ NotifyIsGapless'
<1>1. /\ DOMAIN bus' = DOMAIN bus \cup {Len(bus) + 1}
      /\ \A i \in DOMAIN bus : bus'[i] = bus[i]
      /\ bus'[Len(bus) + 1] = m
  BY AppendPlaces DEF TypeOK
<1>2. \A d \in Devices : \A i \in DOMAIN bus' :
         ValueAt(i, d)' => i \in DOMAIN bus /\ ValueAt(i, d) /\ bus'[i] = bus[i]
  BY <1>1 DEF ValueAt
<1>3. ValueInv'
  BY <1>2 DEF ValueInv
<1>4. \A d, v : Waits(d, v) => Waits(d, v)'
  BY <1>1 DEF Waits, ValueMsg
<1>5. NothingLost'
  BY <1>4, GaplessParts DEF NothingLost, Given
<1>6. InOrder'
  BY GaplessParts DEF InOrder
<1> QED BY <1>3, <1>5, <1>6 DEF NotifyIsGapless, NothingLost, InOrder, Waits, Given, ValueMsg

\* BlueZ announces the next value of a characteristic.
LEMMA ValueAnnounced ==
    ASSUME TypeOK, ValueInv, NotifyIsGapless, NEW d \in Devices, AnnounceValue(d),
           UNCHANGED <<delivered, sink, accepted>>
    PROVE  ValueInv' /\ NotifyIsGapless'
<1>n. PICK n : n = Len(bus) + 1
  OBVIOUS
<1>1. /\ bus' = Append(bus, ValueMsg(d, values[d] + 1)) /\ values' = [values EXCEPT ![d] = @ + 1]
      /\ ValueMsg(d, values[d] + 1) \in Announcement
  BY AnnounceType, IsAnnouncement DEF AnnounceValue, Bump, ValueMsg
<1>2. /\ DOMAIN bus' = DOMAIN bus \cup {n} /\ n \notin DOMAIN bus
      /\ \A i \in DOMAIN bus : bus'[i] = bus[i] /\ i < n
      /\ bus'[n] = ValueMsg(d, values[d] + 1)
  <2>1. PICK x \in Announcement : x = ValueMsg(d, values[d] + 1)
    BY <1>1
  <2>2. bus \in Seq(Announcement) /\ bus' = Append(bus, x)
    BY <1>1, <2>1 DEF TypeOK
  <2>3. /\ DOMAIN Append(bus, x) = DOMAIN bus \cup {n} /\ n \notin DOMAIN bus
        /\ \A i \in DOMAIN bus : Append(bus, x)[i] = bus[i] /\ i < n
        /\ Append(bus, x)[n] = x
    BY <1>n, <2>2, AppendPlaces
  <2> QED BY <2>1, <2>2, <2>3
<1>3. DOMAIN bus \subseteq Nat /\ n \in Nat
  <2>1. bus \in Seq(Announcement)
    BY DEF TypeOK
  <2> QED BY <1>n, <2>1
<1>4. \A e \in Devices : values[e] \in Nat /\ values'[e] = IF e = d THEN values[e] + 1 ELSE values[e]
  BY <1>1, EntryTypes DEF TypeOK
<1>5. \A i \in DOMAIN bus : \A e \in Devices :
         /\ ValueAt(i, e)' <=> ValueAt(i, e)
         /\ ValueAt(i, e) => bus[i].val \in Nat /\ bus[i].val <= values[e]
  BY <1>2, EntryTypes, Kinds DEF ValueAt, ValueInv
<1>6. \A e \in Devices : ValueAt(n, e)' <=> e = d
  BY <1>2 DEF ValueAt, ValueMsg
<1>7. bus'[n].val = values[d] + 1
  BY <1>2 DEF ValueMsg
<1>8. ValueInv'
  <2> SUFFICES ASSUME NEW e \in Devices
               PROVE  /\ \A i \in DOMAIN bus' : ValueAt(i, e)' => bus'[i].val <= values'[e]
                      /\ \A i, j \in DOMAIN bus' :
                            i < j /\ ValueAt(i, e)' /\ ValueAt(j, e)' => bus'[i].val < bus'[j].val
                      /\ \A k \in DOMAIN delivered[e] :
                            /\ delivered[e][k].val <= values'[e] /\ delivered[e][k].sink <= sink[e]
                            /\ \A i \in DOMAIN bus' :
                                  ValueAt(i, e)' => delivered[e][k].val < bus'[i].val
    BY DEF ValueInv
  <2>1. \A i \in DOMAIN bus' : ValueAt(i, e)' => bus'[i].val <= values'[e]
    BY <1>2, <1>4, <1>5, <1>6, <1>7
  <2>2. ASSUME NEW i \in DOMAIN bus', NEW j \in DOMAIN bus', i < j, ValueAt(i, e)', ValueAt(j, e)'
        PROVE  bus'[i].val < bus'[j].val
    <3>1. i \in DOMAIN bus
      BY <1>2, <1>3, <2>2
    <3>2. CASE j \in DOMAIN bus
      BY <1>2, <1>5, <2>2, <3>1, <3>2 DEF ValueInv
    <3>3. CASE j = n
      BY <1>2, <1>4, <1>5, <1>6, <1>7, <2>2, <3>1, <3>3
    <3> QED BY <1>2, <3>2, <3>3
  <2>3. ASSUME NEW k \in DOMAIN delivered[e]
        PROVE  /\ delivered[e][k].val <= values'[e] /\ delivered[e][k].sink <= sink[e]
               /\ \A i \in DOMAIN bus' : ValueAt(i, e)' => delivered[e][k].val < bus'[i].val
    <3>1. /\ delivered[e][k].val \in Nat /\ delivered[e][k].val <= values[e]
          /\ delivered[e][k].sink <= sink[e]
          /\ \A i \in DOMAIN bus : ValueAt(i, e) => delivered[e][k].val < bus[i].val
      BY EntryTypes DEF ValueInv
    <3> QED BY <1>2, <1>4, <1>5, <1>6, <1>7, <3>1
  <2> QED BY <2>1, <2>2, <2>3
<1>9. NothingLost'
  <2> SUFFICES ASSUME NEW a \in accepted, NEW v \in a.from..values'[a.dev]
               PROVE  Waits(a.dev, v)' \/ Given(a, v)'
    BY DEF NothingLost
  <2>1. a.dev \in Devices /\ a.from \in Nat
    BY EntryTypes
  <2>2. CASE a.dev = d /\ v = values[d] + 1
    BY <1>2, <2>2 DEF Waits
  <2>3. CASE ~(a.dev = d /\ v = values[d] + 1)
    <3>1. v \in a.from..values[a.dev]
      BY <1>4, <2>1, <2>3
    <3>2. Waits(a.dev, v) \/ Given(a, v)
      BY <3>1, GaplessParts DEF NothingLost
    <3> QED BY <1>2, <3>2 DEF Waits, Given, ValueMsg
  <2> QED BY <2>2, <2>3
<1>10. InOrder'
  BY GaplessParts DEF InOrder
<1> QED BY <1>8, <1>9, <1>10 DEF NotifyIsGapless, NothingLost, InOrder, Waits, Given, ValueMsg

\* The async thread takes the head: the others move one place to the front.
LEMMA Taken ==
    ASSUME TypeOK, ValueInv, NEW op, Apply(op)
    PROVE  /\ UNCHANGED <<values, sink, accepted>>
           /\ DOMAIN bus \subseteq Nat /\ DOMAIN bus' \subseteq Nat
           /\ 1 \in DOMAIN bus /\ bus[1] = Head(bus)
           /\ \A i \in DOMAIN bus' :
                 i + 1 \in DOMAIN bus /\ bus'[i] = bus[i + 1] /\ 1 < i + 1
           /\ \A d, v : Waits(d, v) => Waits(d, v)' \/ Head(bus) = ValueMsg(d, v)
           /\ \A d \in Devices :
                 /\ \A i \in DOMAIN bus' : ValueAt(i, d)' => bus'[i].val <= values[d]
                 /\ \A i, j \in DOMAIN bus' :
                       i < j /\ ValueAt(i, d)' /\ ValueAt(j, d)' => bus'[i].val < bus'[j].val
                 /\ \A k \in DOMAIN delivered[d] :
                       /\ delivered[d][k].val <= values[d] /\ delivered[d][k].sink <= sink[d]
                       /\ \A i \in DOMAIN bus' :
                             ValueAt(i, d)' => delivered[d][k].val < bus'[i].val
<1>1. UNCHANGED <<values, sink, accepted>>
  BY DEF Apply, bluezVars, hookVars
<1>2. /\ DOMAIN bus \subseteq Nat \ {0} /\ DOMAIN bus' \subseteq Nat \ {0}
      /\ 1 \in DOMAIN bus /\ bus[1] = Head(bus)
      /\ \A i \in DOMAIN bus' : i + 1 \in DOMAIN bus /\ bus'[i] = bus[i + 1]
      /\ \A i \in DOMAIN bus : i # 1 => i - 1 \in DOMAIN bus' /\ bus'[i - 1] = bus[i]
  <2>1. bus \in Seq(Announcement) /\ bus # <<>> /\ bus' = Tail(bus)
    BY ApplyTakes DEF TypeOK
  <2> QED BY <2>1, TailPlaces
<1>3. \A i \in DOMAIN bus' : 1 < i + 1
  BY <1>2
<1>4. \A i, j \in DOMAIN bus' : i < j => i + 1 < j + 1
  BY <1>2
<1>5. \A d, v : Waits(d, v) => Waits(d, v)' \/ Head(bus) = ValueMsg(d, v)
  <2> SUFFICES ASSUME NEW d, NEW v, Waits(d, v), Head(bus) # ValueMsg(d, v)
               PROVE  \E i \in DOMAIN bus' : bus'[i] = ValueMsg(d, v)
    BY DEF Waits, ValueMsg
  <2>1. PICK i \in DOMAIN bus : bus[i] = ValueMsg(d, v)
    BY DEF Waits
  <2> QED BY <1>2, <2>1
<1>6. \A d \in Devices : \A i \in DOMAIN bus' : ValueAt(i, d)' => ValueAt(i + 1, d)
  BY <1>2 DEF ValueAt
<1> QED BY <1>1, <1>2, <1>3, <1>4, <1>5, <1>6 DEF ValueInv

\* It is not a value.
LEMMA OtherTaken ==
    ASSUME TypeOK, ValueInv, NotifyIsGapless, NEW op, Apply(op), op # "value",
           UNCHANGED delivered
    PROVE  ValueInv' /\ NotifyIsGapless'
<1>1. ValueInv'
  BY Taken DEF ValueInv
<1>2. \A d, v : Head(bus) # ValueMsg(d, v)
  BY ApplyTakes DEF ValueMsg
<1>3. NothingLost'
  <2> SUFFICES ASSUME NEW a \in accepted, NEW v \in a.from..values[a.dev]
               PROVE  Waits(a.dev, v)' \/ Given(a, v)'
    BY Taken DEF NothingLost
  <2>1. Waits(a.dev, v) \/ Given(a, v)
    BY GaplessParts DEF NothingLost
  <2> QED BY <1>2, <2>1, Taken DEF Given
<1>4. InOrder'
  BY GaplessParts DEF InOrder
<1> QED BY <1>1, <1>3, <1>4 DEF NotifyIsGapless, NothingLost, InOrder, Waits, Given, ValueMsg

\* It is a value: the callback in the slot, if any, gets it.
LEMMA ValueTaken ==
    ASSUME TypeOK, SinkInv, ValueInv, NotifyIsGapless, ApplyValue
    PROVE  ValueInv' /\ NotifyIsGapless'
<1>1. PICK d, v : Head(bus) = ValueMsg(d, v) /\ d \in Devices /\ v \in 1..MaxValues
  BY ApplyTakes, Kinds DEF ApplyValue, ValueMsg
<1>2. Apply("value")
  BY DEF ApplyValue
<1>3. v \in Nat /\ ValueAt(1, d) /\ bus[1].val = v
  BY <1>1, <1>2, Taken, Bounds DEF ValueAt, ValueMsg
<1>4. \A e \in Devices \ {d} : delivered'[e] = delivered[e]
  BY <1>1 DEF ApplyValue, ValueMsg, TypeOK
<1>5. CASE sink[d] = NoSink
  <2>1. delivered' = delivered
    BY <1>1, <1>5 DEF ApplyValue, ValueMsg
  <2>2. ValueInv'
    BY <1>2, <2>1, Taken DEF ValueInv
  <2>3. NothingLost'
    <3> SUFFICES ASSUME NEW a \in accepted, NEW w \in a.from..values[a.dev]
                 PROVE  Waits(a.dev, w)' \/ Given(a, w)'
      BY <1>2, Taken DEF NothingLost
    <3>1. Waits(a.dev, w) \/ Given(a, w)
      BY GaplessParts DEF NothingLost
    <3>2. a.sink \in Nat \ {0} /\ a.sink <= sink[a.dev]
      BY EntryTypes DEF SinkInv
    <3>3. a.dev # d
      BY <1>5, <3>2 DEF NoSink
    <3>4. Head(bus) # ValueMsg(a.dev, w)
      BY <1>1, <3>3 DEF ValueMsg
    <3> QED BY <1>2, <2>1, <3>1, <3>4, Taken DEF Given
  <2>4. InOrder'
    BY <2>1, GaplessParts DEF InOrder
  <2> QED BY <2>2, <2>3, <2>4 DEF NotifyIsGapless, NothingLost, InOrder, Waits, Given, ValueMsg
<1>6. CASE sink[d] # NoSink
  <2>n. PICK n : n = Len(delivered[d]) + 1
    OBVIOUS
  <2>1. delivered[d] \in Seq([sink : Sinks, val : 1..MaxValues])
    BY <1>1 DEF TypeOK
  <2>2. [sink |-> sink[d], val |-> v] \in [sink : Sinks, val : 1..MaxValues]
    BY <1>1, <1>6 DEF TypeOK
  <2>3. delivered'[d] = Append(delivered[d], [sink |-> sink[d], val |-> v])
    BY <1>1, <1>6 DEF ApplyValue, ValueMsg, TypeOK
  <2>4. /\ DOMAIN delivered'[d] = DOMAIN delivered[d] \cup {n} /\ n \notin DOMAIN delivered[d]
        /\ \A k \in DOMAIN delivered[d] : delivered'[d][k] = delivered[d][k] /\ k < n
        /\ delivered'[d][n].val = v /\ delivered'[d][n].sink = sink[d]
    BY <2>1, <2>2, <2>3, <2>n, AppendPlaces
  <2>5. DOMAIN delivered[d] \subseteq Nat /\ n \in Nat
    BY <2>1, <2>n
  <2>6. \A k \in DOMAIN delivered[d] :
           /\ delivered[d][k].val \in Nat /\ delivered[d][k].sink \in Nat
           /\ delivered[d][k].val < v /\ delivered[d][k].sink <= sink[d]
    BY <1>1, <1>2, <1>3, EntryTypes, Taken DEF ValueInv
  <2>7. sink[d] \in Nat /\ v <= values[d]
    BY <1>1, <1>2, <1>3, EntryTypes, Taken DEF ValueInv
  <2>8. \A i \in DOMAIN bus' : ValueAt(i, d)' => v < bus'[i].val
    <3> SUFFICES ASSUME NEW i \in DOMAIN bus', ValueAt(i, d)' PROVE v < bus'[i].val
      OBVIOUS
    <3>1. i + 1 \in DOMAIN bus /\ bus'[i] = bus[i + 1] /\ 1 < i + 1 /\ 1 \in DOMAIN bus
      BY <1>2, Taken
    <3>2. ValueAt(i + 1, d)
      BY <3>1 DEF ValueAt
    <3> QED BY <1>1, <1>3, <3>1, <3>2 DEF ValueInv
  <2>9. ValueInv'
    <3> SUFFICES ASSUME NEW e \in Devices, NEW k \in DOMAIN delivered'[e]
                 PROVE  /\ delivered'[e][k].val <= values[e] /\ delivered'[e][k].sink <= sink[e]
                        /\ \A i \in DOMAIN bus' : ValueAt(i, e)' => delivered'[e][k].val < bus'[i].val
      BY <1>2, Taken DEF ValueInv
    <3>1. CASE e # d
      BY <1>2, <1>4, <3>1, Taken
    <3>2. CASE e = d /\ k \in DOMAIN delivered[d]
      BY <1>2, <2>4, <3>2, Taken
    <3>3. CASE e = d /\ k = n
      BY <2>4, <2>7, <2>8, <3>3
    <3> QED BY <2>4, <3>1, <3>2, <3>3
  <2>10. NothingLost'
    <3> SUFFICES ASSUME NEW a \in accepted, NEW w \in a.from..values[a.dev]
                 PROVE  Waits(a.dev, w)' \/ Given(a, w)'
      BY <1>2, Taken DEF NothingLost
    <3>1. a.dev \in Devices /\ a.sink \in Nat /\ a.sink <= sink[a.dev]
      BY EntryTypes DEF SinkInv
    <3>2. CASE Given(a, w)
      BY <1>4, <2>4, <3>1, <3>2 DEF Given
    <3>3. CASE Head(bus) = ValueMsg(a.dev, w)
      <4>1. a.dev = d /\ w = v
        BY <1>1, <3>3 DEF ValueMsg
      <4> QED BY <2>4, <3>1, <4>1 DEF Given
    <3> QED BY <1>2, <3>2, <3>3, Taken, GaplessParts DEF NothingLost
  <2>11. InOrder'
    <3> SUFFICES ASSUME NEW e \in Devices, NEW i \in DOMAIN delivered'[e],
                        NEW j \in DOMAIN delivered'[e], i < j
                 PROVE  /\ delivered'[e][i].val < delivered'[e][j].val
                        /\ delivered'[e][i].sink <= delivered'[e][j].sink
      BY DEF InOrder
    <3>1. CASE e # d
      BY <1>4, <3>1, GaplessParts DEF InOrder
    <3>2. CASE e = d
      <4>1. i \in DOMAIN delivered[d]
        BY <2>4, <2>5, <3>2
      <4>2. CASE j \in DOMAIN delivered[d]
        BY <1>1, <2>4, <3>2, <4>1, <4>2, GaplessParts DEF InOrder
      <4>3. CASE j = n
        BY <2>4, <2>6, <3>2, <4>1, <4>3
      <4> QED BY <2>4, <3>2, <4>2, <4>3
    <3> QED BY <3>1, <3>2
  <2> QED BY <2>9, <2>10, <2>11 DEF NotifyIsGapless, NothingLost, InOrder, Waits, Given, ValueMsg
<1> QED BY <1>5, <1>6

LEMMA BlueZValues == TypeOK /\ ValueInv /\ NotifyIsGapless /\ BlueZ => ValueInv' /\ NotifyIsGapless'
<1> SUFFICES ASSUME TypeOK, ValueInv, NotifyIsGapless, NEW d \in Devices,
                    LinkUp(d) \/ Resolve(d) \/ LinkDown(d) \/ Notification(d)
             PROVE  ValueInv' /\ NotifyIsGapless'
  BY DEF BlueZ
<1> USE DEF hookVars, history
<1>1. ASSUME NEW up \in BOOLEAN, bus' = Append(bus, [op |-> "connected", dev |-> d, val |-> up]),
             UNCHANGED <<values, delivered, sink, accepted>>
      PROVE  ValueInv' /\ NotifyIsGapless'
  BY <1>1, IsAnnouncement, OtherAnnounced
<1>2. CASE LinkUp(d)
  BY <1>1, <1>2 DEF LinkUp
<1>3. CASE LinkDown(d)
  BY <1>1, <1>3 DEF LinkDown
<1>4. CASE Resolve(d)
  BY <1>4, IsAnnouncement, OtherAnnounced DEF Resolve
<1>5. CASE Notification(d)
  BY <1>5, ValueAnnounced DEF Notification
<1> QED BY <1>2, <1>3, <1>4, <1>5

LEMMA UserValues ==
    TypeOK /\ StepInv /\ SinkInv /\ ValueInv /\ NotifyIsGapless /\ (Application \/ Continue)
        => ValueInv' /\ NotifyIsGapless'
<1> SUFFICES ASSUME TypeOK, StepInv, SinkInv, ValueInv, NotifyIsGapless, Application \/ Continue
             PROVE  ValueInv' /\ NotifyIsGapless'
  OBVIOUS
<1> USE DEF bluezVars, hookVars, userVars, history, counts, Unmoved
<1>1. ASSUME UNCHANGED <<bus, values, delivered, sink, accepted>>
      PROVE  ValueInv' /\ NotifyIsGapless'
  BY <1>1, QueueRests, EntryTypes
<1>2. CASE Application
  BY <1>1, <1>2 DEF Application, Connect, Notify, Read, Write, Begin, Disconnect
<1>3. CASE InstallConnected \/ FreeBuffer \/ ReadDone \/ WriteReturns \/ NotifyReturns
  BY <1>1, <1>3 DEF InstallConnected, FreeBuffer, ReadDone, WriteReturns, NotifyReturns
<1>4. CASE InstallSink
  <2>1. asked \in Nat /\ sink' = [sink EXCEPT ![device] = asked + 1]
    BY <1>4, EntryTypes DEF InstallSink
  <2>2. \A d \in Devices : sink[d] \in Nat /\ sink[d] <= asked
    BY EntryTypes DEF SinkInv
  <2>3. \A d \in Devices : sink'[d] = sink[d] \/ sink'[d] = asked + 1
    BY <2>1 DEF TypeOK
  <2>4. \A d \in Devices : sink'[d] \in Nat /\ sink[d] <= sink'[d]
    BY <2>1, <2>2, <2>3
  <2>5. UNCHANGED <<bus, values, delivered, accepted>>
    BY <1>4 DEF InstallSink
  <2> QED BY <2>4, <2>5, QueueRests
<1>5. CASE StartNotify
  <2>1. device \in Devices
    BY <1>5 DEF StartNotify, TypeOK
  <2>2. \A a \in accepted' :
           a \in accepted \/ (a.from \in Nat /\ values[a.dev] \in Nat /\ values[a.dev] < a.from)
    BY <1>5, <2>1, EntryTypes DEF StartNotify
  <2>3. UNCHANGED <<bus, values, delivered, sink>>
    BY <1>5 DEF StartNotify
  <2> QED BY <2>2, <2>3, QueueRests, EntryTypes
<1>6. ASSUME NEW ok \in BOOLEAN, ReadReturns(ok)
      PROVE  ValueInv' /\ NotifyIsGapless'
  <2>1. device \in Devices /\ UNCHANGED <<delivered, sink, accepted>>
    BY <1>6 DEF ReadReturns, TypeOK
  <2>2. CASE AnnounceValue(device)
    BY <2>1, <2>2, ValueAnnounced
  <2>3. CASE UNCHANGED <<values, bus>>
    BY <1>1, <2>1, <2>3
  <2> QED BY <1>6, <2>2, <2>3 DEF ReadReturns
<1>7. ASSUME NEW ok \in BOOLEAN, ConnectReturns(ok) \/ DisconnectReturns(ok)
      PROVE  ValueInv' /\ NotifyIsGapless'
  BY <1>1, <1>7 DEF ConnectReturns, DisconnectReturns
<1> QED BY <1>2, <1>3, <1>4, <1>5, <1>6, <1>7 DEF Continue

LEMMA ValueNext ==
    TypeOK /\ StepInv /\ SinkInv /\ ValueInv /\ NotifyIsGapless /\ [Next]_vars
        => ValueInv' /\ NotifyIsGapless'
<1> SUFFICES ASSUME TypeOK, StepInv, SinkInv, ValueInv, NotifyIsGapless, [Next]_vars
             PROVE  ValueInv' /\ NotifyIsGapless'
  OBVIOUS
<1>1. CASE RunAsync
  <2>1. CASE ApplyConnected
    BY <2>1, OtherTaken DEF ApplyConnected
  <2>2. CASE ApplyServices
    BY <2>2, OtherTaken DEF ApplyServices
  <2>3. CASE ApplyValue
    BY <2>3, ValueTaken
  <2> QED BY <1>1, <2>1, <2>2, <2>3 DEF RunAsync
<1>2. CASE UNCHANGED vars
  BY <1>2, QueueRests, EntryTypes DEF vars, bluezVars, hookVars, history
<1> QED BY <1>1, <1>2, BlueZValues, UserValues DEF Next

LEMMA Inductive == Spec => []IInv
<1>1. Init => IInv
  BY TypeInit, LinkInit, ValueInit DEF IInv
<1>2. IInv /\ [Next]_vars => IInv'
  BY TypeNext, LinkNext, SinkNext, ValueNext DEF IInv
<1> QED BY <1>1, <1>2, PTL DEF Spec

-------------------------------------------------------------------------------
(* The theorems.                                                             *)

\* Every variable keeps its type.  The bound of the calls of the connection callback
\* needs LinkInv: no link that comes up is announced twice.
THEOREM LinkTypes == Spec => []TypeOK
BY Inductive, PTL DEF IInv

\* Whatever connects and disconnects a device, and however late the async thread is,
\* the callback is called for every link a connect() brought up, and for no link twice.
THEOREM ReportedOnceLinux == Spec => []ConnectedIsReportedOnce
<1>1. IInv => ConnectedIsReportedOnce
  <2> SUFFICES ASSUME IInv, NEW d \in Devices, NotPending(d, "connected")
               PROVE  served[d] <= connectCalls[d] /\ connectCalls[d] <= ups[d]
    BY DEF ConnectedIsReportedOnce
  <2>1. \A i \in DOMAIN bus : bus[i] \notin {UpOf(d)}
    BY DEF NotPending, UpOf
  <2>2. bus \in Seq(Announcement)
    BY DEF IInv, TypeOK
  <2>3. Pending(d) = 0
    BY <2>1, <2>2, PlacesAreFinite DEF Pending
  <2> QED BY <2>3, LinkCounts DEF IInv
<1> QED BY <1>1, Inductive, PTL

\* No value announced after a subscription was accepted is lost, reordered, doubled or
\* given to a callback older than that subscription.
THEOREM Gapless == Spec => []NotifyIsGapless
BY Inductive, PTL DEF IInv
===============================================================================
