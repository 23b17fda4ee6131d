---------------------------- MODULE LinuxScan_proofs ----------------------------
(***************************************************************************)
(* Theorems about LinuxScan, for any devices and any number of scans.      *)
(***************************************************************************)
EXTENDS LinuxScan, TLAPS, QueueLemmas

-------------------------------------------------------------------------------
(* The inductive invariant.                                                  *)

Covered(d) == d \in told \cup gap \cup late \cup stale

\* The announcements that are waiting for device d.
Added(i, d) == bus[i].op = "added" /\ bus[i].dev = d
Named(i, d) == (Added(i, d) /\ bus[i].name = "named") \/ (bus[i].op = "name" /\ bus[i].dev = d)

\* What the scan has done with the devices that are filed: the loop has reported those it
\* has passed; after it, if the threads did not race, none is left.
LoopInv ==
    /\ \A d \in visited : filed[d] = "named" => Covered(d)
    /\ ~raced /\ pc # "listing" /\ (hook \/ pc = "hooking") =>
          \A d \in Devices : filed[d] = "named" => Covered(d)

\* While the adapter is the one in the tree, what BlueZ has is filed or is being announced;
\* a name is announced behind the device it belongs to.
Heeded == attached /\ \A i \in DOMAIN bus : bus[i].op # "gone"
Filed(d) == filed[d] # "absent"
Follows(i, d) == Filed(d) \/ \E j \in DOMAIN bus : j < i /\ Added(j, d)

ExportOf(d) ==
    /\ devs[d] # "absent" => Filed(d) \/ \E i \in DOMAIN bus : Added(i, d)
    /\ \A i \in DOMAIN bus : bus[i].op = "name" /\ bus[i].dev = d => Follows(i, d)
    /\ devs[d] = "named" => filed[d] = "named" \/ d \in stale \/ \E i \in DOMAIN bus : Named(i, d)

ExportInv == Heeded => \A d \in Devices : ExportOf(d)

-------------------------------------------------------------------------------
(* Types.                                                                    *)

\* The kinds of announcements.
LEMMA Kinds ==
    /\ \A m \in Announcement :
          /\ m.op \in {"added", "name", "discovering", "gone"}
          /\ m.op \in {"added", "name"} => m.dev \in Devices
          /\ m.op = "added" => m.name \in Names
          /\ m.op = "discovering" => m.val \in BOOLEAN
    /\ \A d \in Devices, n \in Names : [op |-> "added", dev |-> d, name |-> n] \in Announcement
    /\ \A d \in Devices : [op |-> "name", dev |-> d] \in Announcement
    /\ \A b \in BOOLEAN : [op |-> "discovering", val |-> b] \in Announcement
    /\ [op |-> "gone"] \in Announcement
<1>1. \A d \in Devices, n \in Names : [op |-> "added", dev |-> d, name |-> n] \in Announcement
  BY DEF Announcement
<1>2. \A d \in Devices : [op |-> "name", dev |-> d] \in Announcement
  BY DEF Announcement
<1>3. \A b \in BOOLEAN : [op |-> "discovering", val |-> b] \in Announcement
  BY DEF Announcement
<1>4. [op |-> "gone"] \in Announcement
  BY DEF Announcement
<1>5. ASSUME NEW m \in Announcement
      PROVE  /\ m.op \in {"added", "name", "discovering", "gone"}
             /\ m.op \in {"added", "name"} => m.dev \in Devices
             /\ m.op = "added" => m.name \in Names
             /\ m.op = "discovering" => m.val \in BOOLEAN
  BY DEF Announcement
<1> QED BY <1>1, <1>2, <1>3, <1>4, <1>5

\* The types, in the parts that an action changes as one.
BluezTypes ==
    /\ devs \in [Devices -> Names \cup {"absent"}]
    /\ mine \in BOOLEAN /\ others \in BOOLEAN /\ events \in 0..MaxEvents

TreeTypes ==
    /\ filed \in [Devices -> Names \cup {"absent"}]
    /\ cached \in BOOLEAN /\ attached \in BOOLEAN

UserTypes ==
    /\ scans \in 0..MaxScans /\ hook \in BOOLEAN /\ timed \in BOOLEAN
    /\ pc \in {"idle", "listing", "hooking", "filtering", "starting", "sleeping", "stopping"}

ListTypes ==
    /\ visited \subseteq Devices /\ told \subseteq Devices
    /\ \A d \in visited \cup told : filed[d] # "absent"

HistoryTypes ==
    /\ raced \in BOOLEAN
    /\ gap \subseteq Devices /\ late \subseteq Devices /\ stale \subseteq Devices

TypeInv ==
    /\ BluezTypes /\ TreeTypes /\ UserTypes /\ ListTypes /\ HistoryTypes
    /\ bus \in Seq(Announcement)

LEMMA TypeParts == TypeInv <=> TypeOK
BY DEF TypeOK, TypeInv, BluezTypes, TreeTypes, UserTypes, ListTypes, HistoryTypes

LEMMA TypeInit == Init => TypeInv
<1> SUFFICES ASSUME Init PROVE TypeInv
  OBVIOUS
<1>1. events \in 0..MaxEvents /\ scans \in 0..MaxScans
  BY BoundsAssumption DEF Init
<1>2. bus \in Seq(Announcement)
  BY DEF Init
<1>3. TreeTypes
  <2>1. cached \in BOOLEAN /\ attached \in BOOLEAN
    BY DEF Init
  <2> QED BY <2>1 DEF Init, TreeTypes
<1>4. BluezTypes /\ UserTypes
  BY <1>1 DEF Init, BluezTypes, UserTypes
<1>5. ListTypes /\ HistoryTypes
  BY DEF Init, ListTypes, HistoryTypes
<1> QED BY <1>2, <1>3, <1>4, <1>5 DEF TypeInv

LEMMA DiscoveryType ==
    ASSUME TypeInv, NEW m \in BOOLEAN, NEW o \in BOOLEAN, SetDiscovery(m, o)
    PROVE  bus' \in Seq(Announcement) /\ mine' \in BOOLEAN /\ others' \in BOOLEAN
<1>1. bus \in Seq(Announcement) /\ (m \/ o) \in BOOLEAN
  BY DEF TypeInv, BluezTypes
<1>2. [op |-> "discovering", val |-> (m \/ o)] \in Announcement
  BY <1>1, Kinds
<1>3. bus' = bus \/ bus' = Append(bus, [op |-> "discovering", val |-> (m \/ o)])
  BY DEF SetDiscovery, Say
<1>4. bus' \in Seq(Announcement)
  BY <1>1, <1>2, <1>3, AppendPlaces
<1> QED BY <1>4 DEF SetDiscovery

LEMMA BlueZType == TypeInv /\ BlueZ => TypeInv'
<1> SUFFICES ASSUME TypeInv, BlueZ PROVE TypeInv'
  OBVIOUS
<1> USE DEF treeVars, userVars, history
<1>0. /\ bus \in Seq(Announcement) /\ devs \in [Devices -> Names \cup {"absent"}]
      /\ mine \in BOOLEAN /\ others \in BOOLEAN
  BY DEF TypeInv, BluezTypes
<1>1. events' \in 0..MaxEvents /\ UNCHANGED <<treeVars, userVars, told, history>>
  <2>1. Change
    BY DEF BlueZ, Appear, LearnName, Vanish, OtherClient, Replug
  <2>2. MaxEvents \in Nat /\ events \in 0..MaxEvents /\ events < MaxEvents /\ events' = events + 1
    BY <2>1, BoundsAssumption DEF TypeInv, BluezTypes, Change
  <2>3. events' \in 0..MaxEvents
    BY <2>2
  <2> QED BY <2>1, <2>3 DEF Change
<1>2. bus' \in Seq(Announcement) /\ devs' \in [Devices -> Names \cup {"absent"}]
      /\ mine' \in BOOLEAN /\ others' \in BOOLEAN
  <2>1. CASE \E d \in Devices, name \in Names : Appear(d, name)
    <3> PICK d \in Devices, name \in Names : Appear(d, name)
      BY <2>1
    <3>1. bus' = Append(bus, [op |-> "added", dev |-> d, name |-> name])
      BY DEF Appear, Say
    <3>2. bus' \in Seq(Announcement)
      BY <1>0, <3>1, Kinds, AppendPlaces
    <3> QED BY <1>0, <3>2 DEF Appear
  <2>2. CASE \E d \in Devices : LearnName(d)
    <3> PICK d \in Devices : LearnName(d)
      BY <2>2
    <3>1. bus' = Append(bus, [op |-> "name", dev |-> d])
      BY DEF LearnName, Say
    <3>2. bus' \in Seq(Announcement)
      BY <1>0, <3>1, Kinds, AppendPlaces
    <3> QED BY <1>0, <3>2 DEF LearnName, Names
  <2>3. CASE \E d \in Devices : Vanish(d)
    BY <1>0, <2>3 DEF Vanish
  <2>4. CASE OtherClient
    <3>1. (~others) \in BOOLEAN
      BY Zenon
    <3>2. SetDiscovery(mine, ~others) /\ devs' = devs
      BY <2>4 DEF OtherClient
    <3>3. bus' \in Seq(Announcement) /\ mine' \in BOOLEAN /\ others' \in BOOLEAN
      BY <1>0, <3>1, <3>2, DiscoveryType
    <3> QED BY <1>0, <3>2, <3>3
  <2>5. CASE Replug
    <3>1. bus' = Append(bus, [op |-> "gone"])
      BY <2>5 DEF Replug, Say
    <3>2. bus' \in Seq(Announcement)
      BY <1>0, <3>1, Kinds, AppendPlaces
    <3> QED BY <2>5, <3>2 DEF Replug
  <2> QED BY <2>1, <2>2, <2>3, <2>4, <2>5 DEF BlueZ
<1> QED
  BY <1>1, <1>2 DEF TypeInv, BluezTypes, TreeTypes, UserTypes, ListTypes, HistoryTypes

LEMMA UserType == TypeInv /\ (Application \/ Continue) => TypeInv'
<1> SUFFICES ASSUME TypeInv, Application \/ Continue PROVE TypeInv'
  OBVIOUS
<1> USE DEF TypeInv, bluezVars, treeVars, history, Unmoved
<1>1. CASE \E with_timeout \in BOOLEAN : ScanStart(with_timeout)
  <2> PICK with_timeout \in BOOLEAN : ScanStart(with_timeout)
    BY <1>1
  <2>1. scans' \in 0..MaxScans
    <3>1. MaxScans \in Nat /\ scans \in 0..MaxScans /\ scans < MaxScans /\ scans' = scans + 1
      BY BoundsAssumption DEF UserTypes, ScanStart
    <3> QED BY <3>1
  <2>2. UserTypes'
    BY <2>1 DEF ScanStart, UserTypes
  <2>3. ListTypes' /\ HistoryTypes'
    BY DEF ScanStart, ListTypes, HistoryTypes
  <2>4. BluezTypes' /\ TreeTypes' /\ bus' \in Seq(Announcement)
    BY DEF ScanStart, BluezTypes, TreeTypes
  <2> QED BY <2>2, <2>3, <2>4
<1>2. CASE \E d \in Devices : ListNext(d)
  BY <1>2 DEF ListNext, BluezTypes, TreeTypes, UserTypes, ListTypes, HistoryTypes
<1>3. CASE ListEnd \/ InstallHook \/ FilterReturns \/ WakeUp \/ ScanStop
  <2>1. UserTypes'
    BY <1>3 DEF ListEnd, InstallHook, FilterReturns, WakeUp, ScanStop, UserTypes
  <2>2. UNCHANGED <<bluezVars, bus, treeVars, visited, told, history>>
    BY <1>3 DEF ListEnd, InstallHook, FilterReturns, WakeUp, ScanStop
  <2> QED BY <2>1, <2>2 DEF BluezTypes, TreeTypes, ListTypes, HistoryTypes
<1>4. CASE \E ok \in BOOLEAN : StartReturns(ok) \/ StopReturns(ok)
  <2> PICK ok \in BOOLEAN : StartReturns(ok) \/ StopReturns(ok)
    BY <1>4
  <2>1. bus' \in Seq(Announcement) /\ mine' \in BOOLEAN /\ others' \in BOOLEAN
    <3>1. mine \in BOOLEAN /\ others \in BOOLEAN /\ (mine \/ ok) \in BOOLEAN /\ (mine /\ ~ok) \in BOOLEAN
      BY DEF BluezTypes
    <3> QED BY <3>1, DiscoveryType DEF StartReturns, StopReturns
  <2>2. UserTypes'
    BY DEF StartReturns, StopReturns, UserTypes
  <2>3. UNCHANGED <<devs, events, treeVars, visited, told, history>>
    BY DEF StartReturns, StopReturns
  <2> QED BY <2>1, <2>2, <2>3 DEF BluezTypes, TreeTypes, ListTypes, HistoryTypes
<1> QED BY <1>1, <1>2, <1>3, <1>4 DEF Application, Continue

\* The announcement the async thread takes.
LEMMA ApplyTakes ==
    ASSUME TypeInv, NEW op, Apply(op)
    PROVE  /\ bus # <<>> /\ bus' = Tail(bus) /\ bus' \in Seq(Announcement)
           /\ Head(bus) \in Announcement /\ Head(bus).op = op
           /\ op \in {"added", "name"} => Head(bus).dev \in Devices
           /\ op = "added" => Head(bus).name \in Names
           /\ op = "discovering" => Head(bus).val \in BOOLEAN
<1>1. bus \in Seq(Announcement) /\ bus # <<>> /\ bus' = Tail(bus) /\ Head(bus).op = op
  BY DEF Apply, TypeInv
<1>2. Head(bus) \in Announcement /\ Tail(bus) \in Seq(Announcement)
  BY <1>1, TailPlaces
<1> QED BY <1>1, <1>2, Kinds

LEMMA AsyncType == TypeInv /\ RunAsync => TypeInv'
<1> SUFFICES ASSUME TypeInv, RunAsync PROVE TypeInv'
  OBVIOUS
<1> USE DEF TypeInv, bluezVars, userVars, history
<1>1. UNCHANGED <<bluezVars, userVars>> /\ bus' \in Seq(Announcement)
  BY ApplyTakes DEF RunAsync, ApplyAdded, ApplyName, ApplyDiscovering, ApplyGone, Apply
<1>2. BluezTypes' /\ UserTypes'
  BY <1>1 DEF BluezTypes, UserTypes
<1>3. CASE ApplyAdded
  <2> USE <1>3 DEF ApplyAdded
  <2>1. PICK d \in Devices : d = Head(bus).dev /\ Head(bus).name \in Names
    BY ApplyTakes
  <2>2. filed' \in [Devices -> Names \cup {"absent"}]
    BY <2>1 DEF TreeTypes
  <2>3. \A e \in Devices : filed[e] # "absent" => filed'[e] = filed[e]
    BY <2>1 DEF TreeTypes
  <2>4. told' \subseteq Devices /\ \A e \in told' : filed'[e] # "absent"
    BY <2>1, <2>3 DEF ListTypes
  <2>5. raced' \in BOOLEAN
    BY DEF HistoryTypes
  <2>6. gap' \subseteq Devices /\ stale' \subseteq Devices /\ late' \subseteq Devices
    BY <2>1 DEF HistoryTypes
  <2>7. ListTypes'
    BY <1>1, <2>3, <2>4 DEF ListTypes
  <2> QED BY <1>1, <1>2, <2>2, <2>5, <2>6, <2>7 DEF TreeTypes, HistoryTypes
<1>4. CASE ApplyName
  <2> USE <1>4 DEF ApplyName
  <2>1. PICK d \in Devices : d = Head(bus).dev
    BY ApplyTakes
  <2>2. TreeTypes'
    BY <2>1 DEF TreeTypes, Names
  <2>3. \A e \in Devices : filed[e] # "absent" => filed'[e] # "absent"
    BY <2>1 DEF TreeTypes
  <2>4. ListTypes' /\ HistoryTypes'
    BY <1>1, <2>1, <2>3 DEF ListTypes, HistoryTypes
  <2> QED BY <1>1, <1>2, <2>2, <2>4
<1>5. CASE ApplyDiscovering
  <2>1. cached' \in BOOLEAN
    BY <1>5, ApplyTakes DEF ApplyDiscovering, TreeTypes
  <2> QED BY <1>1, <1>2, <1>5, <2>1 DEF ApplyDiscovering, TreeTypes, ListTypes, HistoryTypes
<1>6. CASE ApplyGone
  BY <1>1, <1>2, <1>6 DEF ApplyGone, TreeTypes, ListTypes, HistoryTypes
<1> QED BY <1>3, <1>4, <1>5, <1>6 DEF RunAsync

LEMMA TypeNext == TypeInv /\ [Next]_vars => TypeInv'
<1>1. TypeInv /\ UNCHANGED vars => TypeInv'
  BY DEF TypeInv, BluezTypes, TreeTypes, UserTypes, ListTypes, HistoryTypes, vars, bluezVars, treeVars, userVars,
         history
<1> QED BY <1>1, BlueZType, UserType, AsyncType DEF Next

\* The variables keep their types, and only what is filed is reported.
THEOREM ScanTypes == Spec => []TypeOK
BY TypeInit, TypeNext, TypeParts, PTL DEF Spec

-------------------------------------------------------------------------------
(* What the scan has done with the devices that are filed.                   *)

LEMMA LoopInit == Init => LoopInv
BY DEF Init, LoopInv

LEMMA LoopFrame ==
    ASSUME LoopInv, UNCHANGED <<filed, visited, told, history>>,
           \/ UNCHANGED <<hook, pc>>
           \/ hook' = hook /\ pc # "listing" /\ pc' # "hooking"
           \/ pc = "hooking" /\ pc' # "listing"
    PROVE  LoopInv'
BY DEF LoopInv, Covered, history

LEMMA UserLoop == TypeInv /\ LoopInv /\ (Application \/ Continue) => LoopInv'
<1> SUFFICES ASSUME TypeInv, LoopInv, Application \/ Continue PROVE LoopInv'
  OBVIOUS
<1> USE DEF Unmoved, treeVars
<1>1. CASE \E with_timeout \in BOOLEAN : ScanStart(with_timeout)
  BY <1>1 DEF ScanStart, LoopInv
<1>2. CASE \E d \in Devices : ListNext(d)
  <2> PICK d \in Devices : ListNext(d)
    BY <1>2
  <2> USE DEF ListNext
  <2>1. \A e \in Devices : Covered(e) => Covered(e)'
    BY DEF Covered, history
  <2>2. filed[d] = "named" => Covered(d)'
    BY DEF Covered
  <2>3. pc' = "listing" /\ visited' = visited \cup {d} /\ filed' = filed /\ visited \subseteq Devices
    BY DEF TypeInv, ListTypes
  <2> QED BY <2>1, <2>2, <2>3 DEF LoopInv
\* The loop has passed every device, unless the map changed under it.
<1>3. CASE ListEnd
  <2>1. ~raced => \A d \in Devices : filed[d] = "named" => Covered(d)
    BY <1>3 DEF ListEnd, LoopInv
  <2> QED BY <1>3, <2>1 DEF ListEnd, LoopInv, Covered, history
<1>4. CASE InstallHook
  BY <1>4, LoopFrame DEF InstallHook
<1>5. CASE FilterReturns \/ WakeUp \/ ScanStop
  BY <1>5, LoopFrame DEF FilterReturns, WakeUp, ScanStop
<1>6. CASE \E ok \in BOOLEAN : StartReturns(ok) \/ StopReturns(ok)
  BY <1>6, LoopFrame DEF StartReturns, StopReturns
<1> QED BY <1>1, <1>2, <1>3, <1>4, <1>5, <1>6 DEF Application, Continue

LEMMA AsyncLoop == TypeInv /\ LoopInv /\ RunAsync => LoopInv'
<1> SUFFICES ASSUME TypeInv, LoopInv, RunAsync PROVE LoopInv'
  OBVIOUS
<1>1. UNCHANGED <<hook, pc, visited>> /\ visited \subseteq Devices /\ filed \in [Devices -> Names \cup {"absent"}]
  BY DEF RunAsync, ApplyAdded, ApplyName, ApplyDiscovering, ApplyGone, Apply, userVars, TypeInv, ListTypes, TreeTypes
<1>2. \A d \in visited : filed[d] # "absent"
  BY DEF TypeInv, ListTypes
<1>3. CASE ApplyAdded
  <2> USE <1>3 DEF ApplyAdded
  <2>1. PICK d \in Devices : d = Head(bus).dev /\ Head(bus).name \in Names
    BY ApplyTakes
  <2>2. \A e \in Devices : Covered(e) => Covered(e)'
    BY DEF Covered
  <2>3. \A e \in Devices : e # d \/ filed[e] # "absent" => filed'[e] = filed[e]
    BY <1>1, <2>1
  <2>4. \A e \in visited' : filed'[e] = "named" => Covered(e)'
    BY <1>1, <1>2, <2>2, <2>3 DEF LoopInv
  <2>5. ASSUME ~raced', pc' # "listing", hook' \/ pc' = "hooking"
        PROVE  \A e \in Devices : filed'[e] = "named" => Covered(e)'
    <3>1. ~raced
      BY <2>5, Zenon
    <3>2. \A e \in Devices : filed[e] = "named" => Covered(e)
      BY <1>1, <2>5, <3>1 DEF LoopInv
    <3>3. ASSUME filed[d] = "absent", filed'[d] = "named" PROVE Covered(d)'
      <4>1. attached /\ filed' # filed
        BY <3>3
      <4>2. CASE hook
        BY <2>1, <3>3, <4>1, <4>2 DEF Covered
      <4>3. CASE ~hook
        <5>1. pc = "hooking"
          BY <1>1, <2>5, <4>3
        <5> QED BY <2>1, <4>1, <4>3, <5>1 DEF Covered
      <4> QED BY <4>2, <4>3
    <3> QED BY <2>2, <2>3, <3>2, <3>3
  <2> QED BY <2>4, <2>5 DEF LoopInv
<1>4. CASE ApplyName
  <2> USE <1>4 DEF ApplyName
  <2>1. PICK d \in Devices : d = Head(bus).dev
    BY ApplyTakes
  <2>2. Covered(d)' /\ \A e \in Devices : Covered(e) => Covered(e)'
    BY <2>1 DEF Covered
  <2>3. \A e \in Devices : e # d => filed'[e] = filed[e]
    BY <1>1, <2>1
  <2> QED BY <1>1, <2>2, <2>3 DEF LoopInv
<1>5. CASE ApplyDiscovering \/ ApplyGone
  BY <1>1, <1>5, LoopFrame DEF ApplyDiscovering, ApplyGone
<1> QED BY <1>3, <1>4, <1>5 DEF RunAsync

LEMMA LoopNext == TypeInv /\ LoopInv /\ [Next]_vars => LoopInv'
<1> SUFFICES ASSUME TypeInv, LoopInv, [Next]_vars PROVE LoopInv'
  OBVIOUS
<1>1. CASE BlueZ
  BY <1>1, LoopFrame DEF BlueZ, Appear, LearnName, Vanish, OtherClient, Replug, Change, treeVars, userVars
<1>2. CASE UNCHANGED vars
  BY <1>2, LoopFrame DEF vars, treeVars, userVars
<1> QED BY <1>1, <1>2, UserLoop, AsyncLoop DEF Next

-------------------------------------------------------------------------------
(* What is filed or being announced.                                         *)

LEMMA ExportInit == Init => ExportInv
BY DEF Init, ExportInv, ExportOf, Filed

LEMMA ExportFrame ==
    ASSUME NEW d \in Devices, ExportOf(d), UNCHANGED <<bus, filed, stale>>,
           devs'[d] \in {devs[d], "absent"}
    PROVE  ExportOf(d)'
BY DEF ExportOf, Filed, Follows, Added, Named

\* Announcing m for another device, or something else about this one.
LEMMA Announced ==
    ASSUME TypeInv, NEW m \in Announcement, bus' = Append(bus, m), UNCHANGED <<filed, stale, attached>>
    PROVE  /\ Heeded' => Heeded /\ m.op # "gone"
           /\ \A d \in Devices :
                 ExportOf(d) /\ devs'[d] \in {devs[d], "absent"} /\ ~(m.op = "name" /\ m.dev = d) => ExportOf(d)'
<1>1. PICK n : n = Len(bus) + 1
  OBVIOUS
<1>2. /\ DOMAIN bus' = DOMAIN bus \cup {n} /\ bus'[n] = m
      /\ \A i \in DOMAIN bus : bus'[i] = bus[i] /\ i < n
  BY <1>1, AppendPlaces DEF TypeInv
<1>3. Heeded' => Heeded /\ m.op # "gone"
  BY <1>2 DEF Heeded
<1>4. ASSUME NEW d \in Devices, ExportOf(d), devs'[d] \in {devs[d], "absent"}, ~(m.op = "name" /\ m.dev = d)
      PROVE  ExportOf(d)'
  <2>1. \A i \in DOMAIN bus : (Added(i, d) => Added(i, d)') /\ (Named(i, d) => Named(i, d)')
    BY <1>2 DEF Added, Named
  <2>2. \A i \in DOMAIN bus : Follows(i, d) => Follows(i, d)'
    BY <1>2, <2>1 DEF Follows, Filed
  <2>3. \A i \in DOMAIN bus' : bus'[i].op = "name" /\ bus'[i].dev = d => Follows(i, d)'
    BY <1>2, <1>4, <2>2 DEF ExportOf
  <2> QED BY <1>2, <1>4, <2>1, <2>3 DEF ExportOf, Filed
<1> QED BY <1>3, <1>4

LEMMA DiscoveryExport ==
    ASSUME TypeInv, ExportInv, UNCHANGED <<devs, filed, stale, attached>>,
           NEW m \in BOOLEAN, NEW o \in BOOLEAN, SetDiscovery(m, o)
    PROVE  ExportInv'
<1>1. CASE bus' = bus
  BY <1>1, ExportFrame DEF ExportInv, Heeded
<1>2. CASE bus' # bus
  <2>1. PICK b \in BOOLEAN : bus' = Append(bus, [op |-> "discovering", val |-> b])
    <3>1. (m \/ o) \in BOOLEAN
      OBVIOUS
    <3> QED BY <1>2, <3>1 DEF SetDiscovery, Say
  <2>2. [op |-> "discovering", val |-> b] \in Announcement
    BY Kinds
  <2> QED BY <2>1, <2>2, Announced DEF ExportInv
<1> QED BY <1>1, <1>2

LEMMA BlueZExport == TypeInv /\ ExportInv /\ BlueZ => ExportInv'
<1> SUFFICES ASSUME TypeInv, ExportInv, BlueZ PROVE ExportInv'
  OBVIOUS
<1>0. UNCHANGED <<filed, stale, attached>> /\ devs \in [Devices -> Names \cup {"absent"}]
  BY DEF BlueZ, Appear, LearnName, Vanish, OtherClient, Replug, Change, treeVars, history, TypeInv, BluezTypes
<1>1. ASSUME NEW d \in Devices, NEW name \in Names, Appear(d, name) PROVE ExportInv'
  <2> DEFINE m == [op |-> "added", dev |-> d, name |-> name]
  <2>1. m \in Announcement /\ bus' = Append(bus, m) /\ m.op = "added"
    BY <1>1, Kinds DEF Appear, Say
  <2>2. SUFFICES ASSUME Heeded', NEW e \in Devices PROVE ExportOf(e)'
    BY DEF ExportInv
  <2>3. ExportOf(e)
    BY <1>0, <2>1, <2>2, Announced DEF ExportInv
  <2>4. CASE e # d
    <3>1. devs'[e] = devs[e]
      BY <1>0, <1>1, <2>4 DEF Appear
    <3> QED BY <1>0, <2>1, <2>3, <3>1, Announced
  <2>5. CASE e = d
    <3>1. PICK n : n = Len(bus) + 1
      OBVIOUS
    <3>2. /\ DOMAIN bus' = DOMAIN bus \cup {n} /\ bus'[n] = m
          /\ \A i \in DOMAIN bus : bus'[i] = bus[i] /\ i < n
      BY <2>1, <3>1, AppendPlaces DEF TypeInv
    <3>3. Added(n, d)' /\ (name = "named" => Named(n, d)') /\ n \in DOMAIN bus'
      BY <3>2 DEF Added, Named
    <3>4. \A i \in DOMAIN bus : Added(i, d) => Added(i, d)'
      BY <3>2 DEF Added
    <3>5. \A i \in DOMAIN bus' : bus'[i].op = "name" /\ bus'[i].dev = d => Follows(i, d)'
      <4>1. \A i \in DOMAIN bus : bus[i].op = "name" /\ bus[i].dev = d => Follows(i, d)
        BY <2>3, <2>5 DEF ExportOf
      <4>2. \A i \in DOMAIN bus : Follows(i, d) => Follows(i, d)'
        BY <1>0, <3>2, <3>4 DEF Follows, Filed
      <4>3. bus'[n].op # "name"
        BY <3>2
      <4> QED BY <3>2, <4>1, <4>2, <4>3
    <3>6. devs'[d] = name
      BY <1>0, <1>1 DEF Appear
    <3> QED BY <2>5, <3>3, <3>5, <3>6 DEF ExportOf
  <2> QED BY <2>4, <2>5
<1>2. ASSUME NEW d \in Devices, LearnName(d) PROVE ExportInv'
  <2> DEFINE m == [op |-> "name", dev |-> d]
  <2>1. m \in Announcement /\ bus' = Append(bus, m) /\ m.op = "name" /\ m.dev = d
    BY <1>2, Kinds DEF LearnName, Say
  <2>2. SUFFICES ASSUME Heeded', NEW e \in Devices PROVE ExportOf(e)'
    BY DEF ExportInv
  <2>3. ExportOf(e)
    BY <1>0, <2>1, <2>2, Announced DEF ExportInv
  <2>4. CASE e # d
    <3>1. devs'[e] = devs[e]
      BY <1>0, <1>2, <2>4 DEF LearnName
    <3> QED BY <1>0, <2>1, <2>3, <2>4, <3>1, Announced
  <2>5. CASE e = d
    <3>1. PICK n : n = Len(bus) + 1
      OBVIOUS
    <3>2. /\ DOMAIN bus' = DOMAIN bus \cup {n} /\ bus'[n] = m
          /\ \A i \in DOMAIN bus : bus'[i] = bus[i] /\ i < n
      BY <2>1, <3>1, AppendPlaces DEF TypeInv
    <3>3. \A i \in DOMAIN bus : Added(i, d) => Added(i, d)'
      BY <3>2 DEF Added
    <3>4. Filed(d)' \/ \E i \in DOMAIN bus' : i < n /\ Added(i, d)'
      <4>1. Filed(d) \/ \E i \in DOMAIN bus : Added(i, d)
        BY <1>2, <2>3, <2>5 DEF LearnName, ExportOf
      <4> QED BY <1>0, <3>2, <3>3, <4>1 DEF Filed
    <3>5. \A i \in DOMAIN bus' : bus'[i].op = "name" /\ bus'[i].dev = d => Follows(i, d)'
      <4>1. \A i \in DOMAIN bus : bus[i].op = "name" /\ bus[i].dev = d => Follows(i, d)
        BY <2>3, <2>5 DEF ExportOf
      <4>2. \A i \in DOMAIN bus : Follows(i, d) => Follows(i, d)'
        BY <1>0, <3>2, <3>3 DEF Follows, Filed
      <4>3. Follows(n, d)'
        BY <3>4 DEF Follows
      <4> QED BY <3>2, <4>1, <4>2, <4>3
    <3>6. Named(n, d)' /\ n \in DOMAIN bus'
      BY <3>2 DEF Named
    <3> QED BY <2>5, <3>4, <3>5, <3>6 DEF ExportOf
  <2> QED BY <2>4, <2>5
<1>3. ASSUME NEW d \in Devices, Vanish(d) PROVE ExportInv'
  <2>1. bus' = bus /\ \A e \in Devices : devs'[e] \in {devs[e], "absent"}
    BY <1>0, <1>3 DEF Vanish
  <2> QED BY <1>0, <2>1, ExportFrame DEF ExportInv, Heeded
<1>4. CASE OtherClient
  <2>1. mine \in BOOLEAN /\ (~others) \in BOOLEAN
    <3>1. (~others) \in BOOLEAN
      BY Zenon
    <3> QED BY <3>1 DEF TypeInv, BluezTypes
  <2> QED BY <1>0, <1>4, <2>1, DiscoveryExport DEF OtherClient
<1>5. CASE Replug
  <2>1. [op |-> "gone"] \in Announcement /\ bus' = Append(bus, [op |-> "gone"])
    BY <1>5, Kinds DEF Replug, Say
  <2> QED BY <1>0, <2>1, Announced DEF ExportInv
<1> QED BY <1>1, <1>2, <1>3, <1>4, <1>5 DEF BlueZ

LEMMA UserExport == TypeInv /\ ExportInv /\ (Application \/ Continue) => ExportInv'
<1> SUFFICES ASSUME TypeInv, ExportInv, Application \/ Continue PROVE ExportInv'
  OBVIOUS
<1>1. UNCHANGED <<devs, filed, attached, stale>>
  BY DEF Application, Continue, ScanStart, ListNext, ListEnd, InstallHook, FilterReturns, WakeUp, ScanStop,
         StartReturns, StopReturns, Unmoved, treeVars, bluezVars, history
<1>2. CASE bus' = bus
  BY <1>1, <1>2, ExportFrame DEF ExportInv, Heeded
<1>3. CASE bus' # bus
  <2>1. PICK ok \in BOOLEAN : StartReturns(ok) \/ StopReturns(ok)
    BY <1>3 DEF Application, Continue, ScanStart, ListNext, ListEnd, InstallHook, FilterReturns, WakeUp, ScanStop
  <2>2. others \in BOOLEAN /\ (mine \/ ok) \in BOOLEAN /\ (mine /\ ~ok) \in BOOLEAN
    BY DEF TypeInv, BluezTypes
  <2> QED BY <1>1, <2>1, <2>2, DiscoveryExport DEF StartReturns, StopReturns
<1> QED BY <1>2, <1>3

\* What the async thread leaves of the announcements for a device it has filed.
LEMMA Taken ==
    ASSUME TypeInv, NEW d \in Devices, ExportOf(d), bus # <<>>, bus' = Tail(bus), devs' = devs,
           Filed(d) \/ Added(1, d) => Filed(d)',
           filed[d] = "named" => filed'[d] = "named",
           d \in stale => d \in stale',
           Named(1, d) => filed'[d] = "named" \/ d \in stale'
    PROVE  ExportOf(d)'
<1>1. /\ \A i \in DOMAIN bus' : i + 1 \in DOMAIN bus /\ bus'[i] = bus[i + 1]
      /\ \A i \in DOMAIN bus : i # 1 => i - 1 \in DOMAIN bus' /\ bus'[i - 1] = bus[i]
      /\ DOMAIN bus \subseteq Nat \ {0} /\ DOMAIN bus' \subseteq Nat \ {0}
  BY TailPlaces DEF TypeInv
<1>2. \A i \in DOMAIN bus : i # 1 => (Added(i, d) => Added(i - 1, d)') /\ (Named(i, d) => Named(i - 1, d)')
  BY <1>1 DEF Added, Named
<1>3. devs'[d] # "absent" => Filed(d)' \/ \E i \in DOMAIN bus' : Added(i, d)'
  <2>1. ASSUME NEW i \in DOMAIN bus, Added(i, d) PROVE Filed(d)' \/ \E j \in DOMAIN bus' : Added(j, d)'
    BY <1>1, <1>2, <2>1
  <2> QED BY <2>1 DEF ExportOf
<1>4. ASSUME NEW i \in DOMAIN bus', bus'[i].op = "name", bus'[i].dev = d PROVE Follows(i, d)'
  <2>1. Follows(i + 1, d)
    BY <1>1, <1>4 DEF ExportOf
  <2>2. ASSUME NEW j \in DOMAIN bus, j < i + 1, Added(j, d) PROVE Follows(i, d)'
    <3>1. CASE j = 1
      BY <2>2, <3>1 DEF Follows
    <3>2. CASE j # 1
      <4>1. j - 1 \in DOMAIN bus' /\ Added(j - 1, d)' /\ j - 1 < i
        BY <1>1, <1>2, <2>2, <3>2
      <4> QED BY <4>1 DEF Follows
    <3> QED BY <3>1, <3>2
  <2> QED BY <2>1, <2>2 DEF Follows
<1>5. devs'[d] = "named" => filed'[d] = "named" \/ d \in stale' \/ \E i \in DOMAIN bus' : Named(i, d)'
  <2>1. ASSUME NEW i \in DOMAIN bus, Named(i, d)
        PROVE  filed'[d] = "named" \/ d \in stale' \/ \E j \in DOMAIN bus' : Named(j, d)'
    BY <1>1, <1>2, <2>1
  <2> QED BY <2>1 DEF ExportOf
<1> QED BY <1>3, <1>4, <1>5 DEF ExportOf

LEMMA AsyncExport == TypeInv /\ ExportInv /\ RunAsync => ExportInv'
<1> SUFFICES ASSUME TypeInv, ExportInv, RunAsync, Heeded', NEW d \in Devices PROVE ExportOf(d)'
  BY DEF ExportInv
<1>1. /\ bus # <<>> /\ bus' = Tail(bus) /\ devs' = devs
      /\ 1 \in DOMAIN bus /\ bus[1] = Head(bus) /\ DOMAIN bus \subseteq Nat \ {0}
      /\ filed \in [Devices -> Names \cup {"absent"}]
  BY TailPlaces DEF RunAsync, ApplyAdded, ApplyName, ApplyDiscovering, ApplyGone, Apply, bluezVars, TypeInv, TreeTypes
<1>2. ~ApplyGone /\ attached' = attached /\ attached
  BY DEF RunAsync, ApplyAdded, ApplyName, ApplyDiscovering, ApplyGone, Heeded
<1>3. Heeded
  <2>1. Head(bus).op # "gone"
    BY <1>2 DEF RunAsync, ApplyAdded, ApplyName, ApplyDiscovering, Apply
  <2>2. \A i \in DOMAIN bus : i # 1 => i - 1 \in DOMAIN bus' /\ bus'[i - 1] = bus[i]
    <3>1. bus \in Seq(Announcement)
      BY DEF TypeInv
    <3> QED BY <1>1, <3>1, TailPlaces
  <2>3. \A j \in DOMAIN bus' : bus'[j].op # "gone"
    BY DEF Heeded
  <2> QED BY <1>1, <1>2, <2>1, <2>2, <2>3 DEF Heeded
<1>4. ExportOf(d)
  BY <1>3 DEF ExportInv
<1>5. CASE ApplyAdded
  <2> USE <1>5 DEF ApplyAdded
  <2>1. PICK e \in Devices : e = Head(bus).dev /\ Head(bus).name \in Names /\ Head(bus).op = "added"
    BY ApplyTakes
  <2>2. filed' = IF filed[e] = "absent" THEN [filed EXCEPT ![e] = Head(bus).name] ELSE filed
    BY <1>2, <2>1
  <2>3. Filed(d) \/ Added(1, d) => Filed(d)'
    BY <1>1, <2>1, <2>2 DEF Filed, Added, Names
  <2>4. filed[d] = "named" => filed'[d] = "named"
    BY <1>1, <2>1, <2>2
  <2>5. d \in stale => d \in stale'
    OBVIOUS
  <2>6. Named(1, d) => filed'[d] = "named" \/ d \in stale'
    BY <1>1, <2>1, <2>2 DEF Named, Added, Names
  <2> QED BY <1>1, <1>4, <2>3, <2>4, <2>5, <2>6, Taken
\* The device of a name is filed by then.
<1>6. CASE ApplyName
  <2> USE <1>6 DEF ApplyName
  <2>1. PICK e \in Devices : e = Head(bus).dev /\ Head(bus).op = "name"
    BY ApplyTakes
  <2>2. d = e => Filed(d)
    <3>1. d = e => Follows(1, d)
      BY <1>1, <1>4, <2>1 DEF ExportOf
    <3>2. \A j \in DOMAIN bus : ~(j < 1)
      BY <1>1
    <3> QED BY <3>1, <3>2 DEF Follows
  <2>3. filed' = IF filed[e] # "absent" THEN [filed EXCEPT ![e] = "named"] ELSE filed
    BY <1>2, <2>1
  <2>4. ~Added(1, d) /\ (Named(1, d) => d = e)
    BY <1>1, <2>1 DEF Added, Named
  <2>5. (Filed(d) => Filed(d)') /\ (filed[d] = "named" => filed'[d] = "named") /\ (d = e => filed'[d] = "named")
    BY <1>1, <2>2, <2>3 DEF Filed
  <2> QED BY <1>1, <1>4, <2>4, <2>5, Taken
<1>7. CASE ApplyDiscovering
  <2>1. ~Added(1, d) /\ ~Named(1, d)
    BY <1>1, <1>7 DEF ApplyDiscovering, Apply, Added, Named
  <2> QED BY <1>1, <1>4, <1>7, <2>1, Taken DEF ApplyDiscovering, Filed, history
<1> QED BY <1>2, <1>5, <1>6, <1>7 DEF RunAsync

LEMMA ExportNext == TypeInv /\ ExportInv /\ [Next]_vars => ExportInv'
<1>1. ExportInv /\ UNCHANGED vars => ExportInv'
  BY ExportFrame DEF ExportInv, Heeded, vars, bluezVars, treeVars, history
<1> QED BY <1>1, BlueZExport, UserExport, AsyncExport DEF Next

\* The inductive invariant.
IInv == TypeInv /\ LoopInv /\ ExportInv

LEMMA Inductive == (Init => IInv) /\ (IInv /\ [Next]_vars => IInv')
<1>1. Init => IInv
  BY TypeInit, TypeParts, LoopInit, ExportInit DEF IInv
<1>2. IInv /\ [Next]_vars => IInv'
  BY TypeNext, LoopNext, ExportNext DEF IInv
<1> QED BY <1>1, <1>2

\* Once the hook is installed and every announcement applied, each device that BlueZ has
\* by name has been reported since scan_start, but for those of the gap, of a late name
\* or of an old object, and unless the threads raced.
THEOREM NoDeviceIsMissed == Spec => []ScanReportsDevices
<1>1. IInv => ScanReportsDevices
  <2> SUFFICES ASSUME IInv, bus = <<>>, hook, attached, ~raced, pc \notin {"listing", "hooking"},
                      NEW d \in Devices, devs[d] = "named"
               PROVE  Covered(d)
    BY DEF ScanReportsDevices, Covered
  <2>1. DOMAIN bus = {}
    OBVIOUS
  <2>2. filed[d] = "named" \/ d \in stale
    BY <2>1 DEF IInv, ExportInv, Heeded, ExportOf
  <2> QED BY <2>2 DEF IInv, LoopInv, Covered
<1> QED BY <1>1, Inductive, PTL DEF Spec
===============================================================================
