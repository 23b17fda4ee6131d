-------------------------- MODULE NativeBleMac_proofs --------------------------
(***************************************************************************)
(* Theorems about NativeBleMac, for any peripherals, services and bounds.  *)
(***************************************************************************)
EXTENDS NativeBleMac, FiniteSetTheorems, TLAPS, QueueLemmas

------------------------------------------------------------------------------
(* The reports of the scan.                                                 *)

\* What keeping the size in eight bits does: the kept size is never larger, and
\* is the size itself until that reaches the number of values.
LEMMA KeptNumber ==
    ASSUME NEW n \in Nat, NEW k \in Nat \ {0}
    PROVE  n % k # n + 1 /\ (n < k => n % k = n)
<1>1. n % k \in 0..(k - 1) /\ n = k * (n \div k) + (n % k)
  OBVIOUS
<1>2. n \div k \in Nat
  OBVIOUS
<1>3. k * (n \div k) \in Nat
  BY <1>2
<1>4. ASSUME n < k PROVE n % k = n
  BY <1>4
<1> QED BY <1>1, <1>3, <1>4

FoundInv ==
    /\ detected \subseteq Peripherals /\ heard \subseteq detected /\ found \subseteq heard
    /\ repeated = {}

LEMMA FoundInit == Init => FoundInv
BY DEF Init, FoundInv

LEMMA DiscoverKeeps ==
    ASSUME FoundInv, NEW p \in Peripherals, DidDiscoverPeripheral(p)
    PROVE  FoundInv' /\ detected' \ detected \subseteq found'
<1> DEFINE n == Cardinality(detected)
<1>1. IsFiniteSet(detected) /\ n \in Nat /\ SizeValues \in Nat \ {0}
  BY PeripheralsAssumption, BoundsAssumption, FS_Subset, FS_CardinalityType DEF FoundInv
<1>2. detected' = detected \cup {p} /\ heard' = heard \cup {p}
  BY DEF DidDiscoverPeripheral
<1>3. n % SizeValues # n + 1 /\ (n < SizeValues => n % SizeValues = n)
  BY <1>1, KeptNumber
<1>4. Reports <=> n % SizeValues # Cardinality(detected')
  BY DEF Reports, KeptSize
<1>5. p \in found /\ n < SizeValues => ~Reports
  <2>1. p \in found => detected' = detected
    BY <1>2 DEF FoundInv
  <2> QED BY <1>3, <1>4, <2>1
<1>6. p \notin detected => Reports
  <2>1. p \notin detected => Cardinality(detected') = n + 1
    BY <1>1, <1>2, FS_AddElement
  <2> QED BY <1>3, <1>4, <2>1
<1>7. repeated' = {}
  BY <1>5 DEF DidDiscoverPeripheral, FoundInv
<1>8. found' \subseteq found \cup {p} /\ (Reports => p \in found')
  BY DEF DidDiscoverPeripheral
<1> QED BY <1>2, <1>6, <1>7, <1>8 DEF FoundInv

LEMMA FoundNext == FoundInv /\ [Next]_vars => FoundInv' /\ detected' \ detected \subseteq found'
<1> SUFFICES ASSUME FoundInv, [Next]_vars PROVE FoundInv' /\ detected' \ detected \subseteq found'
  OBVIOUS
<1>1. CASE \E p \in Peripherals : DidDiscoverPeripheral(p)
  BY <1>1, DiscoverKeeps
<1>2. CASE UNCHANGED <<detected, repeated>> /\ NothingHeard
  BY <1>2 DEF FoundInv, NothingHeard
<1>3. CASE UNCHANGED scanVars
  BY <1>3 DEF FoundInv, scanVars
<1> QED
  BY <1>1, <1>2, <1>3
  DEF Next, vars, Answer, Continue, ScanStart, ScanStop, ConnectRefused, Connect, Disconnect, ReadSaves, Subscribe,
      ConnectReturns, ReadAsks, DidConnect, FailsToConnect, DidDiscoverServices, ServicesLost, CharacteristicsLost,
      DidDiscoverCharacteristics, ReadAnswered, AnswerLost, DidDisconnect, Notified, DidUpdateValue

\* The scan callback reports every peripheral when it is discovered first, and while fewer
\* were detected than the eight bits can count it reports none twice in a scan.
THEOREM ReportedOnce == Spec => FoundOnce
<1>1. FoundInv => repeated = {}
  BY DEF FoundInv
<1>2. FoundInv /\ [Next]_vars => [detected' \ detected \subseteq found']_vars
  BY FoundNext
<1> QED BY <1>1, <1>2, FoundInit, FoundNext, PTL DEF Spec, FoundOnce

------------------------------------------------------------------------------
(* The counter of services.                                                 *)

\* All the characteristics awaited are those of one peripheral.
OneDiscovery == \A x, y \in asked : x[1] = y[1]

CountInv ==
    /\ asked \subseteq Characteristics
    /\ mixed \in BOOLEAN
    /\ ~mixed => OneDiscovery
    /\ CountIsRight

LEMMA AskedIsFinite ==
    /\ IsFiniteSet(Characteristics)
    /\ \A S \in SUBSET Characteristics : IsFiniteSet(S)
BY PeripheralsAssumption, ServicesAssumption, FS_Product, FS_Subset DEF Characteristics

LEMMA CountInit == Init => CountInv
BY DEF Init, CountInv, OneDiscovery, CountIsRight

LEMMA ServicesKeep ==
    ASSUME CountInv, NEW p \in Peripherals, NEW offered \in {Services, {}}, DidDiscoverServices(p, offered)
    PROVE  CountInv'
<1> USE DEF DidDiscoverServices
<1>1. offered \subseteq Services /\ IsFiniteSet(offered)
  BY ServicesAssumption, FS_EmptySet
<1>2. asked' \subseteq Characteristics /\ mixed' \in BOOLEAN
  BY <1>1 DEF CountInv, Characteristics
<1>3. ASSUME ~mixed' PROVE OneDiscovery' /\ CountIsRight'
  <2>1. asked' = {p} \X offered
    BY <1>3
  <2>2. Cardinality({p} \X offered) = Cardinality({p}) * Cardinality(offered)
    BY <1>1, FS_Singleton, FS_Product
  <2>3. Cardinality({p}) = 1 /\ Cardinality(offered) \in Nat
    BY <1>1, FS_Singleton, FS_CardinalityType
  <2>4. Cardinality(asked') = Cardinality(offered)
    <3>1. \A n \in Nat : 1 * n = n
      OBVIOUS
    <3>2. Cardinality({p}) * Cardinality(offered) = Cardinality(offered)
      BY <2>3, <3>1
    <3> QED BY <2>1, <2>2, <3>2
  <2> QED BY <2>1, <2>4 DEF OneDiscovery, CountIsRight, CountServices
<1> QED BY <1>2, <1>3 DEF CountInv, CountIsRight

LEMMA AnswerKeeps ==
    ASSUME CountInv, NEW p \in Peripherals, NEW s \in Services, NEW ok \in BOOLEAN,
           DidDiscoverCharacteristics(p, s, ok)
    PROVE  CountInv'
<1> USE DEF DidDiscoverCharacteristics
<1>1. IsFiniteSet(asked)
  BY AskedIsFinite DEF CountInv
<1>2. Cardinality(asked') = Cardinality(asked) - 1
  BY <1>1, FS_RemoveElement
<1>3. asked # {} /\ asked' \subseteq asked /\ mixed' = mixed
  OBVIOUS
<1>4. ASSUME ~mixed PROVE servicesCount' = Cardinality(asked')
  BY <1>2, <1>3, <1>4 DEF CountInv, CountIsRight, CountAnswered
<1>5. CountIsRight'
  BY <1>3, <1>4 DEF CountIsRight
<1>6. ~mixed' => OneDiscovery'
  BY <1>3 DEF CountInv, OneDiscovery
<1>7. asked' \subseteq Characteristics /\ mixed' \in BOOLEAN
  BY <1>3 DEF CountInv
<1> QED BY <1>5, <1>6, <1>7 DEF CountInv

LEMMA DisconnectKeeps ==
    ASSUME CountInv, NEW p \in Peripherals, DidDisconnect(p)
    PROVE  CountInv'
<1>1. asked' \subseteq asked /\ mixed' = mixed /\ servicesCount' = servicesCount
  BY DEF DidDisconnect, Without
<1>2. ASSUME ~mixed PROVE asked' = {} \/ asked' = asked
  BY <1>2 DEF CountInv, OneDiscovery, DidDisconnect, Without
<1>3. CountIsRight'
  <2>1. CASE mixed \/ asked' = {}
    BY <1>1, <2>1 DEF CountIsRight
  <2>2. CASE asked' = asked
    BY <1>1, <2>2 DEF CountInv, CountIsRight
  <2> QED BY <1>2, <2>1, <2>2
<1>4. ~mixed' => OneDiscovery'
  BY <1>1 DEF CountInv, OneDiscovery
<1>5. asked' \subseteq Characteristics /\ mixed' \in BOOLEAN
  BY <1>1 DEF CountInv
<1> QED BY <1>3, <1>4, <1>5 DEF CountInv

LEMMA CountNext == CountInv /\ [Next]_vars => CountInv'
<1> SUFFICES ASSUME CountInv, [Next]_vars PROVE CountInv'
  OBVIOUS
<1>1. CASE \E p \in Peripherals, offered \in {Services, {}} : DidDiscoverServices(p, offered)
  BY <1>1, ServicesKeep
<1>2. CASE \E p \in Peripherals, s \in Services, ok \in BOOLEAN : DidDiscoverCharacteristics(p, s, ok)
  BY <1>2, AnswerKeeps
<1>3. CASE \E p \in Peripherals, s \in Services : CharacteristicsLost(p, s)
  BY <1>3 DEF CharacteristicsLost, CountInv, CountIsRight
<1>4. CASE \E p \in Peripherals : DidDisconnect(p)
  BY <1>4, DisconnectKeeps
<1>5. CASE UNCHANGED <<asked, mixed, servicesCount>>
  BY <1>5 DEF CountInv, OneDiscovery, CountIsRight
<1> QED
  BY <1>1, <1>2, <1>3, <1>4, <1>5
  DEF Next, vars, connectVars, Answer, Continue, ScanStart, ScanStop, ConnectRefused, Connect, Disconnect, ReadSaves, Subscribe,
      ConnectReturns, ReadAsks, DidConnect, FailsToConnect, ServicesLost, DidDiscoverPeripheral,
      ReadAnswered, AnswerLost, Notified, DidUpdateValue

\* The counter shared by all discoveries counts the answers awaited, however the services
\* answer, as long as no second discovery begins and the delegate stays.
THEOREM CounterCounts == Spec => []CountIsRight
<1>1. CountInv => CountIsRight
  BY DEF CountInv
<1> QED BY <1>1, CountInit, CountNext, PTL DEF Spec

------------------------------------------------------------------------------
(* Types.                                                                   *)

CallTypes ==
    /\ scanning \in BOOLEAN
    /\ pc \in {"idle", "waiting", "saving"} /\ peripheral \in Peripherals \cup {Nil}
    /\ ready \in BOOLEAN /\ servicesCount \in Int

\* Whatever is asked of a peripheral or known of it goes with its link.
LinkTypes ==
    /\ delegates \subseteq Peripherals /\ connecting \subseteq Peripherals /\ linked \subseteq Peripherals
    /\ discovering \subseteq linked
    /\ asked \subseteq linked \X Services /\ populated \subseteq linked \X Services

ReadTypes ==
    /\ subscribed \subseteq linked \X Notifying /\ reads \subseteq linked \X (1..MaxReads)
    /\ readCalls \in 0..MaxReads /\ subscriptions \in 0..MaxSubscriptions
    /\ pc = "saving" => readCalls < MaxReads

SlotTypes == slot \in Seq(Callbacks) /\ saved \in Seq(Callbacks)

TypeInv == CallTypes /\ LinkTypes /\ ReadTypes /\ SlotTypes

LEMMA TypeParts == TypeInv /\ FoundInv => TypeOK
<1> SUFFICES ASSUME TypeInv, FoundInv PROVE TypeOK
  OBVIOUS
<1>1. asked \subseteq Characteristics /\ populated \subseteq Characteristics
  BY DEF TypeInv, LinkTypes, Characteristics
<1> QED BY <1>1 DEF TypeInv, FoundInv, CallTypes, LinkTypes, ReadTypes, SlotTypes, TypeOK

LEMMA TypeInit == Init => TypeInv
<1> SUFFICES ASSUME Init PROVE TypeInv
  OBVIOUS
<1>1. ReadTypes
  <2>1. 0 \in 0..MaxReads /\ 0 \in 0..MaxSubscriptions
    BY BoundsAssumption
  <2>2. subscribed = {} /\ reads = {} /\ readCalls = 0 /\ subscriptions = 0 /\ pc # "saving"
    BY DEF Init
  <2> QED BY <2>1, <2>2 DEF ReadTypes
<1>2. CallTypes
  <2>1. scanning \in BOOLEAN /\ ready \in BOOLEAN
    BY Zenon DEF Init
  <2> QED BY <2>1 DEF Init, CallTypes
<1>3. LinkTypes
  BY DEF Init, LinkTypes
<1>4. SlotTypes
  BY DEF Init, SlotTypes
<1> QED BY <1>1, <1>2, <1>3, <1>4 DEF TypeInv

\* The parts that a step leaves alone.
LEMMA TypeFrame ==
    ASSUME TypeInv
    PROVE  /\ UNCHANGED <<scanning, pc, peripheral, ready, servicesCount>> => CallTypes'
           /\ UNCHANGED <<delegates, connecting, linked, discovering, asked, populated>> => LinkTypes'
           /\ UNCHANGED <<subscribed, reads, linked, readCalls, subscriptions, pc>> => ReadTypes'
           /\ UNCHANGED <<slot, saved>> => SlotTypes'
<1>1. UNCHANGED <<scanning, pc, peripheral, ready, servicesCount>> => CallTypes'
  BY DEF TypeInv, CallTypes
<1>2. UNCHANGED <<delegates, connecting, linked, discovering, asked, populated>> => LinkTypes'
  BY DEF TypeInv, LinkTypes
<1>3. UNCHANGED <<subscribed, reads, linked, readCalls, subscriptions, pc>> => ReadTypes'
  BY DEF TypeInv, ReadTypes
<1>4. UNCHANGED <<slot, saved>> => SlotTypes'
  BY DEF TypeInv, SlotTypes
<1> QED BY <1>1, <1>2, <1>3, <1>4

\* What is left of pairs without those of a peripheral that lost its link.
LEMMA WithoutPairs ==
    ASSUME NEW L, NEW R, NEW pairs \in SUBSET (L \X R), NEW p
    PROVE  Without(pairs, p) \subseteq (L \ {p}) \X R /\ Without(pairs, p) \subseteq pairs
BY DEF Without

LEMMA ConnectTypes ==
    ASSUME TypeInv, NEW p \in Peripherals \cup {Nil},
           Connect(p) \/ ConnectReturns \/ Disconnect \/ ScanStart \/ ScanStop
    PROVE  TypeInv'
<1> USE TypeFrame DEF connectVars, slotVars, scanVars
<1>1. CASE Connect(p)
  <2>1. CallTypes' /\ LinkTypes' /\ ReadTypes'
    BY <1>1 DEF Connect, TypeInv, CallTypes, LinkTypes, ReadTypes
  <2> QED BY <1>1, <2>1 DEF Connect, TypeInv
<1>2. CASE ConnectReturns
  <2>1. CallTypes' /\ ReadTypes'
    BY <1>2 DEF ConnectReturns, TypeInv, CallTypes, ReadTypes
  <2> QED BY <1>2, <2>1 DEF ConnectReturns, TypeInv
<1>3. CASE Disconnect
  <2>1. LinkTypes'
    BY <1>3 DEF Disconnect, TypeInv, LinkTypes
  <2> QED BY <1>3, <2>1 DEF Disconnect, TypeInv
<1>4. CASE ScanStart \/ ScanStop
  <2>1. CallTypes'
    BY <1>4 DEF ScanStart, ScanStop, TypeInv, CallTypes
  <2> QED BY <1>4, <2>1 DEF ScanStart, ScanStop, TypeInv
<1> QED BY <1>1, <1>2, <1>3, <1>4

LEMMA DiscoveryTypes ==
    ASSUME TypeInv, NEW p \in Peripherals,
           \/ DidDiscoverPeripheral(p) \/ DidConnect(p) \/ FailsToConnect(p) \/ ServicesLost(p)
           \/ \E offered \in {Services, {}} : DidDiscoverServices(p, offered)
           \/ \E s \in Services :
                  CharacteristicsLost(p, s) \/ \E ok \in BOOLEAN : DidDiscoverCharacteristics(p, s, ok)
           \/ DidDisconnect(p)
    PROVE  TypeInv'
<1> USE TypeFrame DEF connectVars, slotVars, scanVars
<1>1. CASE DidDiscoverPeripheral(p) \/ FailsToConnect(p) \/ ServicesLost(p)
  <2>1. LinkTypes'
    BY <1>1 DEF DidDiscoverPeripheral, FailsToConnect, ServicesLost, TypeInv, LinkTypes
  <2> QED BY <1>1, <2>1 DEF DidDiscoverPeripheral, FailsToConnect, ServicesLost, TypeInv
<1>2. CASE DidConnect(p)
  <2>1. LinkTypes' /\ ReadTypes'
    BY <1>2 DEF DidConnect, TypeInv, LinkTypes, ReadTypes
  <2> QED BY <1>2, <2>1 DEF DidConnect, TypeInv
<1>3. ASSUME NEW offered \in {Services, {}}, DidDiscoverServices(p, offered) PROVE TypeInv'
  <2> USE <1>3 DEF DidDiscoverServices
  <2>1. servicesCount' \in Int
    <3>1. IsFiniteSet(offered)
      BY ServicesAssumption, FS_EmptySet
    <3>2. Cardinality(offered) \in Nat
      BY <3>1, FS_CardinalityType
    <3> QED BY <3>2 DEF CountServices
  <2>2. populated' \subseteq linked \X Services
    BY WithoutPairs DEF TypeInv, LinkTypes
  <2>3. asked' \subseteq linked \X Services
    BY DEF TypeInv, LinkTypes
  <2>4. CallTypes' /\ LinkTypes'
    BY <2>1, <2>2, <2>3 DEF TypeInv, CallTypes, LinkTypes
  <2> QED BY <2>4 DEF TypeInv
<1>4. ASSUME NEW s \in Services, CharacteristicsLost(p, s) PROVE TypeInv'
  <2>1. LinkTypes'
    BY <1>4 DEF CharacteristicsLost, TypeInv, LinkTypes
  <2> QED BY <1>4, <2>1 DEF CharacteristicsLost, TypeInv
<1>5. ASSUME NEW s \in Services, NEW ok \in BOOLEAN, DidDiscoverCharacteristics(p, s, ok) PROVE TypeInv'
  <2> USE <1>5 DEF DidDiscoverCharacteristics
  <2>1. servicesCount' \in Int
    BY DEF TypeInv, CallTypes, CountAnswered
  <2>2. ready' \in BOOLEAN
    BY DEF TypeInv, CallTypes
  <2>3. LinkTypes'
    BY DEF TypeInv, LinkTypes
  <2>4. CallTypes'
    BY <2>1, <2>2 DEF TypeInv, CallTypes
  <2> QED BY <2>3, <2>4 DEF TypeInv
<1>6. CASE DidDisconnect(p)
  <2> USE <1>6 DEF DidDisconnect
  <2>1. LinkTypes'
    <3>1. asked' \subseteq linked' \X Services /\ populated' \subseteq linked' \X Services
      BY WithoutPairs DEF TypeInv, LinkTypes
    <3> QED BY <3>1 DEF TypeInv, LinkTypes
  <2>2. ReadTypes'
    <3>1. reads' \subseteq linked' \X (1..MaxReads) /\ subscribed' \subseteq linked' \X Notifying
      BY WithoutPairs DEF TypeInv, ReadTypes
    <3> QED BY <3>1 DEF TypeInv, ReadTypes
  <2>3. CallTypes'
    BY DEF TypeInv, CallTypes
  <2> QED BY <2>1, <2>2, <2>3 DEF TypeInv
<1> QED BY <1>1, <1>2, <1>3, <1>4, <1>5, <1>6

\* What the handler of a value leaves in the slot.
LEMMA RestoreTypes == ASSUME TypeInv PROVE Restore \in Seq(Callbacks)
<1>1. slot \in Seq(Callbacks)
  BY DEF TypeInv, SlotTypes
<1> QED BY <1>1, TailPlaces DEF Restore, ReadOnTop

LEMMA ValueTypes ==
    ASSUME TypeInv,
           \/ ReadSaves
           \/ \E s \in Services : ReadAsks(s) \/ Subscribe(s)
           \/ \E p \in Peripherals : \/ \E k \in 1..MaxReads :
                                         AnswerLost(p, k) \/ \E ok \in BOOLEAN : ReadAnswered(p, k, ok)
                                     \/ \E s \in Services : Notified(p, s)
    PROVE  TypeInv'
<1> USE TypeFrame DEF connectVars, slotVars, scanVars
<1>0. /\ MaxReads \in Nat /\ MaxSubscriptions \in Nat
      /\ readCalls \in 0..MaxReads /\ subscriptions \in 0..MaxSubscriptions
      /\ slot \in Seq(Callbacks) /\ saved \in Seq(Callbacks)
  BY BoundsAssumption DEF TypeInv, ReadTypes, SlotTypes
<1>1. CASE ReadSaves
  <2>1. CallTypes' /\ ReadTypes' /\ SlotTypes'
    BY <1>1 DEF ReadSaves, TypeInv, CallTypes, ReadTypes, SlotTypes
  <2> QED BY <1>1, <2>1 DEF ReadSaves, TypeInv
<1>2. ASSUME NEW s \in Services, ReadAsks(s) PROVE TypeInv'
  <2> USE <1>2 DEF ReadAsks
  <2>1. readCalls' \in 1..MaxReads /\ readCalls' \in 0..MaxReads
    <3>1. readCalls < MaxReads /\ readCalls' = readCalls + 1
      BY DEF TypeInv, ReadTypes
    <3> QED BY <1>0, <3>1
  <2>2. slot' \in Seq(Callbacks) /\ saved' \in Seq(Callbacks)
    <3>1. ReadCallback(readCalls') \in Callbacks
      BY <2>1 DEF ReadCallback, Callbacks
    <3> QED BY <1>0, <3>1, ConsPlaces
  <2>3. reads' \subseteq linked \X (1..MaxReads)
    BY <2>1 DEF TypeInv, LinkTypes, ReadTypes, Found
  <2>4. CallTypes' /\ ReadTypes' /\ SlotTypes'
    BY <2>1, <2>2, <2>3 DEF TypeInv, CallTypes, ReadTypes, SlotTypes
  <2> QED BY <2>4 DEF TypeInv
<1>3. ASSUME NEW s \in Services, Subscribe(s) PROVE TypeInv'
  <2> USE <1>3 DEF Subscribe
  <2>1. subscriptions' \in 1..MaxSubscriptions /\ subscriptions' \in 0..MaxSubscriptions
    BY <1>0
  <2>2. slot' \in Seq(Callbacks)
    BY <2>1 DEF NotifyCallback, Callbacks
  <2>3. subscribed' \subseteq linked \X Notifying
    BY DEF TypeInv, LinkTypes, ReadTypes, CanNotify, Found
  <2>4. ReadTypes' /\ SlotTypes'
    BY <2>1, <2>2, <2>3 DEF TypeInv, ReadTypes, SlotTypes
  <2> QED BY <2>4 DEF TypeInv
<1>4. ASSUME NEW p \in Peripherals, NEW k \in 1..MaxReads,
             AnswerLost(p, k) \/ \E ok \in BOOLEAN : ReadAnswered(p, k, ok)
      PROVE  TypeInv'
  <2> USE <1>4 DEF ReadAnswered, AnswerLost, DidUpdateValue
  <2>1. SlotTypes'
    BY <1>0, RestoreTypes DEF SlotTypes
  <2>2. ReadTypes'
    BY DEF TypeInv, ReadTypes
  <2> QED BY <2>1, <2>2 DEF TypeInv
<1>5. ASSUME NEW p \in Peripherals, NEW s \in Services, Notified(p, s) PROVE TypeInv'
  <2> USE <1>5 DEF Notified, DidUpdateValue
  <2>1. SlotTypes'
    BY <1>0, RestoreTypes DEF SlotTypes
  <2>2. ReadTypes'
    BY DEF TypeInv, ReadTypes
  <2> QED BY <2>1, <2>2 DEF TypeInv
<1> QED BY <1>1, <1>2, <1>3, <1>4, <1>5

LEMMA TypeNext == TypeInv /\ [Next]_vars => TypeInv'
<1>1. TypeInv /\ UNCHANGED vars => TypeInv'
  BY TypeFrame DEF vars, scanVars, connectVars, slotVars, TypeInv
<1>2. TypeInv /\ Next => TypeInv'
  BY <1>1, ConnectTypes, DiscoveryTypes, ValueTypes DEF Next, Answer, Continue, ConnectRefused
<1> QED BY <1>1, <1>2

\* The variables keep their types, and what is asked of a peripheral or known of it
\* goes with its link.
THEOREM MacTypes == Spec => []TypeOK
BY TypeInit, TypeNext, FoundInit, FoundNext, TypeParts, PTL DEF Spec

------------------------------------------------------------------------------
(* What readiness means.                                                    *)

\* A connect() that begins alone is the only one there is until something fails: first
\* its connection is awaited, then its services, then their characteristics, and the
\* counter has as many as are still missing.
ReadyInv ==
    ~excuse /\ ~overlapped =>
        /\ connecting \cup discovering \subseteq {peripheral} /\ \A x \in asked : x[1] = peripheral
        /\ connecting # {} => discovering = {} /\ asked = {}
        /\ discovering # {} => asked = {}
        /\ asked # {} =>
              /\ peripheral \in linked /\ servicesCount = Cardinality(asked)
              /\ {peripheral} \X Services \subseteq asked \cup populated
        /\ ready =>
              /\ connecting = {} /\ discovering = {} /\ asked = {}
              /\ peripheral \in linked /\ {peripheral} \X Services \subseteq populated

LEMMA ReadyInit == Init => ReadyInv
BY DEF Init, ReadyInv

LEMMA ConnectReady ==
    ASSUME TypeInv, ReadyInv, NEW p \in Peripherals \cup {Nil}, Connect(p)
    PROVE  ReadyInv'
<1> SUFFICES ASSUME ~excuse', ~overlapped' PROVE ReadyInv'
  BY DEF ReadyInv
<1>1. ~ready' /\ p # Nil /\ peripheral' = p
  BY DEF Connect
<1>2. connecting' = {p} /\ discovering' = {} /\ asked' = {}
  BY <1>1 DEF Connect
<1> QED BY <1>1, <1>2 DEF ReadyInv

LEMMA LinkReady ==
    ASSUME TypeInv, ReadyInv, NEW p \in Peripherals, DidConnect(p)
    PROVE  ReadyInv'
<1> USE DEF DidConnect
<1> SUFFICES ASSUME ~excuse, ~overlapped PROVE ReadyInv'
  BY DEF ReadyInv
<1>1. p = peripheral /\ discovering = {} /\ asked = {} /\ ~ready
  BY DEF ReadyInv
<1>2. connecting' = {} /\ discovering' = {peripheral'} /\ asked' = {} /\ ~ready'
  BY <1>1 DEF ReadyInv
<1> QED BY <1>2 DEF ReadyInv

LEMMA ServicesReady ==
    ASSUME TypeInv, ReadyInv, CountInv', NEW p \in Peripherals, NEW offered \in {Services, {}},
           DidDiscoverServices(p, offered)
    PROVE  ReadyInv'
<1> USE DEF DidDiscoverServices
<1> SUFFICES ASSUME ~excuse', ~overlapped' PROVE ReadyInv'
  BY DEF ReadyInv
<1>1. ~excuse /\ ~overlapped /\ offered = Services /\ asked = {}
  OBVIOUS
<1>2. p = peripheral /\ connecting = {} /\ ~ready /\ discovering = {p}
  BY <1>1 DEF ReadyInv
<1>3. peripheral \in linked
  BY <1>2 DEF TypeInv, LinkTypes
<1>4. asked' = {peripheral} \X Services /\ ~mixed' /\ connecting' = {} /\ discovering' = {} /\ ~ready'
  BY <1>1, <1>2
<1>5. asked' # {} => servicesCount' = Cardinality(asked')
  BY <1>4 DEF CountInv, CountIsRight
<1>6. {peripheral'} \X Services \subseteq asked' \cup populated'
  BY <1>4
<1>7. \A x \in asked' : x[1] = peripheral'
  BY <1>4
<1> HIDE DEF DidDiscoverServices
<1>8. peripheral' \in linked'
  BY <1>3 DEF DidDiscoverServices
<1> QED BY <1>4, <1>5, <1>6, <1>7, <1>8 DEF ReadyInv

\* The answer that makes the counter zero is the last one awaited.
LEMMA AnswerReady ==
    ASSUME TypeInv, ReadyInv, NEW p \in Peripherals, NEW s \in Services, NEW ok \in BOOLEAN,
           DidDiscoverCharacteristics(p, s, ok)
    PROVE  ReadyInv'
<1> USE DEF DidDiscoverCharacteristics
<1> SUFFICES ASSUME ~excuse', ~overlapped' PROVE ReadyInv'
  BY DEF ReadyInv
<1>1. ~excuse /\ ~overlapped /\ ok /\ asked # {}
  OBVIOUS
<1>2. /\ p = peripheral /\ connecting = {} /\ discovering = {} /\ ~ready
      /\ peripheral \in linked /\ servicesCount = Cardinality(asked)
      /\ {peripheral} \X Services \subseteq asked \cup populated
      /\ \A x \in asked : x[1] = peripheral
  BY <1>1 DEF ReadyInv
<1>3. IsFiniteSet(asked) /\ IsFiniteSet(asked')
  <2>1. asked \subseteq Characteristics
    BY DEF TypeInv, LinkTypes, Characteristics
  <2>2. asked' \subseteq asked
    OBVIOUS
  <2> QED BY <2>1, <2>2, AskedIsFinite
<1>4. servicesCount' = Cardinality(asked')
  <2>1. Cardinality(asked') = Cardinality(asked) - 1
    BY <1>3, FS_RemoveElement
  <2> QED BY <1>2, <2>1 DEF CountAnswered
<1>5. {peripheral} \X Services \subseteq asked' \cup populated'
  BY <1>1, <1>2
<1>6. ready' => asked' = {}
  <2>1. ready' => servicesCount' = 0
    BY <1>2 DEF LastOne
  <2> QED BY <1>3, <1>4, <2>1, FS_EmptySet
<1>7. connecting' = {} /\ discovering' = {} /\ peripheral' = peripheral /\ peripheral' \in linked'
  BY <1>2
<1>8. \A x \in asked' : x[1] = peripheral'
  BY <1>2
<1> HIDE DEF DidDiscoverCharacteristics
<1> QED BY <1>4, <1>5, <1>6, <1>7, <1>8 DEF ReadyInv

LEMMA ReadyNext == TypeInv /\ CountInv /\ ReadyInv /\ [Next]_vars => ReadyInv'
<1> SUFFICES ASSUME TypeInv, CountInv, ReadyInv, [Next]_vars PROVE ReadyInv'
  OBVIOUS
<1>1. CASE \E p \in Peripherals \cup {Nil} : Connect(p)
  BY <1>1, ConnectReady
<1>2. CASE \E p \in Peripherals : DidConnect(p)
  BY <1>2, LinkReady
<1>3. CASE \E p \in Peripherals, offered \in {Services, {}} : DidDiscoverServices(p, offered)
  BY <1>3, CountNext, ServicesReady
<1>4. CASE \E p \in Peripherals, s \in Services, ok \in BOOLEAN : DidDiscoverCharacteristics(p, s, ok)
  BY <1>4, AnswerReady
<1>5. CASE excuse'
  BY <1>5 DEF ReadyInv
<1>6. CASE Disconnect
  BY <1>6 DEF Disconnect, ReadyInv
<1>7. CASE UNCHANGED connectVars
  BY <1>7 DEF connectVars, ReadyInv
<1> QED
  BY <1>1, <1>2, <1>3, <1>4, <1>5, <1>6, <1>7
  DEF Next, vars, Answer, Continue, ScanStart, ScanStop, ConnectRefused, ReadSaves, Subscribe, ConnectReturns,
      ReadAsks, FailsToConnect, ServicesLost, CharacteristicsLost, DidDisconnect, DidDiscoverPeripheral,
      ReadAnswered, AnswerLost, Notified, DidUpdateValue

\* is_connected() tells that the present peripheral has a link and that every characteristic
\* of it is known, unless something failed or the connect() did not begin alone.
THEOREM ReadyIsPopulated == Spec => []ReadyMeansPopulated
<1>1. ReadyInv => ReadyMeansPopulated
  BY DEF ReadyInv, ReadyMeansPopulated
<1> QED BY <1>1, TypeInit, TypeNext, CountInit, CountNext, ReadyInit, ReadyNext, PTL DEF Spec

------------------------------------------------------------------------------
(* The one slot for all values.                                             *)

\* Callbacks of reads on top of the one that was subscribed last.
Stacked(callbacks) ==
    /\ subscriptions > 0 => callbacks # <<>> /\ callbacks[Len(callbacks)] = NotifyCallback(subscriptions)
    /\ \A i \in DOMAIN callbacks : subscriptions = 0 \/ i < Len(callbacks) => callbacks[i].kind = "read"

ReadCallbacks == {c \in Callbacks : c.kind = "read"}

\* No more callbacks of reads are in the slot than reads are waiting.
SlotCounts == ~spoiled => Count(slot, ReadCallbacks) <= Cardinality(reads)

SlotInv == Stacked(slot) /\ (pc = "saving" => Stacked(saved)) /\ SlotCounts

LEMMA StackTail ==
    ASSUME NEW c \in Seq(Callbacks), Stacked(c), c # <<>>, c[1].kind = "read"
    PROVE  Stacked(Tail(c))
<1>1. Len(c) \in Nat \ {0} /\ DOMAIN c = 1..Len(c)
  OBVIOUS
<1>2. /\ Len(Tail(c)) = Len(c) - 1 /\ DOMAIN Tail(c) = 1..(Len(c) - 1)
      /\ \A i \in 1..(Len(c) - 1) : Tail(c)[i] = c[i + 1]
  BY <1>1
<1>3. \A i \in DOMAIN Tail(c) : subscriptions = 0 \/ i < Len(Tail(c)) => Tail(c)[i].kind = "read"
  BY <1>1, <1>2 DEF Stacked
<1>4. ASSUME subscriptions > 0
      PROVE  Tail(c) # <<>> /\ Tail(c)[Len(Tail(c))] = NotifyCallback(subscriptions)
  <2>1. c[Len(c)].kind = "notify"
    BY <1>4 DEF Stacked, NotifyCallback
  <2>2. Len(c) - 1 \in 1..(Len(c) - 1)
    BY <1>1, <2>1
  <2> QED BY <1>1, <1>2, <1>4, <2>2 DEF Stacked
<1> QED BY <1>3, <1>4 DEF Stacked

LEMMA StackCons ==
    ASSUME NEW c \in Seq(Callbacks), Stacked(c), NEW m \in ReadCallbacks
    PROVE  Stacked(<<m>> \o c)
<1> DEFINE d == <<m>> \o c
<1>1. m \in Callbacks /\ m.kind = "read" /\ Len(c) \in Nat /\ DOMAIN c = 1..Len(c)
  BY DEF ReadCallbacks
<1>2. /\ d \in Seq(Callbacks) /\ d # <<>> /\ Len(d) = Len(c) + 1
      /\ d[1] = m /\ \A i \in DOMAIN c : d[i + 1] = c[i]
  BY <1>1, ConsPlaces
<1>3. DOMAIN d = 1..(Len(c) + 1)
  BY <1>2
<1> HIDE DEF d
<1>4. ASSUME NEW i \in DOMAIN d, subscriptions = 0 \/ i < Len(d) PROVE d[i].kind = "read"
  <2>1. CASE i = 1
    BY <1>1, <1>2, <2>1
  <2>2. CASE i # 1
    <3>1. i - 1 \in DOMAIN c /\ (i - 1) + 1 = i /\ (i < Len(d) => i - 1 < Len(c))
      BY <1>1, <1>2, <1>3, <2>2
    <3>2. d[i] = c[i - 1]
      BY <1>2, <3>1
    <3> QED BY <1>4, <3>1, <3>2 DEF Stacked
  <2> QED BY <2>1, <2>2
<1>5. ASSUME subscriptions > 0 PROVE d[Len(d)] = NotifyCallback(subscriptions)
  <2>1. Len(c) \in DOMAIN c
    BY <1>1, <1>5 DEF Stacked
  <2> QED BY <1>2, <1>5, <2>1 DEF Stacked
<1>6. Stacked(d)
  BY <1>2, <1>4, <1>5 DEF Stacked
<1> QED BY <1>6 DEF d

\* Without a callback of a read only the one that was subscribed last is left.
LEMMA StackBottom ==
    ASSUME NEW c \in Seq(Callbacks), Stacked(c), Count(c, ReadCallbacks) = 0, subscriptions \in Nat
    PROVE  c = IF subscriptions = 0 THEN <<>> ELSE <<NotifyCallback(subscriptions)>>
<1>1. Len(c) \in Nat /\ DOMAIN c = 1..Len(c)
  OBVIOUS
<1>2. \A i \in DOMAIN c : c[i].kind # "read"
  BY ElementsOfSeq, PlacesAreFinite DEF ReadCallbacks
<1>3. CASE subscriptions = 0
  <2>1. Len(c) = 0
    BY <1>1, <1>2, <1>3 DEF Stacked
  <2> QED BY <1>3, <2>1
<1>4. CASE subscriptions # 0
  <2>1. c # <<>> /\ c[Len(c)] = NotifyCallback(subscriptions)
    BY <1>4 DEF Stacked
  <2>2. Len(c) = 1
    <3>1. ~(1 < Len(c))
      BY <1>1, <1>2 DEF Stacked
    <3> QED BY <1>1, <2>1, <3>1
  <2>3. \A v : c[1] = v => c = <<v>>
    BY <2>2
  <2> QED BY <1>4, <2>1, <2>2, <2>3
<1> QED BY <1>3, <1>4

\* A callback that is no read's on top of the slot is alone.
LEMMA StackAlone ==
    ASSUME NEW c \in Seq(Callbacks), Stacked(c), ~(c # <<>> /\ c[1].kind = "read")
    PROVE  Count(c, ReadCallbacks) = 0
<1>1. Len(c) \in Nat /\ DOMAIN c = 1..Len(c)
  OBVIOUS
<1>2. \A i \in DOMAIN c : i = 1
  BY <1>1 DEF Stacked
<1>3. \A i \in DOMAIN c : c[i].kind # "read"
  BY <1>1, <1>2
<1> QED BY <1>3, PlacesAreFinite DEF ReadCallbacks

ReadsCounted == IsFiniteSet(reads) /\ Cardinality(reads) \in Nat

LEMMA ReadsAreFinite == (TypeInv => ReadsCounted) /\ (TypeInv' => ReadsCounted')
<1>1. TypeInv => ReadsCounted
  <2> SUFFICES ASSUME TypeInv PROVE IsFiniteSet(reads)
    BY FS_CardinalityType DEF ReadsCounted
  <2>1. IsFiniteSet(linked)
    BY PeripheralsAssumption, FS_Subset DEF TypeInv, LinkTypes
  <2>2. IsFiniteSet(1..MaxReads)
    BY BoundsAssumption, FS_Interval
  <2>3. IsFiniteSet(linked \X (1..MaxReads))
    BY <2>1, <2>2, FS_Product
  <2> QED BY <2>3, FS_Subset DEF TypeInv, ReadTypes
<1> QED BY <1>1, PTL

LEMMA SlotInit == Init => SlotInv
<1> SUFFICES ASSUME Init PROVE SlotInv
  OBVIOUS
<1>1. slot = <<>> /\ pc = "idle" /\ reads = {} /\ subscriptions = 0
  BY DEF Init
<1>2. Count(slot, ReadCallbacks) = 0 /\ Cardinality(reads) = 0
  <2>1. <<>> \in Seq(Callbacks) /\ \A i \in DOMAIN <<>> : <<>>[i] \notin ReadCallbacks
    OBVIOUS
  <2> QED BY <1>1, <2>1, PlacesAreFinite, FS_EmptySet
<1> QED BY <1>1, <1>2 DEF SlotInv, Stacked, SlotCounts

LEMMA AsksSlot ==
    ASSUME TypeInv, SlotInv, NEW s \in Services, ReadAsks(s)
    PROVE  SlotInv'
<1> DEFINE c == ReadCallback(readCalls')
<1>1. c \in ReadCallbacks
  <2>1. MaxReads \in Nat /\ readCalls \in 0..MaxReads /\ readCalls < MaxReads /\ readCalls' = readCalls + 1
    BY BoundsAssumption DEF TypeInv, ReadTypes, ReadAsks
  <2>2. readCalls' \in 1..MaxReads
    BY <2>1
  <2> QED BY <2>2 DEF ReadCallback, Callbacks, ReadCallbacks
<1> HIDE DEF c
<1>2. slot' = <<c>> \o saved /\ pc' = "idle" /\ subscriptions' = subscriptions
  BY DEF ReadAsks, c
<1>3. saved \in Seq(Callbacks) /\ c \in Callbacks /\ Stacked(saved)
  BY <1>1 DEF TypeInv, SlotTypes, ReadCallbacks, SlotInv, ReadAsks
<1>4. Stacked(slot')
  BY <1>1, <1>2, <1>3, StackCons
<1>5. Stacked(slot)'
  BY <1>2, <1>4 DEF Stacked
<1>6. SlotCounts'
  <2> SUFFICES ASSUME ~spoiled' PROVE Count(slot', ReadCallbacks) <= Cardinality(reads')
    BY DEF SlotCounts
  <2>1. ~spoiled /\ reads' # reads /\ slot = saved
    BY DEF ReadAsks
  <2>2. Count(slot', ReadCallbacks) = Count(saved, ReadCallbacks) + 1
    <3>1. /\ <<c>> \o saved \in Seq(Callbacks) /\ <<c>> \o saved # <<>>
          /\ Head(<<c>> \o saved) = c /\ Tail(<<c>> \o saved) = saved
      BY <1>3, ConsPlaces
    <3>2. Count(<<c>> \o saved, ReadCallbacks) = Count(saved, ReadCallbacks) + 1
      BY <1>1, <3>1, CountTail
    <3> QED BY <1>2, <3>2
  <2>3. Cardinality(reads') = Cardinality(reads) + 1
    <3>1. reads' = reads \cup {<<peripheral, readCalls'>>} /\ <<peripheral, readCalls'>> \notin reads
      BY <2>1 DEF ReadAsks
    <3> QED BY <3>1, ReadsAreFinite, FS_AddElement DEF ReadsCounted
  <2>4. Count(saved, ReadCallbacks) <= Cardinality(reads)
    BY <2>1 DEF SlotInv, SlotCounts
  <2>5. Count(saved, ReadCallbacks) \in Nat /\ Cardinality(reads) \in Nat
    BY <1>3, ReadsAreFinite, PlacesAreFinite DEF ReadsCounted
  <2> QED BY <2>2, <2>3, <2>4, <2>5
<1> QED BY <1>2, <1>5, <1>6 DEF SlotInv

LEMMA SubscribeSlot ==
    ASSUME TypeInv, SlotInv, NEW s \in Services, Subscribe(s)
    PROVE  SlotInv'
<1> DEFINE c == NotifyCallback(subscriptions')
<1>1. slot' = <<c>> /\ pc' = "idle" /\ reads' = reads /\ subscriptions' \in Nat \ {0}
  BY BoundsAssumption DEF Subscribe, TypeInv, ReadTypes
<1>2. c.kind = "notify" /\ c \in Callbacks
  <2>1. subscriptions' \in 1..MaxSubscriptions
    BY BoundsAssumption DEF Subscribe, TypeInv, ReadTypes
  <2> QED BY <2>1 DEF NotifyCallback, Callbacks
<1> HIDE DEF c
<1>3. <<c>> \in Seq(Callbacks) /\ Len(<<c>>) = 1 /\ DOMAIN <<c>> = {1} /\ <<c>>[1] = c
  BY <1>2
<1>4. Stacked(slot)'
  BY <1>1, <1>3 DEF Stacked, c
<1>5. Count(slot', ReadCallbacks) = 0
  BY <1>1, <1>2, <1>3, PlacesAreFinite DEF ReadCallbacks
<1>6. Cardinality(reads) \in Nat
  BY ReadsAreFinite DEF ReadsCounted
<1> QED BY <1>1, <1>4, <1>5, <1>6 DEF SlotInv, SlotCounts

\* A value that comes takes a callback from the slot, if there is a read's, and takes
\* at most one read away.
LEMMA ValueSlot ==
    ASSUME TypeInv, TypeInv', SlotInv, NEW value, DidUpdateValue(value),
           reads' = reads \/ \E x \in reads : reads' = reads \ {x}
    PROVE  SlotInv'
<1>1. slot' = Restore /\ UNCHANGED <<saved, pc, subscriptions, spoiled>>
  BY DEF DidUpdateValue
<1>2. slot \in Seq(Callbacks) /\ Stacked(slot)
  BY DEF TypeInv, SlotTypes, SlotInv
<1>3. /\ Stacked(Restore) /\ Restore \in Seq(Callbacks)
      /\ \/ Count(Restore, ReadCallbacks) = 0
         \/ Count(slot, ReadCallbacks) = Count(Restore, ReadCallbacks) + 1
  <2>1. CASE ReadOnTop
    <3>1. Restore = Tail(slot) /\ slot # <<>> /\ slot[1].kind = "read"
      BY <2>1 DEF ReadOnTop, Restore
    <3>2. Stacked(Tail(slot)) /\ Tail(slot) \in Seq(Callbacks) /\ Head(slot) = slot[1] /\ slot[1] \in Callbacks
      BY <1>2, <3>1, StackTail, TailPlaces
    <3>3. Count(slot, ReadCallbacks) = Count(Tail(slot), ReadCallbacks) + 1
      BY <1>2, <3>1, <3>2, CountTail DEF ReadCallbacks
    <3> QED BY <3>1, <3>2, <3>3
  <2>2. CASE ~ReadOnTop
    BY <1>2, <2>2, StackAlone DEF ReadOnTop, Restore
  <2> QED BY <2>1, <2>2
<1>4. Cardinality(reads') \in Nat /\ Cardinality(reads) \in Nat /\ Cardinality(reads') >= Cardinality(reads) - 1
  <2>1. IsFiniteSet(reads) /\ Cardinality(reads) \in Nat /\ Cardinality(reads') \in Nat
    BY ReadsAreFinite DEF ReadsCounted
  <2>2. ASSUME NEW x \in reads, reads' = reads \ {x} PROVE Cardinality(reads') = Cardinality(reads) - 1
    BY <2>1, <2>2, FS_RemoveElement
  <2> QED BY <2>1, <2>2
<1>5. Count(slot, ReadCallbacks) \in Nat /\ Count(Restore, ReadCallbacks) \in Nat
  BY <1>2, <1>3, PlacesAreFinite
<1>6. ~spoiled => Count(Restore, ReadCallbacks) <= Cardinality(reads')
  BY <1>3, <1>4, <1>5 DEF SlotInv, SlotCounts
<1>7. Stacked(slot)' /\ (pc' = "saving" => Stacked(saved)')
  BY <1>1, <1>3 DEF SlotInv, Stacked
<1> QED BY <1>1, <1>6, <1>7 DEF SlotInv, SlotCounts

LEMMA SlotNext == TypeInv /\ SlotInv /\ [Next]_vars => SlotInv'
<1> SUFFICES ASSUME TypeInv, SlotInv, [Next]_vars PROVE SlotInv'
  OBVIOUS
<1>1. TypeInv'
  BY TypeNext
<1>2. CASE \E s \in Services : ReadAsks(s)
  BY <1>2, AsksSlot
<1>3. CASE \E s \in Services : Subscribe(s)
  BY <1>3, SubscribeSlot
<1>4. CASE \E p \in Peripherals : \/ \E k \in 1..MaxReads, ok \in BOOLEAN : ReadAnswered(p, k, ok)
                                  \/ \E s \in Services : Notified(p, s)
  BY <1>1, <1>4, ValueSlot DEF ReadAnswered, Notified
<1>5. CASE ReadSaves
  BY <1>5 DEF ReadSaves, SlotInv, SlotCounts, Stacked
<1>6. CASE UNCHANGED <<slot, saved, spoiled, reads, subscriptions>> /\ (pc' = pc \/ pc' # "saving")
  BY <1>6 DEF SlotInv, SlotCounts, Stacked
<1>7. CASE \E p \in Peripherals : DidDisconnect(p) \/ \E k \in 1..MaxReads : AnswerLost(p, k)
  <2>1. UNCHANGED <<slot, saved, subscriptions, pc>> /\ (~spoiled' => ~spoiled /\ UNCHANGED reads)
    BY <1>7 DEF DidDisconnect, AnswerLost
  <2> QED BY <2>1 DEF SlotInv, SlotCounts, Stacked
<1> QED
  BY <1>2, <1>3, <1>4, <1>5, <1>6, <1>7
  DEF Next, vars, slotVars, Answer, Continue, ScanStart, ScanStop, ConnectRefused, Connect, Disconnect,
      ConnectReturns, DidConnect, FailsToConnect, DidDiscoverServices, ServicesLost, CharacteristicsLost,
      DidDiscoverCharacteristics, DidDiscoverPeripheral

\* Reads that were answered, with a value or an error, leave the callback of the latest
\* notify() or indicate() alone in the slot, unless one was refused or lost or put an old
\* slot back.
THEOREM SlotIsLeft == Spec => []ReadLeavesTheSlot
<1>1. TypeInv /\ SlotInv => ReadLeavesTheSlot
  <2> SUFFICES ASSUME TypeInv, SlotInv, reads = {}, ~spoiled
               PROVE  slot = IF subscriptions = 0 THEN <<>> ELSE <<NotifyCallback(subscriptions)>>
    BY DEF ReadLeavesTheSlot
  <2>1. slot \in Seq(Callbacks) /\ Stacked(slot) /\ subscriptions \in Nat
    BY BoundsAssumption DEF TypeInv, SlotTypes, ReadTypes, SlotInv
  <2>2. Count(slot, ReadCallbacks) = 0
    BY <2>1, PlacesAreFinite, FS_EmptySet DEF SlotInv, SlotCounts
  <2> QED BY <2>1, <2>2, StackBottom
<1> QED BY <1>1, TypeInit, TypeNext, SlotInit, SlotNext, PTL DEF Spec

\* Of the callbacks of reads in the slot only the top one can be undisturbed: its read
\* waits, and no other does.
AnswerInv ==
    /\ mistaken \subseteq disturbed
    /\ \A i \in DOMAIN slot :
          slot[i].kind = "read" => slot[i].id \in disturbed \/ (i = 1 /\ slot[i].id \in Calls(reads))
    /\ \A x \in reads : x[2] \in disturbed \/ reads = {x}

LEMMA AnswerInit == Init => AnswerInv
BY DEF Init, AnswerInv

LEMMA AsksAnswer ==
    ASSUME TypeInv, AnswerInv, NEW s \in Services, ReadAsks(s)
    PROVE  AnswerInv'
<1> DEFINE c == ReadCallback(readCalls')
<1>1. c.kind = "read" /\ c.id = readCalls' /\ c \in Callbacks
  <2>1. MaxReads \in Nat /\ readCalls \in 0..MaxReads /\ readCalls < MaxReads /\ readCalls' = readCalls + 1
    BY BoundsAssumption DEF TypeInv, ReadTypes, ReadAsks
  <2>2. readCalls' \in 1..MaxReads
    BY <2>1
  <2> QED BY <2>2 DEF ReadCallback, Callbacks
<1> HIDE DEF c
<1>2. slot' = <<c>> \o saved /\ mistaken' = mistaken /\ disturbed \subseteq disturbed'
  BY DEF ReadAsks, c
<1>3. saved \in Seq(Callbacks)
  BY DEF TypeInv, SlotTypes
<1>4. /\ slot' \in Seq(Callbacks) /\ slot'[1] = c /\ Len(slot') = Len(saved) + 1
      /\ \A i \in DOMAIN saved : slot'[i + 1] = saved[i]
  BY <1>1, <1>2, <1>3, ConsPlaces
<1>5. /\ reads # {} => Calls(reads) \cup {readCalls'} \subseteq disturbed'
      /\ reads' = reads => readCalls' \in disturbed'
      /\ slot # saved => CallsIn(saved) \subseteq disturbed'
      /\ reads' = reads \/ reads' = reads \cup {<<peripheral, readCalls'>>}
  BY DEF ReadAsks
<1>6. \A x \in reads' : x[2] \in disturbed' \/ reads' = {x}
  BY <1>5 DEF Calls
<1>7. ASSUME NEW i \in DOMAIN slot', slot'[i].kind = "read"
      PROVE  slot'[i].id \in disturbed' \/ (i = 1 /\ slot'[i].id \in Calls(reads'))
  <2>1. CASE i = 1
    <3>1. readCalls' \in disturbed' \/ readCalls' \in Calls(reads')
      BY <1>5 DEF Calls
    <3> QED BY <1>1, <1>4, <2>1, <3>1
  <2>2. CASE i # 1
    <3>1. PICK j \in DOMAIN saved : slot'[i] = saved[j]
      <4>1. i - 1 \in DOMAIN saved /\ (i - 1) + 1 = i
        BY <1>3, <1>4, <2>2
      <4> QED BY <1>4, <4>1
    <3>2. CASE slot # saved
      <4>1. saved[j].id \in CallsIn(saved)
        BY <1>7, <3>1 DEF CallsIn
      <4> QED BY <1>5, <3>1, <3>2, <4>1
    <3>3. CASE slot = saved
      <4>1. saved[j].id \in disturbed \/ saved[j].id \in Calls(reads)
        BY <1>7, <3>1, <3>3 DEF AnswerInv
      <4>2. saved[j].id \in Calls(reads) => reads # {}
        BY DEF Calls
      <4> QED BY <1>2, <1>5, <3>1, <4>1, <4>2
    <3> QED BY <3>2, <3>3
  <2> QED BY <2>1, <2>2
<1> QED BY <1>2, <1>6, <1>7 DEF AnswerInv

\* What the handler of a value does to the callbacks, whatever comes: a disturbed read may
\* be called with it, and what stays in the slot is disturbed.
LEMMA HandlerLeaves ==
    ASSUME TypeInv, AnswerInv
    PROVE  /\ \A k \in Called : k \in disturbed \/ k \in Calls(reads)
           /\ \A i \in DOMAIN Restore : Restore[i].kind = "read" => Restore[i].id \in disturbed
<1>1. slot \in Seq(Callbacks)
  BY DEF TypeInv, SlotTypes
<1>2. CASE ReadOnTop
  <2>1. slot # <<>> /\ slot[1].kind = "read" /\ Called = {slot[1].id} /\ Restore = Tail(slot)
    BY <1>2 DEF ReadOnTop, Called, Restore
  <2>2. /\ 1 \in DOMAIN slot
        /\ \A i \in DOMAIN Tail(slot) : i + 1 \in DOMAIN slot /\ Tail(slot)[i] = slot[i + 1] /\ i + 1 # 1
    BY <1>1, <2>1, TailPlaces
  <2> QED BY <2>1, <2>2 DEF AnswerInv
<1>3. CASE ~ReadOnTop
  <2>1. Called = {} /\ Restore = slot
    BY <1>3 DEF Called, Restore
  <2>2. \A i \in DOMAIN slot : i = 1 => slot[i].kind # "read"
    BY <1>1, <1>3 DEF ReadOnTop
  <2> QED BY <2>1, <2>2 DEF AnswerInv
<1> QED BY <1>2, <1>3

LEMMA AnsweredAnswer ==
    ASSUME TypeInv, AnswerInv, NEW p \in Peripherals, NEW k \in 1..MaxReads, NEW ok \in BOOLEAN,
           ReadAnswered(p, k, ok)
    PROVE  AnswerInv'
<1> DEFINE value == IF ok THEN k ELSE OtherValue
<1>1. /\ <<p, k>> \in reads /\ reads' = reads \ {<<p, k>>} /\ slot' = Restore
      /\ mistaken' = mistaken \cup (Called \ {value})
      /\ disturbed \subseteq disturbed' /\ (~ok => k \in disturbed')
  BY DEF ReadAnswered, DidUpdateValue
<1>2. ASSUME NEW j \in Called PROVE j \in disturbed \/ j = k
  <2>1. CASE j \in Calls(reads)
    <3>1. PICK x \in reads : x[2] = j
      BY <2>1 DEF Calls
    <3>2. j \in disturbed \/ reads = {x}
      BY <3>1 DEF AnswerInv
    <3> QED BY <1>1, <3>1, <3>2
  <2> QED BY <1>2, <2>1, HandlerLeaves
<1>3. mistaken' \subseteq disturbed'
  BY <1>1, <1>2 DEF AnswerInv
<1>4. \A x \in reads' : x[2] \in disturbed' \/ reads' = {x}
  BY <1>1 DEF AnswerInv
<1>5. \A i \in DOMAIN slot' : slot'[i].kind = "read" => slot'[i].id \in disturbed'
  BY <1>1, HandlerLeaves
<1> QED BY <1>3, <1>4, <1>5 DEF AnswerInv

LEMMA NotifiedAnswer ==
    ASSUME TypeInv, AnswerInv, NEW p \in Peripherals, NEW s \in Services, Notified(p, s)
    PROVE  AnswerInv'
<1>1. /\ reads' = reads /\ slot' = Restore /\ mistaken' \subseteq mistaken \cup Called
      /\ disturbed' = disturbed \cup Calls(reads)
  BY DEF Notified, DidUpdateValue
<1>2. mistaken' \subseteq disturbed'
  BY <1>1, HandlerLeaves DEF AnswerInv
<1>3. \A i \in DOMAIN slot' : slot'[i].kind = "read" => slot'[i].id \in disturbed'
  BY <1>1, HandlerLeaves
<1> QED BY <1>1, <1>2, <1>3 DEF AnswerInv

\* A read that is lost is disturbed.
LEMMA LostAnswer ==
    ASSUME AnswerInv, UNCHANGED <<slot, mistaken>>, reads' \subseteq reads, disturbed \subseteq disturbed',
           \A x \in reads : x \in reads' \/ x[2] \in disturbed'
    PROVE  AnswerInv'
<1>1. \A k \in Calls(reads) : k \in Calls(reads') \/ k \in disturbed'
  BY DEF Calls
<1>2. \A x \in reads' : x[2] \in disturbed' \/ reads' = {x}
  BY DEF AnswerInv
<1> QED BY <1>1, <1>2 DEF AnswerInv

LEMMA AnswerNext == TypeInv /\ AnswerInv /\ [Next]_vars => AnswerInv'
<1> SUFFICES ASSUME TypeInv, AnswerInv, [Next]_vars PROVE AnswerInv'
  OBVIOUS
<1>1. CASE \E s \in Services : ReadAsks(s)
  BY <1>1, AsksAnswer
<1>2. CASE \E p \in Peripherals, k \in 1..MaxReads, ok \in BOOLEAN : ReadAnswered(p, k, ok)
  BY <1>2, AnsweredAnswer
<1>3. CASE \E s \in Services : Subscribe(s)
  BY <1>3 DEF Subscribe, NotifyCallback, AnswerInv
<1>4. CASE \E p \in Peripherals, s \in Services : Notified(p, s)
  BY <1>4, NotifiedAnswer
<1>5. CASE \E p \in Peripherals, k \in 1..MaxReads : AnswerLost(p, k)
  BY <1>5, LostAnswer DEF AnswerLost
<1>6. CASE \E p \in Peripherals : DidDisconnect(p)
  <2>1. /\ UNCHANGED <<slot, mistaken>> /\ reads' \subseteq reads
        /\ disturbed' = disturbed \cup Calls(reads \ reads')
    BY <1>6 DEF DidDisconnect, Without
  <2> QED BY <2>1, LostAnswer DEF Calls
<1>7. CASE UNCHANGED <<slot, mistaken, disturbed, reads>>
  BY <1>7, LostAnswer
<1> QED
  BY <1>1, <1>2, <1>3, <1>4, <1>5, <1>6, <1>7
  DEF Next, vars, slotVars, Answer, Continue, ScanStart, ScanStop, ConnectRefused, Connect, Disconnect,
      ConnectReturns, ReadSaves, DidConnect, FailsToConnect, DidDiscoverServices, ServicesLost,
      CharacteristicsLost, DidDiscoverPeripheral, DidDiscoverCharacteristics

\* The callback of a read is called only with the value that this read asked for, unless
\* the read was refused, failed or was lost, another read or value met it while it waited,
\* or its callback was put back.
THEOREM ReadsGetTheirs == Spec => []ReadGetsItsValue
<1>1. AnswerInv => ReadGetsItsValue
  BY DEF AnswerInv, ReadGetsItsValue
<1> QED BY <1>1, TypeInit, TypeNext, AnswerInit, AnswerNext, PTL DEF Spec
===============================================================================
