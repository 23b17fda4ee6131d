--------------------------- MODULE BluezMirror_proofs ---------------------------
(***************************************************************************)
(* Theorems about BluezMirror, for any set of paths.                       *)
(***************************************************************************)
EXTENDS BluezMirror, TLAPS, QueueLemmas

\* Depths are numbers, and the prefixes of a path are the chain from its adapter
\* down to its parent: below any of them lie the rest.
LEMMA AboveIsAChain ==
    ASSUME NEW p \in Paths, NEW q \in Above[p], Depth[q] = Depth[p] - 1
    PROVE  Above[p] \subseteq Above[q] \cup {q}
<1> SUFFICES ASSUME NEW r \in Above[p], r # q PROVE r \in Above[q]
  OBVIOUS
<1>1. /\ q \in Paths /\ r \in Paths
      /\ Depth[p] \in 3..6 /\ Depth[q] \in 3..6 /\ Depth[r] \in 3..6
  BY DepthAssumption, AboveAssumption
<1>2. Depth[r] < Depth[p] /\ Depth[r] # Depth[q]
  BY AboveAssumption
<1>3. Depth[r] \in 3..(Depth[q] - 1)
  BY <1>1, <1>2
<1>4. PICK x \in Above[q] : Depth[x] = Depth[r]
  BY <1>1, <1>3, AboveAssumption
<1>5. x \in Above[p]
  BY <1>4, AboveAssumption
<1> QED BY <1>4, <1>5, AboveAssumption

LEMMA AdapterHasNothingAbove ==
    ASSUME NEW p \in Paths, Depth[p] = AdapterDepth
    PROVE  Above[p] = {}
<1> SUFFICES ASSUME NEW q \in Above[p] PROVE FALSE
  OBVIOUS
<1>1. q \in Paths /\ Depth[q] < Depth[p]
  BY AboveAssumption
<1>2. Depth[q] \in 3..6
  BY <1>1, DepthAssumption
<1> QED BY <1>1, <1>2 DEF AdapterDepth

\* A path whose prefixes the tree holds is filed there.
LEMMA ClaimedBelow ==
    ASSUME NEW tree, NEW p \in Paths, Above[p] \subseteq DOMAIN tree
    PROVE  Claimed(tree, p)
<1>1. CASE Depth[p] = AdapterDepth
  BY <1>1 DEF Claimed
<1>2. CASE Depth[p] # AdapterDepth
  <2>1. Depth[p] \in 3..6 /\ Depth[p] - 1 \in 3..(Depth[p] - 1)
    BY <1>2, DepthAssumption DEF AdapterDepth
  <2>2. PICK q \in Above[p] : Depth[q] = Depth[p] - 1
    BY <2>1, AboveAssumption
  <2> QED BY <2>2 DEF Claimed
<1> QED BY <1>1, <1>2

\* emplace files a path the tree lacks and keeps every object there is.
LEMMA AddPathFiles ==
    ASSUME NEW tree, NEW p, NEW v
    PROVE  /\ DOMAIN AddPath(tree, p, v) \subseteq DOMAIN tree \cup {p}
           /\ \A q \in DOMAIN tree :
                 q \in DOMAIN AddPath(tree, p, v) /\ AddPath(tree, p, v)[q] = tree[q]
           /\ p \notin DOMAIN tree /\ Claimed(tree, p) =>
                 p \in DOMAIN AddPath(tree, p, v) /\ AddPath(tree, p, v)[p] = v
BY DEF AddPath

\* A removal takes away an adapter and what is below it, and leaves the rest as it is.
LEMMA RemovePathKeeps ==
    ASSUME NEW tree, NEW p
    PROVE  /\ DOMAIN RemovePath(tree, p) \subseteq DOMAIN tree
           /\ Depth[p] = AdapterDepth => p \notin DOMAIN RemovePath(tree, p)
           /\ \A q \in DOMAIN tree : Depth[p] # AdapterDepth \/ p \notin {q} \cup Above[q] =>
                 q \in DOMAIN RemovePath(tree, p) /\ RemovePath(tree, p)[q] = tree[q]
BY DEF RemovePath

\* A value reaches the object with exactly that path.
LEMMA SetOptionSets ==
    ASSUME NEW tree, NEW p, NEW v
    PROVE  /\ DOMAIN SetOption(tree, p, v) = DOMAIN tree
           /\ \A q \in DOMAIN tree : SetOption(tree, p, v)[q] \in {tree[q], v}
           /\ \A q \in DOMAIN tree : q # p => SetOption(tree, p, v)[q] = tree[q]
           /\ p \in DOMAIN tree => SetOption(tree, p, v)[p] = v
BY DEF SetOption

-------------------------------------------------------------------------------
(* What the operations on the tree do to its shape.                          *)

Tree(tree) == IsMap(tree, Values \cup {Blank}) /\ IsTree(tree)

\* Filing a path keeps the tree a tree: the code files it only below its parent.
LEMMA AddPathTree ==
    ASSUME NEW tree, Tree(tree), NEW p \in Paths, NEW v \in Values \cup {Blank}
    PROVE  Tree(AddPath(tree, p, v))
<1>1. CASE p \notin DOMAIN tree /\ Claimed(tree, p)
  <2> DEFINE new == [q \in DOMAIN tree \cup {p} |-> IF q = p THEN v ELSE tree[q]]
  <2>1. AddPath(tree, p, v) = new
    BY <1>1 DEF AddPath
  <2>2. DOMAIN new = DOMAIN tree \cup {p}
    OBVIOUS
  <2>3. IsMap(new, Values \cup {Blank})
    BY DEF Tree, IsMap
  <2>4. Above[p] \subseteq DOMAIN tree
    <3>1. CASE Depth[p] = AdapterDepth
      BY <3>1, AdapterHasNothingAbove
    <3>2. CASE \E q \in DOMAIN tree : q \in Above[p] /\ Depth[q] = Depth[p] - 1
      <4>1. PICK q \in DOMAIN tree : q \in Above[p] /\ Depth[q] = Depth[p] - 1
        BY <3>2
      <4>2. Above[p] \subseteq Above[q] \cup {q}
        BY <4>1, AboveIsAChain
      <4> QED BY <4>1, <4>2 DEF Tree, IsTree
    <3> QED BY <1>1, <3>1, <3>2 DEF Claimed
  <2>5. IsTree(new)
    BY <2>2, <2>4 DEF Tree, IsTree
  <2> QED BY <2>1, <2>3, <2>5 DEF Tree
<1>2. CASE ~(p \notin DOMAIN tree /\ Claimed(tree, p))
  BY <1>2 DEF AddPath
<1> QED BY <1>1, <1>2

\* Erasing an adapter keeps it a tree: all that was below goes with it.
LEMMA RemovePathTree ==
    ASSUME NEW tree, Tree(tree), NEW p \in Paths
    PROVE  Tree(RemovePath(tree, p))
<1>1. CASE Depth[p] = AdapterDepth
  <2> DEFINE rest == {r \in DOMAIN tree : r # p /\ p \notin Above[r]}
             new == [q \in rest |-> tree[q]]
  <2>1. RemovePath(tree, p) = new
    BY <1>1 DEF RemovePath
  <2>2. IsMap(new, Values \cup {Blank})
    BY DEF Tree, IsMap
  <2>3. ASSUME NEW r \in rest, NEW q \in Above[r]
        PROVE  q \in rest
    <3>1. q \in DOMAIN tree /\ r \in Paths
      BY DEF Tree, IsTree, IsMap
    <3>2. Above[q] \subseteq Above[r]
      BY <3>1, AboveAssumption
    <3> QED BY <3>1, <3>2
  <2>4. IsTree(new)
    BY <2>3 DEF IsTree
  <2> QED BY <2>1, <2>2, <2>4 DEF Tree
<1>2. CASE Depth[p] # AdapterDepth
  BY <1>2 DEF RemovePath
<1> QED BY <1>1, <1>2

LEMMA SetOptionTree ==
    ASSUME NEW tree, Tree(tree), NEW p \in Paths, NEW v \in Values
    PROVE  Tree(SetOption(tree, p, v))
BY DEF Tree, IsMap, IsTree, SetOption

-------------------------------------------------------------------------------
(* Type correctness.                                                         *)

LEMMA TypeInit == Init => TypeOK
<1> SUFFICES ASSUME Init PROVE TypeOK
  OBVIOUS
<1>1. IsMap(exported, Values)
  BY DEF Init, IsMap
<1>2. IsMap(NoObjects, Values) /\ IsMap(NoObjects, Values \cup {Blank}) /\ IsTree(NoObjects)
  BY DEF IsMap, IsTree, NoObjects
<1>3. bus \in Seq(Signal) /\ events \in 0..MaxEvents
  BY EventsAssumption DEF Init
<1> QED BY <1>1, <1>2, <1>3 DEF Init, TypeOK

\* Announcing a signal keeps the types of the bus and of the lost paths.
LEMMA AnnounceType ==
    ASSUME TypeOK, NEW s \in Signal, Announce(s)
    PROVE  bus' \in Seq(Signal) /\ lost' \subseteq Paths
BY DEF Announce, TypeOK, Signal

\* The signal at the head of the queue.
LEMMA ReceiveType ==
    ASSUME TypeOK, NEW op, Receive(op)
    PROVE  /\ Head(bus) \in Signal /\ Head(bus).op = op /\ Head(bus).path \in Paths
           /\ op \in {"added", "changed"} => Head(bus).val \in Values
           /\ bus' \in Seq(Signal)
<1>1. Head(bus) \in Signal /\ bus' \in Seq(Signal)
  BY DEF Receive, TypeOK
<1> QED BY <1>1 DEF Receive, Signal

\* A change BlueZ makes is counted, up to the bound.
LEMMA ChangeType ==
    ASSUME TypeOK, Change
    PROVE  /\ events' \in 0..MaxEvents
           /\ phase' = phase /\ snapshot' = snapshot /\ mirror' = mirror /\ routed' = routed
<1>1. MaxEvents \in Nat /\ events \in 0..MaxEvents
  BY EventsAssumption DEF TypeOK
<1> QED BY <1>1 DEF Change

LEMMA TypeNext == TypeOK /\ [Next]_vars => TypeOK'
<1> SUFFICES ASSUME TypeOK, [Next]_vars PROVE TypeOK'
  OBVIOUS
<1>0. Tree(mirror)
  BY DEF TypeOK, Tree
<1>1. CASE ListObjects
  BY <1>1 DEF ListObjects, TypeOK, bluezVars, history
<1>2. CASE FileListed
  <2>1. PICK p \in DOMAIN snapshot :
          /\ mirror' = AddPath(mirror, p, snapshot[p])
          /\ snapshot' = [q \in DOMAIN snapshot \ {p} |-> snapshot[q]]
    BY <1>2 DEF FileListed
  <2>2. p \in Paths /\ snapshot[p] \in Values
    BY DEF TypeOK, IsMap
  <2>3. Tree(mirror')
    BY <1>0, <2>1, <2>2, AddPathTree
  <2>4. IsMap(snapshot', Values)
    BY <2>1 DEF TypeOK, IsMap
  <2> QED BY <1>2, <2>3, <2>4 DEF FileListed, TypeOK, Tree, bluezVars, history
<1>3. CASE AddMatch \/ AddMatchFails
  BY <1>3 DEF AddMatch, AddMatchFails, TypeOK, bluezVars, history
<1>4. ASSUME NEW p \in Paths, NEW v \in Values, Export(p, v)
      PROVE  TypeOK'
  <2>1. [op |-> "added", path |-> p, val |-> v] \in Signal
    BY DEF Signal
  <2>2. bus' \in Seq(Signal) /\ lost' \subseteq Paths
    BY <1>4, <2>1, AnnounceType DEF Export
  <2>3. IsMap(exported', Values)
    <3>1. IsMap(exported, Values)
      BY DEF TypeOK
    <3> QED BY <1>4, <3>1 DEF Export, IsMap
  <2>4. Change
    BY <1>4 DEF Export
  <2> QED BY <1>4, <2>2, <2>3, <2>4, ChangeType DEF Export, TypeOK
<1>5. ASSUME NEW p \in Paths, NEW v \in Values, ChangeValue(p, v)
      PROVE  TypeOK'
  <2>1. [op |-> "changed", path |-> p, val |-> v] \in Signal
    BY DEF Signal
  <2>2. bus' \in Seq(Signal) /\ lost' \subseteq Paths
    BY <1>5, <2>1, AnnounceType DEF ChangeValue
  <2>3. IsMap(exported', Values)
    <3>1. IsMap(exported, Values)
      BY DEF TypeOK
    <3> QED BY <1>5, <3>1 DEF ChangeValue, IsMap
  <2>4. Change
    BY <1>5 DEF ChangeValue
  <2> QED BY <1>5, <2>2, <2>3, <2>4, ChangeType DEF ChangeValue, TypeOK
<1>6. ASSUME NEW p \in Paths, Withdraw(p)
      PROVE  TypeOK'
  <2>1. [op |-> "removed", path |-> p] \in Signal
    BY DEF Signal
  <2>2. bus' \in Seq(Signal) /\ lost' \subseteq Paths
    BY <1>6, <2>1, AnnounceType DEF Withdraw
  <2>3. IsMap(exported', Values)
    <3>1. IsMap(exported, Values)
      BY DEF TypeOK
    <3> QED BY <1>6, <3>1 DEF Withdraw, IsMap
  <2>4. Change
    BY <1>6 DEF Withdraw
  <2> QED BY <1>6, <2>2, <2>3, <2>4, ChangeType DEF Withdraw, TypeOK
<1>7. ASSUME NEW p \in Paths, GainInterface(p)
      PROVE  TypeOK'
  <2>1. [op |-> "interface", path |-> p] \in Signal
    BY DEF Signal
  <2>2. bus' \in Seq(Signal) /\ lost' \subseteq Paths
    BY <1>7, <2>1, AnnounceType DEF GainInterface
  <2>3. Change
    BY <1>7 DEF GainInterface
  <2> QED BY <1>7, <2>2, <2>3, ChangeType DEF GainInterface, TypeOK
<1>8. ASSUME NEW p \in Paths, LoseInterface(p)
      PROVE  TypeOK'
  <2>1. [op |-> "removed", path |-> p] \in Signal
    BY DEF Signal
  <2>2. bus' \in Seq(Signal) /\ lost' \subseteq Paths
    BY <1>8, <2>1, AnnounceType DEF LoseInterface
  <2>3. cut' \subseteq Paths
    BY <1>8 DEF LoseInterface, TypeOK
  <2>4. Change
    BY <1>8 DEF LoseInterface
  <2> QED BY <1>8, <2>2, <2>3, <2>4, ChangeType DEF LoseInterface, TypeOK
<1>9. CASE InterfacesAdded
  <2>1. Head(bus).path \in Paths /\ Head(bus).val \in Values /\ bus' \in Seq(Signal)
    BY <1>9, ReceiveType DEF InterfacesAdded
  <2>2. Tree(mirror')
    BY <1>0, <1>9, <2>1, AddPathTree DEF InterfacesAdded
  <2>3. shadowed' \subseteq Paths
    BY <1>9, <2>1 DEF InterfacesAdded, TypeOK
  <2> QED BY <1>9, <2>1, <2>2, <2>3 DEF InterfacesAdded, Receive, TypeOK, Tree, bluezVars
<1>10. CASE OtherInterfaceAdded
  <2>1. Head(bus).path \in Paths /\ bus' \in Seq(Signal)
    BY <1>10, ReceiveType DEF OtherInterfaceAdded
  <2>2. Tree(mirror')
    BY <1>0, <1>10, <2>1, AddPathTree DEF OtherInterfaceAdded
  <2> QED BY <1>10, <2>1, <2>2 DEF OtherInterfaceAdded, Receive, TypeOK, Tree, bluezVars
<1>11. CASE InterfacesRemoved
  <2>1. Head(bus).path \in Paths /\ bus' \in Seq(Signal)
    BY <1>11, ReceiveType DEF InterfacesRemoved
  <2>2. Tree(mirror')
    BY <1>0, <1>11, <2>1, RemovePathTree DEF InterfacesRemoved
  <2> QED BY <1>11, <2>1, <2>2 DEF InterfacesRemoved, Receive, TypeOK, Tree, bluezVars, history
<1>12. CASE PropertiesChanged
  <2>1. Head(bus).path \in Paths /\ Head(bus).val \in Values /\ bus' \in Seq(Signal)
    BY <1>12, ReceiveType DEF PropertiesChanged
  <2>2. Tree(mirror')
    BY <1>0, <1>12, <2>1, SetOptionTree DEF PropertiesChanged
  <2>3. shadowed' \subseteq Paths
    BY <1>12, <2>1 DEF PropertiesChanged, TypeOK
  <2> QED BY <1>12, <2>1, <2>2, <2>3 DEF PropertiesChanged, Receive, TypeOK, Tree, bluezVars
<1>13. CASE ListFails
  BY <1>13 DEF ListFails, TypeOK, bluezVars, history
<1>14. CASE StartThread
  BY <1>14 DEF StartThread, TypeOK, bluezVars, history
<1>15. CASE UNCHANGED vars
  BY <1>15 DEF vars, TypeOK, bluezVars, history
<1> QED
  BY <1>1, <1>2, <1>3, <1>4, <1>5, <1>6, <1>7, <1>8, <1>9, <1>10, <1>11, <1>12, <1>13, <1>14, <1>15
     DEF Next, Construct, BlueZ, RunAsync

-------------------------------------------------------------------------------
(* The inductive invariant behind the three properties of the tree.          *)

\* The exported objects whose signals all came here and none of whose adapters was
\* erased by mistake.
Good == {p \in DOMAIN exported : ~Spoiled(p, lost \cup cut)}

\* While the constructor files the snapshot.
ListInv ==
    /\ \A p \in DOMAIN exported : Above[p] \subseteq DOMAIN exported
    /\ phase \in {"new", "listed"} => ~routed
    /\ ~routed => bus = <<>>
    /\ phase = "new" => DOMAIN mirror = {}
    /\ phase # "listed" => DOMAIN snapshot = {}
    /\ DOMAIN snapshot \cap DOMAIN mirror = {}
    /\ \A p \in DOMAIN snapshot : Above[p] \subseteq DOMAIN snapshot \cup DOMAIN mirror
    /\ phase = "listed" =>
          \/ DOMAIN snapshot = {} /\ DOMAIN mirror = {}
          \/ \A p \in Good : \/ (p \in DOMAIN snapshot /\ snapshot[p] = exported[p])
                             \/ (p \in DOMAIN mirror /\ mirror[p] = exported[p])

\* Nothing is promised of a tree that stays empty for want of a reply.
Watched == phase = "running" \/ (phase = "watching" /\ DOMAIN mirror # {})

\* The signal in place i files p, or the tree has p (place 0), and no signal behind
\* that place erases the adapter of p.
Files(i, p) == IF i = 0 THEN p \in DOMAIN mirror
                        ELSE i \in DOMAIN bus /\ bus[i].op = "added" /\ bus[i].path = p
Erases(j, p) == /\ bus[j].op = "removed" /\ Depth[bus[j].path] = AdapterDepth
                /\ bus[j].path \in {p} \cup Above[p]
Stays(i, p) == \A j \in DOMAIN bus : j > i => ~Erases(j, p)

\* The place of an object is behind the places of the objects above it, so the parent
\* is in the tree when the signal is applied.
Placed(f) == \A p \in Good : /\ Files(f[p], p) /\ Stays(f[p], p)
                             /\ \A q \in Above[p] : f[q] <= f[p]
PlaceInv == Watched => \E f \in [Good -> 0..Len(bus)] : Placed(f)

\* The last signal with a value of p carries the value p has.
Tells(i, p) == bus[i].op \in {"added", "changed"} /\ bus[i].path = p
LastTells(i, p) == Tells(i, p) /\ \A j \in DOMAIN bus : j > i => ~Tells(j, p)
ValueInv ==
    Watched => \A p \in Good :
        /\ \A i \in DOMAIN bus : LastTells(i, p) => bus[i].val = exported[p]
        /\ (\A i \in DOMAIN bus : ~Tells(i, p)) => p \in shadowed \/ mirror[p] = exported[p]

\* The removal of an adapter BlueZ no longer exports waits behind all that files it.
FilesAny(i, p) == IF i = 0 THEN p \in DOMAIN mirror
                           ELSE bus[i].op \in {"added", "interface"} /\ bus[i].path = p
GhostInv ==
    \A p \in Paths \ (DOMAIN exported \cup lost) :
        /\ p \notin DOMAIN snapshot
        /\ Depth[p] = AdapterDepth /\ phase # "absent" =>
              \A i \in DOMAIN bus \cup {0} : FilesAny(i, p) =>
                  \E j \in DOMAIN bus : j > i /\ bus[j] = [op |-> "removed", path |-> p]

IInv == TypeOK /\ ListInv /\ PlaceInv /\ ValueInv /\ GhostInv

\* What lies above a good object is good.
LEMMA GoodFacts ==
    ASSUME TypeOK, ListInv, NEW p \in Good
    PROVE  /\ p \in Paths /\ p \in DOMAIN exported /\ exported[p] \in Values
           /\ p \notin lost \cup cut
           /\ \A q \in Above[p] : q \in Good /\ Above[q] \subseteq Above[p]
<1>1. p \in Paths /\ p \in DOMAIN exported /\ exported[p] \in Values
  BY DEF Good, TypeOK, IsMap
<1>2. ({p} \cup Above[p]) \cap (lost \cup cut) = {}
  BY DEF Good, Spoiled
<1>3. ASSUME NEW q \in Above[p]
      PROVE  q \in Good /\ Above[q] \subseteq Above[p]
  <2>1. Above[q] \subseteq Above[p]
    BY <1>1, AboveAssumption
  <2>2. q \in DOMAIN exported
    BY <1>1 DEF ListInv
  <2> QED BY <1>2, <2>1, <2>2 DEF Good, Spoiled
<1> QED BY <1>1, <1>2, <1>3

\* The same after a step.
LEMMA GoodNext ==
    ASSUME TypeOK', ListInv'
    PROVE  \A p \in Good' : p \in Paths /\ Above[p] \subseteq Good'
<1> SUFFICES ASSUME NEW p \in Good' PROVE p \in Paths /\ Above[p] \subseteq Good'
  OBVIOUS
<1>1. p \in Paths /\ p \in DOMAIN exported'
  BY DEF Good, TypeOK, IsMap
<1>2. ({p} \cup Above[p]) \cap (lost' \cup cut') = {}
  BY DEF Good, Spoiled
<1>3. \A q \in Above[p] : Above[q] \subseteq Above[p]
  BY <1>1, AboveAssumption
<1>4. Above[p] \subseteq DOMAIN exported'
  BY <1>1 DEF ListInv
<1> QED BY <1>1, <1>2, <1>3, <1>4 DEF Good, Spoiled

\* What becomes of a signal of BlueZ.
LEMMA Announced ==
    ASSUME NEW s, Announce(s)
    PROVE  /\ routed => bus' = Append(bus, s) /\ lost' = lost
           /\ ~routed /\ phase # "new" => bus' = bus /\ lost' = lost \cup {s.path}
           /\ ~routed /\ phase = "new" => bus' = bus /\ lost' = lost
BY DEF Announce

\* Losing more signals or erasing more adapters leaves fewer good objects.
LEMMA GoodShrinks ==
    ASSUME exported' = exported, lost \subseteq lost', cut \subseteq cut'
    PROVE  Good' \subseteq Good
BY DEF Good, Spoiled

LEMMA ListInit == Init => ListInv /\ PlaceInv /\ ValueInv /\ GhostInv
<1> SUFFICES ASSUME Init PROVE ListInv /\ PlaceInv /\ ValueInv /\ GhostInv
  OBVIOUS
<1>1. /\ DOMAIN mirror = {} /\ DOMAIN snapshot = {} /\ phase = "new" /\ ~routed
      /\ bus = <<>> /\ DOMAIN bus = {}
  BY DEF Init, NoObjects
<1>2. \A p \in DOMAIN exported : Above[p] \subseteq DOMAIN exported
  BY DEF Init
<1>3. ListInv
  BY <1>1, <1>2 DEF ListInv
<1>4. PlaceInv /\ ValueInv
  BY <1>1 DEF PlaceInv, ValueInv, Watched
<1>5. GhostInv
  BY <1>1 DEF GhostInv, FilesAny
<1> QED BY <1>3, <1>4, <1>5

\* A change BlueZ makes.
LEMMA BlueZSteps ==
    ASSUME TypeOK, BlueZ
    PROVE  /\ phase' = phase /\ snapshot' = snapshot /\ mirror' = mirror /\ shadowed' = shadowed
           /\ routed' = routed
           /\ phase \in {"new", "listed", "watching", "running"}
           /\ \E p \in Paths :
                 \/ \E v \in Values : Export(p, v) \/ ChangeValue(p, v)
                 \/ Withdraw(p) \/ GainInterface(p) \/ LoseInterface(p)
<1>1. Change /\ shadowed' = shadowed
  BY DEF BlueZ, Export, ChangeValue, Withdraw, GainInterface, LoseInterface
<1>2. phase \in {"new", "listed", "watching", "running"}
  BY <1>1 DEF Change, TypeOK
<1> QED BY <1>1, <1>2, ChangeType DEF BlueZ

LEMMA ExportFacts ==
    ASSUME TypeOK, ListInv, NEW p \in Paths, NEW v \in Values, Export(p, v)
    PROVE  /\ p \notin DOMAIN exported /\ DOMAIN exported' = DOMAIN exported \cup {p}
           /\ \A q \in DOMAIN exported : exported'[q] = exported[q]
           /\ exported'[p] = v /\ Above[p] \subseteq DOMAIN exported
           /\ cut' = cut /\ Announce([op |-> "added", path |-> p, val |-> v])
           /\ lost \subseteq lost' /\ Good' \subseteq Good \cup {p}
<1>1. lost \subseteq lost' /\ cut' = cut
  BY DEF Export, Announce
<1> QED BY <1>1 DEF Export, Good, Spoiled

LEMMA ChangeFacts ==
    ASSUME TypeOK, ListInv, NEW p \in Paths, NEW v \in Values, ChangeValue(p, v)
    PROVE  /\ p \in DOMAIN exported /\ DOMAIN exported' = DOMAIN exported
           /\ \A q \in DOMAIN exported \ {p} : exported'[q] = exported[q]
           /\ exported'[p] = v
           /\ cut' = cut /\ Announce([op |-> "changed", path |-> p, val |-> v])
           /\ lost \subseteq lost' /\ Good' \subseteq Good
<1>1. lost \subseteq lost' /\ cut' = cut
  BY DEF ChangeValue, Announce
<1>2. DOMAIN exported' = DOMAIN exported
  BY DEF ChangeValue
<1> QED BY <1>1, <1>2 DEF ChangeValue, Good, Spoiled, TypeOK, IsMap

LEMMA WithdrawFacts ==
    ASSUME TypeOK, ListInv, NEW p \in Paths, Withdraw(p)
    PROVE  /\ p \in DOMAIN exported /\ DOMAIN exported' = DOMAIN exported \ {p}
           /\ \A q \in DOMAIN exported' : exported'[q] = exported[q] /\ p \notin Above[q] /\ q # p
           /\ cut' = cut /\ Announce([op |-> "removed", path |-> p])
           /\ lost \subseteq lost' /\ Good' \subseteq Good
<1>1. lost \subseteq lost' /\ cut' = cut
  BY DEF Withdraw, Announce
<1>2. DOMAIN exported' = DOMAIN exported \ {p}
  BY DEF Withdraw
<1> QED BY <1>1, <1>2 DEF Withdraw, Good, Spoiled

\* In the order of the snapshot each object finds its parent filed.
LEMMA FilesItsNext ==
    ASSUME TypeOK, ListInv, FileListed
    PROVE  \E p \in DOMAIN snapshot :
               /\ p \in Paths /\ p \notin DOMAIN mirror /\ Above[p] \subseteq DOMAIN mirror
               /\ DOMAIN mirror' = DOMAIN mirror \cup {p} /\ mirror'[p] = snapshot[p]
               /\ \A q \in DOMAIN mirror : mirror'[q] = mirror[q]
               /\ DOMAIN snapshot' = DOMAIN snapshot \ {p}
               /\ \A q \in DOMAIN snapshot \ {p} : snapshot'[q] = snapshot[q]
<1>1. PICK p \in DOMAIN snapshot :
          /\ \A q \in DOMAIN snapshot : Rank[p] <= Rank[q]
          /\ mirror' = AddPath(mirror, p, snapshot[p])
          /\ snapshot' = [q \in DOMAIN snapshot \ {p} |-> snapshot[q]]
  BY DEF FileListed
<1>2. p \in Paths /\ DOMAIN snapshot \subseteq Paths /\ p \notin DOMAIN mirror
  BY DEF TypeOK, IsMap, ListInv
<1>3. Above[p] \subseteq DOMAIN mirror
  <2> SUFFICES ASSUME NEW q \in Above[p] PROVE q \notin DOMAIN snapshot
    BY DEF ListInv
  <2>1. q \in Paths /\ Rank[q] < Rank[p]
    BY <1>2, AboveAssumption, RankAssumption
  <2>2. Rank[q] \in Nat /\ Rank[p] \in Nat
    BY <1>2, <2>1, RankAssumption
  <2> QED BY <1>1, <2>1, <2>2
<1>4. Claimed(mirror, p)
  BY <1>2, <1>3, ClaimedBelow
<1>5. mirror' = [q \in DOMAIN mirror \cup {p} |-> IF q = p THEN snapshot[p] ELSE mirror[q]]
  BY <1>1, <1>2, <1>4 DEF AddPath
<1> QED BY <1>1, <1>2, <1>3, <1>5

\* After the snapshot a change that is not routed here leaves the objects that stay
\* good as they are.
LEMMA Unheard ==
    ASSUME TypeOK, ListInv, BlueZ, ~routed, phase # "new"
    PROVE  /\ bus' = bus /\ mirror' = mirror /\ shadowed' = shadowed
           /\ \A q \in Good' : q \in Good /\ exported'[q] = exported[q]
<1>1. PICK p \in Paths : \/ \E v \in Values : Export(p, v) \/ ChangeValue(p, v)
                         \/ Withdraw(p) \/ GainInterface(p) \/ LoseInterface(p)
  BY BlueZSteps
<1>2. PICK s : Announce(s) /\ s.path = p
  <2>1. \A v : [op |-> "added", path |-> p, val |-> v].path = p
    OBVIOUS
  <2>2. \A v : [op |-> "changed", path |-> p, val |-> v].path = p
    OBVIOUS
  <2>3. \A op : [op |-> op, path |-> p].path = p
    OBVIOUS
  <2>4. CASE \E v \in Values : Export(p, v)
    BY <2>1, <2>4, Zenon DEF Export
  <2>5. CASE \E v \in Values : ChangeValue(p, v)
    BY <2>2, <2>5, Zenon DEF ChangeValue
  <2>6. CASE Withdraw(p)
    BY <2>3, <2>6, Zenon DEF Withdraw
  <2>7. CASE GainInterface(p)
    BY <2>3, <2>7, Zenon DEF GainInterface
  <2>8. CASE LoseInterface(p)
    BY <2>3, <2>8, Zenon DEF LoseInterface
  <2> QED BY <1>1, <2>4, <2>5, <2>6, <2>7, <2>8
<1>3. bus' = bus /\ p \in lost'
  BY <1>2, Announced
<1>4. ASSUME NEW q \in Good' PROVE q \in Good /\ exported'[q] = exported[q]
  <2>1. q # p
    BY <1>3 DEF Good, Spoiled
  <2>2. CASE \E v \in Values : Export(p, v) \/ ChangeValue(p, v)
    BY <2>1, <2>2, ExportFacts, ChangeFacts DEF Good
  <2>3. CASE Withdraw(p)
    BY <2>3, WithdrawFacts DEF Good
  <2>4. CASE GainInterface(p) \/ LoseInterface(p)
    <3>1. exported' = exported /\ lost \subseteq lost' /\ cut \subseteq cut'
      BY <2>4 DEF GainInterface, LoseInterface, Announce
    <3> QED BY <3>1, GoodShrinks
  <2> QED BY <1>1, <2>2, <2>3, <2>4
<1> QED BY <1>3, <1>4, BlueZSteps

LEMMA ListNext == TypeOK /\ ListInv /\ [Next]_vars => ListInv'
<1> SUFFICES ASSUME TypeOK, ListInv, [Next]_vars PROVE ListInv'
  OBVIOUS
<1>1. CASE ListObjects
  <2>1. /\ phase = "new" /\ phase' = "listed" /\ snapshot' = exported
        /\ UNCHANGED <<exported, bus, routed, mirror, lost, cut>>
    BY <1>1 DEF ListObjects, bluezVars, history
  <2>2. \A p \in Good' : p \in DOMAIN snapshot' /\ snapshot'[p] = exported'[p]
    BY <2>1 DEF Good
  <2> QED BY <2>1, <2>2 DEF ListInv
<1>2. CASE ListFails
  BY <1>2 DEF ListFails, ListInv, bluezVars
<1>3. CASE FileListed
  <2>1. PICK p \in DOMAIN snapshot :
               /\ p \in Paths /\ p \notin DOMAIN mirror /\ Above[p] \subseteq DOMAIN mirror
               /\ DOMAIN mirror' = DOMAIN mirror \cup {p} /\ mirror'[p] = snapshot[p]
               /\ \A q \in DOMAIN mirror : mirror'[q] = mirror[q]
               /\ DOMAIN snapshot' = DOMAIN snapshot \ {p}
               /\ \A q \in DOMAIN snapshot \ {p} : snapshot'[q] = snapshot[q]
    BY <1>3, FilesItsNext
  <2>2. phase = "listed" /\ UNCHANGED <<exported, bus, routed, phase, lost, cut>>
    BY <1>3 DEF FileListed, bluezVars, history
  <2>3. Good' = Good
    BY <2>2 DEF Good
  <2>4. \A q \in Good : \/ (q \in DOMAIN snapshot' /\ snapshot'[q] = exported[q])
                        \/ (q \in DOMAIN mirror' /\ mirror'[q] = exported[q])
    BY <2>1, <2>2 DEF ListInv
  <2>5. \A q \in DOMAIN snapshot' : Above[q] \subseteq DOMAIN snapshot' \cup DOMAIN mirror'
    BY <2>1 DEF ListInv
  <2> QED BY <2>1, <2>2, <2>3, <2>4, <2>5 DEF ListInv
<1>4. CASE AddMatch \/ AddMatchFails
  BY <1>4 DEF AddMatch, AddMatchFails, ListInv, bluezVars
<1>5. CASE StartThread
  BY <1>5 DEF StartThread, ListInv, bluezVars
<1>6. CASE BlueZ
  <2>1. /\ phase' = phase /\ snapshot' = snapshot /\ mirror' = mirror
        /\ phase \in {"new", "listed", "watching", "running"}
    BY <1>6, BlueZSteps
  <2>2. PICK p \in Paths : \/ \E v \in Values : Export(p, v) \/ ChangeValue(p, v)
                           \/ Withdraw(p) \/ GainInterface(p) \/ LoseInterface(p)
    BY <1>6, BlueZSteps
  <2>3. PICK s : Announce(s)
    BY <2>2 DEF Export, ChangeValue, Withdraw, GainInterface, LoseInterface
  <2>4. routed' = routed /\ (~routed => bus' = <<>>)
    <3>1. ~routed => bus' = bus
      BY <2>3, Announced
    <3> QED BY <1>6, <3>1, BlueZSteps DEF ListInv
  <2>5. \A q \in DOMAIN exported' : Above[q] \subseteq DOMAIN exported'
    <3>1. CASE \E v \in Values : Export(p, v)
      BY <3>1, ExportFacts DEF ListInv
    <3>2. CASE \E v \in Values : ChangeValue(p, v)
      BY <3>2, ChangeFacts DEF ListInv
    <3>3. CASE Withdraw(p)
      BY <3>3, WithdrawFacts DEF ListInv
    <3>4. CASE GainInterface(p) \/ LoseInterface(p)
      BY <3>4 DEF GainInterface, LoseInterface, ListInv
    <3> QED BY <2>2, <3>1, <3>2, <3>3, <3>4
  <2>6. phase = "listed" => \A q \in Good' : q \in Good /\ exported'[q] = exported[q]
    BY <1>6, Unheard DEF ListInv
  <2> QED BY <2>1, <2>4, <2>5, <2>6 DEF ListInv
<1>7. CASE RunAsync
  BY <1>7 DEF RunAsync, InterfacesAdded, OtherInterfaceAdded, InterfacesRemoved, PropertiesChanged,
              Receive, ListInv, bluezVars
<1>8. CASE UNCHANGED vars
  BY <1>8 DEF vars, bluezVars, history, ListInv, Good, Spoiled
<1> QED BY <1>1, <1>2, <1>3, <1>4, <1>5, <1>6, <1>7, <1>8 DEF Next, Construct

-------------------------------------------------------------------------------
(* The places of the good objects.                                           *)

\* BlueZ says something that erases none of the objects that stay good.
LEMMA OldPlaces ==
    ASSUME TypeOK, ListInv, PlaceInv, NEW s \in Signal, bus' = Append(bus, s),
           mirror' = mirror, phase' = phase, TypeOK', ListInv', Good' \subseteq Good,
           \A p \in Good' : s.op = "removed" /\ Depth[s.path] = AdapterDepth
                               => s.path \notin {p} \cup Above[p]
    PROVE  PlaceInv'
<1> SUFFICES ASSUME Watched' PROVE \E g \in [Good' -> 0..Len(bus')] : Placed(g)'
  BY DEF PlaceInv
<1>1. PICK f \in [Good -> 0..Len(bus)] : Placed(f)
  BY DEF PlaceInv, Watched
<1>2. PICK g : g = [p \in Good' |-> f[p]]
  OBVIOUS
<1>3. /\ DOMAIN bus' = DOMAIN bus \cup {Len(bus) + 1}
      /\ \A i \in DOMAIN bus : bus'[i] = bus[i]
      /\ bus'[Len(bus) + 1] = s
  BY AppendPlaces DEF TypeOK
<1>4. Len(bus') = Len(bus) + 1 /\ Len(bus) \in Nat
  BY DEF TypeOK
<1>5. g \in [Good' -> 0..Len(bus')]
  BY <1>1, <1>2, <1>4
<1>6. ASSUME NEW p \in Good'
      PROVE  /\ Files(g[p], p)' /\ Stays(g[p], p)'
             /\ \A q \in Above[p] : g[q] <= g[p]
  <2>1. g[p] = f[p] /\ Files(f[p], p) /\ Stays(f[p], p) /\ \A q \in Above[p] : f[q] <= f[p]
    BY <1>1, <1>2, <1>6 DEF Placed
  <2>2. \A q \in Above[p] : q \in Good'
    BY <1>6, GoodNext
  <2>3. Files(f[p], p)'
    BY <1>3, <2>1 DEF Files
  <2>4. Stays(f[p], p)'
    BY <1>3, <1>6, <2>1 DEF Stays, Erases
  <2> QED BY <1>2, <2>1, <2>2, <2>3, <2>4
<1> QED BY <1>5, <1>6 DEF Placed

\* BlueZ announces a new object: its place is the last, behind all above it.
LEMMA NewPlace ==
    ASSUME TypeOK, ListInv, PlaceInv, TypeOK', ListInv',
           NEW p \in Paths, NEW v \in Values, p \notin DOMAIN exported,
           bus' = Append(bus, [op |-> "added", path |-> p, val |-> v]),
           mirror' = mirror, phase' = phase, Good' \subseteq Good \cup {p}
    PROVE  PlaceInv'
<1> SUFFICES ASSUME Watched' PROVE \E g \in [Good' -> 0..Len(bus')] : Placed(g)'
  BY DEF PlaceInv
<1>1. PICK f \in [Good -> 0..Len(bus)] : Placed(f)
  BY DEF PlaceInv, Watched
<1>n. PICK n : n = Len(bus) + 1
  OBVIOUS
<1>2. PICK g : g = [q \in Good' |-> IF q = p THEN n ELSE f[q]]
  OBVIOUS
<1>3. /\ DOMAIN bus' = DOMAIN bus \cup {n} /\ DOMAIN bus \subseteq Nat
      /\ \A i \in DOMAIN bus : bus'[i] = bus[i] /\ i < n
      /\ bus'[n] = [op |-> "added", path |-> p, val |-> v]
  <2>1. [op |-> "added", path |-> p, val |-> v] \in Signal
    BY DEF Signal
  <2> QED BY <1>n, <2>1, AppendPlaces DEF TypeOK
<1>4. Len(bus') = n /\ n \in Nat /\ Len(bus) \in Nat /\ n = Len(bus) + 1
  BY <1>n DEF TypeOK
<1>5. p \notin Good
  BY DEF Good
<1>6. g \in [Good' -> 0..Len(bus')]
  BY <1>1, <1>2, <1>4
<1>7. ASSUME NEW q \in Good'
      PROVE  /\ Files(g[q], q)' /\ Stays(g[q], q)'
             /\ \A r \in Above[q] : g[r] <= g[q]
  <2>1. q \in Paths /\ Above[q] \subseteq Good'
    BY <1>7, GoodNext
  <2>2. CASE q = p
    <3>1. g[q] = n
      BY <1>2, <1>7, <2>2
    <3>2. Files(n, q)' /\ Stays(n, q)'
      BY <1>3, <1>4, <2>2 DEF Files, Stays
    <3>3. \A r \in Above[q] : g[r] \in 0..n
      BY <1>4, <1>6, <2>1
    <3> QED BY <1>4, <3>1, <3>2, <3>3
  <2>3. CASE q # p
    <3>1. q \in Good /\ g[q] = f[q]
      BY <1>2, <1>7, <2>3
    <3>2. Files(f[q], q) /\ Stays(f[q], q) /\ \A r \in Above[q] : f[r] <= f[q]
      BY <1>1, <3>1 DEF Placed
    <3>3. Files(f[q], q)'
      BY <1>3, <3>2 DEF Files
    <3>4. Stays(f[q], q)'
      BY <1>3, <3>2 DEF Stays, Erases
    <3>5. \A r \in Above[q] : r \in Good /\ g[r] = f[r]
      BY <1>2, <1>5, <2>1, <3>1, GoodFacts
    <3> QED BY <3>1, <3>2, <3>3, <3>4, <3>5
  <2> QED BY <2>2, <2>3
<1> QED BY <1>6, <1>7 DEF Placed

\* The head of the queue, and what is left behind it.
LEMMA Received ==
    ASSUME TypeOK, NEW op, Receive(op)
    PROVE  /\ phase = "running" /\ UNCHANGED <<exported, phase, snapshot>>
           /\ Head(bus) \in Signal /\ Head(bus).op = op /\ Head(bus).path \in Paths
           /\ DOMAIN bus \subseteq Nat \ {0} /\ DOMAIN bus' \subseteq Nat \ {0}
           /\ 1 \in DOMAIN bus /\ bus[1] = Head(bus)
           /\ \A i \in DOMAIN bus' :
                 i + 1 \in DOMAIN bus /\ bus'[i] = bus[i + 1] /\ 1 < i + 1
           /\ \A i \in DOMAIN bus : i # 1 => i - 1 \in DOMAIN bus' /\ bus'[i - 1] = bus[i]
           /\ \A i \in DOMAIN bus : i <= Len(bus)
           /\ Len(bus) \in Nat /\ Len(bus') = Len(bus) - 1
<1>1. bus \in Seq(Signal) /\ bus # <<>> /\ bus' = Tail(bus)
  BY DEF Receive, TypeOK
<1>2. Len(bus) \in Nat /\ Len(bus') = Len(bus) - 1 /\ DOMAIN bus = 1..Len(bus)
  BY <1>1
<1>3. \A i \in DOMAIN bus' : i \in Nat \ {0} /\ 1 < i + 1
  BY <1>1, TailPlaces
<1> QED BY <1>1, <1>2, <1>3, TailPlaces, ReceiveType DEF Receive, bluezVars

\* The async thread takes a signal that files the object it is about, and erases no
\* good object that has its place ahead.
LEMMA PlacesMoveUp ==
    ASSUME TypeOK, ListInv, PlaceInv, NEW op, Receive(op), UNCHANGED <<lost, cut>>,
           \A p \in Good \cap DOMAIN mirror : ~Erases(1, p) => p \in DOMAIN mirror',
           \A p \in Good : bus[1].op = "added" /\ bus[1].path = p /\ Above[p] \subseteq DOMAIN mirror
                             => p \in DOMAIN mirror'
    PROVE  PlaceInv'
<1>1. PICK f \in [Good -> 0..Len(bus)] : Placed(f)
  BY Received DEF PlaceInv, Watched
<1>2. PICK g : g = [p \in Good |-> IF f[p] <= 1 THEN 0 ELSE f[p] - 1]
  OBVIOUS
<1>3. Good' = Good
  BY Received DEF Good
<1>4. Len(bus) \in Nat /\ Len(bus') = Len(bus) - 1 /\ 1 <= Len(bus)
  BY Received
<1>5. g \in [Good' -> 0..Len(bus')]
  <2>1. \A p \in Good : f[p] \in 0..Len(bus)
    BY <1>1
  <2>2. \A p \in Good : (IF f[p] <= 1 THEN 0 ELSE f[p] - 1) \in 0..Len(bus')
    BY <1>4, <2>1
  <2> QED BY <1>2, <1>3, <2>2
<1>6. ASSUME NEW p \in Good
      PROVE  /\ Files(g[p], p)' /\ Stays(g[p], p)'
             /\ \A q \in Above[p] : g[q] <= g[p]
  <2>1. /\ f[p] \in Nat /\ Files(f[p], p) /\ Stays(f[p], p)
        /\ \A q \in Above[p] : q \in Good /\ q # p /\ f[q] \in Nat /\ f[q] <= f[p] /\ Files(f[q], q)
    <3>1. p \in Paths /\ \A q \in Above[p] : q \in Good /\ q \in Paths
      BY <1>6, GoodFacts
    <3>2. \A q \in Above[p] : Depth[q] < Depth[p] /\ Depth[q] \in 3..6 /\ Depth[p] \in 3..6
      BY <3>1, AboveAssumption, DepthAssumption
    <3>3. \A q \in Above[p] : q # p
      BY <3>2
    <3>4. \A q \in Good : f[q] \in Nat
      BY <1>1, <1>4
    <3> QED BY <1>1, <1>6, <3>1, <3>3, <3>4 DEF Placed
  <2>2. \A q \in Above[p] : g[q] <= g[p]
    BY <1>2, <1>6, <2>1
  <2>3. CASE f[p] = 0
    <3>1. g[p] = 0
      BY <1>2, <1>6, <2>3
    <3>2. p \in DOMAIN mirror'
      BY <1>6, <2>1, <2>3, Received DEF Files, Stays
    <3>3. Stays(0, p)'
      BY <2>1, <2>3, Received DEF Stays, Erases
    <3> QED BY <2>2, <3>1, <3>2, <3>3 DEF Files
  <2>4. CASE f[p] = 1
    <3>1. g[p] = 0
      BY <1>2, <1>6, <2>4
    <3>2. bus[1].op = "added" /\ bus[1].path = p
      BY <2>1, <2>4 DEF Files
    <3>3. Above[p] \subseteq DOMAIN mirror
      <4> SUFFICES ASSUME NEW q \in Above[p] PROVE q \in DOMAIN mirror
        OBVIOUS
      <4>1. f[q] # 1
        BY <2>1, <3>2 DEF Files
      <4>2. f[q] = 0
        BY <2>1, <2>4, <4>1
      <4> QED BY <2>1, <4>2 DEF Files
    <3>4. p \in DOMAIN mirror'
      BY <1>6, <3>2, <3>3
    <3>5. Stays(0, p)'
      BY <2>1, <2>4, Received DEF Stays, Erases
    <3> QED BY <2>2, <3>1, <3>4, <3>5 DEF Files
  <2>5. CASE f[p] > 1
    <3>1. g[p] = f[p] - 1 /\ f[p] # 0 /\ f[p] # 1 /\ f[p] - 1 # 0
      BY <1>2, <1>6, <2>1, <2>5
    <3>2. Files(f[p] - 1, p)'
      BY <2>1, <3>1, Received DEF Files
    <3>3. Stays(f[p] - 1, p)'
      <4> SUFFICES ASSUME NEW j \in DOMAIN bus', j > f[p] - 1 PROVE ~Erases(j, p)'
        BY DEF Stays
      <4>1. j + 1 \in DOMAIN bus /\ bus'[j] = bus[j + 1] /\ j \in Nat
        BY Received
      <4>2. j + 1 > f[p]
        BY <2>1, <4>1
      <4> QED BY <2>1, <4>1, <4>2 DEF Stays, Erases
    <3> QED BY <2>2, <3>1, <3>2, <3>3
  <2> QED BY <2>1, <2>3, <2>4, <2>5
<1>7. Placed(g)'
  BY <1>3, <1>6 DEF Placed
<1> QED BY <1>5, <1>7 DEF PlaceInv

LEMMA PlacesRest ==
    ASSUME PlaceInv, Watched' => Watched, UNCHANGED <<bus, mirror, exported, lost, cut>>
    PROVE  PlaceInv'
<1> SUFFICES ASSUME Watched' PROVE \E g \in [Good' -> 0..Len(bus')] : Placed(g)'
  BY DEF PlaceInv
<1>1. PICK f \in [Good -> 0..Len(bus)] : Placed(f)
  BY DEF PlaceInv
<1>2. Good' = Good
  BY DEF Good
<1>3. Placed(f)'
  BY <1>1, <1>2 DEF Placed, Files, Stays, Erases
<1> QED BY <1>1, <1>2, <1>3

\* With fewer good objects those that are left keep their places.
LEMMA PlacesFewer ==
    ASSUME TypeOK, PlaceInv, Watched, UNCHANGED <<bus, mirror>>, Good' \subseteq Good,
           \A p \in Good' : Above[p] \subseteq Good'
    PROVE  PlaceInv'
<1>1. PICK f \in [Good -> 0..Len(bus)] : Placed(f)
  BY DEF PlaceInv
<1>2. PICK g : g = [p \in Good' |-> f[p]]
  OBVIOUS
<1>3. g \in [Good' -> 0..Len(bus')]
  BY <1>1, <1>2
<1>4. Placed(g)'
  BY <1>1, <1>2 DEF Placed, Files, Stays, Erases
<1> QED BY <1>3, <1>4 DEF PlaceInv

LEMMA ConstructPlaces == TypeOK /\ ListInv /\ PlaceInv /\ Construct => PlaceInv'
<1> SUFFICES ASSUME TypeOK, ListInv, PlaceInv, Construct, Watched' PROVE PlaceInv'
  BY DEF PlaceInv
<1>1. CASE AddMatch \/ AddMatchFails
  <2>1. /\ bus' = <<>> /\ DOMAIN bus' = {} /\ Good' = Good /\ mirror' = mirror
        /\ DOMAIN mirror # {} /\ DOMAIN snapshot = {} /\ phase = "listed"
    <3>1. /\ UNCHANGED <<bus, mirror, exported, lost, cut>> /\ DOMAIN snapshot = {} /\ phase = "listed"
          /\ phase' = "watching"
      BY <1>1 DEF AddMatch, AddMatchFails, bluezVars, history
    <3>2. bus = <<>>
      BY <3>1 DEF ListInv
    <3> QED BY <3>1, <3>2 DEF Watched, Good
  <2>2. \A p \in Good : p \in DOMAIN mirror
    BY <2>1 DEF ListInv
  <2>3. PICK f : f = [p \in Good' |-> 0]
    OBVIOUS
  <2>4. \A p \in Good' : \A q \in Above[p] : f[q] <= f[p]
    BY <2>1, <2>3, GoodFacts
  <2>5. f \in [Good' -> 0..Len(bus')]
    BY <2>1, <2>3
  <2>6. Placed(f)'
    BY <2>1, <2>2, <2>3, <2>4 DEF Placed, Files, Stays
  <2> QED BY <2>5, <2>6 DEF PlaceInv
<1>2. CASE StartThread
  <2>1. /\ UNCHANGED <<bus, mirror, exported, lost, cut>> /\ Watched
    BY <1>2 DEF StartThread, Watched, bluezVars, history
  <2> QED BY <2>1, PlacesRest
<1>3. CASE ListObjects \/ ListFails \/ FileListed
  BY <1>3 DEF ListObjects, ListFails, FileListed, Watched
<1> QED BY <1>1, <1>2, <1>3 DEF Construct

LEMMA BlueZPlaces == TypeOK /\ ListInv /\ PlaceInv /\ TypeOK' /\ ListInv' /\ BlueZ => PlaceInv'
<1> SUFFICES ASSUME TypeOK, ListInv, PlaceInv, TypeOK', ListInv', BlueZ, Watched' PROVE PlaceInv'
  BY DEF PlaceInv
<1>1. phase' = phase /\ mirror' = mirror /\ phase \in {"watching", "running"} /\ Watched
  BY BlueZSteps DEF Watched
<1>u. CASE ~routed
  BY <1>1, <1>u, Unheard, GoodNext, PlacesFewer
<1> SUFFICES ASSUME routed PROVE PlaceInv'
  BY <1>u
<1>r. routed
  OBVIOUS
<1>2. PICK p \in Paths : \/ \E v \in Values : Export(p, v) \/ ChangeValue(p, v)
                         \/ Withdraw(p) \/ GainInterface(p) \/ LoseInterface(p)
  BY BlueZSteps
<1>3. ASSUME NEW v \in Values, Export(p, v)
      PROVE  PlaceInv'
  BY <1>1, <1>r, <1>3, ExportFacts, Announced, NewPlace
<1>4. ASSUME NEW v \in Values, ChangeValue(p, v)
      PROVE  PlaceInv'
  <2>1. [op |-> "changed", path |-> p, val |-> v] \in Signal
    BY DEF Signal
  <2> QED BY <1>1, <1>r, <1>4, <2>1, ChangeFacts, Announced, OldPlaces
<1>5. CASE Withdraw(p)
  <2>1. [op |-> "removed", path |-> p] \in Signal
    BY DEF Signal
  <2>2. \A q \in Good' : p \notin {q} \cup Above[q]
    BY <1>5, WithdrawFacts DEF Good
  <2> QED BY <1>1, <1>r, <1>5, <2>1, <2>2, WithdrawFacts, Announced, OldPlaces
<1>6. CASE GainInterface(p)
  <2>1. [op |-> "interface", path |-> p] \in Signal
    BY DEF Signal
  <2>2. exported' = exported /\ cut' = cut /\ Announce([op |-> "interface", path |-> p])
    BY <1>6 DEF GainInterface
  <2>3. Good' \subseteq Good /\ bus' = Append(bus, [op |-> "interface", path |-> p])
    BY <1>1, <1>r, <2>2, Announced, GoodShrinks
  <2> QED BY <1>1, <1>r, <2>1, <2>3, OldPlaces
<1>7. CASE LoseInterface(p)
  <2>1. [op |-> "removed", path |-> p] \in Signal
    BY DEF Signal
  <2>2. /\ exported' = exported /\ Announce([op |-> "removed", path |-> p])
        /\ cut \subseteq cut' /\ (Depth[p] = AdapterDepth => p \in cut')
    BY <1>1, <1>r, <1>7 DEF LoseInterface
  <2>3. Good' \subseteq Good /\ bus' = Append(bus, [op |-> "removed", path |-> p])
    BY <1>1, <1>r, <2>2, Announced, GoodShrinks
  <2>4. Depth[p] = AdapterDepth => \A q \in Good' : p \notin {q} \cup Above[q]
    BY <2>2 DEF Good, Spoiled
  <2> QED BY <1>1, <1>r, <2>1, <2>3, <2>4, OldPlaces
<1> QED BY <1>2, <1>3, <1>4, <1>5, <1>6, <1>7

LEMMA AsyncPlaces == TypeOK /\ ListInv /\ PlaceInv /\ RunAsync => PlaceInv'
<1> SUFFICES ASSUME TypeOK, ListInv, PlaceInv, RunAsync PROVE PlaceInv'
  OBVIOUS
<1>1. CASE InterfacesAdded
  <2>1. Receive("added") /\ UNCHANGED <<lost, cut>> /\ mirror' = AddPath(mirror, bus[1].path, bus[1].val)
    BY <1>1, Received DEF InterfacesAdded
  <2>2. \A p \in DOMAIN mirror : p \in DOMAIN mirror'
    BY <2>1, AddPathFiles
  <2>3. \A p \in Good : bus[1].path = p /\ Above[p] \subseteq DOMAIN mirror => p \in DOMAIN mirror'
    BY <2>1, <2>2, AddPathFiles, ClaimedBelow, GoodFacts
  <2> QED BY <2>1, <2>2, <2>3, PlacesMoveUp
<1>2. CASE OtherInterfaceAdded
  <2>1. Receive("interface") /\ UNCHANGED <<lost, cut>> /\ mirror' = AddPath(mirror, bus[1].path, Blank)
    BY <1>2, Received DEF OtherInterfaceAdded
  <2>2. \A p \in DOMAIN mirror : p \in DOMAIN mirror'
    BY <2>1, AddPathFiles
  <2> QED BY <2>1, <2>2, Received, PlacesMoveUp
<1>3. CASE InterfacesRemoved
  <2>1. Receive("removed") /\ UNCHANGED <<lost, cut>> /\ mirror' = RemovePath(mirror, bus[1].path)
    BY <1>3, Received DEF InterfacesRemoved, history
  <2>2. \A p \in DOMAIN mirror : ~Erases(1, p) => p \in DOMAIN mirror'
    BY <2>1, RemovePathKeeps, Received DEF Erases
  <2> QED BY <2>1, <2>2, Received, PlacesMoveUp
<1>4. CASE PropertiesChanged
  <2>1. Receive("changed") /\ UNCHANGED <<lost, cut>> /\ mirror' = SetOption(mirror, bus[1].path, bus[1].val)
    BY <1>4, Received DEF PropertiesChanged
  <2>2. DOMAIN mirror' = DOMAIN mirror
    BY <2>1, SetOptionSets
  <2> QED BY <2>1, <2>2, Received, PlacesMoveUp
<1> QED BY <1>1, <1>2, <1>3, <1>4 DEF RunAsync

LEMMA PlaceNext == TypeOK /\ ListInv /\ PlaceInv /\ [Next]_vars => PlaceInv'
<1> SUFFICES ASSUME TypeOK, ListInv, PlaceInv, [Next]_vars PROVE PlaceInv'
  OBVIOUS
<1>1. TypeOK' /\ ListInv'
  BY TypeNext, ListNext
<1>2. CASE UNCHANGED vars
  BY <1>2, PlacesRest DEF vars, bluezVars, history, Watched
<1> QED BY <1>1, <1>2, ConstructPlaces, BlueZPlaces, AsyncPlaces DEF Next

-------------------------------------------------------------------------------
(* The values of the good objects.                                           *)

\* A good object that no later signal files is in the tree, or the next signal files it
\* and finds its parent there.
LEMMA Reached ==
    ASSUME TypeOK, ListInv, PlaceInv, Watched, NEW p \in Good,
           \A i \in DOMAIN bus : i > 1 => ~(bus[i].op = "added" /\ bus[i].path = p)
    PROVE  \/ p \in DOMAIN mirror /\ \A i \in DOMAIN bus : ~Erases(i, p)
           \/ 1 \in DOMAIN bus /\ bus[1].op = "added" /\ bus[1].path = p /\ Claimed(mirror, p)
<1>1. PICK f \in [Good -> 0..Len(bus)] : Placed(f)
  BY DEF PlaceInv
<1>2. /\ p \in Paths /\ \A q \in Above[p] : q \in Good /\ q \in Paths
  BY GoodFacts
<1>3. \A q \in Above[p] : q # p
  <2>1. \A q \in Above[p] : Depth[q] < Depth[p] /\ Depth[q] \in 3..6 /\ Depth[p] \in 3..6
    BY <1>2, AboveAssumption, DepthAssumption
  <2> QED BY <2>1
<1>4. Len(bus) \in Nat /\ DOMAIN bus = 1..Len(bus)
  BY DEF TypeOK
<1>5. /\ Files(f[p], p) /\ Stays(f[p], p) /\ f[p] \in Nat
      /\ \A q \in Above[p] : f[q] <= f[p] /\ Files(f[q], q) /\ f[q] \in Nat
  BY <1>1, <1>2, <1>4 DEF Placed
<1>6. CASE f[p] = 0
  BY <1>4, <1>5, <1>6 DEF Files, Stays
<1>7. CASE f[p] # 0
  <2>1. f[p] = 1 /\ 1 \in DOMAIN bus /\ bus[1].op = "added" /\ bus[1].path = p
    BY <1>4, <1>5, <1>7 DEF Files
  <2>2. \A q \in Above[p] : f[q] # 1
    BY <1>3, <1>5, <2>1 DEF Files
  <2>3. \A q \in Above[p] : f[q] = 0
    BY <1>5, <2>1, <2>2
  <2>4. Above[p] \subseteq DOMAIN mirror
    BY <1>5, <2>3 DEF Files
  <2> QED BY <1>2, <2>1, <2>4, ClaimedBelow
<1> QED BY <1>6, <1>7

\* BlueZ says something: the value an object has now, or nothing of the values.
LEMMA ValueSaid ==
    ASSUME TypeOK, ValueInv, NEW s \in Signal, bus' = Append(bus, s),
           UNCHANGED <<mirror, shadowed, phase>>,
           \A q \in Good' : IF s.op \in {"added", "changed"} /\ s.path = q
                            THEN s.val = exported'[q]
                            ELSE q \in Good /\ exported'[q] = exported[q]
    PROVE  ValueInv'
<1>n. PICK n : n = Len(bus) + 1
  OBVIOUS
<1>1. /\ DOMAIN bus' = DOMAIN bus \cup {n} /\ DOMAIN bus \subseteq Nat /\ n \in Nat
      /\ \A i \in DOMAIN bus : bus'[i] = bus[i] /\ i < n
      /\ bus'[n] = s
  BY <1>n, AppendPlaces DEF TypeOK
<1> SUFFICES ASSUME Watched', NEW q \in Good'
             PROVE  /\ \A i \in DOMAIN bus' : LastTells(i, q)' => bus'[i].val = exported'[q]
                    /\ (\A i \in DOMAIN bus' : ~Tells(i, q)') => q \in shadowed \/ mirror[q] = exported'[q]
  BY DEF ValueInv
<1>2. Watched
  BY DEF Watched
<1>3. CASE s.op \in {"added", "changed"} /\ s.path = q
  <2>1. Tells(n, q)' /\ s.val = exported'[q]
    BY <1>1, <1>3 DEF Tells
  <2>2. \A i \in DOMAIN bus' : LastTells(i, q)' => i = n
    BY <1>1, <2>1 DEF LastTells
  <2> QED BY <1>1, <2>1, <2>2
<1>4. CASE ~(s.op \in {"added", "changed"} /\ s.path = q)
  <2>1. q \in Good /\ exported'[q] = exported[q]
    BY <1>4
  <2>2. ~Tells(n, q)' /\ \A i \in DOMAIN bus : Tells(i, q)' <=> Tells(i, q)
    BY <1>1, <1>4 DEF Tells
  <2>3. \A i \in DOMAIN bus' : LastTells(i, q)' => i \in DOMAIN bus /\ LastTells(i, q)
    BY <1>1, <2>2 DEF LastTells
  <2> QED BY <1>1, <1>2, <2>1, <2>2, <2>3 DEF ValueInv
<1> QED BY <1>3, <1>4

\* The async thread takes a signal.
LEMMA ValueHeard ==
    ASSUME TypeOK, ListInv, PlaceInv, ValueInv, NEW op, Receive(op), UNCHANGED <<lost, cut>>,
           \A q \in Good : q \in DOMAIN mirror /\ ~Erases(1, q) /\ ~Tells(1, q) =>
               mirror'[q] = mirror[q] /\ (q \in shadowed => q \in shadowed'),
           \A q \in Good : Tells(1, q) /\ (q \in DOMAIN mirror \/ (bus[1].op = "added" /\ Claimed(mirror, q)))
               => q \in shadowed' \/ mirror'[q] = bus[1].val
    PROVE  ValueInv'
<1>1. /\ Watched /\ Good' = Good /\ exported' = exported /\ 1 \in DOMAIN bus
      /\ DOMAIN bus \subseteq Nat \ {0} /\ DOMAIN bus' \subseteq Nat \ {0}
  BY Received DEF Watched, Good
<1>2. \A i \in DOMAIN bus' : i + 1 \in DOMAIN bus /\ bus'[i] = bus[i + 1]
  BY Received
<1>3. \A i \in DOMAIN bus : i # 1 => i - 1 \in DOMAIN bus' /\ bus'[i - 1] = bus[i]
  BY Received
<1> SUFFICES ASSUME NEW q \in Good
             PROVE  /\ \A i \in DOMAIN bus' : LastTells(i, q)' => bus'[i].val = exported[q]
                    /\ (\A i \in DOMAIN bus' : ~Tells(i, q)') => q \in shadowed' \/ mirror'[q] = exported[q]
  BY <1>1 DEF ValueInv
<1>4. ASSUME NEW i \in DOMAIN bus', LastTells(i, q)'
      PROVE  bus'[i].val = exported[q]
  <2>1. i \in Nat /\ i + 1 \in DOMAIN bus /\ Tells(i + 1, q)
    BY <1>1, <1>2, <1>4 DEF LastTells, Tells
  <2>2. ASSUME NEW j \in DOMAIN bus, j > i + 1
        PROVE  ~Tells(j, q)
    <3>1. j \in Nat /\ j # 1 /\ j - 1 > i
      BY <1>1, <2>1, <2>2
    <3> QED BY <1>3, <1>4, <3>1 DEF LastTells, Tells
  <2>3. LastTells(i + 1, q)
    BY <2>1, <2>2 DEF LastTells
  <2> QED BY <1>1, <1>2, <2>1, <2>3 DEF ValueInv
<1>5. ASSUME \A i \in DOMAIN bus' : ~Tells(i, q)'
      PROVE  q \in shadowed' \/ mirror'[q] = exported[q]
  <2>1. \A i \in DOMAIN bus : i # 1 => ~Tells(i, q)
    BY <1>3, <1>5 DEF Tells
  <2>2. \/ q \in DOMAIN mirror /\ \A i \in DOMAIN bus : ~Erases(i, q)
        \/ 1 \in DOMAIN bus /\ bus[1].op = "added" /\ bus[1].path = q /\ Claimed(mirror, q)
    <3>1. \A i \in DOMAIN bus : i > 1 => ~(bus[i].op = "added" /\ bus[i].path = q)
      BY <1>1, <2>1 DEF Tells
    <3> QED BY <1>1, <3>1, Reached
  <2>3. CASE Tells(1, q)
    <3>1. LastTells(1, q)
      BY <1>1, <2>1, <2>3 DEF LastTells
    <3>2. bus[1].val = exported[q]
      BY <1>1, <3>1 DEF ValueInv
    <3> QED BY <2>2, <2>3, <3>2
  <2>4. CASE ~Tells(1, q)
    <3>1. q \in DOMAIN mirror /\ ~Erases(1, q)
      BY <1>1, <2>2, <2>4 DEF Tells
    <3>2. q \in shadowed \/ mirror[q] = exported[q]
      BY <1>1, <2>1, <2>4 DEF ValueInv
    <3> QED BY <2>4, <3>1, <3>2
  <2> QED BY <2>3, <2>4
<1> QED BY <1>4, <1>5

LEMMA ConstructValues == TypeOK /\ ListInv /\ ValueInv /\ Construct => ValueInv'
<1> SUFFICES ASSUME TypeOK, ListInv, ValueInv, Construct, Watched' PROVE ValueInv'
  BY DEF ValueInv
<1>1. CASE AddMatch \/ AddMatchFails
  <2>1. /\ DOMAIN bus' = {} /\ Good' = Good /\ UNCHANGED <<mirror, exported>>
        /\ DOMAIN mirror # {} /\ DOMAIN snapshot = {} /\ phase = "listed"
    <3>1. /\ UNCHANGED <<bus, mirror, exported, lost, cut>> /\ DOMAIN snapshot = {} /\ phase = "listed"
          /\ phase' = "watching"
      BY <1>1 DEF AddMatch, AddMatchFails, bluezVars, history
    <3>2. bus = <<>>
      BY <3>1 DEF ListInv
    <3> QED BY <3>1, <3>2 DEF Watched, Good
  <2>2. \A p \in Good : mirror[p] = exported[p]
    BY <2>1 DEF ListInv
  <2> QED BY <2>1, <2>2 DEF ValueInv
<1>2. CASE StartThread
  <2>1. /\ UNCHANGED <<bus, mirror, exported, lost, cut, shadowed>> /\ Watched
    BY <1>2 DEF StartThread, Watched, bluezVars, history
  <2> QED BY <2>1 DEF ValueInv, LastTells, Tells, Good
<1>3. CASE ListObjects \/ ListFails \/ FileListed
  BY <1>3 DEF ListObjects, ListFails, FileListed, Watched
<1> QED BY <1>1, <1>2, <1>3 DEF Construct

LEMMA BlueZValues == TypeOK /\ ListInv /\ ValueInv /\ BlueZ => ValueInv'
<1> SUFFICES ASSUME TypeOK, ListInv, ValueInv, BlueZ, Watched' PROVE ValueInv'
  BY DEF ValueInv
<1>1. /\ phase' = phase /\ mirror' = mirror /\ shadowed' = shadowed /\ Watched
      /\ phase \in {"watching", "running"}
  BY BlueZSteps DEF Watched
<1>u. CASE ~routed
  <2>1. /\ bus' = bus /\ mirror' = mirror /\ shadowed' = shadowed
        /\ \A q \in Good' : q \in Good /\ exported'[q] = exported[q]
    BY <1>1, <1>u, Unheard
  <2> QED BY <1>1, <2>1 DEF ValueInv, LastTells, Tells
<1> SUFFICES ASSUME routed PROVE ValueInv'
  BY <1>u
<1>r. routed
  OBVIOUS
<1>2. PICK p \in Paths : \/ \E v \in Values : Export(p, v) \/ ChangeValue(p, v)
                         \/ Withdraw(p) \/ GainInterface(p) \/ LoseInterface(p)
  BY BlueZSteps
<1>3. ASSUME NEW v \in Values, Export(p, v)
      PROVE  ValueInv'
  <2>1. [op |-> "added", path |-> p, val |-> v] \in Signal
    BY DEF Signal
  <2>2. bus' = Append(bus, [op |-> "added", path |-> p, val |-> v])
    BY <1>1, <1>r, <1>3, ExportFacts, Announced
  <2>3. \A q \in Good' : IF q = p THEN v = exported'[q] ELSE q \in Good /\ exported'[q] = exported[q]
    BY <1>3, ExportFacts DEF Good
  <2> QED BY <1>1, <1>r, <2>1, <2>2, <2>3, ValueSaid
<1>4. ASSUME NEW v \in Values, ChangeValue(p, v)
      PROVE  ValueInv'
  <2>1. [op |-> "changed", path |-> p, val |-> v] \in Signal
    BY DEF Signal
  <2>2. bus' = Append(bus, [op |-> "changed", path |-> p, val |-> v])
    BY <1>1, <1>r, <1>4, ChangeFacts, Announced
  <2>3. \A q \in Good' : IF q = p THEN v = exported'[q] ELSE q \in Good /\ exported'[q] = exported[q]
    BY <1>4, ChangeFacts DEF Good
  <2> QED BY <1>1, <1>r, <2>1, <2>2, <2>3, ValueSaid
<1>5. ASSUME NEW op \in {"removed", "interface"}, Announce([op |-> op, path |-> p]),
             Good' \subseteq Good, \A q \in Good' : exported'[q] = exported[q]
      PROVE  ValueInv'
  <2>1. [op |-> op, path |-> p] \in Signal
    BY DEF Signal
  <2>2. bus' = Append(bus, [op |-> op, path |-> p])
    BY <1>1, <1>r, <1>5, Announced
  <2> QED BY <1>1, <1>r, <1>5, <2>1, <2>2, ValueSaid
<1>6. CASE Withdraw(p)
  BY <1>5, <1>6, WithdrawFacts DEF Good
<1>7. CASE GainInterface(p)
  <2>1. exported' = exported /\ cut' = cut /\ Announce([op |-> "interface", path |-> p])
    BY <1>7 DEF GainInterface
  <2>2. lost \subseteq lost'
    BY <2>1 DEF Announce
  <2> QED BY <1>5, <2>1, <2>2, GoodShrinks
<1>8. CASE LoseInterface(p)
  <2>1. exported' = exported /\ cut \subseteq cut' /\ Announce([op |-> "removed", path |-> p])
    BY <1>8 DEF LoseInterface
  <2>2. lost \subseteq lost'
    BY <2>1 DEF Announce
  <2> QED BY <1>5, <2>1, <2>2, GoodShrinks
<1> QED BY <1>2, <1>3, <1>4, <1>6, <1>7, <1>8

LEMMA AsyncValues == TypeOK /\ ListInv /\ PlaceInv /\ ValueInv /\ RunAsync => ValueInv'
<1> SUFFICES ASSUME TypeOK, ListInv, PlaceInv, ValueInv, RunAsync PROVE ValueInv'
  OBVIOUS
<1>1. CASE InterfacesAdded
  <2>1. /\ Receive("added") /\ UNCHANGED <<lost, cut>>
        /\ mirror' = AddPath(mirror, bus[1].path, bus[1].val)
        /\ shadowed' = IF bus[1].path \in DOMAIN mirror
                       THEN shadowed \cup {bus[1].path} ELSE shadowed \ {bus[1].path}
        /\ bus[1].op = "added"
    BY <1>1, Received DEF InterfacesAdded
  <2>2. \A q : ~Tells(1, q) => bus[1].path # q
    BY <2>1 DEF Tells
  <2>3. \A q \in Good : q \in DOMAIN mirror /\ ~Tells(1, q) =>
           mirror'[q] = mirror[q] /\ (q \in shadowed => q \in shadowed')
    BY <2>1, <2>2, AddPathFiles
  <2>4. \A q \in Good : Tells(1, q) /\ (q \in DOMAIN mirror \/ Claimed(mirror, q))
           => q \in shadowed' \/ mirror'[q] = bus[1].val
    BY <2>1, AddPathFiles DEF Tells
  <2> QED BY <2>1, <2>3, <2>4, ValueHeard
<1>2. CASE OtherInterfaceAdded
  <2>1. /\ Receive("interface") /\ UNCHANGED <<lost, cut, shadowed>> /\ bus[1].op = "interface"
        /\ mirror' = AddPath(mirror, bus[1].path, Blank)
    BY <1>2, Received DEF OtherInterfaceAdded
  <2>2. \A q : ~Tells(1, q)
    BY <2>1 DEF Tells
  <2>3. \A q \in DOMAIN mirror : mirror'[q] = mirror[q]
    BY <2>1, AddPathFiles
  <2> QED BY <2>1, <2>2, <2>3, ValueHeard
<1>3. CASE InterfacesRemoved
  <2>1. /\ Receive("removed") /\ UNCHANGED <<lost, cut, shadowed>> /\ bus[1].op = "removed"
        /\ mirror' = RemovePath(mirror, bus[1].path)
    BY <1>3, Received DEF InterfacesRemoved, history
  <2>2. \A q : ~Tells(1, q)
    BY <2>1 DEF Tells
  <2>3. \A q \in DOMAIN mirror : ~Erases(1, q) => mirror'[q] = mirror[q]
    BY <2>1, RemovePathKeeps DEF Erases
  <2> QED BY <2>1, <2>2, <2>3, ValueHeard
<1>4. CASE PropertiesChanged
  <2>1. /\ Receive("changed") /\ UNCHANGED <<lost, cut>> /\ bus[1].op = "changed"
        /\ mirror' = SetOption(mirror, bus[1].path, bus[1].val)
        /\ shadowed' = shadowed \ {bus[1].path}
    BY <1>4, Received DEF PropertiesChanged
  <2>2. \A q \in Good : q \in DOMAIN mirror /\ ~Tells(1, q) =>
           mirror'[q] = mirror[q] /\ (q \in shadowed => q \in shadowed')
    BY <2>1, SetOptionSets DEF Tells
  <2>3. \A q \in Good : Tells(1, q) /\ q \in DOMAIN mirror => mirror'[q] = bus[1].val
    BY <2>1, SetOptionSets DEF Tells
  <2> QED BY <2>1, <2>2, <2>3, ValueHeard
<1> QED BY <1>1, <1>2, <1>3, <1>4 DEF RunAsync

LEMMA ValueNext == TypeOK /\ ListInv /\ PlaceInv /\ ValueInv /\ [Next]_vars => ValueInv'
<1> SUFFICES ASSUME TypeOK, ListInv, PlaceInv, ValueInv, [Next]_vars PROVE ValueInv'
  OBVIOUS
<1>1. CASE UNCHANGED vars
  BY <1>1 DEF vars, bluezVars, history, ValueInv, Watched, LastTells, Tells, Good
<1> QED BY <1>1, ConstructValues, BlueZValues, AsyncValues DEF Next

-------------------------------------------------------------------------------
(* The adapters BlueZ no longer has.                                         *)

\* BlueZ says something about an object it has, or withdraws it.
LEMMA GhostSaid ==
    ASSUME TypeOK, ListInv, GhostInv, NEW s \in Signal, Announce(s),
           phase \in {"new", "listed", "watching", "running"},
           UNCHANGED <<mirror, snapshot, phase>>, lost \subseteq lost', s.path \in DOMAIN exported',
           DOMAIN exported \subseteq DOMAIN exported'
    PROVE  GhostInv'
<1> SUFFICES ASSUME NEW p \in Paths, p \notin DOMAIN exported' \cup lost'
             PROVE  /\ p \notin DOMAIN snapshot
                    /\ Depth[p] = AdapterDepth =>
                          \A i \in DOMAIN bus' \cup {0} : FilesAny(i, p)' =>
                              \E j \in DOMAIN bus' : j > i /\ bus'[j] = [op |-> "removed", path |-> p]
  BY DEF GhostInv
<1>1. s.path # p /\ p \in Paths \ (DOMAIN exported \cup lost)
  OBVIOUS
<1>2. bus' = bus \/ bus' = Append(bus, s)
  BY DEF Announce
<1>3. DOMAIN bus \subseteq Nat \ {0} /\ 0 # Len(bus) + 1
  BY DEF TypeOK
<1>4. /\ \A i \in DOMAIN bus : i \in DOMAIN bus' /\ bus'[i] = bus[i]
      /\ \A i \in DOMAIN bus' \ DOMAIN bus : bus'[i] = s /\ i # 0
  BY <1>2, <1>3, AppendPlaces DEF TypeOK
<1>5. \A i \in DOMAIN bus' \cup {0} : FilesAny(i, p)' => i \in DOMAIN bus \cup {0} /\ FilesAny(i, p)
  BY <1>1, <1>4 DEF FilesAny
<1> QED BY <1>1, <1>4, <1>5 DEF GhostInv

LEMMA WithdrawGhost ==
    ASSUME TypeOK, ListInv, GhostInv, NEW p \in Paths, Withdraw(p),
           phase \in {"new", "listed", "watching", "running"},
           UNCHANGED <<mirror, snapshot, phase>>
    PROVE  GhostInv'
<1> DEFINE s == [op |-> "removed", path |-> p]
<1> SUFFICES ASSUME NEW q \in Paths, q \notin DOMAIN exported' \cup lost'
             PROVE  /\ q \notin DOMAIN snapshot
                    /\ Depth[q] = AdapterDepth =>
                          \A i \in DOMAIN bus' \cup {0} : FilesAny(i, q)' =>
                              \E j \in DOMAIN bus' : j > i /\ bus'[j] = [op |-> "removed", path |-> q]
  BY DEF GhostInv
<1>1. /\ DOMAIN exported' = DOMAIN exported \ {p} /\ Announce(s) /\ lost \subseteq lost' /\ s \in Signal
      /\ s.op = "removed" /\ s.path = p
  BY WithdrawFacts DEF Signal
<1> HIDE DEF s
<1>2. bus' = bus \/ bus' = Append(bus, s)
  BY <1>1 DEF Announce
<1>n. PICK n : n = Len(bus) + 1
  OBVIOUS
<1>3. DOMAIN bus \subseteq Nat \ {0} /\ n \in Nat \ {0}
  BY <1>n DEF TypeOK
<1>4. /\ \A i \in DOMAIN bus : i \in DOMAIN bus' /\ bus'[i] = bus[i] /\ i < n
      /\ \A i \in DOMAIN bus' \ DOMAIN bus : bus'[i] = s /\ i = n
  BY <1>n, <1>1, <1>2, <1>3, AppendPlaces DEF TypeOK
<1>5. \A i \in DOMAIN bus' \cup {0} : FilesAny(i, q)' => i \in DOMAIN bus \cup {0} /\ FilesAny(i, q)
  BY <1>1, <1>3, <1>4 DEF FilesAny
<1>6. CASE q # p
  <2>1. q \in Paths \ (DOMAIN exported \cup lost)
    BY <1>1, <1>6
  <2> QED BY <1>4, <1>5, <2>1 DEF GhostInv
<1>7. CASE q = p
  <2>1. CASE phase = "new"
    <3>1. ~routed /\ bus = <<>> /\ DOMAIN mirror = {} /\ DOMAIN snapshot = {} /\ bus' = bus
      BY <1>1, <2>1, Announced DEF ListInv
    <3> QED BY <1>5, <3>1 DEF FilesAny
  <2>2. CASE phase # "new" /\ ~routed
    BY <1>1, <1>7, <2>2, Announced
  <2>3. CASE phase # "new" /\ routed
    <3>1. bus' = Append(bus, s) /\ DOMAIN snapshot = {}
      BY <1>1, <2>3, Announced DEF ListInv
    <3>2. n \in DOMAIN bus' /\ bus'[n] = s
      BY <1>n, <1>1, <3>1, AppendPlaces DEF TypeOK
    <3>3. \A i \in DOMAIN bus \cup {0} : n > i
      BY <1>3, <1>4
    <3> QED BY <1>5, <1>7, <3>1, <3>2, <3>3 DEF s
  <2> QED BY <2>1, <2>2, <2>3
<1> QED BY <1>6, <1>7

LEMMA BlueZGhost == TypeOK /\ ListInv /\ GhostInv /\ BlueZ => GhostInv'
<1> SUFFICES ASSUME TypeOK, ListInv, GhostInv, BlueZ PROVE GhostInv'
  OBVIOUS
<1>1. UNCHANGED <<mirror, snapshot, phase>> /\ phase \in {"new", "listed", "watching", "running"}
  BY BlueZSteps
<1>2. PICK p \in Paths : \/ \E v \in Values : Export(p, v) \/ ChangeValue(p, v)
                         \/ Withdraw(p) \/ GainInterface(p) \/ LoseInterface(p)
  BY BlueZSteps
<1>3. ASSUME NEW v \in Values, Export(p, v)
      PROVE  GhostInv'
  <2>1. [op |-> "added", path |-> p, val |-> v] \in Signal
    BY DEF Signal
  <2> QED BY <1>1, <1>3, <2>1, ExportFacts, GhostSaid
<1>4. ASSUME NEW v \in Values, ChangeValue(p, v)
      PROVE  GhostInv'
  <2>1. [op |-> "changed", path |-> p, val |-> v] \in Signal
    BY DEF Signal
  <2> QED BY <1>1, <1>4, <2>1, ChangeFacts, GhostSaid
<1>5. ASSUME NEW op \in {"removed", "interface"}, Announce([op |-> op, path |-> p]),
             exported' = exported, p \in DOMAIN exported
      PROVE  GhostInv'
  <2>1. [op |-> op, path |-> p] \in Signal
    BY DEF Signal
  <2>2. lost \subseteq lost'
    BY <1>5 DEF Announce
  <2> QED BY <1>1, <1>5, <2>1, <2>2, GhostSaid
<1>6. CASE GainInterface(p) \/ LoseInterface(p)
  BY <1>5, <1>6 DEF GainInterface, LoseInterface
<1> QED BY <1>1, <1>2, <1>3, <1>4, <1>6, WithdrawGhost

LEMMA ConstructGhost == TypeOK /\ ListInv /\ GhostInv /\ Construct => GhostInv'
<1> SUFFICES ASSUME TypeOK, ListInv, GhostInv, Construct PROVE GhostInv'
  OBVIOUS
<1>1. CASE ListObjects
  <2>1. /\ DOMAIN bus' = {} /\ DOMAIN mirror' = {} /\ snapshot' = exported /\ exported' = exported
    BY <1>1 DEF ListObjects, ListInv, bluezVars
  <2> QED BY <2>1 DEF GhostInv, FilesAny
<1>2. CASE FileListed
  <2>1. PICK x \in DOMAIN snapshot : /\ DOMAIN mirror' = DOMAIN mirror \cup {x}
                                     /\ DOMAIN snapshot' = DOMAIN snapshot \ {x}
    BY <1>2, FilesItsNext
  <2>2. UNCHANGED <<bus, phase, exported, lost>> /\ phase = "listed"
    BY <1>2 DEF FileListed, bluezVars, history
  <2>3. \A p \in Paths \ (DOMAIN exported \cup lost) : p # x /\ p \notin DOMAIN snapshot'
    BY <2>1 DEF GhostInv
  <2>4. \A p \in Paths \ (DOMAIN exported \cup lost) : \A i : FilesAny(i, p)' => FilesAny(i, p)
    BY <2>1, <2>2, <2>3 DEF FilesAny
  <2> QED BY <2>2, <2>3, <2>4 DEF GhostInv
<1>3. CASE AddMatch \/ AddMatchFails \/ ListFails \/ StartThread
  <2>1. UNCHANGED <<bus, mirror, snapshot, exported, lost>> /\ phase # "absent"
    BY <1>3 DEF AddMatch, AddMatchFails, ListFails, StartThread, bluezVars, history
  <2> QED BY <2>1 DEF GhostInv, FilesAny
<1> QED BY <1>1, <1>2, <1>3 DEF Construct

\* The async thread takes a signal, which files at most the object it is about.
LEMMA GhostHeard ==
    ASSUME TypeOK, ListInv, GhostInv, NEW op, Receive(op), lost' = lost,
           \A p \in DOMAIN mirror' : p \in DOMAIN mirror \/ FilesAny(1, p),
           \A p \in Paths : Depth[p] = AdapterDepth /\ bus[1] = [op |-> "removed", path |-> p]
                             => p \notin DOMAIN mirror'
    PROVE  GhostInv'
<1>1. /\ exported' = exported /\ snapshot' = snapshot /\ phase' = phase /\ phase = "running"
      /\ 1 \in DOMAIN bus /\ DOMAIN bus \subseteq Nat \ {0} /\ DOMAIN bus' \subseteq Nat \ {0}
  BY Received
<1>2. \A i \in DOMAIN bus' : i + 1 \in DOMAIN bus /\ bus'[i] = bus[i + 1]
  BY Received
<1>3. \A i \in DOMAIN bus : i # 1 => i - 1 \in DOMAIN bus' /\ bus'[i - 1] = bus[i]
  BY Received
<1> SUFFICES ASSUME NEW p \in Paths \ (DOMAIN exported \cup lost), Depth[p] = AdapterDepth,
                    NEW i \in DOMAIN bus' \cup {0}, FilesAny(i, p)'
             PROVE  \E j \in DOMAIN bus' : j > i /\ bus'[j] = [op |-> "removed", path |-> p]
  BY <1>1 DEF GhostInv
<1>4. ASSUME NEW k \in DOMAIN bus \cup {0}, FilesAny(k, p), k >= i, k \in Nat, k = 0 \/ k > i
      PROVE  \E j \in DOMAIN bus' : j > i /\ bus'[j] = [op |-> "removed", path |-> p]
  <2>1. PICK j \in DOMAIN bus : j > k /\ bus[j] = [op |-> "removed", path |-> p]
    BY <1>1, <1>4 DEF GhostInv
  <2>2. j # 1
    <3>1. CASE k = 0
      <4>1. i = 0
        BY <1>1, <1>4, <3>1
      <4> QED BY <1>1, <2>1, <4>1 DEF FilesAny
    <3>2. CASE k # 0
      BY <1>1, <1>4, <2>1, <3>2
    <3> QED BY <3>1, <3>2
  <2>3. j - 1 \in DOMAIN bus' /\ bus'[j - 1] = bus[j] /\ j \in Nat /\ j - 1 >= 1
    BY <1>1, <1>3, <2>2
  <2>4. j - 1 > i
    BY <1>1, <1>4, <2>1, <2>3
  <2> QED BY <2>1, <2>3, <2>4
<1>5. CASE i = 0
  <2>1. p \in DOMAIN mirror \/ FilesAny(1, p)
    BY <1>5 DEF FilesAny
  <2>2. CASE p \in DOMAIN mirror
    BY <1>4, <1>5, <2>2 DEF FilesAny
  <2>3. CASE FilesAny(1, p)
    BY <1>1, <1>4, <1>5, <2>3
  <2> QED BY <2>1, <2>2, <2>3
<1>6. CASE i # 0
  <2>1. i \in Nat /\ i + 1 \in DOMAIN bus /\ FilesAny(i + 1, p)
    BY <1>1, <1>2, <1>6 DEF FilesAny
  <2> QED BY <1>1, <1>4, <2>1
<1> QED BY <1>5, <1>6

LEMMA AsyncGhost == TypeOK /\ ListInv /\ GhostInv /\ RunAsync => GhostInv'
<1> SUFFICES ASSUME TypeOK, ListInv, GhostInv, RunAsync PROVE GhostInv'
  OBVIOUS
<1>1. CASE InterfacesAdded
  <2>1. /\ Receive("added") /\ lost' = lost /\ bus[1].op = "added"
        /\ mirror' = AddPath(mirror, bus[1].path, bus[1].val)
    BY <1>1, Received DEF InterfacesAdded
  <2>2. \A p \in DOMAIN mirror' : p \in DOMAIN mirror \/ FilesAny(1, p)
    BY <2>1, AddPathFiles DEF FilesAny
  <2> QED BY <2>1, <2>2, GhostHeard
<1>2. CASE OtherInterfaceAdded
  <2>1. /\ Receive("interface") /\ lost' = lost /\ bus[1].op = "interface"
        /\ mirror' = AddPath(mirror, bus[1].path, Blank)
    BY <1>2, Received DEF OtherInterfaceAdded
  <2>2. \A p \in DOMAIN mirror' : p \in DOMAIN mirror \/ FilesAny(1, p)
    BY <2>1, AddPathFiles DEF FilesAny
  <2> QED BY <2>1, <2>2, GhostHeard
<1>3. CASE InterfacesRemoved
  <2>1. /\ Receive("removed") /\ lost' = lost /\ mirror' = RemovePath(mirror, bus[1].path)
    BY <1>3, Received DEF InterfacesRemoved, history
  <2>2. DOMAIN mirror' \subseteq DOMAIN mirror
    BY <2>1, RemovePathKeeps
  <2>3. \A p \in Paths : Depth[p] = AdapterDepth /\ bus[1] = [op |-> "removed", path |-> p]
                         => p \notin DOMAIN mirror'
    BY <2>1, RemovePathKeeps
  <2> QED BY <2>1, <2>2, <2>3, GhostHeard
<1>4. CASE PropertiesChanged
  <2>1. /\ Receive("changed") /\ lost' = lost /\ bus[1].op = "changed"
        /\ mirror' = SetOption(mirror, bus[1].path, bus[1].val)
    BY <1>4, Received DEF PropertiesChanged
  <2>2. DOMAIN mirror' = DOMAIN mirror
    BY <2>1, SetOptionSets
  <2> QED BY <2>1, <2>2, GhostHeard
<1> QED BY <1>1, <1>2, <1>3, <1>4 DEF RunAsync

LEMMA GhostNext == TypeOK /\ ListInv /\ GhostInv /\ [Next]_vars => GhostInv'
<1> SUFFICES ASSUME TypeOK, ListInv, GhostInv, [Next]_vars PROVE GhostInv'
  OBVIOUS
<1>1. CASE UNCHANGED vars
  BY <1>1 DEF vars, bluezVars, history, GhostInv, FilesAny
<1> QED BY <1>1, ConstructGhost, BlueZGhost, AsyncGhost DEF Next

LEMMA Inductive == Spec => []IInv
<1>1. Init => IInv
  BY TypeInit, ListInit DEF IInv
<1>2. IInv /\ [Next]_vars => IInv'
  BY TypeNext, ListNext, PlaceNext, ValueNext, GhostNext DEF IInv
<1> QED BY <1>1, <1>2, PTL DEF Spec

\* In step, a good object is in the tree, since its signal cannot be waiting.
LEMMA GoodInStep ==
    ASSUME IInv, InStep, NEW p \in DOMAIN exported, ~Spoiled(p, lost \cup cut)
    PROVE  p \in DOMAIN mirror /\ (p \in shadowed \/ mirror[p] = exported[p])
<1>1. Watched /\ DOMAIN bus = {} /\ p \in Good
  BY DEF InStep, Watched, Good
<1>2. p \in DOMAIN mirror
  BY <1>1, Reached DEF IInv
<1>3. p \in shadowed \/ mirror[p] = exported[p]
  BY <1>1 DEF IInv, ValueInv
<1> QED BY <1>2, <1>3

-------------------------------------------------------------------------------
(* The theorems.                                                             *)

\* In every behaviour, whatever BlueZ exports and withdraws and in whatever order the
\* signals come, the mirror is a tree of typed objects: each object can be reached
\* from an adapter.
THEOREM MirrorIsATree == Spec => []TypeOK
BY TypeInit, TypeNext, PTL DEF Spec

\* Whatever has happened before, the tree holds each exported object none of whose
\* announcements was lost, before the match rule or because add_match failed, and whose
\* adapter was not erased by mistake: its parent is always filed before it.
THEOREM NothingMissing == Spec => []ExportedIsMirrored
<1>1. IInv => ExportedIsMirrored
  BY GoodInStep DEF ExportedIsMirrored
<1> QED BY <1>1, Inductive, PTL

\* Such an object holds the value BlueZ last announced, unless emplace kept an old one.
THEOREM ValuesAreCurrent == Spec => []MirrorHasValues
<1>1. IInv => MirrorHasValues
  BY GoodInStep DEF MirrorHasValues
<1> QED BY <1>1, Inductive, PTL

\* However often an adapter comes and goes, the tree in step holds none that is gone, but
\* one whose removal was never routed here.
THEOREM GhostsLeave == Spec => []NoGhostAdapter
<1>1. IInv => NoGhostAdapter
  <2> SUFFICES ASSUME IInv, InStep, NEW p \in DOMAIN mirror, Depth[p] = AdapterDepth,
                      p \notin DOMAIN exported \cup lost
               PROVE  FALSE
    BY DEF NoGhostAdapter
  <2>1. p \in Paths /\ DOMAIN bus = {} /\ phase = "running"
    BY DEF IInv, TypeOK, IsMap, InStep
  <2>2. FilesAny(0, p)
    BY DEF FilesAny
  <2> QED BY <2>1, <2>2 DEF IInv, GhostInv
<1> QED BY <1>1, Inductive, PTL
===============================================================================
