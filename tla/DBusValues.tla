----------------------------- MODULE DBusValues -----------------------------
(***************************************************************************)
(* SimpleDBus values on their way through a message: Holder, the writing   *)
(* and the reading half of Message, and the methods and signals of         *)
(* Properties, ObjectManager and GattCharacteristic1 that use them.        *)
(*                                                                         *)
(* A signature is the sequence of its type codes.  An argument of a        *)
(* message, as libdbus (external) keeps it, is a record: a number, a text, *)
(* a variant, an array of elements, an entry of a dictionary.  The keys of *)
(* a std::map come in a fixed order, which one is left open.               *)
(*                                                                         *)
(* Values are nested, and the functions call themselves.  A call inside a  *)
(* function is a constant operator: an instance makes it the function      *)
(* itself, a theorem assumes that it is, for every value there may be.     *)
(***************************************************************************)
EXTENDS Integers, SequencesExt, Selection

CONSTANTS Size,        \* type code of a number -> how many values the type has; "t" has the most
          Names,       \* names of properties
          Holders,     \* what Properties::Set is called with, and the elements of it
          Arguments,   \* what the peer gives its properties
          Chunks,      \* what is written to the characteristic: sequences of bytes
          Lengths      \* how many values the type of the length of a write has

CONSTANTS AssignCall(_, _), SignatureCall(_), EncodeCall(_, _), DecodeCall(_),
          IsHolderCall(_), RepresentsCall(_, _)

VARIABLES
    props,     \* the peer: property -> argument
    assigned,  \* history: property -> the Holder that Set gave it
    value,     \* the peer: the bytes of the characteristic
    written,   \* history: the latest write: data, and "request" or "command"
    received,  \* the peer: the arguments of the latest WriteValue
    args,      \* the message that is read: its arguments
    iter,      \* Message::_iter: 0 before it is initialised, else the place of an argument
    taken,     \* what was extracted from the message
    phase      \* "idle", "extract", "next", or "crashed"

readVars == <<args, iter, taken>>
writeVars == <<value, written, received>>
vars == <<props, assigned, writeVars, readVars, phase>>

----------------------------------------------------------------------------
\* A map, after one of its keys was given a value.
With(f, k, v) == [x \in DOMAIN f \cup {k} |-> IF x = k THEN v ELSE f[x]]

(* Holder. *)

Kind == [y |-> "BYTE", b |-> "BOOLEAN", n |-> "INT16", q |-> "UINT16", i |-> "INT32", u |-> "UINT32",
         x |-> "INT64", t |-> "UINT64", d |-> "DOUBLE", s |-> "STRING", o |-> "OBJ_PATH", g |-> "SIGNATURE"]
TextCodes == {"s", "o", "g"}
NumberCodes == DOMAIN Kind \ TextCodes
SignedCodes == {"n", "i", "x"}

SizeAssumption ==
    /\ Size \in [NumberCodes -> Nat \ {0}] /\ Lengths \in Nat \ {0}
    /\ \A c \in NumberCodes : Size["t"] % Size[c] = 0
    /\ \A c \in SignedCodes : Size[c] % 2 = 0

Fresh == [type |-> "NONE", num |-> 0, txt |-> "", arr |-> <<>>, dict |-> <<>>]

(* A number is kept in the union's 64 bits, a negative one by its complement. *)
KeepAsIs(c, n) == n
Widen(c, n) == n % Size["t"]
CreateNumber(c, n) == [Fresh EXCEPT !.type = Kind[c], !.num = Widen(c, n)]
CreateText(c, txt) == [Fresh EXCEPT !.type = Kind[c], !.txt = txt]
CreateArray == [Fresh EXCEPT !.type = "ARRAY"]
CreateDict == [Fresh EXCEPT !.type = "DICT"]

(* The get_ functions: a mask, and the cast to a signed type. *)
Masked(c, n) == n % Size[c]
GetNumber(c, n) ==
    IF c \in SignedCodes /\ Masked(c, n) >= Size[c] \div 2 THEN Masked(c, n) - Size[c] ELSE Masked(c, n)

ValuesOf(c) == IF c \in SignedCodes THEN -(Size[c] \div 2)..(Size[c] \div 2 - 1) ELSE 0..(Size[c] - 1)

\* What a dictionary holds under a key; std::map makes it when it is asked for.
Held(h, k) == IF k \in DOMAIN h.dict THEN h.dict[k] ELSE Fresh

(* operator=: the elements of a container are added to those the target has. *)
Assign(target, other) ==
    CASE other.type = "ARRAY" ->
            [target EXCEPT !.type = "ARRAY",
                           !.arr = @ \o [j \in DOMAIN other.arr |-> AssignCall(Fresh, other.arr[j])]]
      [] other.type = "DICT" ->
            [target EXCEPT !.type = "DICT", !.dict = [k \in DOMAIN target.dict \cup DOMAIN other.dict |->
                IF k \in DOMAIN other.dict THEN AssignCall(Held(target, k), other.dict[k]) ELSE target.dict[k]]]
      [] OTHER -> [target EXCEPT !.type = other.type, !.num = other.num, !.txt = other.txt]

\* array_append, for each of a sequence of elements, and dict_append.
ArrayAppend(h, elements) == [h EXCEPT !.arr = @ \o [j \in DOMAIN elements |-> Assign(Fresh, elements[j])]]
DictAppend(h, k, element) == [h EXCEPT !.dict = With(@, k, Assign(Held(h, k), element))]

Signature(h) ==
    CASE h.type = "NONE" -> <<>>
      [] h.type = "ARRAY" -> <<"a">> \o (IF h.arr = <<>> THEN <<"v">> ELSE SignatureCall(h.arr[1]))
      [] h.type = "DICT" -> <<"}">>
      [] OTHER -> <<CHOOSE c \in DOMAIN Kind : Kind[c] = h.type>>

----------------------------------------------------------------------------
(* Message. *)

ArrayOf(elements) == [t |-> "a", elements |-> elements]
Variant(a) == [t |-> "v", content |-> a]
Entry(k, a) == [t |-> "{", key |-> k, content |-> a]
Text(c, txt) == [t |-> c, txt |-> txt]
Number(c, n) == [t |-> c, num |-> n]

(* _append_argument. *)
Encode(h, sig) ==
    CASE sig[1] \in NumberCodes -> Number(sig[1], GetNumber(sig[1], h.num))
      [] sig[1] \in TextCodes -> Text(sig[1], h.txt)
      [] sig[1] = "v" -> Variant(EncodeCall(h, Signature(h)))
      [] sig[1] = "a" /\ sig[2] # "{" -> ArrayOf([j \in DOMAIN h.arr |-> EncodeCall(h.arr[j], Tail(sig))])
      [] sig[1] = "a" /\ sig[2] = "{" ->
            LET keys == SetToSeq(DOMAIN h.dict)
            IN  ArrayOf([j \in DOMAIN keys |->
                    Entry(Text(sig[3], keys[j]), EncodeCall(h.dict[keys[j]], SubSeq(sig, 4, Len(sig) - 1)))])

(* libdbus stops the program when a variant is opened with an incomplete signature. *)
Complete(sig) == sig # <<>> /\ Last(sig) \in DOMAIN Kind \cup {"v"}

(* _extract_generic, _extract_array and _extract_dict: entries without a text for a key and *)
(* values of a type that is not known are left out.                                        *)
IsDictionary(a) == a.elements # <<>> /\ a.elements[1].t = "{"
IsText(k) == k.type \in {"STRING", "OBJ_PATH", "SIGNATURE"}

\* The loop over the entries of a dictionary: what the last one adds to what the others made.
Decode(a) ==
    CASE a.t \in NumberCodes -> CreateNumber(a.t, a.num)
      [] a.t \in TextCodes -> CreateText(a.t, a.txt)
      [] a.t = "v" -> DecodeCall(a.content)
      [] a.t = "a" /\ ~IsDictionary(a) ->
            LET decoded == [j \in DOMAIN a.elements |-> DecodeCall(a.elements[j])]
            IN  ArrayAppend(CreateArray, Selected(decoded, {h \in ToSet(decoded) : h.type # "NONE"}))
      [] a.t = "a" /\ IsDictionary(a) ->
            LET entry == Last(a.elements)
                key == DecodeCall(entry.key)
                element == DecodeCall(entry.content)
                others == IF Len(a.elements) = 1 THEN CreateDict ELSE DecodeCall(ArrayOf(Front(a.elements)))
            IN  IF IsText(key) /\ element.type # "NONE" THEN DictAppend(others, key.txt, element) ELSE others
      [] OTHER -> Fresh

(* extract(): the first call initialises the iterator, beyond the last argument there is NONE. *)
FirstAgain == 1
Place == IF iter = 0 THEN 1 ELSE iter

Extract ==
    /\ phase = "extract"
    /\ iter' = Place
    /\ taken' = Append(taken, IF iter' \in DOMAIN args THEN Decode(args[iter']) ELSE Fresh)
    /\ phase' = IF Len(taken') = Len(args) THEN "idle" ELSE "next"
    /\ UNCHANGED <<props, assigned, writeVars, args>>

ExtractNext ==
    /\ phase = "next"
    /\ iter' = IF iter = 0 THEN 0 ELSE iter + 1
    /\ phase' = "extract"
    /\ UNCHANGED <<props, assigned, writeVars, args, taken>>

(* A message lives as long as the method that made or took it. *)
Discard == args' = <<>> /\ iter' = 0 /\ taken' = <<>>

----------------------------------------------------------------------------
(* Messages that come in; their reader extracts every argument. *)

Receive(arguments) ==
    /\ phase = "idle"
    /\ args' = arguments /\ iter' = 0 /\ taken' = <<>>
    /\ phase' = "extract"
    /\ UNCHANGED <<props, assigned, writeVars>>

Dictionary(names) ==
    LET keys == SetToSeq(names)
    IN  ArrayOf([j \in DOMAIN keys |-> Entry(Text("s", keys[j]), Variant(props[keys[j]]))])
Interfaces == ArrayOf(<<Entry(Text("s", "interface"), Dictionary(DOMAIN props))>>)
Texts(names) == LET keys == SetToSeq(names) IN ArrayOf([j \in DOMAIN keys |-> Text("s", keys[j])])

Get(n) == n \in DOMAIN props /\ Receive(<<Variant(props[n])>>)
GetAll == Receive(<<Dictionary(DOMAIN props)>>)
PropertiesChanged(changed, invalidated) ==
    Receive(<<Text("s", "interface"), Dictionary(changed), Texts(invalidated)>>)
GetManagedObjects == Receive(<<ArrayOf(<<Entry(Text("o", "path"), Interfaces)>>)>>)
InterfacesAdded == Receive(<<Text("o", "path"), Interfaces>>)
InterfacesRemoved == Receive(<<Text("o", "path"), Texts({"interface"})>>)
ReadValue == Receive(<<ArrayOf([j \in DOMAIN value |-> Number("y", value[j])])>>)

PeerSets(n, a) ==
    /\ phase = "idle"
    /\ props' = With(props, n, a)
    /\ assigned' = [k \in DOMAIN assigned \ {n} |-> assigned[k]]
    /\ Discard
    /\ UNCHANGED <<writeVars, phase>>

----------------------------------------------------------------------------
(* Messages that go out. *)

(* Properties::Set. *)
Set(n, h) ==
    /\ phase = "idle" /\ Complete(Signature(h))
    /\ props' = With(props, n, Encode(h, <<"v">>).content)
    /\ assigned' = With(assigned, n, h)
    /\ Discard
    /\ UNCHANGED <<writeVars, phase>>

(* The same, stopped by libdbus: a Boolean is read as four bytes, and only its own is known to be 0 or 1. *)
SetCrashes(n, h) ==
    /\ phase = "idle" /\ (h.type = "BOOLEAN" \/ ~Complete(Signature(h)))
    /\ phase' = "crashed"
    /\ Discard
    /\ UNCHANGED <<props, assigned, writeVars>>

(* GattCharacteristic1::write_request and write_command, and WriteValue. *)
OneByte(n) == n % (Lengths \div 2)
Length(n) == n % Lengths
WriteValue(data, kind) ==
    LET bytes == ArrayAppend(CreateArray, [j \in 1..Length(Len(data)) |-> CreateNumber("y", data[j])])
        options == DictAppend(CreateDict, "type", CreateText("s", kind))
    IN  /\ phase = "idle"
        /\ received' = <<Encode(bytes, <<"a", "y">>), Encode(options, <<"a", "{", "s", "v", "}">>)>>
        /\ value' = [j \in DOMAIN received'[1].elements |-> received'[1].elements[j].num]
        /\ written' = [data |-> data, kind |-> kind]
        /\ Discard
        /\ UNCHANGED <<props, assigned, phase>>

----------------------------------------------------------------------------
Init ==
    /\ props = <<>> /\ assigned = <<>>
    /\ value = <<>> /\ written = [data |-> <<>>, kind |-> "none"] /\ received = <<>>
    /\ args = <<>> /\ iter = 0 /\ taken = <<>>
    /\ phase = "idle"

Next ==
    \/ Extract \/ ExtractNext
    \/ \E n \in Names : Get(n) \/ (\E h \in Holders : Set(n, h) \/ SetCrashes(n, h))
                               \/ (\E a \in Arguments : PeerSets(n, a))
    \/ GetAll \/ GetManagedObjects \/ InterfacesAdded \/ InterfacesRemoved \/ ReadValue
    \/ \E changed \in SUBSET DOMAIN props : PropertiesChanged(changed, Names \ changed)
    \/ \E data \in Chunks, kind \in {"request", "command"} : WriteValue(data, kind)

Spec == Init /\ [][Next]_vars

----------------------------------------------------------------------------
(* Bytes are bytes, and an array is uniform, as D-Bus wants it: the signature is that of its first element. *)
CallerAssumption ==
    /\ Chunks \subseteq Seq(ValuesOf("y"))
    /\ \A h \in Holders : \A j \in DOMAIN h.arr :
            h.arr[j] \in Holders /\ Signature(h.arr[j]) = Signature(h.arr[1])
NamesAssumption == Names \subseteq STRING /\ IsFiniteSet(Names)

ASSUME SizeAssumption
ASSUME CallerAssumption
ASSUME NamesAssumption

----------------------------------------------------------------------------
IsHolder(h) ==
    /\ h.type \in {Kind[c] : c \in DOMAIN Kind} \cup {"NONE", "ARRAY", "DICT"}
    /\ h.num \in 0..(Size["t"] - 1)
    /\ \A j \in DOMAIN h.arr : IsHolderCall(h.arr[j])
    /\ \A k \in DOMAIN h.dict : IsHolderCall(h.dict[k])

(* Types; a number in a Holder fits in the union. *)
TypeOK ==
    /\ DOMAIN assigned \subseteq DOMAIN props /\ DOMAIN props \subseteq Names
    /\ \A n \in DOMAIN assigned : IsHolder(assigned[n])
    /\ \A j \in DOMAIN taken : IsHolder(taken[j])
    /\ iter \in 0..Len(args) /\ phase \in {"idle", "extract", "next", "crashed"}

\* A Holder that was never given a value stands for what the code does not know.
Known(a) == ~RepresentsCall(Fresh, a)

(* The reference for both directions: the Holder h stands for the argument a. *)
Represents(h, a) ==
    \/ /\ a.t \in NumberCodes
       /\ h.type = Kind[a.t] /\ a.num \in ValuesOf(a.t) /\ h.num % Size["t"] = a.num % Size["t"]
    \/ a.t \in TextCodes /\ h.type = Kind[a.t] /\ h.txt = a.txt
    \/ a.t = "v" /\ RepresentsCall(h, a.content)
    \/ /\ a.t = "a" /\ \A j \in DOMAIN a.elements : a.elements[j].t = "{"
       /\ h.type = IF a.elements = <<>> THEN "ARRAY" ELSE "DICT"
       /\ LET kept == {e \in ToSet(a.elements) : e.key.t \in TextCodes /\ Known(e.content)}
          IN  /\ DOMAIN h.dict = {e.key.txt : e \in kept}
              /\ \A e \in kept : RepresentsCall(h.dict[e.key.txt], e.content)
    \/ /\ a.t = "a" /\ \A j \in DOMAIN a.elements : a.elements[j].t # "{"
       /\ h.type = "ARRAY"
       /\ LET kept == Selected(a.elements, {e \in ToSet(a.elements) : Known(e)})
          IN  Len(h.arr) = Len(kept) /\ \A j \in DOMAIN kept : RepresentsCall(h.arr[j], kept[j])
    \/ a.t = "h" /\ h.type = "NONE"

(* Message::extract and extract_next: a reader gets every argument in its place, at every depth with the *)
(* type and the value it has, except dictionary entries without a text for a key and unknown types.       *)
ExtractedIsSent == Len(taken) <= Len(args) /\ \A j \in DOMAIN taken : Represents(taken[j], args[j])

(* Properties::Set: the peer's property stands for the Holder given, whatever the signature found for it. *)
SetArrives == \A n \in DOMAIN assigned : Represents(assigned[n], props[n])

(* GattCharacteristic1: what is shorter than the length type can tell is written whole and in *)
(* order, with the option that the call stands for.                                           *)
WriteArrives ==
    received # <<>> =>
        /\ Len(written.data) < Lengths => value = written.data
        /\ Represents(DictAppend(CreateDict, "type", CreateText("s", written.kind)), received[2])
===============================================================================
