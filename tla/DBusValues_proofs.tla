--------------------------- MODULE DBusValues_proofs ---------------------------
(***************************************************************************)
(* What a program gives to SimpleDBus arrives at its peer, and what the    *)
(* peer sends is extracted, for every width of the numbers and every depth *)
(* of nesting.                                                             *)
(***************************************************************************)
EXTENDS DBusValues, QueueLemmas

----------------------------------------------------------------------------
(* The arguments that messages can have: a set S that holds what is made of its own members, and *)
(* of nothing else, without going in circles.                                                     *)

\* STRING, with the strings that the code itself uses spelled out, and the codes in a signature.
Strings == STRING \cup {"type", "interface", "path", "request", "command"}
TypeCodes == DOMAIN Kind \cup {"a", "v", "{", "}"}

Unknown == [t |-> "h"]
Basic == (UNION {{Number(c, n) : n \in ValuesOf(c)} : c \in NumberCodes})
            \cup {Text(c, x) : c \in TextCodes, x \in Strings} \cup {Unknown}

\* D-Bus wants the keys of a dictionary to be basic, of one type, and distinct.
EntriesOf(S) == {Entry(k, a) : k \in Basic, a \in S}
ProperKeys(s) == \A i, j \in DOMAIN s : s[i].key.t = s[j].key.t /\ (i # j => s[i].key # s[j].key)
Dictionaries(S) == {s \in Seq(EntriesOf(S)) : ProperKeys(s)}

ArgumentsOf(S) == Basic \cup {Variant(a) : a \in S} \cup {ArrayOf(s) : s \in Seq(S) \cup Dictionaries(S)}

PartOf(b, a) ==
    \/ a.t = "v" /\ b = a.content
    \/ a.t = "a" /\ \E j \in DOMAIN a.elements :
          \/ b = a.elements[j]
          \/ a.elements[j].t = "{" /\ b \in {a.elements[j].key, a.elements[j].content, ArrayOf(Front(a.elements))}

AllArguments(S) ==
    /\ S = ArgumentsOf(S)
    /\ \A T \in SUBSET S : T # {} => \E a \in T : \A b \in T : ~PartOf(b, a)

(* The Holders that a program can make, likewise. *)
ArrayHolder(s) == [CreateArray EXCEPT !.arr = s]
DictHolder(f) == [CreateDict EXCEPT !.dict = f]
Maps(H) == UNION {[K -> H] : K \in SUBSET Strings}
HoldersOf(H) ==
    {Fresh} \cup (UNION {{CreateNumber(c, n) : n \in ValuesOf(c)} : c \in NumberCodes})
            \cup {CreateText(c, x) : c \in TextCodes, x \in Strings}
            \cup {ArrayHolder(s) : s \in Seq(H)}
            \cup {DictHolder(f) : f \in Maps(H)}

InsideOf(g, h) == (\E j \in DOMAIN h.arr : g = h.arr[j]) \/ (\E k \in DOMAIN h.dict : g = h.dict[k])

AllHolders(H) ==
    /\ H = HoldersOf(H)
    /\ \A T \in SUBSET H : T # {} => \E h \in T : \A g \in T : ~InsideOf(g, h)

(* A call inside a function is a call of that function. *)
Recursion(S, H) ==
    /\ \A g, h \in H : AssignCall(g, h) = Assign(g, h)
    /\ \A h \in H : SignatureCall(h) = Signature(h) /\ (IsHolderCall(h) <=> IsHolder(h))
    /\ \A h \in H, sig \in Seq(TypeCodes) \ {<<>>} : EncodeCall(h, sig) = Encode(h, sig)
    /\ \A a \in S : DecodeCall(a) = Decode(a)
    /\ \A h \in H, a \in S : RepresentsCall(h, a) <=> Represents(h, a)

\* All of it, and that the program and its peer use nothing else.
Values(S, H) ==
    /\ AllArguments(S) /\ Arguments \subseteq S
    /\ AllHolders(H) /\ Holders \subseteq H
    /\ Recursion(S, H)

----------------------------------------------------------------------------
(* Numbers. *)

LEMMA Codes ==
    /\ DOMAIN Kind = {"y", "b", "n", "q", "i", "u", "x", "t", "d", "s", "o", "g"}
    /\ NumberCodes = {"y", "b", "n", "q", "i", "u", "x", "t", "d"}
    /\ NumberCodes \cap TextCodes = {} /\ NumberCodes \cup TextCodes = DOMAIN Kind
    /\ {"a", "v", "h", "{", "}"} \cap DOMAIN Kind = {}
    /\ "t" \in NumberCodes /\ SignedCodes \subseteq NumberCodes
<1>1. DOMAIN Kind = {"y", "b", "n", "q", "i", "u", "x", "t", "d", "s", "o", "g"}
  BY DEF Kind
<1>2. NumberCodes = {"y", "b", "n", "q", "i", "u", "x", "t", "d"}
  BY <1>1 DEF NumberCodes, TextCodes
<1> QED BY <1>1, <1>2 DEF TextCodes, SignedCodes

LEMMA Kinds ==
    /\ \A c, d \in DOMAIN Kind : Kind[c] = Kind[d] => c = d
    /\ \A c \in DOMAIN Kind : Kind[c] \notin {"NONE", "ARRAY", "DICT"}
    /\ \A c \in TextCodes : Kind[c] \in {"STRING", "OBJ_PATH", "SIGNATURE"}
    /\ \A c \in NumberCodes : Kind[c] \notin {"STRING", "OBJ_PATH", "SIGNATURE"}
BY DEF Kind, NumberCodes, TextCodes

LEMMA Division ==
    ASSUME NEW n \in Int, NEW m \in Nat \ {0}
    PROVE  n % m \in 0..(m - 1) /\ n \div m \in Int /\ n = (n \div m) * m + (n % m)
OBVIOUS

LEMMA Rest ==
    ASSUME NEW m \in Nat \ {0}, NEW k \in Int, NEW s \in 0..(m - 1)
    PROVE  (k * m + s) % m = s
<1>1. PICK n \in Int : n = k * m + s
  OBVIOUS
<1>2. PICK d \in Int, r \in 0..(m - 1) : n = d * m + r /\ r = n % m
  BY Division
<1>3. PICK e \in Int : e = k - d
  OBVIOUS
<1>4. e * m = r - s
  BY <1>1, <1>2, <1>3
<1>5. CASE e >= 1
  <2>1. e * m >= m
    BY <1>5
  <2> QED BY <1>2, <1>4, <2>1
<1>6. CASE e <= -1
  <2>1. e * m <= -m
    BY <1>6
  <2> QED BY <1>2, <1>4, <2>1
<1>7. CASE e = 0
  BY <1>1, <1>2, <1>4, <1>7
<1> QED BY <1>5, <1>6, <1>7

LEMMA ModOfMultiple ==
    ASSUME NEW m \in Nat \ {0}, NEW w \in Nat \ {0}, w % m = 0, NEW n \in Int
    PROVE  (n % w) % m = n % m
<1>1. PICK q \in Int : w = q * m
  <2>1. w = (w \div m) * m + (w % m) /\ w \div m \in Int
    BY Division
  <2>2. PICK q \in Int : q = w \div m
    BY <2>1
  <2>3. w = q * m + 0
    BY <2>1, <2>2
  <2> QED BY <2>2, <2>3
<1>2. PICK k \in Int, r \in 0..(w - 1) : n = k * w + r /\ n % w = r
  BY Division
<1>3. PICK l \in Int, s \in 0..(m - 1) : r = l * m + s /\ r % m = s
  <2>1. r \in Int
    BY <1>2
  <2>2. r % m \in 0..(m - 1) /\ r \div m \in Int /\ r = (r \div m) * m + (r % m)
    BY <2>1, Division
  <2>3. PICK l \in Int, s \in 0..(m - 1) : l = r \div m /\ s = r % m
    BY <2>2
  <2> QED BY <2>2, <2>3
<1>4. n = (k * q + l) * m + s
  BY <1>1, <1>2, <1>3
<1>5. PICK j \in Int : j = k * q + l
  BY <1>1, <1>2, <1>3
<1>6. n = j * m + s
  BY <1>4, <1>5
<1>7. (j * m + s) % m = s
  BY Rest
<1> QED BY <1>2, <1>3, <1>6, <1>7

\* A number that is widened and read back is the number, negative ones included.
LEMMA NumberSurvives ==
    ASSUME NEW c \in NumberCodes, NEW n \in ValuesOf(c)
    PROVE  /\ GetNumber(c, Widen(c, n)) = n
           /\ Widen(c, n) \in 0..(Size["t"] - 1) /\ n \in Int
           /\ Widen(c, n) % Size["t"] = n % Size["t"]
<1>1. Size[c] \in Nat \ {0} /\ Size["t"] \in Nat \ {0} /\ Size["t"] % Size[c] = 0
  BY SizeAssumption, Codes DEF SizeAssumption
<1>2. n \in Int
  BY <1>1 DEF ValuesOf
<1>3. Widen(c, n) \in 0..(Size["t"] - 1)
  BY <1>1, <1>2, Division DEF Widen
<1>4. Widen(c, n) % Size["t"] = n % Size["t"]
  <2>1. Size["t"] % Size["t"] = 0
    BY <1>1
  <2> QED BY <1>1, <1>2, <2>1, ModOfMultiple DEF Widen
<1>5. Masked(c, Widen(c, n)) = n % Size[c]
  BY <1>1, <1>2, ModOfMultiple DEF Masked, Widen
<1>6. PICK m \in Nat \ {0} : m = Size[c]
  BY <1>1
<1>7. CASE n >= 0
  <2>1. n \in 0..(m - 1)
    <3>1. CASE c \in SignedCodes
      BY <1>2, <1>6, <1>7, <3>1 DEF ValuesOf
    <3>2. CASE c \notin SignedCodes
      BY <1>2, <1>6, <1>7, <3>2 DEF ValuesOf
    <3> QED BY <3>1, <3>2
  <2>2. n % m = n
    BY <2>1, Rest, 0 * m + n = n
  <2>3. c \in SignedCodes => ~(n >= m \div 2)
    BY <1>2, <1>6 DEF ValuesOf
  <2> QED BY <1>2, <1>3, <1>4, <1>5, <1>6, <2>2, <2>3 DEF GetNumber
<1>8. CASE n < 0
  <2>1. c \in SignedCodes /\ n >= -(m \div 2)
    BY <1>2, <1>6, <1>8 DEF ValuesOf
  <2>2. m % 2 = 0
    BY <1>6, <2>1, SizeAssumption DEF SizeAssumption
  <2>3. PICK half \in Nat : half = m \div 2 /\ m = 2 * half
    BY <2>2
  <2>4. n + m \in 0..(m - 1) /\ n + m >= m \div 2
    BY <1>2, <1>8, <2>1, <2>3
  <2>5. n % m = n + m
    BY <1>2, <2>4, Rest, (-1) * m + (n + m) = n
  <2> QED BY <1>2, <1>3, <1>4, <1>5, <1>6, <2>1, <2>4, <2>5 DEF GetNumber
<1> QED BY <1>2, <1>7, <1>8

----------------------------------------------------------------------------
(* What there is among the arguments, and how it is told apart. *)

LEMMA ArgumentMade ==
    ASSUME NEW S, AllArguments(S)
    PROVE  /\ \A c \in NumberCodes : \A n \in ValuesOf(c) : Number(c, n) \in Basic /\ Number(c, n) \in S
           /\ \A c \in TextCodes, x \in Strings : Text(c, x) \in Basic /\ Text(c, x) \in S
           /\ Unknown \in S /\ Basic \subseteq S
           /\ \A a \in S : Variant(a) \in S
           /\ \A s \in Seq(S) : ArrayOf(s) \in S
           /\ \A s \in Dictionaries(S) : ArrayOf(s) \in S
<1>1. S = ArgumentsOf(S)
  BY DEF AllArguments
<1>2. Basic \subseteq S
  BY <1>1 DEF ArgumentsOf
<1>3. \A c \in NumberCodes : \A n \in ValuesOf(c) : Number(c, n) \in Basic
  BY DEF Basic
<1>4. \A c \in TextCodes, x \in Strings : Text(c, x) \in Basic
  BY DEF Basic
<1>5. Unknown \in Basic
  BY DEF Basic
<1>6. \A a \in S : Variant(a) \in S
  BY <1>1 DEF ArgumentsOf
<1>7. \A s \in Seq(S) \cup Dictionaries(S) : ArrayOf(s) \in S
  BY <1>1 DEF ArgumentsOf
<1> QED BY <1>2, <1>3, <1>4, <1>5, <1>6, <1>7

LEMMA BasicCases ==
    ASSUME NEW a \in Basic
    PROVE  \/ a.t \in NumberCodes /\ a.num \in ValuesOf(a.t) /\ a = Number(a.t, a.num)
           \/ a.t \in TextCodes /\ a.txt \in Strings /\ a = Text(a.t, a.txt)
           \/ a.t = "h"
<1>1. CASE \E c \in NumberCodes : \E n \in ValuesOf(c) : a = Number(c, n)
  BY <1>1 DEF Number
<1>2. CASE \E c \in TextCodes, x \in Strings : a = Text(c, x)
  BY <1>2 DEF Text
<1>3. CASE a = Unknown
  BY <1>3 DEF Unknown
<1> QED BY <1>1, <1>2, <1>3 DEF Basic

LEMMA ArgumentCodes ==
    ASSUME NEW S, AllArguments(S), NEW a \in S
    PROVE  a.t \in DOMAIN Kind \cup {"h", "v", "a"}
<1>1. CASE a \in Basic
  BY <1>1, BasicCases, Codes
<1>2. CASE \E b \in S : a = Variant(b)
  BY <1>2 DEF Variant
<1>3. CASE \E s \in Seq(S) \cup Dictionaries(S) : a = ArrayOf(s)
  BY <1>3 DEF ArrayOf
<1> QED BY <1>1, <1>2, <1>3 DEF AllArguments, ArgumentsOf

LEMMA EntryFields ==
    ASSUME NEW S, NEW s \in Seq(EntriesOf(S)), NEW j \in DOMAIN s
    PROVE  s[j].t = "{" /\ s[j].key \in Basic /\ s[j].content \in S /\ s[j] = Entry(s[j].key, s[j].content)
<1>1. s[j] \in EntriesOf(S)
  BY ElementsOfSeq
<1>2. PICK k \in Basic, a \in S : s[j] = Entry(k, a)
  BY <1>1 DEF EntriesOf
<1>3. Entry(k, a).t = "{" /\ Entry(k, a).key = k /\ Entry(k, a).content = a
  BY DEF Entry
<1> QED BY <1>2, <1>3

LEMMA ArgumentCases ==
    ASSUME NEW S, AllArguments(S), NEW a \in S
    PROVE  \/ a.t \in NumberCodes /\ a.num \in ValuesOf(a.t)
           \/ a.t \in TextCodes /\ a.txt \in Strings
           \/ a.t = "h"
           \/ a.t = "v" /\ a.content \in S
           \/ a.t = "a" /\ a.elements \in Seq(S) /\ \A j \in DOMAIN a.elements : a.elements[j].t # "{"
           \/ a.t = "a" /\ a.elements \in Dictionaries(S) /\ a.elements # <<>> /\ a = ArrayOf(a.elements)
<1>1. CASE a \in Basic
  BY <1>1, BasicCases
<1>2. CASE \E b \in S : a = Variant(b)
  BY <1>2 DEF Variant
<1>3. CASE \E s \in Seq(S) : a = ArrayOf(s)
  <2>1. PICK s \in Seq(S) : a = ArrayOf(s)
    BY <1>3
  <2>2. a.t = "a" /\ a.elements = s
    BY <2>1 DEF ArrayOf
  <2>3. \A j \in DOMAIN s : s[j].t # "{"
    <3>1. "{" \notin DOMAIN Kind \cup {"h", "v", "a"}
      BY Codes
    <3>2. \A j \in DOMAIN s : s[j] \in S
      BY ElementsOfSeq
    <3> QED BY <3>1, <3>2, ArgumentCodes
  <2> QED BY <2>2, <2>3
<1>4. CASE \E s \in Dictionaries(S) : a = ArrayOf(s)
  <2>1. PICK s \in Dictionaries(S) : a = ArrayOf(s)
    BY <1>4
  <2>2. a.t = "a" /\ a.elements = s /\ a = ArrayOf(a.elements)
    BY <2>1 DEF ArrayOf
  <2>3. CASE s = <<>>
    BY <2>2, <2>3
  <2> QED BY <2>1, <2>2, <2>3
<1> QED BY <1>1, <1>2, <1>3, <1>4 DEF AllArguments, ArgumentsOf

----------------------------------------------------------------------------
(* What there is among the Holders. *)

\* The fields of a Holder.
Is(h, type, num, txt, arr, dict) == h = [type |-> type, num |-> num, txt |-> txt, arr |-> arr, dict |-> dict]

HolderFieldNames == {"type", "num", "txt", "arr", "dict"}

LEMMA IsFields ==
    ASSUME NEW r, r = [z \in HolderFieldNames |-> r[z]]
    PROVE  Is(r, r.type, r.num, r.txt, r.arr, r.dict)
<1>1. [z \in HolderFieldNames |-> r[z]]
        = [type |-> r.type, num |-> r.num, txt |-> r.txt, arr |-> r.arr, dict |-> r.dict]
  BY DEF HolderFieldNames
<1> QED BY <1>1 DEF Is

LEMMA Updated ==
    ASSUME NEW h, NEW type, NEW num, NEW txt, NEW arr, NEW dict, Is(h, type, num, txt, arr, dict), NEW y, NEW x, NEW z
    PROVE  /\ Is([h EXCEPT !.type = y], y, num, txt, arr, dict)
           /\ Is([h EXCEPT !.arr = x], type, num, txt, x, dict)
           /\ Is([h EXCEPT !.dict = x], type, num, txt, arr, x)
           /\ Is([h EXCEPT !.type = y, !.num = x], y, x, txt, arr, dict)
           /\ Is([h EXCEPT !.type = y, !.txt = x], y, num, x, arr, dict)
           /\ Is([h EXCEPT !.type = y, !.arr = x], y, num, txt, x, dict)
           /\ Is([h EXCEPT !.type = y, !.dict = x], y, num, txt, arr, x)
           /\ Is([h EXCEPT !.type = y, !.num = x, !.txt = z], y, x, z, arr, dict)
<1>1. Is([h EXCEPT !.type = y], y, num, txt, arr, dict)
  <2>1. PICK r : r = [h EXCEPT !.type = y]
    OBVIOUS
  <2>2. r.type = y /\ r.num = num /\ r.txt = txt /\ r.arr = arr /\ r.dict = dict
    BY <2>1 DEF Is
  <2>3. r = [f \in HolderFieldNames |-> r[f]]
    BY <2>1 DEF Is, HolderFieldNames
  <2> QED BY <2>1, <2>2, <2>3, IsFields
<1>2. Is([h EXCEPT !.arr = x], type, num, txt, x, dict)
  <2>1. PICK r : r = [h EXCEPT !.arr = x]
    OBVIOUS
  <2>2. r.type = type /\ r.num = num /\ r.txt = txt /\ r.arr = x /\ r.dict = dict
    BY <2>1 DEF Is
  <2>3. r = [f \in HolderFieldNames |-> r[f]]
    BY <2>1 DEF Is, HolderFieldNames
  <2> QED BY <2>1, <2>2, <2>3, IsFields
<1>3. Is([h EXCEPT !.dict = x], type, num, txt, arr, x)
  <2>1. PICK r : r = [h EXCEPT !.dict = x]
    OBVIOUS
  <2>2. r.type = type /\ r.num = num /\ r.txt = txt /\ r.arr = arr /\ r.dict = x
    BY <2>1 DEF Is
  <2>3. r = [f \in HolderFieldNames |-> r[f]]
    BY <2>1 DEF Is, HolderFieldNames
  <2> QED BY <2>1, <2>2, <2>3, IsFields
<1>4. Is([h EXCEPT !.type = y, !.num = x], y, x, txt, arr, dict)
  <2>1. PICK r : r = [h EXCEPT !.type = y, !.num = x]
    OBVIOUS
  <2>2. r.type = y /\ r.num = x /\ r.txt = txt /\ r.arr = arr /\ r.dict = dict
    BY <2>1 DEF Is
  <2>3. r = [f \in HolderFieldNames |-> r[f]]
    BY <2>1 DEF Is, HolderFieldNames
  <2> QED BY <2>1, <2>2, <2>3, IsFields
<1>5. Is([h EXCEPT !.type = y, !.txt = x], y, num, x, arr, dict)
  <2>1. PICK r : r = [h EXCEPT !.type = y, !.txt = x]
    OBVIOUS
  <2>2. r.type = y /\ r.num = num /\ r.txt = x /\ r.arr = arr /\ r.dict = dict
    BY <2>1 DEF Is
  <2>3. r = [f \in HolderFieldNames |-> r[f]]
    BY <2>1 DEF Is, HolderFieldNames
  <2> QED BY <2>1, <2>2, <2>3, IsFields
<1>6. Is([h EXCEPT !.type = y, !.arr = x], y, num, txt, x, dict)
  <2>1. PICK r : r = [h EXCEPT !.type = y, !.arr = x]
    OBVIOUS
  <2>2. r.type = y /\ r.num = num /\ r.txt = txt /\ r.arr = x /\ r.dict = dict
    BY <2>1 DEF Is
  <2>3. r = [f \in HolderFieldNames |-> r[f]]
    BY <2>1 DEF Is, HolderFieldNames
  <2> QED BY <2>1, <2>2, <2>3, IsFields
<1>7. Is([h EXCEPT !.type = y, !.dict = x], y, num, txt, arr, x)
  <2>1. PICK r : r = [h EXCEPT !.type = y, !.dict = x]
    OBVIOUS
  <2>2. r.type = y /\ r.num = num /\ r.txt = txt /\ r.arr = arr /\ r.dict = x
    BY <2>1 DEF Is
  <2>3. r = [f \in HolderFieldNames |-> r[f]]
    BY <2>1 DEF Is, HolderFieldNames
  <2> QED BY <2>1, <2>2, <2>3, IsFields
<1>8. Is([h EXCEPT !.type = y, !.num = x, !.txt = z], y, x, z, arr, dict)
  <2>1. PICK r : r = [h EXCEPT !.type = y, !.num = x, !.txt = z]
    OBVIOUS
  <2>2. r.type = y /\ r.num = x /\ r.txt = z /\ r.arr = arr /\ r.dict = dict
    BY <2>1 DEF Is
  <2>3. r = [f \in HolderFieldNames |-> r[f]]
    BY <2>1 DEF Is, HolderFieldNames
  <2> QED BY <2>1, <2>2, <2>3, IsFields
<1> QED BY <1>1, <1>2, <1>3, <1>4, <1>5, <1>6, <1>7, <1>8

LEMMA IsMeans ==
    ASSUME NEW h, NEW type, NEW num, NEW txt, NEW arr, NEW dict, Is(h, type, num, txt, arr, dict)
    PROVE  /\ h.type = type /\ h.num = num /\ h.txt = txt /\ h.arr = arr /\ h.dict = dict
           /\ Is(h, h.type, h.num, h.txt, h.arr, h.dict)
BY DEF Is

LEMMA Fields ==
    /\ Is(Fresh, "NONE", 0, "", <<>>, <<>>)
    /\ \A c, n : Is(CreateNumber(c, n), Kind[c], Widen(c, n), "", <<>>, <<>>)
    /\ \A c, x : Is(CreateText(c, x), Kind[c], 0, x, <<>>, <<>>)
    /\ Is(CreateArray, "ARRAY", 0, "", <<>>, <<>>)
    /\ Is(CreateDict, "DICT", 0, "", <<>>, <<>>)
    /\ \A s : Is(ArrayHolder(s), "ARRAY", 0, "", s, <<>>)
    /\ \A f : Is(DictHolder(f), "DICT", 0, "", <<>>, f)
<1>1. Is(Fresh, "NONE", 0, "", <<>>, <<>>)
  BY DEF Is, Fresh
<1>2. \A c, n : Is(CreateNumber(c, n), Kind[c], Widen(c, n), "", <<>>, <<>>)
  BY <1>1, Updated DEF CreateNumber
<1>3. \A c, x : Is(CreateText(c, x), Kind[c], 0, x, <<>>, <<>>)
  BY <1>1, Updated DEF CreateText
<1>4. Is(CreateArray, "ARRAY", 0, "", <<>>, <<>>)
  BY <1>1, Updated DEF CreateArray
<1>5. Is(CreateDict, "DICT", 0, "", <<>>, <<>>)
  BY <1>1, Updated DEF CreateDict
<1>6. \A s : Is(ArrayHolder(s), "ARRAY", 0, "", s, <<>>)
  BY <1>4, Updated DEF ArrayHolder
<1>7. \A f : Is(DictHolder(f), "DICT", 0, "", <<>>, f)
  BY <1>5, Updated DEF DictHolder
<1> QED BY <1>1, <1>2, <1>3, <1>4, <1>5, <1>6, <1>7

LEMMA HolderMade ==
    ASSUME NEW H, AllHolders(H)
    PROVE  /\ Fresh \in H
           /\ \A c \in NumberCodes : \A n \in ValuesOf(c) : CreateNumber(c, n) \in H
           /\ \A c \in TextCodes, x \in Strings : CreateText(c, x) \in H
           /\ \A s \in Seq(H) : ArrayHolder(s) \in H
           /\ \A f \in Maps(H) : DictHolder(f) \in H
<1>1. H = HoldersOf(H)
  BY DEF AllHolders
<1>2. Fresh \in H /\ \A c \in TextCodes, x \in Strings : CreateText(c, x) \in H
  BY <1>1 DEF HoldersOf
<1>3. \A c \in NumberCodes : \A n \in ValuesOf(c) : CreateNumber(c, n) \in H
  BY <1>1 DEF HoldersOf
<1>4. \A s \in Seq(H) : ArrayHolder(s) \in H
  BY <1>1 DEF HoldersOf
<1>5. \A f \in Maps(H) : DictHolder(f) \in H
  BY <1>1 DEF HoldersOf
<1> QED BY <1>2, <1>3, <1>4, <1>5

LEMMA HolderCases ==
    ASSUME NEW H, AllHolders(H), NEW h \in H
    PROVE  \/ h = Fresh
           \/ \E c \in NumberCodes : \E n \in ValuesOf(c) : h = CreateNumber(c, n)
           \/ \E c \in TextCodes, x \in Strings : h = CreateText(c, x)
           \/ h.arr \in Seq(H) /\ h = ArrayHolder(h.arr) /\ h.type = "ARRAY"
           \/ h.dict \in Maps(H) /\ h = DictHolder(h.dict) /\ h.type = "DICT"
<1>1. CASE \E s \in Seq(H) : h = ArrayHolder(s)
  <2>1. PICK s \in Seq(H) : h = ArrayHolder(s)
    BY <1>1
  <2>2. Is(h, "ARRAY", 0, "", s, <<>>)
    BY <2>1, Fields
  <2>3. h.arr = s /\ h.type = "ARRAY"
    BY <2>2, IsMeans
  <2> QED BY <2>1, <2>3
<1>2. CASE \E f \in Maps(H) : h = DictHolder(f)
  <2>1. PICK f \in Maps(H) : h = DictHolder(f)
    BY <1>2
  <2>2. Is(h, "DICT", 0, "", <<>>, f)
    BY <2>1, Fields
  <2>3. h.dict = f /\ h.type = "DICT"
    BY <2>2, IsMeans
  <2> QED BY <2>1, <2>3
<1> QED BY <1>1, <1>2 DEF AllHolders, HoldersOf

LEMMA MapValues ==
    ASSUME NEW H, NEW f \in Maps(H)
    PROVE  DOMAIN f \subseteq Strings /\ \A k \in DOMAIN f : f[k] \in H
BY DEF Maps

\* A Holder is a container, or there is nothing in it.
LEMMA HolderFields ==
    ASSUME NEW H, AllHolders(H), NEW h \in H
    PROVE  /\ Is(h, h.type, h.num, h.txt, h.arr, h.dict)
           /\ h.arr \in Seq(H) /\ (h.arr = <<>> \/ h.type = "ARRAY")
           /\ h.dict \in Maps(H) /\ (h.dict = <<>> \/ h.type = "DICT")
           /\ h.num \in 0..(Size["t"] - 1)
           /\ h.type \in {"ARRAY", "DICT"} => h.num = 0 /\ h.txt = ""
           /\ h.type \in {Kind[c] : c \in DOMAIN Kind} \cup {"NONE", "ARRAY", "DICT"}
<1>1. <<>> \in Seq(H) /\ <<>> \in Maps(H)
  <2>1. <<>> \in [{} -> H]
    OBVIOUS
  <2>2. [{} -> H] \in {[K -> H] : K \in SUBSET Strings}
    OBVIOUS
  <2>3. <<>> \in UNION {[K -> H] : K \in SUBSET Strings}
    BY <2>1, <2>2
  <2>4. <<>> \in Maps(H)
    BY <2>3, Zenon DEF Maps
  <2> QED BY <2>4
<1>2. 0 \in 0..(Size["t"] - 1)
  BY SizeAssumption, Codes DEF SizeAssumption
<1>3. CASE h = Fresh
  <2>1. Is(h, "NONE", 0, "", <<>>, <<>>)
    BY <1>3, Fields
  <2> QED BY <1>1, <1>2, <2>1, IsMeans
<1>4. CASE \E c \in NumberCodes : \E n \in ValuesOf(c) : h = CreateNumber(c, n)
  <2>1. PICK c \in NumberCodes : \E n \in ValuesOf(c) : h = CreateNumber(c, n)
    BY <1>4
  <2>2. PICK n \in ValuesOf(c) : h = CreateNumber(c, n)
    BY <2>1
  <2>3. Widen(c, n) \in 0..(Size["t"] - 1) /\ c \in DOMAIN Kind /\ Kind[c] \notin {"ARRAY", "DICT"}
    BY NumberSurvives, Codes, Kinds
  <2>4. Is(h, Kind[c], Widen(c, n), "", <<>>, <<>>)
    BY <2>2, Fields
  <2>5. Kind[c] \in {Kind[d] : d \in DOMAIN Kind}
    BY <2>3
  <2>6. h.type = Kind[c] /\ h.num = Widen(c, n) /\ h.arr = <<>> /\ h.dict = <<>>
    BY <2>4 DEF Is
  <2>7. Is(h, h.type, h.num, h.txt, h.arr, h.dict)
    BY <2>4, IsMeans
  <2> QED BY <1>1, <2>3, <2>5, <2>6, <2>7
<1>5. CASE \E c \in TextCodes, x \in Strings : h = CreateText(c, x)
  <2>1. PICK c \in TextCodes, x \in Strings : h = CreateText(c, x)
    BY <1>5
  <2>2. Is(h, Kind[c], 0, x, <<>>, <<>>) /\ c \in DOMAIN Kind /\ Kind[c] \notin {"ARRAY", "DICT"}
    BY <2>1, Fields, Codes, Kinds
  <2>3. Kind[c] \in {Kind[d] : d \in DOMAIN Kind}
    BY <2>2
  <2> QED BY <1>1, <1>2, <2>2, <2>3, IsMeans
<1>6. CASE h.arr \in Seq(H) /\ h = ArrayHolder(h.arr)
  <2>1. Is(h, "ARRAY", 0, "", h.arr, <<>>)
    BY <1>6, Fields
  <2> QED BY <1>1, <1>2, <1>6, <2>1, IsMeans
<1>7. CASE h.dict \in Maps(H) /\ h = DictHolder(h.dict)
  <2>1. Is(h, "DICT", 0, "", <<>>, h.dict)
    BY <1>7, Fields
  <2> QED BY <1>1, <1>2, <1>7, <2>1, IsMeans
<1> QED BY <1>3, <1>4, <1>5, <1>6, <1>7, HolderCases

----------------------------------------------------------------------------
(* operator= on a fresh Holder makes a copy. *)

LEMMA IsEqual ==
    ASSUME NEW g, NEW h, NEW type, NEW num, NEW txt, NEW arr, NEW dict,
           Is(g, type, num, txt, arr, dict), Is(h, type, num, txt, arr, dict)
    PROVE  g = h
BY DEF Is

LEMMA CopyStep ==
    ASSUME NEW H, AllHolders(H), NEW h \in H,
           \A j \in DOMAIN h.arr : AssignCall(Fresh, h.arr[j]) = h.arr[j],
           \A k \in DOMAIN h.dict : AssignCall(Fresh, h.dict[k]) = h.dict[k]
    PROVE  Assign(Fresh, h) = h
<1>1. /\ Is(h, h.type, h.num, h.txt, h.arr, h.dict)
      /\ h.arr \in Seq(H) /\ (h.arr = <<>> \/ h.type = "ARRAY")
      /\ h.dict \in Maps(H) /\ (h.dict = <<>> \/ h.type = "DICT")
  BY HolderFields
<1>2. Is(Fresh, "NONE", 0, "", <<>>, <<>>)
  BY Fields
<1>3. Fresh.arr = <<>> /\ Fresh.dict = <<>>
  BY <1>2 DEF Is
<1>4. CASE h.type = "ARRAY"
  <2>1. [j \in DOMAIN h.arr |-> AssignCall(Fresh, h.arr[j])] = h.arr
    BY <1>1
  <2>2. <<>> \o h.arr = h.arr
    BY <1>1
  <2>3. Assign(Fresh, h) = [Fresh EXCEPT !.type = "ARRAY", !.arr = h.arr]
    BY <1>3, <1>4, <2>1, <2>2 DEF Assign
  <2>4. Is([Fresh EXCEPT !.type = "ARRAY", !.arr = h.arr], "ARRAY", 0, "", h.arr, <<>>)
    BY <1>2, Updated
  <2>5. h.num = 0 /\ h.txt = "" /\ h.dict = <<>>
    BY <1>1, <1>4, HolderFields
  <2>6. Is(h, "ARRAY", 0, "", h.arr, <<>>)
    BY <1>1, <1>4, <2>5, Zenon
  <2> QED BY <2>3, <2>4, <2>6, IsEqual
<1>5. CASE h.type = "DICT"
  <2>1. \A k : Held(Fresh, k) = Fresh
    BY <1>3 DEF Held
  <2>2. [k \in DOMAIN Fresh.dict \cup DOMAIN h.dict |->
            IF k \in DOMAIN h.dict THEN AssignCall(Held(Fresh, k), h.dict[k]) ELSE Fresh.dict[k]] = h.dict
    <3>1. DOMAIN Fresh.dict \cup DOMAIN h.dict = DOMAIN h.dict
      BY <1>3
    <3>2. h.dict = [k \in DOMAIN h.dict |-> h.dict[k]]
      BY <1>1 DEF Maps
    <3> QED BY <2>1, <3>1, <3>2
  <2>3. Assign(Fresh, h) = [Fresh EXCEPT !.type = "DICT", !.dict = h.dict]
    <3> DEFINE d == [k \in DOMAIN Fresh.dict \cup DOMAIN h.dict |->
                        IF k \in DOMAIN h.dict THEN AssignCall(Held(Fresh, k), h.dict[k]) ELSE Fresh.dict[k]]
    <3>1. Assign(Fresh, h) = [Fresh EXCEPT !.type = "DICT", !.dict = d]
      BY <1>5, Zenon DEF Assign
    <3>2. d = h.dict
      BY <2>2
    <3> HIDE DEF d
    <3> QED BY <3>1, <3>2, Zenon
  <2>4. Is([Fresh EXCEPT !.type = "DICT", !.dict = h.dict], "DICT", 0, "", <<>>, h.dict)
    BY <1>2, Updated
  <2>5. h.num = 0 /\ h.txt = "" /\ h.arr = <<>>
    BY <1>1, <1>5, HolderFields
  <2>6. Is(h, "DICT", 0, "", <<>>, h.dict)
    BY <1>1, <1>5, <2>5, Zenon
  <2> QED BY <2>3, <2>4, <2>6, IsEqual
<1>6. CASE h.type \notin {"ARRAY", "DICT"}
  <2>1. Assign(Fresh, h) = [Fresh EXCEPT !.type = h.type, !.num = h.num, !.txt = h.txt]
    BY <1>6 DEF Assign
  <2>2. Is([Fresh EXCEPT !.type = h.type, !.num = h.num, !.txt = h.txt], h.type, h.num, h.txt, <<>>, <<>>)
    BY <1>2, Updated
  <2>3. h.arr = <<>> /\ h.dict = <<>>
    BY <1>1, <1>6
  <2>4. Is(h, h.type, h.num, h.txt, <<>>, <<>>)
    BY <1>1, <2>3, Zenon
  <2> QED BY <2>1, <2>2, <2>4, IsEqual
<1> QED BY <1>4, <1>5, <1>6

LEMMA CopyIsSame ==
    ASSUME NEW S, NEW H, Values(S, H), NEW h \in H
    PROVE  Assign(Fresh, h) = h
<1> DEFINE T == {g \in H : AssignCall(Fresh, g) # g}
<1>1. AllHolders(H) /\ Fresh \in H /\ \A g \in H : AssignCall(Fresh, g) = Assign(Fresh, g)
  BY HolderMade DEF Values, Recursion
<1>2. CASE T # {}
  <2>1. PICK g \in T : \A i \in T : ~InsideOf(i, g)
    BY <1>1, <1>2 DEF AllHolders
  <2>2. g \in H /\ AssignCall(Fresh, g) # g
    BY <2>1
  <2>3. \A j \in DOMAIN g.arr : AssignCall(Fresh, g.arr[j]) = g.arr[j]
    <3>1. \A j \in DOMAIN g.arr : g.arr[j] \in H
      BY <1>1, <2>2, HolderFields, ElementsOfSeq
    <3> QED BY <2>1, <3>1 DEF InsideOf
  <2>4. \A k \in DOMAIN g.dict : AssignCall(Fresh, g.dict[k]) = g.dict[k]
    <3>1. \A k \in DOMAIN g.dict : g.dict[k] \in H
      BY <1>1, <2>2, HolderFields, MapValues
    <3> QED BY <2>1, <3>1 DEF InsideOf
  <2>5. Assign(Fresh, g) = g
    BY <1>1, <2>2, <2>3, <2>4, CopyStep
  <2> QED BY <1>1, <2>2, <2>5
<1> QED BY <1>1, <1>2

\* What a Holder is made of is a Holder.
LEMMA Inside ==
    ASSUME NEW H, AllHolders(H), NEW h \in H
    PROVE  (\A j \in DOMAIN h.arr : h.arr[j] \in H) /\ (\A k \in DOMAIN h.dict : h.dict[k] \in H)
BY HolderFields, ElementsOfSeq, MapValues

LEMMA HoldersAreHolders ==
    ASSUME NEW S, NEW H, Values(S, H), NEW h \in H
    PROVE  IsHolder(h)
<1> DEFINE T == {g \in H : ~IsHolderCall(g)}
<1>1. AllHolders(H) /\ \A g \in H : IsHolderCall(g) <=> IsHolder(g)
  BY DEF Values, Recursion
<1>2. CASE T # {}
  <2>1. PICK g \in T : \A i \in T : ~InsideOf(i, g)
    BY <1>1, <1>2 DEF AllHolders
  <2>2. g \in H /\ ~IsHolderCall(g)
    BY <2>1
  <2>3. \A j \in DOMAIN g.arr : IsHolderCall(g.arr[j])
    BY <1>1, <2>1, <2>2, Inside DEF InsideOf
  <2>4. \A k \in DOMAIN g.dict : IsHolderCall(g.dict[k])
    BY <1>1, <2>1, <2>2, Inside DEF InsideOf
  <2>5. IsHolder(g)
    BY <1>1, <2>2, <2>3, <2>4, HolderFields DEF IsHolder
  <2> QED BY <1>1, <2>2, <2>5
<1> QED BY <1>1, <1>2

----------------------------------------------------------------------------
(* The reference, type by type. *)

KeptEntries(s) == {e \in ToSet(s) : e.key.t \in TextCodes /\ Known(e.content)}
KeptElements(s) == Selected(s, {e \in ToSet(s) : Known(e)})

LEMMA RepresentsFlat ==
    ASSUME NEW h, NEW a
    PROVE  /\ a.t \in NumberCodes =>
                (Represents(h, a) <=> /\ h.type = Kind[a.t] /\ a.num \in ValuesOf(a.t)
                                      /\ h.num % Size["t"] = a.num % Size["t"])
           /\ a.t \in TextCodes => (Represents(h, a) <=> h.type = Kind[a.t] /\ h.txt = a.txt)
           /\ a.t = "v" => (Represents(h, a) <=> RepresentsCall(h, a.content))
           /\ a.t = "h" => (Represents(h, a) <=> h.type = "NONE")
<1>1. CASE a.t \in NumberCodes
  <2>1. a.t \notin TextCodes /\ a.t \notin {"v", "h", "a"}
    BY <1>1, Codes
  <2> QED BY <1>1, <2>1 DEF Represents
<1>2. CASE a.t \in TextCodes
  <2>1. a.t \notin NumberCodes /\ a.t \notin {"v", "h", "a"}
    BY <1>2, Codes
  <2> QED BY <1>2, <2>1 DEF Represents
<1>3. CASE a.t \in {"v", "h"}
  <2>1. a.t \notin NumberCodes /\ a.t \notin TextCodes
    BY <1>3, Codes
  <2> QED BY <1>3, <2>1 DEF Represents
<1> QED BY <1>1, <1>2, <1>3

LEMMA RepresentsDict ==
    ASSUME NEW h, NEW a, a.t = "a", a.elements # <<>>, 1 \in DOMAIN a.elements,
           \A j \in DOMAIN a.elements : a.elements[j].t = "{"
    PROVE  Represents(h, a) <=> /\ h.type = "DICT"
                                /\ DOMAIN h.dict = {e.key.txt : e \in KeptEntries(a.elements)}
                                /\ \A e \in KeptEntries(a.elements) : RepresentsCall(h.dict[e.key.txt], e.content)
<1>1. a.t \notin NumberCodes /\ a.t \notin TextCodes
  BY Codes
<1> QED BY <1>1 DEF Represents, KeptEntries

LEMMA RepresentsArray ==
    ASSUME NEW h, NEW a, a.t = "a"
    PROVE  /\ Represents(h, a) => h.type \in {"ARRAY", "DICT"}
           /\ /\ \A j \in DOMAIN a.elements : a.elements[j].t # "{"
              /\ h.type = "ARRAY" /\ Len(h.arr) = Len(KeptElements(a.elements))
              /\ \A j \in DOMAIN KeptElements(a.elements) : RepresentsCall(h.arr[j], KeptElements(a.elements)[j])
              => Represents(h, a)
<1>1. a.t \notin NumberCodes /\ a.t \notin TextCodes
  BY Codes
<1> QED BY <1>1 DEF Represents, KeptElements

----------------------------------------------------------------------------
(* What is extracted stands for what was sent. *)

\* The Holder h is the right one for the argument a, and tells whether the code knows a.
Right(H, h, a) == h \in H /\ Represents(h, a) /\ (h.type = "NONE" <=> Represents(Fresh, a))

LEMMA DecodeFlat ==
    ASSUME NEW a
    PROVE  /\ a.t \in NumberCodes => Decode(a) = CreateNumber(a.t, a.num)
           /\ a.t \in TextCodes => Decode(a) = CreateText(a.t, a.txt)
           /\ a.t = "v" => Decode(a) = DecodeCall(a.content)
           /\ a.t = "h" => Decode(a) = Fresh
<1>1. CASE a.t \in NumberCodes
  <2>1. a.t \notin TextCodes /\ a.t \notin {"v", "h", "a"}
    BY <1>1, Codes
  <2> QED BY <1>1, <2>1 DEF Decode
<1>2. CASE a.t \in TextCodes
  <2>1. a.t \notin NumberCodes /\ a.t \notin {"v", "h", "a"}
    BY <1>2, Codes
  <2> QED BY <1>2, <2>1 DEF Decode
<1>3. CASE a.t \in {"v", "h"}
  <2>1. a.t \notin NumberCodes /\ a.t \notin TextCodes
    BY <1>3, Codes
  <2> QED BY <1>3, <2>1 DEF Decode
<1> QED BY <1>1, <1>2, <1>3

LEMMA FreshType == Fresh.type = "NONE" /\ Fresh.txt = "" /\ Fresh.num = 0
BY DEF Fresh

LEMMA NumberFields ==
    ASSUME NEW c, NEW n
    PROVE  CreateNumber(c, n).type = Kind[c] /\ CreateNumber(c, n).num = Widen(c, n)
<1>1. PICK k, w, h : k = Kind[c] /\ w = Widen(c, n) /\ h = CreateNumber(c, n)
  OBVIOUS
<1>2. Is(h, k, w, "", <<>>, <<>>)
  BY <1>1, Fields, Zenon
<1>3. h.type = k /\ h.num = w
  BY <1>2 DEF Is
<1> QED BY <1>1, <1>3, Zenon

LEMMA NumberRight ==
    ASSUME NEW H, AllHolders(H), NEW a, a.t \in NumberCodes, a.num \in ValuesOf(a.t)
    PROVE  Right(H, CreateNumber(a.t, a.num), a)
<1> DEFINE h == CreateNumber(a.t, a.num)
<1>1. h \in H
  BY HolderMade
<1>3. h.type = Kind[a.t] /\ h.num = Widen(a.t, a.num)
  BY NumberFields
<1> HIDE DEF h
<1>4. Kind[a.t] # "NONE"
  BY Codes, Kinds
<1>5. Widen(a.t, a.num) % Size["t"] = a.num % Size["t"]
  BY NumberSurvives
<1>6. Represents(h, a)
  BY <1>3, <1>5, RepresentsFlat
<1>7. ~Represents(Fresh, a)
  BY <1>4, RepresentsFlat, FreshType
<1> QED BY <1>1, <1>3, <1>4, <1>6, <1>7 DEF Right, h

LEMMA TextRight ==
    ASSUME NEW H, AllHolders(H), NEW a, a.t \in TextCodes, a.txt \in Strings
    PROVE  Right(H, CreateText(a.t, a.txt), a)
<1> DEFINE h == CreateText(a.t, a.txt)
<1>1. h \in H
  BY HolderMade
<1>2. Is(h, Kind[a.t], 0, a.txt, <<>>, <<>>)
  BY Fields
<1>3. h.type = Kind[a.t] /\ h.txt = a.txt
  BY <1>2 DEF Is
<1>4. Kind[a.t] # "NONE"
  BY Codes, Kinds
<1> HIDE DEF h
<1>5. Represents(h, a)
  BY <1>3, RepresentsFlat
<1>6. ~Represents(Fresh, a)
  BY <1>4, RepresentsFlat, FreshType
<1> QED BY <1>1, <1>3, <1>4, <1>5, <1>6 DEF Right, h

\* What is known of the array a with the elements s when its elements have been decoded.
ElementsRight(H, a, s) ==
    /\ a.t = "a" /\ s = a.elements
    /\ \A j \in DOMAIN s : s[j].t # "{" /\ Right(H, DecodeCall(s[j]), s[j])

LEMMA ArrayRight ==
    ASSUME NEW S, NEW H, Values(S, H), NEW a \in S, NEW s \in Seq(S), ElementsRight(H, a, s)
    PROVE  Right(H, Decode(a), a)
<1> PICK d : d = [j \in DOMAIN s |-> DecodeCall(s[j])]
  OBVIOUS
<1> DEFINE M == {h \in ToSet(d) : h.type # "NONE"}
           N == {e \in ToSet(s) : Known(e)}
           f == Selected(d, M)
           g == Selected(s, N)
<1>1. AllHolders(H) /\ Fresh \in H /\ \A h \in H, b \in S : RepresentsCall(h, b) <=> Represents(h, b)
  BY HolderMade DEF Values, Recursion
<1>2. \A j \in DOMAIN s : s[j] \in S /\ d[j] \in H /\ d[j] = DecodeCall(s[j])
  BY ElementsOfSeq DEF Right, ElementsRight
<1>3. d \in Seq(H) /\ DOMAIN d = DOMAIN s
  <2>1. Len(s) \in Nat /\ DOMAIN s = 1..Len(s)
    BY DomainOfSeq
  <2>2. d \in [1..Len(s) -> H]
    BY <1>2, <2>1
  <2> QED BY <2>1, <2>2
<1>4. ASSUME NEW j \in DOMAIN s PROVE d[j] \in M <=> s[j] \in N
  <2>1. d[j].type = "NONE" <=> Represents(Fresh, s[j])
    BY <1>2 DEF Right, ElementsRight
  <2>2. Known(s[j]) <=> ~Represents(Fresh, s[j])
    BY <1>1, <1>2 DEF Known
  <2>3. d[j] \in ToSet(d) /\ s[j] \in ToSet(s)
    BY <1>3 DEF ToSet
  <2> QED BY <2>1, <2>2, <2>3
<1>5. Places(d, M) = Places(s, N)
  BY <1>3, <1>4 DEF Places
<1>6. PICK n \in Nat : n = Count(s, N)
  BY PlacesAreFinite
<1> HIDE DEF M, N
<1>7. /\ Count(d, M) = n
      /\ \A k \in 1..n : \E i \in Places(d, M) : f[k] = d[i] /\ g[k] = s[i]
  <2>1. /\ Count(d, M) = Count(s, N)
        /\ \A k \in 1..Count(d, M) : \E i \in Places(d, M) : f[k] = d[i] /\ g[k] = s[i]
    BY <1>3, <1>5, SelectedAlike
  <2> HIDE DEF f, g
  <2> QED BY <1>6, <2>1
<1>8. f \in Seq(H) /\ Len(f) = n /\ DOMAIN f = 1..n
  <2>1. f \in Seq(H \cap M) /\ Len(f) = n
    BY <1>3, <1>7, SelectedElements
  <2> HIDE DEF f
  <2>2. f \in Seq(H)
    BY <2>1, SeqOfMore
  <2> QED BY <2>1, <2>2, DomainOfSeq
<1>9. Len(g) = n /\ DOMAIN g = 1..n
  <2>1. g \in Seq(S \cap N) /\ Len(g) = n
    BY <1>6, SelectedElements
  <2> HIDE DEF g
  <2> QED BY <2>1, DomainOfSeq
<1> HIDE DEF f, g
<1>10. Decode(a) = ArrayHolder(f)
  <2>1. ~IsDictionary(a) /\ a.t \notin NumberCodes /\ a.t \notin TextCodes
    <3>1. s = <<>> \/ 1 \in DOMAIN s
      OBVIOUS
    <3> QED BY <3>1, Codes DEF IsDictionary, ElementsRight
  <2>2. Decode(a) = ArrayAppend(CreateArray, f)
    BY <2>1 DEF Decode, f, M, ElementsRight
  <2>3. CreateArray.arr = <<>>
    BY DEF CreateArray, Fresh
  <2>4. [k \in DOMAIN f |-> Assign(Fresh, f[k])] = f
    <3>1. \A k \in DOMAIN f : f[k] \in H
      BY <1>8, ElementsOfSeq
    <3>2. \A k \in DOMAIN f : Assign(Fresh, f[k]) = f[k]
      BY <3>1, CopyIsSame
    <3> QED BY <1>8, <3>2
  <2>5. <<>> \o f = f
    BY <1>8
  <2> QED BY <2>2, <2>3, <2>4, <2>5 DEF ArrayAppend, ArrayHolder
<1>11. Decode(a) \in H
  BY <1>1, <1>8, <1>10, HolderMade
<1>12. Decode(a).type = "ARRAY" /\ Decode(a).arr = f
  <2>1. Is(ArrayHolder(f), "ARRAY", 0, "", f, <<>>)
    BY Fields
  <2> QED BY <1>10, <2>1, IsMeans
<1>13. \A k \in 1..n : RepresentsCall(f[k], g[k])
  <2>1. SUFFICES ASSUME NEW k \in 1..n PROVE RepresentsCall(f[k], g[k])
    OBVIOUS
  <2>2. PICK i \in Places(d, M) : f[k] = d[i] /\ g[k] = s[i]
    BY <1>7
  <2>3. i \in DOMAIN s
    BY <1>3 DEF Places
  <2>4. Represents(DecodeCall(s[i]), s[i])
    BY <2>3 DEF Right, ElementsRight
  <2> QED BY <1>1, <1>2, <2>2, <2>3, <2>4
<1>14. Represents(Decode(a), a)
  BY <1>8, <1>9, <1>12, <1>13, RepresentsArray DEF KeptElements, g, N, ElementsRight
<1>15. ~Represents(Fresh, a)
  BY RepresentsArray, FreshType DEF ElementsRight
<1> QED BY <1>11, <1>12, <1>14, <1>15 DEF Right

\* A dictionary without its last entry.
LEMMA FrontOfDict ==
    ASSUME NEW S, NEW s \in Dictionaries(S), s # <<>>
    PROVE  /\ Len(s) \in DOMAIN s /\ Last(s) = s[Len(s)] /\ 1 \in DOMAIN s /\ Len(s) \in Nat \ {0}
           /\ Front(s) \in Dictionaries(S) /\ Len(Front(s)) = Len(s) - 1
           /\ ToSet(s) = ToSet(Front(s)) \cup {Last(s)}
           /\ \A x \in ToSet(Front(s)) : x.key.t = Last(s).key.t /\ x.key # Last(s).key
<1>1. s \in Seq(EntriesOf(S)) /\ ProperKeys(s)
  BY DEF Dictionaries
<1>2. PICK n \in Nat \ {0} : n = Len(s) /\ DOMAIN s = 1..n
  BY <1>1
<1>3. PICK f : f = Front(s)
  OBVIOUS
<1>4. f \in Seq(EntriesOf(S)) /\ Len(f) = n - 1 /\ DOMAIN f = 1..(n - 1)
  BY <1>1, <1>2, <1>3 DEF Front
<1>5. \A j \in 1..(n - 1) : f[j] = s[j]
  BY <1>1, <1>2, <1>3 DEF Front
<1>6. Last(s) = s[n]
  BY <1>2 DEF Last
<1>7. f \in Dictionaries(S)
  BY <1>1, <1>2, <1>4, <1>5 DEF Dictionaries, ProperKeys
<1>8. ToSet(s) = ToSet(f) \cup {s[n]}
  <2>1. ToSet(s) = {s[j] : j \in 1..n}
    BY <1>2 DEF ToSet
  <2>2. ToSet(f) = {s[j] : j \in 1..(n - 1)}
    BY <1>4, <1>5 DEF ToSet
  <2>3. 1..n = 1..(n - 1) \cup {n}
    BY <1>2
  <2> QED BY <2>1, <2>2, <2>3
<1>9. \A x \in ToSet(f) : x.key.t = s[n].key.t /\ x.key # s[n].key
  <2>1. SUFFICES ASSUME NEW j \in 1..(n - 1) PROVE s[j].key.t = s[n].key.t /\ s[j].key # s[n].key
    BY <1>4, <1>5 DEF ToSet
  <2>2. j \in DOMAIN s /\ n \in DOMAIN s /\ j # n
    BY <1>2
  <2> QED BY <1>1, <2>2 DEF ProperKeys
<1> QED BY <1>2, <1>3, <1>4, <1>6, <1>7, <1>8, <1>9

LEMMA KeyRight ==
    ASSUME NEW S, NEW H, Values(S, H), NEW k \in Basic
    PROVE  /\ IsText(DecodeCall(k)) <=> k.t \in TextCodes
           /\ k.t \in TextCodes => DecodeCall(k).txt = k.txt
<1>1. DecodeCall(k) = Decode(k)
  BY ArgumentMade DEF Values, Recursion
<1>2. CASE k.t \in NumberCodes
  <2>1. Decode(k).type = Kind[k.t]
    BY <1>2, DecodeFlat, NumberFields
  <2>2. k.t \notin TextCodes
    BY <1>2, Codes
  <2> QED BY <1>1, <1>2, <2>1, <2>2, Kinds DEF IsText
<1>3. CASE k.t \in TextCodes
  <2>1. Is(CreateText(k.t, k.txt), Kind[k.t], 0, k.txt, <<>>, <<>>)
    BY Fields
  <2>2. CreateText(k.t, k.txt).type = Kind[k.t] /\ CreateText(k.t, k.txt).txt = k.txt
    BY <2>1 DEF Is
  <2>3. Decode(k) = CreateText(k.t, k.txt)
    BY <1>3, DecodeFlat
  <2>4. Kind[k.t] \in {"STRING", "OBJ_PATH", "SIGNATURE"}
    BY <1>3, Kinds
  <2> QED BY <1>1, <1>3, <2>2, <2>3, <2>4 DEF IsText
<1>4. CASE k.t = "h"
  <2>1. Decode(k).type = "NONE"
    BY <1>4, DecodeFlat, FreshType
  <2>2. k.t \notin TextCodes
    BY <1>4, Codes
  <2> QED BY <1>1, <2>1, <2>2 DEF IsText
<1> QED BY <1>2, <1>3, <1>4, BasicCases

\* What the entries but the last were made into.
OthersOf(s) == IF Len(s) = 1 THEN CreateDict ELSE DecodeCall(ArrayOf(Front(s)))

\* A Holder for the entries K of a dictionary.
HoldsEntries(h, K) ==
    /\ h.type = "DICT" /\ DOMAIN h.dict = {e.key.txt : e \in K}
    /\ \A e \in K : RepresentsCall(h.dict[e.key.txt], e.content)

LEMMA DictFields ==
    ASSUME NEW S, NEW s \in Dictionaries(S)
    PROVE  /\ \A j \in DOMAIN s : s[j].t = "{" /\ s[j].key \in Basic /\ s[j].content \in S
           /\ \A e \in ToSet(s) : e.key \in Basic /\ e.content \in S
<1>1. s \in Seq(EntriesOf(S))
  BY DEF Dictionaries
<1>2. \A j \in DOMAIN s : s[j].t = "{" /\ s[j].key \in Basic /\ s[j].content \in S
  BY <1>1, EntryFields
<1> QED BY <1>2 DEF ToSet

LEMMA DictRepresented ==
    ASSUME NEW S, NEW H, Values(S, H), NEW s \in Dictionaries(S), s # <<>>, NEW h
    PROVE  /\ ArrayOf(s) \in S
           /\ Represents(h, ArrayOf(s)) <=> HoldsEntries(h, KeptEntries(s))
<1>1. ArrayOf(s) \in S
  BY ArgumentMade DEF Values
<1>2. PICK a : a = ArrayOf(s)
  OBVIOUS
<1>3. a.t = "a" /\ a.elements = s
  BY <1>2 DEF ArrayOf
<1>4. 1 \in DOMAIN s
  BY FrontOfDict
<1>5. \A j \in DOMAIN s : s[j].t = "{"
  BY EntryFields DEF Dictionaries
<1>6. Represents(h, a) <=> HoldsEntries(h, KeptEntries(s))
  BY <1>3, <1>4, <1>5, RepresentsDict DEF HoldsEntries
<1> QED BY <1>1, <1>2, <1>6

LEMMA OthersRight ==
    ASSUME NEW S, NEW H, Values(S, H), NEW s \in Dictionaries(S), s # <<>>,
           Len(s) # 1 => Right(H, DecodeCall(ArrayOf(Front(s))), ArrayOf(Front(s)))
    PROVE  OthersOf(s) \in H /\ HoldsEntries(OthersOf(s), KeptEntries(Front(s)))
<1>1. /\ Front(s) \in Dictionaries(S) /\ Len(s) \in Nat \ {0} /\ Len(Front(s)) = Len(s) - 1
      /\ Front(s) \in Seq(EntriesOf(S))
  BY FrontOfDict DEF Dictionaries
<1>2. CASE Len(s) = 1
  <2>1. PICK f \in Seq(EntriesOf(S)) : f = Front(s) /\ Len(f) = 0
    <3>1. 1 - 1 = 0
      OBVIOUS
    <3> QED BY <1>1, <1>2, <3>1, Zenon
  <2>2. DOMAIN f = {}
    BY <2>1
  <2>3. KeptEntries(f) = {}
    BY <2>2 DEF KeptEntries, ToSet
  <2>4. CreateDict.type = "DICT" /\ CreateDict.dict = <<>>
    BY DEF CreateDict, Fresh
  <2>5. CreateDict \in H
    <3>1. <<>> \in Maps(H) /\ Is(DictHolder(<<>>), "DICT", 0, "", <<>>, <<>>)
      BY Fields, HolderMade, HolderFields, FreshType DEF Values, Fresh
    <3>2. Is(CreateDict, "DICT", 0, "", <<>>, <<>>)
      BY Fields
    <3>3. DictHolder(<<>>) = CreateDict
      BY <3>1, <3>2, IsEqual
    <3> QED BY <3>1, <3>3, HolderMade DEF Values
  <2> QED BY <1>2, <2>1, <2>3, <2>4, <2>5 DEF OthersOf, HoldsEntries
<1>3. CASE Len(s) # 1
  <2>1. Front(s) # <<>>
    BY <1>1, <1>3
  <2> QED BY <1>1, <1>3, <2>1, DictRepresented DEF OthersOf, Right
<1> QED BY <1>2, <1>3

\* An entry more: its key is new, since the keys of a dictionary are distinct.
LEMMA EntryAdded ==
    ASSUME NEW S, NEW H, Values(S, H), NEW o \in H, NEW K, HoldsEntries(o, K), NEW e, NEW x \in H,
           e.key.txt \in Strings, e.key.txt \notin {y.key.txt : y \in K}, RepresentsCall(x, e.content)
    PROVE  /\ DictAppend(o, e.key.txt, x) \in H
           /\ HoldsEntries(DictAppend(o, e.key.txt, x), K \cup {e})
<1>1. PICK k \in Strings : k = e.key.txt
  OBVIOUS
<1>2. o.type = "DICT" /\ k \notin DOMAIN o.dict
  BY <1>1 DEF HoldsEntries
<1>3. AllHolders(H) /\ o.dict \in Maps(H) /\ Is(o, "DICT", 0, "", <<>>, o.dict)
  <2>1. /\ AllHolders(H) /\ o.dict \in Maps(H) /\ Is(o, o.type, o.num, o.txt, o.arr, o.dict)
        /\ o.num = 0 /\ o.txt = "" /\ o.arr = <<>>
    BY <1>2, HolderFields DEF Values
  <2> QED BY <1>2, <2>1, Zenon
<1>4. PICK f : f = With(o.dict, k, x)
  OBVIOUS
<1>5. DictAppend(o, k, x) = [o EXCEPT !.dict = f]
  <2>1. Assign(Held(o, k), x) = x
    BY <1>2, CopyIsSame DEF Held
  <2> QED BY <1>4, <2>1, Zenon DEF DictAppend
<1>6. Is(DictAppend(o, k, x), "DICT", 0, "", <<>>, f)
  <2>1. Is([o EXCEPT !.dict = f], "DICT", 0, "", <<>>, f)
    BY <1>3, Updated
  <2> QED BY <1>5, <2>1, Zenon
<1>7. f \in Maps(H)
  <2>1. DOMAIN o.dict \subseteq Strings /\ \A y \in DOMAIN o.dict : o.dict[y] \in H
    BY <1>3, MapValues
  <2>2. PICK D \in SUBSET Strings : D = DOMAIN o.dict \cup {k}
    BY <2>1
  <2>3. f \in [D -> H]
    BY <1>4, <2>1, <2>2 DEF With
  <2> QED BY <2>3 DEF Maps
<1>8. DictAppend(o, k, x) = DictHolder(f)
  BY <1>6, Fields, IsEqual
<1>9. DictAppend(o, k, x) \in H
  BY <1>3, <1>7, <1>8, HolderMade
<1>10. PICK h : h = DictAppend(o, k, x)
  OBVIOUS
<1>11. h.type = "DICT" /\ h.dict = f
  <2>1. Is(h, "DICT", 0, "", <<>>, f)
    BY <1>6, <1>10, Zenon
  <2> QED BY <2>1 DEF Is
<1>12. DOMAIN f = {y.key.txt : y \in K \cup {e}}
  BY <1>1, <1>4 DEF With, HoldsEntries
<1>13. \A y \in K \cup {e} : RepresentsCall(f[y.key.txt], y.content)
  BY <1>1, <1>4 DEF With, HoldsEntries
<1> QED BY <1>1, <1>9, <1>10, <1>11, <1>12, <1>13 DEF HoldsEntries

\* What is known of a dictionary with the entries s when its parts have been decoded.
PartsRight(H, s) ==
    /\ Right(H, DecodeCall(Last(s).content), Last(s).content)
    /\ Len(s) # 1 => Right(H, DecodeCall(ArrayOf(Front(s))), ArrayOf(Front(s)))

LEMMA DecodeDict ==
    ASSUME NEW S, NEW s \in Dictionaries(S), s # <<>>
    PROVE  Decode(ArrayOf(s)) = IF IsText(DecodeCall(Last(s).key)) /\ DecodeCall(Last(s).content).type # "NONE"
                                THEN DictAppend(OthersOf(s), DecodeCall(Last(s).key).txt, DecodeCall(Last(s).content))
                                ELSE OthersOf(s)
<1>1. PICK a : a = ArrayOf(s)
  OBVIOUS
<1>2. a.t = "a" /\ a.elements = s /\ a.t \notin NumberCodes /\ a.t \notin TextCodes
  BY <1>1, Codes DEF ArrayOf
<1>3. IsDictionary(a)
  <2>1. s[1].t = "{"
    <3>1. 1 \in DOMAIN s
      BY FrontOfDict
    <3> QED BY <3>1, DictFields
  <2> QED BY <1>2, <2>1 DEF IsDictionary
<1>4. Decode(a) = IF IsText(DecodeCall(Last(s).key)) /\ DecodeCall(Last(s).content).type # "NONE"
                  THEN DictAppend(OthersOf(s), DecodeCall(Last(s).key).txt, DecodeCall(Last(s).content))
                  ELSE OthersOf(s)
  BY <1>2, <1>3 DEF Decode, OthersOf
<1> QED BY <1>1, <1>4, Zenon

LEMMA DictRight ==
    ASSUME NEW S, NEW H, Values(S, H), NEW s \in Dictionaries(S), s # <<>>, PartsRight(H, s)
    PROVE  Right(H, Decode(ArrayOf(s)), ArrayOf(s))
<1>1. PICK a \in S : a = ArrayOf(s)
  BY DictRepresented
<1>2. \A h : Represents(h, a) <=> HoldsEntries(h, KeptEntries(s))
  BY <1>1, DictRepresented
<1>3. ~Represents(Fresh, a)
  BY <1>2, FreshType DEF HoldsEntries
<1>4. PICK f : f = Front(s)
  OBVIOUS
<1>5. PICK e : e = Last(s)
  OBVIOUS
<1>6. /\ ToSet(s) = ToSet(f) \cup {e}
      /\ \A y \in ToSet(f) : y.key.t = e.key.t /\ y.key # e.key
  BY <1>4, <1>5, FrontOfDict
<1>7. e.key \in Basic /\ e.content \in S
  <2>1. e \in ToSet(s)
    BY <1>6
  <2> QED BY <2>1, DictFields
<1>8. PICK o \in H : o = OthersOf(s) /\ HoldsEntries(o, KeptEntries(f))
  BY <1>4, OthersRight DEF PartsRight
<1>9. PICK x \in H : x = DecodeCall(e.content)
  BY <1>5 DEF PartsRight, Right
<1>10. Represents(x, e.content) /\ (x.type = "NONE" <=> Represents(Fresh, e.content))
  BY <1>5, <1>9 DEF PartsRight, Right
<1>11. RepresentsCall(x, e.content) /\ (x.type = "NONE" <=> ~Known(e.content))
  <2>1. Fresh \in H
    BY HolderMade DEF Values
  <2> QED BY <1>7, <1>10, <2>1 DEF Values, Recursion, Known
<1>12. PICK k : k = DecodeCall(e.key)
  OBVIOUS
<1>13. (IsText(k) <=> e.key.t \in TextCodes) /\ (e.key.t \in TextCodes => k.txt = e.key.txt)
  BY <1>7, <1>12, KeyRight
<1>14. Decode(a) = IF IsText(k) /\ x.type # "NONE" THEN DictAppend(o, k.txt, x) ELSE o
  BY <1>1, <1>5, <1>8, <1>9, <1>12, DecodeDict, Zenon
<1>15. CASE e.key.t \in TextCodes /\ Known(e.content)
  <2>1. KeptEntries(s) = KeptEntries(f) \cup {e}
    BY <1>6, <1>15 DEF KeptEntries
  <2>2. Decode(a) = DictAppend(o, e.key.txt, x)
    BY <1>11, <1>13, <1>14, <1>15, Zenon
  <2>3. e.key.txt \in Strings /\ e.key = Text(e.key.t, e.key.txt)
    BY <1>7, <1>15, BasicCases, Codes
  <2>4. ASSUME NEW y \in KeptEntries(f) PROVE y.key.txt # e.key.txt
    <3>1. y \in ToSet(f) /\ y.key.t \in TextCodes
      BY DEF KeptEntries
    <3>2. y.key \in Basic
      BY <1>6, <3>1, DictFields
    <3>3. y.key = Text(y.key.t, y.key.txt)
      BY <3>1, <3>2, BasicCases, Codes
    <3>4. y.key.t = e.key.t /\ y.key # e.key
      BY <1>6, <3>1
    <3> QED BY <2>3, <3>3, <3>4, Zenon
  <2>5. Decode(a) \in H /\ HoldsEntries(Decode(a), KeptEntries(s))
    BY <1>8, <1>11, <2>1, <2>2, <2>3, <2>4, EntryAdded
  <2> QED BY <1>1, <1>2, <1>3, <2>5 DEF Right, HoldsEntries
<1>16. CASE ~(e.key.t \in TextCodes /\ Known(e.content))
  <2>1. KeptEntries(s) = KeptEntries(f)
    BY <1>6, <1>16 DEF KeptEntries
  <2>2. Decode(a) = o
    BY <1>11, <1>13, <1>14, <1>16, Zenon
  <2> QED BY <1>1, <1>2, <1>3, <1>8, <2>1, <2>2 DEF Right, HoldsEntries
<1> QED BY <1>15, <1>16

\* Nothing that a message has in it is extracted wrong, because its parts are not.
LEMMA DecodeRight ==
    ASSUME NEW S, NEW H, Values(S, H), NEW a \in S
    PROVE  Right(H, Decode(a), a)
<1> DEFINE T == {b \in S : ~Right(H, DecodeCall(b), b)}
<1>1. AllArguments(S) /\ AllHolders(H) /\ \A b \in S : DecodeCall(b) = Decode(b)
  BY DEF Values, Recursion
<1>2. CASE T # {}
  <2>1. PICK b \in T : \A c \in T : ~PartOf(c, b)
    BY <1>1, <1>2 DEF AllArguments
  <2>2. b \in S /\ ~Right(H, DecodeCall(b), b)
    BY <2>1
  <2>3. \A c \in S : PartOf(c, b) => Right(H, DecodeCall(c), c)
    BY <2>1
  <2> HIDE DEF T
  <2>4. CASE b.t \in NumberCodes /\ b.num \in ValuesOf(b.t)
    BY <1>1, <2>2, <2>4, NumberRight, DecodeFlat
  <2>5. CASE b.t \in TextCodes /\ b.txt \in Strings
    BY <1>1, <2>2, <2>5, TextRight, DecodeFlat
  <2>6. CASE b.t = "h"
    <3>1. Decode(b) = Fresh /\ Fresh \in H /\ Represents(Fresh, b)
      BY <1>1, <2>6, DecodeFlat, HolderMade, RepresentsFlat, FreshType
    <3> QED BY <1>1, <2>2, <3>1, FreshType DEF Right
  <2>7. CASE b.t = "v" /\ b.content \in S
    <3>1. PICK c \in S : c = b.content /\ Right(H, DecodeCall(c), c)
      BY <2>3, <2>7 DEF PartOf
    <3>2. Fresh \in H
      BY <1>1, HolderMade
    <3>3. Represents(DecodeCall(c), b) /\ (Represents(Fresh, b) <=> Represents(Fresh, c))
      BY <2>7, <3>1, <3>2, RepresentsFlat DEF Right, Values, Recursion
    <3>4. Decode(b) = DecodeCall(c)
      BY <2>7, <3>1, DecodeFlat
    <3> QED BY <1>1, <2>2, <3>1, <3>3, <3>4 DEF Right
  <2>8. CASE b.t = "a" /\ b.elements \in Seq(S) /\ \A j \in DOMAIN b.elements : b.elements[j].t # "{"
    <3>1. PICK s \in Seq(S) : s = b.elements
      BY <2>8
    <3>2. \A j \in DOMAIN s : s[j] \in S
      BY ElementsOfSeq
    <3>3. ElementsRight(H, b, s)
      BY <2>3, <2>8, <3>1, <3>2 DEF ElementsRight, PartOf
    <3> QED BY <1>1, <2>2, <3>3, ArrayRight
  <2>9. CASE b.t = "a" /\ b.elements \in Dictionaries(S) /\ b.elements # <<>> /\ b = ArrayOf(b.elements)
    <3>1. PICK s \in Dictionaries(S) : s = b.elements /\ s # <<>> /\ b = ArrayOf(s)
      BY <2>9
    <3>2. Len(s) \in DOMAIN s /\ Last(s) = s[Len(s)] /\ Front(s) \in Dictionaries(S)
      BY <3>1, FrontOfDict
    <3>3. Last(s).t = "{" /\ Last(s).content \in S
      BY <3>2, DictFields
    <3>4. PartOf(Last(s).content, b) /\ PartOf(ArrayOf(Front(s)), b)
      BY <2>9, <3>1, <3>2, <3>3 DEF PartOf
    <3>5. ArrayOf(Front(s)) \in S
      BY <1>1, <3>2, ArgumentMade
    <3>6. PartsRight(H, s)
      BY <2>3, <3>3, <3>4, <3>5 DEF PartsRight
    <3> QED BY <1>1, <2>2, <3>1, <3>6, DictRight
  <2> QED BY <1>1, <2>2, <2>4, <2>5, <2>6, <2>7, <2>8, <2>9, ArgumentCases
<1> QED BY <1>1, <1>2

----------------------------------------------------------------------------
(* What is sent is what the Holder stands for. *)

\* The argument b is right for the Holder h, and one that the code knows.
Sent(S, h, b) == b \in S /\ Represents(h, b) /\ ~Represents(Fresh, b)

LEMMA EncodeFlat ==
    ASSUME NEW h, NEW c
    PROVE  /\ c \in NumberCodes => Encode(h, <<c>>) = Number(c, GetNumber(c, h.num))
           /\ c \in TextCodes => Encode(h, <<c>>) = Text(c, h.txt)
           /\ Encode(h, <<"v">>) = Variant(EncodeCall(h, Signature(h)))
<1>1. ASSUME c \in NumberCodes PROVE Encode(h, <<c>>) = Number(c, GetNumber(c, h.num))
  <2>1. <<c>>[1] \in NumberCodes /\ <<c>>[1] = c /\ c \notin TextCodes /\ c \notin {"v", "a"}
    BY <1>1, Codes
  <2> QED BY <1>1, <2>1 DEF Encode
<1>2. ASSUME c \in TextCodes PROVE Encode(h, <<c>>) = Text(c, h.txt)
  <2>1. <<c>>[1] \in TextCodes /\ <<c>>[1] = c /\ c \notin NumberCodes /\ c \notin {"v", "a"}
    BY <1>2, Codes
  <2> QED BY <1>2, <2>1 DEF Encode
<1>3. Encode(h, <<"v">>) = Variant(EncodeCall(h, Signature(h)))
  <2>1. <<"v">>[1] = "v" /\ "v" \notin NumberCodes /\ "v" \notin TextCodes
    BY Codes
  <2> QED BY <2>1 DEF Encode
<1> QED BY <1>1, <1>2, <1>3

LEMMA NumberSent ==
    ASSUME NEW S, NEW H, Values(S, H), NEW c \in NumberCodes, NEW n \in ValuesOf(c)
    PROVE  /\ Encode(CreateNumber(c, n), <<c>>) = Number(c, n)
           /\ Sent(S, CreateNumber(c, n), Number(c, n))
<1>1. Encode(CreateNumber(c, n), <<c>>) = Number(c, n)
  <2>1. GetNumber(c, CreateNumber(c, n).num) = n
    BY NumberFields, NumberSurvives
  <2> QED BY <2>1, EncodeFlat, Zenon
<1>2. PICK b \in S : b = Number(c, n)
  BY ArgumentMade DEF Values
<1>3. b.t = c /\ b.num = n
  BY <1>2 DEF Number
<1>4. Right(H, CreateNumber(c, n), b)
  BY <1>3, NumberRight DEF Values
<1>5. CreateNumber(c, n).type # "NONE"
  BY NumberFields, Codes, Kinds
<1> QED BY <1>1, <1>2, <1>4, <1>5 DEF Right, Sent

LEMMA TextSent ==
    ASSUME NEW S, NEW H, Values(S, H), NEW c \in TextCodes, NEW x \in Strings
    PROVE  /\ Encode(CreateText(c, x), <<c>>) = Text(c, x)
           /\ Sent(S, CreateText(c, x), Text(c, x))
<1>1. PICK k, h : k = Kind[c] /\ h = CreateText(c, x)
  OBVIOUS
<1>2. h.type = k /\ h.txt = x
  <2>1. Is(h, k, 0, x, <<>>, <<>>)
    BY <1>1, Fields, Zenon
  <2> QED BY <2>1 DEF Is
<1>3. Encode(h, <<c>>) = Text(c, x)
  BY <1>2, EncodeFlat, Zenon
<1>4. PICK b \in S : b = Text(c, x)
  BY ArgumentMade DEF Values
<1>5. b.t = c /\ b.txt = x
  BY <1>4 DEF Text
<1>6. Right(H, h, b)
  BY <1>1, <1>5, TextRight DEF Values
<1>7. k # "NONE"
  BY <1>1, Codes, Kinds
<1> QED BY <1>1, <1>2, <1>3, <1>4, <1>6, <1>7 DEF Right, Sent

\* What is known of an array when its elements are sent with the signature q.
ElementsSent(S, h, q) ==
    /\ h.type = "ARRAY" /\ q[1] # "{"
    /\ \A j \in DOMAIN h.arr : Sent(S, h.arr[j], EncodeCall(h.arr[j], q))

LEMMA SignatureOfArray ==
    ASSUME NEW q \in Seq(TypeCodes), q # <<>>
    PROVE  /\ <<"a">> \o q \in Seq(TypeCodes) /\ <<"a">> \o q # <<>>
           /\ (<<"a">> \o q)[1] = "a" /\ (<<"a">> \o q)[2] = q[1] /\ Tail(<<"a">> \o q) = q
           /\ Last(<<"a">> \o q) = Last(q)
<1>1. "a" \in TypeCodes /\ 1 \in DOMAIN q /\ Len(q) \in DOMAIN q
  <2>1. 1 \in DOMAIN q /\ Len(q) \in DOMAIN q
    OBVIOUS
  <2> QED BY <2>1 DEF TypeCodes
<1>2. PICK sig : sig = <<"a">> \o q
  OBVIOUS
<1>3. /\ sig \in Seq(TypeCodes) /\ sig # <<>> /\ sig[1] = "a" /\ Tail(sig) = q
      /\ Len(sig) = Len(q) + 1 /\ \A i \in DOMAIN q : sig[i + 1] = q[i]
  BY <1>1, <1>2, ConsPlaces
<1>4. sig[1 + 1] = q[1] /\ sig[Len(q) + 1] = q[Len(q)]
  BY <1>1, <1>3
<1> QED BY <1>2, <1>3, <1>4 DEF Last

LEMMA ArraySent ==
    ASSUME NEW S, NEW H, Values(S, H), NEW h \in H, NEW q \in Seq(TypeCodes), q # <<>>, ElementsSent(S, h, q)
    PROVE  Sent(S, h, Encode(h, <<"a">> \o q))
<1>1. AllHolders(H) /\ Fresh \in H /\ \A g \in H, b \in S : RepresentsCall(g, b) <=> Represents(g, b)
  BY HolderMade DEF Values, Recursion
<1>2. PICK r \in Seq(H) : r = h.arr
  BY <1>1, HolderFields
<1>3. PICK s : s = [j \in DOMAIN r |-> EncodeCall(r[j], q)]
  OBVIOUS
<1>4. Encode(h, <<"a">> \o q) = ArrayOf(s)
  <2>1. PICK sig : sig = <<"a">> \o q
    OBVIOUS
  <2>2. sig[1] = "a" /\ sig[2] # "{" /\ Tail(sig) = q
    BY <2>1, SignatureOfArray DEF ElementsSent
  <2>3. "a" \notin NumberCodes /\ "a" \notin TextCodes
    BY Codes
  <2>4. Encode(h, sig) = ArrayOf([j \in DOMAIN h.arr |-> EncodeCall(h.arr[j], q)])
    BY <2>2, <2>3 DEF Encode
  <2> QED BY <1>2, <1>3, <2>1, <2>4, Zenon
<1>5. \A j \in DOMAIN r : Sent(S, r[j], EncodeCall(r[j], q)) /\ r[j] \in H
  BY <1>2, ElementsOfSeq DEF ElementsSent
<1>6. s \in Seq(S) /\ DOMAIN s = DOMAIN r /\ \A j \in DOMAIN r : Sent(S, r[j], s[j])
  <2>1. DOMAIN s = DOMAIN r /\ \A j \in DOMAIN r : Sent(S, r[j], s[j])
    BY <1>3, <1>5
  <2>2. PICK n \in Nat : n = Len(r) /\ DOMAIN r = 1..n
    BY DomainOfSeq
  <2>3. s \in [1..n -> S]
    BY <1>3, <1>5, <2>2 DEF Sent
  <2>4. s \in Seq(S)
    BY <2>3
  <2> QED BY <2>1, <2>4
<1>7. PICK b \in S : b = ArrayOf(s)
  BY <1>6, ArgumentMade DEF Values
<1>8. b.t = "a" /\ b.elements = s
  BY <1>7 DEF ArrayOf
<1>9. ASSUME NEW j \in DOMAIN s
      PROVE  s[j] \in S /\ RepresentsCall(r[j], s[j]) /\ Known(s[j]) /\ s[j].t # "{"
  <2>1. s[j] \in S /\ Represents(r[j], s[j]) /\ ~Represents(Fresh, s[j]) /\ r[j] \in H
    BY <1>5, <1>6 DEF Sent
  <2>2. s[j].t # "{"
    BY <2>1, ArgumentCodes, Codes DEF Values
  <2> QED BY <1>1, <2>1, <2>2 DEF Known
<1>10. /\ Len(KeptElements(s)) = Len(s) /\ DOMAIN KeptElements(s) = DOMAIN s
       /\ \A j \in DOMAIN s : KeptElements(s)[j] = s[j]
  <2> DEFINE M == {e \in ToSet(s) : Known(e)}
  <2>1. \A j \in DOMAIN s : s[j] \in M
    BY <1>9 DEF ToSet
  <2> HIDE DEF M
  <2>2. /\ Len(Selected(s, M)) = Len(s) /\ \A j \in DOMAIN s : Selected(s, M)[j] = s[j]
        /\ Selected(s, M) \in Seq(S \cap M)
    BY <1>6, <2>1, SelectedAll, SelectedElements
  <2>3. DOMAIN Selected(s, M) = DOMAIN s
    BY <1>6, <2>2, DomainOfSeq
  <2> QED BY <2>2, <2>3 DEF KeptElements, M
<1>11. Len(r) = Len(s)
  <2>1. DOMAIN r = 1..Len(r) /\ Len(r) \in Nat /\ DOMAIN s = 1..Len(s) /\ Len(s) \in Nat
    BY <1>6, DomainOfSeq
  <2> QED BY <1>6, <2>1
<1>12. Represents(h, b)
  <2>1. h.type = "ARRAY" /\ Len(h.arr) = Len(KeptElements(s))
    BY <1>2, <1>10, <1>11 DEF ElementsSent
  <2> QED BY <1>2, <1>8, <1>9, <1>10, <2>1, RepresentsArray
<1>13. ~Represents(Fresh, b)
  BY <1>8, RepresentsArray, FreshType
<1> QED BY <1>4, <1>7, <1>12, <1>13 DEF Sent

\* The signature q of a Holder; what can be sent with it is a basic type, or an array.
SignatureOk(q) == q \in Seq(TypeCodes) /\ (Complete(q) => q # <<>> /\ q[1] \in DOMAIN Kind \cup {"a"})

LEMMA OneCode ==
    ASSUME NEW c \in TypeCodes
    PROVE  <<c>> \in Seq(TypeCodes) /\ <<c>> # <<>> /\ <<c>>[1] = c /\ Last(<<c>>) = c
<1>1. Len(<<c>>) = 1
  OBVIOUS
<1> QED BY <1>1 DEF Last

LEMMA SignatureFlat ==
    ASSUME NEW h, NEW c \in DOMAIN Kind, h.type = Kind[c]
    PROVE  Signature(h) = <<c>> /\ SignatureOk(<<c>>)
<1>1. h.type \notin {"NONE", "ARRAY", "DICT"}
  BY Kinds
<1>2. (CHOOSE d \in DOMAIN Kind : Kind[d] = h.type) = c
  BY Kinds
<1>3. Signature(h) = <<c>>
  BY <1>1, <1>2 DEF Signature
<1>4. <<c>> \in Seq(TypeCodes) /\ <<c>>[1] = c /\ <<c>> # <<>>
  <2>1. c \in TypeCodes
    BY DEF TypeCodes
  <2> QED BY <2>1
<1> QED BY <1>3, <1>4 DEF SignatureOk

LEMMA SignatureArray ==
    ASSUME NEW h, NEW H, NEW r \in Seq(H), h.arr = r, h.type = "ARRAY",
           \A j \in DOMAIN r : SignatureCall(r[j]) \in Seq(TypeCodes)
    PROVE  /\ SignatureOk(Signature(h))
           /\ r = <<>> => Signature(h) = <<"a">> \o <<"v">>
           /\ r # <<>> => /\ 1 \in DOMAIN r /\ Signature(h) = <<"a">> \o SignatureCall(r[1])
                          /\ Complete(Signature(h)) => Complete(SignatureCall(r[1]))
<1>1. Signature(h) = <<"a">> \o (IF r = <<>> THEN <<"v">> ELSE SignatureCall(r[1]))
  BY DEF Signature
<1>2. CASE r = <<>>
  <2>1. <<"v">> \in Seq(TypeCodes) /\ <<"v">> # <<>>
    BY OneCode DEF TypeCodes
  <2>2. <<"a">> \o <<"v">> \in Seq(TypeCodes) /\ <<"a">> \o <<"v">> # <<>> /\ (<<"a">> \o <<"v">>)[1] = "a"
    BY <2>1, SignatureOfArray
  <2> QED BY <1>1, <1>2, <2>2 DEF SignatureOk
<1>3. CASE r # <<>>
  <2>1. 1 \in DOMAIN r
    BY <1>3
  <2>2. PICK q \in Seq(TypeCodes) : q = SignatureCall(r[1])
    BY <2>1
  <2>3. Signature(h) = <<"a">> \o q
    BY <1>1, <1>3, <2>2
  <2>4. CASE q = <<>>
    <3>1. <<"a">> \o q = <<"a">>
      BY <2>4
    <3>2. <<"a">> \in Seq(TypeCodes) /\ Last(<<"a">>) = "a" /\ <<"a">>[1] = "a"
      BY OneCode DEF TypeCodes
    <3>3. ~Complete(<<"a">>)
      BY <3>2, Codes DEF Complete
    <3> QED BY <1>3, <2>1, <2>2, <2>3, <3>1, <3>2, <3>3 DEF SignatureOk
  <2>5. CASE q # <<>>
    <3>1. /\ <<"a">> \o q \in Seq(TypeCodes) /\ <<"a">> \o q # <<>>
          /\ (<<"a">> \o q)[1] = "a" /\ Last(<<"a">> \o q) = Last(q)
      BY <2>5, SignatureOfArray
    <3>2. Complete(<<"a">> \o q) => Complete(q)
      BY <2>5, <3>1 DEF Complete
    <3> QED BY <1>3, <2>1, <2>2, <2>3, <3>1, <3>2 DEF SignatureOk
  <2> QED BY <2>4, <2>5
<1> QED BY <1>2, <1>3

LEMMA SignatureEmpty ==
    ASSUME NEW h, h.type \in {"NONE", "DICT"}
    PROVE  SignatureOk(Signature(h)) /\ ~Complete(Signature(h))
<1>1. CASE h.type = "NONE"
  <2>1. Signature(h) = <<>>
    BY <1>1 DEF Signature
  <2> QED BY <2>1 DEF SignatureOk, Complete
<1>2. CASE h.type = "DICT"
  <2>1. Signature(h) = <<"}">>
    BY <1>2 DEF Signature
  <2>2. <<"}">> \in Seq(TypeCodes) /\ Last(<<"}">>) = "}" /\ "}" \notin DOMAIN Kind \cup {"v"}
    BY Codes, OneCode DEF TypeCodes
  <2> QED BY <2>1, <2>2 DEF SignatureOk, Complete
<1> QED BY <1>1, <1>2

LEMMA SignaturesOk ==
    ASSUME NEW S, NEW H, Values(S, H), NEW h \in H
    PROVE  SignatureOk(Signature(h)) /\ SignatureCall(h) = Signature(h)
<1> DEFINE T == {g \in H : ~SignatureOk(SignatureCall(g))}
<1>1. AllHolders(H) /\ \A g \in H : SignatureCall(g) = Signature(g)
  BY DEF Values, Recursion
<1>2. CASE T # {}
  <2>1. PICK g \in T : \A i \in T : ~InsideOf(i, g)
    BY <1>1, <1>2 DEF AllHolders
  <2>2. g \in H /\ ~SignatureOk(SignatureCall(g))
    BY <2>1
  <2>3. \A i \in H : InsideOf(i, g) => SignatureCall(i) \in Seq(TypeCodes)
    BY <2>1 DEF SignatureOk
  <2> HIDE DEF T
  <2>4. CASE g.type \in {Kind[c] : c \in DOMAIN Kind}
    BY <1>1, <2>2, <2>4, SignatureFlat
  <2>5. CASE g.type \in {"NONE", "DICT"}
    BY <1>1, <2>2, <2>5, SignatureEmpty
  <2>6. CASE g.type = "ARRAY"
    <3>1. PICK r \in Seq(H) : r = g.arr
      BY <1>1, <2>2, HolderFields
    <3>2. \A j \in DOMAIN r : SignatureCall(r[j]) \in Seq(TypeCodes)
      BY <2>3, <3>1, ElementsOfSeq DEF InsideOf
    <3> QED BY <1>1, <2>2, <2>6, <3>1, <3>2, SignatureArray
  <2> QED BY <1>1, <2>2, <2>4, <2>5, <2>6, HolderFields
<1> QED BY <1>1, <1>2

\* What is known of a Holder with a complete signature when it has been sent with it.
HolderSent(S, h) == Complete(SignatureCall(h)) => Sent(S, h, EncodeCall(h, SignatureCall(h)))

\* The elements of an array that the program sends have the signature of the first.
LEMMA UniformArray ==
    ASSUME NEW S, NEW H, Values(S, H), NEW h \in Holders, NEW r \in Seq(H), r = h.arr
    PROVE  \A j \in DOMAIN r : r[j] \in Holders /\ SignatureCall(r[j]) = SignatureCall(r[1])
<1>1. ASSUME NEW j \in DOMAIN r
      PROVE  r[j] \in Holders /\ Signature(r[j]) = Signature(r[1]) /\ 1 \in DOMAIN r
  <2>1. PICK n \in Nat : DOMAIN r = 1..n
    BY DomainOfSeq
  <2>2. 1 \in DOMAIN r
    BY <2>1
  <2> QED BY <2>2, CallerAssumption DEF CallerAssumption
<1>2. \A g \in Holders : SignatureCall(g) = Signature(g)
  BY SignaturesOk DEF Values
<1>3. ASSUME NEW j \in DOMAIN r
      PROVE  r[j] \in Holders /\ SignatureCall(r[j]) = SignatureCall(r[1])
  <2>1. r[j] \in Holders /\ r[1] \in Holders /\ Signature(r[j]) = Signature(r[1])
    BY <1>1
  <2> QED BY <1>2, <2>1
<1> QED BY <1>3

LEMMA ContainerSent ==
    ASSUME NEW S, NEW H, Values(S, H), NEW h \in Holders, NEW r \in Seq(H), r = h.arr, h.type = "ARRAY",
           \A j \in DOMAIN r : HolderSent(S, r[j])
    PROVE  Complete(Signature(h)) => Sent(S, h, Encode(h, Signature(h)))
<1>1. h \in H /\ AllHolders(H)
  BY DEF Values
<1>2. \A j \in DOMAIN r : SignatureOk(SignatureCall(r[j])) /\ SignatureCall(r[j]) \in Seq(TypeCodes)
  BY SignaturesOk, ElementsOfSeq DEF SignatureOk
<1>3. CASE r = <<>>
  <2>1. PICK q \in Seq(TypeCodes) : q = <<"v">> /\ q # <<>> /\ q[1] = "v"
    BY OneCode DEF TypeCodes
  <2>2. Signature(h) = <<"a">> \o q
    BY <1>2, <1>3, <2>1, SignatureArray
  <2>3. ElementsSent(S, h, q)
    <3>1. DOMAIN r = {}
      BY <1>3
    <3> QED BY <2>1, <3>1 DEF ElementsSent
  <2> QED BY <1>1, <2>1, <2>2, <2>3, ArraySent
<1>4. CASE r # <<>>
  <2>1. /\ 1 \in DOMAIN r /\ Signature(h) = <<"a">> \o SignatureCall(r[1])
        /\ Complete(Signature(h)) => Complete(SignatureCall(r[1]))
    <3>1. \A j \in DOMAIN r : SignatureCall(r[j]) \in Seq(TypeCodes)
      BY <1>2
    <3>2. h.arr = r /\ h.type = "ARRAY"
      OBVIOUS
    <3>3. r # <<>> => /\ 1 \in DOMAIN r /\ Signature(h) = <<"a">> \o SignatureCall(r[1])
                      /\ Complete(Signature(h)) => Complete(SignatureCall(r[1]))
      BY <3>1, <3>2, SignatureArray, Zenon
    <3> QED BY <1>4, <3>3, Zenon
  <2>2. PICK q \in Seq(TypeCodes) : q = SignatureCall(r[1]) /\ SignatureOk(q)
    BY <1>2, <2>1
  <2>3. \A j \in DOMAIN r : SignatureCall(r[j]) = q
    BY <2>2, UniformArray
  <2> SUFFICES ASSUME Complete(Signature(h)) PROVE Sent(S, h, Encode(h, Signature(h)))
    OBVIOUS
  <2>4. Complete(q) /\ q # <<>> /\ q[1] \in DOMAIN Kind \cup {"a"}
    BY <2>1, <2>2 DEF SignatureOk
  <2>5. q[1] # "{"
    BY <2>4, Codes
  <2>6. \A j \in DOMAIN r : Sent(S, r[j], EncodeCall(r[j], q))
    BY <2>3, <2>4 DEF HolderSent
  <2>7. ElementsSent(S, h, q)
    BY <2>5, <2>6 DEF ElementsSent
  <2> QED BY <1>1, <2>1, <2>2, <2>4, <2>7, ArraySent
<1> QED BY <1>3, <1>4

\* Whatever Set is called with is sent as what it stands for, when libdbus takes its signature.
LEMMA EncodeRight ==
    ASSUME NEW S, NEW H, Values(S, H), NEW h \in Holders, Complete(Signature(h))
    PROVE  Sent(S, h, Encode(h, <<"v">>).content)
<1> DEFINE T == {g \in Holders : ~HolderSent(S, g)}
<1>1. /\ AllHolders(H) /\ Holders \subseteq H /\ T \subseteq H
      /\ \A g \in H : SignatureCall(g) = Signature(g) /\ SignatureOk(Signature(g))
      /\ \A g \in H : Complete(Signature(g)) => EncodeCall(g, Signature(g)) = Encode(g, Signature(g))
  <2>1. AllHolders(H) /\ Holders \subseteq H
    BY DEF Values
  <2>2. \A g \in H : SignatureCall(g) = Signature(g) /\ SignatureOk(Signature(g))
    BY SignaturesOk
  <2>3. \A g \in H : Complete(Signature(g)) => EncodeCall(g, Signature(g)) = Encode(g, Signature(g))
    BY <2>2 DEF Values, Recursion, SignatureOk
  <2> QED BY <2>1, <2>2, <2>3
<1>2. ASSUME T # {} PROVE FALSE
  <2>1. PICK g \in T : \A i \in T : ~InsideOf(i, g)
    BY <1>1, <1>2 DEF AllHolders
  <2>2. g \in H /\ g \in Holders /\ Complete(Signature(g)) /\ ~Sent(S, g, Encode(g, Signature(g)))
    BY <1>1, <2>1 DEF HolderSent
  <2>3. \A i \in Holders : InsideOf(i, g) => HolderSent(S, i)
    BY <2>1
  <2> HIDE DEF T
  <2>4. g # Fresh /\ g.type # "DICT"
    <3>1. g.type \notin {"NONE", "DICT"}
      BY <2>2, SignatureEmpty
    <3> QED BY <3>1, FreshType
  <2>5. CASE \E c \in NumberCodes : \E n \in ValuesOf(c) : g = CreateNumber(c, n)
    <3>1. PICK c \in NumberCodes : \E n \in ValuesOf(c) : g = CreateNumber(c, n)
      BY <2>5
    <3>2. PICK n \in ValuesOf(c) : g = CreateNumber(c, n)
      BY <3>1
    <3>3. Signature(g) = <<c>>
      BY <3>2, NumberFields, Codes, SignatureFlat
    <3>4. Encode(g, <<c>>) = Number(c, n) /\ Sent(S, g, Number(c, n))
      BY <3>2, NumberSent
    <3> QED BY <2>2, <3>3, <3>4
  <2>6. CASE \E c \in TextCodes, x \in Strings : g = CreateText(c, x)
    <3>1. PICK c \in TextCodes, x \in Strings : g = CreateText(c, x)
      BY <2>6
    <3>2. g.type = Kind[c]
      <4>1. PICK k : k = Kind[c]
        OBVIOUS
      <4>2. Is(g, k, 0, x, <<>>, <<>>)
        BY <3>1, <4>1, Fields, Zenon
      <4> QED BY <4>1, <4>2, IsMeans
    <3>3. Signature(g) = <<c>>
      BY <3>2, Codes, SignatureFlat
    <3>4. Encode(g, <<c>>) = Text(c, x) /\ Sent(S, g, Text(c, x))
      BY <3>1, TextSent
    <3> QED BY <2>2, <3>3, <3>4
  <2>7. CASE g.type = "ARRAY"
    <3>1. PICK r \in Seq(H) : r = g.arr
      BY <1>1, <2>2, HolderFields
    <3>2. \A j \in DOMAIN r : HolderSent(S, r[j])
      BY <2>2, <2>3, <3>1, UniformArray DEF InsideOf
    <3> QED BY <2>2, <2>7, <3>1, <3>2, ContainerSent
  <2> QED BY <1>1, <2>2, <2>4, <2>5, <2>6, <2>7, HolderCases
<1>3. Sent(S, h, EncodeCall(h, Signature(h)))
  <2>1. HolderSent(S, h)
    BY <1>2
  <2> QED BY <1>1, <2>1 DEF HolderSent
<1>4. Encode(h, <<"v">>).content = EncodeCall(h, Signature(h))
  <2>1. PICK b : b = EncodeCall(h, Signature(h))
    OBVIOUS
  <2>2. Encode(h, <<"v">>) = Variant(b)
    BY <2>1, EncodeFlat, Zenon
  <2>3. Variant(b).content = b
    BY DEF Variant
  <2> QED BY <2>1, <2>2, <2>3, Zenon
<1> QED BY <1>3, <1>4

----------------------------------------------------------------------------
(* The messages of the peer. *)

LEMMA SetToSeqPlaces ==
    ASSUME NEW N, IsFiniteSet(N)
    PROVE  /\ SetToSeq(N) \in Seq(N) /\ Len(SetToSeq(N)) = Cardinality(N)
           /\ \A i, j \in DOMAIN SetToSeq(N) : i # j => SetToSeq(N)[i] # SetToSeq(N)[j]
<1>1. PICK n \in Nat : n = Cardinality(N) /\ ExistsBijection(1..n, N)
  BY FS_CardinalityType
<1>2. \E f \in [1..n -> N] : IsInjective(f)
  BY <1>1 DEF ExistsBijection, Bijection, Injection
<1>3. PICK f : f = SetToSeq(N)
  OBVIOUS
<1>4. f \in [1..n -> N] /\ IsInjective(f)
  BY <1>1, <1>2, <1>3 DEF SetToSeq
<1>5. f \in Seq(N) /\ Len(f) = n
  BY <1>4
<1>6. \A i, j \in DOMAIN f : i # j => f[i] # f[j]
  BY <1>4 DEF IsInjective
<1> QED BY <1>1, <1>3, <1>5, <1>6

LEMMA EntryParts ==
    /\ \A k, b : Entry(k, b).t = "{" /\ Entry(k, b).key = k /\ Entry(k, b).content = b
    /\ \A c, x : Text(c, x).t = c /\ Text(c, x).txt = x
BY DEF Entry, Text

LEMMA EntryMade ==
    ASSUME NEW S, AllArguments(S), NEW c \in TextCodes, NEW x \in Strings, NEW b \in S
    PROVE  Entry(Text(c, x), b) \in EntriesOf(S)
<1>1. Text(c, x) \in Basic
  BY ArgumentMade
<1> QED BY <1>1 DEF EntriesOf

\* A dictionary with a value in S under each of the names.
LEMMA DictionaryMade ==
    ASSUME NEW S, AllArguments(S), NEW N \in SUBSET Strings, IsFiniteSet(N), NEW c \in TextCodes,
           NEW f, \A x \in N : f[x] \in S,
           NEW s, s = [j \in DOMAIN SetToSeq(N) |-> Entry(Text(c, SetToSeq(N)[j]), f[SetToSeq(N)[j]])]
    PROVE  s \in Dictionaries(S) /\ ArrayOf(s) \in S
<1>1. PICK k \in Seq(N) : k = SetToSeq(N) /\ \A i, j \in DOMAIN k : i # j => k[i] # k[j]
  BY SetToSeqPlaces
<1>2. PICK n \in Nat : DOMAIN k = 1..n
  BY DomainOfSeq
<1>3. \A j \in DOMAIN k : k[j] \in N /\ k[j] \in Strings /\ f[k[j]] \in S
  BY <1>1, ElementsOfSeq
<1>4. DOMAIN s = 1..n /\ \A j \in 1..n : s[j] = Entry(Text(c, k[j]), f[k[j]])
  BY <1>1, <1>2
<1>5. ASSUME NEW j \in 1..n
      PROVE  s[j] \in EntriesOf(S) /\ s[j].key.t = c /\ s[j].key.txt = k[j]
  <2>1. PICK x \in Strings, b \in S : x = k[j] /\ b = f[k[j]]
    BY <1>2, <1>3
  <2>2. s[j] = Entry(Text(c, x), b)
    BY <1>4, <2>1, Zenon
  <2>3. s[j] \in EntriesOf(S)
    BY <2>2, EntryMade
  <2>4. s[j].key.t = c /\ s[j].key.txt = x
    <3>1. Entry(Text(c, x), b).key = Text(c, x)
      BY EntryParts
    <3>2. s[j].key = Text(c, x)
      BY <2>2, <3>1, Zenon
    <3>3. Text(c, x).t = c /\ Text(c, x).txt = x
      BY EntryParts
    <3> QED BY <3>2, <3>3, Zenon
  <2> QED BY <2>1, <2>3, <2>4, Zenon
<1>6. s \in Seq(EntriesOf(S))
  <2>1. s \in [1..n -> EntriesOf(S)]
    <3>1. s = [j \in 1..n |-> s[j]]
      BY <1>1, <1>2
    <3> QED BY <1>5, <3>1
  <2> QED BY <2>1
<1>7. ProperKeys(s)
  BY <1>1, <1>2, <1>4, <1>5 DEF ProperKeys
<1> QED BY <1>6, <1>7, ArgumentMade DEF Dictionaries

LEMMA OneEntry ==
    ASSUME NEW S, AllArguments(S), NEW c \in TextCodes, NEW x \in Strings, NEW b \in S
    PROVE  /\ <<Entry(Text(c, x), b)>> \in Dictionaries(S)
           /\ ArrayOf(<<Entry(Text(c, x), b)>>) \in S
<1>1. PICK e \in EntriesOf(S) : e = Entry(Text(c, x), b)
  BY EntryMade
<1>2. <<e>> \in Seq(EntriesOf(S)) /\ DOMAIN <<e>> = {1}
  OBVIOUS
<1>3. ProperKeys(<<e>>)
  BY <1>2 DEF ProperKeys
<1>4. <<e>> \in Dictionaries(S)
  BY <1>2, <1>3 DEF Dictionaries
<1> QED BY <1>1, <1>4, ArgumentMade

\* What the peer keeps.
PropsOk(S) == DOMAIN props \subseteq Names /\ \A n \in DOMAIN props : props[n] \in S

LEMMA NamesAreFinite ==
    ASSUME NEW N \in SUBSET Names
    PROVE  N \in SUBSET Strings /\ IsFiniteSet(N)
BY NamesAssumption, FS_Subset DEF NamesAssumption, Strings

LEMMA ContentsMade ==
    ASSUME NEW S, AllArguments(S), PropsOk(S)
    PROVE  /\ \A N \in SUBSET DOMAIN props : Dictionary(N) \in S
           /\ Interfaces \in S
           /\ \A N \in SUBSET Names : Texts(N) \in S
           /\ Texts({"interface"}) \in S
<1>1. ASSUME NEW N \in SUBSET DOMAIN props PROVE Dictionary(N) \in S
  <2>1. N \in SUBSET Names /\ N \in SUBSET Strings /\ IsFiniteSet(N)
    <3>1. N \in SUBSET Names
      BY DEF PropsOk
    <3> QED BY <3>1, NamesAreFinite
  <2>2. PICK f : f = [x \in N |-> Variant(props[x])]
    OBVIOUS
  <2>3. \A x \in N : f[x] \in S /\ f[x] = Variant(props[x])
    BY <2>2, ArgumentMade DEF PropsOk
  <2>4. PICK s : s = [j \in DOMAIN SetToSeq(N) |-> Entry(Text("s", SetToSeq(N)[j]), f[SetToSeq(N)[j]])]
    OBVIOUS
  <2>5. ArrayOf(s) \in S
    BY <2>1, <2>3, <2>4, DictionaryMade DEF TextCodes
  <2>6. s = [j \in DOMAIN SetToSeq(N) |-> Entry(Text("s", SetToSeq(N)[j]), Variant(props[SetToSeq(N)[j]]))]
    <3>1. \A j \in DOMAIN SetToSeq(N) : f[SetToSeq(N)[j]] = Variant(props[SetToSeq(N)[j]])
      BY <2>1, <2>3, SetToSeqPlaces, ElementsOfSeq
    <3> QED BY <2>4, <3>1
  <2> QED BY <2>5, <2>6 DEF Dictionary
<1>2. Interfaces \in S
  BY <1>1, OneEntry DEF Interfaces, TextCodes, Strings
<1>3. ASSUME NEW N \in SUBSET Strings, IsFiniteSet(N) PROVE Texts(N) \in S
  <2>1. PICK k \in Seq(N) : k = SetToSeq(N)
    BY <1>3, SetToSeqPlaces
  <2>2. PICK n \in Nat : DOMAIN k = 1..n
    BY DomainOfSeq
  <2>3. PICK s : s = [j \in DOMAIN k |-> Text("s", k[j])]
    OBVIOUS
  <2>4. \A j \in DOMAIN k : Text("s", k[j]) \in S
    BY ElementsOfSeq, ArgumentMade DEF TextCodes
  <2>5. s \in [1..n -> S]
    BY <2>2, <2>3, <2>4
  <2>6. s \in Seq(S)
    BY <2>5
  <2>7. ArrayOf(s) \in S
    BY <2>6, ArgumentMade
  <2> QED BY <2>1, <2>3, <2>7, Zenon DEF Texts
<1>4. Texts({"interface"}) \in S
  BY <1>3, FS_Singleton DEF Strings
<1> QED BY <1>1, <1>2, <1>3, <1>4, NamesAreFinite

----------------------------------------------------------------------------
(* WriteValue: its two arguments. *)

BytesHolder(data) == ArrayAppend(CreateArray, [j \in 1..Length(Len(data)) |-> CreateNumber("y", data[j])])
OptionsHolder(kind) == DictAppend(CreateDict, "type", CreateText("s", kind))

LEMMA BytesSent ==
    ASSUME NEW S, NEW H, Values(S, H), NEW data \in Seq(ValuesOf("y"))
    PROVE  LET b == Encode(BytesHolder(data), <<"a", "y">>)
           IN  /\ DOMAIN b.elements = 1..Length(Len(data)) /\ Length(Len(data)) \in 0..Len(data)
               /\ \A j \in DOMAIN b.elements : b.elements[j].num = data[j]
               /\ Len(data) < Lengths => Length(Len(data)) = Len(data)
<1>1. PICK l \in Nat, n \in Nat : l = Len(data) /\ n = Length(Len(data)) /\ DOMAIN data = 1..l
  <2>1. Len(data) \in Nat /\ Lengths \in Nat \ {0}
    BY SizeAssumption, DomainOfSeq DEF SizeAssumption
  <2>2. Length(Len(data)) \in Nat
    BY <2>1, Division DEF Length
  <2> QED BY <2>1, <2>2, DomainOfSeq
<1>2. n \in 0..l /\ (l < Lengths => n = l)
  <2>1. PICK m \in Nat \ {0} : m = Lengths
    BY SizeAssumption DEF SizeAssumption
  <2>2. n = l % m /\ n \in 0..(m - 1)
    BY <1>1, <2>1, Division DEF Length
  <2>3. l < m => l % m = l
    <3> SUFFICES ASSUME l < m PROVE l % m = l
      OBVIOUS
    <3>1. l \in 0..(m - 1)
      OBVIOUS
    <3> QED BY <3>1, Rest, 0 * m + l = l
  <2>4. l < m \/ n <= l
    BY <2>2
  <2> QED BY <2>1, <2>2, <2>3, <2>4
<1>3. \A j \in 1..n : data[j] \in ValuesOf("y")
  BY <1>1, <1>2, ElementsOfSeq
<1>4. PICK e : e = [j \in 1..n |-> CreateNumber("y", data[j])]
  OBVIOUS
<1>5. \A j \in 1..n : e[j] \in H /\ e[j] = CreateNumber("y", data[j]) /\ Assign(Fresh, e[j]) = e[j]
  <2>1. AllHolders(H) /\ "y" \in NumberCodes
    BY Codes DEF Values
  <2>2. \A j \in 1..n : e[j] \in H /\ e[j] = CreateNumber("y", data[j])
    BY <1>3, <1>4, <2>1, HolderMade
  <2> QED BY <2>2, CopyIsSame
<1>6. PICK h : h = BytesHolder(data)
  OBVIOUS
<1>7. h.arr = <<>> \o [j \in DOMAIN e |-> Assign(Fresh, e[j])]
  <2>1. PICK x : x = [j \in DOMAIN e |-> Assign(Fresh, e[j])]
    OBVIOUS
  <2>2. h = [CreateArray EXCEPT !.arr = @ \o x]
    BY <1>1, <1>4, <1>6, <2>1, Zenon DEF BytesHolder, ArrayAppend
  <2>3. CreateArray.arr = <<>>
    BY DEF CreateArray, Fresh
  <2>4. h = [CreateArray EXCEPT !.arr = <<>> \o x]
    BY <2>2, <2>3, Zenon
  <2>5. Is(h, "ARRAY", 0, "", <<>> \o x, <<>>)
    BY <2>4, Fields, Updated
  <2> QED BY <2>1, <2>5, IsMeans
<1>8. h.arr = e
  <2>1. e = [j \in DOMAIN e |-> Assign(Fresh, e[j])]
    BY <1>4, <1>5
  <2>2. e \in Seq(H)
    BY <1>4, <1>5
  <2>3. <<>> \o e = e
    BY <2>2
  <2> QED BY <1>7, <2>1, <2>3
<1>9. Encode(h, <<"a", "y">>) = ArrayOf([j \in DOMAIN h.arr |-> EncodeCall(h.arr[j], <<"y">>)])
  <2>1. PICK sig : sig = <<"a", "y">>
    OBVIOUS
  <2>2. sig[1] = "a" /\ sig[2] # "{" /\ Tail(sig) = <<"y">>
    BY <2>1
  <2>3. "a" \notin NumberCodes /\ "a" \notin TextCodes
    BY Codes
  <2>4. Encode(h, sig) = ArrayOf([j \in DOMAIN h.arr |-> EncodeCall(h.arr[j], <<"y">>)])
    BY <2>2, <2>3 DEF Encode
  <2> QED BY <2>1, <2>4
<1>10. \A j \in 1..n : EncodeCall(e[j], <<"y">>) = Number("y", data[j])
  <2>1. "y" \in NumberCodes /\ <<"y">> \in Seq(TypeCodes) \ {<<>>}
    BY Codes, OneCode DEF TypeCodes
  <2>2. \A j \in 1..n : EncodeCall(e[j], <<"y">>) = Encode(e[j], <<"y">>)
    BY <1>5, <2>1 DEF Values, Recursion
  <2>3. \A j \in 1..n : Encode(CreateNumber("y", data[j]), <<"y">>) = Number("y", data[j])
    BY <1>3, <2>1, NumberSent
  <2> QED BY <1>5, <2>2, <2>3
<1>11. PICK s : s = [j \in DOMAIN h.arr |-> EncodeCall(h.arr[j], <<"y">>)]
  OBVIOUS
<1>12. DOMAIN s = 1..n /\ \A j \in 1..n : s[j] = Number("y", data[j])
  BY <1>4, <1>8, <1>10, <1>11
<1>13. PICK b : b = Encode(h, <<"a", "y">>)
  OBVIOUS
<1>14. b.elements = s
  BY <1>9, <1>11, <1>13 DEF ArrayOf
<1>15. \A j \in 1..n : s[j].num = data[j]
  BY <1>12 DEF Number
<1> QED BY <1>1, <1>2, <1>6, <1>12, <1>13, <1>14, <1>15, Zenon

LEMMA FiveCodes ==
    ASSUME NEW a, NEW b, NEW c, NEW d, NEW e, NEW sig, sig = <<a, b, c, d, e>>
    PROVE  sig[1] = a /\ sig[2] = b /\ sig[3] = c /\ SubSeq(sig, 4, Len(sig) - 1) = <<d>>
<1>1. sig[1] = a /\ sig[2] = b /\ sig[3] = c /\ sig[4] = d /\ Len(sig) = 5
  OBVIOUS
<1>2. PICK T : sig \in Seq(T)
  <2>1. PICK T : a \in T /\ b \in T /\ c \in T /\ d \in T /\ e \in T
    <3>1. a \in {a, b, c, d, e} /\ b \in {a, b, c, d, e} /\ c \in {a, b, c, d, e}
      OBVIOUS
    <3>2. d \in {a, b, c, d, e} /\ e \in {a, b, c, d, e}
      OBVIOUS
    <3> QED BY <3>1, <3>2
  <2> QED BY <2>1
<1>3. PICK r : r = SubSeq(sig, 4, 4)
  OBVIOUS
<1>4. r \in Seq(T) /\ Len(r) = 1 /\ r[1] = d
  BY <1>1, <1>2, <1>3
<1>5. r = <<d>>
  BY <1>4
<1>6. Len(sig) - 1 = 4
  BY <1>1
<1> QED BY <1>1, <1>3, <1>5, <1>6, Zenon

\* One option: its name, and a variant with a text in it.
LEMMA OptionsSent ==
    ASSUME NEW S, NEW H, Values(S, H), NEW kind \in Strings
    PROVE  Represents(OptionsHolder(kind), Encode(OptionsHolder(kind), <<"a", "{", "s", "v", "}">>))
<1> DEFINE text == CreateText("s", kind)
<1>1. AllHolders(H) /\ AllArguments(S) /\ "s" \in TextCodes /\ "type" \in Strings /\ Fresh \in H
  BY HolderMade DEF Values, TextCodes, Strings
<1>2. PICK g \in H : g = CreateText("s", kind)
  BY <1>1, HolderMade
<1>3. PICK h : h = OptionsHolder(kind)
  OBVIOUS
<1>4. h.type = "DICT" /\ DOMAIN h.dict = {"type"} /\ h.dict["type"] = g
  <2>1. Is(CreateDict, "DICT", 0, "", <<>>, <<>>)
    BY Fields
  <2>2. CreateDict.dict = <<>> /\ Held(CreateDict, "type") = Fresh
    <3>1. CreateDict.dict = <<>>
      BY <2>1, IsMeans
    <3>2. "type" \notin DOMAIN <<>>
      OBVIOUS
    <3> QED BY <3>1, <3>2, Zenon DEF Held
  <2>3. Assign(Fresh, g) = g
    BY CopyIsSame
  <2>4. h = [CreateDict EXCEPT !.dict = With(@, "type", g)]
    BY <1>2, <1>3, <2>2, <2>3, Zenon DEF OptionsHolder, DictAppend
  <2>5. PICK d : d = With(<<>>, "type", g)
    OBVIOUS
  <2>6. h = [CreateDict EXCEPT !.dict = d]
    BY <2>2, <2>4, <2>5, Zenon
  <2>7. h.type = "DICT" /\ h.dict = d
    <3>1. Is(h, "DICT", 0, "", <<>>, d)
      BY <2>1, <2>6, Updated
    <3> QED BY <3>1, IsMeans
  <2>8. DOMAIN d = {"type"} /\ d["type"] = g
    BY <2>5 DEF With
  <2> QED BY <2>7, <2>8
<1>5. SetToSeq({"type"}) = <<"type">>
  <2>1. IsFiniteSet({"type"}) /\ Cardinality({"type"}) = 1
    BY FS_Singleton
  <2>2. PICK k \in Seq({"type"}) : k = SetToSeq({"type"}) /\ Len(k) = 1
    BY <2>1, SetToSeqPlaces
  <2>3. k = <<"type">>
    <3>1. k[1] = "type"
      BY <2>2
    <3> QED BY <2>2, <3>1
  <2> QED BY <2>2, <2>3
<1>6. EncodeCall(g, <<"v">>) = Variant(Text("s", kind))
  <2>1. Signature(g) = <<"s">>
    <3>1. PICK k : k = Kind["s"]
      OBVIOUS
    <3>2. Is(g, k, 0, kind, <<>>, <<>>)
      BY <1>2, <3>1, Fields, Zenon
    <3>3. g.type = Kind["s"] /\ "s" \in DOMAIN Kind
      BY <1>1, <3>1, <3>2, IsMeans, Codes
    <3> QED BY <3>3, SignatureFlat
  <2>2. <<"v">> \in Seq(TypeCodes) \ {<<>>} /\ <<"s">> \in Seq(TypeCodes) \ {<<>>}
    BY OneCode, Codes DEF TypeCodes
  <2>3. EncodeCall(g, <<"v">>) = Encode(g, <<"v">>) /\ EncodeCall(g, <<"s">>) = Encode(g, <<"s">>)
    BY <2>2 DEF Values, Recursion
  <2>4. Encode(g, <<"s">>) = Text("s", kind)
    BY <1>1, <1>2, TextSent
  <2>5. Encode(g, <<"v">>) = Variant(EncodeCall(g, Signature(g)))
    BY EncodeFlat
  <2> QED BY <2>1, <2>3, <2>4, <2>5, Zenon
<1>7. PICK v \in S : v = Variant(Text("s", kind)) /\ ~Represents(Fresh, v) /\ RepresentsCall(g, v)
  <2>1. PICK b \in S : b = Text("s", kind)
    BY <1>1, ArgumentMade
  <2>2. Represents(g, b) /\ ~Represents(Fresh, b)
    BY <1>1, <1>2, <2>1, TextSent DEF Sent
  <2>3. PICK v \in S : v = Variant(b)
    BY <1>1, ArgumentMade
  <2>4. v.t = "v" /\ v.content = b
    BY <2>3 DEF Variant
  <2>5. \A x \in H, y \in S : RepresentsCall(x, y) <=> Represents(x, y)
    BY DEF Values, Recursion
  <2>6. Represents(g, v) /\ ~Represents(Fresh, v)
    BY <1>1, <2>2, <2>4, <2>5, RepresentsFlat
  <2> QED BY <2>1, <2>3, <2>5, <2>6
<1>8. PICK e : e = Entry(Text("s", "type"), v)
  OBVIOUS
<1>9. Encode(h, <<"a", "{", "s", "v", "}">>) = ArrayOf(<<e>>)
  <2>1. PICK sig : sig = <<"a", "{", "s", "v", "}">>
    OBVIOUS
  <2>2. sig[1] = "a" /\ sig[2] = "{" /\ sig[3] = "s" /\ SubSeq(sig, 4, Len(sig) - 1) = <<"v">>
    <3>1. PICK c1, c2, c3, c4, c5 : c1 = "a" /\ c2 = "{" /\ c3 = "s" /\ c4 = "v" /\ c5 = "}"
      OBVIOUS
    <3>2. sig = <<c1, c2, c3, c4, c5>>
      BY <2>1, <3>1, Zenon
    <3>3. sig[1] = c1 /\ sig[2] = c2 /\ sig[3] = c3 /\ SubSeq(sig, 4, Len(sig) - 1) = <<c4>>
      BY <3>2, FiveCodes
    <3> QED BY <3>1, <3>3, Zenon
  <2>3. "a" \notin NumberCodes /\ "a" \notin TextCodes
    BY Codes
  <2>4. PICK k : k = <<"type">>
    OBVIOUS
  <2>5. SetToSeq(DOMAIN h.dict) = k /\ DOMAIN k = {1} /\ k[1] = "type"
    BY <1>4, <1>5, <2>4
  <2>6. Encode(h, sig) = ArrayOf([j \in DOMAIN k |-> Entry(Text("s", k[j]), EncodeCall(h.dict[k[j]], <<"v">>))])
    BY <2>2, <2>3, <2>5, Zenon DEF Encode
  <2>7. Entry(Text("s", k[1]), EncodeCall(h.dict[k[1]], <<"v">>)) = e
    BY <1>4, <1>6, <1>7, <1>8, <2>5, Zenon
  <2>8. [j \in DOMAIN k |-> Entry(Text("s", k[j]), EncodeCall(h.dict[k[j]], <<"v">>))] = <<e>>
    BY <2>5, <2>7
  <2> QED BY <2>1, <2>6, <2>8
<1>10. <<e>> \in Dictionaries(S) /\ <<e>> # <<>>
  BY <1>1, <1>7, <1>8, OneEntry
<1>11. e.key.txt = "type" /\ e.key.t = "s" /\ e.content = v
  BY <1>8 DEF Entry, Text
<1>12. KeptEntries(<<e>>) = {e}
  <2>1. ToSet(<<e>>) = {e}
    BY DEF ToSet
  <2>2. Known(v)
    BY <1>1, <1>7 DEF Known, Values, Recursion
  <2> QED BY <1>1, <1>11, <2>1, <2>2 DEF KeptEntries
<1>13. HoldsEntries(h, KeptEntries(<<e>>))
  BY <1>4, <1>7, <1>11, <1>12 DEF HoldsEntries
<1> QED BY <1>3, <1>9, <1>10, <1>13, DictRepresented

----------------------------------------------------------------------------
(* The invariant. *)

\* What Set gave to a property is what the peer has for it.
AssignedOk(H) ==
    /\ DOMAIN assigned \subseteq DOMAIN props
    /\ \A n \in DOMAIN assigned : assigned[n] \in H /\ Represents(assigned[n], props[n])

\* What was extracted from the message, and where the iterator is.
ReadOk(S, H) ==
    /\ args \in Seq(S) /\ taken \in Seq(H) /\ Len(taken) <= Len(args)
    /\ \A j \in DOMAIN taken : Represents(taken[j], args[j])
IterOk ==
    /\ iter \in 0..Len(args) /\ phase \in {"idle", "extract", "next", "crashed"}
    /\ phase = "extract" => Len(taken) < Len(args) /\ Place = Len(taken) + 1
    /\ phase = "next" => 0 < Len(taken) /\ Len(taken) < Len(args) /\ iter = Len(taken)

PeerOk(S, H) == PropsOk(S) /\ AssignedOk(H)
ChunkOk == value \in Seq(ValuesOf("y")) /\ WriteArrives
MessageOk(S, H) == ReadOk(S, H) /\ IterOk

ValueInv(S, H) == PeerOk(S, H) /\ ChunkOk /\ MessageOk(S, H)

LEMMA PeerFrame ==
    ASSUME NEW S, NEW H, PeerOk(S, H), UNCHANGED <<props, assigned>>
    PROVE  PeerOk(S, H)'
BY DEF PeerOk, PropsOk, AssignedOk

LEMMA ChunkFrame ==
    ASSUME ChunkOk, UNCHANGED writeVars
    PROVE  ChunkOk'
BY DEF ChunkOk, writeVars, WriteArrives

LEMMA MessageFrame ==
    ASSUME NEW S, NEW H, MessageOk(S, H), UNCHANGED <<readVars, phase>>
    PROVE  MessageOk(S, H)'
BY DEF MessageOk, ReadOk, IterOk, Place, readVars

LEMMA DiscardOk ==
    ASSUME NEW S, NEW H, Discard, phase' \in {"idle", "crashed"}
    PROVE  MessageOk(S, H)'
<1>1. args' = <<>> /\ taken' = <<>> /\ iter' = 0
  BY DEF Discard
<1>2. ReadOk(S, H)'
  BY <1>1 DEF ReadOk
<1>3. IterOk'
  BY <1>1 DEF IterOk
<1> QED BY <1>2, <1>3 DEF MessageOk

LEMMA InitOk ==
    ASSUME NEW S, NEW H, Init
    PROVE  ValueInv(S, H)
<1>1. PeerOk(S, H)
  BY DEF Init, PeerOk, PropsOk, AssignedOk
<1>2. ChunkOk
  BY DEF Init, ChunkOk, WriteArrives
<1>3. MessageOk(S, H)
  BY DEF Init, MessageOk, ReadOk, IterOk
<1> QED BY <1>1, <1>2, <1>3 DEF ValueInv

LEMMA ExtractOk ==
    ASSUME NEW S, NEW H, Values(S, H), ValueInv(S, H), Extract
    PROVE  MessageOk(S, H)'
<1>1. ReadOk(S, H) /\ IterOk
  BY DEF ValueInv, MessageOk
<1>2. PICK n \in Nat, m \in Nat : n = Len(taken) /\ DOMAIN taken = 1..n /\ m = Len(args) /\ DOMAIN args = 1..m
  BY <1>1, DomainOfSeq DEF ReadOk
<1>3. n < m /\ iter' = n + 1 /\ n + 1 \in DOMAIN args
  BY <1>1, <1>2 DEF Extract, IterOk
<1>4. PICK a \in S, h \in H : a = args[n + 1] /\ h = Decode(a) /\ Represents(h, a)
  <2>1. PICK a \in S : a = args[n + 1]
    BY <1>1, <1>3, ElementsOfSeq DEF ReadOk
  <2> QED BY <2>1, DecodeRight DEF Right
<1>5. taken' = Append(taken, h)
  BY <1>3, <1>4, Zenon DEF Extract
<1>6. args' = args /\ phase' = (IF Len(taken') = Len(args) THEN "idle" ELSE "next")
  BY DEF Extract
<1>7. /\ taken' \in Seq(H) /\ Len(taken') = n + 1 /\ DOMAIN taken' = DOMAIN taken \cup {n + 1}
      /\ taken'[n + 1] = h /\ \A j \in DOMAIN taken : taken'[j] = taken[j]
  <2>1. taken \in Seq(H)
    BY <1>1 DEF ReadOk
  <2>2. Len(Append(taken, h)) = n + 1
    BY <1>2, <2>1
  <2> QED BY <1>2, <1>5, <2>1, <2>2, AppendPlaces
<1>8. ReadOk(S, H)'
  <2>1. args' \in Seq(S) /\ taken' \in Seq(H) /\ Len(taken') <= Len(args')
    BY <1>1, <1>2, <1>3, <1>6, <1>7 DEF ReadOk
  <2>2. \A j \in DOMAIN taken : Represents(taken[j], args[j])
    BY <1>1 DEF ReadOk
  <2>3. \A j \in DOMAIN taken' : Represents(taken'[j], args'[j])
    BY <1>4, <1>6, <1>7, <2>2
  <2> QED BY <2>1, <2>3 DEF ReadOk
<1>9. IterOk'
  BY <1>2, <1>3, <1>6, <1>7 DEF IterOk
<1> QED BY <1>8, <1>9 DEF MessageOk

LEMMA ExtractNextOk ==
    ASSUME NEW S, NEW H, ValueInv(S, H), ExtractNext
    PROVE  MessageOk(S, H)'
<1>1. ReadOk(S, H) /\ IterOk /\ Len(taken) \in Nat /\ Len(args) \in Nat
  BY DomainOfSeq DEF ValueInv, MessageOk, ReadOk
<1>2. args' = args /\ taken' = taken
  BY DEF ExtractNext
<1>3. IterOk'
  BY <1>1, <1>2 DEF ExtractNext, IterOk, Place
<1> QED BY <1>1, <1>2, <1>3 DEF MessageOk, ReadOk

LEMMA ReceiveOk ==
    ASSUME NEW S, NEW H, NEW arguments \in Seq(S), arguments # <<>>, Receive(arguments)
    PROVE  MessageOk(S, H)' /\ UNCHANGED <<props, assigned, writeVars>>
<1>1. args' = arguments /\ taken' = <<>> /\ iter' = 0 /\ phase' = "extract"
  BY DEF Receive
<1>2. Len(arguments) \in Nat /\ Len(arguments) # 0
  OBVIOUS
<1>3. IterOk'
  BY <1>1, <1>2 DEF IterOk, Place
<1>4. ReadOk(S, H)'
  BY <1>1, <1>2 DEF ReadOk
<1> QED BY <1>3, <1>4 DEF MessageOk, Receive

LEMMA ShortSequences ==
    ASSUME NEW S, NEW a \in S, NEW b \in S, NEW c \in S
    PROVE  /\ <<a>> \in Seq(S) /\ <<a>> # <<>>
           /\ <<a, b>> \in Seq(S) /\ <<a, b>> # <<>>
           /\ <<a, b, c>> \in Seq(S) /\ <<a, b, c>> # <<>>
OBVIOUS

\* A message of the peer arrives.
Incoming ==
    \/ \E n \in Names : Get(n)
    \/ GetAll \/ GetManagedObjects \/ InterfacesAdded \/ InterfacesRemoved \/ ReadValue
    \/ \E changed \in SUBSET DOMAIN props : PropertiesChanged(changed, Names \ changed)

LEMMA IncomingOk ==
    ASSUME NEW S, NEW H, Values(S, H), ValueInv(S, H), Incoming
    PROVE  MessageOk(S, H)' /\ UNCHANGED <<props, assigned, writeVars>>
<1> DEFINE Result == MessageOk(S, H)' /\ UNCHANGED <<props, assigned, writeVars>>
<1>1. AllArguments(S) /\ PropsOk(S)
  BY DEF Values, ValueInv, PeerOk
<1>2. /\ \A x \in S : Receive(<<x>>) => Result
      /\ \A x, y \in S : Receive(<<x, y>>) => Result
      /\ \A x, y, z \in S : Receive(<<x, y, z>>) => Result
  <2>1. \A q \in Seq(S) : q # <<>> /\ Receive(q) => Result
    BY ReceiveOk
  <2> HIDE DEF Result
  <2>2. ASSUME NEW x \in S, NEW y \in S, NEW z \in S
        PROVE  /\ Receive(<<x>>) => Result
               /\ Receive(<<x, y>>) => Result
               /\ Receive(<<x, y, z>>) => Result
    BY <2>1, ShortSequences
  <2> QED BY <2>2
<1>3. /\ Text("s", "interface") \in S /\ Text("o", "path") \in S
      /\ Dictionary(DOMAIN props) \in S /\ Interfaces \in S /\ Texts({"interface"}) \in S
      /\ ArrayOf(<<Entry(Text("o", "path"), Interfaces)>>) \in S
  <2>1. "s" \in TextCodes /\ "o" \in TextCodes /\ "interface" \in Strings /\ "path" \in Strings
    BY DEF TextCodes, Strings
  <2>2. Text("s", "interface") \in S /\ Text("o", "path") \in S
    BY <1>1, <2>1, ArgumentMade
  <2>3. Dictionary(DOMAIN props) \in S /\ Interfaces \in S /\ Texts({"interface"}) \in S
    BY <1>1, ContentsMade
  <2>4. ArrayOf(<<Entry(Text("o", "path"), Interfaces)>>) \in S
    BY <1>1, <2>1, <2>3, OneEntry
  <2> QED BY <2>2, <2>3, <2>4
<1> HIDE DEF Result
<1>4. ASSUME NEW n \in Names, Get(n) PROVE Result
  <2>1. Variant(props[n]) \in S /\ Receive(<<Variant(props[n])>>)
    BY <1>1, <1>4, ArgumentMade DEF Get, PropsOk
  <2> QED BY <1>2, <2>1
<1>5. ASSUME GetAll PROVE Result
  BY <1>2, <1>3, <1>5 DEF GetAll
<1>6. ASSUME GetManagedObjects PROVE Result
  BY <1>2, <1>3, <1>6 DEF GetManagedObjects
<1>7. ASSUME InterfacesAdded PROVE Result
  BY <1>2, <1>3, <1>7 DEF InterfacesAdded
<1>8. ASSUME InterfacesRemoved PROVE Result
  BY <1>2, <1>3, <1>8 DEF InterfacesRemoved
<1>9. ASSUME ReadValue PROVE Result
  <2>1. PICK s : s = [j \in DOMAIN value |-> Number("y", value[j])]
    OBVIOUS
  <2>2. value \in Seq(ValuesOf("y")) /\ "y" \in NumberCodes
    BY Codes DEF ValueInv, ChunkOk
  <2>3. PICK l \in Nat : DOMAIN value = 1..l
    BY <2>2, DomainOfSeq
  <2>4. \A j \in 1..l : Number("y", value[j]) \in S
    BY <1>1, <2>2, <2>3, ElementsOfSeq, ArgumentMade
  <2>5. s \in [1..l -> S]
    BY <2>1, <2>3, <2>4
  <2>6. s \in Seq(S)
    BY <2>5
  <2>7. PICK b \in S : b = ArrayOf(s)
    BY <1>1, <2>6, ArgumentMade
  <2>8. Receive(<<b>>)
    BY <1>9, <2>1, <2>7, Zenon DEF ReadValue
  <2> QED BY <1>2, <2>7, <2>8
<1>10. ASSUME NEW changed \in SUBSET DOMAIN props, PropertiesChanged(changed, Names \ changed) PROVE Result
  <2>1. Dictionary(changed) \in S /\ Texts(Names \ changed) \in S
    BY <1>1, ContentsMade
  <2>2. Receive(<<Text("s", "interface"), Dictionary(changed), Texts(Names \ changed)>>)
    BY <1>10 DEF PropertiesChanged
  <2> QED BY <1>2, <1>3, <2>1, <2>2
<1>11. Result
  BY <1>4, <1>5, <1>6, <1>7, <1>8, <1>9, <1>10, Zenon DEF Incoming
<1> QED BY <1>11 DEF Result

LEMMA PeerSetsOk ==
    ASSUME NEW S, NEW H, Values(S, H), ValueInv(S, H), NEW n \in Names, NEW a \in Arguments, PeerSets(n, a)
    PROVE  PeerOk(S, H)'
<1>1. PropsOk(S) /\ AssignedOk(H) /\ a \in S
  BY DEF ValueInv, PeerOk, Values
<1>2. props' = With(props, n, a) /\ assigned' = [k \in DOMAIN assigned \ {n} |-> assigned[k]]
  BY DEF PeerSets
<1>3. PropsOk(S)'
  BY <1>1, <1>2 DEF PropsOk, With
<1>4. AssignedOk(H)'
  BY <1>1, <1>2 DEF AssignedOk, With
<1> QED BY <1>3, <1>4 DEF PeerOk

LEMMA SetOk ==
    ASSUME NEW S, NEW H, Values(S, H), ValueInv(S, H), NEW n \in Names, NEW h \in Holders, Set(n, h)
    PROVE  PeerOk(S, H)'
<1>1. PropsOk(S) /\ AssignedOk(H) /\ h \in H /\ Complete(Signature(h))
  BY DEF ValueInv, PeerOk, Values, Set
<1>2. PICK b \in S : b = Encode(h, <<"v">>).content /\ Represents(h, b)
  BY <1>1, EncodeRight DEF Sent
<1>3. props' = With(props, n, b) /\ assigned' = With(assigned, n, h)
  BY <1>2, Zenon DEF Set
<1>4. PropsOk(S)'
  BY <1>1, <1>3 DEF PropsOk, With
<1>5. AssignedOk(H)'
  BY <1>1, <1>2, <1>3 DEF AssignedOk, With
<1> QED BY <1>4, <1>5 DEF PeerOk

LEMMA WriteValueOk ==
    ASSUME NEW S, NEW H, Values(S, H), ValueInv(S, H),
           NEW data \in Chunks, NEW kind \in {"request", "command"}, WriteValue(data, kind)
    PROVE  ChunkOk'
<1>1. data \in Seq(ValuesOf("y")) /\ kind \in Strings
  BY CallerAssumption DEF CallerAssumption, Strings
<1>2. PICK b, o : /\ b = Encode(BytesHolder(data), <<"a", "y">>)
                  /\ o = Encode(OptionsHolder(kind), <<"a", "{", "s", "v", "}">>)
  OBVIOUS
<1>3. /\ received' = <<b, o>>
      /\ value' = [j \in DOMAIN received'[1].elements |-> received'[1].elements[j].num]
      /\ written' = [data |-> data, kind |-> kind]
  BY <1>2 DEF WriteValue, BytesHolder, OptionsHolder
<1>4. PICK n \in Nat, l \in Nat : /\ n = Length(Len(data)) /\ l = Len(data) /\ DOMAIN data = 1..l
                              /\ DOMAIN b.elements = 1..n /\ n <= l /\ (l < Lengths => n = l)
                              /\ \A j \in 1..n : b.elements[j].num = data[j]
  <2>1. /\ DOMAIN b.elements = 1..Length(Len(data)) /\ Length(Len(data)) \in 0..Len(data)
        /\ \A j \in DOMAIN b.elements : b.elements[j].num = data[j]
        /\ Len(data) < Lengths => Length(Len(data)) = Len(data)
    BY <1>1, <1>2, BytesSent, Zenon
  <2>2. Len(data) \in Nat /\ DOMAIN data = 1..Len(data)
    BY <1>1, DomainOfSeq
  <2> QED BY <2>1, <2>2
<1>5. value' = [j \in 1..n |-> data[j]]
  <2>1. received'[1] = b
    BY <1>3
  <2>2. value' = [j \in DOMAIN b.elements |-> b.elements[j].num]
    BY <1>3, <2>1, Zenon
  <2> QED BY <1>4, <2>2
<1>6. value' \in Seq(ValuesOf("y"))
  <2>1. \A j \in 1..n : data[j] \in ValuesOf("y")
    BY <1>1, <1>4, ElementsOfSeq
  <2> QED BY <1>5, <2>1
<1>7. l < Lengths => value' = data
  BY <1>1, <1>4, <1>5
<1>8. Represents(OptionsHolder(kind), o)
  BY <1>1, <1>2, OptionsSent, Zenon
<1>9. received'[2] = o /\ written'.data = data /\ written'.kind = kind
  BY <1>3
<1>10. WriteArrives'
  BY <1>4, <1>7, <1>8, <1>9 DEF WriteArrives, OptionsHolder
<1> QED BY <1>6, <1>10 DEF ChunkOk

\* An action of the program or of the peer that is not the arrival of a message.
Outgoing ==
    \/ \E n \in Names, h \in Holders : Set(n, h) \/ SetCrashes(n, h)
    \/ \E n \in Names, a \in Arguments : PeerSets(n, a)
    \/ \E data \in Chunks, kind \in {"request", "command"} : WriteValue(data, kind)

LEMMA OutgoingOk ==
    ASSUME NEW S, NEW H, Values(S, H), ValueInv(S, H), Outgoing
    PROVE  ValueInv(S, H)'
<1>1. PeerOk(S, H) /\ ChunkOk /\ phase \in {"idle", "extract", "next", "crashed"}
  BY DEF ValueInv, MessageOk, IterOk
<1>2. ASSUME NEW n \in Names, NEW h \in Holders, Set(n, h) PROVE ValueInv(S, H)'
  <2>1. Discard /\ phase' = "idle" /\ UNCHANGED writeVars
    BY <1>2 DEF Set
  <2> QED BY <1>1, <1>2, <2>1, SetOk, ChunkFrame, DiscardOk DEF ValueInv
<1>3. ASSUME NEW n \in Names, NEW h \in Holders, SetCrashes(n, h) PROVE ValueInv(S, H)'
  <2>1. Discard /\ phase' = "crashed" /\ UNCHANGED <<props, assigned>> /\ UNCHANGED writeVars
    BY <1>3 DEF SetCrashes
  <2> QED BY <1>1, <2>1, PeerFrame, ChunkFrame, DiscardOk DEF ValueInv
<1>4. ASSUME NEW n \in Names, NEW a \in Arguments, PeerSets(n, a) PROVE ValueInv(S, H)'
  <2>1. Discard /\ phase' = "idle" /\ UNCHANGED writeVars
    BY <1>4 DEF PeerSets
  <2> QED BY <1>1, <1>4, <2>1, PeerSetsOk, ChunkFrame, DiscardOk DEF ValueInv
<1>5. ASSUME NEW data \in Chunks, NEW kind \in {"request", "command"}, WriteValue(data, kind)
      PROVE  ValueInv(S, H)'
  <2>1. Discard /\ phase' = "idle" /\ UNCHANGED <<props, assigned>>
    BY <1>5 DEF WriteValue
  <2> QED BY <1>1, <1>5, <2>1, WriteValueOk, PeerFrame, DiscardOk DEF ValueInv
<1> QED BY <1>2, <1>3, <1>4, <1>5 DEF Outgoing

LEMMA NextOk ==
    ASSUME NEW S, NEW H, Values(S, H), ValueInv(S, H), [Next]_vars
    PROVE  ValueInv(S, H)'
<1>1. PeerOk(S, H) /\ ChunkOk /\ MessageOk(S, H)
  BY DEF ValueInv
<1>2. ASSUME MessageOk(S, H)', UNCHANGED <<props, assigned, writeVars>> PROVE ValueInv(S, H)'
  BY <1>1, <1>2, PeerFrame, ChunkFrame DEF ValueInv
<1>3. CASE Extract
  <2>1. UNCHANGED <<props, assigned, writeVars>>
    BY <1>3 DEF Extract
  <2> QED BY <1>2, <1>3, <2>1, ExtractOk
<1>4. CASE ExtractNext
  <2>1. UNCHANGED <<props, assigned, writeVars>>
    BY <1>4 DEF ExtractNext
  <2> QED BY <1>2, <1>4, <2>1, ExtractNextOk
<1>5. CASE Incoming
  BY <1>2, <1>5, IncomingOk
<1>6. CASE Outgoing
  BY <1>6, OutgoingOk
<1>7. CASE UNCHANGED vars
  <2>1. UNCHANGED <<props, assigned, writeVars>> /\ UNCHANGED <<readVars, phase>>
    BY <1>7 DEF vars
  <2> QED BY <1>1, <1>2, <2>1, MessageFrame
<1>8. CASE Next
  <2>1. Extract \/ ExtractNext \/ Incoming \/ Outgoing
    BY <1>8 DEF Next, Incoming, Outgoing
  <2> QED BY <1>3, <1>4, <1>5, <1>6, <2>1
<1> QED BY <1>7, <1>8

LEMMA ValueInvAlways ==
    ASSUME NEW S, NEW H, Values(S, H)
    PROVE  Spec => []ValueInv(S, H)
<1>1. Init => ValueInv(S, H)
  BY InitOk
<1>2. ValueInv(S, H) /\ [Next]_vars => ValueInv(S, H)'
  BY NextOk
<1> QED BY <1>1, <1>2, PTL DEF Spec

----------------------------------------------------------------------------
(* Whatever arguments and Holders there are, at every depth and for every width of the numbers, every *)
(* Holder that is kept is one that the code can make, and the iterator of a message is at one of its  *)
(* arguments once it is initialised.                                                                  *)
THEOREM ValueTypes ==
    ASSUME NEW S, NEW H, Values(S, H)
    PROVE  Spec => []TypeOK
<1>1. ValueInv(S, H) => TypeOK
  <2> SUFFICES ASSUME ValueInv(S, H) PROVE TypeOK
    OBVIOUS
  <2>1. AssignedOk(H) /\ PropsOk(S) /\ ReadOk(S, H) /\ IterOk
    BY DEF ValueInv, PeerOk, MessageOk
  <2>2. \A n \in DOMAIN assigned : IsHolder(assigned[n])
    BY <2>1, HoldersAreHolders DEF AssignedOk
  <2>3. \A j \in DOMAIN taken : IsHolder(taken[j])
    BY <2>1, HoldersAreHolders, ElementsOfSeq DEF ReadOk
  <2> QED BY <2>1, <2>2, <2>3 DEF TypeOK, AssignedOk, PropsOk, IterOk
<1> QED BY <1>1, ValueInvAlways, PTL

(* Message::extract and extract_next: whatever well-formed message arrives, each Holder that was taken *)
(* from it stands for the argument in its place, with everything that is nested in it.                 *)
THEOREM ExtractedRight ==
    ASSUME NEW S, NEW H, Values(S, H)
    PROVE  Spec => []ExtractedIsSent
<1>1. ValueInv(S, H) => ExtractedIsSent
  BY DEF ValueInv, MessageOk, ReadOk, ExtractedIsSent
<1> QED BY <1>1, ValueInvAlways, PTL

(* Properties::Set: whatever Holder it is called with, if libdbus takes the signature that the code   *)
(* finds for it, then the property of the peer stands for that Holder until somebody sets it again.   *)
THEOREM SetRight ==
    ASSUME NEW S, NEW H, Values(S, H)
    PROVE  Spec => []SetArrives
<1>1. ValueInv(S, H) => SetArrives
  BY DEF ValueInv, PeerOk, AssignedOk, SetArrives
<1> QED BY <1>1, ValueInvAlways, PTL

(* GattCharacteristic1: whatever bytes are written, they arrive whole and in order when their number *)
(* fits in the type of the length, and the option tells a request from a command.                    *)
THEOREM WriteRight ==
    ASSUME NEW S, NEW H, Values(S, H)
    PROVE  Spec => []WriteArrives
<1>1. ValueInv(S, H) => WriteArrives
  BY DEF ValueInv, ChunkOk
<1> QED BY <1>1, ValueInvAlways, PTL
===============================================================================
