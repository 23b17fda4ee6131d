---------------------------- MODULE MCDBusValues ----------------------------
(* Instance of DBusValues for TLC: every type with a small width, trees of depth up to three. *)
EXTENDS DBusValues

\* A call inside a function is the function; the LET keeps the coverage count of TLC from unfolding it.
AssignRecursion(target, other) == LET result == Assign(target, other) IN result
SignatureRecursion(h) == LET result == Signature(h) IN result
EncodeRecursion(h, sig) == LET result == Encode(h, sig) IN result
DecodeRecursion(a) == LET result == Decode(a) IN result
IsHolderRecursion(h) == LET result == IsHolder(h) IN result
RepresentsRecursion(h, a) == LET result == Represents(h, a) IN result

SmallSizes == [y |-> 4, b |-> 2, n |-> 8, q |-> 8, i |-> 16, u |-> 16, x |-> 32, t |-> 32, d |-> 32]

Bytes == ArrayAppend(CreateArray, <<CreateNumber("y", 3), CreateNumber("y", 0)>>)
Dict == DictAppend(CreateDict, "key", CreateText("s", "text"))

SentHolders ==
    {CreateNumber("y", 3), CreateNumber("y", 0), CreateNumber("b", 1), CreateNumber("n", -1), CreateNumber("q", 7),
     CreateNumber("i", -8), CreateNumber("x", -16), CreateNumber("t", 31), CreateText("o", "/path"), Bytes,
     CreateArray, ArrayAppend(CreateArray, <<Bytes, Bytes>>), Dict, ArrayAppend(CreateArray, <<Dict>>)}

PeerArguments ==
    {Number("i", -1), Number("u", 15), Variant(Text("g", "ay")), [t |-> "h"], Variant(Variant([t |-> "h"])),
     ArrayOf(<<Entry(Number("q", 7), Variant(Number("b", 1)))>>),
     ArrayOf(<<Entry(Text("s", "a"), Variant([t |-> "h"])),
               Entry(Text("s", "b"), Variant(ArrayOf(<<Number("n", -4)>>)))>>)}

WrittenChunks == {<<>>, <<3>>, <<1, 0, 2>>, <<2, 0, 1, 3, 3>>}
===============================================================================
