----------------------------- MODULE MCProtoCodec -----------------------------
(* Every message type with empty, short and long (two-byte length) strings, *)
(* small and two-byte numbers, zero and a negative integer and lists of up  *)
(* to two elements; pairs of messages of up to three fields; and raw bytes  *)
(* from an alphabet of tags known and unknown, group delimiters, lengths    *)
(* and continuation bytes.                                                  *)
EXTENDS ProtoCodec

CONSTANTS Alphabet, RawLength

\* A string whose length takes two bytes.
long == [ k \in 1..128 |-> 98 ]

\* All strings of a message but at most one are empty, or all but one are not.
StringsAlike(t, m) ==
  LET names == { f.name : f \in { g \in Range(Unmarshal[t]) : g.kind = "string" } }
      empty == { name \in names : m[name] = <<>> }
  IN Cardinality(empty) <= 1 \/ Cardinality(names \ empty) <= 1

\* The messages of a type whose fields take the given values.
RECURSIVE Build(_, _, _)
Build(t, strings, numbers) ==
  LET Of(f) ==
        CASE f.kind = "string" -> strings
          [] f.kind = "int" -> {<<48>>, <<45, 49>>}
          [] f.kind \in Numbers -> numbers
          [] f.kind = "message" -> Build(f.of, strings, numbers)
          [] f.kind = "strings" -> {<<>>, <<<<>>, <<97>>>>}
          [] f.kind = "messages" ->
               LET one == Build(f.of, strings \cap {<<97>>}, numbers \cap {128}) IN
               {<<>>} \cup { <<m>> : m \in one } \cup { <<Zero[f.of], m>> : m \in one }
      all == FoldLeft(LAMBDA partial, f : { (f.name :> v) @@ m : v \in Of(f), m \in partial },
                      {<<>>}, Unmarshal[t])
  IN { m \in all : StringsAlike(t, m) }

MCMessages1 ==
  [ t \in Types |-> Build(t, {<<>>, <<97>>}, {0, 128}) \cup Build(t, {long}, {1}) ]
MCMessages2 ==
  [ t \in Types |->
      IF Len(Unmarshal[t]) > 3 \/ t \in {"MsgSetDenomMetadata", "GenesisState"}
        THEN {}  \* too many pairs
        ELSE Build(t, {<<>>, <<97>>}, {0, 1}) ]

MCRawBytes == SeqOf(Alphabet, RawLength)
=============================================================================
