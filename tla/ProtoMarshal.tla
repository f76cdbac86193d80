----------------------------- MODULE ProtoMarshal -----------------------------
(***************************************************************************)
(* The generated Marshal functions: a buffer of Size() bytes, filled from  *)
(* its end to its beginning, one step per value written.  A nested message *)
(* is a call that writes in front of what is there and whose size its      *)
(* caller then writes in front of it.                                      *)
(***************************************************************************)
EXTENDS ProtoMessages, SequencesExt

VARIABLES
  buf,    \* the buffer
  i,      \* where the next byte written ends: the code's i
  calls   \* frames of the MarshalToSizedBuffer calls in progress

mVars == <<buf, i, calls>>

\* math_bits.Len64
Len64(v) == IF v = 0 THEN 0 ELSE CHOOSE n \in 1..v : 2^(n - 1) <= v /\ v < 2^n

\* Bytes of the varint of x.
sov(x) == (Len64(IF x % 2 = 0 THEN x + 1 ELSE x) + 6) \div 7

-----------------------------------------------------------------------------
(* Size *)

PrefixedShort(l) == 2 + l  \* variant: every length takes one byte

\* Bytes of one value behind its tag and length.
Prefixed(l) == 1 + l + sov(l)

RECURSIVE Size(_, _)
Size(type, m) ==
  LET SizeOf(f) ==
        LET v == m[f.name] IN
        CASE f.kind = "string" -> IF Len(v) > 0 THEN Prefixed(Len(v)) ELSE 0
          [] f.kind = "int" -> Prefixed(Len(v))
          [] f.kind \in Numbers -> IF v # 0 THEN 1 + sov(v) ELSE 0
          [] f.kind = "message" -> Prefixed(Size(f.of, v))
          [] f.kind = "strings" ->
               FoldLeft(LAMBDA n, e : n + Prefixed(Len(e)), 0, v)
          [] f.kind = "messages" ->
               FoldLeft(LAMBDA n, e : n + Prefixed(Size(f.of, e)), 0, v)
  IN FoldLeft(LAMBDA n, f : n + SizeOf(f), 0, Unmarshal[type])

-----------------------------------------------------------------------------
(* MarshalToSizedBuffer *)

Value(tag, f, v) == [ tag |-> tag, kind |-> f.kind, of |-> f.of, v |-> v ]

\* The values a field writes: an empty string, a zero and an empty list write
\* nothing, a list is written from its end.
ValuesOf(p, f, v) ==
  CASE f.kind \in {"strings", "messages"} ->
         Reverse([ k \in DOMAIN v |-> Value(p.tag, f, v[k]) ])
    [] f.kind = "string" /\ v = <<>> -> <<>>
    [] f.kind \in Numbers /\ v = 0 -> <<>>
    [] OTHER -> <<Value(p.tag, f, v)>>

\* The values X.MarshalToSizedBuffer writes, in the order of the code.
Writes(type, m) ==
  FlattenSeq([ k \in DOMAIN Marshal[type] |->
    LET p == Marshal[type][k] IN ValuesOf(p, FieldOf(type, p.name), m[p.name]) ])

\* end: the length of the slice the call was given; tag: what the caller writes.
Call(type, m, end, tag) ==
  [ writes |-> Writes(type, m), end |-> end, tag |-> tag ]

MarshalStarts(type, m) ==
  /\ buf' = [ k \in 1..Size(type, m) |-> 0 ]
  /\ i' = Size(type, m)
  /\ calls' = <<Call(type, m, Size(type, m), 0)>>

\* The bytes encodeVarintTx's loop writes.
VarintOf(v) ==
  LET n == CHOOSE k \in 1..(v + 1) : v < 128^k /\ (k > 1 => v >= 128^(k - 1))
  IN [ k \in 1..n |-> ((v \div 128^(k - 1)) % 128) + (IF k < n THEN 128 ELSE 0) ]

\* bytes written at an index of a buffer; outside it the code panics, and the
\* model leaves the buffer as it is.
Write(b, at, bytes) ==
  IF 0 <= at /\ at + Len(bytes) <= Len(b)
    THEN SubSeq(b, 1, at) \o bytes \o SubSeq(b, at + Len(bytes) + 1, Len(b))
    ELSE b

\* encodeVarintTx(dAtA, offset, v), then the tag in front of it.
WriteHeader(b, offset, v, tag) ==
  Write(Write(b, offset - sov(v), VarintOf(v)), offset - sov(v) - 1, <<tag>>)
HeaderAt(offset, v) == offset - sov(v) - 1

Caller == calls[Len(calls)]

MarshalUint64 ==
  /\ calls # <<>> /\ Caller.writes # <<>>
  /\ LET e == Head(Caller.writes) IN
     /\ e.kind \in Numbers
     /\ buf' = WriteHeader(buf, i, e.v, e.tag)
     /\ i' = HeaderAt(i, e.v)
  /\ calls' = [ calls EXCEPT ![Len(calls)].writes = Tail(@) ]

MarshalString ==
  /\ calls # <<>> /\ Caller.writes # <<>>
  /\ LET e == Head(Caller.writes) IN
     /\ e.kind \in {"string", "strings", "int"}
     /\ buf' = WriteHeader(Write(buf, i - Len(e.v), e.v), i - Len(e.v),
                           Len(e.v), e.tag)
     /\ i' = HeaderAt(i - Len(e.v), Len(e.v))
  /\ calls' = [ calls EXCEPT ![Len(calls)].writes = Tail(@) ]

CallMarshal ==
  /\ calls # <<>> /\ Caller.writes # <<>>
  /\ LET e == Head(Caller.writes) IN
     /\ e.kind \in {"message", "messages"}
     /\ calls' = Append([ calls EXCEPT ![Len(calls)].writes = Tail(@) ],
                        Call(e.of, e.v, i, e.tag))
  /\ UNCHANGED <<buf, i>>

\* size is len(dAtA) - i of the nested call, whose slice was dAtA[:i].
ReturnFromMarshal ==
  /\ Len(calls) > 1 /\ Caller.writes = <<>>
  /\ LET size == Caller.end - i IN
     /\ buf' = WriteHeader(buf, i, size, Caller.tag)
     /\ i' = HeaderAt(i, size)
  /\ calls' = SubSeq(calls, 1, Len(calls) - 1)

MarshalNext == MarshalUint64 \/ MarshalString \/ CallMarshal \/ ReturnFromMarshal

\* Marshal has its result: dAtA[:n].
Marshalled == Len(calls) = 1 /\ Caller.writes = <<>>
MarshalResult == SubSeq(buf, 1, Len(buf) - i)

=============================================================================
