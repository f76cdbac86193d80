------------------------------ MODULE ProtoCodec ------------------------------
(***************************************************************************)
(* A message from its sender to its receiver: marshalled, carried as       *)
(* bytes, unmarshalled.  The bytes of one message may be cut short, those  *)
(* of two messages of a type may arrive as one, and bytes nobody marshalled *)
(* may arrive instead.                                                     *)
(***************************************************************************)
EXTENDS ProtoMarshal, ProtoUnmarshal

CONSTANTS
  Messages1,      \* type -> messages sent on their own
  Messages2,      \* type -> messages of which two are sent back to back
  RawTypes,       \* types that bytes nobody marshalled are decoded as
  RawBytes,       \* those bytes
  MaxCut          \* only messages of at most MaxCut bytes are cut short

VARIABLES
  type,    \* the type of the message
  sent,    \* the messages sent, none for raw bytes
  todo,    \* those still to be marshalled
  wire,    \* the bytes on their way
  cut,     \* bytes that arrive of a message cut short, or Whole
  phase    \* "marshal", "carry", "unmarshal"

vars == <<mVars, uVars, type, sent, todo, wire, cut, phase>>

Whole == -1

Idle == buf = <<>> /\ i = 0 /\ calls = <<>>

Init ==
  /\ Idle
  /\ DecodeInit
  /\ cut = Whole
  /\ \/ /\ phase = "marshal" /\ wire = <<>> /\ type \in Types
        /\ \/ \E m \in Messages1[type] : sent = <<m>>
           \/ \E m, n \in Messages2[type] : sent = <<m, n>>
     \/ /\ phase = "carry" /\ wire \in RawBytes /\ type \in RawTypes
        /\ sent = <<>>
  /\ todo = sent

Sender == UNCHANGED <<uVars, type, sent, cut>>
Receiver == UNCHANGED <<mVars, type, sent, todo, wire, cut, phase>>

StartMarshal ==
  /\ phase = "marshal" /\ calls = <<>> /\ todo # <<>>
  /\ MarshalStarts(type, Head(todo))
  /\ todo' = Tail(todo)
  /\ UNCHANGED <<wire, phase>> /\ Sender

MarshalStep == phase = "marshal" /\ MarshalNext /\ UNCHANGED <<todo, wire, phase>> /\ Sender

FinishMarshal ==
  /\ phase = "marshal" /\ Marshalled
  /\ wire' = wire \o MarshalResult
  /\ phase' = IF todo = <<>> THEN "carry" ELSE "marshal"
  /\ buf' = <<>> /\ i' = 0 /\ calls' = <<>>
  /\ UNCHANGED todo /\ Sender

Arrive(bytes) ==
  /\ phase = "carry" /\ phase' = "unmarshal"
  /\ UnmarshalStarts(type, bytes)
  /\ UNCHANGED <<mVars, type, sent, todo, wire>>

ArriveWhole == Arrive(wire) /\ UNCHANGED cut

ArriveCut ==
  /\ Len(sent) = 1 /\ Len(wire) <= MaxCut
  /\ \E n \in 0..Len(wire) - 1 : Arrive(SubSeq(wire, 1, n)) /\ cut' = n

UnmarshalStep == phase = "unmarshal" /\ UnmarshalNext /\ Receiver

Finished == phase = "unmarshal" /\ result # "running"

Done == Finished /\ UNCHANGED vars

Next ==
  \/ StartMarshal \/ MarshalStep \/ FinishMarshal
  \/ ArriveWhole \/ ArriveCut \/ UnmarshalStep
  \/ Done

Spec == Init /\ [][Next]_vars

-----------------------------------------------------------------------------
(* Properties *)

\* MarshalToSizedBuffer fills the buffer that Marshal made with Size()
\* exactly: i never falls below 0, and is 0 when the outermost call returns.
BufferExact ==
  phase = "marshal" => i >= 0 /\ (Marshalled => i = 0)

\* Unmarshal of Marshal(m) is m, for every message of both modules, and the
\* buffer in between is neither too short nor too long.
RoundTrip ==
  /\ BufferExact
  /\ Finished /\ Len(sent) = 1 /\ cut = Whole =>
       result = "ok" /\ Decoded = sent[1]

RECURSIVE Merge(_, _, _)
Merge(t, a, b) ==
  [ name \in FieldNames(t) |->
      LET f == FieldOf(t, name) IN
      CASE f.kind = "string" -> IF b[name] = <<>> THEN a[name] ELSE b[name]
        [] f.kind \in Numbers -> IF b[name] = 0 THEN a[name] ELSE b[name]
        [] f.kind = "int" -> b[name]
        [] f.kind = "message" -> Merge(f.of, a[name], b[name])
        [] OTHER -> a[name] \o b[name] ]

\* The bytes of two messages decode to their merge: the later of two strings
\* or numbers wins, lists are joined, and a nested message is decoded into
\* the one that is there already.
ConcatenationMerges ==
  Finished /\ Len(sent) = 2 =>
    result = "ok" /\ Decoded = Merge(type, sent[1], sent[2])

\* Where one field of a marshalled message ends and the next begins.
FieldEnds(t, m) ==
  LET writes == Reverse(Writes(t, m))
      SizeOf(e) == CASE e.kind \in Numbers -> 1 + sov(e.v)
                     [] e.kind \in {"message", "messages"} -> Prefixed(Size(e.of, e.v))
                     [] OTHER -> Prefixed(Len(e.v))
  IN { FoldLeft(LAMBDA n, e : n + SizeOf(e), 0, SubSeq(writes, 1, k)) :
         k \in 0..Len(writes) }

\* A message cut short is refused, unless the cut falls between two fields of
\* the outermost message: nothing is decoded from half a field.
TruncationDetected ==
  Finished /\ cut # Whole => (result = "ok" <=> cut \in FieldEnds(type, sent[1]))
=============================================================================
