---------------------------- MODULE ProtoUnmarshal ----------------------------
(***************************************************************************)
(* The generated Unmarshal functions, one step per field of the input.  A  *)
(* nested message is a call on a slice of the input, so the calls in       *)
(* progress are a stack of frames; the fields a message does not know are  *)
(* skipped element by element by skipTx and its copies in the other files. *)
(*                                                                         *)
(* The code's widths are 64 bits for int and uint64 and 32 for a field     *)
(* number and a uint32; both are parameters here, because the interesting  *)
(* inputs are those whose lengths and tags do not fit.                     *)
(***************************************************************************)
EXTENDS ProtoMessages, FiniteSetsExt, Functions

CONSTANTS
  Width,      \* bits of int and uint64
  TagWidth    \* bits of a field number (int32) and of a uint32

ASSUME WidthAssumption ==
  /\ Width \in Nat /\ TagWidth \in Nat
  /\ 0 < TagWidth /\ TagWidth + 3 <= Width

\* Rounds of the varint loop before shift >= 64.
MaxRounds == (Width + 6) \div 7

\* Arithmetic the proofs use.
ASSUME PowersAssumption ==
  /\ 2^(Width - 1) \in Nat /\ 8 <= 2^(Width - 1) /\ 2^Width = 2 * 2^(Width - 1)
  /\ \A k \in 0..MaxRounds - 1 : 128^k \in Nat

VARIABLES
  dAtA,     \* the bytes to decode
  stack,    \* frames of the Unmarshal calls in progress, innermost last
  skip,     \* the skip call in progress, or NoSkip
  result    \* "running", "ok", "panic" or the error returned

uVars == <<dAtA, stack, skip, result>>

NoSkip == [ base |-> 0, l |-> 0, iNdEx |-> 0, depth |-> -1 ]

\* base: where the slice begins in dAtA; l, iNdEx: the variables of the code;
\* m: the message decoded so far; into: the field of the caller it belongs to.
Frame(type, base, l, m, into) ==
  [ type |-> type, base |-> base, l |-> l, iNdEx |-> 0, m |-> m, into |-> into ]

Top == stack[Len(stack)]

SetTop(f) == [ stack EXCEPT ![Len(stack)] = f ]

\* uint64 to int, and an addition of ints.
ToInt(v, w) == IF v >= 2^(w - 1) THEN v - 2^w ELSE v
Add(a, b) == ToInt((a + b) % 2^Width, Width)

-----------------------------------------------------------------------------
(* Reading.  s is a frame or a skip call: the slice dAtA[s.base:][:s.l]. *)

Byte(s, i) == dAtA[s.base + i + 1]

Fits(s, lo, hi) == 0 <= lo /\ lo <= hi /\ hi <= s.l

Slice(s, lo, hi) == SubSeq(dAtA, s.base + lo + 1, s.base + hi)

\* The varint at i: its error, its value and the index behind it.  The code
\* reads byte by byte until one is below 0x80.
Varint(s, i) ==
  LET last == { j \in i..Min({i + MaxRounds, s.l}) - 1 : Byte(s, j) < 128 }
      end == Min(last)
      value == SumFunction([ j \in i..end |-> (Byte(s, j) % 128) * 128^(j - i) ])
  IN CASE i < 0 -> [ err |-> "panic", v |-> 0, iNdEx |-> i ]
       [] i >= 0 /\ last # {} ->
            [ err |-> "none", v |-> value % 2^Width, iNdEx |-> end + 1 ]
       [] i >= 0 /\ last = {} /\ i + MaxRounds <= s.l ->
            [ err |-> "ErrIntOverflow", v |-> 0, iNdEx |-> i ]
       [] OTHER -> [ err |-> "ErrUnexpectedEOF", v |-> 0, iNdEx |-> i ]

\* The tag at the top frame's iNdEx.
Tag == Varint(Top, Top.iNdEx)
fieldNum == ToInt((Tag.v \div 8) % 2^TagWidth, TagWidth)
wireType == Tag.v % 8

TagErr ==
  CASE Tag.err # "none" -> Tag.err
    [] Tag.err = "none" /\ wireType = 4 -> "EndGroupForNonGroup"
    [] Tag.err = "none" /\ wireType # 4 /\ fieldNum <= 0 -> "IllegalTag"
    [] OTHER -> "none"

Known == fieldNum \in DOMAIN Unmarshal[Top.type]
Case == Unmarshal[Top.type][fieldNum]
WireTypeOf(kind) == IF kind \in Numbers THEN 0 ELSE 2

\* The length behind the tag, and the end of the field's contents.
Length == Varint(Top, Tag.iNdEx)
intLen == ToInt(Length.v, Width)
postIndexClamped == Min({Add(Length.iNdEx, intLen), Top.l})  \* variant: takes what is there
postIndex == Add(Length.iNdEx, intLen)

LengthErrUnchecked ==  \* variant: no check for an overflow of postIndex
  CASE Length.err # "none" -> Length.err
    [] Length.err = "none" /\ intLen < 0 -> "ErrInvalidLength"
    [] Length.err = "none" /\ intLen >= 0 /\ postIndex > Top.l -> "ErrUnexpectedEOF"
    [] OTHER -> "none"

LengthErr ==
  CASE Length.err # "none" -> Length.err
    [] Length.err = "none" /\ (intLen < 0 \/ postIndex < 0) -> "ErrInvalidLength"
    [] Length.err = "none" /\ intLen >= 0 /\ postIndex > Top.l -> "ErrUnexpectedEOF"
    [] OTHER -> "none"

-----------------------------------------------------------------------------
(* Unmarshal *)

Fail(err) == result' = err /\ UNCHANGED <<dAtA, stack, skip>>

InField == result = "running" /\ skip = NoSkip /\ Top.iNdEx < Top.l

RejectTag == InField /\ TagErr # "none" /\ Fail(TagErr)

RejectWireType ==
  /\ InField /\ TagErr = "none" /\ Known
  /\ wireType # WireTypeOf(Case.kind)
  /\ Fail("WrongWireType")

Accepted(kinds) ==
  /\ InField /\ TagErr = "none" /\ Known
  /\ Case.kind \in kinds /\ wireType = WireTypeOf(Case.kind)

\* The bits of a varint that the field keeps.
NumberOf(kind, v) == IF kind = "uint32" THEN v % 2^TagWidth ELSE v

UnmarshalUint64 ==
  /\ Accepted(Numbers)
  /\ IF Length.err = "none"
       THEN /\ stack' = SetTop([ Top EXCEPT !.m[Case.name] = NumberOf(Case.kind, Length.v),
                                            !.iNdEx = Length.iNdEx ])
            /\ UNCHANGED <<dAtA, skip, result>>
       ELSE Fail(Length.err)

RejectLength ==
  /\ Accepted({"string", "strings", "int", "message", "messages"})
  /\ LengthErr # "none"
  /\ Fail(LengthErr)

Digits(text) == \A k \in DOMAIN text : text[k] \in 48..57

\* math.Int.Unmarshal: digits behind an optional minus sign, which is what
\* Marshal writes, or nothing at all, which changes nothing.
IsInt(text) ==
  \/ Digits(text)
  \/ Len(text) > 1 /\ Head(text) = 45 /\ Digits(Tail(text))

UnmarshalString ==
  /\ Accepted({"string", "strings", "int"}) /\ LengthErr = "none"
  /\ LET text == Slice(Top, Length.iNdEx, postIndex)
         old == Top.m[Case.name]
         new == CASE Case.kind = "strings" -> Append(old, text)
                  [] Case.kind = "int" /\ text = <<>> -> old
                  [] OTHER -> text
     IN CASE ~ Fits(Top, Length.iNdEx, postIndex) -> Fail("panic")
          [] Case.kind = "int" /\ ~ IsInt(text) -> Fail("NotAnInteger")
          [] OTHER ->
               /\ stack' = SetTop([ Top EXCEPT !.m[Case.name] = new,
                                               !.iNdEx = postIndex ])
               /\ UNCHANGED <<dAtA, skip, result>>

IntoReset(f) == Zero[f.of]  \* variant: a nested message is cleared first

\* The message a nested Unmarshal decodes into: the field itself, or the
\* element append has just added.
Into(f) == IF f.kind = "messages" THEN Zero[f.of] ELSE Top.m[f.name]

CallUnmarshal ==
  /\ Accepted({"message", "messages"}) /\ LengthErr = "none"
  /\ IF Fits(Top, Length.iNdEx, postIndex)
       THEN /\ stack' = Append(SetTop([ Top EXCEPT !.iNdEx = postIndex ]),
                               Frame(Case.of, Top.base + Length.iNdEx,
                                     postIndex - Length.iNdEx,
                                     Into(Case), Case.name))
            /\ UNCHANGED <<dAtA, skip, result>>
       ELSE Fail("panic")

\* The end of the loop.  A nested call returns to its caller.
ReturnFromUnmarshal ==
  /\ result = "running" /\ skip = NoSkip /\ Top.iNdEx >= Top.l
  /\ IF Len(stack) = 1
       THEN /\ result' = IF Top.iNdEx > Top.l THEN "ErrUnexpectedEOF" ELSE "ok"
            /\ UNCHANGED <<dAtA, stack, skip>>
       ELSE LET caller == stack[Len(stack) - 1]
                repeated == FieldOf(caller.type, Top.into).kind = "messages"
                value == IF repeated THEN Append(caller.m[Top.into], Top.m) ELSE Top.m
            IN IF Top.iNdEx > Top.l
                 THEN Fail("ErrUnexpectedEOF")
                 ELSE /\ stack' = [ SubSeq(stack, 1, Len(stack) - 1) EXCEPT
                                      ![Len(stack) - 1].m[Top.into] = value ]
                      /\ UNCHANGED <<dAtA, skip, result>>

-----------------------------------------------------------------------------
(* skipTx *)

CallSkip ==
  /\ InField /\ TagErr = "none" /\ ~ Known
  /\ skip' = [ base |-> Top.base + Top.iNdEx, l |-> Top.l - Top.iNdEx,
               iNdEx |-> 0, depth |-> 0 ]
  /\ UNCHANGED <<dAtA, stack, result>>

skipTag == Varint(skip, skip.iNdEx)
skipLength == Varint(skip, skipTag.iNdEx)

\* An element: its error, the index behind it, the depth of groups behind it.
Element(err, next, depth) == [ err |-> err, iNdEx |-> next, depth |-> depth ]

Checked(next, depth) ==
  Element(IF next < 0 THEN "ErrInvalidLength" ELSE "none", next, depth)

\* The switch on the wire type, behind the element's tag.
SkipSwitch ==
  LET wt == skipTag.v % 8
      i == skipTag.iNdEx
      length == ToInt(skipLength.v, Width)
  IN CASE wt \in {0, 2} /\ skipLength.err # "none" -> Element(skipLength.err, i, 0)
       [] wt = 0 /\ skipLength.err = "none" -> Checked(skipLength.iNdEx, skip.depth)
       [] wt = 1 -> Checked(Add(i, 8), skip.depth)
       [] wt = 2 /\ skipLength.err = "none" ->
            IF length < 0 THEN Element("ErrInvalidLength", i, 0)
                          ELSE Checked(Add(skipLength.iNdEx, length), skip.depth)
       [] wt = 3 -> Checked(i, skip.depth + 1)
       [] wt = 4 -> IF skip.depth = 0 THEN Element("ErrUnexpectedEndOfGroup", i, 0)
                                      ELSE Checked(i, skip.depth - 1)
       [] wt = 5 -> Checked(Add(i, 4), skip.depth)
       [] OTHER -> Element("IllegalWireType", i, 0)

\* The element at skip.iNdEx.
SkipElement ==
  CASE skip.iNdEx >= skip.l -> Element("ErrUnexpectedEOF", skipTag.iNdEx, 0)
    [] skip.iNdEx < skip.l /\ skipTag.err # "none" -> Element(skipTag.err, skipTag.iNdEx, 0)
    [] OTHER -> SkipSwitch

RejectSkip ==
  /\ result = "running" /\ skip # NoSkip
  /\ SkipElement.err # "none"
  /\ Fail(SkipElement.err)

\* Inside a group the loop goes on.
SkipInGroup ==
  /\ result = "running" /\ skip # NoSkip
  /\ SkipElement.err = "none" /\ SkipElement.depth > 0
  /\ skip' = [ skip EXCEPT !.iNdEx = SkipElement.iNdEx, !.depth = SkipElement.depth ]
  /\ UNCHANGED <<dAtA, stack, result>>

\* variant: the caller's iNdEx stays at the tag
ReturnFromSkipStuck ==
  /\ result = "running" /\ skip # NoSkip
  /\ SkipElement.err = "none" /\ SkipElement.depth = 0
  /\ skip' = NoSkip
  /\ UNCHANGED <<dAtA, stack, result>>

ReturnFromSkip ==
  /\ result = "running" /\ skip # NoSkip
  /\ SkipElement.err = "none" /\ SkipElement.depth = 0
  /\ LET next == Add(Top.iNdEx, SkipElement.iNdEx) IN
     CASE next < 0 -> Fail("ErrInvalidLength")
       [] next > Top.l -> Fail("ErrUnexpectedEOF")
       [] OTHER -> /\ skip' = NoSkip
                   /\ stack' = SetTop([ Top EXCEPT !.iNdEx = next ])
                   /\ UNCHANGED <<dAtA, result>>

UnmarshalNext ==
  \/ RejectTag \/ RejectWireType \/ RejectLength
  \/ UnmarshalUint64 \/ UnmarshalString
  \/ CallUnmarshal \/ ReturnFromUnmarshal
  \/ CallSkip \/ RejectSkip \/ SkipInGroup \/ ReturnFromSkip

\* proto.Unmarshal(bytes, &X{}) begins.
UnmarshalStarts(type, bytes) ==
  /\ dAtA' = bytes
  /\ stack' = <<Frame(type, 0, Len(bytes), Zero[type], "")>>
  /\ skip' = NoSkip
  /\ result' = "running"

Decoded == stack[1].m

-----------------------------------------------------------------------------
(* One Unmarshal call on any bytes of which there are as many as an int can *)
(* count: every step of a receiver is one of these.                         *)

Inputs == { bytes \in Seq(0..255) : Len(bytes) < 2^(Width - 1) }

DecodeInit == stack = <<>> /\ skip = NoSkip /\ result = "running" /\ dAtA = <<>>

DecodeNext ==
  \/ stack = <<>> /\ \E type \in Types, bytes \in Inputs : UnmarshalStarts(type, bytes)
  \/ stack # <<>> /\ UnmarshalNext

DecodeSpec == DecodeInit /\ [][DecodeNext]_uVars

-----------------------------------------------------------------------------
(* Properties *)

\* Unmarshal indexes and slices its input only inside it, whatever the bytes:
\* the checks of the length, of postIndex and of skippy leave no value with
\* which dAtA[iNdEx:postIndex] panics, and every nested call works on a part
\* of its caller's slice that lies before the caller's iNdEx.
InBounds ==
  /\ result # "panic"
  /\ \A k \in DOMAIN stack :
       /\ 0 <= stack[k].base /\ stack[k].base + stack[k].l <= Len(dAtA)
       /\ 0 <= stack[k].iNdEx /\ stack[k].iNdEx <= stack[k].l
       /\ k > 1 => /\ stack[k].base >= stack[k - 1].base
                   /\ stack[k].base + stack[k].l
                        = stack[k - 1].base + stack[k - 1].iNdEx

\* Bytes left in the frames; a call counts less than the bytes of its header.
BytesLeft == SumFunction([ k \in DOMAIN stack |-> stack[k].l - stack[k].iNdEx ])
Work == 2 * BytesLeft + Len(stack) + (IF skip = NoSkip THEN 1 ELSE 0)
SkipWork == skip.l - skip.iNdEx

\* Unmarshal ends on every input: a step either ends it or leaves less to do,
\* so neither its loop nor skipTx's can go round without consuming a byte.
Progress ==
  [][ stack # <<>> =>
        \/ result' # "running"
        \/ Work' \in 0..Work - 1
        \/ Work' = Work /\ 0 < SkipWork /\ SkipWork' < SkipWork ]_uVars

=============================================================================
