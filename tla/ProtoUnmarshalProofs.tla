------------------------- MODULE ProtoUnmarshalProofs -------------------------
(***************************************************************************)
(* Unmarshal on any bytes, for every width of int and of field numbers: no *)
(* index or slice leaves the input, and every step but the last leaves     *)
(* less to do.                                                             *)
(***************************************************************************)
EXTENDS ProtoUnmarshal, SumTheorems, SequenceTheorems

-----------------------------------------------------------------------------
(* The inductive invariant.                                                *)

\* A frame's indexes are natural numbers; what it has decoded is anything.
IsFrame(f) ==
  /\ f = [ x \in {"type", "base", "l", "iNdEx", "m", "into"} |-> f[x] ]
  /\ f.base \in Nat /\ f.l \in Nat /\ f.iNdEx \in 0..f.l

\* The frames of a stack lie in an input of n bytes, each in the part of its
\* caller's slice that the caller has passed.
Framed(st, n) ==
  /\ st \in Seq(Range(st))
  /\ \A k \in 1..Len(st) :
       /\ IsFrame(st[k])
       /\ st[k].base + st[k].l <= n
       /\ k > 1 => /\ st[k].base >= st[k - 1].base
                   /\ st[k].base + st[k].l = st[k - 1].base + st[k - 1].iNdEx

InputOK == dAtA \in Inputs

SkipRecords == [ base : Nat, l : Nat, iNdEx : 0..2^(Width - 1) - 1, depth : Nat ]

\* A skip call works on the rest of the top frame's slice.  Its own iNdEx may
\* have left it, but not the range of int.
SkipOK ==
  skip # NoSkip =>
    /\ stack # <<>>
    /\ skip \in SkipRecords
    /\ skip.base = Top.base + Top.iNdEx /\ skip.l = Top.l - Top.iNdEx

IInv == InputOK /\ Framed(stack, Len(dAtA)) /\ SkipOK /\ result # "panic"

-----------------------------------------------------------------------------
(* Arithmetic of int.                                                      *)

\* A uint64 becomes an int that is it or negative.
LEMMA ToIntOf ==
  ASSUME NEW v \in 0..2^Width - 1
  PROVE  /\ ToInt(v, Width) \in Int
         /\ ToInt(v, Width) < 2^(Width - 1)
         /\ ToInt(v, Width) >= 0 => ToInt(v, Width) = v
<1> DEFINE H == 2^(Width - 1)
           M == 2^Width
<1>1. H \in Nat /\ M = 2 * H BY PowersAssumption
<1>2. v \in 0..M - 1 /\ ToInt(v, Width) = IF v >= H THEN v - M ELSE v BY DEF ToInt
<1>3. H = 2^(Width - 1) OBVIOUS
<1> HIDE DEF H, M
<1>4. /\ ToInt(v, Width) \in Int
      /\ ToInt(v, Width) < H
      /\ ToInt(v, Width) >= 0 => ToInt(v, Width) = v
  BY <1>1, <1>2
<1> QED BY <1>3, <1>4

\* A sum of two ints is their sum, or negative.
LEMMA AddOf ==
  ASSUME NEW a \in 0..2^(Width - 1) - 1, NEW b \in 0..2^(Width - 1)
  PROVE  /\ Add(a, b) \in Int
         /\ Add(a, b) < 2^(Width - 1)
         /\ Add(a, b) >= 0 => Add(a, b) = a + b
<1> DEFINE H == 2^(Width - 1)
           M == 2^Width
<1>1. H \in Nat /\ 8 <= H /\ M = 2 * H BY PowersAssumption
<1>2. a \in 0..H - 1 /\ b \in 0..H OBVIOUS
<1>3. Add(a, b) = ToInt((a + b) % M, Width) BY DEF Add
<1>4. M - 1 = 2^Width - 1 OBVIOUS
<1> HIDE DEF H, M
<1>5. a + b \in 0..M - 1 /\ (a + b) % M = a + b BY <1>1, <1>2
<1>6. a + b \in 0..2^Width - 1 BY <1>4, <1>5
<1> QED BY <1>3, <1>5, <1>6, ToIntOf

-----------------------------------------------------------------------------
(* Reading.                                                                *)

\* s is a part of the input.
Readable(s) ==
  /\ InputOK
  /\ s.base \in Nat /\ s.l \in Nat
  /\ s.base + s.l <= Len(dAtA)

\* A set of natural numbers has a smallest element.
LEMMA MinOf ==
  ASSUME NEW S \in SUBSET Nat, S # {}
  PROVE  Min(S) \in S /\ \A x \in S : Min(S) <= x
<1> DEFINE Less == OpToRel(<, Nat)
<1>1. IsWellFoundedOn(Less, Nat) BY NatLessThanWellFounded
<1>2. \A x, y \in Nat : x < y => <<x, y>> \in Less BY DEF OpToRel
<1> HIDE DEF Less
<1>3. PICK x \in S : \A y \in S : ~(<<y, x>> \in Less) BY <1>1, WFMin
<1>4. ASSUME NEW y \in S PROVE x <= y
  <2>1. x \in Nat /\ y \in Nat OBVIOUS
  <2>2. ~(y < x) BY <1>2, <1>3, <2>1
  <2> QED BY ONLY <2>1, <2>2
<1> QED BY <1>4 DEF Min

\* What a sequence holds.
LEMMA ElementOf ==
  ASSUME NEW S, NEW q \in Seq(S), NEW k \in 1..Len(q) PROVE q[k] \in S
OBVIOUS

\* A varint is read inside the slice, and at least one byte of it.
LEMMA VarintOf ==
  ASSUME NEW s, Readable(s), NEW n \in Nat
  PROVE  /\ Varint(s, n).err \in {"none", "ErrIntOverflow", "ErrUnexpectedEOF"}
         /\ Varint(s, n).err = "none" =>
              Varint(s, n).iNdEx \in n + 1..s.l /\ Varint(s, n).v \in 0..2^Width - 1
<1> DEFINE e == Min({n + MaxRounds, s.l})
           last == { j \in n..e - 1 : Byte(s, j) < 128 }
           end == Min(last)
           parts == [ j \in n..end |-> (Byte(s, j) % 128) * 128^(j - n) ]
           value == SumFunction(parts)
<1>1. MaxRounds \in Nat BY WidthAssumption DEF MaxRounds
<1>2. s.l \in Nat BY DEF Readable
<1>3. e \in Nat /\ e <= n + MaxRounds /\ e <= s.l
  <2>1. {n + MaxRounds, s.l} \in SUBSET Nat /\ {n + MaxRounds, s.l} # {} BY <1>1, <1>2
  <2> QED BY <2>1, MinOf
<1>4. ASSUME last # {} PROVE end \in n..s.l - 1 /\ value % 2^Width \in 0..2^Width - 1
  <2>1. last \in SUBSET Nat BY <1>3
  <2>2. end \in last
    <3> HIDE DEF last
    <3> QED BY <1>4, <2>1, MinOf
  <2>3. end \in n..e - 1 BY <2>2
  <2> HIDE DEF e, last, end
  <2>4. \A j \in n..end : Byte(s, j) \in 0..255
    <3> TAKE j \in n..end
    <3>1. s.base + j + 1 \in 1..Len(dAtA) BY <1>2, <1>3, <2>3 DEF Readable
    <3>2. dAtA \in Seq(0..255) BY DEF Readable, InputOK, Inputs
    <3>3. dAtA[s.base + j + 1] \in 0..255 BY <3>1, <3>2, ElementOf
    <3> QED BY <3>3 DEF Byte
  <2>5. \A j \in n..end : 128^(j - n) \in Nat
    <3> TAKE j \in n..end
    <3>1. j - n \in 0..MaxRounds - 1 BY <1>1, <1>3, <2>3
    <3> QED BY <3>1, PowersAssumption
  <2>6. ASSUME NEW j \in n..end PROVE (Byte(s, j) % 128) * 128^(j - n) \in Nat
    <3> DEFINE b == Byte(s, j) % 128
               p == 128^(j - n)
    <3>1. b \in Nat BY <2>4
    <3>2. p \in Nat BY <2>5
    <3> HIDE DEF b, p
    <3>3. b * p \in Nat BY <3>1, <3>2
    <3> QED BY <3>3 DEF b, p
  <2>7. parts \in [n..end -> Nat] BY <2>6
  <2>8. IsFiniteSet(n..end) BY <2>3, FS_Interval
  <2>9. value \in Nat
    <3> HIDE DEF parts
    <3> QED BY <2>7, <2>8, FunctionSumNat
  <2> DEFINE H == 2^(Width - 1)
             M == 2^Width
  <2>10. M \in Nat /\ M > 0
    <3>1. H \in Nat /\ 8 <= H /\ M = 2 * H BY PowersAssumption
    <3> HIDE DEF H, M
    <3> QED BY <3>1
  <2>11. value % M \in 0..M - 1
    <3> HIDE DEF M, value
    <3> QED BY <2>9, <2>10
  <2> QED BY <1>2, <1>3, <2>3, <2>11
<1>5. /\ last # {} => Varint(s, n) = [ err |-> "none", v |-> value % 2^Width, iNdEx |-> end + 1 ]
      /\ last = {} => Varint(s, n).err \in {"ErrIntOverflow", "ErrUnexpectedEOF"}
  <2>1. ~(n < 0) /\ n >= 0 OBVIOUS
  <2> QED BY <2>1 DEF Varint
<1> HIDE DEF last, end, value
<1>6. CASE last # {} BY <1>2, <1>4, <1>5, <1>6
<1>7. CASE last = {} BY <1>5, <1>7
<1> QED BY <1>6, <1>7

\* The frame in progress is a part of the input that an int can index.
LEMMA TopOf ==
  ASSUME IInv, stack # <<>>
  PROVE  /\ Len(stack) \in Nat \ {0} /\ stack \in Seq(Range(stack))
         /\ IsFrame(Top) /\ Readable(Top)
         /\ Top.l < 2^(Width - 1)
<1>1. stack \in Seq(Range(stack)) BY DEF IInv, Framed
<1>2. Len(stack) \in Nat \ {0} BY <1>1
<1>3. Len(stack) \in 1..Len(stack) BY <1>2
<1>4. IsFrame(Top) /\ Top.base + Top.l <= Len(dAtA) BY <1>3 DEF IInv, Framed, Top
<1>5. Top.base \in Nat /\ Top.l \in Nat BY <1>4 DEF IsFrame
<1>6. InputOK BY DEF IInv
<1>7. Readable(Top) BY <1>4, <1>5, <1>6 DEF Readable
<1> DEFINE H == 2^(Width - 1)
<1>8. H \in Nat /\ Len(dAtA) \in Nat /\ Len(dAtA) < H
  BY <1>6, PowersAssumption DEF InputOK, Inputs
<1>9. Top.l < H
  <2> HIDE DEF H
  <2> QED BY <1>4, <1>5, <1>8
<1> QED BY <1>1, <1>2, <1>4, <1>7, <1>9

\* A tag takes at least one byte of the frame, or is refused.
LEMMA TagOf ==
  ASSUME IInv, stack # <<>>
  PROVE  /\ TagErr \notin {"panic", "running"}
         /\ TagErr = "none" => Tag.iNdEx \in Top.iNdEx + 1..Top.l
<1>1. Readable(Top) /\ Top.iNdEx \in Nat BY TopOf DEF IsFrame
<1>2. /\ Tag.err \in {"none", "ErrIntOverflow", "ErrUnexpectedEOF"}
      /\ Tag.err = "none" => Tag.iNdEx \in Top.iNdEx + 1..Top.l
  BY <1>1, VarintOf DEF Tag
<1> QED BY <1>2 DEF TagErr

\* So does a length, and the contents it announces lie in the frame.
LEMMA LengthOf ==
  ASSUME IInv, stack # <<>>, TagErr = "none"
  PROVE  /\ Length.err \notin {"panic", "running"}
         /\ Length.err = "none" => Length.iNdEx \in Top.iNdEx + 2..Top.l
         /\ LengthErr \notin {"panic", "running"}
         /\ LengthErr = "none" =>
              /\ Length.iNdEx \in Top.iNdEx + 2..Top.l
              /\ postIndex \in Length.iNdEx..Top.l
<1>1. Readable(Top) /\ Top.iNdEx \in Nat /\ Top.l \in Nat /\ Top.l < 2^(Width - 1)
  BY TopOf DEF IsFrame
<1>2. Tag.iNdEx \in Nat /\ Tag.iNdEx >= Top.iNdEx + 1 BY <1>1, TagOf
<1>3. /\ Length.err \in {"none", "ErrIntOverflow", "ErrUnexpectedEOF"}
      /\ Length.err = "none" =>
           Length.iNdEx \in Tag.iNdEx + 1..Top.l /\ Length.v \in 0..2^Width - 1
  BY <1>1, <1>2, VarintOf DEF Length
<1>4. Length.err = "none" => Length.iNdEx \in Top.iNdEx + 2..Top.l BY <1>1, <1>2, <1>3
<1>5. LengthErr \notin {"panic", "running"} BY <1>3 DEF LengthErr
<1>6. ASSUME LengthErr = "none" PROVE postIndex \in Length.iNdEx..Top.l
  <2> DEFINE H == 2^(Width - 1)
  <2>1. /\ Length.err = "none"
        /\ ~(intLen < 0) /\ ~(postIndex < 0)
        /\ ~(intLen >= 0 /\ postIndex > Top.l)
    BY <1>6 DEF LengthErr
  <2>2. intLen \in Int /\ intLen < H BY <1>3, <2>1, ToIntOf DEF intLen
  <2>3. H \in Nat BY PowersAssumption
  <2>4. Length.iNdEx \in 0..H - 1 /\ intLen \in 0..H
    <3>1. Top.l < H BY <1>1
    <3> HIDE DEF H
    <3> QED BY <1>1, <1>4, <2>1, <2>2, <2>3, <3>1
  <2>5. /\ postIndex \in Int
        /\ postIndex >= 0 => postIndex = Length.iNdEx + intLen
    BY <2>4, AddOf DEF postIndex
  <2> HIDE DEF H
  <2> QED BY <1>1, <1>4, <2>1, <2>3, <2>4, <2>5
<1>7. LengthErr = "none" => Length.err = "none" BY <1>3 DEF LengthErr
<1> QED BY <1>3, <1>4, <1>5, <1>6, <1>7

\* skipTx consumes at least one byte, or refuses what it finds.
LEMMA SkipElementOf ==
  ASSUME IInv, skip # NoSkip
  PROVE  /\ SkipElement.err \notin {"panic", "running"}
         /\ SkipElement.err = "none" =>
              /\ SkipElement.iNdEx \in skip.iNdEx + 1..2^(Width - 1) - 1
              /\ SkipElement.depth \in Nat
<1> DEFINE H == 2^(Width - 1)
<1>1. /\ stack # <<>> /\ skip \in SkipRecords
      /\ skip.base = Top.base + Top.iNdEx /\ skip.l = Top.l - Top.iNdEx
  BY DEF IInv, SkipOK
<1>2. IsFrame(Top) /\ Readable(Top) /\ Top.l < H BY <1>1, TopOf
<1>3. H \in Nat /\ 8 <= H BY PowersAssumption
<1>4. skip.iNdEx \in 0..H - 1 /\ skip.depth \in Nat BY <1>1 DEF SkipRecords
<1>5. Readable(skip) /\ skip.l \in Nat /\ skip.l < H
  <2> HIDE DEF H
  <2>1. skip.l \in Nat /\ skip.l < H BY <1>1, <1>2, <1>3 DEF IsFrame
  <2>2. skip.base \in Nat /\ skip.base + skip.l = Top.base + Top.l BY <1>1, <1>2 DEF IsFrame
  <2>3. InputOK /\ Top.base + Top.l <= Len(dAtA) BY <1>2 DEF Readable
  <2> QED BY <2>1, <2>2, <2>3 DEF Readable
<1>6. /\ skipTag.err \in {"none", "ErrIntOverflow", "ErrUnexpectedEOF"}
      /\ skipTag.err = "none" =>
           skipTag.iNdEx \in skip.iNdEx + 1..skip.l /\ skipTag.v \in 0..2^Width - 1
  BY <1>4, <1>5, VarintOf DEF skipTag
<1> DEFINE wt == skipTag.v % 8
           length == ToInt(skipLength.v, Width)
           end == Add(skipLength.iNdEx, length)
           plus8 == Add(skipTag.iNdEx, 8)
           plus4 == Add(skipTag.iNdEx, 4)
<1>7. CASE skipTag.err = "none"
  <2>1. skipTag.iNdEx \in 0..H - 1 /\ skipTag.iNdEx >= skip.iNdEx + 1
    <3> HIDE DEF H
    <3> QED BY <1>3, <1>4, <1>5, <1>6, <1>7
  <2>2. /\ skipLength.err \in {"none", "ErrIntOverflow", "ErrUnexpectedEOF"}
        /\ skipLength.err = "none" =>
             skipLength.iNdEx \in skipTag.iNdEx + 1..skip.l /\ skipLength.v \in 0..2^Width - 1
    BY <1>5, <2>1, VarintOf DEF skipLength
  <2>3. plus8 \in Int /\ plus8 < H /\ (plus8 >= 0 => plus8 = skipTag.iNdEx + 8)
    <3>1. 8 \in 0..H BY <1>3
    <3> QED BY <2>1, <3>1, AddOf
  <2>4. plus4 \in Int /\ plus4 < H /\ (plus4 >= 0 => plus4 = skipTag.iNdEx + 4)
    <3>1. 4 \in 0..H BY <1>3
    <3> QED BY <2>1, <3>1, AddOf
  <2>5. ASSUME skipLength.err = "none", length >= 0
        PROVE  end \in Int /\ end < H /\ (end >= 0 => end >= skipLength.iNdEx)
    <3>1. length \in Int /\ length < H BY <2>2, <2>5, ToIntOf
    <3>2. length \in 0..H
      <4> HIDE DEF H, length
      <4> QED BY <1>3, <2>5, <3>1
    <3>3. skipLength.iNdEx \in 0..H - 1
      <4> HIDE DEF H
      <4> QED BY <1>3, <1>5, <2>1, <2>2, <2>5
    <3>4. end \in Int /\ end < H /\ (end >= 0 => end = skipLength.iNdEx + length)
      BY <3>2, <3>3, AddOf
    <3> HIDE DEF end, H, length
    <3> QED BY <1>3, <3>2, <3>3, <3>4
  <2>6. wt \in Nat BY <1>6, <1>7
  <2>7. /\ SkipSwitch.err \notin {"panic", "running"}
        /\ SkipSwitch.err = "none" =>
             /\ SkipSwitch.iNdEx \in skip.iNdEx + 1..H - 1
             /\ SkipSwitch.depth \in Nat
    <3> DEFINE t == skipTag.iNdEx
    <3>1. /\ \A err, next, depth : Element(err, next, depth).err = err
          /\ \A err, next, depth : Element(err, next, depth).iNdEx = next
          /\ \A err, next, depth : Element(err, next, depth).depth = depth
      BY DEF Element
    <3>2. ASSUME NEW next \in Int, next < H, next < 0 \/ next > skip.iNdEx, NEW d \in Nat
          PROVE  /\ Checked(next, d).err \notin {"panic", "running"}
                 /\ Checked(next, d).err = "none" =>
                      /\ Checked(next, d).iNdEx \in skip.iNdEx + 1..H - 1
                      /\ Checked(next, d).depth \in Nat
      <4> HIDE DEF H
      <4> QED BY <1>3, <1>4, <3>1, <3>2 DEF Checked
    <3>3. skipLength.err = "none" =>
            /\ skipLength.iNdEx \in Int /\ skipLength.iNdEx < H
            /\ skipLength.iNdEx > skip.iNdEx
      <4> HIDE DEF H
      <4> QED BY <1>3, <1>4, <1>5, <2>1, <2>2
    <3>4. CASE wt \in {0, 2} /\ skipLength.err # "none"
      BY <2>2, <3>1, <3>4 DEF SkipSwitch
    <3>5. CASE wt = 0 /\ skipLength.err = "none"
      <4>1. SkipSwitch = Checked(skipLength.iNdEx, skip.depth) BY <3>5 DEF SkipSwitch
      <4> QED BY <1>4, <3>2, <3>3, <3>5, <4>1
    <3>6. CASE wt = 1
      <4>1. SkipSwitch = Checked(plus8, skip.depth) BY <3>6 DEF SkipSwitch
      <4>2. plus8 < 0 \/ plus8 > skip.iNdEx
        <5> HIDE DEF plus8
        <5> QED BY <1>4, <2>1, <2>3
      <4> QED BY <1>4, <2>3, <3>2, <4>1, <4>2
    <3>7. CASE wt = 2 /\ skipLength.err = "none"
      <4>1. SkipSwitch = IF length < 0 THEN Element("ErrInvalidLength", t, 0)
                                       ELSE Checked(end, skip.depth)
        BY <3>7 DEF SkipSwitch
      <4>2. length \in Int BY <2>2, <3>7, ToIntOf
      <4>3. CASE length < 0 BY <3>1, <4>1, <4>3
      <4>4. CASE length >= 0
        <5>1. end \in Int /\ end < H /\ (end < 0 \/ end > skip.iNdEx)
          <6>1. end \in Int /\ end < H /\ (end >= 0 => end >= skipLength.iNdEx)
            BY <2>5, <3>7, <4>4
          <6> HIDE DEF end, H, length
          <6> QED BY <1>4, <3>3, <3>7, <6>1
        <5>2. SkipSwitch = Checked(end, skip.depth)
          <6> HIDE DEF end, length
          <6> QED BY <4>1, <4>2, <4>4
        <5> QED BY <1>4, <3>2, <5>1, <5>2
      <4> HIDE DEF length
      <4> QED BY <4>2, <4>3, <4>4
    <3>8. CASE wt = 3
      <4>1. SkipSwitch = Checked(t, skip.depth + 1) BY <3>8 DEF SkipSwitch
      <4>2. t \in Int /\ t < H /\ t > skip.iNdEx /\ skip.depth + 1 \in Nat
        <5> HIDE DEF H
        <5> QED BY <1>3, <1>4, <2>1
      <4> QED BY <3>2, <4>1, <4>2
    <3>9. CASE wt = 4
      <4>1. SkipSwitch = IF skip.depth = 0 THEN Element("ErrUnexpectedEndOfGroup", t, 0)
                                           ELSE Checked(t, skip.depth - 1)
        BY <3>9 DEF SkipSwitch
      <4>2. t \in Int /\ t < H /\ t > skip.iNdEx
        <5> HIDE DEF H
        <5> QED BY <1>3, <1>4, <2>1
      <4>3. CASE skip.depth = 0 BY <3>1, <4>1, <4>3
      <4>4. CASE skip.depth # 0
        <5>1. skip.depth - 1 \in Nat BY <1>4, <4>4
        <5> QED BY <3>2, <4>1, <4>2, <4>4, <5>1
      <4> QED BY <4>3, <4>4
    <3>10. CASE wt = 5
      <4>1. SkipSwitch = Checked(plus4, skip.depth) BY <3>10 DEF SkipSwitch
      <4>2. plus4 < 0 \/ plus4 > skip.iNdEx
        <5> HIDE DEF plus4
        <5> QED BY <1>4, <2>1, <2>4
      <4> QED BY <1>4, <2>4, <3>2, <4>1, <4>2
    <3>11. CASE wt \notin 0..5
      <4>1. SkipSwitch = Element("IllegalWireType", t, 0) BY <3>11 DEF SkipSwitch
      <4> QED BY <3>1, <4>1
    <3> HIDE DEF wt
    <3> QED BY <2>6, <3>4, <3>5, <3>6, <3>7, <3>8, <3>9, <3>10, <3>11
  <2> QED BY <1>4, <1>5, <1>7, <2>7 DEF SkipElement, Element
<1>8. CASE skipTag.err # "none"
  <2>1. SkipElement.err = IF skip.iNdEx >= skip.l THEN "ErrUnexpectedEOF" ELSE skipTag.err
    BY <1>4, <1>5, <1>8 DEF SkipElement, Element
  <2> QED BY <1>6, <1>8, <2>1
<1> QED BY <1>7, <1>8

-----------------------------------------------------------------------------
(* Stacks of frames.                                                       *)

Left(st) == [ k \in DOMAIN st |-> st[k].l - st[k].iNdEx ]

\* What is left of each frame is a natural number of bytes.
LEMMA LeftOf ==
  ASSUME NEW n, NEW st, Framed(st, n)
  PROVE  /\ Len(st) \in Nat /\ DOMAIN st = 1..Len(st)
         /\ IsFiniteSet(1..Len(st))
         /\ Left(st) \in [1..Len(st) -> Nat]
         /\ SumFunction(Left(st)) \in Nat
<1>1. st \in Seq(Range(st)) BY DEF Framed
<1>2. Len(st) \in Nat /\ DOMAIN st = 1..Len(st) BY <1>1
<1>3. IsFiniteSet(1..Len(st)) BY <1>2, FS_Interval
<1>4. ASSUME NEW k \in 1..Len(st) PROVE st[k].l - st[k].iNdEx \in Nat
  <2>1. IsFrame(st[k]) BY DEF Framed
  <2> QED BY <2>1 DEF IsFrame
<1>5. Left(st) \in [1..Len(st) -> Nat] BY <1>2, <1>4 DEF Left
<1> QED BY <1>2, <1>3, <1>5, FunctionSumNat

\* A function on 1..n is a sequence of its values.
LEMMA SequenceOf ==
  ASSUME NEW n \in Nat, NEW q, q = [ k \in 1..n |-> q[k] ]
  PROVE  q \in Seq(Range(q)) /\ Len(q) = n
<1>1. q \in [1..n -> Range(q)] BY DEF Range
<1> QED BY <1>1

\* f is the top frame of st with its iNdEx moved on, and anything decoded.
Advances(st, f) ==
  /\ st # <<>> /\ IsFrame(f)
  /\ f.base = st[Len(st)].base /\ f.l = st[Len(st)].l

\* Moving on in the top frame keeps the frames apart, and lowers what is left
\* by the bytes moved over.
LEMMA AdvanceTop ==
  ASSUME NEW n, NEW st, Framed(st, n), NEW f, Advances(st, f)
  PROVE  LET t == [ st EXCEPT ![Len(st)] = f ]
         IN  /\ Framed(t, n) /\ Len(t) = Len(st) /\ t # <<>> /\ t[Len(t)] = f
             /\ SumFunction(Left(t)) =
                  SumFunction(Left(st)) + st[Len(st)].iNdEx - f.iNdEx
<1> DEFINE t == [ st EXCEPT ![Len(st)] = f ]
           h == Len(st)
<1>1. /\ Len(st) \in Nat /\ DOMAIN st = 1..Len(st) /\ IsFiniteSet(1..Len(st))
      /\ Left(st) \in [1..Len(st) -> Nat] /\ SumFunction(Left(st)) \in Nat
  BY LeftOf
<1>2. st # <<>> /\ st \in Seq(Range(st)) BY DEF Framed, Advances
<1>3. h \in 1..h BY <1>1, <1>2
<1>4. /\ t = [ k \in 1..h |-> t[k] ] /\ t[h] = f
      /\ \A k \in 1..h : k # h => t[k] = st[k]
  BY <1>1, <1>3
<1> HIDE DEF t
<1>5. t \in Seq(Range(t)) /\ Len(t) = h BY <1>1, <1>4, SequenceOf
<1>6. /\ IsFrame(f) /\ IsFrame(st[h])
      /\ f.base = st[h].base /\ f.l = st[h].l
  BY <1>3 DEF Advances, Framed
<1>7. Framed(t, n)
  <2> SUFFICES ASSUME NEW k \in 1..h
               PROVE  /\ IsFrame(t[k])
                      /\ t[k].base + t[k].l <= n
                      /\ k > 1 => /\ t[k].base >= t[k - 1].base
                                  /\ t[k].base + t[k].l = t[k - 1].base + t[k - 1].iNdEx
    BY <1>5 DEF Framed
  <2>1. /\ IsFrame(st[k]) /\ st[k].base + st[k].l <= n
        /\ k > 1 => /\ st[k].base >= st[k - 1].base
                    /\ st[k].base + st[k].l = st[k - 1].base + st[k - 1].iNdEx
    BY DEF Framed
  <2>2. t[k].base = st[k].base /\ t[k].l = st[k].l /\ IsFrame(t[k])
    BY <1>4, <1>6, <2>1
  <2>3. k > 1 => k - 1 \in 1..h /\ k - 1 # h BY <1>1
  <2>4. k > 1 => t[k - 1] = st[k - 1] BY <1>4, <2>3
  <2> QED BY <2>1, <2>2, <2>4
<1>8. Left(t) \in [1..h -> Nat] BY <1>5, <1>7, LeftOf
<1>9. SumFunction(Left(t)) = SumFunction(Left(st)) - Left(st)[h] + Left(t)[h]
  <2>1. \A k \in 1..h : k # h => Left(t)[k] = Left(st)[k]
    BY <1>1, <1>4 DEF Left
  <2>2. IsFiniteSet(1..h) /\ Left(st) \in [1..h -> Nat] BY <1>1
  <2> HIDE DEF h
  <2> QED BY ONLY <1>3, <1>8, <2>1, <2>2, FunctionSumUpdate
<1>10. Left(st)[h] = st[h].l - st[h].iNdEx /\ Left(t)[h] = f.l - f.iNdEx
  BY <1>1, <1>3, <1>4 DEF Left
<1>11. SumFunction(Left(t)) = SumFunction(Left(st)) + st[h].iNdEx - f.iNdEx
  BY <1>1, <1>6, <1>9, <1>10 DEF IsFrame
<1>12. t # <<>> BY <1>1, <1>3, <1>5
<1> QED BY <1>4, <1>5, <1>7, <1>11, <1>12 DEF t

\* A sum with one more summand.
LEMMA SumExtend ==
  ASSUME NEW h \in Nat, NEW f \in [1..h -> Nat], NEW g \in [1..h + 1 -> Nat],
         \A k \in 1..h : g[k] = f[k]
  PROVE  SumFunction(g) = SumFunction(f) + g[h + 1]
<1>1. IsFiniteSet(1..h) /\ IsFiniteSet(1..h + 1) BY FS_Interval
<1>2. DOMAIN f = 1..h /\ DOMAIN g = 1..h + 1 OBVIOUS
<1>3. h + 1 \in 1..h + 1 /\ (1..h + 1) \ {h + 1} = 1..h OBVIOUS
<1>4. \A k \in 1..h + 1 : g[k] \in Nat OBVIOUS
<1>5. SumFunctionOnSet(g, 1..h + 1) =
        g[h + 1] + SumFunctionOnSet(g, (1..h + 1) \ {h + 1})
  BY ONLY <1>1, <1>3, <1>4, SumRemove
<1>6. \A k \in 1..h : f[k] \in Nat /\ g[k] = f[k] OBVIOUS
<1>7. SumFunctionOnSet(g, 1..h) = SumFunctionOnSet(f, 1..h)
  BY ONLY <1>1, <1>6, SumSame
<1>8. SumFunctionOnSet(f, 1..h) \in Nat BY ONLY <1>1, <1>6, SumNat
<1>9. g[h + 1] \in Nat BY <1>3, <1>4
<1>10. SumFunction(g) = SumFunctionOnSet(g, 1..h + 1)
       /\ SumFunction(f) = SumFunctionOnSet(f, 1..h)
  BY <1>2 DEF SumFunction
<1>11. SumFunction(g) = g[h + 1] + SumFunction(f)
  BY ONLY <1>3, <1>5, <1>7, <1>10
<1>12. SumFunction(f) \in Nat BY ONLY <1>8, <1>10
<1> QED BY ONLY <1>9, <1>11, <1>12

\* g is a frame for a slice that ends where the top frame of st is.
Nests(st, g) ==
  /\ st # <<>> /\ IsFrame(g)
  /\ g.base >= st[Len(st)].base
  /\ g.base + g.l = st[Len(st)].base + st[Len(st)].iNdEx

\* A nested call adds the bytes of its slice to what is left.
LEMMA PushFrame ==
  ASSUME NEW n \in Nat, NEW st, Framed(st, n), NEW g, Nests(st, g)
  PROVE  LET t == Append(st, g)
         IN  /\ Framed(t, n) /\ Len(t) = Len(st) + 1 /\ t # <<>>
             /\ SumFunction(Left(t)) = SumFunction(Left(st)) + g.l - g.iNdEx
<1> DEFINE t == Append(st, g)
           h == Len(st)
<1>1. /\ h \in Nat /\ DOMAIN st = 1..h
      /\ Left(st) \in [1..h -> Nat] /\ SumFunction(Left(st)) \in Nat
  BY LeftOf
<1>2. st # <<>> /\ st \in Seq(Range(st)) BY DEF Framed, Nests
<1>3. h \in 1..h BY <1>1, <1>2
<1>4. /\ t \in Seq(Range(t)) /\ Len(t) = h + 1 /\ t[h + 1] = g
      /\ \A k \in 1..h : t[k] = st[k]
  <2> DEFINE R == Range(st) \cup {g}
  <2>1. st \in Seq(R) /\ g \in R BY <1>2
  <2> HIDE DEF R
  <2>2. /\ t \in Seq(R) /\ Len(t) = h + 1 /\ t[h + 1] = g
        /\ \A k \in 1..h : t[k] = st[k]
    BY <2>1, AppendProperties
  <2> HIDE DEF t, h
  <2> QED BY <2>2, SeqOfRange
<1> HIDE DEF t, h
<1>5. Len(t) = h + 1 /\ DOMAIN t = 1..h + 1 /\ t \in Seq(Range(t)) BY <1>4
<1>6. /\ IsFrame(g) /\ IsFrame(st[h])
      /\ g.base >= st[h].base /\ g.base + g.l = st[h].base + st[h].iNdEx
      /\ st[h].base + st[h].l <= n
  BY <1>3 DEF Nests, Framed, h
<1>7. Framed(t, n)
  <2> SUFFICES ASSUME NEW k \in 1..h + 1
               PROVE  /\ IsFrame(t[k])
                      /\ t[k].base + t[k].l <= n
                      /\ k > 1 => /\ t[k].base >= t[k - 1].base
                                  /\ t[k].base + t[k].l = t[k - 1].base + t[k - 1].iNdEx
    BY <1>5 DEF Framed
  <2>1. CASE k = h + 1
    <3>1. t[k] = g /\ t[k - 1] = st[h] BY <1>1, <1>3, <1>4, <2>1
    <3>2. g.base + g.l <= n BY <1>6 DEF IsFrame
    <3> QED BY <1>6, <3>1, <3>2
  <2>2. CASE k # h + 1
    <3>1. k \in 1..h /\ h = Len(st) BY <1>1, <2>2 DEF h
    <3>2. t[k] = st[k] /\ (k > 1 => t[k - 1] = st[k - 1]) BY <1>1, <1>4, <3>1
    <3> QED BY <3>1, <3>2 DEF Framed
  <2> QED BY <2>1, <2>2
<1>8. Left(t) \in [1..h + 1 -> Nat] BY <1>5, <1>7, LeftOf
<1>9. ASSUME NEW k \in 1..h PROVE Left(t)[k] = Left(st)[k]
  <2>1. k \in DOMAIN t /\ k \in DOMAIN st /\ t[k] = st[k] BY <1>1, <1>4, <1>5
  <2> QED BY <2>1 DEF Left
<1>10. SumFunction(Left(t)) = SumFunction(Left(st)) + Left(t)[h + 1]
  BY ONLY <1>1, <1>8, <1>9, SumExtend
<1>11. Left(t)[h + 1] = g.l - g.iNdEx BY <1>1, <1>4, <1>5 DEF Left
<1>12. SumFunction(Left(t)) = SumFunction(Left(st)) + g.l - g.iNdEx
  BY <1>1, <1>6, <1>10, <1>11 DEF IsFrame
<1>13. t # <<>> BY <1>1, <1>5
<1> QED BY <1>5, <1>7, <1>12, <1>13 DEF t, h

\* A nested call that returns takes what is left of its slice with it.
LEMMA PopFrame ==
  ASSUME NEW n, NEW st, Framed(st, n), Len(st) > 1
  PROVE  LET t == SubSeq(st, 1, Len(st) - 1)
         IN  /\ Framed(t, n) /\ Len(t) = Len(st) - 1 /\ t # <<>>
             /\ SumFunction(Left(st)) =
                  SumFunction(Left(t)) + st[Len(st)].l - st[Len(st)].iNdEx
<1> DEFINE t == SubSeq(st, 1, Len(st) - 1)
           h == Len(st) - 1
<1>1. /\ h + 1 \in Nat /\ DOMAIN st = 1..h + 1 /\ Len(st) = h + 1
      /\ Left(st) \in [1..h + 1 -> Nat]
  BY LeftOf
<1>2. h \in Nat \ {0} BY <1>1
<1>3. st \in Seq(Range(st)) BY DEF Framed
<1>4. t = [ k \in 1..h |-> t[k] ] /\ \A k \in 1..h : t[k] = st[k]
  BY <1>2, <1>3
<1> HIDE DEF t, h
<1>5. t \in Seq(Range(t)) /\ Len(t) = h BY <1>2, <1>4, SequenceOf
<1>6. Framed(t, n)
  <2> SUFFICES ASSUME NEW k \in 1..h
               PROVE  /\ IsFrame(t[k])
                      /\ t[k].base + t[k].l <= n
                      /\ k > 1 => /\ t[k].base >= t[k - 1].base
                                  /\ t[k].base + t[k].l = t[k - 1].base + t[k - 1].iNdEx
    BY <1>5 DEF Framed
  <2>1. k \in 1..Len(st) BY <1>1, <1>2
  <2>2. t[k] = st[k] /\ (k > 1 => t[k - 1] = st[k - 1]) BY <1>2, <1>4
  <2> QED BY <2>1, <2>2 DEF Framed
<1>7. Left(t) \in [1..h -> Nat] /\ SumFunction(Left(t)) \in Nat
  BY <1>5, <1>6, LeftOf
<1>8. \A k \in 1..h : Left(st)[k] = Left(t)[k]
  BY <1>1, <1>2, <1>4, <1>5 DEF Left
<1>9. SumFunction(Left(st)) = SumFunction(Left(t)) + Left(st)[h + 1]
  BY ONLY <1>1, <1>2, <1>7, <1>8, SumExtend
<1>10. IsFrame(st[h + 1]) /\ Left(st)[h + 1] = st[h + 1].l - st[h + 1].iNdEx
  <2>1. h + 1 \in 1..Len(st) BY <1>1, <1>2
  <2> QED BY <1>1, <2>1 DEF Left, Framed
<1>11. SumFunction(Left(st)) = SumFunction(Left(t)) + st[Len(st)].l - st[Len(st)].iNdEx
  BY <1>1, <1>7, <1>9, <1>10 DEF IsFrame
<1>12. t # <<>> BY <1>2, <1>5
<1> QED BY <1>5, <1>6, <1>11, <1>12 DEF t, h

\* A frame with a field set and iNdEx moved.
Updated(g, n, v, j) == [ g EXCEPT !.m[n] = v, !.iNdEx = j ]

\* It is a frame of the same slice if iNdEx is in the slice.
LEMMA FrameUpdated ==
  ASSUME NEW g, IsFrame(g), NEW n, NEW v, NEW j \in 0..g.l
  PROVE  /\ IsFrame(Updated(g, n, v, j))
         /\ Updated(g, n, v, j).base = g.base /\ Updated(g, n, v, j).l = g.l
         /\ Updated(g, n, v, j).iNdEx = j
<1> DEFINE a == Updated(g, n, v, j)
           N == {"type", "base", "l", "iNdEx", "m", "into"}
<1>1. g = [ x \in N |-> g[x] ] /\ g.base \in Nat /\ g.l \in Nat BY DEF IsFrame
<1>2. a = [ x \in N |-> a[x] ] /\ a.base = g.base /\ a.l = g.l /\ a.iNdEx = j
  BY <1>1 DEF Updated
<1> HIDE DEF a
<1>3. IsFrame(a) BY <1>1, <1>2 DEF IsFrame
<1> QED BY <1>2, <1>3 DEF a

\* The same without a field set.
LEMMA FrameMoved ==
  ASSUME NEW g, IsFrame(g), NEW j \in 0..g.l
  PROVE  LET f == [ g EXCEPT !.iNdEx = j ]
         IN  IsFrame(f) /\ f.base = g.base /\ f.l = g.l /\ f.iNdEx = j
<1> DEFINE a == [ g EXCEPT !.iNdEx = j ]
           N == {"type", "base", "l", "iNdEx", "m", "into"}
<1>1. g = [ x \in N |-> g[x] ] /\ g.base \in Nat /\ g.l \in Nat BY DEF IsFrame
<1>2. a = [ x \in N |-> a[x] ] /\ a.base = g.base /\ a.l = g.l /\ a.iNdEx = j BY <1>1
<1> HIDE DEF a
<1>3. IsFrame(a) BY <1>1, <1>2 DEF IsFrame
<1> QED BY <1>2, <1>3 DEF a

\* The same with only a field set.
FieldSet(g, n, v) == [ g EXCEPT !.m[n] = v ]

LEMMA FrameSet ==
  ASSUME NEW g, IsFrame(g), NEW n, NEW v
  PROVE  /\ IsFrame(FieldSet(g, n, v))
         /\ FieldSet(g, n, v).base = g.base /\ FieldSet(g, n, v).l = g.l
         /\ FieldSet(g, n, v).iNdEx = g.iNdEx
<1> DEFINE a == FieldSet(g, n, v)
           N == {"type", "base", "l", "iNdEx", "m", "into"}
<1>1. g = [ x \in N |-> g[x] ] /\ g.base \in Nat /\ g.l \in Nat /\ g.iNdEx \in 0..g.l
  BY DEF IsFrame
<1>2. a = [ x \in N |-> a[x] ] /\ a.base = g.base /\ a.l = g.l /\ a.iNdEx = g.iNdEx
  BY <1>1 DEF FieldSet
<1> HIDE DEF a
<1>3. IsFrame(a) BY <1>1, <1>2 DEF IsFrame
<1> QED BY <1>2, <1>3 DEF a

-----------------------------------------------------------------------------
(* Steps.                                                                  *)

LessToDo ==
  \/ Work' \in 0..Work - 1
  \/ Work' = Work /\ 0 < SkipWork /\ SkipWork' < SkipWork

Credit(sk) == IF sk = NoSkip THEN 1 ELSE 0

\* What Work is made of: it decreases if that does.
LEMMA WorkOf ==
  ASSUME IInv, IInv'
  PROVE  /\ SumFunction(Left(stack)) \in Nat /\ SumFunction(Left(stack')) \in Nat
         /\ Len(stack) \in Nat /\ Len(stack') \in Nat
         /\ Credit(skip) \in 0..1 /\ Credit(skip') \in 0..1
         /\ 2 * SumFunction(Left(stack')) + Len(stack') + Credit(skip')
              < 2 * SumFunction(Left(stack)) + Len(stack) + Credit(skip) => LessToDo
<1> DEFINE b == SumFunction(Left(stack))
           c == SumFunction(Left(stack'))
           e == Credit(skip)
           d == Credit(skip')
           x == Work
           y == Work'
<1>1. Len(stack) \in Nat /\ b \in Nat BY LeftOf DEF IInv
<1>2. Len(stack') \in Nat /\ c \in Nat BY LeftOf DEF IInv
<1>3. e \in 0..1 /\ d \in 0..1 BY DEF Credit
<1>4. x = 2 * b + Len(stack) + e /\ y = 2 * c + Len(stack') + d
  BY DEF Work, BytesLeft, Left, Credit, NoSkip
<1>5. ASSUME 2 * c + Len(stack') + d < 2 * b + Len(stack) + e PROVE LessToDo
  <2> HIDE DEF b, c, d, e, x, y
  <2>1. y \in 0..x - 1 BY ONLY <1>1, <1>2, <1>3, <1>4, <1>5
  <2> QED BY <2>1 DEF x, y, LessToDo
<1> QED BY <1>1, <1>2, <1>3, <1>5

\* The call ends with an error.
LEMMA FailKeeps ==
  ASSUME IInv, NEW err, err \notin {"panic", "running"}, Fail(err)
  PROVE  IInv' /\ result' # "running"
<1>1. result' = err /\ dAtA' = dAtA /\ stack' = stack /\ skip' = skip BY DEF Fail
<1> QED BY <1>1 DEF IInv, InputOK, SkipOK, Top

\* The top frame moves on.
Moves(f) ==
  /\ Advances(stack, f) /\ f.iNdEx > Top.iNdEx
  /\ stack' = SetTop(f) /\ skip' = NoSkip
  /\ UNCHANGED <<dAtA, result>>

LEMMA MoveKeeps ==
  ASSUME IInv, NEW f, Moves(f) PROVE IInv' /\ LessToDo
<1>1. /\ Framed(stack, Len(dAtA)) /\ Advances(stack, f) /\ f.iNdEx > Top.iNdEx
      /\ stack' = [ stack EXCEPT ![Len(stack)] = f ] /\ skip' = NoSkip
      /\ dAtA' = dAtA /\ result' = result
  BY DEF IInv, Moves, SetTop
<1>2. /\ Framed(stack', Len(dAtA)) /\ Len(stack') = Len(stack)
      /\ SumFunction(Left(stack')) = SumFunction(Left(stack)) + Top.iNdEx - f.iNdEx
  BY <1>1, AdvanceTop DEF Top
<1>3. IInv' BY <1>1, <1>2 DEF IInv, InputOK, SkipOK
<1>4. Top.iNdEx \in Int /\ f.iNdEx \in Int BY <1>1, TopOf DEF Advances, IsFrame
<1> DEFINE b == SumFunction(Left(stack))
           c == SumFunction(Left(stack'))
           e == Credit(skip)
           d == Credit(skip')
<1>5. /\ b \in Nat /\ c \in Nat /\ Len(stack) \in Nat /\ Len(stack') \in Nat
      /\ e \in 0..1 /\ d \in 0..1
      /\ 2 * c + Len(stack') + d < 2 * b + Len(stack) + e => LessToDo
  BY <1>3, WorkOf
<1>6. c = b + Top.iNdEx - f.iNdEx BY <1>2
<1> HIDE DEF b, c, d, e
<1>7. c < b BY ONLY <1>1, <1>4, <1>5, <1>6
<1>8. 2 * c + Len(stack') + d < 2 * b + Len(stack) + e BY ONLY <1>2, <1>5, <1>7
<1> QED BY <1>3, <1>5, <1>8

Keeps == IInv' /\ (result' # "running" \/ LessToDo)

\* Errors are not the panic of an index out of range.
LEMMA RejectKeeps ==
  ASSUME IInv, stack # <<>>, RejectTag \/ RejectWireType \/ RejectLength \/ RejectSkip
  PROVE  Keeps
<1>1. CASE RejectTag
  <2>1. Fail(TagErr) BY <1>1 DEF RejectTag
  <2> QED BY <2>1, TagOf, FailKeeps DEF Keeps
<1>2. CASE RejectWireType
  <2>1. Fail("WrongWireType") BY <1>2 DEF RejectWireType
  <2> QED BY <2>1, FailKeeps DEF Keeps
<1>3. CASE RejectLength
  <2>1. Fail(LengthErr) /\ TagErr = "none" BY <1>3 DEF RejectLength, Accepted
  <2> QED BY <2>1, LengthOf, FailKeeps DEF Keeps
<1>4. CASE RejectSkip
  <2>1. Fail(SkipElement.err) /\ skip # NoSkip BY <1>4 DEF RejectSkip
  <2> QED BY <2>1, SkipElementOf, FailKeeps DEF Keeps
<1> QED BY <1>1, <1>2, <1>3, <1>4

\* A number is read from behind its tag.
LEMMA Uint64Keeps ==
  ASSUME IInv, stack # <<>>, UnmarshalUint64
  PROVE  Keeps
<1>1. TagErr = "none" /\ skip = NoSkip BY DEF UnmarshalUint64, Accepted, InField
<1>2. CASE Length.err # "none"
  <2>1. Fail(Length.err) BY <1>2 DEF UnmarshalUint64
  <2> QED BY <1>1, <2>1, LengthOf, FailKeeps DEF Keeps
<1>3. CASE Length.err = "none"
  <2> DEFINE f == Updated(Top, Case.name, NumberOf(Case.kind, Length.v), Length.iNdEx)
  <2>1. stack' = SetTop(f) /\ dAtA' = dAtA /\ skip' = skip /\ result' = result
    BY <1>3 DEF UnmarshalUint64, Updated
  <2>2. IsFrame(Top) BY TopOf
  <2>3. Length.iNdEx \in Top.iNdEx + 2..Top.l BY <1>1, <1>3, LengthOf
  <2>4. Length.iNdEx \in 0..Top.l /\ Length.iNdEx > Top.iNdEx
    BY <2>2, <2>3 DEF IsFrame
  <2>5. IsFrame(f) /\ f.base = Top.base /\ f.l = Top.l /\ f.iNdEx = Length.iNdEx
    BY <2>2, <2>4, FrameUpdated
  <2> HIDE DEF f
  <2>6. Moves(f) BY <1>1, <2>1, <2>4, <2>5 DEF Moves, Advances, Top
  <2> QED BY <2>6, MoveKeeps DEF Keeps
<1> QED BY <1>2, <1>3

\* A string's slice is one of the input.
LEMMA StringKeeps ==
  ASSUME IInv, stack # <<>>, UnmarshalString
  PROVE  Keeps
<1>1. TagErr = "none" /\ LengthErr = "none" /\ skip = NoSkip
  BY DEF UnmarshalString, Accepted, InField
<1>2. IsFrame(Top) BY TopOf
<1>3. Length.iNdEx \in Top.iNdEx + 2..Top.l /\ postIndex \in Length.iNdEx..Top.l
  BY <1>1, LengthOf
<1>4. /\ postIndex \in 0..Top.l /\ postIndex > Top.iNdEx
      /\ Fits(Top, Length.iNdEx, postIndex)
  BY <1>2, <1>3 DEF IsFrame, Fits
<1>5. \/ Fail("NotAnInteger")
      \/ \E v : /\ stack' = SetTop([ Top EXCEPT !.m[Case.name] = v, !.iNdEx = postIndex ])
                /\ UNCHANGED <<dAtA, skip, result>>
  BY <1>4 DEF UnmarshalString
<1>6. CASE Fail("NotAnInteger") BY <1>6, FailKeeps DEF Keeps
<1>7. ASSUME NEW v,
             stack' = SetTop([ Top EXCEPT !.m[Case.name] = v, !.iNdEx = postIndex ]),
             UNCHANGED <<dAtA, skip, result>>
      PROVE  Keeps
  <2> DEFINE f == Updated(Top, Case.name, v, postIndex)
  <2>1. stack' = SetTop(f) /\ dAtA' = dAtA /\ skip' = skip /\ result' = result
    BY <1>7 DEF Updated
  <2>2. IsFrame(f) /\ f.base = Top.base /\ f.l = Top.l /\ f.iNdEx = postIndex
    BY <1>2, <1>4, FrameUpdated
  <2> HIDE DEF f
  <2>3. Moves(f) BY <1>1, <1>4, <2>1, <2>2 DEF Moves, Advances, Top
  <2> QED BY <2>3, MoveKeeps DEF Keeps
<1> QED BY <1>5, <1>6, <1>7

\* A nested call: its slice is shorter than the caller's by its header.
LEMMA CallKeeps ==
  ASSUME IInv, stack # <<>>, CallUnmarshal
  PROVE  Keeps
<1>1. TagErr = "none" /\ LengthErr = "none" /\ skip = NoSkip
  BY DEF CallUnmarshal, Accepted, InField
<1>2. IsFrame(Top) BY TopOf
<1>3. Length.iNdEx \in Top.iNdEx + 2..Top.l /\ postIndex \in Length.iNdEx..Top.l
  BY <1>1, LengthOf
<1>4. /\ postIndex \in 0..Top.l
      /\ Fits(Top, Length.iNdEx, postIndex)
  BY <1>2, <1>3 DEF IsFrame, Fits
<1> DEFINE f == [ Top EXCEPT !.iNdEx = postIndex ]
           g == Frame(Case.of, Top.base + Length.iNdEx, postIndex - Length.iNdEx,
                      Into(Case), Case.name)
           t == [ stack EXCEPT ![Len(stack)] = f ]
<1>5. stack' = Append(t, g) /\ dAtA' = dAtA /\ skip' = skip /\ result' = result
  BY <1>4 DEF CallUnmarshal, SetTop
<1>6. IsFrame(f) /\ f.base = Top.base /\ f.l = Top.l /\ f.iNdEx = postIndex
  BY <1>2, <1>4, FrameMoved
<1>7. /\ g.base = Top.base + Length.iNdEx /\ g.l = postIndex - Length.iNdEx
      /\ g.iNdEx = 0
      /\ g = [ x \in {"type", "base", "l", "iNdEx", "m", "into"} |-> g[x] ]
  BY DEF Frame
<1> HIDE DEF f, g
<1>8. IsFrame(g) BY <1>2, <1>3, <1>7 DEF IsFrame
<1>9. Framed(stack, Len(dAtA)) /\ Advances(stack, f)
  BY <1>6 DEF IInv, Advances, Top
<1>10. /\ Framed(t, Len(dAtA)) /\ Len(t) = Len(stack) /\ t # <<>> /\ t[Len(t)] = f
       /\ SumFunction(Left(t)) = SumFunction(Left(stack)) + Top.iNdEx - postIndex
  BY <1>6, <1>9, AdvanceTop DEF Top
<1> HIDE DEF t
<1>11. Nests(t, g)
  <2>1. /\ Top.base \in Nat /\ Top.iNdEx \in Nat /\ Length.iNdEx \in Nat
        /\ postIndex \in Nat
    BY <1>2, <1>3, <1>4 DEF IsFrame
  <2>2. t[Len(t)].base = Top.base /\ t[Len(t)].iNdEx = postIndex BY <1>6, <1>10
  <2>3. g.base >= Top.base /\ g.base + g.l = Top.base + postIndex BY <1>7, <2>1
  <2> QED BY <1>8, <1>10, <2>2, <2>3 DEF Nests
<1>12. Len(dAtA) \in Nat BY DEF IInv, InputOK, Inputs
<1>13. /\ Framed(stack', Len(dAtA)) /\ Len(stack') = Len(t) + 1 /\ stack' # <<>>
       /\ SumFunction(Left(stack')) = SumFunction(Left(t)) + g.l - g.iNdEx
  BY <1>5, <1>10, <1>11, <1>12, PushFrame
<1>14. IInv' BY <1>1, <1>5, <1>13 DEF IInv, InputOK, SkipOK, NoSkip
<1> DEFINE b == SumFunction(Left(stack))
           c == SumFunction(Left(stack'))
           e == Credit(skip)
           d == Credit(skip')
<1>15. /\ b \in Nat /\ c \in Nat /\ Len(stack) \in Nat /\ Len(stack') \in Nat
       /\ 2 * c + Len(stack') + d < 2 * b + Len(stack) + e => LessToDo
       /\ e \in 0..1 /\ d = e
  BY <1>5, <1>14, WorkOf
<1>16. c = b + Top.iNdEx - postIndex + (postIndex - Length.iNdEx) - 0
  BY <1>7, <1>10, <1>13
<1> HIDE DEF b, c, d, e
<1>17. Top.iNdEx \in Nat /\ Top.l \in Nat BY <1>2 DEF IsFrame
<1>18. c <= b - 2
  <2>1. postIndex \in Int /\ Length.iNdEx \in Int /\ Length.iNdEx >= Top.iNdEx + 2
    BY <1>3, <1>17
  <2>2. b \in Nat BY <1>15
  <2> QED BY ONLY <1>16, <1>17, <2>1, <2>2
<1>19. 2 * c + Len(stack') + d < 2 * b + Len(stack) + e
  BY ONLY <1>10, <1>13, <1>15, <1>18
<1> QED BY <1>14, <1>15, <1>19 DEF Keeps

\* The end of a call: nothing of its slice is left.
LEMMA ReturnKeeps ==
  ASSUME IInv, stack # <<>>, ReturnFromUnmarshal
  PROVE  Keeps
<1>1. /\ IsFrame(Top) /\ Len(stack) \in Nat \ {0} /\ stack \in Seq(Range(stack)) BY TopOf
<1>2. Top.iNdEx = Top.l /\ Top.l \in Nat /\ skip = NoSkip
  BY <1>1 DEF IsFrame, ReturnFromUnmarshal
<1>3. CASE Len(stack) = 1
  <2>1. Fail("ok") BY <1>2, <1>3 DEF ReturnFromUnmarshal, Fail
  <2> QED BY <2>1, FailKeeps DEF Keeps
<1>4. CASE Len(stack) # 1
  <2> DEFINE u == SubSeq(stack, 1, Len(stack) - 1)
             h == Len(stack) - 1
             caller == stack[Len(stack) - 1]
             v == IF FieldOf(caller.type, Top.into).kind = "messages"
                    THEN Append(caller.m[Top.into], Top.m) ELSE Top.m
  <2>1. /\ stack' = [ u EXCEPT ![h].m[Top.into] = v ]
        /\ dAtA' = dAtA /\ skip' = skip /\ result' = result
    <3>1. ~(Top.iNdEx > Top.l) BY <1>2
    <3> QED BY <1>4, <3>1 DEF ReturnFromUnmarshal
  <2> HIDE DEF v
  <2> DEFINE f == FieldSet(u[h], Top.into, v)
  <2>2. stack' = [ u EXCEPT ![h] = f ] BY <2>1 DEF FieldSet
  <2>3. Framed(stack, Len(dAtA)) /\ Len(stack) > 1
    <3>1. Len(stack) > 1 BY <1>1, <1>4
    <3> QED BY <3>1 DEF IInv
  <2>4. /\ Framed(u, Len(dAtA)) /\ Len(u) = h /\ u # <<>>
        /\ SumFunction(Left(stack)) = SumFunction(Left(u)) + Top.l - Top.iNdEx
    BY <2>3, PopFrame DEF Top
  <2> HIDE DEF u
  <2>5. h \in 1..h BY <1>1, <2>3
  <2>6. IsFrame(u[h]) BY <2>4, <2>5 DEF Framed
  <2>7. /\ IsFrame(f) /\ f.base = u[h].base /\ f.l = u[h].l
        /\ f.iNdEx = u[h].iNdEx /\ u[h].iNdEx \in Nat
    BY <2>6, FrameSet DEF IsFrame
  <2> HIDE DEF f
  <2>8. Advances(u, f) BY <2>4, <2>7 DEF Advances
  <2>9. /\ Framed(stack', Len(dAtA)) /\ Len(stack') = Len(u) /\ stack' # <<>>
        /\ SumFunction(Left(stack')) = SumFunction(Left(u)) + u[h].iNdEx - f.iNdEx
    <3>1. stack' = [ u EXCEPT ![Len(u)] = f ] /\ u[Len(u)] = u[h] BY <2>2, <2>4
    <3>2. Framed(u, Len(dAtA)) BY <2>4
    <3> DEFINE t == [ u EXCEPT ![Len(u)] = f ]
    <3>3. /\ Framed(t, Len(dAtA)) /\ Len(t) = Len(u) /\ t # <<>>
          /\ SumFunction(Left(t)) = SumFunction(Left(u)) + u[Len(u)].iNdEx - f.iNdEx
      BY ONLY <2>8, <3>2, AdvanceTop
    <3> HIDE DEF t, h
    <3>4. stack' = t BY <3>1 DEF t
    <3> QED BY <3>1, <3>3, <3>4
  <2>10. IInv' BY <1>2, <2>1, <2>9 DEF IInv, InputOK, SkipOK, NoSkip
  <2> DEFINE b == SumFunction(Left(stack))
             c == SumFunction(Left(stack'))
             a == SumFunction(Left(u))
             e == Credit(skip)
             d == Credit(skip')
  <2>11. /\ b \in Nat /\ c \in Nat /\ Len(stack) \in Nat /\ Len(stack') \in Nat
         /\ 2 * c + Len(stack') + d < 2 * b + Len(stack) + e => LessToDo
         /\ e \in 0..1 /\ d = e
    BY <2>1, <2>10, WorkOf
  <2>12. a \in Nat BY <2>4, LeftOf
  <2>13. b = a + Top.l - Top.iNdEx /\ c = a + u[h].iNdEx - f.iNdEx BY <2>4, <2>9
  <2>14. Len(stack') = Len(stack) - 1 BY <2>4, <2>9
  <2> HIDE DEF a, b, c, d, e
  <2>15. c = b BY ONLY <1>2, <2>7, <2>12, <2>13
  <2>16. 2 * c + Len(stack') + d < 2 * b + Len(stack) + e
    BY ONLY <2>11, <2>14, <2>15
  <2> QED BY <2>10, <2>11, <2>16 DEF Keeps
<1> QED BY <1>3, <1>4

\* skipTx begins where the tag does.
LEMMA CallSkipKeeps ==
  ASSUME IInv, stack # <<>>, CallSkip
  PROVE  Keeps
<1> DEFINE H == 2^(Width - 1)
           s == [ base |-> Top.base + Top.iNdEx, l |-> Top.l - Top.iNdEx,
                  iNdEx |-> 0, depth |-> 0 ]
<1>1. /\ skip' = s /\ skip = NoSkip
      /\ dAtA' = dAtA /\ stack' = stack /\ result' = result
  BY DEF CallSkip, InField
<1>2. IsFrame(Top) /\ Top' = Top BY <1>1, TopOf DEF Top
<1>3. H \in Nat /\ 8 <= H BY PowersAssumption
<1>4. 0 \in 0..H - 1
  <2> HIDE DEF H
  <2> QED BY <1>3
<1>5. s.base \in Nat /\ s.l \in Nat BY <1>2 DEF IsFrame
<1>6. s \in SkipRecords BY <1>4, <1>5 DEF SkipRecords
<1>7. s.base = Top.base + Top.iNdEx /\ s.l = Top.l - Top.iNdEx /\ s.depth = 0 OBVIOUS
<1> HIDE DEF s
<1>8. SkipOK' BY <1>1, <1>2, <1>6, <1>7 DEF SkipOK, SkipRecords
<1>9. IInv' BY <1>1, <1>8 DEF IInv, InputOK
<1>10. s # NoSkip BY <1>7 DEF NoSkip
<1>11. Credit(skip) = 1 /\ Credit(skip') = 0 BY <1>1, <1>10 DEF Credit
<1>12. 2 * SumFunction(Left(stack')) + Len(stack') + Credit(skip')
         < 2 * SumFunction(Left(stack)) + Len(stack) + Credit(skip)
  BY <1>1, <1>9, <1>11, WorkOf
<1> QED BY <1>9, <1>12, WorkOf DEF Keeps

\* Inside a group skipTx goes on behind the element.
LEMMA SkipInGroupKeeps ==
  ASSUME IInv, stack # <<>>, SkipInGroup
  PROVE  Keeps
<1> DEFINE H == 2^(Width - 1)
           j == SkipElement.iNdEx
           k == SkipElement.depth
           s == [ skip EXCEPT !.iNdEx = j, !.depth = k ]
<1>1. /\ skip # NoSkip /\ SkipElement.err = "none"
      /\ skip' = s /\ dAtA' = dAtA /\ stack' = stack /\ result' = result
  BY DEF SkipInGroup
<1>2. /\ skip \in SkipRecords
      /\ skip.base = Top.base + Top.iNdEx /\ skip.l = Top.l - Top.iNdEx
  BY <1>1 DEF IInv, SkipOK
<1>3. j \in skip.iNdEx + 1..H - 1 /\ k \in Nat BY <1>1, SkipElementOf
<1>4. H \in Nat /\ skip.iNdEx \in 0..H - 1 /\ skip.l \in Nat
  BY <1>2, PowersAssumption DEF SkipRecords
<1>5. j \in 0..H - 1 /\ j > skip.iNdEx
  <2> HIDE DEF H, j
  <2> QED BY <1>3, <1>4
<1> HIDE DEF j, k
<1>6. /\ s \in SkipRecords /\ s.base = skip.base /\ s.l = skip.l
      /\ s.iNdEx = j /\ s.depth = k
  BY <1>2, <1>3, <1>5 DEF SkipRecords
<1> HIDE DEF s, H
<1>7. Top' = Top BY <1>1 DEF Top
<1>8. SkipOK' BY <1>1, <1>2, <1>6, <1>7 DEF SkipOK, SkipRecords
<1>9. IInv' BY <1>1, <1>8 DEF IInv, InputOK
<1>10. s # NoSkip
  <2>1. s.depth # -1 BY <1>3, <1>6
  <2> QED BY <2>1 DEF NoSkip
<1>11. Work' = Work BY <1>1, <1>10 DEF Work, BytesLeft, NoSkip
<1>12. 0 < SkipWork /\ SkipWork' < SkipWork
  <2>1. SkipWork = skip.l - skip.iNdEx /\ SkipWork' = skip.l - j
    BY <1>1, <1>6 DEF SkipWork
  <2>2. j \in Int BY <1>5
  <2>3. skip.l - j < skip.l - skip.iNdEx BY <1>4, <1>5, <2>2
  <2>4. ~(skip.iNdEx >= skip.l) BY <1>1 DEF SkipElement, Element
  <2>5. 0 < skip.l - skip.iNdEx BY <1>4, <2>4
  <2> QED BY <2>1, <2>3, <2>5
<1> QED BY <1>9, <1>11, <1>12 DEF Keeps, LessToDo

\* skippy is added to iNdEx, unless it leads out of the slice.
LEMMA ReturnFromSkipKeeps ==
  ASSUME IInv, stack # <<>>, ReturnFromSkip
  PROVE  Keeps
<1> DEFINE H == 2^(Width - 1)
           next == Add(Top.iNdEx, SkipElement.iNdEx)
<1>1. skip # NoSkip /\ SkipElement.err = "none" BY DEF ReturnFromSkip
<1>2. SkipElement.iNdEx \in skip.iNdEx + 1..H - 1 BY <1>1, SkipElementOf
<1>3. H \in Nat /\ skip.iNdEx \in 0..H - 1
  BY <1>1, PowersAssumption DEF IInv, SkipOK, SkipRecords
<1>4. IsFrame(Top) /\ Top.l < H BY TopOf
<1>5. /\ Top.iNdEx \in 0..H - 1 /\ Top.l \in Nat
      /\ SkipElement.iNdEx \in 1..H - 1 /\ SkipElement.iNdEx \in 0..H
  <2> HIDE DEF H
  <2> QED BY <1>2, <1>3, <1>4 DEF IsFrame
<1>6. next \in Int /\ (next >= 0 => next = Top.iNdEx + SkipElement.iNdEx)
  BY <1>5, AddOf
<1>7. CASE next < 0
  <2>1. Fail("ErrInvalidLength") \/ Fail("ErrUnexpectedEOF") BY <1>5, <1>6, <1>7 DEF ReturnFromSkip
  <2> QED BY <2>1, FailKeeps DEF Keeps
<1>8. CASE next > Top.l
  <2>1. Fail("ErrInvalidLength") \/ Fail("ErrUnexpectedEOF") BY <1>5, <1>6, <1>8 DEF ReturnFromSkip
  <2> QED BY <2>1, FailKeeps DEF Keeps
<1>9. CASE ~(next < 0) /\ ~(next > Top.l)
  <2> DEFINE f == [ Top EXCEPT !.iNdEx = next ]
  <2>1. skip' = NoSkip /\ stack' = SetTop(f) /\ dAtA' = dAtA /\ result' = result
    BY <1>9 DEF ReturnFromSkip
  <2> HIDE DEF next, H
  <2>2. next \in 0..Top.l /\ next > Top.iNdEx BY <1>5, <1>6, <1>9
  <2>3. IsFrame(f) /\ f.base = Top.base /\ f.l = Top.l /\ f.iNdEx = next
    BY <1>4, <2>2, FrameMoved
  <2> HIDE DEF f
  <2>4. Moves(f) BY <2>1, <2>2, <2>3 DEF Moves, Advances, Top
  <2> QED BY <2>4, MoveKeeps DEF Keeps
<1> QED BY <1>7, <1>8, <1>9

\* Every step of a call keeps the invariant and leaves less to do.
LEMMA UnmarshalKeeps ==
  ASSUME IInv, stack # <<>>, UnmarshalNext
  PROVE  Keeps
BY RejectKeeps, Uint64Keeps, StringKeeps, CallKeeps, ReturnKeeps, CallSkipKeeps,
   SkipInGroupKeeps, ReturnFromSkipKeeps
   DEF UnmarshalNext

\* A call begins with one frame for all of its bytes.
LEMMA StartKeeps ==
  ASSUME NEW type, NEW bytes \in Inputs, UnmarshalStarts(type, bytes)
  PROVE  IInv'
<1> DEFINE g == Frame(type, 0, Len(bytes), Zero[type], "")
<1>1. dAtA' = bytes /\ stack' = <<g>> /\ skip' = NoSkip /\ result' = "running"
  BY DEF UnmarshalStarts
<1>2. bytes \in Seq(0..255) /\ Len(bytes) \in Nat BY DEF Inputs
<1>3. /\ g.base = 0 /\ g.l = Len(bytes) /\ g.iNdEx = 0
      /\ g = [ x \in {"type", "base", "l", "iNdEx", "m", "into"} |-> g[x] ]
  BY DEF Frame
<1> HIDE DEF g
<1>4. IsFrame(g) BY <1>2, <1>3 DEF IsFrame
<1>5. <<g>> \in Seq({g}) /\ Len(<<g>>) = 1 /\ <<g>>[1] = g OBVIOUS
<1>6. <<g>> \in Seq(Range(<<g>>)) BY <1>5, SeqOfRange
<1>7. \A k \in 1..1 : k = 1 OBVIOUS
<1>8. Framed(<<g>>, Len(bytes)) BY <1>2, <1>3, <1>4, <1>5, <1>6, <1>7 DEF Framed
<1> QED BY <1>1, <1>8 DEF IInv, InputOK, Inputs, SkipOK, NoSkip

\* Before the call there are no frames.
LEMMA DecodeInitOK == DecodeInit => IInv
<1> SUFFICES ASSUME DecodeInit PROVE IInv OBVIOUS
<1> DEFINE H == 2^(Width - 1)
<1>1. H \in Nat /\ 8 <= H BY PowersAssumption
<1>2. Len(<<>>) < H
  <2> HIDE DEF H
  <2> QED BY <1>1
<1>3. <<>> \in Inputs
  <2> HIDE DEF H
  <2>1. <<>> \in Seq(0..255) OBVIOUS
  <2> QED BY <1>2, <2>1 DEF Inputs, H
<1>4. <<>> \in Seq(Range(<<>>)) /\ Len(<<>>) = 0 BY SeqOfRange
<1>5. Framed(<<>>, Len(dAtA)) BY <1>4 DEF Framed
<1> QED BY <1>3, <1>5 DEF DecodeInit, IInv, InputOK, SkipOK

\* The invariant is inductive.
LEMMA DecodeNextOK == ASSUME IInv, [DecodeNext]_uVars PROVE IInv'
<1>1. CASE UNCHANGED uVars
  <2>1. dAtA' = dAtA /\ stack' = stack /\ skip' = skip /\ result' = result
    BY <1>1 DEF uVars
  <2> QED BY <2>1 DEF IInv, InputOK, SkipOK, Top
<1>2. CASE stack = <<>> /\ \E type \in Types, bytes \in Inputs : UnmarshalStarts(type, bytes)
  BY <1>2, StartKeeps
<1>3. CASE stack # <<>> /\ UnmarshalNext BY <1>3, UnmarshalKeeps DEF Keeps
<1> QED BY <1>1, <1>2, <1>3 DEF DecodeNext

\* The invariant says that every index and slice is inside the input.
LEMMA IInvInBounds == IInv => InBounds
<1> SUFFICES ASSUME IInv PROVE InBounds OBVIOUS
<1>1. DOMAIN stack = 1..Len(stack) /\ Framed(stack, Len(dAtA)) BY LeftOf DEF IInv
<1>2. ASSUME NEW k \in DOMAIN stack
      PROVE  /\ 0 <= stack[k].base /\ stack[k].base + stack[k].l <= Len(dAtA)
             /\ 0 <= stack[k].iNdEx /\ stack[k].iNdEx <= stack[k].l
             /\ k > 1 => /\ stack[k].base >= stack[k - 1].base
                         /\ stack[k].base + stack[k].l
                              = stack[k - 1].base + stack[k - 1].iNdEx
  BY <1>1 DEF Framed, IsFrame
<1> QED BY <1>2 DEF IInv, InBounds

-----------------------------------------------------------------------------
(* Theorems.                                                               *)

\* The generated Unmarshal functions never index or slice out of range, on
\* any bytes, whatever the width of int: lengths that overflow it, nested
\* messages, unknown fields and groups included.
THEOREM AlwaysInBounds == DecodeSpec => []InBounds
<1>1. DecodeInit => IInv BY DecodeInitOK
<1>2. IInv /\ [DecodeNext]_uVars => IInv' BY DecodeNextOK
<1>3. IInv => InBounds BY IInvInBounds
<1> QED BY <1>1, <1>2, <1>3, PTL DEF DecodeSpec

\* Every step of Unmarshal but the last leaves less to do, so the loops of
\* Unmarshal and of skipTx end on any bytes.
THEOREM AlwaysProgress == DecodeSpec => Progress
<1>1. DecodeInit => IInv BY DecodeInitOK
<1>2. IInv /\ [DecodeNext]_uVars => IInv' BY DecodeNextOK
<1>3. ASSUME IInv, [DecodeNext]_uVars
      PROVE  [ stack # <<>> =>
                 \/ result' # "running"
                 \/ Work' \in 0..Work - 1
                 \/ Work' = Work /\ 0 < SkipWork /\ SkipWork' < SkipWork ]_uVars
  BY <1>3, UnmarshalKeeps DEF DecodeNext, Keeps, LessToDo
<1> QED BY <1>1, <1>2, <1>3, PTL DEF DecodeSpec, Progress
=============================================================================
