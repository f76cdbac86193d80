---------------------- MODULE BeforeSendListenerProofs ----------------------
(***************************************************************************)
(* Theorems about BeforeSendListener, for any gas limits, any number of    *)
(* coins and transfers, and any depth of nested calls.                     *)
(***************************************************************************)
EXTENDS BeforeSendListener, SumTheorems, SequenceTheorems, TLAPS

\* A meter a listener runs on has paid for the transfer, and for the lookup as
\* well if it waits for a contract; and it is within its limit.
ListenerMetersPaid ==
  \A k \in 1..Len(frames) :
    /\ ~PastLimit(meters[k])
    /\ meters[k].used >= IF k < Len(meters) THEN 2 ELSE 1

\* Every level of contracts has two units of gas less than the one below.
LimitsShrink ==
  \A k \in 2..Len(meters) :
    /\ meters[k].limit \in Nat
    /\ meters[k].limit <= BeforeSendHookGasLimit - 2 * (k - 2)

\* A listener that waits for a contract has not visited its coin yet.
WaitingHasCoin ==
  \A k \in 1..Len(frames) : k < Len(meters) => frames[k].left > 0

IInv ==
  /\ TypeOK
  /\ ListenerMetersPaid
  /\ WaitingHasCoin
  /\ LimitsShrink
  /\ ModuleSendNotBlocked

USE GasAssumption

-----------------------------------------------------------------------------
(* Stacks: what replacing, pushing and popping the last element leaves.    *)

\* A stack without its top, and its top.
LEMMA FrontFacts ==
  ASSUME NEW S, NEW s \in Seq(S), s # <<>>
  PROVE  /\ Front(s) \in Seq(S) /\ Len(Front(s)) = Len(s) - 1
         /\ \A k \in 1..(Len(s) - 1) : Front(s)[k] = s[k]
         /\ Last(s) \in S /\ Len(s) \in Nat \ {0}
         /\ Append(Front(s), Last(s)) = s
<1>1. Len(s) \in Nat \ {0}
  OBVIOUS
<1>2. /\ Front(s) \in Seq(S) /\ Len(Front(s)) = Len(s) - 1
      /\ \A k \in 1..(Len(s) - 1) : Front(s)[k] = s[k]
  <2>1. \A k \in 1..(Len(s) - 1) : s[k] \in S
    BY <1>1
  <2> DEFINE n == Len(s) - 1
             t == SubSeq(s, 1, n)
  <2>2. n \in Nat
    BY <1>1
  <2> HIDE DEF n
  <2>3. /\ t \in Seq(S)
        /\ Len(t) = IF 1 <= n THEN n - 1 + 1 ELSE 0
        /\ \A k \in 1..(n - 1 + 1) : t[k] = s[1 + k - 1]
    <3>1. \A k \in 1..n : s[k] \in S
      BY <2>1 DEF n
    <3> QED
      BY <2>2, <3>1, SubSeqProperties
  <2> HIDE DEF t
  <2>4. Len(t) = n
    BY <2>2, <2>3
  <2>5. ASSUME NEW k \in 1..n PROVE t[k] = s[k]
    <3>1. k \in 1..(n - 1 + 1) /\ 1 + k - 1 = k
      BY <2>2
    <3> QED
      BY <2>3, <3>1
  <2> QED
    BY <2>3, <2>4, <2>5 DEF Front, t, n
<1>3. Last(s) \in S /\ Last(s) = s[Len(s)]
  BY <1>1 DEF Last
<1> DEFINE t == Append(Front(s), Last(s))
<1>4. /\ t \in Seq(S) /\ Len(t) = Len(s) /\ t[Len(s)] = s[Len(s)]
      /\ \A k \in 1..(Len(s) - 1) : t[k] = s[k]
  BY <1>1, <1>2, <1>3
<1> HIDE DEF t
<1>5. ASSUME NEW k \in 1..Len(s) PROVE t[k] = s[k]
  BY <1>1, <1>4
<1>6. t = s
  BY <1>1, <1>4, <1>5
<1> QED
  BY <1>1, <1>2, <1>3, <1>6 DEF t

\* The top is replaced.
LEMMA ReplaceLast ==
  ASSUME NEW S, NEW s \in Seq(S), s # <<>>, NEW e \in S
  PROVE  LET t == Append(Front(s), e)
         IN  /\ t \in Seq(S) /\ Len(t) = Len(s) /\ t[Len(s)] = e
             /\ \A k \in 1..(Len(s) - 1) : t[k] = s[k]
BY FrontFacts

\* The top is replaced and another element put on it.
LEMMA ReplaceAndPush ==
  ASSUME NEW S, NEW s \in Seq(S), s # <<>>, NEW d \in S, NEW e \in S
  PROVE  LET t == Front(s) \o <<d, e>>
         IN  /\ t \in Seq(S) /\ Len(t) = Len(s) + 1
             /\ t[Len(s)] = d /\ t[Len(s) + 1] = e
             /\ \A k \in 1..(Len(s) - 1) : t[k] = s[k]
             /\ t = Append(Append(Front(s), d), e)
<1> DEFINE f == Front(s)
<1>1. f \in Seq(S) /\ Len(f) = Len(s) - 1 /\ Len(s) \in Nat \ {0}
      /\ \A k \in 1..(Len(s) - 1) : f[k] = s[k]
  BY FrontFacts
<1> HIDE DEF f
<1>2. <<d, e>> \in Seq(S) /\ Len(<<d, e>>) = 2
  OBVIOUS
<1> DEFINE t == f \o <<d, e>>
           u == Append(Append(f, d), e)
<1>3. t = u
  <2>1. <<d>> \in Seq(S) /\ <<e>> \in Seq(S)
    OBVIOUS
  <2>2. u = (f \o <<d>>) \o <<e>>
    BY <1>1, <2>1, AppendIsConcat, ConcatProperties
  <2>3. <<d>> \o <<e>> = <<d, e>>
    <3>1. Append(<<d>>, e) = <<d, e>>
      <4> DEFINE v == Append(<<d>>, e)
                 p == <<d, e>>
      <4>1. v \in Seq(S) /\ Len(v) = 2 /\ v[1] = d /\ v[2] = e
        BY <2>1, AppendProperties
      <4>2. p \in Seq(S) /\ Len(p) = 2 /\ p[1] = d /\ p[2] = e
        OBVIOUS
      <4> HIDE DEF v, p
      <4>3. \A k \in 1..2 : v[k] = p[k]
        BY <4>1, <4>2
      <4>4. v = p
        BY <4>1, <4>2, <4>3, SeqEqual
      <4> QED
        BY <4>4 DEF v, p
    <3>2. Append(<<d>>, e) = <<d>> \o <<e>>
      BY <2>1, AppendIsConcat
    <3> QED
      BY <3>1, <3>2
  <2> QED
    BY <1>1, <2>1, <2>2, <2>3, ConcatAssociative
<1>4. u \in Seq(S) /\ Len(u) = Len(s) + 1
  BY <1>1
<1>5. /\ u[Len(s)] = d /\ u[Len(s) + 1] = e
      /\ \A k \in 1..(Len(s) - 1) : u[k] = s[k]
  BY <1>1
<1> QED
  BY <1>3, <1>4, <1>5 DEF f

\* The top is taken off and the element below it replaced.
LEMMA PopAndReplace ==
  ASSUME NEW S, NEW s \in Seq(S), Len(s) >= 2, NEW e \in S
  PROVE  LET t == Append(Front(Front(s)), e)
         IN  /\ t \in Seq(S) /\ Len(t) = Len(s) - 1 /\ t[Len(s) - 1] = e
             /\ \A k \in 1..(Len(s) - 2) : t[k] = s[k]
<1> DEFINE f == Front(s)
<1>1. /\ f \in Seq(S) /\ Len(f) = Len(s) - 1 /\ Len(s) \in Nat
      /\ \A k \in 1..(Len(s) - 1) : f[k] = s[k]
  <2>1. s # <<>>
    OBVIOUS
  <2>2. Len(s) \in Nat
    OBVIOUS
  <2> QED
    BY ONLY <2>1, <2>2, s \in Seq(S), FrontFacts
<1>2. f # <<>>
  BY <1>1
<1> HIDE DEF f
<1> QED
  BY <1>1, <1>2, ReplaceLast DEF f

-----------------------------------------------------------------------------
(* Meters.                                                                 *)

\* Consuming gas keeps the limit of a meter.
LEMMA ConsumeFacts ==
  ASSUME NEW m \in Meters, NEW gas \in Nat
  PROVE  /\ Consume(m, gas) \in Meters
         /\ Consume(m, gas).limit = m.limit
         /\ Consume(m, gas).used = m.used + gas
BY DEF Consume, Meters

\* A contract gets what its caller has left, and no more than the fixed limit.
LEMMA ChildLimitFacts ==
  ASSUME NEW m \in Meters, ~PastLimit(m)
  PROVE  /\ childLimit(m) \in Nat
         /\ childLimit(m) <= BeforeSendHookGasLimit
         /\ m.limit # NoLimit => childLimit(m) <= m.limit - m.used
BY DEF childLimit, PastLimit, Meters

\* PastLimit is a condition on the meter.
LEMMA PastLimitBoolean == ASSUME NEW m PROVE PastLimit(m) \in BOOLEAN
BY Zenon DEF PastLimit

-----------------------------------------------------------------------------
(* The inductive invariant.                                                *)

\* A transaction starts with one meter and no listener.
LEMMA FreshIInv ==
  ASSUME NEW limit \in TxGasLimits, frames = <<>>,
         meters = <<[limit |-> limit, used |-> 0]>>, transfers = MaxTransfers,
         aborted = FALSE, burned = 0, last = NotReturned
  PROVE  IInv
<1>1. [limit |-> limit, used |-> 0] \in Meters
  BY DEF Meters
<1>2. meters \in Seq(Meters) /\ Len(meters) = 1
  BY <1>1
<1>3. frames \in Seq(Frames) /\ Len(frames) = 0
  OBVIOUS
<1>4. last \in Returns
  BY Zenon DEF NotReturned, Returns
<1>5. aborted \in BOOLEAN
  BY Zenon
<1>6. ModuleSendNotBlocked
  BY Zenon DEF NotReturned, ModuleSendNotBlocked
<1>7. TypeOK
  BY <1>2, <1>3, <1>4, <1>5 DEF TypeOK, InCode
<1>8. ListenerMetersPaid /\ LimitsShrink /\ WaitingHasCoin
  BY <1>2, <1>3 DEF ListenerMetersPaid, LimitsShrink, WaitingHasCoin
<1> QED
  BY <1>6, <1>7, <1>8 DEF IInv

\* Returning takes the listener off its stack; an error reaches a module account
\* only from a meter past its limit.
LEMMA ReturnFacts ==
  ASSUME IInv, frames # <<>>, NEW err \in BOOLEAN, NEW m, ReturnToBank(err, m),
         err /\ Listener.fromModule => PastLimit(m)
  PROVE  /\ frames' \in Seq(Frames) /\ Len(frames') = Len(frames) - 1
         /\ \A k \in 1..(Len(frames) - 1) : frames'[k] = frames[k]
         /\ last' \in Returns /\ aborted' \in BOOLEAN
         /\ ModuleSendNotBlocked'
<1>1. frames \in Seq(Frames)
  BY DEF IInv, TypeOK
<1>2. frames' = Front(frames)
  BY DEF ReturnToBank
<1>3. /\ frames' \in Seq(Frames) /\ Len(frames') = Len(frames) - 1
      /\ \A k \in 1..(Len(frames) - 1) : frames'[k] = frames[k]
  BY <1>1, <1>2, FrontFacts
<1>4. Listener \in Frames
  BY <1>1, FrontFacts DEF Listener
<1>5. Listener.fromModule \in BOOLEAN
  BY <1>4, Zenon DEF Frames
<1>6. last' = [ err |-> err, fromModule |-> Listener.fromModule,
                exhausted |-> PastLimit(m) ]
  BY DEF ReturnToBank
<1>7. last' \in Returns
  BY <1>5, <1>6, PastLimitBoolean, Zenon DEF Returns
<1>8. ModuleSendNotBlocked'
  BY <1>6, Zenon DEF ModuleSendNotBlocked
<1>9. aborted' \in BOOLEAN
  BY Zenon DEF ReturnToBank
<1> QED
  BY <1>3, <1>7, <1>8, <1>9

\* Listeners below the innermost keep waiting for their contracts.
LEMMA StillWaiting ==
  ASSUME IInv, Len(frames') \in {Len(frames) - 1, Len(frames)},
         Len(meters') <= Len(frames), Len(meters') <= Len(meters), frames # <<>>,
         Len(meters') \in Nat,
         \A k \in 1..(Len(frames) - 1) : frames'[k] = frames[k]
  PROVE  WaitingHasCoin'
<1>1. Len(frames) \in Nat /\ Len(meters) \in Nat
  BY DEF IInv, TypeOK
<1>2. ASSUME NEW k \in 1..Len(frames'), k < Len(meters') PROVE frames'[k].left > 0
  <2>1. k \in 1..(Len(frames) - 1) /\ k \in 1..Len(frames) /\ k < Len(meters)
    BY <1>1, <1>2
  <2>2. frames[k].left > 0
    BY <2>1 DEF IInv, WaitingHasCoin
  <2> QED
    BY <2>1, <2>2
<1> QED
  BY <1>2 DEF WaitingHasCoin

\* The meter the running code or listener is on.
LEMMA MeterFacts ==
  ASSUME IInv
  PROVE  /\ meters \in Seq(Meters) /\ meters # <<>>
         /\ Len(meters) \in Nat \ {0} /\ Len(frames) \in Nat
         /\ Meter = meters[Len(meters)] /\ Meter \in Meters
<1>1. meters \in Seq(Meters) /\ frames \in Seq(Frames) /\ (InListener \/ InCode)
  BY DEF IInv, TypeOK
<1>2. Len(frames) \in Nat /\ (frames # <<>> => Len(frames) > 0)
  BY <1>1
<1>3. Len(meters) > 0
  BY <1>1, <1>2 DEF InListener, InCode
<1>4. meters # <<>>
  BY <1>3
<1> QED
  BY <1>1, <1>2, <1>4, FrontFacts DEF Meter, Last

\* The running meter is charged one unit.
LEMMA ChargedFacts ==
  ASSUME IInv, NEW ms, ms = Append(Front(meters), Consume(Meter, 1))
  PROVE  /\ ms \in Seq(Meters) /\ Len(ms) = Len(meters)
         /\ \A k \in 1..(Len(meters) - 1) : ms[k] = meters[k]
         /\ ms[Len(meters)] = Consume(Meter, 1)
         /\ ms[Len(meters)].limit = meters[Len(meters)].limit
         /\ ms[Len(meters)].used = meters[Len(meters)].used + 1
<1>1. /\ Consume(Meter, 1) \in Meters
      /\ Consume(Meter, 1).limit = Meter.limit
      /\ Consume(Meter, 1).used = Meter.used + 1
  BY MeterFacts, ConsumeFacts
<1> QED
  BY <1>1, MeterFacts, ReplaceLast

\* Charging keeps every limit.
LEMMA ChargedLimits ==
  ASSUME IInv, meters' = Append(Front(meters), Consume(Meter, 1))
  PROVE  LimitsShrink'
<1> DEFINE n == Len(meters)
<1>1. n \in Nat \ {0}
  BY MeterFacts
<1>2. /\ Len(meters') = n
      /\ \A k \in 1..(n - 1) : meters'[k] = meters[k]
      /\ meters'[n].limit = meters[n].limit
  BY ChargedFacts
<1>3. ASSUME NEW k \in 2..n PROVE meters'[k].limit = meters[k].limit
  <2>1. k = n \/ k \in 1..(n - 1)
    BY <1>1
  <2> QED
    BY <1>2, <2>1
<1>4. \A k \in 2..n : meters[k].limit \in Nat
                      /\ meters[k].limit <= BeforeSendHookGasLimit - 2 * (k - 2)
  BY DEF IInv, LimitsShrink
<1> HIDE DEF n
<1> QED
  BY <1>2, <1>3, <1>4 DEF LimitsShrink

\* The meter of the code that makes a transfer has paid for it.
LEMMA TransferIInv ==
  ASSUME IInv, NEW entry \in Entries, NEW fromModule \in BOOLEAN,
         NEW coins \in 1..MaxCoins, Transfer(entry, fromModule, coins)
  PROVE  IInv'
<1> DEFINE n == Len(frames)
           f == [ entry |-> entry, fromModule |-> fromModule, left |-> coins ]
<1>1. n \in Nat /\ Len(meters) = n + 1 /\ frames \in Seq(Frames)
  BY MeterFacts DEF Transfer, InCode, IInv, TypeOK
<1>2. meters' = Append(Front(meters), Consume(Meter, 1))
      /\ ~PastLimit(Consume(Meter, 1))
  BY DEF Transfer
<1>3. /\ meters' \in Seq(Meters) /\ Len(meters') = n + 1
      /\ \A k \in 1..n : meters'[k] = meters[k]
      /\ meters'[n + 1] = Consume(Meter, 1)
      /\ meters'[n + 1].used = meters[n + 1].used + 1
  <2>1. /\ meters' \in Seq(Meters) /\ Len(meters') = Len(meters)
        /\ \A k \in 1..(Len(meters) - 1) : meters'[k] = meters[k]
        /\ meters'[Len(meters)] = Consume(Meter, 1)
        /\ meters'[Len(meters)].used = meters[Len(meters)].used + 1
    BY <1>2, ChargedFacts
  <2>2. Len(meters) - 1 = n
    BY <1>1
  <2> QED
    BY <1>1, <2>1, <2>2
<1>4. meters[n + 1].used \in Nat
  BY <1>1, MeterFacts DEF Meters
<1>5. f \in Frames
  <2>1. coins \in 0..MaxCoins
    OBVIOUS
  <2> QED
    BY <2>1, Zenon DEF Frames
<1>6. frames' = Append(frames, f)
  BY DEF Transfer
<1> HIDE DEF f
<1>7. frames' \in Seq(Frames) /\ Len(frames') = n + 1 /\ frames' # <<>>
  BY <1>1, <1>5, <1>6
<1>8. /\ transfers' \in 0..MaxTransfers /\ burned' \in Nat
      /\ UNCHANGED <<aborted, last>>
  BY DEF Transfer, IInv, TypeOK
<1>9. TypeOK'
  BY <1>3, <1>7, <1>8 DEF IInv, TypeOK, InListener
<1>10. ListenerMetersPaid'
  <2> HIDE DEF n
  <2>1. ASSUME NEW k \in 1..(n + 1)
        PROVE  ~PastLimit(meters'[k]) /\ meters'[k].used >= IF k < n + 1 THEN 2 ELSE 1
    <3>1. CASE k = n + 1
      BY <1>1, <1>2, <1>3, <1>4, <3>1
    <3>2. CASE k \in 1..n
      BY <1>1, <1>3, <3>2 DEF IInv, ListenerMetersPaid, n
    <3> QED
      BY <1>1, <3>1, <3>2
  <2> QED
    BY <1>3, <1>7, <2>1 DEF ListenerMetersPaid
<1>11. ModuleSendNotBlocked'
  BY <1>8 DEF IInv, ModuleSendNotBlocked
<1>12. WaitingHasCoin'
  <2>1. \A k \in 1..n : frames'[k] = frames[k]
    BY <1>1, <1>5, <1>6
  <2>2. \A k \in 1..n : k < n + 1 /\ frames[k].left > 0
    BY <1>1 DEF IInv, WaitingHasCoin
  <2>3. \A k \in 1..(n + 1) : k < n + 1 => k \in 1..n
    BY <1>1
  <2> HIDE DEF n
  <2> QED
    BY <1>3, <1>7, <2>1, <2>2, <2>3 DEF WaitingHasCoin
<1> QED
  BY <1>2, <1>9, <1>10, <1>11, <1>12, ChargedLimits DEF IInv

\* What the waiting listeners paid is not touched when the innermost returns.
LEMMA LoopEndsIInv == ASSUME IInv, LoopEnds PROVE IInv'
<1>1. /\ frames # <<>> /\ Len(meters) = Len(frames) /\ ReturnToBank(FALSE, Meter)
      /\ UNCHANGED <<meters, transfers, burned>>
  BY DEF LoopEnds, InListener
<1>2. /\ frames' \in Seq(Frames) /\ Len(frames') = Len(frames) - 1
      /\ \A k \in 1..(Len(frames) - 1) : frames'[k] = frames[k]
      /\ last' \in Returns /\ aborted' \in BOOLEAN /\ ModuleSendNotBlocked'
  BY <1>1, ReturnFacts
<1>3. TypeOK'
  BY <1>1, <1>2, MeterFacts DEF IInv, TypeOK, InCode
<1>4. ListenerMetersPaid'
  BY <1>1, <1>2, MeterFacts DEF IInv, ListenerMetersPaid
<1>5. LimitsShrink'
  BY <1>1 DEF IInv, LimitsShrink
<1>6. WaitingHasCoin'
  BY <1>1, <1>2, MeterFacts, StillWaiting
<1> QED
  BY <1>2, <1>3, <1>4, <1>5, <1>6 DEF IInv

\* The lookup that panics is charged to a meter no listener runs on any more.
LEMMA LookupPanicsIInv == ASSUME IInv, LookupPanics PROVE IInv'
<1> DEFINE n == Len(frames)
           charged == Consume(Meter, 1)
<1>1. /\ frames # <<>> /\ Len(meters) = n /\ PastLimit(charged)
      /\ meters' = Append(Front(meters), charged)
      /\ ReturnToBank(TRUE, charged)
      /\ burned' = burned + 1 /\ UNCHANGED transfers
  BY DEF LookupPanics, InListener
<1>2. /\ frames' \in Seq(Frames) /\ Len(frames') = n - 1
      /\ \A k \in 1..(n - 1) : frames'[k] = frames[k]
      /\ last' \in Returns /\ aborted' \in BOOLEAN /\ ModuleSendNotBlocked'
  BY <1>1, ReturnFacts
<1>3. /\ meters' \in Seq(Meters) /\ Len(meters') = n
      /\ \A k \in 1..(n - 1) : meters'[k] = meters[k]
  BY <1>1, ChargedFacts
<1>4. TypeOK'
  BY <1>1, <1>2, <1>3, MeterFacts DEF IInv, TypeOK, InCode
<1>5. ListenerMetersPaid'
  <2>1. ASSUME NEW k \in 1..(n - 1)
        PROVE  ~PastLimit(meters'[k]) /\ meters'[k].used >= 2 /\ k < n
    <3>1. k \in 1..n /\ k < n
      BY <1>1, MeterFacts
    <3>2. ~PastLimit(meters[k]) /\ meters[k].used >= 2
      BY <1>1, <3>1 DEF IInv, ListenerMetersPaid
    <3> QED
      BY <1>3, <3>1, <3>2
  <2> QED
    BY <1>2, <1>3, <2>1 DEF ListenerMetersPaid
<1>6. WaitingHasCoin'
  BY <1>1, <1>2, <1>3, MeterFacts, StillWaiting
<1> QED
  BY <1>1, <1>2, <1>4, <1>5, <1>6, ChargedLimits DEF IInv

\* A coin the loop is done with.
LEMMA AdvanceFacts ==
  ASSUME IInv, frames # <<>>, Listener.left > 0
  PROVE  LET t == Append(Front(frames), Advance(Listener))
         IN  /\ t \in Seq(Frames) /\ Len(t) = Len(frames) /\ t # <<>>
             /\ \A k \in 1..(Len(frames) - 1) : t[k] = frames[k]
<1>1. frames \in Seq(Frames) /\ Listener \in Frames
  BY FrontFacts DEF IInv, TypeOK, Listener
<1>2. Advance(Listener) \in Frames
  BY <1>1 DEF Advance, Frames
<1> QED
  BY <1>1, <1>2, ReplaceLast

\* The lookup that succeeds leaves the meter within its limit.
LEMMA SkipCoinIInv == ASSUME IInv, SkipCoin PROVE IInv'
<1> DEFINE n == Len(frames)
           charged == Consume(Meter, 1)
<1>1. /\ frames # <<>> /\ Len(meters) = n /\ ~PastLimit(charged)
      /\ Listener.left > 0
      /\ meters' = Append(Front(meters), charged)
      /\ frames' = Append(Front(frames), Advance(Listener))
      /\ burned' = burned + 1 /\ UNCHANGED <<transfers, aborted, last>>
  BY DEF SkipCoin, InListener
<1>2. /\ frames' \in Seq(Frames) /\ Len(frames') = n /\ frames' # <<>>
      /\ \A k \in 1..(n - 1) : frames'[k] = frames[k]
  BY <1>1, AdvanceFacts
<1>3. /\ meters' \in Seq(Meters) /\ Len(meters') = n
      /\ \A k \in 1..(n - 1) : meters'[k] = meters[k]
      /\ meters'[n] = charged /\ meters'[n].used = meters[n].used + 1
  BY <1>1, ChargedFacts
<1>4. n \in Nat \ {0} /\ meters[n].used \in Nat
  BY <1>1, MeterFacts DEF Meters
<1>5. TypeOK'
  BY <1>1, <1>2, <1>3 DEF IInv, TypeOK, InListener
<1>6. ListenerMetersPaid'
  <2> HIDE DEF n
  <2>1. ASSUME NEW k \in 1..n
        PROVE  ~PastLimit(meters'[k]) /\ meters'[k].used >= IF k < n THEN 2 ELSE 1
    <3>1. CASE k = n
      BY <1>1, <1>3, <1>4, <3>1
    <3>2. CASE k \in 1..(n - 1)
      BY <1>1, <1>3, <1>4, <3>2 DEF IInv, ListenerMetersPaid, n
    <3> QED
      BY <1>4, <3>1, <3>2
  <2> QED
    BY <1>2, <1>3, <2>1 DEF ListenerMetersPaid
<1>7. ModuleSendNotBlocked'
  BY <1>1 DEF IInv, ModuleSendNotBlocked
<1>8. WaitingHasCoin'
  BY <1>1, <1>2, <1>3, MeterFacts, StillWaiting
<1> QED
  BY <1>1, <1>5, <1>6, <1>7, <1>8, ChargedLimits DEF IInv

\* A contract starts on the gas its caller has left after two units at least,
\* and that meter starts within its limit.
LEMMA CallContractIInv == ASSUME IInv, CallContract PROVE IInv'
<1> DEFINE n == Len(frames)
           charged == Consume(Meter, 1)
           child == [limit |-> childLimit(charged), used |-> 0]
<1>1. /\ frames # <<>> /\ Len(meters) = n /\ ~PastLimit(charged)
      /\ meters' = Front(meters) \o <<charged, child>>
      /\ burned' = burned + 1 /\ UNCHANGED <<frames, transfers, aborted, last>>
  BY DEF CallContract, InListener
<1>2. /\ meters \in Seq(Meters) /\ meters # <<>> /\ n \in Nat \ {0}
      /\ Meter = meters[n] /\ Meter \in Meters
  BY <1>1, MeterFacts
<1>3. charged \in Meters /\ charged.limit = meters[n].limit
      /\ charged.used = meters[n].used + 1
  BY <1>2, ConsumeFacts
<1> HIDE DEF charged
<1>4. /\ childLimit(charged) \in Nat
      /\ childLimit(charged) <= BeforeSendHookGasLimit
      /\ charged.limit # NoLimit => childLimit(charged) <= charged.limit - charged.used
  BY <1>1, <1>3, ChildLimitFacts
<1>5. child \in Meters
  BY <1>4 DEF Meters
<1>6. child.limit = childLimit(charged)
  OBVIOUS
<1> HIDE DEF child
<1>7. /\ meters' \in Seq(Meters) /\ Len(meters') = n + 1
      /\ meters'[n] = charged /\ meters'[n + 1] = child
      /\ \A k \in 1..(n - 1) : meters'[k] = meters[k]
  <2> DEFINE t == Front(meters) \o <<charged, child>>
  <2>1. /\ t \in Seq(Meters) /\ Len(t) = Len(meters) + 1
        /\ t[Len(meters)] = charged /\ t[Len(meters) + 1] = child
        /\ \A k \in 1..(Len(meters) - 1) : t[k] = meters[k]
    <3>1. meters \in Seq(Meters) /\ meters # <<>> /\ charged \in Meters
      BY <1>2, <1>3
    <3> QED
      BY ONLY <1>5, <3>1, ReplaceAndPush
  <2>2. meters' = t /\ Len(meters) = n
    BY <1>1
  <2> HIDE DEF t, n
  <2> QED
    BY ONLY <2>1, <2>2
<1>8. meters[n].used \in Nat /\ meters[n].used >= 1
  <2>1. meters[n].used \in Nat
    BY <1>2 DEF Meters
  <2>2. n \in 1..Len(frames)
    BY <1>2
  <2>3. meters[n].used >= IF n < Len(meters) THEN 2 ELSE 1
    BY <2>2 DEF IInv, ListenerMetersPaid
  <2> QED
    BY <1>1, <2>1, <2>3
<1>9. TypeOK'
  BY <1>1, <1>7 DEF IInv, TypeOK, InCode
<1>10. ListenerMetersPaid'
  <2>1. ASSUME NEW k \in 1..n
        PROVE  ~PastLimit(meters'[k]) /\ meters'[k].used >= 2 /\ k < n + 1
    <3>1. CASE k = n
      <4>1. meters'[k] = charged /\ k < n + 1
        BY <1>2, <1>7, <3>1
      <4>2. charged.used >= 2
        BY <1>3, <1>8
      <4> QED
        BY <1>1, <4>1, <4>2
    <3>2. CASE k \in 1..(n - 1)
      <4>1. k \in 1..Len(frames) /\ k < Len(meters) /\ k < n + 1
        BY <1>1, <1>2, <3>2
      <4>2. ~PastLimit(meters[k]) /\ meters[k].used >= 2
        BY <4>1 DEF IInv, ListenerMetersPaid
      <4> QED
        BY <1>7, <3>2, <4>1, <4>2
    <3> QED
      BY <1>2, <3>1, <3>2
  <2> QED
    BY <1>1, <1>7, <2>1 DEF ListenerMetersPaid
<1>11. LimitsShrink'
  <2>1. ASSUME NEW k \in 2..n
        PROVE  /\ meters[k].limit \in Nat
               /\ meters[k].limit <= BeforeSendHookGasLimit - 2 * (k - 2)
    BY <1>1 DEF IInv, LimitsShrink
  <2>2. ASSUME NEW k \in 2..n PROVE meters'[k].limit = meters[k].limit
    <3>1. k = n \/ k \in 1..(n - 1)
      BY <1>2
    <3> QED
      BY <1>3, <1>7, <3>1
  <2>3. childLimit(charged) <= BeforeSendHookGasLimit - 2 * ((n + 1) - 2)
    <3>1. CASE n = 1
      BY <1>4, <3>1
    <3>2. CASE n >= 2
      <4>1. /\ charged.limit \in Nat
            /\ charged.limit <= BeforeSendHookGasLimit - 2 * (n - 2)
        BY <1>2, <1>3, <2>1, <3>2
      <4>2. childLimit(charged) <= charged.limit - charged.used /\ charged.used >= 2
        <5>1. charged.limit # NoLimit
          BY <4>1
        <5>2. charged.used >= 2
          BY <1>3, <1>8
        <5> QED
          BY <1>4, <5>1, <5>2
      <4> QED
        <5>1. ASSUME NEW c \in Nat, NEW l \in Nat, NEW u \in Nat,
                     c <= l - u, u >= 2, l <= BeforeSendHookGasLimit - 2 * (n - 2)
              PROVE  c <= BeforeSendHookGasLimit - 2 * ((n + 1) - 2)
          BY <1>2, <5>1
        <5>2. charged.used \in Nat
          BY <1>3, <1>8
        <5> QED
          BY <1>4, <4>1, <4>2, <5>1, <5>2
    <3>3. n = 1 \/ n >= 2
      <4>1. n \in Nat \ {0}
        BY <1>2
      <4> HIDE DEF n
      <4>2. n = 1 \/ n > 1
        BY <4>1
      <4> QED
        BY <4>1, <4>2
    <3> QED
      BY <3>1, <3>2, <3>3, Zenon
  <2>4. ASSUME NEW k \in 2..(n + 1)
        PROVE  /\ meters'[k].limit \in Nat
               /\ meters'[k].limit <= BeforeSendHookGasLimit - 2 * (k - 2)
    <3>1. CASE k = n + 1
      BY <1>4, <1>6, <1>7, <2>3, <3>1
    <3>2. CASE k \in 2..n
      BY <2>1, <2>2, <3>2
    <3> QED
      BY <1>2, <3>1, <3>2
  <2> QED
    BY <1>7, <2>4 DEF LimitsShrink
<1>12. ModuleSendNotBlocked'
  BY <1>1 DEF IInv, ModuleSendNotBlocked
<1>13. WaitingHasCoin'
  <2>1. ASSUME NEW k \in 1..n PROVE frames[k].left > 0
    <3>1. CASE k = n
      BY <3>1 DEF CallContract, Listener, Last
    <3>2. CASE k \in 1..(n - 1)
      BY <1>1, <1>2, <3>2 DEF IInv, WaitingHasCoin
    <3> QED
      BY <1>2, <3>1, <3>2
  <2> QED
    BY <1>1, <2>1 DEF WaitingHasCoin
<1> QED
  BY <1>9, <1>10, <1>11, <1>12, <1>13 DEF IInv

\* The meters after a contract's gas is charged to its caller.
LEMMA ContractEndsMeters ==
  ASSUME IInv, NEW outcome \in Outcomes, NEW gas \in 1..MaxStepGas,
         NEW child, child = Consume(Meter, gas),
         NEW parent, parent = ChargeParent(meters[Len(meters) - 1], child, outcome),
         InCode, frames # <<>>,
         meters' = Append(Front(Front(meters)), parent)
  PROVE  LET n == Len(frames)
         IN  /\ n \in Nat \ {0} /\ Len(meters) = n + 1
             /\ meters' \in Seq(Meters) /\ Len(meters') = n /\ meters'[n] = parent
             /\ \A k \in 1..(n - 1) : meters'[k] = meters[k]
             /\ parent.limit = meters[n].limit
             /\ parent.used = meters[n].used + (meters[n + 1].used + gas)
             /\ meters[n].used \in Nat /\ meters[n + 1].used \in Nat
             /\ gas \in Nat
<1> DEFINE n == Len(frames)
<1>1. n \in Nat \ {0} /\ frames \in Seq(Frames)
  BY MeterFacts DEF IInv, TypeOK
<1>2. Len(meters) = n + 1
  BY DEF InCode
<1>3. /\ meters \in Seq(Meters)
      /\ Meter = meters[n + 1] /\ Meter \in Meters
  BY <1>2, MeterFacts
<1>4. gas \in Nat
  OBVIOUS
<1>5. child \in Meters /\ child.used = meters[n + 1].used + gas
  BY <1>3, <1>4, ConsumeFacts
<1>6. meters[n] \in Meters
  BY <1>1, <1>2, <1>3
<1>7. meters[n].used \in Nat /\ meters[n + 1].used \in Nat /\ child.used \in Nat
  BY <1>3, <1>5, <1>6 DEF Meters
<1>8. Len(meters) - 1 = n
  BY <1>1, <1>2
<1>9. parent = Consume(meters[n], child.used)
  BY <1>8 DEF ChargeParent
<1>10. /\ parent \in Meters /\ parent.limit = meters[n].limit
       /\ parent.used = meters[n].used + child.used
  <2>1. ASSUME NEW m \in Meters, NEW u \in Nat, parent = Consume(m, u)
        PROVE  parent \in Meters /\ parent.limit = m.limit /\ parent.used = m.used + u
    BY ONLY <2>1, ConsumeFacts
  <2> QED
    BY ONLY <1>6, <1>7, <1>9, <2>1
<1>11. Len(meters) >= 2 /\ Len(meters) - 2 = n - 1
  BY <1>1, <1>2
<1>12. /\ meters' \in Seq(Meters) /\ Len(meters') = Len(meters) - 1
       /\ meters'[Len(meters) - 1] = parent
       /\ \A k \in 1..(Len(meters) - 2) : meters'[k] = meters[k]
  BY <1>3, <1>10, <1>11, PopAndReplace
<1>13. /\ Len(meters') = n /\ meters'[n] = parent
       /\ \A k \in 1..(n - 1) : meters'[k] = meters[k]
  BY <1>8, <1>11, <1>12
<1> HIDE DEF n
<1>14. parent.used = meters[n].used + (meters[n + 1].used + gas)
  BY <1>5, <1>10
<1> QED
  BY <1>1, <1>2, <1>4, <1>7, <1>10, <1>12, <1>13, <1>14 DEF n

\* The caller goes on only if its meter is within its limit after the charge; a
\* listener that returns leaves meters that have paid for their lookups.
LEMMA ContractEndsIInv ==
  ASSUME IInv, NEW outcome \in Outcomes, NEW gas \in 1..MaxStepGas,
         ContractEnds(outcome, gas)
  PROVE  IInv'
<1> DEFINE n == Len(frames)
           child == Consume(Meter, gas)
           parent == ChargeParent(meters[Len(meters) - 1], child, outcome)
<1>1. /\ InCode /\ frames # <<>>
      /\ meters' = Append(Front(Front(meters)), parent)
      /\ burned' = burned + gas
      /\ UNCHANGED transfers
  BY DEF ContractEnds
<1>2. \/ PastLimit(parent) /\ ReturnToBank(TRUE, parent)
      \/ /\ ~PastLimit(parent)
         /\ ReturnToBank(~Suppressed(Listener.fromModule, outcome), parent)
      \/ /\ ~PastLimit(parent)
         /\ frames' = Append(Front(frames), Advance(Listener))
         /\ UNCHANGED <<aborted, last>>
  BY DEF ContractEnds
<1> HIDE DEF child, parent
<1>3. /\ n \in Nat \ {0} /\ Len(meters) = n + 1
      /\ meters' \in Seq(Meters) /\ Len(meters') = n /\ meters'[n] = parent
      /\ \A k \in 1..(n - 1) : meters'[k] = meters[k]
      /\ parent.limit = meters[n].limit
      /\ parent.used = meters[n].used + (meters[n + 1].used + gas)
      /\ meters[n].used \in Nat /\ meters[n + 1].used \in Nat /\ gas \in Nat
  BY <1>1, ContractEndsMeters DEF child, parent
<1>4. \A k \in 1..n : ~PastLimit(meters[k]) /\ meters[k].used >= 2
  <2> TAKE k \in 1..n
  <2>1. k < Len(meters)
    BY <1>3
  <2> QED
    BY <2>1 DEF IInv, ListenerMetersPaid
<1>5. \A k \in 1..(n - 1) : ~PastLimit(meters'[k]) /\ meters'[k].used >= 2
  <2> TAKE k \in 1..(n - 1)
  <2>1. k \in 1..n /\ meters'[k] = meters[k]
    BY <1>3
  <2> QED
    BY <1>4, <2>1
<1>6. parent.used >= 1
  <2>1. meters[n].used >= 2
    BY <1>3, <1>4
  <2> QED
    BY <1>3, <2>1
<1>7. LimitsShrink'
  <2>1. ASSUME NEW k \in 2..n PROVE meters'[k].limit = meters[k].limit /\ k \in 2..(n + 1)
    <3>1. (k = n \/ k \in 1..(n - 1)) /\ k \in 2..(n + 1)
      BY <1>3
    <3> QED
      BY <1>3, <3>1
  <2>2. \A k \in 2..(n + 1) : meters[k].limit \in Nat
                 /\ meters[k].limit <= BeforeSendHookGasLimit - 2 * (k - 2)
    BY <1>3 DEF IInv, LimitsShrink
  <2> HIDE DEF n
  <2> QED
    BY <1>3, <2>1, <2>2 DEF LimitsShrink
<1>8. burned' \in Nat /\ transfers' \in 0..MaxTransfers
  BY <1>1, <1>3 DEF IInv, TypeOK
<1>9. ASSUME NEW err \in BOOLEAN, ReturnToBank(err, parent),
             err /\ Listener.fromModule => PastLimit(parent)
      PROVE  IInv'
  <2>1. /\ frames' \in Seq(Frames) /\ Len(frames') = n - 1
        /\ \A k \in 1..(n - 1) : frames'[k] = frames[k]
        /\ last' \in Returns /\ aborted' \in BOOLEAN /\ ModuleSendNotBlocked'
    BY <1>1, <1>9, ReturnFacts
  <2>2. InCode'
    BY <1>3, <2>1 DEF InCode
  <2>3. TypeOK'
    BY <1>3, <1>8, <2>1, <2>2 DEF TypeOK
  <2>4. \A k \in 1..(n - 1) : k < n
    BY <1>3
  <2>5. ListenerMetersPaid'
    BY <1>3, <1>5, <2>1, <2>4 DEF ListenerMetersPaid
  <2>6. WaitingHasCoin'
    BY <1>1, <1>3, <2>1, StillWaiting
  <2> QED
    BY <1>7, <2>1, <2>3, <2>5, <2>6 DEF IInv
<1>10. CASE PastLimit(parent) /\ ReturnToBank(TRUE, parent)
  BY <1>9, <1>10, Zenon
<1>11. CASE /\ ~PastLimit(parent)
            /\ ReturnToBank(~Suppressed(Listener.fromModule, outcome), parent)
  <2>1. ~Suppressed(Listener.fromModule, outcome) /\ Listener.fromModule => FALSE
    BY Zenon DEF Suppressed
  <2>2. (~Suppressed(Listener.fromModule, outcome)) \in BOOLEAN
    BY Zenon DEF Suppressed
  <2> QED
    BY <1>9, <1>11, <2>1, <2>2, Zenon
<1>12. CASE /\ ~PastLimit(parent)
            /\ frames' = Append(Front(frames), Advance(Listener))
            /\ UNCHANGED <<aborted, last>>
  <2>1. Listener.left > 0
    BY <1>3 DEF Listener, Last, IInv, WaitingHasCoin
  <2>2. /\ frames' \in Seq(Frames) /\ Len(frames') = n /\ frames' # <<>>
        /\ \A k \in 1..(n - 1) : frames'[k] = frames[k]
    BY <1>1, <1>12, <2>1, AdvanceFacts
  <2>3. TypeOK'
    BY <1>3, <1>8, <1>12, <2>2 DEF IInv, TypeOK, InListener
  <2>4. ListenerMetersPaid'
    <3>1. ASSUME NEW k \in 1..n
          PROVE  ~PastLimit(meters'[k]) /\ meters'[k].used >= IF k < n THEN 2 ELSE 1
      <4>1. CASE k = n
        <5>1. meters'[k] = parent /\ ~(k < n)
          BY <1>3, <4>1
        <5> QED
          BY <1>6, <1>12, <5>1
      <4>2. CASE k \in 1..(n - 1)
        <5>1. k < n
          BY <1>3, <4>2
        <5> QED
          BY <1>5, <4>2, <5>1
      <4>3. k = n \/ k \in 1..(n - 1)
        BY <1>3
      <4> QED
        BY <4>1, <4>2, <4>3
    <3> HIDE DEF n
    <3> QED
      BY <1>3, <2>2, <3>1 DEF ListenerMetersPaid
  <2>5. WaitingHasCoin'
    BY <1>1, <1>3, <2>2, StillWaiting
  <2>6. ModuleSendNotBlocked'
    BY <1>12 DEF IInv, ModuleSendNotBlocked
  <2> QED
    BY <1>7, <2>3, <2>4, <2>5, <2>6 DEF IInv
<1> QED
  BY <1>2, <1>10, <1>11, <1>12

\* Every step keeps the inductive invariant.
LEMMA NextIInv == IInv /\ [Next]_vars => IInv'
<1> SUFFICES ASSUME IInv, [Next]_vars
             PROVE  IInv'
  OBVIOUS
<1>1. ASSUME NEW entry \in Entries, NEW fromModule \in BOOLEAN,
             NEW coins \in 1..MaxCoins, Transfer(entry, fromModule, coins)
      PROVE  IInv'
  BY <1>1, TransferIInv
<1>2. CASE LoopEnds
  BY <1>2, LoopEndsIInv
<1>3. CASE LookupPanics
  BY <1>3, LookupPanicsIInv
<1>4. CASE SkipCoin
  BY <1>4, SkipCoinIInv
<1>5. CASE CallContract
  BY <1>5, CallContractIInv
<1>6. ASSUME NEW outcome \in Outcomes, NEW gas \in 1..MaxStepGas,
             ContractEnds(outcome, gas)
      PROVE  IInv'
  BY <1>6, ContractEndsIInv
<1>7. ASSUME NEW limit \in TxGasLimits, NewTransaction(limit) PROVE IInv'
  <2>1. [limit |-> limit, used |-> 0] \in Meters
    BY DEF Meters
  <2>2. meters' \in Seq(Meters) /\ Len(meters') = 1
    BY <1>7, <2>1 DEF NewTransaction
  <2>3. frames' \in Seq(Frames) /\ Len(frames') = 0
    BY <1>7 DEF NewTransaction
  <2>4. last' \in Returns /\ aborted' \in BOOLEAN /\ ModuleSendNotBlocked'
    BY <1>7, Zenon DEF NewTransaction, NotReturned, Returns, ModuleSendNotBlocked
  <2>5. transfers' \in 0..MaxTransfers /\ burned' \in Nat
    BY <1>7 DEF NewTransaction
  <2>6. TypeOK'
    BY <2>2, <2>3, <2>4, <2>5 DEF TypeOK, InCode
  <2>7. (ListenerMetersPaid /\ LimitsShrink /\ WaitingHasCoin)'
    BY <2>2, <2>3 DEF ListenerMetersPaid, LimitsShrink, WaitingHasCoin
  <2> QED
    BY <2>4, <2>6, <2>7 DEF IInv
<1>8. CASE UNCHANGED vars
  BY <1>8 DEF vars, IInv, TypeOK, InListener, InCode, ListenerMetersPaid,
              LimitsShrink, WaitingHasCoin, ModuleSendNotBlocked
<1> QED
  BY <1>1, <1>2, <1>3, <1>4, <1>5, <1>6, <1>7, <1>8 DEF Next

\* Every reachable state satisfies the inductive invariant: each level of
\* listeners has paid for itself out of what the level below had left.
THEOREM Invariance == Spec => []IInv
<1>1. Init => IInv
  BY FreshIInv DEF Init
<1> QED
  BY <1>1, NextIInv, PTL DEF Spec

\* No frame visits more coins than it has and no contract starts on a negative
\* gas limit, whatever the limits are and however deep the calls nest.
THEOREM TypeCorrect == Spec => []TypeOK
<1>1. IInv => TypeOK
  BY DEF IInv
<1> QED
  BY <1>1, Invariance, PTL

\* Hook contracts cannot call each other endlessly, not even in a transfer
\* without a gas limit.
THEOREM NestingAlwaysBounded == Spec => []NestingBounded
<1>1. IInv => NestingBounded
  <2> SUFFICES ASSUME IInv PROVE NestingBounded
    OBVIOUS
  <2> DEFINE n == Len(frames)
  <2>1. n \in Nat /\ meters \in Seq(Meters) /\ Len(meters) \in Nat /\ n <= Len(meters)
    BY MeterFacts DEF IInv, TypeOK, InListener, InCode
  <2>2. CASE n <= 1
    BY <2>1, <2>2 DEF NestingBounded
  <2>3. CASE n >= 2
    <3> DEFINE l == meters[n].limit
               u == meters[n].used
    <3>1. u \in Nat
      <4>1. n \in 1..Len(meters)
        BY <2>1, <2>3
      <4>2. meters[n] \in Meters
        BY <2>1, <4>1
      <4> QED
        BY <4>2 DEF Meters
    <3>2. ~PastLimit(meters[n]) /\ u >= 1
      <4>1. n \in 1..n
        BY <2>1, <2>3
      <4>2. ~PastLimit(meters[n]) /\ u >= IF n < Len(meters) THEN 2 ELSE 1
        BY <4>1 DEF IInv, ListenerMetersPaid
      <4> HIDE DEF n, u
      <4>3. CASE n < Len(meters)
        BY <3>1, <4>2, <4>3
      <4>4. CASE ~(n < Len(meters))
        BY <4>2, <4>4
      <4> QED
        BY <4>3, <4>4
    <3>3. l \in Nat /\ l <= BeforeSendHookGasLimit - 2 * (n - 2)
      BY <2>1, <2>3 DEF IInv, LimitsShrink
    <3>4. u <= l
      BY <3>2, <3>3, <3>1 DEF PastLimit
    <3> HIDE DEF n, l, u
    <3>5. n <= 2 + BeforeSendHookGasLimit \div 2
      BY <2>1, <3>2, <3>3, <3>1, <3>4
    <3> QED
      BY <3>5 DEF NestingBounded, n
  <2> QED
    BY <2>1, <2>2, <2>3
<1> QED
  BY <1>1, Invariance, PTL

\* The listener returns an error to a module account's transfer only when the
\* gas of the transfer itself is used up, whatever the hook contracts do.
THEOREM ModuleSendNeverBlocked == Spec => []ModuleSendNotBlocked
<1>1. IInv => ModuleSendNotBlocked
  BY DEF IInv
<1> QED
  BY <1>1, Invariance, PTL

-----------------------------------------------------------------------------
(* The gas on the stack of meters.                                         *)

Used(ms) == [i \in DOMAIN ms |-> ms[i].used]

\* The summands.
LEMMA UsedFacts ==
  ASSUME NEW ms \in Seq(Meters)
  PROVE  /\ Used(ms) \in [1..Len(ms) -> Nat] /\ Len(ms) \in Nat
         /\ \A k \in 1..Len(ms) : Used(ms)[k] = ms[k].used
<1>1. DOMAIN ms = 1..Len(ms) /\ Len(ms) \in Nat
  OBVIOUS
<1>2. \A k \in 1..Len(ms) : ms[k] \in Meters
  OBVIOUS
<1>3. \A k \in 1..Len(ms) : ms[k].used \in Nat
  BY <1>2 DEF Meters
<1> DEFINE D == 1..Len(ms)
<1> HIDE DEF D
<1>4. Used(ms) = [i \in D |-> ms[i].used]
  BY <1>1 DEF Used, D
<1>5. Used(ms) \in [D -> Nat] /\ \A k \in D : Used(ms)[k] = ms[k].used
  BY <1>3, <1>4 DEF D
<1> QED
  BY <1>1, <1>5 DEF D

\* The gas on a stack of meters is a natural number.
LEMMA GasNat ==
  ASSUME NEW ms \in Seq(Meters) PROVE SumFunction(Used(ms)) \in Nat
<1>1. IsFiniteSet(1..Len(ms))
  BY UsedFacts, FS_Interval
<1> QED
  BY <1>1, UsedFacts, FunctionSumNat

\* A meter put on the stack adds its gas.
LEMMA GasAppend ==
  ASSUME NEW ms \in Seq(Meters), NEW m \in Meters
  PROVE  SumFunction(Used(Append(ms, m))) = SumFunction(Used(ms)) + m.used
<1> DEFINE n == Len(ms)
           ns == Append(ms, m)
           f == Used(ms)
           g == Used(ns)
<1>1. n \in Nat /\ DOMAIN ms = 1..n
  OBVIOUS
<1>2. /\ ns \in Seq(Meters) /\ Len(ns) = n + 1 /\ DOMAIN ns = 1..(n + 1)
      /\ ns[n + 1] = m /\ \A k \in 1..n : ns[k] = ms[k]
  OBVIOUS
<1>3. DOMAIN f = 1..n /\ \A k \in 1..n : f[k] = ms[k].used /\ f[k] \in Nat
  BY UsedFacts
<1>4. DOMAIN g = 1..(n + 1) /\ \A k \in 1..(n + 1) : g[k] = ns[k].used /\ g[k] \in Nat
  <2> HIDE DEF ns, n
  <2> QED
    BY <1>2, UsedFacts
<1>5. \A k \in 1..n : k \in 1..(n + 1) /\ ns[k] = ms[k]
  BY <1>1, <1>2
<1>6. n + 1 \in 1..(n + 1) /\ (1..(n + 1)) \ {n + 1} = 1..n
  BY <1>1
<1>7. IsFiniteSet(1..n) /\ IsFiniteSet(1..(n + 1))
  BY <1>1, FS_Interval
<1>8. g[n + 1] = m.used
  BY <1>2, <1>4, <1>6
<1>9. \A k \in 1..n : f[k] \in Nat /\ g[k] = f[k]
  BY <1>3, <1>4, <1>5
<1> HIDE DEF n, ns, f, g
<1>10. SumFunctionOnSet(g, 1..(n + 1)) = g[n + 1] + SumFunctionOnSet(g, 1..n)
  <2> DEFINE D == 1..(n + 1)
             x == n + 1
  <2>1. IsFiniteSet(D) /\ x \in D /\ \A k \in D : g[k] \in Nat
    BY <1>4, <1>6, <1>7
  <2>2. D \ {x} = 1..n
    BY <1>6
  <2> HIDE DEF D, x
  <2>3. SumFunctionOnSet(g, D) = g[x] + SumFunctionOnSet(g, D \ {x})
    BY <2>1, SumRemove
  <2> QED
    BY <2>2, <2>3 DEF D, x
<1>11. SumFunctionOnSet(g, 1..n) = SumFunctionOnSet(f, 1..n)
  BY <1>7, <1>9, SumSame
<1>12. SumFunctionOnSet(f, 1..n) \in Nat
  BY <1>7, <1>9, SumNat
<1>13. m.used \in Nat
  BY DEF Meters
<1>14. SumFunction(g) = SumFunction(f) + m.used
  BY <1>3, <1>4, <1>8, <1>10, <1>11, <1>12, <1>13 DEF SumFunction
<1> QED
  BY <1>14 DEF f, g, ns

\* A stack's gas is what lies below the top and on it.
LEMMA GasFront ==
  ASSUME NEW ms \in Seq(Meters), ms # <<>>
  PROVE  SumFunction(Used(ms)) = SumFunction(Used(Front(ms))) + Last(ms).used
<1>1. Front(ms) \in Seq(Meters) /\ Last(ms) \in Meters /\ Append(Front(ms), Last(ms)) = ms
  BY FrontFacts
<1>2. SumFunction(Used(Append(Front(ms), Last(ms))))
        = SumFunction(Used(Front(ms))) + Last(ms).used
  BY <1>1, GasAppend
<1> QED
  BY <1>1, <1>2

\* A unit of gas charged to the running meter is on the stack.
LEMMA ChargedGas ==
  ASSUME IInv, NEW ms, ms = Append(Front(meters), Consume(Meter, 1))
  PROVE  SumFunction(Used(ms)) = SumFunction(Used(meters)) + 1
<1> DEFINE f == Front(meters)
           c == Consume(Meter, 1)
<1>1. meters \in Seq(Meters) /\ meters # <<>> /\ Meter \in Meters
  BY MeterFacts
<1>2. f \in Seq(Meters)
  BY <1>1, FrontFacts
<1>3. c \in Meters /\ c.used = Meter.used + 1 /\ Meter.used \in Nat
  <2>1. Meter.used \in Nat
    BY <1>1 DEF Meters
  <2> QED
    BY <1>1, <2>1, ConsumeFacts
<1>4. SumFunction(Used(meters)) = SumFunction(Used(f)) + Meter.used
  BY <1>1, GasFront DEF Meter
<1>5. ms = Append(f, c)
  OBVIOUS
<1> HIDE DEF f, c
<1>6. SumFunction(Used(ms)) = SumFunction(Used(f)) + c.used
  BY <1>2, <1>3, <1>5, GasAppend
<1>7. SumFunction(Used(f)) \in Nat
  BY <1>2, GasNat
<1> QED
  BY <1>3, <1>4, <1>6, <1>7

\* Sudo starts on an unused meter.
LEMMA CalledGas ==
  ASSUME IInv, CallContract
  PROVE  SumFunction(Used(meters')) = SumFunction(Used(meters)) + 1
<1> DEFINE f == Front(meters)
           c == Consume(Meter, 1)
           child == [limit |-> childLimit(c), used |-> 0]
           ms == Append(f, c)
<1>1. meters \in Seq(Meters) /\ meters # <<>> /\ Meter \in Meters
  BY MeterFacts
<1>2. meters' = f \o <<c, child>> /\ ~PastLimit(c)
  BY DEF CallContract
<1>3. c \in Meters
  BY <1>1, ConsumeFacts
<1>4. SumFunction(Used(ms)) = SumFunction(Used(meters)) + 1
  BY ChargedGas
<1>5. f \in Seq(Meters)
  BY <1>1, FrontFacts
<1> HIDE DEF c
<1>6. childLimit(c) \in Nat
  BY <1>2, <1>3, ChildLimitFacts
<1>7. child \in Meters /\ child.used = 0
  BY <1>6 DEF Meters
<1> HIDE DEF child
<1>8. meters' = Append(ms, child)
  BY <1>1, <1>2, <1>3, <1>7, ReplaceAndPush
<1>9. ms \in Seq(Meters)
  BY <1>3, <1>5
<1> HIDE DEF ms
<1>10. SumFunction(Used(meters')) = SumFunction(Used(ms)) + child.used
  BY <1>7, <1>8, <1>9, GasAppend
<1>11. SumFunction(Used(ms)) \in Nat
  BY <1>9, GasNat
<1> QED
  BY <1>4, <1>7, <1>10, <1>11

\* The deferred charge moves the contract's gas to the meter below, and adds
\* what the contract burned last.
LEMMA EndedGas ==
  ASSUME IInv, NEW outcome \in Outcomes, NEW gas \in 1..MaxStepGas,
         ContractEnds(outcome, gas)
  PROVE  SumFunction(Used(meters')) = SumFunction(Used(meters)) + gas
<1> DEFINE n == Len(frames)
           child == Consume(Meter, gas)
           parent == ChargeParent(meters[Len(meters) - 1], child, outcome)
           f == Front(meters)
           ff == Front(f)
<1>1. /\ InCode /\ frames # <<>> /\ meters' = Append(ff, parent)
  BY DEF ContractEnds
<1>2. /\ n \in Nat \ {0} /\ Len(meters) = n + 1
      /\ meters' \in Seq(Meters) /\ Len(meters') = n /\ meters'[n] = parent
      /\ parent.used = meters[n].used + (meters[n + 1].used + gas)
      /\ meters[n].used \in Nat /\ meters[n + 1].used \in Nat /\ gas \in Nat
  BY <1>1, ContractEndsMeters
<1>3. meters \in Seq(Meters) /\ meters # <<>>
  BY MeterFacts
<1>4. f \in Seq(Meters) /\ Len(f) = n /\ f[n] = meters[n]
  <2>1. /\ f \in Seq(Meters) /\ Len(f) = Len(meters) - 1
        /\ \A k \in 1..(Len(meters) - 1) : f[k] = meters[k]
    BY <1>3, FrontFacts
  <2>2. Len(meters) - 1 = n /\ n \in 1..n
    BY <1>2
  <2> QED
    BY <2>1, <2>2
<1>5. Last(meters) = meters[n + 1]
  BY <1>2 DEF Last
<1> HIDE DEF f
<1>6. f # <<>> /\ Last(f) = meters[n]
  BY <1>2, <1>4 DEF Last
<1>7. ff \in Seq(Meters)
  BY <1>4, <1>6, FrontFacts
<1>8. parent \in Meters
  BY <1>2
<1> HIDE DEF ff, parent
<1>9. SumFunction(Used(meters)) = SumFunction(Used(f)) + meters[n + 1].used
  BY <1>3, <1>5, GasFront DEF f
<1>10. SumFunction(Used(f)) = SumFunction(Used(ff)) + meters[n].used
  BY <1>4, <1>6, GasFront DEF ff
<1>11. SumFunction(Used(meters')) = SumFunction(Used(ff)) + parent.used
  BY <1>1, <1>7, <1>8, GasAppend
<1>12. SumFunction(Used(ff)) \in Nat
  BY <1>7, GasNat
<1> HIDE DEF n
<1> QED
  BY <1>2, <1>9, <1>10, <1>11, <1>12

\* A new transaction has burned no gas.
LEMMA FreshGas ==
  ASSUME NEW limit \in TxGasLimits, NEW ms, ms = <<[limit |-> limit, used |-> 0]>>
  PROVE  SumFunction(Used(ms)) = 0
<1>1. [limit |-> limit, used |-> 0] \in Meters
  BY DEF Meters
<1>2. ms \in Seq(Meters) /\ Len(ms) = 1 /\ ms[1].used = 0
  BY <1>1
<1>3. ASSUME NEW k \in 1..Len(ms) PROVE Used(ms)[k] = 0
  <2>1. k = 1
    BY <1>2
  <2> QED
    BY <1>2, <2>1, UsedFacts
<1>4. IsFiniteSet(1..Len(ms))
  <2>1. ms \in Seq(Meters)
    BY <1>2
  <2>2. Len(ms) \in Nat
    BY ONLY <2>1
  <2> QED
    BY ONLY <2>2, FS_Interval
<1>5. Used(ms) \in [1..Len(ms) -> Nat]
  BY <1>2, UsedFacts
<1> QED
  BY ONLY <1>3, <1>4, <1>5, FunctionSumZero

\* No gas escapes: what all code of a transaction has burned, in contracts that
\* panicked and in nested calls included, is on the meters of the stack.
THEOREM GasAlwaysConserved == Spec => []GasConserved
<1>1. GasConserved <=> burned = SumFunction(Used(meters))
  BY DEF GasConserved, Used
<1>2. Init => GasConserved
  BY <1>1, FreshGas DEF Init
<1>3. IInv /\ GasConserved /\ [Next]_vars => GasConserved'
  <2> SUFFICES ASSUME IInv, GasConserved, [Next]_vars
               PROVE  burned' = SumFunction(Used(meters'))
    BY DEF GasConserved, Used
  <2>1. burned = SumFunction(Used(meters))
    BY <1>1
  <2>2. ASSUME burned' = burned + 1, meters' = Append(Front(meters), Consume(Meter, 1))
        PROVE  burned' = SumFunction(Used(meters'))
    BY <2>1, <2>2, ChargedGas
  <2>3. ASSUME NEW entry \in Entries, NEW fromModule \in BOOLEAN,
               NEW coins \in 1..MaxCoins, Transfer(entry, fromModule, coins)
        PROVE  burned' = SumFunction(Used(meters'))
    BY <2>2, <2>3 DEF Transfer
  <2>4. CASE LookupPanics \/ SkipCoin
    BY <2>2, <2>4 DEF LookupPanics, SkipCoin
  <2>5. CASE LoopEnds \/ UNCHANGED vars
    BY <2>1, <2>5 DEF LoopEnds, vars
  <2>6. CASE CallContract
    BY <2>1, <2>6, CalledGas DEF CallContract
  <2>7. ASSUME NEW outcome \in Outcomes, NEW gas \in 1..MaxStepGas,
               ContractEnds(outcome, gas)
        PROVE  burned' = SumFunction(Used(meters'))
    <3>1. SumFunction(Used(meters')) = SumFunction(Used(meters)) + gas
      BY <2>7, EndedGas
    <3>2. burned' = burned + gas
      BY <2>7 DEF ContractEnds
    <3> QED
      BY <2>1, <3>1, <3>2
  <2>8. ASSUME NEW limit \in TxGasLimits, NewTransaction(limit)
        PROVE  burned' = SumFunction(Used(meters'))
    BY <2>8, FreshGas DEF NewTransaction
  <2> QED
    BY <2>3, <2>4, <2>5, <2>6, <2>7, <2>8 DEF Next
<1> QED
  BY <1>2, <1>3, Invariance, PTL DEF Spec
=============================================================================
