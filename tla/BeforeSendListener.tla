------------------------- MODULE BeforeSendListener -------------------------
(***************************************************************************)
(* The before-send listener of x/tokenfactory: callBeforeSendListener and  *)
(* its two entries, TrackBeforeSend and BlockBeforeSend, run by the bank   *)
(* for the coins of a transfer.  A hook contract may transfer coins itself,*)
(* so listener calls nest; each contract call has a gas meter of its own,  *)
(* whose consumption is charged to the meter below it when the call ends.  *)
(*                                                                         *)
(* meters[1] is the transaction's meter.  With as many meters as frames    *)
(* the innermost listener runs; with one more the code above it runs, a    *)
(* contract or the transaction itself, on the last meter.                  *)
(***************************************************************************)
EXTENDS Integers, Sequences, SequencesExt

CONSTANTS
  BeforeSendHookGasLimit, \* gas a hook contract gets at most
  MaxStepGas,             \* bound on the gas of one contract step
  MaxCoins,               \* bound on the coins of a transfer
  MaxTransfers,           \* bound on the transfers of a transaction
  TxGasLimits,            \* gas limits of transactions; NoLimit in a block hook
  NoLimit                 \* an infinite gas meter

ASSUME GasAssumption ==
  /\ BeforeSendHookGasLimit \in Nat
  /\ {MaxStepGas, MaxCoins, MaxTransfers} \subseteq Nat \ {0}
  /\ TxGasLimits \subseteq Nat \cup {NoLimit} /\ NoLimit \notin Nat

VARIABLES
  meters,    \* stack of gas meters
  frames,    \* stack of listener calls: entry, sender, coins left to visit
  transfers, \* transfers the transaction may still make
  aborted,   \* BlockBeforeSend failed the transaction's own transfer
  burned,    \* gas all code of the transaction has burned
  last       \* how the last listener call ended

vars == <<meters, frames, transfers, aborted, burned, last>>

Meters == [ limit : Nat \cup {NoLimit}, used : Nat ]
Entries == {"TrackBeforeSend", "BlockBeforeSend"}
Frames == [ entry : Entries, fromModule : BOOLEAN, left : 0..MaxCoins ]

\* err: what the method returned; exhausted: its meter is past its limit.
Returns == [ err : BOOLEAN, fromModule : BOOLEAN, exhausted : BOOLEAN ]
NotReturned == [ err |-> FALSE, fromModule |-> FALSE, exhausted |-> FALSE ]

PastLimit(m) == m.limit # NoLimit /\ m.limit < m.used
Consume(m, gas) == [m EXCEPT !.used = @ + gas]

\* Variant: the contract gets all the gas its caller has left.
childLimitUncapped(m) == IF m.limit = NoLimit THEN NoLimit ELSE m.limit - m.used

\* The lesser of the fixed limit and the gas the caller has left.
childLimit(m) ==
  IF m.limit # NoLimit /\ m.limit - m.used < BeforeSendHookGasLimit
    THEN m.limit - m.used
    ELSE BeforeSendHookGasLimit

InListener == frames # <<>> /\ Len(meters) = Len(frames)
InCode == Len(meters) = Len(frames) + 1
Listener == Last(frames)
Meter == Last(meters)

NewTransaction(limit) ==
  /\ frames' = <<>>
  /\ meters' = <<[limit |-> limit, used |-> 0]>>
  /\ transfers' = MaxTransfers
  /\ aborted' = FALSE
  /\ burned' = 0
  /\ last' = NotReturned

Init ==
  \E limit \in TxGasLimits :
    /\ frames = <<>>
    /\ meters = <<[limit |-> limit, used |-> 0]>>
    /\ transfers = MaxTransfers
    /\ aborted = FALSE
    /\ burned = 0
    /\ last = NotReturned

-----------------------------------------------------------------------------
(* Code above a listener: the bank calls an entry for a transfer.          *)

Transfer(entry, fromModule, coins) ==
  /\ InCode
  /\ ~aborted
  /\ ~PastLimit(Consume(Meter, 1))
  /\ frames = <<>> => transfers > 0
  /\ transfers' = IF frames = <<>> THEN transfers - 1 ELSE transfers
  /\ meters' = Append(Front(meters), Consume(Meter, 1))
  /\ frames' = Append(frames, [ entry |-> entry, fromModule |-> fromModule,
                                left |-> coins ])
  /\ burned' = burned + 1
  /\ UNCHANGED <<aborted, last>>

-----------------------------------------------------------------------------
(* The listener.                                                           *)

\* The innermost listener call returns to the code that made the transfer,
\* with its meter at m.  TrackBeforeSend drops the error; BlockBeforeSend's
\* fails the transfer, which a contract may survive and a transaction not.
ReturnToBank(err, m) ==
  /\ frames' = Front(frames)
  /\ last' = [ err |-> err, fromModule |-> Listener.fromModule,
               exhausted |-> PastLimit(m) ]
  /\ aborted' = ( Len(frames) = 1 /\ err /\ Listener.entry = "BlockBeforeSend" )

\* The loop is done with one coin.
Advance(f) == [f EXCEPT !.left = @ - 1]

\* All coins are visited.
LoopEnds ==
  /\ InListener
  /\ Listener.left = 0
  /\ ReturnToBank(FALSE, Meter)
  /\ UNCHANGED <<meters, transfers, burned>>

\* Reading the hook of a coin costs gas; out of gas the outer recover turns
\* the panic into an error.
LookupPanics ==
  LET charged == Consume(Meter, 1)
  IN  /\ InListener
      /\ Listener.left > 0
      /\ PastLimit(charged)
      /\ meters' = Append(Front(meters), charged)
      /\ burned' = burned + 1
      /\ ReturnToBank(TRUE, charged)
      /\ UNCHANGED transfers

\* The coin has no hook.
SkipCoin ==
  LET charged == Consume(Meter, 1)
  IN  /\ InListener
      /\ Listener.left > 0
      /\ ~PastLimit(charged)
      /\ meters' = Append(Front(meters), charged)
      /\ burned' = burned + 1
      /\ frames' = Append(Front(frames), Advance(Listener))
      /\ UNCHANGED <<transfers, aborted, last>>

\* The coin has a hook: Sudo starts on a meter of its own.
CallContract ==
  LET charged == Consume(Meter, 1)
  IN  /\ InListener
      /\ Listener.left > 0
      /\ ~PastLimit(charged)
      /\ meters' = Front(meters)
                     \o <<charged, [limit |-> childLimit(charged), used |-> 0]>>
      /\ burned' = burned + 1
      /\ UNCHANGED <<frames, transfers, aborted, last>>

\* Variant: the deferred charge is skipped when the contract panics.
ChargeUnlessPanic(parent, child, outcome) ==
  IF outcome = "panic" THEN parent ELSE Consume(parent, child.used)

\* The deferred charge of the contract's gas to the caller's meter.
ChargeParent(parent, child, outcome) == Consume(parent, child.used)

SuppressMissingContract(fromModule, outcome) == outcome = "no such contract"  \* variant

\* Errors the listener does not report.
Suppressed(fromModule, outcome) == outcome = "no such contract" \/ fromModule

(* Sudo ends, by returning or by a panic the deferred function recovers,   *)
(* and its gas is charged.  If the charge itself runs out of gas, that     *)
(* panic is recovered by the outer function only, whoever the sender is.   *)
ContractEnds(outcome, gas) ==
  LET child == Consume(Meter, gas)
      parent == ChargeParent(meters[Len(meters) - 1], child, outcome)
  IN  /\ InCode
      /\ frames # <<>>
      /\ PastLimit(child) => outcome = "panic"
      /\ meters' = Append(Front(Front(meters)), parent)
      /\ burned' = burned + gas
      /\ \/ /\ PastLimit(parent)
            /\ ReturnToBank(TRUE, parent)
         \/ /\ ~PastLimit(parent)
            /\ outcome # "ok"
            /\ ReturnToBank(~Suppressed(Listener.fromModule, outcome), parent)
         \/ /\ ~PastLimit(parent)
            /\ outcome = "ok"
            /\ frames' = Append(Front(frames), Advance(Listener))
            /\ UNCHANGED <<aborted, last>>
      /\ UNCHANGED transfers

Outcomes == {"ok", "error", "no such contract", "panic"}

Next ==
  \/ \E entry \in Entries, fromModule \in BOOLEAN, coins \in 1..MaxCoins :
       Transfer(entry, fromModule, coins)
  \/ LoopEnds
  \/ LookupPanics
  \/ SkipCoin
  \/ CallContract
  \/ \E outcome \in Outcomes, gas \in 1..MaxStepGas : ContractEnds(outcome, gas)
  \/ frames = <<>> /\ \E limit \in TxGasLimits : NewTransaction(limit)

Spec == Init /\ [][Next]_vars

-----------------------------------------------------------------------------
(* Properties.                                                             *)

\* Every variable keeps its type; no frame visits more coins than it has and
\* no contract starts on a negative gas limit.
TypeOK ==
  /\ meters \in Seq(Meters) /\ frames \in Seq(Frames)
  /\ InListener \/ InCode
  /\ transfers \in 0..MaxTransfers
  /\ aborted \in BOOLEAN
  /\ burned \in Nat
  /\ last \in Returns

\* No gas escapes: what all code of the transaction has burned is on the
\* meters of the stack, so once no listener runs the transaction has been
\* charged for every contract step, panics and nested calls included.
GasConserved ==
  burned = SumFunction([i \in DOMAIN meters |-> meters[i].used])

\* Contracts cannot call each other endlessly through their hooks, not even in
\* a transfer without a gas limit: each level costs its caller the transfer and
\* the lookup, and all levels share the outermost contract's limit.
NestingBounded == Len(frames) <= 2 + BeforeSendHookGasLimit \div 2

\* A hook contract cannot block a module account's transfer: the listener
\* returns an error to it only when the gas of the transfer itself is used up.
ModuleSendNotBlocked == last.err /\ last.fromModule => last.exhausted
=============================================================================
