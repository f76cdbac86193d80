-------------------------------- MODULE TxSend --------------------------------
(***************************************************************************)
(* The transaction sender of examples/go-client: runs of "tx send",        *)
(* "tx send-privkey" and "tx broadcast" for one account, against a node    *)
(* with the ante handler of app/ante.go.  Runs overlap, one deadline       *)
(* covers all calls of a run and any of them may miss it, and signed bytes *)
(* once printed can be broadcast by anyone at any later time.              *)
(*                                                                         *)
(* A run signs at most one transaction, so a run names its transaction.    *)
(* CheckTx and gossip are left open: a transaction that reached the        *)
(* network may enter any later block, several times.                       *)
(***************************************************************************)
EXTENDS Integers, FiniteSets, Functions

CONSTANTS
  Runs,          \* runs of the client's send commands
  ChainID,       \* the node's chain
  ChainIDs,      \* values of the -chain-id flag
  NoFlag,        \* the flag is empty
  Amount,        \* coins each run sends
  Fee,           \* fee each run offers
  InitialFunds   \* coins of the sender at first

ASSUME TxSendAssumption ==
  /\ ChainID \in ChainIDs /\ NoFlag \notin ChainIDs
  /\ IsFiniteSet(Runs)
  /\ Amount \in Nat \ {0} /\ Fee \in Nat \ {0} /\ InitialFunds \in Nat

VARIABLES
  run,        \* the client's side of each run
  printed,    \* runs that have printed their transaction's bytes
  network,    \* runs whose transaction has reached the network
  released,   \* runs somebody has asked to broadcast
  committed,  \* the sender's account in the last commit
  account,    \* the same in the block being executed
  paid,       \* how often each transaction has moved its coins
  tripped     \* the circuit breaker has disabled MsgSend

vars == <<run, printed, network, released, committed, account, paid, tripped>>

Idle == [ pc |-> "idle", simulateOnly |-> FALSE, chain |-> NoFlag, sequence |-> 0 ]

Init ==
  /\ run = [r \in Runs |-> Idle]
  /\ printed = {}
  /\ network = {}
  /\ released = {}
  /\ committed = [sequence |-> 0, funds |-> InitialFunds]
  /\ account = committed
  /\ paid = [r \in Runs |-> 0]
  /\ tripped = FALSE

-----------------------------------------------------------------------------
(* A run of the client.                                                    *)

\* Flags are checked and the coins built.
Start(r, flag, simulateOnly) ==
  /\ run[r].pc = "idle"
  /\ run' = [run EXCEPT ![r] = [ pc |-> "connected", simulateOnly |-> simulateOnly,
                                 chain |-> flag, sequence |-> 0 ]]
  /\ UNCHANGED <<printed, network, released, committed, account, paid, tripped>>

\* The chain id is asked for unless it was given.
resolvedChainID(flag) == IF flag = NoFlag THEN ChainID ELSE flag

detectChainID(r) ==
  /\ run[r].pc = "connected"
  /\ run' = [run EXCEPT ![r].pc = "resolved",
                        ![r].chain = resolvedChainID(run[r].chain)]
  /\ UNCHANGED <<printed, network, released, committed, account, paid, tripped>>

\* The query answers from the last commit; then the transaction is signed.
queryBaseAccount(r) ==
  /\ run[r].pc = "resolved"
  /\ run' = [run EXCEPT ![r].pc = "signed", ![r].sequence = committed.sequence]
  /\ UNCHANGED <<printed, network, released, committed, account, paid, tripped>>

\* Variant: the simulation goes on to the broadcast.
SimulateFallsThrough(r) ==
  /\ run[r].pc = "signed"
  /\ run[r].simulateOnly
  /\ network' = network \cup {r}
  /\ run' = [run EXCEPT ![r].pc = "done"]
  /\ printed' = printed \cup {r}
  /\ UNCHANGED <<released, committed, account, paid, tripped>>

\* -simulate-only: the result is printed, bytes included.
Simulate(r) ==
  /\ run[r].pc = "signed"
  /\ run[r].simulateOnly
  /\ run' = [run EXCEPT ![r].pc = "done"]
  /\ printed' = printed \cup {r}
  /\ UNCHANGED <<network, released, committed, account, paid, tripped>>

\* BroadcastTx: accepted is whether the node passes the transaction on, answered
\* whether its answer comes before the deadline.
BroadcastTx(r, accepted, answered) ==
  /\ run[r].pc = "signed"
  /\ ~run[r].simulateOnly
  /\ network' = IF accepted THEN network \cup {r} ELSE network
  /\ released' = released \cup {r}
  /\ run' = [run EXCEPT ![r].pc = IF answered THEN "done" ELSE "failed"]
  /\ printed' = IF answered THEN printed \cup {r} ELSE printed
  /\ UNCHANGED <<committed, account, paid, tripped>>

\* A call before the broadcast fails or misses the deadline.
RunFails(r) ==
  /\ run[r].pc \in {"connected", "resolved", "signed"}
  /\ run' = [run EXCEPT ![r].pc = "failed"]
  /\ UNCHANGED <<printed, network, released, committed, account, paid, tripped>>

\* "tx broadcast" of bytes printed before.
runTxBroadcast(r) ==
  /\ r \in printed
  /\ network' = network \cup {r}
  /\ released' = released \cup {r}
  /\ UNCHANGED <<run, printed, committed, account, paid, tripped>>

-----------------------------------------------------------------------------
(* The node: the ante handler, the message, the commit.                    *)

\* Variants: DeductFeeDecorator is missing, or listed twice.
NoFeeDeducted(a) == a
FeeDeductedTwice(a) == [a EXCEPT !.funds = @ - 2 * Fee]
DeductFee(a) == [a EXCEPT !.funds = @ - Fee]

\* SigVerificationDecorator: signed for this chain and for this sequence.
SigVerifies(a, r) == run[r].chain = ChainID /\ run[r].sequence = a.sequence

SequenceKept(a) == a  \* variant: IncrementSequenceDecorator is missing
IncrementSequence(a) == [a EXCEPT !.sequence = @ + 1]

(* The chain of decorators either passes as a whole or leaves the account  *)
(* alone.  Those left out may reject a transaction too, for a long memo or *)
(* too little gas, which changes nothing: it is then not delivered.        *)
AnteHandlerPasses(a, r) == ~tripped /\ a.funds >= Fee /\ SigVerifies(a, r)
AnteHandler(a) == IncrementSequence(DeductFee(a))

(* A transaction of the block passes the ante handler; its message then    *)
(* moves the coins, or fails: there are too few, the gas limit is too low  *)
(* or the recipient is blocked.  Fee and sequence are spent either way.    *)
DeliverTx(r, fails) ==
  LET afterAnte == AnteHandler(account)
  IN  /\ r \in network
      /\ AnteHandlerPasses(account, r)
      /\ \/ /\ ~fails
            /\ afterAnte.funds >= Amount
            /\ account' = [afterAnte EXCEPT !.funds = @ - Amount]
            /\ paid' = [paid EXCEPT ![r] = @ + 1]
         \/ /\ fails
            /\ account' = afterAnte
            /\ UNCHANGED paid
      /\ UNCHANGED <<run, printed, network, released, committed, tripped>>

Commit ==
  /\ committed' = account
  /\ UNCHANGED <<run, printed, network, released, account, paid, tripped>>

\* An authorised account disables MsgSend, or enables it again.
SetCircuit ==
  /\ tripped' = ~tripped
  /\ UNCHANGED <<run, printed, network, released, committed, account, paid>>

\* One run; "tx send-privkey" differs only in where the key comes from.
SendCommand(r) ==
  \/ \E flag \in ChainIDs \cup {NoFlag}, simulateOnly \in BOOLEAN :
       Start(r, flag, simulateOnly)
  \/ detectChainID(r)
  \/ queryBaseAccount(r)
  \/ Simulate(r)
  \/ \E accepted, answered \in BOOLEAN : BroadcastTx(r, accepted, answered)
  \/ RunFails(r)

Next ==
  \/ \E r \in Runs : SendCommand(r) \/ runTxBroadcast(r)
  \/ \E r \in Runs, fails \in BOOLEAN : DeliverTx(r, fails)
  \/ Commit
  \/ SetCircuit

Spec == Init /\ [][Next]_vars

-----------------------------------------------------------------------------
(* Properties.                                                             *)

Accounts == [sequence : Nat, funds : Nat]

\* Every variable keeps its type: the ante handler never takes a fee the
\* account cannot pay.
TypeOK ==
  /\ run \in [ Runs -> [ pc : {"idle", "connected", "resolved", "signed", "done", "failed"},
                         simulateOnly : BOOLEAN, chain : ChainIDs \cup {NoFlag},
                         sequence : Nat ] ]
  /\ printed \subseteq Runs /\ network \subseteq Runs /\ released \subseteq Runs
  /\ committed \in Accounts /\ account \in Accounts
  /\ paid \in [Runs -> Nat]
  /\ tripped \in BOOLEAN

\* However often signed bytes are broadcast and included, they pay once; and of
\* runs that read the same sequence, because they overlapped or because the
\* transaction of an earlier run was not committed yet, only one pays.
SequencePaysOnce ==
  \A r, s \in Runs :
    /\ paid[r] <= 1
    /\ paid[r] > 0 /\ paid[s] > 0 /\ run[r].sequence = run[s].sequence => r = s

\* The sender loses one fee per sequence used and one amount per payment.
FundsAccounted ==
  InitialFunds - account.funds
    = Fee * account.sequence + Amount * SumFunction(paid)

\* "run simulation only without broadcasting": only a transaction that was
\* broadcast on purpose pays.
OnlyReleasedPays == \A r \in Runs : paid[r] > 0 => r \in released
=============================================================================
