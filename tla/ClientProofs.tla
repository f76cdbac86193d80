---------------------------- MODULE ClientProofs ----------------------------
(***************************************************************************)
(* Theorems about the two long-running parts of the example client.        *)
(* TxSend: for any finite set of runs, any chain ids, fees, amounts and    *)
(* funds.  BlockWatch: for chains of any length and blocks of any size,    *)
(* any lag of the endpoint and any page size.                              *)
(***************************************************************************)
EXTENDS TxSend, BlockWatch, SumTheorems, TLAPS

-----------------------------------------------------------------------------
(* The sender and the ante handler.                                        *)


\* Bytes reach the network, or are printed, only once they are signed: the
\* sequence a transaction carries cannot change under it any more.
SignedBytesFixed == \A r \in network \cup printed : run[r].pc \in {"done", "failed"}

\* A transaction that paid was broadcast, and its sequence is used up.
PaidSequenceUsed ==
  \A r \in Runs : paid[r] > 0 => r \in network /\ run[r].sequence < account.sequence

\* Whatever is on the network somebody asked to broadcast.
NetworkReleased == network \subseteq released

IInv ==
  /\ TypeOK
  /\ SignedBytesFixed
  /\ PaidSequenceUsed
  /\ SequencePaysOnce
  /\ NetworkReleased

RunRecords ==
  [ pc : {"idle", "connected", "resolved", "signed", "done", "failed"},
    simulateOnly : BOOLEAN, chain : ChainIDs \cup {NoFlag}, sequence : Nat ]

USE TxSendAssumption

LEMMA InitIInv == Init => IInv
<1> SUFFICES ASSUME Init PROVE IInv
  OBVIOUS
<1>1. committed \in Accounts /\ account \in Accounts
  BY DEF Init, Accounts
<1>2. paid \in [Runs -> Nat] /\ \A r \in Runs : paid[r] = 0
  BY DEF Init
<1>3. Idle \in RunRecords
  BY DEF Idle, RunRecords
<1>4. run \in [Runs -> RunRecords]
  BY <1>3 DEF Init
<1>5. tripped \in BOOLEAN
  BY Zenon DEF Init
<1>6. TypeOK
  BY <1>1, <1>2, <1>4, <1>5 DEF Init, TypeOK, RunRecords
<1> QED
  BY <1>2, <1>6
  DEF Init, IInv, SignedBytesFixed, PaidSequenceUsed, SequencePaysOnce, NetworkReleased

\* A step of the client leaves the account and the payments alone and never
\* touches a run whose transaction may pay.
LEMMA SendCommandIInv ==
  ASSUME IInv, NEW r \in Runs, SendCommand(r)
  PROVE  IInv'
<1> USE DEF IInv
<1>1. ASSUME NEW flag \in ChainIDs \cup {NoFlag}, NEW simulateOnly \in BOOLEAN,
             Start(r, flag, simulateOnly)
      PROVE  IInv'
  <2>1. r \notin network \cup printed
    BY <1>1 DEF Start, SignedBytesFixed
  <2>2. TypeOK'
    BY <1>1 DEF Start, TypeOK
  <2> QED
    BY <1>1, <2>1, <2>2
    DEF Start, TypeOK, SignedBytesFixed, PaidSequenceUsed, SequencePaysOnce,
        NetworkReleased
<1>2. CASE detectChainID(r)
  <2>1. r \notin network \cup printed
    BY <1>2 DEF detectChainID, SignedBytesFixed
  <2>2. resolvedChainID(run[r].chain) \in ChainIDs \cup {NoFlag}
    BY DEF resolvedChainID, TypeOK
  <2>3. run' \in [Runs -> RunRecords]
    <3> DEFINE rec == [ run[r] EXCEPT !.pc = "resolved",
                                      !.chain = resolvedChainID(run[r].chain) ]
    <3>1. run \in [Runs -> RunRecords]
      BY DEF TypeOK, RunRecords
    <3>2. rec \in RunRecords
      BY <2>2, <3>1 DEF RunRecords
    <3>3. run' = [ run EXCEPT ![r] = rec ]
      BY <1>2, <3>1 DEF detectChainID, RunRecords
    <3> QED
      BY ONLY <3>1, <3>2, <3>3
  <2>4. TypeOK'
    BY <1>2, <2>3 DEF detectChainID, TypeOK, RunRecords
  <2> QED
    BY <1>2, <2>1, <2>4
    DEF detectChainID, TypeOK, SignedBytesFixed, PaidSequenceUsed,
        SequencePaysOnce, NetworkReleased
<1>3. CASE queryBaseAccount(r)
  <2>1. r \notin network \cup printed
    BY <1>3 DEF queryBaseAccount, SignedBytesFixed
  <2>2. committed.sequence \in Nat
    BY DEF TypeOK, Accounts
  <2>3. run' \in [Runs -> RunRecords]
    <3> DEFINE rec == [ run[r] EXCEPT !.pc = "signed", !.sequence = committed.sequence ]
    <3>1. run \in [Runs -> RunRecords]
      BY DEF TypeOK, RunRecords
    <3>2. rec \in RunRecords
      BY <2>2, <3>1 DEF RunRecords
    <3>3. run' = [ run EXCEPT ![r] = rec ]
      BY <1>3, <3>1 DEF queryBaseAccount, RunRecords
    <3> QED
      BY ONLY <3>1, <3>2, <3>3
  <2>4. TypeOK'
    BY <1>3, <2>3 DEF queryBaseAccount, TypeOK, RunRecords
  <2> QED
    BY <1>3, <2>1, <2>4
    DEF queryBaseAccount, TypeOK, SignedBytesFixed, PaidSequenceUsed,
        SequencePaysOnce, NetworkReleased
<1>4. CASE Simulate(r)
  <2>1. TypeOK'
    BY <1>4 DEF Simulate, TypeOK
  <2> QED
    BY <1>4, <2>1
    DEF Simulate, TypeOK, SignedBytesFixed, PaidSequenceUsed, SequencePaysOnce,
        NetworkReleased
<1>5. ASSUME NEW accepted \in BOOLEAN, NEW answered \in BOOLEAN,
             BroadcastTx(r, accepted, answered)
      PROVE  IInv'
  <2>1. TypeOK'
    BY <1>5 DEF BroadcastTx, TypeOK
  <2>2. /\ network \subseteq network' /\ network' \subseteq network \cup {r}
        /\ printed' \subseteq printed \cup {r}
        /\ released' = released \cup {r}
        /\ run'[r].pc \in {"done", "failed"}
        /\ \A s \in Runs : run'[s].sequence = run[s].sequence
        /\ \A s \in Runs \ {r} : run'[s] = run[s]
    BY <1>5 DEF BroadcastTx, TypeOK
  <2> QED
    BY <1>5, <2>1, <2>2
    DEF BroadcastTx, TypeOK, SignedBytesFixed, PaidSequenceUsed,
        SequencePaysOnce, NetworkReleased
<1>6. CASE RunFails(r)
  <2>1. TypeOK'
    BY <1>6 DEF RunFails, TypeOK
  <2> QED
    BY <1>6, <2>1
    DEF RunFails, TypeOK, SignedBytesFixed, PaidSequenceUsed, SequencePaysOnce,
        NetworkReleased
<1> QED
  BY <1>1, <1>2, <1>3, <1>4, <1>5, <1>6 DEF SendCommand

\* The ante handler uses the account's sequence, so what paid before had an
\* earlier one.
LEMMA DeliverTxIInv ==
  ASSUME IInv, NEW r \in Runs, NEW fails \in BOOLEAN, DeliverTx(r, fails)
  PROVE  IInv'
<1> USE DEF IInv
<1>1. /\ account.funds \in Nat /\ account.funds >= Fee
      /\ account.sequence \in Nat
      /\ run[r].sequence = account.sequence
      /\ r \in network
  BY DEF DeliverTx, AnteHandlerPasses, SigVerifies, TypeOK, Accounts
<1>2. AnteHandler(account) = [sequence |-> account.sequence + 1,
                              funds |-> account.funds - Fee]
  <2>1. account = [sequence |-> account.sequence, funds |-> account.funds]
    BY DEF TypeOK, Accounts
  <2>2. DeductFee(account) = [sequence |-> account.sequence,
                              funds |-> account.funds - Fee]
    BY <2>1 DEF DeductFee
  <2> QED
    BY <2>2 DEF AnteHandler, IncrementSequence
<1>3. /\ account' \in Accounts
      /\ account'.sequence = account.sequence + 1
      /\ paid' = paid \/ paid' = [paid EXCEPT ![r] = @ + 1]
  BY <1>1, <1>2 DEF DeliverTx, Accounts
<1>4. paid[r] = 0
  BY <1>1 DEF PaidSequenceUsed, TypeOK
<1>5. UNCHANGED <<run, printed, network, released, committed, tripped>>
  BY DEF DeliverTx
<1>6. TypeOK'
  BY <1>3, <1>5 DEF TypeOK
<1>7. \A s \in Runs : s # r => paid'[s] = paid[s]
  BY <1>3 DEF TypeOK
<1>8. paid'[r] \in {0, 1}
  BY <1>3, <1>4 DEF TypeOK
<1>9. PaidSequenceUsed'
  BY <1>1, <1>3, <1>5, <1>7 DEF PaidSequenceUsed, TypeOK
<1>10. SequencePaysOnce'
  BY <1>1, <1>5, <1>7, <1>8 DEF SequencePaysOnce, PaidSequenceUsed, TypeOK
<1> QED
  BY <1>5, <1>6, <1>9, <1>10 DEF SignedBytesFixed, NetworkReleased

LEMMA NextIInv == IInv /\ [Next]_vars => IInv'
<1> SUFFICES ASSUME IInv, [Next]_vars
             PROVE  IInv'
  OBVIOUS
<1>1. ASSUME NEW r \in Runs, SendCommand(r) PROVE IInv'
  BY <1>1, SendCommandIInv
<1>2. ASSUME NEW r \in Runs, runTxBroadcast(r) PROVE IInv'
  BY <1>2 DEF runTxBroadcast, IInv, TypeOK, SignedBytesFixed, PaidSequenceUsed,
              SequencePaysOnce, NetworkReleased
<1>3. ASSUME NEW r \in Runs, NEW fails \in BOOLEAN, DeliverTx(r, fails) PROVE IInv'
  BY <1>3, DeliverTxIInv
<1>4. CASE Commit
  BY <1>4 DEF Commit, IInv, TypeOK, SignedBytesFixed, PaidSequenceUsed,
              SequencePaysOnce, NetworkReleased
<1>5. CASE SetCircuit
  BY <1>5 DEF SetCircuit, IInv, TypeOK, SignedBytesFixed, PaidSequenceUsed,
              SequencePaysOnce, NetworkReleased
<1>6. CASE UNCHANGED vars
  BY <1>6 DEF vars, IInv, TypeOK, SignedBytesFixed, PaidSequenceUsed,
              SequencePaysOnce, NetworkReleased
<1> QED
  BY <1>1, <1>2, <1>3, <1>4, <1>5, <1>6 DEF Next

\* Every reachable state satisfies the inductive invariant: signed bytes stay as
\* they are, and a payment uses up its sequence.
THEOREM InvariantHolds == Spec => []IInv
  BY InitIInv, NextIInv, PTL DEF Spec

\* No transfer takes the account below zero: the ante handler checks the fee, the
\* message its amount, and the account's record keeps its type.
THEOREM TypeCorrect == Spec => []TypeOK
<1>1. IInv => TypeOK
  BY DEF IInv
<1> QED
  BY <1>1, InvariantHolds, PTL

\* The sequence mechanism of the sender and the ante handler: signed bytes pay
\* once however often they are broadcast and included, and of runs with the
\* same sequence only one pays.
THEOREM SequenceAlwaysPaysOnce == Spec => []SequencePaysOnce
<1>1. IInv => SequencePaysOnce
  BY DEF IInv
<1> QED
  BY <1>1, InvariantHolds, PTL

\* -simulate-only: a transaction pays only if somebody asked to broadcast it.
THEOREM OnlyReleasedEverPays == Spec => []OnlyReleasedPays
<1>1. IInv => OnlyReleasedPays
  BY DEF IInv, OnlyReleasedPays, PaidSequenceUsed, NetworkReleased
<1> QED
  BY <1>1, InvariantHolds, PTL

-----------------------------------------------------------------------------
(* The sender's account book.                                              *)

\* What a fee and an amount do to both sides of the account book.
LEMMA BookEntry ==
  ASSUME NEW seq \in Nat, NEW sum \in Nat, NEW funds \in Nat,
         InitialFunds - funds = Fee * seq + Amount * sum
  PROVE  /\ InitialFunds - (funds - Fee) = Fee * (seq + 1) + Amount * sum
         /\ InitialFunds - ((funds - Fee) - Amount) = Fee * (seq + 1) + Amount * (sum + 1)
<1>1. Fee * (seq + 1) = Fee * seq + Fee /\ Amount * (sum + 1) = Amount * sum + Amount
  OBVIOUS
<1> DEFINE p == Fee * seq
           q == Amount * sum
<1>2. p \in Int /\ q \in Int
  OBVIOUS
<1>3. InitialFunds - funds = p + q
  OBVIOUS
<1> HIDE DEF p, q
<1>4. /\ InitialFunds - (funds - Fee) = (p + Fee) + q
      /\ InitialFunds - ((funds - Fee) - Amount) = (p + Fee) + (q + Amount)
  BY <1>2, <1>3
<1> QED
  BY <1>1, <1>4 DEF p, q

\* A delivered transaction takes one fee and uses one sequence, and takes one
\* amount exactly if it pays.
LEMMA DeliverTxAccounted ==
  ASSUME IInv, FundsAccounted, NEW r \in Runs, NEW fails \in BOOLEAN, DeliverTx(r, fails)
  PROVE  FundsAccounted'
<1> DEFINE seq == account.sequence
           funds == account.funds
           sum == SumFunction(paid)
<1>1. /\ seq \in Nat /\ funds \in Nat
      /\ paid \in [Runs -> Nat]
  BY DEF IInv, TypeOK, Accounts
<1>2. AnteHandler(account) = [sequence |-> seq + 1, funds |-> funds - Fee]
  <2>1. account = [sequence |-> seq, funds |-> funds]
    BY DEF IInv, TypeOK, Accounts
  <2>2. DeductFee(account) = [sequence |-> seq, funds |-> funds - Fee]
    BY <2>1 DEF DeductFee
  <2> QED
    BY <2>2 DEF AnteHandler, IncrementSequence
<1>3. sum \in Nat
  BY <1>1, FunctionSumNat
<1>4. InitialFunds - funds = Fee * seq + Amount * sum
  BY DEF FundsAccounted
<1>5. CASE /\ account' = [sequence |-> seq + 1, funds |-> (funds - Fee) - Amount]
           /\ paid' = [paid EXCEPT ![r] = @ + 1]
  <2>1. /\ paid' \in [Runs -> Nat] /\ paid'[r] = paid[r] + 1
        /\ \A s \in Runs : s # r => paid'[s] = paid[s]
    BY <1>1, <1>5
  <2>2. SumFunction(paid') = sum - paid[r] + paid'[r]
    BY <1>1, <2>1, FunctionSumUpdate
  <2>3. SumFunction(paid') = sum + 1
    BY <1>1, <1>3, <2>1, <2>2
  <2>4. account'.sequence = seq + 1 /\ account'.funds = (funds - Fee) - Amount
    BY <1>5
  <2> HIDE DEF seq, funds, sum
  <2>5. InitialFunds - ((funds - Fee) - Amount) = Fee * (seq + 1) + Amount * (sum + 1)
    BY <1>1, <1>3, <1>4, BookEntry
  <2> QED
    BY <2>3, <2>4, <2>5 DEF FundsAccounted
<1>6. CASE /\ account' = [sequence |-> seq + 1, funds |-> funds - Fee]
           /\ UNCHANGED paid
  <2>1. account'.sequence = seq + 1 /\ account'.funds = funds - Fee
    BY <1>6
  <2>2. SumFunction(paid') = sum
    BY <1>6
  <2> HIDE DEF seq, funds, sum
  <2>3. InitialFunds - (funds - Fee) = Fee * (seq + 1) + Amount * sum
    BY <1>1, <1>3, <1>4, BookEntry
  <2> QED
    BY <2>1, <2>2, <2>3 DEF FundsAccounted
<1> QED
  BY <1>2, <1>5, <1>6 DEF DeliverTx

\* Every coin that left the sender's account is a fee of a used sequence or the
\* amount of a counted payment, whatever runs overlap, fail or are repeated.
THEOREM FundsAlwaysAccounted == Spec => []FundsAccounted
<1>1. Init => FundsAccounted
  <2> SUFFICES ASSUME Init PROVE FundsAccounted
    OBVIOUS
  <2>1. paid \in [Runs -> Nat] /\ \A r \in Runs : paid[r] = 0
    BY DEF Init
  <2>2. SumFunction(paid) = 0
    BY <2>1, FunctionSumZero
  <2> QED
    BY <2>2 DEF Init, FundsAccounted
<1>2. IInv /\ FundsAccounted /\ [Next]_vars => FundsAccounted'
  <2> SUFFICES ASSUME IInv, FundsAccounted, [Next]_vars
               PROVE  FundsAccounted'
    OBVIOUS
  <2>1. ASSUME NEW r \in Runs, NEW fails \in BOOLEAN, DeliverTx(r, fails)
        PROVE  FundsAccounted'
    BY <2>1, DeliverTxAccounted
  <2>2. ASSUME account' = account, paid' = paid PROVE FundsAccounted'
    BY <2>2 DEF FundsAccounted
  <2>3. ASSUME NEW r \in Runs, SendCommand(r) \/ runTxBroadcast(r)
        PROVE  account' = account /\ paid' = paid
    BY <2>3 DEF SendCommand, Start, detectChainID, queryBaseAccount, Simulate,
                BroadcastTx, RunFails, runTxBroadcast
  <2>4. Commit \/ SetCircuit \/ UNCHANGED vars => account' = account /\ paid' = paid
    BY DEF Commit, SetCircuit, vars
  <2> QED
    BY <2>1, <2>2, <2>3, <2>4 DEF Next
<1> QED
  BY <1>1, <1>2, InvariantHolds, PTL DEF Spec

HIDE TxSendAssumption

-----------------------------------------------------------------------------
(* The block watcher.                                                      *)

Printed == [ height : 0..MaxHeight, txCount : Nat, txs : SUBSET Nat,
             validators : NotCollected..MaxHeight ]

\* Phases in which the snapshot is about a block the chain has.
Collecting == {"txs", "validators", "count", "compare"}

\* What is collected is the first page of the block and, without -include-txs,
\* nothing but its total; the chain never changes a block it has.
CollectionSound ==
  /\ phase \in Collecting => snapshot.height \in 1..Len(chain)
  /\ snapshot.validators \in {NotCollected, snapshot.height}
  /\ phase = "txs" => opts.includeTxs /\ snapshot.txs = 0
  /\ phase = "count" => ~opts.includeTxs
  /\ phase \in {"validators", "compare"} /\ opts.includeTxs =>
       /\ snapshot.txs = PageSize(snapshot.height)
       /\ snapshot.txCount = PageSize(snapshot.height)
  /\ phase \in Collecting /\ ~opts.includeTxs =>
       snapshot.txs = 0 /\ snapshot.txCount \in {0, chain[snapshot.height]}

\* Nothing newer than lastHeight, or than the chain, has been printed.
ReportSound ==
  \A i \in DOMAIN reported :
    /\ reported[i].height \in 1..Len(chain)
    /\ reported[i].height <= lastHeight

WatchIInv ==
  /\ WatchTypeOK
  /\ Len(chain) <= MaxHeight
  /\ CollectionSound
  /\ ReportSound
  /\ HeightsIncrease
  /\ SnapshotCoherent

\* What an appended sequence holds.
LEMMA AppendFacts ==
  ASSUME NEW S, NEW s \in Seq(S), NEW e \in S
  PROVE  /\ Append(s, e) \in Seq(S)
         /\ Len(Append(s, e)) = Len(s) + 1 /\ Len(s) \in Nat
         /\ DOMAIN s = 1..Len(s) /\ DOMAIN Append(s, e) = 1..(Len(s) + 1)
         /\ \A i \in 1..Len(s) : Append(s, e)[i] = s[i]
         /\ Append(s, e)[Len(s) + 1] = e
OBVIOUS

\* The watcher starts with nothing collected and nothing printed.
LEMMA WatchInitIInv == WatchInit => WatchIInv
<1> SUFFICES ASSUME WatchInit PROVE WatchIInv OBVIOUS
<1>1. PICK n \in TxCounts : chain = <<n>> BY DEF WatchInit
<1>2. chain \in Seq(TxCounts) /\ Len(chain) = 1 BY <1>1
<1>3. /\ opts \in [ includeTxs : BOOLEAN, includeValidators : BOOLEAN, once : BOOLEAN ]
      /\ phase = "top" /\ snapshot = Empty /\ lastHeight = -1
      /\ reported = <<>> /\ cancelled = FALSE
  BY DEF WatchInit
<1>4. Empty \in Snapshots /\ Empty.validators = NotCollected
  BY BlockWatchAssumption DEF Empty, Snapshots, NotCollected
<1>5. -1 \in -1..MaxHeight BY BlockWatchAssumption
<1>6. WatchTypeOK
  <2>1. <<>> \in Seq(Printed) OBVIOUS
  <2>2. "top" \in Phases BY DEF Phases
  <2>3. 0 \in Nat /\ FALSE \in BOOLEAN OBVIOUS
  <2> QED BY <1>2, <1>3, <1>4, <1>5, <2>1, <2>2, <2>3 DEF WatchTypeOK, Printed
<1>7. CollectionSound BY <1>3, <1>4 DEF CollectionSound, Collecting
<1>8. ReportSound /\ HeightsIncrease /\ SnapshotCoherent
  BY <1>3 DEF ReportSound, HeightsIncrease, SnapshotCoherent
<1>9. Len(chain) <= MaxHeight BY <1>2, BlockWatchAssumption
<1> QED BY <1>6, <1>7, <1>8, <1>9 DEF WatchIInv

\* A block of the chain has a natural number of transactions.
LEMMA BlockFacts ==
  ASSUME WatchTypeOK, NEW h \in 1..Len(chain) PROVE chain[h] \in Nat
<1>1. chain \in Seq(TxCounts) BY DEF WatchTypeOK
<1>2. chain[h] \in TxCounts BY <1>1
<1> QED BY <1>2, BlockWatchAssumption

\* A longer chain has the blocks it had: nothing collected or printed becomes
\* stale.
LEMMA ProduceBlockIInv ==
  ASSUME WatchIInv, NEW n \in TxCounts, ProduceBlock(n) PROVE WatchIInv'
<1>1. /\ Len(chain) < MaxHeight /\ chain' = Append(chain, n)
      /\ UNCHANGED <<opts, phase, snapshot, lastHeight, reported, cancelled>>
  BY DEF ProduceBlock
<1>2. chain \in Seq(TxCounts) BY DEF WatchIInv, WatchTypeOK
<1>3. /\ chain' \in Seq(TxCounts) /\ Len(chain') = Len(chain) + 1 /\ Len(chain) \in Nat
      /\ \A i \in 1..Len(chain) : chain'[i] = chain[i]
  BY <1>1, <1>2, AppendFacts
<1>4. WatchTypeOK' BY <1>1, <1>3 DEF WatchIInv, WatchTypeOK
<1>5. Len(chain') <= MaxHeight BY <1>1, <1>3, BlockWatchAssumption
<1>6. 1..Len(chain) \subseteq 1..Len(chain') BY <1>3
<1>7. CollectionSound'
  BY <1>1, <1>3, <1>6 DEF WatchIInv, CollectionSound, Collecting, PageSize
<1>8. ReportSound' BY <1>1, <1>6 DEF WatchIInv, ReportSound
<1>9. HeightsIncrease' BY <1>1 DEF WatchIInv, HeightsIncrease
<1>10. SnapshotCoherent'
  BY <1>1, <1>3 DEF WatchIInv, SnapshotCoherent, ReportSound, PageSize
<1> QED BY <1>4, <1>5, <1>7, <1>8, <1>9, <1>10 DEF WatchIInv

\* A step that prints nothing keeps the invariant if the collection stays
\* sound.
LEMMA QuietStepIInv ==
  ASSUME WatchIInv, UNCHANGED <<chain, opts, lastHeight, reported>>,
         phase' \in Phases, snapshot' \in Snapshots,
         cancelled' \in BOOLEAN, CollectionSound'
  PROVE  WatchIInv'
<1>1. WatchTypeOK' BY DEF WatchIInv, WatchTypeOK
<1>2. ReportSound' /\ HeightsIncrease' /\ SnapshotCoherent'
  BY DEF WatchIInv, ReportSound, HeightsIncrease, SnapshotCoherent, PageSize
<1> QED BY <1>1, <1>2 DEF WatchIInv

\* Steps of the loop that collect nothing.
LEMMA LoopStepIInv ==
  ASSUME WatchIInv, UNCHANGED <<chain, opts, snapshot, lastHeight, reported>>,
         phase' = phase \/ phase' \in {"top", "latest", "wait", "stopped"},
         cancelled' \in BOOLEAN
  PROVE  WatchIInv'
<1>1. phase' \in Phases /\ snapshot' \in Snapshots
  BY DEF WatchIInv, WatchTypeOK, Phases
<1>2. CollectionSound' BY DEF WatchIInv, CollectionSound, Collecting, PageSize
<1> QED BY <1>1, <1>2, QuietStepIInv

\* A latest block starts a collection of its own.
LEMMA GetLatestBlockIInv ==
  ASSUME WatchIInv, NEW height \in 1..Len(chain), GetLatestBlock(height) PROVE WatchIInv'
<1>1. /\ snapshot' = [Empty EXCEPT !.height = height]
      /\ phase' = IF opts.includeTxs THEN "txs" ELSE AfterTxs
      /\ UNCHANGED <<chain, opts, lastHeight, reported, cancelled>>
  BY DEF GetLatestBlock
<1>2. Len(chain) \in Nat /\ Len(chain) <= MaxHeight BY DEF WatchIInv, WatchTypeOK
<1>3. height \in 0..MaxHeight BY <1>2, BlockWatchAssumption
<1>4. snapshot' = [ height |-> height, txs |-> 0, txCount |-> 0,
                    validators |-> NotCollected ]
  BY <1>1 DEF Empty
<1>5. NotCollected \in NotCollected..MaxHeight BY BlockWatchAssumption DEF NotCollected
<1>6. snapshot' \in Snapshots BY <1>3, <1>4, <1>5 DEF Snapshots
<1>7. \/ phase' = "txs" /\ opts.includeTxs
      \/ phase' \in {"validators", "count"} /\ ~opts.includeTxs
  BY <1>1 DEF AfterTxs, AfterValidators
<1>8. chain[height] \in Nat BY BlockFacts DEF WatchIInv
<1>9. CollectionSound'
  BY <1>1, <1>4, <1>7, <1>8 DEF CollectionSound, Collecting
<1>10. phase' \in Phases BY <1>7 DEF Phases
<1>11. cancelled' \in BOOLEAN BY <1>1 DEF WatchIInv, WatchTypeOK
<1> QED BY <1>1, <1>6, <1>9, <1>10, <1>11, QuietStepIInv

\* A page is a part of its block.
LEMMA PageFacts ==
  ASSUME WatchTypeOK, NEW height \in 1..Len(chain)
  PROVE  PageSize(height) \in Nat /\ PageSize(height) <= chain[height]
<1>1. chain[height] \in Nat BY BlockFacts
<1> QED BY <1>1, BlockWatchAssumption DEF PageSize

\* Collecting the page keeps the invariant.
LEMMA GetBlockWithTxsIInv == ASSUME WatchIInv, GetBlockWithTxs PROVE WatchIInv'
<1> DEFINE size == PageSize(snapshot.height)
<1>1. /\ phase = "txs"
      /\ snapshot' = [snapshot EXCEPT !.txs = snapshot.txs + size,
                                      !.txCount = snapshot.txs + size]
      /\ phase' = AfterTxs
      /\ UNCHANGED <<chain, opts, lastHeight, reported, cancelled>>
  BY DEF GetBlockWithTxs, NextKey
<1>2. /\ snapshot.height \in 1..Len(chain) /\ opts.includeTxs /\ snapshot.txs = 0
      /\ snapshot.validators \in {NotCollected, snapshot.height}
  BY <1>1 DEF WatchIInv, CollectionSound, Collecting
<1>3. WatchTypeOK /\ snapshot \in Snapshots BY DEF WatchIInv, WatchTypeOK
<1>4. size \in Nat BY <1>2, <1>3, PageFacts
<1>5. PageSize(snapshot.height)' = size
  <2>1. snapshot'.height = snapshot.height BY <1>1, <1>3 DEF Snapshots
  <2> QED BY <1>1, <2>1 DEF PageSize
<1> HIDE DEF size
<1>6. /\ snapshot' \in Snapshots
      /\ snapshot'.height = snapshot.height /\ snapshot'.validators = snapshot.validators
      /\ snapshot'.txs = size /\ snapshot'.txCount = size
  <2>1. snapshot.txs + size = size BY <1>2, <1>4
  <2> QED BY <1>1, <1>3, <1>4, <2>1 DEF Snapshots
<1>7. phase' \in {"validators", "compare"}
  BY <1>1, <1>2 DEF AfterTxs, AfterValidators
<1>8. CollectionSound'
  BY <1>1, <1>2, <1>5, <1>6, <1>7 DEF CollectionSound, Collecting
<1> QED BY <1>1, <1>6, <1>7, <1>8, QuietStepIInv DEF WatchIInv, WatchTypeOK, Phases

\* The validators asked for are those of the block's height.
LEMMA GetValidatorSetByHeightIInv ==
  ASSUME WatchIInv, GetValidatorSetByHeight PROVE WatchIInv'
<1>1. /\ phase = "validators"
      /\ snapshot' = [snapshot EXCEPT !.validators = snapshot.height]
      /\ phase' = AfterValidators
      /\ UNCHANGED <<chain, opts, lastHeight, reported, cancelled>>
  BY DEF GetValidatorSetByHeight, ValidatorsAt
<1>2. snapshot \in Snapshots /\ snapshot.height \in NotCollected..MaxHeight
  BY DEF WatchIInv, WatchTypeOK, Snapshots, NotCollected
<1>3. /\ snapshot' \in Snapshots
      /\ snapshot'.height = snapshot.height /\ snapshot'.validators = snapshot.height
      /\ snapshot'.txs = snapshot.txs /\ snapshot'.txCount = snapshot.txCount
  BY <1>1, <1>2 DEF Snapshots
<1>4. phase' = "compare" \/ (phase' = "count" /\ ~opts.includeTxs)
  BY <1>1 DEF AfterValidators
<1>5. CollectionSound'
  BY <1>1, <1>3, <1>4 DEF WatchIInv, CollectionSound, Collecting, PageSize
<1> QED BY <1>1, <1>3, <1>4, <1>5, QuietStepIInv DEF WatchIInv, WatchTypeOK, Phases

\* A count without transactions prints no transactions.
LEMMA CountTxsIInv ==
  ASSUME WatchIInv, NEW fails \in BOOLEAN, CountTxs(fails) PROVE WatchIInv'
<1> DEFINE count == IF fails THEN 0 ELSE chain[snapshot.height]
<1>1. /\ phase = "count" /\ snapshot' = [snapshot EXCEPT !.txCount = count]
      /\ phase' = "compare"
      /\ UNCHANGED <<chain, opts, lastHeight, reported, cancelled>>
  BY DEF CountTxs
<1>2. snapshot.height \in 1..Len(chain) /\ ~opts.includeTxs
  BY <1>1 DEF WatchIInv, CollectionSound, Collecting
<1>3. count \in Nat /\ count \in {0, chain[snapshot.height]}
  BY <1>2, BlockFacts DEF WatchIInv
<1> HIDE DEF count
<1>4. /\ snapshot' \in Snapshots
      /\ snapshot'.height = snapshot.height
      /\ snapshot'.validators = snapshot.validators
      /\ snapshot'.txs = snapshot.txs /\ snapshot'.txCount = count
  BY <1>1, <1>3 DEF WatchIInv, WatchTypeOK, Snapshots
<1>5. CollectionSound'
  BY <1>1, <1>2, <1>3, <1>4 DEF WatchIInv, CollectionSound, Collecting
<1> QED BY <1>1, <1>4, <1>5, QuietStepIInv DEF WatchIInv, WatchTypeOK, Phases

\* A printed block is higher than all before it, and what is printed is what
\* was collected for its height.
LEMMA PrintBlockIInv ==
  ASSUME WatchIInv, NEW fails \in BOOLEAN, PrintBlock(fails) PROVE WatchIInv'
<1> DEFINE e == buildPrintableBlockSnapshot(snapshot)
<1>1. /\ phase = "compare" /\ snapshot.height > lastHeight
      /\ UNCHANGED <<chain, opts, snapshot, cancelled>>
  BY DEF PrintBlock, IsNew
<1>2. CASE fails
  <2>1. phase' = "stopped" /\ UNCHANGED <<reported, lastHeight>>
    BY <1>2 DEF PrintBlock
  <2>2. cancelled' \in BOOLEAN BY <1>1 DEF WatchIInv, WatchTypeOK
  <2> QED BY <1>1, <2>1, <2>2, LoopStepIInv
<1>3. CASE ~fails
  <2>1. /\ reported' = Append(reported, e) /\ lastHeight' = snapshot.height
        /\ phase' \in {"stopped", "wait"}
    BY <1>3 DEF PrintBlock
  <2>2. /\ snapshot \in Snapshots /\ reported \in Seq(Printed)
        /\ lastHeight \in -1..MaxHeight
    BY DEF WatchIInv, WatchTypeOK, Printed
  <2>3. /\ snapshot.height \in 0..MaxHeight /\ snapshot.txs \in Nat
        /\ snapshot.txCount \in Nat /\ snapshot.validators \in NotCollected..MaxHeight
    BY <2>2 DEF Snapshots
  <2>4. /\ snapshot.height \in 1..Len(chain)
        /\ snapshot.validators \in {NotCollected, snapshot.height}
        /\ opts.includeTxs => /\ snapshot.txs = PageSize(snapshot.height)
                              /\ snapshot.txCount = PageSize(snapshot.height)
        /\ ~opts.includeTxs => /\ snapshot.txs = 0
                               /\ snapshot.txCount \in {0, chain[snapshot.height]}
    BY <1>1 DEF WatchIInv, CollectionSound, Collecting
  <2>5. /\ e.height = snapshot.height /\ e.txCount = snapshot.txCount
        /\ e.txs = 0..(snapshot.txs - 1) /\ e.validators = snapshot.validators
    BY DEF buildPrintableBlockSnapshot
  <2>6. e \in Printed
    <3>1. 0..(snapshot.txs - 1) \in SUBSET Nat BY <2>3
    <3> QED BY <2>3, <3>1 DEF buildPrintableBlockSnapshot, Printed
  <2> HIDE DEF e
  <2> DEFINE n == Len(reported)
  <2>7. /\ reported' \in Seq(Printed) /\ n \in Nat
        /\ DOMAIN reported = 1..n /\ DOMAIN reported' = 1..(n + 1)
        /\ \A i \in 1..n : reported'[i] = reported[i]
        /\ reported'[n + 1] = e
    BY <2>1, <2>2, <2>6, AppendFacts
  <2> HIDE DEF n
  <2>8. \A i \in DOMAIN reported' :
          \/ i \in DOMAIN reported /\ reported'[i] = reported[i]
          \/ i = n + 1 /\ reported'[i] = e
    BY <2>7
  <2>9. WatchTypeOK'
    <3>1. lastHeight' \in -1..MaxHeight BY <2>1, <2>3, BlockWatchAssumption
    <3>2. phase' \in Phases BY <2>1 DEF Phases
    <3> QED BY <1>1, <2>7, <3>1, <3>2 DEF WatchIInv, WatchTypeOK, Printed
  <2>10. CollectionSound'
    BY <1>1, <2>1, <2>4 DEF CollectionSound, Collecting
  <2>11. \A i \in DOMAIN reported :
           reported[i].height \in 1..Len(chain) /\ reported[i].height < snapshot.height
    BY <1>1, <2>2, <2>3 DEF WatchIInv, ReportSound
  <2>12. ReportSound'
    BY <1>1, <2>1, <2>3, <2>4, <2>5, <2>8, <2>11 DEF ReportSound
  <2>13. HeightsIncrease'
    <3> SUFFICES ASSUME NEW i \in DOMAIN reported', NEW j \in DOMAIN reported', i < j
                 PROVE  reported'[i].height < reported'[j].height
      BY DEF HeightsIncrease
    <3>1. i \in DOMAIN reported BY <2>7
    <3>2. reported'[i] = reported[i] BY <2>7, <3>1
    <3>3. CASE j \in DOMAIN reported
      BY <2>7, <3>1, <3>2, <3>3 DEF WatchIInv, HeightsIncrease
    <3>4. CASE j = n + 1
      BY <2>5, <2>7, <2>11, <3>1, <3>2, <3>4
    <3> QED BY <2>8, <3>3, <3>4
  <2>14. SnapshotCoherent'
    <3>1. ~opts.includeTxs => e.txs = {} BY <2>4, <2>5
    <3> DEFINE Fits(x) ==
          /\ x.validators \in {NotCollected, x.height}
          /\ opts.includeTxs => /\ x.txs = 0..(PageSize(x.height) - 1)
                                /\ x.txCount = PageSize(x.height)
          /\ ~opts.includeTxs => x.txs = {} /\ x.txCount \in {0, chain[x.height]}
    <3>2. Fits(e) BY <2>4, <2>5, <3>1
    <3>3. \A i \in DOMAIN reported : Fits(reported[i]) BY DEF WatchIInv, SnapshotCoherent
    <3>4. \A i \in DOMAIN reported' : Fits(reported'[i]) BY <2>8, <3>2, <3>3
    <3> QED BY <1>1, <3>4 DEF SnapshotCoherent, PageSize
  <2> QED BY <1>1, <2>9, <2>10, <2>12, <2>13, <2>14 DEF WatchIInv
<1> QED BY <1>2, <1>3

\* Every step preserves the invariant.
LEMMA WatchNextIInv == WatchIInv /\ [WatchNext]_watchVars => WatchIInv'
<1> SUFFICES ASSUME WatchIInv, [WatchNext]_watchVars PROVE WatchIInv' OBVIOUS
<1>0. cancelled \in BOOLEAN BY DEF WatchIInv, WatchTypeOK
<1>1. ASSUME NEW n \in TxCounts, ProduceBlock(n) PROVE WatchIInv'
  BY <1>1, ProduceBlockIInv
<1>2. CASE Cancel BY <1>2, LoopStepIInv DEF Cancel
<1>3. CASE LoopTop BY <1>0, <1>3, LoopStepIInv DEF LoopTop
<1>4. CASE IgnoreBlock BY <1>0, <1>4, LoopStepIInv DEF IgnoreBlock
<1>5. CASE Wait BY <1>0, <1>5, LoopStepIInv DEF Wait
<1>6. CASE CallFails BY <1>0, <1>6, LoopStepIInv DEF CallFails
<1>7. CASE Call
  BY <1>6, <1>7, GetLatestBlockIInv, GetBlockWithTxsIInv,
     GetValidatorSetByHeightIInv, CountTxsIInv DEF Call
<1>8. CASE UNCHANGED watchVars BY <1>0, <1>8, LoopStepIInv DEF watchVars
<1> QED BY <1>1, <1>2, <1>3, <1>4, <1>5, <1>7, <1>8, PrintBlockIInv DEF WatchNext, Watcher

-----------------------------------------------------------------------------
(* Theorems.                                                               *)

\* Every reachable state satisfies the inductive invariant.
THEOREM WatchInvariance == WatchSpec => []WatchIInv
BY WatchInitIInv, WatchNextIInv, PTL DEF WatchSpec

\* The state stays typed: a page never reaches past its block.
THEOREM WatchTypeCorrect == WatchSpec => []WatchTypeOK
<1>1. WatchIInv => WatchTypeOK BY DEF WatchIInv
<1> QED BY WatchInvariance, <1>1, PTL

\* Printed heights increase, although an endpoint may answer for an earlier
\* block than before.
THEOREM HeightsAlwaysIncrease == WatchSpec => []HeightsIncrease
<1>1. WatchIInv => HeightsIncrease BY DEF WatchIInv
<1> QED BY WatchInvariance, <1>1, PTL

\* Transactions and validators printed under a height are that block's, although
\* they come from calls between which the chain goes on: of its transactions
\* exactly those of one page, or none and the total.
THEOREM SnapshotsAlwaysCoherent == WatchSpec => []SnapshotCoherent
<1>1. WatchIInv => SnapshotCoherent BY DEF WatchIInv
<1> QED BY WatchInvariance, <1>1, PTL
=============================================================================
