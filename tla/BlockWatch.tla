------------------------------ MODULE BlockWatch ------------------------------
(***************************************************************************)
(* The block watcher of examples/go-client ("chain watch"): a loop that    *)
(* polls the latest block, collects its transactions and its validators in *)
(* separate calls, and prints it if it is new.  The chain grows between    *)
(* any two calls, and the endpoint may answer for a block up to MaxLag     *)
(* behind the chain, as replicas behind one address do.                    *)
(***************************************************************************)
EXTENDS Integers, Sequences, SequencesExt

CONSTANTS
  MaxHeight,    \* bound on the height of the chain
  TxCounts,     \* numbers of transactions in a block
  MaxLag,       \* how far behind the chain an answer may be
  txPageLimit   \* transactions of one answer

ASSUME BlockWatchAssumption ==
  /\ MaxHeight \in Nat \ {0} /\ MaxLag \in Nat
  /\ TxCounts \subseteq Nat
  /\ txPageLimit \in Nat \ {0}

VARIABLES
  chain,       \* number of transactions of each block
  opts,        \* -include-txs, -include-validators, -once
  phase,       \* where the loop is
  snapshot,    \* the block being collected
  lastHeight,  \* height printed last; -1 at first
  reported,    \* snapshots printed
  cancelled    \* the caller's context is cancelled

watchVars == <<chain, opts, phase, snapshot, lastHeight, reported, cancelled>>

\* txs: how many transactions are collected; txCount: the number to print;
\* validators: the height their set was asked for, or NotCollected.
NotCollected == -1
Snapshots == [ height : 0..MaxHeight, txs : Nat, txCount : Nat,
               validators : NotCollected..MaxHeight ]
Empty == [ height |-> 0, txs |-> 0, txCount |-> 0, validators |-> NotCollected ]

\* What is printed: transactions are listed by their index.
buildPrintableBlockSnapshot(s) ==
  [ height |-> s.height, txCount |-> s.txCount, txs |-> 0..(s.txs - 1),
    validators |-> s.validators ]

Phases == {"top", "latest", "txs", "validators", "count", "compare", "wait", "stopped"}

WatchInit ==
  /\ \E n \in TxCounts : chain = <<n>>
  /\ opts \in [ includeTxs : BOOLEAN, includeValidators : BOOLEAN, once : BOOLEAN ]
  /\ phase = "top"
  /\ snapshot = Empty
  /\ lastHeight = -1
  /\ reported = <<>>
  /\ cancelled = FALSE

-----------------------------------------------------------------------------
(* The chain and the caller.                                               *)

ProduceBlock(n) ==
  /\ Len(chain) < MaxHeight
  /\ chain' = Append(chain, n)
  /\ UNCHANGED <<opts, phase, snapshot, lastHeight, reported, cancelled>>

Cancel ==
  /\ ~cancelled
  /\ cancelled' = TRUE
  /\ UNCHANGED <<chain, opts, phase, snapshot, lastHeight, reported>>

-----------------------------------------------------------------------------
(* watchLatestBlocks.                                                      *)

LoopTop ==
  /\ phase = "top"
  /\ phase' = IF cancelled THEN "stopped" ELSE "latest"
  /\ UNCHANGED <<chain, opts, snapshot, lastHeight, reported, cancelled>>

IsNewIfDifferent(height) == height # lastHeight                    \* variant
IsNewIfNext(height) == lastHeight = -1 \/ height = lastHeight + 1  \* variant

IsNew(height) == height > lastHeight

\* A new block is printed; printing may fail, which ends the loop.
PrintBlock(fails) ==
  /\ phase = "compare"
  /\ IsNew(snapshot.height)
  /\ \/ /\ fails
        /\ phase' = "stopped"
        /\ UNCHANGED <<reported, lastHeight>>
     \/ /\ ~fails
        /\ reported' = Append(reported, buildPrintableBlockSnapshot(snapshot))
        /\ lastHeight' = snapshot.height
        /\ phase' = IF opts.once THEN "stopped" ELSE "wait"
  /\ UNCHANGED <<chain, opts, snapshot, cancelled>>

IgnoreBlock ==
  /\ phase = "compare"
  /\ ~IsNew(snapshot.height)
  /\ phase' = "wait"
  /\ UNCHANGED <<chain, opts, snapshot, lastHeight, reported, cancelled>>

\* The ticker fires or the context ends; with both ready either may win.
Wait ==
  /\ phase = "wait"
  /\ phase' \in {"top"} \cup (IF cancelled THEN {"stopped"} ELSE {})
  /\ UNCHANGED <<chain, opts, snapshot, lastHeight, reported, cancelled>>

-----------------------------------------------------------------------------
(* fetchLatestBlockSnapshot.                                               *)

\* The call after the one just made, given the options.
AfterValidators == IF opts.includeTxs THEN "compare" ELSE "count"
AfterTxs == IF opts.includeValidators THEN "validators" ELSE AfterValidators

GetLatestBlock(height) ==
  /\ phase = "latest"
  /\ height >= Len(chain) - MaxLag
  /\ snapshot' = [Empty EXCEPT !.height = height]
  /\ phase' = IF opts.includeTxs THEN "txs" ELSE AfterTxs
  /\ UNCHANGED <<chain, opts, lastHeight, reported, cancelled>>

(* The node's GetBlockWithTxs (external) pages by offset: it ignores the   *)
(* key of a request, so one without an offset gets the first page, and it  *)
(* fills in nothing of the answer's pagination but the total.              *)
PageSize(height) ==
  IF chain[height] < txPageLimit THEN chain[height] ELSE txPageLimit

NoKey == 0
NextKey(height) == NoKey

\* One round of fetchAllBlockTxs; an empty next key ends the loop.
GetBlockWithTxs ==
  LET txs == snapshot.txs + PageSize(snapshot.height)
  IN  /\ phase = "txs"
      /\ snapshot' = [snapshot EXCEPT !.txs = txs, !.txCount = txs]
      /\ phase' = IF NextKey(snapshot.height) = NoKey THEN AfterTxs ELSE "txs"
      /\ UNCHANGED <<chain, opts, lastHeight, reported, cancelled>>

LatestValidators(height) == Len(chain)  \* variant: the latest set is asked for

\* The height the validator set is asked for.
ValidatorsAt(height) == height

GetValidatorSetByHeight ==
  /\ phase = "validators"
  /\ snapshot' = [snapshot EXCEPT !.validators = ValidatorsAt(snapshot.height)]
  /\ phase' = AfterValidators
  /\ UNCHANGED <<chain, opts, lastHeight, reported, cancelled>>

\* Without -include-txs only the total is asked for, and a failure is ignored.
CountTxs(fails) ==
  /\ phase = "count"
  /\ snapshot' = [snapshot EXCEPT !.txCount = IF fails THEN 0 ELSE chain[snapshot.height]]
  /\ phase' = "compare"
  /\ UNCHANGED <<chain, opts, lastHeight, reported, cancelled>>

\* Any other call fails or runs into the poll's deadline: the watcher ends.
CallFails ==
  /\ phase \in {"latest", "txs", "validators"}
  /\ phase' = "stopped"
  /\ UNCHANGED <<chain, opts, snapshot, lastHeight, reported, cancelled>>

Call ==
  \/ \E height \in 1..Len(chain) : GetLatestBlock(height)
  \/ GetBlockWithTxs
  \/ GetValidatorSetByHeight
  \/ \E fails \in BOOLEAN : CountTxs(fails)
  \/ CallFails

Watcher ==
  LoopTop \/ Call \/ IgnoreBlock \/ Wait \/ \E fails \in BOOLEAN : PrintBlock(fails)

WatchNext ==
  \/ \E n \in TxCounts : ProduceBlock(n)
  \/ Cancel
  \/ Watcher

\* The process keeps running; the chain owes it no further blocks.
WatchSpec == WatchInit /\ [][WatchNext]_watchVars /\ WF_watchVars(Watcher)

-----------------------------------------------------------------------------
(* Properties.                                                             *)

\* Every variable keeps its type.
WatchTypeOK ==
  /\ chain \in Seq(TxCounts)
  /\ opts \in [ includeTxs : BOOLEAN, includeValidators : BOOLEAN, once : BOOLEAN ]
  /\ phase \in Phases
  /\ snapshot \in Snapshots
  /\ lastHeight \in -1..MaxHeight
  /\ reported \in Seq([ height : 0..MaxHeight, txCount : Nat, txs : SUBSET Nat,
                        validators : NotCollected..MaxHeight ])
  /\ cancelled \in BOOLEAN

\* "fires onNewBlock only for increasing heights", also when a later answer is
\* about an earlier block.
HeightsIncrease ==
  \A i, j \in DOMAIN reported : i < j => reported[i].height < reported[j].height

\* What is printed under a height belongs to it, although the block, its
\* transactions and the validators come from calls between which the chain goes
\* on: the first page of its own transactions and their number, or, without
\* them, the block's total if the node told it.
SnapshotCoherent ==
  \A i \in DOMAIN reported :
    LET s == reported[i]
    IN  /\ s.validators \in {NotCollected, s.height}
        /\ opts.includeTxs => /\ s.txs = 0..(PageSize(s.height) - 1)
                              /\ s.txCount = PageSize(s.height)
        /\ ~opts.includeTxs => s.txs = {} /\ s.txCount \in {0, chain[s.height]}

\* "fetchAllBlockTxs paginates all txs in a block": with -include-txs every
\* transaction of a printed block is printed.
AllTxsPrinted ==
  opts.includeTxs =>
    \A i \in DOMAIN reported : reported[i].txs = 0..(chain[reported[i].height] - 1)

\* The watcher never falls behind for good: it ends or prints a block at most
\* MaxLag behind any the chain reaches, although it may skip blocks on the way.
CatchesUp ==
  \A height \in 1..MaxHeight :
    Len(chain) >= height ~> (lastHeight >= height - MaxLag \/ phase = "stopped")
=============================================================================
