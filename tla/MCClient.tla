------------------------------- MODULE MCClient -------------------------------
(* The example client, one kind of command per behaviour: runs of the send   *)
(* commands, or the block watcher.                                           *)
(*                                                                           *)
(* Three runs and funds for two and a half transfers: the third can pay its  *)
(* fee but not its amount.  Three blocks of none, two or three transactions  *)
(* and answers of two: an empty block, one that fits exactly and one that is *)
(* cut; answers may be one block behind.                                     *)
EXTENDS TxSend, BlockWatch

VARIABLE command  \* "send" or "watch"

clientVars == <<vars, watchVars, command>>

\* Whatever is not run has the first of its initial states.
ClientInit ==
  /\ command \in {"send", "watch"}
  /\ Init /\ WatchInit
  /\ command = "send" =>
       /\ chain = <<CHOOSE n \in TxCounts : TRUE>>
       /\ opts = [ includeTxs |-> FALSE, includeValidators |-> FALSE, once |-> FALSE ]

ClientNext ==
  /\ \/ command = "send" /\ Next /\ UNCHANGED watchVars
     \/ command = "watch" /\ WatchNext /\ UNCHANGED vars
  /\ UNCHANGED command

\* The watcher's fairness.  No behaviour that only sends is fair to it, so those
\* count for the invariants alone.
ClientSpec == ClientInit /\ [][ClientNext]_clientVars /\ WF_watchVars(Watcher)
=============================================================================
