-------------------------- MODULE TokenFactoryLedger --------------------------
(***************************************************************************)
(* The token factory as an implementation of TokenLedger: a denom is       *)
(* issued when the creator index lists it, its owner is the admin of its   *)
(* authority metadata, and the coins are the bank's.  Metadata, hooks, the *)
(* fee and the kinds of accounts are hidden.                               *)
(***************************************************************************)
EXTENDS TokenFactory

Ledger == INSTANCE TokenLedger WITH
  Closed <- Blocked,
  Treasury <- DistributionAcc,
  Strings <- AddrStrings,
  creator <- [ d \in FactoryDenoms |-> d[2] ],
  Amounts <- 1..MaxAmount,
  Fees <- FeeChoices,
  held <- bal,
  total <- supply,
  issued <- ExportedDenoms,
  owner <- admin,
  by <- signer

\* Every message of the token factory, every transfer, parameter change and
\* restart is a step of the ledger or invisible in it: creating a denom takes
\* the fee from its creator and makes it the owner, minting, burning and
\* forced transfers are the owner's alone and spare module accounts, no step
\* touches two denoms other than the fee's, and the native denom has no owner:
\* its supply is fixed and its coins move only by their holder's message.
ImplementsLedger == Ledger!Spec
=============================================================================
