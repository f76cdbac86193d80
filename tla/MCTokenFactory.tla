--------------------------- MODULE MCTokenFactory ---------------------------
(* Instances of TokenFactory for TLC.                                      *)
EXTENDS TokenFactoryLedger

CONSTANTS alice, bob, tokenfactory, distribution, gov, wasm, stake, sub, hookContract

\* alice signs under the upper-case spelling of her address.
aliceUpper == <<alice, "upper">>
MCAddrStrings == Holders \X {"lower"} \cup {aliceUpper}
MCSenderStrings == {aliceUpper, String(bob)}
MCAliceStrings == {aliceUpper, String(alice)}

\* A genesis file may list a denom whose creator is spelled in upper case.
MCGenesisDenoms == { GetTokenDenom(aliceUpper, sub) }

\* No step and no property reads signer, only signer': states that differ in
\* nothing else need not be told apart.
ChainState == <<bankVars, storeVars, fee, accKind>>
=============================================================================
