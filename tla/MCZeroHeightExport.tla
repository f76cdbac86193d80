------------------------- MODULE MCZeroHeightExport -------------------------
(* Two delegations to one validator and one to another; one and a half     *)
(* coins each, so that every withdrawal leaves half a coin.                *)
EXTENDS ZeroHeightExport

CONSTANTS v1, v2, d1, d2

MCDelegations ==
  { [delegator |-> d1, validator |-> v1], [delegator |-> d2, validator |-> v1],
    [delegator |-> d1, validator |-> v2] }
=============================================================================
