------------------------------ MODULE MCUpgrades ------------------------------
(* Four blocks and two crashes: a plan can be scheduled in the first       *)
(* block, reached in the second or third, and followed by one more.        *)
EXTENDS Upgrades

MCPlanNames == {nameV009, nameV0010}
MCOldHandlers == {nameV1UpgradeLumiwaveProtocol}
=============================================================================
