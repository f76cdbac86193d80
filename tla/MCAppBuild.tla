----------------------------- MODULE MCAppBuild -----------------------------
(* Every command; three heights to export, the last of them the latest.    *)
EXTENDS AppBuild

MCCommands == {"start", "export", "exportAtHeight"}
=============================================================================
