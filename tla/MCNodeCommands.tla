---------------------------- MODULE MCNodeCommands ----------------------------
(* The commands of a node's operator, one kind of command per behaviour:     *)
(* those that build the application, runs of multi-node on one output        *)
(* directory, or runs of in-place-testnet on one node.                       *)
EXTENDS MCAppBuild, TestnetFiles, InPlaceTestnet

VARIABLE invoked  \* "app", "multi-node" or "in-place-testnet"

commandVars == <<buildVars, filesVars, inPlaceVars, invoked>>

\* Whatever is not invoked has the first of its initial states.
CommandsInit ==
  /\ invoked \in {"app", "multi-node", "in-place-testnet"}
  /\ BuildInit /\ FilesInit /\ InPlaceInit
  /\ invoked # "app" => command = "start" /\ ~snapshots
  /\ invoked # "in-place-testnet" =>
       committed = CHOOSE stores \in ChainStores : TRUE

\* No more runs are counted.
FilesEnded == at = "idle" /\ run = MaxRuns /\ UNCHANGED filesVars
InPlaceEnded == doing = "down" /\ launch = MaxLaunches /\ UNCHANGED inPlaceVars

CommandsNext ==
  /\ \/ /\ invoked = "app"
        /\ BuildNext
        /\ UNCHANGED <<filesVars, inPlaceVars>>
     \/ /\ invoked = "multi-node"
        /\ FilesNext \/ FilesEnded
        /\ UNCHANGED <<buildVars, inPlaceVars>>
     \/ /\ invoked = "in-place-testnet"
        /\ InPlaceNext \/ InPlaceEnded
        /\ UNCHANGED <<buildVars, filesVars>>
  /\ UNCHANGED invoked

CommandsSpec == CommandsInit /\ [][CommandsNext]_commandVars
=============================================================================
