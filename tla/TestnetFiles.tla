---------------------------- MODULE TestnetFiles ----------------------------
(***************************************************************************)
(* The multi-node command: initTestnetFiles, initGenFiles and              *)
(* collectGenFiles, writing the directories of a local testnet.  The       *)
(* output directory outlives the command, so every run meets what earlier  *)
(* runs left there: finished, given up on an error or killed half-way, and *)
(* with another number of validators.                                      *)
(*                                                                         *)
(* Runs are numbered.  A node's id <<node, run>> names the run that made   *)
(* its node key and its consensus key, which later runs keep; an account   *)
(* <<node, run>> the run that made the key in its keyring, which every run *)
(* replaces.  A run's number stands for its chain id.                      *)
(***************************************************************************)
EXTENDS Naturals, Sequences

CONSTANTS MaxValidators,  \* bound on --v
          MaxRuns         \* bound on runs of the command

ASSUME FilesAssumption == MaxValidators \in Nat /\ MaxRuns \in Nat

Nodes == 0..MaxValidators - 1
None == <<>>

VARIABLES dir,      \* the directory of each node
          run,      \* number of the run, and what it was asked for: --v
          numValidators,
          at,       \* the step the run is at
          i,        \* loop variables
          file,
          ids,      \* nodeIDs, by node
          appState, \* <<the canonical application state>>, once there is one
          report   \* of the last run: "none", "running", "ok", "refused",
                    \* "stopped" (an error or a kill)

filesVars ==
  <<dir, run, numValidators, at, i, file, ids, appState, report>>

\* id: node_key.json and priv_validator_key.json; account: the keyring;
\* gentx: config/gentx, a gentx [id, account] per file, named after its id;
\* genesis: [chain, accounts, gentxs]; peers: persistent peers of config.toml.
NoGenesis == [ chain |-> 0, accounts |-> {}, gentxs |-> {} ]
NoDir == [ id |-> None, account |-> None, gentx |-> {},
           genesis |-> NoGenesis, peers |-> {} ]

Validators == 0..numValidators - 1

FilesInit ==
  /\ dir = [ n \in Nodes |-> NoDir ]
  /\ run = 0 /\ numValidators = 0
  /\ at = "idle" /\ i = 0 /\ file = 0
  /\ ids = [ n \in Nodes |-> None ]
  /\ appState = None
  /\ report = "none"

\* The command starts: a new chain id, unless a flag names one.
MultiNode(v) ==
  /\ at = "idle" /\ run < MaxRuns
  /\ run' = run + 1 /\ numValidators' = v
  /\ at' = "nodeFiles" /\ i' = 0 /\ file' = 0
  /\ ids' = [ n \in Nodes |-> None ]
  /\ appState' = None
  /\ report' = "running"
  /\ UNCHANGED dir

Stays == UNCHANGED <<run, numValidators, report>>

\* The end of a loop's body: the next node, or the next step.
NextNode(step) ==
  IF i + 1 < numValidators THEN i' = i + 1 /\ at' = at
                           ELSE i' = 0 /\ at' = step

-----------------------------------------------------------------------------
(* initTestnetFiles: the loop over the nodes *)

\* InitializeNodeValidatorFiles loads the keys that are there.
InitializeNodeValidatorFiles ==
  /\ at = "nodeFiles" /\ i < numValidators
  /\ LET id == IF dir[i].id = None THEN <<i, run>> ELSE dir[i].id IN
     /\ dir' = [ dir EXCEPT ![i].id = id ]
     /\ ids' = [ ids EXCEPT ![i] = id ]
  /\ at' = "key"
  /\ UNCHANGED <<i, file, appState>> /\ Stays

\* GenerateSaveCoinKey overwrites the key of that name.
GenerateSaveCoinKey ==
  /\ at = "key"
  /\ dir' = [ dir EXCEPT ![i].account = <<i, run>> ]
  /\ at' = "gentx"
  /\ UNCHANGED <<i, file, ids, appState>> /\ Stays

\* variant: the file is named after the account, which changes with every run
PutPerAccount(files, gentx) ==
  { g \in files : g.account # gentx.account } \cup {gentx}

\* gentx-<node id>.json replaces the file of that name.
Put(files, gentx) == { g \in files : g.id # gentx.id } \cup {gentx}

GentxOf(n) == [ id |-> ids[n], account |-> <<n, run>> ]

WriteGentx ==
  /\ at = "gentx"
  /\ dir' = [ dir EXCEPT ![i].gentx = Put(@, GentxOf(i)) ]
  /\ IF i + 1 < numValidators
       THEN i' = i + 1 /\ at' = "nodeFiles"
       ELSE i' = 0 /\ at' = "genesis"
  /\ UNCHANGED <<file, ids, appState>> /\ Stays

-----------------------------------------------------------------------------
(* initGenFiles, the copies of the gentxs, and collectGenFiles *)

\* The genesis of this run, without gentxs, replaces what was there.
SaveGenesis ==
  /\ at = "genesis"
  /\ dir' = [ dir EXCEPT ![i].genesis =
       [ chain |-> run, accounts |-> { <<n, run>> : n \in Validators },
         gentxs |-> {} ] ]
  /\ NextNode("copy")
  /\ UNCHANGED <<file, ids, appState>> /\ Stays

CopiedDown(n, to) == n < to  \* variant: only to later nodes

\* isSubDir: a gentx is copied to every node but its own.
Copied(n, to) == n # to

CopyGentx ==
  /\ at = "copy"
  /\ dir' = IF Copied(file, i)
              THEN [ dir EXCEPT ![i].gentx = Put(@, GentxOf(file)) ]
              ELSE dir
  /\ IF file + 1 < numValidators
       THEN file' = file + 1 /\ UNCHANGED <<i, at>>
       ELSE file' = 0 /\ NextNode("collect")
  /\ UNCHANGED <<ids, appState>> /\ Stays

\* GenAppStateFromConfig: the gentxs of every file in the directory, each of an
\* account that the genesis knows.
CollectTxs(n) == dir[n].gentx
Collects(n) ==
  \A g \in CollectTxs(n) : g.account \in dir[n].genesis.accounts

\* The first node's state becomes everybody's.
Canonical == IF appState = None THEN CollectTxs(i) ELSE Head(appState)

CollectGenFiles ==
  /\ at = "collect" /\ Collects(i)
  /\ dir' = [ dir EXCEPT ![i].genesis.gentxs = Canonical,
                         ![i].peers = { ids[n] : n \in Validators } ]
  /\ appState' = <<Canonical>>
  /\ IF i + 1 < numValidators
       THEN i' = i + 1 /\ UNCHANGED <<at, report>>
       ELSE i' = 0 /\ at' = "idle" /\ report' = "ok"
  /\ UNCHANGED <<run, numValidators, file, ids>>

CollectRefuses ==
  /\ at = "collect" /\ ~ Collects(i)
  /\ at' = "idle" /\ report' = "refused"
  /\ UNCHANGED <<dir, run, numValidators, i, file, ids, appState>>

\* No validators: every loop is empty and the command succeeds.
NothingToDo ==
  /\ at = "nodeFiles" /\ numValidators = 0
  /\ at' = "idle" /\ report' = "ok"
  /\ UNCHANGED <<dir, run, numValidators, i, file, ids, appState>>

-----------------------------------------------------------------------------
(* Errors and kills *)

\* An error of MkdirAll, InitializeNodeValidatorFiles or GenerateSaveCoinKey
\* removes the output directory, whatever earlier runs left in it.
FailAndRemoveAll ==
  /\ at \in {"nodeFiles", "key"} /\ i < numValidators
  /\ dir' = [ n \in Nodes |-> NoDir ]
  /\ at' = "idle" /\ report' = "stopped"
  /\ UNCHANGED <<run, numValidators, i, file, ids, appState>>

\* Every other error, and a kill, leaves the files as they are.
Interrupted ==
  /\ at # "idle"
  /\ at' = "idle" /\ report' = "stopped"
  /\ UNCHANGED <<dir, run, numValidators, i, file, ids, appState>>

FilesNext ==
  \/ \E v \in 0..MaxValidators : MultiNode(v)
  \/ InitializeNodeValidatorFiles \/ GenerateSaveCoinKey \/ WriteGentx
  \/ SaveGenesis \/ CopyGentx \/ CollectGenFiles \/ CollectRefuses
  \/ NothingToDo
  \/ FailAndRemoveAll \/ Interrupted

FilesSpec == FilesInit /\ [][FilesNext]_filesVars

-----------------------------------------------------------------------------
(* Properties *)

\* A run that reports success leaves one network, whatever was there before:
\* every node has the same genesis, made by this run ("they should not
\* differ"), with the accounts in the keyrings and the gentxs of exactly the
\* nodes asked for, each signed over the keys in its node's directory, and
\* every node has all of them as peers.
NetworkComplete ==
  report = "ok" =>
    \A n \in Validators :
      /\ dir[n].account = <<n, run>>
      /\ dir[n].genesis =
           [ chain |-> run,
             accounts |-> { dir[k].account : k \in Validators },
             gentxs |-> { [ id |-> dir[k].id, account |-> dir[k].account ] :
                            k \in Validators } ]
      /\ dir[n].peers = { dir[k].id : k \in Validators }

\* A run that was not disturbed fails only on the gentxs of a larger network:
\* after errors, kills and any number of runs, asking for as many validators
\* as there are directories always works again.
RefusedOnlyWhenSmaller ==
  report = "refused" =>
    \E n \in Nodes \ Validators :
      dir[n].id # None /\ \E g \in dir[i].gentx : g.id = dir[n].id
=============================================================================
