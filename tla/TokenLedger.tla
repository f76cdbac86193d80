----------------------------- MODULE TokenLedger -----------------------------
(***************************************************************************)
(* What the token factory promises, without its stores: a ledger of        *)
(* denoms, each with at most one owner.  The owner issues, destroys and    *)
(* moves the coins of its denom, except where a module account holds or    *)
(* would receive them; everybody else moves only what is theirs.  A denom  *)
(* without an owner has the supply it has for good.                        *)
(***************************************************************************)
EXTENDS Integers

CONSTANTS
  Holders,     \* who may hold coins
  Modules,     \* holders out of an owner's reach
  Closed,      \* holders nobody can send to
  Treasury,    \* the holder that collects creation fees
  Denoms, Native,
  Strings,     \* address strings
  Nobody,      \* the owner of a denom without one
  creator,     \* denom -> the address string it is named after
  Amounts, Fees

VARIABLES
  held,    \* coins, by holder and denom
  total,   \* supply, by denom
  issued,  \* denoms that exist
  owner,   \* owner, by denom
  by       \* who took the last step; Nobody for the chain itself

vars == <<held, total, issued, owner, by>>

Account(s) == s[1]

Init ==
  /\ issued \subseteq Denoms \ {Native}
  /\ \A d \in Denoms : d \notin issued => owner[d] = Nobody
  /\ \A d \in Denoms \ {Native} :
       total[d] = 0 /\ \A h \in Holders : held[h][d] = 0
  /\ by = Nobody

\* n coins of a denom go from one holder to another.
Moved(d, from, to, n) ==
  /\ held[from][d] >= n
  /\ held' = IF from = to THEN held
             ELSE [ held EXCEPT ![from][d] = @ - n, ![to][d] = @ + n ]

\* A new denom, for a fee; it belongs to the address it is named after.
Create(d, fee) ==
  /\ by' = creator[d] /\ d \notin issued
  /\ issued' = issued \cup {d}
  /\ owner' = [ owner EXCEPT ![d] = by' ]
  /\ Moved(Native, Account(by'), Treasury, fee)
  /\ UNCHANGED total

IsOwner(d) == by' = owner[d] /\ by' # Nobody /\ d \in issued

Issue(d, to, n) ==
  /\ IsOwner(d) /\ to \notin Modules
  /\ total' = [ total EXCEPT ![d] = @ + n ]
  /\ held' = [ held EXCEPT ![to][d] = @ + n ]
  /\ UNCHANGED <<issued, owner>>

Destroy(d, from, n) ==
  /\ IsOwner(d) /\ from \notin Modules
  /\ total' = [ total EXCEPT ![d] = @ - n ]
  /\ held[from][d] >= n
  /\ held' = [ held EXCEPT ![from][d] = @ - n ]
  /\ UNCHANGED <<issued, owner>>

\* The owner moves coins between accounts that are not modules.
Seize(d, from, to, n) ==
  /\ IsOwner(d) /\ {from, to} \cap Modules = {}
  /\ Moved(d, from, to, n)
  /\ UNCHANGED <<total, issued, owner>>

\* A holder moves its own coins.
Send(d, to, n) ==
  /\ by' # Nobody /\ to \notin Closed
  /\ Moved(d, Account(by'), to, n)
  /\ UNCHANGED <<total, issued, owner>>

HandOver(d, s) ==
  /\ IsOwner(d)
  /\ owner' = [ owner EXCEPT ![d] = s ]
  /\ UNCHANGED <<held, total, issued>>

\* Steps that are no business of the ledger: hooks, metadata, parameters and
\* restarts.
Elsewhere == UNCHANGED <<held, total, issued, owner>>

Next ==
  /\ by' \in Strings \cup {Nobody}
  /\ \/ Elsewhere
     \/ \E d \in Denoms \ {Native}, fee \in Fees : Create(d, fee)
     \/ \E d \in Denoms, n \in Amounts, to \in Holders :
          \/ Issue(d, to, n) \/ Destroy(d, to, n) \/ Send(d, to, n)
          \/ \E from \in Holders : Seize(d, from, to, n)
     \/ \E d \in Denoms, s \in Strings : HandOver(d, s)

Spec == Init /\ [][Next]_vars
=============================================================================
