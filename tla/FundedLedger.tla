---------------------------- MODULE FundedLedger ----------------------------
(***************************************************************************)
(* What the perpetual exchange promises its users about collateral: a      *)
(* ledger in which every position pays its funding at the moment of the    *)
(* funding tick, and collateral only moves in whole units between          *)
(* positions, or in and out of the vault.                                  *)
(*                                                                         *)
(* A claim is what a position's collateral is worth in fixed point.  The   *)
(* one thing a position may lose is the fraction of a unit of its claim,   *)
(* when a transaction touches it.  The exchange of module Perpetual, where *)
(* a position pays its funding only when it is next touched, is to look    *)
(* exactly like this.                                                      *)
(***************************************************************************)
EXTENDS Integers, Functions

CONSTANTS Positions, Assets, Unit    \* Unit fixed point units in one of collateral

VARIABLES
  claim,      \* position -> fixed point
  synthetic,  \* position -> asset -> balance
  index,      \* the funding index of each asset listed so far
  vault       \* the collateral that came in and did not go out

Init ==
  /\ claim = [p \in Positions |-> 0]
  /\ synthetic = [p \in Positions |-> [a \in Assets |-> 0]]
  /\ index = [a \in {} |-> 0]
  /\ vault = 0

\* Every holder of an asset pays the change of its index at once.
Accrue ==
  /\ DOMAIN index \subseteq DOMAIN index'
  /\ claim' = [p \in Positions |-> claim[p] -
                 SumFunction([a \in DOMAIN index |-> (index'[a] - index[a]) * synthetic[p][a]])]
  /\ UNCHANGED <<synthetic, vault>>

\* The whole units of collateral that a position gains.
UnitsGained(p) == claim'[p] \div Unit - claim[p] \div Unit

\* Whoever takes part is left with whole units, everyone else with what they
\* had.  No unit and no synthetic balance is made or lost.
Transact(parties) ==
  /\ \A p \in parties : claim'[p] % Unit = 0
  /\ \A p \in Positions \ parties : claim'[p] = claim[p] /\ synthetic'[p] = synthetic[p]
  /\ vault' - vault = SumFunction([p \in Positions |-> UnitsGained(p)])
  /\ \A a \in Assets : SumFunction([p \in Positions |-> synthetic'[p][a] - synthetic[p][a]]) = 0
  /\ UNCHANGED index

Next == Accrue \/ \E parties \in SUBSET Positions : Transact(parties)

Spec == Init /\ [][Next]_<<claim, synthetic, index, vault>>
=============================================================================
