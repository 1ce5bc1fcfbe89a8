--------------------------- MODULE DurableHistory ---------------------------
(***************************************************************************)
(* What a persistent-transaction back end promises, whatever its commit    *)
(* protocol. Transactions commit into a volatile history in timestamp      *)
(* order; at every moment a crash would recover the set "stable", which    *)
(* only grows and is always a prefix of the history; a transaction returns *)
(* to the application ("acked") only when it is recoverable.               *)
(*                                                                         *)
(* Two transactions with one timestamp committed without a conflict, so    *)
(* neither has to be recovered before the other.                           *)
(***************************************************************************)
EXTENDS Integers

CONSTANT Tx             \* the possible transactions: records with a timestamp v

VARIABLES hist,         \* transactions visible to others in volatile memory
          stable,       \* transactions a crash at this moment would recover
          acked         \* transactions whose commit returned

historyVars == <<hist, stable, acked>>

Prefix(S, H) == \A x \in S, y \in H : y.v < x.v => y \in S

HistoryInit == hist = {} /\ stable = {} /\ acked = {}

(* A transaction never commits behind one that is already recoverable.     *)
CommitTx(x) == /\ x \notin hist
               /\ hist' = hist \cup {x}
               /\ \A y \in stable : y.v <= x.v
               /\ UNCHANGED <<stable, acked>>

Stabilise == /\ stable' \in SUBSET hist
             /\ stable \subseteq stable'
             /\ Prefix(stable', hist)
             /\ UNCHANGED <<hist, acked>>

Ack(x) == /\ x \in stable
          /\ acked' = acked \cup {x}
          /\ UNCHANGED <<hist, stable>>

HistoryNext == \/ Stabilise
               \/ \E x \in Tx : CommitTx(x) \/ Ack(x)

HistorySpec == HistoryInit /\ [][HistoryNext]_historyVars
=============================================================================
