----------------------------- MODULE MCCollider -----------------------------
(***************************************************************************)
(* Small instances of Collider.                                            *)
(***************************************************************************)
EXTENDS Collider, TLC

CONSTANTS k1, k2

\* Connection ids are only compared for equality.
ConnSymmetry == Permutations({k1, k2})

\* Bound: while V1 rooms are in use, V2 rooms are P2P rooms of one client.
\* The tables share nothing but the sessions.
OneTableBusy ==
  \/ v1present = {}
  \/ \A r \in RoomsV2 :
       table[r].mode \in {"Absent", "P2p"} /\ table[r].epoch = 0 /\ table[r].members \subseteq {1}
=============================================================================
