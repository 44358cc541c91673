----------------------------- MODULE TierLadder ----------------------------
(***************************************************************************)
(* The escalation ladder of src/common/tiers.py: the rows of the table     *)
(* tiers, to which an operator may add one while the system runs, and the  *)
(* copy every process keeps from its first use of the table until it ends. *)
(*                                                                         *)
(* A tier is written as its place in the order of rank.  Shifting ranks to *)
(* make room for a tier in the middle changes no tier's place.             *)
(***************************************************************************)
EXTENDS Integers

CONSTANTS
  Tiers,     \* every tier the table may ever hold
  Processes  \* the processes of the system

ASSUME TierAssumption == Tiers \subseteq Nat \ {0}

VARIABLES
  ladder,  \* the rows of tiers
  cache    \* cache[p]: tiers._cache of process p

\* _cache is None: the table is never empty.
Cold == {}

NoTier == 0

Above(rows, k) == {j \in rows : j > k}
Lowest(rows) == CHOOSE k \in rows : \A j \in rows : k <= j

\* A lookup by list index that does not check for the tier being there.
NextTier_Unknown(rows, k) ==
  IF Above(rows, k) = {} THEN NoTier
  ELSE IF k \in rows THEN Lowest(Above(rows, k)) ELSE Lowest(rows)

\* The last rung taken for the top.
NextTier_ShortLadder(rows, k) ==
  IF k \in rows /\ Above(rows, k) # {} /\ Above(rows, Lowest(Above(rows, k))) # {}
  THEN Lowest(Above(rows, k)) ELSE NoTier

\* next_tier: a tier the copy does not have has none above it.
NextTier(rows, k) ==
  IF k \in rows /\ Above(rows, k) # {} THEN Lowest(Above(rows, k)) ELSE NoTier

InsertTier ==
  /\ \E k \in Tiers \ ladder : ladder' = ladder \cup {k}
  /\ UNCHANGED cache

\* all_tiers fills the copy once; nothing in the running system refreshes it.
FillCache(p) == cache' = [cache EXCEPT ![p] = ladder]
=============================================================================
