---------------------------- MODULE AtMostOnce -----------------------------
(***************************************************************************)
(* What the idempotency ledger promises of an external action, whoever     *)
(* asks for it and however often: it takes effect at most once, and each   *)
(* one asked for is closed for good, as confirmed or as unknown.           *)
(***************************************************************************)
EXTENDS Integers

CONSTANT Actions

VARIABLES
  asked,   \* asked[k]: somebody set out to perform k
  fired,   \* fired[k]: how often k took effect
  outcome  \* outcome[k]: "none" while open, then "real" or "unresolved"

book == <<asked, fired, outcome>>

Init ==
  /\ asked = [k \in Actions |-> FALSE]
  /\ fired = [k \in Actions |-> 0]
  /\ outcome = [k \in Actions |-> "none"]

Ask(k) ==
  /\ ~asked[k]
  /\ asked' = [asked EXCEPT ![k] = TRUE]
  /\ UNCHANGED <<fired, outcome>>

\* The effect may come after the action was closed as unknown.
Fire(k) ==
  /\ asked[k] /\ fired[k] = 0 /\ outcome[k] # "real"
  /\ fired' = [fired EXCEPT ![k] = 1]
  /\ UNCHANGED <<asked, outcome>>

Confirm(k) ==
  /\ fired[k] = 1 /\ outcome[k] = "none"
  /\ outcome' = [outcome EXCEPT ![k] = "real"]
  /\ UNCHANGED <<asked, fired>>

GiveUp(B) ==
  /\ B # {}
  /\ \A k \in B : asked[k] /\ outcome[k] = "none"
  /\ outcome' = [k \in Actions |-> IF k \in B THEN "unresolved" ELSE outcome[k]]
  /\ UNCHANGED <<asked, fired>>

Next ==
  \/ \E k \in Actions : Ask(k) \/ Fire(k) \/ Confirm(k)
  \/ \E B \in SUBSET Actions : GiveUp(B)

Close(k) == Confirm(k) \/ \E B \in SUBSET Actions : k \in B /\ GiveUp(B)

Spec == Init /\ [][Next]_book
FairSpec == Spec /\ \A k \in Actions : WF_book(Close(k))
=============================================================================
