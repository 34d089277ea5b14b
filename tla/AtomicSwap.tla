----------------------------- MODULE AtomicSwap -----------------------------
(***************************************************************************)
(* What a swap promises its two parties, whatever protocol runs it: coin A *)
(* of the offer's maker and coin B of the bidder are locked, A first, and  *)
(* then either both change hands or both go back.  A maker that leaves a   *)
(* refund half done may be swiped: then A is gone and B is never returned, *)
(* it changes hands by the bidder's mercy or stays locked.                 *)
(*                                                                         *)
(* A lock counts from the block it is mined in.  A block may hold several  *)
(* transactions, so both coins may move in one step.                       *)
(***************************************************************************)

VARIABLES
  a,  \* coin A: "none", "locked", "taken", "returned" or "swiped"
  b   \* coin B: the same, never "swiped"

vars == <<a, b>>

\* Where a coin may be one block later.
After(c, ends) ==
  CASE c = "none"   -> {"none", "locked"}
    [] c = "locked" -> {"locked"} \union ends
    [] OTHER        -> {c}

\* The outcomes that leave neither party with both coins or with none.
Fair ==
  /\ a = "taken" => b # "returned"
  /\ a = "returned" => b # "taken"
  /\ a = "swiped" => b # "returned"

Init == a = "none" /\ b = "none"

Move ==
  /\ a' \in After(a, {"taken", "returned", "swiped"})
  /\ b' \in After(b, {"taken", "returned"})
  /\ b = "none" /\ b' = "locked" => a # "none"
  /\ Fair'

Spec == Init /\ [][Move]_vars
=============================================================================
