----------------------------- MODULE KeyValueMap -----------------------------
(***************************************************************************)
(* What a map promises: every key has the value it was set to last, until  *)
(* it is removed, and no other operation touches it.                       *)
(***************************************************************************)
EXTENDS TLC

CONSTANTS Key, Value

VARIABLE map

Init == map = <<>>

InsertOrSet(k, v) == map' = (k :> v) @@ map

Remove(k) == map' = [x \in DOMAIN map \ {k} |-> map[x]]

Clear == map' = <<>>

Next ==
    \/ \E k \in Key : Remove(k) \/ \E v \in Value : InsertOrSet(k, v)
    \/ Clear

Spec == Init /\ [][Next]_map
=============================================================================
