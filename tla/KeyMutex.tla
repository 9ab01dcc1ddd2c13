------------------------------- MODULE KeyMutex -------------------------------
(***************************************************************************)
(* What a keyed lock promises (internal/keyedlock): every key has at most  *)
(* one owner, and nobody else touches an owned key until it is released.   *)
(***************************************************************************)
CONSTANTS Callers, Keys, Nobody

VARIABLE owner

Init == owner = [k \in Keys |-> Nobody]

Enter(k, c) == owner[k] = Nobody /\ owner' = [owner EXCEPT ![k] = c]

Leave(k, c) == owner[k] = c /\ owner' = [owner EXCEPT ![k] = Nobody]

Next == \E k \in Keys, c \in Callers : Enter(k, c) \/ Leave(k, c)

Spec == Init /\ [][Next]_owner

=============================================================================
