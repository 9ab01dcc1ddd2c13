-------------------------- MODULE TransferOwnership --------------------------
(***************************************************************************)
(* What a move promises, without rows, requests or crashes: one holder at  *)
(* a time.  The source writes the conversation until it retires; between   *)
(* retirement and arrival nobody may write it; what arrives is what the    *)
(* source wrote last.                                                      *)
(***************************************************************************)
EXTENDS Naturals

VARIABLES
    holder, \* who owns the conversation: "source", "transit" or "destination"
    text    \* the version of the conversation

vars == <<holder, text>>

Init == holder = "source" /\ text = 1

Write == holder = "source" /\ text' = text + 1 /\ UNCHANGED holder

Retire == holder = "source" /\ holder' = "transit" /\ UNCHANGED text

Arrive == holder = "transit" /\ holder' = "destination" /\ UNCHANGED text

Next == Write \/ Retire \/ Arrive

Spec == Init /\ [][Next]_vars

=============================================================================
