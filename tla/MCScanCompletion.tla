-------------------------- MODULE MCScanCompletion --------------------------
(* ScanCompletion for chats that are interchangeable: it does not matter    *)
(* which of them owns the scan first.                                       *)
EXTENDS ScanCompletion

FirstOwner == CHOOSE s \in Session : TRUE
MCInit == Init /\ owner = FirstOwner
MCSpec == MCInit /\ [][Next]_vars /\ Fairness
=============================================================================
