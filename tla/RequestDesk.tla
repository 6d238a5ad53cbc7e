---------------------------- MODULE RequestDesk ----------------------------
(***************************************************************************)
(* What AppController promises to those who ask for a workflow: one is     *)
(* served at a time, one more may be reserved, the reserved one is served  *)
(* as soon as the desk is free, and nobody overtakes it. Closing the desk  *)
(* cancels the reservation.                                                *)
(***************************************************************************)
CONSTANTS Requests, Nobody

VARIABLES served, reserved, closing

vars == <<served, reserved, closing>>

Init == served = Nobody /\ reserved = Nobody /\ closing = FALSE

Begin(r) ==
  /\ served = Nobody /\ reserved = Nobody
  /\ served' = r
  /\ UNCHANGED <<reserved, closing>>

Reserve(r) ==
  /\ served # Nobody /\ reserved = Nobody
  /\ reserved' = r
  /\ UNCHANGED <<served, closing>>

Finish ==
  /\ served # Nobody
  /\ served' = reserved
  /\ reserved' = Nobody
  /\ UNCHANGED closing

Close ==
  /\ closing' = TRUE
  /\ reserved' = Nobody
  /\ UNCHANGED served

Next ==
  \/ \E r \in Requests : Begin(r) \/ Reserve(r)
  \/ Finish
  \/ Close

Spec == Init /\ [][Next]_vars
=============================================================================
