---------------------------- MODULE CameraSession ----------------------------
(***************************************************************************)
(* What a Camera promises to the frontend about the session it holds: the  *)
(* session ends only while no operation is using it, and the object is     *)
(* released only when it is idle and without a session.                    *)
(***************************************************************************)
VARIABLES busy, connected, released

vars == <<busy, connected, released>>

TypeOK == busy \in BOOLEAN /\ connected \in BOOLEAN /\ released \in BOOLEAN

Init == busy = FALSE /\ connected = FALSE /\ released = FALSE

Begin == /\ ~busy /\ ~released
         /\ busy' = TRUE /\ UNCHANGED <<connected, released>>

End == /\ busy
       /\ busy' = FALSE /\ UNCHANGED <<connected, released>>

Connect == /\ ~connected /\ ~released
           /\ connected' = TRUE /\ UNCHANGED <<busy, released>>

Disconnect == /\ connected /\ ~busy
              /\ connected' = FALSE /\ UNCHANGED <<busy, released>>

Release == /\ ~busy /\ ~connected /\ ~released
           /\ released' = TRUE /\ UNCHANGED <<busy, connected>>

Next == Begin \/ End \/ Connect \/ Disconnect \/ Release

Spec == Init /\ [][Next]_vars
=============================================================================
