------------------------ MODULE MCControllerLifecycle ------------------------
(***************************************************************************)
(* ControllerLifecycle for TLC: either two clients compete for one slot    *)
(* through several power cycles, or one client has two controllers, so     *)
(* that teardown goes from handle to handle.                               *)
(***************************************************************************)
EXTENDS ControllerLifecycle, TLC

CONSTANT Client   \* the client with two controllers

VARIABLE device_of

Two == INSTANCE ControllerLifecycle WITH
         Files <- {Client}, MaxControllers <- 2, MaxPowerUps <- 1

MCInit ==
  \/ device_of = "rivals" /\ Init
  \/ device_of = "client" /\ Two!Init

MCNext ==
  /\ \/ device_of = "rivals" /\ Next
     \/ device_of = "client" /\ Two!Next
  /\ UNCHANGED device_of

MCSpec == MCInit /\ [][MCNext]_<<vars, device_of>>

(* The rivals are alike.                                                   *)
Symmetry == Permutations(Files)
=============================================================================
