-------------------------------- MODULE MCDs5 --------------------------------
(***************************************************************************)
(* The DualSense module for TLC: one slot used by two files, with audio    *)
(* streams (Ds5Gadget, the instance of the configuration); one pad whose   *)
(* input must arrive; and loading and unloading the module (Ds5Module).    *)
(* Each runs while the others rest.                                        *)
(***************************************************************************)
EXTENDS Ds5Gadget, Ds5Module

CONSTANT Reports  \* input reports of the pad whose input must arrive

VARIABLE part

Pad == INSTANCE Ds5Gadget WITH
         Files <- {CHOOSE f \in Files : TRUE}, Audio <- {}, Inputs <- Reports, EventFifo <- 1,
         MaxCreates <- 1, MaxResets <- 1

MCInit ==
  /\ part \in {"slot", "pad", "loader"}
  /\ IF part = "pad" THEN Pad!Init ELSE Init
  /\ ModuleInit /\ (part # "loader" => num = 1 /\ ~super)

MCNext ==
  /\ \/ part = "slot" /\ Next /\ UNCHANGED module_vars
     \/ part = "pad" /\ Pad!Next /\ UNCHANGED module_vars
     \/ part = "loader" /\ ModuleNext /\ UNCHANGED vars
  /\ UNCHANGED part

(* The fairness of Ds5Gadget, for the pad.                                 *)
MCFairness ==
  /\ \A f \in Files :
       /\ WF_vars(part = "pad" /\ f \in DOMAIN wr /\ Pad!Write(f))
       /\ SF_vars(part = "pad" /\ f \in DOMAIN wr /\ \E v \in Reports : Pad!WriteStore(f, v))
       /\ WF_vars(part = "pad" /\ f \in DOMAIN wr /\ Pad!Destroying(f))
  /\ SF_vars(part = "pad" /\ Pad!HostReads)
  /\ \A r \in Pad!Reqs : WF_vars(part = "pad" /\ Pad!Complete(r))
  /\ \A d \in Doers : WF_vars(part = "pad" /\ d \in DOMAIN todo /\ Pad!DoStep(d))

MCSpec == MCInit /\ [][MCNext]_<<part, vars, module_vars>> /\ MCFairness

-----------------------------------------------------------------------------
(* The pad's last report is what the host ends with (Ds5Gadget).           *)
PadInputArrives ==
  \A v \in Reports : <>[](part = "pad" /\ Pad!Publishing(v)) => <>[](host = v)
=============================================================================
