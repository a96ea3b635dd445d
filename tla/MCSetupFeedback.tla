--------------------------- MODULE MCSetupFeedback ---------------------------
(***************************************************************************)
(* The setup tool for TLC (DeviceSetup): on a machine of two nodes, with   *)
(* waits of one round (the instance of the configuration), and on a        *)
(* machine of one node, with retries, where upgrades and downgrades are    *)
(* asked for; and what a controller tells its client (OutputFeedback).     *)
(* They have nothing in common: each runs while the others rest.           *)
(***************************************************************************)
EXTENDS DeviceSetup, OutputFeedback

VARIABLE part   \* the tool's machine, "two" or "one", or "feedback"

One == INSTANCE DeviceSetup WITH Nodes <- {"n1"}, Requests <- Packages, Attempts <- 1

MCInit ==
  /\ part \in {"two", "one", "feedback"}
  /\ IF part = "one" THEN One!Init ELSE Init
  /\ FeedbackInit
  /\ IF part = "feedback" THEN \A n \in Nodes : node[n] = Absent ELSE profile = "steam"

(* The host has written all it may, the client has it all.                 *)
FeedbackRests == UNCHANGED feedback_vars

MCNext ==
  /\ \/ part = "two" /\ Next /\ UNCHANGED feedback_vars
     \/ part = "one" /\ One!Next /\ UNCHANGED feedback_vars
     \/ part = "feedback" /\ (FeedbackNext \/ FeedbackRests) /\ UNCHANGED vars
  /\ UNCHANGED part

MCSpec ==
  /\ MCInit /\ [][MCNext]_<<part, vars, feedback_vars>>
  /\ WF_vars(part = "two" /\ ToolStep) /\ WF_vars(part = "one" /\ One!ToolStep)

=============================================================================
