--------------------------- MODULE MCReportDelivery ---------------------------
(***************************************************************************)
(* ReportDelivery for TLC: one controller of each profile, chosen at the   *)
(* start.  The PlayStation pad is the instance of the configuration; the   *)
(* others differ in their profile and in the bounds that matter to them.   *)
(***************************************************************************)
EXTENDS ReportDelivery

CONSTANTS SwitchWrites,  \* MaxWrites for the Switch pad: two replies in a row
          SteamInputs    \* MaxInputs for the Steam Controller

VARIABLE profile

SwitchPad == INSTANCE ReportDelivery WITH
               Profile <- "switch", MaxWrites <- SwitchWrites, MaxFailures <- 0
SteamController == INSTANCE ReportDelivery WITH
               Profile <- "steam", MaxInputs <- SteamInputs, MaxWrites <- 1

MCInit == profile \in {Profile, "switch", "steam"} /\ Init

MCNext ==
  /\ \/ profile = Profile /\ Next
     \/ profile = "switch" /\ SwitchPad!Next
     \/ profile = "steam" /\ SteamController!Next
  /\ UNCHANGED profile

(* The handlers to which Fairness applies are the same for every profile,  *)
(* but for the pump after a reply, which only the Switch pad has.          *)
MCSpec == MCInit /\ [][MCNext]_<<vars, profile>> /\ SwitchPad!Fairness
=============================================================================
