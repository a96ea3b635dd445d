--------------------------- MODULE MCSteamKeepAlive ---------------------------
(***************************************************************************)
(* SteamKeepAlive for TLC: a device with two Steam Controllers, or with    *)
(* one, and then waits, timer settings and thread creations may fail and   *)
(* battery reports take the place of state reports.                        *)
(***************************************************************************)
EXTENDS SteamKeepAlive

CONSTANT First   \* the slot of the lone controller

VARIABLE lone

Lone == INSTANCE SteamKeepAlive WITH Slots <- {First}, MaxFaults <- 1, MaxReports <- 1

MCInit == (lone = TRUE /\ Lone!Init) \/ (lone = FALSE /\ Init)

MCNext == UNCHANGED lone /\ IF lone THEN Lone!Next ELSE Next

MCFairness ==
  /\ WF_vars(IF lone THEN Lone!Start ELSE Start)
  /\ WF_vars(IF lone THEN Lone!MotionDecide ELSE MotionDecide)
  /\ WF_vars(TimerFires)
  /\ \A w \in Workers : SF_vars(IF lone THEN Lone!WorkerStep(w) ELSE WorkerStep(w))
  /\ \A s \in Slots :
       /\ WF_vars(s \in DOMAIN slot /\ ReadyForNextReport(s))
       /\ WF_vars(s \in DOMAIN slot /\ BecomesLate(s))
  /\ SF_vars(IF lone THEN Lone!DownGate ELSE DownGate)
  /\ WF_vars(IF lone THEN Lone!DownDelete ELSE DownDelete)
  /\ WF_vars(StopSignal) /\ WF_vars(StopJoin)

MCSpec == MCInit /\ [][MCNext]_<<vars, lone>> /\ MCFairness
=============================================================================
