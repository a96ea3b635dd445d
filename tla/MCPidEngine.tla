----------------------------- MODULE MCPidEngine -----------------------------
(***************************************************************************)
(* PidEngine for TLC, with three kinds of hosts: one that uses every       *)
(* report, one that plays loops and delays against the clock (it is the    *)
(* instance of the configuration), and one that tries envelopes.           *)
(***************************************************************************)
EXTENDS PidEngine

CONSTANT Hosts   \* the kinds of host, of "control", "clock", "envelope"

VARIABLE host

OneType == {"constant_force"}
FewTypes == {"sine", "none"}

SetEffects(types, durations, delays, gains) ==
  [id : {"set_effect"}, block : {1}, type : types, duration : durations, start_delay : delays,
   gain : gains]
OperationsOn(blocks, ops, loops) ==
  [id : {"effect_operation"}, block : blocks, operation : ops, loop_count : loops]

(* Every report, with few values: what starts, stops, pauses and frees.    *)
ControlReports ==
  SetEffects({"constant_force", "none"}, {1}, {1}, {2})
    \cup [id : {"set_constant_force"}, block : {1}, magnitude : {-3}]
    \cup [id : {"set_periodic"}, block : {2}, magnitude : {4}]
    \cup [id : {"set_condition"}, block : {1}]
    \cup OperationsOn({1, 2}, {"start", "start_solo", "stop"}, {1})
    \cup OperationsOn({0}, {"start"}, {1})
    \cup [id : {"block_free"}, block : {1, 3}]
    \cup [id : {"device_control"}, control : Controls \cup {"unknown"}]
    \cup [id : {"device_gain"}, gain : {1}]

(* Loops and delays against the clock.                                     *)
ClockReports ==
  SetEffects({"constant_force"}, {2}, {0, 1}, {2})
    \cup OperationsOn({1}, {"start"}, {0, 2, 255})
    \cup [id : {"device_control"}, control : {"device_pause", "device_continue"}]

(* Envelopes of every overlap, on each kind of effect.                     *)
EnvelopeReports ==
  SetEffects({"constant_force", "ramp"}, {0, 3}, {0}, {2})
    \cup [id : {"set_envelope"}, block : {1}, attack_level : {0, 6}, fade_level : {2, 6},
          attack_ms : {0, 2}, fade_ms : {2, 5}]
    \cup [id : {"set_constant_force"}, block : {1}, magnitude : {-5, 3}]
    \cup [id : {"set_ramp_force"}, block : {1}, ramp_start : {-4}, ramp_end : {3}]
    \cup OperationsOn({1}, {"start"}, {1})

Control == INSTANCE PidEngine WITH Reports <- ControlReports, Created <- FewTypes
Envelopes == INSTANCE PidEngine WITH
               Reports <- EnvelopeReports, MaxElapsed <- 5, MaxWrites <- 5, MaxDowns <- 0,
               Ticks <- {CHOOSE t \in Ticks : TRUE}

MCInit ==
  /\ host \in Hosts
  /\ IF host = "envelope" THEN Envelopes!Init ELSE Init

MCNext ==
  /\ \/ host = "control" /\ Control!Next
     \/ host = "clock" /\ Next
     \/ host = "envelope" /\ Envelopes!Next
  /\ UNCHANGED host

(* What must go on, whatever the host writes; time only has to pass where  *)
(* it is the question.                                                     *)
MCFairness ==
  /\ \A s \in Slots : WF_vars(CreateAdopt(s)) /\ WF_vars(Deleted(s)) /\ WF_vars(WriteStartsTimer(s))
  /\ WF_vars(host # "envelope" /\ \E t \in Ticks : TickPlay(t))
  /\ \A t \in Ticks : WF_vars(host # "envelope" /\ TickStep(t))
  /\ WF_vars(DownMark) /\ WF_vars(DownStopTimer)
  /\ WF_vars(host # "envelope" /\ DownWait) /\ WF_vars(DownDeleted)

MCSpec == MCInit /\ [][MCNext]_<<vars, host>> /\ MCFairness

(* FiniteEffectsEnd of PidEngine, and IdleStopsTimer: what starts by       *)
(* itself ends by itself ("Finite effects stop on their own so a host that *)
(* never sends an explicit stop cannot leave the motors running",          *)
(* pid_ff.h:272; "an idle device does not keep a 100 Hz timer alive",      *)
(* driver.cpp:2106).                                                       *)
EffectsAndTimerEnd == host = "envelope" \/ (FiniteEffectsEnd /\ IdleStopsTimer)

=============================================================================
