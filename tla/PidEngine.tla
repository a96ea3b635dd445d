------------------------------ MODULE PidEngine ------------------------------
(***************************************************************************)
(* DirectInput force feedback: the effect blocks of a controller and their *)
(* reduction to one rumble (pid_ff.cpp), its publication to the client,    *)
(* and the periodic timer of the device that plays the effects, which      *)
(* stops itself and is started again by the next effect (driver.cpp).      *)
(*                                                                         *)
(* One action is one hold of state_lock or one timer call outside it.  The *)
(* unit of time is a tick.  Magnitudes, gains and rumble keep the code's   *)
(* arithmetic over smaller ranges.                                         *)
(*                                                                         *)
(* The driver as shipped never gets here: find_profile refuses the profile *)
(* with force feedback (profile.cpp:187-191), and the engine is kept and   *)
(* tested for private builds that admit it.  PrivateTest is such a build.  *)
(***************************************************************************)
EXTENDS Integers, FiniteSetsExt

CONSTANTS Slots,        \* slots that hold force-feedback controllers
          Ticks,        \* tick callbacks that may run at a time
          MaxEffects,   \* k_pid_max_effects
          NominalMax,   \* k_pid_nominal_max
          GainMax,      \* 255: full gain
          RumbleMax,    \* 65535: full rumble
          Forever,      \* 0xFF: the loop count of an endless effect
          Reports,      \* output reports the host may write
          Created,      \* effect types the host may ask a block for
          MaxWrites,    \* bound on the host's reports
          MaxLives,     \* bound on the controllers created
          MaxDowns,     \* bound on the times the device goes down
          MaxElapsed,   \* longer than any delay, duration and attack
          EarlyWrites,  \* whether the host writes during VhfStart
          PrivateTest   \* whether find_profile admits force feedback: FALSE as shipped

ASSUME PidAssumption ==
  /\ MaxEffects \in Nat \ {0} /\ NominalMax \in Nat \ {0} /\ GainMax \in Nat \ {0}
  /\ RumbleMax \in Nat /\ Forever \in Nat /\ MaxElapsed \in Nat
  /\ MaxWrites \in Nat /\ MaxLives \in Nat /\ MaxDowns \in Nat
  /\ EarlyWrites \in BOOLEAN /\ PrivateTest \in BOOLEAN

Blocks == 1 .. MaxEffects
Periodic == {"square", "sine", "triangle", "sawtooth_up", "sawtooth_down"}
Conditions == {"spring", "damper", "inertia", "friction", "custom_force_data"}
EffectTypes == {"constant_force", "ramp"} \cup Periodic \cup Conditions
Types == EffectTypes \cup {"none"}   \* "none": any other number

(* What an output report may carry (pid_ff.h).  Block 0 and blocks beyond  *)
(* the pool are reports the engine refuses, as are other operations.       *)
PidReport ==
  [id : {"set_effect"}, block : Nat, type : Types, duration : Nat, start_delay : 0 .. MaxElapsed,
   gain : 0 .. GainMax]
    \cup [id : {"set_envelope"}, block : Nat, attack_level : Nat, fade_level : Nat,
          attack_ms : Nat, fade_ms : Nat]
    \cup [id : {"set_condition", "block_free"}, block : Nat]
    \cup [id : {"set_periodic"}, block : Nat, magnitude : Nat]
    \cup [id : {"set_constant_force"}, block : Nat, magnitude : Int]
    \cup [id : {"set_ramp_force"}, block : Nat, ramp_start : Int, ramp_end : Int]
    \cup [id : {"effect_operation"}, block : Nat, operation : STRING, loop_count : Nat]
    \cup [id : {"device_control"}, control : STRING]
    \cup [id : {"device_gain"}, gain : 0 .. GainMax]

ASSUME ReportAssumption == Reports \subseteq PidReport

VARIABLES
  slot,     \* slot[s]: state, pid, pid_rumble, feedback, pending, source, seen
  writer,   \* writer[s]: the write callback of a slot is about to start the timer
  timer,    \* pid_timer runs
  tick,     \* tick[t]: where a timer callback is
  pnp,      \* where the PnP thread is
  powered, stopping,
  writes, lives, downs

vars == <<slot, writer, timer, tick, pnp, powered, stopping, writes, lives, downs>>

-----------------------------------------------------------------------------
(* Arithmetic.  C divides toward zero.                                     *)
Div(a, b) == IF a >= 0 THEN a \div b ELSE -((-a) \div b)
Absolute(n) == IF n < 0 THEN -n ELSE n
Clamp(n) == IF n < 0 THEN 0 ELSE IF n > NominalMax THEN NominalMax ELSE n
ToRumble(n) == (Clamp(n) * RumbleMax) \div NominalMax

(* The attack part of an envelope, and the fade part.                      *)
Attacked(e, at, m) ==
  IF e.attack_ms # 0 /\ at < e.attack_ms
  THEN e.attack_level + Div((m - e.attack_level) * at, e.attack_ms) ELSE m

FadeStart(e) == IF e.duration > e.fade_ms THEN e.duration - e.fade_ms ELSE 0

(* Past the duration the code's int32 may wrap, which leaves the attack    *)
(* part where this is far below it; within the duration both agree.        *)
Faded(e, at, m) == m + Div((e.fade_level - m) * (at - FadeStart(e)), e.duration - FadeStart(e))

(* Mutant: a fade longer than the effect starts before the effect does.    *)
ApplyEnvelope_NoFloor(e, at, m) ==
  LET a == Attacked(e, at, m)
      f == m + Div((e.fade_level - m) * (at - (e.duration - e.fade_ms)), e.fade_ms)
  IN  IF e.duration # 0 /\ e.fade_ms # 0 /\ at >= e.duration - e.fade_ms
      THEN f ELSE a

ApplyEnvelope(e, at, m) ==
  LET a == Attacked(e, at, m)
      fading == e.duration # 0 /\ e.fade_ms # 0 /\ at >= FadeStart(e)
                  /\ e.duration # FadeStart(e)
  IN  Clamp(IF fading /\ Faded(e, at, m) < a THEN Faded(e, at, m) ELSE a)

(* What an effect asks for before its envelope.                            *)
Raw(e, at) ==
  CASE e.type = "constant_force" -> Absolute(e.constant_magnitude)
    [] e.type = "ramp" ->
         Absolute(e.ramp_start +
           (IF e.duration = 0 THEN 0
            ELSE Div((e.ramp_end - e.ramp_start)
                       * (IF at > e.duration THEN e.duration ELSE at), e.duration)))
    [] e.type \in Periodic -> e.periodic_magnitude

-----------------------------------------------------------------------------
(* pid_engine.  An effect block, free, and the engine after reset().       *)
FreeEffect ==
  [allocated |-> FALSE, playing |-> FALSE, type |-> "none", duration |-> 0, start_delay |-> 0,
   gain |-> 0, loop_count |-> 0, constant_magnitude |-> 0, periodic_magnitude |-> 0,
   ramp_start |-> 0, ramp_end |-> 0, attack_level |-> 0, fade_level |-> 0,
   attack_ms |-> 0, fade_ms |-> 0, elapsed |-> 0]

ResetEngine ==
  [effects |-> [b \in Blocks |-> FreeEffect], last_allocated |-> 0,
   load_status |-> "success", device_gain |-> GainMax, enabled |-> TRUE, paused |-> FALSE]

CreateNewEffect(g, type) ==
  LET free == {b \in Blocks : ~g.effects[b].allocated} IN
  IF type \notin EffectTypes THEN [g EXCEPT !.load_status = "error"]
  ELSE IF free = {} THEN [g EXCEPT !.load_status = "full"]
  ELSE [g EXCEPT !.effects[Min(free)] =
                   [FreeEffect EXCEPT !.allocated = TRUE, !.type = type, !.gain = GainMax],
                 !.last_allocated = Min(free), !.load_status = "success"]

Stopped(e) == [e EXCEPT !.playing = FALSE, !.elapsed = 0]
StopAll(g) == [g EXCEPT !.effects = [b \in Blocks |-> Stopped(g.effects[b])]]

Started(e, loops) == [e EXCEPT !.playing = TRUE, !.elapsed = 0, !.loop_count = loops]

(* The reports that set parameters of a block, by report id.               *)
SetBlock(e, r) ==
  CASE r.id = "set_effect" ->
         [e EXCEPT !.type = IF r.type \in EffectTypes THEN r.type ELSE @, !.duration = r.duration,
                   !.start_delay = r.start_delay, !.gain = r.gain]
    [] r.id = "set_envelope" ->
         [e EXCEPT !.attack_level = r.attack_level, !.fade_level = r.fade_level,
                   !.attack_ms = r.attack_ms, !.fade_ms = r.fade_ms]
    [] r.id = "set_condition" -> e
    [] r.id = "set_periodic" -> [e EXCEPT !.periodic_magnitude = r.magnitude]
    [] r.id = "set_constant_force" -> [e EXCEPT !.constant_magnitude = r.magnitude]
    [] r.id = "set_ramp_force" -> [e EXCEPT !.ramp_start = r.ramp_start, !.ramp_end = r.ramp_end]
    [] r.id = "block_free" -> FreeEffect

EffectOperation(g, r) ==
  CASE r.operation = "start" -> [g EXCEPT !.effects[r.block] = Started(@, r.loop_count)]
    [] r.operation = "start_solo" ->
         [StopAll(g) EXCEPT !.effects[r.block] = Started(@, r.loop_count)]
    [] r.operation = "stop" -> [g EXCEPT !.effects[r.block] = Stopped(@)]

DeviceControl(g, control) ==
  CASE control = "enable_actuators" -> [g EXCEPT !.enabled = TRUE]
    [] control = "disable_actuators" -> [g EXCEPT !.enabled = FALSE]
    [] control = "stop_all_effects" -> StopAll(g)
    [] control = "device_reset" -> ResetEngine
    [] control = "device_pause" -> [g EXCEPT !.paused = TRUE]
    [] control = "device_continue" -> [g EXCEPT !.paused = FALSE]

Operations == {"start", "start_solo", "stop"}
Controls == {"enable_actuators", "disable_actuators", "stop_all_effects", "device_reset",
             "device_pause", "device_continue"}

(* Whether a report is understood, and what it does then.                  *)
Handled(g, r) ==
  CASE r.id = "device_gain" -> TRUE
    [] r.id = "device_control" -> r.control \in Controls
    [] OTHER -> /\ r.block \in Blocks /\ g.effects[r.block].allocated
                /\ r.id = "effect_operation" => r.operation \in Operations

ApplyPidOutput(g, r) ==
  CASE r.id = "device_gain" -> [g EXCEPT !.device_gain = r.gain]
    [] r.id = "device_control" -> DeviceControl(g, r.control)
    [] r.id = "effect_operation" -> EffectOperation(g, r)
    [] OTHER -> [g EXCEPT !.effects[r.block] = SetBlock(@, r)]

(* Mutant: the plays that are left are not counted down.                   *)
Advanced_Uncounted(e) ==
  LET t == Min({e.elapsed + 1, MaxElapsed}) IN
  IF ~e.allocated \/ ~e.playing THEN e
  ELSE IF e.duration = 0 \/ t < e.start_delay + e.duration THEN [e EXCEPT !.elapsed = t]
  ELSE IF e.loop_count > 1 THEN [e EXCEPT !.elapsed = e.start_delay]
  ELSE Stopped(e)

(* advance() by one tick.  A loop counts down the plays that are left.     *)
Advanced(e) ==
  LET t == Min({e.elapsed + 1, MaxElapsed}) IN
  IF ~e.allocated \/ ~e.playing THEN e
  ELSE IF e.duration = 0 \/ t < e.start_delay + e.duration THEN [e EXCEPT !.elapsed = t]
  ELSE IF e.loop_count = Forever THEN [e EXCEPT !.elapsed = e.start_delay]
  ELSE IF e.loop_count > 1 THEN [e EXCEPT !.loop_count = @ - 1, !.elapsed = e.start_delay]
  ELSE Stopped(e)

Advance(g) ==
  IF g.paused THEN g ELSE [g EXCEPT !.effects = [b \in Blocks |-> Advanced(g.effects[b])]]

NeedsTick(g) == \E b \in Blocks : g.effects[b].allocated /\ g.effects[b].playing

(* rumble(): the strongest effect of each motor.                           *)
Heard(e) == e.allocated /\ e.playing /\ e.elapsed >= e.start_delay

Level(g, e) ==
  LET at == e.elapsed - e.start_delay IN
  Clamp((((ApplyEnvelope(e, at, Raw(e, at)) * e.gain) \div GainMax) * g.device_gain) \div GainMax)

Strongest(g, types) ==
  Max({0} \cup {Level(g, g.effects[b]) :
                  b \in {c \in Blocks : Heard(g.effects[c]) /\ g.effects[c].type \in types}})

Rumble(g) ==
  IF ~g.enabled \/ g.paused THEN [low |-> 0, high |-> 0]
  ELSE [low |-> ToRumble(Strongest(g, {"constant_force", "ramp"})),
        high |-> ToRumble(Strongest(g, Periodic))]

Silence == [low |-> 0, high |-> 0]
GenericRumble == [low |-> RumbleMax, high |-> 0]
NotYet == [low |-> -1, high |-> -1]

-----------------------------------------------------------------------------
EmptySlot ==
  [state |-> "empty", pid |-> ResetEngine, pid_rumble |-> NotYet, feedback |-> Silence,
   pending |-> FALSE, source |-> "pid", seen |-> Silence]

(* source: who filled the last event; seen: the event polled last.         *)
Init ==
  /\ slot = [s \in Slots |-> EmptySlot]
  /\ writer = [s \in Slots |-> "idle"]
  /\ timer = FALSE
  /\ tick = [t \in Ticks |-> "idle"]
  /\ pnp = "up" /\ powered = TRUE /\ stopping = FALSE
  /\ writes = 0 /\ lives = 0 /\ downs = 0

RumbleRange == [low : 0 .. RumbleMax, high : 0 .. RumbleMax]

EffectRecord ==
  [allocated : BOOLEAN, playing : BOOLEAN, type : Types, duration : Nat,
   start_delay : 0 .. MaxElapsed, gain : 0 .. GainMax, loop_count : Nat,
   constant_magnitude : Int, periodic_magnitude : Nat, ramp_start : Int, ramp_end : Int,
   attack_level : Nat, fade_level : Nat, attack_ms : Nat, fade_ms : Nat,
   elapsed : 0 .. MaxElapsed]

Engine ==
  [effects : [Blocks -> EffectRecord], last_allocated : 0 .. MaxEffects,
   load_status : {"success", "full", "error"}, device_gain : 0 .. GainMax,
   enabled : BOOLEAN, paused : BOOLEAN]

SlotRecord ==
  [state : {"empty", "starting", "active", "stopping"}, pid : Engine,
   pid_rumble : RumbleRange \cup {NotYet}, feedback : RumbleRange, pending : BOOLEAN,
   source : {"pid", "generic"}, seen : RumbleRange]

TypeOK ==
  /\ slot \in [Slots -> SlotRecord]
  /\ writer \in [Slots -> {"idle", "arm"}]
  /\ tick \in [Ticks -> {"idle", "stop", "leave", "recheck", "restart"}]
  /\ timer \in BOOLEAN
  /\ pnp \in {"up", "intent", "timer", "wait", "deleting", "down"}
  /\ powered \in BOOLEAN /\ stopping \in BOOLEAN
  /\ writes \in 0 .. MaxWrites /\ lives \in 0 .. MaxLives /\ downs \in 0 .. MaxDowns

Accepts(s) == ~stopping /\ powered /\ slot[s].state \in {"starting", "active"}

(* Mutant: an event that waits for the client is left as it is.            *)
Publish_KeepsPending(r) ==
  IF r.pid_rumble = Rumble(r.pid) \/ r.pending THEN r
  ELSE [r EXCEPT !.pid_rumble = Rumble(r.pid), !.feedback = Rumble(r.pid), !.pending = TRUE,
                 !.source = "pid"]

(* publish_pid_rumble: the event replaces the one that is pending, whoever *)
(* wrote that.                                                             *)
Publish(r) ==
  IF r.pid_rumble = Rumble(r.pid) THEN r
  ELSE [r EXCEPT !.pid_rumble = Rumble(r.pid), !.feedback = Rumble(r.pid), !.pending = TRUE,
                 !.source = "pid"]

(* A controller is created if find_profile admits its profile (two steps,  *)
(* with VhfStart between) and destroyed; its callbacks are drained before  *)
(* the slot is reset.                                                      *)
CreateAdmit(s) ==
  /\ PrivateTest
  /\ pnp = "up" /\ slot[s].state = "empty" /\ lives < MaxLives
  /\ slot' = [slot EXCEPT ![s] = [EmptySlot EXCEPT !.state = "starting"]]
  /\ lives' = lives + 1
  /\ UNCHANGED <<writer, timer, tick, pnp, powered, stopping, writes, downs>>

CreateAdopt(s) ==
  /\ slot[s].state = "starting"
  /\ slot' = [slot EXCEPT ![s] = IF powered /\ ~stopping THEN [@ EXCEPT !.state = "active"]
                                 ELSE [@ EXCEPT !.state = "stopping", !.pending = FALSE]]
  /\ UNCHANGED <<writer, timer, tick, pnp, powered, stopping, writes, lives, downs>>

DestroyMark(s) ==
  /\ pnp = "up" /\ slot[s].state = "active"
  /\ slot' = [slot EXCEPT ![s].state = "stopping", ![s].pending = FALSE]
  /\ UNCHANGED <<writer, timer, tick, pnp, powered, stopping, writes, lives, downs>>

Deleted(s) ==
  /\ pnp \in {"up", "intent", "deleting"} /\ slot[s].state = "stopping" /\ writer[s] = "idle"
  /\ slot' = [slot EXCEPT ![s] = EmptySlot]
  /\ UNCHANGED <<writer, timer, tick, pnp, powered, stopping, writes, lives, downs>>

(* The host's reports.                                                     *)
HostMayWrite(s) ==
  /\ writes < MaxWrites /\ writer[s] = "idle"
  /\ Accepts(s) /\ (slot[s].state = "starting" => EarlyWrites)
  /\ writes' = writes + 1

SetFeature(s, type) ==
  /\ HostMayWrite(s)
  /\ slot' = [slot EXCEPT ![s].pid = CreateNewEffect(@, type)]
  /\ UNCHANGED <<writer, timer, tick, pnp, powered, stopping, lives, downs>>

WritePid(s, r) ==
  /\ HostMayWrite(s) /\ Handled(slot[s].pid, r)
  /\ slot' = [slot EXCEPT ![s] =
                Publish([slot[s] EXCEPT !.pid = ApplyPidOutput(slot[s].pid, r)])]
  /\ writer' = [writer EXCEPT ![s] = IF NeedsTick(slot'[s].pid) THEN "arm" ELSE "idle"]
  /\ UNCHANGED <<timer, tick, pnp, powered, stopping, lives, downs>>

WriteStartsTimer(s) ==
  /\ writer[s] = "arm"
  /\ timer' = TRUE
  /\ writer' = [writer EXCEPT ![s] = "idle"]
  /\ UNCHANGED <<slot, tick, pnp, powered, stopping, writes, lives, downs>>

WriteGeneric(s) ==
  /\ HostMayWrite(s)
  /\ slot' = [slot EXCEPT ![s].feedback = GenericRumble, ![s].pending = TRUE,
                          ![s].source = "generic"]
  /\ UNCHANGED <<writer, timer, tick, pnp, powered, stopping, lives, downs>>

PollFeedback(s) ==
  /\ slot[s].state = "active" /\ slot[s].pending
  /\ slot' = [slot EXCEPT ![s].pending = FALSE, ![s].seen = slot[s].feedback]
  /\ UNCHANGED <<writer, timer, tick, pnp, powered, stopping, writes, lives, downs>>

-----------------------------------------------------------------------------
(* evt_pid_tick: play, then stop the timer if nothing plays, then look     *)
(* again.                                                                  *)
Played(sl) == \E s \in Slots : sl[s].state = "active" /\ NeedsTick(sl[s].pid)

TickPlay(t) ==
  /\ timer /\ tick[t] = "idle"
  /\ slot' = [s \in Slots |-> IF slot[s].state = "active"
                              THEN Publish([slot[s] EXCEPT !.pid = Advance(@)]) ELSE slot[s]]
  /\ tick' = [tick EXCEPT ![t] = IF stopping THEN "leave"
                                 ELSE IF ~Played(slot') THEN "stop" ELSE "idle"]
  /\ UNCHANGED <<writer, timer, pnp, powered, stopping, writes, lives, downs>>

(* A callback that found the device stopping does not look again.          *)
TickStop(t) ==
  /\ tick[t] \in {"stop", "leave"}
  /\ timer' = FALSE
  /\ tick' = [tick EXCEPT ![t] = IF @ = "stop" THEN "recheck" ELSE "idle"]
  /\ UNCHANGED <<slot, writer, pnp, powered, stopping, writes, lives, downs>>

(* Mutant: believes what it saw before the stop.                           *)
TickRecheck_Skipped(t) ==
  /\ tick[t] = "recheck"
  /\ tick' = [tick EXCEPT ![t] = "idle"]
  /\ UNCHANGED <<slot, writer, timer, pnp, powered, stopping, writes, lives, downs>>

TickRecheck(t) ==
  /\ tick[t] = "recheck"
  /\ tick' = [tick EXCEPT ![t] = IF Played(slot) THEN "restart" ELSE "idle"]
  /\ UNCHANGED <<slot, writer, timer, pnp, powered, stopping, writes, lives, downs>>

TickRestart(t) ==
  /\ tick[t] = "restart"
  /\ timer' = TRUE
  /\ tick' = [tick EXCEPT ![t] = "idle"]
  /\ UNCHANGED <<slot, writer, pnp, powered, stopping, writes, lives, downs>>

TickStep(t) == TickStop(t) \/ TickRecheck(t) \/ TickRestart(t)

(* The device goes down: end admission, stop the timer and wait for its    *)
(* callbacks, delete.  A write callback that is still on its way may start *)
(* the timer after that, but a callback that WdfTimerStop(timer, TRUE)     *)
(* waits for may not: when it returns the timer is stopped.                *)
(* (stop_owned_controllers deletes first.)                                 *)
DownIntent(kind) ==
  /\ pnp = "up" /\ downs < MaxDowns
  /\ downs' = downs + 1 /\ powered' = FALSE /\ stopping' = (kind = "stop")
  /\ pnp' = "intent"
  /\ UNCHANGED <<slot, writer, timer, tick, writes, lives>>

DownMark ==
  /\ pnp = "intent" /\ \A s \in Slots : slot[s].state \notin {"starting", "stopping"}
  /\ slot' = [s \in Slots |-> IF slot[s].state = "active"
                              THEN [slot[s] EXCEPT !.state = "stopping", !.pending = FALSE]
                              ELSE slot[s]]
  /\ pnp' = IF stopping THEN "deleting" ELSE "timer"
  /\ UNCHANGED <<writer, timer, tick, powered, stopping, writes, lives, downs>>

DownStopTimer ==
  /\ pnp = "timer"
  /\ timer' = FALSE
  /\ pnp' = "wait"
  /\ UNCHANGED <<slot, writer, tick, powered, stopping, writes, lives, downs>>

DownWait ==
  /\ pnp = "wait" /\ \A t \in Ticks : tick[t] = "idle"
  /\ timer' = FALSE
  /\ pnp' = IF stopping THEN "down" ELSE "deleting"
  /\ UNCHANGED <<slot, writer, tick, powered, stopping, writes, lives, downs>>

DownDeleted ==
  /\ pnp = "deleting" /\ \A s \in Slots : slot[s].state = "empty"
  /\ pnp' = IF stopping THEN "timer" ELSE "down"
  /\ UNCHANGED <<slot, writer, timer, tick, powered, stopping, writes, lives, downs>>

PowerUp ==
  /\ pnp = "down"
  /\ pnp' = "up" /\ powered' = TRUE /\ stopping' = FALSE
  /\ UNCHANGED <<slot, writer, timer, tick, writes, lives, downs>>

Down == \/ \E kind \in {"power", "stop"} : DownIntent(kind)
        \/ DownMark \/ DownStopTimer \/ DownWait \/ DownDeleted

Host(s) ==
  \/ \E type \in Created : SetFeature(s, type)
  \/ \E r \in Reports : WritePid(s, r)
  \/ WriteGeneric(s)

Next ==
  \/ \E s \in Slots : CreateAdmit(s) \/ CreateAdopt(s) \/ DestroyMark(s) \/ Deleted(s)
                        \/ Host(s) \/ WriteStartsTimer(s) \/ PollFeedback(s)
  \/ \E t \in Ticks : TickPlay(t) \/ TickStep(t)
  \/ Down \/ PowerUp

(* Handlers that have begun go on, and a running timer fires.              *)
Fairness ==
  /\ \A s \in Slots : WF_vars(CreateAdopt(s)) /\ WF_vars(Deleted(s)) /\ WF_vars(WriteStartsTimer(s))
  /\ WF_vars(\E t \in Ticks : TickPlay(t)) /\ \A t \in Ticks : WF_vars(TickStep(t))
  /\ WF_vars(DownMark) /\ WF_vars(DownStopTimer) /\ WF_vars(DownWait) /\ WF_vars(DownDeleted)

Spec == Init /\ [][Next]_vars
FairSpec == Spec /\ Fairness

-----------------------------------------------------------------------------
(* Every change of what the engine asks for reaches the client's event,    *)
(* whatever generic reports wrote over it before (driver.cpp:1626).        *)
EveryChangeTold ==
  [][\A s \in Slots :
       (slot[s].state = "active" /\ slot'[s].state = "active"
          /\ Rumble(slot[s].pid) # Rumble(slot'[s].pid))
         => slot'[s].pending /\ slot'[s].feedback = Rumble(slot'[s].pid)]_vars

(* No effect is left without a clock: while an active controller plays,    *)
(* the timer runs, or someone is about to start it or to look again        *)
(* (driver.cpp:2136-2147).                                                 *)
ClockCoversEffects ==
  Played(slot) => \/ timer \/ stopping
                  \/ \E s \in Slots : writer[s] = "arm"
                  \/ \E t \in DOMAIN tick : tick[t] \in {"recheck", "restart"}

(* An envelope is never louder than the loudest of attack level, magnitude *)
(* and fade level, however attack and fade overlap and also when Set       *)
(* Effect (pid_ff.cpp:726) shortens an effect that plays already past its  *)
(* new duration, which is published at once (driver.cpp:1872); and within  *)
(* its duration it is never below the least of them.  Past it the fade     *)
(* runs on below its level, down to nothing, until the next tick ends the  *)
(* effect.                                                                 *)
EnvelopeHull ==
  \A s \in Slots : \A b \in Blocks :
    LET e == slot[s].pid.effects[b]
        at == e.elapsed - e.start_delay
        m == Raw(e, at)
        levels == {m, e.attack_level, e.fade_level}
    IN  (Heard(e) /\ e.type \notin Conditions)
          => /\ ApplyEnvelope(e, at, m) <= Clamp(Max(levels))
             /\ e.duration = 0 \/ at <= e.duration
                  => Clamp(Min(levels)) <= ApplyEnvelope(e, at, m)

(* "Finite effects stop on their own so a host that never sends an         *)
(* explicit stop cannot leave the motors running" (pid_ff.h:272).          *)
Unattended(s, b) ==
  LET e == slot[s].pid.effects[b] IN
  /\ slot[s].state = "active" /\ ~slot[s].pid.paused
  /\ e.playing /\ e.duration # 0 /\ e.loop_count # Forever

FiniteEffectsEnd == \A s \in Slots : \A b \in Blocks : []<>~Unattended(s, b)

(* "an idle device does not keep a 100 Hz timer alive" (driver.cpp:2106),  *)
(* a device that went down included.                                       *)
IdleStopsTimer == []<>(timer => Played(slot))

=============================================================================
