--------------------------- MODULE SteamKeepAlive ---------------------------
(***************************************************************************)
(* The keep-alive of the Steam Controllers of one device: a worker thread  *)
(* on a waitable timer that resends the state of every controller a host   *)
(* reads, parks when nobody reads, leaves when no controller is left, and  *)
(* is started again by the next input state (driver.cpp).                  *)
(*                                                                         *)
(* One action is one hold of state_lock or one call outside it.  Time is   *)
(* two facts: the timer may run out once it is set, and a controller's     *)
(* report may have become due (late).  Of the report pump only two facts   *)
(* are kept: VHF accepts a report (ready), and a state report waits        *)
(* (queued); ReportDelivery shows that never both hold.                    *)
(***************************************************************************)
EXTENDS Naturals, FiniteSets

CONSTANTS Slots,       \* slots that hold Steam Controllers
          MaxWorkers,  \* bound on the worker threads ever created
          MaxFaults,   \* bound on failed waits, timer settings, thread creations
          MaxDowns,    \* bound on the times the device goes down
          MaxReports   \* bound on the battery reports of a controller

ASSUME BoundsAssumption ==
  MaxWorkers \in Nat \ {0} /\ MaxFaults \in Nat /\ MaxDowns \in Nat /\ MaxReports \in Nat

Workers == 1 .. MaxWorkers

VARIABLES
  slot,        \* slot[s]: state, have_last_input, ready, queued, late, fresh
  running,     \* context.sc26_timer_running
  parked,      \* context.sc26_timer_parked
  timer,       \* the waitable timer: off, set, or signalled
  stop_event,  \* context.sc26_keepalive_stop
  worker,      \* worker[w]: where the w-th thread is
  thread,      \* context.sc26_keepalive_thread: the last thread started, 0 if none
  gate,        \* the holder of lifetime_gate
  pc,          \* where the request on the sequential IOCTL queue is, with its slot
  pnp,         \* where the PnP thread is
  powered, stopping,
  faults, downs

vars == <<slot, running, parked, timer, stop_event, worker, thread, gate, pc, pnp,
          powered, stopping, faults, downs>>

Empty ==
  [state |-> "empty", have_last_input |-> FALSE, ready |-> FALSE, queued |-> FALSE,
   late |-> FALSE, fresh |-> FALSE, battery |-> 0]

(* fresh: a motion sample was folded into the state and no report encoded  *)
(* since.  battery: how many battery reports went out.  No report waits    *)
(* while VHF accepts one.                                                  *)
SlotRecord ==
  {r \in [state : {"empty", "active", "stopping"}, have_last_input : BOOLEAN,
          ready : BOOLEAN, queued : BOOLEAN, late : BOOLEAN, fresh : BOOLEAN,
          battery : 0 .. MaxReports] : ~(r.ready /\ r.queued)}

WorkerStates == {"none", "waiting", "ticking", "leaving", "clearing", "exited"}
ClientSteps == {"idle", "motion", "join", "publish", "arm", "create", "uncreated", "unset"}
PnpSteps == {"up", "power_intent", "stop_intent", "power_gated", "stop_gated",
             "power_signalled", "stop_signalled", "power_joined", "stop_deleted", "down"}

TypeOK ==
  /\ slot \in [Slots -> SlotRecord]
  /\ running \in BOOLEAN /\ parked \in BOOLEAN /\ stop_event \in BOOLEAN
  /\ timer \in {"off", "set", "signalled"}
  /\ worker \in [Workers -> WorkerStates]
  /\ thread \in Workers \cup {0}
  /\ gate \in {"none", "client", "pnp"}
  /\ pc \in [at : ClientSteps, slot : Slots]
  /\ pnp \in PnpSteps
  /\ powered \in BOOLEAN /\ stopping \in BOOLEAN
  /\ faults \in 0 .. MaxFaults /\ downs \in 0 .. MaxDowns

Init ==
  /\ slot = [s \in Slots |-> Empty]
  /\ running = FALSE /\ parked = FALSE /\ stop_event = FALSE
  /\ timer = "off"
  /\ worker = [w \in Workers |-> "none"]
  /\ thread = 0
  /\ gate = "none"
  /\ pc \in [at : {"idle"}, slot : Slots]
  /\ pnp = "up" /\ powered = TRUE /\ stopping = FALSE
  /\ faults = 0 /\ downs = 0

Accepts(s) == ~stopping /\ powered /\ slot[s].state = "active"

(* The controllers the worker keeps alive.                                 *)
Kept(sl, s) == sl[s].state = "active" /\ sl[s].have_last_input

-----------------------------------------------------------------------------
(* Queue a state report: it goes out at once if VHF accepts one, which     *)
(* restarts the clock of its controller (mark_sc26_report_taken).          *)
Enqueued(r) ==
  IF r.ready THEN [r EXCEPT !.ready = FALSE, !.late = FALSE, !.fresh = FALSE]
  ELSE [r EXCEPT !.queued = TRUE, !.fresh = FALSE]

(* arm_sc26_keepalive, as seen by a caller that finds or makes run true.   *)
(* The code ignores the result of this SetWaitableTimer; it is assumed to  *)
(* succeed, on the timer that StartArm has set.                            *)
Arm(run) ==
  /\ timer' = IF run THEN "set" ELSE timer
  /\ parked' = (parked /\ ~run)

(* Create a controller and destroy it, each under the gate.                *)
Create(s) ==
  /\ gate = "none" /\ pc.at = "idle"
  /\ powered /\ ~stopping
  /\ slot[s].state = "empty"
  /\ slot' = [slot EXCEPT ![s] = [Empty EXCEPT !.state = "active"]]
  /\ UNCHANGED <<running, parked, timer, stop_event, worker, thread, gate, pc, pnp,
                 powered, stopping, faults, downs>>

Destroy(s) ==
  /\ gate = "none"
  /\ slot[s].state = "active"
  /\ slot' = [slot EXCEPT ![s] = Empty]
  /\ UNCHANGED <<running, parked, timer, stop_event, worker, thread, gate, pc, pnp,
                 powered, stopping, faults, downs>>

(* submit_input_state.  A first state starts the worker, still under the   *)
(* gate and outside state_lock.  start: whether this one does.             *)
SubmitInput(s) ==
  LET r == [slot[s] EXCEPT !.have_last_input = TRUE]
      taken == Accepts(s) /\ r.ready
      start == ~running
  IN  /\ gate = "none" /\ pc.at = "idle"
      /\ ~stopping /\ slot[s].state = "active"
      /\ slot' = [slot EXCEPT ![s] = IF Accepts(s) THEN Enqueued(r) ELSE r]
      /\ running' = TRUE
      /\ IF taken THEN Arm(TRUE) ELSE UNCHANGED <<timer, parked>>
      /\ IF start
         THEN /\ gate' = "client"
              /\ pc' = [at |-> "join", slot |-> s]
              /\ \E w \in Workers : worker[w] = "none"
         ELSE UNCHANGED <<gate, pc>>
      /\ UNCHANGED <<stop_event, worker, thread, pnp, powered, stopping, faults, downs>>

(* start_sc26_keepalive: join the previous worker ...                      *)
ClientAt(from) == gate = "client" /\ pc.at = from

(* Mutant: the previous worker is not waited for.                          *)
StartJoin_Skipped ==
  /\ ClientAt("join")
  /\ thread' = 0
  /\ pc' = [pc EXCEPT !.at = "publish"]
  /\ UNCHANGED <<slot, running, parked, timer, stop_event, worker, gate, pnp, powered,
                 stopping, faults, downs>>

StartJoin ==
  /\ ClientAt("join")
  /\ thread # 0 => worker[thread] = "exited"
  /\ thread' = 0
  /\ pc' = [pc EXCEPT !.at = "publish"]
  /\ UNCHANGED <<slot, running, parked, timer, stop_event, worker, gate, pnp, powered,
                 stopping, faults, downs>>

(* ... publish the new generation, whose flag the old worker cleared ...   *)
StartPublish ==
  /\ ClientAt("publish")
  /\ running' = TRUE /\ parked' = FALSE
  /\ pc' = [pc EXCEPT !.at = "arm"]
  /\ UNCHANGED <<slot, timer, stop_event, worker, thread, gate, pnp, powered, stopping,
                 faults, downs>>

(* ... reset the stop event and set the timer ...                          *)
StartArm(fails) ==
  /\ ClientAt("arm")
  /\ fails => faults < MaxFaults
  /\ faults' = faults + (IF fails THEN 1 ELSE 0)
  /\ stop_event' = FALSE
  /\ timer' = IF fails THEN timer ELSE "set"
  /\ pc' = [pc EXCEPT !.at = IF fails THEN "unset" ELSE "create"]
  /\ UNCHANGED <<slot, running, parked, worker, thread, gate, pnp, powered, stopping, downs>>

(* ... create the thread.                                                  *)
StartCreate ==
  /\ ClientAt("create")
  /\ \E w \in Workers :
       /\ worker[w] = "none" /\ \A v \in Workers : v < w => worker[v] # "none"
       /\ worker' = [worker EXCEPT ![w] = "waiting"]
       /\ thread' = w
  /\ gate' = "none" /\ pc' = [pc EXCEPT !.at = "idle"]
  /\ UNCHANGED <<slot, running, parked, timer, stop_event, pnp, powered, stopping, faults, downs>>

(* A thread that cannot be created: cancel the timer, then withdraw.       *)
StartUncreated ==
  /\ ClientAt("create")
  /\ faults < MaxFaults /\ faults' = faults + 1
  /\ pc' = [pc EXCEPT !.at = "uncreated"]
  /\ UNCHANGED <<slot, running, parked, timer, stop_event, worker, thread, gate, pnp, powered,
                 stopping, downs>>

CancelUncreated ==
  /\ ClientAt("uncreated")
  /\ timer' = IF timer = "set" THEN "off" ELSE timer
  /\ pc' = [pc EXCEPT !.at = "unset"]
  /\ UNCHANGED <<slot, running, parked, stop_event, worker, thread, gate, pnp, powered,
                 stopping, faults, downs>>

(* A failed start withdraws the flag, so that the next state tries again.  *)
StartWithdraw ==
  /\ ClientAt("unset")
  /\ running' = FALSE
  /\ gate' = "none" /\ pc' = [pc EXCEPT !.at = "idle"]
  /\ UNCHANGED <<slot, parked, timer, stop_event, worker, thread, pnp, powered, stopping,
                 faults, downs>>

Start ==
  \/ StartJoin \/ StartPublish \/ \E fails \in BOOLEAN : StartArm(fails)
  \/ StartCreate \/ StartUncreated \/ CancelUncreated \/ StartWithdraw

(* submit_motion_state: fold the sample, then leave it to the worker if    *)
(* one runs (a read without state_lock), or send it now.                   *)
MotionFold(s) ==
  /\ gate = "none" /\ pc.at = "idle"
  /\ ~stopping /\ slot[s].state = "active"
  /\ slot' = [slot EXCEPT ![s].fresh = TRUE]
  /\ gate' = "client" /\ pc' = [at |-> "motion", slot |-> s]
  /\ UNCHANGED <<running, parked, timer, stop_event, worker, thread, pnp, powered, stopping,
                 faults, downs>>

MotionDecide ==
  LET s == pc.slot IN
  /\ ClientAt("motion")
  /\ gate' = "none" /\ pc' = [pc EXCEPT !.at = "idle"]
  /\ IF ~running /\ Kept(slot, s) /\ Accepts(s)
     THEN slot' = [slot EXCEPT ![s] = Enqueued(@)]
     ELSE UNCHANGED slot
  /\ UNCHANGED <<running, parked, timer, stop_event, worker, thread, pnp, powered, stopping,
                 faults, downs>>

-----------------------------------------------------------------------------
(* Mutant: a returning reader does not resume a parked cadence.            *)
ReadyForNextReport_NoArm(s) ==
  LET r == slot[s] IN
  /\ Accepts(s) /\ ~r.ready
  /\ slot' = [slot EXCEPT ![s] = IF r.queued THEN [r EXCEPT !.queued = FALSE, !.late = FALSE]
                                 ELSE [r EXCEPT !.ready = TRUE]]
  /\ Arm(running /\ r.queued)
  /\ UNCHANGED <<running, stop_event, worker, thread, gate, pc, pnp, powered, stopping,
                 faults, downs>>

(* evt_vhf_ready_for_next_report: a waiting state report goes out, and a   *)
(* parked cadence resumes.                                                 *)
ReadyForNextReport(s) ==
  LET r == slot[s] IN
  /\ Accepts(s) /\ ~r.ready
  /\ slot' = [slot EXCEPT ![s] = IF r.queued THEN [r EXCEPT !.queued = FALSE, !.late = FALSE]
                                 ELSE [r EXCEPT !.ready = TRUE]]
  /\ Arm(running /\ (r.queued \/ (parked /\ r.have_last_input)))
  /\ UNCHANGED <<running, stop_event, worker, thread, gate, pc, pnp, powered, stopping,
                 faults, downs>>

(* Time: a report becomes due; a set timer runs out.                       *)
BecomesLate(s) ==
  /\ Kept(slot, s) /\ ~slot[s].late
  /\ slot' = [slot EXCEPT ![s].late = TRUE]
  /\ UNCHANGED <<running, parked, timer, stop_event, worker, thread, gate, pc, pnp, powered,
                 stopping, faults, downs>>

TimerFires ==
  /\ timer = "set"
  /\ timer' = "signalled"
  /\ UNCHANGED <<slot, running, parked, stop_event, worker, thread, gate, pc, pnp, powered,
                 stopping, faults, downs>>

-----------------------------------------------------------------------------
(* sc26_keepalive_thread.  The wait serves the stop event first; taking    *)
(* the timer's signal resets it.                                           *)
WorkerWakes(w) ==
  /\ worker[w] = "waiting"
  /\ \/ /\ stop_event
        /\ worker' = [worker EXCEPT ![w] = "leaving"]
        /\ UNCHANGED <<timer, faults>>
     \/ /\ ~stop_event /\ timer = "signalled"
        /\ worker' = [worker EXCEPT ![w] = "ticking"]
        /\ timer' = "off"
        /\ UNCHANGED faults
     \/ /\ faults < MaxFaults /\ faults' = faults + 1
        /\ worker' = [worker EXCEPT ![w] = "leaving"]
        /\ UNCHANGED timer
  /\ UNCHANGED <<slot, running, parked, stop_event, thread, gate, pc, pnp, powered, stopping,
                 downs>>

(* What a tick does to a controller.  One that nobody reads gets its clock *)
(* moved.  A due state is encoded; a due battery report takes the read the *)
(* state would have had, which then waits.                                 *)
Ticked(s, battery) ==
  LET r == slot[s] IN
  IF ~Kept(slot, s) \/ stopping THEN r
  ELSE IF ~r.ready THEN [r EXCEPT !.late = FALSE]
  ELSE IF ~Accepts(s) THEN [r EXCEPT !.fresh = @ /\ ~r.late]
  ELSE IF battery /\ r.battery < MaxReports
  THEN [r EXCEPT !.ready = FALSE, !.queued = r.late, !.fresh = @ /\ ~r.late, !.battery = @ + 1]
  ELSE IF r.late THEN Enqueued(r)
  ELSE r

(* sc26_keepalive_tick: leaves if there is no controller, arms the timer   *)
(* if one is read, parks otherwise.                                        *)
Tick(w, batteries) ==
  LET active == ~stopping /\ \E s \in Slots : Kept(slot, s)
      read == ~stopping /\ \E s \in Slots : Kept(slot, s) /\ slot[s].ready
  IN  /\ worker[w] = "ticking"
      /\ slot' = [s \in Slots |-> Ticked(s, s \in batteries)]
      /\ running' = (running /\ active)
      /\ IF read THEN Arm(running) ELSE timer' = timer /\ parked' = (parked \/ active)
      /\ worker' = [worker EXCEPT ![w] = IF active THEN "waiting" ELSE "leaving"]
      /\ UNCHANGED <<stop_event, thread, gate, pc, pnp, powered, stopping, faults, downs>>

(* On its way out a worker cancels the timer (a signal already given       *)
(* stays), then clears the flag.                                           *)
WorkerCancels(w) ==
  /\ worker[w] = "leaving"
  /\ timer' = IF timer = "set" THEN "off" ELSE timer
  /\ worker' = [worker EXCEPT ![w] = "clearing"]
  /\ UNCHANGED <<slot, running, parked, stop_event, thread, gate, pc, pnp, powered, stopping,
                 faults, downs>>

WorkerExits(w) ==
  /\ worker[w] = "clearing"
  /\ running' = FALSE
  /\ worker' = [worker EXCEPT ![w] = "exited"]
  /\ UNCHANGED <<slot, parked, timer, stop_event, thread, gate, pc, pnp, powered, stopping,
                 faults, downs>>

WorkerStep(w) ==
  \/ WorkerWakes(w) \/ WorkerCancels(w) \/ WorkerExits(w)
  \/ \E batteries \in SUBSET Slots : Tick(w, batteries)

-----------------------------------------------------------------------------
(* power_down_controllers and stop_owned_controllers.  Both publish their  *)
(* intent, take the gate, clear the flag and end admission; then the one   *)
(* stops the worker before it deletes the children, the other after.       *)
DownIntent(kind) ==
  /\ pnp = "up" /\ downs < MaxDowns
  /\ downs' = downs + 1
  /\ powered' = FALSE
  /\ stopping' = (kind = "stop")
  /\ pnp' = IF kind = "stop" THEN "stop_intent" ELSE "power_intent"
  /\ UNCHANGED <<slot, running, parked, timer, stop_event, worker, thread, gate, pc, faults>>

DownGate ==
  /\ pnp \in {"power_intent", "stop_intent"} /\ gate = "none"
  /\ gate' = "pnp"
  /\ pnp' = IF pnp = "stop_intent" THEN "stop_gated" ELSE "power_gated"
  /\ running' = FALSE
  /\ slot' = [s \in Slots |-> IF slot[s].state = "active"
                              THEN [slot[s] EXCEPT !.state = "stopping"] ELSE slot[s]]
  /\ UNCHANGED <<parked, timer, stop_event, worker, thread, pc, powered, stopping, faults, downs>>

DownDelete ==
  /\ pnp \in {"power_joined", "stop_gated"}
  /\ slot' = [s \in Slots |-> Empty]
  /\ pnp' = IF pnp = "power_joined" THEN "down" ELSE "stop_deleted"
  /\ gate' = IF pnp = "power_joined" THEN "none" ELSE gate
  /\ UNCHANGED <<running, parked, timer, stop_event, worker, thread, pc, powered, stopping,
                 faults, downs>>

(* Mutant: the worker is joined without having been told to leave.         *)
StopSignal_Untold ==
  /\ pnp \in {"power_gated", "stop_deleted"}
  /\ pnp' = IF pnp = "power_gated" THEN "power_signalled" ELSE "stop_signalled"
  /\ UNCHANGED <<slot, running, parked, timer, stop_event, worker, thread, gate, pc, powered,
                 stopping, faults, downs>>

(* stop_sc26_keepalive: signal, join, cancel.                              *)
StopSignal ==
  /\ pnp \in {"power_gated", "stop_deleted"}
  /\ stop_event' = TRUE
  /\ pnp' = IF pnp = "power_gated" THEN "power_signalled" ELSE "stop_signalled"
  /\ UNCHANGED <<slot, running, parked, timer, worker, thread, gate, pc, powered, stopping,
                 faults, downs>>

StopJoin ==
  /\ pnp \in {"power_signalled", "stop_signalled"}
  /\ thread # 0 => worker[thread] = "exited"
  /\ thread' = 0
  /\ timer' = IF timer = "set" THEN "off" ELSE timer
  /\ pnp' = IF pnp = "power_signalled" THEN "power_joined" ELSE "down"
  /\ gate' = IF pnp = "power_signalled" THEN gate ELSE "none"
  /\ UNCHANGED <<slot, running, parked, stop_event, worker, pc, powered, stopping, faults, downs>>

(* evt_prepare_hardware and evt_d0_entry.                                  *)
PowerUp ==
  /\ pnp = "down" /\ gate = "none"
  /\ powered' = TRUE /\ stopping' = FALSE
  /\ pnp' = "up"
  /\ UNCHANGED <<slot, running, parked, timer, stop_event, worker, thread, gate, pc, faults, downs>>

Down ==
  \/ \E kind \in {"power", "stop"} : DownIntent(kind)
  \/ DownGate \/ DownDelete \/ StopSignal \/ StopJoin

Next ==
  \/ \E s \in Slots : Create(s) \/ Destroy(s) \/ SubmitInput(s) \/ MotionFold(s)
                        \/ ReadyForNextReport(s) \/ BecomesLate(s)
  \/ Start \/ MotionDecide
  \/ TimerFires
  \/ \E w \in Workers : WorkerStep(w)
  \/ Down \/ PowerUp

(* Threads inside a call are scheduled, time passes, a host that reads     *)
(* asks again.  Clients, and PnP until it has begun, are not forced; the   *)
(* gate is obtained by who waits for it.  A timer that runs out satisfies  *)
(* the wait then and there, so a worker is not starved by clients that set *)
(* the timer anew each time: strong fairness.                              *)
Fairness ==
  /\ WF_vars(Start) /\ WF_vars(MotionDecide) /\ WF_vars(TimerFires)
  /\ \A w \in Workers : SF_vars(WorkerStep(w))
  /\ \A s \in Slots : WF_vars(ReadyForNextReport(s)) /\ WF_vars(BecomesLate(s))
  /\ SF_vars(DownGate) /\ WF_vars(DownDelete) /\ WF_vars(StopSignal) /\ WF_vars(StopJoin)

Spec == Init /\ [][Next]_vars
FairSpec == Spec /\ Fairness

-----------------------------------------------------------------------------
Alive(w) == worker[w] \notin {"none", "exited"}

(* No wake-up is lost: while a worker waits for a controller that a host   *)
(* reads, its timer is set or has run out, or it is being stopped.  The    *)
(* tick parks under state_lock, a returning reader re-arms under it        *)
(* (driver.cpp:2218-2225 and 925-929).                                     *)
NoLostWakeup ==
  \A w \in DOMAIN worker :
    (worker[w] = "waiting" /\ \E s \in DOMAIN slot : Kept(slot, s) /\ Accepts(s) /\ slot[s].ready)
      => timer # "off" \/ ~running \/ stop_event

(* There is never more than one worker (a start joins the one before, so   *)
(* no final store of an old worker can stop the re-arming of a new one);   *)
(* with no start or stop under way sc26_timer_running means that a worker  *)
(* is there (stuck at true, it would keep every later input from starting  *)
(* one); and when the device is down nothing of the worker is left.        *)
WorkerExact ==
  /\ \A v, w \in DOMAIN worker : Alive(v) /\ Alive(w) => v = w
  /\ running /\ gate = "none" => \E w \in DOMAIN worker : Alive(w)
  /\ pnp = "down" => ~running /\ timer # "set" /\ \A w \in DOMAIN worker : ~Alive(w)

(* A motion sample left to the worker is carried by a report, as long as   *)
(* its controller and the cadence stay (submit_motion_state returns        *)
(* success without sending it); and a device that begins to go down gets   *)
(* down, since joining the worker under the gate never waits for something *)
(* that waits for the gate.                                                *)
SamplesCarried ==
  /\ \A s \in Slots :
       []<>(s \in DOMAIN slot /\ slot[s].fresh => ~(Kept(slot, s) /\ Accepts(s) /\ running))
  /\ []<>(pnp \in {"up", "down"})

=============================================================================
