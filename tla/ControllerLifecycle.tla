------------------------- MODULE ControllerLifecycle -------------------------
(***************************************************************************)
(* The life of the virtual controllers of one source device, driver.cpp:   *)
(* slots, the VHF children behind them, and everyone who creates, uses or  *)
(* tears them down: the sequential IOCTL queue, the close of a client's    *)
(* file, the PnP and power callbacks, the callbacks of VHF and the Steam   *)
(* keep-alive worker.                                                      *)
(*                                                                         *)
(* One action is one hold of state_lock, so state_lock itself needs no     *)
(* variable; lifetime_gate, which is held across calls into VHF, does.     *)
(* VHF is external: VhfDelete returns once VHF's own callbacks for that    *)
(* child have returned, and does not know of any other user of the handle. *)
(***************************************************************************)
EXTENDS Integers, FiniteSets

CONSTANTS Files,           \* the clients' file objects
          NoFile,
          MaxControllers,  \* lvg::k_max_controllers
          NoChild,         \* a null VHFHANDLE
          Free,            \* the lifetime gate when nobody holds it
          MaxCreates,      \* bound on controllers created
          MaxPowerUps      \* bound on D0 entries

ASSUME SlotAssumption == MaxControllers \in Nat \ {0}
ASSUME BoundAssumption == MaxCreates \in Nat /\ MaxPowerUps \in Nat
ASSUME NullAssumption == NoFile \notin Files

Slots == 0 .. MaxControllers - 1
Child == [slot : Slots, gen : Nat]

ASSUME NoChildAssumption == NoChild \notin Child

Threads == Files \cup {"ioctl", "pnp"}

ASSUME ThreadAssumption ==
  Files \cap {"ioctl", "pnp", "worker", "ready", "write"} = {} /\ Free \notin Threads

VARIABLES
  slot,      \* controllers[]: controller_slot
  powered,   \* device_context::powered
  stopping,  \* device_context::stopping
  target,    \* [exists, open, handle]: the local VHF I/O target
  gate,      \* holder of lifetime_gate
  pc,        \* where each thread is
  req,       \* the IOCTL being handled
  status,    \* what the last IOCTL completed with
  at,        \* the slot each closing file has reached
  victim,    \* the handle each thread is deleting
  handles,   \* handles power_down / stop_owned have still to delete
  retired,   \* handles power_down has deleted, to be marked lost
  forget,    \* stop_owned_controllers' forget_target
  children,  \* VHF children created and not deleted
  started,   \* children VhfStart has been called for
  deleting,  \* children inside VhfDelete
  present,   \* slots whose HID child PnP still lists
  calls,     \* VHF callbacks running: [child, kind, step]
  submits,   \* VhfReadReportSubmit calls under way: [by, child]
  worker,    \* whether the keep-alive thread exists
  creates,   \* controllers created so far
  powerups   \* D0 entries so far

vars == <<slot, powered, stopping, target, gate, pc, req, status, at, victim,
          handles, retired, forget, children, started, deleting, present,
          calls, submits, worker, creates, powerups>>

device == <<powered, stopping, target>>
vhf    == <<children, started, deleting, present, calls>>
counts == <<creates, powerups>>
teardown == <<handles, retired, forget>>

States == {"empty", "starting", "active", "stopping", "lost"}
Statuses == {"SUCCESS", "NOT_FOUND", "ACCESS_DENIED", "NOT_READY", "POWERED_OFF",
             "BUSY", "REMOVED", "CANCELLED", "NO_MORE_ENTRIES", "FAILED"}

ControllerSlot ==
  [state      : States,
   owner      : Files \cup {NoFile},
   vhf        : Child \cup {NoChild},
   generation : Nat,
   feedback   : Child \cup {NoChild},  \* child whose output report is pending
   in_flight  : Nat]                   \* submits_in_flight

Labels ==
  {"idle", "snapshot", "admit", "open", "create", "start", "adopt", "undo",
   "encoded", "submitting", "destroy", "wait", "deleting", "closed",
   "stopped", "started", "working", "removed",
   "down", "down_null", "down_join", "down_each", "down_wait",
   "stop", "stop_null", "stop_each", "stop_wait", "close"}

TypeOK ==
  /\ slot \in [Slots -> ControllerSlot]
  /\ powered \in BOOLEAN
  /\ stopping \in BOOLEAN
  /\ target \in [exists : BOOLEAN, open : BOOLEAN, handle : BOOLEAN]
  /\ gate \in Threads \cup {Free}
  /\ pc \in [Threads -> Labels]
  /\ req \in [file : Files \cup {NoFile}, slot : Slots, gen : Nat, present : BOOLEAN]
  /\ status \in Statuses
  /\ at \in [Files -> Slots]
  /\ victim \in [Threads -> Child \cup {NoChild}]
  /\ handles \in SUBSET Child
  /\ retired \in SUBSET Child
  /\ forget \in BOOLEAN
  /\ children \in SUBSET Child
  /\ started \in SUBSET Child
  /\ deleting \in SUBSET Child
  /\ present \in SUBSET Slots
  /\ calls \in SUBSET [child : Child, kind : {"ready", "write"},
                       step : {"entered", "published", "submitting"}]
  /\ submits \in SUBSET [by : {"ioctl", "worker", "ready", "write"}, child : Child]
  /\ worker \in BOOLEAN
  /\ creates \in Nat
  /\ powerups \in Nat

-----------------------------------------------------------------------------
(* reset_slot: everything zeroed, the generation one higher.               *)
ResetSlot(r) ==
  [state |-> "empty", owner |-> NoFile, vhf |-> NoChild,
   generation |-> r.generation + 1, feedback |-> NoChild, in_flight |-> 0]

(* evt_device_add: slots empty, target created but not opened, not powered.*)
Init ==
  /\ slot = [s \in Slots |-> [state |-> "empty", owner |-> NoFile, vhf |-> NoChild,
                              generation |-> 0, feedback |-> NoChild, in_flight |-> 0]]
  /\ powered = FALSE
  /\ stopping = FALSE
  /\ target = [exists |-> TRUE, open |-> FALSE, handle |-> FALSE]
  /\ gate = Free
  /\ pc = [t \in Threads |-> IF t = "pnp" THEN "stopped" ELSE "idle"]
  /\ req = [file |-> NoFile, slot |-> 0, gen |-> 0, present |-> FALSE]
  /\ status = "SUCCESS"
  /\ at = [f \in Files |-> 0]
  /\ victim = [t \in Threads |-> NoChild]
  /\ handles = {} /\ retired = {} /\ forget = FALSE
  /\ children = {} /\ started = {} /\ deleting = {} /\ present = {}
  /\ calls = {} /\ submits = {}
  /\ worker = FALSE
  /\ creates = 0 /\ powerups = 0

AcceptsVhfCallbacks(s) ==
  /\ ~stopping /\ powered
  /\ slot[s].vhf # NoChild
  /\ slot[s].state \in {"starting", "active"}

InactiveStatus(s, f) ==
  IF slot[s].owner = f /\ slot[s].state = "lost" THEN "REMOVED" ELSE "NOT_READY"

(* An IOCTL may arrive on an open file while the queue is idle; WDF closes *)
(* a file only after its requests have completed.                          *)
CanRequest(f) == pc["ioctl"] = "idle" /\ pc[f] = "idle"

GoTo(t, label) == pc' = [pc EXCEPT ![t] = label]

Complete(st) == GoTo("ioctl", "idle") /\ status' = st

SetSlot(s, r) == slot' = [slot EXCEPT ![s] = r]

ChildOf(s) == [slot |-> s, gen |-> slot[s].generation]

-----------------------------------------------------------------------------
(* Mutant: anybody may take over a lost controller.                        *)
Available_ToAnyone(s, f) == slot[s].state \in {"empty", "lost"}

(* create_controller.  Available: empty, or lost and the caller's own.     *)
Available(s, f) ==
  slot[s].state = "empty" \/ (slot[s].state = "lost" /\ slot[s].owner = f)

(* The first check, and the generation the child snapshot will belong to.  *)
CreateCheck(f, s) ==
  /\ CanRequest(f)
  /\ creates < MaxCreates
  /\ req' = [file |-> f, slot |-> s, gen |-> slot[s].generation, present |-> FALSE]
  /\ \/ stopping /\ Complete("NOT_READY")
     \/ ~stopping /\ ~powered /\ Complete("POWERED_OFF")
     \/ ~stopping /\ powered /\ ~Available(s, f) /\ Complete("BUSY")
     \/ ~stopping /\ powered /\ Available(s, f) /\ GoTo("ioctl", "snapshot") /\ UNCHANGED status
  /\ UNCHANGED <<slot, device, gate, at, victim, teardown, vhf, submits, worker, counts>>

(* previous_child_present, with no lock held; a failed enumeration counts  *)
(* as present.                                                             *)
CreateSnapshot ==
  /\ pc["ioctl"] = "snapshot"
  /\ \E failed \in BOOLEAN :
       req' = [req EXCEPT !.present = req.slot \in present \/ failed]
  /\ GoTo("ioctl", "admit")
  /\ UNCHANGED <<slot, device, gate, status, at, victim, teardown, vhf, submits, worker, counts>>

(* Revalidate under the gate, then claim the slot.                         *)
CreateAdmit ==
  LET s == req.slot
      f == req.file
      busy == ~Available(s, f) \/ slot[s].generation # req.gen \/ req.present
  IN
  /\ pc["ioctl"] = "admit"
  /\ gate = Free
  /\ \/ /\ \/ stopping /\ Complete("NOT_READY")
           \/ ~stopping /\ ~powered /\ Complete("POWERED_OFF")
           \/ ~stopping /\ powered /\ busy /\ Complete("BUSY")
        /\ UNCHANGED <<slot, gate, creates>>
     \/ /\ ~stopping /\ powered /\ ~busy
        /\ SetSlot(s, [ResetSlot(slot[s]) EXCEPT !.state = "starting", !.owner = f])
        /\ gate' = "ioctl"
        /\ creates' = creates + 1
        /\ GoTo("ioctl", "open")
        /\ UNCHANGED status
  /\ UNCHANGED <<device, req, at, victim, teardown, vhf, submits, worker, powerups>>

(* release_starting_slot, and the gate let go with it.                     *)
ReleaseStarting(st) ==
  LET s == req.slot IN
  /\ SetSlot(s, IF slot[s].owner = req.file /\ slot[s].state \in {"starting", "stopping"}
                  THEN ResetSlot(slot[s]) ELSE slot[s])
  /\ gate' = Free
  /\ Complete(st)

(* ensure_vhf_target_open: already open, refused, or opened by WDF or not. *)
CreateOpen ==
  /\ pc["ioctl"] = "open"
  /\ \/ /\ target.handle
        /\ GoTo("ioctl", "create")
        /\ UNCHANGED <<slot, target, gate, status>>
     \/ /\ ~target.handle /\ ~stopping /\ target.exists
        /\ target' = [target EXCEPT !.open = TRUE, !.handle = TRUE]
        /\ GoTo("ioctl", "create")
        /\ UNCHANGED <<slot, gate, status>>
     \/ /\ ~target.handle
        /\ ReleaseStarting("NOT_READY")
        /\ UNCHANGED target
  /\ UNCHANGED <<powered, stopping, req, at, victim, teardown, vhf, submits, worker, counts>>

(* VhfCreate, and the handle published before VhfStart.                    *)
CreateChild ==
  LET s == req.slot IN
  /\ pc["ioctl"] = "create"
  /\ \/ /\ children' = children \cup {ChildOf(s)}
        /\ SetSlot(s, [slot[s] EXCEPT !.vhf = ChildOf(s)])
        /\ victim' = [victim EXCEPT !["ioctl"] = ChildOf(s)]
        /\ GoTo("ioctl", "start")
        /\ UNCHANGED <<gate, status>>
     \/ /\ ReleaseStarting("FAILED")
        /\ UNCHANGED <<children, victim>>
  /\ UNCHANGED <<device, req, at, teardown, started, deleting, present, calls, submits, worker, counts>>

(* VhfStart: PnP enumerates the child and callbacks may begin.             *)
CreateStart ==
  /\ pc["ioctl"] = "start"
  /\ started' = started \cup {victim["ioctl"]}
  /\ present' = present \cup {req.slot}
  /\ GoTo("ioctl", "adopt")
  /\ UNCHANGED <<slot, device, gate, req, status, at, victim, teardown, children, deleting, calls, submits, worker, counts>>

(* Mutant: a child that is not adopted is left behind.                     *)
CreateAdopt_Leaks ==
  LET s == req.slot
      adopts == ~stopping /\ powered /\ slot[s].state = "starting"
  IN
  /\ pc["ioctl"] = "adopt"
  /\ \/ /\ adopts
        /\ SetSlot(s, [slot[s] EXCEPT !.state = "active"])
        /\ gate' = Free
        /\ Complete("SUCCESS")
     \/ ~adopts /\ ReleaseStarting("CANCELLED")
  /\ victim' = [victim EXCEPT !["ioctl"] = NoChild]
  /\ UNCHANGED <<device, req, at, teardown, vhf, submits, worker, counts>>

(* VhfStart has returned: adopt the child, or take it back.                *)
CreateAdopt ==
  LET s == req.slot IN
  /\ pc["ioctl"] = "adopt"
  /\ \E ok \in BOOLEAN :
       \/ /\ ok /\ ~stopping /\ powered
          /\ slot[s].owner = req.file /\ slot[s].state = "starting"
          /\ SetSlot(s, [slot[s] EXCEPT !.state = "active"])
          /\ victim' = [victim EXCEPT !["ioctl"] = NoChild]
          /\ gate' = Free
          /\ Complete("SUCCESS")
       \/ /\ ~(/\ ok /\ ~stopping /\ powered
               /\ slot[s].owner = req.file /\ slot[s].state = "starting")
          /\ SetSlot(s, [slot[s] EXCEPT !.state = "stopping", !.feedback = NoChild,
                                        !.vhf = NoChild])
          /\ status' = IF ok THEN "CANCELLED" ELSE "FAILED"
          /\ GoTo("ioctl", "undo")
          /\ UNCHANGED <<victim, gate>>
  /\ UNCHANGED <<device, req, at, teardown, vhf, submits, worker, counts>>

-----------------------------------------------------------------------------
(* VhfDelete of the handle thread t holds, in two steps: no new callback   *)
(* begins, and it returns once those that had begun are over.              *)
BeginDelete(t) == deleting' = deleting \cup {victim[t]}

Drained(c) == \A call \in calls : call.child # c

EndDelete(t) ==
  /\ Drained(victim[t])
  /\ children' = children \ {victim[t]}
  /\ started' = started \ {victim[t]}
  /\ deleting' = deleting \ {victim[t]}

(* create_controller takes an unadopted child back.  Only its own          *)
(* callbacks can have submitted for it, and VhfDelete waits for those.     *)
CreateUndoBegin ==
  /\ pc["ioctl"] = "undo"
  /\ victim["ioctl"] \notin deleting
  /\ BeginDelete("ioctl")
  /\ UNCHANGED <<slot, device, gate, pc, req, status, at, victim, teardown, children, started, present, calls, submits, worker, counts>>

CreateUndoEnd ==
  /\ pc["ioctl"] = "undo"
  /\ victim["ioctl"] \in deleting
  /\ EndDelete("ioctl")
  /\ ReleaseStarting(status)
  /\ victim' = [victim EXCEPT !["ioctl"] = NoChild]
  /\ UNCHANGED <<device, req, at, teardown, present, calls, submits, worker, counts>>

-----------------------------------------------------------------------------
(* destroy_controller: answer at once, or go on to destroy_owned.          *)
DestroyCheck(f, s) ==
  /\ CanRequest(f)
  /\ req' = [file |-> f, slot |-> s, gen |-> 0, present |-> FALSE]
  /\ \/ slot[s].state = "empty" /\ Complete("NOT_FOUND")
     \/ slot[s].state # "empty" /\ slot[s].owner # f /\ Complete("ACCESS_DENIED")
     \/ slot[s].state # "empty" /\ slot[s].owner = f /\ GoTo("ioctl", "destroy") /\ UNCHANGED status
  /\ UNCHANGED <<slot, device, gate, at, victim, teardown, vhf, submits, worker, counts>>

(* evt_file_close: destroy_owned for every slot in turn.                   *)
FileClose(f) ==
  /\ pc[f] = "idle"
  /\ pc["ioctl"] = "idle" \/ req.file # f
  /\ GoTo(f, "destroy")
  /\ UNCHANGED <<slot, device, gate, req, status, at, victim, teardown, vhf, submits, worker, counts>>

SlotOf(t) == IF t = "ioctl" THEN req.slot ELSE at[t]
OwnerOf(t) == IF t = "ioctl" THEN req.file ELSE t

(* destroy_owned_controller returns to whoever called it.                  *)
Destroyed(t) ==
  \/ /\ t = "ioctl"
     /\ Complete("SUCCESS")
     /\ UNCHANGED at
  \/ /\ t # "ioctl"
     /\ IF at[t] + 1 \in Slots
          THEN at' = [at EXCEPT ![t] = @ + 1] /\ GoTo(t, "destroy")
          ELSE GoTo(t, "closed") /\ UNCHANGED at
     /\ UNCHANGED status

DestroyNothing(t) ==
  /\ pc[t] = "destroy"
  /\ gate = Free
  /\ slot[SlotOf(t)].owner # OwnerOf(t) \/ slot[SlotOf(t)].state = "empty"
  /\ Destroyed(t)
  /\ UNCHANGED <<slot, device, gate, req, victim, teardown, vhf, submits, worker, counts>>

(* A lost controller has no child left; a starting one is its creator's.   *)
DestroyChildless(t) ==
  LET s == SlotOf(t) IN
  /\ pc[t] = "destroy"
  /\ gate = Free
  /\ slot[s].owner = OwnerOf(t) /\ slot[s].state \in {"starting", "lost"}
  /\ SetSlot(s, IF slot[s].state = "lost" THEN ResetSlot(slot[s])
                ELSE [slot[s] EXCEPT !.state = "stopping"])
  /\ Destroyed(t)
  /\ UNCHANGED <<device, gate, req, victim, teardown, vhf, submits, worker, counts>>

(* Retire the handle: nothing new can start on it.                         *)
DestroyRetire(t) ==
  LET s == SlotOf(t) IN
  /\ pc[t] = "destroy"
  /\ gate = Free
  /\ slot[s].owner = OwnerOf(t) /\ slot[s].state \in {"active", "stopping"}
  /\ gate' = t
  /\ victim' = [victim EXCEPT ![t] = slot[s].vhf]
  /\ SetSlot(s, [slot[s] EXCEPT !.state = "stopping", !.feedback = NoChild, !.vhf = NoChild])
  /\ GoTo(t, "wait")
  /\ UNCHANGED <<device, req, status, at, teardown, vhf, submits, worker, counts>>

(* Mutant: a wait for a worker nobody has told to stop.                    *)
DestroyWait_ForWorker(t) ==
  /\ pc[t] = "wait"
  /\ slot[SlotOf(t)].in_flight = 0 /\ ~worker
  /\ BeginDelete(t)
  /\ GoTo(t, "deleting")
  /\ UNCHANGED <<slot, device, gate, req, status, at, victim, teardown, children, started, present, calls, submits, worker, counts>>

(* wait_for_submits, then VhfDelete.                                       *)
DestroyWait(t) ==
  /\ pc[t] = "wait"
  /\ slot[SlotOf(t)].in_flight = 0
  /\ BeginDelete(t)
  /\ GoTo(t, "deleting")
  /\ UNCHANGED <<slot, device, gate, req, status, at, victim, teardown, children, started, present, calls, submits, worker, counts>>

DestroyEnd(t) ==
  LET s == SlotOf(t) IN
  /\ pc[t] = "deleting"
  /\ EndDelete(t)
  /\ SetSlot(s, IF slot[s].owner = OwnerOf(t) /\ slot[s].state = "stopping"
                  THEN ResetSlot(slot[s]) ELSE slot[s])
  /\ victim' = [victim EXCEPT ![t] = NoChild]
  /\ gate' = Free
  /\ Destroyed(t)
  /\ UNCHANGED <<device, req, teardown, present, calls, submits, worker, counts>>

Destroyers == Files \cup {"ioctl"}

-----------------------------------------------------------------------------
(* submit_input_state: under the gate, the slot must be the caller's and   *)
(* active.                                                                 *)
SubmitCheck(f, s) ==
  LET usable == slot[s].owner = f /\ ~stopping /\ slot[s].state = "active" /\ slot[s].vhf # NoChild
  IN
  /\ CanRequest(f)
  /\ gate = Free
  /\ req' = [file |-> f, slot |-> s, gen |-> 0, present |-> FALSE]
  /\ \/ usable /\ gate' = "ioctl" /\ GoTo("ioctl", "encoded") /\ UNCHANGED status
     \/ ~usable /\ Complete(InactiveStatus(s, f)) /\ UNCHANGED gate
  /\ UNCHANGED <<slot, device, at, victim, teardown, vhf, submits, worker, counts>>

(* begin_state_update, for touch, motion and battery: the same, with the   *)
(* statuses of destroy and poll.                                           *)
UpdateCheck(f, s) ==
  /\ CanRequest(f)
  /\ gate = Free
  /\ req' = [file |-> f, slot |-> s, gen |-> 0, present |-> FALSE]
  /\ \/ /\ slot[s].state = "empty"
        /\ Complete("NOT_FOUND") /\ UNCHANGED gate
     \/ /\ slot[s].state # "empty" /\ slot[s].owner # f
        /\ Complete("ACCESS_DENIED") /\ UNCHANGED gate
     \/ /\ slot[s].state # "empty" /\ slot[s].owner = f
        /\ stopping \/ slot[s].state # "active" \/ slot[s].vhf = NoChild
        /\ Complete(InactiveStatus(s, f)) /\ UNCHANGED gate
     \/ /\ slot[s].owner = f /\ ~stopping
        /\ slot[s].state = "active" /\ slot[s].vhf # NoChild
        /\ gate' = "ioctl" /\ GoTo("ioctl", "encoded") /\ UNCHANGED status
  /\ UNCHANGED <<slot, device, at, victim, teardown, vhf, submits, worker, counts>>

(* pump_report_locked has a report to take: copy the handle and count it.  *)
TakeFor(by, s) ==
  /\ slot' = [slot EXCEPT ![s].in_flight = @ + 1]
  /\ submits' = submits \cup {[by |-> by, child |-> slot[s].vhf]}

(* pump_report: refused while powering down, queued for later, or taken.   *)
(* A Steam Controller's first input starts the keep-alive worker.          *)
SubmitPump ==
  LET s == req.slot IN
  /\ pc["ioctl"] = "encoded"
  /\ worker' \in {worker, TRUE}
  /\ \/ /\ ~AcceptsVhfCallbacks(s)
        /\ Complete("NOT_READY")
        /\ gate' = Free
        /\ UNCHANGED <<slot, submits>>
     \/ /\ AcceptsVhfCallbacks(s)
        /\ Complete("SUCCESS")
        /\ gate' = Free
        /\ UNCHANGED <<slot, submits>>
     \/ /\ AcceptsVhfCallbacks(s)
        /\ TakeFor("ioctl", s)
        /\ GoTo("ioctl", "submitting")
        /\ UNCHANGED <<gate, status>>
  /\ UNCHANGED <<device, req, at, victim, teardown, vhf, counts>>

(* submit_taken: VhfReadReportSubmit has returned, the count goes down.    *)
Submitted(x) ==
  /\ x \in submits
  /\ submits' = submits \ {x}
  /\ slot' = [slot EXCEPT ![x.child.slot].in_flight = @ - 1]

SubmitEnd ==
  /\ pc["ioctl"] = "submitting"
  /\ \E x \in submits : x.by = "ioctl" /\ Submitted(x)
  /\ \E st \in {"SUCCESS", "FAILED"} : Complete(st)
  /\ gate' = Free
  /\ UNCHANGED <<device, req, at, victim, teardown, vhf, worker, counts>>

(* poll_feedback: one event of the caller's own active controller.         *)
PollFeedback(f, s) ==
  /\ CanRequest(f)
  /\ req' = [file |-> f, slot |-> s, gen |-> 0, present |-> FALSE]
  /\ \/ /\ slot[s].state = "empty"
        /\ Complete("NOT_FOUND") /\ UNCHANGED slot
     \/ /\ slot[s].state # "empty" /\ slot[s].owner # f
        /\ Complete("ACCESS_DENIED") /\ UNCHANGED slot
     \/ /\ slot[s].owner = f /\ slot[s].state \notin {"empty", "active"}
        /\ Complete(InactiveStatus(s, f)) /\ UNCHANGED slot
     \/ /\ slot[s].owner = f /\ slot[s].state = "active" /\ slot[s].feedback = NoChild
        /\ Complete("NO_MORE_ENTRIES") /\ UNCHANGED slot
     \/ /\ slot[s].owner = f /\ slot[s].state = "active" /\ slot[s].feedback # NoChild
        /\ Complete("SUCCESS")
        /\ SetSlot(s, [slot[s] EXCEPT !.feedback = NoChild])
  /\ UNCHANGED <<device, gate, at, victim, teardown, vhf, submits, worker, counts>>

-----------------------------------------------------------------------------
(* A VHF callback enters, for a started child that is not being deleted.   *)
(* Its context is the slot, not the child.                                 *)
CallbackEnter(c, kind) ==
  /\ c \in started \ deleting
  /\ \A call \in calls : ~(call.child = c /\ call.kind = kind)
  /\ calls' = calls \cup {[child |-> c, kind |-> kind, step |-> "entered"]}
  /\ UNCHANGED <<slot, device, gate, pc, req, status, at, victim, teardown, children, started, deleting, present, submits, worker, counts>>

Move(call, step) == calls' = (calls \ {call}) \cup {[call EXCEPT !.step = step]}

(* evt_vhf_write_report: publish an output report as feedback.             *)
WritePublish(call) ==
  LET s == call.child.slot IN
  /\ call \in calls /\ call.kind = "write" /\ call.step = "entered"
  /\ IF AcceptsVhfCallbacks(s)
       THEN Move(call, "published") /\ SetSlot(s, [slot[s] EXCEPT !.feedback = call.child])
       ELSE calls' = calls \ {call} /\ UNCHANGED slot
  /\ UNCHANGED <<device, gate, pc, req, status, at, victim, teardown, children, started, deleting, present, submits, worker, counts>>

(* The readiness callback, or a reply of the write callback: take the next *)
(* report if one waits, or return.                                         *)
CallbackPump(call) ==
  LET s == call.child.slot IN
  /\ call \in calls
  /\ call.step = IF call.kind = "write" THEN "published" ELSE "entered"
  /\ \/ /\ AcceptsVhfCallbacks(s)
        /\ Move(call, "submitting")
        /\ TakeFor(call.kind, s)
     \/ /\ calls' = calls \ {call}
        /\ UNCHANGED <<slot, submits>>
  /\ UNCHANGED <<device, gate, pc, req, status, at, victim, teardown, children, started, deleting, present, worker, counts>>

CallbackEnd(call) ==
  /\ call \in calls /\ call.step = "submitting"
  /\ \E x \in submits : x.by = call.kind /\ x.child.slot = call.child.slot /\ Submitted(x)
  /\ calls' = calls \ {call}
  /\ UNCHANGED <<device, gate, pc, req, status, at, victim, teardown, children, started, deleting, present, worker, counts>>

(* sc26_keepalive_tick: in one hold, a report for some of the active       *)
(* controllers; they are submitted one after the other.                    *)
WorkerIdle == \A x \in submits : x.by # "worker"

(* Mutant: the worker does not count its submissions.                      *)
KeepaliveTick_Uncounted(S) ==
  /\ worker /\ WorkerIdle
  /\ S # {} /\ \A s \in S : AcceptsVhfCallbacks(s) /\ slot[s].state = "active"
  /\ submits' = submits \cup {[by |-> "worker", child |-> slot[s].vhf] : s \in S}
  /\ UNCHANGED <<slot, device, gate, pc, req, status, at, victim, teardown, vhf, worker, counts>>

KeepaliveTick(S) ==
  /\ worker /\ WorkerIdle
  /\ S # {} /\ \A s \in S : AcceptsVhfCallbacks(s) /\ slot[s].state = "active"
  /\ slot' = [s \in Slots |-> IF s \in S THEN [slot[s] EXCEPT !.in_flight = @ + 1] ELSE slot[s]]
  /\ submits' = submits \cup {[by |-> "worker", child |-> slot[s].vhf] : s \in S}
  /\ UNCHANGED <<device, gate, pc, req, status, at, victim, teardown, vhf, worker, counts>>

KeepaliveSubmitted(x) ==
  /\ x.by = "worker" /\ Submitted(x)
  /\ UNCHANGED <<device, gate, pc, req, status, at, victim, teardown, vhf, worker, counts>>

(* The worker leaves when no Steam Controller is left to keep alive.       *)
KeepaliveExit ==
  /\ worker /\ WorkerIdle
  /\ worker' = FALSE
  /\ UNCHANGED <<slot, device, gate, pc, req, status, at, victim, teardown, vhf, submits, counts>>

(* PnP lists a deleted child until its removal has completed.              *)
ChildRemoved(s) ==
  /\ s \in present
  /\ \A c \in started : c.slot # s
  /\ present' = present \ {s}
  /\ UNCHANGED <<slot, device, gate, pc, req, status, at, victim, teardown, children, started, deleting, calls, submits, worker, counts>>

-----------------------------------------------------------------------------
(* evt_prepare_hardware: no longer stopping; the target may open, or not.  *)
PrepareHardware ==
  /\ pc["pnp"] = "stopped"
  /\ powerups < MaxPowerUps
  /\ gate = Free
  /\ stopping' = FALSE
  /\ target' \in {target, [target EXCEPT !.open = TRUE, !.handle = TRUE]}
  /\ GoTo("pnp", "started")
  /\ UNCHANGED <<slot, powered, gate, req, status, at, victim, teardown, vhf, submits, worker, counts>>

D0Entry ==
  /\ pc["pnp"] = "started"
  /\ powerups < MaxPowerUps
  /\ gate = Free
  /\ powered' = TRUE
  /\ powerups' = powerups + 1
  /\ GoTo("pnp", "working")
  /\ UNCHANGED <<slot, stopping, target, gate, req, status, at, victim, teardown, vhf, submits, worker, creates>>

(* Mutant: the power flag is left on.                                      *)
D0Exit_StillPowered ==
  /\ pc["pnp"] = "working"
  /\ GoTo("pnp", "down")
  /\ UNCHANGED <<slot, powered, stopping, target, gate, req, status, at, victim, teardown, vhf, submits, worker, counts>>

(* evt_d0_exit, power_down_controllers: no power before the gate is asked. *)
D0Exit ==
  /\ pc["pnp"] = "working"
  /\ powered' = FALSE
  /\ GoTo("pnp", "down")
  /\ UNCHANGED <<slot, stopping, target, gate, req, status, at, victim, teardown, vhf, submits, worker, counts>>

(* Every active controller stops; its handle is remembered.                *)
PowerDownMark ==
  LET live == {s \in Slots : slot[s].state = "active" /\ slot[s].vhf # NoChild} IN
  /\ pc["pnp"] = "down"
  /\ gate = Free
  /\ gate' = "pnp"
  /\ handles' = {slot[s].vhf : s \in live}
  /\ slot' = [s \in Slots |-> IF s \in live
                 THEN [slot[s] EXCEPT !.state = "stopping", !.feedback = NoChild] ELSE slot[s]]
  /\ GoTo("pnp", "down_null")
  /\ UNCHANGED <<device, req, status, at, victim, retired, forget, vhf, submits, worker, counts>>

(* Mutant: the slots are given up before their children.                   *)
PowerDownNull_ResetsEarly ==
  /\ pc["pnp"] = "down_null"
  /\ slot' = [s \in Slots |-> IF \E c \in handles : c.slot = s
                 THEN [ResetSlot(slot[s]) EXCEPT !.owner = slot[s].owner, !.state = "lost"]
                 ELSE slot[s]]
  /\ GoTo("pnp", "down_join")
  /\ UNCHANGED <<device, gate, req, status, at, victim, teardown, vhf, submits, worker, counts>>

PowerDownNull ==
  /\ pc["pnp"] = "down_null"
  /\ slot' = [s \in Slots |-> IF \E c \in handles : c.slot = s
                 THEN [slot[s] EXCEPT !.vhf = NoChild] ELSE slot[s]]
  /\ GoTo("pnp", "down_join")
  /\ UNCHANGED <<device, gate, req, status, at, victim, teardown, vhf, submits, worker, counts>>

(* stop_sc26_keepalive: join the worker, which ends the tick it is in.     *)
JoinWorker == WorkerIdle /\ worker' = FALSE

PowerDownJoin ==
  /\ pc["pnp"] = "down_join"
  /\ JoinWorker
  /\ GoTo("pnp", "down_each")
  /\ UNCHANGED <<slot, device, gate, req, status, at, victim, teardown, vhf, submits, counts>>

(* The handles are deleted in slot order, each after wait_for_submits.     *)
NextHandle(c) == c \in handles /\ \A d \in handles : c.slot <= d.slot

(* Mutant: no wait_for_submits.                                            *)
DeleteHandle_Unwaited(from, to) ==
  /\ pc["pnp"] = from
  /\ \E c \in handles :
       /\ NextHandle(c)
       /\ victim' = [victim EXCEPT !["pnp"] = c]
       /\ deleting' = deleting \cup {c}
  /\ GoTo("pnp", to)
  /\ UNCHANGED <<slot, device, gate, req, status, at, teardown, children, started, present, calls, submits, worker, counts>>

DeleteHandle(from, to) ==
  /\ pc["pnp"] = from
  /\ \E c \in handles :
       /\ NextHandle(c)
       /\ slot[c.slot].in_flight = 0
       /\ victim' = [victim EXCEPT !["pnp"] = c]
       /\ deleting' = deleting \cup {c}
  /\ GoTo("pnp", to)
  /\ UNCHANGED <<slot, device, gate, req, status, at, teardown, children, started, present, calls, submits, worker, counts>>

PowerDownDelete == DeleteHandle("down_each", "down_wait")

PowerDownDeleted ==
  /\ pc["pnp"] = "down_wait"
  /\ EndDelete("pnp")
  /\ handles' = handles \ {victim["pnp"]}
  /\ retired' = retired \cup {victim["pnp"]}
  /\ victim' = [victim EXCEPT !["pnp"] = NoChild]
  /\ GoTo("pnp", "down_each")
  /\ UNCHANGED <<slot, device, gate, req, status, at, forget, present, calls, submits, worker, counts>>

(* All are gone: the slots are lost, but still their owners'.              *)
PowerDownLost ==
  /\ pc["pnp"] = "down_each"
  /\ handles = {}
  /\ slot' = [s \in Slots |->
                IF (\E c \in retired : c.slot = s) /\ slot[s].state = "stopping"
                  THEN [ResetSlot(slot[s]) EXCEPT !.owner = slot[s].owner, !.state = "lost"]
                  ELSE slot[s]]
  /\ retired' = {}
  /\ gate' = Free
  /\ GoTo("pnp", "started")
  /\ UNCHANGED <<device, req, status, at, victim, handles, forget, vhf, submits, worker, counts>>

-----------------------------------------------------------------------------
(* stop_owned_controllers, for evt_release_hardware and for the cleanup of *)
(* the target: intent first, then the gate.  It does not rely on D0 exit   *)
(* having come first: driver/tests/test_vhf_lifecycle.cpp calls both on a  *)
(* working device.                                                         *)
StopIntent(from, forget_target) ==
  /\ pc["pnp"] \in from
  /\ stopping' = TRUE
  /\ powered' = FALSE
  /\ forget' = forget_target
  /\ GoTo("pnp", "stop")
  /\ UNCHANGED <<slot, target, gate, req, status, at, victim, handles, retired, vhf, submits, worker, counts>>

ReleaseHardware == StopIntent({"started", "working"}, FALSE)
TargetCleanup == StopIntent({"stopped", "working"}, TRUE)

StopMark ==
  /\ pc["pnp"] = "stop"
  /\ gate = Free
  /\ gate' = "pnp"
  /\ slot' = [s \in Slots |->
                CASE slot[s].state \in {"active", "starting"} ->
                       [slot[s] EXCEPT !.state = "stopping", !.feedback = NoChild]
                  [] slot[s].state = "lost" -> ResetSlot(slot[s])
                  [] OTHER -> [slot[s] EXCEPT !.feedback = NoChild]]
  /\ GoTo("pnp", "stop_null")
  /\ UNCHANGED <<device, req, status, at, victim, teardown, vhf, submits, worker, counts>>

(* The file handle goes, with the target if it is being deleted, and the   *)
(* handles of the stopping slots are taken out of them.                    *)
StopNull ==
  LET live == {s \in Slots : slot[s].state = "stopping" /\ slot[s].vhf # NoChild} IN
  /\ pc["pnp"] = "stop_null"
  /\ target' = IF forget THEN [exists |-> FALSE, open |-> FALSE, handle |-> FALSE]
               ELSE [target EXCEPT !.handle = FALSE]
  /\ handles' = {slot[s].vhf : s \in live}
  /\ slot' = [s \in Slots |-> IF s \in live THEN [slot[s] EXCEPT !.vhf = NoChild] ELSE slot[s]]
  /\ GoTo("pnp", "stop_each")
  /\ UNCHANGED <<powered, stopping, gate, req, status, at, victim, retired, forget, vhf, submits, worker, counts>>

StopDelete == DeleteHandle("stop_each", "stop_wait")

StopDeleted ==
  LET c == victim["pnp"] IN
  /\ pc["pnp"] = "stop_wait"
  /\ EndDelete("pnp")
  /\ handles' = handles \ {c}
  /\ SetSlot(c.slot, ResetSlot(slot[c.slot]))
  /\ victim' = [victim EXCEPT !["pnp"] = NoChild]
  /\ GoTo("pnp", "stop_each")
  /\ UNCHANGED <<device, gate, req, status, at, retired, forget, present, calls, submits, worker, counts>>

StopJoin ==
  /\ pc["pnp"] = "stop_each"
  /\ handles = {}
  /\ JoinWorker
  /\ gate' = Free
  /\ GoTo("pnp", IF forget THEN "removed" ELSE "close")
  /\ UNCHANGED <<slot, device, req, status, at, victim, teardown, vhf, submits, counts>>

(* The end of evt_release_hardware: close the target.                      *)
CloseTarget ==
  /\ pc["pnp"] = "close"
  /\ gate = Free
  /\ target' = [target EXCEPT !.open = FALSE]
  /\ GoTo("pnp", "stopped")
  /\ UNCHANGED <<slot, powered, stopping, gate, req, status, at, victim, teardown, vhf, submits, worker, counts>>

-----------------------------------------------------------------------------
Request ==
  \E f \in Files, s \in Slots :
    \/ CreateCheck(f, s) \/ DestroyCheck(f, s)
    \/ SubmitCheck(f, s) \/ UpdateCheck(f, s) \/ PollFeedback(f, s)

Create ==
  \/ CreateSnapshot \/ CreateAdmit \/ CreateOpen \/ CreateChild \/ CreateStart
  \/ CreateAdopt \/ CreateUndoBegin \/ CreateUndoEnd

Destroy(t) ==
  DestroyNothing(t) \/ DestroyChildless(t) \/ DestroyRetire(t) \/ DestroyWait(t) \/ DestroyEnd(t)

Submit == SubmitPump \/ SubmitEnd

Callback(call) == WritePublish(call) \/ CallbackPump(call) \/ CallbackEnd(call)

Keepalive ==
  \/ \E S \in SUBSET Slots : KeepaliveTick(S)
  \/ \E x \in submits : KeepaliveSubmitted(x)
  \/ KeepaliveExit

PowerUp == PrepareHardware \/ D0Entry

PowerDown ==
  \/ PowerDownMark \/ PowerDownNull \/ PowerDownJoin
  \/ PowerDownDelete \/ PowerDownDeleted \/ PowerDownLost

Stop == StopMark \/ StopNull \/ StopDelete \/ StopDeleted \/ StopJoin \/ CloseTarget

(* The device is gone and every client has closed its file.                *)
Terminated ==
  /\ pc["pnp"] = "removed" /\ \A f \in Files : pc[f] = "closed"
  /\ UNCHANGED vars

Next ==
  \/ Request \/ Create \/ Submit
  \/ \E f \in Files : FileClose(f)
  \/ \E t \in Destroyers : Destroy(t)
  \/ \E c \in started, kind \in {"ready", "write"} : CallbackEnter(c, kind)
  \/ \E call \in calls : Callback(call)
  \/ Keepalive
  \/ \E s \in Slots : ChildRemoved(s)
  \/ PowerUp \/ D0Exit \/ PowerDown
  \/ ReleaseHardware \/ TargetCleanup \/ Stop
  \/ Terminated

(* A handler that has begun goes on; a lock that is free again and again   *)
(* is obtained.  Clients, hosts and PnP need never start anything.         *)
Fairness ==
  /\ SF_vars(Create \/ Submit)
  /\ \A t \in Destroyers : SF_vars(Destroy(t))
  /\ SF_vars(PowerDown \/ Stop)
  /\ \A s \in Slots :
       /\ \A kind \in {"ready", "write"} :
            WF_vars(\E call \in calls : call.child.slot = s /\ call.kind = kind /\ Callback(call))
       /\ WF_vars(\E x \in submits : x.child.slot = s /\ KeepaliveSubmitted(x))

SafetySpec == Init /\ [][Next]_vars

Spec == SafetySpec /\ Fairness

-----------------------------------------------------------------------------
(* Nobody is inside VhfReadReportSubmit with a handle that has been        *)
(* deleted, and VhfDelete is not entered while someone VHF does not wait   *)
(* for (an IOCTL, the keep-alive worker) still has the handle              *)
(* (wait_for_submits before every VhfDelete).                              *)
NoUseAfterDelete ==
  \A x \in submits :
    /\ x.child \in children
    /\ x.by \in {"ioctl", "worker"} => x.child \notin deleting

(* reset_slot never runs under a live child: VHF still points into the     *)
(* slot's report buffers, and a late callback would find another           *)
(* controller's state there.  So a live child is always of its slot's      *)
(* current generation, and there is at most one per slot; and VHF is never *)
(* asked for a child whose instance ID PnP still lists (the snapshot taken *)
(* by previous_child_present, revalidated by the slot's generation).  So   *)
(* what one client's game rumbled never reaches the next owner of a slot.  *)
SlotOutlivesChild ==
  /\ \A c \in children : slot[c.slot].generation = c.gen
  /\ \A s \in DOMAIN slot : slot[s].feedback # NoChild => slot[s].feedback = ChildOf(s)
  /\ pc["ioctl"] \in {"open", "create", "start"} => req.slot \notin present

(* submits_in_flight counts exactly the submissions under way: reset_slot  *)
(* zeroes it, so a submission outliving a reset would wrap it around and   *)
(* wait_for_submits would never return.                                    *)
SubmitsExact ==
  \A s \in DOMAIN slot : slot[s].in_flight = Cardinality({x \in submits : x.child.slot = s})

(* Between two holders of the gate nothing is half done: a slot is empty   *)
(* or lost with no child, or active with a live one; no child is left that *)
(* no slot knows of; none is alive outside D0; and a file whose            *)
(* evt_file_close has returned owns nothing.                               *)
SettledWhenFree ==
  gate = Free =>
    /\ \A s \in DOMAIN slot :
         \/ slot[s].state \in {"empty", "lost"} /\ slot[s].vhf = NoChild
         \/ slot[s].state = "active" /\ slot[s].vhf # NoChild
    /\ children = {slot[s].vhf : s \in DOMAIN slot} \ {NoChild}
    /\ pc["pnp"] \in {"stopped", "started", "removed"} => children = {}
    /\ \A s \in DOMAIN slot : slot[s].owner # NoFile => pc[slot[s].owner] # "closed"

(* Closing a file ends, and so does every way out of D0: again and again   *)
(* nobody is in the middle of one, so nobody waits for a callback that     *)
(* waits for the gate, or for a count that never falls.                    *)
TeardownEnds ==
  []<>(/\ \A f \in Files : pc[f] \in {"idle", "closed"}
       /\ pc["pnp"] \in {"stopped", "started", "working", "removed"})

(* Only its owner takes a lost controller away from itself, by destroying  *)
(* it, re-creating it or closing its file, or else the device is stopped:  *)
(* no other client gets the slot meanwhile.                                *)
LostStaysWithOwner ==
  [][\A s \in DOMAIN slot :
       slot[s].state = "lost" /\ slot'[s].owner # slot[s].owner =>
         \/ pc["pnp"] = "stop"
         \/ pc["ioctl"] \in {"admit", "destroy"} /\ req.file = slot[s].owner
         \/ pc[slot[s].owner] = "destroy"]_slot

(* The error contract of include/libvirtualgamepad/client.h for a submit:  *)
(* "ERROR_NOT_FOUND  the slot has no controller (destroy, submit,          *)
(* poll_feedback)", "ERROR_ACCESS_DENIED  the slot belongs to another      *)
(* handle"; the device is working, so NOT_READY does not apply.            *)
SubmitErrorContract ==
  [][\A f \in Files, s \in Slots :
       SubmitCheck(f, s) /\ pc["pnp"] = "working" =>
         /\ slot[s].state = "empty" => status' = "NOT_FOUND"
         /\ slot[s].state # "empty" /\ slot[s].owner # f => status' = "ACCESS_DENIED"]_vars
=============================================================================
