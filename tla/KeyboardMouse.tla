---------------------------- MODULE KeyboardMouse ----------------------------
(***************************************************************************)
(* The keyboard and mouse endpoint: its report queue (keyboard_mouse.cpp)  *)
(* and the transport that owns its HID child (keyboard_mouse_native.inc),  *)
(* run by four kinds of threads: the sequential queue of ioctls, VHF's     *)
(* readiness callbacks, file cleanup, and PnP and power.  The locks        *)
(* rundown_lock and state_lock are never held over a call out, so what     *)
(* they protect is one action; lifetime_gate is, and is a variable.        *)
(***************************************************************************)
EXTENDS Naturals, Sequences, FiniteSets

CONSTANTS Owners,      \* file objects
          Callbacks,   \* VHF threads that may call back
          Kinds,       \* of what is held: keys, buttons, consumer keys
          Capacity,    \* queue_capacity
          MaxOpens, MaxPowerDowns   \* bounds on activations and power transitions

ASSUME KmAssumption ==
  /\ Kinds \subseteq {"keyboard", "mouse", "consumer", "pointer"}
  /\ Cardinality(Kinds) <= Capacity /\ Capacity \in Nat
  /\ Owners \cap {"none", "ioctl", "pnp"} = {}
  /\ "ioctl" \notin Callbacks /\ IsFiniteSet(Callbacks)
  /\ MaxOpens \in Nat /\ MaxPowerDowns \in Nat

None == "none"
NoReport == [kind |-> None, down |-> FALSE, owner |-> None]
Activations == 1 .. MaxOpens
Pumpers == {"ioctl"} \cup Callbacks

VARIABLES
  powered, stopping,   \* of the device
  cleanup,             \* per file: no, started (cleanup_started), done
  lifetime,            \* who holds lifetime_gate
  slot,                \* state, owner, gen, rundown (rundown_stopping), at (the activation that
                       \* vhf and callback_context are of, 0 for none), submits, pumping
  core,                \* state, owner, held, queue, credit, retained
  ctx,                 \* per activation, its callback context: retired, entries, freed
  child,               \* per activation, what VHF has: none, created, started, deleting, deleted
  told,                \* VHF called back and got no report since
  vhf_report,          \* the report VHF has from us and the host did not read
  host,                \* kinds that the host sees as down
  ioctl,               \* pc, file, gen (as read by open), ok (VhfStart's status)
  pump,                \* per thread in pump_keyboard_mouse: pc, ctx, at
  cb,                  \* per callback thread: pc, at
  del,                 \* delete_stopped_keyboard_mouse: pc, retain, at, lost
  pnp,                 \* what PnP is at
  opens, downs

vars == <<powered, stopping, cleanup, lifetime, slot, core, ctx, child, told, vhf_report, host, ioctl,
          pump, cb, del, pnp, opens, downs>>

Device == <<powered, stopping, pnp, downs>>
Vhf == <<child, told, vhf_report, host>>
Threads == <<ioctl, pump, cb>>

EmptySlot == [state |-> "empty", owner |-> None, gen |-> 0, rundown |-> FALSE, at |-> 0, submits |-> 0,
              pumping |-> FALSE]
ClosedCore == [state |-> "closed", owner |-> None, held |-> {}, queue |-> <<>>, credit |-> FALSE,
               retained |-> NoReport]
NoDelete == [pc |-> "no", retain |-> FALSE, at |-> 0, lost |-> None]
IdleIoctl == [pc |-> "idle", file |-> None, gen |-> 0, ok |-> FALSE]
NoPump == [pc |-> "no", ctx |-> 0, at |-> 0]

(* A report, of which only the one about the pointer tells of no button.   *)
Reports == {r \in [kind : Kinds, down : BOOLEAN, owner : Owners] : r.kind = "pointer" => ~r.down}

Holders == Owners \cup {None}
Places == {0} \cup Activations
SlotRecord ==
  [state : {"empty", "starting", "active", "stopping", "lost"}, owner : Holders, gen : Nat,
   rundown : BOOLEAN, at : Places, submits : 0 .. 1, pumping : BOOLEAN]
CoreRecord ==
  [state : {"closed", "active", "closing", "drained", "faulted"}, owner : Holders,
   held : SUBSET (Kinds \ {"pointer"}), queue : Seq(Reports), credit : BOOLEAN,
   retained : Reports \cup {NoReport}]
CtxRecord == [retired : BOOLEAN, entries : 0 .. Cardinality(Callbacks), freed : BOOLEAN]
IoctlRecord ==
  [pc : {"idle", "claim", "create", "publish", "start", "adopt", "delete", "pump"}, file : Holders,
   gen : Nat, ok : BOOLEAN]
PumpRecord ==
  [pc : {"no", "begin", "loop", "submit", "taken", "failed"}, ctx : Places, at : Places]
CbRecord == [pc : {"idle", "entered", "pump", "leave"}, at : Places]
DelRecord ==
  [pc : {"no", "wait", "take", "vhf", "deleting", "drain", "reset"}, retain : BOOLEAN, at : Places,
   lost : Holders]

TypeOK ==
  /\ powered \in BOOLEAN /\ stopping \in BOOLEAN
  /\ cleanup \in [Owners -> {"no", "started", "done"}]
  /\ lifetime \in Holders \cup {"ioctl", "pnp"}
  /\ slot \in SlotRecord
  /\ core \in CoreRecord /\ Len(core.queue) <= Capacity
  /\ ctx \in [Activations -> CtxRecord]
  /\ child \in [Activations -> {"none", "created", "started", "deleting", "deleted"}]
  /\ told \in BOOLEAN /\ vhf_report \in Reports \cup {NoReport}
  /\ host \subseteq Kinds \ {"pointer"}
  /\ ioctl \in IoctlRecord
  /\ pump \in [Pumpers -> PumpRecord] /\ cb \in [Callbacks -> CbRecord]
  /\ del \in DelRecord
  /\ pnp \in {"on", "leaving", "off", "releasing", "released"}
  /\ opens \in 0 .. MaxOpens /\ downs \in 0 .. MaxPowerDowns

Init ==
  /\ powered = TRUE /\ stopping = FALSE /\ cleanup = [o \in Owners |-> "no"] /\ lifetime = None
  /\ slot = EmptySlot /\ core = ClosedCore
  /\ ctx = [k \in Activations |-> [retired |-> FALSE, entries |-> 0, freed |-> FALSE]]
  /\ child = [k \in Activations |-> "none"] /\ told = FALSE /\ vhf_report = NoReport /\ host = {}
  /\ ioctl = IdleIoctl /\ pump = [t \in Pumpers |-> NoPump]
  /\ cb = [c \in Callbacks |-> [pc |-> "idle", at |-> 0]]
  /\ del = NoDelete /\ pnp = "on" /\ opens = 0 /\ downs = 0

-----------------------------------------------------------------------------
(* The endpoint (keyboard_mouse_endpoint).  A report tells whether what it *)
(* is about is down; a relative motion carries the buttons as they are,    *)
(* and an absolute one ("pointer") none.                                   *)
Report(c, kind) == [kind |-> kind, down |-> kind \in c.held, owner |-> c.owner]
Enqueue(c, kind) == [c EXCEPT !.queue = Append(@, Report(c, kind))]

(* Mutant: a full queue makes room by dropping its oldest report.          *)
Submitted_Drops(c, kind, held) ==
  Enqueue([c EXCEPT !.held = held, !.queue = IF Len(@) = Capacity THEN Tail(@) ELSE @], kind)

(* submit, once admitted: busy when the queue is full, and nothing changed.*)
Submitted(c, kind, held) ==
  IF Len(c.queue) = Capacity THEN c ELSE Enqueue([c EXCEPT !.held = held], kind)

(* close: what is queued is discarded and everything released.             *)
NeutralKinds ==
  LET Of(kind) == IF kind \in Kinds THEN <<kind>> ELSE <<>>
  IN  Of("keyboard") \o Of("mouse") \o Of("consumer")
Closing(c) ==
  LET d == [c EXCEPT !.state = "closing", !.held = {}]
  IN  [d EXCEPT !.queue = [i \in 1 .. Len(NeutralKinds) |-> Report(d, NeutralKinds[i])]]

(* ready_for_report: the report before was read, and one more may go.      *)
Ready(c) ==
  IF c.state \notin {"active", "closing"} THEN c
  ELSE IF c.state = "closing" /\ c.queue = <<>>
  THEN [c EXCEPT !.state = "drained", !.credit = FALSE] ELSE [c EXCEPT !.credit = TRUE]

(* take_report.                                                            *)
CanTake(c) == c.credit /\ c.queue # <<>> /\ c.state \in {"active", "closing"}
Taken(c) == [c EXCEPT !.retained = Head(c.queue), !.queue = Tail(@), !.credit = FALSE]

(* submission_failed: retained stays until the child is deleted.           *)
Faulted(c) ==
  IF c.state = "closed" THEN c ELSE [c EXCEPT !.state = "faulted", !.credit = FALSE, !.queue = <<>>]

-----------------------------------------------------------------------------
(* The transport.                                                          *)
CleanupStarted(o) == cleanup[o] # "no"
Live(o) == ~stopping /\ powered /\ ~CleanupStarted(o)

(* stop_keyboard_mouse_admission_locked, with the new state of the context.*)
Stopped(s) == IF s.state = "empty" THEN [s EXCEPT !.gen = @ + 1]
              ELSE [s EXCEPT !.gen = @ + 1, !.rundown = TRUE, !.state = "stopping"]
Retired(s) == IF s.state # "empty" /\ s.at # 0 THEN [ctx EXCEPT ![s.at].retired = TRUE] ELSE ctx

(* reset_keyboard_mouse_locked.                                            *)
ResetSlot(s) == [EmptySlot EXCEPT !.gen = s.gen]

(* Who may pump: can_pump and still_current of pump_keyboard_mouse, for a  *)
(* caller with the callback context of activation k, or none (0).          *)
MayPump(k) ==
  /\ ~slot.rundown /\ ~stopping /\ powered /\ slot.at # 0
  /\ k # 0 => slot.at = k /\ ~ctx[k].retired
  /\ slot.state \in {"starting", "active"}
  /\ slot.owner # None => ~CleanupStarted(slot.owner)

-----------------------------------------------------------------------------
(* pump_keyboard_mouse.                                                    *)
CallPump(t, k) == pump' = [pump EXCEPT ![t] = [pc |-> "begin", ctx |-> k, at |-> 0]]
PumpReturns(t) ==
  /\ pump' = [pump EXCEPT ![t] = NoPump]
  /\ ioctl' = IF t = "ioctl" THEN IdleIoctl ELSE ioctl
  /\ cb' = IF t = "ioctl" THEN cb ELSE [cb EXCEPT ![t].pc = "leave"]

PumpBegin(t) ==
  /\ pump[t].pc = "begin"
  /\ IF MayPump(pump[t].ctx) /\ ~slot.pumping
     THEN /\ slot' = [slot EXCEPT !.pumping = TRUE]
          /\ pump' = [pump EXCEPT ![t].pc = "loop"] /\ UNCHANGED <<ioctl, cb>>
     ELSE PumpReturns(t) /\ UNCHANGED slot
  /\ UNCHANGED <<Device, cleanup, lifetime, core, ctx, Vhf, del, opens>>

(* Mutant: the pump finds no report, and disarms in a second step.         *)
PumpTake_LateDisarm(t) ==
  /\ pump[t].pc \in {"loop", "disarm"}
  /\ \/ /\ pump[t].pc = "loop" /\ MayPump(pump[t].ctx) /\ CanTake(core)
        /\ core' = Taken(core) /\ slot' = [slot EXCEPT !.submits = @ + 1]
        /\ pump' = [pump EXCEPT ![t].pc = "submit", ![t].at = slot.at] /\ UNCHANGED <<ioctl, cb>>
     \/ /\ pump[t].pc = "loop" /\ ~(MayPump(pump[t].ctx) /\ CanTake(core))
        /\ pump' = [pump EXCEPT ![t].pc = "disarm"] /\ UNCHANGED <<ioctl, cb, core, slot>>
     \/ /\ pump[t].pc = "disarm"
        /\ slot' = [slot EXCEPT !.pumping = FALSE] /\ PumpReturns(t) /\ UNCHANGED core
  /\ UNCHANGED <<Device, cleanup, lifetime, ctx, Vhf, del, opens>>

(* A report and a reservation are taken, or the pump disarms.              *)
PumpTake(t) ==
  /\ pump[t].pc = "loop"
  /\ \/ /\ MayPump(pump[t].ctx) /\ CanTake(core)
        /\ core' = Taken(core) /\ slot' = [slot EXCEPT !.submits = @ + 1]
        /\ pump' = [pump EXCEPT ![t].pc = "submit", ![t].at = slot.at] /\ UNCHANGED <<ioctl, cb>>
     \/ /\ ~(MayPump(pump[t].ctx) /\ CanTake(core))
        /\ slot' = [slot EXCEPT !.pumping = FALSE] /\ PumpReturns(t) /\ UNCHANGED core
  /\ UNCHANGED <<Device, cleanup, lifetime, ctx, Vhf, del, opens>>

(* VhfReadReportSubmit: VHF takes the report, or fails.                    *)
NativeSubmit(t) ==
  /\ pump[t].pc = "submit"
  /\ \/ /\ pump' = [pump EXCEPT ![t].pc = "taken"]
        /\ vhf_report' = core.retained /\ told' = FALSE
     \/ pump' = [pump EXCEPT ![t].pc = "failed"] /\ UNCHANGED <<vhf_report, told>>
  /\ UNCHANGED <<Device, cleanup, lifetime, slot, core, ctx, child, host, ioctl, cb, del, opens>>

(* Mutant: a submission that finds itself retired leaves the pump armed.   *)
PumpReleases_KeepsPump(t) ==
  /\ pump[t].pc \in {"taken", "failed"}
  /\ LET retired == pump[t].ctx # 0 /\ ctx[pump[t].ctx].retired
         failed == pump[t].pc = "failed"
     IN  /\ core' = IF failed /\ ~retired THEN Faulted(core) ELSE core
         /\ slot' = [slot EXCEPT !.submits = IF @ > 0 THEN @ - 1 ELSE @, !.pumping = @ /\ (retired \/ ~failed)]
         /\ IF retired \/ failed THEN PumpReturns(t)
            ELSE pump' = [pump EXCEPT ![t].pc = "loop"] /\ UNCHANGED <<ioctl, cb>>
  /\ UNCHANGED <<Device, cleanup, lifetime, ctx, Vhf, del, opens>>

(* VhfReadReportSubmit returns.                                            *)
PumpReleases(t) ==
  /\ pump[t].pc \in {"taken", "failed"}
  /\ LET retired == pump[t].ctx # 0 /\ ctx[pump[t].ctx].retired
         failed == pump[t].pc = "failed"
     IN  /\ core' = IF failed /\ ~retired THEN Faulted(core) ELSE core
         /\ slot' = [slot EXCEPT !.submits = IF @ > 0 THEN @ - 1 ELSE @,
                                 !.pumping = @ /\ ~retired /\ ~failed]
         /\ IF retired \/ failed THEN PumpReturns(t)
            ELSE pump' = [pump EXCEPT ![t].pc = "loop"] /\ UNCHANGED <<ioctl, cb>>
  /\ UNCHANGED <<Device, cleanup, lifetime, ctx, Vhf, del, opens>>

-----------------------------------------------------------------------------
(* evt_keyboard_mouse_ready: VHF calls back when it wants a report.  It    *)
(* starts no call once VhfDelete returned (an assumption the code states). *)
ReadyBegins(c, k) ==
  /\ cb[c].pc = "idle" /\ child[k] \in {"started", "deleting"} /\ ~told /\ vhf_report = NoReport
  /\ told' = TRUE
  /\ cb' = [cb EXCEPT ![c] = [pc |-> "entered", at |-> k]]
  /\ ctx' = [ctx EXCEPT ![k].entries = @ + 1]
  /\ UNCHANGED <<Device, cleanup, lifetime, slot, core, child, vhf_report, host, ioctl, pump, del, opens>>

ReadyAdmits(c) ==
  /\ cb[c].pc = "entered"
  /\ IF MayPump(cb[c].at) /\ slot.owner # None
     THEN /\ core' = Ready(core) /\ CallPump(c, cb[c].at)
          /\ cb' = [cb EXCEPT ![c].pc = "pump"]
     ELSE cb' = [cb EXCEPT ![c].pc = "leave"] /\ UNCHANGED <<core, pump>>
  /\ UNCHANGED <<Device, cleanup, lifetime, slot, ctx, Vhf, ioctl, del, opens>>

ReadyLeaves(c) ==
  /\ cb[c].pc = "leave"
  /\ ctx' = [ctx EXCEPT ![cb[c].at].entries = @ - 1]
  /\ cb' = [cb EXCEPT ![c] = [pc |-> "idle", at |-> 0]]
  /\ UNCHANGED <<Device, cleanup, lifetime, slot, core, Vhf, ioctl, pump, del, opens>>

(* The host reads the report.                                              *)
HostReads ==
  /\ vhf_report # NoReport
  /\ host' = IF vhf_report.down THEN host \cup {vhf_report.kind} ELSE host \ {vhf_report.kind}
  /\ vhf_report' = NoReport
  /\ UNCHANGED <<Device, cleanup, lifetime, slot, core, ctx, child, told, Threads, del, opens>>

-----------------------------------------------------------------------------
(* delete_stopped_keyboard_mouse, by the holder of lifetime_gate.          *)
StartDelete(s, retain) ==
  /\ slot' = Stopped(s) /\ ctx' = Retired(s)
  /\ del' = [NoDelete EXCEPT !.pc = "wait", !.retain = retain]

(* Mutant: the child is deleted under a submission.                        *)
DeleteWaits_Not ==
  /\ del.pc = "wait"
  /\ del' = [del EXCEPT !.pc = "take"]
  /\ UNCHANGED <<Device, cleanup, lifetime, slot, core, ctx, Vhf, Threads, opens>>

DeleteWaits ==
  /\ del.pc = "wait" /\ ~slot.pumping /\ slot.submits = 0
  /\ del' = [del EXCEPT !.pc = "take"]
  /\ UNCHANGED <<Device, cleanup, lifetime, slot, core, ctx, Vhf, Threads, opens>>

DeleteTakes ==
  /\ del.pc = "take"
  /\ IF slot.state = "stopping"
     THEN /\ del' = [del EXCEPT !.pc = "vhf", !.at = slot.at, !.lost = IF del.retain THEN slot.owner ELSE None]
          /\ core' = Faulted(core)
     ELSE del' = [del EXCEPT !.pc = "reset"] /\ UNCHANGED core
  /\ UNCHANGED <<Device, cleanup, lifetime, slot, ctx, Vhf, Threads, opens>>

(* VhfDelete(TRUE), entered and left.                                      *)
NativeDelete ==
  /\ \/ /\ del.pc = "vhf" /\ del.at = 0
        /\ del' = [del EXCEPT !.pc = "reset"] /\ UNCHANGED Vhf
     \/ /\ del.pc = "vhf" /\ del.at # 0
        /\ del' = [del EXCEPT !.pc = "deleting"]
        /\ child' = [child EXCEPT ![del.at] = "deleting"] /\ UNCHANGED <<told, vhf_report, host>>
     \/ /\ del.pc = "deleting"
        /\ del' = [del EXCEPT !.pc = "drain"]
        /\ child' = [child EXCEPT ![del.at] = "deleted"]
        /\ told' = FALSE /\ vhf_report' = NoReport /\ host' = {}
  /\ UNCHANGED <<Device, cleanup, lifetime, slot, core, ctx, Threads, opens>>

DeleteDrains ==
  /\ del.pc = "drain" /\ ctx[del.at].entries = 0
  /\ del' = [del EXCEPT !.pc = "reset"]
  /\ UNCHANGED <<Device, cleanup, lifetime, slot, core, ctx, Vhf, Threads, opens>>

(* The slot is reset, or kept for its owner; lifetime_gate is released and *)
(* its holder goes on.                                                     *)
DeleteResets ==
  /\ del.pc = "reset" /\ del' = NoDelete /\ lifetime' = None
  /\ IF slot.state = "stopping"
     THEN /\ core' = ClosedCore
          /\ slot' = IF del.lost # None /\ ~CleanupStarted(del.lost)
                     THEN [ResetSlot(slot) EXCEPT !.owner = del.lost, !.state = "lost"] ELSE ResetSlot(slot)
     ELSE UNCHANGED <<core, slot>>
  /\ ctx' = IF del.at # 0 THEN [ctx EXCEPT ![del.at].freed = TRUE] ELSE ctx
  /\ ioctl' = IF lifetime = "ioctl" THEN IdleIoctl ELSE ioctl
  /\ cleanup' = IF lifetime \in Owners THEN [cleanup EXCEPT ![lifetime] = "done"] ELSE cleanup
  /\ pnp' = IF lifetime = "pnp" THEN (IF stopping THEN "released" ELSE "off") ELSE pnp
  /\ UNCHANGED <<powered, stopping, downs, Vhf, pump, cb, opens>>

-----------------------------------------------------------------------------
(* open_keyboard_mouse.  A first look, after which the old child's         *)
(* instance is looked for without a lock.                                  *)
Available(o) == slot.state = "empty" \/ (slot.state = "lost" /\ slot.owner = o)

OpenLooks(o) ==
  /\ ioctl.pc = "idle" /\ ~CleanupStarted(o) /\ Live(o) /\ Available(o) /\ opens < MaxOpens
  /\ ioctl' = [IdleIoctl EXCEPT !.pc = "claim", !.file = o, !.gen = slot.gen]
  /\ UNCHANGED <<Device, cleanup, lifetime, slot, core, ctx, Vhf, pump, cb, del, opens>>

Claimed(o) == [slot EXCEPT !.rundown = FALSE, !.submits = 0, !.pumping = FALSE, !.gen = @ + 1, !.at = 0,
                           !.owner = o, !.state = "starting"]

OpenClaims ==
  /\ ioctl.pc = "claim" /\ lifetime = None
  /\ \/ /\ Live(ioctl.file) /\ slot.gen = ioctl.gen /\ Available(ioctl.file) /\ core.state = "closed"
        /\ slot' = Claimed(ioctl.file)
        /\ core' = [ClosedCore EXCEPT !.state = "active", !.owner = ioctl.file]
        /\ lifetime' = "ioctl" /\ ioctl' = [ioctl EXCEPT !.pc = "create"] /\ opens' = opens + 1
     \/ ioctl' = IdleIoctl /\ UNCHANGED <<slot, core, lifetime, opens>>   \* too late, or child_present
  /\ UNCHANGED <<Device, cleanup, ctx, Vhf, pump, cb, del>>

(* The target, the callback context and VhfCreate; any of them may fail.   *)
OpenCreates ==
  /\ ioctl.pc = "create"
  /\ \/ /\ slot' = ResetSlot(slot) /\ core' = ClosedCore /\ lifetime' = None /\ ioctl' = IdleIoctl
        /\ UNCHANGED child
     \/ /\ child' = [child EXCEPT ![opens] = "created"]
        /\ ioctl' = [ioctl EXCEPT !.pc = "publish"] /\ UNCHANGED <<slot, core, lifetime>>
  /\ UNCHANGED <<Device, cleanup, ctx, told, vhf_report, host, pump, cb, del, opens>>

OpenPublishes ==
  /\ ioctl.pc = "publish"
  /\ LET s == [slot EXCEPT !.at = opens]
     IN  IF Live(ioctl.file)
         THEN slot' = s /\ ioctl' = [ioctl EXCEPT !.pc = "start"] /\ UNCHANGED <<ctx, del>>
         ELSE StartDelete(s, FALSE) /\ ioctl' = [ioctl EXCEPT !.pc = "delete"]
  /\ UNCHANGED <<Device, cleanup, lifetime, core, Vhf, pump, cb, opens>>

(* VhfStart: callbacks may come before it returns.                         *)
OpenStarts ==
  /\ ioctl.pc = "start"
  /\ \E ok \in BOOLEAN :
       /\ ioctl' = [ioctl EXCEPT !.pc = "adopt", !.ok = ok]
       /\ child' = IF ok THEN [child EXCEPT ![opens] = "started"] ELSE child
  /\ UNCHANGED <<Device, cleanup, lifetime, slot, core, ctx, told, vhf_report, host, pump, cb, del, opens>>

OpenAdopts ==
  /\ ioctl.pc = "adopt"
  /\ IF ioctl.ok /\ Live(ioctl.file) /\ slot.state = "starting" /\ core.state = "active"
     THEN /\ slot' = [slot EXCEPT !.state = "active"] /\ ioctl' = IdleIoctl /\ lifetime' = None
          /\ UNCHANGED <<ctx, del>>
     ELSE /\ StartDelete(slot, FALSE) /\ ioctl' = [ioctl EXCEPT !.pc = "delete"]
          /\ UNCHANGED lifetime
  /\ UNCHANGED <<Device, cleanup, core, Vhf, pump, cb, opens>>

-----------------------------------------------------------------------------
(* submit_keyboard_mouse: a press or release that changes what is held, a  *)
(* motion (held as it is), or a press or motion that changes nothing.  An  *)
(* event that does not fit is answered busy, and nothing is pumped.        *)
Serves(o) == ioctl.pc = "idle" /\ lifetime = None /\ slot.owner = o /\ Live(o) /\ slot.state = "active"

CallsPump(o) == CallPump("ioctl", 0) /\ ioctl' = [IdleIoctl EXCEPT !.pc = "pump", !.file = o]

Submit(o, kind, held) ==
  /\ Serves(o) /\ core.state = "active"
  /\ core' = Submitted(core, kind, held) /\ core' # core
  /\ CallsPump(o)
  /\ UNCHANGED <<Device, cleanup, lifetime, slot, ctx, Vhf, cb, del, opens>>

SubmitUnchanged(o) ==
  /\ Serves(o) /\ core.state = "active"
  /\ CallsPump(o)
  /\ UNCHANGED <<Device, cleanup, lifetime, slot, core, ctx, Vhf, cb, del, opens>>

(* close_keyboard_mouse: drains first; the child goes when the client asks *)
(* again and everything was read, or a submission failed.                  *)
Close(o) ==
  /\ Serves(o)
  /\ IF core.state \in {"faulted", "drained"}
     THEN /\ StartDelete(slot, FALSE) /\ lifetime' = "ioctl"
          /\ ioctl' = [IdleIoctl EXCEPT !.pc = "delete", !.file = o] /\ UNCHANGED <<core, pump>>
     ELSE /\ core' = IF core.state = "active" THEN Closing(core) ELSE core
          /\ CallsPump(o) /\ UNCHANGED <<lifetime, slot, ctx, del>>
  /\ UNCHANGED <<Device, cleanup, Vhf, cb, opens>>

(* abort_keyboard_mouse, of a slot that is not empty.                      *)
Abort(o) ==
  /\ ioctl.pc = "idle" /\ lifetime = None /\ slot.state # "empty" /\ slot.owner = o
  /\ StartDelete(slot, FALSE) /\ lifetime' = "ioctl"
  /\ ioctl' = [IdleIoctl EXCEPT !.pc = "delete", !.file = o]
  /\ UNCHANGED <<Device, cleanup, core, Vhf, pump, cb, opens>>

-----------------------------------------------------------------------------
(* evt_keyboard_mouse_file_cleanup: the file's last handle is closed.      *)
CleanupMark(o) ==
  /\ cleanup[o] = "no"
  /\ cleanup' = [cleanup EXCEPT ![o] = "started"]
  /\ UNCHANGED <<Device, lifetime, slot, core, ctx, Vhf, Threads, del, opens>>

CleanupStop(o) ==
  /\ cleanup[o] = "started" /\ lifetime = None
  /\ IF slot.owner = o
     THEN StartDelete(slot, FALSE) /\ lifetime' = o /\ UNCHANGED cleanup
     ELSE cleanup' = [cleanup EXCEPT ![o] = "done"] /\ UNCHANGED <<slot, ctx, del, lifetime>>
  /\ UNCHANGED <<Device, core, Vhf, Threads, opens>>

(* power_down_controllers; evt_release_hardware's stop_owned_controllers;  *)
(* evt_prepare_hardware and evt_d0_entry.                                  *)
PowerOff ==
  /\ pnp = "on" /\ downs < MaxPowerDowns
  /\ powered' = FALSE /\ pnp' = "leaving" /\ downs' = downs + 1
  /\ UNCHANGED <<stopping, cleanup, lifetime, slot, core, ctx, Vhf, Threads, del, opens>>

Release ==
  /\ pnp = "off" /\ downs < MaxPowerDowns
  /\ stopping' = TRUE /\ powered' = FALSE /\ pnp' = "releasing" /\ downs' = downs + 1
  /\ UNCHANGED <<cleanup, lifetime, slot, core, ctx, Vhf, Threads, del, opens>>

PnpStop ==
  /\ pnp \in {"leaving", "releasing"} /\ lifetime = None
  /\ lifetime' = "pnp" /\ StartDelete(slot, pnp = "leaving")
  /\ UNCHANGED <<Device, cleanup, core, Vhf, Threads, opens>>

Prepare ==
  /\ pnp = "released" /\ lifetime = None
  /\ stopping' = FALSE /\ pnp' = "off"
  /\ UNCHANGED <<powered, downs, cleanup, lifetime, slot, core, ctx, Vhf, Threads, del, opens>>

PowerOn ==
  /\ pnp = "off" /\ lifetime = None
  /\ powered' = TRUE /\ pnp' = "on"
  /\ UNCHANGED <<stopping, downs, cleanup, lifetime, slot, core, ctx, Vhf, Threads, del, opens>>

-----------------------------------------------------------------------------
Pump(t) == PumpBegin(t) \/ PumpTake(t) \/ NativeSubmit(t) \/ PumpReleases(t)
Ready1(c) == ReadyAdmits(c) \/ ReadyLeaves(c)
Delete == DeleteWaits \/ DeleteTakes \/ NativeDelete \/ DeleteDrains \/ DeleteResets
Open == OpenClaims \/ OpenCreates \/ OpenPublishes \/ OpenStarts \/ OpenAdopts

Next ==
  \/ \E o \in Owners :
       \/ OpenLooks(o) \/ Close(o) \/ Abort(o) \/ CleanupMark(o) \/ CleanupStop(o) \/ SubmitUnchanged(o)
       \/ \E k \in Kinds \ {"pointer"} :
            Submit(o, k, IF k \in core.held THEN core.held \ {k} ELSE core.held \cup {k})
       \/ \E k \in Kinds \cap {"mouse", "pointer"} : Submit(o, k, core.held)
  \/ Open \/ Delete
  \/ \E t \in Pumpers : Pump(t)
  \/ \E c \in Callbacks : Ready1(c) \/ \E k \in Activations : ReadyBegins(c, k)
  \/ HostReads
  \/ PowerOff \/ Release \/ PnpStop \/ Prepare \/ PowerOn

Spec == Init /\ [][Next]_vars

(* Threads run, calls into VHF return, VHF calls back and the host reads;  *)
(* nobody has to open, submit, close or power anything.                    *)
FairSpec ==
  /\ Spec /\ WF_vars(Open) /\ WF_vars(Delete) /\ WF_vars(HostReads) /\ WF_vars(PnpStop)
  /\ \A t \in Pumpers : WF_vars(Pump(t))
  /\ \A c \in Callbacks : WF_vars(Ready1(c))
  /\ WF_vars(\E c \in Callbacks, k \in Activations : ReadyBegins(c, k))
  /\ \A o \in Owners : WF_vars(CleanupStop(o))

-----------------------------------------------------------------------------
(* Nothing is outlived by what uses it: a child that a submission is       *)
(* inside of is never deleted, whichever of abort, cleanup and power       *)
(* removes it (VhfReadReportSubmit holds no lock); a callback context is   *)
(* freed when no callback is inside any more; after D0 exit or release     *)
(* returned, VHF has no child of ours; and after a file's cleanup returned *)
(* nothing of it is left, nor can an open that began before bring it back. *)
LifetimesNest ==
  /\ \A t \in DOMAIN pump : pump[t].pc \in {"submit", "taken", "failed"} =>
       child[pump[t].at] \in {"created", "started"}
  /\ \A c \in DOMAIN cb : cb[c].pc # "idle" => ~ctx[cb[c].at].freed
  /\ pnp \in {"off", "released"} => \A k \in DOMAIN child : child[k] \in {"none", "deleted"}
  /\ \A o \in DOMAIN cleanup : cleanup[o] = "done" => slot.owner # o /\ core.owner # o

(* One report is out at a time: retained_, to which VHF was given a        *)
(* pointer, is what VHF has as long as VHF has it. With nothing on its way *)
(* the host sees exactly what the client holds down, so the queue's limit  *)
(* leaves no key stuck and none missing (of a press and its release both   *)
(* lost nothing would be left to see); and a client is told that its       *)
(* endpoint was drained (close) only when the host saw all of it released. *)
HostMatches ==
  /\ Cardinality({t \in DOMAIN pump : pump[t].pc \in {"submit", "taken", "failed"}}) <= 1
  /\ vhf_report # NoReport => core.retained = vhf_report /\ vhf_report.owner = slot.owner
  /\ (/\ slot.state = "active" /\ core.state = "active" /\ core.queue = <<>>
      /\ vhf_report = NoReport
      /\ \A t \in DOMAIN pump : pump[t].pc \notin {"submit", "failed"}) => host = core.held
  /\ core.state = "drained" => host = {}

(* A report that may go has a thread that is to send it.                   *)
NoLostWakeup ==
  MayPump(0) /\ CanTake(core) => slot.pumping \/ \E t \in DOMAIN pump : pump[t].pc = "begin"

(* A file's cleanup returns, D0 exit returns, and a close drains: its      *)
(* neutral reports get out with no help of the client.                     *)
CleanupEnds ==
  /\ \A o \in Owners : []<>(o \in DOMAIN cleanup => cleanup[o] # "started")
  /\ []<>(pnp # "leaving")
  /\ []<>(core.state # "closing")
=============================================================================
