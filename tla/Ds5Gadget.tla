------------------------------ MODULE Ds5Gadget ------------------------------
(***************************************************************************)
(* One slot of the Linux DualSense gadget (vibeshine_ds5_gadget.c): the    *)
(* files that create, destroy, write and read it, and its USB functions,   *)
(* which the controller's timer configures and serves while a bus reset or *)
(* a destroy takes them down.  The driver has a mutex for its files and no *)
(* lock for its USB side.                                                  *)
(*                                                                         *)
(* Threads: "timer" makes the setup calls and the completions of what the  *)
(* host reads and writes, "link" the reset callback, each file has one     *)
(* thread for its ioctls and close, and one that writes.  The controller   *)
(* is modelled by what it does for this driver (UdcPort, UdcTransfer).     *)
(***************************************************************************)
EXTENDS Naturals, FiniteSets

CONSTANTS Files,
          Audio,       \* of "iso_out", "iso_in": one request each for its queue
          Inputs,      \* input reports
          EventFifo,   \* DS5_EVENT_FIFO
          MaxCreates, MaxResets   \* bounds on sessions and on bus resets

None == "none"

ASSUME GadgetAssumption ==
  /\ Files \cap {None, "writer"} = {}
  /\ Audio \subseteq {"iso_out", "iso_in"} /\ EventFifo \in Nat \ {0}
  /\ MaxCreates \in Nat /\ MaxResets \in Nat /\ Inputs # {}

Funcs == {"hid"} \cup Audio
Reqs == {"in"} \cup Funcs    \* req_int_in, and what each function queues

VARIABLES
  created, private,   \* slot->created, file->private_data
  mutex,              \* who holds slot->lock
  ctl, wr,            \* what each file's ioctl thread, and its writer, are at
  connected, enabled,    \* usb_gadget_connect; the port is enabled
  config, alt, on,    \* slot->config, alt1 and alt2, hid_enabled and iso_*_enabled
  ep_on,              \* the endpoints of a function are enabled
  place,              \* where a request is: idle, queued, giving
  fifo,               \* the report in the controller's fifo, or None
  int_in_busy, input, buf,   \* slot->input; the report in req_int_in
  host,               \* the last report the host read
  events,
  todo,               \* the step of a disable or an enable a thread is at
  giving,             \* what the timer gives back
  creates, resets

vars == <<created, private, mutex, ctl, wr, connected, enabled, config, alt, on, ep_on, place, fifo,
          int_in_busy, input, buf, host, events, todo, giving, creates, resets>>

FileVars == <<created, private, mutex, ctl, connected>>
UsbVars == <<config, alt, on, ep_on, place, fifo, int_in_busy>>
Doers == {"timer", "link", "core"}

(* A thread in a gadget callback is at step op of enabling or disabling f. *)
(* ds5_disconnect and SET_CONFIGURATION(0) take all functions down in turn *)
(* (all) and then clear the alternate settings (f = "all").                *)
Resting == [f |-> None, op |-> None, all |-> FALSE]
Enabling(f) == [f |-> f, op |-> "enable", all |-> FALSE]
Disabling(f) == [f |-> f, op |-> "begin", all |-> FALSE]
DisableAll ==
  [f |-> IF "iso_out" \in Audio THEN "iso_out" ELSE IF "iso_in" \in Audio THEN "iso_in" ELSE "hid",
   op |-> "begin", all |-> TRUE]

Idle(d) == todo[d].op = None

EnableOps == {"enable", "queue", "on"}
AfterEnable == [enable |-> "queue", queue |-> "on", on |-> None]
AfterHid == [begin |-> "off", off |-> "dequeue_in", dequeue_in |-> "dequeue",
             dequeue |-> "disable", disable |-> "notbusy", notbusy |-> None]
AfterIso == [begin |-> "dequeue", dequeue |-> "disable", disable |-> "off", off |-> None]

(* The thread is done with a function, or with a step of it.               *)
Ended(t) ==
  IF ~t.all \/ t.f = "all" THEN Resting
  ELSE IF t.f = "hid" THEN [t EXCEPT !.f = "all", !.op = "unset"]
  ELSE [t EXCEPT !.f = IF t.f = "iso_out" /\ "iso_in" \in Audio THEN "iso_in" ELSE "hid",
                 !.op = "begin"]

After(t) == IF t.op \in EnableOps THEN AfterEnable ELSE IF t.f = "hid" THEN AfterHid ELSE AfterIso

Advanced(t) ==
  IF t.f = "all" \/ After(t)[t.op] = None THEN Ended(t) ELSE [t EXCEPT !.op = After(t)[t.op]]

TypeOK ==
  /\ created \in BOOLEAN /\ private \in [Files -> BOOLEAN] /\ mutex \in Files \cup {None, "writer"}
  /\ \A f \in Files : /\ ctl[f] \in {"idle", "wait", "destroy", "forget"}
                      /\ wr[f] \in {"idle", "checked", "test", "copy", "queue"}
  /\ connected \in BOOLEAN /\ enabled \in BOOLEAN /\ (enabled => connected)
  /\ config \in BOOLEAN /\ alt \in [Audio -> BOOLEAN]
  /\ on \in [Funcs -> BOOLEAN] /\ ep_on \in [Funcs -> BOOLEAN]
  /\ place \in [Reqs -> {"idle", "queued", "giving"}]
  /\ \A f \in Funcs : place[f] = "queued" => ep_on[f]
  /\ int_in_busy \in BOOLEAN /\ {fifo, input, buf, host} \subseteq Inputs \cup {None}
  /\ events \in 0 .. EventFifo /\ giving \in Reqs \cup {None}
  /\ creates \in 0 .. MaxCreates /\ resets \in 0 .. MaxResets

Init ==
  /\ created = FALSE /\ private = [f \in Files |-> FALSE] /\ mutex = None
  /\ ctl = [f \in Files |-> "idle"] /\ wr = [f \in Files |-> "idle"]
  /\ connected = FALSE /\ enabled = FALSE /\ config = FALSE /\ alt = [f \in Audio |-> FALSE]
  /\ on = [f \in Funcs |-> FALSE] /\ ep_on = [f \in Funcs |-> FALSE]
  /\ place = [r \in Reqs |-> "idle"] /\ fifo = None
  /\ int_in_busy = FALSE /\ input = None /\ buf = None /\ host = None /\ events = 0
  /\ todo = [d \in Doers |-> Resting] /\ giving = None /\ creates = 0 /\ resets = 0

TimerFree == Idle("timer") /\ giving = None

-----------------------------------------------------------------------------
(* The files.  CREATE: the slot is claimed and connected under its lock.   *)
Create(f) ==
  /\ ctl[f] = "idle" /\ ~private[f] /\ mutex = None
  /\ ~created /\ creates < MaxCreates /\ creates' = creates + 1
  /\ created' = TRUE /\ private' = [private EXCEPT ![f] = TRUE]
  /\ events' = 0 /\ connected' = TRUE
  /\ UNCHANGED <<mutex, ctl, wr, enabled, UsbVars, input, buf, host, todo, giving, resets>>

(* DESTROY, or the last close: pulls the device down and waits for the     *)
(* controller's setup and reset callbacks; then usb_gadget_disconnect      *)
(* calls ds5_disconnect.                                                   *)
Destroy(f) ==
  /\ ctl[f] = "idle" /\ private[f] /\ mutex = None
  /\ mutex' = f
  /\ ctl' = [ctl EXCEPT ![f] = "wait"]
  /\ connected' = FALSE /\ enabled' = FALSE
  /\ UNCHANGED <<created, private, wr, UsbVars, input, buf, host, events, todo, giving, creates, resets>>

(* Mutant: does not wait for the callbacks.                                *)
DestroyDisconnect_Unwaited(f) ==
  /\ ctl[f] = "wait"
  /\ ctl' = [ctl EXCEPT ![f] = "destroy"]
  /\ todo' = [todo EXCEPT !["core"] = DisableAll]
  /\ UNCHANGED <<created, private, mutex, wr, connected, enabled, UsbVars, input, buf, host, events,
                 giving, creates, resets>>

DestroyDisconnect(f) ==
  /\ ctl[f] = "wait" /\ Idle("timer") /\ Idle("link")
  /\ ctl' = [ctl EXCEPT ![f] = "destroy"]
  /\ todo' = [todo EXCEPT !["core"] = DisableAll]
  /\ UNCHANGED <<created, private, mutex, wr, connected, enabled, UsbVars, input, buf, host, events,
                 giving, creates, resets>>

DestroyEnds(f) ==
  /\ ctl[f] = "destroy" /\ Idle("core")
  /\ created' = FALSE /\ mutex' = None
  /\ ctl' = [ctl EXCEPT ![f] = "forget"]
  /\ UNCHANGED <<private, wr, connected, enabled, UsbVars, input, buf, host, events, todo, giving,
                 creates, resets>>

Forget(f) ==
  /\ ctl[f] = "forget"
  /\ ctl' = [ctl EXCEPT ![f] = "idle"]
  /\ private' = [private EXCEPT ![f] = FALSE]
  /\ UNCHANGED <<created, mutex, wr, connected, enabled, UsbVars, input, buf, host, events, todo,
                 giving, creates, resets>>

(* ds5_write: the check that the slot is created is made without the lock. *)
WriteCheck(f) ==
  /\ wr[f] = "idle" /\ private[f] /\ created
  /\ wr' = [wr EXCEPT ![f] = "checked"]
  /\ UNCHANGED <<FileVars, enabled, UsbVars, input, buf, host, events, todo, giving, creates, resets>>

WriteStore(f, v) ==
  /\ wr[f] = "checked" /\ mutex = None
  /\ mutex' = "writer" /\ input' = v
  /\ wr' = [wr EXCEPT ![f] = "test"]
  /\ UNCHANGED <<created, private, ctl, connected, enabled, UsbVars, buf, host, events, todo, giving,
                 creates, resets>>

WriteTest(f) ==
  /\ wr[f] = "test"
  /\ IF on["hid"] /\ ~int_in_busy
     THEN wr' = [wr EXCEPT ![f] = "copy"] /\ UNCHANGED mutex
     ELSE wr' = [wr EXCEPT ![f] = "idle"] /\ mutex' = None
  /\ UNCHANGED <<created, private, ctl, connected, enabled, UsbVars, input, buf, host, events, todo,
                 giving, creates, resets>>

WriteCopy(f) ==
  /\ wr[f] = "copy"
  /\ buf' = input /\ int_in_busy' = TRUE
  /\ wr' = [wr EXCEPT ![f] = "queue"]
  /\ UNCHANGED <<FileVars, enabled, config, alt, on, ep_on, place, fifo, input, host, events, todo,
                 giving, creates, resets>>

(* Mutant: busy is set once the request is queued.                         *)
WriteQueue_BusyAfter(f) ==
  /\ wr[f] = "queue" /\ ep_on["hid"] /\ enabled /\ place["in"] = "idle"
  /\ int_in_busy' = TRUE
  /\ IF fifo = None THEN fifo' = buf /\ UNCHANGED place
     ELSE place' = [place EXCEPT !["in"] = "queued"] /\ UNCHANGED fifo
  /\ wr' = [wr EXCEPT ![f] = "idle"] /\ mutex' = None
  /\ UNCHANGED <<created, private, ctl, connected, enabled, config, alt, on, ep_on, input, buf, host,
                 events, todo, giving, creates, resets>>

(* usb_ep_queue: an empty fifo takes the report and completes the request  *)
(* inside the call.                                                        *)
WriteQueue(f) ==
  /\ wr[f] = "queue" /\ ep_on["hid"] /\ enabled /\ place["in"] = "idle"
  /\ IF fifo = None
     THEN fifo' = buf /\ int_in_busy' = FALSE /\ UNCHANGED place
     ELSE place' = [place EXCEPT !["in"] = "queued"] /\ UNCHANGED <<fifo, int_in_busy>>
  /\ wr' = [wr EXCEPT ![f] = "idle"] /\ mutex' = None
  /\ UNCHANGED <<created, private, ctl, connected, enabled, config, alt, on, ep_on, input, buf, host,
                 events, todo, giving, creates, resets>>

WriteFails(f) ==
  /\ wr[f] = "queue" /\ ~(ep_on["hid"] /\ enabled /\ place["in"] = "idle")
  /\ int_in_busy' = FALSE
  /\ wr' = [wr EXCEPT ![f] = "idle"] /\ mutex' = None
  /\ UNCHANGED <<created, private, ctl, connected, enabled, config, alt, on, ep_on, place, fifo, input,
                 buf, host, events, todo, giving, creates, resets>>

(* ds5_read.                                                               *)
Read(f) ==
  /\ private[f] /\ events > 0
  /\ events' = events - 1
  /\ UNCHANGED <<FileVars, wr, enabled, UsbVars, input, buf, host, todo, giving, creates, resets>>

-----------------------------------------------------------------------------
(* The bus.  The hub enables the port of a device that is pulled up.       *)
PortEnabled ==
  /\ connected /\ ~enabled /\ Idle("link")
  /\ enabled' = TRUE
  /\ UNCHANGED <<FileVars, wr, UsbVars, input, buf, host, events, todo, giving, creates, resets>>

(* A bus reset: the port is disabled, every request given back with        *)
(* -ESHUTDOWN, and ds5_disconnect called.  The host makes no setup call    *)
(* until the reset is over.                                                *)
BusReset ==
  /\ enabled /\ Idle("link") /\ Idle("timer")
  /\ resets < MaxResets /\ resets' = resets + 1
  /\ enabled' = FALSE
  /\ place' = [r \in Reqs |-> IF place[r] = "queued" THEN "idle" ELSE place[r]]
  /\ int_in_busy' = (int_in_busy /\ place["in"] # "queued") /\ fifo' = None
  /\ todo' = [todo EXCEPT !["link"] = DisableAll]
  /\ UNCHANGED <<FileVars, wr, config, alt, on, ep_on, input, buf, host, events, giving, creates>>

(* ds5_setup: SET_CONFIGURATION.                                           *)
SetConfiguration(value) ==
  /\ enabled /\ TimerFree /\ Idle("link")
  /\ config' = value
  /\ todo' = [todo EXCEPT !["timer"] = IF value THEN Enabling("hid") ELSE DisableAll]
  /\ UNCHANGED <<FileVars, wr, enabled, alt, on, ep_on, place, fifo, int_in_busy, input, buf, host, events,
                 giving, creates, resets>>

(* ds5_setup: SET_INTERFACE of an audio stream.                            *)
SetInterface(g, value) ==
  /\ enabled /\ TimerFree /\ Idle("link") /\ config
  /\ alt' = [alt EXCEPT ![g] = value]
  /\ todo' = [todo EXCEPT !["timer"] = IF value THEN Enabling(g) ELSE Disabling(g)]
  /\ UNCHANGED <<FileVars, wr, enabled, config, on, ep_on, place, fifo, int_in_busy, input, buf, host,
                 events, giving, creates, resets>>

(* The steps of an enable: an endpoint is enabled and its request queued   *)
(* only while the port is.  hid_enabled is set last, and only on success:  *)
(* a failed queue disables both HID endpoints, and with them a report that *)
(* a late write left there; iso_*_enabled is set whatever the queue said.  *)
EnableEndpoint(f) ==
  /\ IF on[f] \/ ~enabled
     THEN /\ todo' = [todo EXCEPT !["timer"] = Resting]
          /\ config' = (config /\ (f # "hid" \/ on[f])) /\ UNCHANGED ep_on
     ELSE /\ todo' = [todo EXCEPT !["timer"] = Advanced(@)]
          /\ ep_on' = [ep_on EXCEPT ![f] = TRUE] /\ UNCHANGED config
  /\ UNCHANGED <<on, place, fifo, int_in_busy>>

EnableQueue(f) ==
  /\ \/ /\ enabled
        /\ place' = [place EXCEPT ![f] = IF @ = "idle" THEN "queued" ELSE @]
        /\ todo' = [todo EXCEPT !["timer"] = Advanced(@)]
        /\ UNCHANGED <<config, ep_on, fifo, int_in_busy>>
     \/ /\ ~enabled /\ f # "hid"
        /\ todo' = [todo EXCEPT !["timer"] = Advanced(@)]
        /\ UNCHANGED <<config, ep_on, place, fifo, int_in_busy>>
     \/ /\ ~enabled /\ f = "hid"
        /\ todo' = [todo EXCEPT !["timer"] = Resting]
        /\ ep_on' = [ep_on EXCEPT ![f] = FALSE] /\ config' = FALSE /\ fifo' = None
        /\ place' = [place EXCEPT !["in"] = IF @ = "queued" THEN "idle" ELSE @]
        /\ int_in_busy' = (int_in_busy /\ place["in"] # "queued")
  /\ UNCHANGED on

EnableDone(f) ==
  /\ on' = [on EXCEPT ![f] = TRUE]
  /\ todo' = [todo EXCEPT !["timer"] = Advanced(@)]
  /\ UNCHANGED <<config, ep_on, place, fifo, int_in_busy>>

EnableStep(f, op) ==
  /\ \/ op = "enable" /\ EnableEndpoint(f)
     \/ op = "queue" /\ EnableQueue(f)
     \/ op = "on" /\ EnableDone(f)
  /\ UNCHANGED alt

(* The steps of a disable, in the thread d.  A dequeued request completes  *)
(* with -ECONNRESET and is queued again at once, to be given back by the   *)
(* disable with -ESHUTDOWN.                                                *)
DisableStep(d, f, op) ==
  /\ op \notin EnableOps
  /\ todo' = [todo EXCEPT ![d] = IF op = "begin" /\ ~on[f] THEN Ended(@) ELSE Advanced(@)]
  /\ on' = IF op = "off" THEN [on EXCEPT ![f] = FALSE] ELSE on
  /\ ep_on' = IF op = "disable" THEN [ep_on EXCEPT ![f] = FALSE] ELSE ep_on
  /\ LET gone == CASE op = "dequeue_in" -> {"in"}
                   [] op = "dequeue" /\ ~enabled -> {f}
                   [] op = "disable" -> {f} \cup (IF f = "hid" THEN {"in"} ELSE {})
                   [] OTHER -> {}
     IN  /\ place' = [r \in Reqs |-> IF r \in gone /\ place[r] = "queued" THEN "idle" ELSE place[r]]
         /\ int_in_busy' = (int_in_busy /\ op # "notbusy" /\ ~("in" \in gone /\ place["in"] = "queued"))
  /\ fifo' = IF op = "disable" /\ f = "hid" THEN None ELSE fifo
  /\ IF op = "unset" THEN config' = FALSE /\ alt' = [g \in Audio |-> FALSE]
     ELSE UNCHANGED <<config, alt>>

DoStep(d) ==
  /\ ~Idle(d)
  /\ EnableStep(todo[d].f, todo[d].op) \/ DisableStep(d, todo[d].f, todo[d].op)
  /\ UNCHANGED <<FileVars, wr, enabled, input, buf, host, events, giving, creates, resets>>

(* The host reads the report in the fifo, or in req_int_in.                *)
HostReads ==
  /\ enabled /\ TimerFree /\ ep_on["hid"]
  /\ \/ /\ fifo # None
        /\ host' = fifo /\ fifo' = None /\ UNCHANGED <<place, giving>>
     \/ /\ fifo = None /\ place["in"] = "queued"
        /\ host' = buf /\ place' = [place EXCEPT !["in"] = "giving"] /\ giving' = "in"
        /\ UNCHANGED fifo
  /\ UNCHANGED <<FileVars, wr, enabled, config, alt, on, ep_on, int_in_busy, input, buf, events, todo,
                 creates, resets>>

(* The host writes an output report or audio, or reads audio.              *)
HostTransfers(f) ==
  /\ enabled /\ TimerFree /\ ep_on[f] /\ place[f] = "queued"
  /\ place' = [place EXCEPT ![f] = "giving"] /\ giving' = f
  /\ UNCHANGED <<FileVars, wr, enabled, config, alt, on, ep_on, fifo, int_in_busy, input, buf, host,
                 events, todo, creates, resets>>

(* ds5_push_event: dropped if the fifo is full.                            *)
PushEvent(r) == IF r \in {"hid", "iso_out"} /\ events < EventFifo THEN events + 1 ELSE events

(* Mutant: an output report ends the listening.                            *)
Complete_Unqueued(r) ==
  /\ giving = r /\ giving' = None
  /\ int_in_busy' = (int_in_busy /\ r # "in")
  /\ events' = PushEvent(r)
  /\ place' = [place EXCEPT ![r] = "idle"]
  /\ UNCHANGED <<FileVars, wr, enabled, config, alt, on, ep_on, fifo, input, buf, host, todo,
                 creates, resets>>

(* ds5_int_in_complete, ds5_int_out_complete, ds5_iso_out_complete and     *)
(* ds5_iso_in_complete: an event for the file, and the request is queued   *)
(* again; req_int_in waits for the next write.                             *)
Complete(r) ==
  /\ giving = r /\ giving' = None
  /\ int_in_busy' = (int_in_busy /\ r # "in")
  /\ events' = PushEvent(r)
  /\ place' = [place EXCEPT ![r] = IF r # "in" /\ ep_on[r] /\ enabled THEN "queued" ELSE "idle"]
  /\ UNCHANGED <<FileVars, wr, enabled, config, alt, on, ep_on, fifo, input, buf, host, todo,
                 creates, resets>>

Write(f) ==
  WriteCheck(f) \/ (\E v \in Inputs : WriteStore(f, v)) \/ WriteTest(f) \/ WriteCopy(f)
    \/ WriteQueue(f) \/ WriteFails(f)
Destroying(f) == DestroyDisconnect(f) \/ DestroyEnds(f) \/ Forget(f)

Next ==
  \/ \E f \in Files : Create(f) \/ Destroy(f) \/ Destroying(f) \/ Write(f) \/ Read(f)
  \/ PortEnabled \/ BusReset \/ HostReads
  \/ \E value \in BOOLEAN : SetConfiguration(value) \/ \E g \in Audio : SetInterface(g, value)
  \/ \E f \in Funcs : HostTransfers(f)
  \/ \E r \in Reqs : Complete(r)
  \/ \E d \in Doers : DoStep(d)

(* Threads go on, the host polls its input endpoint and completes what it  *)
(* took, and user space publishes its input again and again ("Userspace    *)
(* publishes at 100 Hz").                                                  *)
Fairness ==
  /\ \A f \in Files : WF_vars(Write(f)) /\ SF_vars(\E v \in Inputs : WriteStore(f, v))
                      /\ WF_vars(Destroying(f))
  /\ SF_vars(HostReads)
  /\ \A r \in Reqs : WF_vars(Complete(r))
  /\ \A d \in Doers : WF_vars(DoStep(d))

Spec == Init /\ [][Next]_vars
FairSpec == Spec /\ Fairness

-----------------------------------------------------------------------------
AtRest == giving = None /\ \A d \in DOMAIN todo : Idle(d)

(* The pad never falls mute or deaf.  int_in_busy is set only while        *)
(* req_int_in is on its way (queued, being given back, or about to be      *)
(* queued by the writer that set it), or it would never send again; and    *)
(* with the threads at rest a function that is on has its request queued,  *)
(* whatever dequeues, resets and completions crossed.                      *)
Listens ==
  /\ int_in_busy => place["in"] # "idle" \/ \E f \in DOMAIN wr : wr[f] = "queue"
  /\ AtRest => \A f \in DOMAIN on : on[f] => ep_on[f] /\ (enabled => place[f] = "queued")

(* A slot does what was asked of it: it belongs to one file while it is    *)
(* created and to none otherwise; an audio function is on only if the host *)
(* selected its stream, and HID only in a configuration; and after a       *)
(* destroy, once the last completion returned, the controller has none of  *)
(* the driver's requests and every function is off.                        *)
DestroyedQuiet ==
  /\ created => Cardinality({f \in DOMAIN private : private[f] /\ ctl[f] # "forget"}) = 1
  /\ ~created => \A f \in DOMAIN private : private[f] => ctl[f] = "forget"
  /\ AtRest => \A f \in DOMAIN on : on[f] => (IF f = "hid" THEN config ELSE alt[f])
  /\ ~created /\ AtRest => /\ \A f \in DOMAIN on : ~on[f] /\ ~ep_on[f]
                           /\ \A r \in DOMAIN place : place[r] = "idle"
                           /\ fifo = None

(* Once user space settles on a report and goes on publishing it to a      *)
(* configured pad, that report is what the host ends with, though a write  *)
(* while req_int_in is busy is only stored and the fifo holds an older one.*)
Publishing(v) == on["hid"] /\ enabled /\ created /\ input = v
InputArrives == \A v \in Inputs : <>[]Publishing(v) => <>[](host = v)

=============================================================================
