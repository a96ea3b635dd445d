------------------------------- MODULE UdcPort -------------------------------
(***************************************************************************)
(* The root hub port of the virtual USB controller, between the host's hub *)
(* driver and the gadget side: link state, reset, suspend and resume, and  *)
(* the callbacks to the gadget driver, during which set_link_state lets go *)
(* of the lock (vibeshine_ds5_udc.c).  The USB 2.0 port is modelled: the   *)
(* USB 3.0 one exists only with is_super_speed, and the DualSense driver   *)
(* runs at high speed at most.                                             *)
(*                                                                         *)
(* An action is one hold of dum->lock.  A thread that left the lock for a  *)
(* callback is shown by doing[th].  re_timeout is one bit: due.            *)
(***************************************************************************)
EXTENDS Naturals, FiniteSets

CONSTANTS Requests,     \* whether the gadget has requests queued (to be nuked)
          HubPowersOff, \* whether the host ever powers the port off
          Impatient,    \* whether a reset or resume may be asked for again while it runs
          MaxUnbinds,   \* bound on the times the gadget driver is unbound
          MaxSuspends   \* bound on suspensions of the udc, the root hub, the hcd

ASSUME PortAssumption ==
  /\ Requests \in BOOLEAN /\ HubPowersOff \in BOOLEAN /\ Impatient \in BOOLEAN
  /\ MaxUnbinds \in Nat /\ MaxSuspends \in Nat

Threads == {"hub", "poll", "gadget", "pm", "bus"}
Changes == {"c_connection", "c_suspend", "c_reset"}
Flags == {"power", "connection", "enable", "reset", "suspend"} \cup Changes
Callbacks == {"reset", "disconnect", "activity"}

VARIABLES
  port,           \* status, old_status, active, old_active, resuming, due
  rh_state,       \* dum_hcd->rh_state
  accessible,     \* HCD_FLAG_HW_ACCESSIBLE
  poll,           \* usb_hcd_poll_rh_status, or rh_timer, is to call hub_status
  wake,           \* usb_hcd_resume_root_hub was asked for
  pullup, udc_suspended, ints_enabled,
  pending_requests,   \* the gadget driver has requests queued
  address, wakeup_ok,
  callback_usage,
  doing,          \* doing[th]: what a thread does with the lock dropped
  gadget,         \* where the gadget side is: unbound, ..., connected, ...
  known, stale,   \* what the host last read of connection; whether it must reread
  reading,        \* GetPortStatus is to answer after a callback
  unbinds, suspends

port_vars == <<port, rh_state, accessible, poll, wake, pullup, udc_suspended, ints_enabled,
               pending_requests, address, wakeup_ok, callback_usage, doing, gadget, known,
               stale, reading, unbinds, suspends>>

Doings == {"none"} \cup Callbacks \cup {"nuke_reset", "nuke_disconnect"}
GadgetSteps == {"unbound", "bound", "connected", "down", "waiting", "off", "quiet", "unbinding"}

PortTypeOK ==
  /\ port.status \subseteq Flags /\ port.old_status \subseteq Flags
  /\ \A b \in {port.active, port.old_active, port.resuming, port.due} : b \in BOOLEAN
  /\ rh_state \in {"running", "suspended"} /\ accessible \in BOOLEAN
  /\ poll \in BOOLEAN /\ wake \in BOOLEAN /\ pullup \in BOOLEAN /\ udc_suspended \in BOOLEAN
  /\ ints_enabled \in BOOLEAN /\ pending_requests \in BOOLEAN /\ wakeup_ok \in BOOLEAN
  /\ address \in {0, 1}
  /\ doing \in [Threads -> Doings] /\ gadget \in GadgetSteps
  /\ callback_usage = Cardinality({th \in Threads : doing[th] \in Callbacks})
  /\ known \in BOOLEAN /\ stale \in BOOLEAN /\ reading \in BOOLEAN
  /\ unbinds \in 0 .. MaxUnbinds /\ suspends \in 0 .. MaxSuspends

PortInit ==
  /\ port = [status |-> {}, old_status |-> {}, active |-> FALSE, old_active |-> FALSE,
             resuming |-> FALSE, due |-> FALSE]
  /\ rh_state = "running" /\ accessible = TRUE /\ poll = FALSE /\ wake = FALSE
  /\ pullup = FALSE /\ udc_suspended = FALSE /\ ints_enabled = FALSE /\ pending_requests = FALSE
  /\ address = 0 /\ wakeup_ok = FALSE /\ callback_usage = 0
  /\ doing = [th \in Threads |-> "none"]
  /\ gadget = "unbound" /\ known = FALSE /\ stale = FALSE /\ reading = FALSE
  /\ unbinds = 0 /\ suspends = 0

-----------------------------------------------------------------------------
(* Mutant: a disconnection is not noted as a change.                       *)
BySpeed_Unnoted(p, up, rh) ==
  LET s == p.status IN
  IF "power" \notin s THEN [p EXCEPT !.status = {}]
  ELSE IF ~up THEN [p EXCEPT !.status = s \ {"connection", "enable", "suspend"}]
  ELSE LET t == s \cup {"connection"}
                  \cup (IF "connection" \notin p.old_status THEN {"c_connection"} ELSE {})
       IN  [p EXCEPT !.status = IF "enable" \in t THEN t ELSE t \ {"suspend"},
                     !.active = "enable" \in t /\ "suspend" \notin t /\ rh # "suspended"]

(* set_link_state_by_speed, USB 2.0.  up: pulled up and not suspended.     *)
BySpeed(p, up, rh) ==
  LET s == p.status IN
  IF "power" \notin s THEN [p EXCEPT !.status = {}]
  ELSE IF ~up
  THEN [p EXCEPT !.status = (s \ {"connection", "enable", "suspend"})
                   \cup (IF "connection" \in p.old_status THEN {"c_connection"} ELSE {})]
  ELSE LET t == s \cup {"connection"}
                  \cup (IF "connection" \notin p.old_status THEN {"c_connection"} ELSE {})
       IN  [p EXCEPT !.status = IF "enable" \in t THEN t ELSE t \ {"suspend"},
                     !.active = "enable" \in t /\ "suspend" \notin t /\ rh # "suspended"]

Linked(p, up, rh) ==
  LET q == BySpeed([p EXCEPT !.active = FALSE], up, rh)
  IN  [q EXCEPT !.resuming = @ /\ "enable" \in q.status /\ ~q.active]

(* What the driver has to be told.                                         *)
Event(q, ints) ==
  IF ~ints THEN "none"
  ELSE IF "power" \notin q.status \/ "reset" \in q.status
  THEN CASE "reset" \in q.status \ q.old_status -> "reset"
         [] "power" \in q.old_status \ q.status -> "disconnect"
         [] OTHER -> "none"
  ELSE IF q.active # q.old_active THEN "activity" ELSE "none"

Settled(q) == [q EXCEPT !.old_status = q.status, !.old_active = q.active]

(* set_link_state, up to the point where it drops the lock: to nuke what   *)
(* is queued, or to call the driver.                                       *)
SetLinkState(th, p, up, rh) ==
  LET q == Linked(p, up, rh)
      e == Event(q, ints_enabled)
      ends == e \in {"reset", "disconnect"}
      nukes == ends /\ pending_requests
  IN  /\ port' = IF e = "none" THEN Settled(q) ELSE q
      /\ address' = IF ends THEN 0 ELSE address
      /\ pending_requests' = (pending_requests /\ ~ends)
      /\ callback_usage' = callback_usage + (IF e = "none" \/ nukes THEN 0 ELSE 1)
      /\ doing' = [doing EXCEPT ![th] =
                     IF ~nukes THEN e
                     ELSE IF e = "reset" THEN "nuke_reset" ELSE "nuke_disconnect"]

Changed(q) == q.status \cap Changes # {}
Free(th) == doing[th] = "none"
Up == pullup /\ ~udc_suspended

(* Back under the lock: every request was given back.                      *)
NukeEnds(th) ==
  /\ doing[th] \in {"nuke_reset", "nuke_disconnect"}
  /\ callback_usage' = callback_usage + 1
  /\ doing' = [doing EXCEPT ![th] = IF @ = "nuke_reset" THEN "reset" ELSE "disconnect"]
  /\ UNCHANGED <<port, rh_state, accessible, poll, wake, pullup, udc_suspended,
                 ints_enabled, pending_requests, address, wakeup_ok, gadget, known, stale,
                 reading, unbinds, suspends>>

(* Back under the lock: the driver's callback returned, and the caller     *)
(* goes on: the hub's request is answered, whoever has to polls.           *)
CallbackEnds(th) ==
  /\ doing[th] \in Callbacks
  /\ callback_usage' = callback_usage - 1
  /\ doing' = [doing EXCEPT ![th] = "none"]
  /\ port' = Settled(port)
  /\ poll' = (poll \/ th = "pm" \/ (th = "gadget" /\ pullup) \/ (th = "hub" /\ Changed(port)))
  /\ wake' = (wake \/ (th = "poll" /\ Changed(port) /\ rh_state = "suspended"))
  /\ known' = IF th = "hub" /\ reading THEN "connection" \in port.status ELSE known
  /\ stale' = (stale /\ ~(th = "hub" /\ reading))
  /\ reading' = (reading /\ th # "hub")
  /\ UNCHANGED <<rh_state, accessible, pullup, udc_suspended, ints_enabled,
                 pending_requests, address, wakeup_ok, gadget, unbinds, suspends>>

-----------------------------------------------------------------------------
(* dummy_hub_control: one request of the hub driver at a time.             *)
HubRequest(p) ==
  /\ Free("hub") /\ accessible
  /\ SetLinkState("hub", p, Up, rh_state)
  /\ poll' = (poll \/ (doing'["hub"] = "none" /\ Changed(port')))
  /\ UNCHANGED <<rh_state, accessible, wake, pullup, udc_suspended, ints_enabled, gadget,
                 unbinds, suspends>>

SetPortPower ==
  /\ HubRequest([port EXCEPT !.status = @ \cup {"power"}])
  /\ UNCHANGED <<wakeup_ok, known, stale, reading>>

ClearPortPower ==
  /\ HubPowersOff
  /\ HubRequest([port EXCEPT !.status = @ \ {"power"}])
  /\ stale' = TRUE
  /\ UNCHANGED <<wakeup_ok, known, reading>>

ClearPortFeature(f) ==
  /\ f \in port.status
  /\ HubRequest([port EXCEPT !.status = @ \ {f}])
  /\ stale' = (stale \/ f = "c_connection")
  /\ UNCHANGED <<wakeup_ok, known, reading>>

SetPortReset ==
  /\ "connection" \in port.status /\ (Impatient \/ "reset" \notin port.status)
  /\ HubRequest([port EXCEPT !.status = (@ \ {"enable"}) \cup {"reset"}, !.due = FALSE])
  /\ wakeup_ok' = FALSE
  /\ UNCHANGED <<known, stale, reading>>

SetPortSuspend ==
  /\ port.active
  /\ HubRequest([port EXCEPT !.status = @ \cup {"suspend"}])
  /\ UNCHANGED <<wakeup_ok, known, stale, reading>>

(* Clearing suspend begins 20 ms of resume signalling.                     *)
ClearPortSuspend ==
  /\ Free("hub") /\ accessible
  /\ "suspend" \in port.status /\ (Impatient \/ ~port.resuming)
  /\ port' = [port EXCEPT !.resuming = TRUE, !.due = FALSE]
  /\ UNCHANGED <<rh_state, accessible, poll, wake, pullup, udc_suspended, ints_enabled,
                 pending_requests, address, wakeup_ok, callback_usage, doing, gadget,
                 known, stale, reading, unbinds, suspends>>

Resumed(p) ==
  IF p.resuming /\ p.due
  THEN [p EXCEPT !.status = (@ \ {"suspend"}) \cup {"c_suspend"}] ELSE p

ResetDone(p) ==
  IF "reset" \in p.status /\ p.due
  THEN [p EXCEPT !.status = (@ \ {"reset"}) \cup {"c_reset"}
                              \cup (IF pullup THEN {"enable"} ELSE {})]
  ELSE p

(* GetPortStatus completes a resume and a reset whose time is up.          *)
GetPortStatus ==
  /\ HubRequest(ResetDone(Resumed(port)))
  /\ reading' = (doing'["hub"] # "none")
  /\ known' = IF reading' THEN known ELSE "connection" \in port'.status
  /\ stale' = (stale /\ reading')
  /\ UNCHANGED wakeup_ok

(* The host gives the device its address, and allows it to wake the host.  *)
SetAddress ==
  /\ port.active /\ ints_enabled /\ address = 0
  /\ address' = 1 /\ wakeup_ok' = TRUE
  /\ pending_requests' = Requests
  /\ UNCHANGED <<port, rh_state, accessible, poll, wake, pullup, udc_suspended,
                 ints_enabled, callback_usage, doing, gadget, known, stale, reading,
                 unbinds, suspends>>

(* dummy_hub_status.                                                       *)
HubStatus ==
  /\ Free("poll") /\ poll /\ poll' = FALSE
  /\ IF accessible /\ port.resuming /\ port.due
     THEN SetLinkState("poll", Resumed(port), Up, rh_state)
     ELSE UNCHANGED <<port, address, pending_requests, callback_usage, doing>>
  /\ wake' = (wake \/ (accessible /\ doing'["poll"] = "none" /\ Changed(port')
                        /\ rh_state = "suspended"))
  /\ UNCHANGED <<rh_state, accessible, pullup, udc_suspended, ints_enabled, wakeup_ok,
                 gadget, known, stale, reading, unbinds, suspends>>

(* dummy_wakeup, called by the gadget driver.                              *)
Wakeup ==
  /\ wakeup_ok /\ "connection" \in port.status /\ (Impatient \/ ~port.resuming)
  /\ "suspend" \in port.status \/ rh_state = "suspended"
  /\ port' = [port EXCEPT !.resuming = TRUE, !.due = FALSE]
  /\ poll' = TRUE
  /\ UNCHANGED <<rh_state, accessible, wake, pullup, udc_suspended, ints_enabled,
                 pending_requests, address, wakeup_ok, callback_usage, doing, gadget,
                 known, stale, reading, unbinds, suspends>>

(* Time: re_timeout is reached.  A resume polls again then (rh_timer).     *)
TimeoutReached ==
  /\ ~port.due /\ (port.resuming \/ "reset" \in port.status)
  /\ port' = [port EXCEPT !.due = TRUE]
  /\ poll' = (poll \/ port.resuming)
  /\ UNCHANGED <<rh_state, accessible, wake, pullup, udc_suspended, ints_enabled,
                 pending_requests, address, wakeup_ok, callback_usage, doing, gadget,
                 known, stale, reading, unbinds, suspends>>

-----------------------------------------------------------------------------
(* The gadget side, in the order of the UDC core: start and bind, connect; *)
(* disconnect, end callbacks, unbind, stop.                                *)
UdcStart ==
  /\ gadget = "unbound"
  /\ gadget' = "bound" /\ wakeup_ok' = FALSE /\ ints_enabled' = TRUE
  /\ UNCHANGED <<port, rh_state, accessible, poll, wake, pullup, udc_suspended,
                 pending_requests, address, callback_usage, doing, known, stale, reading,
                 unbinds, suspends>>

PullUp ==
  /\ gadget = "bound" /\ Free("gadget")
  /\ pullup' = TRUE
  /\ SetLinkState("gadget", port, ~udc_suspended, rh_state)
  /\ gadget' = "connected" /\ poll' = (poll \/ doing'["gadget"] = "none")
  /\ UNCHANGED <<rh_state, accessible, wake, udc_suspended, ints_enabled, wakeup_ok, known,
                 stale, reading, unbinds, suspends>>

PullDown ==
  /\ gadget = "connected" /\ Free("gadget")
  /\ pullup' = FALSE
  /\ SetLinkState("gadget", port, FALSE, rh_state)
  /\ gadget' = "down"
  /\ UNCHANGED <<rh_state, accessible, poll, wake, udc_suspended, ints_enabled, wakeup_ok,
                 known, stale, reading, unbinds, suspends>>

(* dummy_pullup(0) waits for the callbacks that run.                       *)
PullDownWait ==
  /\ gadget = "down" /\ Free("gadget") /\ callback_usage = 0
  /\ gadget' = "off" /\ poll' = TRUE
  /\ UNCHANGED <<port, rh_state, accessible, wake, pullup, udc_suspended, ints_enabled,
                 pending_requests, address, wakeup_ok, callback_usage, doing, known, stale,
                 reading, unbinds, suspends>>

Reconnect ==
  /\ gadget = "off"
  /\ gadget' = "bound"
  /\ UNCHANGED <<port, rh_state, accessible, poll, wake, pullup, udc_suspended,
                 ints_enabled, pending_requests, address, wakeup_ok, callback_usage, doing,
                 known, stale, reading, unbinds, suspends>>

AsyncCallbacksOff ==
  /\ gadget = "off" /\ unbinds < MaxUnbinds /\ unbinds' = unbinds + 1
  /\ ints_enabled' = FALSE
  /\ gadget' = "unbinding"
  /\ UNCHANGED <<port, rh_state, accessible, poll, wake, pullup, udc_suspended,
                 pending_requests, address, wakeup_ok, callback_usage, doing, known, stale,
                 reading, suspends>>

UdcStop ==
  /\ gadget = "unbinding"
  /\ gadget' = "unbound"
  /\ address' = 0 /\ pending_requests' = FALSE
  /\ UNCHANGED <<port, rh_state, accessible, poll, wake, pullup, udc_suspended,
                 ints_enabled, wakeup_ok, callback_usage, doing, known, stale, reading,
                 unbinds, suspends>>

(* dummy_udc_suspend and dummy_udc_resume.                                 *)
UdcPm(suspend) ==
  /\ Free("pm") /\ udc_suspended # suspend /\ gadget # "unbound"
  /\ suspends < MaxSuspends \/ ~suspend
  /\ suspends' = suspends + (IF suspend THEN 1 ELSE 0)
  /\ udc_suspended' = suspend
  /\ SetLinkState("pm", port, pullup /\ ~suspend, rh_state)
  /\ poll' = (poll \/ doing'["pm"] = "none")
  /\ UNCHANGED <<rh_state, accessible, wake, pullup, ints_enabled, wakeup_ok, gadget,
                 known, stale, reading, unbinds>>

(* dummy_bus_suspend, after which the hub driver looks for changes;        *)
(* dummy_bus_resume; dummy_hcd_suspend and dummy_hcd_resume.               *)
BusSuspend ==
  /\ Free("bus") /\ rh_state = "running"
  /\ suspends < MaxSuspends /\ suspends' = suspends + 1
  /\ rh_state' = "suspended"
  /\ SetLinkState("bus", port, Up, "suspended")
  /\ poll' = TRUE
  /\ UNCHANGED <<accessible, wake, pullup, udc_suspended, ints_enabled, wakeup_ok, gadget,
                 known, stale, reading, unbinds>>

BusResume ==
  /\ Free("bus") /\ wake /\ wake' = FALSE
  /\ IF accessible
     THEN rh_state' = "running" /\ SetLinkState("bus", port, Up, "running")
     ELSE UNCHANGED <<rh_state, port, address, pending_requests, callback_usage, doing>>
  /\ UNCHANGED <<accessible, poll, pullup, udc_suspended, ints_enabled, wakeup_ok, gadget,
                 known, stale, reading, unbinds, suspends>>

HostWantsBus ==
  /\ rh_state = "suspended" /\ ~wake
  /\ wake' = TRUE
  /\ UNCHANGED <<port, rh_state, accessible, poll, pullup, udc_suspended, ints_enabled,
                 pending_requests, address, wakeup_ok, callback_usage, doing, gadget,
                 known, stale, reading, unbinds, suspends>>

HcdSuspend ==
  /\ accessible /\ rh_state # "running"
  /\ accessible' = FALSE
  /\ UNCHANGED <<port, rh_state, poll, wake, pullup, udc_suspended, ints_enabled,
                 pending_requests, address, wakeup_ok, callback_usage, doing, gadget,
                 known, stale, reading, unbinds, suspends>>

HcdResume ==
  /\ ~accessible
  /\ accessible' = TRUE /\ poll' = TRUE
  /\ UNCHANGED <<port, rh_state, wake, pullup, udc_suspended, ints_enabled,
                 pending_requests, address, wakeup_ok, callback_usage, doing, gadget,
                 known, stale, reading, unbinds, suspends>>

Hub ==
  \/ SetPortPower \/ ClearPortPower \/ SetPortReset \/ SetPortSuspend \/ ClearPortSuspend
  \/ GetPortStatus \/ SetAddress
  \/ \E f \in Changes \cup {"enable"} : ClearPortFeature(f)

Gadget ==
  \/ UdcStart \/ PullUp \/ PullDown \/ PullDownWait \/ Reconnect \/ AsyncCallbacksOff \/ UdcStop
  \/ Wakeup

Bus == BusSuspend \/ BusResume \/ HostWantsBus \/ HcdSuspend \/ HcdResume

PortNext ==
  \/ Hub \/ HubStatus \/ Gadget \/ TimeoutReached \/ Bus
  \/ \E suspend \in BOOLEAN : UdcPm(suspend)
  \/ \E th \in Threads : NukeEnds(th) \/ CallbackEnds(th)

(* The hub driver reads the port while a reset runs; callbacks return,     *)
(* time passes, a polled port is looked at, a wanted root hub is resumed.  *)
PortFairness ==
  /\ WF_port_vars(GetPortStatus /\ "reset" \in port.status) /\ WF_port_vars(TimeoutReached)
  /\ WF_port_vars(HubStatus) /\ WF_port_vars(PullDownWait)
  /\ WF_port_vars(BusResume) /\ WF_port_vars(HcdResume)
  /\ \A th \in Threads : WF_port_vars(NukeEnds(th) \/ CallbackEnds(th))

PortSpec == PortInit /\ [][PortNext]_port_vars
PortFairSpec == PortSpec /\ PortFairness

-----------------------------------------------------------------------------
(* No change of connection is lost, whoever is out of the lock with which  *)
(* old_status: if the port differs from what the host last read, a change  *)
(* bit is set, or the host has yet to read again.  The port is active on   *)
(* every link that can carry transfers and on no other (each change of     *)
(* pullup, suspension, root hub or port goes through set_link_state under  *)
(* the lock), and enabled or suspended only while something is connected.  *)
PortHonest ==
  /\ ("connection" \in port.status) # known => "c_connection" \in port.status \/ stale
  /\ port.active = /\ Up /\ rh_state = "running"
                   /\ {"power", "connection", "enable"} \subseteq port.status
                   /\ "suspend" \notin port.status
  /\ port.status \cap {"enable", "suspend"} # {} => "connection" \in port.status

(* A reset ends, a link that is being resumed is active again or gone, and *)
(* pullup(0) returns.                                                      *)
ResetOver == "reset" \notin port.status \/ ~accessible
ResumeOver == ~port.resuming \/ ~accessible \/ rh_state = "suspended"
PullDownOver == gadget # "down"

PortProgress == []<>ResetOver /\ []<>ResumeOver /\ []<>PullDownOver

=============================================================================
