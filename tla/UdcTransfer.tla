----------------------------- MODULE UdcTransfer -----------------------------
(***************************************************************************)
(* Transfers of the virtual USB controller: the gadget's requests, the     *)
(* host's urbs, and dummy_timer, which connects them once a frame and lets *)
(* go of the lock for every callback (vibeshine_ds5_udc.c).  Control,      *)
(* interrupt and bulk endpoints; isochronous ones are in UdcIso.           *)
(*                                                                         *)
(* An action is one hold of dum->lock, or one turn of a loop of the timer  *)
(* or of nuke, during which the others wait (LockFree).                    *)
(***************************************************************************)
EXTENDS Naturals, Integers, Sequences, FiniteSets

CONSTANTS Eps,         \* the endpoints in use, of "ep0", "in", "out"
          Urbs,        \* the urbs of the host's drivers
          Reqs,        \* the requests of the gadget driver, ep0's apart
          ReqLengths, UrbLengths,   \* lengths in bytes
          MaxPacket, FifoSize,
          Total,       \* bytes that a frame may carry
          Interrupt,   \* whether "in" and "out" are interrupt endpoints, or bulk
          Delayed,     \* whether the driver may answer a setup after it returned
          ZeroPacket,  \* whether the host's drivers set URB_ZERO_PACKET
          MaxData,     \* bound on the reports queued on "in"
          MaxTroubles, \* bound on disconnections, suspensions, disablings, halts
          RacyQueue    \* whether dummy_queue's unlocked checks may go stale

None == "none"

(* A request that the driver makes is none of those the controller and ep0 *)
(* have, and carries data (ds5_queue_int_in, ds5_queue_int_out): only an   *)
(* answer on ep0, which has one request, may be empty.                     *)
TransferConstants ==
  /\ {None, "fifo", "ep0_req"} \cap Reqs = {}
  /\ ReqLengths \subseteq Nat \ {0} /\ UrbLengths \subseteq Nat /\ ZeroPacket \in BOOLEAN
  /\ MaxPacket \in Nat \ {0} /\ Total \in Nat

ASSUME TransferAssumption == TransferConstants

AllReqs == Reqs \cup {"ep0_req", "fifo"}

(* Setups by who answers them and how: the driver with data or a status    *)
(* for the host, the driver that takes data (SET_REPORT), the driver with  *)
(* an error, and the controller.                                           *)
ForDriver == {"driver", "driver_out"}
Setups == ForDriver \cup {"stall", "set_halt", "clear_halt", "get_status"}

(* Who runs nuke: stop_activity, on every endpoint, and dummy_disable.     *)
Nukers == {"stop"} \cup Eps

VARIABLES
  ep,             \* dummy_ep: desc, halted, wedged, already_seen, setup_stage, queue
  req,            \* dummy_request: len, actual, zero, own (who has it), n (which data), for
  urb,            \* urb and urbp: ep, setup, len, actual, state, unlinked, new, status, took, cut
  urbp_list, next_frame_urbp, timer_pending, udev,
  running,        \* rh_state is DUMMY_RH_RUNNING
  active,         \* the port is enabled and ints_enabled
  timer,          \* dummy_timer: pc, at (position in the list), total, limit, then
  nuking, nuked,  \* endpoints each nuker has yet to empty; the request it gives back
  late,           \* the control urb that the driver is to answer later
  data,           \* what was queued on "in": len, got by the host, fate
  troubles

vars == <<ep, req, urb, urbp_list, next_frame_urbp, timer_pending, udev, running, active, timer,
          nuking, nuked, late, data, troubles>>

TypeOK ==
  /\ \A e \in Eps : /\ ep[e].halted \in BOOLEAN /\ ep[e].wedged \in BOOLEAN /\ ep[e].desc \in BOOLEAN
                    /\ \A i \in DOMAIN ep[e].queue : ep[e].queue[i] \in AllReqs
  /\ \A r \in AllReqs : /\ req[r].own \in {"driver", "checked", "queued", "giving"}
                        /\ req[r].actual \in 0 .. req[r].len
  /\ \A u \in Urbs : /\ urb[u].state \in {"free", "listed", "giving"}
                     /\ urb[u].actual \in 0 .. urb[u].len
  /\ timer_pending \in BOOLEAN /\ udev \in BOOLEAN /\ running \in BOOLEAN /\ active \in BOOLEAN
  /\ timer.pc \in {"idle", "scan", "transfer", "request", "stale", "setup", "urb"}
  /\ timer.at \in 0 .. Cardinality(Urbs) + 1
  /\ nuking \in [Nukers -> SUBSET Eps] /\ nuked \in [Nukers -> AllReqs \cup {None}]
  /\ late \in Urbs \cup {None}
  /\ Len(data) \in 0 .. MaxData /\ troubles \in 0 .. MaxTroubles

Idle == [pc |-> "idle", at |-> 0, total |-> 0, limit |-> 0, then |-> None]
FreeReq == [len |-> 0, actual |-> 0, zero |-> FALSE, own |-> "driver", n |-> 0, for |-> None]
FreeUrb == [ep |-> None, setup |-> None, len |-> 0, actual |-> 0, state |-> "free",
            unlinked |-> FALSE, new |-> FALSE, status |-> None, took |-> {}, cut |-> FALSE]

Init ==
  /\ ep = [e \in Eps |-> [desc |-> e # "ep0", halted |-> FALSE, wedged |-> FALSE,
                          already_seen |-> FALSE, setup_stage |-> FALSE, queue |-> <<>>]]
  /\ req = [r \in AllReqs |-> FreeReq]
  /\ urb = [u \in Urbs |-> FreeUrb]
  /\ urbp_list = <<>> /\ next_frame_urbp = None /\ timer_pending = FALSE /\ udev = FALSE
  /\ running = TRUE /\ active = TRUE /\ timer = Idle
  /\ nuking = [k \in Nukers |-> {}] /\ nuked = [k \in Nukers |-> None]
  /\ late = None /\ data = <<>> /\ troubles = 0

(* dum->lock is free while every loop that holds it is out in a callback.  *)
Away(k) == nuking[k] = {} \/ nuked[k] # None
LockFree == timer.pc \notin {"scan", "transfer"} /\ \A k \in Nukers : Away(k)

Host == <<urb, urbp_list, next_frame_urbp, timer_pending, udev>>
GadgetSide == <<ep, req, data, nuking, nuked, late>>
Port == <<running, active, troubles>>

(* list_del of r, which is on the list.                                    *)
Without(q, r) ==
  LET k == CHOOSE i \in DOMAIN q : q[i] = r
  IN  [i \in 1 .. Len(q) - 1 |-> q[IF i < k THEN i ELSE i + 1]]

(* What became of the data of a request that is given back: whole, lost,   *)
(* or cut by an error that a side is told of: the driver by the status of  *)
(* its request, the host by an overflow or, of what waits in the fifo,     *)
(* whose request was given back before, by the disconnection or disabling. *)
Fate(d, r, status, told) ==
  IF req[r].n = 0 THEN d
  ELSE [d EXCEPT ![req[r].n].fate = CASE status \in {"shutdown", "reset"} \/ told -> "cut"
                                      [] @ = "pending" /\ d[req[r].n].got = d[req[r].n].len -> "whole"
                                      [] OTHER -> "lost"]

(* Mutant: the request still counts as queued while it is given back.      *)
Taken_Kept(r) == req

(* A request leaves its queue.  fifo_req is free again at once.            *)
Taken(r) == [req EXCEPT ![r] = IF r = "fifo" THEN FreeReq ELSE [FreeReq EXCEPT !.own = "giving"]]
Given(r) == IF r \in {"fifo", None} THEN req ELSE [req EXCEPT ![r] = FreeReq]

-----------------------------------------------------------------------------
(* The gadget driver's side.                                               *)
Enabled(e) == active /\ (ep[e].desc \/ e = "ep0")

UsesFifo(e, l) ==
  /\ e = "in" /\ ep[e].desc
  /\ req["fifo"].own = "driver" /\ ep[e].queue = <<>> /\ l <= FifoSize

(* dummy_queue, under the lock: a short report for the host goes into the  *)
(* fifo and its request is given back at once.                             *)
Queued(e, r, l, zero, u) ==
  LET n == IF e = "in" THEN Len(data) + 1 ELSE 0
      f == UsesFifo(e, l)
      x == IF f THEN "fifo" ELSE r
      new == [len |-> l, actual |-> 0, zero |-> zero, own |-> "queued", n |-> n, for |-> u]
  IN  /\ req' = IF f THEN [req EXCEPT !["fifo"] = new, ![r] = FreeReq] ELSE [req EXCEPT ![r] = new]
      /\ ep' = [ep EXCEPT ![e].queue = Append(@, x)]
      /\ data' = IF n = 0 THEN data ELSE Append(data, [len |-> l, got |-> 0, fate |-> "pending"])

Queue(e, r, l) ==
  /\ LockFree /\ e # "ep0" /\ ~RacyQueue
  /\ req[r].own = "driver" /\ Enabled(e)
  /\ e = "in" => Len(data) < MaxData
  /\ Queued(e, r, l, FALSE, None)
  /\ UNCHANGED <<Host, Port, timer, nuking, nuked, late>>

(* The same, the checks made before the lock is taken.                     *)
QueueCheck(e, r, l) ==
  /\ e # "ep0" /\ RacyQueue
  /\ req[r].own = "driver" /\ Enabled(e)
  /\ e = "in" => Len(data) < MaxData
  /\ \A s \in Reqs : req[s].own # "checked"
  /\ req' = [req EXCEPT ![r] = [FreeReq EXCEPT !.own = "checked", !.len = l, !.for = e]]
  /\ UNCHANGED <<Host, Port, ep, data, nuking, nuked, timer, late>>

QueueAdd(r) ==
  /\ LockFree /\ req[r].own = "checked"
  /\ Queued(req[r].for, r, req[r].len, FALSE, None)
  /\ UNCHANGED <<Host, Port, timer, nuking, nuked, late>>

(* dummy_dequeue.                                                          *)
Dequeue(e, r) ==
  /\ LockFree /\ \E i \in DOMAIN ep[e].queue : ep[e].queue[i] = r
  /\ ep' = [ep EXCEPT ![e].queue = Without(@, r)]
  /\ req' = Given(r)
  /\ data' = Fate(data, r, "reset", FALSE)
  /\ UNCHANGED <<Host, Port, timer, nuking, nuked, late>>

(* dummy_enable and dummy_disable.                                         *)
Enable(e) ==
  /\ LockFree /\ e # "ep0" /\ ~ep[e].desc /\ active
  /\ ep' = [ep EXCEPT ![e].desc = TRUE, ![e].halted = FALSE, ![e].wedged = FALSE]
  /\ UNCHANGED <<Host, Port, req, data, nuking, nuked, timer, late>>

Disable(e) ==
  /\ LockFree /\ e # "ep0" /\ ep[e].desc /\ nuking[e] = {}
  /\ troubles < MaxTroubles /\ troubles' = troubles + 1
  /\ ep' = [ep EXCEPT ![e].desc = FALSE]
  /\ nuking' = [nuking EXCEPT ![e] = {e}]
  /\ UNCHANGED <<Host, req, data, nuked, timer, running, active, late>>

HaltCleared(e) == IF ep[e].wedged THEN ep ELSE [ep EXCEPT ![e].halted = FALSE]

(* dummy_set_halt_and_wedge.                                               *)
SetHalt(e, value, wedged) ==
  /\ LockFree /\ (wedged => e # "ep0" /\ value) /\ ep[e].halted # value
  /\ value => ~(e = "in" /\ ep[e].desc /\ ep[e].queue # <<>>)
  /\ troubles < MaxTroubles /\ troubles' = troubles + 1
  /\ ep' = [ep EXCEPT ![e].halted = value, ![e].wedged = value /\ (@ \/ wedged)]
  /\ UNCHANGED <<Host, req, data, nuking, nuked, timer, running, active, late>>

(* nuke: one request after the other, the lock dropped for each.           *)
NukeTake(k, e) ==
  /\ e \in nuking[k] /\ nuked[k] = None
  /\ timer.pc \notin {"scan", "transfer"} /\ \A j \in Nukers \ {k} : Away(j)
  /\ IF ep[e].queue = <<>>
     THEN /\ nuking' = [nuking EXCEPT ![k] = @ \ {e}]
          /\ UNCHANGED <<ep, req, data, nuked>>
     ELSE LET r == Head(ep[e].queue) IN
          /\ ep' = [ep EXCEPT ![e].queue = Tail(@)]
          /\ req' = Taken(r) /\ nuked' = [nuked EXCEPT ![k] = r]
          /\ data' = Fate(data, r, "shutdown", FALSE)
          /\ UNCHANGED nuking
  /\ UNCHANGED <<Host, timer, running, active, troubles, late>>

NukeGiven(k) ==
  /\ LockFree /\ nuked[k] # None
  /\ req' = Given(nuked[k]) /\ nuked' = [nuked EXCEPT ![k] = None]
  /\ UNCHANGED <<Host, Port, ep, data, nuking, timer, late>>

(* The port goes down and comes up (UdcPort): stop_activity.               *)
Disconnect ==
  /\ LockFree /\ nuking["stop"] = {} /\ active
  /\ troubles < MaxTroubles /\ troubles' = troubles + 1
  /\ active' = FALSE /\ nuking' = [nuking EXCEPT !["stop"] = Eps] /\ late' = None
  /\ UNCHANGED <<Host, ep, req, data, nuked, timer, running>>

Connect ==
  /\ LockFree /\ ~active /\ nuking["stop"] = {}
  /\ active' = TRUE
  /\ UNCHANGED <<Host, GadgetSide, timer, running, troubles>>

-----------------------------------------------------------------------------
(* The host's side.                                                        *)
NewUrb(e, l, s) ==
  [FreeUrb EXCEPT !.ep = e, !.setup = s, !.len = l, !.state = "listed", !.new = e = "ep0"]

(* dummy_urb_enqueue.                                                      *)
UrbEnqueue(u, e, l, s) ==
  /\ LockFree /\ urb[u].state = "free"
  /\ (s # None) <=> (e = "ep0")
  /\ urb' = [urb EXCEPT ![u] = NewUrb(e, l, s)]
  /\ urbp_list' = Append(urbp_list, u)
  /\ next_frame_urbp' = IF next_frame_urbp = None THEN u ELSE next_frame_urbp
  /\ udev' = TRUE /\ timer_pending' = TRUE
  /\ UNCHANGED <<GadgetSide, Port, timer>>

(* Mutant: relies on the timer running anyway.                             *)
UrbDequeue_Unkicked(u) ==
  /\ LockFree /\ urb[u].state = "listed" /\ ~urb[u].unlinked
  /\ urb' = [urb EXCEPT ![u].unlinked = TRUE]
  /\ UNCHANGED <<GadgetSide, Port, timer, urbp_list, next_frame_urbp, timer_pending, udev>>

(* dummy_urb_dequeue: the timer is to give the urb back.                   *)
UrbDequeue(u) ==
  /\ LockFree /\ urb[u].state = "listed" /\ ~urb[u].unlinked
  /\ urb' = [urb EXCEPT ![u].unlinked = TRUE]
  /\ timer_pending' = TRUE
  /\ UNCHANGED <<GadgetSide, Port, timer, urbp_list, next_frame_urbp, udev>>

RootHubSuspends ==
  /\ LockFree /\ running
  /\ troubles < MaxTroubles /\ troubles' = troubles + 1
  /\ running' = FALSE
  /\ UNCHANGED <<Host, GadgetSide, timer, active>>

RootHubResumes ==
  /\ LockFree /\ ~running
  /\ running' = TRUE
  /\ timer_pending' = (timer_pending \/ urbp_list # <<>>)
  /\ UNCHANGED <<urb, urbp_list, next_frame_urbp, udev, GadgetSide, timer, active, troubles>>

-----------------------------------------------------------------------------
(* dummy_timer.                                                            *)
Unseen == [e \in Eps |-> [ep[e] EXCEPT !.already_seen = FALSE]]

TimerFires ==
  /\ LockFree /\ timer.pc = "idle" /\ timer_pending
  /\ timer_pending' = FALSE
  /\ IF udev
     THEN /\ next_frame_urbp' = None /\ ep' = Unseen
          /\ timer' = [Idle EXCEPT !.pc = "scan", !.at = 1, !.total = Total]
     ELSE UNCHANGED <<next_frame_urbp, ep, timer>>
  /\ UNCHANGED <<urb, urbp_list, udev, req, data, nuking, nuked, Port, late>>

AtEnd == timer.at <= Len(urbp_list) => urbp_list[timer.at] = next_frame_urbp
Scanning == timer.pc = "scan" /\ ~AtEnd
Cur == urbp_list[timer.at]
CurEp == urb[Cur].ep

FrameEnds ==
  /\ timer.pc = "scan" /\ AtEnd
  /\ timer' = Idle
  /\ udev' = (urbp_list # <<>>)
  /\ timer_pending' = (timer_pending \/ (urbp_list # <<>> /\ running))
  /\ UNCHANGED <<urb, urbp_list, next_frame_urbp, GadgetSide, Port>>

(* find_endpoint.                                                          *)
FindEndpoint(e) == active /\ (e = "ep0" \/ ep[e].desc)

(* return_urb: the urb leaves the list and the lock is dropped.            *)
Return(u, status, e) ==
  /\ urbp_list' = Without(urbp_list, u)
  /\ urb' = [urb EXCEPT ![u].state = "giving", ![u].status = status, ![u].new = FALSE]
  /\ timer' = [timer EXCEPT !.pc = "urb", !.at = 1, !.limit = 0]
  /\ e

Forgotten(e) == [ep EXCEPT ![e].already_seen = FALSE, ![e].setup_stage = FALSE]

SkipUrb ==
  /\ Scanning /\ ~urb[Cur].unlinked
  /\ running /\ timer.total > 0 => FindEndpoint(CurEp) /\ ep[CurEp].already_seen
  /\ timer' = [timer EXCEPT !.at = @ + 1]
  /\ UNCHANGED <<Host, GadgetSide, Port>>

ReturnUnlinked ==
  /\ Scanning /\ urb[Cur].unlinked
  /\ Return(Cur, "unlinked", UNCHANGED ep)
  /\ UNCHANGED <<next_frame_urbp, timer_pending, udev, req, data, nuking, nuked, Port, late>>

Looked == Scanning /\ ~urb[Cur].unlinked /\ running /\ timer.total > 0

ReturnNoEndpoint ==
  /\ Looked /\ ~FindEndpoint(CurEp)
  /\ Return(Cur, "proto", UNCHANGED ep)
  /\ UNCHANGED <<next_frame_urbp, timer_pending, udev, req, data, nuking, nuked, Port, late>>

Fresh == Looked /\ FindEndpoint(CurEp) /\ ~ep[CurEp].already_seen
SetupStage == ep[CurEp].setup_stage \/ urb[Cur].new

ReturnHalted ==
  /\ Fresh /\ ep[CurEp].halted /\ ~SetupStage
  /\ Return(Cur, "pipe", ep' = Forgotten(CurEp))
  /\ UNCHANGED <<next_frame_urbp, timer_pending, udev, req, data, nuking, nuked, Port, late>>

(* A request left from an earlier control transfer is given back, and the  *)
(* scan starts again.                                                      *)
GiveStale ==
  /\ Fresh /\ SetupStage /\ ep["ep0"].queue # <<>>
  /\ LET r == Head(ep["ep0"].queue) IN
     /\ ep' = [ep EXCEPT !["ep0"].queue = Tail(@), !["ep0"].setup_stage = TRUE,
                         !["ep0"].already_seen = FALSE]
     /\ req' = Taken(r)
     /\ timer' = [timer EXCEPT !.pc = "stale", !.then = r]
  /\ urb' = [urb EXCEPT ![Cur].new = FALSE]
  /\ UNCHANGED <<urbp_list, next_frame_urbp, timer_pending, udev, data, nuking, nuked, Port, late>>

StaleGiven ==
  /\ timer.pc = "stale" /\ (\A k \in Nukers : Away(k))
  /\ req' = Given(timer.then)
  /\ timer' = [timer EXCEPT !.pc = "scan", !.at = 1, !.then = None]
  /\ UNCHANGED <<Host, Port, ep, data, nuking, nuked, late>>

SetupReady == Fresh /\ SetupStage /\ ep["ep0"].queue = <<>>
SetupTaken == [ep EXCEPT !["ep0"].setup_stage = FALSE, !["ep0"].halted = FALSE]

(* handle_control_request, of the requests that the controller answers.    *)
ControlHandled ==
  /\ SetupReady /\ urb[Cur].setup \in {"set_halt", "clear_halt", "get_status"}
  /\ LET found == "in" \in Eps /\ FindEndpoint("in") IN
     Return(Cur, IF found THEN "ok" ELSE "pipe",
            ep' = LET k == IF ~found THEN ep
                           ELSE CASE urb[Cur].setup = "set_halt" -> [ep EXCEPT !["in"].halted = TRUE]
                                  [] urb[Cur].setup = "clear_halt" -> HaltCleared("in")
                                  [] OTHER -> ep
                  IN  [k EXCEPT !["ep0"] = [@ EXCEPT !.already_seen = FALSE, !.setup_stage = FALSE,
                                                     !.halted = FALSE]])
  /\ UNCHANGED <<next_frame_urbp, timer_pending, udev, req, data, nuking, nuked, Port, late>>

(* The driver's setup callback is called with the lock dropped.            *)
SetupCall ==
  /\ SetupReady /\ urb[Cur].setup \in ForDriver \cup {"stall"}
  /\ ep' = [SetupTaken EXCEPT !["ep0"].already_seen = TRUE]
  /\ urb' = [urb EXCEPT ![Cur].new = FALSE]
  /\ late' = None
  /\ timer' = [timer EXCEPT !.pc = "setup"]
  /\ UNCHANGED <<urbp_list, next_frame_urbp, timer_pending, udev, req, data, nuking, nuked, Port>>

(* In setup, the driver answers with its one ep0 request (ds5_queue_ep0),  *)
(* unless the port was disabled in the meantime.                           *)
SetupAnswers(l) ==
  /\ timer.pc = "setup" /\ LockFree /\ urb[Cur].setup \in ForDriver
  /\ req["ep0_req"].own = "driver" /\ active
  /\ l <= urb[Cur].len
  /\ Queued("ep0", "ep0_req", l, l < urb[Cur].len, Cur)
  /\ timer' = [timer EXCEPT !.pc = "transfer", !.limit = 64 * 1024]
  /\ UNCHANGED <<Host, Port, nuking, nuked, late>>

(* A driver may also answer later, as long as no other setup reached it.   *)
SetupDefers ==
  /\ timer.pc = "setup" /\ LockFree /\ urb[Cur].setup \in ForDriver /\ Delayed
  /\ late' = Cur
  /\ timer' = [timer EXCEPT !.pc = "transfer", !.limit = 64 * 1024]
  /\ UNCHANGED <<Host, Port, ep, req, data, nuking, nuked>>

LateAnswer(l) ==
  /\ LockFree /\ late # None /\ late' = None
  /\ req["ep0_req"].own = "driver" /\ active
  /\ Queued("ep0", "ep0_req", l, FALSE, late)
  /\ UNCHANGED <<Host, Port, timer, nuking, nuked>>

SetupFails ==
  /\ timer.pc = "setup" /\ LockFree
  /\ urb[Cur].setup \in ForDriver => ~active \/ req["ep0_req"].own # "driver"
  /\ Return(Cur, "pipe", ep' = Forgotten("ep0"))
  /\ UNCHANGED <<next_frame_urbp, timer_pending, udev, req, data, nuking, nuked, Port, late>>

(* periodic_bytes, at high speed, with one transaction per microframe.     *)
PeriodicBytes == MaxPacket + 8 * MaxPacket
Limit(e) ==
  IF Interrupt /\ e # "ep0" /\ timer.total < PeriodicBytes THEN PeriodicBytes ELSE timer.total

(* Data stages, interrupt and bulk urbs.                                   *)
TransferBegins ==
  /\ Fresh /\ ~SetupStage /\ ~ep[CurEp].halted
  /\ ep' = [ep EXCEPT ![CurEp].already_seen = TRUE]
  /\ timer' = [timer EXCEPT !.pc = "transfer", !.limit = Limit(CurEp)]
  /\ UNCHANGED <<Host, req, data, nuking, nuked, Port, late>>

Less(a, b) == IF a < b THEN a ELSE b
ToHost(u) ==
  urb[u].ep = "in" \/ (urb[u].ep = "ep0" /\ urb[u].len > 0 /\ urb[u].setup # "driver_out")

(* Mutant: the last packet of a longer request is taken as a full one.     *)
Chunk_NoOverflow(u, r, limit) ==
  LET host_len == urb[u].len - urb[u].actual
      dev_len == req[r].len - req[r].actual
      len == Less(Less(host_len, dev_len), limit)
  IN  [len |-> len, req_status |-> "ok", urb_status |-> "ok"]

(* One turn of transfer's loop for the first request: how much is moved,   *)
(* and which side it completes.  A short packet ends both.  If neither is  *)
(* complete, the rest of a last packet or a zero packet is left for the    *)
(* next turn, or the frame's limit is used up, and then nothing moves of   *)
(* the requests that follow either.                                        *)
Chunk(u, r, limit) ==
  LET host_len == urb[u].len - urb[u].actual
      dev_len == req[r].len - req[r].actual
      least == Less(host_len, dev_len)
      some == Less(least, limit)
      full == some >= MaxPacket
      len == IF full THEN some - (some % MaxPacket) ELSE some
      short == least = 0 \/ ~full
      req_ends == dev_len = len
      urb_ends == host_len = len
      req_zero == req[r].zero /\ ToHost(u)
  IN  [len |-> len,
       req_status |-> IF short THEN (IF ~ToHost(u) /\ host_len > dev_len THEN "overflow" ELSE "ok")
                      ELSE IF req_ends /\ ~req_zero THEN "ok" ELSE None,
       urb_status |-> IF short THEN (IF ToHost(u) /\ dev_len > host_len THEN "overflow" ELSE "ok")
                      ELSE IF urb_ends /\ (ToHost(u) \/ ~ZeroPacket) THEN "ok" ELSE None]

Blocked(u, r, limit) ==
  LET least == Less(urb[u].len - urb[u].actual, req[r].len - req[r].actual)
  IN  least > 0 /\ ((limit < MaxPacket /\ limit < least) \/ limit = 0)

(* After the data has moved: return the urb, go on, or leave it for the    *)
(* next frame.                                                             *)
Moved(u, c, took) ==
  [urb EXCEPT ![u].actual = @ + c.len, ![u].took = @ \cup took,
              ![u].cut = @ \/ c.req_status = "overflow",
              ![u].status = c.urb_status]

TransferMoves ==
  /\ timer.pc = "transfer" /\ ep[CurEp].queue # <<>> /\ urb[Cur].status = None
  /\ LET u == Cur
         r == Head(ep[CurEp].queue)
         c == Chunk(u, r, timer.limit)
         grown == [req EXCEPT ![r].actual = @ + c.len]
         d == IF req[r].n = 0 THEN data ELSE [data EXCEPT ![req[r].n].got = @ + c.len]
         took == IF c.len > 0 THEN {req[r].for} ELSE {}
     IN  /\ ~Blocked(u, r, timer.limit)
         /\ urb' = Moved(u, c, took)
         /\ IF c.req_status = None
            THEN /\ req' = grown /\ data' = d /\ UNCHANGED ep
                 /\ timer' = [timer EXCEPT !.limit = @ - c.len, !.total = @ - c.len]
            ELSE /\ ep' = [ep EXCEPT ![CurEp].queue = Tail(@)]
                 /\ req' = Taken(r)
                 /\ data' = Fate(d, r, c.req_status, c.urb_status = "overflow")
                 /\ timer' = [timer EXCEPT !.pc = "request", !.limit = @ - c.len, !.total = @ - c.len,
                                           !.then = r]
  /\ UNCHANGED <<urbp_list, next_frame_urbp, timer_pending, udev, nuking, nuked, Port, late>>

RequestGiven ==
  /\ timer.pc = "request" /\ (\A k \in Nukers : Away(k))
  /\ req' = Given(timer.then)
  /\ timer' = [timer EXCEPT !.pc = "transfer", !.then = None]
  /\ UNCHANGED <<Host, Port, ep, data, nuking, nuked, late>>

(* transfer returns: nothing queued, no bandwidth left, or the urb is done. *)
TransferEnds ==
  /\ timer.pc = "transfer"
  /\ LET u == Cur IN
     \/ /\ urb[u].status # None
        /\ Return(u, urb[u].status, ep' = Forgotten(CurEp))
     \/ /\ urb[u].status = None
        /\ ep[CurEp].queue # <<>> => Blocked(u, Head(ep[CurEp].queue), timer.limit)
        /\ timer' = [timer EXCEPT !.pc = "scan", !.at = @ + 1, !.limit = 0]
        /\ UNCHANGED <<ep, urb, urbp_list>>
  /\ UNCHANGED <<next_frame_urbp, timer_pending, udev, req, data, nuking, nuked, Port, late>>

(* usb_hcd_giveback_urb returns, and the scan starts again.                *)
UrbGiven ==
  /\ timer.pc = "urb" /\ (\A k \in Nukers : Away(k))
  /\ urb' = [u \in Urbs |-> IF urb[u].state = "giving" THEN FreeUrb ELSE urb[u]]
  /\ timer' = [timer EXCEPT !.pc = "scan", !.then = None]
  /\ UNCHANGED <<urbp_list, next_frame_urbp, timer_pending, udev, GadgetSide, Port>>

Timer ==
  \/ TimerFires \/ FrameEnds \/ SkipUrb \/ ReturnUnlinked \/ ReturnNoEndpoint \/ ReturnHalted
  \/ GiveStale \/ StaleGiven \/ ControlHandled \/ SetupCall \/ SetupFails \/ SetupDefers
  \/ \E l \in ReqLengths \cup {0} : SetupAnswers(l)
  \/ TransferBegins \/ TransferMoves \/ RequestGiven \/ TransferEnds \/ UrbGiven

Nuke == \E k \in Nukers : NukeGiven(k) \/ \E e \in Eps : NukeTake(k, e)

Next ==
  \/ Timer \/ Nuke
  \/ Disconnect \/ Connect \/ RootHubSuspends \/ RootHubResumes
  \/ \E e \in Eps :
       \/ Enable(e) \/ Disable(e)
       \/ \E value, wedged \in BOOLEAN : SetHalt(e, value, wedged)
       \/ \E r \in Reqs : Dequeue(e, r) \/ \E l \in ReqLengths : Queue(e, r, l) \/ QueueCheck(e, r, l)
       \/ \E u \in Urbs, l \in UrbLengths \cup {0}, s \in Setups \cup {None} :
            /\ (l = 0 => e = "ep0")
            /\ UrbEnqueue(u, e, l, s)
  \/ \E r \in Reqs : QueueAdd(r)
  \/ \E l \in ReqLengths \cup {0} : LateAnswer(l)
  \/ \E u \in Urbs : UrbDequeue(u)

(* The hrtimer fires, and the callbacks it makes return.                   *)
Fairness == WF_vars(Timer) /\ WF_vars(Nuke)

Spec == Init /\ [][Next]_vars
FairSpec == Spec /\ Fairness

-----------------------------------------------------------------------------
QueuedAt(r) == UNION {{<<e, i>> : i \in {j \in DOMAIN ep[e].queue : ep[e].queue[j] = r}} : e \in DOMAIN ep}

(* A request is the driver's, or the controller's, once: whoever takes it  *)
(* out of a queue (transfer, the nukes of a disconnection and of a disable *)
(* that overlap, dequeue, the stale check of ep0) with the lock dropped in *)
(* between, it is in one queue exactly as long as it is queued, and one    *)
(* callback gives it back.                                                 *)
RequestOnce ==
  /\ \A r \in DOMAIN req : IF req[r].own = "queued" THEN \E p \in QueuedAt(r) : QueuedAt(r) = {p}
                          ELSE QueuedAt(r) = {}
  /\ \A r \in DOMAIN req \ {"fifo"} : req[r].own = "giving" <=> (timer.then = r \/ \E k \in DOMAIN nuked : nuked[k] = r)
  /\ \A k \in DOMAIN nuked : nuked[k] \notin {None, "fifo"} =>
       timer.then # nuked[k] /\ \A j \in DOMAIN nuked \ {k} : nuked[j] # nuked[k]

(* The host gets what the gadget queued on "in" in order, each byte once,  *)
(* and nothing is lost without one side being told of it: the fifo that    *)
(* answers early keeps its place, a request longer than the urb ends in an *)
(* overflow, and when the endpoint goes away the driver is told by its     *)
(* requests, the host, of the report in the fifo (whose request was given  *)
(* back as sent), by the going away; an urb that ends well on "out" has    *)
(* given all its bytes or the gadget's request ended in an overflow; and   *)
(* the data of a control transfer comes from the answer to its own setup,  *)
(* never from that to an earlier one which the host gave up.               *)
InOrder ==
  /\ \A n \in DOMAIN data : data[n].fate # "lost"
  /\ \A n \in DOMAIN data : data[n].got > 0 => \A m \in 1 .. n - 1 : data[m].fate # "pending"
  /\ \A u \in DOMAIN urb :
       urb[u].ep = "out" /\ urb[u].status = "ok" /\ urb[u].actual < urb[u].len => urb[u].cut
  /\ \A u \in DOMAIN urb : urb[u].ep = "ep0" => urb[u].took \subseteq {u}

(* An unlinked urb is given back, and so are the urbs of a device that is  *)
(* gone, while the root hub runs ("The timer is left running so that       *)
(* outstanding URBs can fail", stop_activity).                             *)
NotOutstanding(u) == urb[u].state # "listed" \/ active \/ ~running

UrbsComeBack == \A u \in Urbs : []<>~urb[u].unlinked /\ []<>NotOutstanding(u)

=============================================================================
