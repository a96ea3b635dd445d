-------------------------------- MODULE UdcIso --------------------------------
(***************************************************************************)
(* One isochronous endpoint of the virtual USB controller: dummy_timer     *)
(* looks at it every microframe and moves one packet per interval of the   *)
(* endpoint, catching up after a delay, out of the host's urbs and into    *)
(* the gadget's requests, one packet in each (vibeshine_ds5_udc.c).  Time  *)
(* counts microframes, and is kept relative to the endpoint's schedule, so *)
(* that behaviours of any length are covered.                              *)
(***************************************************************************)
EXTENDS Integers, Sequences

CONSTANTS IsoUrbs, Packets,   \* the host's urbs, and how many packets each has
          IsoReqs,            \* how many requests the gadget has
          Interval, CatchUp   \* of the endpoint; the intervals it catches up (8)

ASSUME IsoAssumption ==
  /\ Packets \in Nat \ {0} /\ IsoReqs \in Nat /\ Interval \in Nat \ {0} /\ CatchUp \in Nat

NoUrb == "none"
Floor == -((CatchUp + 2) * Interval)   \* an endpoint later than this is treated alike
Unscheduled == Floor - 1                     \* iso_next_ns = 0

VARIABLES
  desc,            \* the endpoint is enabled
  lag,             \* iso_next_ns - now, or Fresh
  iso_urbp_list,
  iso_urb,             \* iso_packet, unlinked, state
  iso_next_frame_urbp, iso_timer_pending,
  iso_timer,           \* dummy_timer: pc, at (position in the list), seen (already_seen)
  queued,          \* requests on the endpoint
  ahead            \* most packets sent in some time up to now, beyond what the clock had for it

iso_vars == <<desc, lag, iso_urbp_list, iso_urb, iso_next_frame_urbp, iso_timer_pending, iso_timer, queued, ahead>>

FreeIsoUrb == [iso_packet |-> 0, unlinked |-> FALSE, state |-> "free"]
IdleTimer == [pc |-> "idle", at |-> 1, seen |-> FALSE]
Behind == lag # Unscheduled /\ lag < -(CatchUp * Interval)

(* A packet that does not exist is never sent: iso_packet indexes the      *)
(* urb's array of descriptors.                                             *)
IsoTypeOK ==
  /\ desc \in BOOLEAN /\ lag \in Unscheduled .. Interval
  /\ \A u \in IsoUrbs : iso_urb[u].iso_packet \in 0 .. Packets
  /\ \A i \in DOMAIN iso_urbp_list : iso_urbp_list[i] \in IsoUrbs
  /\ iso_next_frame_urbp \in IsoUrbs \cup {NoUrb} /\ iso_timer_pending \in BOOLEAN
  /\ queued \in 0 .. IsoReqs

IsoInit ==
  /\ desc = FALSE /\ lag = Unscheduled /\ iso_urbp_list = <<>> /\ iso_urb = [u \in IsoUrbs |-> FreeIsoUrb]
  /\ iso_next_frame_urbp = NoUrb /\ iso_timer_pending = FALSE /\ iso_timer = IdleTimer
  /\ queued = 0 /\ ahead = 0

(* The timer has dum->lock except around a callback.                       *)
IsoLockFree == iso_timer.pc \in {"idle", "request", "urb"}
InCallback == IF iso_timer.pc = "request" THEN 1 ELSE 0

-----------------------------------------------------------------------------
(* dummy_enable, dummy_disable (the requests come back) and dummy_queue.   *)
IsoEnable ==
  /\ IsoLockFree /\ ~desc
  /\ desc' = TRUE /\ lag' = Unscheduled /\ ahead' = 0
  /\ UNCHANGED <<iso_urbp_list, iso_urb, iso_next_frame_urbp, iso_timer_pending, iso_timer, queued>>

IsoDisable ==
  /\ IsoLockFree /\ desc
  /\ desc' = FALSE /\ queued' = 0
  /\ UNCHANGED <<lag, iso_urbp_list, iso_urb, iso_next_frame_urbp, iso_timer_pending, iso_timer, ahead>>

IsoQueue ==
  /\ IsoLockFree /\ desc /\ queued + InCallback < IsoReqs
  /\ queued' = queued + 1
  /\ UNCHANGED <<desc, lag, iso_urbp_list, iso_urb, iso_next_frame_urbp, iso_timer_pending, iso_timer, ahead>>

IsoUrbEnqueue(u) ==
  /\ IsoLockFree /\ iso_urb[u].state = "free"
  /\ iso_urbp_list' = Append(iso_urbp_list, u)
  /\ iso_urb' = [iso_urb EXCEPT ![u] = [FreeIsoUrb EXCEPT !.state = "listed"]]
  /\ iso_next_frame_urbp' = IF iso_next_frame_urbp = NoUrb THEN u ELSE iso_next_frame_urbp
  /\ iso_timer_pending' = TRUE
  /\ UNCHANGED <<desc, lag, iso_timer, queued, ahead>>

IsoUrbDequeue(u) ==
  /\ IsoLockFree /\ iso_urb[u].state = "listed" /\ ~iso_urb[u].unlinked
  /\ iso_urb' = [iso_urb EXCEPT ![u].unlinked = TRUE]
  /\ iso_timer_pending' = TRUE
  /\ UNCHANGED <<desc, lag, iso_urbp_list, iso_next_frame_urbp, iso_timer, queued, ahead>>

(* A microframe goes by.                                                   *)
TimePasses ==
  /\ lag' = IF lag \in {Unscheduled, Floor} THEN lag ELSE lag - 1
  /\ ahead' = IF ahead = 0 THEN 0 ELSE ahead - 1
  /\ UNCHANGED <<desc, iso_urbp_list, iso_urb, iso_next_frame_urbp, iso_timer_pending, iso_timer, queued>>

-----------------------------------------------------------------------------
(* dummy_timer.                                                            *)
IsoTimerFires ==
  /\ iso_timer.pc = "idle" /\ iso_timer_pending
  /\ iso_timer_pending' = FALSE /\ iso_next_frame_urbp' = NoUrb
  /\ iso_timer' = [IdleTimer EXCEPT !.pc = "scan"]
  /\ UNCHANGED <<desc, lag, iso_urbp_list, iso_urb, queued, ahead>>

IsoAtEnd == iso_timer.at \in DOMAIN iso_urbp_list => iso_urbp_list[iso_timer.at] = iso_next_frame_urbp
IsoCur == iso_urbp_list[iso_timer.at]
IsoScanning == iso_timer.pc = "scan" /\ ~IsoAtEnd

IsoFrameEnds ==
  /\ iso_timer.pc = "scan" /\ IsoAtEnd
  /\ iso_timer_pending' = (iso_timer_pending \/ iso_urbp_list # <<>>)
  /\ iso_timer' = IdleTimer
  /\ UNCHANGED <<desc, lag, iso_urbp_list, iso_urb, iso_next_frame_urbp, queued, ahead>>

(* The endpoint was served in this frame, or is not due.                   *)
IsoSkipUrb ==
  /\ IsoScanning /\ ~iso_urb[IsoCur].unlinked /\ desc
  /\ iso_timer.seen \/ lag > 0
  /\ iso_timer' = [iso_timer EXCEPT !.at = @ + 1, !.seen = TRUE]
  /\ UNCHANGED <<desc, lag, iso_urbp_list, iso_urb, iso_next_frame_urbp, iso_timer_pending, queued, ahead>>

(* Mutant: a delay is caught up whole.                                     *)
Due_Unreset == IF lag = Unscheduled THEN Interval ELSE lag + Interval

(* The schedule after a packet: it starts anew when there is none, or when *)
(* the endpoint is too far behind it.                                      *)
Due == IF lag = Unscheduled \/ Behind THEN Interval ELSE lag + Interval

(* One packet, into the first request if there is one; without, the packet *)
(* ends with -ENOSR.                                                       *)
Packet ==
  /\ IsoScanning /\ ~iso_urb[IsoCur].unlinked /\ desc /\ ~iso_timer.seen
  /\ lag <= 0
  /\ lag' = Due /\ ahead' = ahead + Interval
  /\ iso_urb' = [iso_urb EXCEPT ![IsoCur].iso_packet = @ + 1]
  /\ queued' = IF queued > 0 THEN queued - 1 ELSE 0
  /\ iso_timer' = [iso_timer EXCEPT !.seen = TRUE, !.pc = IF queued > 0 THEN "request" ELSE "sent"]
  /\ UNCHANGED <<desc, iso_urbp_list, iso_next_frame_urbp, iso_timer_pending>>

(* The gadget's completion, which may queue the request again.             *)
IsoRequestGiven(again) ==
  /\ iso_timer.pc = "request" /\ (again => desc)
  /\ queued' = IF again THEN queued + 1 ELSE queued
  /\ iso_timer' = [iso_timer EXCEPT !.pc = "sent"]
  /\ UNCHANGED <<desc, lag, iso_urbp_list, iso_urb, iso_next_frame_urbp, iso_timer_pending, ahead>>

(* return_urb; already_seen is cleared when the endpoint had been looked up. *)
GiveBack(seen) ==
  /\ iso_urbp_list' = [i \in 1 .. Len(iso_urbp_list) - 1 |-> iso_urbp_list[IF i < iso_timer.at THEN i ELSE i + 1]]
  /\ iso_urb' = [iso_urb EXCEPT ![IsoCur].state = "giving"]
  /\ iso_timer' = [iso_timer EXCEPT !.pc = "urb", !.seen = seen]

(* The last packet ends the urb.                                           *)
Sent ==
  /\ iso_timer.pc = "sent"
  /\ \/ iso_urb[IsoCur].iso_packet = Packets /\ GiveBack(FALSE)
     \/ /\ iso_urb[IsoCur].iso_packet # Packets
        /\ iso_timer' = [iso_timer EXCEPT !.pc = "scan", !.at = @ + 1] /\ UNCHANGED <<iso_urbp_list, iso_urb>>
  /\ UNCHANGED <<desc, lag, iso_next_frame_urbp, iso_timer_pending, queued, ahead>>

(* An urb that is unlinked, or whose endpoint is gone.                     *)
ReturnUrb ==
  /\ IsoScanning /\ (iso_urb[IsoCur].unlinked \/ ~desc)
  /\ GiveBack(iso_timer.seen)
  /\ UNCHANGED <<desc, lag, iso_next_frame_urbp, iso_timer_pending, queued, ahead>>

(* usb_hcd_giveback_urb returns; the scan starts again.                    *)
IsoUrbGiven(u) ==
  /\ iso_timer.pc = "urb" /\ iso_urb[u].state = "giving"
  /\ iso_urb' = [iso_urb EXCEPT ![u] = FreeIsoUrb]
  /\ iso_timer' = [iso_timer EXCEPT !.pc = "scan", !.at = 1]
  /\ UNCHANGED <<desc, lag, iso_urbp_list, iso_next_frame_urbp, iso_timer_pending, queued, ahead>>

IsoTimer ==
  \/ IsoTimerFires \/ IsoFrameEnds \/ IsoSkipUrb \/ Packet \/ Sent \/ ReturnUrb
  \/ \E again \in BOOLEAN : IsoRequestGiven(again)
  \/ \E u \in IsoUrbs : IsoUrbGiven(u)

IsoNext ==
  \/ IsoTimer \/ TimePasses \/ IsoEnable \/ IsoDisable \/ IsoQueue
  \/ \E u \in IsoUrbs : IsoUrbEnqueue(u) \/ IsoUrbDequeue(u)

(* The hrtimer fires, its callbacks return, and time goes on.              *)
IsoFairness == WF_iso_vars(IsoTimer) /\ WF_iso_vars(TimePasses)

IsoSpec == IsoInit /\ [][IsoNext]_iso_vars
IsoFairSpec == IsoSpec /\ IsoFairness

-----------------------------------------------------------------------------
(* "One USB packet per endpoint interval, not an entire URB every 125-us   *)
(* scheduler tick" (dummy_timer): in no stretch of time, however late the  *)
(* timer and however often the scan restarts, are more packets sent than   *)
(* the clock has intervals, but for what the endpoint may catch up.        *)
Paced == ahead <= (CatchUp + 1) * Interval

(* Packets go in the order of the host's urbs: no urb is begun while one   *)
(* before it has packets left, unless that one is being unlinked.          *)
OrderKept ==
  \A i, j \in DOMAIN iso_urbp_list : i < j /\ iso_urb[iso_urbp_list[j]].iso_packet > 0 =>
    iso_urb[iso_urbp_list[i]].unlinked \/ iso_urb[iso_urbp_list[i]].iso_packet = Packets

(* What the host's audio clock relies on: packets go one an interval, and  *)
(* in its order.                                                           *)
PacketsInTurn == Paced /\ OrderKept

(* An urb comes back, whether or not the gadget has requests for it.       *)
UrbsReturned == \A u \in IsoUrbs : []<>(iso_urb[u].state = "free")

=============================================================================
