--------------------------- MODULE ReportDelivery ---------------------------
(***************************************************************************)
(* How driver.cpp moves input reports of one started controller from the   *)
(* client to the host: the IOCTL handlers, the VHF callbacks and the Steam *)
(* keep-alive worker all enqueue into one report_pump and whoever finds    *)
(* VHF ready takes the next report and hands it to VHF.                    *)
(*                                                                         *)
(* One action is one hold of state_lock, or one call made outside it.      *)
(* What matters here is what may happen between two of them:               *)
(*   - PlayStation, Switch and the plain pads encode a report in one hold  *)
(*     and enqueue it in the next; the Steam Controller does both in one;  *)
(*   - a report is taken under the lock and submitted outside it;          *)
(*   - VHF keeps a pointer to the pump's buffer and reads it later.        *)
(***************************************************************************)
EXTENDS ReportPump

CONSTANTS Profile,      \* the profile of the controller
          MaxInputs,    \* bound on input states the client sends
          MaxEdges,     \* bound on discrete changes the client makes
          MaxWrites,    \* bound on output reports the host writes
          MaxFailures   \* bound on submissions VHF refuses

ASSUME ProfileAssumption == Profile \in {"playstation", "switch", "steam"}

ASSUME BoundAssumption ==
  {MaxInputs, MaxEdges, MaxWrites, MaxFailures} \subseteq Nat

(* Whoever can hold a taken report: the IOCTL queue, the two VHF callbacks *)
(* and the keep-alive worker.                                              *)
Actors == {"ioctl", "write", "ready", "worker"}

VARIABLES
  pump,        \* controller_slot::pump
  last_input,  \* number of the input state in slot.last_input, 0: none yet
  edge,        \* discrete changes made by the client so far
  encoded,     \* report the IOCTL has encoded and not enqueued yet
  queued,      \* the write callback has queued replies and not pumped yet
  taken,       \* actors between pump_report_locked and VhfReadReportSubmit
  vhf,         \* VHF's side of the read
  host_input,  \* newest input state the host has read, 0: none yet
  host_edge,   \* discrete changes visible in it
  skipped,     \* discrete changes the host never saw on their own
  failed,      \* submissions VHF refused
  writes       \* output reports written by the host

vars == <<pump, last_input, edge, encoded, queued, taken, vhf,
          host_input, host_edge, skipped, failed, writes>>
client == <<last_input, edge, encoded>>
host   == <<host_input, host_edge, skipped>>

Encoded == [report : Report, kind : Kinds]

ASSUME NoEncodedAssumption == NoReport \notin Encoded

TypeOK ==
  /\ pump \in Pump
  /\ Len(pump.priority) <= PriorityCapacity
  /\ last_input \in Nat
  /\ edge \in Nat
  /\ encoded \in Encoded \cup {NoReport}
  /\ queued \in BOOLEAN
  /\ taken \in SUBSET Actors
  /\ vhf \in {"asking", "granted", "holding"}
  /\ host_input \in Nat
  /\ host_edge \in Nat
  /\ skipped \in Nat
  /\ failed \in Nat
  /\ writes \in Nat

(* The child has just been started: nothing is readable until VHF asks.    *)
Init ==
  /\ pump = Reset
  /\ last_input = 0
  /\ edge = 0
  /\ encoded = NoReport
  /\ queued = FALSE
  /\ taken = {}
  /\ vhf = "asking"
  /\ host_input = 0
  /\ host_edge = 0
  /\ skipped = 0
  /\ failed = 0
  /\ writes = 0

-----------------------------------------------------------------------------
StateReport(n, e) == [carries |-> "state", input |-> n, edge |-> e]
OtherReport(what) == [carries |-> what, input |-> last_input, edge |-> edge]

EdgeOf(kind) == IF kind = "transition" THEN 1 ELSE 0

(* The end of pump_report_locked: take what VHF can accept now.            *)
TakeNext(actor, p) ==
  /\ pump' = Take(p)
  /\ taken' = IF CanTake(p) THEN taken \cup {actor} ELSE taken

IoctlIdle == encoded = NoReport /\ "ioctl" \notin taken
WriteIdle == ~queued /\ "write" \notin taken

(* submit_input_state of a profile that is not the Steam Controller:       *)
(* remember the input, classify and encode it, and let go of state_lock.   *)
EncodeInput(sig) ==
  /\ Profile # "steam"
  /\ IoctlIdle
  /\ last_input < MaxInputs
  /\ LET kind == Classify(pump, sig)
     IN  /\ edge + EdgeOf(kind) <= MaxEdges
         /\ edge' = edge + EdgeOf(kind)
         /\ last_input' = last_input + 1
         /\ encoded' = [report |-> StateReport(last_input', edge'), kind |-> kind]
  /\ pump' = Remember(pump, sig)
  /\ UNCHANGED <<queued, taken, vhf, host, failed, writes>>

(* submit_profile_report and submit_playstation_report: a touch, motion or *)
(* battery update rebuilds the report from slot.last_input.  Only a touch  *)
(* that begins or ends is a transition, and only PlayStation pads have one.*)
EncodeUpdate(kind) ==
  /\ Profile # "steam"
  /\ kind = "transition" => Profile = "playstation"
  /\ IoctlIdle
  /\ last_input > 0
  /\ edge + EdgeOf(kind) <= MaxEdges
  /\ edge' = edge + EdgeOf(kind)
  /\ encoded' = [report |-> StateReport(last_input, edge'), kind |-> kind]
  /\ UNCHANGED <<pump, last_input, queued, taken, vhf, host, failed, writes>>

(* submit_battery_state of a Steam Controller: the level travels as an     *)
(* aside, and only if a reader was there when the lock was held.           *)
EncodeBattery ==
  /\ Profile = "steam"
  /\ IoctlIdle
  /\ pump.ready
  /\ encoded' = [report |-> OtherReport("aside"), kind |-> "aside"]
  /\ UNCHANGED <<pump, last_input, edge, queued, taken, vhf, host, failed, writes>>

(* pump_report with the report encoded in the previous hold.               *)
PumpEncoded ==
  /\ encoded # NoReport
  /\ TakeNext("ioctl", Enqueue(pump, encoded.report, encoded.kind))
  /\ encoded' = NoReport
  /\ UNCHANGED <<last_input, edge, queued, vhf, host, failed, writes>>

(* submit_input_state of a Steam Controller: encoded and queued in one     *)
(* hold, so that a resend of the worker cannot come in between.            *)
SteamInput(sig) ==
  /\ Profile = "steam"
  /\ IoctlIdle
  /\ last_input < MaxInputs
  /\ LET kind == Classify(pump, sig)
     IN  /\ edge + EdgeOf(kind) <= MaxEdges
         /\ edge' = edge + EdgeOf(kind)
         /\ last_input' = last_input + 1
         /\ TakeNext("ioctl", Enqueue(Remember(pump, sig),
                                      StateReport(last_input', edge'), kind))
  /\ UNCHANGED <<encoded, queued, vhf, host, failed, writes>>

(* submit_profile_report of a Steam Controller, for touch and for motion   *)
(* that no worker carries.                                                 *)
SteamUpdate(kind) ==
  /\ Profile = "steam"
  /\ IoctlIdle
  /\ last_input > 0
  /\ edge + EdgeOf(kind) <= MaxEdges
  /\ edge' = edge + EdgeOf(kind)
  /\ TakeNext("ioctl", Enqueue(pump, StateReport(last_input, edge'), kind))
  /\ UNCHANGED <<last_input, encoded, queued, vhf, host, failed, writes>>

-----------------------------------------------------------------------------
(* evt_vhf_write_report of a Steam Controller: the ack of a stop pulse.    *)
SteamAck ==
  /\ Profile = "steam"
  /\ WriteIdle
  /\ writes < MaxWrites
  /\ writes' = writes + 1
  /\ TakeNext("write", Enqueue(pump, OtherReport("aside"), "aside"))
  /\ UNCHANGED <<client, queued, vhf, host, failed>>

(* Mutant: the replies are queued and never pumped.                        *)
SwitchReply_Unpumped(sets_mode) ==
  /\ Profile = "switch"
  /\ WriteIdle
  /\ writes < MaxWrites
  /\ writes' = writes + 1
  /\ pump' = Enqueue(pump, OtherReport("reply"), "priority")
  /\ UNCHANGED <<client, queued, taken, vhf, host, failed>>

(* evt_vhf_write_report of a Switch Pro: the reply goes first, followed,   *)
(* when the host sets the input mode, by a snapshot of the current state.  *)
(* Both are queued in one hold; they are pumped in the next one.           *)
SwitchReply(sets_mode) ==
  /\ Profile = "switch"
  /\ WriteIdle
  /\ writes < MaxWrites
  /\ writes' = writes + 1
  /\ LET replied == Enqueue(pump, OtherReport("reply"), "priority")
         refused == replied = pump
     IN  /\ pump' = IF sets_mode /\ ~refused
                      THEN Enqueue(replied, StateReport(last_input, edge), "continuous")
                      ELSE replied
         /\ queued' = ~refused
  /\ UNCHANGED <<client, taken, vhf, host, failed>>

SwitchPump ==
  /\ queued
  /\ queued' = FALSE
  /\ TakeNext("write", pump)
  /\ UNCHANGED <<client, vhf, host, failed, writes>>

(* Mutant: the readiness is noted and nothing is taken.                    *)
ReadyForNextReport_OnlyNoted ==
  /\ vhf = "asking"
  /\ "ready" \notin taken
  /\ vhf' = "granted"
  /\ pump' = SetReady(pump)
  /\ UNCHANGED <<client, queued, taken, host, failed, writes>>

(* evt_vhf_ready_for_next_report: VHF asks for the next report.            *)
ReadyForNextReport ==
  /\ vhf = "asking"
  /\ "ready" \notin taken
  /\ vhf' = "granted"
  /\ TakeNext("ready", SetReady(pump))
  /\ UNCHANGED <<client, queued, host, failed, writes>>

(* sc26_keepalive_tick for one controller with a reader: battery level     *)
(* and resend, each if due, then the next report.                          *)
KeepaliveTick(battery_due, resend_due) ==
  /\ Profile = "steam"
  /\ "worker" \notin taken
  /\ last_input > 0
  /\ pump.ready
  /\ battery_due \/ resend_due
  /\ LET p == IF battery_due THEN Enqueue(pump, OtherReport("aside"), "aside") ELSE pump
     IN  TakeNext("worker",
           IF resend_due THEN Enqueue(p, StateReport(last_input, edge), "continuous") ELSE p)
  /\ UNCHANGED <<client, queued, vhf, host, failed, writes>>

-----------------------------------------------------------------------------
(* Mutant: a submission that returned grants the next one.                 *)
SubmitTaken_GrantsNext(actor) ==
  /\ actor \in taken
  /\ vhf = "granted"
  /\ taken' = taken \ {actor}
  /\ vhf' = "holding"
  /\ pump' = SetReady(pump)
  /\ UNCHANGED <<client, queued, host, failed, writes>>

(* submit_taken: VhfReadReportSubmit accepts the packet and keeps it, or   *)
(* refuses it, and then the driver does not grant itself another one.      *)
SubmitTaken(actor) ==
  /\ actor \in taken
  /\ vhf = "granted"
  /\ taken' = taken \ {actor}
  /\ vhf' = "holding"
  /\ UNCHANGED <<pump, client, queued, host, failed, writes>>

SubmitRefused(actor) ==
  /\ actor \in taken
  /\ vhf = "granted"
  /\ failed < MaxFailures
  /\ taken' = taken \ {actor}
  /\ vhf' = "asking"
  /\ failed' = failed + 1
  /\ UNCHANGED <<pump, client, queued, host, writes>>

(* VHF completes the host's read from the buffer it still points to.       *)
Skips(e) == IF e > host_edge + 1 THEN e - host_edge - 1 ELSE 0

HostReads ==
  /\ vhf = "holding"
  /\ vhf' = "asking"
  /\ IF pump.in_flight.carries = "state"
       THEN /\ host_input' = pump.in_flight.input
            /\ host_edge' = pump.in_flight.edge
            /\ skipped' = skipped + Skips(pump.in_flight.edge)
       ELSE UNCHANGED host
  /\ UNCHANGED <<pump, client, queued, taken, failed, writes>>

-----------------------------------------------------------------------------
Next ==
  \/ \E sig \in Signatures : EncodeInput(sig) \/ SteamInput(sig)
  \/ \E kind \in {"continuous", "transition"} : EncodeUpdate(kind) \/ SteamUpdate(kind)
  \/ EncodeBattery
  \/ PumpEncoded
  \/ SteamAck
  \/ \E sets_mode \in BOOLEAN : SwitchReply(sets_mode)
  \/ SwitchPump
  \/ ReadyForNextReport
  \/ \E battery_due, resend_due \in BOOLEAN : KeepaliveTick(battery_due, resend_due)
  \/ \E actor \in Actors : SubmitTaken(actor) \/ SubmitRefused(actor)
  \/ HostReads

(* The host keeps reading, VHF keeps asking, and a handler that has begun  *)
(* goes on to its end.  Nothing makes the client or the host send more.    *)
Fairness ==
  /\ WF_vars(PumpEncoded)
  /\ WF_vars(SwitchPump)
  /\ WF_vars(ReadyForNextReport)
  /\ \A actor \in Actors : WF_vars(SubmitTaken(actor))
  /\ WF_vars(HostReads)

Spec == Init /\ [][Next]_vars /\ Fairness

-----------------------------------------------------------------------------
(* Every press or release the host did not get to see on its own is one    *)
(* the driver owns up to: an eviction counted by dropped_transitions(), or *)
(* a submission VHF refused.  Coalescing never swallows one.               *)
EdgesAccounted == skipped <= pump.dropped + failed

(* VHF points at the pump's in-flight buffer until it asks again, so no    *)
(* step may change it or take another report while VHF holds it.           *)
HeldBufferStable ==
  [][vhf = "holding" /\ vhf' = "holding"
       => pump'.in_flight = pump.in_flight /\ taken' = taken]_vars

(* At most one report is on its way to VHF, and only after VHF granted it: *)
(* two submitters would race for slot.read_transfer.                       *)
OneSubmission ==
  /\ \A a, b \in taken : a = b
  /\ taken # {} => vhf = "granted" /\ ~pump.ready

(* Nothing waits in a pump VHF is ready for, unless the write callback is  *)
(* just about to pump what it queued: otherwise a lone input would sit     *)
(* there until the next one pushed it out.                                 *)
NoStall == CanTake(pump) => queued

(* The delivery of reports implements the channel of StateStream: in order,*)
(* newest state wins, and no press or release is missed without an         *)
(* eviction counted in dropped_transitions() or a refused submission.      *)
Stream == INSTANCE StateStream WITH
            sent_input <- last_input, sent_edge <- edge,
            seen_input <- host_input, seen_edge <- host_edge,
            excused <- pump.dropped + failed

ImplementsStream == Stream!Spec

(* While the host keeps reading it always catches up with the client: the  *)
(* client stops after MaxInputs states, and the host then has the last one,*)
(* unless VHF refused a report.                                            *)
CatchesUp == []<>(host_input = last_input \/ failed > 0)

=============================================================================
