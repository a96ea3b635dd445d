--------------------------- MODULE OutputFeedback ---------------------------
(***************************************************************************)
(* The way back, from the host to the client of one active controller:     *)
(* output and feature reports arrive in VHF callbacks at the game's rate,  *)
(* the client collects them with poll_feedback at its own.  In between,    *)
(* driver.cpp keeps, under state_lock,                                     *)
(*   - one coalesced event for actuator state (rumble, lights, triggers);  *)
(*   - for a Steam Controller, a bounded queue of haptic effects that      *)
(*     keeps every pending stop (steam_haptic_queue.h), and a bounded      *)
(*     queue of settings writes cut into chunks.                           *)
(* A ring with head and count is a sequence here, oldest first.  The       *)
(* controller has no force feedback: that of one which has (force_feedback *)
(* in evt_vhf_write_report), and how its rumble shares the event with      *)
(* generic output reports, is in PidEngine.                                *)
(***************************************************************************)
EXTENDS Integers, Sequences, FiniteSets

CONSTANTS Actuators,         \* haptic family and actuator mask: a stop key
          HapticCapacity,    \* k_haptic_queue_capacity
          SettingsCapacity,  \* k_settings_queue_capacity
          ChunksPerWrite,    \* k_settings_events_per_write
          Fields,            \* independently enabled fields of an output report
          MaxWrites          \* bound on the reports the host writes

(* static_assert(Capacity >= 8), for seven stop keys: one place is always  *)
(* left for, or taken by, an ordinary effect.                              *)
ASSUME HapticAssumption ==
  /\ IsFiniteSet(Actuators)
  /\ HapticCapacity \in Nat
  /\ Cardinality(Actuators) < HapticCapacity

ASSUME SettingsAssumption ==
  /\ SettingsCapacity \in Nat /\ ChunksPerWrite \in Nat \ {0}
  /\ ChunksPerWrite <= SettingsCapacity

ASSUME WritesAssumption == MaxWrites \in Nat

Profiles == {"steam", "playstation", "other"}
Haptic == [actuator : Actuators, stop : BOOLEAN, n : Nat]

VARIABLES
  profile,               \* slot.selected_profile
  haptics,               \* slot.haptic_queue
  haptic_evicted,
  settings,              \* slot.settings_queue: numbers of the chunks
  settings_evicted,
  playstation_feedback,  \* slot.playstation_feedback: per field, the write that set it
  feedback,              \* slot.feedback
  feedback_pending,
  writes,                \* reports the host has written
  host,                  \* what the host has asked for
  client                 \* what the client has been told

feedback_vars == <<profile, haptics, haptic_evicted, settings, settings_evicted,
          playstation_feedback, feedback, feedback_pending, writes, host, client>>

(* One side's account: the fields it knows, the last haptic event of each  *)
(* actuator, how many ordinary effects and settings chunks it has handled, *)
(* and, for the host, the first chunk of its newest settings write.        *)
Account ==
  [fields : [Fields -> Nat], haptic : [Actuators -> Haptic],
   effects : Nat, last : Nat, chunks : Nat, chunk : Nat]

Nothing ==
  [fields  |-> [f \in Fields |-> 0],
   haptic  |-> [a \in Actuators |-> [actuator |-> a, stop |-> TRUE, n |-> 0]],
   effects |-> 0, last |-> 0, chunks |-> 0, chunk |-> 0]

FeedbackTypeOK ==
  /\ profile \in Profiles
  /\ haptics \in Seq(Haptic) /\ Len(haptics) <= HapticCapacity
  /\ haptic_evicted \in Nat
  /\ settings \in Seq(Nat) /\ Len(settings) <= SettingsCapacity
  /\ settings_evicted \in Nat
  /\ playstation_feedback \in [Fields -> Nat]
  /\ feedback \in [Fields -> Nat]
  /\ feedback_pending \in BOOLEAN
  /\ writes \in Nat
  /\ host \in Account
  /\ client \in Account

FeedbackInit ==
  /\ profile \in Profiles
  /\ haptics = <<>> /\ haptic_evicted = 0
  /\ settings = <<>> /\ settings_evicted = 0
  /\ playstation_feedback = [f \in Fields |-> 0]
  /\ feedback = [f \in Fields |-> 0]
  /\ feedback_pending = FALSE
  /\ writes = 0
  /\ host = Nothing /\ client = Nothing

-----------------------------------------------------------------------------
(* enqueue_haptic.  Positions of the queue that hold a stop of a, and of   *)
(* those that hold an ordinary effect (haptic_stop_key = 0).               *)
StopsOf(q, a) == {i \in DOMAIN q : q[i].stop /\ q[i].actuator = a}
Ordinary(q) == {i \in DOMAIN q : ~q[i].stop}

First(S) == CHOOSE i \in S : \A j \in S : i <= j

(* Mutant: a full queue gives up its oldest entry, a stop or not.          *)
Victim_Oldest(q, e) ==
  IF e.stop /\ StopsOf(q, e.actuator) # {} THEN First(StopsOf(q, e.actuator))
  ELSE IF Len(q) = HapticCapacity THEN 1
  ELSE 0

(* An equivalent stop gives way to the newer one; otherwise a full queue   *)
(* gives up its oldest ordinary effect.  0: nobody has to go.              *)
Victim(q, e) ==
  IF e.stop /\ StopsOf(q, e.actuator) # {} THEN First(StopsOf(q, e.actuator))
  ELSE IF Len(q) = HapticCapacity /\ Ordinary(q) # {} THEN First(Ordinary(q))
  ELSE 0

Refuses(q, e) == Len(q) = HapticCapacity /\ Victim(q, e) = 0

Evicts(q, e) == Victim(q, e) # 0 /\ ~q[Victim(q, e)].stop

Without(q, v) == [i \in 1 .. Len(q) - 1 |-> IF i < v THEN q[i] ELSE q[i + 1]]

(* Mutant: a newer stop takes the place of the older one.                  *)
EnqueueHaptic_InPlace(q, e) ==
  IF Refuses(q, e) THEN q
  ELSE IF Victim(q, e) # 0 /\ e.stop THEN [q EXCEPT ![Victim(q, e)] = e]
  ELSE Append(IF Victim(q, e) = 0 THEN q ELSE Without(q, Victim(q, e)), e)

EnqueueHaptic(q, e) ==
  IF Refuses(q, e) THEN q
  ELSE Append(IF Victim(q, e) = 0 THEN q ELSE Without(q, Victim(q, e)), e)

(* evt_vhf_write_report of a Steam Controller.                             *)
HapticWrite(a, stop) ==
  LET e == [actuator |-> a, stop |-> stop, n |-> writes + 1] IN
  /\ profile = "steam"
  /\ writes < MaxWrites
  /\ writes' = writes + 1
  /\ haptics' = EnqueueHaptic(haptics, e)
  /\ haptic_evicted' = haptic_evicted + (IF Evicts(haptics, e) THEN 1 ELSE 0)
  /\ host' = [host EXCEPT !.haptic[a] = e, !.effects = @ + (IF stop THEN 0 ELSE 1)]
  /\ UNCHANGED <<profile, settings, settings_evicted, playstation_feedback,
                 feedback, feedback_pending, client>>

(* Mutant: a full ring refuses the newest.                                 *)
EnqueueSettings_RefusesNewest(q, first, n) ==
  LET all == [i \in 1 .. Len(q) + n |-> IF i <= Len(q) THEN q[i] ELSE first + i - Len(q) - 1]
  IN  IF Len(all) <= SettingsCapacity THEN all ELSE SubSeq(all, 1, SettingsCapacity)

(* enqueue_settings for n chunks in a row: the newest SettingsCapacity of  *)
(* all chunks stay.                                                        *)
EnqueueSettings(q, first, n) ==
  LET all == [i \in 1 .. Len(q) + n |-> IF i <= Len(q) THEN q[i] ELSE first + i - Len(q) - 1]
  IN  IF Len(all) <= SettingsCapacity THEN all
      ELSE SubSeq(all, Len(all) - SettingsCapacity + 1, Len(all))

(* apply_sc26_settings: how many chunks a settings write that the driver   *)
(* forwards is cut into; any other feature write changes no queue.         *)
ChunkCounts == 1 .. ChunksPerWrite

(* evt_vhf_set_feature of a Steam Controller, with a write of n chunks.    *)
SettingsWrite(n) ==
  /\ profile = "steam"
  /\ writes < MaxWrites
  /\ writes' = writes + 1
  /\ settings' = EnqueueSettings(settings, host.chunks + 1, n)
  /\ settings_evicted' = settings_evicted + Len(settings) + n - Len(settings')
  /\ host' = [host EXCEPT !.chunks = @ + n, !.chunk = host.chunks + 1]
  /\ UNCHANGED <<profile, haptics, haptic_evicted, playstation_feedback,
                 feedback, feedback_pending, client>>

(* Mutant: fields that are not enabled are cleared.                        *)
Apply_Clears(old, S, n) == [f \in Fields |-> IF f \in S THEN n ELSE 0]

(* apply_ds4_output, apply_ds5_output: only the enabled fields change.     *)
Apply(old, S, n) == [f \in Fields |-> IF f \in S THEN n ELSE old[f]]

(* evt_vhf_write_report of a PlayStation pad: a report enabling S.         *)
PlaystationWrite(S) ==
  /\ profile = "playstation"
  /\ writes < MaxWrites
  /\ writes' = writes + 1
  /\ playstation_feedback' = Apply(playstation_feedback, S, writes + 1)
  /\ feedback' = playstation_feedback'
  /\ feedback_pending' = TRUE
  /\ host' = [host EXCEPT !.fields = [f \in Fields |-> IF f \in S THEN writes + 1 ELSE @[f]]]
  /\ UNCHANGED <<profile, haptics, haptic_evicted, settings, settings_evicted, client>>

(* evt_vhf_write_report of an Xbox, Switch or generic pad: every report    *)
(* carries all there is.                                                   *)
WholeWrite ==
  /\ profile = "other"
  /\ writes < MaxWrites
  /\ writes' = writes + 1
  /\ feedback' = [f \in Fields |-> writes + 1]
  /\ feedback_pending' = TRUE
  /\ host' = [host EXCEPT !.fields = [f \in Fields |-> writes + 1]]
  /\ UNCHANGED <<profile, haptics, haptic_evicted, settings, settings_evicted,
                 playstation_feedback, client>>

-----------------------------------------------------------------------------
(* poll_feedback: settings first, then haptics, then the coalesced event.  *)
PollSettings ==
  /\ settings # <<>>
  /\ settings' = Tail(settings)
  /\ client' = [client EXCEPT !.chunks = @ + 1, !.chunk = Head(settings)]
  /\ UNCHANGED <<haptics, feedback_pending>>

PollHaptic ==
  /\ settings = <<>> /\ haptics # <<>>
  /\ haptics' = Tail(haptics)
  /\ LET e == Head(haptics)
     IN  client' = [client EXCEPT !.haptic[e.actuator] = e, !.last = e.n,
                                  !.effects = @ + (IF e.stop THEN 0 ELSE 1)]
  /\ UNCHANGED <<settings, feedback_pending>>

PollCoalesced ==
  /\ settings = <<>> /\ haptics = <<>> /\ feedback_pending
  /\ feedback_pending' = FALSE
  /\ client' = [client EXCEPT !.fields = feedback]
  /\ UNCHANGED <<settings, haptics>>

poll_feedback ==
  /\ PollSettings \/ PollHaptic \/ PollCoalesced
  /\ UNCHANGED <<profile, haptic_evicted, settings_evicted, playstation_feedback,
                 feedback, writes, host>>

FeedbackNext ==
  \/ \E a \in Actuators, stop \in BOOLEAN : HapticWrite(a, stop)
  \/ \E n \in ChunkCounts : SettingsWrite(n)
  \/ \E S \in SUBSET Fields : PlaystationWrite(S)
  \/ WholeWrite
  \/ poll_feedback

FeedbackSpec == FeedbackInit /\ [][FeedbackNext]_feedback_vars

-----------------------------------------------------------------------------
(* A stop is never lost: as long as the host's last word on an actuator is *)
(* a stop, that stop is still queued or the client has it as its last word *)
(* too, however many effects overflowed the queue in between               *)
(* (enqueue_haptic evicts ordinary effects only, and cannot refuse).       *)
StopNeverLost ==
  \A a \in Actuators :
    host.haptic[a].stop =>
      \/ client.haptic[a] = host.haptic[a]
      \/ \E i \in DOMAIN haptics : haptics[i] = host.haptic[a]

(* Haptic events are played in the order they were written (coalescing a   *)
(* stop moves it behind the effects it ends and never ahead of them), and  *)
(* every ordinary effect was read by the client, is waiting, or is counted *)
(* in haptic_evicted, which ioctl_query_info reports.                      *)
HapticsExact ==
  /\ \A i, j \in DOMAIN haptics : i < j => haptics[i].n < haptics[j].n
  /\ \A i \in DOMAIN haptics : client.last < haptics[i].n
  /\ host.effects = client.effects + haptic_evicted
                      + Cardinality({haptics[i] : i \in Ordinary(haptics)})

(* Settings chunks arrive in order, each one read, waiting or counted in   *)
(* settings_evicted, and the newest write is never torn: until the client  *)
(* has begun to read it, all of its chunks are waiting.                    *)
SettingsExact ==
  /\ host.chunks = client.chunks + Len(settings) + settings_evicted
  /\ \A i \in DOMAIN settings : settings[i] = host.chunks - Len(settings) + i
  /\ client.chunk < host.chunk =>
       \A c \in host.chunk .. host.chunks : \E i \in DOMAIN settings : settings[i] = c

(* Coalescing never drops a field: when nothing is pending, the client     *)
(* knows for each actuator field the last value the host wrote to it.      *)
CoalescedExact == ~feedback_pending => client.fields = host.fields

=============================================================================
