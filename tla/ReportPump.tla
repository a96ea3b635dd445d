----------------------------- MODULE ReportPump -----------------------------
(***************************************************************************)
(* The input report pacing of driver/src/report_pump.{h,cpp}: the class    *)
(* report_pump as a record and its methods as operators from one pump to   *)
(* the next.  The driver calls them under state_lock, often two in one     *)
(* hold of it, so they are composed inside the actions of ReportDelivery.  *)
(*                                                                         *)
(* A report_buffer is abstracted to what the properties tell apart:        *)
(*   carries  what kind of thing it says: controller state, a handshake    *)
(*            reply, or an aside (haptic ack, battery level);              *)
(*   input    the number of the client input state it was encoded from;    *)
(*   edge     the number of discrete changes (transitions) the client had  *)
(*            made when it was encoded.                                    *)
(***************************************************************************)
EXTENDS Integers, Sequences

CONSTANTS TransitionCapacity,  \* k_transition_capacity
          PriorityCapacity,    \* k_priority_capacity
          Signatures,          \* values of (buttons, left pressed, right pressed)
          NoSignature,         \* have_signature_ = false
          NoReport             \* a buffer that holds nothing

ASSUME CapacityAssumption ==
  /\ TransitionCapacity \in Nat \ {0}
  /\ PriorityCapacity \in Nat \ {0}

ASSUME NoSignatureAssumption == NoSignature \notin Signatures

Carried == {"state", "reply", "aside"}
Report == [carries : Carried, input : Nat, edge : Nat]

ASSUME NoReportAssumption == NoReport \notin Report

Kinds == {"continuous", "transition", "priority", "aside"}

Index == 0 .. TransitionCapacity - 1

(* The members of report_pump; latest # NoReport is have_latest_.          *)
Pump ==
  [ready            : BOOLEAN,
   in_flight        : Report \cup {NoReport},
   priority         : Seq(Report),
   transitions      : [Index -> Report \cup {NoReport}],
   transition_aside : [Index -> BOOLEAN],
   transition_head  : Index,
   transition_count : 0 .. TransitionCapacity,
   latest           : Report \cup {NoReport},
   dropped          : Nat,
   signature        : Signatures \cup {NoSignature}]

(* report_pump::reset, which is also the state of a freshly zeroed slot.   *)
Reset ==
  [ready            |-> FALSE,
   in_flight        |-> NoReport,
   priority         |-> <<>>,
   transitions      |-> [i \in Index |-> NoReport],
   transition_aside |-> [i \in Index |-> FALSE],
   transition_head  |-> 0,
   transition_count |-> 0,
   latest           |-> NoReport,
   dropped          |-> 0,
   signature        |-> NoSignature]

Wrap(i) == i % TransitionCapacity

(* Position in the ring of the entry that is i-th in line, from 0.         *)
At(p, i) == Wrap(p.transition_head + i)

Empty(p) == p.priority = <<>> /\ p.transition_count = 0 /\ p.latest = NoReport

-----------------------------------------------------------------------------
(* report_pump::classify: the kind of a state report, and the signature    *)
(* the pump remembers for the next one.                                    *)
Classify(p, sig) == IF sig # p.signature THEN "transition" ELSE "continuous"

Remember(p, sig) == [p EXCEPT !.signature = sig]

(* report_pump::enqueue, one operator per kind.  A priority reply that     *)
(* finds its array full is refused: the earliest replies are kept.         *)
EnqueuePriority(p, r) ==
  IF Len(p.priority) >= PriorityCapacity
    THEN p
    ELSE [p EXCEPT !.priority = Append(@, r)]

(* Mutant: the eviction is not counted.                                    *)
EvictOldest_Uncounted(p) ==
  [p EXCEPT !.transition_head  = Wrap(@ + 1),
            !.transition_count = @ - 1]

(* The ring drops its oldest entry to make room; an aside is not counted.  *)
EvictOldest(p) ==
  [p EXCEPT !.transition_head  = Wrap(@ + 1),
            !.transition_count = @ - 1,
            !.dropped = IF p.transition_aside[p.transition_head] THEN @ ELSE @ + 1]

PushBack(p, r, aside) ==
  LET tail == At(p, p.transition_count)
  IN  [p EXCEPT !.transitions[tail]      = r,
                !.transition_aside[tail] = aside,
                !.transition_count       = @ + 1]

Full(p) == p.transition_count = TransitionCapacity

EnqueueAside(p, r) == IF Full(p) THEN p ELSE PushBack(p, r, TRUE)

(* Mutant: the snapshot stays.                                             *)
EnqueueTransition_KeepsSnapshot(p, r) ==
  PushBack(IF Full(p) THEN EvictOldest(p) ELSE p, r, FALSE)

(* A transition supersedes the snapshot that was waiting before it.        *)
EnqueueTransition(p, r) ==
  LET q == [p EXCEPT !.latest = NoReport]
  IN  PushBack(IF Full(q) THEN EvictOldest(q) ELSE q, r, FALSE)

EnqueueContinuous(p, r) == [p EXCEPT !.latest = r]

Enqueue(p, r, kind) ==
  CASE kind = "priority"   -> EnqueuePriority(p, r)
    [] kind = "aside"      -> EnqueueAside(p, r)
    [] kind = "transition" -> EnqueueTransition(p, r)
    [] kind = "continuous" -> EnqueueContinuous(p, r)

-----------------------------------------------------------------------------
(* report_pump::set_ready and report_pump::take.                           *)
SetReady(p) == [p EXCEPT !.ready = TRUE]

CanTake(p) == p.ready /\ ~Empty(p)

TakePriority(p) ==
  [p EXCEPT !.in_flight = Head(p.priority),
            !.priority  = Tail(@),
            !.ready     = FALSE]

TakeOrdered(p) ==
  [p EXCEPT !.in_flight        = p.transitions[p.transition_head],
            !.transition_head  = Wrap(@ + 1),
            !.transition_count = @ - 1,
            !.ready            = FALSE]

TakeLatest(p) ==
  [p EXCEPT !.in_flight = p.latest,
            !.latest    = NoReport,
            !.ready     = FALSE]

(* Mutant: the grant of VHF is not used up.                                *)
Take_StaysReady(p) ==
  IF ~CanTake(p) THEN p
  ELSE IF p.priority # <<>> THEN SetReady(TakePriority(p))
  ELSE IF p.transition_count > 0 THEN SetReady(TakeOrdered(p))
  ELSE SetReady(TakeLatest(p))

Take(p) ==
  IF ~CanTake(p) THEN p
  ELSE IF p.priority # <<>> THEN TakePriority(p)
  ELSE IF p.transition_count > 0 THEN TakeOrdered(p)
  ELSE TakeLatest(p)

=============================================================================
