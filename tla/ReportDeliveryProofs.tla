------------------------ MODULE ReportDeliveryProofs ------------------------
(***************************************************************************)
(* Proofs about ReportDelivery, for every profile, capacity and bound:     *)
(* first what the methods of report_pump preserve, then the invariant of   *)
(* the delivery and the theorems.                                          *)
(***************************************************************************)
EXTENDS ReportDelivery, TLAPS

(* Indices stay in the ring: every head + i the pump computes wraps into it *)
(* (report_pump.cpp, the % k_transition_capacity expressions).              *)
LEMMA WrapInIndex ==
  ASSUME NEW i \in Nat
  PROVE  Wrap(i) \in Index
BY CapacityAssumption DEF Wrap, Index

(* Every method of the pump maps a well-formed pump to a well-formed pump. *)
LEMMA ResetType == Reset \in Pump /\ Reset.priority = <<>>
BY CapacityAssumption DEF Reset, Pump, Index

(* classify() storing the new signature leaves a well-formed pump.         *)
LEMMA RememberType ==
  ASSUME NEW p \in Pump, NEW sig \in Signatures
  PROVE  Remember(p, sig) \in Pump
BY DEF Remember, Pump

(* set_ready() leaves a well-formed pump.                                  *)
LEMMA SetReadyType ==
  ASSUME NEW p \in Pump
  PROVE  SetReady(p) \in Pump
BY DEF SetReady, Pump

(* A reply pushed to the priority array leaves a well-formed pump, whether *)
(* it is stored or refused (report_pump.cpp, the priority branch of        *)
(* enqueue).                                                               *)
LEMMA EnqueuePriorityType ==
  ASSUME NEW p \in Pump, NEW r \in Report
  PROVE  EnqueuePriority(p, r) \in Pump
<1>1. p.priority \in Seq(Report)
  BY DEF Pump
<1>2. Append(p.priority, r) \in Seq(Report)
  BY <1>1
<1>3. [p EXCEPT !.priority = Append(@, r)] \in Pump
  BY <1>2 DEF Pump
<1> QED BY <1>3 DEF EnqueuePriority

(* What membership in Pump says about the ring: a head inside it, a count  *)
(* within the capacity, and places that all hold something.                *)
LEMMA RingFields ==
  ASSUME NEW p \in Pump
  PROVE  /\ p.transition_head \in Index /\ p.transition_head \in Nat
         /\ p.transition_count \in 0 .. TransitionCapacity
         /\ p.transition_count \in Nat
         /\ Wrap(p.transition_head + 1) \in Index
         /\ At(p, p.transition_count) \in Index
<1>1. p.transition_head \in Index /\ p.transition_count \in 0 .. TransitionCapacity
  BY DEF Pump
<1>2. p.transition_head \in Nat /\ p.transition_count \in Nat
  BY <1>1, CapacityAssumption DEF Index
<1> QED BY <1>1, <1>2, WrapInIndex DEF At

(* Storing one more entry behind the last one keeps the ring well formed   *)
(* when it is not full (report_pump.cpp, the end of the transition         *)
(* branch).                                                                *)
LEMMA PushBackType ==
  ASSUME NEW p \in Pump, ~Full(p), NEW r \in Report, NEW aside \in BOOLEAN
  PROVE  PushBack(p, r, aside) \in Pump
<1> DEFINE tail == At(p, p.transition_count)
<1>1. tail \in Index
  BY RingFields
<1>2. p.transition_count + 1 \in 0 .. TransitionCapacity
  BY RingFields, CapacityAssumption DEF Full
<1>3. [p.transitions EXCEPT ![tail] = r] \in [Index -> Report \cup {NoReport}]
  BY <1>1 DEF Pump
<1>4. [p.transition_aside EXCEPT ![tail] = aside] \in [Index -> BOOLEAN]
  BY <1>1 DEF Pump
<1> HIDE DEF tail
<1>5. [p EXCEPT !.transitions[tail] = r, !.transition_aside[tail] = aside,
                !.transition_count = @ + 1] \in Pump
  BY <1>2, <1>3, <1>4 DEF Pump
<1> QED BY <1>5 DEF PushBack, tail

(* Evicting the oldest entry of a full ring makes room for one and keeps   *)
(* the pump well formed (report_pump.cpp, dropped_transitions_).           *)
LEMMA EvictOldestType ==
  ASSUME NEW p \in Pump, Full(p)
  PROVE  EvictOldest(p) \in Pump /\ ~Full(EvictOldest(p))
<1>1. p.transition_count - 1 \in 0 .. TransitionCapacity /\ p.transition_count - 1 # TransitionCapacity
  BY RingFields, CapacityAssumption DEF Full
<1>2. p.dropped \in Nat /\ p.dropped + 1 \in Nat
  BY DEF Pump
<1>3. Wrap(p.transition_head + 1) \in Index
  BY RingFields
<1> DEFINE d == IF p.transition_aside[p.transition_head] THEN p.dropped ELSE p.dropped + 1
<1>4. d \in Nat
  BY <1>2
<1>5. EvictOldest(p) = [p EXCEPT !.transition_head  = Wrap(p.transition_head + 1),
                                 !.transition_count = p.transition_count - 1,
                                 !.dropped = d]
  BY DEF EvictOldest
<1> HIDE DEF d
<1> QED BY <1>1, <1>3, <1>4, <1>5 DEF Pump, Full

(* enqueue() of any kind of report maps a well-formed pump to a well-      *)
(* formed pump.                                                            *)
LEMMA EnqueueType ==
  ASSUME NEW p \in Pump, NEW r \in Report, NEW kind \in Kinds
  PROVE  Enqueue(p, r, kind) \in Pump
<1>1. CASE kind = "priority"
  BY <1>1, EnqueuePriorityType DEF Enqueue
<1>2. CASE kind = "aside"
  BY <1>2, PushBackType DEF Enqueue, EnqueueAside
<1>3. CASE kind = "transition"
  <2> DEFINE q == [p EXCEPT !.latest = NoReport]
  <2>1. q \in Pump
    BY DEF Pump
  <2>2. CASE Full(q)
    BY <1>3, <2>1, <2>2, EvictOldestType, PushBackType DEF Enqueue, EnqueueTransition
  <2>3. CASE ~Full(q)
    BY <1>3, <2>1, <2>3, PushBackType DEF Enqueue, EnqueueTransition
  <2> QED BY <2>2, <2>3
<1>4. CASE kind = "continuous"
  BY <1>4 DEF Enqueue, EnqueueContinuous, Pump
<1> QED BY <1>1, <1>2, <1>3, <1>4 DEF Kinds

(* take() maps a well-formed pump to a well-formed pump and puts a real    *)
(* report in flight.                                                       *)
LEMMA TakeType ==
  ASSUME NEW p \in Pump
  PROVE  Take(p) \in Pump
<1>1. CASE ~CanTake(p)
  BY <1>1 DEF Take
<1>2. CASE CanTake(p) /\ p.priority # <<>>
  <2>1. p.priority \in Seq(Report)
    BY DEF Pump
  <2>2. Head(p.priority) \in Report /\ Tail(p.priority) \in Seq(Report)
    BY <1>2, <2>1
  <2> QED BY <1>2, <2>2 DEF Take, TakePriority, Pump
<1>3. CASE CanTake(p) /\ p.priority = <<>> /\ p.transition_count > 0
  <2>1. p.transition_count - 1 \in 0 .. TransitionCapacity
    BY <1>3, RingFields, CapacityAssumption
  <2>2. p.transitions[p.transition_head] \in Report \cup {NoReport}
    BY RingFields DEF Pump
  <2>3. TakeOrdered(p) \in Pump
    BY <2>1, <2>2, RingFields DEF TakeOrdered, Pump
  <2> QED BY <1>3, <2>3 DEF Take
<1>4. CASE CanTake(p) /\ p.priority = <<>> /\ ~(p.transition_count > 0)
  BY <1>4 DEF Take, TakeLatest, Pump
<1> QED BY <1>1, <1>2, <1>3, <1>4

(* The array of replies never outgrows its capacity.                       *)
LEMMA EnqueueBounded ==
  ASSUME NEW p \in Pump, NEW r \in Report, NEW kind \in Kinds,
         Len(p.priority) <= PriorityCapacity
  PROVE  Len(Enqueue(p, r, kind).priority) <= PriorityCapacity
<1>0. p.priority \in Seq(Report)
  BY DEF Pump
<1>1. CASE kind = "priority"
  <2>1. CASE Len(p.priority) >= PriorityCapacity
    BY <1>1, <2>1 DEF Enqueue, EnqueuePriority
  <2>2. CASE ~(Len(p.priority) >= PriorityCapacity)
    <3>1. Enqueue(p, r, kind).priority = Append(p.priority, r)
      BY <1>1, <2>2 DEF Enqueue, EnqueuePriority, Pump
    <3> QED BY <1>0, <2>2, <3>1, CapacityAssumption
  <2> QED BY <2>1, <2>2
<1>2. CASE kind # "priority"
  <2>1. Enqueue(p, r, kind).priority = p.priority
    BY <1>2 DEF Enqueue, EnqueueAside, EnqueueTransition, EnqueueContinuous,
                PushBack, EvictOldest, Kinds, Pump
  <2> QED BY <2>1
<1> QED BY <1>1, <1>2

(* take() never grows the priority array.                                  *)
LEMMA TakeBounded ==
  ASSUME NEW p \in Pump, Len(p.priority) <= PriorityCapacity
  PROVE  Len(Take(p).priority) <= PriorityCapacity
<1>0. p.priority \in Seq(Report)
  BY DEF Pump
<1>1. CASE CanTake(p) /\ p.priority # <<>>
  <2>1. Take(p).priority = Tail(p.priority)
    BY <1>1 DEF Take, TakePriority, Pump
  <2>2. Len(Tail(p.priority)) = Len(p.priority) - 1
    BY <1>0, <1>1
  <2> QED BY <1>0, <2>1, <2>2, CapacityAssumption
<1>2. CASE ~(CanTake(p) /\ p.priority # <<>>)
  <2>1. Take(p).priority = p.priority
    BY <1>2 DEF Take, TakeOrdered, TakeLatest, Pump
  <2> QED BY <2>1
<1> QED BY <1>1, <1>2

-----------------------------------------------------------------------------
(* A pump that fits its arrays, closed under all the actions do with it.   *)
Fits(p) == p \in Pump /\ Len(p.priority) <= PriorityCapacity

(* Every method of the pump keeps a pump that fits its arrays one that     *)
(* does: the driver can call them in any order.                            *)
LEMMA FitsClosed ==
  ASSUME NEW p, Fits(p)
  PROVE  /\ Fits(Take(p))
         /\ Fits(SetReady(p))
         /\ \A sig \in Signatures : Fits(Remember(p, sig))
         /\ \A r \in Report, kind \in Kinds : Fits(Enqueue(p, r, kind))
<1> USE DEF Fits
<1>1. Fits(Take(p))
  BY TakeType, TakeBounded
<1>2. Fits(SetReady(p))
  BY SetReadyType DEF SetReady, Pump
<1>3. ASSUME NEW sig \in Signatures PROVE Fits(Remember(p, sig))
  BY RememberType DEF Remember, Pump
<1>4. ASSUME NEW r \in Report, NEW kind \in Kinds PROVE Fits(Enqueue(p, r, kind))
  BY EnqueueType, EnqueueBounded
<1> QED BY <1>1, <1>2, <1>3, <1>4

-----------------------------------------------------------------------------
(* The ring read as a line: the entry that is i-th in turn, and how many   *)
(* counted transitions it stands for (an aside stands for none).           *)
Places(p) == 0 .. p.transition_count - 1
Line(p, i) == p.transitions[At(p, i)]
Step(p, i) == IF p.transition_aside[At(p, i)] THEN 0 ELSE 1

(* Index arithmetic of the ring: one subtraction at most, since head and   *)
(* offset are both below the capacity.                                     *)
LEMMA WrapValue ==
  ASSUME NEW a \in Nat, a < TransitionCapacity + TransitionCapacity
  PROVE  Wrap(a) = IF a < TransitionCapacity THEN a ELSE a - TransitionCapacity
<1>1. TransitionCapacity \in Nat /\ TransitionCapacity > 0
  BY CapacityAssumption
<1>2. CASE a < TransitionCapacity
  BY <1>1, <1>2 DEF Wrap
<1>3. CASE ~(a < TransitionCapacity)
  BY <1>1, <1>3 DEF Wrap
<1> QED BY <1>2, <1>3

(* Two different offsets from the head are two different places of the     *)
(* ring.                                                                   *)
LEMMA WrapDistinct ==
  ASSUME NEW h \in Index, NEW i \in Index, NEW j \in Index, i # j
  PROVE  Wrap(h + i) # Wrap(h + j)
<1>1. ASSUME NEW k \in Index
      PROVE  Wrap(h + k) = IF h + k < TransitionCapacity THEN h + k
                           ELSE h + k - TransitionCapacity
  <2> DEFINE a == h + k
  <2>1. a \in Nat /\ a < TransitionCapacity + TransitionCapacity
    BY CapacityAssumption DEF Index
  <2> HIDE DEF a
  <2>2. Wrap(a) = IF a < TransitionCapacity THEN a ELSE a - TransitionCapacity
    BY <2>1, WrapValue
  <2> QED BY <2>1, <2>2, CapacityAssumption DEF a, Index
<1> QED BY <1>1, CapacityAssumption DEF Index

(* Offset i from the next head is offset i + 1 from this one.              *)
LEMMA WrapShift ==
  ASSUME NEW h \in Index, NEW i \in Index
  PROVE  Wrap(Wrap(h + 1) + i) = Wrap(h + (i + 1))
<1>1. CASE h + 1 < TransitionCapacity
  <2>1. Wrap(h + 1) = h + 1
    BY <1>1, CapacityAssumption DEF Wrap, Index
  <2> QED BY <2>1, CapacityAssumption DEF Index
<1>2. CASE h + 1 = TransitionCapacity
  <2>1. Wrap(h + 1) = 0
    BY <1>2, CapacityAssumption DEF Wrap, Index
  <2>2. Wrap(i) = i
    BY CapacityAssumption DEF Wrap, Index
  <2>3. h + (i + 1) = i + TransitionCapacity
    BY <1>2, CapacityAssumption DEF Index
  <2>4. Wrap(i + TransitionCapacity) = i
    BY CapacityAssumption DEF Wrap, Index
  <2>5. Wrap(h + 1) + i = i
    BY <2>1, CapacityAssumption DEF Index
  <2> QED BY <2>2, <2>3, <2>4, <2>5
<1> QED BY <1>1, <1>2, CapacityAssumption DEF Index

(* PushBack appends to the line and leaves the rest of it alone.           *)
LEMMA PushBackLine ==
  ASSUME NEW p \in Pump, ~Full(p), NEW r \in Report, NEW aside \in BOOLEAN,
         NEW q, q = PushBack(p, r, aside)
  PROVE  /\ q \in Pump
         /\ q.transition_count = p.transition_count + 1
         /\ p.transition_count \in Nat
         /\ \A i \in Places(p) : Line(q, i) = Line(p, i) /\ Step(q, i) = Step(p, i)
         /\ Line(q, p.transition_count) = r
         /\ Step(q, p.transition_count) = IF aside THEN 0 ELSE 1
         /\ q.latest = p.latest /\ q.dropped = p.dropped
         /\ q.priority = p.priority /\ q.ready = p.ready /\ q.in_flight = p.in_flight
<1> DEFINE n == p.transition_count
           tail == At(p, n)
<1>1. q \in Pump
  BY PushBackType
<1>2. n \in Index /\ tail \in Index /\ p.transition_head \in Index
  BY RingFields, CapacityAssumption DEF Full, Index
<1>3. /\ q.transition_head = p.transition_head
      /\ q.transition_count = n + 1
      /\ q.transitions = [p.transitions EXCEPT ![tail] = r]
      /\ q.transition_aside = [p.transition_aside EXCEPT ![tail] = aside]
      /\ q.latest = p.latest /\ q.dropped = p.dropped
      /\ q.priority = p.priority /\ q.ready = p.ready /\ q.in_flight = p.in_flight
  BY DEF PushBack, Pump
<1>4. \A i : At(q, i) = At(p, i)
  BY <1>3 DEF At
<1>5. p.transitions \in [Index -> Report \cup {NoReport}] /\ p.transition_aside \in [Index -> BOOLEAN]
  BY DEF Pump
<1>6. ASSUME NEW i \in Places(p)
      PROVE  Line(q, i) = Line(p, i) /\ Step(q, i) = Step(p, i)
  <2>1. i \in Index /\ i # n
    BY <1>2, CapacityAssumption DEF Places, Index
  <2>2. At(p, i) # tail
    BY <1>2, <2>1, WrapDistinct DEF At
  <2>3. p.transition_head + i \in Nat
    BY <1>2, <2>1, CapacityAssumption DEF Index
  <2>4. At(p, i) \in Index
    BY <2>3, WrapInIndex DEF At
  <2> QED BY <1>3, <1>4, <1>5, <2>2, <2>4 DEF Line, Step
<1>7. Line(q, n) = r
  BY <1>2, <1>3, <1>4, <1>5 DEF Line
<1>8. q.transition_aside[At(q, n)] = aside
  BY <1>2, <1>3, <1>4, <1>5
<1>9. Step(q, n) = IF aside THEN 0 ELSE 1
  BY <1>8 DEF Step
<1> QED BY <1>1, <1>3, <1>6, <1>7, <1>9, RingFields

(* Dropping the head of the line moves everyone else one place up.         *)
LEMMA PopLine ==
  ASSUME NEW p \in Pump, p.transition_count > 0, NEW q \in Pump,
         q.transition_head = Wrap(p.transition_head + 1),
         q.transition_count = p.transition_count - 1,
         q.transitions = p.transitions,
         q.transition_aside = p.transition_aside
  PROVE  /\ \A i \in Places(q) : Line(q, i) = Line(p, i + 1) /\ Step(q, i) = Step(p, i + 1)
         /\ Line(p, 0) = p.transitions[p.transition_head]
         /\ Step(p, 0) = IF p.transition_aside[p.transition_head] THEN 0 ELSE 1
         /\ p.transition_count \in Nat
<1>1. p.transition_head \in Index /\ p.transition_count \in 1 .. TransitionCapacity
  BY RingFields, CapacityAssumption
<1>2. ASSUME NEW i \in Places(q)
      PROVE  Line(q, i) = Line(p, i + 1) /\ Step(q, i) = Step(p, i + 1)
  <2>1. i \in Index
    BY <1>1, CapacityAssumption DEF Places, Index
  <2>2. At(q, i) = At(p, i + 1)
    BY <1>1, <2>1, WrapShift DEF At
  <2> QED BY <2>2 DEF Line, Step
<1>3. At(p, 0) = p.transition_head
  <2>1. p.transition_head \in Nat /\ p.transition_head < TransitionCapacity
    BY <1>1, CapacityAssumption DEF Index
  <2>2. Wrap(p.transition_head) = p.transition_head
    BY <2>1, WrapValue, CapacityAssumption
  <2>3. p.transition_head + 0 = p.transition_head
    BY <2>1
  <2> QED BY <2>2, <2>3 DEF At
<1> QED BY <1>1, <1>2, <1>3 DEF Line, Step

-----------------------------------------------------------------------------
(* What waits in a pump, relative to                                       *)
(*   n, e    the newest input state and the newest edge of the client,     *)
(*   m       the newest edge that has been enqueued,                       *)
(*   bi, be  input state and edge of the last report handed out,           *)
(*   d       losses admitted and not yet used up.                          *)
(* A value is current in the line if it lies between what was handed out   *)
(* and what the client has sent.                                           *)
Current(r, n, e, bi, be) ==
  /\ bi <= r.input /\ r.input <= n
  /\ be <= r.edge /\ r.edge <= e

NoNewer(r, s) == r.input <= s.input /\ r.edge <= s.edge

(* Only reports wait, and one that counts as a transition carries state.   *)
Content(p) ==
  /\ \A i \in Places(p) :
       /\ Line(p, i) \in Report
       /\ Step(p, i) = 1 => Line(p, i).carries = "state"
  /\ \A i \in DOMAIN p.priority : p.priority[i].carries # "state"

(* State waits in the order it was produced, the snapshot last.            *)
Sorted(p, n, e, bi, be) ==
  /\ \A i \in Places(p) : Line(p, i).carries = "state" =>
       /\ Current(Line(p, i), n, e, bi, be)
       /\ p.latest # NoReport => NoNewer(Line(p, i), p.latest)
       /\ \A j \in Places(p) : i < j /\ Line(p, j).carries = "state"
                                  => NoNewer(Line(p, i), Line(p, j))
  /\ p.latest # NoReport => Current(p.latest, n, e, bi, be)

(* Every edge that was enqueued is in the line, or was handed out, or is   *)
(* one of the admitted losses.                                             *)
Tight(p, m, be, d) ==
  /\ \A i \in Places(p) : i + 1 \in Places(p) =>
       Line(p, i + 1).edge <= Line(p, i).edge + Step(p, i + 1)
  /\ p.transition_count > 0 => /\ m <= Line(p, p.transition_count - 1).edge
                               /\ Line(p, 0).edge - Step(p, 0) - be <= d
  /\ p.transition_count = 0 => m - be <= d

Good(p, n, e, m, bi, be, d) ==
  /\ Content(p)
  /\ Sorted(p, n, e, bi, be)
  /\ Tight(p, m, be, d)
  /\ bi <= n /\ be <= e /\ 0 <= d

(* A report carries an input number and an edge number, and is not the     *)
(* absence of a report.                                                    *)
LEMMA ReportFields ==
  ASSUME NEW r \in Report
  PROVE  r.input \in Nat /\ r.edge \in Nat /\ r # NoReport
BY NoReportAssumption DEF Report

(* Everything that waits in a good pump is a report.                       *)
LEMMA LineFields ==
  ASSUME NEW p \in Pump, Content(p)
  PROVE  /\ p.transition_count \in Nat
         /\ p.transition_count <= TransitionCapacity
         /\ p.latest # NoReport => p.latest.input \in Nat /\ p.latest.edge \in Nat
         /\ \A i \in Places(p) : Line(p, i).input \in Nat /\ Line(p, i).edge \in Nat
         /\ \A i : Step(p, i) \in {0, 1}
<1>1. p.latest \in Report \cup {NoReport}
  BY DEF Pump
<1>2. \A i \in Places(p) : Line(p, i).input \in Nat /\ Line(p, i).edge \in Nat
  BY ReportFields DEF Content
<1>3. \A i : Step(p, i) \in {0, 1}
  BY DEF Step
<1>4. p.transition_count \in Nat /\ p.transition_count <= TransitionCapacity
  BY RingFields, CapacityAssumption
<1> QED BY <1>1, <1>2, <1>3, <1>4, ReportFields

(* Readiness, the packet in flight and the signature are not part of it.   *)
LEMMA GoodSame ==
  ASSUME NEW p, NEW q, NEW n, NEW e, NEW m, NEW bi, NEW be, NEW d,
         Good(p, n, e, m, bi, be, d),
         q.transitions = p.transitions, q.transition_aside = p.transition_aside,
         q.transition_head = p.transition_head, q.transition_count = p.transition_count,
         q.latest = p.latest, q.priority = p.priority
  PROVE  Good(q, n, e, m, bi, be, d)
<1>1. Places(q) = Places(p)
  BY DEF Places
<1>2. \A i : Line(q, i) = Line(p, i) /\ Step(q, i) = Step(p, i)
  BY DEF Line, Step, At
<1>3. Content(q)
  BY <1>1, <1>2 DEF Content, Good
<1>4. Sorted(q, n, e, bi, be)
  BY <1>1, <1>2 DEF Sorted, Good
<1>5. Tight(q, m, be, d)
  BY <1>1, <1>2 DEF Tight, Good
<1> QED BY <1>3, <1>4, <1>5 DEF Good

(* The client moves on: what waits stays in order.                         *)
LEMMA GoodAdvance ==
  ASSUME NEW p \in Pump, NEW n \in Nat, NEW e \in Nat, NEW m \in Int,
         NEW bi \in Nat, NEW be \in Nat, NEW d \in Int,
         Good(p, n, e, m, bi, be, d), NEW n2 \in Nat, n <= n2, NEW e2 \in Nat, e <= e2
  PROVE  Good(p, n2, e2, m, bi, be, d)
<1>1. Sorted(p, n2, e2, bi, be)
  BY LineFields DEF Sorted, Good, Current
<1> QED BY <1>1 DEF Good

(* A reply in the priority array disturbs nothing in line (enqueue,        *)
(* priority branch).                                                       *)
LEMMA GoodPriority ==
  ASSUME NEW p \in Pump, NEW r \in Report, r.carries # "state",
         NEW n, NEW e, NEW m, NEW bi, NEW be, NEW d, Good(p, n, e, m, bi, be, d)
  PROVE  Good(EnqueuePriority(p, r), n, e, m, bi, be, d)
<1>1. CASE Len(p.priority) >= PriorityCapacity
  BY <1>1 DEF EnqueuePriority
<1>2. CASE ~(Len(p.priority) >= PriorityCapacity)
  <2> DEFINE q == EnqueuePriority(p, r)
  <2>1. /\ q.transitions = p.transitions /\ q.transition_aside = p.transition_aside
        /\ q.transition_head = p.transition_head /\ q.transition_count = p.transition_count
        /\ q.latest = p.latest /\ q.priority = Append(p.priority, r)
    BY <1>2 DEF EnqueuePriority, Pump
  <2> HIDE DEF q
  <2>2. Places(q) = Places(p)
    BY <2>1 DEF Places
  <2>3. \A i : Line(q, i) = Line(p, i) /\ Step(q, i) = Step(p, i)
    BY <2>1 DEF Line, Step, At
  <2>4. p.priority \in Seq(Report)
    BY DEF Pump
  <2>5. \A i \in DOMAIN q.priority : q.priority[i].carries # "state"
    BY <2>1, <2>4 DEF Good, Content
  <2>6. Content(q)
    BY <2>2, <2>3, <2>5 DEF Content, Good
  <2>7. Sorted(q, n, e, bi, be)
    BY <2>1, <2>2, <2>3 DEF Sorted, Good
  <2>8. Tight(q, m, be, d)
    BY <2>1, <2>2, <2>3 DEF Tight, Good
  <2> QED BY <2>6, <2>7, <2>8 DEF Good, q
<1> QED BY <1>1, <1>2

(* A snapshot of the newest state replaces the one that was waiting.       *)
LEMMA GoodContinuous ==
  ASSUME NEW p \in Pump, NEW n \in Nat, NEW e \in Nat, NEW m \in Int,
         NEW bi \in Nat, NEW be \in Nat, NEW d \in Int,
         Good(p, n, e, m, bi, be, d), NEW r \in Report, r.input = n, r.edge = e
  PROVE  Good(EnqueueContinuous(p, r), n, e, m, bi, be, d)
<1> DEFINE q == EnqueueContinuous(p, r)
<1>1. /\ q.transitions = p.transitions /\ q.transition_aside = p.transition_aside
      /\ q.transition_head = p.transition_head /\ q.transition_count = p.transition_count
      /\ q.latest = r /\ q.priority = p.priority
  BY DEF EnqueueContinuous, Pump
<1> HIDE DEF q
<1>2. Places(q) = Places(p)
  BY <1>1 DEF Places
<1>3. \A i : Line(q, i) = Line(p, i) /\ Step(q, i) = Step(p, i)
  BY <1>1 DEF Line, Step, At
<1>4. Content(q)
  BY <1>1, <1>2, <1>3 DEF Content, Good
<1>5. Sorted(q, n, e, bi, be)
  <2>1. Current(r, n, e, bi, be)
    BY DEF Current, Good
  <2>2. \A i \in Places(p) : Line(p, i).carries = "state" => NoNewer(Line(p, i), r)
    BY DEF Good, Sorted, Current, NoNewer
  <2> QED BY <1>1, <1>2, <1>3, <2>1, <2>2 DEF Sorted, Good
<1>6. Tight(q, m, be, d)
  BY <1>1, <1>2, <1>3 DEF Tight, Good
<1> QED BY <1>4, <1>5, <1>6 DEF Good, q

(* A transition supersedes the waiting snapshot: without it the rest is    *)
(* still in order (enqueue, latest_.valid = false).                        *)
LEMMA GoodForget ==
  ASSUME NEW p \in Pump, NEW n, NEW e, NEW m, NEW bi, NEW be, NEW d,
         Good(p, n, e, m, bi, be, d)
  PROVE  Good([p EXCEPT !.latest = NoReport], n, e, m, bi, be, d)
<1> DEFINE q == [p EXCEPT !.latest = NoReport]
<1>1. /\ q.transitions = p.transitions /\ q.transition_aside = p.transition_aside
      /\ q.transition_head = p.transition_head /\ q.transition_count = p.transition_count
      /\ q.latest = NoReport /\ q.priority = p.priority
  BY DEF Pump
<1> HIDE DEF q
<1>2. Places(q) = Places(p)
  BY <1>1 DEF Places
<1>3. \A i : Line(q, i) = Line(p, i) /\ Step(q, i) = Step(p, i)
  BY <1>1 DEF Line, Step, At
<1>4. Content(q)
  BY <1>1, <1>2, <1>3 DEF Content, Good
<1>5. Sorted(q, n, e, bi, be)
  BY <1>1, <1>2, <1>3 DEF Sorted, Good
<1>6. Tight(q, m, be, d)
  BY <1>1, <1>2, <1>3 DEF Tight, Good
<1> QED BY <1>4, <1>5, <1>6 DEF Good, q

(* The queue's tail grows by one entry: its new content and order.         *)
LEMMA GrownPlaces ==
  ASSUME NEW p, NEW q, p.transition_count \in Nat,
         q.transition_count = p.transition_count + 1
  PROVE  /\ \A i \in Places(q) : i \in Places(p) \/ i = p.transition_count
         /\ \A i \in Places(q) : i + 1 \in Places(q) => i \in Places(p)
         /\ \A i \in Places(p) : i \in Places(q) /\ i \in Nat /\ i < p.transition_count
         /\ p.transition_count \in Places(q)
         /\ q.transition_count - 1 = p.transition_count
         /\ q.transition_count > 0
BY DEF Places

(* A transition goes to the end of the line, with the newest state.        *)
LEMMA GoodPushState ==
  ASSUME NEW p \in Pump, ~Full(p), p.latest = NoReport,
         NEW n \in Nat, NEW e \in Nat, NEW m \in Int,
         NEW bi \in Nat, NEW be \in Nat, NEW d \in Int,
         Good(p, n, e, m, bi, be, d), e <= m + 1,
         NEW r \in Report, r.carries = "state", r.input = n, r.edge = e
  PROVE  Good(PushBack(p, r, FALSE), n, e, e, bi, be, d)
<1> DEFINE q == PushBack(p, r, FALSE)
           c == p.transition_count
<1>1. /\ q \in Pump
      /\ q.transition_count = c + 1
      /\ c \in Nat
      /\ \A i \in Places(p) : Line(q, i) = Line(p, i) /\ Step(q, i) = Step(p, i)
      /\ Line(q, c) = r /\ Step(q, c) = 1
      /\ q.latest = NoReport /\ q.priority = p.priority
  <2>1. \A aside \in BOOLEAN : ~aside =>
          LET t == PushBack(p, r, aside) IN
          /\ t \in Pump /\ t.transition_count = c + 1 /\ c \in Nat
          /\ \A i \in Places(p) : Line(t, i) = Line(p, i) /\ Step(t, i) = Step(p, i)
          /\ Line(t, c) = r /\ Step(t, c) = 1
          /\ t.latest = p.latest /\ t.priority = p.priority
    BY PushBackLine
  <2> QED BY <2>1
<1> HIDE DEF q
<1>2. /\ \A i \in Places(q) : i \in Places(p) \/ i = c
      /\ \A i \in Places(q) : i + 1 \in Places(q) => i \in Places(p)
      /\ \A i \in Places(p) : i \in Places(q) /\ i \in Nat /\ i < c
      /\ c \in Places(q) /\ q.transition_count - 1 = c /\ q.transition_count > 0
  BY <1>1, GrownPlaces
<1>3. Content(q)
  BY <1>1, <1>2 DEF Content, Good
<1>4. Sorted(q, n, e, bi, be)
  <2>1. Current(r, n, e, bi, be)
    BY DEF Current, Good
  <2>2. \A i \in Places(p) : Line(p, i).carries = "state" =>
          Current(Line(p, i), n, e, bi, be) /\ NoNewer(Line(p, i), r)
    BY DEF Good, Sorted, Current, NoNewer
  <2>3. ASSUME NEW i \in Places(q), Line(q, i).carries = "state"
        PROVE  Current(Line(q, i), n, e, bi, be)
    BY <1>1, <1>2, <2>1, <2>2, <2>3
  <2>4. ASSUME NEW i \in Places(q), NEW j \in Places(q), i < j,
               Line(q, i).carries = "state", Line(q, j).carries = "state"
        PROVE  NoNewer(Line(q, i), Line(q, j))
    <3>1. i \in Places(p)
      BY <1>1, <1>2, <2>4
    <3>2. CASE j \in Places(p)
      BY <1>1, <2>4, <3>1, <3>2 DEF Good, Sorted
    <3>3. CASE j = c
      BY <1>1, <2>2, <2>4, <3>1, <3>3
    <3> QED BY <1>2, <3>2, <3>3
  <2> QED BY <1>1, <2>3, <2>4 DEF Sorted
<1>5. Tight(q, e, be, d)
  <2>1. ASSUME NEW i \in Places(q), i + 1 \in Places(q)
        PROVE  Line(q, i + 1).edge <= Line(q, i).edge + Step(q, i + 1)
    <3>1. i \in Places(p) /\ i \in Nat
      BY <1>2, <2>1
    <3>2. CASE i + 1 \in Places(p)
      BY <1>1, <3>1, <3>2 DEF Good, Tight
    <3>3. CASE i + 1 = c
      <4>0. i = p.transition_count - 1 /\ p.transition_count > 0
        BY <1>1, <3>1, <3>3
      <4>1. m <= Line(p, i).edge
        BY <4>0 DEF Good, Tight
      <4>2. Line(p, i).edge \in Nat
        BY <3>1, LineFields DEF Good
      <4> QED BY <1>1, <3>1, <3>3, <4>1, <4>2
    <3> QED BY <1>2, <2>1, <3>2, <3>3
  <2>2. Line(q, 0).edge - Step(q, 0) - be <= d
    <3>1. CASE c = 0
      BY <1>1, <3>1 DEF Good, Tight
    <3>2. CASE c > 0
      <4>1. 0 \in Places(p)
        BY <1>1, <3>2 DEF Places
      <4> QED BY <1>1, <3>2, <4>1 DEF Good, Tight
    <3> QED BY <1>1, <3>1, <3>2
  <2> QED BY <1>1, <1>2, <2>1, <2>2 DEF Tight
<1> QED BY <1>3, <1>4, <1>5 DEF Good, q

(* An aside goes to the end of the line too, and stands for no edge.       *)
LEMMA GoodPushAside ==
  ASSUME NEW p \in Pump, ~Full(p),
         NEW n \in Nat, NEW e \in Nat, NEW bi \in Nat, NEW be \in Nat, NEW d \in Int,
         Good(p, n, e, e, bi, be, d),
         NEW r \in Report, r.carries # "state", r.edge = e
  PROVE  Good(PushBack(p, r, TRUE), n, e, e, bi, be, d)
<1> DEFINE q == PushBack(p, r, TRUE)
           c == p.transition_count
<1>1. /\ q \in Pump
      /\ q.transition_count = c + 1
      /\ c \in Nat
      /\ \A i \in Places(p) : Line(q, i) = Line(p, i) /\ Step(q, i) = Step(p, i)
      /\ Line(q, c) = r /\ Step(q, c) = 0
      /\ q.latest = p.latest /\ q.priority = p.priority
  <2>1. ASSUME NEW aside \in BOOLEAN, NEW t, t = PushBack(p, r, aside)
        PROVE  /\ t \in Pump /\ t.transition_count = c + 1 /\ c \in Nat
               /\ \A i \in Places(p) : Line(t, i) = Line(p, i) /\ Step(t, i) = Step(p, i)
               /\ Line(t, c) = r /\ Step(t, c) = IF aside THEN 0 ELSE 1
               /\ t.latest = p.latest /\ t.priority = p.priority
    BY <2>1, PushBackLine
  <2> QED BY <2>1
<1> HIDE DEF q
<1>2. /\ \A i \in Places(q) : i \in Places(p) \/ i = c
      /\ \A i \in Places(q) : i + 1 \in Places(q) => i \in Places(p)
      /\ \A i \in Places(p) : i \in Places(q) /\ i \in Nat /\ i < c
      /\ c \in Places(q) /\ q.transition_count - 1 = c /\ q.transition_count > 0
  BY <1>1, GrownPlaces
<1>3. Content(q)
  BY <1>1, <1>2 DEF Content, Good
<1>4. Sorted(q, n, e, bi, be)
  <2>1. \A i \in Places(q) : Line(q, i).carries = "state" => i \in Places(p)
    BY <1>1, <1>2
  <2> QED BY <1>1, <2>1 DEF Sorted, Good
<1>5. Tight(q, e, be, d)
  <2>1. ASSUME NEW i \in Places(q), i + 1 \in Places(q)
        PROVE  Line(q, i + 1).edge <= Line(q, i).edge + Step(q, i + 1)
    <3>1. i \in Places(p) /\ i \in Nat
      BY <1>2, <2>1
    <3>2. CASE i + 1 \in Places(p)
      BY <1>1, <3>1, <3>2 DEF Good, Tight
    <3>3. CASE i + 1 = c
      <4>0. i = p.transition_count - 1 /\ p.transition_count > 0
        BY <1>1, <3>1, <3>3
      <4>1. e <= Line(p, i).edge
        BY <4>0 DEF Good, Tight
      <4>2. Line(p, i).edge \in Nat
        BY <3>1, LineFields DEF Good
      <4> QED BY <1>1, <3>1, <3>3, <4>1, <4>2
    <3> QED BY <1>2, <2>1, <3>2, <3>3
  <2>2. Line(q, 0).edge - Step(q, 0) - be <= d
    <3>1. CASE c = 0
      BY <1>1, <3>1 DEF Good, Tight
    <3>2. CASE c > 0
      <4>1. 0 \in Places(p)
        BY <1>1, <3>2 DEF Places
      <4> QED BY <1>1, <3>2, <4>1 DEF Good, Tight
    <3> QED BY <1>1, <3>1, <3>2
  <2> QED BY <1>1, <1>2, <2>1, <2>2 DEF Tight
<1> QED BY <1>3, <1>4, <1>5 DEF Good, q

(* The line without its head, whose edge b then counts as handed out, with *)
(* x fewer losses to spare.                                                *)
LEMMA GoodPop ==
  ASSUME NEW p \in Pump, p.transition_count > 0,
         NEW n \in Nat, NEW e \in Nat, NEW m \in Int,
         NEW bi \in Nat, NEW be \in Nat, NEW d \in Int,
         Good(p, n, e, m, bi, be, d),
         NEW q \in Pump,
         q.transition_head = Wrap(p.transition_head + 1),
         q.transition_count = p.transition_count - 1,
         q.transitions = p.transitions, q.transition_aside = p.transition_aside,
         q.latest = p.latest, q.priority = p.priority,
         NEW bi2 \in Nat, NEW be2 \in Nat, NEW d2 \in Int,
         \/ bi2 = bi /\ be2 = be
         \/ /\ Line(p, 0).carries = "state"
            /\ bi2 = Line(p, 0).input /\ be2 = Line(p, 0).edge,
         Line(p, 0).edge - be2 <= d2, 0 <= d2
  PROVE  Good(q, n, e, m, bi2, be2, d2)
<1> DEFINE c == p.transition_count
<1>1. /\ \A i \in Places(q) : Line(q, i) = Line(p, i + 1) /\ Step(q, i) = Step(p, i + 1)
      /\ c \in Nat
  BY PopLine
<1>2. /\ 0 \in Places(p)
      /\ \A i \in Places(q) : i \in Nat /\ i + 1 \in Places(p) /\ i + 1 # 0
      /\ \A i \in Places(q) : i + 1 \in Places(q) => (i + 1) + 1 \in Places(p)
      /\ \A i, j \in Places(q) : i < j => i + 1 < j + 1
  BY <1>1 DEF Places
<1>3. Content(q)
  BY <1>1, <1>2 DEF Content, Good
<1>4. Sorted(q, n, e, bi2, be2)
  <2>1. ASSUME NEW i \in Places(q), Line(q, i).carries = "state"
        PROVE  /\ Current(Line(q, i), n, e, bi2, be2)
               /\ q.latest # NoReport => NoNewer(Line(q, i), q.latest)
    <3>1. /\ Current(Line(p, i + 1), n, e, bi, be)
          /\ p.latest # NoReport => NoNewer(Line(p, i + 1), p.latest)
      BY <1>1, <1>2, <2>1 DEF Good, Sorted
    <3>2. CASE bi2 = bi /\ be2 = be
      BY <1>1, <3>1, <3>2
    <3>3. CASE /\ Line(p, 0).carries = "state"
               /\ bi2 = Line(p, 0).input /\ be2 = Line(p, 0).edge
      <4>1. NoNewer(Line(p, 0), Line(p, i + 1))
        <5>1. 0 < i + 1 /\ Line(p, i + 1).carries = "state"
          BY <1>1, <1>2, <2>1
        <5> QED BY <1>2, <3>3, <5>1 DEF Good, Sorted
      <4> QED BY <1>1, <3>1, <3>3, <4>1 DEF Current, NoNewer
    <3> QED BY <3>2, <3>3
  <2>2. ASSUME NEW i \in Places(q), NEW j \in Places(q), i < j,
               Line(q, i).carries = "state", Line(q, j).carries = "state"
        PROVE  NoNewer(Line(q, i), Line(q, j))
    BY <1>1, <1>2, <2>2 DEF Good, Sorted
  <2>3. q.latest # NoReport => Current(q.latest, n, e, bi2, be2)
    BY <1>2 DEF Good, Sorted, Current, NoNewer
  <2> QED BY <2>1, <2>2, <2>3 DEF Sorted
<1>5. Tight(q, m, be2, d2)
  <2>1. ASSUME NEW i \in Places(q), i + 1 \in Places(q)
        PROVE  Line(q, i + 1).edge <= Line(q, i).edge + Step(q, i + 1)
    BY <1>1, <1>2, <2>1 DEF Good, Tight
  <2>2. CASE q.transition_count = 0
    <3>1. c = 1
      BY <1>1, <2>2
    <3>2. m <= Line(p, 0).edge /\ Line(p, 0).edge \in Nat
      BY <1>2, <3>1, LineFields DEF Good, Tight
    <3> QED BY <2>1, <2>2, <3>2 DEF Tight
  <2>3. CASE q.transition_count > 0
    <3>1. 0 \in Places(q) /\ q.transition_count - 1 \in Places(q)
      BY <1>1, <2>3 DEF Places
    <3>2. Line(q, q.transition_count - 1) = Line(p, c - 1)
      <4>1. (q.transition_count - 1) + 1 = c - 1
        BY <1>1
      <4> QED BY <1>1, <3>1, <4>1
    <3>3. m <= Line(q, q.transition_count - 1).edge
      BY <3>2 DEF Good, Tight
    <3>4. Line(p, 0 + 1).edge <= Line(p, 0).edge + Step(p, 0 + 1)
      BY <1>2, <3>1 DEF Good, Tight
    <3>5. Line(q, 0).edge <= Line(p, 0).edge + Step(q, 0)
      BY <1>1, <3>1, <3>4
    <3>6. Line(p, 0).edge \in Nat /\ Line(q, 0).edge \in Nat /\ Step(q, 0) \in {0, 1}
      BY <1>2, <1>3, <3>1, LineFields DEF Good
    <3> QED BY <2>1, <2>3, <3>3, <3>5, <3>6 DEF Tight
  <2> QED BY <1>1, <2>2, <2>3
<1>6. bi2 <= n /\ be2 <= e
  BY <1>2 DEF Good, Sorted, Current
<1> QED BY <1>3, <1>4, <1>5, <1>6 DEF Good

(* The eviction of the oldest entry costs what the counter says.           *)
LEMMA GoodEvict ==
  ASSUME NEW p \in Pump, Full(p),
         NEW n \in Nat, NEW e \in Nat, NEW m \in Int,
         NEW bi \in Nat, NEW be \in Nat, NEW d \in Int,
         Good(p, n, e, m, bi, be, d)
  PROVE  /\ Good(EvictOldest(p), n, e, m, bi, be, d + EvictOldest(p).dropped - p.dropped)
         /\ EvictOldest(p).dropped - p.dropped \in {0, 1}
         /\ EvictOldest(p).latest = p.latest
<1> DEFINE q == EvictOldest(p)
<1>1. q \in Pump /\ p.transition_count > 0
  BY EvictOldestType, RingFields, CapacityAssumption DEF Full
<1>2. /\ q.transition_head = Wrap(p.transition_head + 1)
      /\ q.transition_count = p.transition_count - 1
      /\ q.transitions = p.transitions /\ q.transition_aside = p.transition_aside
      /\ q.latest = p.latest /\ q.priority = p.priority
      /\ q.dropped = IF p.transition_aside[p.transition_head] THEN p.dropped ELSE p.dropped + 1
  BY DEF EvictOldest, Pump
<1> HIDE DEF q
<1>3. p.dropped \in Nat
  BY DEF Pump
<1>4. Step(p, 0) = IF p.transition_aside[p.transition_head] THEN 0 ELSE 1
  BY <1>1, <1>2, PopLine
<1>5. q.dropped - p.dropped = Step(p, 0) /\ Step(p, 0) \in {0, 1}
  BY <1>2, <1>3, <1>4
<1>6. Line(p, 0).edge - be <= d + Step(p, 0) /\ 0 <= d + Step(p, 0)
  <2>1. 0 \in Places(p)
    BY <1>1, RingFields DEF Places
  <2>2. Line(p, 0).edge \in Nat
    BY <2>1, LineFields DEF Good
  <2> QED BY <1>1, <1>5, <2>2 DEF Good, Tight
<1>7. Good(q, n, e, m, bi, be, d + Step(p, 0))
  <2> DEFINE d2 == d + Step(p, 0)
  <2>1. d2 \in Int /\ Line(p, 0).edge - be <= d2 /\ 0 <= d2
    BY <1>5, <1>6
  <2> HIDE DEF d2
  <2>2. Good(q, n, e, m, bi, be, d2)
    BY <1>1, <1>2, <2>1, GoodPop
  <2> QED BY <2>2 DEF d2
<1>8. d + q.dropped - p.dropped = d + Step(p, 0)
  BY <1>2, <1>3, <1>4
<1> QED BY <1>2, <1>5, <1>7, <1>8 DEF q

-----------------------------------------------------------------------------
(* What enqueue leaves alone.                                              *)
LEMMA EnqueueKeeps ==
  ASSUME NEW p \in Pump, NEW r \in Report, NEW kind \in Kinds
  PROVE  /\ Enqueue(p, r, kind).ready = p.ready
         /\ Enqueue(p, r, kind).in_flight = p.in_flight
         /\ kind # "transition" => Enqueue(p, r, kind).dropped = p.dropped
BY DEF Enqueue, EnqueuePriority, EnqueueAside, EnqueueTransition, EnqueueContinuous,
       PushBack, EvictOldest, Kinds, Pump

(* An aside (a haptic ack, a battery level) joins the line without         *)
(* touching the snapshot, or gives way when the line is full.              *)
LEMMA GoodAside ==
  ASSUME NEW p \in Pump,
         NEW n \in Nat, NEW e \in Nat, NEW bi \in Nat, NEW be \in Nat, NEW d \in Int,
         Good(p, n, e, e, bi, be, d),
         NEW r \in Report, r.carries # "state", r.edge = e
  PROVE  Good(Enqueue(p, r, "aside"), n, e, e, bi, be, d)
BY GoodPushAside DEF Enqueue, EnqueueAside

(* A transition supersedes the snapshot and goes to the end of the line;   *)
(* what it evicts is counted.                                              *)
LEMMA GoodTransition ==
  ASSUME NEW p \in Pump,
         NEW n \in Nat, NEW e \in Nat, NEW m \in Int,
         NEW bi \in Nat, NEW be \in Nat, NEW d \in Int,
         Good(p, n, e, m, bi, be, d), e <= m + 1,
         NEW r \in Report, r.carries = "state", r.input = n, r.edge = e,
         NEW q, q = Enqueue(p, r, "transition")
  PROVE  /\ Good(q, n, e, e, bi, be, d + q.dropped - p.dropped)
         /\ q.dropped - p.dropped \in {0, 1}
<1> DEFINE p1 == [p EXCEPT !.latest = NoReport]
<1>1. p1 \in Pump /\ p1.latest = NoReport /\ p1.dropped = p.dropped /\ p.dropped \in Nat
  BY DEF Pump
<1>2. Good(p1, n, e, m, bi, be, d)
  BY GoodForget
<1>3. q = PushBack(IF Full(p1) THEN EvictOldest(p1) ELSE p1, r, FALSE)
  BY DEF Enqueue, EnqueueTransition
<1> HIDE DEF p1
<1>4. CASE ~Full(p1)
  <2>1. q = PushBack(p1, r, FALSE)
    BY <1>3, <1>4
  <2>2. Good(q, n, e, e, bi, be, d)
    <3>1. Good(PushBack(p1, r, FALSE), n, e, e, bi, be, d)
      BY <1>1, <1>2, <1>4, GoodPushState
    <3> QED BY <2>1, <3>1, Zenon
  <2>3. q.dropped = p1.dropped
    BY <1>1, <2>1 DEF PushBack, Pump
  <2>4. d + q.dropped - p.dropped = d /\ q.dropped - p.dropped = 0
    BY <1>1, <2>3
  <2> QED BY <2>2, <2>4
<1>5. CASE Full(p1)
  <2> DEFINE p2 == EvictOldest(p1)
             d2 == d + p2.dropped - p1.dropped
  <2>1. p2 \in Pump /\ ~Full(p2)
    BY <1>1, <1>5, EvictOldestType
  <2>2. /\ Good(p2, n, e, m, bi, be, d2)
        /\ p2.dropped - p1.dropped \in {0, 1}
        /\ p2.latest = NoReport
    BY <1>1, <1>2, <1>5, GoodEvict
  <2>3. q = PushBack(p2, r, FALSE)
    BY <1>3, <1>5
  <2>4. p2.dropped \in Nat
    BY <2>1 DEF Pump
  <2>5. d2 \in Int
    BY <1>1, <2>4
  <2> HIDE DEF p2, d2
  <2>6. Good(q, n, e, e, bi, be, d2)
    <3>1. Good(PushBack(p2, r, FALSE), n, e, e, bi, be, d2)
      BY <2>1, <2>2, <2>5, GoodPushState
    <3> QED BY <2>3, <3>1, Zenon
  <2>7. q.dropped = p2.dropped
    BY <2>1, <2>3 DEF PushBack, Pump
  <2>8. d2 = d + q.dropped - p.dropped
    BY <1>1, <2>7 DEF d2
  <2> QED BY <1>1, <2>2, <2>6, <2>7, <2>8
<1> QED BY <1>4, <1>5

-----------------------------------------------------------------------------
(* Edges the host skips when it goes from edge a to edge b.                *)
Loss(a, b) == IF b > a + 1 THEN b - a - 1 ELSE 0

(* The report that take() hands out is at least as new as the last one,    *)
(* and what waits behind it is in order after it; the edges it skips have  *)
(* been admitted as lost.                                                  *)
Handed(p, t, n, e, m, bi, be, d) ==
  /\ t.in_flight \in Report /\ t.ready = FALSE /\ t.dropped = p.dropped
  /\ t.in_flight.carries = "state" =>
       /\ Current(t.in_flight, n, e, bi, be)
       /\ Good(t, n, e, m, t.in_flight.input, t.in_flight.edge, d - Loss(be, t.in_flight.edge))
  /\ t.in_flight.carries # "state" => Good(t, n, e, m, bi, be, d)

(* take() of a reply hands out no state: what waits stays as it was.       *)
LEMMA GoodTakePriority ==
  ASSUME NEW p \in Pump, p.priority # <<>>,
         NEW n, NEW e, NEW m, NEW bi, NEW be, NEW d, Good(p, n, e, m, bi, be, d)
  PROVE  Handed(p, TakePriority(p), n, e, m, bi, be, d)
<1> DEFINE t == TakePriority(p)
<1>1. /\ t.transitions = p.transitions /\ t.transition_aside = p.transition_aside
      /\ t.transition_head = p.transition_head /\ t.transition_count = p.transition_count
      /\ t.latest = p.latest /\ t.priority = Tail(p.priority)
      /\ t.in_flight = Head(p.priority) /\ t.ready = FALSE /\ t.dropped = p.dropped
  BY DEF TakePriority, Pump
<1> HIDE DEF t
<1>2. p.priority \in Seq(Report)
  BY DEF Pump
<1>3. Head(p.priority) \in Report /\ 1 \in DOMAIN p.priority /\ Head(p.priority) = p.priority[1]
  BY <1>2
<1>4. \A i \in DOMAIN Tail(p.priority) :
        i + 1 \in DOMAIN p.priority /\ Tail(p.priority)[i] = p.priority[i + 1]
  BY <1>2
<1>5. Head(p.priority).carries # "state"
  BY <1>3 DEF Good, Content
<1>6. Places(t) = Places(p)
  BY <1>1 DEF Places
<1>7. \A i : Line(t, i) = Line(p, i) /\ Step(t, i) = Step(p, i)
  BY <1>1 DEF Line, Step, At
<1>8. Content(t)
  BY <1>1, <1>4, <1>6, <1>7 DEF Content, Good
<1>9. Sorted(t, n, e, bi, be)
  BY <1>1, <1>6, <1>7 DEF Sorted, Good
<1>10. Tight(t, m, be, d)
  BY <1>1, <1>6, <1>7 DEF Tight, Good
<1>11. Good(t, n, e, m, bi, be, d)
  BY <1>8, <1>9, <1>10 DEF Good
<1> QED BY <1>1, <1>3, <1>5, <1>11 DEF Handed, t

(* take() of the head of the line hands out the oldest waiting state, or   *)
(* an aside that is none.                                                  *)
LEMMA GoodTakeOrdered ==
  ASSUME NEW p \in Pump, p.transition_count > 0,
         NEW n \in Nat, NEW e \in Nat, NEW m \in Int,
         NEW bi \in Nat, NEW be \in Nat, NEW d \in Int,
         Good(p, n, e, m, bi, be, d)
  PROVE  Handed(p, TakeOrdered(p), n, e, m, bi, be, d)
<1> DEFINE t == TakeOrdered(p)
           r == Line(p, 0)
<1>1. /\ t.transition_head = Wrap(p.transition_head + 1)
      /\ t.transition_count = p.transition_count - 1
      /\ t.transitions = p.transitions /\ t.transition_aside = p.transition_aside
      /\ t.latest = p.latest /\ t.priority = p.priority
      /\ t.in_flight = p.transitions[p.transition_head]
      /\ t.ready = FALSE /\ t.dropped = p.dropped
  BY DEF TakeOrdered, Pump
<1>2. t \in Pump
  <2>1. p.transition_count - 1 \in 0 .. TransitionCapacity
    BY RingFields, CapacityAssumption
  <2>2. p.transitions[p.transition_head] \in Report \cup {NoReport}
    BY RingFields DEF Pump
  <2> QED BY <2>1, <2>2, RingFields DEF TakeOrdered, Pump
<1> HIDE DEF t
<1>3. t.in_flight = r
  BY <1>1, <1>2, PopLine
<1>4. 0 \in Places(p)
  BY RingFields DEF Places
<1>5. r \in Report /\ r.input \in Nat /\ r.edge \in Nat /\ Step(p, 0) \in {0, 1}
  BY <1>4, LineFields DEF Good, Content
<1>6. r.edge - Step(p, 0) - be <= d /\ 0 <= d
  BY DEF Good, Tight
<1>7. CASE r.carries = "state"
  <2> DEFINE d2 == d - Loss(be, r.edge)
  <2>1. Current(r, n, e, bi, be)
    BY <1>4, <1>7 DEF Good, Sorted
  <2>2. d2 \in Int /\ 0 <= d2 /\ r.edge - r.edge <= d2
    BY <1>5, <1>6 DEF Loss
  <2> HIDE DEF d2
  <2>3. Good(t, n, e, m, r.input, r.edge, d2)
    <3> DEFINE i2 == r.input
               e2 == r.edge
    <3>1. i2 \in Nat /\ e2 \in Nat /\ r.edge - e2 <= d2 /\ i2 = r.input /\ e2 = r.edge
      BY <1>5, <2>2
    <3> HIDE DEF i2, e2
    <3>2. Good(t, n, e, m, i2, e2, d2)
      BY <1>1, <1>2, <1>7, <2>2, <3>1, GoodPop
    <3> QED BY <3>2 DEF i2, e2
  <2> QED BY <1>1, <1>3, <1>5, <1>7, <2>1, <2>3 DEF Handed, d2, t
<1>8. CASE r.carries # "state"
  <2>1. Step(p, 0) = 0
    BY <1>4, <1>5, <1>8 DEF Good, Content
  <2>2. r.edge - be <= d
    BY <1>5, <1>6, <2>1
  <2>3. Good(t, n, e, m, bi, be, d)
    BY <1>1, <1>2, <1>6, <2>2, GoodPop
  <2> QED BY <1>1, <1>3, <1>5, <1>8, <2>3 DEF Handed, t
<1> QED BY <1>7, <1>8

(* take() of the snapshot, with no line before it, hands out the newest    *)
(* state.                                                                  *)
LEMMA GoodTakeLatest ==
  ASSUME NEW p \in Pump, p.transition_count = 0, p.latest # NoReport,
         NEW n \in Nat, NEW e \in Nat, NEW m \in Int,
         NEW bi \in Nat, NEW be \in Nat, NEW d \in Int,
         Good(p, n, e, m, bi, be, d), e <= m + 1
  PROVE  Handed(p, TakeLatest(p), n, e, m, bi, be, d)
<1> DEFINE t == TakeLatest(p)
           r == p.latest
           d2 == d - Loss(be, r.edge)
<1>1. /\ t.transition_head = p.transition_head /\ t.transition_count = 0
      /\ t.transitions = p.transitions /\ t.transition_aside = p.transition_aside
      /\ t.latest = NoReport /\ t.priority = p.priority
      /\ t.in_flight = r /\ t.ready = FALSE /\ t.dropped = p.dropped
  BY DEF TakeLatest, Pump
<1>2. r \in Report
  BY DEF Pump
<1>3. r.input \in Nat /\ r.edge \in Nat
  BY <1>2, ReportFields
<1> HIDE DEF t
<1>4. Places(t) = {} /\ Places(p) = {}
  BY <1>1 DEF Places
<1>5. Content(t)
  BY <1>1, <1>4 DEF Content, Good
<1>6. Current(r, n, e, bi, be)
  BY DEF Good, Sorted
<1>7. m - be <= d /\ 0 <= d
  BY DEF Good, Tight
<1>8. d2 \in Int /\ 0 <= d2 /\ m - r.edge <= d2
  BY <1>3, <1>6, <1>7 DEF Loss, Current
<1> HIDE DEF d2
<1>9. Good(t, n, e, m, r.input, r.edge, d2)
  BY <1>1, <1>4, <1>5, <1>6, <1>8 DEF Good, Sorted, Tight, Current
<1>10. Good(t, n, e, m, bi, be, d)
  BY <1>1, <1>4, <1>5, <1>7 DEF Good, Sorted, Tight
<1> QED BY <1>1, <1>2, <1>6, <1>9, <1>10 DEF Handed, t, d2

(* take() hands out the next state in order, with no more edges passed     *)
(* over than the counters admit.                                           *)
LEMMA GoodTake ==
  ASSUME NEW p \in Pump, CanTake(p),
         NEW n \in Nat, NEW e \in Nat, NEW m \in Int,
         NEW bi \in Nat, NEW be \in Nat, NEW d \in Int,
         Good(p, n, e, m, bi, be, d), e <= m + 1
  PROVE  Handed(p, Take(p), n, e, m, bi, be, d)
<1>1. CASE p.priority # <<>>
  BY <1>1, GoodTakePriority DEF Take
<1>2. CASE p.priority = <<>> /\ p.transition_count > 0
  BY <1>2, GoodTakeOrdered DEF Take
<1>3. CASE p.priority = <<>> /\ ~(p.transition_count > 0)
  <2>1. p.transition_count = 0
    BY <1>3, RingFields
  <2>2. p.latest # NoReport
    BY <1>3, <2>1 DEF CanTake, Empty
  <2> QED BY <1>3, <2>1, <2>2, GoodTakeLatest DEF Take
<1> QED BY <1>1, <1>2, <1>3

(* A report handed out and then lost: the line may start further ahead of  *)
(* what was handed out before, if that many more losses are admitted.      *)
LEMMA GoodRebase ==
  ASSUME NEW p \in Pump, NEW n \in Nat, NEW e \in Nat, NEW m \in Int,
         NEW bi \in Nat, NEW be \in Nat, NEW d \in Int, Good(p, n, e, m, bi, be, d),
         NEW bi2 \in Nat, NEW be2 \in Nat, NEW d2 \in Int,
         bi2 <= bi, be2 <= be, be - be2 <= d2 - d, d <= d2
  PROVE  Good(p, n, e, m, bi2, be2, d2)
<1>1. p.transition_count \in Nat
  BY RingFields
<1>2. Content(p)
  BY DEF Good
<1>3. Sorted(p, n, e, bi2, be2)
  BY <1>2, LineFields DEF Good, Sorted, Current
<1>4. Tight(p, m, be2, d2)
  <2>1. CASE p.transition_count = 0
    BY <2>1 DEF Good, Tight
  <2>2. CASE p.transition_count > 0
    <3>1. 0 \in Places(p)
      BY <1>1, <2>2 DEF Places
    <3>2. Line(p, 0).edge \in Nat /\ Step(p, 0) \in {0, 1}
      BY <1>2, <3>1, LineFields
    <3> QED BY <2>2, <3>2 DEF Good, Tight
  <2> QED BY <1>1, <2>1, <2>2
<1> QED BY <1>2, <1>3, <1>4 DEF Good

(* Enqueueing the client's newest state, or an aside or a reply beside it. *)
Newest(r, kind, n, e, m) ==
  /\ r \in Report /\ r.input = n /\ r.edge = e
  /\ e <= m + 1
  /\ \/ kind = "transition" /\ r.carries = "state"
     \/ kind = "continuous" /\ m = e
     \/ kind \in {"aside", "priority"} /\ m = e /\ r.carries # "state"

Enqueued(p, q, n, e, bi, be, d) ==
  /\ q \in Pump /\ q.ready = p.ready /\ q.in_flight = p.in_flight
  /\ Good(q, n, e, e, bi, be, d + q.dropped - p.dropped)
  /\ q.dropped - p.dropped \in {0, 1}

(* The one fact the driver needs of enqueue(): a state newest of all, an   *)
(* aside or a reply joins a pump in order, and the pump is in order still, *)
(* short of at most the one transition it counts as dropped.               *)
LEMMA EnqueueGood ==
  ASSUME NEW p \in Pump, NEW n \in Nat, NEW e \in Nat, NEW m \in Int,
         NEW bi \in Nat, NEW be \in Nat, NEW d \in Int,
         Good(p, n, e, m, bi, be, d),
         NEW r, NEW kind, Newest(r, kind, n, e, m)
  PROVE  /\ Enqueued(p, Enqueue(p, r, kind), n, e, bi, be, d)
         /\ kind # "transition" => Enqueue(p, r, kind).dropped = p.dropped
<1> DEFINE q == Enqueue(p, r, kind)
<1>0. /\ r \in Report /\ r.input = n /\ r.edge = e /\ e <= m + 1 /\ kind \in Kinds
      /\ \/ kind = "transition" /\ r.carries = "state"
         \/ kind = "continuous" /\ m = e
         \/ kind \in {"aside", "priority"} /\ m = e /\ r.carries # "state"
  BY DEF Newest, Kinds
<1>1. /\ q \in Pump /\ q.ready = p.ready /\ q.in_flight = p.in_flight
      /\ kind # "transition" => q.dropped = p.dropped
  BY <1>0, EnqueueType, EnqueueKeeps
<1>2. p.dropped \in Nat /\ q.dropped \in Nat
  BY <1>1 DEF Pump
<1>3. CASE kind = "transition"
  <2>1. q = Enqueue(p, r, "transition") /\ r.carries = "state"
    BY <1>0, <1>3
  <2> HIDE DEF q
  <2>2. /\ Good(q, n, e, e, bi, be, d + q.dropped - p.dropped)
        /\ q.dropped - p.dropped \in {0, 1}
    BY <1>0, <2>1, GoodTransition
  <2> QED BY <1>1, <1>3, <2>2 DEF Enqueued, q
<1>4. CASE kind # "transition"
  <2>1. d + q.dropped - p.dropped = d /\ q.dropped - p.dropped = 0
    BY <1>1, <1>2, <1>4
  <2>2. Good(p, n, e, e, bi, be, d)
    BY <1>0, <1>4
  <2>3. Good(q, n, e, e, bi, be, d)
    <3>1. CASE kind = "continuous"
      <4>1. q = EnqueueContinuous(p, r)
        BY <3>1 DEF Enqueue
      <4>2. e \in Int
        OBVIOUS
      <4> QED BY <1>0, <2>2, <4>1, <4>2, GoodContinuous
    <3>2. CASE kind = "aside"
      BY <1>0, <2>2, <3>2, GoodAside
    <3>3. CASE kind = "priority"
      <4>1. q = EnqueuePriority(p, r) /\ r.carries # "state"
        BY <1>0, <3>3 DEF Enqueue
      <4> QED BY <1>0, <2>2, <4>1, GoodPriority
    <3> QED BY <1>0, <1>4, <3>1, <3>2, <3>3
  <2> QED BY <1>1, <2>1, <2>3 DEF Enqueued
<1> QED BY <1>3, <1>4

-----------------------------------------------------------------------------

(* A report is between the pump and the host, and it carries state.        *)
Delivering == taken # {} \/ vhf = "holding"
StateInFlight == Delivering /\ pump.in_flight.carries = "state"

(* What was handed out last, and the edges the host will skip for it.      *)
BaseInput == IF StateInFlight THEN pump.in_flight.input ELSE host_input
BaseEdge  == IF StateInFlight THEN pump.in_flight.edge ELSE host_edge
Pending   == IF StateInFlight THEN Skips(pump.in_flight.edge) ELSE 0
Slack     == pump.dropped + failed - skipped - Pending

(* The newest edge enqueued: all but the one encoded and not enqueued yet. *)
EnqueuedEdge == edge - (IF encoded = NoReport THEN 0 ELSE EdgeOf(encoded.kind))

(* One submission at a time, granted by VHF, of a report.                  *)
Handover ==
  /\ OneSubmission
  /\ pump.ready => vhf = "granted"
  /\ Delivering => pump.in_flight \in Report
  /\ StateInFlight => Current(pump.in_flight, last_input, edge, host_input, host_edge)

(* What the IOCTL has encoded is still the client's newest state.          *)
EncodedCurrent ==
  encoded # NoReport =>
    /\ encoded.report.input = last_input /\ encoded.report.edge = edge
    /\ \/ /\ Profile # "steam" /\ encoded.report.carries = "state"
          /\ encoded.kind \in {"continuous", "transition"}
       \/ Profile = "steam" /\ encoded.report.carries = "aside" /\ encoded.kind = "aside"

IInv ==
  /\ TypeOK
  /\ Handover
  /\ EncodedCurrent
  /\ Good(pump, last_input, edge, EnqueuedEdge, BaseInput, BaseEdge, Slack)

-----------------------------------------------------------------------------
(* pump_report_locked leaves a pump that fits its arrays and at most one   *)
(* more actor with a report taken.                                         *)
LEMMA TakeNextType ==
  ASSUME NEW p, Fits(p), NEW actor \in Actors, taken \in SUBSET Actors,
         TakeNext(actor, p)
  PROVE  Fits(pump') /\ taken' \in SUBSET Actors
BY FitsClosed DEF TakeNext

(* What the encoders build are reports.                                    *)
LEMMA ReportType ==
  ASSUME NEW n \in Nat, NEW e \in Nat, NEW what \in Carried, last_input \in Nat, edge \in Nat
  PROVE  StateReport(n, e) \in Report /\ OtherReport(what) \in Report
BY DEF StateReport, OtherReport, Report, Carried

(* The newest state handed out, whether on its way, held by VHF or already *)
(* read, has a number.                                                     *)
LEMMA BaseType ==
  ASSUME TypeOK, Handover
  PROVE  BaseInput \in Nat /\ BaseEdge \in Nat /\ Pending \in Nat /\ Slack \in Int
<1>1. host_input \in Nat /\ host_edge \in Nat /\ skipped \in Nat /\ failed \in Nat
  BY DEF TypeOK
<1>2. pump.dropped \in Nat
  BY DEF TypeOK, Pump
<1>3. StateInFlight => pump.in_flight.input \in Nat /\ pump.in_flight.edge \in Nat
  BY ReportFields DEF Handover, StateInFlight
<1>4. BaseInput \in Nat /\ BaseEdge \in Nat /\ Pending \in Nat
  BY <1>1, <1>3 DEF BaseInput, BaseEdge, Pending, Skips
<1> QED BY <1>1, <1>2, <1>4 DEF Slack

(* The end of every handler that pumps: if VHF is ready the next report is *)
(* handed out, in order, and nothing else is under way.                    *)
LEMMA TakeNextGood ==
  ASSUME TypeOK, Handover,
         NEW p \in Pump, NEW actor \in Actors, TakeNext(actor, p),
         p.in_flight = pump.in_flight,
         p.ready => vhf' = "granted" /\ taken = {} /\ vhf # "holding",
         ~p.ready => vhf' = vhf,
         UNCHANGED <<host_input, host_edge, skipped, failed>>,
         last_input' \in Nat, edge' \in Nat, last_input <= last_input', edge <= edge',
         NEW m \in Int, edge' <= m + 1,
         Good(p, last_input', edge', m, BaseInput, BaseEdge,
              p.dropped + failed - skipped - Pending)
  PROVE  /\ Handover'
         /\ Good(pump', last_input', edge', m, BaseInput', BaseEdge', Slack')
         /\ pump'.dropped = p.dropped
<1> DEFINE n == last_input'
           e == edge'
<1>0. /\ BaseInput \in Nat /\ BaseEdge \in Nat /\ Pending \in Nat
      /\ p.dropped \in Nat /\ failed \in Nat /\ skipped \in Nat
      /\ host_input \in Nat /\ host_edge \in Nat
      /\ taken \in SUBSET Actors /\ p.ready \in BOOLEAN
      /\ last_input \in Nat /\ edge \in Nat
  BY BaseType DEF TypeOK, Pump
<1>1. CASE ~CanTake(p)
  <2>1. pump' = p /\ taken' = taken
    BY <1>1 DEF TakeNext, Take
  <2>2. Delivering' = Delivering
    BY <2>1 DEF Delivering
  <2>3. StateInFlight' = StateInFlight
    BY <2>1, <2>2 DEF StateInFlight
  <2>4. BaseInput' = BaseInput /\ BaseEdge' = BaseEdge /\ Pending' = Pending
    BY <2>1, <2>3 DEF BaseInput, BaseEdge, Pending, Skips
  <2>5. Slack' = p.dropped + failed - skipped - Pending
    BY <2>1, <2>4 DEF Slack
  <2>6. OneSubmission'
    BY <1>0, <2>1 DEF Handover, OneSubmission
  <2>7. (pump.ready => vhf = "granted")'
    BY <1>0, <2>1 DEF Handover
  <2>8. (Delivering => pump.in_flight \in Report)'
    BY <2>1, <2>2 DEF Handover
  <2>9. (StateInFlight => Current(pump.in_flight, last_input, edge, host_input, host_edge))'
    <3>1. CASE StateInFlight
      <4>1. Current(pump.in_flight, last_input, edge, host_input, host_edge)
        BY <3>1 DEF Handover
      <4>2. pump.in_flight.input \in Nat /\ pump.in_flight.edge \in Nat
        BY <3>1, ReportFields DEF Handover, StateInFlight
      <4> QED BY <1>0, <2>1, <4>1, <4>2 DEF Current
    <3>2. CASE ~StateInFlight
      BY <2>3, <3>2
    <3> QED BY <3>1, <3>2
  <2>10. Handover'
    BY <2>6, <2>7, <2>8, <2>9 DEF Handover
  <2> QED BY <2>1, <2>4, <2>5, <2>10
<1>2. CASE CanTake(p)
  <2>1. p.ready /\ taken = {} /\ vhf # "holding" /\ vhf' = "granted"
    BY <1>2 DEF CanTake
  <2>2. pump' = Take(p) /\ taken' = {actor}
    BY <1>2, <2>1 DEF TakeNext
  <2>3. ~Delivering /\ ~StateInFlight
    BY <2>1 DEF Delivering, StateInFlight
  <2>4. BaseInput = host_input /\ BaseEdge = host_edge /\ Pending = 0
    BY <2>3 DEF BaseInput, BaseEdge, Pending
  <2> DEFINE d == p.dropped + failed - skipped - Pending
  <2>5. d \in Int /\ d = p.dropped + failed - skipped
    BY <1>0, <2>4
  <2>6. Good(p, n, e, m, host_input, host_edge, d)
    BY <2>4
  <2> HIDE DEF d
  <2>7. Handed(p, pump', n, e, m, host_input, host_edge, d)
    BY <1>0, <1>2, <2>2, <2>5, <2>6, GoodTake
  <2>8. Delivering'
    BY <2>2 DEF Delivering
  <2>9. pump'.in_flight \in Report /\ pump'.ready = FALSE /\ pump'.dropped = p.dropped
    BY <2>7 DEF Handed
  <2>10. OneSubmission'
    BY <2>1, <2>2, <2>9 DEF OneSubmission
  <2>11. CASE pump'.in_flight.carries = "state"
    <3>1. StateInFlight'
      BY <2>8, <2>11 DEF StateInFlight
    <3>2. /\ BaseInput' = pump'.in_flight.input /\ BaseEdge' = pump'.in_flight.edge
          /\ Pending' = Loss(host_edge, pump'.in_flight.edge)
      BY <3>1 DEF BaseInput, BaseEdge, Pending, Skips, Loss
    <3>3. Pending' \in Nat
      BY <1>0, <2>9, <3>2, ReportFields DEF Loss
    <3>4. Slack' = d - Loss(host_edge, pump'.in_flight.edge)
      BY <1>0, <2>5, <2>9, <3>2, <3>3 DEF Slack
    <3>5. /\ Current(pump'.in_flight, n, e, host_input, host_edge)
          /\ Good(pump', n, e, m, pump'.in_flight.input, pump'.in_flight.edge,
                  d - Loss(host_edge, pump'.in_flight.edge))
      BY <2>7, <2>11 DEF Handed
    <3>6. Good(pump', n, e, m, BaseInput', BaseEdge', Slack')
      BY <3>2, <3>4, <3>5
    <3>7. Handover'
      BY <2>9, <2>10, <3>5 DEF Handover
    <3> QED BY <2>9, <3>6, <3>7
  <2>12. CASE pump'.in_flight.carries # "state"
    <3>1. ~StateInFlight'
      BY <2>12 DEF StateInFlight
    <3>2. BaseInput' = host_input /\ BaseEdge' = host_edge /\ Pending' = 0
      BY <3>1 DEF BaseInput, BaseEdge, Pending
    <3>3. Slack' = d
      BY <1>0, <2>5, <2>9, <3>2 DEF Slack
    <3>4. Good(pump', n, e, m, host_input, host_edge, d)
      BY <2>7, <2>12 DEF Handed
    <3>5. Handover'
      BY <2>9, <2>10, <3>1 DEF Handover
    <3> QED BY <2>9, <3>2, <3>3, <3>4, <3>5
  <2> QED BY <2>11, <2>12
<1> QED BY <1>1, <1>2

-----------------------------------------------------------------------------
(* Every step keeps the types; HostReads needs to know that VHF only holds *)
(* reports.                                                                *)
LEMMA TypeStep ==
  ASSUME TypeOK, Handover, [Next]_vars
  PROVE  TypeOK'
<1> USE DEF TypeOK
<1>0. Fits(pump)
  BY DEF TypeOK, Fits
<1>1. ASSUME NEW sig \in Signatures, EncodeInput(sig) PROVE TypeOK'
  <2>1. Fits(pump')
    BY <1>0, <1>1, FitsClosed DEF EncodeInput
  <2>2. edge' \in Nat /\ last_input' \in Nat
    BY <1>1 DEF EncodeInput, EdgeOf
  <2>3. encoded' \in Encoded
    BY <1>1, <2>2, ReportType DEF EncodeInput, Encoded, Classify, Kinds, Carried
  <2> QED BY <1>1, <2>1, <2>2, <2>3 DEF EncodeInput, host, Fits
<1>2. ASSUME NEW sig \in Signatures, SteamInput(sig) PROVE TypeOK'
  <2>1. edge' \in Nat /\ last_input' \in Nat
    BY <1>2 DEF SteamInput, EdgeOf
  <2>2. Fits(Enqueue(Remember(pump, sig), StateReport(last_input', edge'), Classify(pump, sig)))
    BY <1>0, <2>1, FitsClosed, ReportType DEF Classify, Kinds, Carried
  <2>3. Fits(pump') /\ taken' \in SUBSET Actors
    BY <1>2, <2>2, TakeNextType DEF SteamInput, Actors
  <2> QED BY <1>2, <2>1, <2>3 DEF SteamInput, host, Fits
<1>3. ASSUME NEW kind \in {"continuous", "transition"}, EncodeUpdate(kind) PROVE TypeOK'
  <2>1. edge' \in Nat
    BY <1>3 DEF EncodeUpdate, EdgeOf
  <2>2. encoded' \in Encoded
    BY <1>3, <2>1, ReportType DEF EncodeUpdate, Encoded, Kinds, Carried
  <2> QED BY <1>3, <2>1, <2>2 DEF EncodeUpdate, host
<1>4. ASSUME NEW kind \in {"continuous", "transition"}, SteamUpdate(kind) PROVE TypeOK'
  <2>1. edge' \in Nat
    BY <1>4 DEF SteamUpdate, EdgeOf
  <2>2. Fits(Enqueue(pump, StateReport(last_input, edge'), kind))
    BY <1>0, <2>1, FitsClosed, ReportType DEF Kinds, Carried
  <2>3. Fits(pump') /\ taken' \in SUBSET Actors
    BY <1>4, <2>2, TakeNextType DEF SteamUpdate, Actors
  <2> QED BY <1>4, <2>1, <2>3 DEF SteamUpdate, host, Fits
<1>5. CASE EncodeBattery
  <2>1. encoded' \in Encoded
    BY <1>5, ReportType DEF EncodeBattery, Encoded, Kinds, Carried
  <2> QED BY <1>5, <2>1 DEF EncodeBattery, host
<1>6. CASE PumpEncoded
  <2>1. encoded.report \in Report /\ encoded.kind \in Kinds
    BY <1>6 DEF PumpEncoded, Encoded
  <2>2. Fits(pump') /\ taken' \in SUBSET Actors
    BY <1>0, <1>6, <2>1, FitsClosed, TakeNextType DEF PumpEncoded, Actors
  <2> QED BY <1>6, <2>2 DEF PumpEncoded, host, Fits
<1>7. CASE SteamAck
  <2>1. Fits(Enqueue(pump, OtherReport("aside"), "aside"))
    BY <1>0, FitsClosed, ReportType DEF Kinds, Carried
  <2>2. Fits(pump') /\ taken' \in SUBSET Actors
    BY <1>7, <2>1, TakeNextType DEF SteamAck, Actors
  <2> QED BY <1>7, <2>2 DEF SteamAck, client, host, Fits
<1>8. ASSUME NEW sets_mode \in BOOLEAN, SwitchReply(sets_mode) PROVE TypeOK'
  <2> DEFINE replied == Enqueue(pump, OtherReport("reply"), "priority")
  <2>1. Fits(replied)
    BY <1>0, FitsClosed, ReportType DEF Kinds, Carried
  <2>2. Fits(Enqueue(replied, StateReport(last_input, edge), "continuous"))
    BY <2>1, FitsClosed, ReportType DEF Kinds, Carried
  <2>3. Fits(pump')
    BY <1>8, <2>1, <2>2 DEF SwitchReply
  <2>4. queued' \in BOOLEAN
    BY <1>8 DEF SwitchReply
  <2> QED BY <1>8, <2>3, <2>4 DEF SwitchReply, client, host, Fits
<1>9. CASE SwitchPump
  <2>1. Fits(pump') /\ taken' \in SUBSET Actors
    BY <1>0, <1>9, TakeNextType DEF SwitchPump, Actors
  <2> QED BY <1>9, <2>1 DEF SwitchPump, client, host, Fits
<1>10. CASE ReadyForNextReport
  <2>1. Fits(pump') /\ taken' \in SUBSET Actors
    BY <1>0, <1>10, FitsClosed, TakeNextType DEF ReadyForNextReport, Actors
  <2> QED BY <1>10, <2>1 DEF ReadyForNextReport, client, host, Fits
<1>11. ASSUME NEW battery_due \in BOOLEAN, NEW resend_due \in BOOLEAN,
              KeepaliveTick(battery_due, resend_due)
       PROVE  TypeOK'
  <2> DEFINE p == IF battery_due THEN Enqueue(pump, OtherReport("aside"), "aside") ELSE pump
             q == IF resend_due THEN Enqueue(p, StateReport(last_input, edge), "continuous") ELSE p
  <2>1. Fits(p)
    BY <1>0, FitsClosed, ReportType DEF Kinds, Carried
  <2> HIDE DEF p
  <2>2. Fits(q)
    BY <2>1, FitsClosed, ReportType DEF Kinds, Carried
  <2>3. TakeNext("worker", q)
    BY <1>11 DEF KeepaliveTick, p
  <2> HIDE DEF q
  <2>4. Fits(pump') /\ taken' \in SUBSET Actors
    BY <2>2, <2>3, TakeNextType DEF Actors
  <2> QED BY <1>11, <2>4 DEF KeepaliveTick, client, host, Fits
<1>12. ASSUME NEW actor \in Actors, SubmitTaken(actor) \/ SubmitRefused(actor)
       PROVE  TypeOK'
  BY <1>12 DEF SubmitTaken, SubmitRefused, client, host
<1>13. CASE HostReads
  <2>1. pump.in_flight.input \in Nat /\ pump.in_flight.edge \in Nat
    BY <1>13, ReportFields DEF HostReads, Handover, Delivering
  <2>2. Skips(pump.in_flight.edge) \in Nat
    BY <2>1 DEF Skips
  <2> QED BY <1>13, <2>1, <2>2 DEF HostReads, client, host
<1>14. CASE UNCHANGED vars
  BY <1>14 DEF vars
<1> QED
  BY <1>1, <1>2, <1>3, <1>4, <1>5, <1>6, <1>7, <1>8, <1>9, <1>10, <1>11, <1>12,
     <1>13, <1>14 DEF Next

-----------------------------------------------------------------------------
(* A step that neither takes nor submits: whatever is in flight stays.     *)
LEMMA Quiet ==
  ASSUME TypeOK, Handover,
         pump'.ready = pump.ready, pump'.in_flight = pump.in_flight,
         pump'.dropped = pump.dropped,
         UNCHANGED <<taken, vhf, host_input, host_edge, skipped, failed>>,
         last_input' \in Nat, edge' \in Nat, last_input <= last_input', edge <= edge'
  PROVE  /\ Handover'
         /\ BaseInput' = BaseInput /\ BaseEdge' = BaseEdge /\ Slack' = Slack
<1>1. Delivering' = Delivering /\ StateInFlight' = StateInFlight
  BY DEF Delivering, StateInFlight
<1>2. BaseInput' = BaseInput /\ BaseEdge' = BaseEdge /\ Pending' = Pending
  BY <1>1 DEF BaseInput, BaseEdge, Pending, Skips
<1>3. Slack' = Slack
  BY <1>2 DEF Slack
<1>4. OneSubmission'
  BY DEF Handover, OneSubmission
<1>5. (StateInFlight => Current(pump.in_flight, last_input, edge, host_input, host_edge))'
  <2>1. CASE StateInFlight
    <3>1. Current(pump.in_flight, last_input, edge, host_input, host_edge)
      BY <2>1 DEF Handover
    <3>2. pump.in_flight.input \in Nat /\ pump.in_flight.edge \in Nat
      BY <2>1, ReportFields DEF Handover, StateInFlight
    <3> QED BY <3>1, <3>2 DEF Current, TypeOK
  <2>2. CASE ~StateInFlight
    BY <1>1, <2>2
  <2> QED BY <2>1, <2>2
<1>6. (pump.ready => vhf = "granted")' /\ (Delivering => pump.in_flight \in Report)'
  BY <1>1 DEF Handover
<1> QED BY <1>2, <1>3, <1>4, <1>5, <1>6 DEF Handover

(* When VHF is ready, nothing is in flight.                                *)
LEMMA ReadyIdle ==
  ASSUME Handover, pump.ready
  PROVE  vhf = "granted" /\ taken = {} /\ vhf # "holding"
BY DEF Handover, OneSubmission

(* submit_input_state, first hold (driver.cpp:1276-1305): the client moves *)
(* on, nothing is enqueued yet, and what waits is still in order.          *)
LEMMA EncodeInputStep ==
  ASSUME IInv, NEW sig \in Signatures, EncodeInput(sig), TypeOK'
  PROVE  IInv'
<1> DEFINE kind == Classify(pump, sig)
<1>1. TypeOK /\ Handover /\ pump \in Pump /\ last_input \in Nat /\ edge \in Nat
  BY DEF IInv, TypeOK
<1>2. kind \in {"continuous", "transition"} /\ EdgeOf(kind) \in {0, 1}
  BY DEF Classify, EdgeOf
<1>3. /\ encoded = NoReport /\ Profile # "steam"
      /\ edge' = edge + EdgeOf(kind) /\ last_input' = last_input + 1
      /\ encoded' = [report |-> StateReport(last_input', edge'), kind |-> kind]
      /\ pump' = Remember(pump, sig)
      /\ UNCHANGED <<taken, vhf, host_input, host_edge, skipped, failed>>
  BY DEF EncodeInput, IoctlIdle, host
<1> HIDE DEF kind
<1>4. /\ pump'.ready = pump.ready /\ pump'.in_flight = pump.in_flight
      /\ pump'.dropped = pump.dropped
      /\ pump'.transitions = pump.transitions /\ pump'.transition_aside = pump.transition_aside
      /\ pump'.transition_head = pump.transition_head
      /\ pump'.transition_count = pump.transition_count
      /\ pump'.latest = pump.latest /\ pump'.priority = pump.priority
  BY <1>1, <1>3 DEF Remember, Pump
<1>5. last_input' \in Nat /\ edge' \in Nat /\ last_input <= last_input' /\ edge <= edge'
  BY <1>1, <1>2, <1>3
<1>6. Handover' /\ BaseInput' = BaseInput /\ BaseEdge' = BaseEdge /\ Slack' = Slack
  BY <1>1, <1>3, <1>4, <1>5, Quiet
<1>7. EncodedCurrent'
  BY <1>2, <1>3 DEF EncodedCurrent, StateReport
<1>8. EnqueuedEdge = edge /\ EnqueuedEdge' = edge
  <2>1. encoded' # NoReport
    <3>1. StateReport(last_input', edge') \in Report
      BY <1>5 DEF StateReport, Report, Carried
    <3> QED BY <1>2, <1>3, <3>1, NoEncodedAssumption DEF Encoded, Kinds
  <2> QED BY <1>1, <1>2, <1>3, <2>1 DEF EnqueuedEdge
<1>9. Good(pump, last_input', edge', edge, BaseInput, BaseEdge, Slack)
  <2>1. Good(pump, last_input, edge, edge, BaseInput, BaseEdge, Slack)
    BY <1>8 DEF IInv
  <2>2. BaseInput \in Nat /\ BaseEdge \in Nat /\ Slack \in Int /\ edge \in Int
    BY <1>1, BaseType
  <2> QED BY <1>1, <1>5, <2>1, <2>2, GoodAdvance
<1>10. Good(pump', last_input', edge', edge, BaseInput, BaseEdge, Slack)
  BY <1>4, <1>9, GoodSame
<1> QED BY <1>6, <1>7, <1>8, <1>10 DEF IInv

(* submit_touch_state, submit_motion_state and submit_battery_state, first *)
(* hold: the last input re-encoded, with one more edge if a touch began or *)
(* ended.                                                                  *)
LEMMA EncodeUpdateStep ==
  ASSUME IInv, NEW kind \in {"continuous", "transition"}, EncodeUpdate(kind), TypeOK'
  PROVE  IInv'
<1>1. TypeOK /\ Handover /\ pump \in Pump /\ last_input \in Nat /\ edge \in Nat
  BY DEF IInv, TypeOK
<1>2. EdgeOf(kind) \in {0, 1}
  BY DEF EdgeOf
<1>3. /\ encoded = NoReport /\ Profile # "steam"
      /\ edge' = edge + EdgeOf(kind) /\ last_input' = last_input
      /\ encoded' = [report |-> StateReport(last_input, edge'), kind |-> kind]
      /\ pump' = pump
      /\ UNCHANGED <<taken, vhf, host_input, host_edge, skipped, failed>>
  BY DEF EncodeUpdate, IoctlIdle, host
<1>4. last_input' \in Nat /\ edge' \in Nat /\ last_input <= last_input' /\ edge <= edge'
  BY <1>1, <1>2, <1>3
<1>5. Handover' /\ BaseInput' = BaseInput /\ BaseEdge' = BaseEdge /\ Slack' = Slack
  BY <1>1, <1>3, <1>4, Quiet
<1>6. EncodedCurrent'
  BY <1>2, <1>3 DEF EncodedCurrent, StateReport
<1>7. EnqueuedEdge = edge /\ EnqueuedEdge' = edge
  <2>1. encoded' # NoReport
    <3>1. StateReport(last_input, edge') \in Report
      BY <1>1, <1>4 DEF StateReport, Report, Carried
    <3> QED BY <1>3, <3>1, NoEncodedAssumption DEF Encoded, Kinds
  <2> QED BY <1>1, <1>2, <1>3, <2>1 DEF EnqueuedEdge
<1>8. Good(pump, last_input', edge', edge, BaseInput, BaseEdge, Slack)
  <2>1. Good(pump, last_input, edge, edge, BaseInput, BaseEdge, Slack)
    BY <1>7 DEF IInv
  <2>2. BaseInput \in Nat /\ BaseEdge \in Nat /\ Slack \in Int /\ edge \in Int
    BY <1>1, BaseType
  <2> QED BY <1>1, <1>4, <2>1, <2>2, GoodAdvance
<1> QED BY <1>3, <1>5, <1>6, <1>7, <1>8 DEF IInv

(* submit_battery_state of a Steam controller (driver.cpp:1222-1255): a    *)
(* packet that says nothing about the pad's state.                         *)
LEMMA EncodeBatteryStep ==
  ASSUME IInv, EncodeBattery, TypeOK'
  PROVE  IInv'
<1>1. TypeOK /\ Handover /\ pump \in Pump /\ last_input \in Nat /\ edge \in Nat
  BY DEF IInv, TypeOK
<1>2. /\ encoded = NoReport /\ Profile = "steam"
      /\ edge' = edge /\ last_input' = last_input
      /\ encoded' = [report |-> OtherReport("aside"), kind |-> "aside"]
      /\ pump' = pump
      /\ UNCHANGED <<taken, vhf, host_input, host_edge, skipped, failed>>
  BY DEF EncodeBattery, IoctlIdle, host
<1>3. Handover' /\ BaseInput' = BaseInput /\ BaseEdge' = BaseEdge /\ Slack' = Slack
  BY <1>1, <1>2, Quiet
<1>4. EncodedCurrent'
  BY <1>2 DEF EncodedCurrent, OtherReport
<1>5. EnqueuedEdge = edge /\ EnqueuedEdge' = edge
  BY <1>1, <1>2 DEF EnqueuedEdge, EdgeOf
<1> QED BY <1>2, <1>3, <1>4, <1>5 DEF IInv

(* A handler enqueues, takes what VHF can accept, and leaves VHF alone.    *)
LEMMA PumpStep ==
  ASSUME TypeOK, Handover,
         NEW q \in Pump, NEW actor \in Actors, TakeNext(actor, q),
         q.ready = pump.ready, q.in_flight = pump.in_flight,
         UNCHANGED <<vhf, host_input, host_edge, skipped, failed>>,
         last_input' \in Nat, edge' \in Nat, last_input <= last_input', edge <= edge',
         NEW m \in Int, edge' <= m + 1,
         Good(q, last_input', edge', m, BaseInput, BaseEdge, Slack + q.dropped - pump.dropped)
  PROVE  /\ Handover'
         /\ Good(pump', last_input', edge', m, BaseInput', BaseEdge', Slack')
         /\ pump'.dropped = q.dropped
<1>1. q.dropped \in Nat /\ pump.dropped \in Nat /\ failed \in Nat /\ skipped \in Nat
  BY DEF TypeOK, Pump
<1>2. Pending \in Nat
  BY BaseType
<1>3. Slack + q.dropped - pump.dropped = q.dropped + failed - skipped - Pending
  BY <1>1, <1>2 DEF Slack
<1>4. Good(q, last_input', edge', m, BaseInput, BaseEdge, q.dropped + failed - skipped - Pending)
  BY <1>3
<1>5. q.ready => vhf' = "granted" /\ taken = {} /\ vhf # "holding"
  BY ReadyIdle
<1>6. ~q.ready => vhf' = vhf
  OBVIOUS
<1> QED BY <1>4, <1>5, <1>6, TakeNextGood

(* The second hold of the submit handlers (pump_report): the report        *)
(* encoded in the first is still the newest state of the client when it is *)
(* enqueued, the IOCTL queue being sequential.                             *)
LEMMA PumpEncodedStep ==
  ASSUME IInv, PumpEncoded, TypeOK'
  PROVE  IInv' /\ pump'.dropped - pump.dropped \in {0, 1}
<1> DEFINE r == encoded.report
           kind == encoded.kind
           q == Enqueue(pump, r, kind)
<1>1. TypeOK /\ Handover /\ pump \in Pump /\ last_input \in Nat /\ edge \in Nat
  BY DEF IInv, TypeOK
<1>2. /\ encoded # NoReport /\ encoded' = NoReport
      /\ edge' = edge /\ last_input' = last_input
      /\ TakeNext("ioctl", q)
      /\ UNCHANGED <<vhf, host_input, host_edge, skipped, failed>>
  BY DEF PumpEncoded, host
<1>3. /\ r \in Report /\ kind \in Kinds /\ r.input = last_input /\ r.edge = edge
      /\ \/ kind \in {"continuous", "transition"} /\ r.carries = "state"
         \/ kind = "aside" /\ r.carries = "aside"
  BY <1>1, <1>2 DEF IInv, EncodedCurrent, TypeOK, Encoded
<1>4. /\ EnqueuedEdge = IF kind = "transition" THEN edge - 1 ELSE edge
      /\ EnqueuedEdge' = edge
  BY <1>1, <1>2 DEF EnqueuedEdge, EdgeOf
<1>5. Good(pump, last_input, edge, EnqueuedEdge, BaseInput, BaseEdge, Slack)
  BY DEF IInv
<1>6. BaseInput \in Nat /\ BaseEdge \in Nat /\ Slack \in Int /\ EnqueuedEdge \in Int
  BY <1>1, <1>4, BaseType
<1>7. edge <= EnqueuedEdge + 1 /\ (kind # "transition" => EnqueuedEdge = edge)
  BY <1>1, <1>4
<1> HIDE DEF r, kind, q
<1>8. /\ q \in Pump /\ q.ready = pump.ready /\ q.in_flight = pump.in_flight
      /\ Good(q, last_input, edge, edge, BaseInput, BaseEdge, Slack + q.dropped - pump.dropped)
      /\ q.dropped - pump.dropped \in {0, 1}
  <2>1. Newest(r, kind, last_input, edge, EnqueuedEdge)
    BY <1>3, <1>7 DEF Newest
  <2>2. Enqueued(pump, q, last_input, edge, BaseInput, BaseEdge, Slack)
    BY <1>1, <1>5, <1>6, <2>1, EnqueueGood DEF q
  <2> QED BY <2>2 DEF Enqueued
<1>9. /\ Handover' /\ pump'.dropped = q.dropped
      /\ Good(pump', last_input', edge', edge, BaseInput', BaseEdge', Slack')
  <2>1. "ioctl" \in Actors
    BY DEF Actors
  <2> QED BY <1>1, <1>2, <1>8, <2>1, PumpStep
<1>10. EncodedCurrent'
  BY <1>2 DEF EncodedCurrent
<1> QED BY <1>4, <1>8, <1>9, <1>10 DEF IInv

(* Facts about the current state that the steps below share.               *)
LEMMA Facts ==
  ASSUME IInv
  PROVE  /\ TypeOK /\ Handover /\ EncodedCurrent /\ pump \in Pump
         /\ last_input \in Nat /\ edge \in Nat
         /\ BaseInput \in Nat /\ BaseEdge \in Nat /\ Slack \in Int
         /\ EnqueuedEdge \in Int /\ edge <= EnqueuedEdge + 1
         /\ encoded = NoReport \/ Profile = "steam" => EnqueuedEdge = edge
         /\ Good(pump, last_input, edge, EnqueuedEdge, BaseInput, BaseEdge, Slack)
         /\ pump.dropped \in Nat
<1>1. /\ TypeOK /\ Handover /\ EncodedCurrent /\ pump \in Pump
      /\ last_input \in Nat /\ edge \in Nat /\ pump.dropped \in Nat
      /\ Good(pump, last_input, edge, EnqueuedEdge, BaseInput, BaseEdge, Slack)
  BY DEF IInv, TypeOK, Pump
<1>2. EnqueuedEdge \in Int /\ edge <= EnqueuedEdge + 1
  BY <1>1 DEF EnqueuedEdge, EdgeOf
<1>3. encoded = NoReport \/ Profile = "steam" => EnqueuedEdge = edge
  BY <1>1 DEF EnqueuedEdge, EdgeOf, EncodedCurrent
<1> QED BY <1>1, <1>2, <1>3, BaseType

(* Arithmetic the steps below share.                                       *)
LEMMA Successor ==
  ASSUME NEW x \in Nat
  PROVE  x \in Int /\ x <= x + 1
OBVIOUS

(* submit_input_state of a Steam controller, encoded and enqueued in one   *)
(* hold (driver.cpp:1313-1350).                                            *)
LEMMA SteamInputStep ==
  ASSUME IInv, NEW sig \in Signatures, SteamInput(sig), TypeOK'
  PROVE  IInv' /\ pump'.dropped - pump.dropped \in {0, 1}
<1> DEFINE kind == Classify(pump, sig)
           r == StateReport(last_input', edge')
           p == Remember(pump, sig)
           q == Enqueue(p, r, kind)
<1>1. kind \in {"continuous", "transition"}
  BY DEF Classify
<1>2. /\ encoded = NoReport /\ encoded' = NoReport
      /\ edge' = edge + EdgeOf(kind) /\ last_input' = last_input + 1
      /\ TakeNext("ioctl", q)
      /\ UNCHANGED <<vhf, host_input, host_edge, skipped, failed>>
  BY DEF SteamInput, IoctlIdle, host
<1> HIDE DEF kind
<1>3. /\ last_input' \in Nat /\ edge' \in Nat /\ last_input <= last_input' /\ edge <= edge'
      /\ edge' <= edge + 1 /\ (kind = "continuous" => edge' = edge)
  BY <1>1, <1>2, Facts DEF EdgeOf
<1>4. /\ p \in Pump /\ p.ready = pump.ready /\ p.in_flight = pump.in_flight
      /\ p.dropped = pump.dropped
      /\ p.transitions = pump.transitions /\ p.transition_aside = pump.transition_aside
      /\ p.transition_head = pump.transition_head /\ p.transition_count = pump.transition_count
      /\ p.latest = pump.latest /\ p.priority = pump.priority
  <2>1. pump \in Pump
    BY Facts
  <2> QED BY <2>1 DEF Remember, Pump
<1> HIDE DEF p
<1>5. Good(pump, last_input', edge', edge, BaseInput, BaseEdge, Slack)
  <2>1. Good(pump, last_input, edge, edge, BaseInput, BaseEdge, Slack) /\ edge \in Int
    BY <1>2, Facts
  <2> QED BY <1>3, <2>1, Facts, GoodAdvance
<1>6. Good(p, last_input', edge', edge, BaseInput, BaseEdge, Slack)
  BY <1>4, <1>5, GoodSame
<1>7. r \in Report /\ r.carries = "state" /\ r.input = last_input' /\ r.edge = edge'
  BY <1>3 DEF StateReport, Report, Carried
<1> HIDE DEF r
<1>8. Newest(r, kind, last_input', edge', edge)
  BY <1>1, <1>3, <1>7 DEF Newest
<1>9. Enqueued(p, q, last_input', edge', BaseInput, BaseEdge, Slack)
  <2>1. edge \in Int /\ BaseInput \in Nat /\ BaseEdge \in Nat /\ Slack \in Int
    BY Facts
  <2> QED BY <1>3, <1>4, <1>6, <1>8, <2>1, EnqueueGood
<1> HIDE DEF q
<1>10. /\ Handover' /\ pump'.dropped = q.dropped
       /\ Good(pump', last_input', edge', edge', BaseInput', BaseEdge', Slack')
  <2>0. "ioctl" \in Actors
    BY DEF Actors
  <2>1. edge' \in Nat
    BY <1>3
  <2>3. edge' \in Int /\ edge' <= edge' + 1
    BY <2>1, Successor
  <2>2. /\ q \in Pump /\ q.ready = pump.ready /\ q.in_flight = pump.in_flight
        /\ Good(q, last_input', edge', edge', BaseInput, BaseEdge, Slack + q.dropped - pump.dropped)
    BY <1>4, <1>9 DEF Enqueued
  <2> QED BY <1>2, <1>3, <2>0, <2>2, <2>3, Facts, PumpStep
<1>11. EncodedCurrent' /\ EnqueuedEdge' = edge'
  BY <1>2, <1>3 DEF EncodedCurrent, EnqueuedEdge
<1> QED BY <1>4, <1>9, <1>10, <1>11 DEF IInv, Enqueued

(* submit_touch_state and submit_motion_state of a Steam controller        *)
(* (driver.cpp:1007-1033), encoded and enqueued in one hold.               *)
LEMMA SteamUpdateStep ==
  ASSUME IInv, NEW kind \in {"continuous", "transition"}, SteamUpdate(kind), TypeOK'
  PROVE  IInv' /\ pump'.dropped - pump.dropped \in {0, 1}
<1> DEFINE r == StateReport(last_input, edge')
           q == Enqueue(pump, r, kind)
<1>1. /\ encoded = NoReport /\ encoded' = NoReport
      /\ edge' = edge + EdgeOf(kind) /\ last_input' = last_input
      /\ TakeNext("ioctl", q)
      /\ UNCHANGED <<vhf, host_input, host_edge, skipped, failed>>
  BY DEF SteamUpdate, IoctlIdle, host
<1>2. /\ last_input' \in Nat /\ edge' \in Nat /\ last_input <= last_input' /\ edge <= edge'
      /\ edge' <= edge + 1 /\ (kind = "continuous" => edge' = edge)
  BY <1>1, Facts DEF EdgeOf
<1>3. Good(pump, last_input', edge', edge, BaseInput, BaseEdge, Slack)
  <2>1. Good(pump, last_input, edge, edge, BaseInput, BaseEdge, Slack) /\ edge \in Int
    BY <1>1, Facts
  <2> QED BY <1>2, <2>1, Facts, GoodAdvance
<1>4. r \in Report /\ r.carries = "state" /\ r.input = last_input' /\ r.edge = edge'
  BY <1>1, <1>2 DEF StateReport, Report, Carried
<1> HIDE DEF r
<1>5. Newest(r, kind, last_input', edge', edge)
  BY <1>2, <1>4 DEF Newest
<1>6. Enqueued(pump, q, last_input', edge', BaseInput, BaseEdge, Slack)
  <2>1. /\ edge \in Int /\ BaseInput \in Nat /\ BaseEdge \in Nat /\ Slack \in Int
        /\ pump \in Pump
    BY Facts
  <2> QED BY <1>2, <1>3, <1>5, <2>1, EnqueueGood
<1> HIDE DEF q
<1>7. /\ Handover' /\ pump'.dropped = q.dropped
      /\ Good(pump', last_input', edge', edge', BaseInput', BaseEdge', Slack')
  <2>0. "ioctl" \in Actors
    BY DEF Actors
  <2>1. edge' \in Nat
    BY <1>2
  <2>3. edge' \in Int /\ edge' <= edge' + 1
    BY <2>1, Successor
  <2>2. /\ q \in Pump /\ q.ready = pump.ready /\ q.in_flight = pump.in_flight
        /\ Good(q, last_input', edge', edge', BaseInput, BaseEdge, Slack + q.dropped - pump.dropped)
    BY <1>6 DEF Enqueued
  <2> QED BY <1>1, <1>2, <2>0, <2>2, <2>3, Facts, PumpStep
<1>8. EncodedCurrent' /\ EnqueuedEdge' = edge'
  BY <1>1, <1>2 DEF EncodedCurrent, EnqueuedEdge
<1> QED BY <1>6, <1>7, <1>8 DEF IInv, Enqueued

(* A step that enqueues beside the client's state, or nothing at all.      *)
LEMMA BesideStep ==
  ASSUME IInv, TypeOK',
         NEW q \in Pump, NEW actor \in Actors, TakeNext(actor, q),
         q.ready = pump.ready, q.in_flight = pump.in_flight, q.dropped = pump.dropped,
         UNCHANGED <<last_input, edge, encoded, vhf, host_input, host_edge, skipped, failed>>,
         Good(q, last_input, edge, EnqueuedEdge, BaseInput, BaseEdge, Slack)
  PROVE  IInv' /\ pump'.dropped = pump.dropped
<1>1. Slack + q.dropped - pump.dropped = Slack
  BY Facts
<1>2. /\ last_input' \in Nat /\ edge' \in Nat /\ last_input <= last_input' /\ edge <= edge'
      /\ EnqueuedEdge \in Int /\ edge' <= EnqueuedEdge + 1
  BY Facts
<1>3. Good(q, last_input', edge', EnqueuedEdge, BaseInput, BaseEdge,
           Slack + q.dropped - pump.dropped)
  BY <1>1
<1>4. /\ Handover' /\ pump'.dropped = q.dropped
      /\ Good(pump', last_input', edge', EnqueuedEdge, BaseInput', BaseEdge', Slack')
  BY <1>2, <1>3, Facts, PumpStep
<1>5. EncodedCurrent' /\ EnqueuedEdge' = EnqueuedEdge
  BY Facts DEF EncodedCurrent, EnqueuedEdge
<1> QED BY <1>4, <1>5 DEF IInv

(* A Steam packet that is enqueued beside the client's state.              *)
LEMMA SteamBeside ==
  ASSUME IInv, Profile = "steam", NEW p \in Pump,
         p.ready = pump.ready, p.in_flight = pump.in_flight, p.dropped = pump.dropped,
         Good(p, last_input, edge, EnqueuedEdge, BaseInput, BaseEdge, Slack),
         NEW r, NEW kind, Newest(r, kind, last_input, edge, edge), kind # "transition",
         NEW q, q = Enqueue(p, r, kind)
  PROVE  /\ q \in Pump
         /\ q.ready = pump.ready /\ q.in_flight = pump.in_flight /\ q.dropped = pump.dropped
         /\ Good(q, last_input, edge, EnqueuedEdge, BaseInput, BaseEdge, Slack)
<1>1. EnqueuedEdge = edge /\ edge \in Int
  BY Facts
<1>2. Good(p, last_input, edge, edge, BaseInput, BaseEdge, Slack)
  BY <1>1
<1>3. /\ last_input \in Nat /\ edge \in Nat
      /\ BaseInput \in Nat /\ BaseEdge \in Nat /\ Slack \in Int
  BY Facts
<1>4. /\ Enqueued(p, Enqueue(p, r, kind), last_input, edge, BaseInput, BaseEdge, Slack)
      /\ Enqueue(p, r, kind).dropped = p.dropped
  BY ONLY <1>1, <1>2, <1>3, EnqueueGood, p \in Pump, kind # "transition",
     Newest(r, kind, last_input, edge, edge)
<1>5. Enqueued(p, q, last_input, edge, BaseInput, BaseEdge, Slack) /\ q.dropped = p.dropped
  BY <1>4
<1>6. Slack + q.dropped - p.dropped = Slack
  BY <1>5, Facts
<1> QED BY <1>1, <1>5, <1>6 DEF Enqueued

(* Asides, replies and resends of the newest state are not newer than what *)
(* was enqueued.                                                           *)
LEMMA BesideNewest ==
  ASSUME IInv
  PROVE  /\ Newest(OtherReport("aside"), "aside", last_input, edge, edge)
         /\ Newest(StateReport(last_input, edge), "continuous", last_input, edge, edge)
<1>1. last_input \in Nat /\ edge \in Nat
  BY Facts
<1>2. OtherReport("aside") \in Report /\ StateReport(last_input, edge) \in Report
  BY <1>1, ReportType DEF Carried
<1>3. edge <= edge + 1
  BY <1>1
<1> QED BY <1>2, <1>3 DEF Newest, OtherReport, StateReport

(* evt_vhf_write_report of a Steam controller: the ack of a stop pulse is  *)
(* enqueued beside the state.                                              *)
LEMMA SteamAckStep ==
  ASSUME IInv, SteamAck, TypeOK'
  PROVE  IInv' /\ pump'.dropped = pump.dropped
<1> DEFINE q == Enqueue(pump, OtherReport("aside"), "aside")
<1>1. /\ Profile = "steam" /\ TakeNext("write", q)
      /\ UNCHANGED <<last_input, edge, encoded, vhf, host_input, host_edge, skipped, failed>>
  BY DEF SteamAck, client, host
<1>2. /\ q \in Pump
      /\ q.ready = pump.ready /\ q.in_flight = pump.in_flight /\ q.dropped = pump.dropped
      /\ Good(q, last_input, edge, EnqueuedEdge, BaseInput, BaseEdge, Slack)
  BY <1>1, Facts, BesideNewest, SteamBeside
<1>3. "write" \in Actors
  BY DEF Actors
<1> HIDE DEF q
<1> QED BY <1>1, <1>2, <1>3, BesideStep

(* The unlocked tail of a Switch output report: it only takes.             *)
LEMMA SwitchPumpStep ==
  ASSUME IInv, SwitchPump, TypeOK'
  PROVE  IInv' /\ pump'.dropped = pump.dropped
<1>1. /\ TakeNext("write", pump)
      /\ UNCHANGED <<last_input, edge, encoded, vhf, host_input, host_edge, skipped, failed>>
  BY DEF SwitchPump, client, host
<1>2. "write" \in Actors
  BY DEF Actors
<1> QED BY <1>1, <1>2, Facts, BesideStep

(* The keep-alive tick (driver.cpp:2155-2232) resends the newest state,    *)
(* which no later step can have made older.                                *)
LEMMA KeepaliveStep ==
  ASSUME IInv, NEW battery_due \in BOOLEAN, NEW resend_due \in BOOLEAN,
         KeepaliveTick(battery_due, resend_due), TypeOK'
  PROVE  IInv' /\ pump'.dropped = pump.dropped
<1> DEFINE p == IF battery_due THEN Enqueue(pump, OtherReport("aside"), "aside") ELSE pump
           q == IF resend_due THEN Enqueue(p, StateReport(last_input, edge), "continuous") ELSE p
<1>1. /\ Profile = "steam" /\ TakeNext("worker", q)
      /\ UNCHANGED <<last_input, edge, encoded, vhf, host_input, host_edge, skipped, failed>>
  BY DEF KeepaliveTick, client, host
<1>2. /\ p \in Pump
      /\ p.ready = pump.ready /\ p.in_flight = pump.in_flight /\ p.dropped = pump.dropped
      /\ Good(p, last_input, edge, EnqueuedEdge, BaseInput, BaseEdge, Slack)
  <2>1. CASE battery_due
    BY <1>1, <2>1, Facts, BesideNewest, SteamBeside
  <2>2. CASE ~battery_due
    BY <2>2, Facts
  <2> QED BY <2>1, <2>2
<1> HIDE DEF p
<1>3. /\ q \in Pump
      /\ q.ready = pump.ready /\ q.in_flight = pump.in_flight /\ q.dropped = pump.dropped
      /\ Good(q, last_input, edge, EnqueuedEdge, BaseInput, BaseEdge, Slack)
  <2>1. CASE resend_due
    BY <1>1, <1>2, <2>1, BesideNewest, SteamBeside
  <2>2. CASE ~resend_due
    BY <1>2, <2>2
  <2> QED BY <2>1, <2>2
<1>4. "worker" \in Actors
  BY DEF Actors
<1> HIDE DEF q
<1> QED BY <1>1, <1>3, <1>4, BesideStep
(* A reply goes to the priority array and a mode change adds a snapshot of *)
(* the newest state: neither disturbs what is in line or in flight.        *)
LEMMA SwitchReplyStep ==
  ASSUME IInv, NEW sets_mode \in BOOLEAN, SwitchReply(sets_mode), TypeOK'
  PROVE  IInv' /\ pump'.dropped = pump.dropped
<1> DEFINE r == OtherReport("reply")
           s == StateReport(last_input, edge)
           p == EnqueuePriority(pump, r)
           q == EnqueueContinuous(p, s)
<1>1. /\ pump' = p \/ pump' = q
      /\ UNCHANGED <<last_input, edge, encoded, taken, vhf, host_input, host_edge, skipped, failed>>
  BY DEF SwitchReply, client, host, Enqueue
<1>2. r \in Report /\ r.carries # "state"
  BY Facts, ReportType DEF OtherReport, Carried
<1>3. s \in Report /\ s.input = last_input /\ s.edge = edge
  BY Facts, ReportType DEF StateReport, Carried
<1> HIDE DEF r, s
<1>4. p \in Pump /\ Good(p, last_input, edge, EnqueuedEdge, BaseInput, BaseEdge, Slack)
  BY <1>2, Facts, EnqueuePriorityType, GoodPriority
<1>5. p.ready = pump.ready /\ p.in_flight = pump.in_flight /\ p.dropped = pump.dropped
  BY Facts DEF EnqueuePriority, Pump
<1> HIDE DEF p
<1>6. Good(q, last_input, edge, EnqueuedEdge, BaseInput, BaseEdge, Slack)
  BY <1>3, <1>4, Facts, GoodContinuous
<1>7. q.ready = pump.ready /\ q.in_flight = pump.in_flight /\ q.dropped = pump.dropped
  BY <1>4, <1>5 DEF EnqueueContinuous, Pump
<1> HIDE DEF q
<1>8. /\ pump'.ready = pump.ready /\ pump'.in_flight = pump.in_flight
      /\ pump'.dropped = pump.dropped
      /\ Good(pump', last_input, edge, EnqueuedEdge, BaseInput, BaseEdge, Slack)
  BY <1>1, <1>4, <1>5, <1>6, <1>7
<1>9. last_input' \in Nat /\ edge' \in Nat /\ last_input <= last_input' /\ edge <= edge'
  BY <1>1, Facts
<1>10. Handover' /\ BaseInput' = BaseInput /\ BaseEdge' = BaseEdge /\ Slack' = Slack
  BY <1>1, <1>8, <1>9, Facts, Quiet
<1>11. EncodedCurrent' /\ EnqueuedEdge' = EnqueuedEdge
  BY <1>1, Facts DEF EncodedCurrent, EnqueuedEdge
<1> QED BY <1>1, <1>8, <1>10, <1>11 DEF IInv

(* VHF asks only when it holds nothing and nothing is on its way.          *)
LEMMA ReadyStep ==
  ASSUME IInv, ReadyForNextReport, TypeOK'
  PROVE  IInv' /\ pump'.dropped = pump.dropped
<1> DEFINE p == SetReady(pump)
<1>1. /\ vhf = "asking" /\ vhf' = "granted" /\ TakeNext("ready", p)
      /\ UNCHANGED <<last_input, edge, encoded, host_input, host_edge, skipped, failed>>
  BY DEF ReadyForNextReport, client, host
<1>2. /\ p \in Pump /\ p.in_flight = pump.in_flight /\ p.dropped = pump.dropped
      /\ p.ready = TRUE
      /\ p.transitions = pump.transitions /\ p.transition_aside = pump.transition_aside
      /\ p.transition_head = pump.transition_head /\ p.transition_count = pump.transition_count
      /\ p.latest = pump.latest /\ p.priority = pump.priority
  <2>1. pump \in Pump
    BY Facts
  <2> QED BY <2>1 DEF SetReady, Pump
<1> HIDE DEF p
<1>3. taken = {} /\ vhf # "holding"
  BY <1>1, Facts DEF Handover, OneSubmission
<1>4. Good(p, last_input, edge, EnqueuedEdge, BaseInput, BaseEdge, Slack)
  BY <1>2, Facts, GoodSame
<1>5. Slack = p.dropped + failed - skipped - Pending
  BY <1>2 DEF Slack
<1>6. /\ last_input' \in Nat /\ edge' \in Nat /\ last_input <= last_input' /\ edge <= edge'
      /\ EnqueuedEdge \in Int /\ edge' <= EnqueuedEdge + 1
  BY <1>1, Facts
<1>7. Good(p, last_input', edge', EnqueuedEdge, BaseInput, BaseEdge,
           p.dropped + failed - skipped - Pending)
  BY <1>1, <1>4, <1>5
<1>8. "ready" \in Actors
  BY DEF Actors
<1>9. /\ Handover' /\ pump'.dropped = p.dropped
      /\ Good(pump', last_input', edge', EnqueuedEdge, BaseInput', BaseEdge', Slack')
  BY <1>1, <1>2, <1>3, <1>6, <1>7, <1>8, Facts, TakeNextGood
<1>10. EncodedCurrent' /\ EnqueuedEdge' = EnqueuedEdge
  BY <1>1, Facts DEF EncodedCurrent, EnqueuedEdge
<1> QED BY <1>2, <1>9, <1>10 DEF IInv

(* An accepted submission moves the report from the actor to VHF.          *)
LEMMA SubmitTakenStep ==
  ASSUME IInv, NEW actor \in Actors, SubmitTaken(actor), TypeOK'
  PROVE  IInv'
<1>1. /\ actor \in taken /\ taken' = taken \ {actor} /\ vhf = "granted" /\ vhf' = "holding"
      /\ UNCHANGED <<pump, last_input, edge, encoded, host_input, host_edge, skipped, failed>>
  BY DEF SubmitTaken, client, host
<1>2. taken' = {} /\ ~pump.ready
  BY <1>1, Facts DEF Handover, OneSubmission
<1>3. Delivering /\ Delivering'
  BY <1>1 DEF Delivering
<1>4. StateInFlight' = StateInFlight
  BY <1>1, <1>3 DEF StateInFlight
<1>5. BaseInput' = BaseInput /\ BaseEdge' = BaseEdge /\ Pending' = Pending
  BY <1>1, <1>4 DEF BaseInput, BaseEdge, Pending, Skips
<1>6. Slack' = Slack
  BY <1>1, <1>5 DEF Slack
<1>7. Handover'
  <2>1. OneSubmission' /\ (pump.ready => vhf = "granted")'
    BY <1>1, <1>2 DEF OneSubmission
  <2>2. (Delivering => pump.in_flight \in Report)'
    BY <1>1, <1>3, Facts DEF Handover
  <2>3. (StateInFlight => Current(pump.in_flight, last_input, edge, host_input, host_edge))'
    BY <1>1, <1>4, Facts DEF Handover
  <2> QED BY <2>1, <2>2, <2>3 DEF Handover
<1>8. EncodedCurrent' /\ EnqueuedEdge' = EnqueuedEdge
  BY <1>1, Facts DEF EncodedCurrent, EnqueuedEdge
<1> QED BY <1>1, <1>5, <1>6, <1>7, <1>8, Facts DEF IInv

(* A refused submission loses the report: the host stays where it was and  *)
(* one more failure is admitted for the edge it would have shown.          *)
LEMMA SubmitRefusedStep ==
  ASSUME IInv, NEW actor \in Actors, SubmitRefused(actor), TypeOK'
  PROVE  IInv'
<1>1. /\ actor \in taken /\ taken' = taken \ {actor} /\ vhf = "granted" /\ vhf' = "asking"
      /\ failed' = failed + 1
      /\ UNCHANGED <<pump, last_input, edge, encoded, host_input, host_edge, skipped>>
  BY DEF SubmitRefused, client, host
<1>2. taken' = {} /\ ~pump.ready
  BY <1>1, Facts DEF Handover, OneSubmission
<1>3. ~Delivering' /\ ~StateInFlight'
  BY <1>1, <1>2 DEF Delivering, StateInFlight
<1>4. BaseInput' = host_input /\ BaseEdge' = host_edge /\ Pending' = 0
  BY <1>1, <1>3 DEF BaseInput, BaseEdge, Pending
<1>5. /\ host_input \in Nat /\ host_edge \in Nat /\ failed \in Nat /\ skipped \in Nat
      /\ pump.dropped \in Nat /\ Pending \in Nat
  BY Facts, BaseType DEF TypeOK
<1>6. Slack' = Slack + Pending + 1 /\ Slack' \in Int
  BY <1>1, <1>4, <1>5 DEF Slack
<1>7. host_input <= BaseInput /\ host_edge <= BaseEdge /\ BaseEdge - host_edge <= Pending + 1
  <2>1. CASE StateInFlight
    <3>1. pump.in_flight.input \in Nat /\ pump.in_flight.edge \in Nat
      BY <2>1, Facts, ReportFields DEF Handover, StateInFlight
    <3>2. Current(pump.in_flight, last_input, edge, host_input, host_edge)
      BY <2>1, Facts DEF Handover
    <3> QED BY <1>5, <2>1, <3>1, <3>2 DEF Current, BaseInput, BaseEdge, Pending, Skips
  <2>2. CASE ~StateInFlight
    BY <1>5, <2>2 DEF BaseInput, BaseEdge, Pending
  <2> QED BY <2>1, <2>2
<1>8. Good(pump, last_input, edge, EnqueuedEdge, host_input, host_edge, Slack')
  <2> DEFINE d2 == Slack'
  <2>1. d2 \in Int /\ BaseEdge - host_edge <= d2 - Slack /\ Slack <= d2
    BY <1>5, <1>6, <1>7, Facts
  <2> HIDE DEF d2
  <2>2. Good(pump, last_input, edge, EnqueuedEdge, host_input, host_edge, d2)
    BY <1>5, <1>7, <2>1, Facts, GoodRebase
  <2> QED BY <2>2 DEF d2
<1>9. Handover'
  BY <1>2, <1>1, <1>3 DEF Handover, OneSubmission
<1>10. EncodedCurrent' /\ EnqueuedEdge' = EnqueuedEdge
  BY <1>1, Facts DEF EncodedCurrent, EnqueuedEdge
<1> QED BY <1>1, <1>4, <1>8, <1>9, <1>10 DEF IInv

(* The host reads what VHF held: it becomes the host's newest state.       *)
LEMMA HostReadsStep ==
  ASSUME IInv, HostReads, TypeOK'
  PROVE  IInv' /\ host_input' \in Nat /\ host_edge' \in Nat
         /\ host_input <= host_input' /\ host_edge <= host_edge'
         /\ host_input' <= last_input /\ host_edge' <= edge
         /\ skipped' = skipped + Loss(host_edge, host_edge')
<1>1. /\ vhf = "holding" /\ vhf' = "asking"
      /\ UNCHANGED <<pump, last_input, edge, encoded, taken, failed>>
  BY DEF HostReads, client
<1>2. taken = {} /\ ~pump.ready
  BY <1>1, Facts DEF Handover, OneSubmission
<1>3. ~Delivering' /\ ~StateInFlight' /\ Delivering
  BY <1>1, <1>2 DEF Delivering, StateInFlight
<1>4. BaseInput' = host_input' /\ BaseEdge' = host_edge' /\ Pending' = 0
  BY <1>3 DEF BaseInput, BaseEdge, Pending
<1>5. /\ host_input \in Nat /\ host_edge \in Nat /\ failed \in Nat /\ skipped \in Nat
      /\ pump.dropped \in Nat /\ last_input \in Nat /\ edge \in Nat
  BY Facts DEF TypeOK
<1>6. /\ host_input' = BaseInput /\ host_edge' = BaseEdge /\ skipped' = skipped + Pending
      /\ Pending = Loss(host_edge, host_edge')
      /\ host_input <= host_input' /\ host_edge <= host_edge'
  <2>1. CASE pump.in_flight.carries = "state"
    <3>1. StateInFlight
      BY <1>3, <2>1 DEF StateInFlight
    <3>2. pump.in_flight.input \in Nat /\ pump.in_flight.edge \in Nat
      BY <3>1, Facts, ReportFields DEF Handover, StateInFlight
    <3>3. Current(pump.in_flight, last_input, edge, host_input, host_edge)
      BY <3>1, Facts DEF Handover
    <3>4. /\ host_input' = pump.in_flight.input /\ host_edge' = pump.in_flight.edge
          /\ skipped' = skipped + Skips(pump.in_flight.edge)
      BY <2>1 DEF HostReads
    <3> QED BY <1>5, <3>1, <3>2, <3>3, <3>4
            DEF Current, BaseInput, BaseEdge, Pending, Skips, Loss
  <2>2. CASE pump.in_flight.carries # "state"
    <3>1. ~StateInFlight
      BY <2>2 DEF StateInFlight
    <3>2. UNCHANGED <<host_input, host_edge, skipped>>
      BY <2>2 DEF HostReads, host
    <3> QED BY <1>5, <3>1, <3>2 DEF BaseInput, BaseEdge, Pending, Loss
  <2> QED BY <2>1, <2>2
<1>7. Slack' = Slack
  BY <1>1, <1>4, <1>5, <1>6, Facts, BaseType DEF Slack
<1>8. Handover'
  BY <1>1, <1>2, <1>3 DEF Handover, OneSubmission
<1>9. EncodedCurrent' /\ EnqueuedEdge' = EnqueuedEdge
  BY <1>1, Facts DEF EncodedCurrent, EnqueuedEdge
<1>10. BaseInput <= last_input /\ BaseEdge <= edge
  BY Facts DEF Good
<1> QED BY <1>1, <1>4, <1>6, <1>7, <1>8, <1>9, <1>10, Facts DEF IInv

-----------------------------------------------------------------------------
(* A step of the client, of the driver or of VHF that is not a read of the *)
(* host: the client sends at most one state and one edge, and the driver   *)
(* admits at most one loss.                                                *)
Grows ==
  /\ last_input' \in {last_input, last_input + 1}
  /\ edge' \in {edge, edge + 1}
  /\ pump'.dropped + failed' \in {pump.dropped + failed, pump.dropped + failed + 1}
  /\ UNCHANGED <<host_input, host_edge, skipped>>

(* Every handler of driver.cpp keeps the invariant; all but the host's     *)
(* read grow the stream.                                                   *)
LEMMA InvariantStep ==
  ASSUME IInv, [Next]_vars
  PROVE  IInv' /\ (Grows \/ HostReads)
<1>0. TypeOK'
  BY TypeStep, Facts
<1>1. /\ last_input \in Nat /\ edge \in Nat /\ pump.dropped \in Nat /\ failed \in Nat
      /\ pump'.dropped \in Nat /\ pump \in Pump
  BY <1>0, Facts DEF TypeOK, Pump
<1>2. ASSUME NEW sig \in Signatures, EncodeInput(sig) PROVE IInv' /\ Grows
  <2>1. pump'.dropped = pump.dropped
    BY <1>1, <1>2 DEF EncodeInput, Remember, Pump
  <2> QED BY <1>0, <1>1, <1>2, <2>1, EncodeInputStep DEF EncodeInput, EdgeOf, Grows, host
<1>3. ASSUME NEW sig \in Signatures, SteamInput(sig) PROVE IInv' /\ Grows
  <2>1. IInv' /\ pump'.dropped - pump.dropped \in {0, 1}
    BY <1>0, <1>3, SteamInputStep
  <2> QED BY <1>1, <1>3, <2>1 DEF SteamInput, EdgeOf, Grows, host
<1>4. ASSUME NEW kind \in {"continuous", "transition"}, EncodeUpdate(kind) PROVE IInv' /\ Grows
  BY <1>0, <1>1, <1>4, EncodeUpdateStep DEF EncodeUpdate, EdgeOf, Grows, host
<1>5. ASSUME NEW kind \in {"continuous", "transition"}, SteamUpdate(kind) PROVE IInv' /\ Grows
  <2>1. IInv' /\ pump'.dropped - pump.dropped \in {0, 1}
    BY <1>0, <1>5, SteamUpdateStep
  <2> QED BY <1>1, <1>5, <2>1 DEF SteamUpdate, EdgeOf, Grows, host
<1>6. CASE EncodeBattery
  BY <1>0, <1>1, <1>6, EncodeBatteryStep DEF EncodeBattery, Grows, host
<1>7. CASE PumpEncoded
  <2>1. IInv' /\ pump'.dropped - pump.dropped \in {0, 1}
    BY <1>0, <1>7, PumpEncodedStep
  <2> QED BY <1>1, <1>7, <2>1 DEF PumpEncoded, Grows, host
<1>8. CASE SteamAck
  BY <1>0, <1>1, <1>8, SteamAckStep DEF SteamAck, Grows, client, host
<1>9. ASSUME NEW sets_mode \in BOOLEAN, SwitchReply(sets_mode) PROVE IInv' /\ Grows
  BY <1>0, <1>1, <1>9, SwitchReplyStep DEF SwitchReply, Grows, client, host
<1>10. CASE SwitchPump
  BY <1>0, <1>1, <1>10, SwitchPumpStep DEF SwitchPump, Grows, client, host
<1>11. CASE ReadyForNextReport
  BY <1>0, <1>1, <1>11, ReadyStep DEF ReadyForNextReport, Grows, client, host
<1>12. ASSUME NEW battery_due \in BOOLEAN, NEW resend_due \in BOOLEAN,
              KeepaliveTick(battery_due, resend_due)
       PROVE  IInv' /\ Grows
  BY <1>0, <1>1, <1>12, KeepaliveStep DEF KeepaliveTick, Grows, client, host
<1>13. ASSUME NEW actor \in Actors, SubmitTaken(actor) PROVE IInv' /\ Grows
  BY <1>0, <1>1, <1>13, SubmitTakenStep DEF SubmitTaken, Grows, client, host
<1>14. ASSUME NEW actor \in Actors, SubmitRefused(actor) PROVE IInv' /\ Grows
  BY <1>0, <1>1, <1>14, SubmitRefusedStep DEF SubmitRefused, Grows, client, host
<1>15. CASE HostReads
  BY <1>0, <1>15, HostReadsStep
<1>16. CASE UNCHANGED vars
  <2>1. UNCHANGED <<pump, last_input, edge, encoded, queued, taken, vhf,
                    host_input, host_edge, skipped, failed, writes>>
    BY <1>16 DEF vars
  <2>2. Grows
    BY <1>1, <2>1 DEF Grows
  <2>3. last_input' \in Nat /\ edge' \in Nat /\ last_input <= last_input' /\ edge <= edge'
    BY <1>1, <2>1
  <2>4. Handover' /\ BaseInput' = BaseInput /\ BaseEdge' = BaseEdge /\ Slack' = Slack
    BY <2>1, <2>3, Facts, Quiet
  <2>5. EncodedCurrent' /\ EnqueuedEdge' = EnqueuedEdge
    BY <2>1, Facts DEF EncodedCurrent, EnqueuedEdge
  <2> QED BY <1>0, <2>1, <2>2, <2>4, <2>5, Facts DEF IInv
<1> QED
  BY <1>2, <1>3, <1>4, <1>5, <1>6, <1>7, <1>8, <1>9, <1>10, <1>11, <1>12, <1>13,
     <1>14, <1>15, <1>16 DEF Next

(* A controller that has just started has nothing waiting or in flight.    *)
LEMMA InvariantInit ==
  ASSUME Init
  PROVE  IInv
<1>1. Reset \in Pump /\ Reset.priority = <<>> /\ Reset.dropped = 0 /\ Reset.ready = FALSE
      /\ Reset.transition_count = 0 /\ Reset.latest = NoReport
  BY ResetType DEF Reset
<1>2. TypeOK
  <2>1. Len(Reset.priority) <= PriorityCapacity
    BY <1>1, CapacityAssumption
  <2>2. {} \in SUBSET Actors
    OBVIOUS
  <2> HIDE DEF Reset
  <2> QED BY <1>1, <2>1, <2>2 DEF Init, TypeOK
<1>3. ~Delivering /\ ~StateInFlight
  BY DEF Init, Delivering, StateInFlight
<1>4. Handover
  BY <1>1, <1>3 DEF Init, Handover, OneSubmission
<1>5. EncodedCurrent /\ EnqueuedEdge = 0
  BY DEF Init, EncodedCurrent, EnqueuedEdge
<1>6. BaseInput = 0 /\ BaseEdge = 0 /\ Slack = 0
  BY <1>1, <1>3 DEF Init, BaseInput, BaseEdge, Pending, Slack
<1>7. Places(Reset) = {}
  BY <1>1 DEF Places
<1>8. Good(Reset, 0, 0, 0, 0, 0, 0)
  BY <1>1, <1>7 DEF Good, Content, Sorted, Tight
<1> QED BY <1>2, <1>4, <1>5, <1>6, <1>8 DEF Init, IInv

(* IInv holds of every reachable state, for every capacity, every bound    *)
(* and every profile of pad: each handler of driver.cpp that touches the   *)
(* pump keeps the line sorted, short only of what the counters admit, and  *)
(* one report at most under way.                                           *)
THEOREM Invariance == Spec => []IInv
<1>1. Init => IInv
  BY InvariantInit
<1>2. IInv /\ [Next]_vars => IInv'
  BY InvariantStep
<1> QED BY <1>1, <1>2, PTL DEF Spec

(* The state of the delivery path is always well typed; in particular the  *)
(* ring index and the priority array of report_pump never leave their      *)
(* arrays.                                                                 *)
THEOREM TypeCorrect == Spec => []TypeOK
<1>1. IInv => TypeOK
  BY DEF IInv
<1> QED BY <1>1, Invariance, PTL

(* The two or three threads that pump (the IOCTL queue, the VHF callbacks, *)
(* the keep-alive) never have two reports between take() and               *)
(* VhfReadReportSubmit at once: read_transfer has one user.                *)
THEOREM SingleSubmission == Spec => []OneSubmission
<1>1. IInv => OneSubmission
  BY DEF IInv, Handover
<1> QED BY <1>1, Invariance, PTL

(* The invariant bounds the edges the host missed by the losses the driver *)
(* counts.                                                                 *)
LEMMA Accounted ==
  ASSUME IInv
  PROVE  EdgesAccounted
<1>1. 0 <= Slack /\ Pending \in Nat
  BY Facts, BaseType DEF Good
<1>2. pump.dropped \in Nat /\ failed \in Nat /\ skipped \in Nat
  BY Facts DEF TypeOK
<1> QED BY <1>1, <1>2 DEF Slack, EdgesAccounted

(* Every press or release the host did not get to see was evicted from a   *)
(* full queue and counted as dropped, or refused by VHF and counted as     *)
(* failed.                                                                 *)
THEOREM EdgesAreAccounted == Spec => []EdgesAccounted
BY Accounted, Invariance, PTL

(* The delivery path, pump, threads and VHF included, implements the       *)
(* abstract stream of StateStream: the client appends states, the host     *)
(* moves forward along them.                                               *)
THEOREM DeliveryImplementsStream == Spec => ImplementsStream
<1>1. Init => Stream!Init
  <2>1. Reset.dropped = 0
    BY DEF Reset
  <2> QED BY <2>1 DEF Init, Stream!Init
<1>2. IInv /\ [Next]_vars => [Stream!Next]_Stream!vars
  <2> SUFFICES ASSUME IInv, [Next]_vars
               PROVE  Stream!Next
    BY DEF Stream!vars
  <2>1. CASE Grows
    BY <2>1 DEF Grows, Stream!Next, Stream!Produce
  <2>2. CASE HostReads
    <3>1. TypeOK' /\ EdgesAccounted'
      <4>1. IInv'
        BY InvariantStep
      <4>2. IInv' => EdgesAccounted'
        BY Accounted, PTL
      <4> QED BY <4>1, <4>2 DEF IInv
    <3>2. UNCHANGED <<last_input, edge, pump, failed>>
      BY <2>2 DEF HostReads, client
    <3>3. /\ host_input \in Nat /\ host_edge \in Nat /\ last_input \in Nat /\ edge \in Nat
      BY Facts DEF TypeOK
    <3>4. /\ host_input' \in Nat /\ host_edge' \in Nat
          /\ host_input <= host_input' /\ host_edge <= host_edge'
          /\ host_input' <= last_input /\ host_edge' <= edge
          /\ skipped' = skipped + Loss(host_edge, host_edge')
      BY <2>2, <3>1, HostReadsStep
    <3>5. Stream!Read
      BY <3>1, <3>2, <3>3, <3>4 DEF Stream!Read, Loss, EdgesAccounted
    <3> QED BY <3>5 DEF Stream!Next
  <2> QED BY <2>1, <2>2, InvariantStep
<1> QED BY <1>1, <1>2, Invariance, PTL DEF Spec, ImplementsStream, Stream!Spec

(* After pump_report_locked the pump has nothing that VHF could take.      *)
LEMMA TakenDry ==
  ASSUME NEW p \in Pump
  PROVE  ~CanTake(Take(p))
BY DEF Take, TakePriority, TakeOrdered, TakeLatest, CanTake, Pump

(* Every handler that makes a report available or VHF ready also pumps, or *)
(* leaves someone who will.                                                *)
LEMMA NoStallStep ==
  ASSUME IInv, NoStall, [Next]_vars
  PROVE  NoStall'
<1>0. pump \in Pump /\ last_input \in Nat /\ edge \in Nat
  BY Facts
<1>1. ASSUME NEW p \in Pump, NEW actor, TakeNext(actor, p) PROVE NoStall'
  BY <1>1, TakenDry DEF TakeNext, NoStall
<1>2. ASSUME NEW sig \in Signatures, EncodeInput(sig) PROVE NoStall'
  BY <1>0, <1>2 DEF EncodeInput, Remember, NoStall, CanTake, Empty, Pump
<1>3. ASSUME NEW sig \in Signatures, SteamInput(sig) PROVE NoStall'
  <2>1. last_input' \in Nat /\ edge' \in Nat
    BY <1>0, <1>3 DEF SteamInput, EdgeOf
  <2>2. Enqueue(Remember(pump, sig), StateReport(last_input', edge'), Classify(pump, sig)) \in Pump
    BY <1>0, <2>1, RememberType, EnqueueType, ReportType DEF Classify, Kinds, Carried
  <2> QED BY <1>1, <1>3, <2>2 DEF SteamInput
<1>4. ASSUME NEW kind \in {"continuous", "transition"}, SteamUpdate(kind) PROVE NoStall'
  <2>1. edge' \in Nat
    BY <1>0, <1>4 DEF SteamUpdate, EdgeOf
  <2>2. Enqueue(pump, StateReport(last_input, edge'), kind) \in Pump
    BY <1>0, <2>1, EnqueueType, ReportType DEF Kinds, Carried
  <2> QED BY <1>1, <1>4, <2>2 DEF SteamUpdate
<1>5. CASE PumpEncoded
  <2>1. encoded.report \in Report /\ encoded.kind \in Kinds
    BY <1>5, Facts DEF PumpEncoded, TypeOK, Encoded
  <2>2. Enqueue(pump, encoded.report, encoded.kind) \in Pump
    BY <1>0, <2>1, EnqueueType
  <2> QED BY <1>1, <1>5, <2>2 DEF PumpEncoded
<1>6. CASE SteamAck
  <2>1. Enqueue(pump, OtherReport("aside"), "aside") \in Pump
    BY <1>0, EnqueueType, ReportType DEF Kinds, Carried
  <2> QED BY <1>1, <1>6, <2>1 DEF SteamAck
<1>7. ASSUME NEW sets_mode \in BOOLEAN, SwitchReply(sets_mode) PROVE NoStall'
  <2> DEFINE replied == Enqueue(pump, OtherReport("reply"), "priority")
  <2>1. CASE replied = pump
    <3>1. pump' = pump /\ ~queued
      BY <1>7, <2>1 DEF SwitchReply, WriteIdle
    <3> QED BY <3>1 DEF NoStall
  <2>2. CASE replied # pump
    BY <1>7, <2>2 DEF SwitchReply, NoStall
  <2> QED BY <2>1, <2>2
<1>8. CASE SwitchPump
  BY <1>0, <1>1, <1>8 DEF SwitchPump
<1>9. CASE ReadyForNextReport
  BY <1>0, <1>1, <1>9, SetReadyType DEF ReadyForNextReport
<1>10. ASSUME NEW battery_due \in BOOLEAN, NEW resend_due \in BOOLEAN,
              KeepaliveTick(battery_due, resend_due)
       PROVE  NoStall'
  <2> DEFINE p == IF battery_due THEN Enqueue(pump, OtherReport("aside"), "aside") ELSE pump
             q == IF resend_due THEN Enqueue(p, StateReport(last_input, edge), "continuous") ELSE p
  <2>1. p \in Pump
    BY <1>0, EnqueueType, ReportType DEF Kinds, Carried
  <2>2. TakeNext("worker", q)
    BY <1>10 DEF KeepaliveTick
  <2> HIDE DEF p
  <2>3. q \in Pump
    BY <1>0, <2>1, EnqueueType, ReportType DEF Kinds, Carried
  <2> HIDE DEF q
  <2> QED BY <1>1, <2>2, <2>3
<1>11. ASSUME UNCHANGED <<pump, queued>> PROVE NoStall'
  BY <1>11 DEF NoStall
<1>12. ASSUME NEW kind \in {"continuous", "transition"}, EncodeUpdate(kind) PROVE NoStall'
  BY <1>11, <1>12 DEF EncodeUpdate
<1>13. CASE EncodeBattery
  BY <1>11, <1>13 DEF EncodeBattery
<1>14. ASSUME NEW actor \in Actors, SubmitTaken(actor) \/ SubmitRefused(actor) PROVE NoStall'
  BY <1>11, <1>14 DEF SubmitTaken, SubmitRefused
<1>15. CASE HostReads
  BY <1>11, <1>15 DEF HostReads
<1>16. CASE UNCHANGED vars
  BY <1>11, <1>16 DEF vars
<1> QED
  BY <1>2, <1>3, <1>4, <1>5, <1>6, <1>7, <1>8, <1>9, <1>10, <1>12, <1>13, <1>14,
     <1>15, <1>16 DEF Next

(* The pump is never left with a report waiting and VHF ready and nobody   *)
(* about to submit: no report waits for an unrelated event (the pump after *)
(* a Switch reply, the drain in the ready callback).                       *)
THEOREM NeverStalls == Spec => []NoStall
<1>1. Init => NoStall
  BY DEF Init, Reset, NoStall, CanTake
<1>2. IInv /\ NoStall /\ [Next]_vars => NoStall'
  BY NoStallStep
<1> QED BY <1>1, <1>2, Invariance, PTL DEF Spec

-----------------------------------------------------------------------------
(* Without VHF's grant pump_report_locked takes nothing.                   *)
LEMMA NoGrantNoTake ==
  ASSUME NEW p, NEW actor, TakeNext(actor, p), ~p.ready
  PROVE  pump' = p /\ taken' = taken
BY DEF TakeNext, Take, CanTake

(* No handler touches the packet in flight while VHF holds its buffer.     *)
LEMMA HeldStep ==
  ASSUME IInv, [Next]_vars, vhf = "holding", vhf' = "holding"
  PROVE  pump'.in_flight = pump.in_flight /\ taken' = taken
<1> DEFINE Held == pump'.in_flight = pump.in_flight /\ taken' = taken
<1>0. pump \in Pump /\ last_input \in Nat /\ edge \in Nat /\ ~pump.ready
  BY Facts DEF Handover
<1>1. ASSUME NEW r \in Report, NEW kind \in Kinds, NEW actor, TakeNext(actor, Enqueue(pump, r, kind))
      PROVE  Held
  <2>1. Enqueue(pump, r, kind).ready = pump.ready
        /\ Enqueue(pump, r, kind).in_flight = pump.in_flight
    BY <1>0, EnqueueKeeps
  <2> QED BY <1>0, <1>1, <2>1, NoGrantNoTake
<1>2. ASSUME NEW sig \in Signatures, EncodeInput(sig) PROVE Held
  BY <1>0, <1>2 DEF EncodeInput, Remember, Pump
<1>3. ASSUME NEW sig \in Signatures, SteamInput(sig) PROVE Held
  <2> DEFINE p == Remember(pump, sig)
             q == Enqueue(p, StateReport(last_input', edge'), Classify(pump, sig))
  <2>1. last_input' \in Nat /\ edge' \in Nat
    BY <1>0, <1>3 DEF SteamInput, EdgeOf
  <2>2. p \in Pump /\ ~p.ready /\ p.in_flight = pump.in_flight
    BY <1>0, RememberType DEF Remember, Pump
  <2>3. TakeNext("ioctl", q)
    BY <1>3 DEF SteamInput
  <2> HIDE DEF p
  <2>4. StateReport(last_input', edge') \in Report /\ Classify(pump, sig) \in Kinds
    BY <2>1 DEF StateReport, Report, Carried, Classify, Kinds
  <2>5. q.ready = p.ready /\ q.in_flight = p.in_flight
    BY <2>2, <2>4, EnqueueKeeps
  <2> HIDE DEF q
  <2> QED BY <2>2, <2>3, <2>5, NoGrantNoTake
<1>4. ASSUME NEW kind \in {"continuous", "transition"}, SteamUpdate(kind) PROVE Held
  <2>1. edge' \in Nat
    BY <1>0, <1>4 DEF SteamUpdate, EdgeOf
  <2> QED BY <1>0, <1>1, <1>4, <2>1, ReportType DEF SteamUpdate, Kinds, Carried
<1>5. CASE PumpEncoded
  BY <1>1, <1>5, Facts DEF PumpEncoded, TypeOK, Encoded
<1>6. CASE SteamAck
  BY <1>0, <1>1, <1>6, ReportType DEF SteamAck, Kinds, Carried
<1>7. ASSUME NEW sets_mode \in BOOLEAN, SwitchReply(sets_mode) PROVE Held
  <2> DEFINE p == Enqueue(pump, OtherReport("reply"), "priority")
             q == Enqueue(p, StateReport(last_input, edge), "continuous")
  <2>1. pump' = p \/ pump' = q
    BY <1>7 DEF SwitchReply
  <2>2. p \in Pump /\ p.in_flight = pump.in_flight
    BY <1>0, EnqueueType, EnqueueKeeps, ReportType DEF Kinds, Carried
  <2> HIDE DEF p
  <2>3. q.in_flight = p.in_flight
    BY <1>0, <2>2, EnqueueKeeps, ReportType DEF Kinds, Carried
  <2> HIDE DEF q
  <2> QED BY <1>7, <2>1, <2>2, <2>3 DEF SwitchReply
<1>8. CASE SwitchPump
  BY <1>0, <1>8, NoGrantNoTake DEF SwitchPump
<1>9. CASE ReadyForNextReport
  BY <1>9 DEF ReadyForNextReport
<1>10. ASSUME NEW battery_due \in BOOLEAN, NEW resend_due \in BOOLEAN,
              KeepaliveTick(battery_due, resend_due)
       PROVE  Held
  BY <1>0, <1>10 DEF KeepaliveTick
<1>11. ASSUME NEW kind \in {"continuous", "transition"}, EncodeUpdate(kind) PROVE Held
  BY <1>11 DEF EncodeUpdate
<1>12. CASE EncodeBattery
  BY <1>12 DEF EncodeBattery
<1>13. ASSUME NEW actor \in Actors, SubmitTaken(actor) \/ SubmitRefused(actor) PROVE Held
  BY <1>13 DEF SubmitTaken, SubmitRefused
<1>14. CASE HostReads
  BY <1>14 DEF HostReads
<1>15. CASE UNCHANGED vars
  BY <1>15 DEF vars
<1> QED
  BY <1>2, <1>3, <1>4, <1>5, <1>6, <1>7, <1>8, <1>9, <1>10, <1>11, <1>12, <1>13,
     <1>14, <1>15 DEF Next

(* From VhfReadReportSubmit until the next ready callback, the buffer VHF  *)
(* reads from is not overwritten: in_flight changes only when VHF has      *)
(* asked again (driver.cpp:811-868).                                       *)
THEOREM HeldBuffer == Spec => HeldBufferStable
<1>1. IInv /\ [Next]_vars =>
        [vhf = "holding" /\ vhf' = "holding"
           => pump'.in_flight = pump.in_flight /\ taken' = taken]_vars
  BY HeldStep
<1> QED BY <1>1, Invariance, PTL DEF Spec, HeldBufferStable

=============================================================================
