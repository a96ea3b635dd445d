----------------------------- MODULE OutputProofs -----------------------------
(***************************************************************************)
(* Proofs about what a controller sends by itself and what the host sends  *)
(* back: OutputFeedback, for every set of actuators and fields and every   *)
(* capacity the static_asserts of the code allow, and SteamKeepAlive, for  *)
(* every set of controllers and every number of workers, faults and power  *)
(* transitions.  The two share no state; each has an inductive invariant   *)
(* of its own.                                                             *)
(***************************************************************************)
EXTENDS OutputFeedback, SteamKeepAlive, FiniteSetTheorems, SequenceTheorems, TLAPS

-----------------------------------------------------------------------------
(* OutputFeedback.                                                         *)

(* Of each actuator at most one stop waits: so stops alone never fill the  *)
(* queue, which is what steam_haptic_queue.h asserts its capacity for.     *)
OneStopEach(q) ==
  \A i, j \in DOMAIN q :
    q[i].stop /\ q[j].stop /\ q[i].actuator = q[j].actuator => i = j

Increasing(q) == \A i, j \in DOMAIN q : i < j => q[i].n < q[j].n

Waiting(q) == {q[i] : i \in Ordinary(q)}

(* What waits is newer than what the client has read, and no newer than    *)
(* the host's last word on its actuator.                                   *)
Recent ==
  /\ \A i \in DOMAIN haptics :
       /\ client.last < haptics[i].n
       /\ haptics[i].n <= host.haptic[haptics[i].actuator].n
  /\ \A a \in Actuators : /\ host.haptic[a].actuator = a
                           /\ host.haptic[a].n <= writes
                           /\ client.haptic[a].n <= client.last
  /\ client.last <= writes

EffectsAccounted ==
  /\ IsFiniteSet(Waiting(haptics))
  /\ host.effects = client.effects + haptic_evicted + Cardinality(Waiting(haptics))

HapticInv ==
  OneStopEach(haptics) /\ Increasing(haptics) /\ Recent /\ EffectsAccounted /\ StopNeverLost

(* The ring holds the last chunks written, and the newest write is whole   *)
(* until the client has begun to read it.                                  *)
SettingsInv ==
  /\ host.chunks = client.chunks + Len(settings) + settings_evicted
  /\ \A i \in DOMAIN settings : settings[i] = host.chunks - Len(settings) + i
  /\ host.chunks - Len(settings) < host.chunk \/ host.chunk <= client.chunk

CoalescedInv ==
  /\ feedback = host.fields
  /\ profile = "playstation" => playstation_feedback = host.fields
  /\ CoalescedExact

FeedbackInv == FeedbackTypeOK /\ HapticInv /\ SettingsInv /\ CoalescedInv

-----------------------------------------------------------------------------
(* The oldest of some positions is one of them.                            *)
LEMMA FirstOf ==
  ASSUME NEW S \in SUBSET Nat, S # {}
  PROVE  First(S) \in S
<1>1. IsWellFoundedOn(OpToRel(<, Nat), Nat)
  BY NatLessThanWellFounded
<1>2. PICK m \in S : \A j \in S : ~(<<j, m>> \in OpToRel(<, Nat))
  BY <1>1, WFMin
<1>3. \A j \in S : m <= j
  <2> SUFFICES ASSUME NEW j \in S, j < m PROVE FALSE
    OBVIOUS
  <2>1. <<j, m>> \in OpToRel(<, Nat)
    BY Zenon DEF OpToRel
  <2> QED BY <1>2, <2>1
<1> QED BY <1>3 DEF First

(* A full queue has an ordinary effect to give up.                         *)
LEMMA FullHasOrdinary ==
  ASSUME NEW q \in Seq(Haptic), OneStopEach(q), Len(q) = HapticCapacity
  PROVE  Ordinary(q) # {}
<1> SUFFICES ASSUME Ordinary(q) = {} PROVE FALSE
  OBVIOUS
<1>1. DOMAIN q = 1 .. HapticCapacity /\ \A i \in DOMAIN q : q[i] \in Haptic
  OBVIOUS
<1>2. \A i \in DOMAIN q : q[i].stop /\ q[i].actuator \in Actuators
  BY <1>1 DEF Ordinary, Haptic
<1> DEFINE f == [i \in DOMAIN q |-> q[i].actuator]
<1>3. f \in [DOMAIN q -> Actuators]
  BY <1>2
<1>4. IsFiniteSet(DOMAIN q) /\ Cardinality(DOMAIN q) = HapticCapacity
  BY <1>1, HapticAssumption, FS_Interval
<1>5. \E i, j \in DOMAIN q : i # j /\ f[i] = f[j]
  <2> HIDE DEF f
  <2> QED BY <1>3, <1>4, HapticAssumption, FS_PigeonHole
<1> QED BY <1>2, <1>5 DEF OneStopEach

(* enqueue_haptic never refuses; whoever has to go is an ordinary effect,  *)
(* or a stop that the new event repeats.                                   *)
LEMMA VictimFacts ==
  ASSUME NEW q \in Seq(Haptic), OneStopEach(q), Len(q) <= HapticCapacity, NEW e \in Haptic
  PROVE  /\ Victim(q, e) \in 0 .. Len(q)
         /\ Victim(q, e) = 0 => Len(q) < HapticCapacity
         /\ Victim(q, e) # 0 => \/ ~q[Victim(q, e)].stop
                                \/ e.stop /\ q[Victim(q, e)].actuator = e.actuator
         /\ Victim(q, e) # 0 => \/ ~e.stop \/ q[Victim(q, e)].stop
                                \/ StopsOf(q, e.actuator) = {}
         /\ Victim(q, e) = 0 => ~e.stop \/ StopsOf(q, e.actuator) = {}
         /\ ~Refuses(q, e)
<1>1. DOMAIN q = 1 .. Len(q) /\ Len(q) \in Nat /\ HapticCapacity \in Nat
  BY HapticAssumption
<1>0. e.stop \in BOOLEAN /\ \A i \in DOMAIN q : q[i].stop \in BOOLEAN
  <2>1. \A i \in DOMAIN q : q[i] \in Haptic
    OBVIOUS
  <2> QED BY <2>1 DEF Haptic
<1>2. StopsOf(q, e.actuator) \in SUBSET Nat /\ Ordinary(q) \in SUBSET Nat
  BY <1>1 DEF StopsOf, Ordinary
<1>3. CASE e.stop /\ StopsOf(q, e.actuator) # {}
  <2>1. Victim(q, e) \in StopsOf(q, e.actuator)
    BY <1>2, <1>3, FirstOf DEF Victim
  <2>2. /\ Victim(q, e) \in 1 .. Len(q) /\ q[Victim(q, e)].stop
        /\ q[Victim(q, e)].actuator = e.actuator
    BY <1>1, <2>1 DEF StopsOf
  <2>3. Victim(q, e) # 0 /\ Victim(q, e) \in 0 .. Len(q)
    BY <1>1, <2>2
  <2> QED BY <1>3, <2>2, <2>3 DEF Refuses
<1>4. CASE ~(e.stop /\ StopsOf(q, e.actuator) # {})
  <2>1. CASE Len(q) = HapticCapacity
    <3>1. Victim(q, e) \in Ordinary(q)
      BY <1>2, <1>4, <2>1, FirstOf, FullHasOrdinary DEF Victim
    <3>2. Victim(q, e) # 0 /\ Victim(q, e) \in 0 .. Len(q) /\ ~q[Victim(q, e)].stop
      BY <1>1, <3>1 DEF Ordinary
    <3> QED BY <1>4, <3>2 DEF Refuses
  <2>2. CASE Len(q) # HapticCapacity
    <3>1. Victim(q, e) = 0
      BY <1>4, <2>2 DEF Victim
    <3>2. Len(q) < HapticCapacity
      <4>1. \A a, b \in Nat : a <= b /\ a # b => a < b
        OBVIOUS
      <4>2. Len(q) \in Nat /\ HapticCapacity \in Nat
        BY HapticAssumption
      <4> QED BY <2>2, <4>1, <4>2
    <3>3. 0 \in 0 .. Len(q)
      BY <1>1
    <3> QED BY <1>4, <2>2, <3>1, <3>2, <3>3 DEF Refuses
  <2> QED BY <2>1, <2>2
<1> QED BY <1>3, <1>4

LEMMA WithoutShape ==
  ASSUME NEW S, NEW q \in Seq(S), NEW v \in DOMAIN q
  PROVE  /\ Without(q, v) \in Seq(S) /\ Len(Without(q, v)) = Len(q) - 1
         /\ \A i \in 1 .. Len(q) - 1 : Without(q, v)[i] = IF i < v THEN q[i] ELSE q[i + 1]
BY DEF Without

(* Where the entry at position i of the new queue was in the old one.      *)
Old(q, e, i) == IF Victim(q, e) = 0 \/ i < Victim(q, e) THEN i ELSE i + 1

(* enqueue_haptic appends the event and keeps the rest in order, but for   *)
(* the one that had to go.                                                 *)
LEMMA EnqueueShape ==
  ASSUME NEW q \in Seq(Haptic), OneStopEach(q), Len(q) <= HapticCapacity, NEW e \in Haptic
  PROVE  LET r == EnqueueHaptic(q, e)
             v == Victim(q, e)
         IN  /\ r \in Seq(Haptic) /\ Len(r) <= HapticCapacity /\ Len(r) > 0
             /\ Len(r) = IF v = 0 THEN Len(q) + 1 ELSE Len(q)
             /\ r[Len(r)] = e
             /\ \A i \in 1 .. Len(r) - 1 :
                  r[i] = q[Old(q, e, i)] /\ Old(q, e, i) \in DOMAIN q \ {v}
             /\ \A j \in DOMAIN q \ {v} : \E i \in 1 .. Len(r) - 1 : Old(q, e, i) = j
<1> DEFINE v == Victim(q, e)
           b == IF v = 0 THEN q ELSE Without(q, v)
<1>1. /\ v \in 0 .. Len(q) /\ (v = 0 => Len(q) < HapticCapacity)
      /\ EnqueueHaptic(q, e) = Append(b, e)
  BY VictimFacts DEF EnqueueHaptic
<1>2. /\ Len(q) \in Nat /\ DOMAIN q = 1 .. Len(q) /\ HapticCapacity \in Nat
      /\ \A i \in 1 .. Len(q) : q[i] \in Haptic
  BY HapticAssumption
<1> HIDE DEF v
<1>3. CASE v = 0
  <2>1. b = q
    BY <1>3
  <2>2. \A i : Old(q, e, i) = i
    BY <1>3 DEF Old, v
  <2>3. /\ Append(q, e) \in Seq(Haptic) /\ Len(Append(q, e)) = Len(q) + 1
        /\ Append(q, e)[Len(q) + 1] = e /\ \A i \in 1 .. Len(q) : Append(q, e)[i] = q[i]
    OBVIOUS
  <2>4. DOMAIN q \ {v} = 1 .. Len(q)
    BY <1>2, <1>3
  <2>5. Len(q) + 1 - 1 = Len(q) /\ Len(q) + 1 <= HapticCapacity /\ Len(q) + 1 > 0
    BY <1>1, <1>2, <1>3
  <2> QED BY <1>1, <1>3, <2>1, <2>2, <2>3, <2>4, <2>5 DEF v
<1>4. CASE v # 0
  <2>1. v \in 1 .. Len(q) /\ Len(q) - 1 \in Nat
    BY <1>1, <1>2, <1>4
  <2>2. b = Without(q, v)
    BY <1>4
  <2> HIDE DEF b
  <2>3. /\ b \in Seq(Haptic) /\ Len(b) = Len(q) - 1
        /\ \A i \in 1 .. Len(q) - 1 : b[i] = IF i < v THEN q[i] ELSE q[i + 1]
    <3>1. v \in DOMAIN q
      BY <1>2, <2>1
    <3> QED BY <2>2, <3>1, WithoutShape
  <2>4. /\ Append(b, e) \in Seq(Haptic) /\ Len(Append(b, e)) = Len(q)
        /\ Append(b, e)[Len(q)] = e /\ \A i \in 1 .. Len(q) - 1 : Append(b, e)[i] = b[i]
    BY <2>1, <2>3
  <2>5. \A i \in 1 .. Len(q) - 1 : /\ Old(q, e, i) = IF i < v THEN i ELSE i + 1
                                   /\ Old(q, e, i) \in DOMAIN q \ {v}
    BY <1>2, <1>4, <2>1 DEF Old, v
  <2>6. \A j \in DOMAIN q \ {v} : \E i \in 1 .. Len(q) - 1 : Old(q, e, i) = j
    <3> TAKE j \in DOMAIN q \ {v}
    <3>1. CASE j < v
      <4>1. j \in 1 .. Len(q) - 1
        BY <1>2, <2>1, <3>1
      <4> QED BY <2>5, <3>1, <4>1
    <3>2. CASE ~(j < v)
      <4>1. j - 1 \in 1 .. Len(q) - 1 /\ ~(j - 1 < v) /\ (j - 1) + 1 = j
        BY <1>2, <2>1, <3>2
      <4> QED BY <2>5, <4>1
    <3> QED BY <3>1, <3>2
  <2>7. \A i \in 1 .. Len(q) - 1 : b[i] = q[Old(q, e, i)]
    BY <2>3, <2>5
  <2>8. Len(q) > 0
    BY <1>2, <2>1
  <2> QED BY <1>1, <1>4, <2>4, <2>5, <2>6, <2>7, <2>8 DEF v
<1> QED BY <1>3, <1>4

(* Positions keep their order.                                             *)
LEMMA OldInjective ==
  ASSUME NEW q, NEW e, Victim(q, e) \in Nat
  PROVE  \A i, j \in Nat : (i < j => Old(q, e, i) < Old(q, e, j))
                           /\ (Old(q, e, i) = Old(q, e, j) => i = j)
BY DEF Old

-----------------------------------------------------------------------------
LEMMA FeedbackInitInv == FeedbackInit => FeedbackInv
<1> HAVE FeedbackInit
<1>1. /\ haptics = <<>> /\ settings = <<>> /\ host = Nothing /\ client = Nothing
      /\ haptic_evicted = 0 /\ settings_evicted = 0 /\ writes = 0 /\ feedback_pending = FALSE
      /\ playstation_feedback = [f \in Fields |-> 0] /\ feedback = [f \in Fields |-> 0]
      /\ profile \in Profiles
  BY DEF FeedbackInit
<1>2. /\ Nothing \in Account /\ Nothing.fields = [f \in Fields |-> 0]
      /\ Nothing.effects = 0 /\ Nothing.last = 0 /\ Nothing.chunks = 0 /\ Nothing.chunk = 0
      /\ \A a \in Actuators : Nothing.haptic[a].n = 0 /\ Nothing.haptic[a].actuator = a
  <2>1. [a \in Actuators |-> [actuator |-> a, stop |-> TRUE, n |-> 0]] \in [Actuators -> Haptic]
    BY DEF Haptic
  <2> QED BY <2>1 DEF Nothing, Account
<1>3. FeedbackTypeOK
  <2>1. haptics \in Seq(Haptic) /\ settings \in Seq(Nat) /\ Len(haptics) = 0 /\ Len(settings) = 0
    BY <1>1
  <2>2. 0 <= HapticCapacity /\ 0 <= SettingsCapacity
    BY HapticAssumption, SettingsAssumption
  <2> QED BY <1>1, <1>2, <2>1, <2>2 DEF FeedbackTypeOK
<1>4. Waiting(haptics) = {}
  BY <1>1 DEF Waiting, Ordinary
<1>5. HapticInv
  <2>1. OneStopEach(haptics) /\ Increasing(haptics)
    BY <1>1 DEF OneStopEach, Increasing
  <2>2. Recent
    BY <1>1, <1>2 DEF Recent
  <2>3. EffectsAccounted
    <3>1. IsFiniteSet(Waiting(haptics)) /\ Cardinality(Waiting(haptics)) = 0
      BY <1>4, FS_EmptySet
    <3> QED BY <1>1, <1>2, <3>1 DEF EffectsAccounted
  <2>4. StopNeverLost
    BY <1>1 DEF StopNeverLost
  <2> QED BY <2>1, <2>2, <2>3, <2>4 DEF HapticInv
<1>6. SettingsInv
  BY <1>1, <1>2 DEF SettingsInv
<1>7. CoalescedInv
  BY <1>1, <1>2 DEF CoalescedInv, CoalescedExact
<1> QED BY <1>3, <1>5, <1>6, <1>7 DEF FeedbackInv

(* A haptic report of the host.                                            *)
LEMMA HapticStep ==
  ASSUME FeedbackInv, NEW a \in Actuators, NEW stop \in BOOLEAN, HapticWrite(a, stop)
  PROVE  FeedbackInv'
<1> DEFINE e == [actuator |-> a, stop |-> stop, n |-> writes + 1]
           v == Victim(haptics, e)
           top == Len(haptics')
<1>1. /\ haptics \in Seq(Haptic) /\ Len(haptics) <= HapticCapacity /\ writes \in Nat
      /\ host \in Account /\ client \in Account /\ haptic_evicted \in Nat
      /\ OneStopEach(haptics) /\ Increasing(haptics) /\ Recent /\ EffectsAccounted
      /\ StopNeverLost
  BY DEF FeedbackInv, FeedbackTypeOK, HapticInv
<1>2. /\ writes' = writes + 1 /\ haptics' = EnqueueHaptic(haptics, e)
      /\ haptic_evicted' = haptic_evicted + (IF Evicts(haptics, e) THEN 1 ELSE 0)
      /\ host' = [host EXCEPT !.haptic[a] = e, !.effects = @ + (IF stop THEN 0 ELSE 1)]
      /\ UNCHANGED <<profile, settings, settings_evicted, playstation_feedback,
                     feedback, feedback_pending, client>>
  BY DEF HapticWrite
<1>3. e \in Haptic /\ e.actuator = a /\ e.stop = stop /\ e.n = writes + 1
  BY <1>1 DEF Haptic
<1> HIDE DEF e
<1>4. /\ host.haptic \in [Actuators -> Haptic] /\ client.haptic \in [Actuators -> Haptic]
      /\ host.effects \in Nat /\ client.effects \in Nat /\ client.last \in Nat
      /\ \A b \in Actuators : host.haptic[b].n \in Nat /\ client.haptic[b].n \in Nat
                                /\ host.haptic[b].stop \in BOOLEAN
  BY <1>1 DEF Account, Haptic
<1>5. /\ host'.haptic = [host.haptic EXCEPT ![a] = e]
      /\ host'.effects = host.effects + (IF stop THEN 0 ELSE 1)
      /\ host'.fields = host.fields /\ host'.chunks = host.chunks /\ host'.chunk = host.chunk
      /\ host'.last = host.last
  BY <1>1, <1>2 DEF Account
<1>6. /\ host'.haptic \in [Actuators -> Haptic] /\ host'.effects \in Nat
      /\ host'.haptic[a] = e /\ \A b \in Actuators \ {a} : host'.haptic[b] = host.haptic[b]
  BY <1>3, <1>4, <1>5
<1>7. host' \in Account
  <2> DEFINE h == [host EXCEPT !.haptic[a] = e]
             k == host.effects + (IF stop THEN 0 ELSE 1)
  <2>1. h \in Account
    BY <1>1, <1>3 DEF Account
  <2>k. k \in Nat
    BY <1>4
  <2>2. host' = [h EXCEPT !.effects = k]
    BY <1>1, <1>2 DEF Account
  <2> HIDE DEF h, k
  <2> QED BY <2>1, <2>k, <2>2 DEF Account
<1>8. /\ haptics' \in Seq(Haptic) /\ top <= HapticCapacity /\ top > 0 /\ top \in Nat
      /\ DOMAIN haptics' = 1 .. top /\ haptics'[top] = e
      /\ \A i \in 1 .. top - 1 : /\ haptics'[i] = haptics[Old(haptics, e, i)]
                                 /\ Old(haptics, e, i) \in DOMAIN haptics \ {v}
      /\ \A j \in DOMAIN haptics \ {v} : \E i \in 1 .. top - 1 : Old(haptics, e, i) = j
  <2>1. haptics' \in Seq(Haptic)
    BY <1>1, <1>2, <1>3, EnqueueShape
  <2>2. Len(haptics') \in Nat /\ DOMAIN haptics' = 1 .. Len(haptics')
    BY <2>1
  <2>3. top <= HapticCapacity /\ top > 0 /\ haptics'[top] = e
    BY <1>1, <1>2, <1>3, EnqueueShape
  <2>4. \A i \in 1 .. top - 1 : /\ haptics'[i] = haptics[Old(haptics, e, i)]
                               /\ Old(haptics, e, i) \in DOMAIN haptics \ {v}
    <3>1. \A i \in 1 .. Len(EnqueueHaptic(haptics, e)) - 1 :
            /\ EnqueueHaptic(haptics, e)[i] = haptics[Old(haptics, e, i)]
            /\ Old(haptics, e, i) \in DOMAIN haptics \ {v}
      BY <1>1, <1>3, EnqueueShape
    <3> QED BY <1>2, <3>1
  <2>5. \A j \in DOMAIN haptics \ {v} : \E i \in 1 .. top - 1 : Old(haptics, e, i) = j
    <3>1. \A j \in DOMAIN haptics \ {v} :
            \E i \in 1 .. Len(EnqueueHaptic(haptics, e)) - 1 : Old(haptics, e, i) = j
      BY <1>1, <1>3, EnqueueShape
    <3> QED BY <1>2, <3>1
  <2> QED BY <2>1, <2>2, <2>3, <2>4, <2>5
<1>9. /\ v \in 0 .. Len(haptics)
      /\ v # 0 => ~haptics[v].stop \/ (e.stop /\ haptics[v].actuator = e.actuator)
      /\ v # 0 => ~e.stop \/ haptics[v].stop \/ StopsOf(haptics, e.actuator) = {}
      /\ v = 0 => ~e.stop \/ StopsOf(haptics, e.actuator) = {}
  BY <1>1, <1>3, VictimFacts
<1>10. \A i, j \in Nat : /\ i < j => Old(haptics, e, i) < Old(haptics, e, j)
                         /\ Old(haptics, e, i) = Old(haptics, e, j) => i = j
  BY <1>9, OldInjective
<1>11. \A i \in DOMAIN haptics : /\ haptics[i] \in Haptic /\ haptics[i].n \in Nat
                                 /\ haptics[i].actuator \in Actuators
                                 /\ haptics[i].stop \in BOOLEAN
  <2>1. \A i \in DOMAIN haptics : haptics[i] \in Haptic
    BY <1>1
  <2> QED BY <2>1 DEF Haptic
<1> HIDE DEF v, top
<1>12. \A i \in DOMAIN haptics : haptics[i].n <= writes /\ haptics[i].n < e.n
  <2> TAKE i \in DOMAIN haptics
  <2>1. haptics[i].n <= host.haptic[haptics[i].actuator].n
    BY <1>1 DEF Recent
  <2>2. host.haptic[haptics[i].actuator].n <= writes /\ host.haptic[haptics[i].actuator].n \in Nat
    BY <1>1, <1>4, <1>11 DEF Recent
  <2> QED BY <1>1, <1>3, <1>11, <2>1, <2>2
<1>13. FeedbackTypeOK'
  BY <1>1, <1>2, <1>7, <1>8 DEF FeedbackInv, FeedbackTypeOK, top
<1>14. Increasing(haptics')
  BY <1>8, <1>10, <1>12, <1>1 DEF Increasing
<1>15. OneStopEach(haptics')
  BY <1>3, <1>8, <1>9, <1>10, <1>1 DEF OneStopEach, StopsOf
<1>16. Recent'
  <2>1. client' = client /\ writes' = writes + 1
    BY <1>2
  <2>2. \A b \in Actuators : /\ host'.haptic[b].actuator = b /\ host'.haptic[b].n <= writes'
                             /\ client'.haptic[b].n <= client'.last
                             /\ host'.haptic[b].n \in Nat
                             /\ host'.haptic[b].n = host.haptic[b].n \/ host'.haptic[b].n = writes'
    BY <1>1, <1>3, <1>4, <1>6, <2>1 DEF Recent
  <2>3. client.last < e.n
    <3>1. client.haptic[a].n <= client.last /\ client.last <= writes
      BY <1>1 DEF Recent
    <3> QED BY <1>1, <1>3, <1>4, <3>1
  <2>4. ASSUME NEW i \in DOMAIN haptics'
        PROVE  client.last < haptics'[i].n /\ haptics'[i].n <= host'.haptic[haptics'[i].actuator].n
    <3>1. CASE i = top
      BY <1>1, <1>3, <1>6, <1>8, <2>3, <3>1
    <3>2. CASE i # top
      <4> DEFINE x == haptics'[i]
      <4>1. PICK j \in DOMAIN haptics : x = haptics[j]
        BY <1>8, <3>2
      <4>2. /\ client.last < x.n /\ x.n <= host.haptic[x.actuator].n /\ x.n <= writes
            /\ x.n \in Nat /\ x.actuator \in Actuators
        BY <1>1, <1>11, <1>12, <4>1 DEF Recent
      <4>3. x.n <= host'.haptic[x.actuator].n
        BY <1>1, <1>4, <2>1, <2>2, <4>2, SMTT(20)
      <4> QED BY <4>2, <4>3
    <3> QED BY <3>1, <3>2
  <2>5. client.last <= writes + 1
    BY <1>1, <1>4 DEF Recent
  <2> QED BY <2>1, <2>2, <2>4, <2>5 DEF Recent
<1>17. StopNeverLost'
  <2> SUFFICES ASSUME NEW b \in Actuators, host'.haptic[b].stop
               PROVE  \/ client'.haptic[b] = host'.haptic[b]
                      \/ \E i \in DOMAIN haptics' : haptics'[i] = host'.haptic[b]
    BY DEF StopNeverLost
  <2>1. CASE b = a
    BY <1>6, <1>8, <2>1
  <2>2. CASE b # a
    <3>1. host'.haptic[b] = host.haptic[b]
      BY <1>6, <2>2
    <3>2. CASE client.haptic[b] = host.haptic[b]
      BY <1>2, <3>1, <3>2
    <3>3. ASSUME NEW j \in DOMAIN haptics, haptics[j] = host.haptic[b]
          PROVE  \E i \in DOMAIN haptics' : haptics'[i] = host'.haptic[b]
      <4>1. host.haptic[b].actuator = b
        BY <1>1 DEF Recent
      <4>2. j # v
        BY <1>3, <1>9, <2>2, <3>1, <3>3, <4>1
      <4>3. PICK i \in 1 .. top - 1 : Old(haptics, e, i) = j
        BY <1>8, <4>2
      <4>4. i \in DOMAIN haptics' /\ haptics'[i] = haptics[j]
        BY <1>8, <4>3
      <4> QED BY <3>1, <3>3, <4>4
    <3> QED BY <1>1, <3>1, <3>2, <3>3 DEF StopNeverLost
  <2> QED BY <2>1, <2>2
<1>18. EffectsAccounted'
  <2> DEFINE W == Waiting(haptics)
             gone == v # 0 /\ ~haptics[v].stop
             kept == IF gone THEN W \ {haptics[v]} ELSE W
  <2>0. IsFiniteSet(W) /\ Cardinality(W) \in Nat
        /\ host.effects = client.effects + haptic_evicted + Cardinality(W)
    BY <1>1, FS_CardinalityType DEF EffectsAccounted
  <2>1. \A i \in DOMAIN haptics' : i # top => i \in 1 .. top - 1
    BY <1>8
  <2>2. e \notin W
    BY <1>3, <1>11, <1>12 DEF Waiting, Ordinary
  <2>3. gone => haptics[v] \in W
    BY <1>1, <1>9 DEF Waiting, Ordinary
  <2>4. \A i, j \in DOMAIN haptics : haptics[i] = haptics[j] => i = j
    BY <1>1, <1>11 DEF Increasing
  <2>5. Waiting(haptics') = kept \cup (IF stop THEN {} ELSE {e})
    <3>1. ASSUME NEW x \in Waiting(haptics')
          PROVE  x \in kept \cup (IF stop THEN {} ELSE {e})
      <4>1. PICK i \in DOMAIN haptics' : x = haptics'[i] /\ ~haptics'[i].stop
        BY <3>1 DEF Waiting, Ordinary
      <4>2. CASE i = top
        BY <1>3, <1>8, <4>1, <4>2
      <4>3. CASE i # top
        <5>1. PICK j \in DOMAIN haptics \ {v} : x = haptics[j]
          BY <1>8, <2>1, <4>1, <4>3
        <5>2. x \in W
          BY <4>1, <5>1 DEF Waiting, Ordinary
        <5>3. gone => x # haptics[v]
          BY <1>1, <1>9, <2>4, <5>1
        <5> QED BY <5>2, <5>3
      <4> QED BY <4>2, <4>3
    <3>2. ASSUME NEW x \in kept
          PROVE  x \in Waiting(haptics')
      <4>1. PICK j \in DOMAIN haptics : x = haptics[j] /\ ~haptics[j].stop
        BY <3>2 DEF Waiting, Ordinary
      <4>2. j # v
        BY <3>2, <4>1, <1>1, <1>9
      <4>3. PICK i \in 1 .. top - 1 : Old(haptics, e, i) = j
        BY <1>8, <4>2
      <4>4. i \in DOMAIN haptics' /\ haptics'[i] = x
        BY <1>8, <4>1, <4>3
      <4> QED BY <4>1, <4>4 DEF Waiting, Ordinary
    <3>3. ~stop => e \in Waiting(haptics')
      BY <1>3, <1>8 DEF Waiting, Ordinary
    <3> QED BY <3>1, <3>2, <3>3
  <2>6. haptic_evicted' = haptic_evicted + (IF gone THEN 1 ELSE 0)
    BY <1>2 DEF Evicts, v
  <2>7. IsFiniteSet(kept) /\ Cardinality(kept) \in Nat
        /\ Cardinality(kept) = Cardinality(W) - (IF gone THEN 1 ELSE 0)
    BY <2>0, <2>3, FS_RemoveElement, FS_CardinalityType
  <2>8. /\ IsFiniteSet(Waiting(haptics'))
        /\ Cardinality(Waiting(haptics')) = Cardinality(kept) + (IF stop THEN 0 ELSE 1)
    <3>1. e \notin kept
      BY <2>2
    <3> HIDE DEF kept
    <3>2. CASE stop
      BY <2>5, <2>7, <3>2
    <3>3. CASE ~stop
      BY <2>5, <2>7, <3>1, <3>3, FS_AddElement
    <3> QED BY <3>2, <3>3
  <2> HIDE DEF kept, W, gone
  <2>9. client'.effects = client.effects
    BY <1>2
  <2>10. host'.effects = client'.effects + haptic_evicted' + Cardinality(Waiting(haptics'))
    <3>1. CASE stop
      BY <1>1, <1>4, <1>5, <2>0, <2>6, <2>7, <2>8, <2>9, <3>1
    <3>2. CASE ~stop
      BY <1>1, <1>4, <1>5, <2>0, <2>6, <2>7, <2>8, <2>9, <3>2
    <3> QED BY <3>1, <3>2
  <2> QED BY <2>8, <2>10 DEF EffectsAccounted
<1>19. SettingsInv'
  BY <1>2, <1>5 DEF FeedbackInv, SettingsInv
<1>20. CoalescedInv'
  BY <1>2, <1>5 DEF FeedbackInv, CoalescedInv, CoalescedExact
<1> QED BY <1>13, <1>14, <1>15, <1>16, <1>17, <1>18, <1>19, <1>20 DEF FeedbackInv, HapticInv

(* enqueue_settings: the newest chunks stay, those of this write among     *)
(* them.                                                                   *)
LEMMA SettingsShape ==
  ASSUME NEW q \in Seq(Nat), Len(q) <= SettingsCapacity, NEW c \in Nat, NEW n \in ChunkCounts,
         \A i \in DOMAIN q : q[i] = c - Len(q) + i
  PROVE  LET r == EnqueueSettings(q, c + 1, n)
         IN  /\ r \in Seq(Nat) /\ n <= Len(r) /\ Len(r) <= SettingsCapacity
             /\ Len(r) <= Len(q) + n
             /\ \A i \in DOMAIN r : r[i] = (c + n) - Len(r) + i
<1> DEFINE all == [i \in 1 .. Len(q) + n |-> IF i <= Len(q) THEN q[i] ELSE (c + 1) + i - Len(q) - 1]
           m == Len(q) + n
<1>1. /\ Len(q) \in Nat /\ n \in Nat /\ 0 < n /\ n <= SettingsCapacity /\ SettingsCapacity \in Nat
      /\ m \in Nat /\ DOMAIN q = 1 .. Len(q)
  BY SettingsAssumption DEF ChunkCounts
<1>2. \A i \in 1 .. m : all[i] = c - Len(q) + i /\ all[i] \in Nat
  <2> TAKE i \in 1 .. m
  <2>1. CASE i <= Len(q)
    <3>1. i \in DOMAIN q /\ all[i] = q[i] /\ q[i] \in Nat
      BY <1>1, <2>1
    <3> QED BY <3>1
  <2>2. CASE ~(i <= Len(q))
    <3>1. all[i] = (c + 1) + i - Len(q) - 1
      BY <1>1, <2>2
    <3> QED BY <1>1, <2>2, <3>1
  <2> QED BY <2>1, <2>2
<1>3. all \in Seq(Nat) /\ Len(all) = m
  <2>1. all \in [1 .. m -> Nat]
    BY <1>2
  <2> HIDE DEF all
  <2> QED BY <1>1, <2>1
<1>4. EnqueueSettings(q, c + 1, n) = IF Len(all) <= SettingsCapacity THEN all
                                     ELSE SubSeq(all, Len(all) - SettingsCapacity + 1, Len(all))
  BY DEF EnqueueSettings
<1> HIDE DEF all
<1>5. CASE m <= SettingsCapacity
  <2>1. EnqueueSettings(q, c + 1, n) = all /\ DOMAIN all = 1 .. m
    BY <1>3, <1>4, <1>5
  <2>2. \A i \in 1 .. m : all[i] = (c + n) - m + i
    BY <1>1, <1>2
  <2>3. n <= m
    BY <1>1
  <2> HIDE DEF m
  <2>4. \A i \in DOMAIN all : all[i] = (c + n) - Len(all) + i
    BY <1>3, <2>1, <2>2
  <2>5. n <= Len(all) /\ Len(all) <= SettingsCapacity /\ Len(all) <= m
    BY <1>1, <1>3, <1>5, <2>3
  <2> QED BY <1>3, <2>1, <2>4, <2>5 DEF m
<1>6. CASE ~(m <= SettingsCapacity)
  <2> DEFINE lo == m - SettingsCapacity + 1
             r == SubSeq(all, lo, m)
  <2>1. EnqueueSettings(q, c + 1, n) = r
    BY <1>3, <1>4, <1>6
  <2>2. /\ lo \in Int /\ m \in Int /\ (lo <= m \/ SettingsCapacity = 0)
        /\ \A i \in lo .. m : all[i] \in Nat
    BY <1>1, <1>2, <1>6
  <2>3. r \in Seq(Nat) /\ Len(r) = SettingsCapacity
        /\ \A i \in 1 .. SettingsCapacity : r[i] = all[lo + i - 1]
    <3>1. m - lo + 1 = SettingsCapacity /\ lo <= m
      BY <1>1, <2>2
    <3>2. /\ r \in Seq(Nat) /\ Len(r) = IF lo <= m THEN m - lo + 1 ELSE 0
          /\ \A i \in 1 .. m - lo + 1 : r[i] = all[lo + i - 1]
      <4> HIDE DEF lo, m
      <4> QED BY <2>2, SubSeqProperties
    <3> QED BY <3>1, <3>2
  <2>4. \A i \in 1 .. SettingsCapacity : r[i] = (c + n) - SettingsCapacity + i
    BY <1>1, <1>2, <1>6, <2>3
  <2>5. SettingsCapacity <= Len(q) + n
    BY <1>1, <1>6
  <2> HIDE DEF r
  <2>6. DOMAIN r = 1 .. SettingsCapacity
    BY <2>3
  <2>7. \A i \in DOMAIN r : r[i] = (c + n) - Len(r) + i
    BY <2>3, <2>4, <2>6
  <2>8. n <= Len(r) /\ Len(r) <= SettingsCapacity /\ Len(r) <= Len(q) + n
    BY <1>1, <2>3, <2>5
  <2> QED BY <2>1, <2>3, <2>7, <2>8
<1> QED BY <1>1, <1>5, <1>6

-----------------------------------------------------------------------------
(* A step that leaves the haptic queue and both accounts of it alone.      *)
LEMMA HapticKept ==
  ASSUME FeedbackTypeOK, HapticInv, haptics' = haptics, haptic_evicted' = haptic_evicted,
         host'.haptic = host.haptic, host'.effects = host.effects,
         client'.haptic = client.haptic, client'.effects = client.effects,
         client'.last = client.last, writes' \in {writes, writes + 1}
  PROVE  HapticInv'
<1>1. /\ writes \in Nat /\ writes' \in Nat /\ writes <= writes' /\ client.last \in Nat
      /\ \A a \in Actuators : host.haptic[a].n \in Nat
  BY DEF FeedbackTypeOK, Account, Haptic
<1>2. \A a \in Actuators : host.haptic[a].n <= writes'
  <2> TAKE a \in Actuators
  <2>1. host.haptic[a].n <= writes
    BY DEF HapticInv, Recent
  <2> QED BY <1>1, <2>1
<1>3. client.last <= writes'
  <2>1. client.last <= writes
    BY DEF HapticInv, Recent
  <2> QED BY <1>1, <2>1
<1>4. Recent'
  BY <1>2, <1>3 DEF HapticInv, Recent
<1> QED BY <1>4 DEF HapticInv, EffectsAccounted, StopNeverLost

LEMMA SettingsStep ==
  ASSUME FeedbackInv, NEW n \in ChunkCounts, SettingsWrite(n)
  PROVE  FeedbackInv'
<1>1. /\ settings \in Seq(Nat) /\ Len(settings) <= SettingsCapacity /\ writes \in Nat
      /\ host \in Account /\ client \in Account /\ settings_evicted \in Nat
      /\ host.chunks \in Nat /\ client.chunks \in Nat /\ host.chunk \in Nat
      /\ n \in Nat /\ Len(settings) \in Nat
  BY SettingsAssumption DEF FeedbackInv, FeedbackTypeOK, Account, ChunkCounts
<1>2. /\ writes' = writes + 1 /\ settings' = EnqueueSettings(settings, host.chunks + 1, n)
      /\ settings_evicted' = settings_evicted + Len(settings) + n - Len(settings')
      /\ host' = [host EXCEPT !.chunks = @ + n, !.chunk = host.chunks + 1]
      /\ UNCHANGED <<profile, haptics, haptic_evicted, playstation_feedback,
                     feedback, feedback_pending, client>>
  BY DEF SettingsWrite
<1>3. /\ settings' \in Seq(Nat) /\ n <= Len(settings') /\ Len(settings') <= SettingsCapacity
      /\ Len(settings') <= Len(settings) + n /\ Len(settings') \in Nat
      /\ \A i \in DOMAIN settings' : settings'[i] = (host.chunks + n) - Len(settings') + i
  <2> DEFINE r == EnqueueSettings(settings, host.chunks + 1, n)
  <2>1. \A i \in DOMAIN settings : settings[i] = host.chunks - Len(settings) + i
    BY DEF FeedbackInv, SettingsInv
  <2>2. /\ r \in Seq(Nat) /\ n <= Len(r) /\ Len(r) <= SettingsCapacity
        /\ Len(r) <= Len(settings) + n
        /\ \A i \in DOMAIN r : r[i] = (host.chunks + n) - Len(r) + i
    BY <1>1, <2>1, SettingsShape
  <2> HIDE DEF r
  <2>3. Len(r) \in Nat
    BY <2>2
  <2>4. settings' = r
    BY <1>2 DEF r
  <2> QED BY <2>2, <2>3, <2>4
<1>4. /\ host'.chunks = host.chunks + n /\ host'.chunk = host.chunks + 1
      /\ host'.fields = host.fields /\ host'.haptic = host.haptic /\ host'.effects = host.effects
      /\ host'.last = host.last
  BY <1>1, <1>2 DEF Account
<1>5. host' \in Account
  <2>1. host.chunks + n \in Nat /\ host.chunks + 1 \in Nat
    BY <1>1
  <2> QED BY <1>1, <1>2, <2>1 DEF Account
<1>6. settings_evicted' \in Nat
  <2>1. settings_evicted' = settings_evicted + Len(settings) + n - Len(settings')
    BY <1>2
  <2> QED BY <1>1, <1>3, <2>1
<1>7. FeedbackTypeOK'
  <2>1. writes' \in Nat
    BY <1>1, <1>2
  <2> QED BY <1>2, <1>3, <1>5, <1>6, <2>1 DEF FeedbackInv, FeedbackTypeOK
<1>8. SettingsInv'
  <2>1. host'.chunks = client'.chunks + Len(settings') + settings_evicted'
    <3>1. /\ host.chunks = client.chunks + Len(settings) + settings_evicted
          /\ settings_evicted' = settings_evicted + (Len(settings) + n - Len(settings'))
          /\ client' = client
      BY <1>1, <1>2, <1>4 DEF FeedbackInv, SettingsInv
    <3>2. host'.chunks = host.chunks + n
      BY <1>4
    <3> QED BY <1>1, <1>3, <3>1, <3>2
  <2>2. host'.chunks - Len(settings') < host'.chunk
    BY <1>1, <1>3, <1>4
  <2> QED BY <1>3, <1>4, <2>1, <2>2 DEF SettingsInv
<1>9. HapticInv'
  BY <1>2, <1>4, HapticKept DEF FeedbackInv
<1>10. CoalescedInv'
  BY <1>2, <1>4 DEF FeedbackInv, CoalescedInv, CoalescedExact
<1> QED BY <1>7, <1>8, <1>9, <1>10 DEF FeedbackInv

(* A report of the host that only changes actuator state.                  *)
LEMMA FieldsStep ==
  ASSUME FeedbackInv, NEW fields \in [Fields -> Nat], writes' = writes + 1,
         host' = [host EXCEPT !.fields = fields],
         feedback' = fields, feedback_pending' = TRUE, playstation_feedback' \in [Fields -> Nat],
         profile = "playstation" => playstation_feedback' = fields,
         UNCHANGED <<profile, haptics, haptic_evicted, settings, settings_evicted, client>>
  PROVE  FeedbackInv'
<1>1. host \in Account /\ writes \in Nat
  BY DEF FeedbackInv, FeedbackTypeOK
<1>2. /\ host'.fields = fields /\ host'.haptic = host.haptic /\ host'.effects = host.effects
      /\ host'.chunks = host.chunks /\ host'.chunk = host.chunk /\ host' \in Account
  BY <1>1 DEF Account
<1>3. writes' \in Nat
  BY <1>1
<1>4. FeedbackTypeOK'
  BY <1>2, <1>3 DEF FeedbackInv, FeedbackTypeOK
<1>5. HapticInv'
  BY <1>2, HapticKept DEF FeedbackInv
<1>6. SettingsInv'
  BY <1>2 DEF FeedbackInv, SettingsInv
<1>7. CoalescedInv'
  BY <1>2 DEF CoalescedInv, CoalescedExact
<1> QED BY <1>4, <1>5, <1>6, <1>7 DEF FeedbackInv

LEMMA PlaystationStep ==
  ASSUME FeedbackInv, NEW S \in SUBSET Fields, PlaystationWrite(S)
  PROVE  FeedbackInv'
<1> DEFINE fields == [f \in Fields |-> IF f \in S THEN writes + 1 ELSE playstation_feedback[f]]
<1>1. /\ profile = "playstation" /\ writes' = writes + 1 /\ playstation_feedback' = fields
      /\ feedback' = fields /\ feedback_pending' = TRUE
      /\ host' = [host EXCEPT !.fields = [f \in Fields |-> IF f \in S THEN writes + 1 ELSE @[f]]]
      /\ UNCHANGED <<profile, haptics, haptic_evicted, settings, settings_evicted, client>>
  BY DEF PlaystationWrite, Apply
<1>2. playstation_feedback = host.fields
  BY <1>1 DEF FeedbackInv, CoalescedInv
<1>3. host' = [host EXCEPT !.fields = fields]
  BY <1>1, <1>2
<1>4. fields \in [Fields -> Nat]
  BY DEF FeedbackInv, FeedbackTypeOK
<1> HIDE DEF fields
<1> QED BY <1>1, <1>3, <1>4, FieldsStep

LEMMA WholeStep ==
  ASSUME FeedbackInv, WholeWrite
  PROVE  FeedbackInv'
<1> DEFINE fields == [f \in Fields |-> writes + 1]
<1>1. /\ profile = "other" /\ writes' = writes + 1 /\ feedback' = fields /\ feedback_pending' = TRUE
      /\ host' = [host EXCEPT !.fields = fields] /\ playstation_feedback' = playstation_feedback
      /\ UNCHANGED <<profile, haptics, haptic_evicted, settings, settings_evicted, client>>
  BY DEF WholeWrite
<1>2. fields \in [Fields -> Nat] /\ playstation_feedback \in [Fields -> Nat]
  BY DEF FeedbackInv, FeedbackTypeOK
<1> HIDE DEF fields
<1> QED BY <1>1, <1>2, FieldsStep

-----------------------------------------------------------------------------
(* poll_feedback.  The client reads the oldest chunk.                      *)
LEMMA PollSettingsStep ==
  ASSUME FeedbackInv, poll_feedback, PollSettings
  PROVE  FeedbackInv'
<1>1. /\ settings \in Seq(Nat) /\ Len(settings) <= SettingsCapacity /\ Len(settings) \in Nat
      /\ client \in Account /\ client.chunks \in Nat /\ client.chunk \in Nat
      /\ host.chunks \in Nat /\ host.chunk \in Nat /\ settings_evicted \in Nat
      /\ SettingsCapacity \in Nat
  BY SettingsAssumption DEF FeedbackInv, FeedbackTypeOK, Account
<1>2. /\ settings # <<>> /\ settings' = Tail(settings)
      /\ client' = [client EXCEPT !.chunks = @ + 1, !.chunk = Head(settings)]
      /\ UNCHANGED <<profile, haptics, haptic_evicted, settings_evicted, playstation_feedback,
                     feedback, feedback_pending, writes, host>>
  BY DEF poll_feedback, PollSettings
<1>3. /\ settings' \in Seq(Nat) /\ Len(settings') = Len(settings) - 1 /\ Len(settings) > 0
      /\ Head(settings) = settings[1] /\ Head(settings) \in Nat
      /\ \A i \in 1 .. Len(settings) - 1 : settings'[i] = settings[i + 1]
  BY <1>1, <1>2
<1>4. /\ client'.chunks = client.chunks + 1 /\ client'.chunk = Head(settings)
      /\ client'.fields = client.fields /\ client'.haptic = client.haptic
      /\ client'.effects = client.effects /\ client'.last = client.last
  BY <1>1, <1>2 DEF Account
<1>5. client' \in Account
  <2>1. client.chunks + 1 \in Nat
    BY <1>1
  <2> QED BY <1>1, <1>2, <1>3, <2>1 DEF Account
<1>6. FeedbackTypeOK'
  <2>1. Len(settings') <= SettingsCapacity
    BY <1>1, <1>3
  <2> QED BY <1>2, <1>3, <1>5, <2>1 DEF FeedbackInv, FeedbackTypeOK
<1>7. \A i \in DOMAIN settings : settings[i] = host.chunks - Len(settings) + i
  BY DEF FeedbackInv, SettingsInv
<1>8. SettingsInv'
  <2>1. host'.chunks = client'.chunks + Len(settings') + settings_evicted'
    <3>1. host.chunks = client.chunks + Len(settings) + settings_evicted
      BY DEF FeedbackInv, SettingsInv
    <3> QED BY <1>1, <1>2, <1>3, <1>4, <3>1
  <2>2. \A i \in DOMAIN settings' : settings'[i] = host'.chunks - Len(settings') + i
    <3>1. DOMAIN settings' = 1 .. Len(settings) - 1 /\ DOMAIN settings = 1 .. Len(settings)
      BY <1>1, <1>3
    <3>2. host'.chunks = host.chunks
      BY <1>2
    <3> TAKE i \in DOMAIN settings'
    <3>3. i \in 1 .. Len(settings) - 1 /\ i \in Nat
      BY <3>1
    <3>4. i + 1 \in DOMAIN settings /\ settings'[i] = settings[i + 1]
      <4>1. i + 1 \in 1 .. Len(settings)
        BY <1>1, <3>3
      <4>2. settings'[i] = settings[i + 1]
        BY <1>3, <3>3
      <4> QED BY <3>1, <4>1, <4>2
    <3>5. settings'[i] = host.chunks - Len(settings) + (i + 1)
      BY <1>7, <3>4
    <3>6. host.chunks - Len(settings) + (i + 1) = host.chunks - (Len(settings) - 1) + i
      <4>1. host.chunks \in Nat /\ Len(settings) \in Nat
        BY <1>1
      <4> QED BY <3>3, <4>1
    <3> QED BY <1>3, <3>2, <3>5, <3>6
  <2>3. client'.chunk = host.chunks - Len(settings) + 1
    <3>1. 1 \in DOMAIN settings
      BY <1>1, <1>3
    <3> QED BY <1>3, <1>4, <1>7, <3>1
  <2>4. host'.chunks - Len(settings') < host'.chunk \/ host'.chunk <= client'.chunk
    BY <1>1, <1>2, <1>3, <2>3
  <2> QED BY <2>1, <2>2, <2>4 DEF SettingsInv
<1>9. HapticInv'
  BY <1>2, <1>4, HapticKept DEF FeedbackInv
<1>10. CoalescedInv'
  BY <1>2, <1>4 DEF FeedbackInv, CoalescedInv, CoalescedExact
<1> QED BY <1>6, <1>8, <1>9, <1>10 DEF FeedbackInv

(* The client reads the coalesced event.                                   *)
LEMMA PollCoalescedStep ==
  ASSUME FeedbackInv, poll_feedback, PollCoalesced
  PROVE  FeedbackInv'
<1>1. client \in Account /\ feedback \in [Fields -> Nat]
  BY DEF FeedbackInv, FeedbackTypeOK
<1>2. /\ feedback_pending' = FALSE /\ client' = [client EXCEPT !.fields = feedback]
      /\ UNCHANGED <<profile, haptics, haptic_evicted, settings, settings_evicted,
                     playstation_feedback, feedback, writes, host>>
  BY DEF poll_feedback, PollCoalesced
<1>3. /\ client'.chunks = client.chunks /\ client'.chunk = client.chunk
      /\ client'.fields = feedback /\ client'.haptic = client.haptic
      /\ client'.effects = client.effects /\ client'.last = client.last /\ client' \in Account
  BY <1>1, <1>2 DEF Account
<1>4. FeedbackTypeOK'
  BY <1>2, <1>3 DEF FeedbackInv, FeedbackTypeOK
<1>5. HapticInv'
  BY <1>2, <1>3, HapticKept DEF FeedbackInv
<1>6. SettingsInv'
  BY <1>2, <1>3 DEF FeedbackInv, SettingsInv
<1>7. CoalescedInv'
  BY <1>2, <1>3 DEF FeedbackInv, CoalescedInv, CoalescedExact
<1> QED BY <1>4, <1>5, <1>6, <1>7 DEF FeedbackInv

(* The client plays the oldest haptic event.                               *)
LEMMA PollHapticStep ==
  ASSUME FeedbackInv, poll_feedback, PollHaptic
  PROVE  FeedbackInv'
<1> DEFINE e == Head(haptics)
<1>1. /\ haptics \in Seq(Haptic) /\ Len(haptics) <= HapticCapacity /\ Len(haptics) \in Nat
      /\ client \in Account /\ host \in Account /\ writes \in Nat /\ haptic_evicted \in Nat
      /\ HapticCapacity \in Nat
      /\ OneStopEach(haptics) /\ Increasing(haptics) /\ Recent /\ EffectsAccounted
      /\ StopNeverLost
  BY HapticAssumption DEF FeedbackInv, FeedbackTypeOK, HapticInv
<1>2. /\ haptics # <<>> /\ haptics' = Tail(haptics)
      /\ client' = [client EXCEPT !.haptic[e.actuator] = e, !.last = e.n,
                                  !.effects = @ + (IF e.stop THEN 0 ELSE 1)]
      /\ UNCHANGED <<profile, settings, haptic_evicted, settings_evicted, playstation_feedback,
                     feedback, feedback_pending, writes, host>>
  BY DEF poll_feedback, PollHaptic
<1>3. /\ haptics' \in Seq(Haptic) /\ Len(haptics') = Len(haptics) - 1 /\ Len(haptics) > 0
      /\ e = haptics[1] /\ e \in Haptic
      /\ \A i \in 1 .. Len(haptics) - 1 : haptics'[i] = haptics[i + 1]
  BY <1>1, <1>2
<1> HIDE DEF e
<1>4. /\ DOMAIN haptics = 1 .. Len(haptics) /\ DOMAIN haptics' = 1 .. Len(haptics) - 1
      /\ 1 \in DOMAIN haptics
  BY <1>1, <1>3
<1>5. \A i \in DOMAIN haptics' : /\ i \in Nat /\ i + 1 \in DOMAIN haptics
                                 /\ haptics'[i] = haptics[i + 1] /\ 1 < i + 1
  BY <1>1, <1>3, <1>4
<1>6. \A j \in DOMAIN haptics : j # 1 => j - 1 \in DOMAIN haptics' /\ haptics'[j - 1] = haptics[j]
  <2> SUFFICES ASSUME NEW j \in DOMAIN haptics, j # 1
               PROVE  j - 1 \in DOMAIN haptics' /\ haptics'[j - 1] = haptics[j]
    OBVIOUS
  <2>1. j - 1 \in 1 .. Len(haptics) - 1 /\ (j - 1) + 1 = j
    BY <1>1, <1>4
  <2> QED BY <1>3, <1>4, <2>1
<1>7. \A i \in DOMAIN haptics : /\ haptics[i] \in Haptic /\ haptics[i].n \in Nat
                                /\ haptics[i].actuator \in Actuators /\ haptics[i].stop \in BOOLEAN
  <2>1. \A i \in DOMAIN haptics : haptics[i] \in Haptic
    BY <1>1
  <2> QED BY <2>1 DEF Haptic
<1>8. e.actuator \in Actuators /\ e.n \in Nat /\ e.stop \in BOOLEAN
  BY <1>3 DEF Haptic
<1>9. /\ host.haptic \in [Actuators -> Haptic] /\ client.haptic \in [Actuators -> Haptic]
      /\ host.effects \in Nat /\ client.effects \in Nat /\ client.last \in Nat
      /\ \A a \in Actuators : host.haptic[a].n \in Nat /\ client.haptic[a].n \in Nat
  BY <1>1 DEF Account, Haptic
<1>10. /\ client'.haptic = [client.haptic EXCEPT ![e.actuator] = e] /\ client'.last = e.n
       /\ client'.effects = client.effects + (IF e.stop THEN 0 ELSE 1)
       /\ client'.fields = client.fields /\ client'.chunks = client.chunks
       /\ client'.chunk = client.chunk
  BY <1>1, <1>2 DEF Account
<1>11. client' \in Account
  <2> DEFINE h == [client EXCEPT !.haptic[e.actuator] = e]
             g == [h EXCEPT !.last = e.n]
             k == client.effects + (IF e.stop THEN 0 ELSE 1)
  <2>1. h \in Account
    BY <1>1, <1>3, <1>8 DEF Account
  <2>2. k \in Nat
    BY <1>8, <1>9
  <2>3. client' = [g EXCEPT !.effects = k]
    BY <1>1, <1>2 DEF Account
  <2> HIDE DEF h, k
  <2>4. g \in Account
    BY <1>8, <2>1 DEF Account
  <2> HIDE DEF g
  <2> QED BY <2>2, <2>3, <2>4 DEF Account
<1>12. /\ client'.haptic[e.actuator] = e
       /\ \A a \in Actuators \ {e.actuator} : client'.haptic[a] = client.haptic[a]
  BY <1>8, <1>9, <1>10
<1>13. FeedbackTypeOK'
  <2>1. Len(haptics') <= HapticCapacity
    BY <1>1, <1>3
  <2> QED BY <1>2, <1>3, <1>11, <2>1 DEF FeedbackInv, FeedbackTypeOK
<1>14. Increasing(haptics')
  BY <1>1, <1>4, <1>5 DEF Increasing
<1>15. OneStopEach(haptics')
  <2> SUFFICES ASSUME NEW i \in DOMAIN haptics', NEW j \in DOMAIN haptics',
                      haptics'[i].stop, haptics'[j].stop,
                      haptics'[i].actuator = haptics'[j].actuator
               PROVE  i = j
    BY DEF OneStopEach
  <2>1. i + 1 = j + 1
    BY <1>1, <1>5 DEF OneStopEach
  <2> QED BY <1>5, <2>1
<1>16. \A i \in DOMAIN haptics' : e.n < haptics'[i].n
  BY <1>1, <1>3, <1>4, <1>5 DEF Increasing
<1>17. e.n <= writes /\ client.last < e.n
  <2>1. client.last < haptics[1].n /\ haptics[1].n <= host.haptic[haptics[1].actuator].n
    BY <1>1, <1>4 DEF Recent
  <2>2. host.haptic[e.actuator].n <= writes /\ host.haptic[e.actuator].n \in Nat
    BY <1>1, <1>8, <1>9 DEF Recent
  <2> QED BY <1>1, <1>3, <1>8, <2>1, <2>2
<1>18. Recent'
  <2>1. \A i \in DOMAIN haptics' : /\ client'.last < haptics'[i].n
                                   /\ haptics'[i].n <= host'.haptic[haptics'[i].actuator].n
    BY <1>1, <1>2, <1>5, <1>10, <1>16 DEF Recent
  <2>2. \A a \in Actuators : client'.haptic[a].n <= client'.last
    <3> TAKE a \in Actuators
    <3>1. CASE a = e.actuator
      BY <1>8, <1>10, <1>12, <3>1
    <3>2. CASE a # e.actuator
      <4>1. client'.haptic[a].n <= client.last
        BY <1>1, <1>12, <3>2 DEF Recent
      <4>2. client'.haptic[a].n \in Nat
        BY <1>9, <1>12, <3>2
      <4> QED BY <1>8, <1>9, <1>10, <1>17, <4>1, <4>2
    <3> QED BY <3>1, <3>2
  <2>3. client'.last <= writes'
    BY <1>2, <1>10, <1>17
  <2> QED BY <1>1, <1>2, <2>1, <2>2, <2>3 DEF Recent
<1>19. StopNeverLost'
  <2> SUFFICES ASSUME NEW a \in Actuators, host.haptic[a].stop
               PROVE  \/ client'.haptic[a] = host.haptic[a]
                      \/ \E i \in DOMAIN haptics' : haptics'[i] = host.haptic[a]
    BY <1>2 DEF StopNeverLost
  <2>1. CASE client.haptic[a] = host.haptic[a]
    <3>1. host.haptic[a].n <= client.last
      BY <1>1, <2>1 DEF Recent
    <3>2. a # e.actuator
      <4> SUFFICES ASSUME a = e.actuator PROVE FALSE
        OBVIOUS
      <4>1. e.n <= host.haptic[a].n
        BY <1>1, <1>3, <1>4 DEF Recent
      <4> QED BY <1>8, <1>9, <1>17, <3>1, <4>1
    <3> QED BY <1>12, <2>1, <3>2
  <2>2. ASSUME NEW j \in DOMAIN haptics, haptics[j] = host.haptic[a]
        PROVE  \/ client'.haptic[a] = host.haptic[a]
               \/ \E i \in DOMAIN haptics' : haptics'[i] = host.haptic[a]
    <3>1. CASE j = 1
      <4>1. host.haptic[a].actuator = a
        BY <1>1 DEF Recent
      <4> QED BY <1>3, <1>12, <2>2, <3>1, <4>1
    <3>2. CASE j # 1
      BY <1>6, <2>2, <3>2
    <3> QED BY <3>1, <3>2
  <2> QED BY <1>1, <2>1, <2>2 DEF StopNeverLost
<1>20. EffectsAccounted'
  <2> DEFINE W == Waiting(haptics)
  <2>0. IsFiniteSet(W) /\ Cardinality(W) \in Nat
        /\ host.effects = client.effects + haptic_evicted + Cardinality(W)
    BY <1>1, FS_CardinalityType DEF EffectsAccounted
  <2>1. Waiting(haptics') = IF e.stop THEN W ELSE W \ {e}
    <3>1. ASSUME NEW x \in Waiting(haptics')
          PROVE  x \in W /\ x # e
      <4>1. PICK i \in DOMAIN haptics' : x = haptics'[i] /\ ~haptics'[i].stop
        BY <3>1 DEF Waiting, Ordinary
      <4>2. x \in W
        BY <1>5, <4>1 DEF Waiting, Ordinary
      <4>3. e.n < x.n
        BY <1>16, <4>1
      <4> QED BY <1>8, <4>2, <4>3
    <3>2. ASSUME NEW x \in W, e.stop \/ x # e
          PROVE  x \in Waiting(haptics')
      <4>1. PICK j \in DOMAIN haptics : x = haptics[j] /\ ~haptics[j].stop
        BY <3>2 DEF Waiting, Ordinary
      <4>2. j # 1
        BY <1>3, <3>2, <4>1
      <4> QED BY <1>6, <4>1, <4>2 DEF Waiting, Ordinary
    <3> HIDE DEF W
    <3> QED BY <1>8, <3>1, <3>2
  <2>2. ~e.stop => e \in W
    BY <1>3, <1>4 DEF Waiting, Ordinary
  <2> HIDE DEF W
  <2>3. /\ IsFiniteSet(Waiting(haptics')) /\ Cardinality(Waiting(haptics')) \in Nat
        /\ Cardinality(Waiting(haptics')) = Cardinality(W) - (IF e.stop THEN 0 ELSE 1)
    <3>1. CASE e.stop
      BY <2>0, <2>1, <3>1
    <3>2. CASE ~e.stop
      BY <2>0, <2>1, <2>2, <3>2, FS_RemoveElement, FS_CardinalityType
    <3> QED BY <3>1, <3>2
  <2>4. host'.effects = host.effects /\ haptic_evicted' = haptic_evicted
    BY <1>2
  <2>5. host'.effects = client'.effects + haptic_evicted' + Cardinality(Waiting(haptics'))
    <3>1. CASE e.stop
      BY <1>1, <1>9, <1>10, <2>0, <2>3, <2>4, <3>1
    <3>2. CASE ~e.stop
      BY <1>1, <1>9, <1>10, <2>0, <2>3, <2>4, <3>2
    <3> QED BY <3>1, <3>2
  <2> QED BY <2>3, <2>5 DEF EffectsAccounted
<1>21. SettingsInv'
  BY <1>2, <1>10 DEF FeedbackInv, SettingsInv
<1>22. CoalescedInv'
  BY <1>2, <1>10 DEF FeedbackInv, CoalescedInv, CoalescedExact
<1> QED BY <1>13, <1>14, <1>15, <1>18, <1>19, <1>20, <1>21, <1>22 DEF FeedbackInv, HapticInv

-----------------------------------------------------------------------------
LEMMA FeedbackStepInv == FeedbackInv /\ [FeedbackNext]_feedback_vars => FeedbackInv'
<1> SUFFICES ASSUME FeedbackInv, [FeedbackNext]_feedback_vars PROVE FeedbackInv'
  OBVIOUS
<1>1. CASE UNCHANGED feedback_vars
  BY <1>1 DEF feedback_vars, FeedbackInv, FeedbackTypeOK, HapticInv, Recent, EffectsAccounted, StopNeverLost,
              SettingsInv, CoalescedInv, CoalescedExact
<1>2. CASE poll_feedback
  BY <1>2, PollSettingsStep, PollHapticStep, PollCoalescedStep DEF poll_feedback
<1> QED BY <1>1, <1>2, HapticStep, SettingsStep, PlaystationStep, WholeStep DEF FeedbackNext

LEMMA FeedbackInvAlways == FeedbackSpec => []FeedbackInv
BY FeedbackInitInv, FeedbackStepInv, PTL DEF FeedbackSpec

(* The queues never outgrow their capacity, and every variable keeps its   *)
(* type.                                                                   *)
THEOREM FeedbackTypeCorrect == FeedbackSpec => []FeedbackTypeOK
<1>1. FeedbackInv => FeedbackTypeOK
  BY DEF FeedbackInv
<1> QED BY FeedbackInvAlways, <1>1, PTL

(* The host's last word on an actuator, when it is a stop, is still queued *)
(* or is the client's last word too: enqueue_haptic never drops it, for    *)
(* any number of actuators smaller than the queue.                         *)
THEOREM StopsArrive == FeedbackSpec => []StopNeverLost
<1>1. FeedbackInv => StopNeverLost
  BY DEF FeedbackInv, HapticInv
<1> QED BY FeedbackInvAlways, <1>1, PTL

(* Haptic events are read in the order they were written, and every        *)
(* ordinary effect is read, waiting or counted as evicted.                 *)
THEOREM HapticsAccounted == FeedbackSpec => []HapticsExact
<1>1. FeedbackInv => HapticsExact
  BY DEF FeedbackInv, HapticInv, Increasing, Recent, EffectsAccounted, Waiting, HapticsExact
<1> QED BY FeedbackInvAlways, <1>1, PTL

(* Settings chunks are read in order, each read, waiting or counted as     *)
(* evicted, and the newest write of the host is never torn.                *)
THEOREM SettingsAccounted == FeedbackSpec => []SettingsExact
<1>1. FeedbackInv => SettingsExact
  <2> SUFFICES ASSUME FeedbackInv PROVE SettingsExact
    OBVIOUS
  <2>1. /\ settings \in Seq(Nat) /\ Len(settings) \in Nat /\ host.chunks \in Nat
        /\ host.chunk \in Nat /\ client.chunk \in Nat /\ DOMAIN settings = 1 .. Len(settings)
    BY DEF FeedbackInv, FeedbackTypeOK, Account
  <2>2. \A i \in DOMAIN settings : settings[i] = host.chunks - Len(settings) + i
    BY DEF FeedbackInv, SettingsInv
  <2>3. ASSUME client.chunk < host.chunk, NEW c \in host.chunk .. host.chunks
        PROVE  \E i \in DOMAIN settings : settings[i] = c
    <3>1. host.chunks - Len(settings) < host.chunk
      BY <2>1, <2>3 DEF FeedbackInv, SettingsInv
    <3> DEFINE i == c - (host.chunks - Len(settings))
    <3>2. i \in 1 .. Len(settings) /\ host.chunks - Len(settings) + i = c
      BY <2>1, <3>1
    <3> HIDE DEF i
    <3> QED BY <2>1, <2>2, <3>2
  <2> QED BY <2>2, <2>3 DEF FeedbackInv, SettingsInv, SettingsExact
<1> QED BY FeedbackInvAlways, <1>1, PTL

(* When nothing is pending the client knows the last value the host wrote  *)
(* to each field, whichever fields each report enabled.                    *)
THEOREM FieldsNeverDropped == FeedbackSpec => []CoalescedExact
<1>1. FeedbackInv => CoalescedExact
  BY DEF FeedbackInv, CoalescedInv
<1> QED BY FeedbackInvAlways, <1>1, PTL

-----------------------------------------------------------------------------
(* SteamKeepAlive.  The invariant ties the thread handle to the one worker *)
(* that may be alive, and says who may have cleared sc26_timer_running or  *)
(* left the timer off.                                                     *)

Gated == {"power_gated", "stop_gated", "power_signalled", "stop_signalled",
          "power_joined", "stop_deleted"}
Joined == {"publish", "arm", "create", "uncreated", "unset"}

(* Who holds the gate, and what the PnP thread has ended by then.          *)
Gates ==
  /\ gate = "client" <=> pc.at # "idle"
  /\ gate = "pnp" <=> pnp \in Gated
  /\ powered => pnp = "up"
  /\ pnp \in Gated \cup {"down"} => ~running /\ \A s \in Slots : slot[s].state # "active"
  /\ pnp \in {"power_joined", "down"} => thread = 0 /\ timer # "set"
  /\ pnp = "down" => gate = "none"

(* The worker that the handle is of is the only one that may be alive.     *)
Single ==
  /\ \A w \in Workers : Alive(w) => thread = w
  /\ pc.at \in Joined => thread = 0

(* sc26_timer_running: a worker is there, or about to be created; and one  *)
(* that waits was not told otherwise, unless by the PnP thread.            *)
Flag ==
  /\ running /\ pc.at \in {"idle", "motion"} => \E w \in Workers : Alive(w)
  /\ pc.at \in {"arm", "create", "uncreated"} => running
  /\ pc.at = "create" => timer # "off"
  /\ \A w \in Workers : worker[w] \in {"waiting", "ticking"} /\ ~running => gate = "pnp"

(* A worker whose timer is off has parked.                                 *)
Parked ==
  \A w \in Workers : worker[w] = "waiting" /\ timer = "off" => parked \/ ~running \/ stop_event

Wakeful ==
  \A w \in Workers, s \in Slots :
    worker[w] = "waiting" /\ Kept(slot, s) /\ Accepts(s) /\ slot[s].ready =>
      timer # "off" \/ ~running \/ stop_event

IInv == TypeOK /\ Gates /\ Single /\ Flag /\ Parked /\ Wakeful

-----------------------------------------------------------------------------
LEMMA WorkerFacts == 0 \notin Workers /\ Workers \subseteq Nat
BY BoundsAssumption DEF Workers

(* What the record operations of the model do to a controller.             *)
LEMMA RecordFields ==
  ASSUME NEW r \in SlotRecord
  PROVE  /\ r.state \in {"empty", "active", "stopping"} /\ r.have_last_input \in BOOLEAN
         /\ r.ready \in BOOLEAN /\ r.queued \in BOOLEAN /\ r.late \in BOOLEAN /\ r.fresh \in BOOLEAN
         /\ r.battery \in 0 .. MaxReports /\ ~(r.ready /\ r.queued)
BY DEF SlotRecord

LEMMA EmptyFields ==
  /\ Empty \in SlotRecord /\ Empty.state = "empty" /\ ~Empty.have_last_input /\ ~Empty.ready
  /\ [Empty EXCEPT !.state = "active"] \in SlotRecord
  /\ ~[Empty EXCEPT !.state = "active"].have_last_input
  /\ ~[Empty EXCEPT !.state = "active"].ready
<1>1. 0 \in 0 .. MaxReports
  BY BoundsAssumption
<1>2. Empty \in SlotRecord /\ Empty.state = "empty" /\ ~Empty.have_last_input /\ ~Empty.ready
  BY <1>1 DEF Empty, SlotRecord
<1>3. [Empty EXCEPT !.state = "active"] \in SlotRecord
  BY <1>2 DEF SlotRecord
<1>4. /\ ~[Empty EXCEPT !.state = "active"].have_last_input
      /\ ~[Empty EXCEPT !.state = "active"].ready
  BY <1>2 DEF SlotRecord
<1> QED BY <1>2, <1>3, <1>4

LEMMA EnqueuedFields ==
  ASSUME NEW r \in SlotRecord
  PROVE  /\ Enqueued(r) \in SlotRecord /\ Enqueued(r).state = r.state /\ ~Enqueued(r).ready
         /\ Enqueued(r).have_last_input = r.have_last_input
<1>1. CASE r.ready
  <2>1. Enqueued(r) = [r EXCEPT !.ready = FALSE, !.late = FALSE, !.fresh = FALSE]
    BY <1>1 DEF Enqueued
  <2> QED BY <2>1 DEF SlotRecord
<1>2. CASE ~r.ready
  <2>1. Enqueued(r) = [r EXCEPT !.queued = TRUE, !.fresh = FALSE]
    BY <1>2 DEF Enqueued
  <2> QED BY <1>2, <2>1 DEF SlotRecord
<1> QED BY <1>1, <1>2

LEMMA TickedFields ==
  ASSUME TypeOK, NEW s \in Slots, NEW b \in BOOLEAN
  PROVE  /\ Ticked(s, b) \in SlotRecord /\ Ticked(s, b).state = slot[s].state
         /\ Ticked(s, b).have_last_input = slot[s].have_last_input
         /\ Ticked(s, b).ready => slot[s].ready
<1> DEFINE r == slot[s]
<1>1. r \in SlotRecord
  BY DEF TypeOK
<1>2. /\ r.ready \in BOOLEAN /\ r.late \in BOOLEAN /\ r.fresh \in BOOLEAN /\ r.battery \in 0 .. MaxReports
      /\ ~(r.ready /\ r.queued)
  BY <1>1, RecordFields
<1>3. CASE ~Kept(slot, s) \/ stopping
  BY <1>1, <1>3 DEF Ticked
<1>4. CASE ~(~Kept(slot, s) \/ stopping)
  <2>1. CASE ~r.ready
    <3>1. Ticked(s, b) = [r EXCEPT !.late = FALSE]
      BY <1>4, <2>1 DEF Ticked
    <3> QED BY <1>1, <2>1, <3>1 DEF SlotRecord
  <2>2. CASE r.ready /\ ~Accepts(s)
    <3>1. Ticked(s, b) = [r EXCEPT !.fresh = r.fresh /\ ~r.late]
      BY <1>1, <1>4, <2>2 DEF Ticked, SlotRecord
    <3>2. (r.fresh /\ ~r.late) \in BOOLEAN
      OBVIOUS
    <3> QED BY <1>1, <2>2, <3>1, <3>2 DEF SlotRecord
  <2>3. CASE r.ready /\ Accepts(s) /\ b /\ r.battery < MaxReports
    <3>1. Ticked(s, b) = [r EXCEPT !.ready = FALSE, !.queued = r.late, !.fresh = r.fresh /\ ~r.late,
                                   !.battery = r.battery + 1]
      BY <1>1, <1>4, <2>3 DEF Ticked, SlotRecord
    <3>2. (r.fresh /\ ~r.late) \in BOOLEAN /\ r.battery + 1 \in 0 .. MaxReports
      BY <1>2, <2>3, BoundsAssumption
    <3> QED BY <1>1, <1>2, <3>1, <3>2 DEF SlotRecord
  <2>4. CASE r.ready /\ Accepts(s) /\ ~(b /\ r.battery < MaxReports)
    <3>1. Ticked(s, b) = IF r.late THEN Enqueued(r) ELSE r
      BY <1>4, <2>4 DEF Ticked
    <3> QED BY <1>1, <2>4, <3>1, EnqueuedFields
  <2> QED BY <1>2, <2>1, <2>2, <2>3, <2>4
<1> QED BY <1>3, <1>4

LEMMA InitInv == Init => IInv
<1> HAVE Init
<1>1. TypeOK
  <2>1. slot \in [Slots -> SlotRecord]
    BY EmptyFields DEF Init
  <2>2. pc \in [at : ClientSteps, slot : Slots]
    BY DEF Init, ClientSteps
  <2>3. worker \in [Workers -> WorkerStates] /\ pnp \in PnpSteps
    BY DEF Init, WorkerStates, PnpSteps
  <2>4. faults \in 0 .. MaxFaults /\ downs \in 0 .. MaxDowns
    BY BoundsAssumption DEF Init
  <2> QED BY <2>1, <2>2, <2>3, <2>4 DEF Init, TypeOK
<1>2. Gates
  BY DEF Init, Gates, Gated
<1>3. Single /\ Flag /\ Parked /\ Wakeful
  BY DEF Init, Single, Flag, Parked, Wakeful, Alive, Joined
<1> QED BY <1>1, <1>2, <1>3 DEF IInv

-----------------------------------------------------------------------------
(* Controllers that change in one slot.                                    *)
LEMMA WriteFacts ==
  ASSUME TypeOK, NEW s \in Slots, NEW r \in SlotRecord, slot' = [slot EXCEPT ![s] = r]
  PROVE  /\ slot' \in [Slots -> SlotRecord] /\ slot'[s] = r
         /\ \A u \in Slots : u # s => slot'[u] = slot[u]
BY DEF TypeOK

(* A step that changes no thread, no flag and no lock, makes no controller *)
(* active and lets VHF accept no report.                                   *)
LEMMA SlotStep ==
  ASSUME IInv, slot' \in [Slots -> SlotRecord],
         UNCHANGED <<running, parked, timer, stop_event, worker, thread, gate, pc, pnp,
                     powered, stopping, faults, downs>>,
         \A s \in Slots : /\ slot'[s].state = "active" => slot[s].state = "active" \/ powered
                          /\ slot'[s].ready /\ slot'[s].have_last_input /\ slot'[s].state = "active" =>
                               slot[s].ready /\ slot[s].have_last_input /\ slot[s].state = "active"
  PROVE  IInv'
<1>1. TypeOK'
  BY DEF IInv, TypeOK
<1>2. Gates'
  BY DEF IInv, Gates, Gated
<1>3. Single' /\ Flag' /\ Parked'
  BY DEF IInv, Single, Flag, Parked, Alive
<1>4. Wakeful'
  BY DEF IInv, Wakeful, Kept, Accepts
<1> QED BY <1>1, <1>2, <1>3, <1>4 DEF IInv

LEMMA CreateStep == ASSUME IInv, NEW s \in Slots, Create(s) PROVE IInv'
<1> DEFINE r == [Empty EXCEPT !.state = "active"]
<1>1. /\ TypeOK /\ powered /\ r \in SlotRecord /\ slot' = [slot EXCEPT ![s] = r]
      /\ UNCHANGED <<running, parked, timer, stop_event, worker, thread, gate, pc, pnp,
                     powered, stopping, faults, downs>>
  BY EmptyFields DEF IInv, Create
<1>2. ~r.ready
  BY EmptyFields
<1> HIDE DEF r
<1>3. /\ slot' \in [Slots -> SlotRecord] /\ slot'[s] = r
      /\ \A u \in Slots : u # s => slot'[u] = slot[u]
  BY <1>1, WriteFacts
<1> QED BY <1>1, <1>2, <1>3, SlotStep

LEMMA DestroyStep == ASSUME IInv, NEW s \in Slots, Destroy(s) PROVE IInv'
<1>1. /\ TypeOK /\ slot' = [slot EXCEPT ![s] = Empty]
      /\ UNCHANGED <<running, parked, timer, stop_event, worker, thread, gate, pc, pnp,
                     powered, stopping, faults, downs>>
  BY DEF IInv, Destroy
<1>2. /\ slot' \in [Slots -> SlotRecord] /\ slot'[s] = Empty
      /\ \A u \in Slots : u # s => slot'[u] = slot[u]
  BY <1>1, WriteFacts, EmptyFields
<1> QED BY <1>1, <1>2, EmptyFields, SlotStep

LEMMA BecomesLateStep == ASSUME IInv, NEW s \in Slots, BecomesLate(s) PROVE IInv'
<1> DEFINE r == [slot[s] EXCEPT !.late = TRUE]
<1>1. /\ TypeOK /\ slot[s] \in SlotRecord /\ slot' = [slot EXCEPT ![s] = r]
      /\ UNCHANGED <<running, parked, timer, stop_event, worker, thread, gate, pc, pnp,
                     powered, stopping, faults, downs>>
  BY DEF IInv, BecomesLate, TypeOK
<1>2. /\ r \in SlotRecord /\ r.state = slot[s].state /\ r.ready = slot[s].ready
      /\ r.have_last_input = slot[s].have_last_input
  BY <1>1 DEF SlotRecord
<1> HIDE DEF r
<1>3. /\ slot' \in [Slots -> SlotRecord] /\ slot'[s] = r
      /\ \A u \in Slots : u # s => slot'[u] = slot[u]
  BY <1>1, <1>2, WriteFacts
<1> QED BY <1>1, <1>2, <1>3, SlotStep

-----------------------------------------------------------------------------
(* Where the client is, after a step that moves it.                        *)
LEMMA Moved ==
  ASSUME pc \in [at : ClientSteps, slot : Slots], NEW x \in ClientSteps, pc' = [pc EXCEPT !.at = x]
  PROVE  pc' \in [at : ClientSteps, slot : Slots] /\ pc'.at = x
OBVIOUS

LEMMA Labels ==
  /\ "idle" \in ClientSteps /\ "motion" \in ClientSteps /\ "join" \in ClientSteps
  /\ "publish" \in ClientSteps /\ "arm" \in ClientSteps /\ "create" \in ClientSteps
  /\ "uncreated" \in ClientSteps /\ "unset" \in ClientSteps
BY DEF ClientSteps

(* A handle that is empty or of an exited thread: nobody is alive.         *)
LEMMA Nobody ==
  ASSUME Single, thread = 0 \/ worker[thread] = "exited"
  PROVE  \A w \in Workers : ~Alive(w)
BY WorkerFacts DEF Single, Alive

(* A client that has joined the worker: there is none, and the PnP thread  *)
(* has neither ended admission nor gone down.                              *)
LEMMA ClientFacts ==
  ASSUME IInv, gate = "client"
  PROVE  /\ pnp \notin Gated \cup {"down"}
         /\ pc.at \in Joined => thread = 0 /\ \A w \in Workers : ~Alive(w)
<1>1. pnp \notin Gated \cup {"down"}
  BY DEF IInv, Gates
<1>2. ASSUME pc.at \in Joined
      PROVE  thread = 0 /\ \A w \in Workers : ~Alive(w)
  <2>1. thread = 0 /\ Single
    BY <1>2 DEF IInv, Single
  <2> QED BY <2>1, Nobody
<1> QED BY <1>1, <1>2

(* A step of the start that leaves the threads as they are, with nobody    *)
(* alive.                                                                  *)
LEMMA ClientStep ==
  ASSUME IInv, gate = "client", \A w \in Workers : ~Alive(w), TypeOK',
         UNCHANGED <<slot, worker, pnp, powered, stopping>>,
         thread' = 0,
         \/ gate' = "client" /\ pc'.at \in Joined
         \/ gate' = "none" /\ pc'.at = "idle" /\ ~running',
         pc'.at \in {"arm", "create", "uncreated"} => running',
         pc'.at = "create" => timer' # "off"
  PROVE  IInv'
<1>1. pnp \notin Gated \cup {"down"} /\ pnp' = pnp
  BY ClientFacts
<1>2. Gates'
  BY <1>1 DEF IInv, Gates, Joined, Gated
<1>3. \A w \in Workers : ~Alive(w)'
  BY DEF Alive
<1>4. Single'
  BY <1>3 DEF Single
<1>5. \A w \in Workers : worker'[w] \notin {"waiting", "ticking"}
  BY DEF Alive
<1>6. Flag'
  BY <1>5 DEF Flag, Joined
<1>7. Parked' /\ Wakeful'
  BY <1>5 DEF Parked, Wakeful
<1> QED BY <1>2, <1>4, <1>6, <1>7 DEF IInv

LEMMA StartJoinStep == ASSUME IInv, StartJoin PROVE IInv'
<1>1. /\ gate = "client" /\ pc.at = "join" /\ (thread # 0 => worker[thread] = "exited")
      /\ thread' = 0 /\ pc' = [pc EXCEPT !.at = "publish"] /\ TypeOK /\ Single
      /\ UNCHANGED <<slot, running, parked, timer, stop_event, worker, gate, pnp, powered,
                     stopping, faults, downs>>
  BY DEF IInv, StartJoin, ClientAt
<1>2. \A w \in Workers : ~Alive(w)
  BY <1>1, Nobody
<1>3. pc' \in [at : ClientSteps, slot : Slots] /\ pc'.at = "publish"
  BY <1>1, Moved, Labels DEF TypeOK
<1>4. TypeOK'
  BY <1>1, <1>3 DEF TypeOK
<1> QED BY <1>1, <1>2, <1>3, <1>4, ClientStep DEF Joined

LEMMA StartPublishStep == ASSUME IInv, StartPublish PROVE IInv'
<1>1. /\ gate = "client" /\ pc.at = "publish"
      /\ running' = TRUE /\ parked' = FALSE /\ pc' = [pc EXCEPT !.at = "arm"] /\ TypeOK
      /\ UNCHANGED <<slot, timer, stop_event, worker, thread, gate, pnp, powered, stopping,
                     faults, downs>>
  BY DEF IInv, StartPublish, ClientAt
<1>2. thread' = 0 /\ \A w \in Workers : ~Alive(w)
  BY <1>1, ClientFacts DEF Joined
<1>3. pc' \in [at : ClientSteps, slot : Slots] /\ pc'.at = "arm"
  BY <1>1, Moved, Labels DEF TypeOK
<1>4. TypeOK'
  BY <1>1, <1>3 DEF TypeOK
<1> QED BY <1>1, <1>2, <1>3, <1>4, ClientStep DEF Joined

LEMMA StartArmStep == ASSUME IInv, NEW fails \in BOOLEAN, StartArm(fails) PROVE IInv'
<1>1. /\ gate = "client" /\ pc.at = "arm" /\ running /\ (fails => faults < MaxFaults)
      /\ faults' = faults + (IF fails THEN 1 ELSE 0) /\ stop_event' = FALSE
      /\ timer' = (IF fails THEN timer ELSE "set")
      /\ pc' = [pc EXCEPT !.at = IF fails THEN "unset" ELSE "create"] /\ TypeOK
      /\ UNCHANGED <<slot, running, parked, worker, thread, gate, pnp, powered, stopping, downs>>
  BY DEF IInv, StartArm, ClientAt, Flag
<1>2. thread' = 0 /\ \A w \in Workers : ~Alive(w)
  BY <1>1, ClientFacts DEF Joined
<1>3. PICK x : x = IF fails THEN "unset" ELSE "create"
  OBVIOUS
<1>4. pc' \in [at : ClientSteps, slot : Slots] /\ pc'.at = x
  BY <1>1, <1>3, Moved, Labels DEF TypeOK
<1>5. faults' \in 0 .. MaxFaults
  BY <1>1, BoundsAssumption DEF TypeOK
<1>6. TypeOK'
  BY <1>1, <1>4, <1>5 DEF TypeOK
<1>7. pc'.at = "create" => timer' # "off"
  BY <1>1, <1>3, <1>4
<1>8. pc'.at \in Joined
  BY <1>3, <1>4 DEF Joined
<1> QED BY <1>1, <1>2, <1>6, <1>7, <1>8, ClientStep

LEMMA StartUncreatedStep == ASSUME IInv, StartUncreated PROVE IInv'
<1>1. /\ gate = "client" /\ pc.at = "create" /\ running /\ faults < MaxFaults
      /\ faults' = faults + 1 /\ pc' = [pc EXCEPT !.at = "uncreated"] /\ TypeOK
      /\ UNCHANGED <<slot, running, parked, timer, stop_event, worker, thread, gate, pnp, powered,
                     stopping, downs>>
  BY DEF IInv, StartUncreated, ClientAt, Flag
<1>2. thread' = 0 /\ \A w \in Workers : ~Alive(w)
  BY <1>1, ClientFacts DEF Joined
<1>3. pc' \in [at : ClientSteps, slot : Slots] /\ pc'.at = "uncreated"
  BY <1>1, Moved, Labels DEF TypeOK
<1>4. faults' \in 0 .. MaxFaults
  BY <1>1, BoundsAssumption DEF TypeOK
<1>5. TypeOK'
  BY <1>1, <1>3, <1>4 DEF TypeOK
<1> QED BY <1>1, <1>2, <1>3, <1>5, ClientStep DEF Joined

LEMMA CancelUncreatedStep == ASSUME IInv, CancelUncreated PROVE IInv'
<1>1. /\ gate = "client" /\ pc.at = "uncreated" /\ timer' \in {"off", timer}
      /\ pc' = [pc EXCEPT !.at = "unset"] /\ TypeOK
      /\ UNCHANGED <<slot, running, parked, stop_event, worker, thread, gate, pnp, powered,
                     stopping, faults, downs>>
  BY DEF IInv, CancelUncreated, ClientAt
<1>2. thread' = 0 /\ \A w \in Workers : ~Alive(w)
  BY <1>1, ClientFacts DEF Joined
<1>3. pc' \in [at : ClientSteps, slot : Slots] /\ pc'.at = "unset"
  BY <1>1, Moved, Labels DEF TypeOK
<1>4. TypeOK'
  BY <1>1, <1>3 DEF TypeOK
<1> QED BY <1>1, <1>2, <1>3, <1>4, ClientStep DEF Joined

LEMMA StartWithdrawStep == ASSUME IInv, StartWithdraw PROVE IInv'
<1>1. /\ gate = "client" /\ pc.at = "unset" /\ running' = FALSE /\ gate' = "none"
      /\ pc' = [pc EXCEPT !.at = "idle"] /\ TypeOK
      /\ UNCHANGED <<slot, parked, timer, stop_event, worker, thread, pnp, powered, stopping,
                     faults, downs>>
  BY DEF IInv, StartWithdraw, ClientAt
<1>2. thread' = 0 /\ \A w \in Workers : ~Alive(w)
  BY <1>1, ClientFacts DEF Joined
<1>3. pc' \in [at : ClientSteps, slot : Slots] /\ pc'.at = "idle"
  BY <1>1, Moved, Labels DEF TypeOK
<1>4. TypeOK'
  BY <1>1, <1>3 DEF TypeOK
<1> QED BY <1>1, <1>2, <1>3, <1>4, ClientStep DEF Joined

LEMMA StartCreateStep == ASSUME IInv, StartCreate PROVE IInv'
<1>1. PICK w \in Workers : worker' = [worker EXCEPT ![w] = "waiting"] /\ thread' = w
  BY DEF StartCreate
<1>2. /\ gate = "client" /\ pc.at = "create" /\ running /\ timer # "off" /\ TypeOK
      /\ gate' = "none" /\ pc' = [pc EXCEPT !.at = "idle"]
      /\ UNCHANGED <<slot, running, parked, timer, stop_event, pnp, powered, stopping, faults,
                     downs>>
  BY DEF IInv, StartCreate, ClientAt, Flag
<1>3. /\ \A v \in Workers : ~Alive(v)
      /\ pnp \notin Gated \cup {"down"}
  BY <1>2, ClientFacts DEF Joined
<1>4. pc' \in [at : ClientSteps, slot : Slots] /\ pc'.at = "idle"
  BY <1>2, Moved, Labels DEF TypeOK
<1>5. /\ worker' \in [Workers -> WorkerStates] /\ worker'[w] = "waiting"
      /\ \A v \in Workers : v # w => worker'[v] = worker[v]
  BY <1>1, <1>2 DEF TypeOK, WorkerStates
<1>6. TypeOK'
  BY <1>1, <1>2, <1>4, <1>5 DEF TypeOK
<1>7. Gates'
  BY <1>2, <1>3, <1>4 DEF IInv, Gates, Gated
<1>8. Single'
  BY <1>1, <1>3, <1>4, <1>5 DEF Single, Alive, Joined
<1>9. Flag'
  <2>1. Alive(w)'
    BY <1>5 DEF Alive
  <2> QED BY <1>2, <1>4, <2>1 DEF Flag
<1>10. Parked' /\ Wakeful'
  BY <1>2 DEF Parked, Wakeful
<1> QED BY <1>6, <1>7, <1>8, <1>9, <1>10 DEF IInv

-----------------------------------------------------------------------------
(* A waiting worker that must not be told apart from one that runs: with   *)
(* the gate not held by the PnP thread, its flag is set.                   *)
LEMMA WaitingRuns ==
  ASSUME IInv, gate # "pnp", NEW w \in Workers, worker[w] \in {"waiting", "ticking"}
  PROVE  running
BY DEF IInv, Flag

LEMMA SubmitInputStep == ASSUME IInv, NEW s \in Slots, SubmitInput(s) PROVE IInv'
<1> DEFINE r == [slot[s] EXCEPT !.have_last_input = TRUE]
           q == IF Accepts(s) THEN Enqueued(r) ELSE r
           taken == Accepts(s) /\ r.ready
<1>1. /\ gate = "none" /\ pc.at = "idle" /\ ~stopping /\ slot[s].state = "active"
      /\ slot' = [slot EXCEPT ![s] = q] /\ running' = TRUE /\ TypeOK
      /\ UNCHANGED <<stop_event, worker, thread, pnp, powered, stopping, faults, downs>>
  BY DEF IInv, SubmitInput
<1>2. \/ ~running /\ gate' = "client" /\ pc' = [at |-> "join", slot |-> s]
      \/ running /\ UNCHANGED <<gate, pc>>
  BY DEF SubmitInput
<1>3. \/ taken /\ timer' = "set" /\ parked' = FALSE
      \/ ~taken /\ UNCHANGED <<timer, parked>>
  BY DEF SubmitInput, Arm, IInv, TypeOK
<1>4. slot[s] \in SlotRecord
  BY <1>1 DEF TypeOK
<1>5. r \in SlotRecord /\ r.state = slot[s].state
  BY <1>4 DEF SlotRecord
<1>6. /\ q \in SlotRecord /\ q.state = "active" /\ (Accepts(s) => ~q.ready)
  BY <1>1, <1>5, EnqueuedFields
<1> HIDE DEF r, q, taken
<1>7. /\ slot' \in [Slots -> SlotRecord] /\ slot'[s] = q
      /\ \A u \in Slots : u # s => slot'[u] = slot[u]
  BY <1>1, <1>6, WriteFacts
<1>8. pnp \notin Gated \cup {"down"}
  BY <1>1 DEF IInv, Gates
<1>9. TypeOK'
  <2>1. pc' \in [at : ClientSteps, slot : Slots]
    BY <1>1, <1>2, Labels DEF TypeOK
  <2>2. gate' \in {"none", "client", "pnp"} /\ timer' \in {"off", "set", "signalled"}
        /\ parked' \in BOOLEAN
    BY <1>1, <1>2, <1>3 DEF TypeOK
  <2> QED BY <1>1, <1>7, <2>1, <2>2 DEF TypeOK
<1>10. /\ gate' = "client" <=> pc'.at # "idle"
       /\ gate' # "pnp" /\ pc'.at \in {"idle", "join"}
  BY <1>1, <1>2
<1>11. Gates'
  BY <1>1, <1>8, <1>10 DEF IInv, Gates, Gated
<1>12. Single'
  BY <1>1, <1>10 DEF IInv, Single, Alive, Joined
<1>13. Flag'
  <2>1. pc'.at = "idle" => \E w \in Workers : Alive(w)'
    <3>1. running /\ pc.at = "idle" => \E w \in Workers : Alive(w)
      BY DEF IInv, Flag
    <3> QED BY <1>1, <1>2, <3>1 DEF Alive
  <2> QED BY <1>1, <1>10, <2>1 DEF Flag
<1>14. ASSUME NEW w \in Workers, worker'[w] = "waiting"
       PROVE  worker[w] = "waiting" /\ running
  BY <1>1, <1>14, WaitingRuns
<1>15. Parked'
  BY <1>1, <1>3, <1>14 DEF IInv, Parked
<1>16. Wakeful'
  <2> SUFFICES ASSUME NEW w \in Workers, NEW u \in Slots, worker'[w] = "waiting",
                      Kept(slot, u)', Accepts(u)', slot'[u].ready
               PROVE  timer' # "off" \/ ~running' \/ stop_event'
    BY DEF Wakeful
  <2>1. u # s
    BY <1>1, <1>6, <1>7 DEF Accepts
  <2>2. Kept(slot, u) /\ Accepts(u) /\ slot[u].ready
    BY <1>1, <1>7, <2>1 DEF Kept, Accepts
  <2> QED BY <1>1, <1>3, <1>14, <2>2 DEF IInv, Wakeful
<1> QED BY <1>9, <1>11, <1>12, <1>13, <1>15, <1>16 DEF IInv

LEMMA MotionFoldStep == ASSUME IInv, NEW s \in Slots, MotionFold(s) PROVE IInv'
<1> DEFINE r == [slot[s] EXCEPT !.fresh = TRUE]
<1>1. /\ gate = "none" /\ pc.at = "idle" /\ slot[s].state = "active" /\ TypeOK
      /\ slot' = [slot EXCEPT ![s] = r] /\ slot[s] \in SlotRecord
      /\ gate' = "client" /\ pc' = [at |-> "motion", slot |-> s]
      /\ UNCHANGED <<running, parked, timer, stop_event, worker, thread, pnp, powered, stopping,
                     faults, downs>>
  BY DEF IInv, MotionFold, TypeOK
<1>2. /\ r \in SlotRecord /\ r.state = slot[s].state /\ r.ready = slot[s].ready
      /\ r.have_last_input = slot[s].have_last_input
  BY <1>1 DEF SlotRecord
<1> HIDE DEF r
<1>3. /\ slot' \in [Slots -> SlotRecord] /\ slot'[s] = r
      /\ \A u \in Slots : u # s => slot'[u] = slot[u]
  BY <1>1, <1>2, WriteFacts
<1>4. pnp \notin Gated \cup {"down"}
  BY <1>1 DEF IInv, Gates
<1>5. TypeOK'
  BY <1>1, <1>3, Labels DEF TypeOK
<1>6. Gates'
  BY <1>1, <1>4 DEF IInv, Gates, Gated
<1>7. Single'
  BY <1>1 DEF IInv, Single, Alive, Joined
<1>8. Flag'
  BY <1>1 DEF IInv, Flag, Alive
<1>9. Parked'
  BY <1>1 DEF IInv, Parked
<1>10. Wakeful'
  BY <1>1, <1>2, <1>3 DEF IInv, Wakeful, Kept, Accepts
<1> QED BY <1>5, <1>6, <1>7, <1>8, <1>9, <1>10 DEF IInv

LEMMA MotionDecideStep == ASSUME IInv, MotionDecide PROVE IInv'
<1>1. PICK s \in Slots : s = pc.slot
  BY DEF IInv, TypeOK
<1>2. /\ gate = "client" /\ pc.at = "motion" /\ gate' = "none" /\ pc' = [pc EXCEPT !.at = "idle"]
      /\ TypeOK /\ slot[s] \in SlotRecord
      /\ UNCHANGED <<running, parked, timer, stop_event, worker, thread, pnp, powered, stopping,
                     faults, downs>>
  BY DEF IInv, MotionDecide, ClientAt, TypeOK
<1>3. \/ slot' = [slot EXCEPT ![s] = Enqueued(slot[s])]
      \/ slot' = slot
  BY <1>1, <1>2 DEF MotionDecide, TypeOK
<1>4. /\ slot' \in [Slots -> SlotRecord]
      /\ \A u \in Slots : /\ slot'[u].state = slot[u].state
                          /\ slot'[u].have_last_input = slot[u].have_last_input
                          /\ slot'[u].ready => slot[u].ready
  <2>1. CASE slot' = [slot EXCEPT ![s] = Enqueued(slot[s])]
    <3>1. /\ Enqueued(slot[s]) \in SlotRecord /\ Enqueued(slot[s]).state = slot[s].state
          /\ ~Enqueued(slot[s]).ready
          /\ Enqueued(slot[s]).have_last_input = slot[s].have_last_input
      BY <1>2, EnqueuedFields
    <3>2. /\ slot' \in [Slots -> SlotRecord] /\ slot'[s] = Enqueued(slot[s])
          /\ \A u \in Slots : u # s => slot'[u] = slot[u]
      BY <1>2, <2>1, <3>1, WriteFacts
    <3> QED BY <3>1, <3>2
  <2>2. CASE slot' = slot
    BY <1>2, <2>2 DEF TypeOK
  <2> QED BY <1>3, <2>1, <2>2
<1>5. pnp \notin Gated \cup {"down"}
  BY <1>2, ClientFacts
<1>6. pc' \in [at : ClientSteps, slot : Slots] /\ pc'.at = "idle"
  BY <1>2, Moved, Labels DEF TypeOK
<1>7. TypeOK'
  BY <1>2, <1>4, <1>6 DEF TypeOK
<1>8. Gates'
  BY <1>2, <1>5, <1>6 DEF IInv, Gates, Gated
<1>9. Single'
  BY <1>2, <1>6 DEF IInv, Single, Alive, Joined
<1>10. Flag'
  BY <1>2, <1>6 DEF IInv, Flag, Alive
<1>11. Parked'
  BY <1>2 DEF IInv, Parked
<1>12. Wakeful'
  BY <1>2, <1>4 DEF IInv, Wakeful, Kept, Accepts
<1> QED BY <1>7, <1>8, <1>9, <1>10, <1>11, <1>12 DEF IInv

(* The only step by which VHF comes to accept a report: it resumes a       *)
(* cadence that has parked.                                                *)
LEMMA ReadyStep == ASSUME IInv, NEW s \in Slots, ReadyForNextReport(s) PROVE IInv'
<1> DEFINE r == slot[s]
           q == IF r.queued THEN [r EXCEPT !.queued = FALSE, !.late = FALSE]
                ELSE [r EXCEPT !.ready = TRUE]
           run == running /\ (r.queued \/ (parked /\ r.have_last_input))
<1>1. /\ Accepts(s) /\ ~r.ready /\ slot' = [slot EXCEPT ![s] = q] /\ TypeOK /\ r \in SlotRecord
      /\ timer' = (IF run THEN "set" ELSE timer) /\ parked' = (parked /\ ~run)
      /\ UNCHANGED <<running, stop_event, worker, thread, gate, pc, pnp, powered, stopping,
                     faults, downs>>
  BY DEF IInv, ReadyForNextReport, TypeOK, Arm
<1>2. /\ q \in SlotRecord /\ q.state = r.state /\ q.have_last_input = r.have_last_input
      /\ q.ready => ~r.queued
  <2>1. CASE r.queued
    <3>1. q = [r EXCEPT !.queued = FALSE, !.late = FALSE]
      BY <2>1
    <3> QED BY <1>1, <2>1, <3>1 DEF SlotRecord
  <2>2. CASE ~r.queued
    <3>1. q = [r EXCEPT !.ready = TRUE]
      BY <2>2
    <3> QED BY <1>1, <2>2, <3>1 DEF SlotRecord
  <2> QED BY <2>1, <2>2
<1>3. r.state = "active"
  BY <1>1 DEF Accepts
<1>4. /\ timer' \in {"off", "set", "signalled"} /\ parked' \in BOOLEAN
      /\ timer' = "off" => timer = "off" /\ ~run /\ parked' = parked
  BY <1>1 DEF TypeOK
<1> HIDE DEF q
<1>5. /\ slot' \in [Slots -> SlotRecord] /\ slot'[s] = q
      /\ \A u \in Slots : u # s => slot'[u] = slot[u]
  BY <1>1, <1>2, WriteFacts
<1>6. \A u \in Slots : slot'[u].state = slot[u].state
  BY <1>2, <1>5
<1>7. TypeOK'
  BY <1>1, <1>4, <1>5 DEF TypeOK
<1>8. Gates'
  <2>1. pnp \notin {"power_joined", "down"}
    BY <1>3 DEF IInv, Gates, Gated
  <2> QED BY <1>1, <1>6, <2>1 DEF IInv, Gates, Gated
<1>9. Single'
  BY <1>1 DEF IInv, Single, Alive
<1>10. Flag'
  BY <1>1, <1>4 DEF IInv, Flag, Alive
<1>11. Parked'
  BY <1>1, <1>4 DEF IInv, Parked
<1>12. Wakeful'
  <2> SUFFICES ASSUME NEW w \in Workers, NEW u \in Slots, worker'[w] = "waiting",
                      Kept(slot, u)', Accepts(u)', slot'[u].ready, timer' = "off"
               PROVE  ~running' \/ stop_event'
    BY DEF Wakeful
  <2>1. timer = "off" /\ ~run /\ worker[w] = "waiting"
    BY <1>1, <1>4
  <2>2. CASE u = s
    <3>1. r.have_last_input
      BY <1>2, <1>5, <2>2 DEF Kept
    <3>2. parked \/ ~running \/ stop_event
      BY <2>1 DEF IInv, Parked
    <3> QED BY <1>1, <2>1, <3>1, <3>2
  <2>3. CASE u # s
    <3>1. Kept(slot, u) /\ Accepts(u) /\ slot[u].ready
      BY <1>1, <1>5, <2>3 DEF Kept, Accepts
    <3> QED BY <1>1, <2>1, <3>1 DEF IInv, Wakeful
  <2> QED BY <2>2, <2>3
<1> QED BY <1>7, <1>8, <1>9, <1>10, <1>11, <1>12 DEF IInv

LEMMA TimerFiresStep == ASSUME IInv, TimerFires PROVE IInv'
<1>1. /\ timer' = "signalled" /\ timer = "set" /\ TypeOK
      /\ UNCHANGED <<slot, running, parked, stop_event, worker, thread, gate, pc, pnp, powered,
                     stopping, faults, downs>>
  BY DEF IInv, TimerFires
<1>2. TypeOK'
  BY <1>1 DEF TypeOK
<1>3. Gates' /\ Single' /\ Flag'
  BY <1>1 DEF IInv, Gates, Gated, Single, Flag, Alive
<1>4. Parked' /\ Wakeful'
  BY <1>1 DEF Parked, Wakeful
<1> QED BY <1>2, <1>3, <1>4 DEF IInv

-----------------------------------------------------------------------------
(* The worker that steps is alive: no other is, no start is past its join, *)
(* and the PnP thread has not joined it.                                   *)
LEMMA AliveFacts ==
  ASSUME IInv, NEW w \in Workers, worker[w] \in {"waiting", "ticking", "leaving", "clearing"}
  PROVE  /\ Alive(w) /\ thread = w /\ pc.at \notin Joined
         /\ pnp \notin {"power_joined", "down"}
         /\ \A v \in Workers : v # w => ~Alive(v)
<1>1. Alive(w)
  BY DEF Alive
<1>2. thread = w /\ thread # 0
  BY <1>1, WorkerFacts DEF IInv, Single
<1>3. pc.at \notin Joined /\ pnp \notin {"power_joined", "down"}
  BY <1>2 DEF IInv, Single, Gates
<1>4. \A v \in Workers : v # w => ~Alive(v)
  BY <1>2 DEF IInv, Single
<1> QED BY <1>1, <1>2, <1>3, <1>4

(* A step that only the worker w takes, to a state st.                     *)
LEMMA WorkerMoves ==
  ASSUME IInv, NEW w \in Workers, worker[w] \in {"waiting", "ticking", "leaving", "clearing"},
         NEW st \in WorkerStates \ {"none"}, worker' = [worker EXCEPT ![w] = st]
  PROVE  /\ worker' \in [Workers -> WorkerStates] /\ worker'[w] = st
         /\ \A v \in Workers : v # w => worker'[v] = worker[v] /\ ~Alive(v)'
<1>1. worker' \in [Workers -> WorkerStates] /\ worker'[w] = st
  BY DEF IInv, TypeOK
<1>2. \A v \in Workers : v # w => worker'[v] = worker[v]
  BY DEF IInv, TypeOK
<1>3. \A v \in Workers : v # w => ~Alive(v)
  BY AliveFacts
<1> QED BY <1>1, <1>2, <1>3 DEF Alive

LEMMA WorkerWakesStep == ASSUME IInv, NEW w \in Workers, WorkerWakes(w) PROVE IInv'
<1>1. /\ worker[w] = "waiting" /\ TypeOK
      /\ UNCHANGED <<slot, running, parked, stop_event, thread, gate, pc, pnp, powered, stopping,
                     downs>>
  BY DEF IInv, WorkerWakes
<1>2. PICK st \in {"leaving", "ticking"} : worker' = [worker EXCEPT ![w] = st]
  BY DEF WorkerWakes
<1>3. /\ thread = w /\ pc.at \notin Joined /\ pnp \notin {"power_joined", "down"}
  BY <1>1, AliveFacts
<1>4. st \in WorkerStates \ {"none"}
  BY <1>2 DEF WorkerStates
<1>5. /\ worker' \in [Workers -> WorkerStates] /\ worker'[w] = st
      /\ \A v \in Workers : v # w => worker'[v] = worker[v] /\ ~Alive(v)'
  BY <1>1, <1>2, <1>4, WorkerMoves
<1>6. timer' \in {timer, "off"} /\ faults' \in 0 .. MaxFaults
  BY <1>1, BoundsAssumption DEF WorkerWakes, TypeOK
<1>7. TypeOK'
  BY <1>1, <1>5, <1>6 DEF TypeOK
<1>8. Gates'
  BY <1>1, <1>3, <1>6 DEF IInv, Gates, Gated
<1>9. Single'
  BY <1>1, <1>3, <1>5 DEF IInv, Single
<1>10. Flag'
  <2>1. Alive(w)'
    BY <1>2, <1>5 DEF Alive
  <2>2. running \/ gate = "pnp"
    BY <1>1, WaitingRuns
  <2>3. pc'.at \notin {"arm", "create", "uncreated"}
    BY <1>1, <1>3 DEF Joined
  <2> QED BY <1>1, <2>1, <2>2, <2>3 DEF Flag
<1>11. \A v \in Workers : worker'[v] # "waiting"
  BY <1>2, <1>5 DEF Alive
<1>12. Parked' /\ Wakeful'
  BY <1>11 DEF Parked, Wakeful
<1> QED BY <1>7, <1>8, <1>9, <1>10, <1>12 DEF IInv

LEMMA TickStep ==
  ASSUME IInv, NEW w \in Workers, NEW batteries \in SUBSET Slots, Tick(w, batteries)
  PROVE  IInv'
<1> DEFINE active == ~stopping /\ \E s \in Slots : Kept(slot, s)
           read == ~stopping /\ \E s \in Slots : Kept(slot, s) /\ slot[s].ready
<1>1. /\ worker[w] = "ticking" /\ TypeOK
      /\ slot' = [s \in Slots |-> Ticked(s, s \in batteries)]
      /\ running' = (running /\ active)
      /\ UNCHANGED <<stop_event, thread, gate, pc, pnp, powered, stopping, faults, downs>>
  BY DEF IInv, Tick
<1>2. /\ read => timer' = (IF running THEN "set" ELSE timer) /\ parked' = (parked /\ ~running)
      /\ ~read => timer' = timer /\ parked' = (parked \/ active)
  BY DEF Tick, Arm
<1>3. PICK st : st = IF active THEN "waiting" ELSE "leaving"
  OBVIOUS
<1>4. worker' = [worker EXCEPT ![w] = st] /\ st \in {"waiting", "leaving"}
  BY <1>3 DEF Tick
<1>5. /\ thread = w /\ pc.at \notin Joined /\ pnp \notin {"power_joined", "down"}
  BY <1>1, AliveFacts
<1>6. st \in WorkerStates \ {"none"}
  BY <1>4 DEF WorkerStates
<1>7. /\ worker' \in [Workers -> WorkerStates] /\ worker'[w] = st
      /\ \A v \in Workers : v # w => worker'[v] = worker[v] /\ ~Alive(v)'
  BY <1>1, <1>4, <1>6, WorkerMoves
<1>8. /\ slot' \in [Slots -> SlotRecord]
      /\ \A s \in Slots : /\ slot'[s].state = slot[s].state
                          /\ slot'[s].have_last_input = slot[s].have_last_input
                          /\ slot'[s].ready => slot[s].ready
  <2>1. ASSUME NEW s \in Slots
        PROVE  /\ slot'[s] \in SlotRecord /\ slot'[s].state = slot[s].state
               /\ slot'[s].have_last_input = slot[s].have_last_input
               /\ slot'[s].ready => slot[s].ready
    <3>1. (s \in batteries) \in BOOLEAN
      OBVIOUS
    <3>2. slot'[s] = Ticked(s, s \in batteries)
      BY <1>1
    <3> QED BY <1>1, <3>1, <3>2, TickedFields
  <2>2. slot' = [s \in Slots |-> slot'[s]]
    BY <1>1
  <2>3. slot' \in [Slots -> SlotRecord]
    BY <2>1, <2>2
  <2> QED BY <2>1, <2>3
<1>9. TypeOK'
  <2>1. running' \in BOOLEAN /\ parked' \in BOOLEAN /\ timer' \in {"off", "set", "signalled"}
    BY <1>1, <1>2 DEF TypeOK
  <2> QED BY <1>1, <1>7, <1>8, <2>1 DEF TypeOK
<1>10. Gates'
  BY <1>1, <1>5, <1>8 DEF IInv, Gates, Gated
<1>11. Single'
  BY <1>1, <1>5, <1>7 DEF IInv, Single
<1>12. Flag'
  <2>1. Alive(w)'
    BY <1>4, <1>7 DEF Alive
  <2>2. running \/ gate = "pnp"
    BY <1>1, WaitingRuns
  <2>3. pc'.at \notin {"arm", "create", "uncreated"}
    BY <1>1, <1>5 DEF Joined
  <2>4. ASSUME NEW v \in Workers, worker'[v] \in {"waiting", "ticking"}, ~running'
        PROVE  gate' = "pnp"
    <3>1. v = w
      BY <1>7, <2>4 DEF Alive
    <3>2. active
      BY <1>3, <1>7, <2>4, <3>1
    <3> QED BY <1>1, <2>2, <2>4, <3>2
  <2> QED BY <2>1, <2>3, <2>4 DEF Flag
<1>13. \A v \in Workers : worker'[v] = "waiting" => v = w /\ active
  BY <1>3, <1>7 DEF Alive
<1>14. Parked'
  BY <1>1, <1>2, <1>13 DEF Parked
<1>15. Wakeful'
  <2> SUFFICES ASSUME NEW v \in Workers, NEW s \in Slots, worker'[v] = "waiting",
                      Kept(slot, s)', Accepts(s)', slot'[s].ready
               PROVE  timer' # "off" \/ ~running' \/ stop_event'
    BY DEF Wakeful
  <2>1. Kept(slot, s) /\ slot[s].ready /\ ~stopping
    BY <1>1, <1>8 DEF Kept, Accepts
  <2>2. read
    BY <2>1
  <2> QED BY <1>1, <1>2, <2>2
<1> QED BY <1>9, <1>10, <1>11, <1>12, <1>14, <1>15 DEF IInv

LEMMA WorkerLeavesStep ==
  ASSUME IInv, NEW w \in Workers, WorkerCancels(w) \/ WorkerExits(w)
  PROVE  IInv'
<1>1. /\ worker[w] \in {"leaving", "clearing"} /\ TypeOK
      /\ UNCHANGED <<slot, parked, stop_event, thread, gate, pc, pnp, powered, stopping,
                     faults, downs>>
  BY DEF IInv, WorkerCancels, WorkerExits
<1>2. PICK st \in {"clearing", "exited"} : worker' = [worker EXCEPT ![w] = st]
  BY DEF WorkerCancels, WorkerExits
<1>3. /\ timer' \in {timer, "off"} /\ running' \in BOOLEAN
      /\ st = "clearing" => UNCHANGED running
      /\ st = "exited" => ~running'
  <2>1. CASE WorkerCancels(w)
    <3>1. worker'[w] = "clearing"
      BY <1>1, <2>1 DEF WorkerCancels, TypeOK
    <3>2. st = "clearing"
      BY <1>1, <1>2, <3>1 DEF TypeOK
    <3> QED BY <1>1, <2>1, <3>2 DEF WorkerCancels, TypeOK
  <2>2. CASE WorkerExits(w)
    <3>1. worker'[w] = "exited"
      BY <1>1, <2>2 DEF WorkerExits, TypeOK
    <3>2. st = "exited"
      BY <1>1, <1>2, <3>1 DEF TypeOK
    <3> QED BY <2>2, <3>2 DEF WorkerExits
  <2> QED BY <2>1, <2>2
<1>4. /\ thread = w /\ pc.at \notin Joined /\ pnp \notin {"power_joined", "down"}
  BY <1>1, AliveFacts
<1>5. st \in WorkerStates \ {"none"}
  BY <1>2 DEF WorkerStates
<1>6. /\ worker' \in [Workers -> WorkerStates] /\ worker'[w] = st
      /\ \A v \in Workers : v # w => worker'[v] = worker[v] /\ ~Alive(v)'
  BY <1>1, <1>2, <1>5, WorkerMoves
<1>7. TypeOK'
  BY <1>1, <1>3, <1>6 DEF TypeOK
<1>8. Gates'
  <2>1. pnp \in Gated \cup {"down"} => ~running'
    BY <1>2, <1>3 DEF IInv, Gates
  <2> QED BY <1>1, <1>3, <1>4, <2>1 DEF IInv, Gates, Gated
<1>9. Single'
  BY <1>1, <1>4, <1>6 DEF IInv, Single
<1>10. \A v \in Workers : worker'[v] \notin {"waiting", "ticking"}
  BY <1>2, <1>6 DEF Alive
<1>11. Flag'
  <2>1. pc'.at \notin {"arm", "create", "uncreated"}
    BY <1>1, <1>4 DEF Joined
  <2>2. running' => Alive(w)'
    BY <1>2, <1>3, <1>6 DEF Alive
  <2> QED BY <1>10, <2>1, <2>2 DEF Flag
<1>12. Parked' /\ Wakeful'
  BY <1>10 DEF Parked, Wakeful
<1> QED BY <1>7, <1>8, <1>9, <1>11, <1>12 DEF IInv

-----------------------------------------------------------------------------
LEMMA DownIntentStep == ASSUME IInv, NEW kind \in {"power", "stop"}, DownIntent(kind) PROVE IInv'
<1>1. /\ pnp = "up" /\ downs < MaxDowns /\ downs' = downs + 1 /\ powered' = FALSE
      /\ stopping' = (kind = "stop") /\ pnp' \in {"stop_intent", "power_intent"} /\ TypeOK
      /\ UNCHANGED <<slot, running, parked, timer, stop_event, worker, thread, gate, pc, faults>>
  BY DEF IInv, DownIntent
<1>2. TypeOK'
  <2>1. downs' \in 0 .. MaxDowns
    BY <1>1, BoundsAssumption DEF TypeOK
  <2>2. pnp' \in PnpSteps /\ stopping' \in BOOLEAN
    BY <1>1 DEF PnpSteps
  <2> QED BY <1>1, <2>1, <2>2 DEF TypeOK
<1>3. Gates'
  BY <1>1 DEF IInv, Gates, Gated
<1>4. Single' /\ Flag' /\ Parked'
  BY <1>1 DEF IInv, Single, Flag, Parked, Alive
<1>5. Wakeful'
  BY <1>1 DEF Wakeful, Accepts
<1> QED BY <1>2, <1>3, <1>4, <1>5 DEF IInv

(* A step of the PnP thread under the gate, with every flag cleared and    *)
(* no controller active: whatever the worker does, it is being stopped.    *)
LEMMA PnpStep ==
  ASSUME IInv, TypeOK', UNCHANGED <<worker, pc, powered>>,
         pnp \in Gated \/ gate = "none", pnp # "up",
         \/ pnp' \in Gated /\ gate' = "pnp"
         \/ pnp' = "down" /\ gate' = "none",
         ~running', \A s \in Slots : slot'[s].state # "active",
         \/ thread' = thread
         \/ thread' = 0 /\ \A w \in Workers : ~Alive(w),
         pnp' \in {"power_joined", "down"} => thread' = 0 /\ timer' # "set"
  PROVE  IInv'
<1>1. pc.at = "idle" /\ ~powered
  BY DEF IInv, Gates, Gated
<1>2. Gates'
  BY <1>1 DEF Gates, Gated
<1>3. Single'
  BY <1>1 DEF IInv, Single, Alive, Joined
<1>4. Flag'
  <2>1. ASSUME NEW w \in Workers, worker'[w] \in {"waiting", "ticking"}
        PROVE  gate' = "pnp"
    <3>1. Alive(w)
      BY <2>1 DEF Alive
    <3>2. thread' = w /\ thread' # 0
      BY <3>1, WorkerFacts DEF IInv, Single
    <3> QED BY <3>2
  <2> QED BY <1>1, <2>1 DEF Flag
<1>5. Parked' /\ Wakeful'
  BY DEF Parked, Wakeful
<1> QED BY <1>2, <1>3, <1>4, <1>5 DEF IInv

LEMMA DownGateStep == ASSUME IInv, DownGate PROVE IInv'
<1>1. /\ pnp \in {"power_intent", "stop_intent"} /\ gate = "none" /\ gate' = "pnp"
      /\ pnp' \in {"stop_gated", "power_gated"} /\ running' = FALSE /\ TypeOK
      /\ slot' = [s \in Slots |-> IF slot[s].state = "active"
                                  THEN [slot[s] EXCEPT !.state = "stopping"] ELSE slot[s]]
      /\ UNCHANGED <<parked, timer, stop_event, worker, thread, pc, powered, stopping, faults, downs>>
  BY DEF IInv, DownGate
<1>2. slot' \in [Slots -> SlotRecord] /\ \A s \in Slots : slot'[s].state # "active"
  <2>1. ASSUME NEW s \in Slots
        PROVE  slot'[s] \in SlotRecord /\ slot'[s].state # "active"
    <3>1. slot[s] \in SlotRecord
      BY <1>1 DEF TypeOK
    <3>2. CASE slot[s].state = "active"
      <4>1. slot'[s] = [slot[s] EXCEPT !.state = "stopping"]
        BY <1>1, <3>2
      <4> QED BY <3>1, <4>1 DEF SlotRecord
    <3>3. CASE slot[s].state # "active"
      BY <1>1, <3>1, <3>3
    <3> QED BY <3>2, <3>3
  <2> QED BY <1>1, <2>1
<1>3. TypeOK'
  BY <1>1, <1>2 DEF TypeOK, PnpSteps
<1> QED BY <1>1, <1>2, <1>3, PnpStep DEF Gated

LEMMA DownDeleteStep == ASSUME IInv, DownDelete PROVE IInv'
<1>1. /\ pnp \in {"power_joined", "stop_gated"} /\ slot' = [s \in Slots |-> Empty] /\ TypeOK
      /\ pnp' = (IF pnp = "power_joined" THEN "down" ELSE "stop_deleted")
      /\ gate' = (IF pnp = "power_joined" THEN "none" ELSE gate)
      /\ UNCHANGED <<running, parked, timer, stop_event, worker, thread, pc, powered, stopping,
                     faults, downs>>
  BY DEF IInv, DownDelete
<1>2. slot' \in [Slots -> SlotRecord] /\ \A s \in Slots : slot'[s].state # "active"
  BY <1>1, EmptyFields
<1>3. pnp \in Gated /\ gate = "pnp" /\ ~running'
  BY <1>1 DEF IInv, Gates, Gated
<1>4. TypeOK'
  BY <1>1, <1>2 DEF TypeOK, PnpSteps
<1>5. pnp' \in {"power_joined", "down"} => thread' = 0 /\ timer' # "set"
  BY <1>1 DEF IInv, Gates
<1>6. \/ pnp' \in Gated /\ gate' = "pnp"
      \/ pnp' = "down" /\ gate' = "none"
  BY <1>1, <1>3 DEF Gated
<1> QED BY <1>1, <1>2, <1>3, <1>4, <1>5, <1>6, PnpStep

LEMMA StopSignalStep == ASSUME IInv, StopSignal PROVE IInv'
<1>1. /\ pnp \in {"power_gated", "stop_deleted"} /\ stop_event' = TRUE /\ TypeOK
      /\ pnp' \in {"power_signalled", "stop_signalled"}
      /\ UNCHANGED <<slot, running, parked, timer, worker, thread, gate, pc, powered, stopping,
                     faults, downs>>
  BY DEF IInv, StopSignal
<1>2. /\ pnp \in Gated /\ gate = "pnp" /\ ~running'
      /\ \A s \in Slots : slot'[s].state # "active"
  BY <1>1 DEF IInv, Gates, Gated
<1>3. TypeOK'
  BY <1>1 DEF TypeOK, PnpSteps
<1> QED BY <1>1, <1>2, <1>3, PnpStep DEF Gated

LEMMA StopJoinStep == ASSUME IInv, StopJoin PROVE IInv'
<1>1. /\ pnp \in {"power_signalled", "stop_signalled"} /\ TypeOK /\ Single
      /\ (thread # 0 => worker[thread] = "exited") /\ thread' = 0
      /\ timer' = (IF timer = "set" THEN "off" ELSE timer)
      /\ pnp' = (IF pnp = "power_signalled" THEN "power_joined" ELSE "down")
      /\ gate' = (IF pnp = "power_signalled" THEN gate ELSE "none")
      /\ UNCHANGED <<slot, running, parked, stop_event, worker, pc, powered, stopping, faults, downs>>
  BY DEF IInv, StopJoin
<1>2. /\ pnp \in Gated /\ gate = "pnp" /\ ~running'
      /\ \A s \in Slots : slot'[s].state # "active"
  BY <1>1 DEF IInv, Gates, Gated
<1>3. \A w \in Workers : ~Alive(w)
  BY <1>1, Nobody
<1>4. TypeOK'
  BY <1>1 DEF TypeOK, PnpSteps
<1>5. \/ pnp' \in Gated /\ gate' = "pnp"
      \/ pnp' = "down" /\ gate' = "none"
  BY <1>1, <1>2 DEF Gated
<1> QED BY <1>1, <1>2, <1>3, <1>4, <1>5, PnpStep

LEMMA PowerUpStep == ASSUME IInv, PowerUp PROVE IInv'
<1>1. /\ pnp = "down" /\ gate = "none" /\ powered' = TRUE /\ stopping' = FALSE /\ pnp' = "up"
      /\ TypeOK
      /\ UNCHANGED <<slot, running, parked, timer, stop_event, worker, thread, gate, pc, faults,
                     downs>>
  BY DEF IInv, PowerUp
<1>2. TypeOK'
  BY <1>1 DEF TypeOK, PnpSteps
<1>3. Gates'
  BY <1>1 DEF IInv, Gates, Gated
<1>4. Single' /\ Flag' /\ Parked'
  BY <1>1 DEF IInv, Single, Flag, Parked, Alive
<1>5. Wakeful'
  BY <1>1 DEF IInv, Gates, Wakeful
<1> QED BY <1>2, <1>3, <1>4, <1>5 DEF IInv

-----------------------------------------------------------------------------
LEMMA NextStep == ASSUME IInv, [Next]_vars PROVE IInv'
<1>1. CASE UNCHANGED vars
  BY <1>1 DEF vars, IInv, TypeOK, Gates, Single, Flag, Parked, Wakeful, Alive, Kept, Accepts
<1>2. ASSUME NEW s \in Slots,
             \/ Create(s) \/ Destroy(s) \/ SubmitInput(s) \/ MotionFold(s)
             \/ ReadyForNextReport(s) \/ BecomesLate(s)
      PROVE  IInv'
  BY <1>2, CreateStep, DestroyStep, SubmitInputStep, MotionFoldStep, ReadyStep, BecomesLateStep
<1>3. CASE Start
  BY <1>3, StartJoinStep, StartPublishStep, StartArmStep, StartCreateStep, StartUncreatedStep,
     CancelUncreatedStep, StartWithdrawStep DEF Start
<1>4. ASSUME NEW w \in Workers, WorkerStep(w)
      PROVE  IInv'
  BY <1>4, WorkerWakesStep, WorkerLeavesStep, TickStep DEF WorkerStep
<1>5. CASE Down
  BY <1>5, DownIntentStep, DownGateStep, DownDeleteStep, StopSignalStep, StopJoinStep DEF Down
<1> QED BY <1>1, <1>2, <1>3, <1>4, <1>5, MotionDecideStep, TimerFiresStep, PowerUpStep DEF Next

LEMMA InvAlways == Spec => []IInv
<1>1. IInv /\ [Next]_vars => IInv'
  BY NextStep
<1> QED BY InitInv, <1>1, PTL DEF Spec

(* Every variable keeps its type in every state the device can reach.      *)
THEOREM KeepAliveTypeCorrect == Spec => []TypeOK
<1>1. IInv => TypeOK
  BY DEF IInv
<1> QED BY InvAlways, <1>1, PTL

(* For any number of controllers, workers, faults and power transitions:   *)
(* start_sc26_keepalive never has two workers, sc26_timer_running outside  *)
(* a start or stop means that one is there, and a device that is down has  *)
(* neither a worker nor a set timer.                                       *)
THEOREM OneWorker == Spec => []WorkerExact
<1>1. IInv => WorkerExact
  <2> HAVE IInv
  <2>1. DOMAIN worker = Workers
    BY DEF IInv, TypeOK
  <2>2. \A v, w \in Workers : Alive(v) /\ Alive(w) => v = w
    BY DEF IInv, Single
  <2>3. running /\ gate = "none" => \E w \in Workers : Alive(w)
    BY DEF IInv, Gates, Flag
  <2>4. pnp = "down" => ~running /\ timer # "set" /\ \A w \in Workers : ~Alive(w)
    BY WorkerFacts DEF IInv, Gates, Single
  <2> QED BY <2>1, <2>2, <2>3, <2>4 DEF WorkerExact
<1> QED BY InvAlways, <1>1, PTL

(* A waiting worker whose timer is off never leaves a controller that a    *)
(* host reads without its keep-alive: the tick parks and the returning     *)
(* reader re-arms under state_lock.                                        *)
THEOREM CadenceResumes == Spec => []NoLostWakeup
<1>1. IInv => NoLostWakeup
  BY DEF IInv, TypeOK, Wakeful, NoLostWakeup
<1> QED BY InvAlways, <1>1, PTL
=============================================================================
