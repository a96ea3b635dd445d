---------------------- MODULE ControllerLifecycleProofs ----------------------
(***************************************************************************)
(* Proofs about ControllerLifecycle, for every set of files and every      *)
(* number of slots.  The inductive invariant says, for every place a       *)
(* thread can be at, what it has claimed: the slot a creator, a destroyer  *)
(* or a teardown is working on is nobody else's, because each works inside *)
(* the lifetime gate, and its child is alive exactly as long as the slot's *)
(* generation is the child's.                                              *)
(***************************************************************************)
EXTENDS ControllerLifecycle, FiniteSetTheorems, TLAPS

IoctlLabels ==
  {"idle", "snapshot", "admit", "open", "create", "start", "adopt", "undo",
   "encoded", "submitting", "destroy", "wait", "deleting"}
FileLabels == {"idle", "destroy", "wait", "deleting", "closed"}
PnpLabels ==
  {"stopped", "started", "working", "removed",
   "down", "down_null", "down_join", "down_each", "down_wait",
   "stop", "stop_null", "stop_each", "stop_wait", "close"}

(* Places inside the lifetime gate.                                        *)
Creating == {"open", "create", "start", "adopt", "undo"}
Tearing == {"wait", "deleting"}
Sweeping ==
  {"down_null", "down_join", "down_each", "down_wait", "stop_null", "stop_each", "stop_wait"}
Inside == Creating \cup {"encoded", "submitting"} \cup Tearing \cup Sweeping

(* PnP rests: no controller can have a child.                              *)
Rest == {"stopped", "started", "removed", "close"}

Control ==
  /\ pc["ioctl"] \in IoctlLabels /\ pc["pnp"] \in PnpLabels
  /\ \A f \in Files : pc[f] \in FileLabels
  /\ \A t \in Threads : gate = t <=> pc[t] \in Inside
  /\ powered => pc["pnp"] = "working"
  /\ pc["ioctl"] # "idle" => req.file \in Files /\ pc[req.file] = "idle"

(* A file that is closing owns none of the slots it has passed.            *)
Passed ==
  \A f \in Files :
    /\ pc[f] = "idle" => at[f] = 0
    /\ \A s \in Slots : s < at[f] \/ pc[f] = "closed" => slot[s].owner # f

(* Children.                                                               *)
Bare(s) == \A c \in children : c.slot # s

Generations ==
  /\ \A c \in children : c.gen = slot[c.slot].generation
  /\ \A s \in Slots : /\ slot[s].vhf \in {NoChild, ChildOf(s)}
                      /\ slot[s].feedback \in {NoChild, ChildOf(s)}
                      /\ slot[s].vhf # NoChild => slot[s].vhf \in children \ deleting
  /\ started \subseteq children /\ deleting \subseteq children
  /\ \A call \in calls : call.child \in children

(* Who is at work on a slot that is stopping.                              *)
Stopper(s) ==
  \/ pc["ioctl"] = "undo" /\ req.slot = s
  \/ \E t \in Destroyers : pc[t] \in Tearing /\ SlotOf(t) = s
  \/ pc["pnp"] \in Sweeping /\ ChildOf(s) \in handles \cup retired
  \/ pc["pnp"] = "stop_null" /\ slot[s].vhf # NoChild

SlotOk(s) ==
  /\ slot[s].state \in {"empty", "lost"} => slot[s].vhf = NoChild /\ Bare(s)
  /\ slot[s].state = "empty" => slot[s].owner = NoFile
  /\ slot[s].state = "active" => slot[s].vhf # NoChild /\ pc["pnp"] \notin Rest \cup Sweeping
  /\ slot[s].state = "starting" => pc["ioctl"] \in Creating \ {"undo"} /\ req.slot = s
  /\ slot[s].state = "stopping" => Stopper(s)

SlotStates == \A s \in Slots : SlotOk(s)

(* create_controller and the slot it has claimed.                          *)
Creator ==
  LET s == req.slot IN
  /\ pc["ioctl"] \in Creating => slot[s].owner = req.file /\ pc["pnp"] \notin Rest
  /\ pc["ioctl"] \in Creating \ {"undo"} => slot[s].state = "starting"
  /\ pc["ioctl"] \in {"open", "create"} => slot[s].vhf = NoChild /\ Bare(s)
  /\ pc["ioctl"] \in {"start", "adopt"} => victim["ioctl"] = slot[s].vhf /\ slot[s].vhf # NoChild
  /\ pc["ioctl"] = "undo" => /\ slot[s].state = "stopping" /\ slot[s].vhf = NoChild
                             /\ victim["ioctl"] = ChildOf(s) /\ ChildOf(s) \in children
  /\ pc["ioctl"] = "admit" /\ ~req.present => s \notin present
  /\ pc["ioctl"] \in {"open", "create", "start"} => s \notin present

(* destroy_owned_controller.                                               *)
TearingOk(t) ==
  LET s == SlotOf(t) IN
  /\ pc[t] \in Tearing => /\ slot[s].state = "stopping" /\ slot[s].owner = OwnerOf(t)
                          /\ slot[s].vhf = NoChild /\ pc["pnp"] \notin Rest
                          /\ victim[t] = ChildOf(s) /\ ChildOf(s) \in children
  /\ pc[t] = "deleting" => victim[t] \in deleting

Destroying == \A t \in Destroyers : TearingOk(t)

(* power_down_controllers and stop_owned_controllers.                      *)
SweepState ==
  /\ handles # {} => pc["pnp"] \in Sweeping \ {"stop_null"}
  /\ retired # {} => pc["pnp"] \in {"down_each", "down_wait"}
  /\ \A c \in handles : /\ c \in children /\ slot[c.slot].state = "stopping"
                        /\ pc["pnp"] # "down_null" => slot[c.slot].vhf = NoChild
  /\ \A c \in retired : /\ c = ChildOf(c.slot) /\ slot[c.slot].state = "stopping"
                        /\ slot[c.slot].vhf = NoChild /\ Bare(c.slot)
  /\ pc["pnp"] \in {"down_wait", "stop_wait"} => victim["pnp"] \in handles \cap deleting

(* Submissions.                                                            *)
SubmitsOf(s) == {x \in submits : x.child.slot = s}

Submissions ==
  /\ \A call1, call2 \in calls :
       call1.child = call2.child /\ call1.kind = call2.kind => call1 = call2
  /\ \A x \in submits :
       /\ x.child \in children
       /\ x.by = "ioctl" => pc["ioctl"] = "submitting" /\ x.child.slot = req.slot
       /\ x.by = "worker" => ~(pc["ioctl"] \in Creating /\ x.child.slot = req.slot)
       /\ x.by \in {"ready", "write"} =>
            \E call \in calls : call.child = x.child /\ call.kind = x.by /\ call.step = "submitting"
  /\ NoUseAfterDelete
  /\ \A s \in Slots : IsFiniteSet(SubmitsOf(s)) /\ slot[s].in_flight = Cardinality(SubmitsOf(s))

Core == Generations /\ SlotStates /\ Creator /\ Destroying /\ SweepState

IInv == TypeOK /\ Control /\ Passed /\ Core /\ Submissions

-----------------------------------------------------------------------------
LEMMA ThreadFacts ==
  /\ "ioctl" \in Threads /\ "pnp" \in Threads /\ Files \subseteq Threads
  /\ "ioctl" \notin Files /\ "pnp" \notin Files /\ Free \notin Threads
  /\ Destroyers \subseteq Threads /\ "pnp" \notin Destroyers /\ "ioctl" \in Destroyers
  /\ Files \subseteq Destroyers /\ Threads = Destroyers \cup {"pnp"}
BY ThreadAssumption DEF Threads, Destroyers

LEMMA SlotFacts == Slots \subseteq Nat /\ 0 \in Slots
BY SlotAssumption DEF Slots

(* A thread that moves leaves the others where they are.                   *)
LEMMA Moves ==
  ASSUME TypeOK, NEW t \in Threads, NEW l \in Labels, GoTo(t, l)
  PROVE  /\ pc' \in [Threads -> Labels] /\ pc'[t] = l
         /\ \A u \in Threads : u # t => pc'[u] = pc[u]
BY DEF TypeOK, GoTo

(* What a slot holds, field by field.                                      *)
LEMMA SlotFields ==
  ASSUME TypeOK, NEW s \in Slots
  PROVE  /\ slot[s] \in ControllerSlot
         /\ slot[s].state \in States /\ slot[s].owner \in Files \cup {NoFile}
         /\ slot[s].vhf \in Child \cup {NoChild} /\ slot[s].generation \in Nat
         /\ slot[s].feedback \in Child \cup {NoChild} /\ slot[s].in_flight \in Nat
         /\ ChildOf(s) \in Child /\ ChildOf(s).slot = s /\ ChildOf(s) # NoChild
         /\ ChildOf(s).gen = slot[s].generation
<1>1. slot[s] \in ControllerSlot
  BY DEF TypeOK
<1>2. slot[s].generation \in Nat
  BY <1>1 DEF ControllerSlot
<1>3. ChildOf(s) \in Child /\ ChildOf(s).slot = s /\ ChildOf(s).gen = slot[s].generation
  BY <1>2 DEF ChildOf, Child
<1> QED BY <1>1, <1>3, NoChildAssumption DEF ControllerSlot

(* The live child of a slot is the one of its generation.                  *)
LEMMA OneChild ==
  ASSUME TypeOK, Generations, NEW c \in children
  PROVE  c \in Child /\ c.slot \in Slots /\ c = ChildOf(c.slot)
<1>1. c \in Child /\ c.slot \in Slots /\ c.gen \in Nat
  BY DEF TypeOK, Child
<1>2. c = [slot |-> c.slot, gen |-> c.gen]
  BY <1>1 DEF Child
<1> QED BY <1>1, <1>2 DEF Generations, ChildOf

LEMMA InitInv == Init => IInv
<1> HAVE Init
<1>0. slot = [s \in Slots |-> [state |-> "empty", owner |-> NoFile, vhf |-> NoChild,
                               generation |-> 0, feedback |-> NoChild, in_flight |-> 0]]
  BY DEF Init
<1>1. \A s \in Slots :
        /\ slot[s] \in ControllerSlot
        /\ slot[s].state = "empty" /\ slot[s].owner = NoFile /\ slot[s].vhf = NoChild
        /\ slot[s].feedback = NoChild /\ slot[s].in_flight = 0
  BY <1>0 DEF ControllerSlot, States
<1>2. /\ pc \in [Threads -> Labels] /\ pc["ioctl"] = "idle" /\ pc["pnp"] = "stopped"
      /\ \A f \in Files : pc[f] = "idle"
  BY ThreadFacts DEF Init, Labels
<1>3. TypeOK
  <2>1. req \in [file : Files \cup {NoFile}, slot : Slots, gen : Nat, present : BOOLEAN]
    BY SlotFacts DEF Init
  <2>2. at \in [Files -> Slots] /\ victim \in [Threads -> Child \cup {NoChild}]
    BY SlotFacts DEF Init
  <2>3. slot \in [Slots -> ControllerSlot]
    BY <1>0, <1>1
  <2> QED BY <1>2, <2>1, <2>2, <2>3 DEF Init, TypeOK, Statuses
<1>4. Control
  BY <1>2, ThreadFacts DEF Init, Control, IoctlLabels, PnpLabels, FileLabels, Inside,
       Creating, Tearing, Sweeping, Destroyers, Threads
<1>5. Passed
  BY <1>1, <1>2, SlotFacts, NullAssumption DEF Init, Passed
<1>6. children = {} /\ started = {} /\ deleting = {} /\ calls = {} /\ submits = {}
      /\ handles = {} /\ retired = {}
  BY DEF Init
<1>7. Core
  <2>1. Generations
    BY <1>1, <1>6 DEF Generations
  <2>2. SlotStates
    BY <1>1, <1>6 DEF SlotStates, SlotOk, Bare
  <2>3. Creator
    BY <1>2 DEF Creator, Creating
  <2>4. Destroying
    BY <1>2 DEF Destroying, TearingOk, Destroyers, Tearing
  <2>5. SweepState
    BY <1>2, <1>6 DEF SweepState
  <2> QED BY <2>1, <2>2, <2>3, <2>4, <2>5 DEF Core
<1>8. Submissions
  <2>1. \A s \in Slots : SubmitsOf(s) = {}
    BY <1>6 DEF SubmitsOf
  <2>2. \A s \in Slots : IsFiniteSet(SubmitsOf(s)) /\ Cardinality(SubmitsOf(s)) = 0
    BY <2>1, FS_EmptySet
  <2> QED BY <1>1, <1>6, <2>2 DEF Submissions, NoUseAfterDelete
<1> QED BY <1>3, <1>4, <1>5, <1>7, <1>8 DEF IInv

-----------------------------------------------------------------------------
(* Slots whose submits_in_flight may change, and whose pending feedback    *)
(* may be taken.                                                           *)
SameSlots ==
  \A s \in Slots :
    /\ slot'[s].state = slot[s].state /\ slot'[s].owner = slot[s].owner
    /\ slot'[s].vhf = slot[s].vhf /\ slot'[s].generation = slot[s].generation
    /\ slot'[s].feedback \in {slot[s].feedback, NoChild}

(* Thread t stays where it is, on the same errand, or goes from one place  *)
(* where it has claimed nothing to another.                                *)
Unclaimed(t) ==
  \/ pc'[t] = pc[t] /\ (t = "ioctl" => req' = req) /\ (t # "ioctl" => at'[t] = at[t])
  \/ /\ pc[t] \notin Creating \cup Tearing /\ pc'[t] \notin Creating \cup Tearing
     /\ pc'[t] = "admit" /\ ~req'.present => req'.slot \notin present'

(* A step that neither claims nor releases anything.                       *)
LEMMA CoreKept ==
  ASSUME TypeOK, TypeOK', Core, SameSlots, \A t \in Destroyers : Unclaimed(t),
         pc'["pnp"] = pc["pnp"],
         children' = children, started' = started, deleting' = deleting, victim' = victim,
         handles' = handles, retired' = retired, present' \subseteq present,
         \A call \in calls' : call.child \in children
  PROVE  Core'
<1>1. \A s \in Slots : ChildOf(s)' = ChildOf(s)
  BY DEF SameSlots, ChildOf
<1>2. \A c \in Child : c.slot \in Slots
  BY DEF Child
<1>3. children \subseteq Child /\ handles \subseteq Child /\ retired \subseteq Child
      /\ req.slot \in Slots /\ req'.slot \in Slots
  BY DEF TypeOK
<1>4. \A s \in Slots : Bare(s)' <=> Bare(s)
  BY DEF Bare
<1>5. Generations'
  BY <1>1, <1>2, <1>3 DEF Core, Generations, SameSlots
<1>6. \A t \in Destroyers : pc[t] \in Tearing \/ pc'[t] \in Tearing =>
        /\ pc'[t] = pc[t] /\ SlotOf(t)' = SlotOf(t) /\ OwnerOf(t)' = OwnerOf(t)
  BY DEF Unclaimed, SlotOf, OwnerOf
<1>7. /\ pc["ioctl"] \in Creating \/ pc'["ioctl"] \in Creating =>
           req' = req /\ pc'["ioctl"] = pc["ioctl"]
      /\ pc'["ioctl"] = "admit" /\ ~req'.present => req'.slot \notin present'
  BY ThreadFacts DEF Unclaimed, Core, Creator
<1>8. \A s \in Slots : Stopper(s) => Stopper(s)'
  <2> SUFFICES ASSUME NEW s \in Slots, Stopper(s) PROVE Stopper(s)'
    OBVIOUS
  <2>1. CASE pc["ioctl"] = "undo" /\ req.slot = s
    BY <1>7, <2>1 DEF Stopper, Creating
  <2>2. CASE \E t \in Destroyers : pc[t] \in Tearing /\ SlotOf(t) = s
    BY <1>6, <2>2 DEF Stopper
  <2>3. CASE pc["pnp"] \in Sweeping /\ ChildOf(s) \in handles \cup retired
    BY <1>1, <2>3 DEF Stopper
  <2>4. CASE pc["pnp"] = "stop_null" /\ slot[s].vhf # NoChild
    BY <2>4 DEF Stopper, SameSlots
  <2> QED BY <2>1, <2>2, <2>3, <2>4 DEF Stopper
<1>9. SlotStates'
  <2> SUFFICES ASSUME NEW s \in Slots
               PROVE  /\ slot'[s].state \in {"empty", "lost"} => slot'[s].vhf = NoChild /\ Bare(s)'
                      /\ slot'[s].state = "empty" => slot'[s].owner = NoFile
                      /\ slot'[s].state = "active" => slot'[s].vhf # NoChild /\ pc'["pnp"] \notin Rest \cup Sweeping
                      /\ slot'[s].state = "starting" => pc'["ioctl"] \in Creating \ {"undo"} /\ req'.slot = s
                      /\ slot'[s].state = "stopping" => Stopper(s)'
    BY DEF SlotStates, SlotOk
  <2>1. /\ slot[s].state \in {"empty", "lost"} => slot[s].vhf = NoChild /\ Bare(s)
        /\ slot[s].state = "empty" => slot[s].owner = NoFile
        /\ slot[s].state = "active" => slot[s].vhf # NoChild /\ pc["pnp"] \notin Rest \cup Sweeping
        /\ slot[s].state = "starting" => pc["ioctl"] \in Creating \ {"undo"} /\ req.slot = s
        /\ slot[s].state = "stopping" => Stopper(s)
    BY DEF Core, SlotStates, SlotOk
  <2> QED BY <1>4, <1>7, <1>8, <2>1 DEF SameSlots
<1>10. Creator'
  BY <1>1, <1>3, <1>4, <1>7 DEF Core, Creator, SameSlots, Creating
<1>11. Destroying'
  <2> SUFFICES ASSUME NEW t \in Destroyers, pc'[t] \in Tearing
               PROVE  /\ slot'[SlotOf(t)'].state = "stopping" /\ slot'[SlotOf(t)'].owner = OwnerOf(t)'
                      /\ slot'[SlotOf(t)'].vhf = NoChild /\ pc'["pnp"] \notin Rest
                      /\ victim'[t] = ChildOf(SlotOf(t))' /\ ChildOf(SlotOf(t))' \in children'
                      /\ pc'[t] = "deleting" => victim'[t] \in deleting'
    BY DEF Destroying, TearingOk, Tearing
  <2>1. SlotOf(t) \in Slots
    BY DEF SlotOf, Destroyers, TypeOK
  <2>2. ChildOf(SlotOf(t))' = ChildOf(SlotOf(t))
    BY <1>1, <1>6, <2>1 DEF ChildOf, SameSlots
  <2> QED BY <1>6, <2>1, <2>2 DEF Core, Destroying, TearingOk, SameSlots
<1>12. SweepState'
  BY <1>1, <1>2, <1>3, <1>4 DEF Core, SweepState, SameSlots
<1> QED BY <1>5, <1>9, <1>10, <1>11, <1>12 DEF Core

(* A step that submits nothing and sees nothing submitted, and resets no   *)
(* slot that has a submission under way.                                   *)
LEMMA SubmissionsKept ==
  ASSUME TypeOK, Submissions, submits' = submits, calls' = calls,
         \A x \in submits :
           /\ x.child \in children'
           /\ x.by \in {"ioctl", "worker"} => x.child \notin deleting'
           /\ x.by = "ioctl" => pc'["ioctl"] = "submitting" /\ x.child.slot = req'.slot
           /\ x.by = "worker" => ~(pc'["ioctl"] \in Creating /\ x.child.slot = req'.slot),
         \A s \in Slots : \/ slot'[s].in_flight = slot[s].in_flight
                          \/ slot'[s].in_flight = 0 /\ SubmitsOf(s) = {}
  PROVE  Submissions'
<1>1. \A s \in Slots : SubmitsOf(s)' = SubmitsOf(s)
  BY DEF SubmitsOf
<1>2. \A s \in Slots : IsFiniteSet(SubmitsOf(s)') /\ slot'[s].in_flight = Cardinality(SubmitsOf(s)')
  BY <1>1, FS_EmptySet DEF Submissions
<1> QED BY <1>2 DEF Submissions, NoUseAfterDelete

LEMMA PassedKept ==
  ASSUME Passed, at' = at, \A f \in Files : pc'[f] = pc[f],
         \A s \in Slots : slot'[s].owner \in {slot[s].owner, NoFile}
  PROVE  Passed'
BY NullAssumption DEF Passed

(* A request arrives: it is answered at once, or goes on its way.          *)
LEMMA RequestStep ==
  ASSUME IInv, NEW f \in Files, NEW s \in Slots, NEW g \in Nat,
         NEW l \in {"idle", "snapshot", "destroy", "encoded"}, CanRequest(f), GoTo("ioctl", l),
         req' = [file |-> f, slot |-> s, gen |-> g, present |-> FALSE], status' \in Statuses,
         IF l = "encoded" THEN gate = Free /\ gate' = "ioctl" ELSE gate' = gate,
         slot' \in [Slots -> ControllerSlot], SameSlots,
         \A u \in Slots : slot'[u].in_flight = slot[u].in_flight,
         UNCHANGED <<device, at, victim, teardown, vhf, submits, worker, counts>>
  PROVE  IInv'
<1>1. TypeOK /\ Control /\ Passed /\ Core /\ Submissions
  BY DEF IInv
<1>2. /\ pc' \in [Threads -> Labels] /\ pc'["ioctl"] = l
      /\ \A t \in Threads : t # "ioctl" => pc'[t] = pc[t]
  <2>1. l \in Labels
    BY DEF Labels
  <2> QED BY <1>1, <2>1, ThreadFacts, Moves
<1>3. pc["ioctl"] = "idle" /\ pc[f] = "idle" /\ req'.file = f
  BY DEF CanRequest
<1>4. TypeOK'
  <2>1. gate' \in Threads \cup {Free}
    BY <1>1, ThreadFacts DEF TypeOK
  <2>2. req' \in [file : Files \cup {NoFile}, slot : Slots, gen : Nat, present : BOOLEAN]
    OBVIOUS
  <2> QED BY <1>1, <1>2, <2>1, <2>2 DEF TypeOK, device, teardown, vhf, counts
<1>5. Control'
  BY <1>1, <1>2, <1>3, ThreadFacts DEF Control, IoctlLabels, Inside, Creating, Tearing, Sweeping, device
<1>6. Passed'
  BY <1>1, <1>2, ThreadFacts, PassedKept DEF SameSlots
<1>7. Core'
  <2>1. \A t \in Destroyers : Unclaimed(t)
    BY <1>2, <1>3, ThreadFacts DEF Unclaimed, Creating, Tearing
  <2>2. \A call \in calls' : call.child \in children
    BY <1>1 DEF Core, Generations, vhf
  <2> QED BY <1>1, <1>2, <1>4, <2>1, <2>2, ThreadFacts, CoreKept DEF vhf, teardown
<1>8. Submissions'
  <2>1. l \notin Creating
    BY DEF Creating
  <2> QED BY <1>1, <1>2, <1>3, <2>1, SubmissionsKept DEF vhf, Submissions, NoUseAfterDelete
<1> QED BY <1>4, <1>5, <1>6, <1>7, <1>8 DEF IInv

LEMMA SlotsKept ==
  ASSUME TypeOK, slot' = slot
  PROVE  /\ slot' \in [Slots -> ControllerSlot] /\ SameSlots
         /\ \A u \in Slots : slot'[u].in_flight = slot[u].in_flight
BY DEF TypeOK, SameSlots

LEMMA CreateCheckStep ==
  ASSUME IInv, NEW f \in Files, NEW s \in Slots, CreateCheck(f, s)
  PROVE  IInv'
<1>1. /\ TypeOK /\ CanRequest(f) /\ slot[s].generation \in Nat
      /\ req' = [file |-> f, slot |-> s, gen |-> slot[s].generation, present |-> FALSE]
      /\ UNCHANGED <<device, at, victim, teardown, vhf, submits, worker, counts>>
  BY SlotFields DEF IInv, CreateCheck
<1>2. InactiveStatus(s, f) \in Statuses /\ (TypeOK => status \in Statuses)
  BY DEF InactiveStatus, Statuses, TypeOK
<1>3. \/ GoTo("ioctl", "idle") /\ status' \in Statuses /\ gate' = gate
      \/ GoTo("ioctl", "snapshot") /\ status' \in Statuses /\ gate' = gate
  BY <1>1, <1>2 DEF CreateCheck, Complete, Statuses
<1>4. slot' = slot
  BY DEF CreateCheck
<1>5. /\ slot' \in [Slots -> ControllerSlot] /\ SameSlots
      /\ \A u \in Slots : slot'[u].in_flight = slot[u].in_flight
  BY <1>1, <1>4, SlotsKept
<1>6. CASE GoTo("ioctl", "idle") /\ status' \in Statuses /\ gate' = gate
  <2>1. /\ "idle" \in {"idle", "snapshot", "destroy", "encoded"}
        /\ IF "idle" = "encoded" THEN gate = Free /\ gate' = "ioctl" ELSE gate' = gate
    BY <1>6
  <2> QED BY <1>1, <1>5, <1>6, <2>1, RequestStep
<1>7. CASE GoTo("ioctl", "snapshot") /\ status' \in Statuses /\ gate' = gate
  <2>1. /\ "snapshot" \in {"idle", "snapshot", "destroy", "encoded"}
        /\ IF "snapshot" = "encoded" THEN gate = Free /\ gate' = "ioctl" ELSE gate' = gate
    BY <1>7
  <2> QED BY <1>1, <1>5, <1>7, <2>1, RequestStep
<1> QED BY <1>3, <1>6, <1>7

LEMMA DestroyCheckStep ==
  ASSUME IInv, NEW f \in Files, NEW s \in Slots, DestroyCheck(f, s)
  PROVE  IInv'
<1>1. /\ TypeOK /\ CanRequest(f) /\ 0 \in Nat
      /\ req' = [file |-> f, slot |-> s, gen |-> 0, present |-> FALSE]
      /\ UNCHANGED <<device, at, victim, teardown, vhf, submits, worker, counts>>
  BY SlotFields DEF IInv, DestroyCheck
<1>2. InactiveStatus(s, f) \in Statuses /\ (TypeOK => status \in Statuses)
  BY DEF InactiveStatus, Statuses, TypeOK
<1>3. \/ GoTo("ioctl", "idle") /\ status' \in Statuses /\ gate' = gate
      \/ GoTo("ioctl", "destroy") /\ status' \in Statuses /\ gate' = gate
  BY <1>1, <1>2 DEF DestroyCheck, Complete, Statuses
<1>4. slot' = slot
  BY DEF DestroyCheck
<1>5. /\ slot' \in [Slots -> ControllerSlot] /\ SameSlots
      /\ \A u \in Slots : slot'[u].in_flight = slot[u].in_flight
  BY <1>1, <1>4, SlotsKept
<1>6. CASE GoTo("ioctl", "idle") /\ status' \in Statuses /\ gate' = gate
  <2>1. /\ "idle" \in {"idle", "snapshot", "destroy", "encoded"}
        /\ IF "idle" = "encoded" THEN gate = Free /\ gate' = "ioctl" ELSE gate' = gate
    BY <1>6
  <2> QED BY <1>1, <1>5, <1>6, <2>1, RequestStep
<1>7. CASE GoTo("ioctl", "destroy") /\ status' \in Statuses /\ gate' = gate
  <2>1. /\ "destroy" \in {"idle", "snapshot", "destroy", "encoded"}
        /\ IF "destroy" = "encoded" THEN gate = Free /\ gate' = "ioctl" ELSE gate' = gate
    BY <1>7
  <2> QED BY <1>1, <1>5, <1>7, <2>1, RequestStep
<1> QED BY <1>3, <1>6, <1>7

LEMMA SubmitCheckStep ==
  ASSUME IInv, NEW f \in Files, NEW s \in Slots, SubmitCheck(f, s)
  PROVE  IInv'
<1>1. /\ TypeOK /\ CanRequest(f) /\ 0 \in Nat
      /\ req' = [file |-> f, slot |-> s, gen |-> 0, present |-> FALSE]
      /\ UNCHANGED <<device, at, victim, teardown, vhf, submits, worker, counts>>
  BY SlotFields DEF IInv, SubmitCheck
<1>2. InactiveStatus(s, f) \in Statuses /\ (TypeOK => status \in Statuses)
  BY DEF InactiveStatus, Statuses, TypeOK
<1>3. \/ GoTo("ioctl", "idle") /\ status' \in Statuses /\ gate' = gate
      \/ GoTo("ioctl", "encoded") /\ status' \in Statuses /\ gate = Free /\ gate' = "ioctl"
  BY <1>1, <1>2 DEF SubmitCheck, Complete, Statuses
<1>4. slot' = slot
  BY DEF SubmitCheck
<1>5. /\ slot' \in [Slots -> ControllerSlot] /\ SameSlots
      /\ \A u \in Slots : slot'[u].in_flight = slot[u].in_flight
  BY <1>1, <1>4, SlotsKept
<1>6. CASE GoTo("ioctl", "idle") /\ status' \in Statuses /\ gate' = gate
  <2>1. /\ "idle" \in {"idle", "snapshot", "destroy", "encoded"}
        /\ IF "idle" = "encoded" THEN gate = Free /\ gate' = "ioctl" ELSE gate' = gate
    BY <1>6
  <2> QED BY <1>1, <1>5, <1>6, <2>1, RequestStep
<1>7. CASE GoTo("ioctl", "encoded") /\ status' \in Statuses /\ gate = Free /\ gate' = "ioctl"
  <2>1. /\ "encoded" \in {"idle", "snapshot", "destroy", "encoded"}
        /\ IF "encoded" = "encoded" THEN gate = Free /\ gate' = "ioctl" ELSE gate' = gate
    BY <1>7
  <2> QED BY <1>1, <1>5, <1>7, <2>1, RequestStep
<1> QED BY <1>3, <1>6, <1>7

LEMMA UpdateCheckStep ==
  ASSUME IInv, NEW f \in Files, NEW s \in Slots, UpdateCheck(f, s)
  PROVE  IInv'
<1>1. /\ TypeOK /\ CanRequest(f) /\ 0 \in Nat
      /\ req' = [file |-> f, slot |-> s, gen |-> 0, present |-> FALSE]
      /\ UNCHANGED <<device, at, victim, teardown, vhf, submits, worker, counts>>
  BY SlotFields DEF IInv, UpdateCheck
<1>2. InactiveStatus(s, f) \in Statuses /\ (TypeOK => status \in Statuses)
  BY DEF InactiveStatus, Statuses, TypeOK
<1>3. \/ GoTo("ioctl", "idle") /\ status' \in Statuses /\ gate' = gate
      \/ GoTo("ioctl", "encoded") /\ status' \in Statuses /\ gate = Free /\ gate' = "ioctl"
  BY <1>1, <1>2 DEF UpdateCheck, Complete, Statuses
<1>4. slot' = slot
  BY DEF UpdateCheck
<1>5. /\ slot' \in [Slots -> ControllerSlot] /\ SameSlots
      /\ \A u \in Slots : slot'[u].in_flight = slot[u].in_flight
  BY <1>1, <1>4, SlotsKept
<1>6. CASE GoTo("ioctl", "idle") /\ status' \in Statuses /\ gate' = gate
  <2>1. /\ "idle" \in {"idle", "snapshot", "destroy", "encoded"}
        /\ IF "idle" = "encoded" THEN gate = Free /\ gate' = "ioctl" ELSE gate' = gate
    BY <1>6
  <2> QED BY <1>1, <1>5, <1>6, <2>1, RequestStep
<1>7. CASE GoTo("ioctl", "encoded") /\ status' \in Statuses /\ gate = Free /\ gate' = "ioctl"
  <2>1. /\ "encoded" \in {"idle", "snapshot", "destroy", "encoded"}
        /\ IF "encoded" = "encoded" THEN gate = Free /\ gate' = "ioctl" ELSE gate' = gate
    BY <1>7
  <2> QED BY <1>1, <1>5, <1>7, <2>1, RequestStep
<1> QED BY <1>3, <1>6, <1>7

LEMMA PollFeedbackStep ==
  ASSUME IInv, NEW f \in Files, NEW s \in Slots, PollFeedback(f, s)
  PROVE  IInv'
<1>1. /\ TypeOK /\ CanRequest(f) /\ 0 \in Nat
      /\ req' = [file |-> f, slot |-> s, gen |-> 0, present |-> FALSE]
      /\ UNCHANGED <<device, at, victim, teardown, vhf, submits, worker, counts>>
  BY SlotFields DEF IInv, PollFeedback
<1>2. InactiveStatus(s, f) \in Statuses /\ (TypeOK => status \in Statuses)
  BY DEF InactiveStatus, Statuses, TypeOK
<1>3. \/ GoTo("ioctl", "idle") /\ status' \in Statuses /\ gate' = gate
  BY <1>1, <1>2 DEF PollFeedback, Complete, Statuses
<1>4. slot' = slot \/ slot' = [slot EXCEPT ![s] = [slot[s] EXCEPT !.feedback = NoChild]]
  BY DEF PollFeedback, SetSlot
<1>5. /\ slot' \in [Slots -> ControllerSlot] /\ SameSlots
      /\ \A u \in Slots : slot'[u].in_flight = slot[u].in_flight
  <2>1. CASE slot' = slot
    BY <1>1, <2>1, SlotsKept
  <2>2. CASE slot' = [slot EXCEPT ![s] = [slot[s] EXCEPT !.feedback = NoChild]]
    <3>1. slot \in [Slots -> ControllerSlot] /\ slot[s] \in ControllerSlot
      BY <1>1 DEF TypeOK
    <3>2. [slot[s] EXCEPT !.feedback = NoChild] \in ControllerSlot
      BY <3>1 DEF ControllerSlot
    <3> QED BY <2>2, <3>1, <3>2 DEF SameSlots, ControllerSlot
  <2> QED BY <1>4, <2>1, <2>2
<1>6. CASE GoTo("ioctl", "idle") /\ status' \in Statuses /\ gate' = gate
  <2>1. /\ "idle" \in {"idle", "snapshot", "destroy", "encoded"}
        /\ IF "idle" = "encoded" THEN gate = Free /\ gate' = "ioctl" ELSE gate' = gate
    BY <1>6
  <2> QED BY <1>1, <1>5, <1>6, <2>1, RequestStep
<1> QED BY <1>3, <1>6

(* A step that claims nothing, submits nothing and leaves PnP alone.       *)
LEMMA QuietStep ==
  ASSUME IInv, TypeOK', Control', Passed', slot' = slot, \A t \in Destroyers : Unclaimed(t),
         pc'["pnp"] = pc["pnp"],
         \/ req' = req /\ pc'["ioctl"] = pc["ioctl"]
         \/ pc["ioctl"] # "submitting" /\ pc'["ioctl"] \notin Creating,
         UNCHANGED <<victim, handles, retired, children, started, deleting, calls, submits>>,
         present' \subseteq present
  PROVE  IInv'
<1>1. TypeOK /\ Core /\ Submissions
  BY DEF IInv
<1>2. Core'
  <2>1. \A call \in calls' : call.child \in children
    BY <1>1 DEF Core, Generations
  <2> QED BY <1>1, <2>1, SlotsKept, CoreKept
<1>3. Submissions'
  <2>1. \A s \in Slots : slot'[s].in_flight = slot[s].in_flight
    OBVIOUS
  <2>2. \A x \in submits :
          /\ x.child \in children'
          /\ x.by \in {"ioctl", "worker"} => x.child \notin deleting'
          /\ x.by = "ioctl" => pc'["ioctl"] = "submitting" /\ x.child.slot = req'.slot
          /\ x.by = "worker" => ~(pc'["ioctl"] \in Creating /\ x.child.slot = req'.slot)
    BY <1>1 DEF Submissions, NoUseAfterDelete
  <2> QED BY <1>1, <2>1, <2>2, SubmissionsKept
<1> QED BY <1>2, <1>3 DEF IInv

LEMMA CreateSnapshotStep == ASSUME IInv, CreateSnapshot PROVE IInv'
<1>1. /\ TypeOK /\ Control /\ Passed /\ pc["ioctl"] = "snapshot" /\ GoTo("ioctl", "admit")
      /\ UNCHANGED <<slot, device, gate, status, at, victim, teardown, vhf, submits, worker, counts>>
  BY DEF IInv, CreateSnapshot
<1>2. PICK failed \in BOOLEAN : req' = [req EXCEPT !.present = req.slot \in present \/ failed]
  BY DEF CreateSnapshot
<1>3. /\ pc' \in [Threads -> Labels] /\ pc'["ioctl"] = "admit"
      /\ \A t \in Threads : t # "ioctl" => pc'[t] = pc[t]
  <2>1. "admit" \in Labels
    BY DEF Labels
  <2> QED BY <1>1, <2>1, ThreadFacts, Moves
<1>4. /\ req' \in [file : Files \cup {NoFile}, slot : Slots, gen : Nat, present : BOOLEAN]
      /\ req'.slot = req.slot /\ req'.file = req.file
      /\ ~req'.present => req.slot \notin present
  <2>1. req \in [file : Files \cup {NoFile}, slot : Slots, gen : Nat, present : BOOLEAN]
    BY <1>1 DEF TypeOK
  <2> QED BY <1>2, <2>1
<1>5. TypeOK'
  BY <1>1, <1>3, <1>4 DEF TypeOK, device, teardown, vhf, counts
<1>6. Control'
  BY <1>1, <1>3, <1>4, ThreadFacts DEF Control, IoctlLabels, Inside, Creating, Tearing, Sweeping, device
<1>7. Passed'
  BY <1>1, <1>3, ThreadFacts, PassedKept
<1>8. \A t \in Destroyers : Unclaimed(t)
  BY <1>1, <1>3, <1>4, ThreadFacts DEF Unclaimed, Creating, Tearing, vhf
<1>9. "admit" \notin Creating
  BY DEF Creating
<1> QED BY <1>1, <1>3, <1>5, <1>6, <1>7, <1>8, <1>9, ThreadFacts, QuietStep DEF vhf, teardown

LEMMA FileCloseStep == ASSUME IInv, NEW f \in Files, FileClose(f) PROVE IInv'
<1>1. /\ TypeOK /\ Control /\ Passed /\ pc[f] = "idle" /\ GoTo(f, "destroy")
      /\ pc["ioctl"] = "idle" \/ req.file # f
      /\ UNCHANGED <<slot, device, gate, req, status, at, victim, teardown, vhf, submits, worker, counts>>
  BY DEF IInv, FileClose
<1>2. /\ pc' \in [Threads -> Labels] /\ pc'[f] = "destroy"
      /\ \A t \in Threads : t # f => pc'[t] = pc[t]
  <2>1. "destroy" \in Labels
    BY DEF Labels
  <2> QED BY <1>1, <2>1, ThreadFacts, Moves
<1>3. TypeOK'
  BY <1>1, <1>2 DEF TypeOK, device, teardown, vhf, counts
<1>4. Control'
  BY <1>1, <1>2, ThreadFacts DEF Control, FileLabels, Inside, Creating, Tearing, Sweeping, device
<1>5. Passed'
  BY <1>1, <1>2, ThreadFacts DEF Passed
<1>6. \A t \in Destroyers : Unclaimed(t)
  BY <1>1, <1>2, ThreadFacts DEF Unclaimed, Creating, Tearing
<1> QED BY <1>1, <1>2, <1>3, <1>4, <1>5, <1>6, ThreadFacts, QuietStep DEF vhf, teardown

(* destroy_owned_controller returns: the gate is free again, and a file    *)
(* that closes goes on to the next slot.                                   *)
LEMMA DestroyedStep ==
  ASSUME TypeOK, Control, Passed, NEW t \in Destroyers, Destroyed(t), gate \in {Free, t},
         gate' = Free, req' = req, powered' = powered,
         pc[t] \in {"destroy", "deleting"},
         \A s \in Slots : slot'[s].owner \in {slot[s].owner, NoFile},
         slot'[SlotOf(t)].owner # OwnerOf(t)
  PROVE  /\ pc' \in [Threads -> Labels] /\ at' \in [Files -> Slots] /\ status' \in Statuses
         /\ pc'[t] \in {"idle", "destroy", "closed"}
         /\ \A u \in Threads : u # t => pc'[u] = pc[u]
         /\ \A f \in Files : f # t => at'[f] = at[f]
         /\ Control' /\ Passed'
<1>0. t \in Threads /\ t # "pnp"
  BY ThreadFacts
<1>1. CASE t = "ioctl"
  <2>1. GoTo(t, "idle") /\ status' = "SUCCESS" /\ at' = at
    BY <1>1 DEF Destroyed, Complete
  <2>2. /\ pc' \in [Threads -> Labels] /\ pc'[t] = "idle"
        /\ \A u \in Threads : u # t => pc'[u] = pc[u]
    <3>1. "idle" \in Labels
      BY DEF Labels
    <3> QED BY <1>0, <2>1, <3>1, Moves
  <2>3. Control'
    BY <1>1, <2>2, ThreadFacts DEF Control, IoctlLabels, Inside, Creating, Tearing, Sweeping
  <2>4. Passed'
    BY <1>1, <2>1, <2>2, ThreadFacts, PassedKept
  <2> QED BY <2>1, <2>2, <2>3, <2>4 DEF TypeOK, Statuses
<1>2. CASE t # "ioctl"
  <2>0. t \in Files /\ SlotOf(t) = at[t] /\ OwnerOf(t) = t /\ at[t] \in Slots
    BY <1>2 DEF Destroyers, SlotOf, OwnerOf, TypeOK
  <2>1. PICK l \in {"destroy", "closed"} :
          /\ pc' = [pc EXCEPT ![t] = l]
          /\ l = "destroy" => at[t] + 1 \in Slots /\ at' = [at EXCEPT ![t] = at[t] + 1]
          /\ l = "closed" => at[t] + 1 \notin Slots /\ at' = at
    BY <1>2 DEF Destroyed, GoTo
  <2>2. /\ pc' \in [Threads -> Labels] /\ pc'[t] = l
        /\ \A u \in Threads : u # t => pc'[u] = pc[u]
    BY <1>0, <2>1 DEF TypeOK, Labels
  <2>3. /\ at' \in [Files -> Slots] /\ \A f \in Files : f # t => at'[f] = at[f]
        /\ l = "destroy" => at'[t] = at[t] + 1
        /\ l = "closed" => at'[t] = at[t]
    BY <2>0, <2>1 DEF TypeOK
  <2>4. status' = status
    BY <1>2 DEF Destroyed
  <2>5. Control'
    BY <1>2, <2>0, <2>2, ThreadFacts DEF Control, FileLabels, Inside, Creating, Tearing, Sweeping
  <2>6. \A s \in Slots : s < at'[t] \/ l = "closed" => s <= at[t]
    BY <2>0, <2>1, <2>3, SlotAssumption DEF Slots
  <2>7. \A s \in Slots : s <= at[t] => s < at[t] \/ s = at[t]
    BY <2>0 DEF Slots
  <2>8. \A s \in Slots : s < at'[t] \/ l = "closed" => slot'[s].owner # t
    BY <2>0, <2>6, <2>7, NullAssumption DEF Passed
  <2>9. Passed'
    BY <2>0, <2>2, <2>3, <2>8, ThreadFacts, NullAssumption DEF Passed
  <2> QED BY <2>2, <2>3, <2>4, <2>5, <2>9 DEF TypeOK
<1> QED BY <1>1, <1>2

(* A thread that moves stays in or out of the gate, or takes it, or lets   *)
(* go of it.                                                               *)
LEMMA ControlMove ==
  ASSUME TypeOK, Control, NEW t \in Threads, NEW l \in Labels, GoTo(t, l),
         t = "ioctl" => l \in IoctlLabels /\ (pc["ioctl"] # "idle" \/ l = "idle"),
         t = "pnp" => l \in PnpLabels,
         t \in Files => l \in FileLabels \ {"idle"} /\ pc[t] # "idle",
         \/ gate' = gate /\ (l \in Inside <=> pc[t] \in Inside)
         \/ gate \in {Free, t} /\ gate' = IF l \in Inside THEN t ELSE Free,
         req'.file = req.file, powered' => IF t = "pnp" THEN l = "working" ELSE powered
  PROVE  /\ Control' /\ pc' \in [Threads -> Labels] /\ pc'[t] = l
         /\ gate' \in Threads \cup {Free}
         /\ \A u \in Threads : u # t => pc'[u] = pc[u]
<1>1. /\ pc' \in [Threads -> Labels] /\ pc'[t] = l
      /\ \A u \in Threads : u # t => pc'[u] = pc[u]
  BY Moves
<1>2. \A u \in Threads : gate' = u <=> pc'[u] \in Inside
  BY <1>1, ThreadFacts DEF Control
<1>3. powered' => pc'["pnp"] = "working"
  BY <1>1, ThreadFacts DEF Control
<1>4. pc'["ioctl"] \in IoctlLabels /\ pc'["pnp"] \in PnpLabels /\ \A f \in Files : pc'[f] \in FileLabels
  BY <1>1, ThreadFacts DEF Control
<1>5. pc'["ioctl"] # "idle" => req'.file \in Files /\ pc'[req'.file] = "idle"
  BY <1>1, ThreadFacts DEF Control
<1>6. gate' \in Threads \cup {Free}
  BY DEF TypeOK
<1> QED BY <1>1, <1>2, <1>3, <1>4, <1>5, <1>6 DEF Control

LEMMA DestroyNothingStep == ASSUME IInv, NEW t \in Destroyers, DestroyNothing(t) PROVE IInv'
<1>1. /\ TypeOK /\ Control /\ Passed /\ Core /\ pc[t] = "destroy" /\ gate = Free /\ Destroyed(t)
      /\ UNCHANGED <<slot, device, gate, req, victim, teardown, vhf, submits, worker, counts>>
  BY DEF IInv, DestroyNothing
<1>2. SlotOf(t) \in Slots /\ OwnerOf(t) \in Files
  BY <1>1, ThreadFacts DEF SlotOf, OwnerOf, Destroyers, TypeOK, Control
<1>3. slot'[SlotOf(t)].owner # OwnerOf(t)
  BY <1>1, <1>2, NullAssumption DEF DestroyNothing, Core, SlotStates, SlotOk
<1>4. /\ pc' \in [Threads -> Labels] /\ at' \in [Files -> Slots] /\ status' \in Statuses
      /\ pc'[t] \in {"idle", "destroy", "closed"}
      /\ \A u \in Threads : u # t => pc'[u] = pc[u]
      /\ \A f \in Files : f # t => at'[f] = at[f]
      /\ Control' /\ Passed'
  BY <1>1, <1>3, DestroyedStep DEF device
<1>5. TypeOK'
  BY <1>1, <1>4 DEF TypeOK, device, teardown, vhf, counts
<1>6. \A u \in Destroyers : Unclaimed(u)
  BY <1>1, <1>4, ThreadFacts DEF Unclaimed, Creating, Tearing, Destroyers
<1>7. /\ pc'["pnp"] = pc["pnp"]
      /\ \/ req' = req /\ pc'["ioctl"] = pc["ioctl"]
         \/ pc["ioctl"] # "submitting" /\ pc'["ioctl"] \notin Creating
  BY <1>1, <1>4, ThreadFacts DEF Creating
<1> QED BY <1>1, <1>4, <1>5, <1>6, <1>7, QuietStep DEF vhf, teardown

(* create_controller gives up before it has claimed anything.              *)
LEMMA CreateRefusedStep ==
  ASSUME IInv, CreateAdmit, gate' # "ioctl"
  PROVE  IInv'
<1>1. /\ TypeOK /\ Control /\ Passed /\ pc["ioctl"] = "admit" /\ GoTo("ioctl", "idle")
      /\ status' \in Statuses
      /\ UNCHANGED <<slot, gate, creates, device, req, at, victim, teardown, vhf, submits, worker, powerups>>
  BY DEF IInv, CreateAdmit, Complete, Statuses
<1>2. /\ "idle" \in Labels /\ "idle" \in IoctlLabels /\ "idle" \notin Inside
      /\ pc["ioctl"] \notin Inside /\ "idle" \notin Creating
  BY <1>1 DEF Labels, IoctlLabels, Inside, Creating, Tearing, Sweeping
<1>3. /\ Control' /\ pc' \in [Threads -> Labels] /\ pc'["ioctl"] = "idle"
      /\ \A u \in Threads : u # "ioctl" => pc'[u] = pc[u]
  BY <1>1, <1>2, ThreadFacts, ControlMove DEF device
<1>4. TypeOK'
  BY <1>1, <1>3 DEF TypeOK, device, teardown, vhf, counts
<1>5. Passed'
  BY <1>1, <1>3, ThreadFacts, PassedKept
<1>6. \A t \in Destroyers : Unclaimed(t)
  BY <1>1, <1>3, ThreadFacts DEF Unclaimed, Creating, Tearing
<1> QED BY <1>1, <1>2, <1>3, <1>4, <1>5, <1>6, ThreadFacts, QuietStep DEF vhf, teardown

(* pump_report refuses the report, or leaves it queued.                    *)
LEMMA SubmitQueuedStep ==
  ASSUME IInv, SubmitPump, gate' = Free
  PROVE  IInv'
<1>1. /\ TypeOK /\ Control /\ Passed /\ pc["ioctl"] = "encoded" /\ worker' \in {worker, TRUE}
      /\ UNCHANGED <<device, req, at, victim, teardown, vhf, counts>>
  BY DEF IInv, SubmitPump
<1>2. gate = "ioctl"
  BY <1>1, ThreadFacts DEF Control, Inside
<1>3. GoTo("ioctl", "idle") /\ status' \in Statuses /\ slot' = slot /\ submits' = submits
  BY <1>2, ThreadFacts DEF SubmitPump, Complete, Statuses
<1>4. /\ "idle" \in Labels /\ "idle" \in IoctlLabels /\ "idle" \notin Inside
      /\ "idle" \notin Creating
  BY <1>1 DEF Labels, IoctlLabels, Inside, Creating, Tearing, Sweeping
<1>5. /\ Control' /\ pc' \in [Threads -> Labels] /\ pc'["ioctl"] = "idle"
      /\ \A u \in Threads : u # "ioctl" => pc'[u] = pc[u]
  BY <1>1, <1>2, <1>3, <1>4, ThreadFacts, ControlMove DEF device
<1>6. TypeOK'
  <2>1. /\ powered' = powered /\ stopping' = stopping /\ target' = target /\ req' = req
        /\ at' = at /\ victim' = victim /\ handles' = handles /\ retired' = retired
        /\ forget' = forget /\ children' = children /\ started' = started
        /\ deleting' = deleting /\ present' = present /\ calls' = calls
        /\ creates' = creates /\ powerups' = powerups
    BY <1>1 DEF device, teardown, vhf, counts
  <2>2. gate' \in Threads \cup {Free}
    BY <1>5 DEF Control
  <2> QED BY <1>1, <1>3, <1>5, <2>1, <2>2 DEF TypeOK
<1>7. Passed'
  BY <1>1, <1>3, <1>5, ThreadFacts, PassedKept
<1>8. \A t \in Destroyers : Unclaimed(t)
  BY <1>1, <1>5, ThreadFacts DEF Unclaimed, Creating, Tearing
<1> QED BY <1>1, <1>3, <1>4, <1>5, <1>6, <1>7, <1>8, ThreadFacts, QuietStep DEF vhf, teardown

(* The worker leaves, or PnP has removed a child.                          *)
LEMMA ElsewhereStep ==
  ASSUME IInv, present' \subseteq present, worker' \in BOOLEAN,
         UNCHANGED <<slot, device, gate, pc, req, status, at, victim, teardown, children, started,
                     deleting, calls, submits, counts>>
  PROVE  IInv'
<1>1. TypeOK'
  BY DEF IInv, TypeOK, device, teardown, counts
<1>2. Control'
  BY DEF IInv, Control, device
<1>3. Passed'
  BY DEF IInv, Passed
<1>4. \A t \in Destroyers : Unclaimed(t)
  BY DEF Unclaimed
<1> QED BY <1>1, <1>2, <1>3, <1>4, QuietStep DEF teardown

-----------------------------------------------------------------------------
(* PnP moves between places where it has claimed nothing; it comes to rest *)
(* only from rest.                                                         *)
LEMMA PnpMoveStep ==
  ASSUME IInv, NEW l \in PnpLabels \ Sweeping, GoTo("pnp", l), pc["pnp"] \notin Sweeping,
         l \in Rest => pc["pnp"] \in Rest,
         powered' \in BOOLEAN, stopping' \in BOOLEAN, forget' \in BOOLEAN,
         target' \in [exists : BOOLEAN, open : BOOLEAN, handle : BOOLEAN],
         powerups' \in Nat, powered' => l = "working", gate' = gate,
         UNCHANGED <<slot, req, status, at, victim, handles, retired, vhf, submits, worker, creates>>
  PROVE  IInv'
<1>1. TypeOK /\ Control /\ Passed /\ Core /\ Submissions
  BY DEF IInv
<1>2. l \in Labels /\ l \notin Inside /\ pc["pnp"] \notin Inside
  BY <1>1 DEF Control, PnpLabels, Labels, Inside, Creating, Tearing, Sweeping
<1>3. /\ Control' /\ pc' \in [Threads -> Labels] /\ pc'["pnp"] = l
      /\ \A u \in Threads : u # "pnp" => pc'[u] = pc[u]
  BY <1>1, <1>2, ThreadFacts, ControlMove
<1>4. TypeOK'
  BY <1>1, <1>3 DEF TypeOK, vhf
<1>5. Passed'
  BY <1>1, <1>3, ThreadFacts, PassedKept
<1>6. \A t \in Destroyers : pc'[t] = pc[t]
  BY <1>3, ThreadFacts
<1>7. /\ \A s \in Slots : ChildOf(s)' = ChildOf(s) /\ (Bare(s)' <=> Bare(s))
      /\ \A t \in Destroyers : SlotOf(t)' = SlotOf(t) /\ OwnerOf(t)' = OwnerOf(t)
  BY DEF ChildOf, Bare, vhf, SlotOf, OwnerOf
<1>8. handles = {} /\ retired = {}
  BY <1>1 DEF Core, SweepState, Sweeping
<1>9. Generations'
  BY <1>1, <1>7 DEF Core, Generations, vhf
<1>10. SlotStates'
  <2>1. \A s \in Slots : Stopper(s) => Stopper(s)'
    BY <1>6, <1>7, <1>8, ThreadFacts DEF Stopper, Sweeping
  <2>2. \A s \in Slots : slot[s].state = "active" => l \notin Rest \cup Sweeping
    BY <1>1 DEF Core, SlotStates, SlotOk
  <2> QED BY <1>1, <1>3, <1>6, <1>7, <2>1, <2>2, ThreadFacts DEF Core, SlotStates, SlotOk
<1>11. Creator'
  BY <1>1, <1>3, <1>6, <1>7, ThreadFacts DEF Core, Creator, vhf, ChildOf, Bare
<1>12. Destroying'
  BY <1>1, <1>3, <1>6, <1>7, ThreadFacts DEF Core, Destroying, TearingOk, vhf, ChildOf, SlotOf, OwnerOf
<1>13. SweepState'
  BY <1>3, <1>8 DEF SweepState, Sweeping
<1>14. Submissions'
  <2>1. pc'["ioctl"] = pc["ioctl"]
    BY <1>3, ThreadFacts
  <2> QED BY <1>1, <2>1, SubmissionsKept DEF vhf, Submissions, NoUseAfterDelete
<1> QED BY <1>3, <1>4, <1>5, <1>9, <1>10, <1>11, <1>12, <1>13, <1>14 DEF IInv, Core

LEMMA PrepareHardwareStep == ASSUME IInv, PrepareHardware PROVE IInv'
<1>1. TypeOK /\ pc["pnp"] = "stopped" /\ "started" \in PnpLabels \ Sweeping /\ "stopped" \notin Sweeping
      /\ "stopped" \in Rest
  BY DEF IInv, PrepareHardware, PnpLabels, Sweeping, Rest
<1>2. /\ target' \in [exists : BOOLEAN, open : BOOLEAN, handle : BOOLEAN]
      /\ GoTo("pnp", "started") /\ stopping' = FALSE
      /\ UNCHANGED <<slot, powered, gate, req, status, at, victim, teardown, vhf, submits, worker, counts>>
  BY <1>1 DEF PrepareHardware, TypeOK
<1>3. ~powered /\ powered \in BOOLEAN /\ forget \in BOOLEAN /\ powerups \in Nat
  BY <1>1 DEF IInv, Control, TypeOK
<1> QED BY <1>1, <1>2, <1>3, PnpMoveStep DEF teardown, counts

LEMMA D0EntryStep == ASSUME IInv, D0Entry PROVE IInv'
<1>1. TypeOK /\ pc["pnp"] = "started" /\ "working" \in PnpLabels \ Sweeping /\ "started" \notin Sweeping
      /\ "working" \notin Rest
  BY DEF IInv, D0Entry, PnpLabels, Sweeping, Rest
<1>2. powerups' \in Nat
  BY <1>1 DEF D0Entry, TypeOK
<1> QED BY <1>1, <1>2, PnpMoveStep DEF D0Entry, TypeOK, teardown

LEMMA D0ExitStep == ASSUME IInv, D0Exit PROVE IInv'
<1>1. TypeOK /\ pc["pnp"] = "working" /\ "down" \in PnpLabels \ Sweeping /\ "working" \notin Sweeping
      /\ "down" \notin Rest
  BY DEF IInv, D0Exit, PnpLabels, Sweeping, Rest
<1> QED BY <1>1, PnpMoveStep DEF D0Exit, TypeOK, teardown, counts

LEMMA StopIntentStep ==
  ASSUME IInv, NEW from \in SUBSET (PnpLabels \ Sweeping), NEW b \in BOOLEAN, StopIntent(from, b)
  PROVE  IInv'
<1>1. TypeOK /\ pc["pnp"] \notin Sweeping /\ "stop" \in PnpLabels \ Sweeping /\ "stop" \notin Rest
  BY DEF IInv, StopIntent, PnpLabels, Sweeping, Rest
<1> QED BY <1>1, PnpMoveStep DEF StopIntent, TypeOK, teardown, counts

LEMMA CloseTargetStep == ASSUME IInv, CloseTarget PROVE IInv'
<1>1. TypeOK /\ pc["pnp"] = "close" /\ "stopped" \in PnpLabels \ Sweeping /\ "close" \notin Sweeping
      /\ "close" \in Rest
  BY DEF IInv, CloseTarget, PnpLabels, Sweeping, Rest
<1>2. target' \in [exists : BOOLEAN, open : BOOLEAN, handle : BOOLEAN]
  BY <1>1 DEF CloseTarget, TypeOK
<1>3. ~powered
  BY <1>1 DEF IInv, Control
<1> QED BY <1>1, <1>2, <1>3, PnpMoveStep DEF CloseTarget, TypeOK, teardown, counts
-----------------------------------------------------------------------------
(* submits_in_flight goes up with a new submission, and down with the end  *)
(* of one.                                                                 *)
LEMMA Counted ==
  ASSUME TypeOK, Submissions, NEW x, x \notin submits, x.child.slot \in Slots,
         submits' = submits \cup {x},
         slot' = [slot EXCEPT ![x.child.slot].in_flight = @ + 1]
  PROVE  /\ slot' \in [Slots -> ControllerSlot] /\ SameSlots
         /\ \A s \in Slots : /\ IsFiniteSet(SubmitsOf(s)')
                             /\ slot'[s].in_flight = Cardinality(SubmitsOf(s)')
<1> DEFINE u == x.child.slot
<1>1. slot \in [Slots -> ControllerSlot] /\ u \in Slots /\ slot[u] \in ControllerSlot
  BY DEF TypeOK
<1>2. slot[u].in_flight \in Nat
  BY <1>1 DEF ControllerSlot
<1>3. [slot[u] EXCEPT !.in_flight = slot[u].in_flight + 1] \in ControllerSlot
  BY <1>1, <1>2 DEF ControllerSlot
<1>4. slot' = [slot EXCEPT ![u] = [slot[u] EXCEPT !.in_flight = slot[u].in_flight + 1]]
  OBVIOUS
<1>5. slot' \in [Slots -> ControllerSlot]
  BY <1>1, <1>3, <1>4
<1>6. SameSlots
  BY <1>1, <1>4 DEF SameSlots, ControllerSlot
<1>7. slot'[u].in_flight = slot[u].in_flight + 1
  BY <1>1, <1>4 DEF ControllerSlot
<1>8. ASSUME NEW s \in Slots
      PROVE  IsFiniteSet(SubmitsOf(s)') /\ slot'[s].in_flight = Cardinality(SubmitsOf(s)')
  <2>1. IsFiniteSet(SubmitsOf(s)) /\ slot[s].in_flight = Cardinality(SubmitsOf(s))
    BY DEF Submissions
  <2>2. CASE s = u
    <3>1. SubmitsOf(s)' = SubmitsOf(s) \cup {x} /\ x \notin SubmitsOf(s)
      BY <2>2 DEF SubmitsOf
    <3> QED BY <1>7, <2>1, <2>2, <3>1, FS_AddElement
  <2>3. CASE s # u
    <3>1. SubmitsOf(s)' = SubmitsOf(s)
      BY <2>3 DEF SubmitsOf
    <3>2. slot'[s] = slot[s]
      BY <1>1, <1>4, <2>3
    <3> QED BY <2>1, <3>1, <3>2
  <2> QED BY <2>2, <2>3
<1> QED BY <1>5, <1>6, <1>8

LEMMA CountedSame ==
  ASSUME Submissions, submits' = submits, \A s \in Slots : slot'[s].in_flight = slot[s].in_flight
  PROVE  \A s \in Slots : IsFiniteSet(SubmitsOf(s)') /\ slot'[s].in_flight = Cardinality(SubmitsOf(s)')
BY DEF Submissions, SubmitsOf

LEMMA Uncounted ==
  ASSUME TypeOK, Submissions, NEW x, Submitted(x)
  PROVE  /\ slot' \in [Slots -> ControllerSlot] /\ SameSlots
         /\ \A s \in Slots : /\ IsFiniteSet(SubmitsOf(s)')
                             /\ slot'[s].in_flight = Cardinality(SubmitsOf(s)')
<1> DEFINE u == x.child.slot
<1>0. x \in submits /\ submits' = submits \ {x} /\ slot' = [slot EXCEPT ![u].in_flight = @ - 1]
  BY DEF Submitted
<1>1. slot \in [Slots -> ControllerSlot] /\ u \in Slots /\ slot[u] \in ControllerSlot
  <2>1. x.child \in Child
    BY <1>0 DEF TypeOK
  <2>2. u \in Slots
    BY <2>1 DEF Child
  <2> QED BY <2>2 DEF TypeOK
<1>2. /\ IsFiniteSet(SubmitsOf(u)) /\ slot[u].in_flight = Cardinality(SubmitsOf(u))
      /\ x \in SubmitsOf(u)
  BY <1>0, <1>1 DEF Submissions, SubmitsOf
<1>3. SubmitsOf(u)' = SubmitsOf(u) \ {x}
  BY <1>0 DEF SubmitsOf
<1>4. /\ IsFiniteSet(SubmitsOf(u)') /\ Cardinality(SubmitsOf(u)') \in Nat
      /\ Cardinality(SubmitsOf(u)') = slot[u].in_flight - 1
  <2>1. /\ IsFiniteSet(SubmitsOf(u) \ {x})
        /\ Cardinality(SubmitsOf(u) \ {x}) = Cardinality(SubmitsOf(u)) - 1
    BY <1>2, FS_RemoveElement
  <2>2. Cardinality(SubmitsOf(u) \ {x}) \in Nat
    BY <2>1, FS_CardinalityType
  <2> QED BY <1>2, <1>3, <2>1, <2>2
<1>5. slot[u].in_flight - 1 \in Nat
  BY <1>4
<1>6. [slot[u] EXCEPT !.in_flight = slot[u].in_flight - 1] \in ControllerSlot
  BY <1>1, <1>5 DEF ControllerSlot
<1>7. slot' = [slot EXCEPT ![u] = [slot[u] EXCEPT !.in_flight = slot[u].in_flight - 1]]
  BY <1>0
<1>8. slot' \in [Slots -> ControllerSlot]
  BY <1>1, <1>6, <1>7
<1>9. SameSlots
  BY <1>1, <1>7 DEF SameSlots, ControllerSlot
<1>10. slot'[u].in_flight = slot[u].in_flight - 1
  BY <1>1, <1>7 DEF ControllerSlot
<1>11. ASSUME NEW s \in Slots, s # u
       PROVE  IsFiniteSet(SubmitsOf(s)') /\ slot'[s].in_flight = Cardinality(SubmitsOf(s)')
  <2>1. SubmitsOf(s)' = SubmitsOf(s)
    BY <1>0, <1>11 DEF SubmitsOf
  <2>2. slot'[s] = slot[s]
    BY <1>1, <1>7, <1>11
  <2> QED BY <2>1, <2>2 DEF Submissions
<1> QED BY <1>4, <1>8, <1>9, <1>10, <1>11

(* A submission names its child and who submits.                           *)
LEMMA SubmitRecord ==
  ASSUME TypeOK, NEW x \in submits
  PROVE  /\ x = [by |-> x.by, child |-> x.child] /\ x.child \in Child /\ x.child.slot \in Slots
         /\ x.by \in {"ioctl", "worker", "ready", "write"}
<1>1. x \in [by : {"ioctl", "worker", "ready", "write"}, child : Child]
  BY DEF TypeOK
<1>2. x.child \in Child
  BY <1>1
<1> QED BY <1>1, <1>2 DEF Child

LEMMA SubmitTakenStep ==
  ASSUME IInv, SubmitPump, gate' # Free
  PROVE  IInv'
<1> DEFINE s == req.slot
           x == [by |-> "ioctl", child |-> slot[s].vhf]
<1>1. /\ TypeOK /\ Control /\ Passed /\ Core /\ Submissions /\ pc["ioctl"] = "encoded"
      /\ worker' \in {worker, TRUE} /\ s \in Slots
      /\ AcceptsVhfCallbacks(s) /\ TakeFor("ioctl", s) /\ GoTo("ioctl", "submitting")
      /\ gate' = gate /\ status' = status
      /\ UNCHANGED <<device, req, at, victim, teardown, vhf, counts>>
  BY DEF IInv, SubmitPump, TypeOK
<1>2. slot[s].vhf = ChildOf(s) /\ slot[s].vhf \in children \ deleting
  BY <1>1 DEF AcceptsVhfCallbacks, Core, Generations
<1>3. x.by = "ioctl" /\ x.child = ChildOf(s) /\ ChildOf(s).slot = s /\ ChildOf(s) \in Child
  BY <1>1, <1>2, SlotFields
<1>4. submits' = submits \cup {x} /\ slot' = [slot EXCEPT ![s].in_flight = @ + 1]
  BY <1>1 DEF TakeFor
<1>5. x \notin submits
  BY <1>1, <1>3 DEF Submissions
<1> HIDE DEF x, s
<1>6. /\ slot' \in [Slots -> ControllerSlot] /\ SameSlots
      /\ \A u \in Slots : IsFiniteSet(SubmitsOf(u)') /\ slot'[u].in_flight = Cardinality(SubmitsOf(u)')
  BY <1>1, <1>3, <1>4, <1>5, Counted
<1>7. /\ "submitting" \in Labels /\ "submitting" \in IoctlLabels /\ "submitting" \in Inside
      /\ pc["ioctl"] \in Inside
  BY <1>1 DEF Labels, IoctlLabels, Inside
<1>8. /\ Control' /\ pc' \in [Threads -> Labels] /\ pc'["ioctl"] = "submitting"
      /\ \A u \in Threads : u # "ioctl" => pc'[u] = pc[u]
  BY <1>1, <1>7, ThreadFacts, ControlMove DEF device
<1>9. TypeOK'
  <2>1. submits' \in SUBSET [by : {"ioctl", "worker", "ready", "write"}, child : Child]
    BY <1>1, <1>3, <1>4 DEF TypeOK, x
  <2>2. /\ powered' = powered /\ stopping' = stopping /\ target' = target /\ req' = req
        /\ at' = at /\ victim' = victim /\ handles' = handles /\ retired' = retired
        /\ forget' = forget /\ children' = children /\ started' = started
        /\ deleting' = deleting /\ present' = present /\ calls' = calls
        /\ creates' = creates /\ powerups' = powerups
    BY <1>1 DEF device, teardown, vhf, counts
  <2> QED BY <1>1, <1>6, <1>8, <2>1, <2>2 DEF TypeOK
<1>10. Passed'
  BY <1>1, <1>6, <1>8, ThreadFacts, PassedKept DEF SameSlots
<1>11. Core'
  <2>1. \A t \in Destroyers : Unclaimed(t)
    BY <1>1, <1>8, ThreadFacts DEF Unclaimed, Creating, Tearing
  <2>2. \A call \in calls' : call.child \in children
    BY <1>1 DEF Core, Generations, vhf
  <2> QED BY <1>1, <1>6, <1>8, <1>9, <2>1, <2>2, ThreadFacts, CoreKept DEF vhf, teardown
<1>12. Submissions'
  <2>1. "submitting" \notin Creating
    BY DEF Creating
  <2>2. \A y \in submits' :
          /\ y.child \in children /\ (y.by \in {"ioctl", "worker"} => y.child \notin deleting)
          /\ y.by = "ioctl" => y.child.slot = req.slot
          /\ y.by \in {"ready", "write"} =>
               \E call \in calls : call.child = y.child /\ call.kind = y.by /\ call.step = "submitting"
    BY <1>1, <1>2, <1>3, <1>4 DEF Submissions, NoUseAfterDelete, s
  <2> QED BY <1>1, <1>6, <1>8, <2>1, <2>2 DEF Submissions, NoUseAfterDelete, vhf
<1> QED BY <1>8, <1>9, <1>10, <1>11, <1>12 DEF IInv

LEMMA SubmitEndStep == ASSUME IInv, SubmitEnd PROVE IInv'
<1>1. /\ TypeOK /\ Control /\ Passed /\ Core /\ Submissions /\ pc["ioctl"] = "submitting"
      /\ GoTo("ioctl", "idle") /\ status' \in Statuses /\ gate' = Free
      /\ UNCHANGED <<device, req, at, victim, teardown, vhf, worker, counts>>
  BY DEF IInv, SubmitEnd, Complete, Statuses
<1>2. PICK x \in submits : x.by = "ioctl" /\ Submitted(x)
  BY DEF SubmitEnd
<1>3. /\ slot' \in [Slots -> ControllerSlot] /\ SameSlots
      /\ \A u \in Slots : IsFiniteSet(SubmitsOf(u)') /\ slot'[u].in_flight = Cardinality(SubmitsOf(u)')
  BY <1>1, <1>2, Uncounted
<1>4. gate = "ioctl"
  BY <1>1, ThreadFacts DEF Control, Inside
<1>5. "idle" \in Labels /\ "idle" \in IoctlLabels /\ "idle" \notin Inside /\ "idle" \notin Creating
  BY DEF Labels, IoctlLabels, Inside, Creating, Tearing, Sweeping
<1>6. /\ Control' /\ pc' \in [Threads -> Labels] /\ pc'["ioctl"] = "idle"
      /\ \A u \in Threads : u # "ioctl" => pc'[u] = pc[u]
  BY <1>1, <1>4, <1>5, ThreadFacts, ControlMove DEF device
<1>7. submits' = submits \ {x}
  BY <1>2 DEF Submitted
<1>8. TypeOK'
  BY <1>1, <1>3, <1>6, <1>7 DEF TypeOK, device, teardown, vhf, counts
<1>9. Passed'
  BY <1>1, <1>3, <1>6, ThreadFacts, PassedKept DEF SameSlots
<1>10. Core'
  <2>1. \A t \in Destroyers : Unclaimed(t)
    BY <1>1, <1>6, ThreadFacts DEF Unclaimed, Creating, Tearing
  <2>2. \A call \in calls' : call.child \in children
    BY <1>1 DEF Core, Generations, vhf
  <2> QED BY <1>1, <1>3, <1>6, <1>8, <2>1, <2>2, ThreadFacts, CoreKept DEF vhf, teardown
<1>11. \A y \in submits' : y.by # "ioctl"
  <2> SUFFICES ASSUME NEW y \in submits, y # x, y.by = "ioctl" PROVE FALSE
    BY <1>7
  <2>1. y.child \in children /\ x.child \in children /\ y.child.slot = x.child.slot
    BY <1>1, <1>2 DEF Submissions
  <2>2. y.child = x.child
    BY <1>1, <2>1, OneChild DEF Core
  <2> QED BY <1>1, <1>2, <2>2, SubmitRecord
<1>12. Submissions'
  BY <1>1, <1>3, <1>5, <1>6, <1>7, <1>11 DEF Submissions, NoUseAfterDelete, vhf
<1> QED BY <1>6, <1>8, <1>9, <1>10, <1>12 DEF IInv

-----------------------------------------------------------------------------
(* Steps that leave every thread where it is, and may start, count or end  *)
(* submissions and move callbacks on.                                      *)
LEMMA CallbackStep ==
  ASSUME IInv, slot' \in [Slots -> ControllerSlot],
         \A s \in Slots : IsFiniteSet(SubmitsOf(s)') /\ slot'[s].in_flight = Cardinality(SubmitsOf(s)'),
         \A s \in Slots :
           /\ slot'[s].state = slot[s].state /\ slot'[s].owner = slot[s].owner
           /\ slot'[s].vhf = slot[s].vhf /\ slot'[s].generation = slot[s].generation
           /\ slot'[s].feedback \in {slot[s].feedback, NoChild, ChildOf(s)},
         submits' \in SUBSET [by : {"ioctl", "worker", "ready", "write"}, child : Child],
         calls' \in SUBSET [child : Child, kind : {"ready", "write"},
                            step : {"entered", "published", "submitting"}],
         \A call \in calls' : call.child \in children,
         \A call1, call2 \in calls' :
           call1.child = call2.child /\ call1.kind = call2.kind => call1 = call2,
         \A x \in submits' :
           /\ x \in submits \/ /\ x.child \in children \ deleting /\ x.by # "ioctl"
                               /\ x.by = "worker" => slot[x.child.slot].state = "active"
           /\ x.by \in {"ready", "write"} =>
                \E call \in calls' : call.child = x.child /\ call.kind = x.by /\ call.step = "submitting",
         UNCHANGED <<device, gate, pc, req, status, at, victim, teardown, children, started,
                     deleting, present, worker, counts>>
  PROVE  IInv'
<1>1. TypeOK /\ Control /\ Passed /\ Core /\ Submissions
  BY DEF IInv
<1>2. TypeOK'
  BY <1>1 DEF TypeOK, device, teardown, counts
<1>3. Control'
  BY <1>1 DEF Control, device
<1>4. Passed'
  BY <1>1 DEF Passed
<1>5. Core'
  <2>1. \A s \in Slots : ChildOf(s)' = ChildOf(s) /\ (Bare(s)' <=> Bare(s))
    BY DEF ChildOf, Bare
  <2>2. \A c \in Child : c.slot \in Slots
    BY DEF Child
  <2>3. children \subseteq Child /\ handles \subseteq Child /\ retired \subseteq Child
        /\ req.slot \in Slots /\ \A t \in Destroyers : SlotOf(t) \in Slots
    BY <1>1 DEF TypeOK, SlotOf, Destroyers
  <2>4. \A t \in Destroyers : SlotOf(t)' = SlotOf(t) /\ OwnerOf(t)' = OwnerOf(t)
    BY DEF SlotOf, OwnerOf
  <2>5. Generations'
    BY <1>1, <2>1, <2>2, <2>3 DEF Core, Generations
  <2>6. SlotStates'
    <3>1. \A s \in Slots : Stopper(s) <=> Stopper(s)'
      BY <2>1, <2>4 DEF Stopper, teardown
    <3> QED BY <1>1, <2>1, <3>1 DEF Core, SlotStates, SlotOk
  <2>7. Creator'
    BY <1>1, <2>1, <2>3 DEF Core, Creator, ChildOf
  <2>8. Destroying'
    <3> SUFFICES ASSUME NEW t \in Destroyers
                 PROVE  /\ pc'[t] \in Tearing =>
                             /\ slot'[SlotOf(t)'].state = "stopping"
                             /\ slot'[SlotOf(t)'].owner = OwnerOf(t)'
                             /\ slot'[SlotOf(t)'].vhf = NoChild /\ pc'["pnp"] \notin Rest
                             /\ victim'[t] = ChildOf(SlotOf(t))' /\ ChildOf(SlotOf(t))' \in children'
                        /\ pc'[t] = "deleting" => victim'[t] \in deleting'
      BY DEF Destroying, TearingOk
    <3>1. ChildOf(SlotOf(t))' = ChildOf(SlotOf(t))
      BY <2>3, <2>4 DEF ChildOf
    <3> QED BY <1>1, <2>3, <2>4, <3>1 DEF Core, Destroying, TearingOk
  <2>9. SweepState'
    BY <1>1, <2>1, <2>2, <2>3 DEF Core, SweepState, teardown
  <2> QED BY <2>5, <2>6, <2>7, <2>8, <2>9 DEF Core
<1>6. Submissions'
  <2>1. \A x \in submits' :
          /\ x.child \in children /\ (x.by \in {"ioctl", "worker"} => x.child \notin deleting)
          /\ x.by = "ioctl" => pc["ioctl"] = "submitting" /\ x.child.slot = req.slot
          /\ x.by = "worker" => ~(pc["ioctl"] \in Creating /\ x.child.slot = req.slot)
    BY <1>1 DEF Submissions, NoUseAfterDelete, Core, Creator, Creating
  <2> QED BY <2>1 DEF Submissions, NoUseAfterDelete
<1> QED BY <1>2, <1>3, <1>4, <1>5, <1>6 DEF IInv

(* The facts about calls that the callbacks' steps need.                   *)
LEMMA CallFacts ==
  ASSUME IInv, NEW call \in calls
  PROVE  /\ call \in [child : Child, kind : {"ready", "write"},
                      step : {"entered", "published", "submitting"}]
         /\ call.child \in children /\ call.child.slot \in Slots
         /\ call.child = ChildOf(call.child.slot)
         /\ \A other \in calls : other.child = call.child /\ other.kind = call.kind => other = call
<1>1. TypeOK /\ Generations /\ Submissions
  BY DEF IInv, Core
<1>2. call.child \in children
  BY <1>1 DEF Generations
<1> QED BY <1>1, <1>2, OneChild DEF TypeOK, Submissions

(* A call that moves on, or returns.                                       *)
LEMMA CallMoves ==
  ASSUME IInv, NEW call \in calls, NEW step \in {"entered", "published", "submitting"},
         calls' = calls \ {call} \/ Move(call, step)
  PROVE  /\ calls' \in SUBSET [child : Child, kind : {"ready", "write"},
                               step : {"entered", "published", "submitting"}]
         /\ \A other \in calls' : other.child \in children
         /\ \A call1, call2 \in calls' :
              call1.child = call2.child /\ call1.kind = call2.kind => call1 = call2
         /\ \A other \in calls : other # call => other \in calls'
         /\ Move(call, step) =>
              \E other \in calls' : /\ other.child = call.child /\ other.kind = call.kind
                                    /\ other.step = step
<1> DEFINE moved == [call EXCEPT !.step = step]
           C == [child : Child, kind : {"ready", "write"},
                 step : {"entered", "published", "submitting"}]
<1>1. call \in C /\ calls \subseteq C /\ \A other \in calls : other.child \in children
  BY CallFacts DEF IInv, TypeOK, Core, Generations
<1>2. /\ moved \in C /\ moved.child = call.child /\ moved.kind = call.kind /\ moved.step = step
  BY <1>1
<1>3. calls' \subseteq (calls \ {call}) \cup {moved}
      /\ (Move(call, step) => moved \in calls') /\ \A other \in calls : other # call => other \in calls'
  BY DEF Move
<1> HIDE DEF moved, C
<1>4. calls' \subseteq C /\ \A other \in calls' : other.child \in children
  BY <1>1, <1>2, <1>3
<1>5. \A call1, call2 \in calls' :
        call1.child = call2.child /\ call1.kind = call2.kind => call1 = call2
  BY <1>2, <1>3, CallFacts
<1>6. Move(call, step) =>
        \E other \in calls' : other.child = call.child /\ other.kind = call.kind /\ other.step = step
  BY <1>2, <1>3
<1> QED BY <1>3, <1>4, <1>5, <1>6 DEF C

LEMMA CallbackEnterStep ==
  ASSUME IInv, NEW c \in started, NEW kind \in {"ready", "write"}, CallbackEnter(c, kind)
  PROVE  IInv'
<1> DEFINE new == [child |-> c, kind |-> kind, step |-> "entered"]
<1>1. /\ TypeOK /\ Generations /\ Submissions
      /\ \A call \in calls : ~(call.child = c /\ call.kind = kind)
      /\ calls' = calls \cup {new}
      /\ UNCHANGED <<slot, device, gate, pc, req, status, at, victim, teardown, children,
                     started, deleting, present, submits, worker, counts>>
  BY DEF IInv, Core, CallbackEnter
<1>2. c \in children /\ c \in Child
  BY <1>1 DEF Generations, TypeOK
<1>3. new.child = c /\ new.kind = kind
      /\ new \in [child : Child, kind : {"ready", "write"}, step : {"entered", "published", "submitting"}]
  BY <1>2
<1> HIDE DEF new
<1>4. calls' \in SUBSET [child : Child, kind : {"ready", "write"}, step : {"entered", "published", "submitting"}]
  BY <1>1, <1>3 DEF TypeOK
<1>5. \A call \in calls' : call.child \in children
  BY <1>1, <1>2, <1>3 DEF Generations
<1>6. \A call1, call2 \in calls' :
        call1.child = call2.child /\ call1.kind = call2.kind => call1 = call2
  BY <1>1, <1>3 DEF Submissions
<1>7. \A x \in submits : x.by \in {"ready", "write"} =>
        \E call \in calls' : call.child = x.child /\ call.kind = x.by /\ call.step = "submitting"
  BY <1>1 DEF Submissions
<1>8. submits' = submits /\ submits' \in SUBSET [by : {"ioctl", "worker", "ready", "write"}, child : Child]
  BY <1>1 DEF TypeOK
<1>9. /\ slot' \in [Slots -> ControllerSlot] /\ SameSlots
      /\ \A u \in Slots : slot'[u].in_flight = slot[u].in_flight
  BY <1>1, SlotsKept
<1>10. /\ \A u \in Slots : IsFiniteSet(SubmitsOf(u)') /\ slot'[u].in_flight = Cardinality(SubmitsOf(u)')
      /\ \A x \in submits' :
           /\ x \in submits
           /\ x.by \in {"ready", "write"} =>
                \E other \in calls' : other.child = x.child /\ other.kind = x.by /\ other.step = "submitting"
  BY <1>1, <1>7, <1>8, <1>9, CountedSame
<1> QED BY <1>1, <1>4, <1>5, <1>6, <1>8, <1>9, <1>10, CallbackStep DEF SameSlots

LEMMA WritePublishStep == ASSUME IInv, NEW call \in calls, WritePublish(call) PROVE IInv'
<1> DEFINE s == call.child.slot
<1>1. /\ TypeOK /\ Submissions /\ call.step = "entered"
      /\ UNCHANGED <<device, gate, pc, req, status, at, victim, teardown, children, started,
                     deleting, present, submits, worker, counts>>
  BY DEF IInv, WritePublish
<1>2. s \in Slots /\ call.child = ChildOf(s) /\ call.child \in children /\ call.child \in Child
  BY <1>1, CallFacts DEF TypeOK
<1>3. calls' = calls \ {call} \/ Move(call, "published")
  BY DEF WritePublish
<1>4. slot' = slot \/ slot' = [slot EXCEPT ![s] = [slot[s] EXCEPT !.feedback = call.child]]
  BY DEF WritePublish, SetSlot
<1>5. /\ slot' \in [Slots -> ControllerSlot]
      /\ \A u \in Slots :
           /\ slot'[u].in_flight = slot[u].in_flight
           /\ slot'[u].state = slot[u].state /\ slot'[u].owner = slot[u].owner
           /\ slot'[u].vhf = slot[u].vhf /\ slot'[u].generation = slot[u].generation
           /\ slot'[u].feedback \in {slot[u].feedback, NoChild, ChildOf(u)}
  <2>1. CASE slot' = slot
    BY <1>1, <2>1 DEF TypeOK
  <2>2. CASE slot' = [slot EXCEPT ![s] = [slot[s] EXCEPT !.feedback = call.child]]
    <3>1. slot \in [Slots -> ControllerSlot] /\ slot[s] \in ControllerSlot
      BY <1>1, <1>2 DEF TypeOK
    <3>2. [slot[s] EXCEPT !.feedback = call.child] \in ControllerSlot
      BY <1>2, <3>1 DEF ControllerSlot
    <3> QED BY <1>2, <2>2, <3>1, <3>2 DEF ControllerSlot
  <2> QED BY <1>4, <2>1, <2>2
<1>6. /\ calls' \in SUBSET [child : Child, kind : {"ready", "write"},
                            step : {"entered", "published", "submitting"}]
      /\ \A other \in calls' : other.child \in children
      /\ \A call1, call2 \in calls' :
           call1.child = call2.child /\ call1.kind = call2.kind => call1 = call2
      /\ \A other \in calls : other # call => other \in calls'
  BY <1>3, CallMoves
<1>7. \A x \in submits : x.by \in {"ready", "write"} =>
        \E other \in calls' : other.child = x.child /\ other.kind = x.by /\ other.step = "submitting"
  BY <1>1, <1>6 DEF Submissions
<1>8. submits' = submits /\ submits' \in SUBSET [by : {"ioctl", "worker", "ready", "write"}, child : Child]
  BY <1>1 DEF TypeOK
<1>9. /\ \A u \in Slots : IsFiniteSet(SubmitsOf(u)') /\ slot'[u].in_flight = Cardinality(SubmitsOf(u)')
      /\ \A x \in submits' :
           /\ x \in submits
           /\ x.by \in {"ready", "write"} =>
                \E other \in calls' : other.child = x.child /\ other.kind = x.by /\ other.step = "submitting"
  BY <1>1, <1>5, <1>7, <1>8, CountedSame
<1> QED BY <1>1, <1>5, <1>6, <1>8, <1>9, CallbackStep

LEMMA CallbackPumpStep == ASSUME IInv, NEW call \in calls, CallbackPump(call) PROVE IInv'
<1> DEFINE s == call.child.slot
           x == [by |-> call.kind, child |-> slot[s].vhf]
<1>1. /\ TypeOK /\ Core /\ Submissions /\ call.step \in {"entered", "published"}
      /\ UNCHANGED <<device, gate, pc, req, status, at, victim, teardown, children, started,
                     deleting, present, worker, counts>>
  BY DEF IInv, CallbackPump
<1>2. /\ s \in Slots /\ call.child = ChildOf(s) /\ call.child \in children /\ call.child \in Child
      /\ call.kind \in {"ready", "write"}
  BY <1>1, CallFacts DEF TypeOK
<1>3. CASE calls' = calls \ {call} /\ slot' = slot /\ submits' = submits
  <2>1. /\ calls' \in SUBSET [child : Child, kind : {"ready", "write"},
                              step : {"entered", "published", "submitting"}]
        /\ \A other \in calls' : other.child \in children
        /\ \A call1, call2 \in calls' :
             call1.child = call2.child /\ call1.kind = call2.kind => call1 = call2
        /\ \A other \in calls : other # call => other \in calls'
    BY <1>3, CallMoves
  <2>2. \A y \in submits : y.by \in {"ready", "write"} =>
          \E other \in calls' : other.child = y.child /\ other.kind = y.by /\ other.step = "submitting"
    BY <1>1, <2>1 DEF Submissions
  <2>3. submits' \in SUBSET [by : {"ioctl", "worker", "ready", "write"}, child : Child]
    BY <1>1, <1>3 DEF TypeOK
  <2>4. /\ slot' \in [Slots -> ControllerSlot] /\ SameSlots
        /\ \A u \in Slots : slot'[u].in_flight = slot[u].in_flight
    BY <1>1, <1>3, SlotsKept
  <2>5. /\ \A u \in Slots : IsFiniteSet(SubmitsOf(u)') /\ slot'[u].in_flight = Cardinality(SubmitsOf(u)')
        /\ \A y \in submits' :
             /\ y \in submits
             /\ y.by \in {"ready", "write"} =>
                  \E other \in calls' : other.child = y.child /\ other.kind = y.by /\ other.step = "submitting"
    BY <1>1, <1>3, <2>2, <2>4, CountedSame
  <2> QED BY <1>1, <1>3, <2>1, <2>3, <2>4, <2>5, CallbackStep DEF SameSlots
<1>4. CASE AcceptsVhfCallbacks(s) /\ Move(call, "submitting") /\ TakeFor(call.kind, s)
  <2>1. slot[s].vhf = ChildOf(s) /\ ChildOf(s) \in children \ deleting
    BY <1>2, <1>4, <1>1 DEF AcceptsVhfCallbacks, Core, Generations
  <2>2. x.by = call.kind /\ x.child = call.child
    BY <1>2, <2>1
  <2>3. submits' = submits \cup {x} /\ slot' = [slot EXCEPT ![s].in_flight = @ + 1]
    BY <1>4 DEF TakeFor
  <2>4. x \notin submits
    <3> SUFFICES ASSUME x \in submits PROVE FALSE
      OBVIOUS
    <3>1. PICK other \in calls : /\ other.child = call.child /\ other.kind = call.kind
                                 /\ other.step = "submitting"
      BY <1>1, <1>2, <2>2 DEF Submissions
    <3> QED BY <1>1, <3>1, CallFacts
  <2>5. x \in [by : {"ioctl", "worker", "ready", "write"}, child : Child]
    BY <1>2, <2>1
  <2> HIDE DEF x
  <2>6. /\ slot' \in [Slots -> ControllerSlot] /\ SameSlots
        /\ \A u \in Slots : IsFiniteSet(SubmitsOf(u)') /\ slot'[u].in_flight = Cardinality(SubmitsOf(u)')
    BY <1>1, <1>2, <2>2, <2>3, <2>4, Counted
  <2>7. /\ calls' \in SUBSET [child : Child, kind : {"ready", "write"},
                              step : {"entered", "published", "submitting"}]
        /\ \A other \in calls' : other.child \in children
        /\ \A call1, call2 \in calls' :
             call1.child = call2.child /\ call1.kind = call2.kind => call1 = call2
        /\ \A other \in calls : other # call => other \in calls'
        /\ \E other \in calls' : /\ other.child = call.child /\ other.kind = call.kind
                                 /\ other.step = "submitting"
    BY <1>4, CallMoves
  <2>8. \A y \in submits' :
          /\ y \in submits \/ /\ y.child \in children \ deleting /\ y.by # "ioctl"
                              /\ y.by = "worker" => slot[y.child.slot].state = "active"
          /\ y.by \in {"ready", "write"} =>
               \E other \in calls' : other.child = y.child /\ other.kind = y.by /\ other.step = "submitting"
    <3> TAKE y \in submits'
    <3>1. CASE y = x
      BY <1>2, <2>1, <2>2, <2>7, <3>1
    <3>2. CASE y \in submits
      BY <1>1, <2>7, <3>2 DEF Submissions
    <3> QED BY <2>3, <3>1, <3>2
  <2>9. submits' \in SUBSET [by : {"ioctl", "worker", "ready", "write"}, child : Child]
    BY <1>1, <2>3, <2>5 DEF TypeOK
  <2> QED BY <1>1, <2>6, <2>7, <2>8, <2>9, CallbackStep DEF SameSlots
<1> QED BY <1>3, <1>4 DEF CallbackPump

LEMMA CallbackEndStep == ASSUME IInv, NEW call \in calls, CallbackEnd(call) PROVE IInv'
<1>1. /\ TypeOK /\ Core /\ Submissions /\ calls' = calls \ {call}
      /\ UNCHANGED <<device, gate, pc, req, status, at, victim, teardown, children, started,
                     deleting, present, worker, counts>>
  BY DEF IInv, CallbackEnd
<1>2. PICK x \in submits : x.by = call.kind /\ x.child.slot = call.child.slot /\ Submitted(x)
  BY DEF CallbackEnd
<1>3. x.child = call.child
  <2>1. x.child \in children /\ call.child \in children
    BY <1>1, CallFacts DEF Submissions
  <2> QED BY <1>1, <1>2, <2>1, OneChild DEF Core
<1>4. /\ slot' \in [Slots -> ControllerSlot] /\ SameSlots
      /\ \A u \in Slots : IsFiniteSet(SubmitsOf(u)') /\ slot'[u].in_flight = Cardinality(SubmitsOf(u)')
  BY <1>1, <1>2, Uncounted
<1>5. submits' = submits \ {x}
  BY <1>2 DEF Submitted
<1>6. /\ calls' \in SUBSET [child : Child, kind : {"ready", "write"},
                            step : {"entered", "published", "submitting"}]
      /\ \A other \in calls' : other.child \in children
      /\ \A call1, call2 \in calls' :
           call1.child = call2.child /\ call1.kind = call2.kind => call1 = call2
      /\ \A other \in calls : other # call => other \in calls'
  BY <1>1, CallMoves
<1>7. \A y \in submits' : y.by \in {"ready", "write"} =>
        \E other \in calls' : other.child = y.child /\ other.kind = y.by /\ other.step = "submitting"
  <2> SUFFICES ASSUME NEW y \in submits, y # x, y.by \in {"ready", "write"}
               PROVE  \E other \in calls' : other.child = y.child /\ other.kind = y.by /\ other.step = "submitting"
    BY <1>5
  <2>1. PICK other \in calls : other.child = y.child /\ other.kind = y.by /\ other.step = "submitting"
    BY <1>1 DEF Submissions
  <2>2. other # call
    BY <1>1, <1>2, <1>3, <2>1, SubmitRecord
  <2> QED BY <1>6, <2>1, <2>2
<1>8. submits' \in SUBSET [by : {"ioctl", "worker", "ready", "write"}, child : Child]
  BY <1>1, <1>5 DEF TypeOK
<1> QED BY <1>1, <1>4, <1>5, <1>6, <1>7, <1>8, CallbackStep DEF SameSlots

LEMMA KeepaliveTickStep == ASSUME IInv, NEW S \in SUBSET Slots, KeepaliveTick(S) PROVE IInv'
<1> DEFINE x(s) == [by |-> "worker", child |-> slot[s].vhf]
<1>1. /\ TypeOK /\ Core /\ Submissions /\ WorkerIdle
      /\ \A s \in S : AcceptsVhfCallbacks(s) /\ slot[s].state = "active"
      /\ UNCHANGED <<device, gate, pc, req, status, at, victim, teardown, vhf, worker, counts>>
  BY DEF IInv, KeepaliveTick
<1>2. /\ submits' = submits \cup {x(s) : s \in S}
      /\ slot' = [s \in Slots |-> IF s \in S THEN [slot[s] EXCEPT !.in_flight = @ + 1] ELSE slot[s]]
  BY DEF KeepaliveTick
<1>3. \A s \in S : /\ slot[s].vhf = ChildOf(s) /\ ChildOf(s) \in children \ deleting
                   /\ ChildOf(s).slot = s /\ ChildOf(s) \in Child
  BY <1>1, SlotFields DEF AcceptsVhfCallbacks, Core, Generations
<1>4. \A s \in S : /\ x(s).by = "worker" /\ x(s).child = ChildOf(s) /\ x(s) \notin submits
                   /\ x(s) \in [by : {"ioctl", "worker", "ready", "write"}, child : Child]
  BY <1>1, <1>3 DEF WorkerIdle
<1> HIDE DEF x
<1>5. ASSUME NEW s \in Slots
      PROVE  /\ slot'[s] \in ControllerSlot
             /\ slot'[s].state = slot[s].state /\ slot'[s].owner = slot[s].owner
             /\ slot'[s].vhf = slot[s].vhf /\ slot'[s].generation = slot[s].generation
             /\ slot'[s].feedback = slot[s].feedback
             /\ slot'[s].in_flight = IF s \in S THEN slot[s].in_flight + 1 ELSE slot[s].in_flight
  <2>1. slot[s] \in ControllerSlot /\ slot[s].in_flight \in Nat
    BY <1>1, SlotFields
  <2>2. slot'[s] = IF s \in S THEN [slot[s] EXCEPT !.in_flight = slot[s].in_flight + 1] ELSE slot[s]
    BY <1>2
  <2> QED BY <2>1, <2>2 DEF ControllerSlot
<1>6. slot' \in [Slots -> ControllerSlot]
  BY <1>2, <1>5
<1>7. ASSUME NEW s \in Slots
      PROVE  IsFiniteSet(SubmitsOf(s)') /\ slot'[s].in_flight = Cardinality(SubmitsOf(s)')
  <2>1. IsFiniteSet(SubmitsOf(s)) /\ slot[s].in_flight = Cardinality(SubmitsOf(s))
    BY <1>1 DEF Submissions
  <2>2. CASE s \in S
    <3>1. SubmitsOf(s)' = SubmitsOf(s) \cup {x(s)} /\ x(s) \notin SubmitsOf(s)
      BY <1>2, <1>3, <1>4, <2>2 DEF SubmitsOf
    <3> QED BY <1>5, <2>1, <2>2, <3>1, FS_AddElement
  <2>3. CASE s \notin S
    <3>1. SubmitsOf(s)' = SubmitsOf(s)
      BY <1>2, <1>3, <1>4, <2>3 DEF SubmitsOf
    <3> QED BY <1>5, <2>1, <2>3, <3>1
  <2> QED BY <2>2, <2>3
<1>8. submits' \in SUBSET [by : {"ioctl", "worker", "ready", "write"}, child : Child]
  BY <1>1, <1>2, <1>4 DEF TypeOK
<1>9. /\ calls' = calls /\ calls \in SUBSET [child : Child, kind : {"ready", "write"},
                                             step : {"entered", "published", "submitting"}]
      /\ \A call \in calls' : call.child \in children
      /\ \A call1, call2 \in calls' :
           call1.child = call2.child /\ call1.kind = call2.kind => call1 = call2
      /\ UNCHANGED <<device, gate, pc, req, status, at, victim, teardown, children, started,
                     deleting, present, worker, counts>>
  BY <1>1 DEF vhf, TypeOK, Core, Generations, Submissions
<1>10. \A y \in submits' :
         /\ y \in submits \/ /\ y.child \in children \ deleting /\ y.by # "ioctl"
                             /\ y.by = "worker" => slot[y.child.slot].state = "active"
         /\ y.by \in {"ready", "write"} =>
              \E other \in calls' : other.child = y.child /\ other.kind = y.by /\ other.step = "submitting"
  BY <1>1, <1>2, <1>3, <1>4, <1>9 DEF Submissions
<1> QED BY <1>5, <1>6, <1>7, <1>8, <1>9, <1>10, CallbackStep

LEMMA KeepaliveSubmittedStep ==
  ASSUME IInv, NEW x \in submits, KeepaliveSubmitted(x)
  PROVE  IInv'
<1>1. /\ TypeOK /\ Core /\ Submissions /\ Submitted(x) /\ submits' = submits \ {x}
      /\ UNCHANGED <<device, gate, pc, req, status, at, victim, teardown, vhf, worker, counts>>
  BY DEF IInv, KeepaliveSubmitted, Submitted
<1>2. /\ slot' \in [Slots -> ControllerSlot] /\ SameSlots
      /\ \A u \in Slots : IsFiniteSet(SubmitsOf(u)') /\ slot'[u].in_flight = Cardinality(SubmitsOf(u)')
  BY <1>1, Uncounted
<1>3. /\ calls' = calls /\ calls \in SUBSET [child : Child, kind : {"ready", "write"},
                                             step : {"entered", "published", "submitting"}]
      /\ \A call \in calls' : call.child \in children
      /\ \A call1, call2 \in calls' :
           call1.child = call2.child /\ call1.kind = call2.kind => call1 = call2
      /\ UNCHANGED <<device, gate, pc, req, status, at, victim, teardown, children, started,
                     deleting, present, worker, counts>>
  BY <1>1 DEF vhf, TypeOK, Core, Generations, Submissions
<1>4. submits' \in SUBSET [by : {"ioctl", "worker", "ready", "write"}, child : Child]
  BY <1>1 DEF TypeOK
<1>5. \A y \in submits' : y.by \in {"ready", "write"} =>
        \E other \in calls' : other.child = y.child /\ other.kind = y.by /\ other.step = "submitting"
  BY <1>1, <1>3 DEF Submissions
<1> QED BY <1>1, <1>2, <1>3, <1>4, <1>5, CallbackStep DEF SameSlots
-----------------------------------------------------------------------------
(* The gate's holder is alone inside.                                      *)
LEMMA Alone ==
  ASSUME TypeOK, Control, NEW t \in Threads, gate \in {Free, t}
  PROVE  \A u \in Threads : u # t => pc[u] \notin Inside /\ pc[u] \notin Creating
                                     /\ pc[u] \notin Tearing /\ pc[u] \notin Sweeping
BY ThreadFacts DEF Control, Inside

(* So every other slot is settled.                                         *)
LEMMA SettledOthers ==
  ASSUME IInv, NEW t \in Destroyers, gate \in {Free, t}
  PROVE  /\ handles = {} /\ retired = {} /\ pc["pnp"] \notin Sweeping
         /\ \A u \in Slots : \/ slot[u].state \in {"empty", "lost", "active"}
                             \/ u = SlotOf(t) /\ pc[t] \in Creating \cup Tearing
<1>1. TypeOK /\ Control /\ SlotStates /\ SweepState /\ t \in Threads /\ t # "pnp"
  BY ThreadFacts DEF IInv, Core
<1>2. \A u \in Threads : u # t => pc[u] \notin Creating /\ pc[u] \notin Tearing /\ pc[u] \notin Sweeping
  BY <1>1, Alone
<1>3. pc["pnp"] \notin Sweeping /\ handles = {} /\ retired = {}
  BY <1>1, <1>2, ThreadFacts DEF SweepState, Sweeping
<1>4. ASSUME NEW u \in Slots, slot[u].state \notin {"empty", "lost", "active"}
      PROVE  u = SlotOf(t) /\ pc[t] \in Creating \cup Tearing
  <2>1. slot[u].state \in {"starting", "stopping"}
    BY <1>1, <1>4, SlotFields DEF States
  <2>2. CASE slot[u].state = "starting"
    <3>1. pc["ioctl"] \in Creating /\ req.slot = u
      BY <1>1, <2>2 DEF SlotStates, SlotOk
    <3> QED BY <1>2, <3>1, ThreadFacts DEF SlotOf
  <2>3. CASE slot[u].state = "stopping"
    <3>1. Stopper(u)
      BY <1>1, <2>3 DEF SlotStates, SlotOk
    <3>2. CASE pc["ioctl"] = "undo" /\ req.slot = u
      BY <1>2, <3>2, ThreadFacts DEF SlotOf, Creating
    <3>3. CASE \E w \in Destroyers : pc[w] \in Tearing /\ SlotOf(w) = u
      BY <1>2, <3>3, ThreadFacts
    <3> QED BY <1>3, <3>1, <3>2, <3>3 DEF Stopper, Sweeping
  <2> QED BY <2>1, <2>2, <2>3
<1> QED BY <1>3, <1>4

(* A step of thread t on the slot it works on, inside the gate or taking   *)
(* it: only what the invariant says of that slot has to be shown again.    *)
LEMMA ClaimStep ==
  ASSUME IInv, TypeOK', NEW t \in Destroyers, gate \in {Free, t},
         NEW s \in Slots, s = SlotOf(t), t # "ioctl" => req' = req /\ present' = present,
         \A u \in Threads : u # t => pc'[u] = pc[u],
         \A u \in Slots : u # s => slot'[u] = slot[u],
         handles' = handles, retired' = retired, calls' = calls,
         \A c \in Child : c.slot # s => /\ c \in children' <=> c \in children
                                        /\ c \in deleting' <=> c \in deleting,
         \A c \in children' : c.slot = s => c.gen = slot'[s].generation,
         slot'[s].vhf \in {NoChild, ChildOf(s)'}, slot'[s].feedback \in {NoChild, ChildOf(s)'},
         slot'[s].vhf # NoChild => slot'[s].vhf \in children' \ deleting',
         started' \subseteq children', deleting' \subseteq children',
         \A call \in calls : call.child \in children',
         SlotOk(s)', t = "ioctl" => Creator', TearingOk(t)'
  PROVE  Core'
<1>1. TypeOK /\ Control /\ Core /\ t \in Threads /\ t # "pnp"
  BY ThreadFacts DEF IInv
<1>2. /\ handles = {} /\ retired = {} /\ pc["pnp"] \notin Sweeping
      /\ \A u \in Slots : u # s => slot[u].state \in {"empty", "lost", "active"}
  BY SettledOthers
<1>3. \A u \in Threads : u # t => pc'[u] \notin Creating /\ pc'[u] \notin Tearing
  BY <1>1, Alone
<1>4. pc'["pnp"] = pc["pnp"]
  BY <1>1, ThreadFacts
<1>5. \A c \in Child : c.slot \in Slots
  BY DEF Child
<1>6. children \subseteq Child /\ children' \subseteq Child /\ deleting \subseteq Child
      /\ deleting' \subseteq Child
  BY <1>1 DEF TypeOK
<1>7. \A u \in Slots : u # s => ChildOf(u)' = ChildOf(u) /\ ChildOf(u) \in Child /\ ChildOf(u).slot = u
  BY <1>1, SlotFields DEF ChildOf
<1>8. \A u \in Slots : u # s => (Bare(u) => Bare(u)')
  BY <1>6 DEF Bare
<1>9. Generations'
  <2>1. \A c \in children' : c.gen = slot'[c.slot].generation
    BY <1>1, <1>5, <1>6 DEF Core, Generations
  <2>2. \A u \in Slots : /\ slot'[u].vhf \in {NoChild, ChildOf(u)'}
                         /\ slot'[u].feedback \in {NoChild, ChildOf(u)'}
                         /\ slot'[u].vhf # NoChild => slot'[u].vhf \in children' \ deleting'
    <3> TAKE u \in Slots
    <3>1. CASE u = s
      BY <3>1
    <3>2. CASE u # s
      BY <1>1, <1>6, <1>7, <3>2 DEF Core, Generations
    <3> QED BY <3>1, <3>2
  <2> QED BY <2>1, <2>2 DEF Generations
<1>10. SlotStates'
  <2> SUFFICES ASSUME NEW u \in Slots, u # s PROVE SlotOk(u)'
    BY DEF SlotStates
  <2>1. SlotOk(u) /\ slot'[u] = slot[u] /\ slot[u].state \in {"empty", "lost", "active"}
    BY <1>1, <1>2 DEF Core, SlotStates
  <2> QED BY <1>4, <1>8, <2>1 DEF SlotOk
<1>11. Creator'
  <2>1. CASE t # "ioctl"
    BY <1>1, <1>3, <2>1, ThreadFacts DEF Core, Creator, Creating
  <2> QED BY <2>1
<1>12. Destroying'
  <2> SUFFICES ASSUME NEW u \in Destroyers, u # t PROVE TearingOk(u)'
    BY DEF Destroying
  <2>1. pc'[u] \notin Tearing /\ pc'[u] # "deleting"
    BY <1>3, ThreadFacts DEF Tearing
  <2> QED BY <2>1 DEF TearingOk
<1>13. SweepState'
  BY <1>2, <1>4 DEF SweepState, Sweeping
<1> QED BY <1>9, <1>10, <1>11, <1>12, <1>13 DEF Core

LEMMA ResetFields ==
  ASSUME NEW r \in ControllerSlot
  PROVE  /\ ResetSlot(r) \in ControllerSlot
         /\ ResetSlot(r).state = "empty" /\ ResetSlot(r).owner = NoFile
         /\ ResetSlot(r).vhf = NoChild /\ ResetSlot(r).feedback = NoChild
         /\ ResetSlot(r).generation = r.generation + 1 /\ ResetSlot(r).in_flight = 0
<1>1. r.generation + 1 \in Nat
  BY DEF ControllerSlot
<1> QED BY <1>1 DEF ControllerSlot, ResetSlot, States

(* One slot is written.                                                    *)
LEMMA SetFacts ==
  ASSUME TypeOK, NEW s \in Slots, NEW r \in ControllerSlot, SetSlot(s, r)
  PROVE  /\ slot' \in [Slots -> ControllerSlot] /\ slot'[s] = r
         /\ \A u \in Slots : u # s => slot'[u] = slot[u]
         /\ ChildOf(s)' = [slot |-> s, gen |-> r.generation]
BY DEF TypeOK, SetSlot, ChildOf

(* A slot without a child has no submissions.                              *)
LEMMA BareIdle ==
  ASSUME TypeOK, Submissions, NEW s \in Slots, Bare(s)
  PROVE  /\ SubmitsOf(s) = {} /\ (\A x \in submits : x.child.slot # s)
BY DEF SubmitsOf, Submissions, Bare

-----------------------------------------------------------------------------
(* create_controller claims a slot.                                        *)
LEMMA CreateClaimStep ==
  ASSUME IInv, CreateAdmit, gate' = "ioctl"
  PROVE  IInv'
<1>0. PICK s \in Slots, f \in Files : s = req.slot /\ f = req.file
  BY DEF IInv, TypeOK, Control, CreateAdmit
<1> DEFINE r == [ResetSlot(slot[s]) EXCEPT !.state = "starting", !.owner = f]
<1>1. /\ TypeOK /\ Control /\ Passed /\ Core /\ Submissions /\ pc["ioctl"] = "admit" /\ gate = Free
      /\ pc[f] = "idle"
  BY <1>0 DEF IInv, CreateAdmit, Control
<1>2. /\ powered /\ Available(s, f) /\ ~req.present
      /\ SetSlot(s, r) /\ creates' = creates + 1 /\ GoTo("ioctl", "open") /\ status' = status
      /\ UNCHANGED <<device, req, at, victim, teardown, vhf, submits, worker, powerups>>
  BY <1>0, <1>1, ThreadFacts DEF CreateAdmit
<1>3. slot[s].state \in {"empty", "lost"} /\ slot[s].vhf = NoChild /\ Bare(s)
  BY <1>1, <1>2 DEF Available, Core, SlotStates, SlotOk
<1>4. /\ r \in ControllerSlot /\ r.state = "starting" /\ r.owner = f /\ r.vhf = NoChild
      /\ r.feedback = NoChild /\ r.in_flight = 0
  <2> DEFINE q == ResetSlot(slot[s])
             q1 == [q EXCEPT !.state = "starting"]
  <2>1. q \in ControllerSlot /\ q.vhf = NoChild /\ q.feedback = NoChild /\ q.in_flight = 0
    BY <1>1, SlotFields, ResetFields
  <2>2. r = [q1 EXCEPT !.owner = f]
    BY <2>1 DEF ControllerSlot
  <2> HIDE DEF q
  <2>3. q1 \in ControllerSlot /\ q1.state = "starting" /\ q1.vhf = NoChild
        /\ q1.feedback = NoChild /\ q1.in_flight = 0
    BY <2>1 DEF ControllerSlot, States
  <2> HIDE DEF q1
  <2> QED BY <1>1, <2>2, <2>3 DEF ControllerSlot
<1> HIDE DEF r
<1>5. /\ slot' \in [Slots -> ControllerSlot] /\ slot'[s] = r
      /\ \A u \in Slots : u # s => slot'[u] = slot[u]
  BY <1>1, <1>2, <1>4, SetFacts
<1>6. "open" \in Labels /\ "open" \in IoctlLabels /\ "open" \in Inside
  BY DEF Labels, IoctlLabels, Inside, Creating
<1>7. /\ Control' /\ pc' \in [Threads -> Labels] /\ pc'["ioctl"] = "open"
      /\ \A u \in Threads : u # "ioctl" => pc'[u] = pc[u]
  BY <1>1, <1>2, <1>6, ThreadFacts, ControlMove DEF device
<1>8. TypeOK'
  <2>1. gate' \in Threads \cup {Free} /\ creates' \in Nat
    BY <1>1, <1>2, ThreadFacts DEF TypeOK
  <2> QED BY <1>1, <1>2, <1>5, <1>7, <2>1 DEF TypeOK, device, teardown, vhf, counts
<1>9. Passed'
  <2>0. \A u \in Files : pc'[u] = pc[u]
    BY <1>7, ThreadFacts
  <2>1. at[f] = 0 /\ pc[f] # "closed"
    BY <1>1 DEF Passed
  <2>2. ~(s < 0)
    BY <1>1 DEF Slots
  <2> QED BY <1>1, <1>2, <1>4, <1>5, <2>0, <2>1, <2>2 DEF Passed
<1>10. Core'
  <2>1. Bare(s)' /\ ~(s \in present')
    BY <1>0, <1>1, <1>2, <1>3 DEF Bare, vhf, Core, Creator
  <2>2. SlotOk(s)'
    BY <1>0, <1>2, <1>4, <1>5, <1>7 DEF SlotOk, Creating
  <2>3. Creator'
    <3>1. pc'["pnp"] = "working"
      BY <1>1, <1>2, <1>7, ThreadFacts DEF Control
    <3> QED BY <1>0, <1>2, <1>4, <1>5, <1>7, <2>1, <3>1 DEF Creator, Creating, Rest, Bare
  <2>4. TearingOk("ioctl")'
    BY <1>7 DEF TearingOk, Tearing
  <2>5. s = SlotOf("ioctl")
    BY <1>0 DEF SlotOf
  <2>6. children' = children /\ deleting' = deleting /\ started' = started /\ calls' = calls
        /\ handles' = handles /\ retired' = retired
    BY <1>2 DEF vhf, teardown
  <2>7. \A c \in children : c.slot # s
    BY <1>3 DEF Bare
  <2>8. /\ started \subseteq children /\ deleting \subseteq children
        /\ \A call \in calls : call.child \in children
    BY <1>1 DEF Core, Generations
  <2>9. /\ slot'[s].vhf = NoChild /\ slot'[s].feedback = NoChild
    BY <1>4, <1>5
  <2> QED BY <1>1, <1>5, <1>7, <1>8, <2>2, <2>3, <2>4, <2>5, <2>6, <2>7, <2>8, <2>9,
             ThreadFacts, ClaimStep
<1>11. Submissions'
  <2>1. SubmitsOf(s) = {} /\ \A x \in submits : x.child.slot # s
    BY <1>1, <1>3, BareIdle
  <2>2. \A u \in Slots : \/ slot'[u].in_flight = slot[u].in_flight
                         \/ slot'[u].in_flight = 0 /\ SubmitsOf(u) = {}
    <3> TAKE u \in Slots
    <3>1. CASE u = s
      BY <1>4, <1>5, <2>1, <3>1
    <3>2. CASE u # s
      BY <1>5, <3>2
    <3> QED BY <3>1, <3>2
  <2>3. \A x \in submits :
          /\ x.child \in children' /\ (x.by \in {"ioctl", "worker"} => x.child \notin deleting')
          /\ x.by # "ioctl" /\ x.child.slot # req'.slot
    BY <1>0, <1>1, <1>2, <2>1 DEF Submissions, NoUseAfterDelete, vhf
  <2> QED BY <1>1, <1>2, <2>2, <2>3, SubmissionsKept DEF vhf
<1> QED BY <1>7, <1>8, <1>9, <1>10, <1>11 DEF IInv

LEMMA CreateOpenStep ==
  ASSUME IInv, CreateOpen, GoTo("ioctl", "create")
  PROVE  IInv'
<1>1. /\ TypeOK /\ Control /\ Passed /\ Core /\ Submissions /\ pc["ioctl"] = "open"
      /\ UNCHANGED <<powered, stopping, req, at, victim, teardown, vhf, submits, worker, counts>>
  BY DEF IInv, CreateOpen
<1>2. "create" \in Labels /\ "create" \in IoctlLabels /\ "create" \in Inside /\ "open" \in Inside
      /\ "create" # "idle"
  BY DEF Labels, IoctlLabels, Inside, Creating
<1>3. pc' = [pc EXCEPT !["ioctl"] = "create"]
  BY DEF GoTo
<1>4. pc'["ioctl"] = "create"
  BY <1>1, <1>3, ThreadFacts DEF TypeOK
<1>5. /\ slot' = slot /\ gate' = gate /\ status' = status
      /\ target' \in [exists : BOOLEAN, open : BOOLEAN, handle : BOOLEAN]
  <2>1. ~Complete("NOT_READY")
    BY <1>1, <1>4, ThreadFacts DEF Complete, GoTo, TypeOK
  <2> QED BY <1>1, <2>1 DEF CreateOpen, ReleaseStarting, TypeOK
<1>6. /\ Control' /\ pc' \in [Threads -> Labels]
      /\ \A u \in Threads : u # "ioctl" => pc'[u] = pc[u]
  <2>1. /\ TypeOK /\ Control /\ gate' = gate /\ gate = "ioctl"
        /\ req'.file = req.file /\ (powered' => powered)
    BY <1>1, <1>2, <1>5, ThreadFacts DEF Control
  <2>2. pc["ioctl"] # "idle" /\ "create" \in Labels /\ "create" \in IoctlLabels /\ "create" \in Inside
    BY <1>1, <1>2
  <2> QED BY <2>1, <2>2, ThreadFacts, ControlMove
<1>7. TypeOK'
  BY <1>1, <1>5, <1>6 DEF TypeOK, teardown, vhf, counts
<1>8. Passed'
  BY <1>1, <1>5, <1>6, ThreadFacts, PassedKept
<1>9. gate = "ioctl" /\ req.slot \in Slots
  BY <1>1, <1>2, ThreadFacts DEF Control, TypeOK
<1>10. Core'
  <2>0. PICK s \in Slots : s = req.slot
    BY <1>9
  <2>1. SlotOk(s)'
    BY <2>0, <1>1, <1>4, <1>5, <1>6, ThreadFacts DEF SlotOk, Core, Creator, Creating
  <2>2. Creator'
    BY <1>1, <1>4, <1>5, <1>6, ThreadFacts DEF Core, Creator, Creating, Bare, vhf, ChildOf
  <2>3. TearingOk("ioctl")'
    BY <1>4 DEF TearingOk, Tearing
  <2>4. s = SlotOf("ioctl") /\ ChildOf(s)' = ChildOf(s)
    BY <2>0, <1>1, <1>5 DEF SlotOf, ChildOf
  <2>5. children' = children /\ deleting' = deleting /\ started' = started /\ calls' = calls
        /\ handles' = handles /\ retired' = retired
    BY <1>1 DEF vhf, teardown
  <2>6. Generations
    BY <1>1 DEF Core
  <2> QED BY <1>1, <1>5, <1>6, <1>7, <1>9, <2>1, <2>2, <2>3, <2>4, <2>5, <2>6,
             ThreadFacts, ClaimStep DEF Generations
<1>11. Submissions'
  <2>1. \A x \in submits :
          /\ x.child \in children' /\ (x.by \in {"ioctl", "worker"} => x.child \notin deleting')
          /\ x.by # "ioctl" /\ (x.by = "worker" => x.child.slot # req'.slot)
    BY <1>1 DEF Submissions, NoUseAfterDelete, vhf, Creating
  <2> QED BY <1>1, <1>5, <2>1, SubmissionsKept DEF vhf
<1> QED BY <1>6, <1>7, <1>8, <1>10, <1>11 DEF IInv

(* create_controller gives the slot back, after the child if it had one.   *)
LEMMA ReleaseStep ==
  ASSUME IInv, pc["ioctl"] \in {"open", "create", "undo"}, NEW st \in Statuses,
         ReleaseStarting(st), NEW c, c = ChildOf(req.slot),
         children' = children \ {c}, started' = started \ {c}, deleting' = deleting \ {c},
         \A call \in calls : call.child # c, \A x \in submits : x.child # c,
         victim' \in [Threads -> Child \cup {NoChild}],
         UNCHANGED <<powered, stopping, req, at, teardown, present, calls, submits, worker, counts>>,
         target' \in [exists : BOOLEAN, open : BOOLEAN, handle : BOOLEAN]
  PROVE  IInv'
<1>0. PICK s \in Slots : s = req.slot
  BY DEF IInv, TypeOK
<1>1. /\ TypeOK /\ Control /\ Passed /\ Core /\ Submissions
      /\ GoTo("ioctl", "idle") /\ status' = st /\ gate' = Free
  BY DEF IInv, TypeOK, ReleaseStarting, Complete
<1>2. SetSlot(s, ResetSlot(slot[s]))
  BY <1>0, <1>1 DEF ReleaseStarting, Core, Creator, Creating
<1>3. /\ slot[s] \in ControllerSlot /\ ResetSlot(slot[s]) \in ControllerSlot
      /\ ResetSlot(slot[s]).state = "empty" /\ ResetSlot(slot[s]).owner = NoFile
      /\ ResetSlot(slot[s]).vhf = NoChild /\ ResetSlot(slot[s]).feedback = NoChild
      /\ ResetSlot(slot[s]).in_flight = 0
  BY <1>1, SlotFields, ResetFields
<1>4. /\ slot' \in [Slots -> ControllerSlot] /\ slot'[s] = ResetSlot(slot[s])
      /\ \A u \in Slots : u # s => slot'[u] = slot[u]
  BY <1>1, <1>2, <1>3, SetFacts
<1>5. "idle" \in Labels /\ "idle" \in IoctlLabels /\ "idle" \notin Inside
  BY DEF Labels, IoctlLabels, Inside, Creating, Tearing, Sweeping
<1>6. gate = "ioctl"
  BY <1>1, ThreadFacts DEF Control, Inside, Creating
<1>7. /\ Control' /\ pc' \in [Threads -> Labels] /\ pc'["ioctl"] = "idle"
      /\ \A u \in Threads : u # "ioctl" => pc'[u] = pc[u]
  BY <1>1, <1>5, <1>6, ThreadFacts, ControlMove
<1>8. TypeOK'
  BY <1>1, <1>4, <1>7 DEF TypeOK, teardown, counts
<1>9. Passed'
  BY <1>1, <1>3, <1>4, <1>7, ThreadFacts, PassedKept
<1>10. c \in Child /\ c.slot = s
  BY <1>0, <1>1, SlotFields
<1>11. \A d \in children' : d.slot # s
  BY <1>0, <1>1, OneChild DEF Core
<1>12. Core'
  <2>1. SlotOk(s)'
    BY <1>3, <1>4, <1>11 DEF SlotOk, Bare
  <2>2. Creator'
    BY <1>7 DEF Creator, Creating
  <2>3. TearingOk("ioctl")'
    BY <1>7 DEF TearingOk, Tearing
  <2>4. s = SlotOf("ioctl")
    BY <1>0 DEF SlotOf
  <2>5. /\ started' \subseteq children' /\ deleting' \subseteq children'
        /\ \A call \in calls : call.child \in children'
    BY <1>1 DEF Core, Generations
  <2>6. /\ slot'[s].vhf = NoChild /\ slot'[s].feedback = NoChild
    BY <1>3, <1>4
  <2>7. handles' = handles /\ retired' = retired
    BY DEF teardown
  <2> QED BY <1>4, <1>6, <1>7, <1>8, <1>10, <1>11, <2>1, <2>2, <2>3, <2>4, <2>5, <2>6, <2>7,
             ThreadFacts, ClaimStep
<1>13. Submissions'
  <2>1. \A x \in submits : x.child \in children'
    BY <1>1 DEF Submissions
  <2>2. SubmitsOf(s) = {}
    BY <1>11, <2>1 DEF SubmitsOf
  <2>3. \A u \in Slots : \/ slot'[u].in_flight = slot[u].in_flight
                         \/ slot'[u].in_flight = 0 /\ SubmitsOf(u) = {}
    <3> TAKE u \in Slots
    <3>1. CASE u = s
      BY <1>3, <1>4, <2>2, <3>1
    <3>2. CASE u # s
      BY <1>4, <3>2
    <3> QED BY <3>1, <3>2
  <2>4. \A x \in submits :
          /\ x.by \in {"ioctl", "worker"} => x.child \notin deleting' 
          /\ x.by # "ioctl" /\ pc'["ioctl"] \notin Creating
    BY <1>1, <1>7 DEF Submissions, NoUseAfterDelete, Creating
  <2> QED BY <1>1, <2>1, <2>3, <2>4, SubmissionsKept
<1> QED BY <1>7, <1>8, <1>9, <1>12, <1>13 DEF IInv

(* create_controller fails before it has a child.                          *)
LEMMA CreateFailStep ==
  ASSUME IInv, pc["ioctl"] \in {"open", "create"}, NEW st \in Statuses, ReleaseStarting(st),
         UNCHANGED <<device, req, at, victim, teardown, vhf, submits, worker, counts>>
  PROVE  IInv'
<1>0. PICK s \in Slots : s = req.slot
  BY DEF IInv, TypeOK
<1>1. PICK c : c = ChildOf(req.slot)
  OBVIOUS
<1>2. /\ TypeOK /\ Generations /\ Submissions /\ Bare(s)
  BY <1>0 DEF IInv, Core, Creator
<1>3. c \notin children
  BY <1>0, <1>1, <1>2, SlotFields DEF Bare
<1>4. /\ children' = children /\ started' = started /\ deleting' = deleting
      /\ victim' \in [Threads -> Child \cup {NoChild}]
      /\ target' \in [exists : BOOLEAN, open : BOOLEAN, handle : BOOLEAN]
      /\ UNCHANGED <<powered, stopping, req, at, teardown, present, calls, submits, worker, counts>>
  BY <1>2 DEF TypeOK, vhf, device
<1>5. /\ started \subseteq children /\ deleting \subseteq children
      /\ \A call \in calls : call.child \in children
  BY <1>2 DEF Generations
<1>6. /\ children' = children \ {c} /\ started' = started \ {c} /\ deleting' = deleting \ {c}
  BY <1>3, <1>4, <1>5
<1>7. (\A call \in calls : call.child # c) /\ (\A x \in submits : x.child # c)
  BY <1>2, <1>3, <1>5 DEF Submissions
<1> QED BY <1>1, <1>4, <1>6, <1>7, ReleaseStep

(* create_controller goes on inside the gate.                              *)
LEMMA CreatingStep ==
  ASSUME IInv, NEW s \in Slots, s = req.slot, pc["ioctl"] \in Creating,
         NEW l \in Creating, GoTo("ioctl", l), NEW r \in ControllerSlot, SetSlot(s, r),
         r.owner = slot[s].owner, r.in_flight = slot[s].in_flight,
         r.generation = slot[s].generation,
         UNCHANGED <<device, gate, req, at, teardown, calls, submits, worker, counts>>,
         status' \in Statuses, victim' \in [Threads -> Child \cup {NoChild}],
         children' \in SUBSET Child, started' \in SUBSET Child, deleting' \in SUBSET Child,
         present' \in SUBSET Slots, children \subseteq children',
         \A c \in Child : c.slot # s => /\ c \in children' <=> c \in children
                                        /\ c \in deleting' <=> c \in deleting,
         \A c \in children' : c.slot = s => c.gen = slot[s].generation,
         r.vhf \in {NoChild, ChildOf(s)}, r.feedback \in {NoChild, ChildOf(s)},
         r.vhf # NoChild => r.vhf \in children' \ deleting',
         started' \subseteq children', deleting' \subseteq children',
         SlotOk(s)', Creator'
  PROVE  IInv'
<1>1. TypeOK /\ Control /\ Passed /\ Core /\ Submissions /\ gate = "ioctl"
  BY ThreadFacts DEF IInv, Control, Inside
<1>2. l \in Labels /\ l \in IoctlLabels /\ l \in Inside /\ l \notin Tearing /\ pc["ioctl"] # "idle"
      /\ pc["ioctl"] # "submitting" /\ l # "deleting"
  BY DEF Labels, IoctlLabels, Inside, Creating, Tearing
<1>3. powered' = powered /\ req'.file = req.file /\ gate' = gate
  BY DEF device
<1>4. /\ Control' /\ pc' \in [Threads -> Labels] /\ pc'["ioctl"] = l
      /\ \A u \in Threads : u # "ioctl" => pc'[u] = pc[u]
  BY <1>1, <1>2, <1>3, ThreadFacts, ControlMove
<1>5. /\ slot' \in [Slots -> ControllerSlot] /\ slot'[s] = r
      /\ \A u \in Slots : u # s => slot'[u] = slot[u]
      /\ ChildOf(s)' = ChildOf(s)
  BY <1>1, SetFacts DEF ChildOf
<1>6. TypeOK'
  BY <1>1, <1>4, <1>5 DEF TypeOK, device, teardown, counts
<1>7. Passed'
  BY <1>1, <1>4, <1>5, ThreadFacts, PassedKept
<1>8. Core'
  <2>1. TearingOk("ioctl")'
    BY <1>2, <1>4 DEF TearingOk
  <2>2. s = SlotOf("ioctl") /\ handles' = handles /\ retired' = retired /\ calls' = calls
    BY DEF SlotOf, teardown
  <2>3. /\ \A call \in calls : call.child \in children'
        /\ \A c \in children' : c.slot = s => c.gen = slot'[s].generation
    BY <1>1, <1>5 DEF Core, Generations
  <2>4. /\ slot'[s].vhf \in {NoChild, ChildOf(s)'} /\ slot'[s].feedback \in {NoChild, ChildOf(s)'}
        /\ slot'[s].vhf # NoChild => slot'[s].vhf \in children' \ deleting'
    BY <1>5
  <2> QED BY <1>1, <1>4, <1>5, <1>6, <2>1, <2>2, <2>3, <2>4, ThreadFacts, ClaimStep
<1>9. Submissions'
  <2>1. \A x \in submits :
          /\ x.child \in children /\ x.child \in Child /\ x.by # "ioctl"
          /\ x.by = "worker" => x.child.slot # s /\ x.child \notin deleting
    BY <1>1, <1>2 DEF Submissions, NoUseAfterDelete, TypeOK
  <2>2. \A x \in submits :
          /\ x.child \in children' /\ x.by # "ioctl"
          /\ x.by = "worker" => x.child.slot # req'.slot /\ x.child \notin deleting'
    BY <2>1
  <2>3. \A u \in Slots : slot'[u].in_flight = slot[u].in_flight
    BY <1>5
  <2> QED BY <1>1, <2>2, <2>3, SubmissionsKept
<1> QED BY <1>4, <1>6, <1>7, <1>8, <1>9 DEF IInv

LEMMA CreateChildStep ==
  ASSUME IInv, CreateChild, gate' = "ioctl"
  PROVE  IInv'
<1>0. PICK s \in Slots : s = req.slot
  BY DEF IInv, TypeOK
<1> DEFINE c == ChildOf(s)
           r == [slot[s] EXCEPT !.vhf = c]
<1>1. /\ TypeOK /\ Control /\ Core /\ pc["ioctl"] = "create" /\ gate = "ioctl"
      /\ UNCHANGED <<device, req, at, teardown, started, deleting, present, calls, submits, worker, counts>>
  BY ThreadFacts DEF IInv, Control, CreateChild, Inside, Creating
<1>2. /\ children' = children \cup {c} /\ SetSlot(s, r) /\ victim' = [victim EXCEPT !["ioctl"] = c]
      /\ GoTo("ioctl", "start") /\ gate' = gate /\ status' = status
  BY <1>0, <1>1, ThreadFacts DEF CreateChild, ReleaseStarting
<1>3. /\ slot[s].vhf = NoChild /\ Bare(s) /\ slot[s].state = "starting" /\ slot[s].owner = req.file
      /\ pc["pnp"] \notin Rest /\ s \notin present
  BY <1>0, <1>1 DEF Core, Creator, Creating
<1>4. /\ slot[s] \in ControllerSlot /\ c \in Child /\ c.slot = s /\ c # NoChild /\ slot[s].feedback \in {NoChild, c}
      /\ c.gen = slot[s].generation /\ started \subseteq children /\ deleting \subseteq children
  BY <1>1, SlotFields DEF Core, Generations
<1> HIDE DEF c
<1>5. /\ r \in ControllerSlot /\ r.vhf = c /\ r.owner = slot[s].owner /\ r.in_flight = slot[s].in_flight
      /\ r.generation = slot[s].generation /\ r.state = slot[s].state /\ r.feedback = slot[s].feedback
  BY <1>4 DEF ControllerSlot
<1> HIDE DEF r
<1>6. /\ slot' \in [Slots -> ControllerSlot] /\ slot'[s] = r
      /\ pc'["ioctl"] = "start" /\ pc'["pnp"] = pc["pnp"]
      /\ victim' \in [Threads -> Child \cup {NoChild}] /\ victim'["ioctl"] = c
  <2>1. "start" \in Labels
    BY DEF Labels
  <2>2. pc'["ioctl"] = "start" /\ pc'["pnp"] = pc["pnp"]
    BY <1>1, <1>2, <2>1, Moves, ThreadFacts
  <2> QED BY <1>1, <1>2, <1>4, <1>5, <2>2, SetFacts, ThreadFacts DEF TypeOK
<1>7. c \notin children /\ c \notin deleting
  BY <1>3, <1>4 DEF Bare
<1>8. SlotOk(s)'
  BY <1>0, <1>1, <1>3, <1>5, <1>6 DEF SlotOk, Creating
<1>9. Creator'
  BY <1>0, <1>1, <1>3, <1>4, <1>5, <1>6 DEF Creator, Creating
<1>10. /\ children' \in SUBSET Child /\ started' \in SUBSET Child /\ deleting' \in SUBSET Child
       /\ present' \in SUBSET Slots /\ status' \in Statuses
  BY <1>1, <1>2, <1>4 DEF TypeOK
<1>11. /\ children \subseteq children'
       /\ \A d \in Child : d.slot # s => /\ d \in children' <=> d \in children
                                         /\ d \in deleting' <=> d \in deleting
       /\ \A d \in children' : d.slot = s => d.gen = slot[s].generation
       /\ r.vhf \in children' \ deleting'
       /\ started' \subseteq children' /\ deleting' \subseteq children'
  BY <1>1, <1>2, <1>3, <1>4, <1>5, <1>7 DEF Bare
<1>12. r.vhf \in {NoChild, ChildOf(s)} /\ r.feedback \in {NoChild, ChildOf(s)}
  BY <1>4, <1>5 DEF c
<1>13. UNCHANGED <<device, gate, req, at, teardown, calls, submits, worker, counts>>
  BY <1>1, <1>2
<1>14. "start" \in Creating /\ pc["ioctl"] \in Creating
  BY <1>1 DEF Creating
<1> QED BY <1>0, <1>2, <1>5, <1>6, <1>8, <1>9, <1>10, <1>11, <1>12, <1>13, <1>14, CreatingStep

LEMMA CreateStartStep == ASSUME IInv, CreateStart PROVE IInv'
<1>0. PICK s \in Slots : s = req.slot
  BY DEF IInv, TypeOK
<1>1. /\ TypeOK /\ Control /\ Core /\ pc["ioctl"] = "start" /\ GoTo("ioctl", "adopt")
      /\ started' = started \cup {victim["ioctl"]} /\ present' = present \cup {s}
      /\ UNCHANGED <<slot, device, gate, req, status, at, victim, teardown, children, deleting,
                     calls, submits, worker, counts>>
  BY <1>0 DEF IInv, CreateStart
<1>2. /\ slot[s].vhf # NoChild /\ victim["ioctl"] = slot[s].vhf /\ slot[s].state = "starting"
      /\ slot[s].owner = req.file /\ pc["pnp"] \notin Rest
  BY <1>0, <1>1 DEF Core, Creator, Creating
<1>3. /\ slot[s] \in ControllerSlot /\ slot[s].vhf \in {NoChild, ChildOf(s)}
      /\ slot[s].feedback \in {NoChild, ChildOf(s)} /\ slot[s].vhf \in children \ deleting
      /\ started \subseteq children /\ deleting \subseteq children
      /\ \A c \in children : c.slot = s => c.gen = slot[s].generation
  BY <1>1, <1>2, SlotFields DEF Core, Generations
<1>4. SetSlot(s, slot[s])
  BY <1>1 DEF SetSlot, TypeOK
<1>5. "adopt" \in Labels /\ "adopt" \in Creating /\ pc["ioctl"] \in Creating
  BY <1>1 DEF Labels, Creating
<1>6. pc'["ioctl"] = "adopt" /\ pc'["pnp"] = pc["pnp"]
  BY <1>1, <1>5, Moves, ThreadFacts
<1>7. SlotOk(s)'
  BY <1>0, <1>1, <1>2, <1>6 DEF SlotOk, Creating
<1>8. Creator'
  BY <1>0, <1>1, <1>2, <1>6 DEF Creator, Creating
<1>9. /\ children' \in SUBSET Child /\ started' \in SUBSET Child /\ deleting' \in SUBSET Child
      /\ present' \in SUBSET Slots /\ status' \in Statuses
      /\ victim' \in [Threads -> Child \cup {NoChild}]
      /\ started' \subseteq children' /\ deleting' \subseteq children'
      /\ children' = children /\ deleting' = deleting
  BY <1>1, <1>2, <1>3 DEF TypeOK
<1>10. UNCHANGED <<device, gate, req, at, teardown, calls, submits, worker, counts>>
  BY <1>1
<1> QED BY <1>0, <1>1, <1>3, <1>4, <1>5, <1>7, <1>8, <1>9, <1>10, CreatingStep

LEMMA CreateUndoBeginStep == ASSUME IInv, CreateUndoBegin PROVE IInv'
<1>0. PICK s \in Slots : s = req.slot
  BY DEF IInv, TypeOK
<1>1. /\ TypeOK /\ Control /\ Core /\ pc["ioctl"] = "undo"
      /\ deleting' = deleting \cup {victim["ioctl"]}
      /\ UNCHANGED <<slot, device, gate, pc, req, status, at, victim, teardown, children, started,
                     present, calls, submits, worker, counts>>
  BY <1>0 DEF IInv, CreateUndoBegin, BeginDelete
<1>2. /\ slot[s].vhf = NoChild /\ victim["ioctl"] = ChildOf(s) /\ slot[s].state = "stopping"
      /\ ChildOf(s) \in children /\ slot[s].owner = req.file /\ pc["pnp"] \notin Rest
  BY <1>0, <1>1 DEF Core, Creator, Creating
<1>3. /\ slot[s] \in ControllerSlot /\ ChildOf(s) \in Child /\ ChildOf(s).slot = s
      /\ slot[s].feedback \in {NoChild, ChildOf(s)}
      /\ started \subseteq children /\ deleting \subseteq children
      /\ \A c \in children : c.slot = s => c.gen = slot[s].generation
  BY <1>1, <1>2, SlotFields DEF Core, Generations
<1>4. SetSlot(s, slot[s])
  BY <1>1 DEF SetSlot, TypeOK
<1>5. "undo" \in Creating /\ pc["ioctl"] \in Creating
  BY <1>1 DEF Creating
<1>6. GoTo("ioctl", "undo")
  BY <1>1 DEF GoTo, TypeOK
<1>7. SlotOk(s)'
  BY <1>0, <1>1, <1>2 DEF SlotOk, Stopper
<1>8. ChildOf(s)' = ChildOf(s)
  BY <1>1 DEF ChildOf
<1>9. Creator'
  BY <1>0, <1>1, <1>2, <1>8 DEF Creator, Creating
<1>10. /\ children' \in SUBSET Child /\ started' \in SUBSET Child /\ deleting' \in SUBSET Child
       /\ present' \in SUBSET Slots /\ status' \in Statuses
       /\ victim' \in [Threads -> Child \cup {NoChild}]
       /\ started' \subseteq children' /\ deleting' \subseteq children'
       /\ children' = children
       /\ \A c \in Child : c.slot # s => (c \in deleting' <=> c \in deleting)
  BY <1>1, <1>2, <1>3 DEF TypeOK
<1>11. UNCHANGED <<device, gate, req, at, teardown, calls, submits, worker, counts>>
  BY <1>1
<1> QED BY <1>0, <1>2, <1>3, <1>4, <1>5, <1>6, <1>7, <1>9, <1>10, <1>11, CreatingStep

(* The child is not adopted: the slot forgets it first.                    *)
LEMMA CreateRejectStep ==
  ASSUME IInv, CreateAdopt, GoTo("ioctl", "undo")
  PROVE  IInv'
<1>0. PICK s \in Slots : s = req.slot
  BY DEF IInv, TypeOK
<1> DEFINE r == [slot[s] EXCEPT !.state = "stopping", !.feedback = NoChild, !.vhf = NoChild]
<1>1. /\ TypeOK /\ Control /\ Core /\ pc["ioctl"] = "adopt"
      /\ UNCHANGED <<device, req, at, teardown, vhf, submits, worker, counts>>
  BY <1>0 DEF IInv, CreateAdopt
<1>2. "undo" \in Labels /\ "undo" \in Creating /\ pc["ioctl"] \in Creating
  BY <1>1 DEF Labels, Creating
<1>3. pc'["ioctl"] = "undo" /\ pc'["pnp"] = pc["pnp"]
  BY <1>1, <1>2, Moves, ThreadFacts
<1>4. /\ SetSlot(s, r) /\ status' \in {"CANCELLED", "FAILED"} /\ victim' = victim /\ gate' = gate
  <2>1. ~Complete("SUCCESS")
    BY <1>1, <1>3, ThreadFacts DEF Complete, GoTo, TypeOK
  <2> QED BY <1>0, <2>1 DEF CreateAdopt
<1>5. /\ slot[s].vhf # NoChild /\ victim["ioctl"] = slot[s].vhf
      /\ slot[s].owner = req.file /\ pc["pnp"] \notin Rest
  BY <1>0, <1>1 DEF Core, Creator, Creating
<1>6. /\ slot[s] \in ControllerSlot /\ slot[s].vhf = ChildOf(s) /\ ChildOf(s) \in children
      /\ started \subseteq children /\ deleting \subseteq children
      /\ \A c \in children : c.slot = s => c.gen = slot[s].generation
  BY <1>1, <1>5, SlotFields DEF Core, Generations
<1>7. /\ r \in ControllerSlot /\ r.state = "stopping" /\ r.vhf = NoChild /\ r.feedback = NoChild
      /\ r.owner = slot[s].owner /\ r.in_flight = slot[s].in_flight
      /\ r.generation = slot[s].generation
  BY <1>6 DEF ControllerSlot, States
<1> HIDE DEF r
<1>8. slot'[s] = r /\ ChildOf(s)' = ChildOf(s)
  BY <1>1, <1>4, <1>7, SetFacts DEF ChildOf
<1>9. SlotOk(s)'
  BY <1>0, <1>1, <1>3, <1>7, <1>8 DEF SlotOk, Stopper
<1>10. Creator'
  BY <1>0, <1>1, <1>3, <1>4, <1>5, <1>6, <1>7, <1>8 DEF Creator, Creating, vhf
<1>11. /\ children' \in SUBSET Child /\ started' \in SUBSET Child /\ deleting' \in SUBSET Child
       /\ present' \in SUBSET Slots /\ status' \in Statuses
       /\ victim' \in [Threads -> Child \cup {NoChild}]
       /\ started' \subseteq children' /\ deleting' \subseteq children'
       /\ children' = children /\ deleting' = deleting
  BY <1>1, <1>4, <1>6 DEF TypeOK, vhf, Statuses
<1>12. UNCHANGED <<device, gate, req, at, teardown, calls, submits, worker, counts>>
  BY <1>1, <1>4 DEF vhf
<1> QED BY <1>0, <1>2, <1>4, <1>6, <1>7, <1>9, <1>10, <1>11, <1>12, CreatingStep

(* When VhfDelete of a child returns nobody is submitting for it.          *)
LEMMA DeletedIdle ==
  ASSUME IInv, NEW c \in deleting, Drained(c)
  PROVE  (\A call \in calls : call.child # c) /\ (\A x \in submits : x.child # c)
<1>1. \A call \in calls : call.child # c
  BY DEF Drained
<1>2. \A x \in submits : x.by \in {"ioctl", "worker", "ready", "write"}
  BY DEF IInv, TypeOK
<1> QED BY <1>1, <1>2 DEF IInv, Submissions, NoUseAfterDelete

LEMMA CreateUndoEndStep == ASSUME IInv, CreateUndoEnd PROVE IInv'
<1>0. PICK c : c = ChildOf(req.slot)
  OBVIOUS
<1>1. /\ TypeOK /\ Core /\ pc["ioctl"] = "undo" /\ victim["ioctl"] \in deleting
      /\ EndDelete("ioctl") /\ ReleaseStarting(status) /\ status \in Statuses
      /\ victim' = [victim EXCEPT !["ioctl"] = NoChild]
      /\ UNCHANGED <<device, req, at, teardown, present, calls, submits, worker, counts>>
  BY DEF IInv, CreateUndoEnd, TypeOK
<1>2. victim["ioctl"] = c
  BY <1>0, <1>1 DEF Core, Creator
<1>3. children' = children \ {c} /\ started' = started \ {c} /\ deleting' = deleting \ {c}
  BY <1>1, <1>2 DEF EndDelete
<1>4. (\A call \in calls : call.child # c) /\ (\A x \in submits : x.child # c)
  BY <1>1, <1>2, DeletedIdle DEF EndDelete
<1>5. /\ victim' \in [Threads -> Child \cup {NoChild}]
      /\ target' \in [exists : BOOLEAN, open : BOOLEAN, handle : BOOLEAN]
      /\ UNCHANGED <<powered, stopping, req, at, teardown, present, calls, submits, worker, counts>>
  BY <1>1 DEF TypeOK, device
<1> QED BY <1>0, <1>1, <1>3, <1>4, <1>5, ReleaseStep

LEMMA CreateAdoptedStep ==
  ASSUME IInv, CreateAdopt, GoTo("ioctl", "idle")
  PROVE  IInv'
<1>0. PICK s \in Slots : s = req.slot
  BY DEF IInv, TypeOK
<1> DEFINE r == [slot[s] EXCEPT !.state = "active"]
<1>1. /\ TypeOK /\ Control /\ Passed /\ Core /\ Submissions /\ pc["ioctl"] = "adopt"
      /\ UNCHANGED <<device, req, at, teardown, vhf, submits, worker, counts>>
  BY <1>0 DEF IInv, CreateAdopt
<1>2. /\ "idle" \in Labels /\ "idle" \in IoctlLabels /\ "idle" \notin Inside
      /\ pc["ioctl"] \in Inside /\ pc["ioctl"] # "idle" /\ "idle" # "undo"
  BY <1>1 DEF Labels, IoctlLabels, Inside, Creating, Tearing, Sweeping
<1>3. pc'["ioctl"] = "idle"
  BY <1>1, <1>2, Moves, ThreadFacts
<1>4. /\ SetSlot(s, r) /\ powered /\ gate' = Free /\ status' = "SUCCESS"
      /\ victim' = [victim EXCEPT !["ioctl"] = NoChild]
  <2>1. ~GoTo("ioctl", "undo")
    BY <1>1, <1>3, ThreadFacts DEF GoTo, TypeOK
  <2> QED BY <1>0, <2>1 DEF CreateAdopt, Complete
<1>5. gate = "ioctl" /\ powered' = powered /\ req'.file = req.file /\ pc["pnp"] = "working"
  BY <1>1, <1>2, <1>4, ThreadFacts DEF Control, device
<1>6. /\ Control' /\ pc' \in [Threads -> Labels]
      /\ \A u \in Threads : u # "ioctl" => pc'[u] = pc[u]
  BY <1>1, <1>2, <1>4, <1>5, ThreadFacts, ControlMove
<1>7. slot[s].vhf # NoChild /\ slot[s].owner = req.file
  BY <1>0, <1>1 DEF Core, Creator, Creating
<1>8. /\ slot[s] \in ControllerSlot /\ slot[s].vhf = ChildOf(s) /\ ChildOf(s) \in children \ deleting
      /\ slot[s].feedback \in {NoChild, ChildOf(s)}
      /\ started \subseteq children /\ deleting \subseteq children
      /\ \A call \in calls : call.child \in children
      /\ \A c \in children : c.slot = s => c.gen = slot[s].generation
  BY <1>1, <1>7, SlotFields DEF Core, Generations
<1>9. /\ r \in ControllerSlot /\ r.state = "active" /\ r.vhf = slot[s].vhf
      /\ r.owner = slot[s].owner /\ r.in_flight = slot[s].in_flight
      /\ r.generation = slot[s].generation /\ r.feedback = slot[s].feedback
  BY <1>8 DEF ControllerSlot, States
<1> HIDE DEF r
<1>10. /\ slot' \in [Slots -> ControllerSlot] /\ slot'[s] = r
       /\ \A u \in Slots : u # s => slot'[u] = slot[u]
       /\ ChildOf(s)' = ChildOf(s)
  BY <1>1, <1>4, <1>9, SetFacts DEF ChildOf
<1>11. TypeOK'
  <2>1. victim' \in [Threads -> Child \cup {NoChild}] /\ gate' \in Threads \cup {Free}
        /\ status' \in Statuses
    BY <1>1, <1>4 DEF TypeOK, Statuses
  <2> QED BY <1>1, <1>6, <1>10, <2>1 DEF TypeOK, device, teardown, vhf, counts
<1>12. Passed'
  BY <1>1, <1>6, <1>9, <1>10, ThreadFacts, PassedKept
<1>13. Core'
  <2>1. SlotOk(s)'
    BY <1>5, <1>6, <1>7, <1>9, <1>10, ThreadFacts DEF SlotOk, Rest, Sweeping
  <2>2. Creator'
    BY <1>3 DEF Creator, Creating
  <2>3. TearingOk("ioctl")'
    BY <1>3 DEF TearingOk, Tearing
  <2>4. s = SlotOf("ioctl") /\ handles' = handles /\ retired' = retired /\ calls' = calls
        /\ children' = children /\ deleting' = deleting /\ started' = started
    BY <1>0, <1>1 DEF SlotOf, teardown, vhf
  <2>5. /\ slot'[s].vhf = ChildOf(s)' /\ slot'[s].feedback \in {NoChild, ChildOf(s)'}
        /\ slot'[s].vhf \in children' \ deleting'
        /\ \A c \in children' : c.slot = s => c.gen = slot'[s].generation
    BY <1>8, <1>9, <1>10, <2>4
  <2> QED BY <1>5, <1>6, <1>8, <1>10, <1>11, <2>1, <2>2, <2>3, <2>4, <2>5, ThreadFacts, ClaimStep
<1>14. Submissions'
  <2>1. \A x \in submits :
          /\ x.child \in children' /\ (x.by \in {"ioctl", "worker"} => x.child \notin deleting')
          /\ x.by # "ioctl" /\ pc'["ioctl"] \notin Creating
    BY <1>1, <1>3 DEF Submissions, NoUseAfterDelete, vhf, Creating
  <2>2. \A u \in Slots : slot'[u].in_flight = slot[u].in_flight
    BY <1>9, <1>10
  <2> QED BY <1>1, <2>1, <2>2, SubmissionsKept DEF vhf
<1> QED BY <1>6, <1>11, <1>12, <1>13, <1>14 DEF IInv

(* create_controller, every step of it.                                    *)
LEMMA CreateStep == ASSUME IInv, Create PROVE IInv'
<1>1. CASE CreateSnapshot
  BY <1>1, CreateSnapshotStep
<1>2. CASE CreateAdmit
  BY <1>2, CreateRefusedStep, CreateClaimStep
<1>3. CASE CreateOpen
  <2>1. CASE GoTo("ioctl", "create")
    BY <1>3, <2>1, CreateOpenStep
  <2>2. CASE ~GoTo("ioctl", "create")
    <3>1. /\ pc["ioctl"] = "open" /\ ReleaseStarting("NOT_READY") /\ target' = target
          /\ UNCHANGED <<powered, stopping, req, at, victim, teardown, vhf, submits, worker, counts>>
      BY <1>3, <2>2 DEF CreateOpen
    <3>2. "NOT_READY" \in Statuses
          /\ UNCHANGED <<device, req, at, victim, teardown, vhf, submits, worker, counts>>
      BY <3>1 DEF Statuses, device
    <3> QED BY <3>1, <3>2, CreateFailStep
  <2> QED BY <2>1, <2>2
<1>4. CASE CreateChild
  <2>1. CASE ReleaseStarting("FAILED") /\ children' = children /\ victim' = victim
    <3>1. /\ pc["ioctl"] = "create" /\ "FAILED" \in Statuses
          /\ UNCHANGED <<device, req, at, victim, teardown, vhf, submits, worker, counts>>
      BY <1>4, <2>1 DEF CreateChild, Statuses, vhf
    <3> QED BY <2>1, <3>1, CreateFailStep
  <2>2. CASE gate' = gate
    <3>1. gate = "ioctl"
      BY <1>4, ThreadFacts DEF IInv, Control, CreateChild, Inside, Creating
    <3> QED BY <1>4, <2>2, <3>1, CreateChildStep
  <2> QED BY <1>4, <2>1, <2>2 DEF CreateChild
<1>5. CASE CreateStart
  BY <1>5, CreateStartStep
<1>6. CASE CreateAdopt
  BY <1>6, CreateAdoptedStep, CreateRejectStep DEF CreateAdopt, Complete
<1>7. CASE CreateUndoBegin
  BY <1>7, CreateUndoBeginStep
<1>8. CASE CreateUndoEnd
  BY <1>8, CreateUndoEndStep
<1> QED BY <1>1, <1>2, <1>3, <1>4, <1>5, <1>6, <1>7, <1>8 DEF Create

-----------------------------------------------------------------------------
LEMMA DestroyerFacts ==
  ASSUME TypeOK, NEW t \in Destroyers
  PROVE  SlotOf(t) \in Slots /\ t \in Threads /\ t # "pnp"
BY ThreadFacts DEF TypeOK, SlotOf, Destroyers

(* Thread t works on no submission of its own.                             *)
LEMMA OwnSubmissions ==
  ASSUME IInv, NEW t \in Destroyers, \A u \in Threads : u # t => pc'[u] = pc[u], req' = req,
         t = "ioctl" => pc[t] # "submitting" /\ pc'[t] \notin Creating
  PROVE  \A x \in submits :
           /\ x.by = "ioctl" => pc'["ioctl"] = "submitting" /\ x.child.slot = req'.slot
           /\ x.by = "worker" => ~(pc'["ioctl"] \in Creating /\ x.child.slot = req'.slot)
BY ThreadFacts DEF IInv, Submissions

(* destroy_owned_controller resets the slot and returns.                   *)
LEMMA DestroyResetStep ==
  ASSUME IInv, NEW t \in Destroyers, NEW s \in Slots, s = SlotOf(t),
         pc[t] \in {"destroy", "deleting"}, gate \in {Free, t}, gate' = Free, Destroyed(t),
         slot[s].owner = OwnerOf(t), SetSlot(s, ResetSlot(slot[s])), NEW c, c = ChildOf(s),
         children' = children \ {c}, started' = started \ {c}, deleting' = deleting \ {c},
         \A call \in calls : call.child # c, \A x \in submits : x.child # c,
         victim' \in [Threads -> Child \cup {NoChild}],
         UNCHANGED <<device, req, teardown, present, calls, submits, worker, counts>>
  PROVE  IInv'
<1>1. TypeOK /\ Control /\ Passed /\ Core /\ Submissions /\ t \in Threads /\ OwnerOf(t) \in Files
  BY ThreadFacts DEF IInv, OwnerOf, Control, Destroyers
<1>2. /\ slot[s] \in ControllerSlot /\ ResetSlot(slot[s]) \in ControllerSlot
      /\ ResetSlot(slot[s]).state = "empty" /\ ResetSlot(slot[s]).owner = NoFile
      /\ ResetSlot(slot[s]).vhf = NoChild /\ ResetSlot(slot[s]).feedback = NoChild
      /\ ResetSlot(slot[s]).in_flight = 0
  BY <1>1, SlotFields, ResetFields
<1>3. /\ slot' \in [Slots -> ControllerSlot] /\ slot'[s] = ResetSlot(slot[s])
      /\ \A u \in Slots : u # s => slot'[u] = slot[u]
  BY <1>1, <1>2, SetFacts
<1>4. slot'[SlotOf(t)].owner # OwnerOf(t) /\ \A u \in Slots : slot'[u].owner \in {slot[u].owner, NoFile}
  BY <1>1, <1>2, <1>3, NullAssumption
<1>5. /\ pc' \in [Threads -> Labels] /\ at' \in [Files -> Slots] /\ status' \in Statuses
      /\ pc'[t] \in {"idle", "destroy", "closed"}
      /\ \A u \in Threads : u # t => pc'[u] = pc[u]
      /\ Control' /\ Passed'
  <2>1. powered' = powered
    BY DEF device
  <2> QED BY <1>1, <1>4, <2>1, DestroyedStep
<1>6. TypeOK'
  <2>1. children' \in SUBSET Child /\ started' \in SUBSET Child /\ deleting' \in SUBSET Child
    BY <1>1 DEF TypeOK
  <2> QED BY <1>1, <1>3, <1>5, <2>1 DEF TypeOK, device, teardown, counts
<1>7. /\ c \in Child /\ c.slot = s /\ (\A d \in children' : d.slot # s)
  BY <1>1, SlotFields, OneChild DEF Core
<1>8. Core'
  <2>1. SlotOk(s)'
    BY <1>2, <1>3, <1>7 DEF SlotOk, Bare
  <2>2. t = "ioctl" => Creator'
    BY <1>5 DEF Creator, Creating
  <2>3. TearingOk(t)'
    BY <1>5 DEF TearingOk, Tearing
  <2>4. /\ started' \subseteq children' /\ deleting' \subseteq children'
        /\ \A call \in calls : call.child \in children'
    BY <1>1 DEF Core, Generations
  <2>5. /\ slot'[s].vhf = NoChild /\ slot'[s].feedback = NoChild
    BY <1>2, <1>3
  <2>6. handles' = handles /\ retired' = retired /\ calls' = calls /\ present' = present /\ req' = req
    BY DEF teardown
  <2> QED BY <1>3, <1>5, <1>6, <1>7, <2>1, <2>2, <2>3, <2>4, <2>5, <2>6, ClaimStep
<1>9. Submissions'
  <2>1. \A x \in submits :
          /\ x.child \in children' /\ (x.by \in {"ioctl", "worker"} => x.child \notin deleting')
    BY <1>1 DEF Submissions, NoUseAfterDelete
  <2>2. SubmitsOf(s) = {}
    BY <1>7, <2>1 DEF SubmitsOf
  <2>3. \A u \in Slots : \/ slot'[u].in_flight = slot[u].in_flight
                         \/ slot'[u].in_flight = 0 /\ SubmitsOf(u) = {}
    <3> TAKE u \in Slots
    <3>1. CASE u = s
      BY <1>2, <1>3, <2>2, <3>1
    <3>2. CASE u # s
      BY <1>3, <3>2
    <3> QED BY <3>1, <3>2
  <2>4. \A x \in submits :
          /\ x.by = "ioctl" => pc'["ioctl"] = "submitting" /\ x.child.slot = req'.slot
          /\ x.by = "worker" => ~(pc'["ioctl"] \in Creating /\ x.child.slot = req'.slot)
    <3>1. pc[t] # "submitting" /\ pc'[t] \notin Creating
      BY <1>5 DEF Creating
    <3> QED BY <1>5, <3>1, OwnSubmissions
  <2> QED BY <1>1, <2>1, <2>3, <2>4, SubmissionsKept
<1> QED BY <1>5, <1>6, <1>8, <1>9 DEF IInv

LEMMA DestroyChildlessStep ==
  ASSUME IInv, NEW t \in Destroyers, DestroyChildless(t)
  PROVE  IInv'
<1>0. PICK s \in Slots : s = SlotOf(t)
  BY DestroyerFacts DEF IInv
<1>1. /\ TypeOK /\ Core /\ Submissions /\ pc[t] = "destroy" /\ gate = Free /\ Destroyed(t)
      /\ slot[s].owner = OwnerOf(t) /\ slot[s].state \in {"starting", "lost"}
      /\ SetSlot(s, IF slot[s].state = "lost" THEN ResetSlot(slot[s])
                    ELSE [slot[s] EXCEPT !.state = "stopping"])
      /\ UNCHANGED <<device, gate, req, victim, teardown, vhf, submits, worker, counts>>
  BY <1>0 DEF IInv, DestroyChildless
<1>2. slot[s].state = "lost"
  <2>1. pc[t] \notin Creating \cup Tearing
    BY <1>1 DEF Creating, Tearing
  <2> QED BY <1>0, <1>1, <2>1, SettledOthers
<1>3. SetSlot(s, ResetSlot(slot[s])) /\ Bare(s)
  BY <1>1, <1>2 DEF Core, SlotStates, SlotOk
<1>4. PICK c : c = ChildOf(s)
  OBVIOUS
<1>5. c \notin children
  BY <1>1, <1>3, <1>4, SlotFields DEF Bare
<1>6. /\ children' = children \ {c} /\ started' = started \ {c} /\ deleting' = deleting \ {c}
      /\ (\A call \in calls : call.child # c) /\ (\A x \in submits : x.child # c)
  BY <1>1, <1>5 DEF Core, Generations, Submissions, vhf
<1>7. /\ victim' \in [Threads -> Child \cup {NoChild}] /\ gate' = Free
      /\ UNCHANGED <<device, req, teardown, present, calls, submits, worker, counts>>
  BY <1>1 DEF TypeOK, vhf
<1> QED BY <1>0, <1>1, <1>3, <1>4, <1>6, <1>7, DestroyResetStep

LEMMA DestroyEndStep ==
  ASSUME IInv, NEW t \in Destroyers, DestroyEnd(t)
  PROVE  IInv'
<1>0. PICK s \in Slots : s = SlotOf(t)
  BY DestroyerFacts DEF IInv
<1>1. PICK c : c = ChildOf(s)
  OBVIOUS
<1>2. /\ TypeOK /\ Control /\ Core /\ pc[t] = "deleting" /\ EndDelete(t) /\ gate' = Free /\ Destroyed(t)
      /\ SetSlot(s, IF slot[s].owner = OwnerOf(t) /\ slot[s].state = "stopping"
                      THEN ResetSlot(slot[s]) ELSE slot[s])
      /\ victim' = [victim EXCEPT ![t] = NoChild]
      /\ UNCHANGED <<device, req, teardown, present, calls, submits, worker, counts>>
  BY <1>0 DEF IInv, DestroyEnd
<1>3. /\ slot[s].owner = OwnerOf(t) /\ slot[s].state = "stopping" /\ victim[t] = c /\ c \in deleting
  BY <1>0, <1>1, <1>2 DEF Core, Destroying, TearingOk, Tearing
<1>4. gate = t
  BY <1>2, DestroyerFacts DEF Control, Inside, Tearing
<1>5. children' = children \ {c} /\ started' = started \ {c} /\ deleting' = deleting \ {c} /\ Drained(c)
  BY <1>2, <1>3 DEF EndDelete
<1>6. (\A call \in calls : call.child # c) /\ (\A x \in submits : x.child # c)
  BY <1>3, <1>5, DeletedIdle
<1>7. victim' \in [Threads -> Child \cup {NoChild}] /\ SetSlot(s, ResetSlot(slot[s]))
  BY <1>2, <1>3 DEF TypeOK
<1> QED BY <1>0, <1>1, <1>2, <1>3, <1>4, <1>5, <1>6, <1>7, DestroyResetStep

LEMMA DestroyRetireStep ==
  ASSUME IInv, NEW t \in Destroyers, DestroyRetire(t)
  PROVE  IInv'
<1>0. PICK s \in Slots : s = SlotOf(t)
  BY DestroyerFacts DEF IInv
<1> DEFINE r == [slot[s] EXCEPT !.state = "stopping", !.feedback = NoChild, !.vhf = NoChild]
<1>1. /\ TypeOK /\ Control /\ Passed /\ Core /\ Submissions /\ t \in Threads /\ t # "pnp"
      /\ pc[t] = "destroy" /\ gate = Free /\ gate' = t /\ slot[s].owner = OwnerOf(t)
      /\ slot[s].state \in {"active", "stopping"}
      /\ victim' = [victim EXCEPT ![t] = slot[s].vhf] /\ SetSlot(s, r) /\ GoTo(t, "wait")
      /\ UNCHANGED <<device, req, status, at, teardown, vhf, submits, worker, counts>>
  BY <1>0, ThreadFacts DEF IInv, DestroyRetire
<1>2. slot[s].state = "active"
  <2>1. pc[t] \notin Creating \cup Tearing
    BY <1>1 DEF Creating, Tearing
  <2> QED BY <1>0, <1>1, <2>1, SettledOthers
<1>3. slot[s].vhf # NoChild /\ pc["pnp"] \notin Rest
  BY <1>1, <1>2 DEF Core, SlotStates, SlotOk
<1>4. /\ slot[s] \in ControllerSlot /\ slot[s].vhf = ChildOf(s) /\ ChildOf(s) \in children
      /\ started \subseteq children /\ deleting \subseteq children
      /\ \A call \in calls : call.child \in children
      /\ \A c \in children : c.slot = s => c.gen = slot[s].generation
  BY <1>1, <1>3, SlotFields DEF Core, Generations
<1>5. /\ r \in ControllerSlot /\ r.state = "stopping" /\ r.vhf = NoChild /\ r.feedback = NoChild
      /\ r.owner = slot[s].owner /\ r.in_flight = slot[s].in_flight
      /\ r.generation = slot[s].generation
  BY <1>4 DEF ControllerSlot, States
<1> HIDE DEF r
<1>6. /\ slot' \in [Slots -> ControllerSlot] /\ slot'[s] = r
      /\ \A u \in Slots : u # s => slot'[u] = slot[u]
      /\ ChildOf(s)' = ChildOf(s)
  BY <1>1, <1>5, SetFacts DEF ChildOf
<1>7. /\ Control' /\ pc' \in [Threads -> Labels] /\ pc'[t] = "wait" /\ gate' \in Threads \cup {Free}
      /\ \A u \in Threads : u # t => pc'[u] = pc[u]
  <2>1. "wait" \in Labels /\ "wait" \in IoctlLabels /\ "wait" \in FileLabels \ {"idle"} /\ "wait" \in Inside
    BY DEF Labels, IoctlLabels, FileLabels, Inside, Tearing
  <2>2. powered' = powered /\ req'.file = req.file /\ pc[t] # "idle"
    BY <1>1 DEF device
  <2> QED BY <1>1, <2>1, <2>2, ControlMove
<1>8. victim' \in [Threads -> Child \cup {NoChild}] /\ victim'[t] = ChildOf(s)
  BY <1>1, <1>4, SlotFields DEF TypeOK
<1>9. TypeOK'
  BY <1>1, <1>6, <1>7, <1>8 DEF TypeOK, device, teardown, vhf, counts
<1>10. Passed'
  <2>1. \A f \in Files : /\ pc'[f] = "idle" => pc[f] = "idle"
                         /\ pc'[f] = "closed" => pc[f] = "closed"
    BY <1>7, ThreadFacts
  <2>2. \A u \in Slots : slot'[u].owner = slot[u].owner
    BY <1>5, <1>6
  <2> QED BY <1>1, <2>1, <2>2 DEF Passed
<1>11. Core'
  <2>1. /\ children' = children /\ started' = started /\ deleting' = deleting /\ calls' = calls
        /\ handles' = handles /\ retired' = retired /\ present' = present /\ req' = req /\ at' = at
    BY <1>1 DEF vhf, teardown
  <2>2. SlotOf(t)' = s /\ OwnerOf(t)' = OwnerOf(t)
    BY <1>0, <2>1 DEF SlotOf, OwnerOf
  <2>3. SlotOk(s)'
    BY <1>5, <1>6, <1>7, <2>2 DEF SlotOk, Stopper, Tearing
  <2>4. t = "ioctl" => Creator'
    BY <1>7 DEF Creator, Creating
  <2>5. TearingOk(t)'
    <3>1. pc'["pnp"] = pc["pnp"]
      BY <1>1, <1>7, ThreadFacts
    <3>2. ChildOf(SlotOf(t))' = ChildOf(s)'
      BY <2>2 DEF ChildOf
    <3> QED BY <1>1, <1>3, <1>4, <1>5, <1>6, <1>7, <1>8, <2>1, <2>2, <3>1, <3>2 DEF TearingOk
  <2>6. /\ slot'[s].vhf = NoChild /\ slot'[s].feedback = NoChild
        /\ \A c \in children : c.slot = s => c.gen = slot'[s].generation
    BY <1>4, <1>5, <1>6
  <2> QED BY <1>0, <1>1, <1>4, <1>6, <1>7, <1>9, <2>1, <2>3, <2>4, <2>5, <2>6, ClaimStep
<1>12. Submissions'
  <2>1. \A x \in submits :
          /\ x.child \in children' /\ (x.by \in {"ioctl", "worker"} => x.child \notin deleting')
    BY <1>1 DEF Submissions, NoUseAfterDelete, vhf
  <2>2. \A u \in Slots : slot'[u].in_flight = slot[u].in_flight
    BY <1>5, <1>6
  <2>3. \A x \in submits :
          /\ x.by = "ioctl" => pc'["ioctl"] = "submitting" /\ x.child.slot = req'.slot
          /\ x.by = "worker" => ~(pc'["ioctl"] \in Creating /\ x.child.slot = req'.slot)
    <3>1. pc[t] # "submitting" /\ pc'[t] \notin Creating
      BY <1>1, <1>7 DEF Creating
    <3> QED BY <1>1, <1>7, <3>1, OwnSubmissions
  <2>4. submits' = submits /\ calls' = calls
    BY <1>1 DEF vhf
  <2> QED BY <1>1, <2>1, <2>2, <2>3, <2>4, SubmissionsKept
<1> QED BY <1>7, <1>9, <1>10, <1>11, <1>12 DEF IInv

(* A count of zero: nobody is submitting for the slot's child.             *)
LEMMA CountZero ==
  ASSUME Submissions, NEW s \in Slots, slot[s].in_flight = 0
  PROVE  SubmitsOf(s) = {} /\ \A x \in submits : x.child.slot # s
<1>1. SubmitsOf(s) = {}
  BY FS_EmptySet DEF Submissions
<1> QED BY <1>1 DEF SubmitsOf

LEMMA DestroyWaitStep ==
  ASSUME IInv, NEW t \in Destroyers, DestroyWait(t)
  PROVE  IInv'
<1>0. PICK s \in Slots : s = SlotOf(t)
  BY DestroyerFacts DEF IInv
<1>1. /\ TypeOK /\ Control /\ Passed /\ Core /\ Submissions /\ t \in Threads /\ t # "pnp"
      /\ pc[t] = "wait" /\ slot[s].in_flight = 0 /\ GoTo(t, "deleting")
      /\ deleting' = deleting \cup {victim[t]}
      /\ UNCHANGED <<slot, device, gate, req, status, at, victim, teardown, children, started,
                     present, calls, submits, worker, counts>>
  BY <1>0, ThreadFacts DEF IInv, DestroyWait, BeginDelete
<1>2. /\ slot[s].state = "stopping" /\ slot[s].owner = OwnerOf(t) /\ slot[s].vhf = NoChild
      /\ pc["pnp"] \notin Rest /\ victim[t] = ChildOf(s) /\ ChildOf(s) \in children
  BY <1>0, <1>1 DEF Core, Destroying, TearingOk, Tearing
<1>3. /\ ChildOf(s) \in Child /\ ChildOf(s).slot = s /\ slot[s].feedback \in {NoChild, ChildOf(s)}
      /\ started \subseteq children /\ deleting \subseteq children
      /\ \A call \in calls : call.child \in children
      /\ \A c \in children : c.slot = s => c.gen = slot[s].generation
  BY <1>1, SlotFields DEF Core, Generations
<1>4. gate = t /\ pc[t] \in Inside
  BY <1>1 DEF Control, Inside, Tearing
<1>5. /\ Control' /\ pc' \in [Threads -> Labels] /\ pc'[t] = "deleting"
      /\ \A u \in Threads : u # t => pc'[u] = pc[u]
  <2>1. /\ "deleting" \in Labels /\ "deleting" \in IoctlLabels /\ "deleting" \in FileLabels \ {"idle"}
        /\ "deleting" \in Inside
    BY DEF Labels, IoctlLabels, FileLabels, Inside, Tearing
  <2>2. powered' = powered /\ req'.file = req.file /\ pc[t] # "idle" /\ gate' = gate
    BY <1>1 DEF device
  <2> QED BY <1>1, <1>4, <2>1, <2>2, ControlMove
<1>6. TypeOK'
  <2>1. deleting' \in SUBSET Child
    BY <1>1, <1>2, <1>3 DEF TypeOK
  <2> QED BY <1>1, <1>5, <2>1 DEF TypeOK, device, teardown, counts
<1>7. Passed'
  <2>1. \A f \in Files : /\ pc'[f] = "idle" => pc[f] = "idle"
                         /\ pc'[f] = "closed" => pc[f] = "closed"
    BY <1>5, ThreadFacts
  <2> QED BY <1>1, <2>1 DEF Passed
<1>8. Core'
  <2>1. handles' = handles /\ retired' = retired
    BY <1>1 DEF teardown
  <2>2. SlotOf(t)' = s /\ OwnerOf(t)' = OwnerOf(t) /\ ChildOf(s)' = ChildOf(s)
    BY <1>0, <1>1 DEF SlotOf, OwnerOf, ChildOf
  <2>3. SlotOk(s)'
    BY <1>1, <1>2, <1>5, <2>2 DEF SlotOk, Stopper, Tearing
  <2>4. t = "ioctl" => Creator'
    BY <1>5 DEF Creator, Creating
  <2>5. TearingOk(t)'
    <3>1. pc'["pnp"] = pc["pnp"]
      BY <1>1, <1>5, ThreadFacts
    <3>2. ChildOf(SlotOf(t))' = ChildOf(s)
      BY <1>1, <2>2 DEF ChildOf
    <3> QED BY <1>1, <1>2, <1>5, <2>2, <3>1, <3>2 DEF TearingOk
  <2>6. /\ slot'[s].vhf = NoChild /\ slot'[s].feedback \in {NoChild, ChildOf(s)'}
        /\ \A c \in children' : c.slot = s => c.gen = slot'[s].generation
        /\ started' \subseteq children' /\ deleting' \subseteq children'
        /\ \A call \in calls : call.child \in children'
        /\ \A c \in Child : c.slot # s => /\ c \in children' <=> c \in children
                                          /\ c \in deleting' <=> c \in deleting
    BY <1>1, <1>2, <1>3, <2>2
  <2> QED BY <1>0, <1>1, <1>4, <1>5, <1>6, <2>1, <2>3, <2>4, <2>5, <2>6, ClaimStep
<1>9. Submissions'
  <2>1. \A x \in submits :
          /\ x.child \in children' /\ (x.by \in {"ioctl", "worker"} => x.child \notin deleting')
    BY <1>1, <1>2, <1>3, CountZero DEF Submissions, NoUseAfterDelete
  <2>2. \A x \in submits :
          /\ x.by = "ioctl" => pc'["ioctl"] = "submitting" /\ x.child.slot = req'.slot
          /\ x.by = "worker" => ~(pc'["ioctl"] \in Creating /\ x.child.slot = req'.slot)
    <3>1. pc[t] # "submitting" /\ pc'[t] \notin Creating
      BY <1>1, <1>5 DEF Creating
    <3> QED BY <1>1, <1>5, <3>1, OwnSubmissions
  <2> QED BY <1>1, <2>1, <2>2, SubmissionsKept
<1> QED BY <1>5, <1>6, <1>7, <1>8, <1>9 DEF IInv

LEMMA DestroyStep == ASSUME IInv, NEW t \in Destroyers, Destroy(t) PROVE IInv'
BY DestroyNothingStep, DestroyChildlessStep, DestroyRetireStep, DestroyWaitStep, DestroyEndStep
   DEF Destroy

-----------------------------------------------------------------------------
(* With the gate free every slot is settled, and with PnP inside it every  *)
(* slot is at rest or in PnP's hands.                                      *)
LEMMA Settled ==
  ASSUME IInv, gate = Free
  PROVE  /\ handles = {} /\ retired = {} /\ pc["pnp"] \notin Sweeping
         /\ \A u \in Slots : slot[u].state \in {"empty", "lost", "active"}
<1>1. pc["ioctl"] \notin Creating \cup Tearing
  BY ThreadFacts DEF IInv, Control, Inside
<1> QED BY <1>1, ThreadFacts, SettledOthers

LEMMA Swept ==
  ASSUME IInv, pc["pnp"] \in Sweeping
  PROVE  /\ gate = "pnp" /\ pc["ioctl"] \notin Creating
         /\ \A t \in Destroyers : pc[t] \notin Tearing
         /\ \A u \in Slots :
              /\ slot[u].state \in {"empty", "lost", "stopping"}
              /\ slot[u].state = "stopping" =>
                   \/ ChildOf(u) \in handles \cup retired
                   \/ pc["pnp"] = "stop_null" /\ slot[u].vhf # NoChild
<1>1. gate = "pnp" /\ TypeOK /\ Control /\ SlotStates
  BY ThreadFacts DEF IInv, Core, Control, Inside
<1>2. \A u \in Threads : u # "pnp" => pc[u] \notin Creating /\ pc[u] \notin Tearing
  BY <1>1, ThreadFacts, Alone
<1>3. pc["ioctl"] \notin Creating /\ \A t \in Destroyers : pc[t] \notin Tearing
  BY <1>2, ThreadFacts
<1>4. "undo" \in Creating
  BY DEF Creating
<1>5. ASSUME NEW u \in Slots
      PROVE  /\ slot[u].state \in {"empty", "lost", "stopping"}
             /\ slot[u].state = "stopping" =>
                   \/ ChildOf(u) \in handles \cup retired
                   \/ pc["pnp"] = "stop_null" /\ slot[u].vhf # NoChild
  <2>1. SlotOk(u) /\ slot[u].state \in States
    BY <1>1, SlotFields DEF SlotStates
  <2>2. slot[u].state # "starting" /\ slot[u].state # "active"
    BY <1>3, <2>1 DEF SlotOk
  <2>3. slot[u].state = "stopping" => Stopper(u)
    BY <2>1 DEF SlotOk
  <2> QED BY <1>3, <1>4, <2>1, <2>2, <2>3 DEF States, Stopper
<1> QED BY <1>1, <1>3, <1>5

(* A step of PnP's sweep over the slots.                                   *)
LEMMA SweepStep ==
  ASSUME IInv, gate \in {Free, "pnp"}, NEW l \in PnpLabels, GoTo("pnp", l),
         gate' = IF l \in Sweeping THEN "pnp" ELSE Free, ~powered, powered' = powered,
         slot' \in [Slots -> ControllerSlot],
         target' \in [exists : BOOLEAN, open : BOOLEAN, handle : BOOLEAN],
         handles' \in SUBSET Child, retired' \in SUBSET Child,
         victim' \in [Threads -> Child \cup {NoChild}], worker' \in BOOLEAN,
         children' \in SUBSET Child, started' \in SUBSET Child, deleting' \in SUBSET Child,
         UNCHANGED <<stopping, forget, req, status, at, present, calls, submits, counts>>,
         \A u \in Slots : /\ slot'[u].owner \in {slot[u].owner, NoFile}
                          /\ \/ slot'[u].in_flight = slot[u].in_flight
                             \/ slot'[u].in_flight = 0 /\ SubmitsOf(u) = {},
         \A x \in submits :
           /\ x.child \in children'
           /\ x.by \in {"ioctl", "worker"} => x.child \notin deleting',
         Generations', SlotStates', SweepState'
  PROVE  IInv'
<1>1. TypeOK /\ Control /\ Passed /\ Core /\ Submissions
  BY DEF IInv
<1>2. l \in Labels /\ (l \in Inside <=> l \in Sweeping)
  BY DEF Labels, PnpLabels, Inside, Creating, Tearing, Sweeping
<1>3. /\ Control' /\ pc' \in [Threads -> Labels] /\ pc'["pnp"] = l /\ gate' \in Threads \cup {Free}
      /\ \A u \in Threads : u # "pnp" => pc'[u] = pc[u]
  BY <1>1, <1>2, ThreadFacts, ControlMove
<1>4. TypeOK'
  BY <1>1, <1>3 DEF TypeOK, counts
<1>5. Passed'
  BY <1>1, <1>3, ThreadFacts, PassedKept
<1>6. \A u \in Threads : u # "pnp" => pc'[u] \notin Creating /\ pc'[u] \notin Tearing
  BY <1>1, <1>3, ThreadFacts, Alone
<1>7. Creator'
  <2>1. pc'["ioctl"] = pc["ioctl"] /\ pc'["ioctl"] \notin Creating
    BY <1>3, <1>6, ThreadFacts
  <2> QED BY <1>1, <2>1 DEF Core, Creator, Creating
<1>8. Destroying'
  <2> SUFFICES ASSUME NEW t \in Destroyers PROVE TearingOk(t)'
    BY DEF Destroying
  <2>1. pc'[t] \notin Tearing
    BY <1>6, ThreadFacts
  <2> QED BY <2>1 DEF TearingOk, Tearing
<1>9. Submissions'
  <2>1. pc'["ioctl"] = pc["ioctl"]
    BY <1>3, ThreadFacts
  <2>2. \A x \in submits :
          /\ x.by = "ioctl" => pc'["ioctl"] = "submitting" /\ x.child.slot = req'.slot
          /\ x.by = "worker" => ~(pc'["ioctl"] \in Creating /\ x.child.slot = req'.slot)
    BY <1>1, <2>1 DEF Submissions
  <2> QED BY <1>1, <2>2, SubmissionsKept
<1> QED BY <1>3, <1>4, <1>5, <1>7, <1>8, <1>9 DEF IInv, Core

LEMMA PowerDownMarkStep == ASSUME IInv, PowerDownMark PROVE IInv'
<1> DEFINE Live(u) == slot[u].state = "active" /\ slot[u].vhf # NoChild
           Mark(u) == [slot[u] EXCEPT !.state = "stopping", !.feedback = NoChild]
<1>1. /\ TypeOK /\ Control /\ Core /\ Submissions /\ pc["pnp"] = "down" /\ gate = Free /\ gate' = "pnp"
      /\ handles' = {slot[u].vhf : u \in {v \in Slots : Live(v)}}
      /\ slot' = [u \in Slots |-> IF u \in {v \in Slots : Live(v)} THEN Mark(u) ELSE slot[u]]
      /\ GoTo("pnp", "down_null")
      /\ UNCHANGED <<device, req, status, at, victim, retired, forget, vhf, submits, worker, counts>>
  BY DEF IInv, PowerDownMark
<1>2. /\ handles = {} /\ retired = {}
      /\ \A u \in Slots : slot[u].state \in {"empty", "lost", "active"}
  BY <1>1, Settled
<1>3. /\ \A c \in children : c.gen = slot[c.slot].generation
      /\ \A u \in Slots : /\ slot[u].vhf \in {NoChild, ChildOf(u)}
                          /\ slot[u].feedback \in {NoChild, ChildOf(u)}
                          /\ slot[u].vhf # NoChild => slot[u].vhf \in children \ deleting
      /\ started \subseteq children /\ deleting \subseteq children
      /\ \A call \in calls : call.child \in children
  BY <1>1 DEF Core, Generations
<1>4. \A u \in Slots :
        /\ slot[u] \in ControllerSlot /\ ChildOf(u) \in Child /\ ChildOf(u).slot = u
        /\ slot[u].state \in {"empty", "lost"} => slot[u].vhf = NoChild /\ Bare(u)
        /\ slot[u].state = "empty" => slot[u].owner = NoFile
        /\ slot[u].state = "active" => slot[u].vhf # NoChild
  BY <1>1, SlotFields DEF Core, SlotStates, SlotOk
<1>5. \A u \in Slots :
        /\ Mark(u) \in ControllerSlot /\ Mark(u).state = "stopping" /\ Mark(u).feedback = NoChild
        /\ Mark(u).vhf = slot[u].vhf /\ Mark(u).owner = slot[u].owner
        /\ Mark(u).generation = slot[u].generation /\ Mark(u).in_flight = slot[u].in_flight
  <2> TAKE u \in Slots
  <2>1. slot[u] \in ControllerSlot
    BY <1>4
  <2> QED BY <2>1 DEF ControllerSlot, States
<1> HIDE DEF Mark
<1>6. \A u \in Slots : slot'[u] = IF Live(u) THEN Mark(u) ELSE slot[u]
  BY <1>1
<1>7. slot' \in [Slots -> ControllerSlot]
  BY <1>1, <1>4, <1>5
<1>8. \A u \in Slots :
        /\ slot'[u].generation = slot[u].generation /\ slot'[u].owner = slot[u].owner
        /\ slot'[u].in_flight = slot[u].in_flight /\ slot'[u].vhf = slot[u].vhf
        /\ slot'[u].feedback \in {slot[u].feedback, NoChild}
        /\ slot[u].state = "active" => slot'[u].state = "stopping"
        /\ slot[u].state # "active" => slot'[u].state = slot[u].state
        /\ ChildOf(u)' = ChildOf(u)
  BY <1>4, <1>5, <1>6 DEF ChildOf
<1>9. /\ children' = children /\ deleting' = deleting /\ started' = started /\ calls' = calls
      /\ retired' = {} /\ powered' = powered /\ ~powered
  BY <1>1, <1>2 DEF vhf, device, Control
<1>10. "down_null" \in PnpLabels /\ "down_null" \in Sweeping /\ "down_null" \in Labels
  BY DEF PnpLabels, Sweeping, Labels
<1>11. pc'["pnp"] = "down_null"
  BY <1>1, <1>10, ThreadFacts, Moves
<1>12. \A c \in handles' : \E u \in Slots : Live(u) /\ c = slot[u].vhf
  BY <1>1
<1>13. \A u \in Slots : Live(u) => slot[u].vhf \in handles'
  BY <1>1
<1>14. \A c \in handles' : c \in children /\ c \in Child /\ c.slot \in Slots /\ slot[c.slot].state = "active"
  BY <1>3, <1>4, <1>12
<1> HIDE DEF Live
<1>15. Generations'
  BY <1>1, <1>3, <1>8, <1>9, OneChild DEF Generations, TypeOK, Child
<1>16. SlotStates'
  <2> SUFFICES ASSUME NEW u \in Slots PROVE SlotOk(u)'
    BY DEF SlotStates
  <2>1. CASE slot[u].state = "active"
    <3>1. ChildOf(u)' \in handles'
      BY <1>3, <1>4, <1>8, <1>13, <2>1 DEF Live
    <3> QED BY <1>8, <1>10, <1>11, <2>1, <3>1 DEF SlotOk, Stopper
  <2>2. CASE slot[u].state \in {"empty", "lost"}
    BY <1>4, <1>8, <1>9, <2>2 DEF SlotOk, Bare
  <2> QED BY <1>2, <2>1, <2>2
<1>17. SweepState'
  BY <1>8, <1>9, <1>10, <1>11, <1>14 DEF SweepState
<1>18. /\ handles' \in SUBSET Child /\ retired' \in SUBSET Child /\ children' \in SUBSET Child
       /\ started' \in SUBSET Child /\ deleting' \in SUBSET Child
       /\ victim' \in [Threads -> Child \cup {NoChild}] /\ worker' \in BOOLEAN
       /\ target' \in [exists : BOOLEAN, open : BOOLEAN, handle : BOOLEAN]
       /\ UNCHANGED <<stopping, forget, req, status, at, present, calls, submits, counts>>
  BY <1>1, <1>9, <1>14 DEF TypeOK, device, vhf
<1>19. \A x \in submits :
          /\ x.child \in children' /\ (x.by \in {"ioctl", "worker"} => x.child \notin deleting')
  BY <1>1, <1>9 DEF Submissions, NoUseAfterDelete
<1> QED BY <1>1, <1>7, <1>8, <1>9, <1>10, <1>15, <1>16, <1>17, <1>18, <1>19, SweepStep

LEMMA PowerDownNullStep == ASSUME IInv, PowerDownNull PROVE IInv'
<1> DEFINE Held(u) == \E c \in handles : c.slot = u
           Null(u) == [slot[u] EXCEPT !.vhf = NoChild]
<1>1. /\ TypeOK /\ Control /\ Core /\ Submissions /\ pc["pnp"] = "down_null"
      /\ slot' = [u \in Slots |-> IF Held(u) THEN Null(u) ELSE slot[u]]
      /\ GoTo("pnp", "down_join")
      /\ UNCHANGED <<device, gate, req, status, at, victim, teardown, vhf, submits, worker, counts>>
  BY DEF IInv, PowerDownNull
<1>2. pc["pnp"] \in Sweeping /\ "down_join" \in PnpLabels /\ "down_join" \in Sweeping /\ "down_join" \in Labels
  BY <1>1 DEF Sweeping, PnpLabels, Labels
<1>3. /\ gate = "pnp" /\ ~powered
      /\ \A u \in Slots : /\ slot[u].state \in {"empty", "lost", "stopping"}
                          /\ slot[u].state = "stopping" => ChildOf(u) \in handles \cup retired
  BY <1>1, <1>2, Swept DEF Control
<1>4. /\ \A c \in children : c.gen = slot[c.slot].generation
      /\ \A u \in Slots : /\ slot[u].vhf \in {NoChild, ChildOf(u)}
                          /\ slot[u].feedback \in {NoChild, ChildOf(u)}
                          /\ slot[u].vhf # NoChild => slot[u].vhf \in children \ deleting
      /\ started \subseteq children /\ deleting \subseteq children
      /\ \A call \in calls : call.child \in children
  BY <1>1 DEF Core, Generations
<1>5. \A u \in Slots :
        /\ slot[u] \in ControllerSlot
        /\ slot[u].state \in {"empty", "lost"} => slot[u].vhf = NoChild /\ Bare(u)
        /\ slot[u].state = "empty" => slot[u].owner = NoFile
  BY <1>1, SlotFields DEF Core, SlotStates, SlotOk
<1>6. \A u \in Slots :
        /\ Null(u) \in ControllerSlot /\ Null(u).state = slot[u].state /\ Null(u).vhf = NoChild
        /\ Null(u).feedback = slot[u].feedback /\ Null(u).owner = slot[u].owner
        /\ Null(u).generation = slot[u].generation /\ Null(u).in_flight = slot[u].in_flight
  <2> TAKE u \in Slots
  <2>1. slot[u] \in ControllerSlot
    BY <1>5
  <2> QED BY <2>1 DEF ControllerSlot
<1> HIDE DEF Null
<1>7. slot' \in [Slots -> ControllerSlot]
  BY <1>1, <1>5, <1>6
<1>8. \A u \in Slots :
        /\ slot'[u].generation = slot[u].generation /\ slot'[u].owner = slot[u].owner
        /\ slot'[u].in_flight = slot[u].in_flight /\ slot'[u].vhf \in {slot[u].vhf, NoChild}
        /\ slot'[u].feedback = slot[u].feedback /\ slot'[u].state = slot[u].state
        /\ ChildOf(u)' = ChildOf(u)
        /\ Held(u) => slot'[u].vhf = NoChild
  BY <1>1, <1>6 DEF ChildOf
<1> HIDE DEF Held
<1>9. /\ children' = children /\ deleting' = deleting /\ started' = started /\ calls' = calls
      /\ handles' = handles /\ retired' = retired /\ powered' = powered /\ gate' = "pnp"
  BY <1>1, <1>3 DEF vhf, device, teardown
<1>10. pc'["pnp"] = "down_join"
  BY <1>1, <1>2, ThreadFacts, Moves
<1>11. /\ \A c \in handles : /\ c \in children /\ c.slot \in Slots
                             /\ slot[c.slot].state = "stopping" /\ Held(c.slot)
       /\ retired = {}
  BY <1>1, OneChild DEF Core, SweepState, Held
<1>12. Generations'
  BY <1>1, <1>4, <1>8, <1>9, OneChild DEF Generations, Core
<1>13. SlotStates'
  <2> SUFFICES ASSUME NEW u \in Slots PROVE SlotOk(u)'
    BY DEF SlotStates
  <2>1. CASE slot[u].state = "stopping"
    BY <1>2, <1>3, <1>8, <1>9, <1>10, <2>1 DEF SlotOk, Stopper
  <2>2. CASE slot[u].state \in {"empty", "lost"}
    BY <1>5, <1>8, <1>9, <2>2 DEF SlotOk, Bare
  <2> QED BY <1>3, <2>1, <2>2
<1>14. SweepState'
  BY <1>2, <1>8, <1>9, <1>10, <1>11 DEF SweepState
<1>15. /\ handles' \in SUBSET Child /\ retired' \in SUBSET Child /\ children' \in SUBSET Child
       /\ started' \in SUBSET Child /\ deleting' \in SUBSET Child
       /\ victim' \in [Threads -> Child \cup {NoChild}] /\ worker' \in BOOLEAN
       /\ target' \in [exists : BOOLEAN, open : BOOLEAN, handle : BOOLEAN]
       /\ UNCHANGED <<stopping, forget, req, status, at, present, calls, submits, counts>>
  BY <1>1, <1>9 DEF TypeOK, device, vhf, teardown
<1>16. \A x \in submits :
         /\ x.child \in children' /\ (x.by \in {"ioctl", "worker"} => x.child \notin deleting')
  BY <1>1, <1>9 DEF Submissions, NoUseAfterDelete
<1> QED BY <1>1, <1>2, <1>3, <1>7, <1>8, <1>9, <1>12, <1>13, <1>14, <1>15, <1>16, SweepStep

(* A step of the sweep that leaves the slots alone.                        *)
LEMMA SweepOnStep ==
  ASSUME IInv, pc["pnp"] \in Sweeping \ {"down_null", "stop_null"},
         NEW l \in Sweeping \ {"down_null", "stop_null"}, GoTo("pnp", l),
         victim' \in [Threads -> Child \cup {NoChild}], worker' \in BOOLEAN,
         children' \in SUBSET Child, started' \in SUBSET Child, deleting' \in SUBSET Child,
         handles' \in SUBSET Child, retired' \in SUBSET Child,
         UNCHANGED <<slot, device, gate, forget, req, status, at, present, calls, submits, counts>>,
         children' \subseteq children, started' \subseteq children', deleting' \subseteq children',
         \A call \in calls : call.child \in children',
         \A u \in Slots : slot[u].vhf \notin children \ children' /\ slot[u].vhf \notin deleting' \ deleting,
         handles \cup retired \subseteq handles' \cup retired',
         \A x \in submits : /\ x.child \in children'
                            /\ x.by \in {"ioctl", "worker"} => x.child \notin deleting',
         SweepState'
  PROVE  IInv'
<1>1. /\ TypeOK /\ Control /\ Core /\ Submissions /\ l \in PnpLabels /\ l \in Labels
      /\ pc["pnp"] \in Sweeping /\ pc["pnp"] # "stop_null"
  BY DEF IInv, Sweeping, PnpLabels, Labels
<1>2. /\ gate = "pnp" /\ ~powered /\ powered' = powered
      /\ \A u \in Slots : /\ slot[u].state \in {"empty", "lost", "stopping"}
                          /\ slot[u].state = "stopping" => ChildOf(u) \in handles \cup retired
  BY <1>1, Swept DEF Control, Sweeping, device
<1>3. pc'["pnp"] = l
  BY <1>1, ThreadFacts, Moves
<1>4. \A u \in Slots : ChildOf(u)' = ChildOf(u)
  BY DEF ChildOf
<1>5. Generations'
  BY <1>1, <1>4 DEF Core, Generations
<1>6. SlotStates'
  <2> SUFFICES ASSUME NEW u \in Slots PROVE SlotOk(u)'
    BY DEF SlotStates
  <2>1. SlotOk(u)
    BY <1>1 DEF Core, SlotStates
  <2>2. CASE slot[u].state = "stopping"
    BY <1>2, <1>3, <1>4, <2>2 DEF SlotOk, Stopper
  <2>3. CASE slot[u].state \in {"empty", "lost"}
    BY <2>1, <2>3 DEF SlotOk, Bare
  <2> QED BY <1>2, <2>2, <2>3
<1>7. /\ slot' \in [Slots -> ControllerSlot]
      /\ target' \in [exists : BOOLEAN, open : BOOLEAN, handle : BOOLEAN]
      /\ UNCHANGED <<stopping, forget, req, status, at, present, calls, submits, counts>>
      /\ gate' = "pnp"
  BY <1>1, <1>2 DEF TypeOK, device
<1>8. \A u \in Slots : slot'[u].owner = slot[u].owner /\ slot'[u].in_flight = slot[u].in_flight
  OBVIOUS
<1> QED BY <1>1, <1>2, <1>5, <1>6, <1>7, <1>8, SweepStep

LEMMA PowerDownJoinStep == ASSUME IInv, PowerDownJoin PROVE IInv'
<1>1. /\ TypeOK /\ Core /\ Submissions /\ pc["pnp"] = "down_join" /\ worker' = FALSE
      /\ GoTo("pnp", "down_each")
      /\ UNCHANGED <<slot, device, gate, req, status, at, victim, teardown, vhf, submits, counts>>
  BY DEF IInv, PowerDownJoin, JoinWorker
<1>2. /\ "down_each" \in Sweeping \ {"down_null", "stop_null"} /\ "down_each" \in Labels
      /\ pc["pnp"] \in Sweeping \ {"down_null", "stop_null"}
  BY <1>1 DEF Sweeping, Labels
<1>3. /\ pc'["pnp"] = "down_each"
      /\ handles' = handles /\ retired' = retired /\ children' = children /\ started' = started
      /\ deleting' = deleting /\ slot' = slot /\ victim' = victim
      /\ UNCHANGED <<slot, device, gate, forget, req, status, at, present, calls, submits, counts>>
  BY <1>1, <1>2, ThreadFacts, Moves DEF teardown, vhf
<1>4. SweepState'
  <2>1. SweepState
    BY <1>1 DEF Core
  <2>2. \A c \in retired : ChildOf(c.slot)' = ChildOf(c.slot) /\ (Bare(c.slot)' <=> Bare(c.slot))
    BY <1>3 DEF ChildOf, Bare
  <2> QED BY <1>1, <1>2, <1>3, <2>1, <2>2 DEF SweepState
<1>5. /\ victim' \in [Threads -> Child \cup {NoChild}] /\ worker' \in BOOLEAN
      /\ children' \in SUBSET Child /\ started' \in SUBSET Child /\ deleting' \in SUBSET Child
      /\ handles' \in SUBSET Child /\ retired' \in SUBSET Child
  BY <1>1, <1>3 DEF TypeOK
<1>6. /\ started' \subseteq children' /\ deleting' \subseteq children'
      /\ \A call \in calls : call.child \in children'
      /\ \A x \in submits : /\ x.child \in children'
                            /\ x.by \in {"ioctl", "worker"} => x.child \notin deleting'
  BY <1>1, <1>3 DEF Core, Generations, Submissions, NoUseAfterDelete
<1> QED BY <1>1, <1>2, <1>3, <1>4, <1>5, <1>6, SweepOnStep

(* wait_for_submits, then VhfDelete of a handle of the sweep.              *)
LEMMA DeleteHandleStep ==
  ASSUME IInv, NEW from, NEW to, DeleteHandle(from, to),
         \/ from = "down_each" /\ to = "down_wait"
         \/ from = "stop_each" /\ to = "stop_wait"
  PROVE  IInv'
<1>1. /\ TypeOK /\ Core /\ Submissions /\ pc["pnp"] = from /\ GoTo("pnp", to)
      /\ UNCHANGED <<slot, device, gate, req, status, at, teardown, children, started, present,
                     calls, submits, worker, counts>>
  BY DEF IInv, DeleteHandle
<1>2. PICK c \in handles : /\ slot[c.slot].in_flight = 0 /\ victim' = [victim EXCEPT !["pnp"] = c]
                           /\ deleting' = deleting \cup {c}
  BY DEF DeleteHandle
<1>3. /\ to \in Sweeping \ {"down_null", "stop_null"} /\ to \in Labels
      /\ pc["pnp"] \in Sweeping \ {"down_null", "stop_null"}
      /\ (pc["pnp"] \in {"down_each", "down_wait"} <=> to \in {"down_each", "down_wait"})
  BY <1>1 DEF Sweeping, Labels
<1>4. /\ pc'["pnp"] = to
      /\ handles' = handles /\ retired' = retired /\ children' = children /\ started' = started
      /\ slot' = slot /\ worker' = worker
      /\ UNCHANGED <<slot, device, gate, forget, req, status, at, present, calls, submits, counts>>
  BY <1>1, <1>3, ThreadFacts, Moves DEF teardown
<1>5. c \in children /\ c \in Child /\ c.slot \in Slots /\ slot[c.slot].vhf = NoChild
  BY <1>1, <1>3, OneChild DEF Core, SweepState
<1>6. victim' \in [Threads -> Child \cup {NoChild}] /\ victim'["pnp"] = c
  BY <1>1, <1>2, <1>5, ThreadFacts DEF TypeOK
<1>7. SweepState'
  <2>1. SweepState
    BY <1>1 DEF Core
  <2>2. \A d \in retired : ChildOf(d.slot)' = ChildOf(d.slot) /\ (Bare(d.slot)' <=> Bare(d.slot))
    BY <1>4 DEF ChildOf, Bare
  <2> QED BY <1>2, <1>3, <1>4, <1>6, <2>1, <2>2 DEF SweepState
<1>8. /\ worker' \in BOOLEAN
      /\ children' \in SUBSET Child /\ started' \in SUBSET Child /\ deleting' \in SUBSET Child
      /\ handles' \in SUBSET Child /\ retired' \in SUBSET Child
  BY <1>1, <1>2, <1>4, <1>5 DEF TypeOK
<1>9. /\ started' \subseteq children' /\ deleting' \subseteq children'
      /\ \A call \in calls : call.child \in children'
  BY <1>1, <1>2, <1>4, <1>5 DEF Core, Generations
<1>10. \A x \in submits : /\ x.child \in children'
                          /\ x.by \in {"ioctl", "worker"} => x.child \notin deleting'
  <2>1. \A x \in submits : x.child.slot # c.slot
    BY <1>1, <1>2, <1>5, CountZero
  <2> QED BY <1>1, <1>2, <1>4, <2>1 DEF Submissions, NoUseAfterDelete
<1>11. \A u \in Slots : slot[u].vhf \notin children \ children' /\ slot[u].vhf \notin deleting' \ deleting
  <2>1. \A u \in Slots : slot[u].vhf # c
    <3> TAKE u \in Slots
    <3>1. slot[u].vhf \in {NoChild, ChildOf(u)} /\ ChildOf(u).slot = u
      BY <1>1, SlotFields DEF Core, Generations
    <3>2. c # NoChild
      BY <1>5, NoChildAssumption
    <3> QED BY <1>5, <3>1, <3>2
  <2> QED BY <1>2, <1>4, <2>1
<1> QED BY <1>1, <1>3, <1>4, <1>6, <1>7, <1>8, <1>9, <1>10, <1>11, SweepOnStep

LEMMA PowerDownDeletedStep == ASSUME IInv, PowerDownDeleted PROVE IInv'
<1>0. PICK c : c = victim["pnp"]
  OBVIOUS
<1>1. /\ TypeOK /\ Core /\ Submissions /\ pc["pnp"] = "down_wait" /\ GoTo("pnp", "down_each")
      /\ EndDelete("pnp") /\ handles' = handles \ {c} /\ retired' = retired \cup {c}
      /\ victim' = [victim EXCEPT !["pnp"] = NoChild]
      /\ UNCHANGED <<slot, device, gate, req, status, at, forget, present, calls, submits, worker, counts>>
  BY <1>0 DEF IInv, PowerDownDeleted
<1>2. /\ "down_each" \in Sweeping \ {"down_null", "stop_null"} /\ "down_each" \in Labels
      /\ pc["pnp"] \in Sweeping \ {"down_null", "stop_null"}
  BY <1>1 DEF Sweeping, Labels
<1>3. SweepState /\ c \in handles /\ c \in deleting
  BY <1>0, <1>1 DEF Core, SweepState
<1>4. /\ c \in children /\ c \in Child /\ c.slot \in Slots /\ c = ChildOf(c.slot)
      /\ slot[c.slot].vhf = NoChild /\ slot[c.slot].state = "stopping"
  BY <1>1, <1>3, OneChild DEF Core, SweepState
<1>5. /\ children' = children \ {c} /\ started' = started \ {c} /\ deleting' = deleting \ {c}
      /\ Drained(c)
  BY <1>0, <1>1 DEF EndDelete
<1>6. (\A call \in calls : call.child # c) /\ (\A x \in submits : x.child # c)
  BY <1>3, <1>5, DeletedIdle
<1>7. pc'["pnp"] = "down_each" /\ victim' \in [Threads -> Child \cup {NoChild}]
  BY <1>1, <1>2, ThreadFacts, Moves DEF TypeOK
<1>8. \A d \in children' : d.slot # c.slot
  BY <1>1, <1>4, <1>5, OneChild DEF Core
<1>9. SweepState'
  <2>1. \A d \in retired' : /\ d = ChildOf(d.slot)' /\ slot'[d.slot].state = "stopping"
                            /\ slot'[d.slot].vhf = NoChild /\ Bare(d.slot)'
    <3> TAKE d \in retired'
    <3>1. CASE d = c
      BY <1>1, <1>4, <1>8, <3>1 DEF ChildOf, Bare
    <3>2. CASE d \in retired
      BY <1>1, <1>3, <1>5, <3>2 DEF SweepState, ChildOf, Bare
    <3> QED BY <1>1, <3>1, <3>2
  <2>2. \A d \in handles' : /\ d \in children' /\ slot'[d.slot].state = "stopping"
                            /\ slot'[d.slot].vhf = NoChild
    BY <1>1, <1>3, <1>5 DEF SweepState
  <2> QED BY <1>2, <1>7, <2>1, <2>2 DEF SweepState
<1>10. /\ worker' \in BOOLEAN
       /\ children' \in SUBSET Child /\ started' \in SUBSET Child /\ deleting' \in SUBSET Child
       /\ handles' \in SUBSET Child /\ retired' \in SUBSET Child
       /\ UNCHANGED <<slot, device, gate, forget, req, status, at, present, calls, submits, counts>>
       /\ children' \subseteq children
       /\ handles \cup retired \subseteq handles' \cup retired'
  BY <1>1, <1>4, <1>5 DEF TypeOK
<1>11. /\ started' \subseteq children' /\ deleting' \subseteq children'
       /\ \A call \in calls : call.child \in children'
       /\ \A x \in submits : /\ x.child \in children'
                             /\ x.by \in {"ioctl", "worker"} => x.child \notin deleting'
  BY <1>1, <1>5, <1>6 DEF Core, Generations, Submissions, NoUseAfterDelete
<1>12. \A u \in Slots : slot[u].vhf \notin children \ children' /\ slot[u].vhf \notin deleting' \ deleting
  <2>1. \A u \in Slots : slot[u].vhf # c
    <3> TAKE u \in Slots
    <3>1. slot[u].vhf # NoChild => slot[u].vhf \in children \ deleting
      BY <1>1 DEF Core, Generations
    <3>2. c # NoChild
      BY <1>4, NoChildAssumption
    <3> QED BY <1>3, <3>1, <3>2
  <2> QED BY <1>5, <2>1
<1> QED BY <1>1, <1>2, <1>7, <1>9, <1>10, <1>11, <1>12, SweepOnStep

LEMMA PowerDownLostStep == ASSUME IInv, PowerDownLost PROVE IInv'
<1> DEFINE Gone(u) == (\E c \in retired : c.slot = u) /\ slot[u].state = "stopping"
           Lost(u) == [ResetSlot(slot[u]) EXCEPT !.owner = slot[u].owner, !.state = "lost"]
<1>1. /\ TypeOK /\ Control /\ Core /\ Submissions /\ pc["pnp"] = "down_each" /\ handles = {}
      /\ slot' = [u \in Slots |-> IF Gone(u) THEN Lost(u) ELSE slot[u]]
      /\ retired' = {} /\ gate' = Free /\ GoTo("pnp", "started")
      /\ UNCHANGED <<device, req, status, at, victim, handles, forget, vhf, submits, worker, counts>>
  BY DEF IInv, PowerDownLost
<1>2. /\ pc["pnp"] \in Sweeping /\ "started" \in PnpLabels /\ "started" \notin Sweeping
      /\ "started" \in Labels
  BY <1>1 DEF Sweeping, PnpLabels, Labels
<1>3. /\ gate = "pnp" /\ ~powered
      /\ \A u \in Slots : /\ slot[u].state \in {"empty", "lost", "stopping"}
                          /\ slot[u].state = "stopping" => ChildOf(u) \in retired
  BY <1>1, <1>2, Swept DEF Control
<1>4. /\ \A c \in children : c.gen = slot[c.slot].generation
      /\ \A u \in Slots : /\ slot[u].vhf \in {NoChild, ChildOf(u)}
                          /\ slot[u].feedback \in {NoChild, ChildOf(u)}
                          /\ slot[u].vhf # NoChild => slot[u].vhf \in children \ deleting
      /\ started \subseteq children /\ deleting \subseteq children
      /\ \A call \in calls : call.child \in children
  BY <1>1 DEF Core, Generations
<1>5. \A u \in Slots :
        /\ slot[u] \in ControllerSlot /\ ChildOf(u).slot = u
        /\ slot[u].state \in {"empty", "lost"} => slot[u].vhf = NoChild /\ Bare(u)
        /\ slot[u].state = "empty" => slot[u].owner = NoFile
  BY <1>1, SlotFields DEF Core, SlotStates, SlotOk
<1>6. \A u \in Slots :
        /\ Lost(u) \in ControllerSlot /\ Lost(u).state = "lost" /\ Lost(u).vhf = NoChild
        /\ Lost(u).feedback = NoChild /\ Lost(u).owner = slot[u].owner
        /\ Lost(u).in_flight = 0
  <2> TAKE u \in Slots
  <2> DEFINE q == ResetSlot(slot[u])
             q1 == [q EXCEPT !.owner = slot[u].owner]
  <2>1. /\ q \in ControllerSlot /\ q.vhf = NoChild /\ q.feedback = NoChild /\ q.in_flight = 0
        /\ slot[u].owner \in Files \cup {NoFile}
    BY <1>1, <1>5, ResetFields, SlotFields
  <2>2. Lost(u) = [q1 EXCEPT !.state = "lost"]
    BY <2>1 DEF ControllerSlot
  <2> HIDE DEF q
  <2>3. q1 \in ControllerSlot /\ q1.owner = slot[u].owner /\ q1.vhf = NoChild
        /\ q1.feedback = NoChild /\ q1.in_flight = 0
    BY <2>1 DEF ControllerSlot
  <2> HIDE DEF q1
  <2> QED BY <2>2, <2>3 DEF ControllerSlot, States
<1>7. \A u \in Slots : Gone(u) <=> slot[u].state = "stopping"
  BY <1>3, <1>5
<1>8. \A u \in Slots : slot[u].state = "stopping" => slot[u].vhf = NoChild /\ Bare(u)
  <2>1. \A c \in retired : slot[c.slot].vhf = NoChild /\ Bare(c.slot)
    BY <1>1 DEF Core, SweepState
  <2> QED BY <1>3, <1>5, <2>1
<1> HIDE DEF Lost, Gone
<1>9. slot' \in [Slots -> ControllerSlot]
  BY <1>1, <1>5, <1>6
<1>10. \A u \in Slots : slot'[u] = IF slot[u].state = "stopping" THEN Lost(u) ELSE slot[u]
  BY <1>1, <1>7
<1>11. \A u \in Slots :
         /\ slot'[u].owner = slot[u].owner /\ slot'[u].state \in {"empty", "lost"}
         /\ slot'[u].state = "empty" => slot'[u].owner = NoFile
         /\ slot'[u].vhf = NoChild /\ Bare(u)
  BY <1>3, <1>5, <1>6, <1>8, <1>10
<1>12. /\ children' = children /\ deleting' = deleting /\ started' = started /\ calls' = calls
       /\ handles' = {} /\ powered' = powered
  BY <1>1, <1>3 DEF vhf, device
<1>13. children = {}
  BY <1>1, <1>11, OneChild DEF Bare, Core
<1>14. Generations'
  <2>1. \A u \in Slots : slot'[u].feedback \in {NoChild, ChildOf(u)'}
    <3> TAKE u \in Slots
    <3>1. CASE slot[u].state = "stopping"
      BY <1>6, <1>10, <3>1
    <3>2. CASE slot[u].state # "stopping"
      BY <1>4, <1>10, <3>2 DEF ChildOf
    <3> QED BY <3>1, <3>2
  <2> QED BY <1>4, <1>11, <1>12, <1>13, <2>1 DEF Generations
<1>15. SlotStates'
  BY <1>11, <1>12 DEF SlotStates, SlotOk, Bare
<1>16. SweepState'
  <2>1. pc'["pnp"] = "started"
    BY <1>1, <1>2, ThreadFacts, Moves
  <2> QED BY <1>1, <1>12, <2>1 DEF SweepState
<1>17. /\ handles' \in SUBSET Child /\ retired' \in SUBSET Child /\ children' \in SUBSET Child
       /\ started' \in SUBSET Child /\ deleting' \in SUBSET Child
       /\ victim' \in [Threads -> Child \cup {NoChild}] /\ worker' \in BOOLEAN
       /\ target' \in [exists : BOOLEAN, open : BOOLEAN, handle : BOOLEAN]
       /\ UNCHANGED <<stopping, forget, req, status, at, present, calls, submits, counts>>
  BY <1>1, <1>12 DEF TypeOK, device, vhf
<1>18. \A u \in Slots : \/ slot'[u].in_flight = slot[u].in_flight
                        \/ slot'[u].in_flight = 0 /\ SubmitsOf(u) = {}
  <2> TAKE u \in Slots
  <2>1. SubmitsOf(u) = {}
    BY <1>1, <1>11, BareIdle
  <2>2. CASE slot[u].state = "stopping"
    BY <1>6, <1>10, <2>1, <2>2
  <2>3. CASE slot[u].state # "stopping"
    BY <1>10, <2>3
  <2> QED BY <2>2, <2>3
<1>19. \A x \in submits :
         /\ x.child \in children' /\ (x.by \in {"ioctl", "worker"} => x.child \notin deleting')
  BY <1>1, <1>12 DEF Submissions, NoUseAfterDelete
<1> QED BY <1>1, <1>2, <1>3, <1>9, <1>11, <1>12, <1>14, <1>15, <1>16, <1>17, <1>18, <1>19, SweepStep

LEMMA PowerDownStep == ASSUME IInv, PowerDown PROVE IInv'
BY PowerDownMarkStep, PowerDownNullStep, PowerDownJoinStep, DeleteHandleStep,
   PowerDownDeletedStep, PowerDownLostStep DEF PowerDown, PowerDownDelete

-----------------------------------------------------------------------------
LEMMA StopMarkStep == ASSUME IInv, StopMark PROVE IInv'
<1> DEFINE Mark(u) == [slot[u] EXCEPT !.state = "stopping", !.feedback = NoChild]
           Quiet(u) == [slot[u] EXCEPT !.feedback = NoChild]
<1>1. /\ TypeOK /\ Control /\ Core /\ Submissions /\ pc["pnp"] = "stop" /\ gate = Free /\ gate' = "pnp"
      /\ slot' = [u \in Slots |->
                    CASE slot[u].state \in {"active", "starting"} -> Mark(u)
                      [] slot[u].state = "lost" -> ResetSlot(slot[u])
                      [] OTHER -> Quiet(u)]
      /\ GoTo("pnp", "stop_null")
      /\ UNCHANGED <<device, req, status, at, victim, teardown, vhf, submits, worker, counts>>
  BY DEF IInv, StopMark
<1>2. /\ handles = {} /\ retired = {}
      /\ \A u \in Slots : slot[u].state \in {"empty", "lost", "active"}
  BY <1>1, Settled
<1>3. /\ \A c \in children : c.gen = slot[c.slot].generation
      /\ \A u \in Slots : /\ slot[u].vhf \in {NoChild, ChildOf(u)}
                          /\ slot[u].vhf # NoChild => slot[u].vhf \in children \ deleting
      /\ started \subseteq children /\ deleting \subseteq children
      /\ \A call \in calls : call.child \in children
  BY <1>1 DEF Core, Generations
<1>4. \A u \in Slots :
        /\ slot[u] \in ControllerSlot
        /\ slot[u].state \in {"empty", "lost"} => slot[u].vhf = NoChild /\ Bare(u)
        /\ slot[u].state = "empty" => slot[u].owner = NoFile
        /\ slot[u].state = "active" => slot[u].vhf # NoChild
  BY <1>1, SlotFields DEF Core, SlotStates, SlotOk
<1>5. \A u \in Slots :
        /\ Mark(u) \in ControllerSlot /\ Mark(u).state = "stopping" /\ Mark(u).feedback = NoChild
        /\ Mark(u).vhf = slot[u].vhf /\ Mark(u).owner = slot[u].owner
        /\ Mark(u).generation = slot[u].generation /\ Mark(u).in_flight = slot[u].in_flight
  <2> TAKE u \in Slots
  <2>1. slot[u] \in ControllerSlot
    BY <1>4
  <2> QED BY <2>1 DEF ControllerSlot, States
<1>6. \A u \in Slots :
        /\ Quiet(u) \in ControllerSlot /\ Quiet(u).state = slot[u].state /\ Quiet(u).feedback = NoChild
        /\ Quiet(u).vhf = slot[u].vhf /\ Quiet(u).owner = slot[u].owner
        /\ Quiet(u).generation = slot[u].generation /\ Quiet(u).in_flight = slot[u].in_flight
  <2> TAKE u \in Slots
  <2>1. slot[u] \in ControllerSlot
    BY <1>4
  <2> QED BY <2>1 DEF ControllerSlot
<1> HIDE DEF Mark, Quiet
<1>7. \A u \in Slots :
        /\ slot[u].state = "active" => slot'[u] = Mark(u)
        /\ slot[u].state = "lost" => slot'[u] = ResetSlot(slot[u])
        /\ slot[u].state = "empty" => slot'[u] = Quiet(u)
  BY <1>1
<1>8. \A u \in Slots : slot'[u] \in ControllerSlot
  BY <1>2, <1>4, <1>5, <1>6, <1>7, ResetFields
<1>9. slot' \in [Slots -> ControllerSlot]
  <2>1. DOMAIN slot' = Slots /\ slot' = [u \in Slots |-> slot'[u]]
    BY <1>1
  <2> QED BY <1>8, <2>1
<1>10. \A u \in Slots : slot[u].state = "active" =>
         /\ slot'[u].state = "stopping" /\ slot'[u].vhf = slot[u].vhf /\ slot'[u].owner = slot[u].owner
         /\ slot'[u].feedback = NoChild /\ slot'[u].generation = slot[u].generation
         /\ slot'[u].in_flight = slot[u].in_flight /\ ChildOf(u)' = ChildOf(u)
  BY <1>5, <1>7 DEF ChildOf
<1>11. \A u \in Slots : slot[u].state \in {"empty", "lost"} =>
         /\ slot'[u].state = "empty" /\ slot'[u].vhf = NoChild /\ slot'[u].owner = NoFile
         /\ slot'[u].feedback = NoChild /\ slot'[u].in_flight \in {0, slot[u].in_flight} /\ Bare(u)
  BY <1>4, <1>6, <1>7, ResetFields
<1>12. /\ children' = children /\ deleting' = deleting /\ started' = started /\ calls' = calls
       /\ handles' = {} /\ retired' = {} /\ powered' = powered /\ ~powered
  BY <1>1, <1>2 DEF vhf, device, teardown, Control
<1>13. "stop_null" \in PnpLabels /\ "stop_null" \in Sweeping /\ "stop_null" \in Labels
  BY DEF PnpLabels, Sweeping, Labels
<1>14. pc'["pnp"] = "stop_null"
  BY <1>1, <1>13, ThreadFacts, Moves
<1>15. Generations'
  <2>1. \A c \in children : c.slot \in Slots /\ slot[c.slot].state = "active"
    BY <1>1, <1>2, <1>4, OneChild DEF Core, Bare
  <2>2. \A c \in children : c.gen = slot'[c.slot].generation
    BY <1>3, <1>10, <2>1
  <2>3. \A u \in Slots : /\ slot'[u].vhf \in {NoChild, ChildOf(u)'}
                         /\ slot'[u].feedback \in {NoChild, ChildOf(u)'}
                         /\ slot'[u].vhf # NoChild => slot'[u].vhf \in children \ deleting
    BY <1>2, <1>3, <1>10, <1>11
  <2> QED BY <1>3, <1>12, <2>2, <2>3 DEF Generations
<1>16. SlotStates'
  <2> SUFFICES ASSUME NEW u \in Slots PROVE SlotOk(u)'
    BY DEF SlotStates
  <2>1. CASE slot[u].state = "active"
    BY <1>4, <1>10, <1>14, <2>1 DEF SlotOk, Stopper
  <2>2. CASE slot[u].state \in {"empty", "lost"}
    BY <1>11, <1>12, <2>2 DEF SlotOk, Bare
  <2> QED BY <1>2, <2>1, <2>2
<1>17. SweepState'
  BY <1>12, <1>14 DEF SweepState
<1>18. /\ handles' \in SUBSET Child /\ retired' \in SUBSET Child /\ children' \in SUBSET Child
       /\ started' \in SUBSET Child /\ deleting' \in SUBSET Child
       /\ victim' \in [Threads -> Child \cup {NoChild}] /\ worker' \in BOOLEAN
       /\ target' \in [exists : BOOLEAN, open : BOOLEAN, handle : BOOLEAN]
       /\ UNCHANGED <<stopping, forget, req, status, at, present, calls, submits, counts>>
  BY <1>1, <1>12 DEF TypeOK, device, vhf, teardown
<1>19. \A u \in Slots : /\ slot'[u].owner \in {slot[u].owner, NoFile}
                        /\ \/ slot'[u].in_flight = slot[u].in_flight
                           \/ slot'[u].in_flight = 0 /\ SubmitsOf(u) = {}
  <2> TAKE u \in Slots
  <2>1. CASE slot[u].state = "active"
    BY <1>10, <2>1
  <2>2. CASE slot[u].state \in {"empty", "lost"}
    BY <1>1, <1>11, <2>2, BareIdle
  <2> QED BY <1>2, <2>1, <2>2
<1>20. \A x \in submits :
         /\ x.child \in children' /\ (x.by \in {"ioctl", "worker"} => x.child \notin deleting')
  BY <1>1, <1>12 DEF Submissions, NoUseAfterDelete
<1> QED BY <1>1, <1>9, <1>12, <1>13, <1>15, <1>16, <1>17, <1>18, <1>19, <1>20, SweepStep

LEMMA StopNullStep == ASSUME IInv, StopNull PROVE IInv'
<1> DEFINE Live(u) == slot[u].state = "stopping" /\ slot[u].vhf # NoChild
           Null(u) == [slot[u] EXCEPT !.vhf = NoChild]
<1>1. /\ TypeOK /\ Control /\ Core /\ Submissions /\ pc["pnp"] = "stop_null"
      /\ target' = IF forget THEN [exists |-> FALSE, open |-> FALSE, handle |-> FALSE]
                   ELSE [target EXCEPT !.handle = FALSE]
      /\ handles' = {slot[u].vhf : u \in {v \in Slots : Live(v)}}
      /\ slot' = [u \in Slots |-> IF u \in {v \in Slots : Live(v)} THEN Null(u) ELSE slot[u]]
      /\ GoTo("pnp", "stop_each")
      /\ UNCHANGED <<powered, stopping, gate, req, status, at, victim, retired, forget, vhf, submits, worker, counts>>
  BY DEF IInv, StopNull
<1>2. pc["pnp"] \in Sweeping /\ "stop_each" \in PnpLabels /\ "stop_each" \in Sweeping /\ "stop_each" \in Labels
  BY <1>1 DEF Sweeping, PnpLabels, Labels
<1>3. handles = {} /\ retired = {}
  BY <1>1 DEF Core, SweepState
<1>4. /\ gate = "pnp" /\ ~powered
      /\ \A u \in Slots : /\ slot[u].state \in {"empty", "lost", "stopping"}
                          /\ slot[u].state = "stopping" => slot[u].vhf # NoChild
  BY <1>1, <1>2, <1>3, Swept DEF Control
<1>5. /\ \A c \in children : c.gen = slot[c.slot].generation
      /\ \A u \in Slots : /\ slot[u].vhf \in {NoChild, ChildOf(u)}
                          /\ slot[u].feedback \in {NoChild, ChildOf(u)}
                          /\ slot[u].vhf # NoChild => slot[u].vhf \in children \ deleting
      /\ started \subseteq children /\ deleting \subseteq children
      /\ \A call \in calls : call.child \in children
  BY <1>1 DEF Core, Generations
<1>6. \A u \in Slots :
        /\ slot[u] \in ControllerSlot /\ ChildOf(u) \in Child /\ ChildOf(u).slot = u
        /\ slot[u].state \in {"empty", "lost"} => slot[u].vhf = NoChild /\ Bare(u)
        /\ slot[u].state = "empty" => slot[u].owner = NoFile
  BY <1>1, SlotFields DEF Core, SlotStates, SlotOk
<1>7. \A u \in Slots :
        /\ Null(u) \in ControllerSlot /\ Null(u).state = slot[u].state /\ Null(u).vhf = NoChild
        /\ Null(u).feedback = slot[u].feedback /\ Null(u).owner = slot[u].owner
        /\ Null(u).generation = slot[u].generation /\ Null(u).in_flight = slot[u].in_flight
  <2> TAKE u \in Slots
  <2>1. slot[u] \in ControllerSlot
    BY <1>6
  <2> QED BY <2>1 DEF ControllerSlot
<1> HIDE DEF Null
<1>8. slot' \in [Slots -> ControllerSlot]
  BY <1>1, <1>6, <1>7
<1>9. \A u \in Slots :
        /\ slot'[u].generation = slot[u].generation /\ slot'[u].owner = slot[u].owner
        /\ slot'[u].in_flight = slot[u].in_flight /\ slot'[u].vhf = NoChild
        /\ slot'[u].feedback = slot[u].feedback /\ slot'[u].state = slot[u].state
        /\ ChildOf(u)' = ChildOf(u)
  BY <1>1, <1>4, <1>6, <1>7 DEF ChildOf
<1>10. \A u \in Slots : slot[u].state = "stopping" => ChildOf(u) \in handles'
  <2>1. \A u \in Slots : Live(u) => slot[u].vhf \in handles'
    BY <1>1
  <2> QED BY <1>4, <1>5, <2>1
<1>11. \A c \in handles' : \E u \in Slots : Live(u) /\ c = slot[u].vhf
  BY <1>1
<1>12. \A c \in handles' : c \in children /\ c \in Child /\ c.slot \in Slots /\ slot[c.slot].state = "stopping"
  BY <1>5, <1>6, <1>11
<1>13. /\ children' = children /\ deleting' = deleting /\ started' = started /\ calls' = calls
       /\ retired' = {} /\ powered' = powered /\ gate' = "pnp"
  BY <1>1, <1>3, <1>4 DEF vhf
<1>14. pc'["pnp"] = "stop_each"
  BY <1>1, <1>2, ThreadFacts, Moves
<1>15. Generations'
  BY <1>1, <1>5, <1>9, <1>13, OneChild DEF Generations, Core
<1>16. SlotStates'
  <2> SUFFICES ASSUME NEW u \in Slots PROVE SlotOk(u)'
    BY DEF SlotStates
  <2>1. CASE slot[u].state = "stopping"
    BY <1>2, <1>9, <1>10, <1>14, <2>1 DEF SlotOk, Stopper
  <2>2. CASE slot[u].state \in {"empty", "lost"}
    BY <1>6, <1>9, <1>13, <2>2 DEF SlotOk, Bare
  <2> QED BY <1>4, <2>1, <2>2
<1>17. SweepState'
  BY <1>2, <1>9, <1>12, <1>13, <1>14 DEF SweepState
<1>18. target' \in [exists : BOOLEAN, open : BOOLEAN, handle : BOOLEAN]
  BY <1>1 DEF TypeOK
<1>19. /\ handles' \in SUBSET Child /\ retired' \in SUBSET Child /\ children' \in SUBSET Child
       /\ started' \in SUBSET Child /\ deleting' \in SUBSET Child
       /\ victim' \in [Threads -> Child \cup {NoChild}] /\ worker' \in BOOLEAN
       /\ UNCHANGED <<stopping, forget, req, status, at, present, calls, submits, counts>>
  BY <1>1, <1>12, <1>13 DEF TypeOK, vhf
<1>20. \A x \in submits :
         /\ x.child \in children' /\ (x.by \in {"ioctl", "worker"} => x.child \notin deleting')
  BY <1>1, <1>13 DEF Submissions, NoUseAfterDelete
<1> QED BY <1>1, <1>2, <1>4, <1>8, <1>9, <1>13, <1>15, <1>16, <1>17, <1>18, <1>19, <1>20, SweepStep

LEMMA StopDeletedStep == ASSUME IInv, StopDeleted PROVE IInv'
<1>0. PICK c, s : c = victim["pnp"] /\ s = c.slot
  OBVIOUS
<1>1. /\ TypeOK /\ Control /\ Core /\ Submissions /\ pc["pnp"] = "stop_wait" /\ GoTo("pnp", "stop_each")
      /\ EndDelete("pnp") /\ handles' = handles \ {c} /\ SetSlot(s, ResetSlot(slot[s]))
      /\ victim' = [victim EXCEPT !["pnp"] = NoChild]
      /\ UNCHANGED <<device, gate, req, status, at, retired, forget, present, calls, submits, worker, counts>>
  BY <1>0 DEF IInv, StopDeleted
<1>2. pc["pnp"] \in Sweeping /\ "stop_each" \in PnpLabels /\ "stop_each" \in Sweeping /\ "stop_each" \in Labels
  BY <1>1 DEF Sweeping, PnpLabels, Labels
<1>3. SweepState /\ c \in handles /\ c \in deleting /\ retired = {}
  BY <1>0, <1>1 DEF Core, SweepState
<1>4. /\ gate = "pnp" /\ ~powered
      /\ \A u \in Slots : /\ slot[u].state \in {"empty", "lost", "stopping"}
                          /\ slot[u].state = "stopping" => ChildOf(u) \in handles
  BY <1>1, <1>2, <1>3, Swept DEF Control
<1>5. c \in children /\ c \in Child /\ s \in Slots /\ c = ChildOf(s)
  BY <1>0, <1>1, <1>3, OneChild DEF Core, SweepState
<1>6. /\ children' = children \ {c} /\ started' = started \ {c} /\ deleting' = deleting \ {c}
      /\ Drained(c)
  BY <1>0, <1>1 DEF EndDelete
<1>7. (\A call \in calls : call.child # c) /\ (\A x \in submits : x.child # c)
  BY <1>3, <1>6, DeletedIdle
<1>8. \A d \in children' : d.slot # s
  BY <1>1, <1>5, <1>6, OneChild DEF Core
<1>9. /\ ResetSlot(slot[s]) \in ControllerSlot
      /\ ResetSlot(slot[s]).state = "empty" /\ ResetSlot(slot[s]).owner = NoFile
      /\ ResetSlot(slot[s]).vhf = NoChild /\ ResetSlot(slot[s]).feedback = NoChild
      /\ ResetSlot(slot[s]).in_flight = 0
  BY <1>1, <1>5, SlotFields, ResetFields
<1>10. /\ slot' \in [Slots -> ControllerSlot] /\ slot'[s] = ResetSlot(slot[s])
       /\ \A u \in Slots : u # s => slot'[u] = slot[u]
  BY <1>1, <1>5, <1>9, SetFacts
<1>11. \A u \in Slots : u # s => ChildOf(u)' = ChildOf(u) /\ ChildOf(u) # c /\ ChildOf(u).slot = u
  BY <1>1, <1>5, <1>10, SlotFields DEF ChildOf
<1>12. pc'["pnp"] = "stop_each" /\ victim' \in [Threads -> Child \cup {NoChild}]
  BY <1>1, <1>2, ThreadFacts, Moves DEF TypeOK
<1>13. Generations'
  <2>1. \A d \in children' : d.slot \in Slots /\ d.slot # s /\ d.gen = slot[d.slot].generation
    BY <1>1, <1>6, <1>8, OneChild DEF Core, Generations
  <2>2. \A u \in Slots : /\ slot'[u].vhf \in {NoChild, ChildOf(u)'}
                         /\ slot'[u].feedback \in {NoChild, ChildOf(u)'}
                         /\ slot'[u].vhf # NoChild => slot'[u].vhf \in children' \ deleting'
    <3> TAKE u \in Slots
    <3>1. CASE u = s
      BY <1>9, <1>10, <3>1
    <3>2. CASE u # s
      BY <1>1, <1>6, <1>10, <1>11, <3>2 DEF Core, Generations
    <3> QED BY <3>1, <3>2
  <2>3. /\ started' \subseteq children' /\ deleting' \subseteq children'
        /\ \A call \in calls' : call.child \in children'
    BY <1>1, <1>6, <1>7 DEF Core, Generations
  <2> QED BY <1>10, <2>1, <2>2, <2>3 DEF Generations
<1>14. SlotStates'
  <2> SUFFICES ASSUME NEW u \in Slots PROVE SlotOk(u)'
    BY DEF SlotStates
  <2>1. CASE u = s
    BY <1>8, <1>9, <1>10, <2>1 DEF SlotOk, Bare
  <2>2. CASE u # s /\ slot[u].state = "stopping"
    BY <1>1, <1>2, <1>4, <1>10, <1>11, <1>12, <2>2 DEF SlotOk, Stopper
  <2>3. CASE u # s /\ slot[u].state \in {"empty", "lost"}
    <3>1. SlotOk(u)
      BY <1>1 DEF Core, SlotStates
    <3> QED BY <1>6, <1>10, <2>3, <3>1 DEF SlotOk, Bare
  <2> QED BY <1>4, <2>1, <2>2, <2>3
<1>15. SweepState'
  <2>1. \A d \in handles' : /\ d \in children' /\ d.slot \in Slots /\ d.slot # s
                            /\ slot[d.slot].state = "stopping" /\ slot[d.slot].vhf = NoChild
    <3> TAKE d \in handles'
    <3>1. d \in children /\ d # c /\ slot[d.slot].state = "stopping" /\ slot[d.slot].vhf = NoChild
      BY <1>1, <1>3 DEF SweepState
    <3>2. d \in children' /\ d.slot \in Slots
      BY <1>1, <1>6, <3>1, OneChild DEF Core
    <3> QED BY <1>8, <3>1, <3>2
  <2> QED BY <1>1, <1>2, <1>3, <1>10, <1>12, <2>1 DEF SweepState
<1>16. \A u \in Slots : /\ slot'[u].owner \in {slot[u].owner, NoFile}
                        /\ \/ slot'[u].in_flight = slot[u].in_flight
                           \/ slot'[u].in_flight = 0 /\ SubmitsOf(u) = {}
  <2>1. \A x \in submits : x.child \in children'
    BY <1>1, <1>6, <1>7 DEF Submissions
  <2>2. SubmitsOf(s) = {}
    BY <1>8, <2>1 DEF SubmitsOf
  <2> TAKE u \in Slots
  <2>3. CASE u = s
    BY <1>9, <1>10, <2>2, <2>3
  <2>4. CASE u # s
    BY <1>10, <2>4
  <2> QED BY <2>3, <2>4
<1>17. /\ handles' \in SUBSET Child /\ retired' \in SUBSET Child /\ children' \in SUBSET Child
       /\ started' \in SUBSET Child /\ deleting' \in SUBSET Child /\ worker' \in BOOLEAN
       /\ target' \in [exists : BOOLEAN, open : BOOLEAN, handle : BOOLEAN]
       /\ UNCHANGED <<stopping, forget, req, status, at, present, calls, submits, counts>>
       /\ powered' = powered /\ gate' = "pnp"
  BY <1>1, <1>4, <1>6 DEF TypeOK, device
<1>18. \A x \in submits :
         /\ x.child \in children' /\ (x.by \in {"ioctl", "worker"} => x.child \notin deleting')
  BY <1>1, <1>6, <1>7 DEF Submissions, NoUseAfterDelete
<1> QED BY <1>1, <1>2, <1>4, <1>10, <1>12, <1>13, <1>14, <1>15, <1>16, <1>17, <1>18, SweepStep

LEMMA StopJoinStep == ASSUME IInv, StopJoin PROVE IInv'
<1>1. PICK l \in {"removed", "close"} : GoTo("pnp", l)
  BY DEF StopJoin
<1>2. /\ TypeOK /\ Control /\ Core /\ Submissions /\ pc["pnp"] = "stop_each" /\ handles = {}
      /\ worker' = FALSE /\ gate' = Free
      /\ UNCHANGED <<slot, device, req, status, at, victim, teardown, vhf, submits, counts>>
  BY DEF IInv, StopJoin, JoinWorker
<1>3. /\ pc["pnp"] \in Sweeping /\ l \in PnpLabels /\ l \notin Sweeping /\ l \in Labels
  BY <1>2 DEF Sweeping, PnpLabels, Labels
<1>4. retired = {}
  BY <1>2 DEF Core, SweepState
<1>5. /\ gate = "pnp" /\ ~powered
      /\ \A u \in Slots : slot[u].state \in {"empty", "lost"}
  BY <1>2, <1>3, <1>4, Swept DEF Control
<1>6. /\ handles' = {} /\ retired' = {} /\ slot' = slot /\ children' = children /\ started' = started
      /\ deleting' = deleting /\ calls' = calls /\ powered' = powered
      /\ UNCHANGED <<stopping, forget, req, status, at, present, calls, submits, counts>>
  BY <1>2, <1>4 DEF teardown, vhf, device
<1>7. Generations'
  <2>1. \A u \in Slots : ChildOf(u)' = ChildOf(u)
    BY <1>6 DEF ChildOf
  <2> QED BY <1>2, <1>6, <2>1 DEF Core, Generations
<1>8. SlotStates'
  <2> SUFFICES ASSUME NEW u \in Slots PROVE SlotOk(u)'
    BY DEF SlotStates
  <2>1. SlotOk(u) /\ slot[u].state \in {"empty", "lost"}
    BY <1>2, <1>5 DEF Core, SlotStates
  <2> QED BY <1>6, <2>1 DEF SlotOk, Bare
<1>9. SweepState'
  <2>1. pc'["pnp"] = l
    BY <1>1, <1>2, <1>3, ThreadFacts, Moves
  <2> QED BY <1>6, <2>1 DEF SweepState
<1>10. /\ slot' \in [Slots -> ControllerSlot] /\ children' \in SUBSET Child
       /\ started' \in SUBSET Child /\ deleting' \in SUBSET Child
       /\ victim' \in [Threads -> Child \cup {NoChild}] /\ worker' \in BOOLEAN
       /\ target' \in [exists : BOOLEAN, open : BOOLEAN, handle : BOOLEAN]
  BY <1>2, <1>6 DEF TypeOK, device
<1>11. \A x \in submits :
         /\ x.child \in children' /\ (x.by \in {"ioctl", "worker"} => x.child \notin deleting')
  BY <1>2, <1>6 DEF Submissions, NoUseAfterDelete
<1>12. \A u \in Slots : slot'[u].owner = slot[u].owner /\ slot'[u].in_flight = slot[u].in_flight
  BY <1>6
<1> QED BY <1>1, <1>2, <1>3, <1>5, <1>6, <1>7, <1>8, <1>9, <1>10, <1>11, <1>12, SweepStep

LEMMA StopStep == ASSUME IInv, Stop PROVE IInv'
BY StopMarkStep, StopNullStep, DeleteHandleStep, StopDeletedStep, StopJoinStep, CloseTargetStep
   DEF Stop, StopDelete

-----------------------------------------------------------------------------
(* Every step of the driver, of its clients, of VHF and of PnP.            *)
LEMMA NextStep == ASSUME IInv, [Next]_vars PROVE IInv'
<1>1. CASE Request
  BY <1>1, CreateCheckStep, DestroyCheckStep, SubmitCheckStep, UpdateCheckStep, PollFeedbackStep
     DEF Request
<1>2. CASE Create
  BY <1>2, CreateStep
<1>3. CASE Submit
  BY <1>3, SubmitQueuedStep, SubmitTakenStep, SubmitEndStep DEF Submit
<1>4. CASE \E f \in Files : FileClose(f)
  BY <1>4, FileCloseStep
<1>5. CASE \E t \in Destroyers : Destroy(t)
  BY <1>5, DestroyStep
<1>6. CASE \E c \in started, kind \in {"ready", "write"} : CallbackEnter(c, kind)
  BY <1>6, CallbackEnterStep
<1>7. CASE \E call \in calls : Callback(call)
  BY <1>7, WritePublishStep, CallbackPumpStep, CallbackEndStep DEF Callback
<1>8. CASE Keepalive
  <2>1. CASE KeepaliveExit
    <3>1. /\ present' \subseteq present /\ worker' \in BOOLEAN
          /\ UNCHANGED <<slot, device, gate, pc, req, status, at, victim, teardown, children, started,
                         deleting, calls, submits, counts>>
      BY <2>1 DEF KeepaliveExit, vhf
    <3> QED BY <3>1, ElsewhereStep
  <2> QED BY <1>8, <2>1, KeepaliveTickStep, KeepaliveSubmittedStep DEF Keepalive
<1>9. CASE \E s \in Slots : ChildRemoved(s)
  <2>1. /\ present' \subseteq present /\ worker' \in BOOLEAN
        /\ UNCHANGED <<slot, device, gate, pc, req, status, at, victim, teardown, children, started,
                       deleting, calls, submits, counts>>
    BY <1>9 DEF ChildRemoved, IInv, TypeOK
  <2> QED BY <2>1, ElsewhereStep
<1>10. CASE PowerUp \/ D0Exit
  BY <1>10, PrepareHardwareStep, D0EntryStep, D0ExitStep DEF PowerUp
<1>11. CASE PowerDown
  BY <1>11, PowerDownStep
<1>12. CASE ReleaseHardware \/ TargetCleanup
  <2>1. /\ {"started", "working"} \in SUBSET (PnpLabels \ Sweeping)
        /\ {"stopped", "working"} \in SUBSET (PnpLabels \ Sweeping)
    BY DEF PnpLabels, Sweeping
  <2> QED BY <1>12, <2>1, StopIntentStep DEF ReleaseHardware, TargetCleanup
<1>13. CASE Stop
  BY <1>13, StopStep
<1>14. CASE UNCHANGED vars
  <2>1. /\ present' \subseteq present /\ worker' \in BOOLEAN
        /\ UNCHANGED <<slot, device, gate, pc, req, status, at, victim, teardown, children, started,
                       deleting, calls, submits, counts>>
    BY <1>14 DEF vars, IInv, TypeOK, device, teardown, counts
  <2> QED BY <2>1, ElsewhereStep
<1> QED BY <1>1, <1>2, <1>3, <1>4, <1>5, <1>6, <1>7, <1>8, <1>9, <1>10, <1>11, <1>12, <1>13, <1>14
        DEF Next, Terminated

LEMMA InvAlways == SafetySpec => []IInv
<1>1. Init => IInv
  BY InitInv
<1>2. IInv /\ [Next]_vars => IInv'
  BY NextStep
<1> QED BY <1>1, <1>2, PTL DEF SafetySpec

(* The device context and the threads in it stay well-formed.              *)
THEOREM LifecycleTypeCorrect == SafetySpec => []TypeOK
<1>1. IInv => TypeOK
  BY DEF IInv
<1> QED BY <1>1, InvAlways, PTL

(* No thread is in VhfReadReportSubmit with a handle VhfDelete has freed   *)
(* or, unless VHF waits for it, is about to free: wait_for_submits sees    *)
(* every submission an IOCTL or the keep-alive worker has begun, and no    *)
(* new one can begin once the slot has forgotten its handle.               *)
THEOREM NoHandleUsedAfterDelete == SafetySpec => []NoUseAfterDelete
<1>1. IInv => NoUseAfterDelete
  BY DEF IInv, Submissions
<1> QED BY <1>1, InvAlways, PTL

(* reset_slot never runs under a live child, and VhfCreate never while PnP *)
(* lists the child before it.                                              *)
THEOREM ChildNeverOutlivesSlot == SafetySpec => []SlotOutlivesChild
<1>1. IInv => SlotOutlivesChild
  <2> HAVE IInv
  <2>1. DOMAIN slot = Slots
    BY DEF IInv, TypeOK
  <2>2. \A c \in children : slot[c.slot].generation = c.gen
    BY DEF IInv, Core, Generations
  <2>3. \A s \in Slots : slot[s].feedback # NoChild => slot[s].feedback = ChildOf(s)
    BY DEF IInv, Core, Generations
  <2>4. pc["ioctl"] \in {"open", "create", "start"} => req.slot \notin present
    BY DEF IInv, Core, Creator
  <2> QED BY <2>1, <2>2, <2>3, <2>4 DEF SlotOutlivesChild
<1> QED BY <1>1, InvAlways, PTL

(* submits_in_flight is the number of submissions under way.               *)
THEOREM InFlightExact == SafetySpec => []SubmitsExact
<1>1. IInv => SubmitsExact
  <2> HAVE IInv
  <2>1. DOMAIN slot = Slots
    BY DEF IInv, TypeOK
  <2> QED BY <2>1 DEF IInv, Submissions, SubmitsOf, SubmitsExact
<1> QED BY <1>1, InvAlways, PTL

(* Whoever finds the lifetime gate free finds nothing half done.           *)
THEOREM GateLeavesSettled == SafetySpec => []SettledWhenFree
<1>1. IInv => SettledWhenFree
  <2> SUFFICES ASSUME IInv, gate = Free
               PROVE  /\ \A s \in DOMAIN slot :
                           \/ slot[s].state \in {"empty", "lost"} /\ slot[s].vhf = NoChild
                           \/ slot[s].state = "active" /\ slot[s].vhf # NoChild
                      /\ children = {slot[s].vhf : s \in DOMAIN slot} \ {NoChild}
                      /\ pc["pnp"] \in {"stopped", "started", "removed"} => children = {}
                      /\ \A s \in DOMAIN slot : slot[s].owner # NoFile => pc[slot[s].owner] # "closed"
    BY DEF SettledWhenFree
  <2>1. TypeOK /\ Passed /\ Generations /\ DOMAIN slot = Slots
    BY DEF IInv, TypeOK, Core
  <2>2. \A s \in Slots : slot[s].state \in {"empty", "lost", "active"}
    BY Settled
  <2>3. \A s \in Slots :
          /\ slot[s].state \in {"empty", "lost"} => slot[s].vhf = NoChild /\ Bare(s)
          /\ slot[s].state = "active" => slot[s].vhf # NoChild /\ pc["pnp"] \notin Rest
    BY DEF IInv, Core, SlotStates, SlotOk
  <2>4. \A c \in children : c.slot \in Slots /\ slot[c.slot].state = "active" /\ c = slot[c.slot].vhf
    <3> TAKE c \in children
    <3>1. c.slot \in Slots /\ c = ChildOf(c.slot)
      BY <2>1, OneChild
    <3>2. slot[c.slot].state = "active"
      BY <2>2, <2>3, <3>1 DEF Bare
    <3> QED BY <2>1, <2>3, <3>1, <3>2 DEF Generations
  <2>5. \A s \in Slots : slot[s].vhf # NoChild => slot[s].vhf \in children
    BY <2>1 DEF Generations
  <2>6. children = {slot[s].vhf : s \in Slots} \ {NoChild}
    BY <2>3, <2>4, <2>5
  <2>7. pc["pnp"] \in {"stopped", "started", "removed"} => children = {}
    BY <2>3, <2>4 DEF Rest
  <2>8. \A s \in Slots : slot[s].owner # NoFile => pc[slot[s].owner] # "closed"
    BY <2>1, SlotFields DEF Passed
  <2> QED BY <2>1, <2>2, <2>3, <2>6, <2>7, <2>8
<1> QED BY <1>1, InvAlways, PTL

-----------------------------------------------------------------------------
(* A slot that is written as a whole.                                      *)
LEMMA SetOwner ==
  ASSUME TypeOK, NEW s \in Slots, NEW u \in Slots, NEW r, SetSlot(u, r),
         slot'[s].owner # slot[s].owner
  PROVE  s = u /\ slot'[s] = r
BY DEF TypeOK, SetSlot

LEMMA SetOwnerKept ==
  ASSUME TypeOK, NEW s \in Slots, NEW u \in Slots, NEW r, SetSlot(u, r), r.owner = slot[u].owner
  PROVE  slot'[s].owner = slot[s].owner
BY DEF TypeOK, SetSlot

LEMMA LostOwnerStep ==
  ASSUME IInv, Next, NEW s \in Slots, slot[s].state = "lost", slot'[s].owner # slot[s].owner
  PROVE  \/ pc["pnp"] = "stop"
         \/ pc["ioctl"] \in {"admit", "destroy"} /\ req.file = slot[s].owner
         \/ pc[slot[s].owner] = "destroy"
<1>1. TypeOK /\ slot[s] \in ControllerSlot /\ req.slot \in Slots
  BY SlotFields DEF IInv, TypeOK
<1>2. \A u \in Slots : slot[u] \in ControllerSlot
  BY <1>1 DEF TypeOK
<1>3. slot' # slot
  OBVIOUS
<1>4. ~Request
  <2> SUFFICES ASSUME NEW f \in Files, NEW u \in Slots, PollFeedback(f, u) PROVE FALSE
    BY <1>3 DEF Request, CreateCheck, DestroyCheck, SubmitCheck, UpdateCheck
  <2>1. SetSlot(u, [slot[u] EXCEPT !.feedback = NoChild])
    BY <1>3 DEF PollFeedback
  <2>2. [slot[u] EXCEPT !.feedback = NoChild].owner = slot[u].owner
    BY <1>1, <1>2 DEF ControllerSlot
  <2> QED BY <1>1, <2>1, <2>2, SetOwnerKept
<1>5. \A st : ~ReleaseStarting(st)
  <2> SUFFICES ASSUME NEW st, ReleaseStarting(st) PROVE FALSE
    OBVIOUS
  <2>1. s = req.slot /\ slot'[s] = slot[s]
    BY <1>1, SetOwner DEF ReleaseStarting
  <2> QED BY <2>1
<1>6. CASE Create
  <2>1. CASE CreateAdmit
    <3>1. /\ pc["ioctl"] = "admit" /\ Available(req.slot, req.file)
          /\ SetSlot(req.slot, [ResetSlot(slot[req.slot]) EXCEPT !.state = "starting", !.owner = req.file])
      BY <1>3, <2>1 DEF CreateAdmit
    <3>2. s = req.slot
      BY <1>1, <3>1, SetOwner
    <3> QED BY <3>1, <3>2 DEF Available
  <2>2. CASE CreateChild
    <3>1. SetSlot(req.slot, [slot[req.slot] EXCEPT !.vhf = ChildOf(req.slot)])
      BY <1>5, <2>2 DEF CreateChild
    <3>2. [slot[req.slot] EXCEPT !.vhf = ChildOf(req.slot)].owner = slot[req.slot].owner
      BY <1>1, <1>2 DEF ControllerSlot
    <3> QED BY <1>1, <3>1, <3>2, SetOwnerKept
  <2>3. CASE CreateAdopt
    <3>1. CASE SetSlot(req.slot, [slot[req.slot] EXCEPT !.state = "active"])
      <4>1. [slot[req.slot] EXCEPT !.state = "active"].owner = slot[req.slot].owner
        BY <1>1, <1>2 DEF ControllerSlot
      <4> QED BY <1>1, <3>1, <4>1, SetOwnerKept
    <3>2. CASE SetSlot(req.slot, [slot[req.slot] EXCEPT !.state = "stopping", !.feedback = NoChild,
                                                        !.vhf = NoChild])
      <4>1. [slot[req.slot] EXCEPT !.state = "stopping", !.feedback = NoChild, !.vhf = NoChild].owner = slot[req.slot].owner
        BY <1>1, <1>2 DEF ControllerSlot
      <4> QED BY <1>1, <3>2, <4>1, SetOwnerKept
    <3> QED BY <2>3, <3>1, <3>2 DEF CreateAdopt
  <2> QED BY <1>3, <1>5, <1>6, <2>1, <2>2, <2>3
          DEF Create, CreateSnapshot, CreateOpen, CreateStart, CreateUndoBegin, CreateUndoEnd
<1>7. \A u \in Slots, k \in Int : ~(slot' = [slot EXCEPT ![u].in_flight = @ + k])
  <2> SUFFICES ASSUME NEW u \in Slots, NEW k \in Int, slot' = [slot EXCEPT ![u].in_flight = @ + k]
               PROVE  FALSE
    OBVIOUS
  <2>1. SetSlot(u, [slot[u] EXCEPT !.in_flight = @ + k])
    BY <1>1 DEF SetSlot, TypeOK
  <2>2. [slot[u] EXCEPT !.in_flight = @ + k].owner = slot[u].owner
    BY <1>1, <1>2 DEF ControllerSlot
  <2> QED BY <1>1, <2>1, <2>2, SetOwnerKept
<1>8. ~(\E by, u : u \in Slots /\ TakeFor(by, u)) /\ ~(\E x : Submitted(x))
  <2>1. \A by : \A u \in Slots : ~TakeFor(by, u)
    BY <1>7 DEF TakeFor
  <2>2. ASSUME NEW x, Submitted(x) PROVE FALSE
    <3>1. x \in submits /\ slot' = [slot EXCEPT ![x.child.slot].in_flight = @ - 1]
      BY <2>2 DEF Submitted
    <3>2. x.child.slot \in Slots
      BY <1>1, <3>1 DEF TypeOK, Child
    <3>3. SetSlot(x.child.slot, [slot[x.child.slot] EXCEPT !.in_flight = @ - 1])
      BY <1>1, <3>1, <3>2 DEF SetSlot, TypeOK
    <3>4. [slot[x.child.slot] EXCEPT !.in_flight = @ - 1].owner = slot[x.child.slot].owner
      BY <1>1, <1>2, <3>2 DEF ControllerSlot
    <3> QED BY <1>1, <3>2, <3>3, <3>4, SetOwnerKept
  <2> QED BY <2>1, <2>2
<1>9. ~Submit
  BY <1>1, <1>3, <1>8 DEF Submit, SubmitPump, SubmitEnd
<1>10. ~(\E f \in Files : FileClose(f))
  BY <1>3 DEF FileClose
<1>11. CASE \E t \in Destroyers : Destroy(t)
  <2>1. PICK t \in Destroyers : Destroy(t)
    BY <1>11
  <2>2. SlotOf(t) \in Slots
    BY <1>1, DestroyerFacts
  <2>3. CASE DestroyChildless(t)
    <3>1. pc[t] = "destroy" /\ slot[SlotOf(t)].owner = OwnerOf(t) /\ s = SlotOf(t)
      BY <1>1, <2>2, <2>3, SetOwner DEF DestroyChildless
    <3> QED BY <3>1 DEF OwnerOf
  <2>4. CASE DestroyRetire(t)
    <3>1. SetSlot(SlotOf(t), [slot[SlotOf(t)] EXCEPT !.state = "stopping", !.feedback = NoChild,
                                                     !.vhf = NoChild])
      BY <2>4 DEF DestroyRetire
    <3>2. [slot[SlotOf(t)] EXCEPT !.state = "stopping", !.feedback = NoChild, !.vhf = NoChild].owner = slot[SlotOf(t)].owner
      BY <1>1, <1>2, <2>2 DEF ControllerSlot
    <3> QED BY <1>1, <2>2, <3>1, <3>2, SetOwnerKept
  <2>5. CASE DestroyEnd(t)
    <3>1. s = SlotOf(t) /\ slot'[s] = slot[s]
      BY <1>1, <2>2, <2>5, SetOwner DEF DestroyEnd
    <3> QED BY <3>1
  <2> QED BY <1>3, <2>1, <2>3, <2>4, <2>5 DEF Destroy, DestroyNothing, DestroyWait
<1>12. ~(\E c \in started, kind \in {"ready", "write"} : CallbackEnter(c, kind))
  BY <1>3 DEF CallbackEnter
<1>13. ~(\E call \in calls : Callback(call))
  <2> SUFFICES ASSUME NEW call \in calls, Callback(call) PROVE FALSE
    OBVIOUS
  <2>1. call.child.slot \in Slots
    BY <1>1 DEF TypeOK, Child
  <2>2. CASE WritePublish(call)
    <3>1. SetSlot(call.child.slot, [slot[call.child.slot] EXCEPT !.feedback = call.child])
      BY <1>3, <2>2 DEF WritePublish
    <3>2. [slot[call.child.slot] EXCEPT !.feedback = call.child].owner = slot[call.child.slot].owner
      BY <1>1, <1>2, <2>1 DEF ControllerSlot
    <3> QED BY <1>1, <2>1, <3>1, <3>2, SetOwnerKept
  <2> QED BY <1>3, <1>8, <2>1, <2>2 DEF Callback, CallbackPump, CallbackEnd
<1>14. ~Keepalive
  <2>1. ASSUME NEW S \in SUBSET Slots, KeepaliveTick(S) PROVE FALSE
    <3>1. slot'[s] = [slot[s] EXCEPT !.in_flight = @ + 1] \/ slot'[s] = slot[s]
      BY <2>1 DEF KeepaliveTick
    <3> QED BY <1>1, <3>1 DEF ControllerSlot
  <2> QED BY <1>3, <1>8, <2>1 DEF Keepalive, KeepaliveSubmitted, KeepaliveExit
<1>15. ~(\E u \in Slots : ChildRemoved(u)) /\ ~PowerUp /\ ~D0Exit /\ ~ReleaseHardware /\ ~TargetCleanup
  BY <1>3 DEF ChildRemoved, PowerUp, PrepareHardware, D0Entry, D0Exit, ReleaseHardware,
       TargetCleanup, StopIntent
<1>16. ~PowerDown
  <2>1. ~PowerDownMark
    BY DEF PowerDownMark
  <2>2. ASSUME PowerDownNull PROVE FALSE
    <3>1. slot'[s] = [slot[s] EXCEPT !.vhf = NoChild] \/ slot'[s] = slot[s]
      BY <2>2 DEF PowerDownNull
    <3> QED BY <1>1, <3>1 DEF ControllerSlot
  <2>3. ~PowerDownLost
    BY DEF PowerDownLost
  <2> QED BY <1>3, <2>1, <2>2, <2>3
          DEF PowerDown, PowerDownJoin, PowerDownDelete, DeleteHandle, PowerDownDeleted
<1>17. CASE Stop
  <2>1. CASE StopMark
    BY <2>1 DEF StopMark
  <2>2. ~StopNull
    BY DEF StopNull
  <2>3. ASSUME StopDeleted PROVE FALSE
    <3>1. /\ pc["pnp"] = "stop_wait" /\ victim["pnp"] \in handles
          /\ SetSlot(victim["pnp"].slot, ResetSlot(slot[victim["pnp"].slot]))
      BY <2>3 DEF StopDeleted, IInv, Core, SweepState
    <3>2. victim["pnp"].slot \in Slots /\ slot[victim["pnp"].slot].state = "stopping"
      BY <1>1, <3>1 DEF IInv, Core, SweepState, TypeOK, Child
    <3> QED BY <1>1, <3>1, <3>2, SetOwner
  <2> QED BY <1>3, <1>17, <2>1, <2>2, <2>3 DEF Stop, StopDelete, DeleteHandle, StopJoin, CloseTarget
<1>18. ~Terminated
  BY <1>3 DEF Terminated, vars
<1> QED BY <1>4, <1>6, <1>9, <1>10, <1>11, <1>12, <1>13, <1>14, <1>15, <1>16, <1>17, <1>18 DEF Next

(* A controller lost at a power transition stays reserved for its owner:   *)
(* only the owner's own create, destroy or close, or the stop of the       *)
(* device, takes the slot from it.                                         *)
THEOREM LostReserved == SafetySpec => LostStaysWithOwner
<1>1. IInv /\ [Next]_vars =>
        [\A s \in DOMAIN slot :
           slot[s].state = "lost" /\ slot'[s].owner # slot[s].owner =>
             \/ pc["pnp"] = "stop"
             \/ pc["ioctl"] \in {"admit", "destroy"} /\ req.file = slot[s].owner
             \/ pc[slot[s].owner] = "destroy"]_slot
  <2> SUFFICES ASSUME IInv, [Next]_vars, slot' # slot, NEW s \in DOMAIN slot,
                      slot[s].state = "lost", slot'[s].owner # slot[s].owner
               PROVE  \/ pc["pnp"] = "stop"
                      \/ pc["ioctl"] \in {"admit", "destroy"} /\ req.file = slot[s].owner
                      \/ pc[slot[s].owner] = "destroy"
    OBVIOUS
  <2>1. s \in Slots /\ Next
    BY DEF IInv, TypeOK, vars
  <2> QED BY <2>1, LostOwnerStep
<1> QED BY <1>1, InvAlways, PTL DEF SafetySpec, LostStaysWithOwner
=============================================================================
