------------------------- MODULE KeyboardMouseProofs -------------------------
(***************************************************************************)
(* Proofs about KeyboardMouse, for every set of files, callback threads    *)
(* and kinds of reports, every queue capacity and any number of opens and  *)
(* power transitions.                                                      *)
(***************************************************************************)
EXTENDS KeyboardMouse, FiniteSetTheorems, TLAPS

Opening == {"create", "publish", "start", "adopt"}
Busy == {"loop", "submit", "taken", "failed"}
Flight == {"submit", "taken", "failed"}
Emptied == {"take", "vhf", "deleting", "drain", "reset"}

(* Who holds lifetime_gate, and what the holder is at.                     *)
Gate ==
  /\ lifetime = "ioctl" <=> ioctl.pc \in Opening \cup {"delete"}
  /\ del.pc # "no" <=> lifetime \in Owners \cup {"pnp"} \/ ioctl.pc = "delete"
  /\ lifetime \in Owners => cleanup[lifetime] = "started"
  /\ ioctl.pc \in Opening \cup {"claim"} => ioctl.file \in Owners
  /\ lifetime = "pnp" => pnp \in {"leaving", "releasing"}

(* What the slot's state says of the gate, and of the device.              *)
States ==
  /\ slot.state = "starting" <=> ioctl.pc \in Opening
  /\ slot.state = "stopping" => slot.rundown /\ del.pc # "no"
  /\ del.pc # "no" => slot.state \in {"empty", "stopping"}
  /\ slot.state \in {"empty", "lost"} \/ ioctl.pc \in {"create", "publish"} => slot.at = 0
  /\ slot.state = "active" \/ ioctl.pc \in {"start", "adopt"} => slot.at # 0
  /\ slot.at # 0 => slot.at = opens
  /\ ioctl.pc \in Opening => opens \in Activations
  /\ ioctl.pc = "claim" => opens < MaxOpens
  /\ slot.state = "empty" => slot.owner = None
  /\ powered => pnp = "on"
  /\ pnp \in {"off", "releasing", "released"} => slot.at = 0 /\ ioctl.pc \notin Opening
  /\ \A o \in Owners : cleanup[o] = "done" => slot.owner # o

(* The threads that call back are inside the context of the slot, and it   *)
(* counts them; who calls pump_keyboard_mouse, and with which context.     *)
Inside(k) == {c \in Callbacks : cb[c].pc # "idle" /\ cb[c].at = k}
Callers ==
  /\ \A c \in Callbacks : cb[c].pc # "idle" => cb[c].at = slot.at /\ slot.at # 0
  /\ \A k \in Activations : ctx[k].entries = Cardinality(Inside(k))
  /\ pump["ioctl"].ctx = 0 /\ (pump["ioctl"].pc # "no" <=> ioctl.pc = "pump")
  /\ \A c \in Callbacks : /\ pump[c].pc # "no" <=> cb[c].pc = "pump"
                          /\ pump[c].pc # "no" => pump[c].ctx = slot.at

(* One thread pumps, for the slot as it is.                                *)
OnePump ==
  /\ \A t \in Pumpers : pump[t].pc \in Busy => slot.pumping
  /\ \A t, u \in Pumpers : pump[t].pc \in Busy /\ pump[u].pc \in Busy => t = u
  /\ \A t \in Pumpers : pump[t].pc \in Flight => pump[t].at = slot.at
  /\ slot.submits = 1 => \E t \in Pumpers : pump[t].pc \in Flight
  /\ slot.pumping => slot.at # 0
  /\ del.pc \in Emptied => ~slot.pumping

(* The child of the slot, how far its deletion is, and its context.        *)
Children ==
  /\ \A k \in Activations : child[k] \notin {"none", "deleted"} =>
       k = slot.at \/ (k = opens /\ ioctl.pc = "publish")
  /\ ioctl.pc = "publish" => child[opens] = "created"
  /\ slot.at # 0 /\ del.pc \in {"no", "wait", "take", "vhf"} => child[slot.at] \in {"created", "started"}
  /\ slot.at # 0 /\ del.pc = "deleting" => child[slot.at] = "deleting"
  /\ slot.at # 0 /\ del.pc \in {"drain", "reset"} => child[slot.at] = "deleted"
  /\ del.pc \in {"wait", "take"} => del.at = 0
  /\ del.pc \in {"vhf", "deleting", "drain"} => del.at = slot.at /\ slot.state = "stopping"
  /\ del.pc \in {"deleting", "drain"} => slot.at # 0
  /\ del.pc = "reset" => del.at = slot.at
  /\ del.pc = "reset" /\ slot.at # 0 => ctx[slot.at].entries = 0
  /\ \A k \in Activations : ctx[k].freed => child[k] = "deleted" /\ k # slot.at
  /\ \A k \in Activations : ctx[k].retired \/ ctx[k].freed =>
       k <= opens /\ ~(k = opens /\ ioctl.pc \in {"create", "publish"})
         /\ (k = slot.at => slot.state = "stopping")

(* The endpoint is closed as reset_after_device_deleted leaves it, or is   *)
(* its owner's.                                                            *)
Endpoint ==
  /\ core.state = "closed" => core = ClosedCore
  /\ core.state # "closed" =>
       /\ core.owner = slot.owner /\ slot.state \in {"starting", "active", "stopping"}
       /\ \A i \in DOMAIN core.queue : core.queue[i].owner = core.owner
       /\ core.retained # NoReport => core.retained.owner = core.owner
  /\ core.credit => core.state \in {"active", "closing"}
  /\ core.state = "closing" => core.held = {}
  /\ del.pc \in {"vhf", "deleting", "drain", "reset"} => core.state \in {"faulted", "closed"}

(* A report that VHF has asked for goes out at most once: who asked, has   *)
(* admitted it, or has taken one.                                          *)
InFlight == \E t \in Pumpers : pump[t].pc \in {"submit", "failed"}
Pending == InFlight \/ vhf_report # NoReport
Asked == told /\ vhf_report = NoReport

Tokens ==
  /\ slot.at = 0 \/ child[slot.at] = "deleted" => ~told /\ vhf_report = NoReport /\ host = {}
  /\ core.credit => Asked /\ ~InFlight
  /\ InFlight => Asked
  /\ Pending => core.retained # NoReport
  /\ vhf_report # NoReport => core.retained = vhf_report
  /\ \A c \in Callbacks : cb[c].pc = "entered" /\ child[slot.at] # "deleted" =>
       Asked /\ ~core.credit /\ ~InFlight
  /\ \A c, d \in Callbacks : cb[c].pc = "entered" /\ cb[d].pc = "entered"
                               /\ child[slot.at] # "deleted" => c = d

(* The last report on its way about a kind tells whether it is held, and   *)
(* the host sees it so when none is on its way.                            *)
Last(i) == \A j \in DOMAIN core.queue : j > i => core.queue[j].kind # core.queue[i].kind
Absent(k) == \A j \in DOMAIN core.queue : core.queue[j].kind # k
Mirror ==
  /\ slot.state \in {"starting", "active"} /\ core.state \in {"active", "closing"} =>
       /\ \A i \in DOMAIN core.queue :
            Last(i) => (core.queue[i].down <=> core.queue[i].kind \in core.held)
       /\ Pending /\ Absent(core.retained.kind) =>
            (core.retained.down <=> core.retained.kind \in core.held)
       /\ \A k \in Kinds : Absent(k) /\ (Pending => core.retained.kind # k) =>
            (k \in host <=> k \in core.held)
  /\ core.state = "drained" => host = {} /\ ~Pending

(* A report that may go has a thread that is to send it.                   *)
Awake ==
  MayPump(0) /\ CanTake(core) => slot.pumping \/ \E t \in Pumpers : pump[t].pc = "begin"

IInv ==
  TypeOK /\ Gate /\ States /\ Callers /\ OnePump /\ Children /\ Endpoint /\ Tokens /\ Mirror /\ Awake

-----------------------------------------------------------------------------
(* The fields of the records.                                              *)
LEMMA SlotFields ==
  ASSUME NEW s \in SlotRecord
  PROVE  /\ s.state \in {"empty", "starting", "active", "stopping", "lost"} /\ s.owner \in Holders
         /\ s.gen \in Nat /\ s.rundown \in BOOLEAN /\ s.at \in Places /\ s.submits \in 0 .. 1
         /\ s.pumping \in BOOLEAN
BY DEF SlotRecord

LEMMA CoreFields ==
  ASSUME NEW c \in CoreRecord
  PROVE  /\ c.state \in {"closed", "active", "closing", "drained", "faulted"} /\ c.owner \in Holders
         /\ c.held \subseteq Kinds \ {"pointer"} /\ c.queue \in Seq(Reports) /\ c.credit \in BOOLEAN
         /\ c.retained \in Reports \cup {NoReport}
BY DEF CoreRecord

LEMMA IoctlFields ==
  ASSUME NEW i \in IoctlRecord
  PROVE  /\ i.pc \in {"idle", "claim", "create", "publish", "start", "adopt", "delete", "pump"}
         /\ i.file \in Holders /\ i.gen \in Nat /\ i.ok \in BOOLEAN
BY DEF IoctlRecord

LEMMA DelFields ==
  ASSUME NEW d \in DelRecord
  PROVE  /\ d.pc \in {"no", "wait", "take", "vhf", "deleting", "drain", "reset"}
         /\ d.retain \in BOOLEAN /\ d.at \in Places /\ d.lost \in Holders
BY DEF DelRecord

LEMMA Constants ==
  /\ None \notin Owners /\ "ioctl" \notin Owners /\ "pnp" \notin Owners /\ None = "none"
  /\ "ioctl" \notin Callbacks /\ Callbacks \subseteq Pumpers /\ "ioctl" \in Pumpers
  /\ \A t \in Pumpers : t # "ioctl" => t \in Callbacks
  /\ Capacity \in Nat /\ MaxOpens \in Nat /\ MaxPowerDowns \in Nat
  /\ 0 \notin Activations /\ Activations \subseteq Nat
  /\ \A p \in Places : p # 0 => p \in Activations
BY KmAssumption DEF None, Pumpers, Activations, Places

LEMMA FiniteCallbacks ==
  /\ IsFiniteSet(Callbacks) /\ Cardinality(Callbacks) \in Nat
BY KmAssumption, FS_CardinalityType

LEMMA ReportFields ==
  /\ \A r \in Reports : r.kind \in Kinds /\ r.down \in BOOLEAN /\ r.owner \in Owners /\ r # NoReport
  /\ \A r \in Reports : r.kind = "pointer" => ~r.down
  /\ None \notin Kinds
<1>1. None \notin Kinds
  BY KmAssumption DEF None
<1>2. \A r \in Reports : r.kind \in Kinds /\ r.down \in BOOLEAN /\ r.owner \in Owners
  BY DEF Reports
<1>3. NoReport.kind = None
  BY DEF NoReport
<1> QED BY <1>1, <1>2, <1>3 DEF Reports

LEMMA Constructed ==
  /\ EmptySlot \in SlotRecord /\ ClosedCore \in CoreRecord /\ NoDelete \in DelRecord
  /\ IdleIoctl \in IoctlRecord /\ NoPump \in PumpRecord
  /\ EmptySlot.state = "empty" /\ EmptySlot.owner = None /\ EmptySlot.at = 0 /\ ~EmptySlot.rundown
  /\ ~EmptySlot.pumping /\ EmptySlot.submits = 0
  /\ ClosedCore.state = "closed" /\ ClosedCore.owner = None /\ ClosedCore.held = {}
  /\ ClosedCore.queue = <<>> /\ ~ClosedCore.credit /\ ClosedCore.retained = NoReport
  /\ NoDelete.pc = "no" /\ NoDelete.at = 0 /\ IdleIoctl.pc = "idle" /\ NoPump.pc = "no" /\ NoPump.ctx = 0
<1>1. None \in Holders /\ 0 \in Places /\ 0 \in 0 .. 1
  BY DEF Holders, Places
<1>2. EmptySlot \in SlotRecord
  BY <1>1 DEF EmptySlot, SlotRecord
<1>3. ClosedCore \in CoreRecord
  BY <1>1 DEF ClosedCore, CoreRecord
<1>4. NoDelete \in DelRecord /\ IdleIoctl \in IoctlRecord /\ NoPump \in PumpRecord
  BY <1>1 DEF NoDelete, DelRecord, IdleIoctl, IoctlRecord, NoPump, PumpRecord
<1> QED BY <1>2, <1>3, <1>4 DEF EmptySlot, ClosedCore, NoDelete, IdleIoctl, NoPump

LEMMA InitInv == Init => IInv
<1> HAVE Init
<1> USE Constants, Constructed
<1>1. TypeOK
  <2>1. ctx \in [Activations -> CtxRecord]
    BY FiniteCallbacks DEF Init, CtxRecord
  <2>2. cb \in [Callbacks -> CbRecord]
    BY DEF Init, CbRecord, Places
  <2>3. pump \in [Pumpers -> PumpRecord]
    BY DEF Init
  <2>4. Len(core.queue) <= Capacity
    BY DEF Init
  <2>5. opens \in 0 .. MaxOpens /\ downs \in 0 .. MaxPowerDowns
    BY DEF Init
  <2>6. /\ cleanup \in [Owners -> {"no", "started", "done"}]
        /\ child \in [Activations -> {"none", "created", "started", "deleting", "deleted"}]
    BY DEF Init
  <2> QED BY <2>1, <2>2, <2>3, <2>4, <2>5, <2>6 DEF Init, TypeOK, Holders
<1>2. Gate /\ States
  BY DEF Init, Gate, States, Opening
<1>3. Callers
  <2>1. ASSUME NEW k \in Activations
        PROVE  ctx[k].entries = Cardinality(Inside(k))
    <3>1. Inside(k) = {}
      BY DEF Init, Inside
    <3> QED BY <3>1, FS_EmptySet DEF Init
  <2> QED BY <2>1 DEF Init, Callers
<1>4. OnePump /\ Children /\ Endpoint
  BY DEF Init, OnePump, Children, Endpoint, Busy, Flight, Emptied
<1>5. Tokens /\ Mirror /\ Awake
  BY DEF Init, Tokens, Mirror, Awake, Pending, InFlight, MayPump
<1> QED BY <1>1, <1>2, <1>3, <1>4, <1>5 DEF IInv

-----------------------------------------------------------------------------
(* What a step of a thread in a call keeps: the slot's activation, and the *)
(* ioctl unless it is one that pumps.                                      *)
SlotKept ==
  slot'.state = slot.state /\ slot'.owner = slot.owner /\ slot'.at = slot.at
    /\ slot'.rundown = slot.rundown
IoctlKept == ioctl' = ioctl \/ (ioctl.pc \in {"idle", "pump"} /\ ioctl'.pc \in {"idle", "pump"})

LEMMA GateKept ==
  ASSUME Gate, IoctlKept, UNCHANGED <<lifetime, cleanup, pnp>>, del'.pc = "no" <=> del.pc = "no"
  PROVE  Gate'
BY DEF Gate, IoctlKept, Opening

LEMMA StatesKept ==
  ASSUME States, IoctlKept, SlotKept, UNCHANGED <<powered, pnp, cleanup, opens>>,
         del'.pc = "no" <=> del.pc = "no"
  PROVE  States'
BY DEF States, IoctlKept, SlotKept, Opening

LEMMA ChildrenKept ==
  ASSUME Children, IoctlKept, SlotKept, UNCHANGED <<ctx, child, del, opens>>
  PROVE  Children'
BY DEF Children, IoctlKept, SlotKept

LEMMA EndpointKept ==
  ASSUME Endpoint, SlotKept, UNCHANGED <<core, del>>
  PROVE  Endpoint'
BY DEF Endpoint, SlotKept

(* Nothing goes to the host.                                               *)
LEMMA TokensKept ==
  ASSUME Tokens, SlotKept, UNCHANGED <<child, told, vhf_report, host>>, InFlight' => InFlight,
         core'.credit => core.credit, core'.retained = core.retained,
         \A c \in Callbacks : cb'[c].pc = "entered" => cb[c].pc = "entered"
  PROVE  Tokens'
BY DEF Tokens, SlotKept, Pending, Asked

LEMMA MirrorKept ==
  ASSUME Mirror, SlotKept, UNCHANGED <<core, vhf_report, host>>, InFlight' <=> InFlight
  PROVE  Mirror'
BY DEF Mirror, SlotKept, Pending, Last, Absent

(* pump_keyboard_mouse returns to its caller.                              *)
LEMMA Returns ==
  ASSUME IInv, NEW t \in Pumpers, pump[t].pc # "no", PumpReturns(t), SlotKept, UNCHANGED ctx
  PROVE  /\ pump' \in [Pumpers -> PumpRecord] /\ cb' \in [Callbacks -> CbRecord]
         /\ ioctl' \in IoctlRecord /\ IoctlKept /\ Callers'
         /\ pump'[t].pc = "no" /\ \A u \in Pumpers : u # t => pump'[u] = pump[u]
         /\ \A c \in Callbacks : cb'[c].pc = "entered" => cb[c].pc = "entered"
<1> USE Constants, Constructed
<1>1. /\ pump \in [Pumpers -> PumpRecord] /\ cb \in [Callbacks -> CbRecord] /\ ioctl \in IoctlRecord
      /\ Callers /\ pump' = [pump EXCEPT ![t] = NoPump] /\ slot'.at = slot.at
  BY DEF IInv, TypeOK, PumpReturns, SlotKept
<1>2. /\ pump' \in [Pumpers -> PumpRecord] /\ pump'[t] = NoPump /\ pump'[t].pc = "no"
      /\ \A u \in Pumpers : u # t => pump'[u] = pump[u]
  BY <1>1
<1>3. CASE t = "ioctl"
  <2>1. ioctl' = IdleIoctl /\ cb' = cb /\ ioctl.pc = "pump"
    BY <1>1, <1>3 DEF PumpReturns, Callers
  <2>2. \A k \in Activations : Inside(k)' = Inside(k)
    BY <2>1 DEF Inside
  <2>3. \A c \in Callbacks : c # t /\ pump'[c] = pump[c]
    BY <1>2, <1>3
  <2>4. Callers'
    BY <1>1, <1>2, <1>3, <2>1, <2>2, <2>3 DEF Callers
  <2> QED BY <1>1, <1>2, <2>1, <2>4 DEF IoctlKept
<1>4. CASE t # "ioctl"
  <2>1. /\ ioctl' = ioctl /\ t \in Callbacks /\ cb' = [cb EXCEPT ![t].pc = "leave"]
        /\ cb[t].pc = "pump" /\ cb[t] \in CbRecord
    BY <1>1, <1>4 DEF PumpReturns, Callers
  <2>2. /\ cb' \in [Callbacks -> CbRecord] /\ cb'[t].pc = "leave" /\ cb'[t].at = cb[t].at
        /\ \A c \in Callbacks : c # t => cb'[c] = cb[c]
    BY <1>1, <2>1 DEF CbRecord
  <2>3. \A c \in Callbacks : cb'[c].at = cb[c].at /\ (cb'[c].pc # "idle" <=> cb[c].pc # "idle")
    BY <2>1, <2>2
  <2>4. \A k \in Activations : Inside(k)' = Inside(k)
    BY <2>3 DEF Inside
  <2>5. pump'["ioctl"] = pump["ioctl"]
    BY <1>2, <1>4
  <2>6. Callers'
    <3>1. \A c \in Callbacks : cb'[c].pc # "idle" => cb'[c].at = slot'.at /\ slot'.at # 0
      BY <1>1, <2>3 DEF Callers
    <3>2. \A k \in Activations : ctx'[k].entries = Cardinality(Inside(k)')
      BY <1>1, <2>4 DEF Callers
    <3>3. ASSUME NEW c \in Callbacks
          PROVE  /\ pump'[c].pc # "no" <=> cb'[c].pc = "pump"
                 /\ pump'[c].pc # "no" => pump'[c].ctx = slot'.at
      BY <1>1, <1>2, <2>1, <2>2 DEF Callers
    <3> QED BY <1>1, <2>1, <2>5, <3>1, <3>2, <3>3 DEF Callers
  <2> QED BY <1>1, <1>2, <2>1, <2>2, <2>6 DEF IoctlKept
<1> QED BY <1>3, <1>4

(* A thread moves in pump_keyboard_mouse.                                  *)
LEMMA PumpMoves ==
  ASSUME IInv, NEW t \in Pumpers, NEW pc \in {"loop", "submit", "taken", "failed"}, pump[t].pc # "no",
         pump'[t].pc = pc, pump'[t].ctx = pump[t].ctx,
         \A u \in Pumpers : u # t => pump'[u] = pump[u],
         UNCHANGED <<ioctl, cb, ctx>>, SlotKept
  PROVE  Callers'
<1> USE Constants
<1>1. Callers /\ slot'.at = slot.at /\ (pump[t].pc # "no" <=> pump'[t].pc # "no")
  BY DEF IInv, SlotKept
<1>2. \A k \in Activations : Inside(k)' = Inside(k)
  BY DEF Inside
<1>3. \A u \in Pumpers : pump'[u].ctx = pump[u].ctx /\ (pump[u].pc # "no" <=> pump'[u].pc # "no")
  BY <1>1
<1> QED BY <1>1, <1>2, <1>3 DEF Callers

(* With the slot's context of a thread in pump_keyboard_mouse not retired, *)
(* the thread may pump whenever anyone may.                                *)
LEMMA SameRight ==
  ASSUME IInv, NEW t \in Pumpers, pump[t].pc # "no"
  PROVE  /\ MayPump(pump[t].ctx) <=> MayPump(0)
         /\ pump[t].ctx # 0 /\ ctx[pump[t].ctx].retired => ~MayPump(0)
<1> USE Constants
<1>1. pump[t].ctx = 0 \/ (pump[t].ctx = slot.at /\ slot.at # 0 /\ slot.at \in Activations)
  <2>1. slot.at \in Places
    BY SlotFields DEF IInv, TypeOK
  <2> QED BY <2>1 DEF IInv, Callers
<1>2. slot.at # 0 /\ ctx[slot.at].retired => slot.state = "stopping"
  <2>1. slot.at \in Places
    BY SlotFields DEF IInv, TypeOK
  <2> QED BY <2>1 DEF IInv, Children
<1> QED BY <1>1, <1>2 DEF MayPump

(* Who pumps has the right to, so nothing deletes the child.               *)
LEMMA PumpingFacts ==
  ASSUME IInv, MayPump(0)
  PROVE  /\ slot.at # 0 /\ slot.at \in Activations /\ slot.state \in {"starting", "active"}
         /\ del.pc = "no" /\ child[slot.at] \in {"created", "started"}
<1>1. slot.at \in Activations
  BY SlotFields, Constants DEF IInv, TypeOK, MayPump
<1>2. slot.state \in {"starting", "active"} /\ slot.at # 0
  BY DEF MayPump
<1>3. del.pc = "no"
  BY <1>2 DEF IInv, States
<1> QED BY <1>1, <1>2, <1>3 DEF IInv, Children

LEMMA PumpBeginStep == ASSUME IInv, NEW t \in Pumpers, PumpBegin(t) PROVE IInv'
<1> USE Constants
<1>1. /\ pump[t].pc = "begin" /\ slot \in SlotRecord /\ pump[t] \in PumpRecord
      /\ UNCHANGED <<powered, stopping, pnp, downs, cleanup, lifetime, core, ctx, child, told,
                     vhf_report, host, del, opens>>
  BY DEF PumpBegin, Device, Vhf, IInv, TypeOK
<1>2. CASE MayPump(pump[t].ctx) /\ ~slot.pumping
  <2>1. /\ slot' = [slot EXCEPT !.pumping = TRUE] /\ pump' = [pump EXCEPT ![t].pc = "loop"]
        /\ UNCHANGED <<ioctl, cb>>
    BY <1>2 DEF PumpBegin
  <2>2. /\ slot' \in SlotRecord /\ SlotKept /\ slot'.pumping /\ slot'.submits = slot.submits
    BY <1>1, <2>1 DEF SlotRecord, SlotKept
  <2>3. /\ pump' \in [Pumpers -> PumpRecord] /\ pump'[t].pc = "loop" /\ pump'[t].ctx = pump[t].ctx
        /\ \A u \in Pumpers : u # t => pump'[u] = pump[u]
    BY <1>1, <2>1 DEF IInv, TypeOK, PumpRecord
  <2>4. TypeOK'
    BY <1>1, <2>1, <2>2, <2>3 DEF IInv, TypeOK
  <2>5. Callers'
    BY <1>1, <2>1, <2>2, <2>3, PumpMoves
  <2>6. MayPump(0) /\ slot.at # 0 /\ del.pc = "no"
    BY <1>1, <1>2, SameRight, PumpingFacts
  <2>7. OnePump'
    <3>1. \A u \in Pumpers : pump[u].pc \notin Busy
      BY <1>2 DEF IInv, OnePump
    <3>2. \A u \in Pumpers : pump'[u].pc \in Busy => u = t
      BY <2>3, <3>1
    <3>3. \A u \in Pumpers : pump'[u].pc \notin Flight /\ pump[u].pc \notin Flight
      BY <2>3, <3>1 DEF Busy, Flight
    <3>4. slot'.submits # 1
      BY <2>2, <3>3 DEF IInv, OnePump
    <3>5. del'.pc \notin Emptied /\ slot'.at # 0
      BY <1>1, <2>2, <2>6 DEF Emptied, SlotKept
    <3> QED BY <2>2, <3>2, <3>3, <3>4, <3>5 DEF OnePump
  <2>8. InFlight' <=> InFlight
    BY <1>1, <2>3 DEF InFlight
  <2>9. IoctlKept
    BY <2>1 DEF IoctlKept
  <2>10. Gate' /\ States' /\ Children' /\ Endpoint'
    BY <1>1, <2>2, <2>9, GateKept, StatesKept, ChildrenKept, EndpointKept DEF IInv
  <2>11. Tokens' /\ Mirror'
    BY <1>1, <2>1, <2>2, <2>8, TokensKept, MirrorKept DEF IInv
  <2>12. Awake'
    BY <2>2 DEF Awake
  <2> QED BY <2>4, <2>5, <2>7, <2>10, <2>11, <2>12 DEF IInv
<1>3. CASE ~(MayPump(pump[t].ctx) /\ ~slot.pumping)
  <2>1. PumpReturns(t) /\ slot' = slot /\ SlotKept
    BY <1>3 DEF PumpBegin, SlotKept
  <2>2. /\ pump' \in [Pumpers -> PumpRecord] /\ cb' \in [Callbacks -> CbRecord]
        /\ ioctl' \in IoctlRecord /\ IoctlKept /\ Callers'
        /\ pump'[t].pc = "no" /\ \A u \in Pumpers : u # t => pump'[u] = pump[u]
        /\ \A c \in Callbacks : cb'[c].pc = "entered" => cb[c].pc = "entered"
    BY <1>1, <2>1, Returns
  <2>3. TypeOK'
    BY <1>1, <2>1, <2>2 DEF IInv, TypeOK
  <2>4. \A u \in Pumpers : pump'[u].pc # "no" => u # t /\ pump'[u] = pump[u]
    BY <2>2
  <2>5. \A u \in Pumpers : pump[u].pc \in Busy \cup Flight => pump'[u] = pump[u]
    BY <1>1, <2>2 DEF Busy, Flight
  <2>6. OnePump'
    <3>1. \A u \in Pumpers : pump'[u].pc \in Busy \cup Flight => pump'[u] = pump[u]
      BY <2>4 DEF Busy, Flight
    <3> QED BY <1>1, <2>1, <2>5, <3>1 DEF IInv, OnePump
  <2>7. InFlight' <=> InFlight
    BY <2>4, <2>5 DEF InFlight, Flight, Busy
  <2>8. Gate' /\ States' /\ Children' /\ Endpoint'
    BY <1>1, <2>1, <2>2, GateKept, StatesKept, ChildrenKept, EndpointKept DEF IInv
  <2>9. Tokens' /\ Mirror'
    BY <1>1, <2>1, <2>2, <2>7, TokensKept, MirrorKept DEF IInv
  <2>10. Awake'
    <3>1. MayPump(0)' => MayPump(0)
      BY <1>1, <2>1 DEF MayPump, CleanupStarted
    <3>2. MayPump(0) => slot.pumping
      BY <1>1, <1>3, SameRight
    <3> QED BY <2>1, <3>1, <3>2 DEF Awake
  <2> QED BY <2>2, <2>3, <2>6, <2>8, <2>9, <2>10 DEF IInv
<1> QED BY <1>2, <1>3

(* The queue's head moves to retained_; what is on its way stays the same. *)
LEMMA TakenCore ==
  ASSUME NEW c \in CoreRecord, Len(c.queue) <= Capacity, c.queue # <<>>
  PROVE  /\ Taken(c) \in CoreRecord /\ Len(Taken(c).queue) <= Capacity
         /\ Taken(c).state = c.state /\ Taken(c).owner = c.owner /\ Taken(c).held = c.held
         /\ Taken(c).retained = c.queue[1] /\ Taken(c).retained \in Reports /\ ~Taken(c).credit
         /\ 1 \in DOMAIN c.queue /\ DOMAIN c.queue = 1 .. Len(c.queue)
         /\ DOMAIN Taken(c).queue = 1 .. Len(c.queue) - 1
         /\ \A i \in 1 .. Len(c.queue) - 1 : Taken(c).queue[i] = c.queue[i + 1]
<1> USE Constants
<1>1. c.queue \in Seq(Reports) /\ Len(c.queue) \in Nat /\ Len(c.queue) > 0
  BY CoreFields
<1>2. /\ Tail(c.queue) \in Seq(Reports) /\ Len(Tail(c.queue)) = Len(c.queue) - 1
      /\ Head(c.queue) = c.queue[1] /\ Head(c.queue) \in Reports
      /\ \A i \in 1 .. Len(c.queue) - 1 : Tail(c.queue)[i] = c.queue[i + 1]
  BY <1>1
<1>3. Taken(c) = [c EXCEPT !.retained = Head(c.queue), !.queue = Tail(c.queue), !.credit = FALSE]
  BY DEF Taken, CoreRecord
<1>4. /\ Taken(c) \in CoreRecord /\ Taken(c).queue = Tail(c.queue)
      /\ Taken(c).state = c.state /\ Taken(c).owner = c.owner /\ Taken(c).held = c.held
      /\ Taken(c).retained = Head(c.queue) /\ ~Taken(c).credit
  BY <1>2, <1>3 DEF CoreRecord
<1> QED BY <1>1, <1>2, <1>4

LEMMA PumpTakeStep == ASSUME IInv, NEW t \in Pumpers, PumpTake(t) PROVE IInv'
<1> USE Constants
<1>1. /\ pump[t].pc = "loop" /\ slot \in SlotRecord /\ pump[t] \in PumpRecord
      /\ core \in CoreRecord /\ Len(core.queue) <= Capacity
      /\ UNCHANGED <<powered, stopping, pnp, downs, cleanup, lifetime, ctx, child, told,
                     vhf_report, host, del, opens>>
  BY DEF PumpTake, Device, Vhf, IInv, TypeOK
<1>2. CASE MayPump(pump[t].ctx) /\ CanTake(core)
  <2>1. /\ core' = Taken(core) /\ slot' = [slot EXCEPT !.submits = @ + 1]
        /\ pump' = [pump EXCEPT ![t].pc = "submit", ![t].at = slot.at]
        /\ UNCHANGED <<ioctl, cb>>
    BY <1>2 DEF PumpTake
  <2>2. /\ core.credit /\ core.queue # <<>> /\ core.state \in {"active", "closing"}
    BY <1>2 DEF CanTake
  <2>3. /\ core' \in CoreRecord /\ Len(core'.queue) <= Capacity
        /\ core'.state = core.state /\ core'.owner = core.owner /\ core'.held = core.held
        /\ core'.retained = core.queue[1] /\ core'.retained \in Reports /\ ~core'.credit
        /\ 1 \in DOMAIN core.queue /\ DOMAIN core.queue = 1 .. Len(core.queue)
        /\ DOMAIN core'.queue = 1 .. Len(core.queue) - 1
        /\ \A i \in 1 .. Len(core.queue) - 1 : core'.queue[i] = core.queue[i + 1]
    <3>1. core' = Taken(core)
      BY <2>1
    <3> QED BY <1>1, <2>2, <3>1, TakenCore
  <2>4. Len(core.queue) \in Nat
    BY <1>1, CoreFields
  <2>5. MayPump(0) /\ slot.at # 0 /\ slot.at \in Activations /\ del.pc = "no"
        /\ child[slot.at] \in {"created", "started"} /\ slot.state \in {"starting", "active"}
    BY <1>1, <1>2, SameRight, PumpingFacts
  <2>6. /\ pump' \in [Pumpers -> PumpRecord] /\ pump'[t].pc = "submit" /\ pump'[t].ctx = pump[t].ctx
        /\ pump'[t].at = slot.at /\ \A u \in Pumpers : u # t => pump'[u] = pump[u]
    <3>1. slot.at \in Places
      BY <1>1, SlotFields
    <3>2. pump \in [Pumpers -> PumpRecord]
      BY DEF IInv, TypeOK
    <3>3. pump'[t] = [pump[t] EXCEPT !.pc = "submit", !.at = slot.at]
      BY <2>1, <3>2
    <3>4. pump'[t] \in PumpRecord /\ pump'[t].pc = "submit" /\ pump'[t].ctx = pump[t].ctx
          /\ pump'[t].at = slot.at
      BY <1>1, <3>1, <3>3 DEF PumpRecord
    <3>5. \A u \in Pumpers : u # t => pump'[u] = pump[u]
      BY <2>1, <3>2
    <3>6. pump' \in [Pumpers -> PumpRecord]
      BY <2>1, <3>2, <3>4, <3>5
    <3> QED BY <3>4, <3>5, <3>6
  <2>7. \A u \in Pumpers : u # t => pump[u].pc \notin Busy /\ pump'[u].pc \notin Busy
    BY <1>1, <2>6 DEF IInv, OnePump, Busy
  <2>8. slot.submits = 0
    <3>1. \A u \in Pumpers : pump[u].pc \notin Flight
      BY <1>1, <2>7 DEF Busy, Flight
    <3> QED BY <1>1, <3>1, SlotFields DEF IInv, OnePump
  <2>9. /\ slot' \in SlotRecord /\ SlotKept /\ slot'.pumping = slot.pumping /\ slot'.submits = 1
    <3>1. slot' = [slot EXCEPT !.submits = 1]
      BY <1>1, <2>1, <2>8 DEF SlotRecord
    <3> QED BY <1>1, <3>1 DEF SlotRecord, SlotKept
  <2>10. TypeOK'
    BY <1>1, <2>1, <2>3, <2>6, <2>9 DEF IInv, TypeOK
  <2>11. Callers'
    BY <1>1, <2>1, <2>6, <2>9, PumpMoves
  <2>12. OnePump'
    <3>1. slot.pumping
      BY <1>1 DEF IInv, OnePump, Busy
    <3>2. pump'[t].pc \in Flight /\ slot'.at = slot.at
      BY <2>6, <2>9 DEF Flight, SlotKept
    <3>3. \A u \in Pumpers : pump'[u].pc \in Flight => u = t
      BY <2>7 DEF Busy, Flight
    <3>4. del'.pc \notin Emptied
      BY <1>1, <2>5 DEF Emptied
    <3> QED BY <2>5, <2>6, <2>7, <2>9, <3>1, <3>2, <3>3, <3>4 DEF OnePump
  <2>13. IoctlKept
    BY <2>1 DEF IoctlKept
  <2>14. Gate' /\ States' /\ Children'
    BY <1>1, <2>9, <2>13, GateKept, StatesKept, ChildrenKept DEF IInv
  <2>15. Endpoint'
    <3>1. \A i \in DOMAIN core'.queue : i + 1 \in DOMAIN core.queue /\ core'.queue[i] = core.queue[i + 1]
      BY <2>3, <2>4
    <3>2. /\ core.owner = slot.owner
          /\ \A i \in DOMAIN core.queue : core.queue[i].owner = core.owner
      BY <2>2 DEF IInv, Endpoint
    <3>3. \A i \in DOMAIN core'.queue : core'.queue[i].owner = core'.owner
      BY <2>3, <3>1, <3>2
    <3>4. core'.retained.owner = core'.owner
      BY <2>3, <3>2
    <3> QED BY <1>1, <2>2, <2>3, <2>5, <2>9, <3>2, <3>3, <3>4 DEF IInv, Endpoint, SlotKept
  <2>16. Asked /\ ~InFlight /\ ~Pending
    BY <2>2 DEF IInv, Tokens, Pending, Asked
  <2>17. InFlight' /\ Asked' /\ Pending'
    BY <1>1, <2>6, <2>16 DEF InFlight, Asked, Pending
  <2>18. \A c \in Callbacks : cb'[c].pc # "entered"
    <3>1. child[slot.at] # "deleted"
      BY <2>5
    <3> QED BY <2>1, <2>2, <3>1 DEF IInv, Tokens
  <2>19. Tokens'
    <3>1. slot'.at # 0 /\ child'[slot'.at] # "deleted" /\ core'.retained # NoReport
      BY <1>1, <2>3, <2>5, <2>9, ReportFields DEF SlotKept
    <3> QED BY <2>3, <2>17, <2>18, <3>1 DEF Tokens, Asked
  <2>20. Mirror'
    <3>1. /\ slot'.state = slot.state /\ core'.state \in {"active", "closing"}
      BY <2>2, <2>3, <2>9 DEF SlotKept
    <3>2. /\ \A i \in DOMAIN core.queue :
               Last(i) => (core.queue[i].down <=> core.queue[i].kind \in core.held)
          /\ \A k \in Kinds : Absent(k) => (k \in host <=> k \in core.held)
      BY <2>2, <2>5, <2>16 DEF IInv, Mirror
    <3>3. ASSUME NEW i \in DOMAIN core'.queue, Last(i)'
          PROVE  core'.queue[i].down <=> core'.queue[i].kind \in core'.held
      <4>1. i \in 1 .. Len(core.queue) - 1 /\ i + 1 \in DOMAIN core.queue
            /\ core'.queue[i] = core.queue[i + 1]
        BY <2>3, <2>4, <3>3
      <4>2. ASSUME NEW j \in DOMAIN core.queue, j > i + 1
            PROVE  core.queue[j].kind # core.queue[i + 1].kind
        <5>1. j - 1 \in 1 .. Len(core.queue) - 1 /\ j - 1 > i /\ (j - 1) + 1 = j
          BY <2>3, <2>4, <4>1, <4>2
        <5>2. core'.queue[j - 1] = core.queue[j] /\ j - 1 \in DOMAIN core'.queue
          BY <2>3, <5>1
        <5> QED BY <3>3, <4>1, <5>1, <5>2 DEF Last
      <4> QED BY <2>3, <3>2, <4>1, <4>2 DEF Last
    <3>4. ASSUME Absent(core.retained.kind)'
          PROVE  core'.retained.down <=> core'.retained.kind \in core'.held
      <4>1. ASSUME NEW j \in DOMAIN core.queue, j > 1
            PROVE  core.queue[j].kind # core.queue[1].kind
        <5>1. j - 1 \in 1 .. Len(core.queue) - 1 /\ (j - 1) + 1 = j
          BY <2>3, <2>4, <4>1
        <5>2. core'.queue[j - 1] = core.queue[j] /\ j - 1 \in DOMAIN core'.queue
          BY <2>3, <5>1
        <5> QED BY <2>3, <3>4, <5>2 DEF Absent
      <4> QED BY <2>3, <3>2, <4>1 DEF Last
    <3>5. ASSUME NEW k \in Kinds, Absent(k)', core'.retained.kind # k
          PROVE  k \in host' <=> k \in core'.held
      <4>1. ASSUME NEW j \in DOMAIN core.queue
            PROVE  core.queue[j].kind # k
        <5>1. CASE j = 1
          BY <2>3, <3>5, <5>1
        <5>2. CASE j # 1
          <6>1. j - 1 \in 1 .. Len(core.queue) - 1 /\ (j - 1) + 1 = j
            BY <2>3, <2>4, <5>2
          <6>2. core'.queue[j - 1] = core.queue[j] /\ j - 1 \in DOMAIN core'.queue
            BY <2>3, <6>1
          <6> QED BY <3>5, <6>2 DEF Absent
        <5> QED BY <5>1, <5>2
      <4> QED BY <1>1, <2>3, <3>2, <4>1 DEF Absent
    <3>6. core'.state # "drained"
      BY <3>1
    <3> QED BY <2>17, <3>3, <3>4, <3>5, <3>6 DEF Mirror
  <2>21. Awake'
    <3>1. ~CanTake(core')
      BY <2>3 DEF CanTake
    <3> QED BY <3>1 DEF Awake
  <2> QED BY <2>10, <2>11, <2>12, <2>14, <2>15, <2>19, <2>20, <2>21 DEF IInv
<1>3. CASE ~(MayPump(pump[t].ctx) /\ CanTake(core))
  <2>1. PumpReturns(t) /\ slot' = [slot EXCEPT !.pumping = FALSE] /\ UNCHANGED core
    BY <1>3 DEF PumpTake
  <2>2. slot' \in SlotRecord /\ SlotKept /\ ~slot'.pumping /\ slot'.submits = slot.submits
    BY <1>1, <2>1 DEF SlotRecord, SlotKept
  <2>3. /\ pump' \in [Pumpers -> PumpRecord] /\ cb' \in [Callbacks -> CbRecord]
        /\ ioctl' \in IoctlRecord /\ IoctlKept /\ Callers'
        /\ pump'[t].pc = "no" /\ \A u \in Pumpers : u # t => pump'[u] = pump[u]
        /\ \A c \in Callbacks : cb'[c].pc = "entered" => cb[c].pc = "entered"
    BY <1>1, <2>1, <2>2, Returns
  <2>4. TypeOK'
    BY <1>1, <2>1, <2>2, <2>3 DEF IInv, TypeOK
  <2>5. \A u \in Pumpers : /\ pump'[u].pc \notin Busy \cup Flight
                           /\ pump[u].pc \notin Flight
    BY <1>1, <2>3 DEF IInv, OnePump, Busy, Flight
  <2>6. OnePump'
    BY <1>1, <2>2, <2>5 DEF IInv, OnePump
  <2>7. InFlight' <=> InFlight
    BY <2>5 DEF InFlight, Flight, Busy
  <2>8. Gate' /\ States' /\ Children' /\ Endpoint'
    BY <1>1, <2>1, <2>2, <2>3, GateKept, StatesKept, ChildrenKept, EndpointKept DEF IInv
  <2>9. Tokens' /\ Mirror'
    BY <1>1, <2>1, <2>2, <2>3, <2>7, TokensKept, MirrorKept DEF IInv
  <2>10. Awake'
    <3>1. MayPump(0)' => MayPump(0)
      BY <1>1, <2>2 DEF MayPump, CleanupStarted, SlotKept
    <3>2. ~(MayPump(0) /\ CanTake(core))
      BY <1>1, <1>3, SameRight
    <3>3. CanTake(core)' <=> CanTake(core)
      BY <2>1 DEF CanTake
    <3> QED BY <3>1, <3>2, <3>3 DEF Awake
  <2> QED BY <2>3, <2>4, <2>6, <2>8, <2>9, <2>10 DEF IInv
<1> QED BY <1>2, <1>3

LEMMA BusyFacts ==
  ASSUME IInv, NEW t \in Pumpers, pump[t].pc \in Busy
  PROVE  /\ slot.pumping /\ slot.at # 0 /\ slot.at \in Activations /\ del.pc \in {"no", "wait"}
         /\ child[slot.at] \in {"created", "started"}
         /\ \A u \in Pumpers : u # t => pump[u].pc \notin Busy \cup Flight
<1>1. slot.pumping /\ slot.at # 0 /\ del.pc \notin Emptied
  BY DEF IInv, OnePump
<1>2. del.pc \in {"no", "wait"}
  BY <1>1, DelFields DEF IInv, TypeOK, Emptied
<1>3. slot.at \in Activations
  BY <1>1, SlotFields, Constants DEF IInv, TypeOK
<1>4. child[slot.at] \in {"created", "started"}
  BY <1>1, <1>2 DEF IInv, Children
<1>5. \A u \in Pumpers : u # t => pump[u].pc \notin Busy \cup Flight
  BY DEF IInv, OnePump, Busy, Flight
<1> QED BY <1>1, <1>2, <1>3, <1>4, <1>5

LEMMA NativeSubmitStep == ASSUME IInv, NEW t \in Pumpers, NativeSubmit(t) PROVE IInv'
<1> USE Constants
<1>1. /\ pump[t].pc = "submit" /\ slot' = slot /\ SlotKept /\ pump[t] \in PumpRecord
      /\ core \in CoreRecord /\ pump[t].pc \in Busy
      /\ UNCHANGED <<powered, stopping, pnp, downs, cleanup, lifetime, core, ctx, child, host,
                     ioctl, cb, del, opens>>
  BY DEF NativeSubmit, Device, IInv, TypeOK, SlotKept, Busy
<1>2. /\ slot.pumping /\ slot.at # 0 /\ slot.at \in Activations /\ del.pc \in {"no", "wait"}
      /\ child[slot.at] \in {"created", "started"}
      /\ \A u \in Pumpers : u # t => pump[u].pc \notin Busy \cup Flight
  BY <1>1, BusyFacts
<1>3. PICK pc \in {"taken", "failed"} : pump' = [pump EXCEPT ![t].pc = pc]
  BY DEF NativeSubmit
<1>4. /\ pump' \in [Pumpers -> PumpRecord] /\ pump'[t].pc = pc /\ pump'[t].ctx = pump[t].ctx
      /\ pump'[t].at = pump[t].at /\ \A u \in Pumpers : u # t => pump'[u] = pump[u]
  BY <1>1, <1>3 DEF IInv, TypeOK, PumpRecord
<1>5. \/ pc = "taken" /\ vhf_report' = core.retained /\ told' = FALSE
      \/ pc = "failed" /\ UNCHANGED <<vhf_report, told>>
  <2>1. pump' = [pump EXCEPT ![t].pc = "taken"] => pump'[t].pc = "taken"
    BY <1>1 DEF IInv, TypeOK, PumpRecord
  <2>2. pump' = [pump EXCEPT ![t].pc = "failed"] => pump'[t].pc = "failed"
    BY <1>1 DEF IInv, TypeOK, PumpRecord
  <2> QED BY <1>4, <2>1, <2>2 DEF NativeSubmit
<1>6. InFlight /\ Asked /\ ~core.credit /\ Pending /\ core.retained \in Reports
      /\ core.retained # NoReport
  <2>1. InFlight
    BY <1>1 DEF InFlight
  <2>2. Pending /\ core.retained # NoReport
    BY <2>1 DEF IInv, Tokens, Pending
  <2> QED BY <1>1, <2>1, <2>2, CoreFields DEF IInv, Tokens
<1>7. TypeOK'
  BY <1>1, <1>4, <1>5, <1>6 DEF IInv, TypeOK
<1>8. Callers'
  BY <1>1, <1>4, PumpMoves
<1>9. OnePump'
  <2>1. \A u \in Pumpers : /\ pump'[u].pc \in Busy <=> pump[u].pc \in Busy
                           /\ pump'[u].pc \in Flight <=> pump[u].pc \in Flight
                           /\ pump'[u].at = pump[u].at
    BY <1>1, <1>4 DEF Busy, Flight
  <2> QED BY <1>1, <2>1 DEF IInv, OnePump
<1>10. IoctlKept
  BY <1>1 DEF IoctlKept
<1>11. Gate' /\ States' /\ Children' /\ Endpoint'
  BY <1>1, <1>10, GateKept, StatesKept, ChildrenKept, EndpointKept DEF IInv
<1>12. InFlight' <=> pc = "failed"
  BY <1>2, <1>3, <1>4 DEF InFlight, Flight
<1>13. Pending'
  BY <1>5, <1>6, <1>12 DEF Pending
<1>14. Tokens'
  <2>1. slot'.at # 0 /\ child'[slot'.at] # "deleted"
    BY <1>1, <1>2
  <2>2. \A c \in Callbacks : cb'[c].pc # "entered"
    BY <1>1, <1>2, <1>6 DEF IInv, Tokens
  <2>3. InFlight' => Asked'
    BY <1>5, <1>6, <1>12 DEF Asked
  <2>4. vhf_report' # NoReport => core'.retained = vhf_report'
    BY <1>1, <1>5 DEF IInv, Tokens
  <2> QED BY <1>1, <1>6, <2>1, <2>2, <2>3, <2>4 DEF Tokens
<1>15. Mirror'
  BY <1>1, <1>6, <1>13 DEF IInv, Mirror, Last, Absent
<1>16. Awake'
  BY <1>1, <1>2 DEF Awake
<1> QED BY <1>7, <1>8, <1>9, <1>11, <1>14, <1>15, <1>16 DEF IInv

LEMMA FaultedCore ==
  ASSUME NEW c \in CoreRecord, Len(c.queue) <= Capacity
  PROVE  /\ Faulted(c) \in CoreRecord /\ Len(Faulted(c).queue) <= Capacity
         /\ c.state = "closed" => Faulted(c) = c
         /\ c.state # "closed" => Faulted(c).state = "faulted" /\ ~Faulted(c).credit
                                    /\ Faulted(c).queue = <<>>
         /\ Faulted(c).owner = c.owner /\ Faulted(c).retained = c.retained
<1>1. CASE c.state = "closed"
  BY <1>1 DEF Faulted
<1>2. CASE c.state # "closed"
  <2>1. Faulted(c) = [c EXCEPT !.state = "faulted", !.credit = FALSE, !.queue = <<>>]
    BY <1>2 DEF Faulted
  <2>2. /\ Faulted(c) \in CoreRecord /\ Faulted(c).state = "faulted" /\ ~Faulted(c).credit
        /\ Faulted(c).queue = <<>> /\ Faulted(c).owner = c.owner /\ Faulted(c).retained = c.retained
    <3> DEFINE d == [c EXCEPT !.state = "faulted"]
               e == [d EXCEPT !.credit = FALSE]
    <3>1. d \in CoreRecord /\ d.state = "faulted" /\ d.owner = c.owner /\ d.retained = c.retained
      BY DEF CoreRecord
    <3> HIDE DEF d
    <3>2. /\ e \in CoreRecord /\ e.state = "faulted" /\ e.owner = c.owner /\ e.retained = c.retained
          /\ ~e.credit
      BY <3>1 DEF CoreRecord
    <3>3. [e EXCEPT !.queue = <<>>] = Faulted(c)
      BY <2>1 DEF d
    <3> HIDE DEF e
    <3>4. <<>> \in Seq(Reports)
      OBVIOUS
    <3> QED BY <3>2, <3>3, <3>4 DEF CoreRecord
  <2> QED BY <1>2, <2>2, Constants
<1> QED BY <1>1, <1>2

(* The endpoint faults.                                                    *)
LEMMA FaultedInv ==
  ASSUME IInv, core' = Faulted(core)
  PROVE  /\ core' \in CoreRecord /\ Len(core'.queue) <= Capacity
         /\ core'.state \in {"closed", "faulted"} /\ ~core'.credit /\ core'.retained = core.retained
         /\ core.state = "closed" => core' = core
         /\ core.state # "closed" => core'.state # "closed"
         /\ core'.owner = core.owner
         /\ core'.state = "closed" \/ core'.queue = <<>>
<1>1. core \in CoreRecord /\ Len(core.queue) <= Capacity /\ (core.state = "closed" => ~core.credit)
  BY DEF IInv, TypeOK, Endpoint
<1>2. PICK c : c = core
  OBVIOUS
<1>3. c \in CoreRecord /\ Len(c.queue) <= Capacity /\ core' = Faulted(c)
  BY <1>1, <1>2 DEF Faulted
<1> QED BY <1>1, <1>2, <1>3, FaultedCore

LEMMA PumpReleasesStep == ASSUME IInv, NEW t \in Pumpers, PumpReleases(t) PROVE IInv'
<1> USE Constants
<1> DEFINE retired == pump[t].ctx # 0 /\ ctx[pump[t].ctx].retired
           failed == pump[t].pc = "failed"
<1>1. /\ pump[t].pc \in {"taken", "failed"} /\ pump[t].pc \in Busy /\ pump[t].pc \in Flight
      /\ slot \in SlotRecord /\ pump[t] \in PumpRecord
      /\ UNCHANGED <<powered, stopping, pnp, downs, cleanup, lifetime, ctx, child, told, vhf_report,
                     host, del, opens>>
  BY DEF PumpReleases, Device, Vhf, IInv, TypeOK, Busy, Flight
<1>2. /\ slot.pumping /\ slot.at # 0 /\ slot.at \in Activations /\ del.pc \in {"no", "wait"}
      /\ child[slot.at] \in {"created", "started"}
      /\ \A u \in Pumpers : u # t => pump[u].pc \notin Busy \cup Flight
  BY <1>1, BusyFacts
<1>3. /\ core' = (IF failed /\ ~retired THEN Faulted(core) ELSE core)
      /\ slot' = [slot EXCEPT !.submits = IF @ > 0 THEN @ - 1 ELSE @,
                              !.pumping = @ /\ ~retired /\ ~failed]
      /\ retired \/ failed => PumpReturns(t)
      /\ ~(retired \/ failed) => pump' = [pump EXCEPT ![t].pc = "loop"] /\ UNCHANGED <<ioctl, cb>>
  BY DEF PumpReleases
<1>4. retired => ~MayPump(0)
  BY <1>1, SameRight
<1>5. InFlight <=> failed
  BY <1>1, <1>2 DEF InFlight, Flight
<1> HIDE DEF retired
<1>6. /\ slot' \in SlotRecord /\ SlotKept /\ slot'.submits = 0
      /\ slot'.pumping <=> ~retired /\ ~failed
  <2>1. slot.submits \in 0 .. 1 /\ slot.pumping
    BY <1>1, <1>2, SlotFields
  <2> DEFINE n == IF slot.submits > 0 THEN slot.submits - 1 ELSE slot.submits
             p == slot.pumping /\ ~retired /\ ~failed
             s == [slot EXCEPT !.submits = n]
  <2>2. n = 0 /\ p \in BOOLEAN /\ (p <=> ~retired /\ ~failed)
    BY <2>1
  <2>3. slot' = [s EXCEPT !.pumping = p]
    BY <1>1, <1>3 DEF SlotRecord
  <2> HIDE DEF n, p
  <2>4. /\ s \in SlotRecord /\ s.state = slot.state /\ s.owner = slot.owner /\ s.at = slot.at
        /\ s.rundown = slot.rundown /\ s.submits = 0
    BY <1>1, <2>2 DEF SlotRecord
  <2> HIDE DEF s
  <2>5. /\ slot' \in SlotRecord /\ slot'.state = s.state /\ slot'.owner = s.owner /\ slot'.at = s.at
        /\ slot'.rundown = s.rundown /\ slot'.submits = 0 /\ slot'.pumping = p
    BY <2>2, <2>3, <2>4 DEF SlotRecord
  <2> QED BY <2>2, <2>4, <2>5 DEF SlotKept
<1>7. CASE ~(retired \/ failed)
  <2>1. pump' = [pump EXCEPT ![t].pc = "loop"] /\ UNCHANGED <<ioctl, cb, core>>
    BY <1>3, <1>7
  <2>2. /\ pump' \in [Pumpers -> PumpRecord] /\ pump'[t].pc = "loop" /\ pump'[t].ctx = pump[t].ctx
        /\ \A u \in Pumpers : u # t => pump'[u] = pump[u]
    BY <1>1, <2>1 DEF IInv, TypeOK, PumpRecord
  <2>3. TypeOK'
    BY <1>1, <1>6, <2>1, <2>2 DEF IInv, TypeOK
  <2>4. Callers'
    BY <1>1, <1>6, <2>1, <2>2, PumpMoves
  <2>5. OnePump'
    <3>1. \A u \in Pumpers : /\ pump'[u].pc \in Busy <=> pump[u].pc \in Busy
                             /\ pump'[u].pc \notin Flight
      BY <1>1, <1>2, <2>2 DEF Busy, Flight
    <3>2. slot'.pumping /\ slot'.submits # 1 /\ slot'.at # 0
      BY <1>2, <1>6, <1>7 DEF SlotKept
    <3>3. del'.pc \notin Emptied
      BY <1>1, <1>2 DEF Emptied
    <3> QED BY <3>1, <3>2, <3>3 DEF IInv, OnePump
  <2>6. InFlight' <=> InFlight
    BY <1>2, <1>5, <1>7, <2>2 DEF InFlight, Flight
  <2>7. IoctlKept
    BY <2>1 DEF IoctlKept
  <2>8. Gate' /\ States' /\ Children' /\ Endpoint'
    BY <1>1, <1>6, <2>1, <2>7, GateKept, StatesKept, ChildrenKept, EndpointKept DEF IInv
  <2>9. Tokens' /\ Mirror'
    BY <1>1, <1>6, <2>1, <2>6, TokensKept, MirrorKept DEF IInv
  <2>10. Awake'
    BY <1>6, <1>7 DEF Awake
  <2> QED BY <2>3, <2>4, <2>5, <2>8, <2>9, <2>10 DEF IInv
<1>8. CASE retired \/ failed
  <2>1. /\ pump' \in [Pumpers -> PumpRecord] /\ cb' \in [Callbacks -> CbRecord]
        /\ ioctl' \in IoctlRecord /\ IoctlKept /\ Callers'
        /\ pump'[t].pc = "no" /\ \A u \in Pumpers : u # t => pump'[u] = pump[u]
        /\ \A c \in Callbacks : cb'[c].pc = "entered" => cb[c].pc = "entered"
    BY <1>1, <1>3, <1>6, <1>8, Returns
  <2>2. /\ core' \in CoreRecord /\ Len(core'.queue) <= Capacity /\ core'.retained = core.retained
        /\ core'.credit => core.credit
    <3>1. CASE failed /\ ~retired
      BY <1>3, <3>1, FaultedInv
    <3>2. CASE ~(failed /\ ~retired)
      BY <1>3, <3>2 DEF IInv, TypeOK
    <3> QED BY <3>1, <3>2
  <2>3. TypeOK'
    BY <1>1, <1>6, <2>1, <2>2 DEF IInv, TypeOK
  <2>4. \A u \in Pumpers : pump'[u].pc \notin Busy \cup Flight
    BY <1>2, <2>1 DEF Busy, Flight
  <2>5. OnePump'
    BY <1>1, <1>6, <1>8, <2>4 DEF OnePump
  <2>6. ~InFlight'
    BY <2>4 DEF InFlight, Flight
  <2>7. Gate' /\ States' /\ Children'
    BY <1>1, <1>6, <2>1, GateKept, StatesKept, ChildrenKept DEF IInv
  <2>8. Endpoint'
    <3>1. CASE failed /\ ~retired
      <4>1. /\ core'.state \in {"closed", "faulted"} /\ ~core'.credit /\ core'.retained = core.retained
            /\ core.state = "closed" => core' = core
            /\ core.state # "closed" => core'.state # "closed"
            /\ core'.owner = core.owner
            /\ core'.state = "closed" \/ core'.queue = <<>>
        BY <1>3, <3>1, FaultedInv
      <4> QED BY <1>1, <1>6, <4>1 DEF IInv, Endpoint, SlotKept
    <3>2. CASE ~(failed /\ ~retired)
      BY <1>1, <1>3, <1>6, <3>2, EndpointKept DEF IInv
    <3> QED BY <3>1, <3>2
  <2>9. Tokens'
    BY <1>1, <1>6, <2>1, <2>2, <2>6, TokensKept DEF IInv
  <2>10. Mirror'
    <3>1. CASE failed /\ ~retired
      <4>1. core'.state \in {"closed", "faulted"}
        BY <1>3, <3>1, FaultedInv
      <4> QED BY <4>1 DEF Mirror
    <3>2. CASE retired
      <4>1. slot'.state = "stopping"
        <5>1. pump[t].ctx = slot.at
          BY <1>1, <3>2 DEF IInv, Callers, retired
        <5> QED BY <1>2, <1>6, <3>2, <5>1 DEF IInv, Children, SlotKept, retired
      <4>2. core' = core /\ UNCHANGED <<host, vhf_report>>
        BY <1>1, <1>3, <3>2
      <4> QED BY <2>6, <4>1, <4>2 DEF IInv, Mirror, Pending
    <3> QED BY <1>8, <3>1, <3>2
  <2>11. Awake'
    <3>1. CASE failed /\ ~retired
      <4>1. core'.state \in {"closed", "faulted"}
        BY <1>3, <3>1, FaultedInv
      <4> QED BY <4>1 DEF Awake, CanTake
    <3>2. CASE retired
      <4>1. ~MayPump(0)'
        BY <1>1, <1>4, <1>6, <3>2 DEF MayPump, CleanupStarted, SlotKept
      <4> QED BY <4>1 DEF Awake
    <3> QED BY <1>8, <3>1, <3>2
  <2> QED BY <2>1, <2>3, <2>5, <2>7, <2>8, <2>9, <2>10, <2>11 DEF IInv
<1> QED BY <1>7, <1>8

-----------------------------------------------------------------------------
LEMMA ReadyBeginsStep ==
  ASSUME IInv, NEW c \in Callbacks, NEW k \in Activations, ReadyBegins(c, k)
  PROVE  IInv'
<1> USE Constants
<1>1. /\ cb[c].pc = "idle" /\ child[k] \in {"started", "deleting"} /\ ~told /\ vhf_report = NoReport
      /\ told' = TRUE /\ cb' = [cb EXCEPT ![c] = [pc |-> "entered", at |-> k]]
      /\ ctx' = [ctx EXCEPT ![k].entries = @ + 1] /\ SlotKept /\ IoctlKept /\ slot' = slot
      /\ ctx[k] \in CtxRecord /\ cb \in [Callbacks -> CbRecord] /\ ctx \in [Activations -> CtxRecord]
      /\ UNCHANGED <<powered, stopping, pnp, downs, cleanup, lifetime, core, child, vhf_report, host,
                     ioctl, pump, del, opens>>
  BY DEF ReadyBegins, Device, IInv, TypeOK, SlotKept, IoctlKept
<1>2. k = slot.at /\ slot.at # 0
  BY <1>1 DEF IInv, Children
<1>3. /\ cb' \in [Callbacks -> CbRecord] /\ cb'[c].pc = "entered" /\ cb'[c].at = k
      /\ \A d \in Callbacks : d # c => cb'[d] = cb[d]
  BY <1>1 DEF CbRecord, Places
<1>4. Inside(k)' = Inside(k) \cup {c} /\ c \notin Inside(k) /\ Inside(k) \subseteq Callbacks
  BY <1>1, <1>3 DEF Inside
<1>5. \A j \in Activations : j # k => Inside(j)' = Inside(j)
  BY <1>1, <1>3 DEF Inside
<1>6. /\ Cardinality(Inside(k)') = Cardinality(Inside(k)) + 1
      /\ Cardinality(Inside(k)') <= Cardinality(Callbacks) /\ Cardinality(Inside(k)) \in Nat
  <2>1. PICK S : S = Inside(k)
    OBVIOUS
  <2>2. IsFiniteSet(S) /\ IsFiniteSet(S \cup {c}) /\ S \cup {c} \subseteq Callbacks
    BY <1>4, <2>1, FiniteCallbacks, FS_Subset
  <2>3. Cardinality(S \cup {c}) = Cardinality(S) + 1 /\ Cardinality(S) \in Nat
    BY <1>4, <2>1, <2>2, FS_AddElement, FS_CardinalityType
  <2>4. Cardinality(S \cup {c}) <= Cardinality(Callbacks)
    BY <2>2, FiniteCallbacks, FS_Subset
  <2> QED BY <1>4, <2>1, <2>3, <2>4
<1>7. /\ ctx' \in [Activations -> CtxRecord] /\ ctx'[k].entries = Cardinality(Inside(k)')
      /\ \A j \in Activations : j # k => ctx'[j] = ctx[j]
      /\ \A j \in Activations : ctx'[j].retired = ctx[j].retired /\ ctx'[j].freed = ctx[j].freed
  <2>1. ctx[k].entries = Cardinality(Inside(k))
    BY DEF IInv, Callers
  <2>2. ctx[k].entries + 1 \in 0 .. Cardinality(Callbacks)
    BY <1>6, <2>1, FiniteCallbacks
  <2>3. PICK n : n = ctx[k].entries + 1
    OBVIOUS
  <2>4. ctx' = [ctx EXCEPT ![k].entries = n]
    BY <1>1, <2>3
  <2>5. /\ ctx' \in [Activations -> CtxRecord] /\ ctx'[k].entries = n
        /\ ctx'[k].retired = ctx[k].retired /\ ctx'[k].freed = ctx[k].freed
        /\ \A j \in Activations : j # k => ctx'[j] = ctx[j]
    BY <1>1, <2>2, <2>3, <2>4 DEF CtxRecord
  <2> QED BY <1>6, <2>1, <2>3, <2>5
<1>8. TypeOK'
  BY <1>1, <1>3, <1>7 DEF IInv, TypeOK
<1>9. Callers'
  <2>1. \A d \in Callbacks : cb'[d].pc # "idle" => cb'[d].at = slot'.at /\ slot'.at # 0
    BY <1>1, <1>2, <1>3 DEF IInv, Callers
  <2>2. \A j \in Activations : ctx'[j].entries = Cardinality(Inside(j)')
    BY <1>5, <1>7 DEF IInv, Callers
  <2>3. \A d \in Callbacks : cb'[d].pc = "pump" <=> cb[d].pc = "pump"
    BY <1>1, <1>3
  <2> QED BY <1>1, <2>1, <2>2, <2>3 DEF IInv, Callers
<1>10. OnePump'
  BY <1>1 DEF IInv, OnePump
<1>11. Gate' /\ States' /\ Endpoint'
  BY <1>1, GateKept, StatesKept, EndpointKept DEF IInv
<1>12. Children'
  <2>1. del.pc # "reset"
    BY <1>1, <1>2 DEF IInv, Children
  <2> QED BY <1>1, <1>7, <2>1 DEF IInv, Children
<1>13. InFlight' <=> InFlight
  BY <1>1 DEF InFlight
<1>14. Mirror'
  BY <1>1, <1>13, MirrorKept DEF IInv
<1>15. Tokens'
  <2>1. child[slot.at] # "deleted" /\ slot.at # 0
    BY <1>1, <1>2
  <2>2. ~InFlight /\ ~core.credit /\ \A d \in Callbacks : cb[d].pc # "entered"
    BY <1>1, <2>1 DEF IInv, Tokens, Asked
  <2>3. \A d \in Callbacks : cb'[d].pc = "entered" => d = c
    BY <1>3, <2>2
  <2> QED BY <1>1, <1>13, <2>1, <2>2, <2>3 DEF IInv, Tokens, Asked, Pending
<1>16. Awake'
  <2>1. MayPump(0)' <=> MayPump(0)
    BY <1>1 DEF MayPump, CleanupStarted
  <2> QED BY <1>1, <2>1 DEF IInv, Awake, CanTake
<1> QED BY <1>8, <1>9, <1>10, <1>11, <1>12, <1>14, <1>15, <1>16 DEF IInv

LEMMA ReadyCore ==
  ASSUME NEW c \in CoreRecord
  PROVE  /\ Ready(c) \in CoreRecord /\ Ready(c).queue = c.queue /\ Ready(c).held = c.held
         /\ Ready(c).owner = c.owner /\ Ready(c).retained = c.retained
         /\ \/ Ready(c) = c
            \/ c.state \in {"active", "closing"} /\ Ready(c).state = c.state
            \/ c.state = "closing" /\ c.queue = <<>> /\ Ready(c).state = "drained" /\ ~Ready(c).credit
<1>1. CASE c.state \notin {"active", "closing"}
  BY <1>1 DEF Ready
<1>2. CASE c.state = "closing" /\ c.queue = <<>>
  <2>1. Ready(c) = [c EXCEPT !.state = "drained", !.credit = FALSE]
    BY <1>2 DEF Ready
  <2> QED BY <1>2, <2>1 DEF CoreRecord
<1>3. CASE c.state \in {"active", "closing"} /\ ~(c.state = "closing" /\ c.queue = <<>>)
  <2>1. Ready(c) = [c EXCEPT !.credit = TRUE]
    BY <1>3 DEF Ready
  <2> QED BY <1>3, <2>1 DEF CoreRecord
<1> QED BY <1>1, <1>2, <1>3

(* A thread that calls back moves on inside the context.                   *)
LEMMA InsideKept ==
  ASSUME IInv, NEW c \in Callbacks, cb[c].pc # "idle", NEW pc \in {"pump", "leave"},
         cb' = [cb EXCEPT ![c].pc = pc]
  PROVE  /\ cb' \in [Callbacks -> CbRecord] /\ cb'[c].pc = pc
         /\ \A d \in Callbacks : d # c => cb'[d] = cb[d]
         /\ \A d \in Callbacks : cb'[d].at = cb[d].at /\ (cb'[d].pc # "idle" <=> cb[d].pc # "idle")
         /\ \A k \in Activations : Inside(k)' = Inside(k)
<1>1. cb \in [Callbacks -> CbRecord] /\ cb[c] \in CbRecord
  BY DEF IInv, TypeOK
<1>2. /\ cb' \in [Callbacks -> CbRecord] /\ cb'[c].pc = pc /\ cb'[c].at = cb[c].at
      /\ \A d \in Callbacks : d # c => cb'[d] = cb[d]
  BY <1>1 DEF CbRecord
<1>3. \A d \in Callbacks : cb'[d].at = cb[d].at /\ (cb'[d].pc # "idle" <=> cb[d].pc # "idle")
  BY <1>2
<1>4. \A k \in Activations : Inside(k)' = Inside(k)
  BY <1>3 DEF Inside
<1> QED BY <1>2, <1>3, <1>4

LEMMA ReadyAdmitsStep == ASSUME IInv, NEW c \in Callbacks, ReadyAdmits(c) PROVE IInv'
<1> USE Constants
<1>1. /\ cb[c].pc = "entered" /\ slot' = slot /\ SlotKept /\ IoctlKept /\ core \in CoreRecord
      /\ Len(core.queue) <= Capacity /\ pump \in [Pumpers -> PumpRecord] /\ cb[c].at = slot.at
      /\ pump[c].pc = "no" /\ slot.at # 0 /\ slot.at \in Places /\ slot \in SlotRecord
      /\ UNCHANGED <<powered, stopping, pnp, downs, cleanup, lifetime, ctx, child, told, vhf_report,
                     host, ioctl, del, opens>>
  <2>1. cb[c].at = slot.at /\ slot.at # 0 /\ pump[c].pc = "no"
    BY DEF ReadyAdmits, IInv, Callers
  <2> QED BY <2>1, SlotFields DEF ReadyAdmits, Device, Vhf, IInv, TypeOK, SlotKept, IoctlKept
<1>2. CASE MayPump(cb[c].at) /\ slot.owner # None
  <2>1. /\ core' = Ready(core) /\ cb' = [cb EXCEPT ![c].pc = "pump"]
        /\ pump' = [pump EXCEPT ![c] = [pc |-> "begin", ctx |-> slot.at, at |-> 0]]
    BY <1>1, <1>2 DEF ReadyAdmits, CallPump
  <2>2. /\ cb' \in [Callbacks -> CbRecord] /\ cb'[c].pc = "pump"
        /\ \A d \in Callbacks : d # c => cb'[d] = cb[d]
        /\ \A d \in Callbacks : cb'[d].at = cb[d].at /\ (cb'[d].pc # "idle" <=> cb[d].pc # "idle")
        /\ \A k \in Activations : Inside(k)' = Inside(k)
    BY <1>1, <2>1, InsideKept
  <2>3. /\ pump' \in [Pumpers -> PumpRecord] /\ pump'[c].pc = "begin" /\ pump'[c].ctx = slot.at
        /\ \A u \in Pumpers : u # c => pump'[u] = pump[u]
    <3>1. [pc |-> "begin", ctx |-> slot.at, at |-> 0] \in PumpRecord
      BY <1>1 DEF PumpRecord, Places
    <3> QED BY <1>1, <2>1, <3>1
  <2>4. /\ core' \in CoreRecord /\ core'.queue = core.queue /\ core'.held = core.held
        /\ core'.owner = core.owner /\ core'.retained = core.retained
        /\ \/ core' = core
           \/ core.state \in {"active", "closing"} /\ core'.state = core.state
           \/ core.state = "closing" /\ core.queue = <<>> /\ core'.state = "drained" /\ ~core'.credit
    <3>1. PICK d : d = core
      OBVIOUS
    <3>2. core' = Ready(d) /\ d \in CoreRecord
      BY <1>1, <2>1, <3>1 DEF Ready
    <3> QED BY <3>1, <3>2, ReadyCore
  <2>5. MayPump(0)
    BY <1>1, <1>2 DEF MayPump
  <2>6. /\ slot.at # 0 /\ slot.state \in {"starting", "active"} /\ del.pc = "no"
        /\ child[slot.at] # "deleted"
    BY <2>5, PumpingFacts
  <2>7. TypeOK'
    BY <1>1, <2>2, <2>3, <2>4 DEF IInv, TypeOK
  <2>8. Callers'
    <3>1. \A d \in Callbacks : cb'[d].pc # "idle" => cb'[d].at = slot'.at /\ slot'.at # 0
      BY <1>1, <2>2 DEF IInv, Callers
    <3>2. \A k \in Activations : ctx'[k].entries = Cardinality(Inside(k)')
      BY <1>1, <2>2 DEF IInv, Callers
    <3>3. ASSUME NEW d \in Callbacks
          PROVE  /\ pump'[d].pc # "no" <=> cb'[d].pc = "pump"
                 /\ pump'[d].pc # "no" => pump'[d].ctx = slot'.at
      BY <1>1, <2>2, <2>3 DEF IInv, Callers
    <3>4. pump'["ioctl"] = pump["ioctl"]
      BY <2>3
    <3> QED BY <1>1, <3>1, <3>2, <3>3, <3>4 DEF IInv, Callers
  <2>9. \A u \in Pumpers : pump[u].pc \in Busy \cup Flight \/ pump'[u].pc \in Busy \cup Flight =>
                             pump'[u] = pump[u]
    BY <1>1, <2>3 DEF Busy, Flight
  <2>10. OnePump'
    BY <1>1, <2>9 DEF IInv, OnePump
  <2>11. InFlight' <=> InFlight
    BY <2>9 DEF InFlight, Busy, Flight
  <2>12. Gate' /\ States' /\ Children'
    BY <1>1, GateKept, StatesKept, ChildrenKept DEF IInv
  <2>13. Endpoint'
    BY <1>1, <2>4, <2>6 DEF IInv, Endpoint
  <2>14. Asked /\ ~InFlight /\ ~Pending
    BY <1>1, <2>6 DEF IInv, Tokens, Asked, Pending
  <2>15. Tokens'
    <3>1. \A d \in Callbacks : cb'[d].pc # "entered"
      <4>1. \A d \in Callbacks : cb[d].pc = "entered" => d = c
        BY <1>1, <2>6 DEF IInv, Tokens
      <4> QED BY <2>2, <4>1
    <3>2. Asked' /\ ~InFlight' /\ ~Pending'
      BY <1>1, <2>11, <2>14 DEF Asked, Pending
    <3> QED BY <1>1, <2>6, <3>1, <3>2 DEF Tokens, Pending
  <2>16. Mirror'
    <3>1. core'.state = "drained" => host' = {} /\ ~Pending'
      <4>1. core.state = "drained" => host = {}
        BY DEF IInv, Mirror
      <4>2. core.state = "closing" /\ core.queue = <<>> => host = {}
        <5>1. core.state = "closing" /\ core.queue = <<>> => \A k \in Kinds : Absent(k)
          BY DEF Absent
        <5>2. core.state = "closing" => core.held = {}
          BY DEF IInv, Endpoint
        <5>3. host \subseteq Kinds
          BY DEF IInv, TypeOK
        <5> QED BY <2>6, <2>14, <5>1, <5>2, <5>3 DEF IInv, Mirror
      <4> QED BY <1>1, <2>4, <2>11, <2>14, <4>1, <4>2 DEF Pending
    <3>2. core'.state \in {"active", "closing"} => core.state \in {"active", "closing"}
      BY <2>4
    <3>3. Pending' <=> Pending
      BY <1>1, <2>11 DEF Pending
    <3> QED BY <1>1, <2>4, <3>1, <3>2, <3>3 DEF IInv, Mirror, Last, Absent
  <2>17. Awake'
    BY <2>3 DEF Awake
  <2> QED BY <2>7, <2>8, <2>10, <2>12, <2>13, <2>15, <2>16, <2>17 DEF IInv
<1>3. CASE ~(MayPump(cb[c].at) /\ slot.owner # None)
  <2>1. cb' = [cb EXCEPT ![c].pc = "leave"] /\ UNCHANGED <<core, pump>>
    BY <1>3 DEF ReadyAdmits
  <2>2. /\ cb' \in [Callbacks -> CbRecord] /\ cb'[c].pc = "leave"
        /\ \A d \in Callbacks : d # c => cb'[d] = cb[d]
        /\ \A d \in Callbacks : cb'[d].at = cb[d].at /\ (cb'[d].pc # "idle" <=> cb[d].pc # "idle")
        /\ \A k \in Activations : Inside(k)' = Inside(k)
    BY <1>1, <2>1, InsideKept
  <2>3. TypeOK'
    BY <1>1, <2>1, <2>2 DEF IInv, TypeOK
  <2>4. Callers'
    <3>1. \A d \in Callbacks : cb'[d].pc # "idle" => cb'[d].at = slot'.at /\ slot'.at # 0
      BY <1>1, <2>2 DEF IInv, Callers
    <3>2. \A k \in Activations : ctx'[k].entries = Cardinality(Inside(k)')
      BY <1>1, <2>2 DEF IInv, Callers
    <3>3. \A d \in Callbacks : cb'[d].pc = "pump" <=> cb[d].pc = "pump"
      BY <1>1, <2>2
    <3> QED BY <1>1, <2>1, <3>1, <3>2, <3>3 DEF IInv, Callers
  <2>5. OnePump'
    BY <1>1, <2>1 DEF IInv, OnePump
  <2>6. InFlight' <=> InFlight
    BY <2>1 DEF InFlight
  <2>7. Gate' /\ States' /\ Children' /\ Endpoint'
    BY <1>1, <2>1, GateKept, StatesKept, ChildrenKept, EndpointKept DEF IInv
  <2>8. Tokens' /\ Mirror'
    <3>1. \A d \in Callbacks : cb'[d].pc = "entered" => cb[d].pc = "entered"
      BY <1>1, <2>2
    <3> QED BY <1>1, <2>1, <2>6, <3>1, TokensKept, MirrorKept DEF IInv
  <2>9. Awake'
    BY <1>1, <2>1 DEF IInv, Awake, CanTake, MayPump, CleanupStarted
  <2> QED BY <2>3, <2>4, <2>5, <2>7, <2>8, <2>9 DEF IInv
<1> QED BY <1>2, <1>3

LEMMA ReadyLeavesStep == ASSUME IInv, NEW c \in Callbacks, ReadyLeaves(c) PROVE IInv'
<1> USE Constants
<1>1. PICK k : k = cb[c].at
  OBVIOUS
<1>2. /\ cb[c].pc = "leave" /\ ctx' = [ctx EXCEPT ![k].entries = @ - 1]
      /\ cb' = [cb EXCEPT ![c] = [pc |-> "idle", at |-> 0]]
      /\ slot' = slot /\ SlotKept /\ IoctlKept /\ cb \in [Callbacks -> CbRecord]
      /\ ctx \in [Activations -> CtxRecord]
      /\ UNCHANGED <<powered, stopping, pnp, downs, cleanup, lifetime, core, child, told, vhf_report,
                     host, ioctl, pump, del, opens>>
  BY <1>1 DEF ReadyLeaves, Device, Vhf, IInv, TypeOK, SlotKept, IoctlKept
<1>3. k = slot.at /\ k \in Activations /\ ctx[k] \in CtxRecord
  BY <1>1, <1>2, SlotFields DEF IInv, TypeOK, Callers
<1>4. /\ cb' \in [Callbacks -> CbRecord] /\ cb'[c].pc = "idle"
      /\ \A d \in Callbacks : d # c => cb'[d] = cb[d]
  BY <1>2 DEF CbRecord, Places
<1>5. Inside(k)' = Inside(k) \ {c} /\ c \in Inside(k) /\ Inside(k) \subseteq Callbacks
  BY <1>1, <1>2, <1>4 DEF Inside
<1>6. \A j \in Activations : j # k => Inside(j)' = Inside(j)
  BY <1>1, <1>2, <1>4 DEF Inside
<1>7. /\ Cardinality(Inside(k)') = Cardinality(Inside(k)) - 1 /\ Cardinality(Inside(k)) \in Nat
      /\ Cardinality(Inside(k)) # 0
  <2>1. PICK S : S = Inside(k)
    OBVIOUS
  <2>2. IsFiniteSet(S) /\ c \in S
    BY <1>5, <2>1, FiniteCallbacks, FS_Subset
  <2>3. Cardinality(S \ {c}) = Cardinality(S) - 1 /\ Cardinality(S) \in Nat /\ Cardinality(S) # 0
    BY <2>2, FS_RemoveElement, FS_CardinalityType, FS_EmptySet
  <2> QED BY <1>5, <2>1, <2>3
<1>8. /\ ctx' \in [Activations -> CtxRecord] /\ ctx'[k].entries = Cardinality(Inside(k)')
      /\ \A j \in Activations : j # k => ctx'[j] = ctx[j]
      /\ \A j \in Activations : ctx'[j].retired = ctx[j].retired /\ ctx'[j].freed = ctx[j].freed
  <2>1. ctx[k].entries = Cardinality(Inside(k)) /\ ctx[k].entries \in 0 .. Cardinality(Callbacks)
    BY <1>3 DEF IInv, Callers, CtxRecord
  <2>2. ctx[k].entries - 1 \in 0 .. Cardinality(Callbacks)
    BY <1>7, <2>1, FiniteCallbacks
  <2>3. PICK n : n = ctx[k].entries - 1
    OBVIOUS
  <2>4. ctx' = [ctx EXCEPT ![k].entries = n]
    BY <1>2, <2>3
  <2>5. /\ ctx' \in [Activations -> CtxRecord] /\ ctx'[k].entries = n
        /\ ctx'[k].retired = ctx[k].retired /\ ctx'[k].freed = ctx[k].freed
        /\ \A j \in Activations : j # k => ctx'[j] = ctx[j]
    BY <1>2, <1>3, <2>2, <2>3, <2>4 DEF CtxRecord
  <2> QED BY <1>7, <2>1, <2>3, <2>5
<1>9. TypeOK'
  BY <1>2, <1>4, <1>8 DEF IInv, TypeOK
<1>10. Callers'
  <2>1. \A d \in Callbacks : cb'[d].pc # "idle" => cb'[d].at = slot'.at /\ slot'.at # 0
    BY <1>2, <1>4 DEF IInv, Callers
  <2>2. \A j \in Activations : ctx'[j].entries = Cardinality(Inside(j)')
    BY <1>6, <1>8 DEF IInv, Callers
  <2>3. \A d \in Callbacks : cb'[d].pc = "pump" <=> cb[d].pc = "pump"
    BY <1>2, <1>4
  <2> QED BY <1>2, <2>1, <2>2, <2>3 DEF IInv, Callers
<1>11. OnePump'
  BY <1>2 DEF IInv, OnePump
<1>12. Gate' /\ States' /\ Endpoint'
  BY <1>2, GateKept, StatesKept, EndpointKept DEF IInv
<1>13. Children'
  <2>1. del.pc # "reset"
    BY <1>3, <1>7 DEF IInv, Children, Callers
  <2> QED BY <1>2, <1>8, <2>1 DEF IInv, Children
<1>14. InFlight' <=> InFlight
  BY <1>2 DEF InFlight
<1>15. Tokens' /\ Mirror'
  <2>1. \A d \in Callbacks : cb'[d].pc = "entered" => cb[d].pc = "entered"
    BY <1>4
  <2> QED BY <1>2, <1>14, <2>1, TokensKept, MirrorKept DEF IInv
<1>16. Awake'
  BY <1>2 DEF IInv, Awake, CanTake, MayPump, CleanupStarted
<1> QED BY <1>9, <1>10, <1>11, <1>12, <1>13, <1>15, <1>16 DEF IInv

LEMMA HostReadsStep == ASSUME IInv, HostReads PROVE IInv'
<1> USE Constants
<1>1. /\ vhf_report # NoReport /\ vhf_report' = NoReport /\ slot' = slot /\ SlotKept /\ IoctlKept
      /\ host' = (IF vhf_report.down THEN host \cup {vhf_report.kind} ELSE host \ {vhf_report.kind})
      /\ UNCHANGED <<powered, stopping, pnp, downs, cleanup, lifetime, core, ctx, child, told,
                     ioctl, pump, cb, del, opens>>
  BY DEF HostReads, Device, Threads, SlotKept, IoctlKept
<1>2. /\ vhf_report \in Reports /\ vhf_report.kind \in Kinds
      /\ vhf_report.kind = "pointer" => ~vhf_report.down
      /\ vhf_report.down \in BOOLEAN
  BY <1>1, ReportFields DEF IInv, TypeOK
<1>3. TypeOK'
  <2>1. host \subseteq Kinds \ {"pointer"}
    BY DEF IInv, TypeOK
  <2>2. host' \subseteq Kinds \ {"pointer"}
    BY <1>1, <1>2, <2>1
  <2> QED BY <1>1, <2>2 DEF IInv, TypeOK
<1>4. Gate' /\ States' /\ Endpoint' /\ Children'
  BY <1>1, GateKept, StatesKept, EndpointKept, ChildrenKept DEF IInv
<1>5. Callers'
  <2>1. \A k \in Activations : Inside(k)' = Inside(k)
    BY <1>1 DEF Inside
  <2> QED BY <1>1, <2>1 DEF IInv, Callers
<1>6. OnePump'
  BY <1>1 DEF IInv, OnePump
<1>7. InFlight' <=> InFlight
  BY <1>1 DEF InFlight
<1>8. /\ ~InFlight /\ ~core.credit /\ slot.at # 0 /\ child[slot.at] # "deleted" /\ Pending
      /\ core.retained = vhf_report /\ \A c \in Callbacks : cb[c].pc # "entered"
  BY <1>1 DEF IInv, Tokens, Asked, Pending
<1>9. Tokens'
  BY <1>1, <1>7, <1>8 DEF Tokens, Pending
<1>10. Mirror'
  <2>1. ~Pending'
    BY <1>1, <1>7, <1>8 DEF Pending
  <2>2. core.state # "drained"
    BY <1>8 DEF IInv, Mirror
  <2>3. ASSUME slot.state \in {"starting", "active"}, core.state \in {"active", "closing"},
               NEW k \in Kinds, Absent(k)
        PROVE  k \in host' <=> k \in core.held
    <3>1. CASE k = vhf_report.kind
      <4>1. vhf_report.down <=> k \in core.held
        BY <1>8, <2>3, <3>1 DEF IInv, Mirror
      <4> QED BY <1>1, <3>1, <4>1
    <3>2. CASE k # vhf_report.kind
      <4>1. k \in host <=> k \in core.held
        BY <1>8, <2>3, <3>2 DEF IInv, Mirror
      <4> QED BY <1>1, <3>2, <4>1
    <3> QED BY <3>1, <3>2
  <2>4. \A k \in Kinds : Absent(k)' <=> Absent(k)
    BY <1>1 DEF Absent
  <2> QED BY <1>1, <2>1, <2>2, <2>3, <2>4 DEF IInv, Mirror, Last
<1>11. Awake'
  BY <1>1 DEF IInv, Awake, CanTake, MayPump, CleanupStarted
<1> QED BY <1>3, <1>4, <1>5, <1>6, <1>9, <1>10, <1>11 DEF IInv

-----------------------------------------------------------------------------
(* What a step that no thread in a call takes part in keeps.               *)
LEMMA CallersKept ==
  ASSUME Callers, UNCHANGED <<pump, cb>>, slot'.at = slot.at \/ \A c \in Callbacks : cb[c].pc = "idle",
         ioctl'.pc = "pump" <=> ioctl.pc = "pump",
         \A k \in Activations : ctx'[k].entries = ctx[k].entries
  PROVE  Callers'
<1>1. \A k \in Activations : Inside(k)' = Inside(k)
  BY DEF Inside
<1>2. \A c \in Callbacks : cb'[c].pc # "idle" => cb'[c].at = slot'.at /\ slot'.at # 0
  BY DEF Callers
<1>3. \A c \in Callbacks : pump'[c].pc # "no" => pump'[c].ctx = slot'.at
  <2>1. \A c \in Callbacks : pump[c].pc # "no" => cb[c].pc # "idle" /\ pump[c].ctx = slot.at
    BY DEF Callers
  <2> QED BY <2>1
<1> QED BY <1>1, <1>2, <1>3 DEF Callers

LEMMA OnePumpKept ==
  ASSUME OnePump, UNCHANGED pump, slot'.at = slot.at, slot'.pumping = slot.pumping,
         slot'.submits = slot.submits, del'.pc \in Emptied => ~slot.pumping
  PROVE  OnePump'
BY DEF OnePump

LEMMA NobodyPumps ==
  ASSUME IInv, ~slot.pumping
  PROVE  /\ \A t \in Pumpers : pump[t].pc \notin Busy \cup Flight
         /\ slot.submits = 0 /\ ~InFlight
<1>1. \A t \in Pumpers : pump[t].pc \notin Busy \cup Flight
  BY DEF IInv, OnePump, Busy, Flight
<1>2. slot.submits = 0
  BY <1>1, SlotFields DEF IInv, TypeOK, OnePump
<1> QED BY <1>1, <1>2 DEF InFlight, Flight

LEMMA NoPumpStarts ==
  ASSUME IInv, ~slot.pumping, UNCHANGED pump, ~slot'.pumping, slot'.submits = 0
  PROVE  OnePump' /\ ~InFlight'
<1>1. /\ \A t \in Pumpers : pump'[t].pc \notin Busy \cup Flight
      /\ ~InFlight
  BY NobodyPumps
<1> QED BY <1>1 DEF OnePump, InFlight

LEMMA AwakeKept ==
  ASSUME Awake, UNCHANGED <<core, pump>>, slot'.pumping = slot.pumping, MayPump(0)' => MayPump(0)
  PROVE  Awake'
BY DEF Awake, CanTake

LEMMA DeadMirror ==
  ASSUME core'.state \in {"faulted", "closed"}, ~core'.credit
  PROVE  Mirror' /\ Awake'
BY DEF Mirror, Awake, CanTake

LEMMA DeleteWaitsStep == ASSUME IInv, DeleteWaits PROVE IInv'
<1> USE Constants
<1>1. /\ del.pc = "wait" /\ ~slot.pumping /\ del' = [del EXCEPT !.pc = "take"] /\ del \in DelRecord
      /\ UNCHANGED <<powered, stopping, pnp, downs, cleanup, lifetime, slot, core, ctx, child, told,
                     vhf_report, host, ioctl, pump, cb, opens>>
      /\ SlotKept /\ IoctlKept
  BY DEF DeleteWaits, Device, Vhf, Threads, IInv, TypeOK, SlotKept, IoctlKept
<1>2. del' \in DelRecord /\ del'.pc = "take" /\ del'.at = del.at
  BY <1>1 DEF DelRecord
<1>3. TypeOK'
  BY <1>1, <1>2 DEF IInv, TypeOK
<1>4. Gate' /\ States'
  BY <1>1, <1>2, GateKept, StatesKept DEF IInv
<1>5. Callers' /\ OnePump'
  BY <1>1, CallersKept, OnePumpKept DEF IInv
<1>6. Children' /\ Endpoint'
  BY <1>1, <1>2 DEF IInv, Children, Endpoint
<1>7. InFlight' <=> InFlight
  BY <1>1 DEF InFlight
<1>8. Tokens' /\ Mirror'
  BY <1>1, <1>7, TokensKept, MirrorKept DEF IInv
<1>9. Awake'
  BY <1>1 DEF IInv, Awake, CanTake, MayPump, CleanupStarted
<1> QED BY <1>3, <1>4, <1>5, <1>6, <1>8, <1>9 DEF IInv

LEMMA DeleteTakesStep == ASSUME IInv, DeleteTakes PROVE IInv'
<1> USE Constants
<1>1. /\ del.pc = "take" /\ del \in DelRecord /\ slot \in SlotRecord
      /\ UNCHANGED <<powered, stopping, pnp, downs, cleanup, lifetime, slot, ctx, child, told,
                     vhf_report, host, ioctl, pump, cb, opens>>
      /\ SlotKept /\ IoctlKept
  BY DEF DeleteTakes, Device, Vhf, Threads, IInv, TypeOK, SlotKept, IoctlKept
<1>2. ~slot.pumping /\ del.at = 0 /\ slot.state \in {"empty", "stopping"}
  BY <1>1 DEF IInv, OnePump, Children, States, Emptied
<1>3. InFlight' <=> InFlight
  BY <1>1 DEF InFlight
<1>4. CASE slot.state = "stopping"
  <2>1. /\ del' = [del EXCEPT !.pc = "vhf", !.at = slot.at, !.lost = IF del.retain THEN slot.owner ELSE None]
        /\ core' = Faulted(core)
    BY <1>4 DEF DeleteTakes
  <2>2. del' \in DelRecord /\ del'.pc = "vhf" /\ del'.at = slot.at
    <3>1. PICK o : o = IF del.retain THEN slot.owner ELSE None
      OBVIOUS
    <3>2. o \in Holders /\ slot.at \in Places
      BY <1>1, <3>1, SlotFields DEF Holders
    <3>3. del' = [del EXCEPT !.pc = "vhf", !.at = slot.at, !.lost = o]
      BY <2>1, <3>1
    <3> DEFINE e == [del EXCEPT !.pc = "vhf"]
               f == [e EXCEPT !.at = slot.at]
    <3>4. e \in DelRecord /\ e.pc = "vhf"
      BY <1>1 DEF DelRecord
    <3>5. del' = [f EXCEPT !.lost = o]
      BY <3>3
    <3> HIDE DEF e
    <3>6. f \in DelRecord /\ f.pc = "vhf" /\ f.at = slot.at
      BY <3>2, <3>4 DEF DelRecord
    <3> HIDE DEF f
    <3> QED BY <3>2, <3>5, <3>6 DEF DelRecord
  <2>3. /\ core' \in CoreRecord /\ Len(core'.queue) <= Capacity
        /\ core'.state \in {"closed", "faulted"} /\ ~core'.credit /\ core'.retained = core.retained
        /\ core.state = "closed" => core' = core
        /\ core.state # "closed" => core'.state # "closed"
        /\ core'.owner = core.owner
        /\ core'.state = "closed" \/ core'.queue = <<>>
    BY <2>1, FaultedInv
  <2>4. TypeOK'
    BY <1>1, <2>2, <2>3 DEF IInv, TypeOK
  <2>5. Gate' /\ States'
    BY <1>1, <2>2, GateKept, StatesKept DEF IInv
  <2>6. Callers' /\ OnePump'
    BY <1>1, <1>2, CallersKept, OnePumpKept DEF IInv
  <2>7. Children'
    BY <1>1, <1>4, <2>2 DEF IInv, Children
  <2>8. Endpoint'
    BY <1>1, <1>4, <2>2, <2>3 DEF IInv, Endpoint
  <2>9. Tokens'
    BY <1>1, <1>3, <2>3, TokensKept DEF IInv
  <2>10. Mirror' /\ Awake'
    BY <2>3, DeadMirror
  <2> QED BY <2>4, <2>5, <2>6, <2>7, <2>8, <2>9, <2>10 DEF IInv
<1>5. CASE slot.state # "stopping"
  <2>1. del' = [del EXCEPT !.pc = "reset"] /\ UNCHANGED core /\ slot.state = "empty"
    BY <1>2, <1>5 DEF DeleteTakes
  <2>2. del' \in DelRecord /\ del'.pc = "reset" /\ del'.at = 0
    BY <1>1, <1>2, <2>1 DEF DelRecord
  <2>3. slot.at = 0
    BY <2>1 DEF IInv, States
  <2>4. TypeOK'
    BY <1>1, <2>1, <2>2 DEF IInv, TypeOK
  <2>5. Gate' /\ States'
    BY <1>1, <2>2, GateKept, StatesKept DEF IInv
  <2>6. Callers' /\ OnePump'
    BY <1>1, <1>2, CallersKept, OnePumpKept DEF IInv
  <2>7. Children'
    BY <1>1, <2>2, <2>3 DEF IInv, Children
  <2>8. Endpoint'
    BY <1>1, <2>1, <2>2 DEF IInv, Endpoint
  <2>9. Tokens' /\ Mirror'
    BY <1>1, <1>3, <2>1, TokensKept, MirrorKept DEF IInv
  <2>10. Awake'
    BY <2>1, <1>1 DEF IInv, Awake, CanTake, MayPump, CleanupStarted
  <2> QED BY <2>4, <2>5, <2>6, <2>7, <2>8, <2>9, <2>10 DEF IInv
<1> QED BY <1>4, <1>5

LEMMA NativeDeleteStep == ASSUME IInv, NativeDelete PROVE IInv'
<1> USE Constants
<1>1. /\ del.pc \in {"vhf", "deleting"} /\ del \in DelRecord /\ slot \in SlotRecord
      /\ UNCHANGED <<powered, stopping, pnp, downs, cleanup, lifetime, slot, core, ctx,
                     ioctl, pump, cb, opens>>
      /\ SlotKept /\ IoctlKept
  BY DEF NativeDelete, Device, Threads, IInv, TypeOK, SlotKept, IoctlKept
<1>2. /\ ~slot.pumping /\ del.at = slot.at /\ slot.state = "stopping" /\ slot.at \in Places
      /\ core.state \in {"faulted", "closed"} /\ ~core.credit
  BY <1>1, SlotFields DEF IInv, OnePump, Children, Endpoint, Emptied
<1>3. ~InFlight' /\ ~InFlight
  BY <1>1, <1>2, NobodyPumps DEF InFlight
<1>4. Mirror' /\ Awake'
  BY <1>1, <1>2, DeadMirror
<1>5. CASE del.pc = "vhf" /\ del.at = 0
  <2>1. del' = [del EXCEPT !.pc = "reset"] /\ UNCHANGED <<child, told, vhf_report, host>>
    BY <1>5 DEF NativeDelete, Vhf
  <2>2. del' \in DelRecord /\ del'.pc = "reset" /\ del'.at = del.at
    BY <1>1, <2>1 DEF DelRecord
  <2>3. TypeOK'
    BY <1>1, <2>1, <2>2 DEF IInv, TypeOK
  <2>4. Gate' /\ States'
    BY <1>1, <2>2, GateKept, StatesKept DEF IInv
  <2>5. Callers' /\ OnePump'
    BY <1>1, <1>2, CallersKept, OnePumpKept DEF IInv
  <2>6. Children'
    BY <1>1, <1>2, <1>5, <2>1, <2>2 DEF IInv, Children
  <2>7. Endpoint'
    BY <1>1, <1>2, <2>2 DEF IInv, Endpoint
  <2>8. Tokens'
    BY <1>1, <1>3, <2>1, TokensKept DEF IInv
  <2> QED BY <1>4, <2>3, <2>4, <2>5, <2>6, <2>7, <2>8 DEF IInv
<1>6. CASE del.pc = "vhf" /\ del.at # 0
  <2>1. /\ del' = [del EXCEPT !.pc = "deleting"] /\ child' = [child EXCEPT ![del.at] = "deleting"]
        /\ UNCHANGED <<told, vhf_report, host>>
    BY <1>6 DEF NativeDelete, Vhf
  <2>2. del' \in DelRecord /\ del'.pc = "deleting" /\ del'.at = del.at
    BY <1>1, <2>1 DEF DelRecord
  <2>3. /\ slot.at \in Activations /\ child'[slot.at] = "deleting"
        /\ \A k \in Activations : k # slot.at => child'[k] = child[k]
        /\ child' \in [Activations -> {"none", "created", "started", "deleting", "deleted"}]
    BY <1>2, <1>6, <2>1 DEF IInv, TypeOK
  <2>4. TypeOK'
    BY <1>1, <2>1, <2>2, <2>3 DEF IInv, TypeOK
  <2>5. Gate' /\ States'
    BY <1>1, <2>2, GateKept, StatesKept DEF IInv
  <2>6. Callers' /\ OnePump'
    BY <1>1, <1>2, CallersKept, OnePumpKept DEF IInv
  <2>7. ioctl.pc # "publish" /\ child[slot.at] \in {"created", "started"}
    BY <1>2, <1>6 DEF IInv, States, Children, Opening
  <2>8. Children'
    BY <1>1, <1>2, <2>2, <2>3, <2>7 DEF IInv, Children
  <2>9. Endpoint'
    BY <1>1, <1>2, <2>2 DEF IInv, Endpoint
  <2>10. Tokens'
    BY <1>1, <1>2, <1>3, <2>1, <2>3, <2>7 DEF IInv, Tokens, Asked, Pending
  <2> QED BY <1>4, <2>4, <2>5, <2>6, <2>8, <2>9, <2>10 DEF IInv
<1>7. CASE del.pc = "deleting"
  <2>1. /\ del' = [del EXCEPT !.pc = "drain"] /\ child' = [child EXCEPT ![del.at] = "deleted"]
        /\ told' = FALSE /\ vhf_report' = NoReport /\ host' = {}
    BY <1>7 DEF NativeDelete
  <2>2. del' \in DelRecord /\ del'.pc = "drain" /\ del'.at = del.at /\ slot.at # 0
    BY <1>1, <1>7, <2>1 DEF DelRecord, IInv, Children
  <2>3. /\ slot.at \in Activations /\ child'[slot.at] = "deleted"
        /\ \A k \in Activations : k # slot.at => child'[k] = child[k]
        /\ child' \in [Activations -> {"none", "created", "started", "deleting", "deleted"}]
    BY <1>2, <2>1, <2>2 DEF IInv, TypeOK
  <2>4. TypeOK'
    BY <1>1, <2>1, <2>2, <2>3 DEF IInv, TypeOK
  <2>5. Gate' /\ States'
    BY <1>1, <1>7, <2>2, GateKept, StatesKept DEF IInv
  <2>6. Callers' /\ OnePump'
    BY <1>1, <1>2, CallersKept, OnePumpKept DEF IInv
  <2>7. ioctl.pc # "publish"
    BY <1>2 DEF IInv, States, Opening
  <2>8. Children'
    BY <1>1, <1>2, <2>2, <2>3, <2>7 DEF IInv, Children
  <2>9. Endpoint'
    BY <1>1, <1>2, <2>2 DEF IInv, Endpoint
  <2>10. Tokens'
    BY <1>1, <1>2, <1>3, <2>1, <2>3 DEF Tokens, Pending
  <2> QED BY <1>4, <2>4, <2>5, <2>6, <2>8, <2>9, <2>10 DEF IInv
<1> QED BY <1>1, <1>5, <1>6, <1>7

(* Nobody is inside a context that counts nobody.                          *)
LEMMA Deserted ==
  ASSUME IInv, slot.at = 0 \/ ctx[slot.at].entries = 0
  PROVE  \A c \in Callbacks : cb[c].pc = "idle"
<1> SUFFICES ASSUME NEW c \in Callbacks, cb[c].pc # "idle"
             PROVE  FALSE
  OBVIOUS
<1>1. cb[c].at = slot.at /\ slot.at # 0 /\ slot.at \in Activations
  BY SlotFields, Constants DEF IInv, TypeOK, Callers
<1>2. Cardinality(Inside(slot.at)) = 0
  BY <1>1 DEF IInv, Callers
<1>3. c \in Inside(slot.at) /\ Inside(slot.at) \subseteq Callbacks
  BY <1>1 DEF Inside
<1>4. PICK S : S = Inside(slot.at)
  OBVIOUS
<1>5. IsFiniteSet(S)
  BY <1>3, <1>4, FiniteCallbacks, FS_Subset
<1>6. S = {}
  BY <1>2, <1>4, <1>5, FS_EmptySet
<1> QED BY <1>3, <1>4, <1>6

(* Nothing goes on in a slot that has no activation.                       *)
LEMMA NoActivation ==
  ASSUME IInv, slot.at = 0
  PROVE  /\ \A c \in Callbacks : cb[c].pc = "idle"
         /\ ~slot.pumping /\ slot.submits = 0 /\ ~InFlight /\ ~Pending
         /\ ~told /\ vhf_report = NoReport /\ host = {} /\ ~core.credit
<1>1. \A c \in Callbacks : cb[c].pc = "idle"
  BY Deserted
<1>2. ~slot.pumping
  BY DEF IInv, OnePump
<1>3. slot.submits = 0 /\ ~InFlight
  BY <1>2, NobodyPumps
<1>4. ~told /\ vhf_report = NoReport /\ host = {} /\ ~core.credit
  BY DEF IInv, Tokens, Asked
<1> QED BY <1>1, <1>2, <1>3, <1>4 DEF Pending

LEMMA DeleteDrainsStep == ASSUME IInv, DeleteDrains PROVE IInv'
<1> USE Constants
<1>1. /\ del.pc = "drain" /\ ctx[del.at].entries = 0
      /\ del' = [del EXCEPT !.pc = "reset"] /\ del \in DelRecord
      /\ UNCHANGED <<powered, stopping, pnp, downs, cleanup, lifetime, slot, core, ctx, child, told,
                     vhf_report, host, ioctl, pump, cb, opens>>
      /\ SlotKept /\ IoctlKept
  BY DEF DeleteDrains, Device, Vhf, Threads, IInv, TypeOK, SlotKept, IoctlKept
<1>2. del' \in DelRecord /\ del'.pc = "reset" /\ del'.at = del.at
  BY <1>1 DEF DelRecord
<1>3. ~slot.pumping /\ del.at = slot.at
  BY <1>1 DEF IInv, OnePump, Children, Emptied
<1>4. TypeOK'
  BY <1>1, <1>2 DEF IInv, TypeOK
<1>5. Gate' /\ States'
  BY <1>1, <1>2, GateKept, StatesKept DEF IInv
<1>6. Callers' /\ OnePump'
  BY <1>1, <1>3, CallersKept, OnePumpKept DEF IInv
<1>7. Children' /\ Endpoint'
  BY <1>1, <1>2, <1>3 DEF IInv, Children, Endpoint
<1>8. InFlight' <=> InFlight
  BY <1>1 DEF InFlight
<1>9. Tokens' /\ Mirror'
  BY <1>1, <1>8, TokensKept, MirrorKept DEF IInv
<1>10. Awake'
  BY <1>1 DEF IInv, Awake, CanTake, MayPump, CleanupStarted
<1> QED BY <1>4, <1>5, <1>6, <1>7, <1>9, <1>10 DEF IInv

(* The slot that remains, of nobody's or of the file that lost its child.  *)
LEMMA ResetSlotFields ==
  ASSUME NEW s \in SlotRecord
  PROVE  /\ ResetSlot(s) \in SlotRecord /\ ResetSlot(s).state = "empty" /\ ResetSlot(s).owner = None
         /\ ResetSlot(s).at = 0 /\ ResetSlot(s).submits = 0 /\ ~ResetSlot(s).pumping
         /\ \A o \in Holders :
              LET l == [ResetSlot(s) EXCEPT !.owner = o, !.state = "lost"]
              IN  /\ l \in SlotRecord /\ l.state = "lost" /\ l.owner = o /\ l.at = 0 /\ l.submits = 0
                  /\ ~l.pumping
<1>1. s.gen \in Nat
  BY SlotFields
<1>2. /\ ResetSlot(s) \in SlotRecord /\ ResetSlot(s).state = "empty" /\ ResetSlot(s).owner = None
      /\ ResetSlot(s).at = 0 /\ ResetSlot(s).submits = 0 /\ ~ResetSlot(s).pumping
  BY <1>1, Constructed DEF ResetSlot, SlotRecord
<1>3. PICK r : r = ResetSlot(s)
  OBVIOUS
<1>4. ASSUME NEW o \in Holders
      PROVE  LET l == [r EXCEPT !.owner = o, !.state = "lost"]
             IN  /\ l \in SlotRecord /\ l.state = "lost" /\ l.owner = o /\ l.at = 0 /\ l.submits = 0
                 /\ ~l.pumping
  BY <1>2, <1>3 DEF SlotRecord
<1> QED BY <1>2, <1>3, <1>4

LEMMA DeleteResetsStep == ASSUME IInv, DeleteResets PROVE IInv'
<1> USE Constants, Constructed
<1>1. /\ del.pc = "reset" /\ del' = NoDelete /\ lifetime' = None
      /\ ctx' = (IF del.at # 0 THEN [ctx EXCEPT ![del.at].freed = TRUE] ELSE ctx)
      /\ ioctl' = (IF lifetime = "ioctl" THEN IdleIoctl ELSE ioctl)
      /\ cleanup' = (IF lifetime \in Owners THEN [cleanup EXCEPT ![lifetime] = "done"] ELSE cleanup)
      /\ pnp' = (IF lifetime = "pnp" THEN (IF stopping THEN "released" ELSE "off") ELSE pnp)
      /\ UNCHANGED <<powered, stopping, downs, child, told, vhf_report, host, pump, cb, opens>>
      /\ slot \in SlotRecord /\ del \in DelRecord /\ ctx \in [Activations -> CtxRecord]
      /\ ioctl \in IoctlRecord
  BY DEF DeleteResets, Vhf, IInv, TypeOK
<1>2. /\ ~slot.pumping /\ del.at = slot.at /\ slot.at \in Places /\ slot.state \in {"empty", "stopping"}
      /\ slot.at # 0 => child[slot.at] = "deleted" /\ ctx[slot.at].entries = 0
      /\ core.state \in {"faulted", "closed"} /\ del.lost \in Holders
  BY <1>1, SlotFields, DelFields DEF IInv, OnePump, Children, States, Endpoint, Emptied
<1>3. /\ \A c \in Callbacks : cb[c].pc = "idle"
      /\ ~told /\ vhf_report = NoReport /\ host = {}
  BY <1>2, Deserted DEF IInv, Tokens
<1>4. core' = ClosedCore
  <2>1. CASE slot.state = "stopping"
    BY <2>1 DEF DeleteResets
  <2>2. CASE slot.state # "stopping"
    BY <1>2, <2>2 DEF DeleteResets, IInv, Endpoint
  <2> QED BY <2>1, <2>2
<1>5. /\ slot' \in SlotRecord /\ slot'.state \in {"empty", "lost"} /\ slot'.at = 0
      /\ slot'.submits = 0 /\ ~slot'.pumping
      /\ slot'.state = "empty" => slot'.owner = None
      /\ slot'.owner # None => cleanup[slot'.owner] = "no"
  <2>1. CASE slot.state = "stopping" /\ del.lost # None /\ ~CleanupStarted(del.lost)
    <3>1. slot' = [ResetSlot(slot) EXCEPT !.owner = del.lost, !.state = "lost"]
      BY <2>1 DEF DeleteResets
    <3> QED BY <1>1, <1>2, <2>1, <3>1, ResetSlotFields DEF CleanupStarted
  <2>2. CASE slot.state = "stopping" /\ ~(del.lost # None /\ ~CleanupStarted(del.lost))
    <3>1. slot' = ResetSlot(slot)
      BY <2>2 DEF DeleteResets
    <3> QED BY <1>1, <3>1, ResetSlotFields
  <2>3. CASE slot.state # "stopping"
    <3>1. slot' = slot /\ slot.state = "empty"
      BY <1>2, <2>3 DEF DeleteResets
    <3> QED BY <1>1, <1>2, <3>1, NobodyPumps DEF IInv, States
  <2> QED BY <2>1, <2>2, <2>3
<1>6. /\ ctx' \in [Activations -> CtxRecord]
      /\ \A k \in Activations : ctx'[k].entries = ctx[k].entries /\ ctx'[k].retired = ctx[k].retired
      /\ \A k \in Activations : ctx'[k].freed => ctx[k].freed \/ k = slot.at
  <2>1. CASE del.at = 0
    BY <1>1, <2>1
  <2>2. CASE del.at # 0
    <3>1. PICK k : k = del.at
      OBVIOUS
    <3>2. k \in Activations /\ ctx[k] \in CtxRecord /\ ctx' = [ctx EXCEPT ![k].freed = TRUE]
      BY <1>1, <1>2, <2>2, <3>1
    <3>3. /\ ctx'[k] = [ctx[k] EXCEPT !.freed = TRUE] /\ DOMAIN ctx' = Activations
          /\ \A j \in Activations : j # k => ctx'[j] = ctx[j]
          /\ ctx' = [j \in Activations |-> ctx'[j]]
      BY <1>1, <3>2
    <3>4. ctx'[k] \in CtxRecord /\ ctx'[k].entries = ctx[k].entries /\ ctx'[k].retired = ctx[k].retired
      BY <3>2, <3>3 DEF CtxRecord
    <3>5. ctx' \in [Activations -> CtxRecord]
      BY <1>1, <3>3, <3>4
    <3> QED BY <1>2, <3>1, <3>3, <3>4, <3>5
  <2> QED BY <2>1, <2>2
<1>7. /\ lifetime = "ioctl" <=> ioctl.pc \in Opening \cup {"delete"}
      /\ lifetime \in Owners \cup {"pnp"} \/ ioctl.pc = "delete"
  BY <1>1 DEF IInv, Gate
<1>8. /\ ioctl' \in IoctlRecord /\ ioctl'.pc \notin Opening \cup {"delete"}
      /\ ioctl' = ioctl \/ (ioctl'.pc = "idle" /\ ioctl.pc \in Opening \cup {"delete"})
  BY <1>1, <1>7 DEF Opening
<1>9. /\ cleanup' \in [Owners -> {"no", "started", "done"}]
      /\ \A o \in Owners : cleanup'[o] = cleanup[o] \/ (o = lifetime /\ cleanup[o] = "started")
  <2>1. lifetime \in Owners => cleanup[lifetime] = "started"
    BY DEF IInv, Gate
  <2> QED BY <1>1, <2>1 DEF IInv, TypeOK
<1>10. /\ pnp' \in {"on", "leaving", "off", "releasing", "released"}
       /\ powered' => pnp' = "on"
       /\ ioctl.pc \notin Opening
  <2>1. lifetime = "pnp" => pnp \in {"leaving", "releasing"}
    BY DEF IInv, Gate
  <2>2. powered => pnp = "on"
    BY DEF IInv, States
  <2>3. ioctl.pc \notin Opening
    BY <1>2 DEF IInv, States, Opening
  <2> QED BY <1>1, <2>1, <2>2, <2>3 DEF IInv, TypeOK
<1>11. TypeOK'
  BY <1>1, <1>4, <1>5, <1>6, <1>8, <1>9, <1>10 DEF IInv, TypeOK, Holders
<1>12. Gate'
  BY <1>1, <1>8 DEF IInv, Gate, Opening
<1>13. States'
  <2>1. \A o \in Owners : cleanup'[o] = "done" => slot'.owner # o
    BY <1>5, <1>9
  <2>2. /\ ioctl'.pc = "claim" => opens' < MaxOpens
        /\ slot'.state # "starting" /\ ioctl'.pc \notin Opening
    BY <1>1, <1>5, <1>8 DEF IInv, States
  <2> QED BY <1>1, <1>5, <1>10, <2>1, <2>2 DEF States, Opening
<1>14. Callers'
  <2>1. ioctl'.pc = "pump" <=> ioctl.pc = "pump"
    BY <1>8 DEF Opening
  <2> QED BY <1>1, <1>3, <1>6, <2>1, CallersKept DEF IInv
<1>15. OnePump' /\ ~InFlight'
  BY <1>1, <1>2, <1>5, NoPumpStarts
<1>16. Children'
  <2>1. ASSUME NEW k \in Activations
        PROVE  child'[k] \in {"none", "deleted"}
    <3>1. child[k] \in {"none", "deleted"} \/ k = slot.at
      BY <1>10 DEF IInv, Children, Opening
    <3> QED BY <1>1, <1>2, <3>1
  <2>2. \A k \in Activations : ctx'[k].freed => child'[k] = "deleted" /\ k # slot'.at
    BY <1>1, <1>2, <1>5, <1>6 DEF IInv, Children
  <2>3. \A k \in Activations : ctx'[k].retired \/ ctx'[k].freed => k <= opens'
    <3>1. slot.at # 0 => slot.at = opens
      BY DEF IInv, States
    <3>2. \A k \in Activations : ctx[k].retired \/ ctx[k].freed => k <= opens
      BY DEF IInv, Children
    <3>3. opens \in Nat /\ \A k \in Activations : k # 0
      BY DEF IInv, TypeOK
    <3> QED BY <1>1, <1>6, <3>1, <3>2, <3>3
  <2> QED BY <1>1, <1>5, <1>8, <2>1, <2>2, <2>3 DEF Children, Opening
<1>17. Endpoint'
  BY <1>1, <1>4 DEF Endpoint
<1>18. Tokens'
  BY <1>1, <1>3, <1>4, <1>15 DEF Tokens, Pending
<1>19. Mirror' /\ Awake'
  BY <1>4, DeadMirror
<1> QED BY <1>11, <1>12, <1>13, <1>14, <1>15, <1>16, <1>17, <1>18, <1>19 DEF IInv

-----------------------------------------------------------------------------
(* open_keyboard_mouse.                                                    *)
LEMMA OpenLooksStep == ASSUME IInv, NEW o \in Owners, OpenLooks(o) PROVE IInv'
<1> USE Constants, Constructed
<1>1. /\ ioctl.pc = "idle" /\ opens < MaxOpens /\ slot \in SlotRecord
      /\ ioctl' = [IdleIoctl EXCEPT !.pc = "claim", !.file = o, !.gen = slot.gen]
      /\ UNCHANGED <<powered, stopping, pnp, downs, cleanup, lifetime, slot, core, ctx, child, told,
                     vhf_report, host, pump, cb, del, opens>>
      /\ SlotKept
  BY DEF OpenLooks, Device, Vhf, IInv, TypeOK, SlotKept
<1>2. ioctl' \in IoctlRecord /\ ioctl'.pc = "claim" /\ ioctl'.file = o
  BY <1>1, SlotFields DEF IdleIoctl, IoctlRecord, Holders
<1>3. TypeOK'
  BY <1>1, <1>2 DEF IInv, TypeOK
<1>4. Gate' /\ States'
  BY <1>1, <1>2 DEF IInv, Gate, States, Opening
<1>5. Callers' /\ OnePump'
  BY <1>1, <1>2, CallersKept, OnePumpKept DEF IInv, OnePump
<1>6. Children'
  BY <1>1, <1>2 DEF IInv, Children
<1>7. InFlight' <=> InFlight
  BY <1>1 DEF InFlight
<1>8. Endpoint' /\ Tokens' /\ Mirror'
  BY <1>1, <1>7, EndpointKept, TokensKept, MirrorKept DEF IInv
<1>9. Awake'
  BY <1>1 DEF IInv, Awake, CanTake, MayPump, CleanupStarted
<1> QED BY <1>3, <1>4, <1>5, <1>6, <1>8, <1>9 DEF IInv

LEMMA ClaimedSlot ==
  ASSUME slot \in SlotRecord, NEW o \in Owners
  PROVE  /\ Claimed(o) \in SlotRecord /\ Claimed(o).at = 0 /\ Claimed(o).submits = 0
         /\ ~Claimed(o).pumping /\ Claimed(o).owner = o /\ Claimed(o).state = "starting"
<1>1. PICK g : g = slot.gen + 1
  OBVIOUS
<1>2. g \in Nat /\ 0 \in Places /\ o \in Holders /\ 0 \in 0 .. 1
  BY <1>1, SlotFields DEF Places, Holders
<1>3. Claimed(o) = [state |-> "starting", owner |-> o, gen |-> g, rundown |-> FALSE, at |-> 0,
                    submits |-> 0, pumping |-> FALSE]
  <2>1. Claimed(o) = [slot EXCEPT !.rundown = FALSE, !.submits = 0, !.pumping = FALSE, !.gen = g, !.at = 0,
                                  !.owner = o, !.state = "starting"]
    BY <1>1 DEF Claimed, SlotRecord
  <2> QED BY <2>1 DEF SlotRecord
<1>4. [state |-> "starting", owner |-> o, gen |-> g, rundown |-> FALSE, at |-> 0, submits |-> 0,
       pumping |-> FALSE] \in SlotRecord
  BY <1>2 DEF SlotRecord
<1> QED BY <1>3, <1>4

LEMMA OpenClaimsStep == ASSUME IInv, OpenClaims PROVE IInv'
<1> USE Constants, Constructed
<1>1. /\ ioctl.pc = "claim" /\ lifetime = None /\ slot \in SlotRecord /\ ioctl \in IoctlRecord
      /\ UNCHANGED <<powered, stopping, pnp, downs, cleanup, ctx, child, told, vhf_report, host, pump,
                     cb, del>>
  BY DEF OpenClaims, Device, Vhf, IInv, TypeOK
<1>2. ioctl.file \in Owners /\ del.pc = "no" /\ opens < MaxOpens /\ opens \in Nat
  BY <1>1 DEF IInv, TypeOK, Gate, States, Opening
<1>3. CASE ioctl' = IdleIoctl /\ UNCHANGED <<slot, core, lifetime, opens>>
  <2>1. SlotKept
    BY <1>3 DEF SlotKept
  <2>2. TypeOK'
    BY <1>1, <1>3 DEF IInv, TypeOK
  <2>3. Gate' /\ States'
    BY <1>1, <1>3 DEF IInv, Gate, States, Opening
  <2>4. Callers' /\ OnePump'
    BY <1>1, <1>3, CallersKept, OnePumpKept DEF IInv, OnePump
  <2>5. Children'
    BY <1>1, <1>3 DEF IInv, Children
  <2>6. InFlight' <=> InFlight
    BY <1>1 DEF InFlight
  <2>7. Endpoint' /\ Tokens' /\ Mirror'
    BY <1>1, <1>3, <2>1, <2>6, EndpointKept, TokensKept, MirrorKept DEF IInv
  <2>8. Awake'
    BY <1>1, <1>3 DEF IInv, Awake, CanTake, MayPump, CleanupStarted
  <2> QED BY <2>2, <2>3, <2>4, <2>5, <2>7, <2>8 DEF IInv
<1>4. CASE ~(ioctl' = IdleIoctl /\ UNCHANGED <<slot, core, lifetime, opens>>)
  <2>1. /\ Live(ioctl.file) /\ Available(ioctl.file) /\ core.state = "closed"
        /\ slot' = Claimed(ioctl.file)
        /\ core' = [ClosedCore EXCEPT !.state = "active", !.owner = ioctl.file]
        /\ lifetime' = "ioctl" /\ ioctl' = [ioctl EXCEPT !.pc = "create"] /\ opens' = opens + 1
    BY <1>4 DEF OpenClaims
  <2>2. /\ powered /\ pnp = "on" /\ cleanup[ioctl.file] = "no" /\ slot.state \in {"empty", "lost"}
        /\ slot.at = 0
    BY <2>1 DEF Live, CleanupStarted, Available, IInv, States
  <2>3. /\ \A c \in Callbacks : cb[c].pc = "idle"
        /\ ~slot.pumping /\ slot.submits = 0 /\ ~InFlight /\ ~Pending
        /\ ~told /\ vhf_report = NoReport /\ host = {} /\ ~core.credit
    BY <2>2, NoActivation
  <2>4. /\ slot' \in SlotRecord /\ slot'.at = 0 /\ slot'.submits = 0 /\ ~slot'.pumping
        /\ slot'.owner = ioctl.file /\ slot'.state = "starting"
    BY <1>1, <1>2, <2>1, ClaimedSlot
  <2>5. /\ core' \in CoreRecord /\ core'.state = "active" /\ core'.owner = ioctl.file
        /\ core'.held = {} /\ core'.queue = <<>> /\ ~core'.credit /\ core'.retained = NoReport
    <3>1. ioctl.file \in Holders
      BY <1>2 DEF Holders
    <3> QED BY <2>1, <3>1 DEF ClosedCore, CoreRecord
  <2>6. ioctl' \in IoctlRecord /\ ioctl'.pc = "create" /\ ioctl'.file = ioctl.file
    BY <1>1, <2>1 DEF IoctlRecord
  <2>7. opens' \in 0 .. MaxOpens /\ opens' \in Activations /\ opens < opens'
    BY <1>2, <2>1 DEF Activations
  <2>8. TypeOK'
    <3>1. Len(core'.queue) <= Capacity
      BY <2>5
    <3> QED BY <1>1, <2>1, <2>4, <2>5, <2>6, <2>7, <3>1 DEF IInv, TypeOK
  <2>9. Gate'
    BY <1>1, <1>2, <2>1, <2>6 DEF IInv, Gate, Opening
  <2>10. States'
    BY <1>1, <1>2, <2>2, <2>4, <2>6, <2>7 DEF IInv, States, Opening
  <2>11. Callers'
    BY <1>1, <2>3, <2>6, CallersKept DEF IInv
  <2>12. OnePump' /\ ~InFlight'
    BY <1>1, <2>3, <2>4, NoPumpStarts
  <2>13. Children'
    <3>1. \A k \in Activations : child[k] \in {"none", "deleted"}
      BY <1>1, <2>2 DEF IInv, Children
    <3>2. ASSUME NEW k \in Activations, ctx[k].retired \/ ctx[k].freed
          PROVE  k <= opens' /\ k # opens'
      <4>1. k <= opens /\ k \in Nat
        BY <3>2 DEF IInv, Children
      <4> QED BY <1>2, <2>1, <4>1
    <3> QED BY <1>1, <1>2, <2>4, <2>6, <3>1, <3>2 DEF IInv, Children
  <2>14. Endpoint'
    BY <1>1, <1>2, <2>4, <2>5 DEF Endpoint
  <2>15. Tokens'
    BY <1>1, <2>3, <2>5, <2>12 DEF Tokens, Pending
  <2>16. Mirror'
    <3>1. ~Pending' /\ DOMAIN core'.queue = {}
      BY <1>1, <2>3, <2>5, <2>12 DEF Pending
    <3> QED BY <1>1, <2>3, <2>5, <3>1 DEF Mirror
  <2>17. Awake'
    BY <2>5 DEF Awake, CanTake
  <2> QED BY <2>8, <2>9, <2>10, <2>11, <2>12, <2>13, <2>14, <2>15, <2>16, <2>17 DEF IInv
<1> QED BY <1>3, <1>4

LEMMA OpenCreatesStep == ASSUME IInv, OpenCreates PROVE IInv'
<1> USE Constants, Constructed
<1>1. /\ ioctl.pc = "create" /\ slot \in SlotRecord /\ ioctl \in IoctlRecord
      /\ UNCHANGED <<powered, stopping, pnp, downs, cleanup, ctx, told, vhf_report, host, pump, cb, del,
                     opens>>
  BY DEF OpenCreates, Device, IInv, TypeOK
<1>2. /\ slot.at = 0 /\ lifetime = "ioctl" /\ opens \in Activations /\ slot.state = "starting"
      /\ del.pc = "no"
  BY <1>1 DEF IInv, States, Gate, Opening
<1>3. /\ \A c \in Callbacks : cb[c].pc = "idle"
      /\ ~slot.pumping /\ slot.submits = 0 /\ ~InFlight /\ ~Pending
      /\ ~told /\ vhf_report = NoReport /\ host = {} /\ ~core.credit
  BY <1>2, NoActivation
<1>4. \A k \in Activations : child[k] \in {"none", "deleted"}
  BY <1>1, <1>2 DEF IInv, Children
<1>5. CASE /\ slot' = ResetSlot(slot) /\ core' = ClosedCore /\ lifetime' = None /\ ioctl' = IdleIoctl
           /\ UNCHANGED child
  <2>1. /\ slot' \in SlotRecord /\ slot'.state = "empty" /\ slot'.owner = None
        /\ slot'.at = 0 /\ slot'.submits = 0 /\ ~slot'.pumping
    BY <1>1, <1>5, ResetSlotFields
  <2>2. TypeOK'
    BY <1>1, <1>5, <2>1 DEF IInv, TypeOK, Holders
  <2>3. Gate' /\ States'
    BY <1>1, <1>2, <1>5, <2>1 DEF IInv, Gate, States, Opening
  <2>4. Callers'
    BY <1>1, <1>3, <1>5, CallersKept DEF IInv
  <2>5. OnePump' /\ ~InFlight'
    BY <1>1, <1>3, <2>1, NoPumpStarts
  <2>6. Children'
    BY <1>1, <1>2, <1>4, <1>5, <2>1 DEF IInv, Children
  <2>7. Endpoint'
    BY <1>1, <1>2, <1>5 DEF Endpoint
  <2>8. Tokens'
    BY <1>1, <1>3, <1>5, <2>5 DEF Tokens, Pending
  <2>9. Mirror' /\ Awake'
    BY <1>5, DeadMirror
  <2> QED BY <2>2, <2>3, <2>4, <2>5, <2>6, <2>7, <2>8, <2>9 DEF IInv
<1>6. CASE /\ child' = [child EXCEPT ![opens] = "created"]
           /\ ioctl' = [ioctl EXCEPT !.pc = "publish"] /\ UNCHANGED <<slot, core, lifetime>>
  <2>1. ioctl' \in IoctlRecord /\ ioctl'.pc = "publish" /\ ioctl'.file = ioctl.file
    BY <1>1, <1>6 DEF IoctlRecord
  <2>2. /\ child' \in [Activations -> {"none", "created", "started", "deleting", "deleted"}]
        /\ child'[opens] = "created" /\ \A k \in Activations : k # opens => child'[k] = child[k]
    BY <1>2, <1>6 DEF IInv, TypeOK
  <2>3. TypeOK'
    BY <1>1, <1>6, <2>1, <2>2 DEF IInv, TypeOK
  <2>4. Gate' /\ States'
    BY <1>1, <1>2, <1>6, <2>1 DEF IInv, Gate, States, Opening
  <2>5. Callers'
    BY <1>1, <1>6, <2>1, CallersKept DEF IInv
  <2>6. OnePump' /\ ~InFlight'
    BY <1>1, <1>3, <1>6, NoPumpStarts
  <2>7. Children'
    <3>1. \A k \in Activations : ctx[k].retired \/ ctx[k].freed => k # opens
      BY <1>1 DEF IInv, Children
    <3> QED BY <1>1, <1>2, <1>4, <1>6, <2>1, <2>2, <3>1 DEF IInv, Children
  <2>8. Endpoint'
    BY <1>1, <1>6 DEF IInv, Endpoint
  <2>9. Tokens'
    BY <1>1, <1>3, <1>6, <2>6 DEF Tokens, Pending
  <2>10. Mirror' /\ Awake'
    <3>1. SlotKept
      BY <1>6 DEF SlotKept
    <3> QED BY <1>1, <1>3, <1>6, <2>6, <3>1, MirrorKept DEF IInv, Awake, CanTake
  <2> QED BY <2>3, <2>4, <2>5, <2>6, <2>7, <2>8, <2>9, <2>10 DEF IInv
<1> QED BY <1>5, <1>6 DEF OpenCreates

-----------------------------------------------------------------------------
(* Admission ends: a slot in use is stopping, and its context retired.     *)
LEMMA StoppedSlot ==
  ASSUME NEW s \in SlotRecord
  PROVE  /\ Stopped(s) \in SlotRecord /\ Stopped(s).owner = s.owner /\ Stopped(s).at = s.at
         /\ Stopped(s).submits = s.submits /\ Stopped(s).pumping = s.pumping
         /\ s.state = "empty" => Stopped(s).state = "empty"
         /\ s.state # "empty" => Stopped(s).state = "stopping" /\ Stopped(s).rundown
<1>1. PICK g : g = s.gen + 1
  OBVIOUS
<1>2. g \in Nat
  BY <1>1, SlotFields
<1>3. CASE s.state = "empty"
  <2>1. Stopped(s) = [s EXCEPT !.gen = g]
    BY <1>1, <1>3 DEF Stopped, SlotRecord
  <2> QED BY <1>2, <1>3, <2>1 DEF SlotRecord
<1>4. CASE s.state # "empty"
  <2> DEFINE r == [s EXCEPT !.gen = g]
             q == [r EXCEPT !.rundown = TRUE]
  <2>1. r \in SlotRecord /\ r.owner = s.owner /\ r.at = s.at /\ r.submits = s.submits /\ r.pumping = s.pumping
    BY <1>2 DEF SlotRecord
  <2>2. Stopped(s) = [q EXCEPT !.state = "stopping"]
    BY <1>1, <1>4 DEF Stopped, SlotRecord
  <2> HIDE DEF r
  <2>3. /\ q \in SlotRecord /\ q.owner = s.owner /\ q.at = s.at /\ q.submits = s.submits
        /\ q.pumping = s.pumping /\ q.rundown
    BY <2>1 DEF SlotRecord
  <2> HIDE DEF q
  <2> QED BY <1>4, <2>2, <2>3 DEF SlotRecord
<1> QED BY <1>3, <1>4

LEMMA RetiredCtx ==
  ASSUME ctx \in [Activations -> CtxRecord], NEW s \in SlotRecord
  PROVE  /\ Retired(s) \in [Activations -> CtxRecord]
         /\ \A k \in Activations :
              /\ Retired(s)[k].entries = ctx[k].entries /\ Retired(s)[k].freed = ctx[k].freed
              /\ Retired(s)[k].retired => ctx[k].retired \/ (k = s.at /\ s.state # "empty")
<1>1. CASE s.state # "empty" /\ s.at # 0
  <2>1. PICK k : k = s.at
    OBVIOUS
  <2>2. k \in Activations /\ Retired(s) = [ctx EXCEPT ![k].retired = TRUE]
    BY <1>1, <2>1, SlotFields, Constants DEF Retired
  <2>3. ctx[k] \in CtxRecord
    BY <2>2
  <2>4. PICK x : x = [ctx[k] EXCEPT !.retired = TRUE]
    OBVIOUS
  <2>5. x \in CtxRecord /\ x.entries = ctx[k].entries /\ x.freed = ctx[k].freed
    BY <2>3, <2>4 DEF CtxRecord
  <2>6. Retired(s) = [ctx EXCEPT ![k] = x]
    BY <2>2, <2>4
  <2>7. /\ Retired(s) \in [Activations -> CtxRecord] /\ Retired(s)[k] = x
        /\ \A j \in Activations : j # k => Retired(s)[j] = ctx[j]
    BY <2>2, <2>5, <2>6
  <2> QED BY <1>1, <2>1, <2>5, <2>7
<1>2. CASE ~(s.state # "empty" /\ s.at # 0)
  BY <1>2 DEF Retired
<1> QED BY <1>1, <1>2

LEMMA StartedDelete ==
  ASSUME NEW retain \in BOOLEAN, del' = [NoDelete EXCEPT !.pc = "wait", !.retain = retain]
  PROVE  del' \in DelRecord /\ del'.pc = "wait" /\ del'.at = 0
BY Constructed DEF NoDelete, DelRecord

(* delete_stopped_keyboard_mouse begins on the slot as it is.              *)
LEMMA Stops ==
  ASSUME IInv, del.pc = "no", ioctl.pc \notin {"create", "publish"}, NEW retain \in BOOLEAN,
         StartDelete(slot, retain), UNCHANGED <<core, child, told, vhf_report, host, pump, cb, opens>>,
         ioctl'.pc = "pump" <=> ioctl.pc = "pump", ioctl'.pc \notin {"create", "publish"}
  PROVE  /\ slot' \in SlotRecord /\ slot'.owner = slot.owner /\ slot'.at = slot.at
         /\ slot'.state \in {"empty", "stopping"} /\ (slot'.state = "empty" => slot.state = "empty")
         /\ slot'.state = "stopping" => slot'.rundown
         /\ ctx' \in [Activations -> CtxRecord] /\ del' \in DelRecord /\ del'.pc = "wait"
         /\ Callers' /\ OnePump' /\ Children' /\ Endpoint' /\ Tokens' /\ Mirror' /\ Awake'
<1> USE Constants
<1>1. slot \in SlotRecord /\ ctx \in [Activations -> CtxRecord]
  BY DEF IInv, TypeOK
<1>2. slot' = Stopped(slot) /\ ctx' = Retired(slot)
  BY DEF StartDelete
<1>3. /\ slot' \in SlotRecord /\ slot'.owner = slot.owner /\ slot'.at = slot.at
      /\ slot'.submits = slot.submits /\ slot'.pumping = slot.pumping
      /\ slot.state = "empty" => slot'.state = "empty"
      /\ slot.state # "empty" => slot'.state = "stopping" /\ slot'.rundown
  <2>1. PICK s : s = slot
    OBVIOUS
  <2>2. s \in SlotRecord /\ slot' = Stopped(s)
    BY <1>1, <1>2, <2>1 DEF Stopped
  <2> QED BY <2>1, <2>2, StoppedSlot
<1>4. /\ ctx' \in [Activations -> CtxRecord]
      /\ \A k \in Activations :
           /\ ctx'[k].entries = ctx[k].entries /\ ctx'[k].freed = ctx[k].freed
           /\ ctx'[k].retired => ctx[k].retired \/ (k = slot.at /\ slot.state # "empty")
  <2>1. PICK s : s = slot
    OBVIOUS
  <2>2. s \in SlotRecord /\ ctx' = Retired(s)
    BY <1>1, <1>2, <2>1 DEF Retired
  <2> QED BY <1>1, <2>1, <2>2, RetiredCtx
<1>5. del' \in DelRecord /\ del'.pc = "wait" /\ del'.at = 0
  <2>1. del' = [NoDelete EXCEPT !.pc = "wait", !.retain = retain]
    BY DEF StartDelete
  <2> QED BY <2>1, StartedDelete
<1>6. Callers' /\ OnePump'
  BY <1>3, <1>4, <1>5, CallersKept, OnePumpKept DEF IInv, Emptied
<1>7. Children'
  <2>1. slot.at # 0 => slot.at = opens /\ slot.at \in Activations
    BY <1>1, SlotFields DEF IInv, States
  <2>2. slot.at # 0 => child[slot.at] \in {"created", "started"}
    BY DEF IInv, Children
  <2>3. opens \in Nat
    BY DEF IInv, TypeOK
  <2>4. ASSUME NEW k \in Activations, ctx'[k].retired \/ ctx'[k].freed
        PROVE  k <= opens /\ (k = slot'.at => slot'.state = "stopping")
    <3>1. ctx[k].retired \/ ctx[k].freed \/ (k = slot.at /\ slot.state # "empty")
      BY <1>4, <2>4
    <3>2. slot.state = "empty" => slot.at = 0
      BY DEF IInv, States
    <3>3. k # 0 /\ k \in Nat
      OBVIOUS
    <3>4. ctx[k].retired \/ ctx[k].freed => k <= opens
      BY DEF IInv, Children
    <3> QED BY <1>3, <2>1, <2>3, <3>1, <3>2, <3>3, <3>4
  <2> QED BY <1>3, <1>4, <1>5, <2>2, <2>4 DEF IInv, Children
<1>8. Endpoint'
  BY <1>3, <1>5 DEF IInv, Endpoint
<1>9. InFlight' <=> InFlight
  BY DEF InFlight
<1>10. Tokens'
  BY <1>3, <1>9 DEF IInv, Tokens, Asked, Pending
<1>11. Mirror'
  BY <1>3, <1>9 DEF IInv, Mirror, Pending
<1>12. Awake'
  BY <1>3 DEF Awake, MayPump
<1> QED BY <1>3, <1>4, <1>5, <1>6, <1>7, <1>8, <1>10, <1>11, <1>12

LEMMA OpenPublishesStep == ASSUME IInv, OpenPublishes PROVE IInv'
<1> USE Constants, Constructed
<1> DEFINE s == [slot EXCEPT !.at = opens]
<1>1. /\ ioctl.pc = "publish" /\ slot \in SlotRecord /\ ioctl \in IoctlRecord
      /\ ctx \in [Activations -> CtxRecord]
      /\ UNCHANGED <<powered, stopping, pnp, downs, cleanup, lifetime, core, child, told, vhf_report,
                     host, pump, cb, opens>>
  BY DEF OpenPublishes, Device, Vhf, IInv, TypeOK
<1>2. /\ slot.at = 0 /\ lifetime = "ioctl" /\ opens \in Activations /\ slot.state = "starting"
      /\ del.pc = "no" /\ child[opens] = "created"
  BY <1>1 DEF IInv, States, Gate, Children, Opening
<1>3. /\ \A c \in Callbacks : cb[c].pc = "idle"
      /\ ~slot.pumping /\ slot.submits = 0 /\ ~InFlight /\ ~Pending
      /\ ~told /\ vhf_report = NoReport /\ host = {} /\ ~core.credit
  BY <1>2, NoActivation
<1>4. /\ s \in SlotRecord /\ s.at = opens /\ s.state = "starting" /\ s.owner = slot.owner
      /\ s.submits = 0 /\ ~s.pumping
  BY <1>1, <1>2, <1>3 DEF SlotRecord, Places
<1>5. \A k \in Activations : ctx[k].retired \/ ctx[k].freed => k # opens /\ k <= opens
  BY <1>1 DEF IInv, Children
<1>6. ~InFlight' /\ (Pending' <=> Pending)
  BY <1>1, <1>3 DEF InFlight, Pending
<1>7. \A k \in Activations : child[k] \in {"none", "deleted"} \/ k = opens
  BY <1>2 DEF IInv, Children
<1>8. opens # 0
  BY <1>2
<1>9. /\ slot' = s /\ ioctl' = [ioctl EXCEPT !.pc = "start"] /\ UNCHANGED <<ctx, del>>
      \/ /\ slot' = Stopped(s) /\ ctx' = Retired(s) /\ ioctl' = [ioctl EXCEPT !.pc = "delete"]
         /\ del' = [NoDelete EXCEPT !.pc = "wait", !.retain = FALSE]
  BY DEF OpenPublishes, StartDelete
<1> HIDE DEF s
<1>10. Tokens'
  <2>1. slot'.at = opens
    BY <1>4, <1>9, StoppedSlot
  <2> QED BY <1>1, <1>2, <1>3, <1>6, <1>8, <2>1 DEF Tokens, Pending
<1>11. Awake'
  BY <1>1, <1>3 DEF Awake, CanTake
<1>12. CASE slot' = s /\ ioctl' = [ioctl EXCEPT !.pc = "start"] /\ UNCHANGED <<ctx, del>>
  <2>1. ioctl' \in IoctlRecord /\ ioctl'.pc = "start" /\ ioctl'.file = ioctl.file
    BY <1>1, <1>12 DEF IoctlRecord
  <2>2. TypeOK'
    BY <1>1, <1>4, <1>12, <2>1 DEF IInv, TypeOK
  <2>3. Gate'
    BY <1>1, <1>2, <1>12, <2>1 DEF IInv, Gate, Opening
  <2>4. States'
    <3>1. pnp \notin {"off", "releasing", "released"}
      BY <1>1 DEF IInv, States, Opening
    <3> QED BY <1>1, <1>2, <1>4, <1>8, <1>12, <2>1, <3>1 DEF IInv, States, Opening
  <2>5. Callers'
    BY <1>1, <1>3, <1>12, <2>1, CallersKept DEF IInv
  <2>6. OnePump'
    BY <1>1, <1>3, <1>4, <1>12, NoPumpStarts
  <2>7. Children'
    BY <1>1, <1>2, <1>4, <1>5, <1>7, <1>12, <2>1 DEF IInv, Children
  <2>8. Endpoint'
    BY <1>1, <1>2, <1>4, <1>12 DEF IInv, Endpoint
  <2>9. Mirror'
    BY <1>1, <1>2, <1>4, <1>6, <1>12 DEF IInv, Mirror, Last, Absent
  <2> QED BY <1>10, <1>11, <2>2, <2>3, <2>4, <2>5, <2>6, <2>7, <2>8, <2>9 DEF IInv
<1>13. CASE /\ slot' = Stopped(s) /\ ctx' = Retired(s) /\ ioctl' = [ioctl EXCEPT !.pc = "delete"]
            /\ del' = [NoDelete EXCEPT !.pc = "wait", !.retain = FALSE]
  <2>1. ioctl' \in IoctlRecord /\ ioctl'.pc = "delete" /\ ioctl'.file = ioctl.file
    BY <1>1, <1>13 DEF IoctlRecord
  <2>2. del' \in DelRecord /\ del'.pc = "wait" /\ del'.at = 0
    BY <1>13, StartedDelete
  <2>3. /\ slot' \in SlotRecord /\ slot'.owner = slot.owner /\ slot'.at = opens
        /\ slot'.submits = 0 /\ ~slot'.pumping /\ slot'.state = "stopping" /\ slot'.rundown
    BY <1>4, <1>13, StoppedSlot
  <2>4. /\ ctx' \in [Activations -> CtxRecord]
        /\ \A k \in Activations :
             /\ ctx'[k].entries = ctx[k].entries /\ ctx'[k].freed = ctx[k].freed
             /\ ctx'[k].retired => ctx[k].retired \/ k = opens
    BY <1>1, <1>4, <1>13, RetiredCtx
  <2>5. TypeOK'
    BY <1>1, <2>1, <2>2, <2>3, <2>4 DEF IInv, TypeOK
  <2>6. Gate'
    BY <1>1, <1>2, <2>1, <2>2 DEF IInv, Gate, Opening
  <2>7. States'
    <3>1. pnp \notin {"off", "releasing", "released"}
      BY <1>1 DEF IInv, States, Opening
    <3> QED BY <1>1, <1>2, <1>8, <2>1, <2>2, <2>3, <3>1 DEF IInv, States, Opening
  <2>8. Callers'
    BY <1>1, <1>3, <2>1, <2>4, CallersKept DEF IInv
  <2>9. OnePump'
    BY <1>1, <1>3, <2>3, NoPumpStarts
  <2>10. Children'
    <3>0. opens \in Nat /\ opens <= opens
      BY DEF IInv, TypeOK
    <3>1. \A k \in Activations : ctx'[k].retired \/ ctx'[k].freed => k <= opens
      BY <1>5, <2>4, <3>0
    <3> QED BY <1>1, <1>2, <1>5, <1>7, <2>1, <2>2, <2>3, <2>4, <3>1 DEF IInv, Children
  <2>11. Endpoint'
    BY <1>1, <1>2, <2>2, <2>3 DEF IInv, Endpoint
  <2>12. Mirror'
    BY <1>1, <1>6, <2>3 DEF IInv, Mirror
  <2> QED BY <1>10, <1>11, <2>5, <2>6, <2>7, <2>8, <2>9, <2>10, <2>11, <2>12 DEF IInv
<1> QED BY <1>9, <1>12, <1>13

LEMMA OpenStartsStep == ASSUME IInv, OpenStarts PROVE IInv'
<1> USE Constants, Constructed
<1>1. /\ ioctl.pc = "start" /\ slot \in SlotRecord /\ ioctl \in IoctlRecord /\ SlotKept
      /\ UNCHANGED <<powered, stopping, pnp, downs, cleanup, lifetime, slot, core, ctx, told, vhf_report,
                     host, pump, cb, del, opens>>
  BY DEF OpenStarts, Device, IInv, TypeOK, SlotKept
<1>2. PICK ok \in BOOLEAN :
        /\ ioctl' = [ioctl EXCEPT !.pc = "adopt", !.ok = ok]
        /\ child' = IF ok THEN [child EXCEPT ![opens] = "started"] ELSE child
  BY DEF OpenStarts
<1>3. ioctl' \in IoctlRecord /\ ioctl'.pc = "adopt" /\ ioctl'.file = ioctl.file
  BY <1>1, <1>2 DEF IoctlRecord
<1>4. /\ slot.at # 0 /\ slot.at = opens /\ opens \in Activations /\ del.pc = "no"
      /\ child[opens] \in {"created", "started"}
  BY <1>1 DEF IInv, States, Gate, Children, Opening
<1>5. /\ child' \in [Activations -> {"none", "created", "started", "deleting", "deleted"}]
      /\ child'[opens] \in {"created", "started"}
      /\ \A k \in Activations : k # opens => child'[k] = child[k]
  BY <1>2, <1>4 DEF IInv, TypeOK
<1>6. TypeOK'
  BY <1>1, <1>3, <1>5 DEF IInv, TypeOK
<1>7. Gate' /\ States'
  BY <1>1, <1>3 DEF IInv, Gate, States, Opening
<1>8. Callers' /\ OnePump'
  BY <1>1, <1>3, CallersKept, OnePumpKept DEF IInv, OnePump
<1>9. Children'
  BY <1>1, <1>3, <1>4, <1>5 DEF IInv, Children
<1>10. InFlight' <=> InFlight
  BY <1>1 DEF InFlight
<1>11. Endpoint' /\ Mirror'
  BY <1>1, <1>10, EndpointKept, MirrorKept DEF IInv
<1>12. Tokens'
  BY <1>1, <1>4, <1>5, <1>10 DEF IInv, Tokens, Asked, Pending
<1>13. Awake'
  BY <1>1 DEF IInv, Awake, CanTake, MayPump, CleanupStarted
<1> QED BY <1>6, <1>7, <1>8, <1>9, <1>11, <1>12, <1>13 DEF IInv

LEMMA OpenAdoptsStep == ASSUME IInv, OpenAdopts PROVE IInv'
<1> USE Constants, Constructed
<1>1. /\ ioctl.pc = "adopt" /\ slot \in SlotRecord /\ ioctl \in IoctlRecord
      /\ UNCHANGED <<powered, stopping, pnp, downs, cleanup, core, child, told, vhf_report,
                     host, pump, cb, opens>>
  BY DEF OpenAdopts, Device, Vhf, IInv, TypeOK
<1>2. /\ slot.state = "starting" /\ slot.at # 0 /\ lifetime = "ioctl" /\ del.pc = "no"
      /\ pnp \notin {"off", "releasing", "released"}
  BY <1>1 DEF IInv, States, Gate, Opening
<1>3. CASE /\ slot' = [slot EXCEPT !.state = "active"] /\ ioctl' = IdleIoctl /\ lifetime' = None
           /\ UNCHANGED <<ctx, del>>
  <2>1. /\ slot' \in SlotRecord /\ slot'.state = "active" /\ slot'.owner = slot.owner
        /\ slot'.at = slot.at /\ slot'.submits = slot.submits /\ slot'.pumping = slot.pumping
        /\ slot'.rundown = slot.rundown
    BY <1>1, <1>3 DEF SlotRecord
  <2>2. TypeOK'
    BY <1>1, <1>3, <2>1 DEF IInv, TypeOK, Holders
  <2>3. Gate' /\ States'
    BY <1>1, <1>2, <1>3, <2>1 DEF IInv, Gate, States, Opening
  <2>4. Callers' /\ OnePump'
    BY <1>1, <1>3, <2>1, CallersKept, OnePumpKept DEF IInv, OnePump
  <2>5. Children'
    BY <1>1, <1>2, <1>3, <2>1 DEF IInv, Children
  <2>6. Endpoint'
    BY <1>1, <1>2, <1>3, <2>1 DEF IInv, Endpoint
  <2>7. InFlight' <=> InFlight
    BY <1>1 DEF InFlight
  <2>8. Tokens'
    BY <1>1, <2>1, <2>7 DEF IInv, Tokens, Asked, Pending
  <2>9. Mirror'
    BY <1>1, <1>2, <2>1, <2>7 DEF IInv, Mirror, Pending, Last, Absent
  <2>10. Awake'
    <3>1. MayPump(0)' => MayPump(0)
      BY <1>1, <1>2, <2>1 DEF MayPump, CleanupStarted
    <3> QED BY <1>1, <2>1, <3>1, AwakeKept DEF IInv
  <2> QED BY <2>2, <2>3, <2>4, <2>5, <2>6, <2>8, <2>9, <2>10 DEF IInv
<1>4. CASE /\ StartDelete(slot, FALSE) /\ ioctl' = [ioctl EXCEPT !.pc = "delete"]
           /\ UNCHANGED lifetime
  <2>1. ioctl' \in IoctlRecord /\ ioctl'.pc = "delete" /\ ioctl'.file = ioctl.file
    BY <1>1, <1>4 DEF IoctlRecord
  <2>2. /\ slot' \in SlotRecord /\ slot'.owner = slot.owner /\ slot'.at = slot.at
        /\ slot'.state \in {"empty", "stopping"} /\ (slot'.state = "empty" => slot.state = "empty")
        /\ slot'.state = "stopping" => slot'.rundown
        /\ ctx' \in [Activations -> CtxRecord] /\ del' \in DelRecord /\ del'.pc = "wait"
        /\ Callers' /\ OnePump' /\ Children' /\ Endpoint' /\ Tokens' /\ Mirror' /\ Awake'
    BY <1>1, <1>2, <1>4, <2>1, Stops
  <2>3. TypeOK'
    BY <1>1, <1>4, <2>1, <2>2 DEF IInv, TypeOK
  <2>4. Gate' /\ States'
    BY <1>1, <1>2, <1>4, <2>1, <2>2 DEF IInv, Gate, States, Opening
  <2> QED BY <2>2, <2>3, <2>4 DEF IInv
<1> QED BY <1>3, <1>4 DEF OpenAdopts

-----------------------------------------------------------------------------
(* The client's calls.  A served call that pumps is alone at it.           *)
LEMMA ServedFacts ==
  ASSUME IInv, NEW o \in Owners, Serves(o)
  PROVE  /\ ioctl.pc = "idle" /\ lifetime = None /\ slot.owner = o /\ slot.state = "active"
         /\ slot.at # 0 /\ del.pc = "no" /\ pump["ioctl"].pc = "no"
         /\ pnp = "on"
BY Constants DEF Serves, Live, IInv, States, Gate, Callers, Opening

LEMMA CallsPumpStep ==
  ASSUME IInv, NEW o \in Owners, Serves(o), CallsPump(o),
         core' \in CoreRecord, Len(core'.queue) <= Capacity,
         UNCHANGED <<powered, stopping, pnp, downs, cleanup, lifetime, slot, ctx, child, told, vhf_report,
                     host, cb, del, opens>>
  PROVE  /\ TypeOK' /\ Gate' /\ States' /\ Callers' /\ OnePump' /\ Children' /\ Awake' /\ SlotKept
         /\ InFlight' <=> InFlight
<1> USE Constants, Constructed
<1>1. /\ ioctl.pc = "idle" /\ pump["ioctl"].pc = "no" /\ pump["ioctl"].ctx = 0 /\ slot' = slot
      /\ pump \in [Pumpers -> PumpRecord]
  BY ServedFacts DEF IInv, TypeOK, Callers
<1>2. /\ pump' = [pump EXCEPT !["ioctl"] = [pc |-> "begin", ctx |-> 0, at |-> 0]]
      /\ ioctl' = [IdleIoctl EXCEPT !.pc = "pump", !.file = o]
  BY DEF CallsPump, CallPump
<1>3. ioctl' \in IoctlRecord /\ ioctl'.pc = "pump"
  BY <1>2 DEF IdleIoctl, IoctlRecord, Holders
<1>4. /\ pump' \in [Pumpers -> PumpRecord] /\ pump'["ioctl"].pc = "begin" /\ pump'["ioctl"].ctx = 0
      /\ \A u \in Pumpers : u # "ioctl" => pump'[u] = pump[u]
  <2>1. [pc |-> "begin", ctx |-> 0, at |-> 0] \in PumpRecord
    BY DEF PumpRecord, Places
  <2> QED BY <1>1, <1>2, <2>1
<1>5. SlotKept /\ IoctlKept
  BY <1>1, <1>3 DEF SlotKept, IoctlKept
<1>6. TypeOK'
  BY <1>3, <1>4 DEF IInv, TypeOK
<1>7. Gate' /\ States' /\ Children'
  BY <1>5, GateKept, StatesKept, ChildrenKept DEF IInv
<1>8. Callers'
  <2>1. \A k \in Activations : Inside(k)' = Inside(k)
    BY DEF Inside
  <2>2. \A c \in Callbacks : pump'[c] = pump[c]
    BY <1>4
  <2> QED BY <1>1, <1>3, <1>4, <2>1, <2>2 DEF IInv, Callers
<1>9. \A u \in Pumpers : pump[u].pc \in Busy \cup Flight \/ pump'[u].pc \in Busy \cup Flight =>
                           pump'[u] = pump[u]
  BY <1>1, <1>4 DEF Busy, Flight
<1>10. OnePump'
  BY <1>1, <1>9 DEF IInv, OnePump
<1>11. InFlight' <=> InFlight
  BY <1>9 DEF InFlight, Busy, Flight
<1>12. Awake'
  BY <1>4 DEF Awake
<1> QED BY <1>5, <1>6, <1>7, <1>8, <1>10, <1>11, <1>12

(* A report that fits is the last in the queue.                            *)
LEMMA SubmittedCore ==
  ASSUME NEW c \in CoreRecord, Len(c.queue) <= Capacity, c.owner \in Owners, c.state = "active",
         NEW kind \in Kinds, NEW held \in SUBSET (Kinds \ {"pointer"}), Submitted(c, kind, held) # c
  PROVE  LET d == Submitted(c, kind, held)
             n == Len(c.queue) + 1
         IN  /\ d \in CoreRecord /\ Len(d.queue) <= Capacity
             /\ d.state = "active" /\ d.owner = c.owner /\ d.credit = c.credit
             /\ d.retained = c.retained /\ d.held = held
             /\ DOMAIN c.queue = 1 .. n - 1 /\ DOMAIN d.queue = 1 .. n /\ n \in Nat
             /\ \A i \in 1 .. n - 1 : d.queue[i] = c.queue[i]
             /\ d.queue[n].kind = kind /\ d.queue[n].owner = c.owner
             /\ d.queue[n].down <=> kind \in held
<1> USE Constants
<1>1. c.queue \in Seq(Reports) /\ Len(c.queue) \in Nat
  BY CoreFields
<1>2. Len(c.queue) # Capacity
  BY DEF Submitted
<1>3. PICK h : h = [c EXCEPT !.held = held]
  OBVIOUS
<1>4. /\ h \in CoreRecord /\ h.state = "active" /\ h.owner = c.owner /\ h.credit = c.credit
      /\ h.retained = c.retained /\ h.held = held /\ h.queue = c.queue
  BY <1>3 DEF CoreRecord
<1>5. PICK r : r = Report(h, kind)
  OBVIOUS
<1>6. r \in Reports /\ r.kind = kind /\ r.owner = c.owner /\ (r.down <=> kind \in held)
  <2>1. r = [kind |-> kind, down |-> kind \in h.held, owner |-> h.owner]
    BY <1>5 DEF Report
  <2>2. kind \in h.held <=> kind \in held
    BY <1>4
  <2>3. (kind \in h.held) \in BOOLEAN
    OBVIOUS
  <2>4. r \in [kind : Kinds, down : BOOLEAN, owner : Owners]
    BY <1>4, <2>1, <2>3
  <2>5. r.kind = kind /\ r.down = (kind \in h.held) /\ r.owner = c.owner
    BY <1>4, <2>1
  <2>6. r.down <=> kind \in held
    BY <2>2, <2>5
  <2>7. kind = "pointer" => ~r.down
    BY <2>6
  <2> QED BY <2>4, <2>5, <2>6, <2>7 DEF Reports
<1>7. Submitted(c, kind, held) = Enqueue(h, kind)
  BY <1>2, <1>3 DEF Submitted
<1>8. PICK q : q = Append(c.queue, r)
  OBVIOUS
<1>9. /\ q \in Seq(Reports) /\ Len(q) = Len(c.queue) + 1 /\ q[Len(c.queue) + 1] = r
      /\ \A i \in 1 .. Len(c.queue) : q[i] = c.queue[i]
  BY <1>1, <1>6, <1>8
<1>10. Submitted(c, kind, held) = [h EXCEPT !.queue = q]
  BY <1>4, <1>5, <1>7, <1>8 DEF Enqueue, CoreRecord
<1>11. PICK d : d = Submitted(c, kind, held)
  OBVIOUS
<1>12. /\ d \in CoreRecord /\ d.state = "active" /\ d.owner = c.owner /\ d.credit = c.credit
       /\ d.retained = c.retained /\ d.held = held /\ d.queue = q
  BY <1>4, <1>9, <1>10, <1>11 DEF CoreRecord
<1>13. Len(q) <= Capacity
  BY <1>1, <1>2, <1>9
<1>14. DOMAIN c.queue = 1 .. Len(c.queue) /\ DOMAIN q = 1 .. Len(c.queue) + 1
  BY <1>1, <1>9
<1>15. (Len(c.queue) + 1) - 1 = Len(c.queue) /\ Len(c.queue) + 1 \in Nat
  BY <1>1
<1> QED BY <1>6, <1>9, <1>11, <1>12, <1>13, <1>14, <1>15

LEMMA SubmitStep ==
  ASSUME IInv, NEW o \in Owners, NEW kind \in Kinds, NEW held \in SUBSET (Kinds \ {"pointer"}),
         \A k \in Kinds : k # kind => (k \in held <=> k \in core.held), Submit(o, kind, held)
  PROVE  IInv'
<1> USE Constants
<1>1. /\ Serves(o) /\ core.state = "active" /\ CallsPump(o)
      /\ core' = Submitted(core, kind, held) /\ core' # core
      /\ UNCHANGED <<powered, stopping, pnp, downs, cleanup, lifetime, slot, ctx, child, told, vhf_report,
                     host, cb, del, opens>>
      /\ core \in CoreRecord /\ Len(core.queue) <= Capacity
  BY DEF Submit, Device, Vhf, IInv, TypeOK
<1>2. core.owner = o /\ slot.owner = o /\ slot.state = "active"
  BY <1>1, ServedFacts DEF IInv, Endpoint
<1>3. PICK n : n = Len(core.queue) + 1
  OBVIOUS
<1>4. /\ core' \in CoreRecord /\ Len(core'.queue) <= Capacity
      /\ core'.state = "active" /\ core'.owner = core.owner /\ core'.credit = core.credit
      /\ core'.retained = core.retained /\ core'.held = held
      /\ DOMAIN core.queue = 1 .. n - 1 /\ DOMAIN core'.queue = 1 .. n /\ n \in Nat
      /\ \A i \in 1 .. n - 1 : core'.queue[i] = core.queue[i]
      /\ core'.queue[n].kind = kind /\ core'.queue[n].owner = core.owner
      /\ core'.queue[n].down <=> kind \in held
  <2>1. PICK c : c = core
    OBVIOUS
  <2>2. /\ c \in CoreRecord /\ Len(c.queue) <= Capacity /\ c.owner \in Owners /\ c.state = "active"
        /\ core' = Submitted(c, kind, held) /\ Submitted(c, kind, held) # c
    BY <1>1, <1>2, <2>1 DEF Submitted, Enqueue
  <2>3. PICK d : d = Submitted(c, kind, held)
    OBVIOUS
  <2>4. n = Len(c.queue) + 1
    BY <1>3, <2>1
  <2>5. /\ d \in CoreRecord /\ Len(d.queue) <= Capacity
        /\ d.state = "active" /\ d.owner = c.owner /\ d.credit = c.credit
        /\ d.retained = c.retained /\ d.held = held
        /\ DOMAIN c.queue = 1 .. n - 1 /\ DOMAIN d.queue = 1 .. n /\ n \in Nat
        /\ \A i \in 1 .. n - 1 : d.queue[i] = c.queue[i]
        /\ d.queue[n].kind = kind /\ d.queue[n].owner = c.owner
        /\ d.queue[n].down <=> kind \in held
    BY <2>2, <2>3, <2>4, SubmittedCore
  <2> QED BY <2>1, <2>2, <2>3, <2>5
<1>5. /\ TypeOK' /\ Gate' /\ States' /\ Callers' /\ OnePump' /\ Children' /\ Awake' /\ SlotKept
      /\ InFlight' <=> InFlight
  BY <1>1, <1>4, CallsPumpStep
<1>6. n \in DOMAIN core'.queue /\ \A i \in DOMAIN core.queue : i \in DOMAIN core'.queue /\ i < n
  BY <1>1, <1>4, CoreFields, <1>3
<1>7. Endpoint'
  <2>1. \A i \in DOMAIN core'.queue : i \in 1 .. n - 1 \/ i = n
    BY <1>4
  <2>2. \A i \in DOMAIN core.queue : core.queue[i].owner = core.owner
    BY <1>1 DEF IInv, Endpoint
  <2>3. \A i \in DOMAIN core'.queue : core'.queue[i].owner = core'.owner
    BY <1>4, <2>1, <2>2
  <2>4. core'.retained # NoReport => core'.retained.owner = core'.owner
    BY <1>1, <1>4 DEF IInv, Endpoint
  <2>5. del.pc \notin {"vhf", "deleting", "drain", "reset"}
    BY <1>1, ServedFacts
  <2> QED BY <1>1, <1>2, <1>4, <2>3, <2>4, <2>5 DEF Endpoint
<1>8. Tokens'
  BY <1>1, <1>4, <1>5, TokensKept DEF IInv
<1>9. Mirror'
  <2>1. /\ \A i \in DOMAIN core.queue :
             Last(i) => (core.queue[i].down <=> core.queue[i].kind \in core.held)
        /\ Pending /\ Absent(core.retained.kind) =>
             (core.retained.down <=> core.retained.kind \in core.held)
        /\ \A k \in Kinds : Absent(k) /\ (Pending => core.retained.kind # k) =>
             (k \in host <=> k \in core.held)
    BY <1>1, <1>2 DEF IInv, Mirror
  <2>2. Pending' <=> Pending
    BY <1>1, <1>5 DEF Pending
  <2>3. ASSUME NEW i \in DOMAIN core'.queue, Last(i)'
        PROVE  core'.queue[i].down <=> core'.queue[i].kind \in core'.held
    <3>1. CASE i = n
      BY <1>4, <3>1
    <3>2. CASE i # n
      <4>1. i \in DOMAIN core.queue /\ core'.queue[i] = core.queue[i] /\ i < n
        BY <1>4, <1>6, <3>2
      <4>2. core.queue[i].kind # kind
        BY <1>4, <1>6, <2>3, <4>1 DEF Last
      <4>3. Last(i)
        BY <1>4, <1>6, <2>3, <4>1 DEF Last
      <4>4. core.queue[i].kind \in Kinds
        BY <1>1, <4>1, CoreFields, ReportFields
      <4> QED BY <1>4, <2>1, <4>1, <4>2, <4>3, <4>4
    <3> QED BY <3>1, <3>2
  <2>4. ASSUME NEW k, Absent(k)'
        PROVE  Absent(k) /\ k # kind
    BY <1>4, <1>6, <2>4 DEF Absent
  <2>5. Pending => core.retained.kind \in Kinds
    BY <1>1, CoreFields, ReportFields DEF IInv, Tokens
  <2>6. Pending' /\ Absent(core.retained.kind)' =>
          (core'.retained.down <=> core'.retained.kind \in core'.held)
    <3>1. PICK k : k = core.retained.kind
      OBVIOUS
    <3>2. Absent(core.retained.kind)' <=> Absent(k)'
      BY <1>4, <3>1 DEF Absent
    <3> QED BY <1>4, <2>1, <2>2, <2>4, <2>5, <3>1, <3>2
  <2>7. \A k \in Kinds : Absent(k)' /\ (Pending' => core'.retained.kind # k) =>
          (k \in host' <=> k \in core'.held)
    BY <1>1, <1>4, <2>1, <2>2, <2>4
  <2> QED BY <1>4, <2>3, <2>6, <2>7 DEF Mirror
<1> QED BY <1>5, <1>7, <1>8, <1>9 DEF IInv

LEMMA SubmitUnchangedStep == ASSUME IInv, NEW o \in Owners, SubmitUnchanged(o) PROVE IInv'
<1>1. /\ Serves(o) /\ CallsPump(o)
      /\ UNCHANGED <<powered, stopping, pnp, downs, cleanup, lifetime, slot, core, ctx, child, told,
                     vhf_report, host, cb, del, opens>>
      /\ core' \in CoreRecord /\ Len(core'.queue) <= Capacity
  BY DEF SubmitUnchanged, Device, Vhf, IInv, TypeOK
<1>2. /\ TypeOK' /\ Gate' /\ States' /\ Callers' /\ OnePump' /\ Children' /\ Awake' /\ SlotKept
      /\ InFlight' <=> InFlight
  BY <1>1, CallsPumpStep
<1>3. Endpoint' /\ Tokens' /\ Mirror'
  BY <1>1, <1>2, EndpointKept, TokensKept, MirrorKept DEF IInv
<1> QED BY <1>2, <1>3 DEF IInv

LEMMA FiniteKinds == IsFiniteSet(Kinds)
<1> DEFINE F == {"keyboard", "mouse", "consumer", "pointer"}
<1>1. IsFiniteSet({"keyboard"})
  BY FS_Singleton
<1>2. IsFiniteSet({"keyboard"} \cup {"mouse"})
  BY <1>1, FS_AddElement
<1>3. IsFiniteSet(({"keyboard"} \cup {"mouse"}) \cup {"consumer"})
  BY <1>2, FS_AddElement
<1>4. IsFiniteSet((({"keyboard"} \cup {"mouse"}) \cup {"consumer"}) \cup {"pointer"})
  BY <1>3, FS_AddElement
<1>5. (({"keyboard"} \cup {"mouse"}) \cup {"consumer"}) \cup {"pointer"} = F
  OBVIOUS
<1> QED BY <1>4, <1>5, KmAssumption, FS_Subset

(* What is released when the client closes: each kind but the pointer, once. *)
LEMMA NeutralFacts ==
  /\ NeutralKinds \in Seq(Kinds \ {"pointer"}) /\ Len(NeutralKinds) <= Capacity
  /\ \A k \in Kinds \ {"pointer"} : \E i \in 1 .. Len(NeutralKinds) : NeutralKinds[i] = k
<1> DEFINE Of(kind) == IF kind \in Kinds THEN <<kind>> ELSE <<>>
           K == Kinds \ {"pointer"}
<1>1. ASSUME NEW kind \in {"keyboard", "mouse", "consumer"}
      PROVE  /\ Of(kind) \in Seq(K)
             /\ kind \in Kinds => Len(Of(kind)) = 1 /\ Of(kind)[1] = kind
             /\ kind \notin Kinds => Len(Of(kind)) = 0
  <2>1. CASE kind \in Kinds
    <3>1. Of(kind) = <<kind>> /\ kind \in K
      BY <2>1
    <3> QED BY <2>1, <3>1
  <2>2. CASE kind \notin Kinds
    <3>1. Of(kind) = <<>>
      BY <2>2
    <3> QED BY <2>2, <3>1
  <2> QED BY <2>1, <2>2
<1>2. PICK a, b, c : a = Of("keyboard") /\ b = Of("mouse") /\ c = Of("consumer")
  OBVIOUS
<1>3. NeutralKinds = (a \o b) \o c
  BY <1>2 DEF NeutralKinds
<1>4. /\ a \in Seq(K) /\ b \in Seq(K) /\ c \in Seq(K)
      /\ "keyboard" \in Kinds => Len(a) = 1 /\ a[1] = "keyboard"
      /\ "keyboard" \notin Kinds => Len(a) = 0
      /\ "mouse" \in Kinds => Len(b) = 1 /\ b[1] = "mouse"
      /\ "mouse" \notin Kinds => Len(b) = 0
      /\ "consumer" \in Kinds => Len(c) = 1 /\ c[1] = "consumer"
      /\ "consumer" \notin Kinds => Len(c) = 0
  BY <1>1, <1>2
<1> HIDE DEF Of, K
<1>5. PICK ab : ab = a \o b
  OBVIOUS
<1>6. /\ ab \in Seq(K) /\ Len(ab) = Len(a) + Len(b)
      /\ \A i \in 1 .. Len(a) : ab[i] = a[i]
      /\ \A i \in 1 .. Len(b) : ab[Len(a) + i] = b[i]
  BY <1>4, <1>5
<1>7. PICK abc : abc = ab \o c
  OBVIOUS
<1>8. /\ abc \in Seq(K) /\ Len(abc) = Len(ab) + Len(c)
      /\ \A i \in 1 .. Len(ab) : abc[i] = ab[i]
      /\ \A i \in 1 .. Len(c) : abc[Len(ab) + i] = c[i]
  <2>1. ab \in Seq(K) /\ c \in Seq(K)
    BY <1>4, <1>6
  <2> QED BY <2>1, <1>7
<1>9. NeutralKinds = abc
  BY <1>3, <1>5, <1>7
<1>10. /\ Len(a) \in Nat /\ Len(b) \in Nat /\ Len(c) \in Nat
       /\ Len(abc) = Len(a) + Len(b) + Len(c)
  BY <1>4, <1>6, <1>8
<1>11. ASSUME NEW k \in Kinds \ {"pointer"}
       PROVE  \E i \in 1 .. Len(abc) : abc[i] = k
  <2>1. k \in {"keyboard", "mouse", "consumer"}
    BY KmAssumption
  <2>2. CASE k = "keyboard"
    <3>1. Len(a) = 1 /\ a[1] = k /\ 1 \in 1 .. Len(a) /\ 1 \in 1 .. Len(ab) /\ 1 \in 1 .. Len(abc)
      BY <1>4, <1>6, <1>10, <2>2
    <3>2. abc[1] = k
      BY <1>6, <1>8, <3>1
    <3> QED BY <3>1, <3>2
  <2>3. CASE k = "mouse"
    <3>1. Len(b) = 1 /\ b[1] = k /\ 1 \in 1 .. Len(b) /\ Len(a) + 1 \in 1 .. Len(ab)
          /\ Len(a) + 1 \in 1 .. Len(abc)
      BY <1>4, <1>6, <1>10, <2>3
    <3>2. abc[Len(a) + 1] = k
      BY <1>6, <1>8, <3>1
    <3> QED BY <3>1, <3>2
  <2>4. CASE k = "consumer"
    <3>1. Len(c) = 1 /\ c[1] = k /\ 1 \in 1 .. Len(c) /\ Len(ab) + 1 \in 1 .. Len(abc)
      BY <1>4, <1>6, <1>8, <1>10, <2>4
    <3>2. abc[Len(ab) + 1] = k
      BY <1>8, <3>1
    <3> QED BY <3>1, <3>2
  <2> QED BY <2>1, <2>2, <2>3, <2>4
<1>12. Len(abc) <= Cardinality(Kinds)
  <2>1. IsFiniteSet(Kinds)
    BY FiniteKinds
  <2>2. PICK S, T, U : S = Kinds \ {"keyboard"} /\ T = S \ {"mouse"} /\ U = T \ {"consumer"}
    OBVIOUS
  <2>3. IsFiniteSet(S) /\ Cardinality(S) + Len(a) = Cardinality(Kinds) /\ Cardinality(Kinds) \in Nat
    <3>1. IsFiniteSet(S) /\ Cardinality(Kinds) \in Nat
      BY <2>1, <2>2, FS_Subset, FS_CardinalityType
    <3>2. CASE "keyboard" \in Kinds
      <4>1. Cardinality(S) = Cardinality(Kinds) - 1
        BY <2>1, <2>2, <3>2, FS_RemoveElement
      <4>2. Len(a) = 1
        BY <1>4, <3>2
      <4> QED BY <3>1, <4>1, <4>2
    <3>3. CASE "keyboard" \notin Kinds
      <4>1. S = Kinds
        BY <2>2, <3>3
      <4> QED BY <1>4, <3>1, <3>3, <4>1
    <3> QED BY <3>2, <3>3
  <2>4. IsFiniteSet(T) /\ Cardinality(T) + Len(b) = Cardinality(S) /\ Cardinality(S) \in Nat
    <3>1. IsFiniteSet(T) /\ Cardinality(S) \in Nat
      BY <2>2, <2>3, FS_Subset, FS_CardinalityType
    <3>2. CASE "mouse" \in Kinds
      <4>1. "mouse" \in S
        BY <2>2, <3>2
      <4>2. Cardinality(T) = Cardinality(S) - 1
        BY <2>2, <2>3, <4>1, FS_RemoveElement
      <4>3. Len(b) = 1
        BY <1>4, <3>2
      <4> QED BY <3>1, <4>2, <4>3
    <3>3. CASE "mouse" \notin Kinds
      <4>1. T = S
        BY <2>2, <3>3
      <4> QED BY <1>4, <3>1, <3>3, <4>1
    <3> QED BY <3>2, <3>3
  <2>5. Cardinality(U) \in Nat /\ Cardinality(U) + Len(c) = Cardinality(T) /\ Cardinality(T) \in Nat
    <3>1. Cardinality(U) \in Nat /\ Cardinality(T) \in Nat
      BY <2>2, <2>4, FS_Subset, FS_CardinalityType
    <3>2. CASE "consumer" \in Kinds
      <4>1. "consumer" \in T
        BY <2>2, <3>2
      <4>2. Cardinality(U) = Cardinality(T) - 1
        BY <2>2, <2>4, <4>1, FS_RemoveElement
      <4>3. Len(c) = 1
        BY <1>4, <3>2
      <4> QED BY <3>1, <4>2, <4>3
    <3>3. CASE "consumer" \notin Kinds
      <4>1. U = T
        BY <2>2, <3>3
      <4> QED BY <1>4, <3>1, <3>3, <4>1
    <3> QED BY <3>2, <3>3
  <2> QED BY <1>10, <2>3, <2>4, <2>5
<1>13. Len(abc) <= Capacity
  <2>1. Cardinality(Kinds) <= Capacity /\ Capacity \in Nat
    BY KmAssumption
  <2>2. Len(abc) \in Nat /\ Cardinality(Kinds) \in Nat
    <3>1. Len(abc) \in Nat
      BY <1>10
    <3> QED BY <3>1, FiniteKinds, FS_CardinalityType
  <2> QED BY <1>12, <2>1, <2>2
<1> QED BY <1>8, <1>9, <1>11, <1>13 DEF K

LEMMA ClosingCore ==
  ASSUME NEW c \in CoreRecord, c.owner \in Owners
  PROVE  LET d == Closing(c)
         IN  /\ d \in CoreRecord /\ Len(d.queue) <= Capacity
             /\ d.state = "closing" /\ d.owner = c.owner /\ d.credit = c.credit
             /\ d.retained = c.retained /\ d.held = {}
             /\ \A i \in DOMAIN d.queue : d.queue[i].owner = c.owner /\ ~d.queue[i].down
             /\ \A k \in Kinds \ {"pointer"} : \E i \in DOMAIN d.queue : d.queue[i].kind = k
<1> USE Constants
<1>1. PICK e : e = [c EXCEPT !.state = "closing", !.held = {}]
  OBVIOUS
<1>2. /\ e \in CoreRecord /\ e.state = "closing" /\ e.owner = c.owner /\ e.credit = c.credit
      /\ e.retained = c.retained /\ e.held = {}
  <2> DEFINE f == [c EXCEPT !.state = "closing"]
  <2>1. f \in CoreRecord /\ f.state = "closing" /\ f.owner = c.owner /\ f.credit = c.credit
        /\ f.retained = c.retained
    BY DEF CoreRecord
  <2>2. e = [f EXCEPT !.held = {}]
    BY <1>1
  <2> HIDE DEF f
  <2> QED BY <2>1, <2>2 DEF CoreRecord
<1>3. PICK n, N : n = Len(NeutralKinds) /\ N = NeutralKinds
  OBVIOUS
<1>4. /\ N \in Seq(Kinds \ {"pointer"}) /\ n = Len(N) /\ n <= Capacity /\ n \in Nat
      /\ \A k \in Kinds \ {"pointer"} : \E i \in 1 .. n : N[i] = k
  BY <1>3, NeutralFacts
<1>5. PICK q : q = [i \in 1 .. n |-> Report(e, N[i])]
  OBVIOUS
<1>6. ASSUME NEW i \in 1 .. n
      PROVE  /\ q[i] \in Reports /\ q[i].kind = N[i] /\ q[i].owner = c.owner /\ ~q[i].down
  <2>1. N[i] \in Kinds
    BY <1>4
  <2>2. q[i] = [kind |-> N[i], down |-> N[i] \in e.held, owner |-> c.owner]
    BY <1>2, <1>5 DEF Report
  <2>3. (N[i] \in e.held) \in BOOLEAN
    OBVIOUS
  <2>4. q[i] \in [kind : Kinds, down : BOOLEAN, owner : Owners]
    BY <2>1, <2>2, <2>3
  <2>5. q[i].kind = N[i] /\ q[i].down = (N[i] \in e.held) /\ q[i].owner = c.owner
    BY <2>2
  <2>6. ~q[i].down
    BY <1>2, <2>5
  <2> QED BY <2>4, <2>5, <2>6 DEF Reports
<1>7. q \in Seq(Reports) /\ Len(q) = n /\ DOMAIN q = 1 .. n
  BY <1>4, <1>5, <1>6
<1>8. Closing(c) = [e EXCEPT !.queue = q]
  BY <1>1, <1>3, <1>5 DEF Closing
<1>9. PICK d : d = Closing(c)
  OBVIOUS
<1>10. /\ d \in CoreRecord /\ d.state = "closing" /\ d.owner = c.owner /\ d.credit = c.credit
       /\ d.retained = c.retained /\ d.held = {} /\ d.queue = q
  BY <1>2, <1>7, <1>8, <1>9 DEF CoreRecord
<1>11. \A k \in Kinds \ {"pointer"} : \E i \in DOMAIN q : q[i].kind = k
  BY <1>4, <1>6, <1>7
<1> QED BY <1>4, <1>6, <1>7, <1>9, <1>10, <1>11

LEMMA CloseStep == ASSUME IInv, NEW o \in Owners, Close(o) PROVE IInv'
<1> USE Constants, Constructed
<1>1. /\ Serves(o) /\ core \in CoreRecord /\ Len(core.queue) <= Capacity
      /\ UNCHANGED <<powered, stopping, pnp, downs, cleanup, child, told, vhf_report, host, cb, opens>>
  BY DEF Close, Device, Vhf, IInv, TypeOK
<1>2. /\ ioctl.pc = "idle" /\ lifetime = None /\ slot.owner = o /\ slot.state = "active"
      /\ slot.at # 0 /\ del.pc = "no" /\ pump["ioctl"].pc = "no" /\ pnp = "on"
  BY <1>1, ServedFacts
<1>3. CASE core.state \in {"faulted", "drained"}
  <2>1. /\ StartDelete(slot, FALSE) /\ lifetime' = "ioctl"
        /\ ioctl' = [IdleIoctl EXCEPT !.pc = "delete", !.file = o] /\ UNCHANGED <<core, pump>>
    BY <1>3 DEF Close
  <2>2. ioctl' \in IoctlRecord /\ ioctl'.pc = "delete"
    BY <2>1 DEF IdleIoctl, IoctlRecord, Holders
  <2>3. /\ slot' \in SlotRecord /\ slot'.owner = slot.owner /\ slot'.at = slot.at
        /\ slot'.state \in {"empty", "stopping"} /\ (slot'.state = "empty" => slot.state = "empty")
        /\ slot'.state = "stopping" => slot'.rundown
        /\ ctx' \in [Activations -> CtxRecord] /\ del' \in DelRecord /\ del'.pc = "wait"
        /\ Callers' /\ OnePump' /\ Children' /\ Endpoint' /\ Tokens' /\ Mirror' /\ Awake'
    BY <1>1, <1>2, <2>1, <2>2, Stops
  <2>4. TypeOK'
    BY <1>1, <2>1, <2>2, <2>3 DEF IInv, TypeOK
  <2>5. Gate' /\ States'
    BY <1>1, <1>2, <2>1, <2>2, <2>3 DEF IInv, Gate, States, Opening
  <2> QED BY <2>3, <2>4, <2>5 DEF IInv
<1>4. CASE core.state \notin {"faulted", "drained"}
  <2>1. /\ core' = (IF core.state = "active" THEN Closing(core) ELSE core)
        /\ CallsPump(o) /\ UNCHANGED <<lifetime, slot, ctx, del>>
    BY <1>4 DEF Close
  <2>2. CASE core.state # "active"
    <3>1. core' = core
      BY <2>1, <2>2
    <3>2. /\ TypeOK' /\ Gate' /\ States' /\ Callers' /\ OnePump' /\ Children' /\ Awake' /\ SlotKept
          /\ InFlight' <=> InFlight
      BY <1>1, <2>1, <3>1, CallsPumpStep
    <3>3. Endpoint' /\ Tokens' /\ Mirror'
      BY <1>1, <2>1, <3>1, <3>2, EndpointKept, TokensKept, MirrorKept DEF IInv
    <3> QED BY <3>2, <3>3 DEF IInv
  <2>3. CASE core.state = "active"
    <3>1. core.owner = o
      BY <1>2, <2>3 DEF IInv, Endpoint
    <3>2. /\ core' \in CoreRecord /\ Len(core'.queue) <= Capacity
          /\ core'.state = "closing" /\ core'.owner = core.owner /\ core'.credit = core.credit
          /\ core'.retained = core.retained /\ core'.held = {}
          /\ \A i \in DOMAIN core'.queue : core'.queue[i].owner = core.owner /\ ~core'.queue[i].down
          /\ \A k \in Kinds \ {"pointer"} : \E i \in DOMAIN core'.queue : core'.queue[i].kind = k
      <4>1. PICK c : c = core
        OBVIOUS
      <4>2. c \in CoreRecord /\ c.owner \in Owners /\ core' = Closing(c)
        BY <1>1, <2>1, <2>3, <3>1, <4>1 DEF Closing, Report
      <4>3. PICK d : d = Closing(c)
        OBVIOUS
      <4>4. /\ d \in CoreRecord /\ Len(d.queue) <= Capacity
            /\ d.state = "closing" /\ d.owner = c.owner /\ d.credit = c.credit
            /\ d.retained = c.retained /\ d.held = {}
            /\ \A i \in DOMAIN d.queue : d.queue[i].owner = c.owner /\ ~d.queue[i].down
            /\ \A k \in Kinds \ {"pointer"} : \E i \in DOMAIN d.queue : d.queue[i].kind = k
        BY <4>2, <4>3, ClosingCore
      <4> QED BY <4>1, <4>2, <4>3, <4>4
    <3>3. /\ TypeOK' /\ Gate' /\ States' /\ Callers' /\ OnePump' /\ Children' /\ Awake' /\ SlotKept
          /\ InFlight' <=> InFlight
      BY <1>1, <2>1, <3>2, CallsPumpStep
    <3>4. Endpoint'
      <4>1. core'.retained # NoReport => core'.retained.owner = core'.owner
        BY <2>3, <3>2 DEF IInv, Endpoint
      <4> QED BY <1>2, <2>1, <3>1, <3>2, <4>1 DEF Endpoint
    <3>5. Tokens'
      BY <1>1, <3>2, <3>3, TokensKept DEF IInv
    <3>6. Mirror'
      <4>1. \A k \in Kinds : Absent(k)' => k = "pointer"
        BY <3>2 DEF Absent
      <4>2. Pending' => core'.retained \in Reports
        <5>1. Pending' => Pending
          BY <1>1, <3>3 DEF Pending
        <5>2. core.retained \in Reports \cup {NoReport}
          BY <1>1, CoreFields
        <5> QED BY <3>2, <5>1, <5>2 DEF IInv, Tokens
      <4>3. Pending' /\ Absent(core.retained.kind)' => ~core'.retained.down
        <5>1. PICK k : k = core.retained.kind
          OBVIOUS
        <5>2. Absent(core.retained.kind)' <=> Absent(k)'
          BY <3>2, <5>1 DEF Absent
        <5> QED BY <3>2, <4>1, <4>2, <5>1, <5>2, ReportFields
      <4>4. "pointer" \notin host'
        BY <1>1 DEF IInv, TypeOK
      <4> QED BY <3>2, <4>1, <4>3, <4>4 DEF Mirror
    <3> QED BY <3>3, <3>4, <3>5, <3>6 DEF IInv
  <2> QED BY <2>2, <2>3
<1> QED BY <1>3, <1>4

LEMMA AbortStep == ASSUME IInv, NEW o \in Owners, Abort(o) PROVE IInv'
<1> USE Constants, Constructed
<1>1. /\ ioctl.pc = "idle" /\ lifetime = None /\ StartDelete(slot, FALSE) /\ lifetime' = "ioctl"
      /\ ioctl' = [IdleIoctl EXCEPT !.pc = "delete", !.file = o] /\ slot.owner = o
      /\ UNCHANGED <<powered, stopping, pnp, downs, cleanup, core, child, told, vhf_report, host, pump,
                     cb, opens>>
  BY DEF Abort, Device, Vhf
<1>2. ioctl' \in IoctlRecord /\ ioctl'.pc = "delete" /\ del.pc = "no"
  <2>1. ioctl' \in IoctlRecord /\ ioctl'.pc = "delete"
    BY <1>1 DEF IdleIoctl, IoctlRecord, Holders
  <2> QED BY <1>1, <2>1 DEF IInv, Gate
<1>3. /\ slot' \in SlotRecord /\ slot'.owner = slot.owner /\ slot'.at = slot.at
      /\ slot'.state \in {"empty", "stopping"} /\ (slot'.state = "empty" => slot.state = "empty")
      /\ slot'.state = "stopping" => slot'.rundown
      /\ ctx' \in [Activations -> CtxRecord] /\ del' \in DelRecord /\ del'.pc = "wait"
      /\ Callers' /\ OnePump' /\ Children' /\ Endpoint' /\ Tokens' /\ Mirror' /\ Awake'
  BY <1>1, <1>2, Stops
<1>4. TypeOK'
  BY <1>1, <1>2, <1>3 DEF IInv, TypeOK
<1>5. Gate' /\ States'
  BY <1>1, <1>2, <1>3 DEF IInv, Gate, States, Opening
<1> QED BY <1>3, <1>4, <1>5 DEF IInv

-----------------------------------------------------------------------------
(* File cleanup, PnP and power.                                            *)
LEMMA DeviceMoves ==
  ASSUME IInv, UNCHANGED <<lifetime, slot, core, ctx, child, told, vhf_report, host, ioctl, pump, cb, del,
                           opens>>
  PROVE  Callers' /\ OnePump' /\ Children' /\ Endpoint' /\ Tokens' /\ Mirror'
<1>1. SlotKept /\ IoctlKept
  BY DEF SlotKept, IoctlKept
<1>2. InFlight' <=> InFlight
  BY DEF InFlight
<1>3. Callers'
  BY CallersKept DEF IInv
<1>4. OnePump'
  BY OnePumpKept DEF IInv, OnePump
<1> QED BY <1>1, <1>2, <1>3, <1>4, ChildrenKept, EndpointKept, TokensKept, MirrorKept DEF IInv

LEMMA CleanupMarkStep == ASSUME IInv, NEW o \in Owners, CleanupMark(o) PROVE IInv'
<1>1. /\ cleanup[o] = "no" /\ cleanup' = [cleanup EXCEPT ![o] = "started"]
      /\ UNCHANGED <<powered, stopping, pnp, downs, lifetime, slot, core, ctx, child, told, vhf_report,
                     host, ioctl, pump, cb, del, opens>>
  BY DEF CleanupMark, Device, Vhf, Threads
<1>2. /\ cleanup' \in [Owners -> {"no", "started", "done"}]
      /\ cleanup'[o] = "started" /\ \A p \in Owners : p # o => cleanup'[p] = cleanup[p]
  BY <1>1 DEF IInv, TypeOK
<1>3. TypeOK'
  BY <1>1, <1>2 DEF IInv, TypeOK
<1>4. Gate' /\ States'
  BY <1>1, <1>2 DEF IInv, Gate, States, Opening
<1>5. Awake'
  <2>1. slot.owner # None => slot.owner \in Owners
    BY SlotFields DEF IInv, TypeOK, Holders
  <2>2. MayPump(0)' => MayPump(0)
    BY <1>1, <1>2, <2>1 DEF MayPump, CleanupStarted
  <2> QED BY <1>1, <2>2, AwakeKept DEF IInv
<1> QED BY <1>1, <1>3, <1>4, <1>5, DeviceMoves DEF IInv

LEMMA CleanupStopStep == ASSUME IInv, NEW o \in Owners, CleanupStop(o) PROVE IInv'
<1> USE Constants
<1>1. /\ cleanup[o] = "started" /\ lifetime = None /\ ioctl.pc \notin Opening \cup {"delete"}
      /\ UNCHANGED <<powered, stopping, pnp, downs, core, child, told, vhf_report, host, ioctl, pump, cb,
                     opens>>
  BY DEF CleanupStop, Device, Vhf, Threads, IInv, Gate
<1>2. CASE slot.owner = o
  <2>1. StartDelete(slot, FALSE) /\ lifetime' = o /\ UNCHANGED cleanup
    BY <1>2 DEF CleanupStop
  <2>2. del.pc = "no"
    BY <1>1 DEF IInv, Gate
  <2>3. /\ slot' \in SlotRecord /\ slot'.owner = slot.owner /\ slot'.at = slot.at
        /\ slot'.state \in {"empty", "stopping"} /\ (slot'.state = "empty" => slot.state = "empty")
        /\ slot'.state = "stopping" => slot'.rundown
        /\ ctx' \in [Activations -> CtxRecord] /\ del' \in DelRecord /\ del'.pc = "wait"
        /\ Callers' /\ OnePump' /\ Children' /\ Endpoint' /\ Tokens' /\ Mirror' /\ Awake'
    BY <1>1, <2>1, <2>2, Stops DEF Opening
  <2>4. TypeOK'
    BY <1>1, <2>1, <2>3 DEF IInv, TypeOK, Holders
  <2>5. Gate' /\ States'
    BY <1>1, <2>1, <2>3 DEF IInv, Gate, States, Opening
  <2> QED BY <2>3, <2>4, <2>5 DEF IInv
<1>3. CASE slot.owner # o
  <2>1. cleanup' = [cleanup EXCEPT ![o] = "done"] /\ UNCHANGED <<slot, ctx, del, lifetime>>
    BY <1>3 DEF CleanupStop
  <2>2. /\ cleanup' \in [Owners -> {"no", "started", "done"}]
        /\ cleanup'[o] = "done" /\ \A p \in Owners : p # o => cleanup'[p] = cleanup[p]
    BY <2>1 DEF IInv, TypeOK
  <2>3. TypeOK'
    BY <1>1, <2>1, <2>2 DEF IInv, TypeOK
  <2>4. Gate' /\ States'
    BY <1>1, <1>3, <2>1, <2>2 DEF IInv, Gate, States, Opening
  <2>5. Awake'
    <3>1. slot.owner # None => slot.owner \in Owners
      BY SlotFields DEF IInv, TypeOK, Holders
    <3>2. MayPump(0)' => MayPump(0)
      BY <1>1, <2>1, <2>2, <3>1 DEF MayPump, CleanupStarted
    <3> QED BY <1>1, <2>1, <3>2, AwakeKept DEF IInv
  <2> QED BY <1>1, <2>1, <2>3, <2>4, <2>5, DeviceMoves DEF IInv
<1> QED BY <1>2, <1>3

LEMMA PowerOffStep == ASSUME IInv, PowerOff PROVE IInv'
<1>1. /\ pnp = "on" /\ downs < MaxPowerDowns /\ powered' = FALSE /\ pnp' = "leaving" /\ downs' = downs + 1
      /\ UNCHANGED <<stopping, cleanup, lifetime, slot, core, ctx, child, told, vhf_report,
                     host, ioctl, pump, cb, del, opens>>
  BY DEF PowerOff, Vhf, Threads
<1>2. TypeOK'
  <2>1. downs' \in 0 .. MaxPowerDowns
    BY <1>1, Constants DEF IInv, TypeOK
  <2> QED BY <1>1, <2>1 DEF IInv, TypeOK
<1>3. Gate' /\ States'
  BY <1>1 DEF IInv, Gate, States, Opening
<1>4. Awake'
  BY <1>1 DEF Awake, MayPump
<1> QED BY <1>1, <1>2, <1>3, <1>4, DeviceMoves DEF IInv

LEMMA ReleaseStep == ASSUME IInv, Release PROVE IInv'
<1>1. /\ pnp = "off" /\ downs < MaxPowerDowns /\ stopping' = TRUE /\ powered' = FALSE
      /\ pnp' = "releasing" /\ downs' = downs + 1
      /\ UNCHANGED <<cleanup, lifetime, slot, core, ctx, child, told, vhf_report,
                     host, ioctl, pump, cb, del, opens>>
  BY DEF Release, Vhf, Threads
<1>2. TypeOK'
  <2>1. downs' \in 0 .. MaxPowerDowns
    BY <1>1, Constants DEF IInv, TypeOK
  <2> QED BY <1>1, <2>1 DEF IInv, TypeOK
<1>3. Gate' /\ States'
  BY <1>1 DEF IInv, Gate, States, Opening
<1>4. Awake'
  BY <1>1 DEF Awake, MayPump
<1> QED BY <1>1, <1>2, <1>3, <1>4, DeviceMoves DEF IInv

LEMMA PnpStopStep == ASSUME IInv, PnpStop PROVE IInv'
<1> USE Constants
<1>1. /\ pnp \in {"leaving", "releasing"} /\ lifetime = None /\ ioctl.pc \notin Opening \cup {"delete"}
      /\ lifetime' = "pnp" /\ StartDelete(slot, pnp = "leaving")
      /\ UNCHANGED <<powered, stopping, pnp, downs, cleanup, core, child, told, vhf_report, host, ioctl,
                     pump, cb, opens>>
  BY DEF PnpStop, Device, Vhf, Threads, IInv, Gate
<1>2. del.pc = "no"
  BY <1>1 DEF IInv, Gate
<1>3. PICK r : r = (pnp = "leaving")
  OBVIOUS
<1>4. r \in BOOLEAN /\ StartDelete(slot, r)
  BY <1>1, <1>3
<1>5. /\ slot' \in SlotRecord /\ slot'.owner = slot.owner /\ slot'.at = slot.at
      /\ slot'.state \in {"empty", "stopping"} /\ (slot'.state = "empty" => slot.state = "empty")
      /\ slot'.state = "stopping" => slot'.rundown
      /\ ctx' \in [Activations -> CtxRecord] /\ del' \in DelRecord /\ del'.pc = "wait"
      /\ Callers' /\ OnePump' /\ Children' /\ Endpoint' /\ Tokens' /\ Mirror' /\ Awake'
  BY <1>1, <1>2, <1>4, Stops DEF Opening
<1>6. TypeOK'
  BY <1>1, <1>5 DEF IInv, TypeOK
<1>7. Gate' /\ States'
  BY <1>1, <1>5 DEF IInv, Gate, States, Opening
<1> QED BY <1>5, <1>6, <1>7 DEF IInv

LEMMA PrepareStep == ASSUME IInv, Prepare PROVE IInv'
<1>1. /\ pnp = "released" /\ stopping' = FALSE /\ pnp' = "off"
      /\ UNCHANGED <<powered, downs, cleanup, lifetime, slot, core, ctx, child, told, vhf_report,
                     host, ioctl, pump, cb, del, opens>>
  BY DEF Prepare, Vhf, Threads
<1>2. TypeOK'
  BY <1>1 DEF IInv, TypeOK
<1>3. Gate' /\ States'
  BY <1>1 DEF IInv, Gate, States, Opening
<1>4. Awake'
  <2>1. slot'.at = 0
    BY <1>1 DEF IInv, States
  <2> QED BY <2>1 DEF Awake, MayPump
<1> QED BY <1>1, <1>2, <1>3, <1>4, DeviceMoves DEF IInv

LEMMA PowerOnStep == ASSUME IInv, PowerOn PROVE IInv'
<1>1. /\ pnp = "off" /\ lifetime = None /\ powered' = TRUE /\ pnp' = "on"
      /\ UNCHANGED <<stopping, downs, cleanup, lifetime, slot, core, ctx, child, told, vhf_report,
                     host, ioctl, pump, cb, del, opens>>
  BY DEF PowerOn, Vhf, Threads
<1>2. TypeOK'
  BY <1>1 DEF IInv, TypeOK
<1>3. Gate' /\ States'
  BY <1>1, Constants DEF IInv, Gate, States, Opening
<1>4. Awake'
  <2>1. slot'.at = 0
    BY <1>1 DEF IInv, States
  <2> QED BY <2>1 DEF Awake, MayPump
<1> QED BY <1>1, <1>2, <1>3, <1>4, DeviceMoves DEF IInv

-----------------------------------------------------------------------------
LEMMA NextStep == ASSUME IInv, [Next]_vars PROVE IInv'
<1>1. CASE UNCHANGED vars
  <2>1. UNCHANGED <<powered, stopping, cleanup, lifetime, slot, core, ctx, child, told, vhf_report, host,
                    ioctl, pump, cb, del, pnp, opens, downs>>
    BY <1>1 DEF vars
  <2>2. TypeOK' /\ Gate' /\ States'
    BY <2>1 DEF IInv, TypeOK, Gate, States
  <2>3. MayPump(0)' => MayPump(0)
    BY <2>1 DEF MayPump, CleanupStarted
  <2>4. Awake'
    BY <2>1, <2>3, AwakeKept DEF IInv
  <2> QED BY <2>1, <2>2, <2>4, DeviceMoves DEF IInv
<1>2. CASE \E o \in Owners :
             \/ OpenLooks(o) \/ Close(o) \/ Abort(o) \/ CleanupMark(o) \/ CleanupStop(o)
             \/ SubmitUnchanged(o)
  BY <1>2, OpenLooksStep, CloseStep, AbortStep, CleanupMarkStep, CleanupStopStep, SubmitUnchangedStep
<1>3. ASSUME NEW o \in Owners, NEW k \in Kinds \ {"pointer"},
             Submit(o, k, IF k \in core.held THEN core.held \ {k} ELSE core.held \cup {k})
      PROVE  IInv'
  <2>1. PICK held : held = IF k \in core.held THEN core.held \ {k} ELSE core.held \cup {k}
    OBVIOUS
  <2>2. core.held \subseteq Kinds \ {"pointer"}
    <3>1. core \in CoreRecord
      BY DEF IInv, TypeOK
    <3> QED BY <3>1, CoreFields
  <2>3. /\ held \in SUBSET (Kinds \ {"pointer"}) /\ k \in Kinds
        /\ \A j \in Kinds : j # k => (j \in held <=> j \in core.held)
    BY <2>1, <2>2
  <2>4. Submit(o, k, held)
    BY <1>3, <2>1
  <2> QED BY <2>3, <2>4, SubmitStep
<1>4. ASSUME NEW o \in Owners, NEW k \in Kinds \cap {"mouse", "pointer"}, Submit(o, k, core.held)
      PROVE  IInv'
  <2>1. PICK held : held = core.held
    OBVIOUS
  <2>2. core.held \subseteq Kinds \ {"pointer"}
    <3>1. core \in CoreRecord
      BY DEF IInv, TypeOK
    <3> QED BY <3>1, CoreFields
  <2>3. /\ held \in SUBSET (Kinds \ {"pointer"}) /\ k \in Kinds
        /\ \A j \in Kinds : j # k => (j \in held <=> j \in core.held)
    BY <2>1, <2>2
  <2>4. Submit(o, k, held)
    BY <1>4, <2>1
  <2> QED BY <2>3, <2>4, SubmitStep
<1>5. CASE Open
  BY <1>5, OpenClaimsStep, OpenCreatesStep, OpenPublishesStep, OpenStartsStep, OpenAdoptsStep DEF Open
<1>6. CASE Delete
  BY <1>6, DeleteWaitsStep, DeleteTakesStep, NativeDeleteStep, DeleteDrainsStep, DeleteResetsStep
     DEF Delete
<1>7. CASE \E t \in Pumpers : Pump(t)
  BY <1>7, PumpBeginStep, PumpTakeStep, NativeSubmitStep, PumpReleasesStep DEF Pump
<1>8. CASE \E c \in Callbacks : Ready1(c) \/ \E k \in Activations : ReadyBegins(c, k)
  BY <1>8, ReadyAdmitsStep, ReadyLeavesStep, ReadyBeginsStep DEF Ready1
<1>9. CASE HostReads
  BY <1>9, HostReadsStep
<1>10. CASE PowerOff \/ Release \/ PnpStop \/ Prepare \/ PowerOn
  BY <1>10, PowerOffStep, ReleaseStep, PnpStopStep, PrepareStep, PowerOnStep
<1> QED BY <1>1, <1>2, <1>3, <1>4, <1>5, <1>6, <1>7, <1>8, <1>9, <1>10 DEF Next

LEMMA InvAlways == Spec => []IInv
<1>1. IInv /\ [Next]_vars => IInv'
  BY NextStep
<1> QED BY InitInv, <1>1, PTL DEF Spec

(* Every variable keeps its type: the queue of the endpoint, which holds   *)
(* the neutral reports of a close as well, never exceeds its capacity, and *)
(* the slot's count of submissions never leaves 0 and 1.                   *)
THEOREM EndpointTypeCorrect == Spec => []TypeOK
<1>1. IInv => TypeOK
  BY DEF IInv
<1> QED BY InvAlways, <1>1, PTL

(* Nothing is outlived by what uses it: delete_stopped_keyboard_mouse      *)
(* never deletes a child under VhfReadReportSubmit nor frees a callback    *)
(* context with a callback inside, and D0 exit, release and file cleanup   *)
(* return with nothing of theirs left, whatever an open that began before  *)
(* does after.                                                             *)
THEOREM EndpointLifetimesNest == Spec => []LifetimesNest
<1>1. ASSUME IInv
      PROVE  LifetimesNest
  <2>1. ASSUME NEW t \in DOMAIN pump, pump[t].pc \in {"submit", "taken", "failed"}
        PROVE  child[pump[t].at] \in {"created", "started"}
    <3>1. t \in Pumpers /\ pump[t].pc \in Busy /\ pump[t].pc \in Flight
      BY <1>1, <2>1 DEF IInv, TypeOK, Busy, Flight
    <3>2. pump[t].at = slot.at
      BY <1>1, <3>1 DEF IInv, OnePump
    <3> QED BY <1>1, <3>1, <3>2, BusyFacts
  <2>2. ASSUME NEW c \in DOMAIN cb, cb[c].pc # "idle"
        PROVE  ~ctx[cb[c].at].freed
    <3>1. c \in Callbacks
      BY <1>1 DEF IInv, TypeOK
    <3>2. cb[c].at = slot.at /\ slot.at \in Activations
      BY <1>1, <2>2, <3>1, SlotFields, Constants DEF IInv, TypeOK, Callers
    <3> QED BY <1>1, <3>2 DEF IInv, Children
  <2>3. ASSUME pnp \in {"off", "released"}, NEW k \in DOMAIN child
        PROVE  child[k] \in {"none", "deleted"}
    <3>1. k \in Activations /\ k # 0
      BY <1>1, Constants DEF IInv, TypeOK
    <3>2. slot.at = 0 /\ ioctl.pc # "publish"
      BY <1>1, <2>3 DEF IInv, States, Opening
    <3> QED BY <1>1, <3>1, <3>2 DEF IInv, Children
  <2>4. ASSUME NEW o \in DOMAIN cleanup, cleanup[o] = "done"
        PROVE  slot.owner # o /\ core.owner # o
    <3>1. o \in Owners /\ o # None
      BY <1>1, Constants DEF IInv, TypeOK
    <3>2. slot.owner # o
      BY <1>1, <2>4, <3>1 DEF IInv, States
    <3> QED BY <1>1, <3>1, <3>2, Constructed DEF IInv, Endpoint
  <2> QED BY <2>1, <2>2, <2>3, <2>4 DEF LifetimesNest
<1> QED BY InvAlways, <1>1, PTL

(* The host sees what the client holds: one report is out at a time, the   *)
(* retained one is what VHF has a pointer to, with nothing on its way the  *)
(* host's view is the client's, and an endpoint that says it was drained   *)
(* left nothing pressed.                                                   *)
THEOREM HostSeesHeld == Spec => []HostMatches
<1>1. ASSUME IInv
      PROVE  HostMatches
  <2>1. DOMAIN pump = Pumpers /\ core \in CoreRecord
    BY <1>1 DEF IInv, TypeOK
  <2>2. Cardinality({t \in DOMAIN pump : pump[t].pc \in {"submit", "taken", "failed"}}) <= 1
    <3>1. PICK S : S = {t \in DOMAIN pump : pump[t].pc \in {"submit", "taken", "failed"}}
      OBVIOUS
    <3>2. CASE S = {}
      <4>1. Cardinality(S) = 0
        BY <3>2, FS_EmptySet
      <4> QED BY <3>1, <4>1
    <3>3. CASE S # {}
      <4>1. PICK t : t \in S
        BY <3>3
      <4>2. S = {t}
        BY <1>1, <2>1, <3>1, <4>1 DEF IInv, OnePump, Busy
      <4>3. Cardinality(S) = 1
        BY <4>2, FS_Singleton
      <4> QED BY <3>1, <4>3
    <3> QED BY <3>2, <3>3
  <2>3. ASSUME vhf_report # NoReport
        PROVE  core.retained = vhf_report /\ vhf_report.owner = slot.owner
    <3>1. core.retained = vhf_report
      BY <1>1, <2>3 DEF IInv, Tokens
    <3>2. core.state # "closed"
      BY <1>1, <2>3, <3>1, Constructed DEF IInv, Endpoint
    <3> QED BY <1>1, <2>3, <3>1, <3>2 DEF IInv, Endpoint
  <2>4. ASSUME slot.state = "active", core.state = "active", core.queue = <<>>, vhf_report = NoReport,
               \A t \in DOMAIN pump : pump[t].pc \notin {"submit", "failed"}
        PROVE  host = core.held
    <3>1. ~Pending
      BY <2>1, <2>4 DEF Pending, InFlight
    <3>2. \A k \in Kinds : Absent(k)
      BY <2>4 DEF Absent
    <3>3. \A k \in Kinds : k \in host <=> k \in core.held
      BY <1>1, <2>4, <3>1, <3>2 DEF IInv, Mirror
    <3>4. host \subseteq Kinds /\ core.held \subseteq Kinds
      BY <1>1, <2>1, CoreFields DEF IInv, TypeOK
    <3> QED BY <3>3, <3>4
  <2>5. core.state = "drained" => host = {}
    BY <1>1 DEF IInv, Mirror
  <2> QED BY <2>2, <2>3, <2>4, <2>5 DEF HostMatches
<1> QED BY InvAlways, <1>1, PTL

(* No wakeup of pump_keyboard_mouse is lost: while a report may go, a      *)
(* thread pumps or is about to look, although a caller that finds the pump *)
(* taken leaves at once.                                                   *)
THEOREM PumpAwake == Spec => []NoLostWakeup
<1>1. IInv => NoLostWakeup
  <2>1. IInv => DOMAIN pump = Pumpers
    BY DEF IInv, TypeOK
  <2> QED BY <2>1 DEF IInv, Awake, NoLostWakeup
<1> QED BY InvAlways, <1>1, PTL
=============================================================================
