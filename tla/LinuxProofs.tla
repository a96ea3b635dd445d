------------------------------ MODULE LinuxProofs ------------------------------
(***************************************************************************)
(* Proofs about the Linux modules.  Of Ds5Gadget: a pad never falls mute   *)
(* or deaf, and is quiet when destroyed, whatever the files, the audio     *)
(* streams, the reports and the numbers of sessions and resets.  Of        *)
(* Ds5Module: the driver loads whole or not at all, whatever the numbers   *)
(* of units and slots.  Of UdcIso: packets go in turn, for every number of *)
(* urbs, packets and requests and every interval of the endpoint.  Of      *)
(* UdcPort: the host knows its port, whatever its bounds, with or without  *)
(* requests, a hub that powers ports off, an impatient host.               *)
(***************************************************************************)
EXTENDS Ds5Gadget, Ds5Module, UdcIso, UdcPort, FiniteSetTheorems, TLAPS

HidOps == {"begin", "off", "dequeue_in", "dequeue", "disable", "notbusy"}
IsoOps == {"begin", "dequeue", "disable", "off"}

(* What a thread can be at.  Only the timer enables, or disables a stream  *)
(* alone.                                                                  *)
Task == [f : Funcs \cup {None, "all"}, op : EnableOps \cup HidOps \cup {None, "unset"}, all : BOOLEAN]
ValidTask(t) ==
  \/ t.f = None /\ t.op = None /\ ~t.all
  \/ t.f \in Funcs /\ t.op \in EnableOps /\ ~t.all
  \/ t.f = "hid" /\ t.op \in HidOps /\ t.all
  \/ t.f \in Audio /\ t.op \in IsoOps
  \/ t.f = "all" /\ t.op = "unset" /\ t.all

Types ==
  /\ created \in BOOLEAN /\ private \in [Files -> BOOLEAN] /\ connected \in BOOLEAN /\ enabled \in BOOLEAN
  /\ ctl \in [Files -> {"idle", "wait", "destroy", "forget"}]
  /\ wr \in [Files -> {"idle", "checked", "test", "copy", "queue"}]
  /\ config \in BOOLEAN /\ alt \in [Audio -> BOOLEAN]
  /\ on \in [Funcs -> BOOLEAN] /\ ep_on \in [Funcs -> BOOLEAN]
  /\ place \in [Reqs -> {"idle", "queued", "giving"}]
  /\ int_in_busy \in BOOLEAN /\ giving \in Reqs \cup {None}
  /\ todo \in [Doers -> Task] /\ \A d \in Doers : ValidTask(todo[d])

Writing(f) == wr[f] \in {"test", "copy", "queue"}
Downing(f) == ctl[f] \in {"wait", "destroy"}
Owns(f) == private[f] /\ ctl[f] # "forget"

(* The slot's mutex, and the one file a created slot belongs to.           *)
SlotInv ==
  /\ \A f \in Files : Downing(f) => mutex = f /\ ~connected /\ created
  /\ \A f \in Files : Writing(f) => mutex = "writer"
  /\ \A f, g \in Files : Writing(f) /\ Writing(g) => f = g
  /\ \A f \in Files : ctl[f] # "idle" => private[f]
  /\ \A f \in Files : Owns(f) => created
  /\ \A f, g \in Files : Owns(f) /\ Owns(g) => f = g
  /\ created => \E f \in Files : Owns(f)
  /\ connected => created
  /\ enabled => connected

(* One thread at a time is in a callback of the driver's.                  *)
AllIdle == \A d \in Doers : Idle(d)
Clean(f) == ~on[f] /\ ~ep_on[f]
AllClean == \A f \in Funcs : Clean(f)

DoerInv ==
  /\ \A d, e \in Doers : ~Idle(d) /\ ~Idle(e) => d = e
  /\ \A d \in {"link", "core"} : ~Idle(d) => todo[d].all
  /\ ~Idle("timer") => giving = None
  /\ ~Idle("core") => \E f \in Files : ctl[f] = "destroy"
  /\ \A f \in Files : ctl[f] = "destroy" => Idle("timer") /\ Idle("link") /\ (Idle("core") => AllClean)
  /\ ~created => AllIdle /\ AllClean
  /\ connected /\ ~enabled /\ Idle("link") => Idle("timer") /\ AllClean

(* How far a thread is with a function f, and the functions it has passed. *)
Passed(f) == CASE f = "all" -> Funcs [] f = "hid" -> Audio [] f = "iso_in" -> {"iso_out"} \cap Audio
               [] OTHER -> {}
Mid(f) == \E d \in Doers : todo[d].f = f /\ todo[d].op \notin {"begin", "enable"}

StepInv(t) ==
  /\ t.op \in {"queue", "on"} => ~on[t.f] /\ ep_on[t.f]
  /\ t.op = "queue" => place[t.f] # "queued"
  /\ t.op = "on" /\ enabled => place[t.f] # "idle"
  /\ t.f = "hid" /\ t.op \in HidOps \ {"begin", "off"} => ~on["hid"]
  /\ (t.f = "hid" /\ t.op = "notbusy") \/ (t.f \in Audio /\ t.op = "off") => ~ep_on[t.f]
  /\ t.all => \A g \in Passed(t.f) : Clean(g)

FuncInv(f) ==
  ~Mid(f) => IF on[f] THEN ep_on[f] /\ (enabled => place[f] # "idle") ELSE ~ep_on[f]

UsbInv == (\A d \in Doers : StepInv(todo[d])) /\ (\A f \in Funcs : FuncInv(f))

(* What is on was selected, or is about to be turned off.                  *)
Selected(f) == IF f = "hid" THEN config ELSE alt[f]
Disabled(f, t) == t.all \/ (t.f = f /\ t.op \notin EnableOps)
SelectInv ==
  /\ \A f \in Funcs : on[f] => Selected(f) \/ \E d \in Doers : Disabled(f, todo[d])
  /\ todo["timer"].op \in EnableOps => Selected(todo["timer"].f)

(* The requests, and the report in the fifo.                               *)
RequestInv ==
  /\ \A r \in Reqs : place[r] = "giving" <=> giving = r
  /\ \A f \in Funcs : place[f] = "queued" => ep_on[f]
  /\ ~ep_on["hid"] => fifo = None /\ place["in"] # "queued"
  /\ int_in_busy => place["in"] # "idle" \/ \E f \in Files : wr[f] = "queue"

IInv == Types /\ SlotInv /\ DoerInv /\ UsbInv /\ SelectInv /\ RequestInv

-----------------------------------------------------------------------------
(* The steps of a callback: a thread goes on with the function it is at,   *)
(* or is done with it.                                                     *)
Follows(t, u) ==
  /\ u.f = t.f /\ u.all = t.all
  /\ \/ <<t.op, u.op>> \in {<<"enable", "queue">>, <<"queue", "on">>}
     \/ /\ t.f = "hid"
        /\ <<t.op, u.op>> \in {<<"begin", "off">>, <<"off", "dequeue_in">>, <<"dequeue_in", "dequeue">>,
                               <<"dequeue", "disable">>, <<"disable", "notbusy">>}
     \/ /\ t.f \in Audio
        /\ <<t.op, u.op>> \in {<<"begin", "dequeue">>, <<"dequeue", "disable">>, <<"disable", "off">>}

Last(t) == t.op \in {"on", "notbusy", "unset"} \/ (t.f \in Audio /\ t.op = "off")

LEMMA AudioFacts == Audio \subseteq {"iso_out", "iso_in"} /\ "hid" \notin Audio /\ "all" \notin Funcs
                    /\ None \notin Funcs /\ "in" \notin Funcs /\ Funcs \subseteq Reqs
BY GadgetAssumption DEF Funcs, None, Reqs

LEMMA EndedFacts ==
  ASSUME NEW t \in Task, ValidTask(t), t.op # None, NEW u, u = Ended(t)
  PROVE  /\ u \in Task /\ ValidTask(u) /\ u.op \notin EnableOps
         /\ u.op \in {None, "begin", "unset"} /\ (u.f \in Funcs => u.op = "begin")
         /\ u.op = None <=> ~t.all \/ t.f = "all"
         /\ u.all <=> u.op # None
         /\ u.all => t.all /\ Passed(u.f) \subseteq Passed(t.f) \cup {t.f}
<1>1. CASE ~t.all \/ t.f = "all"
  BY <1>1, AudioFacts DEF Ended, Resting, Task, ValidTask, EnableOps, None
<1>2. CASE t.all /\ t.f = "hid"
  <2>1. u.f = "all" /\ u.op = "unset" /\ u.all
    BY <1>2 DEF Ended, Task
  <2>2. u \in Task
    BY <1>2, <2>1 DEF Ended, Task
  <2>3. Passed(u.f) = Funcs /\ Passed(t.f) = Audio
    BY <1>2, <2>1 DEF Passed
  <2> QED BY <1>2, <2>1, <2>2, <2>3, AudioFacts DEF ValidTask, Funcs, EnableOps, None
<1>3. CASE t.all /\ t.f \in Audio
  <2> DEFINE g == IF t.f = "iso_out" /\ "iso_in" \in Audio THEN "iso_in" ELSE "hid"
  <2>1. u = [t EXCEPT !.f = g, !.op = "begin"]
    BY <1>3, AudioFacts DEF Ended, Funcs
  <2>2. g \in Funcs /\ g \in {"hid", "iso_in"} /\ (g = "hid" \/ g \in Audio)
    BY DEF Funcs
  <2>3. Passed(g) \subseteq Passed(t.f) \cup {t.f}
    BY <1>3, AudioFacts DEF Passed, Funcs
  <2> HIDE DEF g
  <2>4. u.f = g /\ u.op = "begin" /\ u.all /\ u \in Task
    BY <1>3, <2>1, <2>2 DEF Task, HidOps
  <2> QED BY <1>3, <2>2, <2>3, <2>4, AudioFacts DEF ValidTask, HidOps, IsoOps, EnableOps, None
<1> QED BY <1>1, <1>2, <1>3 DEF ValidTask, Funcs, None, EnableOps

LEMMA MoveFacts ==
  ASSUME NEW t \in Task, ValidTask(t), t.op # None, NEW u, u = Advanced(t)
  PROVE  \/ u \in Task /\ ValidTask(u) /\ Follows(t, u)
         \/ u = Ended(t) /\ Last(t)
<1>1. CASE t.op \in EnableOps
  <2>1. t.f \in Funcs /\ ~t.all
    BY <1>1 DEF ValidTask, EnableOps, HidOps, IsoOps, None
  <2>2. CASE t.op = "on"
    BY <1>1, <2>2 DEF Advanced, After, AfterEnable, Last, None
  <2>3. CASE t.op # "on"
    <3> DEFINE op == AfterEnable[t.op]
    <3>1. /\ op \in EnableOps /\ op # None
          /\ <<t.op, op>> \in {<<"enable", "queue">>, <<"queue", "on">>}
      BY <1>1, <2>3 DEF AfterEnable, EnableOps, None
    <3>2. u = [t EXCEPT !.op = op]
      BY <1>1, <2>1, <3>1, AudioFacts DEF Advanced, After
    <3> HIDE DEF op
    <3>3. u.f = t.f /\ u.all = t.all /\ u.op = op /\ u \in Task
      BY <3>1, <3>2 DEF Task
    <3> QED BY <2>1, <3>1, <3>3 DEF ValidTask, Follows
  <2> QED BY <2>2, <2>3
<1>2. CASE t.op = "unset"
  BY <1>2 DEF Advanced, Last, ValidTask, EnableOps, HidOps, IsoOps, None
<1>3. CASE t.f = "hid" /\ t.op \notin EnableOps \cup {"unset"}
  <2>1. t.op \in HidOps /\ t.all
    BY <1>3, AudioFacts DEF ValidTask, None
  <2>2. CASE t.op = "notbusy"
    BY <1>3, <2>2 DEF Advanced, After, AfterHid, Last, None
  <2>3. CASE t.op # "notbusy"
    <3> DEFINE op == AfterHid[t.op]
    <3>1. /\ op \in HidOps /\ op # None
          /\ <<t.op, op>> \in {<<"begin", "off">>, <<"off", "dequeue_in">>, <<"dequeue_in", "dequeue">>,
                               <<"dequeue", "disable">>, <<"disable", "notbusy">>}
      BY <2>1, <2>3 DEF AfterHid, HidOps, None
    <3>2. u = [t EXCEPT !.op = op]
      BY <1>3, <3>1 DEF Advanced, After
    <3> HIDE DEF op
    <3>3. u.f = t.f /\ u.all = t.all /\ u.op = op /\ u \in Task
      BY <3>1, <3>2 DEF Task
    <3> QED BY <1>3, <2>1, <3>1, <3>3 DEF ValidTask, Follows
  <2> QED BY <2>2, <2>3
<1>4. CASE t.f # "hid" /\ t.op \notin EnableOps \cup {"unset"}
  <2>1. t.f \in Audio /\ t.op \in IsoOps
    BY <1>4 DEF ValidTask, None
  <2>2. CASE t.op = "off"
    BY <1>4, <2>1, <2>2 DEF Advanced, After, AfterIso, Last, None
  <2>3. CASE t.op # "off"
    <3> DEFINE op == AfterIso[t.op]
    <3>1. /\ op \in IsoOps /\ op # None /\ op \in HidOps
          /\ <<t.op, op>> \in {<<"begin", "dequeue">>, <<"dequeue", "disable">>, <<"disable", "off">>}
      BY <2>1, <2>3 DEF AfterIso, IsoOps, HidOps, None
    <3>2. u = [t EXCEPT !.op = op]
      BY <1>4, <2>1, <3>1, AudioFacts DEF Advanced, After, Funcs
    <3> HIDE DEF op
    <3>3. u.f = t.f /\ u.all = t.all /\ u.op = op /\ u \in Task
      BY <3>1, <3>2 DEF Task
    <3> QED BY <2>1, <3>1, <3>3 DEF ValidTask, Follows
  <2> QED BY <2>2, <2>3
<1> QED BY <1>1, <1>2, <1>3, <1>4

-----------------------------------------------------------------------------
(* While one thread is in a callback the others are in none.               *)
LEMMA OneDoer ==
  ASSUME Types, DoerInv, NEW d \in Doers, ~Idle(d)
  PROVE  /\ todo[d] \in Task /\ ValidTask(todo[d]) /\ todo[d].op # None
         /\ \A e \in Doers \ {d} : todo[e].op = None /\ todo[e].f = None /\ ~todo[e].all
         /\ \A g \in Funcs : Mid(g) <=> todo[d].f = g /\ todo[d].op \notin {"begin", "enable"}
<1>1. /\ todo[d] \in Task /\ ValidTask(todo[d]) /\ todo[d].op # None
      /\ \A e \in Doers \ {d} : todo[e].op = None /\ ValidTask(todo[e])
  BY DEF Types, DoerInv, Idle
<1>2. \A e \in Doers \ {d} : todo[e].f = None /\ ~todo[e].all
  BY <1>1 DEF ValidTask, None, EnableOps, HidOps, IsoOps
<1> QED BY <1>1, <1>2, AudioFacts DEF Mid, None

LEMMA NoDoer ==
  ASSUME Types, AllIdle
  PROVE  /\ \A e \in Doers : todo[e].op = None /\ todo[e].f = None /\ ~todo[e].all
         /\ \A g \in Funcs : ~Mid(g)
<1>1. \A e \in Doers : todo[e].op = None /\ todo[e].f = None /\ ~todo[e].all
  BY DEF Types, AllIdle, Idle, ValidTask, None, EnableOps, HidOps, IsoOps
<1> QED BY <1>1, AudioFacts DEF Mid

(* A step of a callback keeps the order of callbacks.                      *)
LEMMA TaskDoer ==
  ASSUME IInv, NEW d \in Doers, ~Idle(d), NEW u \in Task, todo' = [todo EXCEPT ![d] = u],
         UNCHANGED <<created, ctl, connected, enabled, giving>>,
         u.op # None => (u.all <=> todo[d].all),
         u.op = None => ~todo[d].all \/ AllClean'
  PROVE  DoerInv'
<1>1. DoerInv /\ SlotInv /\ Types /\ todo \in [Doers -> Task]
  BY DEF IInv, Types
<1>2. todo'[d] = u /\ \A e \in Doers \ {d} : todo'[e] = todo[e] /\ Idle(e) /\ Idle(e)'
  BY <1>1, OneDoer DEF Idle
<1>3. \A e \in Doers : ~Idle(e)' => e = d /\ u.op # None
  BY <1>2 DEF Idle
<1>4. created
  BY <1>1 DEF DoerInv, AllIdle
<1>5. d \in {"link", "core"} => todo[d].all
  BY <1>1 DEF DoerInv
<1>6. ASSUME NEW f \in Files, ctl[f] = "destroy"
      PROVE  Idle("timer")' /\ Idle("link")' /\ (Idle("core")' => AllClean')
  <2>1. d = "core"
    BY <1>1, <1>6 DEF DoerInv, Doers
  <2> QED BY <1>2, <1>5, <2>1 DEF Doers, Idle
<1>7. ASSUME connected, ~enabled, Idle("link")' PROVE Idle("timer")' /\ AllClean'
  <2>1. d # "core"
    BY <1>1, <1>7 DEF DoerInv, SlotInv, Downing
  <2>2. d # "timer"
    BY <1>1, <1>2, <1>7 DEF DoerInv, Doers
  <2>3. d = "link"
    BY <2>1, <2>2 DEF Doers
  <2> QED BY <1>2, <1>5, <1>7, <2>3 DEF Doers, Idle
<1>8. ~Idle("core")' => \E f \in Files : ctl'[f] = "destroy"
  BY <1>1, <1>3 DEF DoerInv, Doers
<1>9. ~Idle("timer")' => giving' = None
  BY <1>1, <1>3 DEF DoerInv, Doers
<1>10. \A e \in {"link", "core"} : ~Idle(e)' => todo'[e].all
  BY <1>2, <1>3, <1>5 DEF Doers
<1> QED BY <1>3, <1>4, <1>6, <1>7, <1>8, <1>9, <1>10 DEF DoerInv

(* ... and touches the function it is at.                                  *)
LEMMA TaskUsb ==
  ASSUME IInv, NEW d \in Doers, ~Idle(d), NEW u \in Task, todo' = [todo EXCEPT ![d] = u],
         NEW f, f = todo[d].f,
         enabled' = enabled, StepInv(u)', u.f \in Funcs => u.f = f \/ u.op = "begin",
         \A g \in Funcs \ {f} : on'[g] = on[g] /\ ep_on'[g] = ep_on[g] /\ place'[g] = place[g],
         f \in Funcs => FuncInv(f)'
  PROVE  UsbInv'
<1>1. UsbInv /\ Types /\ DoerInv /\ todo \in [Doers -> Task]
  BY DEF IInv, Types
<1>2. /\ todo'[d] = u
      /\ \A e \in Doers \ {d} : todo'[e].op = None /\ todo'[e].f = None /\ ~todo'[e].all
  BY <1>1, OneDoer
<1>3. \A e \in Doers : StepInv(todo[e])'
  <2> SUFFICES ASSUME NEW e \in Doers \ {d} PROVE StepInv(todo[e])'
    BY <1>2
  <2> QED BY <1>2, AudioFacts DEF StepInv, None, Funcs
<1>4. ASSUME NEW g \in Funcs, g # f PROVE FuncInv(g)'
  <2>1. ~Mid(g)
    BY <1>1, <1>4, OneDoer
  <2>2. IF on[g] THEN ep_on[g] /\ (enabled => place[g] # "idle") ELSE ~ep_on[g]
    BY <1>1, <2>1 DEF UsbInv, FuncInv
  <2> QED BY <1>4, <2>2 DEF FuncInv
<1>5. ASSUME NEW g \in Funcs PROVE FuncInv(g)'
  BY <1>4
<1> QED BY <1>3, <1>5 DEF UsbInv, StepInv, FuncInv

(* ... and has a function selected, or turned off in the end.              *)
LEMMA TaskSelect ==
  ASSUME IInv, NEW d \in Doers, ~Idle(d), NEW u \in Task, todo' = [todo EXCEPT ![d] = u],
         \A g \in Funcs : on'[g] => \/ Selected(g)' \/ Disabled(g, u)
                                    \/ on[g] /\ (Selected(g) => Selected(g)') /\ ~Disabled(g, todo[d]),
         d = "timer" /\ u.op \in EnableOps => Selected(u.f)'
  PROVE  SelectInv'
<1>1. SelectInv /\ Types /\ DoerInv /\ todo \in [Doers -> Task]
  BY DEF IInv, Types
<1>2. /\ todo'[d] = u
      /\ \A e \in Doers \ {d} : todo'[e] = todo[e] /\ todo[e].op = None /\ todo[e].f = None /\ ~todo[e].all
  BY <1>1, OneDoer
<1>3. \A e \in Doers \ {d}, g \in Funcs : ~Disabled(g, todo[e])
  BY <1>2, AudioFacts DEF Disabled
<1>4. ASSUME NEW g \in Funcs, on'[g] PROVE Selected(g)' \/ \E e \in Doers : Disabled(g, todo'[e])
  <2>1. CASE Selected(g)' \/ Disabled(g, u)
    BY <1>2, <2>1
  <2>2. CASE on[g] /\ (Selected(g) => Selected(g)') /\ ~Disabled(g, todo[d])
    <3>1. Selected(g)
      BY <1>1, <1>3, <2>2 DEF SelectInv
    <3> QED BY <2>2, <3>1
  <2> QED BY <1>4, <2>1, <2>2
<1>5. todo'["timer"].op \in EnableOps => Selected(todo["timer"].f)'
  <2>1. CASE d = "timer"
    BY <1>2, <2>1
  <2>2. CASE d # "timer"
    BY <1>2, <2>2 DEF Doers, EnableOps, None
  <2> QED BY <2>1, <2>2
<1> QED BY <1>4, <1>5 DEF SelectInv, Disabled

-----------------------------------------------------------------------------
(* Enabling, step by step.                                                 *)
UsbSame == UNCHANGED <<FileVars, wr, enabled, giving>>

LEMMA RestingFacts == Resting \in Task /\ ValidTask(Resting) /\ Resting.op = None /\ Resting.f = None /\ ~Resting.all
BY DEF Resting, Task, ValidTask

LEMMA TodoTypes ==
  ASSUME Types, NEW d \in Doers, NEW u \in Task, ValidTask(u), todo' = [todo EXCEPT ![d] = u], UsbSame,
         config' \in BOOLEAN, alt' \in [Audio -> BOOLEAN], on' \in [Funcs -> BOOLEAN],
         ep_on' \in [Funcs -> BOOLEAN], place' \in [Reqs -> {"idle", "queued", "giving"}],
         int_in_busy' \in BOOLEAN
  PROVE  Types'
<1>1. todo' \in [Doers -> Task] /\ \A e \in Doers : ValidTask(todo'[e])
  BY DEF Types
<1> QED BY <1>1 DEF Types, UsbSame, FileVars

LEMMA EnableEndpointStep ==
  ASSUME IInv, NEW f, f = todo["timer"].f, todo["timer"].op = "enable", EnableEndpoint(f),
         alt' = alt, UsbSame
  PROVE  IInv'
<1> DEFINE t == todo["timer"]
<1>1. /\ Types /\ DoerInv /\ UsbInv /\ SelectInv /\ RequestInv /\ SlotInv
      /\ on \in [Funcs -> BOOLEAN] /\ ep_on \in [Funcs -> BOOLEAN]
      /\ place \in [Reqs -> {"idle", "queued", "giving"}] /\ config \in BOOLEAN
      /\ alt \in [Audio -> BOOLEAN] /\ int_in_busy \in BOOLEAN
  BY DEF IInv, Types
<1>2. "timer" \in Doers /\ ~Idle("timer")
  BY DEF Doers, Idle, None
<1>3. t \in Task /\ ValidTask(t) /\ f \in Funcs /\ ~t.all /\ t.op \in EnableOps
  BY <1>1, <1>2 DEF Types, ValidTask, HidOps, IsoOps, EnableOps, None
<1>4. IF on[f] THEN ep_on[f] /\ (enabled => place[f] # "idle") ELSE ~ep_on[f]
  <2>1. ~Mid(f)
    BY <1>1, <1>2, <1>3, OneDoer
  <2> QED BY <1>1, <1>3, <2>1 DEF UsbInv, FuncInv
<1>5. on' = on /\ place' = place /\ fifo' = fifo /\ int_in_busy' = int_in_busy
  BY DEF EnableEndpoint
<1>6. CASE on[f] \/ ~enabled
  <2>1. /\ todo' = [todo EXCEPT !["timer"] = Resting] /\ ep_on' = ep_on
        /\ config' = (config /\ (f # "hid" \/ on[f]))
    BY <1>6 DEF EnableEndpoint
  <2>2. Types'
    BY <1>1, <1>2, <1>5, <2>1, RestingFacts, TodoTypes
  <2>3. DoerInv'
    BY <1>2, <1>3, <2>1, RestingFacts, TaskDoer DEF UsbSame, FileVars
  <2>4. StepInv(Resting)' /\ FuncInv(f)'
    BY <1>4, <1>5, <2>1, RestingFacts, AudioFacts DEF StepInv, FuncInv, Funcs, UsbSame, None
  <2>5. UsbInv'
    <3>1. \A g \in Funcs \ {f} : on'[g] = on[g] /\ ep_on'[g] = ep_on[g] /\ place'[g] = place[g]
      BY <1>5, <2>1
    <3> QED BY <1>2, <2>1, <2>4, <3>1, RestingFacts, AudioFacts, TaskUsb DEF UsbSame
  <2>6. SelectInv'
    <3>1. ASSUME NEW g \in Funcs, on'[g]
          PROVE  on[g] /\ (Selected(g) => Selected(g)') /\ ~Disabled(g, t)
      BY <1>3, <1>5, <2>1, <3>1 DEF Selected, Disabled
    <3>2. Resting.op \notin EnableOps
      BY RestingFacts DEF EnableOps, None
    <3> QED BY <1>2, <2>1, <3>1, <3>2, RestingFacts, TaskSelect
  <2>7. RequestInv'
    BY <1>1, <1>5, <2>1 DEF RequestInv, UsbSame
  <2>8. SlotInv'
    BY <1>1 DEF SlotInv, UsbSame, FileVars, Owns, Downing, Writing
  <2> QED BY <2>2, <2>3, <2>5, <2>6, <2>7, <2>8 DEF IInv
<1>7. CASE ~on[f] /\ enabled
  <2>0. PICK u : u = Advanced(t)
    OBVIOUS
  <2>1. /\ todo' = [todo EXCEPT !["timer"] = u] /\ ep_on' = [ep_on EXCEPT ![f] = TRUE]
        /\ config' = config
    BY <1>7, <2>0 DEF EnableEndpoint
  <2>2. u \in Task /\ ValidTask(u) /\ Follows(t, u)
    BY <1>1, <1>2, <1>3, <2>0, OneDoer, MoveFacts, AudioFacts DEF Last, Funcs, EnableOps
  <2>3. u.op = "queue" /\ u.f = f /\ ~u.all
    BY <1>3, <2>2 DEF Follows
  <2>4. Types'
    BY <1>1, <1>2, <1>5, <2>1, <2>2, TodoTypes
  <2>5. DoerInv'
    BY <1>2, <1>3, <2>1, <2>2, <2>3, TaskDoer DEF UsbSame, FileVars, None
  <2>6. place[f] # "queued"
    BY <1>1, <1>3, <1>4, <1>7 DEF RequestInv
  <2>7. StepInv(u)'
    BY <1>1, <1>3, <1>5, <1>7, <2>1, <2>3, <2>6 DEF StepInv, HidOps
  <2>8. FuncInv(f)'
    <3>1. Mid(f)'
      BY <1>1, <1>2, <2>1, <2>3 DEF Mid, Types
    <3> QED BY <3>1 DEF FuncInv
  <2>9. UsbInv'
    <3>1. \A g \in Funcs \ {f} : on'[g] = on[g] /\ ep_on'[g] = ep_on[g] /\ place'[g] = place[g]
      BY <1>1, <1>5, <2>1
    <3> QED BY <1>2, <2>1, <2>2, <2>3, <2>7, <2>8, <3>1, TaskUsb DEF UsbSame
  <2>10. SelectInv'
    <3>1. ASSUME NEW g \in Funcs, on'[g]
          PROVE  on[g] /\ (Selected(g) => Selected(g)') /\ ~Disabled(g, t)
      BY <1>3, <1>5, <2>1, <3>1 DEF Selected, Disabled
    <3>2. Selected(u.f)'
      BY <1>1, <1>3, <2>1, <2>3 DEF SelectInv, Selected
    <3> QED BY <1>2, <2>1, <2>2, <3>1, <3>2, TaskSelect
  <2>11. RequestInv'
    BY <1>1, <1>3, <1>5, <2>1 DEF RequestInv, UsbSame
  <2>12. SlotInv'
    BY <1>1 DEF SlotInv, UsbSame, FileVars, Owns, Downing, Writing
  <2> QED BY <2>4, <2>5, <2>9, <2>10, <2>11, <2>12 DEF IInv
<1> QED BY <1>6, <1>7

(* The request is queued, on a port that is still enabled, or is not.      *)
LEMMA EnableQueueStep ==
  ASSUME IInv, NEW f, f = todo["timer"].f, todo["timer"].op = "queue", EnableQueue(f),
         alt' = alt, UsbSame
  PROVE  IInv'
<1> DEFINE t == todo["timer"]
<1>1. /\ Types /\ DoerInv /\ UsbInv /\ SelectInv /\ RequestInv /\ SlotInv
      /\ on \in [Funcs -> BOOLEAN] /\ ep_on \in [Funcs -> BOOLEAN]
      /\ place \in [Reqs -> {"idle", "queued", "giving"}] /\ config \in BOOLEAN
      /\ alt \in [Audio -> BOOLEAN] /\ int_in_busy \in BOOLEAN
  BY DEF IInv, Types
<1>2. "timer" \in Doers /\ ~Idle("timer")
  BY DEF Doers, Idle, None
<1>3. t \in Task /\ ValidTask(t) /\ f \in Funcs /\ ~t.all /\ t.op \in EnableOps
  BY <1>1, <1>2 DEF Types, ValidTask, HidOps, IsoOps, EnableOps, None
<1>4. ~on[f] /\ ep_on[f] /\ place[f] # "queued" /\ giving = None /\ place[f] = "idle"
  BY <1>1, <1>2, <1>3, AudioFacts DEF UsbInv, StepInv, DoerInv, RequestInv
<1>5. on' = on
  BY DEF EnableQueue
<1>6. CASE enabled \/ f # "hid"
  <2>0. PICK u : u = Advanced(t)
    OBVIOUS
  <2>1. /\ todo' = [todo EXCEPT !["timer"] = u]
        /\ UNCHANGED <<config, ep_on, fifo, int_in_busy>>
        /\ place' = place \/ place' = [place EXCEPT ![f] = "queued"]
        /\ enabled => place' = [place EXCEPT ![f] = "queued"]
    BY <1>4, <1>6, <2>0 DEF EnableQueue
  <2>2. u \in Task /\ ValidTask(u) /\ Follows(t, u)
    BY <1>1, <1>2, <1>3, <2>0, OneDoer, MoveFacts, AudioFacts DEF Last, Funcs, EnableOps
  <2>3. u.op = "on" /\ u.f = f /\ ~u.all
    BY <1>3, <2>2 DEF Follows
  <2>4. f \in Reqs /\ f # "in"
    BY <1>3, AudioFacts
  <2>5. /\ place' \in [Reqs -> {"idle", "queued", "giving"}]
         /\ \A g \in Reqs \ {f} : place'[g] = place[g]
    <3>1. CASE place' = place
      BY <1>1, <3>1
    <3>2. CASE place' = [place EXCEPT ![f] = "queued"]
      BY <1>1, <2>4, <3>2
    <3> QED BY <2>1, <3>1, <3>2
  <2>6. Types'
    BY <1>1, <1>2, <1>5, <2>1, <2>2, <2>5, TodoTypes
  <2>7. DoerInv'
    BY <1>2, <1>3, <2>1, <2>2, <2>3, TaskDoer DEF UsbSame, FileVars, None
  <2>8. StepInv(u)'
    BY <1>1, <1>3, <1>4, <1>5, <2>1, <2>3, <2>4 DEF StepInv, HidOps, UsbSame
  <2>9. FuncInv(f)'
    <3>1. Mid(f)'
      BY <1>1, <1>2, <2>1, <2>3 DEF Mid, Types
    <3> QED BY <3>1 DEF FuncInv
  <2>10. UsbInv'
    <3>1. \A g \in Funcs \ {f} : on'[g] = on[g] /\ ep_on'[g] = ep_on[g] /\ place'[g] = place[g]
      BY <1>1, <1>5, <2>1, <2>5, AudioFacts
    <3> QED BY <1>2, <2>1, <2>2, <2>3, <2>8, <2>9, <3>1, TaskUsb DEF UsbSame
  <2>11. SelectInv'
    <3>1. ASSUME NEW g \in Funcs, on'[g]
          PROVE  on[g] /\ (Selected(g) => Selected(g)') /\ ~Disabled(g, t)
      BY <1>3, <1>5, <2>1, <3>1 DEF Selected, Disabled
    <3>2. Selected(u.f)'
      BY <1>1, <1>3, <2>1, <2>3 DEF SelectInv, Selected
    <3> QED BY <1>2, <2>1, <2>2, <3>1, <3>2, TaskSelect
  <2>12. RequestInv'
    <3>1. \A r \in Reqs : place'[r] = "giving" <=> giving' = r
      BY <1>1, <1>4, <2>1, <2>4 DEF RequestInv, UsbSame
    <3>2. place'["in"] = place["in"]
      BY <2>4, <2>5 DEF Reqs
    <3>3. \A g \in Funcs : place'[g] = "queued" => ep_on'[g]
      BY <1>1, <1>4, <2>1, <2>4, AudioFacts DEF RequestInv
    <3> QED BY <1>1, <2>1, <3>1, <3>2, <3>3 DEF RequestInv, UsbSame
  <2>13. SlotInv'
    BY <1>1 DEF SlotInv, UsbSame, FileVars, Owns, Downing, Writing
  <2> QED BY <2>6, <2>7, <2>10, <2>11, <2>12, <2>13 DEF IInv
<1>7. CASE ~enabled /\ f = "hid"
  <2>1. /\ todo' = [todo EXCEPT !["timer"] = Resting] /\ ep_on' = [ep_on EXCEPT !["hid"] = FALSE]
        /\ config' = FALSE /\ fifo' = None
        /\ place' = [place EXCEPT !["in"] = IF @ = "queued" THEN "idle" ELSE @]
        /\ int_in_busy' = (int_in_busy /\ place["in"] # "queued")
    BY <1>7 DEF EnableQueue
  <2>2. "in" \in Reqs /\ "hid" \in Funcs
    BY DEF Reqs, Funcs
  <2>3. Types'
    BY <1>1, <1>2, <1>5, <2>1, <2>2, RestingFacts, TodoTypes
  <2>4. DoerInv'
    BY <1>2, <1>3, <2>1, RestingFacts, TaskDoer DEF UsbSame, FileVars
  <2>5. StepInv(Resting)' /\ FuncInv(f)'
    BY <1>1, <1>4, <1>5, <1>7, <2>1, <2>2, RestingFacts, AudioFacts
       DEF StepInv, FuncInv, Funcs, UsbSame, None
  <2>6. UsbInv'
    <3>1. \A g \in Funcs \ {f} : on'[g] = on[g] /\ ep_on'[g] = ep_on[g] /\ place'[g] = place[g]
      BY <1>1, <1>5, <1>7, <2>1, AudioFacts
    <3> QED BY <1>2, <2>1, <2>5, <3>1, RestingFacts, AudioFacts, TaskUsb DEF UsbSame
  <2>7. SelectInv'
    <3>1. ASSUME NEW g \in Funcs, on'[g]
          PROVE  on[g] /\ (Selected(g) => Selected(g)') /\ ~Disabled(g, t)
      BY <1>3, <1>4, <1>5, <1>7, <3>1 DEF Selected, Disabled
    <3>2. Resting.op \notin EnableOps
      BY RestingFacts DEF EnableOps, None
    <3> QED BY <1>2, <2>1, <3>1, <3>2, RestingFacts, TaskSelect
  <2>8. RequestInv'
    <3>1. \A r \in Reqs : place'[r] = "giving" <=> giving' = r
      BY <1>1, <2>1, <2>2 DEF RequestInv, UsbSame
    <3>2. \A g \in Funcs : place'[g] = "queued" => ep_on'[g]
      BY <1>1, <1>4, <1>7, <2>1, AudioFacts DEF RequestInv
    <3>3. place'["in"] # "queued" /\ (int_in_busy' => int_in_busy /\ place'["in"] = place["in"])
      BY <1>1, <2>1, <2>2
    <3> QED BY <1>1, <2>1, <3>1, <3>2, <3>3 DEF RequestInv, UsbSame
  <2>9. SlotInv'
    BY <1>1 DEF SlotInv, UsbSame, FileVars, Owns, Downing, Writing
  <2> QED BY <2>3, <2>4, <2>6, <2>7, <2>8, <2>9 DEF IInv
<1> QED BY <1>6, <1>7

LEMMA EnableDoneStep ==
  ASSUME IInv, NEW f, f = todo["timer"].f, todo["timer"].op = "on", EnableDone(f),
         alt' = alt, UsbSame
  PROVE  IInv'
<1> DEFINE t == todo["timer"]
<1>1. /\ Types /\ DoerInv /\ UsbInv /\ SelectInv /\ RequestInv /\ SlotInv
      /\ on \in [Funcs -> BOOLEAN] /\ ep_on \in [Funcs -> BOOLEAN]
      /\ place \in [Reqs -> {"idle", "queued", "giving"}] /\ config \in BOOLEAN
      /\ alt \in [Audio -> BOOLEAN] /\ int_in_busy \in BOOLEAN
  BY DEF IInv, Types
<1>2. "timer" \in Doers /\ ~Idle("timer")
  BY DEF Doers, Idle, None
<1>3. t \in Task /\ ValidTask(t) /\ f \in Funcs /\ ~t.all /\ t.op \in EnableOps
  BY <1>1, <1>2 DEF Types, ValidTask, HidOps, IsoOps, EnableOps, None
<1>4. ep_on[f] /\ (enabled => place[f] # "idle") /\ Selected(f)
  BY <1>1, <1>2, <1>3 DEF UsbInv, StepInv, SelectInv
<1>5. /\ on' = [on EXCEPT ![f] = TRUE] /\ UNCHANGED <<config, ep_on, place, fifo, int_in_busy>>
      /\ todo' = [todo EXCEPT !["timer"] = Resting]
  <2>1. Advanced(t) = Resting
    BY <1>3 DEF Advanced, After, AfterEnable, Ended
  <2> QED BY <2>1 DEF EnableDone
<1>6. Types'
  BY <1>1, <1>2, <1>3, <1>5, RestingFacts, TodoTypes
<1>7. DoerInv'
  BY <1>2, <1>3, <1>5, RestingFacts, TaskDoer DEF UsbSame, FileVars
<1>8. StepInv(Resting)' /\ FuncInv(f)'
  BY <1>1, <1>3, <1>4, <1>5, RestingFacts, AudioFacts DEF StepInv, FuncInv, Funcs, UsbSame, None
<1>9. UsbInv'
  <2>1. \A g \in Funcs \ {f} : on'[g] = on[g] /\ ep_on'[g] = ep_on[g] /\ place'[g] = place[g]
    BY <1>1, <1>5
  <2> QED BY <1>2, <1>5, <1>8, <2>1, RestingFacts, AudioFacts, TaskUsb DEF UsbSame
<1>10. SelectInv'
  <2>1. ASSUME NEW g \in Funcs, on'[g], g # f
        PROVE  on[g] /\ (Selected(g) => Selected(g)') /\ ~Disabled(g, t)
    BY <1>1, <1>3, <1>5, <2>1 DEF Selected, Disabled
  <2>2. Selected(f)'
    BY <1>4, <1>5 DEF Selected
  <2>3. ASSUME NEW g \in Funcs, on'[g]
        PROVE  \/ Selected(g)' \/ Disabled(g, Resting)
               \/ on[g] /\ (Selected(g) => Selected(g)') /\ ~Disabled(g, t)
    BY <2>1, <2>2, <2>3
  <2>4. Resting.op \notin EnableOps
    BY RestingFacts DEF EnableOps, None
  <2> QED BY <1>2, <1>5, <2>3, <2>4, RestingFacts, TaskSelect
<1>11. RequestInv'
  BY <1>1, <1>5 DEF RequestInv, UsbSame
<1>12. SlotInv'
  BY <1>1 DEF SlotInv, UsbSame, FileVars, Owns, Downing, Writing
<1> QED BY <1>6, <1>7, <1>9, <1>10, <1>11, <1>12 DEF IInv

-----------------------------------------------------------------------------
(* Disabling.  What a step turns off and takes back.                       *)
TurnsOff(f, op) ==
  /\ f \in Funcs \cup {"all"} /\ op \notin EnableOps
  /\ on' \in [Funcs -> BOOLEAN] /\ ep_on' \in [Funcs -> BOOLEAN]
  /\ \A g \in Funcs : on'[g] <=> on[g] /\ ~(g = f /\ op = "off")
  /\ \A g \in Funcs : ep_on'[g] <=> ep_on[g] /\ ~(g = f /\ op = "disable")
  /\ place' \in [Reqs -> {"idle", "queued", "giving"}] /\ int_in_busy' \in BOOLEAN
  /\ \A g \in Funcs \ {f} : place'[g] = place[g]
  /\ \A r \in Reqs : place'[r] = place[r] \/ (place[r] = "queued" /\ place'[r] = "idle")
  /\ op = "disable" => place'[f] # "queued" /\ (f = "hid" => place'["in"] # "queued" /\ fifo' = None)
  /\ fifo' \in {fifo, None}
  /\ int_in_busy' => int_in_busy /\ place'["in"] = place["in"]
  /\ \/ op # "unset" /\ config' = config /\ alt' = alt
     \/ op = "unset" /\ f = "all" /\ config' = FALSE /\ alt' = [g \in Audio |-> FALSE]
  /\ UNCHANGED <<created, private, mutex, ctl, wr, connected, enabled, giving>>

LEMMA DisableFacts ==
  ASSUME IInv, NEW d \in Doers, NEW f, NEW op, ~Idle(d), f = todo[d].f, op = todo[d].op,
         DisableStep(d, f, op), UsbSame
  PROVE  TurnsOff(f, op)
<1>1. /\ Types /\ todo[d] \in Task /\ ValidTask(todo[d]) /\ op # None
      /\ on \in [Funcs -> BOOLEAN] /\ ep_on \in [Funcs -> BOOLEAN]
      /\ place \in [Reqs -> {"idle", "queued", "giving"}] /\ int_in_busy \in BOOLEAN
  BY DEF IInv, Types, Idle
<1>2. op \notin EnableOps
  BY DEF DisableStep
<1>3. /\ f \in Funcs \cup {"all"} /\ (f = "all" <=> op = "unset")
  BY <1>1, <1>2, AudioFacts DEF ValidTask, Funcs, HidOps, IsoOps
<1>4. /\ on' \in [Funcs -> BOOLEAN] /\ ep_on' \in [Funcs -> BOOLEAN]
      /\ \A g \in Funcs : on'[g] <=> on[g] /\ ~(g = f /\ op = "off")
      /\ \A g \in Funcs : ep_on'[g] <=> ep_on[g] /\ ~(g = f /\ op = "disable")
  BY <1>1 DEF DisableStep
<1> DEFINE gone == CASE op = "dequeue_in" -> {"in"}
                     [] op = "dequeue" /\ ~enabled -> {f}
                     [] op = "disable" -> {f} \cup (IF f = "hid" THEN {"in"} ELSE {})
                     [] OTHER -> {}
<1>5. /\ place' = [r \in Reqs |-> IF r \in gone /\ place[r] = "queued" THEN "idle" ELSE place[r]]
      /\ int_in_busy' = (int_in_busy /\ op # "notbusy" /\ ~("in" \in gone /\ place["in"] = "queued"))
  BY DEF DisableStep
<1>6. gone \subseteq {f, "in"} /\ (op = "disable" => f \in gone /\ (f = "hid" => "in" \in gone))
  <2>1. CASE op = "dequeue_in"
    BY <2>1
  <2>2. CASE op = "dequeue"
    BY <2>2
  <2>3. CASE op = "disable"
    BY <2>3
  <2>4. CASE op \notin {"dequeue_in", "dequeue", "disable"}
    BY <2>4
  <2> QED BY <2>1, <2>2, <2>3, <2>4
<1> HIDE DEF gone
<1>7. /\ place' \in [Reqs -> {"idle", "queued", "giving"}]
      /\ \A r \in Reqs : place'[r] = place[r] \/ (place[r] = "queued" /\ place'[r] = "idle")
      /\ \A g \in Funcs \ {f} : place'[g] = place[g]
  BY <1>1, <1>5, <1>6, AudioFacts
<1>8. op = "disable" => place'[f] # "queued" /\ (f = "hid" => place'["in"] # "queued" /\ fifo' = None)
  <2> SUFFICES ASSUME op = "disable"
               PROVE  place'[f] # "queued" /\ (f = "hid" => place'["in"] # "queued" /\ fifo' = None)
    OBVIOUS
  <2>1. f \in Reqs /\ "in" \in Reqs
    BY <1>3, AudioFacts DEF Reqs
  <2>2. f = "hid" => fifo' = None
    BY DEF DisableStep
  <2> QED BY <1>5, <1>6, <2>1, <2>2
<1>9. fifo' \in {fifo, None}
  BY DEF DisableStep
<1>10. int_in_busy' \in BOOLEAN /\ (int_in_busy' => int_in_busy /\ place'["in"] = place["in"])
  <2>1. "in" \in Reqs
    BY DEF Reqs
  <2> QED BY <1>1, <1>5, <2>1
<1>11. \/ op # "unset" /\ config' = config /\ alt' = alt
       \/ op = "unset" /\ f = "all" /\ config' = FALSE /\ alt' = [g \in Audio |-> FALSE]
  BY <1>3 DEF DisableStep
<1> QED BY <1>2, <1>3, <1>4, <1>7, <1>8, <1>9, <1>10, <1>11 DEF TurnsOff, UsbSame, FileVars

(* Where the thread is after it: on the way down f is off, and the         *)
(* functions passed stay clean.                                            *)
LEMMA DisableMoves ==
  ASSUME IInv, NEW d \in Doers, NEW f, NEW op, NEW t, ~Idle(d), t = todo[d], f = t.f, op = t.op,
         DisableStep(d, f, op), UsbSame
  PROVE  \E u \in Task :
           /\ todo' = [todo EXCEPT ![d] = u] /\ ValidTask(u) /\ u.op \notin EnableOps
           /\ u.op # None => (u.all <=> t.all)
           /\ u.op = None => ~u.all /\ (t.all => f = "all")
           /\ u.f \in Funcs => u.f = f \/ u.op = "begin"
           /\ StepInv(u)'
           /\ f \in Funcs => FuncInv(f)' /\ ((u.f = f /\ u.op \notin EnableOps) \/ ~on'[f] \/ u.all)
<1>1. /\ Types /\ DoerInv /\ UsbInv /\ t \in Task /\ ValidTask(t) /\ op # None
      /\ todo \in [Doers -> Task] /\ StepInv(t)
  BY DEF IInv, Types, Idle, UsbInv
<1>2. /\ f \in Funcs \cup {"all"} /\ op \notin EnableOps
      /\ \A g \in Funcs : on'[g] <=> on[g] /\ ~(g = f /\ op = "off")
      /\ \A g \in Funcs : ep_on'[g] <=> ep_on[g] /\ ~(g = f /\ op = "disable")
  <2>1. TurnsOff(f, op)
    BY DisableFacts
  <2> QED BY <2>1 DEF TurnsOff
<1>3. \A g \in Funcs : Clean(g) => Clean(g)'
  BY <1>2 DEF Clean
<1>4. t.all => \A g \in Passed(f) : g \in Funcs /\ Clean(g)'
  <2>1. Passed(f) \subseteq Funcs
    BY AudioFacts DEF Passed, Funcs
  <2> QED BY <1>1, <1>3, <2>1 DEF StepInv
<1>5. ASSUME NEW u, u = Ended(t), todo' = [todo EXCEPT ![d] = u], f \in Funcs => Clean(f)'
      PROVE  /\ u \in Task /\ ValidTask(u) /\ u.op \notin EnableOps
             /\ u.op # None => (u.all <=> t.all)
             /\ u.op = None => ~u.all /\ (t.all => f = "all")
             /\ u.f \in Funcs => u.f = f \/ u.op = "begin"
             /\ StepInv(u)'
             /\ f \in Funcs => FuncInv(f)' /\ ~on'[f]
  <2>1. /\ u \in Task /\ ValidTask(u) /\ u.op \notin EnableOps
        /\ u.op \in {None, "begin", "unset"} /\ (u.f \in Funcs => u.op = "begin")
        /\ u.op = None <=> ~t.all \/ t.f = "all"
        /\ u.all <=> u.op # None
        /\ u.all => t.all /\ Passed(u.f) \subseteq Passed(t.f) \cup {t.f}
    BY <1>1, <1>5, EndedFacts
  <2>2. ASSUME u.all, NEW g \in Passed(u.f) PROVE Clean(g)'
    <3>1. g \in Passed(f) \/ (g = f /\ f \in Funcs)
      <4>1. Passed(u.f) \subseteq Funcs
        BY AudioFacts DEF Passed, Funcs
      <4> QED BY <2>1, <2>2, <4>1
    <3> QED BY <1>4, <1>5, <2>1, <2>2, <3>1
  <2>3. StepInv(u)'
    BY <2>1, <2>2, AudioFacts DEF StepInv, EnableOps, HidOps, None
  <2>4. f \in Funcs => FuncInv(f)' /\ ~on'[f]
    BY <1>5 DEF FuncInv, Clean
  <2> QED BY <2>1, <2>3, <2>4
<1>6. CASE op = "begin" /\ ~on[f]
  <2>1. PICK u : u = Ended(t)
    OBVIOUS
  <2>2. todo' = [todo EXCEPT ![d] = u]
    BY <1>6, <2>1 DEF DisableStep
  <2>3. f \in Funcs => Clean(f)'
    <3> SUFFICES ASSUME f \in Funcs PROVE Clean(f)'
      OBVIOUS
    <3>1. ~Mid(f)
      BY <1>1, <1>6, OneDoer
    <3>2. ~ep_on[f]
      BY <1>1, <1>6, <3>1 DEF UsbInv, FuncInv
    <3> QED BY <1>3, <1>6, <3>2 DEF Clean
  <2>4. u \in Task
    BY <1>1, <2>1, EndedFacts
  <2> WITNESS u \in Task
  <2> QED BY <1>5, <2>1, <2>2, <2>3
<1>7. CASE ~(op = "begin" /\ ~on[f])
  <2>1. PICK u : u = Advanced(t)
    OBVIOUS
  <2>2. todo' = [todo EXCEPT ![d] = u]
    BY <1>7, <2>1 DEF DisableStep
  <2>3. \/ u \in Task /\ ValidTask(u) /\ Follows(t, u)
        \/ u = Ended(t) /\ Last(t)
    BY <1>1, <2>1, MoveFacts
  <2>4. CASE u = Ended(t) /\ Last(t)
    <3>1. f \in Funcs => Clean(f)'
      <4> SUFFICES ASSUME f \in Funcs PROVE Clean(f)'
        OBVIOUS
      <4>1. (f = "hid" /\ op = "notbusy") \/ (f \in Audio /\ op = "off")
        BY <1>1, <1>2, <2>4, AudioFacts DEF Last, ValidTask, EnableOps, HidOps, IsoOps, None
      <4>2. ~ep_on[f]
        BY <1>1, <4>1 DEF StepInv
      <4>3. ~on'[f]
        BY <1>1, <1>2, <4>1, AudioFacts DEF StepInv, HidOps
      <4> QED BY <1>2, <4>2, <4>3 DEF Clean
    <3>2. u \in Task
      BY <1>1, <2>4, EndedFacts
    <3> WITNESS u \in Task
    <3> QED BY <1>5, <2>2, <2>4, <3>1
  <2>5. CASE u \in Task /\ ValidTask(u) /\ Follows(t, u)
    <3>1. u.f = f /\ u.all = t.all /\ f \in Funcs
      BY <1>2, <2>5, AudioFacts DEF Follows, EnableOps, Funcs
    <3>2. /\ u.op \notin EnableOps \cup {None, "begin", "enable"}
      BY <1>2, <2>5 DEF Follows, EnableOps, None
    <3>3. u.f = "hid" /\ u.op \in HidOps \ {"begin", "off"} => ~on'["hid"]
      <4>1. u.f = "hid" /\ u.op \in HidOps \ {"begin", "off"} => op = "off" \/ op \in HidOps \ {"begin", "off"}
        BY <2>5, <3>1, AudioFacts DEF Follows, HidOps
      <4> QED BY <1>1, <1>2, <3>1, <4>1 DEF StepInv, HidOps
    <3>4. (u.f = "hid" /\ u.op = "notbusy") \/ (u.f \in Audio /\ u.op = "off") => ~ep_on'[u.f]
      <4>1. (u.f = "hid" /\ u.op = "notbusy") \/ (u.f \in Audio /\ u.op = "off") => op = "disable"
        BY <2>5, <3>1, AudioFacts DEF Follows
      <4> QED BY <1>2, <3>1, <4>1
    <3>5. StepInv(u)'
      BY <1>4, <3>1, <3>2, <3>3, <3>4 DEF StepInv, EnableOps
    <3>6. FuncInv(f)'
      <4>1. Mid(f)'
        BY <1>1, <2>2, <3>1, <3>2 DEF Mid
      <4> QED BY <4>1 DEF FuncInv
    <3>7. u \in Task
      BY <2>5
    <3> WITNESS u \in Task
    <3> QED BY <2>2, <2>5, <3>1, <3>2, <3>5, <3>6
  <2> QED BY <2>3, <2>4, <2>5
<1> QED BY <1>6, <1>7

LEMMA DisableStepStep ==
  ASSUME IInv, NEW d \in Doers, NEW f, NEW op, ~Idle(d), f = todo[d].f, op = todo[d].op,
         DisableStep(d, f, op), UsbSame
  PROVE  IInv'
<1>0. PICK t : t = todo[d]
  OBVIOUS
<1>1. /\ Types /\ DoerInv /\ UsbInv /\ SelectInv /\ RequestInv /\ SlotInv
      /\ config \in BOOLEAN /\ alt \in [Audio -> BOOLEAN] /\ StepInv(t)
  BY <1>0 DEF IInv, Types, UsbInv
<1>2. PICK u \in Task :
           /\ todo' = [todo EXCEPT ![d] = u] /\ ValidTask(u) /\ u.op \notin EnableOps
           /\ u.op # None => (u.all <=> t.all)
           /\ u.op = None => ~u.all /\ (t.all => f = "all")
           /\ u.f \in Funcs => u.f = f \/ u.op = "begin"
           /\ StepInv(u)'
           /\ f \in Funcs => FuncInv(f)' /\ ((u.f = f /\ u.op \notin EnableOps) \/ ~on'[f] \/ u.all)
  BY <1>0, DisableMoves
<1>3. TurnsOff(f, op)
  BY DisableFacts
<1>4. t.all /\ f = "all" => AllClean /\ AllClean'
  <2>1. t.all /\ f = "all" => \A g \in Funcs : Clean(g)
    BY <1>0, <1>1 DEF StepInv, Passed
  <2> QED BY <1>3, <2>1 DEF TurnsOff, AllClean, Clean
<1>5. f = "all" => t.all
  BY <1>0, <1>1, AudioFacts DEF Types, ValidTask, Funcs, None
<1>6. Types'
  <2>1. config' \in BOOLEAN /\ alt' \in [Audio -> BOOLEAN]
    <3>1. \/ config' = config /\ alt' = alt
          \/ config' = FALSE /\ alt' = [g \in Audio |-> FALSE]
      BY <1>3 DEF TurnsOff
    <3> QED BY <1>1, <3>1
  <2>2. /\ UsbSame /\ on' \in [Funcs -> BOOLEAN] /\ ep_on' \in [Funcs -> BOOLEAN]
        /\ place' \in [Reqs -> {"idle", "queued", "giving"}] /\ int_in_busy' \in BOOLEAN
    BY <1>3 DEF TurnsOff
  <2> QED BY <1>1, <1>2, <2>1, <2>2, TodoTypes
<1>7. DoerInv'
  <2>1. (u.op # None => (u.all <=> todo[d].all)) /\ (u.op = None => ~todo[d].all \/ AllClean')
    BY <1>0, <1>2, <1>4
  <2> QED BY <1>2, <1>3, <2>1, TaskDoer DEF TurnsOff
<1>8. UsbInv'
  <2>1. \A g \in Funcs \ {f} : on'[g] = on[g] /\ ep_on'[g] = ep_on[g] /\ place'[g] = place[g]
    <3>1. on \in [Funcs -> BOOLEAN] /\ ep_on \in [Funcs -> BOOLEAN]
      BY <1>1 DEF Types
    <3> QED BY <1>3, <3>1 DEF TurnsOff
  <2> QED BY <1>2, <1>3, <2>1, TaskUsb DEF TurnsOff
<1>9. SelectInv'
  <2>1. ASSUME NEW g \in Funcs, on'[g]
        PROVE  \/ Selected(g)' \/ Disabled(g, u)
               \/ on[g] /\ (Selected(g) => Selected(g)') /\ ~Disabled(g, todo[d])
    <3>1. on[g] /\ ~(t.all /\ f = "all")
      BY <1>3, <1>4, <2>1 DEF TurnsOff, AllClean, Clean
    <3>2. config' = config /\ alt' = alt
      BY <1>3, <1>5, <3>1 DEF TurnsOff
    <3>3. Selected(g) => Selected(g)'
      BY <3>2 DEF Selected
    <3>4. CASE t.all
      BY <1>2, <3>1, <3>4 DEF Disabled
    <3>5. CASE ~t.all /\ g = f
      BY <1>2, <2>1, <3>5 DEF Disabled
    <3>6. CASE ~t.all /\ g # f
      BY <1>0, <3>1, <3>3, <3>6 DEF Disabled
    <3> QED BY <3>4, <3>5, <3>6
  <2> QED BY <1>2, <2>1, TaskSelect
<1>10. RequestInv'
  <2>1. \A r \in Reqs : place'[r] = "giving" <=> giving' = r
    BY <1>1, <1>3 DEF TurnsOff, RequestInv
  <2>2. \A g \in Funcs : place'[g] = "queued" => ep_on'[g]
    BY <1>1, <1>3, AudioFacts DEF TurnsOff, RequestInv
  <2>3. ~ep_on'["hid"] => fifo' = None /\ place'["in"] # "queued"
    <3>1. "hid" \in Funcs /\ "in" \in Reqs
      BY DEF Funcs, Reqs
    <3> QED BY <1>1, <1>3, <3>1 DEF TurnsOff, RequestInv
  <2> QED BY <1>1, <1>3, <2>1, <2>2, <2>3 DEF TurnsOff, RequestInv
<1>11. SlotInv'
  BY <1>1, <1>3 DEF TurnsOff, SlotInv, Owns, Downing, Writing
<1> QED BY <1>6, <1>7, <1>8, <1>9, <1>10, <1>11 DEF IInv

LEMMA DoStepStep ==
  ASSUME IInv, NEW d \in Doers, DoStep(d)
  PROVE  IInv'
<1>1. /\ ~Idle(d) /\ UsbSame
      /\ EnableStep(todo[d].f, todo[d].op) \/ DisableStep(d, todo[d].f, todo[d].op)
  BY DEF DoStep, UsbSame, FileVars
<1>2. CASE EnableStep(todo[d].f, todo[d].op)
  <2>1. todo[d].op \in EnableOps /\ alt' = alt
    BY <1>2 DEF EnableStep, EnableOps
  <2>2. d = "timer"
    <3>1. ~todo[d].all
      BY <2>1 DEF IInv, Types, ValidTask, EnableOps, HidOps, IsoOps, None
    <3> QED BY <1>1, <3>1 DEF IInv, DoerInv, Doers
  <2> QED BY <1>1, <1>2, <2>1, <2>2, EnableEndpointStep, EnableQueueStep, EnableDoneStep DEF EnableStep
<1>3. CASE DisableStep(d, todo[d].f, todo[d].op)
  BY <1>1, <1>3, DisableStepStep
<1> QED BY <1>1, <1>2, <1>3

-----------------------------------------------------------------------------
(* A callback begins when none is under way.                               *)
LEMMA NoneUnderWay ==
  ASSUME IInv, enabled, Idle("timer"), Idle("link")
  PROVE  AllIdle /\ created /\ connected /\ \A f \in Files : ~Downing(f)
<1>1. created /\ connected /\ \A f \in Files : ~Downing(f)
  BY DEF IInv, SlotInv
<1> QED BY <1>1 DEF IInv, DoerInv, AllIdle, Doers, Downing

LEMMA UsbStarts ==
  ASSUME IInv, AllIdle, NEW d \in Doers, NEW u \in Task, ValidTask(u), u.op \in {"begin", "enable"},
         todo' = [todo EXCEPT ![d] = u], UNCHANGED <<on, ep_on>>,
         enabled' => enabled /\ place' = place, u.all => Passed(u.f) = {}
  PROVE  UsbInv'
<1>1. Types /\ UsbInv /\ todo \in [Doers -> Task]
  BY DEF IInv, Types
<1>2. /\ todo'[d] = u
      /\ \A e \in Doers \ {d} : todo'[e].op = None /\ todo'[e].f = None /\ ~todo'[e].all
  BY <1>1, NoDoer
<1>3. StepInv(u)'
  BY DEF StepInv, HidOps
<1>4. ASSUME NEW e \in Doers PROVE StepInv(todo[e])'
  <2>1. CASE e = d
    BY <1>2, <1>3, <2>1
  <2>2. CASE e # d
    BY <1>2, <2>2, AudioFacts DEF StepInv, None, Funcs
  <2> QED BY <2>1, <2>2
<1>5. ASSUME NEW g \in Funcs PROVE FuncInv(g)'
  <2>1. IF on[g] THEN ep_on[g] /\ (enabled => place[g] # "idle") ELSE ~ep_on[g]
    BY <1>1, NoDoer DEF UsbInv, FuncInv
  <2> QED BY <2>1 DEF FuncInv
<1> QED BY <1>4, <1>5 DEF UsbInv, StepInv, FuncInv

LEMMA TaskKinds ==
  /\ DisableAll \in Task /\ ValidTask(DisableAll) /\ DisableAll.op = "begin" /\ DisableAll.all
  /\ Passed(DisableAll.f) = {}
  /\ \A f \in Funcs : /\ Enabling(f) \in Task /\ ValidTask(Enabling(f)) /\ Enabling(f).f = f
                      /\ Enabling(f).op = "enable" /\ ~Enabling(f).all
  /\ \A f \in Audio : /\ Disabling(f) \in Task /\ ValidTask(Disabling(f)) /\ Disabling(f).f = f
                      /\ Disabling(f).op = "begin" /\ ~Disabling(f).all
<1>1. /\ DisableAll \in Task /\ ValidTask(DisableAll) /\ DisableAll.op = "begin" /\ DisableAll.all
      /\ Passed(DisableAll.f) = {}
  BY AudioFacts DEF DisableAll, Task, ValidTask, Passed, Funcs, HidOps, IsoOps
<1>2. \A f \in Funcs : /\ Enabling(f) \in Task /\ ValidTask(Enabling(f)) /\ Enabling(f).f = f
                       /\ Enabling(f).op = "enable" /\ ~Enabling(f).all
  BY DEF Enabling, Task, ValidTask, EnableOps
<1>3. \A f \in Audio : /\ Disabling(f) \in Task /\ ValidTask(Disabling(f)) /\ Disabling(f).f = f
                       /\ Disabling(f).op = "begin" /\ ~Disabling(f).all
  BY DEF Disabling, Task, ValidTask, HidOps, IsoOps, Funcs
<1> QED BY <1>1, <1>2, <1>3

(* A setup call of the timer's.                                            *)
LEMMA SetupStarts ==
  ASSUME IInv, enabled, TimerFree, Idle("link"), NEW u \in Task, ValidTask(u),
         u.op \in {"begin", "enable"}, todo' = [todo EXCEPT !["timer"] = u],
         u.all => Passed(u.f) = {}, u.op = "enable" => Selected(u.f)',
         \A g \in Funcs : Selected(g) => Selected(g)' \/ Disabled(g, u),
         config' \in BOOLEAN, alt' \in [Audio -> BOOLEAN],
         UNCHANGED <<FileVars, wr, enabled, on, ep_on, place, fifo, int_in_busy, giving>>
  PROVE  IInv'
<1>1. /\ Types /\ DoerInv /\ SelectInv /\ RequestInv /\ SlotInv /\ todo \in [Doers -> Task]
      /\ "timer" \in Doers /\ Idle("timer") /\ giving = None
  BY DEF IInv, Types, TimerFree, Doers
<1>2. AllIdle /\ created /\ connected /\ \A f \in Files : ~Downing(f)
  BY <1>1, NoneUnderWay
<1>3. Types'
  BY <1>1, TodoTypes DEF UsbSame, FileVars, Types
<1>4. UsbInv'
  BY <1>1, <1>2, UsbStarts
<1>5. \A e \in Doers \ {"timer"} : Idle(e)'
  BY <1>1, <1>2 DEF AllIdle, Idle
<1>6. DoerInv'
  BY <1>1, <1>2, <1>5 DEF DoerInv, FileVars, Downing, Doers, AllIdle
<1>7. SelectInv'
  <2>1. ASSUME NEW g \in Funcs, on'[g] PROVE Selected(g)' \/ Disabled(g, u)
    <3>1. Selected(g)
      BY <1>1, <1>2, <2>1, NoDoer, AudioFacts DEF SelectInv, Disabled
    <3> QED BY <3>1
  <2>2. todo'["timer"] = u
    BY <1>1
  <2> QED BY <1>1, <2>1, <2>2 DEF SelectInv, Disabled, EnableOps
<1>8. RequestInv' /\ SlotInv'
  BY <1>1 DEF RequestInv, SlotInv, FileVars, Owns, Downing, Writing
<1> QED BY <1>3, <1>4, <1>6, <1>7, <1>8 DEF IInv

LEMMA SetConfigurationStep ==
  ASSUME IInv, NEW value \in BOOLEAN, SetConfiguration(value) PROVE IInv'
<1>1. /\ enabled /\ TimerFree /\ Idle("link") /\ config' = value /\ alt' = alt
      /\ todo' = [todo EXCEPT !["timer"] = IF value THEN Enabling("hid") ELSE DisableAll]
      /\ UNCHANGED <<FileVars, wr, enabled, on, ep_on, place, fifo, int_in_busy, giving>>
  BY DEF SetConfiguration
<1>2. alt \in [Audio -> BOOLEAN] /\ "hid" \in Funcs
  BY DEF IInv, Types, Funcs
<1>3. CASE value
  <2>1. \A g \in Funcs : Selected(g) => Selected(g)'
    BY <1>1, <1>3 DEF Selected
  <2>2. PICK u : u = Enabling("hid")
    OBVIOUS
  <2>3. /\ u \in Task /\ ValidTask(u) /\ u.f = "hid" /\ u.op = "enable" /\ ~u.all
        /\ todo' = [todo EXCEPT !["timer"] = u]
    BY <1>1, <1>2, <1>3, <2>2, TaskKinds
  <2>4. Selected(u.f)'
    BY <1>1, <1>3, <2>3 DEF Selected
  <2> QED BY <1>1, <1>2, <1>3, <2>1, <2>3, <2>4, SetupStarts
<1>4. CASE ~value
  <2>1. PICK u : u = DisableAll
    OBVIOUS
  <2>2. /\ u \in Task /\ ValidTask(u) /\ u.op = "begin" /\ u.all /\ Passed(u.f) = {}
        /\ todo' = [todo EXCEPT !["timer"] = u]
    BY <1>1, <1>4, <2>1, TaskKinds
  <2>3. \A g : Disabled(g, u)
    BY <2>2 DEF Disabled
  <2> QED BY <1>1, <1>2, <1>4, <2>2, <2>3, SetupStarts
<1> QED BY <1>3, <1>4

LEMMA SetInterfaceStep ==
  ASSUME IInv, NEW g \in Audio, NEW value \in BOOLEAN, SetInterface(g, value) PROVE IInv'
<1>1. /\ enabled /\ TimerFree /\ Idle("link") /\ alt' = [alt EXCEPT ![g] = value] /\ config' = config
      /\ todo' = [todo EXCEPT !["timer"] = IF value THEN Enabling(g) ELSE Disabling(g)]
      /\ UNCHANGED <<FileVars, wr, enabled, on, ep_on, place, fifo, int_in_busy, giving>>
  BY DEF SetInterface
<1>2. alt \in [Audio -> BOOLEAN] /\ config \in BOOLEAN /\ g \in Funcs /\ g # "hid"
  BY AudioFacts DEF IInv, Types, Funcs
<1>3. \A h \in Funcs \ {g} : Selected(h) => Selected(h)'
  BY <1>1, <1>2 DEF Selected
<1>4. CASE value
  <2>1. PICK u : u = Enabling(g)
    OBVIOUS
  <2>2. /\ u \in Task /\ ValidTask(u) /\ u.f = g /\ u.op = "enable" /\ ~u.all
        /\ todo' = [todo EXCEPT !["timer"] = u]
    BY <1>1, <1>2, <1>4, <2>1, TaskKinds
  <2>3. Selected(g)'
    BY <1>1, <1>2, <1>4 DEF Selected
  <2>4. Selected(u.f)'
    BY <1>1, <1>2, <1>4, <2>2 DEF Selected
  <2> QED BY <1>1, <1>2, <1>3, <2>2, <2>3, <2>4, SetupStarts
<1>5. CASE ~value
  <2>1. PICK u : u = Disabling(g)
    OBVIOUS
  <2>2. /\ u \in Task /\ ValidTask(u) /\ u.f = g /\ u.op = "begin" /\ ~u.all
        /\ todo' = [todo EXCEPT !["timer"] = u]
    BY <1>1, <1>5, <2>1, TaskKinds
  <2>3. Disabled(g, u)
    BY <2>2 DEF Disabled, EnableOps
  <2> QED BY <1>1, <1>2, <1>3, <2>2, <2>3, SetupStarts
<1> QED BY <1>4, <1>5

(* ds5_disconnect, called for a bus reset and by a destroy.                *)
LEMMA SelectDown ==
  ASSUME IInv, AllIdle, NEW d \in Doers \ {"timer"}, todo' = [todo EXCEPT ![d] = DisableAll]
  PROVE  SelectInv'
<1>1. /\ todo'[d].all /\ todo'["timer"] = todo["timer"] /\ "timer" \in Doers
  BY TaskKinds DEF IInv, Types, Doers
<1>2. todo'["timer"].op \notin EnableOps
  BY <1>1, NoDoer DEF IInv, EnableOps, None
<1> QED BY <1>1, <1>2 DEF SelectInv, Disabled

LEMMA BusResetStep ==
  ASSUME IInv, BusReset PROVE IInv'
<1>1. /\ enabled /\ Idle("link") /\ Idle("timer") /\ ~enabled' /\ fifo' = None
      /\ place' = [r \in Reqs |-> IF place[r] = "queued" THEN "idle" ELSE place[r]]
      /\ int_in_busy' = (int_in_busy /\ place["in"] # "queued")
      /\ todo' = [todo EXCEPT !["link"] = DisableAll]
      /\ UNCHANGED <<FileVars, wr, config, alt, on, ep_on, giving>>
  BY DEF BusReset
<1>2. /\ Types /\ DoerInv /\ SelectInv /\ RequestInv /\ SlotInv /\ todo \in [Doers -> Task]
      /\ "link" \in Doers \ {"timer"} /\ AllIdle /\ created /\ \A f \in Files : ~Downing(f)
      /\ place \in [Reqs -> {"idle", "queued", "giving"}] /\ "in" \in Reqs
  BY <1>1, NoneUnderWay DEF IInv, Types, Doers, Reqs
<1>3. todo' \in [Doers -> Task] /\ \A d \in Doers : ValidTask(todo'[d])
  BY <1>1, <1>2, TaskKinds DEF Types
<1>4. Types'
  <2>1. place' \in [Reqs -> {"idle", "queued", "giving"}]
    BY <1>1, <1>2
  <2>2. int_in_busy' \in BOOLEAN /\ enabled' \in BOOLEAN
    BY <1>1 DEF BusReset
  <2> QED BY <1>1, <1>2, <1>3, <2>1, <2>2 DEF Types, FileVars
<1>5. UsbInv'
  BY <1>1, <1>2, TaskKinds, UsbStarts
<1>6. DoerInv'
  <2>1. \A e \in Doers \ {"link"} : Idle(e)'
    BY <1>1, <1>2 DEF AllIdle, Idle
  <2>2. ~Idle("link")' /\ todo'["link"].all
    BY <1>1, <1>2, TaskKinds DEF Idle, None
  <2> QED BY <1>1, <1>2, <2>1, <2>2 DEF DoerInv, FileVars, Downing, Doers
<1>7. SelectInv'
  BY <1>1, <1>2, SelectDown
<1>8. RequestInv'
  BY <1>1, <1>2, AudioFacts DEF RequestInv
<1>9. SlotInv'
  BY <1>1, <1>2 DEF SlotInv, FileVars, Owns, Downing, Writing
<1> QED BY <1>4, <1>5, <1>6, <1>7, <1>8, <1>9 DEF IInv

LEMMA DestroyDisconnectStep ==
  ASSUME IInv, NEW f \in Files, DestroyDisconnect(f) PROVE IInv'
<1>1. /\ ctl[f] = "wait" /\ Idle("timer") /\ Idle("link")
      /\ ctl' = [ctl EXCEPT ![f] = "destroy"] /\ todo' = [todo EXCEPT !["core"] = DisableAll]
      /\ UNCHANGED <<created, private, mutex, wr, connected, enabled, UsbVars, giving>>
  BY DEF DestroyDisconnect
<1>2. /\ Types /\ DoerInv /\ SelectInv /\ RequestInv /\ SlotInv /\ todo \in [Doers -> Task]
      /\ "core" \in Doers \ {"timer"} /\ ctl \in [Files -> {"idle", "wait", "destroy", "forget"}]
  BY DEF IInv, Types, Doers
<1>3. created /\ ~connected /\ \A g \in Files : Downing(g) => g = f
  BY <1>1, <1>2 DEF SlotInv, Downing
<1>4. AllIdle
  BY <1>1, <1>2, <1>3 DEF DoerInv, Downing, AllIdle, Doers
<1>5. todo' \in [Doers -> Task] /\ \A d \in Doers : ValidTask(todo'[d])
  BY <1>1, <1>2, TaskKinds DEF Types
<1>6. Types'
  BY <1>1, <1>2, <1>5 DEF Types, UsbVars
<1>7. UsbInv'
  BY <1>1, <1>2, <1>4, TaskKinds, UsbStarts DEF UsbVars
<1>8. DoerInv'
  <2>1. Idle("timer")' /\ Idle("link")' /\ \A e \in Doers \ {"core"} : Idle(e)'
    BY <1>1, <1>2, <1>4 DEF AllIdle, Idle, Doers
  <2>2. ~Idle("core")' /\ todo'["core"].all
    BY <1>1, <1>2, TaskKinds DEF Idle, None
  <2>3. ctl'[f] = "destroy"
    BY <1>1, <1>2
  <2> QED BY <1>1, <1>3, <2>1, <2>2, <2>3 DEF DoerInv, Doers
<1>9. SelectInv'
  BY <1>1, <1>2, <1>4, SelectDown
<1>10. RequestInv'
  BY <1>1, <1>2 DEF RequestInv, UsbVars
<1>11. SlotInv'
  BY <1>1, <1>2 DEF SlotInv, Owns, Downing, Writing
<1> QED BY <1>6, <1>7, <1>8, <1>9, <1>10, <1>11 DEF IInv

-----------------------------------------------------------------------------
(* What the host reads and writes, and the completions.                    *)
LEMMA UsbQuiet ==
  ASSUME IInv, UNCHANGED <<todo, on, ep_on, enabled>>,
         ~Idle("timer") => \A g \in Funcs : place'[g] = place[g],
         \A g \in Funcs : enabled /\ ep_on[g] /\ place[g] # "idle" => place'[g] # "idle"
  PROVE  UsbInv'
<1>1. Types /\ UsbInv
  BY DEF IInv
<1>2. ASSUME NEW d \in Doers PROVE StepInv(todo[d])'
  <2>1. StepInv(todo[d]) /\ ValidTask(todo[d])
    BY <1>1 DEF UsbInv, Types
  <2>2. CASE todo[d].op \in EnableOps
    <3>1. d = "timer" /\ ~Idle("timer") /\ todo[d].f \in Funcs
      BY <1>1, <2>1, <2>2 DEF IInv, DoerInv, Idle, Doers, ValidTask, EnableOps, HidOps, IsoOps, None
    <3> QED BY <2>1, <3>1 DEF StepInv, Clean
  <2>3. CASE todo[d].op \notin EnableOps
    BY <2>1, <2>3 DEF StepInv, Clean, EnableOps
  <2> QED BY <2>2, <2>3
<1>3. ASSUME NEW g \in Funcs PROVE FuncInv(g)'
  BY <1>1 DEF UsbInv, FuncInv, Mid
<1> QED BY <1>2, <1>3 DEF UsbInv, StepInv, FuncInv

LEMMA DoerQuiet ==
  ASSUME IInv, UNCHANGED <<todo, on, ep_on, enabled, created, ctl, connected>>,
         ~Idle("timer") /\ giving = None => giving' = None
  PROVE  DoerInv'
BY DEF IInv, DoerInv, AllIdle, AllClean, Clean, Idle

LEMMA SelectQuiet ==
  ASSUME IInv, UNCHANGED <<todo, on, config, alt>>
  PROVE  SelectInv'
BY DEF IInv, SelectInv, Selected, Disabled

LEMMA TransferStep ==
  ASSUME IInv, UNCHANGED <<FileVars, wr, enabled, config, alt, on, ep_on, todo>>,
         int_in_busy' \in BOOLEAN, place' \in [Reqs -> {"idle", "queued", "giving"}],
         giving' \in Reqs \cup {None}, RequestInv',
         ~Idle("timer") => place' = place /\ giving' = giving,
         \A g \in Funcs : enabled /\ ep_on[g] /\ place[g] # "idle" => place'[g] # "idle"
  PROVE  IInv'
<1>1. UsbInv'
  BY UsbQuiet
<1>2. DoerInv'
  BY DoerQuiet DEF FileVars
<1>3. SelectInv'
  BY SelectQuiet
<1>4. Types'
  BY DEF IInv, Types, FileVars
<1>5. SlotInv'
  BY DEF IInv, SlotInv, FileVars, Owns, Downing, Writing
<1> QED BY <1>1, <1>2, <1>3, <1>4, <1>5 DEF IInv

LEMMA HostReadsStep ==
  ASSUME IInv, HostReads PROVE IInv'
<1>1. /\ Idle("timer") /\ giving = None /\ ep_on["hid"]
      /\ UNCHANGED <<FileVars, wr, enabled, config, alt, on, ep_on, int_in_busy, todo>>
  BY DEF HostReads, TimerFree
<1>2. /\ RequestInv /\ place \in [Reqs -> {"idle", "queued", "giving"}] /\ "in" \in Reqs
      /\ int_in_busy \in BOOLEAN /\ giving \in Reqs \cup {None}
  BY DEF IInv, Types, Reqs
<1>3. CASE fifo # None /\ fifo' = None /\ UNCHANGED <<place, giving>>
  <2>1. RequestInv'
    BY <1>1, <1>2, <1>3 DEF RequestInv
  <2> QED BY <1>1, <1>2, <1>3, <2>1, TransferStep
<1>4. CASE /\ fifo = None /\ fifo' = fifo /\ place["in"] = "queued"
           /\ place' = [place EXCEPT !["in"] = "giving"] /\ giving' = "in"
  <2>1. place' \in [Reqs -> {"idle", "queued", "giving"}] /\ \A g \in Funcs : place'[g] = place[g]
    BY <1>2, <1>4, AudioFacts
  <2>2. None \notin Reqs /\ place'["in"] = "giving"
    BY <1>2, <1>4, AudioFacts DEF Reqs, None
  <2>3. \A r \in Reqs : place'[r] = "giving" <=> giving' = r
    BY <1>1, <1>2, <1>4, <2>2 DEF RequestInv
  <2>4. RequestInv'
    BY <1>1, <1>2, <2>1, <2>2, <2>3 DEF RequestInv
  <2> QED BY <1>1, <1>2, <1>4, <2>1, <2>4, TransferStep
<1> QED BY <1>3, <1>4 DEF HostReads

LEMMA HostTransfersStep ==
  ASSUME IInv, NEW f \in Funcs, HostTransfers(f) PROVE IInv'
<1>1. /\ Idle("timer") /\ giving = None /\ place[f] = "queued"
      /\ place' = [place EXCEPT ![f] = "giving"] /\ giving' = f /\ fifo' = fifo
      /\ UNCHANGED <<FileVars, wr, enabled, config, alt, on, ep_on, int_in_busy, todo>>
  BY DEF HostTransfers, TimerFree
<1>2. /\ RequestInv /\ place \in [Reqs -> {"idle", "queued", "giving"}] /\ f \in Reqs /\ f # "in"
      /\ int_in_busy \in BOOLEAN /\ None \notin Reqs
  BY AudioFacts DEF IInv, Types, Reqs, None
<1>3. /\ place' \in [Reqs -> {"idle", "queued", "giving"}] /\ place'["in"] = place["in"]
      /\ \A g \in Funcs : place[g] # "idle" => place'[g] # "idle"
  BY <1>1, <1>2, AudioFacts
<1>4. RequestInv'
  BY <1>1, <1>2, <1>3, AudioFacts DEF RequestInv
<1> QED BY <1>1, <1>2, <1>3, <1>4, TransferStep

LEMMA CompleteStep ==
  ASSUME IInv, NEW r \in Reqs, Complete(r) PROVE IInv'
<1>1. /\ giving = r /\ giving' = None /\ int_in_busy' = (int_in_busy /\ r # "in") /\ fifo' = fifo
      /\ place' = [place EXCEPT ![r] = IF r # "in" /\ ep_on[r] /\ enabled THEN "queued" ELSE "idle"]
      /\ UNCHANGED <<FileVars, wr, enabled, config, alt, on, ep_on, todo>>
  BY DEF Complete
<1>2. /\ RequestInv /\ place \in [Reqs -> {"idle", "queued", "giving"}] /\ int_in_busy \in BOOLEAN
      /\ None \notin Reqs /\ DoerInv /\ "in" \in Reqs
  BY AudioFacts DEF IInv, Types, Reqs, None
<1>3. Idle("timer")
  BY <1>1, <1>2 DEF DoerInv
<1>4. /\ place' \in [Reqs -> {"idle", "queued", "giving"}]
      /\ \A g \in Funcs : enabled /\ ep_on[g] /\ place[g] # "idle" => place'[g] # "idle"
  BY <1>1, <1>2, AudioFacts
<1>5. int_in_busy' \in BOOLEAN /\ (int_in_busy' => int_in_busy /\ place'["in"] = place["in"])
  BY <1>1, <1>2
<1>6. RequestInv'
  <2>1. \A x \in Reqs : place'[x] = "giving" <=> giving' = x
    BY <1>1, <1>2 DEF RequestInv
  <2>2. \A g \in Funcs : place'[g] = "queued" => ep_on'[g]
    BY <1>1, <1>2, AudioFacts DEF RequestInv
  <2>3. place'["in"] = "queued" => place["in"] = "queued"
    BY <1>1, <1>2
  <2> QED BY <1>1, <1>2, <1>5, <2>1, <2>2, <2>3 DEF RequestInv
<1> QED BY <1>1, <1>3, <1>4, <1>5, <1>6, TransferStep

-----------------------------------------------------------------------------
(* The port is enabled on a pad whose functions are all off.               *)
LEMMA PortEnabledStep ==
  ASSUME IInv, PortEnabled PROVE IInv'
<1>1. /\ connected /\ ~enabled /\ Idle("link") /\ enabled' = TRUE
      /\ UNCHANGED <<FileVars, wr, UsbVars, giving, todo>>
  BY DEF PortEnabled
<1>2. /\ Types /\ SlotInv /\ DoerInv /\ UsbInv /\ AllClean /\ created
      /\ \A f \in Files : ~Downing(f)
  BY <1>1 DEF IInv, DoerInv, SlotInv
<1>3. AllIdle
  BY <1>1, <1>2 DEF DoerInv, AllIdle, Doers, Downing
<1>4. Types' /\ SlotInv' /\ SelectInv' /\ RequestInv'
  <2>1. Types' /\ SlotInv'
    BY <1>1, <1>2 DEF Types, SlotInv, FileVars, UsbVars, Owns, Downing, Writing
  <2>2. RequestInv'
    BY <1>1 DEF IInv, RequestInv, UsbVars
  <2> QED BY <1>1, <2>1, <2>2, SelectQuiet DEF UsbVars
<1>5. DoerInv'
  BY <1>1, <1>2 DEF DoerInv, FileVars, UsbVars, AllIdle, AllClean, Clean, Idle
<1>6. UsbInv'
  <2>1. ASSUME NEW d \in Doers PROVE StepInv(todo[d])'
    <3>1. todo[d].op = None /\ todo[d].f = None /\ ~todo[d].all
      BY <1>2, <1>3, NoDoer
    <3> QED BY <1>1, <3>1, AudioFacts DEF StepInv, None, Funcs
  <2>2. ASSUME NEW f \in Funcs PROVE FuncInv(f)'
    BY <1>1, <1>2 DEF FuncInv, AllClean, Clean, UsbVars
  <2> QED BY <2>1, <2>2 DEF UsbInv, StepInv, FuncInv
<1> QED BY <1>4, <1>5, <1>6 DEF IInv

(* The files.                                                              *)
LEMMA CreateStep ==
  ASSUME IInv, NEW f \in Files, Create(f) PROVE IInv'
<1>1. /\ ctl[f] = "idle" /\ ~private[f] /\ mutex = None /\ ~created
      /\ created' = TRUE /\ private' = [private EXCEPT ![f] = TRUE] /\ connected' = TRUE
      /\ UNCHANGED <<mutex, ctl, wr, enabled, UsbVars, todo, giving>>
  BY DEF Create
<1>2. Types /\ SlotInv /\ DoerInv /\ private \in [Files -> BOOLEAN]
  BY DEF IInv, Types
<1>3. /\ ~connected /\ ~enabled /\ AllIdle /\ AllClean /\ \A g \in Files : ~Owns(g) /\ ~Downing(g)
  BY <1>1, <1>2 DEF SlotInv, DoerInv, Downing
<1>4. Types'
  BY <1>1, <1>2 DEF Types, UsbVars
<1>5. SlotInv'
  BY <1>1, <1>2, <1>3 DEF SlotInv, Owns, Downing, Writing
<1>6. DoerInv'
  BY <1>1, <1>2, <1>3 DEF DoerInv, UsbVars, AllIdle, AllClean, Clean, Idle, Downing, Doers
<1>7. UsbInv' /\ SelectInv'
  BY <1>1, UsbQuiet, SelectQuiet DEF UsbVars
<1>8. RequestInv'
  BY <1>1 DEF IInv, RequestInv, UsbVars
<1> QED BY <1>4, <1>5, <1>6, <1>7, <1>8 DEF IInv

LEMMA DestroyStep ==
  ASSUME IInv, NEW f \in Files, Destroy(f) PROVE IInv'
<1>1. /\ ctl[f] = "idle" /\ private[f] /\ mutex = None /\ mutex' = f
      /\ ctl' = [ctl EXCEPT ![f] = "wait"] /\ connected' = FALSE /\ enabled' = FALSE
      /\ UNCHANGED <<created, private, wr, UsbVars, todo, giving>>
  BY DEF Destroy
<1>2. /\ Types /\ SlotInv /\ DoerInv /\ UsbInv /\ ctl \in [Files -> {"idle", "wait", "destroy", "forget"}]
      /\ None \notin Files /\ "writer" \notin Files
  BY GadgetAssumption DEF IInv, Types
<1>3. /\ created /\ \A g \in Files : ~Writing(g) /\ ~Downing(g)
  <2>1. None # "writer"
    BY DEF None
  <2> QED BY <1>1, <1>2, <2>1 DEF SlotInv, Owns
<1>4. Types'
  BY <1>1, <1>2 DEF Types, UsbVars
<1>5. SlotInv'
  BY <1>1, <1>2, <1>3 DEF SlotInv, Owns, Downing, Writing
<1>6. DoerInv'
  BY <1>1, <1>2, <1>3 DEF DoerInv, UsbVars, AllIdle, AllClean, Clean, Idle, Downing, Doers
<1>7. UsbInv'
  BY <1>1, <1>2 DEF UsbInv, StepInv, FuncInv, Mid, Clean, UsbVars
<1>8. SelectInv'
  BY <1>1, SelectQuiet DEF UsbVars
<1>9. RequestInv'
  BY <1>1 DEF IInv, RequestInv, UsbVars
<1> QED BY <1>4, <1>5, <1>6, <1>7, <1>8, <1>9 DEF IInv

LEMMA DestroyEndsStep ==
  ASSUME IInv, NEW f \in Files, DestroyEnds(f) \/ Forget(f) PROVE IInv'
<1>1. /\ UNCHANGED <<wr, connected, enabled, UsbVars, todo, giving>>
      /\ \/ /\ ctl[f] = "destroy" /\ Idle("core") /\ created' = FALSE /\ mutex' = None
            /\ ctl' = [ctl EXCEPT ![f] = "forget"] /\ private' = private
         \/ /\ ctl[f] = "forget" /\ ctl' = [ctl EXCEPT ![f] = "idle"]
            /\ private' = [private EXCEPT ![f] = FALSE] /\ UNCHANGED <<created, mutex>>
  BY DEF DestroyEnds, Forget
<1>2. /\ Types /\ SlotInv /\ DoerInv /\ ctl \in [Files -> {"idle", "wait", "destroy", "forget"}]
      /\ private \in [Files -> BOOLEAN] /\ None \notin Files /\ "writer" \notin Files
  BY GadgetAssumption DEF IInv, Types
<1>3. Types'
  BY <1>1, <1>2 DEF Types, UsbVars
<1>4. SlotInv'
  <2>1. CASE ctl[f] = "destroy"
    <3>1. /\ Downing(f) /\ Owns(f) /\ ~connected /\ mutex = f /\ created' = FALSE /\ mutex' = None
          /\ ctl' = [ctl EXCEPT ![f] = "forget"] /\ private' = private
      BY <1>1, <1>2, <2>1 DEF SlotInv, Downing, Owns
    <3>2. \A g \in Files : ~Writing(g) /\ (g # f => ~Downing(g) /\ ~Owns(g))
      BY <1>2, <3>1 DEF SlotInv
    <3> QED BY <1>1, <1>2, <3>1, <3>2 DEF SlotInv, Owns, Downing, Writing
  <2>2. CASE ctl[f] # "destroy"
    BY <1>1, <1>2, <2>2 DEF SlotInv, Owns, Downing, Writing
  <2> QED BY <2>1, <2>2
<1>5. DoerInv'
  <2>1. CASE ctl[f] = "destroy"
    <3>1. AllIdle /\ AllClean
      BY <1>1, <1>2, <2>1 DEF DoerInv, AllIdle, Doers
    <3> QED BY <1>1, <1>2, <2>1, <3>1 DEF DoerInv, UsbVars, AllIdle, AllClean, Clean, Idle, Doers
  <2>2. CASE ctl[f] # "destroy"
    BY <1>1, <1>2, <2>2 DEF DoerInv, UsbVars, AllIdle, AllClean, Clean, Idle, Doers
  <2> QED BY <2>1, <2>2
<1>6. UsbInv' /\ SelectInv'
  BY <1>1, UsbQuiet, SelectQuiet DEF UsbVars
<1>7. RequestInv'
  BY <1>1 DEF IInv, RequestInv, UsbVars
<1> QED BY <1>3, <1>4, <1>5, <1>6, <1>7 DEF IInv

-----------------------------------------------------------------------------
(* A write, under the slot's mutex but for the first check.                *)
LEMMA WriteSlot ==
  ASSUME SlotInv, Types, NEW f \in Files, NEW w \in {"idle", "checked", "test", "copy", "queue"},
         wr' = [wr EXCEPT ![f] = w], UNCHANGED <<created, private, ctl, connected, enabled>>,
         \/ ~Writing(f) /\ w \in {"idle", "checked"} /\ mutex' = mutex
         \/ ~Writing(f) /\ mutex = None /\ mutex' = "writer"
         \/ Writing(f) /\ w \in {"test", "copy", "queue"} /\ mutex' = mutex
         \/ Writing(f) /\ w = "idle" /\ mutex' = None
  PROVE  SlotInv'
<1>1. wr \in [Files -> {"idle", "checked", "test", "copy", "queue"}]
  BY DEF Types
<1>2. None \notin Files /\ "writer" \notin Files /\ None # "writer"
  BY GadgetAssumption DEF None
<1>3. /\ \A g \in Files : (Downing(g)' <=> Downing(g)) /\ (Owns(g)' <=> Owns(g))
      /\ \A g \in Files \ {f} : Writing(g)' <=> Writing(g)
      /\ Writing(f)' <=> w \in {"test", "copy", "queue"}
  BY <1>1 DEF Downing, Owns, Writing
<1>4. \A g \in Files : Downing(g)' => mutex' = g /\ ~connected' /\ created'
  BY <1>2, <1>3 DEF SlotInv
<1>5. \A g \in Files : Writing(g)' => mutex' = "writer"
  BY <1>2, <1>3 DEF SlotInv
<1>6. \A g, h \in Files : Writing(g)' /\ Writing(h)' => g = h
  BY <1>2, <1>3 DEF SlotInv
<1> QED BY <1>3, <1>4, <1>5, <1>6 DEF SlotInv

LEMMA WriteStep ==
  ASSUME IInv, NEW f \in Files, NEW w \in {"idle", "checked", "test", "copy", "queue"},
         wr' = [wr EXCEPT ![f] = w],
         UNCHANGED <<created, private, ctl, connected, enabled, config, alt, on, ep_on, todo, giving>>,
         \/ ~Writing(f) /\ w \in {"idle", "checked"} /\ mutex' = mutex
         \/ ~Writing(f) /\ mutex = None /\ mutex' = "writer"
         \/ Writing(f) /\ w \in {"test", "copy", "queue"} /\ mutex' = mutex
         \/ Writing(f) /\ w = "idle" /\ mutex' = None,
         place' \in [Reqs -> {"idle", "queued", "giving"}], \A g \in Funcs : place'[g] = place[g],
         int_in_busy' \in BOOLEAN, RequestInv'
  PROVE  IInv'
<1>1. SlotInv'
  BY WriteSlot DEF IInv
<1>2. UsbInv' /\ DoerInv' /\ SelectInv'
  BY UsbQuiet, DoerQuiet, SelectQuiet
<1>3. Types'
  BY DEF IInv, Types
<1> QED BY <1>1, <1>2, <1>3 DEF IInv

(* Before the request is queued nothing is set but int_in_busy, and the    *)
(* writer that sets it is the one to queue.                                *)
LEMMA WriteBeginsStep ==
  ASSUME IInv, NEW f \in Files,
         WriteCheck(f) \/ (\E v \in Inputs : WriteStore(f, v)) \/ WriteTest(f) \/ WriteCopy(f)
  PROVE  IInv'
<1>1. /\ RequestInv /\ wr \in [Files -> {"idle", "checked", "test", "copy", "queue"}]
      /\ place \in [Reqs -> {"idle", "queued", "giving"}] /\ int_in_busy \in BOOLEAN
  BY DEF IInv, Types
<1>2. PICK w \in {"idle", "checked", "test", "copy", "queue"} :
        /\ wr' = [wr EXCEPT ![f] = w] /\ wr[f] # "queue"
        /\ \/ ~Writing(f) /\ w \in {"idle", "checked"} /\ mutex' = mutex
           \/ ~Writing(f) /\ mutex = None /\ mutex' = "writer"
           \/ Writing(f) /\ w \in {"test", "copy", "queue"} /\ mutex' = mutex
           \/ Writing(f) /\ w = "idle" /\ mutex' = None
        /\ int_in_busy' = int_in_busy \/ (int_in_busy' = TRUE /\ w = "queue")
        /\ UNCHANGED <<created, private, ctl, connected, enabled, config, alt, on, ep_on, todo, giving,
                       place, fifo>>
  <2>1. CASE WriteCheck(f)
    BY <2>1 DEF WriteCheck, FileVars, UsbVars, Writing
  <2>2. CASE \E v \in Inputs : WriteStore(f, v)
    BY <2>2 DEF WriteStore, UsbVars, Writing
  <2>3. CASE WriteTest(f)
    BY <2>3 DEF WriteTest, UsbVars, Writing
  <2>4. CASE WriteCopy(f)
    BY <2>4 DEF WriteCopy, FileVars, Writing
  <2> QED BY <2>1, <2>2, <2>3, <2>4
<1>3. RequestInv'
  <2>1. int_in_busy' => place'["in"] # "idle" \/ \E g \in Files : wr'[g] = "queue"
    BY <1>1, <1>2 DEF RequestInv
  <2> QED BY <1>1, <1>2, <2>1 DEF RequestInv
<1> QED BY <1>1, <1>2, <1>3, WriteStep

LEMMA WriteEndsStep ==
  ASSUME IInv, NEW f \in Files, WriteQueue(f) \/ WriteFails(f)
  PROVE  IInv'
<1>1. /\ RequestInv /\ wr \in [Files -> {"idle", "checked", "test", "copy", "queue"}]
      /\ place \in [Reqs -> {"idle", "queued", "giving"}] /\ int_in_busy \in BOOLEAN
      /\ "in" \in Reqs
  BY DEF IInv, Types, Reqs
<1>2. /\ wr[f] = "queue" /\ wr' = [wr EXCEPT ![f] = "idle"] /\ mutex' = None
      /\ UNCHANGED <<created, private, ctl, connected, enabled, config, alt, on, ep_on, todo, giving>>
      /\ \/ int_in_busy' = FALSE /\ place' = place /\ fifo' = fifo
         \/ int_in_busy' = FALSE /\ place' = place /\ ep_on["hid"]
         \/ /\ ep_on["hid"] /\ place["in"] = "idle" /\ fifo' = fifo /\ int_in_busy' = int_in_busy
            /\ place' = [place EXCEPT !["in"] = "queued"]
  BY DEF WriteQueue, WriteFails
<1>3. /\ place' \in [Reqs -> {"idle", "queued", "giving"}] /\ \A g \in Funcs : place'[g] = place[g]
      /\ int_in_busy' \in BOOLEAN
  BY <1>1, <1>2, AudioFacts
<1>4. RequestInv'
  <2>1. \A r \in Reqs : place'[r] = "giving" <=> giving' = r
    BY <1>1, <1>2 DEF RequestInv
  <2>2. ~ep_on'["hid"] => fifo' = None /\ place'["in"] # "queued"
    BY <1>1, <1>2 DEF RequestInv
  <2>3. int_in_busy' => place'["in"] # "idle"
    BY <1>1, <1>2
  <2> QED BY <1>1, <1>2, <1>3, <2>1, <2>2, <2>3 DEF RequestInv
<1>5. Writing(f)
  BY <1>2 DEF Writing
<1> QED BY <1>2, <1>3, <1>4, <1>5, WriteStep

(* What the rest leaves alone: a read of events, or nothing.               *)
LEMMA QuietStep ==
  ASSUME IInv, UNCHANGED <<FileVars, wr, enabled, UsbVars, giving, todo>> PROVE IInv'
<1>1. /\ UNCHANGED <<FileVars, wr, enabled, config, alt, on, ep_on, todo, place, giving, fifo, int_in_busy>>
      /\ Types /\ RequestInv
  BY DEF IInv, UsbVars
<1>2. RequestInv'
  BY <1>1 DEF RequestInv
<1> QED BY <1>1, <1>2, TransferStep DEF Types

-----------------------------------------------------------------------------
LEMMA InitInv == Init => IInv
<1> SUFFICES ASSUME Init PROVE IInv
  OBVIOUS
<1>1. \A d \in Doers : todo[d] = Resting /\ Idle(d)
  BY RestingFacts DEF Init, Idle
<1>2. Types
  BY <1>1, RestingFacts DEF Init, Types
<1>3. SlotInv
  BY DEF Init, SlotInv, Owns, Downing, Writing
<1>4. AllIdle /\ AllClean
  BY <1>1 DEF Init, AllIdle, AllClean, Clean
<1>5. DoerInv
  BY <1>1, <1>4 DEF Init, DoerInv, AllIdle, Doers
<1>6. UsbInv
  <2>1. ASSUME NEW d \in Doers PROVE StepInv(todo[d])
    BY <1>1, RestingFacts, AudioFacts DEF StepInv, None, Funcs
  <2>2. ASSUME NEW f \in Funcs PROVE FuncInv(f)
    BY <1>4 DEF FuncInv, AllClean, Clean
  <2> QED BY <2>1, <2>2 DEF UsbInv
<1>7. SelectInv
  <2>1. todo["timer"].op \notin EnableOps
    BY <1>1, RestingFacts DEF Doers, EnableOps, None
  <2> QED BY <1>4, <2>1 DEF SelectInv, AllClean, Clean
<1>8. RequestInv
  <2>1. None \notin Reqs /\ "in" \in Reqs /\ Funcs \subseteq Reqs /\ "hid" \in Funcs
    BY AudioFacts DEF Reqs, Funcs, None
  <2> QED BY <2>1 DEF Init, RequestInv
<1> QED BY <1>2, <1>3, <1>5, <1>6, <1>7, <1>8 DEF IInv

LEMMA NextStep ==
  ASSUME IInv, [Next]_vars PROVE IInv'
<1>1. CASE UNCHANGED vars
  BY <1>1, QuietStep DEF vars, FileVars, UsbVars
<1>2. ASSUME NEW f \in Files, Create(f) \/ Destroy(f) PROVE IInv'
  BY <1>2, CreateStep, DestroyStep
<1>3. ASSUME NEW f \in Files, Destroying(f) PROVE IInv'
  BY <1>3, DestroyDisconnectStep, DestroyEndsStep DEF Destroying
<1>4. ASSUME NEW f \in Files, Write(f) PROVE IInv'
  BY <1>4, WriteBeginsStep, WriteEndsStep DEF Write
<1>5. ASSUME NEW f \in Files, Read(f) PROVE IInv'
  BY <1>5, QuietStep DEF Read
<1>6. CASE PortEnabled \/ BusReset \/ HostReads
  BY <1>6, PortEnabledStep, BusResetStep, HostReadsStep
<1>7. ASSUME NEW value \in BOOLEAN, SetConfiguration(value) \/ \E g \in Audio : SetInterface(g, value)
      PROVE  IInv'
  BY <1>7, SetConfigurationStep, SetInterfaceStep
<1>8. CASE \/ \E f \in Funcs : HostTransfers(f)
           \/ \E r \in Reqs : Complete(r)
           \/ \E d \in Doers : DoStep(d)
  BY <1>8, HostTransfersStep, CompleteStep, DoStepStep
<1> QED BY <1>1, <1>2, <1>3, <1>4, <1>5, <1>6, <1>7, <1>8 DEF Next

LEMMA InvAlways == Spec => []IInv
<1>1. IInv /\ [Next]_vars => IInv'
  BY NextStep
<1> QED BY InitInv, <1>1, PTL DEF Spec

-----------------------------------------------------------------------------
LEMMA RestFacts ==
  ASSUME IInv, AtRest
  PROVE  /\ giving = None /\ \A r \in Reqs : place[r] # "giving"
         /\ AllIdle /\ \A f \in Funcs : ~Mid(f) /\ \A d \in Doers : ~Disabled(f, todo[d])
<1>1. Types /\ RequestInv /\ giving = None /\ AllIdle
  BY DEF IInv, AtRest, AllIdle, Types
<1>2. \A r \in Reqs : place[r] # "giving"
  BY <1>1, AudioFacts DEF RequestInv, Reqs, None
<1> QED BY <1>1, <1>2, NoDoer, AudioFacts DEF Disabled

(* The pad never falls mute or deaf.  The writer sets int_in_busy before   *)
(* it queues req_int_in and a completion, a failed queue or the end of     *)
(* ds5_disable_hid clears it, so a set flag always has its request on the  *)
(* way; and the functions the timer enables while a reset or a destroy     *)
(* takes them down end with their request queued or with the function off. *)
THEOREM PadListens == Spec => []Listens
<1>1. ASSUME IInv PROVE Listens
  <2>1. /\ Types /\ UsbInv /\ RequestInv /\ place \in [Reqs -> {"idle", "queued", "giving"}]
        /\ DOMAIN wr = Files /\ DOMAIN on = Funcs /\ Funcs \subseteq Reqs
    BY <1>1, AudioFacts DEF IInv, Types
  <2>2. int_in_busy => place["in"] # "idle" \/ \E f \in DOMAIN wr : wr[f] = "queue"
    BY <2>1 DEF RequestInv
  <2>3. ASSUME AtRest, NEW f \in DOMAIN on, on[f]
        PROVE  ep_on[f] /\ (enabled => place[f] = "queued")
    <3>1. place[f] # "giving" /\ ~Mid(f)
      BY <1>1, <2>1, <2>3, RestFacts
    <3>2. ep_on[f] /\ (enabled => place[f] # "idle")
      BY <2>1, <2>3, <3>1 DEF UsbInv, FuncInv
    <3> QED BY <2>1, <2>3, <3>1, <3>2
  <2> QED BY <2>2, <2>3 DEF Listens
<1> QED BY InvAlways, <1>1, PTL

(* A slot does what was asked of it.  CREATE gives it to one file, and a   *)
(* file that destroys it, or is closed, keeps it until usb_gadget_         *)
(* disconnect has called ds5_disconnect, which turns off every function    *)
(* and leaves the controller none of its requests.                         *)
THEOREM DestroyedIsQuiet == Spec => []DestroyedQuiet
<1>1. ASSUME IInv PROVE DestroyedQuiet
  <2>1. /\ Types /\ SlotInv /\ DoerInv /\ SelectInv /\ RequestInv
        /\ place \in [Reqs -> {"idle", "queued", "giving"}] /\ DOMAIN place = Reqs
        /\ DOMAIN private = Files /\ DOMAIN on = Funcs /\ private \in [Files -> BOOLEAN]
    BY <1>1 DEF IInv, Types
  <2>2. created => Cardinality({f \in DOMAIN private : private[f] /\ ctl[f] # "forget"}) = 1
    <3> SUFFICES ASSUME created
                 PROVE  Cardinality({f \in Files : private[f] /\ ctl[f] # "forget"}) = 1
      BY <2>1
    <3>1. PICK f \in Files : Owns(f) /\ \A g \in Files : Owns(g) => g = f
      BY <2>1 DEF SlotInv
    <3>2. {g \in Files : private[g] /\ ctl[g] # "forget"} = {f}
      BY <3>1 DEF Owns
    <3> QED BY <3>2, FS_Singleton
  <2>3. ~created => \A f \in DOMAIN private : private[f] => ctl[f] = "forget"
    BY <2>1 DEF SlotInv, Owns
  <2>4. AtRest => \A f \in DOMAIN on : on[f] => Selected(f)
    BY <1>1, <2>1, RestFacts DEF SelectInv
  <2>5. ASSUME ~created, AtRest
        PROVE  /\ \A f \in DOMAIN on : ~on[f] /\ ~ep_on[f]
               /\ \A r \in DOMAIN place : place[r] = "idle"
               /\ fifo = None
    <3>1. \A f \in Funcs : ~on[f] /\ ~ep_on[f]
      BY <2>1, <2>5 DEF DoerInv, AllClean, Clean
    <3>2. "hid" \in Funcs /\ Reqs = {"in"} \cup Funcs
      BY DEF Funcs, Reqs
    <3>3. \A r \in Reqs : place[r] # "queued"
      BY <2>1, <3>1, <3>2 DEF RequestInv
    <3>4. \A r \in Reqs : place[r] # "giving"
      BY <1>1, <2>5, RestFacts
    <3> QED BY <2>1, <3>1, <3>2, <3>3, <3>4 DEF RequestInv
  <2> QED BY <2>2, <2>3, <2>4, <2>5 DEF DestroyedQuiet, Selected
<1> QED BY InvAlways, <1>1, PTL

-----------------------------------------------------------------------------
(* What IInv does not say of the variables.                                *)
Rest ==
  /\ mutex \in Files \cup {None, "writer"}
  /\ {fifo, input, buf, host} \subseteq Inputs \cup {None}
  /\ events \in 0 .. EventFifo /\ creates \in 0 .. MaxCreates /\ resets \in 0 .. MaxResets

LEMMA RestInit == Init => Rest
BY GadgetAssumption DEF Init, Rest

LEMMA CallbackRest ==
  ASSUME Rest, NEW d \in Doers, DoStep(d) PROVE Rest'
<1>1. UNCHANGED <<mutex, input, buf, host, events, creates, resets>>
  BY DEF DoStep, FileVars
<1>2. fifo' \in {fifo, None}
  BY DEF DoStep, EnableStep, EnableEndpoint, EnableQueue, EnableDone, DisableStep
<1> QED BY <1>1, <1>2 DEF Rest

LEMMA FileRest ==
  ASSUME Rest, NEW f \in Files, Create(f) \/ Destroy(f) \/ Destroying(f) \/ Read(f) PROVE Rest'
<1>1. CASE Create(f)
  BY <1>1, GadgetAssumption DEF Create, Rest, UsbVars
<1>2. CASE Destroy(f)
  BY <1>2 DEF Destroy, Rest, UsbVars
<1>3. CASE Destroying(f)
  BY <1>3 DEF Destroying, DestroyDisconnect, DestroyEnds, Forget, Rest, UsbVars
<1>4. CASE Read(f)
  BY <1>4, GadgetAssumption DEF Read, Rest, UsbVars, FileVars
<1> QED BY <1>1, <1>2, <1>3, <1>4

LEMMA WriteRest ==
  ASSUME Rest, NEW f \in Files, Write(f) PROVE Rest'
<1>1. CASE WriteCheck(f) \/ WriteTest(f)
  BY <1>1 DEF WriteCheck, WriteTest, Rest, UsbVars, FileVars
<1>2. ASSUME NEW v \in Inputs, WriteStore(f, v) PROVE Rest'
  BY <1>2 DEF WriteStore, Rest, UsbVars
<1>3. CASE WriteCopy(f)
  BY <1>3 DEF WriteCopy, Rest, FileVars
<1>4. CASE WriteQueue(f) \/ WriteFails(f)
  <2>1. fifo' \in {fifo, buf}
    BY <1>4 DEF WriteQueue, WriteFails
  <2> QED BY <1>4, <2>1 DEF WriteQueue, WriteFails, Rest
<1> QED BY <1>1, <1>2, <1>3, <1>4 DEF Write

LEMMA BusRest ==
  ASSUME Rest,
         \/ PortEnabled \/ BusReset \/ HostReads
         \/ \E value \in BOOLEAN : SetConfiguration(value) \/ \E g \in Audio : SetInterface(g, value)
         \/ \E f \in Funcs : HostTransfers(f)
         \/ \E r \in Reqs : Complete(r)
  PROVE  Rest'
<1>1. CASE BusReset
  BY <1>1, GadgetAssumption DEF BusReset, Rest, FileVars
<1>2. CASE HostReads
  BY <1>2 DEF HostReads, Rest, FileVars
<1>3. CASE PortEnabled
  BY <1>3 DEF PortEnabled, Rest, FileVars, UsbVars
<1>4. CASE \E value \in BOOLEAN : SetConfiguration(value) \/ \E g \in Audio : SetInterface(g, value)
  BY <1>4 DEF SetConfiguration, SetInterface, Rest, FileVars
<1>5. CASE \E f \in Funcs : HostTransfers(f)
  BY <1>5 DEF HostTransfers, Rest, FileVars
<1>6. ASSUME NEW r \in Reqs, Complete(r) PROVE Rest'
  BY <1>6, GadgetAssumption DEF Complete, PushEvent, Rest, FileVars
<1> QED BY <1>1, <1>2, <1>3, <1>4, <1>5, <1>6

(* Every variable keeps its type, and with it the order of the controller  *)
(* and of ds5_push_event: the port is enabled only while the device is     *)
(* pulled up, a request is queued only on an enabled endpoint, and the     *)
(* event fifo is never overfilled.                                         *)
THEOREM GadgetTypeCorrect == Spec => []TypeOK
<1>1. ASSUME Rest, [Next]_vars PROVE Rest'
  <2>1. CASE UNCHANGED vars
    BY <1>1, <2>1 DEF vars, Rest
  <2>2. CASE \E f \in Files : Create(f) \/ Destroy(f) \/ Destroying(f) \/ Write(f) \/ Read(f)
    BY <1>1, <2>2, FileRest, WriteRest
  <2>3. CASE \E d \in Doers : DoStep(d)
    BY <1>1, <2>3, CallbackRest
  <2> QED BY <1>1, <2>1, <2>2, <2>3, BusRest DEF Next
<1>2. IInv /\ Rest => TypeOK
  BY DEF IInv, Types, SlotInv, RequestInv, Rest, TypeOK
<1> QED BY InvAlways, RestInit, <1>1, <1>2, PTL DEF Spec

-----------------------------------------------------------------------------
(* Loading and unloading the module (Ds5Module).                           *)

(* Stages at which every unit is whole, and at which they are taken apart. *)
Whole == pc \in {"gadget", "misc", "loaded", "err_gadget", "unregister"}
Exiting == pc \in {"udc_exit", "exit_hcd", "exit_free"}

(* The units whose devices are held, and added, at this turn of the loop.  *)
HcdHeld(u) ==
  /\ u \in Units
  /\ \/ pc \in {"alloc_udc", "put_udc_done", "data", "register", "add_hcd", "check_hcd",
                "add_udc", "check_udc", "del_hcd_done", "del_udc_done", "err_probe_udc",
                "err_add_udc", "err_add_hcd", "err_register_udc_driver", "err_free",
                "err_put_udc"}
     \/ Whole
     \/ pc = "alloc_hcd" /\ u < i
     \/ pc = "put_hcd_done" /\ u <= i
     \/ pc \in {"err_alloc_udc", "udc_exit", "exit_hcd"} /\ i <= u
     \/ pc = "exit_free" /\ i < u

HcdAdded(u) ==
  /\ u \in Units
  /\ \/ pc \in {"check_hcd", "add_udc", "check_udc", "del_udc_done", "err_probe_udc"}
     \/ Whole
     \/ pc = "add_hcd" /\ u < i
     \/ pc = "del_hcd_done" /\ u <= i
     \/ pc \in {"err_add_udc", "udc_exit", "exit_hcd"} /\ i <= u
     \/ pc = "exit_free" /\ i < u

UdcHeld(u) ==
  /\ u \in Units
  /\ \/ pc \in {"data", "register", "add_hcd", "check_hcd", "add_udc", "check_udc",
                "del_hcd_done", "del_udc_done", "err_probe_udc", "err_add_udc",
                "err_add_hcd", "err_register_udc_driver", "err_free"}
     \/ Whole
     \/ pc = "alloc_udc" /\ u < i
     \/ pc = "put_udc_done" /\ u <= i
     \/ pc \in {"err_put_udc", "udc_exit"} /\ i <= u
     \/ pc \in {"exit_hcd", "exit_free"} /\ i < u

UdcAdded(u) ==
  /\ u \in Units
  /\ \/ pc = "check_udc" \/ Whole
     \/ pc = "add_udc" /\ u < i
     \/ pc = "del_udc_done" /\ u <= i
     \/ pc \in {"err_probe_udc", "udc_exit"} /\ i <= u
     \/ pc \in {"exit_hcd", "exit_free"} /\ i < u

(* The units whose controllers a check found to be there.                  *)
HcdFound(u) ==
  /\ u \in Units
  /\ \/ pc \in {"add_udc", "check_udc", "del_udc_done", "err_probe_udc"} \/ Whole
     \/ pc = "check_hcd" /\ u < i
     \/ pc \in {"udc_exit", "exit_hcd"} /\ i <= u
     \/ pc = "exit_free" /\ i < u

UdcFound(u) ==
  /\ u \in Units
  /\ \/ Whole
     \/ pc = "check_udc" /\ u < i
     \/ pc = "udc_exit" /\ i <= u
     \/ pc \in {"exit_hcd", "exit_free"} /\ i < u

(* The units that have their memory, and those whose memory was given back.*)
DataHeld(u) ==
  /\ u \in Units
  /\ \/ pc \in {"register", "add_hcd", "check_hcd", "add_udc", "check_udc", "del_hcd_done",
                "del_udc_done", "err_probe_udc", "err_add_udc", "err_add_hcd",
                "err_register_udc_driver"}
     \/ Whole
     \/ pc = "data" /\ u < i
     \/ Exiting /\ i <= u

DataFreed(u) ==
  \/ pc = "out"
  \/ /\ u \in Units
     /\ \/ pc \in {"err_put_udc", "err_alloc_udc", "put_hcd_done", "put_udc_done"}
        \/ (pc = "err_free" \/ Exiting) /\ u < i

(* The index of each loop.                                               *)
Turns ==
  /\ pc \in {"alloc_hcd", "alloc_udc", "data", "add_hcd", "check_hcd", "add_udc", "check_udc",
             "err_probe_udc", "err_add_udc", "err_free", "err_put_udc", "err_alloc_udc",
             "udc_exit"} => i \in 0 .. num
  /\ pc \in {"put_hcd_done", "put_udc_done", "del_hcd_done", "del_udc_done"} =>
       i \in -1 .. num - 1
  /\ pc \in {"exit_hcd", "exit_free"} => i \in 0 .. num - 1
  /\ pc \in {"gadget", "unregister"} => i \in 0 .. Slots
  /\ pc = "err_gadget" => i \in -1 .. Slots - 1
  /\ pc \in {"register", "err_add_hcd", "err_register_udc_driver", "misc", "loaded", "out"} =>
       i = 0

(* What is held is what the loops so far took and did not give back, and   *)
(* what a check found is still there.                                      *)
HcdHolds ==
  \A u \in AllUnits :
    /\ hcd[u] = IF HcdAdded(u) THEN "added" ELSE IF HcdHeld(u) THEN "alloc" ELSE "none"
    /\ hs[u] \/ ss[u] => HcdAdded(u)
    /\ HcdFound(u) => hs[u] /\ (super => ss[u])

UdcHolds ==
  \A u \in AllUnits :
    /\ udc[u] = IF UdcAdded(u) THEN "added" ELSE IF UdcHeld(u) THEN "alloc" ELSE "none"
    /\ drvdata[u] => UdcAdded(u)
    /\ UdcFound(u) => drvdata[u]

Memory ==
  \A u \in AllUnits :
    /\ DataHeld(u) => dum[u] = "live"
    /\ dum[u] = "freed" => DataFreed(u)
    /\ dum[u] = "live" => DataHeld(u) \/ (pc = "err_free" /\ u \in Units /\ i <= u)

Drivers ==
  drivers =
    IF \/ pc \in {"add_hcd", "check_hcd", "add_udc", "check_udc", "del_hcd_done",
                  "del_udc_done", "err_probe_udc", "err_add_udc", "err_add_hcd"}
       \/ Whole \/ Exiting
    THEN {"hcd", "udc"}
    ELSE IF pc = "err_register_udc_driver" THEN {"hcd"} ELSE {}

(* The gadget drivers registered, each bound to the slot of its number.    *)
Registered(s) ==
  \/ pc = "gadget" /\ s < i
  \/ pc = "err_gadget" /\ s <= i
  \/ pc = "unregister" /\ i <= s
  \/ pc \in {"misc", "loaded"}

Bound ==
  /\ \A s \in SlotIds : s \in gdrivers <=> Registered(s)
  /\ \A s \in gdrivers : s \in Units
  /\ misc <=> pc = "loaded"
  /\ pc \in {"alloc_hcd", "alloc_udc", "data", "register", "add_hcd", "check_hcd", "add_udc",
             "check_udc"} => \A s \in SlotIds : slot[s] = NoUnit
  /\ pc = "gadget" => \A s \in SlotIds : slot[s] = IF s < i THEN s ELSE NoUnit
  /\ pc \in {"misc", "loaded"} => \A s \in SlotIds : slot[s] = s

LoadInv == ModuleTypeOK /\ Turns /\ HcdHolds /\ UdcHolds /\ Memory /\ Drivers /\ Bound /\ ~fault

LEMMA ModuleInitInv == ASSUME ModuleInit PROVE LoadInv
<1> USE ModuleAssumption DEF ModuleInit, Units, AllUnits, SlotIds
<1>1. ModuleTypeOK
  <2>1. i \in -1 .. MaxNum + Slots /\ pc \in Stages
    BY DEF Stages
  <2>2. slot \in [SlotIds -> AllUnits \cup {NoUnit}] /\ gdrivers \subseteq SlotIds
    BY DEF NoUnit
  <2>3. drivers \subseteq {"hcd", "udc"} /\ dum \in [AllUnits -> {"none", "live", "freed"}]
    OBVIOUS
  <2> QED BY <2>1, <2>2, <2>3 DEF ModuleTypeOK
<1>2. Turns
  BY DEF Turns
<1>3. HcdHolds
  BY DEF HcdHolds, HcdAdded, HcdHeld, HcdFound, Whole
<1>4. UdcHolds
  BY DEF UdcHolds, UdcAdded, UdcHeld, UdcFound, Whole
<1>5. Memory
  BY DEF Memory, DataHeld, DataFreed, Whole, Exiting
<1>6. Drivers
  BY DEF Drivers, Whole, Exiting
<1>7. Bound
  BY DEF Bound, Registered
<1>8. ~fault
  OBVIOUS
<1> QED BY <1>1, <1>2, <1>3, <1>4, <1>5, <1>6, <1>7, <1>8 DEF LoadInv

(* ds5_bind takes the slot of the number of the unit.                      *)
LEMMA FirstFree ==
  ASSUME LoadInv, pc = "gadget", FreeSlots # {}
  PROVE  First = i /\ i \in SlotIds
<1>1. i \in 0 .. Slots /\ Slots \in Nat /\ FreeSlots = {s \in SlotIds : i <= s}
  BY ModuleAssumption DEF LoadInv, Turns, Bound, FreeSlots, SlotIds, NoUnit
<1>2. i \in FreeSlots /\ \A t \in FreeSlots : i <= t
  BY <1>1 DEF SlotIds
<1>3. First \in FreeSlots /\ \A t \in FreeSlots : First <= t
  BY <1>2 DEF First
<1>4. First \in Int /\ First <= i /\ i <= First
  BY <1>1, <1>2, <1>3 DEF SlotIds
<1> QED BY <1>1, <1>2, <1>4

-----------------------------------------------------------------------------
(* One lemma for each action.                                              *)
LEMMA LoadStep == ASSUME LoadInv, Load PROVE LoadInv'
<1> USE ModuleAssumption DEF LoadInv, ModuleTypeOK, Load, Goto, Devices, Probed
<1>1. ModuleTypeOK'
  BY DEF Turns, Stages, AllUnits, SlotIds, NoUnit
<1>2. Turns'
  BY DEF Turns, Units
<1>3. HcdHolds'
  <2>1. \A u \in AllUnits : hcd[u] = "none" /\ ~hs[u] /\ ~ss[u]
    BY DEF HcdHolds, HcdAdded, HcdHeld, Whole
  <2>2. \A u \in AllUnits : ~HcdAdded(u)' /\ ~HcdHeld(u)' /\ ~HcdFound(u)'
    BY DEF HcdAdded, HcdHeld, HcdFound, Whole, AllUnits
  <2> QED BY <2>1, <2>2 DEF HcdHolds
<1>4. UdcHolds'
  BY DEF Turns, UdcHolds, UdcAdded, UdcHeld, UdcFound, Whole, Units, AllUnits
<1>5. Memory'
  BY DEF Turns, Memory, DataHeld, DataFreed, Whole, Exiting, Units, AllUnits
<1>6. Drivers'
  BY DEF Drivers, Whole, Exiting
<1>7. Bound'
  BY DEF Turns, Bound, Registered, Units, SlotIds, NoUnit
<1>8. ~fault'
  OBVIOUS
<1> QED BY <1>1, <1>2, <1>3, <1>4, <1>5, <1>6, <1>7, <1>8 DEF LoadInv

LEMMA AllocHcdStep == ASSUME LoadInv, AllocHcd, UNCHANGED <<num, super>> PROVE LoadInv'
<1> USE ModuleAssumption DEF LoadInv, ModuleTypeOK, AllocHcd, At, Again, BackFrom, Set, Probed,
                             Gadgets
<1>1. ModuleTypeOK'
  BY DEF Turns, Stages, AllUnits, SlotIds, NoUnit
<1>2. Turns'
  BY DEF Turns, Units
<1>3. HcdHolds'
  BY DEF Turns, HcdHolds, HcdAdded, HcdHeld, HcdFound, Whole, Units, AllUnits
<1>4. UdcHolds'
  BY DEF Turns, UdcHolds, UdcAdded, UdcHeld, UdcFound, Whole, Units, AllUnits
<1>5. Memory'
  BY DEF Turns, Memory, DataHeld, DataFreed, Whole, Exiting, Units, AllUnits
<1>6. Drivers'
  BY DEF Drivers, Whole, Exiting
<1>7. Bound'
  BY DEF Turns, Bound, Registered, Units, SlotIds, NoUnit
<1>8. ~fault'
  OBVIOUS
<1> QED BY <1>1, <1>2, <1>3, <1>4, <1>5, <1>6, <1>7, <1>8 DEF LoadInv

LEMMA AllocUdcStep == ASSUME LoadInv, AllocUdc, UNCHANGED <<num, super>> PROVE LoadInv'
<1> USE ModuleAssumption DEF LoadInv, ModuleTypeOK, AllocUdc, At, Again, BackFrom, Set, Probed,
                             Gadgets
<1>1. ModuleTypeOK'
  BY DEF Turns, Stages, AllUnits, SlotIds, NoUnit
<1>2. Turns'
  BY DEF Turns, Units
<1>3. HcdHolds'
  BY DEF Turns, HcdHolds, HcdAdded, HcdHeld, HcdFound, Whole, Units, AllUnits
<1>4. UdcHolds'
  BY DEF Turns, UdcHolds, UdcAdded, UdcHeld, UdcFound, Whole, Units, AllUnits
<1>5. Memory'
  BY DEF Turns, Memory, DataHeld, DataFreed, Whole, Exiting, Units, AllUnits
<1>6. Drivers'
  BY DEF Drivers, Whole, Exiting
<1>7. Bound'
  BY DEF Turns, Bound, Registered, Units, SlotIds, NoUnit
<1>8. ~fault'
  OBVIOUS
<1> QED BY <1>1, <1>2, <1>3, <1>4, <1>5, <1>6, <1>7, <1>8 DEF LoadInv

LEMMA AddDataStep == ASSUME LoadInv, AddData, UNCHANGED <<num, super>> PROVE LoadInv'
<1> USE ModuleAssumption DEF LoadInv, ModuleTypeOK, AddData, At, Goto, Again, Set, Devices, Probed,
                             Gadgets
<1>1. ModuleTypeOK'
  BY DEF Turns, Stages, AllUnits, SlotIds, NoUnit
<1>2. Turns'
  BY DEF Turns, Units
<1>3. HcdHolds'
  BY DEF Turns, HcdHolds, HcdAdded, HcdHeld, HcdFound, Whole, Units, AllUnits
<1>4. UdcHolds'
  BY DEF Turns, UdcHolds, UdcAdded, UdcHeld, UdcFound, Whole, Units, AllUnits
<1>5. Memory'
  BY DEF Turns, Memory, DataHeld, DataFreed, Whole, Exiting, Units, AllUnits
<1>6. Drivers'
  BY DEF Drivers, Whole, Exiting
<1>7. Bound'
  BY DEF Turns, Bound, Registered, Units, SlotIds, NoUnit
<1>8. ~fault'
  OBVIOUS
<1> QED BY <1>1, <1>2, <1>3, <1>4, <1>5, <1>6, <1>7, <1>8 DEF LoadInv

LEMMA RegisterDriversStep == ASSUME LoadInv, RegisterDrivers, UNCHANGED <<num, super>> PROVE LoadInv'
<1> USE ModuleAssumption DEF LoadInv, ModuleTypeOK, RegisterDrivers, Goto, Devices, Probed, Gadgets
<1>1. ModuleTypeOK'
  BY DEF Turns, Stages, AllUnits, SlotIds, NoUnit
<1>2. Turns'
  BY DEF Turns, Units
<1>3. HcdHolds'
  BY DEF Turns, HcdHolds, HcdAdded, HcdHeld, HcdFound, Whole, Units, AllUnits
<1>4. UdcHolds'
  BY DEF Turns, UdcHolds, UdcAdded, UdcHeld, UdcFound, Whole, Units, AllUnits
<1>5. Memory'
  BY DEF Turns, Memory, DataHeld, DataFreed, Whole, Exiting, Units, AllUnits
<1>6. Drivers'
  BY DEF Drivers, Whole, Exiting
<1>7. Bound'
  BY DEF Turns, Bound, Registered, Units, SlotIds, NoUnit
<1>8. ~fault'
  OBVIOUS
<1> QED BY <1>1, <1>2, <1>3, <1>4, <1>5, <1>6, <1>7, <1>8 DEF LoadInv

LEMMA AddHcdStep == ASSUME LoadInv, AddHcd, UNCHANGED <<num, super>> PROVE LoadInv'
<1> USE ModuleAssumption DEF LoadInv, ModuleTypeOK, AddHcd, At, Again, BackFrom, Set, Probe, Gadgets
<1>1. ModuleTypeOK'
  <2>1. i' \in -1 .. MaxNum + Slots /\ pc' \in Stages
    BY DEF Turns, Stages, AllUnits
  <2>2. hs' \in [AllUnits -> BOOLEAN] /\ ss' \in [AllUnits -> BOOLEAN]
    OBVIOUS
  <2>3. hcd' \in [AllUnits -> {"none", "alloc", "added"}]
    OBVIOUS
  <2> QED BY <2>1, <2>2, <2>3
<1>2. Turns'
  BY DEF Turns, Units
<1>3. HcdHolds'
  BY DEF Turns, HcdHolds, HcdAdded, HcdHeld, HcdFound, Whole, Units, AllUnits
<1>4. UdcHolds'
  BY DEF Turns, UdcHolds, UdcAdded, UdcHeld, UdcFound, Whole, Units, AllUnits
<1>5. Memory'
  BY DEF Turns, Memory, DataHeld, DataFreed, Whole, Exiting, Units, AllUnits
<1>6. Drivers'
  BY DEF Drivers, Whole, Exiting
<1>7. Bound'
  BY DEF Turns, Bound, Registered, Units, SlotIds, NoUnit
<1>8. ~fault'
  OBVIOUS
<1> QED BY <1>1, <1>2, <1>3, <1>4, <1>5, <1>6, <1>7, <1>8 DEF LoadInv

LEMMA CheckHcdStep == ASSUME LoadInv, CheckHcd, UNCHANGED <<num, super>> PROVE LoadInv'
<1> USE ModuleAssumption DEF LoadInv, ModuleTypeOK, CheckHcd, At, Goto, Again, Devices, Probed,
                             Gadgets
<1>1. ModuleTypeOK'
  BY DEF Turns, Stages, AllUnits, SlotIds, NoUnit
<1>2. Turns'
  BY DEF Turns, Units
<1>3. HcdHolds'
  BY DEF Turns, HcdHolds, HcdAdded, HcdHeld, HcdFound, Whole, Units, AllUnits
<1>4. UdcHolds'
  BY DEF Turns, UdcHolds, UdcAdded, UdcHeld, UdcFound, Whole, Units, AllUnits
<1>5. Memory'
  BY DEF Turns, Memory, DataHeld, DataFreed, Whole, Exiting, Units, AllUnits
<1>6. Drivers'
  BY DEF Drivers, Whole, Exiting
<1>7. Bound'
  BY DEF Turns, Bound, Registered, Units, SlotIds, NoUnit
<1>8. ~fault'
  OBVIOUS
<1> QED BY <1>1, <1>2, <1>3, <1>4, <1>5, <1>6, <1>7, <1>8 DEF LoadInv

LEMMA AddUdcStep == ASSUME LoadInv, AddUdc, UNCHANGED <<num, super>> PROVE LoadInv'
<1> USE ModuleAssumption DEF LoadInv, ModuleTypeOK, AddUdc, At, Again, BackFrom, Set, Gadgets
<1>1. ModuleTypeOK'
  BY DEF Turns, Stages, AllUnits, SlotIds, NoUnit
<1>2. Turns'
  BY DEF Turns, Units
<1>3. HcdHolds'
  BY DEF Turns, HcdHolds, HcdAdded, HcdHeld, HcdFound, Whole, Units, AllUnits
<1>4. UdcHolds'
  BY DEF Turns, UdcHolds, UdcAdded, UdcHeld, UdcFound, Whole, Units, AllUnits
<1>5. Memory'
  BY DEF Turns, Memory, DataHeld, DataFreed, Whole, Exiting, Units, AllUnits
<1>6. Drivers'
  BY DEF Drivers, Whole, Exiting
<1>7. Bound'
  BY DEF Turns, Bound, Registered, Units, SlotIds, NoUnit
<1>8. ~fault'
  OBVIOUS
<1> QED BY <1>1, <1>2, <1>3, <1>4, <1>5, <1>6, <1>7, <1>8 DEF LoadInv

LEMMA CheckUdcStep == ASSUME LoadInv, CheckUdc, UNCHANGED <<num, super>> PROVE LoadInv'
<1> USE ModuleAssumption DEF LoadInv, ModuleTypeOK, CheckUdc, At, Goto, Again, Devices, Probed,
                             Gadgets
<1>1. ModuleTypeOK'
  BY DEF Turns, Stages, AllUnits, SlotIds, NoUnit
<1>2. Turns'
  BY DEF Turns, Units
<1>3. HcdHolds'
  BY DEF Turns, HcdHolds, HcdAdded, HcdHeld, HcdFound, Whole, Units, AllUnits
<1>4. UdcHolds'
  BY DEF Turns, UdcHolds, UdcAdded, UdcHeld, UdcFound, Whole, Units, AllUnits
<1>5. Memory'
  BY DEF Turns, Memory, DataHeld, DataFreed, Whole, Exiting, Units, AllUnits
<1>6. Drivers'
  BY DEF Drivers, Whole, Exiting
<1>7. Bound'
  BY DEF Turns, Bound, Registered, Units, SlotIds, NoUnit
<1>8. ~fault'
  OBVIOUS
<1> QED BY <1>1, <1>2, <1>3, <1>4, <1>5, <1>6, <1>7, <1>8 DEF LoadInv

LEMMA RegisterGadgetStep == ASSUME LoadInv, RegisterGadget, UNCHANGED <<num, super>> PROVE LoadInv'
<1> USE ModuleAssumption DEF LoadInv, ModuleTypeOK, RegisterGadget, At, Again, BackFrom, Set,
                             Devices, Probed
<1>0. /\ gdrivers' = gdrivers \cup {i} \/ gdrivers' = gdrivers
      /\ \/ slot' = slot
         \/ FreeSlots # {} /\ i \in Units /\ slot' = [slot EXCEPT ![First] = i]
  OBVIOUS
<1>1. ModuleTypeOK'
  <2>1. i' \in -1 .. MaxNum + Slots /\ pc' \in Stages
    BY DEF Turns, Stages
  <2>2. slot' \in [SlotIds -> AllUnits \cup {NoUnit}]
    <3>1. i \in Units => i \in AllUnits
      BY DEF Turns, Units, AllUnits
    <3> QED BY <1>0, <3>1
  <2>3. gdrivers' \subseteq SlotIds
    <3>1. i \in SlotIds
      BY DEF Turns, SlotIds
    <3> QED BY <1>0, <3>1
  <2> QED BY <2>1, <2>2, <2>3
<1>2. Turns'
  BY DEF Turns, Units
<1>3. HcdHolds'
  BY DEF Turns, HcdHolds, HcdAdded, HcdHeld, HcdFound, Whole, Units, AllUnits
<1>4. UdcHolds'
  BY DEF Turns, UdcHolds, UdcAdded, UdcHeld, UdcFound, Whole, Units, AllUnits
<1>5. Memory'
  BY DEF Turns, Memory, DataHeld, DataFreed, Whole, Exiting, Units, AllUnits
<1>6. Drivers'
  BY DEF Drivers, Whole, Exiting
<1>7. Bound'
  <2>1. CASE /\ i \in Units /\ FreeSlots # {} /\ pc' = pc /\ i' = i + 1
             /\ slot' = [slot EXCEPT ![First] = i] /\ gdrivers' = gdrivers \cup {i}
    <3>1. First = i /\ i \in SlotIds /\ pc = "gadget"
      BY <2>1, FirstFree
    <3>2. \A s \in SlotIds : s \in gdrivers' <=> s < i + 1
      BY <2>1, <3>1 DEF Turns, Bound, Registered, SlotIds
    <3>3. \A s \in SlotIds : slot'[s] = IF s < i + 1 THEN s ELSE NoUnit
      BY <2>1, <3>1 DEF Turns, Bound, SlotIds
    <3> QED BY <2>1, <3>1, <3>2, <3>3 DEF Bound, Registered, Units
  <2>2. CASE gdrivers' = gdrivers /\ pc' = "err_gadget" /\ i' = i - 1
    BY <2>2 DEF Turns, Bound, Registered, Units, SlotIds
  <2> QED BY <2>1, <2>2
<1>8. ~fault'
  OBVIOUS
<1> QED BY <1>1, <1>2, <1>3, <1>4, <1>5, <1>6, <1>7, <1>8 DEF LoadInv

LEMMA MiscRegisterStep == ASSUME LoadInv, MiscRegister, UNCHANGED <<num, super>> PROVE LoadInv'
<1> USE ModuleAssumption DEF LoadInv, ModuleTypeOK, MiscRegister, Goto, Devices, Probed
<1>1. ModuleTypeOK'
  <2>1. i' \in -1 .. MaxNum + Slots /\ pc' \in Stages
    BY DEF Stages
  <2>2. misc' \in BOOLEAN
    OBVIOUS
  <2> QED BY <2>1, <2>2
<1>2. Turns'
  BY DEF Turns, Units
<1>3. HcdHolds'
  BY DEF Turns, HcdHolds, HcdAdded, HcdHeld, HcdFound, Whole, Units, AllUnits
<1>4. UdcHolds'
  BY DEF Turns, UdcHolds, UdcAdded, UdcHeld, UdcFound, Whole, Units, AllUnits
<1>5. Memory'
  BY DEF Turns, Memory, DataHeld, DataFreed, Whole, Exiting, Units, AllUnits
<1>6. Drivers'
  BY DEF Drivers, Whole, Exiting
<1>7. Bound'
  BY DEF Turns, Bound, Registered, Units, SlotIds, NoUnit
<1>8. ~fault'
  OBVIOUS
<1> QED BY <1>1, <1>2, <1>3, <1>4, <1>5, <1>6, <1>7, <1>8 DEF LoadInv

LEMMA ErrGadgetStep == ASSUME LoadInv, ErrGadget, UNCHANGED <<num, super>> PROVE LoadInv'
<1> USE ModuleAssumption DEF LoadInv, ModuleTypeOK, ErrGadget, BackFrom, Unregister, Devices, Probed
<1>1. ModuleTypeOK'
  BY DEF Turns, Stages, AllUnits, SlotIds, NoUnit
<1>2. Turns'
  BY DEF Turns, Units
<1>3. HcdHolds'
  BY DEF Turns, HcdHolds, HcdAdded, HcdHeld, HcdFound, Whole, Units, AllUnits
<1>4. UdcHolds'
  BY DEF Turns, UdcHolds, UdcAdded, UdcHeld, UdcFound, Whole, Units, AllUnits
<1>5. Memory'
  BY DEF Turns, Memory, DataHeld, DataFreed, Whole, Exiting, Units, AllUnits
<1>6. Drivers'
  BY DEF Drivers, Whole, Exiting
<1>7. Bound'
  BY DEF Turns, Bound, Registered, Units, SlotIds, NoUnit
<1>8. ~fault'
  BY DEF Turns, Units, AllUnits, Whole, Bound, Registered, SlotIds
<1> QED BY <1>1, <1>2, <1>3, <1>4, <1>5, <1>6, <1>7, <1>8 DEF LoadInv

LEMMA PutHcdDoneStep == ASSUME LoadInv, PutHcdDone, UNCHANGED <<num, super>> PROVE LoadInv'
<1> USE ModuleAssumption DEF LoadInv, ModuleTypeOK, PutHcdDone, BackFrom, Set, Put, PutFault,
                             Probed, Gadgets
<1>1. ModuleTypeOK'
  BY DEF Turns, Stages, AllUnits, SlotIds, NoUnit
<1>2. Turns'
  BY DEF Turns, Units
<1>3. HcdHolds'
  BY DEF Turns, HcdHolds, HcdAdded, HcdHeld, HcdFound, Whole, Units, AllUnits
<1>4. UdcHolds'
  BY DEF Turns, UdcHolds, UdcAdded, UdcHeld, UdcFound, Whole, Units, AllUnits
<1>5. Memory'
  BY DEF Turns, Memory, DataHeld, DataFreed, Whole, Exiting, Units, AllUnits
<1>6. Drivers'
  BY DEF Drivers, Whole, Exiting
<1>7. Bound'
  BY DEF Turns, Bound, Registered, Units, SlotIds, NoUnit
<1>8. ~fault'
  BY DEF Turns, Units, AllUnits, Whole, HcdHolds, HcdAdded, HcdHeld
<1> QED BY <1>1, <1>2, <1>3, <1>4, <1>5, <1>6, <1>7, <1>8 DEF LoadInv

LEMMA PutUdcDoneStep == ASSUME LoadInv, PutUdcDone, UNCHANGED <<num, super>> PROVE LoadInv'
<1> USE ModuleAssumption DEF LoadInv, ModuleTypeOK, PutUdcDone, BackFrom, Set, Put, PutFault,
                             Probed, Gadgets
<1>1. ModuleTypeOK'
  BY DEF Turns, Stages, AllUnits, SlotIds, NoUnit
<1>2. Turns'
  BY DEF Turns, Units
<1>3. HcdHolds'
  BY DEF Turns, HcdHolds, HcdAdded, HcdHeld, HcdFound, Whole, Units, AllUnits
<1>4. UdcHolds'
  BY DEF Turns, UdcHolds, UdcAdded, UdcHeld, UdcFound, Whole, Units, AllUnits
<1>5. Memory'
  BY DEF Turns, Memory, DataHeld, DataFreed, Whole, Exiting, Units, AllUnits
<1>6. Drivers'
  BY DEF Drivers, Whole, Exiting
<1>7. Bound'
  BY DEF Turns, Bound, Registered, Units, SlotIds, NoUnit
<1>8. ~fault'
  BY DEF Turns, Units, AllUnits, Whole, UdcHolds, UdcAdded, UdcHeld
<1> QED BY <1>1, <1>2, <1>3, <1>4, <1>5, <1>6, <1>7, <1>8 DEF LoadInv

LEMMA DelHcdDoneStep == ASSUME LoadInv, DelHcdDone, UNCHANGED <<num, super>> PROVE LoadInv'
<1> USE ModuleAssumption DEF LoadInv, ModuleTypeOK, DelHcdDone, BackFrom, Set, DelHcd, Gadgets
<1>1. ModuleTypeOK'
  BY DEF Turns, Stages, AllUnits, SlotIds, NoUnit
<1>2. Turns'
  BY DEF Turns, Units
<1>3. HcdHolds'
  BY DEF Turns, HcdHolds, HcdAdded, HcdHeld, HcdFound, Whole, Units, AllUnits
<1>4. UdcHolds'
  BY DEF Turns, UdcHolds, UdcAdded, UdcHeld, UdcFound, Whole, Units, AllUnits
<1>5. Memory'
  BY DEF Turns, Memory, DataHeld, DataFreed, Whole, Exiting, Units, AllUnits
<1>6. Drivers'
  BY DEF Drivers, Whole, Exiting
<1>7. Bound'
  BY DEF Turns, Bound, Registered, Units, SlotIds, NoUnit
<1>8. ~fault'
  BY DEF Turns, Units, AllUnits, Whole, HcdHolds, HcdAdded, HcdHeld
<1> QED BY <1>1, <1>2, <1>3, <1>4, <1>5, <1>6, <1>7, <1>8 DEF LoadInv

LEMMA DelUdcDoneStep == ASSUME LoadInv, DelUdcDone, UNCHANGED <<num, super>> PROVE LoadInv'
<1> USE ModuleAssumption DEF LoadInv, ModuleTypeOK, DelUdcDone, BackFrom, Set, DelUdc, Gadgets
<1>1. ModuleTypeOK'
  BY DEF Turns, Stages, AllUnits, SlotIds, NoUnit
<1>2. Turns'
  BY DEF Turns, Units
<1>3. HcdHolds'
  BY DEF Turns, HcdHolds, HcdAdded, HcdHeld, HcdFound, Whole, Units, AllUnits
<1>4. UdcHolds'
  BY DEF Turns, UdcHolds, UdcAdded, UdcHeld, UdcFound, Whole, Units, AllUnits
<1>5. Memory'
  BY DEF Turns, Memory, DataHeld, DataFreed, Whole, Exiting, Units, AllUnits
<1>6. Drivers'
  BY DEF Drivers, Whole, Exiting
<1>7. Bound'
  BY DEF Turns, Bound, Registered, Units, SlotIds, NoUnit
<1>8. ~fault'
  BY DEF Turns, Units, AllUnits, Whole, UdcHolds, UdcAdded, UdcHeld
<1> QED BY <1>1, <1>2, <1>3, <1>4, <1>5, <1>6, <1>7, <1>8 DEF LoadInv

LEMMA ErrProbeUdcStep == ASSUME LoadInv, ErrProbeUdc, UNCHANGED <<num, super>> PROVE LoadInv'
<1> USE ModuleAssumption DEF LoadInv, ModuleTypeOK, ErrProbeUdc, At, Again, Set, DelUdc, Gadgets
<1>1. ModuleTypeOK'
  BY DEF Turns, Stages, AllUnits, SlotIds, NoUnit
<1>2. Turns'
  BY DEF Turns, Units
<1>3. HcdHolds'
  BY DEF Turns, HcdHolds, HcdAdded, HcdHeld, HcdFound, Whole, Units, AllUnits
<1>4. UdcHolds'
  BY DEF Turns, UdcHolds, UdcAdded, UdcHeld, UdcFound, Whole, Units, AllUnits
<1>5. Memory'
  BY DEF Turns, Memory, DataHeld, DataFreed, Whole, Exiting, Units, AllUnits
<1>6. Drivers'
  BY DEF Drivers, Whole, Exiting
<1>7. Bound'
  BY DEF Turns, Bound, Registered, Units, SlotIds, NoUnit
<1>8. ~fault'
  BY DEF Turns, Units, AllUnits, Whole, UdcHolds, UdcAdded, UdcHeld
<1> QED BY <1>1, <1>2, <1>3, <1>4, <1>5, <1>6, <1>7, <1>8 DEF LoadInv

LEMMA ErrAddUdcStep == ASSUME LoadInv, ErrAddUdc, UNCHANGED <<num, super>> PROVE LoadInv'
<1> USE ModuleAssumption DEF LoadInv, ModuleTypeOK, ErrAddUdc, At, Again, Set, DelHcd, Gadgets
<1>1. ModuleTypeOK'
  BY DEF Turns, Stages, AllUnits, SlotIds, NoUnit
<1>2. Turns'
  BY DEF Turns, Units
<1>3. HcdHolds'
  BY DEF Turns, HcdHolds, HcdAdded, HcdHeld, HcdFound, Whole, Units, AllUnits
<1>4. UdcHolds'
  BY DEF Turns, UdcHolds, UdcAdded, UdcHeld, UdcFound, Whole, Units, AllUnits
<1>5. Memory'
  BY DEF Turns, Memory, DataHeld, DataFreed, Whole, Exiting, Units, AllUnits
<1>6. Drivers'
  BY DEF Drivers, Whole, Exiting
<1>7. Bound'
  BY DEF Turns, Bound, Registered, Units, SlotIds, NoUnit
<1>8. ~fault'
  BY DEF Turns, Units, AllUnits, Whole, HcdHolds, HcdAdded, HcdHeld
<1> QED BY <1>1, <1>2, <1>3, <1>4, <1>5, <1>6, <1>7, <1>8 DEF LoadInv

LEMMA ErrDriversStep == ASSUME LoadInv, ErrDrivers, UNCHANGED <<num, super>> PROVE LoadInv'
<1> USE ModuleAssumption DEF LoadInv, ModuleTypeOK, ErrDrivers, Goto, Devices, Probed, Gadgets
<1>1. ModuleTypeOK'
  BY DEF Turns, Stages, AllUnits, SlotIds, NoUnit
<1>2. Turns'
  BY DEF Turns, Units
<1>3. HcdHolds'
  BY DEF Turns, HcdHolds, HcdAdded, HcdHeld, HcdFound, Whole, Units, AllUnits
<1>4. UdcHolds'
  BY DEF Turns, UdcHolds, UdcAdded, UdcHeld, UdcFound, Whole, Units, AllUnits
<1>5. Memory'
  BY DEF Turns, Memory, DataHeld, DataFreed, Whole, Exiting, Units, AllUnits
<1>6. Drivers'
  BY DEF Drivers, Whole, Exiting
<1>7. Bound'
  BY DEF Turns, Bound, Registered, Units, SlotIds, NoUnit
<1>8. ~fault'
  OBVIOUS
<1> QED BY <1>1, <1>2, <1>3, <1>4, <1>5, <1>6, <1>7, <1>8 DEF LoadInv

LEMMA ErrFreeStep == ASSUME LoadInv, ErrFree, UNCHANGED <<num, super>> PROVE LoadInv'
<1> USE ModuleAssumption DEF LoadInv, ModuleTypeOK, ErrFree, At, Again, Devices, Probed, Gadgets
<1>1. ModuleTypeOK'
  BY DEF Turns, Stages, AllUnits, SlotIds, NoUnit
<1>2. Turns'
  BY DEF Turns, Units
<1>3. HcdHolds'
  BY DEF Turns, HcdHolds, HcdAdded, HcdHeld, HcdFound, Whole, Units, AllUnits
<1>4. UdcHolds'
  BY DEF Turns, UdcHolds, UdcAdded, UdcHeld, UdcFound, Whole, Units, AllUnits
<1>5. Memory'
  BY DEF Turns, Memory, DataHeld, DataFreed, Whole, Exiting, Units, AllUnits
<1>6. Drivers'
  BY DEF Drivers, Whole, Exiting
<1>7. Bound'
  BY DEF Turns, Bound, Registered, Units, SlotIds, NoUnit
<1>8. ~fault'
  BY DEF Turns, Units, AllUnits, Whole, Memory, DataHeld, DataFreed, Exiting
<1> QED BY <1>1, <1>2, <1>3, <1>4, <1>5, <1>6, <1>7, <1>8 DEF LoadInv

LEMMA ErrPutUdcStep == ASSUME LoadInv, ErrPutUdc, UNCHANGED <<num, super>> PROVE LoadInv'
<1> USE ModuleAssumption DEF LoadInv, ModuleTypeOK, ErrPutUdc, At, Again, Set, Put, PutFault,
                             Probed, Gadgets
<1>1. ModuleTypeOK'
  BY DEF Turns, Stages, AllUnits, SlotIds, NoUnit
<1>2. Turns'
  BY DEF Turns, Units
<1>3. HcdHolds'
  BY DEF Turns, HcdHolds, HcdAdded, HcdHeld, HcdFound, Whole, Units, AllUnits
<1>4. UdcHolds'
  BY DEF Turns, UdcHolds, UdcAdded, UdcHeld, UdcFound, Whole, Units, AllUnits
<1>5. Memory'
  BY DEF Turns, Memory, DataHeld, DataFreed, Whole, Exiting, Units, AllUnits
<1>6. Drivers'
  BY DEF Drivers, Whole, Exiting
<1>7. Bound'
  BY DEF Turns, Bound, Registered, Units, SlotIds, NoUnit
<1>8. ~fault'
  BY DEF Turns, Units, AllUnits, Whole, UdcHolds, UdcAdded, UdcHeld
<1> QED BY <1>1, <1>2, <1>3, <1>4, <1>5, <1>6, <1>7, <1>8 DEF LoadInv

LEMMA ErrAllocUdcStep == ASSUME LoadInv, ErrAllocUdc, UNCHANGED <<num, super>> PROVE LoadInv'
<1> USE ModuleAssumption DEF LoadInv, ModuleTypeOK, ErrAllocUdc, At, Again, Set, Put, PutFault,
                             Probed, Gadgets
<1>1. ModuleTypeOK'
  BY DEF Turns, Stages, AllUnits, SlotIds, NoUnit
<1>2. Turns'
  BY DEF Turns, Units
<1>3. HcdHolds'
  BY DEF Turns, HcdHolds, HcdAdded, HcdHeld, HcdFound, Whole, Units, AllUnits
<1>4. UdcHolds'
  BY DEF Turns, UdcHolds, UdcAdded, UdcHeld, UdcFound, Whole, Units, AllUnits
<1>5. Memory'
  BY DEF Turns, Memory, DataHeld, DataFreed, Whole, Exiting, Units, AllUnits
<1>6. Drivers'
  BY DEF Drivers, Whole, Exiting
<1>7. Bound'
  BY DEF Turns, Bound, Registered, Units, SlotIds, NoUnit
<1>8. ~fault'
  BY DEF Turns, Units, AllUnits, Whole, HcdHolds, HcdAdded, HcdHeld
<1> QED BY <1>1, <1>2, <1>3, <1>4, <1>5, <1>6, <1>7, <1>8 DEF LoadInv

LEMMA UnloadStep == ASSUME LoadInv, Unload, UNCHANGED <<num, super>> PROVE LoadInv'
<1> USE ModuleAssumption DEF LoadInv, ModuleTypeOK, Unload, Goto, Devices, Probed
<1>1. ModuleTypeOK'
  BY DEF Turns, Stages, AllUnits, SlotIds, NoUnit
<1>2. Turns'
  BY DEF Turns, Units
<1>3. HcdHolds'
  BY DEF Turns, HcdHolds, HcdAdded, HcdHeld, HcdFound, Whole, Units, AllUnits
<1>4. UdcHolds'
  BY DEF Turns, UdcHolds, UdcAdded, UdcHeld, UdcFound, Whole, Units, AllUnits
<1>5. Memory'
  BY DEF Turns, Memory, DataHeld, DataFreed, Whole, Exiting, Units, AllUnits
<1>6. Drivers'
  BY DEF Drivers, Whole, Exiting
<1>7. Bound'
  BY DEF Turns, Bound, Registered, Units, SlotIds, NoUnit
<1>8. ~fault'
  OBVIOUS
<1> QED BY <1>1, <1>2, <1>3, <1>4, <1>5, <1>6, <1>7, <1>8 DEF LoadInv

LEMMA UnregisterGadgetStep == ASSUME LoadInv, UnregisterGadget, UNCHANGED <<num, super>> PROVE LoadInv'
<1> USE ModuleAssumption DEF LoadInv, ModuleTypeOK, UnregisterGadget, At, Again, Unregister,
                             Devices, Probed
<1>1. ModuleTypeOK'
  BY DEF Turns, Stages, AllUnits, SlotIds, NoUnit
<1>2. Turns'
  BY DEF Turns, Units
<1>3. HcdHolds'
  BY DEF Turns, HcdHolds, HcdAdded, HcdHeld, HcdFound, Whole, Units, AllUnits
<1>4. UdcHolds'
  BY DEF Turns, UdcHolds, UdcAdded, UdcHeld, UdcFound, Whole, Units, AllUnits
<1>5. Memory'
  BY DEF Turns, Memory, DataHeld, DataFreed, Whole, Exiting, Units, AllUnits
<1>6. Drivers'
  BY DEF Drivers, Whole, Exiting
<1>7. Bound'
  BY DEF Turns, Bound, Registered, Units, SlotIds, NoUnit
<1>8. ~fault'
  BY DEF Turns, Units, AllUnits, Whole, Bound, Registered, SlotIds
<1> QED BY <1>1, <1>2, <1>3, <1>4, <1>5, <1>6, <1>7, <1>8 DEF LoadInv

LEMMA ExitUdcStep == ASSUME LoadInv, ExitUdc, UNCHANGED <<num, super>> PROVE LoadInv'
<1> USE ModuleAssumption DEF LoadInv, ModuleTypeOK, ExitUdc, At, Set, Put, Gadgets
<1>1. ModuleTypeOK'
  BY DEF Turns, Stages, AllUnits, SlotIds, NoUnit
<1>2. Turns'
  BY DEF Turns, Units
<1>3. HcdHolds'
  BY DEF Turns, HcdHolds, HcdAdded, HcdHeld, HcdFound, Whole, Units, AllUnits
<1>4. UdcHolds'
  BY DEF Turns, UdcHolds, UdcAdded, UdcHeld, UdcFound, Whole, Units, AllUnits
<1>5. Memory'
  BY DEF Turns, Memory, DataHeld, DataFreed, Whole, Exiting, Units, AllUnits
<1>6. Drivers'
  BY DEF Drivers, Whole, Exiting
<1>7. Bound'
  BY DEF Turns, Bound, Registered, Units, SlotIds, NoUnit
<1>8. ~fault'
  BY DEF Turns, Units, AllUnits, Whole, UdcHolds, UdcAdded, UdcHeld, Bound, Registered, SlotIds
<1> QED BY <1>1, <1>2, <1>3, <1>4, <1>5, <1>6, <1>7, <1>8 DEF LoadInv

LEMMA ExitHcdStep == ASSUME LoadInv, ExitHcd, UNCHANGED <<num, super>> PROVE LoadInv'
<1> USE ModuleAssumption DEF LoadInv, ModuleTypeOK, ExitHcd, Set, Put, Gadgets
<1>1. ModuleTypeOK'
  BY DEF Turns, Stages, AllUnits, SlotIds, NoUnit
<1>2. Turns'
  BY DEF Turns, Units
<1>3. HcdHolds'
  BY DEF Turns, HcdHolds, HcdAdded, HcdHeld, HcdFound, Whole, Units, AllUnits
<1>4. UdcHolds'
  BY DEF Turns, UdcHolds, UdcAdded, UdcHeld, UdcFound, Whole, Units, AllUnits
<1>5. Memory'
  BY DEF Turns, Memory, DataHeld, DataFreed, Whole, Exiting, Units, AllUnits
<1>6. Drivers'
  BY DEF Drivers, Whole, Exiting
<1>7. Bound'
  BY DEF Turns, Bound, Registered, Units, SlotIds, NoUnit
<1>8. ~fault'
  BY DEF Turns, Units, AllUnits, Whole, HcdHolds, HcdAdded, HcdHeld
<1> QED BY <1>1, <1>2, <1>3, <1>4, <1>5, <1>6, <1>7, <1>8 DEF LoadInv

LEMMA ExitFreeStep == ASSUME LoadInv, ExitFree, UNCHANGED <<num, super>> PROVE LoadInv'
<1> USE ModuleAssumption DEF LoadInv, ModuleTypeOK, ExitFree, Set, Devices, Probed, Gadgets
<1>1. ModuleTypeOK'
  BY DEF Turns, Stages, AllUnits, SlotIds, NoUnit
<1>2. Turns'
  BY DEF Turns, Units
<1>3. HcdHolds'
  BY DEF Turns, HcdHolds, HcdAdded, HcdHeld, HcdFound, Whole, Units, AllUnits
<1>4. UdcHolds'
  BY DEF Turns, UdcHolds, UdcAdded, UdcHeld, UdcFound, Whole, Units, AllUnits
<1>5. Memory'
  BY DEF Turns, Memory, DataHeld, DataFreed, Whole, Exiting, Units, AllUnits
<1>6. Drivers'
  BY DEF Drivers, Whole, Exiting
<1>7. Bound'
  BY DEF Turns, Bound, Registered, Units, SlotIds, NoUnit
<1>8. ~fault'
  BY DEF Turns, Units, AllUnits, Whole, Memory, DataHeld, DataFreed, Exiting
<1> QED BY <1>1, <1>2, <1>3, <1>4, <1>5, <1>6, <1>7, <1>8 DEF LoadInv

LEMMA ExitDriversStep == ASSUME LoadInv, ExitDrivers, UNCHANGED <<num, super>> PROVE LoadInv'
<1> USE ModuleAssumption DEF LoadInv, ModuleTypeOK, ExitDrivers, Goto, Devices, Probed, Gadgets
<1>1. ModuleTypeOK'
  BY DEF Turns, Stages, AllUnits, SlotIds, NoUnit
<1>2. Turns'
  BY DEF Turns, Units
<1>3. HcdHolds'
  BY DEF Turns, HcdHolds, HcdAdded, HcdHeld, HcdFound, Whole, Units, AllUnits
<1>4. UdcHolds'
  BY DEF Turns, UdcHolds, UdcAdded, UdcHeld, UdcFound, Whole, Units, AllUnits
<1>5. Memory'
  BY DEF Turns, Memory, DataHeld, DataFreed, Whole, Exiting, Units, AllUnits
<1>6. Drivers'
  BY DEF Drivers, Whole, Exiting
<1>7. Bound'
  BY DEF Turns, Bound, Registered, Units, SlotIds, NoUnit
<1>8. ~fault'
  OBVIOUS
<1> QED BY <1>1, <1>2, <1>3, <1>4, <1>5, <1>6, <1>7, <1>8 DEF LoadInv

LEMMA LoopEndsStep == ASSUME LoadInv, LoopEnds, UNCHANGED <<num, super>> PROVE LoadInv'
<1> USE ModuleAssumption DEF LoadInv, ModuleTypeOK, LoopEnds, Goto, Loop, Back, Devices, Probed,
                             Gadgets
<1>1. ModuleTypeOK'
  BY DEF Turns, Stages, AllUnits, SlotIds, NoUnit
<1>2. Turns'
  BY DEF Turns, Units
<1>3. HcdHolds'
  BY DEF Turns, HcdHolds, HcdAdded, HcdHeld, HcdFound, Whole, Units, AllUnits
<1>4. UdcHolds'
  BY DEF Turns, UdcHolds, UdcAdded, UdcHeld, UdcFound, Whole, Units, AllUnits
<1>5. Memory'
  BY DEF Turns, Memory, DataHeld, DataFreed, Whole, Exiting, Units, AllUnits
<1>6. Drivers'
  BY DEF Drivers, Whole, Exiting
<1>7. Bound'
  BY DEF Turns, Bound, Registered, Units, SlotIds, NoUnit
<1>8. ~fault'
  OBVIOUS
<1> QED BY <1>1, <1>2, <1>3, <1>4, <1>5, <1>6, <1>7, <1>8 DEF LoadInv

-----------------------------------------------------------------------------
LEMMA ModuleStepInv == ASSUME LoadInv, [ModuleNext]_module_vars PROVE LoadInv'
<1>1. CASE Load
  BY <1>1, LoadStep
<1>2. CASE Step /\ UNCHANGED <<num, super>>
  BY <1>2, AllocHcdStep, AllocUdcStep, AddDataStep, RegisterDriversStep, AddHcdStep,
     CheckHcdStep, AddUdcStep, CheckUdcStep, RegisterGadgetStep, MiscRegisterStep,
     ErrGadgetStep, PutHcdDoneStep, PutUdcDoneStep, DelHcdDoneStep, DelUdcDoneStep,
     ErrProbeUdcStep, ErrAddUdcStep, ErrDriversStep, ErrFreeStep, ErrPutUdcStep,
     ErrAllocUdcStep, UnloadStep, UnregisterGadgetStep, ExitUdcStep, ExitHcdStep,
     ExitFreeStep, ExitDriversStep, LoopEndsStep DEF Step
<1>3. CASE UNCHANGED module_vars
  BY <1>3 DEF module_vars, Devices, Probed, LoadInv, ModuleTypeOK, Turns, HcdHolds, UdcHolds,
     Memory, Drivers, Bound, Registered, HcdAdded, HcdHeld, HcdFound, UdcAdded, UdcHeld,
     UdcFound, DataHeld, DataFreed, Whole, Exiting, Units
<1> QED BY <1>1, <1>2, <1>3 DEF ModuleNext

LEMMA LoadInvAlways == ModuleSpec => []LoadInv
BY ModuleInitInv, ModuleStepInv, PTL DEF ModuleSpec

(* A bound gadget driver has a device controller that was found, an added  *)
(* device controller a host controller that was found, and that one its    *)
(* memory.                                                                 *)
LEMMA LoadInvWhole == ASSUME LoadInv PROVE LoadedWhole
<1>1. pc = "out" => /\ \A u \in AllUnits : hcd[u] = "none" /\ udc[u] = "none" /\ dum[u] # "live"
                    /\ drivers = {} /\ gdrivers = {} /\ ~misc
  BY DEF LoadInv, ModuleTypeOK, HcdHolds, UdcHolds, Memory, Drivers, Bound, Registered, HcdAdded,
         HcdHeld, UdcAdded, UdcHeld, DataHeld, Whole, Exiting
<1>2. ASSUME NEW u \in Units
      PROVE  /\ u \in gdrivers => drvdata[u]
             /\ drvdata[u] => hs[u] /\ (super => ss[u])
             /\ hs[u] => dum[u] = "live"
  <2>1. u \in AllUnits /\ i \in Int /\ num \in Int
    BY ModuleAssumption DEF LoadInv, ModuleTypeOK, Units, AllUnits
  <2>2. u \in gdrivers => UdcFound(u)
    BY <2>1, <1>2 DEF LoadInv, ModuleTypeOK, Bound, Registered, UdcFound, Whole
  <2>3. UdcAdded(u) => HcdFound(u)
    BY <2>1 DEF UdcAdded, HcdFound, Whole, Units
  <2>4. HcdAdded(u) => DataHeld(u)
    BY <2>1 DEF HcdAdded, DataHeld, Whole, Exiting, Units
  <2> QED BY <2>1, <2>2, <2>3, <2>4 DEF LoadInv, HcdHolds, UdcHolds, Memory
<1>3. misc => \A s \in SlotIds : slot[s] # NoUnit
  BY DEF LoadInv, Bound, SlotIds, NoUnit
<1>4. pc = "loaded" => /\ \A u \in Units : drvdata[u] /\ hs[u] /\ (super => ss[u])
                       /\ \A s \in SlotIds : slot[s] = s
  <2>1. \A u \in Units : u \in AllUnits
    BY ModuleAssumption DEF LoadInv, ModuleTypeOK, Units, AllUnits
  <2> QED BY <2>1 DEF LoadInv, HcdHolds, UdcHolds, Bound, HcdFound, UdcFound, Whole
<1> QED BY <1>1, <1>2, <1>3, <1>4 DEF LoadInv, LoadedWhole

(* Every variable of the loading keeps its type, the loop index among them.*)
THEOREM LoadTypeCorrect == ModuleSpec => []ModuleTypeOK
BY LoadInvAlways, PTL DEF LoadInv

(* vibeshine_ds5_udc_init and vibeshine_ds5_gadget_init load the driver    *)
(* whole or not at all: whichever step fails, every device, driver and     *)
(* allocation is given back, each of them once, and so it is on exit.      *)
THEOREM LoadsWholeOrNot == ModuleSpec => []LoadedWhole
BY LoadInvAlways, LoadInvWhole, PTL

-----------------------------------------------------------------------------
(* UdcIso.                                                                 *)

(* What the endpoint may catch up, in microframes.                         *)
Credit == CatchUp * Interval

(* The pace of the endpoint is in its schedule: packets sent ahead of the  *)
(* clock have moved the schedule ahead as far, from no earlier than Credit *)
(* before now.  (A schedule that is further behind is abandoned, and by    *)
(* then the packets sent before have been paid for.)                       *)
Schedule ==
  /\ lag \in Int /\ Unscheduled <= lag /\ lag <= Interval
  /\ ahead \in Nat
  /\ ahead = 0 \/ (lag # Unscheduled /\ ahead <= lag + Credit)

(* The urb in hand, while the timer is between a packet and what follows.  *)
InHand == iso_timer.pc \in {"request", "sent"}

UrbRecord == [iso_packet : 0 .. Packets, unlinked : BOOLEAN,
              state : {"free", "listed", "giving"}]
TimerPc == {"idle", "scan", "request", "sent", "urb"}
TimerRecord == [pc : TimerPc, at : Nat \ {0}, seen : BOOLEAN]

IsoTypes ==
  /\ desc \in BOOLEAN
  /\ iso_urbp_list \in Seq(IsoUrbs)
  /\ iso_urb \in [IsoUrbs -> UrbRecord]
  /\ iso_next_frame_urbp \in IsoUrbs \cup {NoUrb}
  /\ iso_timer_pending \in BOOLEAN
  /\ iso_timer \in TimerRecord
  /\ queued \in Nat /\ queued + InCallback <= IsoReqs

(* An endpoint that was not served in this scan is looked at for the first *)
(* urb of the list, so packets are only ever taken from the head.          *)
ServesHead ==
  /\ ~iso_timer.seen => iso_timer.at = 1
  /\ InHand => iso_timer.seen /\ iso_timer.at = 1 /\ 1 \in DOMAIN iso_urbp_list

(* The list has every urb once, and each has packets left but for the one  *)
(* in hand.                                                                *)
ListedOnce ==
  /\ \A h, j \in DOMAIN iso_urbp_list : iso_urbp_list[h] = iso_urbp_list[j] => h = j
  /\ \A h \in DOMAIN iso_urbp_list : iso_urb[iso_urbp_list[h]].state = "listed"

PacketsLeft ==
  \A h \in DOMAIN iso_urbp_list :
    iso_urb[iso_urbp_list[h]].iso_packet < Packets \/ (InHand /\ h = iso_timer.at)

ListInv == IsoTypes /\ ServesHead /\ ListedOnce /\ PacketsLeft /\ OrderKept

-----------------------------------------------------------------------------
LEMMA Numbers ==
  /\ Interval \in Nat /\ Interval > 0 /\ Credit \in Nat
  /\ (CatchUp + 1) * Interval = Credit + Interval
  /\ Floor = -(Credit + Interval + Interval) /\ Unscheduled = Floor - 1
  /\ Packets \in Nat /\ Packets > 0 /\ IsoReqs \in Nat
<1>1. Interval \in Nat /\ Interval > 0 /\ CatchUp \in Nat /\ Packets \in Nat /\ Packets > 0
      /\ IsoReqs \in Nat
  BY IsoAssumption
<1>2. Credit \in Nat
  BY <1>1 DEF Credit
<1>3. (CatchUp + 1) * Interval = CatchUp * Interval + Interval
  BY <1>1
<1>4. (CatchUp + 2) * Interval = CatchUp * Interval + Interval + Interval
  BY <1>1
<1> QED BY <1>1, <1>2, <1>3, <1>4 DEF Credit, Floor, Unscheduled

(* The schedule, and with it the pace, is kept by every step.              *)
LEMMA ScheduleInit == IsoInit => Schedule
BY Numbers DEF IsoInit, Schedule

LEMMA ScheduleStep ==
  ASSUME Schedule, [IsoNext]_iso_vars
  PROVE  Schedule'
<1> USE Numbers
<1>1. CASE UNCHANGED <<lag, ahead>>
  BY <1>1 DEF Schedule
<1>2. CASE TimePasses
  BY <1>2 DEF TimePasses, Schedule
<1>3. CASE IsoEnable
  BY <1>3 DEF IsoEnable, Schedule
<1>4. CASE Packet
  <2>1. lag \in Int /\ ahead \in Nat /\ lag <= 0 /\ lag' = Due /\ ahead' = ahead + Interval
    BY <1>4 DEF Packet, Schedule
  <2>2. CASE lag = Unscheduled
    BY <2>1, <2>2 DEF Schedule, Due
  <2>3. CASE Behind
    BY <2>1, <2>3 DEF Schedule, Due, Behind, Credit
  <2>4. CASE lag # Unscheduled /\ ~Behind
    BY <2>1, <2>4 DEF Schedule, Due, Behind, Credit
  <2> QED BY <2>2, <2>3, <2>4
<1> QED
  BY <1>1, <1>2, <1>3, <1>4
     DEF IsoNext, iso_vars, IsoTimer, IsoDisable, IsoQueue, IsoUrbEnqueue, IsoUrbDequeue, IsoTimerFires, IsoFrameEnds,
         IsoSkipUrb, IsoRequestGiven, Sent, ReturnUrb, IsoUrbGiven

(* "One USB packet per endpoint interval" (dummy_timer): in no stretch of  *)
(* time are more packets sent than the clock has intervals, but for what   *)
(* the endpoint may catch up, for every interval and every catch-up.       *)
THEOREM IsoPaced == IsoSpec => []Paced
<1>1. Schedule => Paced
  BY Numbers DEF Schedule, Paced
<1>2. Schedule /\ [IsoNext]_iso_vars => Schedule'
  BY ScheduleStep
<1> QED BY ScheduleInit, <1>1, <1>2, PTL DEF IsoSpec

-----------------------------------------------------------------------------
(* The records the timer updates.                                          *)
LEMMA Places == /\ {"idle", "scan", "request", "sent", "urb"} \subseteq TimerPc
                /\ 1 \in Nat \ {0} /\ \A a \in Nat : a + 1 \in Nat \ {0}
BY DEF TimerPc

LEMMA UrbUpdates ==
  ASSUME NEW r \in UrbRecord, r.iso_packet < Packets
  PROVE  LET s == [r EXCEPT !.iso_packet = @ + 1]
         IN  /\ s \in UrbRecord /\ s.iso_packet = r.iso_packet + 1
             /\ s.unlinked = r.unlinked /\ s.state = r.state
<1>1. r.iso_packet \in Int /\ r.iso_packet + 1 \in 0 .. Packets
  BY Numbers DEF UrbRecord
<1> QED BY <1>1 DEF UrbRecord

LEMMA ConstantRecords ==
  /\ IdleTimer \in TimerRecord /\ IdleTimer.pc = "idle" /\ IdleTimer.at = 1
  /\ LET r == [IdleTimer EXCEPT !.pc = "scan"]
     IN  r \in TimerRecord /\ r.pc = "scan" /\ r.at = 1
  /\ FreeIsoUrb \in UrbRecord
  /\ LET r == [FreeIsoUrb EXCEPT !.state = "listed"]
     IN  r \in UrbRecord /\ r.state = "listed" /\ r.iso_packet = 0
<1>1. IdleTimer \in TimerRecord /\ IdleTimer.pc = "idle" /\ IdleTimer.at = 1
  BY Places DEF IdleTimer, TimerRecord
<1>2. LET r == [IdleTimer EXCEPT !.pc = "scan"]
      IN  r \in TimerRecord /\ r.pc = "scan" /\ r.at = 1
  BY <1>1, Places DEF TimerRecord
<1>3. 0 \in 0 .. Packets
  BY Numbers
<1>4. FreeIsoUrb \in UrbRecord /\ FreeIsoUrb.iso_packet = 0
  BY <1>3 DEF FreeIsoUrb, UrbRecord
<1>5. LET r == [FreeIsoUrb EXCEPT !.state = "listed"]
      IN  r \in UrbRecord /\ r.state = "listed" /\ r.iso_packet = 0
  BY <1>4 DEF UrbRecord
<1> QED BY <1>1, <1>2, <1>4, <1>5

(* dummy_urb_enqueue puts an urb at the end of the list.                   *)
LEMMA ListWith ==
  ASSUME NEW q \in Seq(IsoUrbs), NEW u \in IsoUrbs
  PROVE  LET r == Append(q, u)
         IN  /\ r \in Seq(IsoUrbs) /\ Len(r) = Len(q) + 1 /\ Len(q) \in Nat
             /\ DOMAIN q = 1 .. Len(q) /\ DOMAIN r = 1 .. Len(q) + 1
             /\ \A h \in DOMAIN q : r[h] = q[h]
             /\ r[Len(q) + 1] = u
OBVIOUS

(* A step that leaves the list as it is, and of its urbs no more than marks *)
(* one as unlinked.                                                        *)
LEMMA ListKept ==
  ASSUME ListedOnce, PacketsLeft, OrderKept, iso_urbp_list' = iso_urbp_list,
         \A h \in DOMAIN iso_urbp_list :
           /\ iso_urb'[iso_urbp_list[h]].state = iso_urb[iso_urbp_list[h]].state
           /\ iso_urb'[iso_urbp_list[h]].iso_packet = iso_urb[iso_urbp_list[h]].iso_packet
           /\ iso_urb[iso_urbp_list[h]].unlinked => iso_urb'[iso_urbp_list[h]].unlinked,
         InHand => InHand' /\ iso_timer'.at = iso_timer.at
  PROVE  ListedOnce' /\ PacketsLeft' /\ OrderKept'
<1>1. ListedOnce'
  BY DEF ListedOnce
<1>2. PacketsLeft'
  BY DEF PacketsLeft
<1>3. OrderKept'
  BY DEF OrderKept
<1> QED BY <1>1, <1>2, <1>3

(* return_urb takes the urb at position k out of the list.                 *)
LEMMA ListWithout ==
  ASSUME NEW q \in Seq(IsoUrbs), NEW k \in DOMAIN q
  PROVE  LET r == [h \in 1 .. Len(q) - 1 |-> q[IF h < k THEN h ELSE h + 1]]
         IN  /\ r \in Seq(IsoUrbs) /\ DOMAIN r = 1 .. Len(q) - 1
             /\ \A h \in DOMAIN r : /\ r[h] = q[IF h < k THEN h ELSE h + 1]
                                    /\ (IF h < k THEN h ELSE h + 1) \in DOMAIN q \ {k}
OBVIOUS

(* Urbs that stay on the list keep their order, however the list shrinks.  *)
LEMMA GiveBackKeeps ==
  ASSUME ListInv, iso_timer.at \in DOMAIN iso_urbp_list, NEW seen \in BOOLEAN, GiveBack(seen),
         ~seen => iso_timer.at = 1
  PROVE  /\ iso_urbp_list' \in Seq(IsoUrbs) /\ iso_urb' \in [IsoUrbs -> UrbRecord] /\ iso_timer' \in TimerRecord
         /\ ServesHead' /\ ListedOnce' /\ PacketsLeft' /\ OrderKept'
<1> DEFINE old(h) == IF h < iso_timer.at THEN h ELSE h + 1
<1>1. /\ iso_urbp_list \in Seq(IsoUrbs) /\ iso_urb \in [IsoUrbs -> UrbRecord] /\ iso_timer \in TimerRecord
      /\ iso_timer.at \in Nat /\ IsoCur \in IsoUrbs
  BY DEF ListInv, IsoTypes, TimerRecord, IsoCur
<1>2. /\ iso_urbp_list' \in Seq(IsoUrbs) /\ DOMAIN iso_urbp_list' = 1 .. Len(iso_urbp_list) - 1
      /\ \A h \in DOMAIN iso_urbp_list' :
           iso_urbp_list'[h] = iso_urbp_list[old(h)] /\ old(h) \in DOMAIN iso_urbp_list \ {iso_timer.at}
  BY <1>1, ListWithout DEF GiveBack
<1>3. iso_urb' = [iso_urb EXCEPT ![IsoCur].state = "giving"]
  BY DEF GiveBack
<1>4. iso_urb' \in [IsoUrbs -> UrbRecord]
  BY <1>1, <1>3 DEF UrbRecord
<1>5. iso_timer' \in TimerRecord /\ iso_timer'.pc = "urb" /\ iso_timer'.seen = seen /\ iso_timer'.at = iso_timer.at
  BY <1>1, Places DEF GiveBack, TimerRecord
<1>6. \A h \in DOMAIN iso_urbp_list' : iso_urbp_list'[h] # IsoCur /\ iso_urbp_list'[h] \in IsoUrbs
  BY <1>1, <1>2 DEF ListInv, ListedOnce, IsoCur
<1>7. \A h \in DOMAIN iso_urbp_list' : iso_urb'[iso_urbp_list'[h]] = iso_urb[iso_urbp_list[old(h)]]
  BY <1>1, <1>2, <1>3, <1>6
<1>8. \A h, j \in DOMAIN iso_urbp_list' : (old(h) = old(j) => h = j) /\ (h < j => old(h) < old(j))
  BY <1>1, <1>2
<1>9. ServesHead'
  BY <1>5 DEF ServesHead, InHand
<1>10. ListedOnce'
  BY <1>2, <1>7, <1>8 DEF ListInv, ListedOnce
<1>11. PacketsLeft'
  BY <1>2, <1>7 DEF ListInv, PacketsLeft
<1>12. OrderKept'
  BY <1>2, <1>7, <1>8 DEF ListInv, OrderKept
<1> QED BY <1>2, <1>4, <1>5, <1>9, <1>10, <1>11, <1>12

LEMMA ListInit == IsoInit => ListInv
<1> HAVE IsoInit
<1>1. iso_urbp_list = <<>> /\ iso_urb \in [IsoUrbs -> UrbRecord] /\ iso_timer = IdleTimer /\ queued = 0
      /\ desc \in BOOLEAN /\ iso_timer_pending \in BOOLEAN /\ iso_next_frame_urbp = NoUrb
  BY ConstantRecords DEF IsoInit
<1>2. IsoTypes /\ ServesHead
  BY <1>1, Numbers, ConstantRecords DEF IsoTypes, ServesHead, InHand, InCallback
<1>3. ListedOnce /\ PacketsLeft /\ OrderKept
  BY <1>1 DEF ListedOnce, PacketsLeft, OrderKept
<1> QED BY <1>2, <1>3 DEF ListInv

LEMMA ListStep ==
  ASSUME ListInv, [IsoNext]_iso_vars
  PROVE  ListInv'
<1> USE Numbers
<1>0. /\ iso_urbp_list \in Seq(IsoUrbs) /\ iso_urb \in [IsoUrbs -> UrbRecord] /\ iso_timer \in TimerRecord
      /\ queued \in Nat /\ desc \in BOOLEAN /\ iso_timer_pending \in BOOLEAN
      /\ iso_next_frame_urbp \in IsoUrbs \cup {NoUrb} /\ queued + InCallback <= IsoReqs
      /\ iso_timer.at \in Nat /\ iso_timer.at > 0 /\ iso_timer.seen \in BOOLEAN
  BY DEF ListInv, IsoTypes, TimerRecord
<1>1. CASE UNCHANGED iso_vars
  BY <1>1 DEF iso_vars, ListInv, IsoTypes, ServesHead, ListedOnce, PacketsLeft, OrderKept, InHand,
              InCallback
<1>2. CASE TimePasses \/ IsoEnable \/ IsoDisable \/ IsoQueue
  <2>1. UNCHANGED <<iso_urbp_list, iso_urb, iso_next_frame_urbp, iso_timer_pending, iso_timer>>
    BY <1>2 DEF TimePasses, IsoEnable, IsoDisable, IsoQueue
  <2>2. InCallback \in {0, 1}
    BY DEF InCallback
  <2>3. queued' \in {queued, 0} \/ (queued' = queued + 1 /\ queued + InCallback < IsoReqs)
    BY <1>2 DEF TimePasses, IsoEnable, IsoDisable, IsoQueue
  <2>4. queued' \in Nat /\ queued' + InCallback <= IsoReqs
    BY <1>0, <2>2, <2>3
  <2>5. desc' \in BOOLEAN
    BY <1>0, <1>2 DEF TimePasses, IsoEnable, IsoDisable, IsoQueue
  <2> QED BY <2>1, <2>4, <2>5 DEF ListInv, IsoTypes, ServesHead, ListedOnce, PacketsLeft, OrderKept,
                                 InHand, InCallback
<1>3. ASSUME NEW u \in IsoUrbs, IsoUrbEnqueue(u)
      PROVE  ListInv'
  <2>1. /\ iso_urbp_list' = Append(iso_urbp_list, u) /\ iso_urb[u].state = "free"
        /\ iso_urb' = [iso_urb EXCEPT ![u] = [FreeIsoUrb EXCEPT !.state = "listed"]]
        /\ UNCHANGED <<desc, iso_timer, queued>> /\ iso_timer_pending' = TRUE
        /\ iso_next_frame_urbp' \in IsoUrbs \cup {NoUrb}
    BY <1>3, <1>0 DEF IsoUrbEnqueue
  <2>2. \A h \in DOMAIN iso_urbp_list : iso_urbp_list[h] # u /\ iso_urbp_list[h] \in IsoUrbs
    BY <1>0, <2>1 DEF ListInv, ListedOnce
  <2>3. /\ iso_urbp_list' \in Seq(IsoUrbs) /\ Len(iso_urbp_list') = Len(iso_urbp_list) + 1
        /\ DOMAIN iso_urbp_list = 1 .. Len(iso_urbp_list)
        /\ DOMAIN iso_urbp_list' = 1 .. Len(iso_urbp_list) + 1
        /\ \A h \in DOMAIN iso_urbp_list : iso_urbp_list'[h] = iso_urbp_list[h]
        /\ iso_urbp_list'[Len(iso_urbp_list) + 1] = u /\ Len(iso_urbp_list) \in Nat
    <3>1. iso_urbp_list' = Append(iso_urbp_list, u)
      BY <2>1
    <3> QED BY <1>0, <3>1, ListWith
  <2>4. iso_urb' \in [IsoUrbs -> UrbRecord] /\ iso_urb'[u].state = "listed" /\ iso_urb'[u].iso_packet = 0
    BY <1>0, <2>1, ConstantRecords
  <2>5. \A h \in DOMAIN iso_urbp_list : iso_urb'[iso_urbp_list'[h]] = iso_urb[iso_urbp_list[h]]
    BY <1>0, <2>1, <2>2, <2>3
  <2>6. IsoTypes'
    BY <1>0, <2>1, <2>3, <2>4 DEF IsoTypes, InCallback
  <2>7. ServesHead'
    BY <1>0, <2>1, <2>3 DEF ListInv, ServesHead, InHand
  <2>8. ListedOnce'
    <3>1. /\ \A h, j \in DOMAIN iso_urbp_list : iso_urbp_list[h] = iso_urbp_list[j] => h = j
          /\ \A h \in DOMAIN iso_urbp_list : iso_urb[iso_urbp_list[h]].state = "listed"
      BY DEF ListInv, ListedOnce
    <3>2. ASSUME NEW h \in DOMAIN iso_urbp_list', NEW j \in DOMAIN iso_urbp_list',
                 iso_urbp_list'[h] = iso_urbp_list'[j]
          PROVE  h = j
      BY <2>2, <2>3, <3>1, <3>2
    <3>3. ASSUME NEW h \in DOMAIN iso_urbp_list'
          PROVE  iso_urb'[iso_urbp_list'[h]].state = "listed"
      <4>1. CASE h \in DOMAIN iso_urbp_list
        BY <2>5, <3>1, <4>1
      <4>2. CASE h = Len(iso_urbp_list) + 1
        BY <2>3, <2>4, <4>2
      <4> QED BY <1>0, <2>3, <3>3, <4>1, <4>2
    <3> QED BY <3>2, <3>3 DEF ListedOnce
  <2>9. PacketsLeft'
    BY <1>0, <2>1, <2>3, <2>4, <2>5 DEF ListInv, PacketsLeft, InHand
  <2>10. OrderKept'
    <3>1. ASSUME NEW h \in DOMAIN iso_urbp_list', NEW j \in DOMAIN iso_urbp_list', h < j,
                 iso_urb'[iso_urbp_list'[j]].iso_packet > 0
          PROVE  iso_urb'[iso_urbp_list'[h]].unlinked \/ iso_urb'[iso_urbp_list'[h]].iso_packet = Packets
      <4>1. j # Len(iso_urbp_list) + 1
        BY <2>3, <2>4, <3>1
      <4>2. h \in DOMAIN iso_urbp_list /\ j \in DOMAIN iso_urbp_list
        BY <2>3, <3>1, <4>1
      <4> QED BY <2>5, <3>1, <4>2 DEF ListInv, OrderKept
    <3> QED BY <3>1 DEF OrderKept
  <2> QED BY <2>6, <2>7, <2>8, <2>9, <2>10 DEF ListInv
<1>4. ASSUME NEW u \in IsoUrbs, IsoUrbDequeue(u)
      PROVE  ListInv'
  <2>1. /\ iso_urb' = [iso_urb EXCEPT ![u].unlinked = TRUE] /\ iso_timer_pending' = TRUE
        /\ UNCHANGED <<desc, iso_urbp_list, iso_next_frame_urbp, iso_timer, queued>>
    BY <1>4 DEF IsoUrbDequeue
  <2>2. /\ iso_urb' \in [IsoUrbs -> UrbRecord]
        /\ \A v \in IsoUrbs : /\ iso_urb'[v].state = iso_urb[v].state
                              /\ iso_urb'[v].iso_packet = iso_urb[v].iso_packet
                              /\ iso_urb[v].unlinked => iso_urb'[v].unlinked
    BY <1>0, <2>1 DEF UrbRecord
  <2>3. IsoTypes' /\ ServesHead'
    BY <1>0, <2>1, <2>2 DEF ListInv, IsoTypes, ServesHead, InHand, InCallback
  <2>4. ListedOnce' /\ PacketsLeft' /\ OrderKept'
    <3>0. \A h \in DOMAIN iso_urbp_list : iso_urbp_list[h] \in IsoUrbs
      BY <1>0
    <3>1. ASSUME NEW h \in DOMAIN iso_urbp_list
          PROVE  /\ iso_urb'[iso_urbp_list[h]].state = iso_urb[iso_urbp_list[h]].state
                 /\ iso_urb'[iso_urbp_list[h]].iso_packet = iso_urb[iso_urbp_list[h]].iso_packet
                 /\ iso_urb[iso_urbp_list[h]].unlinked => iso_urb'[iso_urbp_list[h]].unlinked
      <4>1. PICK v \in IsoUrbs : v = iso_urbp_list[h]
        BY <3>0
      <4>2. /\ iso_urb'[v].state = iso_urb[v].state /\ iso_urb'[v].iso_packet = iso_urb[v].iso_packet
            /\ iso_urb[v].unlinked => iso_urb'[v].unlinked
        BY <2>2, <4>1
      <4> QED BY <4>1, <4>2
    <3>2. iso_urbp_list' = iso_urbp_list /\ (InHand => InHand' /\ iso_timer'.at = iso_timer.at)
      BY <2>1 DEF InHand
    <3> QED BY <3>1, <3>2, ListKept DEF ListInv
  <2> QED BY <2>3, <2>4 DEF ListInv
<1>5. CASE IsoTimerFires \/ IsoFrameEnds \/ IsoSkipUrb
  <2>1. UNCHANGED <<desc, iso_urbp_list, iso_urb, queued>> /\ ~InHand
    BY <1>5 DEF IsoTimerFires, IsoFrameEnds, IsoSkipUrb, IsoScanning, InHand
  <2>2. /\ iso_timer' \in TimerRecord /\ iso_timer'.pc \in {"scan", "idle"}
        /\ ~iso_timer'.seen => iso_timer'.at = 1
    <3>1. CASE IsoTimerFires \/ IsoFrameEnds
      BY <3>1, ConstantRecords DEF IsoTimerFires, IsoFrameEnds
    <3>2. CASE IsoSkipUrb
      BY <1>0, <3>2, Places DEF IsoSkipUrb, IsoScanning, TimerRecord
    <3> QED BY <1>5, <3>1, <3>2
  <2>3. iso_timer_pending' \in BOOLEAN /\ iso_next_frame_urbp' \in IsoUrbs \cup {NoUrb}
    BY <1>0, <1>5 DEF IsoTimerFires, IsoFrameEnds, IsoSkipUrb
  <2>4. queued' + InCallback' <= IsoReqs
    BY <1>0, <2>1, <2>2 DEF InCallback
  <2> QED BY <1>0, <2>1, <2>2, <2>3, <2>4 DEF ListInv, IsoTypes, ServesHead, ListedOnce, PacketsLeft,
                                        OrderKept, InHand
<1>6. CASE Packet
  <2>1. /\ iso_timer.pc = "scan" /\ ~iso_timer.seen /\ iso_timer.at = 1 /\ 1 \in DOMAIN iso_urbp_list
        /\ ~iso_urb[IsoCur].unlinked /\ IsoCur = iso_urbp_list[1] /\ IsoCur \in IsoUrbs
        /\ UNCHANGED <<desc, iso_urbp_list, iso_next_frame_urbp, iso_timer_pending>>
    BY <1>0, <1>6 DEF Packet, IsoScanning, IsoAtEnd, IsoCur, ListInv, ServesHead
  <2>2. /\ iso_urb' = [iso_urb EXCEPT ![IsoCur].iso_packet = @ + 1]
        /\ iso_timer' = [iso_timer EXCEPT !.seen = TRUE, !.pc = IF queued > 0 THEN "request" ELSE "sent"]
        /\ queued' = IF queued > 0 THEN queued - 1 ELSE 0
    BY <1>6 DEF Packet
  <2>3. /\ iso_timer' \in TimerRecord /\ iso_timer'.seen /\ iso_timer'.at = 1
        /\ iso_timer'.pc = IF queued > 0 THEN "request" ELSE "sent"
    BY <1>0, <2>1, <2>2, Places DEF TimerRecord
  <2>4. iso_urb[IsoCur] \in UrbRecord /\ iso_urb[IsoCur].iso_packet < Packets
    BY <1>0, <2>1 DEF ListInv, PacketsLeft, InHand
  <2>5. /\ iso_urb' \in [IsoUrbs -> UrbRecord]
        /\ iso_urb'[IsoCur].iso_packet = iso_urb[IsoCur].iso_packet + 1
        /\ \A v \in IsoUrbs : iso_urb'[v].state = iso_urb[v].state /\ iso_urb'[v].unlinked = iso_urb[v].unlinked
        /\ \A v \in IsoUrbs \ {IsoCur} : iso_urb'[v] = iso_urb[v]
    BY <1>0, <2>1, <2>2, <2>4, UrbUpdates
  <2>6. IsoTypes'
    BY <1>0, <2>1, <2>2, <2>3, <2>5 DEF IsoTypes, InCallback
  <2>7. ServesHead' /\ InHand'
    BY <2>1, <2>3 DEF ServesHead, InHand
  <2>8. \A j \in DOMAIN iso_urbp_list : j # 1 => iso_urbp_list[j] \in IsoUrbs \ {IsoCur}
    BY <1>0, <2>1 DEF ListInv, ListedOnce
  <2>9. ListedOnce'
    <3>1. /\ \A h, j \in DOMAIN iso_urbp_list : iso_urbp_list[h] = iso_urbp_list[j] => h = j
          /\ \A h \in DOMAIN iso_urbp_list :
               iso_urb[iso_urbp_list[h]].state = "listed" /\ iso_urbp_list[h] \in IsoUrbs
      BY <1>0 DEF ListInv, ListedOnce
    <3>2. /\ iso_urbp_list' = iso_urbp_list
          /\ \A v \in IsoUrbs : iso_urb'[v].state = iso_urb[v].state
      BY <2>1, <2>5
    <3> QED BY <3>1, <3>2 DEF ListedOnce
  <2>10. PacketsLeft'
    BY <1>0, <2>1, <2>3, <2>5, <2>7, <2>8 DEF ListInv, PacketsLeft, InHand
  <2>11. ASSUME NEW j \in DOMAIN iso_urbp_list, j > 1
         PROVE  iso_urb[iso_urbp_list[j]].iso_packet = 0
    <3>1. iso_urb[iso_urbp_list[j]] \in UrbRecord
      BY <1>0
    <3>2. iso_urb[iso_urbp_list[j]].iso_packet \in 0 .. Packets
      BY <3>1 DEF UrbRecord
    <3>3. ~iso_urb[iso_urbp_list[1]].unlinked /\ iso_urb[iso_urbp_list[1]].iso_packet # Packets
      BY <2>1, <2>4 DEF UrbRecord
    <3>4. ~(iso_urb[iso_urbp_list[j]].iso_packet > 0)
      BY <2>1, <2>11, <3>3 DEF ListInv, OrderKept
    <3> QED BY <3>2, <3>4
  <2>12. OrderKept'
    <3>1. ASSUME NEW h \in DOMAIN iso_urbp_list, NEW j \in DOMAIN iso_urbp_list, h < j
          PROVE  ~(iso_urb'[iso_urbp_list[j]].iso_packet > 0)
      <4>1. j > 1 /\ j # 1
        BY <1>0, <3>1
      <4>2. iso_urb'[iso_urbp_list[j]] = iso_urb[iso_urbp_list[j]]
        BY <2>5, <2>8, <4>1
      <4> QED BY <2>11, <4>1, <4>2
    <3> QED BY <2>1, <3>1 DEF OrderKept
  <2> QED BY <2>6, <2>7, <2>9, <2>10, <2>12 DEF ListInv
<1>7. ASSUME NEW again \in BOOLEAN, IsoRequestGiven(again)
      PROVE  ListInv'
  <2>1. /\ iso_timer.pc = "request" /\ iso_timer' = [iso_timer EXCEPT !.pc = "sent"]
        /\ queued' = IF again THEN queued + 1 ELSE queued
        /\ UNCHANGED <<desc, iso_urbp_list, iso_urb, iso_next_frame_urbp, iso_timer_pending>>
    BY <1>7 DEF IsoRequestGiven
  <2>2. iso_timer' \in TimerRecord /\ iso_timer'.at = iso_timer.at /\ iso_timer'.seen = iso_timer.seen
        /\ iso_timer'.pc = "sent"
    BY <1>0, <2>1, Places DEF TimerRecord
  <2>3. queued' \in Nat /\ queued' + InCallback' <= IsoReqs
    BY <1>0, <2>1, <2>2 DEF InCallback
  <2> QED BY <1>0, <2>1, <2>2, <2>3 DEF ListInv, IsoTypes, ServesHead, ListedOnce, PacketsLeft,
                                        OrderKept, InHand
<1>8. CASE Sent
  <2>1. /\ iso_timer.pc = "sent" /\ iso_timer.at = 1 /\ iso_timer.at \in DOMAIN iso_urbp_list
        /\ UNCHANGED <<desc, iso_next_frame_urbp, iso_timer_pending, queued>>
    BY <1>8 DEF Sent, ListInv, ServesHead, InHand
  <2>2. CASE iso_urb[IsoCur].iso_packet = Packets
    <3>1. GiveBack(FALSE)
      BY <1>8, <2>2 DEF Sent
    <3>2. iso_timer'.pc = "urb"
      BY <1>0, <3>1 DEF GiveBack, TimerRecord
    <3> QED BY <1>0, <2>1, <3>1, <3>2, GiveBackKeeps DEF ListInv, IsoTypes, InCallback
  <2>3. CASE iso_urb[IsoCur].iso_packet # Packets
    <3>1. iso_timer' = [iso_timer EXCEPT !.pc = "scan", !.at = @ + 1] /\ UNCHANGED <<iso_urbp_list, iso_urb>>
      BY <1>8, <2>3 DEF Sent
    <3>2. iso_timer' \in TimerRecord /\ iso_timer'.pc = "scan" /\ iso_timer'.seen = iso_timer.seen
      BY <1>0, <3>1, Places DEF TimerRecord
    <3>3. IsoCur \in IsoUrbs /\ iso_urb[IsoCur] \in UrbRecord
      BY <1>0, <2>1 DEF IsoCur
    <3>4. PacketsLeft'
      BY <1>0, <2>1, <2>3, <3>1, <3>3 DEF ListInv, PacketsLeft, UrbRecord, IsoCur
    <3>5. iso_timer.seen
      BY <2>1 DEF ListInv, ServesHead, InHand
    <3> QED BY <1>0, <2>1, <3>1, <3>2, <3>4, <3>5 DEF ListInv, IsoTypes, ServesHead, ListedOnce,
                                            OrderKept, InHand, InCallback
  <2> QED BY <2>2, <2>3
<1>9. CASE ReturnUrb
  <2>1. /\ iso_timer.pc = "scan" /\ iso_timer.at \in DOMAIN iso_urbp_list /\ GiveBack(iso_timer.seen)
        /\ UNCHANGED <<desc, iso_next_frame_urbp, iso_timer_pending, queued>>
    BY <1>9 DEF ReturnUrb, IsoScanning, IsoAtEnd
  <2>2. iso_timer'.pc = "urb" /\ (~iso_timer.seen => iso_timer.at = 1)
    BY <1>0, <2>1 DEF GiveBack, TimerRecord, ListInv, ServesHead
  <2> QED BY <1>0, <2>1, <2>2, GiveBackKeeps DEF ListInv, IsoTypes, InCallback
<1>10. ASSUME NEW u \in IsoUrbs, IsoUrbGiven(u)
       PROVE  ListInv'
  <2>1. /\ iso_timer.pc = "urb" /\ iso_urb[u].state = "giving" /\ iso_urb' = [iso_urb EXCEPT ![u] = FreeIsoUrb]
        /\ iso_timer' = [iso_timer EXCEPT !.pc = "scan", !.at = 1]
        /\ UNCHANGED <<desc, iso_urbp_list, iso_next_frame_urbp, iso_timer_pending, queued>>
    BY <1>10 DEF IsoUrbGiven
  <2>2. iso_timer' \in TimerRecord /\ iso_timer'.pc = "scan" /\ iso_timer'.at = 1
    BY <1>0, <2>1, Places DEF TimerRecord
  <2>3. iso_urb' \in [IsoUrbs -> UrbRecord]
    BY <1>0, <2>1, ConstantRecords
  <2>4. \A h \in DOMAIN iso_urbp_list : iso_urb'[iso_urbp_list[h]] = iso_urb[iso_urbp_list[h]]
    BY <1>0, <2>1 DEF ListInv, ListedOnce
  <2>5. IsoTypes' /\ ServesHead'
    BY <1>0, <2>1, <2>2, <2>3 DEF IsoTypes, InCallback, ServesHead, InHand
  <2>6. ListedOnce' /\ PacketsLeft' /\ OrderKept'
    <3>1. iso_urbp_list' = iso_urbp_list /\ ~InHand
      BY <2>1 DEF InHand
    <3> QED BY <2>4, <3>1, ListKept DEF ListInv
  <2> QED BY <2>5, <2>6 DEF ListInv
<1> QED
  BY <1>1, <1>2, <1>3, <1>4, <1>5, <1>6, <1>7, <1>8, <1>9, <1>10 DEF IsoNext, IsoTimer

(* The type invariant, with what makes it worth proving: iso_packet never  *)
(* runs past the urb's array of descriptors.                               *)
THEOREM IsoTypeCorrect == IsoSpec => []IsoTypeOK
<1>1. ListInv /\ Schedule => IsoTypeOK
  BY Numbers DEF ListInv, IsoTypes, Schedule, IsoTypeOK, UrbRecord, InCallback
<1>2. ListInv /\ [IsoNext]_iso_vars => ListInv'
  BY ListStep
<1>3. Schedule /\ [IsoNext]_iso_vars => Schedule'
  BY ScheduleStep
<1> QED BY ScheduleInit, ListInit, <1>1, <1>2, <1>3, PTL DEF IsoSpec

(* Packets leave in the order of the host's urbs, for every number of urbs *)
(* on the list and however callbacks, unlinks and disables interleave with *)
(* dummy_timer's scan.                                                     *)
THEOREM IsoOrderKept == IsoSpec => []OrderKept
<1>1. ListInv => OrderKept
  BY DEF ListInv
<1>2. ListInv /\ [IsoNext]_iso_vars => ListInv'
  BY ListStep
<1> QED BY ListInit, <1>1, <1>2, PTL DEF IsoSpec

(* Both: the packets of an isochronous endpoint go in turn.                *)
THEOREM IsoPacketsInTurn == IsoSpec => []PacketsInTurn
<1>1. Paced /\ OrderKept => PacketsInTurn
  BY DEF PacketsInTurn
<1> QED BY IsoPaced, IsoOrderKept, <1>1, PTL

-----------------------------------------------------------------------------
(* UdcPort.                                                                *)

PortRecord == [status : SUBSET Flags, old_status : SUBSET Flags, active : BOOLEAN,
               old_active : BOOLEAN, resuming : BOOLEAN, due : BOOLEAN]

PortTypes ==
  /\ port \in PortRecord /\ rh_state \in {"running", "suspended"}
  /\ pullup \in BOOLEAN /\ udc_suspended \in BOOLEAN
  /\ known \in BOOLEAN /\ stale \in BOOLEAN /\ reading \in BOOLEAN
  /\ doing \in [Threads -> Doings]

Calling == {th \in Threads : doing[th] \in Callbacks}
Counted == callback_usage = Cardinality(Calling)

Connected(s) == "connection" \in s

(* What the host knows is what the port is, and what it will compare with  *)
(* when it changes; or the host is told, or will read again.               *)
Noted == ~stale /\ "c_connection" \notin port.status =>
           (Connected(port.status) <=> known) /\ (Connected(port.old_status) <=> known)

(* A port without power has nothing to say, the link is as set_link_state  *)
(* left it, and the hub's answer waits for a callback only in one.         *)
Link(q, up, rh) ==
  /\ "power" \notin q.status => q.status = {}
  /\ q.active = /\ up /\ rh = "running" /\ {"power", "connection", "enable"} \subseteq q.status
                /\ "suspend" \notin q.status
  /\ q.status \cap {"enable", "suspend"} # {} => Connected(q.status)

Answers == reading => doing["hub"] # "none"

PortIInv == PortTypes /\ Counted /\ Noted /\ Link(port, Up, rh_state) /\ Answers

-----------------------------------------------------------------------------
(* The count of callbacks, as threads leave the lock for one and return.   *)
LEMMA CallingFacts ==
  ASSUME PortTypes
  PROVE  IsFiniteSet(Calling) /\ Cardinality(Calling) \in Nat
<1>1. IsFiniteSet(Threads)
  <2>1. Threads = ((((({} \cup {"hub"}) \cup {"poll"}) \cup {"gadget"}) \cup {"pm"}) \cup {"bus"})
    BY DEF Threads
  <2> QED BY <2>1, FS_EmptySet, FS_AddElement
<1>2. IsFiniteSet(Calling)
  BY <1>1, FS_Subset DEF Calling
<1> QED BY <1>2, FS_CardinalityType

LEMMA CallBegins ==
  ASSUME PortTypes, Counted, NEW th \in Threads, NEW e \in Callbacks, doing[th] \notin Callbacks,
         doing' = [doing EXCEPT ![th] = e], callback_usage' = callback_usage + 1
  PROVE  Counted'
<1>1. Calling' = Calling \cup {th} /\ th \notin Calling
  BY DEF Calling, PortTypes
<1> QED BY <1>1, CallingFacts, FS_AddElement DEF Counted

LEMMA CallReturns ==
  ASSUME PortTypes, Counted, NEW th \in Threads, doing[th] \in Callbacks,
         doing' = [doing EXCEPT ![th] = "none"], callback_usage' = callback_usage - 1
  PROVE  Counted'
<1>1. Calling' = Calling \ {th} /\ th \in Calling
  BY DEF Calling, PortTypes, Callbacks
<1> QED BY <1>1, CallingFacts, FS_RemoveElement DEF Counted

LEMMA NoCall ==
  ASSUME PortTypes, Counted, NEW th \in Threads, NEW e \in Doings \ Callbacks, doing[th] \notin Callbacks,
         doing' = [doing EXCEPT ![th] = e], callback_usage' = callback_usage
  PROVE  Counted'
<1>1. Calling' = Calling
  BY DEF Calling, PortTypes
<1> QED BY <1>1 DEF Counted

-----------------------------------------------------------------------------
(* set_link_state_by_speed sets the port right for any status it is given, *)
(* and notes a change of connection against old_status.                    *)
LEMMA LinkedRight ==
  ASSUME NEW p \in PortRecord, NEW up \in BOOLEAN, NEW rh \in {"running", "suspended"},
         NEW q, q = Linked(p, up, rh)
  PROVE  /\ q \in PortRecord /\ q.old_status = p.old_status
         /\ Link(q, up, rh)
         /\ "power" \in q.status <=> "power" \in p.status
         /\ "power" \in p.status /\ "c_connection" \notin q.status =>
              /\ "c_connection" \notin p.status
              /\ Connected(q.status) <=> Connected(p.old_status)
<1> DEFINE o == [p EXCEPT !.active = FALSE]
           b == BySpeed(o, up, rh)
<1>1. /\ o \in PortRecord /\ o.status = p.status /\ o.old_status = p.old_status /\ ~o.active
      /\ p.status \subseteq Flags /\ p.old_status \subseteq Flags
  BY DEF PortRecord
<1>2. q = [b EXCEPT !.resuming = @ /\ "enable" \in b.status /\ ~b.active]
  BY DEF Linked
<1>3. CASE "power" \notin p.status
  <2>1. b = [o EXCEPT !.status = {}]
    BY <1>1, <1>3 DEF BySpeed
  <2>2. b \in PortRecord /\ b.status = {} /\ b.old_status = p.old_status /\ ~b.active
    BY <1>1, <2>1 DEF PortRecord
  <2>3. q \in PortRecord /\ q.status = {} /\ q.old_status = p.old_status /\ q.active = FALSE
    BY <1>2, <2>2 DEF PortRecord
  <2> QED BY <1>3, <2>3 DEF Link
<1>4. CASE "power" \in p.status /\ ~up
  <2> DEFINE s == (p.status \ {"connection", "enable", "suspend"})
                     \cup (IF "connection" \in p.old_status THEN {"c_connection"} ELSE {})
  <2>1. b = [o EXCEPT !.status = s]
    BY <1>1, <1>4 DEF BySpeed
  <2>2. s \subseteq Flags
    BY <1>1 DEF Flags, Changes
  <2>3. /\ "power" \in s /\ "connection" \notin s /\ "enable" \notin s /\ "suspend" \notin s
        /\ "c_connection" \notin s => "c_connection" \notin p.status /\ "connection" \notin p.old_status
    BY <1>4
  <2> HIDE DEF s
  <2>4. b \in PortRecord /\ b.status = s /\ b.old_status = p.old_status /\ ~b.active
    BY <1>1, <2>1, <2>2 DEF PortRecord
  <2>5. q \in PortRecord /\ q.status = s /\ q.old_status = p.old_status /\ q.active = FALSE
    BY <1>2, <2>4 DEF PortRecord
  <2> QED BY <1>4, <2>3, <2>5 DEF Link, Connected
<1>5. CASE "power" \in p.status /\ up
  <2> DEFINE t == p.status \cup {"connection"}
                    \cup (IF "connection" \notin p.old_status THEN {"c_connection"} ELSE {})
             s == IF "enable" \in t THEN t ELSE t \ {"suspend"}
             a == "enable" \in t /\ "suspend" \notin t /\ rh # "suspended"
  <2>1. b = [o EXCEPT !.status = s, !.active = a]
    BY <1>1, <1>5 DEF BySpeed
  <2>2. s \subseteq Flags
    BY <1>1 DEF Flags, Changes
  <2>3. /\ "power" \in s /\ "connection" \in s
        /\ a = (rh = "running" /\ "enable" \in s /\ "suspend" \notin s) /\ a \in BOOLEAN
        /\ "c_connection" \notin s => "c_connection" \notin p.status /\ "connection" \in p.old_status
    BY <1>5
  <2> HIDE DEF s, a
  <2>4. b \in PortRecord /\ b.status = s /\ b.old_status = p.old_status /\ b.active = a
    BY <1>1, <2>1, <2>2, <2>3 DEF PortRecord
  <2>5. q \in PortRecord /\ q.status = s /\ q.old_status = p.old_status /\ q.active = a
    BY <1>2, <2>4 DEF PortRecord
  <2> QED BY <1>5, <2>3, <2>5 DEF Link, Connected
<1> QED BY <1>3, <1>4, <1>5

(* The same for set_link_state, which settles the port or leaves the lock  *)
(* for a callback.                                                         *)
LEMMA SetLinkStateRight ==
  ASSUME PortTypes, Counted, NEW th \in Threads, Free(th), NEW p \in PortRecord,
         NEW up \in BOOLEAN, NEW rh \in {"running", "suspended"}, SetLinkState(th, p, up, rh)
  PROVE  /\ port' \in PortRecord /\ Link(port', up, rh)
         /\ "power" \in p.status /\ "c_connection" \notin port'.status =>
              /\ "c_connection" \notin p.status
              /\ Connected(port'.status) <=> Connected(p.old_status)
              /\ Connected(port'.old_status) <=> Connected(p.old_status)
         /\ "power" \notin p.status => port'.status = {} /\ port'.old_status \in {{}, p.old_status}
         /\ doing' \in [Threads -> Doings] /\ \A x \in Threads \ {th} : doing'[x] = doing[x]
         /\ doing'[th] = "none" => port'.old_status = port'.status
         /\ Counted'
<1> DEFINE q == Linked(p, up, rh)
           e == Event(q, ints_enabled)
           ends == e \in {"reset", "disconnect"}
           nukes == ends /\ pending_requests
           d == IF nukes THEN (IF e = "reset" THEN "nuke_reset" ELSE "nuke_disconnect") ELSE e
<1>1. /\ q \in PortRecord /\ q.old_status = p.old_status /\ Link(q, up, rh)
      /\ "power" \in q.status <=> "power" \in p.status
      /\ "power" \in p.status /\ "c_connection" \notin q.status =>
           /\ "c_connection" \notin p.status
           /\ Connected(q.status) <=> Connected(p.old_status)
  BY LinkedRight
<1>2. e \in Callbacks \cup {"none"}
  BY DEF Event, Callbacks
<1>3. /\ port' = IF e = "none" THEN Settled(q) ELSE q
      /\ callback_usage' = callback_usage + (IF e = "none" \/ nukes THEN 0 ELSE 1)
      /\ doing' = [doing EXCEPT ![th] = d]
  BY DEF SetLinkState
<1>4. /\ d \in Doings /\ (d = "none" => e = "none")
      /\ (e = "none" \/ nukes) => d \notin Callbacks
      /\ ~(e = "none" \/ nukes) => d \in Callbacks
  BY <1>2 DEF Doings, Callbacks
<1>5. doing[th] \notin Callbacks /\ doing \in [Threads -> Doings]
  BY DEF Free, Callbacks, PortTypes
<1> HIDE DEF q, e, nukes, d
<1>6. /\ port' \in PortRecord /\ port'.status = q.status /\ port'.active = q.active
      /\ port'.old_status = IF e = "none" THEN q.status ELSE p.old_status
  BY <1>1, <1>3 DEF Settled, PortRecord
<1>7. Link(port', up, rh)
  BY <1>1, <1>6 DEF Link
<1>8. /\ doing' \in [Threads -> Doings] /\ doing'[th] = d
      /\ \A x \in Threads \ {th} : doing'[x] = doing[x]
  BY <1>3, <1>4, <1>5
<1>9. callback_usage + 0 = callback_usage
  BY CallingFacts DEF Counted
<1>10. Counted'
  <2>1. CASE e = "none" \/ nukes
    BY <1>3, <1>4, <1>5, <1>9, <2>1, NoCall
  <2>2. CASE ~(e = "none" \/ nukes)
    BY <1>3, <1>4, <1>5, <2>2, CallBegins
  <2> QED BY <2>1, <2>2
<1> QED BY <1>1, <1>4, <1>6, <1>7, <1>8, <1>10 DEF Link

-----------------------------------------------------------------------------
(* What the caller of set_link_state has still to see to: the report it    *)
(* makes of the port (p), and what the host has been told by then.         *)
LEMMA LinkStep ==
  ASSUME PortIInv, NEW th \in Threads, Free(th), NEW p \in PortRecord,
         NEW up \in BOOLEAN, up = Up', rh_state' \in {"running", "suspended"},
         SetLinkState(th, p, up, rh_state'),
         pullup' \in BOOLEAN, udc_suspended' \in BOOLEAN,
         p.old_status = port.old_status,
         ~stale' => /\ ~stale /\ ("power" \notin p.status => "power" \notin port.status)
                    /\ ("c_connection" \notin p.status => "c_connection" \notin port.status),
         stale' \in BOOLEAN, known' = known, reading' = reading
  PROVE  PortIInv'
<1>1. /\ PortTypes /\ Counted /\ Noted /\ Answers /\ Link(port, Up, rh_state)
      /\ known \in BOOLEAN /\ reading \in BOOLEAN
  BY DEF PortIInv, PortTypes
<1>2. /\ port' \in PortRecord /\ Link(port', up, rh_state')
      /\ "power" \in p.status /\ "c_connection" \notin port'.status =>
           /\ "c_connection" \notin p.status
           /\ Connected(port'.status) <=> Connected(p.old_status)
           /\ Connected(port'.old_status) <=> Connected(p.old_status)
      /\ "power" \notin p.status => port'.status = {} /\ port'.old_status \in {{}, p.old_status}
      /\ doing' \in [Threads -> Doings] /\ \A x \in Threads \ {th} : doing'[x] = doing[x]
      /\ Counted'
  BY <1>1, SetLinkStateRight
<1>3. PortTypes'
  BY <1>1, <1>2 DEF PortTypes
<1>4. Noted'
  <2> SUFFICES ASSUME ~stale', "c_connection" \notin port'.status
               PROVE  (Connected(port'.status) <=> known) /\ (Connected(port'.old_status) <=> known)
    BY DEF Noted
  <2>1. CASE "power" \in p.status
    <3>1. (Connected(port.old_status) <=> known)
      BY <1>1, <1>2, <2>1 DEF Noted
    <3> QED BY <1>2, <2>1, <3>1 DEF Connected
  <2>2. CASE "power" \notin p.status
    <3>1. port.status = {}
      BY <1>1, <2>2 DEF Link
    <3>2. ~known /\ (Connected(port.old_status) <=> known)
      BY <1>1, <3>1 DEF Noted, Connected
    <3>3. ~Connected(port.old_status)
      BY <3>2
    <3>4. ~Connected(port'.status) /\ ~Connected(port'.old_status)
      BY <1>2, <2>2, <3>3 DEF Connected
    <3> QED BY <3>2, <3>4
  <2> QED BY <2>1, <2>2
<1>5. Answers'
  <2> SUFFICES ASSUME reading PROVE doing'["hub"] # "none"
    BY DEF Answers
  <2>1. doing["hub"] # "none" /\ "hub" \in Threads /\ th # "hub"
    BY <1>1 DEF Answers, Threads, Free
  <2> QED BY <1>2, <2>1
<1> QED BY <1>2, <1>3, <1>4, <1>5 DEF PortIInv

(* A step that leaves the link, and those who are out of the lock, alone.  *)
LEMMA PortQuiet ==
  ASSUME PortIInv, port' \in PortRecord, port'.status = port.status, port'.active = port.active,
         port'.old_status = port.old_status,
         UNCHANGED <<rh_state, pullup, udc_suspended, known, stale, reading, doing, callback_usage>>
  PROVE  PortIInv'
<1>1. Calling' = Calling /\ Up' = Up
  BY DEF Calling, Up
<1> QED BY <1>1 DEF PortIInv, PortTypes, Counted, Noted, Link, Answers, Up

LEMMA SameFields ==
  ASSUME NEW p \in PortRecord, NEW s \in SUBSET Flags, NEW x \in BOOLEAN, NEW y \in BOOLEAN
  PROVE  /\ [p EXCEPT !.status = s] \in PortRecord
         /\ [p EXCEPT !.status = s].status = s /\ [p EXCEPT !.status = s].old_status = p.old_status
         /\ [p EXCEPT !.resuming = x, !.due = y] \in PortRecord
         /\ [p EXCEPT !.resuming = x, !.due = y].status = p.status
         /\ [p EXCEPT !.resuming = x, !.due = y].old_status = p.old_status
         /\ [p EXCEPT !.resuming = x, !.due = y].active = p.active
BY DEF PortRecord

LEMMA PortStart == PortInit => PortIInv
<1> SUFFICES ASSUME PortInit PROVE PortIInv
  OBVIOUS
<1>1. PortTypes /\ Noted /\ Answers
  <2>1. port \in PortRecord /\ doing \in [Threads -> Doings]
    BY DEF PortInit, PortRecord, Doings
  <2>2. ~Connected(port.status) /\ ~Connected(port.old_status) /\ ~known /\ ~reading
    BY DEF PortInit, Connected
  <2>3. Noted /\ Answers
    BY <2>2 DEF Noted, Answers
  <2>4. PortTypes
    BY <2>1 DEF PortInit, PortTypes
  <2> QED BY <2>3, <2>4
<1>2. Calling = {}
  BY DEF PortInit, Calling, Callbacks
<1>3. Counted
  BY <1>2, FS_EmptySet DEF PortInit, Counted
<1>4. Link(port, Up, rh_state)
  BY DEF PortInit, Link, Up
<1> QED BY <1>1, <1>3, <1>4 DEF PortIInv

-----------------------------------------------------------------------------
(* Requests of the hub driver.  One that does not read the port changes at *)
(* most a flag before set_link_state looks at it.                          *)
LEMMA HubStep ==
  ASSUME PortIInv, NEW p \in PortRecord, HubRequest(p), p.old_status = port.old_status,
         ~stale' => /\ ~stale /\ ("power" \notin p.status => "power" \notin port.status)
                    /\ ("c_connection" \notin p.status => "c_connection" \notin port.status),
         stale' \in BOOLEAN, known' = known, reading' = reading
  PROVE  PortIInv'
<1>1. /\ "hub" \in Threads /\ Free("hub") /\ SetLinkState("hub", p, Up, rh_state)
      /\ pullup' = pullup /\ udc_suspended' = udc_suspended /\ rh_state' = rh_state
  BY DEF HubRequest, Threads
<1>2. /\ pullup \in BOOLEAN /\ udc_suspended \in BOOLEAN /\ rh_state \in {"running", "suspended"}
      /\ Up \in BOOLEAN
  BY DEF PortIInv, PortTypes, Up
<1>3. Up' = Up
  BY <1>1 DEF Up
<1> QED BY <1>1, <1>2, <1>3, LinkStep

LEMMA PortFields ==
  ASSUME PortIInv
  PROVE  /\ port \in PortRecord /\ port.status \subseteq Flags /\ stale \in BOOLEAN
         /\ reading \in BOOLEAN /\ port.resuming \in BOOLEAN
         /\ "power" \in Flags /\ "reset" \in Flags /\ "suspend" \in Flags /\ "enable" \in Flags
         /\ Changes \subseteq Flags
BY DEF PortIInv, PortTypes, PortRecord, Flags

LEMMA SetPortPowerStep ==
  ASSUME PortIInv, SetPortPower PROVE PortIInv'
<1> DEFINE p == [port EXCEPT !.status = port.status \cup {"power"}]
<1>1. /\ p \in PortRecord /\ p.status = port.status \cup {"power"} /\ p.old_status = port.old_status
  <2>1. port.status \cup {"power"} \in SUBSET Flags
    BY PortFields
  <2> QED BY <2>1, PortFields, SameFields
<1>2. HubRequest(p) /\ stale' = stale /\ known' = known /\ reading' = reading
  BY DEF SetPortPower
<1> HIDE DEF p
<1> QED BY <1>1, <1>2, PortFields, HubStep

LEMMA ClearPortPowerStep ==
  ASSUME PortIInv, ClearPortPower PROVE PortIInv'
<1> DEFINE p == [port EXCEPT !.status = port.status \ {"power"}]
<1>1. p \in PortRecord /\ p.old_status = port.old_status
  BY PortFields, SameFields
<1>2. HubRequest(p) /\ stale' = TRUE /\ known' = known /\ reading' = reading
  BY DEF ClearPortPower
<1> HIDE DEF p
<1> QED BY <1>1, <1>2, HubStep

LEMMA ClearPortFeatureStep ==
  ASSUME PortIInv, NEW f \in Changes \cup {"enable"}, ClearPortFeature(f) PROVE PortIInv'
<1> DEFINE p == [port EXCEPT !.status = port.status \ {f}]
<1>1. p \in PortRecord /\ p.status = port.status \ {f} /\ p.old_status = port.old_status
  BY PortFields, SameFields
<1>2. /\ HubRequest(p) /\ stale' = (stale \/ f = "c_connection") /\ known' = known
      /\ reading' = reading
  BY DEF ClearPortFeature
<1>3. f # "power"
  BY DEF Changes
<1> HIDE DEF p
<1> QED BY <1>1, <1>2, <1>3, PortFields, HubStep

LEMMA SetPortResetStep ==
  ASSUME PortIInv, SetPortReset PROVE PortIInv'
<1> DEFINE s == (port.status \ {"enable"}) \cup {"reset"}
           p == [port EXCEPT !.status = s, !.due = FALSE]
<1>1. s \in SUBSET Flags
  BY PortFields
<1>2. p \in PortRecord /\ p.status = s /\ p.old_status = port.old_status
  <2> HIDE DEF s
  <2> QED BY <1>1, PortFields DEF PortRecord
<1>3. HubRequest(p) /\ stale' = stale /\ known' = known /\ reading' = reading
  BY DEF SetPortReset
<1>4. ("power" \notin s => "power" \notin port.status)
      /\ ("c_connection" \notin s => "c_connection" \notin port.status)
  OBVIOUS
<1> HIDE DEF p, s
<1> QED BY <1>2, <1>3, <1>4, PortFields, HubStep

LEMMA SetPortSuspendStep ==
  ASSUME PortIInv, SetPortSuspend PROVE PortIInv'
<1> DEFINE p == [port EXCEPT !.status = port.status \cup {"suspend"}]
<1>1. /\ p \in PortRecord /\ p.status = port.status \cup {"suspend"}
      /\ p.old_status = port.old_status
  <2>1. port.status \cup {"suspend"} \in SUBSET Flags
    BY PortFields
  <2> QED BY <2>1, PortFields, SameFields
<1>2. HubRequest(p) /\ stale' = stale /\ known' = known /\ reading' = reading
  BY DEF SetPortSuspend
<1> HIDE DEF p
<1> QED BY <1>1, <1>2, PortFields, HubStep

LEMMA ClearPortSuspendStep ==
  ASSUME PortIInv, ClearPortSuspend PROVE PortIInv'
<1>1. /\ port' = [port EXCEPT !.resuming = TRUE, !.due = FALSE]
      /\ UNCHANGED <<rh_state, pullup, udc_suspended, known, stale, reading, doing, callback_usage>>
  BY DEF ClearPortSuspend
<1>2. port' \in PortRecord /\ port'.status = port.status /\ port'.active = port.active
      /\ port'.old_status = port.old_status
  BY <1>1, PortFields, SameFields
<1> QED BY <1>1, <1>2, PortQuiet

(* A resume or a reset that is due changes what the port is, not what it   *)
(* is compared with.                                                       *)
LEMMA DueFields ==
  ASSUME NEW p \in PortRecord
  PROVE  /\ Resumed(p) \in PortRecord /\ Resumed(p).old_status = p.old_status
         /\ ResetDone(p) \in PortRecord /\ ResetDone(p).old_status = p.old_status
         /\ "power" \in Resumed(p).status <=> "power" \in p.status
         /\ "power" \in ResetDone(p).status <=> "power" \in p.status
         /\ "c_connection" \in Resumed(p).status <=> "c_connection" \in p.status
         /\ "c_connection" \in ResetDone(p).status <=> "c_connection" \in p.status
<1> DEFINE s == (p.status \ {"suspend"}) \cup {"c_suspend"}
           t == (p.status \ {"reset"}) \cup {"c_reset"} \cup (IF pullup THEN {"enable"} ELSE {})
<1>1. /\ s \in SUBSET Flags /\ t \in SUBSET Flags
      /\ "power" \in s <=> "power" \in p.status
      /\ "power" \in t <=> "power" \in p.status
      /\ "c_connection" \in s <=> "c_connection" \in p.status
      /\ "c_connection" \in t <=> "c_connection" \in p.status
  BY DEF PortRecord, Flags, Changes
<1>2. Resumed(p) \in {p, [p EXCEPT !.status = s]} /\ ResetDone(p) \in {p, [p EXCEPT !.status = t]}
  BY DEF Resumed, ResetDone
<1> HIDE DEF s, t
<1>3. /\ [p EXCEPT !.status = s] \in PortRecord /\ [p EXCEPT !.status = t] \in PortRecord
      /\ [p EXCEPT !.status = s].status = s /\ [p EXCEPT !.status = t].status = t
      /\ [p EXCEPT !.status = s].old_status = p.old_status
      /\ [p EXCEPT !.status = t].old_status = p.old_status
  BY <1>1, SameFields
<1> QED BY <1>1, <1>2, <1>3

(* GetPortStatus: the hub reads the port as set_link_state left it, at     *)
(* once or when its callback has returned.                                 *)
LEMMA GetPortStatusStep ==
  ASSUME PortIInv, GetPortStatus PROVE PortIInv'
<1> DEFINE p == ResetDone(Resumed(port))
<1>1. p \in PortRecord /\ p.old_status = port.old_status
  BY PortFields, DueFields
<1>2. /\ ("power" \notin p.status => "power" \notin port.status)
      /\ ("c_connection" \notin p.status => "c_connection" \notin port.status)
  BY PortFields, DueFields
<1>3. /\ HubRequest(p) /\ reading' = (doing'["hub"] # "none")
      /\ known' = (IF reading' THEN known ELSE "connection" \in port'.status)
      /\ stale' = (stale /\ reading')
  BY DEF GetPortStatus
<1> HIDE DEF p
<1>4. /\ "hub" \in Threads /\ Free("hub") /\ SetLinkState("hub", p, Up, rh_state)
      /\ pullup' = pullup /\ udc_suspended' = udc_suspended /\ rh_state' = rh_state
      /\ Up' = Up
  BY <1>3 DEF HubRequest, Threads, Up
<1>5. /\ PortTypes /\ Counted /\ Noted /\ Link(port, Up, rh_state)
      /\ pullup \in BOOLEAN /\ udc_suspended \in BOOLEAN /\ rh_state \in {"running", "suspended"}
      /\ Up \in BOOLEAN /\ known \in BOOLEAN /\ stale \in BOOLEAN
  BY DEF PortIInv, PortTypes, Up
<1>6. /\ port' \in PortRecord /\ Link(port', Up, rh_state)
      /\ "power" \in p.status /\ "c_connection" \notin port'.status =>
           /\ "c_connection" \notin p.status
           /\ Connected(port'.status) <=> Connected(p.old_status)
           /\ Connected(port'.old_status) <=> Connected(p.old_status)
      /\ "power" \notin p.status => port'.status = {} /\ port'.old_status \in {{}, p.old_status}
      /\ doing' \in [Threads -> Doings]
      /\ doing'["hub"] = "none" => port'.old_status = port'.status
      /\ Counted'
  BY <1>1, <1>4, <1>5, SetLinkStateRight
<1>7. reading' \in BOOLEAN /\ known' \in BOOLEAN /\ stale' \in BOOLEAN
  <2>1. reading' \in BOOLEAN
    BY <1>3
  <2>2. stale' \in BOOLEAN
    BY <1>3, <1>5, <2>1
  <2>3. CASE reading'
    BY <1>3, <1>5, <2>1, <2>2, <2>3
  <2>4. CASE ~reading'
    <3>1. known' = ("connection" \in port'.status)
      BY <1>3, <2>4
    <3> QED BY <2>1, <2>2, <3>1
  <2> QED BY <2>3, <2>4
<1>8. PortTypes' /\ Answers'
  BY <1>3, <1>4, <1>5, <1>6, <1>7 DEF PortTypes, Answers
<1>9. Noted'
  <2> SUFFICES ASSUME ~stale', "c_connection" \notin port'.status
               PROVE  (Connected(port'.status) <=> known') /\ (Connected(port'.old_status) <=> known')
    BY DEF Noted
  <2>1. CASE ~reading'
    <3>1. known' = ("connection" \in port'.status) /\ port'.old_status = port'.status
      BY <1>3, <1>6, <2>1
    <3> QED BY <3>1 DEF Connected
  <2>2. CASE reading'
    <3>1. ~stale /\ known' = known
      BY <1>3, <2>2
    <3>2. CASE "power" \in p.status
      <4>1. (Connected(port.old_status) <=> known)
        BY <1>2, <1>5, <1>6, <3>1, <3>2 DEF Noted
      <4> QED BY <1>1, <1>6, <3>1, <3>2, <4>1 DEF Connected
    <3>3. CASE "power" \notin p.status
      <4>1. port.status = {}
        BY <1>2, <1>5, <3>3 DEF Link
      <4>2. ~known /\ ~Connected(port.old_status)
        BY <1>5, <3>1, <4>1 DEF Noted, Connected
      <4>3. ~Connected(port'.status) /\ ~Connected(port'.old_status)
        BY <1>1, <1>6, <3>3, <4>2 DEF Connected
      <4> QED BY <3>1, <4>2, <4>3
    <3> QED BY <3>2, <3>3
  <2> QED BY <1>7, <2>1, <2>2
<1> QED BY <1>4, <1>6, <1>8, <1>9 DEF PortIInv

(* A thread that comes back under the lock: every request is given back,   *)
(* and the driver is called next; or it has been, and the port is settled. *)
LEMMA NukeEndsStep ==
  ASSUME PortIInv, NEW th \in Threads, NukeEnds(th) PROVE PortIInv'
<1> DEFINE e == IF doing[th] = "nuke_reset" THEN "reset" ELSE "disconnect"
<1>1. /\ doing[th] \in {"nuke_reset", "nuke_disconnect"} /\ callback_usage' = callback_usage + 1
      /\ doing' = [doing EXCEPT ![th] = e]
      /\ UNCHANGED <<port, rh_state, pullup, udc_suspended, known, stale, reading>>
  BY DEF NukeEnds
<1>2. e \in Callbacks /\ doing[th] \notin Callbacks /\ e \in Doings /\ e # "none"
  BY <1>1 DEF Callbacks, Doings
<1> HIDE DEF e
<1>3. Counted'
  BY <1>1, <1>2, CallBegins DEF PortIInv
<1>4. PortTypes' /\ Answers'
  BY <1>1, <1>2 DEF PortIInv, PortTypes, Answers
<1>5. Noted' /\ Link(port, Up, rh_state)'
  BY <1>1 DEF PortIInv, Noted, Link, Up
<1> QED BY <1>3, <1>4, <1>5 DEF PortIInv

LEMMA CallbackEndsStep ==
  ASSUME PortIInv, NEW th \in Threads, CallbackEnds(th) PROVE PortIInv'
<1>1. /\ doing[th] \in Callbacks /\ callback_usage' = callback_usage - 1
      /\ doing' = [doing EXCEPT ![th] = "none"] /\ port' = Settled(port)
      /\ known' = (IF th = "hub" /\ reading THEN "connection" \in port.status ELSE known)
      /\ stale' = (stale /\ ~(th = "hub" /\ reading))
      /\ reading' = (reading /\ th # "hub")
      /\ UNCHANGED <<rh_state, pullup, udc_suspended>>
  BY DEF CallbackEnds
<1>2. /\ PortTypes /\ Counted /\ Noted /\ Link(port, Up, rh_state) /\ Answers
      /\ known \in BOOLEAN /\ stale \in BOOLEAN /\ reading \in BOOLEAN
      /\ doing \in [Threads -> Doings] /\ "none" \in Doings /\ port \in PortRecord
  BY DEF PortIInv, PortTypes, Doings
<1>3. Counted'
  BY <1>1, <1>2, CallReturns
<1>4. /\ port' \in PortRecord /\ port'.status = port.status /\ port'.old_status = port.status
      /\ port'.active = port.active
  BY <1>1, <1>2 DEF Settled, PortRecord
<1>5. known' \in BOOLEAN /\ stale' \in BOOLEAN /\ reading' \in BOOLEAN
      /\ doing' \in [Threads -> Doings]
  <2>1. stale' \in BOOLEAN
    BY <1>1
  <2>2. reading' \in BOOLEAN
    BY <1>1
  <2>3. known' \in BOOLEAN
    <3>1. CASE th = "hub" /\ reading
      <4>1. known' = ("connection" \in port.status)
        BY <1>1, <3>1
      <4> QED BY <4>1
    <3>2. CASE ~(th = "hub" /\ reading)
      <4>1. known' = known
        BY <1>1, <3>2
      <4> QED BY <1>2, <4>1
    <3> QED BY <3>1, <3>2
  <2>4. doing' \in [Threads -> Doings]
    BY <1>1, <1>2
  <2> QED BY <2>1, <2>2, <2>3, <2>4
<1>6. PortTypes'
  BY <1>1, <1>2, <1>4, <1>5 DEF PortTypes
<1>7. Answers'
  <2> SUFFICES ASSUME reading' PROVE doing'["hub"] # "none"
    BY DEF Answers
  <2>1. reading /\ th # "hub"
    BY <1>1
  <2>2. doing'["hub"] = doing["hub"]
    BY <1>1, <1>2, <2>1 DEF Threads
  <2> QED BY <1>2, <2>1, <2>2 DEF Answers
<1>8. Link(port, Up, rh_state)'
  BY <1>1, <1>2, <1>4 DEF Link, Up
<1>9. Noted'
  <2>1. CASE th = "hub" /\ reading
    BY <1>1, <1>4, <2>1 DEF Noted, Connected
  <2>2. CASE ~(th = "hub" /\ reading)
    BY <1>1, <1>2, <1>4, <2>2 DEF Noted
  <2> QED BY <2>1, <2>2
<1> QED BY <1>3, <1>6, <1>7, <1>8, <1>9 DEF PortIInv

-----------------------------------------------------------------------------
(* The root hub's polling, the gadget side, and power management.          *)
LEMMA HubStatusStep ==
  ASSUME PortIInv, HubStatus PROVE PortIInv'
<1>1. /\ UNCHANGED <<rh_state, pullup, udc_suspended, known, stale, reading>> /\ Free("poll")
      /\ IF accessible /\ port.resuming /\ port.due
         THEN SetLinkState("poll", Resumed(port), Up, rh_state)
         ELSE UNCHANGED <<port, address, pending_requests, callback_usage, doing>>
  BY DEF HubStatus
<1>2. CASE accessible /\ port.resuming /\ port.due
  <2> DEFINE p == Resumed(port)
  <2>1. /\ p \in PortRecord /\ p.old_status = port.old_status
        /\ "power" \in p.status <=> "power" \in port.status
        /\ "c_connection" \in p.status <=> "c_connection" \in port.status
    BY PortFields, DueFields
  <2>2. SetLinkState("poll", p, Up, rh_state') /\ "poll" \in Threads
    BY <1>1, <1>2 DEF Threads
  <2> HIDE DEF p
  <2>3. /\ Up \in BOOLEAN /\ Up = Up' /\ rh_state' \in {"running", "suspended"}
        /\ pullup' \in BOOLEAN /\ udc_suspended' \in BOOLEAN /\ stale' \in BOOLEAN
    BY <1>1 DEF PortIInv, PortTypes, Up
  <2> QED BY <1>1, <2>1, <2>2, <2>3, LinkStep
<1>3. CASE ~(accessible /\ port.resuming /\ port.due)
  BY <1>1, <1>3, PortFields, PortQuiet
<1> QED BY <1>2, <1>3

(* Those that look at the link again without touching a flag.              *)
LEMMA RelinkStep ==
  ASSUME PortIInv, NEW th \in Threads, Free(th), NEW up, up = Up', rh_state' \in {"running", "suspended"},
         SetLinkState(th, port, up, rh_state'), pullup' \in BOOLEAN, udc_suspended' \in BOOLEAN,
         UNCHANGED <<known, stale, reading>>
  PROVE  PortIInv'
<1>1. up \in BOOLEAN
  BY DEF Up
<1> QED BY <1>1, PortFields, LinkStep

LEMMA PullUpStep ==
  ASSUME PortIInv, PullUp PROVE PortIInv'
<1>1. /\ "gadget" \in Threads /\ Free("gadget") /\ pullup' = TRUE
      /\ SetLinkState("gadget", port, ~udc_suspended, rh_state)
      /\ UNCHANGED <<rh_state, udc_suspended, known, stale, reading>>
  BY DEF PullUp, Threads
<1>2. udc_suspended \in BOOLEAN /\ rh_state \in {"running", "suspended"}
  BY DEF PortIInv, PortTypes
<1>3. (~udc_suspended) = Up'
  BY <1>1, <1>2 DEF Up
<1> QED BY <1>1, <1>2, <1>3, RelinkStep

LEMMA PullDownStep ==
  ASSUME PortIInv, PullDown PROVE PortIInv'
<1>1. /\ "gadget" \in Threads /\ Free("gadget") /\ pullup' = FALSE
      /\ SetLinkState("gadget", port, FALSE, rh_state)
      /\ UNCHANGED <<rh_state, udc_suspended, known, stale, reading>>
  BY DEF PullDown, Threads
<1>2. udc_suspended \in BOOLEAN /\ rh_state \in {"running", "suspended"}
  BY DEF PortIInv, PortTypes
<1>3. FALSE = Up'
  BY <1>1 DEF Up
<1> QED BY <1>1, <1>2, <1>3, RelinkStep

LEMMA UdcPmStep ==
  ASSUME PortIInv, NEW suspend \in BOOLEAN, UdcPm(suspend) PROVE PortIInv'
<1>1. /\ "pm" \in Threads /\ Free("pm") /\ udc_suspended' = suspend
      /\ SetLinkState("pm", port, pullup /\ ~suspend, rh_state)
      /\ UNCHANGED <<rh_state, pullup, known, stale, reading>>
  BY DEF UdcPm, Threads
<1>2. pullup \in BOOLEAN /\ rh_state \in {"running", "suspended"}
  BY DEF PortIInv, PortTypes
<1>3. (pullup /\ ~suspend) = Up'
  BY <1>1 DEF Up
<1> QED BY <1>1, <1>2, <1>3, RelinkStep

LEMMA BusSuspendStep ==
  ASSUME PortIInv, BusSuspend PROVE PortIInv'
<1>1. /\ "bus" \in Threads /\ Free("bus") /\ rh_state' = "suspended"
      /\ SetLinkState("bus", port, Up, "suspended")
      /\ UNCHANGED <<pullup, udc_suspended, known, stale, reading>>
  BY DEF BusSuspend, Threads
<1>2. pullup \in BOOLEAN /\ udc_suspended \in BOOLEAN
  BY DEF PortIInv, PortTypes
<1>3. Up = Up'
  BY <1>1 DEF Up
<1> QED BY <1>1, <1>2, <1>3, RelinkStep

LEMMA BusResumeStep ==
  ASSUME PortIInv, BusResume PROVE PortIInv'
<1>1. /\ "bus" \in Threads /\ Free("bus")
      /\ IF accessible THEN rh_state' = "running" /\ SetLinkState("bus", port, Up, "running")
         ELSE UNCHANGED <<rh_state, port, address, pending_requests, callback_usage, doing>>
      /\ UNCHANGED <<pullup, udc_suspended, known, stale, reading>>
  BY DEF BusResume, Threads
<1>2. pullup \in BOOLEAN /\ udc_suspended \in BOOLEAN /\ Up = Up'
  BY <1>1 DEF PortIInv, PortTypes, Up
<1>3. CASE accessible
  BY <1>1, <1>2, <1>3, RelinkStep
<1>4. CASE ~accessible
  BY <1>1, <1>4, PortFields, PortQuiet
<1> QED BY <1>3, <1>4

LEMMA TimeStep ==
  ASSUME PortIInv, TimeoutReached \/ Wakeup PROVE PortIInv'
<1>1. UNCHANGED <<rh_state, pullup, udc_suspended, known, stale, reading, doing, callback_usage>>
  BY DEF TimeoutReached, Wakeup
<1>2. \/ port' = [port EXCEPT !.due = TRUE]
      \/ port' = [port EXCEPT !.resuming = TRUE, !.due = FALSE]
  BY DEF TimeoutReached, Wakeup
<1>3. port' \in PortRecord /\ port'.status = port.status /\ port'.active = port.active
      /\ port'.old_status = port.old_status
  BY <1>2, PortFields DEF PortRecord
<1> QED BY <1>1, <1>3, PortQuiet

(* The other steps keep the port and who is out of the lock.               *)
Others == SetAddress \/ UdcStart \/ PullDownWait \/ Reconnect \/ AsyncCallbacksOff \/ UdcStop
          \/ HostWantsBus \/ HcdSuspend \/ HcdResume

LEMMA OtherStep ==
  ASSUME PortIInv, Others \/ UNCHANGED port_vars PROVE PortIInv'
<1>1. UNCHANGED <<port, rh_state, pullup, udc_suspended, known, stale, reading, doing,
                  callback_usage>>
  BY DEF Others, SetAddress, UdcStart, PullDownWait, Reconnect, AsyncCallbacksOff, UdcStop,
         HostWantsBus, HcdSuspend, HcdResume, port_vars
<1> QED BY <1>1, PortFields, PortQuiet

LEMMA PortStep == ASSUME PortIInv, [PortNext]_port_vars PROVE PortIInv'
<1>1. CASE Hub
  BY <1>1, SetPortPowerStep, ClearPortPowerStep, SetPortResetStep, SetPortSuspendStep,
     ClearPortSuspendStep, GetPortStatusStep, ClearPortFeatureStep, OtherStep DEF Hub, Others
<1>2. CASE Gadget
  BY <1>2, PullUpStep, PullDownStep, TimeStep, OtherStep DEF Gadget, Others
<1>3. CASE Bus
  BY <1>3, BusSuspendStep, BusResumeStep, OtherStep DEF Bus, Others
<1>4. CASE HubStatus \/ TimeoutReached \/ UNCHANGED port_vars
  BY <1>4, HubStatusStep, TimeStep, OtherStep
<1>5. ASSUME NEW suspend \in BOOLEAN, UdcPm(suspend) PROVE PortIInv'
  BY <1>5, UdcPmStep
<1>6. ASSUME NEW th \in Threads, NukeEnds(th) \/ CallbackEnds(th) PROVE PortIInv'
  BY <1>6, NukeEndsStep, CallbackEndsStep
<1> QED BY <1>1, <1>2, <1>3, <1>4, <1>5, <1>6 DEF PortNext

LEMMA PortAlways == PortSpec => []PortIInv
<1>1. PortIInv /\ [PortNext]_port_vars => PortIInv'
  BY PortStep
<1> QED BY PortStart, <1>1, PTL DEF PortSpec

(* No change of connection is lost, whatever the hub asks, resets, powers  *)
(* off and acknowledges while threads are out of the lock in callbacks     *)
(* with an old_status of their own (set_link_state), and the port is       *)
(* active on every link that can carry transfers and on no other.          *)
THEOREM PortTellsTruth == PortSpec => []PortHonest
<1>1. PortIInv => PortHonest
  <2> SUFFICES ASSUME PortIInv PROVE PortHonest
    OBVIOUS
  <2>1. Noted /\ Link(port, Up, rh_state) /\ known \in BOOLEAN
    BY DEF PortIInv, PortTypes
  <2>2. ("connection" \in port.status) # known => "c_connection" \in port.status \/ stale
    BY <2>1 DEF Noted, Connected
  <2> QED BY <2>1, <2>2 DEF PortHonest, Link, Connected
<1> QED BY <1>1, PortAlways, PTL

-----------------------------------------------------------------------------
(* What remains of the types: what a step sets beside the link.            *)
PortRest ==
  /\ accessible \in BOOLEAN /\ poll \in BOOLEAN /\ wake \in BOOLEAN
  /\ ints_enabled \in BOOLEAN /\ pending_requests \in BOOLEAN /\ wakeup_ok \in BOOLEAN
  /\ address \in {0, 1} /\ gadget \in GadgetSteps
  /\ unbinds \in 0 .. MaxUnbinds /\ suspends \in 0 .. MaxSuspends

LEMMA LinkRest ==
  ASSUME PortRest, NEW th, NEW p, NEW up, NEW rh, SetLinkState(th, p, up, rh)
  PROVE  pending_requests' \in BOOLEAN /\ address' \in {0, 1}
BY DEF PortRest, SetLinkState

LEMMA HubRest ==
  ASSUME PortRest, Hub \/ HubStatus \/ TimeoutReached PROVE PortRest'
<1>1. ASSUME NEW p, HubRequest(p), wakeup_ok' \in BOOLEAN PROVE PortRest'
  <2>1. SetLinkState("hub", p, Up, rh_state)
    BY <1>1 DEF HubRequest
  <2>2. pending_requests' \in BOOLEAN /\ address' \in {0, 1}
    BY <2>1, LinkRest
  <2>3. poll' \in BOOLEAN
    BY <1>1 DEF HubRequest
  <2> QED BY <1>1, <2>2, <2>3 DEF PortRest, HubRequest
<1>2. CASE SetPortPower \/ ClearPortPower \/ SetPortReset \/ SetPortSuspend \/ GetPortStatus
           \/ \E f \in Changes \cup {"enable"} : ClearPortFeature(f)
  <2>1. /\ wakeup_ok' \in BOOLEAN
        /\ \E p : HubRequest(p)
    BY <1>2 DEF SetPortPower, ClearPortPower, SetPortReset, SetPortSuspend, GetPortStatus,
                ClearPortFeature, PortRest
  <2> QED BY <1>1, <2>1
<1>3. CASE ClearPortSuspend \/ SetAddress
  BY <1>3, PortAssumption DEF ClearPortSuspend, SetAddress, PortRest
<1>4. CASE HubStatus
  <2>1. pending_requests' \in BOOLEAN /\ address' \in {0, 1}
    BY <1>4, LinkRest DEF HubStatus, PortRest
  <2>2. poll' = FALSE /\ wake' \in BOOLEAN
    BY <1>4 DEF HubStatus
  <2> QED BY <1>4, <2>1, <2>2 DEF HubStatus, PortRest
<1>5. CASE TimeoutReached
  <2>1. poll' \in BOOLEAN
    BY <1>5 DEF TimeoutReached
  <2> QED BY <1>5, <2>1 DEF TimeoutReached, PortRest
<1> QED BY <1>2, <1>3, <1>4, <1>5 DEF Hub

LEMMA GadgetRest ==
  ASSUME PortRest, Gadget PROVE PortRest'
<1>1. CASE PullUp
  <2>1. pending_requests' \in BOOLEAN /\ address' \in {0, 1}
    BY <1>1, LinkRest DEF PullUp
  <2>2. poll' \in BOOLEAN /\ gadget' \in GadgetSteps
    BY <1>1 DEF PullUp, GadgetSteps
  <2> QED BY <1>1, <2>1, <2>2 DEF PullUp, PortRest
<1>2. CASE PullDown
  <2>1. pending_requests' \in BOOLEAN /\ address' \in {0, 1}
    BY <1>2, LinkRest DEF PullDown
  <2> QED BY <1>2, <2>1 DEF PullDown, PortRest, GadgetSteps
<1>3. CASE AsyncCallbacksOff
  <2>1. unbinds' \in 0 .. MaxUnbinds
    BY <1>3, PortAssumption DEF AsyncCallbacksOff, PortRest
  <2>2. gadget' \in GadgetSteps /\ ints_enabled' = FALSE
    BY <1>3 DEF AsyncCallbacksOff, GadgetSteps
  <2> QED BY <1>3, <2>1, <2>2 DEF AsyncCallbacksOff, PortRest
<1>4. CASE UdcStart \/ PullDownWait \/ Reconnect \/ UdcStop \/ Wakeup
  BY <1>4, ZenonT(40) DEF UdcStart, PullDownWait, Reconnect, UdcStop, Wakeup, PortRest, GadgetSteps
<1> QED BY <1>1, <1>2, <1>3, <1>4 DEF Gadget

LEMMA PowerRest ==
  ASSUME PortRest, Bus \/ \E suspend \in BOOLEAN : UdcPm(suspend) PROVE PortRest'
<1>1. ASSUME NEW suspend \in BOOLEAN, UdcPm(suspend) PROVE PortRest'
  <2>1. pending_requests' \in BOOLEAN /\ address' \in {0, 1}
    BY <1>1, LinkRest DEF UdcPm
  <2>2. suspends' \in 0 .. MaxSuspends
    BY <1>1, PortAssumption DEF UdcPm, PortRest
  <2>3. poll' \in BOOLEAN
    BY <1>1 DEF UdcPm
  <2> QED BY <1>1, <2>1, <2>2, <2>3 DEF UdcPm, PortRest
<1>2. CASE BusSuspend
  <2>1. pending_requests' \in BOOLEAN /\ address' \in {0, 1}
    BY <1>2, LinkRest DEF BusSuspend
  <2>2. suspends' \in 0 .. MaxSuspends
    BY <1>2, PortAssumption DEF BusSuspend, PortRest
  <2> QED BY <1>2, <2>1, <2>2 DEF BusSuspend, PortRest
<1>3. CASE BusResume
  <2>1. pending_requests' \in BOOLEAN /\ address' \in {0, 1}
    BY <1>3, LinkRest DEF BusResume, PortRest
  <2> QED BY <1>3, <2>1 DEF BusResume, PortRest
<1>4. CASE HostWantsBus \/ HcdSuspend \/ HcdResume
  BY <1>4 DEF HostWantsBus, HcdSuspend, HcdResume, PortRest
<1> QED BY <1>1, <1>2, <1>3, <1>4 DEF Bus

LEMMA ReturnRest ==
  ASSUME PortRest, NEW th \in Threads, NukeEnds(th) \/ CallbackEnds(th) PROVE PortRest'
<1>1. CASE NukeEnds(th)
  BY <1>1 DEF NukeEnds, PortRest
<1>2. CASE CallbackEnds(th)
  <2>1. poll' \in BOOLEAN
    BY <1>2 DEF CallbackEnds
  <2>2. wake' \in BOOLEAN
    BY <1>2 DEF CallbackEnds
  <2> QED BY <1>2, <2>1, <2>2 DEF CallbackEnds, PortRest
<1> QED BY <1>1, <1>2

(* Every variable keeps its type, and callback_usage, on which pullup(0)   *)
(* waits, is the number of threads that have the driver called back.       *)
THEOREM PortTypeCorrect == PortSpec => []PortTypeOK
<1>1. PortInit => PortRest
  <2>1. 0 \in 0 .. MaxUnbinds /\ 0 \in 0 .. MaxSuspends
    BY PortAssumption
  <2>2. "unbound" \in GadgetSteps
    BY DEF GadgetSteps
  <2> QED BY <2>1, <2>2 DEF PortInit, PortRest
<1>2. PortRest /\ [PortNext]_port_vars => PortRest'
  <2> SUFFICES ASSUME PortRest, [PortNext]_port_vars PROVE PortRest'
    OBVIOUS
  <2>1. CASE UNCHANGED port_vars
    BY <2>1 DEF port_vars, PortRest
  <2>2. CASE PortNext
    BY <2>2, HubRest, GadgetRest, PowerRest, ReturnRest DEF PortNext
  <2> QED BY <2>1, <2>2
<1>3. PortIInv /\ PortRest => PortTypeOK
  BY DEF PortIInv, PortTypes, PortRecord, Counted, Calling, PortRest, PortTypeOK
<1> QED BY PortAlways, <1>1, <1>2, <1>3, PTL DEF PortSpec

=============================================================================
