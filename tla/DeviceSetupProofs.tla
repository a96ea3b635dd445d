--------------------------- MODULE DeviceSetupProofs ---------------------------
(***************************************************************************)
(* Proofs about DeviceSetup, for every set of nodes and of packages and    *)
(* every number of retries.  The invariant follows what a run knows of the *)
(* hosts, and which nodes it answers for, from the step that finds it out  *)
(* to the verdict that relies on it.                                       *)
(***************************************************************************)
EXTENDS DeviceSetup, TLAPS

Waits(next) == pc \in {"wait", "probe"} /\ run.next = next
Cycling == pc \in {"cycle", "enable", "restore"}

(* Which of the two commands is where.                                     *)
Kinds ==
  /\ pc = "remove" => run.kind = "remove"
  /\ pc \notin {"idle", "remove"} => run.kind = "install"
  /\ pc \in {"wait", "probe"} => run.next # "none"

(* Hosts that run something other than their selection: none among the     *)
(* nodes that a cycle has passed without a failure or a request to reboot, *)
(* and none at all after such a cycle.                                     *)
Reloads ==
  /\ Cycling /\ ~run.failed /\ ~run.seen =>
       /\ Stale \subseteq run.todo
       /\ pc = "enable" => \A n \in run.at : node[n].running = None
  /\ pc = "restore" => run.failed
  /\ run.cycled => pc \in {"attest", "rollback"} \/ Waits("cycled") \/ Waits("status")
  /\ run.cycled /\ ~run.cycle_reboot => Stale = {}

(* What exit code 0 promises, and the verdict that leads to it.            *)
Reloaded ==
  /\ Present # {} /\ \A n \in Present : node[n].selected = run.pkg
  /\ run.updated => \A n \in Present : node[n].running \in {None, run.pkg}

Verdict ==
  /\ Waits("status") /\ run.matches => Reloaded
  /\ pc = "rollback" => ~run.matches

(* The nodes a run answers for: those it found enabled, the one it         *)
(* created, and the one it is at.                                          *)
Owned ==
  /\ \A n \in run.kept :
       /\ n \in Present
       /\ \/ node[n].enabled \/ n \in run.gave_up
          \/ pc \in {"enable", "restore"} /\ n \in run.at
  /\ run.created # {} \/ pc = "create" => run.kept = {}
  /\ \A m, n \in run.created : m = n
  /\ \A m, n \in run.at : m = n
  /\ Waits("status") /\ ~run.ready /\ ~run.reboot => run.created \cap Present = {}

Removing ==
  pc = "remove" => /\ run.kept = {}
                   /\ Present \subseteq run.todo \cup run.gave_up
                   /\ ~run.reboot => Registered \subseteq run.todo \cup run.gave_up

IInv ==
  /\ TypeOK /\ Kinds /\ Reloads /\ Verdict /\ Owned /\ Removing
  /\ OkMeansReloaded /\ NodesAccounted

-----------------------------------------------------------------------------
LEMMA RunFields ==
  ASSUME NEW r \in RunRecord
  PROVE  /\ r.kind \in {"none", "install", "remove"} /\ r.pkg \in Packages \cup {None}
         /\ r.created \in SUBSET Nodes /\ r.todo \in SUBSET Nodes /\ r.at \in SUBSET Nodes
         /\ r.scan \in SUBSET Nodes /\ r.kept \in SUBSET Nodes
         /\ r.gave_up \in SUBSET Nodes /\ r.attempt \in 0..Attempts
         /\ r.reboot \in BOOLEAN /\ r.updated \in BOOLEAN /\ r.ready \in BOOLEAN
         /\ r.cycled \in BOOLEAN /\ r.cycle_reboot \in BOOLEAN /\ r.matches \in BOOLEAN
         /\ r.seen \in BOOLEAN /\ r.attempted \in BOOLEAN /\ r.failed \in BOOLEAN
         /\ r.next \in {"none", "installed", "reactivated", "cycled", "status"}
         /\ r.exit \in {k_exit_ok, k_exit_failed, k_exit_not_ready, k_exit_reboot}
BY DEF RunRecord

LEMMA NodeFields ==
  ASSUME NEW n \in NodeRecord
  PROVE  /\ n.state \in {"absent", "phantom", "present"} /\ n.enabled \in BOOLEAN
         /\ n.selected \in Packages \cup {None} /\ n.running \in Packages \cup {None}
BY DEF NodeRecord

LEMMA NoRunFields ==
  /\ NoRun \in RunRecord /\ NoRun.kind = "none" /\ NoRun.created = {} /\ NoRun.kept = {}
  /\ ~NoRun.cycled /\ ~NoRun.updated /\ ~NoRun.ready /\ ~NoRun.matches
  /\ NoRun.todo = {} /\ NoRun.at = {} /\ NoRun.scan = {} /\ NoRun.gave_up = {}
BY SetupAssumption DEF NoRun, RunRecord, None, k_exit_ok, k_exit_failed, k_exit_not_ready,
                       k_exit_reboot

LEMMA NoProbeFields ==
  NoProbe \in ProbeRecord /\ NoProbe.stage = "none" /\ ~NoProbe.pending
BY DEF NoProbe, ProbeRecord

(* The end of a run.                                                       *)
LEMMA FinishFields ==
  ASSUME run \in RunRecord,
         NEW exit \in {k_exit_ok, k_exit_failed, k_exit_not_ready, k_exit_reboot},
         Finish(exit)
  PROVE  /\ pc' = "idle" /\ probe' = NoProbe /\ run' \in RunRecord
         /\ run'.kind = run.kind /\ run'.pkg = run.pkg /\ run'.created = run.created
         /\ run'.updated = run.updated /\ run'.ready = run.ready /\ run'.exit = exit
         /\ run'.kept = run.kept /\ run'.gave_up = run.gave_up
         /\ run'.at = {} /\ ~run'.cycled
<1> DEFINE q == [NoRun EXCEPT !.kind = run.kind, !.pkg = run.pkg, !.created = run.created,
                              !.updated = run.updated, !.ready = run.ready, !.exit = exit]
<1>1. /\ q \in RunRecord /\ q.kind = run.kind /\ q.pkg = run.pkg /\ q.created = run.created
      /\ q.updated = run.updated /\ q.ready = run.ready /\ q.exit = exit
      /\ q.at = {} /\ ~q.cycled
  BY NoRunFields DEF RunRecord
<1>2. run' = [q EXCEPT !.kept = run.kept, !.gave_up = run.gave_up]
  BY DEF Finish
<1> HIDE DEF q
<1>3. run' \in RunRecord
  BY <1>1, <1>2 DEF RunRecord
<1>4. /\ run'.kept = run.kept /\ run'.gave_up = run.gave_up
     
  BY <1>1, <1>2 DEF RunRecord
<1>5. /\ run'.kind = q.kind /\ run'.pkg = q.pkg /\ run'.created = q.created
      /\ run'.updated = q.updated /\ run'.ready = q.ready /\ run'.exit = q.exit
      /\ run'.at = q.at /\ run'.cycled = q.cycled
  BY <1>1, <1>2 DEF RunRecord
<1> QED BY <1>1, <1>3, <1>4, <1>5 DEF Finish

-----------------------------------------------------------------------------
(* What Windows is asked never moves a node in or out, and leaves no host  *)
(* on a package that is not selected, but for the one it ran before.       *)
LEMMA RestartedShape ==
  ASSUME node \in [Nodes -> NodeRecord], NEW n \in Nodes, NEW deferred \in BOOLEAN,
         NEW s \in Restarted(n, deferred)
  PROVE  /\ s \in NodeRecord /\ s.state = node[n].state /\ s.enabled = node[n].enabled
         /\ s.selected = node[n].selected
         /\ s.running \in {node[n].selected, None, node[n].running}
<1>1. node[n] \in NodeRecord
  OBVIOUS
<1> QED BY <1>1 DEF Restarted, NodeRecord

LEMMA DisabledShape ==
  ASSUME node \in [Nodes -> NodeRecord], NEW n \in Nodes, NEW deferred \in BOOLEAN,
         NEW s \in Disabled(n, deferred)
  PROVE  /\ s \in NodeRecord /\ s.state = node[n].state
         /\ s.selected = node[n].selected
         /\ s.running \in {None, node[n].running} /\ (~deferred => s.running = None)
<1>1. node[n] \in NodeRecord
  OBVIOUS
<1> QED BY <1>1 DEF Disabled, NodeRecord

LEMMA EnabledShape ==
  ASSUME node \in [Nodes -> NodeRecord], NEW n \in Nodes, NEW deferred \in BOOLEAN,
         NEW s \in Enabled(n, deferred)
  PROVE  /\ s \in NodeRecord /\ s.state = node[n].state /\ s.enabled
         /\ s.selected = node[n].selected
         /\ s.running \in {node[n].selected, None, node[n].running}
<1>1. node[n] \in NodeRecord
  OBVIOUS
<1> QED BY <1>1 DEF Enabled, NodeRecord

LEMMA SelectedShape ==
  ASSUME node \in [Nodes -> NodeRecord], NEW n \in Nodes,
         NEW pkg \in Packages \cup {None}, NEW s \in Selected(pkg, n)
  PROVE  s \in NodeRecord /\ s.state = node[n].state /\ s.enabled = node[n].enabled
<1>1. node[n] \in NodeRecord
  OBVIOUS
<1>2. CASE n \in Present /\ node[n].selected < pkg
  <2>1. PICK r \in {node[n].running} \cup (IF node[n].enabled THEN {pkg, None} ELSE {}) :
          s = [node[n] EXCEPT !.selected = pkg, !.running = r]
    BY <1>2 DEF Selected
  <2>2. r \in Packages \cup {None}
    BY <1>1, <2>1 DEF NodeRecord
  <2> QED BY <1>1, <2>1, <2>2 DEF NodeRecord
<1>3. CASE ~(n \in Present /\ node[n].selected < pkg)
  BY <1>1, <1>3 DEF Selected
<1> QED BY <1>2, <1>3

LEMMA RemovedShape ==
  ASSUME NEW deferred \in BOOLEAN
  PROVE  /\ Removed(deferred) \in NodeRecord /\ Removed(deferred).state # "present"
         /\ ~deferred => Removed(deferred).state = "absent"
BY DEF Removed, Absent, NodeRecord, None

(* One node is changed, and neither comes nor goes.                        *)
LEMMA NodeStays ==
  ASSUME node \in [Nodes -> NodeRecord], NEW n \in Nodes, NEW s \in NodeRecord,
         node' = [node EXCEPT ![n] = s], s.state = node[n].state,
         s.selected = node[n].selected
  PROVE  /\ node' \in [Nodes -> NodeRecord] /\ Present' = Present /\ Registered' = Registered
         /\ s.running \in {None, s.selected} => Stale' = Stale \ {n}
         /\ s.running \in {None, s.selected, node[n].running} => Stale' \subseteq Stale
         /\ node'[n] = s /\ \A m \in Nodes \ {n} : node'[m] = node[m]
<1>1. /\ node' \in [Nodes -> NodeRecord] /\ DOMAIN node = Nodes /\ DOMAIN node' = Nodes
      /\ node'[n] = s /\ \A m \in Nodes \ {n} : node'[m] = node[m]
  OBVIOUS
<1>2. Present' = Present /\ Registered' = Registered
  BY <1>1 DEF Present, Registered
<1>3. ASSUME NEW m PROVE m \in Stale' <=> /\ m \in Present
                                          /\ node'[m].running \notin {None, node'[m].selected}
  BY <1>2 DEF Stale
<1>4. ASSUME NEW m PROVE m \in Stale <=> /\ m \in Present
                                         /\ node[m].running \notin {None, node[m].selected}
  BY DEF Stale
<1>5. Present \subseteq Nodes
  BY <1>1 DEF Present
<1>6. s.running \in {None, s.selected} => Stale' = Stale \ {n}
  BY <1>1, <1>3, <1>4, <1>5
<1>7. s.running \in {None, s.selected, node[n].running} => Stale' \subseteq Stale
  BY <1>1, <1>3, <1>4, <1>5
<1> QED BY <1>1, <1>2, <1>6, <1>7

(* The sets of nodes follow from the nodes alone.                          *)
LEMMA SameNodes ==
  ASSUME UNCHANGED node
  PROVE  Present' = Present /\ Registered' = Registered /\ Stale' = Stale
BY DEF Present, Registered, Stale

LEMMA NodeSets ==
  ASSUME node \in [Nodes -> NodeRecord]
  PROVE  /\ Present \subseteq Nodes /\ Registered \subseteq Nodes /\ Stale \subseteq Present
         /\ Present \subseteq Registered
BY DEF Present, Registered, Stale

-----------------------------------------------------------------------------
(* An install ends with an error.                                          *)
LEMMA FailStep ==
  ASSUME IInv, Throw, pc \notin {"idle", "remove"}, node' \in [Nodes -> NodeRecord],
         \A n \in run.kept : n \in Present' /\ (node'[n].enabled \/ n \in run.gave_up)
  PROVE  IInv'
<1>1. run.kind = "install" /\ run \in RunRecord /\ (run.created # {} => run.kept = {})
      /\ \A m, n \in run.created : m = n
  BY DEF IInv, Kinds, TypeOK, Owned
<1>2. /\ pc' = "idle" /\ probe' = NoProbe /\ run' \in RunRecord /\ run'.kind = "install"
      /\ run'.created = run.created /\ run'.exit = k_exit_failed /\ run'.kept = run.kept
      /\ run'.gave_up = run.gave_up /\ run'.at = {} /\ ~run'.cycled
  BY <1>1, FinishFields DEF Throw
<1>3. TypeOK'
  BY <1>2, NoProbeFields DEF TypeOK
<1>4. Kinds' /\ Reloads' /\ Verdict' /\ Removing'
  BY <1>2 DEF Kinds, Reloads, Verdict, Removing, Waits, Cycling
<1>5. Owned'
  BY <1>1, <1>2 DEF Owned, Waits
<1>6. OkMeansReloaded' /\ NodesAccounted'
  BY <1>2 DEF InstalledOk, OkMeansReloaded,
              NodesAccounted, NodesKept, RolledBack, RemovedAll,
              k_exit_failed, k_exit_ok, k_exit_not_ready
<1> QED BY <1>3, <1>4, <1>5, <1>6 DEF IInv

LEMMA ResumeFields ==
  ASSUME node \in [Nodes -> NodeRecord], NEW r \in RunRecord, NEW p, Resume(r, p)
  PROVE  /\ probe' = p /\ run' \in RunRecord
         /\ pc' = IF ~r.ready \/ live_reload_required(r)
                  THEN CASE r.next = "installed" -> "reactivate"
                         [] r.next = "reactivated" -> "cycle"
                         [] OTHER -> "attest"
                  ELSE "attest"
         /\ run'.todo = IF pc' # "attest" THEN Present ELSE {}
         /\ run'.kind = r.kind /\ run'.pkg = r.pkg /\ run'.created = r.created
         /\ run'.reboot = r.reboot /\ run'.updated = r.updated /\ run'.ready = r.ready
         /\ run'.cycled = r.cycled /\ run'.cycle_reboot = r.cycle_reboot
         /\ run'.matches = r.matches /\ run'.at = r.at
         /\ run'.kept = r.kept /\ run'.gave_up = r.gave_up
<1>1. Present \subseteq Nodes
  BY NodeSets
<1> DEFINE recover == ~r.ready \/ live_reload_required(r)
           tier == CASE r.next = "installed" -> "reactivate"
                     [] r.next = "reactivated" -> "cycle"
                     [] OTHER -> "attest"
           T == IF recover /\ tier # "attest" THEN Present ELSE {}
<1>2. /\ pc' = IF recover THEN tier ELSE "attest"
      /\ run' = [r EXCEPT !.todo = T, !.attempt = 0, !.scan = {}] /\ probe' = p
  BY DEF Resume
<1>3. tier \in {"reactivate", "cycle", "attest"}
  OBVIOUS
<1>4. T = (IF pc' # "attest" THEN Present ELSE {})
  BY <1>2
<1>5. T \in SUBSET Nodes /\ 0 \in 0 .. Attempts
  BY <1>1, SetupAssumption
<1> HIDE DEF T
<1>6. run' \in RunRecord /\ run'.todo = T
  BY <1>2, <1>5 DEF RunRecord
<1>7. /\ run'.kind = r.kind /\ run'.pkg = r.pkg /\ run'.created = r.created
      /\ run'.reboot = r.reboot /\ run'.updated = r.updated /\ run'.ready = r.ready
      /\ run'.cycled = r.cycled /\ run'.cycle_reboot = r.cycle_reboot
      /\ run'.matches = r.matches /\ run'.at = r.at
      /\ run'.kept = r.kept /\ run'.gave_up = r.gave_up
  BY <1>2 DEF RunRecord
<1> QED BY <1>2, <1>4, <1>6, <1>7

(* run_install goes on.                                                    *)
LEMMA ResumeStep ==
  ASSUME IInv, pc \notin {"idle", "remove"}, node' \in [Nodes -> NodeRecord],
         Present' = Present, Stale' \subseteq Stale, NEW r \in RunRecord,
         NEW p \in ProbeRecord, Resume(r, p),
         r.next \in {"installed", "reactivated", "cycled"}, r.kind = run.kind,
         r.created = run.created, r.updated = run.updated,
         r.kept = run.kept, r.gave_up = run.gave_up, r.at = run.at,
         \A n \in run.kept : node'[n].enabled \/ n \in run.gave_up,
         r.cycled => r.next = "cycled", r.cycled /\ ~r.cycle_reboot => Stale = {}
  PROVE  IInv'
<1>0. /\ run.kind = "install" /\ node \in [Nodes -> NodeRecord]
      /\ run.created # {} => run.kept = {}
      /\ \A m, n \in run.created : m = n
      /\ \A m, n \in run.at : m = n
      /\ \A n \in run.kept : n \in Present
  BY DEF IInv, Kinds, TypeOK, Reloads, Owned
<1>1. /\ probe' = p /\ run' \in RunRecord
      /\ pc' = IF ~r.ready \/ live_reload_required(r)
               THEN CASE r.next = "installed" -> "reactivate"
                      [] r.next = "reactivated" -> "cycle"
                      [] OTHER -> "attest"
               ELSE "attest"
      /\ run'.todo = IF pc' # "attest" THEN Present ELSE {}
      /\ run'.kind = r.kind /\ run'.created = r.created
      /\ run'.reboot = r.reboot /\ run'.updated = r.updated /\ run'.ready = r.ready
      /\ run'.cycled = r.cycled /\ run'.cycle_reboot = r.cycle_reboot
      /\ run'.matches = r.matches /\ run'.at = r.at
      /\ run'.kept = r.kept /\ run'.gave_up = r.gave_up
  BY <1>0, ResumeFields
<1>2. pc' \in {"reactivate", "cycle", "attest"}
  BY <1>1
<1>3. TypeOK'
  BY <1>1, <1>2 DEF TypeOK
<1>4. Reloads'
  <2>1. Stale' \subseteq Present'
    BY NodeSets DEF Stale
  <2>2. pc' = "cycle" => run'.todo = Present'
    BY <1>1
  <2>3. run'.cycled => pc' = "attest"
    <3>1. r.cycled => r.next = "cycled"
      OBVIOUS
    <3>2. r.next = "cycled" => pc' = "attest"
      BY <1>1
    <3> QED BY <1>1, <3>1, <3>2
  <2>4. run'.cycled /\ ~run'.cycle_reboot => Stale' = {}
    BY <1>1
  <2> QED BY <1>2, <2>1, <2>2, <2>3, <2>4 DEF Reloads, Waits, Cycling
<1>5. Owned'
  BY <1>0, <1>1, <1>2 DEF Owned, Waits
<1>6. Kinds' /\ Verdict' /\ Removing' /\ OkMeansReloaded' /\ NodesAccounted'
  BY <1>0, <1>1, <1>2 DEF Kinds, Verdict, Removing, InstalledOk, OkMeansReloaded,
                          NodesAccounted, NodesKept,
                          RolledBack, RemovedAll, Waits
<1> QED BY <1>3, <1>4, <1>5, <1>6 DEF IInv

-----------------------------------------------------------------------------
(* The verdict: print_status has probed once more, whatever came of it.    *)
LEMMA VerdictStep ==
  ASSUME IInv, Waits("status"), Finish(install_exit_code(run)), UNCHANGED node
  PROVE  IInv'
<1>1. /\ run.kind = "install" /\ run \in RunRecord /\ (run.created # {} => run.kept = {})
      /\ \A m, n \in run.created : m = n
      /\ run.matches => Reloaded
      /\ \A n \in run.kept : n \in Present /\ (node[n].enabled \/ n \in run.gave_up)
      /\ ~run.ready /\ ~run.reboot => run.created \cap Present = {}
      /\ node \in [Nodes -> NodeRecord]
  BY DEF IInv, Kinds, TypeOK, Owned, Verdict, Waits
<1>2. install_exit_code(run) \in {k_exit_ok, k_exit_failed, k_exit_not_ready, k_exit_reboot}
  BY DEF install_exit_code
<1>3. /\ pc' = "idle" /\ probe' = NoProbe /\ run' \in RunRecord /\ run'.kind = "install"
      /\ run'.created = run.created /\ run'.exit = install_exit_code(run)
      /\ run'.kept = run.kept /\ run'.pkg = run.pkg /\ run'.updated = run.updated
      /\ run'.ready = run.ready
      /\ run'.gave_up = run.gave_up /\ run'.at = {} /\ ~run'.cycled
  BY <1>1, <1>2, FinishFields
<1>4. TypeOK'
  BY <1>1, <1>3, NoProbeFields DEF TypeOK
<1>5. Kinds' /\ Reloads' /\ Verdict' /\ Removing'
  BY <1>3 DEF Kinds, Reloads, Verdict, Removing, Waits, Cycling
<1>6. Present' = Present /\ node' = node
  BY SameNodes
<1>7. Owned'
  BY <1>1, <1>3, <1>6 DEF Owned, Waits
<1>8. OkMeansReloaded'
  <2>1. install_exit_code(run) = k_exit_ok => run.matches
    BY DEF install_exit_code, reload_verified, k_exit_ok, k_exit_reboot, k_exit_not_ready
  <2> QED BY <1>1, <1>3, <1>6, <2>1 DEF InstalledOk, OkMeansReloaded, Reloaded
<1>9. NodesAccounted'
  <2>1. install_exit_code(run) = k_exit_not_ready => ~run.reboot
    BY DEF install_exit_code, k_exit_ok, k_exit_reboot, k_exit_not_ready
  <2> QED BY <1>1, <1>3, <1>6, <2>1 DEF NodesAccounted, NodesKept, RolledBack, RemovedAll
<1> QED BY <1>4, <1>5, <1>7, <1>8, <1>9 DEF IInv

(* The wait for the interface returns.                                     *)
LEMMA WaitedStep ==
  ASSUME IInv, pc \in {"wait", "probe"}, NEW ready \in BOOLEAN,
         NEW p \in ProbeRecord, Waited(ready, p), UNCHANGED node
  PROVE  IInv'
<1>1. CASE run.next = "status"
  BY <1>1, VerdictStep DEF Waited, Waits
<1>2. CASE run.next # "status"
  <2> DEFINE r == [run EXCEPT !.ready = ready]
  <2>1. run \in RunRecord /\ node \in [Nodes -> NodeRecord]
    BY DEF IInv, TypeOK
  <2>2. /\ r \in RunRecord /\ r.ready = ready /\ r.next = run.next /\ r.kind = run.kind
        /\ r.created = run.created /\ r.updated = run.updated
        /\ r.kept = run.kept /\ r.gave_up = run.gave_up /\ r.at = run.at
        /\ r.cycled = run.cycled /\ r.cycle_reboot = run.cycle_reboot
    BY <2>1 DEF RunRecord
  <2>3. Resume(r, p)
    BY <1>2 DEF Waited
  <2>4. r.next \in {"installed", "reactivated", "cycled"}
    BY <1>2, <2>1, <2>2, RunFields DEF IInv, Kinds
  <2> HIDE DEF r
  <2>5. /\ run.cycled => run.next = "cycled"
        /\ run.cycled /\ ~run.cycle_reboot => Stale = {}
        /\ \A n \in run.kept : node[n].enabled \/ n \in run.gave_up
    BY <1>2 DEF IInv, Reloads, Owned, Waits
  <2>6. Present' = Present /\ Stale' \subseteq Stale
    BY SameNodes
  <2> QED BY <2>1, <2>2, <2>3, <2>4, <2>5, <2>6, ResumeStep
<1> QED BY <1>1, <1>2

(* A round of probes leaves what a run knows as it was.                     *)
Agrees(r, q) ==
  /\ r.kind = q.kind /\ r.pkg = q.pkg /\ r.created = q.created /\ r.reboot = q.reboot
  /\ r.updated = q.updated /\ r.ready = q.ready /\ r.cycled = q.cycled
  /\ r.cycle_reboot = q.cycle_reboot /\ r.matches = q.matches /\ r.todo = q.todo
  /\ r.at = q.at /\ r.seen = q.seen /\ r.failed = q.failed
  /\ r.exit = q.exit /\ r.kept = q.kept /\ r.gave_up = q.gave_up

SameRun(r, q) == Agrees(r, q) /\ r.next = q.next

LEMMA LookStep ==
  ASSUME IInv, UNCHANGED node, run' \in RunRecord, SameRun(run', run), probe' \in ProbeRecord,
         pc' = pc \/ (pc \in {"wait", "probe"} /\ pc' \in {"wait", "probe"})
  PROVE  IInv'
<1>1. Present' = Present /\ Stale' = Stale /\ node' = node
      /\ Registered' = Registered
  BY SameNodes
<1>2. pc \in {"wait", "probe"} <=> pc' \in {"wait", "probe"}
  OBVIOUS
<1>3. pc' \notin {"wait", "probe"} => pc' = pc
  OBVIOUS
<1>4. TypeOK' /\ Kinds'
  BY <1>1, <1>3 DEF IInv, TypeOK, Kinds, SameRun, Agrees
<1>5. Removing'
  BY <1>1, <1>3 DEF IInv, Removing, SameRun, Agrees
<1>6. OkMeansReloaded' /\ NodesAccounted'
  BY <1>1, <1>3 DEF IInv, SameRun, Agrees, InstalledOk, OkMeansReloaded,
                    NodesAccounted, NodesKept, RolledBack, RemovedAll
<1>7. Reloads'
  BY <1>1, <1>2, <1>3 DEF IInv, SameRun, Agrees, Reloads, Waits, Cycling
<1>8. Verdict'
  BY <1>1, <1>2, <1>3 DEF IInv, SameRun, Agrees, Verdict, Waits, Reloaded
<1>9. Owned'
  BY <1>1, <1>2, <1>3 DEF IInv, SameRun, Agrees, Owned, Waits
<1> QED BY <1>4, <1>5, <1>6, <1>7, <1>8, <1>9 DEF IInv

(* A probe goes on, and the tool with it or not.                           *)
LEMMA ProbeOnly ==
  ASSUME IInv, UNCHANGED <<node, pc, run>>, probe' \in ProbeRecord
  PROVE  IInv'
<1>1. run' \in RunRecord /\ SameRun(run', run) /\ pc' = pc /\ UNCHANGED node
  BY DEF IInv, TypeOK, SameRun, Agrees
<1> QED BY <1>1, LookStep

LEMMA PollStep == ASSUME IInv, Poll PROVE IInv'
<1>1. /\ run \in RunRecord /\ node \in [Nodes -> NodeRecord] /\ probe \in ProbeRecord
      /\ pc = "wait" /\ UNCHANGED node
  BY DEF IInv, TypeOK, Poll
<1>2. CASE pc' = "probe" /\ run' = [run EXCEPT !.scan = Interfaces] /\ UNCHANGED probe
  <2>1. Interfaces \in SUBSET Nodes
    BY <1>1 DEF Interfaces, Present
  <2>2. run' \in RunRecord /\ SameRun(run', run)
    BY <1>1, <1>2, <2>1 DEF RunRecord, SameRun, Agrees
  <2> QED BY <1>1, <1>2, <2>2, LookStep
<1>3. CASE WaitThrows
  <2>0. \A n \in run.kept : n \in Present /\ (node[n].enabled \/ n \in run.gave_up)
    BY <1>1 DEF IInv, Owned
  <2>1. CASE run.next \in {"installed", "status"}
    <3>1. Throw
      BY <1>3, <2>1 DEF WaitThrows
    <3>2. node' = node /\ Present' = Present
      BY <1>1, SameNodes
    <3> QED BY <1>1, <2>0, <3>1, <3>2, FailStep
  <2>2. CASE run.next \notin {"installed", "status"}
    <3>1. Resume(run, probe)
      BY <1>3, <2>2 DEF WaitThrows
    <3>2. run.next \in {"reactivated", "cycled"}
      BY <1>1, <2>2, RunFields DEF IInv, Kinds
    <3>3. /\ run.cycled => run.next = "cycled"
          /\ run.cycled /\ ~run.cycle_reboot => Stale = {}
      BY <1>1, <2>2 DEF IInv, Reloads, Waits
    <3>4. Present' = Present /\ Stale' \subseteq Stale /\ node' = node
      BY <1>1, SameNodes
    <3> QED BY <1>1, <2>0, <3>1, <3>2, <3>3, <3>4, ResumeStep
  <2> QED BY <2>1, <2>2
<1> QED BY <1>2, <1>3 DEF Poll

LEMMA PollFailsStep == ASSUME IInv, PollFails PROVE IInv'
<1>1. /\ run \in RunRecord /\ probe \in ProbeRecord /\ pc = "probe" /\ UNCHANGED node
  BY DEF IInv, TypeOK, PollFails
<1>2. CASE run.attempt < Attempts
  <2>1. pc' = "wait" /\ run' = [run EXCEPT !.attempt = @ + 1] /\ UNCHANGED probe
    BY <1>2 DEF PollFails
  <2>2. run.attempt + 1 \in 0 .. Attempts
    BY <1>1, <1>2, RunFields, SetupAssumption
  <2>3. run' \in RunRecord /\ SameRun(run', run)
    BY <1>1, <2>1, <2>2 DEF RunRecord, SameRun, Agrees
  <2> QED BY <1>1, <2>1, <2>3, LookStep
<1>3. CASE ~(run.attempt < Attempts)
  BY <1>1, <1>3, WaitedStep DEF PollFails
<1> QED BY <1>2, <1>3

LEMMA ProbeOpensStep == ASSUME IInv, ProbeOpens PROVE IInv'
<1>1. /\ run \in RunRecord /\ probe \in ProbeRecord /\ pc = "probe" /\ UNCHANGED <<node, pc>>
  BY DEF IInv, TypeOK, ProbeOpens
<1>2. PICK n \in run.scan :
        /\ run' = [run EXCEPT !.scan = @ \ {n}]
        /\ probe' \in IF Reaped.pending THEN {Reaped}
                      ELSE {Reaped, [NoProbe EXCEPT !.busy = TRUE, !.stage = "open"]}
  BY DEF ProbeOpens
<1>3. run.scan \ {n} \in SUBSET Nodes
  BY <1>1, RunFields
<1>4. run' \in RunRecord /\ SameRun(run', run)
  BY <1>1, <1>2, <1>3 DEF RunRecord, SameRun, Agrees
<1>5. probe' \in ProbeRecord
  <2>1. Reaped \in ProbeRecord
    BY <1>1, NoProbeFields DEF Reaped
  <2>2. [NoProbe EXCEPT !.busy = TRUE, !.stage = "open"] \in ProbeRecord
    BY DEF NoProbe, ProbeRecord
  <2> QED BY <1>2, <2>1, <2>2
<1> QED BY <1>1, <1>2, <1>4, <1>5, LookStep

LEMMA ProbeAnsweredStep == ASSUME IInv, ProbeAnswered PROVE IInv'
<1>1. probe \in ProbeRecord /\ UNCHANGED <<node, pc, run>>
  BY DEF IInv, TypeOK, ProbeAnswered
<1>2. PICK a \in {"opened", "in_use", "absent", "valid", "invalid"} :
        probe' = [probe EXCEPT !.busy = FALSE, !.answer = IF probe.pending THEN "none" ELSE a]
  BY DEF ProbeAnswered
<1>3. probe' \in ProbeRecord
  BY <1>1, <1>2 DEF ProbeRecord
<1> QED BY <1>1, <1>3, ProbeOnly

LEMMA ProbeCancelsStep == ASSUME IInv, ProbeCancels PROVE IInv'
<1>1. probe \in ProbeRecord /\ UNCHANGED <<node, pc, run>>
  BY DEF IInv, TypeOK, ProbeCancels
<1>2. probe' \in ProbeRecord
  BY <1>1 DEF ProbeCancels, ProbeRecord
<1> QED BY <1>1, <1>2, ProbeOnly

LEMMA ProbeRetainedStep == ASSUME IInv, ProbeRetained PROVE IInv'
<1>1. probe \in ProbeRecord /\ UNCHANGED <<node, pc, run>>
  BY DEF IInv, TypeOK, ProbeRetained
<1>2. probe' \in ProbeRecord
  BY <1>1 DEF ProbeRetained, ProbeRecord
<1> QED BY <1>1, <1>2, ProbeOnly

LEMMA ProbeOpenedStep == ASSUME IInv, ProbeOpened PROVE IInv'
<1>1. /\ probe \in ProbeRecord /\ UNCHANGED node /\ pc = "probe"
      /\ NoProbe \in ProbeRecord
  BY NoProbeFields DEF IInv, TypeOK, ProbeOpened
<1>2. CASE Waited(TRUE, Deleted)
  BY <1>1, <1>2, WaitedStep DEF Deleted
<1>3. CASE UNCHANGED <<pc, run>> /\ probe' = Deleted
  BY <1>1, <1>3, ProbeOnly DEF Deleted
<1>4. CASE UNCHANGED <<pc, run>> /\ probe' = [probe EXCEPT !.stage = "query", !.busy = TRUE,
                                              !.cancelled = FALSE, !.answer = "none"]
  <2>1. probe' \in ProbeRecord
    BY <1>1, <1>4 DEF ProbeRecord
  <2> QED BY <1>1, <1>4, <2>1, ProbeOnly
<1> QED BY <1>2, <1>3, <1>4 DEF ProbeOpened

LEMMA ProbeQueriedStep == ASSUME IInv, ProbeQueried PROVE IInv'
<1>1. /\ probe \in ProbeRecord /\ UNCHANGED node /\ pc = "probe"
      /\ NoProbe \in ProbeRecord
  BY NoProbeFields DEF IInv, TypeOK, ProbeQueried
<1>2. CASE Waited(TRUE, Deleted)
  BY <1>1, <1>2, WaitedStep DEF Deleted
<1>3. CASE UNCHANGED <<pc, run>> /\ probe' = Deleted
  BY <1>1, <1>3, ProbeOnly DEF Deleted
<1> QED BY <1>2, <1>3 DEF ProbeQueried

-----------------------------------------------------------------------------
LEMMA WaitThenFields ==
  ASSUME NEW r \in RunRecord, NEW next \in {"installed", "reactivated", "cycled", "status"},
         WaitThen(r, next)
  PROVE  pc' = "wait" /\ run' \in RunRecord /\ run'.next = next /\ Agrees(run', r)
<1> DEFINE k == IF next = "status" THEN Attempts ELSE 0
<1>1. k \in 0 .. Attempts
  BY SetupAssumption
<1>2. pc' = "wait" /\ run' = [r EXCEPT !.next = next, !.attempt = k]
  BY DEF WaitThen
<1> HIDE DEF k
<1> QED BY <1>1, <1>2 DEF RunRecord, Agrees

(* In the middle of an install nothing is promised yet.                    *)
LEMMA Underway ==
  ASSUME pc' \notin {"idle", "remove"}, run'.kind = "install",
         pc' \in {"wait", "probe"} => run'.next # "none"
  PROVE  Kinds' /\ Removing' /\ OkMeansReloaded' /\ NodesAccounted'
BY DEF Kinds, Removing, InstalledOk, OkMeansReloaded,
       NodesAccounted, NodesKept, RolledBack, RemovedAll

LEMMA InstallStep == ASSUME IInv, NEW pkg \in Requests, Install(pkg) PROVE IInv'
<1>1. /\ node \in [Nodes -> NodeRecord] /\ probe \in ProbeRecord /\ UNCHANGED <<node, probe>>
      /\ pc = "idle" /\ pkg \in Packages
  BY SetupAssumption DEF IInv, TypeOK, Install
<1> DEFINE K == {n \in Present : node[n].enabled}
<1>2. K \in SUBSET Nodes
  BY <1>1, NodeSets
<1>3. /\ pc' = IF Present = {} THEN "create" ELSE "update"
      /\ run' = [NoRun EXCEPT !.kind = "install", !.pkg = pkg, !.kept = K]
  BY DEF Install
<1>4. \A n \in K : n \in Present /\ node[n].enabled
  OBVIOUS
<1> HIDE DEF K
<1>5. /\ run' \in RunRecord /\ run'.kind = "install" /\ run'.kept = K
      /\ run'.created = {} /\ run'.at = {} /\ ~run'.cycled
  BY <1>1, <1>2, <1>3, NoRunFields DEF RunRecord
<1>6. pc' \in {"create", "update"} /\ (pc' = "create" => Present = {})
  BY <1>3
<1>7. Present' = Present /\ Stale' = Stale /\ node' = node
  BY <1>1, SameNodes
<1>8. TypeOK'
  BY <1>1, <1>5, <1>6 DEF TypeOK
<1>9. Reloads' /\ Verdict'
  BY <1>5, <1>6, <1>7 DEF Reloads, Verdict, Waits, Cycling
<1>10. Owned'
  BY <1>4, <1>5, <1>6, <1>7 DEF Owned, Waits
<1> QED BY <1>5, <1>6, <1>8, <1>9, <1>10, Underway DEF IInv

LEMMA CreateStep == ASSUME IInv, create_root_device PROVE IInv'
<1>1. /\ node \in [Nodes -> NodeRecord] /\ run \in RunRecord /\ probe \in ProbeRecord
      /\ pc = "create" /\ run.kept = {} /\ run.kind = "install" /\ ~run.cycled
      /\ \A m, n \in run.at : m = n
  BY DEF IInv, TypeOK, create_root_device, Owned, Kinds, Reloads, Waits
<1>2. CASE Throw /\ UNCHANGED node
  BY <1>1, <1>2, FailStep
<1>3. ASSUME NEW n \in Nodes \ Registered, NEW p \in Packages \cup {None}, NEW starts \in BOOLEAN,
             node' = [node EXCEPT ![n] = [state |-> "present", enabled |-> TRUE, selected |-> p,
                                          running |-> IF starts THEN p ELSE None]],
             \/ Throw
             \/ \E reboot \in BOOLEAN :
                  /\ pc' = "update"
                  /\ run' = [run EXCEPT !.created = {n}, !.reboot = reboot]
                  /\ UNCHANGED probe
      PROVE  IInv'
  <2> DEFINE s == [state |-> "present", enabled |-> TRUE, selected |-> p,
                   running |-> IF starts THEN p ELSE None]
  <2>1. s \in NodeRecord /\ s.running \in {None, s.selected}
    BY DEF NodeRecord
  <2>2. node' = [node EXCEPT ![n] = s]
    BY <1>3
  <2> HIDE DEF s
  <2>3. /\ node' \in [Nodes -> NodeRecord] /\ node'[n] = s
        /\ \A m \in Nodes \ {n} : node'[m] = node[m]
    BY <1>1, <2>1, <2>2
  <2>4. CASE Throw
    BY <1>1, <2>3, <2>4, FailStep
  <2>5. ASSUME NEW reboot \in BOOLEAN, pc' = "update", UNCHANGED probe,
               run' = [run EXCEPT !.created = {n}, !.reboot = reboot]
        PROVE  IInv'
    <3>1. /\ run' \in RunRecord /\ run'.kind = "install" /\ run'.created = {n}
          /\ run'.kept = {} /\ run'.at = run.at /\ ~run'.cycled
          /\ run'.updated = run.updated
      BY <1>1, <2>5 DEF RunRecord
    <3>2. Stale' \subseteq Stale
      BY <1>1, <2>1, <2>3 DEF Stale, Present
    <3>3. TypeOK'
      BY <1>1, <2>3, <2>5, <3>1 DEF TypeOK
    <3>4. Reloads' /\ Verdict'
      BY <1>1, <2>5, <3>1, <3>2 DEF Reloads, Verdict, Waits, Cycling
    <3>5. Owned'
      BY <1>1, <2>5, <3>1 DEF Owned, Waits
    <3> QED BY <2>5, <3>1, <3>3, <3>4, <3>5, Underway DEF IInv
  <2> QED BY <1>3, <2>4, <2>5
<1> QED BY <1>2, <1>3 DEF create_root_device

LEMMA UpdateStep == ASSUME IInv, update_driver PROVE IInv'
<1>1. /\ node \in [Nodes -> NodeRecord] /\ run \in RunRecord /\ probe \in ProbeRecord
      /\ pc = "update" /\ run.kind = "install" /\ ~run.cycled
      /\ \A n \in run.kept : n \in Present /\ (node[n].enabled \/ n \in run.gave_up)
      /\ run.created # {} => run.kept = {}
      /\ \A m, n \in run.created : m = n
      /\ \A m, n \in run.at : m = n
  BY DEF IInv, TypeOK, update_driver, Owned, Kinds, Reloads, Waits
<1>2. ASSUME NEW r \in RunRecord, WaitThen(r, "installed"), UNCHANGED probe,
             node' \in [Nodes -> NodeRecord], r.kind = "install", ~r.cycled,
             r.kept = run.kept, r.created = run.created, r.at = run.at, r.gave_up = run.gave_up,
             \A n \in Nodes : node'[n].state = node[n].state /\ node'[n].enabled = node[n].enabled
      PROVE  IInv'
  <2>1. pc' = "wait" /\ run' \in RunRecord /\ run'.next = "installed" /\ Agrees(run', r)
    BY <1>2, WaitThenFields
  <2>2. Present' = Present
    BY <1>1, <1>2 DEF Present
  <2>3. TypeOK'
    BY <1>1, <1>2, <2>1 DEF TypeOK
  <2>4. Reloads' /\ Verdict'
    BY <1>1, <1>2, <2>1 DEF Agrees, Reloads, Verdict, Waits, Cycling
  <2>5. Owned'
    <3>1. Present \subseteq Nodes
      BY <1>1, NodeSets
    <3> QED BY <1>1, <1>2, <2>1, <2>2, <3>1 DEF Agrees, Owned, Waits
  <2> QED BY <1>2, <2>1, <2>3, <2>4, <2>5, Underway DEF IInv, Agrees
<1>3. CASE WaitThen(run, "installed") /\ UNCHANGED <<node, probe>>
  <2>1. Stale' = Stale /\ node' = node
    BY <1>3, SameNodes
  <2> QED BY <1>1, <1>2, <1>3, <2>1
<1>4. ASSUME NEW reboot \in BOOLEAN,
             WaitThen([run EXCEPT !.updated = TRUE, !.reboot = @ \/ reboot], "installed"),
             node' \in [Nodes -> UNION {Selected(run.pkg, n) : n \in Nodes}],
             \A n \in Nodes : node'[n] \in Selected(run.pkg, n), UNCHANGED probe
      PROVE  IInv'
  <2> DEFINE r == [run EXCEPT !.updated = TRUE, !.reboot = @ \/ reboot]
  <2>1. /\ r \in RunRecord /\ r.kind = "install" /\ ~r.cycled /\ r.updated
        /\ r.kept = run.kept /\ r.created = run.created /\ r.at = run.at
        /\ r.gave_up = run.gave_up
    BY <1>1 DEF RunRecord
  <2>2. WaitThen(r, "installed")
    BY <1>4
  <2> HIDE DEF r
  <2>3. \A n \in Nodes : /\ node'[n] \in NodeRecord /\ node'[n].state = node[n].state
                         /\ node'[n].enabled = node[n].enabled
    BY <1>1, <1>4, SelectedShape, RunFields
  <2>4. node' \in [Nodes -> NodeRecord]
    BY <1>4, <2>3
  <2> QED BY <1>2, <1>4, <2>1, <2>2, <2>3, <2>4
<1>5. CASE /\ \/ UNCHANGED node
              \/ \E n \in run.created, deferred \in BOOLEAN :
                   node' = [node EXCEPT ![n] = Removed(deferred)]
           /\ Throw
  <2>1. CASE UNCHANGED node
    <3>1. Present' = Present /\ node' = node
      BY <2>1, SameNodes
    <3> QED BY <1>1, <1>5, <3>1, FailStep
  <2>2. CASE \E n \in run.created, deferred \in BOOLEAN :
               node' = [node EXCEPT ![n] = Removed(deferred)]
    <3>1. node' \in [Nodes -> NodeRecord] /\ run.kept = {}
      BY <1>1, <2>2, RemovedShape
    <3> QED BY <1>1, <1>5, <3>1, FailStep
  <2> QED BY <1>5, <2>1, <2>2
<1> QED BY <1>3, <1>4, <1>5 DEF update_driver

LEMMA ReactivateStep == ASSUME IInv, Reactivate PROVE IInv'
<1>1. /\ node \in [Nodes -> NodeRecord] /\ run \in RunRecord /\ probe \in ProbeRecord
      /\ pc = "reactivate" /\ run.kind = "install" /\ ~run.cycled
      /\ \A n \in run.kept : n \in Present /\ (node[n].enabled \/ n \in run.gave_up)
      /\ run.created # {} => run.kept = {}
      /\ \A m, n \in run.created : m = n
      /\ \A m, n \in run.at : m = n
      /\ run.todo \subseteq Nodes
  BY RunFields DEF IInv, TypeOK, Reactivate, Owned, Kinds, Reloads, Waits
<1>2. CASE /\ WaitThen([run EXCEPT !.reboot = @ \/ run.seen, !.seen = FALSE], "reactivated")
           /\ UNCHANGED <<node, probe>>
  <2> DEFINE b == run.reboot \/ run.seen
             r == [run EXCEPT !.reboot = b, !.seen = FALSE]
  <2>0. b \in BOOLEAN /\ (run.reboot => b)
    BY <1>1, RunFields
  <2>1. /\ r \in RunRecord /\ r.kind = "install" /\ r.ready = run.ready /\ ~r.cycled
        /\ r.updated = run.updated /\ r.reboot = b
        /\ r.kept = run.kept /\ r.created = run.created /\ r.at = run.at
        /\ r.gave_up = run.gave_up
    <3> HIDE DEF b
    <3> QED BY <1>1, <2>0 DEF RunRecord
  <2>2. WaitThen(r, "reactivated")
    BY <1>2
  <2> HIDE DEF r
  <2>3. pc' = "wait" /\ run' \in RunRecord /\ run'.next = "reactivated" /\ Agrees(run', r)
    BY <2>1, <2>2, WaitThenFields
  <2>4. Present' = Present /\ Stale' = Stale /\ node' = node
    BY <1>2, SameNodes
  <2>5. TypeOK'
    BY <1>1, <1>2, <2>3 DEF TypeOK
  <2>6. Reloads' /\ Verdict'
    BY <1>1, <2>1, <2>3, <2>4 DEF Agrees, Reloads, Verdict, Waits, Cycling
  <2>7. Owned'
    BY <1>1, <2>1, <2>3, <2>4 DEF Agrees, Owned, Waits
  <2> QED BY <2>1, <2>3, <2>5, <2>6, <2>7, Underway DEF IInv, Agrees
<1>3. ASSUME NEW n \in run.todo, NEW deferred \in BOOLEAN, NEW s \in Restarted(n, deferred),
             node' = [node EXCEPT ![n] = s]
      PROVE  /\ node' \in [Nodes -> NodeRecord] /\ Present' = Present /\ Stale' \subseteq Stale
             /\ \A m \in run.kept : node'[m].enabled \/ m \in run.gave_up
  <2>1. /\ s \in NodeRecord /\ s.state = node[n].state /\ s.enabled = node[n].enabled
        /\ s.selected = node[n].selected /\ s.running \in {None, s.selected, node[n].running}
    BY <1>1, <1>3, RestartedShape
  <2>2. /\ node' \in [Nodes -> NodeRecord] /\ Present' = Present /\ Stale' \subseteq Stale
        /\ node'[n] = s /\ \A m \in Nodes \ {n} : node'[m] = node[m]
    BY <1>1, <1>3, <2>1, NodeStays
  <2>3. run.kept \subseteq Nodes
    BY <1>1, RunFields
  <2> QED BY <1>1, <2>1, <2>2, <2>3
<1>4. ASSUME NEW n \in run.todo, NEW reboot \in BOOLEAN, NEW s \in Restarted(n, reboot),
             node' = [node EXCEPT ![n] = s],
             run' = [run EXCEPT !.todo = @ \ {n}, !.seen = @ \/ reboot],
             UNCHANGED <<pc, probe>>
      PROVE  IInv'
  <2>1. /\ node' \in [Nodes -> NodeRecord] /\ Present' = Present /\ Stale' \subseteq Stale
        /\ \A m \in run.kept : node'[m].enabled \/ m \in run.gave_up
    BY <1>3, <1>4
  <2>2. /\ run' \in RunRecord /\ run'.kind = "install" /\ run'.ready = run.ready /\ ~run'.cycled
        /\ run'.updated = run.updated /\ run'.reboot = run.reboot
        /\ run'.kept = run.kept /\ run'.created = run.created /\ run'.at = run.at
        /\ run'.gave_up = run.gave_up
    <3> DEFINE b == run.seen \/ reboot
               left == run.todo \ {n}
    <3>1. /\ b \in BOOLEAN /\ left \in SUBSET Nodes
          /\ run' = [run EXCEPT !.todo = left, !.seen = b]
      BY <1>1, <1>4, RunFields
    <3> HIDE DEF b, left
    <3>2. run' \in RunRecord
      BY <1>1, <3>1 DEF RunRecord
    <3> QED BY <1>1, <3>1, <3>2 DEF RunRecord
  <2>3. TypeOK'
    BY <1>1, <1>4, <2>1, <2>2 DEF TypeOK
  <2>4. Reloads' /\ Verdict'
    BY <1>1, <1>4, <2>1, <2>2 DEF Reloads, Verdict, Waits, Cycling
  <2>5. Owned'
    BY <1>1, <1>4, <2>1, <2>2 DEF Owned, Waits
  <2> QED BY <1>1, <1>4, <2>2, <2>3, <2>4, <2>5, Underway DEF IInv
<1>5. ASSUME NEW n \in run.todo, NEW s \in Restarted(n, TRUE), node' = [node EXCEPT ![n] = s],
             Resume([run EXCEPT !.next = "reactivated", !.seen = FALSE], probe)
      PROVE  IInv'
  <2> DEFINE r == [run EXCEPT !.next = "reactivated", !.seen = FALSE]
  <2>1. /\ node' \in [Nodes -> NodeRecord] /\ Present' = Present /\ Stale' \subseteq Stale
        /\ \A m \in run.kept : node'[m].enabled \/ m \in run.gave_up
    BY <1>3, <1>5
  <2>2. /\ r \in RunRecord /\ r.kind = "install" /\ r.ready = run.ready /\ ~r.cycled
        /\ r.updated = run.updated /\ r.reboot = run.reboot
        /\ r.kept = run.kept /\ r.created = run.created /\ r.at = run.at
        /\ r.gave_up = run.gave_up /\ r.next = "reactivated"
    BY <1>1 DEF RunRecord
  <2>3. Resume(r, probe)
    BY <1>5
  <2> HIDE DEF r
  <2> QED BY <1>1, <2>1, <2>2, <2>3, ResumeStep
<1> QED BY <1>2, <1>4, <1>5 DEF Reactivate

-----------------------------------------------------------------------------
(* The cycle.  What holds in it, and what a step of it must show.          *)
LEMMA CycleFacts ==
  ASSUME IInv, Cycling
  PROVE  /\ node \in [Nodes -> NodeRecord] /\ run \in RunRecord /\ probe \in ProbeRecord
         /\ run.kind = "install" /\ ~run.cycled
         /\ ~run.failed /\ ~run.seen => Stale \subseteq run.todo
         /\ ~run.failed /\ ~run.seen /\ pc = "enable" => \A n \in run.at : node[n].running = None
         /\ pc = "restore" => run.failed
         /\ \A n \in run.kept : /\ n \in Present /\ n \in Nodes
                              /\ \/ node[n].enabled \/ n \in run.gave_up
                                 \/ (pc # "cycle" /\ n \in run.at)
         /\ run.created # {} => run.kept = {}
         /\ \A m, n \in run.created : m = n
         /\ \A m, n \in run.at : m = n
         /\ run.todo \subseteq Nodes /\ run.at \subseteq Nodes
<1>1. node \in [Nodes -> NodeRecord] /\ run \in RunRecord /\ probe \in ProbeRecord
  BY DEF IInv, TypeOK
<1>2. run.todo \subseteq Nodes /\ run.at \subseteq Nodes /\ run.kept \subseteq Nodes
  BY <1>1, RunFields
<1> QED BY <1>1, <1>2 DEF IInv, Cycling, Owned, Kinds, Reloads, Waits

LEMMA CycleGoesOn ==
  ASSUME IInv, Cycling, UNCHANGED probe, pc' \in {"cycle", "enable", "restore"},
         node' \in [Nodes -> NodeRecord], Present' = Present, Stale' \subseteq Stale,
         run' \in RunRecord, run'.kind = run.kind, run'.ready = run.ready,
         run'.updated = run.updated, run'.reboot = run.reboot,
         run'.kept = run.kept, run'.created = run.created, run'.cycled = run.cycled,
         \A m, n \in run'.at : m = n,
         pc' = "restore" => run'.failed,
         ~run'.failed /\ ~run'.seen => Stale' \subseteq run'.todo,
         ~run'.failed /\ ~run'.seen /\ pc' = "enable" => \A n \in run'.at : node'[n].running = None,
         \A n \in run.kept : \/ node'[n].enabled \/ n \in run'.gave_up
                            \/ (pc' # "cycle" /\ n \in run'.at)
  PROVE  IInv'
<1>1. /\ run.kind = "install" /\ ~run.cycled
      /\ probe \in ProbeRecord
      /\ \A n \in run.kept : n \in Present
      /\ run.created # {} => run.kept = {}
      /\ \A m, n \in run.created : m = n
  BY CycleFacts
<1>2. TypeOK'
  BY <1>1, CycleFacts DEF TypeOK
<1>3. Reloads' /\ Verdict'
  BY <1>1 DEF Reloads, Verdict, Waits, Cycling
<1>4. Owned'
  BY <1>1 DEF Owned, Waits
<1> QED BY <1>1, <1>2, <1>3, <1>4, Underway DEF IInv

LEMMA CycledStep == ASSUME IInv, Cycled PROVE IInv'
<1> DEFINE a == run.attempted /\ ~run.failed
           b == run.reboot \/ run.seen
           c == run.seen
           r == [run EXCEPT !.cycled = a, !.cycle_reboot = c, !.reboot = b, !.seen = FALSE,
                            !.attempted = FALSE, !.failed = FALSE]
<1>1. pc = "cycle" /\ run.todo = {} /\ WaitThen(r, "cycled") /\ UNCHANGED <<node, probe>>
  BY DEF Cycled
<1>2. Cycling
  BY <1>1 DEF Cycling
<1>3. /\ node \in [Nodes -> NodeRecord] /\ run \in RunRecord /\ probe \in ProbeRecord
      /\ run.kind = "install"
      /\ ~run.failed /\ ~run.seen => Stale \subseteq run.todo
      /\ \A n \in run.kept : n \in Present /\ (node[n].enabled \/ n \in run.gave_up)
      /\ run.created # {} => run.kept = {}
      /\ \A m, n \in run.created : m = n
      /\ \A m, n \in run.at : m = n
  BY <1>1, <1>2, CycleFacts
<1>4. a \in BOOLEAN /\ b \in BOOLEAN /\ c \in BOOLEAN /\ (a => ~run.failed) /\ c = run.seen
  BY <1>3, RunFields
<1> HIDE DEF a, b, c
<1>5. /\ r \in RunRecord /\ r.kind = run.kind /\ r.updated = run.updated /\ r.cycled = a
      /\ r.cycle_reboot = c /\ r.kept = run.kept
      /\ r.created = run.created /\ r.gave_up = run.gave_up /\ r.at = run.at
  <2>1. run \in RunRecord
    BY <1>3
  <2>2. r \in RunRecord
    <3> DEFINE q == [run EXCEPT !.cycled = a, !.cycle_reboot = c, !.reboot = b]
    <3> DEFINE o == [run EXCEPT !.cycled = a]
    <3>0. o \in RunRecord /\ q = [o EXCEPT !.cycle_reboot = c, !.reboot = b]
      BY <1>4, <2>1 DEF RunRecord
    <3> HIDE DEF o
    <3>1. q \in RunRecord
      <4> HIDE DEF q
      <4> QED BY <1>4, <3>0 DEF RunRecord
    <3>2. r = [q EXCEPT !.seen = FALSE, !.attempted = FALSE, !.failed = FALSE]
      OBVIOUS
    <3> HIDE DEF q, r
    <3> QED BY <3>1, <3>2 DEF RunRecord
  <2>3. /\ r.kind = run.kind /\ r.updated = run.updated /\ r.cycled = a
        /\ r.cycle_reboot = c /\ r.kept = run.kept
        /\ r.created = run.created /\ r.gave_up = run.gave_up /\ r.at = run.at
    BY <2>1 DEF RunRecord
  <2> HIDE DEF r
  <2> QED BY <2>2, <2>3
<1> HIDE DEF r
<1>6. pc' = "wait" /\ run' \in RunRecord /\ run'.next = "cycled" /\ Agrees(run', r)
  BY <1>1, <1>5, WaitThenFields
<1>7. Present' = Present /\ Stale' = Stale /\ node' = node
  BY <1>1, SameNodes
<1>8. TypeOK'
  BY <1>1, <1>3, <1>6 DEF TypeOK
<1>9. Verdict'
  BY <1>6 DEF Verdict, Waits, Cycling
<1>10. Reloads'
  BY <1>1, <1>3, <1>4, <1>5, <1>6, <1>7 DEF Agrees, Reloads, Waits, Cycling
<1>11. Owned'
  BY <1>3, <1>5, <1>6, <1>7 DEF Agrees, Owned, Waits
<1>12. run'.kind = "install"
  BY <1>3, <1>5, <1>6 DEF Agrees
<1> QED BY <1>6, <1>8, <1>9, <1>10, <1>11, <1>12, Underway DEF IInv

LEMMA CycleThrowsStep == ASSUME IInv, CycleThrows PROVE IInv'
<1> DEFINE r == [run EXCEPT !.next = "cycled", !.seen = FALSE, !.attempted = FALSE,
                            !.failed = FALSE]
<1>1. pc = "cycle" /\ Resume(r, probe) /\ UNCHANGED node
  BY DEF CycleThrows
<1>2. Cycling
  BY <1>1 DEF Cycling
<1>3. /\ node \in [Nodes -> NodeRecord] /\ run \in RunRecord /\ probe \in ProbeRecord
      /\ run.kind = "install" /\ ~run.cycled
      /\ \A n \in run.kept : node[n].enabled \/ n \in run.gave_up
  BY <1>1, <1>2, CycleFacts
<1>4. /\ r \in RunRecord /\ r.kind = run.kind /\ r.updated = run.updated /\ ~r.cycled
      /\ r.ready = run.ready /\ r.reboot = run.reboot /\ r.next = "cycled"
      /\ r.kept = run.kept
      /\ r.created = run.created /\ r.gave_up = run.gave_up /\ r.at = run.at
  BY <1>3 DEF RunRecord
<1> HIDE DEF r
<1>5. Present' = Present /\ Stale' \subseteq Stale /\ node' = node
  BY <1>1, SameNodes
<1> QED BY <1>1, <1>3, <1>4, <1>5, ResumeStep

LEMMA CycleDisableStep == ASSUME IInv, CycleDisable PROVE IInv'
<1>1. pc = "cycle" /\ UNCHANGED probe /\ Cycling
  BY DEF CycleDisable, Cycling
<1>2. /\ node \in [Nodes -> NodeRecord] /\ run \in RunRecord
      /\ ~run.failed /\ ~run.seen => Stale \subseteq run.todo
      /\ \A n \in run.kept : n \in Nodes /\ (node[n].enabled \/ n \in run.gave_up)
      /\ \A m, n \in run.at : m = n
      /\ run.todo \subseteq Nodes
  BY <1>1, CycleFacts
<1>3. ASSUME NEW n \in run.todo, NEW reboot \in BOOLEAN, NEW s \in Disabled(n, reboot),
             node' = [node EXCEPT ![n] = s], pc' = "enable",
             run' = [run EXCEPT !.at = {n}, !.attempted = TRUE, !.seen = @ \/ reboot]
      PROVE  IInv'
  <2> DEFINE b == run.seen \/ reboot
  <2>1. b \in BOOLEAN /\ run' = [run EXCEPT !.at = {n}, !.attempted = TRUE, !.seen = b]
        /\ (~b => ~run.seen /\ ~reboot)
    BY <1>2, <1>3, RunFields
  <2> HIDE DEF b
  <2>2. /\ run' \in RunRecord /\ run'.kind = run.kind /\ run'.ready = run.ready
        /\ run'.updated = run.updated /\ run'.reboot = run.reboot
        /\ run'.kept = run.kept /\ run'.created = run.created /\ run'.cycled = run.cycled
        /\ run'.at = {n} /\ run'.seen = b /\ run'.failed = run.failed
        /\ run'.todo = run.todo /\ run'.gave_up = run.gave_up
    <3> DEFINE q == [run EXCEPT !.at = {n}]
    <3>1. /\ q \in RunRecord /\ run' = [q EXCEPT !.attempted = TRUE, !.seen = b]
          /\ q.at = {n}
      BY <1>2, <2>1 DEF RunRecord
    <3>2. /\ q.kind = run.kind /\ q.ready = run.ready /\ q.updated = run.updated
          /\ q.reboot = run.reboot /\ q.kept = run.kept
          /\ q.created = run.created /\ q.cycled = run.cycled /\ q.failed = run.failed
          /\ q.todo = run.todo /\ q.gave_up = run.gave_up
      BY <1>2 DEF RunRecord
    <3> HIDE DEF q
    <3>3. run' \in RunRecord
      BY <2>1, <3>1 DEF RunRecord
    <3> QED BY <2>1, <3>1, <3>2, <3>3 DEF RunRecord
  <2>3. /\ s \in NodeRecord /\ s.state = node[n].state /\ s.selected = node[n].selected
        /\ s.running \in {None, node[n].running} /\ (~reboot => s.running = None)
    BY <1>2, <1>3, DisabledShape
  <2>4. /\ node' \in [Nodes -> NodeRecord] /\ Present' = Present /\ Stale' \subseteq Stale
        /\ node'[n] = s /\ \A m \in Nodes \ {n} : node'[m] = node[m]
    BY <1>2, <1>3, <2>3, NodeStays
  <2>5. ~run'.failed /\ ~run'.seen => /\ Stale' \subseteq run'.todo
                                      /\ \A m \in run'.at : node'[m].running = None
    BY <1>2, <2>1, <2>2, <2>3, <2>4
  <2>6. \A m \in run.kept : node'[m].enabled \/ m \in run'.gave_up \/ m \in run'.at
    BY <1>2, <2>2, <2>4
  <2> QED BY <1>1, <1>3, <2>2, <2>4, <2>5, <2>6, CycleGoesOn
<1>4. ASSUME NEW n \in run.todo, run' = [run EXCEPT !.todo = @ \ {n}, !.failed = TRUE],
             UNCHANGED <<node, pc>>
      PROVE  IInv'
  <2>1. run.todo \ {n} \in SUBSET Nodes
    BY <1>2
  <2>2. /\ run' \in RunRecord /\ run'.kind = run.kind /\ run'.ready = run.ready
        /\ run'.updated = run.updated /\ run'.reboot = run.reboot
        /\ run'.kept = run.kept /\ run'.created = run.created /\ run'.cycled = run.cycled
        /\ run'.at = run.at /\ run'.failed /\ run'.gave_up = run.gave_up
    BY <1>2, <1>4, <2>1 DEF RunRecord
  <2>3. Present' = Present /\ Stale' \subseteq Stale /\ node' = node /\ pc' = "cycle"
    BY <1>1, <1>4, SameNodes
  <2> QED BY <1>1, <1>2, <2>2, <2>3, CycleGoesOn
<1>5. ASSUME NEW n \in run.todo, NEW s \in Disabled(n, TRUE) \cup {node[n]},
             node' = [node EXCEPT ![n] = s], pc' = "restore",
             run' = [run EXCEPT !.at = {n}, !.attempted = TRUE, !.failed = TRUE]
      PROVE  IInv'
  <2>1. {n} \in SUBSET Nodes
    BY <1>2
  <2>2. /\ run' \in RunRecord /\ run'.kind = run.kind /\ run'.ready = run.ready
        /\ run'.updated = run.updated /\ run'.reboot = run.reboot
        /\ run'.kept = run.kept /\ run'.created = run.created /\ run'.cycled = run.cycled
        /\ run'.at = {n} /\ run'.failed /\ run'.gave_up = run.gave_up
    BY <1>2, <1>5, <2>1 DEF RunRecord
  <2>3. /\ s \in NodeRecord /\ s.state = node[n].state /\ s.selected = node[n].selected
        /\ s.running \in {None, node[n].running}
    <3>1. node[n] \in NodeRecord
      BY <1>2
    <3> QED BY <1>2, <1>5, <3>1, DisabledShape
  <2>4. /\ node' \in [Nodes -> NodeRecord] /\ Present' = Present /\ Stale' \subseteq Stale
        /\ node'[n] = s /\ \A m \in Nodes \ {n} : node'[m] = node[m]
    BY <1>2, <1>5, <2>3, NodeStays
  <2>5. \A m \in run.kept : node'[m].enabled \/ m \in run'.gave_up \/ m \in run'.at
    BY <1>2, <2>2, <2>4
  <2> QED BY <1>1, <1>5, <2>2, <2>4, <2>5, CycleGoesOn
<1> QED BY <1>3, <1>4, <1>5 DEF CycleDisable

(* DICS_ENABLE, by the cycle or by the second attempt.                     *)
LEMMA CycleEnables ==
  ASSUME IInv, pc \in {"enable", "restore"}, UNCHANGED probe, NEW n \in run.at,
         NEW deferred \in BOOLEAN, NEW s \in Enabled(n, deferred),
         node' = [node EXCEPT ![n] = s], pc' = "cycle",
         run' = [run EXCEPT !.todo = @ \ {n}, !.at = {}, !.seen = @ \/ deferred]
  PROVE  IInv'
<1>1. Cycling
  BY DEF Cycling
<1>2. /\ node \in [Nodes -> NodeRecord] /\ run \in RunRecord
      /\ ~run.failed /\ ~run.seen => Stale \subseteq run.todo
      /\ ~run.failed /\ ~run.seen => \A m \in run.at : node[m].running = None
      /\ \A m \in run.kept : m \in Nodes /\ (node[m].enabled \/ m \in run.gave_up \/ m \in run.at)
      /\ \A l, m \in run.at : l = m
      /\ run.todo \subseteq Nodes /\ run.at \subseteq Nodes
  BY <1>1, CycleFacts
<1> DEFINE b == run.seen \/ deferred
           left == run.todo \ {n}
<1>3. b \in BOOLEAN /\ run' = [run EXCEPT !.todo = left, !.at = {}, !.seen = b]
      /\ (~b => ~run.seen) /\ left \in SUBSET Nodes
  BY <1>2, RunFields
<1> HIDE DEF b
<1>4. /\ run' \in RunRecord /\ run'.kind = run.kind /\ run'.ready = run.ready
      /\ run'.updated = run.updated /\ run'.reboot = run.reboot
      /\ run'.kept = run.kept /\ run'.created = run.created /\ run'.cycled = run.cycled
      /\ run'.at = {} /\ run'.seen = b /\ run'.failed = run.failed
      /\ run'.todo = left /\ run'.gave_up = run.gave_up
  <2> HIDE DEF left
  <2>1. run' \in RunRecord
    <3> DEFINE q == [run EXCEPT !.todo = left]
    <3>1. q \in RunRecord /\ run' = [q EXCEPT !.at = {}, !.seen = b]
      BY <1>2, <1>3 DEF RunRecord
    <3> HIDE DEF q
    <3> QED BY <1>3, <3>1 DEF RunRecord
  <2>2. run \in RunRecord
    BY <1>2
  <2> QED BY <1>3, <2>1, <2>2 DEF RunRecord
<1>5. /\ s \in NodeRecord /\ s.state = node[n].state /\ s.selected = node[n].selected
      /\ s.running \in {node[n].selected, None, node[n].running} /\ s.enabled
  BY <1>2, EnabledShape
<1>6. /\ node' \in [Nodes -> NodeRecord] /\ Present' = Present /\ Stale' \subseteq Stale
      /\ s.running \in {None, s.selected} => Stale' = Stale \ {n}
      /\ node'[n] = s /\ \A m \in Nodes \ {n} : node'[m] = node[m]
  BY <1>2, <1>5, NodeStays
<1>7. ~run'.failed /\ ~run'.seen => Stale' \subseteq run'.todo
  BY <1>2, <1>3, <1>4, <1>5, <1>6
<1>8. \A m \in run.kept : node'[m].enabled \/ m \in run'.gave_up
  BY <1>2, <1>4, <1>5, <1>6
<1> QED BY <1>1, <1>4, <1>6, <1>7, <1>8, CycleGoesOn

(* DICS_ENABLE fails, applied or not.                                      *)
LEMMA EnableFails ==
  ASSUME node \in [Nodes -> NodeRecord], NEW n \in Nodes,
         NEW s \in Enabled(n, TRUE) \cup {node[n]}, node' = [node EXCEPT ![n] = s]
  PROVE  /\ node' \in [Nodes -> NodeRecord] /\ Present' = Present /\ Stale' \subseteq Stale
         /\ node'[n] = s /\ \A m \in Nodes \ {n} : node'[m] = node[m]
<1>1. node[n] \in NodeRecord
  OBVIOUS
<1>2. /\ s \in NodeRecord /\ s.state = node[n].state /\ s.selected = node[n].selected
      /\ s.running \in {node[n].selected, None, node[n].running}
  BY <1>1, EnabledShape
<1> QED BY <1>2, NodeStays

LEMMA CycleEnableStep == ASSUME IInv, CycleEnable PROVE IInv'
<1>1. pc = "enable" /\ UNCHANGED probe /\ Cycling
  BY DEF CycleEnable, Cycling
<1>2. /\ node \in [Nodes -> NodeRecord] /\ run \in RunRecord
      /\ \A m \in run.kept : m \in Nodes /\ (node[m].enabled \/ m \in run.gave_up \/ m \in run.at)
      /\ \A l, m \in run.at : l = m
      /\ run.at \subseteq Nodes
  BY <1>1, CycleFacts
<1>3. ASSUME NEW n \in run.at, NEW s \in Enabled(n, TRUE) \cup {node[n]},
             node' = [node EXCEPT ![n] = s], pc' = "restore", run' = [run EXCEPT !.failed = TRUE]
      PROVE  IInv'
  <2>1. /\ run' \in RunRecord /\ run'.kind = run.kind /\ run'.ready = run.ready
        /\ run'.updated = run.updated /\ run'.reboot = run.reboot
        /\ run'.kept = run.kept /\ run'.created = run.created /\ run'.cycled = run.cycled
        /\ run'.at = run.at /\ run'.failed /\ run'.gave_up = run.gave_up
    BY <1>2, <1>3 DEF RunRecord
  <2>2. /\ node' \in [Nodes -> NodeRecord] /\ Present' = Present /\ Stale' \subseteq Stale
        /\ node'[n] = s /\ \A m \in Nodes \ {n} : node'[m] = node[m]
    BY <1>2, <1>3, EnableFails
  <2>3. \A m \in run.kept : node'[m].enabled \/ m \in run'.gave_up \/ m \in run'.at
    BY <1>2, <1>3, <2>1, <2>2
  <2> QED BY <1>1, <1>2, <1>3, <2>1, <2>2, <2>3, CycleGoesOn
<1> QED BY <1>1, <1>3, CycleEnables DEF CycleEnable

LEMMA CycleRestoreStep == ASSUME IInv, CycleRestore PROVE IInv'
<1>1. pc = "restore" /\ UNCHANGED probe /\ Cycling /\ pc' = "cycle"
  BY DEF CycleRestore, Cycling
<1>2. /\ node \in [Nodes -> NodeRecord] /\ run \in RunRecord /\ run.failed
      /\ \A m \in run.kept : m \in Nodes /\ (node[m].enabled \/ m \in run.gave_up \/ m \in run.at)
      /\ \A l, m \in run.at : l = m
      /\ run.at \subseteq Nodes
  BY <1>1, CycleFacts
<1>3. ASSUME NEW n \in run.at, NEW s \in Enabled(n, TRUE) \cup {node[n]},
             node' = [node EXCEPT ![n] = s],
             run' = [run EXCEPT !.todo = @ \ {n}, !.at = {}, !.gave_up = @ \cup {n}]
      PROVE  IInv'
  <2> DEFINE left == run.todo \ {n}
             up == run.gave_up \cup {n}
  <2>0. left \in SUBSET Nodes /\ up \in SUBSET Nodes
    BY <1>2, RunFields
  <2>1. /\ run' \in RunRecord /\ run'.kind = run.kind /\ run'.ready = run.ready
        /\ run'.updated = run.updated /\ run'.reboot = run.reboot
        /\ run'.kept = run.kept /\ run'.created = run.created /\ run'.cycled = run.cycled
        /\ run'.at = {} /\ run'.failed /\ run'.gave_up = up
    <3>1. run' = [run EXCEPT !.todo = left, !.at = {}, !.gave_up = up]
      BY <1>3
    <3> HIDE DEF left, up
    <3> QED BY <1>2, <2>0, <3>1 DEF RunRecord
  <2>2. /\ node' \in [Nodes -> NodeRecord] /\ Present' = Present /\ Stale' \subseteq Stale
        /\ node'[n] = s /\ \A m \in Nodes \ {n} : node'[m] = node[m]
    BY <1>2, <1>3, EnableFails
  <2>3. \A m \in run.kept : node'[m].enabled \/ m \in run'.gave_up
    BY <1>2, <1>3, <2>1, <2>2
  <2> QED BY <1>1, <1>2, <2>1, <2>2, <2>3, CycleGoesOn
<1> QED BY <1>1, <1>3, CycleEnables DEF CycleRestore

-----------------------------------------------------------------------------
LEMMA AttestStep == ASSUME IInv, Attest PROVE IInv'
<1>1. /\ node \in [Nodes -> NodeRecord] /\ run \in RunRecord /\ probe \in ProbeRecord
      /\ pc = "attest" /\ run.kind = "install" /\ UNCHANGED <<node, probe>>
      /\ run.cycled /\ ~run.cycle_reboot => Stale = {}
      /\ \A n \in run.kept : n \in Present /\ (node[n].enabled \/ n \in run.gave_up)
      /\ run.created # {} => run.kept = {}
      /\ \A m, n \in run.created : m = n
      /\ \A m, n \in run.at : m = n
  BY DEF IInv, TypeOK, Attest, Owned, Kinds, Reloads, Waits
<1>2. PICK matches \in {FALSE, owned_root_devices_match_driver_version} :
        LET r == [run EXCEPT !.matches = attestation_due(run) /\ matches]
            s == [r EXCEPT !.reboot = @ /\ ~reload_verified(r)]
        IN  IF ~s.ready /\ ~s.reboot /\ s.created # {}
              THEN pc' = "rollback" /\ run' = s
              ELSE WaitThen(s, "status")
  BY DEF Attest
<1> DEFINE m == attestation_due(run) /\ matches
           r == [run EXCEPT !.matches = m]
           b == run.reboot /\ ~reload_verified(r)
           s == [r EXCEPT !.reboot = b]
<1>3. m \in BOOLEAN /\ b \in BOOLEAN
  BY <1>1, RunFields DEF attestation_due, owned_root_devices_match_driver_version,
                         live_reload_required
<1>4. m => attestation_due(run) /\ owned_root_devices_match_driver_version
  BY <1>2
<1>5. /\ r \in RunRecord /\ r.matches = m
      /\ r.kind = run.kind /\ r.updated = run.updated
      /\ r.kept = run.kept /\ r.created = run.created /\ r.gave_up = run.gave_up
      /\ r.at = run.at /\ r.cycled = run.cycled /\ r.cycle_reboot = run.cycle_reboot
      /\ r.ready = run.ready /\ r.pkg = run.pkg /\ r.reboot = run.reboot
  <2> HIDE DEF m
  <2> QED BY <1>1, <1>3 DEF RunRecord
<1>6. s = [r EXCEPT !.reboot = @ /\ ~reload_verified(r)]
  BY <1>5
<1>7. IF ~s.ready /\ ~s.reboot /\ s.created # {}
        THEN pc' = "rollback" /\ run' = s
        ELSE WaitThen(s, "status")
  BY <1>2, <1>6
<1> HIDE DEF m, r, b
<1>8. /\ s \in RunRecord /\ s.matches = m
      /\ s.kind = run.kind /\ s.updated = run.updated
      /\ s.kept = run.kept /\ s.created = run.created /\ s.gave_up = run.gave_up
      /\ s.at = run.at /\ s.cycled = run.cycled /\ s.cycle_reboot = run.cycle_reboot
      /\ s.ready = run.ready /\ s.pkg = run.pkg
  BY <1>3, <1>5 DEF RunRecord
<1> HIDE DEF s
<1>9. /\ Present' = Present /\ Stale' = Stale /\ node' = node
  BY <1>1, SameNodes
<1>10. CASE pc' = "rollback" /\ run' = s /\ ~s.ready
  <2>1. ~m
    BY <1>4, <1>8, <1>10 DEF attestation_due
  <2>2. TypeOK'
    BY <1>1, <1>8, <1>10 DEF TypeOK
  <2>3. Reloads' /\ Verdict'
    BY <1>1, <1>8, <1>9, <1>10, <2>1 DEF Reloads, Verdict, Waits, Cycling
  <2>4. Owned'
    BY <1>1, <1>8, <1>9, <1>10 DEF Owned, Waits
  <2> QED BY <1>1, <1>8, <1>10, <2>2, <2>3, <2>4, Underway DEF IInv
<1>11. CASE WaitThen(s, "status") /\ (s.ready \/ s.reboot \/ s.created = {})
  <2>1. pc' = "wait" /\ run' \in RunRecord /\ run'.next = "status" /\ Agrees(run', s)
    BY <1>8, <1>11, WaitThenFields
  <2>2. TypeOK'
    BY <1>1, <2>1 DEF TypeOK
  <2>3. Reloads'
    BY <1>1, <1>8, <1>9, <2>1 DEF Agrees, Reloads, Waits, Cycling
  <2>4. Owned'
    BY <1>1, <1>8, <1>9, <1>11, <2>1 DEF Agrees, Owned, Waits
  <2>5. Verdict'
    <3>1. ASSUME m PROVE Reloaded
      <4>1. Present # {} /\ \A n \in Present : node[n].selected = run.pkg
        BY <1>4, <3>1 DEF owned_root_devices_match_driver_version
      <4>2. run.updated => Stale = {}
        BY <1>1, <1>4, <3>1 DEF attestation_due, live_reload_required
      <4>3. run.updated => \A n \in Present : node[n].running \in {None, run.pkg}
        BY <4>1, <4>2 DEF Stale
      <4> QED BY <4>1, <4>3 DEF Reloaded
    <3> QED BY <1>8, <1>9, <2>1, <3>1 DEF Agrees, Verdict, Reloaded, Waits
  <2> QED BY <1>1, <1>8, <2>1, <2>2, <2>3, <2>4, <2>5, Underway DEF IInv, Agrees
<1> QED BY <1>7, <1>10, <1>11

LEMMA RollbackStep == ASSUME IInv, Rollback PROVE IInv'
<1>1. /\ node \in [Nodes -> NodeRecord] /\ run \in RunRecord /\ probe \in ProbeRecord
      /\ pc = "rollback" /\ run.kind = "install" /\ ~run.matches
      /\ run.cycled /\ ~run.cycle_reboot => Stale = {}
      /\ \A n \in run.kept : n \in Present /\ (node[n].enabled \/ n \in run.gave_up)
      /\ run.created # {} => run.kept = {}
      /\ \A m, n \in run.created : m = n
      /\ \A m, n \in run.at : m = n
      /\ run.created \subseteq Nodes
  BY RunFields DEF IInv, TypeOK, Rollback, Owned, Kinds, Reloads, Verdict, Waits
<1>2. CASE Throw /\ UNCHANGED node
  <2>1. Present' = Present /\ node' = node
    BY <1>2, SameNodes
  <2> QED BY <1>1, <1>2, <2>1, FailStep
<1>3. ASSUME NEW n \in run.created, NEW deferred \in BOOLEAN,
             node' = [node EXCEPT ![n] = Removed(deferred)],
             WaitThen([run EXCEPT !.reboot = deferred], "status"), UNCHANGED probe
      PROVE  IInv'
  <2> DEFINE r == [run EXCEPT !.reboot = deferred]
  <2>1. /\ r \in RunRecord /\ r.kind = "install" /\ ~r.matches
        /\ r.updated = run.updated /\ r.cycled = run.cycled
        /\ r.cycle_reboot = run.cycle_reboot /\ r.kept = run.kept
        /\ r.created = run.created /\ r.at = run.at
    BY <1>1 DEF RunRecord
  <2>2. WaitThen(r, "status")
    BY <1>3
  <2> HIDE DEF r
  <2>3. pc' = "wait" /\ run' \in RunRecord /\ run'.next = "status" /\ Agrees(run', r)
    BY <2>1, <2>2, WaitThenFields
  <2>4. /\ node' \in [Nodes -> NodeRecord] /\ node'[n].state # "present"
        /\ \A m \in Nodes \ {n} : node'[m] = node[m]
    BY <1>1, <1>3, RemovedShape
  <2>5. n \notin Present' /\ Stale' \subseteq Stale
    <3>1. DOMAIN node' = Nodes /\ DOMAIN node = Nodes
      BY <1>1, <2>4
    <3> QED BY <1>1, <2>4, <3>1 DEF Present, Stale
  <2>6. TypeOK'
    BY <1>1, <1>3, <2>3, <2>4 DEF TypeOK
  <2>7. Reloads' /\ Verdict'
    BY <1>1, <2>1, <2>3, <2>5 DEF Agrees, Reloads, Verdict, Waits, Cycling
  <2>8. Owned'
    BY <1>1, <1>3, <2>1, <2>3, <2>5 DEF Agrees, Owned, Waits
  <2> QED BY <2>1, <2>3, <2>6, <2>7, <2>8, Underway DEF IInv, Agrees
<1>4. ASSUME NEW n \in run.created, NEW deferred \in BOOLEAN,
             node' = [node EXCEPT ![n] = Removed(deferred)], Throw
      PROVE  IInv'
  <2>1. node' \in [Nodes -> NodeRecord] /\ run.kept = {}
    BY <1>1, <1>4, RemovedShape
  <2> QED BY <1>1, <1>4, <2>1, FailStep
<1> QED BY <1>2, <1>3, <1>4 DEF Rollback

-----------------------------------------------------------------------------
LEMMA RemoveStep == ASSUME IInv, Remove PROVE IInv'
<1>1. /\ node \in [Nodes -> NodeRecord] /\ probe \in ProbeRecord /\ UNCHANGED <<node, probe>>
      /\ pc = "idle" /\ pc' = "remove"
      /\ run' = [NoRun EXCEPT !.kind = "remove", !.todo = Registered]
  BY DEF IInv, TypeOK, Remove
<1>2. Registered \in SUBSET Nodes /\ Present \subseteq Registered
  BY <1>1, NodeSets
<1>3. /\ run' \in RunRecord /\ run'.kind = "remove" /\ run'.todo = Registered
      /\ run'.kept = {} /\ run'.created = {} /\ run'.at = {} /\ ~run'.cycled
  BY <1>1, <1>2, NoRunFields DEF RunRecord
<1>4. Present' = Present /\ Registered' = Registered
  BY <1>1, SameNodes
<1>5. TypeOK' /\ Kinds' /\ Reloads' /\ Verdict'
  BY <1>1, <1>3 DEF TypeOK, Kinds, Reloads, Verdict, Waits, Cycling
<1>6. Owned' /\ Removing'
  BY <1>1, <1>2, <1>3, <1>4 DEF Owned, Removing, Waits
<1>7. OkMeansReloaded' /\ NodesAccounted'
  BY <1>1, <1>3 DEF InstalledOk, OkMeansReloaded,
                    NodesAccounted, NodesKept, RolledBack, RemovedAll
<1> QED BY <1>5, <1>6, <1>7 DEF IInv

LEMMA RemoveFacts ==
  ASSUME IInv, pc = "remove"
  PROVE  /\ node \in [Nodes -> NodeRecord] /\ run \in RunRecord /\ probe \in ProbeRecord
         /\ run.kind = "remove" /\ run.todo \subseteq Nodes /\ ~run.cycled
         /\ run.kept = {} /\ \A m, n \in run.created : m = n
         /\ \A m, n \in run.at : m = n
         /\ Present \subseteq run.todo \cup run.gave_up
         /\ ~run.reboot => Registered \subseteq run.todo \cup run.gave_up
BY RunFields DEF IInv, TypeOK, Kinds, Reloads, Waits, Removing, Owned

(* run_remove answers for every node it found, and keeps none.             *)
LEMMA RemoveGoesOn ==
  ASSUME IInv, pc = "remove", UNCHANGED <<pc, probe>>, node' \in [Nodes -> NodeRecord],
         run' \in RunRecord, run'.kind = "remove", run'.kept = {},
         run'.created = run.created, run'.at = run.at, ~run'.cycled,
         Present' \subseteq run'.todo \cup run'.gave_up,
         ~run'.reboot => Registered' \subseteq run'.todo \cup run'.gave_up
  PROVE  IInv'
<1>1. pc' = "remove" /\ probe' = probe
  OBVIOUS
<1>2. TypeOK'
  BY <1>1, RemoveFacts DEF TypeOK
<1>3. Kinds' /\ Reloads' /\ Verdict' /\ Owned' /\ Removing'
  BY <1>1, RemoveFacts DEF Kinds, Reloads, Verdict, Owned, Removing, Waits, Cycling
<1>4. OkMeansReloaded' /\ NodesAccounted'
  BY <1>1 DEF InstalledOk, OkMeansReloaded,
              NodesAccounted, NodesKept, RolledBack, RemovedAll
<1> QED BY <1>2, <1>3, <1>4 DEF IInv

LEMMA RemoveNodeStep == ASSUME IInv, RemoveNode PROVE IInv'
<1>1. pc = "remove" /\ UNCHANGED <<pc, probe>>
  BY DEF RemoveNode
<1>2. /\ node \in [Nodes -> NodeRecord] /\ run \in RunRecord /\ run.kind = "remove"
      /\ run.todo \subseteq Nodes /\ ~run.cycled /\ run.kept = {}
      /\ Present \subseteq run.todo \cup run.gave_up
      /\ ~run.reboot => Registered \subseteq run.todo \cup run.gave_up
  BY <1>1, RemoveFacts
<1>3. ASSUME NEW n \in run.todo, NEW deferred \in BOOLEAN,
             node' = [node EXCEPT ![n] = Removed(deferred)],
             run' = [run EXCEPT !.todo = @ \ {n}, !.reboot = @ \/ deferred]
      PROVE  IInv'
  <2> DEFINE left == run.todo \ {n}
             b == run.reboot \/ deferred
  <2>1. left \in SUBSET Nodes /\ b \in BOOLEAN /\ (~b => ~run.reboot /\ ~deferred)
    BY <1>2, RunFields
  <2>2. run' = [run EXCEPT !.todo = left, !.reboot = b]
    BY <1>3
  <2>3. /\ run' \in RunRecord /\ run'.kind = "remove" /\ run'.kept = {}
        /\ run'.created = run.created /\ run'.at = run.at /\ ~run'.cycled
        /\ run'.todo = left /\ run'.reboot = b /\ run'.gave_up = run.gave_up
    <3> HIDE DEF left, b
    <3> QED BY <1>2, <2>1, <2>2 DEF RunRecord
  <2>4. /\ node' \in [Nodes -> NodeRecord] /\ node'[n].state # "present"
        /\ ~deferred => node'[n].state = "absent"
        /\ \A m \in Nodes \ {n} : node'[m] = node[m]
    BY <1>2, <1>3, RemovedShape
  <2>5. DOMAIN node' = Nodes /\ DOMAIN node = Nodes
    BY <1>2, <2>4
  <2>6. Present' \subseteq run'.todo \cup run'.gave_up
    BY <1>2, <2>3, <2>4, <2>5 DEF Present
  <2>7. ~run'.reboot => Registered' \subseteq run'.todo \cup run'.gave_up
    <3>1. ~deferred => Registered' \subseteq Registered \ {n}
      BY <2>4, <2>5 DEF Registered
    <3> QED BY <1>2, <2>1, <2>3, <3>1
  <2> QED BY <1>1, <2>3, <2>4, <2>6, <2>7, RemoveGoesOn
<1>4. ASSUME NEW n \in run.todo,
             node' \in {node} \cup {[node EXCEPT ![n] = Removed(d)] : d \in BOOLEAN},
             run' = [run EXCEPT !.todo = @ \ {n}, !.gave_up = @ \cup {n}]
      PROVE  IInv'
  <2> DEFINE left == run.todo \ {n}
             up == run.gave_up \cup {n}
  <2>1. left \in SUBSET Nodes /\ up \in SUBSET Nodes
    BY <1>2, RunFields
  <2>2. run' = [run EXCEPT !.todo = left, !.gave_up = up]
    BY <1>4
  <2>3. /\ run' \in RunRecord /\ run'.kind = "remove" /\ run'.kept = {}
        /\ run'.created = run.created /\ run'.at = run.at /\ ~run'.cycled
        /\ run'.todo = left /\ run'.reboot = run.reboot /\ run'.gave_up = up
    <3> HIDE DEF left, up
    <3> QED BY <1>2, <2>1, <2>2 DEF RunRecord
  <2>4. /\ node' \in [Nodes -> NodeRecord] /\ Present' \subseteq Present
        /\ Registered' \subseteq Registered \cup {n}
    <3>1. CASE node' = node
      BY <1>2, <3>1, SameNodes
    <3>2. ASSUME NEW d \in BOOLEAN, node' = [node EXCEPT ![n] = Removed(d)]
          PROVE  /\ node' \in [Nodes -> NodeRecord] /\ Present' \subseteq Present
                 /\ Registered' \subseteq Registered \cup {n}
      <4>1. /\ node' \in [Nodes -> NodeRecord] /\ node'[n].state # "present"
            /\ \A m \in Nodes \ {n} : node'[m] = node[m]
        BY <1>2, <3>2, RemovedShape
      <4>2. DOMAIN node' = Nodes /\ DOMAIN node = Nodes
        BY <1>2, <4>1
      <4> QED BY <4>1, <4>2 DEF Present, Registered
    <3> QED BY <1>4, <3>1, <3>2
  <2>5. Present' \subseteq run'.todo \cup run'.gave_up
    BY <1>2, <2>3, <2>4
  <2>6. ~run'.reboot => Registered' \subseteq run'.todo \cup run'.gave_up
    BY <1>2, <2>3, <2>4
  <2> QED BY <1>1, <1>2, <2>3, <2>4, <2>5, <2>6, RemoveGoesOn
<1> QED BY <1>3, <1>4 DEF RemoveNode

LEMMA RemoveEndsStep == ASSUME IInv, RemoveEnds PROVE IInv'
<1> DEFINE e == IF run.gave_up # {} THEN k_exit_failed
                ELSE IF run.reboot THEN k_exit_reboot ELSE k_exit_ok
<1>1. pc = "remove" /\ run.todo = {} /\ Finish(e) /\ UNCHANGED node
  BY DEF RemoveEnds
<1>2. /\ node \in [Nodes -> NodeRecord] /\ run \in RunRecord /\ run.kind = "remove"
      /\ run.kept = {} /\ \A m, n \in run.created : m = n
      /\ Present \subseteq run.todo \cup run.gave_up
      /\ ~run.reboot => Registered \subseteq run.todo \cup run.gave_up
  BY <1>1, RemoveFacts
<1>3. e \in {k_exit_ok, k_exit_failed, k_exit_not_ready, k_exit_reboot}
      /\ (e = k_exit_ok => run.gave_up = {} /\ ~run.reboot)
  BY DEF k_exit_ok, k_exit_failed, k_exit_reboot
<1> HIDE DEF e
<1>4. /\ pc' = "idle" /\ probe' = NoProbe /\ run' \in RunRecord
      /\ run'.kind = "remove" /\ run'.created = run.created /\ run'.exit = e
      /\ run'.kept = {} /\ run'.gave_up = run.gave_up /\ run'.at = {} /\ ~run'.cycled
  BY <1>1, <1>2, <1>3, FinishFields
<1>5. TypeOK'
  BY <1>1, <1>2, <1>4, NoProbeFields DEF TypeOK
<1>6. Kinds' /\ Reloads' /\ Verdict' /\ Owned' /\ Removing'
  BY <1>2, <1>4 DEF Kinds, Reloads, Verdict, Owned, Removing, Waits, Cycling
<1>7. Present' = Present /\ Registered' = Registered
  BY <1>1, SameNodes
<1>8. OkMeansReloaded' /\ NodesAccounted'
  BY <1>1, <1>2, <1>3, <1>4, <1>7 DEF InstalledOk, OkMeansReloaded,
                                      NodesAccounted, NodesKept, RolledBack, RemovedAll
<1> QED BY <1>5, <1>6, <1>8 DEF IInv

(* Between runs.                                                           *)
LEMMA RebootStep == ASSUME IInv, Reboot PROVE IInv'
<1>1. /\ node \in [Nodes -> NodeRecord] /\ probe \in ProbeRecord /\ UNCHANGED <<pc, probe>>
      /\ pc = "idle" /\ run' = NoRun
  BY DEF IInv, TypeOK, Reboot
<1>2. PICK started \in SUBSET {n \in Present : node[n].enabled} :
        node' = [n \in Nodes |->
                   IF n \in Present
                     THEN [node[n] EXCEPT !.running = IF n \in started THEN node[n].selected
                                                      ELSE None]
                     ELSE node[n]]
  BY DEF Reboot
<1>3. node' \in [Nodes -> NodeRecord]
  <2>1. ASSUME NEW n \in Nodes PROVE node'[n] \in NodeRecord
    <3>1. node[n] \in NodeRecord
      BY <1>1
    <3> DEFINE x == IF n \in started THEN node[n].selected ELSE None
    <3>2. x \in Packages \cup {None}
      BY <3>1, NodeFields
    <3>3. node'[n] = IF n \in Present THEN [node[n] EXCEPT !.running = x] ELSE node[n]
      BY <1>2
    <3> HIDE DEF x
    <3> QED BY <3>1, <3>2, <3>3 DEF NodeRecord
  <2> QED BY <1>2, <2>1
<1>4. TypeOK'
  BY <1>1, <1>3, NoRunFields DEF TypeOK
<1>5. Kinds' /\ Reloads' /\ Verdict' /\ Owned' /\ Removing'
  BY <1>1, NoRunFields DEF Kinds, Reloads, Verdict, Owned, Removing, Waits, Cycling
<1>6. OkMeansReloaded' /\ NodesAccounted'
  BY <1>1, NoRunFields DEF InstalledOk, OkMeansReloaded,
                           NodesAccounted, NodesKept, RolledBack, RemovedAll
<1> QED BY <1>4, <1>5, <1>6 DEF IInv

-----------------------------------------------------------------------------
LEMMA InitInv == Init => IInv
<1> SUFFICES ASSUME Init PROVE IInv
  OBVIOUS
<1>1. pc = "idle" /\ run = NoRun /\ probe = NoProbe
  BY DEF Init
<1>2. node \in [Nodes -> NodeRecord]
  BY DEF Init
<1>3. TypeOK
  BY <1>1, <1>2, NoRunFields, NoProbeFields DEF TypeOK
<1>4. Kinds /\ Reloads /\ Verdict /\ Owned /\ Removing
  BY <1>1, NoRunFields DEF Kinds, Reloads, Verdict, Owned, Removing, Waits, Cycling
<1>5. OkMeansReloaded /\ NodesAccounted
  BY <1>1, NoRunFields DEF InstalledOk, OkMeansReloaded,
                           NodesAccounted, NodesKept, RolledBack, RemovedAll
<1> QED BY <1>3, <1>4, <1>5 DEF IInv

LEMMA StepInv == IInv /\ [Next]_vars => IInv'
<1> SUFFICES ASSUME IInv, [Next]_vars PROVE IInv'
  OBVIOUS
<1>1. CASE UNCHANGED vars
  <2>1. UNCHANGED <<node, pc, run>> /\ probe' = probe
    BY <1>1 DEF vars
  <2>2. probe \in ProbeRecord
    BY DEF IInv, TypeOK
  <2> QED BY <2>1, <2>2, ProbeOnly
<1>2. CASE ToolStep
  BY <1>2, CreateStep, UpdateStep, PollStep, PollFailsStep, ProbeOpensStep, ProbeCancelsStep,
     ProbeRetainedStep, ProbeOpenedStep, ProbeQueriedStep, ReactivateStep, CycledStep,
     CycleThrowsStep, CycleDisableStep, CycleEnableStep, CycleRestoreStep, AttestStep,
     RollbackStep, RemoveNodeStep, RemoveEndsStep DEF ToolStep
<1> QED BY <1>1, <1>2, InstallStep, RemoveStep, ProbeAnsweredStep, RebootStep DEF Next

LEMMA InvAlways == Spec => []IInv
BY InitInv, StepInv, PTL DEF Spec

(* The tool's locals, its probe and the machine keep their types, for any  *)
(* machine and any number of retries.                                      *)
THEOREM SetupTypeCorrect == Spec => []TypeOK
<1>1. IInv => TypeOK
  BY DEF IInv
<1> QED BY InvAlways, <1>1, PTL

(* install_outcome: exit code 0 means that the package asked for is        *)
(* selected for every owned node, and that no host of another package is   *)
(* left where this run changed the selection.                              *)
THEOREM ExitOkIsEarned == Spec => []OkMeansReloaded
<1>1. IInv => OkMeansReloaded
  BY DEF IInv
<1> QED BY InvAlways, <1>1, PTL

(* cycle_owned_root_device_instance, run_install's rollback and run_remove *)
(* account for the nodes as NodesAccounted spells out, whichever of their  *)
(* calls fails, applied or not.                                            *)
THEOREM NodesAccountedFor == Spec => []NodesAccounted
<1>1. IInv => NodesAccounted
  BY DEF IInv
<1> QED BY InvAlways, <1>1, PTL
=============================================================================
