----------------------------- MODULE DeviceSetup -----------------------------
(***************************************************************************)
(* The device setup tool (VibeshineVhfGamepadDeviceSetup.cpp and           *)
(* install_decision.h): runs of `install` and `remove` on a machine whose  *)
(* owned root nodes it creates, updates, restarts, cycles and removes.     *)
(*                                                                         *)
(* Windows is external: a node has a driver package that is selected for   *)
(* it and a package whose DLL its host is running, and the two differ      *)
(* while Windows puts a reload off to a reboot.  Every SetupAPI call may   *)
(* fail, a failed state change may nevertheless have been applied, and the *)
(* interface may fail to open, or never answer.                            *)
(***************************************************************************)
EXTENDS Naturals

CONSTANTS
  Nodes,      \* the instance ids of owned root nodes
  Packages,   \* the DriverVers of packages, newer ones larger
  Requests,   \* the packages the tool is asked to install
  Attempts    \* the retries of one wait (k_interface_wait / k_interface_poll)

ASSUME SetupAssumption ==
  Packages \subseteq Nat \ {0} /\ Requests \subseteq Packages /\ Attempts \in Nat

VARIABLES
  node,    \* the machine's root nodes
  pc,      \* where the tool is; "idle" between runs
  run,     \* the locals of the current run, and what a finished one returned
  probe    \* the protocol_query_probe object and who uses it

vars == <<node, pc, run, probe>>

None == 0

k_exit_ok == 0
k_exit_failed == 1
k_exit_not_ready == 3
k_exit_reboot == 3010

Absent == [state |-> "absent", enabled |-> FALSE, selected |-> None, running |-> None]

Registered == {n \in DOMAIN node : node[n].state # "absent"}
Present == {n \in DOMAIN node : node[n].state = "present"}

(* A present node whose host runs something other than its selection.      *)
Stale == {n \in Present : node[n].running \notin {None, node[n].selected}}

(* is_our_root_device and DIGCF_PRESENT: the interfaces a probe may find.  *)
Interfaces == {n \in Present : node[n].running # None}

NoProbe == [busy |-> FALSE, stage |-> "none", cancelled |-> FALSE,
            pending |-> FALSE, answer |-> "none"]

NoRun == [kind |-> "none", pkg |-> None, created |-> {}, reboot |-> FALSE, updated |-> FALSE,
          ready |-> FALSE, cycled |-> FALSE, cycle_reboot |-> FALSE, matches |-> FALSE,
          todo |-> {}, at |-> {}, seen |-> FALSE, attempted |-> FALSE, failed |-> FALSE,
          attempt |-> 0, scan |-> {}, next |-> "none", exit |-> None,
          kept |-> {}, gave_up |-> {}]

NodeRecord == [state : {"absent", "phantom", "present"}, enabled : BOOLEAN,
               selected : Packages \cup {None}, running : Packages \cup {None}]

RunRecord == [kind : {"none", "install", "remove"}, pkg : Packages \cup {None},
              created : SUBSET Nodes, reboot : BOOLEAN, updated : BOOLEAN, ready : BOOLEAN,
              cycled : BOOLEAN, cycle_reboot : BOOLEAN, matches : BOOLEAN,
              todo : SUBSET Nodes, at : SUBSET Nodes, seen : BOOLEAN, attempted : BOOLEAN,
              failed : BOOLEAN, attempt : 0..Attempts, scan : SUBSET Nodes,
              next : {"none", "installed", "reactivated", "cycled", "status"},
              exit : {k_exit_ok, k_exit_failed, k_exit_not_ready, k_exit_reboot},
              kept : SUBSET Nodes, gave_up : SUBSET Nodes]

ProbeRecord == [busy : BOOLEAN, stage : {"none", "open", "query"}, cancelled : BOOLEAN,
                pending : BOOLEAN,
                answer : {"none", "opened", "in_use", "absent", "valid", "invalid"}]

TypeOK ==
  /\ node \in [Nodes -> NodeRecord]
  /\ pc \in {"idle", "create", "update", "wait", "probe", "reactivate", "cycle", "enable",
             "restore", "attest", "rollback", "remove"}
  /\ run \in RunRecord
  /\ probe \in ProbeRecord

-----------------------------------------------------------------------------
(* What Windows does to a node when it is asked (external).                *)

(* The host is restarted, or the stack fails to start; a deferred or a     *)
(* failed restart may also leave the old host running.                     *)
Restarted(n, deferred) ==
  IF node[n].enabled
    THEN {[node[n] EXCEPT !.running = r] :
            r \in {node[n].selected, None} \cup (IF deferred THEN {node[n].running} ELSE {})}
    ELSE {node[n]}

Disabled(n, deferred) ==
  {[node[n] EXCEPT !.enabled = FALSE, !.running = r] :
     r \in {None} \cup (IF deferred THEN {node[n].running} ELSE {})}

(* A host that is still there keeps running.                               *)
Enabled(n, deferred) ==
  {[node[n] EXCEPT !.enabled = TRUE, !.running = r] :
     r \in IF node[n].running # None /\ ~deferred
             THEN {node[n].running} ELSE {node[n].running, node[n].selected, None}}

(* A removal that is deferred leaves a registered node that is not there.  *)
Removed(deferred) == IF deferred THEN [Absent EXCEPT !.state = "phantom"] ELSE Absent

(* The package is selected for the present nodes that have an older one or *)
(* none; the host is restarted, or left for a reboot to replace.           *)
Selected(pkg, n) ==
  IF n \in Present /\ node[n].selected < pkg
    THEN {[node[n] EXCEPT !.selected = pkg, !.running = r] :
            r \in {node[n].running} \cup (IF node[n].enabled THEN {pkg, None} ELSE {})}
    ELSE {node[n]}

-----------------------------------------------------------------------------
(* The end of a run: the process goes, and its probe with it.              *)
Finish(exit) ==
  /\ pc' = "idle"
  /\ run' = [NoRun EXCEPT !.kind = run.kind, !.pkg = run.pkg, !.created = run.created,
                          !.updated = run.updated, !.ready = run.ready, !.exit = exit,
                          !.kept = run.kept, !.gave_up = run.gave_up]
  /\ probe' = NoProbe

(* An exception that reaches wmain.                                        *)
Throw == Finish(k_exit_failed)

(* wait_for_source_device_interface, to go on at `next`; print_status      *)
(* probes once.                                                            *)
WaitThen(r, next) ==
  /\ pc' = "wait"
  /\ run' = [r EXCEPT !.next = next, !.attempt = IF next = "status" THEN Attempts ELSE 0]

-----------------------------------------------------------------------------
(* run_install up to the creation of a node.                               *)
Install(pkg) ==
  /\ pc = "idle"
  /\ pc' = IF Present = {} THEN "create" ELSE "update"
  /\ run' = [NoRun EXCEPT !.kind = "install", !.pkg = pkg,
                          !.kept = {n \in Present : node[n].enabled}]
  /\ UNCHANGED <<node, probe>>

(* create_root_device, under a generated id.  A failure after              *)
(* DIF_REGISTERDEVICE leaves the node registered.  PnP may already have    *)
(* selected a staged package for it.                                       *)
create_root_device ==
  /\ pc = "create"
  /\ \/ Throw /\ UNCHANGED node
     \/ \E n \in Nodes \ Registered, p \in Packages \cup {None}, starts \in BOOLEAN :
          /\ node' = [node EXCEPT ![n] = [state |-> "present", enabled |-> TRUE, selected |-> p,
                                          running |-> IF starts THEN p ELSE None]]
          /\ \/ Throw
             \/ \E reboot \in BOOLEAN :
                  /\ pc' = "update"
                  /\ run' = [run EXCEPT !.created = {n}, !.reboot = reboot]
                  /\ UNCHANGED probe

(* update_driver.  Windows declines an equal or older package; a failure   *)
(* takes a created node away again, as far as it can, and is passed on.    *)
update_driver ==
  /\ pc = "update"
  /\ \/ /\ \A n \in Present : node[n].selected >= run.pkg
        /\ WaitThen(run, "installed")
        /\ UNCHANGED <<node, probe>>
     \/ /\ \E n \in Present : node[n].selected < run.pkg
        /\ \E reboot \in BOOLEAN :
             WaitThen([run EXCEPT !.updated = TRUE, !.reboot = @ \/ reboot], "installed")
        /\ node' \in [Nodes -> UNION {Selected(run.pkg, n) : n \in Nodes}]
        /\ \A n \in Nodes : node'[n] \in Selected(run.pkg, n)
        /\ UNCHANGED probe
     \/ /\ \/ UNCHANGED node
           \/ \E n \in run.created, deferred \in BOOLEAN :
                node' = [node EXCEPT ![n] = Removed(deferred)]
        /\ Throw

-----------------------------------------------------------------------------
(* The verdict: install_outcome and the functions of it.                   *)

live_reload_required(r) == r.reboot \/ r.updated

(* Mutant: an interface that answers is taken as proof of the reload.      *)
attestation_due_NoCycle(r) == r.ready

attestation_due(r) ==
  r.ready /\ (~live_reload_required(r) \/ (r.cycled /\ ~r.cycle_reboot))

reload_verified(r) == attestation_due(r) /\ r.matches

install_exit_code(r) ==
  IF reload_verified(r) THEN k_exit_ok
  ELSE IF r.reboot THEN k_exit_reboot ELSE k_exit_not_ready

(* The DriverVer that a node reports is that of its selection.             *)
owned_root_devices_match_driver_version ==
  Present # {} /\ \A n \in Present : node[n].selected = run.pkg

-----------------------------------------------------------------------------
(* wait_for_source_device_interface, and what follows it.                  *)

(* run_install goes on after a wait, or after an exception that a recovery *)
(* tier catches: to the tier that is still called for, or to the verdict.  *)
Resume(r, probed) ==
  LET recover == ~r.ready \/ live_reload_required(r)
      tier == CASE r.next = "installed" -> "reactivate"
                [] r.next = "reactivated" -> "cycle"
                [] OTHER -> "attest"
  IN  /\ pc' = IF recover THEN tier ELSE "attest"
      /\ run' = [r EXCEPT !.todo = IF recover /\ tier # "attest" THEN Present ELSE {},
                          !.attempt = 0, !.scan = {}]
      /\ probe' = probed

(* The wait returns.                                                       *)
Waited(ready, probed) ==
  IF run.next = "status" THEN Finish(install_exit_code(run))
  ELSE Resume([run EXCEPT !.ready = ready], probed)

(* SetupAPI fails while the interfaces are enumerated: the first wait and  *)
(* print_status end the run, the others keep the `ready` they had.         *)
WaitThrows ==
  IF run.next \in {"installed", "status"} THEN Throw
  ELSE Resume(run, probe)

(* One round of source_device_interface_ready begins.                      *)
Poll ==
  /\ pc = "wait"
  /\ \/ /\ pc' = "probe"
        /\ run' = [run EXCEPT !.scan = Interfaces]
        /\ UNCHANGED probe
     \/ WaitThrows
  /\ UNCHANGED node

(* No interface of the round answered: sleep and try again, or give up.    *)
PollFails ==
  /\ pc = "probe" /\ run.scan = {} /\ (probe.stage = "none" \/ probe.pending)
  /\ IF run.attempt < Attempts
       THEN /\ pc' = "wait"
            /\ run' = [run EXCEPT !.attempt = @ + 1]
            /\ UNCHANGED probe
       ELSE Waited(FALSE, probe)
  /\ UNCHANGED node

-----------------------------------------------------------------------------
(* source_interface_accepts_protocol: one probe of one interface.          *)

(* reap_completed_protocol_query_probe: a retained probe is deleted once   *)
(* its worker or its request is done, whatever came of it.                 *)
Reaped == IF probe.pending /\ ~probe.busy THEN NoProbe ELSE probe

(* The probe is deleted, its handle and its storage with it.               *)
Deleted == NoProbe

(* The next interface: a retained probe forbids a new one; otherwise a     *)
(* worker thread opens the device, unless it cannot be created.            *)
ProbeOpens ==
  /\ pc = "probe" /\ (probe.stage = "none" \/ probe.pending)
  /\ \E n \in run.scan :
       /\ run' = [run EXCEPT !.scan = @ \ {n}]
       /\ probe' \in IF Reaped.pending THEN {Reaped}
                     ELSE {Reaped, [NoProbe EXCEPT !.busy = TRUE, !.stage = "open"]}
  /\ UNCHANGED <<node, pc>>

(* The worker's CreateFile returns, or the query completes (external).  A  *)
(* driver of another generation answers invalidly, and a denied open is as  *)
(* good as none.                                                           *)
ProbeAnswered ==
  /\ probe.busy
  /\ \E a \in IF probe.stage = "open" THEN {"opened", "in_use", "absent"}
                                       ELSE {"valid", "invalid"} :
       probe' = [probe EXCEPT !.busy = FALSE, !.answer = IF probe.pending THEN "none" ELSE a]
  /\ UNCHANGED <<node, pc, run>>

(* A wait of the probe runs out: the open or the request is cancelled, and *)
(* waited for once more.                                                   *)
ProbeCancels ==
  /\ pc = "probe" /\ probe.stage # "none" /\ probe.busy /\ ~probe.pending /\ ~probe.cancelled
  /\ probe' = [probe EXCEPT !.cancelled = TRUE]
  /\ UNCHANGED <<node, pc, run>>

(* Mutant: the cancelled probe is waited for without a timeout.            *)
ProbeRetained_WaitsOn ==
  /\ pc = "probe" /\ ~probe.busy /\ ~probe.pending /\ probe.cancelled
  /\ probe' = [probe EXCEPT !.pending = TRUE, !.cancelled = FALSE, !.answer = "none"]
  /\ UNCHANGED <<node, pc, run>>

(* Cancellation did not help: the probe is retained and the interface does *)
(* not count as ready.                                                     *)
ProbeRetained ==
  /\ pc = "probe" /\ probe.busy /\ ~probe.pending /\ probe.cancelled
  /\ probe' = [probe EXCEPT !.pending = TRUE, !.cancelled = FALSE, !.answer = "none"]
  /\ UNCHANGED <<node, pc, run>>

(* The worker is done.  An opened interface is asked for its protocol,     *)
(* unless the event or the request fails; one that a client holds counts   *)
(* as ready.                                                               *)
ProbeOpened ==
  /\ pc = "probe" /\ probe.stage = "open" /\ ~probe.busy /\ ~probe.pending
  /\ \/ /\ probe.answer = "opened"
        /\ probe' \in {Deleted, [probe EXCEPT !.stage = "query", !.busy = TRUE,
                                              !.cancelled = FALSE, !.answer = "none"]}
        /\ UNCHANGED <<pc, run>>
     \/ /\ probe.answer = "in_use"
        /\ Waited(TRUE, Deleted)
     \/ /\ probe.answer = "absent"
        /\ probe' = Deleted
        /\ UNCHANGED <<pc, run>>
  /\ UNCHANGED node

(* complete_protocol_query_probe.                                          *)
ProbeQueried ==
  /\ pc = "probe" /\ probe.stage = "query" /\ ~probe.busy /\ ~probe.pending
  /\ \/ /\ probe.answer = "valid"
        /\ Waited(TRUE, Deleted)
     \/ /\ probe.answer = "invalid"
        /\ probe' = Deleted
        /\ UNCHANGED <<pc, run>>
  /\ UNCHANGED node

-----------------------------------------------------------------------------
(* The recovery tiers.                                                     *)

(* reactivate_owned_root_devices: each node is restarted; the first        *)
(* failure leaves the rest alone, is caught, and drops what the others     *)
(* said of a reboot.                                                       *)
Reactivate ==
  /\ pc = "reactivate"
  /\ \/ /\ run.todo = {}
        /\ WaitThen([run EXCEPT !.reboot = @ \/ run.seen, !.seen = FALSE], "reactivated")
        /\ UNCHANGED <<node, probe>>
     \/ \E n \in run.todo, reboot \in BOOLEAN :
          /\ \E s \in Restarted(n, reboot) : node' = [node EXCEPT ![n] = s]
          /\ run' = [run EXCEPT !.todo = @ \ {n}, !.seen = @ \/ reboot]
          /\ UNCHANGED <<pc, probe>>
     \/ \E n \in run.todo :
          /\ \E s \in Restarted(n, TRUE) : node' = [node EXCEPT ![n] = s]
          /\ Resume([run EXCEPT !.next = "reactivated", !.seen = FALSE], probe)

(* cycle_owned_root_devices: every node has been cycled.                   *)
Cycled ==
  /\ pc = "cycle" /\ run.todo = {}
  /\ WaitThen([run EXCEPT !.cycled = run.attempted /\ ~run.failed, !.cycle_reboot = run.seen,
                          !.reboot = @ \/ run.seen, !.seen = FALSE, !.attempted = FALSE,
                          !.failed = FALSE], "cycled")
  /\ UNCHANGED <<node, probe>>

(* cycle_owned_root_device_instance cannot open the node: the exception    *)
(* leaves the tier, and the rest uncycled.                                 *)
CycleThrows ==
  /\ pc = "cycle" /\ run.todo # {}
  /\ Resume([run EXCEPT !.next = "cycled", !.seen = FALSE, !.attempted = FALSE,
                        !.failed = FALSE], probe)
  /\ UNCHANGED node

(* Mutant: a DICS_DISABLE that fails is taken not to have run.             *)
CycleDisable_NotUndone ==
  /\ pc = "cycle"
  /\ \E n \in run.todo :
       \/ \E reboot \in BOOLEAN :
            /\ \E s \in Disabled(n, reboot) : node' = [node EXCEPT ![n] = s]
            /\ pc' = "enable"
            /\ run' = [run EXCEPT !.at = {n}, !.attempted = TRUE, !.seen = @ \/ reboot]
       \/ /\ \E s \in Disabled(n, TRUE) \cup {node[n]} : node' = [node EXCEPT ![n] = s]
          /\ run' = [run EXCEPT !.todo = @ \ {n}, !.failed = TRUE]
          /\ UNCHANGED pc
  /\ UNCHANGED probe

(* DICS_DISABLE.  A call that fails before the class installer is called   *)
(* leaves the node alone; one that fails in it, or a success of which the  *)
(* reboot flag cannot be read, may have been applied and is undone.        *)
CycleDisable ==
  /\ pc = "cycle"
  /\ \E n \in run.todo :
       \/ \E reboot \in BOOLEAN :
            /\ \E s \in Disabled(n, reboot) : node' = [node EXCEPT ![n] = s]
            /\ pc' = "enable"
            /\ run' = [run EXCEPT !.at = {n}, !.attempted = TRUE, !.seen = @ \/ reboot]
       \/ /\ run' = [run EXCEPT !.todo = @ \ {n}, !.failed = TRUE]
          /\ UNCHANGED <<node, pc>>
       \/ /\ \E s \in Disabled(n, TRUE) \cup {node[n]} : node' = [node EXCEPT ![n] = s]
          /\ pc' = "restore"
          /\ run' = [run EXCEPT !.at = {n}, !.attempted = TRUE, !.failed = TRUE]
  /\ UNCHANGED probe

(* DICS_ENABLE; a failure of any kind is answered by one more attempt.     *)
CycleEnable ==
  /\ pc = "enable"
  /\ \E n \in run.at :
       \/ \E reboot \in BOOLEAN :
            /\ \E s \in Enabled(n, reboot) : node' = [node EXCEPT ![n] = s]
            /\ pc' = "cycle"
            /\ run' = [run EXCEPT !.todo = @ \ {n}, !.at = {}, !.seen = @ \/ reboot]
       \/ /\ \E s \in Enabled(n, TRUE) \cup {node[n]} : node' = [node EXCEPT ![n] = s]
          /\ pc' = "restore"
          /\ run' = [run EXCEPT !.failed = TRUE]
  /\ UNCHANGED probe

(* restore_after_failure, and on to the next node.                         *)
CycleRestore ==
  /\ pc = "restore"
  /\ \E n \in run.at :
       /\ \/ \E reboot \in BOOLEAN :
               /\ \E s \in Enabled(n, reboot) : node' = [node EXCEPT ![n] = s]
               /\ run' = [run EXCEPT !.todo = @ \ {n}, !.at = {}, !.seen = @ \/ reboot]
          \/ /\ \E s \in Enabled(n, TRUE) \cup {node[n]} : node' = [node EXCEPT ![n] = s]
             /\ run' = [run EXCEPT !.todo = @ \ {n}, !.at = {}, !.gave_up = @ \cup {n}]
  /\ pc' = "cycle"
  /\ UNCHANGED probe

-----------------------------------------------------------------------------
(* The attestation, which also fails when SetupAPI does, and what it       *)
(* decides: a verified reload takes a request to reboot back, and a node   *)
(* that was created and never got ready is removed.                        *)
Attest ==
  /\ pc = "attest"
  /\ \E matches \in {FALSE, owned_root_devices_match_driver_version} :
       LET r == [run EXCEPT !.matches = attestation_due(run) /\ matches]
           s == [r EXCEPT !.reboot = @ /\ ~reload_verified(r)]
       IN  IF ~s.ready /\ ~s.reboot /\ s.created # {}
             THEN pc' = "rollback" /\ run' = s
             ELSE WaitThen(s, "status")
  /\ UNCHANGED <<node, probe>>

(* remove_device_instance of the created node.  A failure before           *)
(* DIF_REMOVE leaves the node; one to read the reboot flag comes after it. *)
Rollback ==
  /\ pc = "rollback"
  /\ \/ \E n \in run.created, deferred \in BOOLEAN :
          /\ node' = [node EXCEPT ![n] = Removed(deferred)]
          /\ \/ WaitThen([run EXCEPT !.reboot = deferred], "status") /\ UNCHANGED probe
             \/ Throw
     \/ Throw /\ UNCHANGED node

-----------------------------------------------------------------------------
(* run_remove: every registered node, phantoms too.                        *)
Remove ==
  /\ pc = "idle"
  /\ pc' = "remove"
  /\ run' = [NoRun EXCEPT !.kind = "remove", !.todo = Registered]
  /\ UNCHANGED <<node, probe>>

RemoveNode ==
  /\ pc = "remove"
  /\ \E n \in run.todo :
       \/ \E deferred \in BOOLEAN :
            /\ node' = [node EXCEPT ![n] = Removed(deferred)]
            /\ run' = [run EXCEPT !.todo = @ \ {n}, !.reboot = @ \/ deferred]
       \/ /\ node' \in {node} \cup {[node EXCEPT ![n] = Removed(d)] : d \in BOOLEAN}
          /\ run' = [run EXCEPT !.todo = @ \ {n}, !.gave_up = @ \cup {n}]
  /\ UNCHANGED <<pc, probe>>

RemoveEnds ==
  /\ pc = "remove" /\ run.todo = {}
  /\ Finish(IF run.gave_up # {} THEN k_exit_failed
            ELSE IF run.reboot THEN k_exit_reboot ELSE k_exit_ok)
  /\ UNCHANGED node

(* Between runs the machine may be restarted (external): hosts load what   *)
(* is selected, and removals take effect.                                  *)
Reboot ==
  /\ pc = "idle"
  /\ \E started \in SUBSET {n \in Present : node[n].enabled} :
       node' = [n \in Nodes |->
                  IF n \in Present
                    THEN [node[n] EXCEPT !.running = IF n \in started THEN node[n].selected
                                                     ELSE None]
                    ELSE node[n]]
  /\ run' = NoRun
  /\ UNCHANGED <<pc, probe>>

-----------------------------------------------------------------------------
(* A machine with phantom nodes, or nodes that run what is selected, or    *)
(* that did not start.                                                     *)
Init ==
  /\ node \in [Nodes -> NodeRecord]
  /\ \A n \in Nodes :
       \/ node[n] \in {Absent, Removed(TRUE)}
       \/ /\ node[n].state = "present" /\ node[n].enabled
          /\ node[n].selected # None /\ node[n].running \in {None, node[n].selected}
  /\ pc = "idle" /\ run = NoRun /\ probe = NoProbe

(* What the tool does by itself once it is started; that the interface     *)
(* answers is not part of it.                                              *)
ToolStep ==
  \/ create_root_device \/ update_driver
  \/ Poll \/ PollFails
  \/ ProbeOpens \/ ProbeCancels \/ ProbeRetained \/ ProbeOpened \/ ProbeQueried
  \/ Reactivate
  \/ Cycled \/ CycleThrows \/ CycleDisable \/ CycleEnable \/ CycleRestore
  \/ Attest \/ Rollback
  \/ RemoveNode \/ RemoveEnds

Next ==
  \/ \E pkg \in Requests : Install(pkg)
  \/ Remove
  \/ ToolStep
  \/ ProbeAnswered
  \/ Reboot

(* Every wait of the tool has a timeout.                                   *)
Spec == Init /\ [][Next]_vars /\ WF_vars(ToolStep)

-----------------------------------------------------------------------------
InstalledOk == pc = "idle" /\ run.kind = "install" /\ run.exit = k_exit_ok

(* An install that exits 0 has compared what is selected for every owned   *)
(* node, and where the selection changed "an old compatible DLL cannot     *)
(* masquerade as the newly staged package" (run_install, before the        *)
(* attestation): no host is left from before.  It does not say that a host *)
(* runs: one that did not start is not told from one that did, as long as  *)
(* some interface answered, be it before a cycle whose own query throws.   *)
OkMeansReloaded ==
  InstalledOk =>
    /\ Present # {} /\ \A n \in Present : node[n].selected = run.pkg
    /\ run.updated => \A n \in Present : node[n].running \in {None, run.pkg}

(* "the tool only reports success when the package it was asked to install *)
(* is the one every owned root node runs" (install_decision.h:4-6).  Not   *)
(* so: a host that an earlier run left on the old package, its reload put  *)
(* off, is not looked at by a run whose package Windows declines because   *)
(* it is already selected.                                                 *)
OkMeansRunning ==
  InstalledOk => \A n \in Present : node[n].running \in {None, run.pkg}

(* A node that was present and enabled when an install began is still      *)
(* there, and enabled unless the second attempt to enable it failed too.   *)
NodesKept ==
  pc = "idle" /\ run.kind = "install" =>
    \A n \in run.kept : n \in Present /\ (node[n].enabled \/ n \in run.gave_up)

(* An install that ends with "not ready", and saw no interface, has taken  *)
(* back what it created.                                                   *)
RolledBack ==
  pc = "idle" /\ run.kind = "install" /\ run.exit = k_exit_not_ready /\ ~run.ready =>
    run.created \cap Present = {}

(* A removal leaves only the nodes whose own removal failed.               *)
RemovedAll ==
  pc = "idle" /\ run.kind = "remove" =>
    /\ Present \subseteq run.gave_up
    /\ run.exit = k_exit_ok => Registered = {}

(* How a run that has ended accounts for the nodes, whichever calls of it  *)
(* failed: an install leaves no node disabled that it could enable, and    *)
(* exits 3 without an interface only after the rollback of what it created *)
(* (run_install, cycle_owned_root_device_instance); a removal tries every  *)
(* node (run_remove).  An install that ends with an exception, exit 1,     *)
(* may leave the node it created: when DIF_REGISTERDEVICE was done, when   *)
(* the first wait or the rollback throws.                                  *)
NodesAccounted == NodesKept /\ RolledBack /\ RemovedAll

(* Whatever fails and whatever never answers, a run of the tool ends       *)
(* (wait_for_source_device_interface and the timeouts of the probe).       *)
RunEnds == pc # "idle" ~> pc = "idle"

=============================================================================
