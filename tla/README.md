# Formal models of libvirtualgamepad

TLA+ specifications of libvirtualgamepad: how input states travel from a client
to the host, how output travels back, how virtual controllers, keyboards and mice
are created, used and torn down by many threads at once, the force feedback
engine, the Linux DualSense gadget with its virtual USB device controller, and the
setup tool. TLC checks small instances; TLAPS proves the safety properties of all of
them for every value of the constants.

## 1. The system and its parts

libvirtualgamepad is a UMDF source driver for Microsoft's Virtual HID Framework
(VHF), a client library, optional keyboard/mouse endpoints, a Linux DualSense
gadget, and setup tooling. A client opens the device, creates a controller in a
slot, submits input states by IOCTL and polls for feedback. VHF exposes the
controller as a HID child to games, asks the driver for the next input report
when the host reads, and calls the driver when the host writes.

| Part | State | Operations | Talks to | Module |
|---|---|---|---|---|
| Report pump (`report_pump.{h,cpp}`) | ready flag, in-flight buffer, reply array (4), ring of ordered reports (16), newest snapshot, drop counter, signature | reset, classify, enqueue, set_ready, take | called under `state_lock` by every submitter | `ReportPump` |
| Report delivery (`driver.cpp`) | `last_input`, `read_transfer`, the pump | submit_input/touch/motion/battery, ready callback, write callback, keep-alive tick | VHF (`VhfReadReportSubmit`) | `ReportDelivery` |
| Controller lifecycle (`driver.cpp`) | slots (state, owner, handle, generation, submits in flight), `powered`, `stopping`, target, `lifetime_gate`, `state_lock` | create, destroy, file close, D0 entry/exit, prepare/release hardware, target cleanup | VHF (`VhfCreate/Start/Delete`), PnP, all submitters | `ControllerLifecycle` |
| Output feedback (`driver.cpp`, `steam_haptic_queue.h`, `dualsense.cpp`, ...) | haptic ring (8), settings ring (8), coalesced event | write and set-feature callbacks, poll_feedback | VHF callbacks in, client out | `OutputFeedback` |
| Steam keep-alive worker (`driver.cpp`) | thread, stop event, timer, running and parked flags | start, tick, arm, park, stop, join | the pump, lifecycle | `SteamKeepAlive` |
| PID engine (`pid_ff.cpp`, `driver.cpp`) | effect blocks, playback, the tick timer, pending rumble | PID output reports, tick, publication | the write callback, a WDF timer | `PidEngine` |
| Keyboard/mouse (`keyboard_mouse.cpp`, `keyboard_mouse_native.inc`) | activation, queue, held keys, credit, rundown reservations | open, submit, close, abort, cleanup, pump, deletion | VHF, a second child | `KeyboardMouse` |
| Virtual UDC (`vibeshine_ds5_udc.c`) | root hub port, endpoints, requests, URBs, the frame timer | hub requests, pull-up, suspend and resume, queue, dequeue, enqueue, unlink, timer | USB host stack, UDC core, the gadget | `UdcPort`, `UdcTransfer`, `UdcIso` |
| DualSense gadget (`vibeshine_ds5_gadget.c`) | slots, endpoint requests, event fifo, busy flag | file operations, configuration, completions | the virtual UDC | `Ds5Gadget` |
| Module loading (`vibeshine_ds5_main.c`, `_udc.c`, `_gadget.c`) | devices, drivers, slots, misc device | init, exit | driver core | `Ds5Module` |
| Device setup (`VibeshineVhfGamepadDeviceSetup.cpp`, `install_decision.h`) | root nodes, the locals of a run, a retained probe | install, remove | SetupAPI, the driver's control interface | `DeviceSetup` |
| Switch handshake (`switch_pro.cpp`), Steam feature channel (`sc26_usb.h`) | input mode, settings, selected command | subcommands, feature commands | the write and feature callbacks | queueing only |
| Client library (`client.cpp`) | device handle | one call per IOCTL | the driver | none |

`PROJECT.json` lists every component with what is modelled of it and, for the
parts left out, why. Its "hazards" name the lines where each part is hard: reports
taken under a lock and submitted outside it, a framework that keeps a pointer into
the driver's buffer, deletions that wait for callbacks but know nothing of other
users of a handle, timers that stop themselves, locks dropped in the middle of a
state change, bounded queues in both directions, power transitions between any two
steps, and calls to Windows that fail after having taken effect.

## 2. Modules

| Module | Models |
|---|---|
| `ReportPump` | the class `report_pump`: a record, and one operator per method |
| `ReportDelivery` | one started controller: all threads that encode, enqueue, take and submit, VHF's side of a read, and the host |
| `StateStream` | what delivery promises, abstractly |
| `ControllerLifecycle` | the slots of a device and everyone who creates, uses and tears them down |
| `OutputFeedback` | the two queues and the coalesced event from host to client |
| `SteamKeepAlive` | the worker thread, its timer and everyone who starts, arms, parks and stops it |
| `PidEngine` | effects, playback, envelope, rumble and its publication, the tick timer |
| `KeyboardMouse` | the endpoint and its native transport, over one slot |
| `UdcPort`, `UdcTransfer`, `UdcIso` | port and power; requests, URBs and the timer; isochronous pacing |
| `Ds5Gadget`, `Ds5Module` | one gadget slot; loading and unloading |
| `DeviceSetup` | runs of the setup tool on a machine |
| `MC...` | the same for TLC, see section 3 |
| `ReportDeliveryProofs`, `ControllerLifecycleProofs`, `PidEngineProofs`, `KeyboardMouseProofs`, `UdcTransferProofs`, `DeviceSetupProofs` | the inductive invariant of the module each is named after, and its theorems |
| `OutputProofs` | the same of `OutputFeedback` and `SteamKeepAlive` |
| `LinuxProofs` | the same of `Ds5Gadget`, `Ds5Module`, `UdcPort` and `UdcIso` |

`ReportDelivery` is built on `ReportPump` and implements `StateStream`. The
other modules meet at interfaces each keeps as external actions: `SteamKeepAlive`
and `PidEngine` have the lifecycle's start and teardown of a controller, and
`UdcTransfer`, `UdcIso` and `Ds5Gadget` the port's connection and the UDC's
completion.

Operators with a suffix (`Take_StaysReady`, `CheckHcd_Trusts`, ...) marked
"Mutant" are plausible faulty versions of the definition they precede. No
specification uses them; each is there to show that a property would notice.

### Abstractions shared by all modules

One action is one hold of the innermost lock (`state_lock`, the endpoint's spin
lock, `dum->lock`), or one call made outside it, so that lock needs no variable;
where code drops it in the middle of a function the function is several actions. Bytes are abstracted: a report is what it carries
(state, handshake reply, aside), the number of the client state it was encoded
from, and the number of discrete changes (edges) the client had made by then.

### ReportPump and ReportDelivery

`pump` is `controller_slot::pump`, `last_input` numbers `slot.last_input`,
`encoded` is the report a handler has built and not yet queued, `taken` the
threads between `pump_report_locked` and `VhfReadReportSubmit`, and `vhf` VHF's
side: *asking* (its callback is due), *granted* (it will accept one report),
*holding* (it points at the pump's in-flight buffer). `skipped`, `host_input` and
`host_edge` observe the host.

* `EncodeInput`, `EncodeUpdate`, `EncodeBattery`, then `PumpEncoded`: the submit
  handlers of the profiles that encode in one hold and enqueue in the next. The
  IOCTL queue is sequential (driver.cpp:3059), hence `IoctlIdle`.
* `SteamInput`, `SteamUpdate`: the Steam Controller does both in one hold, because
  the keep-alive worker resends.
* `SteamAck`, `SwitchReply`, `SwitchPump`: the write callback. A Switch reply
  carries the current buttons, and overtakes queued state by design; it is a
  "reply" here and the properties speak of state reports.
* `ReadyForNextReport`, `KeepaliveTick`, `SubmitTaken`, `SubmitRefused`,
  `HostReads`. Handlers that change nothing (a refused request, a malformed
  report) are stuttering.

Xbox and generic pads follow the PlayStation path without touch, motion or
battery. `report_pump::reset` leaves the bytes of the in-flight buffer; `Reset` has
none, which is what the zeroed slot it runs on holds.

### ControllerLifecycle

`slot[s]` is the `controller_slot`; `gate` is the holder of `lifetime_gate`; `pc`
says where the IOCTL thread, each closing file and the PnP thread are; `children`,
`started`, `deleting`, `calls` and `present` are VHF and PnP; `submits` are calls
of `VhfReadReportSubmit` under way. Create is eight actions (check, snapshot of
the PnP children without a lock, admission under the gate, open, `VhfCreate`,
`VhfStart`, adoption, and taking back); destruction five; power down six; stop five
and the close of the target. `VhfDelete` is two steps, since callbacks already
begun run to their end between them.

External, from how the driver uses it: `VhfDelete(h, TRUE)` lets no new callback
begin and returns when those that had begun are over; VHF runs at most one
callback of a kind per child; WDF closes a file after its requests completed; PnP
callbacks do not overlap. Release of the hardware and cleanup of the target may
come without a D0 exit before them, as `driver/tests/test_vhf_lifecycle.cpp` calls
them on a working device; this is what makes the delete loop of
`stop_owned_controllers` reachable.

Over-approximations: the profile of a slot is not kept, so any submit may start
the worker, the worker may leave at any idle moment, and a Steam submit (one hold
in the code) takes two. `feedback` stands for `feedback_pending` and remembers
which child wrote it.

### OutputFeedback

Rings are sequences, oldest first. `Actuators` are stop keys (report family and
actuator mask). A settings write is cut into chunks numbered in order of writing.
`host` and `client` are accounts of what one side wrote and the other was told.
An Xbox report reads a disabled actuator as zero, so it always sets every field
(`WholeWrite`). The controller is one without force feedback; the event that
`publish_pid_rumble` shares with generic output reports is in `PidEngine`.

### SteamKeepAlive

`running` is `sc26_timer_running`, `timer` the waitable timer (idle, set, fired),
`stop_event` the event, `worker[w]` the threads ever created, and `slot[s]` what
the tick looks at of a Steam Controller: whether VHF asks for a report, whether
motion was folded into the state since the last one, whether it is late. Starting
is the sequence under `lifetime_gate` (join of a predecessor, reset of the event,
creation, withdrawal on failure); `WorkerStep` is the loop, from the wait to the
tick, the parking and the clearing of the flag; `ReadyForNextReport` re-arms.
Failures of the timer's first setting, the wait and the thread's creation are
`MaxFaults`. The code ignores the result of the `SetWaitableTimer` that re-arms
(driver.cpp:2259): it is assumed to succeed on a timer that was set before; had it
failed, no later reader would wake the worker.

### PidEngine

Every output report the engine accepts, `create_new_effect`, block load and free,
playback with loops and delays, the envelope and the sum of effects to two motors.
Levels and gains are scaled down (`NominalMax`, `GainMax`, `RumbleMax`), with the
code's integer division. `Publish` replaces the pending event, as `WriteGeneric` does: of
two sources that write one place the later wins. `writer`, `tick` and `pnp` are the write callback, the
timer callback (play, stop, re-check, restart) and power down. `EarlyWrites` lets
hosts write while a controller is still starting, which the driver accepts.

No shipped driver runs this engine: `find_profile` refuses `generic_pid`
(profile.cpp:187-191, `docs/PROFILE_CONTRACT.md`), the only profile with force feedback.
It is kept for private tests (`driver/tests/probe_directinput_force_feedback.cpp`,
`test_vhf_lifecycle.cpp:473`), and `PrivateTest` says whether the build admits it; the
runs set it, since nothing happens otherwise.
External: `WdfTimerStop(timer, TRUE)` (driver.cpp:2756, 2815) returns with every
callback over *and the timer stopped*. The second half is needed, as the proof of
`ClockCoversEffects` showed: a callback that restarts the timer while power down
waits (2124-2131) would otherwise leave it running for the next life, whose first
effect would not start it again.

### KeyboardMouse

`core` is `keyboard_mouse_endpoint` (queue, held keys, credit, state), `slot` and
`ctx` the activation and its callback context, `pump[t]` the threads inside the
pump (a callback re-enters it from within a submission), `ioctl`, `cleanup`, `del`
and `pnp` the request, file cleanup, deletion and power paths. A report is its kind
and the keys it says are down.

### UdcPort, UdcTransfer, UdcIso

`vibeshine_ds5_udc.c` adapts the kernel's dummy_hcd. `UdcPort` has the port status
bits, `set_link_state` cut at the places where it drops the lock (`NukeEnds`,
`CallbackEnds`), hub requests, pull-up and pull-down, wakeups and both kinds of
suspend. `UdcTransfer` has queue, dequeue, halt and wedge, enable and disable, URBs
enqueued and unlinked, control requests answered by the UDC or by the gadget, and
`dummy_timer`, one action per hold of the lock; `RacyQueue` lets `dummy_queue`'s
unlocked checks be overtaken, as they can be. `nuking[k]` and `nuked[k]` are the loop of
`nuke` in `stop_activity` (k is "stop") or in the `dummy_disable` of endpoint k, so that
a disconnection and disables overlap wherever one is out in a callback.
`ForDriver` has control transfers in both directions, and `ZeroPacket` is the host's
`URB_ZERO_PACKET`. `UdcIso` has the pacing this
repository adds: packets due by elapsed time, at most `CatchUp` late, list order
per endpoint. The three share the root hub but no variable. `MCUdc` extends all of
them and takes further instances for constants other than the configuration's:
`Patient` (a hub driver that waits), `In`, `Out`, `Control` and `Nukes` (transfers).

### Ds5Gadget, Ds5Module

`Ds5Gadget` has one slot: CREATE and DESTROY by several files, writes with
`int_in_busy`, configuration and interface changes that enable and disable
endpoints step by step, completions that queue themselves again, bus resets. `todo[d]`
is how far the thread d is with a function (`f`, `op`), and whether it goes on to the
next one (`all`, as in `ds5_disconnect`).
`Ds5Module` has every step of init and exit with its unwinding. `MCDs5` extends both,
and takes an instance, `Pad`, for the pad whose input must arrive.

### DeviceSetup

`node[n]` has the package Windows selected for a root node and the one its host
runs; `run` the locals of `run_install` or `run_remove`; `probe` the
`protocol_query_probe` and whether a worker or a request still uses it. Each
SetupAPI call of consequence is an action with its failures: a state change that
reports failure may have been applied, a reload may be deferred to a reboot, an
exception ends the run or is caught exactly where the code does. Parsing of paths
and of the INF, and output, are left out. `run.kept` and `gave_up` are history
for the properties. Assumed of Windows: a disable that succeeds
and asks for no reboot has stopped the host, an update that fails selected nothing,
and the machine is not restarted, nor the tool killed, in the middle of a run.

## 3. Runs

A run asks one group of questions of one part. Where its questions need
different instances (a profile, a number of files, another host), the MC module
chooses one at the start and never mixes them: its variable (`profile`, `scene`,
`part`, ...) is constant along a behaviour, so the run checks the union of the
instances, and properties quantify over the domain of the instance's state. The
setup tool and `OutputFeedback`, which have nothing to do with each other, share a
run in the same way, and so do the parts of the UDC.

| Run | Instances | Shows |
|---|---|---|
| `delivery` | ring 2, replies 1, 4 edges: PlayStation (4 inputs, 1 refusal), Switch (4 inputs, 2 writes), Steam (3 inputs, 1 ack, 1 refusal) | `NoStall`, `EdgesAccounted`, `OneSubmission`, `ImplementsStream`, `HeldBufferStable`, `CatchesUp` |
| `lifecycle_safety` | 2 clients, 1 slot, 2 creations, 2 power-ups; 1 client, 2 slots, 1 power-up | `NoUseAfterDelete`, `SlotOutlivesChild`, `SubmitsExact`, `SettledWhenFree`, `LostStaysWithOwner` |
| `lifecycle_teardown` | 1 client, 1 slot, 2 creations, 1 power-up | `TeardownEnds` |
| `lifecycle_contract` | 2 clients, 1 slot, 1 creation, 1 power-up | finds `SubmitErrorContract` violated |
| `keepalive` | 2 slots; or 1 slot with a failing call and battery reports; 2 workers, 1 power cycle | `NoLostWakeup`, `WorkerExact`, `SamplesCarried` |
| `pid` | hosts that use every report, that loop and delay, that try envelopes (5 writes); 2 effects, 4 writes, 2 overlapping ticks, 1 power-down | `ClockCoversEffects`, `EnvelopeHull`, `EveryChangeTold`, `EffectsAndTimerEnd` |
| `pid_early` | as the looping host, writing while the controller starts | finds `FiniteEffectsEnd` violated |
| `km` | 2 owners in turn; 1 owner and 2 VHF threads with 2 power-downs; 1 owner with keys and buttons | `LifetimesNest`, `HostMatches`, `NoLostWakeup`, `CleanupEnds` |
| `udc` | port with power-off, 1 suspension and impatient resets; port with a patient hub driver, requests and 1 unbind; in, out, control and unlinked transfers of up to 3 packets; a disconnection during a disable, 2 requests; isochronous, 2 URBs of 2 packets | `PortHonest`, `RequestOnce`, `InOrder`, `PacketsInTurn`, `HostServed` |
| `ds5` | 2 files with an audio stream, 2 creations, 2 resets; 1 pad with 2 reports; loading up to 5 units | `Listens`, `DestroyedQuiet`, `LoadedWhole`, `PadInputArrives` |
| `setup_feedback` | the setup tool: 2 nodes, 2 packages, upgrade; 1 node, 2 packages, upgrades and downgrades, waits with a retry; and, by itself, a controller's output: 2 stop keys, both rings 3, 2 chunks a write, 3 fields, 6 writes | `OkMeansReloaded`, `NodesAccounted`, `RunEnds`; `StopNeverLost`, `HapticsExact`, `SettingsExact`, `CoalescedExact` |
| `setup_stale` | 1 node, 2 packages, upgrade | finds `OkMeansRunning` violated |

Why the bounds are enough to be interesting: four edges overflow a ring of two
twice and wrap its head; one reply fills the reply array, a second is refused; one
refusal is enough to separate losses by eviction from losses by VHF. Two creations
let a slot be lost and re-created, or passed from one client to another, and two
power-ups let a create straddle a power cycle. Six writes overflow a ring of three
with every mix of stops and effects over two keys. Two workers are a leaving one
and its successor. Four writes create, set, start and disturb an effect, a fifth
shortens one with an envelope while it plays, and two ticks overlap as WDF timer
callbacks can. A keyboard queue of one or two is full at
once. A request of three units in packets of two under a budget of one packet a
frame is cut in the middle and ends short. Two nodes let a recovery tier fail
between them. The real capacities of the pump (16, 4) are covered by the proofs,
which assume nothing about them but that they are positive.

Deadlock checking is off where the system may simply come to rest (a bounded
client has sent all it may). It is on for `ControllerLifecycle`, where `Terminated`
marks the one legitimate end, for the UDC and for the setup tool (`OutputFeedback`,
in the same run, may rest).

Fairness. What a thread that has begun still has to do is weakly fair: a handler, a
callback, a timer tick, a completion are scheduled. Strong fairness is used where
code waits for a lock that others take and release again and again
(`lifetime_gate`), for the keep-alive worker, whose waits on the timer and the
stop event are re-enabled again and again by readers, and in `Ds5Gadget` for a
writer that retries and a host that polls, both of which are kept from a step only
in passing. Hosts read where the property is about a host that reads. Nobody is
forced to send, write, open or start anything; refusals and failures are never
forced. `DeviceSetup` assumes only that the tool itself goes on: the driver may
never answer. `OutputFeedback` claims no liveness: `poll_feedback` serves settings
before haptics, so a host writing settings without pause delays haptics for as
long as it does.

### Findings

* `client.h:84-87` documents ERROR_NOT_FOUND for a submit to an empty slot and
  ERROR_ACCESS_DENIED for another handle's slot. `submit_input_state`
  (driver.cpp:1276-1282) answers both with `inactive_controller_status`, that is
  STATUS_DEVICE_NOT_READY; `begin_state_update`, behind the touch, motion and
  battery submits, follows the documented ladder. Run `lifecycle_contract`.
* `pid_ff.h:271-272` says that finite effects stop on their own. Output reports are
  accepted while a controller is starting (driver.cpp:392-395) and may start an
  effect and the timer; a tick before adoption counts active controllers only
  (2119) and stops the timer, and adoption does not start it again. The effect then
  plays until the host writes again. Run `pid_early`. The finding is latent: it needs
  a force-feedback controller, which the shipped `find_profile` refuses to create.
* `install_decision.h:4-6` says that the setup tool only reports success when the
  package it was asked to install is the one every owned root node runs, and
  `test_install_decision.cpp:30-31` wants exit 3 with an old DLL still live. The
  DriverVer it compares (tool:1286) is that of the node's selection. A run that finds a
  host still on the old DLL, left by an earlier run whose reload was deferred or which
  ended in an exception, and whose update Windows declines because the package is
  already selected, exits 0. Run `setup_stale`.

Observations the models make without a run of their own:

* `set_link_state` counts itself in `callback_usage` after `stop_activity` has
  dropped the lock (udc.c:444-446), so a pull-down in that window returns, and
  unbind may begin, before the callback; the comment at udc.c:894-900 wants unbind
  to wait. `UdcPort` reaches it only with requests queued (`Requests`).
* `dummy_queue` tests the endpoint before it takes the lock (udc.c:685-702): a
  request may be queued behind a disconnect that has just emptied every queue.
  `RequestOnce` still holds; the request is given back at the next disable.
* The comment at tool:1268 takes a queried interface after a successful cycle for the
  proof of the reload. When that query throws (SetupAPI fails), the exception is caught
  at tool:1262 and `ready` keeps the answer from before the cycle: exit 0, though
  perhaps nothing answers. `OkMeansReloaded` therefore does not say that anything does.
* The setup tool's exit code 0 speaks of the nodes together: one interface that answers
  is enough, so a node that runs nothing passes while another's host answers. This is
  why `OkMeansReloaded` allows a node with no host.
* An install that ends with an exception (exit 1) may leave the node it created:
  `create_root_device` fails after DIF_REGISTERDEVICE (tool:780-786), the first wait
  throws, outside any handler (tool:1224), or the rollback's own removal fails or throws
  after it was applied. `NodesAccounted` therefore asks for the rollback of a run that
  exits 3 only, and of every run that it keeps the nodes that were there.
* `PidEngine`: an effect that plays past a duration that Set Effect shortened goes on
  fading below its fade level until the next tick ends it (`EnvelopeHull` bounds it from
  above there, and from below up to the duration).

## 4. Proofs

Every theorem is about the module's specification without fairness, for every value
of its constants, bounds included. What is assumed of the constants:

| Module | Assumed | Because |
|---|---|---|
| `ReportPump`, `ReportDelivery` | capacities are positive, "no report" and "no signature" are neither | the arrays of `report_pump.h` |
| `ControllerLifecycle` | at least one slot; names of threads and null values are distinct | |
| `OutputFeedback` | finitely many stop keys, fewer than the haptic ring has places; a settings write fits its ring | the static_assert of `enqueue_haptic` (8 places, seven keys) and that of `steam_controller.cpp:21` (3 chunks, 8 places) |
| `SteamKeepAlive` | bounds are numbers, one worker or more | |
| `PidEngine` | maxima are positive; `Reports` are well-formed reports (`PidReport`) | the fields of the reports in `pid_ff.h`: unsigned but for constant force and ramps |
| `KeyboardMouse` | `Kinds` are among the four families; the queue holds a neutral report of each; finitely many callback threads | `keyboard_mouse.h`: 64 places |
| `UdcPort` | the bounds are numbers | |
| `UdcIso` | an interval is at least one microframe, a URB at least one packet | `usb_submit_urb` refuses others; `CatchUp` may be any number (8 in the code) |
| `UdcTransfer` | the driver's requests are not the controller's own or ep0's, and those of other endpoints carry data; lengths and the bandwidth are numbers, a packet has a byte at least | `ds5_queue_int_in`, `ds5_queue_int_out`; a descriptor's `wMaxPacketSize` |
| `Ds5Module` | the numbers of units and of slots are numbers | `num` is a module parameter |
| `DeviceSetup` | packages are numbered from 1, those asked for are among them, retries are a number | versions are compared |
| `Ds5Gadget` | audio streams are among the two the driver has; the event fifo has a place; files are distinct from the mutex's other values | `DS5_EVENT_FIFO` |

None of the state properties below is inductive alone; each theorem rests on an
inductive invariant `IInv` in the Proofs module, checked by TLC on the run of the
component before it was proved. A module has one lemma per action (`...Step`), their
union in `NextStep`, `StepInv` or `...Always`, and the theorems at the end.

**Report delivery.** `SingleSubmission`, `EdgesAreAccounted`, `NeverStalls` (the
invariants), `HeldBuffer` (the action property) and
`DeliveryImplementsStream`: `ReportDelivery` implements `StateStream`. That the host
missed no unadmitted edge says nothing about what is still waiting, so the invariant
must say that *the whole pipeline* is in order: `Handover` (the report handed out
last is in exactly one of three places: read, held by VHF, taken), `EncodedCurrent`
(a report encoded and not yet queued is still the newest state, which is what the
sequential queue buys), and `Good(pump, ...)`: the line (what was handed out, the
ring in order, the snapshot) is sorted by input and edge, and *tight*: walking along
it, edges that no entry stands for are at most the losses admitted and not yet used
up. The first half of `ReportDeliveryProofs` shows that each operator of the pump keeps
`Good` (`EnqueueGood`, `GoodTake`), with the index arithmetic of the ring in `WrapValue`,
`WrapDistinct`, `WrapShift`.

**Controller lifecycle.** `NoHandleUsedAfterDelete`, `ChildNeverOutlivesSlot`,
`InFlightExact`, `GateLeavesSettled`, `LostReserved`. The invariant says what each
thread may rely on at each of its steps: `Control` (the gate is held by exactly the
thread that is inside it), `Passed` (a closing file owns none of the slots it went
past), `Core` (a slot's child is of its generation, a half-made child belongs to the
create under way, a handle taken for deletion to exactly one destroyer or to the
sweep, and the slot it is of is "stopping"), and `Submissions` (every submission is
counted, its child alive, and unless VHF itself waits for it, not being deleted).
The last is what separates the handle, forgotten by the slot under `state_lock`,
from its deletion after `wait_for_submits`.

**Output feedback.** `StopsArrive`, `HapticsAccounted`, `SettingsAccounted`,
`FieldsNeverDropped`. The ring's invariant (`HapticInv`): at most one stop per
actuator, entries ascending, nothing in it newer than the account of its actuator,
every ordinary effect waiting, delivered, evicted or superseded. Eviction spares
stops because a full ring has an ordinary entry, by counting (fewer keys than
places); `SettingsShape` and the lemmas on eviction and removal say what the queue
operators do to a sequence. Settings: the ring is always the newest chunks, in
order and without a gap.

**Steam keep-alive.** `OneWorker`, `CadenceResumes`. `Gates` ties the lifetime gate
to what power down has ended by then, `Single` the thread handle to the only worker
alive, `Flag` says when `sc26_timer_running` may be trusted, and `Parked` that a
waiting worker whose timer is off has parked (or is being stopped), which the
returning reader looks at.

**PID engine.** `EnvelopeKept` (for every scale of levels and gains and all times, the
durations shortened under a playing effect included, with the code's integer division
and for all types of effect), `ChangesTold`, and `ClockRuns`:
while an effect of an active controller needs time the timer runs or somebody is
about to start it. The last assumes `~EarlyWrites`; without, it is false, which is
the finding of run `pid_early`. `Typed` (an allocated block has an effect type,
also after a Set Effect with an unknown one), `Told` (the event published last is the
rumble of the engine) and `Power` (what is left of ticks, timer and controllers at
each step of power down and stop) make it inductive.

**Keyboard and mouse.** `EndpointLifetimesNest`, `HostSeesHeld`, `PumpAwake`, for any
number of owners, callback threads and activations. `Gate`, `States`, `Children` and
`Callers` say who may be where (the context counts exactly the callbacks inside it,
and only the current child's); `OnePump` that one thread pumps, for the current
child; `Endpoint` that everything queued is of the endpoint's owner; `Tokens` that
VHF's readiness is held as credit, by the pump, or not at all; `Mirror` that the
last report on its way about a key tells whether the key is held, and the host's
view does when none is; `Awake` that what may be sent has a sender.

**Root hub port.** `PortTellsTruth`, `PortTypeCorrect`, for every combination of the
constants: with or without requests, for hubs that power ports off or never do, for
patient and impatient ones. The run `udc` shows `PortHonest` on two of them, the part
"port" and the part "patient". `Noted` says that unless the host is told or about to
read, both the status *and* the `old_status` it will be compared with are what the
host knows, which is what a thread that dropped the lock in `set_link_state` could
spoil; `Link` that a port without power has an empty status. `Counted` makes
`callback_usage` exactly the number of callbacks under way.

**Isochronous pacing.** `IsoPacketsInTurn`, of which `IsoPaced` and `IsoOrderKept` are
the halves, and `IsoTypeCorrect` (no packet index beyond a URB's descriptors). The
invariant `Schedule` relates the packets sent to
`iso_next_ns`: the endpoint is ahead of time by no more than the lag and what it may
catch up; the list invariants say that a URB partly served is the first of its
endpoint's.

**Transfers.** `RequestsGivenOnce`, for every set of endpoints, URBs, requests and
lengths, interrupt or bulk, `dummy_queue`'s checks overtaken or not. `QueueInv` puts
a request in one queue, at one place, exactly as long as it is queued; `GiveInv`
makes the requests being given back those that a nuke or the timer holds, no two of
which (there may be a disconnection's, a disable's and the timer's at a time) hold the
same one; `CursorInv` keeps the timer's position on a listed URB through every
callback, and setup stages on ep0, without which the stale check of ep0 could take
from an endpoint the device does not have. The lemmas `QueuePut`, `QueueTake` and
`QueueKept` say what joining, leaving and staying do to the queues; every step uses
one of them.

`DataInOrder`, of the same module under the same assumptions. `InOrder` speaks of what
arrived; its invariant `OrderInv` must speak of what is under way. `Sizes`: no urb or
request has more than its length. `ReportInv`, for the input reports: what a
request stands for is pending and the request has as much of it as the host got
(`Report`), what is pending is in a queue (`NoneLost`), the queue is in the order of
giving, and only the first report pending has been begun (`InTurn`). A request leaves
the queue, joins it, or has a part moved (`ReportTaken`, `ReportPut`, `ReportMoved`),
and `Chunk` says the request is over just when its report is, or both sides are told of
an overflow (`ChunkRight`). `ControlInv`, for control transfers: of the listed urbs of
ep0 only the first may have begun (`OneOld`); the timer's scan does not get past it, but
on to other endpoints (`Passed`); it reaches the data stage only of a urb whose setup
was taken (`InData`); and from the end of that setup on, whatever is queued on ep0, or
will be by a driver that answers late, is the answer to it (`OwnAnswer`). That holds
from the setup's end only, because a host that unlinks a urb it had begun leaves the
answer queued: the next setup finds it, and the stale check throws it away first.

**DualSense gadget.** `PadListens`, `DestroyedIsQuiet`, `GadgetTypeCorrect`, for any
number of files, sessions and resets, with either, both or no audio stream. `DoerInv`:
although the driver's USB side has no lock, one thread at a time is in a callback of
it, since a reset and a destroy wait for the timer's; and a slot that is not created,
or whose port is down with no reset under way, has every function off. `StepInv` says
what the steps of an enable or a disable have achieved when a reset or a destroy
finds them half done, `FuncInv` that a function nobody is working on is wholly on
(endpoints enabled, request queued or being given back) or wholly off. `RequestInv`
ties `int_in_busy` to a request on its way or the one writer that holds the mutex.

**Loading.** `LoadsWholeOrNot`, `LoadTypeCorrect`, for any numbers of units and slots,
with or without SuperSpeed, whichever step fails. The invariant `LoadInv` says what
each loop of init, of its unwinding and of exit has taken or given back so far, as a
function of the program counter and the index: `Turns` where the index may be,
`HcdHolds`, `UdcHolds`, `Memory`, `Drivers` and `Bound` which host controllers, device
controllers, allocations, platform drivers and slots are there, exactly. That nothing
is released twice (`fault`) and nothing is left at the end are then both read off it.

**Device setup.** `ExitOkIsEarned`, `NodesAccountedFor`, `SetupTypeCorrect`, for any set
of nodes and of packages and any number of retries. The verdict of a run is given long
after what it rests on was seen, so the invariant follows it there: `Reloads` says which
hosts can be out of date (none among the nodes that a cycle passed without a failure or a
request to reboot, and none after such a cycle), and `Verdict` that what will be reported
is so. `Owned` accounts for every node the run found enabled, created or has in hand, and
`Removing` for those a removal has yet to try.

Only model-checked:

* liveness (`CatchesUp`, `TeardownEnds`, `SamplesCarried`, `EffectsAndTimerEnd`,
  `CleanupEnds`, `HostServed`, `PadInputArrives`, `RunEnds`): it needs fairness and
  ENABLED, out of the prover's reach;
* `SubmitErrorContract`, `FiniteEffectsEnd` and `OkMeansRunning`, which are
  false: the findings.

Every other property of the runs is a theorem, and so is the type invariant of each
module but `UdcTransfer` (whose inductive invariant has its own, `TransferTypes`, which
does not bound the timer's index and the length of `data`). Of the hazards in `PROJECT.json` one has no
property: the window at udc.c:444 (see the observations above).

## 5. Plan

What is left is breadth:

1. `SwitchHandshake`, `SteamFeatures`: the subcommand and feature command/response
   state machines, composed with the pump's reply array.
2. `Client`: error mapping and validation of polled events.

## 6. Not modelled, and why

* Report layouts, HID descriptors and feature payloads: pure conversions and
  tables with golden tests; no property here is about layout.
* Request buffer validation and read-only queries (query_info, the PID pool and
  state reports, the setup tool's status): they change no state.
* Authorization of keyboard/mouse openers (native.inc 1-45, 600-701): a decision
  about the caller's token, made before any state is touched.
* Of `vibeshine_ds5_udc.c`: streams and the SuperSpeed root hub, which a
  high-speed gadget does not use, and debug output. `transfer`'s extra step for a
  zero-length packet that ends a request exactly is part of the chunk that precedes
  it.
* Threads that share one gadget file descriptor, and a second CREATE on a file that
  already has a slot (gadget.c:761), which leaves the first slot taken until the
  module is unloaded.
* The setup tool being killed, or the machine restarted, in the middle of a run: the
  tool keeps no record to recover from.
* Of overlaps inside the virtual UDC: a second `stop_activity` while one is out in a
  callback, two disables of one endpoint (the gadget core's `ep->enabled` excludes
  them), the root hub's suspension of isochronous endpoints (`UdcIso`), and empty
  requests on endpoints other than ep0, which the gadget never queues. With requests
  that carry data, once `transfer` has used up its limit nothing of the requests behind
  the first moves either, so `TransferMoves` speaks of the first.
* Build and release scripts.

Time is abstracted: deadlines are a choice between due and not due, except in
`PidEngine` and `UdcIso`, where elapsed time is a small number.
