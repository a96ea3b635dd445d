------------------------------ MODULE Ds5Module ------------------------------
(***************************************************************************)
(* Loading and unloading the Linux driver: vibeshine_ds5_udc_init makes a  *)
(* host and a device controller for each of num units, then                *)
(* vibeshine_ds5_gadget_init binds the gadget driver to the first Slots of *)
(* them.  Any step may fail, and what was done before is undone.  A step   *)
(* is one turn of one loop.                                                *)
(***************************************************************************)
EXTENDS Integers, FiniteSets

CONSTANTS MaxNum,  \* MAX_NUM_UDC
          Slots    \* VIBESHINE_DS5_SLOTS

ASSUME ModuleAssumption == MaxNum \in Nat /\ Slots \in Nat

NoUnit == -1
AllUnits == 0 .. MaxNum - 1
SlotIds == 0 .. Slots - 1

VARIABLES
  num, super,     \* mod_data: parameters of the module
  pc, i,          \* the loop that runs, and its index
  hcd, udc,       \* the_hcd_pdev, the_udc_pdev: none, alloc, added
  hs, ss,         \* dum->hs_hcd, dum->ss_hcd: the host controllers of a unit
  drvdata,        \* the udc's probe set its driver data
  dum,            \* none, live, freed
  drivers,        \* platform drivers registered
  gdrivers,       \* gadget drivers registered
  slot,           \* ds5_slots[s].gadget: a unit, or NoUnit
  misc,           \* /dev/vibeshine-ds5
  fault           \* something was released that was not held

module_vars == <<num, super, pc, i, hcd, udc, hs, ss, drvdata, dum, drivers, gdrivers, slot, misc, fault>>

Stages ==
  {"out", "alloc_hcd", "alloc_udc", "data", "register", "add_hcd", "check_hcd", "add_udc",
   "check_udc", "gadget", "misc", "loaded",
   "put_hcd_done", "put_udc_done", "del_hcd_done", "del_udc_done",
   "err_probe_udc", "err_add_udc", "err_add_hcd", "err_register_udc_driver", "err_free",
   "err_put_udc", "err_alloc_udc", "err_gadget", "unregister", "udc_exit", "exit_hcd", "exit_free"}

ModuleTypeOK ==
  /\ num \in 1 .. MaxNum /\ super \in BOOLEAN
  /\ pc \in Stages /\ i \in -1 .. MaxNum + Slots
  /\ hcd \in [AllUnits -> {"none", "alloc", "added"}] /\ udc \in [AllUnits -> {"none", "alloc", "added"}]
  /\ hs \in [AllUnits -> BOOLEAN] /\ ss \in [AllUnits -> BOOLEAN]
  /\ drvdata \in [AllUnits -> BOOLEAN] /\ dum \in [AllUnits -> {"none", "live", "freed"}]
  /\ drivers \subseteq {"hcd", "udc"} /\ gdrivers \subseteq SlotIds
  /\ slot \in [SlotIds -> AllUnits \cup {NoUnit}] /\ misc \in BOOLEAN /\ fault \in BOOLEAN

ModuleInit ==
  /\ num \in 1 .. MaxNum /\ super \in BOOLEAN
  /\ pc = "out" /\ i = 0
  /\ hcd = [u \in AllUnits |-> "none"] /\ udc = [u \in AllUnits |-> "none"]
  /\ hs = [u \in AllUnits |-> FALSE] /\ ss = [u \in AllUnits |-> FALSE]
  /\ drvdata = [u \in AllUnits |-> FALSE] /\ dum = [u \in AllUnits |-> "none"]
  /\ drivers = {} /\ gdrivers = {} /\ slot = [s \in SlotIds |-> NoUnit]
  /\ misc = FALSE /\ fault = FALSE

Units == 0 .. num - 1
Devices == <<hcd, udc>>
Probed == <<hs, ss, drvdata>>
Gadgets == <<gdrivers, slot, misc>>

(* Loops: for (i = 0; i < n; i++), and while (i >= 0) x[i--].              *)
At(stage, n) == pc = stage /\ i < n
Goto(stage) == pc' = stage /\ i' = 0
Again == i' = i + 1 /\ UNCHANGED pc
Loop(stage, n, after) == pc = stage /\ i = n /\ Goto(after)
BackFrom(stage) == pc' = stage /\ i' = i - 1
Back(stage, after) == pc = stage /\ i < 0 /\ Goto(after)
Set(f, u, v) == [f EXCEPT ![u] = v]

-----------------------------------------------------------------------------
(* vibeshine_ds5_init, with any parameters.                                *)
Load ==
  /\ pc = "out" /\ Goto("alloc_hcd")
  /\ num' \in 1 .. MaxNum /\ super' \in BOOLEAN
  /\ dum' = [u \in AllUnits |-> "none"] /\ slot' = [s \in SlotIds |-> NoUnit]
  /\ UNCHANGED <<Devices, Probed, drivers, gdrivers, misc, fault>>

AllocHcd ==
  /\ At("alloc_hcd", num)
  /\ \/ hcd' = Set(hcd, i, "alloc") /\ Again
     \/ UNCHANGED hcd /\ BackFrom("put_hcd_done")
  /\ UNCHANGED <<udc, Probed, dum, drivers, Gadgets, fault>>

AllocUdc ==
  /\ At("alloc_udc", num)
  /\ \/ udc' = Set(udc, i, "alloc") /\ Again
     \/ UNCHANGED udc /\ BackFrom("put_udc_done")
  /\ UNCHANGED <<hcd, Probed, dum, drivers, Gadgets, fault>>

(* kzalloc of struct dummy, then platform_device_add_data for both devices.*)
AddData ==
  /\ At("data", num)
  /\ \/ dum' = Set(dum, i, "live") /\ Again
     \/ dum' = Set(dum, i, "live") /\ Goto("err_free")
     \/ UNCHANGED dum /\ Goto("err_free")
  /\ UNCHANGED <<Devices, Probed, drivers, Gadgets, fault>>

RegisterDrivers ==
  /\ pc = "register"
  /\ \/ drivers' = {"hcd", "udc"} /\ Goto("add_hcd")
     \/ drivers' = {"hcd"} /\ Goto("err_register_udc_driver")
     \/ UNCHANGED drivers /\ Goto("err_free")
  /\ UNCHANGED <<Devices, Probed, dum, Gadgets, fault>>

(* platform_device_add of a host controller, which calls dummy_hcd_probe:  *)
(* usb_create_hcd and usb_add_hcd, which calls dummy_setup and dummy_start;*)
(* the same again for a SuperSpeed one.  A probe that fails undoes what it *)
(* did, and platform_device_add succeeds all the same.                     *)
Probe(u) ==
  \E ok \in BOOLEAN : hs' = Set(hs, u, ok) /\ ss' = Set(ss, u, ok /\ super)

AddHcd ==
  /\ At("add_hcd", num)
  /\ \/ hcd' = Set(hcd, i, "added") /\ Probe(i) /\ Again
     \/ UNCHANGED <<hcd, hs, ss>> /\ BackFrom("del_hcd_done")
  /\ UNCHANGED <<udc, drvdata, dum, drivers, Gadgets, fault>>

(* Mutant: the probes are taken to have succeeded.                         *)
CheckHcd_Trusts ==
  /\ At("check_hcd", num) /\ Again
  /\ UNCHANGED <<Devices, Probed, dum, drivers, Gadgets, fault>>

CheckHcd ==
  /\ At("check_hcd", num)
  /\ IF hs[i] /\ (super => ss[i]) THEN Again ELSE Goto("err_add_udc")
  /\ UNCHANGED <<Devices, Probed, dum, drivers, Gadgets, fault>>

(* platform_device_add of a device controller, and dummy_udc_probe.        *)
AddUdc ==
  /\ At("add_udc", num)
  /\ \/ /\ udc' = Set(udc, i, "added") /\ Again
        /\ \E ok \in BOOLEAN : drvdata' = Set(drvdata, i, ok)
     \/ UNCHANGED <<udc, drvdata>> /\ BackFrom("del_udc_done")
  /\ UNCHANGED <<hcd, hs, ss, dum, drivers, Gadgets, fault>>

CheckUdc ==
  /\ At("check_udc", num)
  /\ IF drvdata[i] THEN Again ELSE Goto("err_probe_udc")
  /\ UNCHANGED <<Devices, Probed, dum, drivers, Gadgets, fault>>

-----------------------------------------------------------------------------
(* vibeshine_ds5_gadget_init.  Driver i binds to device controller i if it *)
(* is there (match_existing_only), and ds5_bind takes the first free slot; *)
(* it may fail before or after that.                                       *)
FreeSlots == {s \in SlotIds : slot[s] = NoUnit}
First == CHOOSE s \in FreeSlots : \A t \in FreeSlots : s <= t

RegisterGadget ==
  /\ At("gadget", Slots)
  /\ \/ /\ i \in Units /\ drvdata[i] /\ FreeSlots # {}
        /\ slot' = Set(slot, First, i) /\ gdrivers' = gdrivers \cup {i} /\ Again
     \/ /\ \/ UNCHANGED slot
           \/ i \in Units /\ FreeSlots # {} /\ slot' = Set(slot, First, i)
        /\ UNCHANGED gdrivers /\ BackFrom("err_gadget")
  /\ UNCHANGED <<Devices, Probed, dum, drivers, misc, fault>>

MiscRegister ==
  /\ pc = "misc"
  /\ \/ misc' = TRUE /\ Goto("loaded")
     \/ UNCHANGED misc /\ pc' = "err_gadget" /\ i' = Slots - 1
  /\ UNCHANGED <<Devices, Probed, dum, drivers, gdrivers, slot, fault>>

(* usb_gadget_unregister_driver, which calls ds5_unbind.                   *)
Unregister(k) ==
  /\ slot' = [s \in SlotIds |-> IF slot[s] = k THEN NoUnit ELSE slot[s]]
  /\ gdrivers' = gdrivers \ {k} /\ fault' = (fault \/ k \notin gdrivers)

ErrGadget ==
  /\ pc = "err_gadget" /\ i >= 0 /\ Unregister(i) /\ BackFrom("err_gadget")
  /\ UNCHANGED <<Devices, Probed, dum, drivers, misc>>

-----------------------------------------------------------------------------
(* Undoing a failed vibeshine_ds5_udc_init.  platform_device_put drops an  *)
(* allocation; platform_device_del calls the driver's remove.              *)
Put(f, u) == Set(f, u, "none")
PutFault(f, u) == fault' = (fault \/ f[u] # "alloc")
DelHcd(u) ==
  /\ hcd' = Set(hcd, u, "alloc") /\ hs' = Set(hs, u, FALSE) /\ ss' = Set(ss, u, FALSE)
  /\ fault' = (fault \/ hcd[u] # "added")
DelUdc(u) ==
  /\ udc' = Set(udc, u, "alloc") /\ drvdata' = Set(drvdata, u, FALSE)
  /\ fault' = (fault \/ udc[u] # "added")

PutHcdDone ==
  /\ pc = "put_hcd_done" /\ i >= 0 /\ BackFrom(pc) /\ hcd' = Put(hcd, i) /\ PutFault(hcd, i)
  /\ UNCHANGED <<udc, Probed, dum, drivers, Gadgets>>

PutUdcDone ==
  /\ pc = "put_udc_done" /\ i >= 0 /\ BackFrom(pc) /\ udc' = Put(udc, i) /\ PutFault(udc, i)
  /\ UNCHANGED <<hcd, Probed, dum, drivers, Gadgets>>

DelHcdDone ==
  /\ pc = "del_hcd_done" /\ i >= 0 /\ BackFrom(pc) /\ DelHcd(i)
  /\ UNCHANGED <<udc, drvdata, dum, drivers, Gadgets>>

DelUdcDone ==
  /\ pc = "del_udc_done" /\ i >= 0 /\ BackFrom(pc) /\ DelUdc(i)
  /\ UNCHANGED <<hcd, hs, ss, dum, drivers, Gadgets>>

ErrProbeUdc ==
  /\ At("err_probe_udc", num) /\ Again /\ DelUdc(i)
  /\ UNCHANGED <<hcd, hs, ss, dum, drivers, Gadgets>>

ErrAddUdc ==
  /\ At("err_add_udc", num) /\ Again /\ DelHcd(i)
  /\ UNCHANGED <<udc, drvdata, dum, drivers, Gadgets>>

(* err_add_hcd and err_register_udc_driver.                                *)
ErrDrivers ==
  /\ \/ pc = "err_add_hcd" /\ drivers' = drivers \ {"udc"} /\ Goto("err_register_udc_driver")
     \/ pc = "err_register_udc_driver" /\ drivers' = drivers \ {"hcd"} /\ Goto("err_free")
  /\ UNCHANGED <<Devices, Probed, dum, Gadgets, fault>>

(* err_add_pdata: kfree of every dum, made or not.                         *)
ErrFree ==
  /\ At("err_free", num) /\ Again
  /\ dum' = [dum EXCEPT ![i] = IF @ = "live" THEN "freed" ELSE @]
  /\ fault' = (fault \/ dum[i] = "freed")
  /\ UNCHANGED <<Devices, Probed, drivers, Gadgets>>

ErrPutUdc ==
  /\ At("err_put_udc", num) /\ Again /\ udc' = Put(udc, i) /\ PutFault(udc, i)
  /\ UNCHANGED <<hcd, Probed, dum, drivers, Gadgets>>

ErrAllocUdc ==
  /\ At("err_alloc_udc", num) /\ Again /\ hcd' = Put(hcd, i) /\ PutFault(hcd, i)
  /\ UNCHANGED <<udc, Probed, dum, drivers, Gadgets>>

-----------------------------------------------------------------------------
(* vibeshine_ds5_gadget_exit.                                              *)
Unload ==
  /\ pc = "loaded" /\ misc' = FALSE /\ Goto("unregister")
  /\ UNCHANGED <<Devices, Probed, dum, drivers, gdrivers, slot, fault>>

UnregisterGadget ==
  /\ At("unregister", Slots) /\ Again /\ Unregister(i)
  /\ UNCHANGED <<Devices, Probed, dum, drivers, misc>>

(* vibeshine_ds5_udc_exit: device controller, host controller, memory.     *)
ExitUdc ==
  /\ At("udc_exit", num) /\ pc' = "exit_hcd" /\ UNCHANGED i
  /\ udc' = Put(udc, i) /\ drvdata' = Set(drvdata, i, FALSE)
  /\ fault' = (fault \/ udc[i] # "added" \/ i \in gdrivers)
  /\ UNCHANGED <<hcd, hs, ss, dum, drivers, Gadgets>>

ExitHcd ==
  /\ pc = "exit_hcd" /\ pc' = "exit_free" /\ UNCHANGED i
  /\ hcd' = Put(hcd, i) /\ hs' = Set(hs, i, FALSE) /\ ss' = Set(ss, i, FALSE)
  /\ fault' = (fault \/ hcd[i] # "added")
  /\ UNCHANGED <<udc, drvdata, dum, drivers, Gadgets>>

ExitFree ==
  /\ pc = "exit_free" /\ pc' = "udc_exit" /\ i' = i + 1
  /\ dum' = Set(dum, i, "freed") /\ fault' = (fault \/ dum[i] # "live")
  /\ UNCHANGED <<Devices, Probed, drivers, Gadgets>>

ExitDrivers ==
  /\ pc = "udc_exit" /\ i = num /\ Goto("out")
  /\ drivers' = {}
  /\ UNCHANGED <<Devices, Probed, dum, Gadgets, fault>>

(* Where a loop goes when it is over.                                      *)
LoopEnds ==
  /\ \/ Loop("alloc_hcd", num, "alloc_udc") \/ Loop("alloc_udc", num, "data")
     \/ Loop("data", num, "register") \/ Loop("add_hcd", num, "check_hcd")
     \/ Loop("check_hcd", num, "add_udc") \/ Loop("add_udc", num, "check_udc")
     \/ Loop("check_udc", num, "gadget") \/ Loop("gadget", Slots, "misc")
     \/ Back("put_hcd_done", "out") \/ Back("put_udc_done", "err_alloc_udc")
     \/ Back("del_hcd_done", "err_add_hcd") \/ Back("del_udc_done", "err_add_udc")
     \/ Back("err_gadget", "udc_exit")
     \/ Loop("err_probe_udc", num, "err_add_udc") \/ Loop("err_add_udc", num, "err_add_hcd")
     \/ Loop("err_free", num, "err_put_udc") \/ Loop("err_put_udc", num, "err_alloc_udc")
     \/ Loop("err_alloc_udc", num, "out") \/ Loop("unregister", Slots, "udc_exit")
  /\ UNCHANGED <<Devices, Probed, dum, drivers, Gadgets, fault>>

Step ==
  \/ AllocHcd \/ AllocUdc \/ AddData \/ RegisterDrivers \/ AddHcd \/ CheckHcd
  \/ AddUdc \/ CheckUdc \/ RegisterGadget \/ MiscRegister \/ ErrGadget
  \/ PutHcdDone \/ PutUdcDone \/ DelHcdDone \/ DelUdcDone \/ ErrProbeUdc \/ ErrAddUdc
  \/ ErrDrivers \/ ErrFree \/ ErrPutUdc \/ ErrAllocUdc
  \/ Unload \/ UnregisterGadget \/ ExitUdc \/ ExitHcd \/ ExitFree \/ ExitDrivers \/ LoopEnds

ModuleNext == Load \/ (Step /\ UNCHANGED <<num, super>>)

ModuleSpec == ModuleInit /\ [][ModuleNext]_module_vars

-----------------------------------------------------------------------------
(* Whichever step of a load failed, and after an unload, every device,     *)
(* driver and allocation is released, each of them once; at every step     *)
(* what a part calls outlives it (a gadget driver is bound to a device     *)
(* controller that is there, which finds its host controllers, which find  *)
(* the unit's memory, and user space reaches bound slots only); and a      *)
(* driver that loaded is whole, slot s having device controller s.         *)
LoadedWhole ==
  /\ ~fault
  /\ pc = "out" => /\ \A u \in AllUnits : hcd[u] = "none" /\ udc[u] = "none" /\ dum[u] # "live"
                   /\ drivers = {} /\ gdrivers = {} /\ ~misc
  /\ \A u \in Units : /\ u \in gdrivers => drvdata[u]
                      /\ drvdata[u] => hs[u] /\ (super => ss[u])
                      /\ hs[u] => dum[u] = "live"
  /\ misc => \A s \in SlotIds : slot[s] # NoUnit
  /\ pc = "loaded" => /\ \A u \in Units : drvdata[u] /\ hs[u] /\ (super => ss[u])
                      /\ \A s \in SlotIds : slot[s] = s

=============================================================================
