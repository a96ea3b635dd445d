-------------------------------- MODULE MCUdc --------------------------------
(***************************************************************************)
(* The virtual UDC for TLC.  Each part is run by itself while the others   *)
(* rest: the port (UdcPort: one that is powered off, suspended and reset   *)
(* while a reset runs, and one whose hub driver is patient), requests and  *)
(* urbs of an endpoint to the host, of one from the host and of the        *)
(* control endpoint (UdcTransfer), and an isochronous endpoint (UdcIso).   *)
(* The constants of the first port, of the transfers that are unlinked and *)
(* of UdcIso are the configuration's.                                      *)
(***************************************************************************)
EXTENDS UdcIso, UdcPort, UdcTransfer

CONSTANT Parts   \* to run, of "port", "patient", "in", "out", "control", "nukes",
                 \* "unlink", "iso"

VARIABLE part

(* A port whose reset, resume and pull-down are waited for.                *)
Patient == INSTANCE UdcPort WITH
             Requests <- TRUE, HubPowersOff <- FALSE, Impatient <- FALSE,
             MaxUnbinds <- 1, MaxSuspends <- 0

(* Transfers of several packets under a bandwidth of one packet a frame,   *)
(* out transfers, control transfers, and a disconnection that overlaps a   *)
(* disable; the configuration's are urbs that are unlinked or whose        *)
(* endpoint goes away.                                                     *)
In == INSTANCE UdcTransfer WITH
        Eps <- {"in"}, Reqs <- {"a", "b"}, ReqLengths <- {2, 3}, UrbLengths <- {3},
        MaxPacket <- 2, FifoSize <- 2, Total <- 2, Interrupt <- FALSE, Delayed <- FALSE,
        MaxData <- 2, MaxTroubles <- 1, RacyQueue <- FALSE, ZeroPacket <- FALSE
Out == INSTANCE UdcTransfer WITH
         Eps <- {"out"}, Reqs <- {"a"}, ReqLengths <- {1, 3}, UrbLengths <- {3, 5},
         MaxPacket <- 2, FifoSize <- 2, Total <- 4, Interrupt <- FALSE, Delayed <- FALSE,
         MaxData <- 0, MaxTroubles <- 1, RacyQueue <- TRUE, ZeroPacket <- FALSE
Control == INSTANCE UdcTransfer WITH
             Eps <- {"ep0", "in"}, Reqs <- {}, ReqLengths <- {1}, UrbLengths <- {2},
             MaxPacket <- 2, FifoSize <- 2, Total <- 4, Interrupt <- TRUE, Delayed <- TRUE,
             MaxData <- 0, MaxTroubles <- 0, RacyQueue <- FALSE, ZeroPacket <- TRUE
Nukes == INSTANCE UdcTransfer WITH
           Eps <- {"in"}, Urbs <- {"u1"}, Reqs <- {"a", "b"}, ReqLengths <- {1}, UrbLengths <- {2},
           MaxPacket <- 2, FifoSize <- 0, Total <- 4, Interrupt <- TRUE, Delayed <- FALSE,
           MaxData <- 3, MaxTroubles <- 2, RacyQueue <- FALSE, ZeroPacket <- FALSE

ASSUME PartsAssumption ==
  /\ In!TransferConstants /\ Out!TransferConstants /\ Control!TransferConstants
  /\ Nukes!TransferConstants

MCInit ==
  /\ part \in Parts
  /\ IsoInit /\ PortInit
  /\ IF part = "out" THEN Out!Init
     ELSE IF part = "control" THEN Control!Init
     ELSE IF part = "in" THEN In!Init
     ELSE IF part = "nukes" THEN Nukes!Init ELSE Init

MCNext ==
  /\ \/ /\ part = "iso" /\ IsoNext
        /\ UNCHANGED <<port_vars, vars>>
     \/ /\ \/ part = "port" /\ PortNext
           \/ part = "patient" /\ Patient!PortNext
        /\ UNCHANGED <<iso_vars, vars>>
     \/ /\ \/ part = "in" /\ In!Next
           \/ part = "out" /\ Out!Next
           \/ part = "control" /\ Control!Next
           \/ part = "nukes" /\ Nukes!Next
           \/ part = "unlink" /\ Next
        /\ UNCHANGED <<iso_vars, port_vars>>
  /\ UNCHANGED part

(* The fairness of each part of which progress is asked.                   *)
MCFairness ==
  /\ WF_iso_vars(part = "iso" /\ IsoTimer) /\ WF_iso_vars(part = "iso" /\ TimePasses)
  /\ WF_vars(part = "unlink" /\ Timer)
  /\ WF_vars(part = "unlink" /\ Nuke)
  /\ WF_port_vars(part = "patient" /\ Patient!GetPortStatus /\ "reset" \in port.status)
  /\ WF_port_vars(part = "patient" /\ Patient!TimeoutReached)
  /\ WF_port_vars(part = "patient" /\ Patient!HubStatus)
  /\ WF_port_vars(part = "patient" /\ Patient!BusResume)
  /\ WF_port_vars(part = "patient" /\ Patient!HcdResume)
  /\ WF_port_vars(part = "patient" /\ Patient!PullDownWait)
  /\ \A th \in Threads :
       WF_port_vars(part = "patient" /\ (Patient!NukeEnds(th) \/ Patient!CallbackEnds(th)))

MCSpec == MCInit /\ [][MCNext]_<<part, iso_vars, port_vars, vars>> /\ MCFairness

-----------------------------------------------------------------------------
(* What is waited for in each part, as four predicates: that resets,       *)
(* resumes and pull-downs end (UdcPort!PortProgress), that the unlinked    *)
(* urbs and those of a device that is gone come back                       *)
(* (UdcTransfer!UrbsComeBack), and isochronous ones always                 *)
(* (UdcIso!UrbsReturned).                                                  *)
Answered ==
  CASE part = "patient" ->
         <<Patient!ResetOver, Patient!ResumeOver, Patient!PullDownOver, TRUE>>
    [] part = "unlink" ->
         <<~urb["u1"].unlinked, ~urb["u2"].unlinked, NotOutstanding("u1"), NotOutstanding("u2")>>
    [] part = "iso" -> <<iso_urb["u1"].state = "free", iso_urb["u2"].state = "free", TRUE, TRUE>>
    [] OTHER -> <<TRUE, TRUE, TRUE, TRUE>>

(* Nothing that the host or its hub driver waits for is left undone.       *)
HostServed == \A n \in 1 .. 4 : []<>Answered[n]

=============================================================================
