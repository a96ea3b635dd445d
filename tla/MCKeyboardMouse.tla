--------------------------- MODULE MCKeyboardMouse ---------------------------
(***************************************************************************)
(* KeyboardMouse for TLC, in three scenes: two files that follow each      *)
(* other in the slot (the instance of the configuration), two VHF threads  *)
(* that call back while the device loses power twice, and one client that  *)
(* uses keys, buttons and motion against the queue's limit.                *)
(***************************************************************************)
EXTENDS KeyboardMouse

CONSTANTS Client, SecondCallback

VARIABLE scene

Threaded == INSTANCE KeyboardMouse WITH
              Owners <- {Client}, Callbacks <- Callbacks \cup {SecondCallback},
              MaxOpens <- 1, MaxPowerDowns <- 2
Keys == INSTANCE KeyboardMouse WITH
              Owners <- {Client}, Kinds <- {"keyboard", "mouse"}, Capacity <- 2,
              MaxOpens <- 1, MaxPowerDowns <- 0

MCInit ==
  \/ scene = "files" /\ Init
  \/ scene = "threads" /\ Threaded!Init
  \/ scene = "keys" /\ Keys!Init

MCNext ==
  /\ \/ scene = "files" /\ Next
     \/ scene = "threads" /\ Threaded!Next
     \/ scene = "keys" /\ Keys!Next
  /\ UNCHANGED scene

In(files, threads, keys) ==
  \/ scene = "files" /\ files
  \/ scene = "threads" /\ threads
  \/ scene = "keys" /\ keys

(* The fairness of KeyboardMouse, in each scene.                           *)
MCFairness ==
  /\ WF_vars(In(Open, Threaded!Open, Keys!Open))
  /\ WF_vars(In(Delete, Threaded!Delete, Keys!Delete))
  /\ WF_vars(In(HostReads, Threaded!HostReads, Keys!HostReads))
  /\ WF_vars(In(PnpStop, Threaded!PnpStop, Keys!PnpStop))
  /\ \A t \in Pumpers \cup {SecondCallback} :
       WF_vars(t \in DOMAIN pump /\ In(Pump(t), Threaded!Pump(t), Keys!Pump(t)))
  /\ \A c \in Callbacks \cup {SecondCallback} :
       WF_vars(c \in DOMAIN cb /\ In(Ready1(c), Threaded!Ready1(c), Keys!Ready1(c)))
  /\ WF_vars(\E c \in DOMAIN cb, k \in DOMAIN child :
               In(ReadyBegins(c, k), Threaded!ReadyBegins(c, k), Keys!ReadyBegins(c, k)))
  /\ \A o \in Owners :
       WF_vars(o \in DOMAIN cleanup
                 /\ In(CleanupStop(o), Threaded!CleanupStop(o), Keys!CleanupStop(o)))

MCSpec == MCInit /\ [][MCNext]_<<vars, scene>> /\ MCFairness
=============================================================================
