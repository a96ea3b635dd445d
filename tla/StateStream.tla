----------------------------- MODULE StateStream -----------------------------
(***************************************************************************)
(* What report delivery promises, without pump, locks or VHF: a client     *)
(* produces numbered input states, some of them discrete changes (edges);  *)
(* the host reads states in the order they were produced and may miss      *)
(* intermediate ones, but it misses an edge only if the channel has        *)
(* admitted a loss for it.                                                 *)
(***************************************************************************)
EXTENDS Integers

VARIABLES sent_input,  \* newest input state produced
          sent_edge,   \* edges produced
          seen_input,  \* newest input state the host has read
          seen_edge,   \* edges visible in it
          skipped,     \* edges the host never saw on their own
          excused      \* losses the channel has admitted

vars == <<sent_input, sent_edge, seen_input, seen_edge, skipped, excused>>

Init ==
  /\ sent_input = 0 /\ sent_edge = 0
  /\ seen_input = 0 /\ seen_edge = 0
  /\ skipped = 0 /\ excused = 0

(* The client produces, the channel may admit that something got lost.     *)
Produce ==
  /\ sent_input' \in {sent_input, sent_input + 1}
  /\ sent_edge' \in {sent_edge, sent_edge + 1}
  /\ excused' \in {excused, excused + 1}
  /\ UNCHANGED <<seen_input, seen_edge, skipped>>

(* The host reads a state at least as new as the one it has.               *)
Read ==
  /\ seen_input' \in seen_input .. sent_input
  /\ seen_edge' \in seen_edge .. sent_edge
  /\ skipped' = skipped + (IF seen_edge' > seen_edge + 1
                             THEN seen_edge' - seen_edge - 1 ELSE 0)
  /\ skipped' <= excused
  /\ UNCHANGED <<sent_input, sent_edge, excused>>

Next == Produce \/ Read

Spec == Init /\ [][Next]_vars
=============================================================================
