-------------------------- MODULE UdcTransferProofs --------------------------
(***************************************************************************)
(* Proofs about UdcTransfer, for every set of endpoints, urbs and          *)
(* requests, every length, packet size and bandwidth, interrupt or bulk:   *)
(* each request is given back once, and the data arrives in order.         *)
(***************************************************************************)
EXTENDS UdcTransfer, FiniteSetTheorems, TLAPS

(* Types.                                                                  *)
Owners == Eps \cup Urbs \cup {None}
EpRecord == [desc : BOOLEAN, halted : BOOLEAN, wedged : BOOLEAN, already_seen : BOOLEAN,
             setup_stage : BOOLEAN, queue : Seq(AllReqs)]
ReqRecord == [len : Int, actual : Int, zero : BOOLEAN, own : {"driver", "checked", "queued", "giving"},
              n : Int, for : Owners]
HostUrb == [ep : Eps \cup {None}, setup : Setups \cup {None}, len : Int, actual : Int,
            state : {"free", "listed", "giving"}, unlinked : BOOLEAN, new : BOOLEAN,
            status : {None, "ok", "overflow", "unlinked", "proto", "pipe"},
            took : SUBSET Owners, cut : BOOLEAN]
TransferPc == {"idle", "scan", "transfer", "request", "stale", "setup", "urb"}
FrameRecord == [pc : TransferPc, at : Nat, total : Int, limit : Int, then : AllReqs \cup {None}]
DataRecord == [len : Int, got : Int, fate : {"pending", "whole", "cut", "lost"}]

TransferTypes ==
  /\ ep \in [Eps -> EpRecord] /\ req \in [AllReqs -> ReqRecord] /\ data \in Seq(DataRecord)
  /\ urb \in [Urbs -> HostUrb] /\ urbp_list \in Seq(Urbs) /\ timer \in FrameRecord
  /\ nuked \in [Nukers -> AllReqs \cup {None}] /\ nuking \in [Nukers -> SUBSET Eps]
  /\ late \in Urbs \cup {None}

(* The timer's cursor is on a listed urb while it is in a callback, or in  *)
(* transfer, for that urb.                                                 *)
CursorInv ==
  /\ \A i \in DOMAIN urbp_list :
       LET u == urb[urbp_list[i]] IN
       u.state = "listed" /\ u.ep \in Eps /\ (u.setup # None \/ u.new => u.ep = "ep0")
  /\ \A e \in Eps : ep[e].setup_stage => e = "ep0"
  /\ \A i, j \in DOMAIN urbp_list : urbp_list[i] = urbp_list[j] => i = j
  /\ timer.pc # "idle" => timer.at > 0
  /\ timer.pc \in {"setup", "transfer", "request"} => timer.at \in DOMAIN urbp_list
  /\ late # None => "ep0" \in Eps

(* A request is in one queue, at one place, as long as it is queued.       *)
QueueInv ==
  /\ \A e \in Eps : \A i \in DOMAIN ep[e].queue : req[ep[e].queue[i]].own = "queued"
  /\ \A e, f \in Eps : \A i \in DOMAIN ep[e].queue, j \in DOMAIN ep[f].queue :
       ep[e].queue[i] = ep[f].queue[j] => e = f /\ i = j
  /\ \A r \in AllReqs : req[r].own = "queued" => \E e \in Eps : \E i \in DOMAIN ep[e].queue : ep[e].queue[i] = r

NukedBy(r) == \E k \in Nukers : nuked[k] = r

(* Two that give requests back do not give back the same.                  *)
GiveApart ==
  \A k \in Nukers : nuked[k] \notin {None, "fifo"} =>
    timer.then # nuked[k] /\ \A j \in Nukers \ {k} : nuked[j] # nuked[k]

GiveInv ==
  /\ \A r \in AllReqs \ {"fifo"} : req[r].own = "giving" <=> (timer.then = r \/ NukedBy(r))
  /\ GiveApart
  /\ timer.then # None => timer.pc \in {"stale", "request"}
  /\ \A r \in AllReqs : req[r].own = "checked" => r \in Reqs /\ req[r].for \in Eps
  /\ req["fifo"].own \in {"driver", "queued"}

TransferInv == TransferTypes /\ CursorInv /\ QueueInv /\ GiveInv

LEMMA ReqFacts ==
  /\ {"fifo", "ep0_req"} \subseteq AllReqs /\ Reqs \subseteq AllReqs
  /\ None \notin AllReqs /\ "fifo" # "ep0_req" /\ "fifo" \notin Reqs
BY TransferAssumption DEF TransferConstants, AllReqs, None

LEMMA TransferInit ==
  ASSUME Init PROVE TransferInv
<1>1. TransferTypes
  <2>1. ep \in [Eps -> EpRecord]
    BY DEF Init, EpRecord
  <2>2. req \in [AllReqs -> ReqRecord]
    BY DEF Init, FreeReq, ReqRecord, Owners, None
  <2>3. urb \in [Urbs -> HostUrb]
    BY DEF Init, FreeUrb, HostUrb, None
  <2>4. timer \in FrameRecord
    BY DEF Init, Idle, FrameRecord, TransferPc, None
  <2> QED BY <2>1, <2>2, <2>3, <2>4 DEF Init, TransferTypes, None
<1>2. CursorInv
  BY DEF Init, Idle, CursorInv, None
<1>3. QueueInv
  <2>1. \A e \in Eps : DOMAIN ep[e].queue = {}
    BY DEF Init
  <2>2. \A r \in AllReqs : req[r].own # "queued"
    BY DEF Init, FreeReq
  <2> QED BY <2>1, <2>2 DEF QueueInv
<1>4. GiveInv
  BY ReqFacts DEF Init, GiveInv, GiveApart, NukedBy, FreeReq, Idle, None
<1> QED BY <1>1, <1>2, <1>3, <1>4 DEF TransferInv
-----------------------------------------------------------------------------
LEMMA QueueTypes ==
  ASSUME TransferTypes, NEW e \in Eps
  PROVE  /\ ep[e].queue \in Seq(AllReqs) /\ DOMAIN ep[e].queue = 1 .. Len(ep[e].queue)
         /\ Len(ep[e].queue) \in Nat
         /\ \A i \in DOMAIN ep[e].queue : ep[e].queue[i] \in AllReqs
BY DEF TransferTypes, EpRecord

(* A request put at the end of a queue.                                    *)
LEMMA Appended ==
  ASSUME NEW S, NEW q \in Seq(S), NEW x \in S, NEW p, p = Append(q, x)
  PROVE  /\ DOMAIN p = DOMAIN q \cup {Len(q) + 1} /\ p[Len(q) + 1] = x
         /\ \A k \in DOMAIN q : p[k] = q[k]
OBVIOUS

(* What a request does to the queues: it stays where it is,                *)
LEMMA QueueKept ==
  ASSUME QueueInv, \A e \in Eps : ep'[e].queue = ep[e].queue,
         TransferTypes, \A r \in AllReqs : req'[r].own = "queued" <=> req[r].own = "queued"
  PROVE  QueueInv'
<1>1. \A e \in Eps : \A i \in DOMAIN ep[e].queue : ep[e].queue[i] \in AllReqs
  BY QueueTypes
<1> QED BY <1>1 DEF QueueInv

(* joins one,                                                              *)
LEMMA QueuePut ==
  ASSUME QueueInv, TransferTypes, NEW e \in Eps, NEW x \in AllReqs, req[x].own # "queued",
         ep'[e].queue = Append(ep[e].queue, x), \A f \in Eps \ {e} : ep'[f].queue = ep[f].queue,
         req'[x].own = "queued",
         \A r \in AllReqs \ {x} : req'[r].own = "queued" <=> req[r].own = "queued"
  PROVE  QueueInv'
<1> DEFINE n == Len(ep[e].queue) + 1
<1>1. /\ DOMAIN ep'[e].queue = (DOMAIN ep[e].queue) \cup {n} /\ n \notin DOMAIN ep[e].queue
      /\ ep'[e].queue[n] = x /\ \A i \in DOMAIN ep[e].queue : ep'[e].queue[i] = ep[e].queue[i]
  BY QueueTypes, SMTT(20)
<1> HIDE DEF n
<1>2. \A f \in Eps : \A i \in DOMAIN ep[f].queue : ep[f].queue[i] \in AllReqs \ {x}
  BY QueueTypes DEF QueueInv
<1>3. \A f \in Eps : \A i \in DOMAIN ep'[f].queue :
        \/ f = e /\ i = n /\ ep'[f].queue[i] = x
        \/ i \in DOMAIN ep[f].queue /\ ep'[f].queue[i] = ep[f].queue[i] /\ ep[f].queue[i] \in AllReqs \ {x}
  BY <1>1, <1>2
<1>4. \A f \in Eps : \A i \in DOMAIN ep[f].queue :
        i \in DOMAIN ep'[f].queue /\ ep'[f].queue[i] = ep[f].queue[i]
  BY <1>1
<1>5. \A f \in Eps : \A i \in DOMAIN ep'[f].queue : req'[ep'[f].queue[i]].own = "queued"
  BY <1>3 DEF QueueInv
<1>6. \A f, g \in Eps : \A i \in DOMAIN ep'[f].queue, j \in DOMAIN ep'[g].queue :
        ep'[f].queue[i] = ep'[g].queue[j] => f = g /\ i = j
  BY <1>3 DEF QueueInv
<1>7. \A r \in AllReqs : req'[r].own = "queued" =>
        \E f \in Eps : \E i \in DOMAIN ep'[f].queue : ep'[f].queue[i] = r
  BY <1>1, <1>4 DEF QueueInv
<1> QED BY <1>5, <1>6, <1>7 DEF QueueInv

(* or leaves the one it is in.                                             *)
Removed(q, k) == [i \in 1 .. Len(q) - 1 |-> q[IF i < k THEN i ELSE i + 1]]

LEMMA QueueTake ==
  ASSUME QueueInv, TransferTypes, NEW e \in Eps, NEW k \in DOMAIN ep[e].queue, NEW x, x = ep[e].queue[k],
         ep'[e].queue = Removed(ep[e].queue, k), \A f \in Eps \ {e} : ep'[f].queue = ep[f].queue,
         req'[x].own # "queued",
         \A r \in AllReqs \ {x} : req'[r].own = "queued" <=> req[r].own = "queued"
  PROVE  QueueInv'
<1> DEFINE n == Len(ep[e].queue)
           old(f, i) == IF f # e \/ i < k THEN i ELSE i + 1
           new(f, i) == IF f # e \/ i < k THEN i ELSE i - 1
<1>1. n \in Nat /\ DOMAIN ep[e].queue = 1 .. n /\ DOMAIN ep'[e].queue = 1 .. n - 1 /\ k \in 1 .. n
  BY QueueTypes DEF Removed
<1>2. \A i \in 1 .. n - 1 : ep'[e].queue[i] = ep[e].queue[IF i < k THEN i ELSE i + 1]
  BY <1>1 DEF Removed
<1>3. \A f \in Eps : \A i \in DOMAIN ep[f].queue :
         i \in Nat /\ ep[f].queue[i] \in AllReqs /\ (ep[f].queue[i] = x => f = e /\ i = k)
  BY QueueTypes DEF QueueInv
<1>4. \A f \in Eps : \A i \in DOMAIN ep'[f].queue :
        /\ i \in Nat /\ old(f, i) \in DOMAIN ep[f].queue /\ ep'[f].queue[i] = ep[f].queue[old(f, i)]
        /\ ~(f = e /\ old(f, i) = k)
  BY <1>1, <1>2, <1>3, SMTT(30)
<1>5. \A f \in Eps : \A i \in DOMAIN ep[f].queue : ~(f = e /\ i = k) =>
         new(f, i) \in DOMAIN ep'[f].queue /\ ep'[f].queue[new(f, i)] = ep[f].queue[i]
  <2> SUFFICES ASSUME NEW f \in Eps, NEW i \in DOMAIN ep[f].queue, ~(f = e /\ i = k)
               PROVE  new(f, i) \in DOMAIN ep'[f].queue /\ ep'[f].queue[new(f, i)] = ep[f].queue[i]
    OBVIOUS
  <2>1. CASE f # e
    BY <2>1
  <2>2. CASE f = e /\ i < k
    <3>1. i \in 1 .. n - 1
      BY <1>1, <2>2
    <3> QED BY <1>1, <1>2, <2>2, <3>1
  <2>3. CASE f = e /\ ~(i < k)
    <3>0. i \in 1 .. n /\ i # k
      BY <1>1, <2>3
    <3>1. i - 1 \in 1 .. n - 1 /\ ~(i - 1 < k) /\ i - 1 + 1 = i
      BY <1>1, <2>3, <3>0
    <3> QED BY <1>1, <1>2, <2>3, <3>1
  <2> QED BY <2>1, <2>2, <2>3
<1>6. \A f \in Eps, i, j \in Nat : old(f, i) = old(f, j) => i = j
  BY <1>1
<1> HIDE DEF old, new, n
<1>7. \A f \in Eps : \A i \in DOMAIN ep'[f].queue : ep'[f].queue[i] \in AllReqs \ {x}
  BY <1>3, <1>4
<1>8. \A f \in Eps : \A i \in DOMAIN ep'[f].queue : req'[ep'[f].queue[i]].own = "queued"
  BY <1>4, <1>7 DEF QueueInv
<1>9. \A f, g \in Eps : \A i \in DOMAIN ep'[f].queue, j \in DOMAIN ep'[g].queue :
        ep'[f].queue[i] = ep'[g].queue[j] => f = g /\ i = j
  BY <1>4, <1>6 DEF QueueInv
<1>10. \A r \in AllReqs : req'[r].own = "queued" =>
        \E f \in Eps : \E i \in DOMAIN ep'[f].queue : ep'[f].queue[i] = r
  <2> SUFFICES ASSUME NEW r \in AllReqs, req'[r].own = "queued"
               PROVE  \E f \in Eps : \E i \in DOMAIN ep'[f].queue : ep'[f].queue[i] = r
    OBVIOUS
  <2>1. r # x /\ req[r].own = "queued"
    OBVIOUS
  <2>2. PICK f \in Eps : \E i \in DOMAIN ep[f].queue : ep[f].queue[i] = r
    BY <2>1 DEF QueueInv
  <2>3. PICK i \in DOMAIN ep[f].queue : ep[f].queue[i] = r
    BY <2>2
  <2> QED BY <1>5, <2>1, <2>3
<1> QED BY <1>8, <1>9, <1>10 DEF QueueInv

LEMMA HeadRemoved ==
  ASSUME NEW S, NEW q \in Seq(S), q # <<>>
  PROVE  /\ 1 \in DOMAIN q /\ Head(q) = q[1] /\ Tail(q) = Removed(q, 1) /\ Tail(q) \in Seq(S) /\ Head(q) \in S
<1>1. /\ Tail(q) \in Seq(S) /\ Len(q) \in Nat /\ Len(q) > 0 /\ Len(Tail(q)) = Len(q) - 1
      /\ Head(q) = q[1] /\ \A i \in 1 .. Len(q) - 1 : Tail(q)[i] = q[i + 1]
  OBVIOUS
<1>2. Tail(q) = [i \in 1 .. Len(q) - 1 |-> Tail(q)[i]]
  <2>1. \A s \in Seq(S) : s = [i \in 1 .. Len(s) |-> s[i]]
    OBVIOUS
  <2> QED BY <1>1, <2>1
<1>3. Removed(q, 1) = [i \in 1 .. Len(q) - 1 |-> q[i + 1]]
  BY <1>1 DEF Removed
<1> QED BY <1>1, <1>2, <1>3

LEMMA WithoutRemoved ==
  ASSUME NEW S, NEW q \in Seq(S), NEW i \in DOMAIN q
  PROVE  \E k \in DOMAIN q : q[k] = q[i] /\ Without(q, q[i]) = Removed(q, k) /\ Removed(q, k) \in Seq(S)
<1>1. PICK k : k = CHOOSE j \in DOMAIN q : q[j] = q[i]
  OBVIOUS
<1>2. k \in DOMAIN q /\ q[k] = q[i]
  BY <1>1
<1>3. Without(q, q[i]) = Removed(q, k)
  BY <1>1 DEF Without, Removed
<1>4. Removed(q, k) \in Seq(S)
  BY <1>2 DEF Removed
<1> QED BY <1>2, <1>3, <1>4

-----------------------------------------------------------------------------
(* Steps that leave the requests alone.                                    *)
LEMMA TransferQuiet ==
  ASSUME TransferInv, UNCHANGED <<req, data, nuked>>, \A e \in Eps : ep'[e].queue = ep[e].queue,
         TransferTypes', CursorInv', timer'.then = timer.then,
         timer'.then # None => timer'.pc \in {"stale", "request"}
  PROVE  TransferInv'
<1>1. QueueInv'
  BY QueueKept DEF TransferInv
<1>2. GiveApart' /\ \A r \in AllReqs : NukedBy(r)' <=> NukedBy(r)
  BY DEF TransferInv, GiveInv, GiveApart, NukedBy
<1>3. GiveInv'
  BY <1>2 DEF TransferInv, GiveInv
<1> QED BY <1>1, <1>3 DEF TransferInv

(* A step that changes but the flags of the endpoints.                     *)
FlagsOnly ==
  /\ ep' \in [Eps -> EpRecord]
  /\ \A e \in Eps : ep'[e].queue = ep[e].queue /\ (ep'[e].setup_stage => ep[e].setup_stage)

LEMMA CursorKept ==
  ASSUME TransferInv, urbp_list' = urbp_list, urb' \in [Urbs -> HostUrb],
         \A i \in DOMAIN urbp_list :
           LET u == urbp_list[i] IN
           /\ urb'[u].state = urb[u].state /\ urb'[u].ep = urb[u].ep
           /\ urb'[u].setup = urb[u].setup /\ (urb'[u].new => urb[u].new),
         \A e \in Eps : ep'[e].setup_stage => ep[e].setup_stage \/ e = "ep0",
         late' # None => "ep0" \in Eps,
         timer'.pc # "idle" => timer'.at > 0,
         timer'.pc \in {"setup", "transfer", "request"} => timer'.at \in DOMAIN urbp_list
  PROVE  CursorInv'
BY DEF TransferInv, CursorInv

LEMMA CurFacts ==
  ASSUME TransferInv, timer.at \in DOMAIN urbp_list
  PROVE  /\ Cur \in Urbs /\ CurEp \in Eps /\ urb[Cur].state = "listed"
         /\ urb[Cur].setup # None \/ SetupStage => "ep0" \in Eps /\ CurEp = "ep0"
BY DEF TransferInv, CursorInv, TransferTypes, Cur, CurEp, SetupStage

LEMMA ScanningFacts ==
  ASSUME TransferInv, Scanning
  PROVE  timer.at \in DOMAIN urbp_list /\ timer.pc = "scan" /\ timer.then = None
<1>1. timer.pc = "scan" /\ timer.at <= Len(urbp_list)
  BY DEF Scanning, AtEnd
<1>2. timer.at \in Nat /\ timer.at > 0 /\ urbp_list \in Seq(Urbs)
  BY <1>1 DEF TransferInv, TransferTypes, CursorInv, FrameRecord
<1>3. timer.then = None
  BY <1>1 DEF TransferInv, GiveInv
<1> QED BY <1>1, <1>2, <1>3

LEMMA EpBooleans ==
  ASSUME TransferTypes, NEW e \in Eps
  PROVE  /\ ep[e].desc \in BOOLEAN /\ ep[e].halted \in BOOLEAN /\ ep[e].wedged \in BOOLEAN
         /\ ep[e].already_seen \in BOOLEAN /\ ep[e].setup_stage \in BOOLEAN
BY DEF TransferTypes, EpRecord

LEMMA FlagsFacts ==
  ASSUME TransferTypes
  PROVE  /\ UNCHANGED ep => FlagsOnly
         /\ \A e \in Eps : ep' = [ep EXCEPT ![e].already_seen = FALSE, ![e].setup_stage = FALSE] => FlagsOnly
<1>1. UNCHANGED ep => FlagsOnly
  BY DEF TransferTypes, FlagsOnly
<1>2. \A x \in EpRecord : LET y == [x EXCEPT !.already_seen = FALSE, !.setup_stage = FALSE] IN
        y \in EpRecord /\ y.queue = x.queue /\ y.setup_stage = FALSE
  BY DEF EpRecord
<1>3. ASSUME NEW e \in Eps, ep' = [ep EXCEPT ![e].already_seen = FALSE, ![e].setup_stage = FALSE]
      PROVE  FlagsOnly
  <2>1. ep' = [ep EXCEPT ![e] = [ep[e] EXCEPT !.already_seen = FALSE, !.setup_stage = FALSE]]
    BY <1>3 DEF TransferTypes
  <2> QED BY <1>2, <2>1 DEF TransferTypes, FlagsOnly
<1> QED BY <1>1, <1>3

(* The driver's side, but for its requests.                                *)
LEMMA DriverFlags ==
  ASSUME TransferTypes,
         \/ \E e \in Eps : Enable(e) \/ Disable(e) \/ \E value, wedged \in BOOLEAN : SetHalt(e, value, wedged)
         \/ Disconnect \/ Connect \/ RootHubSuspends \/ RootHubResumes
  PROVE  FlagsOnly
<1>1. ASSUME NEW e \in Eps, Enable(e) PROVE FlagsOnly
  <2>1. ep' = [ep EXCEPT ![e].desc = TRUE, ![e].halted = FALSE, ![e].wedged = FALSE]
    BY <1>1 DEF Enable
  <2>2. ep \in [Eps -> EpRecord]
    BY DEF TransferTypes
  <2> QED BY <2>1, <2>2, ZenonT(40) DEF EpRecord, FlagsOnly
<1>2. ASSUME NEW e \in Eps, Disable(e) PROVE FlagsOnly
  BY <1>2 DEF TransferTypes, EpRecord, FlagsOnly, Disable
<1>3. ASSUME NEW e \in Eps, NEW value \in BOOLEAN, NEW wedged \in BOOLEAN, SetHalt(e, value, wedged)
      PROVE  FlagsOnly
  <2>1. ep' = [ep EXCEPT ![e].halted = value, ![e].wedged = value /\ (ep[e].wedged \/ wedged)]
    BY <1>3 DEF SetHalt
  <2>2. (value /\ (ep[e].wedged \/ wedged)) \in BOOLEAN
    OBVIOUS
  <2> QED BY <2>1, <2>2, ZenonT(40) DEF TransferTypes, EpRecord, FlagsOnly
<1>4. CASE Disconnect \/ Connect \/ RootHubSuspends \/ RootHubResumes
  BY <1>4 DEF TransferTypes, FlagsOnly, Disconnect, Connect, RootHubSuspends, RootHubResumes, GadgetSide
<1> QED BY <1>1, <1>2, <1>3, <1>4

LEMMA DriverStep ==
  ASSUME TransferInv,
         \/ \E e \in Eps : Enable(e) \/ Disable(e) \/ \E value, wedged \in BOOLEAN : SetHalt(e, value, wedged)
         \/ Disconnect \/ Connect \/ RootHubSuspends \/ RootHubResumes
  PROVE  TransferInv'
<1>1. /\ UNCHANGED <<req, data, nuked, urb, urbp_list, timer>> /\ late' \in {late, None}
      /\ nuking' = nuking \/ \E k \in Nukers, es \in SUBSET Eps : nuking' = [nuking EXCEPT ![k] = es]
  BY Zenon DEF Enable, Disable, SetHalt, Disconnect, Connect, RootHubSuspends, RootHubResumes, Host,
         Port, GadgetSide, Nukers, None
<1>2. FlagsOnly
  BY DriverFlags DEF TransferInv
<1>3. TransferTypes'
  BY <1>1, <1>2 DEF TransferInv, TransferTypes, FlagsOnly
<1>4. CursorInv'
  BY <1>1, <1>2, CursorKept DEF TransferInv, TransferTypes, CursorInv, FlagsOnly
<1>5. timer'.then # None => timer'.pc \in {"stale", "request"}
  BY <1>1 DEF TransferInv, GiveInv
<1> QED BY <1>1, <1>2, <1>3, <1>4, <1>5, TransferQuiet DEF FlagsOnly

(* The host's side.                                                        *)
LEMMA HostStep ==
  ASSUME TransferInv,
         \/ \E u \in Urbs, e \in Eps, l \in UrbLengths \cup {0}, s \in Setups \cup {None} : UrbEnqueue(u, e, l, s)
         \/ \E u \in Urbs : UrbDequeue(u)
  PROVE  TransferInv'
<1>1. UNCHANGED <<ep, req, data, nuking, nuked, late, timer>>
  BY DEF UrbEnqueue, UrbDequeue, GadgetSide
<1>2. TransferTypes /\ CursorInv /\ GiveInv /\ urb \in [Urbs -> HostUrb] /\ urbp_list \in Seq(Urbs)
  BY DEF TransferInv, TransferTypes
<1>3. ASSUME NEW u \in Urbs, UrbDequeue(u) PROVE TransferInv'
  <2>1. /\ urb' = [urb EXCEPT ![u].unlinked = TRUE] /\ urbp_list' = urbp_list
    BY <1>3 DEF UrbDequeue
  <2>2. /\ urb' \in [Urbs -> HostUrb]
        /\ \A v \in Urbs : urb'[v].state = urb[v].state /\ urb'[v].ep = urb[v].ep /\ urb'[v].setup = urb[v].setup
           /\ (urb'[v].new => urb[v].new)
    <3>1. [urb[u] EXCEPT !.unlinked = TRUE] \in HostUrb
      BY <1>2 DEF HostUrb
    <3> QED BY <1>2, <2>1, <3>1
  <2>3. CursorInv'
    BY <1>1, <1>2, <2>1, <2>2, CursorKept DEF CursorInv
  <2>4. TransferTypes'
    BY <1>1, <1>2, <2>1, <2>2 DEF TransferTypes
  <2> QED BY <1>1, <1>2, <2>3, <2>4, TransferQuiet DEF GiveInv
<1>4. ASSUME NEW u \in Urbs, NEW e \in Eps, NEW l \in UrbLengths \cup {0}, NEW s \in Setups \cup {None},
             UrbEnqueue(u, e, l, s)
      PROVE  TransferInv'
  <2>1. /\ urb[u].state = "free" /\ (s # None <=> e = "ep0") /\ urbp_list' = Append(urbp_list, u)
        /\ urb' = [urb EXCEPT ![u] = NewUrb(e, l, s)]
    BY <1>4 DEF UrbEnqueue, None
  <2>2. /\ NewUrb(e, l, s) \in HostUrb
        /\ NewUrb(e, l, s).state = "listed" /\ NewUrb(e, l, s).ep = e /\ NewUrb(e, l, s).setup = s
        /\ NewUrb(e, l, s).new <=> e = "ep0"
    <3>1. PICK new \in BOOLEAN : new <=> e = "ep0"
      OBVIOUS
    <3>2. NewUrb(e, l, s) = [FreeUrb EXCEPT !.ep = e, !.setup = s, !.len = l, !.state = "listed", !.new = new]
      <4>1. new = (e = "ep0")
        BY <3>1
      <4> QED BY <4>1, Zenon DEF NewUrb
    <3>3. l \in Int /\ FreeUrb \in HostUrb
      <4>1. l \in Int
        BY TransferAssumption DEF TransferConstants
      <4>2. FreeUrb \in HostUrb
        BY DEF FreeUrb, HostUrb, None
      <4> QED BY <4>1, <4>2
    <3>4. ASSUME NEW x \in HostUrb
          PROVE  LET y == [x EXCEPT !.ep = e, !.setup = s, !.len = l, !.state = "listed", !.new = new]
                 IN  y \in HostUrb /\ y.state = "listed" /\ y.ep = e /\ y.setup = s /\ y.new = new
      BY <3>3 DEF HostUrb
    <3> QED BY <3>1, <3>2, <3>3, <3>4, ZenonT(40)
  <2>3. urb' \in [Urbs -> HostUrb] /\ urbp_list' \in Seq(Urbs)
    BY <1>2, <2>1, <2>2
  <2>4. TransferTypes'
    BY <1>1, <1>2, <2>3 DEF TransferTypes
  <2>5. CursorInv'
    <3> DEFINE n == Len(urbp_list) + 1
    <3>1. /\ DOMAIN urbp_list' = DOMAIN urbp_list \cup {n} /\ urbp_list'[n] = u
          /\ \A i \in DOMAIN urbp_list : urbp_list'[i] = urbp_list[i] /\ urbp_list[i] \in Urbs
      BY <1>2, <2>1
    <3> HIDE DEF n
    <3>2. \A i \in DOMAIN urbp_list : urbp_list[i] # u
      BY <1>2, <2>1 DEF CursorInv
    <3>3. /\ urb'[u].state = "listed" /\ urb'[u].ep \in Eps
          /\ urb'[u].setup # None \/ urb'[u].new => urb'[u].ep = "ep0"
      BY <1>2, <2>1, <2>2
    <3>4. \A i \in DOMAIN urbp_list : urb'[urbp_list[i]] = urb[urbp_list[i]]
      BY <1>2, <2>1, <3>1, <3>2
    <3>5. \A i \in DOMAIN urbp_list' :
            \/ i = n /\ urbp_list'[i] = u
            \/ i \in DOMAIN urbp_list /\ urbp_list'[i] = urbp_list[i]
      BY <3>1
    <3> QED BY <1>1, <1>2, <3>1, <3>2, <3>3, <3>4, <3>5 DEF CursorInv
  <2> QED BY <1>1, <1>2, <2>4, <2>5, TransferQuiet DEF GiveInv
<1> QED BY <1>3, <1>4

(* The timer's turns that return no urb and touch no request.              *)
LEMMA ScanFlags ==
  ASSUME TransferTypes, TimerFires \/ FrameEnds \/ SkipUrb \/ SetupDefers \/ TransferBegins
  PROVE  FlagsOnly
<1>1. ep' = ep \/ ep' = Unseen \/ (TransferBegins /\ ep' = [ep EXCEPT ![CurEp].already_seen = TRUE])
  BY DEF TimerFires, FrameEnds, SkipUrb, SetupDefers, TransferBegins, GadgetSide
<1>2. CASE ep' = ep
  BY <1>2 DEF TransferTypes, FlagsOnly
<1>3. CASE ep' = Unseen
  <2>1. \A e \in Eps : ep'[e] = [ep[e] EXCEPT !.already_seen = FALSE]
    BY <1>3 DEF Unseen
  <2>2. ep' = [e \in Eps |-> ep'[e]]
    BY <1>3 DEF Unseen
  <2>3. \A e \in Eps : ep[e] \in EpRecord /\ ep'[e] \in EpRecord /\ ep'[e].queue = ep[e].queue
                        /\ ep'[e].setup_stage = ep[e].setup_stage
    BY <2>1, ZenonT(40) DEF TransferTypes, EpRecord
  <2> QED BY <2>2, <2>3 DEF FlagsOnly
<1>4. CASE ep' = [ep EXCEPT ![CurEp].already_seen = TRUE]
  BY <1>4 DEF TransferTypes, EpRecord, FlagsOnly
<1> QED BY <1>1, <1>2, <1>3, <1>4

LEMMA ScanStep ==
  ASSUME TransferInv,
         \/ TimerFires \/ FrameEnds \/ SkipUrb \/ SetupDefers \/ TransferBegins
  PROVE  TransferInv'
<1>1. UNCHANGED <<req, data, nuking, nuked, urb, urbp_list>>
  BY DEF TimerFires, FrameEnds, SkipUrb, SetupDefers, TransferBegins, GadgetSide, Host, Port
<1>2. TransferTypes /\ CursorInv /\ GiveInv /\ timer \in FrameRecord
  BY DEF TransferInv, TransferTypes
<1>3. FlagsOnly
  BY <1>2, ScanFlags
<1>4. /\ timer' \in FrameRecord /\ timer'.then = timer.then
      /\ timer'.then # None => timer'.pc \in {"stale", "request"}
      /\ timer'.pc # "idle" => timer'.at > 0
      /\ timer'.pc \in {"setup", "transfer", "request"} => timer'.at \in DOMAIN urbp_list
      /\ late' # None => "ep0" \in Eps
      /\ late' \in Urbs \cup {None}
  <2>1. CASE TimerFires
    <3>1. timer.then = None
      BY <1>2, <2>1 DEF TimerFires, GiveInv
    <3>2. \/ timer' = [pc |-> "scan", at |-> 1, total |-> Total, limit |-> 0, then |-> None]
          \/ timer' = timer
      BY <2>1 DEF TimerFires, Idle, None
    <3>3. late' = late /\ timer.pc = "idle"
      BY <2>1 DEF TimerFires
    <3> QED BY <1>2, <3>1, <3>2, <3>3, TransferAssumption DEF FrameRecord, TransferPc, TransferConstants, TransferTypes, CursorInv
  <2>2. CASE FrameEnds
    <3>1. timer.then = None
      BY <1>2, <2>2 DEF FrameEnds, GiveInv
    <3> QED BY <1>2, <2>2, <3>1 DEF FrameEnds, Idle, None, FrameRecord, TransferPc, TransferTypes, CursorInv,
                 GadgetSide
  <2>3. CASE SkipUrb
    <3>1. timer.then = None /\ timer.pc = "scan" /\ timer' = [timer EXCEPT !.at = timer.at + 1]
          /\ late' = late
      BY <2>3, ScanningFacts DEF SkipUrb, GadgetSide
    <3> QED BY <1>2, <3>1 DEF FrameRecord, TransferPc, TransferTypes, CursorInv
  <2>4. CASE SetupDefers
    <3>1. /\ timer.pc = "setup" /\ timer.then = None /\ late' = Cur
          /\ timer' = [timer EXCEPT !.pc = "transfer", !.limit = 64 * 1024]
          /\ urb[Cur].setup \in ForDriver
      BY <1>2, <2>4 DEF SetupDefers, GiveInv
    <3>2. timer.at \in DOMAIN urbp_list
      BY <1>2, <3>1 DEF CursorInv
    <3>3. Cur \in Urbs /\ "ep0" \in Eps
      BY <3>1, <3>2, CurFacts DEF ForDriver, None
    <3>4. PICK limit \in Int : timer' = [timer EXCEPT !.pc = "transfer", !.limit = limit]
      <4>1. 64 * 1024 \in Int
        OBVIOUS
      <4> QED BY <3>1, <4>1, ZenonT(30)
    <3>5. timer' \in FrameRecord /\ timer'.then = timer.then /\ timer'.pc = "transfer" /\ timer'.at = timer.at
      BY <1>2, <3>4 DEF FrameRecord, TransferPc
    <3>6. timer.at > 0
      BY <1>2, <3>1 DEF CursorInv
    <3> QED BY <3>1, <3>2, <3>3, <3>5, <3>6
  <2>5. CASE TransferBegins
    <3>1. /\ timer.then = None /\ timer.at \in DOMAIN urbp_list /\ timer.pc = "scan" /\ late' = late
          /\ timer' = [timer EXCEPT !.pc = "transfer", !.limit = Limit(CurEp)]
      BY <2>5, ScanningFacts DEF TransferBegins, Fresh, Looked
    <3>2. Limit(CurEp) \in Int
      BY <1>2, TransferAssumption DEF Limit, PeriodicBytes, TransferConstants, FrameRecord
    <3> QED BY <1>2, <3>1, <3>2 DEF FrameRecord, TransferPc, TransferTypes, CursorInv
  <2> QED BY <2>1, <2>2, <2>3, <2>4, <2>5
<1>5. CursorInv'
  BY <1>1, <1>2, <1>3, <1>4, CursorKept DEF TransferTypes, FlagsOnly
<1>6. TransferTypes'
  BY <1>1, <1>2, <1>3, <1>4 DEF TransferTypes, FlagsOnly
<1> QED BY <1>1, <1>3, <1>4, <1>5, <1>6, TransferQuiet DEF FlagsOnly

(* return_urb: the urb leaves the list.                                    *)
LEMMA ReturnStep ==
  ASSUME TransferInv, timer.at \in DOMAIN urbp_list, timer.then = None, NEW u, u = Cur,
         NEW status \in {None, "ok", "overflow", "unlinked", "proto", "pipe"},
         urbp_list' = Without(urbp_list, u),
         urb' = [urb EXCEPT ![u].state = "giving", ![u].status = status, ![u].new = FALSE],
         timer' = [timer EXCEPT !.pc = "urb", !.at = 1, !.limit = 0],
         FlagsOnly, UNCHANGED <<req, data, nuking, nuked, late>>
  PROVE  TransferInv'
<1>1. /\ TransferTypes /\ CursorInv /\ urb \in [Urbs -> HostUrb] /\ urbp_list \in Seq(Urbs) /\ timer \in FrameRecord
      /\ u \in Urbs /\ u = urbp_list[timer.at]
  BY CurFacts DEF TransferInv, TransferTypes, Cur
<1>2. PICK k \in DOMAIN urbp_list : /\ urbp_list[k] = u /\ urbp_list' = Removed(urbp_list, k)
                                    /\ urbp_list' \in Seq(Urbs)
  BY <1>1, WithoutRemoved
<1>3. /\ \A i \in DOMAIN urbp_list' : LET o == IF i < k THEN i ELSE i + 1 IN
           i \in Nat /\ o \in DOMAIN urbp_list /\ o # k /\ urbp_list'[i] = urbp_list[o]
      /\ k \in Nat
  <2>1. /\ Len(urbp_list) \in Nat /\ DOMAIN urbp_list = 1 .. Len(urbp_list)
        /\ DOMAIN urbp_list' = 1 .. Len(urbp_list) - 1
        /\ \A i \in 1 .. Len(urbp_list) - 1 : urbp_list'[i] = urbp_list[IF i < k THEN i ELSE i + 1]
    BY <1>1, <1>2 DEF Removed
  <2> QED BY <1>2, <2>1
<1>4. \A i \in DOMAIN urbp_list' : urbp_list'[i] \in Urbs \ {u}
  BY <1>1, <1>2, <1>3 DEF CursorInv
<1>5. urb' \in [Urbs -> HostUrb] /\ \A v \in Urbs \ {u} : urb'[v] = urb[v]
  <2>1. [urb[u] EXCEPT !.state = "giving", !.status = status, !.new = FALSE] \in HostUrb
    <3>1. urb[u] \in HostUrb
      BY <1>1
    <3> QED BY <3>1, ZenonT(40) DEF HostUrb
  <2> QED BY <1>1, <2>1
<1>6. timer' \in FrameRecord /\ timer'.pc = "urb" /\ timer'.at = 1 /\ timer'.then = timer.then
  <2>1. PICK x \in FrameRecord : x = timer
    BY <1>1
  <2>2. PICK y : y = [x EXCEPT !.pc = "urb", !.at = 1, !.limit = 0]
    OBVIOUS
  <2>3. y \in FrameRecord /\ y.pc = "urb" /\ y.at = 1 /\ y.then = x.then
    <3>1. 1 \in Nat /\ 0 \in Int /\ "urb" \in TransferPc
      BY DEF TransferPc
    <3> QED BY <2>2, <3>1 DEF FrameRecord
  <2> QED BY <2>1, <2>2, <2>3
<1>7. TransferTypes'
  BY <1>1, <1>2, <1>5, <1>6 DEF TransferTypes, FlagsOnly
<1>8. CursorInv'
  <2>1. \A i \in DOMAIN urbp_list' :
          LET v == urb'[urbp_list'[i]] IN
          v.state = "listed" /\ v.ep \in Eps /\ (v.setup # None \/ v.new => v.ep = "ep0")
    BY <1>1, <1>3, <1>4, <1>5 DEF CursorInv
  <2>2. \A i, j \in DOMAIN urbp_list' : urbp_list'[i] = urbp_list'[j] => i = j
    BY <1>1, <1>3 DEF CursorInv
  <2>3. late' # None => "ep0" \in Eps
    BY <1>1 DEF CursorInv
  <2>4. timer'.pc = "urb" /\ timer'.at > 0
    BY <1>6
  <2>5. \A e \in Eps : ep'[e].setup_stage => e = "ep0"
    BY <1>1 DEF CursorInv, FlagsOnly
  <2> QED BY <2>1, <2>2, <2>3, <2>4, <2>5 DEF CursorInv
<1> QED BY <1>6, <1>7, <1>8, TransferQuiet DEF FlagsOnly

(* What returns an urb, and the setup callback.                            *)
LEMMA ReturnFlags ==
  ASSUME TransferInv, ReturnHalted \/ ControlHandled \/ SetupFails \/ TransferEnds \/ SetupCall
  PROVE  FlagsOnly
<1>1. TransferTypes
  BY DEF TransferInv
<1>2. timer.at \in DOMAIN urbp_list
  <2>1. CASE Scanning
    BY <2>1, ScanningFacts
  <2>2. CASE timer.pc \in {"setup", "transfer"}
    BY <2>2 DEF TransferInv, CursorInv
  <2> QED BY <2>1, <2>2 DEF ReturnHalted, ControlHandled, SetupReady, SetupFails, TransferEnds, SetupCall, Fresh, Looked
<1>3. CurEp \in Eps /\ (urb[Cur].setup # None => "ep0" \in Eps)
  BY <1>2, CurFacts
<1>4. CASE ReturnHalted
  BY <1>1, <1>3, <1>4, FlagsFacts DEF ReturnHalted, Return, Forgotten
<1>5. CASE ControlHandled
  <2>1. "ep0" \in Eps /\ urb[Cur].setup \in {"set_halt", "clear_halt", "get_status"}
    BY <1>3, <1>5 DEF ControlHandled, None
  <2>2. PICK k : /\ \/ k = ep \/ k = HaltCleared("in")
                    \/ "in" \in Eps /\ k = [ep EXCEPT !["in"].halted = TRUE]
                 /\ ep' = [k EXCEPT !["ep0"] = [@ EXCEPT !.already_seen = FALSE, !.setup_stage = FALSE, !.halted = FALSE]]
    BY <1>5 DEF ControlHandled, Return
  <2>3. /\ k \in [Eps -> EpRecord]
        /\ \A e \in Eps : k[e].queue = ep[e].queue /\ k[e].setup_stage = ep[e].setup_stage
    <3>1. \A x \in EpRecord : LET y == [x EXCEPT !.halted = FALSE] z == [x EXCEPT !.halted = TRUE] IN
            /\ y \in EpRecord /\ y.queue = x.queue /\ y.setup_stage = x.setup_stage
            /\ z \in EpRecord /\ z.queue = x.queue /\ z.setup_stage = x.setup_stage
      BY DEF EpRecord
    <3>2. \/ k = ep
          \/ k = [ep EXCEPT !["in"] = [ep["in"] EXCEPT !.halted = FALSE]]
          \/ "in" \in Eps /\ k = [ep EXCEPT !["in"] = [ep["in"] EXCEPT !.halted = TRUE]]
      BY <2>2 DEF HaltCleared
    <3>3. ASSUME NEW x \in EpRecord, x.queue = ep["in"].queue, x.setup_stage = ep["in"].setup_stage,
                 k = [ep EXCEPT !["in"] = x]
          PROVE  /\ k \in [Eps -> EpRecord]
                 /\ \A e \in Eps : k[e].queue = ep[e].queue /\ k[e].setup_stage = ep[e].setup_stage
      BY <1>1, <3>3 DEF TransferTypes
    <3>4. CASE "in" \notin Eps
      <4>1. k = ep
        BY <1>1, <3>2, <3>4 DEF TransferTypes
      <4> QED BY <1>1, <4>1 DEF TransferTypes
    <3>5. CASE "in" \in Eps
      <4>1. ep["in"] \in EpRecord
        BY <1>1, <3>5 DEF TransferTypes
      <4> QED BY <1>1, <3>1, <3>2, <3>3, <4>1 DEF TransferTypes
    <3> QED BY <3>4, <3>5
  <2>4. \A x \in EpRecord : LET y == [x EXCEPT !.already_seen = FALSE, !.setup_stage = FALSE, !.halted = FALSE]
                             IN  y \in EpRecord /\ y.queue = x.queue /\ y.setup_stage = FALSE
    BY DEF EpRecord
  <2> QED BY <2>1, <2>2, <2>3, <2>4 DEF FlagsOnly
<1>6. CASE SetupFails
  <2>1. ep' = [ep EXCEPT !["ep0"].already_seen = FALSE, !["ep0"].setup_stage = FALSE]
    BY <1>6 DEF SetupFails, Return, Forgotten
  <2>2. CASE "ep0" \in Eps
    BY <1>1, <2>1, <2>2, FlagsFacts
  <2>3. CASE "ep0" \notin Eps
    <3>1. ep' = ep
      BY <1>1, <2>1, <2>3 DEF TransferTypes
    <3> QED BY <1>1, <3>1, FlagsFacts
  <2> QED BY <2>2, <2>3
<1>7. CASE TransferEnds
  <2>1. CASE ep' = Forgotten(CurEp)
    BY <1>1, <1>3, <2>1, FlagsFacts DEF Forgotten
  <2>2. CASE UNCHANGED ep
    BY <1>1, <2>2, FlagsFacts
  <2> QED BY <1>7, <2>1, <2>2 DEF TransferEnds, Return
<1>8. CASE SetupCall
  <2>1. /\ urb[Cur].setup \in ForDriver \cup {"stall"}
        /\ ep' = [[ep EXCEPT !["ep0"].setup_stage = FALSE, !["ep0"].halted = FALSE] EXCEPT !["ep0"].already_seen = TRUE]
    BY <1>8 DEF SetupCall, SetupTaken
  <2>2. "ep0" \in Eps
    BY <1>3, <2>1 DEF ForDriver, None
  <2>3. \A x \in EpRecord : LET y == [x EXCEPT !.setup_stage = FALSE, !.halted = FALSE, !.already_seen = TRUE]
                             IN  y \in EpRecord /\ y.queue = x.queue /\ y.setup_stage = FALSE
    BY DEF EpRecord
  <2>4. ep' = [ep EXCEPT !["ep0"] = [ep["ep0"] EXCEPT !.setup_stage = FALSE, !.halted = FALSE, !.already_seen = TRUE]]
    BY <1>1, <2>1, <2>2 DEF TransferTypes, EpRecord
  <2> QED BY <1>1, <2>2, <2>3, <2>4 DEF TransferTypes, FlagsOnly
<1> QED BY <1>4, <1>5, <1>6, <1>7, <1>8

LEMMA ScanReturnsStep ==
  ASSUME TransferInv, ReturnUnlinked \/ ReturnNoEndpoint \/ ReturnHalted \/ ControlHandled
  PROVE  TransferInv'
<1>1. Scanning /\ UNCHANGED <<req, data, nuking, nuked, late>>
  BY DEF ReturnUnlinked, ReturnNoEndpoint, ReturnHalted, ControlHandled, SetupReady, Fresh, Looked
<1>2. timer.at \in DOMAIN urbp_list /\ timer.then = None /\ TransferTypes
  BY <1>1, ScanningFacts DEF TransferInv
<1>4. CASE ReturnUnlinked
  BY <1>1, <1>2, <1>4, ReturnStep, FlagsFacts, Zenon DEF ReturnUnlinked, Return
<1>5. CASE ReturnNoEndpoint
  BY <1>1, <1>2, <1>5, ReturnStep, FlagsFacts, Zenon DEF ReturnNoEndpoint, Return
<1>6. CASE ReturnHalted
  <2>1. FlagsOnly
    BY <1>6, ReturnFlags
  <2> QED BY <1>1, <1>2, <1>6, <2>1, ReturnStep, Zenon DEF ReturnHalted, Return
<1>7. CASE ControlHandled
  <2>1. FlagsOnly
    BY <1>7, ReturnFlags
  <2>2. PICK status \in {"ok", "pipe"} :
          /\ urbp_list' = Without(urbp_list, Cur)
          /\ urb' = [urb EXCEPT ![Cur].state = "giving", ![Cur].status = status, ![Cur].new = FALSE]
          /\ timer' = [timer EXCEPT !.pc = "urb", !.at = 1, !.limit = 0]
    BY <1>7 DEF ControlHandled, Return
  <2> QED BY <1>1, <1>2, <2>1, <2>2, ReturnStep, Zenon
<1> QED BY <1>4, <1>5, <1>6, <1>7

LEMMA EndsReturnStep ==
  ASSUME TransferInv, SetupFails \/ TransferEnds PROVE TransferInv'
<1>1. /\ TransferTypes /\ urb \in [Urbs -> HostUrb] /\ UNCHANGED <<req, data, nuking, nuked, late>>
      /\ timer.pc \in {"setup", "transfer"}
  BY DEF SetupFails, TransferEnds, TransferInv, TransferTypes
<1>2. timer.at \in DOMAIN urbp_list /\ timer.then = None
  BY <1>1 DEF TransferInv, CursorInv, GiveInv
<1>3. Cur \in Urbs /\ CurEp \in Eps
  BY <1>2, CurFacts
<1>4. CASE SetupFails
  <2>1. FlagsOnly
    BY <1>4, ReturnFlags
  <2> QED BY <1>1, <1>2, <1>4, <2>1, ReturnStep, Zenon DEF SetupFails, Return
<1>5. ASSUME urb[Cur].status # None, Return(Cur, urb[Cur].status, ep' = Forgotten(CurEp))
      PROVE  TransferInv'
  <2>1. FlagsOnly
    BY <1>1, <1>3, <1>5, FlagsFacts DEF Return, Forgotten
  <2>2. urb[Cur].status \in {None, "ok", "overflow", "unlinked", "proto", "pipe"}
    BY <1>1, <1>3 DEF HostUrb
  <2> QED BY <1>1, <1>2, <1>5, <2>1, <2>2, ReturnStep, Zenon DEF Return
<1>6. ASSUME timer' = [timer EXCEPT !.pc = "scan", !.at = @ + 1, !.limit = 0],
             UNCHANGED <<ep, urb, urbp_list>>
      PROVE  TransferInv'
  <2>1. FlagsOnly
    BY <1>1, <1>6, FlagsFacts
  <2>2. timer \in FrameRecord /\ timer.at \in Nat
    BY <1>1 DEF TransferTypes, FrameRecord
  <2>3. /\ timer' \in FrameRecord /\ timer'.pc = "scan" /\ timer'.at = timer.at + 1
        /\ timer'.then = timer.then
    <3>1. timer.at + 1 \in Nat /\ 0 \in Int /\ "scan" \in TransferPc
      BY <2>2 DEF TransferPc
    <3> QED BY <1>6, <2>2, <3>1 DEF FrameRecord
  <2>4. late' # None => "ep0" \in Eps
    BY <1>1 DEF TransferInv, CursorInv
  <2>5. CursorInv'
    BY <1>1, <1>6, <2>2, <2>3, <2>4, CursorKept
  <2>6. TransferTypes'
    BY <1>1, <1>6, <2>3 DEF TransferTypes
  <2> QED BY <1>1, <1>2, <2>1, <2>3, <2>5, <2>6, TransferQuiet DEF FlagsOnly
<1>7. CASE TransferEnds
  BY <1>5, <1>6, <1>7 DEF TransferEnds
<1> QED BY <1>4, <1>7

(* The setup callback begins, and usb_hcd_giveback_urb returns.            *)
LEMMA CallbackStep ==
  ASSUME TransferInv, SetupCall \/ UrbGiven PROVE TransferInv'
<1>1. TransferTypes /\ CursorInv /\ GiveInv /\ urb \in [Urbs -> HostUrb] /\ timer \in FrameRecord
  BY DEF TransferInv, TransferTypes
<1>2. CASE SetupCall
  <2>1. /\ Scanning /\ UNCHANGED <<urbp_list, req, data, nuking, nuked>> /\ late' = None
        /\ ep' = [[ep EXCEPT !["ep0"].setup_stage = FALSE, !["ep0"].halted = FALSE] EXCEPT !["ep0"].already_seen = TRUE]
        /\ urb' = [urb EXCEPT ![Cur].new = FALSE]
        /\ timer' = [timer EXCEPT !.pc = "setup"]
        /\ urb[Cur].setup \in ForDriver \cup {"stall"}
    BY <1>2 DEF SetupCall, SetupReady, Fresh, Looked, SetupTaken, None
  <2>2. timer.at \in DOMAIN urbp_list /\ timer.then = None /\ timer.pc = "scan"
    BY <2>1, ScanningFacts
  <2>3. Cur \in Urbs /\ "ep0" \in Eps
    BY <2>1, <2>2, CurFacts DEF ForDriver, None
  <2>4. FlagsOnly
    BY <1>2, ReturnFlags
  <2>5. /\ urb' \in [Urbs -> HostUrb]
        /\ \A v \in Urbs : urb'[v].state = urb[v].state /\ urb'[v].ep = urb[v].ep /\ urb'[v].setup = urb[v].setup
           /\ (urb'[v].new => urb[v].new)
    <3>1. \A x \in HostUrb : LET y == [x EXCEPT !.new = FALSE] IN
            y \in HostUrb /\ y.state = x.state /\ y.ep = x.ep /\ y.setup = x.setup /\ y.new = FALSE
      BY DEF HostUrb
    <3> QED BY <1>1, <2>1, <2>3, <3>1
  <2>6. /\ timer' \in FrameRecord /\ timer'.pc = "setup" /\ timer'.at = timer.at /\ timer'.then = timer.then
    BY <1>1, <2>1 DEF FrameRecord, TransferPc
  <2>7. timer.at > 0 /\ \A i \in DOMAIN urbp_list : urbp_list[i] \in Urbs
    BY <1>1, <2>2 DEF CursorInv, TransferTypes
  <2>8. CursorInv'
    BY <2>1, <2>2, <2>4, <2>5, <2>6, <2>7, CursorKept DEF FlagsOnly
  <2>9. TransferTypes'
    BY <1>1, <2>1, <2>4, <2>5, <2>6 DEF TransferTypes, FlagsOnly
  <2> QED BY <2>1, <2>2, <2>4, <2>6, <2>8, <2>9, TransferQuiet DEF FlagsOnly
<1>3. CASE UrbGiven
  <2>1. /\ timer.pc = "urb" /\ UNCHANGED <<urbp_list, ep, req, data, nuking, nuked, late>>
        /\ urb' = [u \in Urbs |-> IF urb[u].state = "giving" THEN FreeUrb ELSE urb[u]]
        /\ timer' = [timer EXCEPT !.pc = "scan", !.then = None]
    BY <1>3 DEF UrbGiven, GadgetSide, None
  <2>2. timer.then = None
    BY <1>1, <2>1 DEF GiveInv
  <2>3. FreeUrb \in HostUrb
    BY DEF FreeUrb, HostUrb, None
  <2>4. /\ urb' \in [Urbs -> HostUrb]
        /\ \A i \in DOMAIN urbp_list : urbp_list[i] \in Urbs /\ urb'[urbp_list[i]] = urb[urbp_list[i]]
    <3>1. \A i \in DOMAIN urbp_list : urbp_list[i] \in Urbs /\ urb[urbp_list[i]].state = "listed"
      BY <1>1 DEF CursorInv, TransferTypes
    <3> QED BY <1>1, <2>1, <2>3, <3>1
  <2>5. timer' \in FrameRecord /\ timer'.pc = "scan" /\ timer'.at = timer.at /\ timer'.then = None
    BY <1>1, <2>1 DEF FrameRecord, TransferPc
  <2>6. timer.at > 0 /\ (late' # None => "ep0" \in Eps)
    BY <1>1, <2>1 DEF CursorInv
  <2>7. CursorInv'
    BY <2>1, <2>4, <2>5, <2>6, CursorKept
  <2>8. FlagsOnly /\ TransferTypes'
    BY <1>1, <2>1, <2>4, <2>5, FlagsFacts DEF TransferTypes
  <2> QED BY <2>1, <2>2, <2>5, <2>7, <2>8, TransferQuiet DEF FlagsOnly
<1> QED BY <1>2, <1>3

-----------------------------------------------------------------------------
(* A callback for a request returns.                                       *)
LEMMA FreeFacts ==
  FreeReq \in ReqRecord /\ FreeReq.own = "driver"
BY DEF FreeReq, ReqRecord, Owners, None

LEMMA GivenFacts ==
  ASSUME TransferTypes, NEW r \in AllReqs \cup {None}
  PROVE  /\ Given(r) \in [AllReqs -> ReqRecord]
         /\ \A s \in AllReqs : IF s = r /\ s # "fifo" THEN Given(r)[s].own = "driver" ELSE Given(r)[s] = req[s]
BY FreeFacts, ReqFacts DEF Given, TransferTypes, None

(* What a return of the timer's and one of nuke's have in common.          *)
LEMMA GivenStep ==
  ASSUME TransferInv, NEW r \in AllReqs \cup {None}, req' = Given(r),
         UNCHANGED <<ep, data, nuking, late, urb, urbp_list>>,
         nuked' \in [Nukers -> AllReqs \cup {None}], timer' \in FrameRecord,
         r \in AllReqs \ {"fifo"} => req[r].own = "giving",
         \A s \in AllReqs \ {"fifo"} :
           (timer'.then = s \/ NukedBy(s)') <=> s # r /\ (timer.then = s \/ NukedBy(s)),
         GiveApart', timer'.then # None => timer'.pc \in {"stale", "request"},
         \/ timer'.pc = "scan" /\ timer'.at = 1
         \/ timer.pc = "request" /\ timer'.pc = "transfer" /\ timer'.at = timer.at
         \/ timer'.pc = timer.pc /\ timer'.at = timer.at
  PROVE  TransferInv'
<1>1. /\ TransferTypes /\ CursorInv /\ QueueInv /\ GiveInv
  BY DEF TransferInv
<1>2. /\ req' \in [AllReqs -> ReqRecord]
      /\ \A s \in AllReqs : IF s = r /\ s # "fifo" THEN req'[s].own = "driver" ELSE req'[s] = req[s]
  BY <1>1, GivenFacts
<1>3. QueueInv'
  <2>1. \A s \in AllReqs : req'[s].own = "queued" <=> req[s].own = "queued"
    BY <1>2
  <2> QED BY <1>1, <2>1, QueueKept
<1>4. CursorInv'
  <2>1. /\ timer'.pc # "idle" => timer'.at > 0
        /\ timer'.pc \in {"setup", "transfer", "request"} => timer'.at \in DOMAIN urbp_list
        /\ late' # None => "ep0" \in Eps
    BY <1>1 DEF CursorInv
  <2> QED BY <1>1, <2>1, CursorKept DEF TransferTypes
<1>5. TransferTypes'
  BY <1>1, <1>2 DEF TransferTypes
<1>6. GiveInv'
  <2>1. \A s \in AllReqs \ {"fifo"} : req'[s].own = "giving" <=> (timer'.then = s \/ NukedBy(s)')
    BY <1>1, <1>2 DEF GiveInv
  <2>2. \A s \in AllReqs : req'[s].own = "checked" => s \in Reqs /\ req'[s].for \in Eps
    BY <1>1, <1>2 DEF GiveInv
  <2>3. req'["fifo"].own \in {"driver", "queued"}
    BY <1>1, <1>2, ReqFacts DEF GiveInv
  <2> QED BY <2>1, <2>2, <2>3 DEF GiveInv
<1> QED BY <1>3, <1>4, <1>5, <1>6 DEF TransferInv

LEMMA NukeGivenStep ==
  ASSUME TransferInv, NEW k \in Nukers, NukeGiven(k) PROVE TransferInv'
<1>1. /\ TransferTypes /\ GiveInv /\ timer \in FrameRecord /\ nuked \in [Nukers -> AllReqs \cup {None}]
      /\ UNCHANGED <<ep, data, nuking, late, urb, urbp_list, timer>>
      /\ nuked' = [nuked EXCEPT ![k] = None] /\ req' = Given(nuked[k])
  BY DEF TransferInv, TransferTypes, NukeGiven, Host, Port
<1>2. PICK r \in AllReqs \cup {None} : r = nuked[k]
  BY <1>1
<1>3. None \notin AllReqs
  BY ReqFacts
<1>4. /\ nuked' \in [Nukers -> AllReqs \cup {None}] /\ nuked'[k] = None
      /\ \A j \in Nukers \ {k} : nuked'[j] = nuked[j]
  BY <1>1
<1>5. r \in AllReqs \ {"fifo"} => req[r].own = "giving"
  BY <1>1, <1>2 DEF GiveInv, NukedBy
<1>6. \A s \in AllReqs \ {"fifo"} : NukedBy(s)' <=> s # r /\ NukedBy(s)
  BY <1>1, <1>2, <1>3, <1>4 DEF GiveInv, GiveApart, NukedBy
<1>7. r \in AllReqs \ {"fifo"} => timer.then # r
  BY <1>1, <1>2, <1>3 DEF GiveInv, GiveApart
<1>8. GiveApart'
  BY <1>1, <1>4 DEF GiveInv, GiveApart
<1>9. timer'.then # None => timer'.pc \in {"stale", "request"}
  BY <1>1 DEF GiveInv
<1> QED BY <1>1, <1>2, <1>4, <1>5, <1>6, <1>7, <1>8, <1>9, GivenStep

LEMMA GivesStep ==
  ASSUME TransferInv, StaleGiven \/ RequestGiven PROVE TransferInv'
<1>1. /\ TransferTypes /\ GiveInv /\ timer \in FrameRecord /\ timer.then \in AllReqs \cup {None}
      /\ UNCHANGED <<ep, data, nuking, nuked, late, urb, urbp_list>> /\ req' = Given(timer.then)
  BY DEF TransferInv, TransferTypes, FrameRecord, StaleGiven, RequestGiven, Host, Port
<1>2. \/ timer' = [timer EXCEPT !.pc = "scan", !.at = 1, !.then = None]
      \/ timer.pc = "request" /\ timer' = [timer EXCEPT !.pc = "transfer", !.then = None]
  BY DEF StaleGiven, RequestGiven
<1>3. None \notin AllReqs
  BY ReqFacts
<1>4. PICK r \in AllReqs \cup {None} : r = timer.then
  BY <1>1
<1>5. /\ timer' \in FrameRecord /\ timer'.then = None
      /\ \/ timer'.pc = "scan" /\ timer'.at = 1
         \/ timer.pc = "request" /\ timer'.pc = "transfer" /\ timer'.at = timer.at
  <2>1. 1 \in Nat /\ "scan" \in TransferPc /\ "transfer" \in TransferPc
    BY DEF TransferPc
  <2> QED BY <1>1, <1>2, <2>1 DEF FrameRecord
<1>6. r \in AllReqs \ {"fifo"} => req[r].own = "giving"
  BY <1>1, <1>4 DEF GiveInv
<1>7. \A s \in AllReqs : NukedBy(s)' <=> NukedBy(s)
  BY <1>1 DEF NukedBy
<1>8. r \in AllReqs \ {"fifo"} => ~NukedBy(r)
  BY <1>1, <1>3, <1>4 DEF GiveInv, GiveApart, NukedBy
<1>9. GiveApart'
  BY <1>1, <1>5 DEF GiveInv, GiveApart
<1>10. \A s \in AllReqs \ {"fifo"} :
         (timer'.then = s \/ NukedBy(s)') <=> s # r /\ (timer.then = s \/ NukedBy(s))
  BY <1>3, <1>4, <1>5, <1>7, <1>8
<1>11. nuked' \in [Nukers -> AllReqs \cup {None}]
  BY <1>1 DEF TransferTypes
<1> QED BY <1>1, <1>4, <1>5, <1>6, <1>9, <1>10, <1>11, GivenStep

(* A request leaves its queue, to be given back.                           *)
LEMMA TakenFacts ==
  ASSUME TransferTypes, NEW r \in AllReqs
  PROVE  /\ Taken(r) \in [AllReqs -> ReqRecord]
         /\ Taken(r)[r].own = (IF r = "fifo" THEN "driver" ELSE "giving")
         /\ \A s \in AllReqs \ {r} : Taken(r)[s] = req[s]
<1>1. PICK x : x = (IF r = "fifo" THEN FreeReq ELSE [FreeReq EXCEPT !.own = "giving"])
  OBVIOUS
<1>2. x \in ReqRecord /\ x.own = (IF r = "fifo" THEN "driver" ELSE "giving")
  BY <1>1, FreeFacts DEF ReqRecord
<1>3. Taken(r) = [req EXCEPT ![r] = x]
  BY <1>1 DEF Taken
<1> QED BY <1>2, <1>3 DEF TransferTypes

LEMMA FateType ==
  ASSUME NEW d \in Seq(DataRecord), NEW r, NEW status, NEW told
  PROVE  Fate(d, r, status, told) \in Seq(DataRecord)
<1>1. CASE req[r].n = 0
  BY <1>1 DEF Fate
<1>2. CASE req[r].n # 0
  <2> DEFINE n == req[r].n
             v == CASE status \in {"shutdown", "reset"} \/ told -> "cut"
                    [] d[n].fate = "pending" /\ d[n].got = d[n].len -> "whole"
                    [] OTHER -> "lost"
  <2>1. v \in {"cut", "whole", "lost"}
    OBVIOUS
  <2>2. Fate(d, r, status, told) = [d EXCEPT ![n].fate = v]
    BY <1>2 DEF Fate
  <2> HIDE DEF n, v
  <2>3. \A i \in DOMAIN d : d[i] \in DataRecord /\ [d[i] EXCEPT !.fate = v] \in DataRecord
    <3>1. ASSUME NEW x \in DataRecord PROVE [x EXCEPT !.fate = v] \in DataRecord
      <4>1. v \in {"pending", "whole", "cut", "lost"}
        BY <2>1
      <4> QED BY <4>1 DEF DataRecord
    <3> QED BY <3>1
  <2>4. [d EXCEPT ![n].fate = v] = [i \in 1 .. Len(d) |-> IF i = n THEN [d[i] EXCEPT !.fate = v] ELSE d[i]]
    OBVIOUS
  <2>5. ASSUME NEW g, DOMAIN g = 1 .. Len(d), g = [i \in 1 .. Len(d) |-> g[i]],
               \A i \in 1 .. Len(d) : g[i] \in DataRecord
        PROVE  g \in Seq(DataRecord)
    BY <2>5
  <2> QED BY <2>2, <2>3, <2>4, <2>5
<1> QED BY <1>1, <1>2

LEMMA HeadQueue ==
  ASSUME TransferInv, NEW e \in Eps, ep[e].queue # <<>>, NEW r, r = Head(ep[e].queue),
         ep'[e].queue = Tail(ep[e].queue), \A f \in Eps \ {e} : ep'[f].queue = ep[f].queue,
         req' = Taken(r)
  PROVE  /\ QueueInv' /\ r \in AllReqs /\ req[r].own = "queued" /\ req' \in [AllReqs -> ReqRecord]
         /\ ep'[e].queue \in Seq(AllReqs)
<1>1. TransferTypes /\ QueueInv /\ ep[e].queue \in Seq(AllReqs)
  BY QueueTypes DEF TransferInv
<1>2. /\ 1 \in DOMAIN ep[e].queue /\ r = ep[e].queue[1] /\ Tail(ep[e].queue) = Removed(ep[e].queue, 1)
      /\ Tail(ep[e].queue) \in Seq(AllReqs) /\ r \in AllReqs
  BY <1>1, HeadRemoved
<1>3. req[r].own = "queued"
  BY <1>1, <1>2 DEF QueueInv
<1>4. /\ req' \in [AllReqs -> ReqRecord] /\ req'[r].own # "queued"
      /\ \A s \in AllReqs \ {r} : req'[s] = req[s]
  BY <1>1, <1>2, TakenFacts
<1>5. QueueInv'
  BY <1>1, <1>2, <1>4, QueueTake
<1> QED BY <1>2, <1>3, <1>4, <1>5

LEMMA GiveTaken ==
  ASSUME TransferInv, NEW r \in AllReqs, req[r].own = "queued", req' = Taken(r),
         \/ /\ \E k \in Nukers : nuked[k] = None /\ nuked' = [nuked EXCEPT ![k] = r]
            /\ timer'.then = timer.then /\ timer'.pc = timer.pc
         \/ timer.then = None /\ timer'.then = r /\ nuked' = nuked /\ timer'.pc \in {"stale", "request"}
  PROVE  GiveInv'
<1>1. TransferTypes /\ GiveInv
  BY DEF TransferInv
<1>2. /\ req'[r].own = (IF r = "fifo" THEN "driver" ELSE "giving")
      /\ \A s \in AllReqs \ {r} : req'[s] = req[s]
  BY <1>1, TakenFacts
<1>3. r # "fifo" => ~NukedBy(r) /\ timer.then # r
  BY <1>1 DEF GiveInv
<1>4. None \notin AllReqs /\ "fifo" \in AllReqs
  BY ReqFacts
<1>5. /\ \A s \in AllReqs \ {r} : (timer'.then = s \/ NukedBy(s)') <=> (timer.then = s \/ NukedBy(s))
      /\ timer'.then = r \/ NukedBy(r)'
      /\ GiveApart'
  <2>1. ASSUME NEW k \in Nukers, nuked[k] = None, nuked' = [nuked EXCEPT ![k] = r], timer'.then = timer.then
        PROVE  /\ \A s \in AllReqs \ {r} : (timer'.then = s \/ NukedBy(s)') <=> (timer.then = s \/ NukedBy(s))
               /\ timer'.then = r \/ NukedBy(r)'
               /\ GiveApart'
    <3>1. nuked'[k] = r /\ \A j \in Nukers \ {k} : nuked'[j] = nuked[j]
      BY <1>1, <2>1 DEF TransferTypes
    <3>2. \A s \in AllReqs \ {r} : NukedBy(s)' <=> NukedBy(s)
      BY <1>4, <2>1, <3>1 DEF NukedBy
    <3>3. NukedBy(r)'
      BY <3>1 DEF NukedBy
    <3>4. GiveApart'
      BY <1>1, <1>3, <1>4, <2>1, <3>1 DEF GiveInv, GiveApart, NukedBy
    <3> QED BY <2>1, <3>2, <3>3, <3>4
  <2>2. ASSUME timer.then = None, timer'.then = r, nuked' = nuked
        PROVE  /\ \A s \in AllReqs \ {r} : (timer'.then = s \/ NukedBy(s)') <=> (timer.then = s \/ NukedBy(s))
               /\ timer'.then = r \/ NukedBy(r)'
               /\ GiveApart'
    <3>1. \A s \in AllReqs : NukedBy(s)' <=> NukedBy(s)
      BY <2>2 DEF NukedBy
    <3>2. GiveApart'
      BY <1>1, <1>3, <1>4, <2>2 DEF GiveInv, GiveApart, NukedBy
    <3> QED BY <1>4, <2>2, <3>1, <3>2
  <2> QED BY <2>1, <2>2
<1>6. \A s \in AllReqs \ {"fifo"} : req'[s].own = "giving" <=> (timer'.then = s \/ NukedBy(s)')
  BY <1>1, <1>2, <1>5 DEF GiveInv
<1>7. timer'.then # None => timer'.pc \in {"stale", "request"}
  BY <1>1 DEF GiveInv
<1>8. \A s \in AllReqs : req'[s].own = "checked" => s \in Reqs /\ req'[s].for \in Eps
  BY <1>1, <1>2 DEF GiveInv
<1>9. req'["fifo"].own \in {"driver", "queued"}
  BY <1>1, <1>2, <1>4 DEF GiveInv
<1> QED BY <1>5, <1>6, <1>7, <1>8, <1>9 DEF GiveInv

(* The step makes q the queue of e.                                        *)
Requeues(e, q) == ep' = [ep EXCEPT ![e].queue = q]

LEMMA QueueField ==
  ASSUME TransferTypes, NEW e \in Eps, NEW q \in Seq(AllReqs), Requeues(e, q)
  PROVE  /\ ep' \in [Eps -> EpRecord] /\ ep'[e].queue = q /\ \A f \in Eps \ {e} : ep'[f].queue = ep[f].queue
         /\ \A f \in Eps : ep'[f].setup_stage = ep[f].setup_stage
<1>1. \A y \in EpRecord : LET z == [y EXCEPT !.queue = q] IN
        z \in EpRecord /\ z.queue = q /\ z.setup_stage = y.setup_stage
  BY DEF EpRecord
<1>2. ep[e] \in EpRecord /\ ep' = [ep EXCEPT ![e] = [ep[e] EXCEPT !.queue = q]]
  BY DEF TransferTypes, Requeues
<1> QED BY <1>1, <1>2 DEF TransferTypes

(* nuke.                                                                   *)
LEMMA NukeTakeStep ==
  ASSUME TransferInv, NEW k \in Nukers, NEW e \in Eps, NukeTake(k, e) PROVE TransferInv'
<1>1. /\ TransferTypes /\ GiveInv /\ CursorInv /\ nuked[k] = None
      /\ UNCHANGED <<urb, urbp_list, timer, late>>
  BY DEF TransferInv, NukeTake, Host, None
<1>2. (\A f \in Eps : ep'[f].setup_stage = ep[f].setup_stage) => CursorInv'
  BY <1>1 DEF CursorInv
<1>3. CASE ep[e].queue = <<>>
  <2>1. UNCHANGED <<ep, req, data, nuked>> /\ nuking' = [nuking EXCEPT ![k] = nuking[k] \ {e}]
    BY <1>3 DEF NukeTake
  <2>2. TransferTypes'
    BY <1>1, <2>1 DEF TransferTypes
  <2> QED BY <1>1, <1>2, <2>1, <2>2, TransferQuiet DEF GiveInv
<1>4. CASE ep[e].queue # <<>>
  <2>1. PICK r : r = Head(ep[e].queue)
    OBVIOUS
  <2>2. /\ ep' = [ep EXCEPT ![e].queue = Tail(ep[e].queue)] /\ req' = Taken(r) /\ nuked' = [nuked EXCEPT ![k] = r]
        /\ data' = Fate(data, r, "shutdown", FALSE) /\ nuking' = nuking
    BY <1>4, <2>1 DEF NukeTake
  <2>3. Tail(ep[e].queue) \in Seq(AllReqs)
    BY <1>1, <1>4, QueueTypes, HeadRemoved
  <2>4. /\ ep' \in [Eps -> EpRecord] /\ ep'[e].queue = Tail(ep[e].queue)
        /\ \A f \in Eps \ {e} : ep'[f].queue = ep[f].queue
        /\ \A f \in Eps : ep'[f].setup_stage = ep[f].setup_stage
    <3>1. PICK q \in Seq(AllReqs) : q = Tail(ep[e].queue)
      BY <2>3
    <3>2. Requeues(e, q)
      BY <2>2, <3>1 DEF Requeues
    <3> QED BY <1>1, <3>1, <3>2, QueueField
  <2>5. QueueInv' /\ r \in AllReqs /\ req[r].own = "queued" /\ req' \in [AllReqs -> ReqRecord]
    BY <1>4, <2>1, <2>2, <2>4, HeadQueue
  <2>6. GiveInv'
    BY <1>1, <2>2, <2>5, GiveTaken
  <2>7. data' \in Seq(DataRecord)
    BY <1>1, <2>2, FateType DEF TransferTypes
  <2>8. TransferTypes'
    BY <1>1, <2>2, <2>4, <2>5, <2>7 DEF TransferTypes
  <2> QED BY <1>2, <2>4, <2>5, <2>6, <2>8 DEF TransferInv
<1> QED BY <1>3, <1>4

(* dummy_dequeue.                                                          *)
LEMMA DequeueStep ==
  ASSUME TransferInv, NEW e \in Eps, NEW r \in Reqs, Dequeue(e, r) PROVE TransferInv'
<1>1. /\ TransferTypes /\ QueueInv /\ GiveInv /\ CursorInv /\ r \in AllReqs /\ r # "fifo" /\ r # None
      /\ UNCHANGED <<urb, urbp_list, timer, late, nuked, nuking>>
      /\ ep' = [ep EXCEPT ![e].queue = Without(ep[e].queue, r)]
      /\ req' = Given(r) /\ data' = Fate(data, r, "reset", FALSE)
  BY ReqFacts, TransferAssumption DEF TransferInv, Dequeue, Host, TransferConstants
<1>2. PICK i \in DOMAIN ep[e].queue : ep[e].queue[i] = r
  BY DEF Dequeue
<1>3. PICK k \in DOMAIN ep[e].queue : /\ ep[e].queue[k] = r
                                      /\ Without(ep[e].queue, r) = Removed(ep[e].queue, k)
                                      /\ Removed(ep[e].queue, k) \in Seq(AllReqs)
  BY <1>1, <1>2, QueueTypes, WithoutRemoved
<1>4. /\ ep' \in [Eps -> EpRecord] /\ ep'[e].queue = Removed(ep[e].queue, k)
      /\ \A f \in Eps \ {e} : ep'[f].queue = ep[f].queue
      /\ \A f \in Eps : ep'[f].setup_stage = ep[f].setup_stage
  <2>1. PICK q \in Seq(AllReqs) : q = Removed(ep[e].queue, k)
    BY <1>3
  <2>2. Requeues(e, q)
    BY <1>1, <1>3, <2>1 DEF Requeues
  <2> QED BY <1>1, <2>1, <2>2, QueueField
<1>5. /\ req' \in [AllReqs -> ReqRecord] /\ req'[r].own = "driver"
      /\ \A s \in AllReqs \ {r} : req'[s] = req[s]
  BY <1>1, GivenFacts
<1>6. req[r].own = "queued"
  BY <1>1, <1>3 DEF QueueInv
<1>7. QueueInv'
  BY <1>1, <1>3, <1>4, <1>5, QueueTake
<1>8. GiveInv'
  <2>1. ~NukedBy(r) /\ timer.then # r
    BY <1>1, <1>6 DEF GiveInv
  <2>2. "fifo" \in AllReqs \ {r}
    BY <1>1, ReqFacts
  <2>3. GiveApart' /\ \A s \in AllReqs : NukedBy(s)' <=> NukedBy(s)
    BY <1>1 DEF GiveInv, GiveApart, NukedBy
  <2> QED BY <1>1, <1>5, <2>1, <2>2, <2>3 DEF GiveInv
<1>9. TransferTypes'
  BY <1>1, <1>4, <1>5, FateType DEF TransferTypes
<1>10. CursorInv'
  BY <1>1, <1>4 DEF CursorInv
<1> QED BY <1>7, <1>8, <1>9, <1>10 DEF TransferInv

(* A request left from an earlier control transfer is given back.          *)
LEMMA GiveStaleStep ==
  ASSUME TransferInv, GiveStale PROVE TransferInv'
<1>1. /\ TransferTypes /\ CursorInv /\ GiveInv /\ urb \in [Urbs -> HostUrb] /\ timer \in FrameRecord
      /\ Scanning /\ SetupStage /\ ep["ep0"].queue # <<>>
      /\ UNCHANGED <<urbp_list, data, nuking, nuked, late>>
  BY DEF TransferInv, TransferTypes, GiveStale, Fresh, Looked
<1>2. timer.at \in DOMAIN urbp_list /\ timer.then = None /\ timer.pc = "scan"
  BY <1>1, ScanningFacts
<1>3. Cur \in Urbs /\ "ep0" \in Eps
  BY <1>1, <1>2, CurFacts
<1>4. PICK q : q = Tail(ep["ep0"].queue)
  OBVIOUS
<1>5. PICK r : r = Head(ep["ep0"].queue)
  OBVIOUS
<1>6. /\ ep' = [ep EXCEPT !["ep0"].queue = q, !["ep0"].setup_stage = TRUE, !["ep0"].already_seen = FALSE]
      /\ req' = Taken(r) /\ timer' = [timer EXCEPT !.pc = "stale", !.then = r]
      /\ urb' = [urb EXCEPT ![Cur].new = FALSE]
  BY <1>4, <1>5 DEF GiveStale
<1>7. q \in Seq(AllReqs)
  BY <1>1, <1>3, <1>4, QueueTypes, HeadRemoved
<1>8. /\ ep' \in [Eps -> EpRecord] /\ ep'["ep0"].queue = q /\ \A f \in Eps \ {"ep0"} : ep'[f] = ep[f]
  <2>1. \A x \in EpRecord : LET y == [x EXCEPT !.queue = q, !.setup_stage = TRUE, !.already_seen = FALSE]
                            IN  y \in EpRecord /\ y.queue = q
    BY <1>7 DEF EpRecord
  <2>2. ep' = [ep EXCEPT !["ep0"] = [ep["ep0"] EXCEPT !.queue = q, !.setup_stage = TRUE, !.already_seen = FALSE]]
    BY <1>1, <1>3, <1>6 DEF TransferTypes
  <2> QED BY <1>1, <1>3, <2>1, <2>2 DEF TransferTypes
<1>9. QueueInv' /\ r \in AllReqs /\ req[r].own = "queued" /\ req' \in [AllReqs -> ReqRecord]
  BY <1>1, <1>3, <1>4, <1>5, <1>6, <1>8, HeadQueue
<1>10. /\ timer' \in FrameRecord /\ timer'.pc = "stale" /\ timer'.at = timer.at /\ timer'.then = r
  BY <1>1, <1>6, <1>9 DEF FrameRecord, TransferPc
<1>11. GiveInv'
  BY <1>1, <1>2, <1>6, <1>9, <1>10, GiveTaken
<1>12. /\ urb' \in [Urbs -> HostUrb]
       /\ \A v \in Urbs : /\ urb'[v].state = urb[v].state /\ urb'[v].ep = urb[v].ep
                          /\ urb'[v].setup = urb[v].setup /\ (urb'[v].new => urb[v].new)
  <2>1. \A x \in HostUrb : LET y == [x EXCEPT !.new = FALSE] IN
          y \in HostUrb /\ y.state = x.state /\ y.ep = x.ep /\ y.setup = x.setup /\ y.new = FALSE
    BY DEF HostUrb
  <2> QED BY <1>1, <1>3, <1>6, <2>1
<1>13. CursorInv'
  <2>1. timer.at > 0 /\ \A i \in DOMAIN urbp_list : urbp_list[i] \in Urbs
    BY <1>1, <1>2 DEF CursorInv, TransferTypes
  <2>2. \A e \in Eps : ep'[e].setup_stage => ep[e].setup_stage \/ e = "ep0"
    BY <1>8
  <2> QED BY <1>1, <1>3, <1>10, <1>12, <2>1, <2>2, CursorKept
<1>14. TransferTypes'
  BY <1>1, <1>8, <1>9, <1>10, <1>12 DEF TransferTypes
<1> QED BY <1>9, <1>11, <1>13, <1>14 DEF TransferInv

(* A turn of transfer.                                                     *)
Statuses == {None, "ok", "overflow"}

LEMMA ChunkFacts ==
  ASSUME TransferTypes, NEW u \in Urbs, NEW r \in AllReqs, NEW limit \in Int
  PROVE  Chunk(u, r, limit) \in [len : Int, req_status : Statuses, urb_status : Statuses]
<1>1. /\ urb[u].len \in Int /\ urb[u].actual \in Int /\ req[r].len \in Int /\ req[r].actual \in Int
      /\ MaxPacket \in Nat \ {0}
  BY TransferAssumption DEF TransferTypes, TransferConstants, HostUrb, ReqRecord
<1>2. \A a, b \in Int : Less(a, b) \in Int
  BY DEF Less
<1>3. \A a \in Int : a - (a % MaxPacket) \in Int
  BY <1>1
<1>4. PICK host \in Int : host = urb[u].len - urb[u].actual
  BY <1>1
<1>5. PICK dev \in Int : dev = req[r].len - req[r].actual
  BY <1>1
<1>6. PICK some \in Int : some = Less(Less(host, dev), limit)
  BY <1>2
<1>7. (IF some >= MaxPacket THEN some - (some % MaxPacket) ELSE some) \in Int
  BY <1>3
<1> QED BY <1>4, <1>5, <1>6, <1>7 DEF Chunk, Statuses

Grown(n, k) == [data EXCEPT ![n].got = @ + k]

LEMMA GrownType ==
  ASSUME NEW n, NEW k \in Int, TransferTypes
  PROVE  Grown(n, k) \in Seq(DataRecord)
<1>1. \A x \in DataRecord : [x EXCEPT !.got = x.got + k] \in DataRecord
  BY DEF DataRecord
<1>2. data \in Seq(DataRecord)
  BY DEF TransferTypes
<1>3. Grown(n, k)
        = [i \in 1 .. Len(data) |-> IF i = n THEN [data[i] EXCEPT !.got = data[i].got + k] ELSE data[i]]
  BY <1>2 DEF Grown
<1>4. \A i \in 1 .. Len(data) : data[i] \in DataRecord
  BY <1>2
<1>5. ASSUME NEW g, DOMAIN g = 1 .. Len(data), g = [i \in 1 .. Len(data) |-> g[i]],
             \A i \in 1 .. Len(data) : g[i] \in DataRecord
      PROVE  g \in Seq(DataRecord)
  BY <1>2, <1>5
<1> QED BY <1>1, <1>3, <1>4, <1>5

LEMMA MovedFacts ==
  ASSUME TransferTypes, NEW u \in Urbs, NEW c \in [len : Int, req_status : Statuses, urb_status : Statuses],
         NEW took \in SUBSET Owners, urb' = Moved(u, c, took)
  PROVE  /\ urb' \in [Urbs -> HostUrb]
         /\ \A v \in Urbs : /\ urb'[v].state = urb[v].state /\ urb'[v].ep = urb[v].ep
                            /\ urb'[v].setup = urb[v].setup /\ urb'[v].new = urb[v].new
<1>1. urb \in [Urbs -> HostUrb] /\ urb[u] \in HostUrb
  BY DEF TransferTypes
<1>2. PICK cut \in BOOLEAN : cut = (urb[u].cut \/ c.req_status = "overflow")
  OBVIOUS
<1>3. PICK actual \in Int : actual = urb[u].actual + c.len
  BY <1>1 DEF HostUrb
<1>4. PICK all \in SUBSET Owners : all = urb[u].took \cup took
  BY <1>1 DEF HostUrb
<1>5. PICK status \in Statuses : status = c.urb_status
  OBVIOUS
<1>6. urb' = [urb EXCEPT ![u] = [urb[u] EXCEPT !.actual = actual, !.took = all, !.cut = cut, !.status = status]]
  BY <1>1, <1>2, <1>3, <1>4, <1>5 DEF Moved
<1>7. \A x \in HostUrb :
        LET y == [x EXCEPT !.actual = actual, !.took = all, !.cut = cut, !.status = status]
        IN  y \in HostUrb /\ y.state = x.state /\ y.ep = x.ep /\ y.setup = x.setup /\ y.new = x.new
  BY DEF HostUrb, Statuses
<1>8. PICK y : y = [urb[u] EXCEPT !.actual = actual, !.took = all, !.cut = cut, !.status = status]
  OBVIOUS
<1>9. /\ y \in HostUrb /\ y.state = urb[u].state /\ y.ep = urb[u].ep
      /\ y.setup = urb[u].setup /\ y.new = urb[u].new
  BY <1>1, <1>7, <1>8
<1>10. urb' = [urb EXCEPT ![u] = y]
  BY <1>6, <1>8
<1> QED BY <1>1, <1>9, <1>10

LEMMA MovesStep ==
  ASSUME TransferInv, TransferMoves PROVE TransferInv'
<1>1. /\ TransferTypes /\ CursorInv /\ GiveInv /\ QueueInv /\ timer \in FrameRecord /\ timer.limit \in Int
      /\ timer.total \in Int /\ timer.pc = "transfer" /\ ep[CurEp].queue # <<>>
      /\ UNCHANGED <<urbp_list, nuking, nuked, late>>
  BY Zenon DEF TransferInv, TransferTypes, FrameRecord, TransferMoves
<1>2. timer.at \in DOMAIN urbp_list /\ timer.then = None
  BY <1>1 DEF CursorInv, GiveInv
<1>3. Cur \in Urbs /\ CurEp \in Eps
  BY <1>2, CurFacts
<1>4. PICK r : r = Head(ep[CurEp].queue)
  OBVIOUS
<1>5. r \in AllReqs /\ Tail(ep[CurEp].queue) \in Seq(AllReqs)
  BY <1>1, <1>3, <1>4, QueueTypes, HeadRemoved
<1>6. PICK c \in [len : Int, req_status : Statuses, urb_status : Statuses] : c = Chunk(Cur, r, timer.limit)
  BY <1>1, <1>3, <1>5, ChunkFacts
<1>7. PICK took \in SUBSET Owners : took = (IF c.len > 0 THEN {req[r].for} ELSE {})
  <2>1. req[r].for \in Owners
    BY <1>1, <1>5 DEF TransferTypes, ReqRecord
  <2>2. PICK s : s = (IF c.len > 0 THEN {req[r].for} ELSE {})
    OBVIOUS
  <2>3. s \subseteq Owners
    BY <2>1, <2>2
  <2> QED BY <2>2, <2>3
<1>8. PICK k \in Int : k = c.len
  OBVIOUS
<1>9. PICK d \in Seq(DataRecord) : d = (IF req[r].n = 0 THEN data ELSE Grown(req[r].n, k))
  BY <1>1, GrownType DEF TransferTypes
<1>10. /\ urb' = Moved(Cur, c, took)
       /\ IF c.req_status = None
          THEN /\ req' = [req EXCEPT ![r].actual = @ + k] /\ data' = d /\ UNCHANGED ep
               /\ timer' = [timer EXCEPT !.limit = @ - k, !.total = @ - k]
          ELSE /\ ep' = [ep EXCEPT ![CurEp].queue = Tail(@)]
               /\ req' = Taken(r)
               /\ data' = Fate(d, r, c.req_status, c.urb_status = "overflow")
               /\ timer' = [timer EXCEPT !.pc = "request", !.limit = @ - k, !.total = @ - k, !.then = r]
  BY <1>4, <1>6, <1>7, <1>8, <1>9, Zenon DEF TransferMoves, Grown
<1>11. /\ urb' \in [Urbs -> HostUrb]
       /\ \A v \in Urbs : /\ urb'[v].state = urb[v].state /\ urb'[v].ep = urb[v].ep
                          /\ urb'[v].setup = urb[v].setup /\ urb'[v].new = urb[v].new
  BY <1>1, <1>3, <1>10, MovedFacts
<1>12. /\ timer.at > 0 /\ (late' # None => "ep0" \in Eps)
       /\ \A i \in DOMAIN urbp_list : urbp_list[i] \in Urbs
  BY <1>1 DEF CursorInv, TransferTypes
<1>13. CASE c.req_status = None
  <2>1. /\ req' = [req EXCEPT ![r].actual = @ + k] /\ data' = d /\ UNCHANGED ep
        /\ timer' = [timer EXCEPT !.limit = @ - k, !.total = @ - k]
    BY <1>10, <1>13
  <2>2. /\ req' \in [AllReqs -> ReqRecord]
        /\ \A s \in AllReqs : req'[s].own = req[s].own /\ req'[s].for = req[s].for
    <3>1. \A x \in ReqRecord : LET y == [x EXCEPT !.actual = x.actual + k] IN
            y \in ReqRecord /\ y.own = x.own /\ y.for = x.for
      BY DEF ReqRecord
    <3>2. req' = [req EXCEPT ![r] = [req[r] EXCEPT !.actual = req[r].actual + k]]
      BY <1>1, <1>5, <2>1 DEF TransferTypes
    <3> QED BY <1>1, <1>5, <3>1, <3>2 DEF TransferTypes
  <2>3. /\ timer' \in FrameRecord /\ timer'.pc = "transfer" /\ timer'.at = timer.at /\ timer'.then = None
    <3>1. PICK l \in Int : l = timer.limit - k
      BY <1>1
    <3>2. PICK total \in Int : total = timer.total - k
      BY <1>1
    <3>3. timer' = [timer EXCEPT !.limit = l, !.total = total]
      BY <2>1, <3>1, <3>2
    <3> QED BY <1>1, <1>2, <3>3 DEF FrameRecord
  <2>4. CursorInv'
    BY <1>1, <1>2, <1>11, <1>12, <2>1, <2>3, CursorKept
  <2>5. QueueInv'
    BY <1>1, <2>1, <2>2, QueueKept
  <2>6. GiveInv'
    <3>1. GiveApart' /\ \A s \in AllReqs : NukedBy(s)' <=> NukedBy(s)
      BY <1>1, <1>2, <2>3 DEF GiveInv, GiveApart, NukedBy
    <3> QED BY <1>1, <1>2, <2>2, <2>3, <3>1, ReqFacts DEF GiveInv
  <2>7. TransferTypes'
    BY <1>1, <1>11, <2>1, <2>2, <2>3 DEF TransferTypes
  <2> QED BY <2>4, <2>5, <2>6, <2>7 DEF TransferInv
<1>14. CASE c.req_status # None
  <2>1. PICK q \in Seq(AllReqs) : q = Tail(ep[CurEp].queue)
    BY <1>5
  <2>2. /\ Requeues(CurEp, q) /\ req' = Taken(r)
        /\ data' = Fate(d, r, c.req_status, c.urb_status = "overflow")
        /\ timer' = [timer EXCEPT !.pc = "request", !.limit = @ - k, !.total = @ - k, !.then = r]
    BY <1>10, <1>14, <2>1 DEF Requeues
  <2>3. /\ ep' \in [Eps -> EpRecord] /\ ep'[CurEp].queue = q
        /\ \A f \in Eps \ {CurEp} : ep'[f].queue = ep[f].queue
        /\ \A f \in Eps : ep'[f].setup_stage = ep[f].setup_stage
    BY <1>1, <1>3, <2>1, <2>2, QueueField
  <2>4. QueueInv' /\ req[r].own = "queued" /\ req' \in [AllReqs -> ReqRecord]
    BY <1>1, <1>3, <1>4, <2>1, <2>2, <2>3, HeadQueue
  <2>5. /\ timer' \in FrameRecord /\ timer'.pc = "request" /\ timer'.at = timer.at /\ timer'.then = r
    <3>1. PICK l \in Int : l = timer.limit - k
      BY <1>1
    <3>2. PICK total \in Int : total = timer.total - k
      BY <1>1
    <3>3. timer' = [timer EXCEPT !.pc = "request", !.limit = l, !.total = total, !.then = r]
      BY <2>2, <3>1, <3>2
    <3> QED BY <1>1, <1>5, <3>3 DEF FrameRecord, TransferPc
  <2>6. GiveInv'
    BY <1>1, <1>2, <1>5, <2>2, <2>4, <2>5, GiveTaken
  <2>7. data' \in Seq(DataRecord)
    BY <2>2, FateType
  <2>8. CursorInv'
    BY <1>1, <1>2, <1>11, <1>12, <2>3, <2>5, CursorKept
  <2>9. TransferTypes'
    BY <1>1, <1>11, <2>3, <2>4, <2>5, <2>7 DEF TransferTypes
  <2> QED BY <2>4, <2>6, <2>8, <2>9 DEF TransferInv
<1> QED BY <1>13, <1>14

(* dummy_queue.                                                            *)
LEMMA QueuedStep ==
  ASSUME TransferInv, NEW e \in Eps, NEW r \in AllReqs \ {"fifo"}, NEW l \in Int,
         NEW zero \in BOOLEAN, NEW u \in Owners, req[r].own \in {"driver", "checked"},
         Queued(e, r, l, zero, u), nuked' = nuked, timer'.then = timer.then,
         timer'.then # None => timer'.pc \in {"stale", "request"}
  PROVE  /\ QueueInv' /\ GiveInv' /\ ep' \in [Eps -> EpRecord] /\ req' \in [AllReqs -> ReqRecord]
         /\ data' \in Seq(DataRecord) /\ \A f \in Eps : ep'[f].setup_stage = ep[f].setup_stage
<1>1. TransferTypes /\ QueueInv /\ GiveInv /\ "fifo" \in AllReqs /\ Len(data) \in Int
  BY ReqFacts DEF TransferInv, TransferTypes
<1>2. PICK n \in Int : n = (IF e = "in" THEN Len(data) + 1 ELSE 0)
  BY <1>1
<1>3. PICK f \in BOOLEAN : f <=> UsesFifo(e, l)
  OBVIOUS
<1>4. PICK x : x = (IF f THEN "fifo" ELSE r)
  OBVIOUS
<1>5. PICK new : new = [len |-> l, actual |-> 0, zero |-> zero, own |-> "queued", n |-> n, for |-> u]
  OBVIOUS
<1>6. new \in ReqRecord /\ new.own = "queued"
  BY <1>5 DEF ReqRecord
<1>7. /\ req' = IF f THEN [req EXCEPT !["fifo"] = new, ![r] = FreeReq] ELSE [req EXCEPT ![r] = new]
      /\ ep' = [ep EXCEPT ![e].queue = Append(ep[e].queue, x)]
      /\ data' = IF n = 0 THEN data ELSE Append(data, [len |-> l, got |-> 0, fate |-> "pending"])
  BY <1>2, <1>3, <1>4, <1>5 DEF Queued
<1>8. f => req["fifo"].own = "driver"
  BY <1>3 DEF UsesFifo
<1>9. /\ x \in AllReqs /\ req[x].own # "queued"
  BY <1>1, <1>4, <1>8
<1>10. /\ req' \in [AllReqs -> ReqRecord] /\ req'[x].own = "queued"
       /\ x # r => req'[r].own = "driver"
       /\ \A s \in AllReqs \ {x, r} : req'[s] = req[s]
  <2>1. CASE f
    BY <1>1, <1>4, <1>6, <1>7, <2>1, FreeFacts DEF TransferTypes
  <2>2. CASE ~f
    BY <1>1, <1>4, <1>6, <1>7, <2>2 DEF TransferTypes
  <2> QED BY <2>1, <2>2
<1>11. PICK q \in Seq(AllReqs) : q = Append(ep[e].queue, x)
  <2>1. ep[e].queue \in Seq(AllReqs)
    BY <1>1, QueueTypes
  <2>2. \A s \in Seq(AllReqs) : Append(s, x) \in Seq(AllReqs)
    BY <1>9
  <2> QED BY <2>1, <2>2
<1>12. Requeues(e, q)
  BY <1>7, <1>11 DEF Requeues
<1>13. /\ ep' \in [Eps -> EpRecord] /\ ep'[e].queue = q /\ \A g \in Eps \ {e} : ep'[g].queue = ep[g].queue
       /\ \A g \in Eps : ep'[g].setup_stage = ep[g].setup_stage
  BY <1>1, <1>11, <1>12, QueueField
<1>14. QueueInv'
  <2>1. \A s \in AllReqs \ {x} : req'[s].own = "queued" <=> req[s].own = "queued"
    BY <1>10
  <2> QED BY <1>1, <1>9, <1>10, <1>11, <1>13, <2>1, QueuePut
<1>15. GiveInv'
  <2>1. ~NukedBy(r) /\ timer.then # r
    BY <1>1 DEF GiveInv
  <2>0. GiveApart' /\ \A s \in AllReqs : NukedBy(s)' <=> NukedBy(s)
    BY <1>1 DEF GiveInv, GiveApart, NukedBy
  <2>2. \A s \in AllReqs \ {"fifo"} : req'[s].own = "giving" <=> (timer'.then = s \/ NukedBy(s)')
    BY <1>1, <1>4, <1>10, <2>0, <2>1 DEF GiveInv
  <2>3. \A s \in AllReqs : req'[s].own = "checked" => s \in Reqs /\ req'[s].for \in Eps
    BY <1>1, <1>4, <1>10 DEF GiveInv
  <2>4. req'["fifo"].own \in {"driver", "queued"}
    BY <1>1, <1>4, <1>10 DEF GiveInv
  <2> QED BY <1>1, <2>0, <2>2, <2>3, <2>4 DEF GiveInv
<1>16. data' \in Seq(DataRecord)
  <2>1. [len |-> l, got |-> 0, fate |-> "pending"] \in DataRecord
    BY DEF DataRecord
  <2> QED BY <1>1, <1>7, <2>1 DEF TransferTypes
<1> QED BY <1>10, <1>13, <1>14, <1>15, <1>16

LEMMA QueueSteps ==
  ASSUME TransferInv,
         \/ \E e \in Eps, r \in Reqs, l \in ReqLengths : Queue(e, r, l)
         \/ \E r \in Reqs : QueueAdd(r)
         \/ \E l \in ReqLengths \cup {0} : SetupAnswers(l) \/ LateAnswer(l)
  PROVE  TransferInv'
<1>1. /\ TransferTypes /\ CursorInv /\ GiveInv /\ timer \in FrameRecord
      /\ UNCHANGED <<urb, urbp_list, nuked, nuking>>
      /\ late' \in {late, None}
  BY DEF TransferInv, TransferTypes, Queue, QueueAdd, SetupAnswers, LateAnswer, Host, Port, None
<1>2. \A l \in ReqLengths \cup {0} : l \in Int
  BY TransferAssumption DEF TransferConstants
<1>3. /\ Reqs \subseteq AllReqs \ {"fifo"} /\ "ep0_req" \in AllReqs \ {"fifo"}
      /\ None \in Owners /\ Urbs \subseteq Owners
  BY ReqFacts DEF None, Owners
<1>4. /\ timer' \in FrameRecord /\ timer'.at = timer.at /\ timer'.then = timer.then
      /\ timer'.then # None => timer'.pc \in {"stale", "request"}
      /\ timer'.pc = timer.pc \/ (timer'.pc = "transfer" /\ timer.pc = "setup")
  <2>1. CASE timer' = timer
    BY <1>1, <2>1 DEF GiveInv
  <2>2. CASE \E l \in ReqLengths \cup {0} : SetupAnswers(l)
    <3>1. timer' = [timer EXCEPT !.pc = "transfer", !.limit = 64 * 1024] /\ timer.pc = "setup"
      BY <2>2 DEF SetupAnswers
    <3>2. PICK limit \in Int : limit = 64 * 1024
      OBVIOUS
    <3>3. timer' = [timer EXCEPT !.pc = "transfer", !.limit = limit]
      BY <3>1, <3>2
    <3>4. timer' \in FrameRecord /\ timer'.pc = "transfer" /\ timer'.at = timer.at /\ timer'.then = timer.then
      BY <1>1, <3>3 DEF FrameRecord, TransferPc
    <3>5. timer.then = None
      BY <1>1, <3>1 DEF GiveInv
    <3> QED BY <3>1, <3>4, <3>5
  <2> QED BY <2>1, <2>2 DEF Queue, QueueAdd, LateAnswer
<1>5. PICK e \in Eps, r \in AllReqs \ {"fifo"}, l \in Int, zero \in BOOLEAN, u \in Owners :
        Queued(e, r, l, zero, u) /\ req[r].own \in {"driver", "checked"}
  <2>1. ASSUME NEW e \in Eps, NEW r \in Reqs, NEW l \in ReqLengths, Queue(e, r, l)
        PROVE  Queued(e, r, l, FALSE, None) /\ req[r].own \in {"driver", "checked"}
    BY <1>3, <2>1 DEF Queue
  <2>2. ASSUME NEW r \in Reqs, QueueAdd(r)
        PROVE  /\ Queued(req[r].for, r, req[r].len, FALSE, None) /\ req[r].own \in {"driver", "checked"}
               /\ req[r].for \in Eps /\ req[r].len \in Int
    BY <1>1, <1>3, <2>2 DEF QueueAdd, GiveInv, TransferTypes, ReqRecord
  <2>3. ASSUME NEW l \in ReqLengths \cup {0}, SetupAnswers(l)
        PROVE  /\ Queued("ep0", "ep0_req", l, l < urb[Cur].len, Cur) /\ "ep0" \in Eps /\ Cur \in Owners
               /\ req["ep0_req"].own \in {"driver", "checked"}
    <3>1. timer.at \in DOMAIN urbp_list /\ urb[Cur].setup \in ForDriver
      BY <1>1, <2>3 DEF SetupAnswers, CursorInv
    <3>2. Cur \in Urbs /\ "ep0" \in Eps
      BY <3>1, CurFacts DEF ForDriver, None
    <3> QED BY <1>3, <2>3, <3>2 DEF SetupAnswers
  <2>4. ASSUME NEW l \in ReqLengths \cup {0}, LateAnswer(l)
        PROVE  /\ Queued("ep0", "ep0_req", l, FALSE, late) /\ "ep0" \in Eps /\ late \in Owners
               /\ req["ep0_req"].own \in {"driver", "checked"}
    BY <1>1, <1>3, <2>4 DEF LateAnswer, CursorInv, TransferTypes
  <2>5. CASE \E e \in Eps, r \in Reqs, l \in ReqLengths : Queue(e, r, l)
    BY <1>2, <1>3, <2>1, <2>5
  <2>6. CASE \E r \in Reqs : QueueAdd(r)
    BY <1>3, <2>2, <2>6
  <2>7. ASSUME NEW l \in ReqLengths \cup {0}, SetupAnswers(l)
        PROVE  \E e \in Eps, r \in AllReqs \ {"fifo"}, k \in Int, zero \in BOOLEAN, u \in Owners :
                 Queued(e, r, k, zero, u) /\ req[r].own \in {"driver", "checked"}
    <3>1. PICK zero \in BOOLEAN : zero <=> l < urb[Cur].len
      OBVIOUS
    <3>3. zero = (l < urb[Cur].len)
      BY <3>1
    <3>2. Queued("ep0", "ep0_req", l, zero, Cur)
      BY <2>3, <2>7, <3>3
    <3> QED BY <1>2, <1>3, <2>3, <2>7, <3>2
  <2>8. CASE \E l \in ReqLengths \cup {0} : LateAnswer(l)
    BY <1>2, <1>3, <2>4, <2>8
  <2> QED BY <2>5, <2>6, <2>7, <2>8
<1>6. /\ QueueInv' /\ GiveInv' /\ ep' \in [Eps -> EpRecord] /\ req' \in [AllReqs -> ReqRecord]
      /\ data' \in Seq(DataRecord) /\ \A f \in Eps : ep'[f].setup_stage = ep[f].setup_stage
  BY <1>1, <1>4, <1>5, QueuedStep
<1>7. CursorInv'
  <2>1. /\ timer'.pc # "idle" => timer'.at > 0
        /\ timer'.pc \in {"setup", "transfer", "request"} => timer'.at \in DOMAIN urbp_list
        /\ late' # None => "ep0" \in Eps
    BY <1>1, <1>4 DEF CursorInv
  <2>2. urb' \in [Urbs -> HostUrb]
    BY <1>1 DEF TransferTypes
  <2> QED BY <1>1, <1>6, <2>1, <2>2, CursorKept
<1>8. TransferTypes'
  BY <1>1, <1>4, <1>6 DEF TransferTypes
<1> QED BY <1>6, <1>7, <1>8 DEF TransferInv

(* dummy_queue, of which the checks are made before the lock is taken.     *)
LEMMA QueueCheckStep ==
  ASSUME TransferInv, NEW e \in Eps, NEW r \in Reqs, NEW l \in ReqLengths, QueueCheck(e, r, l)
  PROVE  TransferInv'
<1>1. /\ TransferTypes /\ CursorInv /\ GiveInv /\ QueueInv /\ req[r].own = "driver"
      /\ req' = [req EXCEPT ![r] = [FreeReq EXCEPT !.own = "checked", !.len = l, !.for = e]]
      /\ UNCHANGED <<ep, data, nuking, nuked, late, timer, urb, urbp_list>>
  BY DEF TransferInv, QueueCheck, Host, Port
<1>2. r \in AllReqs /\ r # "fifo" /\ "fifo" \in AllReqs
  BY ReqFacts
<1>3. PICK x : x = [FreeReq EXCEPT !.own = "checked", !.len = l, !.for = e]
  OBVIOUS
<1>4. x \in ReqRecord /\ x.own = "checked" /\ x.for = e
  <2>1. l \in Int /\ e \in Owners
    BY TransferAssumption DEF TransferConstants, Owners
  <2> QED BY <1>3, <2>1, FreeFacts DEF ReqRecord
<1>5. /\ req' \in [AllReqs -> ReqRecord] /\ req'[r] = x
      /\ \A s \in AllReqs \ {r} : req'[s] = req[s]
  BY <1>1, <1>2, <1>3, <1>4 DEF TransferTypes
<1>6. QueueInv'
  <2>1. \A s \in AllReqs : req'[s].own = "queued" <=> req[s].own = "queued"
    BY <1>1, <1>4, <1>5
  <2> QED BY <1>1, <2>1, QueueKept
<1>7. GiveInv'
  <2>1. GiveApart' /\ \A s \in AllReqs : NukedBy(s)' <=> NukedBy(s)
    BY <1>1 DEF GiveInv, GiveApart, NukedBy
  <2> QED BY <1>1, <1>2, <1>4, <1>5, <2>1 DEF GiveInv
<1>8. CursorInv'
  BY <1>1 DEF CursorInv
<1>9. TransferTypes'
  BY <1>1, <1>5 DEF TransferTypes
<1> QED BY <1>6, <1>7, <1>8, <1>9 DEF TransferInv

LEMMA TransferStep ==
  ASSUME TransferInv, [Next]_vars PROVE TransferInv'
<1>1. CASE Timer
  <2>1. CASE TimerFires \/ FrameEnds \/ SkipUrb \/ SetupDefers \/ TransferBegins
    BY <2>1, ScanStep
  <2>2. CASE ReturnUnlinked \/ ReturnNoEndpoint \/ ReturnHalted \/ ControlHandled
    BY <2>2, ScanReturnsStep
  <2>3. CASE SetupFails \/ TransferEnds
    BY <2>3, EndsReturnStep
  <2>4. CASE SetupCall \/ UrbGiven
    BY <2>4, CallbackStep
  <2>5. CASE StaleGiven \/ RequestGiven
    BY <2>5, GivesStep
  <2>6. CASE GiveStale
    BY <2>6, GiveStaleStep
  <2>7. CASE TransferMoves
    BY <2>7, MovesStep
  <2>8. CASE \E l \in ReqLengths \cup {0} : SetupAnswers(l)
    BY <2>8, QueueSteps
  <2> QED BY <1>1, <2>1, <2>2, <2>3, <2>4, <2>5, <2>6, <2>7, <2>8 DEF Timer
<1>2. CASE Nuke
  BY <1>2, NukeGivenStep, NukeTakeStep DEF Nuke
<1>3. CASE Disconnect \/ Connect \/ RootHubSuspends \/ RootHubResumes
  BY <1>3, DriverStep
<1>4. ASSUME NEW e \in Eps,
             Enable(e) \/ Disable(e) \/ \E value, wedged \in BOOLEAN : SetHalt(e, value, wedged)
      PROVE  TransferInv'
  BY <1>4, DriverStep
<1>5. ASSUME NEW e \in Eps, NEW r \in Reqs,
             Dequeue(e, r) \/ \E l \in ReqLengths : Queue(e, r, l) \/ QueueCheck(e, r, l)
      PROVE  TransferInv'
  BY <1>5, DequeueStep, QueueSteps, QueueCheckStep
<1>6. ASSUME NEW e \in Eps, NEW u \in Urbs, NEW l \in UrbLengths \cup {0}, NEW s \in Setups \cup {None},
             UrbEnqueue(u, e, l, s)
      PROVE  TransferInv'
  BY <1>6, HostStep
<1>7. CASE \E r \in Reqs : QueueAdd(r)
  BY <1>7, QueueSteps
<1>8. CASE \E l \in ReqLengths \cup {0} : LateAnswer(l)
  BY <1>8, QueueSteps
<1>9. CASE \E u \in Urbs : UrbDequeue(u)
  BY <1>9, HostStep
<1>10. CASE UNCHANGED vars
  BY <1>10 DEF vars, TransferInv, TransferTypes, CursorInv, QueueInv, GiveInv, GiveApart, NukedBy
<1> QED BY <1>1, <1>2, <1>3, <1>4, <1>5, <1>6, <1>7, <1>8, <1>9, <1>10 DEF Next

LEMMA OnceFromInv ==
  ASSUME TransferInv PROVE RequestOnce
<1>1. TransferTypes /\ QueueInv /\ GiveInv
  BY DEF TransferInv
<1>0. DOMAIN ep = Eps /\ DOMAIN req = AllReqs /\ DOMAIN nuked = Nukers
  BY <1>1 DEF TransferTypes
<1>2. ASSUME NEW r \in AllReqs, req[r].own = "queued"
      PROVE  \E p \in QueuedAt(r) : QueuedAt(r) = {p}
  <2>1. PICK e \in Eps : \E i \in DOMAIN ep[e].queue : ep[e].queue[i] = r
    BY <1>1, <1>2 DEF QueueInv
  <2>2. PICK i \in DOMAIN ep[e].queue : ep[e].queue[i] = r
    BY <2>1
  <2>3. \A f \in Eps : \A j \in DOMAIN ep[f].queue : ep[f].queue[j] = r => f = e /\ j = i
    BY <1>1, <2>2 DEF QueueInv
  <2>4. QueuedAt(r) = {<<e, i>>}
    BY <1>0, <2>2, <2>3 DEF QueuedAt
  <2> QED BY <2>4
<1>3. ASSUME NEW r \in AllReqs, req[r].own # "queued" PROVE QueuedAt(r) = {}
  BY <1>0, <1>1, <1>3 DEF QueuedAt, QueueInv
<1>4. /\ \A r \in AllReqs \ {"fifo"} :
           req[r].own = "giving" <=> (timer.then = r \/ \E k \in Nukers : nuked[k] = r)
      /\ \A k \in Nukers : nuked[k] \notin {None, "fifo"} =>
           timer.then # nuked[k] /\ \A j \in Nukers \ {k} : nuked[j] # nuked[k]
  BY <1>1 DEF GiveInv, GiveApart, NukedBy
<1> QED BY <1>0, <1>2, <1>3, <1>4 DEF RequestOnce

(* Whatever endpoints, urbs and requests there are, and whether or not the *)
(* checks of dummy_queue are overtaken: a request is in one queue exactly  *)
(* as long as it is queued, and given back by one callback at a time,      *)
(* though transfer, nuke, dequeue and ep0's stale check all take requests  *)
(* and let go of dum->lock to give them back.                              *)
THEOREM RequestsGivenOnce == Spec => []RequestOnce
<1>1. Init => TransferInv
  BY TransferInit
<1>2. TransferInv /\ [Next]_vars => TransferInv'
  BY TransferStep
<1>3. TransferInv => RequestOnce
  BY OnceFromInv
<1> QED BY <1>1, <1>2, <1>3, PTL DEF Spec

-----------------------------------------------------------------------------
(* Lengths, and the urbs of "out".                                         *)
Sizes ==
  /\ \A r \in AllReqs : 0 <= req[r].actual /\ req[r].actual <= req[r].len
  /\ \A u \in Urbs : 0 <= urb[u].actual /\ urb[u].actual <= urb[u].len
  /\ timer.pc \in {"transfer", "request"} => timer.limit >= 0

OutWhole ==
  \A u \in Urbs : urb[u].ep = "out" /\ urb[u].status = "ok" /\ urb[u].actual < urb[u].len => urb[u].cut

LEMMA ChunkRight ==
  ASSUME TransferTypes, Sizes, NEW u \in Urbs, NEW r \in AllReqs, NEW limit \in Nat,
         ~Blocked(u, r, limit), NEW c, c = Chunk(u, r, limit),
         NEW host \in Nat, host = urb[u].len - urb[u].actual,
         NEW dev \in Nat, dev = req[r].len - req[r].actual
  PROVE  /\ c.len \in Nat /\ c.len <= host /\ c.len <= dev /\ c.len <= limit
         /\ c.req_status # None /\ ToHost(u) => c.req_status = "ok" /\ (c.len = dev \/ c.urb_status = "overflow")
         /\ c.urb_status = "ok" /\ ~ToHost(u) => c.len = host \/ c.req_status = "overflow"
<1>1. PICK least \in Nat : least = Less(host, dev)
  BY DEF Less
<1>2. PICK some \in Nat : some = Less(least, limit)
  BY DEF Less
<1>3. /\ least <= host /\ least <= dev /\ (least = host \/ least = dev) /\ (dev > host => least = host)
      /\ (host > dev => least = dev)
      /\ some <= least /\ some <= limit /\ (some = least \/ some = limit)
  BY <1>1, <1>2 DEF Less
<1>4. MaxPacket \in Nat \ {0}
  BY TransferAssumption DEF TransferConstants
<1>5. PICK full \in BOOLEAN : full <=> some >= MaxPacket
  OBVIOUS
<1>6. PICK len : len = IF full THEN some - (some % MaxPacket) ELSE some
  OBVIOUS
<1>7. len \in Nat /\ len <= some /\ (~full => len = some)
  <2>1. some % MaxPacket \in 0 .. MaxPacket - 1
    BY <1>4
  <2> QED BY <1>4, <1>5, <1>6, <2>1
<1>8. PICK short \in BOOLEAN : short <=> least = 0 \/ ~full
  OBVIOUS
<1>9. short => len = least
  <2>1. ASSUME least > 0, ~full PROVE some = least
    <3>1. ~(limit < MaxPacket /\ limit < least) /\ limit # 0
      BY <1>1, <2>1 DEF Blocked
    <3> QED BY <1>3, <1>4, <1>5, <2>1, <3>1
  <2> QED BY <1>3, <1>4, <1>5, <1>7, <1>8, <2>1
<1>10. /\ c.len = len
       /\ c.req_status = (IF short THEN (IF ~ToHost(u) /\ host > dev THEN "overflow" ELSE "ok")
                          ELSE IF dev = len /\ ~(req[r].zero /\ ToHost(u)) THEN "ok" ELSE None)
       /\ c.urb_status = (IF short THEN (IF ToHost(u) /\ dev > host THEN "overflow" ELSE "ok")
                          ELSE IF host = len /\ (ToHost(u) \/ ~ZeroPacket) THEN "ok" ELSE None)
  BY <1>1, <1>2, <1>5, <1>6, <1>8, Zenon DEF Chunk
<1>11. c.len \in Nat /\ c.len <= host /\ c.len <= dev /\ c.len <= limit
  BY <1>3, <1>7, <1>10
<1>12. c.req_status # None /\ ToHost(u) => c.req_status = "ok" /\ (c.len = dev \/ c.urb_status = "overflow")
  BY <1>3, <1>9, <1>10 DEF None
<1>13. c.urb_status = "ok" /\ ~ToHost(u) => c.len = host \/ c.req_status = "overflow"
  BY <1>3, <1>9, <1>10 DEF None
<1> QED BY <1>11, <1>12, <1>13

(* A turn of transfer, in steps: what the request and the urb were, and    *)
(* how much was moved.                                                     *)
LEMMA MovesFacts ==
  ASSUME TransferInv, Sizes, TransferMoves
  PROVE  /\ timer.pc = "transfer" /\ timer.at \in DOMAIN urbp_list /\ Cur \in Urbs /\ CurEp \in Eps
         /\ \E r \in AllReqs, c \in [len : Nat, req_status : Statuses, urb_status : Statuses] :
              /\ 1 \in DOMAIN ep[CurEp].queue /\ r = ep[CurEp].queue[1] /\ r = Head(ep[CurEp].queue)
              /\ req[r].own = "queued"
              /\ c = Chunk(Cur, r, timer.limit) /\ c.len <= timer.limit
              /\ c.len <= urb[Cur].len - urb[Cur].actual /\ c.len <= req[r].len - req[r].actual
              /\ c.req_status # None /\ ToHost(Cur) =>
                   c.req_status = "ok" /\ (c.len = req[r].len - req[r].actual \/ c.urb_status = "overflow")
              /\ c.urb_status = "ok" /\ ~ToHost(Cur) =>
                   c.len = urb[Cur].len - urb[Cur].actual \/ c.req_status = "overflow"
<1>1. /\ TransferTypes /\ CursorInv /\ QueueInv /\ timer \in FrameRecord /\ timer.limit \in Int
      /\ timer.pc = "transfer" /\ ep[CurEp].queue # <<>>
  BY Zenon DEF TransferInv, TransferTypes, FrameRecord, TransferMoves
<1>2. timer.at \in DOMAIN urbp_list
  BY <1>1 DEF CursorInv
<1>3. Cur \in Urbs /\ CurEp \in Eps
  BY <1>2, CurFacts
<1>4. PICK r : r = Head(ep[CurEp].queue)
  OBVIOUS
<1>5. 1 \in DOMAIN ep[CurEp].queue /\ r = ep[CurEp].queue[1] /\ r \in AllReqs
  BY <1>1, <1>3, <1>4, QueueTypes, HeadRemoved
<1>6. req[r].own = "queued"
  BY <1>1, <1>3, <1>5 DEF QueueInv
<1>7. PICK limit \in Nat : limit = timer.limit
  BY <1>1 DEF Sizes
<1>8. ~Blocked(Cur, r, limit)
  BY <1>4, <1>7, Zenon DEF TransferMoves
<1>9. /\ urb[Cur].len \in Int /\ urb[Cur].actual \in Int /\ req[r].len \in Int /\ req[r].actual \in Int
  BY <1>1, <1>3, <1>5 DEF TransferTypes, HostUrb, ReqRecord
<1>10. PICK host \in Nat : host = urb[Cur].len - urb[Cur].actual
  BY <1>3, <1>9 DEF Sizes
<1>11. PICK dev \in Nat : dev = req[r].len - req[r].actual
  BY <1>5, <1>9 DEF Sizes
<1>12. PICK c \in [len : Int, req_status : Statuses, urb_status : Statuses] : c = Chunk(Cur, r, limit)
  BY <1>1, <1>3, <1>5, ChunkFacts
<1>13. /\ c.len \in Nat /\ c.len <= host /\ c.len <= dev /\ c.len <= limit
       /\ c.req_status # None /\ ToHost(Cur) => c.req_status = "ok" /\ (c.len = dev \/ c.urb_status = "overflow")
       /\ c.urb_status = "ok" /\ ~ToHost(Cur) => c.len = host \/ c.req_status = "overflow"
  BY <1>1, <1>3, <1>5, <1>8, <1>10, <1>11, <1>12, ChunkRight
<1>14. c \in [len : Nat, req_status : Statuses, urb_status : Statuses]
  BY <1>12, <1>13
<1> QED BY <1>1, <1>2, <1>3, <1>4, <1>5, <1>6, <1>7, <1>10, <1>11, <1>12, <1>13, <1>14

(* What a turn of transfer changes.                                        *)
LEMMA MovesEffect ==
  ASSUME TransferInv, TransferInv', TransferMoves, NEW r, r = Head(ep[CurEp].queue), r \in AllReqs,
         NEW c \in [len : Nat, req_status : Statuses, urb_status : Statuses], c = Chunk(Cur, r, timer.limit)
  PROVE  /\ \A v \in Urbs \ {Cur} : urb'[v] = urb[v]
         /\ urb'[Cur].actual = urb[Cur].actual + c.len /\ urb'[Cur].status = c.urb_status
         /\ urb'[Cur].took = urb[Cur].took \cup (IF c.len > 0 THEN {req[r].for} ELSE {})
         /\ urb'[Cur].cut <=> urb[Cur].cut \/ c.req_status = "overflow"
         /\ urb'[Cur].len = urb[Cur].len /\ urb'[Cur].ep = urb[Cur].ep /\ urb'[Cur].new = urb[Cur].new
         /\ \A s \in AllReqs \ {r} : req'[s] = req[s]
         /\ timer'.limit = timer.limit - c.len /\ timer'.total = timer.total - c.len /\ timer'.at = timer.at
         /\ timer'.pc = (IF c.req_status = None THEN "transfer" ELSE "request")
<1>1. /\ TransferTypes /\ CursorInv /\ timer \in FrameRecord /\ timer.pc = "transfer" /\ urb \in [Urbs -> HostUrb]
      /\ req \in [AllReqs -> ReqRecord]
  BY Zenon DEF TransferInv, TransferTypes, TransferMoves
<1>2. Cur \in Urbs
  BY <1>1, CurFacts DEF CursorInv
<1>3. PICK took : took = (IF c.len > 0 THEN {req[r].for} ELSE {})
  OBVIOUS
<1>4. /\ urb' = Moved(Cur, c, took)
      /\ IF c.req_status = None
         THEN /\ req' = [req EXCEPT ![r].actual = @ + c.len]
              /\ timer' = [timer EXCEPT !.limit = @ - c.len, !.total = @ - c.len]
         ELSE /\ req' = Taken(r)
              /\ timer' = [timer EXCEPT !.pc = "request", !.limit = @ - c.len, !.total = @ - c.len, !.then = r]
  BY <1>3, Zenon DEF TransferMoves
<1>5. PICK x \in HostUrb : x = urb[Cur]
  BY <1>1, <1>2
<1>6. PICK cut : cut = (x.cut \/ c.req_status = "overflow")
  OBVIOUS
<1>7. PICK y : y = [x EXCEPT !.actual = x.actual + c.len, !.took = x.took \cup took, !.cut = cut, !.status = c.urb_status]
  OBVIOUS
<1>8. urb' = [urb EXCEPT ![Cur] = y]
  BY <1>1, <1>2, <1>4, <1>5, <1>6, <1>7, Zenon DEF Moved
<1>9. /\ y.actual = x.actual + c.len /\ y.took = x.took \cup took /\ y.cut = cut /\ y.status = c.urb_status
      /\ y.len = x.len /\ y.ep = x.ep /\ y.new = x.new
  BY <1>7 DEF HostUrb
<1>10. urb'[Cur] = y /\ \A v \in Urbs \ {Cur} : urb'[v] = urb[v]
  BY <1>1, <1>2, <1>8
<1>11. \A s \in AllReqs \ {r} : req'[s] = req[s]
  BY <1>1, <1>4, TakenFacts
<1>12. /\ timer'.limit = timer.limit - c.len /\ timer'.total = timer.total - c.len /\ timer'.at = timer.at
       /\ timer'.pc = (IF c.req_status = None THEN "transfer" ELSE "request")
  BY <1>1, <1>4 DEF FrameRecord
<1>13. urb'[Cur].cut <=> urb[Cur].cut \/ c.req_status = "overflow"
  BY <1>5, <1>6, <1>9, <1>10
<1> QED BY <1>3, <1>5, <1>9, <1>10, <1>11, <1>12, <1>13

(* What the other steps do to requests: they start anew.                   *)
Anew ==
  \A r \in AllReqs : \/ req'[r] = req[r]
                     \/ /\ req'[r].actual = 0 /\ req'[r].len \in Nat
                        /\ req'[r].own = "checked" => req'[r].for # "ep0"

LEMMA ReqEffect ==
  ASSUME TransferInv, Sizes, [Next]_vars
  PROVE  TransferMoves \/ Anew
<1>0. /\ TransferTypes /\ req \in [AllReqs -> ReqRecord] /\ \A l \in ReqLengths \cup {0} : l \in Nat
      /\ Reqs \subseteq AllReqs /\ \A r \in AllReqs : req[r].len \in Nat
  <2>1. TransferTypes /\ req \in [AllReqs -> ReqRecord]
    BY DEF TransferInv, TransferTypes
  <2>2. \A l \in ReqLengths \cup {0} : l \in Nat
    BY TransferAssumption DEF TransferConstants
  <2>3. \A r \in AllReqs : req[r].len \in Nat
    BY <2>1 DEF Sizes, ReqRecord
  <2> QED BY <2>1, <2>2, <2>3, ReqFacts
<1>1. ASSUME UNCHANGED req PROVE Anew
  BY <1>1 DEF Anew
<1>2. ASSUME NEW x, req' = Given(x) PROVE Anew
  BY <1>0, <1>2 DEF Given, FreeReq, Anew
<1>3. ASSUME NEW x, req' = Taken(x) PROVE Anew
  BY <1>0, <1>3 DEF Taken, FreeReq, Anew
<1>4. ASSUME NEW e, NEW x \in AllReqs, NEW l \in Nat, NEW zero, NEW u, Queued(e, x, l, zero, u) PROVE Anew
  <2>1. PICK n : n = (IF e = "in" THEN Len(data) + 1 ELSE 0)
    OBVIOUS
  <2>2. PICK new : new = [len |-> l, actual |-> 0, zero |-> zero, own |-> "queued", n |-> n, for |-> u]
    OBVIOUS
  <2>3. req' = (IF UsesFifo(e, l) THEN [req EXCEPT !["fifo"] = new, ![x] = FreeReq] ELSE [req EXCEPT ![x] = new])
    BY <1>4, <2>1, <2>2 DEF Queued
  <2>4. /\ new.actual = 0 /\ new.len \in Nat /\ FreeReq.actual = 0 /\ FreeReq.len \in Nat
        /\ new.own = "queued" /\ FreeReq.own = "driver"
    BY <2>2 DEF FreeReq
  <2> QED BY <1>0, <2>3, <2>4 DEF Anew
<1>5. ASSUME NEW e, e # "ep0", NEW x \in AllReqs, NEW l \in Nat,
             req' = [req EXCEPT ![x] = [FreeReq EXCEPT !.own = "checked", !.len = l, !.for = e]]
      PROVE Anew
  BY <1>0, <1>5 DEF FreeReq, Anew
<1>6. CASE UNCHANGED vars
  BY <1>1, <1>6 DEF vars
<1>7. CASE Timer
  <2>1. CASE \/ TimerFires \/ FrameEnds \/ SkipUrb \/ ReturnUnlinked \/ ReturnNoEndpoint \/ ReturnHalted
             \/ ControlHandled \/ SetupCall \/ SetupFails \/ SetupDefers \/ TransferBegins \/ TransferEnds \/ UrbGiven
    BY <1>1, <2>1 DEF TimerFires, FrameEnds, SkipUrb, ReturnUnlinked, ReturnNoEndpoint, ReturnHalted, ControlHandled,
         SetupCall, SetupFails, SetupDefers, TransferBegins, TransferEnds, UrbGiven, GadgetSide
  <2>2. CASE GiveStale
    BY <1>3, <2>2 DEF GiveStale
  <2>3. CASE StaleGiven \/ RequestGiven
    BY <1>2, <2>3 DEF StaleGiven, RequestGiven
  <2>4. CASE \E l \in ReqLengths \cup {0} : SetupAnswers(l)
    BY <1>0, <1>4, <2>4, ReqFacts DEF SetupAnswers
  <2> QED BY <1>7, <2>1, <2>2, <2>3, <2>4 DEF Timer
<1>8. CASE Nuke
  BY <1>1, <1>2, <1>3, <1>8 DEF Nuke, NukeGiven, NukeTake
<1>9. CASE Disconnect \/ Connect \/ RootHubSuspends \/ RootHubResumes \/ \E u \in Urbs : UrbDequeue(u)
  BY <1>1, <1>9 DEF Disconnect, Connect, RootHubSuspends, RootHubResumes, UrbDequeue, GadgetSide
<1>10. ASSUME NEW e \in Eps,
              Enable(e) \/ Disable(e) \/ \E value, wedged \in BOOLEAN : SetHalt(e, value, wedged)
       PROVE  Anew
  BY <1>1, <1>10 DEF Enable, Disable, SetHalt
<1>11. ASSUME NEW e \in Eps, NEW r \in Reqs,
              Dequeue(e, r) \/ \E l \in ReqLengths : Queue(e, r, l) \/ QueueCheck(e, r, l)
       PROVE  Anew
  BY <1>0, <1>2, <1>4, <1>5, <1>11, Zenon DEF Dequeue, Queue, QueueCheck
<1>12. ASSUME NEW e \in Eps, NEW u \in Urbs, NEW l \in UrbLengths \cup {0}, NEW s \in Setups \cup {None},
              UrbEnqueue(u, e, l, s)
       PROVE  Anew
  BY <1>1, <1>12 DEF UrbEnqueue, GadgetSide
<1>13. CASE \E r \in Reqs : QueueAdd(r)
  BY <1>0, <1>4, <1>13 DEF QueueAdd
<1>14. CASE \E l \in ReqLengths \cup {0} : LateAnswer(l)
  BY <1>0, <1>4, <1>14, ReqFacts DEF LateAnswer
<1> QED BY <1>6, <1>7, <1>8, <1>9, <1>10, <1>11, <1>12, <1>13, <1>14 DEF Next

(* And to urbs: one is new, free again, unlinked, or returned.             *)
SameUrb(u) ==
  /\ urb'[u].len = urb[u].len /\ urb'[u].actual = urb[u].actual /\ urb'[u].ep = urb[u].ep
  /\ urb'[u].cut = urb[u].cut /\ urb'[u].took = urb[u].took /\ (urb'[u].new => urb[u].new)
  /\ urb'[u].status = urb[u].status \/ (urb'[u].status = "ok" => urb[u].ep # "out")

SameUrbs ==
  \A u \in Urbs : SameUrb(u) \/ (urb'[u].actual = 0 /\ urb'[u].len \in Nat
                                /\ urb'[u].status = None /\ urb'[u].took = {})

LEMMA UrbEffect ==
  ASSUME TransferInv, TransferInv', [Next]_vars
  PROVE  TransferMoves \/ SameUrbs
<1>0. /\ TransferTypes /\ urb \in [Urbs -> HostUrb] /\ CursorInv
  BY DEF TransferInv, TransferTypes
<1>1. ASSUME UNCHANGED urb PROVE SameUrbs
  BY <1>1 DEF SameUrb, SameUrbs
<1>2. ASSUME NEW u, urb' = [urb EXCEPT ![u].new = FALSE] \/ urb' = [urb EXCEPT ![u].unlinked = TRUE]
      PROVE  SameUrbs
  <2>1. \A x \in HostUrb : LET y == [x EXCEPT !.new = FALSE] z == [x EXCEPT !.unlinked = TRUE] IN
          /\ y.len = x.len /\ y.actual = x.actual /\ y.ep = x.ep /\ y.cut = x.cut /\ y.took = x.took
          /\ y.new = FALSE /\ y.status = x.status
          /\ z.len = x.len /\ z.actual = x.actual /\ z.ep = x.ep /\ z.cut = x.cut /\ z.took = x.took
          /\ z.new = x.new /\ z.status = x.status
    BY DEF HostUrb
  <2>2. \A v \in Urbs : \/ urb'[v] = urb[v]
                      \/ urb'[v] = [urb[v] EXCEPT !.new = FALSE] \/ urb'[v] = [urb[v] EXCEPT !.unlinked = TRUE]
    BY <1>0, <1>2
  <2> SUFFICES ASSUME NEW v \in Urbs PROVE SameUrb(v)
    BY DEF SameUrbs
  <2>3. PICK x \in HostUrb : x = urb[v]
    BY <1>0
  <2>4. PICK y \in {x, [x EXCEPT !.new = FALSE], [x EXCEPT !.unlinked = TRUE]} : y = urb'[v]
    BY <2>2, <2>3
  <2>5. /\ y.len = x.len /\ y.actual = x.actual /\ y.ep = x.ep /\ y.cut = x.cut /\ y.took = x.took
        /\ (y.new => x.new) /\ y.status = x.status
    BY <2>1, Zenon
  <2> QED BY <2>3, <2>4, <2>5 DEF SameUrb
<1>3. ASSUME NEW u \in Urbs, NEW status, status = urb[u].status \/ status # "ok" \/ urb[u].ep # "out",
             urb' = [urb EXCEPT ![u].state = "giving", ![u].status = status, ![u].new = FALSE]
      PROVE  SameUrbs
  <2>1. PICK x \in HostUrb : x = urb[u]
    BY <1>0
  <2>2. PICK y : y = [x EXCEPT !.state = "giving", !.status = status, !.new = FALSE]
    OBVIOUS
  <2>3. urb' = [urb EXCEPT ![u] = y]
    BY <1>0, <1>3, <2>1, <2>2
  <2>4. /\ y.len = x.len /\ y.actual = x.actual /\ y.ep = x.ep /\ y.cut = x.cut /\ y.took = x.took
        /\ y.new = FALSE /\ y.status = status
    BY <2>2 DEF HostUrb
  <2>5. urb'[u] = y /\ \A v \in Urbs \ {u} : urb'[v] = urb[v]
    BY <1>0, <2>3
  <2>6. \A v \in Urbs \ {u} : SameUrb(v)
    BY <2>5 DEF SameUrb
  <2>7. SameUrb(u)
    BY <1>3, <2>1, <2>4, <2>5 DEF SameUrb
  <2> QED BY <2>6, <2>7 DEF SameUrbs
<1>4. CASE UNCHANGED vars
  BY <1>1, <1>4 DEF vars
<1>5. CASE Timer
  <2>1. CASE TimerFires \/ FrameEnds \/ SkipUrb \/ StaleGiven \/ SetupDefers \/ TransferBegins \/ RequestGiven
             \/ \E l \in ReqLengths \cup {0} : SetupAnswers(l)
    BY <1>1, <2>1 DEF TimerFires, FrameEnds, SkipUrb, StaleGiven, SetupDefers, TransferBegins, RequestGiven,
         SetupAnswers, Host
  <2>2. CASE ReturnUnlinked \/ ReturnNoEndpoint \/ ReturnHalted \/ SetupFails
    <3>1. Scanning \/ timer.pc = "setup"
      BY <2>2 DEF ReturnUnlinked, ReturnNoEndpoint, ReturnHalted, SetupFails, Fresh, Looked
    <3>2. Cur \in Urbs
      BY <1>0, <3>1, ScanningFacts, CurFacts DEF CursorInv
    <3>3. "unlinked" # "ok" /\ "proto" # "ok" /\ "pipe" # "ok"
      OBVIOUS
    <3> QED BY <1>3, <2>2, <3>2, <3>3, Zenon DEF ReturnUnlinked, ReturnNoEndpoint, ReturnHalted, SetupFails, Return
  <2>3. CASE GiveStale \/ SetupCall
    BY <1>2, <2>3 DEF GiveStale, SetupCall
  <2>4. CASE ControlHandled
    <3>1. Scanning /\ urb[Cur].setup # None
      BY <2>4 DEF ControlHandled, SetupReady, Fresh, Looked, None
    <3>2. Cur \in Urbs /\ urb[Cur].ep = "ep0" /\ urb[Cur].ep # "out"
      BY <3>1, ScanningFacts, CurFacts DEF CurEp
    <3> QED BY <1>3, <2>4, <3>2 DEF ControlHandled, Return
  <2>5. CASE TransferEnds
    <3>1. Cur \in Urbs
      BY <1>0, <2>5, CurFacts DEF CursorInv, TransferEnds
    <3> QED BY <1>1, <1>3, <2>5, <3>1, Zenon DEF TransferEnds, Return
  <2>6. CASE UrbGiven
    <3>1. /\ urb' = [u \in Urbs |-> IF urb[u].state = "giving" THEN FreeUrb ELSE urb[u]]
      BY <2>6 DEF UrbGiven
    <3>2. FreeUrb.actual = 0 /\ FreeUrb.len \in Nat /\ FreeUrb.status = None /\ FreeUrb.took = {}
      BY DEF FreeUrb, None
    <3> QED BY <3>1, <3>2 DEF SameUrbs, SameUrb
  <2> QED BY <1>5, <2>1, <2>2, <2>3, <2>4, <2>5, <2>6 DEF Timer
<1>6. CASE Nuke \/ Disconnect \/ Connect \/ RootHubSuspends \/ RootHubResumes
  BY <1>1, <1>6 DEF Nuke, NukeGiven, NukeTake, Disconnect, Connect, RootHubSuspends, RootHubResumes, Host
<1>7. CASE \E u \in Urbs : UrbDequeue(u)
  BY <1>2, <1>7 DEF UrbDequeue
<1>8. ASSUME NEW e \in Eps,
             Enable(e) \/ Disable(e) \/ \E value, wedged \in BOOLEAN : SetHalt(e, value, wedged)
      PROVE  SameUrbs
  BY <1>1, <1>8 DEF Enable, Disable, SetHalt, Host
<1>9. ASSUME NEW e \in Eps, NEW r \in Reqs,
             Dequeue(e, r) \/ \E l \in ReqLengths : Queue(e, r, l) \/ QueueCheck(e, r, l)
      PROVE  SameUrbs
  BY <1>1, <1>9, Zenon DEF Dequeue, Queue, QueueCheck, Host
<1>10. ASSUME NEW e \in Eps, NEW u \in Urbs, NEW l \in UrbLengths \cup {0}, NEW s \in Setups \cup {None},
              UrbEnqueue(u, e, l, s)
       PROVE  SameUrbs
  <2>1. urb' = [urb EXCEPT ![u] = NewUrb(e, l, s)]
    BY <1>10 DEF UrbEnqueue
  <2>2. PICK x : x = NewUrb(e, l, s)
    OBVIOUS
  <2>3. x.actual = 0 /\ x.len = l /\ x.status = None /\ x.took = {}
    BY <2>2 DEF NewUrb, FreeUrb, None
  <2>4. l \in Nat
    BY TransferAssumption DEF TransferConstants
  <2> QED BY <1>0, <2>1, <2>2, <2>3, <2>4 DEF SameUrbs, SameUrb
<1>11. CASE (\E r \in Reqs : QueueAdd(r)) \/ (\E l \in ReqLengths \cup {0} : LateAnswer(l))
  BY <1>1, <1>11 DEF QueueAdd, LateAnswer, Host
<1> QED BY <1>4, <1>5, <1>6, <1>7, <1>8, <1>9, <1>10, <1>11 DEF Next

(* The limit of a transfer is set when it begins.                          *)
LEMMA LimitEffect ==
  ASSUME TransferInv, TransferInv', [Next]_vars, timer'.pc \in {"transfer", "request"}, ~TransferMoves
  PROVE  timer'.limit >= 0 \/ (timer'.limit = timer.limit /\ timer.pc \in {"transfer", "request"})
<1>0. /\ TransferTypes /\ timer \in FrameRecord /\ timer.total \in Int
  BY DEF TransferInv, TransferTypes, FrameRecord
<1>1. CASE UNCHANGED timer
  BY <1>1
<1>2. CASE Timer
  <2>1. CASE \/ TimerFires \/ FrameEnds \/ SkipUrb \/ ReturnUnlinked \/ ReturnNoEndpoint \/ ReturnHalted
             \/ ControlHandled \/ SetupCall \/ SetupFails \/ StaleGiven \/ GiveStale \/ TransferEnds \/ UrbGiven
    <3>1. CASE SkipUrb
      <4>1. timer.pc = "scan" /\ timer' = [timer EXCEPT !.at = timer.at + 1]
        BY <3>1 DEF SkipUrb, Scanning
      <4> QED BY <1>0, <4>1 DEF FrameRecord
    <3>2. CASE TimerFires \/ FrameEnds
      <4>1. \/ timer' = timer \/ timer' = Idle
            \/ timer' = [Idle EXCEPT !.pc = "scan", !.at = 1, !.total = Total]
        BY <3>2 DEF TimerFires, FrameEnds
      <4>2. Idle.pc = "idle" /\ [Idle EXCEPT !.pc = "scan", !.at = 1, !.total = Total].pc = "scan"
        BY DEF Idle
      <4> QED BY <1>1, <4>1, <4>2
    <3>3. CASE ReturnUnlinked \/ ReturnNoEndpoint \/ ReturnHalted \/ ControlHandled \/ SetupFails
      <4>1. timer' = [timer EXCEPT !.pc = "urb", !.at = 1, !.limit = 0]
        BY <3>3 DEF ReturnUnlinked, ReturnNoEndpoint, ReturnHalted, ControlHandled, SetupFails, Return
      <4> QED BY <1>0, <4>1 DEF FrameRecord
    <3>4. CASE TransferEnds
      <4>1. \/ timer' = [timer EXCEPT !.pc = "urb", !.at = 1, !.limit = 0]
            \/ timer' = [timer EXCEPT !.pc = "scan", !.at = timer.at + 1, !.limit = 0]
        BY <3>4 DEF TransferEnds, Return
      <4> QED BY <1>0, <4>1 DEF FrameRecord
    <3>5. CASE SetupCall \/ StaleGiven \/ UrbGiven
      <4>1. \/ timer' = [timer EXCEPT !.pc = "setup"]
            \/ timer' = [timer EXCEPT !.pc = "scan", !.at = 1, !.then = None]
            \/ timer' = [timer EXCEPT !.pc = "scan", !.then = None]
        BY <3>5 DEF SetupCall, StaleGiven, UrbGiven
      <4> QED BY <1>0, <4>1 DEF FrameRecord
    <3>6. CASE GiveStale
      <4>1. timer' = [timer EXCEPT !.pc = "stale", !.then = Head(ep["ep0"].queue)]
        BY <3>6 DEF GiveStale
      <4> QED BY <1>0, <4>1 DEF FrameRecord
    <3> QED BY <2>1, <3>1, <3>2, <3>3, <3>4, <3>5, <3>6
  <2>2. CASE SetupDefers \/ \E l \in ReqLengths \cup {0} : SetupAnswers(l)
    <3>1. timer' = [timer EXCEPT !.pc = "transfer", !.limit = 64 * 1024]
      BY <2>2 DEF SetupDefers, SetupAnswers
    <3>2. PICK n \in Int : n = 64 * 1024 /\ n >= 0
      OBVIOUS
    <3>3. timer' = [timer EXCEPT !.pc = "transfer", !.limit = n]
      BY <3>1, <3>2
    <3>4. timer'.limit = n
      BY <1>0, <3>3 DEF FrameRecord
    <3> QED BY <3>2, <3>4
  <2>3. CASE TransferBegins
    <3>1. timer' = [timer EXCEPT !.pc = "transfer", !.limit = Limit(CurEp)] /\ timer.total > 0
      BY <2>3 DEF TransferBegins, Fresh, Looked
    <3>2. Limit(CurEp) >= 0
      BY <1>0, <3>1, TransferAssumption DEF Limit, PeriodicBytes, TransferConstants
    <3> QED BY <1>0, <3>1, <3>2 DEF FrameRecord
  <2>4. CASE RequestGiven
    <3>1. timer' = [timer EXCEPT !.pc = "transfer", !.then = None] /\ timer.pc = "request"
      BY <2>4 DEF RequestGiven
    <3> QED BY <1>0, <3>1 DEF FrameRecord
  <2> QED BY <1>2, <2>1, <2>2, <2>3, <2>4 DEF Timer
<1>3. CASE ~Timer
  BY <1>1, <1>3, Zenon
  DEF Next, Nuke, NukeGiven, NukeTake, Disconnect, Connect, RootHubSuspends, RootHubResumes, Enable,
     Disable, SetHalt, Dequeue, Queue, QueueCheck, UrbEnqueue, QueueAdd, LateAnswer, UrbDequeue, vars
<1> QED BY <1>2, <1>3

LEMMA SizesStep ==
  ASSUME TransferInv, TransferInv', Sizes, [Next]_vars PROVE Sizes' /\ (OutWhole => OutWhole')
<1>0. /\ \A r \in AllReqs : req[r].len \in Int /\ req[r].actual \in Int /\ req'[r].len \in Int /\ req'[r].actual \in Int
      /\ \A u \in Urbs : urb[u].len \in Int /\ urb[u].actual \in Int /\ urb'[u].len \in Int /\ urb'[u].actual \in Int
      /\ \A u \in Urbs : urb[u].cut \in BOOLEAN /\ urb'[u].cut \in BOOLEAN
  BY DEF TransferInv, TransferTypes, ReqRecord, HostUrb
<1>1. CASE TransferMoves
  <2>1. Cur \in Urbs /\ timer.limit \in Int
    BY <1>1, MovesFacts DEF TransferInv, TransferTypes, FrameRecord
  <2>2. PICK r \in AllReqs, c \in [len : Nat, req_status : Statuses, urb_status : Statuses] :
              /\ r = Head(ep[CurEp].queue)
              /\ c = Chunk(Cur, r, timer.limit) /\ c.len <= timer.limit
              /\ c.len <= urb[Cur].len - urb[Cur].actual /\ c.len <= req[r].len - req[r].actual
              /\ c.urb_status = "ok" /\ ~ToHost(Cur) =>
                   c.len = urb[Cur].len - urb[Cur].actual \/ c.req_status = "overflow"
    BY <1>1, MovesFacts
  <2>3. /\ \A v \in Urbs \ {Cur} : urb'[v] = urb[v]
        /\ urb'[Cur].actual = urb[Cur].actual + c.len /\ urb'[Cur].status = c.urb_status
        /\ urb'[Cur].cut <=> urb[Cur].cut \/ c.req_status = "overflow"
        /\ urb'[Cur].len = urb[Cur].len /\ urb'[Cur].ep = urb[Cur].ep
        /\ \A s \in AllReqs \ {r} : req'[s] = req[s]
        /\ timer'.limit = timer.limit - c.len
    BY <1>1, <2>2, MovesEffect
  <2>4. 0 <= req'[r].actual /\ req'[r].actual <= req'[r].len
    <3>1. CASE c.req_status = None
      <4>1. PICK k \in Nat : k = c.len
        OBVIOUS
      <4>2. req' = [req EXCEPT ![r].actual = req[r].actual + k]
        BY <1>1, <2>2, <3>1, <4>1, Zenon DEF TransferMoves
      <4>3. req[r] \in ReqRecord /\ req' = [req EXCEPT ![r] = [req[r] EXCEPT !.actual = req[r].actual + k]]
            /\ req \in [AllReqs -> ReqRecord]
        BY <4>2 DEF TransferInv, TransferTypes
      <4>4. req'[r].actual = req[r].actual + k /\ req'[r].len = req[r].len
        BY <4>3 DEF ReqRecord
      <4> QED BY <1>0, <2>2, <4>1, <4>4 DEF Sizes
    <3>2. CASE c.req_status # None
      <4>1. req' = Taken(r) /\ req \in [AllReqs -> ReqRecord]
        BY <1>1, <2>2, <3>2, Zenon DEF TransferMoves, TransferInv, TransferTypes
      <4> QED BY <4>1 DEF Taken, FreeReq
    <3> QED BY <3>1, <3>2
  <2>5. Sizes'
    <3>1. \A s \in AllReqs : 0 <= req'[s].actual /\ req'[s].actual <= req'[s].len
      BY <2>3, <2>4 DEF Sizes
    <3>2. 0 <= urb'[Cur].actual /\ urb'[Cur].actual <= urb'[Cur].len
      BY <1>0, <2>1, <2>2, <2>3 DEF Sizes
    <3>3. timer'.limit >= 0
      BY <2>1, <2>2, <2>3
    <3> QED BY <2>3, <3>1, <3>2, <3>3 DEF Sizes
  <2>6. OutWhole => OutWhole'
    <3>1. urb'[Cur].ep = "out" /\ urb'[Cur].status = "ok" /\ urb'[Cur].actual < urb'[Cur].len => urb'[Cur].cut
      <4>1. urb[Cur].ep = "out" => ~ToHost(Cur)
        BY DEF ToHost
      <4> QED BY <1>0, <2>1, <2>2, <2>3, <4>1
    <3> QED BY <2>3, <3>1 DEF OutWhole
  <2> QED BY <2>5, <2>6
<1>2. CASE ~TransferMoves
  <2>1. Anew /\ SameUrbs
    BY <1>2, ReqEffect, UrbEffect
  <2>2. \A s \in AllReqs : 0 <= req'[s].actual /\ req'[s].actual <= req'[s].len
    BY <2>1 DEF Anew, Sizes
  <2>3. \A u \in Urbs : 0 <= urb'[u].actual /\ urb'[u].actual <= urb'[u].len
    BY <2>1 DEF SameUrbs, SameUrb, Sizes
  <2>4. timer'.pc \in {"transfer", "request"} => timer'.limit >= 0
    BY <1>2, LimitEffect DEF Sizes
  <2>5. OutWhole => OutWhole'
    BY <2>1 DEF SameUrbs, SameUrb, OutWhole, None
  <2> QED BY <2>2, <2>3, <2>4, <2>5 DEF Sizes
<1> QED BY <1>1, <1>2

-----------------------------------------------------------------------------
(* The reports of "in".  The data of what is queued there is what is       *)
(* pending; it is queued in the order in which it was given (Report), and  *)
(* what is pending is queued (NoneLost).                                   *)
Report ==
  /\ \A r \in AllReqs : req[r].n # 0 =>
       /\ req[r].own = "queued" /\ req[r].n \in DOMAIN data /\ data[req[r].n].fate = "pending"
       /\ data[req[r].n].len = req[r].len /\ data[req[r].n].got = req[r].actual
  /\ \A e \in Eps : \A i \in DOMAIN ep[e].queue : req[ep[e].queue[i]].n # 0 <=> e = "in"
  /\ \A e \in Eps : e = "in" => \A i, j \in DOMAIN ep[e].queue :
       i < j => req[ep[e].queue[i]].n < req[ep[e].queue[j]].n

NoneLost ==
  /\ \A n \in DOMAIN data : data[n].fate = "pending" => \E r \in AllReqs : req[r].n = n
  /\ \A n \in DOMAIN data : data[n].fate # "lost"

InTurn == \A n \in DOMAIN data : data[n].got > 0 => \A m \in 1 .. n - 1 : data[m].fate # "pending"

ReportInv == Report /\ NoneLost /\ InTurn

LEMMA Numbered ==
  ASSUME TransferInv, Report
  PROVE  /\ \A r \in AllReqs : req[r].n \in Int
         /\ \A e \in Eps : \A i \in DOMAIN ep[e].queue : i \in Int /\ ep[e].queue[i] \in AllReqs
         /\ \A r \in AllReqs : req[r].n # 0 => "in" \in Eps /\ \E i \in DOMAIN ep["in"].queue : ep["in"].queue[i] = r
         /\ \A r, s \in AllReqs : req[r].n # 0 /\ req[r].n = req[s].n => r = s
         /\ DOMAIN data = 1 .. Len(data) /\ Len(data) \in Nat
<1>1. TransferTypes /\ QueueInv
  BY DEF TransferInv
<1>2. \A r \in AllReqs : req[r].n \in Int
  BY <1>1 DEF TransferTypes, ReqRecord
<1>3. \A e \in Eps : \A i \in DOMAIN ep[e].queue : i \in Int /\ ep[e].queue[i] \in AllReqs
  BY <1>1, QueueTypes
<1>4. \A r \in AllReqs : req[r].n # 0 => "in" \in Eps /\ \E i \in DOMAIN ep["in"].queue : ep["in"].queue[i] = r
  <2> SUFFICES ASSUME NEW r \in AllReqs, req[r].n # 0
               PROVE  "in" \in Eps /\ \E i \in DOMAIN ep["in"].queue : ep["in"].queue[i] = r
    OBVIOUS
  <2>1. PICK e \in Eps : \E i \in DOMAIN ep[e].queue : ep[e].queue[i] = r
    BY <1>1 DEF QueueInv, Report
  <2>2. e = "in"
    BY <2>1 DEF Report
  <2> QED BY <2>1, <2>2
<1>5. ASSUME NEW r \in AllReqs, NEW s \in AllReqs, req[r].n # 0, req[r].n = req[s].n PROVE r = s
  <2>1. PICK i \in DOMAIN ep["in"].queue : ep["in"].queue[i] = r
    BY <1>4, <1>5
  <2>2. PICK j \in DOMAIN ep["in"].queue : ep["in"].queue[j] = s
    BY <1>4, <1>5
  <2>3. i \in Int /\ j \in Int /\ "in" \in Eps
    BY <1>3, <1>4, <1>5, <2>1, <2>2
  <2>4. ~(i < j) /\ ~(j < i)
    BY <1>2, <1>5, <2>1, <2>2, <2>3 DEF Report
  <2> QED BY <2>1, <2>2, <2>3, <2>4
<1>6. DOMAIN data = 1 .. Len(data) /\ Len(data) \in Nat
  BY <1>1 DEF TransferTypes
<1> QED BY <1>2, <1>3, <1>4, <1>5, <1>6

(* All that was given before the head of the queue has met its fate.       *)
LEMMA HeadFirst ==
  ASSUME TransferInv, ReportInv, NEW e \in Eps, 1 \in DOMAIN ep[e].queue,
         NEW x, x = ep[e].queue[1], NEW m \in 1 .. req[x].n - 1
  PROVE  data[m].fate # "pending"
<1>1. Report /\ NoneLost /\ x \in AllReqs /\ req[x].n \in Int
  BY Numbered DEF ReportInv
<1>2. req[x].n # 0
  BY <1>1
<1>3. e = "in" /\ req[x].n \in DOMAIN data
  BY <1>1, <1>2 DEF Report
<1>4. m \in DOMAIN data /\ m # 0
  BY <1>1, <1>3, Numbered
<1> SUFFICES ASSUME data[m].fate = "pending" PROVE FALSE
  OBVIOUS
<1>5. PICK s \in AllReqs : req[s].n = m
  BY <1>1, <1>4 DEF NoneLost
<1>6. PICK j \in DOMAIN ep[e].queue : ep[e].queue[j] = s
  BY <1>1, <1>3, <1>4, <1>5, Numbered
<1>7. j \in Int /\ j >= 1
  <2>1. ep[e].queue \in Seq(AllReqs)
    BY QueueTypes DEF TransferInv
  <2> QED BY <2>1, <1>6
<1>8. j # 1
  BY <1>1, <1>5, <1>6
<1>9. req[x].n < req[s].n
  BY <1>1, <1>3, <1>6, <1>7, <1>8 DEF Report
<1> QED BY <1>1, <1>5, <1>9

(* Steps that leave the reports as they are,                               *)
LEMMA ReportKept ==
  ASSUME TransferInv, TransferInv', ReportInv, UNCHANGED data, \A e \in Eps : ep'[e].queue = ep[e].queue,
         \A r \in AllReqs : \/ req'[r] = req[r]
                            \/ req[r].own # "queued" /\ req'[r].n = 0
  PROVE  ReportInv'
<1>1. \A r \in AllReqs : req'[r].n = req[r].n /\ (req[r].n # 0 => req'[r] = req[r])
  BY DEF ReportInv, Report
<1>2. \A e \in Eps : \A i \in DOMAIN ep[e].queue : ep[e].queue[i] \in AllReqs
  BY Numbered DEF ReportInv
<1>3. Report'
  BY <1>1, <1>2 DEF ReportInv, Report
<1>4. NoneLost'
  BY <1>1 DEF ReportInv, NoneLost
<1> QED BY <1>3, <1>4 DEF ReportInv, InTurn

(* What is left of a queue.                                                *)
LEMMA RemovedAt ==
  ASSUME NEW q \in Seq(AllReqs), NEW k \in DOMAIN q, NEW i \in DOMAIN Removed(q, k)
  PROVE  LET o == IF i < k THEN i ELSE i + 1 IN
         i \in Int /\ o \in DOMAIN q /\ Removed(q, k)[i] = q[o] /\ o # k
BY DEF Removed

(* take one from its queue,                                                *)
RequestLeft(e, k, x) ==
  /\ ep'[e].queue = Removed(ep[e].queue, k) /\ \A f \in Eps \ {e} : ep'[f].queue = ep[f].queue
  /\ req'[x].n = 0 /\ \A r \in AllReqs \ {x} : req'[r] = req[r]
  /\ Len(data') = Len(data) /\ \A m \in DOMAIN data \ {req[x].n} : data'[m] = data[m]
  /\ req[x].n # 0 => /\ data'[req[x].n].fate \in {"whole", "cut"}
                     /\ k = 1 \/ data'[req[x].n].got = data[req[x].n].got

LEMMA ReportTaken ==
  ASSUME TransferInv, TransferInv', ReportInv, NEW e \in Eps, NEW k \in DOMAIN ep[e].queue,
         NEW x, x = ep[e].queue[k], RequestLeft(e, k, x)
  PROVE  ReportInv'
<1>1. Report /\ NoneLost /\ InTurn /\ TransferTypes /\ QueueInv
  BY DEF ReportInv, TransferInv
<1>2. DOMAIN data = 1 .. Len(data) /\ DOMAIN data' = DOMAIN data
  BY DEF TransferInv, TransferTypes, RequestLeft
<1>3. /\ x \in AllReqs /\ \A f \in Eps : \A i \in DOMAIN ep[f].queue : i \in Int /\ ep[f].queue[i] \in AllReqs
      /\ \A r \in AllReqs : req[r].n \in Int
  BY <1>1, Numbered
<1>4. req'[x].n = 0 /\ \A r \in AllReqs \ {x} : req'[r] = req[r]
  BY Zenon DEF RequestLeft
<1>5. \A m \in DOMAIN data \ {req[x].n} : data'[m] = data[m]
  BY Zenon DEF RequestLeft
<1>6. ASSUME req[x].n \in DOMAIN data PROVE data'[req[x].n].fate \in {"whole", "cut"}
  <2>1. req[x].n # 0
    BY <1>2, <1>6
  <2> QED BY <2>1, Zenon DEF RequestLeft
<1>7. \A f \in Eps : \A i \in DOMAIN ep'[f].queue :
        LET o == IF f # e \/ i < k THEN i ELSE i + 1 IN
        i \in Int /\ o \in DOMAIN ep[f].queue /\ ep'[f].queue[i] = ep[f].queue[o] /\ ~(f = e /\ o = k)
  <2>1. PICK q \in Seq(AllReqs) : q = ep[e].queue
    BY <1>1, QueueTypes
  <2>2. ep'[e].queue = Removed(q, k) /\ \A f \in Eps \ {e} : ep'[f].queue = ep[f].queue
    BY <2>1, Zenon DEF RequestLeft
  <2>3. ASSUME NEW i \in DOMAIN ep'[e].queue
        PROVE  LET o == IF i < k THEN i ELSE i + 1 IN
               i \in Int /\ o \in DOMAIN q /\ ep'[e].queue[i] = q[o] /\ o # k
    BY <2>1, <2>2, <2>3, RemovedAt
  <2>4. ASSUME NEW f \in Eps \ {e}, NEW i \in DOMAIN ep'[f].queue
        PROVE  i \in Int /\ i \in DOMAIN ep[f].queue /\ ep'[f].queue[i] = ep[f].queue[i]
    BY <1>3, <2>2
  <2> QED BY <2>1, <2>3, <2>4
<1>8. \A f \in Eps : \A i \in DOMAIN ep[f].queue :
        ep[f].queue[i] \in AllReqs /\ (ep[f].queue[i] = x => f = e /\ i = k)
  BY <1>1, <1>3 DEF QueueInv
<1>9. \A f \in Eps : \A i \in DOMAIN ep'[f].queue :
        ep'[f].queue[i] \in AllReqs /\ ep'[f].queue[i] # x /\ req'[ep'[f].queue[i]] = req[ep'[f].queue[i]]
  BY <1>4, <1>7, <1>8
<1>10. \A r \in AllReqs : req'[r].n # 0 => r # x /\ req'[r] = req[r] /\ req[r].n # req[x].n
  BY <1>1, <1>3, <1>4, Numbered
<1>11. Report'
  <2>1. ASSUME NEW r \in AllReqs, req'[r].n # 0
        PROVE  /\ req'[r].own = "queued" /\ req'[r].n \in DOMAIN data' /\ data'[req'[r].n].fate = "pending"
               /\ data'[req'[r].n].len = req'[r].len /\ data'[req'[r].n].got = req'[r].actual
    <3>1. req'[r] = req[r] /\ req[r].n # 0 /\ req[r].n # req[x].n
      BY <1>10, <2>1
    <3>2. /\ req[r].own = "queued" /\ req[r].n \in DOMAIN data /\ data[req[r].n].fate = "pending"
          /\ data[req[r].n].len = req[r].len /\ data[req[r].n].got = req[r].actual
      BY <1>1, <3>1 DEF Report
    <3> QED BY <1>2, <1>5, <3>1, <3>2
  <2>2. \A f \in Eps : \A i \in DOMAIN ep'[f].queue : req'[ep'[f].queue[i]].n # 0 <=> f = "in"
    <3>1. ASSUME NEW f \in Eps, NEW i \in DOMAIN ep'[f].queue
          PROVE  req[ep'[f].queue[i]].n # 0 <=> f = "in"
      <4>1. PICK o \in DOMAIN ep[f].queue : ep'[f].queue[i] = ep[f].queue[o]
        BY <1>7
      <4> QED BY <1>1, <4>1 DEF Report
    <3> QED BY <1>9, <3>1
  <2>3. ASSUME NEW f \in Eps, f = "in", NEW i \in DOMAIN ep'[f].queue, NEW j \in DOMAIN ep'[f].queue, i < j
        PROVE  req'[ep'[f].queue[i]].n < req'[ep'[f].queue[j]].n
    <3>1. PICK o \in DOMAIN ep[f].queue : o = (IF f # e \/ i < k THEN i ELSE i + 1) /\ ep'[f].queue[i] = ep[f].queue[o]
      BY <1>7
    <3>2. PICK p \in DOMAIN ep[f].queue : p = (IF f # e \/ j < k THEN j ELSE j + 1) /\ ep'[f].queue[j] = ep[f].queue[p]
      BY <1>7
    <3>3. o < p
      <4>1. k \in Int /\ i \in Int /\ j \in Int
        BY <1>3, <1>7
      <4> QED BY <2>3, <3>1, <3>2, <4>1
    <3>4. req[ep[f].queue[o]].n < req[ep[f].queue[p]].n
      BY <1>1, <2>3, <3>3 DEF Report
    <3> QED BY <1>9, <3>1, <3>2, <3>4
  <2> QED BY <2>1, <2>2, <2>3 DEF Report
<1>12. NoneLost'
  <2>1. ASSUME NEW n \in DOMAIN data', data'[n].fate = "pending" PROVE \E r \in AllReqs : req'[r].n = n
    <3>1. n \in DOMAIN data /\ n # req[x].n
      BY <1>2, <1>6, <2>1
    <3>2. data[n].fate = "pending"
      BY <1>5, <2>1, <3>1
    <3>3. PICK r \in AllReqs : req[r].n = n
      BY <1>1, <3>1, <3>2 DEF NoneLost
    <3> QED BY <1>4, <3>1, <3>3
  <2>2. ASSUME NEW n \in DOMAIN data' PROVE data'[n].fate # "lost"
    <3>1. CASE n = req[x].n
      <4>1. data'[n].fate \in {"whole", "cut"}
        BY <1>2, <1>6, <3>1
      <4> QED BY <4>1
    <3>2. CASE n # req[x].n
      <4>1. data[n].fate # "lost"
        BY <1>1, <1>2 DEF NoneLost
      <4> QED BY <1>2, <1>5, <3>2, <4>1
    <3> QED BY <3>1, <3>2
  <2> QED BY <2>1, <2>2 DEF NoneLost
<1>13. InTurn'
  <2> SUFFICES ASSUME NEW n \in DOMAIN data', data'[n].got > 0, NEW m \in 1 .. n - 1, data'[m].fate = "pending"
               PROVE  FALSE
    BY DEF InTurn
  <2>1. n \in DOMAIN data /\ m \in DOMAIN data
    <3>1. PICK l \in Nat : l = Len(data)
      BY <1>1 DEF TransferTypes
    <3>2. n \in 1 .. l
      BY <1>2, <3>1
    <3>3. m \in 1 .. l
      BY <3>2
    <3> QED BY <1>2, <3>1, <3>2, <3>3
  <2>2. data[m].fate = "pending"
    <3>1. m # req[x].n
      BY <1>6, <2>1
    <3> QED BY <1>5, <2>1, <3>1
  <2>3. data[n].got > 0 => FALSE
    BY <1>1, <2>1, <2>2 DEF InTurn
  <2>4. n = req[x].n /\ data'[n].got # data[n].got
    <3>1. n = req[x].n
      BY <1>5, <2>1, <2>3
    <3> QED BY <2>3, <3>1
  <2>5. k = 1
    <3>1. n # 0
      BY <1>2, <2>1
    <3> QED BY <2>4, <3>1, Zenon DEF RequestLeft
  <2>6. \A i \in 1 .. req[x].n - 1 : data[i].fate # "pending"
    BY <2>5, HeadFirst
  <2> QED BY <2>2, <2>4, <2>6
<1> QED BY <1>11, <1>12, <1>13 DEF ReportInv

(* add one,                                                                *)
LEMMA ReportPut ==
  ASSUME TransferInv, TransferInv', ReportInv, NEW e \in Eps, NEW x \in AllReqs, req[x].own # "queued",
         ep'[e].queue = Append(ep[e].queue, x), \A f \in Eps \ {e} : ep'[f].queue = ep[f].queue,
         req'[x].own = "queued",
         \A r \in AllReqs \ {x} : req'[r] = req[r] \/ (req[r].own # "queued" /\ req'[r].n = 0),
         e # "in" => UNCHANGED data /\ req'[x].n = 0,
         e = "in" => /\ req'[x].n = Len(data) + 1 /\ req'[x].actual = 0
                     /\ data' = Append(data, [len |-> req'[x].len, got |-> 0, fate |-> "pending"])
  PROVE  ReportInv'
<1>1. /\ Report /\ NoneLost /\ InTurn /\ TransferTypes /\ QueueInv
      /\ \A r \in AllReqs : req[r].n \in Int
      /\ DOMAIN data = 1 .. Len(data) /\ Len(data) \in Nat /\ data \in Seq(DataRecord)
  BY Numbered DEF ReportInv, TransferInv, TransferTypes
<1>2. req[x].n = 0
  BY <1>1 DEF Report
<1>3. \A r \in AllReqs \ {x} : req'[r].n = req[r].n /\ (req[r].n # 0 => req'[r] = req[r])
  BY <1>1 DEF Report
<1> DEFINE k == Len(ep[e].queue) + 1
<1>4. /\ DOMAIN ep'[e].queue = DOMAIN ep[e].queue \cup {k} /\ k \notin DOMAIN ep[e].queue /\ k \in Int
      /\ ep'[e].queue[k] = x /\ \A i \in DOMAIN ep[e].queue : ep'[e].queue[i] = ep[e].queue[i] /\ i < k
  <2>1. ep[e].queue \in Seq(AllReqs)
    BY <1>1, QueueTypes
  <2>2. \A i \in DOMAIN ep[e].queue : i < k
    BY <1>1, QueueTypes
  <2>3. k \notin DOMAIN ep[e].queue /\ k \in Int
    BY <1>1, <2>2, QueueTypes
  <2> QED BY <2>1, <2>2, <2>3, Appended
<1> HIDE DEF k
<1>5. \A f \in Eps : \A i \in DOMAIN ep[f].queue : i \in Int /\ ep[f].queue[i] \in AllReqs \ {x}
  <2>1. \A f \in Eps : \A i \in DOMAIN ep[f].queue : i \in Int /\ ep[f].queue[i] \in AllReqs
    BY <1>1, Numbered
  <2> QED BY <1>1, <2>1 DEF QueueInv
<1>6. \A f \in Eps : \A i \in DOMAIN ep'[f].queue :
        \/ f = e /\ i = k /\ ep'[f].queue[i] = x
        \/ i \in DOMAIN ep[f].queue /\ ep'[f].queue[i] = ep[f].queue[i]
  BY <1>4
<1>7. /\ \A m \in DOMAIN data : m \in DOMAIN data' /\ data'[m] = data[m]
      /\ e # "in" => DOMAIN data' = DOMAIN data
      /\ e = "in" => LET n == Len(data) + 1 IN
           /\ DOMAIN data' = DOMAIN data \cup {n} /\ n \notin DOMAIN data /\ n \in Nat /\ n # 0
           /\ data'[n].got = 0 /\ data'[n].fate = "pending" /\ data'[n].len = req'[x].len
  <2>1. CASE e # "in"
    BY <2>1
  <2>2. CASE e = "in"
    <3>1. PICK d \in DataRecord : d = [len |-> req'[x].len, got |-> 0, fate |-> "pending"]
      <4>1. req'[x].len \in Int
        BY DEF TransferInv, TransferTypes, ReqRecord
      <4> QED BY <4>1 DEF DataRecord
    <3>2. data' = Append(data, d)
      BY <2>2, <3>1
    <3>3. /\ DOMAIN data' = DOMAIN data \cup {Len(data) + 1} /\ Len(data) + 1 \notin DOMAIN data
          /\ data'[Len(data) + 1] = d /\ \A m \in DOMAIN data : m \in DOMAIN data' /\ data'[m] = data[m]
      <4>1. data \in Seq(DataRecord)
        BY <1>1
      <4> QED BY <3>2, <4>1, SMTT(20)
    <3>4. d.got = 0 /\ d.fate = "pending" /\ d.len = req'[x].len
      BY <3>1
    <3> QED BY <1>1, <2>2, <3>3, <3>4
  <2> QED BY <2>1, <2>2
<1>8. Report'
  <2>1. ASSUME NEW r \in AllReqs, req'[r].n # 0
        PROVE  /\ req'[r].own = "queued" /\ req'[r].n \in DOMAIN data' /\ data'[req'[r].n].fate = "pending"
               /\ data'[req'[r].n].len = req'[r].len /\ data'[req'[r].n].got = req'[r].actual
    <3>1. CASE r # x
      <4>1. req'[r] = req[r] /\ req[r].n # 0
        BY <1>3, <2>1, <3>1
      <4> QED BY <1>1, <1>7, <4>1 DEF Report
    <3>2. CASE r = x
      BY <1>7, <2>1, <3>2
    <3> QED BY <3>1, <3>2
  <2>2. ASSUME NEW f \in Eps, NEW i \in DOMAIN ep'[f].queue PROVE req'[ep'[f].queue[i]].n # 0 <=> f = "in"
    <3>1. CASE i \in DOMAIN ep[f].queue /\ ep'[f].queue[i] = ep[f].queue[i]
      BY <1>1, <1>3, <1>5, <3>1 DEF Report
    <3>2. CASE f = e /\ ep'[f].queue[i] = x
      BY <1>7, <3>2
    <3> QED BY <1>6, <3>1, <3>2
  <2>3. ASSUME NEW f \in Eps, f = "in", NEW i \in DOMAIN ep'[f].queue, NEW j \in DOMAIN ep'[f].queue, i < j
        PROVE  req'[ep'[f].queue[i]].n < req'[ep'[f].queue[j]].n
    <3>1. i \in DOMAIN ep[f].queue /\ ep'[f].queue[i] = ep[f].queue[i]
      <4>1. CASE f = e /\ i = k
        <5>1. j \in DOMAIN ep[f].queue \cup {k}
          BY <1>4, <4>1
        <5> QED BY <1>4, <1>5, <2>3, <4>1, <5>1
      <4> QED BY <1>6, <4>1
    <3>2. PICK r \in AllReqs \ {x} : r = ep[f].queue[i] /\ req'[r].n = req[r].n
      BY <1>3, <1>5, <3>1
    <3>3. CASE j \in DOMAIN ep[f].queue /\ ep'[f].queue[j] = ep[f].queue[j]
      <4>1. req'[ep[f].queue[j]].n = req[ep[f].queue[j]].n
        BY <1>3, <1>5, <3>3
      <4> QED BY <1>1, <2>3, <3>1, <3>2, <3>3, <4>1 DEF Report
    <3>4. CASE f = e /\ j = k
      <4>1. req'[ep'[f].queue[j]].n = Len(data) + 1
        BY <1>4, <2>3, <3>4
      <4>2. req[r].n # 0
        BY <1>1, <2>3, <3>1, <3>2 DEF Report
      <4>3. req[r].n \in 1 .. Len(data)
        BY <1>1, <4>2 DEF Report
      <4> QED BY <1>1, <3>1, <3>2, <4>1, <4>3
    <3> QED BY <1>6, <3>3, <3>4
  <2> QED BY <2>1, <2>2, <2>3 DEF Report
<1>9. NoneLost'
  <2>1. ASSUME NEW n \in DOMAIN data', data'[n].fate = "pending" PROVE \E r \in AllReqs : req'[r].n = n
    <3>1. CASE n \in DOMAIN data
      <4>1. PICK r \in AllReqs : req[r].n = n
        BY <1>1, <1>7, <2>1, <3>1 DEF NoneLost
      <4>2. r # x
        BY <1>1, <1>2, <3>1, <4>1
      <4> QED BY <1>3, <4>1, <4>2
    <3>2. CASE n \notin DOMAIN data
      <4>1. e = "in" /\ n = Len(data) + 1
        BY <1>7, <3>2
      <4> QED BY <4>1
    <3> QED BY <3>1, <3>2
  <2>2. ASSUME NEW n \in DOMAIN data' PROVE data'[n].fate # "lost"
    BY <1>1, <1>7 DEF NoneLost
  <2> QED BY <2>1, <2>2 DEF NoneLost
<1>10. InTurn'
  <2> SUFFICES ASSUME NEW n \in DOMAIN data', data'[n].got > 0, NEW m \in 1 .. n - 1
               PROVE  data'[m].fate # "pending"
    BY DEF InTurn
  <2>1. n \in DOMAIN data
    BY <1>7
  <2>2. m \in DOMAIN data
    BY <1>1, <2>1
  <2> QED BY <1>1, <1>7, <2>1, <2>2 DEF InTurn
<1> QED BY <1>8, <1>9, <1>10 DEF ReportInv

LEMMA SameNumbers ==
  ASSUME TransferInv, Report, \A f \in Eps : ep'[f].queue = ep[f].queue, \A r \in AllReqs : req'[r].n = req[r].n
  PROVE  /\ \A f \in Eps : \A i \in DOMAIN ep'[f].queue : req'[ep'[f].queue[i]].n # 0 <=> f = "in"
         /\ \A f \in Eps : f = "in" => \A i, j \in DOMAIN ep'[f].queue :
              i < j => req'[ep'[f].queue[i]].n < req'[ep'[f].queue[j]].n
<1>1. \A f \in Eps : \A i \in DOMAIN ep[f].queue : ep[f].queue[i] \in AllReqs
  BY Numbered
<1> QED BY <1>1 DEF Report

(* or move a part of the first.                                            *)
PartMoved(x) ==
  /\ \A r \in AllReqs : req'[r].n = req[r].n /\ req'[r].own = req[r].own /\ req'[r].len = req[r].len
  /\ \A r \in AllReqs \ {x} : req'[r].actual = req[r].actual
  /\ DOMAIN data' = DOMAIN data
  /\ \A m \in DOMAIN data : /\ data'[m].fate = data[m].fate /\ data'[m].len = data[m].len
                            /\ m # req[x].n => data'[m].got = data[m].got
  /\ req[x].n # 0 => data'[req[x].n].got = req'[x].actual

LEMMA ReportMoved ==
  ASSUME TransferInv, ReportInv, NEW e \in Eps, 1 \in DOMAIN ep[e].queue, NEW x \in AllReqs, x = ep[e].queue[1],
         \A f \in Eps : ep'[f].queue = ep[f].queue, PartMoved(x)
  PROVE  ReportInv'
<1>1. Report /\ NoneLost /\ InTurn /\ DOMAIN data = 1 .. Len(data) /\ Len(data) \in Nat
  BY Numbered DEF ReportInv
<1>2. DOMAIN data' = DOMAIN data
  BY DEF PartMoved
<1>3. \A r \in AllReqs : req'[r].n = req[r].n /\ req'[r].own = req[r].own /\ req'[r].len = req[r].len
  BY DEF PartMoved
<1>4. \A m \in DOMAIN data : data'[m].fate = data[m].fate /\ data'[m].len = data[m].len
  BY DEF PartMoved
<1>5. Report'
  <2>1. ASSUME NEW r \in AllReqs, req'[r].n # 0
        PROVE  /\ req'[r].own = "queued" /\ req'[r].n \in DOMAIN data' /\ data'[req'[r].n].fate = "pending"
               /\ data'[req'[r].n].len = req'[r].len /\ data'[req'[r].n].got = req'[r].actual
    <3>1. /\ req[r].n # 0 /\ req[r].own = "queued" /\ req[r].n \in DOMAIN data /\ data[req[r].n].fate = "pending"
          /\ data[req[r].n].len = req[r].len /\ data[req[r].n].got = req[r].actual
      BY <1>1, <1>3, <2>1 DEF Report
    <3>2. data'[req'[r].n].got = req'[r].actual
      <4>1. CASE r = x
        BY <1>3, <3>1, <4>1 DEF PartMoved
      <4>2. CASE r # x
        <5>1. req[r].n # req[x].n
          BY <1>1, <3>1, <4>2, Numbered
        <5>2. data'[req[r].n].got = data[req[r].n].got /\ req'[r].actual = req[r].actual
          BY <3>1, <4>2, <5>1 DEF PartMoved
        <5> QED BY <1>3, <3>1, <5>2
      <4> QED BY <4>1, <4>2
    <3> QED BY <1>2, <1>3, <1>4, <3>1, <3>2
  <2>2. /\ \A f \in Eps : \A i \in DOMAIN ep'[f].queue : req'[ep'[f].queue[i]].n # 0 <=> f = "in"
        /\ \A f \in Eps : f = "in" => \A i, j \in DOMAIN ep'[f].queue :
             i < j => req'[ep'[f].queue[i]].n < req'[ep'[f].queue[j]].n
    BY <1>1, <1>3, SameNumbers
  <2> QED BY <2>1, <2>2 DEF Report
<1>6. NoneLost'
  <2>1. ASSUME NEW n \in DOMAIN data, data'[n].fate = "pending" PROVE \E r \in AllReqs : req'[r].n = n
    <3>1. PICK r \in AllReqs : req[r].n = n
      BY <1>1, <1>4, <2>1 DEF NoneLost
    <3> QED BY <1>3, <3>1
  <2>2. \A n \in DOMAIN data : data'[n].fate # "lost"
    BY <1>1, <1>4 DEF NoneLost
  <2> QED BY <1>2, <2>1, <2>2 DEF NoneLost
<1>7. InTurn'
  <2> SUFFICES ASSUME NEW n \in DOMAIN data', data'[n].got > 0, NEW m \in 1 .. n - 1, data'[m].fate = "pending"
               PROVE  FALSE
    BY DEF InTurn
  <2>1. n \in 1 .. Len(data) /\ m \in 1 .. Len(data)
    <3>1. n \in 1 .. Len(data)
      BY <1>1, <1>2
    <3>2. PICK k \in Nat : k = Len(data)
      BY <1>1, Zenon
    <3>3. m \in 1 .. k
      BY <3>1, <3>2
    <3> QED BY <3>1, <3>2, <3>3
  <2>2. data[m].fate = "pending"
    BY <1>1, <1>4, <2>1
  <2>3. CASE n = req[x].n
    <3>1. \A i \in 1 .. req[x].n - 1 : data[i].fate # "pending"
      BY HeadFirst
    <3> QED BY <2>2, <2>3, <3>1
  <2>4. CASE n # req[x].n
    <3>1. data[n].got > 0
      BY <1>1, <2>1, <2>4 DEF PartMoved
    <3> QED BY <1>1, <2>1, <2>2, <3>1 DEF InTurn
  <2> QED BY <2>3, <2>4
<1> QED BY <1>5, <1>6, <1>7 DEF ReportInv

LEMMA FateEffect ==
  ASSUME NEW d \in Seq(DataRecord), NEW r, NEW n, n = req[r].n, NEW status, NEW told
  PROVE  LET f == Fate(d, r, status, told) IN
         /\ Len(f) = Len(d) /\ \A m \in DOMAIN d \ {n} : f[m] = d[m] /\ (n = 0 => f = d)
         /\ n # 0 /\ n \in DOMAIN d => f[n].got = d[n].got
         /\ n # 0 /\ n \in DOMAIN d /\ (status \in {"shutdown", "reset"} \/ told
                                         \/ (d[n].fate = "pending" /\ d[n].got = d[n].len))
              => f[n].fate \in {"whole", "cut"}
<1>1. CASE n = 0
  BY <1>1 DEF Fate
<1>2. CASE n # 0
  <2>1. PICK v : v = CASE status \in {"shutdown", "reset"} \/ told -> "cut"
                       [] d[n].fate = "pending" /\ d[n].got = d[n].len -> "whole"
                       [] OTHER -> "lost"
    OBVIOUS
  <2>2. PICK f : f = Fate(d, r, status, told)
    OBVIOUS
  <2>3. f = [d EXCEPT ![n].fate = v]
    BY <1>2, <2>1, <2>2 DEF Fate
  <2>4. Len(f) = Len(d) /\ \A m \in DOMAIN d \ {n} : f[m] = d[m]
    BY <2>2, <2>3, FateType
  <2>5. n \in DOMAIN d => f[n] = [d[n] EXCEPT !.fate = v] /\ d[n] \in DataRecord
    BY <2>3
  <2>6. n \in DOMAIN d => f[n].got = d[n].got /\ f[n].fate = v
    BY <2>5 DEF DataRecord
  <2>7. (status \in {"shutdown", "reset"} \/ told \/ (d[n].fate = "pending" /\ d[n].got = d[n].len))
          => v \in {"whole", "cut"}
    BY <2>1
  <2> QED BY <1>2, <2>2, <2>4, <2>6, <2>7
<1> QED BY <1>1, <1>2

LEMMA TakenNumber ==
  ASSUME TransferTypes, NEW r \in AllReqs
  PROVE  Taken(r)[r].n = 0 /\ \A s \in AllReqs \ {r} : Taken(r)[s] = req[s]
<1>1. PICK x : x = (IF r = "fifo" THEN FreeReq ELSE [FreeReq EXCEPT !.own = "giving"])
  OBVIOUS
<1>2. x.n = 0
  BY <1>1 DEF FreeReq
<1>3. Taken(r) = [req EXCEPT ![r] = x]
  BY <1>1 DEF Taken
<1> QED BY <1>2, <1>3 DEF TransferTypes

LEMMA ReportQueued ==
  ASSUME TransferInv, TransferInv', ReportInv, NEW e \in Eps, NEW r \in AllReqs \ {"fifo"}, NEW l,
         NEW zero, NEW u, req[r].own \in {"driver", "checked"}, Queued(e, r, l, zero, u)
  PROVE  ReportInv'
<1>1. /\ TransferTypes /\ "fifo" \in AllReqs /\ Len(data) \in Nat /\ req \in [AllReqs -> ReqRecord]
      /\ ep \in [Eps -> EpRecord]
  BY ReqFacts DEF TransferInv, TransferTypes
<1>2. PICK n : n = (IF e = "in" THEN Len(data) + 1 ELSE 0)
  OBVIOUS
<1>3. PICK f \in BOOLEAN : f <=> UsesFifo(e, l)
  OBVIOUS
<1>4. PICK x : x = (IF f THEN "fifo" ELSE r)
  OBVIOUS
<1>5. PICK new : new = [len |-> l, actual |-> 0, zero |-> zero, own |-> "queued", n |-> n, for |-> u]
  OBVIOUS
<1>6. /\ req' = IF f THEN [req EXCEPT !["fifo"] = new, ![r] = FreeReq] ELSE [req EXCEPT ![r] = new]
      /\ ep' = [ep EXCEPT ![e].queue = Append(ep[e].queue, x)]
      /\ data' = IF n = 0 THEN data ELSE Append(data, [len |-> l, got |-> 0, fate |-> "pending"])
  BY <1>2, <1>3, <1>4, <1>5 DEF Queued
<1>7. f => req["fifo"].own = "driver"
  BY <1>3 DEF UsesFifo
<1>8. x \in AllReqs /\ req[x].own # "queued"
  BY <1>1, <1>4, <1>7
<1>9. new.own = "queued" /\ new.n = n /\ new.actual = 0 /\ new.len = l
  BY <1>5
<1>10. /\ req'[x] = new
       /\ \A s \in AllReqs \ {x} : req'[s] = req[s] \/ (req[s].own # "queued" /\ req'[s].n = 0)
  <2>1. FreeReq.n = 0
    BY DEF FreeReq
  <2> QED BY <1>1, <1>4, <1>6, <2>1
<1>11. /\ ep'[e].queue = Append(ep[e].queue, x) /\ \A g \in Eps \ {e} : ep'[g].queue = ep[g].queue
  <2>1. PICK q \in Seq(AllReqs) : q = Append(ep[e].queue, x)
    <3>1. ep[e].queue \in Seq(AllReqs)
      BY <1>1, QueueTypes
    <3>2. \A s \in Seq(AllReqs) : Append(s, x) \in Seq(AllReqs)
      BY <1>8
    <3> QED BY <3>1, <3>2
  <2>2. Requeues(e, q)
    BY <1>6, <2>1 DEF Requeues
  <2> QED BY <1>1, <2>1, <2>2, QueueField
<1>12. CASE e = "in"
  <2>1. n = Len(data) + 1 /\ n # 0
    BY <1>1, <1>2, <1>12
  <2>2. data' = Append(data, [len |-> req'[x].len, got |-> 0, fate |-> "pending"])
    BY <1>6, <1>9, <1>10, <2>1
  <2> QED BY <1>8, <1>9, <1>10, <1>11, <1>12, <2>1, <2>2, ReportPut, Zenon
<1>13. CASE e # "in"
  <2>1. n = 0 /\ data' = data
    BY <1>2, <1>6, <1>13
  <2> QED BY <1>8, <1>9, <1>10, <1>11, <1>13, <2>1, ReportPut
<1> QED BY <1>12, <1>13

LEMMA ReportMovesStep ==
  ASSUME TransferInv, TransferInv', Sizes, ReportInv, TransferMoves PROVE ReportInv'
<1>1. /\ TransferTypes /\ Report /\ data \in Seq(DataRecord) /\ req \in [AllReqs -> ReqRecord]
      /\ CurEp \in Eps /\ Cur \in Urbs /\ ep[CurEp].queue # <<>>
  BY MovesFacts, Zenon DEF TransferInv, TransferTypes, ReportInv, TransferMoves
<1>2. PICK r \in AllReqs, c \in [len : Nat, req_status : Statuses, urb_status : Statuses] :
           /\ 1 \in DOMAIN ep[CurEp].queue /\ r = ep[CurEp].queue[1] /\ r = Head(ep[CurEp].queue)
           /\ c = Chunk(Cur, r, timer.limit)
           /\ c.req_status # None /\ ToHost(Cur) =>
                   c.req_status = "ok" /\ (c.len = req[r].len - req[r].actual \/ c.urb_status = "overflow")
  BY MovesFacts
<1>3. PICK k \in Nat : k = c.len
  OBVIOUS
<1>4. PICK d \in Seq(DataRecord) : d = (IF req[r].n = 0 THEN data ELSE Grown(req[r].n, k))
  BY <1>1, GrownType
<1>5. /\ Len(d) = Len(data) /\ \A m \in DOMAIN data \ {req[r].n} : d[m] = data[m]
      /\ req[r].n # 0 /\ req[r].n \in DOMAIN data =>
           LET n == req[r].n IN d[n].got = data[n].got + k /\ d[n].fate = data[n].fate /\ d[n].len = data[n].len
  <2>1. CASE req[r].n = 0
    BY <1>4, <2>1
  <2>2. CASE req[r].n # 0
    <3>1. d = [data EXCEPT ![req[r].n].got = data[req[r].n].got + k]
      BY <1>4, <2>2 DEF Grown
    <3>2. Len(d) = Len(data) /\ \A m \in DOMAIN data \ {req[r].n} : d[m] = data[m]
      BY <1>1, <3>1
    <3>3. ASSUME req[r].n \in DOMAIN data
          PROVE  LET n == req[r].n IN d[n].got = data[n].got + k /\ d[n].fate = data[n].fate /\ d[n].len = data[n].len
      <4>1. PICK y \in DataRecord : y = data[req[r].n]
        BY <1>1, <3>3
      <4>2. d[req[r].n] = [y EXCEPT !.got = y.got + k]
        BY <3>1, <3>3, <4>1
      <4> QED BY <4>1, <4>2 DEF DataRecord
    <3> QED BY <3>2, <3>3
  <2> QED BY <2>1, <2>2
<1>6. CASE c.req_status = None
  <2>1. req' = [req EXCEPT ![r].actual = req[r].actual + k] /\ data' = d /\ UNCHANGED ep
    BY <1>2, <1>3, <1>4, <1>6, Zenon DEF TransferMoves, Grown
  <2>2. req' = [req EXCEPT ![r] = [req[r] EXCEPT !.actual = req[r].actual + k]]
    BY <1>1, <2>1
  <2>3. LET y == req'[r] IN
        y.n = req[r].n /\ y.own = req[r].own /\ y.len = req[r].len /\ y.actual = req[r].actual + k
    BY <1>1, <2>2 DEF ReqRecord
  <2>4. \A s \in AllReqs \ {r} : req'[s] = req[s]
    BY <1>1, <2>2
  <2>5. req[r].n # 0 => req[r].n \in DOMAIN data /\ data[req[r].n].got = req[r].actual
    BY <1>1 DEF Report
  <2>6. req[r].n # 0 => LET n == req[r].n IN
          data'[n].fate = data[n].fate /\ data'[n].len = data[n].len /\ data'[n].got = req'[r].actual
    BY <1>5, <2>1, <2>3, <2>5
  <2>7. DOMAIN data' = DOMAIN data /\ \A m \in DOMAIN data \ {req[r].n} : data'[m] = data[m]
    <3>1. Len(d) = Len(data) /\ d \in Seq(DataRecord) /\ data \in Seq(DataRecord)
      BY <1>1, <1>4, <1>5
    <3> QED BY <1>5, <2>1, <3>1
  <2>8. PartMoved(r)
    <3>1. \A s \in AllReqs : req'[s].n = req[s].n /\ req'[s].own = req[s].own /\ req'[s].len = req[s].len
      BY <2>3, <2>4
    <3>2. ASSUME NEW m \in DOMAIN data
          PROVE  /\ data'[m].fate = data[m].fate /\ data'[m].len = data[m].len
                 /\ m # req[r].n => data'[m].got = data[m].got
      <4>1. CASE m = req[r].n
        <5>1. m # 0
          BY <1>1, <3>2
        <5> QED BY <2>6, <4>1, <5>1
      <4>2. CASE m # req[r].n
        BY <2>7, <4>2
      <4> QED BY <4>1, <4>2
    <3> QED BY <2>4, <2>6, <2>7, <3>1, <3>2 DEF PartMoved
  <2>9. \A f \in Eps : ep'[f].queue = ep[f].queue
    BY <2>1
  <2> QED BY <1>1, <1>2, <2>8, <2>9, ReportMoved
<1>7. CASE c.req_status # None
  <2>1. PICK q \in Seq(AllReqs) : q = Tail(ep[CurEp].queue)
    BY <1>1, QueueTypes, HeadRemoved
  <2>2. /\ Requeues(CurEp, q) /\ req' = Taken(r)
        /\ data' = Fate(d, r, c.req_status, c.urb_status = "overflow")
    BY <1>2, <1>3, <1>4, <1>7, <2>1, Zenon DEF TransferMoves, Grown, Requeues
  <2>3. /\ ep'[CurEp].queue = Removed(ep[CurEp].queue, 1) /\ \A f \in Eps \ {CurEp} : ep'[f].queue = ep[f].queue
    BY <1>1, <2>1, <2>2, QueueField, QueueTypes, HeadRemoved
  <2>4. req'[r].n = 0 /\ \A s \in AllReqs \ {r} : req'[s] = req[s]
    BY <1>1, <2>2, TakenNumber
  <2>5. Len(data') = Len(data) /\ \A m \in DOMAIN data \ {req[r].n} : data'[m] = data[m]
    BY <1>1, <1>5, <2>2, FateEffect
  <2>6. req[r].n # 0 => data'[req[r].n].fate \in {"whole", "cut"}
    <3> SUFFICES ASSUME req[r].n # 0 PROVE data'[req[r].n].fate \in {"whole", "cut"}
      OBVIOUS
    <3>1. /\ req[r].n \in DOMAIN data /\ req[r].n \in DOMAIN d /\ data[req[r].n].fate = "pending"
          /\ data[req[r].n].len = req[r].len /\ data[req[r].n].got = req[r].actual /\ CurEp = "in"
      <4>1. CurEp = "in"
        BY <1>1, <1>2 DEF Report
      <4>2. /\ req[r].n \in DOMAIN data /\ data[req[r].n].fate = "pending"
            /\ data[req[r].n].len = req[r].len /\ data[req[r].n].got = req[r].actual
        BY <1>1 DEF Report
      <4>3. DOMAIN d = DOMAIN data
        BY <1>1, <1>4, <1>5
      <4> QED BY <4>1, <4>2, <4>3
    <3>2. ToHost(Cur)
      BY <3>1 DEF ToHost, CurEp
    <3>3. c.urb_status = "overflow" \/ k = req[r].len - req[r].actual
      BY <1>2, <1>3, <1>7, <3>2
    <3>4. c.urb_status = "overflow" \/ (d[req[r].n].fate = "pending" /\ d[req[r].n].got = d[req[r].n].len)
      <4>1. req[r].len \in Int /\ req[r].actual \in Int
        BY <1>1 DEF ReqRecord
      <4> QED BY <1>5, <3>1, <3>3, <4>1
    <3> QED BY <2>2, <3>1, <3>4, FateEffect
  <2> QED BY <1>1, <1>2, <2>3, <2>4, <2>5, <2>6, ReportTaken DEF RequestLeft
<1> QED BY <1>6, <1>7

LEMMA ReportTakesStep ==
  ASSUME TransferInv, TransferInv', ReportInv,
         GiveStale \/ \E e \in Eps : (\E j \in Nukers : NukeTake(j, e)) \/ \E r \in Reqs : Dequeue(e, r)
  PROVE  ReportInv'
<1>1. TransferTypes /\ CursorInv /\ GiveInv /\ Report /\ data \in Seq(DataRecord) /\ ep \in [Eps -> EpRecord]
  BY DEF TransferInv, TransferTypes, ReportInv
<1>2. \A r \in AllReqs : req[r].n # 0 => req[r].n \in DOMAIN data
  BY <1>1 DEF Report
<1>3. CASE GiveStale
  <2>1. "ep0" \in Eps /\ ep["ep0"].queue # <<>>
    BY <1>3, ScanningFacts, CurFacts DEF GiveStale, Fresh, Looked
  <2>2. PICK r \in AllReqs : 1 \in DOMAIN ep["ep0"].queue /\ r = ep["ep0"].queue[1] /\ r = Head(ep["ep0"].queue)
    BY <1>1, <2>1, QueueTypes, HeadRemoved
  <2>3. req[r].n = 0
    BY <1>1, <2>1, <2>2 DEF Report
  <2>4. req' = Taken(r) /\ data' = data
        /\ ep' = [ep EXCEPT !["ep0"].queue = Tail(ep["ep0"].queue), !["ep0"].setup_stage = TRUE,
                            !["ep0"].already_seen = FALSE]
    BY <1>3, <2>2 DEF GiveStale
  <2>5. PICK q \in Seq(AllReqs) : q = Tail(ep["ep0"].queue) /\ q = Removed(ep["ep0"].queue, 1)
    BY <1>1, <2>1, QueueTypes, HeadRemoved
  <2>6. ep'["ep0"].queue = q /\ \A f \in Eps \ {"ep0"} : ep'[f].queue = ep[f].queue
    <3>1. PICK y : y = [ep["ep0"] EXCEPT !.queue = q, !.setup_stage = TRUE, !.already_seen = FALSE]
      OBVIOUS
    <3>2. ep' = [ep EXCEPT !["ep0"] = y]
      BY <1>1, <2>1, <2>4, <2>5, <3>1
    <3>3. y.queue = q
      BY <1>1, <2>1, <3>1 DEF EpRecord
    <3> QED BY <1>1, <2>1, <3>2, <3>3
  <2>7. req'[r].n = 0 /\ \A s \in AllReqs \ {r} : req'[s] = req[s]
    BY <1>1, <2>4, TakenNumber
  <2>8. /\ ep'["ep0"].queue = Removed(ep["ep0"].queue, 1)
        /\ Len(data') = Len(data) /\ \A m \in DOMAIN data \ {req[r].n} : data'[m] = data[m]
    BY <2>4, <2>5, <2>6
  <2> QED BY <2>1, <2>2, <2>3, <2>6, <2>7, <2>8, ReportTaken DEF RequestLeft
<1>4. ASSUME NEW j \in Nukers, NEW e \in Eps, NukeTake(j, e), ep[e].queue # <<>> PROVE ReportInv'
  <2>1. PICK r \in AllReqs : 1 \in DOMAIN ep[e].queue /\ r = ep[e].queue[1] /\ r = Head(ep[e].queue)
    BY <1>1, <1>4, QueueTypes, HeadRemoved
  <2>2. PICK q \in Seq(AllReqs) : q = Tail(ep[e].queue) /\ q = Removed(ep[e].queue, 1)
    BY <1>1, <1>4, QueueTypes, HeadRemoved
  <2>3. Requeues(e, q) /\ req' = Taken(r) /\ data' = Fate(data, r, "shutdown", FALSE)
    BY <1>4, <2>1, <2>2 DEF NukeTake, Requeues
  <2>4. ep'[e].queue = q /\ \A f \in Eps \ {e} : ep'[f].queue = ep[f].queue
    BY <1>1, <2>3, QueueField
  <2>5. req'[r].n = 0 /\ \A s \in AllReqs \ {r} : req'[s] = req[s]
    BY <1>1, <2>3, TakenNumber
  <2>6. Len(data') = Len(data) /\ \A m \in DOMAIN data \ {req[r].n} : data'[m] = data[m]
    <3>1. PICK n : n = req[r].n
      OBVIOUS
    <3>2. PICK told : told = FALSE
      OBVIOUS
    <3>3. PICK status : status = "shutdown"
      OBVIOUS
    <3>4. data' = Fate(data, r, status, told)
      BY <2>3, <3>2, <3>3
    <3> QED BY <1>1, <3>1, <3>4, FateEffect
  <2>7. req[r].n # 0 => data'[req[r].n].fate \in {"whole", "cut"}
    <3>1. PICK n : n = req[r].n
      OBVIOUS
    <3>2. n # 0 => n \in DOMAIN data
      BY <1>2, <3>1
    <3>3. PICK told : told = FALSE
      OBVIOUS
    <3>4. PICK status : status = "shutdown"
      OBVIOUS
    <3>5. data' = Fate(data, r, status, told)
      BY <2>3, <3>3, <3>4
    <3> QED BY <1>1, <3>1, <3>2, <3>4, <3>5, FateEffect
  <2>8. ep'[e].queue = Removed(ep[e].queue, 1)
    BY <2>2, <2>4
  <2> QED BY <2>1, <2>4, <2>5, <2>6, <2>7, <2>8, ReportTaken DEF RequestLeft
<1>5. ASSUME NEW j \in Nukers, NEW e \in Eps, NukeTake(j, e), ep[e].queue = <<>> PROVE ReportInv'
  BY <1>5, ReportKept DEF NukeTake
<1>6. ASSUME NEW e \in Eps, NEW r \in Reqs, Dequeue(e, r) PROVE ReportInv'
  <2>1. /\ r \in AllReqs /\ r # "fifo" /\ r # None /\ data' = Fate(data, r, "reset", FALSE)
        /\ ep' = [ep EXCEPT ![e].queue = Without(ep[e].queue, r)] /\ req' = Given(r)
    BY <1>6, ReqFacts, TransferAssumption DEF Dequeue, TransferConstants
  <2>2. PICK i \in DOMAIN ep[e].queue : ep[e].queue[i] = r
    BY <1>6 DEF Dequeue
  <2>3. PICK k \in DOMAIN ep[e].queue : /\ ep[e].queue[k] = r
                                        /\ Without(ep[e].queue, r) = Removed(ep[e].queue, k)
                                        /\ Removed(ep[e].queue, k) \in Seq(AllReqs)
    BY <1>1, <2>2, QueueTypes, WithoutRemoved
  <2>4. PICK q \in Seq(AllReqs) : q = Removed(ep[e].queue, k)
    BY <2>3
  <2>5. Requeues(e, q)
    BY <2>1, <2>3, <2>4 DEF Requeues
  <2>6. ep'[e].queue = q /\ \A f \in Eps \ {e} : ep'[f].queue = ep[f].queue
    BY <1>1, <2>5, QueueField
  <2>7. req'[r].n = 0 /\ \A s \in AllReqs \ {r} : req'[s] = req[s]
    BY <1>1, <2>1 DEF Given, FreeReq, TransferTypes
  <2>8. Len(data') = Len(data) /\ \A m \in DOMAIN data \ {req[r].n} : data'[m] = data[m]
    <3>1. PICK n : n = req[r].n
      OBVIOUS
    <3>2. PICK told : told = FALSE
      OBVIOUS
    <3>3. PICK status : status = "reset"
      OBVIOUS
    <3>4. data' = Fate(data, r, status, told)
      BY <2>1, <3>2, <3>3
    <3> QED BY <1>1, <3>1, <3>4, FateEffect
  <2>9. req[r].n # 0 => data'[req[r].n].fate \in {"whole", "cut"} /\ data'[req[r].n].got = data[req[r].n].got
    <3>1. PICK n : n = req[r].n
      OBVIOUS
    <3>2. n # 0 => n \in DOMAIN data
      BY <1>2, <2>1, <3>1
    <3>3. PICK told : told = FALSE
      OBVIOUS
    <3>4. PICK status : status = "reset"
      OBVIOUS
    <3>5. data' = Fate(data, r, status, told)
      BY <2>1, <3>3, <3>4
    <3> QED BY <1>1, <3>1, <3>2, <3>4, <3>5, FateEffect
  <2>10. ep'[e].queue = Removed(ep[e].queue, k)
    BY <2>4, <2>6
  <2> QED BY <2>3, <2>6, <2>7, <2>8, <2>9, <2>10, ReportTaken DEF RequestLeft
<1> QED BY <1>3, <1>4, <1>5, <1>6

(* Steps that leave every queue and the data alone.                        *)
LEMMA ReportQuiet ==
  ASSUME TransferInv, TransferInv', ReportInv, UNCHANGED data,
         \/ UNCHANGED ep \/ FlagsOnly,
         \/ UNCHANGED req
         \/ \E r \in AllReqs \cup {None} : req' = Given(r) /\ (r \in AllReqs \ {"fifo"} => req[r].own # "queued")
  PROVE  ReportInv'
<1>1. \A e \in Eps : ep'[e].queue = ep[e].queue
  BY DEF FlagsOnly
<1>2. \A r \in AllReqs : req'[r] = req[r] \/ (req[r].own # "queued" /\ req'[r].n = 0)
  <2>1. CASE UNCHANGED req
    BY <2>1
  <2>2. ASSUME NEW x \in AllReqs \cup {None}, req' = Given(x), x \in AllReqs \ {"fifo"} => req[x].own # "queued"
        PROVE  \A r \in AllReqs : req'[r] = req[r] \/ (req[r].own # "queued" /\ req'[r].n = 0)
    BY <2>2, ReqFacts DEF Given, FreeReq, TransferInv, TransferTypes
  <2> QED BY <2>1, <2>2
<1> QED BY <1>1, <1>2, ReportKept

LEMMA ReportStep ==
  ASSUME TransferInv, TransferInv', Sizes, ReportInv, [Next]_vars PROVE ReportInv'
<1>0. TransferTypes /\ CursorInv /\ GiveInv /\ QueueInv
  BY DEF TransferInv
<1>1. ASSUME UNCHANGED <<ep, req, data>> PROVE ReportInv'
  BY <1>1, ReportQuiet
<1>2. ASSUME FlagsOnly, UNCHANGED <<req, data>> PROVE ReportInv'
  BY <1>2, ReportQuiet
<1>3. CASE Timer
  <2>1. CASE FrameEnds \/ SkipUrb \/ SetupDefers \/ UrbGiven \/ ReturnUnlinked \/ ReturnNoEndpoint
    BY <1>1, <2>1 DEF FrameEnds, SkipUrb, SetupDefers, UrbGiven, ReturnUnlinked, ReturnNoEndpoint, Return, GadgetSide
  <2>2. CASE TimerFires \/ TransferBegins
    <3>1. FlagsOnly
      BY <1>0, <2>2, ScanFlags
    <3> QED BY <1>2, <2>2, <3>1 DEF TimerFires, TransferBegins, Host
  <2>3. CASE ReturnHalted \/ ControlHandled \/ SetupCall \/ SetupFails \/ TransferEnds
    <3>1. FlagsOnly
      BY <2>3, ReturnFlags
    <3> QED BY <1>2, <2>3, <3>1 DEF ReturnHalted, ControlHandled, SetupCall, SetupFails, TransferEnds
  <2>4. CASE GiveStale
    BY <2>4, ReportTakesStep
  <2>5. CASE StaleGiven \/ RequestGiven
    <3>1. /\ req' = Given(timer.then) /\ UNCHANGED <<ep, data>> /\ timer.then \in AllReqs \cup {None}
      BY <1>0, <2>5 DEF StaleGiven, RequestGiven, TransferTypes, FrameRecord
    <3>2. timer.then \in AllReqs \ {"fifo"} => req[timer.then].own # "queued"
      BY <1>0 DEF GiveInv
    <3> QED BY <3>1, <3>2, ReportQuiet
  <2>6. ASSUME NEW l \in ReqLengths \cup {0}, SetupAnswers(l) PROVE ReportInv'
    <3>1. "ep0" \in Eps
      BY <1>0, <2>6, CurFacts DEF SetupAnswers, CursorInv, ForDriver, None
    <3> QED BY <2>6, <3>1, ReqFacts, ReportQueued DEF SetupAnswers
  <2>7. CASE TransferMoves
    BY <2>7, ReportMovesStep
  <2> QED BY <1>3, <2>1, <2>2, <2>3, <2>4, <2>5, <2>6, <2>7 DEF Timer
<1>4. CASE Nuke
  <2>1. ASSUME NEW j \in Nukers, NukeGiven(j) PROVE ReportInv'
    <3>1. PICK r \in AllReqs \cup {None} : r = nuked[j]
      BY <1>0 DEF TransferTypes
    <3>2. req' = Given(r) /\ UNCHANGED <<ep, data>>
      BY <2>1, <3>1 DEF NukeGiven
    <3>3. r \in AllReqs \ {"fifo"} => req[r].own # "queued"
      BY <1>0, <3>1 DEF GiveInv, NukedBy
    <3> QED BY <3>2, <3>3, ReportQuiet
  <2> QED BY <1>4, <2>1, ReportTakesStep DEF Nuke
<1>5. CASE Disconnect \/ Connect \/ RootHubSuspends \/ RootHubResumes \/ \E u \in Urbs : UrbDequeue(u)
  BY <1>1, <1>5 DEF Disconnect, Connect, RootHubSuspends, RootHubResumes, UrbDequeue, GadgetSide
<1>6. ASSUME NEW e \in Eps,
             Enable(e) \/ Disable(e) \/ \E value, wedged \in BOOLEAN : SetHalt(e, value, wedged)
      PROVE  ReportInv'
  <2>1. FlagsOnly
    BY <1>0, <1>6, DriverFlags
  <2> QED BY <1>2, <1>6, <2>1 DEF Enable, Disable, SetHalt
<1>7. ASSUME NEW e \in Eps, NEW r \in Reqs, Dequeue(e, r) \/ \E l \in ReqLengths : Queue(e, r, l) \/ QueueCheck(e, r, l)
      PROVE  ReportInv'
  <2>1. r \in AllReqs \ {"fifo"}
    BY ReqFacts
  <2>2. CASE Dequeue(e, r)
    BY <2>2, ReportTakesStep
  <2>3. ASSUME NEW l \in ReqLengths, Queue(e, r, l) PROVE ReportInv'
    <3>1. PICK zero : zero = FALSE
      OBVIOUS
    <3>2. Queued(e, r, l, zero, None) /\ req[r].own = "driver"
      BY <2>3, <3>1 DEF Queue
    <3> QED BY <2>1, <3>2, ReportQueued
  <2>4. ASSUME NEW l \in ReqLengths, QueueCheck(e, r, l) PROVE ReportInv'
    <3>1. PICK x : x = [FreeReq EXCEPT !.own = "checked", !.len = l, !.for = e]
      OBVIOUS
    <3>2. req' = [req EXCEPT ![r] = x] /\ UNCHANGED <<ep, data>> /\ req[r].own = "driver"
      BY <2>4, <3>1 DEF QueueCheck
    <3>3. x.n = 0
      BY <3>1 DEF FreeReq
    <3>4. \A s \in AllReqs : req'[s] = req[s] \/ (req[s].own # "queued" /\ req'[s].n = 0)
      BY <1>0, <3>2, <3>3 DEF TransferTypes
    <3> QED BY <3>2, <3>4, ReportKept
  <2> QED BY <1>7, <2>2, <2>3, <2>4
<1>8. ASSUME NEW e \in Eps, NEW u \in Urbs, NEW l \in UrbLengths \cup {0}, NEW s \in Setups \cup {None},
             UrbEnqueue(u, e, l, s)
      PROVE  ReportInv'
  BY <1>1, <1>8 DEF UrbEnqueue, GadgetSide
<1>9. ASSUME NEW r \in Reqs, QueueAdd(r) PROVE ReportInv'
  <2>1. r \in AllReqs \ {"fifo"} /\ req[r].for \in Eps
    BY <1>0, <1>9, ReqFacts DEF QueueAdd, GiveInv
  <2>2. PICK zero : zero = FALSE
    OBVIOUS
  <2>3. Queued(req[r].for, r, req[r].len, zero, None) /\ req[r].own = "checked"
    BY <1>9, <2>2 DEF QueueAdd
  <2> QED BY <2>1, <2>3, ReportQueued
<1>10. ASSUME NEW l \in ReqLengths \cup {0}, LateAnswer(l) PROVE ReportInv'
  <2>1. "ep0" \in Eps
    BY <1>0, <1>10 DEF LateAnswer, CursorInv
  <2>2. PICK zero : zero = FALSE
    OBVIOUS
  <2>3. Queued("ep0", "ep0_req", l, zero, late) /\ req["ep0_req"].own = "driver"
    BY <1>10, <2>2 DEF LateAnswer
  <2> QED BY <2>1, <2>3, ReqFacts, ReportQueued
<1>11. CASE UNCHANGED vars
  BY <1>1, <1>11 DEF vars
<1> QED BY <1>3, <1>4, <1>5, <1>6, <1>7, <1>8, <1>9, <1>10, <1>11 DEF Next

-----------------------------------------------------------------------------
(* Control transfers.  Of the listed urbs of ep0 the first one alone may   *)
(* have begun (OneOld): the scan does not get past it but to go on to the  *)
(* other endpoints' (Passed), and goes to its data once its setup was      *)
(* taken (InData).  What is queued on ep0 in the meantime answers it       *)
(* (OwnAnswer), so that its data comes from nothing else (OwnData).        *)
OnControl(i) == urb[urbp_list[i]].ep = "ep0"

OneOld == \A i, j \in DOMAIN urbp_list : i < j /\ OnControl(i) /\ OnControl(j) => urb[urbp_list[j]].new

Passed ==
  /\ timer.pc = "urb" => timer.at = 1
  /\ timer.pc \in {"scan", "transfer", "request", "setup"} =>
       \A i \in DOMAIN urbp_list : i < timer.at /\ OnControl(i) =>
         ep["ep0"].already_seen \/ timer.total <= 0 \/ (timer.pc = "scan" /\ ~running)

InData ==
  /\ timer.pc = "setup" => OnControl(timer.at)
  /\ timer.pc \in {"transfer", "request", "setup"} /\ OnControl(timer.at) =>
       ep["ep0"].already_seen /\ ~ep["ep0"].setup_stage /\ ~urb[urbp_list[timer.at]].new

OwnAnswer ==
  \A i \in DOMAIN urbp_list : OnControl(i) /\ ~urb[urbp_list[i]].new /\ ~ep["ep0"].setup_stage =>
    /\ \A k \in DOMAIN ep["ep0"].queue : req[ep["ep0"].queue[k]].for = urbp_list[i]
    /\ late \in {None, urbp_list[i]}

OwnData == \A u \in Urbs : urb[u].ep = "ep0" => urb[u].took \subseteq {u}

NotControl == \A r \in AllReqs : req[r].own = "checked" => req[r].for # "ep0"

ControlInv == OneOld /\ Passed /\ InData /\ OwnAnswer /\ OwnData /\ NotControl

(* Steps that begin no urb, list none and take none from the list.         *)
SameList ==
  /\ urbp_list' = urbp_list
  /\ \A i \in DOMAIN urbp_list : /\ urb'[urbp_list[i]].ep = urb[urbp_list[i]].ep
                                 /\ urb'[urbp_list[i]].new <=> urb[urbp_list[i]].new

SameFlags ==
  "ep0" \in Eps => /\ ep'["ep0"].already_seen <=> ep["ep0"].already_seen
                   /\ ep'["ep0"].setup_stage <=> ep["ep0"].setup_stage

NoneQueued ==
  "ep0" \in Eps => \A k \in DOMAIN ep'["ep0"].queue : \E m \in DOMAIN ep["ep0"].queue :
                     req'[ep'["ep0"].queue[k]].for = req[ep["ep0"].queue[m]].for

LEMMA OneOldKept ==
  ASSUME OneOld, SameList PROVE OneOld'
BY DEF OneOld, SameList, OnControl

LEMMA ControlEps ==
  ASSUME TransferInv, NEW i \in DOMAIN urbp_list, OnControl(i) PROVE "ep0" \in Eps
BY DEF TransferInv, CursorInv, OnControl

LEMMA AnswerKept ==
  ASSUME TransferInv, OwnAnswer, SameList, "ep0" \in Eps => (ep'["ep0"].setup_stage <=> ep["ep0"].setup_stage),
         NoneQueued, late' \in {late, None}
  PROVE  OwnAnswer'
<1> SUFFICES ASSUME NEW i \in DOMAIN urbp_list', OnControl(i)', ~urb'[urbp_list'[i]].new, ~ep'["ep0"].setup_stage
             PROVE  /\ \A k \in DOMAIN ep'["ep0"].queue : req'[ep'["ep0"].queue[k]].for = urbp_list'[i]
                    /\ late' \in {None, urbp_list'[i]}
  BY DEF OwnAnswer
<1>1. i \in DOMAIN urbp_list /\ OnControl(i) /\ ~urb[urbp_list[i]].new /\ urbp_list'[i] = urbp_list[i]
  BY DEF SameList, OnControl
<1>2. "ep0" \in Eps
  BY <1>1, ControlEps
<1>3. /\ \A k \in DOMAIN ep["ep0"].queue : req[ep["ep0"].queue[k]].for = urbp_list[i]
      /\ late \in {None, urbp_list[i]}
  BY <1>1, <1>2 DEF OwnAnswer
<1> QED BY <1>1, <1>2, <1>3 DEF NoneQueued

(* A scan that begins, and the places outside one.                         *)
LEMMA OutOfScan ==
  ASSUME TransferInv',
         timer'.pc \in {"idle", "stale"} \/ (timer'.pc \in {"scan", "urb"} /\ timer'.at = 1)
  PROVE  Passed' /\ InData'
<1>1. \A i \in DOMAIN urbp_list' : ~(i < 1)
  BY DEF TransferInv, TransferTypes
<1> QED BY <1>1 DEF Passed, InData

LEMMA ControlRest ==
  ASSUME TransferInv, ControlInv, SameList, SameFlags, UNCHANGED timer, timer.pc = "scan" => (running' => running)
  PROVE  OneOld' /\ Passed' /\ InData'
<1>1. OneOld'
  BY OneOldKept DEF ControlInv
<1>2. Passed'
  BY ControlEps DEF ControlInv, Passed, SameList, SameFlags, OnControl
<1>3. InData'
  <2>1. timer.pc \in {"transfer", "request", "setup"} => timer.at \in DOMAIN urbp_list
    BY DEF TransferInv, CursorInv
  <2> QED BY <2>1, ControlEps DEF ControlInv, InData, SameList, SameFlags, OnControl
<1> QED BY <1>1, <1>2, <1>3

LEMMA ControlQuiet ==
  ASSUME TransferInv, ControlInv, SameList, SameFlags, NoneQueued, UNCHANGED timer, late' \in {late, None},
         timer.pc = "scan" => (running' => running), OwnData', NotControl'
  PROVE  ControlInv'
<1>1. OwnAnswer'
  BY AnswerKept DEF ControlInv, SameFlags
<1> QED BY <1>1, ControlRest DEF ControlInv

LEMMA OwnDataStep ==
  ASSUME TransferInv, TransferInv', Sizes, ControlInv, [Next]_vars PROVE OwnData'
<1>1. CASE ~TransferMoves
  <2>1. SameUrbs
    BY <1>1, UrbEffect
  <2> QED BY <2>1 DEF SameUrbs, SameUrb, ControlInv, OwnData
<1>2. CASE TransferMoves
  <2>1. /\ timer.pc = "transfer" /\ timer.at \in DOMAIN urbp_list /\ Cur \in Urbs /\ CurEp \in Eps
        /\ Cur = urbp_list[timer.at] /\ CurEp = urb[Cur].ep
    BY <1>2, MovesFacts DEF Cur, CurEp
  <2>2. PICK r \in AllReqs, c \in [len : Nat, req_status : Statuses, urb_status : Statuses] :
          /\ 1 \in DOMAIN ep[CurEp].queue /\ r = ep[CurEp].queue[1] /\ r = Head(ep[CurEp].queue)
          /\ c = Chunk(Cur, r, timer.limit)
    BY <1>2, MovesFacts
  <2>3. /\ \A v \in Urbs \ {Cur} : urb'[v] = urb[v]
        /\ urb'[Cur].took = urb[Cur].took \cup (IF c.len > 0 THEN {req[r].for} ELSE {})
        /\ urb'[Cur].ep = urb[Cur].ep
    BY <1>2, <2>2, MovesEffect
  <2>4. CurEp = "ep0" => req[r].for = Cur
    <3> SUFFICES ASSUME CurEp = "ep0" PROVE req[r].for = Cur
      OBVIOUS
    <3>1. OnControl(timer.at)
      BY <2>1 DEF OnControl
    <3>2. ~ep["ep0"].setup_stage /\ ~urb[urbp_list[timer.at]].new
      BY <2>1, <3>1 DEF ControlInv, InData
    <3>3. \A k \in DOMAIN ep["ep0"].queue : req[ep["ep0"].queue[k]].for = urbp_list[timer.at]
      BY <2>1, <3>1, <3>2 DEF ControlInv, OwnAnswer
    <3> QED BY <2>1, <2>2, <3>3, Zenon
  <2> QED BY <2>1, <2>3, <2>4 DEF ControlInv, OwnData
<1> QED BY <1>1, <1>2

LEMMA NotControlStep ==
  ASSUME TransferInv, TransferInv', Sizes, ControlInv, [Next]_vars PROVE NotControl'
<1>1. CASE ~TransferMoves
  <2>1. Anew
    BY <1>1, ReqEffect
  <2> QED BY <2>1 DEF Anew, ControlInv, NotControl
<1>2. CASE TransferMoves
  <2>1. PICK r \in AllReqs, c \in [len : Nat, req_status : Statuses, urb_status : Statuses] :
          r = Head(ep[CurEp].queue) /\ req[r].own = "queued" /\ c = Chunk(Cur, r, timer.limit)
    BY <1>2, MovesFacts
  <2>2. \A s \in AllReqs \ {r} : req'[s] = req[s]
    BY <1>2, <2>1, MovesEffect
  <2>3. TransferTypes /\ req \in [AllReqs -> ReqRecord]
    BY DEF TransferInv, TransferTypes
  <2>4. req'[r].own # "checked"
    <3>1. CASE c.req_status = None
      <4>1. PICK k \in Nat : k = c.len
        OBVIOUS
      <4>2. req' = [req EXCEPT ![r].actual = req[r].actual + k]
        BY <1>2, <2>1, <3>1, <4>1, Zenon DEF TransferMoves
      <4>3. req' = [req EXCEPT ![r] = [req[r] EXCEPT !.actual = req[r].actual + k]]
        BY <2>3, <4>2
      <4>4. req'[r].own = req[r].own
        BY <2>3, <4>3 DEF ReqRecord
      <4> QED BY <2>1, <4>4
    <3>2. CASE c.req_status # None
      <4>1. req' = Taken(r)
        BY <1>2, <2>1, <3>2, Zenon DEF TransferMoves
      <4> QED BY <2>3, <4>1, TakenFacts
    <3> QED BY <3>1, <3>2
  <2> QED BY <2>2, <2>4 DEF ControlInv, NotControl
<1> QED BY <1>1, <1>2

(* An urb is returned: those after it stay in order.                       *)
Place(i) == IF i < timer.at THEN i ELSE i + 1

LEMMA ReturnedList ==
  ASSUME TransferInv, timer.at \in DOMAIN urbp_list, NEW status, Return(Cur, status, TRUE)
  PROVE  \A i \in DOMAIN urbp_list' : /\ i \in Nat /\ Place(i) \in DOMAIN urbp_list \ {timer.at}
                                      /\ urbp_list'[i] = urbp_list[Place(i)]
                                      /\ urb'[urbp_list'[i]] = urb[urbp_list[Place(i)]]
<1>1. /\ TransferTypes /\ CursorInv /\ urb \in [Urbs -> HostUrb] /\ urbp_list \in Seq(Urbs) /\ timer.at \in Nat
      /\ Cur \in Urbs /\ Cur = urbp_list[timer.at]
  BY CurFacts DEF TransferInv, TransferTypes, Cur, FrameRecord
<1>2. /\ urbp_list' = Without(urbp_list, Cur)
      /\ urb' = [urb EXCEPT ![Cur].state = "giving", ![Cur].status = status, ![Cur].new = FALSE]
  BY DEF Return
<1>3. PICK k \in DOMAIN urbp_list : urbp_list[k] = Cur /\ urbp_list' = Removed(urbp_list, k)
  BY <1>1, <1>2, WithoutRemoved
<1>4. k = timer.at
  BY <1>1, <1>3 DEF CursorInv
<1>5. \A i \in DOMAIN urbp_list' : /\ i \in Nat /\ Place(i) \in DOMAIN urbp_list \ {timer.at}
                                   /\ urbp_list'[i] = urbp_list[Place(i)]
  <2>1. /\ Len(urbp_list) \in Nat /\ DOMAIN urbp_list = 1 .. Len(urbp_list)
        /\ DOMAIN urbp_list' = 1 .. Len(urbp_list) - 1
        /\ \A i \in 1 .. Len(urbp_list) - 1 : urbp_list'[i] = urbp_list[IF i < timer.at THEN i ELSE i + 1]
    BY <1>1, <1>3, <1>4 DEF Removed
  <2> QED BY <1>1, <2>1 DEF Place
<1>6. \A v \in Urbs \ {Cur} : urb'[v] = urb[v]
  BY <1>1, <1>2
<1>7. \A i \in DOMAIN urbp_list \ {timer.at} : urbp_list[i] \in Urbs \ {Cur}
  BY <1>1 DEF CursorInv
<1> QED BY <1>5, <1>6, <1>7

(* No urb of ep0 is before the one that is looked at.                      *)
FirstControl == \A i \in DOMAIN urbp_list : i < timer.at => ~OnControl(i)

LEMMA ControlReturns ==
  ASSUME TransferInv, TransferInv', ControlInv, timer.at \in DOMAIN urbp_list, NEW status,
         Return(Cur, status, TRUE), FlagsOnly, UNCHANGED <<req, late>>, OwnData', NotControl',
         \/ "ep0" \in Eps => (ep'["ep0"].setup_stage <=> ep["ep0"].setup_stage)
         \/ FirstControl /\ OnControl(timer.at)
  PROVE  ControlInv'
<1>1. timer.at \in Nat /\ timer \in FrameRecord /\ \A i \in DOMAIN urbp_list : i \in Nat
  BY DEF TransferInv, TransferTypes, FrameRecord
<1>2. \A i \in DOMAIN urbp_list' : /\ i \in Nat /\ Place(i) \in DOMAIN urbp_list \ {timer.at}
                                   /\ urbp_list'[i] = urbp_list[Place(i)]
                                   /\ urb'[urbp_list'[i]] = urb[urbp_list[Place(i)]]
  BY ReturnedList
<1>3. \A i, j \in Nat : i < j => Place(i) < Place(j)
  BY <1>1 DEF Place
<1>4. OneOld'
  BY <1>2, <1>3 DEF ControlInv, OneOld, OnControl
<1>5. Passed' /\ InData'
  <2>1. timer' = [timer EXCEPT !.pc = "urb", !.at = 1, !.limit = 0]
    BY DEF Return
  <2>2. timer'.pc = "urb" /\ timer'.at = 1
    BY <1>1, <2>1 DEF FrameRecord
  <2> QED BY <2>2, OutOfScan
<1>6. OwnAnswer'
  <2> SUFFICES ASSUME NEW i \in DOMAIN urbp_list', OnControl(i)', ~urb'[urbp_list'[i]].new, ~ep'["ep0"].setup_stage
               PROVE  /\ \A k \in DOMAIN ep'["ep0"].queue : req'[ep'["ep0"].queue[k]].for = urbp_list'[i]
                      /\ late' \in {None, urbp_list'[i]}
    BY DEF OwnAnswer
  <2>1. PICK o \in DOMAIN urbp_list \ {timer.at} : /\ o = Place(i) /\ urbp_list'[i] = urbp_list[o]
                                                   /\ urb'[urbp_list'[i]] = urb[urbp_list[o]]
    BY <1>2
  <2>2. OnControl(o) /\ ~urb[urbp_list[o]].new
    BY <2>1 DEF OnControl
  <2>3. "ep0" \in Eps /\ ep'["ep0"].queue = ep["ep0"].queue
    BY <2>2, ControlEps DEF FlagsOnly
  <2>4. ~ep["ep0"].setup_stage
    <3>1. CASE FirstControl /\ OnControl(timer.at)
      <4>1. timer.at < o
        BY <1>1, <2>1, <2>2, <3>1 DEF FirstControl
      <4> QED BY <2>2, <3>1, <4>1 DEF ControlInv, OneOld
    <3> QED BY <2>3, <3>1
  <2> QED BY <2>1, <2>2, <2>3, <2>4 DEF ControlInv, OwnAnswer
<1> QED BY <1>4, <1>5, <1>6 DEF ControlInv

(* And one joins the list.                                                 *)
LEMMA ControlEnqueued ==
  ASSUME TransferInv, TransferInv', ControlInv, NEW u \in Urbs, NEW e \in Eps, NEW l, NEW s,
         UrbEnqueue(u, e, l, s), OwnData', NotControl'
  PROVE  ControlInv'
<1>1. /\ CursorInv /\ urb \in [Urbs -> HostUrb] /\ urbp_list \in Seq(Urbs) /\ UNCHANGED <<ep, req, late, timer, running>>
      /\ urb[u].state = "free" /\ timer.pc \notin {"scan", "transfer"} /\ urbp_list' = Append(urbp_list, u)
      /\ urb' = [urb EXCEPT ![u] = NewUrb(e, l, s)]
  BY DEF TransferInv, TransferTypes, UrbEnqueue, LockFree, GadgetSide, Port
<1>2. PICK n : n = Len(urbp_list) + 1
  OBVIOUS
<1>3. /\ DOMAIN urbp_list' = DOMAIN urbp_list \cup {n} /\ urbp_list'[n] = u
      /\ \A i \in DOMAIN urbp_list : urbp_list'[i] = urbp_list[i] /\ urbp_list[i] \in Urbs /\ i \in Nat /\ i < n
      /\ n \in Nat
  BY <1>1, <1>2
<1>4. \A i \in DOMAIN urbp_list : urbp_list[i] # u /\ urb'[urbp_list'[i]] = urb[urbp_list[i]]
  BY <1>1, <1>3 DEF CursorInv
<1>5. urb'[u].new <=> urb'[u].ep = "ep0"
  <2>1. PICK new \in BOOLEAN : new <=> e = "ep0"
    OBVIOUS
  <2>2. PICK x : x = [FreeUrb EXCEPT !.ep = e, !.setup = s, !.len = l, !.state = "listed", !.new = new]
    OBVIOUS
  <2>3. x = NewUrb(e, l, s)
    <3>1. new = (e = "ep0")
      BY <2>1
    <3> QED BY <2>2, <3>1, Zenon DEF NewUrb
  <2>4. x.ep = e /\ x.new = new
    BY <2>2 DEF FreeUrb
  <2> QED BY <1>1, <2>1, <2>3, <2>4
<1>6. \A i \in DOMAIN urbp_list' : \/ i \in DOMAIN urbp_list /\ urbp_list'[i] = urbp_list[i] /\ i < n
                                      /\ urb'[urbp_list'[i]] = urb[urbp_list[i]]
                                   \/ i = n /\ (OnControl(i)' => urb'[urbp_list'[i]].new)
  BY <1>3, <1>4, <1>5 DEF OnControl
<1>7. OneOld'
  <2> SUFFICES ASSUME NEW i \in DOMAIN urbp_list', NEW j \in DOMAIN urbp_list', i < j, OnControl(i)', OnControl(j)'
               PROVE  urb'[urbp_list'[j]].new
    BY DEF OneOld
  <2>1. CASE j = n
    BY <1>3, <1>6, <2>1
  <2>2. CASE j \in DOMAIN urbp_list /\ urb'[urbp_list'[j]] = urb[urbp_list[j]] /\ j < n
    <3>1. i \in DOMAIN urbp_list /\ urb'[urbp_list'[i]] = urb[urbp_list[i]]
      BY <1>3, <1>6, <2>2
    <3> QED BY <2>2, <3>1 DEF ControlInv, OneOld, OnControl
  <2> QED BY <1>6, <2>1, <2>2
<1>8. timer.pc \in {"setup", "transfer", "request"} => timer.at \in DOMAIN urbp_list
  BY <1>1 DEF CursorInv
<1>9. Passed'
  <2>1. timer.pc = "urb" => timer.at = 1
    BY DEF ControlInv, Passed
  <2>2. ASSUME timer.pc \in {"request", "setup"}, NEW i \in DOMAIN urbp_list', i < timer.at, OnControl(i)'
        PROVE  ep["ep0"].already_seen \/ timer.total <= 0
    <3>1. i \in DOMAIN urbp_list /\ urb'[urbp_list'[i]] = urb[urbp_list[i]]
      BY <1>3, <1>4, <1>8, <2>2
    <3> QED BY <2>2, <3>1 DEF ControlInv, Passed, OnControl
  <2> QED BY <1>1, <2>1, <2>2 DEF Passed
<1>10. InData'
  BY <1>1, <1>3, <1>4, <1>8 DEF ControlInv, InData, OnControl
<1>11. OwnAnswer'
  BY <1>1, <1>3, <1>6 DEF ControlInv, OwnAnswer, OnControl
<1> QED BY <1>7, <1>9, <1>10, <1>11 DEF ControlInv

LEMMA QueueSame ==
  ASSUME TransferInv, "ep0" \in Eps => ep'["ep0"].queue = ep["ep0"].queue,
         \A r \in AllReqs : req[r].own = "queued" => req'[r] = req[r]
  PROVE  NoneQueued
<1>1. TransferTypes /\ QueueInv
  BY DEF TransferInv
<1> SUFFICES ASSUME "ep0" \in Eps, NEW k \in DOMAIN ep'["ep0"].queue
             PROVE  \E m \in DOMAIN ep["ep0"].queue : req'[ep'["ep0"].queue[k]].for = req[ep["ep0"].queue[m]].for
  BY DEF NoneQueued
<1>2. PICK r : k \in DOMAIN ep["ep0"].queue /\ r = ep["ep0"].queue[k] /\ r = ep'["ep0"].queue[k]
  OBVIOUS
<1>3. r \in AllReqs /\ req[r].own = "queued"
  BY <1>1, <1>2, QueueTypes DEF QueueInv
<1> QED BY <1>2, <1>3

LEMMA QueueTaken ==
  ASSUME TransferInv, NEW e \in Eps, NEW k \in DOMAIN ep[e].queue, ep'[e].queue = Removed(ep[e].queue, k),
         \A f \in Eps \ {e} : ep'[f].queue = ep[f].queue,
         \A s \in AllReqs \ {ep[e].queue[k]} : req'[s] = req[s]
  PROVE  NoneQueued
<1>1. TransferTypes /\ QueueInv
  BY DEF TransferInv
<1>2. PICK x : x = ep[e].queue[k]
  OBVIOUS
<1> SUFFICES ASSUME "ep0" \in Eps, NEW i \in DOMAIN ep'["ep0"].queue
             PROVE  \E m \in DOMAIN ep["ep0"].queue : req'[ep'["ep0"].queue[i]].for = req[ep["ep0"].queue[m]].for
  BY DEF NoneQueued
<1>3. PICK m \in DOMAIN ep["ep0"].queue : ep'["ep0"].queue[i] = ep["ep0"].queue[m] /\ ~(e = "ep0" /\ m = k)
  <2>1. CASE e # "ep0"
    BY <2>1
  <2>2. CASE e = "ep0"
    <3>1. /\ Len(ep["ep0"].queue) \in Nat /\ DOMAIN ep["ep0"].queue = 1 .. Len(ep["ep0"].queue)
          /\ k \in 1 .. Len(ep["ep0"].queue)
      BY <1>1, <2>2, QueueTypes
    <3>2. /\ i \in 1 .. Len(ep["ep0"].queue) - 1
          /\ ep'["ep0"].queue[i] = ep["ep0"].queue[IF i < k THEN i ELSE i + 1]
      BY <2>2 DEF Removed
    <3>3. PICK m \in DOMAIN ep["ep0"].queue : m = (IF i < k THEN i ELSE i + 1) /\ m # k
      BY <3>1, <3>2
    <3> QED BY <3>2, <3>3
  <2> QED BY <2>1, <2>2
<1>4. ep["ep0"].queue[m] \in AllReqs \ {x}
  BY <1>1, <1>2, <1>3, QueueTypes DEF QueueInv
<1> QED BY <1>2, <1>3, <1>4

LEMMA GivenSame ==
  ASSUME TransferInv, NEW x \in AllReqs \cup {None}, req' = Given(x),
         x \in AllReqs \ {"fifo"} => req[x].own # "queued"
  PROVE  \A r \in AllReqs : req[r].own = "queued" => req'[r] = req[r]
BY ReqFacts DEF Given, TransferInv, TransferTypes

(* What is queued, on e.                                                   *)
LEMMA QueuedSame ==
  ASSUME TransferInv, NEW e \in Eps, NEW r \in AllReqs \ {"fifo"}, req[r].own \in {"driver", "checked"},
         NEW l, NEW zero, NEW u, Queued(e, r, l, zero, u)
  PROVE  /\ \A s \in AllReqs : req[s].own = "queued" => req'[s] = req[s]
         /\ \A f \in Eps \ {e} : ep'[f] = ep[f]
         /\ e = "ep0" => /\ ep'["ep0"].queue = Append(ep["ep0"].queue, r) /\ req'[r].for = u
                         /\ ep'["ep0"].already_seen = ep["ep0"].already_seen
                         /\ ep'["ep0"].setup_stage = ep["ep0"].setup_stage
<1>1. TransferTypes /\ req \in [AllReqs -> ReqRecord] /\ ep \in [Eps -> EpRecord] /\ "fifo" \in AllReqs
  BY ReqFacts DEF TransferInv, TransferTypes
<1>2. PICK n : n = (IF e = "in" THEN Len(data) + 1 ELSE 0)
  OBVIOUS
<1>3. PICK f \in BOOLEAN : f <=> UsesFifo(e, l)
  OBVIOUS
<1>4. PICK x : x = (IF f THEN "fifo" ELSE r)
  OBVIOUS
<1>5. PICK new : new = [len |-> l, actual |-> 0, zero |-> zero, own |-> "queued", n |-> n, for |-> u]
  OBVIOUS
<1>6. /\ req' = IF f THEN [req EXCEPT !["fifo"] = new, ![r] = FreeReq] ELSE [req EXCEPT ![r] = new]
      /\ ep' = [ep EXCEPT ![e].queue = Append(ep[e].queue, x)]
  BY <1>2, <1>3, <1>4, <1>5 DEF Queued
<1>7. (f => req["fifo"].own = "driver" /\ e = "in") /\ new.for = u
  BY <1>3, <1>5 DEF UsesFifo
<1>8. \A s \in AllReqs : req[s].own = "queued" => req'[s] = req[s]
  BY <1>1, <1>6, <1>7
<1>9. PICK y : y = [ep[e] EXCEPT !.queue = Append(ep[e].queue, x)]
  OBVIOUS
<1>10. ep' = [ep EXCEPT ![e] = y] /\ ep[e] \in EpRecord
  BY <1>1, <1>6, <1>9
<1>11. /\ y.queue = Append(ep[e].queue, x) /\ y.already_seen = ep[e].already_seen /\ y.setup_stage = ep[e].setup_stage
  BY <1>9, <1>10 DEF EpRecord
<1>12. ep'[e] = y /\ \A g \in Eps \ {e} : ep'[g] = ep[g]
  BY <1>1, <1>10
<1>13. e = "ep0" => x = r /\ req'[r] = new
  BY <1>1, <1>4, <1>6, <1>7
<1> QED BY <1>7, <1>8, <1>11, <1>12, <1>13

(* The steps outside the timer.                                            *)
LEMMA ControlDriver ==
  ASSUME TransferInv, TransferInv', ControlInv, OwnData', NotControl',
         NEW e \in Eps,
         Enable(e) \/ Disable(e) \/ \E value, wedged \in BOOLEAN : SetHalt(e, value, wedged)
  PROVE  ControlInv'
<1>1. TransferTypes /\ ep \in [Eps -> EpRecord]
  BY DEF TransferInv, TransferTypes
<1>2. FlagsOnly
  BY <1>1, DriverFlags
<1>3. /\ UNCHANGED <<urb, urbp_list, req, late, timer, running>>
      /\ \/ ep' = [ep EXCEPT ![e].desc = TRUE, ![e].halted = FALSE, ![e].wedged = FALSE]
         \/ ep' = [ep EXCEPT ![e].desc = FALSE]
         \/ \E value, wedged \in BOOLEAN :
              ep' = [ep EXCEPT ![e].halted = value, ![e].wedged = value /\ (ep[e].wedged \/ wedged)]
  BY DEF Enable, Disable, SetHalt, Host, Port
<1>4. PICK x \in EpRecord : x = ep[e]
  BY <1>1
<1>5. /\ \A f \in Eps \ {e} : ep'[f] = ep[f]
      /\ \/ ep'[e] = [x EXCEPT !.desc = TRUE, !.halted = FALSE, !.wedged = FALSE]
         \/ ep'[e] = [x EXCEPT !.desc = FALSE]
         \/ \E value, wedged \in BOOLEAN : ep'[e] = [x EXCEPT !.halted = value, !.wedged = wedged]
  <2>1. ASSUME NEW value \in BOOLEAN, NEW wedged \in BOOLEAN,
               ep' = [ep EXCEPT ![e].halted = value, ![e].wedged = value /\ (ep[e].wedged \/ wedged)]
        PROVE  /\ \A f \in Eps \ {e} : ep'[f] = ep[f]
               /\ \E v, w \in BOOLEAN : ep'[e] = [x EXCEPT !.halted = v, !.wedged = w]
    <3>1. PICK w \in BOOLEAN : w = (value /\ (ep[e].wedged \/ wedged))
      OBVIOUS
    <3>2. ep' = [ep EXCEPT ![e] = [x EXCEPT !.halted = value, !.wedged = w]]
      BY <1>1, <1>4, <2>1, <3>1
    <3> QED BY <1>1, <3>2
  <2> QED BY <1>1, <1>3, <1>4, <2>1, Zenon
<1>6. ep'[e].already_seen = ep[e].already_seen /\ ep'[e].setup_stage = ep[e].setup_stage
  <2>1. PICK y : y = ep'[e]
    OBVIOUS
  <2>2. CASE y = [x EXCEPT !.desc = TRUE, !.halted = FALSE, !.wedged = FALSE] \/ y = [x EXCEPT !.desc = FALSE]
    <3>1. y.already_seen = x.already_seen /\ y.setup_stage = x.setup_stage
      BY <2>2 DEF EpRecord
    <3> QED BY <1>4, <2>1, <3>1
  <2>3. ASSUME NEW value \in BOOLEAN, NEW wedged \in BOOLEAN, y = [x EXCEPT !.halted = value, !.wedged = wedged]
        PROVE  ep'[e].already_seen = ep[e].already_seen /\ ep'[e].setup_stage = ep[e].setup_stage
    <3>1. y.already_seen = x.already_seen /\ y.setup_stage = x.setup_stage
      BY <2>3 DEF EpRecord
    <3> QED BY <1>4, <2>1, <3>1
  <2> QED BY <1>5, <2>1, <2>2, <2>3, Zenon
<1>7. SameList /\ SameFlags
  BY <1>3, <1>5, <1>6, Zenon DEF SameList, SameFlags
<1>8. NoneQueued
  BY <1>2, <1>3, QueueSame DEF FlagsOnly
<1> QED BY <1>3, <1>7, <1>8, ControlQuiet

LEMMA ControlQueues ==
  ASSUME TransferInv, TransferInv', ControlInv, OwnData', NotControl', UNCHANGED <<urb, urbp_list, timer, running>>,
         NEW e \in Eps, NEW r \in AllReqs \ {"fifo"}, req[r].own \in {"driver", "checked"},
         NEW l, NEW zero, NEW u, Queued(e, r, l, zero, u),
         e = "ep0" => u = late /\ late # None /\ late' = None, e # "ep0" => late' = late
  PROVE  ControlInv'
<1>1. SameList
  BY DEF SameList
<1>2. /\ \A s \in AllReqs : req[s].own = "queued" => req'[s] = req[s]
      /\ \A f \in Eps \ {e} : ep'[f] = ep[f]
      /\ e = "ep0" => /\ ep'["ep0"].queue = Append(ep["ep0"].queue, r) /\ req'[r].for = u
                      /\ ep'["ep0"].already_seen = ep["ep0"].already_seen
                      /\ ep'["ep0"].setup_stage = ep["ep0"].setup_stage
  BY QueuedSame
<1>3. SameFlags
  BY <1>2 DEF SameFlags
<1>4. CASE e # "ep0"
  <2>1. NoneQueued
    BY <1>2, <1>4, QueueSame
  <2> QED BY <1>1, <1>3, <1>4, <2>1, ControlQuiet
<1>5. CASE e = "ep0"
  <2>1. TransferTypes /\ QueueInv
    BY DEF TransferInv
  <2>2. PICK n : n = Len(ep["ep0"].queue) + 1
    OBVIOUS
  <2>3. /\ DOMAIN ep'["ep0"].queue = DOMAIN ep["ep0"].queue \cup {n} /\ ep'["ep0"].queue[n] = r
        /\ \A k \in DOMAIN ep["ep0"].queue : ep'["ep0"].queue[k] = ep["ep0"].queue[k]
    <3>1. ep["ep0"].queue \in Seq(AllReqs)
      BY <1>5, <2>1, QueueTypes
    <3>2. ep'["ep0"].queue = Append(ep["ep0"].queue, r)
      BY <1>2, <1>5
    <3> QED BY <2>2, <3>1, <3>2, Appended
  <2>4. \A k \in DOMAIN ep["ep0"].queue : req'[ep["ep0"].queue[k]] = req[ep["ep0"].queue[k]]
    BY <1>2, <1>5, <2>1, QueueTypes DEF QueueInv
  <2>5. OwnAnswer'
    <3> SUFFICES ASSUME NEW i \in DOMAIN urbp_list, OnControl(i), ~urb[urbp_list[i]].new, ~ep'["ep0"].setup_stage
                 PROVE  /\ \A k \in DOMAIN ep'["ep0"].queue : req'[ep'["ep0"].queue[k]].for = urbp_list[i]
                        /\ late' \in {None, urbp_list[i]}
      BY DEF OwnAnswer, OnControl
    <3>1. /\ \A k \in DOMAIN ep["ep0"].queue : req[ep["ep0"].queue[k]].for = urbp_list[i]
          /\ late \in {None, urbp_list[i]}
      BY <1>2, <1>5 DEF ControlInv, OwnAnswer
    <3> QED BY <1>2, <1>5, <2>3, <2>4, <3>1
  <2> QED BY <1>1, <1>3, <2>5, ControlRest DEF ControlInv
<1> QED BY <1>4, <1>5

LEMMA ControlOthers ==
  ASSUME TransferInv, TransferInv', ControlInv, OwnData', NotControl', [Next]_vars, ~Timer
  PROVE  ControlInv'
<1>0. TransferTypes /\ GiveInv /\ QueueInv /\ urb \in [Urbs -> HostUrb] /\ ep \in [Eps -> EpRecord]
      /\ urbp_list \in Seq(Urbs) /\ \A i \in DOMAIN urbp_list : urbp_list[i] \in Urbs
  BY DEF TransferInv, TransferTypes
<1>1. ASSUME UNCHANGED <<ep, urb, urbp_list, timer>>, timer.pc = "scan" => (running' => running), late' \in {late, None},
             \A r \in AllReqs : req[r].own = "queued" => req'[r] = req[r]
      PROVE  ControlInv'
  <2>1. SameList /\ SameFlags
    BY <1>1 DEF SameList, SameFlags
  <2>2. NoneQueued
    BY <1>1, QueueSame
  <2> QED BY <1>1, <2>1, <2>2, ControlQuiet
<1>2. CASE UNCHANGED vars
  BY <1>1, <1>2 DEF vars
<1>3. CASE Disconnect \/ Connect \/ RootHubSuspends \/ RootHubResumes
  <2>1. /\ UNCHANGED <<ep, urb, urbp_list, timer, req>> /\ late' \in {late, None}
        /\ timer.pc = "scan" => (running' => running)
    BY <1>3 DEF Disconnect, Connect, RootHubSuspends, RootHubResumes, LockFree, Host, GadgetSide, Port
  <2> QED BY <1>1, <2>1
<1>4. ASSUME NEW u \in Urbs, UrbDequeue(u) PROVE ControlInv'
  <2>1. UNCHANGED <<ep, urbp_list, timer, req, late, running>> /\ urb' = [urb EXCEPT ![u].unlinked = TRUE]
    BY <1>4 DEF UrbDequeue, GadgetSide, Port
  <2>2. \A v \in Urbs : urb'[v].ep = urb[v].ep /\ urb'[v].new = urb[v].new
    <3>1. PICK x \in HostUrb : x = urb[u]
      BY <1>0
    <3>2. PICK y : y = [x EXCEPT !.unlinked = TRUE]
      OBVIOUS
    <3>3. y.ep = x.ep /\ y.new = x.new
      BY <3>2 DEF HostUrb
    <3>4. urb'[u] = y /\ \A v \in Urbs \ {u} : urb'[v] = urb[v]
      BY <1>0, <2>1, <3>1, <3>2
    <3> QED BY <3>1, <3>3, <3>4
  <2>3. SameList /\ SameFlags
    BY <1>0, <2>1, <2>2 DEF SameList, SameFlags
  <2>4. NoneQueued
    BY <2>1, QueueSame
  <2> QED BY <2>1, <2>3, <2>4, ControlQuiet
<1>5. ASSUME NEW j \in Nukers, NukeGiven(j) PROVE ControlInv'
  <2>0. PICK s \in AllReqs \cup {None} : s = nuked[j]
    BY <1>0 DEF TransferTypes
  <2>1. req' = Given(s) /\ UNCHANGED <<ep, urb, urbp_list, timer, running, late>>
    BY <1>5, <2>0 DEF NukeGiven, Host, Port
  <2>2. s \in AllReqs \ {"fifo"} => req[s].own # "queued"
    BY <1>0, <2>0 DEF GiveInv, NukedBy
  <2>3. \A r \in AllReqs : req[r].own = "queued" => req'[r] = req[r]
    BY <2>1, <2>2, GivenSame
  <2> QED BY <1>1, <2>1, <2>3
<1>6. ASSUME NEW e \in Eps, NEW k \in DOMAIN ep[e].queue, NEW q \in Seq(AllReqs), q = Removed(ep[e].queue, k),
             Requeues(e, q), \A s \in AllReqs \ {ep[e].queue[k]} : req'[s] = req[s],
             UNCHANGED <<urb, urbp_list, timer, running, late>>
      PROVE  ControlInv'
  <2>1. ep'[e].queue = q /\ \A f \in Eps \ {e} : ep'[f].queue = ep[f].queue
    BY <1>0, <1>6, QueueField
  <2>2. NoneQueued
    BY <1>6, <2>1, QueueTaken
  <2>3. \A f \in Eps : ep'[f].already_seen = ep[f].already_seen /\ ep'[f].setup_stage = ep[f].setup_stage
    <3>1. PICK x \in EpRecord : x = ep[e]
      BY <1>0
    <3>2. PICK y : y = [x EXCEPT !.queue = q]
      OBVIOUS
    <3>3. y.already_seen = x.already_seen /\ y.setup_stage = x.setup_stage
      BY <3>2 DEF EpRecord
    <3>4. ep' = [ep EXCEPT ![e] = y]
      BY <1>0, <1>6, <3>1, <3>2 DEF Requeues
    <3> QED BY <1>0, <3>1, <3>3, <3>4
  <2>4. SameList /\ SameFlags
    BY <1>6, <2>3 DEF SameList, SameFlags
  <2> QED BY <1>6, <2>2, <2>4, ControlQuiet
<1>7. ASSUME NEW j \in Nukers, NEW e \in Eps, NukeTake(j, e) PROVE ControlInv'
  <2>0. UNCHANGED <<urb, urbp_list, timer, running, late>>
    BY <1>7 DEF NukeTake, Host
  <2>1. CASE ep[e].queue = <<>>
    BY <1>1, <1>7, <2>0, <2>1 DEF NukeTake
  <2>2. CASE ep[e].queue # <<>>
    <3>1. PICK r \in AllReqs : 1 \in DOMAIN ep[e].queue /\ r = ep[e].queue[1] /\ r = Head(ep[e].queue)
      BY <1>0, <2>2, QueueTypes, HeadRemoved
    <3>2. PICK q \in Seq(AllReqs) : q = Tail(ep[e].queue) /\ q = Removed(ep[e].queue, 1)
      BY <1>0, <2>2, QueueTypes, HeadRemoved
    <3>3. Requeues(e, q) /\ req' = Taken(r)
      BY <1>7, <2>2, <3>1, <3>2 DEF NukeTake, Requeues
    <3>4. \A s \in AllReqs \ {r} : req'[s] = req[s]
      BY <1>0, <3>3, TakenFacts
    <3> QED BY <1>6, <2>0, <3>1, <3>2, <3>3, <3>4
  <2> QED BY <2>1, <2>2
<1>8. ASSUME NEW e \in Eps, NEW r \in Reqs, Dequeue(e, r) PROVE ControlInv'
  <2>0. UNCHANGED <<urb, urbp_list, timer, running, late>> /\ r \in AllReqs
    BY <1>8, ReqFacts DEF Dequeue, Host, Port
  <2>1. PICK i \in DOMAIN ep[e].queue : ep[e].queue[i] = r
    BY <1>8 DEF Dequeue
  <2>2. PICK k \in DOMAIN ep[e].queue : /\ ep[e].queue[k] = r
                                        /\ Without(ep[e].queue, r) = Removed(ep[e].queue, k)
                                        /\ Removed(ep[e].queue, k) \in Seq(AllReqs)
    BY <1>0, <2>1, QueueTypes, WithoutRemoved
  <2>3. PICK q \in Seq(AllReqs) : q = Removed(ep[e].queue, k)
    BY <2>2
  <2>4. Requeues(e, q) /\ req' = Given(r)
    BY <1>8, <2>2, <2>3 DEF Dequeue, Requeues
  <2>5. \A s \in AllReqs \ {r} : req'[s] = req[s]
    BY <1>0, <2>0, <2>4 DEF Given, TransferTypes
  <2> QED BY <1>6, <2>0, <2>2, <2>3, <2>4, <2>5
<1>9. ASSUME NEW e \in Eps, NEW r \in Reqs, NEW l \in ReqLengths, Queue(e, r, l) PROVE ControlInv'
  <2>1. PICK zero : zero = FALSE
    OBVIOUS
  <2>2. Queued(e, r, l, zero, None) /\ req[r].own = "driver" /\ e # "ep0" /\ r \in AllReqs \ {"fifo"}
        /\ UNCHANGED <<urb, urbp_list, timer, running, late>>
    BY <1>9, <2>1, ReqFacts DEF Queue, Host, Port
  <2> QED BY <2>2, ControlQueues
<1>10. ASSUME NEW e \in Eps, NEW r \in Reqs, NEW l \in ReqLengths, QueueCheck(e, r, l) PROVE ControlInv'
  <2>1. PICK x : x = [FreeReq EXCEPT !.own = "checked", !.len = l, !.for = e]
    OBVIOUS
  <2>2. req' = [req EXCEPT ![r] = x] /\ UNCHANGED <<ep, urb, urbp_list, timer, running, late>> /\ req[r].own = "driver"
    BY <1>10, <2>1 DEF QueueCheck, Host, Port
  <2>3. \A s \in AllReqs : req[s].own = "queued" => req'[s] = req[s]
    BY <1>0, <2>2 DEF TransferTypes
  <2> QED BY <1>1, <2>2, <2>3
<1>11. ASSUME NEW r \in Reqs, QueueAdd(r) PROVE ControlInv'
  <2>1. PICK zero : zero = FALSE
    OBVIOUS
  <2>2. Queued(req[r].for, r, req[r].len, zero, None) /\ req[r].own = "checked" /\ r \in AllReqs \ {"fifo"}
        /\ UNCHANGED <<urb, urbp_list, timer, running, late>>
    BY <1>11, <2>1, ReqFacts DEF QueueAdd, Host, Port
  <2>3. req[r].for \in Eps /\ req[r].for # "ep0"
    BY <1>0, <2>2 DEF GiveInv, ControlInv, NotControl
  <2> QED BY <2>2, <2>3, ControlQueues
<1>12. ASSUME NEW l \in ReqLengths \cup {0}, LateAnswer(l) PROVE ControlInv'
  <2>1. PICK zero : zero = FALSE
    OBVIOUS
  <2>2. Queued("ep0", "ep0_req", l, zero, late) /\ req["ep0_req"].own = "driver" /\ late # None /\ late' = None
        /\ UNCHANGED <<urb, urbp_list, timer, running>>
    BY <1>12, <2>1 DEF LateAnswer, Host, Port
  <2>3. "ep0" \in Eps /\ "ep0_req" \in AllReqs \ {"fifo"}
    BY <2>2, ReqFacts DEF TransferInv, CursorInv
  <2> QED BY <2>2, <2>3, ControlQueues
<1>13. ASSUME NEW e \in Eps,
              Enable(e) \/ Disable(e) \/ \E value, wedged \in BOOLEAN : SetHalt(e, value, wedged)
       PROVE  ControlInv'
  BY <1>13, ControlDriver
<1>14. ASSUME NEW e \in Eps, NEW u \in Urbs, NEW l \in UrbLengths \cup {0}, NEW s \in Setups \cup {None},
              UrbEnqueue(u, e, l, s)
       PROVE  ControlInv'
  BY <1>14, ControlEnqueued
<1> QED BY <1>2, <1>3, <1>4, <1>5, <1>7, <1>8, <1>9, <1>10, <1>11, <1>12, <1>13, <1>14 DEF Next, Nuke

(* The timer.  A frame begins or ends, or the scan starts again.           *)
LEMMA ControlRestarts ==
  ASSUME TransferInv, TransferInv', ControlInv, OwnData', NotControl',
         TimerFires \/ FrameEnds \/ StaleGiven \/ UrbGiven
  PROVE  ControlInv'
<1>0. /\ TransferTypes /\ CursorInv /\ GiveInv /\ timer \in FrameRecord /\ urb \in [Urbs -> HostUrb]
      /\ UNCHANGED <<urbp_list, late, running>>
  BY DEF TransferInv, TransferTypes, TimerFires, FrameEnds, StaleGiven, UrbGiven, GadgetSide, Host, Port
<1>1. SameList
  <2>1. CASE UNCHANGED urb
    BY <1>0, <2>1 DEF SameList
  <2>2. CASE UrbGiven
    <3>1. urb' = [u \in Urbs |-> IF urb[u].state = "giving" THEN FreeUrb ELSE urb[u]]
      BY <2>2 DEF UrbGiven
    <3>2. \A i \in DOMAIN urbp_list : urbp_list[i] \in Urbs /\ urb[urbp_list[i]].state = "listed"
      BY <1>0 DEF CursorInv, TransferTypes
    <3> QED BY <1>0, <3>1, <3>2 DEF SameList
  <2> QED BY <2>1, <2>2 DEF TimerFires, FrameEnds, StaleGiven, Host
<1>2. ep' = ep \/ (TimerFires /\ ep' = Unseen)
  BY DEF TimerFires, FrameEnds, StaleGiven, UrbGiven, GadgetSide
<1>3. \A e \in Eps : ep'[e].setup_stage = ep[e].setup_stage /\ ep'[e].queue = ep[e].queue
  <2>1. CASE ep' = Unseen
    <3>1. \A e \in Eps : ep'[e] = [ep[e] EXCEPT !.already_seen = FALSE] /\ ep[e] \in EpRecord
      BY <1>0, <2>1 DEF Unseen, TransferTypes
    <3>2. \A x \in EpRecord : LET y == [x EXCEPT !.already_seen = FALSE] IN
            y.setup_stage = x.setup_stage /\ y.queue = x.queue
      BY DEF EpRecord
    <3> QED BY <3>1, <3>2
  <2> QED BY <1>2, <2>1
<1>4. \A r \in AllReqs : req[r].own = "queued" => req'[r] = req[r]
  <2>1. CASE StaleGiven
    <3>1. req' = Given(timer.then) /\ timer.then \in AllReqs \cup {None}
      BY <1>0, <2>1 DEF StaleGiven, FrameRecord
    <3>2. timer.then \in AllReqs \ {"fifo"} => req[timer.then].own # "queued"
      BY <1>0 DEF GiveInv
    <3> QED BY <3>1, <3>2, GivenSame
  <2>2. CASE UNCHANGED req
    BY <2>2
  <2> QED BY <2>1, <2>2 DEF TimerFires, FrameEnds, UrbGiven, GadgetSide
<1>5. NoneQueued
  BY <1>3, <1>4, QueueSame
<1>6. OneOld'
  BY <1>1, OneOldKept DEF ControlInv
<1>7. OwnAnswer'
  BY <1>0, <1>1, <1>3, <1>5, AnswerKept DEF ControlInv
<1>8. Passed' /\ InData'
  <2>1. CASE TimerFires /\ ~udev
    <3>1. UNCHANGED timer /\ timer.pc = "idle"
      BY <2>1 DEF TimerFires
    <3> QED BY <3>1, OutOfScan
  <2>2. CASE (TimerFires /\ udev) \/ FrameEnds
    <3>1. timer' = Idle \/ timer' = [Idle EXCEPT !.pc = "scan", !.at = 1, !.total = Total]
      BY <2>2 DEF TimerFires, FrameEnds
    <3>2. LET began == [Idle EXCEPT !.pc = "scan", !.at = 1, !.total = Total]
          IN  Idle.pc = "idle" /\ began.pc = "scan" /\ began.at = 1
      BY DEF Idle
    <3>3. timer'.pc = "idle" \/ (timer'.pc = "scan" /\ timer'.at = 1)
      BY <3>1, <3>2
    <3> QED BY <3>3, OutOfScan
  <2>3. CASE StaleGiven \/ UrbGiven
    <3>1. \/ timer' = [timer EXCEPT !.pc = "scan", !.at = 1, !.then = None]
          \/ timer' = [timer EXCEPT !.pc = "scan", !.then = None] /\ timer.at = 1
      BY <2>3 DEF StaleGiven, UrbGiven, ControlInv, Passed
    <3>2. timer'.pc = "scan" /\ timer'.at = 1
      BY <1>0, <3>1 DEF FrameRecord
    <3> QED BY <3>2, OutOfScan
  <2> QED BY <2>1, <2>2, <2>3
<1> QED BY <1>6, <1>7, <1>8 DEF ControlInv

LEMMA FreshFirst ==
  ASSUME TransferInv, ControlInv, Fresh, CurEp = "ep0"
  PROVE  FirstControl /\ OnControl(timer.at) /\ timer.at \in DOMAIN urbp_list
<1>1. /\ timer.pc = "scan" /\ running /\ timer.total > 0 /\ ~ep["ep0"].already_seen /\ Scanning
  BY DEF Fresh, Looked, Scanning
<1>2. timer.at \in DOMAIN urbp_list /\ timer.total \in Int
  BY <1>1, ScanningFacts DEF TransferInv, TransferTypes, FrameRecord
<1> QED BY <1>1, <1>2 DEF ControlInv, Passed, FirstControl, OnControl, CurEp, Cur

LEMMA ControlReturnsStep ==
  ASSUME TransferInv, TransferInv', ControlInv, OwnData', NotControl',
         \/ ReturnUnlinked \/ ReturnNoEndpoint \/ ReturnHalted \/ ControlHandled \/ SetupFails
         \/ TransferEnds /\ urb[Cur].status # None
  PROVE  ControlInv'
<1>0. TransferTypes /\ CursorInv /\ ep \in [Eps -> EpRecord] /\ UNCHANGED <<req, late>>
  BY DEF TransferInv, TransferTypes, ReturnUnlinked, ReturnNoEndpoint, ReturnHalted, ControlHandled, SetupFails,
         TransferEnds
<1>1. timer.at \in DOMAIN urbp_list
  <2>1. CASE Scanning
    BY <2>1, ScanningFacts
  <2>2. CASE timer.pc \in {"setup", "transfer"}
    BY <1>0, <2>2 DEF CursorInv
  <2> QED BY <2>1, <2>2 DEF ReturnUnlinked, ReturnNoEndpoint, ReturnHalted, ControlHandled, SetupReady, SetupFails,
                            TransferEnds, Fresh, Looked
<1>2. Cur = urbp_list[timer.at] /\ CurEp = urb[Cur].ep /\ CurEp \in Eps
  BY <1>1, CurFacts DEF Cur, CurEp
<1>3. PICK status : Return(Cur, status, TRUE)
  BY Zenon DEF ReturnUnlinked, ReturnNoEndpoint, ReturnHalted, ControlHandled, SetupFails, TransferEnds, Return
<1>4. CASE ReturnUnlinked \/ ReturnNoEndpoint
  <2>1. UNCHANGED ep
    BY <1>4 DEF ReturnUnlinked, ReturnNoEndpoint, Return
  <2>2. FlagsOnly
    BY <1>0, <2>1, FlagsFacts
  <2> QED BY <1>0, <1>1, <1>3, <2>1, <2>2, ControlReturns
<1>5. CASE ControlHandled
  <2>1. Fresh /\ CurEp = "ep0"
    <3>1. Fresh /\ urb[Cur].setup # None
      BY <1>5 DEF ControlHandled, SetupReady, None
    <3> QED BY <1>1, <3>1, CurFacts
  <2>2. FlagsOnly
    BY <1>5, ReturnFlags
  <2> QED BY <1>0, <1>1, <1>3, <2>1, <2>2, FreshFirst, ControlReturns
<1>6. ASSUME NEW e \in Eps, ep' = Forgotten(e), e = "ep0" => ~ep["ep0"].setup_stage
      PROVE  "ep0" \in Eps => (ep'["ep0"].setup_stage <=> ep["ep0"].setup_stage)
  <2>1. PICK x \in EpRecord : x = ep[e]
    BY <1>0
  <2>2. PICK y : y = [x EXCEPT !.already_seen = FALSE, !.setup_stage = FALSE]
    OBVIOUS
  <2>3. ep' = [ep EXCEPT ![e] = y]
    BY <1>0, <1>6, <2>1, <2>2 DEF Forgotten
  <2>4. y.setup_stage = FALSE
    BY <2>2 DEF EpRecord
  <2> QED BY <1>0, <1>6, <2>3, <2>4
<1>7. CASE ReturnHalted
  <2>1. FlagsOnly
    BY <1>7, ReturnFlags
  <2>2. ep' = Forgotten(CurEp) /\ (CurEp = "ep0" => ~ep["ep0"].setup_stage)
    BY <1>7 DEF ReturnHalted, Return, SetupStage
  <2> QED BY <1>0, <1>1, <1>2, <1>3, <1>6, <2>1, <2>2, ControlReturns
<1>8. CASE SetupFails
  <2>1. FlagsOnly
    BY <1>8, ReturnFlags
  <2>2. ep' = Forgotten("ep0") /\ timer.pc = "setup"
    BY <1>8 DEF SetupFails, Return
  <2>3. OnControl(timer.at)
    BY <2>2 DEF ControlInv, InData
  <2>4. "ep0" \in Eps /\ ~ep["ep0"].setup_stage
    BY <1>1, <2>2, <2>3, ControlEps DEF ControlInv, InData
  <2> QED BY <1>0, <1>1, <1>3, <1>6, <2>1, <2>2, <2>4, ControlReturns
<1>9. CASE TransferEnds /\ urb[Cur].status # None
  <2>1. FlagsOnly
    BY <1>9, ReturnFlags
  <2>2. ep' = Forgotten(CurEp) /\ timer.pc = "transfer"
    BY <1>9 DEF TransferEnds, Return
  <2>3. CurEp = "ep0" => ~ep["ep0"].setup_stage
    BY <1>2, <2>2 DEF ControlInv, InData, OnControl
  <2> QED BY <1>0, <1>1, <1>2, <1>3, <1>6, <2>1, <2>2, <2>3, ControlReturns
<1> QED BY <1>4, <1>5, <1>7, <1>8, <1>9

(* The setup of an urb is taken, or what an earlier one left is given back. *)
LEMMA ControlSetup ==
  ASSUME TransferInv, TransferInv', ControlInv, OwnData', NotControl', GiveStale \/ SetupCall
  PROVE  ControlInv'
<1>0. /\ TransferTypes /\ CursorInv /\ timer \in FrameRecord /\ urb \in [Urbs -> HostUrb] /\ ep \in [Eps -> EpRecord]
      /\ urbp_list' = urbp_list /\ urb' = [urb EXCEPT ![Cur].new = FALSE] /\ Fresh
  BY DEF TransferInv, TransferTypes, GiveStale, SetupCall, SetupReady
<1>1. CurEp = "ep0" /\ timer.at \in DOMAIN urbp_list /\ Cur \in Urbs /\ Cur = urbp_list[timer.at] /\ "ep0" \in Eps
      /\ Scanning
  <2>1. timer.at \in DOMAIN urbp_list /\ Scanning
    BY <1>0, ScanningFacts DEF Fresh, Looked
  <2>2. SetupStage
    BY DEF GiveStale, SetupCall, SetupReady
  <2> QED BY <2>1, <2>2, CurFacts DEF Cur
<1>2. FirstControl /\ OnControl(timer.at)
  BY <1>0, <1>1, FreshFirst
<1>3. timer.at \in Nat /\ \A i \in DOMAIN urbp_list : i \in Nat /\ urbp_list[i] \in Urbs
  BY <1>0 DEF TransferTypes, FrameRecord
<1>4. /\ \A i \in DOMAIN urbp_list \ {timer.at} : urb'[urbp_list[i]] = urb[urbp_list[i]]
      /\ urb'[Cur].ep = urb[Cur].ep /\ ~urb'[Cur].new
  <2>1. PICK x \in HostUrb : x = urb[Cur]
    BY <1>0, <1>1
  <2>2. PICK y : y = [x EXCEPT !.new = FALSE]
    OBVIOUS
  <2>3. y.ep = x.ep /\ y.new = FALSE
    BY <2>2 DEF HostUrb
  <2>4. urb'[Cur] = y /\ \A v \in Urbs \ {Cur} : urb'[v] = urb[v]
    BY <1>0, <1>1, <2>1, <2>2
  <2>5. \A i \in DOMAIN urbp_list \ {timer.at} : urbp_list[i] # Cur
    BY <1>0, <1>1 DEF CursorInv
  <2> QED BY <1>3, <2>1, <2>3, <2>4, <2>5
<1>5. \A i \in DOMAIN urbp_list : OnControl(i)' <=> OnControl(i)
  BY <1>0, <1>1, <1>4 DEF OnControl
<1>6. OneOld'
  <2> SUFFICES ASSUME NEW i \in DOMAIN urbp_list, NEW j \in DOMAIN urbp_list, i < j, OnControl(i), OnControl(j)
               PROVE  urb'[urbp_list[j]].new
    BY <1>0, <1>5 DEF OneOld
  <2>1. j # timer.at
    BY <1>2 DEF FirstControl
  <2>2. urb[urbp_list[j]].new
    BY DEF ControlInv, OneOld
  <2> QED BY <1>4, <2>1, <2>2
<1>7. CASE GiveStale
  <2>1. /\ ep' = [ep EXCEPT !["ep0"].queue = Tail(ep["ep0"].queue), !["ep0"].setup_stage = TRUE,
                            !["ep0"].already_seen = FALSE]
        /\ timer' = [timer EXCEPT !.pc = "stale", !.then = Head(ep["ep0"].queue)]
    BY <1>7 DEF GiveStale
  <2>2. ep'["ep0"].setup_stage
    <3>1. PICK x \in EpRecord : x = ep["ep0"]
      BY <1>0, <1>1
    <3>2. PICK y : y = [x EXCEPT !.queue = Tail(x.queue), !.setup_stage = TRUE, !.already_seen = FALSE]
      OBVIOUS
    <3>3. y.setup_stage
      BY <3>2 DEF EpRecord
    <3>4. ep' = [ep EXCEPT !["ep0"] = y]
      BY <1>0, <1>1, <2>1, <3>1, <3>2
    <3> QED BY <1>0, <1>1, <3>3, <3>4
  <2>3. timer'.pc = "stale"
    BY <1>0, <2>1 DEF FrameRecord
  <2>4. OwnAnswer'
    BY <2>2 DEF OwnAnswer
  <2> QED BY <1>6, <2>3, <2>4, OutOfScan DEF ControlInv
<1>8. CASE SetupCall
  <2>1. /\ ep' = [SetupTaken EXCEPT !["ep0"].already_seen = TRUE] /\ ep["ep0"].queue = <<>> /\ late' = None
        /\ timer' = [timer EXCEPT !.pc = "setup"]
    BY <1>8 DEF SetupCall, SetupReady
  <2>2. ep'["ep0"].already_seen /\ ~ep'["ep0"].setup_stage /\ ep'["ep0"].queue = <<>>
    <3>1. PICK x \in EpRecord : x = ep["ep0"]
      BY <1>0, <1>1
    <3>2. PICK y : y = [x EXCEPT !.setup_stage = FALSE, !.halted = FALSE, !.already_seen = TRUE]
      OBVIOUS
    <3>3. y.setup_stage = FALSE /\ y.already_seen = TRUE /\ y.queue = x.queue
      BY <3>2 DEF EpRecord
    <3>4. ep' = [ep EXCEPT !["ep0"] = y]
      <4>1. SetupTaken = [ep EXCEPT !["ep0"] = [x EXCEPT !.setup_stage = FALSE, !.halted = FALSE]]
        BY <1>0, <1>1, <3>1 DEF SetupTaken
      <4> QED BY <1>0, <1>1, <2>1, <3>1, <3>2, <4>1 DEF EpRecord
    <3> QED BY <1>0, <1>1, <2>1, <3>1, <3>3, <3>4
  <2>3. timer'.pc = "setup" /\ timer'.at = timer.at
    BY <1>0, <2>1 DEF FrameRecord
  <2>4. Passed'
    BY <2>2, <2>3 DEF Passed
  <2>5. InData'
    BY <1>0, <1>1, <1>2, <1>4, <1>5, <2>2, <2>3 DEF InData
  <2>6. OwnAnswer'
    BY <2>1, <2>2 DEF OwnAnswer
  <2> QED BY <1>6, <2>4, <2>5, <2>6 DEF ControlInv
<1> QED BY <1>7, <1>8

(* The driver answers it, or puts the answer off.                          *)
LEMMA ControlAnswered ==
  ASSUME TransferInv, TransferInv', ControlInv, OwnData', NotControl',
         SetupDefers \/ \E l \in ReqLengths \cup {0} : SetupAnswers(l)
  PROVE  ControlInv'
<1>0. /\ TransferTypes /\ CursorInv /\ QueueInv /\ timer \in FrameRecord /\ timer.pc = "setup"
      /\ UNCHANGED <<urb, urbp_list, running>>
  BY DEF TransferInv, TransferTypes, SetupDefers, SetupAnswers, Host, Port
<1>1. timer.at \in DOMAIN urbp_list /\ timer.at \in Nat /\ \A i \in DOMAIN urbp_list : i \in Nat
  BY <1>0 DEF CursorInv, TransferTypes, FrameRecord
<1>2. /\ OnControl(timer.at) /\ ~urb[urbp_list[timer.at]].new /\ Cur = urbp_list[timer.at]
      /\ ep["ep0"].already_seen /\ ~ep["ep0"].setup_stage
  BY <1>0 DEF ControlInv, InData, Cur
<1>3. "ep0" \in Eps
  BY <1>1, <1>2, ControlEps
<1>4. \A i \in DOMAIN urbp_list : OnControl(i) /\ ~urb[urbp_list[i]].new => i = timer.at
  BY <1>1, <1>2 DEF ControlInv, OneOld
<1>5. timer'.pc = "transfer" /\ timer'.at = timer.at /\ timer'.total = timer.total
  <2>1. PICK limit : limit = 64 * 1024
    OBVIOUS
  <2>2. timer' = [timer EXCEPT !.pc = "transfer", !.limit = limit]
    BY <2>1 DEF SetupDefers, SetupAnswers
  <2> QED BY <1>0, <2>2 DEF FrameRecord
<1>6. SameList
  BY <1>0 DEF SameList
<1>7. /\ ep'["ep0"].already_seen = ep["ep0"].already_seen /\ ep'["ep0"].setup_stage = ep["ep0"].setup_stage
      /\ \A k \in DOMAIN ep'["ep0"].queue : req'[ep'["ep0"].queue[k]].for = Cur
      /\ late' \in {None, Cur}
  <2>1. /\ \A k \in DOMAIN ep["ep0"].queue : req[ep["ep0"].queue[k]].for = Cur
        /\ late \in {None, Cur}
    BY <1>1, <1>2 DEF ControlInv, OwnAnswer
  <2>2. CASE SetupDefers
    BY <2>1, <2>2 DEF SetupDefers
  <2>3. ASSUME NEW l \in ReqLengths \cup {0}, SetupAnswers(l)
        PROVE  /\ ep'["ep0"].already_seen = ep["ep0"].already_seen /\ ep'["ep0"].setup_stage = ep["ep0"].setup_stage
               /\ \A k \in DOMAIN ep'["ep0"].queue : req'[ep'["ep0"].queue[k]].for = Cur
               /\ late' \in {None, Cur}
    <3>1. PICK zero : Queued("ep0", "ep0_req", l, zero, Cur)
      BY <2>3 DEF SetupAnswers
    <3>2. req["ep0_req"].own = "driver" /\ late' = late /\ "ep0_req" \in AllReqs \ {"fifo"}
      BY <2>3, ReqFacts DEF SetupAnswers
    <3>3. /\ \A s \in AllReqs : req[s].own = "queued" => req'[s] = req[s]
          /\ ep'["ep0"].queue = Append(ep["ep0"].queue, "ep0_req") /\ req'["ep0_req"].for = Cur
          /\ ep'["ep0"].already_seen = ep["ep0"].already_seen
          /\ ep'["ep0"].setup_stage = ep["ep0"].setup_stage
      BY <1>3, <3>1, <3>2, QueuedSame
    <3>4. PICK n : n = Len(ep["ep0"].queue) + 1
      OBVIOUS
    <3>5. /\ DOMAIN ep'["ep0"].queue = DOMAIN ep["ep0"].queue \cup {n} /\ ep'["ep0"].queue[n] = "ep0_req"
          /\ \A k \in DOMAIN ep["ep0"].queue : ep'["ep0"].queue[k] = ep["ep0"].queue[k]
      <4>1. ep["ep0"].queue \in Seq(AllReqs)
        BY <1>0, <1>3, QueueTypes
      <4> QED BY <3>2, <3>3, <3>4, <4>1
    <3>6. \A k \in DOMAIN ep["ep0"].queue : req'[ep["ep0"].queue[k]] = req[ep["ep0"].queue[k]]
      BY <1>0, <1>3, <3>3, QueueTypes DEF QueueInv
    <3> QED BY <2>1, <3>2, <3>3, <3>5, <3>6
  <2> QED BY <2>2, <2>3
<1>8. OneOld'
  BY <1>6, OneOldKept DEF ControlInv
<1>9. Passed'
  BY <1>2, <1>5, <1>7 DEF Passed
<1>10. InData'
  BY <1>0, <1>2, <1>5, <1>7 DEF InData
<1>11. OwnAnswer'
  BY <1>0, <1>2, <1>4, <1>7 DEF OwnAnswer, OnControl
<1> QED BY <1>8, <1>9, <1>10, <1>11 DEF ControlInv

(* The scan goes on, into a transfer, in it, and past it.                  *)
LEMMA ControlSkips ==
  ASSUME TransferInv, TransferInv', ControlInv, OwnData', NotControl',
         \/ SkipUrb
         \/ TransferEnds /\ urb[Cur].status = None
  PROVE  ControlInv'
<1>0. /\ TransferTypes /\ CursorInv /\ timer \in FrameRecord /\ UNCHANGED <<ep, urb, urbp_list, req, late, running>>
      /\ timer.at \in DOMAIN urbp_list /\ timer.at \in Nat /\ \A i \in DOMAIN urbp_list : i \in Nat
  <2>1. /\ TransferTypes /\ CursorInv /\ timer \in FrameRecord /\ timer.at \in Nat
        /\ \A i \in DOMAIN urbp_list : i \in Nat
    BY DEF TransferInv, TransferTypes, FrameRecord
  <2>2. UNCHANGED <<ep, urb, urbp_list, req, late, running>>
    BY DEF SkipUrb, TransferEnds, Host, GadgetSide, Port
  <2>3. timer.at \in DOMAIN urbp_list
    BY <2>1, ScanningFacts DEF SkipUrb, TransferEnds, CursorInv
  <2> QED BY <2>1, <2>2, <2>3
<1>1. timer'.pc = "scan" /\ timer'.at = timer.at + 1 /\ timer'.total = timer.total
  <2>1. \/ timer' = [timer EXCEPT !.at = timer.at + 1] /\ timer.pc = "scan"
        \/ timer' = [timer EXCEPT !.pc = "scan", !.at = timer.at + 1, !.limit = 0]
    BY DEF SkipUrb, Scanning, TransferEnds
  <2> QED BY <1>0, <2>1 DEF FrameRecord
<1>2. OnControl(timer.at) => ep["ep0"].already_seen \/ timer.total <= 0 \/ ~running
  <2>1. CASE SkipUrb
    <3>1. running /\ timer.total > 0 => ep[CurEp].already_seen
      BY <2>1 DEF SkipUrb
    <3>2. timer.total \in Int
      BY <1>0 DEF FrameRecord
    <3> QED BY <3>1, <3>2 DEF OnControl, CurEp, Cur
  <2>2. CASE TransferEnds
    <3>1. timer.pc = "transfer"
      BY <2>2 DEF TransferEnds
    <3> QED BY <3>1 DEF ControlInv, InData
  <2> QED BY <2>1, <2>2
<1>3. \A i \in DOMAIN urbp_list : i < timer.at /\ OnControl(i) =>
        ep["ep0"].already_seen \/ timer.total <= 0 \/ ~running
  <2>1. timer.pc \in {"scan", "transfer"}
    BY DEF SkipUrb, Scanning, TransferEnds
  <2> QED BY <2>1 DEF ControlInv, Passed
<1>4. Passed'
  <2> SUFFICES ASSUME NEW i \in DOMAIN urbp_list, i < timer.at + 1, OnControl(i)
               PROVE  ep["ep0"].already_seen \/ timer.total <= 0 \/ ~running
    BY <1>0, <1>1 DEF Passed, OnControl
  <2>1. i < timer.at \/ i = timer.at
    BY <1>0
  <2> QED BY <1>2, <1>3, <2>1
<1>5. InData'
  BY <1>1 DEF InData
<1>6. OneOld' /\ OwnAnswer'
  BY <1>0 DEF ControlInv, OneOld, OwnAnswer, OnControl
<1> QED BY <1>4, <1>5, <1>6 DEF ControlInv

LEMMA ControlBegins ==
  ASSUME TransferInv, TransferInv', ControlInv, OwnData', NotControl', TransferBegins PROVE ControlInv'
<1>0. /\ TransferTypes /\ timer \in FrameRecord /\ ep \in [Eps -> EpRecord] /\ Fresh /\ ~SetupStage
      /\ UNCHANGED <<urb, urbp_list, req, late, running>>
      /\ ep' = [ep EXCEPT ![CurEp].already_seen = TRUE]
      /\ timer.pc = "scan" /\ running /\ timer.total > 0
  BY DEF TransferInv, TransferTypes, TransferBegins, Host, Port, Fresh, Looked, Scanning
<1>1. timer.at \in DOMAIN urbp_list /\ CurEp \in Eps
  BY <1>0, ScanningFacts, CurFacts DEF Fresh, Looked
<1>2. timer'.pc = "transfer" /\ timer'.at = timer.at /\ timer'.total = timer.total
  <2>1. timer' = [timer EXCEPT !.pc = "transfer", !.limit = Limit(CurEp)]
    BY DEF TransferBegins
  <2> QED BY <1>0, <2>1 DEF FrameRecord
<1>3. /\ ep'[CurEp].already_seen /\ ep'[CurEp].setup_stage = ep[CurEp].setup_stage
      /\ ep'[CurEp].queue = ep[CurEp].queue /\ \A f \in Eps \ {CurEp} : ep'[f] = ep[f]
  <2>1. PICK x \in EpRecord : x = ep[CurEp]
    BY <1>0, <1>1
  <2>2. PICK y : y = [x EXCEPT !.already_seen = TRUE]
    OBVIOUS
  <2>3. y.already_seen = TRUE /\ y.setup_stage = x.setup_stage /\ y.queue = x.queue
    BY <2>2 DEF EpRecord
  <2>4. ep' = [ep EXCEPT ![CurEp] = y]
    BY <1>0, <2>1, <2>2
  <2> QED BY <1>0, <1>1, <2>1, <2>3, <2>4
<1>4. SameList
  BY <1>0 DEF SameList
<1>5. \A e \in Eps : /\ ep'[e].setup_stage = ep[e].setup_stage /\ ep'[e].queue = ep[e].queue
                     /\ ep[e].already_seen => ep'[e].already_seen
  BY <1>3
<1>6. NoneQueued
  BY <1>0, <1>5, QueueSame
<1>7. OneOld' /\ OwnAnswer'
  BY <1>0, <1>4, <1>5, <1>6, OneOldKept, AnswerKept DEF ControlInv
<1>8. Passed'
  <2> SUFFICES ASSUME NEW i \in DOMAIN urbp_list, i < timer.at, OnControl(i)
               PROVE  ep'["ep0"].already_seen \/ timer.total <= 0
    BY <1>0, <1>2 DEF Passed, OnControl
  <2>1. ep["ep0"].already_seen \/ timer.total <= 0
    BY <1>0 DEF ControlInv, Passed
  <2>2. "ep0" \in Eps
    BY ControlEps
  <2> QED BY <1>5, <2>1, <2>2
<1>9. InData'
  <2> SUFFICES ASSUME OnControl(timer.at)
               PROVE  ep'["ep0"].already_seen /\ ~ep'["ep0"].setup_stage /\ ~urb[urbp_list[timer.at]].new
    BY <1>0, <1>2 DEF InData, OnControl
  <2>1. CurEp = "ep0"
    BY DEF OnControl, CurEp, Cur
  <2>2. ~ep["ep0"].setup_stage /\ ~urb[urbp_list[timer.at]].new
    BY <1>0, <2>1 DEF SetupStage, Cur
  <2> QED BY <1>3, <2>1, <2>2
<1> QED BY <1>7, <1>8, <1>9 DEF ControlInv

(* In a transfer.                                                          *)
LEMMA ControlInTransfer ==
  ASSUME TransferInv, ControlInv, OwnData', NotControl', SameList, SameFlags, NoneQueued, late' = late,
         timer.pc \in {"transfer", "request"}, timer'.pc \in {"transfer", "request"},
         timer'.at = timer.at, timer'.total <= timer.total, timer'.total \in Int
  PROVE  ControlInv'
<1>1. timer.at \in DOMAIN urbp_list /\ timer.total \in Int
  BY DEF TransferInv, CursorInv, TransferTypes, FrameRecord
<1>2. OneOld' /\ OwnAnswer'
  BY OneOldKept, AnswerKept DEF ControlInv, SameFlags
<1>3. Passed'
  <2> SUFFICES ASSUME NEW i \in DOMAIN urbp_list, i < timer.at, OnControl(i)
               PROVE  ep'["ep0"].already_seen \/ timer'.total <= 0
    BY DEF Passed, SameList, OnControl
  <2>1. ep["ep0"].already_seen \/ timer.total <= 0
    BY DEF ControlInv, Passed
  <2>2. "ep0" \in Eps
    BY ControlEps
  <2> QED BY <1>1, <2>1, <2>2 DEF SameFlags
<1>4. InData'
  BY <1>1, ControlEps DEF ControlInv, InData, SameList, SameFlags, OnControl
<1> QED BY <1>2, <1>3, <1>4 DEF ControlInv

LEMMA ControlGiven ==
  ASSUME TransferInv, TransferInv', ControlInv, OwnData', NotControl', RequestGiven PROVE ControlInv'
<1>1. /\ TransferTypes /\ GiveInv /\ timer \in FrameRecord /\ UNCHANGED <<ep, urb, urbp_list, late>>
      /\ req' = Given(timer.then) /\ timer.pc = "request"
      /\ timer' = [timer EXCEPT !.pc = "transfer", !.then = None]
  BY DEF TransferInv, TransferTypes, RequestGiven, Host
<1>2. timer'.pc = "transfer" /\ timer'.at = timer.at /\ timer'.total = timer.total /\ timer.total \in Int
  BY <1>1 DEF FrameRecord
<1>3. SameList /\ SameFlags
  BY <1>1 DEF SameList, SameFlags
<1>4. NoneQueued
  <2>1. timer.then \in AllReqs \cup {None}
    BY <1>1 DEF FrameRecord
  <2>2. timer.then \in AllReqs \ {"fifo"} => req[timer.then].own # "queued"
    BY <1>1 DEF GiveInv
  <2> QED BY <1>1, <2>1, <2>2, GivenSame, QueueSame
<1> QED BY <1>1, <1>2, <1>3, <1>4, ControlInTransfer

LEMMA ControlMoves ==
  ASSUME TransferInv, TransferInv', Sizes, ControlInv, OwnData', NotControl', TransferMoves PROVE ControlInv'
<1>1. /\ TransferTypes /\ CursorInv /\ timer \in FrameRecord /\ ep \in [Eps -> EpRecord]
      /\ req \in [AllReqs -> ReqRecord]
      /\ timer.pc = "transfer" /\ timer.at \in DOMAIN urbp_list /\ Cur \in Urbs /\ CurEp \in Eps
      /\ UNCHANGED <<urbp_list, late>> /\ timer.total \in Int
  BY MovesFacts, Zenon DEF TransferInv, TransferTypes, TransferMoves, FrameRecord
<1>2. PICK r \in AllReqs, c \in [len : Nat, req_status : Statuses, urb_status : Statuses] :
        /\ 1 \in DOMAIN ep[CurEp].queue /\ r = ep[CurEp].queue[1] /\ r = Head(ep[CurEp].queue)
        /\ req[r].own = "queued" /\ c = Chunk(Cur, r, timer.limit)
  BY MovesFacts
<1>3. /\ \A v \in Urbs \ {Cur} : urb'[v] = urb[v]
      /\ urb'[Cur].ep = urb[Cur].ep /\ urb'[Cur].new = urb[Cur].new
      /\ \A s \in AllReqs \ {r} : req'[s] = req[s]
      /\ timer'.total = timer.total - c.len /\ timer'.at = timer.at
      /\ timer'.pc = (IF c.req_status = None THEN "transfer" ELSE "request")
  BY <1>2, MovesEffect
<1>4. SameList
  <2>1. \A i \in DOMAIN urbp_list : urbp_list[i] \in Urbs
    BY <1>1 DEF TransferTypes
  <2> QED BY <1>1, <1>3, <2>1 DEF SameList
<1>5. SameFlags /\ NoneQueued
  <2>1. CASE c.req_status = None
    <3>1. PICK k \in Nat : k = c.len
      OBVIOUS
    <3>2. UNCHANGED ep /\ req' = [req EXCEPT ![r].actual = req[r].actual + k]
      BY <1>2, <2>1, <3>1, Zenon DEF TransferMoves
    <3>3. req'[r].for = req[r].for
      <4>1. req' = [req EXCEPT ![r] = [req[r] EXCEPT !.actual = req[r].actual + k]]
        BY <1>1, <3>2
      <4> QED BY <1>1, <4>1 DEF ReqRecord
    <3>4. \A s \in AllReqs : req'[s].for = req[s].for
      BY <1>3, <3>3
    <3>5. "ep0" \in Eps => \A i \in DOMAIN ep["ep0"].queue : ep["ep0"].queue[i] \in AllReqs
      BY <1>1, QueueTypes
    <3> QED BY <3>2, <3>4, <3>5 DEF SameFlags, NoneQueued
  <2>2. CASE c.req_status # None
    <3>1. PICK q \in Seq(AllReqs) : q = Tail(ep[CurEp].queue) /\ q = Removed(ep[CurEp].queue, 1)
      <4>1. ep[CurEp].queue \in Seq(AllReqs) /\ ep[CurEp].queue # <<>>
        BY <1>1, QueueTypes, Zenon DEF TransferMoves
      <4> QED BY <4>1, HeadRemoved
    <3>2. Requeues(CurEp, q)
      BY <1>2, <2>2, <3>1, Zenon DEF TransferMoves, Requeues
    <3>3. /\ ep'[CurEp].queue = q /\ \A f \in Eps \ {CurEp} : ep'[f].queue = ep[f].queue
          /\ \A f \in Eps : ep'[f].setup_stage = ep[f].setup_stage
      BY <1>1, <3>2, QueueField
    <3>4. \A f \in Eps : ep'[f].already_seen = ep[f].already_seen
      <4>1. PICK x \in EpRecord : x = ep[CurEp]
        BY <1>1
      <4>2. PICK y : y = [x EXCEPT !.queue = q]
        OBVIOUS
      <4>3. y.already_seen = x.already_seen
        BY <4>2 DEF EpRecord
      <4>4. ep' = [ep EXCEPT ![CurEp] = y]
        BY <1>1, <3>2, <4>1, <4>2 DEF Requeues
      <4> QED BY <1>1, <4>1, <4>3, <4>4
    <3>5. NoneQueued
      BY <1>1, <1>2, <1>3, <3>1, <3>3, QueueTaken, Zenon
    <3> QED BY <3>3, <3>4, <3>5 DEF SameFlags
  <2> QED BY <2>1, <2>2
<1>6. timer'.pc \in {"transfer", "request"} /\ timer'.total <= timer.total /\ timer'.total \in Int
  BY <1>1, <1>2, <1>3
<1> QED BY <1>1, <1>3, <1>4, <1>5, <1>6, ControlInTransfer

LEMMA ControlStep ==
  ASSUME TransferInv, TransferInv', Sizes, ControlInv, [Next]_vars PROVE ControlInv'
<1>1. OwnData' /\ NotControl'
  BY OwnDataStep, NotControlStep
<1>2. CASE ~Timer
  BY <1>1, <1>2, ControlOthers
<1>3. CASE TimerFires \/ FrameEnds \/ StaleGiven \/ UrbGiven
  BY <1>1, <1>3, ControlRestarts
<1>4. CASE ReturnUnlinked \/ ReturnNoEndpoint \/ ReturnHalted \/ ControlHandled \/ SetupFails
  BY <1>1, <1>4, ControlReturnsStep
<1>5. CASE GiveStale \/ SetupCall
  BY <1>1, <1>5, ControlSetup
<1>6. CASE SetupDefers \/ \E l \in ReqLengths \cup {0} : SetupAnswers(l)
  BY <1>1, <1>6, ControlAnswered
<1>7. CASE SkipUrb
  BY <1>1, <1>7, ControlSkips
<1>8. CASE TransferEnds
  BY <1>1, <1>8, ControlSkips, ControlReturnsStep
<1>9. CASE TransferBegins
  BY <1>1, <1>9, ControlBegins
<1>10. CASE RequestGiven
  BY <1>1, <1>10, ControlGiven
<1>11. CASE TransferMoves
  BY <1>1, <1>11, ControlMoves
<1> QED BY <1>2, <1>3, <1>4, <1>5, <1>6, <1>7, <1>8, <1>9, <1>10, <1>11 DEF Timer

-----------------------------------------------------------------------------
(* What the order of the data rests on.                                    *)
OrderInv == TransferInv /\ Sizes /\ OutWhole /\ ReportInv /\ ControlInv

LEMMA OrderInit == ASSUME Init PROVE OrderInv
<1>1. TransferInv
  BY TransferInit
<1>2. /\ \A e \in Eps : ep[e].queue = <<>>
      /\ \A r \in AllReqs : req[r] = FreeReq
      /\ \A u \in Urbs : urb[u] = FreeUrb
      /\ DOMAIN urbp_list = {} /\ timer = Idle /\ DOMAIN data = {}
  BY DEF Init
<1>3. /\ FreeReq.len = 0 /\ FreeReq.actual = 0 /\ FreeReq.n = 0 /\ FreeReq.own = "driver"
      /\ FreeUrb.len = 0 /\ FreeUrb.actual = 0 /\ FreeUrb.ep = "none" /\ Idle.pc = "idle"
  BY DEF FreeReq, FreeUrb, Idle, None
<1>4. Sizes /\ OutWhole
  BY <1>2, <1>3 DEF Sizes, OutWhole
<1>5. ReportInv
  BY <1>2, <1>3 DEF ReportInv, Report, NoneLost, InTurn
<1>6. ControlInv
  <2>1. OneOld /\ Passed /\ InData /\ OwnAnswer
    BY <1>2, <1>3 DEF OneOld, Passed, InData, OwnAnswer
  <2>2. OwnData /\ NotControl
    BY <1>2, <1>3 DEF OwnData, NotControl
  <2> QED BY <2>1, <2>2 DEF ControlInv
<1> QED BY <1>1, <1>4, <1>5, <1>6 DEF OrderInv

LEMMA OrderStep == ASSUME OrderInv, [Next]_vars PROVE OrderInv'
<1>1. TransferInv'
  BY TransferStep DEF OrderInv
<1> QED BY <1>1, SizesStep, ReportStep, ControlStep DEF OrderInv

(* The host gets what the gadget queued on "in" in order, each byte once   *)
(* and nothing lost unless one side is told of it; an urb that ends well   *)
(* on "out" gave all its bytes unless the request ended in an overflow;    *)
(* and a control transfer's data is the answer to its own setup (transfer  *)
(* and dummy_timer, with any number of urbs, requests and callbacks in     *)
(* between).                                                               *)
THEOREM DataInOrder == Spec => []InOrder
<1>1. Init => OrderInv
  BY OrderInit
<1>2. OrderInv /\ [Next]_vars => OrderInv'
  BY OrderStep
<1>3. OrderInv => InOrder
  <2>1. ASSUME OrderInv PROVE DOMAIN urb = Urbs
    BY <2>1 DEF OrderInv, TransferInv, TransferTypes
  <2> QED BY <2>1 DEF OrderInv, ReportInv, NoneLost, InTurn, OutWhole, ControlInv, OwnData, InOrder
<1> QED BY <1>1, <1>2, <1>3, PTL DEF Spec

=============================================================================
