---- MODULE MeshFifo ----
(***************************************************************************)
(* One connection of the NCCL mesh plugin in its one-sided mode, patch     *)
(* 0007: the sender owns a ring of slots, the receiver arms a zero-length  *)
(* RECV and then writes a slot with the address of its buffer into that    *)
(* ring, and a send waits on a queue until the slot of its turn is there.  *)
(*                                                                         *)
(* Sends and receives are numbered from 1 in the order of the calls.  The  *)
(* NIC (a reliable connection) delivers in order; NCCL, the caller, keeps  *)
(* at most MaxReq requests of a kind outstanding and calls nothing more on *)
(* a side of the connection once a call there has returned an error.       *)
(***************************************************************************)
EXTENDS Integers, Sequences, FiniteSets

CONSTANTS
  Depth,        \* slots of the ring, fifo_depth
  MaxReq,       \* NCCL_NET_MAX_REQUESTS
  Sizes,        \* sizes of messages and of receive buffers
  Strict,       \* NCCL_MESH_FIFO_STRICT
  Ascending,    \* a slot lands in ascending address order
  Fatal,        \* fatal_on_timeout
  MaxMsgs,      \* bound on the calls of each kind
  MaxFaults     \* bound on failed posts, time-outs and broken connections

ASSUME RingAssumption ==
  /\ Depth \in Nat \ {0}
  /\ MaxReq \in Nat
  /\ MaxReq <= Depth
  /\ Sizes \subseteq Nat

(* Ascending is "the same assumption NCCL's IB plugin ships with".         *)
ASSUME SwitchAssumption == {Strict, Ascending, Fatal} \subseteq BOOLEAN

ASSUME BoundsAssumption == MaxMsgs \in Nat /\ MaxFaults \in Nat

VARIABLES
  (* the send comm *)
  send,         \* the isend calls: size and state of the request
  pend,         \* numbers of the sends that wait for a slot, pend_head first
  tail,         \* fifo_tail, the slots consumed
  ring,         \* the slots: of which receive each part of a slot is
  sfail,        \* peer_failed
  call,         \* the call in progress: 0 for none, -1 for mesh_isend, or the
                \* number of the send that mesh_test is asked about
  draining,     \* that call is in mesh_send_drain
  serr,         \* an error was returned to NCCL
  (* the receive comm *)
  recv,         \* the irecv calls whose RECV is armed
  head,         \* fifo_head, the slots published
  rfail, rerr,
  (* the NICs *)
  pub,          \* slots on their way to the ring
  half,         \* the parts of the first of them that have landed
  wire,         \* writes on their way, each with an immediate
  broken,       \* the queue pair is in its error state
  faults,
  (* history *)
  into          \* the writes that have arrived: of which send, in which buffer

sender   == <<send, pend, tail, sfail, call, draining, serr>>
receiver == <<recv, head, rfail, rerr>>
slots    == <<ring, pub, half>>
writes   == <<wire, into>>
vars == <<send, pend, tail, ring, sfail, call, draining, serr, recv, head, rfail, rerr,
          pub, half, wire, broken, faults, into>>

taken == Len(into)      \* RECVs consumed by an immediate

(* body: addr, rkey and size; head: the word with seq_head; stamp: seq.     *)
SlotParts == {"body", "head", "stamp"}
Slot  == [SlotParts -> Nat]
Write == [send : Nat, recv : Nat]

Init ==
  /\ send = <<>> /\ pend = <<>> /\ tail = 0
  /\ ring = [x \in 0 .. Depth - 1 |-> [part \in SlotParts |-> 0]]
  /\ sfail = FALSE /\ call = 0 /\ draining = FALSE /\ serr = FALSE
  /\ recv = <<>> /\ head = 0 /\ rfail = FALSE /\ rerr = FALSE
  /\ pub = <<>> /\ half = {} /\ wire = <<>>
  /\ broken = FALSE /\ faults = 0
  /\ into = <<>>

(* Mutant: a mask that is one slot short. *)
ShortRing(n) == n % (Depth - 1)

(* n & fifo_mask *)
Idx(n) == n % Depth

Fault == faults < MaxFaults /\ faults' = faults + 1

-----------------------------------------------------------------------------
(* mesh_irecv: arm a RECV, then publish the slot. *)

OpenRecvs == {k \in DOMAIN recv : recv[k].st \in {"armed", "filled"}}

(* NCCL leaves no more than MaxReq requests outstanding.                   *)
Room(requests) == Cardinality(requests) < MaxReq

Arm(size) ==
  /\ ~rerr /\ Len(recv) = head
  /\ Len(recv) < MaxMsgs /\ Room(OpenRecvs)
  /\ recv' = Append(recv, [size |-> size, st |-> "armed", len |-> 0])
  /\ UNCHANGED <<head, rfail, rerr, sender, slots, writes, broken, faults>>

(* ibv_post_recv fails: nothing is posted, the request is freed.           *)
ArmFails ==
  /\ ~rerr /\ Len(recv) = head
  /\ Fault
  /\ rerr' = TRUE
  /\ UNCHANGED <<recv, head, rfail, sender, slots, writes, broken>>

(* The slot with seq = head + 1 is written into the peer's ring.  On a     *)
(* broken connection it is flushed.                                        *)
Publish ==
  /\ ~rerr /\ Len(recv) = head + 1
  /\ pub' = IF broken THEN pub ELSE Append(pub, head + 1)
  /\ head' = head + 1
  /\ UNCHANGED <<recv, rfail, rerr, sender, ring, half, writes, broken, faults>>

(* ibv_post_send fails: the RECV stays armed, closeRecv frees the request. *)
PublishFails ==
  /\ ~rerr /\ Len(recv) = head + 1
  /\ Fault
  /\ rfail' = TRUE /\ rerr' = TRUE
  /\ UNCHANGED <<recv, head, sender, slots, writes, broken>>

(* mesh_test of a receive whose RECV has completed.                        *)
TestRecv(k) ==
  /\ ~rerr /\ recv[k].st = "filled"
  /\ recv' = [recv EXCEPT ![k].st = "done"]
  /\ UNCHANGED <<head, rfail, rerr, sender, slots, writes, broken, faults>>

(* The RECV was flushed.                                                   *)
TestRecvFails(k) ==
  /\ ~rerr /\ recv[k].st = "armed" /\ broken
  /\ recv' = [recv EXCEPT ![k].st = "failed"]
  /\ rfail' = TRUE /\ rerr' = TRUE
  /\ UNCHANGED <<head, sender, slots, writes, broken, faults>>

-----------------------------------------------------------------------------
(* The NICs. *)

Target == Idx(Head(pub) - 1)

(* Mutant: seq at the front of the slot. *)
StampFirst(part) == IF part = "stamp" THEN {} ELSE {"stamp"}

(* What lies at lower addresses of the slot, and lands first.              *)
Lower(part) ==
  CASE part = "body"  -> {}
    [] part = "head"  -> {"body"}
    [] part = "stamp" -> {"body", "head"}

(* One part of the first slot on its way reaches the ring; with the last of *)
(* them the next slot's turn comes.                                        *)
Land(part) ==
  /\ pub # <<>> /\ part \notin half
  /\ Ascending => Lower(part) \subseteq half
  /\ ring' = [ring EXCEPT ![Target][part] = Head(pub)]
  /\ IF half \union {part} = SlotParts
       THEN pub' = Tail(pub) /\ half' = {}
       ELSE half' = half \union {part} /\ UNCHANGED pub
  /\ UNCHANGED <<sender, receiver, writes, broken, faults>>

(* A write reaches the receiver: the data is in the buffer of its slot, and *)
(* the immediate consumes the oldest RECV, whose request learns the size.   *)
(* Without a RECV the receiver answers RNR and the write waits.             *)
Arrive ==
  /\ wire # <<>> /\ taken < Len(recv)
  /\ into' = Append(into, Head(wire))
  /\ wire' = Tail(wire)
  /\ recv' = [recv EXCEPT ![taken + 1].st = "filled",
                          ![taken + 1].len = send[Head(wire).send].size]
  /\ UNCHANGED <<sender, head, rfail, rerr, slots, broken, faults>>

(* The connection breaks: what is on its way is lost.                      *)
Break ==
  /\ ~broken /\ Fault
  /\ broken' = TRUE
  /\ pub' = <<>> /\ half' = {} /\ wire' = <<>>
  /\ UNCHANGED <<sender, receiver, ring, into>>

-----------------------------------------------------------------------------
(* mesh_isend and mesh_test of a send: both run mesh_send_drain first. *)

OpenSends == {i \in DOMAIN send : send[i].st \in {"parked", "posted"}}

(* Mutant: the newest send goes first. *)
ParkFirst(i) == <<i>> \o pend

Park(i) == Append(pend, i)

Isend(size) ==
  /\ ~serr /\ call = 0
  /\ Len(send) < MaxMsgs /\ Room(OpenSends)
  /\ send' = Append(send, [size |-> size, st |-> "parked"])
  /\ pend' = Park(Len(send) + 1)
  /\ call' = -1 /\ draining' = TRUE
  /\ UNCHANGED <<tail, sfail, serr, receiver, slots, writes, broken, faults>>

(* Mutant: mesh_test leaves the queue to mesh_isend. *)
NoDrain == FALSE

DrainFirst == TRUE

Test(i) ==
  /\ ~serr /\ call = 0
  /\ i \in OpenSends
  /\ call' = i /\ draining' = DrainFirst
  /\ UNCHANGED <<send, pend, tail, sfail, serr, receiver, slots, writes, broken, faults>>

NextSlot == ring[Idx(tail)]

(* Mutant: a slot that was written, in whichever lap, is ready. *)
AnyLap == NextSlot["stamp"] # 0

(* mesh_fifo_ready.  What it copies after seq can only be newer than seq.  *)
Ready   == NextSlot["stamp"] = tail + 1 /\ (Strict => NextSlot["head"] = tail + 1)
Overrun == NextSlot["stamp"] > tail + 1

(* Mutant: the size is not looked at. *)
AnySize(i, k) == TRUE

(* The message fits the buffer of the slot; a slot never written holds 0.  *)
Fits(i, k) == send[i].size <= IF k = 0 THEN 0 ELSE recv[k].size

(* Mutant: the slot is not consumed. *)
SameTail == tail

NextTail == tail + 1

(* One turn of the loop: RDMA_WRITE_WITH_IMM into the buffer of the slot.  *)
DrainPost ==
  /\ draining /\ pend # <<>> /\ Ready
  /\ LET i == Head(pend)
         k == NextSlot["body"]
     IN  /\ Fits(i, k)
         /\ wire' = IF broken THEN wire ELSE Append(wire, [send |-> i, recv |-> k])
         /\ send' = [send EXCEPT ![i].st = "posted"]
  /\ tail' = NextTail
  /\ pend' = Tail(pend)
  /\ UNCHANGED <<sfail, call, draining, serr, receiver, slots, into, broken, faults>>

(* The queue is empty or its slot is not there.                            *)
DrainEnds ==
  /\ draining /\ (pend = <<>> \/ ~(Ready \/ Overrun))
  /\ draining' = FALSE
  /\ UNCHANGED <<send, pend, tail, sfail, call, serr, receiver, slots, writes, broken, faults>>

(* An overrun, a message that does not fit, or a failed ibv_post_send; the *)
(* send at the front stays there.                                          *)
DrainFails ==
  /\ draining /\ pend # <<>>
  /\ \/ Overrun /\ UNCHANGED faults
     \/ Ready /\ ~Fits(Head(pend), NextSlot["body"]) /\ UNCHANGED faults
     \/ Ready /\ Fault
  /\ sfail' = TRUE /\ draining' = FALSE
  /\ UNCHANGED <<send, pend, tail, call, serr, receiver, slots, writes, broken>>

Drained == call # 0 /\ ~draining
StateOf == send[call].st

(* Back to NCCL, the request is not done (mesh_isend: has been created).   *)
Pending ==
  /\ Drained
  /\ call > 0 /\ StateOf = "parked" => ~sfail
  /\ call' = 0
  /\ UNCHANGED <<send, pend, tail, sfail, draining, serr, receiver, slots, writes, broken, faults>>

(* The write has been acknowledged.                                        *)
Done ==
  /\ Drained /\ call > 0 /\ StateOf = "posted"
  /\ \E j \in DOMAIN into : into[j].send = call
  /\ send' = [send EXCEPT ![call].st = "done"]
  /\ call' = 0
  /\ UNCHANGED <<pend, tail, sfail, draining, serr, receiver, slots, writes, broken, faults>>

(* The queue without its element at position p.                            *)
Without(p) == [j \in 1 .. Len(pend) - 1 |-> IF j < p THEN pend[j] ELSE pend[j + 1]]

(* The request is unlinked and freed, NCCL gets an error.                  *)
FailRequest ==
  /\ send' = [send EXCEPT ![call].st = "failed"]
  /\ IF \E p \in DOMAIN pend : pend[p] = call
       THEN \E p \in DOMAIN pend : pend[p] = call /\ pend' = Without(p)
       ELSE UNCHANGED pend
  /\ serr' = TRUE
  /\ call' = 0
  /\ UNCHANGED <<tail, draining, receiver, slots, writes, broken>>

(* The peer has failed while the request waits for its slot, or its write  *)
(* was flushed.                                                            *)
Failed ==
  /\ Drained /\ call > 0
  /\ \/ StateOf = "parked" /\ sfail
     \/ StateOf = "posted" /\ broken
  /\ sfail' = TRUE
  /\ FailRequest
  /\ UNCHANGED faults

(* It has waited for op_timeout.  Without fatal_on_timeout it is the next  *)
(* test that fails.                                                        *)
TimesOut ==
  /\ Drained /\ call > 0 /\ StateOf = "parked" /\ ~sfail
  /\ Fault
  /\ sfail' = TRUE
  /\ IF Fatal THEN FailRequest
              ELSE /\ call' = 0
                   /\ UNCHANGED <<send, pend, serr, tail, draining, receiver, slots, writes, broken>>

Nic   == Arrive \/ \E part \in SlotParts : Land(part)
Calls == DrainPost \/ DrainEnds \/ DrainFails \/ Pending \/ Done \/ Failed \/ TimesOut

Next ==
  \/ \E size \in Sizes : Arm(size) \/ Isend(size)
  \/ ArmFails \/ Publish \/ PublishFails
  \/ \E k \in DOMAIN recv : TestRecv(k) \/ TestRecvFails(k)
  \/ Nic \/ Break
  \/ \E i \in DOMAIN send : Test(i)
  \/ Calls

Spec == Init /\ [][Next]_vars

(* The NICs deliver, a call that has begun ends, and NCCL's proxy polls    *)
(* some outstanding send as long as there is one: which one is its choice. *)
Fairness ==
  /\ WF_vars(Nic) /\ WF_vars(Calls) /\ WF_vars(Publish)
  /\ WF_vars(\E i \in DOMAIN send : Test(i))

FairSpec == Spec /\ Fairness

-----------------------------------------------------------------------------
(* Properties. *)

(* Every variable holds a value of its kind.                               *)
TypeOK ==
  /\ send \in Seq([size : Nat, st : {"parked", "posted", "done", "failed"}])
  /\ pend \in Seq(Nat)
  /\ tail \in Nat /\ head \in Nat /\ faults \in Nat
  /\ ring \in [0 .. Depth - 1 -> Slot]
  /\ call \in Int
  /\ {sfail, draining, serr, rfail, rerr, broken} \subseteq BOOLEAN
  /\ recv \in Seq([size : Nat, st : {"armed", "filled", "done", "failed"}, len : Nat])
  /\ pub \in Seq(Nat)
  /\ half \subseteq SlotParts
  /\ wire \in Seq(Write) /\ into \in Seq(Write)

(* "an RNR NAK is unreachable": every write on its way has a RECV of its   *)
(* own, and it is the RECV of the very buffer that it writes to.           *)
WritesMeetRecvs ==
  \A j \in DOMAIN wire : wire[j].recv = taken + j /\ taken + j \in DOMAIN recv

(* "the ring has been overrun, which cannot happen while depth >=          *)
(* NCCL_NET_MAX_REQUESTS".                                                 *)
NeverOverrun == ~Overrun

(* "refusing rather than overrunning remote memory": no write is larger    *)
(* than the buffer that it goes to.                                        *)
WritesFit ==
  \A w \in {wire[j] : j \in DOMAIN wire} \union {into[j] : j \in DOMAIN into} :
    w.recv \in DOMAIN recv /\ send[w.send].size <= recv[w.recv].size

(* "slot i is always consumed by the i-th send": a receive that NCCL sees  *)
(* complete holds the message of the same number, and its size.            *)
Paired ==
  /\ \A k \in DOMAIN into : into[k] = [send |-> k, recv |-> k]
  /\ \A k \in DOMAIN recv : recv[k].st = "done" => recv[k].len = send[k].size

(* The connection as NCCL sees it: what its k-th receive reports is what   *)
(* is in its buffer, or nothing is if the write went elsewhere.            *)
Channel == INSTANCE PairedChannel
  WITH sent <- [i \in 1 .. Len(send) |-> i], wanted <- Len(recv),
       got <- [k \in 1 .. Len(into) |-> IF into[k].recv = k THEN into[k].send ELSE 0]

(* The one-sided path is a channel that pairs sends and receives.          *)
ChannelSpec == Channel!Spec

(* "NCCL_MESH_FIFO_STRICT=1 (the default) additionally checks seq_head, so  *)
(* a torn slot is detected and simply retried instead of used": no write   *)
(* goes to the buffer of another receive.                                  *)
TornRetried ==
  \A w \in {wire[j] : j \in DOMAIN wire} \union {into[j] : j \in DOMAIN into} :
    w.recv = w.send

(* "a request NCCL is not currently polling still makes progress": a       *)
(* parked send whose slot has been published leaves the queue, whichever   *)
(* send is polled, unless the connection fails.                            *)
ParkedProgress ==
  \A n \in 1 .. MaxMsgs :
    (n \in DOMAIN send /\ n <= head)
      ~> ((n \in DOMAIN send /\ send[n].st # "parked") \/ sfail \/ broken)

-----------------------------------------------------------------------------
(* The parts of the inductive invariant, by topic. *)

landed == head - Len(pub)       \* slots that have landed, or were lost

(* The counters never pass one another, and the slots published but not    *)
(* consumed fit the ring.                                                  *)
CounterInv ==
  /\ taken <= tail /\ tail <= head /\ tail <= Len(send)
  /\ head <= Len(recv) /\ Len(recv) <= head + 1
  /\ Len(recv) <= taken + MaxReq

(* The queue holds the sends that have not consumed a slot, in order.      *)
QueueInv ==
  /\ serr => ~draining /\ call = 0
  /\ draining => call # 0
  /\ call > 0 => call \in DOMAIN send
  /\ ~serr => /\ Len(pend) = Len(send) - tail
              /\ \A j \in DOMAIN pend : pend[j] = tail + j

(* The writes on their way are the ones posted and not arrived, in order,  *)
(* and go where their slots said if slots land in ascending order.         *)
WireInv ==
  /\ broken => wire = <<>> /\ pub = <<>>
  /\ ~broken => taken + Len(wire) = tail
  /\ \A j \in DOMAIN wire : wire[j].send = taken + j
  /\ \A k \in DOMAIN into : into[k].send = k
  /\ Ascending =>
       /\ \A j \in DOMAIN wire : wire[j].recv = taken + j
       /\ \A k \in DOMAIN into : into[k].recv = k
       /\ \A k \in 1 .. taken + Len(wire) : send[k].size <= recv[k].size

(* A RECV completes in its turn, with the size of the message.             *)
RecvInv ==
  \A k \in DOMAIN recv :
    /\ recv[k].st \in {"filled", "done"} => k <= taken
    /\ recv[k].st = "failed" => rerr
    /\ k <= taken => recv[k].len = send[k].size

(* A slot holds numbers of its own residue that have been published.       *)
SlotInv ==
  /\ \A j \in DOMAIN pub : pub[j] = landed + j
  /\ half # {} => pub # <<>> /\ half # SlotParts
  /\ \A part \in half : ring[Idx(landed)][part] = landed + 1
  /\ \A x \in 0 .. Depth - 1, part \in SlotParts :
       /\ ring[x][part] <= landed + (IF part \in half THEN 1 ELSE 0)
       /\ ring[x][part] > 0 => Idx(ring[x][part] - 1) = x
       /\ Ascending => \A other \in Lower(part) : ring[x][part] <= ring[x][other]

(* The inductive invariant behind the properties: sends, slots, writes and *)
(* RECVs of the same number stay together.                                 *)
IInv == TypeOK /\ CounterInv /\ QueueInv /\ WireInv /\ RecvInv /\ SlotInv
====
