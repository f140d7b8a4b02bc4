---- MODULE MeshFlush ----
(***************************************************************************)
(* GPU memory in the NCCL mesh plugin, as 0006-ptr-cuda-dmabuf-and-flush   *)
(* adds it: which pointers the plugin offers to take, the registration of  *)
(* a buffer, and iflush, which makes what the NIC has written visible to   *)
(* the GPU by a read of the buffer over a queue pair that is connected to  *)
(* itself, built at the first flush that needs it.  External: NCCL, which  *)
(* flushes what it has received before a kernel reads it and stops at an   *)
(* error, and the NIC, whose writes and reads keep their order.            *)
(***************************************************************************)
EXTENDS Naturals, Sequences

CONSTANTS
  Bufs,               \* buffers that NCCL registers
  KindOf,             \* of each: "host", "device" or "managed" memory
  NoHandle,
  MaxRecvs            \* bound on the receives of the connection

ASSUME KindsOfMemory == KindOf \in [Bufs -> {"host", "device", "managed"}]

VARIABLES
  gdr,          \* g_mesh_state.ptr_cuda, dmabuf_enable and flush_enable, and
                \* which symbols of the CUDA runtime and of verbs were found
  handles,      \* mhandle of each buffer
  flushPath,    \* flush_mr, flush_qp and flush_cq: "none", "ready" or flush_failed
  commState,    \* of the receiving side: "open" or "failed"
  arrived,      \* the completed receives: buffer, size, and how far NCCL is
  unseen,       \* the numbers of those whose data the GPU may not see yet
  reads         \* the flushes posted: of which receive, "sent" or "executed"

flushVars == <<gdr, handles, flushPath, commState, arrived, unseen, reads>>

FlushInit ==
  /\ gdr \in [ptr_cuda : BOOLEAN, dmabuf_enable : BOOLEAN, flush_enable : BOOLEAN,
              runtime : BOOLEAN, reg_dmabuf : BOOLEAN, export : BOOLEAN]
  /\ handles = [b \in Bufs |-> NoHandle]
  /\ flushPath = "none"
  /\ commState = "open" /\ arrived = <<>> /\ unseen = {} /\ reads = <<>>

(* mesh_ptr_support: what getProperties offers. *)
PtrSupport ==
  {"host"} \union IF gdr.ptr_cuda
                  THEN {"cuda"} \union IF gdr.dmabuf_enable /\ gdr.reg_dmabuf THEN {"dmabuf"} ELSE {}
                  ELSE {}

(* The type that NCCL passes, and mesh_cuda_ptr_type.                      *)
NcclType(b) == IF KindOf[b] = "host" THEN "host" ELSE "cuda"
PtrType(b) == IF gdr.runtime THEN KindOf[b] ELSE "unregistered"

(* Mutant: without the CUDA runtime every pointer is a host pointer.       *)
HandleByRuntime(b) ==
  [is_managed |-> PtrType(b) = "managed", is_device |-> PtrType(b) = "device"]

HandleOf(b) ==
  [is_managed |-> PtrType(b) = "managed",
   is_device |-> \/ PtrType(b) = "device"
                 \/ PtrType(b) = "unregistered" /\ NcclType(b) = "cuda"]

(* The ways to register, of which mesh_reg_mr_common takes the first that  *)
(* works.                                                                  *)
Ways(b) ==
  {"ibv_reg_mr"}
    \union (IF NcclType(b) = "cuda" /\ "dmabuf" \in PtrSupport THEN {"fd of NCCL"} ELSE {})
    \union (IF /\ HandleOf(b).is_device \/ HandleOf(b).is_managed
               /\ gdr.reg_dmabuf /\ gdr.export THEN {"own fd"} ELSE {})

RegMr(b) ==
  /\ commState = "open" /\ handles[b] = NoHandle /\ NcclType(b) \in PtrSupport
  /\ \E works \in SUBSET Ways(b) :
       IF works # {}
       THEN handles' = [handles EXCEPT ![b] = HandleOf(b)] /\ UNCHANGED commState
       ELSE commState' = "failed" /\ UNCHANGED handles
  /\ UNCHANGED <<gdr, flushPath, arrived, unseen, reads>>

(* A receive completes, into one registered buffer whose former data NCCL  *)
(* has gone on with; one of no bytes writes nothing.                       *)
Receive(b, size) ==
  /\ commState = "open" /\ handles[b] # NoHandle /\ Len(arrived) < MaxRecvs
  /\ \A r \in 1 .. Len(arrived) : arrived[r].buf = b => arrived[r].state = "read"
  /\ arrived' = Append(arrived, [buf |-> b, size |-> size, state |-> "received"])
  /\ unseen' = IF size > 0 /\ KindOf[b] # "host" THEN unseen \union {Len(arrived) + 1} ELSE unseen
  /\ UNCHANGED <<gdr, handles, flushPath, commState, reads>>

(* The oldest data becomes visible by itself.                              *)
Settles ==
  /\ \E r \in unseen : (\A s \in unseen : r <= s) /\ unseen' = unseen \ {r}
  /\ UNCHANGED <<gdr, handles, flushPath, commState, arrived, reads>>

(* iflush returns before it sets anything up.                              *)
NoFlushFor(r) ==
  LET h == handles[arrived[r].buf] IN
  ~gdr.flush_enable \/ arrived[r].size = 0 \/ (~h.is_device /\ ~h.is_managed)

(* mesh_flush_setup builds what flushes need once for the connection.  A   *)
(* step of it that fails takes back those before it, and iflush ends with  *)
(* an error, not without a flush.                                          *)
SetupFails ==
  /\ flushPath # "ready"
  /\ flushPath' = "failed" /\ commState' = "failed"
  /\ UNCHANGED <<arrived, reads>>

PostFails ==
  /\ flushPath # "failed"
  /\ flushPath' = "ready" /\ commState' = "failed"
  /\ UNCHANGED <<arrived, reads>>

FlushPosted(r) ==
  /\ flushPath # "failed"
  /\ flushPath' = "ready"
  /\ arrived' = [arrived EXCEPT ![r].state = "flushing"]
  /\ reads' = Append(reads, [recv |-> r, state |-> "sent"])
  /\ UNCHANGED commState

IFlush(r) ==
  /\ commState = "open" /\ arrived[r].state = "received"
  /\ IF NoFlushFor(r)
     THEN arrived' = [arrived EXCEPT ![r].state = "read"] /\ UNCHANGED <<flushPath, commState, reads>>
     ELSE SetupFails \/ PostFails \/ FlushPosted(r)
  /\ UNCHANGED <<gdr, handles, unseen>>

(* The NIC executes the oldest read, behind the writes of its receive and  *)
(* of those before it.                                                     *)
NicReads ==
  \E i \in 1 .. Len(reads) :
    /\ reads[i].state = "sent" /\ \A j \in 1 .. i - 1 : reads[j].state # "sent"
    /\ reads' = [reads EXCEPT ![i].state = "executed"]
    /\ unseen' = {r \in unseen : r > reads[i].recv}
    /\ UNCHANGED <<gdr, handles, flushPath, commState, arrived>>

(* mesh_test of the flush of r: its completion queue holds those of other  *)
(* flushes too, each of which marks the request that its wr_id names.      *)
TestFlush(r) ==
  /\ commState = "open" /\ arrived[r].state = "flushing"
  /\ \E i \in 1 .. Len(reads) : reads[i].recv = r /\ reads[i].state = "executed"
  /\ arrived' = [arrived EXCEPT ![r].state = "read"]
  /\ UNCHANGED <<gdr, handles, flushPath, commState, unseen, reads>>

(* The read failed, or nothing came within the time.                       *)
TestFails(r) ==
  /\ commState = "open" /\ arrived[r].state = "flushing"
  /\ commState' = "failed"
  /\ UNCHANGED <<gdr, handles, flushPath, arrived, unseen, reads>>

FlushNext ==
  \/ \E b \in Bufs : RegMr(b) \/ \E size \in 0 .. 1 : Receive(b, size)
  \/ Settles \/ NicReads
  \/ \E r \in 1 .. Len(arrived) : IFlush(r) \/ TestFlush(r) \/ TestFails(r)

FlushSpec == FlushInit /\ [][FlushNext]_flushVars

-----------------------------------------------------------------------------
(* Properties. *)

(* "The read cannot be reordered ahead of the writes it follows, so its    *)
(* completion proves they have landed": with the flush on, NCCL never goes *)
(* on with data in GPU memory that the GPU may not see, whatever kind of   *)
(* memory, way of registering or failure; if it cannot flush, it stops.    *)
FlushedReads ==
  gdr.flush_enable =>
    \A r \in unseen : arrived[r].state # "read"
====
