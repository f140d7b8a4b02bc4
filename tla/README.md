# Verification project: GLM-5.3-Flash EXL3 on three DGX Spark nodes

The repository is a deployment: a model served with tensor parallelism over three small machines by a
patched vLLM, and everything around it that starts it, patches it, feeds it weights, connects its
ranks and reboots it when it hangs. Much of it is shell and Python that runs once, unattended, on
machines that lose power; its correctness is about files that outlive processes, about rounds that
overlap, and about ranks that must not disagree. This directory models those parts in TLA+, checks
them with TLC and proves what matters most with TLAPS.

## 1. Inventory

The production track is `src/tracks/tp3-main/`; `src/tracks/tp3`, `src/tracks/tp2` and
`src/patches/tp3` are its predecessors and mostly older copies of the same scripts.

| Component | Source | State it keeps | Operations | Hard because of |
|---|---|---|---|---|
| Engine watchdog | `tracks/tp3-main/ops/watchdog/` | files `fails`, `busy`, `reboots`, `ALARM`, `PAUSE`, `lock` in `/var/tmp` | one round per minute: gates, probe, count, rate limit, reboot | overlapping rounds, kills, commands that hang, power losses, reboots by the script itself, state read early and used late |
| Mesh FIFO | `patches/kernel/0007-one-sided-fifo-rdma-write.patch` | per connection: slot ring, head and tail counters, parked requests, the receive queue of the NIC | irecv (arm, publish), isend (park), drain, test, close | one-sided writes that arrive after the call and slots that arrive in parts, slot reuse, time-outs, refusal half-way |
| Fast load | `tracks/tp3-main/patches/harem_fastload.py`, `harem_fastload_id.py` | shards and `MANIFEST.json` per rank | dump (target, then drafter), load, verify | a crash between shards and manifest, a dump container that is started again, two builds in one directory |
| Patch engine | `tracks/tp3-main/patches/harem_yama.py`, `yama-*.py`, `harem-prelude.sh` | the files of the container's site-packages | check, apply, revert; fourteen patches in order | a crash between two files, a half-applied patch, two patches in one file |
| KV cache | `patches/dflash2-port/files/vllm/v1/core/kv_cache_utils.py` | free list (links between blocks), plan of groups and tensors, hashes of a request | take, touch and give back blocks; group the layers, fit the length, admit; hash blocks | a link forgotten in one of six methods, two accountings that must agree, inputs across block boundaries |
| Tool-call parser | `tracks/tp3-main/patches/yama-glm47.py` | slots, rejected text, one delta | validate a call when it closes, reject, finish | events cut into deltas anywhere, a response that ends anywhere |
| GPU memory in the mesh plugin | `patches/kernel/0006-ptr-cuda-dmabuf-and-flush.patch` | handles of buffers, the flush's queue pair | register, iflush, test | data that the NIC has written and the GPU does not see yet |
| Link selection of the mesh plugin | `patches/kernel/0005-device-aware-link-selection.patch` | none: a walk over addresses and NICs | connect a channel | a NIC that is counted twice, slow NICs, caps |
| JIT caches | `tracks/tp3-main/ops/jit-cache-sync.sh`, `bin/preflight-tp3-main.sh` section 4 | one cache directory tree per node | sync, check, the head's gate | partial failure, a copy that runs while the gate reads |
| Checkpoint sidecar builder | `tracks/tp3-main/tools/sidecar_kur.py`, `patches/yama-sidecar-dizin.py` | a temporary directory, then the sidecar | build, replace, verify; filter the index | a crash half-way, a tool or a target that changes during a build |
| Launcher and preflight | `tracks/tp3-main/bin/`, `harem-exl3.service` | environment file, the container | gates, start, the prelude | ranks that start with different code, weights or kernels |
| Draft-tag gate | `tracks/tp3-main/patches/harem_taslak_kapi.py` | none | `karar(tp, spec)` | a table of cases |
| Chunk alignment | `yama-mambagrid.py`, `yama-kpool-init.py` | a few lines of vLLM's scheduler | chunk split | alignment of two grids |
| Proxies | `scripts/strict-proxy.py`, `scripts/effort-proxy.py` | request counter, latest sequence | rewrite, forward, stream | threads, failures after the headers |
| Kernels and model patches | `overlay/`, the rest of `patches/dflash2-port/`, the other kernel patches | tensors | numeric code | out of reach of a model checker |
| Benchmarks, results, charts, docs | `bench/`, `results/`, `charts/`, `docs/` | reports | measure, draw | not part of the running system |

How they interact. systemd starts `harem-exl3` (preflight, then `docker run`). In the container the
prelude applies the fourteen patches with the patch engine, runs the gates, and starts vLLM; vLLM
loads weights through the fast-load hook (from the sidecar's index when it loads from the checkpoint),
plans its KV cache, and opens NCCL, whose network plugin is the mesh. Serving, the scheduler takes KV
blocks from the free list and looks prefixes up by their hashes, and the parser turns what the model
writes into content and tool calls. The watchdog on the head talks to the engine over HTTP, to the workers over ssh, and
to systemd; it is the only component that reboots anything, and nothing else restarts the container.

What makes each correct:

- *Watchdog*: it never reboots more often than its two windows allow, whatever is killed or
  restarted in between, as far as its stamps outlive a power loss; never while ALARM is there; never on
  failures that were not consecutive; the workers before the head; and a lasting hang of the engine is
  handled once the commands of the script return.
- *Mesh FIFO*: the i-th send goes into the buffer of the i-th receive; a slot is never overwritten
  before it is consumed; a write never finds the receive queue empty; a write never exceeds the
  advertised buffer; a connection that fails delivers nothing more. All but the second rest on the order
  in which the bytes of a slot land.
- *Fast load*: a boot that restores weights restores the ones a dump of the same build wrote, for
  both models, or it refuses.
- *Patch engine*: a rank serves on the pinned base with the edits of every patch and nothing else, or
  it does not serve; a patch that shares files with others is taken out alone and whole.
- *KV cache*: the free list is one line in eviction order whatever leaves it from where; the layers of a
  plan never write into each other's blocks and the plan fits the memory; the fitted length is the
  longest that fits; a hash names everything its prefix was made of.
- *Tool-call parser*: the client gets a tool call whole, once and only if it is valid; all other text
  becomes content, once, in order.
- *Mesh plugin*: NCCL never goes on with GPU data that the GPU cannot see; channels spread over the
  cables.
- *JIT caches, sidecar*: ranks meet with equal kernels and no kernel is lost; a sidecar that the loader
  accepts is whole.

The hazards with a property are listed with their lines in `PROJECT.json`. Hazards of the survey that
no module covers: a clock that is set forward or back between boot and NTP (`watchdog.sh:124`), rounds
that a gate ends and that keep the failure counter (`watchdog.sh:86`, modelled, but no document says
what it should do), a failed send that a caller goes on after (`0007:1152`; NCCL does not), the 32-bit
half of the stamp (`0007:880`, harmless up to the clamp of 4096 slots), directories of one name for
target and drafter (`harem_fastload.py:118`), a `deep_gemm/cache` that no launcher makes, so that the
first synchronisation refuses (`jit-cache-sync.sh:56`; the model has it, it fails closed), and a chunk
end that is rounded down to its start (`yama-mambagrid.py:145`).

## 2. Plan

| Order | Modules | Composes | Abstract specification | Theorems | State |
|---|---|---|---|---|---|
| 1 | `Watchdog`, `RebootLimiter` | the script with the timer, a person, the unit, the engine, the links, the clock | `RebootLimiter`: grants spaced by two windows | types, stamps, rate limit, alarm, consecutive failures, refinement | done |
| 2 | `MeshFifo`, `PairedChannel` | two ends, two NICs, NCCL | `PairedChannel`: the i-th send into the i-th receive | slot safety, pairing, refinement | done |
| 3 | `Fastload`, `WeightLoader` | a rank's boots, its directory, the operator, power losses | `WeightLoader`: what a load from the checkpoint gives, or a refusal | whole sidecar, refinement, no false refusal | done |
| 4 | `YamaEngine` | the engine, the prelude, the container, runs by hand | none: the abstraction is the set of edits in a file | never half patched, independence | done |
| 5 | `FreeBlockQueue`, `EvictionOrder` | one caller | `EvictionOrder`: free blocks in one line | soundness of the links, refinement | done |
| 6 | `KvPlan` | two workers, ranks or stages | none | the fitted length, soundness of the plan | done |
| 7 | `BlockHasher` | a request and its groups | a fingerprint of the prefix, stated directly | every prefix fingerprinted | done |
| 8 | `ToolParser` | the engine's events, the client | the items the model wrote | sound calls, nothing lost, order | done |
| 9 | `JitCaches` | three nodes, the gate, the script, a person | none | equal caches, no kernel lost, true report | done |
| 10 | `Sidecar` | builds, a person, the boot and its filter | none | whole or refused, never overwritten | done |
| 11 | `MeshFlush`, `LinkSelection` | the plugin with its NIC, NCCL | for the links the search that was replaced | flushed reads, links spread | done |
| 12 | `MCParts`, `MCStarts` | components that share no state, for TLC | | | done |

The first four are the parts in which one wrong step gives wrong answers or a dead cluster with
nobody at the keyboard, which is why they come first; the rest are parts of the served path and of a
boot. A boot of three ranks as a whole has no module: what the ranks compare with one another is only
the JIT caches, all other gates of a boot look at their own node. A module is written to be proved
about: what bounds a run is a constant in a guard (`Max...`), what the proofs assume of the constants
is a named `ASSUME` in the module that declares them, and no module uses a `RECURSIVE` operator.

## 3. The modules

Each component has its module. `MC` modules give TLC values or symmetry, and two of them put
components together that share no state: the initial state picks the one that takes the steps, so the
states of a run are the sum of its components' and not their product. Proofs are in modules of their
own. Names of actions and operators follow the source where it has
names; `PROJECT.json` maps each definition to its lines. An operator whose comment begins with
*Mutant* is a bug that a change of the code could plausibly bring in; no action uses it, and with the
definition that follows it replaced by it, TLC finds the property violated that `PROJECT.json` names.

### 3.1 Watchdog (`ops/watchdog/watchdog.sh`)

*State.* The files under `/var/tmp` are `fails`, `busy`, `reboots`, `alarm`, one of each per mode
because a dry run adds the suffix `.dry`, and `pause` and `lock`, which both modes share. They survive
a killed round and an orderly reboot of the head. Nothing in the script syncs them: `disk` is what a
power loss leaves of them. `job` is the invocations in progress with the step each is at, the time it
read (`NOW` is read once, line 53) and the peers it has still to visit. The environment is `clock`,
`uptime`, the systemd unit, the engine, the reachable peers, and `stalled`, the commands that hang.
`orders`, `forgot`, `hit`, `lost`, `streak` and `exempt` are history.

*Actions.* `Begin` reads the time, takes the lock and passes the gates of lines 63-73. `UnitInactive`,
`UnitStarting`, `UnitWatched` are the answers of `systemctl` (74), `ContainerYoung` and `ContainerOld`
those of `docker` (82, 85); `Health`, `ProbeOk`, `ProbeBusy`, `ProbeBusyTooLong` and `ProbeFrozen` judge
the engine; `CountFailure`, `RaiseAlarm`, `LimitExceeded` and `LimitPassed` count and limit;
`PeerAnswers` and `PeerSilent` check that the workers can be reached (136); `Stamp` or `DryAct`,
`SendPeer` and `SelfReboot` (162) act. A round is not atomic: the environment, another invocation and
the faults act between any two of its steps.

*Commands that hang.* `systemctl` (74, 162), `docker` (82, 85) and the `ssh` of line 136 once it is
connected have no time limit. While one is in `stalled` (`StallChanges`) a step that calls it is not
enabled. `TimedOut` is `TimeoutStartSec=180` of the unit, which ends the timer's round in such a
step; a person's run has no such limit and keeps the lock.

*Faults.* `Kill` ends a round in any step. `HeadReset` is a loss of power: the counters, the ALARM file
and the stamps fall back to `disk`, which `WriteBack` brings up to date one file at a time and at no
particular moment, and `SelfReboot` all at once, because a reboot writes everything. A stamp file only
grows, so what is left of it is a prefix. A counter file is emptied before it is written, so it may also
be left empty, which line 121 and line 106 read as 0. `WriteBack` may be later than any kernel would be:
the model has more behaviours than a machine, not fewer.

*What is subtle.* The fails file is kept across skipped rounds (lines 73-86), so consecutive means
consecutive among judged rounds; after a power loss `streak` starts from what the file says, so the
property says that the script acts on its file, and the file may forget failures but not invent them.
`NOW` is older than the order it leads to: `RateLimit` therefore measures from the `NOW` of one order to
the time of a later one. A power loss takes stamps of orders that were given. `RateLimit` counts the
stamps that were there and allows one order more for each that has gone (`forgot`): the unsynced stamp of
line 151, taken by a power loss after the workers' orders, does let a second reboot come inside the window,
whatever line 16 says. A kill between the stamp and the orders, or after a peer's order, leaves
a partial reboot that the stamp has already paid for. `PAUSE` and `ALARM` are read only at the top of a
round.

*Simplified.* `NOW` (53) and the lock (61) are one step, so that no other round ends between the two.
`fails` is counted up to `FAIL_NEEDED` and `busy` up to `BUSY_MAX`: larger values are alike to every test
of the script. Rounds that a gate of `Begin` holds back leave no trace and are stuttering.

### 3.2 Mesh FIFO (`patches/kernel/0007-one-sided-fifo-rdma-write.patch`)

The receiver arms a zero-length RECV and then writes a slot (address, rkey, size, sequence) into the
sender's ring; the sender parks each `isend` and posts it as an RDMA write with immediate once the
slot of its turn is there. This is the mode the patch documents as an option; the default transport is
two-sided. The repository holds the patch, not the whole plugin, so what the plugin does around it is
modelled from how the patch uses it.

*State.* `send` and `recv` are the calls with the state of their requests; `pend` is the queue of
parked sends; `head` and `tail` are the counters of published and consumed slots; `ring` holds for
each slot and each of its parts the receive that it is of, because a slot may land torn. `pub`
and `wire` are what is under way between the NICs, and `half` the parts of the first slot that have
landed; `into` is the history of arrived writes.

*Actions.* `Arm`, `ArmFails`, `Publish`, `PublishFails`, `TestRecv`, `TestRecvFails` on the receiver;
`Isend` and `Test` begin a call on the sender, and `DrainPost`, `DrainEnds`, `DrainFails`, `Pending`,
`Done`, `Failed`, `FailRequest` and `TimesOut` are its steps; `Land(part)`, `Arrive` and `Break` are
the network. `mesh_send_drain` does not look at `peer_failed`, so it may post after a
time-out; the model does so too.

*Torn slots.* A slot has three parts, each of which lands as a whole: `body` (address, rkey, size, bytes
0-19), `head` (the word with `seq_head`, 20-23) and `stamp` (`seq`, 24-31). With `Ascending` they land in
this order, otherwise in any. `mesh_fifo_ready` looks at `stamp`, and with `Strict` at `head` (0007:877-889),
and copies `body` unseen. So in ascending order the strict check finds nothing that the stamp has not
shown, and in any other order a slot whose two stamps are in may have the body of the last lap: `mesh_torn`
shows the write that goes to the buffer of an earlier receive, against the comments at 0007:116 and 857.
Everything said of *where* a write goes (`WritesMeetRecvs`, `WritesFit`, `Paired`, `ChannelSpec`) is said
for ascending slots, *the same assumption NCCL's IB plugin ships with*; `NeverOverrun` and the invariant
are said for both.

*External assumptions.* NCCL keeps at most `MaxReq` requests of a kind outstanding, makes no more calls
on a side after an error there, and keeps polling some outstanding send. A reliable connection delivers
in order. A request can fail after its data arrived. The 64-bit sequence does not wrap, and the
comparison of `seq_head` modulo 2^32 is not ambiguous because the ring has at most 4096 slots.
`mesh_fifo_pow2` clamps the depth to 32..4096, which is `MaxReq <= Depth`, the assumption of the proof.

### 3.3 Fast load (`patches/harem_fastload.py`, `harem_fastload_id.py`)

A dump boot loads from the checkpoint and writes each model (first the target, then the drafter) as
shards, then lists it in `MANIFEST.json`. A load boot restores both models from the directory of its
rank, and re-hashes a sample of the tensors.

*State.* `container` is the container that is there, in its mode, `again` whether this boot is one that
was started again, `over` the listed models that such a boot writes over. `shard` and `man` are the disk as processes see it, `durable` the manifest as a power loss
leaves it; `mem` is what the rank holds; `build` is the node's code and weights, `code` those the rank
started with. Shards are fsynced; the manifest is renamed without a sync, so a power loss brings the new
one, the durable one, or one that cannot be parsed. A build is everything the identity hashes; one shard
stands for its tensors.

*Actions.* `Launch` (with the launcher's and the preflight's gates, `MayStart`), `StartAgain` (`docker
start` of a stopped container, which passes no gate), `LoadCheckpoint`,
`SaveBegins`, `SaveEnds`, `WriteManifest`, `Restore`, `ReadShard`, `Verify`; around them `Stop`,
`PowerLoss`, `WriteBack`, `NewDirectory`, `Install`, `Decay`.

*What is subtle.* The identity check inside `_dump` (line 474) comes after the shards were overwritten:
that an older sidecar survives a second dump rests on the launcher's refusal
(`start-tp3-main.sh` lines 97-100), and the mutant of `MayStart` shows it. A dump container that is
started again goes past the launcher and writes over what is listed: `NeverWrittenOver`, what the launcher's
comment says, is violated (`fastload_again`), and `SidecarWhole` excepts just the models in `over`,
until that dump lists them anew. Where the dump is of another build and is refused at line 474, such a
model stays listed with shards of the wrong build, and a load of the old build restores those that the
sample does not hash; `WeightLoader` takes `over` as what may be spoilt, and no more. After a crash between the
target's and the drafter's listing, the directory is refused in both modes until the operator takes
a new one: the code fails closed. Verification is sampled (32 of about 2,700 tensors), and
`WeightLoader` says so: it allows decay in parts that are never re-hashed. A new directory means a new
container (the directory is an argument of `docker run`), so `NewDirectory` leaves none to be started again.

### 3.4 Patch engine and prelude (`patches/harem_yama.py`, `harem-prelude.sh`)

*State.* `in[f]` is the set of edits in file `f`, each a patch with the version of its definition: the
abstraction of a text for which taking the known edits out either gives the pinned base (`Base`) or
does not. `foreign` are files changed in any other way; `copy` is each added file: absent, torn, or a
version. `dir` is the patch directory. `cur`, `mod`, `def`, `todo` and `cdo` are the run in progress.

*Actions.* `StartNew` (the launcher removes the old container) and `StartAgain` (the tree is kept) begin
the prelude; `NextPatch` and `ByHand` begin a run of the engine, with all checks of `calistir` before
its first write; `WriteFile` replaces one file at once, `CopyOpens` and `CopyCloses` write an added file
in place, `Unlink` removes one, `RunEnds` ends the run; `Exec` is vLLM. `Crash` comes between any two
writes or inside one, `Tamper` edits a file of the package, `EditDefinition` a patch.

What it abstracts from: anchors and texts (that edits of different patches do not overlap is what
`tanim_denetle`, the anchor counts and the final check of the engine enforce, with exits 3, 6 and 7),
the compilation check, `--check` and `--durum`, which write nothing, and the leftover temporary file of
an interrupted write, which nobody reads.

### 3.5 KV-cache free list (`FreeKVCacheBlockQueue`)

`FreeBlockQueue` has the two links of each block and of the two fake ends, and the counter. Each method
(`popleft`, `popleft_n`, `remove`, `append`, `prepend_n`, `append_n`) is one action that writes the
links the code writes. Of its `RuntimeError`s only the one of `remove` (a block that is not in the list)
is in the model; the others guard against a list that is broken already. `QueueInv` says that the links are those of one sound
order; that order is the refinement mapping to `EvictionOrder`. The pool that calls the methods is not
in the repository: as it does, the model takes blocks that are free and gives back blocks that are not.

### 3.6 KV-cache plan (`get_kv_cache_configs`)

`KvPlan` goes through the function for the GLM hybrid with a drafter: `Group` (the balanced mamba groups
and the sharing of slots), `TryOne`, `Halve`, `SearchEnds` and `Found` (the search for a length, which
overwrites `max_model_len` while it probes and restores it), `Fitted`, `Check`, `Configure`, `Shrink`.
Two workers are two ranks with all layers or two pipeline stages. What a specification needs for a
length is a table that grows with it, since the specifications are not in the repository.

### 3.7 Prefix hashing

`BlockHasher` has the block sizes that `resolve_kv_cache_block_sizes` gives, the hasher that continues
where it stopped whenever tokens arrive, its extra keys, and the view of the hashes at the size of a
group. A hash is the record of what was hashed. What is subtle: for a block that generated tokens
complete, the hasher looks only at the last multi-modal input (lines 700-702, 716-720: its comment
expects no other to reach there). A prompt whose last block holds the ends of two inputs breaks that:
the hash then leaves the first one out. `PrefixHashed` excepts exactly those blocks (`LateDouble`) and
fails without the exception.

### 3.8 Tool-call parser (`yama-glm47.py`)

`ToolParser` is one response: `TextEvent`, `CallStarts`, `NameEvent`, `ArgChunk`, `PairCompletes` and
`CallEnds` are the engine's events, `DeltaEnds` cuts their batch anywhere, `FinishStreaming` ends the
response anywhere. `HandleToolEnd`, `Validates`, `Reject` and `Finalize` are the overrides of the patch.
Texts are numbered items, a call is its name and the keys of its complete pairs; `ragged` marks a pair
that has begun. `Extracted` is what a response that is not streamed gives. Rejected text comes behind the text
of its own delta: `ContentOrder` says that this is the only disorder. A response that ends inside a
call has its call ended by the engine and validated like any other, which is the finding of
`toolcall_unclosed`.

### 3.9 JIT caches

`JitCaches` has the kernels and directories of each node, the gate of the head (a node at a time, a
failed ssh leaves no answer), and the script step by step: it reads each directory of each node into the
stage, the first node's kernel winning, and writes the stage to each with `--delete`. `Fails` may come
at any ssh or rsync, and the script may be stopped between any two. "The engine must be STOPPED while
you sync" is in the model as `Compile` being possible only with no run in progress, and
`SyncBegins` only with the ranks down; units may start while it runs. Without that rule kernels are
lost to `--delete` and ranks meet with unequal caches.

### 3.10 Checkpoint sidecar

`Sidecar` builds in `<target>.kuruluyor` step by step (`WritesSplit`, `LinksShards`, `WritesConfig`,
`WritesIndex`, `WritesQcfg`, `RemovesEmpty`, `Replaces`, `Verifies`); `BuildKilled` comes between any two.
Between builds a person removes directories (`TidiesUp`; he is taken not to remove what a build is
working on). At any time, also during a build, he may make the target or put files into it
(`FillsTarget`), or install another version of the tool (`InstallsTool`). The build has looked at the
target and at the tool's hash at its start (line 292), and touches the target (352) and hashes its own file
(86-87, for the index at 343) minutes later: `rmdir` and `os.replace` raise on a directory with files, and
the index names the tool that is there by then. So what is at the target survives, and a build that
ends well leaves a sidecar of the tool that it looked for or of the one installed meanwhile:
`NeverOverwritten`. A boot is the preflight's check and the loader's filter. The build's own verification
does not notice a tensor in a shard that the index does not name, nor a dropped tensor in a shard that
nothing else is read from; the filter then raises and the boot is refused: `BootsWhole` says exactly when.

### 3.11 The rest of the mesh plugin

`MeshFlush`: `RegMr` registers a buffer in the first way that works and notes the kind of its memory,
asking the CUDA runtime if it is there and NCCL's own type if not. `IFlush` returns at once, fails, or
posts a read of the buffer over the looped-back queue pair, built at the first flush; `NicReads` executes
it behind the writes it follows, and `TestFlush` ends it. `unseen` holds the receives whose data the GPU
may not see yet. A receive has one buffer, as `mesh_irecv` posts one.

`LinkSelection`: `Collect` is the walk of `mesh_connect` over the peer's addresses and the local NICs,
fast ones first, `Usable` the cap, `ConnectChannel` the choice by device index. Two things the model
shows that the patch's text does not say: the spread is even only when the number of usable links
divides that of the devices (the property bounds it otherwise), and two local NICs in one subnet of the
peer are two links to one of its addresses.

## 4. The runs

| Run | Module and configuration | Checks | Distinct states |
|---|---|---|---|
| `watchdog_limits` | `MCWatchdog`, `WatchdogLimits.cfg` | `IInv`, `StampedOrders`, `RateLimit`, `LimiterSpec` | 772 thousand |
| `watchdog_judge` | `MCWatchdog`, `WatchdogJudge.cfg` | `MaskBounded`, `WorkersFirst`, `ConsecutiveFailures`, `AlarmStops`, `HangIsHandled` | 876 thousand |
| `mesh_safety` | `MCMeshFifo`, `MeshSafety.cfg` | `IInv`, `WritesMeetRecvs`, `NeverOverrun`, `WritesFit`, `Paired`, `ChannelSpec`, `ParkedProgress` | @MESH@ |
| `starts` | `MCStarts`, `Starts.cfg` | patch engine: `IInv`, `ServesPatched`, `RevertsAlone`; JIT caches: `MeetEqual`, `KernelsKept`, `IdenticalIsTrue` | @STARTS@ |
| `parts` | `MCParts`, `Parts.cfg` | fast load: `IInv`, `SidecarWhole`, `NoDrift`, `LoaderSpec`, `NoFalseRefusal`, `DumpLeavesSidecar`; KV cache: `QueueInv`, `QueueIsALine`, `PlanSound`, `FitIsLongest`, `PrefixHashed`; parser: `SoundCallsOnly`, `NothingLost`, `ContentOrder`; sidecar: `BootsWhole`, `NeverOverwritten`; mesh plugin: `LinksSpread`, `FlushedReads` | @PARTS@ |
| `watchdog_all_or_none` | `MCWatchdog`, `WatchdogAllOrNone.cfg` | `AllOrNone` is violated | |
| `watchdog_stalled` | `MCWatchdog`, `WatchdogStalled.cfg` | `HangMeansReboot` is violated | |
| `mesh_torn` | `MCMeshFifo`, `MeshTorn.cfg` | `TornRetried` is violated | |
| `fastload_again` | `MCFastload`, `FastloadAgain.cfg` | `NeverWrittenOver` is violated | |
| `yama_half` | `MCYamaEngine`, `YamaHalf.cfg` | `HalfCompletes` is violated | |
| `kv_admission` | `MCKvPlan`, `KvAdmission.cfg` | `AdmittedFitsOne` is violated | |
| `toolcall_unclosed` | `MCToolParser`, `ToolcallUnclosed.cfg` | `UnclosedRejected` is violated | |

### 4.1 What they show

- *The reboots are bounded.* With two invocations that overlap, killed at any step, and with losses of
  power that take what was not on the disk: no order goes out without a stamp of its own, the orders
  keep the two windows as far as their stamps are left, and seen from outside the script is the abstract
  `RebootLimiter`.
- *The judge is right.* Rounds of the timer beside a person's, these dry or real, with commands that hang:
  exempted rounds are bounded, only consecutive failing rounds reboot, the head goes last, an alarm stops
  all of them, and an engine that stays stuck leads to a reboot or an alarm once no command hangs and no
  person is in the way.
- *The one-sided path pairs sends with receives.* No write finds the receive queue empty or meets
  another buffer than the one it was advertised; none is larger than its buffer; the ring is never
  overrun; and NCCL sees the `PairedChannel`: all this if slots land in ascending order. A parked send is posted whichever request is polled.
- *A rank serves the weights of its own code.* Over dumps and loads of two builds, stopped or cut from
  power anywhere, and with stopped containers started again, `LoaderSpec` holds; the manifest never lists
  shards that are not there, but where a dump that was started again is writing over them; a dump that
  reaches serving leaves a sidecar that a load accepts, and no sound sidecar is refused.
- *No rank serves half-patched.* `ServesPatched` holds from any tree the prelude can find, and
  `RevertsAlone` for patches that share a file.
- *The free list is a line.* After any calls its links, both ways, and its counter are those of one order, and
  what the methods return is what `EvictionOrder` returns.
- *The plan holds what it says.* For every mix of MLA and mamba layers, every place of the second stage,
  with and without drafter, override and fitting: every layer has its memory, layers that share a tensor
  never share a block, the tensors fit, workers agree, and the fitted length is the longest; without a drafter,
  the blocks of every worker serve one request of that length.
- *A prefix hit is a hit of the same prefix*, for aligned groups of different sizes, up to the exception
  of 3.7.
- *The parser is fail-closed* but for the finding: calls reach the client whole, valid and once, streamed
  or not; nothing the model wrote is lost or doubled; the order is kept but for rejected text within a
  delta.
- *Ranks meet with equal kernels*, a synchronisation loses none, and its report of identical caches is
  true when it counts files.
- *A sidecar is whole or refused*, whatever kills its builds, and what is at the target is never written to.
- *GPU data is flushed before it is read*, for every kind of memory and every combination of the knobs and
  libraries, or the connection fails.

### 4.2 Where the code and what is said of it disagree

Seven statements of comments and documents are refuted, each by a run of its own that ends in the
counterexample (`findings` in `PROJECT.json` quotes the lines).

The watchdog: a worker whose link goes down after the check is not rebooted though the head is; and with a
`docker` that hangs together with the engine every round is ended by its unit before it has judged
anything, so neither a reboot nor an alarm follows.

The mesh: the strict check detects a torn slot only when it is torn at the check's own word. With parts that
land in any order a slot is used whose address is the last lap's.

What is on the disks: a dump container that is started again writes over a listed sidecar before it
compares anything; and the files a patch adds are written in place, so a kill in that write leaves a tree
that neither `--apply` nor `--revert` gets past.

The served path: the admission check counts the blocks of one request without those of the draft group,
though its layers take block ids of the same pool, so a plan is admitted that cannot hold one request of
the longest length (`kv_cache_utils.py:2347`); and a tool call that the response's end cuts after its name
or after a pair passes the validation and is given to the client, though the parser's text says that a call
that never closes is caught.

Four more are in the modules without a run of their own, because the properties that hold already say how
far the code goes: a `PAUSE` made during a round does not stop that round (`Gated` is in `Begin` alone);
the busy count that the log calls *in a row* outlives the reboot it led to (`HeadRestarts` leaves `busy`);
the lost stamp of 3.1 (`RateLimit`); and the identity in a manifest, which is read from a live directory at
the end of the dump, so that an edit during the dump makes the manifest name a build its tensors do not
come from (`NoDrift` is stated for `Edits` = FALSE and fails with TRUE).

### 4.3 Bounds, and why they are enough

- *Watchdog.* `watchdog_limits` has two alike invocations, without dry runs, and a clock of 0 to 4: with
  `W1` = 1, `Max1` = 1, `W2` = 3, `Max2` = 2 the second reboot is held back by the first window and the
  third, which the first would let pass, by the second alone. One fault gives a kill in every step, or a loss
  of power between any two with each combination of files written and not; `WriteBack` stops with the last
  fault, after which nothing reads `disk`. `watchdog_judge` has the timer and a person with both modes, two
  failures to act, two busy rounds to be excused, `docker` and `ssh` that hang, and no faults. What it asks is
  about rounds, not about time: any number of them fit in the one tick after the grace periods, up to the
  first reboot, and again up to an alarm that a silent worker raises. The violated statements
  have the smallest values that show them. Times above the largest threshold are saturated, which no
  guard can tell. Symmetry over invocations and peers is used in `watchdog_limits` only; no property of
  that run names one of them.
- *Mesh.* A ring of two slots and three messages: the first slot is used again, and the lap changes;
  `MaxReq` = `Depth` is the tightest ring the assumption allows; sizes 1 and 2 give a message that fits
  and one that does not; one fault at any point. The run has the strict check and slots that land in parts
  in ascending order; without the strict check, and for what holds in any order, the proofs speak.
- *Fast load.* Two models (target and drafter) of two shards, the second of them sampled; two builds; four
  boots, of containers that are new or started again, so a dump can be cut, retried in a new directory or by
  `docker start`, loaded, and followed by another build's boot; one part that decays.
- *Patch engine.* Three patches: two that share a file, as three patches share `model.py`, and one with
  two added files, as the fast-loading patch has. Two versions of each definition; three starts, two
  runs by hand, and one foreign change (a tampered file or another image).
- *Free list.* Four blocks: a block with two neighbours on each side of a run of two.
- *Plan.* Five layers: with two stages one of them has more mamba layers than the balanced groups of the
  whole model would give it, which is where the balance matters. Memories of 20 and 60 make lengths of 1
  to 6 fit or not on one worker only; page sizes are the smallest that differ.
- *Hashing.* Prompts of up to five tokens and requests of nine, two inputs, and groups of sizes 2, 3 and 6,
  4 and 6, with one that is not hashed: blocks that the prompt fills, that generated tokens complete, and
  hash units smaller than any group.
- *Parser.* Three items are two calls around a text, in all orders, each valid or rejected, in one delta or
  several; the tool has one key, which is required (a call may be without it, or have a key that the tool
  does not know), and there is a name of no tool. `toolcall_unclosed` has a second tool, without keys.
- *JIT caches.* Three nodes, two directories, a kernel in each with two sizes (so that two nodes can have
  different kernels of one name), two compilations, two runs of the script and one failure or stop: a
  run that fails and the one that repairs it.
- *Sidecar.* Two kept tensors over two shards, one split and one dropped tensor, two parts to a file,
  three builds: one killed, one of another tool, one that ends well. Files that a person puts at the target are
  of one kind, and the tool changes once, at any step.
- *Mesh plugin.* A table of `MESH_MAX_NICS` = 4 NICs (the code's value is in a header that is not in the
  repository; the proof is for every value), two addresses, six channels
  (more than one round of devices); two receives into a buffer of each kind of memory.

Deadlock is not checked: every bound stops the model on purpose, a rank that serves or refuses stays
where it is, and a closed connection makes no more calls.

### 4.4 Fairness

Not every command of the script has a time limit: `curl` and the orders of line 158 have, lines 74, 82, 85,
136 (once connected) and 162 have not. `watchdog_judge` therefore assumes three things, each weakly fair:
that the timer's round begins again and again (`Begin`; the unit is started by a one-minute timer), that a
round whose next command returns goes on (`Round`; a step whose command is in `stalled` is not enabled,
so nothing is assumed of it), and that the unit ends the timer's round while its command hangs (`TimedOut`,
`TimeoutStartSec=180`). A person's round that hangs is never ended. It does not assume that a command ever
returns, that the clock ticks, that the engine changes, or that a person does anything. `HangIsHandled` is then
said of an engine that stays stuck while no command hangs and no person runs the script (whose rounds,
repeated without end, could hold the lock at every minute), whatever hung before and whatever rounds were
lost to it. Without these two conditions it is `HangMeansReboot`, which `watchdog_stalled`, with the timer
alone, refutes under the same fairness. A round in which everything takes its longest stays under 180 s (about 130 s with the default
limits), so the unit's limit by itself does not end rounds that do not hang.

`mesh_safety` assumes, for `ParkedProgress`, that the NICs deliver what is posted, that a call of the
plugin which has begun ends, that a receive NCCL has asked for is published, and that NCCL's proxy polls
*some* outstanding send as long as there is one. Which one is its choice: that is the point of the
property.

The other modules state safety only and assume no fairness: their loops are bounded by their inputs.

## 5. What is proved

All proofs are checked by TLAPS, from the named assumptions of the modules alone, for every value of
the constants that they allow. Each follows the same course: an inductive invariant (checked by
TLC first), one lemma for each of its parts with a step for each action, and the properties from it.

- **`WatchdogProofs`**: for any peers, any number of overlapping invocations, any knobs, any commands that
  hang, any number of kills and losses of power. The invariant ties the stamps to the round that is
  acting: a round past the limit check found both windows free at the time it read, holds the lock, and
  cannot have been overtaken by another stamp; while it sends, the last stamp is its own. Without the lock
  and the age of `NOW` in the invariant, `RateLimit` is not inductive. A loss of power leaves a prefix of
  the stamps (`DiskInv`), whose spacing is inherited; what is left of it for the orders is `OrderInv`: the
  serial numbers of orders grow by at least one each, and an order whose stamp was never lost finds it at
  its place. Then the orders from the i-th to the n-th had n - i stamps of their own, of which at most as many
  are gone as `forgot` has grown, and the rest are spaced (`NewOrderSpaced`). From it: `TypeOK`,
  `StampedOrders`, `RateLimit`, `WorkersFirst`, `MaskBounded`, `AlarmStops`, `ConsecutiveFailures`, that rounds
  exclude each other, and the refinement of `RebootLimiter`, which has a step that forgets grants.
- **`MeshFifoProofs`**: for any depth of at least `MaxReq`, any sizes, with and without the strict
  check, and any number of messages and faults. The counters never pass one another (taken,
  consumed, published, armed, and at most `MaxReq` apart); the queue holds the sends after `tail` in
  order; the writes under way are those between taken and consumed; and every part of a slot holds only
  numbers of its own residue that have landed. Two numbers of one slot that are less than `Depth` apart are
  equal (`SameSlot`): so a stamp that looks ready is the one of this lap. This much holds in whatever order
  the parts land, and gives `NeverOverrun`. Under the assumption `Ascending`, which each of these theorems
  states, a part is never ahead of the parts below it, so the body is of this lap too: `WritesMeetRecvs`,
  `WritesFit`, `Paired`, and the refinement of `PairedChannel`. Its
  last section proves `FlushedReads` of `MeshFlush` for any buffers: an executed read has no unseen data
  of its receive behind it, and a handle of GPU memory always says so. Its first section proves
  `LinksSpread` of `LinkSelection` for any NICs, addresses and channels. What the walk has found after a
  turn (`Gathered`) is one link for each NIC met so far, the first of them in front; the table is never
  full while a NIC is missing, and the number of a turn is the place of its link in the order of the old
  search (`TurnsInOrder`). For the loads, `Shifted` sets a channel of one link against a channel of the
  other one turn of the usable links earlier, which all but the first turn of each round have. It
  assumes `LinkSizes`: a table of a natural size, caps that are natural numbers.
- **`DiskProofs`**, on what the nodes hold on their disks, has three sections. *Fast load*, for any builds,
  models, shards, sample, and number of boots. `SidecarWhole` needs no assumption beyond the module's:
  what a dump that the launcher let in has not finished is in neither manifest, what one that was started
  again writes over is in `over` from its first shard to its listing, and shards before the one being
  written are whole. The others assume that the build of a node does not change while a rank boots
  (`~Edits`), which is the operating rule (4.2 says what happens without it). From it: `NoDrift`,
  `NoFalseRefusal`, `DumpLeavesSidecar` and the refinement of `WeightLoader`.
  *JIT caches*, for any nodes, directories, kernels, failures and stops. What a run writes is the
  kernel of the first node, in the script's order, that has one; that stays the first whatever has been
  written, so a later run gives the same. From it: `MeetEqual`, `KernelsKept`, `IdenticalIsTrue`.
  *Sidecar*, for any tensors, shards, split files and builds. A temporary directory is never
  taken up again, so its content is given by the step of the build that writes it, and only a whole one
  takes the target's name, which then has no files; the tool that the build has looked for is not newer
  than the one that its index names. From it: `BootsWhole` and `NeverOverwritten`.
- **`YamaProofs`**: for any patches, any sharing of files and any number of starts, crashes and foreign
  changes, as long as definitions do not change while a run is in progress (`~LiveEdits`). The invariant
  says that the patches before the prelude's cursor are on and stay on, and that a run's files are the
  base with known edits, in which exactly those it has still to write are not as wanted. `ServesPatched`
  follows at `Exec`, where the cursor is past all patches, and from every file being edited by some patch;
  `RevertsAlone` from each write touching one patch's edit.
- **`KvCacheProofs`**: the free list for any blocks. Every method takes a run of neighbours out or puts a
  run of new blocks between two neighbours; two lemmas (`SpliceOut`, `SpliceIn`) carry the order of the
  links through both, and the order that fits the links is unique, so `QueueInv` is inductive and each
  method is a step of `EvictionOrder`. Then the fitted length of the plan, for any layers, memories and
  pages that grow with the length: the search keeps a length that fits on its left and one that does not
  on its right, what fits is monotone in the length, and a stage's layers do not change while it
  searches. And `PlanSound`: the mamba layers of one group on a stage are no more than its MLA layers,
  because a group takes every so-many-th layer of a stage; so each has a slot, two layers in a slot are
  of two groups, and the bytes of the tensors are the bytes of a block, which the number of blocks was
  divided by, times that number; what was admitted needs no more than that number (`Room`), on every
  worker, so the smallest has room too. The sum over the tensors is split by kind (`SumOfUnion`, `SumOfEqual`).
- **`HasherProofs`**: for any sets of groups (`HasherSizes`: finite, of sizes within the bound), any
  inputs in order of their place, any extra keys and steps. The call of the hasher walks over inputs and
  blocks together; the list of its places is a function that recurs over the blocks (`HashedIs`). In the
  first call no input before the place reaches the block (`MmFirstCall`); a later call sees the last
  input alone, and where another input reaches the block it is a late double block (`MmLaterCall`). So
  the invariant, that every full block has a hash and the hash is good, survives a step, and the hashes
  at the size of a group, a multiple of the hash size (`SizeDivides`), are runs of good hashes:
  `PrefixHashed`.
- **`DataLemmas`** holds what several of these rest on: induction over intervals and finite sets with a
  set in place of the predicate (`Least`, `Upward`, `UpFinite`), which needs no operator as a parameter;
  the existence of functions that recur over an interval (`Recursion`); sums over a finite set, in
  whatever order they are taken (`SumsAre`); the uniqueness of quotient and remainder.
- **`ParserProofs`**: for any tools, schemas and lengths of the response. What the client has and what
  waits in the parser are taken together, which a delivery does not change: each closed slot that is
  not empty was given once, as it still is, and is valid; the content is the texts and the rejected
  calls. For the order, the texts of a delta wait in one sequence and its rejected calls in another, each
  sorted, all of it behind what the client has; a text's number is its place, and a call's is its slot,
  so what comes next is new everywhere. From it: `SoundCallsOnly`, `NothingLost` and `ContentOrder`.

What no proof covers. `HangIsHandled` and `ParkedProgress` are liveness under fairness, which this prover
does not do: TLC checks them under the bounds of 4.3. Every other property of a passing run is a theorem.
The seven violated statements are runs, not theorems.

## 6. What is not modelled

- *Chunk alignment* (`yama-mambagrid.py`, `yama-kpool-init.py`): the patches edit a few lines of a function
  of vLLM's scheduler that is not in the repository, and what they promise depends on the rest of it.
- *Draft-tag gate*: a pure decision over one file without state; a model would be a copy of its table.
- *Proxies*: helpers for measurements in front of the engine, not in the served path.
- *The rest of the launcher and preflight*: a straight line of local checks, each of which stops the boot.
- *Other layouts of the KV cache* (uniform, sliding windows, DeepSeek): the deployment's model takes the
  hybrid branch; their formulas are in classes that are not in the repository.
- *Kernels, model definitions and the configuration files of the vendored port*: numeric code, tables of
  names, and vLLM's own code with a few edited lines.
- *Benchmarks, charts, results*: not part of the running system.
- Within the modelled parts: a clock that is set back, evidence collection, logs and a `docker` client that fails in the watchdog; the
  two-sided path, the handshake and the closing of a connection in the mesh; tensor names, shapes,
  aliases and layouts, `HAREM_FASTLOAD_ONLY` and directories of one name in fast load; texts and
  anchors, and two runs of the engine at once, in the patch engine; decode context parallelism in the
  hashing; the draft sidecar, power losses and a checkpoint that changes in the sidecar builder; a
  listing that an ssh leaves half-printed in the JIT caches.

The modules stand for about @LINES@ of the 45,728 lines that count as implementation: most of the others
are vLLM's configuration, model and sampling code that the port carries along, numeric kernels, and
measurement scripts.
