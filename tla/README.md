# NUMA-Fabric: TLA+ specifications, checks and proofs

This directory keeps a formal model of the NUMA-Fabric coordinator beside its
C++ source. It consists of TLA+ modules translated from the code, TLC instances
that check them, and TLAPS proofs of the properties that matter most.

## 1. The system

One coordinator process owns the truth about one NUMA host. Workers connect to
it over TCP, register, and ask for placements, reservations, bindings,
migrations and observations. Each connection has a thread of its own; the
threads share a `Runtime`, which owns everything else.

| Part | Source | State | Operations | Module |
|---|---|---|---|---|
| Reservation store | `src/reservation_store.cpp` | reservations, bytes and slots per node, bytes per accelerator, next id, generation watermark | reserve, release, restore | `ReservationStore` |
| Worker registry | `src/worker_registry.cpp` | worker -> boot, incarnation, alive, binding; next boot | register, restart, mark_dead, restore, validate_boot, stores through `find_mut` | `WorkerRegistry` |
| Coordinator | `src/coordinator.cpp` | connection table, threads, epoch | receive, one handler per frame, loss of a connection | `Coordinator` |
| Server life cycle | `src/coordinator.cpp`, `apps/coordinator` | listening socket, running flag, accept and connection threads | bind, accept, Shutdown frame, shutdown, destructor | `Server` |
| Programs | `apps/worker`, `apps/proof`, `src/worker.cpp` | where each process is, what it was told | register, plan, reserve, release, hold, exit; the script of nf-proof | `Fleet` |
| Memory manager | `src/memory_manager.cpp` | regions, usage per node | allocate, release, transition, invalidate, governed_reallocate | `MemoryManager` |
| Migration manager | `migration/migration.hpp` | attempts | begin, execute, rollback | `Migration` |
| Persistence | `src/persistence_store.cpp`, `Runtime::persist`, `recover` | container on disk | persist, save, load, recover | `Recovery` |
| Frames and session | `src/protocol_frame.cpp`, `src/worker.cpp` | decoder buffers, sockets | encode, push, connect, close, send_*, recv_frame | `FrameStream` |
| Placement engine | `src/placement_engine.cpp` | none (pure) | plan | `PlacementEngine` |
| Topology, affinity | `src/topology_impl.cpp`, `affinity/*.hpp` | none (pure); scope guards | sort_canonical, validate, semantic_digest; affinity sets; guards | `Topology`, `Host` |
| Backends | `src/windows_backend.cpp`, `src/synthetic_backend.cpp` | thread affinity; bytes per node, regions | discover, apply_affinity, allocate, free | `WindowsBackend`, `SyntheticBackend`, composed in `Host` |
| CUDA, accelerators, core values, nf CLI | `cuda_backend.cu`, `runtime_core.cpp`, `core/`, `apps/nf` | - | - | not modelled |

Paths are relative to the repository. `PROJECT.json` maps every definition to
the lines it models and lists the hazards, each at the line where it bites.

**How the parts interact.** A connection thread decodes frames, validates the
sender's boot against the registry, and calls the store, the planner or the
memory manager through the runtime. Validation and action are separate steps:
`validate_authority` reads through a pointer without a lock, and `bind_worker`
stores through one. The planner adds up the reservations of the store. The
migration manager drives the memory manager with its own mutex released.
`persist` copies the registry and the store while other threads use them. The
programs talk to the threads one request at a time; main stops the server by
closing its socket and joining its threads. The runtime asks its backend for the
topology, which the planner and the affinity sets are built on.

**What is hard here.** Late loss notices against re-registration; stale boots,
epochs and generations; operations that drop a lock half way; a migration
against a release or a rollback; capacity at its limit and at the word size; a
crash anywhere in save and recovery; chunked, broken-off and reconnected streams;
processes that die between two requests; a shutdown against connections that
still arrive; nested and moved affinity guards; nodes that span processor groups.

## 2. The modules

* `ReservationStore`: every public operation holds the store's mutex and is one
  action. Counters are maps with explicit key sets, because `operator[]` inserts
  zero entries, and arithmetic is modulo `Word`. `ReservationLedger` is the
  abstract promise: a set of live claims that fits, and a set of spent ids.
  `ReservationAccounting` holds the properties that need sums, and the
  refinement mapping.
* `WorkerRegistry`: boots, incarnations, and the stores `bind_worker` (one field
  at a time) and `observe` make.
* `Coordinator` composes the two. A thread's program counter moves through the
  parts of a handler: lookup, brand and record for a registration; the two loads
  of `validate_authority`; validate and read of a binding and each of its stores;
  compare, stamp and store of an observation, under the runtime's mutex; and lose,
  mark and erase when its connection goes down. Frames of one connection are
  handled in order; everything else interleaves. `Controller` holds the
  connections without a socket.
* `MemoryManager` and `Migration`: an operation that takes the manager's mutex
  and the backend's is split where it drops one. The backend hands out numbered
  buffers or fails, and counts frees. `Disciplined` states a caller's contract
  (no release of a region while it is Migrating) that the code does not enforce.
  `MemoryAccounting` compares the usage with the live regions.
* `Recovery`: registry and store across crashes. `persist` is two copies, a
  temporary file and a rename; `recover` restores record by record. Containers
  of earlier, larger hosts are initial states.
* `FrameStream`: frames are sequences of cells; TCP delivers any prefix of what
  is under way, a reset loses a suffix. The session sends one request at a time.
  A peer sends frames back to back, some of them malformed; the error that
  leaves the thread ends the process (`Terminate`).
* `PlacementEngine`: `plan` as operators over the reservations, evaluated in
  every state of the store in which the planner can add them up: its sums throw
  on overflow (`Summable`). `Synthetic` chooses the distances of the synthetic
  backend or the constant one of Windows; the topology may be empty.
* `Server`: main, the accept thread and a thread per connection, from `bind` to
  the destructor. A Shutdown frame clears `running_` from a connection thread;
  `shutdown` returns at once if it finds it cleared, and joinable threads met by
  the destructor end the process (`aborted`). A malformed frame ends it at any
  moment (`thrown`): the decoder's exception leaves the thread. What other frames
  do is `Coordinator`'s.
* `Fleet` composes `Coordinator` and `PlacementEngine` with the programs around
  them. A process is one nf-worker: it connects, registers, and repeats plan,
  reserve and release, taking each reply for what the code takes it for, until
  it holds or returns an exit code. It may be killed, and a second process of
  the same worker may fence it. Fleets run by themselves, or nf-proof starts,
  kills and replaces them and waits for what its script waits for.
* `Topology`: affinity sets by processor group and the three algorithms on a
  topology. The digest is the sequence it hashes, so equal digests mean equal
  hashed content.
* `WindowsBackend` and `SyntheticBackend`: the code over a model of the system
  calls it makes (marked external in the map): nodes are reported in any order,
  and a thread has one group and a mask in it.
* `Host` composes a runtime with either backend: discovery, `bind_worker`,
  guards that nest and move, allocations.
* `*Proofs`: the theorems (section 5).
* `MC*`: values of constants. Operators commented "Faulty variant" are plausible
  bugs of the definition that follows them; no specification uses them. They
  show that each property can fail.

Modelling decisions a reader should know:

* The two loads of `validate_authority` are program-ordered and each atomic, as on
  x86-64; the data race is the interleaving between them. So are the six stores of
  `bind_worker`, of which `binding_id` is left out: nothing reads it from the
  record. `restart_worker` builds its incarnation in one step under the registry's
  mutex: it stores the boot before it sets `alive`, and `validate_authority` loads
  them in the other order. What is lost is a binding that races with those very
  stores: it may keep a different part of its fields than in the model, where it
  keeps the ones stored last. No passing property depends on which.
* Backend calls either succeed or fail, at the backend's choice.
* A call that throws before changing anything is a stuttering step.
* `restore` of an inactive record is left out: `persist` writes active ones only.
* The container is the record it encodes; its CRC and byte layout are not modelled.
  `recover` also marks localities stale; regions are not part of `Recovery`.
* A connection handles one request at a time in `Fleet`; pipelined frames are
  `Coordinator`'s and `FrameStream`'s.
* Costs are integers: the only division, free / needed, is taken exactly.

## 3. The runs

| Run | Shows |
|---|---|
| `reservation_store` | books equal to the active claims, ids and generations never reused, released claims never active again; the store implements `ReservationLedger` |
| `coordinator` | stale boots never pass, a late loss never takes down a restarted worker, replaced boots stay invalid; observations are numbered in the order in which they reach the records, over all workers |
| `migration` | without caller discipline: one mover per region, no placement change without a new generation |
| `migration_disciplined` | with it: last copy kept, no double free, no leak, exact usage, every move ends |
| `recovery` | a crash anywhere: the container is whole at every moment and exactly what it holds is served, within capacity, boots distinct |
| `frames` | frames consumed once, whole and in order; decoders in step across reconnects; replies match requests; a waiting session always returns |
| `placement` | placements obey the hard constraints and agree with the store's admission, penalties are charged and the binding constraint is named; no spurious refusal |
| `server` | after `shutdown` no thread, socket or table entry is left; it ends, unless a malformed frame ends the process first; only after a Shutdown frame is the coordinator destroyed with joinable threads |
| `fleet` | bytes stay booked only for a worker that has not released them for a reason; a failure or a refusal has a cause (fenced, a lost race, a new epoch); every program ends, a lost worker is noticed, the script of nf-proof passes |
| `host` | discovery reports the machine exactly and its digest does not depend on the order of the report; guards bring the affinity back; a bound thread runs only on the node; bytes are booked exactly |
| `old_authority`, `double_free` | the code does not do what a document says (see below) |

Each module has one type invariant; where it is the first conjunct of a deeper
invariant (`OneMover`, `ConsumedOnce`, `ReservationOwed`) it has no line of its own.

**Bounds.** `coordinator`: a connection with a thread and a controller, two
workers and four frames let a worker register, be replaced, lose the old
connection and act. `migration`: two threads, two regions and three buffers let
a migration race a release, a rollback and another migration. `recovery`: one
crash after one save, or before it, is every position of a crash. `frames`: two
frames of two or three bytes (header of two) give every split inside a header, a
payload and between frames, and two connections a reconnect. `placement`: three
nodes (one of unknown capacity) and two reservations fill a node. `server`:
three peers can be pending, served and gone at once. `fleet`: two processes of
one worker on a node that holds one of their footprints, or nf-proof with its
three workers and three sessions. `host`: three processors in two groups owned
by the nodes in every way, gaps in node numbers and masks, three guards, three
allocations. Every bound is a constant named `Max...` in a guard. `MaxBoot`,
`MaxId` and `MaxFrames` are never reached in `fleet`, so that no bound blocks a
thread. Symmetry is used only in runs without liveness. Deadlock is not checked:
clients may stop, and bounds end every behaviour.

**Fairness.** Weak fairness of each thread inside an operation: threads are
scheduled by the operating system and mutexes are held for short sections.
Delivery of bytes already sent is part of the receiver's fairness. In `Server`
peers leave in the end: `shutdown` joins threads that block in `recv` until they
do ("so their connection threads unblock"), so this is what the code itself
relies on; main is not obliged to stop. In `Fleet` a program that runs goes on,
with the thread that serves it, and so does nf-proof; nobody is obliged to start
a process, to kill one or to advance the epoch. No client is obliged to ask
anything.

## 4. Disagreements between code and documents

Refuted in the listed runs:

* `OldAuthorityInert`: a bind validated for an old boot is stored, or the rest of
  its fields are, into the new incarnation.
* `NoDoubleFree` (without discipline): a release during a migration frees the
  old buffer again.

Further ones, each with a configuration that shows it. Where several share a file,
uncomment one property at a time:

* `NoOversubscription` (`MCOversubscription.cfg`): the capacity check's uint64 sum
  wraps.
* `RestoredKept` (`MCRecoveryDocuments.cfg`): `restore` does not advance
  `next_id_`; a new reservation overwrites a restored one.
* `CleanWhenIdle` (`MCResidue.cfg`): a refused claim leaves a zero entry.
* `EpochFenced` (`MCEpochFence.cfg`): only placements compare the epoch.
* `BindingNeverRollsBack` (`MCBindingRollback.cfg`): racing binds store
  generations out of order.
* `RollbackHonoured` (`MCRollback.cfg`): a rolled back attempt still commits.
* `CurrentIsFresh` (`MCStaleLocality.cfg`): an allocation overtaken by an
  invalidation is called current.
* `RefusalChangesNothing` (`MCRestoreRefusal.cfg`): a refused restore inserts an
  entry.
* `RecoveredNotCurrent` (`MCRecoveryDocuments.cfg`): a recovered boot is valid at
  once.
* `BootsFresh` (`MCRecoveryDocuments.cfg`): boots issued after the save are issued
  again.
* `FreeMemoryOwn` (`MCHostDocuments.cfg`): discovery passes the 1-based node id
  where the system wants the 0-based number (`windows_backend.cpp:88`), so a node
  is given the free memory of the next.
* `LocalIsLocal` (`MCHostDocuments.cfg`): a LOCAL allocation names a fixed node,
  not one the thread runs on (`windows_backend.cpp:312`, `enums.hpp:30`).
* `UsageReturned` (`MCHostDocuments.cfg`): the free of an interleaved synthetic
  allocation returns all its bytes to one node (`synthetic_backend.cpp:272`).
* `CurrentAffinityActual` (`MCHostDocuments.cfg`): `bind_worker` records the
  requested affinity as the actual one (`runtime.cpp:212`, README lines 115-116).

Read in the code and not given a run of their own:

* `coordinator.hpp` says connection exceptions never crash the process; a
  `ProtocolError` from the decoder is not caught in the thread (`Terminate` of
  `FrameStream`, `DecodeThrows` of `Server`).
* `apps/coordinator/main.cpp` serves "until killed (or sent a Shutdown frame)";
  after such a frame `shutdown` returns early and the destructor meets joinable
  threads (`AbortNeedsFrame` states that nothing else leads to this destructor).
* `recover` restores the number of a worker's last observation but not
  `next_observation_` (`runtime.cpp:374`): after a recovery numbers start again.
* On an empty topology a request with hard constraints is refused with the binding
  constraint "none".
* A connection that registered two workers marks only the last one dead, and
  `close_controller` none.
* `governed_reallocate` throwing out of `execute` leaves the attempt active.
* Binding to a node without processors reports success and applies nothing; a
  guard restored out of nesting order does not bring the affinity back.
* The synthetic backend takes a REQUIRED node it does not know for one of default
  capacity, cannot bind when a group is wider than 64, and ignores configured
  distances although README line 228 names them.

## 5. The proofs

Eight modules hold theorems; each extends the module it is about. They hold for
every value of the constants that satisfies the named assumptions of that module
and, where one is stated, the hypothesis of the theorem. Type correctness and
every bound on a counter come out of the same invariants.

**`SumProofs`.** Counters are compared with sums over sets, and there is no
induction over data. The module proves what one step needs: how
`SumFunctionOnSet` changes when one element is added, removed or given another
value, that a part of a sum is at most the sum, and a bound from a bound on the
terms. The fold chooses an element; that the choice does not matter is proved from
a smallest counterexample among the subsets of a finite set (`SmallestSubset`),
which needs only that strict inclusion is well-founded there.

**`RuntimeProofs`** (store and registry).
* `StoreTypeOK`, `CapacityHonoured`, `GenerationOrder`, `ReleasedIsFinal` without
  a hypothesis, even where additions wrap around: counters change only by
  guarded additions and subtractions, and every reservation lies below `next_id`.
* `LedgerExact`, `NoOversubscription` and the refinement `ImplementsLedger` on the
  hypothesis `NoWraparound`: no request on top of a full node or accelerator, nor
  all reservations together, passes the word. Without it they are false
  (`MCOversubscription.cfg`): the code does not check the addition. The inductive
  invariant `LedgerInv` adds that a counter that is not zero has an entry, since
  `release` skips a missing one.
* `BootsDistinct` and `BootsAreFences`: every boot in use lies below `next_boot`.

**`CoordinatorProofs`**, for any number of connections, workers and frames:
`CoordTypeOK`, `StaleNeverActs`, `BootsDistinct`, `LossFenced`, `BootsAreFences`.
The invariant adds to the types what a thread at each program counter has
established: that a boot it is about to record was issued, what its frame holds,
and that a frame stale on arrival stays stale because boots are never issued
twice. With it `CoordSpec` implements `StoreSpec`, so that all results about the
store hold under every interleaving.

`ObservationsOrdered` needs an invariant of its own (`ObsInv`): every number on
record is below `next_observation`; at most one thread is between the comparison
of the boot and the store, because it holds the runtime's mutex; and the number it
has taken exceeds every number on record until it stores it. Registrations,
restarts and the unlocked stores of a binding may run in between: they reset a
number or leave it alone.

The second half is about the placement engine the coordinator plans with:
`PlanSound` and `PlanComplete` on `NoWraparound`, for all sets of nodes, the empty
one included, capacities, costs and requests. `PlanSpec` implements `StoreSpec`,
so the sums the planner makes are the store's counters and its test is the one
`reserve` will make; a request of no bytes needs `CapacityHonoured` besides. Costs
are naturals, so a best candidate exists where there is a node.

**`MigrationProofs`**, for any number of threads, regions, buffers and attempts.
* `OneMover` and `PlacementFenced`, without discipline: ids from `next_region` on
  are unused, so recording a region never replaces one that moves, and the
  attempt a thread works on is on record.
* `NoDoubleFree`, on the hypothesis `Disciplined`: each buffer has one owner at a
  time, a region at rest or the thread that is recording, moving or freeing it
  (`OwnInv`). A claim hands the buffer from the region to the thread, a commit or
  a failed move hands it back, and only an owner frees. The counterexample of
  `double_free` is the one step that breaks this: a release that takes the buffer
  of a region a thread is moving.

**`CopyProofs`**, also on `Disciplined`: `UsageExact`, `LastCopyKept` and
`BuffersOwned`. The three need each other (`UsageInv`). A vacated region is safe
only if its commit cannot throw; the commit subtracts from `node_usage_`, so it
cannot throw only if the usage is exact; and the usage is exact only if every
Migrating region has a mover that knows where it is accounted.

**`RecoveryProofs`**, for any number of crashes, saves and records.
* `BootsDistinct`: `RecInv` says that container and image are whole at every
  moment, and that half way through a recovery what is restored is as it was
  saved and the rest is not there (`PartlyRestored`).
* `CapacityHonoured`: `restore` checks the capacity of nodes again but not the
  ceiling of accelerators. It need not: a container's claims were within it when
  they were saved (`AccelInv`). The hypothesis is that no request on top of the
  ceiling wraps around.
* `RecoveryRestoresSave`: the container is replaced only by an image that `RecInv`
  and `AccelInv` show to be whole. While a recovery runs the counters are the sums
  of what has been restored, so a record of a node that holds all its saved claims
  is never refused. The hypothesis `NoSumWraps` is `NoWraparound` for a container,
  which may come from a larger host.

**`ConnectionProofs`**, for any number of peers, frames and connections.
* `StoppedForGood` and `AbortNeedsFrame`: what main knows from the exchange of
  `running_` and from its joins; a live connection is in the accept thread's
  hands or has a thread. A malformed frame leads to a state of its own, which
  neither is about.
* `ConsumedOnce`, `InSync` and `ReplyMatches`: bytes in flight are cells that name
  their frame and their place in it. The invariant says of each cell of a stream
  which comes after it, never what the whole stream is; that is what a step that
  delivers, consumes or loses some of them preserves without induction over the
  stream. The session's half adds that nothing is under way for an idle session,
  and at most one request or its answer for a waiting one.

**`HostProofs`**, for all machines, configurations and guards.
* `AffinityRestored`: guards form a stack, but one may restore early, move to an
  outer block or fail to apply. `GuardInv` says that the outermost guard still to
  restore captured the affinity given for good, and that the system grants again
  whatever a guard captured, because it was granted before.
* `SyntheticExact`: `SyntheticInv` relates `used_` to the sum of the live regions
  on every node no interleaved allocation touched, and every live region to the
  allocation it came from; a second free of a result changes nothing because its
  region is gone. Capacities fit the word, so that the unsigned difference is the
  true one.

The hypotheses are met by the checked instances: TLC evaluates `NoWraparound`
and `NoSumWraps` in `MCPlacementEngine` and `MCRecovery`, and `Disciplined` is TRUE
in `migration_disciplined`.

**Only model-checked.**
* Liveness, and with it the fairness: out of the prover's reach.
* `PlacementEngine` and the store where sums wrap: the properties do not hold.
* `Fleet` (`ReservationOwed`, `FailureExplained`, `RefusalNeedsRace`): its invariant
  must relate each program to its request and to the thread that serves it, over
  all of `Coordinator`'s program counters.
* `DiscoveryExact`, `DigestStable` and `BoundWithinNode` of `Host`: a report is
  put in order by `SortSeq`, which chooses a sorting permutation; that one exists
  for every report is an induction over its length.

## 6. Not modelled

* `core/`: strong ids, quantities (but for the overflow check of a sum), digests,
  freshness and JSON text are types and formatting; ids and generations appear as
  naturals in every module.
* CUDA, the enumeration of accelerators and `VirtualAlloc`: calls of drivers and
  the system, with tables of what they returned. In `MemoryManager` a backend is
  a source of buffers that may fail.
* The fields of a payload (`wire.hpp`) and the bytes of the container: both are
  records here; `FrameStream` has the framing.
* The `nf` command line client and the text reports of the runtime: one call and
  a print.
* `Runtime::execute`: one `allocate` on the planned node and a report about it;
  the allocation is in `MemoryManager`.

Worth doing next: the second phase of nf-proof (a recovered coordinator process,
which is `Recovery` under `Fleet`); migrate frames composed with `Coordinator`;
observation generations in `Recovery`; proofs about `Fleet`, from
`CoordinatorProofs`.
