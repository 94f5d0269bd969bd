-------------------------- MODULE CoordinatorProofs --------------------------
(***************************************************************************)
(* Proofs about the coordinator, for any number of workers, connections,   *)
(* boots, epochs and frames, and about the placement engine it plans with, *)
(* for any nodes, capacities, costs, requests and reservations.            *)
(***************************************************************************)
EXTENDS Coordinator, PlacementEngine, RuntimeProofs

USE DEF Known, BindingFields, Observing

(* The inductive invariant. *)
CoordInv == CoordTypeOK /\ BootsDistinct /\ ThreadsOK

(* The conjuncts of CoordTypeOK about the runtime and the threads. *)
ThreadTypes ==
  /\ epoch \in 1 .. MaxEpoch
  /\ next_observation \in Nat \ {0}
  /\ conns \in [ConnId -> [worker: WorkerId, boot: 1 .. MaxBoot] \cup {Unregistered}]
  /\ link \in [ConnId -> {"up", "down"}]
  /\ pc \in [ConnId -> Steps]
  /\ frame = [c \in ConnId |-> frame[c]]
  /\ \A c \in ConnId :
       frame[c] = NoFrame \/ \E op \in AllOps : frame[c] \in FrameOf(op)
  /\ local \in [ConnId -> Nat]
  /\ told \in [ConnId -> 0 .. MaxEpoch]
  /\ frames \in 0 .. MaxFrames

LEMMA TypeParts == CoordTypeOK <=> RegistryTypeOK /\ StoreTypeOK /\ ThreadTypes
BY DEF CoordTypeOK, ThreadTypes

(* What a step of the registry may not do: shorten the range of boots      *)
(* handed out, or make one of them valid, or current, again.               *)
FenceKept ==
  /\ next_boot' \in Nat
  /\ next_boot' >= next_boot
  /\ \A w \in WorkerId : Known(w) => Known(w)'
  /\ \A w \in WorkerId, b \in 1 .. next_boot - 1 :
       /\ workers[w].boot # b => workers'[w].boot # b
       /\ ~ValidBoot(w, b) => ~ValidBoot(w, b)'

(* A step of the registry as the rest of the proof sees it. *)
RegistryMove == RegistryTypeOK' /\ BootsDistinct' /\ FenceKept

LEMMA SameBootsMove ==
  ASSUME RegistryTypeOK, BootsDistinct, RegistryTypeOK', SameBoots
  PROVE  RegistryMove
<1>1. BootsDistinct'
  BY DEF SameBoots, BootsDistinct
<1>2. FenceKept
  BY RegistryConstants DEF SameBoots, FenceKept, ValidBoot, RegistryTypeOK
<1>3. QED
  BY <1>1, <1>2 DEF RegistryMove

LEMMA UnchangedMove ==
  ASSUME RegistryTypeOK, BootsDistinct, UNCHANGED registryVars
  PROVE  RegistryMove
<1>1. RegistryTypeOK' /\ SameBoots
  BY DEF registryVars, RegistryTypeOK, SameBoots
<1>2. QED
  BY <1>1, SameBootsMove

LEMMA BrandMove ==
  ASSUME RegistryTypeOK, BootsDistinct, NEW w \in WorkerId,
         RegisterWorker(w) \/ RestartWorker(w)
  PROVE  RegistryMove /\ next_boot' = next_boot + 1 /\ next_boot \in 1 .. MaxBoot
<1>1. RegistryTypeOK' /\ BootsDistinct'
  BY BrandedType, BrandedDistinct
<1>2. next_boot \in 1 .. MaxBoot /\ next_boot' = next_boot + 1
  BY BrandedRecord
<1>3. PICK i \in Nat : workers' = [workers EXCEPT ![w] = FreshWorker(next_boot, i)]
  BY BrandedRecord
<1>4. workers'[w].boot = next_boot /\ \A v \in WorkerId \ {w} : workers'[v] = workers[v]
  BY <1>3 DEF FreshWorker, RegistryTypeOK
<1>5. FenceKept
  BY <1>2, <1>4, RegistryConstants, SMTT(30) DEF FenceKept, ValidBoot
<1>6. QED
  BY <1>1, <1>2, <1>5, ZenonT(60) DEF RegistryMove

-----------------------------------------------------------------------------
(* A thread that a step leaves alone stays justified (its link may drop). *)
LEMMA Bystander ==
  ASSUME CoordTypeOK, NEW c \in ConnId, ThreadOK(c), FenceKept,
         pc'[c] = pc[c], frame'[c] = frame[c], local'[c] = local[c],
         link'[c] \in {link[c], "down"}
  PROVE  ThreadOK(c)'
<1> DEFINE f == frame[c]
<1>1. next_boot \in Nat
  BY RegistryConstants DEF CoordTypeOK, RegistryTypeOK
<1>2. f # NoFrame => f.worker \in WorkerId
  BY ZenonT(60) DEF CoordTypeOK, FrameOf
<1>3. pc[c] = "record" => local[c] \in 1 .. next_boot' - 1
  BY <1>1, SMTT(30) DEF ThreadOK, FenceKept
<1>4. pc[c] \in Claiming => f.boot \in 1 .. next_boot' - 1 /\ f.boot \in 1 .. next_boot - 1
  BY <1>1, SMTT(30) DEF ThreadOK, FenceKept
<1>5. pc[c] \in Claiming /\ ~f.bootCurrent => ~ValidBoot(f.worker, f.boot)'
  BY <1>2, <1>4, ZenonT(60) DEF ThreadOK, FenceKept
<1>6. pc[c] = "boot" /\ ~f.bootCurrent => workers'[f.worker].boot # f.boot
  BY <1>2, <1>4, ZenonT(60) DEF ThreadOK, FenceKept, Claiming
<1>7. pc[c] \in PrivilegedSteps => Known(f.worker)'
  BY <1>2, ZenonT(60) DEF ThreadOK, FenceKept, Claiming
<1>8. QED
  BY <1>3, <1>4, <1>5, <1>6, <1>7, ZenonT(60) DEF ThreadOK, ValidBoot

(* A thread back at its receive loop, or past it, has nothing to justify. *)
LEMMA Resting ==
  ASSUME NEW c \in ConnId, pc'[c] \in {"recv", "erase", "done"}
  PROVE  ThreadOK(c)'
BY DEF ThreadOK, Claiming, PrivilegedSteps

(* When one thread moves, the others only have to be left alone. *)
LEMMA OneMoves ==
  ASSUME CoordInv, NEW c \in ConnId, RegistryMove, ThreadOK(c)',
         StoreTypeOK', ThreadTypes',
         \A d \in ConnId \ {c} :
           pc'[d] = pc[d] /\ frame'[d] = frame[d] /\ local'[d] = local[d] /\ link'[d] = link[d]
  PROVE  CoordInv'
<1>1. CoordTypeOK'
  BY TypeParts, ZenonT(60) DEF RegistryMove, CoordTypeOK, ThreadTypes
<1>2. ASSUME NEW d \in ConnId \ {c} PROVE ThreadOK(d)'
  BY <1>2, Bystander, ZenonT(60) DEF CoordInv, ThreadsOK, RegistryMove
<1>3. QED
  BY <1>1, <1>2, ZenonT(60) DEF CoordInv, ThreadsOK, RegistryMove

-----------------------------------------------------------------------------
LEMMA StoreUnchanged ==
  ASSUME StoreTypeOK, UNCHANGED storeVars
  PROVE  StoreTypeOK'
BY DEF storeVars, StoreTypeOK

(* The end of a handler, whatever it did to the registry and the store. *)
LEMMA ReplyInv ==
  ASSUME CoordInv, NEW c \in ConnId, RegistryMove, StoreTypeOK', Reply(c),
         epoch' = epoch, next_observation' \in Nat \ {0},
         conns' \in [ConnId -> [worker: WorkerId, boot: 1 .. MaxBoot] \cup {Unregistered}],
         told' \in [ConnId -> 0 .. MaxEpoch]
  PROVE  CoordInv'
<1>1. ThreadTypes
  BY TypeParts DEF CoordInv
<1>2. pc'[c] = "recv"
  BY <1>1 DEF Reply, Goto, ThreadTypes
<1>3. ThreadOK(c)'
  BY <1>2, Resting, ZenonT(60)
<1>4. \A d \in ConnId \ {c} :
        pc'[d] = pc[d] /\ frame'[d] = frame[d] /\ local'[d] = local[d] /\ link'[d] = link[d]
  BY <1>1, ZenonT(60) DEF Reply, Goto, ThreadTypes
<1>5. ThreadTypes'
  <2>1. frame' = [d \in ConnId |-> frame'[d]]
    BY <1>1 DEF Reply, ThreadTypes
  <2>2. \A d \in ConnId :
          frame'[d] = NoFrame \/ \E op \in AllOps : frame'[d] \in FrameOf(op)'
    BY <1>1 DEF Reply, ThreadTypes, FrameOf, Args
  <2>3. pc' \in [ConnId -> Steps] /\ local' \in [ConnId -> Nat]
    BY <1>1 DEF Reply, Goto, ThreadTypes, Steps
  <2>4. QED
    BY <1>1, <2>1, <2>2, <2>3, ZenonT(60) DEF Reply, ThreadTypes
<1>6. QED
  BY <1>3, <1>4, <1>5, OneMoves, ZenonT(60)

(* A thread that goes on to another step of its handler. *)
LEMMA ProceedInv ==
  ASSUME CoordInv, NEW c \in ConnId, NEW step \in Steps, RegistryMove,
         UNCHANGED <<storeVars, runtimeVars>>, Proceed(c, step), ThreadOK(c)'
  PROVE  CoordInv'
<1>1. ThreadTypes /\ StoreTypeOK
  BY TypeParts, ZenonT(60) DEF CoordInv
<1>2. \A d \in ConnId \ {c} :
        pc'[d] = pc[d] /\ frame'[d] = frame[d] /\ local'[d] = local[d] /\ link'[d] = link[d]
  BY <1>1, ZenonT(60) DEF Proceed, Goto, ThreadTypes
<1>3. ThreadTypes'
  BY <1>1 DEF Proceed, Goto, ThreadTypes, runtimeVars, FrameOf, Args
<1>4. QED
  BY <1>1, <1>2, <1>3, OneMoves, StoreUnchanged, ZenonT(60)

(* A check: only the thread that passes it has something to show. *)
LEMMA CheckInv ==
  ASSUME CoordInv, NEW c \in ConnId, NEW ok \in BOOLEAN, NEW step \in Steps,
         Check(c, ok, step), ok /\ Proceed(c, step) => ThreadOK(c)'
  PROVE  CoordInv'
<1>1. RegistryTypeOK /\ StoreTypeOK /\ ThreadTypes /\ BootsDistinct
  BY TypeParts DEF CoordInv
<1>2. RegistryMove
  BY <1>1, UnchangedMove, ZenonT(60) DEF Check
<1>3. UNCHANGED <<storeVars, runtimeVars>>
  BY DEF Check
<1>4. CASE ok
  BY <1>2, <1>3, <1>4, ProceedInv, ZenonT(60) DEF Check
<1>5. CASE ~ok
  <2>1. Answer(c)
    BY <1>5 DEF Check
  <2>2. StoreTypeOK'
    BY <1>1, <1>3, StoreUnchanged, ZenonT(60)
  <2>3. QED
    BY <1>1, <1>2, <1>3, <2>1, <2>2, ReplyInv, ZenonT(60) DEF Answer, ThreadTypes, runtimeVars
<1>6. QED
  BY <1>4, <1>5, ZenonT(60)

-----------------------------------------------------------------------------
(* One lemma per group of actions. *)
LEMMA LookupInv ==
  ASSUME CoordInv, NEW c \in ConnId, Lookup(c)
  PROVE  CoordInv'
<1> DEFINE step == IF Known(frame[c].worker) THEN "restart" ELSE "register"
<1>1. step \in Steps /\ Check(c, TRUE, step)
  BY ZenonT(60) DEF Lookup, Steps
<1>2. ASSUME Proceed(c, step) PROVE ThreadOK(c)'
  <2>1. frame'[c] = frame[c] /\ pc'[c] = step
    BY <1>2, ZenonT(60) DEF Proceed, Goto, CoordInv, CoordTypeOK
  <2>2. frame[c] # NoFrame
    BY DEF Lookup, CoordInv, ThreadsOK, ThreadOK
  <2>3. QED
    BY <2>1, <2>2, ZenonT(60) DEF ThreadOK, Claiming, PrivilegedSteps
<1> HIDE DEF step
<1>3. QED
  BY <1>1, <1>2, CheckInv, ZenonT(60)

LEMMA RegisterRacedInv ==
  ASSUME CoordInv, NEW c \in ConnId, RegisterRaced(c)
  PROVE  CoordInv'
BY CheckInv, ZenonT(60) DEF RegisterRaced, Steps

LEMMA LoseInv ==
  ASSUME CoordInv, NEW c \in ConnId, Lose(c)
  PROVE  CoordInv'
<1>1. ASSUME Proceed(c, "lost") PROVE ThreadOK(c)'
  <2>1. link'[c] = "down" /\ pc'[c] = "lost"
    BY <1>1, ZenonT(60) DEF Lose, Proceed, Goto, CoordInv, CoordTypeOK
  <2>2. QED
    BY <2>1, ZenonT(60) DEF ThreadOK, Claiming, PrivilegedSteps
<1>2. QED
  BY <1>1, CheckInv, ZenonT(60) DEF Lose, Steps

(* The checks made on a claim: frame and registry stay, so what the claim  *)
(* already satisfies still holds; the step reached needs its own conjunct. *)
LEMMA ClaimProceeds ==
  ASSUME CoordInv, NEW c \in ConnId, pc[c] \in Claiming,
         NEW step \in Claiming, Check(c, TRUE, step),
         step = "boot" /\ ~frame[c].bootCurrent =>
           workers[frame[c].worker].boot # frame[c].boot,
         step \in PrivilegedSteps => frame[c].bootCurrent /\ Known(frame[c].worker),
         step \in {"read"} \cup BindingFields => frame[c].op = "bind" /\ frame[c].arg # NoNode
  PROVE  ThreadOK(c)'
<1>1. frame'[c] = frame[c] /\ pc'[c] = step /\ workers' = workers /\ next_boot' = next_boot
  BY ZenonT(60) DEF Check, Proceed, Goto, CoordInv, CoordTypeOK, registryVars
<1>2. ThreadOK(c)
  BY ZenonT(60) DEF CoordInv, ThreadsOK
<1>3. step \notin {"record", "lost"}
  BY DEF Claiming, PrivilegedSteps
<1>4. QED
  BY <1>1, <1>2, <1>3, ZenonT(60) DEF ThreadOK, ValidBoot

LEMMA ClaimingSteps == Claiming \subseteq Steps
BY ZenonT(60) DEF Claiming, PrivilegedSteps, Steps

LEMMA ClaimCheckInv ==
  ASSUME CoordInv, NEW c \in ConnId, pc[c] \in Claiming,
         NEW ok \in BOOLEAN, NEW step \in Claiming, Check(c, ok, step),
         ok => /\ step = "boot" /\ ~frame[c].bootCurrent =>
                    workers[frame[c].worker].boot # frame[c].boot
               /\ step \in PrivilegedSteps => frame[c].bootCurrent /\ Known(frame[c].worker)
               /\ step \in {"read"} \cup BindingFields => frame[c].op = "bind" /\ frame[c].arg # NoNode
  PROVE  CoordInv'
<1>1. ASSUME ok, Proceed(c, step) PROVE ThreadOK(c)'
  <2>1. Check(c, TRUE, step)
    BY <1>1 DEF Check
  <2>2. QED
    BY <1>1, <2>1, ClaimProceeds, ZenonT(60)
<1>2. QED
  BY <1>1, CheckInv, ClaimingSteps, ZenonT(60)

LEMMA CheckEpochInv ==
  ASSUME CoordInv, NEW c \in ConnId, CheckEpoch(c)
  PROVE  CoordInv'
<1>1. "alive" \in Claiming /\ "alive" \notin PrivilegedSteps /\ pc[c] \in Claiming
  BY ZenonT(60) DEF CheckEpoch, Claiming, PrivilegedSteps
<1>2. QED
  BY <1>1, ClaimCheckInv, ZenonT(60) DEF CheckEpoch

(* A claim stale on arrival that finds its worker alive has another boot. *)
LEMMA ReadAliveInv ==
  ASSUME CoordInv, NEW c \in ConnId, ReadAlive(c)
  PROVE  CoordInv'
<1> DEFINE ok == workers[frame[c].worker].alive
<1>1. "boot" \in Claiming /\ "boot" \notin PrivilegedSteps /\ pc[c] \in Claiming
  BY ZenonT(60) DEF ReadAlive, Claiming, PrivilegedSteps
<1>2. ThreadOK(c) /\ frame[c] # NoFrame
  BY <1>1, ZenonT(60) DEF CoordInv, ThreadsOK, ThreadOK
<1>3. frame[c].worker \in WorkerId /\ frame[c].boot \in 1 .. next_boot - 1
  BY <1>1, <1>2, ZenonT(60) DEF CoordInv, CoordTypeOK, ThreadOK, FrameOf
<1>4. ok \in BOOLEAN
  <2>1. \A r \in Worker : r.alive \in BOOLEAN
    BY DEF Worker
  <2>2. NoWorker.alive \in BOOLEAN
    BY DEF NoWorker
  <2>3. workers[frame[c].worker] \in Worker \cup {NoWorker}
    BY <1>3, ZenonT(60) DEF CoordInv, CoordTypeOK, RegistryTypeOK
  <2>4. QED
    BY <2>1, <2>2, <2>3, ZenonT(60)
<1>5. ok /\ ~frame[c].bootCurrent => workers[frame[c].worker].boot # frame[c].boot
  <2>1. ~frame[c].bootCurrent => ~ValidBoot(frame[c].worker, frame[c].boot)
    BY <1>1, <1>2, ZenonT(60) DEF ThreadOK
  <2>2. frame[c].boot # 0
    <3>1. \A b \in 1 .. next_boot - 1 : b # 0
      BY DEF CoordInv, CoordTypeOK, RegistryTypeOK
    <3>2. QED
      BY <1>3, <3>1, ZenonT(60)
  <2>3. QED
    BY <2>1, <2>2, ZenonT(60) DEF ValidBoot, Known
<1>6. Check(c, ok, "boot")
  BY DEF ReadAlive
<1> HIDE DEF ok
<1>7. QED
  BY <1>1, <1>4, <1>5, <1>6, ClaimCheckInv, ZenonT(60)

LEMMA ReadBootInv ==
  ASSUME CoordInv, NEW c \in ConnId, ReadBoot(c)
  PROVE  CoordInv'
<1> DEFINE f == frame[c]
           step == Granted(f.op)
           ok == workers[f.worker].boot = f.boot /\ step # "recv"
<1>1. pc[c] \in Claiming /\ Check(c, ok, step) /\ ok \in BOOLEAN
  BY DEF ReadBoot, Claiming
<1>2. ThreadOK(c)
  BY ZenonT(60) DEF CoordInv, ThreadsOK
<1>3. ok => f.bootCurrent /\ Known(f.worker)
  BY <1>1, <1>2, SMTT(30) DEF ThreadOK, ReadBoot
<1>4. step \in {"validate", "check", "act", "recv"}
  BY ZenonT(60) DEF Granted
<1>5. step # "recv" => step \in Claiming /\ step \notin {"boot", "read"} \cup BindingFields
  BY <1>4, ZenonT(60) DEF Claiming, PrivilegedSteps
<1>6. step = "recv" => ~ok
  OBVIOUS
<1>7. step \in Steps
  BY <1>4, ZenonT(60) DEF Steps
<1> HIDE DEF step, ok
<1>8. CASE step = "recv"
  BY <1>1, <1>6, <1>7, <1>8, CheckInv, ZenonT(60)
<1>9. CASE step # "recv"
  BY <1>1, <1>3, <1>5, <1>9, ClaimCheckInv, ZenonT(60)
<1>10. QED
  BY <1>8, <1>9, ZenonT(60)

LEMMA ValidateInv ==
  ASSUME CoordInv, NEW c \in ConnId, Validate(c)
  PROVE  CoordInv'
<1> DEFINE f == frame[c]
           step == IF f.op = "bind" THEN "read" ELSE "act"
           ok == ValidBoot(f.worker, f.boot) /\ (f.op = "bind" => f.arg # NoNode)
<1>1. pc[c] \in Claiming /\ Check(c, ok, step) /\ ok \in BOOLEAN
  BY ZenonT(60) DEF Validate, Claiming, PrivilegedSteps
<1>2. f.bootCurrent /\ Known(f.worker)
  BY DEF CoordInv, ThreadsOK, ThreadOK, Validate, PrivilegedSteps
<1>3. step \in Claiming /\ step # "boot"
  BY ZenonT(60) DEF Claiming, PrivilegedSteps
<1>4. ok /\ step \in {"read"} \cup BindingFields => f.op = "bind" /\ f.arg # NoNode
  BY ZenonT(60)
<1> HIDE DEF step, ok
<1>5. QED
  BY <1>1, <1>2, <1>3, <1>4, ClaimCheckInv, ZenonT(60)

LEMMA CompareBootInv ==
  ASSUME CoordInv, NEW c \in ConnId, CompareBoot(c)
  PROVE  CoordInv'
<1> DEFINE ok == workers[frame[c].worker].boot = frame[c].boot
<1>1. pc[c] \in Claiming /\ Check(c, ok, "stamp") /\ ok \in BOOLEAN
  BY ZenonT(60) DEF CompareBoot, Claiming, PrivilegedSteps
<1>2. frame[c].bootCurrent /\ Known(frame[c].worker)
  BY DEF CoordInv, ThreadsOK, ThreadOK, CompareBoot, PrivilegedSteps
<1>3. "stamp" \in Claiming
  BY DEF Claiming, PrivilegedSteps
<1> HIDE DEF ok
<1>4. QED
  BY <1>1, <1>2, <1>3, ClaimCheckInv, ZenonT(60)

-----------------------------------------------------------------------------
(* The worker a thread serves. *)
LEMMA FrameWorker ==
  ASSUME CoordInv, NEW c \in ConnId, frame[c] # NoFrame
  PROVE  frame[c].worker \in WorkerId
BY ZenonT(60) DEF CoordInv, CoordTypeOK, FrameOf

LEMMA BrandInv ==
  ASSUME CoordInv, NEW c \in ConnId, Brand(c)
  PROVE  CoordInv'
<1>1. frame[c] # NoFrame
  BY DEF Brand, CoordInv, ThreadsOK, ThreadOK
<1>2. RegistryTypeOK /\ StoreTypeOK /\ ThreadTypes /\ BootsDistinct
  BY TypeParts, ZenonT(60) DEF CoordInv
<1>3. RegistryMove /\ next_boot' = next_boot + 1 /\ next_boot \in 1 .. MaxBoot
  BY <1>1, <1>2, FrameWorker, BrandMove, ZenonT(60) DEF Brand
<1>4. StoreTypeOK'
  BY <1>2, StoreUnchanged, ZenonT(60) DEF Brand
<1>5. ThreadTypes'
  BY <1>2, <1>3, RegistryConstants, SMTT(30) DEF Brand, Goto, ThreadTypes, runtimeVars, FrameOf, Args, Steps
<1>6. ThreadOK(c)'
  <2>1. pc'[c] = "record" /\ frame'[c] = frame[c] /\ local'[c] = next_boot
    BY <1>2, ZenonT(60) DEF Brand, Goto, ThreadTypes
  <2>2. local'[c] \in 1 .. next_boot' - 1
    BY <1>3, <2>1, RegistryConstants, SMTT(30)
  <2>3. QED
    BY <1>1, <2>1, <2>2, ZenonT(60) DEF ThreadOK, Claiming, PrivilegedSteps
<1>7. \A d \in ConnId \ {c} :
        pc'[d] = pc[d] /\ frame'[d] = frame[d] /\ local'[d] = local[d] /\ link'[d] = link[d]
  BY <1>2, ZenonT(60) DEF Brand, Goto, ThreadTypes
<1>8. QED
  BY <1>3, <1>4, <1>5, <1>6, <1>7, OneMoves, ZenonT(60)

LEMMA RecordInv ==
  ASSUME CoordInv, NEW c \in ConnId, Record(c)
  PROVE  CoordInv'
<1>1. RegistryTypeOK /\ StoreTypeOK /\ ThreadTypes /\ BootsDistinct
  BY TypeParts DEF CoordInv
<1>2. frame[c] # NoFrame /\ local[c] \in 1 .. next_boot - 1
  BY ZenonT(60) DEF Record, CoordInv, ThreadsOK, ThreadOK
<1>3. frame[c].worker \in WorkerId /\ local[c] \in 1 .. MaxBoot
  BY <1>1, <1>2, FrameWorker, RegistryConstants, SMTT(30) DEF RegistryTypeOK
<1>4. conns' \in [ConnId -> [worker: WorkerId, boot: 1 .. MaxBoot] \cup {Unregistered}]
  BY <1>1, <1>3, ZenonT(60) DEF Record, ThreadTypes
<1>5. told' \in [ConnId -> 0 .. MaxEpoch]
  BY <1>1, CoordinatorConstants, SMTT(30) DEF Record, ThreadTypes
<1>6. RegistryMove /\ StoreTypeOK'
  BY <1>1, UnchangedMove, StoreUnchanged, ZenonT(60) DEF Record
<1>7. QED
  BY <1>1, <1>4, <1>5, <1>6, ReplyInv, ZenonT(60) DEF Record, runtimeVars, ThreadTypes

LEMMA ReadBindingInv ==
  ASSUME CoordInv, NEW c \in ConnId, ReadBinding(c)
  PROVE  CoordInv'
<1>1. RegistryTypeOK /\ StoreTypeOK /\ ThreadTypes /\ BootsDistinct /\ ThreadOK(c)
  BY TypeParts, ZenonT(60) DEF CoordInv, ThreadsOK
<1>2. frame[c] # NoFrame /\ frame[c].boot \in 1 .. next_boot - 1
  BY <1>1, ZenonT(60) DEF ReadBinding, ThreadOK, Claiming, PrivilegedSteps
<1>3. RegistryMove /\ StoreTypeOK'
  BY <1>1, UnchangedMove, StoreUnchanged, ZenonT(60) DEF ReadBinding
<1>4. workers[frame[c].worker].binding_generation + 1 \in Nat
  BY <1>1, <1>2, FrameWorker, KnownIsWorker, SMTT(30)
  DEF ReadBinding, ThreadOK, PrivilegedSteps, Worker
<1>5. ThreadTypes'
  BY <1>1, <1>4, ZenonT(60) DEF ReadBinding, Goto, ThreadTypes, runtimeVars, FrameOf, Args, Steps
<1>6. ThreadOK(c)'
  <2>1. /\ pc'[c] = "generation" /\ frame'[c] = frame[c]
        /\ workers' = workers /\ next_boot' = next_boot
    BY <1>1, ZenonT(60) DEF ReadBinding, Goto, ThreadTypes, registryVars
  <2>2. QED
    BY <1>1, <2>1, ZenonT(60) DEF ReadBinding, ThreadOK, ValidBoot, Claiming, PrivilegedSteps
<1>7. \A d \in ConnId \ {c} :
        pc'[d] = pc[d] /\ frame'[d] = frame[d] /\ local'[d] = local[d] /\ link'[d] = link[d]
  BY <1>1, ZenonT(60) DEF ReadBinding, Goto, ThreadTypes
<1>8. QED
  BY <1>3, <1>5, <1>6, <1>7, OneMoves, ZenonT(60)

LEMMA NextFieldIsOne ==
  ASSUME NEW f \in BindingFields, f # "current"
  PROVE  NextField[f] \in BindingFields
<1>1. f = "generation" \/ f = "node" \/ f = "bound" \/ f = "requested"
  OBVIOUS
<1>2. /\ NextField["generation"] = "node" /\ NextField["node"] = "bound"
      /\ NextField["bound"] = "requested" /\ NextField["requested"] = "current"
  BY DEF NextField
<1>3. QED
  BY <1>1, <1>2, ZenonT(60)

LEMMA StoreBindingInv ==
  ASSUME CoordInv, NEW c \in ConnId, StoreBinding(c)
  PROVE  CoordInv'
<1>1. RegistryTypeOK /\ StoreTypeOK /\ ThreadTypes /\ BootsDistinct /\ ThreadOK(c)
  BY TypeParts DEF CoordInv, ThreadsOK
<1>2. frame[c] # NoFrame /\ frame[c].op = "bind" /\ frame[c].arg # NoNode
  BY <1>1, ZenonT(60) DEF StoreBinding, ThreadOK, Claiming, PrivilegedSteps
<1>3. frame[c].worker \in WorkerId /\ frame[c].arg \in BindNode /\ local[c] \in Nat
  BY <1>1, <1>2, ZenonT(60) DEF ThreadTypes, FrameOf, Args
<1>4. RegistryMove
  BY <1>1, <1>3, WriteBindingKeeps, SameBootsMove, ZenonT(60) DEF StoreBinding
<1>5. StoreTypeOK'
  BY <1>1, StoreUnchanged, ZenonT(60) DEF StoreBinding
<1>6. CASE pc[c] = "current"
  <2>1. Answer(c)
    BY <1>6, ZenonT(60) DEF StoreBinding
  <2>2. QED
    BY <1>1, <1>4, <1>5, <2>1, ReplyInv, ZenonT(60)
    DEF StoreBinding, Answer, runtimeVars, ThreadTypes
<1>7. CASE pc[c] # "current"
  <2> DEFINE step == NextField[pc[c]]
  <2>1. Proceed(c, step) /\ pc[c] \in BindingFields
    BY <1>7, ZenonT(60) DEF StoreBinding
  <2>2. step \in BindingFields
    BY <1>7, <2>1, NextFieldIsOne, ZenonT(60)
  <2> HIDE DEF step
  <2>3. step \in Steps /\ step \in PrivilegedSteps /\ step \in Claiming
        /\ step \notin {"record", "boot", "lost"}
    BY <2>2, ZenonT(60) DEF Steps, Claiming, PrivilegedSteps
  <2>4. pc'[c] = step /\ frame'[c] = frame[c]
    BY <1>1, <2>1, ZenonT(60) DEF Proceed, Goto, ThreadTypes
  <2>5. /\ frame[c].boot \in 1 .. next_boot - 1 /\ frame[c].bootCurrent
        /\ Known(frame[c].worker)
    BY <1>1, <2>1, ZenonT(60) DEF ThreadOK, Claiming, PrivilegedSteps
  <2>6. frame[c].boot \in 1 .. next_boot' - 1 /\ workers'[frame[c].worker].boot # 0
    <3>1. next_boot' = next_boot
      BY ZenonT(60) DEF StoreBinding, WriteBinding
    <3>2. workers'[frame[c].worker].boot # 0 /\ frame'[c] = frame[c]
      BY <1>3, <1>4, <2>4, <2>5, ZenonT(60) DEF RegistryMove, FenceKept
    <3>3. QED
      BY <2>5, <3>1, <3>2, ZenonT(60)
  <2>7. ThreadOK(c)'
    BY <1>2, <2>3, <2>4, <2>5, <2>6, ZenonT(60) DEF ThreadOK
  <2>8. QED
    BY <1>4, <2>1, <2>3, <2>7, ProceedInv, ZenonT(60) DEF StoreBinding
<1>8. QED
  BY <1>6, <1>7

LEMMA StampInv ==
  ASSUME CoordInv, NEW c \in ConnId, Stamp(c)
  PROVE  CoordInv'
<1>1. RegistryTypeOK /\ StoreTypeOK /\ ThreadTypes /\ BootsDistinct /\ ThreadOK(c)
  BY TypeParts DEF CoordInv, ThreadsOK
<1>2. next_observation \in Nat /\ next_observation' \in Nat \ {0}
  BY <1>1, SMTT(30) DEF Stamp, ThreadTypes
<1>3. RegistryMove /\ StoreTypeOK'
  BY <1>1, UnchangedMove, StoreUnchanged, ZenonT(60) DEF Stamp
<1>4. ThreadTypes'
  BY <1>1, <1>2, ZenonT(60) DEF Stamp, Goto, ThreadTypes, FrameOf, Args, Steps
<1>5. ThreadOK(c)'
  <2>1. /\ pc'[c] = "observe" /\ frame'[c] = frame[c]
        /\ workers' = workers /\ next_boot' = next_boot
    BY <1>1, ZenonT(60) DEF Stamp, Goto, ThreadTypes, registryVars
  <2>2. QED
    BY <1>1, <2>1, ZenonT(60) DEF Stamp, ThreadOK, ValidBoot, Claiming, PrivilegedSteps
<1>6. \A d \in ConnId \ {c} :
        pc'[d] = pc[d] /\ frame'[d] = frame[d] /\ local'[d] = local[d] /\ link'[d] = link[d]
  BY <1>1, ZenonT(60) DEF Stamp, Goto, ThreadTypes
<1>7. QED
  BY <1>3, <1>4, <1>5, <1>6, OneMoves, ZenonT(60)

LEMMA ObserveInv ==
  ASSUME CoordInv, NEW c \in ConnId, Observe(c)
  PROVE  CoordInv'
<1>1. RegistryTypeOK /\ StoreTypeOK /\ ThreadTypes /\ BootsDistinct /\ ThreadOK(c)
  BY TypeParts, ZenonT(60) DEF CoordInv, ThreadsOK
<1>2. frame[c] # NoFrame /\ local[c] \in Nat
  BY <1>1, ZenonT(60) DEF Observe, ThreadOK, Claiming, PrivilegedSteps, ThreadTypes
<1>3. RegistryMove
  BY <1>1, <1>2, FrameWorker, WriteObservationKeeps, SameBootsMove, ZenonT(60) DEF Observe
<1>4. StoreTypeOK'
  BY <1>1, StoreUnchanged, ZenonT(60) DEF Observe
<1>5. QED
  BY <1>1, <1>3, <1>4, ReplyInv, ZenonT(60) DEF Observe, Answer, runtimeVars, ThreadTypes

LEMMA CallStoreInv ==
  ASSUME CoordInv, NEW c \in ConnId, CallStore(c)
  PROVE  CoordInv'
<1>1. RegistryTypeOK /\ StoreTypeOK /\ ThreadTypes /\ BootsDistinct /\ ThreadOK(c)
  BY TypeParts DEF CoordInv, ThreadsOK
<1>2. frame[c] # NoFrame
  BY <1>1, ZenonT(60) DEF CallStore, ThreadOK, Claiming, PrivilegedSteps
<1>3. /\ frame[c].op = "reserve" => frame[c].arg \in Request \cup {NoNode}
      /\ frame[c].op = "release" => frame[c].arg \in ReservationId \cup {0}
  BY <1>1, <1>2, ZenonT(60) DEF ThreadTypes, FrameOf, Args
<1>4. StoreTypeOK'
  BY <1>1, <1>3, ReserveType, ReleaseType, StoreUnchanged, ZenonT(60) DEF CallStore
<1>5. RegistryMove
  BY <1>1, UnchangedMove, ZenonT(60) DEF CallStore
<1>6. QED
  BY <1>1, <1>4, <1>5, ReplyInv, ZenonT(60) DEF CallStore, Answer, runtimeVars, ThreadTypes

LEMMA MarkLostInv ==
  ASSUME CoordInv, NEW c \in ConnId, MarkLost(c)
  PROVE  CoordInv'
<1>1. RegistryTypeOK /\ StoreTypeOK /\ ThreadTypes /\ BootsDistinct
  BY TypeParts DEF CoordInv
<1>2. conns[c] # Unregistered => conns[c].worker \in WorkerId
  BY <1>1, ZenonT(60) DEF ThreadTypes
<1>3. RegistryMove
  BY <1>1, <1>2, UnchangedMove, MarkDeadKeeps, SameBootsMove, ZenonT(60) DEF MarkLost
<1>4. pc'[c] = "erase"
  BY <1>1, ZenonT(60) DEF MarkLost, Proceed, Goto, ThreadTypes
<1>5. QED
  BY <1>3, <1>4, Resting, ProceedInv, ZenonT(60) DEF MarkLost, Steps

(* Steps that open, drop or erase a connection. *)
LEMMA AcceptInv ==
  ASSUME CoordInv, NEW c \in ConnId, Accept(c)
  PROVE  CoordInv'
<1>1. RegistryTypeOK /\ StoreTypeOK /\ ThreadTypes /\ BootsDistinct
  BY TypeParts DEF CoordInv
<1>2. RegistryMove /\ StoreTypeOK'
  BY <1>1, UnchangedMove, StoreUnchanged, ZenonT(60) DEF Accept
<1>3. ThreadTypes'
  BY <1>1, ZenonT(60) DEF Accept, Goto, ThreadTypes, runtimeVars, FrameOf, Args, Steps
<1>4. pc'[c] = "recv"
  BY <1>1, ZenonT(60) DEF Accept, Goto, ThreadTypes
<1>5. \A d \in ConnId \ {c} :
        pc'[d] = pc[d] /\ frame'[d] = frame[d] /\ local'[d] = local[d] /\ link'[d] = link[d]
  BY <1>1, ZenonT(60) DEF Accept, Goto, ThreadTypes
<1>6. QED
  BY <1>2, <1>3, <1>4, <1>5, Resting, OneMoves, ZenonT(60)

LEMMA EraseInv ==
  ASSUME CoordInv, NEW c \in ConnId, Erase(c)
  PROVE  CoordInv'
<1>1. RegistryTypeOK /\ StoreTypeOK /\ ThreadTypes /\ BootsDistinct
  BY TypeParts DEF CoordInv
<1>2. RegistryMove /\ StoreTypeOK'
  BY <1>1, UnchangedMove, StoreUnchanged, ZenonT(60) DEF Erase
<1>3. ThreadTypes'
  BY <1>1, ZenonT(60) DEF Erase, Goto, ThreadTypes, runtimeVars, FrameOf, Args, Steps
<1>4. pc'[c] = "done"
  BY <1>1, ZenonT(60) DEF Erase, Goto, ThreadTypes
<1>5. \A d \in ConnId \ {c} :
        pc'[d] = pc[d] /\ frame'[d] = frame[d] /\ local'[d] = local[d] /\ link'[d] = link[d]
  BY <1>1, ZenonT(60) DEF Erase, Goto, ThreadTypes
<1>6. QED
  BY <1>2, <1>3, <1>4, <1>5, Resting, OneMoves, ZenonT(60)

LEMMA DropInv ==
  ASSUME CoordInv, NEW c \in ConnId, Drop(c)
  PROVE  CoordInv'
<1>1. RegistryTypeOK /\ StoreTypeOK /\ ThreadTypes /\ BootsDistinct /\ ThreadOK(c)
  BY TypeParts DEF CoordInv, ThreadsOK
<1>2. RegistryMove /\ StoreTypeOK'
  BY <1>1, UnchangedMove, StoreUnchanged, ZenonT(60) DEF Drop
<1>3. ThreadTypes'
  BY <1>1, ZenonT(60) DEF Drop, ThreadTypes, runtimeVars, FrameOf, Args
<1>4. /\ link'[c] = "down"
      /\ \A d \in ConnId : pc'[d] = pc[d] /\ frame'[d] = frame[d] /\ local'[d] = local[d]
      /\ \A d \in ConnId \ {c} : link'[d] = link[d]
  BY <1>1, ZenonT(60) DEF Drop, ThreadTypes
<1>5. ThreadOK(c)'
  BY <1>1, <1>2, <1>4, Bystander, ZenonT(60) DEF CoordInv, RegistryMove
<1>6. QED
  BY <1>2, <1>3, <1>4, <1>5, OneMoves, ZenonT(60)

LEMMA AdvanceEpochInv ==
  ASSUME CoordInv, AdvanceEpoch
  PROVE  CoordInv'
<1>1. RegistryTypeOK /\ StoreTypeOK /\ ThreadTypes /\ BootsDistinct
  BY TypeParts, ZenonT(60) DEF CoordInv
<1>2. RegistryMove /\ StoreTypeOK'
  BY <1>1, UnchangedMove, StoreUnchanged, ZenonT(60) DEF AdvanceEpoch
<1>3. ThreadTypes'
  BY <1>1, CoordinatorConstants, SMTT(30)
  DEF AdvanceEpoch, ThreadTypes, threadVars, FrameOf, Args
<1>4. ASSUME NEW d \in ConnId PROVE ThreadOK(d)'
  BY <1>2, Bystander, ZenonT(60)
  DEF AdvanceEpoch, threadVars, CoordInv, ThreadsOK, RegistryMove
<1>5. QED
  BY <1>2, <1>3, <1>4, TypeParts, ZenonT(60)
  DEF CoordInv, ThreadsOK, RegistryMove, CoordTypeOK, ThreadTypes

(* A frame as it arrives: bootCurrent records whether its boot is valid. *)
LEMMA ReceiveInv ==
  ASSUME CoordInv, NEW c \in ConnId, NEW op \in Ops, NEW w \in WorkerId,
         NEW boot \in Boots(op), NEW arg \in Args(op), Receive(c, op, w, boot, told[c], arg)
  PROVE  CoordInv'
<1> DEFINE step == CASE op = "register" -> "lookup"
                     [] op = "place"    -> "epoch"
                     [] OTHER           -> "alive"
<1>1. RegistryTypeOK /\ StoreTypeOK /\ ThreadTypes /\ BootsDistinct
  BY TypeParts, ZenonT(60) DEF CoordInv
<1>2. RegistryMove /\ StoreTypeOK'
  BY <1>1, UnchangedMove, StoreUnchanged, ZenonT(60) DEF Receive
<1>3. next_boot \in Nat /\ boot \in Nat /\ (op # "register" => boot \in 1 .. next_boot - 1)
  BY <1>1, RegistryConstants, SMTT(30) DEF Boots, RegistryTypeOK
<1>4. told[c] \in Nat
  BY <1>1, CoordinatorConstants, SMTT(30) DEF ThreadTypes
<1>5. op \in AllOps /\ Frame(op, w, boot, told[c], arg) \in FrameOf(op)
  <2>1. \A p, q \in BOOLEAN :
          [op |-> op, worker |-> w, boot |-> boot, epoch |-> told[c], arg |-> arg,
           bootCurrent |-> p, epochCurrent |-> q] \in FrameOf(op)
    BY <1>3, <1>4, ZenonT(60) DEF FrameOf
  <2>2. ValidBoot(w, boot) \in BOOLEAN /\ (told[c] = epoch) \in BOOLEAN
    BY ZenonT(60) DEF ValidBoot
  <2>3. Frame(op, w, boot, told[c], arg) \in FrameOf(op)
    BY <2>1, <2>2, ZenonT(60) DEF Frame
  <2>4. QED
    BY <2>3, CoordinatorConstants, ZenonT(60)
<1>6. /\ step \in {"lookup", "epoch", "alive"} /\ step \in Steps
      /\ step # "lookup" => op # "register"
  BY DEF Steps
<1>7. /\ pc' = [pc EXCEPT ![c] = step]
      /\ frame' = [frame EXCEPT ![c] = Frame(op, w, boot, told[c], arg)]
  BY ZenonT(60) DEF Receive, Goto
<1> HIDE DEF step
<1>8. ThreadTypes'
  <2>1. \A d \in ConnId :
          frame'[d] = NoFrame \/ \E o \in AllOps : frame'[d] \in FrameOf(o)'
    BY <1>1, <1>5, <1>7, ZenonT(60) DEF ThreadTypes, FrameOf, Args
  <2>2. frame' = [d \in ConnId |-> frame'[d]] /\ pc' \in [ConnId -> Steps]
    BY <1>1, <1>6, <1>7, ZenonT(60) DEF ThreadTypes
  <2>3. frames' \in 0 .. MaxFrames
    BY <1>1, CoordinatorConstants, SMTT(30) DEF Receive, ThreadTypes
  <2>4. QED
    BY <1>1, <2>1, <2>2, <2>3, ZenonT(60) DEF Receive, ThreadTypes, runtimeVars
<1>9. ThreadOK(c)'
  <2>1. pc'[c] = step /\ frame'[c] = Frame(op, w, boot, told[c], arg)
        /\ workers' = workers /\ next_boot' = next_boot
    BY <1>1, <1>7, ZenonT(60) DEF ThreadTypes, Receive, registryVars
  <2>2. /\ frame'[c] # NoFrame /\ frame'[c].boot = boot /\ frame'[c].worker = w
        /\ frame'[c].bootCurrent = ValidBoot(w, boot)
    <3> DEFINE F(p, q) ==
          [op |-> op, worker |-> w, boot |-> boot, epoch |-> told[c],
           arg |-> arg, bootCurrent |-> p, epochCurrent |-> q]
    <3>1. ASSUME NEW p, NEW q
          PROVE  /\ F(p, q).op = op /\ F(p, q).boot = boot
                 /\ F(p, q).worker = w /\ F(p, q).bootCurrent = p
      OBVIOUS
    <3>2. frame'[c] = F(ValidBoot(w, boot), told[c] = epoch)
      BY <2>1, Zenon DEF Frame
    <3>3. /\ frame'[c].op = op /\ frame'[c].boot = boot /\ frame'[c].worker = w
          /\ frame'[c].bootCurrent = ValidBoot(w, boot)
      <4> DEFINE G == F(ValidBoot(w, boot), told[c] = epoch)
      <4>1. /\ G.op = op /\ G.boot = boot /\ G.worker = w
            /\ G.bootCurrent = ValidBoot(w, boot)
        BY ONLY <3>1, ZenonT(60)
      <4> HIDE DEF G
      <4>2. frame'[c] = G
        BY <3>2, ZenonT(60) DEF G
      <4>3. QED
        BY <4>1, <4>2, ZenonT(60)
    <3>4. op # "none"
      BY <1>5, ZenonT(60) DEF AllOps, MutableOps
    <3>5. NoFrame.op = "none"
      BY DEF NoFrame
    <3>6. QED
      BY <3>3, <3>4, <3>5, ZenonT(60)
  <2>3. QED
    BY <1>3, <1>6, <2>1, <2>2, ZenonT(60) DEF ThreadOK, ValidBoot, Claiming, PrivilegedSteps
<1>10. \A d \in ConnId \ {c} :
         pc'[d] = pc[d] /\ frame'[d] = frame[d] /\ local'[d] = local[d] /\ link'[d] = link[d]
  BY <1>1, <1>7, ZenonT(60) DEF Receive, ThreadTypes
<1>11. QED
  BY <1>2, <1>8, <1>9, <1>10, OneMoves, ZenonT(60)

-----------------------------------------------------------------------------
LEMMA CoordInvInit == CoordInit => CoordInv
<1> SUFFICES ASSUME CoordInit PROVE CoordInv
  BY ZenonT(60)
<1>1. RegistryTypeOK /\ BootsDistinct
  BY RegistryConstants, SMTT(30) DEF CoordInit, RegistryInit, RegistryTypeOK, BootsDistinct, NoWorker
<1>2. StoreTypeOK
  BY ReservationConstants, SMTT(30) DEF CoordInit, StoreInit, StoreTypeOK, EmptyMap, Map
<1>3. ThreadTypes
  BY CoordinatorConstants, SMTT(30) DEF CoordInit, ThreadTypes, Steps
<1>4. ThreadsOK
  BY ZenonT(60) DEF CoordInit, ThreadsOK, ThreadOK, Claiming, PrivilegedSteps
<1>5. QED
  BY <1>1, <1>2, <1>3, <1>4, TypeParts, ZenonT(60) DEF CoordInv

LEMMA CoordInvStep ==
  ASSUME CoordInv, [CoordNext]_coordVars
  PROVE  CoordInv'
<1>1. CASE UNCHANGED coordVars
  <2>1. RegistryTypeOK /\ StoreTypeOK /\ ThreadTypes /\ BootsDistinct
    BY TypeParts, ZenonT(60) DEF CoordInv
  <2>2. RegistryMove /\ StoreTypeOK'
    BY <1>1, <2>1, UnchangedMove, StoreUnchanged, ZenonT(60) DEF coordVars
  <2>3. ThreadTypes'
    BY <1>1, <2>1, ZenonT(60) DEF coordVars, runtimeVars, threadVars, ThreadTypes, FrameOf, Args
  <2>4. ASSUME NEW d \in ConnId PROVE ThreadOK(d)'
    BY <1>1, <2>2, Bystander, ZenonT(60)
    DEF coordVars, threadVars, CoordInv, ThreadsOK, RegistryMove
  <2>5. QED
    BY <2>2, <2>3, <2>4, TypeParts, ZenonT(60)
    DEF CoordInv, ThreadsOK, RegistryMove, CoordTypeOK, ThreadTypes
<1>2. CASE AdvanceEpoch
  BY <1>2, AdvanceEpochInv, ZenonT(60)
<1>3. ASSUME NEW c \in ConnId, HandleStep(c) PROVE CoordInv'
  BY ZenonT(60), <1>3, LookupInv, RegisterRacedInv, BrandInv, RecordInv, CheckEpochInv,
     ReadAliveInv, ReadBootInv, ValidateInv, ReadBindingInv, StoreBindingInv,
     CompareBootInv, StampInv, ObserveInv, CallStoreInv
  DEF HandleStep
<1>4. ASSUME NEW c \in ConnId,
             Accept(c) \/ Drop(c) \/ Lose(c) \/ MarkLost(c) \/ Erase(c)
      PROVE  CoordInv'
  BY <1>4, AcceptInv, DropInv, LoseInv, MarkLostInv, EraseInv, ZenonT(60)
<1>5. ASSUME NEW c \in ConnId, NEW op \in Ops, NEW w \in WorkerId,
             NEW boot \in Boots(op), NEW arg \in Args(op), Receive(c, op, w, boot, told[c], arg)
      PROVE  CoordInv'
  BY <1>5, ReceiveInv, ZenonT(60)
<1>6. QED
  BY <1>1, <1>2, <1>3, <1>4, <1>5, ZenonT(60) DEF CoordNext

(* Types, distinct boots and justified threads hold together in every       *)
(* state the connection threads of the coordinator can reach.              *)
THEOREM CoordInvariant == CoordSpec => []CoordInv
<1>1. CoordInv /\ [CoordNext]_coordVars => CoordInv'
  BY CoordInvStep
<1>2. QED
  BY <1>1, CoordInvInit, PTL DEF CoordSpec

(* The coordinator's variables keep their types. *)
THEOREM CoordTypeCorrect == CoordSpec => []CoordTypeOK
<1>1. CoordInv => CoordTypeOK
  BY ZenonT(60) DEF CoordInv
<1>2. QED
  BY <1>1, CoordInvariant, PTL

(* Under every interleaving, for any number of connections: a frame whose  *)
(* boot was dead or replaced when it arrived is never acted on.            *)
THEOREM CoordStaleNeverActs == CoordSpec => []StaleNeverActs
<1>1. CoordInv => StaleNeverActs
  BY DEF CoordInv, ThreadsOK, ThreadOK, StaleNeverActs
<1>2. QED
  BY <1>1, CoordInvariant, PTL

(* No two workers ever hold the same boot, however their registrations     *)
(* interleave.                                                             *)
THEOREM CoordBootsDistinct == CoordSpec => []BootsDistinct
<1>1. CoordInv => BootsDistinct
  BY ZenonT(60) DEF CoordInv
<1>2. QED
  BY <1>1, CoordInvariant, PTL

-----------------------------------------------------------------------------
(* What LossFenced allows worker w in one step. *)
DeathJustified(w) ==
  workers[w].alive /\ ~workers'[w].alive =>
    \E c \in ConnId : /\ pc[c] = "lost" /\ link[c] = "down"
                      /\ conns[c] = [worker |-> w, boot |-> workers[w].boot]

(* What bind_worker stores, and where. *)
LEMMA StoreTyped ==
  ASSUME CoordInv, NEW c \in ConnId, StoreBinding(c)
  PROVE  /\ frame[c].worker \in WorkerId /\ pc[c] \in BindingFields
         /\ frame[c].arg \in BindNode /\ local[c] \in Nat
<1>1. ThreadTypes /\ pc[c] \in BindingFields
  BY TypeParts, ZenonT(60) DEF CoordInv, StoreBinding
<1>2. frame[c] # NoFrame /\ frame[c].op = "bind" /\ frame[c].arg # NoNode
  BY <1>1, ZenonT(60) DEF CoordInv, ThreadsOK, ThreadOK, Claiming, PrivilegedSteps
<1>3. QED
  BY <1>1, <1>2, ZenonT(60) DEF ThreadTypes, FrameOf, Args

(* The stores through find_mut keep every worker's alive flag. *)
LEMMA WritesKeepAlive ==
  ASSUME RegistryTypeOK, NEW u \in WorkerId, NEW w \in WorkerId,
         \/ \E field \in BindingFields, node \in BindNode, g \in Nat :
              WriteBinding(u, field, node, g)
         \/ \E g : WriteObservation(u, g)
  PROVE  workers'[w].alive = workers[w].alive
<1>1. Known(u) /\ (w # u => workers'[w] = workers[w])
  BY ZenonT(60) DEF WriteBinding, WriteObservation, RegistryTypeOK
<1>2. workers[u] \in Worker
  BY <1>1, KnownIsWorker, ZenonT(60)
<1>3. ASSUME NEW field \in BindingFields, NEW node \in BindNode, NEW g \in Nat,
             WriteBinding(u, field, node, g)
      PROVE  workers'[u].alive = workers[u].alive
  <2>1. workers'[u] = WithField(workers[u], field, node, g)
    BY <1>3, ZenonT(60) DEF WriteBinding, RegistryTypeOK
  <2> DEFINE s == WithField(workers[u], field, node, g)
  <2>2. s.alive = workers[u].alive
    BY <1>2, StoredField, ZenonT(60)
  <2> HIDE DEF s
  <2>3. QED
    BY <2>1, <2>2, ZenonT(60) DEF s
<1>4. ASSUME NEW g, WriteObservation(u, g)
      PROVE  workers'[u].alive = workers[u].alive
  BY <1>2, <1>4, ZenonT(60) DEF WriteObservation, RegistryTypeOK, Worker
<1>5. QED
  BY <1>1, <1>3, <1>4, ZenonT(60)

LEMMA MarkLostJustified ==
  ASSUME CoordInv, NEW c \in ConnId, MarkLost(c), NEW w \in WorkerId
  PROVE  DeathJustified(w)
<1>1. pc[c] = "lost" /\ link[c] = "down"
  BY ZenonT(60) DEF MarkLost, CoordInv, ThreadsOK, ThreadOK
<1>2. RegistryTypeOK /\ conns \in [ConnId -> [worker: WorkerId, boot: 1 .. MaxBoot]
                                             \cup {Unregistered}]
  BY SMTT(30) DEF CoordInv, CoordTypeOK
<1> SUFFICES ASSUME workers[w].alive, ~workers'[w].alive
             PROVE  conns[c] = [worker |-> w, boot |-> workers[w].boot]
  BY <1>1, ZenonT(60) DEF DeathJustified
<1>3. conns[c] # Unregistered /\ MarkDead(conns[c].worker, conns[c].boot)
  BY ZenonT(60) DEF MarkLost, registryVars
<1>4. conns[c] \in [worker: WorkerId, boot: 1 .. MaxBoot]
  BY <1>2, <1>3, ZenonT(60)
<1>5. w = conns[c].worker /\ workers[w].boot = conns[c].boot
  BY <1>2, <1>3, <1>4, ZenonT(60) DEF MarkDead, RegistryTypeOK
<1>6. QED
  BY <1>4, <1>5, ZenonT(60)

LEMMA HandleStepJustified ==
  ASSUME CoordInv, NEW c \in ConnId, HandleStep(c), NEW w \in WorkerId
  PROVE  DeathJustified(w)
<1>1. RegistryTypeOK
  BY ZenonT(60) DEF CoordInv, CoordTypeOK
<1>2. CASE UNCHANGED registryVars
  BY <1>2, ZenonT(60) DEF registryVars, DeathJustified
<1>3. CASE Brand(c)
  <2>1. frame[c].worker \in WorkerId
    BY <1>3, FrameWorker, ZenonT(30) DEF Brand, CoordInv, ThreadsOK, ThreadOK
  <2>2. PICK i \in Nat :
          workers' = [workers EXCEPT ![frame[c].worker] = FreshWorker(next_boot, i)]
    BY <1>1, <1>3, <2>1, BrandedRecord, ZenonT(60) DEF Brand
  <2>3. QED
    BY <1>1, <2>2, ZenonT(60) DEF FreshWorker, RegistryTypeOK, DeathJustified
<1>4. CASE StoreBinding(c) \/ Observe(c)
  <2>1. frame[c].worker \in WorkerId
    BY <1>4, FrameWorker, ZenonT(60)
    DEF StoreBinding, Observe, CoordInv, ThreadsOK, ThreadOK, Claiming, PrivilegedSteps
  <2>2. \/ \E field \in BindingFields, node \in BindNode, g \in Nat :
             WriteBinding(frame[c].worker, field, node, g)
        \/ \E g : WriteObservation(frame[c].worker, g)
    BY <1>4, StoreTyped, ZenonT(60) DEF StoreBinding, Observe
  <2>3. workers'[w].alive = workers[w].alive
    BY <1>1, <2>1, <2>2, WritesKeepAlive, ZenonT(60)
  <2>4. QED
    BY <2>3, ZenonT(60) DEF DeathJustified
<1>5. QED
  BY <1>2, <1>3, <1>4, ZenonT(60)
  DEF HandleStep, Lookup, RegisterRaced, Record, CheckEpoch, ReadAlive, ReadBoot,
      Validate, ReadBinding, CompareBoot, Stamp, CallStore, Check

(* The late loss of an old connection never takes down a restarted worker. *)
THEOREM CoordLossFenced == CoordSpec => LossFenced
<1>1. CoordInv /\ [CoordNext]_coordVars
        => [\A w \in WorkerId : DeathJustified(w)]_coordVars
  <2> SUFFICES ASSUME CoordInv, CoordNext, NEW w \in WorkerId
               PROVE  DeathJustified(w)
    BY ZenonT(60)
  <2>1. ASSUME NEW c \in ConnId, HandleStep(c) PROVE DeathJustified(w)
    BY <2>1, HandleStepJustified, ZenonT(60)
  <2>2. ASSUME NEW c \in ConnId, MarkLost(c) PROVE DeathJustified(w)
    BY <2>2, MarkLostJustified, ZenonT(60)
  <2>3. CASE UNCHANGED registryVars
    BY <2>3, ZenonT(60) DEF registryVars, DeathJustified
  <2>4. QED
    BY <2>1, <2>2, <2>3, ZenonT(60)
    DEF CoordNext, AdvanceEpoch, Accept, Drop, Lose, Check, Erase, Receive
<1>2. QED
  BY <1>1, CoordInvariant, PTL DEF CoordSpec, LossFenced, DeathJustified

-----------------------------------------------------------------------------
(* What a step of the coordinator does to the registry: it registers one   *)
(* worker, or keeps all boots.                                             *)
LEMMA CoordRegistryStep ==
  ASSUME CoordInv, [CoordNext]_coordVars
  PROVE  SameBoots \/ \E w \in WorkerId : RegisterWorker(w) \/ RestartWorker(w)
<1>1. RegistryTypeOK /\ ThreadTypes
  BY TypeParts, ZenonT(60) DEF CoordInv
<1>2. CASE UNCHANGED registryVars
  BY <1>1, <1>2, ZenonT(60) DEF registryVars, RegistryTypeOK, SameBoots
<1>3. ASSUME NEW c \in ConnId, Brand(c)
      PROVE  \E w \in WorkerId : RegisterWorker(w) \/ RestartWorker(w)
  <2>1. frame[c].worker \in WorkerId
    BY <1>3, FrameWorker, ZenonT(30) DEF Brand, CoordInv, ThreadsOK, ThreadOK
  <2>2. QED
    BY <1>3, <2>1, ZenonT(60) DEF Brand
<1>4. ASSUME NEW c \in ConnId, StoreBinding(c) PROVE SameBoots
  BY <1>1, <1>4, StoreTyped, WriteBindingKeeps, ZenonT(60) DEF StoreBinding
<1>5. ASSUME NEW c \in ConnId, Observe(c) PROVE SameBoots
  <2>1. frame[c] # NoFrame
    BY <1>5, ZenonT(60) DEF Observe, CoordInv, ThreadsOK, ThreadOK, Claiming, PrivilegedSteps
  <2>2. QED
    BY <1>1, <1>5, <2>1, FrameWorker, WriteObservationKeeps, ZenonT(60) DEF Observe, ThreadTypes
<1>6. ASSUME NEW c \in ConnId, MarkLost(c), ~UNCHANGED registryVars PROVE SameBoots
  <2>1. conns[c] # Unregistered /\ MarkDead(conns[c].worker, conns[c].boot)
    BY <1>6, ZenonT(60) DEF MarkLost
  <2>2. conns[c].worker \in WorkerId
    BY <1>1, <2>1, ZenonT(60) DEF ThreadTypes
  <2>3. QED
    BY <1>1, <2>1, <2>2, MarkDeadKeeps, ZenonT(60)
<1>7. ASSUME NEW c \in ConnId, HandleStep(c), ~Brand(c), ~StoreBinding(c), ~Observe(c)
      PROVE  UNCHANGED registryVars
  BY <1>7, ZenonT(60) DEF HandleStep, Lookup, RegisterRaced, Record, CheckEpoch, ReadAlive, ReadBoot,
     Validate, ReadBinding, CompareBoot, Stamp, CallStore, Check
<1>8. QED
  BY <1>2, <1>3, <1>4, <1>5, <1>6, <1>7, ZenonT(60)
  DEF CoordNext, AdvanceEpoch, Accept, Drop, Lose, Check, Erase, Receive, coordVars

(* Under every interleaving of the handlers and of late losses, the boot   *)
(* of a worker only grows, together with its incarnation, and a boot that  *)
(* died or was replaced is never valid again.                              *)
THEOREM CoordBootsAreFences == CoordSpec => BootsAreFences
<1>1. CoordInv /\ [CoordNext]_coordVars => [\A w \in WorkerId : Fenced(w)]_registryVars
  <2> SUFFICES ASSUME CoordInv, [CoordNext]_coordVars, NEW w \in WorkerId
               PROVE  Fenced(w)
    BY ZenonT(60)
  <2>1. RegistryTypeOK /\ BootsDistinct
    BY ZenonT(60) DEF CoordInv, CoordTypeOK
  <2>2. QED
    BY <2>1, CoordRegistryStep, FencedChange, ZenonT(60)
<1>2. QED
  BY <1>1, CoordInvariant, PTL DEF CoordSpec, BootsAreFences, Fenced

-----------------------------------------------------------------------------
(* The store under the handlers.  reserve and release are called with a    *)
(* request or an id the frame could carry; every other step leaves the     *)
(* store alone.                                                            *)
LEMMA CallStoreStep ==
  ASSUME CoordInv, NEW c \in ConnId, CallStore(c)
  PROVE  [StoreNext]_storeVars
<1>1. ThreadTypes /\ ThreadOK(c)
  BY TypeParts, ZenonT(60) DEF CoordInv, ThreadsOK
<1>2. frame[c] # NoFrame
  BY <1>1, ZenonT(60) DEF CallStore, ThreadOK, Claiming, PrivilegedSteps
<1>3. /\ frame[c].op = "reserve" => frame[c].arg \in Request \cup {NoNode}
      /\ frame[c].op = "release" => frame[c].arg \in ReservationId \cup {0}
  BY <1>1, <1>2, ZenonT(60) DEF ThreadTypes, FrameOf, Args
<1>4. {} \in OptionalGeneration
  BY ZenonT(60) DEF OptionalGeneration
<1>5. QED
  BY <1>3, <1>4, ZenonT(60) DEF CallStore, StoreNext

LEMMA CoordStoreStep ==
  ASSUME CoordInv, [CoordNext]_coordVars
  PROVE  [StoreNext]_storeVars
<1>1. ASSUME NEW c \in ConnId, HandleStep(c), ~CallStore(c) PROVE UNCHANGED storeVars
  BY <1>1, ZenonT(60) DEF HandleStep, Lookup, RegisterRaced, Brand, Record, CheckEpoch, ReadAlive,
     ReadBoot, Validate, ReadBinding, StoreBinding, CompareBoot, Stamp, Observe, Check
<1>2. ASSUME NEW c \in ConnId,
             Accept(c) \/ Drop(c) \/ Lose(c) \/ MarkLost(c) \/ Erase(c)
      PROVE  UNCHANGED storeVars
  BY <1>2, ZenonT(60) DEF Accept, Drop, Lose, MarkLost, Erase, Check
<1>3. ASSUME NEW c \in ConnId, NEW op \in Ops, NEW w \in WorkerId,
             NEW boot \in Boots(op), NEW arg \in Args(op),
             Receive(c, op, w, boot, told[c], arg)
      PROVE  UNCHANGED storeVars
  BY <1>3, ZenonT(60) DEF Receive
<1>4. AdvanceEpoch \/ UNCHANGED coordVars => UNCHANGED storeVars
  BY DEF AdvanceEpoch, coordVars
<1>5. QED
  BY <1>1, <1>2, <1>3, <1>4, CallStoreStep, ZenonT(60) DEF CoordNext

(* The coordinator implements the reservation store: whatever the handlers *)
(* of the connections interleave, reservations_ and its books take only    *)
(* the steps of reserve and release.                                       *)
THEOREM CoordImplementsStore == CoordSpec => StoreSpec
<1>1. CoordInit => StoreInit
  BY ZenonT(60) DEF CoordInit
<1>2. CoordInv /\ [CoordNext]_coordVars => [StoreNext]_storeVars
  BY CoordStoreStep, ZenonT(60)
<1>3. QED
  BY <1>1, <1>2, CoordInvariant, PTL DEF CoordSpec, StoreSpec

(* So no interleaving of frames books a node or an accelerator beyond its  *)
(* capacity, as the books count.                                           *)
THEOREM CoordCapacity == CoordSpec => []CapacityHonoured
BY CoordImplementsStore, StoreCapacity, PTL

(* Nor does any rewrite a reservation or bring a released one back.        *)
THEOREM CoordReleasedIsFinal == CoordSpec => ReleasedIsFinal
BY CoordImplementsStore, StoreReleasedIsFinal, PTL

(* What is recorded against a node or an accelerator is the sum of the     *)
(* active reservations on it, under every interleaving of frames, if the   *)
(* sums of capacities do not pass the machine word.                        *)
THEOREM CoordLedgerExact ==
  ASSUME NoWraparound
  PROVE  CoordSpec => []LedgerExact
BY CoordImplementsStore, StoreLedgerExact, PTL

(* So the store behind the coordinator is the ledger of claims: whatever   *)
(* the interleaving, each frame admits one claim that fits, retires one,   *)
(* uses up an identifier, or leaves the books alone.                       *)
THEOREM CoordImplementsLedger ==
  ASSUME NoWraparound
  PROVE  CoordSpec => ImplementsLedger
BY CoordImplementsStore, StoreImplementsLedger, PTL

-----------------------------------------------------------------------------
(* The numbers of the observations.  Every number on record is below the   *)
(* counter; the one thread inside the runtime's mutex that has taken a     *)
(* number holds one above all of them.                                     *)
ObsInv ==
  /\ \A w \in WorkerId : Known(w) => workers[w].observation < next_observation
  /\ \A c, d \in ConnId : pc[c] \in Observing /\ pc[d] \in Observing => c = d
  /\ \A c \in ConnId : pc[c] = "observe" =>
       /\ 0 < local[c] /\ local[c] < next_observation
       /\ \A w \in WorkerId : Known(w) => workers[w].observation < local[c]

(* No number is stored: a record keeps its own or starts again at 0. *)
RecordsKept ==
  \A w \in WorkerId : Known(w)' =>
    \/ workers'[w].observation = 0
    \/ Known(w) /\ workers'[w].observation = workers[w].observation

(* No thread enters the mutex, takes a number or drops the one it holds. *)
ObserversKept ==
  \A c \in ConnId : pc'[c] \in Observing => pc'[c] = pc[c] /\ local'[c] = local[c]

LEMMA ObsQuiet ==
  ASSUME ObsInv, ThreadTypes, RecordsKept, ObserversKept, next_observation' = next_observation
  PROVE  ObsInv'
<1>1. next_observation \in Nat \ {0}
  BY ZenonT(60) DEF ThreadTypes
<1>2. ASSUME NEW w \in WorkerId, Known(w)'
      PROVE  workers'[w].observation < next_observation'
  BY <1>1, <1>2, SMTT(30) DEF ObsInv, RecordsKept
<1>3. ASSUME NEW c \in ConnId, NEW d \in ConnId, pc'[c] \in Observing, pc'[d] \in Observing
      PROVE  c = d
  BY <1>3, ZenonT(60) DEF ObsInv, ObserversKept
<1>4. ASSUME NEW c \in ConnId, pc'[c] = "observe"
      PROVE  /\ 0 < local'[c] /\ local'[c] < next_observation'
             /\ \A w \in WorkerId : Known(w)' => workers'[w].observation < local'[c]
  <2>1. pc[c] = "observe" /\ local'[c] = local[c]
    BY <1>4, ZenonT(60) DEF ObserversKept
  <2>2. 0 < local[c] /\ local[c] < next_observation
    BY <2>1, ZenonT(60) DEF ObsInv
  <2>3. ASSUME NEW w \in WorkerId, Known(w)' PROVE workers'[w].observation < local[c]
    BY <2>1, <2>2, <2>3, ZenonT(60) DEF ObsInv, RecordsKept
  <2>4. QED
    BY <2>1, <2>2, <2>3, ZenonT(60)
<1>5. QED
  BY <1>2, <1>3, <1>4, ZenonT(60) DEF ObsInv

(* Only Observe stores a number. *)
LEMMA RecordsQuiet ==
  ASSUME CoordInv, [CoordNext]_coordVars, \A c \in ConnId : ~Observe(c)
  PROVE  /\ RecordsKept
         /\ \A w \in WorkerId : Known(w) /\ workers'[w].boot = workers[w].boot
              => workers'[w].observation = workers[w].observation
<1> DEFINE Kept(w) == Known(w) /\ workers'[w].observation = workers[w].observation
           Goal(w) == /\ Known(w)' => workers'[w].observation = 0 \/ Kept(w)
                      /\ Known(w) /\ workers'[w].boot = workers[w].boot => Kept(w)
<1>1. RegistryTypeOK /\ ThreadTypes /\ BootsDistinct
  BY TypeParts, ZenonT(60) DEF CoordInv
<1> SUFFICES ASSUME NEW w \in WorkerId PROVE Goal(w)
  BY ZenonT(60) DEF RecordsKept
<1>2. CASE UNCHANGED registryVars
  BY <1>2, ZenonT(60) DEF registryVars
<1>3. ASSUME NEW c \in ConnId, Brand(c) PROVE Goal(w)
  <2>1. frame[c].worker \in WorkerId
    BY <1>3, FrameWorker, ZenonT(30) DEF Brand, CoordInv, ThreadsOK, ThreadOK
  <2>2. PICK i \in Nat :
          workers' = [workers EXCEPT ![frame[c].worker] = FreshWorker(next_boot, i)]
    BY <1>1, <1>3, <2>1, BrandedRecord, ZenonT(60) DEF Brand
  <2>3. CASE w # frame[c].worker
    BY <1>1, <2>2, <2>3, ZenonT(60) DEF RegistryTypeOK
  <2>4. CASE w = frame[c].worker
    <3>1. workers'[w].observation = 0 /\ workers'[w].boot = next_boot
      BY <1>1, <2>2, <2>4, ZenonT(60) DEF RegistryTypeOK, FreshWorker
    <3>2. workers[w].boot < next_boot /\ next_boot \in Nat
      BY <1>1, RegistryConstants, SMTT(30) DEF BootsDistinct, RegistryTypeOK
    <3>3. workers[w].boot # next_boot
      BY <3>2, SMTT(30)
    <3>4. QED
      BY <3>1, <3>3, ZenonT(60)
  <2>5. QED
    BY <2>3, <2>4
<1>4. ASSUME NEW c \in ConnId, StoreBinding(c) PROVE Goal(w)
  <2> DEFINE u == frame[c].worker
             r == WithField(workers[u], pc[c], frame[c].arg, local[c])
  <2>1. u \in WorkerId /\ pc[c] \in BindingFields /\ frame[c].arg \in BindNode /\ local[c] \in Nat
    BY <1>4, StoreTyped, ZenonT(60)
  <2>2. Known(u) /\ workers' = [workers EXCEPT ![u] = r]
    BY <1>4, ZenonT(60) DEF StoreBinding, WriteBinding
  <2>3. workers[u] \in Worker
    BY <1>1, <2>1, <2>2, KnownIsWorker, ZenonT(60)
  <2>4. r.observation = workers[u].observation
    BY <2>1, <2>3, StoredField, ZenonT(60)
  <2> HIDE DEF u, r
  <2>5. QED
    BY <1>1, <2>1, <2>2, <2>4, ZenonT(60) DEF RegistryTypeOK
<1>5. ASSUME NEW c \in ConnId, MarkLost(c), ~UNCHANGED registryVars PROVE Goal(w)
  <2> DEFINE u == conns[c].worker
             r == [workers[u] EXCEPT !.alive = FALSE]
  <2>1. conns[c] # Unregistered /\ MarkDead(u, conns[c].boot)
    BY <1>5, ZenonT(60) DEF MarkLost
  <2>2. u \in WorkerId
    BY <1>1, <2>1, ZenonT(60) DEF ThreadTypes
  <2>3. Known(u) /\ workers' = [workers EXCEPT ![u] = r]
    BY <1>5, <2>1, ZenonT(60) DEF MarkDead, registryVars
  <2>4. workers[u] \in Worker
    BY <1>1, <2>2, <2>3, KnownIsWorker, ZenonT(60)
  <2>5. r.observation = workers[u].observation
    BY <2>4, ZenonT(60) DEF Worker
  <2> HIDE DEF u, r
  <2>6. QED
    BY <1>1, <2>2, <2>3, <2>5, ZenonT(60) DEF RegistryTypeOK
<1>6. ASSUME NEW c \in ConnId, HandleStep(c), ~Brand(c), ~StoreBinding(c), ~Observe(c)
      PROVE  UNCHANGED registryVars
  BY <1>6, ZenonT(60) DEF HandleStep, Lookup, RegisterRaced, Record, CheckEpoch, ReadAlive, ReadBoot,
     Validate, ReadBinding, CompareBoot, Stamp, CallStore, Check
<1> HIDE DEF Goal
<1>7. QED
  BY <1>2, <1>3, <1>4, <1>5, <1>6, ZenonT(60)
  DEF CoordNext, AdvanceEpoch, Accept, Drop, Lose, Check, Erase, Receive, coordVars

(* A thread that moves to a step outside the mutex. *)
LEMMA ObserverMoves ==
  ASSUME ThreadTypes, NEW c \in ConnId, NEW step, Goto(c, step), step \notin Observing,
         \A d \in ConnId \ {c} : local'[d] = local[d]
  PROVE  ObserversKept
BY ZenonT(60) DEF ThreadTypes, Goto, ObserversKept

LEMMA CheckObservers ==
  ASSUME ThreadTypes, NEW c \in ConnId, NEW ok, NEW step, step \notin Observing, Check(c, ok, step)
  PROVE  ObserversKept
<1>1. CASE ok
  BY <1>1, ObserverMoves, ZenonT(60) DEF Check, Proceed
<1>2. CASE ~ok
  <2>1. Goto(c, "recv") /\ \A d \in ConnId \ {c} : local'[d] = local[d]
    BY <1>2, ZenonT(60) DEF Check, Answer, Reply, ThreadTypes
  <2>2. QED
    BY <2>1, ObserverMoves, ZenonT(60)
<1>3. QED
  BY <1>1, <1>2

LEMMA ReplyObservers ==
  ASSUME ThreadTypes, NEW c \in ConnId, Reply(c)
  PROVE  ObserversKept
<1>1. Goto(c, "recv") /\ \A d \in ConnId \ {c} : local'[d] = local[d]
  BY ZenonT(60) DEF Reply, ThreadTypes
<1>2. QED
  BY <1>1, ObserverMoves, ZenonT(60)

LEMMA LocalMoves ==
  ASSUME ThreadTypes, NEW c \in ConnId, NEW step, NEW x, Goto(c, step), step \notin Observing,
         local' = [local EXCEPT ![c] = x]
  PROVE  ObserversKept
<1>1. \A d \in ConnId \ {c} : local'[d] = local[d]
  BY ZenonT(60) DEF ThreadTypes
<1>2. QED
  BY <1>1, ObserverMoves, ZenonT(60)

(* Only observe uses the mutex and the counter. *)
LEMMA HandlerObservers ==
  ASSUME CoordInv, NEW c \in ConnId, HandleStep(c), ~CompareBoot(c), ~Stamp(c), ~Observe(c)
  PROVE  ObserversKept /\ next_observation' = next_observation
<1>1. ThreadTypes
  BY TypeParts, ZenonT(60) DEF CoordInv
<1>2. CASE Lookup(c) \/ RegisterRaced(c) \/ CheckEpoch(c) \/ ReadAlive(c) \/ Validate(c)
  <2>1. \E ok, step : step \notin Observing /\ Check(c, ok, step)
    BY <1>2, ZenonT(60) DEF Lookup, RegisterRaced, CheckEpoch, ReadAlive, Validate
  <2>2. PICK ok, step : step \notin Observing /\ Check(c, ok, step)
    BY <2>1
  <2>3. QED
    BY <1>1, <2>2, CheckObservers, ZenonT(60) DEF Check, runtimeVars
<1>3. CASE ReadBoot(c)
  <2> DEFINE f == frame[c]
  <2>1. PICK ok, step : step \notin Observing /\ Check(c, ok, step)
    BY <1>3, ZenonT(60) DEF ReadBoot, Granted
  <2>2. QED
    BY <1>1, <2>1, CheckObservers, ZenonT(60) DEF Check, runtimeVars
<1>4. CASE Record(c) \/ CallStore(c)
  BY <1>1, <1>4, ReplyObservers, ZenonT(60) DEF Record, CallStore, Answer, runtimeVars
<1>5. CASE Brand(c)
  BY <1>1, <1>5, LocalMoves, ZenonT(60) DEF Brand, runtimeVars
<1>6. CASE ReadBinding(c)
  BY <1>1, <1>6, LocalMoves, ZenonT(60) DEF ReadBinding, runtimeVars
<1>7. CASE StoreBinding(c)
  <2>1. next_observation' = next_observation
    BY <1>7, ZenonT(60) DEF StoreBinding, runtimeVars
  <2>2. CASE pc[c] = "current"
    BY <1>1, <1>7, <2>1, <2>2, ReplyObservers, ZenonT(60) DEF StoreBinding, Answer
  <2>3. CASE pc[c] # "current"
    <3>1. Proceed(c, NextField[pc[c]]) /\ pc[c] \in BindingFields
      BY <1>7, <2>3, ZenonT(60) DEF StoreBinding
    <3>2. NextField[pc[c]] \in BindingFields
      BY <2>3, <3>1, NextFieldIsOne, ZenonT(60)
    <3>3. NextField[pc[c]] \notin Observing
      BY <3>2, ZenonT(60)
    <3>4. QED
      BY <1>1, <2>1, <3>1, <3>3, ObserverMoves, ZenonT(60) DEF Proceed
  <2>4. QED
    BY <2>2, <2>3
<1>8. QED
  BY <1>2, <1>3, <1>4, <1>5, <1>6, <1>7, ZenonT(60) DEF HandleStep

LEMMA OthersObservers ==
  ASSUME CoordInv, NEW c \in ConnId,
         Accept(c) \/ Drop(c) \/ Lose(c) \/ MarkLost(c) \/ Erase(c)
  PROVE  ObserversKept /\ next_observation' = next_observation
<1>1. ThreadTypes
  BY TypeParts, ZenonT(60) DEF CoordInv
<1>2. CASE Accept(c)
  BY <1>1, <1>2, LocalMoves, ObserverMoves, ZenonT(60) DEF Accept, runtimeVars
<1>3. CASE Drop(c)
  BY <1>3, ZenonT(60) DEF Drop, runtimeVars, ObserversKept
<1>4. CASE Lose(c)
  <2>1. \E ok, step : step \notin Observing /\ Check(c, ok, step)
    BY <1>4, ZenonT(60) DEF Lose
  <2>2. PICK ok, step : step \notin Observing /\ Check(c, ok, step)
    BY <2>1
  <2>3. QED
    BY <1>1, <2>2, CheckObservers, ZenonT(60) DEF Check, runtimeVars
<1>5. CASE MarkLost(c)
  BY <1>1, <1>5, ObserverMoves, ZenonT(60) DEF MarkLost, Proceed, runtimeVars
<1>6. CASE Erase(c)
  BY <1>1, <1>6, LocalMoves, ObserverMoves, ZenonT(60) DEF Erase, runtimeVars
<1>7. QED
  BY <1>2, <1>3, <1>4, <1>5, <1>6

LEMMA ReceiveObservers ==
  ASSUME CoordInv, NEW c \in ConnId, NEW op \in Ops, NEW w \in WorkerId,
         NEW boot, NEW arg, Receive(c, op, w, boot, told[c], arg)
  PROVE  ObserversKept /\ next_observation' = next_observation
<1> DEFINE step == CASE op = "register" -> "lookup"
                     [] op = "place"    -> "epoch"
                     [] OTHER           -> "alive"
<1>1. ThreadTypes
  BY TypeParts, ZenonT(60) DEF CoordInv
<1>2. Goto(c, step) /\ local' = local /\ next_observation' = next_observation
  BY ZenonT(60) DEF Receive, runtimeVars
<1>3. step \notin Observing
  BY ZenonT(60)
<1> HIDE DEF step
<1>4. QED
  BY <1>1, <1>2, <1>3, ObserverMoves, ZenonT(60)

(* Entering the mutex: no other thread is inside. *)
LEMMA CompareBootObs ==
  ASSUME CoordInv, ObsInv, NEW c \in ConnId, CompareBoot(c)
  PROVE  ObsInv'
<1>1. ThreadTypes /\ \A d \in ConnId : pc[d] \notin Observing
  BY TypeParts, ZenonT(60) DEF CoordInv, CompareBoot, RuntimeMutexFree
<1>2. workers' = workers /\ next_observation' = next_observation
  BY ZenonT(60) DEF CompareBoot, Check, registryVars, runtimeVars
<1>3. \A d \in ConnId : d # c => pc'[d] = pc[d]
  BY <1>1, ZenonT(60) DEF CompareBoot, Check, Proceed, Answer, Reply, Goto, ThreadTypes
<1>4. pc'[c] \in {"stamp", "recv"}
  BY <1>1, ZenonT(60) DEF CompareBoot, Check, Proceed, Answer, Reply, Goto, ThreadTypes
<1>5. \A d \in ConnId : pc'[d] # "observe"
  BY <1>1, <1>3, <1>4, ZenonT(60)
<1>6. \A d, e \in ConnId : pc'[d] \in Observing /\ pc'[e] \in Observing => d = e
  BY <1>1, <1>3, ZenonT(60)
<1>7. \A w \in WorkerId : Known(w)' => workers'[w].observation < next_observation'
  BY <1>2, ZenonT(60) DEF ObsInv
<1>8. QED
  BY <1>5, <1>6, <1>7, ZenonT(60) DEF ObsInv

(* The counter's value is above every number on record. *)
LEMMA StampObs ==
  ASSUME CoordInv, ObsInv, NEW c \in ConnId, Stamp(c)
  PROVE  ObsInv'
<1>1. ThreadTypes /\ RegistryTypeOK /\ pc[c] = "stamp"
  BY TypeParts, ZenonT(60) DEF CoordInv, Stamp
<1>2. /\ workers' = workers /\ next_observation' = next_observation + 1
      /\ next_observation \in Nat \ {0} /\ local'[c] = next_observation
      /\ pc'[c] = "observe" /\ \A d \in ConnId : d # c => pc'[d] = pc[d]
  BY <1>1, ZenonT(60) DEF Stamp, registryVars, Goto, ThreadTypes
<1>3. \A d \in ConnId : d # c => pc'[d] \notin Observing
  BY <1>1, <1>2, ZenonT(60) DEF ObsInv
<1>4. ASSUME NEW w \in WorkerId, Known(w)'
      PROVE  workers'[w].observation < next_observation /\ workers'[w].observation \in Nat
  <2>1. Known(w) /\ workers' = workers
    BY <1>2, <1>4, ZenonT(60)
  <2>2. workers[w] \in Worker
    BY <1>1, <2>1, KnownIsWorker, ZenonT(60)
  <2>3. workers[w].observation \in Nat
    BY <2>2, ZenonT(60) DEF Worker
  <2>4. QED
    BY <2>1, <2>3, ZenonT(60) DEF ObsInv
<1>5. ASSUME NEW w \in WorkerId, Known(w)'
      PROVE  workers'[w].observation < next_observation'
  BY <1>2, <1>4, <1>5, SMTT(30)
<1>6. 0 < local'[c] /\ local'[c] < next_observation'
  BY <1>2, SMTT(30)
<1>7. ASSUME NEW d \in ConnId, pc'[d] = "observe" PROVE d = c
  BY <1>3, <1>7, ZenonT(60)
<1>8. ASSUME NEW d \in ConnId, NEW e \in ConnId, pc'[d] \in Observing, pc'[e] \in Observing
      PROVE  d = e
  BY <1>3, <1>8, ZenonT(60)
<1>9. QED
  BY <1>2, <1>4, <1>5, <1>6, <1>7, <1>8, ZenonT(60) DEF ObsInv

(* What the store of a number does to the records. *)
LEMMA ObservedStore ==
  ASSUME CoordInv, NEW c \in ConnId, Observe(c)
  PROVE  /\ frame[c].worker \in WorkerId /\ Known(frame[c].worker)
         /\ workers'[frame[c].worker].observation = local[c]
         /\ \A w \in WorkerId : /\ w # frame[c].worker => workers'[w] = workers[w]
                                /\ Known(w)' => Known(w)
<1> DEFINE u == frame[c].worker
           r == [workers[u] EXCEPT !.observation = local[c]]
<1>1. RegistryTypeOK /\ ThreadTypes
  BY TypeParts, ZenonT(60) DEF CoordInv
<1>2. frame[c] # NoFrame
  BY ZenonT(60) DEF Observe, CoordInv, ThreadsOK, ThreadOK, Claiming, PrivilegedSteps
<1>3. u \in WorkerId
  BY <1>2, FrameWorker, ZenonT(60)
<1>4. Known(u) /\ workers' = [workers EXCEPT ![u] = r]
  BY DEF Observe, WriteObservation
<1>5. workers[u] \in Worker
  BY <1>1, <1>3, <1>4, KnownIsWorker, ZenonT(60)
<1>6. r.observation = local[c]
  BY <1>5, ZenonT(60) DEF Worker
<1> HIDE DEF u, r
<1>7. workers'[u] = r /\ \A w \in WorkerId : w # u => workers'[w] = workers[w]
  BY <1>1, <1>3, <1>4, ZenonT(60) DEF RegistryTypeOK
<1>8. QED
  BY <1>3, <1>4, <1>6, <1>7, ZenonT(60) DEF u

LEMMA ObserveObs ==
  ASSUME CoordInv, ObsInv, NEW c \in ConnId, Observe(c)
  PROVE  ObsInv'
<1>1. ThreadTypes /\ pc[c] = "observe"
  BY TypeParts, ZenonT(60) DEF CoordInv, Observe
<1>2. /\ next_observation' = next_observation
      /\ pc'[c] = "recv" /\ \A d \in ConnId : d # c => pc'[d] = pc[d]
  BY <1>1, ZenonT(60) DEF Observe, Answer, Reply, Goto, runtimeVars, ThreadTypes
<1>3. \A d \in ConnId : pc'[d] \notin Observing
  BY <1>1, <1>2, ZenonT(60) DEF ObsInv
<1>4. local[c] < next_observation
  BY <1>1, ZenonT(60) DEF ObsInv
<1>5. ASSUME NEW w \in WorkerId, Known(w)'
      PROVE  workers'[w].observation < next_observation'
  <2>1. Known(w) /\ workers[w].observation < next_observation
    BY <1>5, ObservedStore, ZenonT(60) DEF ObsInv
  <2>2. QED
    BY <1>2, <1>4, <2>1, ObservedStore, ZenonT(60)
<1>6. QED
  BY <1>3, <1>5, ZenonT(60) DEF ObsInv

LEMMA ObsInvStep ==
  ASSUME CoordInv, ObsInv, [CoordNext]_coordVars
  PROVE  ObsInv'
<1>1. ThreadTypes
  BY TypeParts, ZenonT(60) DEF CoordInv
<1>2. ASSUME NEW c \in ConnId, CompareBoot(c) \/ Stamp(c) \/ Observe(c) PROVE ObsInv'
  BY <1>2, CompareBootObs, StampObs, ObserveObs, ZenonT(60)
<1>3. ASSUME \A c \in ConnId : ~CompareBoot(c) /\ ~Stamp(c) /\ ~Observe(c)
      PROVE  ObsInv'
  <2>1. RecordsKept
    BY <1>3, RecordsQuiet, ZenonT(60)
  <2>2. ObserversKept /\ next_observation' = next_observation
    <3>1. CASE AdvanceEpoch \/ UNCHANGED coordVars
      BY <3>1, ZenonT(60)
      DEF AdvanceEpoch, coordVars, threadVars, runtimeVars, ObserversKept
    <3>2. QED
      BY <1>3, <3>1, HandlerObservers, OthersObservers, ReceiveObservers, ZenonT(60)
      DEF CoordNext
  <2>3. QED
    BY <1>1, <2>1, <2>2, ObsQuiet, ZenonT(60)
<1>4. QED
  BY <1>2, <1>3, ZenonT(60)

(* For any number of connections reporting at the same time, on one worker *)
(* or on several: within one boot, a worker's observation number is only   *)
(* ever replaced by one greater than every number on record.               *)
THEOREM CoordObservationsOrdered == CoordSpec => ObservationsOrdered
<1> DEFINE Ordered(w) ==
      Known(w) /\ workers'[w].boot = workers[w].boot
        => \/ workers'[w].observation = workers[w].observation
           \/ \A v \in WorkerId : Known(v) => workers'[w].observation > workers[v].observation
<1>1. CoordInit => ObsInv
  <2> SUFFICES ASSUME CoordInit PROVE ObsInv
    OBVIOUS
  <2>1. \A w \in WorkerId : workers[w].boot = 0
    BY ZenonT(60) DEF CoordInit, RegistryInit, NoWorker
  <2>2. \A c \in ConnId : pc[c] = "idle"
    BY DEF CoordInit
  <2>3. QED
    BY <2>1, <2>2, ZenonT(60) DEF ObsInv
<1>2. CoordInv /\ ObsInv /\ [CoordNext]_coordVars => ObsInv'
  BY ObsInvStep, ZenonT(60)
<1>3. CoordInv /\ ObsInv /\ [CoordNext]_coordVars => [\A w \in WorkerId : Ordered(w)]_coordVars
  <2> SUFFICES ASSUME CoordInv, ObsInv, [CoordNext]_coordVars, NEW w \in WorkerId
               PROVE  Ordered(w)
    BY ZenonT(60)
  <2>1. CASE \A c \in ConnId : ~Observe(c)
    BY <2>1, RecordsQuiet, ZenonT(60)
  <2>2. ASSUME NEW c \in ConnId, Observe(c) PROVE Ordered(w)
    <3>1. CASE w # frame[c].worker
      BY <2>2, <3>1, ObservedStore, ZenonT(60)
    <3>2. CASE w = frame[c].worker
      <4>1. workers'[w].observation = local[c] /\ pc[c] = "observe"
        BY <2>2, <3>2, ObservedStore, ZenonT(60) DEF Observe
      <4>2. \A v \in WorkerId : Known(v) => workers[v].observation < local[c]
        BY <4>1, ZenonT(60) DEF ObsInv
      <4>3. \A v \in WorkerId : Known(v) => local[c] > workers[v].observation
        BY <4>2, SMTT(30)
      <4>4. QED
        BY <4>1, <4>3, ZenonT(60)
    <3>3. QED
      BY <3>1, <3>2
  <2>3. QED
    BY <2>1, <2>2, ZenonT(60)
<1>4. QED
  BY <1>1, <1>2, <1>3, CoordInvariant, PTL DEF CoordSpec, ObservationsOrdered


-----------------------------------------------------------------------------
(* What the placement engine promises. *)

HIDE DEF Known, BindingFields, Observing

LEMMA RequestTyped ==
  ASSUME NEW q \in Requests
  PROVE  /\ q.footprint \in Nat /\ q.preferred \in Nat /\ q.cpus \in Nat
         /\ q.owner \in Nat /\ q.io \in Nat /\ q.current \in Nat
         /\ q.accel \in Accelerator \cup {NoAccelerator}
         /\ q.accel_local \in BOOLEAN /\ q.fallback \in BOOLEAN
         /\ q.bound \in BOOLEAN /\ q.revalidation \in BOOLEAN
         /\ \A m, n \in q.required : m = n
BY PlacementConstants, ZenonT(60) DEF PlacementRequest

LEMMA HomeTyped == \A a : Home(a) \in Nat
<1>1. Nowhere \in Nat
  BY DEF Nowhere
<1>2. Node \subseteq Nat /\ \A a \in DOMAIN Homes : Homes[a] \in Node \cup {Nowhere}
  BY PlacementConstants, Zenon
<1> QED
  BY <1>1, <1>2, Zenon DEF Home, Found

LEMMA DistanceNat == \A a, b \in Nat : Distance(a, b) \in Nat
BY DEF Distance

LEMMA CostNat ==
  ASSUME NEW q \in Requests, NEW n \in Node
  PROVE  /\ Cost(n, q) \in Nat
         /\ Preference(n, q) \in Nat /\ 100 * Preference(n, q) <= Cost(n, q)
         /\ MemoryLocal(n, q) \in Nat /\ MemoryLocal(n, q) <= Cost(n, q)
         /\ AcceleratorLocal(n, q) \in Nat /\ AcceleratorLocal(n, q) <= Cost(n, q)
<1>1. n \in Nat /\ Free[n] \in Nat
  BY PlacementConstants, ZenonT(60)
<1>2. Preference(n, q) \in Nat /\ AcceleratorLocal(n, q) \in Nat /\ Moving(n, q) \in Nat
  BY DEF Preference, AcceleratorLocal, Moving
<1>3. MemoryLocal(n, q) \in Nat
  <2>1. Distance(q.owner, n) \in Nat
    BY <1>1, RequestTyped, DistanceNat, ZenonT(60)
  <2> QED
    BY <2>1 DEF MemoryLocal
<1>4. CurrentDistance(n, q) \in Nat /\ IoLocal(n, q) \in Nat
  BY <1>1, RequestTyped, DistanceNat, ZenonT(60) DEF CurrentDistance, IoLocal
<1>5. Headroom(n, q) \in Nat
  <2>1. ASSUME q.footprint # 0, ~(Free[n] >= 2 * q.footprint), ~(Free[n] < q.footprint)
        PROVE  (200 * (2 * q.footprint - Free[n])) \div q.footprint \in Nat
    <3>1. q.footprint \in Nat \ {0}
      BY <2>1, RequestTyped, ZenonT(60)
    <3>2. 200 * (2 * q.footprint - Free[n]) \in Nat
      BY <1>1, <2>1, <3>1
    <3>3. \A x \in Nat, y \in Nat \ {0} : x \div y \in Nat
      OBVIOUS
    <3> QED
      BY <3>1, <3>2, <3>3, Zenon
  <2> QED
    BY <2>1 DEF Headroom
<1> QED
  BY <1>2, <1>3, <1>4, <1>5 DEF Cost

(* plan looks at the nodes in the order of cost and id: there is a best    *)
(* one as soon as one is eligible.                                         *)
LEMMA BestIn ==
  ASSUME NEW q \in Requests, Eligible(q) # {}
  PROVE  Best(q) \in Eligible(q)
<1>1. \A n \in Eligible(q) : n \in Nat /\ Cost(n, q) \in Nat
  BY PlacementConstants, CostNat, Zenon DEF Eligible
<1> DEFINE C == {Cost(n, q) : n \in Eligible(q)}
<1>2. C \subseteq Nat /\ C # {}
  BY <1>1, ZenonT(60)
<1>3. PICK c \in C : \A d \in C : c <= d
  BY <1>2, LeastNat, Zenon
<1> DEFINE T == {n \in Eligible(q) : Cost(n, q) = c}
<1>4. T \in SUBSET Nat /\ T # {}
  BY <1>1, <1>3, ZenonT(60)
<1>5. PICK n \in T : \A m \in T : n <= m
  BY <1>4, LeastNat, Zenon
<1>6. ASSUME NEW m \in Eligible(q) \ {n}
      PROVE  Cost(n, q) < Cost(m, q) \/ (Cost(n, q) = Cost(m, q) /\ n < m)
  <2>1. n \in Nat /\ m \in Nat /\ n # m /\ c \in Nat /\ Cost(m, q) \in Nat /\ Cost(n, q) = c
    BY <1>1, <1>2, <1>5, <1>6, ZenonT(60)
  <2>2. c <= Cost(m, q)
    BY <1>3, <1>6, Zenon
  <2>3. Cost(m, q) = c => n <= m
    BY <1>5, <1>6, ZenonT(60)
  <2> QED
    BY <2>1, <2>2, <2>3, SMTT(30)
<1> QED
  BY <1>5, <1>6, Zenon DEF Best

LEMMA FirstNode ==
  ASSUME Node # {}
  PROVE  Min(Node) \in Node
<1>1. \E x \in Node : \A y \in Node : x =< y
  BY LeastNat, PlacementConstants, ZenonT(60)
<1> QED
  BY <1>1, Zenon DEF Min

(* What evaluate_eligibility answers is the name of a constraint. *)
LEMMA ViolationNamed ==
  \A n, q : Violation(n, q) \in
    {"none", "required_node", "accelerator_locality", "accelerator_locality_unknown",
     "required_cpu_count", "capacity"}
BY ZenonT(60) DEF Violation

(* plan adds up the reservations and reserve keeps a counter: they agree   *)
(* on what fits.                                                           *)
LEMMA FitsAlike ==
  ASSUME LedgerInv, NEW q \in Requests, NEW n \in Node
  PROVE  Reservable(n, q) <=>
           ~(Capacity[n] # 0 /\ (q.footprint + Reserved(n)) % Word > Capacity[n])
<1>1. node_mem.val[n] = Reserved(n) /\ node_mem.val[n] \in 0 .. Word - 1
  BY ZenonT(60) DEF LedgerInv, LedgerExact, Reserved, StoreTypeOK, Map
<1>2. /\ q.footprint \in Nat /\ Capacity[n] \in 0 .. Word - 1 /\ Word \in Nat \ {0}
      /\ Capacity[n] # 0 => node_mem.val[n] <= Capacity[n]
  BY RequestTyped, ReservationConstants, ZenonT(60) DEF LedgerInv, CapacityHonoured
<1> DEFINE v == node_mem.val[n]  f == q.footprint  c == Capacity[n]
<1>3. Reservable(n, q) <=> ~(f # 0 /\ c # 0 /\ (v + f) % Word > c)
  BY ZenonT(60) DEF Reservable, OverCapacity
<1>4. f + v = v + f /\ (f = 0 => (f + v) % Word = v)
  BY <1>1, <1>2
<1> HIDE DEF v, f, c
<1> QED
  BY <1>1, <1>2, <1>3, <1>4, SMTT(30) DEF v, f, c

-----------------------------------------------------------------------------
(* What is promised of decision d on request q. *)
Sound(q, d) ==
  /\ d.kind \in Placing =>
       /\ ~q.revalidation
       /\ q.required \subseteq {d.node}
       /\ q.accel_local /\ q.accel # NoAccelerator => Home(q.accel) = d.node
       /\ q.cpus <= Cpus[d.node]
       /\ Reservable(d.node, q)
  /\ d.kind \in Kind /\ d.constraint \in Constraint /\ d.penalty \in Nat
  /\ d.kind = "Place" => d.node = Ideal(q) /\ d.penalty = 0
  /\ d.kind = "PlaceWithPenalty" /\ Ideal(q) \notin Eligible(q) => d.penalty > 0
  /\ /\ Node # {} /\ d.kind # "RevalidationRequired"
     /\ q.required # {} \/ q.accel_local \/ q.cpus > 0
     => d.constraint # "none"

Complete(q, d) ==
  /\ d.kind \in {"Reject", "Defer"}
  /\ q.fallback /\ q.required = {} /\ ~q.accel_local
  => \A n \in Node : q.cpus > Cpus[n] \/ ~Reservable(n, q)

(* An eligible node is one the request may go to. *)
LEMMA EligibleFits ==
  ASSUME LedgerInv, NEW q \in Requests, NEW n \in Eligible(q)
  PROVE  /\ n \in Node
         /\ q.required \subseteq {n}
         /\ q.accel_local /\ q.accel # NoAccelerator => Home(q.accel) = n
         /\ q.cpus <= Cpus[n]
         /\ Reservable(n, q)
<1>1. n \in Node /\ Violation(n, q) = "none"
  BY Zenon DEF Eligible
<1>2. /\ ~(q.required # {} /\ n \notin q.required)
      /\ ~(q.accel_local /\ q.accel # NoAccelerator /\ Home(q.accel) # n)
      /\ ~(q.cpus > Cpus[n])
      /\ ~(Capacity[n] # 0 /\ (q.footprint + Reserved(n)) % Word > Capacity[n])
  BY <1>1, ZenonT(60) DEF Violation
<1>3. q.cpus \in Nat /\ Cpus[n] \in Nat
  BY <1>1, RequestTyped, PlacementConstants, ZenonT(60)
<1>4. q.cpus <= Cpus[n]
  BY <1>2, <1>3
<1>5. Reservable(n, q)
  BY <1>1, <1>2, FitsAlike, ZenonT(60)
<1>6. q.required \subseteq {n}
  BY <1>2, RequestTyped, Zenon
<1> QED
  BY <1>1, <1>2, <1>4, <1>5, <1>6, ZenonT(60)

(* A node other than the one the request would like best has a cost. *)
LEMMA FallbackCosts ==
  ASSUME NEW q \in Requests, Eligible(q) # {}, Best(q) # Ideal(q)
  PROVE  Cost(Best(q), q) > 0
<1> DEFINE n == Best(q)
<1>1. n \in Node /\ n \in Nat
  BY BestIn, PlacementConstants DEF Eligible
<1> HIDE DEF n
<1>2. /\ Cost(n, q) \in Nat /\ 100 * Preference(n, q) <= Cost(n, q)
      /\ MemoryLocal(n, q) <= Cost(n, q) /\ AcceleratorLocal(n, q) <= Cost(n, q)
  BY <1>1, CostNat, ZenonT(60)
<1>3. CASE q.preferred # Nowhere
  <2>1. Ideal(q) = q.preferred
    BY <1>3, Zenon DEF Ideal
  <2>2. Preference(n, q) = 1
    BY <1>3, <2>1, Zenon DEF Preference, n
  <2> QED
    BY <1>2, <2>2 DEF n
<1>4. CASE q.preferred = Nowhere /\ q.accel # NoAccelerator /\ Home(q.accel) # Nowhere
  <2>1. Ideal(q) = Home(q.accel) /\ Found(q.accel)
    BY <1>4, Zenon DEF Ideal, Home
  <2>2. AcceleratorLocal(n, q) = 200
    BY <1>4, <2>1, ZenonT(60) DEF AcceleratorLocal, n
  <2> QED
    BY <1>2, <2>2 DEF n
<1>5. CASE /\ q.preferred = Nowhere
           /\ ~(q.accel # NoAccelerator /\ Home(q.accel) # Nowhere)
           /\ q.owner # Nowhere
  <2>1. Ideal(q) = q.owner
    BY <1>5, Zenon DEF Ideal
  <2>2. MemoryLocal(n, q) = Distance(q.owner, n) + 100
    BY <1>5, <2>1, Zenon DEF MemoryLocal, n
  <2>3. Distance(q.owner, n) \in Nat
    BY <1>1, RequestTyped, DistanceNat, ZenonT(60)
  <2> QED
    BY <1>2, <2>2, <2>3 DEF n
<1> QED
  BY <1>3, <1>4, <1>5, ZenonT(60) DEF Ideal

LEMMA PenaltyNat ==
  ASSUME NEW q \in Requests, Eligible(q) # {}
  PROVE  /\ Penalty(q) \in Nat
         /\ Best(q) # Ideal(q) /\ Ideal(q) \notin Eligible(q) => Penalty(q) > 0
<1>1. Best(q) \in Node /\ \A n \in Node : Cost(n, q) \in Nat
  BY BestIn, CostNat, ZenonT(60) DEF Eligible
<1>2. Ideal(q) \in Eligible(q) => Ideal(q) \in Node
  BY Zenon DEF Eligible
<1>3. Penalty(q) \in Nat
  BY <1>1, <1>2, SMTT(30) DEF Penalty
<1>4. ASSUME Best(q) # Ideal(q), Ideal(q) \notin Eligible(q) PROVE Penalty(q) > 0
  <2>1. Cost(Best(q), q) > 0 /\ Cost(Best(q), q) \in Nat
    BY <1>1, <1>4, FallbackCosts, ZenonT(60)
  <2> QED
    BY <1>4, <2>1 DEF Penalty
<1> QED
  BY <1>3, <1>4, Zenon

(* binding_constraint names a constraint where there is a hard one. *)
LEMMA BindingNamed ==
  ASSUME NEW q \in Requests
  PROVE  /\ BindingConstraint(q) \in Constraint
         /\ q.required # {} \/ q.accel_local \/ q.cpus > 0 => BindingConstraint(q) # "none"
BY DEF BindingConstraint, Constraint

(* A placement on an eligible node is sound. *)
LEMMA PlacementSound ==
  ASSUME LedgerInv, NEW q \in Requests, ~q.revalidation, Eligible(q) # {}
  PROVE  Sound(q, Placement(q))
<1> DEFINE n == Best(q)
           d == Placement(q)
<1>1. /\ n \in Node
      /\ q.required \subseteq {n}
      /\ q.accel_local /\ q.accel # NoAccelerator => Home(q.accel) = n
      /\ q.cpus <= Cpus[n]
      /\ Reservable(n, q)
  BY BestIn, EligibleFits, Zenon
<1>2. /\ Penalty(q) \in Nat
      /\ n # Ideal(q) /\ Ideal(q) \notin Eligible(q) => Penalty(q) > 0
  BY PenaltyNat, Zenon
<1>3. /\ BindingConstraint(q) \in Constraint
      /\ q.required # {} \/ q.accel_local \/ q.cpus > 0 => BindingConstraint(q) # "none"
  BY BindingNamed, ZenonT(60)
<1>4. \/ /\ d.kind = "Reject" /\ d.penalty = Penalty(q)
         /\ d.constraint \in {"required_node_or_accelerator_locality", "preferred_node"}
      \/ /\ n = Ideal(q) /\ d.kind \in {"Migrate", "Rebind", "Place"}
         /\ d.node = n /\ d.penalty = 0 /\ d.constraint = BindingConstraint(q)
      \/ /\ n # Ideal(q) /\ d.kind \in {"Migrate", "Rebind", "PlaceWithPenalty"}
         /\ d.node = n /\ d.penalty = Penalty(q) /\ d.constraint = BindingConstraint(q)
  BY ZenonT(60) DEF Placement, Decide, Moved
<1> HIDE DEF n, d
<1>5. d.kind \in Kind /\ d.constraint \in Constraint /\ d.penalty \in Nat
  <2>1. d.constraint \in Constraint
    BY <1>3, <1>4, ZenonT(60) DEF Constraint
  <2>2. d.kind \in Kind
    BY <1>4, ZenonT(60) DEF Kind
  <2>3. d.penalty \in Nat
    BY <1>2, <1>4
  <2> QED
    BY <2>1, <2>2, <2>3, ZenonT(60)
<1>6. d.kind \in Placing => d.node = n
  BY <1>4, ZenonT(60) DEF Placing
<1>7. d.kind = "Place" => d.node = Ideal(q) /\ d.penalty = 0
  BY <1>4, ZenonT(60)
<1>8. d.kind = "PlaceWithPenalty" /\ Ideal(q) \notin Eligible(q) => d.penalty > 0
  BY <1>2, <1>4, ZenonT(60)
<1>9. q.required # {} \/ q.accel_local \/ q.cpus > 0 => d.constraint # "none"
  BY <1>3, <1>4, ZenonT(60)
<1>10. Sound(q, d)
  BY <1>1, <1>5, <1>6, <1>7, <1>8, <1>9, ZenonT(60) DEF Sound
<1> QED
  BY <1>10, Zenon DEF d

(* Where no node is eligible, the first one names the constraint. *)
LEMMA RefusalSound ==
  ASSUME NEW q \in Requests, Eligible(q) = {}
  PROVE  Sound(q, Refusal(q)) /\ Refusal(q).kind \in {"Reject", "Defer"}
<1> DEFINE first == IF Node = {} THEN "none" ELSE Violation(Min(Node), q)
           d == Refusal(q)
<1>1. Node # {} => first # "none"
  BY FirstNode, ZenonT(60) DEF Eligible
<1>2. first \in {"none", "required_node", "accelerator_locality",
                 "accelerator_locality_unknown", "required_cpu_count", "capacity"}
  BY ViolationNamed, ZenonT(60)
<1>3. d.kind \in {"Reject", "Defer"} /\ d.penalty = 0
      /\ d.constraint \in {"required_node", "capacity", first}
  BY ZenonT(60) DEF Refusal, Decide
<1> HIDE DEF first, d
<1>4. d.constraint \in Constraint /\ (Node # {} => d.constraint # "none")
  BY <1>1, <1>2, <1>3, ZenonT(60) DEF Constraint
<1>5. Sound(q, d)
  BY <1>3, <1>4 DEF Sound, Kind, Placing
<1> QED
  BY <1>3, <1>5, ZenonT(60) DEF d

LEMMA PlanIsSound ==
  ASSUME LedgerInv, NEW q \in Requests
  PROVE  Sound(q, Plan(q))
<1>1. CASE q.revalidation
  <2>1. Plan(q) = Decide("RevalidationRequired", Nowhere, 0, "unset")
    BY <1>1, ZenonT(60) DEF Plan
  <2>2. /\ Plan(q).kind = "RevalidationRequired" /\ Plan(q).penalty = 0
        /\ Plan(q).constraint = "unset"
    BY <2>1 DEF Decide
  <2>3. "RevalidationRequired" \in Kind \ Placing /\ "unset" \in Constraint
    BY DEF Kind, Placing, Constraint
  <2> QED
    BY <2>2, <2>3, SMTT(30) DEF Sound
<1>2. CASE ~q.revalidation /\ Eligible(q) = {}
  BY <1>2, RefusalSound, ZenonT(60) DEF Plan
<1>3. CASE ~q.revalidation /\ Eligible(q) # {}
  BY <1>3, PlacementSound, ZenonT(60) DEF Plan
<1> QED
  BY <1>1, <1>2, <1>3, ZenonT(60)

LEMMA PlanIsComplete ==
  ASSUME LedgerInv, NEW q \in Requests
  PROVE  Complete(q, Plan(q))
<1> SUFFICES ASSUME Plan(q).kind \in {"Reject", "Defer"},
                    q.fallback, q.required = {}, ~q.accel_local,
                    NEW n \in Node
             PROVE  q.cpus > Cpus[n] \/ ~Reservable(n, q)
  BY ZenonT(60) DEF Complete
<1>1. Placement(q).kind \notin {"Reject", "Defer"}
  BY ZenonT(60) DEF Placement, Decide, Moved
<1>2. Decide("RevalidationRequired", Nowhere, 0, "unset").kind \notin {"Reject", "Defer"}
  BY DEF Decide
<1>3. Eligible(q) = {}
  BY <1>1, <1>2, ZenonT(60) DEF Plan
<1>4. Violation(n, q) # "none"
  BY <1>3, ZenonT(60) DEF Eligible
<1>5. \/ q.cpus > Cpus[n]
      \/ Capacity[n] # 0 /\ (q.footprint + Reserved(n)) % Word > Capacity[n]
  BY <1>4, ZenonT(60) DEF Violation
<1> QED
  BY <1>5, FitsAlike, ZenonT(60)

-----------------------------------------------------------------------------
(* The reply that stands is what plan would answer now. *)
Answered ==
  Planned => planned.request \in Requests /\ planned.decision = Plan(planned.request)

(* plan reads nothing but the store. *)
LEMMA SamePlan ==
  ASSUME UNCHANGED storeVars, NEW q
  PROVE  Plan(q)' = Plan(q)
<1>1. \A n : Reserved(n)' = Reserved(n)
  BY Zenon DEF Reserved, NodeBytes, Bytes, OnNode, ActiveIds, Active, storeVars
<1>2. \A n : Violation(n, q)' = Violation(n, q)
  BY <1>1, ZenonT(60) DEF Violation
<1>3. Eligible(q)' = Eligible(q)
  BY <1>2, ZenonT(60) DEF Eligible
<1>4. Best(q)' = Best(q)
  BY <1>3, ZenonT(60) DEF Best
<1>5. Ideal(q)' = Ideal(q)
  BY <1>4, ZenonT(60) DEF Ideal
<1>6. Penalty(q)' = Penalty(q)
  BY <1>3, <1>4, <1>5, ZenonT(60) DEF Penalty
<1>7. BindingConstraint(q)' = BindingConstraint(q)
  BY <1>2, ZenonT(60) DEF BindingConstraint
<1>8. Refusal(q)' = Refusal(q)
  <2>1. Violation(Min(Node), q)' = Violation(Min(Node), q)
    BY <1>2, ZenonT(60)
  <2> QED
    BY <2>1, ZenonT(60) DEF Refusal, Decide
<1>9. Placement(q)' = Placement(q)
  BY <1>4, <1>5, <1>6, <1>7, ZenonT(60) DEF Placement
<1> QED
  BY <1>3, <1>8, <1>9, ZenonT(60) DEF Plan

LEMMA AnsweredStep == Answered /\ [PlanNext]_planVars => Answered'
<1> SUFFICES ASSUME Answered, [PlanNext]_planVars PROVE Answered'
  BY Zenon
<1>1. CASE UNCHANGED planVars
  BY <1>1, SamePlan, ZenonT(60) DEF Answered, Planned, planVars
<1>2. CASE StoreChanges
  BY <1>2, ZenonT(60) DEF StoreChanges, Answered, Planned
<1>3. ASSUME NEW q \in Requests, PlanRequest(q) PROVE Answered'
  <2>1. planned'.request = q /\ planned'.decision = Plan(q) /\ UNCHANGED storeVars
    BY <1>3, ZenonT(60) DEF PlanRequest
  <2>2. Plan(q)' = Plan(q)
    BY <2>1, SamePlan, ZenonT(60)
  <2> QED
    BY <2>1, <2>2, ZenonT(60) DEF Answered
<1> QED
  BY <1>1, <1>2, <1>3, ZenonT(60) DEF PlanNext

(* Planning leaves the store alone, and reserving and releasing are the    *)
(* store's own steps.                                                      *)
LEMMA PlanUsesStore == PlanSpec => StoreSpec
<1>1. PlanInit => StoreInit
  BY Zenon DEF PlanInit
<1>2. [PlanNext]_planVars => [StoreNext]_storeVars
  <2>1. {} \in OptionalGeneration
    BY DEF OptionalGeneration
  <2>2. StoreChanges => StoreNext
    BY <2>1, ZenonT(60) DEF StoreChanges, StoreNext
  <2> QED
    BY <2>2, ZenonT(60) DEF PlanNext, PlanRequest, planVars
<1> QED
  BY <1>1, <1>2, PTL DEF PlanSpec, StoreSpec

LEMMA PlanAlways ==
  ASSUME NoWraparound
  PROVE  PlanSpec => [](LedgerInv /\ Answered)
<1>1. PlanInit => Answered
  BY Zenon DEF PlanInit, Answered, Planned
<1> QED
  BY <1>1, AnsweredStep, PlanUsesStore, LedgerInvariant, PTL DEF PlanSpec

(* Where no sum of reservations can wrap around, every placement is one    *)
(* the request may have and reserve would admit, Place means the ideal     *)
(* node at no penalty, penalties never wrap around, and a hard constraint  *)
(* is always named: for all nodes, capacities, costs and requests.         *)
THEOREM PlanningSound ==
  ASSUME NoWraparound
  PROVE  PlanSpec => []PlanSound
<1>1. ASSUME LedgerInv, Answered, Planned
      PROVE  Sound(planned.request, planned.decision)
  BY <1>1, PlanIsSound, ZenonT(60) DEF Answered
<1>2. LedgerInv /\ Answered => PlanSound
  BY <1>1, ZenonT(60) DEF PlanSound, Sound
<1> QED
  BY <1>2, PlanAlways, PTL

(* On the same terms, a request without hard locality that accepts a       *)
(* fallback is refused only if no node with enough processors would admit  *)
(* it.                                                                     *)
THEOREM PlanningComplete ==
  ASSUME NoWraparound
  PROVE  PlanSpec => []PlanComplete
<1>1. ASSUME LedgerInv, Answered, Planned
      PROVE  Complete(planned.request, planned.decision)
  BY <1>1, PlanIsComplete, Zenon DEF Answered
<1>2. LedgerInv /\ Answered => PlanComplete
  BY <1>1, Zenon DEF PlanComplete, Complete
<1> QED
  BY <1>2, PlanAlways, PTL
=============================================================================
