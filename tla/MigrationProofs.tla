--------------------------- MODULE MigrationProofs ---------------------------
(* Proofs about the memory manager under migration, for any number of      *)
(* threads, nodes, regions, buffers and attempts: first without any        *)
(* discipline of the callers, then for callers that do not release a       *)
(* region that is being moved.                                             *)
EXTENDS Migration, FiniteSets, TLAPS

(* Besides one mover per region: ids from next_region on are unused, so a  *)
(* new region never replaces one that is moving; and an attempt a thread   *)
(* works on is on record, since attempts_ is never erased from after begin.*)
MigInv ==
  /\ OneMover
  /\ \A r \in RegionId : r >= next_region => regions[r] = NoRegion
  /\ \A t \in Thread : pc[t] \in MovePart => attempts[job[t].attempt] # NoAttempt

UsageOK(u) == DOMAIN u \subseteq MemNode /\ \A n \in DOMAIN u : u[n] \in Nat

(* A usage map stays one of naturals under add_node_usage, and under       *)
(* sub_node_usage if its guard passes.                                     *)
LEMMA UsageKept ==
  ASSUME NEW u, UsageOK(u), NEW n \in MemNode \cup {NoNode}, NEW bytes \in Nat
  PROVE  /\ UsageOK(Add(u, n, bytes))
         /\ ~Underflows(u, n, bytes) => UsageOK(Sub(u, n, bytes))
<1>1. UsageOK(Add(u, n, bytes))
  BY DEF UsageOK, Add, UsageAt
<1>2. ASSUME ~Underflows(u, n, bytes) PROVE UsageOK(Sub(u, n, bytes))
  BY <1>2 DEF UsageOK, Sub, UsageAt, Underflows
<1> QED
  BY <1>1, <1>2

(* What can_transition says about the states of a migration. *)
LEMMA Table ==
  ASSUME NEW r \in RegionId, regions[r] \in Region \cup {NoRegion}
  PROVE  /\ CanTransition(r, "Migrating") =>
              regions[r] \in Region /\ regions[r].state = "MigrationPending"
         /\ CanTransition(r, "MigrationPending") =>
              regions[r] \in Region /\ regions[r].state = "Active"
         /\ CanTransition(r, "Active") =>
              /\ regions[r] \in Region
              /\ regions[r].state \in {"Allocated", "MigrationPending", "Rebound"}
BY DEF CanTransition, Successors, Region, NoRegion, Lifecycle

(* At the start nothing is allocated and no thread is at work. *)
LEMMA MigInitial == MigInit => MigInv
BY MemoryConstants, MigrationConstants
DEF MigInit, MemInit, MigInv, OneMover, MigTypeOK, JobOK, Moving, MovePart, RegionId, BufferId,
    AttemptId

Part == {"idle", "record", "free"} \cup MovePart

ThreadsOK ==
  /\ pc \in [Thread -> Part]
  /\ DOMAIN job = Thread
  /\ \A u \in Thread : JobOK(pc[u], job[u])

(* Only t takes a step. *)
Others(t) == \A u \in Thread \ {t} : pc'[u] = pc[u] /\ job'[u] = job[u]

(* A step that gives t the locals of its next part keeps ThreadsOK. *)
LEMMA Stepped ==
  ASSUME ThreadsOK, NEW t \in Thread, NEW p \in Part, NEW j, JobOK(p, j),
         pc' = [pc EXCEPT ![t] = p], job' = [job EXCEPT ![t] = j]
  PROVE  ThreadsOK' /\ pc'[t] = p /\ job'[t] = j /\ Others(t)
<1>1. pc' \in [Thread -> Part] /\ DOMAIN job' = Thread /\ pc'[t] = p /\ job'[t] = j /\ Others(t)
  BY DEF ThreadsOK, Others
<1> QED
  BY <1>1 DEF ThreadsOK, Others

(* The end of an operation. *)
LEMMA Returned ==
  ASSUME ThreadsOK, NEW t \in Thread, Return(t)
  PROVE  ThreadsOK' /\ pc'[t] = "idle" /\ Others(t)
<1>1. JobOK("idle", Idle) /\ "idle" \in Part
  BY DEF JobOK, Part, MovePart
<1> QED
  BY <1>1, Stepped, ZenonT(60) DEF Return

(* From one part of a migration to another. *)
LEMMA Went ==
  ASSUME ThreadsOK, NEW t \in Thread, pc[t] \in MovePart, NEW p \in MovePart, Goto(t, p)
  PROVE  ThreadsOK' /\ pc'[t] = p /\ job'[t] = job[t] /\ Others(t)
<1>1. pc' \in [Thread -> Part] /\ pc'[t] = p /\ job' = job /\ Others(t)
  BY DEF Goto, ThreadsOK, Others, Part
<1>2. JobOK(p, job[t])
  BY DEF ThreadsOK, JobOK, MovePart
<1> QED
  BY <1>1, <1>2 DEF ThreadsOK, Others

(* What the step of a thread must not do to keep the movers apart: start   *)
(* to move, or exchange the region or the attempt it moves.                *)
Orderly(u) ==
  \/ pc'[u] = pc[u] /\ job'[u] = job[u]
  \/ pc'[u] \notin MovePart
  \/ ~Moving(u)' /\ attempts'[job'[u].attempt] # NoAttempt
  \/ /\ pc[u] \in MovePart
     /\ Moving(u)' => Moving(u)
     /\ job'[u].region = job[u].region /\ job'[u].attempt = job[u].attempt

Held(r) == regions[r].state \in {"Migrating", "Released"}

(* Every step but a claim is orderly, and it then keeps the invariant if   *)
(* it leaves the region of a mover Migrating or Released.                  *)
LEMMA MoversKept ==
  ASSUME MigInv, MigTypeOK',
         \A u \in Thread : Orderly(u),
         \A u \in Thread : Moving(u)' => Held(job[u].region)',
         \A r \in RegionId : r >= next_region' => regions'[r] = NoRegion,
         \A a \in AttemptId : attempts[a] # NoAttempt => attempts'[a] # NoAttempt
  PROVE  MigInv'
<1> USE DEF MovePart, Moving
<1>1. \A u \in Thread : pc[u] \in MovePart => job[u].attempt \in AttemptId
  BY DEF MigInv, OneMover, MigTypeOK, JobOK
<1>2. \A u \in Thread : Moving(u)' => Moving(u) /\ job'[u].region = job[u].region
  BY DEF Orderly
<1>3. \A u \in Thread : pc'[u] \in MovePart => attempts'[job'[u].attempt] # NoAttempt
  BY <1>1 DEF Orderly, MigInv
<1>4. OneMover'
  BY <1>2 DEF MigInv, OneMover, Held
<1> QED
  BY <1>3, <1>4, ZenonT(60) DEF MigInv

(* A thread inside a migration has the locals of one, and a mover's region *)
(* exists.                                                                 *)
LEMMA Movers ==
  ASSUME MigInv, NEW t \in Thread, pc[t] \in MovePart
  PROVE  /\ job[t] \in [op: {"migrate"}, attempt: AttemptId, region: RegionId,
                        target: MemNode, old: BufferId \cup {NoBuffer},
                        new: BufferId \cup {NoBuffer}, home: MemNode \cup {NoNode},
                        committed: BOOLEAN]
         /\ attempts[job[t].attempt] \in Attempt
         /\ Moving(t) => regions[job[t].region] \in Region /\ Held(job[t].region)
<1>1. job[t] \in [op: {"migrate"}, attempt: AttemptId, region: RegionId,
                  target: MemNode, old: BufferId \cup {NoBuffer},
                  new: BufferId \cup {NoBuffer}, home: MemNode \cup {NoNode},
                  committed: BOOLEAN]
  BY DEF MigInv, OneMover, MigTypeOK, JobOK
<1> QED
  BY <1>1 DEF MigInv, OneMover, MigTypeOK, Held, NoRegion

(* Every operation of the memory manager and of the migration manager      *)
(* keeps the invariant.                                                    *)
LEMMA MigInductive == MigInv /\ [MigNext]_migVars => MigInv'
<1> SUFFICES ASSUME MigInv, [MigNext]_migVars PROVE MigInv'
  OBVIOUS
<1>0. MigTypeOK /\ ThreadsOK /\ UsageOK(node_usage)
  BY ZenonT(60) DEF MigInv, OneMover, MigTypeOK, ThreadsOK, UsageOK, Part
<1>1. ASSUME NEW t \in Thread, RecordRegion(t), UNCHANGED migrationVars PROVE MigInv'
  <2>1. /\ pc[t] = "record" /\ next_region \in RegionId
        /\ job[t] \in [op: {"allocate"}, req: Requests, node: MemNode \cup {NoNode},
                       buffer: BufferId \cup {NoBuffer}]
    BY <1>0, <1>1, SMTT(30) DEF RecordRegion, MigTypeOK, JobOK, RegionId
  <2>2. ThreadsOK' /\ pc'[t] = "idle" /\ Others(t)
    BY <1>0, <1>1, Returned, ZenonT(60) DEF RecordRegion
  <2>3. UsageOK(node_usage')
    <3>1. HomeOf(job[t].node, job[t].req.intended) \in MemNode \cup {NoNode}
          /\ job[t].req.bytes \in Nat
      BY <2>1, MemoryConstants, ZenonT(60) DEF HomeOf
    <3> QED
      BY <1>0, <1>1, <3>1, UsageKept DEF RecordRegion
  <2>4. /\ regions' \in [RegionId -> Region \cup {NoRegion}]
        /\ \A r \in RegionId \ {next_region} : regions'[r] = regions[r]
        /\ next_region' = next_region + 1
    BY <1>0, <1>1, <2>1, MemoryConstants, SMTT(30) DEF RecordRegion, MigTypeOK, Region, Lifecycle
  <2>5. MigTypeOK'
    BY <1>0, <1>1, <2>1, <2>2, <2>3, <2>4, MemoryConstants
    DEF MigTypeOK, RecordRegion, UsageOK, ThreadsOK, backendVars, migrationVars, Part, RegionId
  <2>6. regions[next_region] = NoRegion
    BY <2>1 DEF MigInv, RegionId
  <2>7. \A u \in Thread : Moving(u)' => Held(job[u].region)'
    <3> SUFFICES ASSUME NEW u \in Thread, Moving(u)' PROVE Held(job[u].region)'
      OBVIOUS
    <3>1. u # t /\ pc'[u] = pc[u] /\ job'[u] = job[u]
      BY <2>2 DEF Moving, Others
    <3>2. job[u].region \in RegionId /\ Held(job[u].region)
      BY <3>1, Movers DEF Moving, MovePart
    <3> QED
      BY <2>4, <2>6, <3>1, <3>2 DEF Held, NoRegion
  <2>8. \A u \in Thread : Orderly(u)
    BY <2>2, ZenonT(60) DEF Orderly, Others, MovePart
  <2> QED
    BY <1>0, <1>1, <2>4, <2>5, <2>7, <2>8, MoversKept, SMTT(30)
    DEF MigInv, migrationVars, MigTypeOK, RegionId
<1>2. ASSUME NEW t \in Thread, FreeReleased(t), UNCHANGED migrationVars PROVE MigInv'
  <2>1. ThreadsOK' /\ pc'[t] = "idle" /\ Others(t)
    BY <1>0, <1>2, Returned DEF FreeReleased
  <2>2. MigTypeOK'
    BY <1>0, <1>2, <2>1, SMTT(30) DEF MigTypeOK, FreeReleased, GiveBack, ThreadsOK, migrationVars, Part
  <2> QED
    BY <1>2, <2>1, <2>2, MoversKept, ZenonT(60)
    DEF MigInv, OneMover, FreeReleased, migrationVars, Orderly, Others, Moving, Held, MovePart
<1>3. ASSUME NEW t \in Thread, Execute(t) PROVE MigInv'
  <2>1. ThreadsOK' /\ pc'[t] = "claim" /\ job'[t] = job[t] /\ Others(t)
    BY <1>0, <1>3, Went DEF Execute, MovePart
  <2>2. job[t].attempt \in AttemptId /\ attempts[job[t].attempt] \in Attempt
    BY <1>0, <1>3 DEF Execute, MigTypeOK, JobOK, MovePart, MigInv
  <2>3. /\ attempts' \in [AttemptId -> Attempt \cup {NoAttempt}]
        /\ \A a \in AttemptId : attempts[a] # NoAttempt => attempts'[a] # NoAttempt
    BY <1>0, <1>3, <2>2, ZenonT(60) DEF Execute, MigTypeOK, Attempt, NoAttempt
  <2>4. MigTypeOK'
    BY <1>0, <1>3, <2>1, <2>3, ZenonT(60) DEF MigTypeOK, Execute, ThreadsOK, backendVars, Part
  <2> QED
    BY <1>3, <2>1, <2>3, <2>4, MoversKept, ZenonT(60)
    DEF MigInv, OneMover, Execute, Orderly, Others, Moving, Held, MovePart
<1>4. ASSUME NEW t \in Thread, ExecuteRefused(t) PROVE MigInv'
  <2>1. ThreadsOK' /\ pc'[t] = "idle" /\ Others(t)
    BY <1>0, <1>4, Returned, ZenonT(60) DEF ExecuteRefused
  <2>2. MigTypeOK'
    BY <1>0, <1>4, <2>1, SMTT(30)
    DEF MigTypeOK, ExecuteRefused, ThreadsOK, migrationVars, backendVars, Part
  <2> QED
    BY <1>4, <2>1, <2>2, MoversKept, ZenonT(60)
    DEF MigInv, OneMover, ExecuteRefused, migrationVars, Orderly, Others, Moving, Held, MovePart
<1>5. ASSUME NEW t \in Thread, Settle(t) PROVE MigInv'
  <2>1. ThreadsOK' /\ pc'[t] = "idle" /\ Others(t)
    BY <1>0, <1>5, Returned, SMTT(30) DEF Settle
  <2>2. /\ job[t].attempt \in AttemptId /\ attempts[job[t].attempt] \in Attempt
        /\ job[t].committed \in BOOLEAN
    BY <1>0, <1>5 DEF Settle, MigTypeOK, JobOK, MovePart, MigInv
  <2>3. /\ attempts' \in [AttemptId -> Attempt \cup {NoAttempt}]
        /\ \A a \in AttemptId : attempts[a] # NoAttempt => attempts'[a] # NoAttempt
    BY <1>0, <1>5, <2>2, ZenonT(60) DEF Settle, MigTypeOK, Attempt, NoAttempt
  <2>4. MigTypeOK'
    BY <1>0, <1>5, <2>1, <2>3, ZenonT(60) DEF MigTypeOK, Settle, ThreadsOK, backendVars, Part
  <2> QED
    BY <1>5, <2>1, <2>3, <2>4, MoversKept, ZenonT(60)
    DEF MigInv, OneMover, Settle, Orderly, Others, Moving, Held, MovePart
<1>6. ASSUME NEW t \in Thread, ClaimRegion(t), UNCHANGED migrationVars PROVE MigInv'
  <2> DEFINE r == job[t].region
  <2>1. /\ pc[t] = "claim" /\ r \in RegionId
        /\ regions[r] \in Region /\ regions[r].state = "MigrationPending"
    BY <1>0, <1>6, Movers, Table DEF ClaimRegion, Claimable, MigTypeOK, MovePart
  <2>2. /\ ThreadsOK' /\ pc'[t] = "obtain" /\ Others(t)
        /\ job'[t].region = r /\ job'[t].attempt = job[t].attempt
    <3> DEFINE j == [job[t] EXCEPT !.old = regions[r].buffer, !.home = Home(r)]
    <3>1. Home(r) \in MemNode \cup {NoNode} /\ regions[r].buffer \in BufferId \cup {NoBuffer}
      BY <2>1 DEF Home, HomeOf, Region
    <3>2. JobOK("obtain", j) /\ "obtain" \in Part /\ j.region = r /\ j.attempt = job[t].attempt
      BY <2>1, <3>1, Movers, ZenonT(60) DEF JobOK, Part, MovePart
    <3>3. pc' = [pc EXCEPT ![t] = "obtain"] /\ job' = [job EXCEPT ![t] = j]
      BY <1>0, <1>6, Zenon DEF ClaimRegion, ThreadsOK
    <3> HIDE DEF j
    <3> QED
      BY <1>0, <3>2, <3>3, Stepped, ZenonT(60)
  <2>3. /\ regions' \in [RegionId -> Region \cup {NoRegion}]
        /\ \A s \in RegionId \ {r} : regions'[s] = regions[s]
        /\ Held(r)'
    BY <1>0, <1>6, <2>1, <2>2, ZenonT(60) DEF ClaimRegion, MigTypeOK, Region, Lifecycle, Held
  <2>4. MigTypeOK'
    BY <1>0, <1>6, <2>2, <2>3, ZenonT(60)
    DEF MigTypeOK, ClaimRegion, ThreadsOK, backendVars, migrationVars, Part
  <2>5. \A u \in Thread \ {t} : Moving(u) => job[u].region \in RegionId \ {r}
    BY <2>1, Movers, ZenonT(60) DEF Moving, MovePart, Held
  <2>6. OneMover'
    BY <2>2, <2>3, <2>4, <2>5, SMTT(30) DEF MigInv, OneMover, Moving, Others, Held
  <2>7. \A s \in RegionId : s >= next_region' => regions'[s] = NoRegion
    <3>1. regions[r] # NoRegion
      BY <2>1 DEF NoRegion
    <3> QED
      BY <1>6, <2>1, <2>3, <3>1 DEF MigInv, ClaimRegion
  <2>8. \A u \in Thread : pc'[u] \in MovePart => attempts'[job'[u].attempt] # NoAttempt
    BY <1>6, <2>1, <2>2, ZenonT(60) DEF MigInv, migrationVars, Others, MovePart
  <2> QED
    BY <2>6, <2>7, <2>8 DEF MigInv
<1>7. ASSUME NEW t \in Thread, ClaimThrows(t), UNCHANGED migrationVars PROVE MigInv'
  <2>1. ThreadsOK' /\ pc'[t] = "idle" /\ Others(t)
    BY <1>0, <1>7, Returned, ZenonT(60) DEF ClaimThrows
  <2>2. MigTypeOK'
    BY <1>0, <1>7, <2>1, ZenonT(60) DEF MigTypeOK, ClaimThrows, ThreadsOK, migrationVars, backendVars, Part
  <2> QED
    BY <1>7, <2>1, <2>2, MoversKept, ZenonT(60)
    DEF MigInv, OneMover, ClaimThrows, migrationVars, Orderly, Others, Moving, Held, MovePart
<1>8. ASSUME NEW t \in Thread, ObtainTarget(t), UNCHANGED migrationVars PROVE MigInv'
  <2>1. /\ ThreadsOK' /\ pc'[t] = "vacate" /\ Others(t)
        /\ job'[t].region = job[t].region /\ job'[t].attempt = job[t].attempt
    <3> DEFINE j == [job[t] EXCEPT !.new = next_buffer]
    <3>1. next_buffer \in BufferId
      BY <1>0, <1>8 DEF ObtainTarget, TakeBuffer, MigTypeOK, BufferId
    <3>2. /\ JobOK("vacate", j) /\ "vacate" \in Part
          /\ j.region = job[t].region /\ j.attempt = job[t].attempt
      BY <1>8, <3>1, Movers DEF ObtainTarget, JobOK, Part, MovePart
    <3>3. pc' = [pc EXCEPT ![t] = "vacate"] /\ job' = [job EXCEPT ![t] = j]
      BY <1>0, <1>8 DEF ObtainTarget, ThreadsOK
    <3> HIDE DEF j
    <3> QED
      BY <1>0, <3>2, <3>3, Stepped, ZenonT(60)
  <2>2. MigTypeOK'
    <3>1. next_buffer' \in 1 .. MaxBuffer + 1
      BY <1>0, <1>8, MemoryConstants DEF MigTypeOK, ObtainTarget, TakeBuffer
    <3> QED
      BY <1>0, <1>8, <2>1, <3>1
      DEF MigTypeOK, ObtainTarget, TakeBuffer, ThreadsOK, migrationVars, Part
  <2>3. pc[t] = "obtain"
    BY <1>8 DEF ObtainTarget
  <2> QED
    BY <1>8, <2>1, <2>2, <2>3, MoversKept
    DEF MigInv, OneMover, ObtainTarget, migrationVars, Orderly, Others, Moving, Held, MovePart
<1>9. ASSUME NEW t \in Thread, TargetExhausted(t), UNCHANGED migrationVars PROVE MigInv'
  <2>1. ThreadsOK' /\ pc'[t] = "retain" /\ job'[t] = job[t] /\ Others(t) /\ pc[t] = "obtain"
    BY <1>0, <1>9, Went, ZenonT(60) DEF TargetExhausted, MovePart
  <2>2. MigTypeOK'
    BY <1>0, <1>9, <2>1, ZenonT(60) DEF MigTypeOK, TargetExhausted, ThreadsOK, migrationVars, backendVars, Part
  <2> QED
    BY <1>9, <2>1, <2>2, MoversKept, ZenonT(60)
    DEF MigInv, OneMover, TargetExhausted, migrationVars, Orderly, Others, Moving, Held, MovePart
<1>10. ASSUME NEW t \in Thread, RetainOriginal(t), UNCHANGED migrationVars PROVE MigInv'
  <2> DEFINE r == job[t].region
  <2>1. ThreadsOK' /\ pc'[t] = "settle" /\ job'[t] = job[t] /\ Others(t) /\ pc[t] = "retain"
    BY <1>0, <1>10, Went, ZenonT(60) DEF RetainOriginal, MovePart
  <2>2. r \in RegionId /\ regions[r] \in Region
    BY <2>1, Movers, ZenonT(60) DEF Moving, MovePart
  <2>3. /\ regions' \in [RegionId -> Region \cup {NoRegion}]
        /\ \A s \in RegionId \ {r} : regions'[s] = regions[s]
    BY <1>0, <1>10, <2>2 DEF RetainOriginal, MigTypeOK, Region, Lifecycle
  <2>4. MigTypeOK'
    BY <1>0, <1>10, <2>1, <2>3, SMTT(30)
    DEF MigTypeOK, RetainOriginal, ThreadsOK, backendVars, migrationVars, Part
  <2>5. \A u \in Thread : Moving(u)' => Held(job[u].region)'
    <3> SUFFICES ASSUME NEW u \in Thread, Moving(u)' PROVE Held(job[u].region)'
      OBVIOUS
    <3>1. u # t /\ pc'[u] = pc[u] /\ job'[u] = job[u]
      BY <2>1, ZenonT(60) DEF Moving, Others
    <3>2. job[u].region \in RegionId \ {r} /\ Held(job[u].region)
      BY <2>1, <3>1, Movers, ZenonT(60) DEF Moving, MovePart, MigInv, OneMover
    <3> QED
      BY <2>3, <3>1, <3>2 DEF Held
  <2>6. \A s \in RegionId : s >= next_region' => regions'[s] = NoRegion
    <3>1. regions[r] # NoRegion
      BY <2>2, SMTT(30) DEF NoRegion, Region, Lifecycle
    <3> QED
      BY <1>10, <2>2, <2>3, <3>1, SMTT(30) DEF MigInv, RetainOriginal
  <2> QED
    BY <1>10, <2>1, <2>4, <2>5, <2>6, MoversKept
    DEF migrationVars, Orderly, Others, Moving, MovePart
<1>11. ASSUME NEW t \in Thread, VacateOld(t), UNCHANGED migrationVars PROVE MigInv'
  <2>1. ThreadsOK' /\ pc'[t] = "commit" /\ job'[t] = job[t] /\ Others(t) /\ pc[t] = "vacate"
    BY <1>0, <1>11, Went, ZenonT(60) DEF VacateOld, MovePart
  <2>2. MigTypeOK'
    BY <1>0, <1>11, <2>1, SMTT(30) DEF MigTypeOK, VacateOld, GiveBack, ThreadsOK, migrationVars, Part
  <2> QED
    BY <1>11, <2>1, <2>2, MoversKept, ZenonT(60)
    DEF MigInv, OneMover, VacateOld, migrationVars, Orderly, Others, Moving, Held, MovePart
<1>12. ASSUME NEW t \in Thread, CommitMove(t), UNCHANGED migrationVars PROVE MigInv'
  <2> DEFINE r == job[t].region
  <2>1. /\ pc[t] = "commit" /\ r \in RegionId /\ regions[r] \in Region
        /\ job[t].home \in MemNode \cup {NoNode} /\ job[t].target \in MemNode
        /\ job[t].new \in BufferId \cup {NoBuffer}
    BY <1>12, Movers DEF CommitMove, Moving, MovePart
  <2>2. /\ ThreadsOK' /\ pc'[t] = "settle" /\ Others(t)
        /\ job'[t].region = r /\ job'[t].attempt = job[t].attempt
    <3> DEFINE j == [job[t] EXCEPT !.committed = TRUE]
    <3>1. JobOK("settle", j) /\ "settle" \in Part /\ j.region = r /\ j.attempt = job[t].attempt
      BY <2>1, Movers, Zenon DEF JobOK, Part, MovePart
    <3>2. pc' = [pc EXCEPT ![t] = "settle"] /\ job' = [job EXCEPT ![t] = j]
      BY <1>0, <1>12 DEF CommitMove, ThreadsOK
    <3> HIDE DEF j
    <3> QED
      BY <1>0, <3>1, <3>2, Stepped, ZenonT(60)
  <2>3. /\ regions' \in [RegionId -> Region \cup {NoRegion}]
        /\ \A s \in RegionId \ {r} : regions'[s] = regions[s]
    <3> DEFINE new == [state |-> "Rebound", generation |-> regions[r].generation + 1,
                       bytes |-> regions[r].bytes, node |-> job[t].target,
                       intended |-> job[t].target, buffer |-> job[t].new, current |-> TRUE]
    <3>1. new \in Region
      BY <2>1 DEF Region, Lifecycle
    <3>2. regions' = [regions EXCEPT ![r] = new]
      BY <1>12, ZenonT(60) DEF CommitMove
    <3> HIDE DEF new
    <3> QED
      BY <1>0, <2>1, <3>1, <3>2, ZenonT(60) DEF MigTypeOK
  <2>4. UsageOK(node_usage')
    <3>1. regions[r].bytes \in Nat
      BY <2>1, ZenonT(60) DEF Region
    <3>2. UsageOK(Sub(node_usage, job[t].home, regions[r].bytes))
      BY <1>0, <1>12, <2>1, <3>1, UsageKept, ZenonT(60) DEF CommitMove
    <3> QED
      BY <1>12, <2>1, <3>1, <3>2, UsageKept DEF CommitMove
  <2>5. MigTypeOK'
    BY <1>0, <1>12, <2>2, <2>3, <2>4, Zenon
    DEF MigTypeOK, CommitMove, ThreadsOK, UsageOK, backendVars, migrationVars, Part
  <2>6. \A u \in Thread : Moving(u)' => Held(job[u].region)'
    <3> SUFFICES ASSUME NEW u \in Thread, Moving(u)' PROVE Held(job[u].region)'
      OBVIOUS
    <3>1. u # t /\ pc'[u] = pc[u] /\ job'[u] = job[u]
      BY <2>2, ZenonT(60) DEF Moving, Others
    <3>2. job[u].region \in RegionId \ {r} /\ Held(job[u].region)
      BY <2>1, <3>1, Movers, ZenonT(60) DEF Moving, MovePart, MigInv, OneMover
    <3> QED
      BY <2>3, <3>1, <3>2 DEF Held
  <2>7. \A s \in RegionId : s >= next_region' => regions'[s] = NoRegion
    <3>1. regions[r] # NoRegion
      BY <2>1, SMTT(30) DEF NoRegion, Region, Lifecycle
    <3> QED
      BY <1>12, <2>1, <2>3, <3>1, ZenonT(60) DEF MigInv, CommitMove
  <2> QED
    BY <1>12, <2>1, <2>2, <2>5, <2>6, <2>7, MoversKept, ZenonT(60)
    DEF migrationVars, Orderly, Others, Moving, MovePart
<1>13. ASSUME NEW t \in Thread, CommitThrows(t), UNCHANGED migrationVars PROVE MigInv'
  <2>1. ThreadsOK' /\ pc'[t] = "idle" /\ Others(t)
    BY <1>0, <1>13, Returned DEF CommitThrows
  <2>2. UsageOK(node_usage')
    <3>1. job[t].home \in MemNode \cup {NoNode}
      BY <1>13, Movers, ZenonT(60) DEF CommitThrows, MovePart
    <3> QED
      BY <1>0, <1>13, <3>1, UsageKept, ZenonT(60) DEF CommitThrows, Underflown
  <2>3. MigTypeOK'
    BY <1>0, <1>13, <2>1, <2>2
    DEF MigTypeOK, CommitThrows, ThreadsOK, UsageOK, migrationVars, backendVars, Part
  <2> QED
    BY <1>13, <2>1, <2>3, MoversKept, ZenonT(60)
    DEF MigInv, OneMover, CommitThrows, migrationVars, Orderly, Others, Moving, Held, MovePart
<1>14. ASSUME NEW t \in Thread, NEW req \in Requests, Allocate(t, req), UNCHANGED migrationVars
       PROVE  MigInv'
  <2>1. PICK node \in MemNode \cup {NoNode}, buffer \in BufferId \cup {NoBuffer} :
          job' = [job EXCEPT ![t] = [op |-> "allocate", req |-> req, node |-> node,
                                     buffer |-> buffer]]
    <3>1. next_buffer <= MaxBuffer => next_buffer \in BufferId
      BY <1>0, MemoryConstants DEF MigTypeOK, BufferId
    <3>2. Observed \subseteq MemNode \cup {NoNode}
      BY MemoryConstants, SMTT(30)
    <3> QED
      BY <1>14, <3>1, <3>2 DEF Allocate, TakeBuffer
  <2>2. ThreadsOK' /\ pc'[t] = "record" /\ Others(t)
    <3> DEFINE j == [op |-> "allocate", req |-> req, node |-> node, buffer |-> buffer]
    <3>1. JobOK("record", j) /\ "record" \in Part
      BY ZenonT(60) DEF JobOK, Part, MovePart
    <3> HIDE DEF j
    <3> QED
      BY <1>0, <1>14, <2>1, <3>1, Stepped, ZenonT(60) DEF Allocate, j
  <2>3. next_buffer' \in 1 .. MaxBuffer + 1 /\ frees' = frees /\ outdated' = outdated
    <3>1. CASE TakeBuffer
      BY <1>0, <3>1, MemoryConstants DEF TakeBuffer, MigTypeOK
    <3>2. CASE UNCHANGED backendVars
      BY <1>0, <3>2, ZenonT(60) DEF MigTypeOK, backendVars
    <3> QED
      BY <1>14, <3>1, <3>2, ZenonT(60) DEF Allocate
  <2>4. MigTypeOK'
    BY <1>0, <1>14, <2>2, <2>3 DEF MigTypeOK, Allocate, ThreadsOK, migrationVars, Part
  <2> QED
    BY <1>14, <2>2, <2>4, MoversKept, ZenonT(60)
    DEF MigInv, OneMover, Allocate, migrationVars, Orderly, Others, Moving, Held, MovePart
<1>15. ASSUME NEW t \in Thread, NEW r \in RegionId, NEW expected, Release(t, r, expected),
              UNCHANGED migrationVars
       PROVE  MigInv'
  <2>1. /\ regions[r] \in Region /\ Home(r) \in MemNode \cup {NoNode}
        /\ regions[r].bytes \in Nat /\ regions[r] # NoRegion
    BY <1>0, <1>15, ZenonT(60) DEF Release, ReleaseAllowed, MigTypeOK, Home, HomeOf, Region
  <2>2. CASE Underflows(node_usage, Home(r), regions[r].bytes)
    <3>1. UsageOK(node_usage')
      BY <1>0, <1>15, <2>1, <2>2, UsageKept DEF Release, Underflown
    <3>2. UNCHANGED <<regions, pc, job, next_region, attempts>>
      BY <1>15, <2>2 DEF Release, migrationVars
    <3>3. MigTypeOK'
      BY <1>0, <1>15, <3>1, <3>2, ZenonT(60) DEF MigTypeOK, Release, UsageOK, migrationVars, backendVars
    <3> QED
      BY <3>2, <3>3 DEF MigInv, OneMover, Moving
  <2>3. CASE ~Underflows(node_usage, Home(r), regions[r].bytes)
    <3>1. ThreadsOK' /\ pc'[t] = "free" /\ Others(t)
      <4> DEFINE j == [op |-> "release", buffer |-> regions[r].buffer]
      <4>1. JobOK("free", j) /\ "free" \in Part
        BY <2>1 DEF JobOK, Part, MovePart, Region
      <4>2. pc' = [pc EXCEPT ![t] = "free"] /\ job' = [job EXCEPT ![t] = j]
        BY <1>15, <2>3 DEF Release
      <4> HIDE DEF j
      <4> QED
        BY <1>0, <4>1, <4>2, Stepped, ZenonT(60)
    <3>2. UsageOK(node_usage')
      BY <1>0, <1>15, <2>1, <2>3, UsageKept DEF Release
    <3>3. /\ regions' \in [RegionId -> Region \cup {NoRegion}]
          /\ \A s \in RegionId \ {r} : regions'[s] = regions[s]
          /\ regions'[r].state = "Released"
      BY <1>0, <1>15, <2>1, <2>3 DEF Release, MigTypeOK, Region, Lifecycle
    <3>4. MigTypeOK'
      BY <1>0, <1>15, <3>1, <3>2, <3>3, ZenonT(60)
      DEF MigTypeOK, Release, ThreadsOK, UsageOK, migrationVars, backendVars, Part
    <3>5. \A u \in Thread : Moving(u)' => Held(job[u].region)'
      <4> SUFFICES ASSUME NEW u \in Thread, Moving(u)' PROVE Held(job[u].region)'
        OBVIOUS
      <4>1. u # t /\ pc'[u] = pc[u] /\ job'[u] = job[u]
        BY <3>1, ZenonT(60) DEF Moving, Others
      <4>2. job[u].region \in RegionId /\ Held(job[u].region)
        BY <4>1, Movers DEF Moving, MovePart
      <4> QED
        BY <3>3, <4>1, <4>2 DEF Held
    <3>6. \A s \in RegionId : s >= next_region' => regions'[s] = NoRegion
      BY <1>15, <2>1, <3>3, ZenonT(60) DEF MigInv, Release
    <3> QED
      BY <1>15, <3>1, <3>4, <3>5, <3>6, MoversKept
      DEF migrationVars, Orderly, Others, Moving, MovePart
  <2> QED
    BY <2>2, <2>3
<1>16. ASSUME NEW t \in Thread, NEW r \in RegionId, NEW target \in MemNode, Begin(t, r, target)
       PROVE  MigInv'
  <2>1. regions[r] \in Region /\ regions[r].state = "Active" /\ next_attempt \in AttemptId
    BY <1>0, <1>16, Table DEF Begin, Transition, MigTypeOK, AttemptId
  <2>2. /\ ThreadsOK' /\ pc'[t] = "execute" /\ Others(t)
        /\ job'[t].attempt = next_attempt
    <3> DEFINE j == [op |-> "migrate", attempt |-> next_attempt, region |-> r,
                     target |-> target, old |-> NoBuffer, new |-> NoBuffer,
                     home |-> NoNode, committed |-> FALSE]
    <3>1. JobOK("execute", j) /\ "execute" \in Part /\ j.attempt = next_attempt
      BY <2>1, ZenonT(60) DEF JobOK, Part, MovePart
    <3>2. pc' = [pc EXCEPT ![t] = "execute"] /\ job' = [job EXCEPT ![t] = j]
      BY <1>16 DEF Begin
    <3> HIDE DEF j
    <3> QED
      BY <1>0, <3>1, <3>2, Stepped, ZenonT(60)
  <2>3. /\ regions' \in [RegionId -> Region \cup {NoRegion}]
        /\ \A s \in RegionId \ {r} : regions'[s] = regions[s]
    BY <1>0, <1>16, <2>1, ZenonT(60) DEF Begin, Transition, MigTypeOK, Region, Lifecycle
  <2>4. /\ attempts' \in [AttemptId -> Attempt \cup {NoAttempt}]
        /\ attempts'[next_attempt] # NoAttempt
        /\ \A a \in AttemptId : attempts[a] # NoAttempt => attempts'[a] # NoAttempt
    <3> DEFINE new == [region |-> r, target |-> target, active |-> TRUE, committed |-> FALSE,
                       lifecycle |-> "MigrationPending"]
    <3>1. new \in Attempt /\ new # NoAttempt
      BY ZenonT(60) DEF Attempt, NoAttempt
    <3>2. attempts' = [attempts EXCEPT ![next_attempt] = new]
      BY <1>16, SMTT(30) DEF Begin
    <3> HIDE DEF new
    <3> QED
      BY <1>0, <2>1, <3>1, <3>2, ZenonT(60) DEF MigTypeOK
  <2>5. MigTypeOK'
    <3>1. next_attempt' \in 1 .. MaxAttempt + 1
      BY <1>0, <1>16, MigrationConstants, SMTT(30) DEF Begin, MigTypeOK
    <3> QED
      BY <1>0, <1>16, <2>2, <2>3, <2>4, <3>1, ZenonT(60)
      DEF MigTypeOK, Begin, ThreadsOK, backendVars, Part
  <2>6. \A u \in Thread : Moving(u)' => Held(job[u].region)'
    <3> SUFFICES ASSUME NEW u \in Thread, Moving(u)' PROVE Held(job[u].region)'
      OBVIOUS
    <3>1. u # t /\ pc'[u] = pc[u] /\ job'[u] = job[u]
      BY <2>2, ZenonT(60) DEF Moving, Others
    <3>2. job[u].region \in RegionId \ {r} /\ Held(job[u].region)
      BY <2>1, <3>1, Movers, ZenonT(60) DEF Moving, MovePart, Held
    <3> QED
      BY <2>3, <3>1, <3>2 DEF Held
  <2>7. \A s \in RegionId : s >= next_region' => regions'[s] = NoRegion
    <3>1. regions[r] # NoRegion
      BY <2>1, SMTT(30) DEF NoRegion
    <3> QED
      BY <1>16, <2>3, <3>1 DEF MigInv, Begin
  <2> QED
    BY <2>2, <2>4, <2>5, <2>6, <2>7, MoversKept DEF Orderly, Others, Moving
<1>17. ASSUME NEW t \in Thread, NEW r \in RegionId, BeginRefused(t, r) PROVE MigInv'
  <2>1. next_attempt' \in 1 .. MaxAttempt + 1
    BY <1>0, <1>17, MigrationConstants DEF BeginRefused, MigTypeOK
  <2>2. UNCHANGED <<regions, node_usage, next_region, mem_watermark, next_buffer, frees,
                    outdated, pc, job, attempts>>
    BY <1>17, ZenonT(60) DEF BeginRefused, memVars, backendVars
  <2>3. MigTypeOK'
    BY <1>0, <2>1, <2>2 DEF MigTypeOK
  <2> QED
    BY <2>2, <2>3 DEF MigInv, OneMover, Moving
<1>18. ASSUME NEW a \in AttemptId, Rollback(a) PROVE MigInv'
  <2> DEFINE r == attempts[a].region
  <2>1. attempts[a] \in Attempt /\ r \in RegionId
    <3>1. attempts[a] # NoAttempt
      BY <1>18 DEF Rollback, NoAttempt
    <3> QED
      BY <1>0, <3>1 DEF MigTypeOK, Attempt
  <2>2. /\ attempts' \in [AttemptId -> Attempt \cup {NoAttempt}]
        /\ \A b \in AttemptId : attempts[b] # NoAttempt => attempts'[b] # NoAttempt
    BY <1>0, <1>18, <2>1 DEF Rollback, MigTypeOK, Attempt, NoAttempt
  <2>3. /\ regions' \in [RegionId -> Region \cup {NoRegion}]
        /\ \A s \in RegionId : regions[s] = NoRegion \/ Held(s) => regions'[s] = regions[s]
    <3>1. CASE Transition(r, "Active")
      <4>1. regions[r] \in Region /\ ~Held(r)
        BY <1>0, <2>1, <3>1, Table, ZenonT(60) DEF Transition, MigTypeOK, Held
      <4>2. regions[r] # NoRegion
        BY <4>1 DEF Region, NoRegion, Lifecycle
      <4> QED
        BY <1>0, <2>1, <3>1, <4>1, <4>2 DEF Transition, MigTypeOK, Region, Lifecycle
    <3>2. CASE UNCHANGED regions
      BY <1>0, <3>2 DEF MigTypeOK
    <3> QED
      BY <1>18, <3>1, <3>2, ZenonT(60) DEF Rollback
  <2>4. MigTypeOK'
    BY <1>0, <1>18, <2>2, <2>3, ZenonT(60) DEF MigTypeOK, Rollback, backendVars
  <2>5. \A u \in Thread : Moving(u)' => Held(job[u].region)'
    <3> SUFFICES ASSUME NEW u \in Thread, Moving(u)' PROVE Held(job[u].region)'
      OBVIOUS
    <3>1. pc'[u] = pc[u] /\ job' = job
      BY <1>18, ZenonT(60) DEF Rollback
    <3>2. job[u].region \in RegionId /\ Held(job[u].region)
      BY <3>1, Movers DEF Moving, MovePart
    <3> QED
      BY <2>3, <3>1, <3>2 DEF Held
  <2> QED
    BY <1>18, <2>2, <2>3, <2>4, <2>5, MoversKept, ZenonT(60) DEF MigInv, Rollback, Orderly
<1>19. ASSUME InvalidateLocality, UNCHANGED migrationVars PROVE MigInv'
  <2>1. /\ regions' \in [RegionId -> Region \cup {NoRegion}]
        /\ \A s \in RegionId : /\ regions[s] = NoRegion => regions'[s] = NoRegion
                               /\ regions'[s].state = regions[s].state
    <3> SUFFICES ASSUME NEW s \in RegionId
                 PROVE  /\ regions'[s] \in Region \cup {NoRegion}
                        /\ regions[s] = NoRegion => regions'[s] = NoRegion
                        /\ regions'[s].state = regions[s].state
      BY <1>19 DEF InvalidateLocality
    <3>1. IsLive(s) => regions[s] \in Region /\ regions[s] # NoRegion
      BY <1>0 DEF IsLive, MigTypeOK, NoRegion
    <3>2. regions'[s] = IF IsLive(s) THEN [regions[s] EXCEPT !.current = FALSE] ELSE regions[s]
      BY <1>19 DEF InvalidateLocality
    <3> QED
      BY <1>0, <3>1, <3>2, ZenonT(60) DEF MigTypeOK, Region
  <2>2. outdated' \subseteq BufferId
    BY <1>0, <1>19, MemoryConstants DEF InvalidateLocality, MigTypeOK, BufferId
  <2>3. MigTypeOK'
    BY <1>0, <1>19, <2>1, <2>2 DEF MigTypeOK, InvalidateLocality, migrationVars
  <2>4. \A u \in Thread : Moving(u)' => Held(job[u].region)'
    <3> SUFFICES ASSUME NEW u \in Thread, Moving(u)' PROVE Held(job[u].region)'
      OBVIOUS
    <3>1. pc'[u] = pc[u] /\ job' = job
      BY <1>19 DEF InvalidateLocality
    <3>2. job[u].region \in RegionId /\ Held(job[u].region)
      BY <3>1, Movers, SMTT(30) DEF Moving, MovePart
    <3> QED
      BY <2>1, <3>1, <3>2 DEF Held
  <2> QED
    BY <1>19, <2>1, <2>3, <2>4, MoversKept
    DEF MigInv, InvalidateLocality, migrationVars, Orderly
<1>20. CASE UNCHANGED migVars
  BY <1>0, <1>20
  DEF migVars, memVars, migrationVars, backendVars, MigInv, OneMover, MigTypeOK, Moving
<1> QED
  BY <1>1, <1>2, <1>3, <1>4, <1>5, <1>6, <1>7, <1>8, <1>9, <1>10, <1>11, <1>12, <1>13, <1>14,
     <1>15, <1>16, <1>17, <1>18, <1>19, <1>20
  DEF MigNext, Continue, Reallocate

(* So the invariant holds at every moment. *)
LEMMA MigAlways == MigSpec => []MigInv
BY MigInitial, MigInductive, PTL DEF MigSpec

(* At most one thread moves a region, however many threads migrate, roll   *)
(* back and release.                                                       *)
THEOREM MigOneMover == MigSpec => []OneMover
<1>1. MigInv => OneMover
  BY ZenonT(60) DEF MigInv
<1> QED
  BY <1>1, MigAlways, PTL

(* A region of which only the state or the currency changes keeps its      *)
(* placement and its generation.                                           *)
LEMMA SamePlacement ==
  ASSUME MigTypeOK, NEW r \in RegionId,
         \/ regions'[r] = regions[r]
         \/ /\ regions'[r] \in Region
            /\ regions'[r].generation = regions[r].generation
            /\ regions'[r].buffer = regions[r].buffer
            /\ regions'[r].node = regions[r].node
  PROVE  Fenced(r)
<1>1. ASSUME regions[r] # NoRegion
      PROVE  regions[r] \in Region /\ regions[r].generation \in Nat
  BY <1>1, ZenonT(60) DEF MigTypeOK, Region
<1>2. regions[r] # NoRegion => regions'[r] # NoRegion
  BY DEF Region, NoRegion, Lifecycle
<1> QED
  BY <1>1, <1>2, SMTT(30) DEF Fenced

(* A region's placement changes only under a new generation: the one step  *)
(* that changes it is the commit of a move.                                *)
THEOREM MigPlacementFenced == MigSpec => PlacementFenced
<1>1. ASSUME MigInv, MigNext, NEW r \in RegionId PROVE Fenced(r)
  <2>0. MigTypeOK /\ regions \in [RegionId -> Region \cup {NoRegion}]
    BY <1>1 DEF MigInv, OneMover, MigTypeOK
  <2> USE <1>1, <2>0
  <2>1. ASSUME NEW t \in Thread, RecordRegion(t) PROVE Fenced(r)
    <3>1. next_region \in RegionId /\ regions[next_region] = NoRegion
      BY <2>1, MemoryConstants DEF RecordRegion, MigInv, MigTypeOK, RegionId
    <3>2. CASE r = next_region
      BY <3>1, <3>2, SMTT(30) DEF Fenced
    <3>3. CASE r # next_region
      BY <2>1, <3>3, SamePlacement, ZenonT(60) DEF RecordRegion
    <3> QED
      BY <3>2, <3>3, ZenonT(60)
  <2>2. ASSUME NEW t \in Thread, ClaimRegion(t) PROVE Fenced(r)
    <3>1. job[t].region \in RegionId /\ regions[job[t].region] \in Region
      BY <2>2, Movers, Table, SMTT(30) DEF ClaimRegion, Claimable, MovePart
    <3> QED
      BY <2>2, <3>1, SamePlacement, ZenonT(60) DEF ClaimRegion, Region, Lifecycle
  <2>3. ASSUME NEW t \in Thread, RetainOriginal(t) PROVE Fenced(r)
    <3>1. job[t].region \in RegionId /\ regions[job[t].region] \in Region
      BY <2>3, Movers DEF RetainOriginal, MovePart, Moving
    <3> QED
      BY <2>3, <3>1, SamePlacement DEF RetainOriginal, Region, Lifecycle
  <2>4. ASSUME NEW t \in Thread, CommitMove(t) PROVE Fenced(r)
    <3>1. job[t].region \in RegionId /\ regions[job[t].region] \in Region
      BY <2>4, Movers, ZenonT(60) DEF CommitMove, MovePart, Moving
    <3>2. CASE r = job[t].region
      <4>1. /\ regions[r].generation \in Nat
            /\ regions'[r].generation = regions[r].generation + 1
            /\ regions'[r].state = "Rebound"
        BY <2>4, <3>1, <3>2, ZenonT(60) DEF CommitMove, Region
      <4> QED
        BY <4>1, SMTT(30) DEF Fenced, NoRegion
    <3>3. CASE r # job[t].region
      BY <2>4, <3>3, SamePlacement DEF CommitMove
    <3> QED
      BY <3>2, <3>3, ZenonT(60)
  <2>5. ASSUME NEW t \in Thread, NEW s \in RegionId, NEW expected, Release(t, s, expected)
        PROVE  Fenced(r)
    <3>1. regions[s] \in Region
      BY <2>5 DEF Release, ReleaseAllowed
    <3>2. CASE UNCHANGED regions
      BY <3>2, SamePlacement
    <3>3. CASE regions' = [regions EXCEPT ![s].state = "Released", ![s].current = FALSE]
      BY <3>1, <3>3, SamePlacement, Zenon DEF Region, Lifecycle
    <3> QED
      BY <2>5, <3>2, <3>3 DEF Release
  <2>6. ASSUME NEW s \in RegionId, NEW to \in {"MigrationPending", "Active"}, Transition(s, to)
        PROVE  Fenced(r)
    <3>1. regions[s] \in Region
      BY <2>6 DEF Transition, CanTransition
    <3> QED
      BY <2>6, <3>1, SamePlacement DEF Transition, Region, Lifecycle
  <2>7. ASSUME NEW a \in AttemptId, Rollback(a) PROVE Fenced(r)
    <3>1. attempts[a] # NoAttempt
      BY <2>7 DEF Rollback, NoAttempt
    <3>2. attempts[a].region \in RegionId
      BY <3>1 DEF MigTypeOK, Attempt
    <3>3. CASE UNCHANGED regions
      BY <3>3, SamePlacement
    <3> QED
      BY <2>6, <2>7, <3>2, <3>3 DEF Rollback
  <2>8. ASSUME InvalidateLocality PROVE Fenced(r)
    <3>1. IsLive(r) => regions[r] \in Region
      BY DEF IsLive, NoRegion
    <3>2. regions'[r] = IF IsLive(r) THEN [regions[r] EXCEPT !.current = FALSE] ELSE regions[r]
      BY <2>8, ZenonT(60) DEF InvalidateLocality
    <3> QED
      BY <3>1, <3>2, SamePlacement, Zenon DEF Region
  <2>9. ASSUME NEW t \in Thread, NEW s \in RegionId, NEW target \in MemNode, Begin(t, s, target)
        PROVE  Fenced(r)
    BY <2>6, <2>9 DEF Begin
  <2>10. CASE UNCHANGED regions
    BY <2>10, SamePlacement
  <2> QED
    BY <2>1, <2>2, <2>3, <2>4, <2>5, <2>7, <2>8, <2>9, <2>10, ZenonT(60)
    DEF MigNext, Continue, Reallocate, FreeReleased, Execute, ExecuteRefused, Settle, ClaimThrows,
        ObtainTarget, TargetExhausted, VacateOld, CommitThrows, Allocate, BeginRefused, memVars
<1>2. MigInv /\ [MigNext]_migVars => [\A r \in RegionId : Fenced(r)]_migVars
  BY <1>1
<1> QED
  BY <1>2, MigAlways, PTL DEF MigSpec, PlacementFenced

-----------------------------------------------------------------------------
(* Why no buffer is freed twice if callers do not release a region that is *)
(* being moved: each buffer then has one owner at a time, a region or a    *)
(* thread, and only the owner gives it back.                               *)

Owning == {"Allocated", "Active", "MigrationPending", "Rebound"}

RegionOwns(r, b) == regions[r].state \in Owning /\ regions[r].buffer = b

(* The buffer of a region that is Migrating belongs to the thread that     *)
(* moves it.                                                               *)
ThreadOwns(t, b) ==
  \/ pc[t] \in {"record", "free"} /\ job[t].buffer = b
  \/ pc[t] \in {"obtain", "retain", "vacate"} /\ job[t].old = b
  \/ pc[t] \in {"vacate", "commit"} /\ job[t].new = b

Unowned(b) ==
  /\ \A r \in RegionId : ~RegionOwns(r, b)
  /\ \A t \in Thread : ~ThreadOwns(t, b)

Exclusive(b) ==
  /\ \A r \in RegionId :
       RegionOwns(r, b) => /\ \A s \in RegionId \ {r} : ~RegionOwns(s, b)
                           /\ \A t \in Thread : ~ThreadOwns(t, b)
  /\ \A t \in Thread :
       ThreadOwns(t, b) => \A u \in Thread \ {t} : ~ThreadOwns(u, b)
  /\ frees[b] = 0 \/ (frees[b] = 1 /\ Unowned(b))
  /\ b >= next_buffer => frees[b] = 0 /\ Unowned(b)

(* One owner per buffer; a mover's region stays Migrating, with the buffer *)
(* of the thread's snapshot, which is not the new one.                     *)
OwnInv ==
  /\ MigInv
  /\ \A r \in RegionId :
       regions[r].state \in {"Absent", "Allocated", "Active", "MigrationPending", "Migrating",
                             "Rebound", "Released", "Failed"}
  /\ \A t \in Thread : Moving(t) =>
       /\ regions[job[t].region].state = "Migrating"
       /\ pc[t] # "commit" => regions[job[t].region].buffer = job[t].old
       /\ pc[t] = "vacate" => job[t].new # job[t].old
  /\ \A b \in BufferId : Exclusive(b)

(* A region that keeps its buffer, and its owner. *)
Similar(s) ==
  \/ regions'[s] = regions[s]
  \/ /\ regions'[s].buffer = regions[s].buffer
     /\ \/ regions'[s].state = regions[s].state
        \/ regions'[s].state \in Owning /\ regions[s].state \in Owning

(* A thread that acquires no buffer and keeps what it knows of its region. *)
Calm(u) ==
  \/ pc'[u] = pc[u] /\ job'[u] = job[u]
  \/ pc'[u] \notin {"record", "free", "obtain", "retain", "vacate", "commit"}
  \/ pc[u] = "obtain" /\ pc'[u] = "retain" /\ job'[u] = job[u]

(* If nobody acquires a buffer, ownership stays exclusive. *)
LEMMA OwnersKept ==
  ASSUME NEW b \in BufferId, Exclusive(b), UNCHANGED <<frees, next_buffer>>,
         \A r \in RegionId : RegionOwns(r, b)' => RegionOwns(r, b),
         \A t \in Thread : ThreadOwns(t, b)' => ThreadOwns(t, b)
  PROVE  Exclusive(b)'
BY ZenonT(60) DEF Exclusive, Unowned

(* Steps in which no buffer changes hands. *)
LEMMA Quiet ==
  ASSUME OwnInv, MigInv', UNCHANGED <<frees, next_buffer>>,
         \A s \in RegionId : Similar(s), \A u \in Thread : Calm(u)
  PROVE  OwnInv'
<1>1. \A r \in RegionId :
        regions'[r].state \in {"Absent", "Allocated", "Active", "MigrationPending", "Migrating",
                               "Rebound", "Released", "Failed"}
  BY ZenonT(60) DEF OwnInv, Similar, Owning
<1>2. ASSUME NEW t \in Thread, Moving(t)'
      PROVE  /\ regions'[job'[t].region].state = "Migrating"
             /\ pc'[t] # "commit" => regions'[job'[t].region].buffer = job'[t].old
             /\ pc'[t] = "vacate" => job'[t].new # job'[t].old
  <2>1. Moving(t) /\ job'[t] = job[t] /\ (pc'[t] = pc[t] \/ (pc[t] = "obtain" /\ pc'[t] = "retain"))
    BY <1>2, Zenon DEF Calm, Moving
  <2>2. job[t].region \in RegionId
    BY <2>1, Movers, Zenon DEF OwnInv, Moving, MovePart
  <2> QED
    BY <2>1, <2>2 DEF OwnInv, Similar, Owning
<1>3. ASSUME NEW b \in BufferId PROVE Exclusive(b)'
  <2>1. \A r \in RegionId : RegionOwns(r, b)' => RegionOwns(r, b)
    BY Zenon DEF Similar, RegionOwns, Owning
  <2>2. \A t \in Thread : ThreadOwns(t, b)' => ThreadOwns(t, b)
    BY Zenon DEF Calm, ThreadOwns
  <2> QED
    BY <2>1, <2>2, OwnersKept, Zenon DEF OwnInv
<1> QED
  BY <1>1, <1>2, <1>3, ZenonT(60) DEF OwnInv

(* The steps of a thread that leave the regions alone and end in no part   *)
(* that owns a buffer.                                                     *)
LEMMA QuietThread ==
  ASSUME OwnInv, MigInv', NEW t \in Thread, Others(t),
         UNCHANGED <<regions, frees, next_buffer>>, Calm(t)
  PROVE  OwnInv'
BY Quiet, Zenon DEF Others, Calm, Similar

(* What OwnInv says of a thread that moves a region. *)
Holds(u) ==
  /\ regions[job[u].region].state = "Migrating"
  /\ pc[u] # "commit" => regions[job[u].region].buffer = job[u].old
  /\ pc[u] = "vacate" => job[u].new # job[u].old

LEMMA StillHolds ==
  ASSUME OwnInv, NEW u \in Thread, Moving(u), pc'[u] = pc[u], job'[u] = job[u],
         regions'[job[u].region] = regions[job[u].region]
  PROVE  Holds(u)'
<1>1. Holds(u)
  BY Zenon DEF OwnInv, Holds
<1> QED
  BY <1>1, Zenon DEF Holds

(* Steps in which a buffer changes hands. *)
LEMMA Handed ==
  ASSUME OwnInv, MigInv',
         \A r \in RegionId :
           regions'[r] = regions[r]
           \/ regions'[r].state \in {"Allocated", "Active", "Migrating", "Rebound",
                                     "Released", "Failed"},
         \A u \in Thread : Moving(u)' => Holds(u)',
         \A b \in BufferId : Exclusive(b)'
  PROVE  OwnInv'
<1>1. \A r \in RegionId :
        regions'[r].state \in {"Absent", "Allocated", "Active", "MigrationPending", "Migrating",
                               "Rebound", "Released", "Failed"}
  BY Zenon DEF OwnInv
<1> QED
  BY <1>1, Zenon DEF OwnInv, Holds

(* Every operation leaves each buffer with at most one owner. *)
LEMMA OwnInductive ==
  ASSUME Disciplined, OwnInv, [MigNext]_migVars
  PROVE  OwnInv'
<1>0. MigInv /\ MigInv' /\ MigTypeOK /\ ThreadsOK
  BY MigInductive, Zenon DEF OwnInv, MigInv, OneMover, MigTypeOK, ThreadsOK, Part
<1>1. ASSUME NEW t \in Thread, Execute(t) \/ TargetExhausted(t) PROVE OwnInv'
  <2>1. /\ Others(t) /\ Calm(t)
        /\ UNCHANGED <<regions, frees, next_buffer>>
    BY <1>0, <1>1, Went, Zenon DEF Execute, TargetExhausted, Calm, MovePart, backendVars
  <2> QED
    BY <1>0, <2>1, QuietThread, Zenon
<1>2. ASSUME NEW t \in Thread,
             ExecuteRefused(t) \/ Settle(t) \/ ClaimThrows(t) \/ CommitThrows(t)
      PROVE  OwnInv'
  <2>1. /\ Others(t) /\ Calm(t)
        /\ UNCHANGED <<regions, frees, next_buffer>>
    BY <1>0, <1>2, Returned, Zenon
    DEF ExecuteRefused, Settle, ClaimThrows, CommitThrows, Calm, backendVars
  <2> QED
    BY <1>0, <2>1, QuietThread, Zenon
<1>3. ASSUME NEW t \in Thread, NEW r \in RegionId, NEW target \in MemNode, Begin(t, r, target)
      PROVE  OwnInv'
  <2>1. regions[r] \in Region /\ regions[r].state = "Active"
    BY <1>0, <1>3, Table, Zenon DEF Begin, Transition, MigTypeOK
  <2>2. \A s \in RegionId : Similar(s)
    BY <1>0, <1>3, <2>1, Zenon DEF Begin, Transition, Similar, Owning, MigTypeOK, Region
  <2>3. \A u \in Thread : Calm(u)
    BY <1>0, <1>3, Zenon DEF Begin, Calm, ThreadsOK
  <2> QED
    BY <1>0, <1>3, <2>2, <2>3, Quiet, Zenon DEF Begin, backendVars
<1>4. ASSUME NEW t \in Thread, NEW r \in RegionId, BeginRefused(t, r) PROVE OwnInv'
  BY <1>0, <1>4, Quiet, Zenon DEF BeginRefused, memVars, backendVars, Similar, Calm
<1>5. ASSUME NEW a \in AttemptId, Rollback(a) PROVE OwnInv'
  <2> DEFINE r == attempts[a].region
  <2>1. r \in RegionId
    <3>1. attempts[a] # NoAttempt
      BY <1>5 DEF Rollback, NoAttempt
    <3> QED
      BY <1>0, <3>1, Zenon DEF MigTypeOK, Attempt
  <2>2. \A s \in RegionId : Similar(s)
    <3>1. CASE Transition(r, "Active")
      <4>1. regions[r] \in Region /\ regions[r].state \in Owning
        BY <1>0, <2>1, <3>1, Table, Zenon DEF Transition, MigTypeOK, Owning
      <4> QED
        BY <1>0, <2>1, <3>1, <4>1, Zenon DEF Transition, Similar, Owning, MigTypeOK, Region
    <3>2. CASE UNCHANGED regions
      BY <3>2, Zenon DEF Similar
    <3> QED
      BY <1>5, <3>1, <3>2, Zenon DEF Rollback
  <2> QED
    BY <1>0, <1>5, <2>2, Quiet, Zenon DEF Rollback, backendVars, Calm
<1>6. ASSUME InvalidateLocality PROVE OwnInv'
  <2>1. ASSUME NEW s \in RegionId PROVE Similar(s)
    <3>1. IsLive(s) => regions[s] \in Region
      BY <1>0 DEF IsLive, MigTypeOK, NoRegion
    <3>2. regions'[s] = IF IsLive(s) THEN [regions[s] EXCEPT !.current = FALSE] ELSE regions[s]
      BY <1>6, Zenon DEF InvalidateLocality
    <3> QED
      BY <3>1, <3>2, Zenon DEF Similar, Region
  <2> QED
    BY <1>0, <1>6, <2>1, Quiet, Zenon DEF InvalidateLocality, Calm
<1>7. CASE UNCHANGED migVars
  BY <1>0, <1>7, Quiet, Zenon DEF migVars, memVars, backendVars, Similar, Calm
<1>8. ASSUME NEW t \in Thread, NEW req \in Requests, Allocate(t, req) PROVE OwnInv'
  <2>1. Others(t) /\ pc[t] = "idle" /\ pc'[t] = "record" /\ UNCHANGED <<regions, frees>>
    BY <1>0, <1>8, Zenon DEF Allocate, TakeBuffer, backendVars, Others, ThreadsOK
  <2>2. \/ job'[t].buffer = NoBuffer /\ next_buffer' = next_buffer
        \/ job'[t].buffer = next_buffer /\ next_buffer' = next_buffer + 1
    BY <1>0, <1>8 DEF Allocate, TakeBuffer, backendVars, ThreadsOK
  <2>3. ASSUME NEW b \in BufferId PROVE Exclusive(b)'
    <3>1. \A r \in RegionId : RegionOwns(r, b)' <=> RegionOwns(r, b)
      BY <2>1, Zenon DEF RegionOwns, Owning
    <3>2. /\ \A u \in Thread \ {t} : ThreadOwns(u, b)' <=> ThreadOwns(u, b)
          /\ ~ThreadOwns(t, b)
          /\ ThreadOwns(t, b)' => b = next_buffer /\ next_buffer' = next_buffer + 1
      BY <2>1, <2>2 DEF ThreadOwns, Others, BufferId, NoBuffer
    <3>3. b \in Nat /\ next_buffer \in Nat
      BY <1>0 DEF MigTypeOK, BufferId
    <3>4. Exclusive(b)
      BY Zenon DEF OwnInv
    <3> QED
      BY <2>1, <2>2, <3>1, <3>2, <3>3, <3>4 DEF Exclusive, Unowned
  <2>4. ASSUME NEW u \in Thread, Moving(u)'
        PROVE  Moving(u) /\ pc'[u] = pc[u] /\ job'[u] = job[u]
    BY <2>1, <2>4, Zenon DEF Moving, Others
  <2> QED
    BY <1>0, <2>1, <2>3, <2>4, StillHolds, Handed, Zenon
<1>9. ASSUME NEW t \in Thread, RecordRegion(t) PROVE OwnInv'
  <2>1. /\ Others(t) /\ pc[t] = "record" /\ pc'[t] = "idle" /\ UNCHANGED <<frees, next_buffer>>
    BY <1>0, <1>9, Returned, Zenon DEF RecordRegion, backendVars
  <2>2. PICK n \in RegionId : n = next_region /\ regions[n] = NoRegion
    <3>1. next_region \in RegionId /\ next_region >= next_region
      <4>1. next_region \in 1 .. MaxRegion + 1 /\ next_region <= MaxRegion
        BY <1>0, <1>9, ZenonT(60) DEF RecordRegion, MigTypeOK
      <4>2. QED
        BY <4>1, MemoryConstants, SMTT(30) DEF RegionId
    <3> QED
      BY <1>0, <3>1, Zenon DEF MigInv
  <2>3. /\ \A s \in RegionId \ {n} : regions'[s] = regions[s]
        /\ regions'[n].buffer = job[t].buffer
        /\ regions'[n].state \in {"Failed", "Active", "Allocated"}
    BY <1>0, <1>9, <2>2, Zenon DEF RecordRegion, MigTypeOK
  <2>4. ASSUME NEW u \in Thread, Moving(u)'
        PROVE  /\ Moving(u) /\ pc'[u] = pc[u] /\ job'[u] = job[u]
               /\ regions'[job[u].region] = regions[job[u].region]
    <3>1. Moving(u) /\ pc'[u] = pc[u] /\ job'[u] = job[u]
      BY <2>1, <2>4, Zenon DEF Moving, Others
    <3>2. job[u].region \in RegionId /\ regions[job[u].region].state = "Migrating"
      BY <1>0, <3>1, Movers, Zenon DEF OwnInv, Moving, MovePart
    <3>3. job[u].region # n
      BY <2>2, <3>2 DEF NoRegion
    <3> QED
      BY <2>3, <3>1, <3>2, <3>3, Zenon
  <2>5. ASSUME NEW b \in BufferId PROVE Exclusive(b)'
    <3>1. /\ \A r \in RegionId \ {n} : RegionOwns(r, b)' <=> RegionOwns(r, b)
          /\ RegionOwns(n, b)' => ThreadOwns(t, b)
          /\ ~RegionOwns(n, b)
      BY <2>1, <2>2, <2>3 DEF RegionOwns, Owning, ThreadOwns, NoRegion
    <3>2. /\ \A u \in Thread \ {t} : ThreadOwns(u, b)' <=> ThreadOwns(u, b)
          /\ ~ThreadOwns(t, b)'
      BY <2>1, Zenon DEF ThreadOwns, Others
    <3>3. Exclusive(b)
      BY Zenon DEF OwnInv
    <3> QED
      BY <2>1, <2>2, <3>1, <3>2, <3>3, Zenon DEF Exclusive, Unowned
  <2> QED
    BY <1>0, <2>3, <2>4, <2>5, StillHolds, Handed, Zenon
<1>10. ASSUME NEW t \in Thread, FreeReleased(t) PROVE OwnInv'
  <2>1. /\ Others(t) /\ pc[t] = "free" /\ pc'[t] = "idle" /\ UNCHANGED <<regions, next_buffer>>
    BY <1>0, <1>10, Returned, Zenon DEF FreeReleased, GiveBack
  <2>2. ASSUME NEW b \in BufferId PROVE Exclusive(b)'
    <3>1. \A r \in RegionId : RegionOwns(r, b)' <=> RegionOwns(r, b)
      BY <2>1, Zenon DEF RegionOwns, Owning
    <3>2. /\ \A u \in Thread \ {t} : ThreadOwns(u, b)' <=> ThreadOwns(u, b)
          /\ ~ThreadOwns(t, b)'
          /\ ThreadOwns(t, b) <=> b = job[t].buffer
      BY <2>1, Zenon DEF ThreadOwns, Others
    <3>3. frees'[b] = frees[b] + IF b = job[t].buffer THEN 1 ELSE 0
      BY <1>10, Zenon DEF FreeReleased, GiveBack
    <3>4. Exclusive(b) /\ frees[b] \in Nat
      BY <1>0, Zenon DEF OwnInv, MigTypeOK
    <3>5. CASE b # job[t].buffer
      <4>1. frees'[b] = frees[b]
        BY <3>3, <3>4, <3>5, SMTT(30)
      <4> QED
        BY <2>1, <3>1, <3>2, <3>4, <3>5, <4>1, ZenonT(60) DEF Exclusive, Unowned
    <3>6. CASE b = job[t].buffer
      <4>1. ThreadOwns(t, b)
        BY <3>2, <3>6, ZenonT(60)
      <4>2. frees[b] = 0 /\ ~(b >= next_buffer)
        BY <3>4, <4>1, ZenonT(60) DEF Exclusive, Unowned
      <4>3. frees'[b] = 1
        BY <3>3, <3>6, <4>2, SMTT(30)
      <4>4. Unowned(b)'
        BY <3>1, <3>2, <3>4, <3>6, <4>1, ZenonT(60) DEF Exclusive, Unowned
      <4> QED
        BY <2>1, <4>2, <4>3, <4>4, ZenonT(60) DEF Exclusive, Unowned
    <3> QED
      BY <3>5, <3>6, ZenonT(60)
  <2>3. ASSUME NEW u \in Thread, Moving(u)'
        PROVE  Moving(u) /\ pc'[u] = pc[u] /\ job'[u] = job[u]
    BY <2>1, <2>3, Zenon DEF Moving, Others
  <2> QED
    BY <1>0, <2>1, <2>2, <2>3, StillHolds, Handed, Zenon
<1>11. ASSUME NEW t \in Thread, ClaimRegion(t) PROVE OwnInv'
  <2>1. PICK r \in RegionId :
        /\ pc[t] = "claim" /\ r = job[t].region
        /\ regions[r] \in Region /\ regions[r].state = "MigrationPending"
    BY <1>0, <1>11, Movers, Table, Zenon DEF ClaimRegion, Claimable, MigTypeOK, MovePart
  <2>2. /\ Others(t) /\ pc'[t] = "obtain"
        /\ job'[t].region = r /\ job'[t].old = regions[r].buffer
        /\ UNCHANGED <<frees, next_buffer>>
    BY <1>0, <1>11, <2>1, Movers, Zenon DEF ClaimRegion, ThreadsOK, Others, MovePart, backendVars
  <2>3. /\ \A s \in RegionId \ {r} : regions'[s] = regions[s]
        /\ regions'[r].state = "Migrating" /\ regions'[r].buffer = regions[r].buffer
    BY <1>0, <1>11, <2>1, Zenon DEF ClaimRegion, MigTypeOK, Region
  <2>4. ASSUME NEW u \in Thread \ {t}, Moving(u)'
        PROVE  /\ Moving(u) /\ pc'[u] = pc[u] /\ job'[u] = job[u]
               /\ regions'[job[u].region] = regions[job[u].region]
    <3>1. Moving(u) /\ pc'[u] = pc[u] /\ job'[u] = job[u]
      BY <2>2, <2>4, Zenon DEF Moving, Others
    <3>2. job[u].region \in RegionId /\ regions[job[u].region].state = "Migrating"
      BY <1>0, <3>1, Movers, Zenon DEF OwnInv, Moving, MovePart
    <3> QED
      BY <2>1, <2>3, <3>1, <3>2, Zenon
  <2>5. ASSUME NEW b \in BufferId PROVE Exclusive(b)'
    <3>1. /\ \A s \in RegionId \ {r} : RegionOwns(s, b)' <=> RegionOwns(s, b)
          /\ ~RegionOwns(r, b)'
      BY <2>3, Zenon DEF RegionOwns, Owning
    <3>2. /\ \A u \in Thread \ {t} : ThreadOwns(u, b)' <=> ThreadOwns(u, b)
          /\ ~ThreadOwns(t, b)
          /\ ThreadOwns(t, b)' => RegionOwns(r, b)
      BY <2>1, <2>2, Zenon DEF ThreadOwns, RegionOwns, Owning, Others
    <3>3. Exclusive(b)
      BY Zenon DEF OwnInv
    <3> QED
      BY <2>1, <2>2, <3>1, <3>2, <3>3, Zenon DEF Exclusive, Unowned
  <2>6. Holds(t)'
    BY <2>2, <2>3, Zenon DEF Holds
  <2> QED
    BY <1>0, <2>3, <2>4, <2>5, <2>6, StillHolds, Handed, Zenon
<1>12. ASSUME NEW t \in Thread, ObtainTarget(t) PROVE OwnInv'
  <2>1. /\ Others(t) /\ pc[t] = "obtain" /\ pc'[t] = "vacate"
        /\ job'[t].region = job[t].region /\ job'[t].old = job[t].old
        /\ job'[t].new = next_buffer /\ next_buffer' = next_buffer + 1
        /\ UNCHANGED <<regions, frees>>
    BY <1>0, <1>12, Movers, Zenon DEF ObtainTarget, TakeBuffer, ThreadsOK, Others, MovePart
  <2>2. next_buffer \in BufferId /\ Exclusive(next_buffer)
    BY <1>0, <1>12 DEF ObtainTarget, TakeBuffer, MigTypeOK, BufferId, OwnInv
  <2>3. job[t].old # next_buffer
    <3>1. Unowned(next_buffer)
      BY <2>2 DEF Exclusive, BufferId
    <3> QED
      BY <2>1, <3>1, Zenon DEF Unowned, ThreadOwns
  <2>4. ASSUME NEW b \in BufferId PROVE Exclusive(b)'
    <3>1. \A r \in RegionId : RegionOwns(r, b)' <=> RegionOwns(r, b)
      BY <2>1, Zenon DEF RegionOwns, Owning
    <3>2. /\ \A u \in Thread \ {t} : ThreadOwns(u, b)' <=> ThreadOwns(u, b)
          /\ ThreadOwns(t, b)' => ThreadOwns(t, b) \/ b = next_buffer
      BY <2>1, Zenon DEF ThreadOwns, Others
    <3>3. b \in Nat /\ next_buffer \in Nat /\ Exclusive(b)
      BY <1>0 DEF MigTypeOK, BufferId, OwnInv
    <3> QED
      BY <2>1, <3>1, <3>2, <3>3 DEF Exclusive, Unowned
  <2>5. Holds(t)'
    BY <2>1, <2>3, Zenon DEF OwnInv, Holds, Moving
  <2>6. ASSUME NEW u \in Thread \ {t}, Moving(u)'
        PROVE  Moving(u) /\ pc'[u] = pc[u] /\ job'[u] = job[u]
    BY <2>1, <2>6, Zenon DEF Moving, Others
  <2> QED
    BY <1>0, <2>1, <2>4, <2>5, <2>6, StillHolds, Handed, Zenon
<1>13. ASSUME NEW t \in Thread, RetainOriginal(t) PROVE OwnInv'
  <2>1. PICK r \in RegionId :
        /\ pc[t] = "retain" /\ r = job[t].region
        /\ regions[r] \in Region /\ regions[r].state = "Migrating"
        /\ regions[r].buffer = job[t].old
    BY <1>0, <1>13, Movers, Zenon DEF RetainOriginal, OwnInv, Moving, MovePart
  <2>2. Others(t) /\ pc'[t] = "settle" /\ UNCHANGED <<frees, next_buffer>>
    BY <1>0, <1>13, Went, Zenon DEF RetainOriginal, MovePart, backendVars
  <2>3. /\ \A s \in RegionId \ {r} : regions'[s] = regions[s]
        /\ regions'[r].state = "Active" /\ regions'[r].buffer = job[t].old
    BY <1>0, <1>13, <2>1, Zenon DEF RetainOriginal, MigTypeOK, Region
  <2>4. ASSUME NEW u \in Thread, Moving(u)'
        PROVE  /\ Moving(u) /\ pc'[u] = pc[u] /\ job'[u] = job[u]
               /\ regions'[job[u].region] = regions[job[u].region]
    <3>1. u # t /\ Moving(u) /\ pc'[u] = pc[u] /\ job'[u] = job[u]
      BY <2>2, <2>4, Zenon DEF Moving, Others
    <3>2. job[u].region \in RegionId \ {r}
      BY <1>0, <2>1, <3>1, Movers, ZenonT(60) DEF MigInv, OneMover, Moving, MovePart
    <3> QED
      BY <2>3, <3>1, <3>2, Zenon
  <2>5. ASSUME NEW b \in BufferId PROVE Exclusive(b)'
    <3>1. /\ \A s \in RegionId \ {r} : RegionOwns(s, b)' <=> RegionOwns(s, b)
          /\ RegionOwns(r, b)' => ThreadOwns(t, b)
      BY <2>1, <2>3, Zenon DEF RegionOwns, Owning, ThreadOwns
    <3>2. /\ \A u \in Thread \ {t} : ThreadOwns(u, b)' <=> ThreadOwns(u, b)
          /\ ~ThreadOwns(t, b)'
      BY <2>2, Zenon DEF ThreadOwns, Others
    <3>3. Exclusive(b)
      BY Zenon DEF OwnInv
    <3> QED
      BY <2>2, <3>1, <3>2, <3>3, Zenon DEF Exclusive, Unowned
  <2> QED
    BY <1>0, <2>3, <2>4, <2>5, StillHolds, Handed, Zenon
<1>14. ASSUME NEW t \in Thread, VacateOld(t) PROVE OwnInv'
  <2>1. /\ Others(t) /\ pc[t] = "vacate" /\ pc'[t] = "commit" /\ job'[t] = job[t]
        /\ UNCHANGED <<regions, next_buffer>>
    BY <1>0, <1>14, Went, Zenon DEF VacateOld, GiveBack, MovePart
  <2>2. job[t].new # job[t].old
    BY <2>1, Zenon DEF OwnInv, Moving
  <2>3. ASSUME NEW b \in BufferId PROVE Exclusive(b)'
    <3>1. \A r \in RegionId : RegionOwns(r, b)' <=> RegionOwns(r, b)
      BY <2>1, Zenon DEF RegionOwns, Owning
    <3>2. /\ \A u \in Thread \ {t} : ThreadOwns(u, b)' <=> ThreadOwns(u, b)
          /\ ThreadOwns(t, b)' <=> b = job[t].new
          /\ ThreadOwns(t, b) <=> b \in {job[t].old, job[t].new}
      BY <2>1, Zenon DEF ThreadOwns, Others
    <3>3. frees'[b] = frees[b] + IF b = job[t].old THEN 1 ELSE 0
      BY <1>14, Zenon DEF VacateOld, GiveBack
    <3>4. Exclusive(b) /\ frees[b] \in Nat
      BY <1>0, Zenon DEF OwnInv, MigTypeOK
    <3>5. CASE b # job[t].old
      <4>1. frees'[b] = frees[b]
        BY <3>3, <3>4, <3>5, SMTT(30)
      <4> QED
        BY <2>1, <2>2, <3>1, <3>2, <3>4, <3>5, <4>1, ZenonT(60) DEF Exclusive, Unowned
    <3>6. CASE b = job[t].old
      <4>1. ThreadOwns(t, b)
        BY <3>2, <3>6, ZenonT(60)
      <4>2. frees[b] = 0 /\ ~(b >= next_buffer)
        BY <3>4, <4>1, ZenonT(60) DEF Exclusive, Unowned
      <4>3. frees'[b] = 1
        BY <3>3, <3>6, <4>2, SMTT(30)
      <4>4. Unowned(b)'
        BY <2>2, <3>1, <3>2, <3>4, <3>6, <4>1, ZenonT(60) DEF Exclusive, Unowned
      <4> QED
        BY <2>1, <4>2, <4>3, <4>4, ZenonT(60) DEF Exclusive, Unowned
    <3> QED
      BY <3>5, <3>6, ZenonT(60)
  <2>4. Holds(t)'
    BY <2>1, Zenon DEF OwnInv, Holds, Moving
  <2>5. ASSUME NEW u \in Thread \ {t}, Moving(u)'
        PROVE  Moving(u) /\ pc'[u] = pc[u] /\ job'[u] = job[u]
    BY <2>1, <2>5, Zenon DEF Moving, Others
  <2> QED
    BY <1>0, <2>1, <2>3, <2>4, <2>5, StillHolds, Handed, Zenon
<1>15. ASSUME NEW t \in Thread, CommitMove(t) PROVE OwnInv'
  <2>1. PICK r \in RegionId : pc[t] = "commit" /\ r = job[t].region /\ regions[r] \in Region
    BY <1>0, <1>15, Movers, Zenon DEF CommitMove, Moving, MovePart
  <2>2. Others(t) /\ pc'[t] = "settle" /\ UNCHANGED <<frees, next_buffer>>
    BY <1>0, <1>15, Zenon DEF CommitMove, ThreadsOK, Others, backendVars
  <2>3. /\ \A s \in RegionId \ {r} : regions'[s] = regions[s]
        /\ regions'[r].state = "Rebound" /\ regions'[r].buffer = job[t].new
    BY <1>0, <1>15, <2>1, Zenon DEF CommitMove, MigTypeOK
  <2>4. ASSUME NEW u \in Thread, Moving(u)'
        PROVE  /\ Moving(u) /\ pc'[u] = pc[u] /\ job'[u] = job[u]
               /\ regions'[job[u].region] = regions[job[u].region]
    <3>1. u # t /\ Moving(u) /\ pc'[u] = pc[u] /\ job'[u] = job[u]
      BY <2>2, <2>4, Zenon DEF Moving, Others
    <3>2. job[u].region \in RegionId \ {r}
      BY <1>0, <2>1, <3>1, Movers DEF MigInv, OneMover, Moving, MovePart
    <3> QED
      BY <2>3, <3>1, <3>2, ZenonT(60)
  <2>5. ASSUME NEW b \in BufferId PROVE Exclusive(b)'
    <3>1. /\ \A s \in RegionId \ {r} : RegionOwns(s, b)' <=> RegionOwns(s, b)
          /\ RegionOwns(r, b)' => ThreadOwns(t, b)
      BY <2>1, <2>3, Zenon DEF RegionOwns, Owning, ThreadOwns
    <3>2. /\ \A u \in Thread \ {t} : ThreadOwns(u, b)' <=> ThreadOwns(u, b)
          /\ ~ThreadOwns(t, b)'
      BY <2>2, Zenon DEF ThreadOwns, Others
    <3>3. Exclusive(b)
      BY Zenon DEF OwnInv
    <3> QED
      BY <2>2, <3>1, <3>2, <3>3, Zenon DEF Exclusive, Unowned
  <2> QED
    BY <1>0, <2>3, <2>4, <2>5, StillHolds, Handed, Zenon
<1>16. ASSUME NEW t \in Thread, NEW r \in RegionId, NEW expected,
              MayRelease(r), Release(t, r, expected)
       PROVE  OwnInv'
  <2>1. regions[r] \in Region /\ regions[r].state \in Owning
    <3>1. /\ regions[r] \in Region
          /\ regions[r].state \notin {"Absent", "Migrating", "Released", "Failed"}
      BY <1>0, <1>16, Zenon
      DEF Release, ReleaseAllowed, IsReleased, MayRelease, MigTypeOK, Region, Lifecycle
    <3> QED
      BY <3>1, Zenon DEF OwnInv, Owning
  <2>2. UNCHANGED <<frees, next_buffer>> /\ pc[t] = "idle"
    BY <1>16, Zenon DEF Release, backendVars
  <2>3. CASE UNCHANGED <<regions, pc, job>>
    BY <1>0, <2>2, <2>3, Quiet, Zenon DEF Similar, Calm
  <2>4. CASE /\ regions' = [regions EXCEPT ![r].state = "Released", ![r].current = FALSE]
             /\ pc' = [pc EXCEPT ![t] = "free"]
             /\ job' = [job EXCEPT ![t] = [op |-> "release", buffer |-> regions[r].buffer]]
    <3>1. Others(t) /\ pc'[t] = "free" /\ job'[t].buffer = regions[r].buffer
      BY <1>0, <2>4, Zenon DEF ThreadsOK, Others
    <3>2. /\ \A s \in RegionId \ {r} : regions'[s] = regions[s]
          /\ regions'[r].state = "Released"
      BY <1>0, <2>1, <2>4, Zenon DEF MigTypeOK, Region
    <3>3. ASSUME NEW u \in Thread, Moving(u)'
          PROVE  /\ Moving(u) /\ pc'[u] = pc[u] /\ job'[u] = job[u]
                 /\ regions'[job[u].region] = regions[job[u].region]
      <4>1. Moving(u) /\ pc'[u] = pc[u] /\ job'[u] = job[u]
        BY <3>1, <3>3, Zenon DEF Moving, Others
      <4>2. job[u].region \in RegionId /\ regions[job[u].region].state = "Migrating"
        BY <1>0, <4>1, Movers, Zenon DEF OwnInv, Moving, MovePart
      <4> QED
        BY <2>1, <3>2, <4>1, <4>2, Zenon DEF Owning
    <3>4. ASSUME NEW b \in BufferId PROVE Exclusive(b)'
      <4>1. /\ \A s \in RegionId \ {r} : RegionOwns(s, b)' <=> RegionOwns(s, b)
            /\ ~RegionOwns(r, b)'
        BY <3>2, Zenon DEF RegionOwns, Owning
      <4>2. /\ \A u \in Thread \ {t} : ThreadOwns(u, b)' <=> ThreadOwns(u, b)
            /\ ~ThreadOwns(t, b)
            /\ ThreadOwns(t, b)' => RegionOwns(r, b)
        BY <2>1, <2>2, <3>1, Zenon DEF ThreadOwns, RegionOwns, Others, Owning
      <4>3. Exclusive(b)
        BY Zenon DEF OwnInv
      <4> QED
        BY <2>2, <4>1, <4>2, <4>3, Zenon DEF Exclusive, Unowned
    <3> QED
      BY <1>0, <3>2, <3>3, <3>4, StillHolds, Handed, Zenon
  <2> QED
    BY <1>16, <2>3, <2>4, Zenon DEF Release
<1> QED
  BY ZenonT(60), <1>1, <1>2, <1>3, <1>4, <1>5, <1>6, <1>7, <1>8, <1>9, <1>10, <1>11, <1>12, <1>13, <1>14,
     <1>15, <1>16
  DEF MigNext, Continue, Reallocate

(* At the start no buffer is handed out. *)
LEMMA OwnInitial == MigInit => OwnInv
<1> SUFFICES ASSUME MigInit PROVE OwnInv
  BY Zenon
<1>1. MigInv
  BY MigInitial, Zenon
<1>2. \A t \in Thread : pc[t] = "idle"
  BY Zenon DEF MigInit, MemInit
<1>3. \A r \in RegionId : regions[r].state = "Absent"
  BY Zenon DEF MigInit, MemInit, NoRegion
<1>4. \A b \in BufferId : frees[b] = 0
  BY Zenon DEF MigInit, MemInit
<1> QED
  BY <1>1, <1>2, <1>3, <1>4
  DEF OwnInv, Exclusive, Unowned, RegionOwns, Owning, ThreadOwns, Moving

(* If callers do not release a region while it is Migrating, no buffer is  *)
(* freed twice, however many threads allocate, release, migrate, roll back *)
(* and invalidate.                                                         *)
THEOREM MigNoDoubleFree ==
  ASSUME Disciplined
  PROVE  MigSpec => []NoDoubleFree
<1>1. OwnInv /\ [MigNext]_migVars => OwnInv'
  BY OwnInductive, Zenon
<1>2. OwnInv => NoDoubleFree
  BY DEF OwnInv, Exclusive, NoDoubleFree
<1> QED
  BY <1>1, <1>2, OwnInitial, PTL DEF MigSpec
=============================================================================
