------------------------------ MODULE Migration ------------------------------
(***************************************************************************)
(* The migration manager (migration/migration.hpp) over the memory         *)
(* manager, as Runtime::migrate drives it: begin, execute, and the outcome *)
(* read back.  rollback may be called for any attempt at any time.  The    *)
(* manager's own mutex covers begin, rollback and the two ends of execute, *)
(* not the reallocation between them.                                      *)
(***************************************************************************)
EXTENDS MemoryManager

CONSTANTS
  MemOps,      \* what the threads do besides allocating
  Disciplined, \* do callers keep from releasing a region that is Migrating?
  MaxAttempt   \* bound: the last attempt id

ASSUME MigrationConstants ==
  /\ MemOps \subseteq {"release", "migrate", "rollback", "invalidate"}
  /\ Disciplined \in BOOLEAN
  /\ MaxAttempt \in Nat

VARIABLES
  attempts,     \* attempts_
  next_attempt  \* next_attempt_

migrationVars == <<attempts, next_attempt>>
migVars == <<memVars, migrationVars>>

AttemptId == 1 .. MaxAttempt

Attempt ==
  [region: RegionId, target: MemNode, active: BOOLEAN, committed: BOOLEAN,
   lifecycle: {"MigrationPending", "Migrating", "Rebound", "Failed", "Active"}]

NoAttempt == [active |-> FALSE, committed |-> FALSE, lifecycle |-> "Absent"]

MigInit ==
  /\ MemInit
  /\ attempts = [a \in AttemptId |-> NoAttempt]
  /\ next_attempt = 1

-----------------------------------------------------------------------------
(* begin: the attempt is recorded and the region asked to go to            *)
(* MIGRATION_PENDING; if it may not, the attempt is erased and its id lost.*)
Begin(t, r, target) ==
  /\ pc[t] = "idle"
  /\ next_attempt <= MaxAttempt
  /\ Transition(r, "MigrationPending")
  /\ attempts' = [attempts EXCEPT ![next_attempt] =
       [region |-> r, target |-> target, active |-> TRUE, committed |-> FALSE,
        lifecycle |-> "MigrationPending"]]
  /\ next_attempt' = next_attempt + 1
  /\ job' = [job EXCEPT ![t] =
       [op |-> "migrate", attempt |-> next_attempt, region |-> r, target |-> target,
        old |-> NoBuffer, new |-> NoBuffer, home |-> NoNode, committed |-> FALSE]]
  /\ pc' = [pc EXCEPT ![t] = "execute"]
  /\ UNCHANGED <<node_usage, next_region, mem_watermark, backendVars>>

BeginRefused(t, r) ==
  /\ pc[t] = "idle"
  /\ next_attempt <= MaxAttempt
  /\ ~CanTransition(r, "MigrationPending")
  /\ next_attempt' = next_attempt + 1
  /\ UNCHANGED <<memVars, attempts>>

(* execute, first section: the attempt must be active and not committed. *)
Execute(t) ==
  LET a == job[t].attempt IN
  /\ pc[t] = "execute"
  /\ attempts[a].active /\ ~attempts[a].committed
  /\ attempts' = [attempts EXCEPT ![a].lifecycle = "Migrating"]
  /\ Goto(t, "claim")
  /\ UNCHANGED <<regions, node_usage, next_region, mem_watermark, backendVars,
                 next_attempt>>

ExecuteRefused(t) ==
  LET a == job[t].attempt IN
  /\ pc[t] = "execute"
  /\ ~attempts[a].active \/ attempts[a].committed
  /\ Return(t)
  /\ UNCHANGED <<regions, node_usage, next_region, mem_watermark, backendVars,
                 migrationVars>>

(* execute, last section: the outcome is recorded. *)
Settle(t) ==
  LET j == job[t] IN
  /\ pc[t] = "settle"
  /\ attempts' = [attempts EXCEPT ![j.attempt].lifecycle =
                                    IF j.committed THEN "Rebound" ELSE "Failed",
                                  ![j.attempt].committed = j.committed,
                                  ![j.attempt].active = FALSE]
  /\ Return(t)
  /\ UNCHANGED <<regions, node_usage, next_region, mem_watermark, backendVars,
                 next_attempt>>

(* rollback: a region that may not go back to Active is left as it is. *)
Rollback(a) ==
  /\ attempts[a].active /\ ~attempts[a].committed
  /\ \/ Transition(attempts[a].region, "Active")
     \/ ~CanTransition(attempts[a].region, "Active") /\ UNCHANGED regions
  /\ attempts' = [attempts EXCEPT ![a].lifecycle = "Active", ![a].active = FALSE]
  /\ UNCHANGED <<node_usage, next_region, mem_watermark, backendVars, pc, job,
                 next_attempt>>

-----------------------------------------------------------------------------
(* The parts of governed_reallocate leave the attempts alone. *)
Reallocate(t) ==
  /\ \/ ClaimRegion(t) \/ ClaimThrows(t) \/ ObtainTarget(t) \/ TargetExhausted(t)
     \/ RetainOriginal(t) \/ VacateOld(t) \/ CommitMove(t) \/ CommitThrows(t)
  /\ UNCHANGED migrationVars

(* What a thread inside an operation does next. *)
Continue(t) ==
  \/ (RecordRegion(t) \/ FreeReleased(t)) /\ UNCHANGED migrationVars
  \/ Execute(t) \/ ExecuteRefused(t) \/ Settle(t)
  \/ Reallocate(t)

OptionalGeneration == {{}} \cup {{g} : g \in 1 .. mem_watermark + 1}

MayRelease(r) == Disciplined => regions[r].state # "Migrating"

MigNext ==
  \/ \E t \in Thread :
       \/ Continue(t)
       \/ \E req \in Requests : Allocate(t, req) /\ UNCHANGED migrationVars
       \/ /\ "release" \in MemOps
          /\ \E r \in RegionId, expected \in OptionalGeneration :
               MayRelease(r) /\ Release(t, r, expected) /\ UNCHANGED migrationVars
       \/ /\ "migrate" \in MemOps
          /\ \E r \in RegionId :
               BeginRefused(t, r) \/ \E target \in MemNode : Begin(t, r, target)
  \/ "rollback" \in MemOps /\ \E a \in AttemptId : Rollback(a)
  \/ "invalidate" \in MemOps /\ InvalidateLocality /\ UNCHANGED migrationVars

MigSpec == MigInit /\ [][MigNext]_migVars

(* A thread inside an operation goes on with it. *)
FairMigSpec == MigSpec /\ \A t \in Thread : WF_migVars(Continue(t))

-----------------------------------------------------------------------------
Moving(t) == pc[t] \in {"obtain", "retain", "vacate", "commit"}

(* The parts of a migration. *)
MovePart == {"execute", "claim", "obtain", "retain", "vacate", "commit", "settle"}

(* The locals of an operation whose next part is part. *)
JobOK(part, j) ==
  /\ part = "idle" => j = Idle
  /\ part = "record" =>
       j \in [op: {"allocate"}, req: Requests, node: MemNode \cup {NoNode},
              buffer: BufferId \cup {NoBuffer}]
  /\ part = "free" => j \in [op: {"release"}, buffer: BufferId \cup {NoBuffer}]
  /\ part \in MovePart =>
       j \in [op: {"migrate"}, attempt: AttemptId, region: RegionId,
              target: MemNode, old: BufferId \cup {NoBuffer},
              new: BufferId \cup {NoBuffer}, home: MemNode \cup {NoNode},
              committed: BOOLEAN]

(* The manager's variables hold what their C++ types allow, and a thread's *)
(* locals are those of the operation it is in.                             *)
MigTypeOK ==
  /\ regions \in [RegionId -> Region \cup {NoRegion}]
  /\ DOMAIN node_usage \subseteq MemNode
  /\ \A n \in DOMAIN node_usage : node_usage[n] \in Nat
  /\ next_region \in 1 .. MaxRegion + 1
  /\ mem_watermark \in Nat
  /\ next_buffer \in 1 .. MaxBuffer + 1
  /\ frees \in [BufferId -> Nat]
  /\ outdated \subseteq BufferId
  /\ pc \in [Thread -> {"idle", "record", "free"} \cup MovePart]
  /\ DOMAIN job = Thread /\ \A t \in Thread : JobOK(pc[t], job[t])
  /\ attempts \in [AttemptId -> Attempt \cup {NoAttempt}]
  /\ next_attempt \in 1 .. MaxAttempt + 1

(* Whatever is released, rolled back or begun meanwhile, at most one       *)
(* thread is reallocating a region, and the region cannot be claimed by    *)
(* another until that thread is done with it.                              *)
OneMover ==
  /\ MigTypeOK
  /\ \A t \in Thread : Moving(t) =>
       /\ regions[job[t].region].state \in {"Migrating", "Released"}
       /\ \A u \in Thread \ {t} : Moving(u) => job[u].region # job[t].region

Fenced(r) ==
  regions[r] # NoRegion =>
    /\ regions'[r] # NoRegion
    /\ regions'[r].generation >= regions[r].generation
    /\ regions'[r].buffer # regions[r].buffer \/ regions'[r].node # regions[r].node =>
         regions'[r].generation > regions[r].generation

(* A region's placement changes only together with its generation, which   *)
(* never moves back: a release that names the generation of before a       *)
(* migration cannot free the buffer of after it.                           *)
PlacementFenced == [][\A r \in RegionId : Fenced(r)]_migVars

(* "A failed migration never destroys the last valid authoritative copy":  *)
(* a live region's buffer has not been freed, except in the moment before  *)
(* a commit that already holds the buffer to replace it; and live regions  *)
(* share no buffer.                                                        *)
LastCopyKept ==
  \A r \in RegionId : IsLive(r) =>
    /\ \/ regions[r].buffer # NoBuffer /\ frees[regions[r].buffer] = 0
       \/ \E t \in Thread : /\ pc[t] = "commit" /\ job[t].region = r
                            /\ job[t].new # NoBuffer /\ frees[job[t].new] = 0
                            /\ ~Underflows(node_usage, job[t].home, regions[r].bytes)
    /\ \A s \in RegionId \ {r} : IsLive(s) => regions[s].buffer # regions[r].buffer

(* "double free ... rejected by construction" (README): no buffer is given *)
(* back to the backend twice.                                              *)
NoDoubleFree == \A b \in BufferId : frees[b] <= 1

(* No leak either: every buffer handed out is held by a live region, was   *)
(* freed, or is in the hands of a thread that is about to do one of them.  *)
BuffersOwned ==
  \A b \in 1 .. next_buffer - 1 :
    \/ frees[b] > 0
    \/ \E r \in RegionId : IsLive(r) /\ regions[r].buffer = b
    \/ \E t \in Thread : \/ pc[t] \in {"record", "free"} /\ job[t].buffer = b
                         \/ pc[t] \in {"vacate", "commit"} /\ job[t].new = b

(* No region is left Migrating for good. *)
MoveEnds ==
  \A r \in RegionId :
    regions[r].state \in {"MigrationPending", "Migrating"}
      ~> regions[r].state \notin {"MigrationPending", "Migrating"}

(* "Cancel / rollback a pending migration, restoring the original          *)
(* authority" (migration.hpp): an attempt that was rolled back does not    *)
(* commit afterwards.                                                      *)
RollbackHonoured ==
  [][\A a \in AttemptId : attempts[a].lifecycle = "Active" =>
       ~attempts'[a].committed]_migVars

(* "Stale decisions can never become current without revalidation"         *)
(* (memory_manager.hpp): the locality a region calls current was obtained  *)
(* after the last invalidation.                                            *)
CurrentIsFresh ==
  \A r \in RegionId : IsLive(r) /\ regions[r].current =>
    regions[r].buffer \notin outdated
=============================================================================
