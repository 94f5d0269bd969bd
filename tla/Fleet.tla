-------------------------------- MODULE Fleet --------------------------------
(***************************************************************************)
(* Worker programs (apps/worker/main.cpp over worker.cpp) against the      *)
(* coordinator, and nf-proof (apps/proof/main.cpp), which starts and kills *)
(* them.                                                                   *)
(*                                                                         *)
(* A process has one connection, and one request under way on it at a      *)
(* time: it sends when the connection's thread is in recv and its next     *)
(* step comes with the reply.  Fleets run either by themselves, processes  *)
(* starting, dying and epochs advancing at any moment, or under nf-proof,  *)
(* which then decides all three.                                           *)
(***************************************************************************)
EXTENDS Coordinator

CONSTANTS
  Process,    \* worker processes, each the peer of the connection of its name
  Id,         \* the --id of each
  Fleets,     \* fleets that run by themselves: a command line per process
  Footprint,  \* --footprint
  Cpus, Free, \* the topology the placement engine sees
  A, B, A2,   \* nf-proof's workers; A2 is A's successor
  S1, S2, S3  \* nf-proof's own sessions

ASSUME FleetConstants ==
  /\ Process \subseteq ConnId \ Controller
  /\ Id \in [Process -> WorkerId]
  /\ \A f \in Fleets : \A p \in DOMAIN f :
       p \in Process /\ f[p].iterations \in Nat \ {0} /\ {f[p].hold, f[p].release} \subseteq BOOLEAN
  /\ {A, B, A2} \subseteq Process
  /\ Id[A] = Id[A2] /\ Id[A] # Id[B]
  /\ {S1, S2, S3} \subseteq ConnId \ (Process \cup Controller)

VARIABLES
  options,  \* the command line of each process there is
  at,       \* the next step of its main
  iter,     \* its loop counter
  boot,     \* reg.boot
  place,    \* place.node
  rid,      \* rr.first
  outcome,  \* how it ended: its exit code, or "killed"
  planned,  \* next_id_ when its placement was planned (history)
  claimed,  \* the reservations admitted for it (history)
  root,     \* the next step of nf-proof; "free" if there is none
  verdict   \* the reply to each of nf-proof's sessions

programVars == <<options, at, iter, boot, place, rid, outcome, planned, claimed>>
proofVars == <<root, verdict>>
fleetVars == <<coordVars, programVars, proofVars>>

ByItself == root = "free"

(* Runtime::plan for what a worker asks: its footprint, anywhere.  No      *)
(* distance matters to it.                                                 *)
Engine == INSTANCE PlacementEngine
            WITH planned <- 0, Homes <- <<>>, Requests <- {}, Synthetic <- TRUE

Anywhere ==
  [footprint |-> Footprint, preferred |-> 0, required |-> {}, accel |-> NoAccelerator,
   accel_local |-> FALSE, cpus |-> 0, fallback |-> TRUE, owner |-> 0, io |-> 0,
   current |-> 0, bound |-> FALSE, revalidation |-> FALSE]

Chosen ==
  LET n == Engine!Plan(Anywhere).node IN IF n = Engine!Nowhere THEN NoNode ELSE n

(* What nf-proof's worker_cmd says. *)
ProofOptions == [iterations |-> 1, hold |-> TRUE, release |-> TRUE]

FleetInit ==
  /\ CoordInit
  /\ \/ root = "free" /\ options \in Fleets
     \/ root = "spawn_a" /\ options = [p \in Process |-> ProofOptions]
  /\ at = [p \in Process |-> "none"]
  /\ iter = [p \in Process |-> 0]
  /\ boot = [p \in Process |-> 0]
  /\ place = [p \in Process |-> NoNode]
  /\ rid = [p \in Process |-> 0]
  /\ outcome = [p \in Process |-> "none"]
  /\ planned = [p \in Process |-> 0]
  /\ claimed = [p \in Process |-> {}]
  /\ verdict = [s \in {S1, S2, S3} |-> "none"]

-----------------------------------------------------------------------------
Step(p, step) == at' = [at EXCEPT ![p] = step]

Exit(p, code) ==
  /\ Step(p, "over")
  /\ outcome' = [outcome EXCEPT ![p] = code]

(* connect *)
Start(p) ==
  /\ at[p] = "none"
  /\ Accept(p)
  /\ Step(p, "register")
  /\ UNCHANGED <<options, iter, boot, place, rid, outcome, planned, claimed>>

(* send_register, send_placement, send_reserve, send_release. *)
Ask(p) ==
  IF place[p] = NoNode THEN NoNode
  ELSE [node |-> place[p], bytes |-> Footprint, slots |-> 2,
        accel |-> NoAccelerator, accel_capacity |-> FALSE]

Send(p) ==
  /\ \/ at[p] = "register" /\ Receive(p, "register", Id[p], 0, 0, NoNode)
     \/ at[p] = "place" /\ Receive(p, "place", Id[p], boot[p], told[p], NoNode)
     \/ at[p] = "reserve" /\ Receive(p, "reserve", Id[p], boot[p], told[p], Ask(p))
     \/ at[p] = "release" /\ Receive(p, "release", Id[p], boot[p], told[p], rid[p])
  /\ UNCHANGED programVars

(* The loop's next round. *)
NextRound(p) ==
  /\ iter' = [iter EXCEPT ![p] = @ + 1]
  /\ Step(p, IF iter[p] + 1 < options[p].iterations THEN "place" ELSE "done")

(* The reply to a Register.  An Error frame is read as if it were an ack,  *)
(* whose payload is longer, and WireReader throws: exit 5.  send_discover, *)
(* whose answer is only noted, follows and is part of the step.            *)
OnRegister(p) ==
  /\ at[p] = "register"
  /\ IF pc[p] = "record"
     THEN boot' = [boot EXCEPT ![p] = local[p]] /\ Step(p, "place") /\ UNCHANGED outcome
     ELSE Step(p, "failed") /\ outcome' = [outcome EXCEPT ![p] = "exit5"] /\ UNCHANGED boot
  /\ UNCHANGED <<options, iter, place, rid, planned>>

(* An Error ends the program; a decision, Defer and Reject included, gives *)
(* the node to reserve on.                                                 *)
Accepted(c) == pc[c] = "boot" /\ workers[frame[c].worker].boot = frame[c].boot

(* Faulty variant: a deferral ends the program, too. *)
OnPlacementDeferred(p) ==
  /\ at[p] = "place"
  /\ IF Accepted(p) /\ Chosen # NoNode
     THEN /\ place' = [place EXCEPT ![p] = Chosen]
          /\ planned' = [planned EXCEPT ![p] = next_id]
          /\ Step(p, "reserve")
          /\ UNCHANGED outcome
     ELSE /\ Step(p, "failed")
          /\ outcome' = [outcome EXCEPT ![p] = "exit4"]
          /\ UNCHANGED <<place, planned>>
  /\ UNCHANGED <<options, iter, boot, rid>>

OnPlacement(p) ==
  /\ at[p] = "place"
  /\ IF Accepted(p)
     THEN /\ place' = [place EXCEPT ![p] = Chosen]
          /\ planned' = [planned EXCEPT ![p] = next_id]
          /\ Step(p, "reserve")
          /\ UNCHANGED outcome
     ELSE /\ Step(p, "failed")
          /\ outcome' = [outcome EXCEPT ![p] = "exit4"]
          /\ UNCHANGED <<place, planned>>
  /\ UNCHANGED <<options, iter, boot, rid>>

(* An Error, and a reservation refused, give {0, 0}; the work is done all  *)
(* the same.                                                               *)
Admitted == {id \in ReservationId : ~Present(id) /\ reservations'[id] # NoReservation}

OnReserve(p) ==
  /\ at[p] = "reserve"
  /\ rid' = [rid EXCEPT ![p] = IF Admitted = {} THEN 0 ELSE next_id]
  /\ IF options[p].release THEN Step(p, "release") /\ UNCHANGED iter ELSE NextRound(p)
  /\ UNCHANGED <<options, boot, place, outcome, planned>>

(* The reply to a Release is not looked at. *)
OnRelease(p) ==
  /\ at[p] = "release"
  /\ NextRound(p)
  /\ UNCHANGED <<options, boot, place, rid, outcome, planned>>

(* The connection's thread takes a step; with its last one the peer, if it *)
(* is still there, gets its reply.                                         *)
Serve(p) ==
  /\ HandleStep(p)
  /\ claimed' = [claimed EXCEPT ![p] = @ \cup Admitted]
  /\ IF pc'[p] = "recv" /\ at[p] # "over"
     THEN OnRegister(p) \/ OnPlacement(p) \/ OnReserve(p) \/ OnRelease(p)
     ELSE UNCHANGED <<options, at, iter, boot, place, rid, outcome, planned>>

(* Faulty variant: the program holds whatever it was told. *)
ReturnHolding(p) ==
  /\ at[p] = "failed" /\ Exit(p, outcome[p])
  /\ Drop(p)
  /\ UNCHANGED <<options, iter, boot, place, rid, planned, claimed>>

(* main returns, unless --hold keeps it: the session is closed. *)
Return(p) ==
  /\ \/ at[p] = "failed" /\ Exit(p, outcome[p])
     \/ at[p] = "done" /\ ~options[p].hold /\ Exit(p, "exit0")
  /\ Drop(p)
  /\ UNCHANGED <<options, iter, boot, place, rid, planned, claimed>>

(* TerminateProcess, at any moment. *)
Kill(p) ==
  /\ at[p] \notin {"none", "over"}
  /\ Exit(p, "killed")
  /\ Drop(p)
  /\ UNCHANGED <<options, iter, boot, place, rid, planned, claimed>>

ProcessStep(p) == (Send(p) \/ Return(p)) /\ UNCHANGED proofVars
ThreadStep(p) ==
  \/ Serve(p) /\ UNCHANGED proofVars
  \/ LossStep(p) /\ UNCHANGED <<programVars, proofVars>>

-----------------------------------------------------------------------------
(* A fleet by itself. *)
Happen ==
  /\ ByItself
  /\ \/ \E p \in DOMAIN options : Start(p) \/ Kill(p)
     \/ AdvanceEpoch /\ UNCHANGED programVars
  /\ UNCHANGED proofVars

-----------------------------------------------------------------------------
(* nf-proof's main up to the shutdown of its own coordinator, as a list of *)
(* steps from one label to the next.  Waits have no time-out.              *)
Goes(from, to) == root = from /\ root' = to /\ UNCHANGED verdict

ProofSpawns(from, p, to) == Goes(from, to) /\ Start(p)

ProofKills(from, p, to) == Goes(from, to) /\ Kill(p)

ProofWaits(from, condition, to) ==
  condition /\ Goes(from, to) /\ UNCHANGED <<coordVars, programVars>>

(* One of the checks that print FAIL. *)
ProofChecks(from, condition, to) ==
  Goes(from, IF condition THEN to ELSE "failed") /\ UNCHANGED <<coordVars, programVars>>

(* A WorkerSession that does not register: connect, one PlacementRequest,  *)
(* its reply, close.                                                       *)
ProofConnects(from, s) ==
  root = from /\ Accept(s) /\ UNCHANGED <<programVars, proofVars>>

ProofSends(from, s, w, b, e) ==
  /\ root = from /\ verdict[s] = "none"
  /\ Receive(s, "place", w, b, e, NoNode)
  /\ verdict' = [verdict EXCEPT ![s] = "sent"]
  /\ UNCHANGED <<programVars, root>>

ServeSession(s) ==
  /\ HandleStep(s)
  /\ verdict' = [verdict EXCEPT ![s] =
       IF pc'[s] # "recv" THEN @
       ELSE IF pc[s] = "epoch" THEN "StaleEpoch"
       ELSE IF Accepted(s) THEN "Accepted" ELSE "StaleBoot"]
  /\ UNCHANGED <<programVars, root>>

ProofJudges(from, s, good, to) ==
  /\ verdict[s] \notin {"none", "sent"}
  /\ Goes(from, IF verdict[s] \in good THEN to ELSE "failed")
  /\ Drop(s)
  /\ UNCHANGED programVars

Current(p) == workers[Id[p]].alive /\ workers[Id[p]].boot = boot[p]

ProofStep ==
  \/ ProofSpawns("spawn_a", A, "boot_a")
  \/ ProofWaits("boot_a", boot[A] # 0, "spawn_b")
  \/ ProofSpawns("spawn_b", B, "boot_b")
  \/ ProofWaits("boot_b", boot[B] # 0, "work")
  \/ ProofWaits("work", at[A] = "done" /\ at[B] = "done", "check_a")
  \/ ProofChecks("check_a", boot[A] # boot[B] /\ Current(A), "kill_a")
  \/ ProofKills("kill_a", A, "loss_a")
  \/ ProofWaits("loss_a", ~workers[Id[A]].alive, "check_b")
  \/ ProofChecks("check_b", Current(B), "advance")
  \/ Goes("advance", "stale_epoch") /\ AdvanceEpoch /\ UNCHANGED programVars
  \/ ProofConnects("stale_epoch", S1)
  \/ ProofSends("stale_epoch", S1, Id[B], boot[B], epoch - 1)
  \/ ProofJudges("stale_epoch", S1, {"StaleEpoch"}, "stale_boot")
  \/ ProofConnects("stale_boot", S2)
  \/ ProofSends("stale_boot", S2, Id[A], boot[A], epoch)
  \/ ProofJudges("stale_boot", S2, {"StaleBoot"}, "spawn_a2")
  \/ ProofSpawns("spawn_a2", A2, "boot_a2")
  \/ ProofWaits("boot_a2", boot[A2] # 0, "check_a2")
  \/ ProofChecks("check_a2", boot[A2] # boot[A], "work_a2")
  \/ ProofWaits("work_a2", at[A2] = "done", "stale_again")
  \/ ProofConnects("stale_again", S3)
  \/ ProofSends("stale_again", S3, Id[A], boot[A], epoch)
  \/ ProofJudges("stale_again", S3, {"StaleEpoch", "StaleBoot"}, "kill_b")
  \/ ProofKills("kill_b", B, "kill_a2")
  \/ ProofKills("kill_a2", A2, "passed")

-----------------------------------------------------------------------------
SessionStep(s) ==
  \/ ServeSession(s)
  \/ LossStep(s) /\ UNCHANGED <<programVars, proofVars>>

FleetNext ==
  \/ Happen
  \/ ProofStep
  \/ \E p \in Process : ProcessStep(p) \/ ThreadStep(p)
  \/ \E s \in {S1, S2, S3} : SessionStep(s)

(* Programs and threads keep running, nf-proof too; that a process starts  *)
(* or dies, or an epoch advances, in a fleet by itself is nobody's duty.   *)
(* A process and the thread that serves it never both have a step to take. *)
FleetSpec ==
  /\ FleetInit
  /\ [][FleetNext]_fleetVars
  /\ WF_fleetVars(ProofStep)
  /\ \A p \in Process : WF_fleetVars(ProcessStep(p) \/ ThreadStep(p))
  /\ \A s \in {S1, S2, S3} : WF_fleetVars(SessionStep(s))

-----------------------------------------------------------------------------
Superseded(p) == workers[Id[p]].boot # boot[p]

(* The programs' variables hold what their mains can put there. *)
FleetTypeOK ==
  /\ at \in [Process -> {"none", "register", "place", "reserve", "release", "done",
                         "failed", "over"}]
  /\ iter \in [Process -> Nat]
  /\ boot \in [Process -> 0 .. MaxBoot]
  /\ place \in [Process -> Node \cup {NoNode}]
  /\ rid \in [Process -> 0 .. MaxId]
  /\ outcome \in [Process -> {"none", "exit0", "exit4", "exit5", "killed"}]

(* A reservation that is still active is in use by the process it was      *)
(* admitted for, unless that was told not to release it, was killed, or    *)
(* was replaced by another process of the same worker, whose registration  *)
(* fences the release: no other schedule leaks capacity.                   *)
ReservationOwed ==
  /\ FleetTypeOK
  /\ \A id \in ReservationId : Active(id) =>
       \E p \in Process :
         /\ id \in claimed[p]
         /\ \/ rid[p] = id /\ at[p] = "release"
            \/ ~options[p].release
            \/ outcome[p] = "killed"
            \/ Superseded(p)

(* A worker program fails only for a reason outside of it: its placement   *)
(* is refused because it was replaced or the epoch has advanced, and its   *)
(* registration because another process of its worker got in between the   *)
(* look-up and register_worker.                                            *)
FailureExplained ==
  \A p \in Process :
    /\ outcome[p] = "exit4" => Superseded(p) \/ told[p] # epoch
    /\ outcome[p] = "exit5" =>
         \E q \in Process \ {p} : Id[q] = Id[p] /\ at[q] # "none"

(* A worker that was given a node, and whose boot still is the current     *)
(* one, is refused there only if another reservation was admitted on that  *)
(* node since its placement was planned.                                   *)
RefusalNeedsRace ==
  [][\A p \in Process :
       /\ at[p] = "reserve" /\ at'[p] \notin {"reserve", "over"} /\ rid'[p] = 0
       /\ place[p] # NoNode
       /\ ~Superseded(p)
       => \E id \in planned[p] .. next_id - 1 :
            Present(id) /\ reservations[id].node = place[p]]_fleetVars

(* Every process that was started, and every request it makes, comes to an *)
(* end: in the long run each has exited, failed or been killed, or holds   *)
(* as it was told to.                                                      *)
ProgramsEnd ==
  <>[](\A p \in Process :
         at[p] \in {"none", "over"} \/ (at[p] = "done" /\ options[p].hold))

(* nf-proof passes: whatever the schedule none of its checks prints FAIL,  *)
(* and none of its waits, which have no time-out, is for ever ("A genuine  *)
(* hang is a defect").                                                     *)
ProofPasses == root = "spawn_a" ~> root = "passed"

(* A worker does not stay live without a connection (coordinator.cpp: the  *)
(* thread of a lost one marks what it registered dead): again and again,   *)
(* and so for good once no more processes die, the boot of every live      *)
(* worker was registered by a connection that is still up.                 *)
LossDetected ==
  []<>(\A w \in WorkerId : workers[w].alive =>
         \E c \in ConnId : /\ link[c] = "up" /\ conns[c] # Unregistered
                           /\ conns[c].worker = w /\ conns[c].boot = workers[w].boot)
=============================================================================
