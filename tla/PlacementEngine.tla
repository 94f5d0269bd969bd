--------------------------- MODULE PlacementEngine ---------------------------
(***************************************************************************)
(* The deterministic placement engine (placement/placement_engine.hpp,     *)
(* placement_engine.cpp) over the facts Runtime::build_placement_model     *)
(* gathers, the active reservations among them, while reservations are     *)
(* made and released.                                                      *)
(*                                                                         *)
(* plan is a pure function of a request and the reservations.  Its reply   *)
(* stands until the store next changes.  Explanations in words and the     *)
(* locality class are left out; policy_weight, which nothing fills, is the *)
(* default.                                                                *)
(***************************************************************************)
EXTENDS ReservationAccounting, FiniteSetsExt

CONSTANTS
  Cpus,         \* processor_count of each node
  Free,         \* node_free of each node, 0 where it was not measured
  Homes,        \* accelerator_locality: local node of each known accelerator
  Synthetic,    \* is the backend synthetic, or Windows?
  Requests      \* the placement requests that are made

Nowhere == 0     \* NumaNodeId::invalid()

(* A PlacementRequest; required is the optional required_node. *)
PlacementRequest ==
  [footprint: Nat, preferred: Nat, required: SUBSET Nat,
   accel: Accelerator \cup {NoAccelerator}, accel_local: BOOLEAN,
   cpus: Nat, fallback: BOOLEAN, owner: Nat, io: Nat, current: Nat,
   bound: BOOLEAN, revalidation: BOOLEAN]

ASSUME PlacementConstants ==
  /\ Node \subseteq Nat \ {Nowhere}
  /\ Synthetic \in BOOLEAN
  /\ Cpus \in [Node -> Nat]
  /\ Free \in [Node -> Nat]
  /\ DOMAIN Homes \subseteq Accelerator
  /\ \A a \in DOMAIN Homes : Homes[a] \in Node \cup {Nowhere}
  /\ Requests \subseteq PlacementRequest
  /\ \A q \in Requests : \A m, n \in q.required : m = n

VARIABLE
  planned    \* the request planned last and the decision on it

planVars == <<storeVars, planned>>

Kind == {"Place", "PlaceWithPenalty", "Migrate", "Rebind",
         "Reject", "Defer", "RevalidationRequired"}
Placing == {"Place", "PlaceWithPenalty", "Migrate", "Rebind"}
(* binding_constraint; "unset" is the empty string. *)
Constraint == {"unset", "none", "required_node", "accelerator_locality",
               "accelerator_locality_unknown", "required_cpu_count", "capacity",
               "required_node_or_accelerator_locality", "preferred_node"}

Nothing == [request |-> "none"]
Planned == planned # Nothing

-----------------------------------------------------------------------------
(* What the model says of nodes.  reserved_capacity adds up the active     *)
(* reservations with an operator that throws where a sum leaves the        *)
(* machine word: then there is no model, and no plan.                      *)
Reserved(n) == NodeBytes(n)

Summable == \A n \in Node : Reserved(n) < Word

(* Synthetic distances grow with the ids; Windows's are all alike. *)
Distance(a, b) ==
  IF a = b THEN 0
  ELSE IF Synthetic THEN 60 + 40 * (IF a > b THEN a - b ELSE b - a)
  ELSE 100

Found(a) == a \in DOMAIN Homes
Home(a) == IF Found(a) THEN Homes[a] ELSE Nowhere

(* compute_component, one operator per component. *)
Preference(n, q) == IF q.preferred \in {Nowhere, n} THEN 0 ELSE 1

MemoryLocal(n, q) ==
  IF q.owner \in {Nowhere, n} THEN 0 ELSE Distance(q.owner, n) + 100

AcceleratorLocal(n, q) ==
  IF ~Found(q.accel) \/ Home(q.accel) = n THEN 0
  ELSE IF Home(q.accel) = Nowhere THEN 50 ELSE 200

CurrentDistance(n, q) ==
  IF q.current = Nowhere THEN 0 ELSE Distance(q.current, n)

IoLocal(n, q) == IF q.io = Nowhere THEN 0 ELSE Distance(q.io, n)

Headroom(n, q) ==
  IF Free[n] = 0 THEN 500
  ELSE IF q.footprint = 0 \/ Free[n] >= 2 * q.footprint THEN 0
  ELSE IF Free[n] < q.footprint THEN 400
  ELSE (200 * (2 * q.footprint - Free[n])) \div q.footprint

Moving(n, q) ==
  IF q.bound /\ q.current \notin {Nowhere, n} THEN 150 ELSE 0

Cost(n, q) ==
  100 * Preference(n, q) + MemoryLocal(n, q) + AcceleratorLocal(n, q)
  + CurrentDistance(n, q) + IoLocal(n, q) + Headroom(n, q) + Moving(n, q)

-----------------------------------------------------------------------------
(* Faulty variant: bytes already reserved are not counted. *)
ViolationUnreserved(n, q) ==
  IF q.required # {} /\ n \notin q.required THEN "required_node"
  ELSE IF q.accel_local /\ q.accel # NoAccelerator /\ Home(q.accel) # n
  THEN IF Home(q.accel) = Nowhere
       THEN "accelerator_locality_unknown" ELSE "accelerator_locality"
  ELSE IF q.cpus > Cpus[n] THEN "required_cpu_count"
  ELSE IF Capacity[n] # 0 /\ q.footprint > Capacity[n] THEN "capacity"
  ELSE "none"

(* evaluate_eligibility: the first hard constraint node n violates.  The   *)
(* branches exclude one another in the order of the code.                  *)
Violation(n, q) ==
  IF q.required # {} /\ n \notin q.required THEN "required_node"
  ELSE IF q.accel_local /\ q.accel # NoAccelerator /\ Home(q.accel) # n
  THEN IF Home(q.accel) = Nowhere
       THEN "accelerator_locality_unknown" ELSE "accelerator_locality"
  ELSE IF q.cpus > Cpus[n] THEN "required_cpu_count"
  ELSE IF Capacity[n] # 0 /\ (q.footprint + Reserved(n)) % Word > Capacity[n]
  THEN "capacity"
  ELSE "none"

Eligible(q) == {n \in Node : Violation(n, q) = "none"}

(* The stable sort's first: least cost, then least id. *)
Best(q) ==
  CHOOSE n \in Eligible(q) :
    \A m \in Eligible(q) \ {n} :
      Cost(n, q) < Cost(m, q) \/ (Cost(n, q) = Cost(m, q) /\ n < m)

(* Where the request would like to be. *)
Ideal(q) ==
  IF q.preferred # Nowhere THEN q.preferred
  ELSE IF q.accel # NoAccelerator /\ Home(q.accel) # Nowhere THEN Home(q.accel)
  ELSE IF q.owner # Nowhere THEN q.owner
  ELSE Best(q)

(* An ideal node that is not eligible counts as free of cost. *)
Penalty(q) ==
  LET ideal_cost == IF Ideal(q) \in Eligible(q) THEN Cost(Ideal(q), q) ELSE 0
  IN IF Cost(Best(q), q) > ideal_cost THEN Cost(Best(q), q) - ideal_cost ELSE 0

Decide(kind, node, penalty, constraint) ==
  [kind |-> kind, node |-> node, penalty |-> penalty, constraint |-> constraint]

(* No node is eligible: nodes are visited in the order of their ids, and   *)
(* the first one says why.  Before discovery there is none to say so.      *)
Refusal(q) ==
  LET first == IF Node = {} THEN "none" ELSE Violation(Min(Node), q) IN
  IF q.required # {} THEN Decide("Reject", Nowhere, 0, "required_node")
  ELSE IF first = "capacity" THEN Decide("Defer", Nowhere, 0, "capacity")
  ELSE Decide("Reject", Nowhere, 0, first)

BindingConstraint(q) ==
  IF q.required # {} THEN "required_node"
  ELSE IF q.accel_local THEN "accelerator_locality"
  ELSE IF q.cpus > 0 THEN "required_cpu_count"
  ELSE IF \E n \in Node : Violation(n, q) = "capacity" THEN "capacity"
  ELSE "none"

(* A placement of a worker that is bound elsewhere moves it. *)
Moved(q) == IF q.footprint > 0 THEN "Migrate" ELSE "Rebind"

(* Faulty variant: fallback is never taken. *)
PlacementStrict(q) ==
  LET n == Best(q) IN
  IF (q.required # {} \/ q.accel_local) /\ n # Ideal(q)
  THEN Decide("Reject", n, Penalty(q), "required_node_or_accelerator_locality")
  ELSE IF n = Ideal(q)
  THEN Decide(IF q.bound /\ n # q.current THEN Moved(q) ELSE "Place",
              n, 0, BindingConstraint(q))
  ELSE Decide("Reject", n, Penalty(q), "preferred_node")

Placement(q) ==
  LET n == Best(q) IN
  IF (q.required # {} \/ q.accel_local) /\ n # Ideal(q)
  THEN Decide("Reject", n, Penalty(q), "required_node_or_accelerator_locality")
  ELSE IF n = Ideal(q)
  THEN Decide(IF q.bound /\ n # q.current THEN Moved(q) ELSE "Place",
              n, 0, BindingConstraint(q))
  ELSE IF q.fallback
  THEN Decide(IF q.bound THEN Moved(q) ELSE "PlaceWithPenalty",
              n, Penalty(q), BindingConstraint(q))
  ELSE Decide("Reject", n, Penalty(q), "preferred_node")

(* plan *)
Plan(q) ==
  IF q.revalidation THEN Decide("RevalidationRequired", Nowhere, 0, "unset")
  ELSE IF Eligible(q) = {} THEN Refusal(q)
  ELSE Placement(q)

-----------------------------------------------------------------------------
PlanInit == StoreInit /\ planned = Nothing

(* Runtime::plan.  It reads the store and writes nothing, so that one plan *)
(* per state of the store tells all there is to know.                      *)
PlanRequest(q) ==
  /\ ~Planned
  /\ Summable
  /\ planned' = [request |-> q, decision |-> Plan(q)]
  /\ UNCHANGED storeVars

(* A reservation is made or released, as planned or not.  Those that claim *)
(* an accelerator are left to ReservationStore: a plan looks at no such    *)
(* claim.                                                                  *)
StoreChanges ==
  /\ \/ \E req \in Request :
          req.accel = NoAccelerator /\ ~req.accel_capacity /\ Reserve(req)
     \/ \E id \in ReservationId : Release(id, {})
  /\ planned' = Nothing

PlanNext == StoreChanges \/ \E q \in Requests : PlanRequest(q)

PlanSpec == PlanInit /\ [][PlanNext]_planVars

-----------------------------------------------------------------------------
(* What reserve would say to the request's footprint on node n. *)
Reservable(n, q) == ~OverCapacity([node |-> n, bytes |-> q.footprint])

(* A request is placed only where it may go: on the node it requires, next *)
(* to the accelerator it has to be near, with the processors it needs, and *)
(* where a reservation of its footprint made now would be admitted.  The   *)
(* planner adds up the active reservations, the store keeps a counter; the *)
(* two must agree.  Place means the node the request would like best, at   *)
(* no penalty; elsewhere the penalty, an unsigned difference of two costs, *)
(* is charged and never wraps around.  On a host with a node, README: 'The *)
(* engine never emits "no binding constraint" when a hard constraint       *)
(* exists.'                                                                *)
PlanSound ==
  Planned =>
    LET q == planned.request  d == planned.decision IN
    /\ d.kind \in Placing =>
         /\ ~q.revalidation
         /\ q.required \subseteq {d.node}
         /\ q.accel_local /\ q.accel # NoAccelerator => Home(q.accel) = d.node
         /\ q.cpus <= Cpus[d.node]
         /\ Reservable(d.node, q)
    /\ d.kind \in Kind /\ d.constraint \in Constraint /\ d.penalty \in Nat
    /\ d.kind = "Place" => d.node = Ideal(q) /\ d.penalty = 0
    /\ d.kind = "PlaceWithPenalty" /\ Ideal(q) \notin Eligible(q) => d.penalty > 0
    /\ /\ Node # {} /\ d.kind # "RevalidationRequired"
       /\ q.required # {} \/ q.accel_local \/ q.cpus > 0
       => d.constraint # "none"

(* A request with no hard locality that accepts a fallback is refused only *)
(* if there is no node with the processors it needs on which a reservation *)
(* of its footprint would be admitted.                                     *)
PlanComplete ==
  Planned =>
    LET q == planned.request  d == planned.decision IN
    /\ d.kind \in {"Reject", "Defer"}
    /\ q.fallback /\ q.required = {} /\ ~q.accel_local
    => \A n \in Node : q.cpus > Cpus[n] \/ ~Reservable(n, q)

=============================================================================
