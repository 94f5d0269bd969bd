-------------------------- MODULE ReservationLedger -------------------------
(***************************************************************************)
(* What the reservation store promises, without its counters: a set of     *)
(* live claims.  A claim is admitted under an id never used before, and    *)
(* only while the claims already live leave room for it on its node and on *)
(* its accelerator; it leaves the set when it is released.  A refused      *)
(* request consumes its id and nothing else.                               *)
(***************************************************************************)
EXTENDS Integers, Functions

CONSTANTS Node, Accelerator, Capacity, AccelCeiling, MaxId

VARIABLES
  live,   \* the claims that are in force
  spent   \* the ids that were handed out

ledgerVars == <<live, spent>>

(* Bytes that live claims hold on node n, and on accelerator a. *)
ClaimBytes == [c \in live |-> c.bytes]
Booked(n) == SumFunctionOnSet(ClaimBytes, {c \in live : c.node = n})
BookedAccel(a) == SumFunctionOnSet(ClaimBytes, {c \in live : c.accel = a})

LedgerInit == live = {} /\ spent = {}

Admit(id, c) ==
  /\ id \notin spent
  /\ c.id = id
  /\ c.bytes > 0 /\ Capacity[c.node] > 0 =>
       Booked(c.node) + c.bytes <= Capacity[c.node]
  /\ c.accel \in Accelerator => BookedAccel(c.accel) + c.bytes <= AccelCeiling
  /\ live' = live \cup {c}
  /\ spent' = spent \cup {id}

Refuse(id) ==
  /\ id \notin spent
  /\ spent' = spent \cup {id}
  /\ UNCHANGED live

Retire(c) ==
  /\ live' = live \ {c}
  /\ UNCHANGED spent

LedgerNext ==
  \/ \E id \in 1 .. MaxId : Refuse(id) \/ \E c \in live' : Admit(id, c)
  \/ \E c \in live : Retire(c)

LedgerSpec == LedgerInit /\ [][LedgerNext]_ledgerVars
=============================================================================
