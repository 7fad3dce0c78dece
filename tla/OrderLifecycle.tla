--------------------------- MODULE OrderLifecycle ---------------------------
(***************************************************************************)
(* What order-service promises about one order: every operation happens at *)
(* one instant, on the order as it is at that instant.  A finished order   *)
(* stays finished, every edit or status change takes the next version, and *)
(* a performer is assigned or unassigned only when that changes the team.  *)
(* OrderService implements this with reads, checks and transactions that   *)
(* interleave.                                                             *)
(***************************************************************************)
EXTENDS Naturals

CONSTANTS OrderIds, Performers,
          Bodies,          \* contents an order row can hold
          NoBody           \* contents of a row that does not exist

VARIABLES orders,          \* the table orders: status, version and contents
          performers       \* the table order_performers

vars == <<orders, performers>>

Terminal == {"COMPLETED", "CANCELLED"}
Absent == [status |-> "NONE", version |-> 0, body |-> NoBody]
Exists(o) == orders[o].status # "NONE"

Init == /\ orders = [o \in OrderIds |-> Absent]
        /\ performers = [o \in OrderIds |-> {}]

Create(o) ==
  /\ ~Exists(o)
  /\ \E b \in Bodies :
       orders' = [orders EXCEPT ![o] =
                    [status |-> "PLANNED", version |-> 1, body |-> b]]
  /\ \E team \in SUBSET Performers :
       performers' = [performers EXCEPT ![o] = team]

\* The code edits an order of any status.
Edit(o) ==
  /\ Exists(o)
  /\ \E b \in Bodies :
       orders' = [orders EXCEPT ![o].body = b, ![o].version = @ + 1]
  /\ UNCHANGED performers

Finish(o) ==
  /\ orders[o].status = "PLANNED"
  /\ \E s \in Terminal :
       orders' = [orders EXCEPT ![o].status = s, ![o].version = @ + 1]
  /\ UNCHANGED performers

Assign(o, p) ==
  /\ Exists(o)
  /\ p \notin performers[o]
  /\ performers' = [performers EXCEPT ![o] = @ \union {p}]
  /\ UNCHANGED orders

Unassign(o, p) ==
  /\ p \in performers[o]
  /\ performers' = [performers EXCEPT ![o] = @ \ {p}]
  /\ UNCHANGED orders

Next == \E o \in OrderIds :
          \/ Create(o) \/ Edit(o) \/ Finish(o)
          \/ \E p \in Performers : Assign(o, p) \/ Unassign(o, p)

Spec == Init /\ [][Next]_vars
=============================================================================
