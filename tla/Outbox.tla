------------------------------- MODULE Outbox -------------------------------
(***************************************************************************)
(* What the webhook outbox promises, without claims, leases or processes.  *)
(* A pending event goes through delivery cycles; each cycle reaches some   *)
(* subscriptions that no earlier cycle reached, and ends the event         *)
(* (delivered, or dead after MaxAttempts cycles) or leaves it pending.     *)
(***************************************************************************)
EXTENDS Naturals

CONSTANTS Events, Subs, MaxAttempts

VARIABLES
    status,     \* event |-> "pending", "delivered" or "dead"
    tries,      \* event |-> cycles that counted
    reached     \* event |-> subscriptions that have a success

absVars == <<status, tries, reached>>

Init ==
    /\ status = [e \in Events |-> "pending"]
    /\ tries = [e \in Events |-> 0]
    /\ reached = [e \in Events |-> {}]

(* A cycle of a pending event with a success for the subscriptions of S.   *)
Cycle(e, S, end) ==
    /\ status[e] = "pending"
    /\ S \cap reached[e] = {}
    /\ status' = [status EXCEPT ![e] = end]
    /\ reached' = [reached EXCEPT ![e] = @ \cup S]

Count(e) == tries' = [tries EXCEPT ![e] = @ + 1]

Deliver(e, S) == Cycle(e, S, "delivered") /\ Count(e)

(* Nobody is subscribed: the event is delivered and no cycle is counted.   *)
DeliverToNobody(e) == Cycle(e, {}, "delivered") /\ UNCHANGED tries

Fails(e, S) == reached[e] \cup S # Subs

Retry(e, S) ==
    /\ Fails(e, S)
    /\ tries[e] + 1 < MaxAttempts
    /\ Cycle(e, S, "pending")
    /\ Count(e)

DeadLetter(e, S) ==
    /\ Fails(e, S)
    /\ tries[e] + 1 = MaxAttempts
    /\ Cycle(e, S, "dead")
    /\ Count(e)

Next ==
    \E e \in Events :
      \/ DeliverToNobody(e)
      \/ \E S \in SUBSET Subs :
           Deliver(e, S) \/ Retry(e, S) \/ DeadLetter(e, S)

Spec == Init /\ [][Next]_absVars
=============================================================================
