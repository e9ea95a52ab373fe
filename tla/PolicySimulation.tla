-------------------------- MODULE PolicySimulation --------------------------
(***************************************************************************)
(* POST /admin/policies/simulate of app/main.py: the policies of a tenant  *)
(* evaluated for a made-up request.  Its context has no "now"; the policy  *)
(* engine then leaves valid_from aside, and compares expires_at with None. *)
(***************************************************************************)
EXTENDS Engines

CONSTANTS
    Inputs,         \* the request, transaction_amount possibly NULL
    Scores,         \* risk_score of the payload
    Trusts,         \* trust_score, possibly NULL
    Hours,          \* hour, possibly NULL
    PolicySets      \* enabled policies of the tenant

VARIABLES policies, answer

vars == <<policies, answer>>

-----------------------------------------------------------------------------
Init == policies \in PolicySets /\ answer = [status |-> 0, decided |-> {}]

RiskOf(score, trust) ==
    [score |-> score, trust |-> IF trust # NULL THEN trust
                                ELSE Max({0, 100 - score})]

(* PolicyEngine.evaluate ends at the first policy that matches, or with a  *)
(* TypeError at one that expires.                                          *)
EndsAt(request, risk, hour) ==
    LET ends == {p \in policies : \/ p.expires_at # NULL
                                  \/ Matches(p, request, risk, hour)}
    IN {p \in ends : \A q \in ends \ {p} : Precedes(p, q)}

Simulate ==
    /\ answer.status = 0
    /\ \E i \in Inputs, score \in Scores, trust \in Trusts, hour \in Hours :
         LET end == EndsAt(i, RiskOf(score, trust), hour)
         IN answer' = IF \E p \in end : p.expires_at # NULL
                      THEN [status |-> 500, decided |-> {}]
                      ELSE [status |-> 200, decided |-> end]
    /\ UNCHANGED policies

Next == Simulate

Spec == Init /\ [][Next]_vars

-----------------------------------------------------------------------------
(* The simulation of a valid request with the policies that the API let in *)
(* is answered with 200.                                                   *)
SimulationAnswers == answer.status \in {0, 200}
=============================================================================
