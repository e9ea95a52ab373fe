------------------------- MODULE MCPolicySimulation -------------------------
(* A small instance of PolicySimulation for TLC.                           *)
EXTENDS PolicySimulation, TLC

MCInputs ==
    {[type |-> "access", device |-> "d1", ip |-> "", country |-> "EE",
      amount |-> amount, new_owner |-> ""] : amount \in {NULL, 1}}

MCScores == {10, 90}
MCTrusts == {NULL, 90}
MCHours == {NULL, 0, 12}

MCPolicy(id, effect, priority, expires) ==
    [id |-> id, version |-> 1, name |-> id, priority |-> priority,
     effect |-> effect, request_types |-> {"access"}, devices |-> {"d1"},
     countries |-> {"EE"}, max_risk_score |-> 50, min_trust_score |-> NULL,
     max_amount |-> 5, start_hour |-> 22, end_hour |-> 6,
     valid_from |-> NULL, expires_at |-> expires]

MCPolicySets ==
    SUBSET {MCPolicy(1, "allow", 1, NULL), MCPolicy(2, "deny", 1, NULL),
            MCPolicy(3, "allow", 2, 1)}
=============================================================================
