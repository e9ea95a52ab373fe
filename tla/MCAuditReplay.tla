--------------------------- MODULE MCAuditReplay ---------------------------
(* A small instance of AuditReplay for TLC.                                *)
EXTENDS AuditReplay, TLC

CONSTANTS r1, r2, r3

MCSymmetry == Permutations({r1, r2, r3})

MCRequest(type, device, country, owner) ==
    [type |-> type, device |-> device, ip |-> device, country |-> country,
     amount |-> 1, new_owner |-> owner]

(* An access from the usual place, a transfer from another.                *)
MCInputs ==
    {MCRequest("access", "d1", "EE", ""),
     MCRequest("ownership_transfer", "d2", "FI", "u2")}

MCPolicy(id, effect, priority) ==
    [id |-> id, version |-> 1, name |-> id, priority |-> priority,
     effect |-> effect, request_types |-> {}, devices |-> {},
     countries |-> {}, max_risk_score |-> NULL, min_trust_score |-> NULL,
     max_amount |-> NULL, start_hour |-> NULL, end_hour |-> NULL,
     valid_from |-> NULL, expires_at |-> NULL]

(* Allowed at low risk in the hour before midnight, and denied but for     *)
(* that.  Then: allowed and denied on a par, the latter from before        *)
(* midnight till after, and until it expires, with another workflow.       *)
MCRegimes ==
    {[policies |->
        {[MCPolicy(1, "allow", 1) EXCEPT !.max_risk_score = 20,
                                         !.start_hour = 23, !.end_hour = 0],
         MCPolicy(2, "deny", 2)},
      config |->
        [include_risk_step |-> TRUE, include_policy_step |-> TRUE,
         execution_mode |-> "risk_first"]],
     [policies |->
        {MCPolicy(1, "allow", 1),
         [MCPolicy(2, "deny", 1) EXCEPT !.start_hour = 22, !.end_hour = 1,
                                        !.expires_at = 48]},
      config |->
        [include_risk_step |-> FALSE, include_policy_step |-> TRUE,
         execution_mode |-> "policy_first"]]}
=============================================================================
