-------------------------- MODULE MCConfigHistory --------------------------
(* A small instance of ConfigHistory for TLC.                              *)
EXTENDS ConfigHistory, TLC

CONSTANTS r1, r2, r3, n1

MCPolicies == {1, 2}
MCTimes == {1, 2}
MCModes == {1, 2}
MCSymmetry == Permutations({r1, r2, r3})

Window(from, until) == "valid_from" :> from @@ "expires_at" :> until

(* Updates that move one end, too far for one another.                     *)
MCNewWindows == {Window(NULL, NULL)}
MCPayloads == {Window(2, NULL), Window(NULL, 1)}
=============================================================================
