-------------------------- MODULE MCAccessDecision --------------------------
(* Instances of AccessDecision for TLC. *)
EXTENDS AccessDecision, TLC

CONSTANTS q1, q2, q3, v1, v2, p1, p2, gate, alice, bob, move, enter, back, k1

MCNoTarget == <<>>
MCTarget1 == v1 :> gate
MCTarget2 == v1 :> gate @@ v2 :> gate

MCClaims ==
    move  :> [right |-> gate, user |-> alice, scope |-> "ownership_transfer"]
 @@ enter :> [right |-> gate, user |-> alice, scope |-> "access"]
 @@ back  :> [right |-> gate, user |-> bob, scope |-> "ownership_transfer"]

MCClaimsFaults ==
    move  :> [right |-> gate, user |-> alice, scope |-> "ownership_transfer"]
 @@ enter :> [right |-> gate, user |-> alice, scope |-> "access"]

MCClaimsEnter ==
    enter :> [right |-> gate, user |-> alice, scope |-> "access"]

MCClaimsMove ==
    move  :> [right |-> gate, user |-> alice, scope |-> "ownership_transfer"]

Send(t, owner, k, p) ==
    [token |-> t, newOwner |-> owner, key |-> k, process |-> p]

(* Two processes; a transfer and an access under one key, the transfer     *)
(* again without a key, and the transfer back by the new owner.            *)
MCCallsRace ==
    {Send(move, bob, k1, p1), Send(enter, NoUser, k1, p2),
     Send(move, bob, NoKey, p2), Send(back, alice, NoKey, p1)}

(* The same without the transfer back.                                     *)
MCCallsFaults ==
    {Send(move, bob, k1, p1), Send(enter, NoUser, k1, p2),
     Send(move, bob, NoKey, p2)}

(* One access, repeated with and without a key in either process.          *)
MCCallsRetry ==
    {Send(enter, NoUser, k1, p1), Send(enter, NoUser, NoKey, p1),
     Send(enter, NoUser, NoKey, p2)}

(* One transfer, repeated.                                                 *)
MCCallsRepeat == {Send(move, bob, k1, p1)}

Symmetric == Permutations(Requests)
=============================================================================
