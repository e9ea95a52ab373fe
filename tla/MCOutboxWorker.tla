--------------------------- MODULE MCOutboxWorker ---------------------------
(* Small instances of OutboxWorker for TLC.                                *)
EXTENDS OutboxWorker, TLC

(* Every event goes to every subscription.                                 *)
MCEvents1 == {1}
MCEvents2 == {1, 2}
MCAudience == [e \in Events |-> Subs]

(* Claim tokens are only compared: any two are interchangeable, and so are *)
(* the workers and the subscriptions.                                      *)
Symmetric == Permutations(Tokens) \cup Permutations(Workers)
               \cup Permutations(Subs)
=============================================================================
