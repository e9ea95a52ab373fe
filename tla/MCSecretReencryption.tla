------------------------ MODULE MCSecretReencryption ------------------------
(* A small instance of SecretReencryption for TLC.                         *)
EXTENDS SecretReencryption, TLC

CONSTANTS c1, c2, s1, s2

MCKeys == {1, 2}
MCHooks == {1, 2}

(* One call in each of two server processes.                               *)
MCHome == c1 :> s1 @@ c2 :> s2
=============================================================================
