---------------------------- MODULE MCKeyCache ----------------------------
(* Good tokens of one key, expired ones of the other key, and               *)
(* forged ones of a key id nobody publishes.                               *)
EXTENDS KeyCache
CONSTANTS r1, r2, k1, k2
MCTokens ==
    {[kid |-> k1, quality |-> "good"],
     [kid |-> k2, quality |-> "expired"],
     [kid |-> UnknownKey, quality |-> "forged"]}
=============================================================================
