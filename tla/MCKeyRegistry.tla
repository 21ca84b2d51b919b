--------------------------- MODULE MCKeyRegistry ---------------------------
(* Two keys and three requests at a time: two writers can wait behind a    *)
(* third, and a key can be revoked while another one is created.           *)
EXTENDS KeyRegistry, TLC

Symmetric == Permutations(Key) \cup Permutations(Caller)
=============================================================================
