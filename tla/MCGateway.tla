------------------------------ MODULE MCGateway ------------------------------
(* Small instances of the gateway for TLC.  Call-IDs, dialogs and backends *)
(* are only ever compared for equality, so they are interchangeable.  The  *)
(* symmetry is used by the safety runs only.                               *)
EXTENDS Gateway, TLC

Symmetry ==
  Permutations(CallId) \cup Permutations(Dialog) \cup Permutations(Backend)
=============================================================================
