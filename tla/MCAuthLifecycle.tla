-------------------------- MODULE MCAuthLifecycle --------------------------
(* Instances of AuthLifecycle for TLC. *)
EXTENDS AuthLifecycle, MCAuthManager

CONSTANTS f1, f2, u1, h1

MCUpdateLimit == [u \in Updaters |-> IF u = u1 THEN 2 ELSE 1]
============================================================================
