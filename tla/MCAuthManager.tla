--------------------------- MODULE MCAuthManager ---------------------------
(* Instances of AuthManager for TLC. *)
EXTENDS AuthManager, TLC

CONSTANTS a1, a2, m1, m2, p1, r1, r2, r3, NoProv

\* r1 and r3 are alike in every configuration that uses it.
MCSymmetry == Permutations({r1, r3})

OneOfEach == [m \in Models |-> 1]
OnlyM1 == [m \in Models |-> IF m = m1 THEN 1 ELSE 0]
MCLists == {OneOfEach, OnlyM1}
\* a1 offers both models and is preferred, a2 is the fallback for m1.
MCOffered == [a \in Clients |-> IF a = a1 THEN OneOfEach ELSE OnlyM1]
MCPriority == [a \in Clients |-> IF a = a1 THEN 1 ELSE 0]
MCProviderOf == [a \in Clients |-> p1]
MCWantProviders == [r \in Requests |-> {p1}]

TwoModels == [r \in Requests |-> IF r = r2 THEN m2 ELSE m1]
SameModel == [r \in Requests |-> m1]
RetryOnce == [a \in Clients |-> IF a = a1 THEN 1 ELSE 0]
NeverRetry == [a \in Clients |-> 0]
============================================================================
