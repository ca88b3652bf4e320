----------------------------- MODULE MCHandOver -----------------------------
(* The components whose goroutines hand something on to each other.  They    *)
(* share no state, so a behaviour has one of them step and keeps the others  *)
(* in an initial state.                                                      *)
EXTENDS AuthDispatch, WsRelay, UsageQueue

CONSTANT s1

VARIABLE focus

OneRefresh == [t \in Refreshers |-> 1]
OneSession == [r \in RelayRequests |-> s1]

HandOverInit ==
  /\ focus \in {"dispatch", "relay", "usage"}
  /\ DispatchInit /\ UsageInit
  /\ RelayInit /\ (focus # "relay" => \A r \in RelayRequests : request[r].streamed)

HandOverNext ==
  /\ UNCHANGED focus
  /\ \/ /\ focus = "dispatch" /\ DispatchNext
        /\ UNCHANGED <<relayVars, usageVars>>
     \/ /\ focus = "relay" /\ RelayNext
        /\ UNCHANGED <<dispatchVars, usageVars>>
     \/ /\ focus = "usage" /\ UsageNext
        /\ UNCHANGED <<dispatchVars, relayVars>>

HandOverSpec ==
  /\ HandOverInit
  /\ [][HandOverNext]_<<focus, dispatchVars, relayVars, usageVars>>
  /\ DispatchFairness /\ RelayFairness /\ UsageFairness

\* Each component's variables have their types.
HandOverTypeOK == DispatchTypeOK /\ RelayTypeOK /\ UsageTypeOK
=============================================================================
