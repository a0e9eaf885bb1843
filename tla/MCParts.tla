------------------------------ MODULE MCParts ------------------------------
(***************************************************************************)
(* The TLC instance of Parts.                                              *)
(***************************************************************************)
EXTENDS Parts, TLC

MCGrant == <<[files |-> {1, 2}, writable |-> FALSE], [files |-> {2}, writable |-> TRUE]>>
MCOwnMaximum == "m2" :> 2

\* weft-servo-shell looks for the endpoint again and again: its event loop asks
\* to be woken (WaitUntil next_endpoint_check, every ENDPOINT_CHECK_INTERVAL), and
\* the port is read in the call that reads the token.
MCSpec == Spec /\ WF_systemVars(System!ReadToken) /\ WF_systemVars(System!ReadPort)
=============================================================================
