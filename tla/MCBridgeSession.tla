-------------------------- MODULE MCBridgeSession --------------------------
(***************************************************************************)
(* One instance of BridgeSession in which everything may go wrong: a lane  *)
(* may overflow before or after the session listens for failures, and a    *)
(* telegram may overtake ready.                                            *)
(***************************************************************************)
EXTENDS BridgeSession
=============================================================================
