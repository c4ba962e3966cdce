-------------------------- MODULE MCExternalInputs --------------------------
(* Model checking ExternalInputs: the poll's values in their order, and the  *)
(* back-off as a sequence of ticks.                                          *)
EXTENDS ExternalInputs

CONSTANTS max, min

MCPollOrder == <<max, min>>
MCDelays == <<1, 3>>
=============================================================================
