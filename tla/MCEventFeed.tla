----------------------------- MODULE MCEventFeed -----------------------------
(* Two GUIs: with the slot of one that left, two slots can be full. *)
EXTENDS EventFeed

CONSTANTS g1, g2
=============================================================================
