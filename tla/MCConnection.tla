---------------------------- MODULE MCConnection ----------------------------
(* Instances of Connection with two client slots.                          *)
EXTENDS Connection

CONSTANTS c1, c2
=============================================================================
