----------------------------- MODULE MCLifetime -----------------------------
(***************************************************************************)
(* A small instance of Lifetime: two CPUs, two slots for blocks, and one   *)
(* socket whose receive buffer a single packet fills.                      *)
(***************************************************************************)
EXTENDS Lifetime, TLC

Slots   == 1 .. 2
Packets == 1 .. 2
=============================================================================
