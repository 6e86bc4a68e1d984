----------------------------- MODULE MCStartup -----------------------------
(* Instances of module Startup for TLC. *)
EXTENDS Startup

CONSTANTS c1, c2, h1

MCContainer == {c1, c2}
MCHand == {h1}
=============================================================================
