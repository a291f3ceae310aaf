------------------------------ MODULE MCGenerator ------------------------------
(***************************************************************************)
(* Generator on a small instance.  Frames are interchangeable: of the free *)
(* ones the allocator hands out a fixed one.                               *)
(***************************************************************************)
EXTENDS Generator

Allocates(f) == status[f] = "none" /\ status'[f] # "none"
FirstFit == \A f \in Frames : Allocates(f) => f = CHOOSE g \in Frames : status[g] = "none"
=============================================================================
