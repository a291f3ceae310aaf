-------------------------- MODULE MCNodeTypeStorage --------------------------
(***************************************************************************)
(* NodeTypeStorage on a small instance: one value that is there by default *)
(* and two more that share the other counter, which has room for two ids.  *)
(***************************************************************************)
EXTENDS NodeTypeStorage

CONSTANTS r, v, w   \* values

MCValue == {r, v, w}
MCClassOf == [x \in MCValue |-> IF x = r THEN 2 ELSE 1]
MCReserved == [i \in Id |-> IF i = <<2, 0>> THEN r ELSE None]
=============================================================================
