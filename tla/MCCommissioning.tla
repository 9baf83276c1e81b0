-------------------------- MODULE MCCommissioning --------------------------
(* Commissioning with two connections and three devices, one imported.     *)
EXTENDS Commissioning

CONSTANTS c1, c2, d1, d2, d3

TwoConns == {c1, c2}
ThreeDevices == {d1, d2, d3}
OneAdopted == {d3}
FirstId == [d \in {d3} |-> 1]
=============================================================================
