----------------------------- MODULE MCTopology -----------------------------
(* Instances of Topology for TLC. *)
EXTENDS Topology

MCStart == [o \in {CHOOSE x \in Outputs : TRUE} |-> CHOOSE m \in Modes : TRUE]
=============================================================================
