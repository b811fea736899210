---------------------------- MODULE MCAgentSync ----------------------------
(* Instances of AgentSync for TLC. *)
EXTENDS AgentSync

CONSTANTS f1, f2, f3
TwoFiles    == {f1, f2}
ThreeFiles  == {f1, f2, f3}
FilesSymmetry == Permutations(Files)

NoFaults        == [k \in FaultKind |-> 0]
OneLoss         == [NoFaults EXCEPT !["loss"] = 1]
LossAndKill     == [NoFaults EXCEPT !["loss"] = 1, !["head"] = 1, !["kill"] = 1,
                                     !["disk"] = 1]
LossAndFullDisk == [NoFaults EXCEPT !["loss"] = 2, !["head"] = 1, !["disk"] = 1]
NetworkFaults   == [k \in FaultKind |-> IF k \in {"loss", "dup", "swap"} THEN 1 ELSE 0]

Utc         == {0}
=============================================================================
