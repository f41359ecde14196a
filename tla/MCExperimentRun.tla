--------------------------- MODULE MCExperimentRun ---------------------------
(* Two experiments, the second behind the gate of the first. *)
EXTENDS ExperimentRun

MCExperiments == {"E03", "E04"}
MCRequires == [E03 |-> {}, E04 |-> {"E03"}]
=============================================================================
