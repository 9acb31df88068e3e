------------------------ MODULE MCCollectorRefinement ------------------------
(* Instances of CollectorRefinement for TLC. *)
EXTENDS CollectorRefinement, MCCollector
=============================================================================
