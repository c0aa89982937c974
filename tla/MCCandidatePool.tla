--------------------------- MODULE MCCandidatePool ---------------------------
(* An instance of CandidatePool for TLC: cycles of at most two tests.      *)
EXTENDS CandidatePool, SequencesExt

MCBatches == BoundedSeq(Results, 2)
=============================================================================
