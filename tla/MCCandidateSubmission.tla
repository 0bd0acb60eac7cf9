------------------------ MODULE MCCandidateSubmission ------------------------
(* Attempts of one Task, each with a few drafts.                            *)
EXTENDS CandidateSubmission, TLC

Symmetry == Permutations(Agents) \cup Permutations(Drafts)
=============================================================================
