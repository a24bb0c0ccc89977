--------------------------- MODULE MCSubmissions ---------------------------
(* The small instance of Submissions for TLC; no symmetry, for liveness. *)
EXTENDS SubmissionProperties

=============================================================================
