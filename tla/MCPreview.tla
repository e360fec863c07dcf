------------------------------ MODULE MCPreview ------------------------------
(* TLC instances of Preview: which constants a run uses is in its cfg.      *)
EXTENDS Preview
=============================================================================
