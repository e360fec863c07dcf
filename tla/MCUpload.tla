------------------------------ MODULE MCUpload ------------------------------
(* TLC instances of Upload.                                                *)
EXTENDS Upload, TLC

CONSTANTS o1, k1, c1
OneOpen == {o1}
OneCheck == {k1}
OneCall == {c1}
TwoPostsOrACall == {{o1, k1}, {c1}}
=============================================================================
