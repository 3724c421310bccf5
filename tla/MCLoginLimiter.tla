--------------------------- MODULE MCLoginLimiter ---------------------------
(* LoginLimiter for TLC: the code's limit of five failures, six requests at *)
(* once, so that the requests in flight can reach the limit by themselves,  *)
(* and a window of four ticks for its fifteen minutes, so that a failure    *)
(* comes at every moment of a running window.                               *)
EXTENDS LoginLimiter
=============================================================================
