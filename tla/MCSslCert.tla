----------------------------- MODULE MCSslCert -----------------------------
(* SslCert for TLC.  Any two of two requests, the two jobs and a deletion   *)
(* overlap (Parallel = 2), any number one after another; three days of      *)
(* life, two of them within the threshold, put a certificate on either side *)
(* of every comparison.                                                     *)
EXTENDS SslCert, TLC

AllFaults == FaultKinds
Symmetric == Permutations(Slots)
=============================================================================
