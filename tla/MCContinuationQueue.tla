------------------------ MODULE MCContinuationQueue ------------------------
(* Instances of ContinuationQueue for TLC.                                 *)
EXTENDS ContinuationQueue, TLC
=============================================================================
