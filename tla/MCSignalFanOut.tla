---------------------------- MODULE MCSignalFanOut ----------------------------
(* One signal whose record is enriched twice, for TLC.                        *)
EXTENDS SignalFanOut, TLC

CONSTANTS s1, e1, e2, t1, t2, t3

MCVersion == (e1 :> 1) @@ (e2 :> 2)
MCChunks  == (t1 :> 1) @@ (t2 :> 2) @@ (t3 :> 0)
=============================================================================
