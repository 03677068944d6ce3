------------------------- MODULE MCGenerationControl -------------------------
(* Small instances of GenerationControl.  Callers are named by what they are:  *)
(* cron2 runs in the process p2, the others in p1.                              *)
EXTENDS GenerationControl, TLC

CONSTANTS p1, p2, cron1, sync1, stream1, cron2

MCProcOf == [c \in Callers |-> IF c = cron2 THEN p2 ELSE p1]
MCKind   == [c \in Callers |-> CASE c = sync1 -> "sync"
                                [] c = stream1 -> "stream"
                                [] OTHER -> "cron"]

MCOnePhase == <<95>>

MCSymmetry == Permutations(Runs)
=============================================================================
