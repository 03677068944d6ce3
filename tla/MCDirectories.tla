----------------------------- MODULE MCDirectories ----------------------------
(* Directories for TLC: what a behaviour is not of rests in one of its       *)
(* initial states.                                                           *)
EXTENDS Directories, MCChannelNumbering, TLC

\* The threads that look up answers are alike.
CONSTANTS reader1, reader2
MCReaders == {reader1, reader2}
Alike == Permutations(MCReaders)

MCInit ==
    /\ part \in Parts
    /\ Init
    /\ \/ part = "numbers"
       \/ set = Cfg(FALSE, "gap", 2, 1, 6) /\ ~due /\ ext = {}
    /\ Ld!Init /\ (part = "leagues" \/ ldSub = {})
    /\ Ds!Init /\ dsSaved = "u"
    /\ Bk!Init
    /\ Ca!Init /\ (part = "cache" \/ caWanted = "event")

MCSpec == MCInit /\ [][SumNext]_all
===============================================================================
