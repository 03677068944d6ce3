------------------------------ MODULE MCChannels ------------------------------
(* ChannelParts for TLC: what a behaviour is not of rests in one of its      *)
(* initial states, so that the sum of the state spaces is checked, not the   *)
(* product.                                                                  *)
EXTENDS ChannelParts

CONSTANTS e1, e2, i1, i2, i3, i4

TwoEvents == {e1, e2}
FourIds   == {i1, i2, i3, i4}

\* Three streams, one of them with an EPG window inside the live time; by the
\* rules, stream 3 comes first and the others tie.
MCSlot == [s \in 1..3 |-> IF s = 2 THEN <<1, 2>> ELSE <<>>]
MCRankings == {[s \in 1..3 |-> IF s = 3 THEN 1 ELSE 2]}

MCInit ==
    /\ part \in Parts
    /\ Init /\ (part = "lifecycle" \/ wanted = {})
    /\ St!Init /\ (part = "streams" \/ (stPool = {} /\ stRules = <<>>))
    /\ Pr!Init /\ (part = "profiles" \/ (prCatalog = {} /\ prSetting = {}))
    /\ Kw!Init /\ (part = "keywords" \/ kwLabel = [s \in Labelled |-> Main])

MCSpec == MCInit /\ [][SumNext]_all /\ Fairness
===============================================================================
