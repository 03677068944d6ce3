------------------------------ MODULE MCServices ------------------------------
(* Services for TLC: what a behaviour is not of rests in one of its initial  *)
(* states.                                                                   *)
EXTENDS Services

CONSTANTS full, group, cleanup, endpoint

MCRuns     == {full, group}
MCGroups   == {group}
MCClearers == {cleanup, endpoint}

MCInit ==
    /\ part \in Parts
    /\ Init
    /\ Sc!Init /\ (part = "scheduler" \/ ~(scEnabled \/ scOn["backup"]))
    /\ Mt!Init /\ (part = "matches" \/ mtWhen = [e \in Events |-> 0])
    /\ Mg!Init /\ (part = "migrations" \/ mgDb = Mg!Old(84, FALSE, {}))
    /\ Gr!Init
    /\ part = "groups" \/ (
          ~grGroup[1].there /\ grLive = [i \in M3UIds |-> "none"])

MCSpec == MCInit /\ [][SumNext]_all /\ Fairness
===============================================================================
