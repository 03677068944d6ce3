-------------------------- MODULE MCChannelNumbering --------------------------
(* Small instances of ChannelNumbering: a1 and a2 are two feeds of one event,  *)
(* b and c are events of their own; b plays in another league.                 *)
EXTENDS ChannelNumbering

CONSTANTS a1, a2, b, c

MCEventOf  == [x \in Channels |-> IF x \in {a1, a2} THEN "A" ELSE x]
MCLeagueOf == [x \in Channels |-> IF x = b THEN "two" ELSE "one"]
MCNoStart  == [l \in {LeagueOf[x] : x \in Channels} |-> NoNumber]

Existing(o) == SelectSeq(o, LAMBDA x : x \in Channels)
MCOrders    == {Existing(<<a1, a2, b, c>>), Existing(<<c, b, a1, a2>>)}
MCOneOrder  == {Existing(<<a1, a2, b, c>>)}

Cfg(manual, mode, gap, first, last) ==
    [manual |-> manual, mode |-> mode, gap |-> gap, first |-> first,
     last |-> last]

\* A range with room in every mode, also the manual one.  In the gap mode it
\* runs out in the middle of a pass when the foreign number is taken, or when
\* locked channels leave holes.
MCModes   == {Cfg(FALSE, "gap", 2, 1, 6), Cfg(FALSE, "strict", 2, 1, 5),
              Cfg(FALSE, "compact", 2, 1, 8), Cfg(TRUE, "gap", 2, 1, 8)}
\* From each to another the mode, the gap or the range changes.
MCSwitch  == {Cfg(FALSE, "compact", 2, 1, 8), Cfg(FALSE, "gap", 2, 1, 8),
              Cfg(FALSE, "gap", 3, 1, 8), Cfg(FALSE, "gap", 2, 3, 9)}
MCExternals == {{}, {2}}
MCNoForeign == {{}}
=============================================================================
