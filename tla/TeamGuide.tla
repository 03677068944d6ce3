------------------------------ MODULE TeamGuide ------------------------------
(***************************************************************************)
(* The guide of a team's channel (consumers/team_epg.py, filler/): the     *)
(* programmes of its games, then day by day what fills the gaps between    *)
(* them, cut at the boundaries of the time blocks.                         *)
(*                                                                         *)
(* Time is counted in units of the user's time zone, from the beginning of *)
(* day 0; a game is named by its start.  Changes of the clock are left out.*)
(***************************************************************************)
EXTENDS Naturals, FiniteSetsExt

CONSTANTS
    DayLen,     \* units in a day
    Block,      \* units in a time block; a day has a whole number of them
    Behind,     \* units that the user's time zone is behind UTC
    Starts,     \* when games may start
    MaxGames,   \* bound of the schedule
    Nows,       \* when the guide may be rendered
    Lookback,   \* units before now at which the guide begins
    Ahead       \* days after now for which it is written

None == 0           \* no game

VARIABLES
    in,         \* what the guide is made from
    guide,      \* the programmes so far
    stage,      \* "games", "days" or "done"
    day         \* the day to be filled next

vars == <<in, guide, stage, day>>

Fillers == {"pregame", "postgame", "idle"}

\* The durations of the sport and of the template (game_duration_mode); the
\* registers that the template enables; whether the provider calls games that
\* are over final.
Init ==
    /\ in \in [games : UNION {kSubset(k, Starts) : k \in 0..MaxGames},
               now : Nows, sport : {1, 2}, template : {1, 2},
               on : {Fillers} \cup {Fillers \ {f} : f \in Fillers},
               mode : {"postgame", "idle"}, final : BOOLEAN]
    /\ guide = {} /\ stage = "games" /\ day = 0

-----------------------------------------------------------------------------
(* The clock                                                                *)

DayOf(t)   == t \div DayLen
Midnight(d) == d * DayLen
Start      == in.now - Lookback
LastDay    == DayOf(in.now) + Ahead

Later(s, t)   == IF s > t THEN s ELSE t
Earlier(s, t) == IF s < t THEN s ELSE t
First(S)   == IF S = {} THEN None ELSE Min(S)
Final(S)   == IF S = {} THEN None ELSE Max(S)

\* create_filler_chunks: from..to, cut at the boundaries of the blocks.
Chunks(from, to) ==
    {[from |-> Later(from, b * Block), to |-> Earlier(to, (b + 1) * Block)] :
        b \in {c \in (from \div Block)..(to \div Block) :
                  /\ from < to /\ c * Block < to}}

GamesOf(d) == {g \in in.games : DayOf(g) = d}
EndOf(g)   == g + in.sport     \* _estimate_event_end

-----------------------------------------------------------------------------
(* The games                                                                *)

\* A game that is over and final belongs to the past if its day, in UTC, is
\* before the user's.  One of today stays: team_processor.py 509, which calls
\* for every guide, always sets include_final_events.
Past(g) == /\ in.final /\ g + in.template < in.now
           /\ DayOf(g + Behind) < DayOf(in.now)

Listed == {g \in in.games : /\ ~Past(g) /\ g >= Start
                            /\ DayOf(g) <= LastDay}

\* A programme of a game, or of what is around it: the next and last game that
\* its texts name.
Games ==
    /\ stage = "games"
    /\ stage' = "days" /\ day' = DayOf(Start)
    /\ guide' = {[from |-> g, to |-> g + in.template, kind |-> "game",
                  next |-> g, last |-> g] : g \in Listed}
    /\ UNCHANGED in

-----------------------------------------------------------------------------
(* What fills a day d                                                       *)

DayStart(d) == IF d = DayOf(Start) THEN Start ELSE Midnight(d)
DayEnd(d)   == Midnight(d + 1)

\* The last game of the day before, when it lasts into d.
Crossing(d) == LET g == IF d = 0 THEN None ELSE Final(GamesOf(d - 1))
               IN  IF g # None /\ EndOf(g) > DayStart(d) THEN g ELSE None

\* Where the guide of d is free.
Free(d) == IF Crossing(d) = None THEN DayStart(d) ELSE EndOf(Crossing(d))

NextAfter(d)  == First({g \in in.games : DayOf(g) > d})
LastBefore(d) == Final({g \in in.games : g < DayStart(d)})

Filler(from, to, kind, next, last) ==
    IF kind \notin in.on THEN {}
    ELSE {[from |-> c.from, to |-> c.to, kind |-> kind, next |-> next,
           last |-> last] : c \in Chunks(from, to)}

\* Mutant: a game of the night before is not looked at.
GameDayAnew(d) ==
    LET g == First(GamesOf(d))
        h == Final(GamesOf(d))
    IN  Filler(DayStart(d), g, "pregame", g, LastBefore(d))
        \cup IF DayOf(h) # DayOf(EndOf(h)) THEN {}
             ELSE Filler(EndOf(h), DayEnd(d), "postgame", NextAfter(d), h)

\* Before the first game and after the last; what is between games stays
\* empty.  A game that lasts beyond midnight is left to the next day.
GameDay(d) ==
    LET g == First(GamesOf(d))
        h == Final(GamesOf(d))
    IN  Filler(Free(d), g, "pregame", g, LastBefore(d))
        \cup IF DayOf(h) # DayOf(EndOf(h)) THEN {}
             ELSE Filler(EndOf(h), DayEnd(d), "postgame", NextAfter(d), h)

\* Mutant: the last game is looked for before the guide, not before the day.
IdleDayFromStart(d) ==
    LET last == Final({g \in in.games : g < Start})
    IN  (IF Crossing(d) # None /\ in.mode = "postgame"
         THEN Filler(DayStart(d), Earlier(EndOf(Crossing(d)), DayEnd(d)),
                     "postgame", NextAfter(d), Crossing(d))
         ELSE {})
        \cup Filler(Free(d), DayEnd(d), "idle", NextAfter(d),
                    IF last # None \/ d = 0 THEN last
                    ELSE Final(GamesOf(d - 1)))

\* A game that lasts into the day is followed by idle programmes, and shown
\* under a postgame programme until it ends if the user wants that.
IdleDay(d) ==
    (IF Crossing(d) # None /\ in.mode = "postgame"
     THEN Filler(DayStart(d), Earlier(EndOf(Crossing(d)), DayEnd(d)),
                 "postgame", NextAfter(d), Crossing(d))
     ELSE {})
    \cup Filler(Free(d), DayEnd(d), "idle", NextAfter(d),
                IF LastBefore(d) # None \/ d = 0 THEN LastBefore(d)
                ELSE Final(GamesOf(d - 1)))

FillDay ==
    /\ stage = "days"
    /\ guide' = guide \cup (IF GamesOf(day) # {} THEN GameDay(day)
                            ELSE IdleDay(day))
    /\ day' = day + 1
    /\ stage' = IF day = LastDay THEN "done" ELSE "days"
    /\ UNCHANGED in

Next == Games \/ FillDay

Spec == Init /\ [][Next]_vars

-----------------------------------------------------------------------------
(* What must hold                                                           *)

TypeOK ==
    /\ \A p \in guide : /\ p.from \in Nat /\ p.to \in Nat
                        /\ p.kind \in Fillers \cup {"game"}
                        /\ {p.next, p.last} \subseteq in.games \cup {None}
    /\ stage \in {"games", "days", "done"} /\ day \in Nat

At(t) == {p \in guide : p.from <= t /\ t < p.to}

\* The times t at which the guide is known to show a game and a filler: the
\* template lets games last longer than the fillers assume, or a postgame
\* programme runs beside the end of a game that lasts beyond midnight.
Doubled(t) == \E g \in in.games :
                 \/ EndOf(g) <= t /\ t < g + in.template
                 \/ /\ GamesOf(DayOf(g) + 1) = {} /\ in.mode = "postgame"
                    /\ Midnight(DayOf(g) + 1) <= t /\ t < EndOf(g)

\* The times at which it is known to show nothing: between the games of a
\* day, in a game that is not listed or that the template cuts short.
Bare(t) == \/ \E g, h \in in.games : DayOf(g) = DayOf(h) /\ g <= t /\ t < h
           \/ \E g \in in.games : g <= t /\ t < EndOf(g)

\* Fillers end where the games begin and go on where they end, across blocks
\* and midnights: apart from the times above, a finished guide shows exactly
\* one programme at a time (none only where a register is switched off), and
\* no filler is longer than a block.
EveryMomentOnce ==
    stage = "done" =>
       /\ \A t \in Start..(Midnight(LastDay + 1) - 1) :
             LET fillers == {p \in At(t) : p.kind # "game"}
             IN  /\ Cardinality(fillers) <= 1
                 /\ fillers # At(t) /\ fillers # {} => Doubled(t)
                 /\ At(t) = {} => Bare(t) \/ in.on # Fillers
       /\ \A p \in guide :
             p.kind # "game" => /\ p.from < p.to
                                /\ (p.to - 1) \div Block = p.from \div Block

\* Texts like "next game" and "last result" are true of the moment at which
\* the filler is shown, not of the moment at which it was rendered.
TextsTellTheGamesAround ==
    \A p \in guide :
       p.kind # "game" =>
          /\ p.next = First({g \in in.games : g >= p.to})
          /\ p.last = Final({g \in in.games : g < p.from})
=============================================================================
