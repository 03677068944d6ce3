---------------------------- MODULE EventMatching ----------------------------
(***************************************************************************)
(* Which events a classified text may be matched to: the sub-matchers of   *)
(* consumers/matching (team_matcher.py, event_matcher.py,                  *)
(* racing_matcher.py, tennis_matcher.py).  A matcher that walks leagues or *)
(* candidates in the order of a Python set answers with any of the results *)
(* that order may give: an answer is a set of events, and every operator   *)
(* below that ends in "Answers" is the set of the possible answers.        *)
(*                                                                         *)
(* Fuzzy scores are abstracted to exact, similar or unlike names.  Stored  *)
(* matches (modelled in MatchCache), the time zones of providers, the      *)
(* second try without parentheses and the restrictions to majors and draws *)
(* are left out.                                                           *)
(***************************************************************************)
EXTENDS StreamClassifier

CONSTANTS
    DayLen,     \* hours in a day
    Today,
    Window,     \* days back (MATCH_WINDOW_DAYS)
    Tolerance,  \* between a programme and a game (ANCHOR_MATCH_TOLERANCE)
    Slack,      \* and a session of a race (RACING_ANCHOR_TOLERANCE)
    Session,    \* hours that a session lasts
    Similar,    \* pairs of names that look alike
    Aliases     \* <<name, league, team>>; the league Any if built in

Any == "any"

DayOf(t) == t \div DayLen
Apart(s, t) == IF s > t THEN s - t ELSE t - s
Days(e) == {DayOf(t) : t \in e.sessions \cup {e.start}}

-----------------------------------------------------------------------------
(* Names                                                                    *)

Exact == 3
Alike == 2
Unlike == 0

\* _resolve_alias: the user's aliases of the league, then those built in.
Resolved(n, l) ==
    LET own   == {a \in Aliases : a[1] = n /\ a[2] = l}
        built == {a \in Aliases : a[1] = n /\ a[2] = Any}
    IN  {a[3] : a \in IF own # {} THEN own ELSE built}

Like(n, m) == IF n = m THEN Exact ELSE IF <<n, m>> \in Similar THEN Alike
              ELSE Unlike

\* _side_score
Side(n, m, l) == IF m \in Resolved(n, l) THEN Exact ELSE Like(n, m)

Lower(a, b)  == IF a < b THEN a ELSE b
Higher(a, b) == IF a > b THEN a ELSE b

\* Two names must fit the two teams, in either order; one must fit exactly.
Score(names, e) ==
    LET S(i, j) == Side(names[i], e.teams[j], e.league)
    IN  IF Len(names) = 2
        THEN Higher(Lower(S(1, 1), S(2, 2)), Lower(S(1, 2), S(2, 1)))
        ELSE IF Exact \in {S(1, 1), S(1, 2)} THEN Exact ELSE Unlike

-----------------------------------------------------------------------------
(* Games of teams                                                           *)

\* Mutant: a game is looked for whatever the time of the programme.
OnAirAlways(e, a) == TRUE

\* a is the beginning of the programme, or None: matched by the name.
OnAir(e, a) == a = None \/ Apart(e.start, a) <= Tolerance

InWindow(e) == DayOf(e.start) + Window >= Today

\* The hint at a sport counts where there is none at a league.
SportAgrees(x, e) == \/ x.sport = {} \/ x.hint # {}
                     \/ SportOf[e.league] \in x.sport

Hinted(x, leagues) == IF x.hint = {} THEN leagues ELSE leagues \cap x.hint

\* A date whose format is known rules out games that are not of about it.
OffDate(x, e) ==
    x.day # None /\ x.trusted /\ Apart(x.day, DayOf(e.start)) > 1

Fitting(x, names, pool, a) ==
    {e \in pool : /\ InWindow(e) /\ OnAir(e, a) /\ SportAgrees(x, e)
                  /\ Score(names, e) # Unlike}

\* The ranking of _match_against_multi_league_events: score, the text's date,
\* then the distance to the programme, or to the text's time, future games
\* first, and near ones.
Better(x, names, a, d, e) ==
    LET OffDay(f)  == IF x.day = None THEN 0 ELSE Apart(x.day, DayOf(f.start))
        OffTime(f) == IF x.time = None THEN 0
                      ELSE Apart(f.start % DayLen, x.time)
        Coming(f)  == DayOf(f.start) >= Today
        Far(f)     == Apart(DayOf(f.start), Today)
        nearer     == IF a # None THEN Apart(d.start, a) < Apart(e.start, a)
                      ELSE \/ OffTime(d) < OffTime(e)
                           \/ /\ OffTime(d) = OffTime(e)
                              /\ \/ Coming(d) /\ ~Coming(e)
                                 \/ Coming(d) = Coming(e) /\ Far(d) < Far(e)
    IN  \/ Score(names, d) > Score(names, e)
        \/ /\ Score(names, d) = Score(names, e)
           /\ \/ OffDay(d) < OffDay(e)
              \/ OffDay(d) = OffDay(e) /\ nearer

Best(x, names, pool, a) ==
    LET C == {e \in Fitting(x, names, pool, a) : ~OffDate(x, e)}
    IN  {e \in C : \A d \in C : ~Better(x, names, a, d, e)}

\* _reverse_resolve_alias: what a name may stand for, in whatever league.
Meanings(n) == {a \in Aliases : a[1] = n}

\* _try_reverse_alias_match: the names replaced by what they stand for, among
\* the games of the leagues of the aliases.  The programme is forgotten.
ReverseBest(x, pool, leagues) ==
    LET M(i) == IF Meanings(x.names[i]) = {} THEN {x.names[i]}
                ELSE {m[3] : m \in Meanings(x.names[i])}
        all  == Meanings(x.names[1]) \cup Meanings(x.names[2])
        own  == {m[2] : m \in all} \cap leagues
        from == IF own # {} THEN {e \in pool : e.league \in own}
                ELSE IF \E m \in all : m[2] = Any THEN pool ELSE {}
    IN  UNION {Best(x, <<n1, n2>>, from, None) : n1 \in M(1), n2 \in M(2)}

\* match_multi_league.  The names are tried for what they stand for when no
\* game fits, and not when a date rules all of them out.
PairAnswers(x, leagues, pool, a) ==
    LET within == Hinted(x, leagues)
        games  == UNION {pool[l] : l \in within}
        best   == Best(x, x.names, games, a)
        again  == IF Len(x.names) = 2 /\ Fitting(x, x.names, games, a) = {}
                  THEN ReverseBest(x, games, within) ELSE {}
    IN  IF best # {} THEN {{e} : e \in best}
        ELSE IF again # {} THEN {{e} : e \in again} ELSE {{}}

Close(e) == Apart(DayOf(e.start), Today) <= 2

\* match_team_only: all games of a team that is exactly one of the two.
TeamAnswers(x, leagues, pool, a) ==
    {{e \in UNION {pool[l] : l \in Hinted(x, leagues)} :
        /\ Close(e) /\ OnAir(e, a)
        /\ Cardinality({i \in 1..2 :
              Side(x.names[1], e.teams[i], e.league) = Exact}) = 1}}

\* match_all_star: the games between teams of stars.
StarAnswers(x, leagues, pool, a) ==
    {{e \in UNION {pool[l] : l \in leagues \cap x.hint} :
        e.star /\ Close(e) /\ OnAir(e, a)}}

-----------------------------------------------------------------------------
(* Cards, races and tennis                                                  *)

\* What the service tells of a league and day.
On(told, l, d) == IF <<l, d>> \in DOMAIN told THEN told[<<l, d>>] ELSE {}

CardLeagues(leagues) == {l \in leagues : TypeOf[l] = "event_card"}
EventLeagues(leagues, sport) ==
    {l \in leagues : TypeOf[l] = "event" /\ SportOf[l] = sport}
RaceLeagues(leagues)   == EventLeagues(leagues, "racing")
TennisLeagues(leagues) == EventLeagues(leagues, "tennis")

\* Of each of some leagues one answer; the first that is found is taken.
FirstFound(A) == IF UNION A = {} THEN {{}} ELSE {{e} : e \in UNION A}

\* _match_to_event_card: the number or name of the card, or a fighter.
CardAnswers(x, leagues, told) ==
    LET Fits(e) == \/ x.title # "" /\ Like(x.title, e.title) # Unlike
                   \/ \E i \in DOMAIN x.names, j \in 1..2 :
                         Like(x.names[i], e.teams[j]) # Unlike
        Found(l) == {e \in On(told, l, Today) : DayOf(e.start) = Today /\ Fits(e)}
    IN  FirstFound({Found(l) : l \in CardLeagues(leagues)})

\* _covers_instant: a session is on, or nearly.
Covers(e, a) ==
    IF e.sessions = {} THEN Apart(e.start, a) <= Slack
    ELSE \E t \in e.sessions : t <= a + Slack /\ a <= t + Session + Slack

RaceDay(x, a) == IF x.day # None THEN x.day
                 ELSE IF a # None THEN DayOf(a) ELSE Today

\* RacingMatcher: the races of the day that are named, or the only one if the
\* text is of racing and its name not unlike; series that the text names leave
\* only their leagues.
RaceAnswers(x, leagues, told, a) ==
    LET day == RaceDay(x, a)
        within == {l \in RaceLeagues(leagues) :
                      x.series = {} \/ l \in x.series}
        Near(l) == {e \in On(told, l, day) :
                      /\ day \in Days(e)
                      /\ a = None \/ Covers(e, a)}
        Named(l) == {e \in Near(l) : Like(x.title, e.title) = Exact}
        Found(l) == IF /\ Cardinality(Near(l)) = 1 /\ x.racing
                       /\ \A e \in Near(l) : Like(x.title, e.title) # Unlike
                    THEN Near(l) ELSE Named(l)
    IN  FirstFound({Found(l) : l \in within})

TennisDay(x) == IF x.day # None THEN x.day ELSE Today
Around(day)  == {d \in 0..(day + 1) : d + 4 >= day}

\* TennisMatcher: all games on a court, or the game of two players on the day
\* or, if only one fits, within the days around it.
TennisAnswers(x, leagues, told) ==
    LET day == TennisDay(x)
        within == TennisLeagues(leagues)
        Of(l, days) == UNION {On(told, l, d) : d \in days}
        Top(S) == {e \in S : /\ Score(x.names, e) # Unlike
                             /\ \A d \in S :
                                   Score(x.names, d) <= Score(x.names, e)}
        Timely(S) == {e \in S : x.time = None \/ \A d \in S :
                         Apart(e.start % DayLen, x.time) <=
                            Apart(d.start % DayLen, x.time)}
        Only(S)  == IF Cardinality(S) = 1 THEN S ELSE {}
        Found(l) == IF Top(Of(l, {day})) # {} THEN Timely(Top(Of(l, {day})))
                    ELSE Only(Top(Of(l, Around(day))))
    IN  IF NamesPlayers(x) THEN FirstFound({Found(l) : l \in within})
        ELSE {{e \in UNION {Of(l, {day}) : l \in within} :
                  x.title # "" /\ e.title = x.title}}
===============================================================================
