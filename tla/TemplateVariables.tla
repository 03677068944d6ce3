-------------------------- MODULE TemplateVariables --------------------------
(* What the variables of a template say about a game, and when a condition   *)
(* of a template holds (templates/variables/, templates/conditions.py).      *)
(*                                                                           *)
(* A variable is named by whom it is about and what it tells:                *)
(* opponent_record is <<"opponent", "record">>.  What it says is a tuple,    *)
(* Nothing when the code returns "".  Only who, what and how much is kept of *)
(* a wording, so that saying the same in two forms is one variable here.     *)
(*                                                                           *)
(* A context c is [us, league, sport, stats, here, next, last, feed, now]: a *)
(* team, its statistics, and a game, the next and the last, each a set of at *)
(* most one element.  A game is [event, home, opponent, stats, odds,         *)
(* segment]: home is whether we are at home, stats are the opponent's.       *)
EXTENDS Integers, Sequences, FiniteSets

Nothing == <<>>
Say(b, x) == IF b THEN x ELSE Nothing
The(S) == CHOOSE x \in S : TRUE
None == -1     \* of a score, a position, a lap

-----------------------------------------------------------------------------
(* Statistics of a team: s = [team, record (wins, losses, ties), rank, seed, *)
(* back, points, against, conference, division, streak]; zeros and "" are    *)
(* what the provider does not tell, back may be None.                        *)

\* Ties count half; the result is in thousandths, and 1000 for a team that
\* has won all its games.
Percentage(w, l, t) ==
    IF w + l + t = 0 THEN 0 ELSE (1000 * (2 * w + t)) \div (2 * (w + l + t))

Record(s) ==
    LET r == s.record
    IN  [record |-> <<s.team, r>>, wins |-> <<s.team, r[1]>>,
         losses |-> <<s.team, r[2]>>, ties |-> <<s.team, r[3]>>,
         win_pct |-> <<s.team, Percentage(r[1], r[2], r[3])>>]

Ranking(s) == [rank |-> Say(s.rank # 0, <<s.team, s.rank>>),
               is_ranked |-> Say(s.rank # 0, <<s.team>>)]

Standing(s) ==
    [seed |-> Say(s.seed # 0, <<s.team, s.seed>>),
     games_back |-> Say(s.back # None, <<s.team, s.back>>)]

Points(s) == [ppg |-> Say(s.points # 0, <<s.team, s.points>>),
              papg |-> Say(s.against # 0, <<s.team, s.against>>)]

Conference(s) ==
    [conference |-> Say(s.conference # "", <<s.team, s.conference>>),
     division |-> Say(s.division # "", <<s.team, s.division>>)]

Length(n) == IF n < 0 THEN 0 - n ELSE n
Streak(s) ==
    LET n == s.streak
    IN  [streak |-> Say(n # 0, <<s.team, n>>),
         streak_length |-> Say(n # 0, <<s.team, Length(n)>>),
         streak_type |-> CASE n > 0 -> <<s.team, "win">>
                           [] n < 0 -> <<s.team, "loss">>
                           [] OTHER -> Nothing,
         win_streak |-> Say(n > 0, <<s.team, n>>),
         loss_streak |-> Say(n < 0, <<s.team, 0 - n>>)]

RecordNames == {"record", "wins", "losses", "ties", "win_pct"}
RankNames == {"rank", "is_ranked"}
StandingNames == {"seed", "games_back"}
PointNames == {"ppg", "papg"}
ConferenceNames == {"conference", "division"}
StreakNames == {"streak", "streak_length", "streak_type", "win_streak",
                "loss_streak"}
StatNames == RecordNames \cup RankNames \cup StandingNames \cup PointNames
             \cup ConferenceNames \cup StreakNames
\* Of a side of the game fewer things can be told.
SideStatNames == {"record", "rank", "seed", "ppg", "streak", "streak_length",
                  "win_streak", "loss_streak"} \cup ConferenceNames

Fact(s, what) ==
    CASE what \in RecordNames -> Record(s)[what]
      [] what \in RankNames -> Ranking(s)[what]
      [] what \in StandingNames -> Standing(s)[what]
      [] what \in PointNames -> Points(s)[what]
      [] what \in ConferenceNames -> Conference(s)[what]
      [] OTHER -> Streak(s)[what]

\* Whether we are at home is asked anew of every game, by the team's id.
AtHome(c, g) == g.event.home = c.us

\* Mutant: the team of the channel is always at home.
SideStatsOfUs(c, G, side) ==
    UNION {IF side = "home_team" THEN c.stats ELSE g.stats : g \in G}

\* Whose statistics are meant: ours, the opponent's, or those of a side.
OurStats(c, G) == c.stats
TheirStats(c, G) == UNION {g.stats : g \in G}
SideStats(c, G, side) ==
    UNION {IF AtHome(c, g) = (side = "home_team") THEN c.stats ELSE g.stats :
              g \in G}

StatOf(S, what) == IF S = {} THEN Nothing ELSE Fact(The(S), what)
StatVariable(c, G, n) ==
    StatOf(CASE n[1] = "team" -> OurStats(c, G)
             [] n[1] = "opponent" -> TheirStats(c, G)
             [] OTHER -> SideStats(c, G, n[1]), n[2])

-----------------------------------------------------------------------------
(* Names, places and times                                                   *)

Other(c, g) == IF AtHome(c, g) THEN g.event.away ELSE g.event.home

Identity(c, G, what) ==
    CASE what = "team_name" -> <<"name", c.us>>
      [] what = "league" -> <<"league", c.league>>
      [] what = "sport" -> Say(c.sport # "", <<"sport", c.sport>>)
      [] G = {} -> Nothing
      [] what = "opponent" -> <<"name", Other(c, The(G))>>
      [] what = "matchup" ->
             <<"at", The(G).event.away, The(G).event.home>>

\* A game nobody hosts is never "at".
Place(c, G, what) ==
    IF G = {} THEN Nothing ELSE
    LET g == The(G)
        e == g.event
    IN  CASE what = "is_home" -> <<AtHome(c, g)>>
          [] what = "vs_at" ->
                 <<IF e.neutral \/ AtHome(c, g) THEN "vs" ELSE "at">>
          [] what = "home_team" -> <<"name", e.home>>
          [] what = "away_team" -> <<"name", e.away>>
          [] what = "at_vs" ->
                 <<IF ~e.neutral /\ e.sport \in {"football", "basketball",
                                                 "baseball", "hockey"}
                     THEN "at" ELSE "vs">>

\* The feed of a team: which side of the game it is needs the game.
Feed(c, G, what) ==
    IF c.feed = {} THEN Nothing ELSE
    LET t == The(c.feed)
    IN  CASE what = "feed_team" -> <<"name", t>>
          [] G = {} -> Nothing
          [] what = "feed_home_away" ->
                 <<IF The(G).event.home = t THEN "Home" ELSE "Away">>

\* Times are hours, a day has 24; the day of the game counts from today.
Time(c, G, what) ==
    IF G = {} THEN Nothing ELSE
    LET s == The(G).event.start
        days == (s \div 24) - (c.now \div 24)
        late == IF s % 24 >= 17 THEN "tonight" ELSE "today"
    IN  CASE what = "game_time" -> <<s % 24>>
          [] what = "game_date" -> <<s \div 24>>
          [] what = "today_tonight" -> <<late>>
          [] what = "days_until" -> <<IF days > 0 THEN days ELSE 0>>
          [] what = "relative_day" ->
                 <<CASE days <= 0 -> late
                     [] days = 1 -> "tomorrow"
                     [] days \in 2..6 -> "weekday"
                     [] OTHER -> "date">>

Venue(c, G, what) ==
    Say(\E g \in G : what \in g.event.venue, <<what>>)

-----------------------------------------------------------------------------
(* Scores and results: e.score is <<home, away>>, each possibly None         *)

\* Mutant: the home team's score is taken for ours.
OursAtHome(c, g) == g.event.score

Scored(e) == e.score[1] # None /\ e.score[2] # None
Ours(c, g) == IF AtHome(c, g) THEN g.event.score
              ELSE <<g.event.score[2], g.event.score[1]>>

\* What we have of the score: ours first.  Nothing of this asks whether the
\* game is over.
Score(c, G, what) ==
    IF G = {} THEN Say(what = "score_differential", <<0>>) ELSE
    LET o == Ours(c, The(G))
        d == o[1] - o[2]
    IN  CASE what = "team_score" -> Say(o[1] # None, <<o[1]>>)
          [] what = "opponent_score" -> Say(o[2] # None, <<o[2]>>)
          [] ~Scored(The(G).event) ->
                 Say(what = "score_differential", <<0>>)
          [] what = "final_score" -> o
          [] what = "score_diff" -> <<d>>
          [] what = "score_differential" -> <<Length(d)>>
          [] what = "result" ->
                 <<CASE d > 0 -> "W" [] d < 0 -> "L" [] OTHER -> "T">>

SideScore(c, G, what) ==
    IF G = {} THEN Nothing ELSE
    LET s == The(G).event.score
    IN  CASE what = "home_team_score" -> Say(s[1] # None, <<s[1]>>)
          [] what = "away_team_score" -> Say(s[2] # None, <<s[2]>>)
          [] what = "score" -> Say(Scored(The(G).event), s)

\* What an event channel tells of the result, of a game in a final state.
EventResult(c, G, what) ==
    IF G = {} \/ ~Scored(The(G).event)
       \/ The(G).event.state \notin {"final", "post"} THEN Nothing ELSE
    LET e == The(G).event
        d == e.score[1] - e.score[2]
        first == IF what = "winner" THEN d > 0 ELSE d < 0
    IN  CASE what = "event_result" -> <<e.home, e.score[1], e.away, e.score[2]>>
          [] d = 0 -> Nothing
          [] OTHER -> <<"name", IF first THEN e.home ELSE e.away>>

\* The status says "ot".
Overtime(c, G, what) ==
    Say(\E g \in G : "ot" \in g.event.detail, <<"OT">>)

\* utilities/event_status.is_event_final, the one place that decides it.
IsFinal(e) == e.state \in {"final", "post", "completed"} \/ "final" \in e.detail

-----------------------------------------------------------------------------
(* Season, odds, broadcasts and copy of the provider                         *)

Season(c, G, what) ==
    IF G = {} THEN Nothing ELSE
    LET t == The(G).event.season
    IN  IF what = "season_type" THEN Say(t # "", <<t>>)
        ELSE Say(t = (CASE what = "is_playoff" -> "postseason"
                        [] what = "is_preseason" -> "preseason"
                        [] OTHER -> "regular"), <<"true">>)

\* A game has odds as our line and theirs; a line of zero is not told.
Odds(c, G, what) ==
    LET O == UNION {g.odds : g \in G}
    IN  IF O = {} THEN Nothing
        ELSE CASE what = "has_odds" -> <<"true">>
               [] what = "odds_moneyline" -> Say(The(O)[1] # 0, <<The(O)[1]>>)
               [] OTHER -> Say(The(O)[2] # 0, <<The(O)[2]>>)

\* National networks first, subscriptions last, in the order given.
National(b) == b.kind = "national"
Subscription(b) == b.kind = "subscription"
Sorted(bs) ==
    SelectSeq(bs, National)
    \o SelectSeq(bs, LAMBDA b : ~National(b) /\ ~Subscription(b))
    \o SelectSeq(bs, Subscription)
Broadcast(c, G, what) ==
    LET bs == IF G = {} THEN <<>> ELSE The(G).event.aired
    IN  CASE what = "broadcast_simple" -> Sorted(bs)
          [] what = "broadcast_network" ->
                 Say(bs # <<>>, <<Head(Sorted(bs))>>)
          [] what = "broadcast_national_network" -> SelectSeq(bs, National)
          [] OTHER -> <<\E i \in DOMAIN bs : National(bs[i])>>

\* What the provider writes is passed on as it is.
CopyNames == {"game_recap", "game_event_note", "game_preview",
              "series_summary", "home_last_five", "away_last_five",
              "soccer_match_note"}
Copy(c, G, what) ==
    Say(\E g \in G : what \in g.event.copy, <<what>>)
\* The prose on the recent form, the away team first.
Form(c, G, what) ==
    IF G = {} THEN Nothing
    ELSE LET e == The(G).event
         IN  Say("away_last_five" \in e.copy, <<e.away>>)
             \o Say("home_last_five" \in e.copy, <<e.home>>)

-----------------------------------------------------------------------------
(* Fights, races and tennis                                                  *)

Combat == {"mma", "boxing"}
Decision == {"unanimous", "split", "majority"}
Of(sports, G) == G # {} /\ The(G).event.sport \in sports

\* Fighters are the teams of the event.
Fighters(c, G, what) ==
    IF ~Of(Combat, G) THEN Nothing ELSE
    LET e == The(G).event
    IN  CASE what = "fighter1" -> <<"name", e.home>>
          [] what = "fighter2" -> <<"name", e.away>>
          [] what = "matchup_combat" -> <<"vs", e.home, e.away>>
          [] what = "bout_count" -> Say(e.bouts # <<>>, <<Len(e.bouts)>>)

\* The part of the card this channel is for, whatever the sport.
Segment(c, G, what) ==
    Say(\E g \in G : g.segment # "", <<The(G).segment>>)

\* The bouts of a part of the card, and when it begins.
Card(c, G, what) ==
    IF ~Of(Combat, G) THEN Nothing ELSE
    LET e == The(G).event
        InPart(b) == b.segment = what[1]
    IN  IF what[2] = "time"
        THEN Say(what[1] \in DOMAIN e.times, <<e.times[what[1]]>>)
        ELSE SelectSeq(e.bouts, InPart)

\* The method, and with it the scores of a decision or the end of a finish.
Finish(e) == Say(e.round # None, <<e.round>>)
FightResult(c, G, what) ==
    IF ~Of(Combat, G) THEN Nothing ELSE
    LET e == The(G).event
        judged == Say(e.method \in Decision, e.cards)
    IN  CASE what = "finish_info" -> Finish(e)
          [] e.method = "" -> Nothing
          [] what = "fight_result" -> <<e.method>>
          [] what = "judge_scores" -> judged
          [] what = "fight_summary" ->
                 <<e.method>> \o IF e.method \in Decision THEN judged
                                 ELSE Finish(e)

\* A session is [code, start, results], a result [driver, place, grid].
Session(e, code) == {e.sessions[i] : i \in {j \in DOMAIN e.sessions :
                                               e.sessions[j].code = code}}
Qualifying(e) ==
    IF Session(e, "qualifying") # {} THEN Session(e, "qualifying")
    ELSE Session(e, "sprint_qualifying")
Results(S) == IF S = {} THEN <<>> ELSE The(S).results
FirstDriver(rs) == Say(rs # <<>>, <<rs[1].driver>>)

\* The session after this channel's, in the order of their times.
NextSession(e, code) ==
    LET later == {s \in {e.sessions[i] : i \in DOMAIN e.sessions} :
                     \E t \in Session(e, code) : s.start > t.start}
    IN  {s \in later : \A t \in later : s.start <= t.start}

\* Laps of the stages add up.
StageEnd(e, n) ==
    LET sum[i \in 0..Len(e.stages)] ==
            IF i = 0 THEN 0 ELSE sum[i - 1] + e.stages[i]
    IN  Say(Len(e.stages) >= n, <<sum[n]>>)

Race(c, G, what) ==
    IF ~Of({"racing"}, G) THEN Nothing ELSE
    LET g == The(G)
        e == g.event
    IN  CASE what = "race_name" -> <<e.id>>
          [] what = "session_type" -> Say(g.segment # "", <<g.segment>>)
          [] what = "next_session_name" ->
                 IF g.segment = "" \/ NextSession(e, g.segment) = {}
                 THEN Nothing ELSE <<The(NextSession(e, g.segment)).code>>
          [] what = "pole_position" ->
                 FirstDriver(SelectSeq(Results(Qualifying(e)),
                                LAMBDA r : r.grid = 1 \/ r.place = 1))
          [] what = "race_winner" ->
                 FirstDriver(SelectSeq(Results(Session(e, "race")),
                                LAMBDA r : r.place = 1))
          [] what = "stage_2_laps" -> StageEnd(e, 2)

Tennis(c, G, what) ==
    IF ~Of({"tennis"}, G) THEN Nothing ELSE
    LET e == The(G).event
    IN  CASE what = "player1" -> <<"name", e.away>>
          [] what = "player2" -> <<"name", e.home>>
          [] what = "tennis_result" ->
                 Say("game_recap" \in e.copy, <<"game_recap">>)
          [] OTHER -> Say(what \in e.draw, <<what>>)

-----------------------------------------------------------------------------
(* Conditions, of a context and a game (ConditionEvaluator); the value v of   *)
(* a row, if it has one, is a count or a list of names.                      *)

\* Places, streaks and ranks.
TeamCondition(cond, v, c, g) ==
    LET ranked(S, n) == \E s \in S : s.rank # 0 /\ s.rank <= n
    IN  CASE cond = "is_home" -> g.home
          [] cond = "is_away" -> ~g.home
          [] cond = "win_streak" ->
                 v.count # 0 /\ \E s \in c.stats : s.streak >= v.count
          [] cond = "loss_streak" ->
                 v.count # 0 /\ \E s \in c.stats : 0 - s.streak >= v.count
          [] cond = "is_ranked" -> ranked(c.stats, 25)
          [] cond = "is_ranked_opponent" -> ranked(g.stats, 25)
          [] cond = "is_ranked_matchup" ->
                 ranked(c.stats, 25) /\ ranked(g.stats, 25)
          [] cond = "is_top_ten_matchup" ->
                 ranked(c.stats, 10) /\ ranked(g.stats, 10)

\* Season, conference, broadcast, odds, the state of the game and its copy.
\* A market of cable networks is national to a variable and not to this.
GameCondition(cond, v, c, g) ==
    LET e == g.event
    IN  CASE cond = "always" -> TRUE
          [] cond = "is_playoff" -> e.season = "postseason"
          [] cond = "is_conference_game" ->
                 \E s \in c.stats, t \in g.stats :
                    s.conference # "" /\ s.conference = t.conference
          [] cond = "is_national_broadcast" ->
                 \E i \in DOMAIN e.aired : /\ National(e.aired[i])
                                           /\ ~e.aired[i].cable
          [] cond = "has_odds" -> g.odds # {}
          [] cond = "is_final" -> IsFinal(e)
          [] cond = "is_not_final" -> ~IsFinal(e)
          [] cond = "has_recap" -> "game_recap" \in e.copy
          [] cond = "has_preview" -> "game_preview" \in e.copy
          [] cond = "has_structured_preview" ->
                 {"home_last_five", "away_last_five"} \cap e.copy # {}
          [] cond = "is_neutral_site" -> e.neutral

\* Fights, race sessions, and what the event is.
EventCondition(cond, v, c, g) ==
    LET e == g.event
    IN  CASE cond = "is_knockout" ->
                 e.sport \in Combat /\ e.method \in {"ko", "tko"}
          [] cond = "is_decision" -> e.sport \in Combat /\ e.method \in Decision
          [] cond = "is_race_session" ->
                 e.sport = "racing" /\ g.segment = "race"
          [] cond = "has_results" ->
                 /\ e.sport = "racing"
                 /\ \E s \in Session(e, g.segment) :
                       \E i \in DOMAIN s.results : s.results[i].place # None
          [] cond = "league_is" -> e.league \in v.names
          [] cond = "sport_is" -> e.sport \in v.names

TeamConditions == {"is_home", "is_away", "win_streak", "loss_streak",
                   "is_ranked", "is_ranked_opponent", "is_ranked_matchup",
                   "is_top_ten_matchup"}
GameConditions == {"always", "is_playoff", "is_conference_game",
                   "is_national_broadcast", "has_odds", "is_final",
                   "is_not_final", "has_recap", "has_preview",
                   "has_structured_preview", "is_neutral_site"}
EventConditions == {"is_knockout", "is_decision", "is_race_session",
                    "has_results", "league_is", "sport_is"}

\* Without a game nothing holds, and an unknown condition never does.
Evaluate(cond, v, c, G) ==
    /\ G # {}
    /\ CASE cond \in TeamConditions -> TeamCondition(cond, v, c, The(G))
         [] cond \in GameConditions -> GameCondition(cond, v, c, The(G))
         [] cond \in EventConditions -> EventCondition(cond, v, c, The(G))
         [] OTHER -> FALSE
=============================================================================
