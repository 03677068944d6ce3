-------------------------------- MODULE MCTexts -------------------------------
(* Values for TemplateRendering: the games that the texts are about, the      *)
(* variables that the templates name, and the templates.                     *)
EXTENDS Sequences, Integers, FiniteSets

Tv == INSTANCE TemplateVariables
TokenOf(n, suffix, filters) ==
    [var |-> n, suffix |-> suffix, filters |-> filters]
Plainly(w) == TokenOf(<<"word", w>>, "", <<>>)

Nobody == [id |-> "game", league |-> "nfl", sport |-> "football",
           home |-> "A", away |-> "B", start |-> 42, neutral |-> FALSE,
           venue |-> {"venue", "city"}, score |-> <<Tv!None, Tv!None>>,
           state |-> "scheduled", detail |-> {}, season |-> "regular",
           lines |-> {<<3, 0 - 4>>}, aired |-> <<>>, copy |-> {},
           bouts |-> <<>>, times |-> <<>>, method |-> "", round |-> Tv!None,
           cards |-> <<>>, sessions |-> <<>>, stages |-> <<>>, draw |-> {}]
Network(k, cable) == [kind |-> k, cable |-> cable]
At(e, state, h, a) == [e EXCEPT !.state = state, !.score = <<h, a>>]
EndedAt(e, h, a) == [At(e, "final", h, a) EXCEPT
                      !.copy = {"game_recap", "home_last_five"}]
Soon == [Nobody EXCEPT !.aired = <<Network("local", FALSE),
                                   Network("national", TRUE)>>]
Fight == [Nobody EXCEPT !.league = "ufc", !.sport = "mma", !.lines = {},
             !.bouts = <<[segment |-> "prelims", who |-> 1],
                         [segment |-> "main", who |-> 2]>>,
             !.times = [main |-> 44]]
SessionOf(code, start, results) == [code |-> code, start |-> start,
                                   results |-> results]
GrandPrix == [Nobody EXCEPT !.league = "f1", !.sport = "racing", !.lines = {},
             !.stages = <<10, 20>>,
             !.sessions = <<SessionOf("qualifying", 30, <<>>),
                            SessionOf("race", 54, <<>>)>>]
Placed == [GrandPrix EXCEPT
             !.sessions = <<SessionOf("qualifying", 30,
                        <<[driver |-> "d", place |-> 1, grid |-> Tv!None]>>),
                            SessionOf("race", 54,
                        <<[driver |-> "e", place |-> 1, grid |-> 2]>>)>>]
Untouched == <<[Nobody EXCEPT !.sport = "tennis", !.league = "atp",
                              !.draw = {"tennis_round"}]>>
MCLives ==
    {<<Soon, At(Soon, "in", 1, 0), EndedAt(Soon, 1, 2)>>,
     <<Nobody, [EndedAt(Nobody, 0, 0) EXCEPT !.detail = {"ot", "final"}]>>,
     <<[Nobody EXCEPT !.neutral = TRUE, !.season = "postseason"],
       [Nobody EXCEPT !.neutral = TRUE, !.state = "postponed"]>>,
     <<Fight, [EndedAt(Fight, Tv!None, Tv!None) EXCEPT !.method = "split",
                  !.cards = <<29, 28>>]>>,
     <<GrandPrix, Placed>>,
     Untouched}

MCStats == [A |-> {[team |-> "A", record |-> <<5, 0, 0>>, rank |-> 9,
                    seed |-> 1, back |-> Tv!None, points |-> 20, against |-> 0,
                    conference |-> "east", division |-> "",
                    streak |-> 5]},
            B |-> {[team |-> "B", record |-> <<2, 2, 1>>, rank |-> 30,
                    seed |-> 0, back |-> 3, points |-> 0, against |-> 7,
                    conference |-> "east", division |-> "d",
                    streak |-> 0 - 2]}]

MCNames ==
    {<<"stat", who, what>> : who \in {"team", "opponent"},
                             what \in Tv!StatNames}
    \cup {<<"stat", who, what>> : who \in {"home_team", "away_team"},
                                  what \in Tv!SideStatNames}
    \cup {<<"identity", w>> : w \in {"team_name", "league", "sport",
                                     "opponent", "matchup"}}
    \cup {<<"place", w>> : w \in {"is_home", "vs_at", "home_team",
                                  "away_team", "at_vs"}}
    \cup {<<"feed", w>> : w \in {"feed_team", "feed_home_away"}}
    \cup {<<"time", w>> : w \in {"game_time", "game_date", "today_tonight",
                                 "days_until", "relative_day"}}
    \cup {<<"venue", w>> : w \in {"venue", "city"}}
    \cup {<<"score", w>> : w \in {"team_score", "opponent_score",
             "final_score", "score_diff", "score_differential", "result"}}
    \cup {<<"side_score", w>> : w \in {"home_team_score", "away_team_score",
                                       "score"}}
    \cup {<<"event_result", w>> : w \in {"event_result", "winner", "loser"}}
    \cup {<<"season", w>> : w \in {"season_type", "is_playoff",
                                   "is_preseason", "is_regular_season"}}
    \cup {<<"odds", w>> : w \in {"has_odds", "odds_moneyline",
                                 "odds_opponent_moneyline"}}
    \cup {<<"broadcast", w>> : w \in {"broadcast_simple",
             "broadcast_network", "broadcast_national_network",
             "is_national_broadcast"}}
    \cup {<<"copy", w>> : w \in Tv!CopyNames}
    \cup {<<"fighters", w>> : w \in {"fighter1", "fighter2",
                                     "matchup_combat", "bout_count"}}
    \cup {<<"card", p, w>> : p \in {"main", "prelims"},
                              w \in {"time", "bouts"}}
    \cup {<<"fight", w>> : w \in {"fight_result", "fight_summary",
                                  "finish_info", "judge_scores"}}
    \cup {<<"race", w>> : w \in {"race_name", "session_type",
             "next_session_name", "pole_position", "race_winner",
             "stage_2_laps"}}
    \cup {<<"tennis", w>> : w \in {"player1", "player2", "tennis_result",
                                   "tennis_round"}}
    \cup {<<"form", "last_five_summary">>, <<"overtime", "overtime_text">>,
          <<"segment", "card_segment">>, <<"unknown", "nobody">>,
          <<"legacy", "sport_lower">>, <<"legacy", "result_lower">>}

Var(n) == TokenOf(n, "", <<>>)
Winner == Var(<<"event_result", "winner">>)
Live == <<Plainly("live")>>
NoValue == [count |-> 0, names |-> {}]
Count(n) == [NoValue EXCEPT !.count = n]
Named(x) == [NoValue EXCEPT !.names = {x}]
Row(p, cond, v, title, description) ==
    [priority |-> p, condition |-> cond, value |-> v, title |-> title,
     description |-> description]
Plain == [title |-> <<Plainly("title")>>,
          description |-> <<Var(<<"score", "final_score">>)>>,
          fallbacks |-> <<<<Var(<<"identity", "matchup">>)>>>>]
RowSets ==
    {<<>>,
     <<Row(60, "is_not_final", NoValue, Live, Live),
       Row(50, "is_final", NoValue, <<Winner>>,
           <<Var(<<"copy", "game_recap">>)>>),
       Row(60, "is_final", NoValue, <<>>, <<Winner>>),
       Row(100, "", NoValue, <<>>, <<Var(<<"stat", "team", "rank">>)>>)>>,
     <<Row(70, "has_odds", NoValue, <<Plainly("odds")>>,
           <<Var(<<"venue", "city">>)>>),
       Row(50, "win_streak", Count(3), <<>>,
           <<Var(<<"stat", "team", "streak">>)>>),
       Row(50, "is_home", NoValue, <<Plainly("home")>>, <<Plainly("home")>>),
       Row(40, "", NoValue, <<Plainly("no")>>, <<Plainly("no")>>)>>,
     <<Row(30, "has_results", NoValue, <<>>,
           <<Var(<<"race", "race_winner">>)>>),
       Row(30, "is_decision", NoValue, <<>>,
           <<Var(<<"fight", "fight_summary">>)>>),
       Row(30, "is_conference_game", NoValue, <<Plainly("conf")>>,
           <<TokenOf(<<"score", "result">>, "last", <<"title">>)>>),
       Row(40, "is_neutral_site", NoValue, <<>>, <<Plainly("away")>>),
       Row(50, "league_is", Named("atp"), <<>>,
           <<Var(<<"tennis", "player1">>)>>)>>}
Former ==
    <<[over |-> TRUE, title |-> <<Plainly("over")>>,
       description |-> <<TokenOf(<<"event_result", "loser">>, "last", <<>>)>>],
      [over |-> FALSE, title |-> <<>>, description |-> <<Plainly("soon")>>]>>
MCTemplates ==
    {[for |-> f, register |-> r, rows |-> R, legacy |-> <<>>,
      base |-> IF r = "pregame" THEN Plain
               ELSE [Plain EXCEPT !.fallbacks = <<>>]] :
       f \in {"team", "event"}, R \in RowSets,
       r \in {"programme", "pregame", "postgame"}}
    \cup {[for |-> "team", register |-> "idle", rows |-> <<>>,
           legacy |-> l, base |-> Plain] : l \in {<<>>, Former}}
===============================================================================
