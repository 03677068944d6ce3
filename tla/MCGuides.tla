------------------------------- MODULE MCGuides -------------------------------
(* What surrounds the numbers of the channels, each in its instance for     *)
(* TLC: the matching of the streams, the guides of teams and events and     *)
(* their texts.  They share no state: as in ChannelParts, a behaviour is of *)
(* one of them.                                                             *)
EXTENDS MCChannelNumbering, FiniteSetsExt

-----------------------------------------------------------------------------
(* What the matching of streams may meet                                    *)

LeagueSports == [epl |-> "soccer", nfl |-> "football", f1 |-> "racing",
                 atp |-> "tennis", ufc |-> "mma"]
LeagueTypes  == [epl |-> "team_vs_team", nfl |-> "team_vs_team",
                 f1 |-> "event", atp |-> "event", ufc |-> "event_card"]

\* Day 1 is today.  A and B meet twice within hours, and A is the name of a
\* team of both sports; one weekend has two sessions.
Game(l, start, home, away, title, sessions) ==
    [league |-> l, start |-> start, teams |-> <<home, away>>,
     title |-> title, star |-> title = "stars", final |-> FALSE,
     sessions |-> sessions]
Schedule ==
    {Game("epl", 30, "A", "B", "", {}), Game("epl", 36, "B", "A", "", {}),
     Game("epl", 18, "A", "C", "", {}), Game("nfl", 31, "A", "D", "", {}),
     Game("nfl", 45, "S", "T", "stars", {}),
     Game("f1", 34, "", "", "Monaco", {26, 34}),
     Game("atp", 29, "P", "Q", "court1", {}),
     Game("ufc", 32, "X", "Y", "card1", {})}

Blank == [card |-> FALSE, hint |-> {}, sport |-> {}, sep |-> "none",
            custom |-> FALSE, star |-> FALSE, names |-> <<>>, title |-> "",
            racing |-> FALSE, series |-> {}, day |-> 0, time |-> 0,
            trusted |-> FALSE]
Pair(x, y) == [Blank EXCEPT !.sep = "pair", !.names = <<x, y>>]
Team(x) == [Blank EXCEPT !.names = <<x>>]
Race == [Blank EXCEPT !.names = <<"Monaco">>, !.title = "Monaco",
                        !.racing = TRUE]
Card == [Blank EXCEPT !.card = TRUE, !.title = "card1"]
Stars == [Blank EXCEPT !.star = TRUE, !.hint = {"nfl"},
                         !.names = <<"stars">>]
Court == [Blank EXCEPT !.sport = {"tennis"}, !.title = "court1"]
Players == [Pair("P", "Q") EXCEPT !.sport = {"tennis"}]
Football == [Blank EXCEPT !.sport = {"soccer"}, !.names = <<"League">>]

Titles == {Pair("A", "B"), Pair("Al", "Be"), Team("A"), Race, Card, Stars,
           [Pair("A", "B") EXCEPT !.day = 2, !.trusted = TRUE],
           [Pair("A", "B") EXCEPT !.time = 12], [Race EXCEPT !.day = 1],
           Court, Players, [Team("A") EXCEPT !.sep = "half"]}

Slot(x, from, to) ==
    [text |-> x, from |-> from, to |-> to, described |-> {}]
Listings ==
    {{}, {Slot(Pair("A", "B"), 30, 32)},
     {Slot(Pair("A", "B"), 29, 30), Slot(Pair("A", "B"), 30, 31),
      Slot(Pair("A", "B"), 31, 33), Slot(Pair("A", "B"), 40, 42)},
     {Slot(Pair("Al", "B"), 41, 42), Slot(Team("A"), 29, 31)},
     {Slot(Race, 25, 26), Slot(Race, 26, 28), Slot(Race, 34, 36)},
     {[Slot(Football, 28, 31) EXCEPT !.described = {"A", "B"}],
      Slot(Players, 29, 30), Slot(Card, 20, 21)}}

\* A source of any kind, and one after it that takes other leagues.
SourcePairs ==
    {<<s, t>> :
       s \in [leagues : {{"epl"}, {"nfl", "f1"}, {"epl", "atp", "ufc"},
                         {"f1"}},
              name : BOOLEAN, team : BOOLEAN, stream : Titles,
              guide : Listings],
       t \in [leagues : {{"epl"}, {"f1", "atp", "ufc"}},
              name : {TRUE}, team : {TRUE}, stream : {Team("A")},
              guide : {{}}]}
Outages == {{}, {"epl", "f1"}}

-----------------------------------------------------------------------------
(* What the guide of an event may be made from                              *)

Show(kind, start, main, times) ==
    [kind |-> kind, start |-> start, main |-> main, times |-> times]
Shows ==
    {Show("plain", 14, 0, <<>>), Show("plain", 3, 0, <<>>),
     Show("fight", 14, 18, <<>>), Show("fight", 14, 0, <<>>),
     Show("ufc", 12, 18, <<>>), Show("ufc", 16, 18, <<>>),
     Show("ufc", 14, 0, <<>>), Show("ufc", 14, 20, <<14, 16, 20>>),
     Show("ufc", 14, 20, [s \in {2, 3} |-> 3 * s + 11]),
     Show("racing", 10, 0, <<10, 14, 16, 30>>),
     Show("racing", 10, 0, [s \in {1, 4} |-> 7 * s + 3])}
Feed(h, t, e) == [hint |-> h, time |-> t, till |-> e]
Feeds == {Feed(h, t, t) : h \in 0..4, t \in {0, 15}} \cup
         {Feed(0, 15, 17), Feed(0, 20, 24), Feed(0, 60, 62)}

Texts == INSTANCE MCTexts

-----------------------------------------------------------------------------

VARIABLES part,  \* the component that the behaviour is of
    tgIn, tgGuide, tgStage, tgDay,
    evEvent, evStream, evNow, evAt, evRendered, evFile,
    smConf, smAt, smStage, smDown, smCached, smShared, smMissed, smPool,
    smResults,
    tpSetup, tpReal, tpSeen, tpShown

Tg == INSTANCE TeamGuide WITH
    DayLen <- 8, Block <- 2, Behind <- 2,
    Starts <- {3, 7, 10, 13, 15, 16, 19, 23, 27}, MaxGames <- 3,
    Nows <- {12, 17}, Lookback <- 3, Ahead <- 1, in <- tgIn, guide <- tgGuide,
    stage <- tgStage, day <- tgDay
TgVars == <<tgIn, tgGuide, tgStage, tgDay>>

Ev == INSTANCE EventGuide WITH
    DayLen <- 24, Block <- 6, Lookback <- 4, Now <- 12, Duration <- 6,
    Session <- 2, Gap <- 3, Tolerance <- 1, Events <- Shows, Streams <- Feeds,
    Sources <- {1, 2}, event <- evEvent, stream <- evStream, now <- evNow,
    at <- evAt, rendered <- evRendered, file <- evFile
EvVars == <<evEvent, evStream, evNow, evAt, evRendered, evFile>>

Sm == INSTANCE StreamMatching WITH
    Leagues <- {"epl", "nfl", "f1", "atp", "ufc"}, SportOf <- LeagueSports,
    TypeOf <- LeagueTypes, DayLen <- 24, Today <- 1, Window <- 1,
    Tolerance <- 2, Slack <- 1, Session <- 2, Similar <- {<<"Be", "B">>},
    Aliases <- {<<"Al", "epl", "A">>}, Sources <- {1, 2},
    Confs <- SourcePairs, Failures <- Outages, Events <- Schedule,
    Rationed <- {"nfl"}, Ahead <- 1, conf <- smConf, at <- smAt,
    stage <- smStage, down <- smDown, cached <- smCached, shared <- smShared,
    missed <- smMissed, pool <- smPool, results <- smResults
SmVars ==
    <<smConf, smAt, smStage, smDown, smCached, smShared, smMissed, smPool,
      smResults>>

Tp == INSTANCE TemplateRendering WITH
    Lives <- Texts!MCLives, StatsOf <- Texts!MCStats, Teams <- {"A", "B"},
    Templates <- Texts!MCTemplates, Names <- Texts!MCNames, Now <- 10,
    setup <- tpSetup, real <- tpReal, seen <- tpSeen, shown <- tpShown
TpVars == <<tpSetup, tpReal, tpSeen, tpShown>>

Parts == {"numbers", "team_guide", "event_guide", "matching", "texts"}
all == <<part, vars, TgVars, EvVars, SmVars, TpVars>>

\* The other components are absent, or in one of their initial states.
SumInit ==
    /\ part \in Parts
    /\ Init /\ (part = "numbers" \/ (
           set.mode = "compact" /\ due /\ order = CHOOSE o \in Orders : TRUE))
    /\ \/ part = "team_guide"
       \/ part # "team_guide" /\ tgIn = [games |-> {}, now |-> 12,
              sport |-> 1, template |-> 1, on |-> Tg!Fillers,
              mode |-> "idle", final |-> FALSE]
    /\ Tg!Init
    /\ \/ part = "event_guide"
       \/ part # "event_guide" /\ evEvent = Show("plain", 14, 0, <<>>)
             /\ evStream = [g \in {1, 2} |-> Feed(0, 0, 0)]
    /\ Ev!Init
    /\ \/ part = "matching"
       \/ part # "matching" /\ smDown = {}
             /\ smConf = CHOOSE p \in SourcePairs : TRUE
    /\ Sm!Init
    /\ \/ part = "texts" /\ Tp!Init
       \/ /\ part # "texts" /\ tpSetup = 0 /\ tpReal = 0 /\ tpSeen = 0
          /\ tpShown = 0

SumNext ==
    \/ /\ part = "numbers" /\ Next
       /\ UNCHANGED <<part, TgVars, EvVars, SmVars, TpVars>>
    \/ /\ part = "team_guide" /\ Tg!Next
       /\ UNCHANGED <<part, vars, EvVars, SmVars, TpVars>>
    \/ /\ part = "event_guide" /\ Ev!Next
       /\ UNCHANGED <<part, vars, TgVars, SmVars, TpVars>>
    \/ /\ part = "matching" /\ Sm!Next
       /\ UNCHANGED <<part, vars, TgVars, EvVars, TpVars>>
    \/ /\ part = "texts" /\ Tp!Next
       /\ UNCHANGED <<part, vars, TgVars, EvVars, SmVars>>

SumSpec == SumInit /\ [][SumNext]_all

\* The types of every component.
TypesOK ==
    CASE part = "team_guide"  -> Tg!TypeOK
      [] part = "event_guide" -> Ev!TypeOK
      [] part = "matching"    -> Sm!TypeOK
      [] part = "texts"       -> Tp!TypeOK
      [] OTHER                -> TypeOK

\* TeamGuide and EventGuide: a channel shows one programme at any moment, and
\* a filler tells of the games next to it.
GuidesAreWhole ==
    /\ part = "team_guide" =>
          Tg!EveryMomentOnce /\ Tg!TextsTellTheGamesAround
    /\ part = "event_guide" => Ev!ChannelMoments
\* StreamMatching: matches are of what is switched on, on air and known.
MatchesAreTrue == part = "matching" => Sm!MatchesAreTrue
\* TemplateRendering: the best row that has something to tell tells it, two
\* channels of a game do not contradict each other, and no token that its
\* author is not warned of is shown as it was written.
TextsAreTold ==
    part = "texts" =>
        /\ Tp!BestRowSpeaks
        /\ Tp!PerspectivesAgree
        /\ Tp!TokensAreUnderstood
===============================================================================
