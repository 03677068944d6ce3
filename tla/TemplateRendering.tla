-------------------------- MODULE TemplateRendering --------------------------
(* How the texts of a programme are made (templates/resolver.py,             *)
(* templates/conditions.py, templates/validation.py and their callers): the  *)
(* rows of a register compete for its title and its description, the winner  *)
(* is rendered, and gives way to others when it has nothing to say.          *)
(*                                                                           *)
(* The guide of a team or of an event is rendered from the game as it was    *)
(* last fetched, while the game goes on.  A text is a sequence of tokens     *)
(* [var, suffix, filters], plain words among them, and what is shown is the  *)
(* sequence of what the tokens say.  Spaces and brackets are left out.       *)
EXTENDS TemplateVariables, SequencesExt

CONSTANTS
    Lives,      \* sequences of events: a game, as the provider tells of it
    StatsOf,    \* of a team: a set of at most one record of statistics
    Teams,      \* the teams of the channels
    Templates,  \* registers: [for, register, rows, legacy, base]
    Names,      \* the variables that users ask for
    Now         \* the hour at which the guides are rendered

VARIABLES
    setup,      \* the channel: [template, team, life, segment]
    real,       \* how far the game is
    seen,       \* the game as last fetched
    shown       \* what was rendered, and from what

vars == <<setup, real, seen, shown>>

-----------------------------------------------------------------------------
(* Variables and suffixes                                                    *)

\* Which games a variable can be asked about (suffix_rules).
Groups == {"stat", "identity", "place", "feed", "time", "venue", "score",
           "side_score", "event_result", "overtime", "season", "odds",
           "broadcast", "copy", "form", "fighters", "segment", "card",
           "fight", "race", "tennis"}
BaseGroups == {"feed", "fighters", "segment", "card", "fight", "race",
               "tennis"}
BaseNames == {<<"identity", "team_name">>, <<"identity", "league">>,
              <<"identity", "sport">>}
SuffixesOf(n) ==
    CASE n[1] \in BaseGroups \/ n \in BaseNames -> {""}
      [] n[1] = "stat" /\ n[2] = "team" -> {""}
      [] n[1] = "odds" \/ n = <<"time", "relative_day">> -> {"", "next"}
      [] OTHER -> {"", "next", "last"}
Registered(n) == n[1] \in Groups

Extract(c, G, n) ==
    CASE n[1] = "stat" -> StatVariable(c, G, Tail(n))
      [] n[1] = "identity" -> Identity(c, G, n[2])
      [] n[1] = "place" -> Place(c, G, n[2])
      [] n[1] = "feed" -> Feed(c, G, n[2])
      [] n[1] = "time" -> Time(c, G, n[2])
      [] n[1] = "venue" -> Venue(c, G, n[2])
      [] n[1] = "score" -> Score(c, G, n[2])
      [] n[1] = "side_score" -> SideScore(c, G, n[2])
      [] n[1] = "event_result" -> EventResult(c, G, n[2])
      [] n[1] = "overtime" -> Overtime(c, G, n[2])
      [] n[1] = "season" -> Season(c, G, n[2])
      [] n[1] = "odds" -> Odds(c, G, n[2])
      [] n[1] = "broadcast" -> Broadcast(c, G, n[2])
      [] n[1] = "copy" -> Copy(c, G, n[2])
      [] n[1] = "form" -> Form(c, G, n[2])
      [] n[1] = "fighters" -> Fighters(c, G, n[2])
      [] n[1] = "segment" -> Segment(c, G, n[2])
      [] n[1] = "card" -> Card(c, G, Tail(n))
      [] n[1] = "fight" -> FightResult(c, G, n[2])
      [] n[1] = "race" -> Race(c, G, n[2])
      [] OTHER -> Tennis(c, G, n[2])

\* The game that a suffix asks about.
GameAt(c, suffix) ==
    CASE suffix = "" -> c.here [] suffix = "next" -> c.next
      [] OTHER -> c.last

-----------------------------------------------------------------------------
(* Tokens                                                                    *)

Token(n, suffix, filters) == [var |-> n, suffix |-> suffix,
                              filters |-> filters]
Word(w) == Token(<<"word", w>>, "", <<>>)

\* Names of earlier versions stand for a variable and a filter.
Aliases == [sport_lower |-> [var |-> <<"identity", "sport">>,
                             filter |-> "slug"],
            result_lower |-> [var |-> <<"score", "result">>,
                              filter |-> "lower"]]
IsLegacy(n) == n[1] = "legacy"
Modern(t) ==
    [t EXCEPT !.var = Aliases[t.var[2]].var,
              !.filters = <<Aliases[t.var[2]].filter>> \o t.filters]

\* rewrite_legacy_tokens, of the stored templates.
Rewrite(t) == IF IsLegacy(t.var) THEN Modern(t) ELSE t

\* What the map of the variables holds: a suffix needs its game, except that
\* the plain name is always there.
InMap(c, t) ==
    /\ Registered(t.var) /\ t.suffix \in SuffixesOf(t.var)
    /\ t.suffix = "" \/ GameAt(c, t.suffix) # {}

\* Mutant: it is taken for a mistake.
ContextlessUnlessAll(t) ==
    /\ t.suffix # "" /\ Registered(t.var) /\ t.suffix \in SuffixesOf(t.var)
    /\ "last" \in SuffixesOf(t.var)

\* A name that only lacks its game says nothing.
IsContextless(t) ==
    t.suffix # "" /\ Registered(t.var) /\ t.suffix \in SuffixesOf(t.var)

Filters == {"urlencode", "url", "lower", "upper", "title", "pascal", "slug"}
FiltersKnown(t) == Range(t.filters) \subseteq Filters

\* What cannot be said stays as it was written; filters change the wording only.
Understood(c, t) ==
    \/ t.var[1] = "word"
    \/ /\ FiltersKnown(t)
       /\ InMap(c, t) \/ IsContextless(t)
Resolve(c, t) ==
    LET u == IF IsLegacy(t.var) THEN Modern(t) ELSE t
    IN  [about |-> u.var,
         says |-> CASE ~Understood(c, u) -> <<"literal", t>>
                    [] t.var[1] = "word" -> <<t.var[2]>>
                    [] InMap(c, u) -> Extract(c, GameAt(c, u.suffix), u.var)
                    [] OTHER -> Nothing]
Literal(c, t) == ~Understood(c, IF IsLegacy(t.var) THEN Modern(t) ELSE t)

Says(x) == x.says # Nothing
Render(c, text) ==
    SelectSeq([i \in DOMAIN text |-> Resolve(c, text[i])], Says)

\* validate_template: what an editor is warned of.
Warned(t, for) ==
    \/ for = "event" /\ t.suffix # ""
    \/ ~Registered(t.var)
    \/ t.suffix \notin SuffixesOf(t.var)

-----------------------------------------------------------------------------
(* Rows                                                                      *)

\* A row is [priority, condition, value, title, description].
Matching(rows, c, G) ==
    {i \in DOMAIN rows :
        /\ rows[i].title # <<>> \/ rows[i].description # <<>>
        /\ \/ rows[i].priority = 100
           \/ /\ rows[i].condition # ""
              /\ Evaluate(rows[i].condition, rows[i].value, c, G)}

\* Mutant: the order of the rows counts, not their priority.
BestFirst(rows, M, field) ==
    LET D == {i \in M : rows[i][field] # <<>>}
    IN  {i \in D : \A j \in D : i <= j}

\* The winners of a field: for a title the first, for a description any.
Best(rows, M, field) ==
    LET D == {i \in M : rows[i][field] # <<>>}
    IN  {i \in D : \A j \in D : rows[i].priority <= rows[j].priority}
First(S) == CHOOSE i \in S : \A j \in S : i <= j

\* The other rows that could describe the game (select_filler_fields).
RunnersUp(rows, M, winner) ==
    SetToSortSeq({i \in M \ {winner} : rows[i].description # <<>>},
                 LAMBDA i, j : \/ rows[i].priority < rows[j].priority
                               \/ rows[i].priority = rows[j].priority /\ i < j)

\* What templates of earlier versions said of a game that is over and of one
\* that is not (legacy_conditional_to_rows): a sequence of at most two rows
\* [over, title, description].
LegacyRows(l) ==
    LET row(x) == [priority |-> 50,
                   condition |-> IF x.over THEN "is_final" ELSE "is_not_final",
                   value |-> [count |-> 0, names |-> {}],
                   title |-> x.title, description |-> x.description]
        Tells(x) == x.title # <<>> \/ x.description # <<>>
    IN  [i \in DOMAIN SelectSeq(l, Tells) |-> row(SelectSeq(l, Tells)[i])]

\* The rows of a register: those of earlier versions when there are no others.
RowsOf(t) ==
    IF t.rows # <<>> \/ t.register \notin {"postgame", "idle"} THEN t.rows
    ELSE LegacyRows(t.legacy)

-----------------------------------------------------------------------------
(* The game, as the templates see it                                         *)

\* Lines are ours and theirs: e.lines is {} or {<<home, away>>}.
BuildOdds(lines, home) ==
    {IF home THEN l ELSE <<l[2], l[1]>> : l \in lines}

\* Of fights an event's guide has no statistics.
StatsFor(team, e, for) ==
    IF for = "event" /\ e.sport \in Combat THEN {} ELSE StatsOf[team]

Game(e, us, for, segment) ==
    LET home == e.home = us
    IN  [event |-> e, home |-> home, odds |-> BuildOdds(e.lines, home),
         stats |-> StatsFor(IF home THEN e.away ELSE e.home, e, for),
         segment |-> segment]

\* A programme and the guide of an event are about this game, the filler of a
\* team about the next one or the last one.
Where(t) ==
    IF t.register = "programme" \/ t.for = "event" THEN "here"
    ELSE IF t.register = "pregame" THEN "next" ELSE "last"

Context(s, e) ==
    LET g == {Game(e, s.team, s.template.for, s.segment)}
        At(place) == IF Where(s.template) = place THEN g ELSE {}
    IN  [us |-> s.team, league |-> e.league, sport |-> e.sport,
         stats |-> StatsFor(s.team, e, s.template.for), now |-> Now,
         feed |-> s.feed, here |-> At("here"), next |-> At("next"),
         last |-> At("last")]

\* The rows after a game are chosen by its status as it is now.
Refreshes(t) == t.register \in {"postgame", "idle"}

\* refresh_event_status: what is empty or zero does not replace anything.
Kept(new, old) == IF new # 0 /\ new # None THEN new ELSE old
Overlay(old, new) ==
    [old EXCEPT !.state = new.state, !.detail = new.detail,
                !.score = <<Kept(new.score[1], old.score[1]),
                            Kept(new.score[2], old.score[2])>>,
                !.aired = IF new.aired = <<>> THEN @ ELSE new.aired,
                !.lines = IF new.lines = {} THEN @ ELSE new.lines,
                !.method = IF new.method = "" THEN @ ELSE new.method,
                !.copy = @ \cup (new.copy \ {"game_recap"})]

\* The game by which rows are chosen: only its event is newer.
Judged(s, old, new) ==
    LET e == IF Refreshes(s.template) THEN Overlay(old, new) ELSE old
    IN  {[Game(old, s.team, s.template.for, s.segment) EXCEPT !.event = e]}

-----------------------------------------------------------------------------
(* The texts of a register                                                   *)

Postponed(e, text) == IF e.state = "postponed" /\ text # <<>>
                      THEN <<[about |-> <<"label">>, says |-> <<"postponed">>]>> \o text
                      ELSE text

\* In a programme a row that has nothing to say gives way to the plain text.
OrPlain(c, text, plain) ==
    IF Render(c, text) # <<>> THEN Render(c, text) ELSE Render(c, plain)

\* Mutant: only the winner and the plain text are tried.
CandidatesTwo(t, M, winner) ==
    IF winner = 0 THEN <<t.base.description>> \o t.base.fallbacks
    ELSE <<RowsOf(t)[winner].description, t.base.description>>

\* In filler it gives way to the next one, and these to the plain texts.
Candidates(t, M, winner) ==
    (IF winner = 0 THEN <<t.base.description>>
     ELSE LET runners == RunnersUp(RowsOf(t), M, winner)
          IN  <<RowsOf(t)[winner].description>>
              \o [k \in DOMAIN runners |-> RowsOf(t)[runners[k]].description]
              \o <<t.base.description>>)
    \o t.base.fallbacks

Telling(c, texts) == {i \in DOMAIN texts : Render(c, texts[i]) # <<>>}

Description(c, t, M, winner) ==
    IF t.register = "programme"
    THEN OrPlain(c, IF winner = 0 THEN <<>> ELSE RowsOf(t)[winner].description,
                 t.base.description)
    ELSE LET texts == Candidates(t, M, winner)
         IN  IF Telling(c, texts) = {} THEN <<>>
             ELSE Render(c, texts[First(Telling(c, texts))])

\* The title of a row that says nothing is replaced in programmes only.
Title(c, t, M) ==
    LET B == Best(RowsOf(t), M, "title")
        own == IF B = {} THEN <<>> ELSE RowsOf(t)[First(B)].title
    IN  IF t.register = "programme" THEN OrPlain(c, own, t.base.title)
        ELSE Render(c, IF own = <<>> THEN t.base.title ELSE own)

-----------------------------------------------------------------------------
(* What happens                                                              *)

Init ==
    /\ \E t \in Templates, l \in Lives, u \in Teams,
          k \in {"", "race", "main"} :
          /\ u \in {l[1].home, l[1].away}
          /\ t.for = "event" => u = l[1].home
          /\ k # "" => t.for = "event" /\ l[1].sport \in Combat \cup {"racing"}
          /\ setup = [template |-> t, team |-> u, life |-> l, segment |-> k,
                      feed |-> IF t.for = "event" THEN {l[1].away} ELSE {}]
    /\ real = 1 /\ seen = setup.life[1] /\ shown = <<>>

\* The game goes on.
Play ==
    /\ real < Len(setup.life) /\ real' = real + 1
    /\ UNCHANGED <<setup, seen, shown>>

\* The schedule is fetched: it carries no copy.
Fetch ==
    /\ seen' = [setup.life[real] EXCEPT !.copy = @ \cap {"game_recap"}]
    /\ UNCHANGED <<setup, real, shown>>

\* The event of a match is refreshed before its guide is made.
Refresh ==
    /\ setup.template.for = "event"
    /\ seen' = Overlay(seen, setup.life[real])
    /\ UNCHANGED <<setup, real, shown>>

Tell ==
    LET t == setup.template
        ctx == Context(setup, seen)
        M == Matching(RowsOf(t), ctx, Judged(setup, seen, setup.life[real]))
        B == Best(RowsOf(t), M, "description")
    IN  /\ \E w \in IF B = {} THEN {0} ELSE B :
              shown' = [game |-> seen, matching |-> M, by |-> w,
                        title |-> Postponed(seen, Title(ctx, t, M)),
                        description |->
                            Postponed(seen, Description(ctx, t, M, w))]
        /\ UNCHANGED <<setup, real, seen>>

Next == Play \/ Fetch \/ Refresh \/ Tell
Spec == Init /\ [][Next]_vars

-----------------------------------------------------------------------------
(* Properties                                                                *)

TypeOK ==
    /\ setup.template \in Templates /\ setup.team \in Teams
    /\ setup.life \in Lives /\ real \in DOMAIN setup.life
    /\ seen.id = setup.life[1].id
    /\ shown # <<>> => shown.by \in {0} \cup DOMAIN RowsOf(setup.template)

\* What is told is told by the row with the best claim among those that have
\* something to tell, and nothing is told only if neither a row that matches
\* nor the plain text has anything.  A programme asks its best row only, and
\* hands over to the plain text at once.
BestRowSpeaks ==
    shown # <<>> =>
        LET t == setup.template
            ctx == Context(setup, shown.game)
            Told(text) == Postponed(shown.game, Render(ctx, text))
            D == {i \in shown.matching : RowsOf(t)[i].description # <<>>}
            Claims == {i \in D : Told(RowsOf(t)[i].description) # <<>>}
            Foremost(S) == {i \in S : \A j \in S :
                               RowsOf(t)[i].priority <= RowsOf(t)[j].priority}
        IN  CASE t.register = "programme" /\ D # {} ->
                     \E i \in Foremost(D) : shown.description =
                        IF i \in Claims THEN Told(RowsOf(t)[i].description)
                        ELSE Told(t.base.description)
              [] t.register # "programme" /\ Claims # {} ->
                     \E i \in Foremost(Claims) :
                        shown.description = Told(RowsOf(t)[i].description)
              [] OTHER ->
                     shown.description = <<>> =>
                        Told(t.base.description) = <<>>

\* What is said of the home team and of the away team does not depend on
\* whose channel says it, and what we say of our opponent is what the opponent
\* says of itself.  (Rows play no part in it.)
Mirrored(e, for, G, us, them) ==
    LET s == [team |-> us, segment |-> "", feed |-> {},
              template |-> [for |-> for, register |-> "programme"]]
        ctx == Context(s, e)
        d == Context([s EXCEPT !.team = them], e)
    IN  \A n \in G :
           LET said == Extract(ctx, ctx.here, n)
               other(m) == Extract(d, d.here, m)
           IN  CASE n[1] = "stat" /\ n[2] = "opponent" ->
                        said = other(<<"stat", "team", n[3]>>)
                 [] n[1] = "stat" /\ n[2] \in {"home_team", "away_team"} ->
                        said = other(n)
                 [] n = <<"score", "team_score">> ->
                        said = other(<<"score", "opponent_score">>)
                 [] n = <<"score", "score_differential">> -> said = other(n)
                 [] n = <<"score", "result">> ->
                        said # Nothing =>
                           <<said[1], other(n)[1]>> \in
                              {<<"W", "L">>, <<"L", "W">>, <<"T", "T">>}
                 [] n = <<"odds", "odds_moneyline">> ->
                        said = other(<<"odds", "odds_opponent_moneyline">>)
                 [] n = <<"identity", "opponent">> ->
                        said = other(<<"identity", "team_name">>)
                 [] n[1] \in {"side_score", "event_result", "season", "time",
                              "venue", "broadcast"} -> said = other(n)
                 [] OTHER -> TRUE

PerspectivesAgree ==
    shown = <<>> /\ setup.template.rows = <<>> =>
        Mirrored(seen, setup.template.for, Names, setup.team,
                 IF setup.team = seen.home THEN seen.away ELSE seen.home)

\* A text that its author is not warned of is never shown as it was written,
\* unless a filter is misspelt, which the validation does not look at; and the
\* rewriting of old names changes nothing of what is shown.
TokensAreUnderstood ==
    shown = <<>> /\ setup.template.rows = <<>> =>
        LET ctx == Context(setup, seen)
        IN  \A n \in Names, suffix \in {"", "next", "last"},
               f \in {<<>>, <<"upper">>, <<"loud">>} :
                LET t == Token(n, suffix, f)
                    literal == Literal(ctx, t)
                IN  /\ ~Warned(t, setup.template.for) /\ FiltersKnown(t)
                          => ~literal
                    /\ literal = Literal(ctx, Rewrite(t))
                    /\ IsLegacy(n) /\ ~literal =>
                          Resolve(ctx, t) = Resolve(ctx, Rewrite(t))
=============================================================================
