---------------------------- MODULE StreamMatching ----------------------------
(***************************************************************************)
(* A generation matches the streams of one source after the other          *)
(* (consumers/matching/matcher.py): the events of all leagues are fetched  *)
(* first, and left to the sources that follow; then the stream is matched  *)
(* by its name and by the programmes of its guide, and the two answers are *)
(* reconciled.  Each source has one stream; a source whose provider does   *)
(* not answer goes on with what it has.                                    *)
(***************************************************************************)
EXTENDS EventMatching

CONSTANTS
    Sources,    \* 1..n, in their order
    Confs,      \* what they may be: each [leagues, name, team, stream, guide]
    Failures,   \* leagues that may be without an answer: sets of leagues
    Events,     \* [league, start, teams, title, star, final, sessions]
    Rationed,   \* leagues of a provider whose calls are rationed (tsdb)
    Ahead       \* days ahead for which events are fetched

VARIABLES
    conf,       \* of each source
    at,         \* the source that is matched
    stage,      \* "fetch", "match" or "done"
    down,       \* leagues whose provider does not answer this source
    cached,     \* the service's answers for a league and day, or Unknown
    shared,     \* those left by earlier sources (shared_events), or Unasked
    missed,     \* calls of this generation that were not answered
    pool,       \* the events fetched for the source
    results     \* the matches of each source

vars == <<conf, at, stage, down, cached, shared, missed, pool, results>>

Dates == (Today - Window)..(Today + Ahead)
Asks  == Leagues \X Dates

Unknown == [known |-> FALSE, events |-> {}]
Unasked == [asked |-> FALSE, events |-> {}, cacheonly |-> FALSE]

Fixture(l, d) == {e \in Events : e.league = l /\ d \in Days(e)}

Init ==
    /\ conf \in Confs /\ at = 1 /\ stage = "fetch" /\ down \in Failures
    /\ cached = [q \in Asks |-> Unknown] /\ shared = [q \in Asks |-> Unasked]
    /\ missed = {} /\ pool = [l \in Leagues |-> {}]
    /\ results = [s \in Sources |-> {}]

Mine == conf[at].leagues

-----------------------------------------------------------------------------
(* Fetching                                                                 *)

\* get_events: what the cache has, or what the provider tells unless the
\* cache alone may answer; a provider that is down tells of no events.
Told(q, cacheonly) ==
    IF cached[q].known THEN cached[q].events
    ELSE IF cacheonly \/ q[1] \in down THEN {} ELSE Fixture(q[1], q[2])

\* Games of two days ago and before, and of leagues that the source does not
\* take, are taken from the cache.
CacheOnly(q) == q[1] \notin Mine \/ q[2] + 1 < Today

\* Mutant: whatever an earlier source has left is good enough.
ReusableAnyway(q) == shared[q].asked

\* What an earlier source has left: not the absence of events that nobody
\* asked the provider for, in a league that the source takes.
Reusable(q) ==
    shared[q].asked /\ (\/ shared[q].events # {} \/ ~shared[q].cacheonly
                        \/ q[1] \notin Mine)

\* _prefetch_events
Prefetch ==
    /\ stage = "fetch" /\ stage' = "match"
    /\ LET fresh  == {q \in Asks : ~Reusable(q)}
           called == {q \in fresh : ~CacheOnly(q) /\ ~cached[q].known}
           answer == [q \in Asks |-> IF q \in fresh THEN Told(q, CacheOnly(q))
                                     ELSE shared[q].events]
       IN  /\ pool' = [l \in Leagues |->
                           UNION {answer[<<l, d>>] : d \in Dates}]
           /\ shared' = [q \in Asks |->
                 IF q \in fresh THEN [asked |-> TRUE, events |-> answer[q],
                                      cacheonly |-> CacheOnly(q)]
                 ELSE shared[q]]
           /\ cached' = [q \in Asks |->
                 IF q \in called THEN [known |-> TRUE, events |-> answer[q]]
                 ELSE cached[q]]
           /\ missed' = missed \cup {q \in called : q[1] \in down}
    /\ UNCHANGED <<conf, at, down, results>>

-----------------------------------------------------------------------------
(* Routes                                                                   *)

NotTennis(leagues) == {l \in leagues : SportOf[l] # "tennis"}

\* The service asks the provider for cards, races and tennis, other than for
\* rationed leagues.
Direct == [q \in Asks |-> Told(q, q[1] \in Rationed)]

\* Where nothing has been fetched at all, games are asked for as they are
\* needed, future ones from the provider.
Fetched == \E l \in Leagues : pool[l] # {}
Pool == IF Fetched THEN pool
        ELSE [l \in Leagues |->
                 UNION {Told(<<l, d>>, l \in Rationed \/ d < Today) :
                           d \in Dates}]

\* _get_dominant_event_type and _get_event_league_sport, of the first of
\* those that are most.
Most(S, Of) == {k \in {Of[l] : l \in S} : \A j \in {Of[l] : l \in S} :
    Cardinality({l \in S : Of[l] = j}) <= Cardinality({l \in S : Of[l] = k})}
Types  == Most(Mine, TypeOf)
Sports == LET S == {l \in Mine : TypeOf[l] = "event"}
          IN  IF S = {} THEN {NoSport} ELSE Most(S, SportOf)

\* _route_to_outcomes: team streams and stars only of the source's leagues,
\* the others of all that are known.
Answers(x, cat, a) ==
    CASE cat = "event_card" -> CardAnswers(x, Leagues, Direct)
      [] cat = "racing"     -> RaceAnswers(x, Leagues, Direct, a)
      [] cat = "tennis"     -> TennisAnswers(x, Leagues, Direct)
      [] cat = "team_only"  -> TeamAnswers(x, NotTennis(Mine), Pool, a)
      [] cat = "all_star"   -> StarAnswers(x, NotTennis(Mine), Pool, a)
      [] cat = "teams"      -> PairAnswers(x, NotTennis(Leagues), Pool, a)
      [] OTHER              -> {{}}

\* What a route asks the service for.
Needs(x, cat, a) ==
    Asks \cap
    CASE cat = "event_card" -> CardLeagues(Leagues \ Rationed) \X {Today}
      [] cat = "racing"     -> RaceLeagues(Leagues \ Rationed)
                                  \X {RaceDay(x, a)}
      [] cat = "tennis"     -> TennisLeagues(Leagues) \X Around(TennisDay(x))
      [] cat \in {"team_only", "all_star"} /\ ~Fetched ->
            Hinted(x, NotTennis(Mine \ Rationed)) \X (Today..(Today + 2))
      [] cat = "teams" /\ ~Fetched ->
            Hinted(x, NotTennis(Leagues \ Rationed))
               \X (Today..(Today + Ahead))
      [] OTHER -> {}

As(cat, S) == {[cat |-> cat, events |-> A] : A \in S}

Races(x) == /\ \E l \in Mine : TypeOf[l] = "event"
            /\ x.racing /\ Category(x, "event", NoSport) = "racing"

\* _try_racing_fallback: the text read as that of a group of races.
Racing(x, a) ==
    IF Races(x) THEN As("racing", Answers(x, "racing", a)) ELSE {}

\* The answers of a route, or of the second one where the first finds nothing.
Else(S, T) == IF T = {} THEN S
              ELSE {r \in S : r.events # {}} \cup
                   (IF \E r \in S : r.events = {} THEN T ELSE {})

\* Mutant: races are looked for whatever the source is to be matched by.
ByNameAnyway(x, type, sport) ==
    LET cat == Category(x, type, sport)
        own == IF cat = "team_only" THEN conf[at].team ELSE conf[at].name
        first == As(cat, IF own THEN Answers(x, cat, None) ELSE {{}})
    IN  IF cat = "racing" THEN first ELSE Else(first, Racing(x, None))

\* _match_single: names are not asked where the source is not to be matched by
\* them, and a team's stream not where team streams are off.
ByName(x, type, sport) ==
    LET cat == Category(x, type, sport)
        own == IF cat = "team_only" THEN conf[at].team ELSE conf[at].name
        first == As(cat, IF own THEN Answers(x, cat, None) ELSE {{}})
    IN  IF cat = "racing" \/ ~conf[at].name THEN first
        ELSE Else(first, Racing(x, None))

\* _try_description_match: the only game in the time of the programme whose
\* teams its description names, in leagues that the title hints at.
Described(p) ==
    LET x == p.text
        hinted == NotTennis(Mine \cap x.hint)
        within == IF hinted # {} THEN hinted
                  ELSE {l \in NotTennis(Mine) : SportOf[l] \in x.sport}
        Games(l) == IF Fetched /\ pool[l] # {} THEN pool[l]
                    ELSE UNION {Told(<<l, d>>, FALSE) : d \in
                                   Dates \cap {DayOf(p.from), DayOf(p.to)}}
        found  == {e \in UNION {Games(l) : l \in within} :
                      /\ p.from <= e.start /\ e.start <= p.to
                      /\ {e.teams[1], e.teams[2]} \subseteq p.described}
    IN  IF Len(x.names) < 2 /\ Cardinality(found) = 1 THEN {found} ELSE {}

\* A programme in _compute_epg_plan: its title as if it were a name, but for
\* tennis, and races only of titles that speak of racing.
ByTitle(p, type) ==
    LET x     == p.text
        cat   == Category(x, type, NoSport)
        own   == cat # "team_only" \/ conf[at].team
        first == As(cat, IF own THEN Answers(x, cat, p.from) ELSE {{}})
        next  == IF cat = "racing" THEN first
                 ELSE Else(first, Racing(x, p.from))
    IN  IF cat \in {"placeholder", "tennis"} \/ (cat = "racing" /\ ~x.racing)
        THEN As(cat, {{}})
        ELSE Else(next, As(cat, Described(p)))

-----------------------------------------------------------------------------
(* The guide                                                                *)

\* nearest_session: the event, or its session nearest to the programme, and
\* how far from it the programme begins.
Off(t, a) == IF a < t THEN t - a ELSE IF a > t + Session THEN a - t - Session
             ELSE 0
NearestSession(e, a) ==
    CHOOSE t \in e.sessions : \A u \in e.sessions :
       Off(t, a) < Off(u, a) \/ (Off(t, a) = Off(u, a) /\ t <= u)
Part(e, p) == IF e.sessions = {} THEN <<e, None>>
              ELSE <<e, NearestSession(e, p.from)>>
Skew(e, p) == IF e.sessions = {} THEN Apart(e.start, p.from)
              ELSE Off(NearestSession(e, p.from), p.from)

\* Mutant: the last programme is kept.
KeptLast(M) == {m \in M : \A n \in M :
    Part(n.event, n.prog) = Part(m.event, m.prog) =>
       n.prog.from <= m.prog.from}

\* best_by_event: of the programmes of an event, or of a session of a race
\* weekend, the one that begins nearest to it; of two such the earlier.
Kept(M) == {m \in M : \A n \in M :
    Part(n.event, n.prog) = Part(m.event, m.prog) =>
       \/ Skew(m.event, m.prog) < Skew(n.event, n.prog)
       \/ /\ Skew(m.event, m.prog) = Skew(n.event, n.prog)
          /\ m.prog.from <= n.prog.from}

NoProgramme == [from |-> None]

\* _outcome_to_result
Result(m, via) ==
    [event |-> m.event, cat |-> m.cat, prog |-> m.prog, via |-> via,
     included |-> m.event.league \in Mine /\ ~m.event.final]

\* _reconcile_epg: a guide of several programmes has the last word, one of a
\* single programme the first only where the name tells nothing.
Reconciled(named, titled) ==
    LET guide == conf[at].guide
    IN  IF titled # {} /\ (Cardinality(guide) > 1 \/ named = {}) THEN titled
        ELSE named

\* The stream's name and the titles ask the service for what their routes
\* need, also for the second route (that nothing is asked for it where the
\* first one finds something is left out).
Asked(type, sport) ==
    LET Both(x, cat, a) == Needs(x, cat, a) \cup
                           IF Races(x) THEN Needs(x, "racing", a) ELSE {}
        x == conf[at].stream
    IN  (IF conf[at].name THEN Both(x, Category(x, type, sport), None) ELSE {})
        \cup UNION {Both(p.text, Category(p.text, type, NoSport), p.from) :
                       p \in conf[at].guide}

MatchStream ==
    /\ stage = "match"
    /\ \E type \in Types, sport \in Sports :
       \E n \in ByName(conf[at].stream, type, sport) :
       \E o \in [conf[at].guide -> UNION {ByTitle(p, type) :
                                            p \in conf[at].guide}] :
          /\ \A p \in conf[at].guide : o[p] \in ByTitle(p, type)
          /\ LET Of(r, p) == {[event |-> e, cat |-> r.cat, prog |-> p] :
                                 e \in r.events}
                 named    == Of(n, NoProgramme)
                 M        == UNION {Of(o[p], p) : p \in conf[at].guide}
             IN  results' = [results EXCEPT ![at] =
                    Reconciled({Result(m, "name") : m \in named},
                               {Result(m, "guide") : m \in Kept(M)})]
          /\ LET called == {q \in Asked(type, sport) : ~cached[q].known}
             IN  /\ cached' = [q \in Asks |->
                       IF q \in called THEN [known |-> TRUE,
                                             events |-> Told(q, FALSE)]
                       ELSE cached[q]]
                 /\ missed' = missed \cup {q \in called : q[1] \in down}
    /\ IF at + 1 \in Sources
       THEN at' = at + 1 /\ stage' = "fetch" /\ down' \in Failures
       ELSE stage' = "done" /\ UNCHANGED <<at, down>>
    /\ UNCHANGED <<conf, shared, pool>>

Next == Prefetch \/ MatchStream

Spec == Init /\ [][Next]_vars

-----------------------------------------------------------------------------
(* What must hold                                                           *)

TypeOK ==
    /\ conf \in Confs /\ at \in Sources
    /\ stage \in {"fetch", "match", "done"} /\ down \in Failures
    /\ \A q \in Asks : /\ cached[q].known \in BOOLEAN
                       /\ cached[q].events \subseteq Events
                       /\ shared[q].events \subseteq Events
    /\ missed \subseteq Asks
    /\ \A l \in Leagues : pool[l] \subseteq Events
    /\ \A s \in Sources : \A r \in results[s] : r.event \in Events

\* What the user has switched off finds nothing by another way: no name is
\* matched where names are off, a team's stream only where team streams are on
\* (a programme also if its description names both teams), and a game of
\* tennis by the name of a stream alone.
SwitchesHold ==
    \A s \in Sources : \A r \in results[s] :
       /\ r.via = "name" /\ r.cat # "team_only" => conf[s].name
       /\ r.cat = "team_only" =>
             \/ conf[s].team
             \/ /\ r.via = "guide"
                /\ {r.event.teams[1], r.event.teams[2]}
                      \subseteq r.prog.described
       /\ SportOf[r.event.league] = "tennis" =>
             r.cat = "tennis" /\ r.via = "name"

\* A reverse lookup of aliases forgets the programme, and cards never hear of
\* it: apart from these, what the guide finds is on when the programme is, and
\* no programme of the guide shows the same event nearer to its time.
Forgetful(r) == \/ r.cat = "event_card"
                \/ /\ r.cat = "teams"
                   /\ \E i \in DOMAIN r.prog.text.names :
                         Meanings(r.prog.text.names[i]) # {}
BroadcastsAreLive ==
    \A s \in Sources : \A r \in results[s] :
       r.via = "guide" =>
          /\ \/ Forgetful(r)
             \/ Apart(r.event.start, r.prog.from) <= Tolerance
             \/ Covers(r.event, r.prog.from)
             \/ r.prog.from <= r.event.start /\ r.event.start <= r.prog.to
          /\ \A q \in results[s] :
                Part(q.event, q.prog) = Part(r.event, r.prog) => q = r
          /\ \A p \in conf[s].guide :
                /\ p.text = r.prog.text
                /\ Part(r.event, p) = Part(r.event, r.prog)
                => Skew(r.event, r.prog) <= Skew(r.event, p)

\* A source sees every game from yesterday on of the leagues that it takes,
\* whichever sources were matched before it and whatever they took, unless a
\* provider has failed to tell of them in this generation.
NothingIsOverlooked ==
    stage = "match" =>
       \A l \in Mine : \A d \in (Today - 1)..(Today + Ahead) :
          <<l, d>> \in missed \/ Fixture(l, d) \subseteq pool[l]

MatchesAreTrue == SwitchesHold /\ BroadcastsAreLive /\ NothingIsOverlooked
===============================================================================
