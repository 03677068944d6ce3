--------------------------- MODULE StreamClassifier ---------------------------
(***************************************************************************)
(* What kind of thing a stream's name, or a programme's title, tells of    *)
(* (consumers/matching/classifier.py): the cascade of classify_stream.  A  *)
(* text is the record of what normalisation and the patterns find in it:   *)
(*   card     a keyword of combat sports                                   *)
(*   hint     the leagues that its beginning hints at                      *)
(*   sport    the sports that it hints at                                  *)
(*   sep      how a separator divides it: "pair" (two names), "half" (one  *)
(*            name), "label" (names after the label of a race or round),   *)
(*            "comma" (Surname, First - Surname, First), "none"            *)
(*   custom   the user's expression for two names fits                     *)
(*   star     it speaks of all-stars                                       *)
(*   names    the names found, or the whole text as a name                 *)
(*   title    what else it names: a card, a race, a court                  *)
(*   racing   it names racing, and series: leagues of the series it names  *)
(*   day, time, trusted  the date and time in it, and whether the date's   *)
(*            format is known                                              *)
(***************************************************************************)
EXTENDS Naturals, Sequences, FiniteSetsExt

CONSTANTS
    Leagues,
    SportOf,    \* of each league
    TypeOf      \* "team_vs_team", "event_card" or "event"

None == 0       \* no day, time or instant
NoSport == "none"

Separators == {"pair", "half", "label"}

\* Only a keyword can be overruled, by the hint at another sport.
IsCard(x, type) ==
    \/ type = "event_card"
    \/ x.card /\ (x.sport = {} \/ x.sport \cap {"mma", "boxing"} # {})

\* is_racing and is_tennis: the group's leagues, a league or a sport tell.
IsOf(x, sport, group) ==
    \/ group
    \/ \E l \in Leagues : x.hint = {l} /\ SportOf[l] = sport
    \/ x.sport = {sport}

\* Team names or the hint at another sport keep a text from being a race.
IsRacing(x, type, sport) ==
    /\ IsOf(x, "racing", type = "event" /\ sport \in {NoSport, "racing"})
    /\ x.sep \notin {"pair", "half"}
    /\ x.sport \subseteq {"racing"}

IsTennis(x, type, sport) ==
    IsOf(x, "tennis", type = "event" /\ sport = "tennis")

\* A tennis stream names two players, or is the feed of a court.
NamesPlayers(x) == x.custom \/ x.sep \in {"pair", "comma"}

\* _CLASSIFY_STEPS: the first step that applies decides.
Steps == <<"event_card", "racing", "tennis", "teams", "all_star", "teams",
           "team_only", "placeholder">>

\* classify_stream, where most leagues of the group have the type and most
\* of its leagues of events the sport.
Category(x, type, sport) ==
    LET applies ==
          <<IsCard(x, type), IsRacing(x, type, sport),
            IsTennis(x, type, sport), x.custom, x.star /\ x.hint # {},
            x.sep \in Separators,
            x.day = None /\ x.time = None /\ x.names # <<>>, TRUE>>
    IN  Steps[Min({i \in DOMAIN Steps : applies[i]})]
===============================================================================
