------------------------------ MODULE EventGuide ------------------------------
(***************************************************************************)
(* The guide of the channels of one event: which part of the event a       *)
(* stream shows (ufc_segments.py, racing_segments.py), the programme of    *)
(* that part and what fills the time around it (event_epg.py,              *)
(* event_filler.py), and the merged file.  Groups are rendered one after   *)
(* the other, so that the groups that share a channel may see different    *)
(* times.  Parts that get a channel of their own are numbered: the UFC     *)
(* segments in their order, the sessions of a race weekend; 0 is the event.*)
(***************************************************************************)
EXTENDS Naturals, FiniteSetsExt

CONSTANTS
    DayLen,     \* units in a day
    Block,      \* units in a time block; a day has a whole number of them
    Lookback,   \* units before now at which the guide begins
    Now,        \* when the first group is rendered
    Duration,   \* of the sport
    Session,    \* of a session other than the race
    Gap,        \* the 1.5 hours that prelims are assumed to take
    Tolerance,  \* how far from a segment or session a time may be
    Events,     \* the event: [kind, start, main, times]
    Streams,    \* what a stream tells: [hint, time, till]
    Sources     \* groups that have a stream of the event

None == 0

VARIABLES
    event, stream,  \* the event, and the stream of each group
    now,
    at,             \* when each group was rendered, or None
    rendered,       \* the programmes of each group
    file            \* the programmes of the file, or Unwritten

vars == <<event, stream, now, at, rendered, file>>

Unwritten == {None}

\* Segments of a card; a stream of two is one of the main card.
Early    == 1
Prelims  == 2
Main     == 3
Combined == 4
Order == Early..Main

\* Sessions of a weekend; a stream may also name qualifying of any kind.
Practice   == 1
Qualifying == 2
Hyperpole  == 3
Race       == 4
Sessions == Practice..Race

Init ==
    /\ event \in Events /\ stream \in [Sources -> Streams]
    /\ now = Now /\ at = [g \in Sources |-> None]
    /\ rendered = [g \in Sources |-> {}] /\ file = Unwritten

Distance(s, t) == IF s > t THEN s - t ELSE t - s
Offered == DOMAIN event.times

-----------------------------------------------------------------------------
(* Segments of a UFC card                                                   *)

\* determine_segment_from_time: the segment that begins nearest, if near.
SegmentAt(t) ==
    LET near == {s \in Offered : \A r \in Offered :
                    Distance(t, event.times[s]) <= Distance(t, event.times[r])}
    IN  IF near # {} /\ Distance(t, event.times[Min(near)]) <= Tolerance
        THEN Min(near) ELSE Main

\* disambiguate_prelims_by_time: prelims may be early prelims.
Disambiguated(s, t) ==
    IF /\ s = Prelims /\ t # None /\ {Early, Prelims} \subseteq Offered
       /\ Distance(t, event.times[Early]) < Distance(t, event.times[Prelims])
    THEN Early ELSE s

\* canonicalize_segment: one that the event has, rather a later one.
Canonical(s) ==
    IF Offered = {} \/ s \in Offered THEN s
    ELSE IF \E r \in Offered : r > s THEN Min({r \in Offered : r > s})
    ELSE Max(Offered)

SegmentOf(x) ==
    Canonical(Disambiguated(
        IF x.hint = Combined THEN Main
        ELSE IF x.hint # None THEN x.hint
        ELSE IF x.time # None THEN SegmentAt(x.time)
        ELSE Main, x.time))

\* _estimate_segment_times_fallback
Estimated(s) ==
    LET third == Duration \div 3
        from  == event.main - Gap
    IN  IF event.main = None
        THEN [from |-> event.start + (s - 1) * third,
              to |-> event.start + s * third]
        ELSE CASE s = Early   -> [from |-> event.start, to |-> from]
               [] s = Prelims -> [from |-> IF event.start > from
                                           THEN event.start ELSE from,
                                  to |-> event.main]
               [] s = Main    -> [from |-> event.main,
                                  to |-> event.main + Duration \div 2]

\* Mutant: every segment is taken for the last.
SegmentTimesLast(s) ==
    IF s \notin Offered THEN Estimated(s)
    ELSE [from |-> event.times[s], to |-> event.times[s] + Duration \div 2]

\* get_segment_times: up to the next segment that the event has.
SegmentTimes(s) ==
    IF s \notin Offered THEN Estimated(s)
    ELSE [from |-> event.times[s],
          to |-> IF \E r \in Offered : r > s
                 THEN event.times[Min({r \in Offered : r > s})]
                 ELSE event.times[s] + Duration \div 2]

-----------------------------------------------------------------------------
(* Sessions of a race weekend                                               *)

SessionTimes(s) ==
    [from |-> event.times[s],
     to |-> event.times[s] + IF s = Race THEN Duration ELSE Session]

\* nearest_session: 0 within a session, else how far from its nearer end.
Away(s, t) == LET w == SessionTimes(s)
              IN  IF t < w.from THEN w.from - t
                  ELSE IF t > w.to THEN t - w.to ELSE 0

Nearest(t) == CHOOSE s \in Offered :
    \A r \in Offered : \/ Away(s, t) < Away(r, t)
                       \/ (Away(s, t) = Away(r, t) /\ s <= r)

\* _session_in_category: qualifying is also hyperpole.
InCategory(s, hint) ==
    s = hint \/ (hint = Qualifying /\ s = Hyperpole)

\* expand_racing_segments: the sessions that the name of the stream names,
\* or that the programme matched in its guide covers, or all but practice.
SessionsOf(x) ==
    IF x.hint # None THEN {s \in Offered : InCategory(s, x.hint)}
    ELSE IF x.time = None THEN Offered \ {Practice}
    ELSE LET covered == {s \in Offered : /\ SessionTimes(s).from <= x.till
                                         /\ x.time <= SessionTimes(s).to}
             n == Nearest(x.time)
         IN  IF covered # {} THEN covered
             ELSE IF Away(n, x.time) <= Tolerance THEN {n} ELSE {}

-----------------------------------------------------------------------------
(* Programmes                                                               *)

Whole == [from |-> event.start, to |-> event.start + Duration]

\* _get_ufc_programme_times: fights of other series are told apart by the
\* name alone, and have one channel.
Fight(x) ==
    CASE x.hint = Prelims -> [from |-> event.start, to |-> event.main]
      [] x.hint = Main    -> [from |-> event.main,
                              to |-> event.main + Duration \div 2]
      [] OTHER            -> Whole

\* The channels of a stream and the part of the event that each shows.
Shown(x) ==
    CASE event.kind = "ufc" ->
            {[channel |-> SegmentOf(x), part |-> SegmentTimes(SegmentOf(x))]}
      [] event.kind = "racing" ->
            {[channel |-> s, part |-> SessionTimes(s)] : s \in SessionsOf(x)}
      [] event.kind = "fight" /\ event.main # None ->
            {[channel |-> 0, part |-> Fight(x)]}
      [] OTHER -> {[channel |-> 0, part |-> Whole]}

Chunks(from, to) ==
    {[from |-> IF b * Block > from THEN b * Block ELSE from,
      to |-> IF (b + 1) * Block < to THEN (b + 1) * Block ELSE to] :
        b \in {c \in (from \div Block)..(to \div Block) :
                  from < to /\ c * Block < to}}

\* generate_with_counts: until the part begins and for a day after it ends; a
\* channel of the whole event is filled for a day from now.
Filled(c, t) ==
    LET w == IF c.channel = 0 THEN Whole ELSE c.part
    IN  Chunks(t - Lookback, w.from)
        \cup Chunks(w.to, (IF c.channel = 0 THEN t ELSE w.to) + DayLen)

\* Mutant: the fillers of a segment are those of the event.
GuideOfEvent(x, t) ==
    {[channel |-> c.channel, from |-> p.from, to |-> p.to] : <<c, p>> \in
        UNION {{c} \X ({c.part} \cup Filled([c EXCEPT !.channel = 0], t)) :
                  c \in Shown(x)}}

GuideOf(x, t) ==
    {[channel |-> c.channel, from |-> p.from, to |-> p.to] : <<c, p>> \in
        UNION {{c} \X ({c.part} \cup Filled(c, t)) : c \in Shown(x)}}

Render(g) ==
    /\ at[g] = None
    /\ at' = [at EXCEPT ![g] = now]
    /\ rendered' = [rendered EXCEPT ![g] = GuideOf(stream[g], now)]
    /\ now' \in {now, now + 1}
    /\ UNCHANGED <<event, stream, file>>

\* merge_xmltv_content: programmes of one channel, begin and end are one.
Merge ==
    /\ file = Unwritten /\ \A g \in Sources : at[g] # None
    /\ file' = UNION {rendered[g] : g \in Sources}
    /\ UNCHANGED <<event, stream, now, at, rendered>>

Next == Merge \/ \E g \in Sources : Render(g)

Spec == Init /\ [][Next]_vars

-----------------------------------------------------------------------------
(* What must hold                                                           *)

TypeOK ==
    /\ event \in Events /\ stream \in [Sources -> Streams]
    /\ now \in Nat /\ at \in [Sources -> Nat]
    /\ file = Unwritten \/
          \A p \in file : /\ p.channel \in Order \cup Sessions \cup {0}
                          /\ p.from \in Nat /\ p.to \in Nat

Parts == UNION {Shown(stream[g]) : g \in Sources}

\* Prelims that are assumed to begin before the event leave early prelims that
\* end before they begin.
Inverted == \E c \in Parts : c.part.from >= c.part.to

\* Groups that were rendered at different times begin and end their fillers at
\* different times; a fight's channel has the parts of all its streams.
Apart == \/ \E g, h \in Sources : at[g] # at[h]
         \/ (event.kind = "fight" /\ \E c \in Parts : c.part # Whole)

\* Streams of any name or time, in several groups, leave each channel with one
\* programme at a time from the lookback to the end of its fillers, and no
\* two channels of a card show the same time of the event.
ChannelMoments ==
    file # Unwritten =>
       /\ \A c \in Parts :
             LET own == {p \in file : p.channel = c.channel}
                 end == Max({p.to : p \in own})
                 On(t) == {p \in own : p.from <= t /\ t < p.to}
             IN  Apart \/ Inverted \/
                 \A t \in (Now - Lookback)..(end - 1) : Cardinality(On(t)) = 1
       /\ event.kind = "ufc" /\ ~Inverted =>
             \A c, d \in Parts :
                c.channel < d.channel => c.part.to <= d.part.from
===============================================================================
