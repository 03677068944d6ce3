------------------------------ MODULE MatchCache ------------------------------
(* The stream match cache (consumers/stream_match_cache.py): what a stream  *)
(* was matched to, so that a generation need not match it again.  A run     *)
(* looks a stream up, uses an entry of the day, or matches the stream anew  *)
(* and stores the match; it purges what no run has seen for a while.  The   *)
(* user pins a correction.  A preview is a run of its own beside the        *)
(* scheduled one, and every run raises the generation counter.              *)
(* Dates are relative to the current day, ages to the counter.              *)
EXTENDS Integers, FiniteSets

CONSTANTS Streams, Events,
          TeamStreams,      \* the streams of two teams; the others name a card
          Runs,             \* the scheduled generation, a preview
          Back, Ahead,      \* the match window in days
          PurgeAfter,       \* PURGE_AFTER_GENERATIONS
          MaxChanges        \* bound: changes by the user or the providers

Gone == -Back - 1           \* a day before the window
Days == Gone..(Ahead + 1)
Old == PurgeAfter + 2       \* ages above the purge age are all alike
None == 99                  \* no event, or no cached event data

VARIABLES when,     \* the day of each event, as the provider tells it
          listed,   \* the streams their source lists
          row,      \* stream_match_cache, by fingerprint
          run,      \* the runs: behind the counter by lag, what is left
          pin,      \* the correction the user made and did not take back
          changes

vars == <<when, listed, row, run, pin, changes>>

NoRow == [event |-> None, date |-> None, age |-> 0, user |-> FALSE]
Rested == [lag |-> 0, todo |-> {}, at |-> "rest", s |-> None]
Before(d) == IF d = None THEN None ELSE IF d = Gone THEN Gone ELSE d - 1
Older(n) == IF n >= Old THEN Old ELSE n + 1

TypeOK ==
    /\ when \in [Events -> Days] /\ listed \subseteq Streams
    /\ row \in [Streams -> [event : Events \cup {None},
                            date : Days \cup {None},
                            age : 0..Old, user : BOOLEAN]]
    /\ \A s \in Streams : row[s].event = None => row[s] = NoRow
    /\ \A r \in Runs : /\ run[r].lag \in 0..Old
                       /\ run[r].todo \subseteq Streams
                       /\ run[r].at # "rest" => run[r].lag < Old
    /\ pin \in [Streams -> Events \cup {None}]
    /\ changes \in 0..MaxChanges

Init == /\ when \in [Events -> 0..Ahead] /\ listed = Streams
        /\ row = [s \in Streams |-> NoRow]
        /\ run = [r \in Runs |-> Rested]
        /\ pin = [s \in Streams |-> None]
        /\ changes = 0

-----------------------------------------------------------------------------
(* A run.  Two runs are never so far apart that one purges as if the other *)
(* had ended long ago: Old bounds how far the counter moves during a run.  *)

Start(r) ==
    /\ run[r].at = "rest"
    /\ \A q \in Runs \ {r} : run[q].at # "rest" => run[q].lag + 1 < Old
    /\ run' = [q \in Runs |->
                 IF q = r THEN [Rested EXCEPT !.at = "next", !.todo = listed]
                 ELSE IF run[q].at = "rest" THEN run[q]
                 ELSE [run[q] EXCEPT !.lag = @ + 1]]
    /\ row' = [s \in Streams |-> IF row[s] = NoRow THEN NoRow
                  ELSE [row[s] EXCEPT !.age = Older(@)]]
    /\ UNCHANGED <<when, listed, pin, changes>>

At(r, at) == run[r].at = at
Done(r, s) == run' = [run EXCEPT ![r].at = "next", ![r].s = None,
                                 ![r].todo = @ \ {s}]

\* get and touch; what is not usable is matched anew.
Look(r) == \E s \in run[r].todo :
    LET e == row[s]
        pinned == e.user /\ s \in TeamStreams
    IN  /\ At(r, "next")
        /\ IF e = NoRow THEN UNCHANGED row
           ELSE row' = [row EXCEPT ![s].age = run[r].lag]
        /\ IF e # NoRow /\ e.date # None /\ (pinned \/ e.date = 0)
           THEN Done(r, s)
           ELSE run' = [run EXCEPT ![r].s = s, ![r].at =
                    IF e # NoRow /\ e.date = None THEN "drop" ELSE "search"]
        /\ UNCHANGED <<when, listed, pin, changes>>

\* The event cannot be rebuilt from the entry: the entry is deleted.
Drop(r) == /\ At(r, "drop")
           /\ row' = [row EXCEPT ![run[r].s] = NoRow]
           /\ run' = [run EXCEPT ![r].at = "search"]
           /\ UNCHANGED <<when, listed, pin, changes>>

\* What matching may find: names can be ambiguous in the window.
Found(s) == IF s \in TeamStreams THEN {e \in Events : when[e] \in -Back..Ahead}
                                 ELSE {e \in Events : when[e] = 0}

\* Mutant: the upsert overwrites whatever is there.
StoreOver(s, e, lag) ==
    row' = [row EXCEPT ![s] = [event |-> e, date |-> when[e], age |-> lag,
                               user |-> FALSE]]

Store(s, e, lag) ==
    IF row[s].user THEN UNCHANGED row
    ELSE row' = [row EXCEPT ![s] = [event |-> e, date |-> when[e],
                                    age |-> lag, user |-> FALSE]]

Search(r) ==
    LET s == run[r].s
    IN  /\ At(r, "search")
        /\ \/ \E e \in Found(s) : Store(s, e, run[r].lag)
           \/ UNCHANGED row        \* nothing is stored of a failed match
        /\ Done(r, s)
        /\ UNCHANGED <<when, listed, pin, changes>>

\* Mutant: the age is never looked at.
NothingStale(s, lag) == FALSE

Stale(s, lag) == /\ row[s] # NoRow /\ ~row[s].user
                 /\ row[s].age - lag > PurgeAfter

Purge(r) ==
    /\ At(r, "next") /\ run[r].todo = {}
    /\ row' = [s \in Streams |->
                 IF Stale(s, run[r].lag) THEN NoRow ELSE row[s]]
    /\ run' = [run EXCEPT ![r] = Rested]
    /\ UNCHANGED <<when, listed, pin, changes>>

-----------------------------------------------------------------------------
(* The user.                                                               *)

Change == changes < MaxChanges /\ changes' = changes + 1

\* Only today's events of the league are searched for the event's data.
Correct == \E s \in Streams, e \in Events :
    /\ Change
    /\ pin' = [pin EXCEPT ![s] = e]
    /\ row' = [row EXCEPT ![s] =
                [event |-> e, user |-> TRUE,
                 date |-> IF when[e] = 0 THEN 0 ELSE None,
                 age |-> IF row[s] = NoRow THEN Old ELSE row[s].age]]
    /\ UNCHANGED <<when, listed, run>>

TakeBack == \E s \in Streams :
    /\ Change
    /\ row[s].user
    /\ row' = [row EXCEPT ![s] = NoRow]
    /\ pin' = [pin EXCEPT ![s] = None]
    /\ UNCHANGED <<when, listed, run>>

Clear == /\ Change
         /\ row' = [s \in Streams |-> NoRow]
         /\ pin' = [s \in Streams |-> None]
         /\ UNCHANGED <<when, listed, run>>

-----------------------------------------------------------------------------
(* The world.                                                              *)

Reschedule == \E e \in Events, d \in 0..Ahead :
    /\ Change /\ when' = [when EXCEPT ![e] = d]
    /\ UNCHANGED <<listed, row, run, pin>>

List == \E s \in Streams :
    /\ Change
    /\ listed' = IF s \in listed THEN listed \ {s} ELSE listed \cup {s}
    /\ UNCHANGED <<when, row, run, pin>>

\* Midnight, when no run is under way: a run keeps the date it began with.
NextDay == /\ \A r \in Runs : run[r].at = "rest"
           /\ when' = [e \in Events |-> Before(when[e])]
           /\ row' = [s \in Streams |-> [row[s] EXCEPT !.date = Before(@)]]
           /\ UNCHANGED <<listed, run, pin, changes>>

Work(r) == Look(r) \/ Drop(r) \/ Search(r) \/ Purge(r)
Next == \/ \E r \in Runs : Start(r) \/ Work(r)
        \/ Correct \/ TakeBack \/ Clear \/ Reschedule \/ List \/ NextDay

Spec == Init /\ [][Next]_vars
\* Runs are started by the schedule and come to their end.
FairSpec == Spec /\ \A r \in Runs : WF_vars(Start(r)) /\ WF_vars(Work(r))

-----------------------------------------------------------------------------
(* No match a run finds replaces a correction, even one made while the run  *)
(* was already searching for that stream.                                   *)
PinsAreNotReplaced ==
    [][\A s \in Streams :
         row[s].user /\ row'[s].event \notin {None, row[s].event}
            => pin'[s] = row'[s].event]_vars

(* A stream that no source lists any more leaves the cache, unless pinned:  *)
(* the runs go on raising the counter, and previews do not keep it young.   *)
UnseenLeave == \A s \in Streams :
    <>[](s \notin listed) => <>[](row[s] = NoRow \/ row[s].user)

(* A correction is in the cache until the user takes it back.               *)
CorrectionsStay == \A s \in Streams : pin[s] # None =>
                     row[s].user /\ row[s].event = pin[s]
=============================================================================
