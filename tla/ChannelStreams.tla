--------------------------- MODULE ChannelStreams ---------------------------
(***************************************************************************)
(* The streams of one event channel (consolidate mode): the rows of        *)
(* managed_channel_streams on one side, the ordered list that Dispatcharr  *)
(* plays from on the other, and the generations that carry one to the      *)
(* other: cleanup of dead streams, matching, the drift repair, the         *)
(* ordering pass with its time windows and the pin of a live event, and    *)
(* the fix of the reconciler.  The streams are numbers, as their ids are.  *)
(*                                                                         *)
(* A handler that makes several calls is one step, with an outcome for     *)
(* every call; a crash falls between handlers.                             *)
(***************************************************************************)
EXTENDS Integers, Sequences, FiniteSets, SequencesExt

CONSTANTS
    Streams,        \* ids of the streams that may match the event
    Slot,           \* Slot[s]: the EPG window of s, or Full
    Rankings,       \* priorities that stream ordering rules may compute
    LiveFrom, LiveTo,   \* event_date and scheduled_delete_at
    MaxTime,        \* bound of the clock
    MaxChanges,     \* bound of changes to matches and rules
    MaxFaults       \* bound of failing calls, crashes and outside edits

Full    == <<>>     \* attach_at is NULL
NoRules == <<>>     \* no ordering rules are configured

VARIABLES
    now,        \* the clock
    exists,     \* the channel has a row and is in Dispatcharr
    rows,       \* the active stream rows in the order of added_at
    saved,      \* exists and rows as last committed
    disp,       \* the streams of the channel in Dispatcharr, in order
    matched,    \* the streams that match the event in this run
    pool,       \* the streams that match the event now
    rules,      \* a ranking, or NoRules
    pc,         \* "idle", or the phase of the generation
    todo,       \* the matched streams not handled yet
    manual,     \* the run was started by the user
    changes, faults,    \* what the bounds count
    clean,      \* history: no fault and no reconciler fix so far
    lingering   \* history: streams that a failure left in Dispatcharr

genVars == <<matched, pc, todo, manual>>
envVars == <<now, pool, rules, changes>>
vars == <<now, exists, rows, saved, disp, matched, pool, rules, pc, todo,
          manual, changes, faults, clean, lingering>>

Row(s, p) == [id |-> s, prio |-> p, win |-> Slot[s]]
IdsIn(rs)   == {rs[i].id : i \in DOMAIN rs}

\* The numbers of a set by their keys, and in their own order if those are
\* equal: the place of one is told by how many come before it.
Sorted(S, key) ==
    [k \in 1..Cardinality(S) |-> CHOOSE x \in S :
        Cardinality({y \in S : \/ key[y] < key[x]
                               \/ key[y] = key[x] /\ y < x}) = k - 1]
Ascending(S) == [k \in 1..Cardinality(S) |-> CHOOSE x \in S :
                    Cardinality({y \in S : y < x}) = k - 1]

\* What a sequence has in the places of I, the rows that are of other streams
\* than those of S, and a list without them.
At(s, I) == LET places == Ascending(I)
            IN  [k \in DOMAIN places |-> s[places[k]]]
Without(rs, S)    == At(rs, {i \in DOMAIN rs : rs[i].id \notin S})
Dropping(list, S) == At(list, {i \in DOMAIN list : list[i] \notin S})

\* One of a list moved to its head.
ToFront(list, s) ==
    LET old == CHOOSE i \in DOMAIN list : list[i] = s
    IN  [k \in DOMAIN list |-> IF k = 1 THEN s
                               ELSE list[IF k <= old THEN k - 1 ELSE k]]

Open(w)   == w = Full \/ (w[1] <= now /\ now < w[2])
Live      == LiveFrom <= now /\ now <= LiveTo

\* get_ordered_stream_ids: the rows whose window is open, by priority and then
\* by age.
Active(rs) == {rs[i].id : i \in {j \in DOMAIN rs : Open(rs[j].win)}}
Ordered(rs) ==
    LET active == {i \in DOMAIN rs : Open(rs[i].win)}
        order  == Sorted(active, [i \in active |-> rs[i].prio])
    IN  [k \in DOMAIN order |-> rs[order[k]].id]

\* The rules' priority, or the next free one.
PriorityOf(s, rs) ==
    IF rules # NoRules THEN rules[s]
    ELSE CHOOSE p \in {0} \cup {rs[i].prio + 1 : i \in DOMAIN rs} :
            \A i \in DOMAIN rs : rs[i].prio < p

\* The two outcomes of a PATCH of the channel's streams.
Outcomes == IF faults < MaxFaults THEN {TRUE, FALSE} ELSE {TRUE}

Failed(n) == /\ faults + n <= MaxFaults
             /\ faults' = faults + n
             /\ clean'  = (clean /\ n = 0)

Init ==
    /\ now = 0 /\ exists = FALSE /\ rows = <<>> /\ disp = <<>>
    /\ saved = [exists |-> FALSE, rows |-> <<>>]
    /\ pool \in SUBSET Streams /\ matched = {}
    /\ rules \in Rankings \cup {NoRules}
    /\ pc = "idle" /\ todo = {} /\ manual = FALSE
    /\ changes = 0 /\ faults = 0 /\ clean = TRUE /\ lingering = {}

-----------------------------------------------------------------------------
(* A generation                                                             *)

StartRun ==
    /\ pc = "idle"
    /\ pc' = "cleanup"
    /\ manual' \in BOOLEAN
    /\ matched' = pool
    /\ UNCHANGED <<exists, rows, saved, disp, todo, envVars, faults, clean,
                   lingering>>

\* Mutant: a dead stream loses its row only.
CleanupRowsOnly ==
    /\ pc = "cleanup"
    /\ pc' = "match" /\ todo' = matched
    /\ LET dead == IdsIn(rows) \ matched
       IN  /\ rows' = Without(rows, dead)
           /\ exists' = (exists /\ IdsIn(rows) # dead)
           /\ disp' = IF exists' THEN disp ELSE <<>>
           /\ saved' = [exists |-> exists', rows |-> rows']
           /\ lingering' = IF exists' THEN lingering ELSE {}
           /\ Failed(0)
    /\ UNCHANGED <<matched, manual, envVars>>

\* cleanup_deleted_streams: streams that left the source or match another
\* event lose their row, and are taken out of the channel one call at a time;
\* the channel that keeps none is deleted.  The rows go whatever the calls do.
Cleanup ==
    /\ pc = "cleanup"
    /\ pc' = "match" /\ todo' = matched
    /\ LET dead == IdsIn(rows) \ matched
       IN  IF exists /\ dead = IdsIn(rows) /\ rows # <<>>
           THEN /\ exists' = FALSE /\ rows' = <<>> /\ disp' = <<>>
                /\ lingering' = {}
                /\ Failed(0)
           ELSE \E stay \in SUBSET (dead \cap ToSet(disp)) :
                /\ rows' = Without(rows, dead)
                /\ disp' = Dropping(disp, dead \ stay)
                /\ lingering' = lingering \cup stay
                /\ Failed(Cardinality(stay))
                /\ UNCHANGED exists
    /\ saved' = [exists |-> exists', rows |-> rows']
    /\ UNCHANGED <<matched, manual, envVars>>

\* _create_channel for the first stream; it commits at once.
Create(s) ==
    /\ pc = "match" /\ s \in todo /\ ~exists
    /\ todo' = todo \ {s}
    /\ now <= LiveTo
    /\ exists' = TRUE
    /\ rows' = <<Row(s, 0)>>
    /\ disp' = IF Open(Slot[s]) THEN <<s>> ELSE <<>>
    /\ saved' = [exists |-> TRUE, rows |-> rows']
    /\ UNCHANGED <<matched, pc, manual, envVars, faults, clean, lingering>>

\* The event is over: no channel is created for the stream.
Skip(s) ==
    /\ pc = "match" /\ s \in todo /\ ~exists /\ now > LiveTo
    /\ todo' = todo \ {s}
    /\ UNCHANGED <<exists, rows, saved, disp, matched, pc, manual, envVars,
                   faults, clean, lingering>>

\* A new stream right below the one that is being watched.
SlotBelow(order, s) ==
    IF Live /\ Len(order) > 1 /\ order[1] = s
    THEN ToFront(order, order[2])
    ELSE order

\* Mutant: a stream that Dispatcharr has lost is not given back.
NoDriftAdd(s, list, ok) == list

\* The drift repair of _sync_channel_settings: a stream that has no window is
\* appended when Dispatcharr does not list it.
DriftAdd(s, list, ok) ==
    IF ok /\ Slot[s] = Full /\ s \notin ToSet(list)
    THEN Append(list, s) ELSE list

\* The channel exists and does not have the stream: add the row, purge the
\* rows that Dispatcharr does not list (unless it could not be asked), push,
\* and take the row back when the push fails.  What was pushed lists it, and so
\* leaves the drift repair nothing to do.
AddStream(s) ==
    /\ pc = "match" /\ s \in todo /\ exists /\ s \notin IdsIn(rows)
    /\ todo' = todo \ {s}
    /\ \E asked, pushed, repaired \in Outcomes :
         LET phantoms == IF asked THEN Active(rows) \ ToSet(disp) ELSE {}
             kept     == Without(rows, phantoms)
         IN  /\ rows' = IF pushed
                         THEN Append(kept, Row(s, PriorityOf(s, rows)))
                         ELSE kept
             /\ disp' = IF pushed THEN SlotBelow(Ordered(rows'), s)
                        ELSE DriftAdd(s, disp, repaired)
             /\ lingering' = IF pushed THEN lingering \cap ToSet(disp')
                             ELSE lingering \cup (ToSet(disp') \ IdsIn(rows'))
             /\ Failed(Cardinality({x \in 1..3 :
                           ~(<<asked, pushed, repaired>>[x])}))
    /\ UNCHANGED <<exists, saved, matched, pc, manual, envVars>>

\* The channel has the stream: its window is recomputed and drift repaired.
KeepStream(s) ==
    /\ pc = "match" /\ s \in todo /\ exists /\ s \in IdsIn(rows)
    /\ todo' = todo \ {s}
    /\ \E repaired \in Outcomes :
         /\ disp' = DriftAdd(s, disp, repaired)
         /\ Failed(IF repaired THEN 0 ELSE 1)
    /\ UNCHANGED <<exists, rows, saved, matched, pc, manual, envVars,
                   lingering>>

EndMatch ==
    /\ pc = "match" /\ todo = {}
    /\ pc' = "order"
    /\ saved' = [exists |-> exists, rows |-> rows]
    /\ UNCHANGED <<exists, rows, disp, matched, todo, manual, envVars, faults,
                   clean, lingering>>

Reranked == IF rules = NoRules THEN rows
            ELSE [i \in DOMAIN rows |->
                     [rows[i] EXCEPT !.prio = rules[rows[i].id]]]

\* The pin: the stream that is on top by the priorities of before this pass.
Pinned(order) ==
    LET before == Ordered(rows)
    IN  IF ~manual /\ Live /\ before # <<>> /\ before[1] \in ToSet(order)
        THEN ToFront(order, before[1])
        ELSE order

\* Mutant: nothing is pushed unless a priority has changed.
ApplyOrderingIfChanged ==
    /\ pc = "order"
    /\ pc' = "expire"
    /\ rows' = Reranked
    /\ disp' = IF Reranked # rows THEN Pinned(Ordered(rows')) ELSE disp
    /\ lingering' = lingering \cap ToSet(disp')
    /\ saved' = [exists |-> exists, rows |-> rows']
    /\ UNCHANGED <<exists, matched, todo, manual, envVars, faults, clean>>

\* _apply_stream_ordering.  A list that could not be pushed is not pushed
\* again before a priority changes or a window exists.
ApplyOrdering ==
    /\ pc = "order"
    /\ pc' = "expire"
    /\ rows' = Reranked
    /\ IF /\ exists
          /\ Reranked # rows \/ \E i \in DOMAIN rows : rows[i].win # Full
       THEN \E pushed \in Outcomes :
              /\ disp' = IF pushed THEN Pinned(Ordered(rows')) ELSE disp
              /\ Failed(IF pushed THEN 0 ELSE 1)
       ELSE UNCHANGED disp /\ Failed(0)
    /\ lingering' = lingering \cap ToSet(disp')
    /\ saved' = [exists |-> exists, rows |-> rows']
    /\ UNCHANGED <<exists, matched, todo, manual, envVars>>

\* process_scheduled_deletions, and the end of the run.
Expire ==
    /\ pc = "expire"
    /\ pc' = "idle" /\ matched' = {} /\ manual' = FALSE
    /\ IF exists /\ now > LiveTo
       THEN /\ exists' = FALSE /\ rows' = <<>> /\ disp' = <<>>
            /\ lingering' = {}
       ELSE UNCHANGED <<exists, rows, disp, lingering>>
    /\ saved' = [exists |-> exists', rows |-> rows']
    /\ UNCHANGED <<todo, envVars, faults, clean>>

\* The process dies, or an exception rolls the transaction of the group back.
Crash ==
    /\ pc # "idle" /\ faults < MaxFaults
    /\ pc' = "idle" /\ matched' = {} /\ todo' = {} /\ manual' = FALSE
    /\ exists' = saved.exists /\ rows' = saved.rows
    /\ lingering' = lingering \cup (ToSet(disp) \ IdsIn(saved.rows))
    /\ Failed(1)
    /\ UNCHANGED <<saved, disp, envVars>>

-----------------------------------------------------------------------------
(* Beside the generations                                                   *)

\* POST /reconciliation/fix pushes the ids sorted.
FixDrift ==
    /\ pc = "idle" /\ exists /\ Active(rows) \notin {{}, ToSet(disp)}
    /\ disp' = Ascending(Active(rows))
    /\ clean' = FALSE
    /\ lingering' = {}
    /\ UNCHANGED <<exists, rows, saved, genVars, envVars, faults>>

\* Dispatcharr drops a stream from the channel.
DropOutside(s) ==
    /\ pc = "idle" /\ s \in ToSet(disp) /\ faults < MaxFaults
    /\ disp' = Dropping(disp, {s})
    /\ Failed(1)
    /\ lingering' = lingering \ {s}
    /\ UNCHANGED <<exists, rows, saved, genVars, envVars>>

Tick ==
    /\ now < MaxTime
    /\ now' = now + 1
    /\ UNCHANGED <<exists, rows, saved, disp, genVars, pool, rules, changes,
                   faults, clean, lingering>>

\* The source lists other streams, or the user edits the ordering rules.
Change ==
    /\ changes < MaxChanges
    /\ changes' = changes + 1
    /\ \/ pool' \in SUBSET Streams \ {pool} /\ UNCHANGED rules
       \/ rules' \in (Rankings \cup {NoRules}) \ {rules} /\ UNCHANGED pool
    /\ UNCHANGED <<now, exists, rows, saved, disp, genVars, faults, clean,
                   lingering>>

Generation ==
    \/ StartRun \/ Cleanup \/ EndMatch \/ ApplyOrdering \/ Expire
    \/ \E s \in Streams : Create(s) \/ Skip(s) \/ AddStream(s) \/ KeepStream(s)

Next ==
    \/ Generation
    \/ Crash \/ FixDrift \/ Tick \/ Change
    \/ \E s \in Streams : DropOutside(s)

Spec == Init /\ [][Next]_vars

\* The scheduler starts a generation again and again, and a run goes on: every
\* call has a timeout.
FairSpec == Spec /\ WF_vars(Generation)

-----------------------------------------------------------------------------
(* What must hold                                                           *)

Windows == {Slot[s] : s \in Streams}

TypeOK ==
    /\ now \in 0..MaxTime /\ exists \in BOOLEAN
    /\ rows \in Seq([id : Streams, prio : Nat, win : Windows])
    /\ Cardinality(IdsIn(rows)) = Len(rows)
    /\ ~exists => rows = <<>>
    /\ disp \in Seq(Streams) /\ Cardinality(ToSet(disp)) = Len(disp)
    /\ matched \subseteq Streams /\ pool \subseteq Streams
    /\ todo \subseteq matched
    /\ rules \in Rankings \cup {NoRules}
    /\ pc \in {"idle", "cleanup", "match", "order", "expire"}
    /\ manual \in BOOLEAN /\ clean \in BOOLEAN
    /\ lingering \subseteq Streams

\* Without any fault the ordering pass leaves the channel with exactly the
\* streams whose window is open, in the order of their priorities, except that
\* the first one may be a pinned one.
InOrderAfterPass ==
    [][(pc = "order" /\ pc' = "expire" /\ clean') =>
         LET want == Ordered(rows')
         IN  \/ disp' = want
             \/ \E s \in ToSet(want) : disp' = ToFront(want, s)]_vars

\* What the channel plays belongs to it: a stream that has no row stays in the
\* channel only if the call that should have removed it failed or a rollback
\* took its row.
OnlyFailuresLinger == ToSet(disp) \subseteq IdsIn(rows) \cup lingering

\* Once faults and changes are over, the streams that match are in the
\* channel, whatever was lost, rolled back, purged or dropped before.
Arrived == exists => \A s \in pool : Open(Slot[s]) => s \in ToSet(disp)
StreamsArrive == <>[]Arrived

\* "Scheduled runs keep the top slot of an in-window event's channel stable":
\* while the event is live, no step of a scheduled run takes the stream that
\* is on top, and still active, from there.
LiveTopStays ==
    [][(/\ pc # "idle" /\ ~manual /\ Live /\ exists
        /\ disp # <<>> /\ disp[1] \in Active(rows'))
         => disp' # <<>> /\ disp'[1] = disp[1]]_vars
=============================================================================
