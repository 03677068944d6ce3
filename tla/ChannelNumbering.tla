-------------------------- MODULE ChannelNumbering --------------------------
(***************************************************************************)
(* Channel numbers across generations.  A generation takes a snapshot of   *)
(* the numbers that foreign channels hold in Dispatcharr, renumbers the    *)
(* channels once (unless the mode is sticky), creates and deletes channels *)
(* group by group, renumbers after each change, and ends with the one pass *)
(* that decides about a re-layout and pushes what moved.  Settings change  *)
(* at any time, from API threads.                                          *)
(*                                                                         *)
(* The daily gate is one flag: due says that the reset time has passed     *)
(* since the last re-layout.  The row of a channel that ended is gone:     *)
(* NoNumber, unlocked.                                                     *)
(***************************************************************************)
EXTENDS ChannelNumbers

CONSTANTS
    Orders,         \* the sort orders that priorities can produce
    Settings,       \* the settings that users choose from
    Externals,      \* sets of numbers that foreign channels may hold
    MaxChanges,     \* bound: settings changes and failing pushes
    ArmsInWindow    \* may settings change between the reads and the first
                    \* write of the end-of-run pass

\* One query sorts all rows: each comes exactly once.
ASSUME OrdersAssumption    == \A o \in Orders : /\ o \in Seq(Channels)
                                                /\ ToSet(o) = Channels
                                                /\ IsInjective(o)
ASSUME SettingsAssumption  == Settings \subseteq Config
ASSUME ExternalsAssumption == \A e \in Externals : e \subseteq Nat
                                                   /\ IsFiniteSet(e)
ASSUME BoundAssumption     == /\ MaxChanges \in Nat
                              /\ ArmsInWindow \in BOOLEAN

VARIABLES
    set,        \* the numbering settings
    order,      \* the sort order of all channels
    armed,      \* force_channel_relayout_pending
    due,        \* the daily re-layout is due
    live,       \* channels that are not deleted
    num,        \* channel_number
    locked,     \* channel_number_locked
    disp,       \* the number that Dispatcharr shows
    ext,        \* numbers of foreign channels in Dispatcharr
    step,       \* where the generation is
    seen,       \* external_occupied, computed when the generation starts
    dirty,      \* a channel was created or deleted since the last pass
    force,      \* force_reset
    plan,       \* settings and order read by the end-of-run pass
    drift,      \* channels that the end-of-run pass has to push
    changes,    \* settings changes and failing pushes so far
    clean,      \* history: every number comes from an unbroken layout
    basis,      \* history: settings and order of the last full layout
    unpushed    \* history: channels whose last push failed, or that lived
                \* when the mode changed in the middle of a generation

settingVars == <<set, order, armed, due, changes>>
channelVars == <<live, num, locked, disp>>
runVars     == <<step, seen, dirty, force, plan, drift>>
history     == <<clean, basis, unpushed>>
vars        == <<settingVars, channelVars, ext, runVars, history>>

Steps == {"idle", "start", "groups", "decide", "read", "write", "push"}

Choice == [set |-> set, order |-> order]

Init ==
    /\ set \in Settings
    /\ order \in Orders
    /\ armed = FALSE
    /\ due \in BOOLEAN
    /\ live = {}
    /\ num = Nowhere
    /\ locked = [c \in Channels |-> FALSE]
    /\ disp = Nowhere
    /\ ext \in Externals
    /\ step = "idle"
    /\ seen = {}
    /\ dirty = FALSE
    /\ force = FALSE
    /\ plan = Choice
    /\ drift = {}
    /\ changes = 0
    /\ clean = TRUE
    /\ basis = Choice
    /\ unpushed = {}

-----------------------------------------------------------------------------
(* Settings                                                                 *)

MayChange == /\ changes < MaxChanges
             /\ ArmsInWindow \/ step # "write"
             /\ changes' = changes + 1
             /\ UNCHANGED <<due, channelVars, ext, runVars, clean, basis>>

\* Mutant: only a change of the stability mode is compared.
ArmedByModeOnly(s) ==
    CASE s.mode # set.mode /\ s.mode # "compact"  -> TRUE
      [] s.mode # set.mode /\ s.mode = "compact"  -> FALSE
      [] OTHER                                    -> armed

\* update_channel_numbering_settings: a change of the gap size or of the
\* stability mode arms a re-layout, switching to compact drops it.
ArmedByNumbering(s) ==
    LET changed == s.gap # set.gap \/ s.mode # set.mode
    IN  CASE changed /\ s.mode # "compact"            -> TRUE
          [] s.mode # set.mode /\ s.mode = "compact"  -> FALSE
          [] OTHER                                    -> armed

ChangeNumbering ==
    /\ \E s \in Settings :
         /\ s # set
         /\ s.first = set.first /\ s.last = set.last
         /\ set' = s
         /\ armed' = ArmedByNumbering(s)
    /\ unpushed' = IF step # "idle" /\ Sticky(set') # Sticky(set)
                   THEN live ELSE unpushed
    /\ UNCHANGED order
    /\ MayChange

\* update_lifecycle_settings: a new range arms only in a sticky mode.
ChangeRange ==
    /\ \E s \in Settings :
         /\ s # set
         /\ s = [set EXCEPT !.first = s.first, !.last = s.last]
         /\ set' = s
         /\ armed' = (armed \/ Sticky(set))
    /\ UNCHANGED <<order, unpushed>>
    /\ MayChange

\* Sort priorities and priority teams arm in every mode.
ChangeOrder ==
    /\ \E o \in Orders \ {order} : order' = o
    /\ armed' = TRUE
    /\ UNCHANGED <<set, unpushed>>
    /\ MayChange

\* POST .../relayout: "Re-grid now".
RegridNow ==
    /\ Sticky(set)
    /\ armed' = TRUE
    /\ UNCHANGED <<set, order, unpushed>>
    /\ MayChange

\* The reset time of a new day passes.
NewDay ==
    /\ ~due
    /\ due' = TRUE
    /\ UNCHANGED <<set, order, armed, changes, channelVars, ext, runVars,
                   history>>

\* Somebody else's channels change in Dispatcharr.
ExternalChange ==
    /\ step = "idle"
    /\ \E e \in Externals \ {ext} : ext' = e
    /\ UNCHANGED <<settingVars, channelVars, runVars, history>>

-----------------------------------------------------------------------------
(* A layout is written                                                      *)

\* The rows that a layout writes.  An anchor that stays is not among them.
Placed(l) == {c \in Channels : l.at[c] # NoNumber}

\* Does the layout place everybody, whatever was there before?
Full(s, f) == ~Sticky(s) \/ f

Sorted(o) ==
    Iterate(LAMBDA s, c : IF c \in live THEN Append(s, c) ELSE s, <<>>, o)

LayoutBy(s, o, f) == Layout(s, seen, Sorted(o), num, locked, f)

Apply(l, s, o, f) ==
    /\ num' = [c \in Channels |-> IF c \in Placed(l) THEN l.at[c] ELSE num[c]]
    /\ locked' = [c \in Channels |-> locked[c] \/ (Sticky(s) /\ c \in Placed(l))]
    /\ clean' = (~s.manual /\ ~l.stop /\ (clean \/ Full(s, f)))
    /\ basis' = IF Full(s, f) THEN [set |-> s, order |-> o] ELSE basis

\* The pre-process pass and the pass after a group, both without a push.
MidRunPass ==
    IF Sticky(set) THEN UNCHANGED <<num, locked, clean, basis>>
    ELSE Apply(LayoutBy(set, order, FALSE), set, order, FALSE)

-----------------------------------------------------------------------------
(* The generation                                                           *)

\* compute_external_occupied: the numbers in Dispatcharr that no row of the
\* database holds.  It compares numbers, not channels.
ExternalOccupied ==
    ((ext \cup {disp[c] : c \in live}) \ {num[c] : c \in live}) \ {NoNumber}

BeginRun ==
    /\ step = "idle"
    /\ step' = "start"
    /\ seen' = ExternalOccupied
    /\ UNCHANGED <<settingVars, channelVars, ext, dirty, force, plan, drift,
                   history>>

PrePass ==
    /\ step = "start"
    /\ MidRunPass
    /\ step' = "groups"
    /\ UNCHANGED <<settingVars, live, disp, ext, seen, dirty, force, plan,
                   drift, unpushed>>

\* _create_channel: the number goes to Dispatcharr with the channel.
Create(c) ==
    /\ step = "groups"
    /\ c \notin live
    /\ LET n == NextNumber(set, {num[d] : d \in live} \cup seen, LeagueOf[c])
       IN  /\ n # NoNumber
           /\ num'  = [num EXCEPT ![c] = n]
           /\ disp' = [disp EXCEPT ![c] = n]
    /\ live' = live \cup {c}
    /\ dirty' = TRUE
    /\ UNCHANGED <<settingVars, locked, ext, step, seen, force, plan, drift,
                   history>>

\* Mutant: a deleted row keeps its number.
ExpireKeepsNumber(c) ==
    /\ step = "groups"
    /\ c \in live
    /\ live'   = live \ {c}
    /\ locked' = [locked EXCEPT ![c] = FALSE]
    /\ disp'   = [disp EXCEPT ![c] = NoNumber]
    /\ unpushed' = unpushed \ {c}
    /\ dirty'  = TRUE
    /\ UNCHANGED <<settingVars, num, ext, step, seen, force, plan, drift,
                   clean, basis>>

\* The event is over, or its stream is gone.
Expire(c) ==
    /\ step = "groups"
    /\ c \in live
    /\ live'   = live \ {c}
    /\ num'    = [num EXCEPT ![c] = NoNumber]
    /\ locked' = [locked EXCEPT ![c] = FALSE]
    /\ disp'   = [disp EXCEPT ![c] = NoNumber]
    /\ unpushed' = unpushed \ {c}
    /\ dirty'  = TRUE
    /\ UNCHANGED <<settingVars, ext, step, seen, force, plan, drift, clean,
                   basis>>

\* _sync_channel_settings on a stream that still matches: the number in the
\* database is pushed if Dispatcharr shows another.
SyncNumber(c) ==
    /\ step = "groups"
    /\ c \in live
    /\ disp[c] # num[c]
    /\ disp' = [disp EXCEPT ![c] = num[c]]
    /\ unpushed' = unpushed \ {c}
    /\ UNCHANGED <<settingVars, live, num, locked, ext, runVars, clean, basis>>

PostPass ==
    /\ step = "groups"
    /\ dirty
    /\ MidRunPass
    /\ dirty' = FALSE
    /\ UNCHANGED <<settingVars, live, disp, ext, step, seen, force, plan,
                   drift, unpushed>>

EndGroups ==
    /\ step = "groups"
    /\ ~dirty
    /\ step' = "decide"
    /\ UNCHANGED <<settingVars, channelVars, ext, seen, dirty, force, plan,
                   drift, history>>

\* should_run_channel_reset
Decide ==
    /\ step = "decide"
    /\ force' = (Sticky(set) /\ (armed \/ due))
    /\ step' = "read"
    /\ UNCHANGED <<settingVars, channelVars, ext, seen, dirty, plan, drift,
                   history>>

\* The settings, the range and the sorted channels are read, in statements
\* that are not yet part of a transaction.
Read ==
    /\ step = "read"
    /\ plan' = Choice
    /\ step' = "write"
    /\ UNCHANGED <<settingVars, channelVars, ext, seen, dirty, force, drift,
                   history>>

\* Mutant: the numbers are compared as integers in every mode.
MovedAsIntegers(l, s) == {c \in Placed(l) : l.at[c] # num[c]}

\* What has to be pushed.  A compact or a manual pass compares the number it
\* reads as text with an integer, so everything it places has "moved".
Moved(l, s) == {c \in Placed(l) : Sticky(s) => l.at[c] # num[c]}

\* The first UPDATE takes the write lock; the layout, the daily gate and the
\* armed flag are committed together.
Write ==
    /\ step = "write"
    /\ LET l == LayoutBy(plan.set, plan.order, force)
       IN  /\ Apply(l, plan.set, plan.order, force)
           /\ drift' = Moved(l, plan.set)
    /\ IF Sticky(plan.set) /\ force
       THEN armed' = FALSE /\ due' = FALSE
       ELSE UNCHANGED <<armed, due>>
    /\ step' = "push"
    /\ UNCHANGED <<set, order, changes, live, disp, ext, seen, dirty, force,
                   plan, unpushed>>

\* Each moved channel is pushed by a call of its own; a failure is logged.
Push ==
    /\ step = "push"
    /\ \E failed \in SUBSET drift :
         /\ changes' = changes + (IF failed = {} THEN 0 ELSE 1)
         /\ changes' <= MaxChanges
         /\ disp' = [c \in Channels |-> IF c \in drift \ failed THEN num[c]
                                                                ELSE disp[c]]
         /\ unpushed' = (unpushed \ drift) \cup failed
    /\ drift' = {}
    /\ step' = "idle"
    /\ UNCHANGED <<set, order, armed, due, live, num, locked, ext, seen, dirty,
                   force, plan, clean, basis>>

-----------------------------------------------------------------------------
\* What happens while the settings stay.
SettledNext ==
    \/ NewDay \/ ExternalChange
    \/ BeginRun \/ PrePass \/ PostPass \/ EndGroups
    \/ Decide \/ Read \/ Write \/ Push
    \/ \E c \in Channels : Create(c) \/ Expire(c) \/ SyncNumber(c)

Next ==
    \/ ChangeNumbering \/ ChangeRange \/ ChangeOrder \/ RegridNow
    \/ SettledNext

Spec == Init /\ [][Next]_vars

-----------------------------------------------------------------------------
(* What must hold                                                           *)

AllChoices == [set : Settings, order : Orders]

TypeOK ==
    /\ Choice \in AllChoices /\ plan \in AllChoices /\ basis \in AllChoices
    /\ {armed, due, dirty, force, clean} \subseteq BOOLEAN
    /\ num \in [Channels -> Nat] /\ disp \in [Channels -> Nat]
    /\ locked \in [Channels -> BOOLEAN]
    /\ live \cup drift \cup unpushed \subseteq Channels
    /\ ext \in Externals /\ seen \in SUBSET Nat
    /\ step \in Steps
    /\ changes \in 0..MaxChanges
    /\ \A c \in Channels : (c \in live) <=> (num[c] # NoNumber)

Unique == /\ \A c, d \in live : num[c] = num[d] => c = d
          /\ \A c \in live : num[c] \notin seen

\* After a generation no two channels hold one number and none holds a number
\* that the generation took for foreign when it began, whatever was created and
\* removed since, as long as no pass ran out of numbers (clean).
NumbersAreUnique == (step = "idle" /\ clean) => Unique

\* docs/guide/channels/numbering.md, Number Stability: a channel that was
\* placed keeps its number until a re-layout, unless the range moved away from
\* it.
StickyNumbersStay ==
    [][\A c \in live \cap live' :
          (locked[c] /\ num'[c] # num[c]) =>
              \/ step = "write" /\ force
              \/ ~Sticky(IF step = "write" THEN plan.set ELSE set)
              \/ num[c] \notin plan.set.first..plan.set.last]_vars

\* Consecutive channels of the order that the last pass used.
Neighbours(P(_, _)) ==
    LET laid == Sorted(plan.order)
    IN  \A i \in 1..(Len(laid) - 1) : P(laid[i], laid[i + 1])

\* A compact pass and a re-layout put everybody in priority order; a re-layout
\* also keeps the feeds of one event on adjacent numbers and leaves at least
\* the gap between two events.
LaidOutInOrder ==
    (step = "push" /\ clean /\ ~plan.set.manual /\ Full(plan.set, force)) =>
        /\ Neighbours(LAMBDA c, d : num[c] < num[d])
        /\ Sticky(plan.set) =>
             Neighbours(LAMBDA c, d :
                 IF EventOf[c] = EventOf[d] THEN num[d] = num[c] + 1
                 ELSE num[d] >= num[c] + Step(plan.set))

\* _reassign_reset: "Matches the sticky allocator so the reset doesn't shift
\* events that sticky already placed."  Placing everybody from nothing, the two
\* algorithms agree, unless the range is too small for the re-layout.
ResetMatchesSticky ==
    (step = "write" /\ Sticky(plan.set)) =>
        LET unlocked == [c \in Channels |-> FALSE]
            reset  == LayoutBy(plan.set, plan.order, TRUE)
            sticky == Layout(plan.set, seen, Sorted(plan.order), num, unlocked,
                             FALSE)
        IN  reset.stop \/ sticky = reset

\* numbering.md, Re-grid now: a change of the gap size, the stability mode, the
\* range or the priorities "queues the same re-grid automatically, so the
\* change takes effect on the next run": when some channel is locked and the
\* next generation will not lay everybody out, the last full layout was made
\* with the settings of now.
SettingsTakeEffect ==
    (step = "idle" /\ Sticky(set) /\ ~armed /\ ~due
        /\ \E c \in live : locked[c]) => basis = Choice

\* What Dispatcharr shows after a generation is what the database says, except
\* for channels whose last push failed: numbers that a pass in the middle of
\* the generation wrote without a push are pushed at the end.  (A switch to a
\* sticky mode in the middle of a generation is excused: the last pass then
\* pushes only what it moves itself.)
DispatcharrShowsNumbers ==
    step = "idle" => \A c \in live \ unpushed : disp[c] = num[c]

\* numbering.md: "Teamarr automatically skips numbers already used by
\* non-Teamarr channels": no channel that a generation has numbered shares its
\* number with a channel that was foreign when the generation began.
NoForeignCollision ==
    (step = "push" /\ clean) => \A c \in live : num[c] \notin ext
=============================================================================
