--------------------------- MODULE ChannelNumbers ---------------------------
(***************************************************************************)
(* Where a channel goes in the lineup (database/channel_numbers.py): the   *)
(* layout algorithms, as functions of the settings, the sorted channels    *)
(* and the numbers they hold.  No state here: ChannelNumbering runs them.  *)
(*                                                                         *)
(* A number is a positive integer; NoNumber says that there is none.  The  *)
(* settings are a record                                                   *)
(*    [manual, mode, gap, first, last]                                     *)
(* where first..last is the configured range: "no upper limit" is a last   *)
(* that the channels at hand cannot reach.  A layout is a record           *)
(*    [at, stop]                                                           *)
(* where at[c] is the number written for c (NoNumber: row left alone) and  *)
(* stop says that the range was exhausted before the last channel.         *)
(***************************************************************************)
EXTENDS Integers, Sequences, FiniteSets, SequencesExt

CONSTANTS
    Channels,       \* rows of managed_channels
    EventOf,        \* EventOf[c]: the event the channel shows
    LeagueOf,       \* LeagueOf[c]: the league of that event
    LeagueStart     \* LeagueStart[l]: configured start, or NoNumber

NoNumber == 0
Leagues  == {LeagueOf[c] : c \in Channels}
Modes    == {"compact", "gap", "strict"}

\* The settings page takes no number below 1, and a gap is at least 1.
Config == [manual : BOOLEAN, mode : Modes, gap : Nat \ {0}, first : Nat \ {0},
           last : Nat]

ASSUME ChannelsAssumption == IsFiniteSet(Channels)
ASSUME LeaguesAssumption  == LeagueStart \in [Leagues -> Nat]

Sticky(cfg) == ~cfg.manual /\ cfg.mode \in {"gap", "strict"}
Step(cfg)   == IF cfg.mode = "gap" THEN cfg.gap ELSE 1

Least(S)    == IF S = {} THEN NoNumber ELSE Min(S)
Greatest(S, default) == IF S = {} THEN default ELSE Max(S)

Run(start, k) == start..(start + k - 1)

\* A loop over a sequence: what it has done after each element.
Iterate(op(_, _), base, seq) ==
    LET after[i \in 0..Len(seq)] ==
          IF i = 0 THEN base ELSE op(after[i - 1], seq[i])
    IN  after[Len(seq)]

\* The lowest start, from lo on, of k free numbers below hi and in the range.
FirstFreeRun(cfg, used, lo, hi, k) ==
    Least({x \in Max({lo, cfg.first})..(cfg.last - k + 1) :
              x + k - 1 < hi /\ Run(x, k) \cap used = {}})

-----------------------------------------------------------------------------
(* Allocation when a channel is created                                     *)

\* get_next_channel_number: the first number that no channel holds, counted
\* from the range start or from the start of the league.
NextNumber(cfg, used, league) ==
    LET start == IF cfg.manual /\ LeagueStart[league] # NoNumber
                 THEN LeagueStart[league] ELSE cfg.first
    IN  IF start \notin used THEN start
                             ELSE Least((start..cfg.last) \ used)

-----------------------------------------------------------------------------
(* Events as blocks                                                         *)

\* _group_consecutive: consecutive channels of one event form a group.
AddToGroups(gs, c) ==
    IF gs # <<>> /\ EventOf[Last(Last(gs))] = EventOf[c]
    THEN [gs EXCEPT ![Len(gs)] = Append(Last(gs), c)]
    ELSE Append(gs, <<c>>)

Groups(sorted) == Iterate(AddToGroups, <<>>, sorted)

\* Writes consecutive numbers, from start on, for the channels of a group.
PlaceGroup(at, group, start) ==
    [c \in Channels |-> IF c \in ToSet(group)
                        THEN start + CHOOSE j \in 0..(Len(group) - 1) :
                                         group[j + 1] = c
                        ELSE at[c]]

Nowhere == [c \in Channels |-> NoNumber]

-----------------------------------------------------------------------------
(* _reassign_reset: the full re-layout of the sticky modes                  *)

\* Mutant: the gap is measured from the first slot of a block.
FrontierFromStart(cfg, start, k) == start + Step(cfg)

\* Where the search for the next block begins: a full gap past this one.
Frontier(cfg, start, k) == start + k - 1 + Step(cfg)

ResetGroup(cfg, acc, group) ==
    LET k == Len(group)
        start == FirstFreeRun(cfg, acc.used, acc.frontier, cfg.last + 1, k)
    IN  IF acc.stop \/ start = NoNumber THEN [acc EXCEPT !.stop = TRUE]
        ELSE [at |-> PlaceGroup(acc.at, group, start),
              used |-> acc.used \cup Run(start, k),
              frontier |-> Frontier(cfg, start, k),
              stop |-> FALSE]

ResetLayout(cfg, ext, sorted) ==
    LET end == Iterate(LAMBDA acc, group : ResetGroup(cfg, acc, group),
                       [at |-> Nowhere, used |-> ext, frontier |-> cfg.first,
                        stop |-> FALSE],
                       Groups(sorted))
    IN  [at |-> end.at, stop |-> end.stop]

-----------------------------------------------------------------------------
(* _reassign_sticky: locked channels stay, the others are placed            *)

\* A locked channel is an anchor while its number is usable.
Anchors(cfg, ext, sorted, num, locked) ==
    {c \in ToSet(sorted) : locked[c] /\ num[c] \in cfg.first..cfg.last
                                     /\ num[c] \notin ext}

\* For each group, the number at which the next anchored group begins.
Bounds(cfg, groups, anchors, num) ==
    [i \in 1..Len(groups) |->
        LET anchored == {j \in (i + 1)..Len(groups) :
                            ToSet(groups[j]) \cap anchors # {}}
        IN  IF anchored = {} THEN cfg.last + 1
            ELSE Min({num[c] : c \in ToSet(groups[Min(anchored)]) \cap anchors})]

\* Mutant: the very first block is spaced from the number before the range.
GapStartSpaced(cfg, n) == n + Step(cfg)

\* The full gap that follows a block that ends at n.
GapStart(cfg, n) == IF n < cfg.first THEN cfg.first ELSE n + Step(cfg)

\* k free numbers past everything placed so far; gap mode keeps to the grid.
AppendBlock(cfg, used, taken, k) ==
    LET base  == Greatest(taken, cfg.first - 1)
        start == IF cfg.mode = "gap" THEN GapStart(cfg, base)
                 ELSE Max({base + 1, cfg.first})
    IN  Least({x \in start..(cfg.last - k + 1) :
                  (x - start) % Step(cfg) = 0 /\ Run(x, k) \cap used = {}})

\* The first free run a full gap past lo, else the first that fits at all,
\* else (as in strict mode at once) one past the frontier.
BlockStart(cfg, acc, hi, k) ==
    LET spaced == FirstFreeRun(cfg, acc.used, GapStart(cfg, acc.lo), hi, k)
        tight  == FirstFreeRun(cfg, acc.used, acc.lo + 1, hi, k)
    IN  CASE cfg.mode = "gap" /\ spaced # NoNumber -> spaced
          [] cfg.mode = "gap" /\ spaced = NoNumber /\ tight # NoNumber -> tight
          [] OTHER -> AppendBlock(cfg, acc.used, acc.taken, k)

\* A feed of an event that is already placed extends its run if it can.
FeedStart(cfg, acc, hi) ==
    LET next == FirstFreeRun(cfg, acc.used, acc.lo + 1, hi, 1)
    IN  IF next # NoNumber THEN next
        ELSE AppendBlock(cfg, acc.used, acc.taken, 1)

\* Mutant: the numbers that a block takes are not marked as used.
ClaimUnmarked(acc, group, start) ==
    IF acc.stop \/ start = NoNumber THEN [acc EXCEPT !.stop = TRUE]
    ELSE [acc EXCEPT !.at = PlaceGroup(acc.at, group, start),
                     !.lo = start + Len(group) - 1]

\* The group gets its numbers; without a number the pass stops.
Claim(acc, group, start) ==
    IF acc.stop \/ start = NoNumber THEN [acc EXCEPT !.stop = TRUE]
    ELSE LET run == Run(start, Len(group))
         IN  [at    |-> PlaceGroup(acc.at, group, start),
              used  |-> acc.used \cup run,
              taken |-> acc.taken \cup run,
              lo    |-> Max(run),
              stop  |-> FALSE]

\* Claim for a late feed: the low-water mark never falls.
ClaimFeed(acc, c, start) ==
    LET next == Claim(acc, <<c>>, start)
    IN  [next EXCEPT !.lo = Max({next.lo, acc.lo})]

StickyFeed(cfg, anchors, hi, acc, c) ==
    IF c \in anchors THEN acc ELSE ClaimFeed(acc, c, FeedStart(cfg, acc, hi))

\* The late feeds of an event, one after the other.
StickyFeeds(cfg, anchors, hi, acc, group) ==
    Iterate(LAMBDA a, c : StickyFeed(cfg, anchors, hi, a, c), acc, group)

StickyGroup(cfg, anchors, num, acc, group, hi) ==
    LET old  == {num[c] : c \in ToSet(group) \cap anchors}
        past == [acc EXCEPT !.lo = Max({acc.lo} \cup old)]
    IN  CASE acc.stop -> acc
          [] ~acc.stop /\ old # {} -> StickyFeeds(cfg, anchors, hi, past, group)
          [] OTHER -> Claim(acc, group, BlockStart(cfg, acc, hi, Len(group)))

StickyLayout(cfg, ext, sorted, num, locked) ==
    LET groups  == Groups(sorted)
        anchors == Anchors(cfg, ext, sorted, num, locked)
        held    == {num[c] : c \in anchors}
        bounds  == Bounds(cfg, groups, anchors, num)
        end     == Iterate(LAMBDA acc, i :
                             StickyGroup(cfg, anchors, num, acc, groups[i],
                                         bounds[i]),
                           [at |-> Nowhere, used |-> ext \cup held,
                            taken |-> held, lo |-> cfg.first - 1,
                            stop |-> FALSE],
                           [i \in 1..Len(groups) |-> i])
    IN  [at |-> end.at, stop |-> end.stop]

-----------------------------------------------------------------------------
(* _reassign_auto and _reassign_manual: everybody, every run                *)

\* From n on, the first number that no external channel holds.
SkipExternal(ext, n) == CHOOSE x \in n..(n + Cardinality(ext)) :
                            x \notin ext /\ n..(x - 1) \subseteq ext

CompactPlace(cfg, ext, acc, c) ==
    IF acc.stop \/ acc.next > cfg.last THEN [acc EXCEPT !.stop = TRUE]
    ELSE [at   |-> [acc.at EXCEPT ![c] = acc.next],
          stop |-> FALSE,
          next |-> SkipExternal(ext, acc.next + 1)]

CompactLayout(cfg, ext, sorted) ==
    LET end == Iterate(LAMBDA acc, c : CompactPlace(cfg, ext, acc, c),
                       [at |-> Nowhere, stop |-> FALSE,
                        next |-> SkipExternal(ext, cfg.first)], sorted)
    IN  [at |-> end.at, stop |-> end.stop]

ManualPlace(cfg, ext, acc, c) ==
    LET n == SkipExternal(ext, acc.next[LeagueOf[c]])
    IN  IF n > cfg.last THEN [acc EXCEPT !.stop = TRUE]
        ELSE [at   |-> [acc.at EXCEPT ![c] = n],
              stop |-> acc.stop,
              next |-> [acc.next EXCEPT ![LeagueOf[c]] = n + 1]]

\* One counter per league.  An exhausted league does not stop the others.
ManualLayout(cfg, ext, sorted) ==
    LET start(l) == IF LeagueStart[l] # NoNumber THEN LeagueStart[l]
                                                 ELSE cfg.first
        end == Iterate(LAMBDA acc, c : ManualPlace(cfg, ext, acc, c),
                       [at |-> Nowhere, stop |-> FALSE,
                        next |-> [l \in Leagues |-> start(l)]], sorted)
    IN  [at |-> end.at, stop |-> end.stop]

-----------------------------------------------------------------------------
\* Mutant: a sticky pass lays everybody out, asked to or not.
LayoutUnasked(cfg, ext, sorted, num, locked, force) ==
    CASE cfg.manual                      -> ManualLayout(cfg, ext, sorted)
      [] ~cfg.manual /\ cfg.mode = "compact" -> CompactLayout(cfg, ext, sorted)
      [] OTHER                           -> ResetLayout(cfg, ext, sorted)

\* reassign_all_channels
Layout(cfg, ext, sorted, num, locked, force) ==
    CASE cfg.manual                      -> ManualLayout(cfg, ext, sorted)
      [] ~cfg.manual /\ cfg.mode = "compact" -> CompactLayout(cfg, ext, sorted)
      [] Sticky(cfg) /\ force            -> ResetLayout(cfg, ext, sorted)
      [] OTHER -> StickyLayout(cfg, ext, sorted, num, locked)
=============================================================================
