# Teamarr verification project

Teamarr turns sports schedules into live-TV channels.  It matches IPTV streams to
events, creates one channel per event in Dispatcharr (an external channel manager),
numbers the channels, writes an XMLTV guide and removes the channels when the events
are over.  This directory holds TLA+ models of those parts of Teamarr whose
correctness depends on the order in which things happen, the TLC configurations that
check them on small instances, and TLAPS proofs of what matters most for instances
of every size.  Paths below are relative to `src/teamarr/`.

| Module | Role |
|---|---|
| `GenerationControl` | who may run a generation, and what is said about it |
| `RunLedger` | what the rows of runs promise: the abstract specification of the above |
| `GenerationControlProofs` | its types, mutual exclusion, the database guard, the outcomes, who ends in\_progress, the refinement |
| `ChannelNumbers` | the layout algorithms, as pure operators |
| `ChannelNumbering` | numbers across generations and settings changes |
| `ChannelNumberingProofs` | what each layout writes; unique and sticky numbers, order, settings that take effect; and all that `Directories` composes |
| `ChannelLifecycle` | channels in Dispatcharr against the rows of the database |
| `ChannelLifecycleProofs` | one row per event, no lost channel, no tracked orphan; numbers stay apart when keywords swap them; streams that linger, order after a pass; the types of all that `ChannelParts` composes |
| `ChannelStreams` | the streams of a channel: rows, windows, order, pin, push |
| `ProfileSync` | the channel profiles: settings, stored list, Dispatcharr |
| `KeywordEnforcement` | the keyword enforcer and the main-first swaps |
| `SourceGroups` | event groups: requests, guides that outlive a run, missing flags |
| `StreamClassifier`, `EventMatching`, `StreamMatching` | what a stream is, which events it may be, how a generation decides |
| `MatchCache` | matches that are kept from run to run, and corrections |
| `TeamGuide`, `EventGuide` | the programmes and fillers of a channel |
| `TemplateVariables`, `TemplateRendering` | what a variable says of a game, how rows and texts compete |
| `ServiceCache` | the cache of provider answers |
| `ServiceCacheProofs` | one call per key, fresh answers |
| `LeagueDirectory` | the team and league cache, custom leagues, the subscription |
| `LeagueDirectoryProofs` | chosen leagues stay, the mapping is complete, a refresh shown is under way |
| `DispatcharrSession` | connection, tokens and repeated requests |
| `DispatcharrSessionProofs` | what makes a call fail |
| `Scheduler` | the cron threads and the requests that restart them |
| `Migrations` | the upgrade of a database, with crashes |
| `Backups` | backup files: rotation, protection, restore |
| `BackupsProofs` | the protected stay, enough of the others, restores have data |
| `RunHistory` | the rows of past runs and the lifetime totals folded from them |
| `Services`, `ChannelParts`, `Directories` | sums of components that share no state (section 3) |
| `ServicesProofs` | run history, scheduler, match cache, groups and migrations, each and together |
| `MC*` | values of the constants, symmetry and thin instances for TLC |

## 1. Inventory

| Component | State it keeps | Operations | What is hard |
|---|---|---|---|
| Generation control (`consumers/generation.py`, `generation_status.py`, `scheduler.py`, `api/routes/epg.py`) | a lock, a flag and a status object per process; a row of `processing_runs` per run | start by cron, by a blocking and by a streaming request; cancel; finish; clean up at startup | three entry points and several processes; exceptions at any point; cancellation between phases; crashes |
| Channel numbering (`database/channel_numbers.py`, `sort_priorities.py`, settings) | number and lock of each channel, settings, armed flag, daily gate, the numbers shown by Dispatcharr | allocate, compact, sticky pass, full re-layout, manual layout, arm, push | the algorithms must agree with each other; settings change during a pass; a push may fail; foreign channels |
| Channel lifecycle (`consumers/lifecycle/`, `dispatcharr/managers/channels.py`, `database/channels/crud.py`) | rows of `managed_channels`, channels in Dispatcharr, a class-level cache | verify, create, delete, collect orphans, reset, reconcile | two stores without a common transaction; lost answers; rollbacks; crashes; API threads; a cache that nothing clears |
| Streams of a channel (`consumers/generation.py` 1017-1150, `database/channels/streams.py`, `creator.py`) | membership, windows, priority, pin | recompute, push, purge, repair | time windows; a failed push or a rollback; a live event must not lose its stream |
| Profiles of a channel (`consumers/lifecycle/syncer.py`, `service.py`) | stored lists, queued bulk calls | detect drift, queue, push | saved before it is pushed; a sentinel for "all" |
| Enforcement (`consumers/enforcement/`) | streams and numbers of sibling channels | move streams, swap numbers | two calls and two rows per swap; the order of the enforcers |
| Event groups (`database/groups.py`, `api/routes/groups.py`, `event_group_processor/`) | rows of groups, their rendered guides, missing flags | create, patch, bulk patch, rebind, delete, render, merge, flag | check and write apart; guides of an earlier run; playlists that come and go |
| Stream matching (`consumers/matching/`) | the fetched events, shared between sources | classify, fetch, match by name and by guide, reconcile | fallbacks behind fallbacks; sources share what others fetched; providers fail |
| Stream match cache (`consumers/stream_match_cache.py`) | entries with a generation and an owner | get, set, touch, purge, correct | two runs at once; corrections must survive |
| Guide output (`consumers/filler/`, `team_epg.py`, `event_epg.py`, `event_filler.py`, `utilities/xmltv.py`) | the guide being built, the merged file | programmes, fillers, merge | midnights, time blocks, channels shared by groups |
| Templates (`templates/`) | none of their own: the game as last fetched | build the context, choose rows, resolve tokens, validate | two sides of a game; stale games; rows that say nothing |
| Service caches (`utilities/cache.py`, `services/sports_data.py`, `database/provider_cache.py`) | TTL map, per-key locks, dirty set | get, refresh, flush, clear, load | threads, timer, eviction, restarts |
| Team and league cache (`consumers/cache/`, `services/league_mappings.py`, `custom_leagues.py`, `database/subscription.py`) | directory rows, mapping in memory, subscription | full and scoped refresh, reload, custom leagues, save | nothing excludes two refreshes; the mapping is cleared and filled in place |
| Dispatcharr client (`dispatcharr/auth.py`, `client.py`, `factory.py`) | one connection, tokens per account | request, log in, refresh, clear, reconnect | threads share tokens and a client that may be closed |
| Scheduler threads (`consumers/scheduler.py`) | threads, stop events, a global | start, stop, restart | a join that times out, requests in parallel |
| Migrations (`database/connection.py`, `migrations/`, `checkpoint_v43.py`) | the database, what is taken out for a rebuild | pre-migrations, script, versioned migrations, restores | what a crash leaves; sqlite's implicit transactions |
| Backups (`services/backup_service.py`, `api/routes/backup.py`) | files, markers | make, rotate, delete, protect, restore | nothing keeps a request and the cron task apart |
| Run history (`database/stats.py`) | `processing_runs`, `lifetime_stats` | create, save, fold and delete, total | read outside the transaction that uses what was read |
| Deletion times, reconciliation with fixes, providers, media servers, HTTP layer, frontend | mostly none | - | see section 6 |

How they interact: cron, the endpoints and the cancel request share
`GenerationStatus`; one generation at a time walks through the phases.  Per event
group it fetches events (through the service cache and the directory), matches the
streams (through the match cache), creates channels and attaches streams (the
lifecycle), renders a guide and numbers the channels; after the groups come the
enforcers, the ordering pass, the final numbers, the merge of the guides, the orphan
cleanup, the reconciler and the cleanup of old runs.  API threads change settings,
groups, corrections and leagues, delete and reset channels and clear the history at
any time, on database connections of their own.  SQLite serialises writers;
Dispatcharr is reached by calls that may fail, time out or take effect without an
answer.

The hazards the properties are for, each with the line where it bites, are in
`PROJECT.json`.

## 2. The models

In every module one action is one critical section, transaction or external call,
and whatever may happen between two of those may happen between two actions.  Faults
are actions without fairness.  History variables say which of the known exceptions
has occurred, and each is named where it is used.

### GenerationControl and RunLedger

A *caller* is one activation of an entry point: `_task_generate_epg` (cron),
`generate_epg` (sync), `generate_epg_stream` (stream).  Every process has its own
`lock`, `running` and `status`; all share `rows` and `fresh` (rows younger than the
five minutes the guard looks back).  The work of a phase is left out: a phase looks
for a cancellation (`Checkpoint`), reports (`ReportPhase`) and may raise
(`PhaseRaises`).  `Saved` is an UPDATE by id, which does nothing to a row that is
gone.  `Crash` and `Startup` are the death of a process and `lifespan`.  `left` in the
status is history: a cron task raised after it had marked its start.

`RunLedger` is what the table promises of one process: runs follow one another, the
outcome of a run is written by that run or by the next start, and nobody changes it
afterwards.  `KeepsTheLedger` states that `GenerationControl`, with one process and
no clearing, implements it.

What must hold besides: `MutualExclusion` in a process; `OneFreshRunningRow` over
all processes; `RunningRowIsOwned`; `SuccessIsRecorded` and
`CancelledRunNotCompleted`, which relate what a caller is told to the row;
`InProgressIsOwed`, that while the status says in\_progress some caller is still to
end it, although callers overwrite each other's status (one that the lock turns away,
one whose cancelled run ends late) and although connecting, opening, phases, saves and
statistics fail; and the liveness property `LockIsReleased`.

### ChannelNumbers and ChannelNumbering

`ChannelNumbers` has the four layouts of `reassign_all_channels` (compact, sticky,
reset, manual) as loops over the sorted channels (`Iterate`), and
`get_next_channel_number`. `ChannelNumbering` runs them: the snapshot of foreign
numbers, the pass before the groups, creations and expiries with a pass after each
group, the decision whether to re-layout, the reads, the write transaction and the
pushes; settings change at every step.  `SettledNext` is what happens while they
stay.  Compact and manual passes compare text with integers (`Moved`), which pushes
more than has moved; the model keeps that, because it is what makes the numbers
written in mid-run reach Dispatcharr.

What must hold: `NumbersAreUnique`; `StickyNumbersStay`; `LaidOutInOrder`;
`ResetMatchesSticky`, by which the daily re-layout moves nothing that sticky
placement would put elsewhere; `SettingsTakeEffect`; `DispatcharrShowsNumbers`.

### ChannelLifecycle

An id stands for a channel and for its row.  `disp` is what exists in Dispatcharr,
`live` the rows that are not deleted as the generation's connection sees them, `undo`
and `fresh` what its open transaction has marked and inserted; `Committed` is what
everybody else sees and what a rollback or a crash leaves.  `cache` is the
class-level cache of the channel manager.  A generation is Begin, deletions (call,
then mark), the matched events (`Verify`, then `Post` and `Insert` when there is no
row), `EndMatch`, the orphan cleanup, the sweep and the reconciler.  An API or cron
thread deletes a channel or resets all of them, also in the middle of a generation.
Each call succeeds, fails without effect or fails having taken effect; a POST may be
repeated; a listing may miss pages; the process may die between any two steps;
somebody else may delete a channel; what is wanted may change.  `lost` is a history
variable: the channels that such a failure, or a reset, has left without a row.

What must hold: `OneRowPerEvent` in the transaction and after a rollback;
`OnlyFailuresLeak`, that no order of steps, but only a failure, leaves a channel
without a row; `OrphansAreUntracked`; and, when faults end, `Consistent` for good.

### ChannelStreams, ProfileSync, KeywordEnforcement

Three sides of a channel that exists.  `ChannelStreams`: the rows of its streams,
the list that Dispatcharr plays from, and the handlers that carry one to the other
(dead streams, matching with a rollback of the group, drift repair, ordering pass
with time windows and the pin of a live event, reconciler).  An `ORDER BY` gives each
its place by counting what comes before it (`Sorted`), which provers can reason about.
`OnlyFailuresLinger`: a stream without a row plays on only if its removal failed or a
rollback took the row; `InOrderAfterPass`; `Arrived`: at last every stream that matches
is there.

`ProfileSync`: the stored list is saved before the queued bulk calls have succeeded,
and drift is repaired against it.  `Converged`, for the selections "all" and "none"
always, for others unless an enabled profile went out of the books (`drifted`).

`KeywordEnforcement`: every stream ends up only on the channel of its keyword, the
main channel has the lowest number and Dispatcharr shows the numbers (`Placed`);
`NumbersStayApart` unless two channels were to be swapped with the main one in one
pass (`crossed`).

### SourceGroups

All groups want one name, so that the uniqueness by account bites.  Requests create
(look, then write), patch, bulk-patch, rebind, enable, disable and delete groups
beside a run that loads the groups, renders each one's guide, merges the guides and
flags groups whose M3U group is gone; a guide stays in the row until something clears
it.  `SourcesMatch` (no sequence of patches leaves a source without a matching type),
`GuideIsFresh` (the merged file has nothing of an earlier run) and `FlagsSettle`.

### StreamClassifier, EventMatching, StreamMatching, MatchCache

A text is the record of what normalisation and the patterns find in it.
`StreamClassifier` is the cascade of `classify_stream`; `EventMatching` the
sub-matchers, as sets of possible answers where the code walks a Python set;
`StreamMatching` the generation: fetch the events of all leagues of a source, from a
cache that earlier sources filled, match by name and by every programme of the guide,
and reconcile.  `MatchesAreTrue` is `SwitchesHold` (nothing is matched by a method
that is off), `BroadcastsAreLive` (what the guide finds is on when the programme is,
and no programme is nearer) and `NothingIsOverlooked` (a source sees every game of
its leagues whatever was matched before it).

`MatchCache`: a run looks a stream up, uses an entry of the day or searches and
stores, then purges what was not seen; a preview does the same beside it and advances
the same generation counter; the user pins corrections and takes them back.
`PinsAreNotReplaced`, `UnseenLeave`.

### TeamGuide and EventGuide

The guide as sets of intervals, built stage by stage as the code does.  `TeamGuide`:
programmes, then day by day the pregame, postgame and idle fillers cut at time
blocks.  `EventGuide`: parts of an event (UFC segments, sessions of a race weekend,
fights), the windows around them, the groups that share a channel, and the merge.
`GuidesAreWhole`: one programme at each moment (`EveryMomentOnce`, `ChannelMoments`)
except where `Doubled`, `Bare`, `Inverted` and `Apart` say, and a filler's "next" and
"last" are the games beside it (`TextsTellTheGamesAround`).

### TemplateVariables and TemplateRendering

`TemplateVariables` says what each variable tells of a game (what it is told about,
not its wording) and when a condition holds, for a team's point of view.
`TemplateRendering` is a channel whose game goes on while it is fetched and rendered:
the rows of a register compete by priority, their texts give way to one another when
they have nothing to say, tokens are resolved, rewritten and validated.
`TextsAreTold`: the best row that has something to say says it, the two sides of a
game tell the same story, and no token the validator accepts is left as written.

### ServiceCache

Entries of one event, the mark of its refresh and one day of a league, with their
times to live; threads look up and refresh under the lock of a key, which its last
user forgets.  The memory and the keys that a flush has to write or remove have a lock
each, so that set and delete are two steps (`Store`, `SetMark` or `Drop`, then
`Note`), a flush takes the keys, reads the entries and writes, and a clear empties
memory, keys and table one by one.  A restart loads what has not expired; evictions
remove.  What a provider tells is named by the time it told it.  `OneFreshAnswer`: one
call at a time for a key, on the lock newcomers find, and no answer older than its
kind may be: for a refresh the window, in which refreshes share an answer.  A refresh
that trusts a mark which a restart loaded (`carried`) counts as another lookup: the
table may hold that mark beside the entry that it dropped (section 4).

### LeagueDirectory

Full refreshes (the start's or the button's, followed by a reload of the mapping; the
daily one, without) fetch league by league and replace everything in one transaction;
requests create, edit and delete custom leagues and save the subscription; the
mapping is cleared and refilled with rows read before; the client caches rosters, and
failures.  A refresh may find no provider, and each of its writes may fail: then its
handler writes again and may fail itself (`Raise`).  A reload that has cleared the
mapping may not reach the database (`QueryFails`).  A start makes a refresh, or none
with SKIP\_CACHE\_REFRESH.  `WishesStay` (a chosen league stays chosen),
`MappingIsComplete` (between reloads every configured league is in the mapping, unless
a reload failed: `torn`) and `FlagHasThread` (no refresh is shown that nobody is at,
but for the three ways in which the code leaves the flag: `left`).

### DispatcharrSession

Threads get the factory's one connection, a token (waiting, refreshing or logging in
with the lock of the account in hand) and send; a 401 clears the tokens of everybody
and starts over once; other failures are repeated with the token they had; saving
the settings closes the connection under whoever uses it.  `RefusedTwice`,
`CutByChange` and `RightAccount` say that a call fails, or goes to another account,
only by what the server or the user has undone meanwhile.

### Scheduler, Migrations, Backups, RunHistory

`Scheduler`: the main loop and one loop per optional task, each a thread with a stop
event; requests start, stop and restart them through a global without a lock.
`OneLoopPerTask`, `SettingsDecide`.

`Migrations`: structural pre-migrations, the schema script, versioned migrations and
restores over a database that is what sqlite commits (a script commits first, schema
changes outside a transaction are at once durable, PRAGMA foreign\_keys does nothing
inside one), stopped anywhere and started again.  The restores swallow their errors
and drop what they were to bring back (`RestoreSettingsFails`, `RestoreTables`);
`lost` remembers it.  `RebuiltRowsSurvive`, `SettingsSurviveFrom58`, `UpgradeCompletes`.

`Backups`: every file operation is a step; the cron task backs up and rotates while
requests back up, delete, protect and restore; seconds are names, and the clock may
go back.  `ProtectedStay`, `EnoughStay` (younger by their names, which is what
`rotate_backups` sorts by), `RestoresHaveData`.

`RunHistory`: `row` is what is left of a run, `sums` how often `lifetime_stats`
counts it; a clear is two SELECTs outside any transaction and one transaction.
`late`: the runs saved between the SELECT of a clear and its commit, or when their row
was gone; `shared`: those that two clears at once have looked for.  `CountedOnce`: a
run is counted at least once unless it is late, and at most once unless it is shared.

## 3. The runs

Components that share no state are checked in one run each as a *sum*: `part` names
the component a behaviour is of, the others rest in an initial state, so that the
state spaces add up and are not multiplied.  `ChannelParts` (lifecycle, streams,
profiles, keywords), `Services` (history, scheduler, match cache, migrations, groups)
and `Directories` (numbers, directory, calls, backups, cache) are such sums, with the
constants of their parts as their own, so that theorems can be stated of them;
`MCChannels`, `MCServices` and `MCDirectories` give the constants values.  `MCGuides`
is a sum of instances whose constants it fixes; `MCTexts` holds the games, names and
templates of the texts in it.

| Run | Instance | What it shows |
|---|---|---|
| `GenerationOneProcess` | 1 process, 3 callers of the 3 kinds, 2 rows; opening, connecting, phases, saves and statistics may fail, the process may die | one workflow at a time; outcomes and rows agree; in\_progress has somebody to end it; the ledger is kept |
| `GenerationTwoProcesses` | 2 processes, 2 callers, 2 rows, crashes, clears, failing claims, connections and phases | the database guard; no orphaned running row; the lock comes back |
| `GenerationLockLeak` | 1 process, 3 callers, opening the database raises | **violated**: the lock is held for ever |
| `NumberingModes` (`MCDirectories`) | numbers: 4 channels, 2 of them feeds of one event, numbers 1-6 (gap, which can run out), 1-5 (strict) and 1-8 (compact, manual), foreign number 2. Directory: 3 leagues (shipped, custom, discovered), 2 numbers of a league at its provider, 1 manual, 1 daily and 1 request thread, 1 change, 1 fault. Calls: 2 threads, 2 accounts, 2 calls, 1 retry, 2 faults, 1 change. Backups: 1 to keep, 3 seconds, 3 requests, 1 fault. Cache: 2 threads (alike), 1 flusher, 2 lookups, 2 seconds, from the first lookup to the end of the last, 1 fault | uniqueness, stickiness, order, reset and sticky agree; leagues stay, the mapping is complete; calls survive; backups hold; answers are fresh |
| `NumbersAndGuides` (`MCGuides`) | numbers: 2 channels, 4 settings, 2 orders, 2 changes or failed pushes. Team guide: up to 3 of 9 starts, 2 times. Event guide: 11 events, 13 kinds of stream, 2 groups. Matching: 5 leagues, 8 events, 2304 pairs of sources. Texts: 6 games (a rout, a tie, a postponement, a fight, a race, a court), 2 teams, 30 templates | changes take effect, Dispatcharr shows the numbers; one programme a moment; true matches; texts are told |
| `NumberingForeign` | 2 channels, a foreign one | **violated**: a collision is not recognised |
| `NumberingArmLost` | 2 channels, 1 change | **violated**: an armed re-layout is cleared unlaid |
| `ChannelsConverge` (`MCChannels`) | lifecycle: 2 events, 4 ids, 2 faults. Streams: 3 streams, 1 with a window, 1 fault, 1 change. Profiles: 2 profiles, 2 faults, 2 changes. Keywords: 2 streams, 2 keywords, 3 numbers, 2 faults, 1 change | safety of the channels, and later generations put everything right |
| `LifecycleStaleCache` | 2 events, 3 ids, 2 faults, no reconciler | **violated**: nothing refreshes the cache |
| `ServicesSettle` (`MCServices`) | history: a full and a group run, 2 clearers. Scheduler: 1 sub-task, 3 requests. Match cache: 1 stream, 2 events, 2 runs, 2 changes. Migrations: from 7 versions, 2 stops or failing restores. Groups: 2 groups, 2 M3U groups of one name, 2 changes, 1 fault | totals, loops, pins, upgrades and sources |
| `MigrationManualMode` | a database of version 58, no failure needed | **violated**: the manual mode becomes auto |
| `MatchCorrectionLost` | 2 streams, 2 events, 2 runs | **violated**: a correction for another day is deleted |

Why the bounds are enough.

- *Generation.* A race needs two callers; the third kind of caller is there because
  the kinds order start, connect and acquire differently.  Rows are taken again when
  no caller remembers them, so that two ids stand for any number of runs: an old row
  and a new one.  One phase has all the steps of many (a checkpoint before it and
  after it).
- *Numbering.* Interaction between blocks needs a two-feed event between two others;
  four channels come and go any number of times, a range of 8 leaves gaps, one of 6
  leaves holes for four channels and a foreign one in strict mode, and one of 4 runs
  out in the middle of a pass.  `MaxChanges` counts only settings changes and failed
  pushes: two are a change that overtakes another.  A change between the two sticky
  modes takes the branch that a change of the gap takes (`ArmedByNumbering`), which
  is the one the run has.
- *Lifecycle.* Two events are one that is disturbed and one that is not, or two that
  contend for an id.  Three ids are a channel, its replacement and a channel of the
  other event, the fourth lets a POST be repeated while both have channels; ids are
  used again.  Two faults are a failure and a failure of its repair; the safety
  properties are proved for any number of them.
- *Streams, profiles, keywords.* Order needs three streams, of which one ranks first
  and two tie; a window that opens and closes in the live time has all cases of
  before, in and after.  Two profiles distinguish all, none and some.  Two keywords
  are needed for two swaps with one main channel, and three numbers for the three
  channels.
- *Services.* A clear overlaps a clear and a save.  A loop that outlives its stop, its
  successor and the main loops of two schedulers are at most five threads.  A run, a
  preview and the user are the writers of a cached match, and ages beyond the purge
  age are alike.  The start versions are one before each step that behaves
  differently; two stops are a crash and a crash of the recovery (failing restores count
  as stops).  Two M3U groups of
  one name are a group that comes back under another id, or a namesake.
- *Guides.* A day of eight units in blocks of two has a game in a block, over a block
  boundary and over midnight; three games are one with a neighbour on each side.  The
  user's zone is behind UTC by a block, so that the two dates differ in the evening.
  Two groups are needed to share a channel.
- *Texts.* The games are one of each kind that the variables tell apart, each in two
  or three stages, so that what was fetched may be older than what is; the row sets
  have ties of priority, a best row without words and a row that says nothing.
- *Matching and cache.* Two teams that meet twice within hours, a name that is a team
  in two sports, a race weekend, a card, a court and an all-star game are the cases
  the cascade tells apart; the second source is there to take, or miss, what the
  first has fetched.  Two threads and a flusher race for one key; times to live of
  one and two ticks distinguish short from long.  Time and flushes before the first
  lookup and after the last change no answer, and once no fault is left nothing reads
  the table again, so that no flush begins.
- *Directory, calls, backups.* A refresh, another and a request are all pairs that
  overlap; two numbers tell a row that was edited from one that was not.  With one
  fault the handler of a failed refresh does not fail itself; the theorem covers that.
  Two calls of one account race for its tokens, the second account is what the settings
  change to.  One backup to keep and three files are a rotation with something left
  over.

`CHECK_DEADLOCK FALSE` is used in `NumberingModes`, `NumbersAndGuides`,
`ServicesSettle` and `MigrationManualMode`, whose sums have components with an end: a
guide is finished, a matching is over, a database is upgraded, and the numbers of
requests, lookups and faults are bounded.  That none of those
stops for another reason is shown only where a liveness property says so.  In the
other runs something can always happen, and TLC checks it.

Every property of a passing run has at least one mutant in `PROJECT.json`, a
plausible bug in a mapped definition under which TLC finds the property violated.

Fairness, and why the code justifies it: it is weak fairness of the next step of a
thread that is at work: a caller (`Advance`), the next generation (the cron loop
starts them for ever), an API thread in a handler, a scheduler loop that has
something to run and a request in hand, the upgrade (a container that stops is
started again) and a match run.  Each wait polls, each call has a timeout, no step
waits on a lock that a fair thread does not give back.  No fairness is assumed of
requests, changes, failures, crashes, restarts of a server or of anybody clearing
anything.

## 4. Disagreements between the code and what it says

With a run that shows them:

1. `GenerationLockLeak`: `with db_factory()` (generation.py 190) is outside every
   `try`; an exception there leaves lock and flag taken until the process restarts,
   against "Always release the lock".
2. `NumberingForeign`: `compute_external_occupied` compares numbers, not channels
   (lifecycle/\_\_init\_\_.py 125): a foreign channel on the number of a managed one
   disappears, so the collision the guide promises to resolve is never seen.
3. `NumberingArmLost`: `_mark_channel_reset` clears the flag unconditionally
   (channel\_numbers.py 222), also for a change made after the pass read its
   settings.
4. `LifecycleStaleCache`: `LifecycleService.clear_caches` "should be called at the
   start of EPG generation" and is called nowhere; only the reconciler's clears it.
5. `MigrationManualMode`: v59 sets the global mode, the restore of v65 overwrites it
   with a backup that has no such column (versioned.py 596, 957).
6. `MatchCorrectionLost`: "User corrections are never auto-purged" (epg.py 736), but
   an entry whose event cannot be rebuilt is deleted whoever made it
   (team\_matcher.py 786).

Found while modelling, without a run of their own.  Where a module states the
property that the code breaks, TLC has shown it and the name is given; it is not in
a configuration.

- *Streams and channels.*  `LiveTopStays` (ChannelStreams): the pin takes the order of
  the database for the one shown (generation.py 1025-1031, 1082).  `DriftIsRepaired`
  (ProfileSync): profiles that were stored before the bulk call failed are never
  pushed again (syncer.py 417-432, against 316-319).  `OneRowPerStream`
  (KeywordEnforcement): a move may add a second row (keywords.py 187-216).  Two swaps
  with one main channel in one pass leave two channels with a number
  (ordering.py 86-137).  The fix endpoint of the reconciler runs beside a generation
  (reconciliation.py 542).
- *Numbers.*  The per-league counters of manual mode run into each other
  (channel\_numbers.py 1034); in compact mode with too small a range a number that a
  pass in mid-run has written is not pushed (processor.py 936, generation.py 985);
  neither a change of the range in manual mode nor the way back to auto arms a
  re-layout (update.py 160-184, 305-344); numbers of channels of a disabled group are
  in neither set (305).
- *Scheduler.*  When connecting to Dispatcharr raises in the cron task, in\_progress
  stays true until the next run ends (scheduler.py 568).  `StatusIsTrue`: two settings
  requests at once leave loops that the status does not show
  (docs/guide/settings/general.md:36).
- *Migrations.*  `SettingsSurvive` from before 58 with a crash (versioned.py 450);
  `StreamsSurvive` (versioned.py 745, against checkpoint\_v43.py 997);
  `ColumnsComplete` (connection.py 114); `WordsSurvive` (pre.py 79).  A restore that
  raises is logged and the only copy is dropped (versioned.py 960, 995, 1030): the
  settings, the keywords or the corrected matches are lost without a failing start.
- *Groups.*  Deleting a group is documented to cascade, the schema sets NULL
  (database/groups.py 1097, schema.sql 781).  Two creations without account at once
  both pass; POST /disable and the bulk update leave the old guide; a group with
  several live M3U groups of its name counts as seen but fetches nothing; a group
  deleted in mid-run makes `create_run` raise outside any handler (processor.py 594).
- *Matching.*  A reverse alias lookup and event cards forget the programme's time
  (team\_matcher.py 1925, matcher.py 1256), so an encore may bind to another game,
  against matcher.py 911; a failed call caches [] and counts as fetched; the
  description fallback answers with a team's event even where team streams are off.
  `set_failed` is never called (stream\_match\_cache.py 287), and a correction to
  nothing always fails (schema.sql 1272).
- *Guide.*  In mode "postgame" the filler runs over a game that lasts beyond midnight
  (generator.py 388-406, against generator.py 10); fillers use the sport's duration,
  programmes the template's; between two games of a day nothing is shown; groups
  rendered at different times leave overlapping fillers (xmltv.py 184); assumed early
  prelims may end before they begin (ufc\_segments.py 501); "past" compares a UTC date
  with a local one.
- *Texts.*  A perfect record has the percentage ".1000" (records.py 15-22); a fresh
  score of 0 replaces nothing (sports\_data.py 590-611); `result` and `final_score` do
  not ask whether the game is over, against outcome.py 3; filler rows are chosen by the
  refreshed game and tell of the one before (generator.py 500-515, 583-590); the
  validator warns of old names that the resolver knows, and of no unknown filter; the
  condition is\_national\_broadcast knows 8 networks, the variable 15.
- *Caches.*  A comment claims that concurrent refreshes are one request
  (sports\_data.py 504), two are possible; the preview budget loses updates (650-663);
  a flush in progress writes back what a clear removed.  `RefreshesOutliveRestarts`
  (ServiceCache): a restart may load the mark of a refresh beside the entry that the
  refresh dropped, and refreshes within the window then show it: when set and delete of
  one key met (cache.py 336-352, memory and key under two locks), when a flush took the
  keys before the drop and read the entries after it, when flushes overlapped, and
  after a clear or an eviction before the flush.  A failed call for a past day is kept
  for 30 days (319-325).
- *Directory.*  Editing or deleting a custom league does not reload the mapping, so a
  daily refresh brings its rows back (custom\_leagues.py 441-475, against
  docs/guide/subscriptions.md:96); the daily task ignores its maximum age
  (refresh.py 205, against scheduler.py 502); failures of a refresh are shown as
  success; a failing discovery drops discovered leagues at the next save; two reloads
  at once list a league twice, and readers see empty dictionaries, against
  league\_mappings.py 28; a full refresh overwrites a scoped one that began later.  A
  reload that cannot query the database leaves the mapping empty or partial until the
  next one (league\_mappings.py 199-212).  refresh\_in\_progress stays TRUE when no
  provider is registered (refresh.py 116-124), when the handler of a failing refresh
  fails itself (192-196), and after a stop in mid-refresh when the next start has
  SKIP\_CACHE\_REFRESH (app.py 165-171), until another refresh ends.
- *Calls.*  Closing a client under a running request raises an error that `request`
  does not catch; the key of a session has no password, so a change of it keeps the
  tokens; a 401 starts the count of attempts anew.
- *Backups.*  Restoring a file that was removed meanwhile makes it anew, empty, passes
  the integrity check and empties the database (backup\_service.py 453, 479); a
  failing backup removes whatever has its name; a file that a failure or crash has
  left, or the backup of an emptied database, counts in the rotation; the older
  upload copies over a database in WAL mode.

Properties that hold except in one of these cases name the exception in their
formula (`raced`, `late`, `shared`, `torn`, `left`, `lost`, `carried`, `drifted`,
`crossed`, `Doubled`, `Bare`, `Inverted`, `Apart`, `Forgetful`, `missed`, `holed`,
`edited`, `hollow`, `meddled`, `moved`, `hit`), so that they show that there is no
other.

## 5. The proofs

All are by an inductive invariant, with one lemma per action or per kind of step,
and hold for every value of the constants that the named ASSUMEs admit.

`GenerationControlProofs`, from `ProcOfAssumption`, `KindAssumption`,
`PhaseAssumption`, `FaultAssumption` and `SentinelAssumption`:

- `TypeCorrect`.  `ReportInv` is needed for the index into `PhasePercent`: a caller
  that reports has begun a phase.
- `MutualExclusionHolds`.  `LockInv`: a caller at a guarded program counter holds the
  lock of its process.  It survives the leak of section 4, which only keeps the lock
  longer.
- `OneFreshRunningRowHolds`.  `AtMostOneFresh` states it without `Cardinality`; only
  `Claim` adds a recent running row, behind its guard.
- `SuccessIsRecordedHolds` and `CancelledRunNotCompletedHolds`, of one process.
  `RunInv`: a row is remembered by one caller, so no other can write to it;
  `RowInv`: at each program counter, what that row cannot say.
- `InProgressIsOwedHolds`, for any callers, processes and faults.  It is inductive with
  the types and `RunInv`: a caller whose call has returned still owes the end of the
  status, unless its thread leaves that to the request that cancelled it.
- `KeepsTheLedgerHolds`, of one process: the refinement of `RunLedger`.  `StageInv`:
  while a workflow runs its row is running, or was cleared; `DownInv`: a process that
  is down runs no caller; so that every step is a step of the ledger or leaves it.
- `RunningRowIsOwnedHolds`, under the further assumption that the closing save does
  not fail.

`ChannelLifecycleProofs`.  `IInv` (at the end of `ChannelLifecycle`) is the type
invariant, the three safety properties and five facts they rest on: the transaction
is open only while matched events are processed (`CommittedOutside`), so that the
orphan cleanup's rows are the committed ones; a channel is created only for an event
without a row (`PostedHasNoRow`); a row is marked only when its channel is gone or
lost (`MarkedAfterDelete`); orphans are held only while they are collected
(`OrphansOnlyCollected`); a pending row of a failed insert names a lost channel
(`FreshIsLost`), so that a rollback loses nothing new.  Theorems: `TypeCorrect`,
`OneRowPerEventHolds`, `OnlyFailuresLeakHolds`, `OrphansAreUntrackedHolds`, for all
events, ids and faults.

The same module proves `NumbersStayApart` of `KeywordEnforcement`, for any streams,
keywords and numbers, in `ChannelParts`: two channels never get one number, although
a swap is two calls and two writes of which any may fail and a rollback may take back
both, unless two channels are swapped with the main one in one pass (`crossed`).
`KwInv`: the numbers differ in the open transaction and in what a rollback brings
back, and before the only swap of a pass they are those that the pass has read.

And it proves, from `StreamsAssumption` (ids, priorities and times are numbers),
`OnlyFailuresLingerHolds` and `InOrderAfterPassHolds` of `ChannelStreams`, for any
streams, windows, rankings and faults.  `StInv`: rows and lists name no stream twice
(`StTypes`); a channel that is gone has no row, also after a rollback (`StGone`); what
plays has a row or was left by a failure (`StPlays`); until the first fault, streams
without a window are all in the list, in the order of their rows but for one that may
be the first (`StLine`).  A pass whose push fails is a fault, so what is to be shown is
that a pass may rightly push nothing: it does so only if no priority changed and no row
has a window, and then by `StLine` the list is what a push would send.  `StSettled`
says so: by counting, both name as many streams (`StCounted`), and the one that maps
places of one to those of the other, increasing, goes nowhere (`StFixed`).  The lemmas
before say what a sort, a filter and a move leave of a list (`StSorted`, `StAt`,
`StToFront`).  With `StreamTypes`, `ProfileTypes` and `KeywordTypes` the module proves
`TypesHold`, the types of the whole sum.

The first part of `ChannelNumberingProofs` is about the layouts themselves, from
`ChannelsAssumption` and `LeaguesAssumption`.  What a loop over a sequence does cannot
be proved by the library's induction theorems, whose parameter is an operator; so each
loop is a recursive function of the position (`Iterate`), and an invariant of it is
proved by the least element of the set of positions where it fails (`LeastElement`,
`UpTo`). The invariants are, of the accumulators: `Sound` and `HasPlaced` (numbers
placed so far are apart from one another, from the anchors and from the foreign ones,
and who has been passed has one), `ResetInv` (all below the frontier, in order and
spaced), `CompactInv`, and `Matching` (the sticky pass and the re-layout have done the
same so far).

- `LayoutIs`: whatever the settings, a pass writes numbers that are free, and, unless
  the mode is manual or the range runs out, everybody gets one of his own.
- `ResetMatches`: "Matches the sticky allocator" (channel\_numbers.py 908-911), for
  blocks of any length, any gap and any foreign numbers.

The second part is about the generations, from these, `OrdersAssumption` (one query
sorts all rows, each of which comes once), `SettingsAssumption` (the page takes no
range or league start below 1, ChannelNumbering.tsx 188-206, and the code no gap below
1, channel\_numbers.py 147), `ExternalsAssumption` (finitely many foreign numbers) and
`BoundAssumption`.  `Inv` is the types and `Apartness`: as long as no pass has run out
(`clean`), live channels have different numbers, and none that is foreign to the
generation under way.  It is needed in the middle of a generation, where
`NumbersAreUnique` says nothing.

- `TypeCorrect`, by which exactly the live channels have a number.
- `NumbersAreUniqueHolds`, `StickyNumbersStayHolds`, `ResetMatchesStickyHolds`.
- `LaidOutInOrderHolds`, with `InOrder`: what `Write` has laid out is in order until
  it is pushed.
- `SettingsTakeEffectHolds`, with `UpToDate` (the last full layout is of the settings
  of now, unless one is armed), assuming that nobody changes settings in the window of
  `NumberingArmLost` and that no settings are manual.  Both are needed: neither
  a range that changes in manual mode nor the way back to auto arms one (update.py
  160-184, 305-344).
- `DispatcharrShowsStickyNumbers`, with `Shown`, assuming that all settings are
  sticky.  In compact mode it is false when the range runs out: a channel that a pass
  in mid-run has moved and the last one no longer reaches keeps the number that nobody
  pushes.  With a range that is long enough it is checked only.

`DispatcharrSessionProofs`: `TypeCorrect`, by which a connection that nobody uses is
always there to be made (`FreeConnection`, the pigeonhole principle), and
`CallsSurviveHolds`, for finitely many threads and any number of retries, faults and
changes.  `MovedInv`: every call under way knows of settings that were saved and not
yet taken over; `ConnectionInv`: a call without that mark goes to the account of the
settings and keeps its client; `HitInv`: a call that has cleared the tokens, and for
which none was dropped since, has no bad token and will find none, whoever logs in,
waits or clears beside it.

`ServiceCacheProofs`, for finitely many threads, any number of flushes and faults and
any times to live (`Parameters`):

- `TypeCorrect` and `OneCallPerKeyHolds`.  `Queue`: whoever is within `lock_key` has
  the lock that newcomers find, and whoever is within that lock holds it.
- `CachedAnswersAreFreshHolds`: `Ages` says of every place where an entry is kept
  (memory, table, a flush in progress, a thread) that it expires when its kind says.
- `AnswersAreFreshHolds`: refreshes too, unless they trust a mark of a former process.
  `MarkInv`: a mark that this process has set is never younger than the state of the
  event; `Refreshing`: what a thread may rely on between looking at the mark and at
  the entry.  What the steps of set and delete do to the keys of the next flush cannot
  disturb either, because both are about the memory.

`BackupsProofs`, for any number of backups to keep, seconds, requests and failures
(`Parameters`: there is a first second and a first version):

- `ProtectedStayHolds`.  `MarksInv`: a request at its removal has a file without a
  marker, since requests come one at a time; the rotation may have one that was marked
  since it looked, and then it is `late`.  `Removers`: nobody else removes a file but
  a backup that fails.
- `EnoughStayHolds`.  `KeptInv`: for every file the rotation is still to remove there
  are max\_count unprotected ones, not older and not to be removed.  No step but a
  deletion, a protection or a failing backup takes one away, and the clock may go
  back.
- `RestoresHaveDataHolds`.  `HollowInv`: a file without tables is being filled or is
  `hollow`.  It is inductive only if the backup of a database without tables counts as
  hollow too: two backups and three restores (of one that is being written, of a good
  one, of the copy of the database emptied by the first) empty the database again.

`LeagueDirectoryProofs`, from `Parameters` (there is a thread that refreshes by hand,
a thread is of one kind, discovered leagues are not configured ones):

- `DirectoryIsKeptHolds`.  `Complete`: a league with a row is in the mapping or a
  thread will put it there.  `Unedited`: of a league that was not edited no thread holds
  another number, and the mapping neither, unless it is about to be cleared.  `torn` is
  set by a failing query and cleared by the next that succeeds, whose thread then fills
  in every row.  `Chosen`:
  a chosen league is in the subscription or nothing knows it.  `Standing`: what a
  thread has still to do is part of what it has listed.
- For more leagues and threads than the run has, two things that had been claimed
  are false, and TLC agrees on larger instances: a league that is deleted and added
  anew may be mapped as it was before (so `edited` counts additions of a number that
  somebody still holds), and a league ticked without a row is lost with the next save
  (the second exception of `WishesStay`).

`ServicesProofs`, from `ServicesAssumption`, part by part:

- *History.* `IInv` adds to `CountedOnce` that what a clear has added up still has its
  totals in the row unless it is shared, and that the clear has left out none but late
  ones (`ReadsExact`), and that only shared runs are between SELECT and commit of two
  clears (`ClearsApart`).
- *Match cache.* `PinsAreNotReplacedHolds`, for any streams, events, days and runs.
  `MtInv`: a run that works on a stream has one, and a generation to work with; the
  rest is the guard of each writer.
- *Groups.* `SourcesMatchHolds` and `GuideIsFreshHolds`.  `GrInv`: what a request holds
  between its check and its write still matches, unless another wrote between the two
  (`raced`); while groups are processed, one that is done has no guide of an earlier
  run, unless it has no template (`GrFresh`).
- *Migrations.* `UpgradesKeepData`: rebuilt tables have their rows, and from version 58
  the settings stay, however often the upgrade is stopped, but for what a failing
  restore has dropped (`lost`).  `MgSafe`: what is on disk
  can be upgraded again; `MgPlace`: at each step, what the transaction and the memory of
  the upgrade hold of what is in no table, and that from version 58 nothing is
  committed between the recovery and the restore.
- *Scheduler.* `SchedulerTypes` for any number of requests at once;
  `OneLoopPerTaskHolds` with one settings request at a time (`ScAlone`).  Two are too
  many: both see that no main loop runs and start one (scheduler.py 656), section 4.
  `ScOwned`: a loop that goes on is the one its scheduler knows; `ScFlags`: a
  scheduler's `is_running` says what the loop it knows does; `ScPlace`: what a request
  may rely on at each step of a stop, a start and a restart, also when the stop gives
  up waiting for a loop that is in the middle of its task.

Theorems of one component are carried over to the sums in the same modules: a step of
a sum is a step of one part and leaves the others alone, so every part behaves by its
own specification or rests (`SumSpecs`, for `Services`; for `Directories` the theorems
of the other proof modules are instantiated, `LP`, `DP`, `BP` and `CP`).  So
`TypesOK`, `RebuildsKeepData`, `DirectoryIsKept`, `CallsSurvive`, `BackupsHold` and
`OneFreshAnswer` are theorems about the very formulas that the runs check.

Only model-checked:

- all liveness (the prover has no fairness and no ENABLED): of the properties that the
  runs of the sums check as one, the theorems are about the safety half;
- `DispatcharrShowsNumbers` in the modes that are not sticky (that refreshes are fresh
  over a restart is not claimed at all, section 4);
- the guides, the matching and the texts (`GuidesAreWhole`, `MatchesAreTrue`,
  `TextsAreTold` and the types of `MCGuides`): they are what recursive definitions
  compute of data, which is induction over data.

## 6. What is not modelled, and what the models leave open

- Generation: that the lock comes back is checked where opening the database does not
  raise (`GenerationLockLeak`).  That a cancelled run's status is overwritten by the
  caller is in the model (`Marks`); no property excludes it.  That in\_progress ends at
  last follows from `InProgressIsOwed` for callers that go on; it is not checked as a
  liveness property.
- Numbering: uniqueness is claimed only for layouts that did not run out of numbers
  (`clean`) and not for manual mode.  `NumbersAndGuides` excludes a change between the
  reads and the first write, which is the subject of `NumberingArmLost`.  Whether a
  group is enabled, the toggle `reset_enabled` and the parsing of the reset time are
  left out.
- Lifecycle and streams: consolidate mode and one event group per generation; the
  fixes of the reconcile endpoint, deletion times, names, logos and templates of
  channels, the cross-group enforcer and what stream ordering rules compare.
- Groups: filters, overrides, previews, statistics and the ordering of groups.
- Matching: text patterns and fuzzy scores are data; the stored matches are in
  `MatchCache` only.  Time zones of providers, majors and draws are left out.
- Guide: artwork, changes of the clock and the bookkeeping of teams.  Today's final
  games are never left out (team\_epg.py 318-320): the only caller, the team
  processor, sets include\_final\_events (team\_processor.py 509).
- Caches and directory: that the first load of the mapping at a start may fail, which
  ends the start's tasks; the preview budget; the step that adds other leagues of
  soccer teams (refresh.py 885-943), the searches and the Gracenote overrides.  The
  directory's liveness is not checked; its state invariants stand for it.
- Calls and backups: the managers' pages; the password of an account; the upload and
  download of a database file; files written before a restore, which nothing lists.
- Scheduler: what the tasks do, invalid cron expressions, single runs.
- Migrations: of the data migrations only those on which another step depends have
  contents; the others are counted.
- Templates: the wording of what is said (formats of times, lists, numbers), the
  sample data of the editor and the storing of templates.
- Providers, media servers and the frontend are data, strings and calls
  whose failure is logged only.  Handlers of the HTTP layer that touch modelled state
  are actions of its modules.

## 7. Plan

Every component with an order of events worth checking has its module, and of every
component but the guide, the matching and the texts a safety property is proved for
every size.  What is left to prove is `EveryMomentOnce` of `TeamGuide`, of one stage
at a time, where the stages are sets and not recursions.

And the models: the fixes of the reconcile endpoint in `ChannelLifecycle`, a channel
split over two event groups, and the cross-group enforcer.
