---------------------------- MODULE LeagueDirectory ----------------------------
(* The Team & League Directory: the rows team_cache and league_cache that a   *)
(* refresh takes from the providers, the custom leagues of the user, the      *)
(* mapping of the leagues that the process keeps in memory, and the           *)
(* subscription, which is checked against the directory when it is saved.     *)
(*                                                                            *)
(* Full refreshes run in threads of their own: the one of a start or of the   *)
(* button (Manual), which is followed by a reload of the mapping, and the     *)
(* daily one, which is not.  A full refresh lists the leagues, fetches them   *)
(* one by one and replaces everything in one transaction.  A request that     *)
(* creates a custom league commits, reloads the mapping and then refreshes    *)
(* that league alone.  None of them excludes another.                         *)
(*                                                                            *)
(* A roster is the number of the provider's league that it was taken from, 0  *)
(* when it is empty.                                                          *)
EXTENDS Naturals

CONSTANTS
    Builtin,     \* leagues that Teamarr ships
    Seed,        \* those of them whose teams it ships, too
    Custom,      \* leagues that the user may add
    Found,       \* leagues that only the discovery of ESPN finds
    MaxId,       \* bound on the numbers of leagues at their provider
    Added,       \* numbers that a league may be added with, others are edits
    Manual, Daily, Requests,  \* threads
    MaxChanges,  \* bound on requests and manual refreshes
    MaxFaults    \* bound on failing calls and restarts

Configured == Builtin \cup Custom
Leagues    == Configured \cup Found
Refreshers == Manual \cup Daily
Threads    == Refreshers \cup Requests
Ids        == 1..MaxId

VARIABLES
    row,      \* leagues: the provider's league of a code, 0 without a row
    counted,  \* leagues.cached_team_count is positive
    teams,    \* team_cache: the roster of every configured league
    entries,  \* league_cache
    sub,      \* sports_subscription.leagues
    flag,     \* cache_meta.refresh_in_progress
    stale,    \* cache_meta.last_full_refresh is more than a week old
    map,      \* LeagueMappingService: what a code means, 0 if it is not there
    client,   \* TSDBClient._cache: at most one roster of a league
    thread,   \* what every thread is doing
    wish,     \* the leagues that the user ticked or added, and did not untick
    edited,   \* the custom leagues that were edited since they were added, or
              \* were added anew while a reload had read their former row
    holed,    \* a refresh was saved that had not found all leagues
    torn,     \* the last reload that cleared the mapping could not query
    left,     \* the flag was left by a refresh that ended without clearing it
    changes, faults

rows    == <<row, counted, teams, entries, sub, flag, stale>>
memory  == <<map, client, thread>>
traces  == <<torn, left>>
history == <<wish, edited, holed, traces, changes, faults>>
vars    == <<rows, memory, history>>

-----------------------------------------------------------------------------
Rosters == {0} \cup Ids
Pcs == {"idle", "flag", "list", "fetch", "save", "meta", "unflag", "clear",
        "query", "fill", "resolve", "scoped", "write"}
NoRoster == [l \in Configured |-> 0]

\* A thread: what it does next, the leagues it has listed, those it has still
\* to fetch, what it got, what it read to fill the mapping, and whether its
\* refresh has failed, so that it is in the handler of the error.
Idle == [pc |-> "idle", list |-> {}, todo |-> {}, got |-> NoRoster,
         snap |-> NoRoster, failed |-> FALSE]

Goto(t, pc) == thread' = [thread EXCEPT ![t].pc = pc]

\* A start: the database is seeded, and the user may have added leagues, which
\* an earlier refresh has cached.
Init ==
    /\ \E added \in {{}, Custom} :
         /\ row = [l \in Configured |-> IF l \in Builtin \cup added THEN 1 ELSE 0]
         /\ teams = [l \in Configured |-> IF l \in Seed \cup added THEN 1 ELSE 0]
         /\ entries = Seed \cup added \cup (IF added = {} THEN {} ELSE Found)
         /\ sub = added /\ wish = added
    /\ map = row
    /\ counted = [l \in Configured |-> teams[l] # 0]
    /\ edited = {}
    /\ flag = FALSE /\ stale = TRUE
    /\ holed = FALSE /\ torn = FALSE /\ left = FALSE
    /\ client = [l \in Configured |-> {}]
    /\ thread = [t \in Threads |->
                   IF t \in Manual THEN [Idle EXCEPT !.pc = "flag"] ELSE Idle]
    /\ changes = 0 /\ faults = 0

-----------------------------------------------------------------------------
(* A full refresh                                                           *)

Start(t) ==
    /\ thread[t].pc = "idle"
    /\ Goto(t, "flag")
    /\ UNCHANGED <<rows, map, client, wish, edited, holed, traces, faults>>

\* POST /cache/refresh
Press(t) ==
    /\ changes < MaxChanges
    /\ changes' = changes + 1
    /\ Start(t)

\* refresh_if_needed: too old, or no teams at all.
Due(t) ==
    /\ stale \/ teams = NoRoster
    /\ UNCHANGED changes
    /\ Start(t)

Flag(t) ==
    /\ thread[t].pc = "flag"
    /\ flag' = TRUE
    /\ Goto(t, "list")
    /\ UNCHANGED <<row, counted, teams, entries, sub, stale, map, client,
                   history>>

\* The thread is done with its refresh.  The service looks for "errors", which
\* refresh never sets: a reload follows a failure, too.
Done(t) == thread' = [thread EXCEPT ![t] =
              [Idle EXCEPT !.pc = IF t \in Manual THEN "clear" ELSE "idle"]]

\* No provider is registered: refresh returns, and the flag stays.
NoProviders(t) ==
    /\ thread[t].pc = "list"
    /\ faults < MaxFaults
    /\ faults' = faults + 1
    /\ left' = (left \/ flag)
    /\ Done(t)
    /\ UNCHANGED <<rows, map, client, wish, edited, holed, torn, changes>>

\* _discover_from_provider: the configured leagues are those that the mapping
\* has at the moment; a failing discovery finds nothing.
List(t) ==
    /\ thread[t].pc = "list"
    /\ \E found \in {Found, {}} :
         LET all == {l \in Configured : map[l] # 0} \cup found
         IN  /\ faults' = faults + (IF found = Found THEN 0 ELSE 1)
             /\ faults' <= MaxFaults
             /\ thread' = [thread EXCEPT ![t] =
                  [Idle EXCEPT !.pc = "fetch", !.list = all,
                         !.todo = all \ Found]]
    /\ UNCHANGED <<rows, map, client, wish, edited, holed, traces, changes>>

\* Mutant: what the client keeps is not used.
AnswerAnew(l, roster) ==
    /\ roster \in {0, map[l]}
    /\ client' = [client EXCEPT ![l] = @ \cup {roster}]
    /\ faults' = faults + (IF roster = 0 THEN 1 ELSE 0)

\* What a provider can answer for a league.  The client keeps every answer for
\* a day under the code of the league, also that of a call that failed.
Answer(l, roster) ==
    \/ roster \in client[l] /\ UNCHANGED <<client, faults>>
    \/ /\ client[l] = {} /\ map[l] = 0 /\ roster = 0
       /\ UNCHANGED <<client, faults>>
    \/ /\ client[l] = {} /\ map[l] # 0 /\ roster \in {0, map[l]}
       /\ client' = [client EXCEPT ![l] = {roster}]
       /\ faults' = faults + (IF roster = 0 THEN 1 ELSE 0)

\* What a thread has after the answer for one of its leagues.
Taken(th, l, roster) ==
    [th EXCEPT !.todo = th.todo \ {l},
               !.got = [th.got EXCEPT ![l] = roster],
               !.pc = IF th.todo = {l} THEN "save" ELSE "fetch"]

Fetch(t) ==
    /\ thread[t].pc = "fetch"
    /\ \E l \in thread[t].todo, roster \in Rosters :
         /\ Answer(l, roster)
         /\ faults' <= MaxFaults
         /\ thread' = [thread EXCEPT ![t] =
              Taken(thread[t], l, roster)]
    /\ UNCHANGED <<rows, map, wish, edited, holed, traces, changes>>

NothingListed(t) ==
    /\ thread[t].pc = "fetch" /\ thread[t].todo = {}
    /\ Goto(t, "save")
    /\ UNCHANGED <<rows, map, client, history>>

\* _merge_with_seed: what was fetched wins over what is shipped.
Merged(t) ==
    [l \in Configured |-> IF l \in Seed /\ thread[t].got[l] = 0 THEN 1
                                                      ELSE thread[t].got[l]]

\* _save_cache: everything is replaced; the counts only of what was listed.
Save(t) ==
    LET listed == thread[t].list \cup Seed
        merged == Merged(t)
    IN  /\ thread[t].pc = "save"
        /\ teams' = merged
        /\ entries' = listed
        /\ counted' = [l \in Configured |->
             IF l \in listed /\ row[l] # 0 THEN merged[l] # 0 ELSE counted[l]]
        /\ holed' = (holed \/ ~(Found \subseteq listed))
        /\ Goto(t, "meta")
        /\ UNCHANGED <<row, sub, flag, stale, map, client, wish,
                       edited, traces, changes, faults>>

\* Mutant: any error leaves the refresh.
RaiseOut(t) ==
    /\ thread[t].pc \in {"flag", "save", "meta", "unflag"}
    /\ faults < MaxFaults
    /\ faults' = faults + 1
    /\ Goto(t, "idle")
    /\ UNCHANGED <<rows, map, client, wish, edited, holed, traces, changes>>

\* The database does not take a write: the handler notes the error and clears
\* the flag, with the two writes that follow a success, but what fails within
\* the handler leaves the refresh, and no reload follows.
Raise(t) ==
    /\ thread[t].pc \in {"flag", "save", "meta", "unflag"}
    /\ faults < MaxFaults
    /\ faults' = faults + 1
    /\ IF thread[t].failed
       THEN /\ thread' = [thread EXCEPT ![t] = Idle]
            /\ left' = (left \/ flag)
       ELSE /\ thread' = [thread EXCEPT ![t] =
                 [Idle EXCEPT !.pc = "meta", !.failed = TRUE]]
            /\ UNCHANGED left
    /\ UNCHANGED <<rows, map, client, wish, edited, holed, torn, changes>>

\* _update_meta
Meta(t) ==
    /\ thread[t].pc = "meta"
    /\ stale' = FALSE
    /\ Goto(t, "unflag")
    /\ UNCHANGED <<row, counted, teams, entries, sub, flag, map, client,
                   history>>

Unflag(t) ==
    /\ thread[t].pc = "unflag"
    /\ flag' = FALSE /\ left' = FALSE
    /\ Done(t)
    /\ UNCHANGED <<row, counted, teams, entries, sub, stale, map, client, wish,
                   edited, holed, torn, changes, faults>>

-----------------------------------------------------------------------------
(* LeagueMappingService.reload: the dictionaries are cleared, the rows read,  *)
(* and the dictionaries filled, without a lock.                              *)

Clear(t) ==
    /\ thread[t].pc = "clear"
    /\ map' = NoRoster
    /\ Goto(t, "query")
    /\ UNCHANGED <<rows, client, history>>

Query(t) ==
    /\ thread[t].pc = "query"
    /\ thread' = [thread EXCEPT ![t].pc = "fill", ![t].snap = row]
    /\ torn' = FALSE
    /\ UNCHANGED <<rows, map, client, wish, edited, holed, left, changes,
                   faults>>

\* The database cannot be read: the error ends what the thread does, and what
\* was cleared stays so until the next reload.
QueryFails(t) ==
    /\ thread[t].pc = "query"
    /\ faults < MaxFaults
    /\ faults' = faults + 1
    /\ thread' = [thread EXCEPT ![t] = Idle]
    /\ torn' = TRUE
    /\ UNCHANGED <<rows, map, client, wish, edited, holed, left, changes>>

\* Mutant: the mapping is replaced by what was read.
Replaced(snap) == snap

\* What is read is added to what is there.
Filled(snap) ==
    [l \in Configured |-> IF snap[l] # 0 THEN snap[l] ELSE map[l]]

Fill(t) ==
    /\ thread[t].pc = "fill"
    /\ map' = Filled(thread[t].snap)
    /\ thread' = [thread EXCEPT
         ![t].pc = IF t \in Requests THEN "resolve" ELSE "idle",
         ![t].snap = NoRoster]
    /\ UNCHANGED <<rows, client, history>>

-----------------------------------------------------------------------------
(* Requests about custom leagues and the subscription                       *)

\* Mutant: a configured league is known once the directory has it.
KnownByDirectory(s, r) == IF entries = {} THEN s ELSE s \cap entries

\* _drop_unknown_league_codes, when the table of leagues is r
Known(s, r) ==
    IF entries = {} THEN s
    ELSE s \cap (entries \cup {l \in Configured : r[l] # 0})

Request(t) ==
    /\ thread[t].pc = "idle"
    /\ changes < MaxChanges
    /\ changes' = changes + 1
    /\ UNCHANGED <<flag, stale, map, client, holed, traces, faults>>

\* A reload that has read another row of l, and has yet to fill it in.
ReadAnother(t, l, id) ==
    thread[t].pc = "fill" /\ thread[t].snap[l] \notin {0, id}

\* create_custom_league: the row and the subscription are committed, and the
\* mapping is reloaded before the teams are fetched.
Create(t) ==
    /\ Request(t)
    /\ \E l \in Custom, id \in Added :
         /\ row[l] = 0
         /\ row' = [row EXCEPT ![l] = id]
         /\ counted' = [counted EXCEPT ![l] = FALSE]
         /\ sub' = IF l \in sub THEN sub
                   ELSE Known(sub \cup {l}, [row EXCEPT ![l] = id])
         /\ wish' = wish \cup {l}
         /\ thread' = [thread EXCEPT ![t] =
              [Idle EXCEPT !.pc = "clear", !.list = {l}]]
         /\ edited' = IF \E u \in Threads : ReadAnother(u, l, id)
                      THEN edited \cup {l} ELSE edited
    /\ UNCHANGED <<teams, entries>>

\* update_custom_league: nothing is reloaded.
Edit(t) ==
    /\ Request(t)
    /\ \E l \in Custom, id \in Ids :
         /\ row[l] \notin {0, id}
         /\ row' = [row EXCEPT ![l] = id]
         /\ edited' = edited \cup {l}
    /\ UNCHANGED <<counted, teams, entries, sub, thread, wish>>

\* delete_custom_league: the subscription and the mapping keep the code.
Delete(t) ==
    /\ Request(t)
    /\ \E l \in Custom :
         /\ row[l] # 0
         /\ row' = [row EXCEPT ![l] = 0]
         /\ counted' = [counted EXCEPT ![l] = FALSE]
         /\ teams' = [teams EXCEPT ![l] = 0]
         /\ entries' = entries \ {l}
         /\ wish' = wish \ {l}
         /\ edited' = edited \ {l}
    /\ UNCHANGED <<sub, thread>>

\* What the pages of the subscription show.
Shown == entries \cup {l \in Configured : row[l] # 0}

\* update_subscription: the user ticks or unticks a league that is shown.
Subscribe(t) ==
    /\ Request(t)
    /\ \/ \E l \in Shown \ sub :
            /\ sub' = Known(sub \cup {l}, row)
            /\ wish' = wish \cup {l}
       \/ \E l \in sub :
            /\ sub' = Known(sub \ {l}, row)
            /\ wish' = wish \ {l}
    /\ UNCHANGED <<row, counted, teams, entries, edited, thread>>

\* refresh_league: the row and the mapping must know the league.
Resolve(t) ==
    /\ thread[t].pc = "resolve"
    /\ \E l \in thread[t].list :
         IF row[l] # 0 /\ map[l] # 0 THEN Goto(t, "scoped")
         ELSE thread' = [thread EXCEPT ![t] = Idle]
    /\ UNCHANGED <<rows, map, client, history>>

FetchOne(t) ==
    /\ thread[t].pc = "scoped"
    /\ \E l \in thread[t].list, roster \in Rosters :
         /\ Answer(l, roster)
         /\ faults' <= MaxFaults
         /\ thread' = [thread EXCEPT ![t].pc = "write", ![t].got[l] = roster]
    /\ UNCHANGED <<rows, map, wish, edited, holed, traces, changes>>

\* _save_league_teams: the teams of one league, in one transaction
Write(t) ==
    /\ thread[t].pc = "write"
    /\ \E l \in thread[t].list :
         /\ teams' = [teams EXCEPT ![l] = thread[t].got[l]]
         /\ entries' = entries \cup {l}
         /\ counted' = [counted EXCEPT
                ![l] = IF row[l] # 0 THEN thread[t].got[l] # 0 ELSE @]
    /\ thread' = [thread EXCEPT ![t] = Idle]
    /\ UNCHANGED <<row, sub, flag, stale, map, client, history>>

-----------------------------------------------------------------------------
(* Time and restarts                                                        *)

\* A week passes.
Age ==
    /\ ~stale /\ stale' = TRUE
    /\ UNCHANGED <<row, counted, teams, entries, sub, flag, memory,
                   history>>

\* A day passes, and the client forgets what it was told.
Expire ==
    /\ \E l \in Configured : client[l] # {}
    /\ client' = [l \in Configured |-> {}]
    /\ UNCHANGED <<rows, map, thread, history>>

\* The process stops and starts again: with a refresh of its own, or with
\* SKIP_CACHE_REFRESH, which leaves the flag of a refresh that was cut short;
\* the mapping is loaded and reloaded in both.
Restart ==
    /\ faults < MaxFaults
    /\ faults' = faults + 1
    /\ map' = row /\ torn' = FALSE
    /\ client' = [l \in Configured |-> {}]
    /\ \E pc \in {"flag", "clear"} :
         /\ thread' = [t \in Threads |-> IF t \in Manual
                        THEN [Idle EXCEPT !.pc = pc] ELSE Idle]
         /\ left' = (left \/ (flag /\ pc = "clear"))
    /\ UNCHANGED <<rows, wish, edited, holed, changes>>

-----------------------------------------------------------------------------
Refresh(t) ==
    \/ Flag(t) \/ NoProviders(t) \/ List(t) \/ Fetch(t) \/ NothingListed(t)
    \/ Save(t) \/ Raise(t) \/ Meta(t) \/ Unflag(t)
Reload(t)  == Clear(t) \/ Query(t) \/ QueryFails(t) \/ Fill(t)
Scoped(t)  == Resolve(t) \/ FetchOne(t) \/ Write(t)

Next ==
    \/ \E t \in Manual : Press(t) \/ Reload(t)
    \/ \E t \in Daily : Due(t)
    \/ \E t \in Refreshers : Refresh(t)
    \/ \E t \in Requests :
         \/ Create(t) \/ Edit(t) \/ Delete(t) \/ Subscribe(t)
         \/ Reload(t) \/ Scoped(t)
    \/ Age \/ Expire \/ Restart

Spec == Init /\ [][Next]_vars

-----------------------------------------------------------------------------
TypeOK ==
    /\ {row, map, teams} \subseteq [Configured -> Rosters]
    /\ counted \in [Configured -> BOOLEAN]
    /\ \A s \in {entries, sub, wish, edited} : s \subseteq Leagues
    /\ {flag, stale, holed, torn, left} \subseteq BOOLEAN
    /\ \A l \in Configured : client[l] \in {{}} \cup {{r} : r \in Rosters}
    /\ \A t \in Threads :
         /\ thread[t].pc \in Pcs
         /\ thread[t].todo \subseteq thread[t].list
         /\ {thread[t].got, thread[t].snap} \subseteq [Configured -> Rosters]
    /\ changes \in 0..MaxChanges /\ faults \in 0..MaxFaults

\* docs/guide/subscriptions.md: a league that was ticked or added stays in the
\* subscription until it is unticked or deleted, although every save is checked
\* against a directory that refreshes replace.  The exceptions are a league that
\* only the discovery knows, once a refresh without it was saved, and one that
\* was ticked without a row: a refresh can save a league that was deleted while
\* it ran, and the page shows it until the next one.
WishesStay ==
    \A l \in wish \ sub : \/ l \in Found /\ holed
                          \/ l \in Configured /\ row[l] = 0

\* Between reloads the mapping in memory has every configured league, with the
\* provider's league of its row unless that was edited (or added anew, above),
\* although threads clear and fill the dictionaries without a lock and with
\* rows that they read before others changed them: else refreshes would no
\* longer fetch a league, and generations would not know what it is.  Only a
\* reload that could not query the database leaves leagues out, until another
\* one can.
Reloading == \E t \in Threads : thread[t].pc \in {"clear", "query", "fill"}
MappingIsComplete ==
    Reloading \/ \A l \in Configured : row[l] # 0 =>
        IF map[l] = 0 THEN torn ELSE map[l] = row[l] \/ l \in edited

\* The flag of a refresh in progress is the work of a thread that is at it,
\* however refreshes overlap, fail or are cut short by a restart.  Three ways
\* of ending leave it, until another refresh clears it: no provider, an error
\* within the handler of an error, and a stop before a start without refresh.
FlagHasThread ==
    flag => left \/ \E t \in Refreshers :
        thread[t].pc \in {"flag", "list", "fetch", "save", "meta", "unflag"}

\* All three: what was chosen stays chosen, what is configured is known, and
\* no refresh is shown that nobody is at or has left.
DirectoryIsKept == WishesStay /\ MappingIsComplete /\ FlagHasThread
===============================================================================
