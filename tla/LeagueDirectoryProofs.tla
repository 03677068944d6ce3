------------------------ MODULE LeagueDirectoryProofs ------------------------
(* Proofs, for any leagues, threads, numbers and bounds, of what the directory *)
(* keeps: its types, what the user chose, the mapping in memory, and the flag  *)
(* of a refresh in progress.                                                   *)
EXTENDS LeagueDirectory, TLAPS

\* What the proofs need of the constants.  Other leagues than the configured
\* ones come from the discovery, a thread is of one kind, and a start has a
\* refresh of its own.
Parameters ==
    /\ Found \cap Configured = {} /\ Seed \subseteq Builtin
    /\ MaxId \in Nat /\ 1 <= MaxId /\ Added \subseteq Ids
    /\ Manual \cap Daily = {} /\ Refreshers \cap Requests = {} /\ Manual # {}
    /\ MaxChanges \in Nat /\ MaxFaults \in Nat

-----------------------------------------------------------------------------
(* The inductive invariant *)

ThreadType ==
    [pc : Pcs, list : SUBSET Leagues, todo : SUBSET Configured,
     got : [Configured -> Rosters], snap : [Configured -> Rosters],
     failed : BOOLEAN]

Types ==
    /\ row \in [Configured -> Rosters]
    /\ map \in [Configured -> Rosters]
    /\ teams \in [Configured -> Rosters]
    /\ counted \in [Configured -> BOOLEAN]
    /\ entries \subseteq Leagues /\ sub \subseteq Leagues
    /\ wish \subseteq Leagues /\ edited \subseteq Leagues
    /\ flag \in BOOLEAN /\ stale \in BOOLEAN /\ holed \in BOOLEAN
    /\ torn \in BOOLEAN /\ left \in BOOLEAN
    /\ client \in [Configured -> {{}} \cup {{r} : r \in Rosters}]
    /\ thread \in [Threads -> ThreadType]
    /\ changes \in 0..MaxChanges /\ faults \in 0..MaxFaults

\* What a thread has to do where it stands.
Standing(t) ==
    /\ thread[t].todo \subseteq thread[t].list
    /\ t \in Requests => thread[t].list \subseteq Configured
Stands == \A t \in Threads : Standing(t)

\* A league with a row is in the mapping, or a thread will put it there, or
\* the last reload could not query.
Filling(t, l) ==
    \/ thread[t].pc \in {"clear", "query"}
    \/ thread[t].pc = "fill" /\ thread[t].snap[l] # 0
Complete ==
    torn \/ \A l \in Configured :
        row[l] # 0 => map[l] # 0 \/ \E t \in Threads : Filling(t, l)

\* Of a league that was not edited no thread holds another number, and neither
\* does the mapping, unless a thread will clear it.
Clearing == \E t \in Threads : thread[t].pc = "clear"
Unedited ==
    \A l \in Configured \ edited : row[l] # 0 =>
        /\ \A t \in Threads : ~ReadAnother(t, l, row[l])
        /\ map[l] \in {0, row[l]} \/ Clearing

\* A league that the user chose is in the subscription, or it may be missing;
\* one that only the discovery knows is in the directory until a refresh
\* without it is saved.
Missing(l) == \/ l \in Found /\ holed
              \/ l \in Configured /\ row[l] = 0
Chosen ==
    \A l \in wish : /\ l \in sub \/ Missing(l)
                    /\ l \in Found => l \in entries \/ holed

IInv == Types /\ Stands /\ Complete /\ Unedited /\ Chosen /\ FlagHasThread

-----------------------------------------------------------------------------
(* Threads *)

\* The threads of two states stay, but one.
OthersStay(t) == \A u \in Threads \ {t} : thread'[u] = thread[u]

LEMMA IdleIs ==
    ASSUME Parameters
    PROVE  /\ Idle \in ThreadType
           /\ Idle.pc = "idle" /\ Idle.list = {} /\ Idle.todo = {}
           /\ NoRoster \in [Configured -> Rosters]
BY DEF Idle, ThreadType, NoRoster, Pcs, Rosters, Parameters

LEMMA GotoIs ==
    ASSUME Types, NEW t \in Threads, NEW pc \in Pcs, Goto(t, pc)
    PROVE  /\ thread' \in [Threads -> ThreadType] /\ OthersStay(t)
           /\ thread'[t].pc = pc /\ thread'[t].list = thread[t].list
           /\ thread'[t].todo = thread[t].todo
           /\ thread'[t].snap = thread[t].snap
<1>1. thread \in [Threads -> ThreadType] /\ thread[t] \in ThreadType
  BY DEF Types
<1>2. thread'[t] = [thread[t] EXCEPT !.pc = pc]
  BY <1>1 DEF Goto
<1>3. thread' = [thread EXCEPT ![t] = [thread[t] EXCEPT !.pc = pc]]
  BY <1>1 DEF Goto
<1>4. [thread[t] EXCEPT !.pc = pc] \in ThreadType
  BY <1>1 DEF ThreadType
<1>5. QED
  BY <1>1, <1>2, <1>3, <1>4 DEF OthersStay, ThreadType

LEMMA PutIs ==
    ASSUME Types, NEW t \in Threads, NEW th \in ThreadType,
           thread' = [thread EXCEPT ![t] = th]
    PROVE  /\ thread' \in [Threads -> ThreadType] /\ OthersStay(t)
           /\ thread'[t] = th
BY DEF Types, OthersStay

\* What an answer of the provider leaves.
LEMMA AnswerIs ==
    ASSUME Parameters, Types, NEW l \in Configured, NEW roster \in Rosters,
           Answer(l, roster), faults' <= MaxFaults
    PROVE  /\ client' \in [Configured -> {{}} \cup {{r} : r \in Rosters}]
           /\ faults' \in 0..MaxFaults
<1>1. CASE UNCHANGED <<client, faults>>
  BY <1>1 DEF Types
<1>2. CASE /\ client' = [client EXCEPT ![l] = {roster}]
           /\ faults' = faults + (IF roster = 0 THEN 1 ELSE 0)
  BY <1>2 DEF Types, Parameters
<1>3. QED
  BY <1>1, <1>2 DEF Answer

-----------------------------------------------------------------------------
(* What a step does to its thread *)

LEMMA ListIs ==
    ASSUME Parameters, Types, NEW t \in Threads, List(t)
    PROVE  /\ thread' \in [Threads -> ThreadType] /\ OthersStay(t)
           /\ thread'[t].pc = "fetch" /\ thread'[t].todo \subseteq thread'[t].list
           /\ faults' \in 0..MaxFaults
<1>1. PICK found \in {Found, {}} :
        LET all == {l \in Configured : map[l] # 0} \cup found
        IN  /\ faults' = faults + (IF found = Found THEN 0 ELSE 1)
            /\ faults' <= MaxFaults
            /\ thread' = [thread EXCEPT ![t] =
                 [Idle EXCEPT !.pc = "fetch", !.list = all,
                        !.todo = all \ Found]]
  BY DEF List
<1> DEFINE all == {l \in Configured : map[l] # 0} \cup found
           th == [Idle EXCEPT !.pc = "fetch", !.list = all, !.todo = all \ Found]
<1>2. all \subseteq Leagues /\ all \ Found \subseteq Configured
  BY DEF Leagues
<1>3. th \in ThreadType /\ th.pc = "fetch" /\ th.list = all /\ th.todo = all \ Found
  <2> HIDE DEF all
  <2> QED
    BY <1>2, IdleIs DEF ThreadType, Pcs
<1>4. thread' = [thread EXCEPT ![t] = th]
  BY <1>1
<1>5. faults' \in 0..MaxFaults
  BY <1>1 DEF Types, Parameters
<1> HIDE DEF th, all
<1>6. QED
  BY <1>3, <1>4, <1>5, PutIs

LEMMA FetchIs ==
    ASSUME Parameters, Types, NEW t \in Threads, Standing(t), Fetch(t)
    PROVE  /\ thread' \in [Threads -> ThreadType] /\ OthersStay(t)
           /\ thread'[t].pc \in {"fetch", "save"}
           /\ thread'[t].todo \subseteq thread'[t].list
           /\ client' \in [Configured -> {{}} \cup {{r} : r \in Rosters}]
           /\ faults' \in 0..MaxFaults
<1>1. PICK l \in thread[t].todo, roster \in Rosters :
        /\ Answer(l, roster)
        /\ faults' <= MaxFaults
        /\ thread' = [thread EXCEPT ![t] = Taken(thread[t], l, roster)]
  BY DEF Fetch
<1>2. thread[t] \in ThreadType /\ l \in Configured
  BY DEF Types, ThreadType
<1> DEFINE th == Taken(thread[t], l, roster)
<1>3. [thread[t].got EXCEPT ![l] = roster] \in [Configured -> Rosters]
  BY <1>2 DEF ThreadType
<1>4. th \in ThreadType /\ th.pc \in {"fetch", "save"}
      /\ th.list = thread[t].list /\ th.todo = thread[t].todo \ {l}
  BY <1>2, <1>3 DEF Taken, ThreadType, Pcs
<1>5. th.todo \subseteq th.list
  BY <1>4 DEF Standing
<1>6. thread' = [thread EXCEPT ![t] = th]
  BY <1>1
<1> HIDE DEF th
<1>7. thread' \in [Threads -> ThreadType] /\ OthersStay(t) /\ thread'[t] = th
  BY <1>4, <1>6, PutIs
<1>8. QED
  BY <1>1, <1>2, <1>4, <1>5, <1>7, AnswerIs

LEMMA DoneIs ==
    ASSUME Parameters, Types, NEW t \in Threads, Done(t)
    PROVE  /\ thread' \in [Threads -> ThreadType] /\ OthersStay(t)
           /\ thread'[t].pc \in {"clear", "idle"}
           /\ thread'[t].todo = {} /\ thread'[t].list = {}
<1> DEFINE th == [Idle EXCEPT !.pc = IF t \in Manual THEN "clear" ELSE "idle"]
<1>1. th \in ThreadType /\ th.pc \in {"clear", "idle"} /\ th.todo = {} /\ th.list = {}
  BY IdleIs DEF ThreadType, Pcs
<1>2. thread' = [thread EXCEPT ![t] = th]
  BY DEF Done
<1> HIDE DEF th
<1>3. QED
  BY <1>1, <1>2, PutIs

\* An error within the handler ends the refresh, any other leads to it.
LEMMA RaiseIs ==
    ASSUME Parameters, Types, NEW t \in Threads, Raise(t)
    PROVE  /\ thread' \in [Threads -> ThreadType] /\ OthersStay(t)
           /\ thread'[t].pc \in {"meta", "idle"}
           /\ thread'[t].pc = "idle" => left' = (left \/ flag)
           /\ thread'[t].pc = "meta" => left' = left
           /\ thread'[t].todo = {} /\ thread'[t].list = {}
<1> DEFINE th == [Idle EXCEPT !.pc = "meta", !.failed = TRUE]
<1>1. th \in ThreadType /\ th.pc = "meta" /\ th.todo = {} /\ th.list = {}
  BY IdleIs DEF ThreadType, Pcs
<1>2. CASE thread' = [thread EXCEPT ![t] = Idle] /\ left' = (left \/ flag)
  BY <1>2, IdleIs, PutIs
<1>3. CASE thread' = [thread EXCEPT ![t] = th] /\ UNCHANGED left
  <2> HIDE DEF th
  <2> QED
    BY <1>1, <1>3, PutIs
<1>4. QED
  BY <1>2, <1>3 DEF Raise

LEMMA QueryIs ==
    ASSUME Parameters, Types, NEW t \in Threads, Query(t)
    PROVE  /\ thread' \in [Threads -> ThreadType] /\ OthersStay(t)
           /\ thread'[t].pc = "fill" /\ thread'[t].snap = row
           /\ thread'[t].todo = thread[t].todo /\ thread'[t].list = thread[t].list
<1>1. thread[t] \in ThreadType /\ thread \in [Threads -> ThreadType]
      /\ row \in [Configured -> Rosters]
  BY DEF Types
<1> DEFINE th == [thread[t] EXCEPT !.pc = "fill", !.snap = row]
<1>2. th \in ThreadType /\ th.pc = "fill" /\ th.snap = row
      /\ th.todo = thread[t].todo /\ th.list = thread[t].list
  BY <1>1 DEF ThreadType, Pcs
<1>3. thread' = [thread EXCEPT ![t] = th]
  BY <1>1 DEF Query, ThreadType
<1> HIDE DEF th
<1>4. QED
  BY <1>2, <1>3, PutIs

LEMMA FillIs ==
    ASSUME Parameters, Types, NEW t \in Threads, Fill(t)
    PROVE  /\ thread' \in [Threads -> ThreadType] /\ OthersStay(t)
           /\ thread'[t].pc = IF t \in Requests THEN "resolve" ELSE "idle"
           /\ thread'[t].todo = thread[t].todo /\ thread'[t].list = thread[t].list
           /\ map' \in [Configured -> Rosters]
           /\ \A l \in Configured :
                map'[l] = IF thread[t].snap[l] # 0 THEN thread[t].snap[l] ELSE map[l]
<1>1. thread[t] \in ThreadType /\ thread \in [Threads -> ThreadType]
      /\ map \in [Configured -> Rosters]
      /\ thread[t].snap \in [Configured -> Rosters]
  BY DEF Types, ThreadType
<1> DEFINE pc == IF t \in Requests THEN "resolve" ELSE "idle"
           th == [thread[t] EXCEPT !.pc = pc, !.snap = NoRoster]
<1>2. th \in ThreadType /\ th.pc = pc
      /\ th.todo = thread[t].todo /\ th.list = thread[t].list
  BY <1>1, IdleIs DEF ThreadType, Pcs
<1>3. thread' = [thread EXCEPT ![t] = th]
  BY <1>1 DEF Fill, ThreadType
<1>4. map' = [l \in Configured |->
                IF thread[t].snap[l] # 0 THEN thread[t].snap[l] ELSE map[l]]
  BY DEF Fill, Filled
<1>5. map' \in [Configured -> Rosters]
  BY <1>1, <1>4
<1> HIDE DEF th
<1>6. QED
  BY <1>2, <1>3, <1>4, <1>5, PutIs

LEMMA CreateIs ==
    ASSUME Parameters, Types, NEW t \in Threads, NEW l \in Custom,
           thread' = [thread EXCEPT ![t] = [Idle EXCEPT !.pc = "clear", !.list = {l}]]
    PROVE  /\ thread' \in [Threads -> ThreadType] /\ OthersStay(t)
           /\ thread'[t].pc = "clear"
           /\ thread'[t].todo = {} /\ thread'[t].list = {l}
<1> DEFINE th == [Idle EXCEPT !.pc = "clear", !.list = {l}]
<1>1. th \in ThreadType /\ th.pc = "clear" /\ th.todo = {} /\ th.list = {l}
  BY IdleIs DEF ThreadType, Pcs, Leagues, Configured
<1> HIDE DEF th
<1>2. QED
  BY <1>1, PutIs DEF th

LEMMA FetchOneIs ==
    ASSUME Parameters, Types, NEW t \in Requests, Standing(t), FetchOne(t)
    PROVE  /\ thread' \in [Threads -> ThreadType] /\ OthersStay(t)
           /\ thread'[t].pc = "write"
           /\ thread'[t].todo = thread[t].todo /\ thread'[t].list = thread[t].list
           /\ client' \in [Configured -> {{}} \cup {{r} : r \in Rosters}]
           /\ faults' \in 0..MaxFaults
<1>1. PICK l \in thread[t].list, roster \in Rosters :
        /\ Answer(l, roster)
        /\ faults' <= MaxFaults
        /\ thread' = [thread EXCEPT ![t].pc = "write", ![t].got[l] = roster]
  BY DEF FetchOne
<1>2. thread[t] \in ThreadType /\ thread \in [Threads -> ThreadType]
      /\ l \in Configured /\ t \in Threads
  BY DEF Types, Threads, Standing
<1> DEFINE th == [thread[t] EXCEPT !.pc = "write",
                          !.got = [thread[t].got EXCEPT ![l] = roster]]
<1>3. [thread[t].got EXCEPT ![l] = roster] \in [Configured -> Rosters]
  BY <1>2 DEF ThreadType
<1>4. th \in ThreadType /\ th.pc = "write"
      /\ th.todo = thread[t].todo /\ th.list = thread[t].list
  BY <1>2, <1>3 DEF ThreadType, Pcs
<1>5. thread' = [thread EXCEPT ![t] = th]
  BY <1>1, <1>2 DEF ThreadType
<1> HIDE DEF th
<1>6. QED
  BY <1>1, <1>2, <1>4, <1>5, PutIs, AnswerIs

\* An idle thread is one that has nothing to do.
LEMMA RestIs ==
    ASSUME Parameters, Types, NEW t \in Threads,
           thread' = [thread EXCEPT ![t] = Idle]
    PROVE  /\ thread' \in [Threads -> ThreadType] /\ OthersStay(t)
           /\ thread'[t].pc = "idle"
           /\ thread'[t].todo = {} /\ thread'[t].list = {}
BY IdleIs, PutIs

-----------------------------------------------------------------------------
(* Types *)

\* A step of one thread leaves the others where they stand.
LEMMA StandsKept ==
    ASSUME Stands, NEW t \in Threads, OthersStay(t), Standing(t)'
    PROVE  Stands'
BY DEF Stands, Standing, OthersStay

LEMMA RefreshTypes ==
    ASSUME Parameters, Types, Stands, NEW t \in Refreshers,
           Press(t) \/ Due(t) \/ Refresh(t)
    PROVE  Types' /\ Stands'
<1>1. t \in Threads /\ Standing(t) /\ t \notin Requests
  BY DEF Threads, Stands, Parameters
<1>2. CASE Press(t) \/ Due(t)
  <2>1. Goto(t, "flag") /\ Start(t)
    BY <1>2 DEF Press, Due, Start
  <2>2. /\ thread' \in [Threads -> ThreadType] /\ OthersStay(t)
        /\ thread'[t].pc = "flag" /\ thread'[t].list = thread[t].list
        /\ thread'[t].todo = thread[t].todo
    BY <1>1, <2>1, GotoIs DEF Pcs
  <2>3. changes' \in 0..MaxChanges
    BY <1>2 DEF Press, Due, Types, Parameters
  <2>4. Types'
    BY <2>1, <2>2, <2>3 DEF Start, Types, rows, traces
  <2>5. Standing(t)'
    BY <1>1, <2>2 DEF Standing
  <2>6. QED
    BY <1>1, <2>2, <2>4, <2>5, StandsKept
<1>3. CASE List(t)
  <2>1. /\ thread' \in [Threads -> ThreadType] /\ OthersStay(t)
        /\ thread'[t].pc = "fetch" /\ thread'[t].todo \subseteq thread'[t].list
        /\ faults' \in 0..MaxFaults
    BY <1>1, <1>3, ListIs
  <2>2. Types'
    BY <1>3, <2>1 DEF List, Types, rows, traces
  <2>3. Standing(t)'
    BY <1>1, <2>1 DEF Standing
  <2>4. QED
    BY <1>1, <2>1, <2>2, <2>3, StandsKept
<1>4. CASE Fetch(t)
  <2>1. /\ thread' \in [Threads -> ThreadType] /\ OthersStay(t)
        /\ thread'[t].pc \in {"fetch", "save"}
        /\ thread'[t].todo \subseteq thread'[t].list
        /\ client' \in [Configured -> {{}} \cup {{r} : r \in Rosters}]
        /\ faults' \in 0..MaxFaults
    BY <1>1, <1>4, FetchIs
  <2>2. Types'
    BY <1>4, <2>1 DEF Fetch, Types, rows, traces
  <2>3. Standing(t)'
    BY <1>1, <2>1 DEF Standing
  <2>4. QED
    BY <1>1, <2>1, <2>2, <2>3, StandsKept
<1>5. CASE NothingListed(t)
  <2>1. /\ thread' \in [Threads -> ThreadType] /\ OthersStay(t)
        /\ thread'[t].pc = "save" /\ thread'[t].list = thread[t].list
        /\ thread'[t].todo = thread[t].todo
    BY <1>1, <1>5, GotoIs DEF NothingListed, Pcs
  <2>2. Types'
    BY <1>5, <2>1 DEF NothingListed, Types, rows, history, traces
  <2>3. Standing(t)'
    BY <1>1, <2>1 DEF Standing
  <2>4. QED
    BY <1>1, <2>1, <2>2, <2>3, StandsKept
<1>6. CASE Save(t)
  <2>1. /\ thread' \in [Threads -> ThreadType] /\ OthersStay(t)
        /\ thread'[t].pc = "meta" /\ thread'[t].list = thread[t].list
        /\ thread'[t].todo = thread[t].todo
    BY <1>1, <1>6, GotoIs DEF Save, Pcs
  <2>2. thread[t] \in ThreadType
    BY <1>1 DEF Types
  <2>3. Merged(t) \in [Configured -> Rosters]
    BY <2>2 DEF Merged, ThreadType, Rosters, Ids, Parameters
  <2>4. teams' \in [Configured -> Rosters]
    BY <1>6, <2>3 DEF Save
  <2>5. entries' \subseteq Leagues /\ holed' \in BOOLEAN
    BY <1>6, <2>2 DEF Save, Types, ThreadType, Leagues, Configured, Parameters
  <2>6. counted' \in [Configured -> BOOLEAN]
    BY <1>6 DEF Save, Types
  <2>7. Types'
    BY <1>6, <2>1, <2>4, <2>5, <2>6 DEF Save, Types, traces
  <2>8. Standing(t)'
    BY <1>1, <2>1 DEF Standing
  <2>9. QED
    BY <1>1, <2>1, <2>7, <2>8, StandsKept
<1>7. CASE Raise(t)
  <2>1. /\ thread' \in [Threads -> ThreadType] /\ OthersStay(t)
        /\ thread'[t].pc \in {"meta", "idle"}
        /\ thread'[t].pc = "idle" => left' = (left \/ flag)
        /\ thread'[t].pc = "meta" => left' = left
        /\ thread'[t].todo = {} /\ thread'[t].list = {}
    BY <1>1, <1>7, RaiseIs
  <2>2. faults' \in 0..MaxFaults /\ left' \in BOOLEAN
    BY <1>7, <2>1 DEF Raise, Types, Parameters
  <2>3. Types'
    BY <1>7, <2>1, <2>2 DEF Raise, Types, rows
  <2>4. Standing(t)'
    BY <1>1, <2>1 DEF Standing
  <2>5. QED
    BY <1>1, <2>1, <2>3, <2>4, StandsKept
<1>8. CASE Flag(t) \/ Meta(t)
  <2>1. PICK pc \in {"list", "unflag"} : Goto(t, pc)
    BY <1>8 DEF Flag, Meta
  <2>2. /\ thread' \in [Threads -> ThreadType] /\ OthersStay(t)
        /\ thread'[t].pc = pc /\ thread'[t].list = thread[t].list
        /\ thread'[t].todo = thread[t].todo
    BY <1>1, <2>1, GotoIs DEF Pcs
  <2>3. Types'
    BY <1>8, <2>2 DEF Flag, Meta, Types, history, traces
  <2>4. Standing(t)'
    BY <1>1, <2>2 DEF Standing
  <2>5. QED
    BY <1>1, <2>2, <2>3, <2>4, StandsKept
<1>9. CASE NoProviders(t) \/ Unflag(t)
  <2>1. /\ thread' \in [Threads -> ThreadType] /\ OthersStay(t)
        /\ thread'[t].pc \in {"clear", "idle"}
        /\ thread'[t].todo = {} /\ thread'[t].list = {}
    BY <1>1, <1>9, DoneIs DEF NoProviders, Unflag
  <2>2. faults' \in 0..MaxFaults /\ left' \in BOOLEAN /\ flag' \in BOOLEAN
    <3>1. CASE NoProviders(t)
      BY <3>1 DEF NoProviders, Types, Parameters, rows
    <3>2. CASE Unflag(t)
      BY <3>2 DEF Unflag, Types
    <3>3. QED
      BY <1>9, <3>1, <3>2
  <2>3. Types'
    BY <1>9, <2>1, <2>2 DEF NoProviders, Unflag, Types, rows
  <2>4. Standing(t)'
    BY <1>1, <2>1 DEF Standing
  <2>5. QED
    BY <1>1, <2>1, <2>3, <2>4, StandsKept
<1>10. QED
  BY <1>2, <1>3, <1>4, <1>5, <1>6, <1>7, <1>8, <1>9 DEF Refresh

LEMMA ReloadTypes ==
    ASSUME Parameters, Types, Stands, NEW t \in Threads, Reload(t)
    PROVE  Types' /\ Stands'
<1>1. Standing(t)
  BY DEF Stands
<1>2. CASE Clear(t)
  <2>1. /\ thread' \in [Threads -> ThreadType] /\ OthersStay(t)
        /\ thread'[t].pc = "query" /\ thread'[t].list = thread[t].list
        /\ thread'[t].todo = thread[t].todo
    BY <1>2, GotoIs DEF Clear, Pcs
  <2>2. map' \in [Configured -> Rosters]
    BY <1>2, IdleIs DEF Clear
  <2>3. Types'
    BY <1>2, <2>1, <2>2 DEF Clear, Types, rows, history, traces
  <2>4. Standing(t)'
    BY <1>1, <2>1 DEF Standing
  <2>5. QED
    BY <2>1, <2>3, <2>4, StandsKept
<1>3. CASE Query(t)
  <2>1. /\ thread' \in [Threads -> ThreadType] /\ OthersStay(t)
        /\ thread'[t].pc = "fill"
        /\ thread'[t].todo = thread[t].todo /\ thread'[t].list = thread[t].list
    BY <1>3, QueryIs
  <2>2. Types'
    BY <1>3, <2>1 DEF Query, Types, rows, history
  <2>3. Standing(t)'
    BY <1>1, <2>1 DEF Standing
  <2>4. QED
    BY <2>1, <2>2, <2>3, StandsKept
<1>4. CASE Fill(t)
  <2>1. /\ thread' \in [Threads -> ThreadType] /\ OthersStay(t)
        /\ thread'[t].pc = IF t \in Requests THEN "resolve" ELSE "idle"
        /\ thread'[t].todo = thread[t].todo /\ thread'[t].list = thread[t].list
        /\ map' \in [Configured -> Rosters]
    BY <1>4, FillIs
  <2>2. Types'
    BY <1>4, <2>1 DEF Fill, Types, rows, history, traces
  <2>3. Standing(t)'
    BY <1>1, <2>1 DEF Standing
  <2>4. QED
    BY <2>1, <2>2, <2>3, StandsKept
<1>5. CASE QueryFails(t)
  <2>1. /\ thread' \in [Threads -> ThreadType] /\ OthersStay(t)
        /\ thread'[t].todo = {} /\ thread'[t].list = {}
    BY <1>5, RestIs DEF QueryFails
  <2>2. faults' \in 0..MaxFaults
    BY <1>5 DEF QueryFails, Types, Parameters
  <2>3. Types'
    BY <1>5, <2>1, <2>2 DEF QueryFails, Types, rows
  <2>4. Standing(t)'
    BY <2>1 DEF Standing
  <2>5. QED
    BY <2>1, <2>3, <2>4, StandsKept
<1>6. QED
  BY <1>2, <1>3, <1>4, <1>5 DEF Reload

LEMMA RequestTypes ==
    ASSUME Parameters, Types, Stands, NEW t \in Requests,
           \/ Create(t) \/ Edit(t) \/ Delete(t) \/ Subscribe(t) \/ Scoped(t)
    PROVE  Types' /\ Stands'
<1>1. t \in Threads /\ Standing(t)
  BY DEF Threads, Stands
<1>2. Custom \subseteq Configured /\ Configured \subseteq Leagues
      /\ Ids \subseteq Rosters /\ 0 \in Rosters
  BY DEF Configured, Leagues, Rosters
<1>3. ASSUME Request(t)
      PROVE  changes' \in 0..MaxChanges
  BY <1>3 DEF Request, Types, Parameters
<1>4. CASE Create(t)
  <2>1. PICK l \in Custom, id \in Added :
          /\ row' = [row EXCEPT ![l] = id]
          /\ counted' = [counted EXCEPT ![l] = FALSE]
          /\ sub' = IF l \in sub THEN sub
                    ELSE Known(sub \cup {l}, [row EXCEPT ![l] = id])
          /\ wish' = wish \cup {l}
          /\ thread' = [thread EXCEPT ![t] =
               [Idle EXCEPT !.pc = "clear", !.list = {l}]]
          /\ edited' = IF \E u \in Threads : ReadAnother(u, l, id)
                       THEN edited \cup {l} ELSE edited
    BY <1>4 DEF Create
  <2>2. /\ thread' \in [Threads -> ThreadType] /\ OthersStay(t)
        /\ thread'[t].pc = "clear"
        /\ thread'[t].todo = {} /\ thread'[t].list = {l}
    BY <1>1, <2>1, CreateIs
  <2>3. l \in Configured /\ id \in Rosters
    BY <1>2 DEF Parameters
  <2>4. row' \in [Configured -> Rosters] /\ counted' \in [Configured -> BOOLEAN]
    BY <2>1, <2>3 DEF Types
  <2>5. sub' \subseteq Leagues /\ wish' \subseteq Leagues /\ edited' \subseteq Leagues
    BY <1>2, <2>1, <2>3 DEF Types, Known
  <2>6. Types'
    BY <1>3, <1>4, <2>2, <2>4, <2>5 DEF Create, Request, Types, traces
  <2>7. Standing(t)'
    BY <2>2, <2>3 DEF Standing
  <2>8. QED
    BY <1>1, <2>2, <2>6, <2>7, StandsKept
<1>5. CASE Edit(t)
  <2>1. PICK l \in Custom, id \in Ids :
          row' = [row EXCEPT ![l] = id] /\ edited' = edited \cup {l}
    BY <1>5 DEF Edit
  <2>2. row' \in [Configured -> Rosters] /\ edited' \subseteq Leagues
    BY <1>2, <2>1 DEF Types
  <2>3. Types'
    BY <1>3, <1>5, <2>2 DEF Edit, Request, Types, traces
  <2>4. QED
    BY <1>5, <2>3 DEF Edit, Stands, Standing
<1>6. CASE Delete(t)
  <2>1. PICK l \in Custom :
          /\ row' = [row EXCEPT ![l] = 0]
          /\ counted' = [counted EXCEPT ![l] = FALSE]
          /\ teams' = [teams EXCEPT ![l] = 0]
          /\ entries' = entries \ {l}
          /\ wish' = wish \ {l}
          /\ edited' = edited \ {l}
    BY <1>6 DEF Delete
  <2>2. row' \in [Configured -> Rosters] /\ counted' \in [Configured -> BOOLEAN]
        /\ teams' \in [Configured -> Rosters]
    BY <1>2, <2>1 DEF Types
  <2>3. entries' \subseteq Leagues /\ wish' \subseteq Leagues /\ edited' \subseteq Leagues
    BY <2>1 DEF Types
  <2>4. Types'
    BY <1>3, <1>6, <2>2, <2>3 DEF Delete, Request, Types, traces
  <2>5. QED
    BY <1>6, <2>4 DEF Delete, Stands, Standing
<1>7. CASE Subscribe(t)
  <2>1. PICK l \in Shown \cup sub :
          /\ sub' \in {Known(sub \cup {l}, row), Known(sub \ {l}, row)}
          /\ wish' \in {wish \cup {l}, wish \ {l}}
    BY <1>7 DEF Subscribe
  <2>2. l \in Leagues
    BY <1>2 DEF Shown, Types
  <2>3. sub' \subseteq Leagues /\ wish' \subseteq Leagues
    BY <2>1, <2>2 DEF Types, Known
  <2>4. Types'
    BY <1>3, <1>7, <2>3 DEF Subscribe, Request, Types, traces
  <2>5. QED
    BY <1>7, <2>4 DEF Subscribe, Stands, Standing
<1>8. CASE Resolve(t)
  <2>1. \/ thread' = [thread EXCEPT ![t] = Idle]
        \/ Goto(t, "scoped")
    BY <1>8 DEF Resolve
  <2>2. /\ thread' \in [Threads -> ThreadType] /\ OthersStay(t)
        /\ \/ thread'[t].list = {} /\ thread'[t].todo = {}
           \/ thread'[t].list = thread[t].list /\ thread'[t].todo = thread[t].todo
    BY <1>1, <2>1, GotoIs, RestIs DEF Pcs
  <2>3. Types'
    BY <1>8, <2>2 DEF Resolve, Types, rows, history, traces
  <2>4. Standing(t)'
    BY <1>1, <2>2 DEF Standing
  <2>5. QED
    BY <1>1, <2>2, <2>3, <2>4, StandsKept
<1>9. CASE FetchOne(t)
  <2>1. /\ thread' \in [Threads -> ThreadType] /\ OthersStay(t)
        /\ thread'[t].todo = thread[t].todo /\ thread'[t].list = thread[t].list
        /\ client' \in [Configured -> {{}} \cup {{r} : r \in Rosters}]
        /\ faults' \in 0..MaxFaults
    BY <1>1, <1>9, FetchOneIs
  <2>2. Types'
    BY <1>9, <2>1 DEF FetchOne, Types, rows, traces
  <2>3. Standing(t)'
    BY <1>1, <2>1 DEF Standing
  <2>4. QED
    BY <1>1, <2>1, <2>2, <2>3, StandsKept
<1>10. CASE Write(t)
  <2>1. PICK l \in thread[t].list :
          /\ teams' = [teams EXCEPT ![l] = thread[t].got[l]]
          /\ entries' = entries \cup {l}
          /\ counted' = [counted EXCEPT
                 ![l] = IF row[l] # 0 THEN thread[t].got[l] # 0 ELSE @]
    BY <1>10 DEF Write
  <2>2. /\ thread' \in [Threads -> ThreadType] /\ OthersStay(t)
        /\ thread'[t].todo = {} /\ thread'[t].list = {}
    BY <1>1, <1>10, RestIs DEF Write
  <2>3. l \in Configured /\ l \in Leagues /\ thread[t] \in ThreadType
    BY <1>1, <1>2 DEF Standing, Types
  <2>4. teams' \in [Configured -> Rosters] /\ entries' \subseteq Leagues
    BY <2>1, <2>3 DEF Types, ThreadType
  <2>5. counted' \in [Configured -> BOOLEAN]
    BY <2>1, <2>3 DEF Types
  <2>6. Types'
    BY <1>10, <2>2, <2>4, <2>5 DEF Write, Types, history, traces
  <2>7. Standing(t)'
    BY <2>2 DEF Standing
  <2>8. QED
    BY <1>1, <2>2, <2>6, <2>7, StandsKept
<1>11. QED
  BY <1>4, <1>5, <1>6, <1>7, <1>8, <1>9, <1>10 DEF Scoped

\* What a thread is after a start, and what the client keeps then.
LEMMA FreshIs ==
    ASSUME Parameters, NEW pc \in {"flag", "clear"}
    PROVE  /\ [t \in Threads |-> IF t \in Manual
                 THEN [Idle EXCEPT !.pc = pc] ELSE Idle]
                \in [Threads -> ThreadType]
           /\ [Idle EXCEPT !.pc = pc].pc = pc
           /\ [Idle EXCEPT !.pc = pc].list = {}
           /\ [Idle EXCEPT !.pc = pc].todo = {}
           /\ [l \in Configured |-> {}]
                \in [Configured -> {{}} \cup {{r} : r \in Rosters}]
<1>1. [Idle EXCEPT !.pc = pc] \in ThreadType
  BY IdleIs DEF ThreadType, Pcs
<1>2. QED
  BY <1>1, IdleIs DEF ThreadType

LEMMA TimeTypes ==
    ASSUME Parameters, Types, Stands, Age \/ Expire \/ Restart
    PROVE  Types' /\ Stands'
<1>1. CASE Age
  BY <1>1 DEF Age, Types, Stands, Standing, memory, history, traces
<1>2. CASE Expire
  BY <1>2, FreshIs DEF Expire, Types, Stands, Standing, rows, history, traces
<1>3. CASE Restart
  <2>1. PICK pc \in {"flag", "clear"} :
          /\ thread' = [t \in Threads |-> IF t \in Manual
                          THEN [Idle EXCEPT !.pc = pc] ELSE Idle]
          /\ left' = (left \/ (flag /\ pc = "clear"))
    BY <1>3 DEF Restart
  <2>2. faults' \in 0..MaxFaults /\ left' \in BOOLEAN
    BY <1>3, <2>1 DEF Restart, Types, Parameters
  <2>3. thread' \in [Threads -> ThreadType]
        /\ client' \in [Configured -> {{}} \cup {{r} : r \in Rosters}]
    BY <1>3, <2>1, FreshIs DEF Restart
  <2>4. Types'
    BY <1>3, <2>2, <2>3 DEF Restart, Types, rows
  <2>5. \A t \in Threads : thread'[t].list = {} /\ thread'[t].todo = {}
    BY <2>1, FreshIs, IdleIs
  <2>6. QED
    BY <2>4, <2>5 DEF Stands, Standing
<1>4. QED
  BY <1>1, <1>2, <1>3

LEMMA TypesStep ==
    ASSUME Parameters, Types, Stands, [Next]_vars
    PROVE  Types' /\ Stands'
<1>1. CASE UNCHANGED vars
  BY <1>1 DEF vars, rows, memory, history, traces, Types, Stands, Standing
<1>2. Manual \subseteq Threads /\ Requests \subseteq Threads
      /\ Manual \subseteq Refreshers /\ Daily \subseteq Refreshers
  BY DEF Threads, Refreshers
<1>3. CASE Next
  BY <1>2, <1>3, RefreshTypes, ReloadTypes, RequestTypes, TimeTypes DEF Next
<1>4. QED
  BY <1>1, <1>3

LEMMA TypesInit ==
    ASSUME Parameters, Init
    PROVE  Types /\ Stands
<1>1. PICK added \in {{}, Custom} :
        /\ row = [l \in Configured |-> IF l \in Builtin \cup added THEN 1 ELSE 0]
        /\ teams = [l \in Configured |-> IF l \in Seed \cup added THEN 1 ELSE 0]
        /\ entries = Seed \cup added \cup (IF added = {} THEN {} ELSE Found)
        /\ sub = added /\ wish = added
  BY DEF Init
<1>2. 0 \in Rosters /\ 1 \in Rosters
  BY DEF Rosters, Ids, Parameters
<1>3. row \in [Configured -> Rosters] /\ teams \in [Configured -> Rosters]
      /\ map \in [Configured -> Rosters]
  BY <1>1, <1>2 DEF Init
<1>4. /\ entries \subseteq Leagues /\ sub \subseteq Leagues
      /\ wish \subseteq Leagues /\ edited \subseteq Leagues
  BY <1>1 DEF Init, Leagues, Configured, Parameters
<1>5. counted \in [Configured -> BOOLEAN]
  BY DEF Init
<1>6. changes \in 0..MaxChanges /\ faults \in 0..MaxFaults
  BY DEF Init, Parameters
<1>7. Types
  <2>1. thread \in [Threads -> ThreadType]
        /\ client \in [Configured -> {{}} \cup {{r} : r \in Rosters}]
    BY FreshIs DEF Init
  <2>2. QED
    BY <1>3, <1>4, <1>5, <1>6, <2>1 DEF Init, Types
<1>8. \A t \in Threads : thread[t].list = {} /\ thread[t].todo = {}
  BY FreshIs, IdleIs DEF Init
<1>9. QED
  BY <1>7, <1>8 DEF Stands, Standing

-----------------------------------------------------------------------------
(* Steps that leave most as it is *)

\* A thread that is not at a reload disturbs none.
LEMMA ReloadsKept ==
    ASSUME Complete, Unedited, NEW t \in Threads, OthersStay(t),
           thread[t].pc \notin {"clear", "query", "fill"},
           thread'[t].pc # "fill",
           row' = row, map' = map, edited' = edited, torn' = torn
    PROVE  Complete' /\ Unedited'
<1>1. \A u \in Threads, l \in Configured : Filling(u, l) => Filling(u, l)'
  BY DEF Filling, OthersStay
<1>2. \A u \in Threads, l \in Configured :
        ReadAnother(u, l, row[l])' => ReadAnother(u, l, row[l])
  BY DEF ReadAnother, OthersStay
<1>3. Clearing => Clearing'
  BY DEF Clearing, OthersStay
<1>4. Complete'
  BY <1>1 DEF Complete
<1>5. Unedited'
  BY <1>2, <1>3 DEF Unedited
<1>6. QED
  BY <1>4, <1>5

\* What was chosen stays when the directory grows.
LEMMA ChoiceKept ==
    ASSUME Chosen, wish' = wish, sub' = sub, row' = row, holed' = holed,
           entries \subseteq entries'
    PROVE  Chosen'
BY DEF Chosen, Missing

\* The flag keeps its thread as long as that is at work.
Working(t) ==
    thread[t].pc \in {"flag", "list", "fetch", "save", "meta", "unflag"}

LEMMA FlagKept ==
    ASSUME FlagHasThread, flag' = flag, left' = left, NEW t \in Threads, OthersStay(t),
           t \in Refreshers /\ Working(t) => Working(t)'
    PROVE  FlagHasThread'
<1>1. \A u \in Refreshers : Working(u) => Working(u)'
  BY DEF Working, OthersStay, Threads
<1>2. QED
  BY <1>1 DEF FlagHasThread, Working

-----------------------------------------------------------------------------
(* Full refreshes *)

LEMMA RefreshStep ==
    ASSUME Parameters, IInv, NEW t \in Refreshers,
           Press(t) \/ Due(t) \/ Refresh(t)
    PROVE  Complete' /\ Unedited' /\ Chosen' /\ FlagHasThread'
<1> USE DEF IInv
<1>1. t \in Threads /\ Standing(t)
  BY DEF Threads, Stands
<1>2. CASE Press(t) \/ Due(t)
  <2>1. Start(t) /\ Goto(t, "flag") /\ thread[t].pc = "idle"
    BY <1>2 DEF Press, Due, Start
  <2>2. OthersStay(t) /\ thread'[t].pc = "flag"
    BY <1>1, <2>1, GotoIs DEF Pcs
  <2>3. UNCHANGED <<row, map, edited, wish, sub, holed, entries, flag, torn, left>>
    BY <2>1 DEF Start, rows, traces
  <2>4. QED
    BY <1>1, <2>1, <2>2, <2>3, ReloadsKept, ChoiceKept, FlagKept DEF Working
<1>3. CASE List(t)
  <2>1. OthersStay(t) /\ thread'[t].pc = "fetch" /\ thread[t].pc = "list"
    BY <1>1, <1>3, ListIs DEF List
  <2>2. UNCHANGED <<row, map, edited, wish, sub, holed, entries, flag, torn, left>>
    BY <1>3 DEF List, rows, traces
  <2>3. QED
    BY <1>1, <2>1, <2>2, ReloadsKept, ChoiceKept, FlagKept DEF Working
<1>4. CASE Fetch(t)
  <2>1. OthersStay(t) /\ thread'[t].pc \in {"fetch", "save"} /\ thread[t].pc = "fetch"
    BY <1>1, <1>4, FetchIs DEF Fetch
  <2>2. UNCHANGED <<row, map, edited, wish, sub, holed, entries, flag, torn, left>>
    BY <1>4 DEF Fetch, rows, traces
  <2>3. QED
    BY <1>1, <2>1, <2>2, ReloadsKept, ChoiceKept, FlagKept DEF Working
<1>5. CASE NothingListed(t)
  <2>1. OthersStay(t) /\ thread'[t].pc = "save" /\ thread[t].pc = "fetch"
    BY <1>1, <1>5, GotoIs DEF NothingListed, Pcs
  <2>2. UNCHANGED <<row, map, edited, wish, sub, holed, entries, flag, torn, left>>
    BY <1>5 DEF NothingListed, rows, history, traces
  <2>3. QED
    BY <1>1, <2>1, <2>2, ReloadsKept, ChoiceKept, FlagKept DEF Working
<1>6. CASE Save(t)
  <2>1. OthersStay(t) /\ thread'[t].pc = "meta" /\ thread[t].pc = "save"
    BY <1>1, <1>6, GotoIs DEF Save, Pcs
  <2>2. UNCHANGED <<row, map, edited, wish, sub, flag, torn, left>>
    BY <1>6 DEF Save, traces
  <2>3. Complete' /\ Unedited' /\ FlagHasThread'
    BY <1>1, <2>1, <2>2, ReloadsKept, FlagKept DEF Working
  <2>4. (holed => holed') /\ (holed' \/ Found \subseteq entries')
    BY <1>6 DEF Save
  <2>5. Chosen'
    BY <2>2, <2>4 DEF Chosen, Missing
  <2>6. QED
    BY <2>3, <2>5
<1>7. CASE Raise(t)
  <2>1. /\ OthersStay(t) /\ thread'[t].pc \in {"meta", "idle"}
        /\ thread'[t].pc = "idle" => left' = (left \/ flag)
        /\ thread'[t].pc = "meta" => left' = left
    BY <1>1, <1>7, RaiseIs
  <2>2. /\ UNCHANGED <<row, map, edited, wish, sub, holed, entries, flag, torn>>
        /\ thread[t].pc \in {"flag", "save", "meta", "unflag"}
    BY <1>7 DEF Raise, rows
  <2>3. Complete' /\ Unedited' /\ Chosen'
    BY <1>1, <2>1, <2>2, ReloadsKept, ChoiceKept
  <2>4. CASE thread'[t].pc = "idle"
    BY <2>1, <2>2, <2>3, <2>4 DEF FlagHasThread
  <2>5. CASE thread'[t].pc = "meta"
    BY <1>1, <2>1, <2>2, <2>3, <2>5, FlagKept DEF Working
  <2>6. QED
    BY <2>1, <2>4, <2>5
<1>8. CASE Meta(t)
  <2>1. OthersStay(t) /\ thread'[t].pc = "unflag" /\ thread[t].pc = "meta"
    BY <1>1, <1>8, GotoIs DEF Meta, Pcs
  <2>2. UNCHANGED <<row, map, edited, wish, sub, holed, entries, flag, torn, left>>
    BY <1>8 DEF Meta, history, traces
  <2>3. QED
    BY <1>1, <2>1, <2>2, ReloadsKept, ChoiceKept, FlagKept DEF Working
<1>9. CASE Flag(t)
  <2>1. OthersStay(t) /\ thread'[t].pc = "list" /\ thread[t].pc = "flag"
    BY <1>1, <1>9, GotoIs DEF Flag, Pcs
  <2>2. UNCHANGED <<row, map, edited, wish, sub, holed, entries, torn>>
    BY <1>9 DEF Flag, history, traces
  <2>3. FlagHasThread'
    BY <2>1 DEF FlagHasThread
  <2>4. QED
    BY <1>1, <2>1, <2>2, <2>3, ReloadsKept, ChoiceKept
<1>10. CASE NoProviders(t) \/ Unflag(t)
  <2>1. /\ OthersStay(t) /\ thread'[t].pc \in {"clear", "idle"}
        /\ thread[t].pc \in {"list", "unflag"}
    BY <1>1, <1>10, DoneIs DEF NoProviders, Unflag
  <2>2. UNCHANGED <<row, map, edited, wish, sub, holed, entries, torn>>
    BY <1>10 DEF NoProviders, Unflag, rows
  <2>3. flag' = FALSE \/ (flag' = flag /\ left' = (left \/ flag))
    BY <1>10 DEF NoProviders, Unflag, rows
  <2>4. FlagHasThread'
    BY <2>3 DEF FlagHasThread
  <2>5. QED
    BY <1>1, <2>1, <2>2, <2>4, ReloadsKept, ChoiceKept
<1>11. QED
  BY <1>2, <1>3, <1>4, <1>5, <1>6, <1>7, <1>8, <1>9, <1>10 DEF Refresh

-----------------------------------------------------------------------------
(* Reloads of the mapping *)

LEMMA ReloadStep ==
    ASSUME Parameters, IInv, NEW t \in Threads, Reload(t)
    PROVE  Complete' /\ Unedited' /\ Chosen' /\ FlagHasThread'
<1> USE DEF IInv
<1>1. OthersStay(t) /\ ~Working(t)
  BY GotoIs, QueryIs, FillIs, RestIs
  DEF Reload, Clear, Query, QueryFails, Fill, Working, Pcs
<1>2. UNCHANGED <<row, edited, wish, sub, holed, entries, flag, left>>
  BY DEF Reload, Clear, Query, QueryFails, Fill, rows, history, traces
<1>3. Chosen' /\ FlagHasThread'
  BY <1>1, <1>2, ChoiceKept, FlagKept
<1>4. CASE Clear(t)
  <2>1. thread'[t].pc = "query" /\ \A l \in Configured : map'[l] = 0
    BY <1>4, GotoIs DEF Clear, Pcs, NoRoster
  <2>2. Complete'
    BY <2>1 DEF Complete, Filling
  <2>3. \A u \in Threads, l \in Configured :
          ReadAnother(u, l, row[l])' => ReadAnother(u, l, row[l])
    BY <1>1, <1>2, <2>1 DEF ReadAnother, OthersStay
  <2>4. Unedited'
    BY <1>2, <2>1, <2>3 DEF Unedited
  <2>5. QED
    BY <1>3, <2>2, <2>4
<1>5. CASE Query(t)
  <2>1. thread'[t].pc = "fill" /\ thread'[t].snap = row /\ thread[t].pc = "query"
        /\ map' = map
    BY <1>5, QueryIs DEF Query
  <2>2. Complete'
    BY <1>2, <2>1 DEF Complete, Filling
  <2>3. \A u \in Threads, l \in Configured :
          ReadAnother(u, l, row[l])' => ReadAnother(u, l, row[l])
    BY <1>1, <1>2, <2>1 DEF ReadAnother, OthersStay
  <2>4. Clearing => Clearing'
    BY <1>1, <2>1 DEF Clearing, OthersStay
  <2>5. Unedited'
    BY <1>2, <2>1, <2>3, <2>4 DEF Unedited
  <2>6. QED
    BY <1>3, <2>2, <2>5
<1>6. CASE Fill(t)
  <2>1. /\ thread[t].pc = "fill" /\ thread'[t].pc \notin {"clear", "query", "fill"}
        /\ \A l \in Configured :
             map'[l] = IF thread[t].snap[l] # 0 THEN thread[t].snap[l] ELSE map[l]
    <3>1. thread[t].pc = "fill"
      BY <1>6 DEF Fill
    <3>2. thread'[t].pc \in {"resolve", "idle"}
      BY <1>6, FillIs
    <3>3. \A l \in Configured :
            map'[l] = IF thread[t].snap[l] # 0 THEN thread[t].snap[l] ELSE map[l]
      BY <1>6, FillIs
    <3>4. QED
      BY <3>1, <3>2, <3>3
  <2>2. ASSUME ~torn, NEW l \in Configured, row[l] # 0, map'[l] = 0
        PROVE  \E u \in Threads : Filling(u, l)'
    <3>1. map[l] = 0 /\ thread[t].snap[l] = 0
      BY <2>1, <2>2
    <3>2. PICK u \in Threads : Filling(u, l)
      BY <2>2, <3>1 DEF Complete
    <3>3. u # t
      BY <2>1, <3>1, <3>2 DEF Filling
    <3>4. QED
      BY <1>1, <3>2, <3>3 DEF Filling, OthersStay
  <2>3. Complete'
    <3>1. torn' = torn
      BY <1>6 DEF Fill, history, traces
    <3>2. QED
      BY <1>2, <2>2, <3>1 DEF Complete
  <2>4. \A u \in Threads, l \in Configured :
          ReadAnother(u, l, row[l])' => ReadAnother(u, l, row[l])
    BY <1>1, <1>2, <2>1 DEF ReadAnother, OthersStay
  <2>5. Clearing => Clearing'
    BY <1>1, <2>1 DEF Clearing, OthersStay
  <2>6. ASSUME NEW l \in Configured \ edited, row[l] # 0
        PROVE  map'[l] \in {0, row[l]} \/ Clearing
    <3>1. ~ReadAnother(t, l, row[l]) /\ (map[l] \in {0, row[l]} \/ Clearing)
      BY <2>6 DEF Unedited
    <3>2. thread[t].snap[l] \in {0, row[l]}
      BY <2>1, <3>1 DEF ReadAnother
    <3>3. QED
      BY <2>1, <3>1, <3>2
  <2>7. Unedited'
    BY <1>2, <2>4, <2>5, <2>6 DEF Unedited
  <2>8. QED
    BY <1>3, <2>3, <2>7
<1>7. CASE QueryFails(t)
  <2>1. /\ thread[t].pc = "query" /\ thread'[t].pc = "idle"
        /\ map' = map /\ torn' = TRUE
    BY <1>7, RestIs DEF QueryFails
  <2>2. Complete'
    BY <2>1 DEF Complete
  <2>3. \A u \in Threads, l \in Configured :
          ReadAnother(u, l, row[l])' => ReadAnother(u, l, row[l])
    BY <1>1, <1>2, <2>1 DEF ReadAnother, OthersStay
  <2>4. Clearing => Clearing'
    BY <1>1, <2>1 DEF Clearing, OthersStay
  <2>5. Unedited'
    BY <1>2, <2>1, <2>3, <2>4 DEF Unedited
  <2>6. QED
    BY <1>3, <2>2, <2>5
<1>8. QED
  BY <1>4, <1>5, <1>6, <1>7 DEF Reload

-----------------------------------------------------------------------------
(* Requests *)

\* A saved subscription keeps what it had and the directory or the table knows.
LEMMA KnownIs ==
    ASSUME NEW s, NEW r, NEW x \in s,
           x \in entries \/ (x \in Configured /\ r[x] # 0)
    PROVE  x \in Known(s, r)
BY DEF Known

LEMMA CreateStep ==
    ASSUME Parameters, IInv, NEW t \in Requests, Create(t)
    PROVE  Complete' /\ Unedited' /\ Chosen' /\ FlagHasThread'
<1> USE DEF IInv
<1>1. t \in Threads /\ t \notin Refreshers
  BY DEF Threads, Parameters
<1>2. PICK l \in Custom, id \in Added :
        /\ row[l] = 0
        /\ row' = [row EXCEPT ![l] = id]
        /\ sub' = IF l \in sub THEN sub
                  ELSE Known(sub \cup {l}, [row EXCEPT ![l] = id])
        /\ wish' = wish \cup {l}
        /\ thread' = [thread EXCEPT ![t] =
             [Idle EXCEPT !.pc = "clear", !.list = {l}]]
        /\ edited' = IF \E u \in Threads : ReadAnother(u, l, id)
                     THEN edited \cup {l} ELSE edited
  BY DEF Create
<1>3. OthersStay(t) /\ thread'[t].pc = "clear"
  BY <1>1, <1>2, CreateIs
<1>4. /\ l \in Configured /\ l \notin Found /\ id # 0 /\ row'[l] = id
      /\ \A x \in Configured \ {l} : row'[x] = row[x]
  BY <1>2 DEF Configured, Parameters, Ids, Types
<1>5. /\ UNCHANGED <<map, flag, holed, entries, left>> /\ thread[t].pc = "idle"
  BY DEF Create, Request, traces
<1>6. Complete'
  BY <1>1, <1>3 DEF Complete, Filling
<1>7. Unedited'
  <2>1. ASSUME NEW x \in Configured \ edited', NEW u \in Threads, row'[x] # 0
        PROVE  ~ReadAnother(u, x, row[x])'
    <3>1. CASE u = t
      BY <1>3, <3>1 DEF ReadAnother
    <3>2. CASE u # t /\ x = l
      <4>1. ~ReadAnother(u, l, id)
        BY <1>2, <2>1, <3>2
      <4>2. QED
        BY <1>3, <1>4, <3>2, <4>1 DEF ReadAnother, OthersStay
    <3>3. CASE u # t /\ x # l
      <4>1. x \notin edited /\ row'[x] = row[x]
        BY <1>2, <1>4, <2>1, <3>3
      <4>2. ~ReadAnother(u, x, row[x])
        BY <2>1, <4>1 DEF Unedited
      <4>3. QED
        BY <1>3, <3>3, <4>1, <4>2 DEF ReadAnother, OthersStay
    <3>4. QED
      BY <3>1, <3>2, <3>3
  <2>2. Clearing'
    BY <1>1, <1>3 DEF Clearing
  <2>3. QED
    BY <2>1, <2>2 DEF Unedited
<1>8. Chosen'
  <2>1. l \in sub'
    BY <1>2, <1>4, KnownIs
  <2>2. ASSUME NEW x \in wish, x # l
        PROVE  x \in sub' \/ Missing(x)'
    <3>1. Missing(x) => Missing(x)'
      BY <1>4, <1>5, <2>2 DEF Missing
    <3>2. CASE x \in sub /\ l \in sub
      BY <1>2, <3>2
    <3>3. CASE x \in sub /\ l \notin sub
      <4>1. sub' = Known(sub \cup {l}, row')
        BY <1>2, <3>3
      <4>2. x \in entries \/ (x \in Configured /\ row'[x] # 0) => x \in sub'
        BY <3>3, <4>1, KnownIs
      <4>3. x \in Found => x \in entries \/ holed
        BY DEF Chosen
      <4>4. x \in Leagues
        BY DEF Types
      <4>5. QED
        BY <1>5, <4>2, <4>3, <4>4 DEF Missing, Leagues
    <3>4. QED
      BY <3>1, <3>2, <3>3 DEF Chosen
  <2>3. QED
    BY <1>2, <1>4, <1>5, <2>1, <2>2 DEF Chosen
<1>9. FlagHasThread'
  BY <1>1, <1>3, <1>5, FlagKept
<1>10. QED
  BY <1>6, <1>7, <1>8, <1>9

\* Requests that leave the threads as they are.
LEMMA EditStep ==
    ASSUME Parameters, IInv, NEW t \in Requests,
           Edit(t) \/ Delete(t) \/ Subscribe(t)
    PROVE  Complete' /\ Unedited' /\ Chosen' /\ FlagHasThread'
<1> USE DEF IInv
<1>1. UNCHANGED <<thread, map, flag, holed, torn, left>>
  BY DEF Edit, Delete, Subscribe, Request, traces
<1>2. FlagHasThread'
  BY <1>1 DEF FlagHasThread
<1>3. CASE Edit(t)
  <2>1. PICK l \in Custom, id \in Ids :
          /\ row[l] # 0
          /\ row' = [row EXCEPT ![l] = id] /\ edited' = edited \cup {l}
    BY <1>3 DEF Edit
  <2>2. /\ l \in Configured /\ row'[l] # 0
        /\ \A x \in Configured \ {l} : row'[x] = row[x]
    BY <2>1 DEF Configured, Ids, Types
  <2>3. Complete'
    BY <1>1, <2>1, <2>2 DEF Complete, Filling
  <2>4. Unedited'
    BY <1>1, <2>1, <2>2 DEF Unedited, ReadAnother, Clearing
  <2>5. UNCHANGED <<wish, sub, entries>>
    BY <1>3 DEF Edit
  <2>6. Chosen'
    BY <1>1, <2>1, <2>2, <2>5 DEF Chosen, Missing
  <2>7. QED
    BY <1>2, <2>3, <2>4, <2>6
<1>4. CASE Delete(t)
  <2>1. PICK l \in Custom :
          /\ row' = [row EXCEPT ![l] = 0]
          /\ entries' = entries \ {l}
          /\ wish' = wish \ {l}
          /\ edited' = edited \ {l}
    BY <1>4 DEF Delete
  <2>2. /\ l \in Configured /\ l \notin Found /\ row'[l] = 0
        /\ \A x \in Configured \ {l} : row'[x] = row[x]
    BY <2>1 DEF Configured, Parameters, Types
  <2>3. Complete'
    BY <1>1, <2>2 DEF Complete, Filling
  <2>4. Unedited'
    BY <1>1, <2>1, <2>2 DEF Unedited, ReadAnother, Clearing
  <2>5. sub' = sub
    BY <1>4 DEF Delete
  <2>6. Chosen'
    BY <1>1, <2>1, <2>2, <2>5 DEF Chosen, Missing
  <2>7. QED
    BY <1>2, <2>3, <2>4, <2>6
<1>5. CASE Subscribe(t)
  <2>1. UNCHANGED <<row, edited, entries>>
    BY <1>5 DEF Subscribe
  <2>2. Complete' /\ Unedited'
    BY <1>1, <2>1 DEF Complete, Filling, Unedited, ReadAnother, Clearing
  <2>3. ASSUME NEW x, NEW s, sub' = Known(s, row), x \in s, x \in Leagues,
               x \in Found => x \in entries \/ holed
        PROVE  x \in sub' \/ Missing(x)
    BY <2>3, KnownIs DEF Missing, Leagues
  <2>4. CASE \E l \in Shown \ sub :
               sub' = Known(sub \cup {l}, row) /\ wish' = wish \cup {l}
    <3>1. PICK l \in Shown \ sub :
            sub' = Known(sub \cup {l}, row) /\ wish' = wish \cup {l}
      BY <2>4
    <3>2. l \in Leagues /\ (l \in Found => l \in entries)
      BY DEF Shown, Types, Leagues, Parameters
    <3>3. ASSUME NEW x \in wish'
          PROVE  (x \in sub' \/ Missing(x)) /\ (x \in Found => x \in entries \/ holed)
      <4>1. x \in Leagues /\ (x \in Found => x \in entries \/ holed)
        BY <3>1, <3>2 DEF Chosen, Types
      <4>2. x \in sub \cup {l} \/ Missing(x)
        BY <3>1 DEF Chosen
      <4>3. QED
        BY <2>3, <3>1, <4>1, <4>2
    <3>4. QED
      BY <1>1, <1>2, <2>1, <2>2, <3>3 DEF Chosen, Missing
  <2>5. CASE \E l \in sub :
               sub' = Known(sub \ {l}, row) /\ wish' = wish \ {l}
    <3>1. PICK l \in sub :
            sub' = Known(sub \ {l}, row) /\ wish' = wish \ {l}
      BY <2>5
    <3>2. ASSUME NEW x \in wish'
          PROVE  (x \in sub' \/ Missing(x)) /\ (x \in Found => x \in entries \/ holed)
      <4>1. x \in Leagues /\ (x \in Found => x \in entries \/ holed)
        BY <3>1 DEF Chosen, Types
      <4>2. x \in sub \ {l} \/ Missing(x)
        BY <3>1 DEF Chosen
      <4>3. QED
        BY <2>3, <3>1, <4>1, <4>2
    <3>3. QED
      BY <1>1, <1>2, <2>1, <2>2, <3>2 DEF Chosen, Missing
  <2>6. QED
    BY <1>5, <2>4, <2>5 DEF Subscribe
<1>6. QED
  BY <1>3, <1>4, <1>5

LEMMA ScopedStep ==
    ASSUME Parameters, IInv, NEW t \in Requests, Scoped(t)
    PROVE  Complete' /\ Unedited' /\ Chosen' /\ FlagHasThread'
<1> USE DEF IInv
<1>1. t \in Threads /\ t \notin Refreshers /\ Standing(t)
  BY DEF Threads, Parameters, Stands
<1>2. /\ thread[t].pc \in {"resolve", "scoped", "write"} /\ OthersStay(t)
      /\ thread'[t].pc \in {"idle", "scoped", "write"}
  <2>1. CASE Resolve(t)
    <3>1. thread' = [thread EXCEPT ![t] = Idle] \/ Goto(t, "scoped")
      BY <2>1 DEF Resolve
    <3>2. OthersStay(t) /\ thread'[t].pc \in {"idle", "scoped"}
      BY <1>1, <3>1, GotoIs, RestIs DEF Pcs
    <3>3. QED
      BY <2>1, <3>2 DEF Resolve
  <2>2. CASE FetchOne(t)
    BY <1>1, <2>2, FetchOneIs DEF FetchOne
  <2>3. CASE Write(t)
    BY <1>1, <2>3, RestIs DEF Write
  <2>4. QED
    BY <2>1, <2>2, <2>3 DEF Scoped
<1>3. UNCHANGED <<row, map, edited, wish, sub, holed, flag, torn, left>>
  BY DEF Scoped, Resolve, FetchOne, Write, rows, history, traces
<1>4. entries \subseteq entries'
  BY DEF Scoped, Resolve, FetchOne, Write, rows
<1>5. QED
  BY <1>1, <1>2, <1>3, <1>4, ReloadsKept, ChoiceKept, FlagKept

-----------------------------------------------------------------------------
(* Time, restarts and the start *)

LEMMA TimeStep ==
    ASSUME Parameters, IInv, Age \/ Expire \/ Restart
    PROVE  Complete' /\ Unedited' /\ Chosen' /\ FlagHasThread'
<1> USE DEF IInv
<1>1. CASE Age \/ Expire
  <2>1. UNCHANGED <<row, map, thread, edited, wish, sub, holed, entries, flag,
                    torn, left>>
    BY <1>1 DEF Age, Expire, rows, memory, history, traces
  <2>2. QED
    BY <2>1 DEF Complete, Filling, Unedited, ReadAnother, Clearing, Chosen,
         Missing, FlagHasThread
<1>2. CASE Restart
  <2>0. PICK pc \in {"flag", "clear"} :
          /\ thread' = [t \in Threads |-> IF t \in Manual
                          THEN [Idle EXCEPT !.pc = pc] ELSE Idle]
          /\ left' = (left \/ (flag /\ pc = "clear"))
    BY <1>2 DEF Restart
  <2>1. /\ map' = row
        /\ UNCHANGED <<row, edited, wish, sub, holed, entries, flag>>
        /\ \A t \in Threads : thread'[t].pc = IF t \in Manual THEN pc ELSE "idle"
    BY <1>2, <2>0, FreshIs, IdleIs DEF Restart, rows
  <2>2. Complete' /\ Unedited'
    BY <2>1 DEF Complete, Unedited, ReadAnother
  <2>3. Chosen'
    BY <2>1, ChoiceKept
  <2>4. FlagHasThread'
    BY <2>0, <2>1 DEF FlagHasThread, Parameters, Refreshers, Threads
  <2>5. QED
    BY <2>2, <2>3, <2>4
<1>3. QED
  BY <1>1, <1>2

LEMMA InitIs ==
    ASSUME Parameters, Init
    PROVE  IInv
<1>1. Types /\ Stands
  BY TypesInit
<1>2. PICK added \in {{}, Custom} :
        /\ entries = Seed \cup added \cup (IF added = {} THEN {} ELSE Found)
        /\ sub = added /\ wish = added
  BY DEF Init
<1>3. \A t \in Threads : thread[t].pc = IF t \in Manual THEN "flag" ELSE "idle"
  BY FreshIs, IdleIs DEF Init
<1>4. map = row
  BY DEF Init
<1>5. Complete /\ Unedited
  BY <1>3, <1>4 DEF Complete, Unedited, ReadAnother
<1>6. Chosen
  BY <1>2 DEF Chosen
<1>7. FlagHasThread
  BY DEF FlagHasThread, Init
<1>8. QED
  BY <1>1, <1>5, <1>6, <1>7 DEF IInv

LEMMA Step ==
    ASSUME Parameters, IInv, [Next]_vars
    PROVE  IInv'
<1>1. Types' /\ Stands'
  BY TypesStep DEF IInv
<1>2. Complete' /\ Unedited' /\ Chosen' /\ FlagHasThread'
  <2>1. CASE UNCHANGED vars
    <3>1. UNCHANGED <<row, map, thread, edited, wish, sub, holed, entries, flag,
                      torn, left>>
      BY <2>1 DEF vars, rows, memory, history, traces
    <3>2. QED
      BY <3>1 DEF IInv, Complete, Filling, Unedited, ReadAnother, Clearing,
           Chosen, Missing, FlagHasThread
  <2>2. Manual \subseteq Threads /\ Requests \subseteq Threads
        /\ Manual \subseteq Refreshers /\ Daily \subseteq Refreshers
    BY DEF Threads, Refreshers
  <2>3. CASE Next
    BY <2>2, <2>3, RefreshStep, ReloadStep, CreateStep, EditStep, ScopedStep,
       TimeStep DEF Next
  <2>4. QED
    BY <2>1, <2>3
<1>3. QED
  BY <1>1, <1>2 DEF IInv

-----------------------------------------------------------------------------
(* The theorems *)

\* For any leagues, threads and bounds, every variable keeps its type.
THEOREM TypeCorrect == ASSUME Parameters PROVE Spec => []TypeOK
<1>1. Init => IInv
  BY InitIs
<1>2. IInv /\ [Next]_vars => IInv'
  BY Step
<1>3. IInv => TypeOK
  <2> SUFFICES ASSUME Types, Stands PROVE TypeOK
    BY DEF IInv
  <2>1. {row, map, teams} \subseteq [Configured -> Rosters]
    BY DEF Types
  <2>2. \A s \in {entries, sub, wish, edited} : s \subseteq Leagues
    BY DEF Types
  <2>3. \A l \in Configured : client[l] \in {{}} \cup {{r} : r \in Rosters}
    BY DEF Types
  <2>4. ASSUME NEW t \in Threads
        PROVE  /\ thread[t].pc \in Pcs
               /\ thread[t].todo \subseteq thread[t].list
               /\ {thread[t].got, thread[t].snap} \subseteq [Configured -> Rosters]
    <3>1. thread[t] \in ThreadType
      BY DEF Types
    <3>2. QED
      BY <3>1 DEF ThreadType, Stands, Standing
  <2>5. QED
    BY <2>1, <2>2, <2>3, <2>4 DEF Types, TypeOK
<1>4. QED
  BY <1>1, <1>2, <1>3, PTL DEF Spec

\* For any leagues, threads, requests and failures: what the user chose stays
\* in the subscription, the mapping is complete between reloads (unless the last
\* one could not query), and a refresh is shown in progress only while a thread
\* is at it, or after it was left in one of the three ways that the code has.
THEOREM DirectoryIsKeptHolds == ASSUME Parameters PROVE Spec => []DirectoryIsKept
<1>1. Init => IInv
  BY InitIs
<1>2. IInv /\ [Next]_vars => IInv'
  BY Step
<1>3. IInv => DirectoryIsKept
  <2> SUFFICES ASSUME IInv PROVE DirectoryIsKept
    OBVIOUS
  <2>1. WishesStay
    BY DEF IInv, Chosen, Missing, WishesStay
  <2>2. MappingIsComplete
    BY DEF IInv, Complete, Filling, Unedited, Clearing, MappingIsComplete, Reloading
  <2>3. QED
    BY <2>1, <2>2 DEF IInv, DirectoryIsKept
<1>4. QED
  BY <1>1, <1>2, <1>3, PTL DEF Spec

===============================================================================
