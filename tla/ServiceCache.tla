---------------------------- MODULE ServiceCache ----------------------------
(***************************************************************************)
(* The cache of provider answers (utilities/cache.py) and the lookups that *)
(* read through it (services/sports_data.py): entries live in memory until *)
(* they expire, a flush writes the changed ones to SQLite, a restart loads *)
(* what has not expired.  Threads of one process look up the same event    *)
(* and the same day of a league; who finds nothing fetches it under a lock *)
(* of that key.  What the provider tells is named by the time it is told.  *)
(* The memory is under one lock and the keys that a flush has to write or  *)
(* to remove under another, so that every operation on both is two steps.  *)
(***************************************************************************)
EXTENDS Naturals, FiniteSets

CONSTANTS
    Threads, Flushers,  \* who looks up, and who flushes
    EventTtl,   \* of one event
    Window,     \* in which refreshes share an answer (REFRESH_COALESCE_TTL)
    ListTtl,    \* of a past day with a game that is not final
    LongTtl,    \* of a past day otherwise
    MaxTime, MaxLookups, MaxFaults  \* bounds

None == 0       \* no lock

\* The event, the mark of its refresh, and a league's events of yesterday.
Event == "event"
Mark  == "mark"
List  == "list"
Keys  == {Event, Mark, List}

\* What a provider tells: of an event, nothing or its state; of a day, only
\* final games (or none) or others.
Kinds == {"none", "live"}
Entries == [kind : Kinds, asof : 0..MaxTime, until : Nat]
Absent == [kind |-> "absent", asof |-> 0, until |-> 0]

VARIABLES
    wanted,         \* what the threads look up: Event or List
    now,
    memory,         \* the entry of each key, or Absent
    disk,           \* the rows of service_cache
    dirty, deleted, \* keys to be written and removed by the next flush
    keylock,        \* the lock of the wanted key, or None
    holder,         \* of each lock, or None
    thread,         \* where each thread is
    flush,          \* where each flush is, and what it carries
    clearing,       \* what a clear has yet to empty: "keys", then "table"
    carried,        \* the mark in memory was loaded by a restart
    lookups, faults

pending == <<dirty, deleted>>
cache   == <<memory, pending, carried>>
locking == <<keylock, holder>>
bounds  == <<lookups, faults>>
vars == <<wanted, now, memory, disk, dirty, deleted, keylock, holder, thread,
          flush, clearing, carried, lookups, faults>>

Locks  == 1..(Cardinality(Threads) + 1)
Idle   == [op |-> "idle", pc |-> "idle", lock |-> None, told |-> Absent,
           begun |-> 0]
Asleep == [pc |-> "idle", dirty |-> {}, deleted |-> {}, rows |-> <<>>]

Init ==
    /\ wanted \in {Event, List}
    /\ now = 0 /\ lookups = 0 /\ faults = 0
    /\ clearing = "no" /\ carried = FALSE
    /\ memory = [k \in Keys |-> Absent] /\ disk = [k \in Keys |-> Absent]
    /\ dirty = {} /\ deleted = {}
    /\ keylock = None
    /\ holder = [l \in Locks |-> None]
    /\ thread = [t \in Threads |-> Idle]
    /\ flush = [f \in Flushers |-> Asleep]

Alive(e) == e # Absent /\ now <= e.until
At(t, pc) == thread[t].pc = pc
Goto(t, pc) == thread' = [thread EXCEPT ![t].pc = pc]
Ops == IF wanted = Event THEN {"refresh", "event"} ELSE {"list", "cached"}
Users(l) == {t \in Threads : thread[t].lock = l}

\* The second step of set and of delete.
ToWrite(key)  == dirty' = dirty \cup {key} /\ deleted' = deleted \ {key}
ToRemove(key) == deleted' = deleted \cup {key} /\ dirty' = dirty \ {key}

Ttl(key, kind) ==
    CASE key = Mark -> Window
      [] key = Event -> IF kind = "none" THEN Window ELSE EventTtl
      [] key = List -> IF kind = "live" THEN ListTtl ELSE LongTtl

-----------------------------------------------------------------------------
(* Lookups                                                                  *)

Start(t) ==
    /\ thread[t].pc \in {"idle", "done"}
    /\ lookups < MaxLookups /\ lookups' = lookups + 1
    /\ \E op \in Ops :
          thread' = [thread EXCEPT ![t] =
             [Idle EXCEPT !.op = op, !.begun = now,
                          !.pc = IF op = "refresh" THEN "mark" ELSE "look"]]
    /\ UNCHANGED <<cache, locking>>

\* The entry is dropped unless another refresh has done so within the window.
\* A mark of a former process is trusted like one of this process; who finds
\* it is named a lookup, for which Limit is that of the entry.
ReadMark(t) ==
    /\ At(t, "mark")
    /\ IF ~Alive(memory[Mark]) THEN Goto(t, "drop")
       ELSE thread' = [thread EXCEPT ![t].pc = "look",
               ![t].op = IF carried THEN "event" ELSE @]
    /\ UNCHANGED <<cache, locking, lookups>>

Drop(t) ==
    /\ At(t, "drop") /\ Goto(t, "dropped")
    /\ memory' = [memory EXCEPT ![Event] = Absent]
    /\ UNCHANGED <<pending, carried, locking, lookups>>

SetMark(t) ==
    /\ At(t, "setmark") /\ Goto(t, "marked")
    /\ memory' = [memory EXCEPT ![Mark] =
          [kind |-> "live", asof |-> now, until |-> now + Window]]
    /\ carried' = FALSE
    /\ UNCHANGED <<pending, locking, lookups>>

\* set and delete note the key for the next flush.
Note(t) ==
    /\ \/ At(t, "dropped") /\ Goto(t, "setmark") /\ ToRemove(Event)
       \/ At(t, "marked") /\ Goto(t, "look") /\ ToWrite(Mark)
       \/ At(t, "stored") /\ Goto(t, "leave") /\ ToWrite(wanted)
    /\ UNCHANGED <<memory, carried, locking, lookups>>

Look(t) ==
    /\ At(t, "look")
    /\ LET e == memory[wanted]
       IN  thread' = [thread EXCEPT
             ![t].told = IF Alive(e) THEN e ELSE Absent,
             ![t].pc = IF Alive(e) \/ thread[t].op = "cached" THEN "done"
                       ELSE "enter"]
    /\ UNCHANGED <<cache, locking, lookups>>

\* lock_key: the lock is kept while anybody uses it.
Enter(t) ==
    /\ At(t, "enter")
    /\ LET l == IF keylock # None THEN keylock
                ELSE CHOOSE l \in Locks : Users(l) = {}
       IN  /\ keylock' = l
           /\ thread' = [thread EXCEPT ![t].lock = l, ![t].pc = "acquire"]
    /\ UNCHANGED <<cache, holder, lookups>>

\* Within the lock the entry is looked for again.
Acquire(t) ==
    /\ At(t, "acquire") /\ holder[thread[t].lock] = None
    /\ holder' = [holder EXCEPT ![thread[t].lock] = t]
    /\ LET e == memory[wanted]
       IN  thread' = [thread EXCEPT
             ![t].told = IF Alive(e) THEN e ELSE Absent,
             ![t].pc = IF Alive(e) THEN "leave" ELSE "call"]
    /\ UNCHANGED <<cache, keylock, lookups>>

\* The provider tells something, or the call raises.
Call(t) ==
    /\ At(t, "call")
    /\ \/ \E kind \in Kinds :
             thread' = [thread EXCEPT ![t].pc = "store",
                ![t].told = [kind |-> kind, asof |-> now,
                             until |-> now + Ttl(wanted, kind)]]
       \/ Goto(t, "leave")
    /\ UNCHANGED <<cache, locking, lookups>>

Store(t) ==
    /\ At(t, "store") /\ Goto(t, "stored")
    /\ memory' = [memory EXCEPT ![wanted] = thread[t].told]
    /\ UNCHANGED <<pending, carried, locking, lookups>>

\* Mutant: the lock is forgotten while others wait for it.
LeaveNothing(t) ==
    /\ At(t, "leave")
    /\ holder' = [holder EXCEPT ![thread[t].lock] = None]
    /\ keylock' = None
    /\ thread' = [thread EXCEPT ![t].lock = None, ![t].pc = "done"]
    /\ UNCHANGED <<cache, lookups>>

Leave(t) ==
    /\ At(t, "leave")
    /\ holder' = [holder EXCEPT ![thread[t].lock] = None]
    /\ keylock' = IF Users(thread[t].lock) = {t} THEN None ELSE keylock
    /\ thread' = [thread EXCEPT ![t].lock = None, ![t].pc = "done"]
    /\ UNCHANGED <<cache, lookups>>

Lookup(t) ==
    /\ \/ Start(t) \/ ReadMark(t) \/ Drop(t) \/ SetMark(t) \/ Note(t)
       \/ Look(t) \/ Enter(t) \/ Acquire(t) \/ Call(t) \/ Store(t)
       \/ Leave(t)
    /\ UNCHANGED <<wanted, now, disk, flush, clearing, faults>>

-----------------------------------------------------------------------------
(* Persistence                                                              *)

\* The keys are taken, then the entries are read.  Only a restart reads the
\* table: when the bound allows none, no flush begins.
Grab(f) ==
    /\ flush[f].pc = "idle" /\ dirty \cup deleted # {} /\ faults < MaxFaults
    /\ flush' = [flush EXCEPT ![f] =
          [Asleep EXCEPT !.pc = "read", !.dirty = dirty, !.deleted = deleted]]
    /\ dirty' = {} /\ deleted' = {}
    /\ UNCHANGED <<now, memory, disk, clearing, faults>>

Read(f) ==
    /\ flush[f].pc = "read"
    /\ flush' = [flush EXCEPT ![f].pc = "write", ![f].rows =
          [k \in {d \in flush[f].dirty : /\ memory[d] # Absent
                                         /\ memory[d].until > now}
           |-> memory[k]]]
    /\ UNCHANGED <<now, memory, pending, disk, clearing, faults>>

\* One transaction; when it fails the keys are taken back.
Write(f) ==
    /\ flush[f].pc = "write" /\ flush' = [flush EXCEPT ![f] = Asleep]
    /\ \/ /\ disk' = [k \in Keys |->
                IF k \in DOMAIN flush[f].rows THEN flush[f].rows[k]
                ELSE IF k \in flush[f].deleted THEN Absent ELSE disk[k]]
          /\ UNCHANGED <<dirty, deleted, faults>>
       \/ /\ faults < MaxFaults /\ faults' = faults + 1
          /\ dirty' = dirty \cup flush[f].dirty
          /\ deleted' = deleted \cup flush[f].deleted
          /\ UNCHANGED disk
    /\ UNCHANGED <<now, memory, clearing>>

\* clear, asked for by a user.
Clear ==
    \/ /\ clearing = "no" /\ faults < MaxFaults /\ faults' = faults + 1
       /\ clearing' = "keys" /\ memory' = [k \in Keys |-> Absent]
       /\ UNCHANGED <<now, pending, disk, flush>>
    \/ /\ clearing = "keys" /\ clearing' = "table"
       /\ dirty' = {} /\ deleted' = {}
       /\ UNCHANGED <<now, memory, disk, flush, faults>>
    \/ /\ clearing = "table" /\ clearing' = "no"
       /\ disk' \in {disk, [k \in Keys |-> Absent]}
       /\ UNCHANGED <<now, memory, pending, flush, faults>>

\* _evict_if_needed: the least recently used entries leave the memory only.
Evict(k) ==
    /\ memory[k] # Absent /\ faults < MaxFaults /\ faults' = faults + 1
    /\ memory' = [memory EXCEPT ![k] = Absent]
    /\ UNCHANGED <<now, dirty, deleted, disk, flush, clearing>>

\* Mutant: what is loaded may be kept as long again.
RestoredAnew(e) ==
    IF e # Absent /\ e.until > now THEN [e EXCEPT !.until = now + EventTtl]
    ELSE Absent

\* _load_from_sqlite: a row keeps the time at which it expires.
Restored(e) == IF e # Absent /\ e.until > now THEN e ELSE Absent

\* The process stops anywhere; the next one loads the table.
Restart ==
    /\ faults < MaxFaults /\ faults' = faults + 1
    /\ clearing' = "no" /\ carried' = (Restored(disk[Mark]) # Absent)
    /\ memory' = [k \in Keys |-> Restored(disk[k])]
    /\ dirty' = {} /\ deleted' = {}
    /\ keylock' = None /\ holder' = [l \in Locks |-> None]
    /\ thread' = [t \in Threads |-> Idle]
    /\ flush' = [f \in Flushers |-> Asleep]
    /\ UNCHANGED <<wanted, now, disk, lookups>>

\* Time passes while a thread waits for a provider, a lock or work, and while
\* a flush waits for the database.
Tick ==
    /\ now < MaxTime
    /\ \A t \in Threads : thread[t].pc \in {"idle", "done", "call", "acquire"}
    /\ \A f \in Flushers : flush[f].pc # "read"
    /\ clearing # "keys"
    /\ now' = now + 1
    /\ UNCHANGED <<memory, pending, disk, flush, clearing, faults>>

\* Bound: from the first lookup to the end of the last.
Asked == \/ lookups \in 1..(MaxLookups - 1)
         \/ \E t \in Threads : ~At(t, "idle") /\ ~At(t, "done")

Next ==
    \/ Restart
    \/ \E t \in Threads : Lookup(t)
    \/ /\ Asked
       /\ \/ Clear \/ Tick
          \/ \E f \in Flushers : Grab(f) \/ Read(f) \/ Write(f)
          \/ \E k \in Keys : Evict(k)
       /\ UNCHANGED <<wanted, locking, thread, carried, lookups>>

Spec == Init /\ [][Next]_vars

-----------------------------------------------------------------------------
(* What must hold                                                           *)

Rows == Entries \cup {Absent}

TypeOK ==
    /\ now \in 0..MaxTime /\ faults \in 0..MaxFaults
    /\ clearing \in {"no", "keys", "table"} /\ carried \in BOOLEAN
    /\ memory \in [Keys -> Rows] /\ disk \in [Keys -> Rows]
    /\ dirty \subseteq Keys /\ deleted \subseteq Keys
    /\ keylock \in Locks \cup {None}
    /\ holder \in [Locks -> Threads \cup {None}]

\* One call at a time: of the threads that want the same answer only one asks
\* the provider, whoever comes and goes meanwhile; and every lock that is used
\* is the one that newcomers will find.
OneCallPerKey ==
    /\ \A t, u \in Threads :
          /\ t # u
          /\ {thread[t].pc, thread[u].pc} \subseteq {"call", "store", "stored"}
          => FALSE
    /\ \A t \in Threads : thread[t].lock # None =>
          keylock = thread[t].lock

\* How old an answer may be.
Limit(op, kind) ==
    CASE op = "refresh" -> Window
      [] op = "event" -> Ttl(Event, kind)
      [] OTHER -> Ttl(List, kind)

\* Refreshes show the state of the event that the provider told within the
\* window, other lookups what it told within the time that this kind of answer
\* may be kept, through flushes, failures, evictions, clears and restarts.  A
\* refresh that trusts the mark of a former process is another lookup in this:
\* a restart can find that mark beside the entry it dropped, see
\* RefreshesOutliveRestarts.
AnswersAreFresh ==
    \A t \in Threads :
       At(t, "done") /\ thread[t].told # Absent =>
          thread[t].told.asof + Limit(thread[t].op, thread[t].told.kind)
             >= thread[t].begun

\* What the code does not promise: the table may lack what dropped the entry
\* and have the mark, when set and delete of one key met, a flush took the keys
\* before the drop and read the entries after it, a clear forgot the keys, one
\* flush overtook another or the new entry was evicted before it was written.
\* Then a restart shows refreshes the entry that was dropped.
RefreshesOutliveRestarts ==
    carried /\ Alive(memory[Mark]) =>
       memory[Event] = Absent \/ memory[Event].asof >= memory[Mark].asof
=============================================================================
