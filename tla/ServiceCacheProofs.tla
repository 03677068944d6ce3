-------------------------- MODULE ServiceCacheProofs --------------------------
(* Proofs, for any number of threads, flushes, faults and times to live, that  *)
(* one call at a time is made for a key and that no answer is older than what  *)
(* may be kept of its kind.                                                    *)
EXTENDS ServiceCache, FiniteSetTheorems, TLAPS

\* Threads are finitely many, and no thread is the mark of an unheld lock;
\* times are in whole seconds.
Parameters ==
    /\ IsFiniteSet(Threads) /\ None \notin Threads
    /\ {EventTtl, Window, ListTtl, LongTtl, MaxTime, MaxFaults} \subseteq Nat

-----------------------------------------------------------------------------
(* Types *)

OpNames == {"idle", "refresh", "event", "list", "cached"}
Working == {"acquire", "call", "store", "stored", "leave"} \* within lock_key
Holding == Working \ {"acquire"}                           \* within its lock
Pcs == {"idle", "mark", "drop", "dropped", "setmark", "marked", "look", "enter",
        "done"} \cup Working

ThreadType == [op : OpNames, pc : Pcs, lock : Locks \cup {None}, told : Rows,
               begun : 0..MaxTime]

FlushType == [pc : {"idle", "read", "write"}, dirty : SUBSET Keys,
              deleted : SUBSET Keys, rows : UNION {[S -> Rows] : S \in SUBSET Keys}]

Types == /\ TypeOK
         /\ wanted \in {Event, List}
         /\ thread \in [Threads -> ThreadType]
         /\ flush \in [Flushers -> FlushType]

\* Who is within lock_key has the lock of the key, and who is within that lock
\* holds it.
Queue ==
    \A t \in Threads :
       /\ thread[t].lock # None => keylock = thread[t].lock
       /\ thread[t].pc \in Working => thread[t].lock # None
       /\ thread[t].pc \in Holding => holder[thread[t].lock] = t

\* There is a lock.
LEMMA SomeLock == ASSUME Parameters PROVE 1 \in Locks /\ None \notin Locks
<1>1. Cardinality(Threads) \in Nat
  BY FS_CardinalityType DEF Parameters
<1>2. QED
  BY <1>1 DEF Locks, None

\* The time to live of a key, and what is stored with it.
LEMMA NewEntry ==
    ASSUME Parameters, Types, NEW key \in Keys, NEW kind \in Kinds
    PROVE  /\ Ttl(key, kind) \in Nat
           /\ [kind |-> kind, asof |-> now, until |-> now + Ttl(key, kind)] \in Entries
<1>1. Ttl(key, kind) \in Nat
  BY DEF Parameters, Ttl, Keys, Event, Mark, List
<1>2. now \in 0..MaxTime /\ now \in Nat
  BY DEF Parameters, Types, TypeOK
<1>3. QED
  BY <1>1, <1>2 DEF Entries

\* A flush that sleeps carries nothing, and another one rows.
LEMMA AsleepType == Asleep \in FlushType
<1>1. <<>> \in [{} -> Rows]
  OBVIOUS
<1>2. <<>> \in UNION {[S -> Rows] : S \in SUBSET Keys}
  BY <1>1
<1>3. QED
  BY <1>2 DEF Asleep, FlushType

LEMMA RowsTypes ==
    ASSUME NEW x \in FlushType
    PROVE  /\ DOMAIN x.rows \subseteq Keys
           /\ \A k \in DOMAIN x.rows : x.rows[k] \in Rows
<1>1. PICK S \in SUBSET Keys : x.rows \in [S -> Rows]
  BY DEF FlushType
<1>2. QED
  BY <1>1

\* The lock that a thread enters exists.
LEMMA EnterLock ==
    ASSUME Parameters, Types, Queue, keylock = None
    PROVE  (CHOOSE l \in Locks : Users(l) = {}) \in Locks
<1>1. 1 \in Locks /\ None \notin Locks
  BY SomeLock
<1>2. Users(1) = {}
  BY <1>1 DEF Users, Queue
<1>3. QED
  BY <1>1, <1>2

\* What a thread does to itself and to the lock keeps their types.
LEMMA ThreadSteps ==
    ASSUME Parameters, Types, Queue, NEW t \in Threads, Lookup(t)
    PROVE  /\ thread' \in [Threads -> ThreadType]
           /\ keylock' \in Locks \cup {None}
           /\ holder' \in [Locks -> Threads \cup {None}]
<1> USE DEF Types, TypeOK, ThreadType, OpNames, Pcs, Working, locking, At, Goto
<1>1. CASE Start(t)
  <2>1. Ops \subseteq OpNames
    BY DEF Ops
  <2>2. now \in 0..MaxTime
    OBVIOUS
  <2>3. Idle \in ThreadType
    BY <2>2 DEF Idle, Rows, Parameters
  <2>4. \A op \in Ops : \A pc \in Pcs :
           [Idle EXCEPT !.op = op, !.begun = now, !.pc = pc] \in ThreadType
    BY <2>1, <2>2, <2>3
  <2>5. PICK op \in Ops : thread' = [thread EXCEPT ![t] =
           [Idle EXCEPT !.op = op, !.begun = now,
                        !.pc = IF op = "refresh" THEN "mark" ELSE "look"]]
    BY <1>1 DEF Start
  <2> DEFINE r == [Idle EXCEPT !.op = op, !.begun = now,
                        !.pc = IF op = "refresh" THEN "mark" ELSE "look"]
  <2>6. r \in ThreadType
    BY <2>4
  <2> HIDE DEF r
  <2>7. thread' \in [Threads -> ThreadType]
    BY <2>5, <2>6 DEF r
  <2>8. QED
    BY <1>1, <2>7 DEF Start
<1>2. CASE ReadMark(t)
  BY <1>2 DEF ReadMark
<1>3. CASE Drop(t)
  BY <1>3 DEF Drop
<1>4. CASE SetMark(t) \/ Note(t)
  BY <1>4 DEF SetMark, Note
<1>5. CASE Look(t)
  <2>1. memory[wanted] \in Rows /\ Absent \in Rows
    BY DEF Keys, Rows
  <2>2. QED
    BY <1>5, <2>1 DEF Look
<1>6. CASE Enter(t)
  <2>1. keylock' \in Locks
    BY <1>6, EnterLock DEF Enter, Queue
  <2>2. QED
    BY <1>6, <2>1 DEF Enter
<1>7. CASE Acquire(t)
  <2>1. memory[wanted] \in Rows /\ Absent \in Rows
    BY DEF Keys, Rows
  <2>2. QED
    BY <1>7, <2>1 DEF Acquire
<1>8. CASE Call(t)
  <2>1. \A kind \in Kinds :
           [kind |-> kind, asof |-> now, until |-> now + Ttl(wanted, kind)] \in Rows
    BY NewEntry DEF Keys, Rows
  <2>2. QED
    BY <1>8, <2>1 DEF Call
<1>9. CASE Store(t)
  BY <1>9 DEF Store
<1>10. CASE Leave(t)
  BY <1>10 DEF Leave
<1>11. QED
  BY <1>1, <1>2, <1>3, <1>4, <1>5, <1>6, <1>7, <1>8, <1>9, <1>10 DEF Lookup

\* What it does to the cache keeps the types of the cache.
LEMMA CacheSteps ==
    ASSUME Parameters, Types, NEW t \in Threads, Lookup(t)
    PROVE  /\ memory' \in [Keys -> Rows]
           /\ dirty' \subseteq Keys /\ deleted' \subseteq Keys
           /\ carried' \in BOOLEAN
<1> USE DEF Types, TypeOK, cache, pending, Keys
<1>1. CASE Drop(t)
  BY <1>1 DEF Drop, Rows
<1>2. CASE SetMark(t)
  <2>1. [kind |-> "live", asof |-> now, until |-> now + Window] \in Rows
    BY DEF Parameters, Rows, Entries, Kinds
  <2>2. QED
    BY <1>2, <2>1 DEF SetMark
<1>3. CASE Store(t)
  BY <1>3 DEF Store, ThreadType
<1>4. CASE Note(t)
  BY <1>4 DEF Note, ToWrite, ToRemove
<1>5. QED
  BY <1>1, <1>2, <1>3, <1>4
     DEF Lookup, Start, ReadMark, Look, Enter, Acquire, Call, Leave

\* One step keeps all types.
LEMMA TypeStep ==
    ASSUME Parameters, Types, Queue, [Next]_vars
    PROVE  Types'
<1> USE DEF Types, TypeOK
<1>1. ASSUME NEW t \in Threads, Lookup(t)
      PROVE  Types'
  BY <1>1, ThreadSteps, CacheSteps DEF Lookup
<1>2. CASE Restart
  <2>1. \A k \in Keys : Restored(disk[k]) \in Rows
    BY DEF Restored, Rows
  <2>2. Idle \in ThreadType /\ None \in Locks \cup {None}
    BY DEF Idle, ThreadType, OpNames, Pcs, Rows, Parameters
  <2>3. Asleep \in FlushType
    BY AsleepType
  <2>4. faults' \in 0..MaxFaults
    BY <1>2 DEF Restart, Parameters
  <2>5. QED
    BY <1>2, <2>1, <2>2, <2>3, <2>4 DEF Restart
<1> DEFINE Rest == UNCHANGED <<wanted, locking, thread, carried, lookups>>
<1>3. CASE Clear /\ Rest
  <2>1. faults' \in 0..MaxFaults
    BY <1>3 DEF Clear, Parameters
  <2>2. QED
    BY <1>3, <2>1 DEF Clear, Rows, pending, locking
<1>4. CASE Tick /\ Rest
  <2>1. now' \in 0..MaxTime
    BY <1>4 DEF Tick, Parameters
  <2>2. QED
    BY <1>4, <2>1 DEF Tick, pending, locking
<1>5. ASSUME NEW f \in Flushers, Grab(f) \/ Read(f), Rest
      PROVE  Types'
  <2>1. CASE Grab(f)
    <3>1. [Asleep EXCEPT !.pc = "read", !.dirty = dirty, !.deleted = deleted]
             \in FlushType
      BY AsleepType DEF FlushType
    <3>2. QED
      BY <1>5, <2>1, <3>1 DEF Grab, locking
  <2>2. CASE Read(f)
    <3> DEFINE S == {d \in flush[f].dirty : /\ memory[d] # Absent
                                            /\ memory[d].until > now}
               rows == [k \in S |-> memory[k]]
    <3>1. flush[f] \in FlushType
      OBVIOUS
    <3>2. S \in SUBSET Keys /\ rows \in [S -> Rows]
      BY <3>1 DEF FlushType
    <3>3. rows \in UNION {[R -> Rows] : R \in SUBSET Keys}
      BY <3>2
    <3>4. flush' = [flush EXCEPT ![f] =
             [flush[f] EXCEPT !.pc = "write", !.rows = rows]]
      BY <2>2 DEF Read
    <3> HIDE DEF S, rows
    <3>5. [flush[f] EXCEPT !.pc = "write", !.rows = rows] \in FlushType
      BY <3>1, <3>3 DEF FlushType
    <3>6. QED
      BY <1>5, <2>2, <3>4, <3>5 DEF Read, pending, locking
  <2>3. QED
    BY <1>5, <2>1, <2>2
<1>6. ASSUME NEW f \in Flushers, Write(f), Rest
      PROVE  Types'
  <2>1. flush[f] \in FlushType /\ Asleep \in FlushType
    BY AsleepType
  <2>2. \A k \in DOMAIN flush[f].rows : flush[f].rows[k] \in Rows
    BY <2>1, RowsTypes
  <2>3. flush' \in [Flushers -> FlushType]
    BY <1>6, <2>1 DEF Write
  <2>4. disk' \in [Keys -> Rows]
    BY <1>6, <2>2 DEF Write, Rows
  <2>5. faults' \in 0..MaxFaults
    BY <1>6 DEF Write, Parameters
  <2>6. dirty' \subseteq Keys /\ deleted' \subseteq Keys
    BY <1>6, <2>1 DEF Write, FlushType
  <2>7. QED
    BY <1>6, <2>3, <2>4, <2>5, <2>6 DEF Write, locking
<1>7. ASSUME NEW k \in Keys, Evict(k), Rest
      PROVE  Types'
  <2>1. faults' \in 0..MaxFaults
    BY <1>7 DEF Evict, Parameters
  <2>2. QED
    BY <1>7, <2>1 DEF Evict, Rows, locking
<1>8. CASE UNCHANGED vars
  BY <1>8 DEF vars
<1>9. QED
  BY <1>1, <1>2, <1>3, <1>4, <1>5, <1>6, <1>7, <1>8 DEF Next

-----------------------------------------------------------------------------
(* One call per key *)

\* Nobody else is touched by a step of a thread.
LEMMA OthersStay ==
    ASSUME Types, NEW t \in Threads, Lookup(t)
    PROVE  \A u \in Threads \ {t} : thread'[u] = thread[u]
BY DEF Lookup, Start, ReadMark, Drop, SetMark, Note, Look, Enter, Acquire, Call,
       Store, Leave, Goto, Types

\* Every step keeps the queue in order.
LEMMA QueueStep ==
    ASSUME Parameters, Types, Queue, [Next]_vars
    PROVE  Queue'
<1>1. ASSUME NEW t \in Threads, Lookup(t)
      PROVE  Queue'
  <2> USE DEF Queue, Types, TypeOK, locking, At, Goto, Working, Holding
  <2>1. \A u \in Threads \ {t} : thread'[u] = thread[u]
    BY <1>1, OthersStay
  <2>2. thread[t] \in ThreadType /\ None \notin Locks /\ None \notin Threads
    BY SomeLock DEF Parameters
  <2>3. CASE \/ Start(t) \/ ReadMark(t) \/ Drop(t) \/ SetMark(t) \/ Look(t)
             \/ Note(t) /\ ~At(t, "stored")
    <3>1. keylock' = keylock /\ holder' = holder
      BY <2>3 DEF Start, ReadMark, Drop, SetMark, Note, Look
    <3>2. ASSUME Start(t)
          PROVE  thread'[t].pc \notin Working /\ thread'[t].lock = None
      <4>1. PICK op : thread' = [thread EXCEPT ![t] =
               [Idle EXCEPT !.op = op, !.begun = now,
                            !.pc = IF op = "refresh" THEN "mark" ELSE "look"]]
        BY <3>2 DEF Start
      <4>2. thread'[t] =
               [Idle EXCEPT !.op = op, !.begun = now,
                            !.pc = IF op = "refresh" THEN "mark" ELSE "look"]
        BY <4>1
      <4>3. QED
        BY <4>2 DEF Idle
    <3>3. ASSUME ~Start(t)
          PROVE  thread'[t].pc \notin Working /\ thread'[t].lock = thread[t].lock
      BY <2>2, <2>3, <3>3 DEF ReadMark, Drop, SetMark, Note, Look, ThreadType
    <3>4. QED
      BY <2>1, <3>1, <3>2, <3>3
  <2>4. CASE Enter(t)
    <3>1. keylock' \in Locks
      BY <2>4, EnterLock DEF Enter
    <3>2. /\ thread'[t].lock = keylock' /\ thread'[t].pc = "acquire"
          /\ holder' = holder /\ (keylock # None => keylock' = keylock)
      BY <2>2, <2>4 DEF Enter, ThreadType
    <3>3. QED
      BY <2>1, <2>2, <3>1, <3>2
  <2>5. CASE Acquire(t)
    <3>1. /\ thread'[t].lock = thread[t].lock /\ thread'[t].pc \in Holding
          /\ keylock' = keylock /\ thread[t].lock # None
          /\ holder[thread[t].lock] = None
          /\ holder' = [holder EXCEPT ![thread[t].lock] = t]
      BY <2>2, <2>5 DEF Acquire, ThreadType
    <3>2. thread[t].lock \in Locks
      BY <2>2, <3>1 DEF ThreadType
    <3>3. \A u \in Threads \ {t} : thread[u].pc \in Holding => FALSE
      BY <2>2, <3>1
    <3>4. QED
      BY <2>1, <3>1, <3>2, <3>3
  <2>6. CASE Call(t) \/ Store(t) \/ (Note(t) /\ At(t, "stored"))
    <3>1. /\ thread'[t].lock = thread[t].lock /\ thread'[t].pc \in Holding
          /\ thread[t].pc \in Holding
          /\ keylock' = keylock /\ holder' = holder
      BY <2>2, <2>6 DEF Call, Store, Note, ThreadType
    <3>2. QED
      BY <2>1, <3>1
  <2>7. CASE Leave(t)
    <3>1. /\ thread'[t].lock = None /\ thread'[t].pc = "done"
          /\ holder' = [holder EXCEPT ![thread[t].lock] = None]
          /\ holder[thread[t].lock] = t /\ thread[t].lock # None
          /\ keylock = thread[t].lock
      BY <2>2, <2>7 DEF Leave, ThreadType
    <3>2. ASSUME NEW u \in Threads \ {t}, thread[u].lock # None
          PROVE  keylock' = keylock /\ thread[u].pc \notin Holding
      <4>1. thread[u].lock = keylock
        BY <3>2
      <4>2. u \in Users(thread[t].lock)
        BY <3>1, <4>1 DEF Users
      <4>3. QED
        BY <2>7, <3>1, <4>1, <4>2 DEF Leave
    <3>3. QED
      BY <2>1, <3>1, <3>2
  <2>8. QED
    BY <1>1, <2>3, <2>4, <2>5, <2>6, <2>7 DEF Lookup
<1>2. CASE Restart
  BY <1>2 DEF Restart, Queue, Idle, Working, Holding
<1>3. CASE UNCHANGED <<locking, thread>>
  BY <1>3 DEF Queue, locking
<1>4. QED
  BY <1>1, <1>2, <1>3 DEF Next, vars, locking

\* The first state.
LEMMA TypeInit ==
    ASSUME Parameters, Init
    PROVE  Types /\ Queue
<1>1. Idle \in ThreadType /\ Asleep \in FlushType
  BY AsleepType
     DEF Idle, ThreadType, OpNames, Pcs, Rows, Parameters
<1>2. Types
  <2>1. 0 \in 0..MaxTime /\ 0 \in 0..MaxFaults
    BY DEF Parameters
  <2>2. TypeOK
    BY <2>1 DEF Init, TypeOK, Rows
  <2>3. QED
    BY <1>1, <2>2 DEF Init, Types
<1>3. \A t \in Threads : thread[t] = Idle
  BY DEF Init
<1>4. QED
  BY <1>2, <1>3 DEF Queue, Idle, Working, Holding

\* Every variable keeps its type, whatever fails and whenever it is restarted.
THEOREM TypeCorrect ==
    ASSUME Parameters
    PROVE  Spec => []TypeOK
<1>1. Init => Types /\ Queue
  BY TypeInit
<1>2. Types /\ Queue /\ [Next]_vars => Types' /\ Queue'
  BY TypeStep, QueueStep
<1>3. Types => TypeOK
  BY DEF Types
<1>4. QED
  BY <1>1, <1>2, <1>3, PTL DEF Spec

\* Of any number of threads that want one answer only one asks the provider, and
\* a newcomer finds the lock that the others use, through failing calls and
\* restarts.
THEOREM OneCallPerKeyHolds ==
    ASSUME Parameters
    PROVE  Spec => []OneCallPerKey
<1>1. Init => Types /\ Queue
  BY TypeInit
<1>2. Types /\ Queue /\ [Next]_vars => Types' /\ Queue'
  BY TypeStep, QueueStep
<1>3. Queue => OneCallPerKey
  BY DEF Queue, OneCallPerKey, Working, Holding
<1>4. QED
  BY <1>1, <1>2, <1>3, PTL DEF Spec

-----------------------------------------------------------------------------
(* How old answers are *)

\* An entry expires when its kind says, wherever it is kept.
Kept(key, e) == e # Absent => e.until = e.asof + Ttl(key, e.kind)

\* What a thread was told was kept so, and had not expired when it began.
Told(t) ==
    /\ thread[t].begun <= now
    /\ thread[t].pc # "idle" => thread[t].op \in Ops
    /\ thread[t].pc = "mark" => wanted = Event
    /\ thread[t].told # Absent =>
          /\ thread[t].pc # "idle"
          /\ Kept(wanted, thread[t].told)
          /\ thread[t].told.until >= thread[t].begun

Ages == /\ \A k \in Keys : Kept(k, memory[k]) /\ Kept(k, disk[k])
        /\ \A f \in Flushers : \A k \in DOMAIN flush[f].rows :
              Kept(k, flush[f].rows[k])
        /\ \A t \in Threads : Told(t)

\* A lookup keeps the ages of what is in memory,
LEMMA MemoryAges ==
    ASSUME Parameters, Types, Ages, NEW t \in Threads, Lookup(t)
    PROVE  \A k \in Keys : Kept(k, memory'[k])
<1> USE DEF Ages, Types, TypeOK, cache, Keys
<1>1. CASE Drop(t)
  BY <1>1 DEF Drop, Kept
<1>2. CASE SetMark(t)
  BY <1>2 DEF SetMark, Kept, Ttl, Event, Mark, List
<1>3. CASE Store(t)
  BY <1>3 DEF Store, At, Told, Kept
<1>4. QED
  BY <1>1, <1>2, <1>3
     DEF Lookup, Start, ReadMark, Note, Look, Enter, Acquire, Call, Leave

\* and of what is told.
LEMMA ToldAges ==
    ASSUME Parameters, Types, Ages, NEW t \in Threads, Lookup(t)
    PROVE  Told(t)'
<1> USE DEF Types, TypeOK, At, Goto
<1>1. /\ Told(t) /\ thread[t] \in ThreadType /\ wanted' = wanted /\ now' = now
      /\ now \in Nat /\ Ops' = Ops /\ thread[t].begun \in Nat
  <2>1. thread[t] \in ThreadType /\ 0..MaxTime \subseteq Nat
    BY DEF Parameters
  <2>2. QED
    BY <2>1 DEF Ages, Lookup, Ops, ThreadType
<1>2. CASE Start(t)
  <2>1. PICK op \in Ops : thread' = [thread EXCEPT ![t] =
           [Idle EXCEPT !.op = op, !.begun = now,
                        !.pc = IF op = "refresh" THEN "mark" ELSE "look"]]
    BY <1>2 DEF Start
  <2>2. thread'[t] = [Idle EXCEPT !.op = op, !.begun = now,
                        !.pc = IF op = "refresh" THEN "mark" ELSE "look"]
    BY <2>1
  <2>3. /\ thread'[t].begun = now /\ thread'[t].op = op /\ thread'[t].told = Absent
        /\ thread'[t].pc = IF op = "refresh" THEN "mark" ELSE "look"
    BY <2>2 DEF Idle
  <2>4. op = "refresh" => wanted = Event
    BY DEF Ops
  <2>5. QED
    BY <1>1, <2>3, <2>4 DEF Told
<1>3. CASE \/ ReadMark(t) \/ Drop(t) \/ SetMark(t) \/ Note(t) \/ Enter(t)
           \/ Store(t) \/ Leave(t)
  <2>1. /\ thread'[t].op \in {thread[t].op, "event"} /\ thread'[t].told = thread[t].told
        /\ thread'[t].begun = thread[t].begun /\ thread[t].pc # "idle"
        /\ thread'[t].pc \notin {"idle", "mark"}
    BY <1>1, <1>3
       DEF ReadMark, Drop, SetMark, Note, Enter, Store, Leave, ThreadType
  <2>2. thread'[t].op = thread[t].op \/ (thread'[t].op = "event" /\ wanted = Event)
    BY <1>1, <1>3, <2>1
       DEF Told, ReadMark, Drop, SetMark, Note, Enter, Store, Leave, ThreadType
  <2>3. QED
    BY <1>1, <2>1, <2>2 DEF Told, Kept, Ops
<1>4. CASE Look(t) \/ Acquire(t)
  <2> DEFINE e == memory[wanted]
  <2>1. /\ thread'[t].op = thread[t].op /\ thread[t].pc # "idle"
        /\ thread'[t].told = (IF Alive(e) THEN e ELSE Absent)
        /\ thread'[t].begun = thread[t].begun /\ thread'[t].pc \notin {"idle", "mark"}
    BY <1>1, <1>4 DEF Look, Acquire, ThreadType
  <2>2. Kept(wanted, e) /\ e \in Rows
    BY DEF Ages, Keys
  <2>3. Alive(e) => e.until >= thread[t].begun
    <3>1. e.until \in Nat
      BY <2>2 DEF Rows, Entries, Absent
    <3>2. QED
      BY <1>1, <3>1 DEF Alive, Told
  <2>4. QED
    BY <1>1, <2>1, <2>2, <2>3 DEF Told, Kept
<1>5. CASE Call(t)
  <2>1. /\ thread'[t].op = thread[t].op /\ thread[t].pc # "idle"
        /\ thread'[t].begun = thread[t].begun /\ thread'[t].pc \notin {"idle", "mark"}
    BY <1>1, <1>5 DEF Call, ThreadType
  <2>2. CASE thread'[t].told = thread[t].told
    BY <1>1, <2>1, <2>2 DEF Told, Kept
  <2>3. CASE \E kind \in Kinds : thread'[t].told =
                [kind |-> kind, asof |-> now, until |-> now + Ttl(wanted, kind)]
    <3>1. PICK kind \in Kinds : thread'[t].told =
                [kind |-> kind, asof |-> now, until |-> now + Ttl(wanted, kind)]
      BY <2>3
    <3>2. Ttl(wanted, kind) \in Nat
      BY NewEntry DEF Keys
    <3>3. Kept(wanted, thread'[t].told)
      BY <3>1 DEF Kept
    <3>4. thread'[t].told.until >= now
      BY <1>1, <3>1, <3>2
    <3>5. now \in Int /\ thread[t].begun \in Int /\ thread'[t].told.until \in Int
      BY <1>1, <3>1, <3>2
    <3>6. QED
      BY <1>1, <2>1, <3>3, <3>4, <3>5 DEF Told, Kept
  <2>4. QED
    BY <1>1, <1>5, <2>2, <2>3 DEF Call, ThreadType
<1>6. QED
  BY <1>2, <1>3, <1>4, <1>5 DEF Lookup

\* What a step that leaves the threads alone, or time that passes, keeps.
LEMMA ThreadsAges ==
    ASSUME Parameters, Types, Ages, UNCHANGED <<wanted, thread>>,
           now' = now \/ now' = now + 1
    PROVE  \A t \in Threads : Told(t)'
<1>1. now \in Nat /\ now' \in Nat /\ now' >= now
  BY DEF Parameters, Types, TypeOK
<1>2. ASSUME NEW t \in Threads
      PROVE  Told(t)'
  <2>1. Told(t) /\ thread[t].begun \in Nat
    BY DEF Ages, Types, ThreadType, Parameters
  <2>2. QED
    BY <1>1, <2>1 DEF Told, Kept, Ops
<1>3. QED
  BY <1>2

\* Every step keeps the ages.
LEMMA AgeStep ==
    ASSUME Parameters, Types, Ages, [Next]_vars
    PROVE  Ages'
<1> USE DEF Types, TypeOK
<1>1. ASSUME NEW t \in Threads, Lookup(t)
      PROVE  Ages'
  <2>1. \A k \in Keys : Kept(k, memory'[k])
    BY <1>1, MemoryAges
  <2>2. \A u \in Threads \ {t} : thread'[u] = thread[u]
    BY <1>1, OthersStay
  <2>3. UNCHANGED <<wanted, now, disk, flush>>
    BY <1>1 DEF Lookup
  <2>4. \A u \in Threads \ {t} : Told(u)'
    BY <2>2, <2>3 DEF Ages, Told, Kept, Ops
  <2>5. Told(t)'
    BY <1>1, ToldAges
  <2>6. QED
    BY <2>1, <2>3, <2>4, <2>5 DEF Ages
<1>2. CASE Restart
  <2>1. \A k \in Keys : Kept(k, memory'[k]) /\ Kept(k, disk'[k])
    BY <1>2 DEF Restart, Restored, Ages, Kept
  <2>2. \A f \in Flushers : DOMAIN flush'[f].rows = {}
    BY <1>2 DEF Restart, Asleep
  <2>3. \A t \in Threads : Told(t)'
    BY <1>2 DEF Restart, Told, Idle, Parameters
  <2>4. QED
    BY <2>1, <2>2, <2>3 DEF Ages
<1> DEFINE Rest == UNCHANGED <<wanted, locking, thread, carried, lookups>>
<1>3. CASE Clear /\ Rest
  <2>1. \A t \in Threads : Told(t)'
    BY <1>3, ThreadsAges DEF Clear
  <2>2. \A k \in Keys : Kept(k, memory'[k]) /\ Kept(k, disk'[k])
    BY <1>3 DEF Clear, Ages, Kept
  <2>3. flush' = flush
    BY <1>3 DEF Clear
  <2>4. QED
    BY <2>1, <2>2, <2>3 DEF Ages
<1>4. CASE Tick /\ Rest
  <2>1. \A t \in Threads : Told(t)'
    BY <1>4, ThreadsAges DEF Tick
  <2>2. QED
    BY <1>4, <2>1 DEF Tick, Ages
<1>5. ASSUME NEW f \in Flushers, Grab(f) \/ Read(f), Rest
      PROVE  Ages'
  <2>1. \A t \in Threads : Told(t)'
    BY <1>5, ThreadsAges DEF Grab, Read
  <2>2. memory' = memory /\ disk' = disk
    BY <1>5 DEF Grab, Read
  <2>3. \A k \in DOMAIN flush'[f].rows : Kept(k, flush'[f].rows[k])
    <3>1. CASE Grab(f)
      BY <3>1 DEF Grab, Asleep
    <3>2. CASE Read(f)
      <4>1. flush[f] \in FlushType
        OBVIOUS
      <4>2. flush[f].dirty \subseteq Keys
        BY <4>1 DEF FlushType
      <4> DEFINE S == {d \in flush[f].dirty : /\ memory[d] # Absent
                                              /\ memory[d].until > now}
      <4>3. flush'[f].rows = [k \in S |-> memory[k]]
        BY <3>2, <4>1 DEF Read, FlushType
      <4>4. QED
        BY <4>2, <4>3 DEF Ages
    <3>3. QED
      BY <1>5, <3>1, <3>2
  <2>4. \A g \in Flushers \ {f} : flush'[g] = flush[g]
    BY <1>5 DEF Grab, Read
  <2>5. QED
    BY <2>1, <2>2, <2>3, <2>4 DEF Ages
<1>6. ASSUME NEW f \in Flushers, Write(f), Rest
      PROVE  Ages'
  <2>1. \A t \in Threads : Told(t)'
    BY <1>6, ThreadsAges DEF Write
  <2>2. memory' = memory
    BY <1>6 DEF Write
  <2>3. \A k \in Keys : Kept(k, disk'[k])
    BY <1>6 DEF Write, Ages, Kept
  <2>4. \A g \in Flushers : flush'[g] = flush[g] \/ flush'[g] = Asleep
    BY <1>6 DEF Write
  <2>5. DOMAIN Asleep.rows = {}
    BY DEF Asleep
  <2>6. QED
    BY <2>1, <2>2, <2>3, <2>4, <2>5 DEF Ages
<1>7. ASSUME NEW k \in Keys, Evict(k), Rest
      PROVE  Ages'
  <2>1. \A t \in Threads : Told(t)'
    BY <1>7, ThreadsAges DEF Evict
  <2>2. \A key \in Keys : Kept(key, memory'[key])
    BY <1>7 DEF Evict, Ages, Kept
  <2>3. QED
    BY <1>7, <2>1, <2>2 DEF Evict, Ages
<1>8. CASE UNCHANGED vars
  <2>1. \A t \in Threads : Told(t)'
    BY <1>8, ThreadsAges DEF vars
  <2>2. QED
    BY <1>8, <2>1 DEF vars, Ages
<1>9. QED
  BY <1>1, <1>2, <1>3, <1>4, <1>5, <1>6, <1>7, <1>8 DEF Next

LEMMA AgeInit ==
    ASSUME Parameters, Init
    PROVE  Ages
BY DEF Init, Ages, Kept, Told, Idle, Asleep, Parameters

\* A lookup that reads what is kept is told what may be kept.
LEMMA CachedIsFresh ==
    ASSUME Parameters, Types, Ages, NEW t \in Threads, At(t, "done"),
           thread[t].told # Absent, thread[t].op # "refresh"
    PROVE  thread[t].told.asof + Limit(thread[t].op, thread[t].told.kind)
              >= thread[t].begun
<1>1. Told(t) /\ thread[t].pc = "done"
  BY DEF Ages, At
<1>2. thread[t].op \in Ops
  BY <1>1 DEF Told
<1>3. Limit(thread[t].op, thread[t].told.kind) = Ttl(wanted, thread[t].told.kind)
  BY <1>2 DEF Limit, Ops, Types
<1>4. QED
  BY <1>1, <1>3 DEF Told, Kept

\* AnswersAreFresh, of lookups that are not refreshes.
CachedAnswersAreFresh ==
    \A t \in Threads :
       At(t, "done") /\ thread[t].told # Absent /\ thread[t].op # "refresh" =>
          thread[t].told.asof + Limit(thread[t].op, thread[t].told.kind)
             >= thread[t].begun

\* Lookups show what the provider told within the time that this kind of answer
\* may be kept, for any number of threads, flushes, failures, evictions, clears
\* and restarts.
THEOREM CachedAnswersAreFreshHolds ==
    ASSUME Parameters
    PROVE  Spec => []CachedAnswersAreFresh
<1>1. Init => Types /\ Queue /\ Ages
  BY TypeInit, AgeInit
<1>2. Types /\ Queue /\ Ages /\ [Next]_vars => Types' /\ Queue' /\ Ages'
  BY TypeStep, QueueStep, AgeStep
<1>3. Types /\ Ages => CachedAnswersAreFresh
  BY CachedIsFresh DEF CachedAnswersAreFresh
<1>4. QED
  BY <1>1, <1>2, <1>3, PTL DEF Spec

-----------------------------------------------------------------------------
(* Refreshes *)

\* The state of the event in memory was told at time or later.
Since(time) == memory[Event] = Absent \/ memory[Event].asof >= time

\* What a thread that refreshes may find.
Refreshing(t) ==
    /\ thread[t].pc \in {"mark", "drop", "dropped", "setmark", "marked"} =>
          thread[t].begun = now
    /\ thread[t].pc \in {"dropped", "setmark", "marked"} => Since(now)
    /\ thread[t].pc = "store" =>
          thread[t].told # Absent /\ thread[t].told.asof = now
    /\ thread[t].op = "refresh" =>
          /\ thread[t].pc \in {"look", "enter", "acquire"} =>
                Since(thread[t].begun - Window)
          /\ thread[t].told # Absent =>
                thread[t].told.asof >= thread[t].begun - Window

\* The mark of a refresh of this process is no younger than the state of the
\* event.
MarkInv == memory[Mark] # Absent /\ ~carried =>
              memory[Mark].asof <= now /\ Since(memory[Mark].asof)

Refreshed == MarkInv /\ \A t \in Threads : Refreshing(t)

\* In memory the state of the event is replaced by nothing or by what is told
\* at that moment.
LEMMA EventSteps ==
    ASSUME Parameters, Types, Refreshed, NEW t \in Threads, Lookup(t)
    PROVE  /\ now' = now
           /\ \/ memory'[Event] = memory[Event]
              \/ memory'[Event] = Absent
              \/ memory'[Event].asof = now
<1> USE DEF Types, TypeOK, cache, Keys
<1>1. CASE Drop(t)
  BY <1>1 DEF Drop, Lookup
<1>2. CASE SetMark(t)
  BY <1>2 DEF SetMark, Lookup, Event, Mark
<1>3. CASE Store(t)
  BY <1>3 DEF Store, At, Lookup, Refreshed, Refreshing
<1>4. QED
  BY <1>1, <1>2, <1>3
     DEF Lookup, Start, ReadMark, Note, Look, Enter, Acquire, Call, Leave

\* So it is not older than before.
LEMMA SinceSteps ==
    ASSUME Parameters, Types, Refreshed, NEW t \in Threads, Lookup(t)
    PROVE  \A time \in Int : time <= now /\ Since(time) => Since(time)'
<1>1. now \in Nat
  BY DEF Parameters, Types, TypeOK
<1>2. QED
  BY <1>1, EventSteps DEF Since

\* The times that threads remember.
LEMMA Times ==
    ASSUME Parameters, Types, NEW t \in Threads
    PROVE  /\ thread[t] \in ThreadType /\ thread[t].begun \in Nat
           /\ now \in Nat /\ Window \in Nat
           /\ thread[t].told \in Rows /\ thread[t].told.asof \in Nat
           /\ \A k \in Keys : memory[k] \in Rows /\ memory[k].asof \in Nat
                              /\ memory[k].until \in Nat
<1>1. \A e \in Rows : e.asof \in Nat /\ e.until \in Nat
  BY DEF Rows, Entries, Absent, Parameters
<1>2. QED
  BY <1>1 DEF Parameters, Types, TypeOK, ThreadType

\* What a thread does itself.
LEMMA OwnRefresh ==
    ASSUME Parameters, Types, Ages, Refreshed, NEW t \in Threads, Lookup(t)
    PROVE  Refreshing(t)'
<1> USE DEF At, Goto
<1>1. /\ thread[t] \in ThreadType /\ thread[t].begun \in Nat /\ now \in Nat
      /\ Window \in Nat /\ thread[t].told.asof \in Nat
      /\ thread[t].begun <= now /\ Refreshing(t) /\ now' = now
      /\ DOMAIN thread = Threads
      /\ thread[t].pc # "idle" => thread[t].op \in Ops
  BY Times DEF Ages, Told, Refreshed, Lookup, Types
<1>2. CASE Start(t)
  <2>1. PICK op \in Ops : thread' = [thread EXCEPT ![t] =
           [Idle EXCEPT !.op = op, !.begun = now,
                        !.pc = IF op = "refresh" THEN "mark" ELSE "look"]]
    BY <1>2 DEF Start
  <2>2. thread'[t] = [Idle EXCEPT !.op = op, !.begun = now,
                        !.pc = IF op = "refresh" THEN "mark" ELSE "look"]
    BY <1>1, <2>1
  <2>3. /\ thread'[t].begun = now /\ thread'[t].op = op
        /\ thread'[t].told = Absent
        /\ thread'[t].pc = IF op = "refresh" THEN "mark" ELSE "look"
    BY <2>2 DEF Idle
  <2>4. QED
    BY <1>1, <2>3 DEF Refreshing
<1>3. CASE ReadMark(t)
  <2>1. memory' = memory /\ thread[t].begun = now /\ thread[t].pc = "mark"
    BY <1>1, <1>3 DEF ReadMark, Refreshing, cache
  <2>2. CASE ~Alive(memory[Mark])
    <3>1. thread'[t] = [thread[t] EXCEPT !.pc = "drop"]
      BY <1>1, <1>3, <2>2 DEF ReadMark
    <3>2. QED
      BY <1>1, <2>1, <3>1 DEF Refreshing, Since, ThreadType
  <2>3. CASE Alive(memory[Mark]) /\ carried
    <3>1. thread'[t] = [thread[t] EXCEPT !.pc = "look", !.op = "event"]
      BY <1>1, <1>3, <2>3 DEF ReadMark
    <3>2. QED
      BY <1>1, <2>1, <3>1 DEF Refreshing, Since, ThreadType
  <2>4. CASE Alive(memory[Mark]) /\ ~carried
    <3>1. thread'[t] = [thread[t] EXCEPT !.pc = "look"]
      BY <1>1, <1>3, <2>4 DEF ReadMark
    <3>2. /\ memory[Mark].until = memory[Mark].asof + Window
          /\ now <= memory[Mark].until /\ Since(memory[Mark].asof)
      <4>1. Kept(Mark, memory[Mark]) /\ MarkInv
        BY DEF Ages, Keys, Refreshed
      <4>2. memory[Mark] # Absent /\ now <= memory[Mark].until
        BY <2>4 DEF Alive
      <4>3. Ttl(Mark, memory[Mark].kind) = Window
        BY DEF Ttl, Mark, Event, List
      <4>4. QED
        BY <2>4, <4>1, <4>2, <4>3 DEF Kept, MarkInv
    <3>3. /\ memory[Mark].asof \in Nat /\ memory[Event].asof \in Nat
      BY Times DEF Keys
    <3>4. Since(now - Window)
      BY <1>1, <3>2, <3>3 DEF Since
    <3>5. QED
      BY <1>1, <2>1, <3>1, <3>4 DEF Refreshing, Since, ThreadType
  <2>5. QED
    BY <2>2, <2>3, <2>4
<1>4. CASE Drop(t)
  <2>1. memory'[Event] = Absent
    BY <1>4 DEF Drop, Types, TypeOK, Keys
  <2>2. thread'[t] = [thread[t] EXCEPT !.pc = "dropped"]
    BY <1>1, <1>4 DEF Drop
  <2>3. thread[t].pc = "drop"
    BY <1>4 DEF Drop
  <2>4. QED
    BY <1>1, <2>1, <2>2, <2>3 DEF Refreshing, Since, ThreadType
<1>5. CASE SetMark(t)
  <2>1. memory'[Event] = memory[Event]
    BY <1>5 DEF SetMark, Types, TypeOK, Keys, Event, Mark
  <2>2. thread'[t] = [thread[t] EXCEPT !.pc = "marked"]
    BY <1>1, <1>5 DEF SetMark
  <2>3. thread[t].pc = "setmark" /\ thread[t].begun = now /\ Since(now)
    BY <1>1, <1>5 DEF SetMark, Refreshing
  <2>4. QED
    BY <1>1, <2>1, <2>2, <2>3 DEF Refreshing, Since, ThreadType
<1>11. CASE Note(t)
  <2>1. memory' = memory
    BY <1>11 DEF Note
  <2>2. CASE At(t, "dropped")
    <3>1. thread'[t] = [thread[t] EXCEPT !.pc = "setmark"]
      BY <1>1, <1>11, <2>2 DEF Note
    <3>2. QED
      BY <1>1, <2>1, <2>2, <3>1 DEF Refreshing, Since, ThreadType
  <2>3. CASE At(t, "marked")
    <3>1. thread'[t] = [thread[t] EXCEPT !.pc = "look"]
      BY <1>1, <1>11, <2>3 DEF Note
    <3>2. Since(now) /\ thread[t].begun = now
      BY <1>1, <2>3 DEF Refreshing
    <3>3. Since(now - Window)'
      <4>1. memory[Event].asof \in Nat
        BY Times DEF Keys
      <4>2. Window' = Window
        OBVIOUS
      <4>3. QED
        BY <1>1, <2>1, <3>2, <4>1, <4>2 DEF Since
    <3>4. QED
      BY <1>1, <2>1, <2>3, <3>1, <3>2, <3>3 DEF Refreshing, Since, ThreadType
  <2>4. CASE At(t, "stored")
    <3>1. thread'[t] = [thread[t] EXCEPT !.pc = "leave"]
      BY <1>1, <1>11, <2>4 DEF Note
    <3>2. QED
      BY <1>1, <2>1, <2>4, <3>1 DEF Refreshing, Since, ThreadType
  <2>5. QED
    BY <1>11, <2>2, <2>3, <2>4 DEF Note
<1>6. CASE Look(t) \/ Acquire(t)
  <2>1. /\ memory' = memory
        /\ thread'[t].op = thread[t].op /\ thread'[t].begun = thread[t].begun
        /\ thread'[t].pc \in {"done", "enter", "leave", "call"}
        /\ thread'[t].told \in {memory[wanted], Absent}
        /\ thread[t].pc \in {"look", "acquire"}
    BY <1>1, <1>6 DEF Look, Acquire, ThreadType, cache
  <2>2. thread[t].op = "refresh" => wanted = Event
    BY <1>1, <2>1 DEF Ops
  <2>3. thread[t].op = "refresh" => Since(thread[t].begun - Window)
    BY <1>1, <2>1 DEF Refreshing
  <2>4. QED
    BY <1>1, <2>1, <2>2, <2>3 DEF Refreshing, Since
<1>7. CASE Enter(t)
  <2>1. /\ memory' = memory
        /\ thread'[t].op = thread[t].op /\ thread'[t].begun = thread[t].begun
        /\ thread'[t].pc = "acquire" /\ thread'[t].told = thread[t].told
        /\ thread[t].pc = "enter"
    BY <1>1, <1>7 DEF Enter, ThreadType, cache
  <2>2. QED
    BY <1>1, <2>1 DEF Refreshing, Since
<1>8. CASE Call(t)
  <2>1. /\ thread'[t].op = thread[t].op /\ thread'[t].begun = thread[t].begun
        /\ \/ /\ thread'[t].pc = "store"
              /\ \E kind \in Kinds : thread'[t].told =
                   [kind |-> kind, asof |-> now, until |-> now + Ttl(wanted, kind)]
           \/ thread'[t].pc = "leave" /\ thread'[t].told = thread[t].told
    BY <1>1, <1>8 DEF Call, ThreadType
  <2>2. CASE thread'[t].pc = "leave" /\ thread'[t].told = thread[t].told
    BY <1>1, <2>1, <2>2 DEF Refreshing
  <2>3. CASE thread'[t].pc = "store"
    <3> PICK kind \in Kinds : thread'[t].told =
                [kind |-> kind, asof |-> now, until |-> now + Ttl(wanted, kind)]
      BY <2>1, <2>3
    <3>1. thread'[t].told.asof = now /\ thread'[t].told.kind \in Kinds
      OBVIOUS
    <3>2. thread'[t].told # Absent
      BY <3>1 DEF Kinds, Absent
    <3>3. QED
      BY <1>1, <2>1, <2>3, <3>1, <3>2 DEF Refreshing
  <2>4. QED
    BY <2>1, <2>2, <2>3
<1>9. CASE Store(t) \/ Leave(t)
  <2>1. /\ thread'[t].op = thread[t].op /\ thread'[t].begun = thread[t].begun
        /\ thread'[t].pc \in {"stored", "done"} /\ thread'[t].told = thread[t].told
    BY <1>1, <1>9 DEF Store, Leave, ThreadType
  <2>2. QED
    BY <1>1, <2>1 DEF Refreshing
<1>10. QED
  BY <1>2, <1>3, <1>4, <1>5, <1>6, <1>7, <1>8, <1>9, <1>11 DEF Lookup

\* Another thread's step disturbs nobody.
LEMMA OthersRefresh ==
    ASSUME Parameters, Types, Ages, Refreshed, NEW t \in Threads, Lookup(t),
           NEW u \in Threads \ {t}
    PROVE  Refreshing(u)'
<1>1. /\ thread'[u] = thread[u] /\ now' = now /\ Refreshing(u)
      /\ thread[u].begun \in Nat /\ now \in Nat /\ Window \in Nat
      /\ thread[u].begun <= now
  BY OthersStay, Times DEF Lookup, Refreshed, Ages, Told
<1>2. \A time \in Int : time <= now /\ Since(time) => Since(time)'
  BY SinceSteps
<1>3. Since(now) => Since(now)'
  BY <1>1, <1>2
<1>4. /\ thread[u].begun - Window \in Int
      /\ thread[u].begun - Window <= now
  BY <1>1
<1>5. Since(thread[u].begun - Window) => Since(thread[u].begun - Window)'
  BY <1>1, <1>2, <1>4
<1>6. QED
  BY <1>1, <1>3, <1>5 DEF Refreshing

\* The mark is set when what is in memory is new or gone.
LEMMA MarkStep ==
    ASSUME Parameters, Types, Refreshed, NEW t \in Threads, Lookup(t)
    PROVE  MarkInv'
<1>1. /\ now' = now /\ now \in Nat /\ memory[Mark].asof \in Nat /\ MarkInv
      /\ DOMAIN memory = Keys
  BY Times DEF Lookup, Refreshed, Keys, Types, TypeOK
<1>2. CASE SetMark(t)
  <2>1. /\ memory'[Mark].asof = now /\ memory'[Event] = memory[Event]
    BY <1>1, <1>2 DEF SetMark, Keys, Event, Mark
  <2>2. Since(now)
    BY <1>2 DEF SetMark, At, Refreshed, Refreshing
  <2>3. QED
    BY <1>1, <2>1, <2>2 DEF MarkInv, Since
<1>3. CASE ~SetMark(t)
  <2>1. memory'[Mark] = memory[Mark] /\ carried' = carried
    BY <1>1, <1>3
       DEF Lookup, Start, ReadMark, Drop, Note, Look, Enter, Acquire, Call, Store,
           Leave, cache, Types, Keys, Event, Mark, List
  <2>2. Since(memory[Mark].asof) /\ memory[Mark].asof <= now
           => Since(memory[Mark].asof)'
    <3>1. \A time \in Int : time <= now /\ Since(time) => Since(time)'
      BY SinceSteps
    <3>2. QED
      BY <1>1, <2>1, <3>1
  <2>3. QED
    BY <1>1, <2>1, <2>2 DEF MarkInv, Since
<1>4. QED
  BY <1>2, <1>3

\* Every step keeps what refreshes rest on; after a restart it is nothing.
LEMMA RefreshStep ==
    ASSUME Parameters, Types, Ages, Refreshed, [Next]_vars
    PROVE  Refreshed'
<1>1. ASSUME NEW t \in Threads, Lookup(t)
      PROVE  Refreshed'
  BY <1>1, OwnRefresh, OthersRefresh, MarkStep DEF Refreshed
<1>2. CASE UNCHANGED <<now, memory, thread, carried>>
  BY <1>2 DEF Refreshed, MarkInv, Refreshing, Since
<1>3. ASSUME UNCHANGED <<now, thread, carried>>,
             \A k \in Keys : memory'[k] \in {memory[k], Absent}
      PROVE  Refreshed'
  <2>1. \A time : Since(time) => Since(time)'
    BY <1>3 DEF Since, Keys
  <2>2. MarkInv'
    BY <1>3, <2>1 DEF Refreshed, MarkInv, Keys
  <2>3. ASSUME NEW t \in Threads
        PROVE  Refreshing(t)'
    BY <1>3, <2>1 DEF Refreshed, Refreshing
  <2>4. QED
    BY <2>2, <2>3 DEF Refreshed
<1>4. CASE Tick /\ UNCHANGED <<thread, carried>>
  <2>1. now \in Nat /\ now' = now + 1 /\ memory' = memory
    BY <1>4 DEF Tick, Types, TypeOK, Parameters
  <2>2. MarkInv'
    <3>1. memory[Mark].asof \in Nat
      BY DEF Types, TypeOK, Keys, Rows, Entries, Absent, Parameters
    <3>2. QED
      BY <1>4, <2>1, <3>1 DEF Refreshed, MarkInv, Since
  <2>3. ASSUME NEW t \in Threads
        PROVE  Refreshing(t)'
    BY <1>4, <2>1, <2>3 DEF Tick, Refreshed, Refreshing, Since
  <2>4. QED
    BY <2>2, <2>3 DEF Refreshed
<1>5. CASE (Clear \/ \E k \in Keys : Evict(k)) /\ UNCHANGED <<thread, carried>>
  <2>1. now' = now /\ \A k \in Keys : memory'[k] \in {memory[k], Absent}
    BY <1>5 DEF Clear, Evict, Types, TypeOK
  <2>2. QED
    BY <1>3, <1>5, <2>1
<1>6. CASE /\ \E f \in Flushers : Grab(f) \/ Read(f) \/ Write(f)
           /\ UNCHANGED <<thread, carried>>
  BY <1>2, <1>6 DEF Grab, Read, Write
<1>7. CASE Restart
  <2>1. ASSUME NEW t \in Threads
        PROVE  Refreshing(t)'
    <3>1. thread'[t] = Idle
      BY <1>7 DEF Restart
    <3>2. QED
      BY <3>1 DEF Refreshing, Idle
  <2>2. MarkInv'
    BY <1>7 DEF Restart, MarkInv, Keys
  <2>3. QED
    BY <2>1, <2>2 DEF Refreshed
<1>8. QED
  BY <1>1, <1>2, <1>4, <1>5, <1>6, <1>7 DEF Next, vars

\* What a refresh is shown, when refreshes rest on what they need.
LEMMA RefreshedIsFresh ==
    ASSUME Parameters, Types, Ages, Refreshed
    PROVE  AnswersAreFresh
<1>1. SUFFICES ASSUME NEW t \in Threads,
                      At(t, "done"), thread[t].told # Absent
               PROVE  thread[t].told.asof
                         + Limit(thread[t].op, thread[t].told.kind)
                            >= thread[t].begun
  BY DEF AnswersAreFresh
<1>2. CASE thread[t].op # "refresh"
  BY <1>1, <1>2, CachedIsFresh
<1>3. CASE thread[t].op = "refresh"
  <2>1. thread[t].told.asof >= thread[t].begun - Window
    BY <1>1, <1>3 DEF Refreshed, Refreshing
  <2>2. /\ thread[t].told.asof \in Nat /\ thread[t].begun \in Nat
        /\ Window \in Nat
    BY <1>1, Times
  <2>3. Limit(thread[t].op, thread[t].told.kind) = Window
    BY <1>3 DEF Limit
  <2>4. QED
    BY <2>1, <2>2, <2>3
<1>4. QED
  BY <1>2, <1>3

\* AnswersAreFresh, refreshes included, through any number of flushes, failures,
\* evictions, clears and restarts: who refreshes is shown what the provider told
\* within the window, also when another refresh of the process has dropped the
\* entry for it, and whatever the steps of set and delete of two threads do to
\* the keys that are still to be written.
THEOREM AnswersAreFreshHolds ==
    ASSUME Parameters
    PROVE  Spec => []AnswersAreFresh
<1>1. Init => Types /\ Queue /\ Ages /\ Refreshed
  <2>1. Init => Refreshed
    BY DEF Init, Refreshed, MarkInv, Refreshing, Since, Idle, Keys
  <2>2. QED
    BY <2>1, TypeInit, AgeInit
<1>2. Types /\ Queue /\ Ages /\ Refreshed /\ [Next]_vars
         => Types' /\ Queue' /\ Ages' /\ Refreshed'
  BY TypeStep, QueueStep, AgeStep, RefreshStep
<1>3. Types /\ Ages /\ Refreshed => AnswersAreFresh
  BY RefreshedIsFresh
<1>4. QED
  BY <1>1, <1>2, <1>3, PTL DEF Spec
=============================================================================
