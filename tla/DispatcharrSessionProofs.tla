----------------------- MODULE DispatcharrSessionProofs -----------------------
(* Proofs, for any number of threads, accounts, retries, faults and changes of *)
(* the settings, that a call to Dispatcharr is refused, cut or sent elsewhere  *)
(* only by what the server or the user has undone meanwhile.                   *)
EXTENDS DispatcharrSession, FiniteSetTheorems, TLAPS

-----------------------------------------------------------------------------
(* Types *)

SessionType == [access : Tokens, refresh : Tokens, fresh : BOOLEAN,
                throttled : BOOLEAN]

ThreadType == [pc : Pcs, conn : Connections, token : Tokens, tries : 0..MaxRetries,
               again : BOOLEAN, cut : BOOLEAN, moved : BOOLEAN, hit : BOOLEAN,
               result : Results]

Types ==
    /\ saved \in Accounts /\ pending \in BOOLEAN
    /\ current \in Connections /\ account \in [Connections -> Accounts]
    /\ session \in [Accounts -> SessionType]
    /\ lock \in [Accounts -> Threads \cup {Nobody}]
    /\ thread \in [Threads -> ThreadType]

\* A thread that has its connection, and one that has ended its call.
Connected(t) == thread[t].pc \notin {"idle", "connect"}

\* A connection that New may choose.
Free(k) == k # current /\ \A t \in Threads : thread[t].pc = "idle"
                                             \/ thread[t].conn # k

\* There is always a connection that nobody uses: with the current one there
\* are two more of them than threads.
LEMMA FreeConnection ==
    ASSUME Types, IsFiniteSet(Threads)
    PROVE  \E k \in Connections \ {0} : Free(k)
<1> DEFINE n == Cardinality(Threads)
           S == (1..(n + 2)) \ {current}
<1>1. n \in Nat
  BY FS_CardinalityType
<1>2. IsFiniteSet(1..(n + 2)) /\ Cardinality(1..(n + 2)) = n + 2
  <2>1. 1 \in Int /\ n + 2 \in Int /\ ~(1 > n + 2)
    BY <1>1
  <2> HIDE DEF n
  <2>2. Cardinality(1..(n + 2)) = (n + 2) - 1 + 1
    BY <2>1, FS_Interval
  <2>3. QED
    BY <1>1, <2>1, <2>2, FS_Interval
<1>3. IsFiniteSet(S) /\ Cardinality(S) \in {n + 1, n + 2}
  <2> DEFINE U == 1..(n + 2)
  <2>1. IsFiniteSet(U) /\ Cardinality(U) = n + 2
    BY <1>2
  <2> HIDE DEF U, n
  <2>2. /\ IsFiniteSet(U \ {current})
        /\ Cardinality(U \ {current}) \in {Cardinality(U) - 1, Cardinality(U)}
    BY <2>1, FS_RemoveElement
  <2>3. Cardinality(U \ {current}) \in {n + 1, n + 2}
    BY <1>1, <2>1, <2>2
  <2>4. QED
    BY <2>2, <2>3 DEF U
<1>4. Cardinality(Threads) < Cardinality(S)
  BY <1>1, <1>3
<1>5. SUFFICES ASSUME \A k \in S : ~Free(k)
               PROVE  FALSE
  BY <1>1 DEF Connections
<1> DEFINE f == [k \in S |-> CHOOSE t \in Threads : thread[t].conn = k]
<1>6. \A k \in S : \E t \in Threads : thread[t].conn = k
  BY <1>5 DEF Free
<1>7. f \in [S -> Threads] /\ \A k \in S : thread[f[k]].conn = k
  BY <1>6
<1> HIDE DEF f, S
<1>8. \E x, y \in S : x # y /\ f[x] = f[y]
  BY <1>3, <1>4, <1>7, FS_PigeonHole
<1>9. QED
  BY <1>7, <1>8

\* The connection that New chooses is one of them.
LEMMA NewIsFree ==
    ASSUME Types, IsFiniteSet(Threads)
    PROVE  New \in Connections \ {0} /\ Free(New)
<1>1. New = CHOOSE k \in Connections \ {0} : Free(k)
  BY DEF New, Free
<1>2. QED
  BY <1>1, FreeConnection

\* What the factory closes: of the threads that use it the requests that are
\* under way, and nothing else of them changes.
LEMMA CutTypes ==
    ASSUME Types
    PROVE  /\ Cut(thread) \in [Threads -> ThreadType]
           /\ \A t \in Threads :
                \/ Cut(thread)[t] = thread[t]
                \/ /\ thread[t].pc = "send" /\ thread[t].conn = current
                   /\ Cut(thread)[t] = [thread[t] EXCEPT !.cut = TRUE]
BY DEF Cut, Types, ThreadType

\* The statuses that depend on nothing, and the tokens after a drop.
LEMMA ConstantTypes ==
    ASSUME MaxRetries \in Nat
    PROVE  /\ NoSession \in SessionType
           /\ 0 \in Connections => Idle \in ThreadType
           /\ \A token \in Tokens : Spoil(token) \in Tokens
BY DEF NoSession, SessionType, Tokens, Idle, ThreadType, Pcs, Results, Spoil

\* Changing one field of a thread keeps its type.
LEMMA FieldTypes ==
    ASSUME NEW x \in ThreadType
    PROVE  /\ \A v \in Pcs : [x EXCEPT !.pc = v] \in ThreadType
           /\ \A v \in Connections : [x EXCEPT !.conn = v] \in ThreadType
           /\ \A v \in Tokens : [x EXCEPT !.token = v] \in ThreadType
           /\ \A v \in 0..MaxRetries : [x EXCEPT !.tries = v] \in ThreadType
           /\ \A v \in BOOLEAN : /\ [x EXCEPT !.again = v] \in ThreadType
                                 /\ [x EXCEPT !.cut = v] \in ThreadType
                                 /\ [x EXCEPT !.moved = v] \in ThreadType
                                 /\ [x EXCEPT !.hit = v] \in ThreadType
           /\ \A v \in Results : [x EXCEPT !.result = v] \in ThreadType
BY DEF ThreadType

\* A thread that goes on, ends its call or gets its token keeps its type.
LEMMA GotoType ==
    ASSUME Types, NEW t \in Threads, NEW pc \in Pcs, Goto(t, pc)
    PROVE  thread' \in [Threads -> ThreadType]
BY FieldTypes DEF Goto, Types

LEMMA EndType ==
    ASSUME Types, NEW t \in Threads, NEW r \in Results, End(t, r)
    PROVE  thread' \in [Threads -> ThreadType]
<1>1. [thread[t] EXCEPT !.pc = "idle"] \in ThreadType
  BY FieldTypes DEF Types, Pcs
<1>2. [thread[t] EXCEPT !.pc = "idle", !.result = r] \in ThreadType
  BY <1>1, FieldTypes
<1>3. QED
  BY <1>2 DEF End, Types

LEMMA GotType ==
    ASSUME Types, NEW t \in Threads, NEW token \in Tokens, MaxRetries \in Nat,
           Got(t, token)
    PROVE  thread' \in [Threads -> ThreadType]
<1>1. [thread[t] EXCEPT !.pc = "send"] \in ThreadType
  BY FieldTypes DEF Types, Pcs
<1>2. [thread[t] EXCEPT !.pc = "send", !.token = token] \in ThreadType
  BY <1>1, FieldTypes
<1>3. [thread[t] EXCEPT !.pc = "send", !.token = token, !.tries = 0]
         \in ThreadType
  <2>1. 0 \in 0..MaxRetries
    OBVIOUS
  <2>2. QED
    BY <1>2, <2>1, FieldTypes
<1>4. [thread[t] EXCEPT !.pc = "send", !.token = token, !.tries = 0,
                        !.cut = FALSE] \in ThreadType
  BY <1>3, FieldTypes
<1>5. QED
  BY <1>4 DEF Got, Types

\* Every step keeps the types.
LEMMA TypeStep ==
    ASSUME Types, IsFiniteSet(Threads), MaxRetries \in Nat, [Next]_vars
    PROVE  Types'
<1> USE DEF Types, factory, bounds, Account, Session, Unlock
<1>n. New \in Connections
  BY NewIsFree
<1>0. 0 \in Connections
  BY FS_CardinalityType DEF Connections
<1>1. CASE UNCHANGED vars
  BY <1>1 DEF vars
<1>a. \A t \in Threads : Account(t) \in Accounts /\ Session(t) \in SessionType
  BY DEF ThreadType
<1>s. ASSUME NEW t \in Threads, NEW x \in SessionType, SetSession(t, x)
      PROVE  session' \in [Accounts -> SessionType]
  BY <1>s, <1>a DEF SetSession
<1>2. ASSUME NEW t \in Threads, Call(t)
      PROVE  Types'
  <2>1. [Idle EXCEPT !.pc = "connect", !.moved = pending] \in ThreadType
    BY <1>0, ConstantTypes DEF ThreadType, Pcs
  <2>2. QED
    BY <1>2, <2>1 DEF Call
<1>3. ASSUME NEW t \in Threads, GetConnection(t)
      PROVE  Types'
  <2>1. current' \in Connections /\ account' \in [Connections -> Accounts]
    BY <1>3, <1>n DEF GetConnection
  <2> DEFINE th == IF Same THEN thread ELSE Cut(thread)
  <2>2. th \in [Threads -> ThreadType]
    BY CutTypes
  <2>3. thread' = [th EXCEPT ![t] = [th[t] EXCEPT !.pc = "token", !.conn = current']]
    BY <1>3 DEF GetConnection
  <2> HIDE DEF th
  <2>4. [th[t] EXCEPT !.pc = "token"] \in ThreadType
    BY <2>2, FieldTypes DEF Pcs
  <2>5. [th[t] EXCEPT !.pc = "token", !.conn = current'] \in ThreadType
    BY <2>1, <2>4, FieldTypes
  <2>6. thread' \in [Threads -> ThreadType]
    BY <2>2, <2>3, <2>5
  <2>7. QED
    BY <1>3, <2>1, <2>6 DEF GetConnection
<1>4. CASE Save
  BY <1>4 DEF Save, ThreadType
<1>5. CASE Reconnect
  BY <1>5, <1>n, CutTypes DEF Reconnect
<1>6. ASSUME NEW t \in Threads, GetToken(t)
      PROVE  Types'
  <2>1. thread' \in [Threads -> ThreadType]
    BY <1>6, <1>a, GotoType, GotType DEF GetToken, SessionType, Pcs
  <2>2. QED
    BY <1>6, <1>a, <2>1 DEF GetToken
<1>7. ASSUME NEW t \in Threads, Sleep(t)
      PROVE  Types'
  <2>1. thread' \in [Threads -> ThreadType]
    BY <1>7, GotoType DEF Sleep, Pcs
  <2>2. session' \in [Accounts -> SessionType]
    BY <1>7, <1>a, <1>s DEF Sleep, SessionType
  <2>3. QED
    BY <1>7, <2>1, <2>2 DEF Sleep
<1>8. ASSUME NEW t \in Threads, Refresh(t)
      PROVE  Types'
  <2>1. thread' \in [Threads -> ThreadType]
    BY <1>8, GotType DEF Refresh, Tokens
  <2>2. session' \in [Accounts -> SessionType]
    BY <1>8, <1>a, <1>s DEF Refresh, SessionType, Tokens
  <2>3. QED
    BY <1>8, <1>a, <2>1, <2>2 DEF Refresh
<1>9. ASSUME NEW t \in Threads, RefreshFails(t)
      PROVE  Types'
  <2>1. thread' \in [Threads -> ThreadType]
    BY <1>9, GotoType DEF RefreshFails, Pcs
  <2>2. QED
    BY <1>9, <2>1 DEF RefreshFails
<1>10. ASSUME NEW t \in Threads, Login(t)
       PROVE  Types'
  <2>1. thread' \in [Threads -> ThreadType]
    BY <1>10, GotType DEF Login, Tokens
  <2>2. session' \in [Accounts -> SessionType]
    BY <1>10, <1>s DEF Login, SessionType, Tokens
  <2>3. QED
    BY <1>10, <1>a, <2>1, <2>2 DEF Login
<1>11. ASSUME NEW t \in Threads, LoginFails(t)
       PROVE  Types'
  <2>1. thread' \in [Threads -> ThreadType]
    BY <1>11, EndType DEF LoginFails, Results
  <2>2. session' \in [Accounts -> SessionType]
    BY <1>11, <1>a, <1>s DEF LoginFails, SessionType
  <2>3. QED
    BY <1>11, <1>a, <2>1, <2>2 DEF LoginFails
<1>12. ASSUME NEW t \in Threads, Clear(t)
       PROVE  Types'
  <2> DEFINE x == [thread[t] EXCEPT !.pc = "token"]
             y == [x EXCEPT !.again = TRUE]
  <2>a. x \in ThreadType
    BY FieldTypes DEF Pcs
  <2>b. y \in ThreadType
    BY <2>a, FieldTypes
  <2>c. [y EXCEPT !.hit = FALSE] \in ThreadType
    BY <2>b, FieldTypes
  <2>1. thread' \in [Threads -> ThreadType]
    BY <1>12, <2>c DEF Clear
  <2>2. session' \in [Accounts -> SessionType]
    BY <1>12, <1>s, ConstantTypes DEF Clear, Cleared
  <2>3. QED
    BY <1>12, <2>1, <2>2 DEF Clear
<1>13. ASSUME NEW t \in Threads, Answered(t) \/ Refused(t) \/ Raised(t)
       PROVE  Types'
  <2>1. thread' \in [Threads -> ThreadType]
    BY <1>13, GotoType, EndType DEF Answered, Refused, Raised, Results, Pcs
  <2>2. QED
    BY <1>13, <2>1 DEF Answered, Refused, Raised
<1>14. ASSUME NEW t \in Threads, Repeat(t)
       PROVE  Types'
  <2>1. CASE thread[t].tries < MaxRetries
    <3>1. thread[t].tries + 1 \in 0..MaxRetries
      BY <2>1 DEF ThreadType
    <3>2. thread' = [thread EXCEPT ![t] =
                        [thread[t] EXCEPT !.tries = thread[t].tries + 1]]
      BY <1>14, <2>1 DEF Repeat
    <3>3. thread' \in [Threads -> ThreadType]
      BY <3>1, <3>2 DEF ThreadType
    <3>4. QED
      BY <1>14, <3>3 DEF Repeat
  <2>2. CASE ~(thread[t].tries < MaxRetries)
    <3>1. thread' \in [Threads -> ThreadType]
      BY <1>14, <2>2, EndType DEF Repeat, Results
    <3>2. QED
      BY <1>14, <3>1 DEF Repeat
  <2>3. QED
    BY <2>1, <2>2
<1>15. ASSUME NEW a \in Accounts, Old(a)
       PROVE  Types'
  BY <1>15 DEF Old, SessionType
<1>16. ASSUME NEW a \in Accounts, NEW all \in BOOLEAN, Drop(a, all)
       PROVE  Types'
  <2> DEFINE x == [session[a] EXCEPT
                     !.access = Spoil(@),
                     !.refresh = IF all THEN Spoil(@) ELSE @]
  <2>a. /\ session[a] \in SessionType
        /\ Spoil(session[a].access) \in Tokens
        /\ Spoil(session[a].refresh) \in Tokens
    BY ConstantTypes DEF SessionType
  <2>b. x \in SessionType
    BY <2>a DEF SessionType
  <2>1. session' \in [Accounts -> SessionType]
    BY <1>16, <2>b DEF Drop
  <2>c. ASSUME NEW t \in Threads
        PROVE  [thread[t] EXCEPT !.token = Spoil(@), !.hit = TRUE] \in ThreadType
    <3>1. Spoil(thread[t].token) \in Tokens
      BY ConstantTypes DEF ThreadType
    <3>2. [thread[t] EXCEPT !.token = Spoil(thread[t].token)] \in ThreadType
      BY <3>1, FieldTypes
    <3>3. QED
      BY <3>2, FieldTypes
  <2>2. thread' \in [Threads -> ThreadType]
    BY <1>16, <2>c DEF Drop
  <2>3. QED
    BY <1>16, <2>1, <2>2 DEF Drop
<1>17. QED
  BY <1>1, <1>2, <1>3, <1>4, <1>5, <1>6, <1>7, <1>8, <1>9, <1>10, <1>11,
     <1>12, <1>13, <1>14, <1>15, <1>16 DEF Next

\* Every variable keeps its type, for any number of threads and accounts: in
\* particular nobody holds a lock that is not a thread, and no request is
\* repeated more often than settings.api.retry_count says.
THEOREM TypeCorrect ==
    ASSUME IsFiniteSet(Threads), MaxRetries \in Nat
    PROVE  Spec => [](Types /\ TypeOK)
<1>1. Init => Types
  <2> SUFFICES ASSUME Init PROVE Types
    OBVIOUS
  <2>1. 0 \in Connections
    BY FS_CardinalityType DEF Connections
  <2>2. QED
    BY <2>1, ConstantTypes DEF Init, Types
<1>2. Types /\ [Next]_vars => Types'
  BY TypeStep
<1>3. Types => TypeOK
  BY DEF Types, TypeOK, SessionType, ThreadType
<1>4. QED
  BY <1>1, <1>2, <1>3, PTL DEF Spec

-----------------------------------------------------------------------------
(* The connection of a call *)

\* Once the settings are saved, every call that is under way knows it, until the
\* connection that was made before is gone.
MovedInv == pending => \A t \in Threads : thread[t].pc # "idle" => thread[t].moved

\* A call that has its connection goes to the account of the settings, or the
\* settings were saved since it began; so was it when its client was closed.
ConnectionInv ==
    \A t \in Threads :
       /\ Connected(t) => /\ thread[t].conn # 0
                          /\ Account(t) = saved \/ thread[t].moved
       /\ thread[t].pc = "send" /\ thread[t].cut => thread[t].moved
       /\ thread[t].result = "raised" => thread[t].moved

\* What a thread may do that has its connection: it changes its own call only,
\* and keeps the connection and the mark moved.
Keeps(t) ==
    /\ UNCHANGED factory /\ Connected(t)
    /\ \A u \in Threads \ {t} : thread'[u] = thread[u]
    /\ thread'[t].moved = thread[t].moved /\ thread'[t].conn = thread[t].conn
    /\ thread'[t].pc # "connect"
    /\ thread'[t].pc = "send" /\ thread'[t].cut
          => thread[t].pc = "send" /\ thread[t].cut
    /\ thread'[t].result = "raised"
          => \/ thread[t].pc = "send" /\ thread[t].cut
             \/ thread[t].result = "raised"

\* What goes on, ends or gets a token is the thread itself, in these fields.
LEMMA GotoFields ==
    ASSUME Types, NEW t \in Threads, NEW pc, Goto(t, pc)
    PROVE  /\ \A u \in Threads \ {t} : thread'[u] = thread[u]
           /\ thread'[t].pc = pc
           /\ thread'[t].conn = thread[t].conn /\ thread'[t].cut = thread[t].cut
           /\ thread'[t].moved = thread[t].moved
           /\ thread'[t].result = thread[t].result
           /\ thread'[t].again = thread[t].again /\ thread'[t].hit = thread[t].hit
           /\ thread'[t].token = thread[t].token
BY DEF Types, ThreadType, Goto

LEMMA EndFields ==
    ASSUME Types, NEW t \in Threads, NEW r, End(t, r)
    PROVE  /\ \A u \in Threads \ {t} : thread'[u] = thread[u]
           /\ thread'[t].pc = "idle" /\ thread'[t].result = r
           /\ thread'[t].conn = thread[t].conn
           /\ thread'[t].moved = thread[t].moved
           /\ thread'[t].again = thread[t].again /\ thread'[t].hit = thread[t].hit
           /\ thread'[t].token = thread[t].token
BY DEF Types, ThreadType, End

LEMMA GotFields ==
    ASSUME Types, NEW t \in Threads, NEW token, Got(t, token)
    PROVE  /\ \A u \in Threads \ {t} : thread'[u] = thread[u]
           /\ thread'[t].pc = "send" /\ thread'[t].token = token
           /\ thread'[t].cut = FALSE
           /\ thread'[t].conn = thread[t].conn
           /\ thread'[t].moved = thread[t].moved
           /\ thread'[t].result = thread[t].result
           /\ thread'[t].again = thread[t].again /\ thread'[t].hit = thread[t].hit
BY DEF Types, ThreadType, Got

\* A request that is repeated, and a call that starts over.
LEMMA RepeatFields ==
    ASSUME Types, NEW t \in Threads,
           thread' = [thread EXCEPT ![t].tries = @ + 1]
    PROVE  /\ \A u \in Threads \ {t} : thread'[u] = thread[u]
           /\ thread'[t].pc = thread[t].pc /\ thread'[t].cut = thread[t].cut
           /\ thread'[t].conn = thread[t].conn
           /\ thread'[t].moved = thread[t].moved
           /\ thread'[t].result = thread[t].result
           /\ thread'[t].again = thread[t].again /\ thread'[t].hit = thread[t].hit
           /\ thread'[t].token = thread[t].token
BY DEF Types, ThreadType

LEMMA ClearFields ==
    ASSUME Types, NEW t \in Threads, Clear(t)
    PROVE  /\ \A u \in Threads \ {t} : thread'[u] = thread[u]
           /\ thread'[t].pc = "token" /\ thread'[t].conn = thread[t].conn
           /\ thread'[t].moved = thread[t].moved
           /\ thread'[t].result = thread[t].result
           /\ thread'[t].again = TRUE /\ thread'[t].hit = FALSE
BY DEF Types, ThreadType, Clear

\* The calls of the tokens and of the request do that.
LEMMA StepsKeep ==
    ASSUME Types, NEW t \in Threads,
           \/ GetToken(t) \/ Sleep(t) \/ Refresh(t) \/ RefreshFails(t)
           \/ Login(t) \/ LoginFails(t) \/ Clear(t)
           \/ Answered(t) \/ Refused(t) \/ Repeat(t) \/ Raised(t)
    PROVE  Keeps(t)
<1> USE DEF Keeps, Connected
<1>1. CASE GetToken(t)
  <2>1. thread[t].pc = "token" /\ UNCHANGED factory
    BY <1>1 DEF GetToken
  <2>2. \/ Got(t, Session(t).access)
        \/ Goto(t, "sleep") \/ Goto(t, "refresh")
    BY <1>1 DEF GetToken
  <2>3. CASE Got(t, Session(t).access)
    BY <2>1, <2>3, GotFields
  <2>4. CASE Goto(t, "sleep")
    BY <2>1, <2>4, GotoFields
  <2>5. CASE Goto(t, "refresh")
    BY <2>1, <2>5, GotoFields
  <2>6. QED
    BY <2>2, <2>3, <2>4, <2>5
<1>2. CASE Sleep(t) \/ RefreshFails(t)
  <2>1. thread[t].pc \in {"sleep", "refresh"} /\ UNCHANGED factory
    BY <1>2 DEF Sleep, RefreshFails
  <2>2. Goto(t, "refresh") \/ Goto(t, "login")
    BY <1>2 DEF Sleep, RefreshFails
  <2>3. CASE Goto(t, "refresh")
    BY <2>1, <2>3, GotoFields
  <2>4. CASE Goto(t, "login")
    BY <2>1, <2>4, GotoFields
  <2>5. QED
    BY <2>2, <2>3, <2>4
<1>3. CASE Refresh(t) \/ Login(t)
  <2>1. thread[t].pc \in {"login", "refresh"} /\ UNCHANGED factory
    BY <1>3 DEF Refresh, Login
  <2>2. Got(t, "good")
    BY <1>3 DEF Refresh, Login
  <2>3. QED
    BY <2>1, <2>2, GotFields
<1>4. CASE LoginFails(t) \/ Answered(t) \/ Raised(t)
  <2>1. thread[t].pc \in {"login", "send"} /\ UNCHANGED factory
    BY <1>4 DEF LoginFails, Answered, Raised, Sending
  <2>2. \/ End(t, "no_token") \/ End(t, "ok")
        \/ End(t, "raised") /\ thread[t].pc = "send" /\ thread[t].cut
    BY <1>4 DEF LoginFails, Answered, Raised
  <2>3. CASE End(t, "no_token")
    BY <2>1, <2>3, EndFields
  <2>4. CASE End(t, "ok")
    BY <2>1, <2>4, EndFields
  <2>5. CASE /\ End(t, "raised") /\ thread[t].pc = "send" /\ thread[t].cut
    BY <2>1, <2>5, EndFields
  <2>6. QED
    BY <2>2, <2>3, <2>4, <2>5
<1>5. CASE Clear(t)
  BY <1>5, ClearFields DEF Clear
<1>6. CASE Refused(t)
  <2>1. thread[t].pc = "send" /\ UNCHANGED factory
    BY <1>6 DEF Refused, Sending
  <2>2. End(t, "401") \/ Goto(t, "clear")
    BY <1>6 DEF Refused
  <2>3. CASE End(t, "401")
    BY <2>1, <2>3, EndFields
  <2>4. CASE Goto(t, "clear")
    BY <2>1, <2>4, GotoFields
  <2>5. QED
    BY <2>2, <2>3, <2>4
<1>7. CASE Repeat(t)
  <2>1. thread[t].pc = "send" /\ UNCHANGED factory
    BY <1>7 DEF Repeat, Sending
  <2>2. \/ thread' = [thread EXCEPT ![t].tries = @ + 1]
        \/ End(t, "failed")
    BY <1>7 DEF Repeat
  <2>3. CASE thread' = [thread EXCEPT ![t].tries = @ + 1]
    BY <2>1, <2>3, RepeatFields
  <2>4. CASE End(t, "failed")
    BY <2>1, <2>4, EndFields
  <2>5. QED
    BY <2>2, <2>3, <2>4
<1>8. QED
  BY <1>1, <1>2, <1>3, <1>4, <1>5, <1>6, <1>7

\* Every step keeps what is known of the connections.
LEMMA ConnectionStep ==
    ASSUME Types, IsFiniteSet(Threads), MovedInv, ConnectionInv, [Next]_vars
    PROVE  MovedInv' /\ ConnectionInv'
<1> USE DEF factory, bounds, MovedInv, ConnectionInv, Connected, Account
<1>t. \A t \in Threads : thread[t] \in ThreadType
  BY DEF Types
<1>1. CASE UNCHANGED vars
  BY <1>1 DEF vars
<1>2. ASSUME NEW t \in Threads, Call(t)
      PROVE  MovedInv' /\ ConnectionInv'
  BY <1>2 DEF Call, Types, Idle
<1>3. ASSUME NEW t \in Threads, GetConnection(t)
      PROVE  MovedInv' /\ ConnectionInv'
  <2> DEFINE th == IF Same THEN thread ELSE Cut(thread)
  <2>1. /\ thread' = [th EXCEPT ![t] = [@ EXCEPT !.pc = "token", !.conn = current']]
        /\ current' = IF Same THEN current ELSE New
        /\ account' = [account EXCEPT ![current'] = saved]
        /\ saved' = saved /\ pending' = pending /\ thread[t].pc = "connect"
    BY <1>3 DEF GetConnection
  <2>2. \A u \in Threads :
           \/ th[u] = thread[u]
           \/ /\ thread[u].pc = "send" /\ thread[u].conn = current /\ ~Same
              /\ th[u] = [thread[u] EXCEPT !.cut = TRUE]
    BY CutTypes
  <2>3. th \in [Threads -> ThreadType]
    BY CutTypes DEF Types
  <2>4. /\ New \in Connections \ {0}
        /\ \A u \in Threads : thread[u].pc # "idle" => thread[u].conn # New
    BY NewIsFree DEF Free
  <2>5. current' # 0 /\ account'[current'] = saved
    BY <2>1, <2>4 DEF Same, Types
  <2>6. \A u \in Threads : thread[u].pc = "send" /\ thread[u].conn = current
                             /\ ~Same => thread[u].moved
    BY DEF Same
  <2>7. \A u \in Threads : Connected(u) => account'[thread[u].conn] \in
             {account[thread[u].conn], saved}
    BY <2>1, <2>4 DEF Types, ThreadType
  <2> HIDE DEF th
  <2>8. /\ thread'[t].pc = "token" /\ thread'[t].conn = current'
        /\ thread'[t].moved = thread[t].moved /\ thread'[t].result = thread[t].result
    BY <2>1, <2>2, <2>3 DEF ThreadType
  <2>9. \A u \in Threads \ {t} :
           /\ thread'[u].pc = thread[u].pc /\ thread'[u].conn = thread[u].conn
           /\ thread'[u].moved = thread[u].moved
           /\ thread'[u].result = thread[u].result
           /\ \/ thread'[u].cut = thread[u].cut
              \/ thread[u].pc = "send" /\ thread[u].conn = current /\ ~Same
    BY <2>1, <2>2, <2>3, <1>t DEF ThreadType
  <2>10. QED
    BY <2>1, <2>5, <2>6, <2>7, <2>8, <2>9
<1>4. CASE Save
  BY <1>4, <1>t DEF Save, ThreadType
<1>5. CASE Reconnect
  <2>1. /\ New \in Connections \ {0}
        /\ \A u \in Threads : thread[u].pc # "idle" => thread[u].conn # New
    BY NewIsFree DEF Free
  <2>2. \A u \in Threads :
           /\ thread'[u].pc = thread[u].pc /\ thread'[u].conn = thread[u].conn
           /\ thread'[u].moved = thread[u].moved
           /\ thread'[u].result = thread[u].result
           /\ thread'[u].cut = thread[u].cut \/ thread[u].pc = "send"
    BY <1>5, <1>t, CutTypes DEF Reconnect, ThreadType
  <2>3. \A u \in Threads : thread[u].pc # "idle" => thread[u].moved
    BY <1>5 DEF Reconnect
  <2>4. QED
    BY <1>5, <2>1, <2>2, <2>3 DEF Reconnect
<1>6. ASSUME NEW t \in Threads, Keeps(t)
      PROVE  MovedInv' /\ ConnectionInv'
  BY <1>6 DEF Keeps
<1>7. ASSUME NEW a \in Accounts, Old(a)
      PROVE  MovedInv' /\ ConnectionInv'
  BY <1>7 DEF Old
<1>8. ASSUME NEW a \in Accounts, NEW all \in BOOLEAN, Drop(a, all)
      PROVE  MovedInv' /\ ConnectionInv'
  <2>1. \A u \in Threads :
           /\ thread'[u].pc = thread[u].pc /\ thread'[u].conn = thread[u].conn
           /\ thread'[u].moved = thread[u].moved
           /\ thread'[u].result = thread[u].result
           /\ thread'[u].cut = thread[u].cut
    BY <1>8, <1>t DEF Drop, ThreadType
  <2>2. UNCHANGED <<saved, pending, current, account>>
    BY <1>8 DEF Drop
  <2>3. QED
    BY <2>1, <2>2
<1>9. QED
  BY <1>1, <1>2, <1>3, <1>4, <1>5, <1>6, <1>7, <1>8, StepsKeep DEF Next

-----------------------------------------------------------------------------
(* The tokens of a call that started over *)

\* A call that cleared the tokens, and that no token was dropped for since, has
\* none that the server refuses, and will find none: whoever refreshes, logs in,
\* waits or clears meanwhile.
Clean(t) ==
    /\ thread[t].pc # "idle" => thread[t].result = "none"
    /\ thread[t].pc = "connect" => ~thread[t].again
    /\ thread[t].again /\ ~thread[t].hit =>
         /\ thread[t].pc \in {"token", "sleep", "refresh", "login"} =>
              Session(t).access # "bad" /\ Session(t).refresh # "bad"
         /\ thread[t].pc = "send" => thread[t].token # "bad"
    /\ thread[t].result = "401" => thread[t].hit

HitInv == \A t \in Threads : Clean(t)

\* A step that makes no token bad.
NoneSpoiled ==
    \A a \in Accounts :
       /\ session'[a].access = "bad" => session[a].access = "bad"
       /\ session'[a].refresh = "bad" => session[a].refresh = "bad"

\* Only the server makes tokens bad.
LEMMA CallsSpoilNone ==
    ASSUME Types, NEW t \in Threads,
           \/ GetToken(t) \/ Sleep(t) \/ Refresh(t) \/ RefreshFails(t)
           \/ Login(t) \/ LoginFails(t) \/ Clear(t)
           \/ Answered(t) \/ Refused(t) \/ Repeat(t) \/ Raised(t)
    PROVE  NoneSpoiled /\ account' = account
<1> USE DEF NoneSpoiled, factory
<1>a. Account(t) \in Accounts /\ session \in [Accounts -> SessionType]
  BY DEF Types, ThreadType, Account
<1>s. \A a \in Accounts : session[a] \in SessionType
  BY <1>a
<1>1. CASE Sleep(t)
  BY <1>1, <1>a, <1>s DEF Sleep, SetSession, Session, SessionType
<1>2. CASE Refresh(t)
  BY <1>2, <1>a, <1>s DEF Refresh, SetSession, Session, SessionType
<1>3. CASE Login(t)
  BY <1>3, <1>a DEF Login, SetSession
<1>4. CASE LoginFails(t)
  <2>1. PICK throttled \in BOOLEAN :
           session' = [session EXCEPT ![Account(t)] =
              [session[Account(t)] EXCEPT !.throttled = throttled]]
    BY <1>4, <1>a, <1>s DEF LoginFails, SetSession, Session, SessionType
  <2>2. QED
    BY <1>4, <1>a, <1>s, <2>1 DEF LoginFails, SessionType
<1>5. CASE Clear(t)
  BY <1>5, <1>a DEF Clear, SetSession, Cleared, NoSession
<1>6. CASE GetToken(t) \/ RefreshFails(t) \/ Answered(t) \/ Refused(t)
           \/ Repeat(t) \/ Raised(t)
  BY <1>6 DEF GetToken, RefreshFails, Answered, Refused, Repeat, Raised
<1>7. QED
  BY <1>1, <1>2, <1>3, <1>4, <1>5, <1>6

\* A call stays clean through a step that is not its own.
LEMMA OthersStayClean ==
    ASSUME Types, NEW u \in Threads, Clean(u), NoneSpoiled,
           thread[u].pc = "idle" \/ account'[thread[u].conn] = Account(u),
           thread'[u].pc = thread[u].pc, thread'[u].conn = thread[u].conn,
           thread'[u].again = thread[u].again, thread'[u].hit = thread[u].hit,
           thread'[u].token = thread[u].token,
           thread'[u].result = thread[u].result
    PROVE  Clean(u)'
<1>1. Account(u) \in Accounts
  BY DEF Types, ThreadType, Account
<1>2. QED
  BY <1>1 DEF Clean, NoneSpoiled, Session, Account

\* And through its own steps, whatever the tokens it finds are.
LEMMA OwnStepIsClean ==
    ASSUME Types, NEW t \in Threads, Clean(t), NoneSpoiled, account' = account,
           \/ GetToken(t) \/ Sleep(t) \/ Refresh(t) \/ RefreshFails(t)
           \/ Login(t) \/ LoginFails(t) \/ Clear(t)
           \/ Answered(t) \/ Refused(t) \/ Repeat(t) \/ Raised(t)
    PROVE  Clean(t)'
<1> USE DEF Clean
<1>a. Account(t) \in Accounts /\ session \in [Accounts -> SessionType]
  BY DEF Types, ThreadType, Account
<1>b. thread[t].conn = thread'[t].conn => Account(t)' = Account(t)
  BY DEF Account
<1>c. thread[t].conn = thread'[t].conn
        => /\ Session(t)'.access = "bad" => Session(t).access = "bad"
           /\ Session(t)'.refresh = "bad" => Session(t).refresh = "bad"
  BY <1>a, <1>b DEF NoneSpoiled, Session
<1>1. CASE GetToken(t)
  <2>1. thread[t].pc = "token"
    BY <1>1 DEF GetToken
  <2>2. \/ Got(t, Session(t).access)
        \/ Goto(t, "sleep") \/ Goto(t, "refresh")
    BY <1>1 DEF GetToken
  <2>3. CASE Got(t, Session(t).access)
    BY <2>1, <2>3, GotFields
  <2>4. CASE Goto(t, "sleep")
    BY <1>c, <2>1, <2>4, GotoFields
  <2>5. CASE Goto(t, "refresh")
    BY <1>c, <2>1, <2>5, GotoFields
  <2>6. QED
    BY <2>2, <2>3, <2>4, <2>5
<1>2. CASE Sleep(t)
  <2>1. thread[t].pc = "sleep" /\ Goto(t, "refresh")
    BY <1>2 DEF Sleep
  <2>2. QED
    BY <1>c, <2>1, GotoFields
<1>3. CASE RefreshFails(t)
  <2>1. thread[t].pc = "refresh" /\ Goto(t, "login")
    BY <1>3 DEF RefreshFails
  <2>2. QED
    BY <1>c, <2>1, GotoFields
<1>4. CASE Refresh(t) \/ Login(t)
  <2>1. thread[t].pc \in {"refresh", "login"} /\ Got(t, "good")
    BY <1>4 DEF Refresh, Login
  <2>2. /\ thread'[t].pc = "send" /\ thread'[t].token = "good"
        /\ thread'[t].result = thread[t].result
    BY <2>1, GotFields
  <2>3. thread[t].result = "none"
    BY <2>1
  <2>4. QED
    BY <2>2, <2>3
<1>5. CASE LoginFails(t)
  <2>1. thread[t].pc = "login" /\ End(t, "no_token")
    BY <1>5 DEF LoginFails
  <2>2. QED
    BY <2>1, EndFields
<1>6. CASE Clear(t)
  <2>1. thread[t].pc = "clear" /\ Session(t)' = NoSession
    <3>1. thread'[t].conn = thread[t].conn
      BY <1>6, ClearFields
    <3>2. Account(t)' = Account(t)
      BY <1>b, <3>1
    <3>3. session'[Account(t)] = NoSession
      BY <1>6, <1>a DEF Clear, SetSession, Cleared
    <3>4. QED
      BY <1>6, <3>2, <3>3 DEF Session, Clear
  <2>2. Session(t)'.access = "none" /\ Session(t)'.refresh = "none"
    BY <2>1 DEF NoSession
  <2>3. /\ thread'[t].pc = "token" /\ thread'[t].result = thread[t].result
        /\ thread[t].result = "none"
    BY <1>6, <2>1, ClearFields
  <2>4. QED
    BY <2>2, <2>3
<1>7. CASE Answered(t)
  <2>1. thread[t].pc = "send" /\ End(t, "ok")
    BY <1>7 DEF Answered, Sending
  <2>2. QED
    BY <2>1, EndFields
<1>8. CASE Raised(t)
  <2>1. thread[t].pc = "send" /\ End(t, "raised")
    BY <1>8 DEF Raised
  <2>2. QED
    BY <2>1, EndFields
<1>9. CASE Refused(t)
  <2>1. thread[t].pc = "send" /\ thread[t].token = "bad"
    BY <1>9 DEF Refused, Sending
  <2>2. CASE thread[t].again
    <3>1. End(t, "401")
      BY <1>9, <2>2 DEF Refused
    <3>2. QED
      BY <2>1, <2>2, <3>1, EndFields
  <2>3. CASE ~thread[t].again
    <3>1. Goto(t, "clear")
      BY <1>9, <2>3 DEF Refused
    <3>2. QED
      BY <2>1, <2>3, <3>1, GotoFields
  <2>4. QED
    BY <2>2, <2>3
<1>10. CASE Repeat(t)
  <2>1. thread[t].pc = "send"
    BY <1>10 DEF Repeat, Sending
  <2>2. \/ thread' = [thread EXCEPT ![t].tries = @ + 1]
        \/ End(t, "failed")
    BY <1>10 DEF Repeat
  <2>3. CASE thread' = [thread EXCEPT ![t].tries = @ + 1]
    BY <2>1, <2>3, RepeatFields
  <2>4. CASE End(t, "failed")
    BY <2>1, <2>4, EndFields
  <2>5. QED
    BY <2>2, <2>3, <2>4
<1>11. QED
  BY <1>1, <1>2, <1>3, <1>4, <1>5, <1>6, <1>7, <1>8, <1>9, <1>10

\* Every step of the factory, the server and the settings keeps calls clean, too.
LEMMA HitStep ==
    ASSUME Types, IsFiniteSet(Threads), HitInv, [Next]_vars
    PROVE  HitInv'
<1> USE DEF HitInv
<1>t. \A t \in Threads : thread[t] \in ThreadType
  BY DEF Types
<1>1. CASE UNCHANGED vars
  BY <1>1 DEF vars, factory, bounds, Clean, Session, Account
<1>2. ASSUME NEW t \in Threads, Call(t)
      PROVE  HitInv'
  <2>1. NoneSpoiled /\ account' = account
    BY <1>2 DEF Call, NoneSpoiled, factory
  <2>2. /\ thread'[t].pc = "connect" /\ ~thread'[t].again
        /\ thread'[t].result = "none"
        /\ \A u \in Threads \ {t} : thread'[u] = thread[u]
    BY <1>2 DEF Call, Types, Idle
  <2>3. Clean(t)'
    BY <2>2 DEF Clean
  <2>4. QED
    BY <2>1, <2>2, <2>3, OthersStayClean DEF Account
<1>3. ASSUME NEW t \in Threads, GetConnection(t)
      PROVE  HitInv'
  <2> DEFINE th == IF Same THEN thread ELSE Cut(thread)
  <2>1. /\ thread' = [th EXCEPT ![t] = [@ EXCEPT !.pc = "token", !.conn = current']]
        /\ current' = IF Same THEN current ELSE New
        /\ account' = [account EXCEPT ![current'] = saved]
        /\ session' = session /\ thread[t].pc = "connect"
    BY <1>3 DEF GetConnection
  <2>2. /\ th \in [Threads -> ThreadType]
        /\ \A u \in Threads :
             th[u] = thread[u] \/ th[u] = [thread[u] EXCEPT !.cut = TRUE]
    BY CutTypes DEF Types
  <2>3. \A u \in Threads : thread[u].pc = "idle"
                             \/ account'[thread[u].conn] = Account(u)
    BY <2>1, <1>t, NewIsFree DEF Free, Same, Types, ThreadType, Account
  <2> HIDE DEF th
  <2>4. /\ thread'[t].pc = "token" /\ ~thread'[t].again
        /\ thread'[t].result = "none"
    BY <2>1, <2>2 DEF Clean, ThreadType
  <2>5. \A u \in Threads \ {t} :
           /\ thread'[u].pc = thread[u].pc /\ thread'[u].conn = thread[u].conn
           /\ thread'[u].again = thread[u].again /\ thread'[u].hit = thread[u].hit
           /\ thread'[u].token = thread[u].token
           /\ thread'[u].result = thread[u].result
    BY <2>1, <2>2, <1>t DEF ThreadType
  <2>6. NoneSpoiled
    BY <2>1 DEF NoneSpoiled
  <2>7. Clean(t)'
    BY <2>4 DEF Clean
  <2>8. ASSUME NEW u \in Threads \ {t}
        PROVE  Clean(u)'
    BY <2>3, <2>5, <2>6, OthersStayClean
  <2>9. QED
    BY <2>7, <2>8
<1>4. CASE Save \/ Reconnect
  <2>1. \A u \in Threads :
           /\ thread'[u].pc = thread[u].pc /\ thread'[u].conn = thread[u].conn
           /\ thread'[u].again = thread[u].again /\ thread'[u].hit = thread[u].hit
           /\ thread'[u].token = thread[u].token
           /\ thread'[u].result = thread[u].result
    BY <1>4, <1>t, CutTypes DEF Save, Reconnect, ThreadType
  <2>2. \A u \in Threads : thread[u].pc = "idle"
                             \/ account'[thread[u].conn] = Account(u)
    BY <1>4, <1>t, NewIsFree DEF Save, Reconnect, Free, Types, ThreadType,
                                 Account
  <2>3. NoneSpoiled
    BY <1>4 DEF NoneSpoiled, Save, Reconnect
  <2>4. QED
    BY <2>1, <2>2, <2>3, OthersStayClean
<1>5. ASSUME NEW t \in Threads,
             \/ GetToken(t) \/ Sleep(t) \/ Refresh(t) \/ RefreshFails(t)
             \/ Login(t) \/ LoginFails(t) \/ Clear(t)
             \/ Answered(t) \/ Refused(t) \/ Repeat(t) \/ Raised(t)
      PROVE  HitInv'
  <2>1. NoneSpoiled /\ account' = account
    BY <1>5, CallsSpoilNone
  <2>2. Clean(t)'
    BY <1>5, <2>1, OwnStepIsClean
  <2>3. \A u \in Threads \ {t} : thread'[u] = thread[u]
    BY <1>5, StepsKeep DEF Keeps
  <2>4. ASSUME NEW u \in Threads \ {t}
        PROVE  Clean(u)'
    BY <2>1, <2>3, OthersStayClean DEF Account
  <2>5. QED
    BY <2>2, <2>4
<1>6. ASSUME NEW a \in Accounts, Old(a)
      PROVE  HitInv'
  <2>1. NoneSpoiled /\ account' = account /\ thread' = thread
    BY <1>6 DEF Old, NoneSpoiled, Types, SessionType, factory
  <2>2. QED
    BY <2>1, OthersStayClean DEF Account
<1>7. ASSUME NEW a \in Accounts, NEW all \in BOOLEAN, Drop(a, all)
      PROVE  HitInv'
  <2>1. /\ account' = account
        /\ \A b \in Accounts \ {a} : session'[b] = session[b]
    BY <1>7 DEF Drop, factory, Types
  <2> SUFFICES ASSUME NEW u \in Threads
               PROVE  Clean(u)'
    OBVIOUS
  <2>2. Account(u) \in Accounts
    BY DEF Types, ThreadType, Account
  <2>3. CASE Account(u) = a
    <3>1. /\ thread'[u].pc = thread[u].pc /\ thread'[u].hit
          /\ thread'[u].again = thread[u].again
          /\ thread'[u].result = thread[u].result
      BY <1>7, <1>t, <2>3 DEF Drop, ThreadType
    <3>2. QED
      BY <3>1 DEF Clean
  <2>4. CASE Account(u) # a
    <3>1. thread'[u] = thread[u]
      BY <1>7, <2>4 DEF Drop
    <3>2. QED
      BY <2>1, <2>2, <2>4, <3>1 DEF Clean, Session, Account
  <2>5. QED
    BY <2>3, <2>4
<1>8. QED
  BY <1>1, <1>2, <1>3, <1>4, <1>5, <1>6, <1>7 DEF Next

\* For any number of threads, accounts, retries and faults: a call is refused
\* for good only if the server dropped tokens again after the call cleared them,
\* it loses its HTTP client only if the settings were saved since it began, and
\* its request goes to the account of the settings, as they are or were since.
THEOREM CallsSurviveHolds ==
    ASSUME IsFiniteSet(Threads), MaxRetries \in Nat
    PROVE  Spec => []CallsSurvive
<1>1. Init => MovedInv /\ ConnectionInv /\ HitInv
  BY DEF Init, MovedInv, ConnectionInv, HitInv, Clean, Connected, Idle
<1>2. Types /\ MovedInv /\ ConnectionInv /\ HitInv /\ [Next]_vars
        => MovedInv' /\ ConnectionInv' /\ HitInv'
  BY ConnectionStep, HitStep
<1>3. Types /\ ConnectionInv /\ HitInv => CallsSurvive
  BY DEF CallsSurvive, RefusedTwice, CutByChange, RightAccount, ConnectionInv,
         Connected, HitInv, Clean
<1>4. Spec => []Types
  BY TypeCorrect, PTL
<1>5. QED
  BY <1>1, <1>2, <1>3, <1>4, PTL DEF Spec

=============================================================================
