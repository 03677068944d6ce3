---------------------------- MODULE DispatcharrSession -------------------------
(* How threads call Dispatcharr: the factory's one connection, which is closed *)
(* when the settings change; the tokens, which all connections to an account   *)
(* share; and the request, which repeats what fails and logs in again once     *)
(* when it is refused.                                                         *)
(*                                                                             *)
(* Of a token it matters only whether the server takes it.  The lock of the    *)
(* factory covers no call, so that what happens under it is one step; the lock *)
(* of a session is held through logins and waits.                              *)
EXTENDS Naturals, FiniteSets

CONSTANTS
    Threads,
    Accounts,    \* what the settings may name: a URL, a user and a password
    MaxRetries,  \* settings.api.retry_count
    MaxCalls, MaxFaults, MaxChanges  \* bounds

VARIABLES
    saved,     \* the account in the settings
    pending,   \* the settings were saved, and reconnect is still to come
    current,   \* the factory's connection, 0 if there is none
    account,   \* connections: the account of every one
    session,   \* TokenManager._sessions
    lock,      \* TokenManager._session_locks: the thread that holds it
    thread,    \* what every thread is doing
    calls, faults, changes

factory == <<saved, pending, current, account>>
bounds  == <<calls, faults, changes>>
vars    == <<factory, session, lock, thread, bounds>>

Nobody == "nobody"
Tokens == {"none", "good", "bad"}
Pcs == {"idle", "connect", "token", "sleep", "refresh", "login", "send",
        "clear"}
Results == {"none", "ok", "401", "failed", "no_token", "raised"}

\* A closed connection is forgotten once no thread uses it: one for every
\* thread, the current one and a new one are enough.
Connections == 0..(Cardinality(Threads) + 2)

NoSession == [access |-> "none", refresh |-> "none", fresh |-> FALSE,
              throttled |-> FALSE]

\* cut: the HTTP client of the request was closed.  moved: the settings were
\* saved since the call began.  hit: the server dropped tokens since the call
\* began, or since it cleared them.
Idle == [pc |-> "idle", conn |-> 0, token |-> "none", tries |-> 0,
         again |-> FALSE, cut |-> FALSE, moved |-> FALSE, hit |-> FALSE,
         result |-> "none"]

Init ==
    /\ saved \in Accounts /\ pending = FALSE
    /\ current = 0 /\ account = [k \in Connections |-> saved]
    /\ session = [a \in Accounts |-> NoSession]
    /\ lock = [a \in Accounts |-> Nobody]
    /\ thread = [t \in Threads |-> Idle]
    /\ calls = 0 /\ faults = 0 /\ changes = 0

Account(t) == account[thread[t].conn]
Session(t) == session[Account(t)]
SetSession(t, s) == session' = [session EXCEPT ![Account(t)] = s]
Unlock(t)  == lock' = [lock EXCEPT ![Account(t)] = Nobody]
Goto(t, pc) == thread' = [thread EXCEPT ![t].pc = pc]
End(t, r)  == thread' = [thread EXCEPT ![t] =
                  [@ EXCEPT !.pc = "idle", !.result = r]]
Fault      == faults < MaxFaults /\ faults' = faults + 1

-----------------------------------------------------------------------------
(* DispatcharrFactory                                                       *)

Call(t) ==
    /\ thread[t].pc = "idle" /\ calls < MaxCalls /\ calls' = calls + 1
    /\ thread' = [thread EXCEPT ![t] =
         [Idle EXCEPT !.pc = "connect", !.moved = pending]]
    /\ UNCHANGED <<factory, session, lock, faults, changes>>

\* _close_connection: requests that are under way lose their HTTP client; the
\* others make a new one, for the account of their connection.
Cut(threads) ==
    [t \in Threads |->
       IF threads[t].conn = current /\ threads[t].pc = "send"
       THEN [threads[t] EXCEPT !.cut = TRUE] ELSE threads[t]]

New == CHOOSE k \in Connections \ {0} :
           k # current /\ \A t \in Threads : thread[t].pc = "idle"
                                             \/ thread[t].conn # k

\* Mutant: the settings are not remembered, so that they always seem changed.
SameForgotten == FALSE

\* _get_settings_hash
Same == current # 0 /\ account[current] = saved

GetConnection(t) ==
    /\ thread[t].pc = "connect"
    /\ current' = IF Same THEN current ELSE New
    /\ account' = [account EXCEPT ![current'] = saved]
    /\ thread' = [IF Same THEN thread ELSE Cut(thread) EXCEPT ![t] =
         [@ EXCEPT !.pc = "token", !.conn = current']]
    /\ UNCHANGED <<saved, pending, session, lock, bounds>>

\* update_dispatcharr_settings
Save ==
    /\ ~pending /\ changes < MaxChanges /\ changes' = changes + 1
    /\ \E a \in Accounts \ {saved} : saved' = a
    /\ pending' = TRUE
    /\ thread' = [t \in Threads |-> [thread[t] EXCEPT !.moved = TRUE]]
    /\ UNCHANGED <<current, account, session, lock, calls, faults>>

\* reconnect: the connection is closed, whoever made it for which settings.
Reconnect ==
    /\ pending /\ pending' = FALSE
    /\ current' = New
    /\ account' = [account EXCEPT ![current'] = saved]
    /\ thread' = Cut(thread)
    /\ UNCHANGED <<saved, session, lock, bounds>>

-----------------------------------------------------------------------------
(* TokenManager                                                             *)

\* get_token returned a token: the request takes its HTTP client.
Got(t, token) ==
    thread' = [thread EXCEPT ![t] =
        [@ EXCEPT !.pc = "send", !.token = token, !.tries = 0,
                  !.cut = FALSE]]

GetToken(t) ==
    /\ thread[t].pc = "token" /\ lock[Account(t)] = Nobody
    /\ IF Session(t).access # "none" /\ Session(t).fresh
       THEN Got(t, Session(t).access) /\ UNCHANGED lock
       ELSE /\ lock' = [lock EXCEPT ![Account(t)] = t]
            /\ Goto(t, IF Session(t).throttled THEN "sleep" ELSE "refresh")
    /\ UNCHANGED <<factory, session, bounds>>

\* The sleep, with the lock in hand.
Sleep(t) ==
    /\ thread[t].pc = "sleep"
    /\ SetSession(t, [Session(t) EXCEPT !.throttled = FALSE])
    /\ Goto(t, "refresh")
    /\ UNCHANGED <<factory, lock, bounds>>

Refresh(t) ==
    /\ thread[t].pc = "refresh" /\ Session(t).refresh = "good"
    /\ SetSession(t, [Session(t) EXCEPT !.access = "good", !.fresh = TRUE,
                                        !.throttled = FALSE])
    /\ Unlock(t) /\ Got(t, "good")
    /\ UNCHANGED <<factory, bounds>>

RefreshFails(t) ==
    /\ thread[t].pc = "refresh"
    /\ IF Session(t).refresh = "good" THEN Fault ELSE UNCHANGED faults
    /\ Goto(t, "login")
    /\ UNCHANGED <<factory, session, lock, calls, changes>>

Login(t) ==
    /\ thread[t].pc = "login"
    /\ SetSession(t, [access |-> "good", refresh |-> "good", fresh |-> TRUE,
                      throttled |-> FALSE])
    /\ Unlock(t) /\ Got(t, "good")
    /\ UNCHANGED <<factory, bounds>>

\* Too many logins, another refusal, or no answer
LoginFails(t) ==
    /\ thread[t].pc = "login" /\ Fault
    /\ \E throttled \in {TRUE, Session(t).throttled} :
         SetSession(t, [Session(t) EXCEPT !.throttled = throttled])
    /\ Unlock(t) /\ End(t, "no_token")
    /\ UNCHANGED <<factory, calls, changes>>

\* Mutant: tokens that seem valid are taken for those of another login.
ClearedIfOld(s) == IF s.fresh THEN s ELSE NoSession

\* clear, for everybody, and the throttle with the tokens
Cleared(s) == NoSession

Clear(t) ==
    /\ thread[t].pc = "clear" /\ lock[Account(t)] = Nobody
    /\ SetSession(t, Cleared(Session(t)))
    /\ thread' = [thread EXCEPT ![t] =
         [@ EXCEPT !.pc = "token", !.again = TRUE, !.hit = FALSE]]
    /\ UNCHANGED <<factory, lock, bounds>>

-----------------------------------------------------------------------------
(* DispatcharrClient.request                                                *)

Sending(t) == thread[t].pc = "send" /\ ~thread[t].cut

Answered(t) ==
    /\ Sending(t) /\ thread[t].token = "good" /\ End(t, "ok")
    /\ UNCHANGED <<factory, session, lock, bounds>>

\* 401: once, everything starts over with new tokens.
Refused(t) ==
    /\ Sending(t) /\ thread[t].token = "bad"
    /\ IF thread[t].again THEN End(t, "401") ELSE Goto(t, "clear")
    /\ UNCHANGED <<factory, session, lock, bounds>>

\* A gateway error or a time-out is repeated with the token it had.
Repeat(t) ==
    /\ Sending(t) /\ Fault
    /\ IF thread[t].tries < MaxRetries
       THEN thread' = [thread EXCEPT ![t].tries = @ + 1]
       ELSE End(t, "failed")
    /\ UNCHANGED <<factory, session, lock, calls, changes>>

\* An error that httpx does not call a request error leaves request.
Raised(t) ==
    /\ thread[t].pc = "send" /\ thread[t].cut /\ End(t, "raised")
    /\ UNCHANGED <<factory, session, lock, bounds>>

-----------------------------------------------------------------------------
(* Time and the server                                                      *)

\* TOKEN_REFRESH_BUFFER_MINUTES before the server thinks so, tokens are old.
Old(a) ==
    /\ session[a].fresh
    /\ session' = [session EXCEPT ![a].fresh = FALSE]
    /\ UNCHANGED <<factory, lock, thread, bounds>>

Spoil(token) == IF token = "good" THEN "bad" ELSE token

\* The server no longer takes access tokens that were issued, because their
\* time is over, or any tokens, because it was set up anew.
Drop(a, all) ==
    /\ Fault
    /\ all \/ ~session[a].fresh
    /\ session' = [session EXCEPT
         ![a].access = Spoil(@), ![a].refresh = IF all THEN Spoil(@) ELSE @]
    /\ thread' = [t \in Threads |->
         IF Account(t) = a
         THEN [thread[t] EXCEPT !.token = Spoil(@), !.hit = TRUE]
         ELSE thread[t]]
    /\ UNCHANGED <<factory, lock, calls, changes>>

Next ==
    \/ \E t \in Threads :
         \/ Call(t) \/ GetConnection(t)
         \/ GetToken(t) \/ Sleep(t) \/ Refresh(t) \/ RefreshFails(t)
         \/ Login(t) \/ LoginFails(t) \/ Clear(t)
         \/ Answered(t) \/ Refused(t) \/ Repeat(t) \/ Raised(t)
    \/ Save \/ Reconnect
    \/ \E a \in Accounts : Old(a) \/ Drop(a, TRUE) \/ Drop(a, FALSE)

Spec == Init /\ [][Next]_vars

-----------------------------------------------------------------------------
TypeOK ==
    /\ saved \in Accounts /\ pending \in BOOLEAN
    /\ current \in Connections /\ account \in [Connections -> Accounts]
    /\ \A a \in Accounts :
         /\ {session[a].access, session[a].refresh} \subseteq Tokens
         /\ {session[a].fresh, session[a].throttled} \subseteq BOOLEAN
         /\ lock[a] \in Threads \cup {Nobody}
    /\ \A t \in Threads :
         /\ thread[t].pc \in Pcs /\ thread[t].result \in Results
         /\ thread[t].tries \in 0..MaxRetries

\* client.py, "automatic re-authentication on 401": whoever clears, refreshes
\* or logs in meanwhile, a call is refused for good only if the server dropped
\* tokens again after it cleared them.
RefusedTwice == \A t \in Threads : thread[t].result = "401" => thread[t].hit

\* factory.py, "connection is recreated if settings change": a call loses its
\* HTTP client only when the settings were saved while it was under way or not
\* yet taken over.
CutByChange == \A t \in Threads : thread[t].result = "raised" => thread[t].moved

\* And it went to the account of the settings, as they are or were meanwhile.
RightAccount ==
    \A t \in Threads :
        thread[t].pc = "send" => Account(t) = saved \/ thread[t].moved

CallsSurvive == RefusedTwice /\ CutByChange /\ RightAccount
===============================================================================
