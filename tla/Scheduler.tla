------------------------------ MODULE Scheduler ------------------------------
(* The cron scheduler of consumers/scheduler.py and the settings requests   *)
(* that restart it.  A CronScheduler has a main loop (the EPG run) and, in  *)
(* a dictionary, one SubTaskScheduler loop for each optional task.  Every   *)
(* loop is a thread of its own: it waits for its cron time, runs its task,  *)
(* and leaves when its stop event is set.  Nothing locks the global         *)
(* _scheduler, so requests handled in parallel interleave at every step.    *)
EXTENDS Naturals, FiniteSets, Sequences

CONSTANTS SubTasks,     \* "backup", "channel_reset"
          Requests,     \* the request threads
          MaxLoops,     \* bound: loops alive or referenced at once
          MaxChanges    \* bound: requests made

Loops == 1..MaxLoops
None == 0

VARIABLES enabled,      \* the setting of the scheduler
          on,           \* the setting of each sub-task
          current,      \* the global _scheduler: its main loop, or None
          loop,         \* every thread with its object's flags
          subs,         \* _sub_schedulers of the object of each main loop
          req,          \* the requests in progress
          changes       \* requests made so far

vars == <<enabled, on, current, loop, subs, req, changes>>

NoLoop == [task |-> "none", at |-> "new", stop |-> FALSE, running |-> FALSE]
Idle == [ops |-> <<>>, at |-> "next", s |-> None, t |-> "none",
         sub |-> None, cfg |-> {}, seen |-> {}, size |-> 0]
NoSubs == [t \in SubTasks |-> None]

IsRunning(l) == /\ l # None
                /\ loop[l].running
                /\ loop[l].at \notin {"new", "done"}

Keys(s) == {t \in SubTasks : subs[s][t] # None}
Referenced == {current} \cup {subs[s][t] : s \in Loops, t \in SubTasks}
                \cup {req[r].s : r \in Requests}
                \cup {req[r].sub : r \in Requests}

\* A thread or object nobody holds any more makes room for a new one.
Free == {l \in Loops : loop[l].at \in {"new", "done"} /\ l \notin Referenced}
Fresh == CHOOSE l \in Free : TRUE

TypeOK ==
    /\ enabled \in BOOLEAN /\ on \in [SubTasks -> BOOLEAN]
    /\ current \in Loops \cup {None}
    /\ subs \in [Loops -> [SubTasks -> Loops \cup {None}]]
    /\ loop \in [Loops -> [task : SubTasks \cup {"main", "none"},
                           at : {"new", "wait", "due", "task", "done"},
                           stop : BOOLEAN, running : BOOLEAN]]
    /\ \A r \in Requests : /\ req[r].s \in Loops \cup {None}
                           /\ req[r].sub \in Loops \cup {None}
                           /\ req[r].cfg \subseteq SubTasks
    /\ changes \in 0..MaxChanges

Init == /\ enabled \in BOOLEAN /\ on \in [SubTasks -> BOOLEAN]
        /\ current = None
        /\ loop = [l \in Loops |-> NoLoop]
        /\ subs = [l \in Loops |-> NoSubs]
        /\ req = [r \in Requests |-> Idle]
        /\ changes = 0

-----------------------------------------------------------------------------
(* The loops.                                                              *)

\* The cron time is reached and the stop event was not set when looked at.
Tick(l) == /\ loop[l].at = "wait" /\ ~loop[l].stop
           /\ loop' = [loop EXCEPT ![l].at = "due"]
           /\ UNCHANGED <<enabled, on, current, subs, req, changes>>

RunTask(l) == /\ loop[l].at = "due"
              /\ loop' = [loop EXCEPT ![l].at = "task"]
              /\ UNCHANGED <<enabled, on, current, subs, req, changes>>

\* The task returns or raises, which is logged: the loop goes on.
EndTask(l) == /\ loop[l].at = "task"
              /\ loop' = [loop EXCEPT ![l].at = "wait"]
              /\ UNCHANGED <<enabled, on, current, subs, req, changes>>

Leave(l) == /\ loop[l].at = "wait" /\ loop[l].stop
            /\ loop' = [loop EXCEPT ![l].at = "done"]
            /\ UNCHANGED <<enabled, on, current, subs, req, changes>>

-----------------------------------------------------------------------------
(* The requests: what is saved, then the operations to be made.            *)

Idles(r) == req[r] = Idle /\ changes < MaxChanges
Make(r, ops, t) ==
    /\ req' = [req EXCEPT ![r] = [Idle EXCEPT !.ops = ops, !.t = t]]
    /\ changes' = changes + 1
    /\ UNCHANGED <<current, loop, subs>>

Boot(r) == /\ Idles(r) /\ changes = 0
           /\ Make(r, IF enabled THEN <<"start">> ELSE <<>>, "none")
           /\ UNCHANGED <<enabled, on>>

\* PUT /settings/epg with another cron expression.
SaveEpg(r) == /\ Idles(r) /\ IsRunning(current)
              /\ Make(r, <<"stop", "start">>, "none")
              /\ UNCHANGED <<enabled, on>>

\* PUT /settings/scheduler with the switch of the scheduler.
SaveScheduler(r) == \E e \in BOOLEAN :
    /\ Idles(r) /\ changes > 0
    /\ enabled' = e
    /\ Make(r, IF e THEN <<"stop", "start">> ELSE <<"stop">>, "none")
    /\ UNCHANGED on

\* PUT /settings/scheduler or /backup/settings with a sub-task's switch.
SaveSubTask(r) == \E t \in SubTasks, b \in BOOLEAN :
    /\ Idles(r) /\ changes > 0
    /\ on' = [on EXCEPT ![t] = b]
    /\ Make(r, <<"restart">>, t)
    /\ UNCHANGED enabled

Goto(r, at) == req' = [req EXCEPT ![r].at = at]
At(r, op, at) == req[r].ops # <<>> /\ Head(req[r].ops) = op /\ req[r].at = at
\* The rest of the request, or none of it after an exception.
Return(r) == req' = [req EXCEPT ![r] = [Idle EXCEPT !.ops = Tail(req[r].ops)]]
Raise(r) == req' = [req EXCEPT ![r] = Idle]

\* Join ends with the thread, or with the timeout while a task runs on.
Joined(l) == loop[l].at \in {"done", "task"}
Signal(l) == loop' = [loop EXCEPT ![l].stop = TRUE, ![l].running = FALSE]

-----------------------------------------------------------------------------
(* stop_lifecycle_scheduler.                                               *)

StopBegin(r) ==
    /\ At(r, "stop", "next")
    /\ IF current = None THEN Return(r)
       ELSE req' = [req EXCEPT
              ![r].s = current,
              ![r].at = IF IsRunning(current) THEN "subs" ELSE "forget",
              ![r].size = Cardinality(Keys(current))]
    /\ UNCHANGED <<enabled, on, current, loop, subs, changes>>

\* The dictionary is walked without a lock: a key that came or went since
\* is a RuntimeError, and the main loop is not stopped.
StopSub(r) ==
    LET s == req[r].s
        left == {t \in Keys(s) : subs[s][t] \notin req[r].seen}
        changed == \/ Cardinality(Keys(s)) # req[r].size
                   \/ Cardinality(req[r].seen) = req[r].size /\ left # {}
    IN  /\ At(r, "stop", "subs")
        /\ UNCHANGED <<enabled, on, current, changes>>
        /\ \/ changed /\ Raise(r) /\ UNCHANGED <<loop, subs>>
           \/ /\ ~changed
              /\ \E t \in left :
                   /\ req' = [req EXCEPT ![r].sub = subs[s][t],
                                ![r].seen = @ \cup {subs[s][t]},
                                ![r].at = IF IsRunning(subs[s][t])
                                          THEN "join" ELSE "subs"]
                   /\ IF IsRunning(subs[s][t]) THEN Signal(subs[s][t])
                                               ELSE UNCHANGED loop
              /\ UNCHANGED subs
           \/ /\ ~changed /\ left = {}
              /\ subs' = [subs EXCEPT ![s] = NoSubs]
              /\ Signal(s)
              /\ Goto(r, "joinmain")

StopJoinSub(r) == /\ At(r, "stop", "join") /\ Joined(req[r].sub)
                  /\ Goto(r, "subs")
                  /\ UNCHANGED <<enabled, on, current, loop, subs, changes>>

StopJoin(r) == /\ At(r, "stop", "joinmain") /\ Joined(req[r].s)
               /\ Goto(r, "forget")
               /\ UNCHANGED <<enabled, on, current, loop, subs, changes>>

StopForget(r) == /\ At(r, "stop", "forget")
                 /\ current' = None
                 /\ Return(r)
                 /\ UNCHANGED <<enabled, on, loop, subs, changes>>

-----------------------------------------------------------------------------
(* start_lifecycle_scheduler.                                              *)

StartCheck(r) ==
    /\ At(r, "start", "next")
    /\ IF enabled /\ ~IsRunning(current) THEN Goto(r, "create")
                                         ELSE Return(r)
    /\ UNCHANGED <<enabled, on, current, loop, subs, changes>>

StartCreate(r) ==
    /\ At(r, "start", "create") /\ Free # {}
    /\ current' = Fresh
    /\ loop' = [loop EXCEPT ![Fresh] = [NoLoop EXCEPT !.task = "main"]]
    /\ subs' = [subs EXCEPT ![Fresh] = NoSubs]
    /\ Goto(r, "thread")
    /\ UNCHANGED <<enabled, on, changes>>

\* _scheduler.start() reads the global again.
StartThread(r) ==
    /\ At(r, "start", "thread")
    /\ IF current = None \/ IsRunning(current)
       THEN UNCHANGED loop
       ELSE loop' = [loop EXCEPT ![current].at = "wait",
                       ![current].running = TRUE, ![current].stop = FALSE]
    /\ IF current = None THEN Raise(r)
       ELSE IF IsRunning(current) THEN Return(r)
       ELSE req' = [req EXCEPT ![r].at = "read", ![r].s = current]
    /\ UNCHANGED <<enabled, on, current, subs, changes>>

StartRead(r) ==
    /\ At(r, "start", "read")
    /\ req' = [req EXCEPT ![r].at = "subs",
                          ![r].cfg = {t \in SubTasks : on[t]}]
    /\ UNCHANGED <<enabled, on, current, loop, subs, changes>>

\* A new SubTaskScheduler for t in the dictionary of s.
Launch(s, t) ==
    /\ Free # {}
    /\ loop' = [loop EXCEPT ![Fresh] = [task |-> t, at |-> "wait",
                                        stop |-> FALSE, running |-> TRUE]]
    /\ subs' = [subs EXCEPT ![s][t] = Fresh]

StartSubs(r) ==
    /\ At(r, "start", "subs")
    /\ \/ \E t \in req[r].cfg :
            /\ Launch(req[r].s, t)
            /\ req' = [req EXCEPT ![r].cfg = @ \ {t}]
       \/ req[r].cfg = {} /\ Return(r) /\ UNCHANGED <<loop, subs>>
    /\ UNCHANGED <<enabled, on, current, changes>>

-----------------------------------------------------------------------------
(* restart_scheduler_sub_task.                                             *)

\* Mutant: the old sub-task is forgotten, not stopped.
RestartOver(r) ==
    /\ At(r, "restart", "next")
    /\ IF ~IsRunning(current) THEN Return(r)
       ELSE req' = [req EXCEPT ![r].s = current, ![r].at = "read"]
    /\ UNCHANGED <<enabled, on, current, loop, subs, changes>>

RestartBegin(r) ==
    LET old == subs[current][req[r].t]
    IN  /\ At(r, "restart", "next")
        /\ IF ~IsRunning(current) THEN Return(r) /\ UNCHANGED loop
           ELSE /\ req' = [req EXCEPT ![r].s = current, ![r].sub = old,
                    ![r].at = IF old = None THEN "read"
                              ELSE IF IsRunning(old) THEN "join"
                              ELSE "del"]
                /\ IF IsRunning(old) THEN Signal(old) ELSE UNCHANGED loop
        /\ UNCHANGED <<enabled, on, current, subs, changes>>

RestartJoin(r) == /\ At(r, "restart", "join") /\ Joined(req[r].sub)
                  /\ Goto(r, "del")
                  /\ UNCHANGED <<enabled, on, current, loop, subs, changes>>

\* A KeyError when another request removed the entry.
RestartDel(r) ==
    /\ At(r, "restart", "del")
    /\ IF subs[req[r].s][req[r].t] = None
       THEN Raise(r) /\ UNCHANGED subs
       ELSE /\ req' = [req EXCEPT ![r].at = "read", ![r].sub = None]
            /\ subs' = [subs EXCEPT ![req[r].s][req[r].t] = None]
    /\ UNCHANGED <<enabled, on, current, loop, changes>>

\* Mutant: the new sub-task is started whatever the setting says.
RestartAlways(r) ==
    /\ At(r, "restart", "read")
    /\ req' = [req EXCEPT ![r].at = "launch"]
    /\ UNCHANGED <<enabled, on, current, loop, subs, changes>>

RestartRead(r) ==
    /\ At(r, "restart", "read")
    /\ IF on[req[r].t] THEN Goto(r, "launch") ELSE Return(r)
    /\ UNCHANGED <<enabled, on, current, loop, subs, changes>>

RestartLaunch(r) ==
    /\ At(r, "restart", "launch")
    /\ Launch(req[r].s, req[r].t)
    /\ Return(r)
    /\ UNCHANGED <<enabled, on, current, changes>>

-----------------------------------------------------------------------------
Run(l) == RunTask(l) \/ EndTask(l) \/ Leave(l)
Ask(r) == Boot(r) \/ SaveEpg(r) \/ SaveScheduler(r) \/ SaveSubTask(r)
Serve(r) == \/ StopBegin(r) \/ StopSub(r) \/ StopJoinSub(r) \/ StopJoin(r)
            \/ StopForget(r) \/ StartCheck(r) \/ StartCreate(r)
            \/ StartThread(r) \/ StartRead(r) \/ StartSubs(r)
            \/ RestartBegin(r) \/ RestartJoin(r) \/ RestartDel(r)
            \/ RestartRead(r) \/ RestartLaunch(r)

Next == \/ \E l \in Loops : Tick(l) \/ Run(l)
        \/ \E r \in Requests : Ask(r) \/ Serve(r)

Spec == Init /\ [][Next]_vars
\* Threads are scheduled and tasks come to an end; nobody has to ask.
FairSpec == /\ Spec
            /\ \A l \in Loops : WF_vars(Run(l))
            /\ \A r \in Requests : WF_vars(Serve(r))

-----------------------------------------------------------------------------
\* Loops of task t that will run it again.
Live(t) == {l \in Loops : /\ loop[l].task = t /\ ~loop[l].stop
                          /\ loop[l].at \in {"wait", "due", "task"}}
Quiet == \A r \in Requests : req[r] = Idle

(* No task has two loops that go on for ever: whatever the settings went    *)
(* through, and whether or not a stop timed out, a task fires once per cron *)
(* time.                                                                    *)
OneLoopPerTask == \A t \in SubTasks \cup {"main"} : Cardinality(Live(t)) <= 1

(* When the requests are over, the loops that remain are the ones the last  *)
(* saved settings ask for, and every other thread has left.                 *)
SettingsDecide ==
    <>[](/\ changes > 0
         => /\ Quiet
            /\ (Live("main") # {}) <=> enabled
            /\ \A t \in SubTasks : (Live(t) # {}) <=> (enabled /\ on[t])
            /\ \A l \in Loops : loop[l].stop => loop[l].at = "done")

(* "Stopped" in the settings means that no scheduled run comes any more:    *)
(* a loop that goes on belongs to the scheduler whose status is shown.      *)
StatusIsTrue == Quiet /\ ~IsRunning(current) =>
                \A t \in SubTasks \cup {"main"} : Live(t) = {}
=============================================================================
