------------------------- MODULE KeywordEnforcement -------------------------
(***************************************************************************)
(* The channels of one event that exception keywords split it into: the    *)
(* main channel and one for each keyword.  Matching puts a stream on the   *)
(* channel of the keyword in its name; the keyword enforcer then moves the *)
(* rows that are on a wrong channel, and the ordering enforcer swaps       *)
(* numbers so that the main channel comes first.  A channel is named by    *)
(* its keyword.                                                            *)
(*                                                                         *)
(* The rows of an enforcer are committed at its end, its calls are not     *)
(* taken back.                                                             *)
(***************************************************************************)
EXTENDS Naturals, FiniteSets

CONSTANTS
    Streams,
    Keywords,       \* labels of exception keywords that consolidate
    Main, Ignored,  \* no keyword; a keyword whose behavior is "ignore"
    Numbers,        \* bound: the numbers a channel may get
    MaxChanges,     \* bound of renamed streams and edited keywords
    MaxFaults       \* bound of failing calls and crashes

Channels == Keywords \cup {Main}
Labels   == Channels \cup {Ignored}

VARIABLES
    label,      \* what the keywords make of the name of a stream
    chans,      \* the channels that exist
    rows,       \* rows[c][s]: active rows of stream s on channel c
    plays,      \* plays[c]: the streams of c in Dispatcharr
    num,        \* channel_number
    shown,      \* the number in Dispatcharr
    saved,      \* rows and num as last committed
    pc,         \* "idle", "match", "keywords" or "order"
    todo,       \* channels or streams not handled yet in this phase
    pairs,      \* the keyword channels below the main one, as they were read
    changes, faults,
    crossed     \* history: two keyword channels were below the main one

vars == <<label, chans, rows, plays, num, shown, saved, pc, todo, pairs,
          changes, faults, crossed>>

NoRows == [c \in Channels |-> [s \in Streams |-> 0]]
NoNums == [c \in Channels |-> 0]

Init ==
    /\ label \in [Streams -> Labels]
    /\ chans = {} /\ rows = NoRows /\ plays = [c \in Channels |-> {}]
    /\ num = NoNums /\ shown = NoNums
    /\ saved = [rows |-> NoRows, num |-> NoNums]
    /\ pc = "idle" /\ todo = {} /\ pairs = NoNums
    /\ changes = 0 /\ faults = 0 /\ crossed = FALSE

Outcomes == IF faults < MaxFaults THEN {TRUE, FALSE} ELSE {TRUE}
Spent(S) == /\ faults + Cardinality(S) <= MaxFaults
            /\ faults' = faults + Cardinality(S)

-----------------------------------------------------------------------------
(* process_matched_streams                                                  *)

StartRun ==
    /\ pc = "idle"
    /\ pc' = "match" /\ todo' = Streams
    /\ UNCHANGED <<label, chans, rows, plays, num, shown, saved, pairs,
                   changes, faults, crossed>>

\* Every stream matches the event.  A stream to be ignored is skipped before
\* any channel is looked up.
Match(s) ==
    LET c == label[s]
        unused == Numbers \ {num[d] : d \in chans}
        free == CHOOSE n \in unused : TRUE
    IN  /\ pc = "match" /\ s \in todo
        /\ todo' = todo \ {s}
        /\ IF c = Ignored
           THEN UNCHANGED <<chans, rows, plays, num, shown, saved, faults>>
           ELSE IF c \notin chans
           THEN /\ unused # {}
                /\ chans' = chans \cup {c}
                /\ rows'  = [rows EXCEPT ![c][s] = 1]
                /\ plays' = [plays EXCEPT ![c] = {s}]
                /\ num'   = [num EXCEPT ![c] = free]
                /\ shown' = [shown EXCEPT ![c] = free]
                /\ saved' = [rows |-> rows', num |-> num']
                /\ UNCHANGED faults
           ELSE \E ok \in Outcomes :
                /\ rows' = IF rows[c][s] = 0 /\ ok
                           THEN [rows EXCEPT ![c][s] = 1] ELSE rows
                /\ plays' = IF ok THEN [plays EXCEPT ![c] = @ \cup {s}]
                                  ELSE plays
                /\ shown' = IF ok THEN [shown EXCEPT ![c] = num[c]] ELSE shown
                /\ faults' = IF ok THEN faults ELSE faults + 1
                /\ UNCHANGED <<chans, num, saved>>
    /\ UNCHANGED <<label, pc, pairs, changes, crossed>>

EndMatch ==
    /\ pc = "match" /\ todo = {}
    /\ pc' = "keywords"
    /\ todo' = chans
    /\ saved' = [rows |-> rows, num |-> num]
    /\ UNCHANGED <<label, chans, rows, plays, num, shown, pairs, changes,
                   faults, crossed>>

-----------------------------------------------------------------------------
(* KeywordEnforcer.enforce                                                  *)

\* Where a row of s that is on c belongs: on the channel of its keyword, or
\* else on the main one; Ignored if on none, c if there is nowhere to go.
Target(c, s) ==
    IF label[s] = Ignored THEN Ignored
    ELSE IF label[s] \in chans THEN label[s]
    ELSE IF Main \in chans THEN Main ELSE c

\* Mutant: rows are moved to the channel of a keyword only.
EnforceNoReturn(c) ==
    /\ pc = "keywords" /\ c \in todo
    /\ todo' = todo \ {c}
    /\ LET strays == {s \in Streams : /\ rows[c][s] > 0
                                      /\ Target(c, s) \notin {c, Main}}
           moved(d) == {s \in strays : Target(c, s) = d}
       IN  /\ rows' = [d \in Channels |-> [s \in Streams |->
                  IF d = c /\ s \in strays THEN 0
                  ELSE IF s \in moved(d) THEN rows[d][s] + 1 ELSE rows[d][s]]]
           /\ plays' = [d \in Channels |->
                  IF d = c THEN plays[d] \ strays ELSE plays[d] \cup moved(d)]
    /\ UNCHANGED <<label, chans, num, shown, saved, pc, pairs, changes, faults,
                   crossed>>

\* One channel of the scan: its stray rows lose their place and get a new row
\* on the target, whether that has one already or not.  The two calls of a
\* move may fail without notice; an ignored stream stays in Dispatcharr.
Enforce(c) ==
    /\ pc = "keywords" /\ c \in todo
    /\ todo' = todo \ {c}
    /\ LET strays   == {s \in Streams : rows[c][s] > 0 /\ Target(c, s) # c}
           moved(d) == {s \in strays : Target(c, s) = d}
           sent     == {s \in strays : Target(c, s) # Ignored}
       IN  /\ rows' = [d \in Channels |-> [s \in Streams |->
                  IF d = c /\ s \in strays THEN 0
                  ELSE IF s \in moved(d) THEN rows[d][s] + rows[c][s]
                  ELSE rows[d][s]]]
           /\ \E kept \in SUBSET sent : \E missed \in SUBSET sent :
                /\ Spent(kept \cup missed)
                /\ plays' = [d \in Channels |->
                     IF d = c THEN plays[d] \ (sent \ kept)
                              ELSE plays[d] \cup (moved(d) \ missed)]
    /\ UNCHANGED <<label, chans, num, shown, saved, pc, pairs, changes,
                   crossed>>

\* The commit of the keyword enforcer, and the SELECT of the ordering one.
EndEnforce ==
    /\ pc = "keywords" /\ todo = {}
    /\ pc' = "order"
    /\ saved' = [rows |-> rows, num |-> num]
    /\ todo' = {k \in Keywords \cap chans :
                    Main \in chans /\ num[k] < num[Main]}
    /\ pairs' = num
    /\ crossed' = (crossed \/ \E j, k \in todo' : j # k)
    /\ UNCHANGED <<label, chans, rows, plays, num, shown, changes, faults>>

-----------------------------------------------------------------------------
(* KeywordOrderingEnforcer.enforce                                          *)

\* Mutant: each number is stored when its own call was confirmed.
SwapHalves(k) ==
    /\ pc = "order" /\ k \in todo
    /\ todo' = todo \ {k}
    /\ \E a, b \in Outcomes :
         /\ Spent({x \in {1, 2} : ~(<<a, b>>[x])})
         /\ shown' = [shown EXCEPT ![Main] = IF a THEN pairs[k] ELSE @,
                                   ![k] = IF b THEN pairs[Main] ELSE @]
         /\ num' = [num EXCEPT ![Main] = IF a THEN pairs[k] ELSE @,
                               ![k] = IF b THEN pairs[Main] ELSE @]
    /\ UNCHANGED <<label, chans, rows, plays, saved, pc, pairs, changes,
                   crossed>>

\* Both calls must be confirmed before the swap is stored; the numbers are
\* those of the SELECT.
Swap(k) ==
    /\ pc = "order" /\ k \in todo
    /\ todo' = todo \ {k}
    /\ \E a, b \in Outcomes :
         /\ Spent({x \in {1, 2} : ~(<<a, b>>[x])})
         /\ shown' = [shown EXCEPT ![Main] = IF a THEN pairs[k] ELSE @,
                                   ![k] = IF b THEN pairs[Main] ELSE @]
         /\ num' = IF a /\ b
                   THEN [num EXCEPT ![Main] = pairs[k], ![k] = pairs[Main]]
                   ELSE num
    /\ UNCHANGED <<label, chans, rows, plays, saved, pc, pairs, changes,
                   crossed>>

EndRun ==
    /\ pc = "order" /\ todo = {}
    /\ pc' = "idle" /\ pairs' = NoNums
    /\ saved' = [rows |-> rows, num |-> num]
    /\ UNCHANGED <<label, chans, rows, plays, num, shown, todo, changes,
                   faults, crossed>>

\* A crash or an exception: what was not committed is rolled back.
Crash ==
    /\ pc # "idle" /\ faults < MaxFaults
    /\ faults' = faults + 1
    /\ pc' = "idle" /\ todo' = {} /\ pairs' = NoNums
    /\ rows' = saved.rows /\ num' = saved.num
    /\ UNCHANGED <<label, chans, plays, shown, saved, changes, crossed>>

\* A stream is renamed, or a keyword is added, removed or set to ignore.
Change ==
    /\ pc = "idle" /\ changes < MaxChanges
    /\ changes' = changes + 1
    /\ \E s \in Streams, l \in Labels : label' = [label EXCEPT ![s] = l]
    /\ label' # label
    /\ UNCHANGED <<chans, rows, plays, num, shown, saved, pc, todo, pairs,
                   faults, crossed>>

Generation ==
    \/ StartRun \/ EndMatch \/ EndEnforce \/ EndRun
    \/ \E s \in Streams : Match(s)
    \/ \E c \in Channels : Enforce(c)
    \/ \E k \in Keywords : Swap(k)

Next == Generation \/ Crash \/ Change

Spec == Init /\ [][Next]_vars

FairSpec == Spec /\ WF_vars(Generation)

-----------------------------------------------------------------------------
(* What must hold                                                           *)

TypeOK ==
    /\ label \in [Streams -> Labels] /\ chans \subseteq Channels
    /\ \A c \in Channels, s \in Streams :
          rows[c][s] \in Nat /\ (c \notin chans => rows[c][s] = 0)
    /\ plays \in [Channels -> SUBSET Streams]
    /\ num \in [Channels -> Nat] /\ shown \in [Channels -> Nat]
    /\ pc \in {"idle", "match", "keywords", "order"}

\* Once calls do not fail and names are settled, every stream is on the channel
\* of its keyword only and plays there, the main channel comes first, and
\* Dispatcharr shows the numbers of the rows.
Placed ==
    pc = "match" /\ todo = Streams /\ chans # {} =>
       /\ \A s \in Streams, c \in chans :
            /\ rows[c][s] > 0 <=> c = label[s]
            /\ c = label[s] => s \in plays[c]
       /\ Main \in chans /\ ~crossed =>
            \A k \in Keywords \cap chans : num[Main] < num[k]
       /\ ~crossed => \A c \in chans : shown[c] = num[c]
PlacedForGood == <>[]Placed

\* "Set main to keyword's (lower) number, set keyword to main's (higher)
\* number": swaps and failures leave every channel a number of its own, unless
\* two channels were to be swapped with the main one in the same pass.
NumbersStayApart ==
    crossed \/ \A c, d \in chans : c # d => num[c] # num[d]

\* A row is added only "if not already present": a stream is once on a channel.
OneRowPerStream == \A c \in Channels, s \in Streams : rows[c][s] <= 1
=============================================================================
