---------------------------- MODULE ServicesProofs ----------------------------
(* Proofs about the services: the history of the runs, the cache of stream     *)
(* matches, the event groups, the migrations and the scheduler, for any runs,  *)
(* threads, streams, groups, versions and tasks, and what they say of the      *)
(* behaviours that Services composes.                                          *)
EXTENDS Services, Sequences, FiniteSetTheorems, TLAPS

\* What is assumed of the constants.
MtParameters ==
    /\ Back \in Nat /\ Ahead \in Nat /\ PurgeAfter \in Nat
    /\ MaxChanges \in Nat /\ Mt!None \notin Events
GrParameters == Types # {} /\ M3UIds # {}
MgParameters == From \subseteq 0..Mg!Latest /\ MaxStops \in Nat

LEMMA Parameters == MtParameters /\ GrParameters /\ MgParameters
BY ServicesAssumption DEF MtParameters, GrParameters, MgParameters

-----------------------------------------------------------------------------
(* The history of the runs *)

\* The inductive invariant holds before anything has run.
LEMMA InitIInv == Init => IInv
BY SMT DEF Init, IInv, TypeOK, CountedOnce, Shown, RowsKnown, ReadsExact,
           ClearsApart, Passed

\* What a clear has looked for lies in its scope.
LEMMA PassedInScope ==
    ASSUME TypeOK, NEW c \in Clearers
    PROVE  Passed(c) \subseteq scope[c] /\ Passed(c) \subseteq Runs
BY DEF TypeOK, Passed

\* create_run, save_run and the calendar preserve the invariant.
LEMMA RunSteps ==
    ASSUME IInv, NEW r \in Runs, Create(r) \/ Save(r) \/ Age(r)
    PROVE  IInv'
<1> USE DEF IInv
<1>0. \A c \in Clearers : Passed(c)' = Passed(c)
  BY DEF Create, Save, Age, Passed
<1>1. CASE Create(r)
  <2>1. TypeOK' BY <1>1, RunsAssumption DEF Create, TypeOK, RowsKnown
  <2>2. CountedOnce' BY <1>1 DEF Create, TypeOK, CountedOnce, Shown
  <2>3. RowsKnown' BY <1>1 DEF Create, TypeOK, RowsKnown
  <2>4. ReadsExact'
    BY <1>0, <1>1, PassedInScope DEF Create, TypeOK, ReadsExact
  <2>5. ClearsApart' BY <1>0, <1>1 DEF Create, ClearsApart
  <2> QED BY <2>1, <2>2, <2>3, <2>4, <2>5
<1>2. CASE Save(r)
  <2>1. TypeOK' BY <1>2 DEF Save, TypeOK
  <2>2. CountedOnce' BY <1>2 DEF Save, TypeOK, CountedOnce, Shown, RowsKnown
  <2>3. RowsKnown' BY <1>2 DEF Save, TypeOK, RowsKnown
  <2>4. ReadsExact'
    <3> SUFFICES ASSUME NEW c \in Clearers
                 PROVE  /\ read'[c] \subseteq Passed(c)' \cap done'
                        /\ \A s \in Passed(c)' \ late' :
                              row'[s] = "saved" => s \in read'[c]
                        /\ \A s \in read'[c] \ shared' : row'[s] = "saved"
      BY DEF ReadsExact
    <3>1. read'[c] \subseteq Passed(c)' \cap done'
      BY <1>0, <1>2 DEF Save, ReadsExact
    <3>2. ASSUME NEW s \in Passed(c) \ late', row'[s] = "saved"
          PROVE  s \in read'[c]
      <4>1. s \in AllPassed BY <3>2 DEF AllPassed
      <4>2. s # r /\ s \notin late BY <1>2, <3>2, <4>1 DEF Save
      <4>3. row'[s] = row[s] BY <1>2, <4>2 DEF Save, TypeOK
      <4> QED BY <1>2, <3>2, <4>2, <4>3 DEF Save, ReadsExact
    <3>3. ASSUME NEW s \in read[c] \ shared PROVE row'[s] = "saved"
      BY <1>2, <3>3, PassedInScope DEF Save, ReadsExact, TypeOK
    <3> QED BY <1>0, <1>2, <3>1, <3>2, <3>3 DEF Save
  <2>5. ClearsApart' BY <1>0, <1>2 DEF Save, ClearsApart
  <2> QED BY <2>1, <2>2, <2>3, <2>4, <2>5
<1>3. CASE Age(r)
  <2>1. TypeOK' BY <1>3 DEF Age, TypeOK
  <2>2. CountedOnce' BY <1>3 DEF Age, CountedOnce, Shown
  <2>3. RowsKnown' BY <1>3 DEF Age, RowsKnown
  <2>4. ReadsExact' BY <1>0, <1>3 DEF Age, ReadsExact
  <2>5. ClearsApart' BY <1>0, <1>3 DEF Age, ClearsApart
  <2> QED BY <2>1, <2>2, <2>3, <2>4, <2>5
<1> QED BY <1>1, <1>2, <1>3

\* The two SELECTs preserve the invariant.
LEMMA FullSelect ==
    ASSUME IInv, NEW c \in Clearers, NEW S \in SUBSET Runs, ReadFull(c, S)
    PROVE  IInv'
<1> USE DEF IInv, ReadFull
<1>1. TypeOK' BY PassedInScope DEF TypeOK, AllPassed, Saved
<1>2. CountedOnce' BY DEF CountedOnce, Shown
<1>3. RowsKnown' BY DEF RowsKnown
<1>4. /\ Passed(c) = {} /\ Passed(c)' = S \ Groups
      /\ \A d \in Clearers \ {c} : Passed(d)' = Passed(d) /\ read'[d] = read[d]
  BY DEF TypeOK, Passed
<1>5. ReadsExact'
  <2> SUFFICES ASSUME NEW d \in Clearers
               PROVE  /\ read'[d] \subseteq Passed(d)' \cap done
                      /\ \A r \in Passed(d)' \ late :
                             row[r] = "saved" => r \in read'[d]
                      /\ \A r \in read'[d] \ shared' : row[r] = "saved"
    BY DEF ReadsExact
  <2>1. CASE d # c
    <3>1. shared \subseteq shared' OBVIOUS
    <3>2. Passed(d)' = Passed(d) /\ read'[d] = read[d] BY <1>4, <2>1
    <3> QED BY <3>1, <3>2 DEF ReadsExact
  <2>2. CASE d = c
    <3>1. Saved \subseteq done BY DEF Saved, RowsKnown
    <3>2. read'[c] = Saved \cap (S \ Groups) BY DEF TypeOK
    <3> QED BY <1>4, <2>2, <3>1, <3>2 DEF Saved
  <2> QED BY <2>1, <2>2
<1>6. ClearsApart' BY <1>4 DEF ClearsApart, AllPassed
<1> QED BY <1>1, <1>2, <1>3, <1>5, <1>6

\* The second SELECT sees the saved rows of groups exactly as they are.
LEMMA GroupSelect ==
    ASSUME IInv, NEW c \in Clearers, ReadGroups(c)
    PROVE  IInv'
<1> USE DEF IInv, ReadGroups
<1>1. TypeOK' BY PassedInScope DEF TypeOK, Saved
<1>2. CountedOnce' BY DEF CountedOnce, Shown
<1>3. RowsKnown' BY DEF RowsKnown
<1>4. /\ Passed(c) = scope[c] \ Groups /\ Passed(c)' = scope[c]
      /\ scope[c] \subseteq Runs
      /\ \A d \in Clearers \ {c} : Passed(d)' = Passed(d) /\ read'[d] = read[d]
  BY DEF TypeOK, Passed
<1>5. ReadsExact'
  <2> SUFFICES ASSUME NEW d \in Clearers
               PROVE  /\ read'[d] \subseteq Passed(d)' \cap done
                      /\ \A r \in Passed(d)' \ late :
                             row[r] = "saved" => r \in read'[d]
                      /\ \A r \in read'[d] \ shared' : row[r] = "saved"
    BY DEF ReadsExact
  <2>1. CASE d # c
    <3>1. shared \subseteq shared' OBVIOUS
    <3>2. Passed(d)' = Passed(d) /\ read'[d] = read[d] BY <1>4, <2>1
    <3> QED BY <3>1, <3>2 DEF ReadsExact
  <2>2. CASE d = c
    <3>1. Saved \subseteq done BY DEF Saved, RowsKnown
    <3>2. read'[c] = read[c] \cup (Saved \cap scope[c] \cap Groups)
      BY DEF TypeOK
    <3>3. /\ read[c] \subseteq Passed(c) \cap done
          /\ \A r \in Passed(c) \ late : row[r] = "saved" => r \in read[c]
          /\ \A r \in read[c] \ shared : row[r] = "saved"
      BY DEF ReadsExact
    <3>4. shared \subseteq shared' OBVIOUS
    <3> QED BY <1>4, <2>2, <3>1, <3>2, <3>3, <3>4 DEF Saved
  <2> QED BY <2>1, <2>2
<1>6. ClearsApart'
  <2> DEFINE Others == UNION {Passed(d) : d \in Clearers \ {c}}
  <2>1. \A d \in Clearers \ {c} : Passed(d) \subseteq Others OBVIOUS
  <2> QED BY <1>4, <2>1 DEF ClearsApart
<1> QED BY <1>1, <1>2, <1>3, <1>5, <1>6

\* The transaction of a clear moves the totals that it deletes, but those of
\* late runs.
LEMMA ClearStep ==
    ASSUME IInv, NEW c \in Clearers, Clear(c)
    PROVE  IInv'
<1> USE DEF IInv, Clear, Rest
<1>1. TypeOK' BY DEF TypeOK
<1>2. Passed(c) = scope[c] BY DEF Passed
<1>3. CountedOnce'
  <2> DEFINE Right(shown, r) == IF r \in done
                                THEN /\ shown >= 1 \/ r \in late
                                     /\ shown <= 1 \/ r \in shared
                                ELSE shown = 0
  <2> SUFFICES ASSUME NEW r \in Runs PROVE Right(Shown(r)', r)
    BY DEF CountedOnce
  <2>1. Right(Shown(r), r) BY DEF CountedOnce
  <2>2. sums[r] \in Nat BY DEF TypeOK
  <2>3. CASE r \in read[c]
    <3>1. r \in scope[c] /\ r \in done /\ (row[r] = "saved" \/ r \in shared)
      BY <1>2, <2>3 DEF ReadsExact
    <3>2. sums'[r] = sums[r] + 1 /\ row'[r] # "saved"
      BY <2>3, <3>1 DEF TypeOK
    <3> QED BY <2>1, <2>2, <3>1, <3>2 DEF Shown
  <2>4. CASE r \notin read[c]
    <3>1. r \in scope[c] => row[r] # "saved" \/ r \in late
      BY <1>2, <2>4 DEF ReadsExact
    <3>2. sums'[r] = sums[r] BY <2>4
    <3>3. row'[r] = row[r] \/ (r \in scope[c] /\ row'[r] = "deleted")
      BY DEF TypeOK
    <3>4. r \notin done => row[r] # "saved" BY DEF RowsKnown
    <3> QED BY <2>1, <2>2, <3>1, <3>2, <3>3, <3>4 DEF Shown
  <2> QED BY <2>3, <2>4
<1>4. RowsKnown' BY DEF RowsKnown, TypeOK
<1>5. /\ Passed(c)' = {} /\ read'[c] = {}
      /\ \A d \in Clearers \ {c} : Passed(d)' = Passed(d) /\ read'[d] = read[d]
  BY DEF TypeOK, Passed
<1>6. ReadsExact'
  <2> SUFFICES ASSUME NEW d \in Clearers, d # c
               PROVE  /\ read'[d] \subseteq Passed(d)' \cap done'
                      /\ \A s \in Passed(d)' \ late' :
                            row'[s] = "saved" => s \in read'[d]
                      /\ \A s \in read'[d] \ shared' : row'[s] = "saved"
    BY <1>5 DEF ReadsExact
  <2>1. read'[d] \subseteq Passed(d)' \cap done' BY <1>5 DEF ReadsExact
  <2>2. \A s \in Passed(d) : row'[s] = "saved" => row[s] = "saved"
    BY PassedInScope DEF TypeOK
  <2>3. \A s \in Passed(d) \ shared : row'[s] = row[s]
    BY <1>2, PassedInScope DEF ClearsApart, TypeOK
  <2> QED BY <1>5, <2>1, <2>2, <2>3 DEF ReadsExact
<1>7. ClearsApart' BY <1>5 DEF ClearsApart
<1> QED BY <1>1, <1>3, <1>4, <1>6, <1>7

\* A rollback forgets what was read.
LEMMA FailStep ==
    ASSUME IInv, NEW c \in Clearers, Fail(c)
    PROVE  IInv'
<1> USE DEF IInv, Fail, Rest
<1>1. TypeOK' BY DEF TypeOK
<1>2. CountedOnce' BY DEF CountedOnce, Shown
<1>3. RowsKnown' BY DEF RowsKnown
<1>4. /\ Passed(c)' = {} /\ read'[c] = {}
      /\ \A d \in Clearers \ {c} : Passed(d)' = Passed(d) /\ read'[d] = read[d]
  BY DEF TypeOK, Passed
<1>5. ReadsExact' BY <1>4 DEF ReadsExact
<1>6. ClearsApart' BY <1>4 DEF ClearsApart
<1> QED BY <1>1, <1>2, <1>3, <1>5, <1>6

\* So does a crash, which also ends every run.
LEMMA CrashStep ==
    ASSUME IInv, Crash
    PROVE  IInv'
<1> USE DEF IInv, Crash
<1>1. TypeOK' BY DEF TypeOK
<1>2. CountedOnce' BY DEF CountedOnce, Shown
<1>3. RowsKnown' BY DEF RowsKnown
<1>4. \A c \in Clearers : Passed(c)' = {} /\ read'[c] = {} BY DEF Passed
<1>5. ReadsExact' BY <1>4 DEF ReadsExact
<1>6. ClearsApart' BY <1>4 DEF ClearsApart
<1> QED BY <1>1, <1>2, <1>3, <1>5, <1>6

\* Every step preserves the invariant.
LEMMA NextIInv == IInv /\ [Next]_vars => IInv'
<1> SUFFICES ASSUME IInv, [Next]_vars PROVE IInv' OBVIOUS
<1>1. CASE UNCHANGED vars
  BY <1>1 DEF vars, IInv, TypeOK, CountedOnce, Shown, RowsKnown, ReadsExact,
              ClearsApart, Passed
<1>2. ASSUME NEW r \in Runs, Create(r) \/ Save(r) \/ Age(r) PROVE IInv'
  BY <1>2, RunSteps
<1>3. ASSUME NEW c \in Clearers, Begin(c) PROVE IInv'
  <2>1. old \in SUBSET Runs /\ Runs \in SUBSET Runs BY DEF IInv, TypeOK
  <2> QED BY <1>3, <2>1, FullSelect DEF Begin
<1>4. ASSUME NEW c \in Clearers, ReadGroups(c) \/ Clear(c) \/ Fail(c)
      PROVE  IInv'
  BY <1>4, GroupSelect, ClearStep, FailStep
<1>5. CASE Crash BY <1>5, CrashStep
<1> QED BY <1>1, <1>2, <1>3, <1>4, <1>5 DEF Next

\* The inductive invariant holds in every reachable state.
THEOREM Invariance == Spec => []IInv
BY InitIInv, NextIInv, PTL DEF Spec

\* Every variable keeps its type: no run is both active and ended, or old.
THEOREM TypeCorrect == Spec => []TypeOK
<1>1. IInv => TypeOK BY DEF IInv
<1> QED BY <1>1, Invariance, PTL

\* The totals of a run are counted once (cleanup_old_runs and clear_all_runs),
\* for any number of runs and of concurrent clears: none are lost but of late
\* runs, none counted again but of shared ones.
THEOREM TotalsSurvive == Spec => []CountedOnce
<1>1. IInv => CountedOnce BY DEF IInv
<1> QED BY <1>1, Invariance, PTL

-----------------------------------------------------------------------------
(* The cache of stream matches *)

MtRow == [event : Events \cup {Mt!None}, date : Mt!Days \cup {Mt!None},
          age : 0..Mt!Old, user : BOOLEAN]
MtRun == [lag : 0..Mt!Old, todo : SUBSET Streams,
          at : {"rest", "next", "drop", "search"}, s : Streams \cup {Mt!None}]

\* The inductive invariant: types, and a run that works has a place.
MtInv ==
    /\ mtWhen \in [Events -> Mt!Days] /\ mtListed \subseteq Streams
    /\ mtRow \in [Streams -> MtRow]
    /\ \A s \in Streams : mtRow[s].event = Mt!None => mtRow[s] = Mt!NoRow
    /\ mtRun \in [MatchRuns -> MtRun]
    /\ \A r \in MatchRuns :
         /\ mtRun[r].at # "rest" => mtRun[r].lag < Mt!Old
         /\ mtRun[r].at \in {"drop", "search"} => mtRun[r].s \in Streams
    /\ mtPin \in [Streams -> Events \cup {Mt!None}]
    /\ mtChanges \in 0..MaxChanges

\* The row of a stream and the state of a run that has nothing to do.
LEMMA MtRested ==
    ASSUME MtParameters
    PROVE  /\ Mt!NoRow \in MtRow /\ Mt!NoRow.event = Mt!None
           /\ Mt!NoRow.date = Mt!None /\ Mt!NoRow.user = FALSE
           /\ Mt!Rested \in MtRun /\ Mt!Rested.at = "rest"
           /\ Mt!Old \in Nat /\ 0 < Mt!Old
BY DEF MtParameters, MtRow, MtRun, Mt!NoRow, Mt!Rested, Mt!Old

\* A day earlier is a day.
LEMMA MtBefore ==
    ASSUME MtParameters, NEW d \in Mt!Days \cup {Mt!None}
    PROVE  /\ Mt!Before(d) \in Mt!Days \cup {Mt!None}
           /\ d = Mt!None => Mt!Before(d) = Mt!None
BY DEF MtParameters, Mt!Before, Mt!Days, Mt!Gone, Mt!None

LEMMA MtInit == ASSUME MtParameters PROVE Mt!Init => MtInv
BY MtRested DEF MtParameters, Mt!Init, MtInv, Mt!Days, Mt!Gone

\* A row whose age is set, and what a run becomes, keep their types.
LEMMA MtStart ==
    ASSUME MtParameters, MtInv, NEW r \in MatchRuns, Mt!Start(r)
    PROVE  MtInv'
<1>1. \A q \in MatchRuns : mtRun[q] \in MtRun
  BY DEF MtInv
<1>2. mtRun' = [q \in MatchRuns |->
                 IF q = r THEN [Mt!Rested EXCEPT !.at = "next", !.todo = mtListed]
                 ELSE IF mtRun[q].at = "rest" THEN mtRun[q]
                 ELSE [mtRun[q] EXCEPT !.lag = @ + 1]]
  BY DEF Mt!Start
<1>3. mtRow' = [s \in Streams |-> IF mtRow[s] = Mt!NoRow THEN Mt!NoRow
                  ELSE [mtRow[s] EXCEPT !.age = Mt!Older(@)]]
  BY DEF Mt!Start
<1>4. ASSUME NEW q \in MatchRuns
      PROVE  /\ mtRun'[q] \in MtRun
             /\ mtRun'[q].at # "rest" => mtRun'[q].lag < Mt!Old
             /\ mtRun'[q].at \in {"drop", "search"} => mtRun'[q].s \in Streams
  <2>1. CASE q = r
    BY <1>2, <2>1, MtRested DEF MtInv, MtRun, Mt!Rested
  <2>2. CASE q # r /\ mtRun[q].at = "rest"
    BY <1>1, <1>2, <2>2 DEF MtInv
  <2>3. CASE q # r /\ mtRun[q].at # "rest"
    <3>1. mtRun'[q] = [mtRun[q] EXCEPT !.lag = mtRun[q].lag + 1]
      BY <1>2, <2>3
    <3>2. mtRun[q].lag + 1 < Mt!Old
      BY <2>3 DEF Mt!Start
    <3>3. QED
      BY <1>1, <3>1, <3>2, MtRested DEF MtInv, MtRun
  <2>4. QED
    BY <2>1, <2>2, <2>3
<1>5. ASSUME NEW s \in Streams
      PROVE  /\ mtRow'[s] \in MtRow
             /\ mtRow'[s].event = Mt!None => mtRow'[s] = Mt!NoRow
  <2>1. CASE mtRow[s] = Mt!NoRow
    BY <1>3, <2>1, MtRested
  <2>2. CASE mtRow[s] # Mt!NoRow
    <3>1. mtRow'[s] = [mtRow[s] EXCEPT !.age = Mt!Older(mtRow[s].age)]
      BY <1>3, <2>2
    <3>2. mtRow[s] \in MtRow /\ mtRow[s].event # Mt!None
      BY <2>2 DEF MtInv
    <3>3. Mt!Older(mtRow[s].age) \in 0..Mt!Old
      BY <3>2, MtRested DEF MtRow, Mt!Older
    <3>4. QED
      BY <3>1, <3>2, <3>3 DEF MtRow
  <2>3. QED
    BY <2>1, <2>2
<1>6. mtRun' \in [MatchRuns -> MtRun] /\ mtRow' \in [Streams -> MtRow]
  BY <1>2, <1>3, <1>4, <1>5
<1>7. UNCHANGED <<mtWhen, mtListed, mtPin, mtChanges>>
  BY DEF Mt!Start
<1>8. QED
  BY <1>4, <1>5, <1>6, <1>7 DEF MtInv

\* Rows, with what is known of those that are not there.
MtRows(rows) == /\ rows \in [Streams -> MtRow]
                /\ \A s \in Streams : rows[s].event = Mt!None
                                        => rows[s] = Mt!NoRow

\* One run goes on, and the rows keep their type.
LEMMA MtWork ==
    ASSUME MtParameters, MtInv, NEW r \in MatchRuns, NEW x \in MtRun,
           mtRun' = [mtRun EXCEPT ![r] = x], x.lag = mtRun[r].lag,
           x.at # "rest" => mtRun[r].at # "rest",
           x.at \in {"drop", "search"} => x.s \in Streams,
           MtRows(mtRow'), UNCHANGED <<mtWhen, mtListed, mtPin, mtChanges>>
    PROVE  MtInv'
<1>1. mtRun \in [MatchRuns -> MtRun]
  BY DEF MtInv
<1>2. mtRun' \in [MatchRuns -> MtRun]
  BY <1>1
<1>3. ASSUME NEW q \in MatchRuns
      PROVE  /\ mtRun'[q].at # "rest" => mtRun'[q].lag < Mt!Old
             /\ mtRun'[q].at \in {"drop", "search"} => mtRun'[q].s \in Streams
  BY <1>1 DEF MtInv
<1>4. QED
  BY <1>2, <1>3 DEF MtInv, MtRows

\* A run is through with a stream.
LEMMA MtDone ==
    ASSUME MtParameters, MtInv, NEW r \in MatchRuns, NEW s \in Streams,
           mtRun[r].at # "rest", Mt!Done(r, s), MtRows(mtRow'),
           UNCHANGED <<mtWhen, mtListed, mtPin, mtChanges>>
    PROVE  MtInv'
<1> DEFINE x == [mtRun[r] EXCEPT !.at = "next", !.s = Mt!None,
                                 !.todo = mtRun[r].todo \ {s}]
<1>1. mtRun[r] \in MtRun /\ mtRun \in [MatchRuns -> MtRun]
  BY DEF MtInv
<1>2. x \in MtRun /\ x.lag = mtRun[r].lag /\ x.at = "next"
  BY <1>1 DEF MtRun
<1>3. mtRun' = [mtRun EXCEPT ![r] = x]
  BY <1>1 DEF Mt!Done, MtRun
<1> HIDE DEF x
<1>4. QED
  BY <1>2, <1>3, MtWork

LEMMA MtLook ==
    ASSUME MtParameters, MtInv, NEW r \in MatchRuns, Mt!Look(r)
    PROVE  MtInv'
<1>1. PICK s \in mtRun[r].todo :
        LET e == mtRow[s]
            pinned == e.user /\ s \in TeamStreams
        IN  /\ mtRun[r].at = "next"
            /\ IF e = Mt!NoRow THEN UNCHANGED mtRow
               ELSE mtRow' = [mtRow EXCEPT ![s].age = mtRun[r].lag]
            /\ IF e # Mt!NoRow /\ e.date # Mt!None /\ (pinned \/ e.date = 0)
               THEN Mt!Done(r, s)
               ELSE mtRun' = [mtRun EXCEPT ![r].s = s, ![r].at =
                        IF e # Mt!NoRow /\ e.date = Mt!None
                        THEN "drop" ELSE "search"]
  BY DEF Mt!Look, Mt!At
<1>2. /\ mtRun[r] \in MtRun /\ mtRun \in [MatchRuns -> MtRun]
      /\ mtRow \in [Streams -> MtRow] /\ mtRun[r].lag \in 0..Mt!Old
  BY DEF MtInv, MtRun
<1>3. s \in Streams
  BY <1>1, <1>2 DEF MtRun
<1>4. UNCHANGED <<mtWhen, mtListed, mtPin, mtChanges>>
  BY DEF Mt!Look
<1>5. MtRows(mtRow')
  <2>1. CASE mtRow[s] = Mt!NoRow
    BY <1>1, <2>1 DEF MtInv, MtRows
  <2>2. CASE mtRow[s] # Mt!NoRow
    <3>1. mtRow' = [mtRow EXCEPT ![s] = [mtRow[s] EXCEPT !.age = mtRun[r].lag]]
      BY <1>1, <2>2
    <3>2. mtRow[s] \in MtRow /\ mtRow[s].event # Mt!None
      BY <1>3, <2>2 DEF MtInv
    <3>3. /\ mtRow'[s] \in MtRow /\ mtRow'[s].event # Mt!None
          /\ \A t \in Streams \ {s} : mtRow'[t] = mtRow[t]
          /\ mtRow' \in [Streams -> MtRow]
      BY <1>2, <1>3, <3>1, <3>2 DEF MtRow
    <3>4. QED
      BY <3>3 DEF MtInv, MtRows
  <2>3. QED
    BY <2>1, <2>2
<1>6. CASE Mt!Done(r, s)
  BY <1>1, <1>3, <1>4, <1>5, <1>6, MtDone
<1>7. CASE ~Mt!Done(r, s)
  <2> DEFINE at == IF mtRow[s] # Mt!NoRow /\ mtRow[s].date = Mt!None
                   THEN "drop" ELSE "search"
             x == [mtRun[r] EXCEPT !.s = s, !.at = at]
  <2>1. x \in MtRun /\ x.lag = mtRun[r].lag /\ x.s = s
    BY <1>2, <1>3 DEF MtRun
  <2>2. mtRun' = [mtRun EXCEPT ![r] = x]
    BY <1>1, <1>2, <1>7 DEF MtRun
  <2> HIDE DEF x
  <2>3. QED
    BY <1>1, <1>3, <1>4, <1>5, <2>1, <2>2, MtWork
<1>8. QED
  BY <1>6, <1>7

LEMMA MtDrop ==
    ASSUME MtParameters, MtInv, NEW r \in MatchRuns, Mt!Drop(r)
    PROVE  MtInv'
<1> DEFINE x == [mtRun[r] EXCEPT !.at = "search"]
<1>1. /\ mtRun[r] \in MtRun /\ mtRun \in [MatchRuns -> MtRun]
      /\ mtRun[r].at = "drop" /\ mtRun[r].s \in Streams
  BY DEF MtInv, Mt!Drop, Mt!At
<1>2. x \in MtRun /\ x.lag = mtRun[r].lag /\ x.s = mtRun[r].s
  BY <1>1 DEF MtRun
<1>3. mtRun' = [mtRun EXCEPT ![r] = x]
  BY <1>1 DEF Mt!Drop, MtRun
<1>4. MtRows(mtRow')
  BY <1>1, MtRested DEF MtInv, MtRows, Mt!Drop
<1>5. UNCHANGED <<mtWhen, mtListed, mtPin, mtChanges>>
  BY DEF Mt!Drop
<1> HIDE DEF x
<1>6. QED
  BY <1>1, <1>2, <1>3, <1>4, <1>5, MtWork

LEMMA MtSearch ==
    ASSUME MtParameters, MtInv, NEW r \in MatchRuns, Mt!Search(r)
    PROVE  MtInv'
<1> DEFINE s == mtRun[r].s
<1>1. /\ mtRun[r] \in MtRun /\ mtRow \in [Streams -> MtRow]
      /\ mtRun[r].at = "search" /\ s \in Streams
  BY DEF MtInv, Mt!Search, Mt!At
<1>2. MtRows(mtRow')
  <2>1. CASE UNCHANGED mtRow
    BY <2>1 DEF MtInv, MtRows
  <2>2. ASSUME NEW e \in Mt!Found(s), Mt!Store(s, e, mtRun[r].lag),
               ~UNCHANGED mtRow
        PROVE  MtRows(mtRow')
    <3> DEFINE new == [event |-> e, date |-> mtWhen[e], age |-> mtRun[r].lag,
                       user |-> FALSE]
    <3>1. e \in Events /\ e # Mt!None
      BY <2>2 DEF Mt!Found, MtParameters
    <3>2. new \in MtRow
      BY <1>1, <3>1 DEF MtInv, MtRow, MtRun
    <3>3. mtRow' = [mtRow EXCEPT ![s] = new]
      BY <2>2 DEF Mt!Store
    <3>4. new.event # Mt!None
      BY <3>1
    <3> HIDE DEF new
    <3>5. QED
      BY <1>1, <3>2, <3>3, <3>4 DEF MtInv, MtRows
  <2>3. QED
    BY <2>1, <2>2 DEF Mt!Search
<1>3. UNCHANGED <<mtWhen, mtListed, mtPin, mtChanges>> /\ Mt!Done(r, s)
  BY DEF Mt!Search
<1>4. QED
  BY <1>1, <1>2, <1>3, MtDone

LEMMA MtPurge ==
    ASSUME MtParameters, MtInv, NEW r \in MatchRuns, Mt!Purge(r)
    PROVE  MtInv'
<1>1. mtRun \in [MatchRuns -> MtRun] /\ mtRow \in [Streams -> MtRow]
  BY DEF MtInv
<1>2. /\ mtRun' \in [MatchRuns -> MtRun]
      /\ \A q \in MatchRuns : mtRun'[q] = mtRun[q] \/ mtRun'[q] = Mt!Rested
  BY <1>1, MtRested DEF Mt!Purge
<1>3. /\ mtRow' \in [Streams -> MtRow]
      /\ \A s \in Streams : mtRow'[s] = mtRow[s] \/ mtRow'[s] = Mt!NoRow
  BY <1>1, MtRested DEF Mt!Purge
<1>4. UNCHANGED <<mtWhen, mtListed, mtPin, mtChanges>>
  BY DEF Mt!Purge
<1>5. ASSUME NEW q \in MatchRuns
      PROVE  /\ mtRun'[q].at # "rest" => mtRun'[q].lag < Mt!Old
             /\ mtRun'[q].at \in {"drop", "search"} => mtRun'[q].s \in Streams
  BY <1>2, MtRested DEF MtInv
<1>6. QED
  BY <1>2, <1>3, <1>4, <1>5 DEF MtInv

\* What the user does to the rows: he pins, takes back or clears.
LEMMA MtUser ==
    ASSUME MtParameters, MtInv, Mt!Correct \/ Mt!TakeBack \/ Mt!Clear
    PROVE  MtInv'
<1>1. mtChanges' \in 0..MaxChanges
  BY DEF MtInv, MtParameters, Mt!Correct, Mt!TakeBack, Mt!Clear, Mt!Change
<1>2. UNCHANGED <<mtWhen, mtListed, mtRun>>
  BY DEF Mt!Correct, Mt!TakeBack, Mt!Clear
<1>3. mtPin' \in [Streams -> Events \cup {Mt!None}]
  BY DEF MtInv, Mt!Correct, Mt!TakeBack, Mt!Clear
<1>4. mtRow \in [Streams -> MtRow]
  BY DEF MtInv
<1>5. MtRows(mtRow')
  <2>1. CASE Mt!Correct
    <3>1. PICK s \in Streams, e \in Events :
            mtRow' = [mtRow EXCEPT ![s] =
              [event |-> e, user |-> TRUE,
               date |-> IF mtWhen[e] = 0 THEN 0 ELSE Mt!None,
               age |-> IF mtRow[s] = Mt!NoRow THEN Mt!Old ELSE mtRow[s].age]]
      BY <2>1 DEF Mt!Correct
    <3> DEFINE new ==
              [event |-> e, user |-> TRUE,
               date |-> IF mtWhen[e] = 0 THEN 0 ELSE Mt!None,
               age |-> IF mtRow[s] = Mt!NoRow THEN Mt!Old ELSE mtRow[s].age]
    <3>2. new.event # Mt!None
      BY DEF MtParameters
    <3>3. mtRow[s].age \in 0..Mt!Old /\ Mt!Old \in 0..Mt!Old
      BY <1>4, MtRested DEF MtRow
    <3>4. 0 \in Mt!Days
      BY DEF MtParameters, Mt!Days, Mt!Gone
    <3>5. new \in MtRow
      BY <3>3, <3>4 DEF MtRow
    <3>6. mtRow' = [mtRow EXCEPT ![s] = new]
      BY <3>1
    <3> HIDE DEF new
    <3>7. QED
      BY <1>4, <3>2, <3>5, <3>6 DEF MtInv, MtRows
  <2>2. CASE Mt!TakeBack \/ Mt!Clear
    <3>1. /\ mtRow' \in [Streams -> MtRow]
          /\ \A s \in Streams : mtRow'[s] = mtRow[s] \/ mtRow'[s] = Mt!NoRow
      BY <1>4, <2>2, MtRested DEF Mt!TakeBack, Mt!Clear
    <3>2. QED
      BY <3>1 DEF MtInv, MtRows
  <2>3. QED
    BY <2>1, <2>2
<1>6. QED
  BY <1>1, <1>2, <1>3, <1>5 DEF MtInv, MtRows

\* An event is moved, a source lists other streams, a day ends.
LEMMA MtWorld ==
    ASSUME MtParameters, MtInv, Mt!Reschedule \/ Mt!List \/ Mt!NextDay
    PROVE  MtInv'
<1>1. CASE Mt!Reschedule
  <2>1. 0..Ahead \subseteq Mt!Days
    BY DEF MtParameters, Mt!Days, Mt!Gone
  <2>2. QED
    BY <1>1, <2>1 DEF MtInv, MtParameters, Mt!Reschedule, Mt!Change
<1>2. CASE Mt!List
  BY <1>2 DEF MtInv, MtParameters, Mt!List, Mt!Change
<1>3. CASE Mt!NextDay
  <2>1. /\ mtWhen' = [e \in Events |-> Mt!Before(mtWhen[e])]
        /\ mtRow' = [s \in Streams |->
              [mtRow[s] EXCEPT !.date = Mt!Before(mtRow[s].date)]]
        /\ UNCHANGED <<mtListed, mtRun, mtPin, mtChanges>>
    BY <1>3 DEF Mt!NextDay
  <2>2. ASSUME NEW e \in Events PROVE Mt!Before(mtWhen[e]) \in Mt!Days
    BY DEF MtInv, MtParameters, Mt!Before, Mt!Days, Mt!Gone, Mt!None
  <2>3. mtWhen' \in [Events -> Mt!Days]
    BY <2>1, <2>2
  <2>4. ASSUME NEW s \in Streams
        PROVE  /\ mtRow'[s] \in MtRow
               /\ mtRow'[s].event = mtRow[s].event
               /\ mtRow[s] = Mt!NoRow => mtRow'[s] = Mt!NoRow
    <3>1. mtRow[s] \in MtRow
      BY DEF MtInv
    <3>2. mtRow'[s] = [mtRow[s] EXCEPT !.date = Mt!Before(mtRow[s].date)]
      BY <2>1
    <3>3. Mt!Before(mtRow[s].date) \in Mt!Days \cup {Mt!None}
      BY <3>1, MtBefore DEF MtRow
    <3>4. mtRow[s] = Mt!NoRow => mtRow'[s] = Mt!NoRow
      BY <3>2, MtRested, MtBefore DEF Mt!NoRow
    <3>5. QED
      BY <3>1, <3>2, <3>3, <3>4 DEF MtRow
  <2>5. MtRows(mtRow')
    BY <2>1, <2>4 DEF MtInv, MtRows
  <2>6. QED
    BY <2>1, <2>3, <2>5 DEF MtInv, MtRows
<1>4. QED
  BY <1>1, <1>2, <1>3

LEMMA MtNext ==
    ASSUME MtParameters, MtInv, [Mt!Next]_(Mt!vars)
    PROVE  MtInv'
<1>1. CASE UNCHANGED Mt!vars
  BY <1>1 DEF Mt!vars, MtInv
<1>2. ASSUME NEW r \in MatchRuns, Mt!Start(r) \/ Mt!Work(r) PROVE MtInv'
  BY <1>2, MtStart, MtLook, MtDrop, MtSearch, MtPurge DEF Mt!Work
<1>3. QED
  BY <1>1, <1>2, MtUser, MtWorld DEF Mt!Next

\* Every variable of the match cache keeps its type: a run that looks, drops
\* or searches is never as far behind the counter as what is purged, and a row
\* without an event is no row (stream_match_cache.py).
THEOREM MatchCacheTypes == Mt!Spec => []Mt!TypeOK
<1>1. MtInv => Mt!TypeOK
  BY DEF MtInv, MtRow, MtRun, Mt!TypeOK
<1>2. MtInv /\ [Mt!Next]_(Mt!vars) => MtInv'
  BY MtNext, Parameters
<1>3. Mt!Init => MtInv
  BY MtInit, Parameters
<1>4. QED
  BY <1>1, <1>2, <1>3, PTL DEF Mt!Spec

\* No match that a run finds replaces a correction of the user, whatever the
\* runs were at when the correction was made (the upsert's WHERE clause).
THEOREM PinsAreNotReplacedHolds == Mt!Spec => Mt!PinsAreNotReplaced
<1>1. ASSUME MtInv, [Mt!Next]_(Mt!vars)
      PROVE  [\A s \in Streams :
               mtRow[s].user /\ mtRow'[s].event \notin {Mt!None, mtRow[s].event}
                  => mtPin'[s] = mtRow'[s].event]_(Mt!vars)
  <2> SUFFICES ASSUME Mt!Next, NEW s \in Streams, mtRow[s].user,
                      mtRow'[s].event # Mt!None,
                      mtRow'[s].event # mtRow[s].event
               PROVE  mtPin'[s] = mtRow'[s].event
    BY <1>1
  <2>1. mtRow \in [Streams -> MtRow] /\ Mt!NoRow.event = Mt!None
    BY <1>1, MtRested, Parameters DEF MtInv
  <2>2. mtRow'[s] # mtRow[s]
    OBVIOUS
  <2>3. ASSUME NEW r \in MatchRuns, Mt!Start(r) PROVE FALSE
    BY <2>1, <2>3 DEF Mt!Start, MtRow
  <2>4. ASSUME NEW r \in MatchRuns, Mt!Look(r) PROVE FALSE
    BY <2>1, <2>4 DEF Mt!Look, MtRow
  <2>5. ASSUME NEW r \in MatchRuns, Mt!Drop(r) PROVE FALSE
    BY <2>1, <2>5 DEF Mt!Drop
  <2>6. ASSUME NEW r \in MatchRuns, Mt!Search(r) PROVE FALSE
    BY <2>1, <2>6 DEF Mt!Search, Mt!Store
  <2>7. ASSUME NEW r \in MatchRuns, Mt!Purge(r) PROVE FALSE
    BY <2>1, <2>7 DEF Mt!Purge
  <2>8. CASE Mt!Correct
    <3>1. mtPin \in [Streams -> Events \cup {Mt!None}]
      BY <1>1 DEF MtInv
    <3>2. QED
      BY <2>1, <2>8, <3>1 DEF Mt!Correct
  <2>9. CASE Mt!TakeBack \/ Mt!Clear
    BY <2>1, <2>9 DEF Mt!TakeBack, Mt!Clear
  <2>10. CASE Mt!Reschedule \/ Mt!List
    BY <2>10 DEF Mt!Reschedule, Mt!List
  <2>11. CASE Mt!NextDay
    BY <2>1, <2>11 DEF Mt!NextDay, MtRow
  <2>12. QED
    BY <2>3, <2>4, <2>5, <2>6, <2>7, <2>8, <2>9, <2>10, <2>11
       DEF Mt!Next, Mt!Work
<1>2. MtInv /\ [Mt!Next]_(Mt!vars) => MtInv'
  BY MtNext, Parameters
<1>3. Mt!Init => MtInv
  BY MtInit, Parameters
<1>4. QED
  BY <1>1, <1>2, <1>3, PTL DEF Mt!Spec, Mt!PinsAreNotReplaced

-----------------------------------------------------------------------------
(* The event groups *)

GrRow == [there : {TRUE}, account : Accounts \cup {Gr!None},
          types : SUBSET Types, on : BOOLEAN, bound : M3UIds \cup {Gr!None},
          name : M3UNames \cup {Gr!None}, pattern : BOOLEAN,
          missing : BOOLEAN, guide : {Gr!None, "old", "new"}]
GrRows == GrRow \cup {Gr!Absent}

\* What a request may have checked: a source it creates or updates matches.
GrReq ==
    {[kind |-> Gr!None]}
    \cup [kind : {"create"}, account : Accounts \cup {Gr!None},
          types : (SUBSET Types) \ {{}}]
    \cup {q \in [kind : {"update"}, g : Sources, p : Gr!Patches,
                 seen : SUBSET Types] : Gr!Patched(q.seen, q.p) # {}}

\* While groups are processed, one that is done has no guide of an earlier run
\* unless it was found without a template.
GrFresh == grPc = "groups" =>
              \A g \in grListed \ (grBare \cup grTodo) :
                 grGroup[g].there => grGroup[g].guide # "old"

GrTypes ==
    /\ grGroup \in [Sources -> GrRows] /\ grReq \in [Requests -> GrReq]
    /\ grLive \in [M3UIds -> M3UNames \cup {Gr!None}] /\ grTemplate \in BOOLEAN
    /\ grPc \in {"idle", "groups", "stale"}
    /\ grTodo \subseteq grListed /\ grBare \subseteq grListed
    /\ grListed \subseteq Sources /\ grRaced \subseteq Sources
    /\ grServed \in [Sources -> {Gr!None, "old", "new"}]

\* Outside of the processing nothing is left to process.
GrRest == grPc # "groups" => grTodo = {}

GrInv == GrTypes /\ Gr!SourcesMatch /\ GrFresh /\ GrRest

\* A row is told by its flag.
LEMMA GrThere ==
    ASSUME NEW x \in GrRows
    PROVE  /\ x.there \in BOOLEAN
           /\ x.there => x \in GrRow
           /\ ~x.there => x = Gr!Absent
<1>1. CASE x \in GrRow
  <2>1. x.there = TRUE
    BY <1>1 DEF GrRow
  <2>2. QED
    BY <1>1, <2>1
<1>2. CASE x = Gr!Absent
  <2>1. x.there = FALSE
    BY <1>2 DEF Gr!Absent
  <2>2. QED
    BY <1>2, <2>1
<1>3. QED
  BY <1>1, <1>2 DEF GrRows

LEMMA GrNew ==
    ASSUME NEW a \in Accounts \cup {Gr!None}, NEW ts \in SUBSET Types,
           NEW on \in BOOLEAN
    PROVE  /\ Gr!NewGroup(a, ts, on) \in GrRow
           /\ Gr!NewGroup(a, ts, on).types = ts
           /\ Gr!NewGroup(a, ts, on).guide = Gr!None
           /\ Gr!NewGroup(a, ts, on).there
BY DEF Gr!NewGroup, GrRow

LEMMA GrPatch ==
    ASSUME NEW ts \in SUBSET Types, NEW p \in Gr!Patches
    PROVE  Gr!Patched(ts, p) \in SUBSET Types
BY DEF Gr!Patched, Gr!Patches

LEMMA GrInit == ASSUME GrParameters PROVE Gr!Init => GrInv
<1> SUFFICES ASSUME Gr!Init PROVE GrInv
  OBVIOUS
<1>1. \A g \in Sources :
        /\ grGroup[g] \in GrRows
        /\ grGroup[g].there => grGroup[g].types # {}
  <2>1. CASE grGroup = [g \in Sources |-> Gr!Absent]
    BY <2>1 DEF GrRows, Gr!Absent
  <2>2. ASSUME NEW a \in Accounts, NEW n \in M3UNames, NEW b \in BOOLEAN,
               grGroup = [g \in Sources |->
                  IF g = CHOOSE h \in Sources : TRUE
                  THEN [Gr!NewGroup(a, Types, TRUE) EXCEPT
                           !.bound = CHOOSE i \in M3UIds : TRUE,
                           !.name = n, !.pattern = b]
                  ELSE Gr!Absent]
        PROVE  \A g \in Sources :
                 /\ grGroup[g] \in GrRows
                 /\ grGroup[g].there => grGroup[g].types # {}
    <3> DEFINE i == CHOOSE i \in M3UIds : TRUE
               x == [Gr!NewGroup(a, Types, TRUE) EXCEPT
                       !.bound = i, !.name = n, !.pattern = b]
    <3>1. i \in M3UIds
      BY DEF GrParameters
    <3> HIDE DEF i
    <3>2. Gr!NewGroup(a, Types, TRUE) \in GrRow
          /\ Gr!NewGroup(a, Types, TRUE).types = Types
      BY GrNew
    <3>3. x \in GrRow /\ x.types = Types
      BY <3>1, <3>2 DEF GrRow
    <3> HIDE DEF x
    <3>4. ASSUME NEW g \in Sources
          PROVE  grGroup[g] = x \/ grGroup[g] = Gr!Absent
      BY <2>2 DEF x, i
    <3>5. QED
      BY <3>3, <3>4 DEF GrParameters, GrRows, Gr!Absent
  <2>3. QED
    BY <2>1, <2>2 DEF Gr!Init
<1>2. grGroup = [g \in Sources |-> grGroup[g]]
  BY DEF Gr!Init
<1>3. grReq \in [Requests -> GrReq]
  BY DEF Gr!Init, GrReq
<1>4. GrTypes
  BY <1>1, <1>2, <1>3 DEF Gr!Init, GrTypes
<1>5. Gr!SourcesMatch
  BY <1>1 DEF Gr!SourcesMatch, Gr!Rows
<1>6. GrFresh
  BY DEF Gr!Init, GrFresh
<1>7. GrRest
  BY DEF Gr!Init, GrRest
<1>8. QED
  BY <1>4, <1>5, <1>6, <1>7 DEF GrInv

\* What a request or the outside does to the rows beside a run: no row loses
\* its types unnoticed, none gets a guide of an earlier run.
GrEdited(new, races) ==
    /\ new \in [Sources -> GrRows]
    /\ races \subseteq Sources
    /\ \A g \in Sources : new[g].there =>
         /\ g \notin races => new[g].types # {}
         /\ new[g].guide = "old" => grGroup[g].there /\ grGroup[g].guide = "old"

LEMMA GrEdit ==
    ASSUME GrInv, GrEdited(grGroup', grRaced'), grReq' \in [Requests -> GrReq],
           grLive' \in [M3UIds -> M3UNames \cup {Gr!None}],
           grTemplate' \in BOOLEAN, UNCHANGED Gr!runVars
    PROVE  GrInv'
<1>1. GrTypes'
  BY DEF GrInv, GrTypes, GrEdited, Gr!runVars
<1>2. Gr!SourcesMatch'
  BY DEF GrEdited, Gr!SourcesMatch, Gr!Rows
<1>3. GrFresh'
  BY DEF GrInv, GrTypes, GrEdited, GrFresh, Gr!runVars
<1>4. GrRest'
  BY DEF GrInv, GrRest, Gr!runVars
<1>5. QED
  BY <1>1, <1>2, <1>3, <1>4 DEF GrInv

\* The rows as they are.
LEMMA GrSame == ASSUME GrInv PROVE GrEdited(grGroup, grRaced)
BY DEF GrInv, GrTypes, GrEdited, Gr!SourcesMatch, Gr!Rows

\* A request that is over is forgotten, one that begins is as it checked.
LEMMA GrReqs ==
    ASSUME GrInv, NEW r \in Requests, NEW q \in GrReq
    PROVE  /\ [kind |-> Gr!None] \in GrReq
           /\ [grReq EXCEPT ![r] = q] \in [Requests -> GrReq]
BY DEF GrInv, GrTypes, GrReq

\* The looks of create_group and update_group_by_id.
LEMMA GrLooks ==
    ASSUME GrInv, NEW r \in Requests,
           \/ \E a \in Accounts \cup {Gr!None}, ts \in SUBSET Types :
                 Gr!CreateLook(r, a, ts)
           \/ \E g \in Sources, p \in Gr!Patches : Gr!UpdateLook(r, g, p)
    PROVE  GrInv'
<1>1. PICK q \in GrReq : grReq' = [grReq EXCEPT ![r] = q]
  <2>1. ASSUME NEW a \in Accounts \cup {Gr!None}, NEW ts \in SUBSET Types,
               Gr!CreateLook(r, a, ts)
        PROVE  \E q \in GrReq : grReq' = [grReq EXCEPT ![r] = q]
    <3> DEFINE q == [kind |-> "create", account |-> a, types |-> ts]
    <3>1. q \in GrReq
      BY <2>1 DEF Gr!CreateLook, GrReq
    <3>2. QED
      BY <2>1, <3>1 DEF Gr!CreateLook
  <2>2. ASSUME NEW g \in Sources, NEW p \in Gr!Patches, Gr!UpdateLook(r, g, p)
        PROVE  \E q \in GrReq : grReq' = [grReq EXCEPT ![r] = q]
    <3> DEFINE q == [kind |-> "update", g |-> g, p |-> p,
                     seen |-> grGroup[g].types]
    <3>1. grGroup[g] \in GrRow
      BY <2>2, GrThere DEF GrInv, GrTypes, Gr!UpdateLook, Gr!Rows
    <3>2. grGroup[g].types \in SUBSET Types
      BY <3>1 DEF GrRow
    <3>3. Gr!Patched(grGroup[g].types, p) # {}
      BY <2>2 DEF Gr!UpdateLook
    <3>4. /\ q \in [kind : {"update"}, g : Sources, p : Gr!Patches,
                    seen : SUBSET Types]
          /\ q.seen = grGroup[g].types /\ q.p = p
      BY <3>2
    <3>5. grReq' = [grReq EXCEPT ![r] = q]
      BY <2>2 DEF Gr!UpdateLook
    <3> HIDE DEF q
    <3>6. q \in GrReq
      BY <3>3, <3>4 DEF GrReq
    <3>7. QED
      BY <3>5, <3>6
  <2>3. QED
    BY <2>1, <2>2
<1>2. grReq' \in [Requests -> GrReq]
  BY <1>1, GrReqs
<1>3. UNCHANGED <<grGroup, grLive, grTemplate, Gr!runVars, grRaced>>
  BY DEF Gr!CreateLook, Gr!UpdateLook
<1>4. GrEdited(grGroup', grRaced')
  BY <1>3, GrSame
<1>5. QED
  BY <1>2, <1>3, <1>4, GrEdit DEF GrInv, GrTypes

\* The INSERT of a create.
LEMMA GrCreateWrite ==
    ASSUME GrInv, NEW r \in Requests, Gr!CreateWrite(r)
    PROVE  GrInv'
<1> DEFINE q == grReq[r]
           new == Gr!NewGroup(q.account, q.types, TRUE)
<1>1. q \in GrReq /\ q.kind = "create"
  BY DEF GrInv, GrTypes, Gr!CreateWrite
<1>2. /\ q.account \in Accounts \cup {Gr!None} /\ q.types \in SUBSET Types
      /\ q.types # {}
  BY <1>1 DEF GrReq, Gr!None
<1>3. new \in GrRow /\ new.types = q.types /\ new.guide = Gr!None
  BY <1>2, GrNew
<1>4. UNCHANGED <<grLive, grTemplate, Gr!runVars>>
  BY DEF Gr!CreateWrite
<1>5. grReq' \in [Requests -> GrReq]
  BY <1>1, GrReqs DEF Gr!CreateWrite
<1>6. GrEdited(grGroup', grRaced')
  <2>1. CASE UNCHANGED <<grGroup, grRaced>>
    BY <2>1, GrSame
  <2>2. ASSUME NEW g \in Sources, grGroup' = [grGroup EXCEPT ![g] = new],
               grRaced' = grRaced \ {g}
        PROVE  GrEdited(grGroup', grRaced')
    <3> HIDE DEF new
    <3>1. /\ GrEdited(grGroup, grRaced) /\ new \in GrRows
          /\ new.guide # "old" /\ new.types # {}
      BY <1>2, <1>3, GrSame DEF GrRows, Gr!None
    <3>2. QED
      BY <2>2, <3>1 DEF GrEdited
  <2>3. QED
    BY <2>1, <2>2 DEF Gr!CreateWrite
<1>7. QED
  BY <1>4, <1>5, <1>6, GrEdit DEF GrInv, GrTypes

\* The INSERTs of create_groups_bulk.
LEMMA GrCreateBulk ==
    ASSUME GrInv, NEW ts \in SUBSET Types, Gr!CreateBulk(Accounts, ts)
    PROVE  GrInv'
<1>0. PICK ids \in SUBSET (Sources \ (Gr!Rows \cup grListed)) :
        \E of \in [ids -> Accounts] :
          /\ grGroup' = [g \in Sources |->
                IF g \in ids THEN Gr!NewGroup(of[g], ts, TRUE) ELSE grGroup[g]]
          /\ grRaced' = grRaced \ ids
  <2>1. {a \in Accounts : a # Gr!None /\ Gr!Taken(a) = {}} \subseteq Accounts
    OBVIOUS
  <2>2. QED
    BY <2>1 DEF Gr!CreateBulk
<1>1. PICK of \in [ids -> Accounts] :
        /\ grGroup' = [g \in Sources |->
              IF g \in ids THEN Gr!NewGroup(of[g], ts, TRUE) ELSE grGroup[g]]
        /\ grRaced' = grRaced \ ids
  BY <1>0
<1>2. ts # {} /\ UNCHANGED <<grLive, grTemplate, grReq, Gr!runVars>>
  BY DEF Gr!CreateBulk
<1>3. GrEdited(grGroup', grRaced')
  <2>1. GrEdited(grGroup, grRaced)
    BY GrSame
  <2>2. ASSUME NEW g \in ids
        PROVE  /\ grGroup'[g] \in GrRows /\ grGroup'[g].types # {}
               /\ grGroup'[g].guide # "old"
    <3>1. grGroup'[g] = Gr!NewGroup(of[g], ts, TRUE)
      BY <1>1, <2>2
    <3>2. of[g] \in Accounts \cup {Gr!None}
      BY <1>1, <2>2
    <3> DEFINE new == Gr!NewGroup(of[g], ts, TRUE)
    <3>3. new \in GrRow /\ new.types = ts /\ new.guide = Gr!None
      BY <3>2, GrNew
    <3>4. grGroup'[g] = new
      BY <3>1
    <3> HIDE DEF new
    <3>5. /\ grGroup'[g] \in GrRow /\ grGroup'[g].types = ts
          /\ grGroup'[g].guide = Gr!None
      BY <3>3, <3>4
    <3>6. Gr!None # "old"
      BY DEF Gr!None
    <3>7. QED
      BY <1>2, <3>5, <3>6 DEF GrRows
  <2>3. ASSUME NEW g \in Sources \ ids PROVE grGroup'[g] = grGroup[g]
    BY <1>1, <2>3
  <2>4. grGroup' \in [Sources -> GrRows]
    BY <1>1, <2>1, <2>2, <2>3 DEF GrEdited
  <2>5. grRaced' = grRaced \ ids
    BY <1>1
  <2>6. QED
    BY <2>1, <2>2, <2>3, <2>4, <2>5 DEF GrEdited
<1>4. QED
  BY <1>2, <1>3, GrEdit DEF GrInv, GrTypes

\* One row is put in the place of another that was there.
LEMMA GrPut ==
    ASSUME GrInv, NEW g \in Gr!Rows, NEW y \in GrRow,
           grGroup' = [grGroup EXCEPT ![g] = y],
           grRaced' \in {grRaced, grRaced \cup {g}},
           y.types # {} \/ g \in grRaced',
           y.guide = "old" => grGroup[g].guide = "old"
    PROVE  GrEdited(grGroup', grRaced')
<1>1. GrEdited(grGroup, grRaced) /\ g \in Sources /\ y \in GrRows
      /\ grGroup[g].there
  BY GrSame DEF Gr!Rows, GrRows
<1>2. /\ grGroup' \in [Sources -> GrRows] /\ grGroup'[g] = y
      /\ \A h \in Sources \ {g} : grGroup'[h] = grGroup[h]
  BY <1>1 DEF GrEdited
<1>3. grRaced' \subseteq Sources /\ grRaced \subseteq grRaced'
  BY <1>1 DEF GrEdited
<1>4. QED
  BY <1>1, <1>2, <1>3 DEF GrEdited

\* The rows that are there, and what one is made of.
LEMMA GrIsRow ==
    ASSUME GrInv, NEW g \in Gr!Rows
    PROVE  /\ grGroup[g] \in GrRow /\ g \in Sources
           /\ grGroup[g].types \in SUBSET Types
           /\ g \in grRaced \/ grGroup[g].types # {}
<1>1. grGroup[g] \in GrRow /\ g \in Sources
  BY GrThere DEF GrInv, GrTypes, Gr!Rows
<1>2. QED
  BY <1>1 DEF GrInv, GrRow, Gr!SourcesMatch

\* The UPDATE of an update: what it checked holds unless it was overtaken.
LEMMA GrUpdateWrite ==
    ASSUME GrInv, NEW r \in Requests, Gr!UpdateWrite(r)
    PROVE  GrInv'
<1> DEFINE q == grReq[r]
<1>1. q \in GrReq /\ q.kind = "update"
  BY DEF GrInv, GrTypes, Gr!UpdateWrite
<1>2. /\ q.g \in Sources /\ q.p \in Gr!Patches
      /\ Gr!Patched(q.seen, q.p) # {}
  BY <1>1 DEF GrReq, Gr!None
<1>3. UNCHANGED <<grLive, grTemplate, Gr!runVars>>
  BY DEF Gr!UpdateWrite
<1>4. grReq' \in [Requests -> GrReq]
  BY <1>1, GrReqs DEF Gr!UpdateWrite
<1>5. GrEdited(grGroup', grRaced')
  <2>1. CASE q.g \notin Gr!Rows
    BY <2>1, GrSame DEF Gr!UpdateWrite
  <2>2. CASE q.g \in Gr!Rows
    <3> DEFINE g == q.g
               x == grGroup[g]
               ts == Gr!Patched(x.types, q.p)
               y == [x EXCEPT !.types = ts]
    <3>1. /\ grGroup' = [grGroup EXCEPT ![g] = y]
          /\ grRaced' = IF x.types = q.seen
                        THEN grRaced ELSE grRaced \cup {g}
      BY <2>2 DEF Gr!UpdateWrite
    <3>2. x \in GrRow /\ x.types \in SUBSET Types
      BY <2>2, GrIsRow
    <3>3. ts \in SUBSET Types
      BY <1>2, <3>2, GrPatch
    <3>4. x.types = q.seen => ts # {}
      BY <1>2
    <3> HIDE DEF ts
    <3>5. y \in GrRow /\ y.types = ts /\ y.guide = x.guide
      BY <3>2, <3>3 DEF GrRow
    <3>6. /\ grRaced' \in {grRaced, grRaced \cup {g}}
          /\ y.types # {} \/ g \in grRaced'
      BY <3>1, <3>4, <3>5
    <3>7. y.guide = "old" => x.guide = "old"
      BY <3>5
    <3> HIDE DEF y
    <3>8. QED
      BY <2>2, <3>1, <3>5, <3>6, <3>7, GrPut
  <2>3. QED
    BY <2>1, <2>2
<1>6. QED
  BY <1>3, <1>4, <1>5, GrEdit DEF GrInv, GrTypes

\* The UPDATE of update_groups_bulk.
LEMMA GrUpdateBulk ==
    ASSUME GrInv, NEW p \in Gr!Patches, Gr!UpdateBulk(Sources, p)
    PROVE  GrInv'
<1>1. UNCHANGED <<grLive, grTemplate, grReq, Gr!runVars, grRaced>>
  BY DEF Gr!UpdateBulk
<1>2. grGroup' = [g \in Sources |->
         IF g \in Gr!Rows /\ Gr!Patched(grGroup[g].types, p) # {}
         THEN [grGroup[g] EXCEPT !.types = Gr!Patched(grGroup[g].types, p)]
         ELSE grGroup[g]]
  BY DEF Gr!UpdateBulk, Gr!Rows
<1>3. ASSUME NEW g \in Sources
      PROVE  /\ grGroup'[g] \in GrRows
             /\ grGroup'[g].there => g \in Gr!Rows
             /\ g \in Gr!Rows => /\ grGroup'[g].guide = grGroup[g].guide
                                 /\ g \in grRaced \/ grGroup'[g].types # {}
  <2>1. CASE grGroup'[g] = grGroup[g]
    BY <2>1, GrIsRow DEF GrInv, GrTypes, Gr!Rows
  <2>2. CASE g \in Gr!Rows /\ Gr!Patched(grGroup[g].types, p) # {}
    <3> DEFINE ts == Gr!Patched(grGroup[g].types, p)
    <3>1. grGroup[g] \in GrRow /\ ts \in SUBSET Types
      BY <2>2, GrIsRow, GrPatch
    <3>2. grGroup'[g] = [grGroup[g] EXCEPT !.types = ts] /\ ts # {}
      BY <1>2, <2>2
    <3> HIDE DEF ts
    <3>3. /\ grGroup'[g] \in GrRow /\ grGroup'[g].types = ts
          /\ grGroup'[g].guide = grGroup[g].guide
      BY <3>1, <3>2 DEF GrRow
    <3>4. QED
      BY <2>2, <3>2, <3>3 DEF GrRows
  <2>3. QED
    BY <1>2, <2>1, <2>2
<1>4. grGroup' \in [Sources -> GrRows]
  BY <1>2, <1>3
<1>5. GrEdited(grGroup', grRaced')
  BY <1>1, <1>3, <1>4 DEF GrEdited, Gr!Rows, GrInv, GrTypes
<1>6. QED
  BY <1>1, <1>5, GrEdit DEF GrInv, GrTypes

\* The other requests: switch, delete, rebind; and the playlists.
LEMMA GrSwitch ==
    ASSUME GrInv, NEW g \in Sources, NEW on \in BOOLEAN, NEW put \in BOOLEAN,
           Gr!Switch(g, on, put)
    PROVE  GrInv'
<1> DEFINE x == grGroup[g]
           d == IF put /\ ~on THEN Gr!None ELSE x.guide
           y == [x EXCEPT !.on = on, !.guide = d]
<1>1. g \in Gr!Rows /\ x \in GrRow
  BY GrIsRow DEF Gr!Switch
<1>2. g \in grRaced \/ x.types # {}
  BY <1>1, GrIsRow
<1>3. /\ d \in {Gr!None, "old", "new"}
      /\ d = "old" => x.guide = "old"
  BY <1>1 DEF GrRow, Gr!None
<1>4. grGroup \in [Sources -> GrRows]
  BY DEF GrInv, GrTypes
<1>5. grGroup' = [grGroup EXCEPT ![g] = y]
  BY <1>1, <1>4 DEF Gr!Switch, GrRow
<1> HIDE DEF d
<1>6. y \in GrRow /\ y.types = x.types /\ y.guide = d
  BY <1>1, <1>3 DEF GrRow
<1>7. UNCHANGED <<grLive, grTemplate, grReq, Gr!runVars, grRaced>>
  BY DEF Gr!Switch
<1>8. GrEdited(grGroup', grRaced')
  BY <1>1, <1>2, <1>3, <1>5, <1>6, <1>7, GrPut
<1>9. QED
  BY <1>7, <1>8, GrEdit DEF GrInv, GrTypes

LEMMA GrDelete ==
    ASSUME GrInv, NEW g \in Sources, Gr!Delete(g)
    PROVE  GrInv'
<1>1. UNCHANGED <<grLive, grTemplate, grReq, Gr!runVars, grRaced>>
  BY DEF Gr!Delete
<1>2. GrEdited(grGroup, grRaced)
  BY GrSame
<1>3. Gr!Absent \in GrRows /\ ~Gr!Absent.there
  BY DEF GrRows, Gr!Absent
<1>4. GrEdited(grGroup', grRaced')
  BY <1>1, <1>2, <1>3 DEF Gr!Delete, GrEdited
<1>5. QED
  BY <1>1, <1>4, GrEdit DEF GrInv, GrTypes

LEMMA GrRebind ==
    ASSUME GrInv, NEW g \in Sources, NEW i \in M3UIds, NEW b \in BOOLEAN,
           Gr!Rebind(g, i, b)
    PROVE  GrInv'
<1> DEFINE x == grGroup[g]
           n == grLive[i]
           y == [x EXCEPT !.bound = i, !.name = n, !.pattern = b,
                          !.missing = FALSE]
<1>1. g \in Gr!Rows /\ x \in GrRow
  BY GrIsRow DEF Gr!Rebind
<1>2. g \in grRaced \/ x.types # {}
  BY <1>1, GrIsRow
<1>3. n \in M3UNames \cup {Gr!None}
  BY DEF GrInv, GrTypes
<1>4. grGroup \in [Sources -> GrRows]
  BY DEF GrInv, GrTypes
<1>5. grGroup' = [grGroup EXCEPT ![g] = y]
  BY <1>1, <1>4 DEF Gr!Rebind, GrRow
<1> HIDE DEF n
<1>6. y \in GrRow /\ y.types = x.types /\ y.guide = x.guide
  BY <1>1, <1>3 DEF GrRow
<1>7. UNCHANGED <<grLive, grTemplate, grReq, Gr!runVars, grRaced>>
  BY DEF Gr!Rebind
<1>8. GrEdited(grGroup', grRaced')
  BY <1>1, <1>2, <1>5, <1>6, <1>7, GrPut
<1>9. QED
  BY <1>7, <1>8, GrEdit DEF GrInv, GrTypes

LEMMA GrOutside ==
    ASSUME GrInv, Gr!Outside
    PROVE  GrInv'
<1>1. UNCHANGED <<grGroup, grReq, Gr!runVars, grRaced>>
  BY DEF Gr!Outside
<1>2. /\ grLive' \in [M3UIds -> M3UNames \cup {Gr!None}]
      /\ grTemplate' \in BOOLEAN
  BY DEF Gr!Outside, GrInv, GrTypes
<1>3. GrEdited(grGroup', grRaced')
  BY <1>1, GrSame
<1>4. QED
  BY <1>1, <1>2, <1>3, GrEdit DEF GrInv, GrTypes

-----------------------------------------------------------------------------
\* A run changes guides, flags and bindings: every row stays, with its types.
GrKept == /\ grGroup' \in [Sources -> GrRows] /\ grRaced' = grRaced
          /\ \A g \in Sources :
               /\ grGroup'[g].there <=> grGroup[g].there
               /\ g \in Gr!Rows => grGroup'[g].types = grGroup[g].types

LEMMA GrKeptMatch ==
    ASSUME GrInv, GrKept
    PROVE  Gr!SourcesMatch'
BY DEF GrKept, GrInv, Gr!SourcesMatch, Gr!Rows

\* What a row becomes if at most its guide or its flags change.
LEMMA GrKeeps ==
    ASSUME GrInv, grGroup' = [g \in Sources |-> grGroup'[g]],
           grRaced' = grRaced,
           \A g \in Sources :
              \/ grGroup'[g] = grGroup[g]
              \/ g \in Gr!Rows /\ grGroup'[g] \in GrRow
                    /\ grGroup'[g].types = grGroup[g].types
    PROVE  GrKept
<1>1. \A g \in Sources : grGroup[g] \in GrRows
  BY DEF GrInv, GrTypes
<1>2. \A y \in GrRow : y.there /\ y \in GrRows
  BY DEF GrRow, GrRows
<1>3. QED
  BY <1>1, <1>2 DEF GrKept, Gr!Rows

LEMMA GrStartRun ==
    ASSUME GrInv, Gr!StartRun
    PROVE  GrInv'
<1>1. grGroup' = [g \in Sources |->
         IF g \in Gr!Rows /\ grGroup[g].guide = "new"
         THEN [grGroup[g] EXCEPT !.guide = "old"] ELSE grGroup[g]]
  BY DEF Gr!StartRun
<1>2. ASSUME NEW g \in Sources
      PROVE  \/ grGroup'[g] = grGroup[g]
             \/ g \in Gr!Rows /\ grGroup'[g] \in GrRow
                   /\ grGroup'[g].types = grGroup[g].types
  <2>1. CASE g \in Gr!Rows /\ grGroup[g].guide = "new"
    <3>1. grGroup[g] \in GrRow
      BY <2>1, GrIsRow
    <3>2. grGroup'[g] = [grGroup[g] EXCEPT !.guide = "old"]
      BY <1>1, <2>1
    <3>3. grGroup'[g] \in GrRow /\ grGroup'[g].types = grGroup[g].types
      BY <3>1, <3>2 DEF GrRow
    <3>4. QED
      BY <2>1, <3>3
  <2>2. QED
    BY <1>1, <2>1
<1>3. GrKept
  BY <1>1, <1>2, GrKeeps DEF Gr!StartRun
<1>4. Gr!SourcesMatch'
  BY <1>3, GrKeptMatch
<1>5. GrFresh'
  BY DEF Gr!StartRun, GrFresh
<1>6. GrTypes'
  BY <1>3 DEF GrInv, GrTypes, GrKept, Gr!StartRun, Gr!On, Gr!Rows
<1>7. QED
  BY <1>4, <1>5, <1>6 DEF GrInv, GrRest, Gr!StartRun

LEMMA GrProcess ==
    ASSUME GrInv, NEW g \in Sources, Gr!ProcessGroup(g)
    PROVE  GrInv'
<1>1. /\ grPc = "groups" /\ g \in grTodo /\ g \in Gr!Rows
      /\ grTodo' = grTodo \ {g}
      /\ grBare' = IF grTemplate THEN grBare ELSE grBare \cup {g}
      /\ UNCHANGED <<grLive, grTemplate, grReq, grPc, grListed, grServed,
                     grRaced>>
  BY DEF Gr!ProcessGroup
<1>2. PICK d \in {Gr!None, "old", "new"} :
        /\ grGroup' = [grGroup EXCEPT ![g] = [grGroup[g] EXCEPT !.guide = d]]
        /\ grTemplate => d # "old"
  <2>1. grGroup[g] \in GrRow /\ grGroup \in [Sources -> GrRows]
    BY <1>1, GrIsRow DEF GrInv, GrTypes
  <2>2. grGroup[g].guide \in {Gr!None, "old", "new"}
    BY <2>1 DEF GrRow
  <2>3. PICK matches \in BOOLEAN :
          grGroup' = [grGroup EXCEPT ![g] = [grGroup[g] EXCEPT !.guide =
             IF ~grTemplate THEN grGroup[g].guide
             ELSE IF matches /\ (\/ Gr!Fetched(g) # {}
                                 \/ grGroup[g].bound = Gr!None)
             THEN "new" ELSE Gr!None]]
    BY <2>1 DEF Gr!ProcessGroup
  <2>4. QED
    BY <2>2, <2>3 DEF Gr!None
<1>3. grGroup[g] \in GrRow /\ grGroup \in [Sources -> GrRows]
  BY <1>1, GrIsRow DEF GrInv, GrTypes
<1>4. /\ grGroup'[g] \in GrRow /\ grGroup'[g].types = grGroup[g].types
      /\ grGroup'[g].guide = d
  BY <1>2, <1>3 DEF GrRow
<1>5. \A h \in Sources \ {g} : grGroup'[h] = grGroup[h]
  BY <1>2, <1>3
<1>6. grGroup' = [h \in Sources |-> grGroup'[h]]
  BY <1>2, <1>3
<1>7. GrKept
  BY <1>1, <1>4, <1>5, <1>6, GrKeeps
<1>8. Gr!SourcesMatch'
  BY <1>7, GrKeptMatch
<1>9. GrFresh'
  <2> SUFFICES ASSUME NEW h \in grListed' \ (grBare' \cup grTodo'),
                      grGroup'[h].there
               PROVE  grGroup'[h].guide # "old"
    BY DEF GrFresh
  <2>1. CASE h = g
    BY <1>1, <1>2, <1>4, <2>1
  <2>2. CASE h # g
    <3>1. h \in grListed \ (grBare \cup grTodo) /\ h \in Sources
      BY <1>1, <2>2 DEF GrInv, GrTypes
    <3>2. QED
      BY <1>1, <1>5, <2>2, <3>1 DEF GrInv, GrFresh
  <2>3. QED
    BY <2>1, <2>2
<1>10. GrTypes'
  <2>1. grBare' \subseteq grListed'
    BY <1>1 DEF GrInv, GrTypes
  <2>2. QED
    BY <1>1, <1>7, <2>1 DEF GrInv, GrTypes, GrKept
<1>11. QED
  BY <1>1, <1>8, <1>9, <1>10 DEF GrInv, GrRest

LEMMA GrRunEnds ==
    ASSUME GrInv, Gr!RunFails \/ Gr!Merge
    PROVE  GrInv'
<1>1. UNCHANGED <<grGroup, grLive, grTemplate, grReq, grRaced>>
  BY DEF Gr!RunFails, Gr!Merge
<1>2. Gr!SourcesMatch'
  BY <1>1 DEF GrInv, Gr!SourcesMatch, Gr!Rows
<1>3. GrFresh'
  BY DEF Gr!RunFails, Gr!Merge, GrFresh
<1>4. grServed' \in [Sources -> {Gr!None, "old", "new"}]
  <2>1. CASE Gr!RunFails
    BY <2>1 DEF Gr!RunFails, GrInv, GrTypes
  <2>2. CASE Gr!Merge
    <3>1. ASSUME NEW g \in Sources
          PROVE  (IF g \in Gr!On THEN grGroup[g].guide ELSE Gr!None)
                    \in {Gr!None, "old", "new"}
      <4>1. CASE g \in Gr!On
        <5>1. g \in Gr!Rows
          BY <4>1 DEF Gr!On
        <5>2. grGroup[g] \in GrRow
          BY <5>1, GrIsRow
        <5>3. QED
          BY <4>1, <5>2 DEF GrRow
      <4>2. QED
        BY <4>1
    <3>2. \/ grServed' = grServed
          \/ grServed' = [g \in Sources |->
                            IF g \in Gr!On THEN grGroup[g].guide ELSE Gr!None]
      BY <2>2 DEF Gr!Merge
    <3>3. QED
      BY <3>1, <3>2 DEF GrInv, GrTypes
  <2>3. QED
    BY <2>1, <2>2
<1>5. /\ grTodo' \subseteq grListed' /\ grBare' \subseteq grListed'
      /\ grListed' \subseteq Sources /\ grPc' \in {"idle", "groups", "stale"}
  BY DEF Gr!RunFails, Gr!Merge, GrInv, GrTypes
<1>6. GrTypes'
  BY <1>1, <1>4, <1>5 DEF GrInv, GrTypes
<1>7. QED
  BY <1>2, <1>3, <1>6 DEF GrInv, GrRest, Gr!RunFails, Gr!Merge

\* The flags and bindings of detect_stale_groups: a binding goes to the one
\* M3U group that has the name.
GrBound(g) == IF /\ Gr!Fetched(g) = {}
                 /\ \E i \in M3UIds : Gr!SameName(g) = {i}
              THEN CHOOSE i \in Gr!SameName(g) : TRUE
              ELSE grGroup[g].bound
GrFlagged(g) == IF g \notin Gr!On \/ grGroup[g].bound = Gr!None
                THEN grGroup[g]
                ELSE [grGroup[g] EXCEPT !.missing = ~Gr!Present(g),
                                        !.bound = GrBound(g)]

LEMMA GrBinding ==
    ASSUME NEW g, grGroup[g] \in GrRow
    PROVE  GrBound(g) \in M3UIds \cup {Gr!None}
<1>1. grGroup[g].bound \in M3UIds \cup {Gr!None}
  BY DEF GrRow
<1>2. QED
  BY <1>1 DEF GrBound

LEMMA GrDetectStale ==
    ASSUME GrInv, Gr!DetectStale
    PROVE  GrInv'
<1>1. \/ UNCHANGED grGroup
      \/ grGroup' = [g \in Sources |-> GrFlagged(g)]
  BY Zenon DEF Gr!DetectStale, GrFlagged, GrBound
<1>2. /\ grPc = "stale" /\ grPc' = "idle" /\ grListed' = {} /\ grBare' = {}
      /\ UNCHANGED <<grLive, grTemplate, grReq, grTodo, grServed, grRaced>>
  BY DEF Gr!DetectStale
<1>3. grGroup' = [g \in Sources |-> grGroup'[g]]
  BY <1>1 DEF GrInv, GrTypes
<1>4. ASSUME NEW g \in Sources
      PROVE  \/ grGroup'[g] = grGroup[g]
             \/ g \in Gr!Rows /\ grGroup'[g] \in GrRow
                   /\ grGroup'[g].types = grGroup[g].types
  <2>1. CASE g \in Gr!On /\ grGroup[g].bound # Gr!None
                /\ grGroup'[g] = GrFlagged(g)
    <3> DEFINE i == GrBound(g)
               gone == ~Gr!Present(g)
               x == grGroup[g]
               y == [x EXCEPT !.missing = gone, !.bound = i]
    <3>1. g \in Gr!Rows
      BY <2>1 DEF Gr!On
    <3>2. x \in GrRow
      BY <3>1, GrIsRow
    <3>3. i \in M3UIds \cup {Gr!None} /\ gone \in BOOLEAN
      BY <3>2, GrBinding
    <3>4. grGroup'[g] = y
      BY <2>1 DEF GrFlagged
    <3> HIDE DEF i, gone, x
    <3>5. y \in GrRow /\ y.types = x.types
      BY <3>2, <3>3 DEF GrRow
    <3>6. QED
      BY <3>1, <3>4, <3>5 DEF x
  <2>2. QED
    BY <1>1, <2>1 DEF GrFlagged
<1>5. GrKept
  BY <1>2, <1>3, <1>4, GrKeeps
<1>6. Gr!SourcesMatch'
  BY <1>5, GrKeptMatch
<1>7. GrFresh' /\ GrRest' /\ grTodo' = {}
  BY <1>2 DEF GrFresh, GrRest, GrInv
<1>8. GrTypes'
  BY <1>2, <1>5, <1>7 DEF GrInv, GrTypes, GrKept
<1>9. QED
  BY <1>6, <1>7, <1>8 DEF GrInv

\* A start of the process clears guides of sources that are switched off.
LEMMA GrBoot ==
    ASSUME GrInv, Gr!Boot
    PROVE  GrInv'
<1>1. /\ grGroup' = [g \in Sources |-> IF g \in Gr!Rows \ Gr!On
                        THEN [grGroup[g] EXCEPT !.guide = Gr!None]
                        ELSE grGroup[g]]
      /\ grReq' = [r \in Requests |-> [kind |-> Gr!None]]
      /\ UNCHANGED <<grLive, grTemplate, Gr!runVars, grRaced>>
  BY DEF Gr!Boot
<1>2. grReq' \in [Requests -> GrReq]
  BY <1>1 DEF GrReq
<1>3. GrEdited(grGroup, grRaced)
  BY GrSame
<1>4. ASSUME NEW g \in Sources, grGroup'[g] # grGroup[g]
      PROVE  /\ g \in Gr!Rows /\ grGroup'[g] \in GrRow
             /\ grGroup'[g].types = grGroup[g].types
             /\ grGroup'[g].guide = Gr!None
  <2>1. g \in Gr!Rows
    BY <1>1, <1>4
  <2>2. grGroup[g] \in GrRow
    BY <2>1, GrIsRow
  <2>3. grGroup'[g] = [grGroup[g] EXCEPT !.guide = Gr!None]
    BY <1>1, <1>4
  <2>4. QED
    BY <2>1, <2>2, <2>3 DEF GrRow
<1>5. grGroup' \in [Sources -> GrRows]
  BY <1>1, <1>3, <1>4 DEF GrEdited, GrRows
<1>6. ASSUME NEW g \in Sources, grGroup'[g].there
      PROVE  /\ g \notin grRaced => grGroup'[g].types # {}
             /\ grGroup'[g].guide = "old"
                   => grGroup[g].there /\ grGroup[g].guide = "old"
  <2>1. CASE grGroup'[g] = grGroup[g]
    BY <1>3, <1>6, <2>1 DEF GrEdited
  <2>2. CASE grGroup'[g] # grGroup[g]
    <3>1. Gr!None # "old"
      BY DEF Gr!None
    <3>2. grGroup[g].there
      BY <1>4, <2>2 DEF Gr!Rows
    <3>3. g \notin grRaced => grGroup[g].types # {}
      BY <1>3, <3>2 DEF GrEdited
    <3>4. QED
      BY <1>4, <2>2, <3>1, <3>3
  <2>3. QED
    BY <2>1, <2>2
<1>7. GrEdited(grGroup', grRaced')
  BY <1>1, <1>3, <1>5, <1>6 DEF GrEdited
<1>8. QED
  BY <1>1, <1>2, <1>7, GrEdit DEF GrInv, GrTypes

LEMMA GrNext ==
    ASSUME GrInv, [Gr!Next]_(Gr!vars)
    PROVE  GrInv'
<1>1. CASE UNCHANGED Gr!vars
  BY <1>1 DEF Gr!vars, GrInv, GrTypes, Gr!SourcesMatch, Gr!Rows, GrFresh,
              GrRest
<1>2. CASE Gr!Generation
  BY <1>2, GrStartRun, GrRunEnds, GrDetectStale, GrProcess DEF Gr!Generation
<1>3. CASE Gr!Request
  BY <1>3, GrLooks, GrCreateWrite, GrUpdateWrite, GrCreateBulk, GrUpdateBulk,
     GrSwitch, GrDelete, GrRebind DEF Gr!Request
<1>4. QED
  BY <1>1, <1>2, <1>3, GrRunEnds, GrOutside, GrBoot DEF Gr!Next

\* Every variable of the event groups keeps its type; what a run has loaded,
\* has left and found without a template are groups of its list.
THEOREM SourceGroupsTypes == Gr!Spec => []Gr!TypeOK
<1>1. GrInv => Gr!TypeOK
  BY DEF GrInv, GrTypes, GrRows, GrRow, Gr!TypeOK
<1>2. GrInv /\ [Gr!Next]_(Gr!vars) => GrInv'
  BY GrNext, Parameters
<1>3. Gr!Init => GrInv
  BY GrInit, Parameters
<1>4. QED
  BY <1>1, <1>2, <1>3, PTL DEF Gr!Spec

\* No sequence of creates, patches and bulk edits leaves a source that matches
\* nothing, unless two updates of it checked and wrote at the same time
\* (update_group_by_id, update_groups_bulk).
THEOREM SourcesMatchHolds == Gr!Spec => []Gr!SourcesMatch
<1>1. GrInv => Gr!SourcesMatch
  BY DEF GrInv
<1>2. GrInv /\ [Gr!Next]_(Gr!vars) => GrInv'
  BY GrNext, Parameters
<1>3. Gr!Init => GrInv
  BY GrInit, Parameters
<1>4. QED
  BY <1>1, <1>2, <1>3, PTL DEF Gr!Spec

\* The merged file has no guide that an earlier run rendered, but for sources
\* found without a template or enabled after the run began
\* (_process_group_internal, the merge of generation.py).
THEOREM GuideIsFreshHolds == Gr!Spec => Gr!GuideIsFresh
<1>1. ASSUME GrInv, [Gr!Next]_(Gr!vars)
      PROVE  [grPc = "groups" /\ grPc' = "stale" /\ grServed' # grServed =>
                \A g \in grListed \ grBare : grServed'[g] # "old"]_(Gr!vars)
  <2> SUFFICES ASSUME Gr!Next, grPc = "groups", grPc' = "stale",
                      grServed' # grServed, NEW g \in grListed \ grBare
               PROVE  grServed'[g] # "old"
    BY <1>1
  <2>1. Gr!Merge
    <3>1. ~Gr!StartRun /\ ~Gr!DetectStale /\ ~Gr!Boot /\ ~Gr!RunFails
      BY DEF Gr!StartRun, Gr!DetectStale, Gr!Boot, Gr!RunFails
    <3>2. \A h \in Sources : ~Gr!ProcessGroup(h)
      BY DEF Gr!ProcessGroup
    <3>3. ~Gr!Outside
      BY DEF Gr!Outside, Gr!runVars
    <3>4. ~Gr!Request
      BY DEF Gr!Request, Gr!CreateLook, Gr!UpdateLook, Gr!CreateWrite,
             Gr!UpdateWrite, Gr!CreateBulk, Gr!UpdateBulk, Gr!Switch,
             Gr!Delete, Gr!Rebind, Gr!runVars
    <3>5. QED
      BY <3>1, <3>2, <3>3, <3>4 DEF Gr!Next, Gr!Generation
  <2>2. /\ grTodo = {}
        /\ grServed' = [h \in Sources |->
                          IF h \in Gr!On THEN grGroup[h].guide ELSE Gr!None]
    BY <2>1 DEF Gr!Merge
  <2>3. g \in Sources
    BY <1>1 DEF GrInv, GrTypes
  <2>4. CASE g \in Gr!On
    <3>1. grGroup[g].there
      BY <2>4 DEF Gr!On, Gr!Rows
    <3>2. grGroup[g].guide # "old"
      BY <1>1, <2>2, <3>1 DEF GrInv, GrFresh
    <3>3. QED
      BY <2>2, <2>3, <2>4, <3>2
  <2>5. CASE g \notin Gr!On
    BY <2>2, <2>3, <2>5 DEF Gr!None
  <2>6. QED
    BY <2>4, <2>5
<1>2. GrInv /\ [Gr!Next]_(Gr!vars) => GrInv'
  BY GrNext, Parameters
<1>3. Gr!Init => GrInv
  BY GrInit, Parameters
<1>4. QED
  BY <1>1, <1>2, <1>3, PTL DEF Gr!Spec, Gr!GuideIsFresh

-----------------------------------------------------------------------------
(* The migrations *)

MgSettings == [there : {TRUE}, own : BOOLEAN, api : Nat,
               mode : {"absent", "auto", "manual"}, version : 0..Mg!Latest]
MgTable == [there : BOOLEAN, new : BOOLEAN, rows : BOOLEAN]
MgChannels == [rows : BOOLEAN, streams : BOOLEAN, cascade : BOOLEAN,
               full : BOOLEAN]
MgDb == [from : From, manual : BOOLEAN, settings : MgSettings \cup {Mg!Missing},
         backup : MgSettings \cup {Mg!Missing}, words : MgTable,
         table : [Rebuilt -> MgTable],
         saved : [Rebuilt -> {Mg!None, "rows", "empty"}], check : BOOLEAN,
         channels : MgChannels, done : [Mg!Data -> Nat],
         lost : SUBSET ({"settings"} \cup Rebuilt)]

\* A table that lost its rows has them in its copy, unless a restore failed;
\* what is there and has not been rebuilt never lost them.
MgTables(D) ==
    \A t \in Rebuilt :
      /\ D.table[t].there /\ ~D.table[t].new => D.table[t].rows
      /\ ~D.table[t].there => ~D.table[t].rows
      /\ ~D.table[t].rows => D.saved[t] = "rows" \/ t \in D.lost

\* The databases whose settings are promised to survive.
MgKept(D) == D.from >= 58 /\ "settings" \notin D.lost

\* The settings of the user are there or in the backup.
MgOwned(D) ==
    MgKept(D) =>
      /\ D.backup.there => D.backup.own /\ D.backup.version >= 58
      /\ D.settings.there => D.settings.version >= 58
      /\ D.settings.there => D.settings.own \/ D.backup.there
      /\ ~D.settings.there => D.backup.there

\* Settings that are not the user's say the newest version, so that the next
\* start does not take them for what is to be backed up.
MgMarked(D) ==
    MgKept(D) /\ D.settings.there /\ ~D.settings.own
        => D.settings.version >= 65

SameSettings(D, E) == /\ E.from = D.from /\ E.lost = D.lost
                      /\ E.settings = D.settings /\ E.backup = D.backup
SameTables(D, E) == /\ E.table = D.table /\ E.saved = D.saved
                    /\ E.lost = D.lost

LEMMA MgSame ==
    ASSUME NEW D, NEW E
    PROVE  /\ SameTables(D, E) /\ MgTables(D) => MgTables(E)
           /\ SameSettings(D, E) /\ MgOwned(D) => MgOwned(E)
           /\ SameSettings(D, E) /\ MgMarked(D) => MgMarked(E)
BY DEF SameTables, SameSettings, MgTables, MgOwned, MgMarked, MgKept

\* What is written to one part of the database leaves the others alone.
LEMMA MgSetTable ==
    ASSUME NEW D \in MgDb, NEW new \in [Rebuilt -> MgTable],
           NEW E, E = [D EXCEPT !.table = new]
    PROVE  /\ E \in MgDb /\ SameSettings(D, E) /\ E.saved = D.saved
           /\ E.table = new
BY DEF MgDb, SameSettings

LEMMA MgSetSaved ==
    ASSUME NEW D \in MgDb,
           NEW new \in [Rebuilt -> {Mg!None, "rows", "empty"}],
           NEW E, E = [D EXCEPT !.saved = new]
    PROVE  /\ E \in MgDb /\ SameSettings(D, E) /\ E.table = D.table
           /\ E.saved = new
BY DEF MgDb, SameSettings

LEMMA MgSetSettings ==
    ASSUME NEW D \in MgDb, NEW x \in MgSettings \cup {Mg!Missing},
           NEW E, E = [D EXCEPT !.settings = x]
    PROVE  /\ E \in MgDb /\ SameTables(D, E) /\ E.from = D.from
           /\ E.settings = x /\ E.backup = D.backup
BY DEF MgDb, SameTables

LEMMA MgSetBackup ==
    ASSUME NEW D \in MgDb, NEW x \in MgSettings \cup {Mg!Missing},
           NEW E, E = [D EXCEPT !.backup = x]
    PROVE  /\ E \in MgDb /\ SameTables(D, E) /\ E.from = D.from
           /\ E.settings = D.settings /\ E.backup = x
BY DEF MgDb, SameTables

LEMMA MgSetWords ==
    ASSUME NEW D \in MgDb, NEW x \in MgTable, NEW E, E = [D EXCEPT !.words = x]
    PROVE  E \in MgDb /\ SameTables(D, E) /\ SameSettings(D, E)
BY DEF MgDb, SameTables, SameSettings

LEMMA MgSetChannels ==
    ASSUME NEW D \in MgDb, NEW x \in MgChannels,
           NEW E, \/ E = [D EXCEPT !.channels = x]
                  \/ E = [D EXCEPT !.channels = x, !.check = FALSE]
    PROVE  E \in MgDb /\ SameTables(D, E) /\ SameSettings(D, E)
BY DEF MgDb, SameTables, SameSettings

\* Settings that are there have a version.
LEMMA MgThere ==
    ASSUME NEW x \in MgSettings \cup {Mg!Missing}
    PROVE  /\ x.there \in BOOLEAN
           /\ x.there => x \in MgSettings /\ x.version \in 0..Mg!Latest
           /\ ~x.there => x = Mg!Missing
<1>1. CASE x \in MgSettings
  <2>1. x.there = TRUE /\ x.version \in 0..Mg!Latest
    BY <1>1 DEF MgSettings
  <2>2. QED
    BY <1>1, <2>1
<1>2. CASE x = Mg!Missing
  <2>1. x.there = FALSE
    BY <1>2 DEF Mg!Missing
  <2>2. QED
    BY <1>2, <2>1
<1>3. QED
  BY <1>1, <1>2

\* The end of a data migration.
LEMMA MgBump ==
    ASSUME NEW D \in MgDb, NEW m \in Mg!Targets
    PROVE  LET E == Mg!Bump(D, m)
           IN  /\ E \in MgDb /\ SameTables(D, E) /\ E.from = D.from
               /\ E.backup = D.backup
               /\ E.settings.there = D.settings.there
               /\ D.settings.there => /\ E.settings.own = D.settings.own
                                      /\ E.settings.version = m
<1> DEFINE x == IF D.settings.there THEN [D.settings EXCEPT !.version = m]
                                    ELSE D.settings
           d == [k \in Mg!Data |-> IF k = m THEN D.done[k] + 1 ELSE D.done[k]]
           E == [D EXCEPT !.settings = x, !.done = d]
<1>1. D.settings \in MgSettings \cup {Mg!Missing}
  BY DEF MgDb
<1>2. m \in 0..Mg!Latest
  BY DEF Mg!Targets, Mg!Data, Mg!Latest
<1>3. /\ x \in MgSettings \cup {Mg!Missing} /\ x.there = D.settings.there
      /\ D.settings.there => x.own = D.settings.own /\ x.version = m
  <2>1. CASE D.settings.there
    <3>1. D.settings \in MgSettings
      BY <1>1, <2>1, MgThere
    <3>2. QED
      BY <1>2, <2>1, <3>1 DEF MgSettings
  <2>2. CASE ~D.settings.there
    BY <1>1, <2>2
  <2>3. QED
    BY <2>1, <2>2
<1>4. d \in [Mg!Data -> Nat]
  BY DEF MgDb
<1>5. Mg!Bump(D, m) = E
  BY DEF MgDb, Mg!Bump
<1> HIDE DEF x, d
<1>6. /\ E \in MgDb /\ SameTables(D, E) /\ E.from = D.from
      /\ E.backup = D.backup /\ E.settings = x
  BY <1>3, <1>4 DEF MgDb, SameTables
<1> HIDE DEF E
<1>7. QED
  BY <1>3, <1>5, <1>6

\* The inductive invariant of the migrations.
MgUp == {"upgrade", "checkpoint", "subscribe"}
MgOk(D) == D \in MgDb /\ MgTables(D) /\ MgOwned(D)

MgTypes ==
    /\ mgOpen \in BOOLEAN /\ mgFk \in BOOLEAN /\ mgMem \in BOOLEAN
    /\ mgLeft \subseteq Rebuilt /\ mgCur \in 0..Mg!Latest
    /\ mgStops \in 0..MaxStops
    /\ ~mgOpen => mgDb = mgDisk
    /\ mgAt \in {"down", "up"} => ~mgOpen

\* What a restart finds can be upgraded again, and so can what it would find
\* after a commit, but between the recovery and the restore.
MgSafe == /\ MgOk(mgDb) /\ MgOk(mgDisk) /\ MgMarked(mgDisk)
          /\ mgAt \notin MgUp => MgMarked(mgDb)

\* What is known of the database at each place; from version 58 on nothing is
\* committed between the recovery and the restore.
MgPlace ==
    /\ mgAt \in {"copy_table", "drop_table"} => mgLeft # {}
    /\ mgAt = "copy_table" => /\ mgDb.table[Mg!Table].there
                              /\ ~mgDb.table[Mg!Table].new
    /\ mgAt = "drop_table" => mgDb.saved[Mg!Table] = "rows"
    /\ mgAt = "copy_settings" => /\ mgDb.settings.there
                                 /\ mgDb.settings.version < 65
    /\ mgAt = "drop_settings" => mgDb.backup.there
    /\ mgAt \in MgUp => mgDb.settings.there
    /\ mgAt \in MgUp \cup {"restore", "late"} =>
         /\ \A t \in Rebuilt : mgDb.table[t].there
         /\ MgKept(mgDb) => mgCur >= 58
    /\ MgKept(mgDb) => mgAt \notin {"checkpoint", "subscribe"}
    /\ mgAt \in {"restore", "late", "up"} /\ MgKept(mgDb)
         => mgDb.settings.there /\ mgDb.settings.own
    /\ mgAt \in {"late", "up"} =>
         \A t \in Rebuilt : mgDb.table[t].rows \/ t \in mgDb.lost

MgInv == MgTypes /\ MgSafe /\ MgPlace

LEMMA MgInit == ASSUME MgParameters PROVE Mg!Init => MgInv
<1> SUFFICES ASSUME Mg!Init PROVE MgInv
  OBVIOUS
<1>1. PICK v \in From, manual \in BOOLEAN, stale \in SUBSET Rebuilt :
        mgDb = Mg!Old(v, manual, stale)
  BY DEF Mg!Init
<1> DEFINE x == [there |-> TRUE, own |-> TRUE,
                 api |-> IF v < 53 THEN 10 ELSE 30,
                 mode |-> IF v < 59 THEN "absent"
                          ELSE IF manual THEN "manual" ELSE "auto",
                 version |-> v]
           tables == [t \in Rebuilt |-> [there |-> TRUE, new |-> t \notin stale,
                                         rows |-> TRUE]]
<1>2. v \in 0..Mg!Latest /\ v \in Nat
  BY DEF MgParameters, Mg!Latest
<1>3. x \in MgSettings /\ x.there /\ x.own /\ x.version = v
  BY <1>2 DEF MgSettings
<1>4. tables \in [Rebuilt -> MgTable] /\ \A t \in Rebuilt : tables[t].rows
                                            /\ tables[t].there
  BY DEF MgTable
<1>5. /\ mgDb.from = v /\ mgDb.settings = x /\ mgDb.backup = Mg!Missing
      /\ mgDb.table = tables
  BY <1>1 DEF Mg!Old
<1>6. mgDb \in MgDb
  <2>1. [m \in Mg!Data |-> IF m <= v THEN 1 ELSE 0] \in [Mg!Data -> Nat]
    OBVIOUS
  <2>2. [t \in Rebuilt |-> Mg!None]
           \in [Rebuilt -> {Mg!None, "rows", "empty"}]
    OBVIOUS
  <2>3. [there |-> TRUE, new |-> v >= 35, rows |-> TRUE] \in MgTable
    BY <1>2 DEF MgTable
  <2>4. [rows |-> TRUE, streams |-> TRUE, cascade |-> v < 63,
         full |-> v = Mg!Latest] \in MgChannels
    BY <1>2 DEF MgChannels
  <2>5. (v < 43) \in BOOLEAN
    OBVIOUS
  <2> HIDE DEF x, tables
  <2>6. mgDb = [from |-> v, manual |-> manual, settings |-> x,
                backup |-> Mg!Missing,
                words |-> [there |-> TRUE, new |-> v >= 35, rows |-> TRUE],
                table |-> tables, saved |-> [t \in Rebuilt |-> Mg!None],
                check |-> v < 43,
                channels |-> [rows |-> TRUE, streams |-> TRUE,
                              cascade |-> v < 63, full |-> v = Mg!Latest],
                done |-> [m \in Mg!Data |-> IF m <= v THEN 1 ELSE 0],
                lost |-> {}]
    BY <1>1 DEF Mg!Old, x, tables
  <2>7. QED
    BY <1>3, <1>4, <2>1, <2>2, <2>3, <2>4, <2>5, <2>6 DEF MgDb
<1> HIDE DEF x, tables
<1>7. ~Mg!Missing.there
  BY DEF Mg!Missing
<1>8. MgTables(mgDb) /\ MgOwned(mgDb) /\ MgMarked(mgDb)
  BY <1>3, <1>4, <1>5, <1>7 DEF MgTables, MgOwned, MgMarked, MgKept
<1>9. MgSafe
  BY <1>6, <1>8 DEF MgSafe, MgOk, Mg!Init
<1>10. MgTypes
  <2>1. /\ mgDisk = mgDb /\ mgOpen = FALSE /\ mgFk = TRUE /\ mgCur = 0
        /\ mgLeft = {} /\ mgMem = FALSE /\ mgStops = 0
    BY DEF Mg!Init
  <2>2. 0 \in 0..Mg!Latest /\ 0 \in 0..MaxStops
    BY DEF MgParameters, Mg!Latest
  <2>3. QED
    BY <2>1, <2>2 DEF MgTypes
<1>11. MgPlace
  BY DEF MgPlace, MgUp, Mg!Init
<1>12. QED
  BY <1>9, <1>10, <1>11 DEF MgInv

\* A statement that changes the schema, and one that writes rows.
LEMMA MgDdl ==
    ASSUME MgInv, NEW E, Mg!Ddl(E), MgOk(E), MgMarked(E),
           mgAt' \notin {"down", "up"}, UNCHANGED <<mgFk, mgCur, mgStops>>,
           mgLeft' \subseteq Rebuilt, mgMem' \in BOOLEAN
    PROVE  MgTypes' /\ MgSafe' /\ mgDb' = E
<1>1. MgTypes' /\ mgDb' = E
  BY DEF MgInv, MgTypes, Mg!Ddl
<1>2. mgDisk' = mgDisk \/ mgDisk' = E
  BY DEF Mg!Ddl
<1>3. MgOk(mgDb)' /\ MgOk(mgDisk)' /\ MgMarked(mgDisk)' /\ MgMarked(mgDb)'
  BY <1>1, <1>2 DEF MgInv, MgSafe, MgOk, MgTables, MgOwned, MgMarked, MgKept
<1>4. QED
  BY <1>1, <1>3 DEF MgSafe

LEMMA MgDml ==
    ASSUME MgInv, NEW E, Mg!Dml(E), MgOk(E), MgMarked(E) \/ mgAt' \in MgUp,
           mgAt' \notin {"down", "up"}, UNCHANGED <<mgLeft, mgMem>>,
           UNCHANGED mgStops \/ mgStops' \in 0..MaxStops,
           mgFk' \in BOOLEAN, mgCur' \in 0..Mg!Latest
    PROVE  MgTypes' /\ MgSafe' /\ mgDb' = E
<1>1. MgTypes' /\ mgDb' = E /\ mgDisk' = mgDisk
  BY DEF MgInv, MgTypes, Mg!Dml
<1>2. MgOk(mgDb)' /\ MgOk(mgDisk)' /\ MgMarked(mgDisk)'
  BY <1>1 DEF MgInv, MgSafe, MgOk, MgTables, MgOwned, MgMarked, MgKept
<1>3. MgMarked(mgDb)' \/ mgAt' \in MgUp
  BY <1>1 DEF MgMarked, MgKept
<1>4. QED
  BY <1>1, <1>2, <1>3 DEF MgSafe

\* Nothing is done to the database.
LEMMA MgIdle ==
    ASSUME MgInv, Mg!Nothing, mgAt \notin MgUp \/ mgAt' \in MgUp,
           mgAt' \notin {"down", "up"}, UNCHANGED mgStops, mgFk' \in BOOLEAN,
           mgCur' \in 0..Mg!Latest, mgLeft' \subseteq Rebuilt,
           mgMem' \in BOOLEAN
    PROVE  MgTypes' /\ MgSafe' /\ mgDb' = mgDb
<1>1. MgTypes' /\ mgDb' = mgDb /\ mgDisk' = mgDisk
  BY DEF MgInv, MgTypes, Mg!Nothing
<1>2. QED
  BY <1>1 DEF MgInv, MgSafe, MgOk, MgTables, MgOwned, MgMarked, MgKept

-----------------------------------------------------------------------------
\* The connection, and the rebuild of the keywords table.
LEMMA MgBoot == ASSUME MgInv, Mg!Boot PROVE MgInv'
<1>1. mgAt = "down" /\ mgAt' = "words" /\ Mg!Nothing
  BY DEF Mg!Boot, Mg!Goto
<1>2. /\ UNCHANGED mgStops /\ mgFk' \in BOOLEAN /\ mgCur' \in 0..Mg!Latest
      /\ mgLeft' \subseteq Rebuilt /\ mgMem' \in BOOLEAN
  <2>1. /\ mgFk' = TRUE /\ mgCur' = 0 /\ mgLeft' = Rebuilt
        /\ mgMem' = FALSE /\ UNCHANGED mgStops
    BY DEF Mg!Boot
  <2>2. 0 \in 0..Mg!Latest
    BY DEF Mg!Latest
  <2>3. QED
    BY <2>1, <2>2
<1>3. MgTypes' /\ MgSafe' /\ mgDb' = mgDb
  BY <1>1, <1>2, MgIdle DEF MgUp
<1>4. MgPlace'
  BY <1>1 DEF MgPlace, MgUp
<1>5. QED
  BY <1>3, <1>4 DEF MgInv

\* The part of the invariant that does not look at the keywords.
LEMMA MgWords ==
    ASSUME MgInv, NEW x \in MgTable,
           NEW E, E = [mgDb EXCEPT !.words = x],
           mgAt \notin MgUp
    PROVE  MgOk(E) /\ MgMarked(E)
<1>1. mgDb \in MgDb /\ MgTables(mgDb) /\ MgOwned(mgDb) /\ MgMarked(mgDb)
  BY DEF MgInv, MgSafe, MgOk
<1>2. E \in MgDb /\ SameTables(mgDb, E) /\ SameSettings(mgDb, E)
  BY <1>1, MgSetWords
<1>3. QED
  BY <1>1, <1>2, MgSame DEF MgOk

LEMMA MgReadWords == ASSUME MgInv, Mg!ReadWords PROVE MgInv'
<1>1. /\ mgAt = "words" /\ UNCHANGED mgLeft
      /\ UNCHANGED <<mgFk, mgCur, mgStops>>
  BY DEF Mg!ReadWords, Mg!Rest
<1>2. mgLeft' \subseteq Rebuilt /\ mgCur' \in 0..Mg!Latest /\ mgFk' \in BOOLEAN
  BY <1>1 DEF MgInv, MgTypes
<1>3. CASE mgAt' = "create_words" /\ mgMem' = mgDb.words.rows
             /\ Mg!Ddl([mgDb EXCEPT !.words = Mg!Gone])
  <2> DEFINE E == [mgDb EXCEPT !.words = Mg!Gone]
  <2>1. Mg!Gone \in MgTable
    BY DEF Mg!Gone, MgTable
  <2>2. mgMem' \in BOOLEAN
    BY <1>3 DEF MgInv, MgSafe, MgOk, MgDb, MgTable
  <2>3. MgOk(E) /\ MgMarked(E)
    BY <1>1, <2>1, MgWords DEF MgUp
  <2> HIDE DEF E
  <2>4. MgTypes' /\ MgSafe'
    BY <1>1, <1>2, <1>3, <2>2, <2>3, MgDdl DEF E
  <2>5. MgPlace'
    BY <1>3 DEF MgPlace, MgUp
  <2>6. QED
    BY <2>4, <2>5 DEF MgInv
<1>4. CASE mgAt' = "settings" /\ Mg!Nothing /\ UNCHANGED mgMem
  <2>1. mgMem' \in BOOLEAN
    BY <1>4 DEF MgInv, MgTypes
  <2>2. MgTypes' /\ MgSafe'
    BY <1>1, <1>2, <1>4, <2>1, MgIdle DEF MgUp
  <2>3. MgPlace'
    BY <1>4 DEF MgPlace, MgUp
  <2>4. QED
    BY <2>2, <2>3 DEF MgInv
<1>5. QED
  BY <1>3, <1>4 DEF Mg!ReadWords

LEMMA MgCreateWords == ASSUME MgInv, Mg!CreateWords PROVE MgInv'
<1> DEFINE E == [mgDb EXCEPT !.words = Mg!Empty]
<1>1. /\ mgAt = "create_words" /\ mgAt' = "fill_words" /\ Mg!Ddl(E)
      /\ UNCHANGED <<mgLeft, mgMem, mgFk, mgCur, mgStops>>
  BY DEF Mg!CreateWords, Mg!Goto, Mg!Rest
<1>2. Mg!Empty \in MgTable
  BY DEF Mg!Empty, MgTable
<1>3. MgOk(E) /\ MgMarked(E)
  BY <1>1, <1>2, MgWords DEF MgUp
<1>4. mgLeft' \subseteq Rebuilt /\ mgMem' \in BOOLEAN
  BY <1>1 DEF MgInv, MgTypes
<1> HIDE DEF E
<1>5. MgTypes' /\ MgSafe'
  BY <1>1, <1>3, <1>4, MgDdl
<1>6. MgPlace'
  BY <1>1 DEF MgPlace, MgUp
<1>7. QED
  BY <1>5, <1>6 DEF MgInv

LEMMA MgFillWords == ASSUME MgInv, Mg!FillWords PROVE MgInv'
<1> DEFINE x == [mgDb.words EXCEPT !.rows = TRUE]
           E == [mgDb EXCEPT !.words = x]
<1>1. /\ mgAt = "fill_words" /\ mgAt' = "settings"
      /\ UNCHANGED <<mgLeft, mgMem, mgFk, mgCur, mgStops>>
  BY DEF Mg!FillWords, Mg!Goto, Mg!Rest
<1>2. /\ mgDb \in MgDb /\ mgFk' \in BOOLEAN /\ mgCur' \in 0..Mg!Latest
      /\ mgLeft' \subseteq Rebuilt /\ mgMem' \in BOOLEAN
  BY <1>1 DEF MgInv, MgTypes, MgSafe, MgOk
<1>3. Mg!Dml(E) \/ Mg!Nothing
  BY <1>2 DEF Mg!FillWords, MgDb, MgTable
<1>4. x \in MgTable
  BY <1>2 DEF MgDb, MgTable
<1> HIDE DEF x
<1>5. MgOk(E) /\ MgMarked(E)
  BY <1>1, <1>4, MgWords DEF MgUp
<1> HIDE DEF E
<1>6. MgPlace'
  BY <1>1 DEF MgPlace, MgUp
<1>7. MgTypes' /\ MgSafe'
  <2>1. CASE Mg!Dml(E)
    BY <1>1, <1>2, <1>5, <2>1, MgDml
  <2>2. CASE Mg!Nothing
    BY <1>1, <1>2, <2>2, MgIdle DEF MgUp
  <2>3. QED
    BY <1>3, <2>1, <2>2
<1>8. QED
  BY <1>6, <1>7 DEF MgInv

-----------------------------------------------------------------------------
\* The copy of the settings: those that are dropped are the user's, or have
\* been copied before.
LEMMA MgDropBackup == ASSUME MgInv, Mg!DropBackup PROVE MgInv'
<1> DEFINE E == [mgDb EXCEPT !.backup = Mg!Missing]
<1>1. mgAt = "settings" /\ UNCHANGED <<mgLeft, mgMem, mgFk, mgCur, mgStops>>
  BY DEF Mg!DropBackup, Mg!Rest
<1>2. /\ mgDb \in MgDb /\ mgLeft' \subseteq Rebuilt /\ mgMem' \in BOOLEAN
      /\ mgFk' \in BOOLEAN /\ mgCur' \in 0..Mg!Latest
      /\ MgTables(mgDb) /\ MgOwned(mgDb) /\ MgMarked(mgDb)
  BY <1>1 DEF MgInv, MgTypes, MgSafe, MgOk, MgUp
<1>3. CASE mgDb.settings.there /\ mgDb.settings.version < 65
  <2>1. mgAt' = "copy_settings" /\ Mg!Ddl(E)
    BY <1>3 DEF Mg!DropBackup
  <2>2. /\ E \in MgDb /\ SameTables(mgDb, E) /\ E.from = mgDb.from
        /\ E.settings = mgDb.settings /\ E.backup = Mg!Missing
    BY <1>2, MgSetBackup
  <2>3. mgDb.settings.version \in 0..Mg!Latest /\ ~Mg!Missing.there
    BY <1>2, <1>3, MgThere DEF MgDb, Mg!Missing
  <2>4. MgKept(mgDb) => mgDb.settings.own
    BY <1>2, <1>3, <2>3 DEF MgMarked, Mg!Latest, MgKept
  <2> HIDE DEF E
  <2>5. MgOk(E) /\ MgMarked(E)
    BY <1>2, <1>3, <2>2, <2>3, <2>4, MgSame DEF MgOk, MgOwned, MgMarked, MgKept, SameTables
  <2>6. MgTypes' /\ MgSafe' /\ mgDb' = E
    BY <1>1, <1>2, <2>1, <2>5, MgDdl
  <2>7. MgPlace'
    BY <1>3, <2>1, <2>2, <2>6 DEF MgPlace, MgUp
  <2>8. QED
    BY <2>6, <2>7 DEF MgInv
<1>4. CASE ~(mgDb.settings.there /\ mgDb.settings.version < 65)
  <2>1. mgAt' = "check" /\ Mg!Nothing
    BY <1>4 DEF Mg!DropBackup
  <2>2. MgTypes' /\ MgSafe'
    BY <1>1, <1>2, <2>1, MgIdle DEF MgUp
  <2>3. MgPlace'
    BY <2>1 DEF MgPlace, MgUp
  <2>4. QED
    BY <2>2, <2>3 DEF MgInv
<1>5. QED
  BY <1>3, <1>4

LEMMA MgCopySettings == ASSUME MgInv, Mg!CopySettings PROVE MgInv'
<1> DEFINE E == [mgDb EXCEPT !.backup = mgDb.settings]
<1>1. /\ mgAt = "copy_settings" /\ mgAt' = "drop_settings" /\ Mg!Ddl(E)
      /\ UNCHANGED <<mgLeft, mgMem, mgFk, mgCur, mgStops>>
  BY DEF Mg!CopySettings, Mg!Goto, Mg!Rest
<1>2. /\ mgDb \in MgDb /\ mgLeft' \subseteq Rebuilt /\ mgMem' \in BOOLEAN
      /\ MgTables(mgDb) /\ MgOwned(mgDb) /\ MgMarked(mgDb)
      /\ mgDb.settings.there /\ mgDb.settings.version < 65
  BY <1>1 DEF MgInv, MgTypes, MgSafe, MgOk, MgUp, MgPlace
<1>3. mgDb.settings \in MgSettings \cup {Mg!Missing}
  BY <1>2 DEF MgDb
<1>4. /\ E \in MgDb /\ SameTables(mgDb, E) /\ E.from = mgDb.from
      /\ E.settings = mgDb.settings /\ E.backup = mgDb.settings
  BY <1>2, <1>3, MgSetBackup
<1>5. mgDb.settings.version \in 0..Mg!Latest
  BY <1>2, <1>3, MgThere
<1>6. MgKept(mgDb) => mgDb.settings.own
  BY <1>2, <1>5 DEF MgMarked, Mg!Latest, MgKept
<1> HIDE DEF E
<1>7. MgOk(E) /\ MgMarked(E)
  BY <1>2, <1>4, <1>6, MgSame DEF MgOk, MgOwned, MgMarked, MgKept, SameTables
<1>8. MgTypes' /\ MgSafe' /\ mgDb' = E
  BY <1>1, <1>2, <1>7, MgDdl
<1>9. MgPlace'
  BY <1>1, <1>2, <1>4, <1>8 DEF MgPlace, MgUp
<1>10. QED
  BY <1>8, <1>9 DEF MgInv

LEMMA MgDropSettings == ASSUME MgInv, Mg!DropSettings PROVE MgInv'
<1> DEFINE E == [mgDb EXCEPT !.settings = Mg!Missing]
<1>1. /\ mgAt = "drop_settings" /\ mgAt' = "check" /\ Mg!Ddl(E)
      /\ UNCHANGED <<mgLeft, mgMem, mgFk, mgCur, mgStops>>
  BY DEF Mg!DropSettings, Mg!Goto, Mg!Rest
<1>2. /\ mgDb \in MgDb /\ mgLeft' \subseteq Rebuilt /\ mgMem' \in BOOLEAN
      /\ MgTables(mgDb) /\ MgOwned(mgDb) /\ mgDb.backup.there
  BY <1>1 DEF MgInv, MgTypes, MgSafe, MgOk, MgPlace
<1>3. /\ E \in MgDb /\ SameTables(mgDb, E) /\ E.from = mgDb.from
      /\ E.settings = Mg!Missing /\ E.backup = mgDb.backup
  BY <1>2, MgSetSettings
<1>4. ~Mg!Missing.there
  BY DEF Mg!Missing
<1> HIDE DEF E
<1>5. MgOk(E) /\ MgMarked(E)
  BY <1>2, <1>3, <1>4, MgSame DEF MgOk, MgOwned, MgMarked, MgKept, SameTables
<1>6. MgTypes' /\ MgSafe'
  BY <1>1, <1>2, <1>5, MgDdl
<1>7. MgPlace'
  BY <1>1 DEF MgPlace, MgUp
<1>8. QED
  BY <1>6, <1>7 DEF MgInv

-----------------------------------------------------------------------------
\* The rebuild of a table: a copy is thrown away only when the table is there
\* as it was, and the table is dropped after it was copied.
LEMMA MgPick ==
    ASSUME MgInv, mgLeft # {}
    PROVE  Mg!Table \in mgLeft /\ Mg!Table \in Rebuilt
BY DEF MgInv, MgTypes, Mg!Table

LEMMA MgCheckTable == ASSUME MgInv, Mg!CheckTable PROVE MgInv'
<1> DEFINE t == Mg!Table
           new == [mgDb.saved EXCEPT ![t] = Mg!None]
           E == [mgDb EXCEPT !.saved[t] = Mg!None]
<1>1. /\ mgAt = "check" /\ mgLeft # {}
      /\ UNCHANGED <<mgMem, mgFk, mgCur, mgStops>>
  BY DEF Mg!CheckTable, Mg!Rest
<1>2. /\ mgDb \in MgDb /\ mgMem' \in BOOLEAN /\ mgLeft \subseteq Rebuilt
      /\ mgFk' \in BOOLEAN /\ mgCur' \in 0..Mg!Latest
      /\ MgTables(mgDb) /\ MgOwned(mgDb) /\ MgMarked(mgDb)
  BY <1>1 DEF MgInv, MgTypes, MgSafe, MgOk, MgUp
<1>3. t \in Rebuilt
  BY <1>1, MgPick
<1>4. CASE mgDb.table[t].there /\ ~mgDb.table[t].new
  <2>1. mgAt' = "copy_table" /\ mgLeft' = mgLeft /\ Mg!Ddl(E)
    BY <1>4 DEF Mg!CheckTable
  <2>2. /\ E = [mgDb EXCEPT !.saved = new]
        /\ new \in [Rebuilt -> {Mg!None, "rows", "empty"}]
    BY <1>2 DEF MgDb
  <2> HIDE DEF t, new, E
  <2>3. /\ E \in MgDb /\ SameSettings(mgDb, E) /\ E.table = mgDb.table
        /\ E.saved = new
    BY <1>2, <2>2, MgSetSaved
  <2>4. MgTables(E)
    BY <1>2, <1>3, <1>4, <2>3 DEF SameSettings, MgTables, MgDb, new
  <2>5. MgOk(E) /\ MgMarked(E)
    BY <1>2, <2>3, <2>4, MgSame DEF MgOk
  <2>6. MgTypes' /\ MgSafe' /\ mgDb' = E
    BY <1>1, <1>2, <2>1, <2>5, MgDdl
  <2>7. Mg!Table' = t
    BY <2>1 DEF Mg!Table, t
  <2>8. MgPlace'
    BY <1>1, <1>4, <2>1, <2>3, <2>6, <2>7 DEF MgPlace, MgUp
  <2>9. QED
    BY <2>6, <2>8 DEF MgInv
<1>5. CASE ~(mgDb.table[t].there /\ ~mgDb.table[t].new)
  <2>1. mgAt' = "check" /\ mgLeft' = mgLeft \ {t} /\ Mg!Nothing
    BY <1>1, <1>5 DEF Mg!CheckTable
  <2>2. mgLeft' \subseteq Rebuilt
    BY <1>2, <2>1
  <2>3. MgTypes' /\ MgSafe'
    BY <1>1, <1>2, <2>1, <2>2, MgIdle DEF MgUp
  <2>4. MgPlace'
    BY <2>1 DEF MgPlace, MgUp
  <2>5. QED
    BY <2>3, <2>4 DEF MgInv
<1>6. QED
  BY <1>4, <1>5

LEMMA MgCopyTable == ASSUME MgInv, Mg!CopyTable PROVE MgInv'
<1> DEFINE t == Mg!Table
           x == IF mgDb.table[t].rows THEN "rows" ELSE "empty"
           new == [mgDb.saved EXCEPT ![t] = x]
           E == [mgDb EXCEPT !.saved[t] = x]
<1>1. /\ mgAt = "copy_table" /\ mgAt' = "drop_table" /\ Mg!Ddl(E)
      /\ UNCHANGED <<mgLeft, mgMem, mgFk, mgCur, mgStops>>
  BY DEF Mg!CopyTable, Mg!Goto, Mg!Rest
<1>2. /\ mgDb \in MgDb /\ mgMem' \in BOOLEAN /\ mgLeft' \subseteq Rebuilt
      /\ MgTables(mgDb) /\ MgOwned(mgDb) /\ MgMarked(mgDb)
      /\ mgLeft # {} /\ mgDb.table[t].there /\ ~mgDb.table[t].new
  BY <1>1 DEF MgInv, MgTypes, MgSafe, MgOk, MgUp, MgPlace
<1>3. t \in Rebuilt
  BY <1>2, MgPick
<1>4. x = "rows"
  BY <1>2, <1>3 DEF MgTables
<1>5. /\ E = [mgDb EXCEPT !.saved = new]
      /\ new \in [Rebuilt -> {Mg!None, "rows", "empty"}]
  BY <1>2 DEF MgDb
<1>6. Mg!Table' = t
  BY <1>1 DEF Mg!Table
<1> HIDE DEF t, x, new, E
<1>7. /\ E \in MgDb /\ SameSettings(mgDb, E) /\ E.table = mgDb.table
      /\ E.saved = new
  BY <1>2, <1>5, MgSetSaved
<1>8. MgTables(E) /\ E.saved[t] = "rows"
  BY <1>2, <1>3, <1>4, <1>7 DEF SameSettings, MgTables, MgDb, new
<1>9. MgOk(E) /\ MgMarked(E)
  BY <1>2, <1>7, <1>8, MgSame DEF MgOk
<1>10. MgTypes' /\ MgSafe' /\ mgDb' = E
  BY <1>1, <1>2, <1>9, MgDdl
<1>11. MgPlace'
  BY <1>1, <1>2, <1>6, <1>8, <1>10 DEF MgPlace, MgUp
<1>12. QED
  BY <1>10, <1>11 DEF MgInv

LEMMA MgDropTable == ASSUME MgInv, Mg!DropTable PROVE MgInv'
<1> DEFINE t == Mg!Table
           new == [mgDb.table EXCEPT ![t] = Mg!Gone]
           E == [mgDb EXCEPT !.table[t] = Mg!Gone]
<1>1. /\ mgAt = "drop_table" /\ mgAt' = "check" /\ Mg!Ddl(E)
      /\ mgLeft' = mgLeft \ {t}
      /\ UNCHANGED <<mgMem, mgFk, mgCur, mgStops>>
  BY DEF Mg!DropTable, Mg!Goto, Mg!Rest
<1>2. /\ mgDb \in MgDb /\ mgMem' \in BOOLEAN /\ mgLeft' \subseteq Rebuilt
      /\ MgTables(mgDb) /\ MgOwned(mgDb) /\ MgMarked(mgDb)
      /\ mgLeft # {} /\ mgDb.saved[t] = "rows"
  BY <1>1 DEF MgInv, MgTypes, MgSafe, MgOk, MgUp, MgPlace
<1>3. t \in Rebuilt
  BY <1>2, MgPick
<1>4. /\ Mg!Gone \in MgTable /\ ~Mg!Gone.there /\ ~Mg!Gone.rows
  BY DEF Mg!Gone, MgTable
<1>5. /\ E = [mgDb EXCEPT !.table = new]
      /\ new \in [Rebuilt -> MgTable]
  BY <1>2, <1>4 DEF MgDb
<1> HIDE DEF t, new, E
<1>6. /\ E \in MgDb /\ SameSettings(mgDb, E) /\ E.saved = mgDb.saved
      /\ E.table = new
  BY <1>2, <1>5, MgSetTable
<1>7. MgTables(E)
  BY <1>2, <1>3, <1>4, <1>6 DEF SameSettings, MgTables, MgDb, new
<1>8. MgOk(E) /\ MgMarked(E)
  BY <1>2, <1>6, <1>7, MgSame DEF MgOk
<1>9. MgTypes' /\ MgSafe'
  BY <1>1, <1>2, <1>8, MgDdl
<1>10. MgPlace'
  BY <1>1 DEF MgPlace, MgUp
<1>11. QED
  BY <1>9, <1>10 DEF MgInv

-----------------------------------------------------------------------------
\* The schema: what is missing is created, settings that are created only
\* where there is a backup, and a table only where its rows were copied.
LEMMA MgReconcile == ASSUME MgInv, Mg!Reconcile PROVE MgInv'
<1> DEFINE x == [mgDb.channels EXCEPT !.full = TRUE]
           E == [mgDb EXCEPT !.channels.full = TRUE]
<1>1. /\ mgAt = "check" /\ mgAt' = "script" /\ Mg!Ddl(E)
      /\ UNCHANGED <<mgLeft, mgMem, mgFk, mgCur, mgStops>>
  BY DEF Mg!Reconcile, Mg!Rest
<1>2. /\ mgDb \in MgDb /\ mgLeft' \subseteq Rebuilt /\ mgMem' \in BOOLEAN
      /\ MgTables(mgDb) /\ MgOwned(mgDb) /\ MgMarked(mgDb)
  BY <1>1 DEF MgInv, MgTypes, MgSafe, MgOk, MgUp
<1>3. x \in MgChannels /\ E = [mgDb EXCEPT !.channels = x]
  BY <1>2 DEF MgDb, MgChannels
<1> HIDE DEF x, E
<1>4. E \in MgDb /\ SameTables(mgDb, E) /\ SameSettings(mgDb, E)
  BY <1>2, <1>3, MgSetChannels
<1>5. MgOk(E) /\ MgMarked(E)
  BY <1>2, <1>4, MgSame DEF MgOk
<1>6. MgTypes' /\ MgSafe'
  BY <1>1, <1>2, <1>5, MgDdl
<1>7. MgPlace'
  BY <1>1 DEF MgPlace, MgUp
<1>8. QED
  BY <1>6, <1>7 DEF MgInv

LEMMA MgScript == ASSUME MgInv, Mg!Script PROVE MgInv'
<1>1. /\ mgAt = "script" /\ mgAt' = "create"
      /\ mgDisk' = mgDb /\ mgOpen' = FALSE /\ mgDb' = mgDb
      /\ UNCHANGED <<mgLeft, mgMem, mgFk, mgCur, mgStops>>
  BY DEF Mg!Script, Mg!Goto, Mg!Commit, Mg!Rest
<1>2. MgTypes'
  BY <1>1 DEF MgInv, MgTypes
<1>3. MgSafe'
  BY <1>1 DEF MgInv, MgSafe, MgOk, MgUp, MgTables, MgOwned, MgMarked, MgKept
<1>4. MgPlace'
  BY <1>1 DEF MgPlace, MgUp
<1>5. QED
  BY <1>2, <1>3, <1>4 DEF MgInv

LEMMA MgCreate == ASSUME MgInv, Mg!Create PROVE MgInv'
<1>1. /\ mgAt = "create" /\ mgAt' = "create"
      /\ UNCHANGED <<mgLeft, mgMem, mgFk, mgCur, mgStops>>
  BY DEF Mg!Create, Mg!Rest
<1>2. /\ mgDb \in MgDb /\ mgLeft' \subseteq Rebuilt /\ mgMem' \in BOOLEAN
      /\ MgTables(mgDb) /\ MgOwned(mgDb) /\ MgMarked(mgDb)
  BY <1>1 DEF MgInv, MgTypes, MgSafe, MgOk, MgUp
<1>3. SUFFICES ASSUME NEW E, Mg!Ddl(E), MgOk(E), MgMarked(E)
               PROVE  MgInv'
  <2>1. CASE ~mgDb.settings.there
               /\ Mg!Ddl([mgDb EXCEPT !.settings = Mg!Fresh])
    <3> DEFINE E == [mgDb EXCEPT !.settings = Mg!Fresh]
    <3>1. /\ Mg!Fresh \in MgSettings /\ Mg!Fresh.there
          /\ Mg!Fresh.version = Mg!Latest
      BY DEF Mg!Fresh, MgSettings, Mg!Latest
    <3>2. /\ E \in MgDb /\ SameTables(mgDb, E) /\ E.from = mgDb.from
          /\ E.settings = Mg!Fresh /\ E.backup = mgDb.backup
      BY <1>2, <3>1, MgSetSettings
    <3> HIDE DEF E
    <3>3. MgOk(E) /\ MgMarked(E)
      BY <1>2, <2>1, <3>1, <3>2, MgSame
      DEF SameTables, MgOk, MgOwned, MgMarked, Mg!Latest, MgKept
    <3>4. QED
      BY <1>3, <2>1, <3>3 DEF E
  <2>2. CASE Mg!Ddl([mgDb EXCEPT !.words = Mg!Empty])
    <3> DEFINE E == [mgDb EXCEPT !.words = Mg!Empty]
    <3>1. Mg!Empty \in MgTable
      BY DEF Mg!Empty, MgTable
    <3>2. MgOk(E) /\ MgMarked(E)
      BY <1>1, <3>1, MgWords DEF MgUp
    <3> HIDE DEF E
    <3>3. QED
      BY <1>3, <2>2, <3>2 DEF E
  <2>3. ASSUME NEW t \in Rebuilt, ~mgDb.table[t].there,
               Mg!Ddl([mgDb EXCEPT !.table[t] = Mg!Empty])
        PROVE  MgInv'
    <3> DEFINE new == [mgDb.table EXCEPT ![t] = Mg!Empty]
               E == [mgDb EXCEPT !.table[t] = Mg!Empty]
    <3>1. /\ Mg!Empty \in MgTable /\ Mg!Empty.there /\ Mg!Empty.new
      BY DEF Mg!Empty, MgTable
    <3>2. /\ E = [mgDb EXCEPT !.table = new]
          /\ new \in [Rebuilt -> MgTable]
      BY <1>2, <3>1 DEF MgDb
    <3>3. Mg!Ddl(E)
      BY <2>3
    <3> HIDE DEF new, E
    <3>4. /\ E \in MgDb /\ SameSettings(mgDb, E) /\ E.saved = mgDb.saved
          /\ E.table = new
      BY <1>2, <3>2, MgSetTable
    <3>5. mgDb.saved[t] = "rows" \/ t \in mgDb.lost
      BY <1>2, <2>3 DEF MgTables
    <3>6. MgTables(E)
      BY <1>2, <3>1, <3>4, <3>5 DEF SameSettings, MgTables, MgDb, new
    <3>7. MgOk(E) /\ MgMarked(E)
      BY <1>2, <3>4, <3>6, MgSame DEF MgOk
    <3>8. QED
      BY <1>3, <3>3, <3>7
  <2>4. QED
    BY <2>1, <2>2, <2>3 DEF Mg!Create
<1>4. MgTypes' /\ MgSafe'
  BY <1>1, <1>2, <1>3, MgDdl
<1>5. MgPlace'
  BY <1>1 DEF MgPlace, MgUp
<1>6. QED
  BY <1>4, <1>5 DEF MgInv

LEMMA MgRecover == ASSUME MgInv, Mg!Recover PROVE MgInv'
<1> DEFINE x == [mgDb.settings EXCEPT !.version = mgDb.backup.version]
           E == [mgDb EXCEPT !.settings.version = mgDb.backup.version]
<1>1. /\ mgAt = "create" /\ mgAt' = "upgrade" /\ Mg!NoneMissing
      /\ UNCHANGED <<mgLeft, mgMem, mgFk, mgStops>>
  BY DEF Mg!Recover
<1>2. /\ mgDb \in MgDb /\ mgLeft' \subseteq Rebuilt /\ mgMem' \in BOOLEAN
      /\ mgFk' \in BOOLEAN
      /\ MgTables(mgDb) /\ MgOwned(mgDb) /\ MgMarked(mgDb)
  BY <1>1 DEF MgInv, MgTypes, MgSafe, MgOk, MgUp
<1>3. /\ mgDb.settings.there /\ \A t \in Rebuilt : mgDb.table[t].there
  BY <1>1 DEF Mg!NoneMissing
<1>4. /\ mgDb.settings \in MgSettings
      /\ mgDb.settings.version \in 0..Mg!Latest
  BY <1>2, <1>3, MgThere DEF MgDb
<1>5. CASE mgDb.backup.there
  <2>1. Mg!Dml(E) /\ mgCur' = mgDb.backup.version
    BY <1>5 DEF Mg!Recover
  <2>2. mgDb.backup.version \in 0..Mg!Latest
    BY <1>2, <1>5, MgThere DEF MgDb
  <2>3. E = [mgDb EXCEPT !.settings = x]
    BY <1>2 DEF MgDb
  <2>4. /\ x \in MgSettings /\ x.there /\ x.own = mgDb.settings.own
        /\ x.version = mgDb.backup.version
    BY <1>4, <2>2 DEF MgSettings
  <2> HIDE DEF x, E
  <2>5. /\ E \in MgDb /\ SameTables(mgDb, E) /\ E.from = mgDb.from
        /\ E.settings = x /\ E.backup = mgDb.backup
    BY <1>2, <2>3, <2>4, MgSetSettings
  <2>6. MgOk(E)
    BY <1>2, <1>5, <2>4, <2>5, MgSame DEF MgOk, MgOwned, MgKept, SameTables
  <2>7. MgTypes' /\ MgSafe' /\ mgDb' = E
    BY <1>1, <1>2, <2>1, <2>2, <2>6, MgDml DEF MgUp
  <2>8. MgKept(E) => mgCur' >= 58
    BY <1>2, <1>5, <2>1, <2>5 DEF MgOwned, MgKept, SameTables
  <2>9. MgPlace'
    BY <1>1, <1>3, <2>4, <2>5, <2>7, <2>8 DEF MgPlace, MgUp, SameTables
  <2>10. QED
    BY <2>7, <2>9 DEF MgInv
<1>6. CASE ~mgDb.backup.there
  <2>1. Mg!Nothing /\ mgCur' = mgDb.settings.version
    BY <1>6 DEF Mg!Recover
  <2>2. MgTypes' /\ MgSafe' /\ mgDb' = mgDb
    BY <1>1, <1>2, <1>4, <2>1, MgIdle DEF MgUp
  <2>3. MgKept(mgDb) => mgCur' >= 58
    BY <1>2, <1>3, <2>1 DEF MgOwned, MgKept
  <2>4. MgPlace'
    BY <1>1, <1>3, <2>2, <2>3 DEF MgPlace, MgUp
  <2>5. QED
    BY <2>2, <2>4 DEF MgInv
<1>7. QED
  BY <1>5, <1>6

-----------------------------------------------------------------------------
\* The blocks of the versions.  Those before 58 are for databases that are
\* older: they alone commit before the settings are restored.
LEMMA MgOlder ==
    ASSUME MgInv, mgAt \in MgUp, NEW m \in Nat, m <= 58, Mg!Block(m)
    PROVE  ~MgKept(mgDb)
<1>1. m > mgCur /\ mgCur \in Nat
  BY DEF MgInv, MgTypes, Mg!Block, Mg!Latest
<1>2. MgKept(mgDb) => mgCur >= 58
  BY DEF MgInv, MgPlace
<1>3. QED
  BY <1>1, <1>2

LEMMA MgStepUp ==
    ASSUME MgInv, NEW D \in MgDb, SameTables(mgDb, D), D.from = mgDb.from,
           D.backup = mgDb.backup, D.settings.there = mgDb.settings.there,
           D.settings.there => D.settings.own = mgDb.settings.own,
           NEW m \in Mg!Targets, m > mgCur \/ m >= 58,
           Mg!Dml(Mg!Bump(D, m)), Mg!Upgraded(m),
           mgAt \in {"upgrade", "subscribe", "late"},
           mgAt = "late" => m >= 65,
           mgAt' = IF mgAt = "late" THEN "late" ELSE "upgrade"
    PROVE  MgInv'
<1> DEFINE E == Mg!Bump(D, m)
<1>1. /\ mgDb \in MgDb /\ MgTables(mgDb) /\ MgOwned(mgDb)
      /\ mgAt \in MgUp => mgDb.settings.there
      /\ \A t \in Rebuilt : mgDb.table[t].there
      /\ MgKept(mgDb) => mgCur >= 58
      /\ mgCur \in 0..Mg!Latest
      /\ mgAt = "late" =>
           /\ MgKept(mgDb) => mgDb.settings.there /\ mgDb.settings.own
           /\ \A t \in Rebuilt : mgDb.table[t].rows \/ t \in mgDb.lost
  BY DEF MgInv, MgTypes, MgSafe, MgOk, MgPlace, MgUp
<1>2. /\ mgCur' = m /\ m \in 0..Mg!Latest
      /\ UNCHANGED <<mgLeft, mgMem, mgFk, mgStops>>
  BY DEF Mg!Upgraded, Mg!Targets, Mg!Data, Mg!Latest
<1>3. mgFk' \in BOOLEAN
  BY <1>2 DEF MgInv, MgTypes
<1>4. /\ E \in MgDb /\ SameTables(D, E) /\ E.from = D.from
      /\ E.backup = D.backup /\ E.settings.there = D.settings.there
      /\ E.settings.there =>
           E.settings.own = mgDb.settings.own /\ E.settings.version = m
  BY MgBump
<1> HIDE DEF E
<1>5. MgKept(mgDb) => m >= 58
  <2>1. mgCur \in Nat /\ m \in Nat
    BY <1>1, <1>2 DEF Mg!Latest
  <2>2. QED
    BY <1>1, <2>1
<1>6. SameTables(mgDb, E) /\ (MgKept(E) <=> MgKept(mgDb))
  BY <1>4 DEF SameTables, MgKept
<1>7. MgOk(E)
  BY <1>1, <1>4, <1>5, <1>6, MgSame DEF MgOk, MgOwned, MgKept
<1>8. MgMarked(E) \/ mgAt' \in MgUp
  BY <1>4 DEF MgMarked, MgUp, MgKept
<1>9. Mg!Dml(E)
  BY DEF E
<1>10. MgTypes' /\ MgSafe' /\ mgDb' = E
  BY <1>2, <1>3, <1>7, <1>8, <1>9, MgDml
<1>11. MgPlace'
  BY <1>1, <1>2, <1>4, <1>5, <1>6, <1>10 DEF MgPlace, MgUp, SameTables
<1>12. QED
  BY <1>10, <1>11 DEF MgInv

LEMMA MgRebuildGroups == ASSUME MgInv, Mg!RebuildGroups PROVE MgInv'
<1> DEFINE lost == mgDb.check /\ mgFk' /\ mgDb.channels.cascade
           kept == [mgDb.channels EXCEPT
                      !.rows = mgDb.channels.rows /\ ~lost,
                      !.streams = mgDb.channels.streams /\ ~lost]
           new == [mgDb EXCEPT !.channels = kept, !.check = FALSE]
<1>1. /\ mgAt = "upgrade" /\ mgAt' = "checkpoint" /\ Mg!Block(43)
      /\ mgFk' = (mgFk /\ mgOpen)
      /\ UNCHANGED <<mgLeft, mgMem, mgCur, mgStops>>
  BY DEF Mg!RebuildGroups, Mg!Block
<1>2. /\ mgDb \in MgDb /\ MgTables(mgDb) /\ MgOwned(mgDb)
      /\ mgFk' \in BOOLEAN /\ MgTypes
  BY <1>1 DEF MgInv, MgTypes, MgSafe, MgOk
<1>3. ~MgKept(mgDb)
  BY <1>1, MgOlder DEF MgUp
<1>4. kept \in MgChannels
  BY <1>2 DEF MgDb, MgChannels
<1>5. \/ mgDb' = new /\ mgDisk' = new /\ mgOpen' = FALSE
      \/ Mg!Nothing
  BY DEF Mg!RebuildGroups
<1> HIDE DEF kept
<1>6. new \in MgDb /\ SameTables(mgDb, new) /\ SameSettings(mgDb, new)
  BY <1>2, <1>4, MgSetChannels
<1>7. ~MgKept(new)
  BY <1>3, <1>6 DEF SameSettings, MgKept
<1> HIDE DEF new
<1>8. MgOk(new) /\ MgMarked(new)
  BY <1>2, <1>6, <1>7, MgSame DEF MgOk, MgMarked, SameSettings, MgKept
<1>9. MgTypes' /\ MgSafe'
  <2>1. CASE mgDb' = new /\ mgDisk' = new /\ mgOpen' = FALSE
    <3>1. MgTypes'
      BY <1>1, <1>2, <2>1 DEF MgTypes
    <3>2. MgSafe'
      BY <1>8, <2>1 DEF MgSafe, MgOk, MgTables, MgOwned, MgMarked, MgKept
    <3>3. QED
      BY <3>1, <3>2
  <2>2. CASE Mg!Nothing
    BY <1>1, <1>2, <2>2, MgIdle DEF MgTypes, MgUp
  <2>3. QED
    BY <1>5, <2>1, <2>2
<1>10. ~MgKept(mgDb)' /\ mgDb'.settings.there
       /\ \A t \in Rebuilt : mgDb'.table[t].there
  BY <1>1, <1>3, <1>5, <1>6, <1>7
  DEF MgInv, MgPlace, MgUp, SameTables, SameSettings, Mg!Nothing, MgKept
<1>11. MgPlace'
  BY <1>1, <1>10 DEF MgPlace, MgUp
<1>12. QED
  BY <1>9, <1>11 DEF MgInv

LEMMA MgCheckpoint == ASSUME MgInv, Mg!Checkpoint PROVE MgInv'
<1> DEFINE x == [mgDb.settings EXCEPT !.version = 43]
           E == [mgDb EXCEPT !.settings.version = 43]
<1>1. /\ mgAt = "checkpoint" /\ mgAt' = "upgrade" /\ Mg!Dml(E)
      /\ mgCur' = 43 /\ mgFk' = (mgFk \/ ~mgOpen)
      /\ UNCHANGED <<mgLeft, mgMem, mgStops>>
  BY DEF Mg!Checkpoint, Mg!Goto
<1>2. /\ mgDb \in MgDb /\ MgTables(mgDb) /\ MgOwned(mgDb)
      /\ mgFk' \in BOOLEAN /\ mgDb.settings.there
      /\ \A t \in Rebuilt : mgDb.table[t].there
      /\ ~MgKept(mgDb)
  BY <1>1 DEF MgInv, MgTypes, MgSafe, MgOk, MgPlace, MgUp
<1>3. 43 \in 0..Mg!Latest
  BY DEF Mg!Latest
<1>4. E = [mgDb EXCEPT !.settings = x]
  BY <1>2 DEF MgDb
<1>5. mgDb.settings \in MgSettings
  BY <1>2, MgThere DEF MgDb
<1>6. x \in MgSettings /\ x.there
  BY <1>3, <1>5 DEF MgSettings
<1> HIDE DEF x, E
<1>7. /\ E \in MgDb /\ SameTables(mgDb, E) /\ E.from = mgDb.from
      /\ E.settings = x
  BY <1>2, <1>4, <1>6, MgSetSettings
<1>8. MgOk(E)
  BY <1>2, <1>7, MgSame DEF MgOk, MgOwned, MgKept, SameTables
<1>9. MgTypes' /\ MgSafe' /\ mgDb' = E
  BY <1>1, <1>2, <1>3, <1>8, MgDml DEF MgUp
<1>10. MgPlace'
  BY <1>1, <1>2, <1>6, <1>7, <1>9 DEF MgPlace, MgUp, SameTables, MgKept
<1>11. QED
  BY <1>9, <1>10 DEF MgInv

LEMMA MgSubscribeTables == ASSUME MgInv, Mg!SubscribeTables PROVE MgInv'
<1>1. /\ mgAt = "upgrade" /\ mgAt' = "subscribe" /\ Mg!Block(58)
      /\ mgDisk' = mgDb /\ mgOpen' = FALSE /\ mgDb' = mgDb
      /\ UNCHANGED <<mgLeft, mgMem, mgFk, mgCur, mgStops>>
  BY DEF Mg!SubscribeTables, Mg!Block, Mg!Commit
<1>3. ~MgKept(mgDb)
  BY <1>1, MgOlder DEF MgUp
<1>4. MgTypes'
  BY <1>1 DEF MgInv, MgTypes
<1>5. MgSafe'
  BY <1>1, <1>3 DEF MgInv, MgSafe, MgOk, MgUp, MgTables, MgOwned, MgMarked, MgKept
<1>6. MgPlace'
  BY <1>1, <1>3 DEF MgInv, MgPlace, MgUp
<1>7. QED
  BY <1>4, <1>5, <1>6 DEF MgInv

\* What a block finds, if it changes neither tables nor settings first.
LEMMA MgFound ==
    ASSUME MgInv, mgAt \in {"upgrade", "subscribe", "late"}
    PROVE  /\ mgDb \in MgDb /\ mgFk \in BOOLEAN /\ SameTables(mgDb, mgDb)
           /\ mgAt # "late" =>
                mgDb.settings.there /\ mgDb.settings \in MgSettings
<1>1. /\ mgDb \in MgDb /\ mgFk \in BOOLEAN
      /\ mgAt # "late" => mgDb.settings.there
  BY DEF MgInv, MgTypes, MgSafe, MgOk, MgPlace, MgUp
<1>2. mgAt # "late" => mgDb.settings \in MgSettings
  BY <1>1, MgThere DEF MgDb
<1>3. QED
  BY <1>1, <1>2 DEF SameTables

LEMMA MgSubscribe == ASSUME MgInv, Mg!Subscribe PROVE MgInv'
<1>1. /\ mgAt = "subscribe" /\ mgAt' = "upgrade"
      /\ Mg!Dml(Mg!Bump(mgDb, 58)) /\ Mg!Upgraded(58)
  BY DEF Mg!Subscribe, Mg!Goto
<1>2. 58 \in Mg!Targets
  BY DEF Mg!Targets, Mg!Data
<1>3. QED
  BY <1>1, <1>2, MgFound, MgStepUp

LEMMA MgApiDefaults == ASSUME MgInv, Mg!ApiDefaults PROVE MgInv'
<1> DEFINE x == [mgDb.settings EXCEPT !.api = 30]
           D == [mgDb EXCEPT !.settings.api = 30]
<1>1. /\ mgAt = "upgrade" /\ mgAt' = "upgrade" /\ 53 > mgCur
      /\ Mg!Dml(Mg!Bump(D, 53)) /\ Mg!Upgraded(53)
  BY DEF Mg!ApiDefaults, Mg!Block
<1>2. 53 \in Mg!Targets
  BY DEF Mg!Targets, Mg!Data
<1>3. /\ mgDb \in MgDb /\ mgDb.settings \in MgSettings
      /\ mgDb.settings.there
  BY <1>1, MgFound
<1>4. /\ D = [mgDb EXCEPT !.settings = x]
      /\ x \in MgSettings /\ x.there = mgDb.settings.there
      /\ x.own = mgDb.settings.own
  BY <1>3 DEF MgDb, MgSettings
<1> HIDE DEF x, D
<1>5. /\ D \in MgDb /\ SameTables(mgDb, D) /\ D.from = mgDb.from
      /\ D.settings = x /\ D.backup = mgDb.backup
  BY <1>3, <1>4, MgSetSettings
<1>6. QED
  BY <1>1, <1>2, <1>3, <1>4, <1>5, MgStepUp

LEMMA MgGlobalMode == ASSUME MgInv, Mg!GlobalMode PROVE MgInv'
<1> DEFINE mode == IF mgDb.manual THEN "manual" ELSE "auto"
           x == [mgDb.settings EXCEPT !.mode = mode]
           D == [mgDb EXCEPT !.settings.mode = mode]
<1>1. /\ mgAt = "upgrade" /\ mgAt' = "upgrade" /\ 59 > mgCur
      /\ Mg!Dml(Mg!Bump(D, 59)) /\ Mg!Upgraded(59)
  BY DEF Mg!GlobalMode, Mg!Block
<1>2. 59 \in Mg!Targets
  BY DEF Mg!Targets, Mg!Data
<1>3. /\ mgDb \in MgDb /\ mgDb.settings \in MgSettings
      /\ mgDb.settings.there
  BY <1>1, MgFound
<1>4. /\ D = [mgDb EXCEPT !.settings = x]
      /\ x \in MgSettings /\ x.there = mgDb.settings.there
      /\ x.own = mgDb.settings.own
  BY <1>3 DEF MgDb, MgSettings
<1> HIDE DEF mode, x, D
<1>5. /\ D \in MgDb /\ SameTables(mgDb, D) /\ D.from = mgDb.from
      /\ D.settings = x /\ D.backup = mgDb.backup
  BY <1>3, <1>4, MgSetSettings
<1>6. QED
  BY <1>1, <1>2, <1>3, <1>4, <1>5, MgStepUp

LEMMA MgRebuildChannels == ASSUME MgInv, Mg!RebuildChannels PROVE MgInv'
<1> DEFINE on == mgFk /\ mgOpen
           x == [mgDb.channels EXCEPT !.cascade = FALSE, !.full = FALSE,
                   !.streams = mgDb.channels.streams /\ ~on]
           D == [mgDb EXCEPT !.channels = x]
<1>1. /\ mgAt = "upgrade" /\ mgAt' = "upgrade" /\ 63 > mgCur
      /\ Mg!Dml(Mg!Bump(D, 63)) /\ Mg!Upgraded(63)
  BY DEF Mg!RebuildChannels, Mg!Block
<1>2. 63 \in Mg!Targets
  BY DEF Mg!Targets, Mg!Data
<1>3. mgDb \in MgDb /\ mgDb.settings.there
  BY <1>1, MgFound
<1>4. x \in MgChannels
  BY <1>3 DEF MgDb, MgChannels
<1> HIDE DEF x
<1>5. D \in MgDb /\ SameTables(mgDb, D) /\ SameSettings(mgDb, D)
  BY <1>3, <1>4, MgSetChannels
<1> HIDE DEF D
<1>6. QED
  BY <1>1, <1>2, <1>3, <1>5, MgStepUp DEF SameSettings

LEMMA MgMigrate == ASSUME MgInv, Mg!Migrate PROVE MgInv'
<1>1. PICK m \in Mg!Targets : /\ Mg!Block(m) /\ UNCHANGED mgAt
                              /\ Mg!Dml(Mg!Bump(mgDb, m)) /\ Mg!Upgraded(m)
  BY DEF Mg!Migrate
<1>2. /\ m > mgCur /\ m \in Nat
      /\ mgAt = IF m < 65 THEN "upgrade" ELSE "late"
  BY <1>1 DEF Mg!Block, Mg!Targets, Mg!Data
<1>3. /\ mgAt \in {"upgrade", "late"} /\ (mgAt = "late" => m >= 65)
      /\ mgAt' = IF mgAt = "late" THEN "late" ELSE "upgrade"
  BY <1>1, <1>2
<1>4. QED
  BY <1>1, <1>2, <1>3, MgFound, MgStepUp

-----------------------------------------------------------------------------
\* What was dropped is put back, and the upgrade ends.
LEMMA MgRestoreSettings == ASSUME MgInv, Mg!RestoreSettings PROVE MgInv'
<1> DEFINE mode == IF mgDb.backup.mode = "absent" THEN "auto"
                   ELSE mgDb.backup.mode
           x == [mgDb.backup EXCEPT !.version = 65, !.mode = mode]
           D == [mgDb EXCEPT !.backup = Mg!Missing]
           E == [mgDb EXCEPT !.backup = Mg!Missing, !.settings = x]
<1>1. /\ mgAt = "upgrade" /\ mgAt' = "restore"
      /\ UNCHANGED <<mgCur, mgLeft, mgMem, mgFk, mgStops>>
  BY DEF Mg!RestoreSettings
<1>2. /\ mgDb \in MgDb /\ MgTables(mgDb) /\ MgOwned(mgDb)
      /\ mgFk' \in BOOLEAN /\ mgCur' \in 0..Mg!Latest
      /\ mgDb.settings.there /\ \A t \in Rebuilt : mgDb.table[t].there
      /\ MgKept(mgDb) => mgCur >= 58
  BY <1>1 DEF MgInv, MgTypes, MgSafe, MgOk, MgPlace, MgUp
<1>3. CASE mgDb.backup.there
  <2>1. Mg!Dml(E)
    BY <1>3 DEF Mg!RestoreSettings
  <2>2. mgDb.backup \in MgSettings
    BY <1>2, <1>3, MgThere DEF MgDb
  <2>3. 65 \in 0..Mg!Latest
    BY DEF Mg!Latest
  <2>4. /\ x \in MgSettings /\ x.there /\ x.own = mgDb.backup.own
        /\ x.version = 65
    BY <2>2, <2>3 DEF MgSettings
  <2>5. E = [D EXCEPT !.settings = x]
    BY <1>2 DEF MgDb
  <2> HIDE DEF mode, x, D, E
  <2>6. /\ D \in MgDb /\ SameTables(mgDb, D) /\ D.from = mgDb.from
        /\ D.backup = Mg!Missing
    BY <1>2, MgSetBackup DEF D
  <2>7. /\ E \in MgDb /\ SameTables(D, E) /\ E.from = D.from
        /\ E.settings = x /\ E.backup = D.backup
    BY <2>4, <2>5, <2>6, MgSetSettings
  <2>8. SameTables(mgDb, E) /\ ~Mg!Missing.there
    BY <2>6, <2>7 DEF SameTables, Mg!Missing
  <2>9. MgKept(E) => MgKept(mgDb) /\ x.own
    BY <1>2, <1>3, <2>4, <2>6, <2>7, <2>8 DEF MgOwned, MgKept, SameTables
  <2>10. MgOk(E) /\ MgMarked(E)
    BY <1>2, <2>4, <2>6, <2>7, <2>8, <2>9, MgSame
    DEF MgOk, MgOwned, MgMarked, MgKept
  <2>11. MgTypes' /\ MgSafe' /\ mgDb' = E
    BY <1>1, <1>2, <2>1, <2>10, MgDml
  <2>12. MgPlace'
    BY <1>1, <1>2, <2>4, <2>6, <2>7, <2>8, <2>9, <2>11
    DEF MgPlace, MgUp, SameTables
  <2>13. QED
    BY <2>11, <2>12 DEF MgInv
<1>4. CASE ~mgDb.backup.there
  <2>1. mgDb' = mgDb /\ mgDisk' = mgDisk /\ mgOpen' = mgOpen
    BY <1>4 DEF Mg!RestoreSettings, Mg!Nothing
  <2>2. MgKept(mgDb) => mgDb.settings.there /\ mgDb.settings.own
    BY <1>2, <1>4 DEF MgOwned, MgKept
  <2>3. MgTypes'
    BY <1>1, <2>1 DEF MgInv, MgTypes
  <2>4. MgSafe'
    BY <2>1, <2>2 DEF MgInv, MgSafe, MgOk, MgTables, MgOwned, MgMarked, MgKept
  <2>5. MgPlace'
    BY <1>1, <1>2, <2>1, <2>2 DEF MgPlace, MgUp
  <2>6. QED
    BY <2>3, <2>4, <2>5 DEF MgInv
<1>5. QED
  BY <1>3, <1>4

\* When that fails nothing is promised of the settings any more.
LEMMA MgRestoreSettingsFails ==
    ASSUME MgInv, Mg!RestoreSettingsFails PROVE MgInv'
<1>1. /\ mgAt = "upgrade" /\ mgAt' = "restore" /\ mgStops < MaxStops
      /\ mgStops' = mgStops + 1 /\ UNCHANGED <<mgCur, mgLeft, mgMem, mgFk>>
  BY DEF Mg!RestoreSettingsFails
<1>2. /\ mgDb \in MgDb /\ MgTables(mgDb)
      /\ mgFk' \in BOOLEAN /\ mgCur' \in 0..Mg!Latest
      /\ mgStops \in 0..MaxStops
      /\ \A t \in Rebuilt : mgDb.table[t].there
  BY <1>1 DEF MgInv, MgTypes, MgSafe, MgOk, MgPlace, MgUp
<1>3. mgStops' \in 0..MaxStops
  BY <1>1, <1>2, Parameters DEF MgParameters
<1>4. PICK kept \in {mgDb.settings, Mg!Missing} :
        Mg!Dml([mgDb EXCEPT !.backup = Mg!Missing, !.settings = kept,
                            !.lost = mgDb.lost \cup {"settings"}])
  BY DEF Mg!RestoreSettingsFails
<1> DEFINE E == [mgDb EXCEPT !.backup = Mg!Missing, !.settings = kept,
                             !.lost = mgDb.lost \cup {"settings"}]
<1>5. /\ E \in MgDb /\ "settings" \in E.lost /\ mgDb.lost \subseteq E.lost
      /\ E.table = mgDb.table /\ E.saved = mgDb.saved
  BY <1>2, <1>4 DEF MgDb
<1>6. Mg!Dml(E)
  BY <1>4
<1> HIDE DEF E
<1>7. ~MgKept(E) /\ MgTables(E)
  BY <1>2, <1>5 DEF MgKept, MgTables
<1>8. MgOk(E) /\ MgMarked(E)
  BY <1>5, <1>7 DEF MgOk, MgOwned, MgMarked, MgKept
<1>9. MgTypes' /\ MgSafe' /\ mgDb' = E
  BY <1>1, <1>2, <1>3, <1>6, <1>8, MgDml
<1>10. MgPlace'
  BY <1>1, <1>2, <1>5, <1>7, <1>9 DEF MgPlace, MgUp, MgKept
<1>11. QED
  BY <1>9, <1>10 DEF MgInv

LEMMA MgRestoreTables == ASSUME MgInv, Mg!RestoreTables PROVE MgInv'
<1>1. /\ mgAt = "restore" /\ mgAt' = "late"
      /\ UNCHANGED <<mgCur, mgLeft, mgMem, mgFk>>
  BY DEF Mg!RestoreTables, Mg!Goto
<1>2. /\ mgDb \in MgDb /\ MgTables(mgDb) /\ MgOwned(mgDb) /\ MgMarked(mgDb)
      /\ mgFk' \in BOOLEAN /\ mgCur' \in 0..Mg!Latest
      /\ mgLeft' \subseteq Rebuilt /\ mgMem' \in BOOLEAN
      /\ \A t \in Rebuilt : mgDb.table[t].there
      /\ MgKept(mgDb) => mgCur >= 58
      /\ MgKept(mgDb) => mgDb.settings.there /\ mgDb.settings.own
      /\ mgStops \in 0..MaxStops
  BY <1>1 DEF MgInv, MgTypes, MgSafe, MgOk, MgPlace, MgUp
<1>3. PICK lost \in SUBSET {t \in Rebuilt : mgDb.saved[t] # Mg!None} :
        /\ mgStops' = mgStops + IF lost = {} THEN 0 ELSE 1
        /\ mgStops' <= MaxStops
        /\ IF \E t \in Rebuilt : mgDb.saved[t] # Mg!None
           THEN Mg!Dml(Mg!PutBack(lost)) ELSE Mg!Nothing
  BY DEF Mg!RestoreTables
<1>4. mgStops' \in 0..MaxStops
  BY <1>2, <1>3, Parameters DEF MgParameters
<1> DEFINE saved == [t \in Rebuilt |-> Mg!None]
           table == [t \in Rebuilt |-> [mgDb.table[t] EXCEPT !.rows =
                       mgDb.table[t].rows
                         \/ (mgDb.saved[t] = "rows" /\ t \notin lost)]]
           gone == mgDb.lost \cup lost
           E == [mgDb EXCEPT !.saved = saved, !.lost = gone, !.table = table]
<1>5. CASE \E t \in Rebuilt : mgDb.saved[t] # Mg!None
  <2>1. Mg!Dml(E)
    BY <1>3, <1>5 DEF Mg!PutBack
  <2>2. /\ saved \in [Rebuilt -> {Mg!None, "rows", "empty"}]
        /\ gone \in SUBSET ({"settings"} \cup Rebuilt)
        /\ "settings" \notin gone => "settings" \notin mgDb.lost
    BY <1>2 DEF MgDb
  <2>3. /\ table \in [Rebuilt -> MgTable]
        /\ \A t \in Rebuilt : /\ table[t].there
                              /\ ~table[t].new => table[t].rows
                              /\ table[t].rows \/ t \in gone
    <3>1. SUFFICES ASSUME NEW t \in Rebuilt
                   PROVE  /\ table[t] \in MgTable
                          /\ table[t].there
                          /\ ~table[t].new => table[t].rows
                          /\ table[t].rows \/ t \in gone
      OBVIOUS
    <3>2. mgDb.table[t] \in MgTable /\ mgDb.table[t].there
      BY <1>2 DEF MgDb
    <3>3. /\ \/ mgDb.table[t].rows \/ mgDb.saved[t] = "rows"
             \/ t \in mgDb.lost
          /\ ~mgDb.table[t].new => mgDb.table[t].rows
      BY <1>2 DEF MgTables
    <3>4. QED
      BY <3>2, <3>3 DEF MgTable
  <2> HIDE DEF saved, table, gone
  <2>4. /\ E \in MgDb /\ E.table = table /\ E.lost = gone
        /\ E.from = mgDb.from /\ E.settings = mgDb.settings
        /\ E.backup = mgDb.backup
    BY <1>2, <2>2, <2>3 DEF MgDb
  <2> HIDE DEF E
  <2>5. MgKept(E) => MgKept(mgDb)
    BY <2>2, <2>4 DEF MgKept
  <2>6. MgTables(E)
    BY <2>3, <2>4 DEF MgTables
  <2>7. MgOk(E) /\ MgMarked(E)
    BY <1>2, <2>4, <2>5, <2>6 DEF MgOk, MgOwned, MgMarked, MgKept
  <2>8. MgTypes' /\ MgSafe' /\ mgDb' = E
    BY <1>1, <1>2, <1>4, <2>1, <2>7, MgDml
  <2>9. MgPlace'
    BY <1>1, <1>2, <2>3, <2>4, <2>5, <2>8 DEF MgPlace, MgUp
  <2>10. QED
    BY <2>8, <2>9 DEF MgInv
<1>6. CASE ~\E t \in Rebuilt : mgDb.saved[t] # Mg!None
  <2>1. Mg!Nothing /\ UNCHANGED mgStops
    BY <1>2, <1>3, <1>6
  <2>2. \A t \in Rebuilt : mgDb.table[t].rows \/ t \in mgDb.lost
    BY <1>2, <1>6 DEF MgTables, Mg!None
  <2>3. MgTypes' /\ MgSafe' /\ mgDb' = mgDb
    BY <1>1, <1>2, <2>1, MgIdle DEF MgUp
  <2>4. MgPlace'
    BY <1>1, <1>2, <2>2, <2>3 DEF MgPlace, MgUp
  <2>5. QED
    BY <2>3, <2>4 DEF MgInv
<1>7. QED
  BY <1>5, <1>6

LEMMA MgFinish == ASSUME MgInv, Mg!Finish PROVE MgInv'
<1>1. /\ mgAt = "late" /\ mgAt' = "up"
      /\ mgDisk' = mgDb /\ mgOpen' = FALSE /\ mgDb' = mgDb
      /\ UNCHANGED <<mgCur, mgLeft, mgMem, mgFk, mgStops>>
  BY DEF Mg!Finish, Mg!Commit
<1>2. MgTypes'
  BY <1>1 DEF MgInv, MgTypes
<1>3. MgSafe'
  BY <1>1 DEF MgInv, MgSafe, MgOk, MgUp, MgTables, MgOwned, MgMarked, MgKept
<1>4. MgPlace'
  BY <1>1 DEF MgInv, MgPlace, MgUp
<1>5. QED
  BY <1>2, <1>3, <1>4 DEF MgInv

\* A stop brings back what was committed.
LEMMA MgStop == ASSUME MgInv, Mg!Stop PROVE MgInv'
<1>1. /\ mgAt' = "down" /\ mgDb' = mgDisk /\ mgDisk' = mgDisk
      /\ mgOpen' = FALSE /\ mgStops < MaxStops /\ mgStops' = mgStops + 1
      /\ UNCHANGED <<mgCur, mgLeft, mgMem, mgFk>>
  BY DEF Mg!Stop
<1>2. mgStops' \in 0..MaxStops
  BY <1>1, Parameters DEF MgInv, MgTypes, MgParameters
<1>3. MgTypes'
  BY <1>1, <1>2 DEF MgInv, MgTypes
<1>4. MgSafe'
  BY <1>1 DEF MgInv, MgSafe, MgOk, MgUp, MgTables, MgOwned, MgMarked, MgKept
<1>5. MgPlace'
  BY <1>1 DEF MgPlace, MgUp
<1>6. QED
  BY <1>3, <1>4, <1>5 DEF MgInv

LEMMA MgNext == ASSUME MgInv, [Mg!Next]_(Mg!vars) PROVE MgInv'
<1>1. CASE Mg!Step
  BY <1>1, MgBoot, MgReadWords, MgCreateWords, MgFillWords, MgDropBackup,
     MgCopySettings, MgDropSettings, MgCheckTable, MgCopyTable, MgDropTable,
     MgReconcile, MgScript, MgCreate, MgRecover, MgRebuildGroups,
     MgCheckpoint, MgApiDefaults, MgSubscribeTables, MgSubscribe,
     MgGlobalMode, MgRebuildChannels, MgMigrate, MgRestoreSettings,
     MgRestoreSettingsFails, MgRestoreTables, MgFinish, Zenon DEF Mg!Step
<1>2. CASE Mg!Stop
  BY <1>2, MgStop
<1>3. CASE UNCHANGED Mg!vars
  BY <1>3 DEF Mg!vars, MgInv, MgTypes, MgSafe, MgPlace, MgOk, MgTables,
              MgOwned, MgMarked, Mg!Table
<1>4. QED
  BY <1>1, <1>2, <1>3 DEF Mg!Next

LEMMA MgInvariant == Mg!Spec => []MgInv
<1>1. Mg!Init => MgInv
  BY MgInit, Parameters
<1>2. MgInv /\ [Mg!Next]_(Mg!vars) => MgInv'
  BY MgNext
<1>3. QED
  BY <1>1, <1>2, PTL DEF Mg!Spec

LEMMA MgShows ==
    ASSUME MgInv PROVE Mg!TypeOK /\ RebuildsKeepData
<1>1. Mg!TypeOK
  <2>1. /\ mgDb.from \in From /\ mgDisk.from \in From
        /\ \A t \in Rebuilt : mgDb.saved[t] \in {Mg!None, "rows", "empty"}
        /\ mgDb.lost \subseteq {"settings"} \cup Rebuilt
    BY DEF MgInv, MgSafe, MgOk, MgDb
  <2>2. QED
    BY <2>1 DEF MgInv, MgTypes, Mg!TypeOK
<1>2. Mg!RebuiltRowsSurvive /\ Mg!SettingsSurviveFrom58
  BY DEF MgInv, MgPlace, Mg!RebuiltRowsSurvive, Mg!SettingsSurviveFrom58,
         Mg!Own, MgKept
<1>3. QED
  BY <1>1, <1>2 DEF RebuildsKeepData

(* Migrations: whatever the old databases and however often it stops, the   *)
(* upgrade stays within the types of its state.                             *)
THEOREM MigrationsTypes == Mg!Spec => []Mg!TypeOK
<1>1. MgInv => Mg!TypeOK
  BY MgShows
<1>2. QED
  BY <1>1, MgInvariant, PTL

(* Migrations: the keywords and the corrected matches of a table that is    *)
(* rebuilt are back when the program is up, and so are the settings of a    *)
(* database of version 58 or later, wherever the upgrade was interrupted    *)
(* and however often, unless the very statements that restore them fail.    *)
THEOREM UpgradesKeepData == Mg!Spec => []RebuildsKeepData
<1>1. MgInv => RebuildsKeepData
  BY MgShows
<1>2. QED
  BY <1>1, MgInvariant, PTL

-----------------------------------------------------------------------------
(* The scheduler *)

ScParameters == "main" \notin SubTasks /\ MaxSaves \in Nat

ScTasks == SubTasks \cup {"main", "none"}
ScRows == [task : ScTasks, at : {"new", "wait", "due", "task", "done"},
           stop : BOOLEAN, running : BOOLEAN]
ScOps == {<<>>, <<"start">>, <<"stop">>, <<"stop", "start">>, <<"restart">>}
ScPlaces == {"next", "subs", "join", "joinmain", "forget", "create",
             "thread", "read", "del", "launch"}
ScSizes == {0} \cup {Sc!Cardinality(K) : K \in SUBSET SubTasks}
ScRequests ==
    [ops : ScOps, at : ScPlaces, s : Sc!Loops \cup {0},
     t : SubTasks \cup {"none"}, sub : Sc!Loops \cup {0},
     cfg : SUBSET SubTasks, seen : SUBSET Sc!Loops, size : ScSizes]

\* The scheduler and the task that a request is about.
ScAbout(q) ==
    /\ q.ops = <<>> => q.at = "next"
    /\ q.at = "next" => q.seen = {}
    /\ q.at \notin {"next", "create", "thread", "forget"} => q.s \in Sc!Loops
    /\ q.ops = <<"restart">> => q.t \in SubTasks

ScTypes ==
    /\ scEnabled \in BOOLEAN /\ scOn \in [SubTasks -> BOOLEAN]
    /\ scCurrent \in Sc!Loops \cup {0}
    /\ scLoop \in [Sc!Loops -> ScRows]
    /\ scSubs \in [Sc!Loops -> [SubTasks -> Sc!Loops \cup {0}]]
    /\ scReq \in [Handlers -> ScRequests]
    /\ scChanges \in 0..MaxSaves
    /\ \A r \in Handlers : ScAbout(scReq[r])

\* A loop that runs its task again, and nothing that does.
ScGoes(l) == scLoop[l].at \in {"wait", "due", "task"} /\ ~scLoop[l].stop
ScQuiet == \A l \in Sc!Loops : ~ScGoes(l)
ScShown == scCurrent \in Sc!Loops /\ ScGoes(scCurrent)

\* What a thread's object says of it is true.
ScFlags == \A l \in Sc!Loops : scLoop[l].at \in {"wait", "due", "task"} =>
                                 scLoop[l].running = ~scLoop[l].stop
\* The objects are of the tasks they are kept for.
ScNames ==
    /\ scCurrent \in Sc!Loops => scLoop[scCurrent].task = "main"
    /\ \A s \in Sc!Loops, t \in SubTasks :
          scSubs[s][t] # 0 => scLoop[scSubs[s][t]].task = t
\* A loop that goes on is the one its scheduler knows.
ScOwned == \A l \in Sc!Loops : ScGoes(l) =>
    /\ scCurrent \in Sc!Loops /\ scLoop[l].task \in SubTasks \cup {"main"}
    /\ scLoop[l].task = "main" => l = scCurrent
    /\ scLoop[l].task # "main" => l = scSubs[scCurrent][scLoop[l].task]

ScIs(q, op, places) == q.ops # <<>> /\ Head(q.ops) = op /\ q.at \in places
\* What holds where a request is.
ScPlace(q) ==
    /\ q.at = "next" => ScShown \/ ScQuiet
    /\ ScIs(q, "stop", {"subs", "join"}) =>
          /\ q.s = scCurrent /\ ScShown
          /\ \A l \in q.seen : ~ScGoes(l)
    /\ ScIs(q, "stop", {"joinmain", "forget"}) => ScQuiet
    /\ ScIs(q, "start", {"create"}) => ScQuiet
    /\ ScIs(q, "start", {"thread"}) => ScQuiet /\ scCurrent \in Sc!Loops
    /\ ScIs(q, "start", {"read"}) =>
          /\ q.s = scCurrent /\ ScShown
          /\ \A l \in Sc!Loops : ScGoes(l) => scLoop[l].task = "main"
    /\ ScIs(q, "start", {"subs"}) =>
          /\ q.s = scCurrent /\ ScShown
          /\ \A l \in Sc!Loops : ScGoes(l) => scLoop[l].task \notin q.cfg
    /\ ScIs(q, "restart", {"join", "del", "read", "launch"}) =>
          /\ q.s = scCurrent /\ ScShown
          /\ \A l \in Sc!Loops : ScGoes(l) => scLoop[l].task # q.t

ScSafe == ScFlags /\ ScNames /\ ScOwned /\ \A r \in Handlers : ScPlace(scReq[r])
ScInv == ScTypes /\ ScSafe

LEMMA ScTail ==
    ASSUME NEW ops \in ScOps, ops # <<>>
    PROVE  /\ Tail(ops) \in {<<>>, <<"start">>} /\ Tail(ops) \in ScOps
           /\ Head(ops) \in {"stop", "start", "restart"}
           /\ Head(ops) = "restart" => ops = <<"restart">>
<1>1. \A x : Head(<<x>>) = x /\ Tail(<<x>>) = <<>> OBVIOUS
<1>2. Head(<<"stop", "start">>) = "stop" OBVIOUS
<1>3. Tail(<<"stop", "start">>) = <<"start">> OBVIOUS
<1>4. ops \in {<<"start">>, <<"stop">>, <<"stop", "start">>, <<"restart">>}
  BY DEF ScOps
<1>5. <<>> \in ScOps /\ <<"start">> \in ScOps BY DEF ScOps
<1> QED BY <1>1, <1>2, <1>3, <1>4, <1>5


\* What a handler is when it has the operations ops to make.
ScRested(ops, t) == [ops |-> ops, at |-> "next", s |-> 0, t |-> t, sub |-> 0,
                     cfg |-> {}, seen |-> {}, size |-> 0]

LEMMA ScIdle ==
    ASSUME NEW ops
    PROVE  /\ [Sc!Idle EXCEPT !.ops = ops] = ScRested(ops, "none")
           /\ \A t : [Sc!Idle EXCEPT !.ops = ops, !.t = t] = ScRested(ops, t)
<1>1. Sc!Idle = ScRested(<<>>, "none") BY DEF Sc!Idle, Sc!None, ScRested
<1>2. ASSUME NEW idle, NEW e, idle = ScRested(e, "none")
      PROVE  [idle EXCEPT !.ops = ops] = ScRested(ops, "none")
  BY <1>2 DEF ScRested
<1>3. ASSUME NEW rested, NEW t, rested = ScRested(ops, "none")
      PROVE  [rested EXCEPT !.t = t] = ScRested(ops, t)
  BY <1>3 DEF ScRested
<1>4. ASSUME NEW t
      PROVE  [Sc!Idle EXCEPT !.ops = ops, !.t = t]
               = [[Sc!Idle EXCEPT !.ops = ops] EXCEPT !.t = t]
  OBVIOUS
<1> QED BY <1>1, <1>2, <1>3, <1>4

LEMMA ScRest ==
    ASSUME NEW ops \in ScOps, NEW t \in SubTasks \cup {"none"},
           ops = <<"restart">> => t \in SubTasks
    PROVE  /\ ScRested(ops, t) \in ScRequests /\ ScAbout(ScRested(ops, t))
           /\ ScShown \/ ScQuiet => ScPlace(ScRested(ops, t))
<1>1. /\ "next" \in ScPlaces /\ 0 \in ScSizes
      /\ {} \in SUBSET SubTasks /\ {} \in SUBSET Sc!Loops
  BY DEF ScPlaces, ScSizes
<1>2. ScRested(ops, t) \in ScRequests BY <1>1 DEF ScRequests, ScRested
<1>3. ScAbout(ScRested(ops, t)) BY DEF ScAbout, ScRested
<1>4. ScShown \/ ScQuiet => ScPlace(ScRested(ops, t))
  BY DEF ScPlace, ScRested, ScIs
<1> QED BY <1>2, <1>3, <1>4

LEMMA ScReturn ==
    ASSUME ScTypes, NEW r \in Handlers, scReq[r].ops # <<>>,
           Sc!Return(r) \/ Sc!Raise(r)
    PROVE  \E ops \in ScOps :
              /\ ops # <<"restart">>
              /\ scReq' = [scReq EXCEPT ![r] = ScRested(ops, "none")]
<1>1. scReq[r].ops \in ScOps BY DEF ScTypes, ScRequests
<1>2. CASE Sc!Return(r)
  <2>1. <<>> # <<"restart">> /\ <<"start">> # <<"restart">> OBVIOUS
  <2>2. PICK ops \in ScOps : ops = Tail(scReq[r].ops) /\ ops # <<"restart">>
    BY <1>1, <2>1, ScTail
  <2>3. scReq' = [scReq EXCEPT ![r] = [Sc!Idle EXCEPT !.ops = ops]]
    BY <1>2, <2>2 DEF Sc!Return
  <2>4. [Sc!Idle EXCEPT !.ops = ops] = ScRested(ops, "none") BY ScIdle
  <2> QED BY <2>2, <2>3, <2>4
<1>3. CASE Sc!Raise(r)
  <2>1. <<>> \in ScOps /\ <<>> # <<"restart">> BY DEF ScOps
  <2>2. scReq' = [scReq EXCEPT ![r] = ScRested(<<>>, "none")]
    BY <1>3 DEF Sc!Raise, Sc!Idle, Sc!None, ScRested
  <2> QED BY <2>1, <2>2
<1> QED BY <1>2, <1>3

LEMMA ScWith ==
    ASSUME NEW p \in ScRequests, NEW at \in ScPlaces
    PROVE  LET q == [p EXCEPT !.at = at]
           IN  /\ q \in ScRequests /\ q.at = at /\ q.ops = p.ops /\ q.s = p.s
               /\ q.t = p.t /\ q.sub = p.sub /\ q.cfg = p.cfg /\ q.seen = p.seen
BY DEF ScRequests

LEMMA ScInitTypes == ASSUME ScParameters, Sc!Init PROVE ScTypes
<1> USE DEF Sc!Init, Sc!NoLoop, Sc!NoSubs, Sc!Idle, Sc!None
<1>1. /\ scEnabled \in BOOLEAN /\ scOn \in [SubTasks -> BOOLEAN]
      /\ scCurrent = 0 /\ scChanges = 0
      /\ scLoop = [l \in Sc!Loops |-> [task |-> "none", at |-> "new",
                                     stop |-> FALSE, running |-> FALSE]]
      /\ scSubs = [l \in Sc!Loops |-> [t \in SubTasks |-> 0]]
      /\ scReq = [r \in Handlers |->
                    [ops |-> <<>>, at |-> "next", s |-> 0, t |-> "none",
                     sub |-> 0, cfg |-> {}, seen |-> {}, size |-> 0]]
  OBVIOUS
<1>2. scLoop \in [Sc!Loops -> ScRows] BY <1>1 DEF ScRows, ScTasks
<1>3. scReq \in [Handlers -> ScRequests]
  <2>1. /\ <<>> \in ScOps /\ "next" \in ScPlaces /\ 0 \in ScSizes
        /\ {} \in SUBSET SubTasks /\ {} \in SUBSET Sc!Loops
    BY DEF ScOps, ScPlaces, ScSizes
  <2> HIDE DEF Sc!Init, Sc!NoLoop, Sc!NoSubs, Sc!Idle, Sc!None
  <2> QED BY <1>1, <2>1 DEF ScRequests
<1>4. ScTypes
  <2> HIDE DEF Sc!Init, Sc!NoLoop, Sc!NoSubs, Sc!Idle, Sc!None
  <2>0. <<"restart">> # <<>> OBVIOUS
  <2>1. \A r \in Handlers : ScAbout(scReq[r]) BY <1>1, <2>0 DEF ScAbout
  <2> QED BY <1>1, <1>2, <1>3, <2>1 DEF ScTypes, ScParameters
<1> QED BY <1>4

\* A loop's own steps change nothing that a request looks at.
LEMMA ScTickSteps ==
    ASSUME ScTypes, NEW l \in Sc!Loops, Sc!Tick(l) \/ Sc!Run(l)
    PROVE  /\ ScTypes'
           /\ \A m \in Sc!Loops : /\ ScGoes(m)' = ScGoes(m)
                                  /\ scLoop'[m].task = scLoop[m].task
           /\ ScFlags => ScFlags'
           /\ UNCHANGED <<scCurrent, scSubs, scReq>>
<1>1. PICK at \in {"wait", "due", "task", "done"} :
         /\ scLoop' = [scLoop EXCEPT ![l].at = at]
         /\ scLoop[l].at \in {"wait", "due", "task"}
         /\ at = "done" => scLoop[l].stop
         /\ UNCHANGED <<scEnabled, scOn, scCurrent, scSubs, scReq, scChanges>>
  BY DEF Sc!Tick, Sc!Run, Sc!RunTask, Sc!EndTask, Sc!Leave
<1>2. ScTypes' BY <1>1 DEF ScTypes, ScRows, ScAbout
<1>3. /\ \A m \in Sc!Loops : /\ ScGoes(m)' = ScGoes(m)
                             /\ scLoop'[m].task = scLoop[m].task
      /\ ScFlags => ScFlags'
  BY <1>1 DEF ScTypes, ScRows, ScGoes, ScFlags
<1> QED BY <1>1, <1>2, <1>3

\* The requests that are made.
LEMMA ScAsked ==
    ASSUME ScTypes, NEW r \in Handlers, Sc!Ask(r)
    PROVE  \E ops \in ScOps, t \in SubTasks \cup {"none"} :
              /\ scReq[r] = Sc!Idle /\ scChanges < MaxSaves
              /\ scReq' = [scReq EXCEPT ![r] = ScRested(ops, t)]
              /\ ops = <<"restart">> => t \in SubTasks
              /\ scChanges' = scChanges + 1
              /\ UNCHANGED <<scCurrent, scLoop, scSubs>>
              /\ scEnabled' \in BOOLEAN /\ scOn' \in [SubTasks -> BOOLEAN]
<1>1. PICK ops \in ScOps, t \in SubTasks \cup {"none"} :
         /\ scReq[r] = Sc!Idle /\ scChanges < MaxSaves
         /\ scReq' = [scReq EXCEPT ![r] = [Sc!Idle EXCEPT !.ops = ops, !.t = t]]
         /\ ops = <<"restart">> => t \in SubTasks
         /\ scChanges' = scChanges + 1
         /\ UNCHANGED <<scCurrent, scLoop, scSubs>>
         /\ scEnabled' \in BOOLEAN /\ scOn' \in [SubTasks -> BOOLEAN]
  <2> USE DEF ScInv, ScTypes, Sc!Idles, Sc!Make
  <2>0. /\ <<>> \in ScOps /\ <<"start">> \in ScOps /\ <<"stop">> \in ScOps
        /\ <<"stop", "start">> \in ScOps /\ <<"restart">> \in ScOps
        /\ \A ops \in {<<>>, <<"start">>, <<"stop">>, <<"stop", "start">>} :
              ops # <<"restart">>
    BY DEF ScOps
  <2>1. CASE Sc!Boot(r)
    <3>1. PICK ops \in {<<>>, <<"start">>} : Sc!Make(r, ops, "none")
      BY <2>1 DEF Sc!Boot
    <3> QED BY <2>0, <2>1, <3>1 DEF Sc!Boot
  <2>2. CASE Sc!SaveEpg(r)
    BY <2>0, <2>2 DEF Sc!SaveEpg
  <2>3. CASE Sc!SaveScheduler(r)
    <3>1. PICK ops \in {<<"stop">>, <<"stop", "start">>} : Sc!Make(r, ops, "none")
      BY <2>3 DEF Sc!SaveScheduler
    <3> QED BY <2>0, <2>3, <3>1 DEF Sc!SaveScheduler
  <2>4. CASE Sc!SaveSubTask(r)
    <3>1. PICK t \in SubTasks, b \in BOOLEAN :
             /\ Sc!Idles(r) /\ scOn' = [scOn EXCEPT ![t] = b]
             /\ Sc!Make(r, <<"restart">>, t) /\ UNCHANGED scEnabled
      BY <2>4 DEF Sc!SaveSubTask
    <3>2. scOn' \in [SubTasks -> BOOLEAN] BY <3>1
    <3> QED BY <2>0, <3>1, <3>2
  <2> QED BY <2>1, <2>2, <2>3, <2>4 DEF Sc!Ask
<1>2. [Sc!Idle EXCEPT !.ops = ops, !.t = t] = ScRested(ops, t) BY ScIdle
<1> QED BY <1>1, <1>2

LEMMA ScAskTypes ==
    ASSUME ScTypes, ScParameters, NEW r \in Handlers, Sc!Ask(r)
    PROVE  ScTypes'
<1>1. PICK ops \in ScOps, t \in SubTasks \cup {"none"} :
         /\ scChanges < MaxSaves
         /\ scReq' = [scReq EXCEPT ![r] = ScRested(ops, t)]
         /\ ops = <<"restart">> => t \in SubTasks
         /\ scChanges' = scChanges + 1
         /\ UNCHANGED <<scCurrent, scLoop, scSubs>>
         /\ scEnabled' \in BOOLEAN /\ scOn' \in [SubTasks -> BOOLEAN]
  BY ScAsked
<1>2. scChanges' \in 0..MaxSaves BY <1>1 DEF ScTypes, ScParameters
<1>3. ScRested(ops, t) \in ScRequests /\ ScAbout(ScRested(ops, t))
  BY <1>1, ScRest
<1>4. /\ scReq' \in [Handlers -> ScRequests]
      /\ \A x \in Handlers : \/ scReq'[x] = ScRested(ops, t)
                             \/ scReq'[x] = scReq[x]
  BY <1>1, <1>3 DEF ScTypes
<1>5. \A x \in Handlers : ScAbout(scReq'[x]) BY <1>3, <1>4 DEF ScTypes
<1> QED BY <1>1, <1>2, <1>4, <1>5 DEF ScTypes

\* What a step of a request must show of its handler.
LEMMA ScStepTypes ==
    ASSUME ScTypes, NEW r \in Handlers, NEW q \in ScRequests, ScAbout(q),
           scReq' = [scReq EXCEPT ![r] = q],
           UNCHANGED <<scEnabled, scOn, scChanges>>,
           scCurrent' \in Sc!Loops \cup {0}, scLoop' \in [Sc!Loops -> ScRows],
           scSubs' \in [Sc!Loops -> [SubTasks -> Sc!Loops \cup {0}]]
    PROVE  ScTypes'
<1>1. /\ scReq' \in [Handlers -> ScRequests]
      /\ \A x \in Handlers : scReq'[x] = q \/ scReq'[x] = scReq[x]
  BY DEF ScTypes
<1>2. \A x \in Handlers : ScAbout(scReq'[x]) BY <1>1 DEF ScTypes
<1> QED BY <1>1, <1>2 DEF ScTypes

LEMMA ScBackTypes ==
    ASSUME ScTypes, NEW r \in Handlers, scReq[r].ops # <<>>,
           Sc!Return(r) \/ Sc!Raise(r),
           UNCHANGED <<scEnabled, scOn, scChanges>>,
           scCurrent' \in Sc!Loops \cup {0}, scLoop' \in [Sc!Loops -> ScRows],
           scSubs' \in [Sc!Loops -> [SubTasks -> Sc!Loops \cup {0}]]
    PROVE  ScTypes'
<1>1. PICK ops \in ScOps : /\ ops # <<"restart">>
                           /\ scReq' = [scReq EXCEPT ![r] = ScRested(ops, "none")]
  BY ScReturn
<1>2. ScRested(ops, "none") \in ScRequests /\ ScAbout(ScRested(ops, "none"))
  BY <1>1, ScRest
<1> QED BY <1>1, <1>2, ScStepTypes

LEMMA ScGotoTypes ==
    ASSUME ScTypes, NEW r \in Handlers, scReq[r].ops # <<>>,
           NEW at \in ScPlaces \ {"next"}, Sc!Goto(r, at),
           \/ at \in {"create", "thread", "forget"}
           \/ scReq[r].s \in Sc!Loops,
           UNCHANGED <<scEnabled, scOn, scChanges>>,
           scCurrent' \in Sc!Loops \cup {0}, scLoop' \in [Sc!Loops -> ScRows],
           scSubs' \in [Sc!Loops -> [SubTasks -> Sc!Loops \cup {0}]]
    PROVE  ScTypes'
<1> DEFINE p == scReq[r]
           q == [p EXCEPT !.at = at]
<1>1. p \in ScRequests /\ ScAbout(p) BY DEF ScTypes
<1>2. /\ q \in ScRequests /\ q.at = at /\ q.ops = p.ops /\ q.s = p.s
      /\ q.t = p.t
  BY <1>1, ScWith
<1>3. scReq' = [scReq EXCEPT ![r] = q] BY DEF Sc!Goto, ScTypes
<1> HIDE DEF p, q
<1>4. ScAbout(q) BY <1>1, <1>2 DEF ScAbout, p
<1> QED BY <1>2, <1>3, <1>4, ScStepTypes

\* The loops keep their types when one is signalled, and when one is made.
LEMMA ScLoopTypes ==
    ASSUME ScTypes
    PROVE  /\ \A l : Sc!Signal(l) => scLoop' \in [Sc!Loops -> ScRows]
           /\ \A s : \A t \in SubTasks : Sc!Launch(s, t) =>
                /\ scLoop' \in [Sc!Loops -> ScRows]
                /\ scSubs' \in [Sc!Loops -> [SubTasks -> Sc!Loops \cup {0}]]
<1>1. ASSUME NEW l, Sc!Signal(l) PROVE scLoop' \in [Sc!Loops -> ScRows]
  BY <1>1 DEF ScTypes, ScRows, Sc!Signal
<1>2. ASSUME NEW s, NEW t \in SubTasks, Sc!Launch(s, t)
      PROVE  /\ scLoop' \in [Sc!Loops -> ScRows]
             /\ scSubs' \in [Sc!Loops -> [SubTasks -> Sc!Loops \cup {0}]]
  <2> DEFINE new == Sc!Fresh
             loop == [task |-> t, at |-> "wait", stop |-> FALSE, running |-> TRUE]
  <2>1. /\ scLoop' = [scLoop EXCEPT ![new] = loop]
        /\ scSubs' = [scSubs EXCEPT ![s][t] = new]
    BY <1>2 DEF Sc!Launch
  <2>2. new \in Sc!Loops BY <1>2 DEF Sc!Launch, Sc!Fresh, Sc!Free
  <2> HIDE DEF new
  <2>3. loop \in ScRows BY DEF ScRows, ScTasks
  <2> QED BY <2>1, <2>2, <2>3 DEF ScTypes
<1> QED BY <1>1, <1>2

LEMMA ScAtTypes ==
    ASSUME ScTypes, NEW r \in Handlers, NEW op, NEW at, Sc!At(r, op, at)
    PROVE  /\ scReq[r] \in ScRequests /\ ScAbout(scReq[r])
           /\ scReq[r].ops # <<>> /\ scReq[r].at = at
           /\ scReq[r].s \in Sc!Loops \/ at \in {"next", "create", "thread", "forget"}
           /\ op = "restart" => scReq[r].t \in SubTasks
<1>1. scReq[r] \in ScRequests /\ ScAbout(scReq[r]) BY DEF ScTypes
<1>2. scReq[r].ops # <<>> /\ Head(scReq[r].ops) = op /\ scReq[r].at = at
  BY DEF Sc!At
<1>3. scReq[r].ops \in ScOps BY <1>1 DEF ScRequests
<1>4. op = "restart" => scReq[r].ops = <<"restart">> BY <1>2, <1>3, ScTail
<1> QED BY <1>1, <1>2, <1>4 DEF ScAbout

LEMMA ScStopTypes ==
    ASSUME ScTypes, NEW r \in Handlers,
           \/ Sc!StopBegin(r) \/ Sc!StopSub(r) \/ Sc!StopJoinSub(r)
           \/ Sc!StopJoin(r) \/ Sc!StopForget(r)
    PROVE  ScTypes'
<1> DEFINE p == scReq[r]
<1>0. /\ scCurrent \in Sc!Loops \cup {0} /\ scLoop \in [Sc!Loops -> ScRows]
      /\ scSubs \in [Sc!Loops -> [SubTasks -> Sc!Loops \cup {0}]]
  BY DEF ScTypes
<1>1. CASE Sc!StopBegin(r)
  <2>1. /\ Sc!At(r, "stop", "next")
        /\ UNCHANGED <<scEnabled, scOn, scCurrent, scLoop, scSubs, scChanges>>
    BY <1>1 DEF Sc!StopBegin
  <2>2. p \in ScRequests /\ ScAbout(p) /\ p.ops # <<>> /\ p.seen = {}
    BY <2>1, ScAtTypes DEF ScAbout
  <2>3. CASE scCurrent = Sc!None
    <3>1. Sc!Return(r) BY <1>1, <2>3 DEF Sc!StopBegin
    <3> QED BY <1>0, <2>1, <2>2, <3>1, ScBackTypes
  <2>4. CASE scCurrent # Sc!None
    <3> DEFINE at == IF Sc!IsRunning(scCurrent) THEN "subs" ELSE "forget"
               size == Sc!Cardinality(Sc!Keys(scCurrent))
               q == [p EXCEPT !.s = scCurrent, !.at = at, !.size = size]
    <3>1. scCurrent \in Sc!Loops BY <1>0, <2>4 DEF Sc!None
    <3>2. size \in ScSizes BY DEF ScSizes, Sc!Keys
    <3>3. scReq' = [scReq EXCEPT ![r] = q]
      BY <1>1, <2>4 DEF ScTypes, Sc!StopBegin
    <3>4. at \in {"subs", "forget"} OBVIOUS
    <3> HIDE DEF size, at
    <3>5. q \in ScRequests BY <2>2, <3>1, <3>2, <3>4 DEF ScRequests, ScPlaces
    <3>6. q.ops = p.ops /\ q.t = p.t /\ q.s = scCurrent /\ q.at = at
      BY <2>2 DEF ScRequests
    <3> HIDE DEF q, p
    <3>7. ScAbout(q) BY <2>2, <3>1, <3>4, <3>6 DEF ScAbout
    <3> QED BY <1>0, <2>1, <3>3, <3>5, <3>7, ScStepTypes
  <2> QED BY <2>3, <2>4
<1>2. CASE Sc!StopSub(r)
  <2>1. /\ Sc!At(r, "stop", "subs")
        /\ UNCHANGED <<scEnabled, scOn, scCurrent, scChanges>>
    BY <1>2 DEF Sc!StopSub
  <2>2. p \in ScRequests /\ ScAbout(p) /\ p.ops # <<>> /\ p.s \in Sc!Loops
    BY <2>1, ScAtTypes
  <2>3. CASE Sc!Raise(r) /\ UNCHANGED <<scLoop, scSubs>>
    BY <1>0, <2>1, <2>2, <2>3, ScBackTypes
  <2>4. ASSUME NEW t \in SubTasks, scSubs[p.s][t] # 0,
               scReq' = [scReq EXCEPT ![r].sub = scSubs[p.s][t],
                           ![r].seen = @ \cup {scSubs[p.s][t]},
                           ![r].at = IF Sc!IsRunning(scSubs[p.s][t])
                                     THEN "join" ELSE "subs"],
               IF Sc!IsRunning(scSubs[p.s][t]) THEN Sc!Signal(scSubs[p.s][t])
                                               ELSE UNCHANGED scLoop,
               UNCHANGED scSubs
        PROVE  ScTypes'
    <3> DEFINE m == scSubs[p.s][t]
               at == IF Sc!IsRunning(m) THEN "join" ELSE "subs"
               q == [p EXCEPT !.sub = m, !.seen = p.seen \cup {m}, !.at = at]
    <3>1. m \in Sc!Loops BY <1>0, <2>2, <2>4
    <3>2. scLoop' \in [Sc!Loops -> ScRows] BY <1>0, <2>4, ScLoopTypes
    <3>3. scReq' = [scReq EXCEPT ![r] = q] BY <2>4 DEF ScTypes
    <3>4. at \in {"join", "subs"} OBVIOUS
    <3> HIDE DEF at, m
    <3>5. q \in ScRequests BY <2>2, <3>1, <3>4 DEF ScRequests, ScPlaces
    <3>6. q.ops = p.ops /\ q.t = p.t /\ q.s = p.s /\ q.at = at
      BY <2>2 DEF ScRequests
    <3> HIDE DEF q, p
    <3>7. ScAbout(q) BY <2>2, <3>4, <3>6 DEF ScAbout
    <3> QED BY <1>0, <2>1, <2>4, <3>2, <3>3, <3>5, <3>7, ScStepTypes
  <2>5. ASSUME scSubs' = [scSubs EXCEPT ![p.s] = Sc!NoSubs], Sc!Signal(p.s),
               Sc!Goto(r, "joinmain")
        PROVE  ScTypes'
    <3>1. scLoop' \in [Sc!Loops -> ScRows] BY <2>5, ScLoopTypes
    <3>2. scSubs' \in [Sc!Loops -> [SubTasks -> Sc!Loops \cup {0}]]
      BY <1>0, <2>5 DEF Sc!NoSubs, Sc!None
    <3>3. "joinmain" \in ScPlaces \ {"next"} BY DEF ScPlaces
    <3> QED BY <1>0, <2>1, <2>2, <2>5, <3>1, <3>2, <3>3, ScGotoTypes
  <2>6. \/ Sc!Raise(r) /\ UNCHANGED <<scLoop, scSubs>>
        \/ /\ \E t \in {t \in Sc!Keys(p.s) : scSubs[p.s][t] \notin p.seen} :
                /\ scReq' = [scReq EXCEPT ![r].sub = scSubs[p.s][t],
                         ![r].seen = @ \cup {scSubs[p.s][t]},
                         ![r].at = IF Sc!IsRunning(scSubs[p.s][t])
                                   THEN "join" ELSE "subs"]
                /\ IF Sc!IsRunning(scSubs[p.s][t])
                   THEN Sc!Signal(scSubs[p.s][t]) ELSE UNCHANGED scLoop
           /\ UNCHANGED scSubs
        \/ /\ scSubs' = [scSubs EXCEPT ![p.s] = Sc!NoSubs]
           /\ Sc!Signal(p.s) /\ Sc!Goto(r, "joinmain")
    BY <1>2, Zenon DEF Sc!StopSub
  <2> QED BY <2>3, <2>4, <2>5, <2>6 DEF Sc!Keys, Sc!None
<1>3. CASE Sc!StopJoinSub(r)
  <2>1. "subs" \in ScPlaces \ {"next"} BY DEF ScPlaces
  <2> QED BY <1>0, <1>3, <2>1, ScAtTypes, ScGotoTypes DEF Sc!StopJoinSub
<1>4. CASE Sc!StopJoin(r)
  <2>1. "forget" \in ScPlaces \ {"next"} BY DEF ScPlaces
  <2> QED BY <1>0, <1>4, <2>1, ScAtTypes, ScGotoTypes DEF Sc!StopJoin
<1>5. CASE Sc!StopForget(r)
  BY <1>0, <1>5, ScAtTypes, ScBackTypes DEF Sc!StopForget, Sc!None
<1> QED BY <1>1, <1>2, <1>3, <1>4, <1>5

LEMMA ScStartTypes ==
    ASSUME ScTypes, NEW r \in Handlers,
           \/ Sc!StartCheck(r) \/ Sc!StartCreate(r) \/ Sc!StartThread(r)
           \/ Sc!StartRead(r) \/ Sc!StartSubs(r)
    PROVE  ScTypes'
<1> DEFINE p == scReq[r]
<1>0. /\ scCurrent \in Sc!Loops \cup {0} /\ scLoop \in [Sc!Loops -> ScRows]
      /\ scSubs \in [Sc!Loops -> [SubTasks -> Sc!Loops \cup {0}]]
  BY DEF ScTypes
<1>1. CASE Sc!StartCheck(r)
  <2>1. "create" \in ScPlaces \ {"next"} BY DEF ScPlaces
  <2> QED BY <1>0, <1>1, <2>1, ScAtTypes, ScGotoTypes, ScBackTypes
          DEF Sc!StartCheck
<1>2. CASE Sc!StartCreate(r)
  <2>1. /\ Sc!At(r, "start", "create") /\ Sc!Goto(r, "thread")
        /\ scCurrent' = Sc!Fresh
        /\ scLoop' = [scLoop EXCEPT ![Sc!Fresh] = [Sc!NoLoop EXCEPT !.task = "main"]]
        /\ scSubs' = [scSubs EXCEPT ![Sc!Fresh] = Sc!NoSubs]
        /\ UNCHANGED <<scEnabled, scOn, scChanges>>
    BY <1>2 DEF Sc!StartCreate
  <2>2. Sc!Fresh \in Sc!Loops BY <1>2 DEF Sc!StartCreate, Sc!Fresh, Sc!Free
  <2>3. [Sc!NoLoop EXCEPT !.task = "main"] \in ScRows
    <3>1. Sc!NoLoop \in ScRows BY DEF Sc!NoLoop, ScRows, ScTasks
    <3> QED BY <3>1 DEF ScRows, ScTasks
  <2>4. scLoop' \in [Sc!Loops -> ScRows] BY <1>0, <2>1, <2>3
  <2>5. scSubs' \in [Sc!Loops -> [SubTasks -> Sc!Loops \cup {0}]]
    BY <1>0, <2>1 DEF Sc!NoSubs, Sc!None
  <2>6. "thread" \in ScPlaces \ {"next"} BY DEF ScPlaces
  <2>7. p.ops # <<>> BY <2>1, ScAtTypes
  <2> QED BY <2>1, <2>2, <2>4, <2>5, <2>6, <2>7, ScGotoTypes
<1>3. CASE Sc!StartThread(r)
  <2>1. /\ Sc!At(r, "start", "thread")
        /\ UNCHANGED <<scEnabled, scOn, scCurrent, scSubs, scChanges>>
    BY <1>3 DEF Sc!StartThread
  <2>2. p \in ScRequests /\ ScAbout(p) /\ p.ops # <<>> /\ p.at = "thread"
    BY <2>1, ScAtTypes
  <2>3. scLoop' \in [Sc!Loops -> ScRows]
    BY <1>0, <1>3 DEF Sc!StartThread, ScRows
  <2>4. CASE Sc!Return(r) \/ Sc!Raise(r)
    BY <1>0, <2>1, <2>2, <2>3, <2>4, ScBackTypes
  <2>5. ASSUME scCurrent # Sc!None,
               scReq' = [scReq EXCEPT ![r].at = "read", ![r].s = scCurrent]
        PROVE  ScTypes'
    <3> DEFINE q == [p EXCEPT !.at = "read", !.s = scCurrent]
    <3>1. scCurrent \in Sc!Loops BY <1>0, <2>5 DEF Sc!None
    <3>2. q \in ScRequests BY <2>2, <3>1 DEF ScRequests, ScPlaces
    <3>3. q.ops = p.ops /\ q.t = p.t /\ q.s = scCurrent /\ q.at = "read"
      BY <2>2 DEF ScRequests
    <3>4. scReq' = [scReq EXCEPT ![r] = q] BY <2>5 DEF ScTypes
    <3> HIDE DEF q, p
    <3>5. ScAbout(q) BY <2>2, <3>1, <3>3 DEF ScAbout
    <3> QED BY <1>0, <2>1, <2>3, <3>2, <3>4, <3>5, ScStepTypes
  <2> QED BY <1>3, <2>4, <2>5 DEF Sc!StartThread
<1>4. CASE Sc!StartRead(r)
  <2> DEFINE cfg == {t \in SubTasks : scOn[t]}
             q == [p EXCEPT !.at = "subs", !.cfg = cfg]
  <2>1. /\ Sc!At(r, "start", "read")
        /\ scReq' = [scReq EXCEPT ![r].at = "subs", ![r].cfg = cfg]
        /\ UNCHANGED <<scEnabled, scOn, scCurrent, scLoop, scSubs, scChanges>>
    BY <1>4 DEF Sc!StartRead
  <2>2. p \in ScRequests /\ ScAbout(p) /\ p.ops # <<>> /\ p.s \in Sc!Loops
    BY <2>1, ScAtTypes
  <2>3. cfg \in SUBSET SubTasks OBVIOUS
  <2> HIDE DEF cfg
  <2>4. q \in ScRequests BY <2>2, <2>3 DEF ScRequests, ScPlaces
  <2>5. q.ops = p.ops /\ q.t = p.t /\ q.s = p.s /\ q.at = "subs"
    BY <2>2 DEF ScRequests
  <2>6. scReq' = [scReq EXCEPT ![r] = q] BY <2>1 DEF ScTypes
  <2> HIDE DEF q, p
  <2>7. ScAbout(q) BY <2>2, <2>5 DEF ScAbout
  <2> QED BY <1>0, <2>1, <2>4, <2>6, <2>7, ScStepTypes
<1>5. CASE Sc!StartSubs(r)
  <2>1. /\ Sc!At(r, "start", "subs")
        /\ UNCHANGED <<scEnabled, scOn, scCurrent, scChanges>>
    BY <1>5 DEF Sc!StartSubs
  <2>2. /\ p \in ScRequests /\ ScAbout(p) /\ p.ops # <<>> /\ p.at = "subs"
        /\ p.s \in Sc!Loops
    BY <2>1, ScAtTypes
  <2>3. ASSUME NEW t \in p.cfg, Sc!Launch(p.s, t),
               scReq' = [scReq EXCEPT ![r].cfg = @ \ {t}]
        PROVE  ScTypes'
    <3> DEFINE cfg == p.cfg \ {t}
               q == [p EXCEPT !.cfg = cfg]
    <3>1. t \in SubTasks /\ cfg \in SUBSET SubTasks BY <2>2 DEF ScRequests
    <3>2. /\ scLoop' \in [Sc!Loops -> ScRows]
          /\ scSubs' \in [Sc!Loops -> [SubTasks -> Sc!Loops \cup {0}]]
      BY <2>3, <3>1, ScLoopTypes
    <3>3. scReq' = [scReq EXCEPT ![r] = q] BY <2>3 DEF ScTypes
    <3> HIDE DEF cfg
    <3>4. q \in ScRequests BY <2>2, <3>1 DEF ScRequests
    <3>5. q.ops = p.ops /\ q.t = p.t /\ q.s = p.s /\ q.at = p.at
      BY <2>2 DEF ScRequests
    <3> HIDE DEF q, p
    <3>6. ScAbout(q) BY <2>2, <3>5 DEF ScAbout
    <3> QED BY <1>0, <2>1, <3>2, <3>3, <3>4, <3>6, ScStepTypes
  <2>4. CASE Sc!Return(r) /\ UNCHANGED <<scLoop, scSubs>>
    BY <1>0, <2>1, <2>2, <2>4, ScBackTypes
  <2> QED BY <1>5, <2>3, <2>4 DEF Sc!StartSubs
<1> QED BY <1>1, <1>2, <1>3, <1>4, <1>5

LEMMA ScRestartTypes ==
    ASSUME ScTypes, NEW r \in Handlers,
           \/ Sc!RestartBegin(r) \/ Sc!RestartJoin(r) \/ Sc!RestartDel(r)
           \/ Sc!RestartRead(r) \/ Sc!RestartLaunch(r)
    PROVE  ScTypes'
<1> DEFINE p == scReq[r]
<1>0. /\ scCurrent \in Sc!Loops \cup {0} /\ scLoop \in [Sc!Loops -> ScRows]
      /\ scSubs \in [Sc!Loops -> [SubTasks -> Sc!Loops \cup {0}]]
  BY DEF ScTypes
<1>1. CASE Sc!RestartBegin(r)
  <2>1. /\ Sc!At(r, "restart", "next")
        /\ UNCHANGED <<scEnabled, scOn, scCurrent, scSubs, scChanges>>
    BY <1>1 DEF Sc!RestartBegin
  <2>2. p \in ScRequests /\ ScAbout(p) /\ p.ops # <<>> /\ p.t \in SubTasks
    BY <2>1, ScAtTypes
  <2>3. CASE ~Sc!IsRunning(scCurrent)
    <3>1. Sc!Return(r) /\ UNCHANGED scLoop BY <1>1, <2>3 DEF Sc!RestartBegin
    <3> QED BY <1>0, <2>1, <2>2, <3>1, ScBackTypes
  <2>4. CASE Sc!IsRunning(scCurrent)
    <3> DEFINE kept == scSubs[scCurrent][p.t]
               at == IF kept = Sc!None THEN "read"
                     ELSE IF Sc!IsRunning(kept) THEN "join" ELSE "del"
               q == [p EXCEPT !.s = scCurrent, !.sub = kept, !.at = at]
    <3>1. /\ scReq' = [scReq EXCEPT ![r].s = scCurrent, ![r].sub = kept,
                                    ![r].at = at]
          /\ IF Sc!IsRunning(kept) THEN Sc!Signal(kept) ELSE UNCHANGED scLoop
      BY <1>1, <2>4 DEF Sc!RestartBegin
    <3>2. scCurrent \in Sc!Loops BY <1>0, <2>4 DEF Sc!IsRunning, Sc!None
    <3>3. kept \in Sc!Loops \cup {0} BY <1>0, <2>2, <3>2
    <3>4. at \in {"read", "join", "del"} OBVIOUS
    <3>5. scLoop' \in [Sc!Loops -> ScRows] BY <1>0, <3>1, ScLoopTypes
    <3>6. scReq' = [scReq EXCEPT ![r] = q] BY <3>1 DEF ScTypes
    <3> HIDE DEF kept, at
    <3>7. q \in ScRequests BY <2>2, <3>2, <3>3, <3>4 DEF ScRequests, ScPlaces
    <3>8. q.ops = p.ops /\ q.t = p.t /\ q.s = scCurrent /\ q.at = at
      BY <2>2 DEF ScRequests
    <3> HIDE DEF q, p
    <3>9. ScAbout(q) BY <2>2, <3>2, <3>4, <3>8 DEF ScAbout
    <3> QED BY <1>0, <2>1, <3>5, <3>6, <3>7, <3>9, ScStepTypes
  <2> QED BY <2>3, <2>4
<1>2. CASE Sc!RestartJoin(r)
  <2>1. "del" \in ScPlaces \ {"next"} BY DEF ScPlaces
  <2> QED BY <1>0, <1>2, <2>1, ScAtTypes, ScGotoTypes DEF Sc!RestartJoin
<1>3. CASE Sc!RestartDel(r)
  <2>1. /\ Sc!At(r, "restart", "del")
        /\ UNCHANGED <<scEnabled, scOn, scCurrent, scLoop, scChanges>>
    BY <1>3 DEF Sc!RestartDel
  <2>2. /\ p \in ScRequests /\ ScAbout(p) /\ p.ops # <<>> /\ p.t \in SubTasks
        /\ p.s \in Sc!Loops
    BY <2>1, ScAtTypes
  <2>3. CASE Sc!Raise(r) /\ UNCHANGED scSubs
    BY <1>0, <2>1, <2>2, <2>3, ScBackTypes
  <2>4. ASSUME scReq' = [scReq EXCEPT ![r].at = "read", ![r].sub = Sc!None],
               scSubs' = [scSubs EXCEPT ![p.s][p.t] = Sc!None]
        PROVE  ScTypes'
    <3> DEFINE q == [p EXCEPT !.at = "read", !.sub = 0]
    <3>1. scReq' = [scReq EXCEPT ![r] = q] BY <2>4 DEF ScTypes, Sc!None
    <3>2. scSubs' \in [Sc!Loops -> [SubTasks -> Sc!Loops \cup {0}]]
      BY <1>0, <2>4 DEF Sc!None
    <3>3. q \in ScRequests BY <2>2 DEF ScRequests, ScPlaces
    <3>4. q.ops = p.ops /\ q.t = p.t /\ q.s = p.s /\ q.at = "read"
      BY <2>2 DEF ScRequests
    <3> HIDE DEF q, p
    <3>5. ScAbout(q) BY <2>2, <3>4 DEF ScAbout
    <3> QED BY <1>0, <2>1, <3>1, <3>2, <3>3, <3>5, ScStepTypes
  <2> QED BY <1>3, <2>3, <2>4 DEF Sc!RestartDel
<1>4. CASE Sc!RestartRead(r)
  <2>1. "launch" \in ScPlaces \ {"next"} BY DEF ScPlaces
  <2> QED BY <1>0, <1>4, <2>1, ScAtTypes, ScGotoTypes, ScBackTypes
          DEF Sc!RestartRead
<1>5. CASE Sc!RestartLaunch(r)
  BY <1>0, <1>5, ScAtTypes, ScLoopTypes, ScBackTypes DEF Sc!RestartLaunch
<1> QED BY <1>1, <1>2, <1>3, <1>4, <1>5

LEMMA ScTypesNext ==
    ASSUME ScTypes, ScParameters, [Sc!Next]_(Sc!vars)
    PROVE  ScTypes'
<1>1. ASSUME NEW l \in Sc!Loops, Sc!Tick(l) \/ Sc!Run(l) PROVE ScTypes'
  BY <1>1, ScTickSteps
<1>2. ASSUME NEW r \in Handlers, Sc!Ask(r) PROVE ScTypes'
  BY <1>2, ScAskTypes
<1>3. ASSUME NEW r \in Handlers, Sc!Serve(r) PROVE ScTypes'
  BY <1>3, ScStopTypes, ScStartTypes, ScRestartTypes DEF Sc!Serve
<1>4. CASE UNCHANGED Sc!vars BY <1>4 DEF Sc!vars, ScTypes, ScAbout
<1> QED BY <1>1, <1>2, <1>3, <1>4 DEF Sc!Next

(* Whatever requests come, and however many at once, the state of the         *)
(* scheduler, its threads and the settings keeps its types.                   *)
THEOREM SchedulerTypes == Sc!Spec => []Sc!TypeOK
<1>1. ScParameters BY ServicesAssumption DEF ScParameters
<1>2. Sc!Init => ScTypes BY <1>1, ScInitTypes
<1>3. ScTypes /\ [Sc!Next]_(Sc!vars) => ScTypes' BY <1>1, ScTypesNext
<1>4. ScTypes => Sc!TypeOK
  BY DEF ScTypes, ScRows, ScTasks, ScRequests, Sc!TypeOK, Sc!None
<1> QED BY <1>2, <1>3, <1>4, PTL DEF Sc!Spec

-----------------------------------------------------------------------------
\* The proof that a task has one loop, with one request at a time.
ScAlone == \A r, q \in Handlers : r = q

LEMMA ScInit == ASSUME ScParameters, Sc!Init PROVE ScInv
<1>1. ScTypes BY ScInitTypes
<1>2. /\ scCurrent = 0 /\ scSubs = [l \in Sc!Loops |-> [t \in SubTasks |-> 0]]
      /\ scLoop = [l \in Sc!Loops |-> Sc!NoLoop]
      /\ scReq = [r \in Handlers |-> Sc!Idle]
  BY DEF Sc!Init, Sc!NoSubs, Sc!None
<1>3. ScQuiet BY <1>2 DEF ScQuiet, ScGoes, Sc!NoLoop
<1>4. \A r \in Handlers : ScPlace(scReq[r])
  BY <1>2, <1>3 DEF ScPlace, ScIs, Sc!Idle
<1>5. ScFlags /\ ScNames /\ ScOwned
  BY <1>2, <1>3 DEF ScFlags, ScNames, ScOwned, ScQuiet, Sc!Loops, Sc!NoLoop
<1> QED BY <1>1, <1>4, <1>5 DEF ScInv, ScSafe

LEMMA ScTick ==
    ASSUME ScInv, NEW l \in Sc!Loops, Sc!Tick(l) \/ Sc!Run(l)
    PROVE  ScInv'
<1> USE DEF ScInv
<1>1. /\ ScTypes' /\ (ScFlags => ScFlags')
      /\ \A m \in Sc!Loops : /\ ScGoes(m)' = ScGoes(m)
                             /\ scLoop'[m].task = scLoop[m].task
      /\ UNCHANGED <<scCurrent, scSubs, scReq>>
  BY ScTickSteps
<1>2. ScNames'
  <2>1. \A s \in Sc!Loops, t \in SubTasks :
           scSubs[s][t] # 0 => scSubs[s][t] \in Sc!Loops
    BY DEF ScTypes
  <2> QED BY <1>1, <2>1 DEF ScSafe, ScNames
<1>3. ScOwned'
  <2> SUFFICES ASSUME NEW m \in Sc!Loops, ScGoes(m)'
               PROVE  /\ scCurrent' \in Sc!Loops
                      /\ scLoop'[m].task \in SubTasks \cup {"main"}
                      /\ scLoop'[m].task = "main" => m = scCurrent'
                      /\ scLoop'[m].task # "main" =>
                           m = scSubs'[scCurrent'][scLoop'[m].task]
    BY DEF ScOwned
  <2>1. ScGoes(m) /\ scLoop'[m].task = scLoop[m].task BY <1>1
  <2> QED BY <1>1, <2>1 DEF ScSafe, ScOwned
<1>4. \A r \in Handlers : ScPlace(scReq[r])'
  BY <1>1 DEF ScTypes, ScRequests, ScSafe, ScPlace, ScShown, ScQuiet, ScIs
<1> QED BY <1>1, <1>2, <1>3, <1>4 DEF ScSafe

\* What a step must show that puts the request r where q is.
LEMMA ScPut ==
    ASSUME ScInv, ScAlone, NEW r \in Handlers, NEW q \in ScRequests,
           scReq' = [scReq EXCEPT ![r] = q], ScAbout(q),
           scEnabled' \in BOOLEAN, scOn' \in [SubTasks -> BOOLEAN],
           scCurrent' \in Sc!Loops \cup {0}, scLoop' \in [Sc!Loops -> ScRows],
           scSubs' \in [Sc!Loops -> [SubTasks -> Sc!Loops \cup {0}]],
           scChanges' \in 0..MaxSaves,
           ScFlags', ScNames', ScOwned', ScPlace(q)'
    PROVE  ScInv'
<1>1. \A x \in Handlers : x = r BY DEF ScAlone
<1>2. scReq' \in [Handlers -> ScRequests] /\ scReq'[r] = q
  BY DEF ScInv, ScTypes
<1>3. \A x \in Handlers : ScAbout(scReq'[x]) BY <1>1, <1>2
<1>4. ScTypes' BY <1>2, <1>3 DEF ScTypes
<1>5. ScPlace(scReq[r])' BY <1>2 DEF ScPlace, ScIs
<1>6. \A x \in Handlers : ScPlace(scReq[x])' BY <1>1, <1>5
<1> QED BY <1>4, <1>6 DEF ScInv, ScSafe

\* A step of a request alone.
LEMMA ScMove ==
    ASSUME ScInv, ScAlone, NEW r \in Handlers, NEW q \in ScRequests,
           scReq' = [scReq EXCEPT ![r] = q], ScAbout(q), ScPlace(q),
           scEnabled' \in BOOLEAN, scOn' \in [SubTasks -> BOOLEAN],
           UNCHANGED <<scCurrent, scLoop, scSubs>>, scChanges' \in 0..MaxSaves
    PROVE  ScInv'
<1>1. ScFlags' /\ ScNames' /\ ScOwned'
  BY DEF ScInv, ScSafe, ScFlags, ScNames, ScOwned, ScGoes
<1>2. ScPlace(q)' BY DEF ScPlace, ScIs, ScShown, ScQuiet, ScGoes
<1> QED BY <1>1, <1>2, ScPut DEF ScInv, ScTypes

\* The request goes on where it is, or gives up.
LEMMA ScRestMove ==
    ASSUME ScInv, ScAlone, NEW r \in Handlers, NEW ops \in ScOps,
           NEW t \in SubTasks \cup {"none"}, ops = <<"restart">> => t \in SubTasks,
           scReq' = [scReq EXCEPT ![r] = ScRested(ops, t)],
           ScShown \/ ScQuiet,
           scEnabled' \in BOOLEAN, scOn' \in [SubTasks -> BOOLEAN],
           UNCHANGED <<scCurrent, scLoop, scSubs>>, scChanges' \in 0..MaxSaves
    PROVE  ScInv'
BY ScRest, ScMove

LEMMA ScAsk ==
    ASSUME ScInv, ScAlone, ScParameters, NEW r \in Handlers, Sc!Ask(r)
    PROVE  ScInv'
<1>1. PICK ops \in ScOps, t \in SubTasks \cup {"none"} :
         /\ scReq[r] = Sc!Idle /\ scChanges < MaxSaves
         /\ scReq' = [scReq EXCEPT ![r] = ScRested(ops, t)]
         /\ ops = <<"restart">> => t \in SubTasks
         /\ scChanges' = scChanges + 1
         /\ UNCHANGED <<scCurrent, scLoop, scSubs>>
         /\ scEnabled' \in BOOLEAN /\ scOn' \in [SubTasks -> BOOLEAN]
  BY ScAsked DEF ScInv
<1>2. ScShown \/ ScQuiet BY <1>1 DEF ScInv, ScSafe, ScPlace, Sc!Idle
<1>3. scChanges' \in 0..MaxSaves
  BY <1>1 DEF ScInv, ScTypes, ScParameters
<1> QED BY <1>1, <1>2, <1>3, ScRestMove

\* The object is running as is_running tells it: its loop goes on.
LEMMA ScRunning ==
    ASSUME ScTypes, ScFlags, NEW l \in Sc!Loops \cup {0}
    PROVE  Sc!IsRunning(l) <=> l \in Sc!Loops /\ ScGoes(l)
BY DEF ScTypes, ScRows, ScFlags, ScGoes, Sc!IsRunning, Sc!None, Sc!Loops

\* What holds where a request is.
LEMMA ScAt ==
    ASSUME ScInv, NEW r \in Handlers, NEW op, NEW at, Sc!At(r, op, at)
    PROVE  /\ scReq[r] \in ScRequests /\ ScAbout(scReq[r]) /\ ScPlace(scReq[r])
           /\ scReq[r].ops # <<>> /\ Head(scReq[r].ops) = op /\ scReq[r].at = at
           /\ scReq[r].s \in Sc!Loops \/ at \in {"next", "create", "thread", "forget"}
           /\ op = "restart" => scReq[r].t \in SubTasks
BY ScAtTypes DEF ScInv, ScSafe, Sc!At

\* The request r goes on at another place.
LEMMA ScGoto ==
    ASSUME ScInv, ScAlone, NEW r \in Handlers, scReq[r].ops # <<>>,
           NEW at \in ScPlaces, Sc!Goto(r, at),
           at # "next",
           at \notin {"next", "create", "thread", "forget"} =>
             scReq[r].s \in Sc!Loops,
           ScPlace([scReq[r] EXCEPT !.at = at]),
           UNCHANGED <<scEnabled, scOn, scCurrent, scLoop, scSubs, scChanges>>
    PROVE  ScInv'
<1> DEFINE q == [scReq[r] EXCEPT !.at = at]
<1>1. scReq[r] \in ScRequests /\ ScAbout(scReq[r]) BY DEF ScInv, ScTypes
<1>2. q \in ScRequests BY <1>1 DEF ScRequests
<1>3. ScAbout(q)
  <2>1. q.ops = scReq[r].ops /\ q.s = scReq[r].s /\ q.t = scReq[r].t /\ q.at = at
    BY <1>1 DEF ScRequests
  <2> QED BY <1>1, <2>1 DEF ScAbout
<1>4. scReq' = [scReq EXCEPT ![r] = q] BY DEF Sc!Goto, ScInv, ScTypes
<1> HIDE DEF q
<1>5. ScPlace(q) BY DEF q
<1> QED BY <1>2, <1>3, <1>4, <1>5, ScMove DEF ScInv, ScTypes

LEMMA ScBack ==
    ASSUME ScInv, ScAlone, NEW r \in Handlers, scReq[r].ops # <<>>,
           Sc!Return(r) \/ Sc!Raise(r), ScShown \/ ScQuiet,
           UNCHANGED <<scEnabled, scOn, scCurrent, scLoop, scSubs, scChanges>>
    PROVE  ScInv'
<1>1. PICK ops \in ScOps : /\ ops # <<"restart">>
                           /\ scReq' = [scReq EXCEPT ![r] = ScRested(ops, "none")]
  BY ScReturn DEF ScInv
<1> QED BY <1>1, ScRestMove DEF ScInv, ScTypes

-----------------------------------------------------------------------------
\* stop_lifecycle_scheduler.
LEMMA ScStopBegin ==
    ASSUME ScInv, ScAlone, NEW r \in Handlers, Sc!StopBegin(r)
    PROVE  ScInv'
<1> USE DEF Sc!StopBegin
<1>0. Sc!At(r, "stop", "next") OBVIOUS
<1>1. /\ scReq[r] \in ScRequests /\ ScAbout(scReq[r])
      /\ scReq[r].ops # <<>> /\ Head(scReq[r].ops) = "stop"
      /\ ScShown \/ ScQuiet
      /\ scReq[r].seen = {}
  BY <1>0, ScAt DEF ScPlace, ScAbout
<1>2. CASE scCurrent = Sc!None BY <1>1, <1>2, ScBack
<1>3. CASE scCurrent # Sc!None
  <2>1. scCurrent \in Sc!Loops BY <1>3 DEF ScInv, ScTypes, Sc!None
  <2> DEFINE at == IF Sc!IsRunning(scCurrent) THEN "subs" ELSE "forget"
             size == Sc!Cardinality(Sc!Keys(scCurrent))
             q == [scReq[r] EXCEPT !.s = scCurrent, !.at = at, !.size = size]
  <2>2. Sc!IsRunning(scCurrent) <=> ScGoes(scCurrent)
    BY <2>1, ScRunning DEF ScInv, ScSafe
  <2>3. size \in ScSizes BY DEF ScSizes, Sc!Keys
  <2>4. scReq' = [scReq EXCEPT ![r] = q] BY <1>3 DEF ScInv, ScTypes
  <2> HIDE DEF size
  <2>5. q \in ScRequests BY <1>1, <2>1, <2>3 DEF ScRequests, ScPlaces
  <2>6. q.ops = scReq[r].ops /\ q.t = scReq[r].t /\ q.s = scCurrent /\ q.at = at
        /\ q.seen = scReq[r].seen
    BY <1>1 DEF ScRequests
  <2> HIDE DEF q
  <2>7. ScAbout(q) BY <1>1, <2>1, <2>6 DEF ScAbout
  <2>8. ScPlace(q) BY <1>1, <2>1, <2>2, <2>6 DEF ScPlace, ScIs, ScShown
  <2> QED BY <1>3, <2>4, <2>5, <2>7, <2>8, ScMove DEF ScInv, ScTypes
<1> QED BY <1>2, <1>3

\* The stop event of a loop is set: it goes on no more.
LEMMA ScSignal ==
    ASSUME ScInv, NEW l \in Sc!Loops, Sc!Signal(l), scCurrent' = scCurrent
    PROVE  /\ scLoop' \in [Sc!Loops -> ScRows] /\ ScFlags'
           /\ \A m \in Sc!Loops : /\ ScGoes(m)' = (ScGoes(m) /\ m # l)
                                  /\ scLoop'[m].task = scLoop[m].task
           /\ scSubs' = scSubs => ScNames' /\ ScOwned'
<1>1. scLoop' \in [Sc!Loops -> ScRows] /\ ScFlags'
  BY DEF ScInv, ScTypes, ScSafe, ScRows, ScFlags, Sc!Signal
<1>2. \A m \in Sc!Loops : /\ ScGoes(m)' = (ScGoes(m) /\ m # l)
                          /\ scLoop'[m].task = scLoop[m].task
  BY DEF ScInv, ScTypes, ScRows, ScGoes, Sc!Signal
<1>3. ASSUME scSubs' = scSubs PROVE ScNames'
  <2>1. \A s \in Sc!Loops, t \in SubTasks :
           scSubs[s][t] # 0 => scSubs[s][t] \in Sc!Loops
    BY DEF ScInv, ScTypes
  <2> QED BY <1>2, <1>3, <2>1 DEF ScInv, ScSafe, ScNames
<1>4. ASSUME scSubs' = scSubs PROVE ScOwned'
  <2> SUFFICES ASSUME NEW m \in Sc!Loops, ScGoes(m)'
               PROVE  /\ scCurrent' \in Sc!Loops
                      /\ scLoop'[m].task \in SubTasks \cup {"main"}
                      /\ scLoop'[m].task = "main" => m = scCurrent'
                      /\ scLoop'[m].task # "main" =>
                           m = scSubs'[scCurrent'][scLoop'[m].task]
    BY DEF ScOwned
  <2>1. ScGoes(m) /\ scLoop'[m].task = scLoop[m].task BY <1>2
  <2> QED BY <1>4, <2>1 DEF ScInv, ScSafe, ScOwned
<1> QED BY <1>1, <1>2, <1>3, <1>4

LEMMA ScStopSub ==
    ASSUME ScInv, ScAlone, NEW r \in Handlers, Sc!StopSub(r)
    PROVE  ScInv'
<1> DEFINE p == scReq[r]
<1>0. Sc!At(r, "stop", "subs") /\ UNCHANGED <<scEnabled, scOn, scCurrent, scChanges>>
  BY DEF Sc!StopSub
<1>1. /\ p \in ScRequests /\ ScAbout(p) /\ p.ops # <<>> /\ Head(p.ops) = "stop"
      /\ p.at = "subs" /\ p.s = scCurrent /\ scCurrent \in Sc!Loops /\ ScShown
      /\ \A l \in p.seen : ~ScGoes(l)
  <2>1. /\ p \in ScRequests /\ ScAbout(p) /\ p.ops # <<>> /\ Head(p.ops) = "stop"
        /\ p.at = "subs" /\ ScPlace(p)
    BY <1>0, ScAt
  <2>2. ScIs(p, "stop", {"subs", "join"}) BY <2>1 DEF ScIs
  <2> QED BY <2>1, <2>2 DEF ScPlace, ScShown
<1>2. CASE Sc!Raise(r) /\ UNCHANGED <<scLoop, scSubs>>
  BY <1>0, <1>1, <1>2, ScBack
<1>3. ASSUME NEW t \in SubTasks, scSubs[p.s][t] # 0,
             scReq' = [scReq EXCEPT ![r].sub = scSubs[p.s][t],
                         ![r].seen = @ \cup {scSubs[p.s][t]},
                         ![r].at = IF Sc!IsRunning(scSubs[p.s][t])
                                   THEN "join" ELSE "subs"],
             IF Sc!IsRunning(scSubs[p.s][t]) THEN Sc!Signal(scSubs[p.s][t])
                                             ELSE UNCHANGED scLoop,
             UNCHANGED scSubs
      PROVE  ScInv'
  <2> DEFINE m == scSubs[p.s][t]
             at == IF Sc!IsRunning(m) THEN "join" ELSE "subs"
  <2>1. m \in Sc!Loops BY <1>1, <1>3 DEF ScInv, ScTypes
  <2>2. m # scCurrent
    BY <1>1, <1>3, ServicesAssumption DEF ScInv, ScSafe, ScNames
  <2>3. Sc!IsRunning(m) <=> ScGoes(m) BY <2>1, ScRunning DEF ScInv, ScSafe
  <2>4. /\ scLoop' \in [Sc!Loops -> ScRows] /\ ScFlags' /\ ScNames' /\ ScOwned'
        /\ \A l \in Sc!Loops : /\ ScGoes(l)' = (ScGoes(l) /\ l # m)
                               /\ scLoop'[l].task = scLoop[l].task
    <3>1. CASE ScGoes(m) BY <1>0, <1>3, <2>1, <2>3, <3>1, ScSignal
    <3>2. CASE ~ScGoes(m)
      <4>1. UNCHANGED <<scLoop, scSubs, scCurrent>> BY <1>0, <1>3, <2>3, <3>2
      <4> QED BY <3>2, <4>1
                 DEF ScInv, ScTypes, ScSafe, ScFlags, ScNames, ScOwned, ScGoes
    <3> QED BY <3>1, <3>2
  <2>5. scReq' = [scReq EXCEPT ![r] =
                   [p EXCEPT !.sub = m, !.seen = p.seen \cup {m}, !.at = at]]
    BY <1>3 DEF ScInv, ScTypes
  <2>6. at \in {"join", "subs"} OBVIOUS
  <2> HIDE DEF at, m
  <2>7. PICK q \in ScRequests :
           q = [p EXCEPT !.sub = m, !.seen = p.seen \cup {m}, !.at = at]
    BY <1>1, <2>1, <2>6 DEF ScRequests, ScPlaces
  <2>8. /\ q.ops = p.ops /\ q.t = p.t /\ q.s = p.s /\ q.at = at
        /\ q.seen = p.seen \cup {m}
    BY <1>1, <2>7 DEF ScRequests
  <2> HIDE DEF p
  <2>9. ScAbout(q) BY <1>1, <2>6, <2>8 DEF ScAbout
  <2>10. q.seen \subseteq Sc!Loops BY <2>7 DEF ScRequests
  <2>11. \A l \in q.seen : ~ScGoes(l)' BY <1>1, <2>4, <2>8, <2>10
  <2>12. ScShown' BY <1>0, <1>1, <2>2, <2>4 DEF ScShown
  <2>13. ScPlace(q)'
    BY <1>0, <1>1, <2>6, <2>8, <2>11, <2>12 DEF ScPlace, ScIs
  <2> QED
    BY <1>0, <1>3, <2>4, <2>5, <2>7, <2>9, <2>13, ScPut DEF ScInv, ScTypes
<1>4. ASSUME {t \in Sc!Keys(p.s) : scSubs[p.s][t] \notin p.seen} = {},
             scSubs' = [scSubs EXCEPT ![p.s] = Sc!NoSubs],
             Sc!Signal(p.s), Sc!Goto(r, "joinmain")
      PROVE  ScInv'
  <2>1. /\ scLoop' \in [Sc!Loops -> ScRows] /\ ScFlags'
        /\ \A m \in Sc!Loops : /\ ScGoes(m)' = (ScGoes(m) /\ m # scCurrent)
                               /\ scLoop'[m].task = scLoop[m].task
    BY <1>0, <1>1, <1>4, ScSignal
  <2>2. \A m \in Sc!Loops : ~ScGoes(m)'
    <3> SUFFICES ASSUME NEW m \in Sc!Loops, ScGoes(m), m # scCurrent
                 PROVE  FALSE
      BY <2>1
    <3>1. scLoop[m].task \in SubTasks /\ m = scSubs[scCurrent][scLoop[m].task]
      BY DEF ScInv, ScSafe, ScOwned
    <3>2. m # 0 BY DEF Sc!Loops
    <3>3. m \in p.seen BY <1>1, <1>4, <3>1, <3>2 DEF Sc!Keys, Sc!None
    <3> QED BY <1>1, <3>3
  <2>3. ScOwned' /\ ScQuiet' BY <2>2 DEF ScOwned, ScQuiet
  <2>4. scSubs' \in [Sc!Loops -> [SubTasks -> Sc!Loops \cup {0}]]
    BY <1>4 DEF ScInv, ScTypes, Sc!NoSubs, Sc!None
  <2>5. ScNames'
    <3>1. scCurrent' \in Sc!Loops => scLoop'[scCurrent'].task = "main"
      BY <1>0, <1>1, <2>1 DEF ScInv, ScSafe, ScNames
    <3>2. ASSUME NEW s \in Sc!Loops, NEW t \in SubTasks, scSubs'[s][t] # 0
          PROVE  scLoop'[scSubs'[s][t]].task = t
      <4>1. s # p.s BY <1>4, <3>2 DEF ScInv, ScTypes, Sc!NoSubs, Sc!None
      <4>2. scSubs'[s][t] = scSubs[s][t]
        BY <1>4, <4>1 DEF ScInv, ScTypes
      <4>3. scSubs[s][t] \in Sc!Loops BY <3>2, <4>2 DEF ScInv, ScTypes
      <4>4. scLoop[scSubs[s][t]].task = t
        BY <3>2, <4>2 DEF ScInv, ScSafe, ScNames
      <4> QED BY <2>1, <4>2, <4>3, <4>4
    <3> QED BY <3>1, <3>2 DEF ScNames
  <2>6. "joinmain" \in ScPlaces BY DEF ScPlaces
  <2>7. PICK q \in ScRequests :
           /\ q = [p EXCEPT !.at = "joinmain"] /\ q.at = "joinmain"
           /\ q.ops = p.ops /\ q.s = p.s /\ q.t = p.t
    BY <1>1, <2>6, ScWith
  <2>8. scReq' = [scReq EXCEPT ![r] = q]
    BY <1>4, <2>7 DEF Sc!Goto, ScInv, ScTypes
  <2> HIDE DEF p
  <2>9. ScAbout(q) BY <1>1, <2>7 DEF ScAbout
  <2>10. ScPlace(q)' BY <1>1, <2>3, <2>7 DEF ScPlace, ScIs
  <2> QED
    BY <1>0, <2>1, <2>3, <2>4, <2>5, <2>7, <2>8, <2>9, <2>10, ScPut
       DEF ScInv, ScTypes
<1> QED
  <2>1. \/ Sc!Raise(r) /\ UNCHANGED <<scLoop, scSubs>>
        \/ /\ \E t \in {t \in Sc!Keys(p.s) : scSubs[p.s][t] \notin p.seen} :
                /\ scReq' = [scReq EXCEPT ![r].sub = scSubs[p.s][t],
                         ![r].seen = @ \cup {scSubs[p.s][t]},
                         ![r].at = IF Sc!IsRunning(scSubs[p.s][t])
                                   THEN "join" ELSE "subs"]
                /\ IF Sc!IsRunning(scSubs[p.s][t])
                   THEN Sc!Signal(scSubs[p.s][t]) ELSE UNCHANGED scLoop
           /\ UNCHANGED scSubs
        \/ /\ {t \in Sc!Keys(p.s) : scSubs[p.s][t] \notin p.seen} = {}
           /\ scSubs' = [scSubs EXCEPT ![p.s] = Sc!NoSubs]
           /\ Sc!Signal(p.s) /\ Sc!Goto(r, "joinmain")
    BY Zenon DEF Sc!StopSub
  <2> QED BY <2>1, <1>2, <1>3, <1>4 DEF Sc!Keys, Sc!None

LEMMA ScStopJoins ==
    ASSUME ScInv, ScAlone, NEW r \in Handlers,
           Sc!StopJoinSub(r) \/ Sc!StopJoin(r) \/ Sc!StopForget(r)
    PROVE  ScInv'
<1> DEFINE p == scReq[r]
<1>1. CASE Sc!StopJoinSub(r)
  <2>1. Sc!At(r, "stop", "join") /\ Sc!Goto(r, "subs")
    BY <1>1 DEF Sc!StopJoinSub
  <2>2. /\ p \in ScRequests /\ ScPlace(p) /\ p.ops # <<>>
        /\ Head(p.ops) = "stop" /\ p.at = "join" /\ p.s \in Sc!Loops
    BY <2>1, ScAt
  <2>3. "subs" \in ScPlaces BY DEF ScPlaces
  <2>4. ScPlace([p EXCEPT !.at = "subs"])
    BY <2>2, <2>3, ScWith DEF ScPlace, ScIs
  <2> QED BY <1>1, <2>1, <2>2, <2>3, <2>4, ScGoto DEF Sc!StopJoinSub
<1>2. CASE Sc!StopJoin(r)
  <2>1. Sc!At(r, "stop", "joinmain") /\ Sc!Goto(r, "forget")
    BY <1>2 DEF Sc!StopJoin
  <2>2. /\ p \in ScRequests /\ ScPlace(p) /\ p.ops # <<>>
        /\ Head(p.ops) = "stop" /\ p.at = "joinmain"
    BY <2>1, ScAt
  <2>3. "forget" \in ScPlaces BY DEF ScPlaces
  <2>4. ScPlace([p EXCEPT !.at = "forget"])
    BY <2>2, <2>3, ScWith DEF ScPlace, ScIs
  <2> QED BY <1>2, <2>1, <2>2, <2>3, <2>4, ScGoto DEF Sc!StopJoin
<1>3. CASE Sc!StopForget(r)
  <2>1. /\ Sc!At(r, "stop", "forget") /\ Sc!Return(r) /\ scCurrent' = 0
        /\ UNCHANGED <<scEnabled, scOn, scLoop, scSubs, scChanges>>
    BY <1>3 DEF Sc!StopForget, Sc!None
  <2>2. ScQuiet /\ p.ops # <<>> BY <2>1, ScAt DEF ScPlace, ScIs
  <2>3. PICK ops \in ScOps : /\ ops # <<"restart">>
                             /\ scReq' = [scReq EXCEPT ![r] = ScRested(ops, "none")]
    BY <2>1, <2>2, ScReturn DEF ScInv
  <2>4. ScRested(ops, "none") \in ScRequests /\ ScAbout(ScRested(ops, "none"))
    BY <2>3, ScRest
  <2>5. ScQuiet' BY <2>1, <2>2 DEF ScQuiet, ScGoes
  <2>6. ScPlace(ScRested(ops, "none"))' BY <2>5 DEF ScPlace, ScRested, ScIs
  <2>7. ScFlags' /\ ScNames' /\ ScOwned'
    BY <2>1, <2>5 DEF ScInv, ScSafe, ScFlags, ScNames, ScOwned, ScQuiet, Sc!Loops
  <2> QED BY <2>1, <2>3, <2>4, <2>6, <2>7, ScPut DEF ScInv, ScTypes
<1> QED BY <1>1, <1>2, <1>3

-----------------------------------------------------------------------------
\* start_lifecycle_scheduler.
LEMMA ScStartCheck ==
    ASSUME ScInv, ScAlone, NEW r \in Handlers, Sc!StartCheck(r)
    PROVE  ScInv'
<1> DEFINE p == scReq[r]
<1>1. /\ Sc!At(r, "start", "next")
      /\ UNCHANGED <<scEnabled, scOn, scCurrent, scLoop, scSubs, scChanges>>
  BY DEF Sc!StartCheck
<1>2. /\ p \in ScRequests /\ ScPlace(p) /\ p.ops # <<>>
      /\ Head(p.ops) = "start" /\ p.at = "next"
  BY <1>1, ScAt
<1>3. ScShown \/ ScQuiet BY <1>2 DEF ScPlace
<1>4. CASE ~(scEnabled /\ ~Sc!IsRunning(scCurrent))
  <2>1. Sc!Return(r) BY <1>4 DEF Sc!StartCheck
  <2> QED BY <1>1, <1>2, <1>3, <2>1, ScBack
<1>5. CASE scEnabled /\ ~Sc!IsRunning(scCurrent)
  <2>1. Sc!Goto(r, "create") BY <1>5 DEF Sc!StartCheck
  <2>2. ScQuiet
    BY <1>3, <1>5, ScRunning DEF ScInv, ScTypes, ScSafe, ScShown
  <2>3. "create" \in ScPlaces BY DEF ScPlaces
  <2>4. ScPlace([p EXCEPT !.at = "create"])
    BY <1>2, <2>2, <2>3, ScWith DEF ScPlace, ScIs
  <2> QED BY <1>1, <1>2, <2>1, <2>3, <2>4, ScGoto
<1> QED BY <1>4, <1>5

\* A new object is one that nobody holds.
LEMMA ScFresh ==
    ASSUME ScInv, Sc!Free # {}
    PROVE  /\ Sc!Fresh \in Sc!Loops /\ ~ScGoes(Sc!Fresh) /\ Sc!Fresh # scCurrent
           /\ \A s \in Sc!Loops, t \in SubTasks : scSubs[s][t] # Sc!Fresh
           /\ \A r \in Handlers : scReq[r].s # Sc!Fresh
<1>1. Sc!Fresh \in Sc!Free BY DEF Sc!Fresh
<1>2. /\ Sc!Fresh \in Sc!Loops /\ scLoop[Sc!Fresh].at \in {"new", "done"}
      /\ Sc!Fresh \notin Sc!Referenced
  BY <1>1 DEF Sc!Free
<1>3. ~ScGoes(Sc!Fresh) BY <1>2 DEF ScGoes
<1> QED BY <1>2, <1>3 DEF Sc!Referenced

LEMMA ScStartCreate ==
    ASSUME ScInv, ScAlone, NEW r \in Handlers, Sc!StartCreate(r)
    PROVE  ScInv'
<1> DEFINE p == scReq[r]
           new == Sc!Fresh
<1>1. /\ Sc!At(r, "start", "create") /\ Sc!Free # {} /\ Sc!Goto(r, "thread")
      /\ scCurrent' = new /\ scSubs' = [scSubs EXCEPT ![new] = Sc!NoSubs]
      /\ scLoop' = [scLoop EXCEPT ![new] = [Sc!NoLoop EXCEPT !.task = "main"]]
      /\ UNCHANGED <<scEnabled, scOn, scChanges>>
  BY DEF Sc!StartCreate
<1>2. /\ p \in ScRequests /\ ScAbout(p) /\ p.ops # <<>>
      /\ Head(p.ops) = "start" /\ ScQuiet
  <2>1. /\ p \in ScRequests /\ ScAbout(p) /\ p.ops # <<>>
        /\ Head(p.ops) = "start" /\ p.at = "create" /\ ScPlace(p)
    BY <1>1, ScAt
  <2> QED BY <2>1 DEF ScPlace, ScIs
<1>3. /\ new \in Sc!Loops /\ new # scCurrent
      /\ \A s \in Sc!Loops, t \in SubTasks : scSubs[s][t] # new
  BY <1>1, ScFresh
<1> HIDE DEF new
<1>4. PICK loop \in ScRows :
        /\ loop = [Sc!NoLoop EXCEPT !.task = "main"]
        /\ loop.task = "main" /\ loop.at = "new" /\ ~loop.stop /\ ~loop.running
  <2>1. Sc!NoLoop \in ScRows BY DEF Sc!NoLoop, ScRows, ScTasks
  <2>2. [Sc!NoLoop EXCEPT !.task = "main"] \in ScRows
    BY <2>1 DEF ScRows, ScTasks
  <2> QED BY <2>2 DEF Sc!NoLoop
<1>5. scLoop' \in [Sc!Loops -> ScRows] BY <1>1, <1>4 DEF ScInv, ScTypes
<1>6. \A m \in Sc!Loops : m # new => scLoop'[m] = scLoop[m]
  BY <1>1 DEF ScInv, ScTypes
<1>7. scLoop'[new] = loop BY <1>1, <1>3, <1>4 DEF ScInv, ScTypes
<1>8. ScQuiet' BY <1>2, <1>4, <1>6, <1>7 DEF ScQuiet, ScGoes
<1>9. ScFlags' BY <1>4, <1>6, <1>7 DEF ScInv, ScSafe, ScFlags
<1>10. scSubs' \in [Sc!Loops -> [SubTasks -> Sc!Loops \cup {0}]]
  BY <1>1 DEF ScInv, ScTypes, Sc!NoSubs, Sc!None
<1>11. ScNames'
  <2>1. scCurrent' \in Sc!Loops => scLoop'[scCurrent'].task = "main"
    BY <1>1, <1>4, <1>7
  <2>2. ASSUME NEW s \in Sc!Loops, NEW t \in SubTasks, scSubs'[s][t] # 0
        PROVE  scLoop'[scSubs'[s][t]].task = t
    <3>1. s # new BY <1>1, <2>2 DEF ScInv, ScTypes, Sc!NoSubs, Sc!None
    <3>2. scSubs'[s][t] = scSubs[s][t] BY <1>1, <3>1 DEF ScInv, ScTypes
    <3>3. scSubs[s][t] \in Sc!Loops /\ scSubs[s][t] # new
      BY <1>3, <2>2, <3>2 DEF ScInv, ScTypes
    <3>4. scLoop[scSubs[s][t]].task = t
      BY <2>2, <3>2 DEF ScInv, ScSafe, ScNames
    <3> QED BY <1>6, <3>2, <3>3, <3>4
  <2> QED BY <2>1, <2>2 DEF ScNames
<1>12. ScOwned' BY <1>8 DEF ScOwned, ScQuiet
<1>13. "thread" \in ScPlaces BY DEF ScPlaces
<1>14. PICK q \in ScRequests :
         /\ q = [p EXCEPT !.at = "thread"] /\ q.at = "thread"
         /\ q.ops = p.ops /\ q.s = p.s /\ q.t = p.t
  BY <1>2, <1>13, ScWith
<1>15. scReq' = [scReq EXCEPT ![r] = q]
  BY <1>1, <1>14 DEF Sc!Goto, ScInv, ScTypes
<1> HIDE DEF p
<1>16. ScAbout(q) BY <1>2, <1>14 DEF ScAbout
<1>17. ScPlace(q)' BY <1>1, <1>2, <1>3, <1>8, <1>14 DEF ScPlace, ScIs
<1> QED
  BY <1>1, <1>3, <1>5, <1>9, <1>10, <1>11, <1>12, <1>15, <1>16, <1>17, ScPut
     DEF ScInv, ScTypes

LEMMA ScStartThread ==
    ASSUME ScInv, ScAlone, NEW r \in Handlers, Sc!StartThread(r)
    PROVE  ScInv'
<1> DEFINE p == scReq[r]
<1>1. Sc!At(r, "start", "thread") /\ UNCHANGED <<scEnabled, scOn, scCurrent, scSubs, scChanges>>
  BY DEF Sc!StartThread
<1>2. /\ p \in ScRequests /\ ScAbout(p) /\ p.ops # <<>>
      /\ Head(p.ops) = "start" /\ ScQuiet /\ scCurrent \in Sc!Loops
  <2>1. /\ p \in ScRequests /\ ScAbout(p) /\ p.ops # <<>>
        /\ Head(p.ops) = "start" /\ p.at = "thread" /\ ScPlace(p)
    BY <1>1, ScAt
  <2> QED BY <2>1 DEF ScPlace, ScIs
<1>3. ~Sc!IsRunning(scCurrent) /\ scCurrent # Sc!None
  BY <1>2, ScRunning DEF ScInv, ScSafe, ScQuiet, Sc!None, Sc!Loops
<1>4. /\ scLoop' = [scLoop EXCEPT ![scCurrent].at = "wait",
                      ![scCurrent].running = TRUE, ![scCurrent].stop = FALSE]
      /\ scReq' = [scReq EXCEPT ![r].at = "read", ![r].s = scCurrent]
  BY <1>3 DEF Sc!StartThread
<1>5. /\ scLoop' \in [Sc!Loops -> ScRows]
      /\ \A m \in Sc!Loops : m # scCurrent => scLoop'[m] = scLoop[m]
      /\ scLoop'[scCurrent].at = "wait" /\ scLoop'[scCurrent].running = TRUE
      /\ scLoop'[scCurrent].stop = FALSE
      /\ scLoop'[scCurrent].task = scLoop[scCurrent].task
  BY <1>2, <1>4 DEF ScInv, ScTypes, ScRows
<1>6. scLoop[scCurrent].task = "main" BY <1>2 DEF ScInv, ScSafe, ScNames
<1>7. \A m \in Sc!Loops : ScGoes(m)' <=> m = scCurrent
  BY <1>2, <1>5 DEF ScGoes, ScQuiet
<1>8. ScFlags' BY <1>5 DEF ScInv, ScSafe, ScFlags
<1>9. ScNames'
  <2>1. \A s \in Sc!Loops, t \in SubTasks :
           scSubs[s][t] # 0 => scSubs[s][t] \in Sc!Loops
    BY DEF ScInv, ScTypes
  <2>2. \A m \in Sc!Loops : scLoop'[m].task = scLoop[m].task BY <1>5
  <2> QED BY <1>1, <2>1, <2>2 DEF ScInv, ScSafe, ScNames
<1>10. ScOwned' BY <1>1, <1>2, <1>5, <1>6, <1>7 DEF ScOwned
<1>11. ScShown' BY <1>1, <1>2, <1>7 DEF ScShown
<1>12. \A l \in Sc!Loops : ScGoes(l)' => scLoop'[l].task = "main"
  BY <1>5, <1>6, <1>7
<1>13. "read" \in ScPlaces BY DEF ScPlaces
<1>14. PICK q \in ScRequests :
          /\ q = [p EXCEPT !.at = "read", !.s = scCurrent] /\ q.at = "read"
          /\ q.ops = p.ops /\ q.s = scCurrent /\ q.t = p.t
  <2> DEFINE q == [p EXCEPT !.at = "read", !.s = scCurrent]
  <2>1. q \in ScRequests BY <1>2, <1>13 DEF ScRequests
  <2>2. q.at = "read" /\ q.ops = p.ops /\ q.s = scCurrent /\ q.t = p.t
    BY <1>2 DEF ScRequests
  <2> QED BY <2>1, <2>2
<1>15. scReq' = [scReq EXCEPT ![r] = q]
  BY <1>4, <1>14 DEF ScInv, ScTypes
<1> HIDE DEF p
<1>16. ScAbout(q) BY <1>2, <1>14 DEF ScAbout
<1>17. ScPlace(q)' BY <1>1, <1>2, <1>11, <1>12, <1>14 DEF ScPlace, ScIs
<1> QED
  BY <1>1, <1>5, <1>8, <1>9, <1>10, <1>15, <1>16, <1>17, ScPut DEF ScInv, ScTypes

LEMMA ScStartRead ==
    ASSUME ScInv, ScAlone, NEW r \in Handlers, Sc!StartRead(r)
    PROVE  ScInv'
<1> DEFINE p == scReq[r]
           cfg == {t \in SubTasks : scOn[t]}
<1>1. /\ Sc!At(r, "start", "read")
      /\ scReq' = [scReq EXCEPT ![r].at = "subs", ![r].cfg = cfg]
      /\ UNCHANGED <<scEnabled, scOn, scCurrent, scLoop, scSubs, scChanges>>
  BY DEF Sc!StartRead
<1>2. /\ p \in ScRequests /\ ScAbout(p) /\ p.ops # <<>> /\ p.s \in Sc!Loops
      /\ Head(p.ops) = "start" /\ p.s = scCurrent /\ ScShown
      /\ \A l \in Sc!Loops : ScGoes(l) => scLoop[l].task = "main"
  <2>1. /\ p \in ScRequests /\ ScAbout(p) /\ p.ops # <<>> /\ p.s \in Sc!Loops
        /\ Head(p.ops) = "start" /\ p.at = "read" /\ ScPlace(p)
    BY <1>1, ScAt
  <2> QED BY <2>1 DEF ScPlace, ScIs
<1>3. cfg \in SUBSET SubTasks OBVIOUS
<1> HIDE DEF cfg
<1>4. "subs" \in ScPlaces BY DEF ScPlaces
<1>5. PICK q \in ScRequests :
         /\ q = [p EXCEPT !.at = "subs", !.cfg = cfg] /\ q.at = "subs"
         /\ q.ops = p.ops /\ q.s = p.s /\ q.t = p.t /\ q.cfg = cfg
  <2> DEFINE q == [p EXCEPT !.at = "subs", !.cfg = cfg]
  <2>1. q \in ScRequests BY <1>2, <1>3, <1>4 DEF ScRequests
  <2>2. /\ q.at = "subs" /\ q.ops = p.ops /\ q.s = p.s /\ q.t = p.t
        /\ q.cfg = cfg
    BY <1>2 DEF ScRequests
  <2> QED BY <2>1, <2>2
<1>6. scReq' = [scReq EXCEPT ![r] = q] BY <1>1, <1>5 DEF ScInv, ScTypes
<1> HIDE DEF p
<1>7. ScAbout(q) BY <1>2, <1>5 DEF ScAbout
<1>8. \A l \in Sc!Loops : ScGoes(l) => scLoop[l].task \notin q.cfg
  BY <1>2, <1>3, <1>5, ServicesAssumption
<1>9. ScPlace(q) BY <1>2, <1>5, <1>8 DEF ScPlace, ScIs
<1> QED BY <1>1, <1>6, <1>7, <1>9, ScMove DEF ScInv, ScTypes

\* The loop of an optional task that no loop goes on for is started.
LEMMA ScLaunch ==
    ASSUME ScInv, NEW t \in SubTasks, Sc!Launch(scCurrent, t), ScShown,
           \A l \in Sc!Loops : ScGoes(l) => scLoop[l].task # t,
           scCurrent' = scCurrent
    PROVE  /\ scLoop' \in [Sc!Loops -> ScRows]
           /\ scSubs' \in [Sc!Loops -> [SubTasks -> Sc!Loops \cup {0}]]
           /\ ScFlags' /\ ScNames' /\ ScOwned' /\ ScShown'
           /\ \A l \in Sc!Loops : ScGoes(l)' =>
                 \/ ScGoes(l) /\ scLoop'[l].task = scLoop[l].task
                 \/ scLoop'[l].task = t
<1> DEFINE new == Sc!Fresh
           loop == [task |-> t, at |-> "wait", stop |-> FALSE, running |-> TRUE]
<1>1. /\ Sc!Free # {} /\ scLoop' = [scLoop EXCEPT ![new] = loop]
      /\ scSubs' = [scSubs EXCEPT ![scCurrent][t] = new]
  BY DEF Sc!Launch
<1>2. /\ new \in Sc!Loops /\ new # scCurrent /\ scCurrent \in Sc!Loops
      /\ \A s \in Sc!Loops, u \in SubTasks : scSubs[s][u] # new
  BY <1>1, ScFresh DEF ScShown
<1> HIDE DEF new
<1>3. loop \in ScRows BY DEF ScRows, ScTasks
<1>4. scLoop' \in [Sc!Loops -> ScRows] BY <1>1, <1>3 DEF ScInv, ScTypes
<1>5. scSubs' \in [Sc!Loops -> [SubTasks -> Sc!Loops \cup {0}]]
  BY <1>1, <1>2 DEF ScInv, ScTypes
<1>6. /\ scLoop'[new] = loop /\ loop.task = t /\ loop.at = "wait"
      /\ ~loop.stop /\ loop.running
      /\ \A m \in Sc!Loops : m # new => scLoop'[m] = scLoop[m]
  BY <1>1, <1>2 DEF ScInv, ScTypes
<1> HIDE DEF loop
<1>7. /\ scSubs'[scCurrent][t] = new
      /\ \A s \in Sc!Loops, u \in SubTasks :
            s # scCurrent \/ u # t => scSubs'[s][u] = scSubs[s][u]
  BY <1>1, <1>2 DEF ScInv, ScTypes
<1>8. \A m \in Sc!Loops : ScGoes(m)' <=> ScGoes(m) \/ m = new
  BY <1>2, <1>6, ScFresh, <1>1 DEF ScGoes
<1>9. ScFlags' BY <1>6 DEF ScInv, ScSafe, ScFlags
<1>10. ScNames'
  <2>1. scLoop'[scCurrent].task = "main"
    BY <1>2, <1>6 DEF ScInv, ScSafe, ScNames
  <2>2. ASSUME NEW s \in Sc!Loops, NEW u \in SubTasks, scSubs'[s][u] # 0
        PROVE  scLoop'[scSubs'[s][u]].task = u
    <3>1. CASE s = scCurrent /\ u = t BY <1>6, <1>7, <3>1
    <3>2. CASE s # scCurrent \/ u # t
      <4>1. scSubs'[s][u] = scSubs[s][u] BY <1>7, <3>2
      <4>2. scSubs[s][u] \in Sc!Loops /\ scSubs[s][u] # new
        BY <1>2, <2>2, <4>1 DEF ScInv, ScTypes
      <4>3. scLoop[scSubs[s][u]].task = u
        BY <2>2, <4>1 DEF ScInv, ScSafe, ScNames
      <4> QED BY <1>6, <4>1, <4>2, <4>3
    <3> QED BY <3>1, <3>2
  <2> QED BY <2>1, <2>2 DEF ScNames
<1>11. ScOwned'
  <2> SUFFICES ASSUME NEW m \in Sc!Loops, ScGoes(m)'
               PROVE  /\ scLoop'[m].task \in SubTasks \cup {"main"}
                      /\ scLoop'[m].task = "main" => m = scCurrent
                      /\ scLoop'[m].task # "main" =>
                           m = scSubs'[scCurrent][scLoop'[m].task]
    BY <1>2 DEF ScOwned
  <2>1. CASE m = new BY <1>6, <1>7, <2>1, ServicesAssumption
  <2>2. CASE m # new
    <3>1. ScGoes(m) /\ scLoop'[m] = scLoop[m] BY <1>6, <1>8, <2>2
    <3>2. scLoop[m].task # t BY <3>1
    <3> QED BY <1>2, <1>7, <3>1, <3>2 DEF ScInv, ScSafe, ScOwned
  <2> QED BY <2>1, <2>2
<1>12. ScShown' BY <1>2, <1>8 DEF ScShown
<1>13. \A l \in Sc!Loops : ScGoes(l)' =>
          \/ ScGoes(l) /\ scLoop'[l].task = scLoop[l].task
          \/ scLoop'[l].task = t
  BY <1>6, <1>8
<1> QED BY <1>4, <1>5, <1>9, <1>10, <1>11, <1>12, <1>13

LEMMA ScStartSubs ==
    ASSUME ScInv, ScAlone, NEW r \in Handlers, Sc!StartSubs(r)
    PROVE  ScInv'
<1> DEFINE p == scReq[r]
<1>1. /\ Sc!At(r, "start", "subs")
      /\ UNCHANGED <<scEnabled, scOn, scCurrent, scChanges>>
  BY DEF Sc!StartSubs
<1>2. /\ p \in ScRequests /\ ScAbout(p) /\ p.ops # <<>> /\ p.s \in Sc!Loops
      /\ Head(p.ops) = "start" /\ p.at = "subs" /\ p.s = scCurrent /\ ScShown
      /\ \A l \in Sc!Loops : ScGoes(l) => scLoop[l].task \notin p.cfg
  <2>1. /\ p \in ScRequests /\ ScAbout(p) /\ p.ops # <<>> /\ p.s \in Sc!Loops
        /\ Head(p.ops) = "start" /\ p.at = "subs" /\ ScPlace(p)
    BY <1>1, ScAt
  <2> QED BY <2>1 DEF ScPlace, ScIs
<1>3. ASSUME NEW t \in p.cfg, Sc!Launch(p.s, t),
             scReq' = [scReq EXCEPT ![r].cfg = @ \ {t}]
      PROVE  ScInv'
  <2> DEFINE cfg == p.cfg \ {t}
  <2>1. t \in SubTasks /\ cfg \in SUBSET SubTasks BY <1>2 DEF ScRequests
  <2>2. /\ scLoop' \in [Sc!Loops -> ScRows]
        /\ scSubs' \in [Sc!Loops -> [SubTasks -> Sc!Loops \cup {0}]]
        /\ ScFlags' /\ ScNames' /\ ScOwned' /\ ScShown'
        /\ \A l \in Sc!Loops : ScGoes(l)' =>
              \/ ScGoes(l) /\ scLoop'[l].task = scLoop[l].task
              \/ scLoop'[l].task = t
    BY <1>1, <1>2, <1>3, <2>1, ScLaunch
  <2>3. PICK q \in ScRequests :
           /\ q = [p EXCEPT !.cfg = cfg] /\ q.at = p.at
           /\ q.ops = p.ops /\ q.s = p.s /\ q.t = p.t /\ q.cfg = cfg
    <3> DEFINE q == [p EXCEPT !.cfg = cfg]
    <3>1. q \in ScRequests BY <1>2, <2>1 DEF ScRequests
    <3>2. /\ q.at = p.at /\ q.ops = p.ops /\ q.s = p.s /\ q.t = p.t
          /\ q.cfg = cfg
      BY <1>2 DEF ScRequests
    <3> QED BY <3>1, <3>2
  <2>4. scReq' = [scReq EXCEPT ![r] = q]
    BY <1>3, <2>3 DEF ScInv, ScTypes
  <2>5. \A l \in Sc!Loops : ScGoes(l)' => scLoop'[l].task \notin q.cfg
    BY <1>2, <2>2, <2>3
  <2> HIDE DEF p, cfg
  <2>6. ScAbout(q) BY <1>2, <2>3 DEF ScAbout
  <2>7. ScPlace(q)' BY <1>1, <1>2, <2>2, <2>3, <2>5 DEF ScPlace, ScIs
  <2> QED BY <1>1, <2>2, <2>4, <2>6, <2>7, ScPut DEF ScInv, ScTypes
<1>4. CASE Sc!Return(r) /\ UNCHANGED <<scLoop, scSubs>>
  BY <1>1, <1>2, <1>4, ScBack
<1> QED
  <2>1. \/ \E t \in p.cfg : /\ Sc!Launch(p.s, t)
                            /\ scReq' = [scReq EXCEPT ![r].cfg = @ \ {t}]
        \/ Sc!Return(r) /\ UNCHANGED <<scLoop, scSubs>>
    BY DEF Sc!StartSubs
  <2> QED BY <2>1, <1>3, <1>4

-----------------------------------------------------------------------------
\* restart_scheduler_sub_task.
LEMMA ScRestartBegin ==
    ASSUME ScInv, ScAlone, NEW r \in Handlers, Sc!RestartBegin(r)
    PROVE  ScInv'
<1> DEFINE p == scReq[r]
           kept == scSubs[scCurrent][p.t]
<1>1. /\ Sc!At(r, "restart", "next")
      /\ UNCHANGED <<scEnabled, scOn, scCurrent, scSubs, scChanges>>
  BY DEF Sc!RestartBegin
<1>2. /\ p \in ScRequests /\ ScAbout(p) /\ p.ops # <<>> /\ p.t \in SubTasks
      /\ Head(p.ops) = "restart" /\ p.seen = {} /\ (ScShown \/ ScQuiet)
  BY <1>1, ScAt DEF ScPlace, ScAbout
<1>3. CASE ~Sc!IsRunning(scCurrent)
  <2>1. Sc!Return(r) /\ UNCHANGED scLoop BY <1>3 DEF Sc!RestartBegin
  <2> QED BY <1>1, <1>2, <2>1, ScBack
<1>4. CASE Sc!IsRunning(scCurrent)
  <2> DEFINE at == IF kept = Sc!None THEN "read"
                   ELSE IF Sc!IsRunning(kept) THEN "join" ELSE "del"
  <2>1. /\ scReq' = [scReq EXCEPT ![r].s = scCurrent, ![r].sub = kept,
                                  ![r].at = at]
        /\ IF Sc!IsRunning(kept) THEN Sc!Signal(kept) ELSE UNCHANGED scLoop
    BY <1>4 DEF Sc!RestartBegin
  <2>2. scCurrent \in Sc!Loops /\ ScGoes(scCurrent)
    BY <1>4, ScRunning DEF ScInv, ScTypes, ScSafe
  <2>3. kept \in Sc!Loops \cup {0} BY <1>2, <2>2 DEF ScInv, ScTypes
  <2>4. Sc!IsRunning(kept) <=> kept \in Sc!Loops /\ ScGoes(kept)
    BY <2>3, ScRunning DEF ScInv, ScSafe
  <2>5. kept \in Sc!Loops => kept # scCurrent
    BY <1>2, <2>2, ServicesAssumption DEF ScInv, ScSafe, ScNames, Sc!Loops
  <2>6. at \in {"read", "join", "del"} OBVIOUS
  <2>7. PICK q \in ScRequests :
           /\ q = [p EXCEPT !.s = scCurrent, !.sub = kept, !.at = at]
           /\ q.ops = p.ops /\ q.t = p.t /\ q.s = scCurrent /\ q.at = at
           /\ q.seen = p.seen
    <3> HIDE DEF at, kept
    <3> DEFINE q == [p EXCEPT !.s = scCurrent, !.sub = kept, !.at = at]
    <3>1. q \in ScRequests BY <1>2, <2>2, <2>3, <2>6 DEF ScRequests, ScPlaces
    <3>2. /\ q.ops = p.ops /\ q.t = p.t /\ q.s = scCurrent /\ q.at = at
          /\ q.seen = p.seen
      BY <1>2 DEF ScRequests
    <3> QED BY <3>1, <3>2
  <2>8. scReq' = [scReq EXCEPT ![r] = q]
    BY <2>1, <2>7 DEF ScInv, ScTypes
  <2>9. /\ scLoop' \in [Sc!Loops -> ScRows] /\ ScFlags' /\ ScNames' /\ ScOwned'
        /\ \A l \in Sc!Loops : /\ ScGoes(l)' <=> ScGoes(l) /\ l # kept
                               /\ scLoop'[l].task = scLoop[l].task
    <3>1. CASE Sc!IsRunning(kept) BY <1>1, <2>1, <2>4, <3>1, ScSignal
    <3>2. CASE ~Sc!IsRunning(kept)
      <4>1. UNCHANGED <<scLoop, scSubs, scCurrent>> BY <1>1, <2>1, <3>2
      <4>2. /\ scLoop' \in [Sc!Loops -> ScRows]
            /\ ScFlags' /\ ScNames' /\ ScOwned'
        BY <4>1 DEF ScInv, ScTypes, ScSafe, ScFlags, ScNames, ScOwned, ScGoes
      <4>3. \A l \in Sc!Loops : /\ ScGoes(l)' <=> ScGoes(l) /\ l # kept
                                /\ scLoop'[l].task = scLoop[l].task
        BY <2>4, <3>2, <4>1 DEF ScGoes
      <4> QED BY <4>2, <4>3
    <3> QED BY <3>1, <3>2
  <2>10. ScShown' BY <1>1, <2>2, <2>5, <2>9 DEF ScShown
  <2>11. \A l \in Sc!Loops : ScGoes(l)' => scLoop'[l].task # q.t
    BY <1>2, <2>7, <2>9, ServicesAssumption DEF ScInv, ScSafe, ScOwned
  <2> HIDE DEF p, kept, at
  <2>12. ScAbout(q) BY <1>2, <2>2, <2>6, <2>7 DEF ScAbout
  <2>13. ScPlace(q)'
    BY <1>1, <1>2, <2>6, <2>7, <2>10, <2>11 DEF ScPlace, ScIs
  <2> QED BY <1>1, <2>8, <2>9, <2>12, <2>13, ScPut DEF ScInv, ScTypes
<1> QED BY <1>3, <1>4

LEMMA ScRestartRest ==
    ASSUME ScInv, ScAlone, NEW r \in Handlers,
           \/ Sc!RestartJoin(r) \/ Sc!RestartDel(r)
           \/ Sc!RestartRead(r) \/ Sc!RestartLaunch(r)
    PROVE  ScInv'
<1> DEFINE p == scReq[r]
<1>1. PICK at \in {"join", "del", "read", "launch"} : Sc!At(r, "restart", at)
  BY DEF Sc!RestartJoin, Sc!RestartDel, Sc!RestartRead, Sc!RestartLaunch
<1>2. /\ p \in ScRequests /\ ScAbout(p) /\ p.ops # <<>> /\ p.t \in SubTasks
      /\ Head(p.ops) = "restart" /\ p.s = scCurrent /\ ScShown
      /\ p.s \in Sc!Loops
      /\ \A l \in Sc!Loops : ScGoes(l) => scLoop[l].task # p.t
  <2>1. /\ p \in ScRequests /\ ScAbout(p) /\ p.ops # <<>> /\ p.t \in SubTasks
        /\ Head(p.ops) = "restart" /\ p.at = at /\ ScPlace(p)
    BY <1>1, ScAt
  <2>2. ScIs(p, "restart", {"join", "del", "read", "launch"})
    BY <2>1 DEF ScIs
  <2> QED BY <2>1, <2>2 DEF ScPlace, ScShown
<1>3. UNCHANGED <<scEnabled, scOn, scCurrent, scChanges>>
  BY DEF Sc!RestartJoin, Sc!RestartDel, Sc!RestartRead, Sc!RestartLaunch
<1>4. ASSUME NEW to \in {"del", "read", "launch"}, Sc!Goto(r, to),
             UNCHANGED <<scLoop, scSubs>>
      PROVE  ScInv'
  <2>1. to \in ScPlaces BY <1>4 DEF ScPlaces
  <2>2. ScPlace([p EXCEPT !.at = to])
    BY <1>2, <1>4, <2>1, ScWith DEF ScPlace, ScIs
  <2> QED BY <1>2, <1>3, <1>4, <2>1, <2>2, ScGoto
<1>5. ASSUME Sc!Return(r) \/ Sc!Raise(r), UNCHANGED <<scLoop, scSubs>>
      PROVE  ScInv'
  BY <1>2, <1>3, <1>5, ScBack
<1>6. CASE Sc!RestartJoin(r) BY <1>4, <1>6 DEF Sc!RestartJoin
<1>7. CASE Sc!RestartRead(r) BY <1>4, <1>5, <1>7 DEF Sc!RestartRead
<1>8. CASE Sc!RestartDel(r)
  <2>1. CASE scSubs[p.s][p.t] = Sc!None
    BY <1>5, <1>8, <2>1 DEF Sc!RestartDel
  <2>2. CASE scSubs[p.s][p.t] # Sc!None
    <3>1. /\ scReq' = [scReq EXCEPT ![r].at = "read", ![r].sub = Sc!None]
          /\ scSubs' = [scSubs EXCEPT ![p.s][p.t] = Sc!None]
          /\ scLoop' = scLoop
      BY <1>8, <2>2 DEF Sc!RestartDel
    <3>2. PICK q \in ScRequests :
             /\ q = [p EXCEPT !.at = "read", !.sub = 0] /\ q.at = "read"
             /\ q.ops = p.ops /\ q.s = p.s /\ q.t = p.t
      <4> DEFINE q == [p EXCEPT !.at = "read", !.sub = 0]
      <4>1. q \in ScRequests BY <1>2 DEF ScRequests, ScPlaces
      <4>2. q.at = "read" /\ q.ops = p.ops /\ q.s = p.s /\ q.t = p.t
        BY <1>2 DEF ScRequests
      <4> QED BY <4>1, <4>2
    <3>3. scReq' = [scReq EXCEPT ![r] = q]
      BY <3>1, <3>2 DEF ScInv, ScTypes, Sc!None
    <3>4. scSubs' \in [Sc!Loops -> [SubTasks -> Sc!Loops \cup {0}]]
      BY <3>1 DEF ScInv, ScTypes, Sc!None
    <3>5. \A s \in Sc!Loops, u \in SubTasks :
             scSubs'[s][u] = IF s = p.s /\ u = p.t THEN 0 ELSE scSubs[s][u]
      BY <3>1, <1>2 DEF ScInv, ScTypes, Sc!None
    <3> HIDE DEF p
    <3>6. ScFlags' BY <3>1 DEF ScInv, ScSafe, ScFlags
    <3>7. ScNames' BY <1>3, <3>1, <3>5 DEF ScInv, ScSafe, ScNames
    <3>8. \A l \in Sc!Loops : ScGoes(l)' = ScGoes(l) BY <3>1 DEF ScGoes
    <3>9. ScOwned'
      BY <1>2, <1>3, <3>1, <3>5, <3>8, ServicesAssumption
         DEF ScInv, ScSafe, ScOwned
    <3>10. ScShown' BY <1>2, <1>3, <3>8 DEF ScShown
    <3>11. ScAbout(q) BY <1>2, <3>2 DEF ScAbout
    <3>12. ScPlace(q)'
      BY <1>2, <1>3, <3>1, <3>2, <3>8, <3>10 DEF ScPlace, ScIs
    <3> QED
      BY <1>3, <3>1, <3>3, <3>4, <3>6, <3>7, <3>9, <3>11, <3>12, ScPut
         DEF ScInv, ScTypes
  <2> QED BY <2>1, <2>2
<1>9. CASE Sc!RestartLaunch(r)
  <2>1. Sc!Launch(p.s, p.t) /\ Sc!Return(r) BY <1>9 DEF Sc!RestartLaunch
  <2>2. PICK ops \in ScOps : /\ ops # <<"restart">>
                             /\ scReq' = [scReq EXCEPT ![r] = ScRested(ops, "none")]
    BY <1>2, <2>1, ScReturn DEF ScInv
  <2>3. ScRested(ops, "none") \in ScRequests /\ ScAbout(ScRested(ops, "none"))
    BY <2>2, ScRest
  <2>4. /\ scLoop' \in [Sc!Loops -> ScRows]
        /\ scSubs' \in [Sc!Loops -> [SubTasks -> Sc!Loops \cup {0}]]
        /\ ScFlags' /\ ScNames' /\ ScOwned' /\ ScShown'
    BY <1>2, <1>3, <2>1, ScLaunch
  <2>5. ScPlace(ScRested(ops, "none"))' BY <2>4 DEF ScPlace, ScRested, ScIs
  <2> QED BY <1>3, <2>2, <2>3, <2>4, <2>5, ScPut DEF ScInv, ScTypes
<1> QED BY <1>6, <1>7, <1>8, <1>9

-----------------------------------------------------------------------------
LEMMA ScNext ==
    ASSUME ScInv, ScAlone, ScParameters, [Sc!Next]_(Sc!vars)
    PROVE  ScInv'
<1>1. ASSUME NEW l \in Sc!Loops, Sc!Tick(l) \/ Sc!Run(l) PROVE ScInv'
  BY <1>1, ScTick
<1>2. ASSUME NEW r \in Handlers, Sc!Ask(r) PROVE ScInv' BY <1>2, ScAsk
<1>3. ASSUME NEW r \in Handlers, Sc!Serve(r) PROVE ScInv'
  BY <1>3, ScStopBegin, ScStopSub, ScStopJoins, ScStartCheck, ScStartCreate,
     ScStartThread, ScStartRead, ScStartSubs, ScRestartBegin, ScRestartRest
     DEF Sc!Serve
<1>4. CASE UNCHANGED Sc!vars
  BY <1>4 DEF Sc!vars, ScInv, ScTypes, ScAbout, ScSafe, ScFlags, ScNames,
              ScOwned, ScPlace, ScIs, ScShown, ScQuiet, ScGoes
<1> QED BY <1>1, <1>2, <1>3, <1>4 DEF Sc!Next

LEMMA ScInvariant == ScAlone /\ Sc!Spec => []ScInv
<1>1. ScParameters BY ServicesAssumption DEF ScParameters
<1>2. ASSUME ScAlone, Sc!Init PROVE ScInv BY <1>1, <1>2, ScInit
<1>3. ASSUME ScAlone, ScInv, [Sc!Next]_(Sc!vars) PROVE ScInv'
  BY <1>1, <1>3, ScNext
<1>4. CASE ScAlone
  <2>1. Sc!Init => ScInv BY <1>2, <1>4
  <2>2. ScInv /\ [Sc!Next]_(Sc!vars) => ScInv' BY <1>3, <1>4
  <2> QED BY <2>1, <2>2, PTL DEF Sc!Spec
<1> QED BY <1>4

\* The loops of a task that go on are one.
LEMMA ScOne == ASSUME ScInv PROVE Sc!OneLoopPerTask
<1> SUFFICES ASSUME NEW t \in SubTasks \cup {"main"}
             PROVE  Sc!Cardinality(Sc!Live(t)) <= 1
  BY DEF Sc!OneLoopPerTask
<1>1. \A k, l \in Sc!Live(t) : k = l
  BY DEF ScInv, ScSafe, ScOwned, ScGoes, Sc!Live
<1>2. \/ Sc!Live(t) = {} \/ \E k : Sc!Live(t) = {k} BY <1>1
<1>3. Cardinality(Sc!Live(t)) <= 1
  <2>1. CASE Sc!Live(t) = {}
    <3>1. Cardinality({}) = 0 BY FS_EmptySet
    <3> QED BY <2>1, <3>1
  <2>2. ASSUME NEW k, Sc!Live(t) = {k} PROVE Cardinality(Sc!Live(t)) <= 1
    <3>1. Cardinality({k}) = 1 BY FS_Singleton
    <3> QED BY <2>2, <3>1
  <2> QED BY <1>2, <2>1, <2>2
<1>4. Sc!Cardinality(Sc!Live(t)) = Cardinality(Sc!Live(t))
  BY Zenon DEF Sc!Cardinality, Cardinality
<1> QED BY <1>3, <1>4

(* A single request at a time: no task has two loops that go on, so that it   *)
(* fires once per cron time, whatever the requests were and although a stop   *)
(* gives up waiting for a task that runs long.  (With two requests at once    *)
(* the main loop is started twice: scheduler.py 656 locks nothing.)           *)
THEOREM OneLoopPerTaskHolds == ScAlone /\ Sc!Spec => []Sc!OneLoopPerTask
BY ScInvariant, ScOne, PTL

-----------------------------------------------------------------------------
(* The services together *)

\* A step of the sum is a step of each part, or leaves it alone.
LEMMA SumParts ==
    ASSUME SumInit \/ [SumNext]_all
    PROVE  /\ SumInit => Init /\ Sc!Init /\ Mt!Init /\ Mg!Init /\ Gr!Init
           /\ [SumNext]_all =>
                /\ [Next]_vars /\ [Sc!Next]_(Sc!vars) /\ [Mt!Next]_(Mt!vars)
                /\ [Mg!Next]_(Mg!vars) /\ [Gr!Next]_(Gr!vars)
<1>1. SumInit => Init /\ Sc!Init /\ Mt!Init /\ Mg!Init /\ Gr!Init
  BY DEF SumInit
<1>2. /\ UNCHANGED ScVars => UNCHANGED Sc!vars
      /\ UNCHANGED MtVars => UNCHANGED Mt!vars
      /\ UNCHANGED MgVars => UNCHANGED Mg!vars
      /\ UNCHANGED GrVars => UNCHANGED Gr!vars
  BY DEF ScVars, MtVars, MgVars, GrVars, Sc!vars, Mt!vars, Mg!vars, Gr!vars
<1>3. SumNext \/ UNCHANGED all =>
        /\ Next \/ UNCHANGED vars
        /\ Sc!Next \/ UNCHANGED ScVars
        /\ Mt!Next \/ UNCHANGED MtVars
        /\ Mg!Next \/ UNCHANGED MgVars
        /\ Gr!Next \/ UNCHANGED GrVars
  BY Zenon DEF SumNext, all
<1>4. QED
  BY <1>1, <1>2, <1>3

LEMMA SumSpecs ==
    SumSpec => Spec /\ Sc!Spec /\ Mt!Spec /\ Mg!Spec /\ Gr!Spec
<1>1. SumInit => Init /\ Sc!Init /\ Mt!Init /\ Mg!Init /\ Gr!Init
  BY SumParts
<1>2. [SumNext]_all =>
        /\ [Next]_vars /\ [Sc!Next]_(Sc!vars) /\ [Mt!Next]_(Mt!vars)
        /\ [Mg!Next]_(Mg!vars) /\ [Gr!Next]_(Gr!vars)
  BY SumParts
<1> QED
  BY <1>1, <1>2, PTL
     DEF SumSpec, Spec, Sc!Spec, Mt!Spec, Mg!Spec, Gr!Spec

(* Every part keeps its types in the services as a whole.                   *)
THEOREM TypesHold == SumSpec => []TypesOK
<1>1. TypeOK /\ Sc!TypeOK /\ Mt!TypeOK /\ Mg!TypeOK /\ Gr!TypeOK => TypesOK
  BY DEF TypesOK
<1> QED
  BY <1>1, SumSpecs, TypeCorrect, SchedulerTypes, MatchCacheTypes,
     MigrationsTypes, SourceGroupsTypes, PTL

(* The rebuilt tables and the settings survive in the services as a whole,  *)
(* which is what the run checks.                                            *)
THEOREM RebuildsKeepDataHolds == SumSpec => []RebuildsKeepData
BY SumSpecs, UpgradesKeepData

(* No match that is found replaces a correction of the user, in the services *)
(* as a whole.                                                              *)
THEOREM PinsAreKeptHolds == SumSpec => PinsAreKept
BY SumSpecs, PinsAreNotReplacedHolds DEF PinsAreKept

(* With one settings request at a time no task has two loops that go on, in *)
(* the services as a whole.                                                 *)
THEOREM OneLoopTogether == ScAlone /\ SumSpec => []Sc!OneLoopPerTask
BY SumSpecs, OneLoopPerTaskHolds

===============================================================================
