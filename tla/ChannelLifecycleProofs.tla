------------------------ MODULE ChannelLifecycleProofs ------------------------
(***************************************************************************)
(* For all events and channel ids, with every failure at every step: an    *)
(* event has at most one row, only failures leave a channel without one,   *)
(* and the orphan cleanup deletes no tracked channel.                      *)
(*                                                                         *)
(* The inductive invariant IInv adds that no transaction is open outside   *)
(* the matching phase, that a channel is created only for an event without *)
(* a row, and that a row is marked only once its channel is gone or lost.  *)
(* There is one lemma for each action, and one step in it for each part of *)
(* IInv that the action can disturb; the others are done together.         *)
(*                                                                         *)
(* The other parts of a channel follow: keyword channels (KwInv), streams  *)
(* (StInv, with what a sort, a filter and a move leave of a list) and      *)
(* profiles, and at last the types of their sum.                           *)
(***************************************************************************)
EXTENDS ChannelParts, Sequences, FiniteSetTheorems, TLAPS

\* The number of remaining faults keeps its type.
LEMMA LeftType ==
    ASSUME TypeOK, NoFault \/ Fault
    PROVE  left' \in 0..MaxFaults
BY FaultAssumption DEF TypeOK, NoFault, Fault

\* At the beginning nothing exists.
LEMMA InitIInv == Init => IInv
<1> SUFFICES ASSUME Init PROVE IInv OBVIOUS
<1> USE DEF Init
<1>1. TypeOK
  <2>1. left \in 0..MaxFaults BY FaultAssumption
  <2>2. eventOf \in [Ids -> Events \cup {NoEvent}] OBVIOUS
  <2> QED BY <2>1, <2>2 DEF TypeOK, Pcs, Apcs
<1>2. OneRowPerEvent /\ OrphansAreUntracked
  BY DEF OneRowPerEvent, OrphansAreUntracked, Committed
<1>3. OnlyFailuresLeak /\ CommittedOutside /\ PostedHasNoRow
  BY DEF OnlyFailuresLeak, CommittedOutside, PostedHasNoRow
<1>4. MarkedAfterDelete /\ OrphansOnlyCollected /\ FreshIsLost
  BY DEF MarkedAfterDelete, OrphansOnlyCollected, FreshIsLost
<1> QED BY <1>1, <1>2, <1>3, <1>4 DEF IInv

\* A generation begins: only where it is and what it matched change.
LEMMA BeginKeeps ==
    ASSUME IInv, Begin
    PROVE  IInv'
<1> USE DEF IInv, Begin
<1>1. TypeOK' BY DEF TypeOK, Pcs, Apcs, remote, rows, caching, apiVars
<1>2. OnlyFailuresLeak' BY DEF OnlyFailuresLeak, remote, rows
<1>3. CommittedOutside' BY DEF CommittedOutside, rows
<1>4. PostedHasNoRow' BY DEF PostedHasNoRow, remote, rows
<1>5. MarkedAfterDelete' BY DEF MarkedAfterDelete, remote, apiVars
<1>6. OrphansOnlyCollected' BY DEF OrphansOnlyCollected
<1>7. (OneRowPerEvent /\ OrphansAreUntracked /\ FreshIsLost)'
  BY DEF OneRowPerEvent, OrphansAreUntracked, FreshIsLost, Committed, remote,
         rows
<1> QED BY <1>1, <1>2, <1>3, <1>4, <1>5, <1>6, <1>7

\* The generation's delete: the channel goes, or the failed call is remembered
\* in lost before its row is marked.
LEMMA GenDeleteKeeps ==
    ASSUME IInv, NEW at \in {"cleanup", "sweep"}, NEW E, GenDelete(at, E)
    PROVE  IInv'
<1> USE DEF IInv, GenDelete
<1>1. TypeOK'
  BY LeftType DEF TypeOK, Pcs, Apcs, rows, apiVars, DeleteFails, DeleteCall,
         Deleted
<1>2. OnlyFailuresLeak'
  BY DEF OnlyFailuresLeak, rows, DeleteFails, Deleted, DeleteCall
<1>3. CommittedOutside' BY DEF CommittedOutside, rows
<1>4. PostedHasNoRow' BY DEF PostedHasNoRow, rows
<1>5. MarkedAfterDelete'
  BY DEF MarkedAfterDelete, apiVars, DeleteFails, Deleted, DeleteCall
<1>6. OrphansOnlyCollected' BY DEF OrphansOnlyCollected
<1>7. FreshIsLost' BY DEF FreshIsLost, rows, DeleteFails, Deleted, DeleteCall
<1>8. (OneRowPerEvent /\ OrphansAreUntracked)'
  BY DEF OneRowPerEvent, OrphansAreUntracked, Committed, rows
<1> QED BY <1>1, <1>2, <1>3, <1>4, <1>5, <1>6, <1>7, <1>8

\* The mark that follows a delete: the channel of the row is gone or lost.
LEMMA GenMarkKeeps ==
    ASSUME IInv, GenMark
    PROVE  IInv'
<1> USE DEF IInv, GenMark
<1>1. TypeOK'
  BY DEF TypeOK, Pcs, Apcs, caching, apiVars, Settle, CommittedOutside
<1>2. OneRowPerEvent' BY DEF OneRowPerEvent, Committed, Settle, TypeOK
<1>3. OnlyFailuresLeak'
  BY DEF OnlyFailuresLeak, Settle, TypeOK, MarkedAfterDelete
<1>4. OrphansAreUntracked' BY DEF OrphansAreUntracked, Committed, Settle
<1>5. CommittedOutside' BY DEF CommittedOutside, Settle
<1>6. PostedHasNoRow' BY DEF PostedHasNoRow, Settle
<1>7. MarkedAfterDelete' BY DEF MarkedAfterDelete, apiVars, Settle
<1>8. OrphansOnlyCollected' BY DEF OrphansOnlyCollected
<1>9. FreshIsLost' BY DEF FreshIsLost, Settle
<1> QED BY <1>1, <1>2, <1>3, <1>4, <1>5, <1>6, <1>7, <1>8, <1>9

\* The cleanup ends with no transaction open.
LEMMA EndCleanupKeeps ==
    ASSUME IInv, EndCleanup
    PROVE  IInv'
<1> USE DEF IInv, EndCleanup
<1>1. TypeOK' BY LeftType DEF TypeOK, Pcs, Apcs, remote, rows, caching, apiVars
<1>2. OnlyFailuresLeak' BY DEF OnlyFailuresLeak, remote, rows
<1>3. CommittedOutside' BY DEF CommittedOutside, rows
<1>4. PostedHasNoRow' BY DEF PostedHasNoRow, remote, rows
<1>5. MarkedAfterDelete' BY DEF MarkedAfterDelete, remote, apiVars
<1>6. OrphansOnlyCollected' BY DEF OrphansOnlyCollected
<1>7. (OneRowPerEvent /\ OrphansAreUntracked /\ FreshIsLost)'
  BY DEF OneRowPerEvent, OrphansAreUntracked, FreshIsLost, Committed, remote,
         rows
<1> QED BY <1>1, <1>2, <1>3, <1>4, <1>5, <1>6, <1>7

\* Only a channel that Dispatcharr denies loses its row, to the transaction.
LEMMA VerifyKeeps ==
    ASSUME IInv, NEW e \in Events, Verify(e)
    PROVE  IInv'
<1> USE DEF IInv, Verify
<1>1. TypeOK'
  BY LeftType DEF TypeOK, Pcs, Apcs, rows, apiVars, Listing, Settle, RowsOf,
         Listed
<1>2. OneRowPerEvent'
  BY DEF OneRowPerEvent, Committed, rows, Listing, Settle, RowsOf, Listed,
         TypeOK
<1>3. OnlyFailuresLeak' BY DEF OnlyFailuresLeak, rows, Settle
<1>4. OrphansAreUntracked'
  BY DEF OrphansAreUntracked, Committed, rows, Listing, Settle, RowsOf, Listed,
         TypeOK
<1>5. CommittedOutside' BY DEF CommittedOutside, rows, Settle
<1>6. PostedHasNoRow' BY DEF PostedHasNoRow, rows, Settle
<1>7. MarkedAfterDelete' BY DEF MarkedAfterDelete, apiVars, Settle
<1>8. OrphansOnlyCollected' BY DEF OrphansOnlyCollected
<1>9. FreshIsLost' BY DEF FreshIsLost, rows, Settle
<1> QED BY <1>1, <1>2, <1>3, <1>4, <1>5, <1>6, <1>7, <1>8, <1>9

\* A channel is created for an event without a row; nothing refers to
\* its id.
LEMMA PostKeeps ==
    ASSUME IInv, NEW e \in Events, Post(e)
    PROVE  IInv'
<1> USE DEF IInv, Post
<1>1. TypeOK' BY LeftType DEF TypeOK, Pcs, Apcs, rows, apiVars, RowsOf, Free
<1>2. OneRowPerEvent'
  BY DEF OneRowPerEvent, Committed, rows, RowsOf, Free, TypeOK
<1>3. OnlyFailuresLeak' BY DEF OnlyFailuresLeak, rows
<1>4. OrphansAreUntracked' BY DEF OrphansAreUntracked, Committed, rows
<1>5. CommittedOutside' BY DEF CommittedOutside, rows
<1>6. PostedHasNoRow' BY DEF PostedHasNoRow, rows, RowsOf, Free, TypeOK
<1>7. MarkedAfterDelete' BY DEF MarkedAfterDelete, apiVars, RowsOf, Free
<1>8. OrphansOnlyCollected' BY DEF OrphansOnlyCollected
<1>9. FreshIsLost' BY DEF FreshIsLost, rows, RowsOf, Free, TypeOK
<1> QED BY <1>1, <1>2, <1>3, <1>4, <1>5, <1>6, <1>7, <1>8, <1>9

\* A creation that is not heard of leaves at most a lost channel.
LEMMA PostFailsKeeps ==
    ASSUME IInv, NEW e \in Events, PostFails(e)
    PROVE  IInv'
<1> USE DEF IInv, PostFails
<1>1. TypeOK'
  BY LeftType DEF TypeOK, Pcs, Apcs, rows, caching, apiVars, RowsOf, Free
<1>2. OneRowPerEvent'
  BY DEF OneRowPerEvent, Committed, rows, RowsOf, Free, TypeOK
<1>3. OnlyFailuresLeak' BY DEF OnlyFailuresLeak, rows
<1>4. PostedHasNoRow' BY DEF PostedHasNoRow, rows
<1>5. MarkedAfterDelete' BY DEF MarkedAfterDelete, apiVars
<1>6. FreshIsLost' BY DEF FreshIsLost, rows
<1>7. (OrphansAreUntracked /\ CommittedOutside /\ OrphansOnlyCollected)'
  BY DEF OrphansAreUntracked, CommittedOutside, OrphansOnlyCollected,
         Committed, rows
<1> QED BY <1>1, <1>2, <1>3, <1>4, <1>5, <1>6, <1>7

\* The commit makes the row of the new channel the only one of its event.
LEMMA InsertKeeps ==
    ASSUME IInv, Insert
    PROVE  IInv'
<1> USE DEF IInv, Insert
<1>1. TypeOK'
  BY DEF TypeOK, Pcs, Apcs, remote, caching, apiVars, Commit, PostedHasNoRow
<1>2. OneRowPerEvent'
  BY DEF OneRowPerEvent, Committed, remote, Commit, TypeOK, PostedHasNoRow
<1>3. OnlyFailuresLeak' BY DEF OnlyFailuresLeak, remote
<1>4. OrphansAreUntracked'
  BY DEF OrphansAreUntracked, Committed, Commit, TypeOK, OrphansOnlyCollected
<1>5. CommittedOutside' BY DEF CommittedOutside, Commit
<1>6. PostedHasNoRow' BY DEF PostedHasNoRow, remote, Commit
<1>7. MarkedAfterDelete' BY DEF MarkedAfterDelete, remote, apiVars
<1>8. OrphansOnlyCollected' BY DEF OrphansOnlyCollected
<1>9. FreshIsLost' BY DEF FreshIsLost, remote, Commit
<1> QED BY <1>1, <1>2, <1>3, <1>4, <1>5, <1>6, <1>7, <1>8, <1>9

\* The row that could not be written may stay pending; its channel is deleted
\* or lost.
LEMMA InsertFailsKeeps ==
    ASSUME IInv, InsertFails
    PROVE  IInv'
<1> USE DEF IInv, InsertFails
<1>1. TypeOK'
  BY LeftType DEF TypeOK, Pcs, Apcs, rows, apiVars, DeleteFails, Settle,
         Deleted, PostedHasNoRow
<1>2. OneRowPerEvent'
  BY DEF OneRowPerEvent, Committed, rows, Settle, TypeOK, PostedHasNoRow
<1>3. OnlyFailuresLeak'
  BY DEF OnlyFailuresLeak, rows, DeleteFails, Settle, Deleted
<1>4. OrphansAreUntracked' BY DEF OrphansAreUntracked, Committed, rows, Settle
<1>5. CommittedOutside' BY DEF CommittedOutside, rows, Settle
<1>6. PostedHasNoRow' BY DEF PostedHasNoRow, rows, Settle
<1>7. MarkedAfterDelete'
  BY DEF MarkedAfterDelete, apiVars, DeleteFails, Settle, Deleted
<1>8. OrphansOnlyCollected' BY DEF OrphansOnlyCollected
<1>9. FreshIsLost' BY DEF FreshIsLost, rows, DeleteFails, Settle, Deleted
<1> QED BY <1>1, <1>2, <1>3, <1>4, <1>5, <1>6, <1>7, <1>8, <1>9

\* The last commit, or its rollback.
LEMMA EndMatchKeeps ==
    ASSUME IInv, EndMatch
    PROVE  IInv'
<1> USE DEF IInv, EndMatch
<1>1. TypeOK'
  BY LeftType DEF TypeOK, Pcs, Apcs, caching, apiVars, Committed, Settle,
         Commit
<1>2. OneRowPerEvent' BY DEF OneRowPerEvent, Committed, Settle, Commit, TypeOK
<1>3. OnlyFailuresLeak'
  BY DEF OnlyFailuresLeak, Committed, Settle, TypeOK, FreshIsLost
<1>4. OrphansAreUntracked'
  BY DEF OrphansAreUntracked, Committed, Settle, Commit, TypeOK,
         OrphansOnlyCollected
<1>5. CommittedOutside' BY DEF CommittedOutside, Committed, Settle, Commit
<1>6. PostedHasNoRow' BY DEF PostedHasNoRow, Committed, Settle, Commit
<1>7. MarkedAfterDelete' BY DEF MarkedAfterDelete, apiVars, Committed, Settle
<1>8. OrphansOnlyCollected' BY DEF OrphansOnlyCollected, Committed
<1>9. FreshIsLost' BY DEF FreshIsLost, Committed, Settle, Commit
<1> QED BY <1>1, <1>2, <1>3, <1>4, <1>5, <1>6, <1>7, <1>8, <1>9

\* What the orphan cleanup collects has no row, as no transaction is open.
LEMMA ListOrphansKeeps ==
    ASSUME IInv, ListOrphans
    PROVE  IInv'
<1> USE DEF IInv, ListOrphans
<1>1. TypeOK'
  BY LeftType DEF TypeOK, Pcs, Apcs, remote, rows, apiVars, Listing, Listed
<1>2. OnlyFailuresLeak' BY DEF OnlyFailuresLeak, remote, rows
<1>3. OrphansAreUntracked'
  BY DEF OrphansAreUntracked, Committed, rows, TypeOK, CommittedOutside
<1>4. CommittedOutside' BY DEF CommittedOutside, rows
<1>5. PostedHasNoRow' BY DEF PostedHasNoRow, remote, rows
<1>6. MarkedAfterDelete' BY DEF MarkedAfterDelete, remote, apiVars
<1>7. OrphansOnlyCollected' BY DEF OrphansOnlyCollected
<1>8. (OneRowPerEvent /\ FreshIsLost)'
  BY DEF OneRowPerEvent, FreshIsLost, Committed, remote, rows
<1> QED BY <1>1, <1>2, <1>3, <1>4, <1>5, <1>6, <1>7, <1>8

\* An orphan goes, or stays and is lost.
LEMMA CollectKeeps ==
    ASSUME IInv, Collect
    PROVE  IInv'
<1> USE DEF IInv, Collect
<1>1. TypeOK'
  BY LeftType DEF TypeOK, rows, apiVars, DeleteFails, Settle, Deleted,
         DeleteCall
<1>2. OneRowPerEvent' BY DEF OneRowPerEvent, Committed, rows, Settle, TypeOK
<1>3. OnlyFailuresLeak'
  BY DEF OnlyFailuresLeak, rows, DeleteFails, Settle, Deleted, DeleteCall
<1>4. OrphansAreUntracked' BY DEF OrphansAreUntracked, Committed, rows, Settle
<1>5. CommittedOutside' BY DEF CommittedOutside, rows, Settle
<1>6. PostedHasNoRow' BY DEF PostedHasNoRow, rows, Settle
<1>7. MarkedAfterDelete'
  BY DEF MarkedAfterDelete, apiVars, DeleteFails, Settle, Deleted, DeleteCall
<1>8. OrphansOnlyCollected' BY DEF OrphansOnlyCollected
<1>9. FreshIsLost'
  BY DEF FreshIsLost, rows, DeleteFails, Settle, Deleted, DeleteCall
<1> QED BY <1>1, <1>2, <1>3, <1>4, <1>5, <1>6, <1>7, <1>8, <1>9

\* The orphan cleanup ends.
LEMMA EndCollectKeeps ==
    ASSUME IInv, EndCollect
    PROVE  IInv'
<1> USE DEF IInv, EndCollect
<1>1. TypeOK' BY DEF TypeOK, Pcs, Apcs, remote, rows, caching, apiVars
<1>2. OnlyFailuresLeak' BY DEF OnlyFailuresLeak, remote, rows
<1>3. CommittedOutside' BY DEF CommittedOutside, rows
<1>4. PostedHasNoRow' BY DEF PostedHasNoRow, remote, rows
<1>5. MarkedAfterDelete' BY DEF MarkedAfterDelete, remote, apiVars
<1>6. OrphansOnlyCollected' BY DEF OrphansOnlyCollected
<1>7. (OneRowPerEvent /\ OrphansAreUntracked /\ FreshIsLost)'
  BY DEF OneRowPerEvent, OrphansAreUntracked, FreshIsLost, Committed, remote,
         rows
<1> QED BY <1>1, <1>2, <1>3, <1>4, <1>5, <1>6, <1>7

\* The sweep ends.
LEMMA EndSweepKeeps ==
    ASSUME IInv, EndSweep
    PROVE  IInv'
<1> USE DEF IInv, EndSweep
<1>1. TypeOK' BY DEF TypeOK, Pcs, Apcs, remote, rows, caching, apiVars
<1>2. OnlyFailuresLeak' BY DEF OnlyFailuresLeak, remote, rows
<1>3. CommittedOutside' BY DEF CommittedOutside, rows
<1>4. PostedHasNoRow' BY DEF PostedHasNoRow, remote, rows
<1>5. MarkedAfterDelete' BY DEF MarkedAfterDelete, remote, apiVars
<1>6. OrphansOnlyCollected' BY DEF OrphansOnlyCollected
<1>7. (OneRowPerEvent /\ OrphansAreUntracked /\ FreshIsLost)'
  BY DEF OneRowPerEvent, OrphansAreUntracked, FreshIsLost, Committed, remote,
         rows
<1> QED BY <1>1, <1>2, <1>3, <1>4, <1>5, <1>6, <1>7

\* The reconciler changes only the cache.
LEMMA ReconcileKeeps ==
    ASSUME IInv, Reconcile
    PROVE  IInv'
<1> USE DEF IInv, Reconcile
<1>1. TypeOK' BY LeftType DEF TypeOK, Pcs, Apcs, remote, rows, apiVars
<1>2. OnlyFailuresLeak' BY DEF OnlyFailuresLeak, remote, rows
<1>3. CommittedOutside' BY DEF CommittedOutside, rows
<1>4. PostedHasNoRow' BY DEF PostedHasNoRow, remote, rows
<1>5. MarkedAfterDelete' BY DEF MarkedAfterDelete, remote, apiVars
<1>6. OrphansOnlyCollected' BY DEF OrphansOnlyCollected
<1>7. (OneRowPerEvent /\ OrphansAreUntracked /\ FreshIsLost)'
  BY DEF OneRowPerEvent, OrphansAreUntracked, FreshIsLost, Committed, remote,
         rows
<1> QED BY <1>1, <1>2, <1>3, <1>4, <1>5, <1>6, <1>7

\* A generation that ends early has no transaction open.
LEMMA AbortKeeps ==
    ASSUME IInv, Abort
    PROVE  IInv'
<1> USE DEF IInv, Abort
<1>1. TypeOK' BY LeftType DEF TypeOK, Pcs, Apcs, remote, rows, caching, apiVars
<1>2. OnlyFailuresLeak' BY DEF OnlyFailuresLeak, remote, rows
<1>3. CommittedOutside' BY DEF CommittedOutside, rows
<1>4. PostedHasNoRow' BY DEF PostedHasNoRow, remote, rows
<1>5. MarkedAfterDelete' BY DEF MarkedAfterDelete, remote, apiVars
<1>6. OrphansOnlyCollected' BY DEF OrphansOnlyCollected
<1>7. (OneRowPerEvent /\ OrphansAreUntracked /\ FreshIsLost)'
  BY DEF OneRowPerEvent, OrphansAreUntracked, FreshIsLost, Committed, remote,
         rows
<1> QED BY <1>1, <1>2, <1>3, <1>4, <1>5, <1>6, <1>7

\* A reset lists the channels.
LEMMA BeginResetKeeps ==
    ASSUME IInv, BeginReset
    PROVE  IInv'
<1> USE DEF IInv, BeginReset
<1>1. TypeOK' BY LeftType DEF TypeOK, Pcs, Apcs, remote, rows, genVars, Listed
<1>2. MarkedAfterDelete' BY DEF MarkedAfterDelete, remote, genVars
<1>3. (OneRowPerEvent /\ OnlyFailuresLeak /\ OrphansAreUntracked /\
      CommittedOutside /\ PostedHasNoRow /\ OrphansOnlyCollected /\
      FreshIsLost)'
  BY DEF OneRowPerEvent, OnlyFailuresLeak, OrphansAreUntracked,
         CommittedOutside, PostedHasNoRow, OrphansOnlyCollected, FreshIsLost,
         Committed, remote, rows, genVars
<1> QED BY <1>1, <1>2, <1>3

\* A reset deletes one of them.
LEMMA ResetDeleteKeeps ==
    ASSUME IInv, ResetDelete
    PROVE  IInv'
<1> USE DEF IInv, ResetDelete
<1>1. TypeOK'
  BY LeftType DEF TypeOK, rows, genVars, DeleteFails, Settle, Deleted,
         DeleteCall
<1>2. OneRowPerEvent' BY DEF OneRowPerEvent, Committed, rows, Settle, TypeOK
<1>3. OnlyFailuresLeak'
  BY DEF OnlyFailuresLeak, rows, genVars, DeleteFails, Settle, Deleted,
         DeleteCall
<1>4. OrphansAreUntracked'
  BY DEF OrphansAreUntracked, Committed, rows, genVars, Settle
<1>5. CommittedOutside' BY DEF CommittedOutside, rows, genVars, Settle
<1>6. PostedHasNoRow' BY DEF PostedHasNoRow, rows, genVars, Settle, TypeOK
<1>7. MarkedAfterDelete'
  BY DEF MarkedAfterDelete, genVars, DeleteFails, Settle, Deleted, DeleteCall
<1>8. OrphansOnlyCollected' BY DEF OrphansOnlyCollected, genVars
<1>9. FreshIsLost'
  BY DEF FreshIsLost, rows, DeleteFails, Settle, Deleted, DeleteCall
<1> QED BY <1>1, <1>2, <1>3, <1>4, <1>5, <1>6, <1>7, <1>8, <1>9

\* A reset marks all rows; the channels it did not list are lost.
LEMMA ResetMarkKeeps ==
    ASSUME IInv, ResetMark
    PROVE  IInv'
<1> USE DEF IInv, ResetMark
<1>1. TypeOK' BY DEF TypeOK, Pcs, Apcs, caching, genVars, Settle, Unlocked
<1>2. OneRowPerEvent' BY DEF OneRowPerEvent, Committed, Settle, Unlocked
<1>3. OnlyFailuresLeak' BY DEF OnlyFailuresLeak, genVars, Settle
<1>4. OrphansAreUntracked'
  BY DEF OrphansAreUntracked, Committed, genVars, Settle
<1>5. CommittedOutside' BY DEF CommittedOutside, genVars, Settle
<1>6. PostedHasNoRow' BY DEF PostedHasNoRow, genVars, Settle
<1>7. MarkedAfterDelete' BY DEF MarkedAfterDelete, genVars, Settle
<1>8. OrphansOnlyCollected' BY DEF OrphansOnlyCollected, genVars
<1>9. FreshIsLost' BY DEF FreshIsLost, Settle
<1> QED BY <1>1, <1>2, <1>3, <1>4, <1>5, <1>6, <1>7, <1>8, <1>9

\* An API delete picks a committed row.
LEMMA BeginDeleteKeeps ==
    ASSUME IInv, BeginDelete
    PROVE  IInv'
<1> USE DEF IInv, BeginDelete
<1>1. TypeOK'
  BY LeftType DEF TypeOK, Pcs, Apcs, remote, rows, caching, genVars, Committed
<1>2. MarkedAfterDelete' BY DEF MarkedAfterDelete, remote, genVars, Committed
<1>3. (OneRowPerEvent /\ OnlyFailuresLeak /\ OrphansAreUntracked /\
      CommittedOutside /\ PostedHasNoRow /\ OrphansOnlyCollected /\
      FreshIsLost)'
  BY DEF OneRowPerEvent, OnlyFailuresLeak, OrphansAreUntracked,
         CommittedOutside, PostedHasNoRow, OrphansOnlyCollected, FreshIsLost,
         Committed, remote, rows, genVars
<1> QED BY <1>1, <1>2, <1>3

\* Its call to Dispatcharr.
LEMMA ApiDeleteKeeps ==
    ASSUME IInv, ApiDelete
    PROVE  IInv'
<1> USE DEF IInv, ApiDelete
<1>1. TypeOK'
  BY LeftType DEF TypeOK, Pcs, Apcs, rows, genVars, DeleteFails, DeleteCall,
         Deleted
<1>2. OnlyFailuresLeak'
  BY DEF OnlyFailuresLeak, rows, genVars, DeleteFails, Deleted, DeleteCall
<1>3. MarkedAfterDelete'
  BY DEF MarkedAfterDelete, genVars, DeleteFails, Deleted, DeleteCall
<1>4. FreshIsLost' BY DEF FreshIsLost, rows, DeleteFails, Deleted, DeleteCall
<1>5. (OneRowPerEvent /\ OrphansAreUntracked /\ CommittedOutside /\
      PostedHasNoRow /\ OrphansOnlyCollected)'
  BY DEF OneRowPerEvent, OrphansAreUntracked, CommittedOutside, PostedHasNoRow,
         OrphansOnlyCollected, Committed, rows, genVars
<1> QED BY <1>1, <1>2, <1>3, <1>4, <1>5

\* Its mark, which waits for the generation's transaction.
LEMMA ApiMarkKeeps ==
    ASSUME IInv, ApiMark
    PROVE  IInv'
<1> USE DEF IInv, ApiMark
<1>1. TypeOK' BY DEF TypeOK, Pcs, Apcs, caching, genVars, Settle, Unlocked
<1>2. OneRowPerEvent' BY DEF OneRowPerEvent, Committed, Settle, TypeOK
<1>3. OnlyFailuresLeak'
  BY DEF OnlyFailuresLeak, genVars, Settle, TypeOK, MarkedAfterDelete
<1>4. OrphansAreUntracked'
  BY DEF OrphansAreUntracked, Committed, genVars, Settle
<1>5. CommittedOutside' BY DEF CommittedOutside, genVars, Settle
<1>6. PostedHasNoRow' BY DEF PostedHasNoRow, genVars, Settle, TypeOK
<1>7. MarkedAfterDelete' BY DEF MarkedAfterDelete, genVars, Settle
<1>8. OrphansOnlyCollected' BY DEF OrphansOnlyCollected, genVars
<1>9. FreshIsLost' BY DEF FreshIsLost, Settle
<1> QED BY <1>1, <1>2, <1>3, <1>4, <1>5, <1>6, <1>7, <1>8, <1>9

\* What is wanted changes.
LEMMA ChangeKeeps ==
    ASSUME IInv, NEW e \in Events, Change(e)
    PROVE  IInv'
<1> USE DEF IInv, Change
<1>1. TypeOK' BY LeftType DEF TypeOK, remote, rows, caching, genVars, apiVars
<1>2. (OneRowPerEvent /\ OnlyFailuresLeak /\ OrphansAreUntracked /\
      CommittedOutside /\ PostedHasNoRow /\ MarkedAfterDelete /\
      OrphansOnlyCollected /\ FreshIsLost)'
  BY DEF OneRowPerEvent, OnlyFailuresLeak, OrphansAreUntracked,
         CommittedOutside, PostedHasNoRow, MarkedAfterDelete,
         OrphansOnlyCollected, FreshIsLost, Committed, remote, rows, genVars,
         apiVars
<1> QED BY <1>1, <1>2

\* A channel goes; its row stays.
LEMMA DeletedOutsideKeeps ==
    ASSUME IInv, NEW i \in Ids, DeletedOutside(i)
    PROVE  IInv'
<1> USE DEF IInv, DeletedOutside
<1>1. TypeOK' BY LeftType DEF TypeOK, rows, caching, genVars, apiVars, Settle
<1>2. OneRowPerEvent' BY DEF OneRowPerEvent, Committed, rows, Settle, TypeOK
<1>3. OnlyFailuresLeak' BY DEF OnlyFailuresLeak, rows, genVars, Settle
<1>4. OrphansAreUntracked'
  BY DEF OrphansAreUntracked, Committed, rows, genVars, Settle
<1>5. CommittedOutside' BY DEF CommittedOutside, rows, genVars, Settle
<1>6. PostedHasNoRow' BY DEF PostedHasNoRow, rows, genVars, Settle, TypeOK
<1>7. MarkedAfterDelete' BY DEF MarkedAfterDelete, genVars, apiVars, Settle
<1>8. OrphansOnlyCollected' BY DEF OrphansOnlyCollected, genVars
<1>9. FreshIsLost' BY DEF FreshIsLost, rows, Settle
<1> QED BY <1>1, <1>2, <1>3, <1>4, <1>5, <1>6, <1>7, <1>8, <1>9

\* A crash rolls back: the committed rows, which were consistent, are what is
\* left, and a channel without its row yet is lost.
LEMMA CrashKeeps ==
    ASSUME IInv, Crash
    PROVE  IInv'
<1> USE DEF IInv, Crash
<1>1. TypeOK' BY LeftType DEF TypeOK, Pcs, Apcs, Commit, Committed, Settle
<1>2. OneRowPerEvent' BY DEF OneRowPerEvent, Committed, Commit, Settle, TypeOK
<1>3. OnlyFailuresLeak'
  BY DEF OnlyFailuresLeak, Committed, Settle, TypeOK, FreshIsLost
<1>4. OrphansAreUntracked'
  BY DEF OrphansAreUntracked, Committed, Commit, Settle
<1>5. CommittedOutside' BY DEF CommittedOutside, Commit, Committed, Settle
<1>6. PostedHasNoRow' BY DEF PostedHasNoRow, Commit, Committed, Settle
<1>7. MarkedAfterDelete' BY DEF MarkedAfterDelete, Committed, Settle
<1>8. OrphansOnlyCollected' BY DEF OrphansOnlyCollected, Committed
<1>9. FreshIsLost' BY DEF FreshIsLost, Commit, Committed, Settle
<1> QED BY <1>1, <1>2, <1>3, <1>4, <1>5, <1>6, <1>7, <1>8, <1>9

-----------------------------------------------------------------------------
\* Every step of the system keeps the invariant.
LEMMA NextIInv == IInv /\ [Next]_vars => IInv'
<1> SUFFICES ASSUME IInv, [Next]_vars PROVE IInv' OBVIOUS
<1>1. CASE GenStep
  BY <1>1, BeginKeeps, GenDeleteKeeps, GenMarkKeeps, EndCleanupKeeps,
     VerifyKeeps, PostKeeps, PostFailsKeeps, InsertKeeps, InsertFailsKeeps,
     EndMatchKeeps, ListOrphansKeeps, CollectKeeps, EndCollectKeeps,
     EndSweepKeeps, ReconcileKeeps
     DEF GenStep
<1>2. CASE ApiStep \/ BeginReset \/ BeginDelete
  BY <1>2, BeginResetKeeps, ResetDeleteKeeps, ResetMarkKeeps, BeginDeleteKeeps,
     ApiDeleteKeeps, ApiMarkKeeps
     DEF ApiStep
<1>3. CASE Abort \/ Crash
  BY <1>3, AbortKeeps, CrashKeeps
<1>4. CASE \/ \E e \in Events : Change(e)
           \/ \E i \in Ids : DeletedOutside(i)
  BY <1>4, ChangeKeeps, DeletedOutsideKeeps
<1>5. CASE UNCHANGED vars
  BY <1>5
     DEF IInv, TypeOK, OneRowPerEvent, OnlyFailuresLeak, OrphansAreUntracked,
         CommittedOutside, PostedHasNoRow, MarkedAfterDelete,
         OrphansOnlyCollected, FreshIsLost, Committed, Pcs, Apcs, vars,
         remote, rows, caching, genVars, apiVars
<1> QED BY <1>1, <1>2, <1>3, <1>4, <1>5 DEF Next

\* The invariant holds in every reachable state.
THEOREM Invariance == Spec => []IInv
BY InitIInv, NextIInv, PTL DEF Spec

\* Every variable keeps its type; what is lost still exists in Dispatcharr, and
\* an uncommitted mark and a row exclude each other.
THEOREM TypeCorrect == Spec => []TypeOK
<1>1. IInv => TypeOK BY DEF IInv
<1> QED BY <1>1, Invariance, PTL

\* An event never has two rows, neither for the generation nor for another
\* connection, a rollback or a crash.
THEOREM OneRowPerEventHolds == Spec => []OneRowPerEvent
<1>1. IInv => OneRowPerEvent BY DEF IInv
<1> QED BY <1>1, Invariance, PTL

\* A channel without a row is the one whose row is about to be written, or one
\* that a failed call, a crash or a reset left behind.
THEOREM OnlyFailuresLeakHolds == Spec => []OnlyFailuresLeak
<1>1. IInv => OnlyFailuresLeak BY DEF IInv
<1> QED BY <1>1, Invariance, PTL

\* The orphan cleanup never holds a channel that a row tracks.
THEOREM OrphansAreUntrackedHolds == Spec => []OrphansAreUntracked
<1>1. IInv => OrphansAreUntracked BY DEF IInv
<1> QED BY <1>1, Invariance, PTL

-----------------------------------------------------------------------------
(* KeywordEnforcement *)

\* The numbers of a list of numbers differ, on the channels that exist.
Apart(n) == \A c, d \in kwChans : c # d => n[c] # n[d]
KwRows == [Kw!Channels -> [Labelled -> Nat]]
\* A channel that does not exist has no rows.
Known(r) == \A c \in Kw!Channels, s \in Labelled :
                c \notin kwChans => r[c][s] = 0

KwTypes ==
    /\ kwLabel \in [Labelled -> Kw!Labels] /\ kwChans \subseteq Kw!Channels
    /\ kwRows \in KwRows /\ kwSaved.rows \in KwRows
    /\ Known(kwRows) /\ Known(kwSaved.rows)
    /\ kwPlays \in [Kw!Channels -> SUBSET Labelled]
    /\ kwNum \in [Kw!Channels -> Nat] /\ kwSaved.num \in [Kw!Channels -> Nat]
    /\ kwShown \in [Kw!Channels -> Nat] /\ kwPairs \in [Kw!Channels -> Nat]
    /\ kwPc \in {"idle", "match", "keywords", "order"}

\* The numbers differ, also those that a rollback brings back; and before the
\* one swap of a pass the numbers are still those that were read.
KwApart ==
    /\ kwCrossed \in BOOLEAN
    /\ ~kwCrossed => Apart(kwNum) /\ Apart(kwSaved.num)
    /\ kwPc = "order" /\ ~kwCrossed =>
         /\ \A j, k \in kwTodo : j = k
         /\ \A k \in kwTodo : /\ k \in Keywords \cap kwChans
                              /\ Main \in kwChans /\ kwNum = kwPairs

KwInv == KwTypes /\ KwApart

LEMMA KwInit == Kw!Init => KwInv
<1> SUFFICES ASSUME Kw!Init PROVE KwInv
  OBVIOUS
<1>1. KwTypes
  BY DEF Kw!Init, Kw!NoRows, Kw!NoNums, KwTypes, KwRows, Known
<1>2. KwApart
  BY DEF Kw!Init, KwApart, Apart
<1>3. QED
  BY <1>1, <1>2 DEF KwInv

LEMMA KwMain == Main \in Kw!Channels /\ Keywords \subseteq Kw!Channels
BY DEF Kw!Channels

\* A new channel gets a number that no other channel has.
LEMMA KwMatch ==
    ASSUME KwInv, NEW s \in Labelled, Kw!Match(s) PROVE KwInv'
<1> DEFINE c == kwLabel[s]
           unused == Numbers \ {kwNum[d] : d \in kwChans}
           free == CHOOSE n \in unused : TRUE
<1>1. /\ UNCHANGED <<kwLabel, kwPc, kwPairs, kwChanges, kwCrossed>>
      /\ kwPc = "match"
  BY DEF Kw!Match
<1>2. KwTypes /\ KwApart
  BY DEF KwInv
<1>3. CASE UNCHANGED <<kwChans, kwRows, kwPlays, kwNum, kwShown, kwSaved>>
  <2>1. KwTypes'
    BY <1>1, <1>2, <1>3 DEF KwTypes, Known
  <2>2. KwApart'
    BY <1>1, <1>2, <1>3 DEF KwApart, Apart
  <2>3. QED
    BY <2>1, <2>2 DEF KwInv
<1>4. CASE /\ c # Ignored /\ c \notin kwChans /\ unused # {}
           /\ kwChans' = kwChans \cup {c}
           /\ kwRows' = [kwRows EXCEPT ![c][s] = 1]
           /\ kwPlays' = [kwPlays EXCEPT ![c] = {s}]
           /\ kwNum' = [kwNum EXCEPT ![c] = free]
           /\ kwShown' = [kwShown EXCEPT ![c] = free]
           /\ kwSaved' = [rows |-> kwRows', num |-> kwNum']
  <2>1. free \in unused /\ free \in Nat
    BY <1>4, KeywordsAssumption
  <2>2. c \in Kw!Channels
    BY <1>2, <1>4 DEF KwTypes, Kw!Labels
  <2> HIDE DEF c, free
  <2>3. KwTypes'
    <3>1. kwRows' \in KwRows
      BY <1>2, <1>4, <2>2 DEF KwTypes, KwRows
    <3>2. Known(kwRows)'
      BY <1>2, <1>4, <2>2 DEF KwTypes, KwRows, Known
    <3>3. /\ kwNum' \in [Kw!Channels -> Nat]
          /\ kwShown' \in [Kw!Channels -> Nat]
          /\ kwPlays' \in [Kw!Channels -> SUBSET Labelled]
          /\ kwChans' \subseteq Kw!Channels
      BY <1>2, <1>4, <2>1, <2>2 DEF KwTypes
    <3>4. kwSaved'.rows = kwRows' /\ kwSaved'.num = kwNum'
      BY <1>4
    <3>5. Known(kwSaved.rows)'
      BY <3>2, <3>4 DEF Known
    <3>6. QED
      BY <1>1, <1>2, <3>1, <3>2, <3>3, <3>4, <3>5 DEF KwTypes
  <2>4. ~kwCrossed => Apart(kwNum)'
    BY <1>2, <1>4, <2>1, <2>2 DEF KwApart, Apart, KwTypes
  <2>5. kwSaved'.num = kwNum'
    BY <1>4
  <2>6. KwApart'
    BY <1>1, <1>2, <2>4, <2>5 DEF KwApart, Apart
  <2>7. QED
    BY <2>3, <2>6 DEF KwInv
<1>5. CASE \E ok \in Kw!Outcomes :
             /\ kwRows' = IF kwRows[c][s] = 0 /\ ok
                          THEN [kwRows EXCEPT ![c][s] = 1] ELSE kwRows
             /\ kwPlays' = IF ok
                           THEN [kwPlays EXCEPT ![c] = kwPlays[c] \cup {s}]
                           ELSE kwPlays
             /\ kwShown' = IF ok THEN [kwShown EXCEPT ![c] = kwNum[c]]
                           ELSE kwShown
             /\ c \in kwChans /\ UNCHANGED <<kwChans, kwNum, kwSaved>>
  <2>1. c \in Kw!Channels /\ c \in kwChans
    BY <1>2, <1>5 DEF KwTypes
  <2>2. \/ kwRows' = kwRows
        \/ kwRows' = [kwRows EXCEPT ![c][s] = 1]
    BY <1>5
  <2>3. \/ kwPlays' = kwPlays /\ kwShown' = kwShown
        \/ /\ kwPlays' = [kwPlays EXCEPT ![c] = kwPlays[c] \cup {s}]
           /\ kwShown' = [kwShown EXCEPT ![c] = kwNum[c]]
    BY <1>5
  <2>4. UNCHANGED <<kwChans, kwNum, kwSaved>>
    BY <1>5
  <2> HIDE DEF c
  <2>5. kwRows' \in KwRows /\ Known(kwRows)'
    <3>1. CASE kwRows' = kwRows
      BY <1>2, <2>4, <3>1 DEF KwTypes, Known
    <3>2. CASE kwRows' = [kwRows EXCEPT ![c][s] = 1]
      <4>1. kwRows' \in KwRows
        BY <1>2, <2>1, <3>2 DEF KwTypes, KwRows
      <4>2. ASSUME NEW d \in Kw!Channels, d # c
            PROVE  kwRows'[d] = kwRows[d]
        BY <1>2, <2>1, <3>2, <4>2 DEF KwTypes, KwRows
      <4>3. Known(kwRows)'
        BY <1>2, <2>1, <2>4, <4>2 DEF KwTypes, Known
      <4>4. QED
        BY <4>1, <4>3
    <3>3. QED
      BY <2>2, <3>1, <3>2
  <2>6. /\ kwPlays' \in [Kw!Channels -> SUBSET Labelled]
        /\ kwShown' \in [Kw!Channels -> Nat]
    BY <1>2, <2>1, <2>3 DEF KwTypes
  <2>7. KwTypes'
    BY <1>1, <1>2, <2>4, <2>5, <2>6 DEF KwTypes, Known
  <2>8. KwApart'
    BY <1>1, <1>2, <2>4 DEF KwApart, Apart
  <2>9. QED
    BY <2>7, <2>8 DEF KwInv
<1>6. QED
  BY <1>3, <1>4, <1>5 DEF Kw!Match

\* What is stored at the end of a phase is what is there.
LEMMA KwCommit ==
    ASSUME KwInv, kwSaved' = [rows |-> kwRows, num |-> kwNum],
           UNCHANGED <<kwLabel, kwChans, kwRows, kwPlays, kwNum, kwShown>>,
           kwPc' \in {"idle", "match", "keywords", "order"},
           kwPairs' \in [Kw!Channels -> Nat],
           kwCrossed' \in BOOLEAN, kwCrossed => kwCrossed',
           kwPc' = "order" /\ ~kwCrossed' =>
             /\ \A j, k \in kwTodo' : j = k
             /\ \A k \in kwTodo' : /\ k \in Keywords \cap kwChans
                                   /\ Main \in kwChans /\ kwNum = kwPairs'
    PROVE  KwInv'
<1>1. kwSaved'.rows = kwRows /\ kwSaved'.num = kwNum
  OBVIOUS
<1>2. KwTypes'
  BY <1>1 DEF KwInv, KwTypes, Known
<1>3. KwApart'
  BY <1>1 DEF KwInv, KwApart, Apart
<1>4. QED
  BY <1>2, <1>3 DEF KwInv

LEMMA KwEndMatch == ASSUME KwInv, Kw!EndMatch PROVE KwInv'
<1>1. /\ kwPc' = "keywords" /\ kwSaved' = [rows |-> kwRows, num |-> kwNum]
      /\ UNCHANGED <<kwLabel, kwChans, kwRows, kwPlays, kwNum, kwShown>>
      /\ UNCHANGED <<kwPairs, kwCrossed>>
  BY DEF Kw!EndMatch
<1>2. kwPairs' \in [Kw!Channels -> Nat] /\ kwCrossed' \in BOOLEAN
  BY <1>1 DEF KwInv, KwTypes, KwApart
<1>3. QED
  BY <1>1, <1>2, KwCommit

\* The SELECT of the swaps: crossed tells when there is more than one.
LEMMA KwEndEnforce == ASSUME KwInv, Kw!EndEnforce PROVE KwInv'
<1>1. /\ kwPc' = "order" /\ kwSaved' = [rows |-> kwRows, num |-> kwNum]
      /\ UNCHANGED <<kwLabel, kwChans, kwRows, kwPlays, kwNum, kwShown>>
      /\ kwTodo' = {k \in Keywords \cap kwChans :
                       Main \in kwChans /\ kwNum[k] < kwNum[Main]}
      /\ kwPairs' = kwNum
      /\ kwCrossed' = (kwCrossed \/ \E j, k \in kwTodo' : j # k)
  BY DEF Kw!EndEnforce
<1>2. kwPairs' \in [Kw!Channels -> Nat]
  BY <1>1 DEF KwInv, KwTypes
<1>3. kwCrossed' \in BOOLEAN /\ (kwCrossed => kwCrossed')
  BY <1>1 DEF KwInv, KwApart
<1>4. kwPc' = "order" /\ ~kwCrossed' =>
        /\ \A j, k \in kwTodo' : j = k
        /\ \A k \in kwTodo' : /\ k \in Keywords \cap kwChans
                              /\ Main \in kwChans /\ kwNum = kwPairs'
  BY <1>1
<1>5. QED
  BY <1>1, <1>2, <1>3, <1>4, KwCommit

LEMMA KwEndRun == ASSUME KwInv, Kw!EndRun PROVE KwInv'
<1>1. /\ kwPc' = "idle" /\ kwSaved' = [rows |-> kwRows, num |-> kwNum]
      /\ UNCHANGED <<kwLabel, kwChans, kwRows, kwPlays, kwNum, kwShown>>
      /\ kwPairs' = Kw!NoNums /\ UNCHANGED kwCrossed
  BY DEF Kw!EndRun
<1>2. kwPairs' \in [Kw!Channels -> Nat] /\ kwCrossed' \in BOOLEAN
  BY <1>1 DEF KwInv, KwApart, Kw!NoNums
<1>3. QED
  BY <1>1, <1>2, KwCommit

\* Rows go to channels that exist.
LEMMA KwEnforce ==
    ASSUME KwInv, NEW c \in Kw!Channels, Kw!Enforce(c) PROVE KwInv'
<1> DEFINE strays == {s \in Labelled :
                         kwRows[c][s] > 0 /\ Kw!Target(c, s) # c}
           moved(d) == {s \in strays : Kw!Target(c, s) = d}
           sent == {s \in strays : Kw!Target(c, s) # Ignored}
<1>1. /\ UNCHANGED <<kwLabel, kwChans, kwNum, kwShown, kwSaved, kwPc>>
      /\ UNCHANGED <<kwPairs, kwCrossed>> /\ kwPc = "keywords"
  BY DEF Kw!Enforce
<1>2. kwRows' = [d \in Kw!Channels |-> [s \in Labelled |->
                  IF d = c /\ s \in strays THEN 0
                  ELSE IF s \in moved(d) THEN kwRows[d][s] + kwRows[c][s]
                  ELSE kwRows[d][s]]]
  BY DEF Kw!Enforce
<1>3. PICK kept \in SUBSET sent, missed \in SUBSET sent :
        kwPlays' = [d \in Kw!Channels |->
                     IF d = c THEN kwPlays[d] \ (sent \ kept)
                              ELSE kwPlays[d] \cup (moved(d) \ missed)]
  BY DEF Kw!Enforce
<1>4. KwTypes /\ KwApart
  BY DEF KwInv
<1>5. /\ strays \subseteq Labelled /\ sent \subseteq Labelled
      /\ \A d \in Kw!Channels : moved(d) \subseteq Labelled
  OBVIOUS
<1>6. \A d \in Kw!Channels, s \in strays : s \in moved(d) => d \in kwChans
  BY KeywordsAssumption DEF Kw!Target, Kw!Channels
<1> HIDE DEF strays, moved, sent
<1>7. kwRows' \in KwRows
  BY <1>2, <1>4 DEF KwTypes, KwRows
<1>8. Known(kwRows)'
  <2>1. SUFFICES ASSUME NEW d \in Kw!Channels, NEW s \in Labelled,
                        d \notin kwChans
                 PROVE  kwRows'[d][s] = 0
    BY <1>1 DEF Known
  <2>2. kwRows[d][s] = 0
    BY <1>4, <2>1 DEF KwTypes, Known
  <2>3. s \notin moved(d)
    BY <1>6, <2>1 DEF moved
  <2>4. QED
    BY <1>2, <2>2, <2>3
<1>9. kwPlays' \in [Kw!Channels -> SUBSET Labelled]
  BY <1>3, <1>4, <1>5 DEF KwTypes
<1>10. KwTypes'
  BY <1>1, <1>4, <1>7, <1>8, <1>9 DEF KwTypes, Known
<1>11. KwApart'
  BY <1>1, <1>4 DEF KwApart, Apart
<1>12. QED
  BY <1>10, <1>11 DEF KwInv

\* Two channels exchange their numbers, or keep them.
LEMMA KwSwap ==
    ASSUME KwInv, NEW k \in Keywords, Kw!Swap(k) PROVE KwInv'
<1>1. /\ kwPc = "order" /\ k \in kwTodo /\ kwTodo' = kwTodo \ {k}
      /\ UNCHANGED <<kwLabel, kwChans, kwRows, kwPlays, kwSaved, kwPc>>
      /\ UNCHANGED <<kwPairs, kwCrossed>>
  BY DEF Kw!Swap
<1>2. PICK a, b \in Kw!Outcomes :
        /\ kwShown' = [kwShown EXCEPT
                         ![Main] = IF a THEN kwPairs[k] ELSE kwShown[Main],
                         ![k] = IF b THEN kwPairs[Main] ELSE kwShown[k]]
        /\ kwNum' = IF a /\ b
                    THEN [kwNum EXCEPT ![Main] = kwPairs[k],
                                       ![k] = kwPairs[Main]]
                    ELSE kwNum
  BY KeywordsAssumption DEF Kw!Swap
<1>3. KwTypes /\ KwApart
  BY DEF KwInv
<1>4. Main \in Kw!Channels /\ k \in Kw!Channels /\ k # Main
  BY KwMain, KeywordsAssumption
<1>5. kwShown' \in [Kw!Channels -> Nat] /\ kwNum' \in [Kw!Channels -> Nat]
  BY <1>2, <1>3, <1>4 DEF KwTypes
<1>6. KwTypes'
  BY <1>1, <1>3, <1>5 DEF KwTypes, Known
<1>7. ~kwCrossed => /\ Main \in kwChans /\ k \in kwChans /\ kwNum = kwPairs
                    /\ kwTodo' = {} /\ Apart(kwNum)
  BY <1>1, <1>3 DEF KwApart
<1>8. ~kwCrossed => Apart(kwNum)'
  BY <1>1, <1>2, <1>3, <1>4, <1>7 DEF Apart, KwTypes
<1>9. KwApart'
  BY <1>1, <1>3, <1>7, <1>8 DEF KwApart, Apart
<1>10. QED
  BY <1>6, <1>9 DEF KwInv

LEMMA KwCrash == ASSUME KwInv, Kw!Crash PROVE KwInv'
<1>1. /\ kwPc' = "idle" /\ kwPairs' = Kw!NoNums
      /\ kwRows' = kwSaved.rows /\ kwNum' = kwSaved.num
      /\ UNCHANGED <<kwLabel, kwChans, kwPlays, kwShown, kwSaved, kwCrossed>>
  BY DEF Kw!Crash
<1>2. KwTypes'
  BY <1>1 DEF KwInv, KwTypes, Known, Kw!NoNums
<1>3. KwApart'
  BY <1>1 DEF KwInv, KwApart, Apart
<1>4. QED
  BY <1>2, <1>3 DEF KwInv

LEMMA KwNext == ASSUME KwInv, [Kw!Next]_(Kw!vars) PROVE KwInv'
<1>1. CASE /\ UNCHANGED <<kwChans, kwRows, kwPlays, kwNum, kwShown, kwSaved>>
           /\ UNCHANGED <<kwPairs, kwCrossed>>
           /\ kwLabel' \in [Labelled -> Kw!Labels]
           /\ \/ kwPc' = kwPc /\ kwTodo' = kwTodo
              \/ kwPc' = "match"
  <2>1. KwTypes'
    BY <1>1 DEF KwInv, KwTypes, Known
  <2>2. KwApart'
    BY <1>1 DEF KwInv, KwApart, Apart
  <2>3. QED
    BY <2>1, <2>2 DEF KwInv
<1>2. kwLabel \in [Labelled -> Kw!Labels]
  BY DEF KwInv, KwTypes
<1>3. CASE Kw!StartRun
  BY <1>1, <1>2, <1>3 DEF Kw!StartRun
<1>4. CASE Kw!Change
  <2>1. kwLabel' \in [Labelled -> Kw!Labels]
    BY <1>2, <1>4 DEF Kw!Change
  <2>2. QED
    BY <1>1, <1>4, <2>1 DEF Kw!Change
<1>5. CASE UNCHANGED Kw!vars
  BY <1>1, <1>2, <1>5 DEF Kw!vars
<1>6. QED
  BY <1>3, <1>4, <1>5, KwMatch, KwEndMatch, KwEnforce, KwEndEnforce, KwSwap,
     KwEndRun, KwCrash, Zenon DEF Kw!Next, Kw!Generation

LEMMA KwInvariant == SumSpec => []KwInv
<1>1. SumInit => Kw!Init
  BY DEF SumInit
<1>2. [SumNext]_all => [Kw!Next]_(Kw!vars)
  <2>1. UNCHANGED KwVars => UNCHANGED Kw!vars
    BY DEF KwVars, Kw!vars
  <2>2. SumNext \/ UNCHANGED all => Kw!Next \/ UNCHANGED KwVars
    BY Zenon DEF SumNext, all
  <2>3. QED
    BY <2>1, <2>2
<1>3. QED
  BY <1>1, <1>2, KwInit, KwNext, PTL DEF SumSpec

\* KeywordEnforcement: rows are on channels that exist, and every variable
\* keeps its type.
THEOREM KeywordTypes == SumSpec => []Kw!TypeOK
<1>1. KwInv => Kw!TypeOK
  BY DEF KwInv, KwTypes, KwRows, Known, Kw!TypeOK
<1>2. QED
  BY <1>1, KwInvariant, PTL

\* KeywordEnforcement: for all streams, keywords and numbers, with every call
\* failing and every crash, swaps leave every channel a number of its own,
\* unless two channels were to be swapped with the main one in one pass.
THEOREM NumbersStayApartHolds == SumSpec => []NumbersStayApart
<1>1. KwInv => NumbersStayApart
  BY DEF KwInv, KwApart, Apart, NumbersStayApart, Kw!NumbersStayApart
<1>2. QED
  BY <1>1, KwInvariant, PTL


-----------------------------------------------------------------------------
(* ChannelStreams: what sorting leaves *)

\* What comes before x, and the place of x.
StBefore(S, key, x) ==
    {y \in S : \/ key[y] < key[x]
               \/ key[y] = key[x] /\ y < x}
StPlace(S, key) == [x \in S |-> 1 + Cardinality(StBefore(S, key, x))]

\* One of two comes before the other, with what comes before it.
LEMMA StOrder ==
    ASSUME NEW S, S \subseteq Nat, NEW key \in [S -> Nat],
           NEW x \in S, NEW y \in S
    PROVE  /\ StBefore(S, key, x) \in SUBSET (S \ {x})
           /\ x # y => x \in StBefore(S, key, y) \/ y \in StBefore(S, key, x)
           /\ x \in StBefore(S, key, y) =>
                 StBefore(S, key, x) \in SUBSET StBefore(S, key, y)
<1>1. \A z \in S : z \in Nat /\ key[z] \in Nat
  OBVIOUS
<1>2. \A z, u \in S : z \in StBefore(S, key, u)
         <=> key[z] < key[u] \/ (key[z] = key[u] /\ z < u)
  BY DEF StBefore
<1>3. \A z : StBefore(S, key, z) \subseteq S
  BY DEF StBefore
<1>4. x \notin StBefore(S, key, x)
  BY <1>1, <1>2
<1>5. x # y => x \in StBefore(S, key, y) \/ y \in StBefore(S, key, x)
  BY <1>1, <1>2
<1>6. ASSUME x \in StBefore(S, key, y), NEW z \in StBefore(S, key, x)
      PROVE  z \in StBefore(S, key, y)
  BY <1>1, <1>2, <1>3, <1>6
<1>7. QED
  BY <1>3, <1>4, <1>5, <1>6

\* The sort asks for the places.
LEMMA StSortedIs ==
    ASSUME NEW S, NEW key
    PROVE  St!Sorted(S, key) = [k \in 1..Cardinality(S) |->
                CHOOSE x \in S : Cardinality(StBefore(S, key, x)) = k - 1]
<1>1. \A R : St!Cardinality(R) = Cardinality(R)
  BY DEF St!Cardinality, Cardinality
<1>2. St!Sorted(S, key) = [k \in 1..St!Cardinality(S) |-> CHOOSE x \in S :
        St!Cardinality(StBefore(S, key, x)) = k - 1]
  BY Zenon DEF St!Sorted, StBefore
<1>3. QED
  BY <1>1, <1>2

\* Numbers in their own order are all of one key.
LEMMA StAscending ==
    ASSUME NEW S, S \subseteq Nat
    PROVE  St!Ascending(S) = St!Sorted(S, [x \in S |-> 0])
<1> DEFINE key == [x \in S |-> 0]
<1>1. \A x \in S : {y \in S : y < x} = StBefore(S, key, x)
  BY DEF StBefore
<1>2. St!Ascending(S) = [k \in 1..St!Cardinality(S) |-> CHOOSE x \in S :
        St!Cardinality({y \in S : y < x}) = k - 1]
  BY DEF St!Ascending
<1>3. St!Sorted(S, key) = [k \in 1..St!Cardinality(S) |-> CHOOSE x \in S :
        St!Cardinality(StBefore(S, key, x)) = k - 1]
  BY Zenon DEF St!Sorted, StBefore
<1> HIDE DEF key
<1>4. QED
  BY <1>1, <1>2, <1>3 DEF key

\* A set of numbers sorted by a key: every one of them has one place.
LEMMA StSorted ==
    ASSUME NEW S, S \subseteq Nat, IsFiniteSet(S), NEW key \in [S -> Nat]
    PROVE  /\ Cardinality(S) \in Nat
           /\ St!Sorted(S, key) \in [1..Cardinality(S) -> S]
           /\ \A i, j \in 1..Cardinality(S) :
                 i # j => St!Sorted(S, key)[i] # St!Sorted(S, key)[j]
           /\ \A x \in S : \E i \in 1..Cardinality(S) :
                 St!Sorted(S, key)[i] = x
           /\ \A i, j \in 1..Cardinality(S) : i < j =>
                 St!Sorted(S, key)[i] \in StBefore(S, key, St!Sorted(S, key)[j])
           /\ S # {} => \E x \in S : \A y \in S : key[y] <= key[x]
<1> DEFINE n == Cardinality(S)
           Before(x) == StBefore(S, key, x)
           place == StPlace(S, key)
           sorted == St!Sorted(S, key)
<1>1. n \in Nat
  BY FS_CardinalityType
<1>2. ASSUME NEW x \in S
      PROVE  /\ IsFiniteSet(Before(x)) /\ Cardinality(Before(x)) \in Nat
             /\ place[x] \in 1..n /\ place[x] = Cardinality(Before(x)) + 1
             /\ Cardinality(Before(x)) = n - 1 => Before(x) = S \ {x}
  <2>1. IsFiniteSet(S \ {x}) /\ Cardinality(S \ {x}) = n - 1
    BY FS_RemoveElement
  <2>2. Before(x) \in SUBSET (S \ {x})
    BY StOrder
  <2>3. /\ IsFiniteSet(Before(x)) /\ Cardinality(Before(x)) <= n - 1
        /\ Cardinality(Before(x)) = n - 1 => Before(x) = S \ {x}
    BY <2>1, <2>2, FS_Subset
  <2>4. Cardinality(Before(x)) \in Nat
    BY <2>3, FS_CardinalityType
  <2>5. place[x] = Cardinality(Before(x)) + 1
    BY <2>4 DEF StPlace
  <2>6. QED
    BY <1>1, <2>3, <2>4, <2>5
<1>3. ASSUME NEW x \in S, NEW y \in S, x \in Before(y)
      PROVE  place[x] < place[y]
  <2>1. Before(x) \in SUBSET Before(y) /\ x \notin Before(x)
    BY <1>3, StOrder
  <2>2. /\ Cardinality(Before(x)) <= Cardinality(Before(y))
        /\ Cardinality(Before(x)) # Cardinality(Before(y))
    BY <1>2, <1>3, <2>1, FS_Subset
  <2>3. QED
    BY <1>2, <2>2
<1>4. \A x, y \in S : place[x] = place[y] => x = y
  <2> TAKE x, y \in S
  <2>1. x # y => x \in Before(y) \/ y \in Before(x)
    BY StOrder
  <2>2. place[x] \in Nat /\ place[y] \in Nat
    BY <1>1, <1>2
  <2>3. QED
    BY <1>3, <2>1, <2>2
<1>6. place \in Injection(S, 1..n)
  <2>1. place \in [S -> 1..n]
    BY <1>2 DEF StPlace
  <2>2. QED
    BY <1>4, <2>1 DEF Injection, IsInjective
<1>7. IsFiniteSet(1..n) /\ Cardinality(1..n) = n
  BY <1>1, FS_Interval
<1>8. place \in Surjection(S, 1..n)
  <2>1. QED
    BY <1>6, <1>7, FS_Injection
<1>9. \A k \in 1..n : \E x \in S : place[x] = k
  <2>1. QED
    BY <1>8 DEF Surjection
<1>10. sorted = [k \in 1..n |->
                    CHOOSE x \in S : Cardinality(Before(x)) = k - 1]
  BY StSortedIs
<1> HIDE DEF sorted, place
<1>11. \A k \in 1..n : sorted[k] \in S /\ place[sorted[k]] = k
  <2> TAKE k \in 1..n
  <2>1. sorted[k] = CHOOSE y \in S : Cardinality(Before(y)) = k - 1
    BY <1>10
  <2>2. PICK x \in S : place[x] = k
    BY <1>9
  <2>3. Cardinality(Before(x)) = k - 1
    BY <1>2, <2>2
  <2>4. sorted[k] \in S /\ Cardinality(Before(sorted[k])) = k - 1
    BY <2>1, <2>3
  <2>5. place[sorted[k]] = (k - 1) + 1
    BY <1>2, <2>4
  <2>6. QED
    BY <1>1, <2>4, <2>5
<1>12. sorted \in [1..n -> S]
  BY <1>10, <1>11
<1>13. \A x \in S : \E i \in 1..n : sorted[i] = x
  <2>1. QED
    BY <1>2, <1>4, <1>11
<1>14. S # {} => \E x \in S : \A y \in S : key[y] <= key[x]
  <2> SUFFICES ASSUME S # {} PROVE \E x \in S : \A y \in S : key[y] <= key[x]
    OBVIOUS
  <2>1. n \in 1..n
    BY <1>1, FS_EmptySet
  <2>2. PICK x \in S : place[x] = n
    BY <1>9, <2>1
  <2>3. Before(x) = S \ {x}
    BY <1>1, <1>2, <2>2
  <2>4. \A y \in Before(x) : key[y] <= key[x]
    <3> TAKE y \in Before(x)
    <3>1. /\ key[y] \in Nat /\ key[x] \in Nat
          /\ key[y] < key[x] \/ key[y] = key[x]
      BY DEF StBefore
    <3>2. QED
      BY <3>1
  <2>5. QED
    BY <2>3, <2>4
<1>15. \A i, j \in 1..n : i # j => sorted[i] # sorted[j]
  <2>1. QED
    BY <1>11
<1>16. \A i, j \in 1..n : i < j => sorted[i] \in Before(sorted[j])
  <2> TAKE i, j \in 1..n
  <2> HAVE i < j
  <2>1. /\ sorted[i] \in S /\ sorted[j] \in S
        /\ place[sorted[i]] = i /\ place[sorted[j]] = j
    BY <1>11
  <2>2. sorted[i] # sorted[j]
    BY <2>1
  <2>3. sorted[i] \in Before(sorted[j]) \/ sorted[j] \in Before(sorted[i])
    BY <2>1, <2>2, StOrder
  <2>4. sorted[j] \notin Before(sorted[i])
    <3>1. sorted[j] \in Before(sorted[i]) => j < i
      BY <1>3, <2>1
    <3>2. QED
      BY <1>1, <3>1
  <2>5. QED
    BY <2>3, <2>4
<1>17. QED
  BY <1>1, <1>12, <1>13, <1>14, <1>15, <1>16 DEF sorted

\* What a sequence has in some places: each of them once, in their order.
StPicked(s, I, n, o) ==
    /\ n \in Nat /\ o \in [1..n -> I]
    /\ \A i, j \in 1..n : i # j => o[i] # o[j]
    /\ \A i, j \in 1..n : i < j => o[i] < o[j]
    /\ \A x \in I : \E i \in 1..n : o[i] = x
    /\ St!At(s, I) = [k \in 1..n |-> s[o[k]]]
LEMMA StAt ==
    ASSUME NEW s, NEW m \in Nat, DOMAIN s = 1..m, NEW I, I \subseteq DOMAIN s
    PROVE  \E n, o : StPicked(s, I, n, o)
<1> DEFINE key == [x \in I |-> 0]
           n == Cardinality(I)
           o == St!Sorted(I, key)
<1>1. IsFiniteSet(1..m) /\ I \in SUBSET (1..m) /\ I \subseteq Nat
  BY FS_Interval
<1>2. IsFiniteSet(I) /\ I \subseteq Nat
  BY <1>1, FS_Subset
<1>3. key \in [I -> Nat]
  OBVIOUS
<1>4. o = St!Ascending(I)
  BY <1>2, StAscending
<1>5. \A x, y \in I : y \in StBefore(I, key, x) => y < x
  BY DEF StBefore
<1> HIDE DEF key
<1>6. /\ n \in Nat /\ o \in [1..n -> I]
      /\ \A i, j \in 1..n : i # j => o[i] # o[j]
      /\ \A i, j \in 1..n : i < j => o[i] \in StBefore(I, key, o[j])
      /\ \A x \in I : \E i \in 1..n : o[i] = x
  BY <1>2, <1>3, StSorted
<1> HIDE DEF o, n
<1>7. \A i, j \in 1..n : i < j => o[i] < o[j]
  BY <1>5, <1>6
<1>8. St!At(s, I) = [k \in 1..n |-> s[o[k]]]
  BY <1>4, <1>6 DEF St!At
<1>9. StPicked(s, I, n, o)
  BY <1>6, <1>7, <1>8 DEF StPicked
<1>10. QED
  BY <1>9

\* Rows of different streams with their windows, and lists of different
\* streams.
StRow  == [id : Streams, prio : Nat, win : St!Windows]
StRows == {rs \in Seq(StRow) :
              /\ \A i, j \in DOMAIN rs : i # j => rs[i].id # rs[j].id
              /\ \A i \in DOMAIN rs : rs[i].win = Slot[rs[i].id]}
StLists == {list \in Seq(Streams) :
              \A i, j \in DOMAIN list : i # j => list[i] # list[j]}

\* The row of s comes before that of t by its priority, or by its age.
StAhead(rs, s, t) ==
    \E i, j \in DOMAIN rs :
        /\ rs[i].id = s /\ rs[j].id = t
        /\ rs[i].prio < rs[j].prio \/ (rs[i].prio = rs[j].prio /\ i < j)

\* A stream is not before one that is before it.
LEMMA StAheadOnce ==
    ASSUME NEW rs \in StRows, NEW s, NEW t, StAhead(rs, s, t)
    PROVE  ~StAhead(rs, t, s)
<1>0. /\ DOMAIN rs = 1..Len(rs) /\ Len(rs) \in Nat
      /\ \A i \in DOMAIN rs : rs[i] \in StRow
      /\ \A i, j \in DOMAIN rs : i # j => rs[i].id # rs[j].id
  BY DEF StRows
<1>1. /\ DOMAIN rs = 1..Len(rs) /\ Len(rs) \in Nat
      /\ \A i \in DOMAIN rs : rs[i].prio \in Nat
      /\ \A i, j \in DOMAIN rs : rs[i].id = rs[j].id => i = j
  BY <1>0 DEF StRow
<1>2. PICK i, j \in DOMAIN rs :
        /\ rs[i].id = s /\ rs[j].id = t
        /\ rs[i].prio < rs[j].prio \/ (rs[i].prio = rs[j].prio /\ i < j)
  BY DEF StAhead
<1>3. SUFFICES ASSUME NEW k \in DOMAIN rs, NEW m \in DOMAIN rs,
                      rs[k].id = t, rs[m].id = s,
                      \/ rs[k].prio < rs[m].prio
                      \/ rs[k].prio = rs[m].prio /\ k < m
               PROVE  FALSE
  BY DEF StAhead
<1>4. k = j /\ m = i
  BY <1>1, <1>2, <1>3
<1>5. i \in Nat /\ j \in Nat /\ rs[i].prio \in Nat /\ rs[j].prio \in Nat
  BY <1>1
<1>6. QED
  BY <1>2, <1>3, <1>4, <1>5

LEMMA StWithout ==
    ASSUME NEW rs \in StRows, NEW S
    PROVE  /\ St!Without(rs, S) \in StRows
           /\ St!IdsIn(St!Without(rs, S)) = St!IdsIn(rs) \ S
           /\ \A s, t : s \notin S /\ t \notin S /\ StAhead(rs, s, t)
                           => StAhead(St!Without(rs, S), s, t)
<1> DEFINE I == {i \in DOMAIN rs : rs[i].id \notin S}
<1>1. /\ rs \in Seq(StRow) /\ I \subseteq DOMAIN rs
      /\ DOMAIN rs = 1..Len(rs) /\ Len(rs) \in Nat
  BY DEF StRows
<1>2. St!Without(rs, S) = St!At(rs, I)
  BY DEF St!Without
<1> HIDE DEF I
<1>3. PICK n, o : StPicked(rs, I, n, o)
  BY <1>1, StAt
<1>4. /\ n \in Nat /\ o \in [1..n -> I]
      /\ \A i, j \in 1..n : i # j => o[i] # o[j]
      /\ \A i, j \in 1..n : i < j => o[i] < o[j]
      /\ \A x \in I : \E i \in 1..n : o[i] = x
      /\ St!At(rs, I) = [k \in 1..n |-> rs[o[k]]]
  BY <1>3 DEF StPicked
<1> DEFINE q == [k \in 1..n |-> rs[o[k]]]
<1>5. \A k \in 1..n : /\ o[k] \in DOMAIN rs /\ q[k] = rs[o[k]]
                      /\ rs[o[k]] \in StRow /\ rs[o[k]].id \notin S
  BY <1>1, <1>4 DEF I
<1>6. q \in Seq(StRow) /\ DOMAIN q = 1..n
  BY <1>4, <1>5
<1>7. q \in StRows
  BY <1>4, <1>5, <1>6 DEF StRows
<1>8. \A i \in DOMAIN rs : rs[i].id \notin S => \E k \in 1..n : q[k] = rs[i]
  BY <1>4 DEF I
<1> HIDE DEF q
<1>9. St!IdsIn(q) = St!IdsIn(rs) \ S
  <2>1. ASSUME NEW x \in St!IdsIn(q) PROVE x \in St!IdsIn(rs) \ S
    <3>1. PICK k \in 1..n : x = q[k].id
      BY <1>6, <2>1 DEF St!IdsIn
    <3>2. QED
      BY <1>5, <3>1 DEF St!IdsIn
  <2>2. ASSUME NEW x \in St!IdsIn(rs) \ S PROVE x \in St!IdsIn(q)
    <3>1. PICK i \in DOMAIN rs : x = rs[i].id
      BY <2>2 DEF St!IdsIn
    <3>2. PICK k \in 1..n : q[k] = rs[i]
      BY <1>8, <2>2, <3>1
    <3>3. QED
      BY <1>6, <3>1, <3>2 DEF St!IdsIn
  <2>3. QED
    BY <2>1, <2>2
<1>10. ASSUME NEW s, NEW t, s \notin S, t \notin S, StAhead(rs, s, t)
       PROVE  StAhead(q, s, t)
  <2>1. PICK i, j \in DOMAIN rs :
          /\ rs[i].id = s /\ rs[j].id = t
          /\ rs[i].prio < rs[j].prio \/ (rs[i].prio = rs[j].prio /\ i < j)
    BY <1>10 DEF StAhead
  <2>2. i \in I /\ j \in I
    BY <1>10, <2>1 DEF I
  <2>3. PICK k, m \in 1..n : o[k] = i /\ o[m] = j
    BY <1>4, <2>2
  <2>4. q[k] = rs[i] /\ q[m] = rs[j]
    BY <1>5, <2>3
  <2>5. i < j => k < m
    <3>1. i \in Nat /\ j \in Nat /\ k \in Nat /\ m \in Nat
      BY <1>1, <1>4
    <3>2. m < k => j < i
      BY <1>4, <2>3
    <3>3. k = m => i = j
      BY <2>3
    <3>4. QED
      BY <3>1, <3>2, <3>3
  <2>6. QED
    BY <1>6, <2>1, <2>3, <2>4, <2>5 DEF StAhead
<1>11. QED
  BY <1>2, <1>4, <1>7, <1>9, <1>10 DEF q

LEMMA StDropping ==
    ASSUME NEW list \in StLists, NEW S
    PROVE  /\ St!Dropping(list, S) \in StLists
           /\ St!ToSet(St!Dropping(list, S)) = St!ToSet(list) \ S
           /\ \A i, j \in DOMAIN St!Dropping(list, S) : i < j =>
                 \E k, m \in DOMAIN list :
                    /\ k < m /\ St!Dropping(list, S)[i] = list[k]
                    /\ St!Dropping(list, S)[j] = list[m]
<1> DEFINE I == {i \in DOMAIN list : list[i] \notin S}
<1>1. /\ list \in Seq(Streams) /\ I \subseteq DOMAIN list
      /\ DOMAIN list = 1..Len(list) /\ Len(list) \in Nat
  BY DEF StLists
<1>2. St!Dropping(list, S) = St!At(list, I)
  BY DEF St!Dropping
<1> HIDE DEF I
<1>3. PICK n, o : StPicked(list, I, n, o)
  BY <1>1, StAt
<1>4. /\ n \in Nat /\ o \in [1..n -> I]
      /\ \A i, j \in 1..n : i # j => o[i] # o[j]
      /\ \A i, j \in 1..n : i < j => o[i] < o[j]
      /\ \A x \in I : \E i \in 1..n : o[i] = x
      /\ St!At(list, I) = [k \in 1..n |-> list[o[k]]]
  BY <1>3 DEF StPicked
<1> DEFINE q == [k \in 1..n |-> list[o[k]]]
<1>5. \A k \in 1..n : /\ o[k] \in DOMAIN list /\ q[k] = list[o[k]]
                      /\ list[o[k]] \in Streams /\ list[o[k]] \notin S
  BY <1>1, <1>4 DEF I
<1>6. q \in Seq(Streams) /\ DOMAIN q = 1..n
  BY <1>4, <1>5
<1>7. q \in StLists
  BY <1>4, <1>5, <1>6 DEF StLists
<1>8. \A i \in DOMAIN list : list[i] \notin S => \E k \in 1..n : q[k] = list[i]
  BY <1>4 DEF I
<1> HIDE DEF q
<1>9. St!ToSet(q) = St!ToSet(list) \ S
  <2>1. ASSUME NEW x \in St!ToSet(q) PROVE x \in St!ToSet(list) \ S
    <3>1. PICK k \in 1..n : x = q[k]
      BY <1>6, <2>1 DEF St!ToSet
    <3>2. QED
      BY <1>5, <3>1 DEF St!ToSet
  <2>2. ASSUME NEW x \in St!ToSet(list) \ S PROVE x \in St!ToSet(q)
    <3>1. PICK i \in DOMAIN list : x = list[i]
      BY <2>2 DEF St!ToSet
    <3>2. PICK k \in 1..n : q[k] = list[i]
      BY <1>8, <2>2, <3>1
    <3>3. QED
      BY <1>6, <3>1, <3>2 DEF St!ToSet
  <2>3. QED
    BY <2>1, <2>2
<1>10. \A i, j \in DOMAIN q : i < j =>
           \E k, m \in DOMAIN list : k < m /\ q[i] = list[k] /\ q[j] = list[m]
  <2> TAKE i, j \in DOMAIN q
  <2> HAVE i < j
  <2>1. /\ o[i] \in DOMAIN list /\ o[j] \in DOMAIN list /\ o[i] < o[j]
        /\ q[i] = list[o[i]] /\ q[j] = list[o[j]]
    BY <1>4, <1>5, <1>6
  <2>2. QED
    BY <2>1
<1>11. QED
  BY <1>2, <1>4, <1>7, <1>9, <1>10 DEF q


\* The streams of a list are in the order of their rows.
StAlong(rs, list) == \A i, j \in DOMAIN list :
                        i < j => StAhead(rs, list[i], list[j])

\* Those without a window are, but for one that may be the first of them.
StLined(rs, list) ==
    \E pin : \A i, j \in DOMAIN list :
        i < j /\ Slot[list[i]] = St!Full /\ Slot[list[j]] = St!Full =>
           list[j] # pin /\ (list[i] = pin \/ StAhead(rs, list[i], list[j]))

\* Those without a window are all there.
StFulls(rs, list) ==
    \A s \in St!IdsIn(rs) : Slot[s] = St!Full => s \in St!ToSet(list)

\* What a push sends: the order of the rows, or that with one moved up.
StPushes(rs, list) ==
    \/ list = St!Ordered(rs)
    \/ \E s \in St!ToSet(St!Ordered(rs)) :
          list = St!ToFront(St!Ordered(rs), s)

\* The streams whose windows are open, in the order of their rows.
LEMMA StOrdered ==
    ASSUME NEW rs \in StRows
    PROVE  /\ St!Ordered(rs) \in StLists
           /\ St!ToSet(St!Ordered(rs)) = St!Active(rs)
           /\ St!Active(rs) \subseteq St!IdsIn(rs)
           /\ StAlong(rs, St!Ordered(rs))
<1> DEFINE I == {i \in DOMAIN rs : St!Open(rs[i].win)}
           key == [i \in I |-> rs[i].prio]
           n == Cardinality(I)
           o == St!Sorted(I, key)
           q == [k \in 1..n |-> rs[o[k]].id]
<1>1. /\ rs \in Seq(StRow) /\ DOMAIN rs = 1..Len(rs) /\ Len(rs) \in Nat
      /\ \A i \in DOMAIN rs : rs[i] \in StRow
  BY DEF StRows
<1>2. I \in SUBSET (1..Len(rs)) /\ I \subseteq Nat /\ I \subseteq DOMAIN rs
  BY <1>1
<1>3. IsFiniteSet(I)
  <2> HIDE DEF I
  <2>1. IsFiniteSet(1..Len(rs))
    BY <1>1, FS_Interval
  <2>2. QED
    BY <1>2, <2>1, FS_Subset
<1>4. key \in [I -> Nat]
  BY <1>1 DEF StRow
<1>5. St!Ordered(rs) = [k \in DOMAIN o |-> rs[o[k]].id]
  BY DEF St!Ordered
<1>6. \A x, y \in I : y \in StBefore(I, key, x) =>
         rs[y].prio < rs[x].prio \/ (rs[y].prio = rs[x].prio /\ y < x)
  BY DEF StBefore
<1>7. /\ St!Active(rs) = {rs[i].id : i \in I}
      /\ St!Active(rs) \subseteq St!IdsIn(rs)
  BY DEF St!Active, St!IdsIn
<1> HIDE DEF key, I
<1>8. /\ n \in Nat /\ o \in [1..n -> I]
      /\ \A i, j \in 1..n : i # j => o[i] # o[j]
      /\ \A i, j \in 1..n : i < j => o[i] \in StBefore(I, key, o[j])
      /\ \A x \in I : \E i \in 1..n : o[i] = x
  BY <1>2, <1>3, <1>4, StSorted
<1> HIDE DEF o, n
<1>9. St!Ordered(rs) = q
  BY <1>5, <1>8
<1>10. \A k \in 1..n : /\ o[k] \in DOMAIN rs /\ q[k] = rs[o[k]].id
                       /\ rs[o[k]].id \in Streams
  BY <1>2, <1>1, <1>8 DEF StRow
<1>11. q \in Seq(Streams) /\ DOMAIN q = 1..n
  BY <1>8, <1>10
<1>12. q \in StLists
  BY <1>8, <1>10, <1>11 DEF StLists, StRows
<1> HIDE DEF q
<1>13. St!ToSet(q) = {rs[i].id : i \in I}
  <2>1. \A k \in 1..n : q[k] \in {rs[i].id : i \in I}
    BY <1>8, <1>10
  <2>2. \A i \in I : \E k \in 1..n : q[k] = rs[i].id
    BY <1>8, <1>10
  <2>3. QED
    BY <1>11, <2>1, <2>2 DEF St!ToSet
<1>14. ASSUME NEW i \in DOMAIN q, NEW j \in DOMAIN q, i < j
       PROVE  StAhead(rs, q[i], q[j])
  <2>1. /\ o[i] \in DOMAIN rs /\ q[i] = rs[o[i]].id
        /\ o[j] \in DOMAIN rs /\ q[j] = rs[o[j]].id
    BY <1>10, <1>11
  <2>2. \/ rs[o[i]].prio < rs[o[j]].prio
        \/ rs[o[i]].prio = rs[o[j]].prio /\ o[i] < o[j]
    BY <1>6, <1>8, <1>11, <1>14
  <2>3. QED
    BY <2>1, <2>2 DEF StAhead
<1>15. StAlong(rs, q)
  BY <1>14 DEF StAlong
<1>16. QED
  BY <1>7, <1>9, <1>12, <1>13, <1>15

\* One of a list moved to its head.
LEMMA StToFront ==
    ASSUME NEW list \in StLists, NEW s \in St!ToSet(list)
    PROVE  /\ St!ToFront(list, s) \in StLists
           /\ St!ToSet(St!ToFront(list, s)) = St!ToSet(list)
           /\ \A rs : StAlong(rs, list) => StLined(rs, St!ToFront(list, s))
           /\ \E old \in DOMAIN list : /\ list[old] = s
                /\ St!ToFront(list, s) = [k \in DOMAIN list |->
                     IF k = 1 THEN s ELSE list[IF k <= old THEN k - 1 ELSE k]]
<1> DEFINE old == CHOOSE i \in DOMAIN list : list[i] = s
           from(k) == IF k = 1 THEN old ELSE IF k <= old THEN k - 1 ELSE k
           q == [k \in DOMAIN list |->
                   IF k = 1 THEN s ELSE list[IF k <= old THEN k - 1 ELSE k]]
<1>1. /\ list \in Seq(Streams) /\ DOMAIN list = 1..Len(list)
      /\ Len(list) \in Nat
      /\ \A i, j \in DOMAIN list : i # j => list[i] # list[j]
      /\ \A i \in DOMAIN list : list[i] \in Streams
  BY DEF StLists
<1>2. old \in DOMAIN list /\ list[old] = s
  BY DEF St!ToSet
<1>3. St!ToFront(list, s) = q
  BY DEF St!ToFront
<1> HIDE DEF old
<1>4. \A k \in 1..Len(list) : from(k) \in 1..Len(list) /\ q[k] = list[from(k)]
  BY <1>1, <1>2
<1>5. \A k, m \in 1..Len(list) : k # m => from(k) # from(m)
  BY <1>1, <1>2
<1>6. \A k \in 1..Len(list) : \E m \in 1..Len(list) : from(m) = k
  <2> TAKE k \in 1..Len(list)
  <2> DEFINE m == IF k = old THEN 1 ELSE IF k < old THEN k + 1 ELSE k
  <2>1. m \in 1..Len(list) /\ from(m) = k
    BY <1>1, <1>2
  <2>2. QED
    BY <2>1
<1>7. \A k, m \in 2..Len(list) : k < m => from(k) < from(m)
  BY <1>1, <1>2
<1>8. \A k \in 2..Len(list) : k \in 1..Len(list) /\ from(k) # old
  BY <1>1, <1>2
<1>9. /\ q \in Seq(Streams) /\ DOMAIN q = 1..Len(list)
      /\ 1 \in DOMAIN q => q[1] = s
  <2>1. \A k \in DOMAIN list : q[k] \in Streams
    BY <1>1, <1>4
  <2>2. q \in [1..Len(list) -> Streams]
    BY <1>1, <2>1
  <2>3. QED
    BY <1>1, <2>2
<1> HIDE DEF q, from
<1>10. q \in StLists
  BY <1>1, <1>4, <1>5, <1>9 DEF StLists
<1>11. St!ToSet(q) = St!ToSet(list)
  <2>1. \A k \in DOMAIN q : q[k] \in St!ToSet(list)
    BY <1>1, <1>4, <1>9 DEF St!ToSet
  <2>2. \A k \in DOMAIN list : \E m \in DOMAIN q : q[m] = list[k]
    BY <1>1, <1>4, <1>6, <1>9
  <2>3. QED
    BY <2>1, <2>2 DEF St!ToSet
<1>12. ASSUME NEW rs, StAlong(rs, list) PROVE StLined(rs, q)
  <2>1. ASSUME NEW i \in DOMAIN q, NEW j \in DOMAIN q, i < j
        PROVE  q[j] # s /\ (q[i] = s \/ StAhead(rs, q[i], q[j]))
    <3>1. j \in 2..Len(list) /\ (i = 1 \/ i \in 2..Len(list))
      BY <1>1, <1>9, <2>1
    <3>2. q[j] # s
      BY <1>1, <1>2, <1>4, <1>8, <3>1
    <3>3. i \in 2..Len(list) => StAhead(rs, q[i], q[j])
      BY <1>1, <1>4, <1>7, <1>8, <1>12, <2>1, <3>1 DEF StAlong
    <3>4. QED
      BY <1>9, <3>1, <3>2, <3>3
  <2>2. QED
    BY <2>1 DEF StLined
<1>13. QED
  BY <1>2, <1>3, <1>10, <1>11, <1>12 DEF q

\* What is pushed lists every stream without a window, in line.
LEMMA StPushed ==
    ASSUME NEW rs \in StRows, NEW list, StPushes(rs, list)
    PROVE  /\ list \in StLists /\ St!ToSet(list) \subseteq St!IdsIn(rs)
           /\ StFulls(rs, list) /\ StLined(rs, list)
<1> DEFINE want == St!Ordered(rs)
<1>1. /\ want \in StLists /\ St!ToSet(want) = St!Active(rs)
      /\ St!Active(rs) \subseteq St!IdsIn(rs) /\ StAlong(rs, want)
  BY StOrdered
<1>2. list = want \/ \E s \in St!ToSet(want) : list = St!ToFront(want, s)
  BY DEF StPushes
<1> HIDE DEF want
<1>3. StLined(rs, want)
  <2>1. \A j \in DOMAIN want : want[j] # -1
    <3>1. \A j \in DOMAIN want : want[j] \in Streams
      BY <1>1 DEF StLists
    <3>2. QED
      BY <3>1, StreamsAssumption
  <2>2. QED
    BY <1>1, <2>1 DEF StLined, StAlong
<1>4. /\ list \in StLists /\ St!ToSet(list) = St!Active(rs)
      /\ StLined(rs, list)
  BY <1>1, <1>2, <1>3, StToFront
<1>5. StFulls(rs, list)
  <2>1. ASSUME NEW i \in DOMAIN rs, Slot[rs[i].id] = St!Full
        PROVE  rs[i].id \in St!Active(rs)
    <3>1. rs[i].win = St!Full
      BY <2>1 DEF StRows
    <3>2. QED
      BY <3>1 DEF St!Active, St!Open
  <2>2. QED
    BY <1>4, <2>1 DEF StFulls, St!IdsIn
<1>6. QED
  BY <1>1, <1>4, <1>5

LEMMA StAppended ==
    ASSUME NEW list \in StLists, NEW s \in Streams, s \notin St!ToSet(list)
    PROVE  /\ Append(list, s) \in StLists
           /\ St!ToSet(Append(list, s)) = St!ToSet(list) \cup {s}
<1> DEFINE q == Append(list, s)
<1>1. /\ list \in Seq(Streams) /\ Len(list) \in Nat
      /\ DOMAIN list = 1..Len(list)
      /\ \A i, j \in DOMAIN list : i # j => list[i] # list[j]
  BY DEF StLists
<1>2. /\ q \in Seq(Streams) /\ DOMAIN q = 1..(Len(list) + 1)
      /\ \A i \in 1..Len(list) : q[i] = list[i]
      /\ q[Len(list) + 1] = s
  BY <1>1
<1>3. \A i \in 1..(Len(list) + 1) : i \in 1..Len(list) \/ i = Len(list) + 1
  BY <1>1
<1> HIDE DEF q
<1>4. \A i \in 1..Len(list) : q[i] # s
  BY <1>1, <1>2 DEF St!ToSet
<1>5. q \in StLists
  <2>1. ASSUME NEW i \in DOMAIN q, NEW j \in DOMAIN q, i # j
        PROVE  q[i] # q[j]
    BY <1>1, <1>2, <1>3, <1>4, <2>1
  <2>2. QED
    BY <1>2, <2>1 DEF StLists
<1>6. St!ToSet(q) = St!ToSet(list) \cup {s}
  <2>1. \A x \in St!ToSet(q) : x \in St!ToSet(list) \cup {s}
    BY <1>1, <1>2, <1>3 DEF St!ToSet
  <2>2. \A x \in St!ToSet(list) \cup {s} : x \in St!ToSet(q)
    <3>1. ASSUME NEW x \in St!ToSet(list) PROVE x \in St!ToSet(q)
      <4>1. PICK i \in 1..Len(list) : x = list[i]
        BY <1>1, <3>1 DEF St!ToSet
      <4>2. i \in DOMAIN q /\ q[i] = x
        BY <1>1, <1>2, <4>1
      <4>3. QED
        BY <4>2 DEF St!ToSet
    <3>2. Len(list) + 1 \in DOMAIN q
      BY <1>1, <1>2
    <3>3. s \in St!ToSet(q)
      BY <1>2, <3>2 DEF St!ToSet
    <3>4. QED
      BY <3>1, <3>3
  <2>3. QED
    BY <2>1, <2>2
<1>7. QED
  BY <1>5, <1>6 DEF q

\* Added to the end of a list that does not have it, or not at all.
LEMMA StDriftAdd ==
    ASSUME NEW list \in StLists, NEW s \in Streams, NEW ok
    PROVE  /\ St!DriftAdd(s, list, ok) \in StLists
           /\ St!ToSet(St!DriftAdd(s, list, ok))
                \subseteq St!ToSet(list) \cup {s}
<1>1. CASE ok /\ Slot[s] = St!Full /\ s \notin St!ToSet(list)
  BY <1>1, StAppended DEF St!DriftAdd
<1>2. CASE ~(ok /\ Slot[s] = St!Full /\ s \notin St!ToSet(list))
  BY <1>2 DEF St!DriftAdd
<1>3. QED
  BY <1>1, <1>2

StRules == stRules \in Rankings \cup {St!NoRules}

\* The priority of a new row: that of the rules, or one more than the others.
LEMMA StPriority ==
    ASSUME StRules, NEW rs \in StRows, NEW s \in Streams
    PROVE  St!PriorityOf(s, rs) \in Nat
<1> DEFINE free == {0} \cup {rs[i].prio + 1 : i \in DOMAIN rs}
           key == [i \in DOMAIN rs |-> rs[i].prio]
<1>0. /\ rs \in Seq(StRow) /\ DOMAIN rs = 1..Len(rs) /\ Len(rs) \in Nat
      /\ \A i \in DOMAIN rs : rs[i] \in StRow
  BY DEF StRows
<1>1. /\ rs \in Seq(StRow) /\ DOMAIN rs = 1..Len(rs) /\ Len(rs) \in Nat
      /\ \A i \in DOMAIN rs : rs[i].prio \in Nat
  BY <1>0 DEF StRow
<1>2. CASE stRules # St!NoRules
  <2>1. stRules \in [Streams -> Nat]
    BY <1>2, StreamsAssumption DEF StRules
  <2>2. St!PriorityOf(s, rs) = stRules[s]
    BY <1>2 DEF St!PriorityOf
  <2>3. QED
    BY <2>1, <2>2
<1>3. CASE stRules = St!NoRules
  <2>1. \E p \in free : \A i \in DOMAIN rs : rs[i].prio < p
    <3>1. CASE DOMAIN rs = {}
      BY <3>1
    <3>2. CASE DOMAIN rs # {}
      <4>1. IsFiniteSet(DOMAIN rs) /\ DOMAIN rs \subseteq Nat
        BY <1>1, FS_Interval
      <4>2. key \in [DOMAIN rs -> Nat]
        BY <1>1
      <4> HIDE DEF key
      <4>3. PICK x \in DOMAIN rs : \A y \in DOMAIN rs : key[y] <= key[x]
        BY <3>2, <4>1, <4>2, StSorted
      <4>4. \A y \in DOMAIN rs : rs[y].prio < rs[x].prio + 1
        BY <1>1, <4>3 DEF key
      <4>5. QED
        BY <4>4
    <3>3. QED
      BY <3>1, <3>2
  <2>2. free \subseteq Nat
    BY <1>1
  <2>3. St!PriorityOf(s, rs)
          = CHOOSE p \in free : \A i \in DOMAIN rs : rs[i].prio < p
    BY <1>3 DEF St!PriorityOf
  <2> HIDE DEF free
  <2>4. QED
    BY <2>1, <2>2, <2>3
<1>4. QED
  BY <1>2, <1>3

\* A row of a stream that has none.
LEMMA StRowAdded ==
    ASSUME NEW rs \in StRows, NEW s \in Streams, s \notin St!IdsIn(rs),
           NEW p \in Nat
    PROVE  /\ Append(rs, St!Row(s, p)) \in StRows
           /\ s \in St!IdsIn(Append(rs, St!Row(s, p)))
<1> DEFINE row == St!Row(s, p)
           q == Append(rs, row)
<1>1. row \in StRow /\ row.id = s /\ row.win = Slot[s]
  BY DEF St!Row, StRow, St!Windows
<1> HIDE DEF row
<1>2. /\ rs \in Seq(StRow) /\ Len(rs) \in Nat /\ DOMAIN rs = 1..Len(rs)
      /\ \A i, j \in DOMAIN rs : i # j => rs[i].id # rs[j].id
      /\ \A i \in DOMAIN rs : rs[i].win = Slot[rs[i].id]
  BY DEF StRows
<1>3. /\ q \in Seq(StRow) /\ DOMAIN q = 1..(Len(rs) + 1)
      /\ \A i \in 1..Len(rs) : q[i] = rs[i]
      /\ q[Len(rs) + 1] = row
  BY <1>1, <1>2
<1>4. \A i \in 1..(Len(rs) + 1) : i \in 1..Len(rs) \/ i = Len(rs) + 1
  BY <1>2
<1> HIDE DEF q
<1>5. \A i \in 1..Len(rs) : q[i].id # s
  BY <1>2, <1>3 DEF St!IdsIn
<1>6. q \in StRows
  <2>1. ASSUME NEW i \in DOMAIN q, NEW j \in DOMAIN q, i # j
        PROVE  q[i].id # q[j].id
    BY <1>1, <1>2, <1>3, <1>4, <1>5, <2>1
  <2>2. \A i \in DOMAIN q : q[i].win = Slot[q[i].id]
    BY <1>1, <1>2, <1>3, <1>4
  <2>3. QED
    BY <1>3, <2>1, <2>2 DEF StRows
<1>7. Len(rs) + 1 \in DOMAIN q
  BY <1>2, <1>3
<1>8. s \in St!IdsIn(q)
  BY <1>1, <1>3, <1>7 DEF St!IdsIn
<1>9. QED
  BY <1>6, <1>8 DEF q, row

\* New priorities are given to the same streams.
LEMMA StReranked ==
    ASSUME StRules, stRows \in StRows
    PROVE  /\ St!Reranked \in StRows
           /\ St!IdsIn(St!Reranked) = St!IdsIn(stRows)
           /\ stRows = <<>> => St!Reranked = <<>>
<1>1. CASE stRules = St!NoRules
  BY <1>1 DEF St!Reranked
<1>2. CASE stRules # St!NoRules
  <2> DEFINE q == [i \in DOMAIN stRows |->
                     [stRows[i] EXCEPT !.prio = stRules[stRows[i].id]]]
  <2>1. St!Reranked = q
    BY <1>2 DEF St!Reranked
  <2>2. stRules \in [Streams -> Nat]
    BY <1>2, StreamsAssumption DEF StRules
  <2>3. /\ stRows \in Seq(StRow) /\ DOMAIN stRows = 1..Len(stRows)
        /\ Len(stRows) \in Nat
        /\ \A i \in DOMAIN stRows : stRows[i] \in StRow
    BY DEF StRows
  <2>4. \A i \in DOMAIN stRows : /\ q[i] \in StRow /\ q[i].id = stRows[i].id
                                 /\ q[i].win = stRows[i].win
    BY <2>2, <2>3 DEF StRow
  <2>5. q \in Seq(StRow) /\ DOMAIN q = DOMAIN stRows
    <3>1. q \in [1..Len(stRows) -> StRow]
      BY <2>3, <2>4
    <3> HIDE DEF q
    <3>2. QED
      BY <2>3, <3>1
  <2>6. stRows = <<>> => q = <<>>
    OBVIOUS
  <2> HIDE DEF q
  <2>7. q \in StRows
    BY <2>4, <2>5 DEF StRows
  <2>8. St!IdsIn(q) = St!IdsIn(stRows)
    BY <2>4, <2>5 DEF St!IdsIn
  <2>9. QED
    BY <2>1, <2>6, <2>7, <2>8
<1>3. QED
  BY <1>1, <1>2


\* What the slot below and the pin make of the order of the rows is a push.
LEMMA StBelow ==
    ASSUME NEW rs \in StRows, NEW s
    PROVE  StPushes(rs, St!SlotBelow(St!Ordered(rs), s))
<1> DEFINE want == St!Ordered(rs)
<1>1. want \in StLists
  BY StOrdered
<1> HIDE DEF want
<1>2. Len(want) > 1 => want[2] \in St!ToSet(want)
  <2>1. Len(want) \in Nat /\ DOMAIN want = 1..Len(want)
    BY <1>1 DEF StLists
  <2>2. Len(want) > 1 => 2 \in DOMAIN want
    BY <2>1
  <2>3. QED
    BY <2>2 DEF St!ToSet
<1>3. \/ St!SlotBelow(want, s) = want
      \/ /\ Len(want) > 1
         /\ St!SlotBelow(want, s) = St!ToFront(want, want[2])
  BY DEF St!SlotBelow
<1>4. QED
  BY <1>2, <1>3 DEF StPushes, want

LEMMA StPinned ==
    ASSUME NEW rs
    PROVE  StPushes(rs, St!Pinned(St!Ordered(rs)))
<1> DEFINE want == St!Ordered(rs)
           top == St!Ordered(stRows)[1]
<1>1. \/ St!Pinned(want) = want
      \/ top \in St!ToSet(want) /\ St!Pinned(want) = St!ToFront(want, top)
  BY DEF St!Pinned
<1> HIDE DEF top
<1>2. QED
  BY <1>1 DEF StPushes

\* The streams whose windows are open, sorted.
LEMMA StIdsSorted ==
    ASSUME NEW rs \in StRows
    PROVE  /\ St!Ascending(St!Active(rs)) \in StLists
           /\ St!ToSet(St!Ascending(St!Active(rs))) \subseteq St!IdsIn(rs)
<1> DEFINE S == St!Active(rs)
           key == [x \in S |-> 0]
           o == St!Sorted(S, key)
           list == St!Ordered(rs)
<1>0. list \in StLists /\ St!ToSet(list) = S /\ S \subseteq St!IdsIn(rs)
  BY StOrdered
<1> HIDE DEF list, S
<1>1. /\ list \in Seq(Streams) /\ DOMAIN list = 1..Len(list)
      /\ Len(list) \in Nat
  BY <1>0 DEF StLists
<1>2. S \subseteq Streams /\ S \subseteq Nat
  <2>1. \A i \in DOMAIN list : list[i] \in Streams
    BY <1>1
  <2>2. QED
    BY <1>0, <2>1, StreamsAssumption DEF St!ToSet
<1>3. IsFiniteSet(S)
  <2>1. list \in Surjection(1..Len(list), S)
    BY <1>0, <1>1 DEF St!ToSet, Surjection
  <2>2. IsFiniteSet(1..Len(list))
    BY <1>1, FS_Interval
  <2>3. QED
    BY <2>1, <2>2, FS_Surjection
<1>4. key \in [S -> Nat]
  OBVIOUS
<1>5. St!Ascending(S) = o
  BY <1>2, StAscending
<1> HIDE DEF key
<1>6. /\ Cardinality(S) \in Nat /\ o \in [1..Cardinality(S) -> S]
      /\ \A i, j \in 1..Cardinality(S) : i # j => o[i] # o[j]
  BY <1>2, <1>3, <1>4, StSorted
<1> HIDE DEF o
<1>7. o \in Seq(Streams) /\ DOMAIN o = 1..Cardinality(S)
  <2>1. o \in [1..Cardinality(S) -> Streams]
    BY <1>2, <1>6
  <2>2. QED
    BY <1>6, <2>1
<1>8. o \in StLists
  BY <1>6, <1>7 DEF StLists
<1>9. St!ToSet(o) \subseteq S
  BY <1>6, <1>7 DEF St!ToSet
<1>10. QED
  BY <1>0, <1>5, <1>8, <1>9 DEF S

-----------------------------------------------------------------------------
(* ChannelStreams: the invariant *)

\* A channel that is not there has no rows and plays nothing, also after a
\* rollback, and the matched streams are all handled when the pass over them
\* ends.
StState == [exists : BOOLEAN, rows : StRows]
StTypes ==
    /\ stNow \in 0..MaxTime /\ stExists \in BOOLEAN /\ stRows \in StRows
    /\ stSaved \in StState /\ stDisp \in StLists
    /\ stMatched \subseteq Streams /\ stPool \subseteq Streams
    /\ stTodo \subseteq stMatched /\ StRules
    /\ stPc \in {"idle", "cleanup", "match", "order", "expire"}
    /\ stManual \in BOOLEAN /\ stClean \in BOOLEAN
    /\ stLingering \subseteq Streams
StGone == /\ ~stExists => stRows = <<>> /\ stDisp = <<>>
          /\ stSaved.exists = stExists
          /\ ~stSaved.exists => stSaved.rows = <<>>
          /\ stPc # "match" => stTodo = {}
StPlays == St!ToSet(stDisp) \subseteq St!IdsIn(stRows) \cup stLingering
\* Until the first fault the streams without a window are in line.
StLine == stClean => /\ stLingering = {}
                     /\ StFulls(stRows, stDisp) /\ StLined(stRows, stDisp)
StInv == StTypes /\ StGone /\ StPlays /\ StLine

LEMMA StEmpty ==
    /\ <<>> \in StRows /\ St!IdsIn(<<>>) = {}
    /\ <<>> \in StLists /\ St!ToSet(<<>>) = {}
    /\ StFulls(<<>>, <<>>) /\ StLined(<<>>, <<>>)
<1>1. <<>> \in Seq(StRow) /\ <<>> \in Seq(Streams) /\ DOMAIN <<>> = {}
  OBVIOUS
<1>2. QED
  BY <1>1 DEF StRows, StLists, St!IdsIn, St!ToSet, StFulls, StLined

LEMMA StOne ==
    ASSUME NEW s \in Streams
    PROVE  /\ <<St!Row(s, 0)>> \in StRows
           /\ St!IdsIn(<<St!Row(s, 0)>>) = {s}
           /\ <<s>> \in StLists /\ St!ToSet(<<s>>) = {s}
           /\ \A rs : StLined(rs, <<s>>) /\ StLined(rs, <<>>)
<1>1. /\ St!Row(s, 0) \in StRow /\ St!Row(s, 0).id = s
      /\ St!Row(s, 0).win = Slot[s]
  BY DEF St!Row, StRow, St!Windows
<1> DEFINE row == St!Row(s, 0)
<1> HIDE DEF row
<1>2. row \in StRow /\ row.id = s /\ row.win = Slot[s]
  BY <1>1 DEF row
<1>3. /\ <<row>> \in Seq(StRow) /\ DOMAIN <<row>> = {1} /\ <<row>>[1] = row
      /\ <<s>> \in Seq(Streams) /\ DOMAIN <<s>> = {1} /\ <<s>>[1] = s
      /\ DOMAIN <<>> = {}
  BY <1>2
<1>4. <<row>> \in StRows /\ St!IdsIn(<<row>>) = {s}
  BY <1>2, <1>3 DEF StRows, St!IdsIn
<1>5. <<s>> \in StLists /\ St!ToSet(<<s>>) = {s}
  BY <1>3 DEF StLists, St!ToSet
<1>6. \A rs : StLined(rs, <<s>>) /\ StLined(rs, <<>>)
  BY <1>3 DEF StLined
<1>7. QED
  BY <1>4, <1>5, <1>6 DEF row

LEMMA StIds ==
    /\ \A rs \in StRows : St!IdsIn(rs) \subseteq Streams
    /\ \A list \in StLists : St!ToSet(list) \subseteq Streams
<1>1. ASSUME NEW rs \in StRows PROVE St!IdsIn(rs) \subseteq Streams
  <2>1. \A i \in DOMAIN rs : rs[i] \in StRow
    BY DEF StRows
  <2>2. QED
    BY <2>1 DEF StRow, St!IdsIn
<1>2. ASSUME NEW list \in StLists PROVE St!ToSet(list) \subseteq Streams
  <2>1. \A i \in DOMAIN list : list[i] \in Streams
    BY DEF StLists
  <2>2. QED
    BY <2>1 DEF St!ToSet
<1>3. QED
  BY <1>1, <1>2

LEMMA StInit == St!Init => StInv
<1> SUFFICES ASSUME St!Init PROVE StInv
  OBVIOUS
<1>1. stSaved \in StState /\ StRules /\ stNow \in 0..MaxTime
  BY StEmpty, StreamsAssumption DEF St!Init, StState, StRules
<1>2. StTypes
  BY <1>1, StEmpty DEF St!Init, StTypes
<1>3. StGone /\ StPlays /\ StLine
  BY StEmpty DEF St!Init, StGone, StPlays, StLine
<1>4. QED
  BY <1>2, <1>3 DEF StInv

\* What a step that fails n times leaves of the history.
LEMMA StFailed ==
    ASSUME StTypes, NEW n, St!Failed(n)
    PROVE  stClean' \in BOOLEAN /\ (stClean' => stClean /\ n = 0)
BY DEF StTypes, St!Failed

\* The invariant after a change of the rows, the list and the channel.
LEMMA StChanged ==
    ASSUME StInv, stRows' \in StRows, stDisp' \in StLists,
           stExists' \in BOOLEAN,
           ~stExists' => stRows' = <<>> /\ stDisp' = <<>>,
           stClean' \in BOOLEAN, stLingering' \subseteq Streams,
           StPlays', StLine',
           \/ stSaved' = [exists |-> stExists', rows |-> stRows']
           \/ stSaved' = stSaved /\ stExists' = stExists,
           stMatched' \subseteq Streams, stTodo' \subseteq stMatched',
           stPc' \in {"idle", "cleanup", "match", "order", "expire"},
           stPc' # "match" => stTodo' = {},
           stManual' \in BOOLEAN,
           UNCHANGED <<stNow, stPool, stRules>>
    PROVE  StInv'
<1>1. /\ stSaved' \in StState /\ stSaved'.exists = stExists'
      /\ ~stSaved'.exists => stSaved'.rows = <<>>
  BY DEF StInv, StTypes, StGone, StState
<1>2. StTypes'
  BY <1>1 DEF StInv, StTypes, StRules
<1>3. StGone'
  BY <1>1 DEF StGone
<1>4. QED
  BY <1>2, <1>3 DEF StInv

\* Streams that lose their row and their place leave the others in line.
LEMMA StLeft ==
    ASSUME NEW rs \in StRows, NEW list \in StLists, NEW S,
           St!ToSet(list) \subseteq St!IdsIn(rs),
           StFulls(rs, list), StLined(rs, list)
    PROVE  /\ StFulls(St!Without(rs, S), St!Dropping(list, S))
           /\ StLined(St!Without(rs, S), St!Dropping(list, S))
<1> DEFINE kept == St!Without(rs, S)
           q == St!Dropping(list, S)
<1>1. /\ St!IdsIn(kept) = St!IdsIn(rs) \ S
      /\ \A s, t : s \notin S /\ t \notin S /\ StAhead(rs, s, t)
                      => StAhead(kept, s, t)
  BY StWithout
<1>2. /\ St!ToSet(q) = St!ToSet(list) \ S
      /\ \A i, j \in DOMAIN q : i < j =>
            \E k, m \in DOMAIN list :
               k < m /\ q[i] = list[k] /\ q[j] = list[m]
  BY StDropping
<1> HIDE DEF kept, q
<1>3. StFulls(kept, q)
  BY <1>1, <1>2 DEF StFulls
<1>4. PICK pin : \A i, j \in DOMAIN list :
        i < j /\ Slot[list[i]] = St!Full /\ Slot[list[j]] = St!Full =>
           list[j] # pin /\ (list[i] = pin \/ StAhead(rs, list[i], list[j]))
  BY DEF StLined
<1>5. ASSUME NEW i \in DOMAIN q, NEW j \in DOMAIN q, i < j,
             Slot[q[i]] = St!Full, Slot[q[j]] = St!Full
      PROVE  q[j] # pin /\ (q[i] = pin \/ StAhead(kept, q[i], q[j]))
  <2>1. q[i] \notin S /\ q[j] \notin S
    BY <1>2 DEF St!ToSet
  <2>2. q[j] # pin /\ (q[i] = pin \/ StAhead(rs, q[i], q[j]))
    BY <1>2, <1>4, <1>5
  <2>3. QED
    BY <1>1, <2>1, <2>2
<1>6. StLined(kept, q)
  BY <1>5 DEF StLined
<1>7. QED
  BY <1>3, <1>6 DEF kept, q

LEMMA StCleanup == ASSUME StInv, St!Cleanup PROVE StInv'
<1> DEFINE dead == St!IdsIn(stRows) \ stMatched
<1>1. /\ stRows \in StRows /\ stDisp \in StLists /\ stExists \in BOOLEAN
      /\ stLingering \subseteq Streams /\ stMatched \subseteq Streams
      /\ stManual \in BOOLEAN
  BY DEF StInv, StTypes
<1>2. /\ stPc' = "match" /\ stTodo' = stMatched
      /\ stSaved' = [exists |-> stExists', rows |-> stRows']
      /\ UNCHANGED <<stMatched, stManual, stNow, stPool, stRules>>
  BY DEF St!Cleanup, St!envVars
<1>3. CASE /\ stExists' = FALSE /\ stRows' = <<>> /\ stDisp' = <<>>
           /\ stLingering' = {} /\ St!Failed(0)
  <2>1. StPlays' /\ StLine' /\ stClean' \in BOOLEAN
    BY <1>3, StEmpty, StFailed DEF StPlays, StLine, StInv
  <2>2. QED
    BY <1>1, <1>2, <1>3, <2>1, StEmpty, StChanged
<1>4. ASSUME NEW stay \in SUBSET (dead \cap St!ToSet(stDisp)),
             stRows' = St!Without(stRows, dead),
             stDisp' = St!Dropping(stDisp, dead \ stay),
             stLingering' = stLingering \cup stay,
             St!Failed(St!Cardinality(stay)), UNCHANGED stExists
      PROVE  StInv'
  <2> HIDE DEF dead
  <2>1. stRows' \in StRows /\ St!IdsIn(stRows') = St!IdsIn(stRows) \ dead
    BY <1>1, <1>4, StWithout
  <2>2. /\ stDisp' \in StLists
        /\ St!ToSet(stDisp') = St!ToSet(stDisp) \ (dead \ stay)
    BY <1>1, <1>4, StDropping
  <2>3. StPlays'
    BY <1>4, <2>1, <2>2 DEF StInv, StPlays
  <2>4. stLingering' \subseteq Streams
    BY <1>1, <1>4, StIds
  <2>5. ~stExists' => stRows' = <<>> /\ stDisp' = <<>>
    <3>1. SUFFICES ASSUME ~stExists'
                   PROVE  stRows' = <<>> /\ stDisp' = <<>>
      OBVIOUS
    <3>2. St!IdsIn(stRows') = {} /\ St!ToSet(stDisp') = {}
      BY <1>4, <2>1, <2>2, <3>1, StEmpty DEF StInv, StGone
    <3> DEFINE q == stRows'
               list == stDisp'
    <3> HIDE DEF q, list
    <3>3. /\ q \in Seq(StRow) /\ \A i \in DOMAIN q : FALSE
          /\ list \in Seq(Streams) /\ \A i \in DOMAIN list : FALSE
      BY <2>1, <2>2, <3>2 DEF q, list, StRows, StLists, St!IdsIn, St!ToSet
    <3>4. q = <<>>
      BY <3>3
    <3>5. list = <<>>
      BY <3>3
    <3>6. QED
      BY <3>4, <3>5 DEF q, list
  <2>6. stClean' \in BOOLEAN /\ (stClean' => stClean /\ stay = {})
    <3>1. /\ stClean' \in BOOLEAN
          /\ stClean' => stClean /\ St!Cardinality(stay) = 0
      BY <1>4, StFailed DEF StInv
    <3>2. St!Cardinality(stay) = Cardinality(stay)
      BY DEF St!Cardinality, Cardinality
    <3>3. IsFiniteSet(stay)
      <4>1. stDisp \in Surjection(1..Len(stDisp), St!ToSet(stDisp))
        BY <1>1 DEF StLists, St!ToSet, Surjection
      <4>2. IsFiniteSet(1..Len(stDisp))
        BY <1>1, FS_Interval DEF StLists
      <4>3. IsFiniteSet(St!ToSet(stDisp))
        BY <4>1, <4>2, FS_Surjection
      <4>4. QED
        BY <1>4, <4>3, FS_Subset
    <3>4. QED
      BY <3>1, <3>2, <3>3, FS_EmptySet
  <2>7. StLine'
    <3>1. SUFFICES ASSUME stClean'
                   PROVE  /\ stLingering' = {}
                          /\ StFulls(stRows', stDisp')
                          /\ StLined(stRows', stDisp')
      BY DEF StLine
    <3>2. /\ stay = {} /\ stLingering = {}
          /\ StFulls(stRows, stDisp) /\ StLined(stRows, stDisp)
          /\ St!ToSet(stDisp) \subseteq St!IdsIn(stRows)
      BY <2>6, <3>1 DEF StInv, StLine, StPlays
    <3>3. dead \ stay = dead
      BY <3>2
    <3>4. QED
      BY <1>1, <1>4, <3>2, <3>3, StLeft
  <2>8. QED
    BY <1>1, <1>2, <1>4, <2>1, <2>2, <2>3, <2>4, <2>5, <2>6, <2>7, StChanged
<1>5. QED
  BY <1>3, <1>4 DEF St!Cleanup

LEMMA StCreate ==
    ASSUME StInv, NEW s \in Streams, St!Create(s) PROVE StInv'
<1>1. /\ stExists' = TRUE /\ stRows' = <<St!Row(s, 0)>>
      /\ stDisp' = IF St!Open(Slot[s]) THEN <<s>> ELSE <<>>
      /\ stSaved' = [exists |-> stExists', rows |-> stRows']
      /\ stTodo' = stTodo \ {s} /\ stPc = "match"
      /\ UNCHANGED <<stMatched, stPc, stManual, stNow, stPool, stRules,
                     stClean, stLingering>>
  BY DEF St!Create, St!envVars
<1>2. stRows' \in StRows /\ stDisp' \in StLists /\ StPlays'
  BY <1>1, StOne, StEmpty DEF StPlays
<1>3. StFulls(stRows', stDisp')
  BY <1>1, StOne DEF StFulls, St!Open
<1>4. StLined(stRows', stDisp')
  BY <1>1, StOne
<1>5. StLine'
  BY <1>1, <1>3, <1>4 DEF StInv, StLine
<1>6. QED
  BY <1>1, <1>2, <1>5, StChanged DEF StInv, StTypes

\* The three calls fail not at all, or not for nothing.
LEMMA StThreeCalls ==
    ASSUME NEW a \in BOOLEAN, NEW b \in BOOLEAN, NEW c \in BOOLEAN,
           St!Cardinality({x \in 1..3 : ~(<<a, b, c>>[x])}) = 0
    PROVE  b
<1> DEFINE S == {x \in 1..3 : ~(<<a, b, c>>[x])}
<1>1. S \in SUBSET (1..3) /\ (b \/ 2 \in S)
  OBVIOUS
<1> HIDE DEF S
<1>2. IsFiniteSet(1..3)
  <2>1. \A n \in Nat : IsFiniteSet(1..n)
    BY FS_Interval
  <2>2. QED
    BY <2>1
<1>3. IsFiniteSet(S)
  BY <1>1, <1>2, FS_Subset
<1>4. Cardinality(S) = 0
  BY DEF S, St!Cardinality, Cardinality
<1>5. S = {}
  BY <1>3, <1>4, FS_EmptySet
<1>6. QED
  BY <1>1, <1>5

LEMMA StAddStream ==
    ASSUME StInv, NEW s \in Streams, St!AddStream(s) PROVE StInv'
<1>1. /\ stRows \in StRows /\ stDisp \in StLists
      /\ stLingering \subseteq Streams /\ StRules
  BY DEF StInv, StTypes
<1>2. /\ stExists /\ s \notin St!IdsIn(stRows) /\ stTodo' = stTodo \ {s}
      /\ stPc = "match"
      /\ UNCHANGED <<stExists, stSaved, stMatched, stPc, stManual, stNow,
                     stPool, stRules>>
  BY DEF St!AddStream, St!envVars
<1> DEFINE phantoms(asked) ==
             IF asked THEN St!Active(stRows) \ St!ToSet(stDisp) ELSE {}
           kept(asked) == St!Without(stRows, phantoms(asked))
           p == St!PriorityOf(s, stRows)
           calls(a, b, c) == {x \in 1..3 : ~(<<a, b, c>>[x])}
<1>3. PICK asked, pushed, repaired \in St!Outcomes :
        /\ stRows' = IF pushed THEN Append(kept(asked), St!Row(s, p))
                     ELSE kept(asked)
        /\ stDisp' = IF pushed THEN St!SlotBelow(St!Ordered(stRows'), s)
                     ELSE St!DriftAdd(s, stDisp, repaired)
        /\ stLingering' =
             IF pushed THEN stLingering \cap St!ToSet(stDisp')
             ELSE stLingering \cup (St!ToSet(stDisp') \ St!IdsIn(stRows'))
        /\ St!Failed(St!Cardinality(calls(asked, pushed, repaired)))
  BY DEF St!AddStream
<1>4. {asked, pushed, repaired} \subseteq BOOLEAN
  BY DEF St!Outcomes
<1>5. /\ kept(asked) \in StRows
      /\ s \notin St!IdsIn(kept(asked))
  BY <1>1, <1>2, StWithout
<1>6. p \in Nat
  BY <1>1, StPriority
<1>7. stClean' \in BOOLEAN /\ (stClean' => stClean /\ pushed)
  BY <1>3, <1>4, StFailed, StThreeCalls DEF StInv
<1> HIDE DEF kept, p, calls
<1>8. CASE pushed
  <2>1. stRows' \in StRows
    BY <1>3, <1>5, <1>6, <1>8, StRowAdded
  <2>2. StPushes(stRows', stDisp')
    BY <1>3, <1>8, <2>1, StBelow
  <2>3. /\ stDisp' \in StLists /\ St!ToSet(stDisp') \subseteq St!IdsIn(stRows')
        /\ StFulls(stRows', stDisp') /\ StLined(stRows', stDisp')
    BY <2>1, <2>2, StPushed
  <2>4. stLingering' \subseteq stLingering
    BY <1>3, <1>8
  <2>5. StPlays'
    BY <2>3 DEF StPlays
  <2>6. StLine'
    BY <1>7, <2>3, <2>4 DEF StInv, StLine
  <2>7. QED
    BY <1>1, <1>2, <1>7, <2>1, <2>3, <2>4, <2>5, <2>6, StChanged
    DEF StInv, StTypes
<1>9. CASE ~pushed
  <2>1. stDisp' \in StLists
    BY <1>1, <1>3, <1>9, StDriftAdd
  <2>2. stRows' \in StRows
    BY <1>3, <1>5, <1>9
  <2>3. /\ stLingering' \subseteq Streams
        /\ St!ToSet(stDisp') \subseteq St!IdsIn(stRows') \cup stLingering'
    BY <1>1, <1>3, <1>9, <2>1, StIds
  <2>4. StPlays' /\ StLine'
    BY <1>7, <1>9, <2>3 DEF StPlays, StLine
  <2>5. QED
    BY <1>1, <1>2, <1>7, <2>1, <2>2, <2>3, <2>4, StChanged
    DEF StInv, StTypes
<1>10. QED
  BY <1>4, <1>8, <1>9

LEMMA StKeepStream ==
    ASSUME StInv, NEW s \in Streams, St!KeepStream(s) PROVE StInv'
<1>1. /\ s \in St!IdsIn(stRows) /\ stTodo' = stTodo \ {s}
      /\ stPc = "match" /\ stExists
      /\ UNCHANGED <<stExists, stRows, stSaved, stMatched, stPc, stManual,
                     stNow, stPool, stRules, stLingering>>
  BY DEF St!KeepStream, St!envVars
<1>2. PICK repaired \in St!Outcomes :
        /\ stDisp' = St!DriftAdd(s, stDisp, repaired)
        /\ \E n : St!Failed(n)
  BY DEF St!KeepStream
<1>3. /\ stDisp' \in StLists
      /\ St!ToSet(stDisp') \subseteq St!ToSet(stDisp) \cup {s}
  BY <1>2, StDriftAdd DEF StInv, StTypes
<1>4. StPlays'
  BY <1>1, <1>3 DEF StInv, StPlays
<1>5. stClean' \in BOOLEAN /\ (stClean' => stClean)
  BY <1>2, StFailed DEF StInv
<1>6. stClean => stDisp' = stDisp
  BY <1>1, <1>2 DEF StInv, StLine, StFulls, St!DriftAdd
<1>7. StLine'
  BY <1>1, <1>5, <1>6 DEF StInv, StLine
<1>8. QED
  BY <1>1, <1>3, <1>4, <1>5, <1>7, StChanged DEF StInv, StTypes, StGone

LEMMA StApplyOrdering == ASSUME StInv, St!ApplyOrdering PROVE StInv'
<1>1. /\ stPc' = "expire" /\ stPc = "order" /\ stRows' = St!Reranked
      /\ stLingering' = stLingering \cap St!ToSet(stDisp')
      /\ stSaved' = [exists |-> stExists, rows |-> stRows']
      /\ UNCHANGED <<stExists, stMatched, stTodo, stManual, stNow, stPool,
                     stRules>>
  BY DEF St!ApplyOrdering, St!envVars
<1>2. /\ \/ stDisp' = St!Pinned(St!Ordered(stRows')) /\ stExists
         \/ stDisp' = stDisp /\ (stClean' => ~stExists \/ stRows' = stRows)
      /\ \E n : St!Failed(n)
  <2>1. \/ /\ stExists
           /\ \E pushed \in St!Outcomes :
                /\ stDisp' = IF pushed THEN St!Pinned(St!Ordered(stRows'))
                             ELSE stDisp
                /\ St!Failed(IF pushed THEN 0 ELSE 1)
        \/ /\ stDisp' = stDisp /\ St!Failed(0)
           /\ ~stExists \/ stRows' = stRows
    BY DEF St!ApplyOrdering
  <2>2. St!Failed(1) => ~stClean'
    BY StFailed DEF StInv
  <2>3. QED
    BY <2>1, <2>2
<1>3. /\ stRows' \in StRows
      /\ St!IdsIn(stRows') = St!IdsIn(stRows)
      /\ stRows = <<>> => stRows' = <<>>
  BY <1>1, StReranked DEF StInv, StTypes
<1>4. stClean' \in BOOLEAN /\ (stClean' => stClean)
  BY <1>2, StFailed DEF StInv
<1>5. CASE /\ stDisp' = stDisp
           /\ stClean' => ~stExists \/ stRows' = stRows
  <2>1. StPlays'
    BY <1>1, <1>3, <1>5 DEF StInv, StPlays
  <2>2. ~stExists => stRows' = stRows
    BY <1>3 DEF StInv, StGone
  <2>3. StLine'
    BY <1>1, <1>4, <1>5, <2>2 DEF StInv, StLine
  <2>4. QED
    BY <1>1, <1>3, <1>4, <1>5, <2>1, <2>3, StChanged
    DEF StInv, StTypes, StGone
<1>6. CASE stDisp' = St!Pinned(St!Ordered(stRows')) /\ stExists
  <2>1. /\ stDisp' \in StLists /\ St!ToSet(stDisp') \subseteq St!IdsIn(stRows')
        /\ StFulls(stRows', stDisp') /\ StLined(stRows', stDisp')
    BY <1>3, <1>6, StPinned, StPushed
  <2>2. StPlays'
    BY <2>1 DEF StPlays
  <2>3. StLine'
    BY <1>1, <1>4, <2>1 DEF StInv, StLine
  <2>4. QED
    BY <1>1, <1>3, <1>4, <1>6, <2>1, <2>2, <2>3, StChanged
    DEF StInv, StTypes, StGone
<1>7. QED
  BY <1>2, <1>5, <1>6

LEMMA StExpire == ASSUME StInv, St!Expire PROVE StInv'
<1>1. /\ stPc' = "idle" /\ stMatched' = {} /\ stManual' = FALSE
      /\ stSaved' = [exists |-> stExists', rows |-> stRows']
      /\ UNCHANGED <<stNow, stPool, stRules>>
      /\ stClean' = stClean /\ stTodo' = stTodo
  BY DEF St!Expire, St!envVars
<1>2. stTodo' = {} /\ stClean' \in BOOLEAN
  BY <1>1 DEF St!Expire, StInv, StTypes, StGone
<1>3. CASE UNCHANGED <<stExists, stRows, stDisp, stLingering>>
  <2>1. StPlays' /\ StLine'
    BY <1>1, <1>3 DEF StInv, StPlays, StLine
  <2>2. /\ stRows' \in StRows /\ stDisp' \in StLists
        /\ stExists' \in BOOLEAN /\ stLingering' \subseteq Streams
        /\ ~stExists' => stRows' = <<>> /\ stDisp' = <<>>
    BY <1>3 DEF StInv, StTypes, StGone
  <2>3. QED
    BY <1>1, <1>2, <2>1, <2>2, StChanged
<1>4. CASE /\ stExists' = FALSE /\ stRows' = <<>> /\ stDisp' = <<>>
           /\ stLingering' = {}
  <2>1. StPlays' /\ StLine'
    BY <1>4, StEmpty DEF StPlays, StLine
  <2>2. QED
    BY <1>1, <1>2, <1>4, <2>1, StEmpty, StChanged
<1>5. QED
  BY <1>3, <1>4 DEF St!Expire

LEMMA StCrash == ASSUME StInv, St!Crash PROVE StInv'
<1>1. /\ stPc' = "idle" /\ stMatched' = {} /\ stTodo' = {}
      /\ stManual' = FALSE
      /\ stExists' = stSaved.exists /\ stRows' = stSaved.rows
      /\ stLingering' = stLingering
           \cup (St!ToSet(stDisp) \ St!IdsIn(stSaved.rows))
      /\ UNCHANGED <<stSaved, stDisp, stNow, stPool, stRules>>
      /\ St!Failed(1)
  BY DEF St!Crash, St!envVars
<1>2. stExists' \in BOOLEAN /\ stRows' \in StRows /\ stExists' = stExists
  BY <1>1 DEF StInv, StTypes, StState, StGone
<1>3. ~stExists' => stRows' = <<>> /\ stDisp' = <<>>
  BY <1>1 DEF StInv, StGone
<1>4. StPlays'
  BY <1>1 DEF StPlays
<1>5. stLingering' \subseteq Streams
  BY <1>1, StIds DEF StInv, StTypes
<1>6. stClean' \in BOOLEAN /\ StLine'
  BY <1>1, StFailed DEF StInv, StLine
<1>7. QED
  BY <1>1, <1>2, <1>3, <1>4, <1>5, <1>6, StChanged DEF StInv, StTypes

LEMMA StFixDrift == ASSUME StInv, St!FixDrift PROVE StInv'
<1>1. /\ stDisp' = St!Ascending(St!Active(stRows)) /\ stExists
      /\ stClean' = FALSE /\ stLingering' = {}
      /\ UNCHANGED <<stExists, stRows, stSaved, stMatched, stPc, stTodo,
                     stManual, stNow, stPool, stRules>>
  BY DEF St!FixDrift, St!envVars, St!genVars
<1>2. /\ stDisp' \in StLists
      /\ St!ToSet(stDisp') \subseteq St!IdsIn(stRows)
  BY <1>1, StIdsSorted DEF StInv, StTypes
<1>3. StPlays' /\ StLine'
  BY <1>1, <1>2 DEF StPlays, StLine
<1>4. QED
  BY <1>1, <1>2, <1>3, StChanged DEF StInv, StTypes, StGone

LEMMA StDropOutside ==
    ASSUME StInv, NEW s \in Streams, St!DropOutside(s) PROVE StInv'
<1>1. /\ stDisp' = St!Dropping(stDisp, {s}) /\ s \in St!ToSet(stDisp)
      /\ stLingering' = stLingering \ {s} /\ St!Failed(1)
      /\ UNCHANGED <<stExists, stRows, stSaved, stMatched, stPc, stTodo,
                     stManual, stNow, stPool, stRules>>
  BY DEF St!DropOutside, St!envVars, St!genVars
<1>2. /\ stDisp' \in StLists
      /\ St!ToSet(stDisp') = St!ToSet(stDisp) \ {s}
  BY <1>1, StDropping DEF StInv, StTypes
<1>3. StPlays'
  BY <1>1, <1>2 DEF StInv, StPlays
<1>4. stClean' \in BOOLEAN /\ StLine'
  BY <1>1, StFailed DEF StInv, StLine
<1>5. stExists
  BY <1>1, StEmpty DEF StInv, StTypes, StGone
<1>6. QED
  BY <1>1, <1>2, <1>3, <1>4, <1>5, StChanged DEF StInv, StTypes, StGone

LEMMA StNext == StInv /\ (St!Next \/ UNCHANGED StVars) => StInv'
<1> SUFFICES ASSUME StInv, St!Next \/ UNCHANGED StVars PROVE StInv'
  OBVIOUS
<1>1. CASE UNCHANGED StVars
  BY <1>1 DEF StVars, StInv, StTypes, StGone, StPlays, StLine, StRules
<1>2. CASE St!StartRun \/ St!EndMatch
  <2>1. /\ UNCHANGED <<stExists, stRows, stDisp, stNow, stPool, stRules,
                       stClean, stLingering>>
        /\ stPc' \in {"cleanup", "order"}
        /\ \/ stSaved' = stSaved
           \/ stSaved' = [exists |-> stExists, rows |-> stRows]
    BY <1>2 DEF St!StartRun, St!EndMatch, St!envVars
  <2>2. stTodo' = {} /\ stManual' \in BOOLEAN /\ stMatched' \subseteq Streams
    BY <1>2 DEF St!StartRun, St!EndMatch, StInv, StTypes, StGone
  <2>3. StPlays' /\ StLine'
    BY <2>1 DEF StInv, StPlays, StLine
  <2>4. /\ stRows' \in StRows /\ stDisp' \in StLists
        /\ stExists' \in BOOLEAN /\ stLingering' \subseteq Streams
        /\ ~stExists' => stRows' = <<>> /\ stDisp' = <<>>
        /\ stClean' \in BOOLEAN
    BY <2>1 DEF StInv, StTypes, StGone
  <2>5. QED
    BY <2>1, <2>2, <2>3, <2>4, StChanged
<1>3. CASE \E s \in Streams : St!Skip(s)
  <2>1. /\ UNCHANGED <<stExists, stRows, stSaved, stDisp, stMatched, stPc,
                       stManual, stNow, stPool, stRules, stClean, stLingering>>
        /\ stTodo' \subseteq stTodo /\ stPc = "match"
    BY <1>3 DEF St!Skip, St!envVars
  <2>2. StPlays' /\ StLine'
    BY <2>1 DEF StInv, StPlays, StLine
  <2>3. QED
    BY <2>1, <2>2, StChanged DEF StInv, StTypes, StGone
<1>4. CASE St!Tick \/ St!Change
  <2>1. UNCHANGED <<stExists, stRows, stSaved, stDisp, stMatched, stPc,
                    stTodo, stManual, stClean, stLingering>>
    BY <1>4 DEF St!Tick, St!Change, St!genVars
  <2>2. stNow' \in 0..MaxTime
    <3>1. stNow' = stNow \/ (stNow < MaxTime /\ stNow' = stNow + 1)
      BY <1>4 DEF St!Tick, St!Change
    <3>2. stNow \in 0..MaxTime
      BY DEF StInv, StTypes
    <3>3. QED
      BY <3>1, <3>2, StreamsAssumption
  <2>3. stPool' \subseteq Streams /\ StRules'
    <3>1. stPool \subseteq Streams /\ StRules
      BY DEF StInv, StTypes
    <3>2. stPool' = stPool \/ stPool' \subseteq Streams
      BY <1>4 DEF St!Tick, St!Change
    <3>3. stRules' = stRules \/ stRules' \in Rankings \cup {St!NoRules}
      BY <1>4 DEF St!Tick, St!Change
    <3>4. QED
      BY <3>1, <3>2, <3>3 DEF StRules
  <2>4. StPlays' /\ StLine'
    BY <2>1 DEF StInv, StPlays, StLine
  <2>5. QED
    BY <2>1, <2>2, <2>3, <2>4 DEF StInv, StTypes, StGone
<1>5. CASE St!Cleanup \/ St!ApplyOrdering \/ St!Expire
  BY <1>5, StCleanup, StApplyOrdering, StExpire
<1>6. CASE \E s \in Streams :
             St!Create(s) \/ St!AddStream(s) \/ St!KeepStream(s)
  BY <1>6, StCreate, StAddStream, StKeepStream
<1>7. CASE \/ St!Crash \/ St!FixDrift
           \/ \E s \in Streams : St!DropOutside(s)
  BY <1>7, StCrash, StFixDrift, StDropOutside
<1>8. QED
  BY <1>1, <1>2, <1>3, <1>4, <1>5, <1>6, <1>7 DEF St!Next, St!Generation

LEMMA StInvariant == SumSpec => []StInv
<1>1. SumInit => St!Init
  BY DEF SumInit
<1>2. [SumNext]_all => St!Next \/ UNCHANGED StVars
  BY Zenon DEF SumNext, all
<1>3. QED
  BY <1>1, <1>2, StInit, StNext, PTL DEF SumSpec

\* As many values as places, if every place has a value of its own.
LEMMA StCounted ==
    ASSUME NEW n \in Nat, NEW T, NEW f \in Surjection(1..n, T),
           \A i, j \in 1..n : i # j => f[i] # f[j]
    PROVE  St!Cardinality(T) = n
<1>1. f \in Bijection(1..n, T)
  BY DEF Bijection, Injection, IsInjective, Surjection
<1>2. Cardinality(1..n) = n /\ IsFiniteSet(1..n)
  BY FS_Interval
<1>3. Cardinality(T) = n
  BY <1>1, <1>2, FS_Bijection DEF ExistsBijection
<1>4. St!Cardinality(T) = Cardinality(T)
  BY DEF St!Cardinality, Cardinality
<1>5. QED
  BY <1>3, <1>4

\* A function that goes up from 1..n to 1..n goes nowhere.
LEMMA StFixed ==
    ASSUME NEW n \in Nat, NEW f \in [1..n -> 1..n],
           \A i, j \in 1..n : i < j => f[i] < f[j]
    PROVE  \A k \in 1..n : f[k] = k
<1> TAKE k \in 1..n
<1>1. f[k] \in 1..n
  OBVIOUS
<1>2. \A a, b \in Nat : /\ IsFiniteSet((a + 1)..b)
                        /\ a <= b => Cardinality((a + 1)..b) = b - a
  <2> TAKE a, b \in Nat
  <2>1. a + 1 \in Int /\ b \in Int
    OBVIOUS
  <2>2. /\ IsFiniteSet((a + 1)..b)
        /\ Cardinality((a + 1)..b)
             = IF a + 1 > b THEN 0 ELSE b - (a + 1) + 1
    BY <2>1, FS_Interval
  <2>3. a <= b =>
          (IF a + 1 > b THEN 0 ELSE b - (a + 1) + 1) = b - a
    OBVIOUS
  <2>4. QED
    BY <2>2, <2>3
<1>3. k <= f[k]
  <2> DEFINE g == [i \in 1..(k - 1) |-> f[i]]
             S == 1..(k - 1)
             T == 1..(f[k] - 1)
  <2>1. \A i \in S : g[i] \in T
    BY <1>1
  <2>2. \A i, j \in S : g[i] = g[j] => i = j
    <3> TAKE i, j \in S
    <3>1. /\ i \in 1..n /\ j \in 1..n /\ f[i] \in Nat /\ f[j] \in Nat
          /\ g[i] = f[i] /\ g[j] = f[j]
      OBVIOUS
    <3>2. f[i] = f[j] => ~(i < j) /\ ~(j < i)
      BY <3>1
    <3>3. QED
      BY <3>1, <3>2
  <2>3. IsFiniteSet(T) /\ Cardinality(T) = f[k] - 1 /\ Cardinality(S) = k - 1
    <3>1. \A m \in Nat : IsFiniteSet(1..m) /\ Cardinality(1..m) = m
      <4> TAKE m \in Nat
      <4>1. 0 \in Nat /\ 0 + 1 = 1 /\ 0 <= m /\ m - 0 = m
        OBVIOUS
      <4>2. IsFiniteSet((0 + 1)..m) /\ Cardinality((0 + 1)..m) = m - 0
        BY <1>2, <4>1
      <4>3. QED
        BY <4>1, <4>2
    <3>2. k - 1 \in Nat /\ f[k] - 1 \in Nat
      BY <1>1
    <3>3. QED
      BY <3>1, <3>2
  <2>4. g \in [S -> T] /\ DOMAIN g = S
    BY <2>1
  <2> HIDE DEF g, S, T
  <2>5. g \in Injection(S, T)
    BY <2>2, <2>4 DEF Injection, IsInjective
  <2>6. Cardinality(S) <= Cardinality(T)
    BY <2>3, <2>5, FS_Injection
  <2>7. QED
    BY <1>1, <2>3, <2>6
<1>4. f[k] <= k
  <2> DEFINE g == [i \in (k + 1)..n |-> f[i]]
             S == (k + 1)..n
             T == (f[k] + 1)..n
  <2>1. \A i \in S : g[i] \in T
    BY <1>1
  <2>2. \A i, j \in S : g[i] = g[j] => i = j
    <3> TAKE i, j \in S
    <3>1. /\ i \in 1..n /\ j \in 1..n /\ f[i] \in Nat /\ f[j] \in Nat
          /\ g[i] = f[i] /\ g[j] = f[j]
      OBVIOUS
    <3>2. f[i] = f[j] => ~(i < j) /\ ~(j < i)
      BY <3>1
    <3>3. QED
      BY <3>1, <3>2
  <2>3. IsFiniteSet(T) /\ Cardinality(T) = n - f[k] /\ Cardinality(S) = n - k
    BY <1>1, <1>2
  <2>4. g \in [S -> T] /\ DOMAIN g = S
    BY <2>1
  <2> HIDE DEF g, S, T
  <2>5. g \in Injection(S, T)
    BY <2>2, <2>4 DEF Injection, IsInjective
  <2>6. Cardinality(S) <= Cardinality(T)
    BY <2>3, <2>5, FS_Injection
  <2>7. QED
    BY <1>1, <2>3, <2>6
<1>5. QED
  BY <1>1, <1>3, <1>4

\* A list of the streams of all rows, none of which has a window, is in line
\* only as a push would send it.
LEMMA StSettled ==
    ASSUME NEW rs \in StRows, NEW list \in StLists,
           \A i \in DOMAIN rs : rs[i].win = St!Full,
           St!ToSet(list) \subseteq St!IdsIn(rs),
           StFulls(rs, list), StLined(rs, list)
    PROVE  StPushes(rs, list)
<1> DEFINE want == St!Ordered(rs)
           n == Len(want)
<1>1. \A i \in DOMAIN rs : Slot[rs[i].id] = St!Full
  BY DEF StRows
<1>2. St!Active(rs) = St!IdsIn(rs) /\ St!ToSet(list) = St!IdsIn(rs)
  BY <1>1 DEF St!Active, St!Open, St!IdsIn, StFulls
<1>3. want \in StLists /\ St!ToSet(want) = St!ToSet(list) /\ StAlong(rs, want)
  BY <1>2, StOrdered
<1> HIDE DEF want
<1>4. /\ n \in Nat /\ DOMAIN want = 1..n /\ want \in Seq(Streams)
      /\ \A i, j \in 1..n : i # j => want[i] # want[j]
      /\ Len(list) \in Nat /\ DOMAIN list = 1..Len(list)
      /\ list \in Seq(Streams)
      /\ \A i, j \in 1..Len(list) : i # j => list[i] # list[j]
  BY <1>3 DEF StLists
<1>5. Len(list) = n
  <2>1. want \in Surjection(1..n, St!ToSet(want))
    BY <1>4 DEF St!ToSet, Surjection
  <2>2. list \in Surjection(1..Len(list), St!ToSet(list))
    BY <1>4 DEF St!ToSet, Surjection
  <2>3. St!Cardinality(St!ToSet(want)) = n
    BY <1>4, <2>1, StCounted
  <2>4. St!Cardinality(St!ToSet(list)) = Len(list)
    BY <1>4, <2>2, StCounted
  <2>5. QED
    BY <1>3, <2>3, <2>4
<1> HIDE DEF n
<1>6. /\ DOMAIN list = 1..n /\ \A k \in 1..n : list[k] \in St!IdsIn(rs)
      /\ \A k \in 1..n : Slot[list[k]] = St!Full
  <2>1. DOMAIN list = 1..n /\ \A k \in 1..n : list[k] \in St!IdsIn(rs)
    BY <1>2, <1>4, <1>5 DEF St!ToSet
  <2>2. \A s \in St!IdsIn(rs) : Slot[s] = St!Full
    BY <1>1 DEF St!IdsIn
  <2>3. QED
    BY <2>1, <2>2
<1>7. PICK pin : \A i, j \in 1..n : i < j =>
        list[j] # pin /\ (list[i] = pin \/ StAhead(rs, list[i], list[j]))
  BY <1>6 DEF StLined
<1> DEFINE pos(k) == CHOOSE m \in 1..n : want[m] = list[k]
<1>8. \A k \in 1..n : pos(k) \in 1..n /\ want[pos(k)] = list[k]
  <2> TAKE k \in 1..n
  <2>1. list[k] \in St!ToSet(want)
    BY <1>2, <1>3, <1>6
  <2>2. \E m \in 1..n : want[m] = list[k]
    BY <1>4, <1>5, <2>1 DEF St!ToSet, n
  <2>3. QED
    BY <2>2
<1> HIDE DEF pos
<1>9. ASSUME NEW k \in 1..n, NEW m \in 1..n, StAhead(rs, list[k], list[m])
      PROVE  pos(k) < pos(m)
  <2>1. ~StAhead(rs, list[m], list[k])
    BY <1>9, StAheadOnce
  <2>2. pos(m) < pos(k) => StAhead(rs, list[m], list[k])
    BY <1>3, <1>4, <1>8 DEF StAlong
  <2>3. pos(k) = pos(m) => list[k] = list[m]
    BY <1>8
  <2>4. pos(k) # pos(m)
    BY <1>9, <2>1, <2>3
  <2>5. pos(k) \in Nat /\ pos(m) \in Nat
    BY <1>4, <1>8
  <2>6. QED
    BY <2>1, <2>2, <2>4, <2>5
<1>10. CASE \A k \in 1..n : list[k] # pin
  <2> DEFINE f == [k \in 1..n |-> pos(k)]
  <2>1. f \in [1..n -> 1..n]
    BY <1>8
  <2>2. \A i, j \in 1..n : i < j => f[i] < f[j]
    BY <1>7, <1>9, <1>10
  <2>3. \A k \in 1..n : f[k] = k
    <3> HIDE DEF f
    <3>1. QED
      BY <1>4, <2>1, <2>2, StFixed
  <2>4. \A k \in 1..n : want[k] = list[k]
    BY <1>8, <2>3
  <2>5. want = list
    BY <1>4, <1>6, <2>4
  <2>6. QED
    BY <2>5 DEF StPushes, want
<1>11. CASE \E k \in 1..n : list[k] = pin
  <2>1. 1 \in 1..n /\ list[1] = pin
    <3>1. PICK k \in 1..n : list[k] = pin
      BY <1>11
    <3>2. 1 \in 1..n /\ ~(1 < k)
      BY <1>4, <1>7, <3>1
    <3>3. k = 1
      BY <1>4, <3>2
    <3>4. QED
      BY <3>1, <3>2, <3>3
  <2>2. pin \in St!ToSet(want)
    BY <1>3, <1>6, <2>1 DEF St!ToSet
  <2>3. PICK old \in 1..n : /\ want[old] = pin
          /\ St!ToFront(want, pin) = [k \in 1..n |->
               IF k = 1 THEN pin ELSE want[IF k <= old THEN k - 1 ELSE k]]
    <3>1. DOMAIN want = 1..n
      BY <1>4, <1>5
    <3>2. \E old \in DOMAIN want : /\ want[old] = pin
            /\ St!ToFront(want, pin) = [k \in DOMAIN want |->
                 IF k = 1 THEN pin ELSE want[IF k <= old THEN k - 1 ELSE k]]
      BY <1>3, <2>2, StToFront
    <3>3. QED
      BY <3>1, <3>2
  <2>4. \A k \in 2..n : /\ k \in 1..n /\ list[k] # pin
                        /\ pos(k) \in 1..n /\ pos(k) # old
    BY <1>4, <1>7, <1>8, <2>1, <2>3
  <2>5. \A i, j \in 2..n : i < j => pos(i) < pos(j)
    BY <1>7, <1>9, <2>4
  <2> DEFINE h(k) == IF pos(k) > old THEN pos(k) - 1 ELSE pos(k)
             f == [k \in 1..(n - 1) |-> h(k + 1)]
  <2>6. \A k \in 1..(n - 1) : k + 1 \in 2..n
    BY <1>4
  <2>7. f \in [1..(n - 1) -> 1..(n - 1)]
    <3>1. \A k \in 2..n : h(k) \in 1..(n - 1)
      BY <1>4, <2>3, <2>4
    <3> HIDE DEF h
    <3>2. QED
      BY <2>6, <3>1
  <2>8. \A i, j \in 1..(n - 1) : i < j => f[i] < f[j]
    <3>1. \A i, j \in 2..n : i < j => h(i) < h(j)
      <4> TAKE i, j \in 2..n
      <4> HAVE i < j
      <4>1. /\ pos(i) \in Nat /\ pos(j) \in Nat /\ old \in Nat
            /\ pos(i) # old /\ pos(j) # old /\ pos(i) < pos(j)
        BY <1>4, <2>3, <2>4, <2>5
      <4>2. QED
        BY <4>1
    <3> HIDE DEF h
    <3>2. \A i, j \in 1..(n - 1) : i < j => i + 1 < j + 1
      BY <1>4
    <3>3. QED
      BY <2>6, <3>1, <3>2
  <2>9. n - 1 \in Nat
    BY <1>4, <2>1
  <2>10. \A k \in 1..(n - 1) : f[k] = k
    <3> HIDE DEF f
    <3>1. QED
      BY <2>7, <2>8, <2>9, StFixed
  <2>11. \A k \in 2..n : h(k) = k - 1
    <3> TAKE k \in 2..n
    <3>1. k - 1 \in 1..(n - 1) /\ (k - 1) + 1 = k
      BY <1>4
    <3>2. f[k - 1] = h((k - 1) + 1)
      BY <3>1
    <3> HIDE DEF f, h
    <3>3. QED
      BY <2>10, <3>1, <3>2
  <2>12. \A k \in 2..n : list[k] = want[IF k <= old THEN k - 1 ELSE k]
    <3> TAKE k \in 2..n
    <3>1. /\ pos(k) \in Nat /\ old \in Nat /\ k \in Nat /\ pos(k) # old
          /\ h(k) = k - 1 /\ list[k] = want[pos(k)]
      <4>1. k \in 1..n /\ pos(k) \in 1..n /\ pos(k) # old
        BY <2>4
      <4>2. list[k] = want[pos(k)]
        BY <1>8, <4>1
      <4>3. h(k) = k - 1
        BY <2>11
      <4>4. \A m \in 1..n : m \in Nat
        BY <1>4
      <4> HIDE DEF h, f
      <4>5. QED
        BY <2>3, <4>1, <4>2, <4>3, <4>4
    <3>2. pos(k) = IF k <= old THEN k - 1 ELSE k
      BY <3>1
    <3>3. QED
      BY <3>1, <3>2
  <2>13. \A k \in 1..n : k = 1 \/ k \in 2..n
    BY <1>4
  <2> DEFINE q == [k \in 1..n |->
                     IF k = 1 THEN pin ELSE want[IF k <= old THEN k - 1 ELSE k]]
  <2>14. \A k \in 1..n : list[k] = q[k]
    BY <2>1, <2>12, <2>13
  <2>15. list = q
    <3>1. DOMAIN q = 1..n /\ q = [k \in 1..n |-> q[k]]
      OBVIOUS
    <3> HIDE DEF q
    <3>2. list = [k \in 1..n |-> list[k]]
      BY <1>4, <1>5
    <3>3. QED
      BY <2>14, <3>1, <3>2
  <2>16. QED
    BY <2>2, <2>3, <2>15 DEF StPushes, want
<1>12. QED
  BY <1>10, <1>11

\* The ordering pass leaves what a push sends, whether it pushes or not.
LEMMA StPass ==
    ASSUME StInv, St!Next \/ UNCHANGED StVars,
           stPc = "order", stPc' = "expire", stClean'
    PROVE  StPushes(stRows', stDisp')
<1>1. St!ApplyOrdering
  BY DEF St!Next, St!Generation, StVars, St!StartRun, St!Cleanup, St!EndMatch,
     St!Expire, St!Create, St!Skip, St!AddStream, St!KeepStream, St!Crash,
     St!FixDrift, St!DropOutside, St!Tick, St!Change, St!genVars
<1>2. \/ \E pushed \in St!Outcomes :
           /\ stDisp' = IF pushed THEN St!Pinned(St!Ordered(stRows'))
                        ELSE stDisp
           /\ St!Failed(IF pushed THEN 0 ELSE 1)
      \/ /\ stDisp' = stDisp /\ St!Failed(0)
         /\ \/ ~stExists
            \/ stRows' = stRows /\ \A i \in DOMAIN stRows :
                                       stRows[i].win = St!Full
  BY <1>1 DEF St!ApplyOrdering
<1>3. St!Failed(1) => ~stClean'
  BY StFailed DEF StInv
<1>4. CASE stDisp' = St!Pinned(St!Ordered(stRows'))
  BY <1>4, StPinned
<1>5. CASE /\ stDisp' = stDisp /\ St!Failed(0)
           /\ \/ ~stExists
              \/ stRows' = stRows /\ \A i \in DOMAIN stRows :
                                         stRows[i].win = St!Full
  <2>1. ~stExists => stRows = <<>>
    BY DEF StInv, StGone
  <2>2. stRows = <<>> => stRows' = <<>> /\ DOMAIN stRows = {}
    BY <1>1, StReranked DEF St!ApplyOrdering, StInv, StTypes
  <2>3. /\ stRows' = stRows
        /\ \A i \in DOMAIN stRows : stRows[i].win = St!Full
    BY <1>5, <2>1, <2>2
  <2>4. stClean
    BY <1>5, StFailed DEF StInv
  <2>5. /\ stRows \in StRows /\ stDisp \in StLists
        /\ St!ToSet(stDisp) \subseteq St!IdsIn(stRows)
        /\ StFulls(stRows, stDisp) /\ StLined(stRows, stDisp)
    BY <2>4 DEF StInv, StTypes, StPlays, StLine
  <2>6. StPushes(stRows, stDisp)
    BY <2>3, <2>5, StSettled
  <2>7. QED
    BY <1>5, <2>3, <2>6
<1>6. QED
  BY <1>2, <1>3, <1>4, <1>5

LEMMA StTyped == StInv => St!TypeOK
<1> SUFFICES ASSUME StInv PROVE St!TypeOK
  OBVIOUS
<1>1. St!Cardinality(St!IdsIn(stRows)) = Len(stRows)
  <2> DEFINE f == [i \in 1..Len(stRows) |-> stRows[i].id]
  <2>1. /\ Len(stRows) \in Nat /\ DOMAIN stRows = 1..Len(stRows)
        /\ \A i, j \in DOMAIN stRows : i # j => stRows[i].id # stRows[j].id
    BY DEF StInv, StTypes, StRows
  <2>2. f \in Surjection(1..Len(stRows), St!IdsIn(stRows))
    BY <2>1 DEF St!IdsIn, Surjection
  <2>3. \A i, j \in 1..Len(stRows) : i # j => f[i] # f[j]
    BY <2>1
  <2> HIDE DEF f
  <2>4. QED
    BY <2>1, <2>2, <2>3, StCounted
<1>2. St!Cardinality(St!ToSet(stDisp)) = Len(stDisp)
  <2>1. /\ Len(stDisp) \in Nat /\ DOMAIN stDisp = 1..Len(stDisp)
        /\ stDisp \in Seq(Streams)
        /\ \A i, j \in DOMAIN stDisp : i # j => stDisp[i] # stDisp[j]
    BY DEF StInv, StTypes, StLists
  <2>2. stDisp \in Surjection(1..Len(stDisp), St!ToSet(stDisp))
    BY <2>1 DEF St!ToSet, Surjection
  <2>3. QED
    BY <2>1, <2>2, StCounted
<1>3. /\ stRows \in Seq([id : Streams, prio : Nat, win : St!Windows])
      /\ stDisp \in Seq(Streams)
  BY DEF StInv, StTypes, StRows, StRow, StLists
<1>4. QED
  BY <1>1, <1>2, <1>3 DEF StInv, StTypes, StRules, StGone, St!TypeOK

\* ChannelStreams: no stream is twice in the rows or in the list of
\* Dispatcharr, a channel that is gone has no row, and every variable keeps
\* its type.
THEOREM StreamTypes == SumSpec => []St!TypeOK
BY StInvariant, StTyped, PTL

\* ChannelStreams: for all streams, windows, rankings and times, with every
\* call failing and a crash between any two handlers, a stream that has no row
\* is in the channel only if a failed call or a rollback left it there.
THEOREM OnlyFailuresLingerHolds == SumSpec => []OnlyFailuresLinger
<1>1. StInv => OnlyFailuresLinger
  BY DEF StInv, StPlays, OnlyFailuresLinger, St!OnlyFailuresLinger
<1>2. QED
  BY <1>1, StInvariant, PTL

\* ChannelStreams: for all streams, windows, rankings and times, a pass of a
\* history without faults leaves the open streams in the order of their
\* priorities, with at most one of them moved to the head.
THEOREM InOrderAfterPassHolds == SumSpec => InOrderAfterPass
<1>1. StInv /\ [SumNext]_all =>
        [(stPc = "order" /\ stPc' = "expire" /\ stClean') =>
           LET want == St!Ordered(stRows')
           IN  stDisp' = want
               \/ \E s \in St!ToSet(want) : stDisp' = St!ToFront(want, s)
        ]_(St!vars)
  <2>1. [SumNext]_all => St!Next \/ UNCHANGED StVars
    BY Zenon DEF SumNext, all
  <2>2. QED
    BY <2>1, StPass DEF StPushes
<1>2. QED
  BY <1>1, StInvariant, PTL DEF SumSpec, InOrderAfterPass, St!InOrderAfterPass

-----------------------------------------------------------------------------
(* ProfileSync: the types of the channel's profiles *)

LEMMA PrExpand ==
    ASSUME NEW sel
    PROVE  Pr!Expand(sel) \subseteq prCatalog
BY DEF Pr!Expand

LEMMA PrInit == Pr!Init => Pr!TypeOK
<1> SUFFICES ASSUME Pr!Init PROVE Pr!TypeOK
  OBVIOUS
<1>1. /\ {} \in Pr!Selections
      /\ Pr!NoChange \in [add : SUBSET (Profiles \cup {All}),
                          remove : SUBSET (Profiles \cup {All})]
  BY DEF Pr!Selections, Pr!NoChange
<1>2. QED
  BY <1>1 DEF Pr!Init, Pr!TypeOK

LEMMA PrCreate == ASSUME Pr!TypeOK, Pr!Create PROVE Pr!TypeOK'
<1>1. /\ UNCHANGED <<prCatalog, prSetting, prQueue>> /\ prPc' = "flush"
  BY DEF Pr!Create
<1>2. PICK listed \in Pr!Listings :
        \/ /\ prExists' = TRUE /\ prStored' = Pr!Validated(prSetting, listed)
           /\ prShown' = Pr!Expand(Pr!Validated(prSetting, listed))
           /\ prDrifted' = FALSE
        \/ UNCHANGED <<prExists, prStored, prShown, prDrifted>>
  BY DEF Pr!Create
<1>3. Pr!Validated(prSetting, listed) \in Pr!Selections
  BY DEF Pr!Validated, Pr!Selections, Pr!TypeOK
<1>4. QED
  BY <1>1, <1>2, <1>3, PrExpand DEF Pr!TypeOK

LEMMA PrSync == ASSUME Pr!TypeOK, Pr!Sync PROVE Pr!TypeOK'
<1>1. /\ UNCHANGED <<prCatalog, prSetting, prExists>> /\ prPc' = "flush"
  BY DEF Pr!Sync
<1>2. \/ UNCHANGED <<prStored, prShown, prQueue, prDrifted>>
      \/ /\ prStored' = prSetting /\ prShown' = Pr!Expand(prSetting)
         /\ prDrifted' = FALSE /\ UNCHANGED prQueue
      \/ /\ prStored' = prSetting /\ UNCHANGED prShown
         /\ prQueue' = [add |-> prSetting \ prStored,
                        remove |-> prStored \ prSetting]
         /\ prDrifted' = (prDrifted \/ prStored = {All})
  BY DEF Pr!Sync
<1>3. /\ prSetting \ prStored \subseteq Profiles \cup {All}
      /\ prStored \ prSetting \subseteq Profiles \cup {All}
  BY DEF Pr!TypeOK, Pr!Selections
<1>4. /\ prStored' \in Pr!Selections /\ prShown' \subseteq prCatalog
      /\ prDrifted' \in BOOLEAN
  BY <1>2, PrExpand DEF Pr!TypeOK
<1>5. prQueue' \in [add : SUBSET (Profiles \cup {All}),
                    remove : SUBSET (Profiles \cup {All})]
  BY <1>2, <1>3 DEF Pr!TypeOK
<1>6. QED
  BY <1>1, <1>4, <1>5 DEF Pr!TypeOK

LEMMA PrFlush == ASSUME Pr!TypeOK, Pr!Flush PROVE Pr!TypeOK'
<1>1. /\ UNCHANGED <<prCatalog, prSetting, prExists, prStored>>
      /\ prPc' = "idle" /\ prQueue' = Pr!NoChange
  BY DEF Pr!Flush
<1>2. PICK refused :
        /\ prShown' = (prShown \ (prQueue.remove \ refused))
                        \cup ((prQueue.add \cap prCatalog) \ refused)
        /\ prDrifted' = (prDrifted \/ refused # {})
  BY DEF Pr!Flush
<1>3. prShown' \subseteq prCatalog
  BY <1>2 DEF Pr!TypeOK
<1>4. prDrifted' \in BOOLEAN
  BY <1>2
<1>5. QED
  BY <1>1, <1>3, <1>4 DEF Pr!TypeOK, Pr!NoChange

LEMMA PrChange == ASSUME Pr!TypeOK, Pr!Change PROVE Pr!TypeOK'
<1>1. UNCHANGED <<prExists, prStored, prQueue, prPc>>
  BY DEF Pr!Change
<1>2. /\ prSetting' \in Pr!Selections /\ prCatalog' \subseteq Profiles
      /\ prShown' \subseteq prCatalog' /\ prDrifted' \in BOOLEAN
  BY DEF Pr!Change, Pr!TypeOK
<1>3. QED
  BY <1>1, <1>2 DEF Pr!TypeOK

LEMMA PrNext == ASSUME Pr!TypeOK, Pr!Next \/ UNCHANGED PrVars PROVE Pr!TypeOK'
<1>1. CASE Pr!StartRun \/ UNCHANGED PrVars
  BY <1>1 DEF Pr!StartRun, PrVars, Pr!TypeOK
<1>2. CASE Pr!EditOutside
  BY <1>2 DEF Pr!EditOutside, Pr!TypeOK
<1>3. QED
  BY <1>1, <1>2, PrCreate, PrSync, PrFlush, PrChange
  DEF Pr!Next, Pr!Generation

\* ProfileSync: what is stored is a selection, only profiles that exist enable
\* the channel, and every variable keeps its type.
THEOREM ProfileTypes == SumSpec => []Pr!TypeOK
<1>1. SumInit => Pr!Init
  BY DEF SumInit
<1>2. [SumNext]_all => Pr!Next \/ UNCHANGED PrVars
  BY Zenon DEF SumNext, all
<1>3. QED
  BY <1>1, <1>2, PrInit, PrNext, PTL DEF SumSpec

-----------------------------------------------------------------------------
\* Every part of the channels keeps its types: the sum of the four parts.
THEOREM TypesHold == SumSpec => []TypesOK
<1>1. SumInit => Init
  BY DEF SumInit
<1>2. [SumNext]_all => [Next]_vars
  BY Zenon DEF SumNext, all
<1>3. IInv => TypeOK
  BY DEF IInv
<1>4. SumSpec => []TypeOK
  BY <1>1, <1>2, <1>3, InitIInv, NextIInv, PTL DEF SumSpec
<1>5. TypeOK /\ St!TypeOK /\ Pr!TypeOK /\ Kw!TypeOK => TypesOK
  BY DEF TypesOK
<1>6. QED
  BY <1>4, <1>5, StreamTypes, ProfileTypes, KeywordTypes, PTL
===============================================================================
