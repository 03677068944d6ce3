------------------------------ MODULE Directories ------------------------------
(* The numbers of the channels under settings that stay, the directory of     *)
(* teams and leagues, the calls of Dispatcharr, the backups and the cache of  *)
(* what the providers answer.  They share no state, so that a behaviour is of *)
(* one of them and the others rest in a state they may begin in.              *)
EXTENDS ChannelNumbering

CONSTANTS
    Builtin, Seed, Custom, Found, MaxId, Added,                \* leagues
    Manual, Daily, LeagueRequests, LeagueChanges, LeagueFaults,
    Callers, Accounts, MaxRetries, MaxCalls,                   \* calls
    AccountChanges, CallFaults,
    MaxCount, MaxTime, MaxVersion, MaxRequests, BackupFaults,  \* backups
    Readers, Flushers, EventTtl, Window, ListTtl, LongTtl,     \* cache
    CacheTime, MaxLookups, CacheFaults

VARIABLES part,  \* the component that the behaviour is of
    ldRow, ldCounted, ldTeams, ldEntries, ldSub, ldFlag, ldStale, ldMap,
    ldClient, ldThread, ldWish, ldEdited, ldHoled, ldTorn, ldLeft, ldChanges,
    ldFaults,
    dsSaved, dsPending, dsCurrent, dsAccount, dsSession, dsLock, dsThread,
    dsCalls, dsFaults, dsChanges,
    bkFile, bkMarked, bkDb, bkNewest, bkClock, bkJob, bkLate, bkHollow,
    bkMeddled, bkRequests, bkFaults,
    caWanted, caNow, caMemory, caDisk, caDirty, caDeleted, caKeylock,
    caHolder, caThread, caFlush, caClearing, caCarried, caLookups, caFaults

Ld == INSTANCE LeagueDirectory WITH
    Requests <- LeagueRequests, MaxChanges <- LeagueChanges,
    MaxFaults <- LeagueFaults, row <- ldRow, counted <- ldCounted,
    teams <- ldTeams, entries <- ldEntries, sub <- ldSub, flag <- ldFlag,
    stale <- ldStale, map <- ldMap, client <- ldClient, thread <- ldThread,
    wish <- ldWish, edited <- ldEdited, holed <- ldHoled, torn <- ldTorn,
    left <- ldLeft, changes <- ldChanges, faults <- ldFaults
LdVars ==
    <<ldRow, ldCounted, ldTeams, ldEntries, ldSub, ldFlag, ldStale, ldMap,
      ldClient, ldThread, ldWish, ldEdited, ldHoled, ldTorn, ldLeft,
      ldChanges, ldFaults>>

Ds == INSTANCE DispatcharrSession WITH
    Threads <- Callers,
    MaxChanges <- AccountChanges, MaxFaults <- CallFaults,
    saved <- dsSaved, pending <- dsPending, current <- dsCurrent,
    account <- dsAccount, session <- dsSession, lock <- dsLock,
    thread <- dsThread, calls <- dsCalls, faults <- dsFaults,
    changes <- dsChanges
DsVars ==
    <<dsSaved, dsPending, dsCurrent, dsAccount, dsSession, dsLock, dsThread,
      dsCalls, dsFaults, dsChanges>>

Bk == INSTANCE Backups WITH
    MaxFaults <- BackupFaults, file <- bkFile, marked <- bkMarked, db <- bkDb,
    newest <- bkNewest, clock <- bkClock, job <- bkJob, late <- bkLate,
    hollow <- bkHollow, meddled <- bkMeddled, requests <- bkRequests,
    faults <- bkFaults
BkVars ==
    <<bkFile, bkMarked, bkDb, bkNewest, bkClock, bkJob, bkLate, bkHollow,
      bkMeddled, bkRequests, bkFaults>>

Ca == INSTANCE ServiceCache WITH
    Threads <- Readers, MaxTime <- CacheTime, MaxFaults <- CacheFaults,
    wanted <- caWanted, now <- caNow, memory <- caMemory, disk <- caDisk,
    dirty <- caDirty, deleted <- caDeleted, keylock <- caKeylock,
    holder <- caHolder, thread <- caThread, flush <- caFlush,
    clearing <- caClearing, carried <- caCarried, lookups <- caLookups,
    faults <- caFaults
CaVars ==
    <<caWanted, caNow, caMemory, caDisk, caDirty, caDeleted, caKeylock,
      caHolder, caThread, caFlush, caClearing, caCarried, caLookups,
      caFaults>>

\* The leagues that the discovery finds are not configured ones, the threads
\* are different ones, there is time for a backup, and answers live for whole
\* seconds.
ASSUME DirectoriesAssumption ==
    /\ Found \cap (Builtin \cup Custom) = {} /\ Seed \subseteq Builtin
    /\ MaxId \in Nat \ {0} /\ Added \subseteq 1..MaxId
    /\ Manual # {} /\ Manual \cap Daily = {}
    /\ (Manual \cup Daily) \cap LeagueRequests = {}
    /\ LeagueChanges \in Nat /\ LeagueFaults \in Nat
    /\ IsFiniteSet(Callers) /\ MaxRetries \in Nat
    /\ MaxCount \in Nat /\ MaxRequests \in Nat /\ BackupFaults \in Nat
    /\ MaxTime \in Nat \ {0} /\ MaxVersion \in Nat \ {0, 1}
    /\ IsFiniteSet(Readers) /\ Ca!None \notin Readers
    /\ {EventTtl, Window, ListTtl, LongTtl, CacheTime, CacheFaults}
          \subseteq Nat

-----------------------------------------------------------------------------
Parts == {"numbers", "leagues", "calls", "backups", "cache"}
all == <<part, vars, LdVars, DsVars, BkVars, CaVars>>

SumInit ==
    part \in Parts /\ Init /\ Ld!Init /\ Ds!Init /\ Bk!Init /\ Ca!Init

SumNext ==
    \/ /\ part = "numbers" /\ SettledNext
       /\ UNCHANGED <<part, LdVars, DsVars, BkVars, CaVars>>
    \/ /\ part = "leagues" /\ Ld!Next
       /\ UNCHANGED <<part, vars, DsVars, BkVars, CaVars>>
    \/ /\ part = "calls" /\ Ds!Next
       /\ UNCHANGED <<part, vars, LdVars, BkVars, CaVars>>
    \/ /\ part = "backups" /\ Bk!Next
       /\ UNCHANGED <<part, vars, LdVars, DsVars, CaVars>>
    \/ /\ part = "cache" /\ Ca!Next
       /\ UNCHANGED <<part, vars, LdVars, DsVars, BkVars>>

SumSpec == SumInit /\ [][SumNext]_all

\* The types of the components beside the numbers.
TypesOK ==
    /\ part = "leagues" => Ld!TypeOK
    /\ part = "calls" => Ds!TypeOK
    /\ part = "backups" => Bk!TypeOK
    /\ part = "cache" => Ca!TypeOK
\* LeagueDirectory: a league that was chosen stays chosen, between reloads the
\* mapping has every league, and no refresh is shown that nobody is at.
DirectoryIsKept == part = "leagues" => Ld!DirectoryIsKept
\* DispatcharrSession: a call is refused only when the server dropped tokens
\* again, and cut or sent to another account only when the settings changed.
CallsSurvive == part = "calls" => Ds!CallsSurvive
\* Backups: a rotation spares what is protected and leaves max_count others,
\* and a restore puts a version of the database in place.
BackupsHold == Bk!BackupsHold
\* ServiceCache: one call at a time for a key, and no answer that is too old.
OneFreshAnswer == part = "cache" => Ca!OneCallPerKey /\ Ca!AnswersAreFresh
===============================================================================
