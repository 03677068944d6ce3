---------------------------- MODULE ChannelParts ----------------------------
(* A channel from its four sides: whether it exists, what it plays, its     *)
(* profiles, and how keywords split it.  The parts share no state, so that  *)
(* a behaviour is of one of them and the others rest in a state they may    *)
(* begin in.                                                                *)
EXTENDS ChannelLifecycle

CONSTANTS
    Streams, Slot, Rankings, LiveFrom, LiveTo, MaxTime,     \* streams
    StreamEdits, StreamFaults,
    Profiles, All, ProfileEdits, ProfileFaults,             \* profiles
    Labelled, Keywords, Main, Ignored, Numbers,             \* keywords
    KeywordEdits, KeywordFaults

VARIABLES part,  \* the component that the behaviour is of
    stNow, stExists, stRows, stSaved, stDisp, stMatched, stPool, stRules,
    stPc, stTodo, stManual, stChanges, stFaults, stClean, stLingering,
    prCatalog, prSetting, prExists, prStored, prShown, prQueue, prPc,
    prChanges, prFaults, prDrifted,
    kwLabel, kwChans, kwRows, kwPlays, kwNum, kwShown, kwSaved, kwPc, kwTodo,
    kwPairs, kwChanges, kwFaults, kwCrossed

St == INSTANCE ChannelStreams WITH
    MaxChanges <- StreamEdits, MaxFaults <- StreamFaults, now <- stNow,
    exists <- stExists, rows <- stRows, saved <- stSaved, disp <- stDisp,
    matched <- stMatched, pool <- stPool, rules <- stRules, pc <- stPc,
    todo <- stTodo, manual <- stManual, changes <- stChanges,
    faults <- stFaults, clean <- stClean, lingering <- stLingering
StVars ==
    <<stNow, stExists, stRows, stSaved, stDisp, stMatched, stPool, stRules,
      stPc, stTodo, stManual, stChanges, stFaults, stClean, stLingering>>

Pr == INSTANCE ProfileSync WITH
    MaxChanges <- ProfileEdits, MaxFaults <- ProfileFaults,
    catalog <- prCatalog, setting <- prSetting, exists <- prExists,
    stored <- prStored, shown <- prShown, queue <- prQueue, pc <- prPc,
    changes <- prChanges, faults <- prFaults, drifted <- prDrifted
PrVars ==
    <<prCatalog, prSetting, prExists, prStored, prShown, prQueue, prPc,
      prChanges, prFaults, prDrifted>>

Kw == INSTANCE KeywordEnforcement WITH
    Streams <- Labelled, MaxChanges <- KeywordEdits,
    MaxFaults <- KeywordFaults, label <- kwLabel,
    chans <- kwChans, rows <- kwRows, plays <- kwPlays, num <- kwNum,
    shown <- kwShown, saved <- kwSaved, pc <- kwPc, todo <- kwTodo,
    pairs <- kwPairs, changes <- kwChanges, faults <- kwFaults,
    crossed <- kwCrossed
KwVars ==
    <<kwLabel, kwChans, kwRows, kwPlays, kwNum, kwShown, kwSaved, kwPc,
      kwTodo, kwPairs, kwChanges, kwFaults, kwCrossed>>

\* No keyword, an ignored one and those that consolidate are different.
ASSUME KeywordsAssumption ==
    /\ Main \notin Keywords /\ Ignored \notin Keywords \cup {Main}
    /\ Numbers \subseteq Nat

\* The ids of streams and what the rules compute of them are numbers.
ASSUME StreamsAssumption ==
    /\ Streams \subseteq Nat /\ Rankings \subseteq [Streams -> Nat]
    /\ MaxTime \in Nat

-----------------------------------------------------------------------------
Parts == {"lifecycle", "streams", "profiles", "keywords"}
all == <<part, vars, StVars, PrVars, KwVars>>

SumInit == part \in Parts /\ Init /\ St!Init /\ Pr!Init /\ Kw!Init

SumNext ==
    \/ /\ part = "lifecycle" /\ Next
       /\ UNCHANGED <<part, StVars, PrVars, KwVars>>
    \/ /\ part = "streams" /\ St!Next
       /\ UNCHANGED <<part, vars, PrVars, KwVars>>
    \/ /\ part = "profiles" /\ Pr!Next
       /\ UNCHANGED <<part, vars, StVars, KwVars>>
    \/ /\ part = "keywords" /\ Kw!Next
       /\ UNCHANGED <<part, vars, StVars, PrVars>>

\* The fairness of each component.
Fairness ==
    /\ WF_vars(part = "lifecycle" /\ GenStep)
    /\ WF_vars(part = "lifecycle" /\ ApiStep)
    /\ WF_StVars(part = "streams" /\ St!Generation)
    /\ WF_PrVars(part = "profiles" /\ Pr!Generation)
    /\ WF_KwVars(part = "keywords" /\ Kw!Generation)

SumSpec == SumInit /\ [][SumNext]_all

-----------------------------------------------------------------------------
\* The types of every component.
TypesOK == TypeOK /\ St!TypeOK /\ Pr!TypeOK /\ Kw!TypeOK

\* ChannelStreams: what a channel plays belongs to it.
OnlyFailuresLinger == St!OnlyFailuresLinger
\* ChannelStreams: a pass leaves the order of the priorities.
InOrderAfterPass == St!InOrderAfterPass
\* KeywordEnforcement: swaps and failures leave every channel its number.
NumbersStayApart == Kw!NumbersStayApart
\* What failed, was lost, changed outside or rolled back is put right by later
\* generations: the channels are those of the rows and of the wanted events
\* (ChannelLifecycle), the streams that match are in them (ChannelStreams),
\* with the selected profiles (ProfileSync), and every stream is on the
\* channel of its keyword only, numbered after the main one and shown so
\* (KeywordEnforcement).
ChannelsConverge ==
    <>[](Consistent /\ St!Arrived /\ Pr!Converged /\ Kw!Placed)
===============================================================================
