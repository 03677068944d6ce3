------------------------------ MODULE RunLedger ------------------------------
(***************************************************************************)
(* What the table processing_runs promises of the generations of one       *)
(* server process: runs follow one another, the outcome of a run is        *)
(* recorded by that run or, when it was left open, by the next start of    *)
(* the process, and nobody changes it afterwards.                          *)
(***************************************************************************)
CONSTANTS Runs, NoRun

VARIABLES
    rows,       \* the status of each row ("none": no such row)
    current     \* the run that is under way, or NoRun

ledger == <<rows, current>>

Init == rows = [r \in Runs |-> "none"] /\ current = NoRun

Begin(r) ==
    /\ current = NoRun /\ rows[r] # "running"
    /\ rows' = [rows EXCEPT ![r] = "running"]
    /\ current' = r

\* A run that has completed may still fail before it is over.
Record(s) ==
    /\ current # NoRun
    /\ \/ /\ rows[current] = "running"
          /\ s \in {"completed", "failed", "cancelled"}
       \/ rows[current] = "completed" /\ s = "failed"
    /\ rows' = [rows EXCEPT ![current] = s]
    /\ UNCHANGED current

\* A run ends, recorded or not.
End == current # NoRun /\ current' = NoRun /\ UNCHANGED rows

\* The process starts: what an earlier one left open has failed.
Recover ==
    /\ current = NoRun
    /\ rows' = [r \in Runs |->
                   IF rows[r] = "running" THEN "failed" ELSE rows[r]]
    /\ UNCHANGED current

\* The rows of finished runs are cleaned up, or all rows when a user asks.
Discard(S) ==
    /\ S = Runs \/ current \notin S
    /\ rows' = [r \in Runs |-> IF r \in S THEN "none" ELSE rows[r]]
    /\ UNCHANGED current

Next ==
    \/ \E r \in Runs : Begin(r)
    \/ \E s \in {"completed", "failed", "cancelled"} : Record(s)
    \/ End \/ Recover
    \/ \E S \in SUBSET Runs : Discard(S)

Spec == Init /\ [][Next]_ledger
=============================================================================
