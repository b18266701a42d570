----------------------------- MODULE TaskLedger -----------------------------
(***************************************************************************)
(* What the task queue promises for each task, without the queue: a task   *)
(* is queued until it is done or buried in the dead-letter queue, it is    *)
(* buried only when it cannot be read or its attempts are used up, done is *)
(* for ever, nothing buried or lost comes back to the queue, and only a    *)
(* broker outage loses a task, and only one that has already failed.       *)
(*                                                                         *)
(* Module Queue implements this specification (see Ledger there).          *)
(***************************************************************************)
EXTENDS Naturals

CONSTANTS
    Tasks,
    Unreadable,    \* tasks whose message cannot be decoded
    MaxAttempts    \* failed attempts after which a task may be buried

VARIABLES
    status,        \* per task: "new", "queued", "done", "dead" or "lost"
    attempts       \* per task: how often its handler returned an error

ledgerVars == <<status, attempts>>

Publish(t) ==
    /\ status[t] = "new"
    /\ status' = [status EXCEPT ![t] = "queued"]
    /\ UNCHANGED attempts

\* A duplicate of the task may fail after the task is settled.
Fail(t) ==
    /\ status[t] # "new"
    /\ attempts' = [attempts EXCEPT ![t] = @ + 1]
    /\ UNCHANGED status

\* A worker that lost its connection may complete what others gave up.
Complete(t) ==
    /\ status[t] \in {"queued", "dead", "lost"}
    /\ status' = [status EXCEPT ![t] = "done"]
    /\ UNCHANGED attempts

Bury(t) ==
    /\ status[t] = "queued"
    /\ t \in Unreadable \/ attempts[t] >= MaxAttempts
    /\ status' = [status EXCEPT ![t] = "dead"]
    /\ UNCHANGED attempts

\* Any of the tasks that have failed before, in a retry queue or dead-lettered.
Outage ==
    /\ \E Victims \in SUBSET {t \in Tasks : status[t] \in {"queued", "dead"} /\ attempts[t] > 0} :
         status' = [t \in Tasks |-> IF t \in Victims THEN "lost" ELSE status[t]]
    /\ UNCHANGED attempts

Init ==
    /\ status = [t \in Tasks |-> "new"]
    /\ attempts = [t \in Tasks |-> 0]

Next ==
    \/ \E t \in Tasks : Publish(t) \/ Fail(t) \/ Complete(t) \/ Bury(t)
    \/ Outage

Spec == Init /\ [][Next]_ledgerVars
=============================================================================
