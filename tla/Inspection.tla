----------------------------- MODULE Inspection -----------------------------
(***************************************************************************)
(* The calls of one object that inspects a database: the SQLite adapter    *)
(* (database/sqlite.py), the PostgreSQL adapter (database/postgresql.py)   *)
(* or the dry-run planner (database/dry_run.py).  What is blocking - the   *)
(* SQLite driver, and putting a catalog together - runs in a thread, which *)
(* no cancellation stops (database/_inspection.py): a call that gives up   *)
(* asks it to end and waits, but not for ever.                             *)
(*                                                                         *)
(* Deadlines may pass at any moment they are looked at.                    *)
(***************************************************************************)
EXTENDS Integers, FiniteSets

CONSTANTS
    Inspectors,     \* the tasks that call, each once
    Adapters,       \* of {"sqlite", "postgresql", "planner"}
    MaxCancels,     \* how often each task is cancelled, at most
    NoTask

ASSUME InspectionAssumption ==
    /\ Adapters \subseteq {"sqlite", "postgresql", "planner"}
    /\ NoTask \notin Inspectors

VARIABLES
    adapter,
    slot,           \* _active: the task whose call is under way
    blocked,        \* _unavailable
    call,           \* [Inspectors -> the coroutine]
    thread,         \* [Inspectors -> the last thread it has started]
    link            \* [Inspectors -> its PostgreSQL connection]

inspectionVars == <<adapter, slot, blocked, call, thread, link>>

NoThread == [state |-> "none", does |-> "none", cancelled |-> FALSE, result |-> "none"]
NewThread(does) == [NoThread EXCEPT !.state = "starting", !.does = does]
Idle == [op |-> "none", step |-> "idle", cancels |-> 0, expired |-> FALSE, cancelled |-> FALSE,
         planned |-> FALSE, code |-> "none", outcome |-> "none"]

IsAlive(c) == thread[c].state \in {"starting", "open"}
IsOpen(c) == link[c] = "open" \/ (thread[c].state = "open" /\ thread[c].does = "read")
Stands(c, step) == call[c].step = step

-----------------------------
(* How a call ends.  The slot is given back in any case; the adapters take  *)
(* no further call after a cleanup that has failed.                         *)

BlocksOn(outcome) == adapter # "planner" /\ outcome = "CLEANUP_FAILED"

EndsAs(c, from, outcome) ==
    /\ call' = [call EXCEPT ![c] = [from EXCEPT !.step = "ended", !.outcome = outcome]]
    /\ slot' = NoTask
    /\ blocked' = (blocked \/ BlocksOn(outcome))
Ends(c, outcome) == EndsAs(c, call[c], outcome)

Goes(c, to) ==
    /\ call' = [call EXCEPT ![c] = to]
    /\ UNCHANGED <<slot, blocked>>

(* A step that does not end the call and leaves the thread as it is. *)
Moves(c, to) == Goes(c, [call[c] EXCEPT !.step = to]) /\ UNCHANGED thread

(* What comes after the threads work, or instead of it. *)
Abandons(c, code) ==
    IF adapter = "planner" THEN Goes(c, [call[c] EXCEPT !.step = "close", !.code = code])
    ELSE Ends(c, code)

Starts(c, does) ==
    /\ thread' = [thread EXCEPT ![c] = NewThread(does)]
    /\ Goes(c, [call[c] EXCEPT !.step = "wait"])

-----------------------------
(* Entering: one call at a time. *)

Refuse(c) ==
    /\ Stands(c, "idle") /\ (slot # NoTask \/ blocked)
    /\ call' = [call EXCEPT ![c].step = "ended", ![c].outcome = "BUSY"]
    /\ UNCHANGED <<adapter, slot, blocked, thread, link>>

Enter(c) ==
    /\ Stands(c, "idle") /\ slot = NoTask /\ ~blocked
    /\ slot' = c
    /\ \E op \in IF adapter = "planner" THEN {"plan"} ELSE {"inspect", "inspect_metadata"} :
         call' = [call EXCEPT ![c].op = op, ![c].step = IF adapter = "sqlite" THEN "wait" ELSE "io"]
    /\ thread' = IF adapter = "sqlite" THEN [thread EXCEPT ![c] = NewThread("read")] ELSE thread
    /\ UNCHANGED <<adapter, blocked, link>>

-----------------------------
(* A thread.  It looks at whether it is cancelled before it connects and    *)
(* before it returns, closes its connection itself, and may hang.           *)

ThreadOpens(c) ==
    /\ thread[c].state = "starting"
    /\ thread' = IF thread[c].cancelled
                 THEN [thread EXCEPT ![c].state = "done", ![c].result = "PROCESSING_TIMEOUT"]
                 ELSE [thread EXCEPT ![c].state = "open"]
    /\ UNCHANGED <<adapter, slot, blocked, call, link>>

ThreadEnds(c) ==
    /\ thread[c].state = "open"
    /\ \E result \in IF thread[c].cancelled THEN {"PROCESSING_TIMEOUT"} ELSE {"ok", "FAILED"} :
         thread' = [thread EXCEPT ![c].state = "done", ![c].result = result]
    /\ UNCHANGED <<adapter, slot, blocked, call, link>>

-----------------------------
(* run_inspection: waiting for the thread. *)

Given(c) == Ends(c, "given") /\ UNCHANGED thread

ThreadIsThrough(c) ==
    /\ Stands(c, "wait") /\ thread[c].state = "done"
    /\ IF thread[c].result # "ok" THEN Abandons(c, thread[c].result) /\ UNCHANGED thread
       ELSE IF adapter = "planner" THEN Goes(c, [call[c] EXCEPT !.step = "io", !.planned = TRUE]) /\ UNCHANGED thread
       ELSE IF thread[c].does = "read" /\ call[c].op = "inspect"
       THEN Starts(c, "assemble") \/ (Ends(c, "PROCESSING_TIMEOUT") /\ UNCHANGED thread)
       ELSE Given(c)
    /\ UNCHANGED <<adapter, link>>

AsksToEnd(c) == thread' = [thread EXCEPT ![c].cancelled = TRUE]

(* Slip: the wait is over at once. *)
WaitExpires_AtOnce(c) ==
    /\ Stands(c, "wait") /\ thread[c].state # "done"
    /\ AsksToEnd(c)
    /\ Abandons(c, "PROCESSING_TIMEOUT")
    /\ UNCHANGED <<adapter, link>>

WaitExpires(c) ==
    /\ Stands(c, "wait") /\ thread[c].state # "done"
    /\ AsksToEnd(c)
    /\ Goes(c, [call[c] EXCEPT !.step = "cleanup"])
    /\ UNCHANGED <<adapter, link>>

(* A cancellation wins against a deadline; both lose the thread's result. *)
Stopped(c, from) ==
    IF from.cancels = 0 /\ ~from.expired THEN Abandons(c, "PROCESSING_TIMEOUT")
    ELSE IF adapter = "planner" THEN Goes(c, [from EXCEPT !.step = "close", !.cancelled = TRUE])
    ELSE EndsAs(c, from, "cancelled")

CleanupIsThrough(c) ==
    /\ Stands(c, "cleanup") /\ thread[c].state = "done"
    /\ Stopped(c, call[c])
    /\ UNCHANGED <<adapter, thread, link>>

(* Slip: the thread is waited for as long as it takes. *)
CleanupExpires_Never(c) == FALSE /\ UNCHANGED inspectionVars

CleanupExpires(c) ==
    /\ Stands(c, "cleanup") /\ thread[c].state # "done"
    /\ Abandons(c, "CLEANUP_FAILED")
    /\ UNCHANGED <<adapter, thread, link>>

-----------------------------
(* The connection of the PostgreSQL adapter and of the planner. *)

Connect(c) ==
    /\ Stands(c, "io") /\ link[c] = "none"
    /\ link' = [link EXCEPT ![c] = "open"]
    /\ UNCHANGED <<adapter, slot, blocked, call, thread>>

ReadsMetadata(c) ==
    /\ Stands(c, "io") /\ link[c] = "open"
    /\ IF adapter = "planner" /\ ~call[c].planned THEN Starts(c, "assemble") ELSE Moves(c, "close")
    /\ UNCHANGED <<adapter, link>>

ReadFails(c) ==
    /\ Stands(c, "io")
    /\ \E code \in {"FAILED", "PROCESSING_TIMEOUT"} : Goes(c, [call[c] EXCEPT !.step = "close", !.code = code])
    /\ UNCHANGED <<adapter, thread, link>>

(* _cleanup has ended: a cancellation, then an error, then the result.  The *)
(* planner's own deadline arrives as a cancellation and is told apart.      *)
AfterClose(c, ok) ==
    LET k == call[c]
        code == IF ok THEN k.code ELSE "CLEANUP_FAILED"
    IN  /\ call' = [call EXCEPT ![c] =
                     IF ~k.cancelled /\ code = "none" /\ k.op = "inspect" THEN [k EXCEPT !.step = "assembling"]
                     ELSE [k EXCEPT !.step = "ended",
                                    !.outcome = IF k.cancelled
                                                THEN IF k.cancels > 0 THEN "cancelled" ELSE "PROCESSING_TIMEOUT"
                                                ELSE IF code # "none" THEN code ELSE "given"]]
        /\ slot' = IF ~k.cancelled /\ code = "none" /\ k.op = "inspect" THEN slot ELSE NoTask
        /\ blocked' = (blocked \/ ~ok)
        /\ UNCHANGED <<adapter, thread>>

CloseSucceeds(c) ==
    /\ Stands(c, "close")
    /\ link' = [link EXCEPT ![c] = "closed"]
    /\ AfterClose(c, TRUE)

(* The driver refuses to close, or the time is over: the transport is cut. *)
CloseFails(c) ==
    /\ Stands(c, "close")
    /\ link' = [link EXCEPT ![c] = "terminated"]
    /\ AfterClose(c, FALSE)

Assembling(c) ==
    /\ Stands(c, "assembling")
    /\ Starts(c, "assemble") \/ (Ends(c, "PROCESSING_TIMEOUT") /\ UNCHANGED thread)
    /\ UNCHANGED <<adapter, link>>

-----------------------------
(* The task is cancelled, or the planner's deadline for the whole call      *)
(* passes, which cancels it from within.                                    *)

Interrupts(c, from) ==
    CASE Stands(c, "io") -> Goes(c, [from EXCEPT !.step = "close", !.cancelled = TRUE]) /\ UNCHANGED thread
      [] Stands(c, "close") -> Goes(c, [from EXCEPT !.cancelled = TRUE]) /\ UNCHANGED thread
      [] Stands(c, "wait") /\ thread[c].state # "done" -> Goes(c, [from EXCEPT !.step = "cleanup"]) /\ AsksToEnd(c)
      [] Stands(c, "wait") /\ thread[c].state = "done" -> Stopped(c, from) /\ AsksToEnd(c)
      [] Stands(c, "cleanup") -> Goes(c, from) /\ AsksToEnd(c)

Cancel(c) ==
    /\ call[c].step \in {"io", "close", "wait", "cleanup"} /\ call[c].cancels < MaxCancels
    /\ Interrupts(c, [call[c] EXCEPT !.cancels = @ + 1])
    /\ UNCHANGED <<adapter, link>>

PlannerExpires(c) ==
    /\ adapter = "planner" /\ ~call[c].expired
    /\ call[c].step \in {"io", "close", "wait", "cleanup"}
    /\ Interrupts(c, [call[c] EXCEPT !.expired = TRUE])
    /\ UNCHANGED <<adapter, link>>

-----------------------------
InspectionInit ==
    /\ adapter \in Adapters
    /\ slot = NoTask /\ blocked = FALSE
    /\ call = [c \in Inspectors |-> Idle]
    /\ thread = [c \in Inspectors |-> NoThread]
    /\ link = [c \in Inspectors |-> "none"]

(* What the event loop and its timers do, and what nobody is sure of. *)
LoopStep(c) ==
    \/ Refuse(c) \/ Enter(c)
    \/ ThreadIsThrough(c) \/ WaitExpires(c) \/ CleanupIsThrough(c) \/ CleanupExpires(c)
    \/ Connect(c) \/ ReadsMetadata(c) \/ ReadFails(c)
    \/ CloseSucceeds(c) \/ CloseFails(c) \/ Assembling(c)
OutsideStep(c) == ThreadOpens(c) \/ ThreadEnds(c) \/ Cancel(c) \/ PlannerExpires(c)

InspectionNext == \E c \in Inspectors : LoopStep(c) \/ OutsideStep(c)

InspectionSpec == InspectionInit /\ [][InspectionNext]_inspectionVars

(* Timers fire and the loop runs what is ready; a thread need not end. *)
InspectionFairness == \A c \in Inspectors : WF_inspectionVars(LoopStep(c))

-----------------------------
(* Whatever is cancelled and whenever, an object never has two connections, *)
(* and none, nor a thread of an adapter, outlives the call it was opened    *)
(* for unless the object takes no call any more.  A catalog is given when   *)
(* the connection is closed and the thread has ended, and never to a task   *)
(* that was cancelled; that task is told so, or that the cleanup has failed *)
(* (database/_inspection.py:run_inspection, database/postgresql.py:         *)
(* _cleanup).                                                               *)
InspectionIsExclusive ==
    /\ \A c, d \in Inspectors : IsOpen(c) /\ IsOpen(d) => c = d
    /\ \A c \in Inspectors :
         /\ IsOpen(c) => slot = c \/ blocked
         /\ IsAlive(c) => slot = c \/ blocked \/ adapter = "planner"
         /\ call[c].outcome = "given" => ~IsOpen(c) /\ ~IsAlive(c) /\ call[c].cancels = 0
         /\ Stands(c, "ended") /\ call[c].cancels > 0 => call[c].outcome \in {"cancelled", "CLEANUP_FAILED"}
         /\ call[c].outcome = "cancelled" => call[c].cancels > 0

(* Every call ends, also when its thread hangs and its task is cancelled    *)
(* again and again.                                                         *)
EveryInspectionEnds == \A c \in Inspectors : Stands(c, "idle") ~> Stands(c, "ended")
=============================================================================
