------------------------------ MODULE Sandbox ------------------------------
(***************************************************************************)
(* SandboxParserRunner.parse of parsers/runners.py: one parser in a        *)
(* process of its own, from start to aclose, for a caller that may be      *)
(* cancelled at every await.  The backend may ignore a cancellation,       *)
(* answer late or never, and fail to acknowledge the end of the process.   *)
(***************************************************************************)
EXTENDS Integers

CONSTANTS MaxFrame, MaxResult, MaxDepth,   \* SandboxPolicy
          Frames                           \* [size, depth, fits] a worker may send

ASSUME SandboxAssumption ==
    /\ MaxFrame \in Nat /\ MaxResult \in Nat
    /\ \A frame \in Frames : frame.size \in Nat

VARIABLES
    run,       \* what parse of the runner is at
    start,     \* the task of backend.start: "none", "running", "started",
               \* "failed"
    worker,    \* the process: "none", "alive", "gone"
    verdict,   \* the event of the run's session
    bytes,     \* SandboxParserRunner._bytes
    buffered   \* what the transport has let through, for the properties

sandboxVars == <<run, start, worker, verdict, bytes, buffered>>

SandboxInit ==
    /\ run = [pc |-> "new", told |-> "none", cancelled |-> FALSE]
    /\ start = "none" /\ worker = "none" /\ verdict \in {"none", "other"}
    /\ bytes = 0 /\ buffered = 0

(* record_failure, deny, cancel: the first event stays. *)
Records(code) == verdict' = IF verdict = "none" THEN code ELSE verdict

Refuses(code) == run' = [run EXCEPT !.pc = "refused", !.told = code] /\ Records(code)

(* Every way out of the body goes through the finally. *)
Unwinds(code) == run' = [run EXCEPT !.pc = "settling", !.told = code]

(* The checks before anything is started. *)
Admit(spec, caps, size) ==
    /\ run.pc = "new"
    /\ IF ~spec \/ caps = "incomplete" THEN Refuses("SECURITY_SANDBOX_REQUIRED")
       ELSE IF caps = "cancelled" THEN Refuses("SECURITY_OPERATION_CANCELLED")
       ELSE IF verdict # "none" THEN Refuses("SECURITY_RUN_CLOSED")
       ELSE IF size = "too_large" THEN Refuses("SECURITY_LIMIT_EXCEEDED")
       ELSE IF size = "too_late" THEN Refuses("PROCESSING_TIMEOUT")
       ELSE run' = [run EXCEPT !.pc = "starting"] /\ UNCHANGED verdict
    /\ start' = IF run'.pc = "starting" THEN "running" ELSE start
    /\ UNCHANGED <<worker, bytes, buffered>>

(* One instance serves one parse. *)
ParseAgain ==
    /\ run.pc \notin {"new", "refused"}
    /\ Records("SECURITY_INPUT_REJECTED")
    /\ UNCHANGED <<run, start, worker, bytes, buffered>>

(* The backend gets a process up, which somebody has to take, or does not;   *)
(* it may still do so when its task has been cancelled.                      *)
BackendStarts ==
    /\ start = "running" /\ worker = "none"
    /\ worker' = "alive"
    /\ UNCHANGED <<run, start, verdict, bytes, buffered>>

BackendReturns(works) ==
    /\ start = "running"
    /\ works => worker = "alive"
    /\ start' = IF works THEN "started" ELSE "failed"
    /\ worker' = IF works \/ worker = "none" THEN worker ELSE "gone"
    /\ UNCHANGED <<run, verdict, bytes, buffered>>

(* _call on the shielded start. *)
StartSeen ==
    /\ run.pc = "starting" /\ start \in {"started", "failed"}
    /\ IF start = "failed" THEN Unwinds("SECURITY_SANDBOX_FAILED") /\ Records("SECURITY_OPERATION_FAILED")
       ELSE IF verdict # "none" THEN Unwinds("SECURITY_RUN_CLOSED") /\ UNCHANGED verdict
       ELSE run' = [run EXCEPT !.pc = "selecting"] /\ UNCHANGED verdict
    /\ UNCHANGED <<start, worker, bytes, buffered>>

-----------------------------
(* _frame_limit: one byte more than allowed shows that it was too much. *)
FrameLimit ==
    (IF MaxFrame <= MaxResult - bytes THEN MaxFrame ELSE MaxResult - bytes) + 1

(* A probe result or a batch; what the transport lets through is bounded. *)
FrameArrives(frame) ==
    /\ run.pc \in {"selecting", "reading"} /\ worker = "alive"
    /\ LET size == IF frame.size <= FrameLimit THEN frame.size ELSE FrameLimit
       IN  /\ buffered' = buffered + size
           /\ IF verdict # "none"
                THEN Unwinds("SECURITY_RUN_CLOSED") /\ UNCHANGED <<verdict, bytes>>
              ELSE IF size > MaxFrame \/ size > MaxResult - bytes \/ frame.depth > MaxDepth
                THEN /\ Unwinds("SECURITY_LIMIT_EXCEEDED") /\ Records("SECURITY_LIMIT_EXCEEDED")
                     /\ bytes' = IF size > MaxFrame \/ size > MaxResult - bytes THEN bytes
                                 ELSE bytes + size
              ELSE IF ~frame.fits
                THEN /\ Unwinds("SECURITY_SANDBOX_FAILED") /\ Records("SECURITY_OPERATION_FAILED")
                     /\ bytes' = bytes + size
              ELSE /\ bytes' = bytes + size
                   /\ run' = [run EXCEPT !.pc = "reading"] /\ UNCHANGED verdict
    /\ UNCHANGED <<start, worker>>

(* No more frames: the exit has to say that it completed and cleaned up. *)
WorkerEnds(exit) ==
    /\ run.pc = "reading"
    /\ IF exit = "completed" THEN Unwinds("ok") /\ UNCHANGED verdict
       ELSE Unwinds("SECURITY_SANDBOX_CLEANUP_FAILED") /\ Records("SECURITY_OPERATION_FAILED")
    /\ UNCHANGED <<start, worker, bytes, buffered>>

(* The caller has seen enough, or its own code fails; a ValueError is taken  *)
(* for one of the input.                                                     *)
CallerLeaves(why) ==
    /\ run.pc = "reading" /\ Unwinds(why)
    /\ IF why = "SECURITY_INPUT_REJECTED" THEN Records(why) ELSE UNCHANGED verdict
    /\ UNCHANGED <<start, worker, bytes, buffered>>

(* What can end any await of the body: the deadline, an adapter that fails,  *)
(* a cancellation of the caller, another user of the session.                *)
AwaitFails(code) ==
    /\ run.pc \in {"starting", "selecting", "reading"}
    /\ Unwinds(code) /\ Records(code)
    /\ UNCHANGED <<start, worker, bytes, buffered>>

SessionCloses ==
    /\ verdict = "none" /\ verdict' = "other"
    /\ UNCHANGED <<run, start, worker, bytes, buffered>>

-----------------------------
(* The finally. *)

Leaves(code) == run' = [run EXCEPT !.pc = "left", !.told = code]

(* A cancellation that came during the cleanup goes out behind it. *)
LeavesSettled ==
    IF run.cancelled THEN Leaves("cancelled") /\ Records("SECURITY_OPERATION_CANCELLED")
    ELSE Leaves(run.told) /\ UNCHANGED verdict

(* Slip: what aclose says is not looked at. *)
LeavesUnsettled_Quiet == LeavesSettled

LeavesUnsettled == Leaves("SECURITY_SANDBOX_CLEANUP_FAILED") /\ Records("SECURITY_OPERATION_FAILED")

(* _settle_start: the handle is fetched from the task of start, which was    *)
(* cancelled; a worker that is not up in time is left to the backend.        *)
Settle(late) ==
    /\ run.pc = "settling"
    /\ IF late THEN start = "running" /\ LeavesUnsettled
       ELSE /\ start # "running"
            /\ IF start = "started" THEN run' = [run EXCEPT !.pc = "closing"] /\ UNCHANGED verdict
               ELSE LeavesSettled
    /\ UNCHANGED <<start, worker, bytes, buffered>>

SettleCancelled ==
    /\ run.pc = "settling" /\ start = "running"
    /\ run' = [run EXCEPT !.cancelled = TRUE]
    /\ UNCHANGED <<start, worker, verdict, bytes, buffered>>

(* process.aclose, and what it says: the acknowledgement is what counts. *)
WorkerClosed(exit) ==
    /\ run.pc = "closing"
    /\ worker' = IF exit = "clean" THEN "gone" ELSE worker
    /\ CASE exit = "clean" -> LeavesSettled
         [] exit = "cancelled" -> Leaves("cancelled") /\ Records("SECURITY_OPERATION_CANCELLED")
         [] OTHER -> LeavesUnsettled
    /\ UNCHANGED <<start, bytes, buffered>>

SandboxNext ==
    \/ \E spec \in BOOLEAN, caps \in {"complete", "incomplete", "cancelled"},
          size \in {"fits", "too_large", "too_late"} : Admit(spec, caps, size)
    \/ ParseAgain \/ BackendStarts \/ (\E works \in BOOLEAN : BackendReturns(works)) \/ StartSeen
    \/ (\E f \in Frames : FrameArrives(f)) \/ (\E e \in {"completed", "failed"} : WorkerEnds(e))
    \/ (\E why \in {"ok", "body", "SECURITY_INPUT_REJECTED"} : CallerLeaves(why))
    \/ (\E code \in {"PROCESSING_TIMEOUT", "SECURITY_OPERATION_FAILED", "SECURITY_OPERATION_CANCELLED"} :
          AwaitFails(code))
    \/ SessionCloses \/ (\E late \in BOOLEAN : Settle(late)) \/ SettleCancelled
    \/ \E e \in {"clean", "unclean", "cancelled"} : WorkerClosed(e)

SandboxSpec == SandboxInit /\ [][SandboxNext]_sandboxVars

-----------------------------
(* Whoever has left the runner has either an acknowledgement that the        *)
(* process is gone, or a run in which nothing more may be done (finally of   *)
(* parse: "Cleanup failure также запрещает downstream LLM/DB в этом run").   *)
LeftIsSettled ==
    /\ (run.pc = "left" /\ (worker = "alive" \/ start = "running")) => verdict # "none"
    /\ (run.pc = "left" /\ run.told = "ok") => worker = "gone"

(* However the worker cuts its output, no more than the permitted result and *)
(* one byte is ever held.                                                    *)
OutputIsBounded == buffered <= MaxResult + 1

(* What the runner owes whoever leaves it: a process that is gone or a run   *)
(* that is closed, and output within its bound.                              *)
SandboxIsSettled == LeftIsSettled /\ OutputIsBounded
=============================================================================
