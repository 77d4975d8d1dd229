--------------------------- MODULE ReadingProofs ---------------------------
(***************************************************************************)
(* Proofs about how a source is read.  Sandbox: however the backend of a   *)
(* worker process behaves, whoever has left the runner knows that the      *)
(* process is gone or has a run that is closed, and never more output is   *)
(* held than a result and one byte.  ParserStream: for any number of       *)
(* sessions, streams and registrations, a lease is held as long as it has  *)
(* to be, and nothing is handed out once somebody has begun to close.      *)
(* Discovery: metadata read while an installer writes is what one file     *)
(* held, and what any installation claims is sorted out the same way in    *)
(* every order.  Selection: which parser reads a source follows from what  *)
(* the parsers found in it.                                                *)
(***************************************************************************)
EXTENDS ParserStream, Selection, Sandbox, Discovery, FiniteSetTheorems, SequenceTheorems,
        WellFoundedInduction, TLAPS

-----------------------------
(* The sandbox runner. *)

Body == {"starting", "selecting", "reading"}

Told ==
    {"none", "ok", "body", "cancelled", "SECURITY_SANDBOX_REQUIRED", "SECURITY_OPERATION_CANCELLED",
     "SECURITY_RUN_CLOSED", "SECURITY_LIMIT_EXCEEDED", "PROCESSING_TIMEOUT", "SECURITY_SANDBOX_FAILED",
     "SECURITY_OPERATION_FAILED", "SECURITY_SANDBOX_CLEANUP_FAILED", "SECURITY_INPUT_REJECTED"}

SandboxTypes ==
    /\ run \in [pc : Body \cup {"new", "refused", "settling", "closing", "left"},
               told : Told, cancelled : BOOLEAN]
    /\ start \in {"none", "running", "started", "failed"}
    /\ worker \in {"none", "alive", "gone"}

(* Where the runner is, and what it knows of the start of its process. *)
StartPart ==
    /\ run.pc \in {"new", "refused"} <=> start = "none"
    /\ run.pc \in {"selecting", "reading", "closing"} => start = "started"
    /\ start = "none" => worker = "none"
    /\ start = "failed" => worker # "alive"

(* Only a process that is up lets a parse end well. *)
ToldPart ==
    run.told = "ok" => run.pc \in {"settling", "closing", "left"} /\ start = "started"

(* What was let through has been counted, but for the last frame. *)
BytesPart ==
    /\ bytes \in Nat /\ buffered \in Nat
    /\ run.pc \in Body \cup {"new", "refused"} => buffered = bytes /\ bytes <= MaxResult

SandboxInv == SandboxTypes /\ StartPart /\ ToldPart /\ BytesPart /\ SandboxIsSettled

(* It holds before anything was started. *)
LEMMA SandboxInitInv == SandboxInit => SandboxInv
  BY SandboxAssumption DEF SandboxInit, SandboxInv, SandboxTypes, StartPart, ToldPart, BytesPart,
     SandboxIsSettled, LeftIsSettled, OutputIsBounded, Body, Told

(* The frames of a worker are the only step that counts. *)
LEMMA FrameKeeps ==
    ASSUME SandboxInv, NEW frame \in Frames, FrameArrives(frame)
    PROVE  SandboxInv'
  <1> DEFINE size == IF frame.size <= FrameLimit THEN frame.size ELSE FrameLimit
  <1>1. run.pc \in {"selecting", "reading"} /\ worker = "alive" /\ start = "started"
    BY DEF FrameArrives, SandboxInv, StartPart
  <1>2. bytes \in Nat /\ buffered = bytes /\ bytes <= MaxResult /\ run.told # "ok"
    BY <1>1 DEF SandboxInv, BytesPart, ToldPart, Body
  <1>3. size \in Nat /\ size <= MaxResult - bytes + 1
    BY <1>2, SandboxAssumption DEF FrameLimit
  <1>4. buffered' = buffered + size /\ start' = start /\ worker' = worker
    BY DEF FrameArrives
  <1>5. \/ run' = [run EXCEPT !.pc = "reading"] /\ bytes' = bytes + size /\ size <= MaxResult - bytes
        \/ /\ run'.pc = "settling" /\ run'.told # "ok" /\ bytes' \in {bytes, bytes + size}
           /\ run' \in [pc : {"settling"}, told : Told, cancelled : BOOLEAN]
    <2> DEFINE over == size > MaxFrame \/ size > MaxResult - bytes
    <2>1. CASE verdict # "none"
      BY <2>1 DEF FrameArrives, Unwinds, SandboxInv, SandboxTypes, Told
    <2>2. CASE verdict = "none" /\ (over \/ frame.depth > MaxDepth)
      BY <2>2 DEF FrameArrives, Unwinds, SandboxInv, SandboxTypes, Told
    <2>3. CASE verdict = "none" /\ ~(over \/ frame.depth > MaxDepth) /\ ~frame.fits
      BY <2>3 DEF FrameArrives, Unwinds, SandboxInv, SandboxTypes, Told
    <2>4. CASE verdict = "none" /\ ~(over \/ frame.depth > MaxDepth) /\ frame.fits
      BY <2>4, <1>2, <1>3, SandboxAssumption DEF FrameArrives
    <2> QED BY <2>1, <2>2, <2>3, <2>4
  <1> HIDE DEF size
  <1>6. bytes' \in Nat /\ buffered' \in Nat /\ buffered' <= MaxResult + 1
    BY <1>2, <1>3, <1>4, <1>5, SandboxAssumption
  <1>7. /\ run' \in [pc : {"reading", "settling"}, told : Told, cancelled : BOOLEAN]
        /\ run'.told # "ok"
    BY <1>2, <1>5 DEF SandboxInv, SandboxTypes
  <1>8. run'.pc = "reading" => buffered' = bytes' /\ bytes' <= MaxResult
    BY <1>2, <1>3, <1>4, <1>5, SandboxAssumption
  <1> QED
    BY <1>1, <1>4, <1>6, <1>7, <1>8 DEF SandboxInv, SandboxTypes, StartPart, ToldPart, BytesPart,
       SandboxIsSettled, LeftIsSettled, OutputIsBounded, Body, Told

(* The body ends, in the finally: well only when its process is up. *)
LEMMA UnwindKeeps ==
    ASSUME SandboxInv, run.pc \in Body, NEW code \in Told, code = "ok" => start = "started",
           Unwinds(code), UNCHANGED <<start, worker, bytes, buffered>>
    PROVE  SandboxInv'
  <1>1. /\ run'.pc = "settling" /\ run'.told = code
        /\ run' \in [pc : {"settling"}, told : Told, cancelled : BOOLEAN]
    BY DEF Unwinds, SandboxInv, SandboxTypes
  <1>2. SandboxTypes'
    BY <1>1 DEF SandboxInv, SandboxTypes
  <1>3. StartPart'
    BY <1>1 DEF SandboxInv, StartPart, Body
  <1>4. ToldPart'
    BY <1>1 DEF ToldPart
  <1>5. BytesPart' /\ SandboxIsSettled'
    BY <1>1 DEF SandboxInv, BytesPart, SandboxIsSettled, LeftIsSettled, OutputIsBounded, Body
  <1> QED BY <1>2, <1>3, <1>4, <1>5 DEF SandboxInv

(* The finally ends: well only when the process is gone, and a process that *)
(* may be alive leaves a verdict behind.                                    *)
LEMMA LeaveKeeps ==
    ASSUME SandboxInv, run.pc \in {"settling", "closing"}, NEW code \in Told, Leaves(code),
           code = "ok" => start = "started" /\ worker' = "gone",
           worker' = "alive" \/ start = "running" => verdict' # "none",
           worker' \in {worker, "gone"}, UNCHANGED <<start, bytes, buffered>>
    PROVE  SandboxInv'
  <1>1. /\ run'.pc = "left" /\ run'.told = code
        /\ run' \in [pc : {"left"}, told : Told, cancelled : BOOLEAN]
    BY DEF Leaves, SandboxInv, SandboxTypes
  <1>2. start # "none"
    BY DEF SandboxInv, StartPart
  <1>3. SandboxTypes'
    BY <1>1 DEF SandboxInv, SandboxTypes
  <1>4. StartPart'
    BY <1>1, <1>2 DEF SandboxInv, StartPart, Body
  <1>5. ToldPart'
    BY <1>1 DEF ToldPart
  <1>6. BytesPart' /\ SandboxIsSettled'
    BY <1>1 DEF SandboxInv, BytesPart, SandboxIsSettled, LeftIsSettled, OutputIsBounded, Body
  <1> QED BY <1>3, <1>4, <1>5, <1>6 DEF SandboxInv

(* Every step keeps it. *)
LEMMA SandboxStep == SandboxInv /\ [SandboxNext]_sandboxVars => SandboxInv'
  <1> SUFFICES ASSUME SandboxInv, [SandboxNext]_sandboxVars PROVE SandboxInv'
    OBVIOUS
  <1> USE DEF SandboxInv, SandboxTypes, StartPart, ToldPart, BytesPart, SandboxIsSettled,
              LeftIsSettled, OutputIsBounded, Body, Told
  <1>1. ASSUME NEW spec \in BOOLEAN, NEW caps \in {"complete", "incomplete", "cancelled"},
               NEW size \in {"fits", "too_large", "too_late"}, Admit(spec, caps, size)
        PROVE  SandboxInv'
    <2>1. CASE run'.pc = "starting"
      BY <1>1, <2>1 DEF Admit, Refuses, Records
    <2>2. CASE run'.pc # "starting"
      <3>1. /\ run'.pc = "refused" /\ run'.told # "ok" /\ run.pc = "new"
            /\ run' \in [pc : {"refused"}, told : Told, cancelled : BOOLEAN]
        BY <1>1, <2>2 DEF Admit, Refuses
      <3>2. UNCHANGED <<start, worker, bytes, buffered>>
        BY <1>1, <2>2 DEF Admit
      <3> HIDE <1>1
      <3> QED BY <3>1, <3>2
    <2> QED BY <2>1, <2>2
  <1>2. CASE ParseAgain
    BY <1>2 DEF ParseAgain, Records
  <1>3. CASE BackendStarts
    BY <1>3 DEF BackendStarts
  <1>4. ASSUME NEW works \in BOOLEAN, BackendReturns(works) PROVE SandboxInv'
    BY <1>4 DEF BackendReturns
  <1>5. CASE StartSeen
    <2>1. /\ run.pc \in Body /\ start \in {"started", "failed"}
          /\ UNCHANGED <<start, worker, bytes, buffered>>
      BY <1>5 DEF StartSeen
    <2>2. CASE \E code \in Told \ {"ok"} : Unwinds(code)
      BY <2>1, <2>2, UnwindKeeps
    <2>3. CASE start # "failed" /\ run' = [run EXCEPT !.pc = "selecting"]
      BY <1>5, <2>1, <2>3 DEF StartSeen
    <2> QED BY <1>5, <2>2, <2>3 DEF StartSeen
  <1>6. ASSUME NEW f \in Frames, FrameArrives(f) PROVE SandboxInv'
    BY <1>6, FrameKeeps
  <1>7. ASSUME NEW e \in {"completed", "failed"}, WorkerEnds(e) PROVE SandboxInv'
    <2>1. /\ run.pc \in Body /\ start = "started" /\ UNCHANGED <<start, worker, bytes, buffered>>
          /\ \E code \in Told : Unwinds(code)
      BY <1>7 DEF WorkerEnds
    <2> QED BY <2>1, UnwindKeeps
  <1>8. ASSUME NEW why \in {"ok", "body", "SECURITY_INPUT_REJECTED"}, CallerLeaves(why)
        PROVE  SandboxInv'
    <2>1. /\ run.pc \in Body /\ start = "started" /\ UNCHANGED <<start, worker, bytes, buffered>>
          /\ why \in Told /\ Unwinds(why)
      BY <1>8 DEF CallerLeaves
    <2> QED BY <2>1, UnwindKeeps
  <1>9. ASSUME NEW code \in {"PROCESSING_TIMEOUT", "SECURITY_OPERATION_FAILED",
                             "SECURITY_OPERATION_CANCELLED"}, AwaitFails(code)
        PROVE  SandboxInv'
    <2>1. /\ run.pc \in Body /\ UNCHANGED <<start, worker, bytes, buffered>>
          /\ code \in Told /\ code # "ok" /\ Unwinds(code)
      BY <1>9 DEF AwaitFails
    <2> QED BY <2>1, UnwindKeeps
  <1>10. CASE SessionCloses
    BY <1>10 DEF SessionCloses
  <1>11. ASSUME NEW late \in BOOLEAN, Settle(late) PROVE SandboxInv'
    <2>1. run.pc = "settling" /\ UNCHANGED <<start, worker, bytes, buffered>>
      BY <1>11 DEF Settle
    <2>2. CASE late
      <3>1. Leaves("SECURITY_SANDBOX_CLEANUP_FAILED") /\ verdict' # "none"
        BY <1>11, <2>2 DEF Settle, LeavesUnsettled, Records
      <3> QED BY <2>1, <3>1, LeaveKeeps
    <2>3. CASE ~late /\ start = "started"
      <3>1. run' = [run EXCEPT !.pc = "closing"]
        BY <1>11, <2>3 DEF Settle
      <3> QED BY <2>1, <2>3, <3>1
    <2>4. CASE ~late /\ start # "started"
      <3>1. start = "failed" /\ worker # "alive" /\ run.told # "ok" /\ run.told \in Told
        BY <1>11, <2>1, <2>4 DEF Settle
      <3>2. Leaves("cancelled") \/ Leaves(run.told)
        BY <1>11, <2>4 DEF Settle, LeavesSettled
      <3> QED BY <2>1, <3>1, <3>2, LeaveKeeps
    <2> QED BY <2>2, <2>3, <2>4
  <1>12. CASE SettleCancelled
    BY <1>12 DEF SettleCancelled
  <1>13. ASSUME NEW e \in {"clean", "unclean", "cancelled"}, WorkerClosed(e) PROVE SandboxInv'
    <2>1. /\ run.pc = "closing" /\ start = "started" /\ run.told \in Told
          /\ UNCHANGED <<start, bytes, buffered>> /\ worker' \in {worker, "gone"}
      BY <1>13 DEF WorkerClosed
    <2>2. CASE e = "clean"
      <3>1. worker' = "gone" /\ LeavesSettled
        BY <1>13, <2>2 DEF WorkerClosed
      <3>2. Leaves("cancelled") \/ Leaves(run.told)
        BY <3>1 DEF LeavesSettled
      <3> QED BY <2>1, <3>1, <3>2, LeaveKeeps
    <2>3. CASE e # "clean"
      <3>1. \/ Leaves("cancelled") /\ Records("SECURITY_OPERATION_CANCELLED")
            \/ LeavesUnsettled
        BY <1>13, <2>3 DEF WorkerClosed
      <3>2. verdict' # "none" /\ (Leaves("cancelled") \/ Leaves("SECURITY_SANDBOX_CLEANUP_FAILED"))
        BY <3>1 DEF LeavesUnsettled, Records
      <3> QED BY <2>1, <3>2, LeaveKeeps
    <2> QED BY <2>2, <2>3
  <1>14. CASE UNCHANGED sandboxVars
    BY <1>14 DEF sandboxVars
  <1> QED
    BY <1>1, <1>2, <1>3, <1>4, <1>5, <1>6, <1>7, <1>8, <1>9, <1>10, <1>11, <1>12, <1>13, <1>14
    DEF SandboxNext

(* For every policy and every worker: whoever has left the runner has an    *)
(* acknowledgement that the process is gone or a run in which nothing more  *)
(* is done, and what is held is at most a result and one byte               *)
(* (parsers/runners.py, the finally of parse and _frame_limit).             *)
THEOREM SandboxSettles == SandboxSpec => []SandboxIsSettled
  <1>1. SandboxInv => SandboxIsSettled
    BY DEF SandboxInv
  <1> QED BY <1>1, SandboxInitInv, SandboxStep, PTL DEF SandboxSpec

-----------------------------
(* The streams of a session. *)

(* A list of whatever it holds. *)
Listed(seq) == seq \in Seq({seq[i] : i \in 1..Len(seq)})

(* The fields of a stream, nothing being said of most of them. *)
StreamFields ==
    {"tracked", "closing", "closed", "completed", "lock", "terminal", "extraction", "prints",
     "refs", "keys", "sums", "tables", "trees", "records", "objects", "accepted"}

IsStream(s) == DOMAIN s = StreamFields /\ s = [f \in StreamFields |-> s[f]]

Unread == {"new", "selecting", "selected"}
Asking == {"idle", "waiting", "reading"}

(* One stream, the task that reads it and the one that closes it: at most   *)
(* one of them and the session is in the iterator, a stream that is closed  *)
(* was being closed, and completed was read to its end.                     *)
StreamTypes(s, r, c) ==
    /\ IsStream(s) /\ Listed(s.accepted) /\ r = [pc |-> r.pc, why |-> r.why]
    /\ s.tracked \in BOOLEAN /\ s.closing \in BOOLEAN /\ s.closed \in BOOLEAN
    /\ s.completed \in BOOLEAN
    /\ s.lock \in {Missing, "reader", "closer", "session"}
    /\ r.pc \in Unread \cup Asking \cup {"cleaning", "ended"}
    /\ c \in {"idle", "waiting", "cleaning", "done"}

InUse(s, r, c) ==
    /\ r.pc \in {"reading", "cleaning"} <=> s.lock = "reader"
    /\ c = "cleaning" <=> s.lock = "closer"
    /\ s.lock # Missing => ~s.closed
    /\ s.lock \in {"session", "closer"} => s.closing

Noted(s, r, c) ==
    /\ s.closed => s.closing /\ ~s.tracked
    /\ r.pc = "cleaning" \/ c \in {"waiting", "cleaning"} \/ r.why = "cancelled" => s.closing
    /\ r.pc \in Asking /\ ~s.closing => s.tracked
    /\ r.pc \in Unread => ~s.tracked /\ ~s.closed /\ s.lock = Missing /\ c = "idle"

Read(s, r) ==
    /\ r.pc = "cleaning" /\ r.why = "exhausted" => s.terminal
    /\ s.completed => s.terminal /\ s.closed

StreamFits(s, r, c) == StreamTypes(s, r, c) /\ InUse(s, r, c) /\ Noted(s, r, c) /\ Read(s, r)

(* The fields of a session. *)
SessionFields == {"phase", "frozen", "cleanup", "selecting"}

IsSession(z) == DOMAIN z = SessionFields /\ z = [f \in SessionFields |-> z[f]]

(* One session: while it is open it counts, once it is left it does not,    *)
(* and its clean-up knows of every stream that is still tracked.            *)
SessionFits(s) ==
    /\ IsSession(sessions[s])
    /\ sessions[s].phase \in {"new", "open"} \cup Closing
    /\ sessions[s].phase = "open" => s \in holds
    /\ sessions[s].phase = "left" => s \notin holds
    /\ \A x \in Streams : home[x] = s /\ sessions[s].phase # "open" /\ st[x].tracked => st[x].closing
    /\ sessions[s].phase = "cleaning" => TrackedBy(s, st) \subseteq sessions[s].cleanup
    /\ \A x \in Streams \cap sessions[s].cleanup : reader[x].pc \notin Unread

StreamInv ==
    /\ home \in [Streams -> Sessions] /\ DOMAIN st = Streams /\ DOMAIN reader = Streams
    /\ DOMAIN closer = Streams /\ DOMAIN sessions = Sessions
    /\ st = [x \in Streams |-> st[x]] /\ reader = [x \in Streams |-> reader[x]]
    /\ closer = [x \in Streams |-> closer[x]] /\ sessions = [s \in Sessions |-> sessions[s]]
    /\ holds \subseteq Sessions
    /\ \A x \in Streams : StreamFits(st[x], reader[x], closer[x])
    /\ \A s \in Sessions : SessionFits(s)
    /\ RegistryIsFrozen

registryVars == <<home, parsers, registrar>>

(* What a step of one stream may change of a session: who selects, and that *)
(* its clean-up is through with the stream.                                 *)
SessionKept(s, x) ==
    /\ IsSession(sessions'[s])
    /\ sessions'[s].phase = sessions[s].phase /\ sessions'[s].frozen = sessions[s].frozen
    /\ \/ sessions'[s].cleanup = sessions[s].cleanup
       \/ sessions'[s].cleanup = sessions[s].cleanup \ {x} /\ ~st'[x].tracked

SessionsKept(x) ==
    /\ sessions' = [s \in Sessions |-> sessions'[s]]
    /\ \A s \in Sessions : SessionKept(s, x)

(* What is put behind a list is in the list. *)
LEMMA AppendListed ==
    ASSUME NEW seq, NEW e, Listed(seq)
    PROVE  Listed(Append(seq, e)) /\ Len(Append(seq, e)) = Len(seq) + 1
  <1> DEFINE R == {seq[i] : i \in 1..Len(seq)} \cup {e}
             new == Append(seq, e)
  <1>1. seq \in Seq({seq[i] : i \in 1..Len(seq)})
    BY DEF Listed
  <1>2. seq \in Seq(R) /\ e \in R
    BY <1>1
  <1>3. new \in Seq(R) /\ Len(new) = Len(seq) + 1 /\ Len(seq) \in Nat
    BY <1>2
  <1> DEFINE P == {new[j] : j \in 1..Len(new)}
  <1>4. \A i \in 1..Len(new) : new[i] \in P
    OBVIOUS
  <1>5. new \in Seq(P)
    <2> HIDE DEF new, P, R
    <2>1. DOMAIN new = 1..Len(new) /\ new = [i \in 1..Len(new) |-> new[i]] /\ Len(new) \in Nat
      BY <1>3
    <2>2. new \in [1..Len(new) -> P]
      BY <1>4, <2>1
    <2> QED BY <2>1, <2>2
  <1> QED BY <1>3, <1>5 DEF Listed

(* Who hands in the lease: a session that is over and tracks nothing more. *)
LEMMA HoldsAfterIs ==
    ASSUME NEW streams
    PROVE  /\ HoldsAfter(streams) \subseteq holds
           /\ \A s \in Sessions : s \in holds /\ sessions[s].phase \notin Closing => s \in HoldsAfter(streams)
  BY DEF HoldsAfter

(* A step of one stream.  It is tracked only by a session that is open,     *)
(* is closing for good and does not go back to where it was not parsed.     *)
LEMMA OneStream ==
    ASSUME StreamInv, NEW x \in Streams, UNCHANGED registryVars, SessionsKept(x),
           st' = [st EXCEPT ![x] = st'[x]], reader' = [reader EXCEPT ![x] = reader'[x]],
           closer' = [closer EXCEPT ![x] = closer'[x]],
           holds' = holds \/ holds' = HoldsAfter(st'),
           StreamFits(st'[x], reader'[x], closer'[x]),
           st'[x].tracked => st[x].tracked \/ sessions[home[x]].phase = "open",
           st[x].closing => st'[x].closing,
           reader'[x].pc \in Unread => reader[x].pc \in Unread
    PROVE  StreamInv'
  <1>1. /\ DOMAIN st' = Streams /\ DOMAIN reader' = Streams /\ DOMAIN closer' = Streams
        /\ st' = [y \in Streams |-> st'[y]] /\ reader' = [y \in Streams |-> reader'[y]]
        /\ closer' = [y \in Streams |-> closer'[y]]
    BY DEF StreamInv
  <1>2. \A y \in Streams \ {x} :
            st'[y] = st[y] /\ reader'[y] = reader[y] /\ closer'[y] = closer[y]
    BY DEF StreamInv
  <1>3. holds' \subseteq holds
    BY HoldsAfterIs
  <1>4. \A s \in Sessions : s \in holds /\ sessions[s].phase \notin Closing => s \in holds'
    BY HoldsAfterIs
  <1>5. home' = home /\ parsers' = parsers /\ registrar' = registrar
    BY DEF registryVars
  <1>6. (\A y \in Streams : StreamFits(st[y], reader[y], closer[y]))'
    <2> SUFFICES ASSUME NEW y \in Streams PROVE StreamFits(st'[y], reader'[y], closer'[y])
      OBVIOUS
    <2>1. CASE y = x BY <2>1, <1>2
    <2>2. CASE y # x
      <3>1. StreamFits(st[y], reader[y], closer[y]) BY DEF StreamInv
      <3> QED BY <2>2, <3>1, <1>2
    <2> QED BY <2>1, <2>2
  <1>7. ASSUME NEW s \in Sessions PROVE SessionFits(s)'
    <2>1. SessionFits(s) BY DEF StreamInv
    <2>a. /\ sessions'[s].phase = sessions[s].phase /\ IsSession(sessions'[s])
          /\ \/ sessions'[s].cleanup = sessions[s].cleanup
             \/ sessions'[s].cleanup = sessions[s].cleanup \ {x} /\ ~st'[x].tracked
      BY DEF SessionsKept, SessionKept
    <2>2. \A y \in Streams : st'[y].tracked => st[y].tracked \/ sessions[home[y]].phase = "open"
      BY <1>2
    <2>3. \A y \in Streams : st[y].closing => st'[y].closing
      BY <1>2
    <2>4. \A y \in Streams : reader'[y].pc \in Unread => reader[y].pc \in Unread
      BY <1>2
    <2>5. sessions[s].phase = "open" => s \in holds'
      BY <2>1, <1>4 DEF SessionFits, Closing
    <2>6. sessions[s].phase = "left" => s \notin holds'
      BY <2>1, <1>3 DEF SessionFits
    <2>7. \A y \in Streams : home[y] = s /\ sessions[s].phase # "open" /\ st'[y].tracked => st'[y].closing
      BY <2>1, <2>2, <2>3 DEF SessionFits
    <2>8. sessions[s].phase = "cleaning" => TrackedBy(s, st') \subseteq sessions'[s].cleanup
      <3> SUFFICES ASSUME sessions[s].phase = "cleaning", NEW y \in TrackedBy(s, st')
                   PROVE  y \in sessions'[s].cleanup
        OBVIOUS
      <3>1. y \in Streams /\ st'[y].tracked /\ home[y] = s
        BY <1>5 DEF TrackedBy
      <3>2. y \in sessions[s].cleanup
        BY <3>1, <2>1, <2>2 DEF SessionFits, TrackedBy
      <3> QED BY <3>1, <3>2, <2>a
    <2>9. (TrackedBy(s, st))' = TrackedBy(s, st')
      BY <1>5 DEF TrackedBy
    <2>10. \A y \in Streams \cap sessions'[s].cleanup : reader'[y].pc \notin Unread
      BY <2>1, <2>4, <2>a DEF SessionFits
    <2>11. sessions'[s].phase \in {"new", "open"} \cup Closing
      BY <2>1, <2>a DEF SessionFits
    <2>12. home' = home /\ sessions'[s].phase = sessions[s].phase BY <2>a, <1>5
    <2>13. \A y \in Streams : home'[y] = s /\ sessions'[s].phase # "open" /\ st'[y].tracked => st'[y].closing
      BY <2>7, <2>12
    <2>14. sessions'[s].phase = "cleaning" => (TrackedBy(s, st))' \subseteq sessions'[s].cleanup
      BY <2>8, <2>9, <2>12
    <2>15. /\ sessions'[s].phase = "open" => s \in holds'
           /\ sessions'[s].phase = "left" => s \notin holds'
      BY <2>5, <2>6, <2>12
    <2> QED BY <2>a, <2>10, <2>11, <2>13, <2>14, <2>15 DEF SessionFits, Closing
  <1>8. RegistryIsFrozen'
    <2>1. \A s \in Sessions : /\ sessions'[s].phase = sessions[s].phase
                              /\ sessions'[s].frozen = sessions[s].frozen
      BY DEF SessionsKept, SessionKept
    <2> QED BY <1>5, <2>1 DEF StreamInv, RegistryIsFrozen
  <1>10. DOMAIN sessions' = Sessions /\ sessions' = [s \in Sessions |-> sessions'[s]]
    BY DEF SessionsKept
  <1>9. holds' \subseteq Sessions BY <1>3 DEF StreamInv
  <1> QED BY <1>1, <1>5, <1>6, <1>7, <1>8, <1>9, <1>10 DEF StreamInv


(* What a stream has read. *)
SameRead(t, s) ==
    /\ t.accepted = s.accepted /\ t.terminal = s.terminal /\ t.sums = s.sums
    /\ t.refs = s.refs /\ t.keys = s.keys /\ t.tables = s.tables /\ t.trees = s.trees

(* Edits of a stream keep its other fields. *)
LEMMA LockEdited ==
    ASSUME NEW s, IsStream(s), NEW v
    PROVE  LET t == [s EXCEPT !.lock = v]
           IN  /\ IsStream(t) /\ t.lock = v /\ t.tracked = s.tracked /\ t.closing = s.closing
               /\ t.closed = s.closed /\ t.completed = s.completed /\ t.terminal = s.terminal
               /\ t.accepted = s.accepted /\ SameRead(t, s)
  BY DEF IsStream, StreamFields, SameRead

LEMMA ClosingEdited ==
    ASSUME NEW s, IsStream(s)
    PROVE  LET t == [s EXCEPT !.closing = TRUE]
           IN  /\ IsStream(t) /\ t.closing = TRUE /\ t.lock = s.lock /\ t.tracked = s.tracked
               /\ t.closed = s.closed /\ t.completed = s.completed /\ t.terminal = s.terminal
               /\ t.accepted = s.accepted /\ SameRead(t, s)
  BY DEF IsStream, StreamFields, SameRead

LEMMA TrackedEdited ==
    ASSUME NEW s, IsStream(s)
    PROVE  LET t == [s EXCEPT !.tracked = TRUE]
           IN  /\ IsStream(t) /\ t.tracked = TRUE /\ t.lock = s.lock /\ t.closing = s.closing
               /\ t.closed = s.closed /\ t.completed = s.completed /\ t.terminal = s.terminal
               /\ t.accepted = s.accepted /\ SameRead(t, s)
  BY DEF IsStream, StreamFields, SameRead

LEMMA CancelledEdited ==
    ASSUME NEW s, IsStream(s)
    PROVE  LET t == AfterCancelledRead(s)
           IN  /\ IsStream(t) /\ t.closing = TRUE /\ t.lock = Missing /\ t.tracked = s.tracked
               /\ t.closed = s.closed /\ t.completed = s.completed /\ t.terminal = s.terminal
               /\ t.accepted = s.accepted /\ SameRead(t, s)
  BY DEF IsStream, StreamFields, SameRead, AfterCancelledRead

LEMMA ClosedEdited ==
    ASSUME NEW s, IsStream(s), NEW how
    PROVE  LET t == Closed(s, how)
           IN  /\ IsStream(t) /\ t.closed = (how = "ok") /\ t.lock = Missing /\ t.tracked = FALSE
               /\ t.closing = s.closing /\ t.completed = s.completed /\ t.terminal = s.terminal
               /\ t.accepted = s.accepted
  BY DEF IsStream, StreamFields, Closed

LEMMA ClosedSame ==
    ASSUME NEW s, IsStream(s), NEW how
    PROVE  SameRead(Closed(s, how), s)
  BY DEF IsStream, StreamFields, Closed, SameRead

LEMMA CompletedEdited ==
    ASSUME NEW s, IsStream(s), NEW v
    PROVE  LET t == [s EXCEPT !.completed = v]
           IN  /\ IsStream(t) /\ t.completed = v /\ t.lock = s.lock /\ t.tracked = s.tracked
               /\ t.closed = s.closed /\ t.closing = s.closing /\ t.terminal = s.terminal
               /\ t.accepted = s.accepted /\ SameRead(t, s)
  BY DEF IsStream, StreamFields, SameRead

(* What a batch changes of a stream. *)
LEMMA TakenIs ==
    ASSUME NEW x \in Streams, NEW b, IsStream(st[x])
    PROVE  LET s == st[x]
               t == Taken(x, b)
           IN  /\ IsStream(t) /\ t.tracked = s.tracked /\ t.closing = s.closing
               /\ t.closed = s.closed /\ t.completed = s.completed /\ t.lock = s.lock
               /\ t.terminal = b.last /\ t.accepted = Append(s.accepted, b)
               /\ t.sums = Append(s.sums, SummaryOf(b))
               /\ t.refs = IF b.version = "1.1" THEN s.refs \o b.refs ELSE s.refs
               /\ t.keys = s.keys \cup IF b.version = "1.1" THEN {b.refs[i] : i \in DOMAIN b.refs}
                                      ELSE RefsOf(b)
               /\ t.tables = TablesAfter(x, b).known /\ t.trees = TreesAfter(x, b).known
  <1> DEFINE s == st[x]
             a == Append(s.sums, SummaryOf(b))
             p == s.prints \cup {b.print}
             ac == Append(s.accepted, b)
             r == IF b.version = "1.1" THEN s.refs \o b.refs ELSE s.refs
             k == s.keys \cup IF b.version = "1.1" THEN {b.refs[i] : i \in DOMAIN b.refs} ELSE RefsOf(b)
             tb == TablesAfter(x, b).known
             tr == TreesAfter(x, b).known
             n == s.records + Counted(b)
             o == s.objects + Len(RefKeys(b))
             l == b.last
             e == b.extraction
             t == [s EXCEPT !.sums = a, !.prints = p, !.extraction = e, !.accepted = ac,
                            !.refs = r, !.keys = k, !.tables = tb, !.trees = tr,
                            !.records = n, !.objects = o, !.terminal = l]
  <1>1. Taken(x, b) = t
    BY DEF Taken
  <1> HIDE DEF a, p, ac, r, k, tb, tr, n, o, l, e, s
  <1>2. IsStream(s)
    BY DEF s
  <1>3. DOMAIN t = StreamFields
    BY <1>2 DEF IsStream
  <1>4. t = [f \in StreamFields |-> t[f]]
    BY <1>2 DEF IsStream, StreamFields
  <1>5. /\ t.tracked = s.tracked /\ t.closing = s.closing
        /\ t.closed = s.closed /\ t.completed = s.completed /\ t.lock = s.lock
    BY <1>2 DEF IsStream, StreamFields
  <1>6. t.terminal = l /\ t.accepted = ac
    BY <1>2 DEF IsStream, StreamFields
  <1>9. t.sums = a /\ t.refs = r /\ t.keys = k /\ t.tables = tb /\ t.trees = tr
    BY <1>2 DEF IsStream, StreamFields
  <1> HIDE DEF t
  <1>7. IsStream(t) BY <1>3, <1>4 DEF IsStream
  <1>8. /\ IsStream(Taken(x, b)) /\ Taken(x, b).tracked = s.tracked /\ Taken(x, b).closing = s.closing
        /\ Taken(x, b).closed = s.closed /\ Taken(x, b).completed = s.completed
        /\ Taken(x, b).lock = s.lock /\ Taken(x, b).terminal = l /\ Taken(x, b).accepted = ac
    BY <1>1, <1>5, <1>6, <1>7
  <1>10. /\ Taken(x, b).sums = a /\ Taken(x, b).refs = r /\ Taken(x, b).keys = k
         /\ Taken(x, b).tables = tb /\ Taken(x, b).trees = tr
    BY <1>1, <1>9
  <1> QED BY <1>8, <1>10 DEF s, a, ac, r, k, tb, tr, l

-----------------------------
(* Reading. *)

(* What a reader is left with. *)
LEMMA PcEdited ==
    ASSUME StreamInv, NEW x \in Streams, NEW v, reader' = [reader EXCEPT ![x].pc = v]
    PROVE  /\ reader' = [reader EXCEPT ![x] = reader'[x]]
           /\ reader'[x] = [pc |-> v, why |-> reader[x].why]
  BY DEF StreamInv, StreamFits, StreamTypes

LEMMA ReaderEdited ==
    ASSUME StreamInv, NEW x \in Streams, NEW v, reader' = [reader EXCEPT ![x] = v]
    PROVE  reader' = [reader EXCEPT ![x] = reader'[x]] /\ reader'[x] = v
  BY DEF StreamInv

LEMMA StreamEdited ==
    ASSUME StreamInv, NEW x \in Streams, NEW v, st' = [st EXCEPT ![x] = v]
    PROVE  st' = [st EXCEPT ![x] = st'[x]] /\ st'[x] = v
  BY DEF StreamInv

LEMMA CloserEdited ==
    ASSUME StreamInv, NEW x \in Streams, NEW v, closer' = [closer EXCEPT ![x] = v]
    PROVE  closer' = [closer EXCEPT ![x] = closer'[x]] /\ closer'[x] = v
  BY DEF StreamInv

LEMMA LeftAlone ==
    ASSUME StreamInv, NEW x \in Streams
    PROVE  /\ st' = st => st' = [st EXCEPT ![x] = st'[x]] /\ st'[x] = st[x]
           /\ reader' = reader => reader' = [reader EXCEPT ![x] = reader'[x]] /\ reader'[x] = reader[x]
           /\ closer' = closer => closer' = [closer EXCEPT ![x] = closer'[x]] /\ closer'[x] = closer[x]
  BY DEF StreamInv

LEMMA SessionsLeftAlone ==
    ASSUME StreamInv, NEW x \in Streams, sessions' = sessions
    PROVE  SessionsKept(x)
  BY DEF StreamInv, SessionFits, SessionsKept, SessionKept

(* Waiting for the lock, or having it. *)
LEMMA NextKeeps ==
    ASSUME StreamInv, NEW x \in Streams, NextStarts(x) \/ NextGoesOn(x)
    PROVE  StreamInv'
  <1> DEFINE s == st[x]
             r == reader[x]
             c == closer[x]
  <1>1. StreamFits(s, r, c)
    BY DEF StreamInv
  <1>2. closer' = [closer EXCEPT ![x] = closer'[x]] /\ closer'[x] = c /\ UNCHANGED registryVars /\ sessions' = sessions /\ holds' = holds
    BY LeftAlone DEF NextStarts, NextGoesOn, registryVars
  <1>3. r.pc \in {"idle", "waiting"}
    BY DEF NextStarts, NextGoesOn
  <1>4. CASE s.closing \/ s.closed
    <2>1. st' = st /\ reader' = [reader EXCEPT ![x] = [pc |-> "ended", why |-> "stop"]]
      BY <1>4 DEF NextStarts, NextGoesOn, Stops
    <2>2. reader'[x] = [pc |-> "ended", why |-> "stop"] /\ reader' = [reader EXCEPT ![x] = reader'[x]]
      BY <2>1, ReaderEdited
    <2>3. st' = [st EXCEPT ![x] = st'[x]] /\ st'[x] = s
      BY <2>1, LeftAlone
    <2>4. StreamFits(s, [pc |-> "ended", why |-> "stop"], c)
      BY <1>1, <1>3 DEF StreamFits, StreamTypes, InUse, Noted, Read, Unread, Asking
    <2> QED BY <1>2, <2>2, <2>3, <2>4, OneStream, SessionsLeftAlone DEF Unread
  <1>5. CASE ~(s.closing \/ s.closed) /\ s.lock # Missing
    <2>1. st' = st /\ reader' = [reader EXCEPT ![x].pc = "waiting"] /\ r.pc = "idle"
      BY <1>5 DEF NextStarts, NextGoesOn
    <2>2. reader'[x] = [pc |-> "waiting", why |-> r.why] /\ reader' = [reader EXCEPT ![x] = reader'[x]]
      BY <2>1, PcEdited
    <2>3. st' = [st EXCEPT ![x] = st'[x]] /\ st'[x] = s
      BY <2>1, LeftAlone
    <2>4. StreamFits(s, [pc |-> "waiting", why |-> r.why], c)
      BY <1>1, <2>1 DEF StreamFits, StreamTypes, InUse, Noted, Read, Unread, Asking
    <2> QED BY <1>2, <2>2, <2>3, <2>4, OneStream, SessionsLeftAlone DEF Unread
  <1>6. CASE ~(s.closing \/ s.closed) /\ s.lock = Missing
    <2> DEFINE t == [s EXCEPT !.lock = "reader"]
    <2>1. st' = [st EXCEPT ![x] = t] /\ reader' = [reader EXCEPT ![x].pc = "reading"]
      BY <1>6, <1>1 DEF NextStarts, NextGoesOn, StreamInv
    <2>2. reader'[x] = [pc |-> "reading", why |-> r.why] /\ reader' = [reader EXCEPT ![x] = reader'[x]]
      BY <2>1, PcEdited
    <2>3. st' = [st EXCEPT ![x] = st'[x]] /\ st'[x] = t
      BY <2>1, StreamEdited
    <2>4. /\ IsStream(t) /\ t.lock = "reader" /\ t.tracked = s.tracked /\ t.closing = s.closing
          /\ t.closed = s.closed /\ t.completed = s.completed /\ t.terminal = s.terminal
          /\ t.accepted = s.accepted
      BY <1>1, LockEdited DEF StreamFits, StreamTypes
    <2> HIDE DEF t
    <2>5. StreamFits(t, [pc |-> "reading", why |-> r.why], c)
      BY <1>1, <1>3, <1>6, <2>4, StreamAssumption DEF StreamFits, StreamTypes, InUse, Noted, Read, Unread, Asking
    <2> QED BY <1>2, <2>2, <2>3, <2>4, <2>5, OneStream, SessionsLeftAlone DEF Unread
  <1> QED BY <1>4, <1>5, <1>6

(* A batch goes through, or the iterator is closed because of it. *)
LEMMA CleansUpFits ==
    ASSUME StreamInv, NEW x \in Streams, NEW why, reader[x].pc = "reading", CleansUp(x, why),
           why = "exhausted" => st[x].terminal
    PROVE  /\ st' = [st EXCEPT ![x] = st'[x]] /\ reader' = [reader EXCEPT ![x] = reader'[x]]
           /\ StreamFits(st'[x], reader'[x], closer[x])
           /\ st'[x].tracked = st[x].tracked /\ st'[x].closing = TRUE /\ reader'[x].pc = "cleaning"
           /\ st'[x].accepted = st[x].accepted
  <1> DEFINE s == st[x]
             c == closer[x]
             t == [s EXCEPT !.closing = TRUE]
             q == [pc |-> "cleaning", why |-> why]
  <1>1. StreamFits(s, reader[x], c)
    BY DEF StreamInv
  <1>2. st' = [st EXCEPT ![x] = t] /\ reader' = [reader EXCEPT ![x] = q]
    BY DEF CleansUp, StreamInv
  <1>3. st' = [st EXCEPT ![x] = st'[x]] /\ st'[x] = t
    BY <1>2, StreamEdited
  <1>4. reader' = [reader EXCEPT ![x] = reader'[x]] /\ reader'[x] = q
    BY <1>2, ReaderEdited
  <1>5. /\ IsStream(t) /\ t.closing = TRUE /\ t.lock = s.lock /\ t.tracked = s.tracked
        /\ t.closed = s.closed /\ t.completed = s.completed /\ t.terminal = s.terminal
        /\ t.accepted = s.accepted
    BY <1>1, ClosingEdited DEF StreamFits, StreamTypes
  <1> HIDE DEF t
  <1>6. StreamFits(t, q, c)
    BY <1>1, <1>5 DEF StreamFits, StreamTypes, InUse, Noted, Read, Unread, Asking
  <1> QED BY <1>3, <1>4, <1>5, <1>6

LEMMA CleansUpKeeps ==
    ASSUME StreamInv, NEW x \in Streams, NEW why, reader[x].pc = "reading", CleansUp(x, why),
           why = "exhausted" => st[x].terminal,
           UNCHANGED <<home, parsers, sessions, holds, closer, registrar>>
    PROVE  StreamInv'
  <1>1. closer' = [closer EXCEPT ![x] = closer'[x]] /\ closer'[x] = closer[x]
    BY LeftAlone
  <1>2. UNCHANGED registryVars /\ SessionsKept(x) /\ holds' = holds
    BY SessionsLeftAlone DEF registryVars
  <1> QED BY <1>1, <1>2, CleansUpFits, OneStream DEF Unread

LEMMA ReadBatchKeeps ==
    ASSUME StreamInv, NEW x \in Streams, NEW b, ReadBatch(x, b)
    PROVE  StreamInv'
  <1> DEFINE s == st[x]
             r == reader[x]
             c == closer[x]
             limit == LimitBroken(x, b)
             taken == Taken(x, b)
             t == [taken EXCEPT !.lock = Missing]
             q == [pc |-> "idle", why |-> r.why]
  <1>1. StreamFits(s, r, c) /\ r.pc = "reading" /\ UNCHANGED <<home, parsers, sessions, holds, closer, registrar>>
    BY DEF StreamInv, ReadBatch
  <1>2. limit # "exhausted"
    BY DEF LimitBroken
  <1>3. \/ \E why \in {"stop", "batch_after_terminal", limit, "invalid", "refs"} : CleansUp(x, why)
        \/ /\ ~s.terminal /\ ~s.closing
           /\ st' = [st EXCEPT ![x] = t] /\ reader' = [reader EXCEPT ![x].pc = "idle"]
    BY DEF ReadBatch
  <1>4. CASE \E why \in {"stop", "batch_after_terminal", limit, "invalid", "refs"} : CleansUp(x, why)
    <2>1. PICK why \in {"stop", "batch_after_terminal", limit, "invalid", "refs"} : CleansUp(x, why)
      BY <1>4
    <2>2. why # "exhausted"
      BY <1>2
    <2> HIDE DEF limit
    <2> QED BY <1>1, <2>1, <2>2, CleansUpKeeps
  <1>5. CASE ~s.terminal /\ ~s.closing /\ st' = [st EXCEPT ![x] = t] /\ reader' = [reader EXCEPT ![x].pc = "idle"]
    <2>1. st' = [st EXCEPT ![x] = st'[x]] /\ st'[x] = t
      BY <1>5, StreamEdited
    <2>2. reader' = [reader EXCEPT ![x] = reader'[x]] /\ reader'[x] = q
      BY <1>5, PcEdited
    <2>3. /\ IsStream(taken) /\ taken.tracked = s.tracked /\ taken.closing = s.closing
          /\ taken.closed = s.closed /\ taken.completed = s.completed /\ taken.lock = s.lock
          /\ taken.terminal = b.last /\ taken.accepted = Append(s.accepted, b)
      BY <1>1, TakenIs DEF StreamFits, StreamTypes
    <2> HIDE DEF taken
    <2>4. /\ IsStream(t) /\ t.lock = Missing /\ t.tracked = s.tracked /\ t.closing = s.closing
          /\ t.closed = s.closed /\ t.completed = s.completed /\ t.accepted = Append(s.accepted, b)
      BY <2>3, LockEdited
    <2> HIDE DEF t
    <2>5. Listed(t.accepted)
      BY <1>1, <2>4, AppendListed DEF StreamFits, StreamTypes
    <2>6. StreamFits(t, q, c)
      BY <1>1, <1>5, <2>4, <2>5, StreamAssumption DEF StreamFits, StreamTypes, InUse, Noted, Read, Unread, Asking
    <2>7. closer' = [closer EXCEPT ![x] = closer'[x]] /\ closer'[x] = c
      BY <1>1, LeftAlone
    <2>8. UNCHANGED registryVars /\ SessionsKept(x) /\ holds' = holds
      BY <1>1, SessionsLeftAlone DEF registryVars
    <2> QED BY <1>1, <2>1, <2>2, <2>4, <2>6, <2>7, <2>8, OneStream DEF Unread
  <1> QED BY <1>3, <1>4, <1>5

(* The iterator ends, or fails. *)
LEMMA ReadEndsKeeps ==
    ASSUME StreamInv, NEW x \in Streams, ReadEnds(x)
    PROVE  StreamInv'
  <1>1. reader[x].pc = "reading" /\ UNCHANGED <<home, parsers, sessions, holds, closer, registrar>>
    BY DEF ReadEnds
  <1>2. PICK why : CleansUp(x, why) /\ (why = "exhausted" => st[x].terminal)
    BY DEF ReadEnds
  <1> QED BY <1>1, <1>2, CleansUpKeeps

LEMMA ReadFailsKeeps ==
    ASSUME StreamInv, NEW x \in Streams, NEW failure \in Failures, ReadFails(x, failure)
    PROVE  StreamInv'
  <1> DEFINE s == st[x]
             r == reader[x]
             c == closer[x]
             t == AfterCancelledRead(s)
             q == [pc |-> "idle", why |-> "cancelled"]
  <1>1. StreamFits(s, r, c) /\ r.pc = "reading" /\ UNCHANGED <<home, parsers, sessions, holds, closer, registrar>>
    BY DEF StreamInv, ReadFails
  <1>2. CASE failure # "cancelled"
    <2>1. CleansUp(x, failure) /\ failure # "exhausted"
      BY <1>2, StreamAssumption DEF ReadFails
    <2> QED BY <1>1, <2>1, CleansUpKeeps
  <1>3. CASE failure = "cancelled"
    <2>0. st' = [st EXCEPT ![x] = t] /\ reader' = [reader EXCEPT ![x] = q]
      BY <1>3 DEF ReadFails
    <2>1. st' = [st EXCEPT ![x] = st'[x]] /\ st'[x] = t
      BY <2>0, StreamEdited
    <2>2. reader' = [reader EXCEPT ![x] = reader'[x]] /\ reader'[x] = q
      BY <2>0, ReaderEdited
    <2>3. /\ IsStream(t) /\ t.closing = TRUE /\ t.lock = Missing /\ t.tracked = s.tracked
          /\ t.closed = s.closed /\ t.completed = s.completed /\ t.terminal = s.terminal
          /\ t.accepted = s.accepted
      BY <1>1, CancelledEdited DEF StreamFits, StreamTypes
    <2> HIDE DEF t
    <2>4. StreamFits(t, q, c)
      BY <1>1, <2>3, StreamAssumption DEF StreamFits, StreamTypes, InUse, Noted, Read, Unread, Asking
    <2>5. closer' = [closer EXCEPT ![x] = closer'[x]] /\ closer'[x] = c
      BY <1>1, LeftAlone
    <2>6. UNCHANGED registryVars /\ SessionsKept(x) /\ holds' = holds
      BY <1>1, SessionsLeftAlone DEF registryVars
    <2> QED BY <2>1, <2>2, <2>3, <2>4, <2>5, <2>6, OneStream DEF Unread
  <1> QED BY <1>2, <1>3

(* Whoever was in the iterator has closed it, as well as it could. *)
LEMMA ReaderCleanedKeeps ==
    ASSUME StreamInv, NEW x \in Streams, NEW how \in CloseOutcomes, ReaderCleaned(x, how)
    PROVE  StreamInv'
  <1> DEFINE s == st[x]
             r == reader[x]
             c == closer[x]
             u == Closed(s, how)
             done == r.why = "exhausted" /\ how = "ok"
             t == [u EXCEPT !.completed = done]
             q == [pc |-> "ended", why |-> IF how = "ok" THEN r.why ELSE "cleanup"]
  <1>1. /\ StreamFits(s, r, c) /\ r.pc = "cleaning"
        /\ UNCHANGED <<home, parsers, sessions, closer, registrar>> /\ holds' = HoldsAfter(st')
    BY DEF StreamInv, ReaderCleaned
  <1>2. st' = [st EXCEPT ![x] = t] /\ reader' = [reader EXCEPT ![x] = q]
    BY DEF ReaderCleaned, Stops
  <1>3. st' = [st EXCEPT ![x] = st'[x]] /\ st'[x] = t
    BY <1>2, StreamEdited
  <1>4. reader' = [reader EXCEPT ![x] = reader'[x]] /\ reader'[x] = q
    BY <1>2, ReaderEdited
  <1>5. /\ IsStream(u) /\ u.closed = (how = "ok") /\ u.lock = Missing /\ u.tracked = FALSE
        /\ u.closing = s.closing /\ u.completed = s.completed /\ u.terminal = s.terminal
        /\ u.accepted = s.accepted
    BY <1>1, ClosedEdited DEF StreamFits, StreamTypes
  <1> HIDE DEF u, done
  <1>6. /\ IsStream(t) /\ t.closed = (how = "ok") /\ t.lock = Missing /\ t.tracked = FALSE
        /\ t.closing = s.closing /\ t.completed = done /\ t.terminal = s.terminal
        /\ t.accepted = s.accepted
    BY <1>5, CompletedEdited
  <1> HIDE DEF t
  <1>7. StreamFits(t, q, c)
    BY <1>1, <1>6, StreamAssumption DEF StreamFits, StreamTypes, InUse, Noted, Read, Unread, Asking, done
  <1>8. closer' = [closer EXCEPT ![x] = closer'[x]] /\ closer'[x] = c
    BY <1>1, LeftAlone
  <1>9. UNCHANGED registryVars /\ SessionsKept(x)
    BY <1>1, SessionsLeftAlone DEF registryVars
  <1> QED BY <1>1, <1>3, <1>4, <1>6, <1>7, <1>8, <1>9, OneStream DEF Unread

(* Somebody else closes the stream. *)
LEMMA CloseStartsKeeps ==
    ASSUME StreamInv, NEW x \in Streams, CloseStarts(x)
    PROVE  StreamInv'
  <1> DEFINE s == st[x]
             r == reader[x]
             t == [s EXCEPT !.closing = TRUE]
  <1>1. /\ StreamFits(s, r, closer[x]) /\ r.pc \notin Unread /\ closer[x] = "idle"
        /\ UNCHANGED <<home, parsers, sessions, holds, reader, registrar>>
    BY DEF StreamInv, CloseStarts, Unread
  <1>2. st' = [st EXCEPT ![x] = t] /\ closer' = [closer EXCEPT ![x] = "waiting"]
    BY DEF CloseStarts, StreamInv
  <1>3. st' = [st EXCEPT ![x] = st'[x]] /\ st'[x] = t
    BY <1>2, StreamEdited
  <1>4. closer' = [closer EXCEPT ![x] = closer'[x]] /\ closer'[x] = "waiting"
    BY <1>2, CloserEdited
  <1>5. /\ IsStream(t) /\ t.closing = TRUE /\ t.lock = s.lock /\ t.tracked = s.tracked
        /\ t.closed = s.closed /\ t.completed = s.completed /\ t.terminal = s.terminal
        /\ t.accepted = s.accepted
    BY <1>1, ClosingEdited DEF StreamFits, StreamTypes
  <1> HIDE DEF t
  <1>6. StreamFits(t, r, "waiting")
    BY <1>1, <1>5 DEF StreamFits, StreamTypes, InUse, Noted, Read, Unread, Asking
  <1>7. reader' = [reader EXCEPT ![x] = reader'[x]] /\ reader'[x] = r
    BY <1>1, LeftAlone
  <1>8. UNCHANGED registryVars /\ SessionsKept(x) /\ holds' = holds
    BY <1>1, SessionsLeftAlone DEF registryVars
  <1> QED BY <1>3, <1>4, <1>5, <1>6, <1>7, <1>8, OneStream

LEMMA CloseGoesOnKeeps ==
    ASSUME StreamInv, NEW x \in Streams, CloseGoesOn(x) \/ CloseGivesUp(x)
    PROVE  StreamInv'
  <1> DEFINE s == st[x]
             r == reader[x]
             t == [s EXCEPT !.lock = "closer"]
  <1>1. /\ StreamFits(s, r, closer[x]) /\ closer[x] = "waiting"
        /\ UNCHANGED <<home, parsers, sessions, holds, reader, registrar>>
    BY DEF StreamInv, CloseGoesOn, CloseGivesUp
  <1>2. reader' = [reader EXCEPT ![x] = reader'[x]] /\ reader'[x] = r
    BY <1>1, LeftAlone
  <1>3. UNCHANGED registryVars /\ SessionsKept(x) /\ holds' = holds
    BY <1>1, SessionsLeftAlone DEF registryVars
  <1>4. CASE \E d \in {"idle", "done"} : closer' = [closer EXCEPT ![x] = d] /\ st' = st
    <2>1. PICK d \in {"idle", "done"} : closer' = [closer EXCEPT ![x] = d] /\ st' = st
      BY <1>4
    <2>2. closer' = [closer EXCEPT ![x] = closer'[x]] /\ closer'[x] = d
      BY <2>1, CloserEdited
    <2>3. st' = [st EXCEPT ![x] = st'[x]] /\ st'[x] = s
      BY <2>1, LeftAlone
    <2>4. StreamFits(s, r, d)
      BY <1>1 DEF StreamFits, StreamTypes, InUse, Noted, Read, Unread, Asking
    <2> QED BY <1>2, <1>3, <2>2, <2>3, <2>4, OneStream
  <1>5. CASE /\ closer' = [closer EXCEPT ![x] = "cleaning"] /\ st' = [st EXCEPT ![x] = t]
             /\ s.lock = Missing /\ ~s.closed
    <2>1. closer' = [closer EXCEPT ![x] = closer'[x]] /\ closer'[x] = "cleaning"
      BY <1>5, CloserEdited
    <2>2. st' = [st EXCEPT ![x] = st'[x]] /\ st'[x] = t
      BY <1>5, StreamEdited
    <2>3. /\ IsStream(t) /\ t.lock = "closer" /\ t.tracked = s.tracked /\ t.closing = s.closing
          /\ t.closed = s.closed /\ t.completed = s.completed /\ t.terminal = s.terminal
          /\ t.accepted = s.accepted
      BY <1>1, LockEdited DEF StreamFits, StreamTypes
    <2> HIDE DEF t
    <2>4. StreamFits(t, r, "cleaning")
      BY <1>1, <1>5, <2>3, StreamAssumption DEF StreamFits, StreamTypes, InUse, Noted, Read, Unread, Asking
    <2> QED BY <1>2, <1>3, <2>1, <2>2, <2>3, <2>4, OneStream
  <1>6. \/ \E d \in {"idle", "done"} : closer' = [closer EXCEPT ![x] = d] /\ st' = st
        \/ /\ closer' = [closer EXCEPT ![x] = "cleaning"] /\ st' = [st EXCEPT ![x] = t]
           /\ s.lock = Missing /\ ~s.closed
    BY DEF CloseGoesOn, CloseGivesUp, StreamInv
  <1> QED BY <1>4, <1>5, <1>6

LEMMA CloserCleanedKeeps ==
    ASSUME StreamInv, NEW x \in Streams, NEW how \in CloseOutcomes, CloserCleaned(x, how)
    PROVE  StreamInv'
  <1> DEFINE s == st[x]
             r == reader[x]
             t == Closed(s, how)
             d == IF how = "ok" THEN "done" ELSE "idle"
  <1>1. /\ StreamFits(s, r, closer[x]) /\ closer[x] = "cleaning"
        /\ UNCHANGED <<home, parsers, sessions, reader, registrar>> /\ holds' = HoldsAfter(st')
    BY DEF StreamInv, CloserCleaned
  <1>2. st' = [st EXCEPT ![x] = t] /\ closer' = [closer EXCEPT ![x] = d]
    BY DEF CloserCleaned
  <1>3. st' = [st EXCEPT ![x] = st'[x]] /\ st'[x] = t
    BY <1>2, StreamEdited
  <1>4. closer' = [closer EXCEPT ![x] = closer'[x]] /\ closer'[x] = d
    BY <1>2, CloserEdited
  <1>5. /\ IsStream(t) /\ t.closed = (how = "ok") /\ t.lock = Missing /\ t.tracked = FALSE
        /\ t.closing = s.closing /\ t.completed = s.completed /\ t.terminal = s.terminal
        /\ t.accepted = s.accepted
    BY <1>1, ClosedEdited DEF StreamFits, StreamTypes
  <1> HIDE DEF t
  <1>6. StreamFits(t, r, d)
    BY <1>1, <1>5, StreamAssumption DEF StreamFits, StreamTypes, InUse, Noted, Read, Unread, Asking
  <1>7. reader' = [reader EXCEPT ![x] = reader'[x]] /\ reader'[x] = r
    BY <1>1, LeftAlone
  <1>8. UNCHANGED registryVars /\ SessionsKept(x)
    BY <1>1, SessionsLeftAlone DEF registryVars
  <1> QED BY <1>1, <1>3, <1>4, <1>5, <1>6, <1>7, <1>8, OneStream

-----------------------------
(* Sessions. *)

(* The edits of a session. *)
LEMMA PhaseEdited ==
    ASSUME NEW z, IsSession(z), NEW v
    PROVE  LET y == [z EXCEPT !.phase = v]
           IN  /\ IsSession(y) /\ y.phase = v /\ y.frozen = z.frozen /\ y.cleanup = z.cleanup
               /\ y.selecting = z.selecting
  BY DEF IsSession, SessionFields

LEMMA FrozenEdited ==
    ASSUME NEW z, IsSession(z), NEW v
    PROVE  LET y == [z EXCEPT !.frozen = v]
           IN  /\ IsSession(y) /\ y.phase = z.phase /\ y.frozen = v /\ y.cleanup = z.cleanup
               /\ y.selecting = z.selecting
  BY DEF IsSession, SessionFields

LEMMA CleanupSet ==
    ASSUME NEW z, IsSession(z), NEW v
    PROVE  LET y == [z EXCEPT !.cleanup = v]
           IN  /\ IsSession(y) /\ y.phase = z.phase /\ y.frozen = z.frozen /\ y.cleanup = v
               /\ y.selecting = z.selecting
  BY DEF IsSession, SessionFields

LEMMA SelectingSet ==
    ASSUME NEW z, IsSession(z), NEW v
    PROVE  LET y == [z EXCEPT !.selecting = v]
           IN  /\ IsSession(y) /\ y.phase = z.phase /\ y.frozen = z.frozen /\ y.cleanup = z.cleanup
               /\ y.selecting = v
  BY DEF IsSession, SessionFields

LEMMA SessionEdited ==
    ASSUME StreamInv, NEW s \in Sessions, NEW v, sessions' = [sessions EXCEPT ![s] = v]
    PROVE  /\ sessions' = [z \in Sessions |-> sessions'[z]] /\ sessions'[s] = v
           /\ \A z \in Sessions \ {s} : sessions'[z] = sessions[z]
           /\ IsSession(sessions[s])
  BY DEF StreamInv, SessionFits

LEMMA SelectingEdited ==
    ASSUME StreamInv, NEW x \in Streams, NEW s \in Sessions, NEW v,
           sessions' = [sessions EXCEPT ![s].selecting = v]
    PROVE  SessionsKept(x)
  <1> DEFINE y == [sessions[s] EXCEPT !.selecting = v]
  <1>1. sessions' = [sessions EXCEPT ![s] = y]
    BY DEF StreamInv
  <1>2. /\ sessions' = [z \in Sessions |-> sessions'[z]] /\ sessions'[s] = y
        /\ \A z \in Sessions \ {s} : sessions'[z] = sessions[z]
        /\ IsSession(sessions[s])
    BY <1>1, SessionEdited
  <1>3. IsSession(y) /\ y.phase = sessions[s].phase /\ y.frozen = sessions[s].frozen /\ y.cleanup = sessions[s].cleanup
    BY <1>2, SelectingSet
  <1> HIDE DEF y
  <1> QED BY <1>2, <1>3 DEF StreamInv, SessionFits, SessionsKept, SessionKept

LEMMA CleanupEdited ==
    ASSUME StreamInv, NEW x \in Streams, NEW s \in Sessions, ~st'[x].tracked,
           sessions' = [sessions EXCEPT ![s].cleanup = @ \ {x}]
    PROVE  SessionsKept(x)
  <1> DEFINE k == sessions[s].cleanup \ {x}
             y == [sessions[s] EXCEPT !.cleanup = k]
  <1>1. sessions' = [sessions EXCEPT ![s] = y]
    BY DEF StreamInv
  <1>2. /\ sessions' = [z \in Sessions |-> sessions'[z]] /\ sessions'[s] = y
        /\ \A z \in Sessions \ {s} : sessions'[z] = sessions[z]
        /\ IsSession(sessions[s])
    BY <1>1, SessionEdited
  <1>3. IsSession(y) /\ y.phase = sessions[s].phase /\ y.frozen = sessions[s].frozen /\ y.cleanup = k
    BY <1>2, CleanupSet
  <1> HIDE DEF y
  <1> QED BY <1>2, <1>3 DEF StreamInv, SessionFits, SessionsKept, SessionKept

(* Selecting a parser. *)
LEMMA SelectStartsKeeps ==
    ASSUME StreamInv, NEW x \in Streams, SelectStarts(x)
    PROVE  StreamInv'
  <1> DEFINE s == home[x]
             r == reader[x]
  <1>1. /\ StreamFits(st[x], r, closer[x]) /\ s \in Sessions /\ r.pc = "new"
        /\ UNCHANGED <<home, parsers, holds, st, closer, registrar>>
    BY DEF StreamInv, SelectStarts
  <1>2. SessionsKept(x)
    BY <1>1, SelectingEdited, SessionsLeftAlone DEF SelectStarts
  <1>3. PICK q \in {[pc |-> "selecting", why |-> r.why], [pc |-> "ended", why |-> "session_closed"]} :
          reader' = [reader EXCEPT ![x] = reader'[x]] /\ reader'[x] = q
    BY PcEdited, ReaderEdited DEF SelectStarts
  <1>4. /\ st' = [st EXCEPT ![x] = st'[x]] /\ st'[x] = st[x]
        /\ closer' = [closer EXCEPT ![x] = closer'[x]] /\ closer'[x] = closer[x]
    BY <1>1, LeftAlone
  <1>5. StreamFits(st[x], q, closer[x])
    BY <1>1, StreamAssumption DEF StreamFits, StreamTypes, InUse, Noted, Read, Unread, Asking
  <1>6. UNCHANGED registryVars /\ holds' = holds
    BY <1>1 DEF registryVars
  <1> QED BY <1>1, <1>2, <1>3, <1>4, <1>5, <1>6, OneStream DEF Unread

LEMMA SelectEndsKeeps ==
    ASSUME StreamInv, NEW x \in Streams, NEW found \in BOOLEAN, SelectEnds(x, found)
    PROVE  StreamInv'
  <1> DEFINE s == home[x]
             r == reader[x]
             q == IF found /\ sessions[s].phase = "open" THEN [pc |-> "selected", why |-> Missing]
                  ELSE [pc |-> "ended", why |-> IF found THEN "session_closed" ELSE "not_selected"]
  <1>1. /\ StreamFits(st[x], r, closer[x]) /\ s \in Sessions /\ r.pc = "selecting"
        /\ UNCHANGED <<home, parsers, holds, st, closer, registrar>>
    BY DEF StreamInv, SelectEnds
  <1>2. SessionsKept(x)
    BY <1>1, SelectingEdited DEF SelectEnds
  <1>3. reader' = [reader EXCEPT ![x] = q]
    BY DEF SelectEnds
  <1>4. reader' = [reader EXCEPT ![x] = reader'[x]] /\ reader'[x] = q
    BY <1>3, ReaderEdited
  <1>5. /\ st' = [st EXCEPT ![x] = st'[x]] /\ st'[x] = st[x]
        /\ closer' = [closer EXCEPT ![x] = closer'[x]] /\ closer'[x] = closer[x]
    BY <1>1, LeftAlone
  <1>6. StreamFits(st[x], q, closer[x])
    BY <1>1, StreamAssumption DEF StreamFits, StreamTypes, InUse, Noted, Read, Unread, Asking
  <1>7. UNCHANGED registryVars /\ holds' = holds
    BY <1>1 DEF registryVars
  <1> QED BY <1>1, <1>2, <1>4, <1>5, <1>6, <1>7, OneStream DEF Unread

(* A stream is tracked when its session is open. *)
LEMMA ParseKeeps ==
    ASSUME StreamInv, NEW x \in Streams, NEW works \in BOOLEAN, Parse(x, works)
    PROVE  StreamInv'
  <1> DEFINE s == st[x]
             r == reader[x]
             c == closer[x]
             open == sessions[home[x]].phase = "open"
             t == [s EXCEPT !.tracked = TRUE]
  <1>1. /\ StreamFits(s, r, c) /\ r.pc = "selected"
        /\ UNCHANGED <<home, parsers, sessions, holds, closer, registrar>>
    BY DEF StreamInv, Parse
  <1>2. closer' = [closer EXCEPT ![x] = closer'[x]] /\ closer'[x] = c
    BY <1>1, LeftAlone
  <1>3. UNCHANGED registryVars /\ SessionsKept(x) /\ holds' = holds
    BY <1>1, SessionsLeftAlone DEF registryVars
  <1>4. CASE open /\ works
    <2>1. st' = [st EXCEPT ![x] = t] /\ reader' = [reader EXCEPT ![x].pc = "idle"]
      BY <1>4 DEF Parse, StreamInv
    <2>2. st' = [st EXCEPT ![x] = st'[x]] /\ st'[x] = t
      BY <2>1, StreamEdited
    <2>3. reader' = [reader EXCEPT ![x] = reader'[x]] /\ reader'[x] = [pc |-> "idle", why |-> r.why]
      BY <2>1, PcEdited
    <2>4. /\ IsStream(t) /\ t.tracked = TRUE /\ t.lock = s.lock /\ t.closing = s.closing
          /\ t.closed = s.closed /\ t.completed = s.completed /\ t.terminal = s.terminal
          /\ t.accepted = s.accepted
      BY <1>1, TrackedEdited DEF StreamFits, StreamTypes
    <2> HIDE DEF t
    <2>5. StreamFits(t, [pc |-> "idle", why |-> r.why], c)
      BY <1>1, <2>4, StreamAssumption DEF StreamFits, StreamTypes, InUse, Noted, Read, Unread, Asking
    <2> QED BY <1>1, <1>2, <1>3, <1>4, <2>2, <2>3, <2>4, <2>5, OneStream DEF Unread
  <1>5. CASE ~(open /\ works)
    <2> DEFINE q == [pc |-> "ended", why |-> IF open THEN "parse_call" ELSE "session_closed"]
    <2>1. st' = st /\ reader' = [reader EXCEPT ![x] = q]
      BY <1>5 DEF Parse
    <2>2. st' = [st EXCEPT ![x] = st'[x]] /\ st'[x] = s
      BY <2>1, LeftAlone
    <2>3. reader' = [reader EXCEPT ![x] = reader'[x]] /\ reader'[x] = q
      BY <2>1, ReaderEdited
    <2>4. StreamFits(s, q, c)
      BY <1>1 DEF StreamFits, StreamTypes, InUse, Noted, Read, Unread, Asking
    <2> QED BY <1>2, <1>3, <2>2, <2>3, <2>4, OneStream DEF Unread
  <1> QED BY <1>4, <1>5

(* The session closes what it tracks, one stream after the other. *)
LEMMA CleanupClosesKeeps ==
    ASSUME StreamInv, NEW s \in Sessions, NEW x \in Streams, CleanupCloses(s, x)
    PROVE  StreamInv'
  <1> DEFINE r == reader[x]
             c == closer[x]
             u == [st[x] EXCEPT !.lock = "session"]
             t == [u EXCEPT !.closing = TRUE]
  <1>1. /\ StreamFits(st[x], r, c) /\ SessionFits(s) /\ x \in sessions[s].cleanup
        /\ UNCHANGED <<home, parsers, holds, reader, closer, registrar>>
    BY DEF StreamInv, CleanupCloses
  <1>2. r.pc \notin Unread
    BY <1>1 DEF SessionFits
  <1>3. /\ reader' = [reader EXCEPT ![x] = reader'[x]] /\ reader'[x] = r
        /\ closer' = [closer EXCEPT ![x] = closer'[x]] /\ closer'[x] = c
    BY <1>1, LeftAlone
  <1>4. UNCHANGED registryVars /\ holds' = holds
    BY <1>1 DEF registryVars
  <1>5. CASE st[x].closed
    <2>1. sessions' = [sessions EXCEPT ![s].cleanup = @ \ {x}] /\ st' = st
      BY <1>5 DEF CleanupCloses
    <2>2. st' = [st EXCEPT ![x] = st'[x]] /\ st'[x] = st[x]
      BY <2>1, LeftAlone
    <2>3. ~st'[x].tracked
      BY <1>1, <1>5, <2>2 DEF StreamFits, Noted
    <2>4. SessionsKept(x)
      BY <2>1, <2>3, CleanupEdited
    <2> QED BY <1>1, <1>3, <1>4, <2>2, <2>4, OneStream
  <1>6. CASE ~st[x].closed
    <2>1. /\ st[x].lock = Missing /\ sessions' = sessions
          /\ st' = [st EXCEPT ![x].lock = "session", ![x].closing = TRUE]
      BY <1>6 DEF CleanupCloses
    <2>a. st' = [st EXCEPT ![x] = t]
      BY <2>1, <1>1 DEF StreamInv
    <2>2. st' = [st EXCEPT ![x] = st'[x]] /\ st'[x] = t
      BY <2>a, StreamEdited
    <2>3. /\ IsStream(u) /\ u.lock = "session" /\ u.tracked = st[x].tracked /\ u.closing = st[x].closing
          /\ u.closed = st[x].closed /\ u.completed = st[x].completed /\ u.terminal = st[x].terminal
          /\ u.accepted = st[x].accepted
      BY <1>1, LockEdited DEF StreamFits, StreamTypes
    <2> HIDE DEF u
    <2>4. /\ IsStream(t) /\ t.closing = TRUE /\ t.lock = "session" /\ t.tracked = st[x].tracked
          /\ t.closed = st[x].closed /\ t.completed = st[x].completed /\ t.terminal = st[x].terminal
          /\ t.accepted = st[x].accepted
      BY <2>3, ClosingEdited
    <2> HIDE DEF t
    <2>5. StreamFits(t, r, c)
      BY <1>1, <1>2, <1>6, <2>1, <2>4, StreamAssumption
         DEF StreamFits, StreamTypes, InUse, Noted, Read, Unread, Asking
    <2>6. SessionsKept(x)
      BY <2>1, SessionsLeftAlone
    <2> QED BY <1>1, <1>3, <1>4, <2>2, <2>4, <2>5, <2>6, OneStream
  <1> QED BY <1>5, <1>6

LEMMA CleanupClosedKeeps ==
    ASSUME StreamInv, NEW s \in Sessions, NEW x \in Streams, NEW how \in CloseOutcomes,
           CleanupClosed(s, x, how)
    PROVE  StreamInv'
  <1> DEFINE r == reader[x]
             c == closer[x]
             t == Closed(st[x], how)
  <1>1. /\ StreamFits(st[x], r, c) /\ st[x].lock = "session"
        /\ UNCHANGED <<home, parsers, reader, closer, registrar>> /\ holds' = HoldsAfter(st')
    BY DEF StreamInv, CleanupClosed
  <1>2. st' = [st EXCEPT ![x] = t] /\ sessions' = [sessions EXCEPT ![s].cleanup = @ \ {x}]
    BY DEF CleanupClosed
  <1>3. st' = [st EXCEPT ![x] = st'[x]] /\ st'[x] = t
    BY <1>2, StreamEdited
  <1>4. /\ reader' = [reader EXCEPT ![x] = reader'[x]] /\ reader'[x] = r
        /\ closer' = [closer EXCEPT ![x] = closer'[x]] /\ closer'[x] = c
    BY <1>1, LeftAlone
  <1>5. /\ IsStream(t) /\ t.closed = (how = "ok") /\ t.lock = Missing /\ t.tracked = FALSE
        /\ t.closing = st[x].closing /\ t.completed = st[x].completed /\ t.terminal = st[x].terminal
        /\ t.accepted = st[x].accepted
    BY <1>1, ClosedEdited DEF StreamFits, StreamTypes
  <1> HIDE DEF t
  <1>6. StreamFits(t, r, c)
    BY <1>1, <1>5, StreamAssumption DEF StreamFits, StreamTypes, InUse, Noted, Read, Unread, Asking
  <1>7. SessionsKept(x)
    BY <1>2, <1>3, <1>5, CleanupEdited
  <1>8. UNCHANGED registryVars
    BY <1>1 DEF registryVars
  <1> QED BY <1>1, <1>3, <1>4, <1>5, <1>6, <1>7, <1>8, OneStream

(* What a step of the session itself has to keep. *)
LEMMA OneSession ==
    ASSUME StreamInv, NEW s \in Sessions, NEW y, IsSession(y),
           UNCHANGED <<home, parsers, reader, closer, registrar>>,
           sessions' = [sessions EXCEPT ![s] = y],
           holds' \subseteq Sessions,
           \A z \in Sessions \ {s} : (z \in holds' <=> z \in holds) \/ (sessions[z].phase \in Closing /\ z \notin holds'),
           st' = st \/ (st' = [x \in Streams |-> ClosingNow(s, x)] /\ y.phase # "open"),
           y.phase \in {"new", "open"} \cup Closing,
           y.phase = "open" => s \in holds' /\ y.frozen = {q \in parsers : ~q.plugin},
           y.phase = "left" => s \notin holds',
           \A x \in Streams : home[x] = s /\ y.phase # "open" /\ st'[x].tracked => st'[x].closing,
           y.phase = "cleaning" => TrackedBy(s, st') \subseteq y.cleanup,
           \A x \in Streams \cap y.cleanup : reader[x].pc \notin Unread
    PROVE  StreamInv'
  <1>1. ASSUME NEW x \in Streams
        PROVE  /\ StreamFits(st'[x], reader[x], closer[x])
               /\ st'[x].tracked = st[x].tracked /\ (st[x].closing => st'[x].closing)
               /\ st'[x].accepted = st[x].accepted
    <2>1. StreamFits(st[x], reader[x], closer[x])
      BY DEF StreamInv
    <2>2. CASE st'[x] = st[x]
      BY <2>1, <2>2
    <2>3. CASE st'[x] # st[x]
      <3> DEFINE t == [st[x] EXCEPT !.closing = TRUE]
      <3>1. st'[x] = t /\ st[x].tracked
        BY <2>3 DEF ClosingNow
      <3>2. /\ IsStream(t) /\ t.closing = TRUE /\ t.lock = st[x].lock /\ t.tracked = st[x].tracked
            /\ t.closed = st[x].closed /\ t.completed = st[x].completed /\ t.terminal = st[x].terminal
            /\ t.accepted = st[x].accepted
        BY <2>1, ClosingEdited DEF StreamFits, StreamTypes
      <3> HIDE DEF t
      <3>3. StreamFits(t, reader[x], closer[x])
        BY <2>1, <3>2 DEF StreamFits, StreamTypes, InUse, Noted, Read, Unread, Asking
      <3> QED BY <3>1, <3>2, <3>3
    <2> QED BY <2>2, <2>3
  <1>2. DOMAIN st' = Streams /\ st' = [x \in Streams |-> st'[x]]
    BY DEF StreamInv
  <1>3. /\ DOMAIN sessions' = Sessions /\ sessions' = [z \in Sessions |-> sessions'[z]]
        /\ sessions'[s] = y /\ \A z \in Sessions \ {s} : sessions'[z] = sessions[z]
    BY DEF StreamInv
  <1>4. (TrackedBy(s, st))' = TrackedBy(s, st')
    BY DEF TrackedBy
  <1>5. SessionFits(s)'
    BY <1>3, <1>4 DEF SessionFits, Closing
  <1>6. ASSUME NEW z \in Sessions \ {s} PROVE SessionFits(z)'
    <2>1. SessionFits(z) /\ sessions'[z] = sessions[z]
      BY <1>3 DEF StreamInv
    <2>2. \A x \in Streams : st'[x].tracked => st[x].tracked
      BY <1>1
    <2>3. (TrackedBy(z, st))' \subseteq TrackedBy(z, st)
      BY <2>2 DEF TrackedBy
    <2>4. \A x \in Streams : home[x] = z /\ sessions[z].phase # "open" /\ st'[x].tracked => st'[x].closing
      BY <1>1, <2>1 DEF SessionFits
    <2>5. /\ sessions[z].phase = "open" => z \in holds'
          /\ sessions[z].phase = "left" => z \notin holds'
      BY <2>1 DEF SessionFits, Closing
    <2> QED BY <2>1, <2>3, <2>4, <2>5 DEF SessionFits, Closing
  <1>7. \A z \in Sessions : SessionFits(z)'
    BY <1>5, <1>6
  <1>8. RegistryIsFrozen'
    BY <1>3 DEF StreamInv, RegistryIsFrozen
  <1>9. \A x \in Streams : StreamFits(st[x], reader[x], closer[x])'
    BY <1>1
  <1> QED BY <1>2, <1>3, <1>7, <1>8, <1>9 DEF StreamInv

LEMMA EnterKeeps ==
    ASSUME StreamInv, NEW s \in Sessions, EnterSession(s)
    PROVE  StreamInv'
  <1> DEFINE f == {q \in parsers : ~q.plugin}
             u == [sessions[s] EXCEPT !.phase = "open"]
             y == [u EXCEPT !.frozen = f]
  <1>1. /\ UNCHANGED <<home, parsers, reader, closer, registrar>> /\ st' = st /\ holds' = holds \cup {s}
        /\ SessionFits(s) /\ holds' \subseteq Sessions
    BY DEF EnterSession, StreamInv
  <1>2. sessions' = [sessions EXCEPT ![s] = y]
    BY DEF EnterSession, StreamInv
  <1>3. IsSession(u) /\ u.phase = "open" /\ u.cleanup = sessions[s].cleanup
    BY <1>1, PhaseEdited DEF SessionFits
  <1> HIDE DEF u
  <1>4. IsSession(y) /\ y.phase = "open" /\ y.cleanup = sessions[s].cleanup /\ y.frozen = f
    BY <1>3, FrozenEdited
  <1> HIDE DEF y
  <1>5. \A x \in Streams \cap y.cleanup : reader[x].pc \notin Unread
    BY <1>1, <1>4 DEF SessionFits
  <1>6. \A z \in Sessions \ {s} : (z \in holds' <=> z \in holds) \/ (sessions[z].phase \in Closing /\ z \notin holds')
    BY <1>1
  <1>7. s \in holds' /\ y.frozen = {q \in parsers : ~q.plugin}
    BY <1>1, <1>4 DEF f
  <1>8. y.phase \in {"new", "open"} \cup Closing /\ y.phase # "left" /\ y.phase # "cleaning"
    BY <1>4
  <1> QED BY <1>1, <1>2, <1>4, <1>5, <1>6, <1>7, <1>8, OneSession

LEMMA ExitStartsKeeps ==
    ASSUME StreamInv, NEW s \in Sessions, ExitStarts(s)
    PROVE  StreamInv'
  <1> DEFINE u == [sessions[s] EXCEPT !.phase = "leaving"]
             y == [u EXCEPT !.frozen = {}]
  <1>1. /\ UNCHANGED <<home, parsers, reader, closer, registrar>> /\ holds' = holds
        /\ st' = [x \in Streams |-> ClosingNow(s, x)]
        /\ SessionFits(s) /\ holds \subseteq Sessions
    BY DEF ExitStarts, StreamInv
  <1>2. sessions' = [sessions EXCEPT ![s] = y]
    BY DEF ExitStarts, StreamInv
  <1>3. IsSession(u) /\ u.phase = "leaving" /\ u.cleanup = sessions[s].cleanup
    BY <1>1, PhaseEdited DEF SessionFits
  <1> HIDE DEF u
  <1>4. IsSession(y) /\ y.phase = "leaving" /\ y.cleanup = sessions[s].cleanup
    BY <1>3, FrozenEdited
  <1> HIDE DEF y
  <1>5. \A x \in Streams \cap y.cleanup : reader[x].pc \notin Unread
    BY <1>1, <1>4 DEF SessionFits
  <1>6. \A x \in Streams : home[x] = s /\ st'[x].tracked => st'[x].closing
    <2> SUFFICES ASSUME NEW x \in Streams, home[x] = s, st'[x].tracked PROVE st'[x].closing
      OBVIOUS
    <2>1. StreamFits(st[x], reader[x], closer[x]) BY DEF StreamInv
    <2>2. [st[x] EXCEPT !.closing = TRUE].closing
      BY <2>1, ClosingEdited DEF StreamFits, StreamTypes
    <2> QED BY <1>1, <2>2 DEF ClosingNow
  <1>7. \A z \in Sessions \ {s} : (z \in holds' <=> z \in holds) \/ (sessions[z].phase \in Closing /\ z \notin holds')
    BY <1>1
  <1>8. /\ y.phase \in {"new", "open"} \cup Closing
        /\ y.phase # "left" /\ y.phase # "cleaning" /\ y.phase # "open"
    BY <1>4 DEF Closing
  <1> QED BY <1>1, <1>2, <1>4, <1>5, <1>6, <1>7, <1>8, OneSession

LEMMA CleanupListsKeeps ==
    ASSUME StreamInv, NEW s \in Sessions, CleanupLists(s)
    PROVE  StreamInv'
  <1> DEFINE k == TrackedBy(s, st)
             u == [sessions[s] EXCEPT !.phase = "cleaning"]
             w == [u EXCEPT !.selecting = "cleanup"]
             y == [w EXCEPT !.cleanup = k]
  <1>1. /\ UNCHANGED <<home, parsers, reader, closer, registrar>> /\ holds' = holds /\ st' = st
        /\ SessionFits(s) /\ holds \subseteq Sessions /\ sessions[s].phase = "leaving"
    BY DEF CleanupLists, StreamInv
  <1>2. sessions' = [sessions EXCEPT ![s] = y]
    BY DEF CleanupLists, StreamInv
  <1>3. IsSession(u) /\ u.phase = "cleaning"
    BY <1>1, PhaseEdited DEF SessionFits
  <1> HIDE DEF u
  <1>4. IsSession(w) /\ w.phase = "cleaning"
    BY <1>3, SelectingSet
  <1> HIDE DEF w
  <1>5. IsSession(y) /\ y.phase = "cleaning" /\ y.cleanup = k
    BY <1>4, CleanupSet
  <1> HIDE DEF y
  <1>6. \A x \in Streams \cap y.cleanup : reader[x].pc \notin Unread
    BY <1>5 DEF StreamInv, StreamFits, Noted, TrackedBy
  <1>7. \A x \in Streams : home[x] = s /\ st'[x].tracked => st'[x].closing
    BY <1>1 DEF SessionFits
  <1>8. TrackedBy(s, st') \subseteq y.cleanup
    BY <1>1, <1>5 DEF TrackedBy
  <1>9. \A z \in Sessions \ {s} : (z \in holds' <=> z \in holds) \/ (sessions[z].phase \in Closing /\ z \notin holds')
    BY <1>1
  <1>10. y.phase \in {"new", "open"} \cup Closing /\ y.phase # "left" /\ y.phase # "open"
    BY <1>5 DEF Closing
  <1> QED BY <1>1, <1>2, <1>5, <1>6, <1>7, <1>8, <1>9, <1>10, OneSession

(* The last step of a session: nothing of it is tracked any more. *)
LEMMA ExitEndsKeeps ==
    ASSUME StreamInv, NEW s \in Sessions, ExitEnds(s)
    PROVE  StreamInv'
  <1> DEFINE u == [sessions[s] EXCEPT !.phase = "left"]
             y == [u EXCEPT !.selecting = Missing]
  <1>1. /\ UNCHANGED <<home, parsers, reader, closer, registrar>> /\ holds' = HoldsAfter(st) /\ st' = st
        /\ SessionFits(s) /\ holds \subseteq Sessions /\ sessions[s].phase = "cleaning"
        /\ sessions[s].cleanup = {}
    BY DEF ExitEnds, StreamInv
  <1>a. sessions' = [sessions EXCEPT ![s].phase = "left", ![s].selecting = Missing]
    BY DEF ExitEnds
  <1>2. sessions' = [sessions EXCEPT ![s] = y]
    BY <1>a DEF StreamInv
  <1>3. IsSession(u) /\ u.phase = "left" /\ u.cleanup = {}
    BY <1>1, PhaseEdited DEF SessionFits
  <1> HIDE DEF u
  <1>4. IsSession(y) /\ y.phase = "left" /\ y.cleanup = {}
    BY <1>3, SelectingSet
  <1> HIDE DEF y
  <1>5. TrackedBy(s, st) = {}
    BY <1>1 DEF SessionFits
  <1>6. s \notin holds'
    BY <1>1, <1>5 DEF HoldsAfter, Closing
  <1>7. \A z \in Sessions \ {s} :
          (z \in holds' <=> z \in holds) \/ (sessions[z].phase \in Closing /\ z \notin holds')
    BY <1>1 DEF HoldsAfter
  <1>8. holds' \subseteq Sessions
    BY <1>1 DEF HoldsAfter
  <1>9. \A x \in Streams : home[x] = s /\ st'[x].tracked => st'[x].closing
    BY <1>1 DEF SessionFits
  <1>10. y.phase \in {"new", "open"} \cup Closing /\ y.phase # "cleaning" /\ y.phase # "open"
    BY <1>4 DEF Closing
  <1>11. \A x \in Streams \cap y.cleanup : reader[x].pc \notin Unread
    BY <1>4
  <1> QED BY <1>1, <1>2, <1>4, <1>6, <1>7, <1>8, <1>9, <1>10, <1>11, OneSession

-----------------------------
(* Registrations. *)

(* What is left of an offer clashes neither with what is there nor among    *)
(* itself.                                                                  *)
Distinct(ps) ==
    \A p, q \in ps : p # q => p.id # q.id /\ ((p.plugin \/ q.plugin) => p.target # q.target)

LEMMA TakenInDistinct ==
    ASSUME Distinct(parsers), NEW offer,
           NEW new, new = offer \ {p \in offer : Clashes(p) \/ Doubled(p, offer)}
    PROVE  Distinct(parsers \cup new)
  <1>1. \A p \in new : p \in offer /\ ~Clashes(p) /\ ~Doubled(p, offer)
    OBVIOUS
  <1>2. ASSUME NEW p \in new, NEW q \in parsers
        PROVE  p.id # q.id /\ ((p.plugin \/ q.plugin) => p.target # q.target)
    BY <1>1 DEF Clashes, IdsOf
  <1>3. ASSUME NEW p \in new, NEW q \in new, p # q
        PROVE  p.id # q.id /\ ((p.plugin \/ q.plugin) => p.target # q.target)
    <2>1. p \in offer \ {q} /\ q \in offer \ {p}
      BY <1>1, <1>3
    <2>2. ~Doubled(p, offer) /\ ~Doubled(q, offer)
      BY <1>1
    <2> QED BY <2>1, <2>2 DEF Doubled
  <1> QED BY <1>2, <1>3 DEF Distinct

LEMMA NoSessionOpen ==
    ASSUME StreamInv, MayCommit
    PROVE  \A s \in Sessions : sessions[s].phase # "open"
  BY DEF StreamInv, SessionFits, MayCommit

(* What a registration may change. *)
LEMMA RegistrarKeeps ==
    ASSUME StreamInv, UNCHANGED <<home, sessions, holds, st, reader, closer>>, RegistryIsFrozen'
    PROVE  StreamInv'
  <1>1. ASSUME NEW s \in Sessions PROVE SessionFits(s)'
    BY DEF StreamInv, SessionFits, TrackedBy, Closing
  <1>2. \A x \in Streams : StreamFits(st[x], reader[x], closer[x])'
    BY DEF StreamInv
  <1> QED BY <1>1, <1>2 DEF StreamInv

LEMMA RegistrarCommitsKeeps ==
    ASSUME StreamInv, NEW r \in Registrars, RegistrarCommits(r)
    PROVE  StreamInv'
  <1> DEFINE offer == registrar[r].offer
             twice == {p \in offer : Clashes(p) \/ Doubled(p, offer)}
             new   == offer \ twice
  <1>1. UNCHANGED <<home, sessions, holds, st, reader, closer>>
    BY DEF RegistrarCommits
  <1>2. parsers' = parsers \/ (MayCommit /\ parsers' = parsers \cup new)
    BY DEF RegistrarCommits
  <1>3. Distinct(parsers)
    BY DEF StreamInv, RegistryIsFrozen, Distinct
  <1>4. Distinct(parsers')
    BY <1>2, <1>3, TakenInDistinct
  <1>5. \A s \in Sessions : sessions[s].phase = "open" => sessions[s].frozen = {p \in parsers' : ~p.plugin}
    BY <1>2, NoSessionOpen DEF StreamInv, RegistryIsFrozen
  <1>6. RegistryIsFrozen'
    BY <1>1, <1>4, <1>5 DEF RegistryIsFrozen, Distinct
  <1> QED BY <1>1, <1>6, RegistrarKeeps

LEMMA RegistrarLooksKeeps ==
    ASSUME StreamInv, NEW r \in Registrars, NEW offer, RegistrarLooks(r, offer)
    PROVE  StreamInv'
  <1>1. UNCHANGED <<home, parsers, sessions, holds, st, reader, closer>>
    BY DEF RegistrarLooks
  <1>2. RegistryIsFrozen'
    BY <1>1 DEF StreamInv, RegistryIsFrozen
  <1> QED BY <1>1, <1>2, RegistrarKeeps

-----------------------------
(* All of it. *)

LEMMA StreamInitInv == StreamInit => StreamInv
  <1> SUFFICES ASSUME StreamInit PROVE StreamInv
    OBVIOUS
  <1>1. /\ IsStream(NewStream) /\ Listed(NewStream.accepted)
        /\ NewStream.tracked = FALSE /\ NewStream.closing = FALSE /\ NewStream.closed = FALSE
        /\ NewStream.completed = FALSE /\ NewStream.lock = Missing
    <2>1. NewStream.accepted = <<>>
      BY DEF NewStream
    <2>2. Listed(NewStream.accepted)
      BY <2>1 DEF Listed
    <2>3. DOMAIN NewStream = StreamFields
      BY DEF NewStream, StreamFields
    <2>4. NewStream = [f \in DOMAIN NewStream |-> NewStream[f]]
      BY DEF NewStream
    <2>5. IsStream(NewStream)
      <3> HIDE DEF NewStream
      <3> QED BY <2>3, <2>4 DEF IsStream
    <2> QED BY <2>2, <2>5 DEF NewStream
  <1>2. StreamFits(NewStream, [pc |-> "new", why |-> Missing], "idle")
    <2> HIDE DEF NewStream
    <2> QED BY <1>1, StreamAssumption DEF StreamFits, StreamTypes, InUse, Noted, Read, Unread, Asking
  <1>3. \A x \in Streams : StreamFits(st[x], reader[x], closer[x])
    BY <1>2 DEF StreamInit
  <1>4. ASSUME NEW s \in Sessions PROVE SessionFits(s)
    <2>1. sessions[s] = [phase |-> "new", frozen |-> {}, cleanup |-> {}, selecting |-> Missing]
      BY DEF StreamInit
    <2>2. IsSession(sessions[s])
      BY <2>1 DEF IsSession, SessionFields
    <2>3. \A x \in Streams : ~st[x].tracked
      BY <1>1 DEF StreamInit
    <2> QED BY <2>1, <2>2, <2>3 DEF SessionFits
  <1>5. RegistryIsFrozen
    BY DEF StreamInit, RegistryIsFrozen, Doubled
  <1>6. home \in [Streams -> Sessions]
    BY StreamAssumption DEF StreamInit
  <1> QED BY <1>3, <1>4, <1>5, <1>6 DEF StreamInit, StreamInv

LEMMA StreamStepKeeps ==
    ASSUME StreamInv, NEW x \in Streams, StreamStep(x)
    PROVE  StreamInv'
  <1>1. CASE SelectStarts(x) BY <1>1, SelectStartsKeeps
  <1>2. CASE \E yes \in BOOLEAN : SelectEnds(x, yes) \/ Parse(x, yes)
    BY <1>2, SelectEndsKeeps, ParseKeeps
  <1>3. CASE NextStarts(x) \/ NextGoesOn(x) BY <1>3, NextKeeps
  <1>4. CASE ReadEnds(x) BY <1>4, ReadEndsKeeps
  <1>5. CASE \E b \in Emits(st[x].accepted) : ReadBatch(x, b) BY <1>5, ReadBatchKeeps
  <1>6. CASE \E failure \in Failures : ReadFails(x, failure) BY <1>6, ReadFailsKeeps
  <1>7. CASE CloseStarts(x) BY <1>7, CloseStartsKeeps
  <1>8. CASE CloseGoesOn(x) \/ CloseGivesUp(x) BY <1>8, CloseGoesOnKeeps
  <1>9. CASE \E how \in CloseOutcomes : ReaderCleaned(x, how) \/ CloserCleaned(x, how)
    BY <1>9, ReaderCleanedKeeps, CloserCleanedKeeps
  <1> QED BY <1>1, <1>2, <1>3, <1>4, <1>5, <1>6, <1>7, <1>8, <1>9 DEF StreamStep

LEMMA SessionStepKeeps ==
    ASSUME StreamInv, NEW s \in Sessions, SessionStep(s)
    PROVE  StreamInv'
  BY EnterKeeps, ExitStartsKeeps, CleanupListsKeeps, ExitEndsKeeps, CleanupClosesKeeps,
     CleanupClosedKeeps DEF SessionStep

LEMMA StreamNextKeeps ==
    ASSUME StreamInv, [StreamNext]_streamVars
    PROVE  StreamInv'
  <1>1. CASE \E s \in Sessions : SessionStep(s) BY <1>1, SessionStepKeeps
  <1>2. CASE \E x \in Streams : StreamStep(x) BY <1>2, StreamStepKeeps
  <1>3. CASE \E r \in Registrars : (\E offer \in Offers : RegistrarLooks(r, offer)) \/ RegistrarCommits(r)
    BY <1>3, RegistrarLooksKeeps, RegistrarCommitsKeeps
  <1>4. CASE UNCHANGED streamVars
    <2>1. UNCHANGED <<home, sessions, holds, st, reader, closer>> /\ parsers' = parsers
      BY <1>4 DEF streamVars
    <2>2. RegistryIsFrozen'
      BY <2>1 DEF StreamInv, RegistryIsFrozen
    <2> QED BY <2>1, <2>2, RegistrarKeeps
  <1> QED BY <1>1, <1>2, <1>3, <1>4 DEF StreamNext

(* In every state of every interleaving the locks, the marks and the lease  *)
(* of the sessions and their streams fit together (ParserRegistrySession,   *)
(* ValidatedParserStream).                                                  *)
THEOREM StreamInvariant == StreamSpec => []StreamInv
  <1>1. StreamInv /\ [StreamNext]_streamVars => StreamInv'
    BY StreamNextKeeps
  <1> QED BY <1>1, StreamInitInv, PTL DEF StreamSpec

(* The parsers of an open session are those that are registered, no two of  *)
(* them clash, and a session that is left has given its lease back - for    *)
(* any number of sessions, streams and registrations.                       *)
THEOREM LeaseIsHeld == StreamSpec => []LeasesHold
  <1>1. StreamInv => LeasesHold
    BY DEF StreamInv, SessionFits, LeasesHold, LeaseComesBack
  <1> QED BY <1>1, StreamInvariant, PTL

(* A stream that says completed was read up to its last batch and is closed. *)
CompletedIsClosed == \A x \in Streams : st[x].completed => st[x].terminal /\ st[x].closed

THEOREM CompletedWasRead == StreamSpec => []CompletedIsClosed
  <1>1. StreamInv => CompletedIsClosed
    BY DEF StreamInv, StreamFits, Read, CompletedIsClosed
  <1> QED BY <1>1, StreamInvariant, PTL

-----------------------------
(* No batch after the end has begun. *)

(* A stream that has begun to end takes nothing in any more. *)
Heeds(x) ==
    Len(st'[x].accepted) > Len(st[x].accepted) =>
       /\ sessions[home[x]].phase = "open" /\ ~st[x].closing /\ ~st[x].closed
       /\ reader[x].why # "cancelled"

LEMMA SameHeeds ==
    ASSUME StreamInv, NEW x \in Streams, st'[x].accepted = st[x].accepted
    PROVE  Heeds(x)
  <1>1. Listed(st[x].accepted)
    BY DEF StreamInv, StreamFits, StreamTypes
  <1>2. Len(st[x].accepted) \in Nat
    BY <1>1 DEF Listed
  <1> QED BY <1>2 DEF Heeds

(* Only a batch that goes through changes what a stream has read. *)
LEMMA SteadyStep ==
    ASSUME StreamInv, NEW x \in Streams, [StreamNext]_streamVars,
           ~\E b \in Emits(st[x].accepted) : ReadBatch(x, b)
    PROVE  SameRead(st'[x], st[x])
  <1> DEFINE Same == SameRead(st'[x], st[x])
  <1>1. IsStream(st[x]) /\ DOMAIN st = Streams
    BY DEF StreamInv, StreamFits, StreamTypes
  <1>9. SameRead(st[x], st[x])
    BY DEF SameRead
  <1>2. ASSUME NEW y \in Streams, y # x, NEW v, st' = [st EXCEPT ![y] = v] PROVE Same
    BY <1>1, <1>2 DEF SameRead
  <1>3. CASE st' = st
    BY <1>3 DEF SameRead
  <1>4. CASE \E s \in Sessions : SessionStep(s)
    <2>1. PICK s \in Sessions : SessionStep(s) BY <1>4
    <2>2. CASE EnterSession(s) \/ CleanupLists(s) \/ ExitEnds(s)
      BY <2>2, <1>3 DEF EnterSession, CleanupLists, ExitEnds
    <2>3. CASE ExitStarts(s)
      <3>1. st'[x] = ClosingNow(s, x) BY <2>3 DEF ExitStarts
      <3>2. SameRead([st[x] EXCEPT !.closing = TRUE], st[x])
        BY <1>1, ClosingEdited
      <3> QED BY <1>9, <3>1, <3>2 DEF ClosingNow
    <2>4. CASE \E y \in Streams : CleanupCloses(s, y)
      <3>1. PICK y \in Streams : CleanupCloses(s, y) BY <2>4
      <3> DEFINE u == [st[y] EXCEPT !.lock = "session", !.closing = TRUE]
      <3>2. st' = st \/ st' = [st EXCEPT ![y] = u]
        BY <3>1, <1>1 DEF CleanupCloses
      <3>3. y = x => SameRead(u, st[x])
        BY <1>1 DEF IsStream, StreamFields, SameRead
      <3> HIDE DEF u
      <3> QED BY <1>9, <3>2, <3>3, <1>1, <1>2
    <2>5. CASE \E y \in Streams : \E how \in CloseOutcomes : CleanupClosed(s, y, how)
      <3>1. PICK y \in Streams, how \in CloseOutcomes : CleanupClosed(s, y, how) BY <2>5
      <3> DEFINE u == Closed(st[y], how)
      <3>2. st' = [st EXCEPT ![y] = u]
        BY <3>1 DEF CleanupClosed
      <3>3. SameRead(Closed(st[x], how), st[x])
        BY <1>1, ClosedSame
      <3>4. y = x => SameRead(u, st[x])
        BY <3>3
      <3> HIDE DEF u
      <3> QED BY <3>2, <3>4, <1>1, <1>2
    <2> QED BY <2>1, <2>2, <2>3, <2>4, <2>5 DEF SessionStep
  <1>5. CASE \E y \in Streams \ {x} : StreamStep(y)
    <2>1. PICK y \in Streams \ {x} : StreamStep(y) BY <1>5
    <2>2. st' = st \/ \E v : st' = [st EXCEPT ![y] = v]
      BY <2>1, <1>1 DEF StreamStep, SelectStarts, SelectEnds, Parse, NextStarts, NextGoesOn, ReadEnds,
         ReadBatch, ReadFails, CleansUp, CloseStarts, CloseGoesOn, CloseGivesUp, ReaderCleaned, CloserCleaned
    <2> QED BY <2>1, <2>2, <1>2, <1>3
  <1>6. CASE StreamStep(x)
    <2>1. CASE st' = st \/ \E v : st' = [st EXCEPT ![x] = v] /\ SameRead(v, st[x])
      BY <1>9, <2>1, <1>1
    <2>2. CASE SelectStarts(x) \/ (\E yes \in BOOLEAN : SelectEnds(x, yes)) \/ CloseGivesUp(x)
      BY <1>9, <2>2 DEF SelectStarts, SelectEnds, CloseGivesUp
    <2>3. CASE \E yes \in BOOLEAN : Parse(x, yes)
      <3>1. SameRead([st[x] EXCEPT !.tracked = TRUE], st[x])
        BY <1>1, TrackedEdited
      <3>2. st' = st \/ st' = [st EXCEPT ![x] = [st[x] EXCEPT !.tracked = TRUE]]
        BY <2>3, <1>1 DEF Parse
      <3> QED BY <1>9, <3>1, <3>2, <1>1
    <2>4. CASE NextStarts(x) \/ NextGoesOn(x)
      <3>1. SameRead([st[x] EXCEPT !.lock = "reader"], st[x])
        BY <1>1, LockEdited
      <3>2. st' = st \/ st' = [st EXCEPT ![x] = [st[x] EXCEPT !.lock = "reader"]]
        BY <2>4, <1>1 DEF NextStarts, NextGoesOn
      <3> QED BY <1>9, <3>1, <3>2, <1>1
    <2>5. CASE CloseGoesOn(x)
      <3>1. SameRead([st[x] EXCEPT !.lock = "closer"], st[x])
        BY <1>1, LockEdited
      <3>2. st' = st \/ st' = [st EXCEPT ![x] = [st[x] EXCEPT !.lock = "closer"]]
        BY <2>5, <1>1 DEF CloseGoesOn
      <3> QED BY <1>9, <3>1, <3>2, <1>1
    <2>6. CASE CloseStarts(x) \/ ReadEnds(x) \/ \E failure \in Failures : ReadFails(x, failure)
      <3>1. /\ SameRead([st[x] EXCEPT !.closing = TRUE], st[x])
            /\ SameRead(AfterCancelledRead(st[x]), st[x])
        BY <1>1, ClosingEdited, CancelledEdited
      <3>2. \/ st' = [st EXCEPT ![x] = [st[x] EXCEPT !.closing = TRUE]]
            \/ st' = [st EXCEPT ![x] = AfterCancelledRead(st[x])]
        BY <2>6, <1>1 DEF CloseStarts, ReadEnds, ReadFails, CleansUp
      <3> QED BY <1>9, <3>1, <3>2, <1>1
    <2>7. CASE \E how \in CloseOutcomes : ReaderCleaned(x, how)
      <3>1. PICK how \in CloseOutcomes : ReaderCleaned(x, how) BY <2>7
      <3> DEFINE u == Closed(st[x], how)
                 done == reader[x].why = "exhausted" /\ how = "ok"
      <3>2. IsStream(u) /\ SameRead(u, st[x])
        BY <1>1, ClosedEdited, ClosedSame
      <3>3. st' = [st EXCEPT ![x] = [u EXCEPT !.completed = done]]
        BY <3>1 DEF ReaderCleaned
      <3> HIDE DEF u, done
      <3>4. SameRead([u EXCEPT !.completed = done], st[x])
        BY <3>2, CompletedEdited DEF SameRead
      <3> QED BY <3>3, <3>4, <1>1
    <2>8. CASE \E how \in CloseOutcomes : CloserCleaned(x, how)
      <3>1. PICK how \in CloseOutcomes : CloserCleaned(x, how) BY <2>8
      <3>2. SameRead(Closed(st[x], how), st[x])
        BY <1>1, ClosedSame
      <3>3. st' = [st EXCEPT ![x] = Closed(st[x], how)]
        BY <3>1 DEF CloserCleaned
      <3> QED BY <3>2, <3>3, <1>1
    <2> QED BY <1>6, <2>2, <2>3, <2>4, <2>5, <2>6, <2>7, <2>8 DEF StreamStep
  <1>7. CASE \E r \in Registrars : (\E offer \in Offers : RegistrarLooks(r, offer)) \/ RegistrarCommits(r)
    BY <1>3, <1>7 DEF RegistrarLooks, RegistrarCommits
  <1>8. CASE UNCHANGED streamVars
    BY <1>3, <1>8 DEF streamVars
  <1> QED BY <1>4, <1>5, <1>6, <1>7, <1>8 DEF StreamNext

LEMMA ReadBatchHeeds ==
    ASSUME StreamInv, NEW x \in Streams, NEW b, ReadBatch(x, b)
    PROVE  Heeds(x)
  <1>1. StreamFits(st[x], reader[x], closer[x]) /\ reader[x].pc = "reading"
    BY DEF StreamInv, ReadBatch
  <1>2. CASE st[x].closing
    <2>1. CleansUp(x, "stop")
      BY <1>2 DEF ReadBatch
    <2>2. st'[x].accepted = st[x].accepted
      BY <1>1, <2>1, CleansUpFits
    <2> QED BY <2>2, SameHeeds
  <1>3. CASE ~st[x].closing
    <2>1. ~st[x].closed /\ st[x].tracked /\ reader[x].why # "cancelled"
      BY <1>1, <1>3 DEF StreamFits, StreamTypes, Noted, Asking
    <2>2. SessionFits(home[x])
      BY DEF StreamInv
    <2>3. sessions[home[x]].phase = "open"
      BY <1>3, <2>1, <2>2 DEF SessionFits
    <2> QED BY <1>3, <2>1, <2>3 DEF Heeds
  <1> QED BY <1>2, <1>3

LEMMA StepHeeds ==
    ASSUME StreamInv, [StreamNext]_streamVars
    PROVE  \A x \in Streams : Heeds(x)
  BY SteadyStep, SameHeeds, ReadBatchHeeds DEF SameRead

(* No batch is handed out once a session has begun to end, somebody has     *)
(* begun to close the stream or a read of it was cancelled, whoever does    *)
(* what in which order (_begin_close, the check behind the await).          *)
THEOREM ClosingIsHeeded == StreamSpec => NothingAfterClose
  <1>1. StreamInv /\ [StreamNext]_streamVars =>
          [\A x \in Streams :
             Len(st'[x].accepted) > Len(st[x].accepted) =>
                /\ sessions[home[x]].phase = "open" /\ ~st[x].closing /\ ~st[x].closed
                /\ reader[x].why # "cancelled"]_streamVars
    BY StepHeeds DEF Heeds
  <1> QED BY <1>1, StreamInvariant, PTL DEF StreamSpec, NothingAfterClose

-----------------------------
(* Lists that are put together. *)

(* A set of lengths that is not empty has a least one. *)
LEMMA LeastLength ==
    ASSUME NEW S \in SUBSET Nat, S # {}
    PROVE  \E n \in S : \A m \in S : ~(m < n)
  <1>1. PICK n \in S : \A m \in S : <<m, n>> \notin OpToRel(<, Nat)
    BY NatLessThanWellFounded, WFMin
  <1> QED BY <1>1 DEF OpToRel

(* Lists of lists, the way FlattenSeq puts them together. *)
Joins(f, seqs, n) == f = [i \in 1..n |-> IF i = 1 THEN seqs[i] ELSE f[i - 1] \o seqs[i]]

(* It does so in one way only, which is there for every length. *)
LEMMA JoinedOnce ==
    ASSUME NEW s, NEW t, NEW n \in Nat, NEW m \in Nat, n <= m, \A i \in 1..n : s[i] = t[i],
           NEW f, NEW g, Joins(f, s, n), Joins(g, t, m)
    PROVE  \A i \in 1..n : f[i] = g[i]
  <1> DEFINE flawed == {i \in 1..n : f[i] # g[i]}
  <1> SUFFICES ASSUME flawed # {} PROVE FALSE
    OBVIOUS
  <1>1. flawed \in SUBSET Nat
    OBVIOUS
  <1>2. PICK i \in flawed : \A j \in flawed : ~(j < i)
    <2> HIDE DEF flawed
    <2> QED BY <1>1, LeastLength
  <1>3. i \in 1..n /\ i \in 1..m /\ f[i] # g[i] /\ s[i] = t[i]
    BY <1>2
  <1>4. i # 1 => i - 1 \in 1..n /\ f[i - 1] = g[i - 1]
    BY <1>2, <1>3
  <1>5. f[i] = IF i = 1 THEN s[i] ELSE f[i - 1] \o s[i]
    BY <1>3 DEF Joins
  <1>6. g[i] = IF i = 1 THEN t[i] ELSE g[i - 1] \o t[i]
    BY <1>3 DEF Joins
  <1> QED BY <1>3, <1>4, <1>5, <1>6

LEMMA JoinIsThere ==
    ASSUME NEW s, NEW n \in Nat
    PROVE  \E f : Joins(f, s, n)
  <1> DEFINE flawed == {m \in Nat : ~\E f : Joins(f, s, m)}
  <1> SUFFICES ASSUME flawed # {} PROVE FALSE
    OBVIOUS
  <1>1. flawed \in SUBSET Nat
    OBVIOUS
  <1>2. PICK m \in flawed : \A j \in flawed : ~(j < m)
    <2> HIDE DEF flawed
    <2> QED BY <1>1, LeastLength
  <1>3. CASE m = 0
    <2>1. Joins([i \in {} |-> {}], s, 0)
      BY DEF Joins
    <2> QED BY <1>2, <1>3, <2>1
  <1>4. CASE m # 0
    <2>1. m \in Nat /\ m - 1 \in Nat
      BY <1>2, <1>4
    <2>2. PICK f : Joins(f, s, m - 1)
      BY <1>2, <2>1
    <2> DEFINE end == IF m = 1 THEN s[m] ELSE f[m - 1] \o s[m]
               g   == [i \in 1..m |-> IF i = m THEN end ELSE f[i]]
    <2>3. ASSUME NEW i \in 1..m PROVE g[i] = IF i = 1 THEN s[i] ELSE g[i - 1] \o s[i]
      <3>1. CASE i = m
        <4>1. m # 1 => m - 1 \in 1..m /\ m - 1 # m
          BY <2>1
        <4>2. m # 1 => g[m - 1] = f[m - 1]
          BY <4>1
        <4> QED BY <3>1, <4>2
      <3>2. CASE i # m
        <4>1. i \in 1..(m - 1) /\ (i # 1 => i - 1 \in 1..m /\ i - 1 # m)
          BY <2>1, <3>2
        <4>2. f[i] = IF i = 1 THEN s[i] ELSE f[i - 1] \o s[i]
          BY <2>2, <4>1 DEF Joins
        <4>3. g[i] = f[i] /\ (i # 1 => g[i - 1] = f[i - 1])
          BY <3>2, <4>1
        <4> QED BY <4>2, <4>3
      <3> QED BY <3>1, <3>2
    <2>4. Joins(g, s, m)
      <3>1. g = [i \in 1..m |-> g[i]]
        OBVIOUS
      <3> HIDE DEF g
      <3> QED BY <2>3, <3>1 DEF Joins
    <2> QED BY <1>2, <2>1, <2>4
  <1> QED BY <1>3, <1>4

LEMMA FlattenJoins ==
    ASSUME NEW s, Len(s) \in Nat \ {0}
    PROVE  \E f : Joins(f, s, Len(s)) /\ FlattenSeq(s) = f[Len(s)]
  <1> DEFINE F == CHOOSE f : Joins(f, s, Len(s))
  <1>1. Joins(F, s, Len(s))
    BY JoinIsThere
  <1>2. FlattenSeq(s) = F[Len(s)]
    BY DEF FlattenSeq, Joins
  <1> QED BY <1>1, <1>2

(* A list of lists. *)
Lists(s) == Listed(s) /\ \A i \in 1..Len(s) : Listed(s[i])

LEMMA EmptyFlattened == FlattenSeq(<<>>) = <<>>
  BY DEF FlattenSeq

(* What is put behind the lists is put behind what they make up. *)
LEMMA FlattenAppend ==
    ASSUME NEW s, NEW e, Lists(s), Listed(e)
    PROVE  /\ Listed(FlattenSeq(s)) /\ Lists(Append(s, e))
           /\ FlattenSeq(Append(s, e)) = FlattenSeq(s) \o e
  <1> DEFINE n == Len(s)
             t == Append(s, e)
  <1>1. n \in Nat /\ Listed(t) /\ Len(t) = n + 1 /\ t[n + 1] = e /\ \A i \in 1..n : t[i] = s[i]
    <2>1. n \in Nat /\ s \in Seq({s[i] : i \in 1..n})
      BY DEF Lists, Listed
    <2>2. Listed(t) /\ Len(t) = n + 1
      BY AppendListed DEF Lists
    <2> QED BY <2>1, <2>2
  <1> HIDE DEF t
  <1>2. Lists(t)
    BY <1>1 DEF Lists
  <1>3. PICK g : Joins(g, t, n + 1) /\ FlattenSeq(t) = g[n + 1]
    BY <1>1, FlattenJoins
  <1>4. CASE n = 0
    <2>1. s = <<>>
      BY <1>4 DEF Lists, Listed
    <2>2. FlattenSeq(s) = <<>> /\ Listed(FlattenSeq(s))
      <3>1. Listed(<<>>)
        BY DEF Listed
      <3>2. FlattenSeq(s) = <<>>
        BY <2>1, EmptyFlattened
      <3> QED BY <3>1, <3>2
    <2>3. FlattenSeq(t) = e
      BY <1>1, <1>3, <1>4 DEF Joins
    <2>4. <<>> \o e = e
      BY DEF Listed
    <2> QED BY <1>2, <2>2, <2>3, <2>4 DEF t
  <1>5. CASE n # 0
    <2>1. n \in Nat \ {0} /\ n + 1 \in Nat
      BY <1>1, <1>5
    <2>2. PICK f : Joins(f, s, n) /\ FlattenSeq(s) = f[n]
      BY <2>1, FlattenJoins
    <2>3. f[n] = g[n]
      <3>1. n <= n + 1 /\ n \in 1..n /\ \A i \in 1..n : s[i] = t[i]
        BY <1>1, <2>1
      <3> HIDE DEF n
      <3>2. \A i \in 1..n : f[i] = g[i]
        BY <1>3, <2>1, <2>2, <3>1, JoinedOnce
      <3> QED BY <3>1, <3>2
    <2>4. g[n + 1] = g[n] \o e
      <3>1. n + 1 \in 1..(n + 1) /\ n + 1 # 1 /\ (n + 1) - 1 = n /\ t[n + 1] = e
        BY <1>1, <2>1
      <3> HIDE DEF n
      <3>2. g[n + 1] = IF n + 1 = 1 THEN t[n + 1] ELSE g[(n + 1) - 1] \o t[n + 1]
        BY <1>3, <3>1 DEF Joins
      <3> QED BY <3>1, <3>2
    <2> DEFINE R == UNION {{s[i][k] : k \in 1..Len(s[i])} : i \in 1..n}
    <2>5. \A i \in 1..n : s[i] \in Seq(R)
      <3> SUFFICES ASSUME NEW i \in 1..n PROVE s[i] \in Seq(R)
        OBVIOUS
      <3>1. {s[i][k] : k \in 1..Len(s[i])} \subseteq R
        OBVIOUS
      <3>2. s[i] \in Seq({s[i][k] : k \in 1..Len(s[i])})
        BY DEF Lists, Listed
      <3> HIDE DEF R
      <3> QED BY <3>1, <3>2
    <2> HIDE DEF R
    <2>6. \A i \in 1..n : f[i] \in Seq(R)
      <3> DEFINE flawed == {i \in 1..n : f[i] \notin Seq(R)}
      <3> SUFFICES ASSUME flawed # {} PROVE FALSE
        OBVIOUS
      <3>1. flawed \in SUBSET Nat
        OBVIOUS
      <3>2. PICK i \in flawed : \A j \in flawed : ~(j < i)
        <4> HIDE DEF flawed
        <4> QED BY <3>1, LeastLength
      <3>3. i \in 1..n /\ f[i] \notin Seq(R) /\ s[i] \in Seq(R)
        BY <2>5, <3>2
      <3>4. i # 1 => f[i - 1] \in Seq(R)
        BY <3>2, <3>3
      <3>5. f[i] = IF i = 1 THEN s[i] ELSE f[i - 1] \o s[i]
        BY <2>2, <3>3 DEF Joins
      <3> QED BY <3>3, <3>4, <3>5
    <2>7. Listed(f[n])
      <3>1. f[n] \in Seq(R)
        BY <2>1, <2>6
      <3> QED BY <3>1 DEF Listed
    <2> QED BY <1>2, <1>3, <2>2, <2>3, <2>4, <2>7 DEF t
  <1> QED BY <1>4, <1>5

(* Lists behind each other. *)
LEMMA SeqIsListed ==
    ASSUME NEW R, NEW c \in Seq(R)
    PROVE  Listed(c) /\ Len(c) \in Nat /\ DOMAIN c = 1..Len(c)
  <1> DEFINE C == {c[i] : i \in 1..Len(c)}
  <1>1. Len(c) \in Nat /\ DOMAIN c = 1..Len(c) /\ \A i \in 1..Len(c) : c[i] \in C
    OBVIOUS
  <1>2. c \in Seq(C)
    <2> HIDE DEF C
    <2> QED BY <1>1
  <1> QED BY <1>1, <1>2 DEF Listed

LEMMA ListedConcat ==
    ASSUME NEW a, NEW b, Listed(a), Listed(b)
    PROVE  /\ Listed(a \o b) /\ Len(a \o b) = Len(a) + Len(b) /\ Len(a) \in Nat /\ Len(b) \in Nat
           /\ DOMAIN a = 1..Len(a) /\ DOMAIN b = 1..Len(b) /\ DOMAIN (a \o b) = 1..(Len(a) + Len(b))
           /\ \A i \in 1..Len(a) : (a \o b)[i] = a[i]
           /\ \A i \in 1..Len(b) : (a \o b)[Len(a) + i] = b[i]
  <1> DEFINE R == {a[i] : i \in 1..Len(a)} \cup {b[i] : i \in 1..Len(b)}
             c == a \o b
  <1>1. a \in Seq(R) /\ b \in Seq(R)
    <2> DEFINE A == {a[i] : i \in 1..Len(a)}
               B == {b[i] : i \in 1..Len(b)}
    <2>1. a \in Seq(A) /\ b \in Seq(B) /\ R = A \cup B
      BY DEF Listed
    <2> HIDE DEF A, B, R
    <2> QED BY <2>1
  <1> HIDE DEF R
  <1>2. c \in Seq(R) /\ Len(c) = Len(a) + Len(b)
    BY <1>1, ConcatProperties
  <1>3. \A i \in 1..(Len(a) + Len(b)) : c[i] = IF i <= Len(a) THEN a[i] ELSE b[i - Len(a)]
    BY <1>1, ConcatProperties
  <1>4. Len(a) \in Nat /\ Len(b) \in Nat /\ DOMAIN a = 1..Len(a) /\ DOMAIN b = 1..Len(b)
    BY <1>1
  <1>5. Listed(c) /\ DOMAIN c = 1..(Len(a) + Len(b))
    BY <1>2, SeqIsListed
  <1> HIDE DEF c
  <1>6. \A i \in 1..Len(a) : c[i] = a[i]
    BY <1>3, <1>4
  <1>7. \A i \in 1..Len(b) : c[Len(a) + i] = b[i]
    <2> TAKE i \in 1..Len(b)
    <2>1. Len(a) + i \in 1..(Len(a) + Len(b)) /\ ~(Len(a) + i <= Len(a)) /\ (Len(a) + i) - Len(a) = i
      BY <1>4
    <2> QED BY <1>3, <2>1
  <1> QED BY <1>2, <1>4, <1>5, <1>6, <1>7 DEF c

(* Two lists that hold the same are the same. *)
LEMMA ListsEqual ==
    ASSUME NEW a, NEW b, Listed(a), Listed(b), Len(a) = Len(b), \A i \in 1..Len(a) : a[i] = b[i]
    PROVE  a = b
  <1>1. a = [i \in 1..Len(a) |-> a[i]] /\ b = [i \in 1..Len(b) |-> b[i]]
    BY DEF Listed
  <1> QED BY <1>1

LEMMA ListIsListed ==
    ASSUME NEW n \in Nat, NEW f, f = [i \in 1..n |-> f[i]]
    PROVE  Listed(f) /\ Len(f) = n
  <1>1. f \in [1..n -> {f[i] : i \in 1..n}]
    OBVIOUS
  <1>2. f \in Seq({f[i] : i \in 1..n}) /\ Len(f) = n
    BY <1>1
  <1> QED BY <1>2 DEF Listed

-----------------------------
(* Segments. *)

(* What a stream knows of the segments T, and that each follows on. *)
Entries(T) == [k \in DOMAIN T |-> Entry(T[k])]
UpTo(T, n) == [k \in 1..n |-> Entry(T[k])]
InTurn(T) == \A i \in DOMAIN T : T[i].id # Missing => FollowsOn(UpTo(T, i - 1), T[i])

LEMMA FollowMore ==
    ASSUME NEW T, NEW news, Listed(T), Listed(news), InTurn(T), WithSegments(Entries(T), news).ok
    PROVE  /\ InTurn(T \o news)
           /\ WithSegments(Entries(T), news).known = Entries(T \o news)
  <1> DEFINE all == T \o news
             n   == Len(T)
  <1>1. /\ Listed(all) /\ Len(all) = n + Len(news) /\ n \in Nat /\ Len(news) \in Nat
        /\ DOMAIN T = 1..n /\ DOMAIN news = 1..Len(news) /\ DOMAIN all = 1..(n + Len(news))
        /\ \A i \in 1..n : all[i] = T[i]
        /\ \A i \in 1..Len(news) : all[n + i] = news[i]
    BY ListedConcat
  <1> HIDE DEF all, n
  <1>2. ASSUME NEW m \in Nat, m <= Len(news)
        PROVE  Entries(T) \o [k \in 1..m |-> Entry(news[k])] = UpTo(all, n + m)
    <2> DEFINE a == Entries(T)
               b == [k \in 1..m |-> Entry(news[k])]
               c == UpTo(all, n + m)
    <2>1. Listed(a) /\ Len(a) = n /\ \A i \in 1..n : a[i] = Entry(T[i])
      <3>1. a = [i \in 1..n |-> a[i]] /\ \A i \in 1..n : a[i] = Entry(T[i])
        BY <1>1 DEF Entries
      <3> HIDE DEF a
      <3> QED BY <1>1, <3>1, ListIsListed
    <2>2. Listed(b) /\ Len(b) = m /\ \A i \in 1..m : b[i] = Entry(news[i])
      <3>1. b = [i \in 1..m |-> b[i]] /\ \A i \in 1..m : b[i] = Entry(news[i])
        OBVIOUS
      <3> HIDE DEF b
      <3> QED BY <3>1, ListIsListed
    <2>3. Listed(c) /\ Len(c) = n + m /\ \A i \in 1..(n + m) : c[i] = Entry(all[i])
      <3>1. c = [i \in 1..(n + m) |-> c[i]] /\ \A i \in 1..(n + m) : c[i] = Entry(all[i])
        BY DEF UpTo
      <3> HIDE DEF c
      <3> QED BY <1>1, <3>1, ListIsListed
    <2> HIDE DEF a, b, c
    <2>4. /\ Listed(a \o b) /\ Len(a \o b) = n + m
          /\ \A i \in 1..n : (a \o b)[i] = a[i]
          /\ \A i \in 1..m : (a \o b)[n + i] = b[i]
      BY <2>1, <2>2, ListedConcat
    <2>5. ASSUME NEW i \in 1..(n + m) PROVE (a \o b)[i] = c[i]
      <3>1. CASE i <= n
        <4>1. i \in 1..n
          BY <1>1, <3>1
        <4> QED BY <1>1, <2>1, <2>3, <2>4, <4>1
      <3>2. CASE ~(i <= n)
        <4>1. i - n \in 1..m /\ n + (i - n) = i /\ i - n \in 1..Len(news)
          BY <1>1, <1>2, <3>2
        <4>2. (a \o b)[i] = b[i - n] /\ all[i] = news[i - n]
          BY <1>1, <2>4, <4>1
        <4> QED BY <2>2, <2>3, <4>1, <4>2
      <3> QED BY <3>1, <3>2
    <2>6. a \o b = c
      BY <2>3, <2>4, <2>5, ListsEqual
    <2> QED BY <2>6 DEF a, b, c
  <1>3. WithSegments(Entries(T), news).known = Entries(all)
    <2>1. WithSegments(Entries(T), news).known = Entries(T) \o [k \in 1..Len(news) |-> Entry(news[k])]
      BY <1>1 DEF WithSegments
    <2>2. UpTo(all, n + Len(news)) = Entries(all)
      BY <1>1 DEF UpTo, Entries
    <2> QED BY <1>1, <1>2, <2>1, <2>2
  <1>4. ASSUME NEW i \in DOMAIN all, all[i].id # Missing
        PROVE  FollowsOn(UpTo(all, i - 1), all[i])
    <2>1. CASE i <= n
      <3>1. i \in DOMAIN T /\ all[i] = T[i] /\ \A k \in 1..(i - 1) : all[k] = T[k]
        BY <1>1, <1>4, <2>1
      <3>2. UpTo(all, i - 1) = UpTo(T, i - 1)
        BY <3>1 DEF UpTo
      <3> QED BY <1>4, <3>1, <3>2 DEF InTurn
    <2>2. CASE ~(i <= n)
      <3> DEFINE j == i - n
      <3>1. j \in 1..Len(news) /\ n + j = i /\ j - 1 \in Nat /\ j - 1 <= Len(news) /\ n + (j - 1) = i - 1
        BY <1>1, <1>4, <2>2
      <3>2. all[i] = news[j] /\ j \in DOMAIN news
        BY <1>1, <3>1
      <3> HIDE DEF j
      <3>3. FollowsOn(Entries(T) \o [k \in 1..(j - 1) |-> Entry(news[k])], news[j])
        BY <1>4, <3>2 DEF WithSegments
      <3>4. Entries(T) \o [k \in 1..(j - 1) |-> Entry(news[k])] = UpTo(all, i - 1)
        BY <1>2, <3>1
      <3> QED BY <3>2, <3>3, <3>4
    <2> QED BY <2>1, <2>2
  <1> QED BY <1>3, <1>4 DEF InTurn, all

(* The last place. *)
LEMMA MaxIs ==
    ASSUME NEW n \in Nat, NEW P \in SUBSET (1..n), P # {}
    PROVE  Max(P) \in P /\ \A i \in P : i <= Max(P)
  <1> DEFINE Q == {n - i : i \in P}
  <1>1. Q \in SUBSET Nat /\ Q # {}
    <2>1. \A i \in P : n - i \in Nat /\ n - i \in Q
      OBVIOUS
    <2> QED BY <2>1
  <1>2. PICK q \in Q : \A r \in Q : ~(r < q)
    <2> HIDE DEF Q
    <2> QED BY <1>1, LeastLength
  <1>3. PICK p \in P : q = n - p
    BY <1>2
  <1>4. \A i \in P : p >= i
    <2> TAKE i \in P
    <2>1. ~(n - i < n - p)
      BY <1>2, <1>3
    <2> QED BY <2>1
  <1>5. Max(P) \in P /\ \A i \in P : Max(P) >= i
    BY <1>3, <1>4 DEF Max
  <1> QED BY <1>5

LEMMA PlacesUpTo ==
    ASSUME NEW T, NEW n \in Nat, NEW id
    PROVE  PlacesOf(UpTo(T, n), id) = {j \in 1..n : T[j].id = id}
  BY DEF PlacesOf, UpTo, Entry

(* What following on means, of the segments themselves. *)
LEMMA FollowingIs ==
    ASSUME NEW T, NEW i \in Nat \ {0}, FollowsOn(UpTo(T, i - 1), T[i])
    PROVE  LET p == Max(Earlier(T, i))
           IN  IF Earlier(T, i) = {} THEN T[i].segment = 0 /\ (T[i].kind # "table" => T[i].from = 0)
               ELSE /\ p \in Earlier(T, i) /\ (\A j \in Earlier(T, i) : j <= p)
                    /\ ~T[p].last /\ T[i].segment = T[p].segment + 1
                    /\ T[i].from = T[p].upto /\ T[i].kind = T[p].kind
  <1> DEFINE known == UpTo(T, i - 1)
             p     == Max(Earlier(T, i))
  <1>1. i - 1 \in Nat /\ PlacesOf(known, T[i].id) = Earlier(T, i)
    BY PlacesUpTo DEF Earlier
  <1>2. CASE Earlier(T, i) = {}
    BY <1>1, <1>2 DEF FollowsOn
  <1>3. CASE Earlier(T, i) # {}
    <2>1. p \in Earlier(T, i) /\ \A j \in Earlier(T, i) : j <= p
      <3>1. Earlier(T, i) \in SUBSET (1..(i - 1))
        BY DEF Earlier
      <3> QED BY <1>1, <1>3, <3>1, MaxIs
    <2>2. p \in 1..(i - 1)
      BY <2>1 DEF Earlier
    <2>3. known[p] = Entry(T[p])
      BY <2>2 DEF UpTo
    <2>4. /\ ~known[p].closed /\ T[i].segment = known[p].next /\ T[i].from = known[p].row
          /\ T[i].kind = known[p].kind
      <3>1. FollowsOn(known, T[i])
        OBVIOUS
      <3> HIDE DEF known
      <3> QED BY <1>1, <1>3, <3>1 DEF FollowsOn
    <2> QED BY <1>3, <2>1, <2>3, <2>4 DEF Entry
  <1> QED BY <1>2, <1>3

(* Segments that follow on are numbered as they come. *)
LEMMA SegmentsCount ==
    ASSUME NEW T, Listed(T), InTurn(T), NEW i \in DOMAIN T, T[i].id # Missing
    PROVE  T[i].segment = Cardinality(Earlier(T, i)) /\ IsFiniteSet(Earlier(T, i))
  <1> DEFINE Wrong(k) == ~(T[k].segment = Cardinality(Earlier(T, k)) /\ IsFiniteSet(Earlier(T, k)))
             flawed == {k \in DOMAIN T : T[k].id # Missing /\ Wrong(k)}
  <1> SUFFICES ASSUME flawed # {} PROVE FALSE
    OBVIOUS
  <1>1. DOMAIN T = 1..Len(T) /\ Len(T) \in Nat /\ flawed \in SUBSET Nat
    BY DEF Listed
  <1>2. PICK k \in flawed : \A j \in flawed : ~(j < k)
    <2> HIDE DEF flawed
    <2> QED BY <1>1, LeastLength
  <1>3. k \in DOMAIN T /\ k \in Nat \ {0} /\ T[k].id # Missing /\ Wrong(k)
    BY <1>1, <1>2
  <1>4. FollowsOn(UpTo(T, k - 1), T[k])
    BY <1>3 DEF InTurn
  <1>5. CASE Earlier(T, k) = {}
    <2>1. T[k].segment = 0
      BY <1>3, <1>4, <1>5, FollowingIs
    <2> QED BY <1>3, <1>5, <2>1, FS_EmptySet
  <1>6. CASE Earlier(T, k) # {}
    <2> DEFINE p == Max(Earlier(T, k))
    <2>1. p \in Earlier(T, k) /\ (\A j \in Earlier(T, k) : j <= p) /\ T[k].segment = T[p].segment + 1
      BY <1>3, <1>4, <1>6, FollowingIs
    <2> HIDE DEF p
    <2>2. p \in 1..(k - 1) /\ T[p].id = T[k].id /\ p \in DOMAIN T /\ p < k
      BY <1>1, <1>3, <2>1 DEF Earlier
    <2>3. ~Wrong(p)
      BY <1>2, <1>3, <2>2
    <2>4. Earlier(T, k) = Earlier(T, p) \cup {p} /\ p \notin Earlier(T, p)
      BY <1>1, <1>3, <2>1, <2>2 DEF Earlier
    <2>5. Cardinality(Earlier(T, k)) = Cardinality(Earlier(T, p)) + 1 /\ IsFiniteSet(Earlier(T, k))
      BY <2>3, <2>4, FS_AddElement
    <2> QED BY <1>3, <2>1, <2>3, <2>5
  <1> QED BY <1>5, <1>6

(* Segments that follow on, and are all closed, are whole. *)
LEMMA FollowedToTheEnd ==
    ASSUME NEW T, Listed(T), InTurn(T), AllClosed(Entries(T))
    PROVE  SegmentsFollow(T)
  <1> SUFFICES ASSUME NEW i \in DOMAIN T, T[i].id # Missing
               PROVE  /\ T[i].segment = Cardinality(Earlier(T, i))
                      /\ IF Earlier(T, i) = {} THEN T[i].kind # "table" => T[i].from = 0
                         ELSE /\ T[i].from = T[Max(Earlier(T, i))].upto
                              /\ T[i].kind = T[Max(Earlier(T, i))].kind
                      /\ T[i].last <=> \A j \in (i + 1)..Len(T) : T[j].id # T[i].id
    BY DEF SegmentsFollow
  <1> DEFINE n == Len(T)
             later == {j \in (i + 1)..n : T[j].id = T[i].id}
  <1>1. DOMAIN T = 1..n /\ n \in Nat /\ i \in Nat \ {0} /\ i \in 1..n
    BY DEF Listed
  <1>2. T[i].segment = Cardinality(Earlier(T, i))
    BY SegmentsCount
  <1>3. FollowsOn(UpTo(T, i - 1), T[i])
    BY DEF InTurn
  <1>4. IF Earlier(T, i) = {} THEN T[i].kind # "table" => T[i].from = 0
        ELSE T[i].from = T[Max(Earlier(T, i))].upto /\ T[i].kind = T[Max(Earlier(T, i))].kind
    BY <1>1, <1>3, FollowingIs
  <1>5. CASE later = {}
    <2> DEFINE places == PlacesOf(Entries(T), T[i].id)
    <2>1. Entries(T) = UpTo(T, n)
      BY <1>1 DEF Entries, UpTo
    <2>2. places = {j \in 1..n : T[j].id = T[i].id}
      BY <1>1, <2>1, PlacesUpTo
    <2>3. Max(places) \in places /\ \A j \in places : j <= Max(places)
      <3>1. i \in places /\ places \in SUBSET (1..n)
        BY <1>1, <2>2
      <3> HIDE DEF places, n
      <3> QED BY <1>1, <3>1, MaxIs
    <2>4. Max(places) = i
      <3>1. i \in places
        BY <1>1, <2>2
      <3>2. Max(places) \in 1..n /\ T[Max(places)].id = T[i].id /\ i <= Max(places)
        BY <2>2, <2>3, <3>1
      <3> QED BY <1>1, <1>5, <3>2
    <2>5. Entries(T)[i] = Entry(T[i]) /\ i \in DOMAIN Entries(T) /\ Entry(T[i]).id = T[i].id
      BY DEF Entries, Entry
    <2>6. Entries(T)[i].closed
      BY <2>4, <2>5 DEF AllClosed
    <2>7. T[i].last
      BY <2>5, <2>6 DEF Entry
    <2> QED BY <1>2, <1>4, <1>5, <2>7
  <1>6. CASE later # {}
    <2>1. later \in SUBSET Nat
      BY <1>1
    <2>2. PICK j \in later : \A k \in later : ~(k < j)
      <3> HIDE DEF later
      <3> QED BY <1>6, <2>1, LeastLength
    <2>3. j \in DOMAIN T /\ j \in Nat \ {0} /\ T[j].id = T[i].id /\ i < j
      BY <1>1, <2>2
    <2>4. FollowsOn(UpTo(T, j - 1), T[j])
      BY <2>3 DEF InTurn
    <2>5. i \in Earlier(T, j) /\ \A k \in Earlier(T, j) : k <= i
      BY <1>1, <2>2, <2>3 DEF Earlier
    <2> DEFINE p == Max(Earlier(T, j))
    <2>6. p \in Earlier(T, j) /\ (\A k \in Earlier(T, j) : k <= p) /\ ~T[p].last
      BY <2>3, <2>4, <2>5, FollowingIs
    <2>7. p = i
      <3>1. p <= i /\ i <= p /\ p \in 1..(j - 1)
        BY <2>5, <2>6 DEF Earlier
      <3> HIDE DEF p
      <3> QED BY <1>1, <2>3, <3>1
    <2> HIDE DEF p
    <2>8. ~T[i].last
      BY <2>6, <2>7
    <2> QED BY <1>2, <1>4, <1>6, <2>8
  <1> QED BY <1>5, <1>6

(* One list more among those that are put together. *)
LEMMA FlattenGrows ==
    ASSUME NEW F, NEW G, NEW e, Lists(F), Listed(e), Listed(G), Len(G) = Len(F) + 1,
           \A i \in 1..Len(F) : G[i] = F[i], G[Len(F) + 1] = e
    PROVE  Listed(FlattenSeq(F)) /\ FlattenSeq(G) = FlattenSeq(F) \o e
  <1> DEFINE H == Append(F, e)
  <1>1. Listed(F) /\ Len(F) \in Nat /\ F \in Seq({F[i] : i \in 1..Len(F)})
    BY DEF Lists, Listed
  <1>2. Listed(H) /\ Len(H) = Len(F) + 1
    BY <1>1, AppendListed
  <1>3. \A i \in 1..Len(H) : H[i] = IF i = Len(F) + 1 THEN e ELSE F[i]
    BY <1>1, <1>2
  <1> HIDE DEF H
  <1>4. \A i \in 1..Len(G) : G[i] = H[i]
    <2> TAKE i \in 1..Len(G)
    <2>1. i \in 1..Len(F) \/ i = Len(F) + 1
      BY <1>1
    <2> QED BY <1>1, <1>2, <1>3, <2>1
  <1>5. G = H
    BY <1>2, <1>4, ListsEqual
  <1> QED BY <1>5, FlattenAppend DEF H

LEMMA TupleIs ==
    ASSUME NEW q, TupleFits(q)
    PROVE  Listed(q) /\ Len(q) \in Nat /\ DOMAIN q = 1..Len(q)
  BY SeqIsListed DEF TupleFits

-----------------------------
(* What a stream has gathered of the batches it let through. *)

RefsGiven(b) == IF b.version = "1.1" THEN b.refs ELSE <<>>
KeysGiven(b) == IF b.version = "1.1" THEN {b.refs[i] : i \in DOMAIN b.refs} ELSE RefsOf(b)

TableParts(A) == [i \in DOMAIN A |-> TableSegments(A[i])]
TreeParts(A) == [i \in DOMAIN A |-> TreeSegments(A[i])]
RefParts(A) == [i \in DOMAIN A |-> RefsGiven(A[i])]

Numbered(A) == Listed(A) /\ \A i \in DOMAIN A : A[i].index = i - 1 /\ BatchFits(A[i])

(* The batches, their order and their summaries; what is known of their     *)
(* references and segments; and that only the last batch ends the stream,   *)
(* with a manifest that agrees with all of it.                              *)
Gathered(s) ==
    LET A == s.accepted
    IN  /\ Numbered(A) /\ s.sums = [i \in DOMAIN A |-> SummaryOf(A[i])]
        /\ \A i \in DOMAIN A : A[i].last => i = Len(A) /\ s.terminal
        /\ s.terminal => A # <<>> /\ A[Len(A)].last /\ ManifestClosesIt(s, A[Len(A)])
        /\ s.refs = FlattenSeq(RefParts(A))
        /\ s.keys = UNION {KeysGiven(A[i]) : i \in DOMAIN A}
        /\ s.tables = Entries(FlattenSeq(TableParts(A))) /\ InTurn(FlattenSeq(TableParts(A)))
        /\ s.trees = Entries(FlattenSeq(TreeParts(A))) /\ InTurn(FlattenSeq(TreeParts(A)))

LEMMA PartsAreLists ==
    ASSUME NEW A, Numbered(A)
    PROVE  /\ Lists(TableParts(A)) /\ Lists(TreeParts(A)) /\ Lists(RefParts(A))
           /\ Len(TableParts(A)) = Len(A) /\ Len(TreeParts(A)) = Len(A) /\ Len(RefParts(A)) = Len(A)
  <1> DEFINE n == Len(A)
  <1>1. n \in Nat /\ DOMAIN A = 1..n
    BY DEF Numbered, Listed
  <1>2. \A i \in 1..n : TupleFits(A[i].tables) /\ TupleFits(A[i].trees) /\ TupleFits(A[i].refs)
    BY <1>1 DEF Numbered, BatchFits
  <1>3. \A i \in 1..n : Listed(TableSegments(A[i])) /\ Listed(TreeSegments(A[i])) /\ Listed(RefsGiven(A[i]))
    <2> TAKE i \in 1..n
    <2> DEFINE f == TableSegments(A[i])
               g == TreeSegments(A[i])
    <2>1. /\ Len(A[i].tables) \in Nat /\ DOMAIN A[i].tables = 1..Len(A[i].tables)
          /\ Len(A[i].trees) \in Nat /\ DOMAIN A[i].trees = 1..Len(A[i].trees) /\ Listed(A[i].refs)
      BY <1>2, TupleIs
    <2>2. f = [k \in 1..Len(A[i].tables) |-> f[k]] /\ g = [k \in 1..Len(A[i].trees) |-> g[k]]
      BY <2>1 DEF TableSegments, TreeSegments
    <2> HIDE DEF f, g
    <2>3. Listed(f) /\ Listed(g)
      BY <2>1, <2>2, ListIsListed
    <2>4. Listed(<<>>)
      BY DEF Listed
    <2> QED BY <2>1, <2>3, <2>4 DEF f, g, RefsGiven
  <1> DEFINE f == TableParts(A)
             g == TreeParts(A)
             h == RefParts(A)
  <1>4. /\ f = [i \in 1..n |-> f[i]] /\ g = [i \in 1..n |-> g[i]] /\ h = [i \in 1..n |-> h[i]]
        /\ \A i \in 1..n : f[i] = TableSegments(A[i]) /\ g[i] = TreeSegments(A[i]) /\ h[i] = RefsGiven(A[i])
    BY <1>1 DEF TableParts, TreeParts, RefParts
  <1> HIDE DEF f, g, h
  <1>5. Listed(f) /\ Listed(g) /\ Listed(h) /\ Len(f) = n /\ Len(g) = n /\ Len(h) = n
    BY <1>1, <1>4, ListIsListed
  <1>6. Lists(f) /\ Lists(g) /\ Lists(h)
    BY <1>3, <1>4, <1>5 DEF Lists
  <1> QED BY <1>5, <1>6 DEF f, g, h

(* One batch more. *)
LEMMA NumberedMore ==
    ASSUME NEW A, NEW b, Numbered(A), BatchFits(b), b.index = Len(A)
    PROVE  LET B == Append(A, b)
           IN  /\ Numbered(B) /\ Len(A) \in Nat /\ Len(B) = Len(A) + 1 /\ B[Len(B)] = b
               /\ DOMAIN A = 1..Len(A) /\ DOMAIN B = 1..Len(B)
               /\ \A i \in 1..Len(A) : B[i] = A[i]
  <1> DEFINE B == Append(A, b)
             n == Len(A)
  <1>1. Listed(A) /\ A \in Seq({A[i] : i \in 1..n}) /\ n \in Nat /\ DOMAIN A = 1..n
    BY DEF Numbered, Listed
  <1>2. Listed(B) /\ Len(B) = n + 1
    BY <1>1, AppendListed
  <1>3. \A i \in 1..(n + 1) : B[i] = IF i = n + 1 THEN b ELSE A[i]
    BY <1>1
  <1> HIDE DEF B
  <1>4. DOMAIN B = 1..Len(B)
    BY <1>2 DEF Listed
  <1>5. B[n + 1] = b /\ \A i \in 1..n : B[i] = A[i]
    BY <1>1, <1>3
  <1>6. Numbered(B)
    <2> SUFFICES ASSUME NEW i \in 1..(n + 1) PROVE B[i].index = i - 1 /\ BatchFits(B[i])
      BY <1>2, <1>4 DEF Numbered
    <2>1. CASE i = n + 1
      BY <1>1, <1>5, <2>1
    <2>2. CASE i # n + 1
      <3>1. i \in 1..n
        BY <1>1, <2>2
      <3> QED BY <1>1, <1>5, <3>1 DEF Numbered
    <2> QED BY <2>1, <2>2
  <1> QED BY <1>1, <1>2, <1>4, <1>5, <1>6 DEF B

LEMMA PartsGrow ==
    ASSUME NEW A, NEW b, Numbered(A), BatchFits(b), b.index = Len(A)
    PROVE  LET B == Append(A, b)
           IN  /\ FlattenSeq(TableParts(B)) = FlattenSeq(TableParts(A)) \o TableSegments(b)
               /\ FlattenSeq(TreeParts(B)) = FlattenSeq(TreeParts(A)) \o TreeSegments(b)
               /\ FlattenSeq(RefParts(B)) = FlattenSeq(RefParts(A)) \o RefsGiven(b)
               /\ Listed(FlattenSeq(TableParts(A))) /\ Listed(FlattenSeq(TreeParts(A)))
               /\ Listed(TableSegments(b)) /\ Listed(TreeSegments(b)) /\ Listed(FlattenSeq(RefParts(A)))
  <1> DEFINE B == Append(A, b)
             n == Len(A)
  <1>1. /\ Numbered(B) /\ n \in Nat /\ Len(B) = n + 1 /\ B[n + 1] = b
        /\ DOMAIN A = 1..n /\ DOMAIN B = 1..(n + 1) /\ \A i \in 1..n : B[i] = A[i]
    BY NumberedMore
  <1> HIDE DEF B
  <1>2. /\ Lists(TableParts(A)) /\ Lists(TreeParts(A)) /\ Lists(RefParts(A))
        /\ Len(TableParts(A)) = n /\ Len(TreeParts(A)) = n /\ Len(RefParts(A)) = n
    BY PartsAreLists
  <1>3. /\ Lists(TableParts(B)) /\ Lists(TreeParts(B)) /\ Lists(RefParts(B))
        /\ Len(TableParts(B)) = n + 1 /\ Len(TreeParts(B)) = n + 1 /\ Len(RefParts(B)) = n + 1
    BY <1>1, PartsAreLists
  <1>4. n + 1 \in 1..(n + 1) /\ \A i \in 1..n : i \in 1..(n + 1)
    BY <1>1
  <1>5. /\ \A i \in 1..n : TableParts(B)[i] = TableParts(A)[i]
        /\ TableParts(B)[n + 1] = TableSegments(b)
    BY <1>1, <1>4 DEF TableParts
  <1>6. /\ \A i \in 1..n : TreeParts(B)[i] = TreeParts(A)[i]
        /\ TreeParts(B)[n + 1] = TreeSegments(b)
    BY <1>1, <1>4 DEF TreeParts
  <1>7. /\ \A i \in 1..n : RefParts(B)[i] = RefParts(A)[i]
        /\ RefParts(B)[n + 1] = RefsGiven(b)
    BY <1>1, <1>4 DEF RefParts
  <1>8. Listed(TableSegments(b)) /\ Listed(TreeSegments(b)) /\ Listed(RefsGiven(b))
    BY <1>3, <1>4, <1>5, <1>6, <1>7 DEF Lists
  <1>9. /\ Listed(TableParts(B)) /\ Listed(TreeParts(B)) /\ Listed(RefParts(B))
    BY <1>3 DEF Lists
  <1>10. Listed(FlattenSeq(TableParts(A))) /\ FlattenSeq(TableParts(B)) = FlattenSeq(TableParts(A)) \o TableSegments(b)
    <2> DEFINE F == TableParts(A)
               G == TableParts(B)
               e == TableSegments(b)
    <2>1. /\ Lists(F) /\ Listed(e) /\ Listed(G) /\ Len(G) = Len(F) + 1
          /\ (\A i \in 1..Len(F) : G[i] = F[i]) /\ G[Len(F) + 1] = e
      BY <1>2, <1>3, <1>5, <1>8, <1>9
    <2> HIDE DEF F, G, e
    <2>2. Listed(FlattenSeq(F)) /\ FlattenSeq(G) = FlattenSeq(F) \o e
      BY <2>1, FlattenGrows
    <2> QED BY <2>2 DEF F, G, e
  <1>11. Listed(FlattenSeq(TreeParts(A))) /\ FlattenSeq(TreeParts(B)) = FlattenSeq(TreeParts(A)) \o TreeSegments(b)
    <2> DEFINE F == TreeParts(A)
               G == TreeParts(B)
               e == TreeSegments(b)
    <2>1. /\ Lists(F) /\ Listed(e) /\ Listed(G) /\ Len(G) = Len(F) + 1
          /\ (\A i \in 1..Len(F) : G[i] = F[i]) /\ G[Len(F) + 1] = e
      BY <1>2, <1>3, <1>6, <1>8, <1>9
    <2> HIDE DEF F, G, e
    <2>2. Listed(FlattenSeq(F)) /\ FlattenSeq(G) = FlattenSeq(F) \o e
      BY <2>1, FlattenGrows
    <2> QED BY <2>2 DEF F, G, e
  <1>12. Listed(FlattenSeq(RefParts(A))) /\ FlattenSeq(RefParts(B)) = FlattenSeq(RefParts(A)) \o RefsGiven(b)
    <2> DEFINE F == RefParts(A)
               G == RefParts(B)
               e == RefsGiven(b)
    <2>1. /\ Lists(F) /\ Listed(e) /\ Listed(G) /\ Len(G) = Len(F) + 1
          /\ (\A i \in 1..Len(F) : G[i] = F[i]) /\ G[Len(F) + 1] = e
      BY <1>2, <1>3, <1>7, <1>8, <1>9
    <2> HIDE DEF F, G, e
    <2>2. Listed(FlattenSeq(F)) /\ FlattenSeq(G) = FlattenSeq(F) \o e
      BY <2>1, FlattenGrows
    <2> QED BY <2>2 DEF F, G, e
  <1> QED BY <1>8, <1>10, <1>11, <1>12 DEF B

(* What is in them is in one of the lists. *)
LEMMA FlattenedFrom ==
    ASSUME NEW s, Lists(s), NEW k \in DOMAIN FlattenSeq(s)
    PROVE  \E i \in 1..Len(s) : \E j \in DOMAIN s[i] : FlattenSeq(s)[k] = s[i][j]
  <1> DEFINE n == Len(s)
             From(q, l) == \A a \in DOMAIN q : \E i \in 1..l : \E j \in DOMAIN s[i] : q[a] = s[i][j]
  <1>1. n \in Nat /\ s \in Seq({s[i] : i \in 1..n})
    BY DEF Lists, Listed
  <1>2. n # 0
    <2> SUFFICES ASSUME n = 0 PROVE FALSE
      OBVIOUS
    <2>1. s = <<>>
      BY <1>1
    <2>2. FlattenSeq(s) = <<>>
      BY <2>1, EmptyFlattened
    <2> QED BY <2>2
  <1>3. PICK f : Joins(f, s, n) /\ FlattenSeq(s) = f[n]
    BY <1>1, <1>2, FlattenJoins
  <1> DEFINE flawed == {i \in 1..n : ~(Listed(f[i]) /\ From(f[i], i))}
  <1>4. flawed = {}
    <2> SUFFICES ASSUME flawed # {} PROVE FALSE
      OBVIOUS
    <2>1. flawed \in SUBSET Nat
      OBVIOUS
    <2>2. PICK i \in flawed : \A j \in flawed : ~(j < i)
      <3> HIDE DEF flawed
      <3> QED BY <2>1, LeastLength
    <2>3. i \in 1..n /\ ~(Listed(f[i]) /\ From(f[i], i)) /\ Listed(s[i])
      BY <2>2 DEF Lists
    <2>4. f[i] = IF i = 1 THEN s[i] ELSE f[i - 1] \o s[i]
      BY <1>3, <2>3 DEF Joins
    <2>5. CASE i = 1
      BY <2>3, <2>4, <2>5
    <2>6. CASE i # 1
      <3>1. i - 1 \in 1..n /\ i - 1 < i
        BY <2>3, <2>6
      <3>2. Listed(f[i - 1]) /\ From(f[i - 1], i - 1)
        BY <2>2, <3>1
      <3> DEFINE a == f[i - 1]
                 b == s[i]
                 c == f[i]
      <3>3. /\ Listed(c) /\ DOMAIN a = 1..Len(a) /\ DOMAIN b = 1..Len(b) /\ DOMAIN c = 1..(Len(a) + Len(b))
            /\ Len(a) \in Nat /\ Len(b) \in Nat
            /\ (\A j \in 1..Len(a) : c[j] = a[j]) /\ \A j \in 1..Len(b) : c[Len(a) + j] = b[j]
        <4>1. c = a \o b /\ Listed(a) /\ Listed(b)
          BY <2>3, <2>4, <2>6, <3>2
        <4> HIDE DEF a, b, c
        <4> QED BY <4>1, ListedConcat
      <3>4. ASSUME NEW j \in DOMAIN c PROVE \E l \in 1..i : \E h \in DOMAIN s[l] : c[j] = s[l][h]
        <4>1. CASE j <= Len(a)
          <5>1. j \in DOMAIN a /\ c[j] = a[j]
            BY <3>3, <3>4, <4>1
          <5>2. \E l \in 1..(i - 1) : \E h \in DOMAIN s[l] : a[j] = s[l][h]
            BY <3>2, <5>1
          <5>3. \A l \in 1..(i - 1) : l \in 1..i
            BY <2>3
          <5> HIDE DEF a, c
          <5> QED BY <5>1, <5>2, <5>3
        <4>2. CASE ~(j <= Len(a))
          <5>1. j - Len(a) \in 1..Len(b) /\ Len(a) + (j - Len(a)) = j
            <6>1. j \in 1..(Len(a) + Len(b))
              BY <3>3, <3>4
            <6> HIDE DEF a, b, c
            <6> QED BY <3>3, <4>2, <6>1
          <5>2. j - Len(a) \in DOMAIN b /\ c[j] = b[j - Len(a)] /\ i \in 1..i
            BY <2>3, <3>3, <5>1
          <5> HIDE DEF a, c
          <5> QED BY <5>2
        <4> QED BY <4>1, <4>2
      <3> QED BY <2>3, <3>3, <3>4
    <2> QED BY <2>5, <2>6
  <1>5. n \in 1..n
    BY <1>1, <1>2
  <1>6. From(f[n], n)
    BY <1>4, <1>5
  <1> QED BY <1>3, <1>6

LEMMA GatheredKept ==
    ASSUME NEW s, NEW t, Gathered(s), SameRead(t, s)
    PROVE  Gathered(t)
  <1>1. \A b : ManifestClosesIt(s, b) => ManifestClosesIt(t, b)
    BY DEF SameRead, ManifestClosesIt
  <1>2. /\ t.accepted = s.accepted /\ t.terminal = s.terminal /\ t.sums = s.sums
        /\ t.refs = s.refs /\ t.keys = s.keys /\ t.tables = s.tables /\ t.trees = s.trees
    BY DEF SameRead
  <1> QED BY <1>1, <1>2 DEF Gathered

LEMMA GatheredMore ==
    ASSUME NEW s, NEW t, NEW b, Gathered(s), ~s.terminal, BatchFits(b), b.index = Len(s.sums),
           t.accepted = Append(s.accepted, b), t.terminal <=> b.last,
           t.sums = Append(s.sums, SummaryOf(b)),
           t.refs = IF b.version = "1.1" THEN s.refs \o b.refs ELSE s.refs,
           t.keys = s.keys \cup IF b.version = "1.1" THEN {b.refs[i] : i \in DOMAIN b.refs} ELSE RefsOf(b),
           WithSegments(s.tables, TableSegments(b)).ok,
           t.tables = WithSegments(s.tables, TableSegments(b)).known,
           WithSegments(s.trees, TreeSegments(b)).ok,
           t.trees = WithSegments(s.trees, TreeSegments(b)).known,
           b.last => ManifestClosesIt(t, b)
    PROVE  Gathered(t)
  <1> DEFINE A == s.accepted
             B == t.accepted
             n == Len(A)
  <1>1. /\ Numbered(A) /\ s.sums = [i \in DOMAIN A |-> SummaryOf(A[i])]
        /\ \A i \in DOMAIN A : ~A[i].last
        /\ s.refs = FlattenSeq(RefParts(A)) /\ s.keys = UNION {KeysGiven(A[i]) : i \in DOMAIN A}
        /\ s.tables = Entries(FlattenSeq(TableParts(A))) /\ InTurn(FlattenSeq(TableParts(A)))
        /\ s.trees = Entries(FlattenSeq(TreeParts(A))) /\ InTurn(FlattenSeq(TreeParts(A)))
    BY DEF Gathered
  <1>2. Listed(s.sums) /\ Len(s.sums) = n /\ n \in Nat /\ DOMAIN A = 1..n
    <2>1. n \in Nat /\ DOMAIN A = 1..n
      BY <1>1 DEF Numbered, Listed
    <2>2. s.sums = [i \in 1..n |-> s.sums[i]]
      BY <1>1, <2>1
    <2> QED BY <2>1, <2>2, ListIsListed
  <1>3. B = Append(A, b) /\ b.index = n
    BY <1>2
  <1>4. /\ Numbered(B) /\ Len(B) = n + 1 /\ B[n + 1] = b
        /\ DOMAIN B = 1..(n + 1) /\ \A i \in 1..n : B[i] = A[i]
    BY <1>1, <1>3, NumberedMore
  <1>5. /\ FlattenSeq(TableParts(B)) = FlattenSeq(TableParts(A)) \o TableSegments(b)
        /\ FlattenSeq(TreeParts(B)) = FlattenSeq(TreeParts(A)) \o TreeSegments(b)
        /\ FlattenSeq(RefParts(B)) = FlattenSeq(RefParts(A)) \o RefsGiven(b)
        /\ Listed(FlattenSeq(TableParts(A))) /\ Listed(FlattenSeq(TreeParts(A)))
        /\ Listed(TableSegments(b)) /\ Listed(TreeSegments(b)) /\ Listed(FlattenSeq(RefParts(A)))
    <2>1. Numbered(A) /\ BatchFits(b) /\ b.index = Len(A) /\ B = Append(A, b)
      BY <1>1, <1>3
    <2> HIDE DEF A, B, n
    <2> QED BY <2>1, PartsGrow
  <1> HIDE DEF A, B, n
  <1>6. t.sums = [i \in DOMAIN B |-> SummaryOf(B[i])]
    <2> DEFINE f == t.sums
               g == [i \in 1..(n + 1) |-> SummaryOf(B[i])]
    <2>1. Listed(f) /\ Len(f) = n + 1
      BY <1>2, AppendListed
    <2>2. g = [i \in 1..(n + 1) |-> g[i]] /\ \A i \in 1..(n + 1) : g[i] = SummaryOf(B[i])
      OBVIOUS
    <2>3. s.sums \in Seq({s.sums[i] : i \in 1..n})
      BY <1>2 DEF Listed
    <2>4. \A i \in 1..(n + 1) : f[i] = IF i = n + 1 THEN SummaryOf(b) ELSE s.sums[i]
      BY <1>2, <2>3
    <2>5. \A i \in 1..n : s.sums[i] = SummaryOf(A[i])
      BY <1>1, <1>2
    <2> HIDE DEF f, g
    <2>6. Listed(g) /\ Len(g) = n + 1
      BY <1>2, <2>2, ListIsListed
    <2>7. ASSUME NEW i \in 1..(n + 1) PROVE f[i] = g[i]
      <3>1. CASE i = n + 1
        BY <1>4, <2>2, <2>4, <3>1
      <3>2. CASE i # n + 1
        <4>1. i \in 1..n
          BY <1>2, <3>2
        <4> QED BY <1>4, <2>2, <2>4, <2>5, <3>2, <4>1
      <3> QED BY <3>1, <3>2
    <2>8. f = g
      BY <2>1, <2>6, <2>7, ListsEqual
    <2> QED BY <1>4, <2>8 DEF f, g
  <1>7. \A i \in DOMAIN B : B[i].last => i = Len(B) /\ t.terminal
    <2> SUFFICES ASSUME NEW i \in 1..(n + 1), B[i].last PROVE i = n + 1 /\ t.terminal
      BY <1>4
    <2>1. i \notin 1..n
      BY <1>1, <1>2, <1>4
    <2>2. i = n + 1
      BY <1>2, <2>1
    <2> QED BY <1>4, <2>2
  <1>8. t.terminal => B # <<>> /\ B[Len(B)].last /\ ManifestClosesIt(t, B[Len(B)])
    BY <1>2, <1>4
  <1>9. t.refs = FlattenSeq(RefParts(B))
    <2>1. CASE b.version = "1.1"
      BY <1>1, <1>5, <2>1 DEF RefsGiven
    <2>2. CASE b.version # "1.1"
      <3>1. FlattenSeq(RefParts(B)) = FlattenSeq(RefParts(A)) \o <<>>
        BY <1>5, <2>2 DEF RefsGiven
      <3> DEFINE q == FlattenSeq(RefParts(A))
      <3>2. q \in Seq({q[i] : i \in 1..Len(q)})
        BY <1>5 DEF Listed
      <3> HIDE DEF q
      <3>3. q \o <<>> = q
        BY <3>2, ConcatEmptySeq
      <3> QED BY <1>1, <2>2, <3>1, <3>3 DEF q
    <2> QED BY <2>1, <2>2
  <1>10. t.keys = UNION {KeysGiven(B[i]) : i \in DOMAIN B}
    <2>1. t.keys = s.keys \cup KeysGiven(b)
      BY DEF KeysGiven
    <2>2. \A i \in 1..n : KeysGiven(B[i]) = KeysGiven(A[i])
      BY <1>4
    <2>3. 1..(n + 1) = 1..n \cup {n + 1}
      BY <1>2
    <2>4. {KeysGiven(B[i]) : i \in 1..(n + 1)} = {KeysGiven(A[i]) : i \in 1..n} \cup {KeysGiven(b)}
      BY <1>4, <2>2, <2>3
    <2>5. UNION {KeysGiven(B[i]) : i \in 1..(n + 1)} = s.keys \cup KeysGiven(b)
      BY <1>1, <1>2, <2>4
    <2> QED BY <1>4, <2>1, <2>5
  <1>11. t.tables = Entries(FlattenSeq(TableParts(B))) /\ InTurn(FlattenSeq(TableParts(B)))
    BY <1>1, <1>5, FollowMore
  <1>12. t.trees = Entries(FlattenSeq(TreeParts(B))) /\ InTurn(FlattenSeq(TreeParts(B)))
    BY <1>1, <1>5, FollowMore
  <1> QED BY <1>4, <1>6, <1>7, <1>8, <1>9, <1>10, <1>11, <1>12 DEF Gathered, B

-----------------------------
(* What has been gathered up to the last batch is an extraction. *)

LEMMA KeysAreOfTheirBatch ==
    ASSUME NEW b, NEW r \in RefsOf(b)
    PROVE  r.batch = b.index
  BY DEF RefsOf, RefOf

LEMMA GatheredIsExtraction ==
    ASSUME NEW s, Gathered(s), s.terminal
    PROVE  IsExtraction(Last(s.accepted).manifest, s.accepted)
  <1> DEFINE A == s.accepted
             n == Len(A)
             last == A[n]
             m == last.manifest
  <1>1. /\ Numbered(A) /\ s.sums = [i \in DOMAIN A |-> SummaryOf(A[i])]
        /\ \A i \in DOMAIN A : A[i].last => i = n
        /\ A # <<>> /\ last.last /\ ManifestClosesIt(s, last)
        /\ s.refs = FlattenSeq(RefParts(A)) /\ s.keys = UNION {KeysGiven(A[i]) : i \in DOMAIN A}
        /\ s.tables = Entries(FlattenSeq(TableParts(A))) /\ InTurn(FlattenSeq(TableParts(A)))
        /\ s.trees = Entries(FlattenSeq(TreeParts(A))) /\ InTurn(FlattenSeq(TreeParts(A)))
    BY DEF Gathered
  <1>2. n \in Nat \ {0} /\ DOMAIN A = 1..n /\ n \in DOMAIN A /\ Last(A) = last
    BY <1>1 DEF Numbered, Listed, Last
  <1>3. \A i \in 1..n : A[i].index = i - 1 /\ BatchFits(A[i])
    BY <1>1, <1>2 DEF Numbered
  <1>4. /\ Lists(TableParts(A)) /\ Lists(TreeParts(A)) /\ Lists(RefParts(A))
    BY <1>1, PartsAreLists
  <1>5. Listed(FlattenSeq(TableParts(A))) /\ Listed(FlattenSeq(TreeParts(A))) /\ Listed(FlattenSeq(RefParts(A)))
    <2>1. Listed(<<>>)
      BY DEF Listed
    <2> QED BY <1>4, <2>1, FlattenAppend
  <1> HIDE DEF A, n, last, m
  <1>6. ManifestFits(m) /\ ManifestHas(m, last)
    BY <1>1, <1>2, <1>3 DEF BatchFits, m, last
  <1>7. /\ m.sums = s.sums
        /\ IF last.version = "1.1" THEN m.index = s.refs
           ELSE {m.index[i] : i \in DOMAIN m.index} \subseteq s.keys
        /\ AllClosed(s.tables) /\ AllClosed(s.trees)
    BY <1>1 DEF ManifestClosesIt, m
  <1>8. Len(m.sums) = n /\ DOMAIN m.sums = 1..n /\ \A i \in 1..n : m.sums[i] = SummaryOf(A[i])
    <2>1. s.sums = [i \in 1..n |-> s.sums[i]] /\ \A i \in 1..n : s.sums[i] = SummaryOf(A[i])
      BY <1>1, <1>2
    <2>2. Len(s.sums) = n /\ DOMAIN s.sums = 1..n
      BY <1>2, <2>1, ListIsListed
    <2> QED BY <1>7, <2>1, <2>2
  <1>9. SegmentsFollow(FlattenSeq(TableParts(A))) /\ SegmentsFollow(FlattenSeq(TreeParts(A)))
    BY <1>1, <1>5, <1>7, FollowedToTheEnd
  <1>10. last.version = m.version
    BY <1>6 DEF ManifestHas
  <1>11. \A i \in 1..n : A[i].version = m.version
    <2> TAKE i \in 1..n
    <2>1. m.sums[i].records = A[i].records
      <3>1. m.sums[i] = SummaryOf(A[i])
        BY <1>8
      <3>2. SummaryOf(A[i]).records = A[i].records
        BY DEF SummaryOf
      <3> QED BY <3>1, <3>2
    <2>2. /\ m.version = "1.1" => A[i].records # Missing
          /\ m.version = "1.0" => A[i].records = Missing
          /\ m.version \in {"1.0", "1.1"}
      BY <1>6, <1>8, <2>1 DEF ManifestFits
    <2>3. \/ A[i].version = "1.1" /\ A[i].records # Missing
          \/ A[i].version = "1.0" /\ A[i].records = Missing
      BY <1>3 DEF BatchFits, SchemaFits
    <2> QED BY <2>2, <2>3
  <1>12. m.version = "1.1" => m.index = FlattenSeq(RefParts(A))
    BY <1>1, <1>7, <1>10
  <1>13. ASSUME NEW r \in {m.index[i] : i \in DOMAIN m.index}
         PROVE  \E i \in 1..n : r \in RefsOf(A[i])
    <2>1. \E i \in 1..n : r \in KeysGiven(A[i])
      <3>1. CASE last.version # "1.1"
        <4>1. r \in s.keys
          BY <1>7, <1>13, <3>1
        <4> QED BY <1>1, <1>2, <4>1
      <3>2. CASE last.version = "1.1"
        <4> DEFINE F == FlattenSeq(RefParts(A))
        <4>1. PICK k \in DOMAIN F : r = F[k]
          BY <1>1, <1>7, <1>13, <3>2
        <4>2. \E i \in 1..n : \E j \in DOMAIN RefsGiven(A[i]) : r = RefsGiven(A[i])[j]
          <5>1. Len(RefParts(A)) = n
            BY <1>1, PartsAreLists DEF n
          <5>2. \E i \in 1..n : \E j \in DOMAIN RefParts(A)[i] : F[k] = RefParts(A)[i][j]
            BY <1>2, <1>4, <4>1, <5>1, FlattenedFrom
          <5>3. \A i \in 1..n : RefParts(A)[i] = RefsGiven(A[i])
            BY <1>2 DEF RefParts
          <5> QED BY <4>1, <5>2, <5>3
        <4> QED BY <1>10, <1>11, <3>2, <4>2 DEF RefsGiven, KeysGiven
      <3> QED BY <3>1, <3>2
    <2>2. \A i \in 1..n : KeysGiven(A[i]) \subseteq RefsOf(A[i])
      BY <1>3 DEF KeysGiven, BatchFits
    <2> QED BY <2>1, <2>2
  <1>14. ASSUME NEW i \in 1..n PROVE ManifestHas(m, A[i])
    <2>1. A[i].version = m.version /\ A[i].index = i - 1 /\ i - 1 < n /\ m.sums[(i - 1) + 1] = SummaryOf(A[i])
      <3>1. (i - 1) + 1 = i /\ i - 1 < n
        BY <1>2
      <3> QED BY <1>3, <1>8, <1>11, <3>1
    <2>2. A[i].last <=> i - 1 = n - 1
      <3>1. CASE i = n
        BY <1>1, <3>1 DEF last
      <3>2. CASE i # n
        BY <1>1, <1>2, <3>2
      <3> QED BY <3>1, <3>2
    <2>3. A[i].last => A[i].manifest = m
      BY <1>1, <1>2 DEF m, last
    <2>4. ASSUME NEW r \in RefsIn(m, i - 1) PROVE r \in RefsOf(A[i])
      <3>1. r \in {m.index[k] : k \in DOMAIN m.index} /\ r.batch = i - 1
        BY <2>4 DEF RefsIn
      <3>2. PICK j \in 1..n : r \in RefsOf(A[j])
        BY <1>13, <3>1
      <3>3. r.batch = j - 1
        BY <1>3, <3>2, KeysAreOfTheirBatch
      <3>4. j = i
        BY <1>2, <3>1, <3>3
      <3> QED BY <3>2, <3>4
    <2> QED BY <1>8, <2>1, <2>2, <2>3, <2>4 DEF ManifestHas
  <1>15. m.version = "1.1" => m.index = FlattenSeq([i \in DOMAIN A |-> A[i].refs])
    <2> SUFFICES ASSUME m.version = "1.1" PROVE RefParts(A) = [i \in DOMAIN A |-> A[i].refs]
      BY <1>12
    <2> QED BY <1>2, <1>11 DEF RefParts, RefsGiven
  <1>16. IsExtraction(m, A)
    BY <1>2, <1>3, <1>8, <1>9, <1>14, <1>15 DEF IsExtraction, TableParts, TreeParts, n
  <1> QED BY <1>2, <1>16 DEF m, A

LEMMA NothingGathered == Gathered(NewStream)
  <1> DEFINE none == <<>>
  <1>1. /\ NewStream.accepted = none /\ NewStream.terminal = FALSE /\ NewStream.sums = none
        /\ NewStream.refs = none /\ NewStream.keys = {} /\ NewStream.tables = none
        /\ NewStream.trees = none
    BY DEF NewStream
  <1>2. DOMAIN none = {} /\ Len(none) = 0 /\ Listed(none)
    BY DEF Listed
  <1>3. \A f : f = [i \in {} |-> f[i]] => f = none
    <2> SUFFICES ASSUME NEW f, f = [i \in {} |-> f[i]] PROVE f = none
      OBVIOUS
    <2>1. {} = 1..0
      OBVIOUS
    <2>2. Listed(f) /\ Len(f) = 0
      BY <2>1, ListIsListed
    <2> QED BY <1>2, <2>2, ListsEqual
  <1> DEFINE a == TableParts(none)
             b == TreeParts(none)
             c == RefParts(none)
             d == [i \in DOMAIN none |-> SummaryOf(none[i])]
             e == Entries(none)
  <1>4. /\ a = [i \in {} |-> a[i]] /\ b = [i \in {} |-> b[i]] /\ c = [i \in {} |-> c[i]]
        /\ d = [i \in {} |-> d[i]] /\ e = [i \in {} |-> e[i]]
    BY <1>2 DEF TableParts, TreeParts, RefParts, Entries
  <1> HIDE DEF a, b, c, d, e
  <1>5. a = none /\ b = none /\ c = none /\ d = none /\ e = none
    BY <1>3, <1>4
  <1>6. FlattenSeq(a) = none /\ FlattenSeq(b) = none /\ FlattenSeq(c) = none
    BY <1>5, EmptyFlattened
  <1>7. Numbered(none) /\ InTurn(none) /\ UNION {KeysGiven(none[i]) : i \in DOMAIN none} = {}
    BY <1>2 DEF Numbered, InTurn
  <1>8. e = Entries(none) /\ a = TableParts(none) /\ b = TreeParts(none) /\ c = RefParts(none)
        /\ d = [i \in DOMAIN none |-> SummaryOf(none[i])]
    BY DEF a, b, c, d, e
  <1> HIDE DEF none
  <1> QED BY <1>1, <1>2, <1>5, <1>6, <1>7, <1>8 DEF Gathered

(* A batch that goes through is gathered. *)
LEMMA ReadBatchGathers ==
    ASSUME StreamInv, NEW x \in Streams, NEW b, ReadBatch(x, b), Gathered(st[x])
    PROVE  Gathered(st'[x])
  <1> DEFINE s == st[x]
             taken == Taken(x, b)
             t == [taken EXCEPT !.lock = Missing]
  <1>1. IsStream(s) /\ DOMAIN st = Streams
    BY DEF StreamInv, StreamFits, StreamTypes
  <1>2. \/ \E why : CleansUp(x, why)
        \/ /\ ~s.terminal /\ BatchBelongs(x, b) /\ (b.last => ManifestClosesIt(taken, b))
           /\ st' = [st EXCEPT ![x] = t]
    BY DEF ReadBatch
  <1>3. CASE \E why : CleansUp(x, why)
    <2>1. st' = [st EXCEPT ![x] = [s EXCEPT !.closing = TRUE]]
      BY <1>3 DEF CleansUp
    <2>2. SameRead([s EXCEPT !.closing = TRUE], s)
      BY <1>1, ClosingEdited
    <2>3. st'[x] = [s EXCEPT !.closing = TRUE]
      BY <1>1, <2>1
    <2> QED BY <2>2, <2>3, GatheredKept
  <1>4. CASE /\ ~s.terminal /\ BatchBelongs(x, b) /\ (b.last => ManifestClosesIt(taken, b))
             /\ st' = [st EXCEPT ![x] = t]
    <2>1. /\ IsStream(taken) /\ taken.terminal = b.last /\ taken.accepted = Append(s.accepted, b)
          /\ taken.sums = Append(s.sums, SummaryOf(b))
          /\ taken.refs = IF b.version = "1.1" THEN s.refs \o b.refs ELSE s.refs
          /\ taken.keys = s.keys \cup IF b.version = "1.1" THEN {b.refs[i] : i \in DOMAIN b.refs}
                                      ELSE RefsOf(b)
          /\ taken.tables = TablesAfter(x, b).known /\ taken.trees = TreesAfter(x, b).known
      BY <1>1, TakenIs
    <2>2. /\ BatchFits(b) /\ b.index = Len(s.sums)
          /\ WithSegments(s.tables, TableSegments(b)).ok /\ WithSegments(s.trees, TreeSegments(b)).ok
      BY <1>4 DEF BatchBelongs, TablesAfter, TreesAfter
    <2>3. /\ TablesAfter(x, b).known = WithSegments(s.tables, TableSegments(b)).known
          /\ TreesAfter(x, b).known = WithSegments(s.trees, TreeSegments(b)).known
      BY DEF TablesAfter, TreesAfter
    <2>4. st'[x] = t
      BY <1>1, <1>4
    <2> HIDE DEF taken
    <2>5. Gathered(taken)
      <3> HIDE DEF s
      <3> QED BY <1>4, <2>1, <2>2, <2>3, GatheredMore DEF s
    <2>6. SameRead(t, taken)
      BY <2>1, LockEdited
    <2> HIDE DEF t
    <2> QED BY <2>4, <2>5, <2>6, GatheredKept
  <1> QED BY <1>2, <1>3, <1>4

AllGathered == \A x \in Streams : Gathered(st[x])

LEMMA StepGathers ==
    ASSUME StreamInv, AllGathered, [StreamNext]_streamVars
    PROVE  AllGathered'
  <1> SUFFICES ASSUME NEW x \in Streams PROVE Gathered(st'[x])
    BY DEF AllGathered
  <1>1. Gathered(st[x])
    BY DEF AllGathered
  <1>2. CASE \E b \in Emits(st[x].accepted) : ReadBatch(x, b)
    BY <1>1, <1>2, ReadBatchGathers
  <1>3. CASE ~\E b \in Emits(st[x].accepted) : ReadBatch(x, b)
    BY <1>1, <1>3, SteadyStep, GatheredKept
  <1> QED BY <1>2, <1>3

(* What a consumer got up to the last batch is an extraction, as the        *)
(* manifest itself would judge it: whatever a parser yields, in the order   *)
(* it yields it, the counts, references and segments of the batches that    *)
(* went through one by one fit together (_validate_batch, validate_batches). *)
THEOREM ReadIsExtraction == StreamSpec => []AcceptedIsExtraction
  <1>1. StreamInit => AllGathered
    BY NothingGathered DEF StreamInit, AllGathered
  <1>2. StreamInv /\ AllGathered /\ [StreamNext]_streamVars => AllGathered'
    BY StepGathers
  <1>3. StreamInv /\ AllGathered => AcceptedIsExtraction
    BY GatheredIsExtraction DEF StreamInv, StreamFits, Read, AllGathered, AcceptedIsExtraction
  <1> QED BY <1>1, <1>2, <1>3, StreamInvariant, PTL DEF StreamSpec

-----------------------------
(* One metadata file. *)

Inode == [kind : {"regular", "link"}, time : Nat, holds : Seq(Pieces)]

StatusOf == [ino : Inodes, size : Nat, time : Nat]

Handled == {"fstat", "read", "fstat again"}

ReadFields == {"pc", "header", "expected", "fd", "before", "got", "result"}

FileTypes ==
    /\ inode \in [Inodes -> Inode] /\ filetime \in Nat /\ dir \in Inodes \cup {NoFile}
    /\ DOMAIN seenAs = Inodes /\ \A i \in Inodes : inode[i].time <= filetime /\ inode[i].holds \in seenAs[i]

IsRead(r) == DOMAIN r = ReadFields /\ r = [f \in ReadFields |-> r[f]]

ReadTypes ==
    /\ IsRead(read) /\ read.got \in Seq(Pieces) /\ read.header \in BOOLEAN
    /\ read.pc \in Handled \cup {"stat", "open", "done"}

(* What was read so far is the beginning of what the file holds, and all of *)
(* it, or all up to the blank line, once the reader asks again.             *)
GotOf(held) ==
    /\ Len(read.got) <= Len(held) /\ \A k \in 1..Len(read.got) : read.got[k] = held[k]
    /\ read.pc = "fstat again" =>
         \/ Len(read.got) = Len(held)
         \/ read.header /\ read.got # <<>> /\ Last(read.got) = "blank"

(* That holds as long as the file has the time it had in the beginning;     *)
(* whoever writes to it later, gives it a later one.                        *)
Stamped ==
    read.pc \in {"read", "fstat again"} =>
        /\ read.before \in StatusOf /\ read.before.ino = read.fd /\ read.before.time <= filetime
        /\ inode[read.fd].time = read.before.time => GotOf(inode[read.fd].holds)

OnItsWay ==
    /\ read.pc = "open" => read.expected \in Inodes
    /\ read.pc \in Handled => read.fd \in Inodes
    /\ read.pc \in {"stat", "open", "fstat"} => read.got = <<>>
    /\ read.pc # "done" => read.result # "ok"

FileInv == FileTypes /\ ReadTypes /\ Stamped /\ OnItsWay /\ OneRevision

LEMMA PrefixIs ==
    ASSUME NEW s \in Seq(Pieces), NEW t \in Seq(Pieces), Len(s) <= Len(t),
           \A k \in 1..Len(s) : s[k] = t[k]
    PROVE  IsPrefix(s, t) /\ (Len(s) = Len(t) => s = t)
  <1>1. IsPrefix(s, t)
    BY DEF IsPrefix
  <1>2. Len(s) = Len(t) => s = t
    OBVIOUS
  <1> QED BY <1>1, <1>2

LEMMA FileStarts == DiscoveryInit => FileInv
  <1> SUFFICES ASSUME DiscoveryInit PROVE FileInv
    OBVIOUS
  <1>1. ASSUME NEW i \in Inodes PROVE inode[i] \in Inode /\ inode[i].time = 0
    <2>1. /\ inode \in [Inodes -> [kind : {"regular", "link"}, time : {0},
                                   holds : UNION {[1..n -> Pieces] : n \in 0..(MaxPieces + 1)}]]
      BY DEF DiscoveryInit
    <2>2. PICK n \in 0..(MaxPieces + 1) : inode[i].holds \in [1..n -> Pieces]
      BY <2>1
    <2>3. n \in Nat
      BY <2>2, DiscoveryAssumption
    <2>4. inode[i].holds \in Seq(Pieces)
      BY <2>2, <2>3
    <2> QED BY <2>1, <2>4 DEF Inode
  <1>2. inode \in [Inodes -> Inode]
    BY <1>1 DEF DiscoveryInit
  <1>3. PICK header \in BOOLEAN : read = [NewRead EXCEPT !.header = header]
    BY DEF DiscoveryInit
  <1>4. /\ DOMAIN read = ReadFields /\ read.pc = "stat" /\ read.header = header
        /\ read.got = <<>> /\ read.result = "none"
    BY <1>3 DEF NewRead, ReadFields
  <1>5. read = [f \in ReadFields |-> read[f]]
    <2>1. read = [f \in DOMAIN read |-> read[f]]
      BY <1>3 DEF NewRead
    <2> QED BY <2>1, <1>4
  <1>6. FileTypes
    BY <1>1, <1>2 DEF DiscoveryInit, FileTypes
  <1>7. ReadTypes
    BY <1>4, <1>5 DEF ReadTypes, IsRead
  <1>8. Stamped /\ OnItsWay /\ OneRevision
    BY <1>4 DEF Stamped, OnItsWay, OneRevision, Handled
  <1> QED BY <1>6, <1>7, <1>8 DEF FileInv

LEMMA TimeGoesOn ==
    ASSUME filetime \in Nat, filetime' = filetime + 1
    PROVE  filetime' \in Nat /\ \A n \in Nat : n <= filetime => n <= filetime'
  OBVIOUS

(* What others do to the files. *)
LEMMA FilesChange ==
    ASSUME FileInv, UNCHANGED read,
           (\E i \in Inodes, h \in FileContents : WriteInPlace(i, h)) \/ \E i \in Inodes \cup {NoFile} : Rename(i)
    PROVE  FileInv'
  <1> USE DEF FileInv
  <1>0. ReadTypes' /\ OnItsWay'
    BY DEF ReadTypes, OnItsWay
  <1>1. CASE \E i \in Inodes \cup {NoFile} : Rename(i)
    <2>1. PICK i \in Inodes \cup {NoFile} : Rename(i) BY <1>1
    <2>2. UNCHANGED <<inode, seenAs>> /\ filetime' = filetime + 1 /\ dir' = i
      BY <2>1 DEF Rename
    <2>3. FileTypes'
      <3>1. filetime \in Nat /\ \A j \in Inodes : inode[j].time \in Nat /\ inode[j].time <= filetime
        BY DEF FileTypes, Inode
      <3>2. \A j \in Inodes : inode[j].time <= filetime'
        BY <2>2, <3>1
      <3> QED BY <2>2, <3>1, <3>2 DEF FileTypes
    <2>4. OneRevision'
      BY <2>2 DEF OneRevision
    <2>5. read.pc \in {"read", "fstat again"} => read.before.time \in Nat /\ filetime \in Nat
      BY DEF FileTypes, Stamped, StatusOf
    <2>6. Stamped'
      <3>1. read.pc \in {"read", "fstat again"} => read.before.time <= filetime'
        BY <2>2, <2>5, TimeGoesOn DEF Stamped
      <3> QED BY <2>2, <3>1 DEF Stamped, GotOf
    <2> QED BY <1>0, <2>3, <2>4, <2>6
  <1>2. CASE \E i \in Inodes, h \in FileContents : WriteInPlace(i, h)
    <2>1. PICK i \in Inodes, h \in FileContents : WriteInPlace(i, h) BY <1>2
    <2>2. /\ filetime' = filetime + 1 /\ inode' = [inode EXCEPT ![i].holds = h, ![i].time = filetime']
          /\ seenAs' = [seenAs EXCEPT ![i] = @ \cup {h}] /\ UNCHANGED dir
      BY <2>1 DEF WriteInPlace
    <2>3. h \in Seq(Pieces)
      <3>1. PICK n \in 0..MaxPieces : h \in [1..n -> Pieces]
        BY DEF FileContents
      <3> QED BY <3>1, DiscoveryAssumption
    <2>4. filetime \in Nat /\ filetime' \in Nat
      BY <2>2 DEF FileTypes
    <2>5. inode' = [inode EXCEPT ![i] = [inode[i] EXCEPT !.holds = h, !.time = filetime']]
      BY <2>2
    <2>6. [inode[i] EXCEPT !.holds = h, !.time = filetime'] \in Inode
      BY <2>3, <2>4 DEF FileTypes, Inode
    <2>7. /\ \A j \in Inodes \ {i} : inode'[j] = inode[j] /\ seenAs'[j] = seenAs[j]
          /\ inode'[i].time = filetime' /\ inode'[i].holds = h
          /\ seenAs'[i] = seenAs[i] \cup {h} /\ DOMAIN seenAs' = Inodes
      BY <2>2, <2>4, <2>5 DEF FileTypes, Inode
    <2>8. inode' \in [Inodes -> Inode]
      BY <2>4, <2>5, <2>6 DEF FileTypes
    <2>9. FileTypes'
      BY <2>2, <2>4, <2>7, <2>8 DEF FileTypes, Inode
    <2>10. OneRevision'
      <3>1. \A j : seenAs[j] \subseteq seenAs'[j]
        BY <2>2 DEF FileTypes
      <3> QED BY <3>1 DEF OneRevision
    <2>11. ASSUME read.pc \in {"read", "fstat again"} PROVE Stamped'
      <3>1. /\ read.before \in StatusOf /\ read.before.time <= filetime /\ read.before.time \in Nat
            /\ read.fd \in Inodes /\ read.before.ino = read.fd
            /\ inode[read.fd].time = read.before.time => GotOf(inode[read.fd].holds)
        BY <2>11 DEF Stamped, OnItsWay, StatusOf, Handled
      <3>2. read.before.time < filetime'
        BY <3>1, <2>2, <2>4
      <3>3. read.fd = i => inode'[read.fd].time # read.before.time
        BY <3>2, <2>7, <2>4, <3>1
      <3>4. inode'[read.fd].time = read.before.time => GotOf(inode'[read.fd].holds)
        BY <3>1, <3>3, <2>7
      <3>5. read.before.time <= filetime'
        BY <3>1, <3>2, <2>4
      <3> QED BY <3>1, <3>4, <3>5 DEF Stamped, GotOf
    <2>12. Stamped'
      BY <2>11 DEF Stamped
    <2> QED BY <1>0, <2>9, <2>10, <2>12
  <1> QED BY <1>1, <1>2

(* What a step of the reader changes of what it knows. *)
LEMMA StopsEdited ==
    ASSUME NEW r, IsRead(r), NEW why
    PROVE  LET q == [r EXCEPT !.pc = "done", !.result = why]
           IN  /\ IsRead(q) /\ q.pc = "done" /\ q.result = why
               /\ q.got = r.got /\ q.header = r.header /\ q.fd = r.fd
  BY DEF IsRead, ReadFields

LEMMA ExpectsEdited ==
    ASSUME NEW r, IsRead(r), NEW i
    PROVE  LET q == [r EXCEPT !.pc = "open", !.expected = i]
           IN  /\ IsRead(q) /\ q.pc = "open" /\ q.expected = i /\ q.result = r.result
               /\ q.got = r.got /\ q.header = r.header
  BY DEF IsRead, ReadFields

LEMMA OpenEdited ==
    ASSUME NEW r, IsRead(r), NEW i
    PROVE  LET q == [r EXCEPT !.pc = "fstat", !.fd = i]
           IN  /\ IsRead(q) /\ q.pc = "fstat" /\ q.fd = i /\ q.result = r.result
               /\ q.got = r.got /\ q.header = r.header
  BY DEF IsRead, ReadFields

LEMMA BeforeEdited ==
    ASSUME NEW r, IsRead(r), NEW status
    PROVE  LET q == [r EXCEPT !.pc = "read", !.before = status]
           IN  /\ IsRead(q) /\ q.pc = "read" /\ q.before = status /\ q.result = r.result
               /\ q.got = r.got /\ q.header = r.header /\ q.fd = r.fd
  BY DEF IsRead, ReadFields

WithGot(r, got, pc) == [r EXCEPT !.got = got, !.pc = pc]

LEMMA GotEdited ==
    ASSUME NEW r, IsRead(r), NEW got, NEW pc
    PROVE  LET q == WithGot(r, got, pc)
           IN  /\ IsRead(q) /\ q.pc = pc /\ q.got = got /\ q.result = r.result
               /\ q.before = r.before /\ q.header = r.header /\ q.fd = r.fd
  BY DEF IsRead, ReadFields, WithGot

FilesStay == UNCHANGED <<inode, dir, filetime, seenAs>>

(* Only a file that has not changed since is said to have been read. *)
LEMMA StopsKeeps ==
    ASSUME FileInv, FilesStay, NEW why, ReadStops(why),
           why = "ok" => read.pc = "fstat again" /\ inode[read.fd].time = read.before.time
    PROVE  FileInv'
  <1> USE DEF FileInv
  <1>1. /\ IsRead(read') /\ read'.pc = "done" /\ read'.result = why
        /\ read'.got = read.got /\ read'.header = read.header /\ read'.fd = read.fd
    <2>1. IsRead(read)
      BY DEF ReadTypes
    <2>2. read' = [read EXCEPT !.pc = "done", !.result = why]
      BY DEF ReadStops
    <2> HIDE DEF FileInv
    <2> QED BY <2>1, <2>2, StopsEdited
  <1>2. FileTypes'
    BY DEF FileTypes, FilesStay
  <1>3. ReadTypes' /\ Stamped' /\ OnItsWay'
    BY <1>1 DEF ReadTypes, Stamped, OnItsWay, Handled
  <1>4. OneRevision'
    <2> SUFFICES ASSUME why = "ok" PROVE OneRevision'
      BY <1>1 DEF OneRevision
    <2> DEFINE held == inode[read.fd].holds
    <2>1. read.pc = "fstat again" /\ read.fd \in Inodes /\ GotOf(held) /\ read.got \in Seq(Pieces)
      BY DEF Stamped, OnItsWay, Handled, ReadTypes
    <2>2. held \in Seq(Pieces) /\ held \in seenAs'[read.fd]
      BY <2>1 DEF FileTypes, Inode, FilesStay
    <2> HIDE DEF held
    <2>3. IsPrefix(read.got, held)
      BY <2>1, <2>2, PrefixIs DEF GotOf
    <2>4. Len(read.got) = Len(held) => read.got = held
      BY <2>1, <2>2, PrefixIs DEF GotOf
    <2>5. \/ read.got = held
          \/ read.header /\ read.got # <<>> /\ Last(read.got) = "blank"
      BY <2>1, <2>4 DEF GotOf
    <2> QED BY <1>1, <2>2, <2>3, <2>5 DEF OneRevision
  <1> QED BY <1>2, <1>3, <1>4

LEMMA StatKeeps == ASSUME FileInv, Stat PROVE FileInv'
  <1> USE DEF FileInv
  <1>1. FilesStay /\ read.pc = "stat"
    BY DEF Stat, FilesStay
  <1>2. CASE \E why \in {"missing", "metadata_path_unsafe", "size_limit"} : ReadStops(why)
    BY <1>1, <1>2, StopsKeeps
  <1>3. CASE dir # NoFile /\ read' = [read EXCEPT !.pc = "open", !.expected = dir]
    <2>1. /\ IsRead(read') /\ read'.pc = "open" /\ read'.expected = dir /\ read'.result = read.result
          /\ read'.got = read.got /\ read'.header = read.header
      BY <1>3, ExpectsEdited DEF ReadTypes
    <2>2. FileTypes' /\ dir \in Inodes
      BY <1>1, <1>3 DEF FileTypes, FilesStay
    <2> QED BY <1>1, <2>1, <2>2 DEF ReadTypes, Stamped, OnItsWay, OneRevision, Handled
  <1> QED BY <1>2, <1>3 DEF Stat

LEMMA OpenKeeps == ASSUME FileInv, Open PROVE FileInv'
  <1> USE DEF FileInv
  <1>1. FilesStay /\ read.pc = "open"
    BY DEF Open, FilesStay
  <1>2. CASE \E why \in {"metadata_changed_during_read", "metadata_path_unsafe"} : ReadStops(why)
    BY <1>1, <1>2, StopsKeeps
  <1>3. CASE dir # NoFile /\ read' = [read EXCEPT !.pc = "fstat", !.fd = dir]
    <2>1. /\ IsRead(read') /\ read'.pc = "fstat" /\ read'.fd = dir /\ read'.result = read.result
          /\ read'.got = read.got /\ read'.header = read.header
      BY <1>3, OpenEdited DEF ReadTypes
    <2>2. FileTypes' /\ dir \in Inodes
      BY <1>1, <1>3 DEF FileTypes, FilesStay
    <2> QED BY <1>1, <2>1, <2>2 DEF ReadTypes, Stamped, OnItsWay, OneRevision, Handled
  <1> QED BY <1>2, <1>3 DEF Open

LEMMA FstatKeeps == ASSUME FileInv, FstatBefore PROVE FileInv'
  <1> USE DEF FileInv
  <1> DEFINE status == FileStatus(read.fd)
  <1>1. FilesStay /\ read.pc = "fstat"
    BY DEF FstatBefore, FilesStay
  <1>2. CASE \E why \in {"metadata_changed_during_read", "size_limit"} : ReadStops(why)
    BY <1>1, <1>2, StopsKeeps
  <1>3. CASE read' = [read EXCEPT !.pc = "read", !.before = status]
    <2>1. read.fd \in Inodes /\ read.got = <<>>
      BY <1>1 DEF OnItsWay, Handled
    <2>2. /\ status \in StatusOf /\ status.ino = read.fd /\ status.time = inode[read.fd].time
          /\ status.time <= filetime
      BY <2>1 DEF FileStatus, StatusOf, FileTypes, Inode
    <2> HIDE DEF status
    <2>3. /\ IsRead(read') /\ read'.pc = "read" /\ read'.before = status /\ read'.result = read.result
          /\ read'.got = read.got /\ read'.header = read.header /\ read'.fd = read.fd
      BY <1>3, BeforeEdited DEF ReadTypes
    <2>4. FileTypes'
      BY <1>1 DEF FileTypes, FilesStay
    <2>5. Len(inode[read.fd].holds) \in Nat
      BY <2>1 DEF FileTypes, Inode
    <2>6. ReadTypes' /\ OnItsWay' /\ OneRevision'
      BY <1>1, <2>1, <2>3 DEF ReadTypes, OnItsWay, OneRevision, Handled
    <2>7. GotOf(inode[read.fd].holds)'
      BY <1>1, <2>1, <2>3, <2>5 DEF GotOf, FilesStay
    <2>8. Stamped'
      BY <1>1, <2>2, <2>3, <2>7 DEF Stamped, FilesStay
    <2> QED BY <2>4, <2>6, <2>8
  <1> QED BY <1>2, <1>3 DEF FstatBefore

LEMMA ReadPieceKeeps == ASSUME FileInv, ReadPiece PROVE FileInv'
  <1> USE DEF FileInv
  <1> DEFINE held == inode[read.fd].holds
             at   == Len(read.got) + 1
             more == at <= Len(held)
             got  == IF more THEN Append(read.got, held[at]) ELSE read.got
             ends == read.header /\ more /\ Last(got) = "blank"
             pc   == IF more /\ ~ends THEN "read" ELSE "fstat again"
  <1>1. FilesStay /\ read.pc = "read"
    BY DEF ReadPiece, FilesStay
  <1>2. CASE ReadStops("size_limit")
    BY <1>1, <1>2, StopsKeeps
  <1>3. CASE read' = [read EXCEPT !.got = got, !.pc = pc]
    <2>1. /\ read.fd \in Inodes /\ held \in Seq(Pieces) /\ read.got \in Seq(Pieces) /\ Len(read.got) \in Nat
          /\ read.before \in StatusOf /\ read.before.ino = read.fd /\ read.before.time <= filetime
          /\ inode[read.fd].time = read.before.time => GotOf(held)
      BY <1>1 DEF Stamped, OnItsWay, Handled, ReadTypes, FileTypes, Inode
    <2>2. got \in Seq(Pieces) /\ (more => got # <<>> /\ Len(got) = Len(read.got) + 1)
      <3>1. CASE more
        <4>1. held[at] \in Pieces
          BY <2>1, <3>1
        <4> HIDE DEF held
        <4>2. got = Append(read.got, held[at])
          BY <3>1
        <4>3. got \in Seq(Pieces) /\ Len(got) = Len(read.got) + 1
          BY <2>1, <4>1, <4>2
        <4> QED BY <2>1, <4>3
      <3>2. CASE ~more
        BY <2>1, <3>2
      <3> QED BY <3>1, <3>2
    <2>3. inode[read.fd].time = read.before.time =>
            /\ Len(got) <= Len(held) /\ \A k \in 1..Len(got) : got[k] = held[k]
            /\ ~more => Len(got) = Len(held)
      <3> SUFFICES ASSUME inode[read.fd].time = read.before.time
                   PROVE  /\ Len(got) <= Len(held) /\ \A k \in 1..Len(got) : got[k] = held[k]
                          /\ ~more => Len(got) = Len(held)
        OBVIOUS
      <3>1. Len(read.got) <= Len(held) /\ \A k \in 1..Len(read.got) : read.got[k] = held[k]
        BY <2>1 DEF GotOf
      <3>2. Len(held) \in Nat
        BY <2>1
      <3> HIDE DEF held
      <3>3. CASE more
        BY <2>1, <3>1, <3>2, <3>3
      <3>4. CASE ~more
        BY <2>1, <3>1, <3>2, <3>4
      <3> QED BY <3>3, <3>4
    <2>4. pc \in {"read", "fstat again"} /\ (pc = "fstat again" => ~more \/ ends)
      OBVIOUS
    <2>5. ends => read.header /\ got # <<>> /\ Last(got) = "blank"
      BY <2>2
    <2> HIDE DEF got, pc, ends, more, at
    <2>6. /\ IsRead(read') /\ read'.pc = pc /\ read'.got = got /\ read'.result = read.result
          /\ read'.before = read.before /\ read'.header = read.header /\ read'.fd = read.fd
      <3>1. IsRead(read)
        BY DEF ReadTypes
      <3>2. read' = WithGot(read, got, pc)
        BY <1>3 DEF WithGot
      <3> QED BY <3>1, <3>2, GotEdited
    <2>7. FileTypes'
      BY <1>1 DEF FileTypes, FilesStay
    <2>8. ReadTypes' /\ OnItsWay' /\ OneRevision'
      BY <1>1, <2>1, <2>2, <2>4, <2>6 DEF ReadTypes, OnItsWay, OneRevision, Handled
    <2>9. inode[read.fd].time = read.before.time => GotOf(inode[read.fd].holds)'
      BY <1>1, <2>3, <2>4, <2>5, <2>6 DEF GotOf, FilesStay
    <2>10. Stamped'
      BY <1>1, <2>1, <2>6, <2>9 DEF Stamped, FilesStay
    <2> QED BY <2>7, <2>8, <2>10
  <1> QED BY <1>2, <1>3 DEF ReadPiece

LEMMA FileStep ==
    ASSUME FileInv, [DiscoveryNext]_discoveryVars
    PROVE  FileInv'
  <1>1. CASE (\E i \in Inodes, h \in FileContents : WriteInPlace(i, h)) \/ \E i \in Inodes \cup {NoFile} : Rename(i)
    <2>1. UNCHANGED read
      BY <1>1 DEF WriteInPlace, Rename
    <2> QED BY <1>1, <2>1, FilesChange
  <1>2. CASE ReadUnreadable
    BY <1>2, StopsKeeps DEF ReadUnreadable, FilesStay
  <1>3. CASE FstatAfter
    <2>1. CASE Unchanged(read.fd) /\ ReadStops("ok")
      <3>1. inode[read.fd].time = read.before.time
        BY <2>1 DEF Unchanged, FileStatus
      <3> QED BY <1>3, <2>1, <3>1, StopsKeeps DEF FstatAfter, FilesStay
    <2>2. CASE ReadStops("metadata_changed_during_read")
      BY <1>3, <2>2, StopsKeeps DEF FstatAfter, FilesStay
    <2> QED BY <1>3, <2>1, <2>2 DEF FstatAfter
  <1>4. CASE UNCHANGED discoveryVars
    BY <1>4 DEF discoveryVars, FileInv, FileTypes, ReadTypes, Stamped, GotOf, OnItsWay, OneRevision
  <1> QED BY <1>1, <1>2, <1>3, <1>4, StatKeeps, OpenKeeps, FstatKeeps, ReadPieceKeeps DEF DiscoveryNext

-----------------------------
(* What the distributions claim. *)

IsInstallation(ds) ==
    /\ ds \in Seq({ds[i] : i \in DOMAIN ds})
    /\ \A i \in DOMAIN ds : ds[i].entries \in Seq({ds[i].entries[k] : k \in DOMAIN ds[i].entries})

(* The claim of one entry, and whether it is one. *)
ClaimAt(ds, i, k) == [at |-> <<i, k>>, is |-> Candidate(ds[i].name, ds[i].entries[k])]

Stands(ds, i, k) ==
    /\ i \in DOMAIN ds /\ Readable(ds[i]) /\ k \in DOMAIN ds[i].entries
    /\ ds[i].entries[k].group = "parsers" /\ ~Bad(ds[i].entries[k])

LEMMA CandidatesAre ==
    ASSUME NEW ds, NEW c
    PROVE  c \in CandidatesOf(ds) <=> \E i, k : Stands(ds, i, k) /\ c = ClaimAt(ds, i, k)
  BY DEF CandidatesOf, Stands, ClaimAt

(* A list has finitely many elements: there is no least length for which it *)
(* had not.                                                                 *)
LEMMA ListedIsFinite ==
    ASSUME NEW g, NEW n \in Nat
    PROVE  IsFiniteSet({g[k] : k \in 1..n})
  <1> DEFINE Part(m) == {g[k] : k \in 1..m}
             Bigger == {m \in Nat : ~IsFiniteSet(Part(m))}
  <1> SUFFICES ASSUME n \in Bigger PROVE FALSE
    OBVIOUS
  <1>1. Bigger \in SUBSET Nat /\ Bigger # {}
    OBVIOUS
  <1>2. PICK m \in Bigger : \A l \in Bigger : ~(l < m)
    <2> HIDE DEF Bigger
    <2> QED BY <1>1, LeastLength
  <1>3. m # 0
    <2>1. Part(0) = {}
      OBVIOUS
    <2> QED BY <2>1, FS_EmptySet
  <1>4. m \in Nat /\ m - 1 \in Nat /\ m - 1 < m
    BY <1>3
  <1>5. IsFiniteSet(Part(m - 1))
    BY <1>2, <1>4
  <1>6. Part(m) = Part(m - 1) \cup {g[m]}
    <2>1. 1..m = (1..(m - 1)) \cup {m}
      BY <1>3, <1>4
    <2> QED BY <2>1
  <1> HIDE DEF Part
  <1>7. IsFiniteSet(Part(m))
    BY <1>5, <1>6, FS_AddElement
  <1> QED BY <1>7

LEMMA CandidatesAreFinite ==
    ASSUME NEW ds, IsInstallation(ds)
    PROVE  IsFiniteSet(CandidatesOf(ds))
  <1> DEFINE Of(i) == {ClaimAt(ds, i, k) : k \in DOMAIN ds[i].entries}
             all   == {Of(i) : i \in DOMAIN ds}
  <1>1. ASSUME NEW i \in DOMAIN ds PROVE IsFiniteSet(Of(i))
    <2> DEFINE n == Len(ds[i].entries)
               g == [k \in 1..n |-> ClaimAt(ds, i, k)]
    <2>1. DOMAIN ds[i].entries = 1..n /\ n \in Nat
      BY DEF IsInstallation
    <2>2. Of(i) = {g[k] : k \in 1..n}
      BY <2>1
    <2> HIDE DEF g, n, Of
    <2> QED BY <2>1, <2>2, ListedIsFinite
  <1>2. IsFiniteSet(all)
    <2> DEFINE n == Len(ds)
               g == [i \in 1..n |-> Of(i)]
    <2> HIDE DEF Of
    <2>1. DOMAIN ds = 1..n /\ n \in Nat
      BY DEF IsInstallation
    <2>2. all = {g[k] : k \in 1..n}
      BY <2>1
    <2> HIDE DEF g, n, all
    <2> QED BY <2>1, <2>2, ListedIsFinite
  <1>3. IsFiniteSet(UNION all)
    <2>1. \A T \in all : IsFiniteSet(T)
      BY <1>1
    <2> HIDE DEF all
    <2> QED BY <1>2, <2>1, FS_UNION
  <1>4. CandidatesOf(ds) \subseteq UNION all
    BY DEF CandidatesOf, ClaimAt
  <1> HIDE DEF all
  <1> QED BY <1>3, <1>4, FS_Subset

-----------------------------
(* The report as what follows from a set of claims. *)

AcceptedOf(rest) ==
    {c.is : c \in {c \in rest : Cardinality({d \in rest : d.is.id < c.is.id}) < MaxEntries}}

FailuresOf(all) ==
    {Failure(c.is.distribution, c.is.id, "duplicate_adapter_id") : c \in SharesId(all)}
    \cup {Failure(c.is.distribution, c.is.id, "duplicate_target") : c \in SharesTarget(all \ SharesId(all))}
    \cup {Failure(c.is.distribution, c.is.id, "entry_limit_exceeded") :
            c \in {c \in Unique(all) : c.is \notin AcceptedOf(Unique(all))}}

LEMMA ReportIs ==
    ASSUME NEW ds
    PROVE  /\ Accepted(ds) = AcceptedOf(Unique(CandidatesOf(ds)))
           /\ ReportOf(ds) = [descriptors |-> Accepted(ds),
                              failures |-> Rejected(ds) \cup FailuresOf(CandidatesOf(ds))]
  <1>1. Accepted(ds) = AcceptedOf(Unique(CandidatesOf(ds)))
    BY DEF Accepted, AcceptedOf
  <1> QED BY <1>1 DEF ReportOf, FailuresOf

(* The same claims at other places. *)
Moves(A, B, f) ==
    /\ f \in [A -> B] /\ \A a \in A : f[a].is = a.is
    /\ \A a, b \in A : f[a] = f[b] => a = b
    /\ \A b \in B : \E a \in A : f[a] = b

LEMMA PartMoves ==
    ASSUME NEW A, NEW B, NEW f, Moves(A, B, f), NEW S \in SUBSET A, NEW T \in SUBSET B,
           \A a \in A : a \in S <=> f[a] \in T
    PROVE  Moves(S, T, [a \in S |-> f[a]])
  BY DEF Moves

LEMMA SharedMove ==
    ASSUME NEW A, NEW B, NEW f, Moves(A, B, f)
    PROVE  /\ \A a \in A : a \in SharesId(A) <=> f[a] \in SharesId(B)
           /\ \A a \in A : a \in SharesTarget(A) <=> f[a] \in SharesTarget(B)
  BY DEF Moves, SharesId, SharesTarget

LEMMA MovedAlike ==
    ASSUME NEW A, NEW B, NEW f, Moves(A, B, f), IsFiniteSet(A), IsFiniteSet(B)
    PROVE  Cardinality(B) = Cardinality(A)
  <1>1. Cardinality(A) \in Nat /\ Cardinality(B) \in Nat
    BY FS_CardinalityType
  <1>2. ~(Cardinality(B) < Cardinality(A))
    <2>1. f \in [A -> B] /\ ~\E x, y \in A : x # y /\ f[x] = f[y]
      BY DEF Moves
    <2> QED BY <2>1, FS_PigeonHole
  <1>3. ~(Cardinality(A) < Cardinality(B))
    <2> DEFINE g == [b \in B |-> CHOOSE a \in A : f[a] = b]
    <2>1. \A b \in B : g[b] \in A /\ f[g[b]] = b
      BY DEF Moves
    <2>2. g \in [B -> A] /\ ~\E x, y \in B : x # y /\ g[x] = g[y]
      BY <2>1
    <2> HIDE DEF g
    <2> QED BY <2>2, FS_PigeonHole
  <1> QED BY <1>1, <1>2, <1>3

(* Who gets something depends on the claims, not on where they are. *)
LEMMA AcceptedMove ==
    ASSUME NEW A, NEW B, NEW f, Moves(A, B, f), IsFiniteSet(A), IsFiniteSet(B)
    PROVE  AcceptedOf(B) = AcceptedOf(A)
  <1> DEFINE Below(S, id) == {d \in S : d.is.id < id}
  <1>1. ASSUME NEW id PROVE Cardinality(Below(B, id)) = Cardinality(Below(A, id))
    <2>1. \A a \in A : a \in Below(A, id) <=> f[a] \in Below(B, id)
      BY DEF Moves
    <2>0. Below(A, id) \subseteq A /\ Below(B, id) \subseteq B
      OBVIOUS
    <2>2. Moves(Below(A, id), Below(B, id), [a \in Below(A, id) |-> f[a]])
      <3> HIDE DEF Below
      <3> QED BY <2>0, <2>1, PartMoves
    <2>3. IsFiniteSet(Below(A, id)) /\ IsFiniteSet(Below(B, id))
      <3> HIDE DEF Below
      <3> QED BY <2>0, FS_Subset
    <2> QED BY <2>2, <2>3, MovedAlike
  <1>2. \A S : AcceptedOf(S) = {c.is : c \in {c \in S : Cardinality(Below(S, c.is.id)) < MaxEntries}}
    BY DEF AcceptedOf
  <1> HIDE DEF Below
  <1>3. \A x : x \in AcceptedOf(A) => x \in AcceptedOf(B)
    BY <1>1, <1>2 DEF Moves
  <1>4. \A x : x \in AcceptedOf(B) => x \in AcceptedOf(A)
    BY <1>1, <1>2 DEF Moves
  <1> QED BY <1>3, <1>4

LEMMA ReportMoves ==
    ASSUME NEW A, NEW B, NEW f, Moves(A, B, f), IsFiniteSet(A), IsFiniteSet(B)
    PROVE  AcceptedOf(Unique(B)) = AcceptedOf(Unique(A)) /\ FailuresOf(B) = FailuresOf(A)
  <1> DEFINE A1 == A \ SharesId(A)
             B1 == B \ SharesId(B)
             f1 == [a \in A1 |-> f[a]]
             A2 == A1 \ SharesTarget(A1)
             B2 == B1 \ SharesTarget(B1)
             f2 == [a \in A2 |-> f1[a]]
  <1>1. Moves(SharesId(A), SharesId(B), [a \in SharesId(A) |-> f[a]])
    <2>1. SharesId(A) \subseteq A /\ SharesId(B) \subseteq B
      BY DEF SharesId
    <2> QED BY <2>1, SharedMove, PartMoves
  <1>2. Moves(A1, B1, f1)
    <2>1. \A a \in A : a \in A1 <=> f[a] \in B1
      BY SharedMove DEF Moves
    <2> QED BY <2>1, PartMoves
  <1>3. Moves(SharesTarget(A1), SharesTarget(B1), [a \in SharesTarget(A1) |-> f1[a]])
    <2>1. SharesTarget(A1) \subseteq A1 /\ SharesTarget(B1) \subseteq B1
      BY DEF SharesTarget
    <2> HIDE DEF A1, B1, f1
    <2> QED BY <1>2, <2>1, SharedMove, PartMoves
  <1>4. Moves(A2, B2, f2)
    <2> HIDE DEF A1, B1, f1
    <2>1. \A a \in A1 : a \in A2 <=> f1[a] \in B2
      BY <1>2, SharedMove DEF Moves
    <2> QED BY <1>2, <2>1, PartMoves
  <1>5. Unique(A) = A2 /\ Unique(B) = B2
    BY DEF Unique
  <1>6. IsFiniteSet(A2) /\ IsFiniteSet(B2)
    BY FS_Subset
  <1>7. AcceptedOf(B2) = AcceptedOf(A2)
    <2> HIDE DEF A2, B2, f2
    <2> QED BY <1>4, <1>6, AcceptedMove
  <1> DEFINE Over(S, acc) == {c \in S : c.is \notin acc}
             Said(S, why) == {Failure(c.is.distribution, c.is.id, why) : c \in S}
  <1>8. ASSUME NEW S, NEW T, NEW g, Moves(S, T, g), NEW why PROVE Said(S, why) = Said(T, why)
    BY <1>8 DEF Moves
  <1>9. Moves(Over(A2, AcceptedOf(A2)), Over(B2, AcceptedOf(A2)), [a \in Over(A2, AcceptedOf(A2)) |-> f2[a]])
    <2> DEFINE acc == AcceptedOf(A2)
    <2> HIDE DEF A2, B2, f2, acc
    <2>1. \A a \in A2 : a \in Over(A2, acc) <=> f2[a] \in Over(B2, acc)
      BY <1>4 DEF Moves
    <2>2. Over(A2, acc) \in SUBSET A2 /\ Over(B2, acc) \in SUBSET B2
      OBVIOUS
    <2>3. Moves(Over(A2, acc), Over(B2, acc), [a \in Over(A2, acc) |-> f2[a]])
      <3> HIDE DEF Over
      <3> QED BY <1>4, <2>1, <2>2, PartMoves
    <2> QED BY <2>3 DEF acc
  <1>10. \A all : FailuresOf(all) = Said(SharesId(all), "duplicate_adapter_id")
                     \cup Said(SharesTarget(all \ SharesId(all)), "duplicate_target")
                     \cup Said(Over(Unique(all), AcceptedOf(Unique(all))), "entry_limit_exceeded")
    BY DEF FailuresOf
  <1>11. /\ Said(SharesId(A), "duplicate_adapter_id") = Said(SharesId(B), "duplicate_adapter_id")
         /\ Said(SharesTarget(A1), "duplicate_target") = Said(SharesTarget(B1), "duplicate_target")
         /\ Said(Over(A2, AcceptedOf(A2)), "entry_limit_exceeded")
              = Said(Over(B2, AcceptedOf(A2)), "entry_limit_exceeded")
    <2> HIDE DEF Said, Over, A1, A2, B1, B2, f1, f2
    <2> QED BY <1>1, <1>3, <1>8, <1>9
  <1> HIDE DEF Said, Over
  <1> QED BY <1>5, <1>7, <1>10, <1>11

-----------------------------
(* The order of the policy. *)

LEMMA ReverseIs ==
    ASSUME NEW ds, IsInstallation(ds)
    PROVE  /\ DOMAIN Reverse(ds) = DOMAIN ds /\ DOMAIN ds = 1..Len(ds) /\ Len(ds) \in Nat
           /\ Len(Reverse(ds)) = Len(ds)
           /\ \A i \in DOMAIN ds : Len(ds) + 1 - i \in DOMAIN ds /\ Reverse(ds)[i] = ds[Len(ds) + 1 - i]
           /\ IsInstallation(Reverse(ds))
  <1> DEFINE n == Len(ds)
             r == Reverse(ds)
  <1>1. DOMAIN ds = 1..n /\ n \in Nat
    BY DEF IsInstallation
  <1>2. r = [i \in 1..n |-> ds[(n - i) + 1]]
    BY DEF Reverse
  <1>3. \A i \in 1..n : (n - i) + 1 \in 1..n /\ (n - i) + 1 = n + 1 - i
    BY <1>1
  <1>4. DOMAIN r = 1..n /\ \A i \in 1..n : r[i] = ds[n + 1 - i]
    BY <1>2, <1>3
  <1>5. r \in Seq({r[i] : i \in DOMAIN r}) /\ Len(r) = n
    <2>1. r \in [1..n -> {r[i] : i \in DOMAIN r}]
      <3> HIDE DEF n
      <3> QED BY <1>2
    <2> QED BY <1>1, <1>4, <2>1
  <1>6. \A i \in 1..n : r[i].entries \in Seq({r[i].entries[k] : k \in DOMAIN r[i].entries})
    <2> TAKE i \in 1..n
    <2> DEFINE l == n + 1 - i
    <2>1. l \in DOMAIN ds /\ r[i] = ds[l]
      BY <1>1, <1>3, <1>4
    <2>2. ds[l].entries \in Seq({ds[l].entries[k] : k \in DOMAIN ds[l].entries})
      BY <2>1 DEF IsInstallation
    <2> HIDE DEF l, r
    <2> QED BY <2>1, <2>2
  <1>7. IsInstallation(r)
    <2> HIDE DEF r
    <2> QED BY <1>1, <1>4, <1>5, <1>6 DEF IsInstallation
  <1> QED BY <1>1, <1>3, <1>4, <1>5, <1>7

LEMMA ReversedMove ==
    ASSUME NEW ds, IsInstallation(ds)
    PROVE  \E f : Moves(CandidatesOf(ds), CandidatesOf(Reverse(ds)), f)
  <1> DEFINE n == Len(ds)
             r == Reverse(ds)
             A == CandidatesOf(ds)
             B == CandidatesOf(r)
             f == [c \in A |-> [at |-> <<n + 1 - c.at[1], c.at[2]>>, is |-> c.is]]
  <1>1. /\ DOMAIN r = DOMAIN ds /\ DOMAIN ds = 1..n /\ n \in Nat
        /\ \A i \in DOMAIN ds : n + 1 - i \in DOMAIN ds /\ r[i] = ds[n + 1 - i]
    BY ReverseIs
  <1> HIDE DEF n, r
  <1>2. \A i \in DOMAIN ds : n + 1 - (n + 1 - i) = i
    BY <1>1
  <1>3. \A i, k : Stands(ds, i, k) => Stands(r, n + 1 - i, k) /\ ClaimAt(r, n + 1 - i, k).is = ClaimAt(ds, i, k).is
    BY <1>1, <1>2 DEF Stands, ClaimAt
  <1>4. \A i, k : Stands(r, i, k) => Stands(ds, n + 1 - i, k) /\ ClaimAt(ds, n + 1 - i, k).is = ClaimAt(r, i, k).is
    BY <1>1, <1>2 DEF Stands, ClaimAt
  <1>5. \A i, k : Stands(ds, i, k) => ClaimAt(ds, i, k) \in A /\ f[ClaimAt(ds, i, k)] = ClaimAt(r, n + 1 - i, k)
    <2> TAKE i, k
    <2> SUFFICES ASSUME Stands(ds, i, k)
                 PROVE  ClaimAt(ds, i, k) \in A /\ f[ClaimAt(ds, i, k)] = ClaimAt(r, n + 1 - i, k)
      OBVIOUS
    <2>1. ClaimAt(ds, i, k) \in A
      BY CandidatesAre
    <2>2. ClaimAt(ds, i, k).at = <<i, k>>
      BY DEF ClaimAt
    <2>3. f[ClaimAt(ds, i, k)] = [at |-> <<n + 1 - i, k>>, is |-> ClaimAt(ds, i, k).is]
      BY <2>1, <2>2
    <2>4. ClaimAt(r, n + 1 - i, k) = [at |-> <<n + 1 - i, k>>, is |-> ClaimAt(r, n + 1 - i, k).is]
      BY DEF ClaimAt
    <2> QED BY <1>3, <2>1, <2>3, <2>4
  <1>6. ASSUME NEW c \in A PROVE f[c] \in B /\ f[c].is = c.is
    <2>1. PICK i, k : Stands(ds, i, k) /\ c = ClaimAt(ds, i, k)
      BY CandidatesAre
    <2>2. f[c] = ClaimAt(r, n + 1 - i, k) /\ Stands(r, n + 1 - i, k)
      BY <1>3, <1>5, <2>1
    <2>3. ClaimAt(r, n + 1 - i, k) \in B
      BY <2>2, CandidatesAre
    <2> QED BY <2>2, <2>3
  <1>7. ASSUME NEW c \in A, NEW d \in A, f[c] = f[d] PROVE c = d
    <2>1. PICK i, k : Stands(ds, i, k) /\ c = ClaimAt(ds, i, k)
      BY CandidatesAre
    <2>2. PICK j, m : Stands(ds, j, m) /\ d = ClaimAt(ds, j, m)
      BY CandidatesAre
    <2>3. ClaimAt(r, n + 1 - i, k) = ClaimAt(r, n + 1 - j, m)
      <3> HIDE DEF f
      <3>1. f[c] = ClaimAt(r, n + 1 - i, k) /\ f[d] = ClaimAt(r, n + 1 - j, m)
        BY <1>5, <2>1, <2>2
      <3> QED BY <1>7, <3>1
    <2>4. n + 1 - i = n + 1 - j /\ k = m
      BY <2>3 DEF ClaimAt
    <2>5. i \in 1..n /\ j \in 1..n
      BY <1>1, <2>1, <2>2 DEF Stands
    <2> QED BY <1>1, <2>1, <2>2, <2>4, <2>5
  <1>8. ASSUME NEW d \in B PROVE \E c \in A : f[c] = d
    <2>1. PICK i, k : Stands(r, i, k) /\ d = ClaimAt(r, i, k)
      BY CandidatesAre
    <2>2. Stands(ds, n + 1 - i, k) /\ n + 1 - (n + 1 - i) = i
      BY <1>1, <1>2, <1>4, <2>1 DEF Stands
    <2>3. ClaimAt(ds, n + 1 - i, k) \in A /\ f[ClaimAt(ds, n + 1 - i, k)] = d
      BY <1>5, <2>1, <2>2
    <2> QED BY <2>3
  <1>9. f \in [A -> B]
    BY <1>6
  <1> HIDE DEF f, A, B
  <1>10. Moves(A, B, f)
    BY <1>6, <1>7, <1>8, <1>9 DEF Moves
  <1> QED BY <1>10 DEF A, B, r

LEMMA RejectedReversed ==
    ASSUME NEW ds, IsInstallation(ds)
    PROVE  Rejected(Reverse(ds)) = Rejected(ds)
  <1> DEFINE n == Len(ds)
             r == Reverse(ds)
             Of(x) == (IF ~Readable(x)
                         THEN {Failure(x.name, 0, IF x.state # "ok" THEN x.state
                                                  ELSE "distribution_entry_limit_exceeded")}
                         ELSE {Failure(x.name, x.entries[k].id,
                                       IF x.entries[k].id = 0 THEN "adapter_id_format" ELSE "target_format") :
                                 k \in {k \in DOMAIN x.entries : Bad(x.entries[k])}})
  <1>1. \A es : Rejected(es) = UNION {Of(es[i]) : i \in DOMAIN es}
    BY DEF Rejected
  <1>2. /\ DOMAIN r = DOMAIN ds /\ DOMAIN ds = 1..n /\ n \in Nat
        /\ \A i \in DOMAIN ds : n + 1 - i \in DOMAIN ds /\ r[i] = ds[n + 1 - i]
    BY ReverseIs
  <1> HIDE DEF Of, n, r
  <1>3. \A i \in DOMAIN ds : n + 1 - (n + 1 - i) = i
    BY <1>2
  <1>4. {r[i] : i \in DOMAIN r} = {ds[i] : i \in DOMAIN ds}
    BY <1>2, <1>3
  <1>5. {Of(r[i]) : i \in DOMAIN r} = {Of(ds[i]) : i \in DOMAIN ds}
    BY <1>2, <1>3
  <1> QED BY <1>1, <1>5 DEF r

LEMMA OrderDoesNotMatter ==
    ASSUME NEW ds, IsInstallation(ds)
    PROVE  ReportOf(Reverse(ds)) = ReportOf(ds)
  <1> DEFINE A == CandidatesOf(ds)
             B == CandidatesOf(Reverse(ds))
  <1>1. PICK f : Moves(A, B, f)
    BY ReversedMove
  <1>2. IsFiniteSet(A) /\ IsFiniteSet(B)
    BY CandidatesAreFinite, ReverseIs
  <1>3. AcceptedOf(Unique(B)) = AcceptedOf(Unique(A)) /\ FailuresOf(B) = FailuresOf(A)
    <2> HIDE DEF A, B
    <2> QED BY <1>1, <1>2, ReportMoves
  <1> QED BY <1>3, RejectedReversed, ReportIs

-----------------------------
(* One claim, one descriptor. *)

LEMMA AcceptedIs ==
    ASSUME NEW ds, NEW d \in Accepted(ds)
    PROVE  \E i, k : /\ Stands(ds, i, k) /\ d = ClaimAt(ds, i, k).is
                     /\ ClaimAt(ds, i, k) \in Unique(CandidatesOf(ds))
  <1>0. d \in AcceptedOf(Unique(CandidatesOf(ds)))
    BY ReportIs
  <1>1. PICK c \in Unique(CandidatesOf(ds)) : d = c.is
    BY <1>0 DEF AcceptedOf
  <1>2. c \in CandidatesOf(ds)
    BY DEF Unique
  <1> QED BY <1>1, <1>2, CandidatesAre

LEMMA NobodyElse ==
    ASSUME NEW all, NEW c \in Unique(all), NEW d \in all
    PROVE  /\ d.is.id = c.is.id => d = c
           /\ d \in Unique(all) /\ d.is.target = c.is.target => d = c
  BY DEF Unique, SharesId, SharesTarget

LEMMA ClaimsAreOne ==
    ASSUME NEW ds, NEW c \in Accepted(ds), NEW d \in Accepted(ds), c # d
    PROVE  c.id # d.id /\ c.target # d.target
  <1>1. PICK i, k : /\ Stands(ds, i, k) /\ c = ClaimAt(ds, i, k).is
                    /\ ClaimAt(ds, i, k) \in Unique(CandidatesOf(ds))
    BY AcceptedIs
  <1>2. PICK j, m : /\ Stands(ds, j, m) /\ d = ClaimAt(ds, j, m).is
                    /\ ClaimAt(ds, j, m) \in Unique(CandidatesOf(ds))
    BY AcceptedIs
  <1>3. ClaimAt(ds, j, m) \in CandidatesOf(ds)
    BY <1>2, CandidatesAre
  <1> QED BY <1>1, <1>2, <1>3, NobodyElse

(* What is left when one element is taken out. *)
LEMMA RemovedAre ==
    ASSUME NEW S, NEW ds \in Seq(S), NEW i \in DOMAIN ds
    PROVE  /\ DOMAIN RemoveAt(ds, i) = 1..(Len(ds) - 1)
           /\ \A j \in 1..(Len(ds) - 1) :
                RemoveAt(ds, i)[j] = IF j < i THEN ds[j] ELSE ds[j + 1]
  <1>1. i \in 1..Len(ds) /\ Len(ds) \in Nat /\ DOMAIN ds = 1..Len(ds)
    OBVIOUS
  <1> DEFINE a == SubSeq(ds, 1, i - 1)
             b == SubSeq(ds, i + 1, Len(ds))
             ab == a \o b
  <1>2. a \in Seq(S) /\ Len(a) = i - 1 /\ \A j \in 1..(i - 1) : a[j] = ds[j]
    BY <1>1
  <1>3. b \in Seq(S) /\ Len(b) = Len(ds) - i /\ \A j \in 1..(Len(ds) - i) : b[j] = ds[j + i]
    BY <1>1
  <1> HIDE DEF a, b, ab
  <1>4. /\ ab \in Seq(S) /\ Len(ab) = Len(a) + Len(b)
        /\ \A j \in 1..(Len(a) + Len(b)) : ab[j] = IF j <= Len(a) THEN a[j] ELSE b[j - Len(a)]
    BY <1>2, <1>3, ConcatProperties DEF ab
  <1>5. DOMAIN ab = 1..(Len(ds) - 1)
    <2>1. DOMAIN ab = 1..Len(ab)
      BY <1>4, LenProperties
    <2>2. Len(a) + Len(b) = Len(ds) - 1
      BY <1>1, <1>2, <1>3
    <2> QED BY <1>4, <2>1, <2>2
  <1>6. ASSUME NEW j \in 1..(Len(ds) - 1), j < i
        PROVE  ab[j] = ds[j]
    <2>1. j \in 1..(i - 1) /\ j <= Len(a) /\ j \in 1..(Len(a) + Len(b))
      BY <1>1, <1>2, <1>3, <1>6
    <2>2. ab[j] = a[j]
      BY <1>4, <2>1
    <2> QED BY <1>2, <2>1, <2>2
  <1>7. ASSUME NEW j \in 1..(Len(ds) - 1), ~(j < i)
        PROVE  ab[j] = ds[j + 1]
    <2> DEFINE l == j - (i - 1)
    <2>1. /\ l \in 1..(Len(ds) - i) /\ l + i = j + 1 /\ l = j - Len(a)
          /\ ~(j <= Len(a)) /\ j \in 1..(Len(a) + Len(b))
      BY <1>1, <1>2, <1>3, <1>7
    <2>2. ab[j] = b[l]
      BY <1>4, <2>1
    <2> QED BY <1>3, <2>1, <2>2
  <1>8. RemoveAt(ds, i) = ab
    BY DEF RemoveAt, a, b, ab
  <1> QED BY <1>5, <1>6, <1>7, <1>8

(* What is left when one distribution is not there. *)
LEMMA RemovedIs ==
    ASSUME NEW S, NEW ds \in Seq(S), NEW i \in DOMAIN ds
    PROVE  \A j \in DOMAIN RemoveAt(ds, i) :
             \E l \in DOMAIN ds : RemoveAt(ds, i)[j] = ds[l]
  <1>1. DOMAIN ds = 1..Len(ds) /\ Len(ds) \in Nat
    OBVIOUS
  <1>2. \A j \in 1..(Len(ds) - 1) : j \in DOMAIN ds /\ j + 1 \in DOMAIN ds
    BY <1>1
  <1> QED BY <1>2, RemovedAre

LEMMA ClaimsOnlyTake ==
    ASSUME NEW ds, IsInstallation(ds), NEW i \in DOMAIN ds,
           NEW c \in Accepted(ds), NEW d \in Accepted(RemoveAt(ds, i)), d.id = c.id
    PROVE  d = c
  <1> DEFINE rest == RemoveAt(ds, i)
  <1>1. PICK j, k : /\ Stands(ds, j, k) /\ c = ClaimAt(ds, j, k).is
                    /\ ClaimAt(ds, j, k) \in Unique(CandidatesOf(ds))
    BY AcceptedIs
  <1>2. PICK l, m : Stands(rest, l, m) /\ d = ClaimAt(rest, l, m).is
    BY AcceptedIs
  <1>3. PICK n \in DOMAIN ds : rest[l] = ds[n]
    BY <1>2, RemovedIs DEF Stands, IsInstallation
  <1> HIDE DEF rest
  <1>4. Stands(ds, n, m) /\ ClaimAt(ds, n, m).is = d
    BY <1>2, <1>3 DEF Stands, ClaimAt
  <1>5. ClaimAt(ds, n, m) \in CandidatesOf(ds)
    BY <1>4, CandidatesAre
  <1> QED BY <1>1, <1>4, <1>5, NobodyElse

LEMMA EveryReportIsFair ==
    ASSUME IsInstallation(installed)
    PROVE  ClaimsAreFair
  <1>1. ReportOf(Reverse(installed)) = ReportOf(installed)
    BY OrderDoesNotMatter
  <1>2. \A c, d \in Accepted(installed) : c # d => c.id # d.id /\ c.target # d.target
    BY ClaimsAreOne
  <1>3. ASSUME NEW i \in DOMAIN installed, NEW c \in Accepted(installed)
        PROVE  ~\E d \in Accepted(RemoveAt(installed, i)) : d.id = c.id /\ d # c
    BY ClaimsOnlyTake
  <1> QED BY <1>1, <1>2, <1>3 DEF ClaimsAreFair

DiscoveryInv == FileInv /\ installed \in Installations

LEMMA InstalledIsOne ==
    ASSUME NEW ds \in Installations
    PROVE  IsInstallation(ds)
  BY DiscoveryAssumption DEF IsInstallation

LEMMA InstalledStays ==
    ASSUME [DiscoveryNext]_discoveryVars
    PROVE  installed' = installed
  BY DEF DiscoveryNext, discoveryVars, WriteInPlace, Rename, Stat, Open, FstatBefore, ReadPiece,
         ReadUnreadable, FstatAfter

(* Whatever is written, replaced or found unreadable between two system     *)
(* calls of _read_bounded_metadata_file, what it returns is what one file   *)
(* held at one moment; and for every installation discover_parser_plugins   *)
(* reports the same in either order of the policy, accepts each identifier  *)
(* and each target once, and a distribution that is not there never changed *)
(* a descriptor of another (_remove_duplicate_claims).                      *)
THEOREM DiscoveryFindsSound == DiscoverySpec => []DiscoveryIsSound
  <1>1. DiscoveryInit => DiscoveryInv
    BY FileStarts DEF DiscoveryInv, DiscoveryInit
  <1>2. DiscoveryInv /\ [DiscoveryNext]_discoveryVars => DiscoveryInv'
    BY FileStep, InstalledStays DEF DiscoveryInv
  <1>3. DiscoveryInv => DiscoveryIsSound
    BY InstalledIsOne, EveryReportIsFair DEF DiscoveryInv, FileInv, DiscoveryIsSound
  <1> QED BY <1>1, <1>2, <1>3, PTL DEF DiscoverySpec

-----------------------------
(* The choice among parsers: Choice as what follows from a set. *)

Entrant(rs, ps, i) == [id |-> rs[i].id, priority |-> rs[i].priority, probe |-> ps[i]]

Entrants(rs, ps) == {Entrant(rs, ps, i) : i \in DOMAIN ps}

Eligible(all) == {c \in all : c.probe.kind = "result" /\ c.probe.supported}

Ahead(c, d) == Stronger(Evidence(c.probe), Evidence(d.probe))

Strongest(all) == {c \in Eligible(all) : ~\E d \in Eligible(all) : Ahead(d, c)}

IsBest(S, c) == c \in S /\ \A d \in S \ {c} : Preferred(c, d)

BestOf(S) == CHOOSE c \in S : \A d \in S \ {c} : Preferred(c, d)

FormatsOf(S) == {c.probe.format : c \in S}

Verdict(all) ==
    IF Eligible(all) = {}
      THEN Refused(IF \E c \in all : c.probe.kind = "unavailable"
                     THEN "PARSER_DEPENDENCY_UNAVAILABLE" ELSE "PARSER_UNSUPPORTED_FORMAT")
    ELSE IF Cardinality(FormatsOf(Strongest(all))) # 1 THEN Refused("PARSER_FORMAT_CONFLICT")
    ELSE [code |-> "ok", id |-> BestOf(Strongest(all)).id,
          warnings |-> WarningsOf(BestOf(Strongest(all)).probe)]

LEMMA ChoiceIs ==
    ASSUME NEW rs, NEW ps
    PROVE  Choice(rs, ps) = Verdict(Entrants(rs, ps))
  BY DEF Choice, Verdict, Entrants, Entrant, Eligible, Strongest, Ahead, BestOf, FormatsOf

(* Evidence is compared like a number of three binary digits. *)
LEMMA AheadIs ==
    ASSUME NEW p, NEW q
    PROVE  LET a(i) == p.signals[Strong[i]] = "match"
               b(i) == q.signals[Strong[i]] = "match"
           IN  Stronger(Evidence(p), Evidence(q)) <=>
                  \/ a(1) /\ ~b(1)
                  \/ (a(1) <=> b(1)) /\ a(2) /\ ~b(2)
                  \/ (a(1) <=> b(1)) /\ (a(2) <=> b(2)) /\ a(3) /\ ~b(3)
  <1> DEFINE e == Evidence(p)
             f == Evidence(q)
  <1>1. DOMAIN Strong = 1..3
    BY DEF Strong
  <1>2. /\ e = [i \in 1..3 |-> p.signals[Strong[i]] = "match"]
        /\ f = [i \in 1..3 |-> q.signals[Strong[i]] = "match"]
    BY <1>1 DEF Evidence
  <1> DEFINE a(i) == p.signals[Strong[i]] = "match"
             b(i) == q.signals[Strong[i]] = "match"
  <1>3. \A i \in 1..3 : e[i] = a(i) /\ f[i] = b(i)
    BY <1>2
  <1>4. 1..(1 - 1) = {} /\ 1..(2 - 1) = {1} /\ 1..(3 - 1) = {1, 2} /\ 1..3 = {1, 2, 3}
    OBVIOUS
  <1> HIDE DEF e, f
  <1>5. Stronger(e, f) <=> \/ e[1] /\ ~f[1]
                           \/ e[2] /\ ~f[2] /\ e[1] = f[1]
                           \/ e[3] /\ ~f[3] /\ e[1] = f[1] /\ e[2] = f[2]
    BY <1>1, <1>4, Zenon DEF Stronger
  <1>6. e[1] = a(1) /\ e[2] = a(2) /\ e[3] = a(3) /\ f[1] = b(1) /\ f[2] = b(2) /\ f[3] = b(3)
    BY <1>3, <1>4
  <1> HIDE DEF a, b
  <1>7. Stronger(e, f) <=> \/ a(1) /\ ~b(1)
                           \/ a(2) /\ ~b(2) /\ a(1) = b(1)
                           \/ a(3) /\ ~b(3) /\ a(1) = b(1) /\ a(2) = b(2)
    BY <1>5, <1>6
  <1> QED BY <1>7 DEF e, f, a, b

(* Who is ahead of one, is ahead of all that one is ahead of; and who is    *)
(* behind another, is behind all that are not behind that one.              *)
LEMMA AheadOrders ==
    ASSUME NEW c, NEW d, NEW e, Ahead(c, d)
    PROVE  /\ Ahead(d, e) => Ahead(c, e)
           /\ ~Ahead(e, d) => Ahead(c, e)
           /\ ~Ahead(d, c) /\ (c = d => FALSE)
  <1>1. /\ Stronger(Evidence(c.probe), Evidence(d.probe))
        /\ Ahead(d, e) <=> Stronger(Evidence(d.probe), Evidence(e.probe))
        /\ Ahead(e, d) <=> Stronger(Evidence(e.probe), Evidence(d.probe))
        /\ Ahead(c, e) <=> Stronger(Evidence(c.probe), Evidence(e.probe))
        /\ Ahead(d, c) <=> Stronger(Evidence(d.probe), Evidence(c.probe))
    BY DEF Ahead
  <1>2. c # d
    BY <1>1, AheadIs
  <1> QED BY <1>1, <1>2, AheadIs

(* Candidates that can be told apart, with what ProbeResult promises. *)
IsField(all) ==
    /\ IsFiniteSet(all)
    /\ \A c \in all : c.id \in Nat /\ c.priority \in Int /\ (c.probe.kind = "result" => c.probe \in ProbeResults)
    /\ \A c, d \in all : c.id = d.id => c = d

IsCandidate(c) == c.id \in Nat /\ c.priority \in Int /\ c.probe.confidence \in Nat

LEMMA PreferredOrders ==
    ASSUME NEW c, IsCandidate(c), NEW d, IsCandidate(d)
    PROVE  /\ ~(Preferred(c, d) /\ Preferred(d, c))
           /\ Preferred(c, d) \/ Preferred(d, c) \/ c.id = d.id
           /\ \A e : IsCandidate(e) /\ Preferred(c, d) /\ Preferred(d, e) => Preferred(c, e)
  BY DEF Preferred, IsCandidate

(* Some candidate comes first: among sets of which none does, there is no   *)
(* smallest.                                                                *)
LEMMA OneIsBest ==
    ASSUME NEW S, IsFiniteSet(S), S # {}, \A c \in S : IsCandidate(c),
           \A c, d \in S : c.id = d.id => c = d
    PROVE  \E c : IsBest(S, c)
  <1> DEFINE Lost(T) == T # {} /\ ~\E c : IsBest(T, c)
             sizes == {Cardinality(T) : T \in {T \in SUBSET S : Lost(T)}}
  <1> SUFFICES ASSUME Lost(S) PROVE FALSE
    OBVIOUS
  <1>1. \A T \in SUBSET S : IsFiniteSet(T) /\ Cardinality(T) \in Nat
    BY FS_Subset, FS_CardinalityType
  <1>2. sizes \in SUBSET Nat /\ sizes # {}
    BY <1>1
  <1>3. PICK T \in SUBSET S : Lost(T) /\ \A n \in sizes : ~(n < Cardinality(T))
    <2>1. PICK m \in sizes : \A n \in sizes : ~(n < m)
      <3> HIDE DEF sizes
      <3> QED BY <1>2, LeastLength
    <2> QED BY <2>1
  <1>4. PICK t \in T : TRUE
    BY <1>3
  <1> DEFINE U == T \ {t}
  <1>5. U \in SUBSET S /\ Cardinality(U) = Cardinality(T) - 1
    BY <1>1, <1>4, FS_RemoveElement
  <1>6. ~Lost(U)
    BY <1>1, <1>3, <1>5
  <1>7. CASE U = {}
    <2>1. IsBest(T, t)
      BY <1>4, <1>7 DEF IsBest
    <2> QED BY <1>3, <2>1
  <1>8. CASE U # {}
    <2>1. PICK b : IsBest(U, b)
      BY <1>6, <1>8
    <2>2. b \in S /\ t \in S /\ b # t /\ b \in T
      BY <1>4, <2>1 DEF IsBest
    <2>3. CASE Preferred(b, t)
      <3>1. IsBest(T, b)
        BY <2>1, <2>2, <2>3 DEF IsBest
      <3> QED BY <1>3, <3>1
    <2>4. CASE Preferred(t, b)
      <3>1. \A d \in T \ {t} : Preferred(t, d)
        BY <2>1, <2>2, <2>4, PreferredOrders DEF IsBest
      <3>2. IsBest(T, t)
        BY <1>4, <3>1 DEF IsBest
      <3> QED BY <1>3, <3>2
    <2> QED BY <2>2, <2>3, <2>4, PreferredOrders
  <1> QED BY <1>7, <1>8

(* ... and no other one does. *)
LEMMA BestIsOne ==
    ASSUME NEW S, \A c \in S : IsCandidate(c), NEW w, IsBest(S, w)
    PROVE  BestOf(S) = w
  <1>1. \A v : IsBest(S, v) => v = w
    BY PreferredOrders DEF IsBest
  <1>2. IsBest(S, BestOf(S))
    BY DEF IsBest, BestOf
  <1> QED BY <1>1, <1>2

LEMMA EligibleAre ==
    ASSUME NEW all, IsField(all)
    PROVE  /\ \A c \in Eligible(all) : IsCandidate(c) /\ c \in all
           /\ IsFiniteSet(Strongest(all)) /\ Strongest(all) \subseteq Eligible(all)
  <1>1. \A c \in Eligible(all) : IsCandidate(c) /\ c \in all
    BY DEF IsField, Eligible, IsCandidate, ProbeResults
  <1>2. Strongest(all) \subseteq Eligible(all) /\ Eligible(all) \subseteq all
    BY DEF Strongest, Eligible
  <1>3. IsFiniteSet(Strongest(all))
    BY <1>2, FS_Subset DEF IsField
  <1> QED BY <1>1, <1>2, <1>3

(* Formats are one as long as somebody is left. *)
LEMMA OneFormat ==
    ASSUME NEW S, IsFiniteSet(S), Cardinality(FormatsOf(S)) = 1, NEW T \in SUBSET S, T # {}
    PROVE  Cardinality(FormatsOf(T)) = 1
  <1>2. PICK x : FormatsOf(S) = {x}
    <2>1. IsFiniteSet(FormatsOf(S))
      <3> DEFINE f == [c \in S |-> c.probe.format]
      <3>1. f \in Surjection(S, FormatsOf(S))
        BY DEF Surjection, FormatsOf
      <3> QED BY <3>1, FS_Surjection
    <2> QED BY <2>1, FS_Singleton
  <1>3. FormatsOf(T) = {x}
    BY <1>2 DEF FormatsOf
  <1> QED BY <1>3, FS_Singleton

LEMMA SomebodyIsLeft ==
    ASSUME NEW S, Cardinality(FormatsOf(S)) = 1
    PROVE  S # {}
  <1>1. S = {} => FormatsOf(S) = {}
    BY DEF FormatsOf
  <1> QED BY <1>1, FS_EmptySet

-----------------------------
(* What the source claims about itself. *)

(* Two candidates of whom a choice says the same. *)
AlikeTo(c, d) ==
    /\ d.id = c.id /\ d.priority = c.priority /\ d.probe.kind = c.probe.kind
    /\ c.probe.kind = "result" =>
         /\ d.probe.supported = c.probe.supported /\ d.probe.confidence = c.probe.confidence
         /\ d.probe.format = c.probe.format /\ Evidence(d.probe) = Evidence(c.probe)

Follows(A, B, f) ==
    /\ f \in [A -> B] /\ \A a \in A : AlikeTo(a, f[a])
    /\ \A b \in B : \E a \in A : f[a] = b

LEMMA FollowersStand ==
    ASSUME NEW A, NEW B, NEW f, Follows(A, B, f)
    PROVE  /\ \A a \in A : a \in Eligible(A) <=> f[a] \in Eligible(B)
           /\ \A a \in A : a \in Strongest(A) <=> f[a] \in Strongest(B)
           /\ FormatsOf(Strongest(B)) = FormatsOf(Strongest(A))
  <1>1. \A a \in A : a \in Eligible(A) <=> f[a] \in Eligible(B)
    BY DEF Follows, AlikeTo, Eligible
  <1>2. \A a, b \in Eligible(A) : Ahead(a, b) <=> Ahead(f[a], f[b])
    BY DEF Follows, AlikeTo, Eligible, Ahead
  <1>3. Eligible(A) \subseteq A /\ Eligible(B) \subseteq B
    BY DEF Eligible
  <1>4. \A a \in A : a \in Strongest(A) <=> f[a] \in Strongest(B)
    <2> TAKE a \in A
    <2>1. a \in Strongest(A) <=> a \in Eligible(A) /\ \A c \in Eligible(A) : ~Ahead(c, a)
      BY DEF Strongest
    <2>2. f[a] \in Strongest(B) <=> f[a] \in Eligible(B) /\ \A d \in Eligible(B) : ~Ahead(d, f[a])
      BY DEF Strongest
    <2>3. \A d \in Eligible(B) : \E c \in Eligible(A) : d = f[c]
      BY <1>1, <1>3 DEF Follows
    <2> QED BY <1>1, <1>2, <1>3, <2>1, <2>2, <2>3
  <1>5. \A a \in Strongest(A) : f[a].probe.format = a.probe.format /\ a \in A
    BY <1>3 DEF Follows, AlikeTo, Eligible, Strongest
  <1>6. \A b \in Strongest(B) : \E a \in Strongest(A) : f[a] = b
    <2>1. Strongest(B) \subseteq B
      BY <1>3 DEF Strongest
    <2> QED BY <1>4, <2>1 DEF Follows
  <1>7. FormatsOf(Strongest(B)) = FormatsOf(Strongest(A))
    BY <1>4, <1>5, <1>6 DEF FormatsOf
  <1> QED BY <1>1, <1>4, <1>7

LEMMA VerdictFollows ==
    ASSUME NEW A, IsField(A), NEW B, NEW f, Follows(A, B, f)
    PROVE  Verdict(B).code = Verdict(A).code /\ Verdict(B).id = Verdict(A).id
  <1>1. Eligible(A) = {} <=> Eligible(B) = {}
    <2>1. Eligible(A) \subseteq A /\ Eligible(B) \subseteq B
      BY DEF Eligible
    <2> QED BY <2>1, FollowersStand DEF Follows
  <1>2. (\E c \in A : c.probe.kind = "unavailable") <=> \E c \in B : c.probe.kind = "unavailable"
    BY DEF Follows, AlikeTo
  <1>3. FormatsOf(Strongest(B)) = FormatsOf(Strongest(A))
    BY FollowersStand
  <1> DEFINE S == Strongest(A)
             T == Strongest(B)
  <1>4. ASSUME Cardinality(FormatsOf(S)) = 1
        PROVE  BestOf(T).id = BestOf(S).id
    <2>1. IsFiniteSet(S) /\ S \subseteq Eligible(A) /\ \A c \in Eligible(A) : IsCandidate(c) /\ c \in A
      BY EligibleAre
    <2>2. S # {}
      BY <1>4, SomebodyIsLeft
    <2>3. PICK w : IsBest(S, w)
      <3>1. \A c \in S : IsCandidate(c)
        BY <2>1
      <3>2. \A c, d \in S : c.id = d.id => c = d
        BY <2>1 DEF IsField
      <3> HIDE DEF S
      <3> QED BY <2>1, <2>2, <3>1, <3>2, OneIsBest
    <2>4. BestOf(S) = w
      <3>1. \A c \in S : IsCandidate(c)
        BY <2>1
      <3> HIDE DEF S
      <3> QED BY <2>3, <3>1, BestIsOne
    <2>5. \A d \in T : \E c \in S : f[c] = d
      <3>1. T \subseteq B
        BY DEF Strongest, Eligible
      <3> QED BY <3>1, FollowersStand DEF Follows
    <2>6. \A c \in S : c \in A /\ f[c] \in T /\ AlikeTo(c, f[c]) /\ IsCandidate(f[c]) /\ c.probe.kind = "result"
      <3>1. \A c \in S : c \in A /\ c.probe.kind = "result" /\ IsCandidate(c)
        BY <2>1 DEF Eligible
      <3>2. \A c \in S : f[c] \in T /\ AlikeTo(c, f[c])
        BY <3>1, FollowersStand DEF Follows
      <3> QED BY <3>1, <3>2 DEF AlikeTo, IsCandidate
    <2> HIDE DEF S, T
    <2>7. IsBest(T, f[w])
      <3>1. w \in S /\ f[w] \in T
        BY <2>3, <2>6 DEF IsBest
      <3>2. ASSUME NEW d \in T \ {f[w]} PROVE Preferred(f[w], d)
        <4>1. PICK c \in S : f[c] = d
          BY <2>5
        <4>2. Preferred(w, c)
          BY <2>3, <4>1 DEF IsBest
        <4> QED BY <2>6, <3>1, <4>1, <4>2 DEF Preferred, AlikeTo
      <3> QED BY <3>1, <3>2 DEF IsBest
    <2>8. BestOf(T) = f[w]
      <3>1. \A d \in T : IsCandidate(d)
        BY <2>5, <2>6
      <3> QED BY <2>7, <3>1, BestIsOne
    <2> QED BY <2>3, <2>4, <2>6, <2>8 DEF IsBest, AlikeTo
  <1> HIDE DEF S, T
  <1>5. CASE Eligible(A) = {}
    <2>1. Verdict(B) = Verdict(A)
      BY <1>1, <1>2, <1>5 DEF Verdict
    <2> QED BY <2>1
  <1>6. CASE Eligible(A) # {} /\ Cardinality(FormatsOf(S)) # 1
    <2>1. Verdict(B) = Verdict(A)
      BY <1>1, <1>3, <1>6 DEF Verdict, S, T
    <2> QED BY <2>1
  <1>7. CASE Eligible(A) # {} /\ Cardinality(FormatsOf(S)) = 1
    <2>1. /\ Verdict(A) = [code |-> "ok", id |-> BestOf(S).id, warnings |-> WarningsOf(BestOf(S).probe)]
          /\ Verdict(B) = [code |-> "ok", id |-> BestOf(T).id, warnings |-> WarningsOf(BestOf(T).probe)]
      BY <1>1, <1>3, <1>7 DEF Verdict, S, T
    <2> QED BY <1>4, <1>7, <2>1
  <1> QED BY <1>5, <1>6, <1>7

-----------------------------
(* A parser that did not win. *)

LEMMA VerdictWithout ==
    ASSUME NEW A, IsField(A), Verdict(A).code = "ok", NEW x \in A, x.id # Verdict(A).id
    PROVE  Verdict(A \ {x}) = Verdict(A)
  <1> DEFINE B == A \ {x}
             S == Strongest(A)
             w == BestOf(S)
  <1>1. /\ Eligible(A) # {} /\ Cardinality(FormatsOf(S)) = 1
        /\ Verdict(A) = [code |-> "ok", id |-> w.id, warnings |-> WarningsOf(w.probe)]
    BY DEF Verdict, Refused
  <1>2. IsFiniteSet(S) /\ S \subseteq Eligible(A) /\ \A c \in Eligible(A) : IsCandidate(c) /\ c \in A
    BY EligibleAre
  <1>3. IsBest(S, w)
    <2>1. \A c \in S : IsCandidate(c)
      BY <1>2
    <2>2. \A c, d \in S : c.id = d.id => c = d
      BY <1>2 DEF IsField
    <2>3. S # {}
      BY <1>1, SomebodyIsLeft
    <2>4. PICK v : IsBest(S, v)
      <3> HIDE DEF S
      <3> QED BY <1>2, <2>1, <2>2, <2>3, OneIsBest
    <2>5. w = v
      <3> HIDE DEF S
      <3> QED BY <2>1, <2>4, BestIsOne
    <2> QED BY <2>4, <2>5
  <1>4. w \in S /\ w # x
    BY <1>1, <1>3 DEF IsBest
  <1>5. Eligible(B) = Eligible(A) \ {x}
    BY DEF Eligible
  <1>6. Strongest(B) = S \ {x}
    <2>1. ASSUME NEW c \in S \ {x} PROVE c \in Strongest(B)
      BY <1>5, <2>1 DEF Strongest
    <2>2. ASSUME NEW c \in Strongest(B) PROVE c \in S \ {x}
      <3>1. c \in Eligible(A) /\ c # x /\ \A d \in Eligible(A) \ {x} : ~Ahead(d, c)
        BY <1>5 DEF Strongest
      <3>2. ASSUME c \notin S PROVE FALSE
        <4>1. PICK d \in Eligible(A) : Ahead(d, c)
          BY <3>1, <3>2 DEF Strongest
        <4>2. d = x
          BY <3>1, <4>1
        <4>3. w \in Eligible(A) /\ ~Ahead(x, w)
          BY <1>2, <1>4, <4>2 DEF Strongest
        <4>4. Ahead(w, c)
          BY <4>1, <4>2, <4>3, AheadOrders
        <4> QED BY <1>4, <3>1, <4>3, <4>4
      <3> QED BY <3>1, <3>2
    <2> QED BY <2>1, <2>2
  <1> DEFINE T == S \ {x}
  <1>7. Cardinality(FormatsOf(T)) = 1
    <2>1. T # {} /\ T \in SUBSET S
      BY <1>4
    <2> HIDE DEF S, T
    <2> QED BY <1>1, <1>2, <2>1, OneFormat
  <1>8. BestOf(T) = w
    <2>1. IsBest(T, w) /\ \A c \in T : IsCandidate(c)
      BY <1>2, <1>3, <1>4 DEF IsBest
    <2> HIDE DEF T, w
    <2> QED BY <2>1, BestIsOne
  <1>9. Eligible(B) # {}
    BY <1>2, <1>4, <1>5
  <1> HIDE DEF S, T, w, B
  <1>10. Strongest(B) = T
    BY <1>6 DEF T
  <1>11. Verdict(B) = [code |-> "ok", id |-> w.id, warnings |-> WarningsOf(w.probe)]
    BY <1>7, <1>8, <1>9, <1>10 DEF Verdict
  <1> QED BY <1>1, <1>11 DEF B

-----------------------------
(* The candidates of a call. *)

IsTuple(rs) ==
    /\ rs \in Seq([id : Nat, priority : Int])
    /\ \A i, j \in DOMAIN rs : i # j => rs[i].id # rs[j].id

AreProbes(ps) == \E S : ps \in Seq(S) /\ \A p \in S : p.kind = "result" => p \in ProbeResults

LEMMA EntrantsAre ==
    ASSUME NEW rs, IsTuple(rs), NEW ps, AreProbes(ps), Len(ps) = Len(rs)
    PROVE  /\ IsField(Entrants(rs, ps))
           /\ DOMAIN ps = 1..Len(rs) /\ DOMAIN rs = 1..Len(rs) /\ Len(rs) \in Nat
           /\ \A i \in 1..Len(rs) : /\ rs[i].id \in Nat /\ rs[i].priority \in Int
                                    /\ ps[i].kind = "result" => ps[i] \in ProbeResults
  <1> DEFINE n == Len(rs)
             E == Entrants(rs, ps)
  <1>1. PICK S : ps \in Seq(S) /\ \A p \in S : p.kind = "result" => p \in ProbeResults
    BY DEF AreProbes
  <1>2. DOMAIN ps = 1..n /\ DOMAIN rs = 1..n /\ n \in Nat
    <2>1. DOMAIN ps = 1..Len(ps)
      BY <1>1, LenProperties
    <2>2. DOMAIN rs = 1..Len(rs) /\ Len(rs) \in Nat
      BY LenProperties DEF IsTuple
    <2> QED BY <2>1, <2>2
  <1>3. \A i \in 1..n : rs[i].id \in Nat /\ rs[i].priority \in Int /\ ps[i] \in S
    <2> TAKE i \in 1..n
    <2>1. ps[i] \in S
      BY <1>1, <1>2
    <2>2. rs[i] \in [id : Nat, priority : Int]
      BY <1>2, ElementOfSeq DEF IsTuple
    <2> QED BY <2>1, <2>2
  <1>4. E = {Entrant(rs, ps, i) : i \in 1..n}
    BY <1>2 DEF Entrants
  <1>5. IsFiniteSet(E)
    <2> DEFINE g == [i \in 1..n |-> Entrant(rs, ps, i)]
    <2>1. E = {g[i] : i \in 1..n}
      BY <1>4
    <2> HIDE DEF g, E
    <2> QED BY <1>2, <2>1, ListedIsFinite
  <1>6. \A c \in E : c.id \in Nat /\ c.priority \in Int /\ (c.probe.kind = "result" => c.probe \in ProbeResults)
    BY <1>1, <1>3, <1>4 DEF Entrant
  <1>7. \A c, d \in E : c.id = d.id => c = d
    <2>1. \A i, j \in 1..n : rs[i].id = rs[j].id => i = j
      BY <1>2 DEF IsTuple
    <2> QED BY <1>4, <2>1 DEF Entrant
  <1> QED BY <1>1, <1>2, <1>3, <1>5, <1>6, <1>7 DEF IsField

ScrubbedAll(ps) == [i \in DOMAIN ps |-> IF ps[i].kind = "result" THEN Scrubbed(ps[i]) ELSE ps[i]]

LEMMA ScrubbedIsAlike ==
    ASSUME NEW p \in ProbeResults
    PROVE  /\ Scrubbed(p).kind = "result" /\ Scrubbed(p).supported = p.supported
           /\ Scrubbed(p).confidence = p.confidence /\ Scrubbed(p).format = p.format
           /\ Evidence(Scrubbed(p)) = Evidence(p)
  <1>1. /\ Scrubbed(p).kind = "result" /\ Scrubbed(p).supported = p.supported
        /\ Scrubbed(p).confidence = p.confidence /\ Scrubbed(p).format = p.format
        /\ Scrubbed(p).signals = [k \in SignalKinds |-> IF k \in Hints THEN "none" ELSE p.signals[k]]
    BY DEF Scrubbed, ProbeResults
  <1>2. \A i \in DOMAIN Strong : Strong[i] \in SignalKinds /\ Strong[i] \notin Hints
    BY DEF SignalKinds, Strong, Hints
  <1>3. \A i \in DOMAIN Strong : Scrubbed(p).signals[Strong[i]] = p.signals[Strong[i]]
    BY <1>1, <1>2
  <1>4. Evidence(Scrubbed(p)) = Evidence(p)
    BY <1>3 DEF Evidence
  <1> QED BY <1>1, <1>4

LEMMA HintsDoNotMatter ==
    ASSUME NEW rs, IsTuple(rs), NEW ps, AreProbes(ps), Len(ps) = Len(rs)
    PROVE  /\ Choice(rs, ScrubbedAll(ps)).code = Choice(rs, ps).code
           /\ Choice(rs, ScrubbedAll(ps)).id = Choice(rs, ps).id
  <1> DEFINE n == Len(rs)
             A == Entrants(rs, ps)
             B == Entrants(rs, ScrubbedAll(ps))
             g(c) == [id |-> c.id, priority |-> c.priority,
                      probe |-> IF c.probe.kind = "result" THEN Scrubbed(c.probe) ELSE c.probe]
             f == [c \in A |-> g(c)]
  <1>1. /\ IsField(A) /\ DOMAIN ps = 1..n /\ n \in Nat
        /\ \A i \in 1..n : ps[i].kind = "result" => ps[i] \in ProbeResults
    BY EntrantsAre
  <1>2. DOMAIN ScrubbedAll(ps) = 1..n
    BY <1>1 DEF ScrubbedAll
  <1>3. \A i \in 1..n : g(Entrant(rs, ps, i)) = Entrant(rs, ScrubbedAll(ps), i)
    BY <1>1 DEF Entrant, ScrubbedAll
  <1>4. A = {Entrant(rs, ps, i) : i \in 1..n} /\ B = {Entrant(rs, ScrubbedAll(ps), i) : i \in 1..n}
    BY <1>1, <1>2 DEF Entrants
  <1>5. ASSUME NEW c \in A PROVE AlikeTo(c, g(c))
    <2>1. c.probe.kind = "result" => c.probe \in ProbeResults
      BY <1>1 DEF IsField
    <2> QED BY <2>1, ScrubbedIsAlike DEF AlikeTo
  <1> HIDE DEF A, B
  <1>6. \A c \in A : f[c] = g(c)
    OBVIOUS
  <1> HIDE DEF g
  <1>7. f \in [A -> B] /\ \A b \in B : \E a \in A : f[a] = b
    BY <1>3, <1>4
  <1> HIDE DEF f
  <1>8. Follows(A, B, f)
    BY <1>5, <1>6, <1>7 DEF Follows
  <1>9. Verdict(B).code = Verdict(A).code /\ Verdict(B).id = Verdict(A).id
    BY <1>1, <1>8, VerdictFollows
  <1> QED BY <1>9, ChoiceIs DEF A, B

LEMMA ReversedAre ==
    ASSUME NEW ps, NEW n \in Nat, Len(ps) = n
    PROVE  DOMAIN Reverse(ps) = 1..n /\ \A i \in 1..n : Reverse(ps)[i] = ps[(n - i) + 1]
  BY DEF Reverse

LEMMA OrderDecidesNothing ==
    ASSUME NEW rs, IsTuple(rs), NEW ps, AreProbes(ps), Len(ps) = Len(rs)
    PROVE  Choice(Reverse(rs), Reverse(ps)) = Choice(rs, ps)
  <1> DEFINE n == Len(rs)
             A == Entrants(rs, ps)
             B == Entrants(Reverse(rs), Reverse(ps))
  <1>1. DOMAIN ps = 1..n /\ n \in Nat
    BY EntrantsAre
  <1> HIDE DEF n
  <1>2. /\ DOMAIN Reverse(ps) = 1..n
        /\ \A i \in 1..n : Reverse(ps)[i] = ps[(n - i) + 1] /\ Reverse(rs)[i] = rs[(n - i) + 1]
    BY <1>1, ReversedAre DEF n
  <1>3. \A i \in 1..n : (n - i) + 1 \in 1..n /\ (n - ((n - i) + 1)) + 1 = i
    BY <1>1
  <1>4. \A i \in 1..n : Entrant(Reverse(rs), Reverse(ps), i) = Entrant(rs, ps, (n - i) + 1)
    BY <1>2 DEF Entrant
  <1>5. A = {Entrant(rs, ps, i) : i \in 1..n} /\ B = {Entrant(Reverse(rs), Reverse(ps), i) : i \in 1..n}
    BY <1>1, <1>2 DEF Entrants
  <1>6. B = A
    <2>1. \A c : c \in B => c \in A
      BY <1>3, <1>4, <1>5
    <2>2. \A c : c \in A => c \in B
      BY <1>3, <1>4, <1>5
    <2> QED BY <2>1, <2>2
  <1> QED BY <1>6, ChoiceIs

LEMMA LosersDoNotMatter ==
    ASSUME NEW rs, IsTuple(rs), NEW ps, AreProbes(ps), Len(ps) = Len(rs),
           NEW i \in DOMAIN rs, Choice(rs, ps).code = "ok", rs[i].id # Choice(rs, ps).id
    PROVE  Choice(RemoveAt(rs, i), RemoveAt(ps, i)) = Choice(rs, ps)
  <1> DEFINE n == Len(rs)
             r == RemoveAt(rs, i)
             p == RemoveAt(ps, i)
             A == Entrants(rs, ps)
             B == Entrants(r, p)
             x == Entrant(rs, ps, i)
             At(j) == IF j < i THEN j ELSE j + 1
  <1>1. DOMAIN ps = 1..n /\ DOMAIN rs = 1..n /\ n \in Nat /\ i \in 1..n /\ IsField(A)
    BY EntrantsAre
  <1>2. DOMAIN p = 1..(n - 1) /\ \A j \in 1..(n - 1) : p[j] = ps[At(j)]
    <2>1. PICK S : ps \in Seq(S)
      BY DEF AreProbes
    <2>2. DOMAIN p = 1..(n - 1) /\ \A j \in 1..(n - 1) : p[j] = IF j < i THEN ps[j] ELSE ps[j + 1]
      BY <1>1, <2>1, RemovedAre
    <2> HIDE DEF p
    <2> QED BY <2>2
  <1>3. \A j \in 1..(n - 1) : r[j] = rs[At(j)]
    <2>1. \A j \in 1..(n - 1) : r[j] = IF j < i THEN rs[j] ELSE rs[j + 1]
      BY <1>1, RemovedAre DEF IsTuple
    <2> HIDE DEF r
    <2> QED BY <2>1
  <1> HIDE DEF r, p
  <1>4. /\ \A j \in 1..(n - 1) : At(j) \in 1..n /\ At(j) # i
        /\ \A k \in 1..n : k # i => \E j \in 1..(n - 1) : At(j) = k
    <2> HIDE DEF n
    <2>1. \A j \in 1..(n - 1) : At(j) \in 1..n /\ At(j) # i
      BY <1>1
    <2>2. ASSUME NEW k \in 1..n, k # i
          PROVE  \E j \in 1..(n - 1) : At(j) = k
      <3>1. CASE k < i
        <4>1. k \in 1..(n - 1) /\ At(k) = k
          BY <1>1, <3>1
        <4> QED BY <4>1
      <3>2. CASE ~(k < i)
        <4>1. k - 1 \in 1..(n - 1) /\ At(k - 1) = k
          BY <1>1, <2>2, <3>2
        <4> QED BY <4>1
      <3> QED BY <3>1, <3>2
    <2> QED BY <2>1, <2>2
  <1>5. \A j \in 1..(n - 1) : Entrant(r, p, j) = Entrant(rs, ps, At(j))
    BY <1>2, <1>3 DEF Entrant
  <1>6. A = {Entrant(rs, ps, j) : j \in 1..n} /\ B = {Entrant(r, p, j) : j \in 1..(n - 1)}
    BY <1>1, <1>2 DEF Entrants
  <1>7. \A k \in 1..n : k # i => Entrant(rs, ps, k) # x
    BY <1>1 DEF IsTuple, Entrant
  <1> HIDE DEF At, x, A, B, n
  <1>8. B = A \ {x}
    <2>1. \A c : c \in B => c \in A \ {x}
      BY <1>4, <1>5, <1>6, <1>7
    <2>2. \A c : c \in A \ {x} => c \in B
      <3> SUFFICES ASSUME NEW k \in 1..n, Entrant(rs, ps, k) # x PROVE Entrant(rs, ps, k) \in B
        BY <1>6
      <3>1. k # i
        BY DEF x
      <3>2. PICK j \in 1..(n - 1) : At(j) = k
        BY <1>4, <3>1
      <3> QED BY <1>5, <1>6, <3>2
    <2> QED BY <2>1, <2>2
  <1>9. Verdict(A).code = "ok" /\ x.id # Verdict(A).id /\ x \in A
    <2>1. Choice(rs, ps) = Verdict(A)
      BY ChoiceIs DEF A
    <2>2. x.id = rs[i].id
      BY DEF x, Entrant
    <2> QED BY <1>1, <1>6, <2>1, <2>2 DEF x
  <1>10. Verdict(A \ {x}) = Verdict(A)
    BY <1>1, <1>9, VerdictWithout
  <1> QED BY <1>8, <1>10, ChoiceIs DEF A, B, r, p

-----------------------------
(* One call of select_parser. *)

ChoiceInv ==
    /\ tuple \in Registrations
    /\ probed \in Seq(Probes) /\ Len(probed) <= Len(tuple)
    /\ chosen.code # "none" /\ Len(probed) = Len(tuple) /\ tuple # <<>> => chosen = Choice(tuple, probed)

LEMMA ChoiceStarts == SelectInit => ChoiceInv
  <1> SUFFICES ASSUME SelectInit PROVE ChoiceInv
    OBVIOUS
  <1>1. tuple \in Seq([id : Nat, priority : Int])
    BY SelectionAssumption DEF SelectInit
  <1>2. probed \in Seq(Probes) /\ Len(probed) = 0 /\ Len(tuple) \in Nat
    BY <1>1, EmptySeq DEF SelectInit
  <1> QED BY <1>2 DEF SelectInit, ChoiceInv, Refused

LEMMA ChoiceStep ==
    ASSUME ChoiceInv, [SelectNext]_selectVars
    PROVE  ChoiceInv'
  <1>1. tuple \in Seq([id : Nat, priority : Int]) /\ Len(tuple) \in Nat /\ Len(probed) \in Nat
    BY SelectionAssumption DEF ChoiceInv
  <1>2. ASSUME NEW p \in Probes, Probe(p) PROVE ChoiceInv'
    <2>1. tuple' = tuple /\ Len(probed) < Len(tuple) /\ chosen.code = "none"
      BY <1>2 DEF Probe
    <2>2. CASE probed' = probed
      BY <1>1, <2>1, <2>2 DEF ChoiceInv
    <2>3. CASE probed' = Append(probed, p) /\ chosen' = chosen
      <3>1. probed' \in Seq(Probes) /\ Len(probed') = Len(probed) + 1
        BY <2>3 DEF ChoiceInv
      <3> QED BY <1>1, <2>1, <2>3, <3>1 DEF ChoiceInv
    <2> QED BY <1>2, <2>2, <2>3 DEF Probe
  <1>3. CASE Choose
    BY <1>3 DEF Choose, ChoiceInv
  <1>4. CASE UNCHANGED selectVars
    BY <1>4 DEF selectVars, ChoiceInv
  <1> QED BY <1>2, <1>3, <1>4 DEF SelectNext

LEMMA ChosenByContent == ChoiceInv => ContentDecides
  <1> SUFFICES ASSUME ChoiceInv, chosen.code # "none", Len(probed) = Len(tuple), tuple # <<>>
               PROVE  ContentDecides
    BY DEF ContentDecides
  <1>1. chosen = Choice(tuple, probed) /\ IsTuple(tuple) /\ AreProbes(probed)
    BY SelectionAssumption DEF ChoiceInv, IsTuple, AreProbes
  <1>2. /\ Choice(tuple, ScrubbedAll(probed)).code = chosen.code
        /\ Choice(tuple, ScrubbedAll(probed)).id = chosen.id
    BY <1>1, HintsDoNotMatter
  <1>3. Choice(Reverse(tuple), Reverse(probed)) = chosen
    BY <1>1, OrderDecidesNothing
  <1>4. \A i \in DOMAIN tuple : chosen.code = "ok" /\ tuple[i].id # chosen.id =>
                                  Choice(RemoveAt(tuple, i), RemoveAt(probed, i)) = chosen
    BY <1>1, LosersDoNotMatter
  <1> QED BY <1>2, <1>3, <1>4 DEF ContentDecides, ScrubbedAll

(* For any registry and whatever its parsers answer: what a source says of  *)
(* itself and the order of registration change neither which parser         *)
(* select_parser chooses nor why it chooses none, and once it has chosen,   *)
(* every other parser might as well not be there.                           *)
THEOREM SelectionByContent == SelectSpec => []ContentDecides
  <1> QED BY ChoiceStarts, ChoiceStep, ChosenByContent, PTL DEF SelectSpec
=============================================================================
