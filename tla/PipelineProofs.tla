--------------------------- MODULE PipelineProofs ---------------------------
(***************************************************************************)
(* Proofs about Pipeline, for every set of clients and every setup: a lease *)
(* does one thing at a time and in the mode it was asked for; no cleanup    *)
(* takes a staged run from the loader; the outcome of the result is what    *)
(* happened to the target; a commit is reported as one; and what is told of *)
(* the end is true, what was staged included.                               *)
(*                                                                          *)
(* A step changes one client, the run, the row and the target.  What holds  *)
(* of these four is said of values (Sound), what a step does to the other   *)
(* clients by Change; that a step keeps the invariant is one lemma          *)
(* (MovedKeeps), and an action only has to be shown to be such a step.      *)
(***************************************************************************)
EXTENDS Pipeline, TLAPS

-----------------------------
(* The invariant. *)

Over(r) == r.status \in Terminal \/ r.closed

StagePC == {"first", "announce", "work", "begin", "fill", "seal", "load", "writing",
            "raised", "complete"}

LoadPC == {"begin", "fill", "seal", "load", "writing", "raised"}

(* The stages a call still has to do. *)
TodoPart(k) ==
    \A i \in DOMAIN k.todo :
        /\ k.call # "execute" => k.todo[i] \notin {"STAGING", "LOADING"}
        /\ k.call = "execute" => (k.todo[i] = "LOADING" <=> i = Len(k.todo))
        /\ k.todo[i] = "SEMANTIC_PARSING" => k.call = "parse_semantically"

(* Where a client is inside perform, and what it does there. *)
StagePart(k, r) ==
    /\ k.pc \in StagePC => k.inside /\ k.todo # <<>>
    /\ k.pc \in {"idle", "done"} => ~k.inside
    /\ k.pc = "idle" => k.call # "execute" /\ k.todo = <<>>
    /\ k.pc \in StagePC \ {"first"} => r.status \in {Head(k.todo)} \cup Terminal
    /\ k.pc \in {"begin", "fill", "seal"} => Head(k.todo) = "STAGING"
    /\ k.pc \in {"load", "writing", "raised"} => Head(k.todo) = "LOADING"

EndPart(k, r) ==
    /\ k.pc \in {"sign", "tell"} => k.goal \in Terminal
    /\ k.pc \in {"read", "move"} => r.status \in Terminal
    /\ k.pc = "move" => k.seen.status \in Abandoned

(* A run is executed once: it is under way, or the run is over. *)
ExecPart(c, k, r) ==
    /\ k.inside => r.busy
    /\ k.call = "execute" => r.dry = Dry[c] /\ (r.executing \/ Over(r))

(* execute has not come to the loader. *)
Early(k) ==
    k.call = "execute" /\ \/ k.pc \in {"first", "announce", "work", "begin", "fill", "seal", "load"}
                          \/ k.pc = "complete" /\ Head(k.todo) # "LOADING"

LoadPart(k, r, s, t) ==
    /\ k.pc \in LoadPC => k.call = "execute" /\ ~r.dry
    /\ k.pc = "work" /\ Head(k.todo) = "LOADING" => r.dry
    /\ Early(k) => r.outcome = "NOT_STARTED" /\ t = "untouched"
    /\ k.pc = "writing" => r.outcome = "NOT_STARTED" /\ t = "untouched" /\ s.status = "EXECUTING"
    /\ k.pc = "raised" =>
          /\ r.outcome = "NOT_STARTED"
          /\ t = "loaded" => s.status \in {"COMMITTED", "EXECUTING", "UNKNOWN"} \cup LostAfter
    /\ k.pc = "complete" /\ Head(k.todo) = "LOADING" => r.outcome \in {"COMMITTED", "DRY_RUN"}

Sound(c, k, r, s, t) ==
    /\ k \in Client
    /\ TodoPart(k) /\ StagePart(k, r) /\ EndPart(k, r) /\ ExecPart(c, k, r) /\ LoadPart(k, r, s, t)

(* What the result says that it may not say of a target that was loaded. *)
Denies(r, t) == r.outcome \in {"NOT_STARTED", "DRY_RUN", "ROLLED_BACK"} /\ t = "loaded"

Lossy == "QUARANTINED" \in LostAfter

(* The run, the row and the target. *)
WholePart(r, s, t) ==
    /\ r \in Session /\ s \in StagingRow /\ t \in Target
    /\ r.outcome = "DRY_RUN" => r.dry
    /\ r.outcome = "COMMITTED" \/ t # "untouched" => ~r.dry
    /\ r.outcome = "COMMITTED" => t # "untouched"
    /\ s.status = "COMMITTED" => t = "loaded"

Executes(c) == client[c].call = "execute"

PairPart ==
    /\ \A c, d \in Clients : client[c].inside /\ client[d].inside => c = d
    /\ \A c, d \in Clients : Executes(c) /\ Executes(d) => c = d
    /\ run.busy => \E c \in Clients : client[c].inside
    /\ (\A c \in Clients : ~Executes(c)) => run.outcome = "NOT_STARTED" /\ target = "untouched"
    /\ Denies(run, target) => Lossy \/ \E c \in Clients : client[c].pc = "raised"

Closer == [pc : {"open", "read", "move", "rest", "closed"}, cut : BOOLEAN,
           failed : BOOLEAN, seen : StagingRow]

ClosePart ==
    /\ closer \in Closer
    /\ closer.pc = "move" => closer.seen.status \in Abandoned

Base ==
    /\ setup \in Setups /\ log \in Log
    /\ client \in [Clients -> Client]
    /\ WholePart(run, staging, target)

PipelineInv ==
    /\ Base /\ ClosePart /\ PairPart
    /\ \A c \in Clients : Sound(c, client[c], run, staging, target)

-----------------------------
(* The invariant of the commit. *)

Asked(s, c) == {s.plan[c][i] : i \in DOMAIN s.plan[c]}

Later == {"SEMANTIC_PARSING", "NORMALIZED_DATA_PROFILING", "DATABASE_INSPECTING", "MAPPING",
          "MAPPING_PLAN_CREATED", "MAPPING_PLAN_VALIDATING", "NORMALIZING", "VALIDATING",
          "STAGING", "LOADING"}

(* No client executes, and none will, unless it is c. *)
OthersWait(c) ==
    \A d \in Clients \ {c} : ~Executes(d) /\ "execute" \notin Asked(setup, d)

(* Nothing has been parsed, and no client but c will. *)
Unparsed(c, done) ==
    /\ "SEMANTIC_PARSING" \notin done
    /\ \A d \in Clients \ {c} : "parse_semantically" \notin Asked(setup, d)

(* What may be said of a run at its end. *)
Told(goal, outcome) ==
    /\ outcome = "COMMITTED" => goal \in {"COMPLETED", "COMPLETED_WITH_WARNINGS"}
    /\ goal = "COMPLETED" => outcome \in {"COMMITTED", "DRY_RUN"}

RunPart(r) ==
    /\ r.status \in Terminal => Told(r.status, r.outcome)
    /\ r.outcome = "COMMITTED" => r.status \in {"LOADING"} \cup Terminal
    /\ "SEMANTIC_PARSING" \in r.done => r.status \in Later \cup Terminal

(* What a client calls it was asked to call, and execute follows a parse. *)
AskedPart(c, k, r) ==
    /\ k.call \in Asked(setup, c) \cup {"none"}
    /\ \A i \in DOMAIN k.calls : k.calls[i] \in Asked(setup, c)
    /\ k.call = "execute" => "SEMANTIC_PARSING" \in r.done

(* Only the task that closes the lease ends a run under an execute, which   *)
(* has committed by then.                                                   *)
UnderPart(k, r) ==
    k.call = "execute" /\ k.pc \in StagePC /\ r.status \in Terminal =>
        k.pc = "complete" /\ r.outcome = "COMMITTED" /\ r.status = "COMPLETED_WITH_WARNINGS"

(* A client that stops the run outside perform has nobody execute meanwhile. *)
GoalPart(c, k, r) ==
    k.pc \in {"sign", "tell"} =>
        /\ Told(k.goal, r.outcome)
        /\ k.inside \/ k.call = "execute" \/ OthersWait(c) \/ Unparsed(c, r.done)

CommitPart(c, k, r) == AskedPart(c, k, r) /\ UnderPart(k, r) /\ GoalPart(c, k, r)

CommitInv == RunPart(run) /\ \A c \in Clients : CommitPart(c, client[c], run)

(* Nobody stops the run from outside perform while another client executes: *)
(* one client parses, and those who bring arguments of their own are alone  *)
(* in executing.                                                            *)
Undisturbed ==
    \A s \in Setups : \A c, d \in Clients : c # d =>
        /\ "parse_semantically" \notin Asked(s, c) \cap Asked(s, d)
        /\ c \in s.disputes => "execute" \notin Asked(s, d)

-----------------------------
(* The types of the fields of a run. *)
LEMMA RunTypes ==
    ASSUME NEW r \in Session
    PROVE  /\ r.status \in Stage \cup Terminal /\ r.outcome \in Outcome
           /\ r.dry \in BOOLEAN /\ r.started \in BOOLEAN /\ r.busy \in BOOLEAN
           /\ r.executing \in BOOLEAN /\ r.closed \in BOOLEAN /\ r.context \in BOOLEAN
           /\ r.done \in SUBSET Stage
  BY DEF Session

-----------------------------
(* A step of one client. *)

(* What a step does, wherever the client is afterwards. *)
Change(c, k, r, s, t) ==
    /\ k \in Client /\ TodoPart(k) /\ ExecPart(c, k, r) /\ WholePart(r, s, t)
    /\ r.busy <=> k.inside \/ (run.busy /\ ~client[c].inside)
    /\ k.inside => client[c].inside \/ ~run.busy
    /\ r.status # run.status => r.status \in Terminal \/ k.inside
    /\ run.status \in Terminal => r.status \in Terminal
    /\ run.closed => r.closed
    /\ run.executing => r.executing \/ Over(r)
    /\ r.dry # run.dry => \A d \in Clients : ~Executes(d)
    /\ Executes(c) => k.call = "execute"
    /\ k.call = "execute" => Executes(c) \/ \A d \in Clients : ~Executes(d)
    /\ k.call # "execute" =>
          /\ r.outcome = run.outcome /\ t = target
          /\ s = staging \/ (staging.status \in Abandoned /\ s.status \in {"CANCELLED", "FAILED"})

(* The target is denied only as it was before, by another client. *)
Settled(c, r, t) ==
    Denies(r, t) => Lossy \/ (Denies(run, target) /\ client[c].pc # "raised")

Place(c, k, r, s, t) ==
    /\ StagePart(k, r) /\ EndPart(k, r) /\ LoadPart(k, r, s, t)
    /\ k.pc # "raised" => Settled(c, r, t)

Frame == setup' = setup /\ closer' = closer /\ log' \in Log

Moved(c, k, r, s, t) ==
    /\ Frame
    /\ client' = [client EXCEPT ![c] = k] /\ run' = r /\ staging' = s /\ target' = t
    /\ Change(c, k, r, s, t) /\ Place(c, k, r, s, t)

(* The first stage of a call that has stages. *)
LEMMA FirstStage ==
    ASSUME NEW k \in Client, k.todo # <<>>
    PROVE  /\ 1 \in DOMAIN k.todo /\ Len(k.todo) \in DOMAIN k.todo
           /\ Head(k.todo) = k.todo[1] /\ Head(k.todo) \in Stage
           /\ Tail(k.todo) \in Seq(Stage)
           /\ \A i \in DOMAIN Tail(k.todo) :
                 /\ i + 1 \in DOMAIN k.todo /\ Tail(k.todo)[i] = k.todo[i + 1]
           /\ Len(Tail(k.todo)) = Len(k.todo) - 1
           /\ Tail(k.todo) = <<>> => Len(k.todo) = 1
  <1>1. k.todo \in Seq(Stage)
    BY DEF Client
  <1> DEFINE q == k.todo
  <1>2. q \in Seq(Stage) /\ q # <<>>
    BY <1>1
  <1> HIDE DEF q
  <1>3. Len(q) \in Nat \ {0} /\ DOMAIN q = 1..Len(q)
    BY <1>2
  <1>4. 1 \in DOMAIN q /\ Len(q) \in DOMAIN q /\ q[1] \in Stage
    BY <1>2, <1>3
  <1>5. Head(q) = q[1]
    BY <1>2
  <1>6. /\ Tail(q) \in Seq(Stage) /\ Len(Tail(q)) = Len(q) - 1
        /\ \A i \in 1..Len(Tail(q)) : Tail(q)[i] = q[i + 1]
    BY <1>2
  <1>7. DOMAIN Tail(q) = 1..Len(Tail(q))
    BY <1>6
  <1>8. \A i \in DOMAIN Tail(q) : i + 1 \in DOMAIN q /\ Tail(q)[i] = q[i + 1]
    BY <1>3, <1>6, <1>7
  <1>9. Tail(q) = <<>> => Len(q) = 1
    <2> SUFFICES ASSUME Tail(q) = <<>> PROVE Len(q) = 1
      OBVIOUS
    <2> DEFINE p == Tail(q)
    <2>1. p = <<>>
      OBVIOUS
    <2> HIDE DEF p
    <2>2. Len(p) = 0
      BY <2>1
    <2>3. Len(Tail(q)) = 0
      BY <2>2 DEF p
    <2>. QED BY <2>3, <1>3, <1>6
  <1>. QED BY <1>4, <1>5, <1>6, <1>8, <1>9 DEF q

(* What a setup says. *)
LEMMA SetupFacts ==
    ASSUME setup \in Setups
    PROVE  /\ LostAfter \subseteq {"COMMITTED", "QUARANTINED", "EXECUTING"}
           /\ LostAfter \cap Abandoned = {}
           /\ Dry \in [Clients -> BOOLEAN] /\ Plan \in [Clients -> Seq(Calls)]
  <1>1. setup \in Setup
    BY PipelineAssumption
  <1>. QED BY <1>1 DEF Setup, LostAfter, Dry, Plan, Abandoned

(* Another client keeps its place when one makes such a step. *)
LEMMA OthersSound ==
    ASSUME PipelineInv, NEW c \in Clients, NEW k, NEW r, NEW s, NEW t, Moved(c, k, r, s, t),
           NEW d \in Clients \ {c}
    PROVE  Sound(d, client[d], r, s, t)
  <1> DEFINE e == client[d]
  <1>1. /\ e \in Client /\ TodoPart(e) /\ StagePart(e, run) /\ EndPart(e, run)
        /\ ExecPart(d, e, run) /\ LoadPart(e, run, staging, target)
    BY DEF PipelineInv, Sound
  <1>2. Change(c, k, r, s, t)
    BY DEF Moved
  <1>3. /\ ~(client[c].inside /\ e.inside) /\ ~(Executes(c) /\ Executes(d))
    BY DEF PipelineInv, PairPart
  <1>4. e.inside => run.busy
    BY <1>1 DEF ExecPart
  <1>5. e.inside => /\ ~k.inside /\ r.busy
                    /\ r.status \in {run.status} \cup Terminal
    BY <1>2, <1>3, <1>4 DEF Change
  <1>6. Over(run) => Over(r)
    BY <1>2 DEF Change, Over
  <1>7. e.call = "execute" =>
          /\ r.dry = run.dry /\ r.outcome = run.outcome /\ t = target
          /\ s = staging \/ (staging.status \in Abandoned /\ s.status \in {"CANCELLED", "FAILED"})
    BY <1>2, <1>3 DEF Change, Executes
  <1>8. StagePart(e, r)
    BY <1>1, <1>5, <1>2 DEF StagePart, Change
  <1>9. EndPart(e, r)
    BY <1>1, <1>2 DEF EndPart, Change
  <1>10. ExecPart(d, e, r)
    BY <1>1, <1>2, <1>5, <1>6, <1>7 DEF ExecPart, Change
  <1>11. LoadPart(e, r, s, t)
    <2>1. CASE e.call = "execute"
      <3>1. LostAfter \cap Abandoned = {}
        BY SetupFacts DEF PipelineInv, Base
      <3>. QED BY <2>1, <3>1, <1>1, <1>7 DEF LoadPart, Early, Abandoned
    <2>2. CASE e.call # "execute"
      <3>1. e.pc \in StagePC => Head(e.todo) # "LOADING"
        <4>1. SUFFICES ASSUME e.pc \in StagePC PROVE Head(e.todo) # "LOADING"
          OBVIOUS
        <4>2. e.todo # <<>>
          BY <4>1, <1>1 DEF StagePart
        <4>3. 1 \in DOMAIN e.todo /\ Head(e.todo) = e.todo[1]
          BY <4>2, <1>1, FirstStage
        <4>. QED BY <4>3, <2>2, <1>1 DEF TodoPart
      <3>. QED BY <2>2, <3>1, <1>1 DEF LoadPart, Early, StagePC, LoadPC
    <2>. QED BY <2>1, <2>2
  <1>. HIDE DEF e
  <1>12. Sound(d, e, r, s, t)
    BY <1>1, <1>8, <1>9, <1>10, <1>11 DEF Sound
  <1>. QED BY <1>12 DEF e

(* A step that is Moved keeps the invariant. *)
LEMMA MovedKeeps ==
    ASSUME PipelineInv, NEW c \in Clients, NEW k, NEW r, NEW s, NEW t, Moved(c, k, r, s, t)
    PROVE  PipelineInv'
  <1>1. /\ client \in [Clients -> Client] /\ k \in Client
        /\ client' = [client EXCEPT ![c] = k] /\ run' = r /\ staging' = s /\ target' = t
        /\ setup' = setup /\ closer' = closer /\ log' \in Log /\ setup \in Setups
    BY DEF PipelineInv, Base, Moved, Frame, Change
  <1>2. Change(c, k, r, s, t) /\ Place(c, k, r, s, t)
    BY DEF Moved
  <1>3. client'[c] = k /\ \A d \in Clients \ {c} : client'[d] = client[d]
    BY <1>1
  <1>4. Base'
    <2>1. client' \in [Clients -> Client]
      BY <1>1
    <2>2. WholePart(r, s, t)
      BY <1>2 DEF Change
    <2>. QED BY <2>1, <2>2, <1>1 DEF Base, WholePart
  <1>5. ClosePart'
    BY <1>1 DEF PipelineInv, ClosePart
  <1>6. \A d \in Clients : Sound(d, client[d], run, staging, target)'
    <2> SUFFICES ASSUME NEW d \in Clients PROVE Sound(d, client[d], run, staging, target)'
      OBVIOUS
    <2>1. CASE d = c
      <3>1. Sound(c, k, r, s, t)
        BY <1>2 DEF Sound, Change, Place
      <3>. QED BY <3>1, <2>1, <1>1, <1>3
             DEF Sound, TodoPart, StagePart, EndPart, ExecPart, LoadPart, Early, Over, Dry, LostAfter
    <2>2. CASE d # c
      <3>1. Sound(d, client[d], r, s, t)
        BY <2>2, OthersSound
      <3>. QED BY <3>1, <2>2, <1>1, <1>3
             DEF Sound, TodoPart, StagePart, EndPart, ExecPart, LoadPart, Early, Over, Dry, LostAfter
    <2>. QED BY <2>1, <2>2
  <1>7. PairPart'
    <2>1. \A d, e \in Clients : client'[d].inside /\ client'[e].inside => d = e
      <3>1. k.inside => \A d \in Clients \ {c} : ~client[d].inside
        BY <1>2 DEF Change, PipelineInv, PairPart, Sound, ExecPart
      <3>. QED BY <3>1, <1>3 DEF PipelineInv, PairPart
    <2>2. \A d, e \in Clients :
            client'[d].call = "execute" /\ client'[e].call = "execute" => d = e
      <3>1. k.call = "execute" => \A d \in Clients \ {c} : client[d].call # "execute"
        BY <1>2 DEF Change, PipelineInv, PairPart, Executes
      <3>. QED BY <3>1, <1>3 DEF PipelineInv, PairPart, Executes
    <2>3. r.busy => \E d \in Clients : client'[d].inside
      <3>1. CASE k.inside
        BY <3>1, <1>3
      <3>2. CASE run.busy /\ ~client[c].inside
        <4>1. PICK d \in Clients : client[d].inside
          BY <3>2 DEF PipelineInv, PairPart
        <4>. QED BY <4>1, <3>2, <1>3
      <3>. QED BY <3>1, <3>2, <1>2 DEF Change
    <2>4. (\A d \in Clients : client'[d].call # "execute")
            => r.outcome = "NOT_STARTED" /\ t = "untouched"
      <3> SUFFICES ASSUME \A d \in Clients : client'[d].call # "execute"
                   PROVE  r.outcome = "NOT_STARTED" /\ t = "untouched"
        OBVIOUS
      <3>1. k.call # "execute" /\ ~Executes(c)
        BY <1>2, <1>3 DEF Change
      <3>2. \A d \in Clients : ~Executes(d)
        BY <3>1, <1>3 DEF Executes
      <3>. QED BY <3>1, <3>2, <1>2 DEF Change, PipelineInv, PairPart
    <2>5. Denies(r, t) => Lossy \/ \E d \in Clients : client'[d].pc = "raised"
      <3>1. CASE k.pc = "raised"
        BY <3>1, <1>3
      <3>2. CASE Denies(r, t) /\ k.pc # "raised" /\ ~Lossy
        <4>1. Denies(run, target) /\ client[c].pc # "raised"
          BY <3>2, <1>2 DEF Place, Settled
        <4>2. PICK d \in Clients : client[d].pc = "raised"
          BY <4>1, <3>2 DEF PipelineInv, PairPart
        <4>. QED BY <4>1, <4>2, <1>3
      <3>. QED BY <3>1, <3>2
    <2>. QED BY <2>1, <2>2, <2>3, <2>4, <2>5, <1>1 DEF PairPart, Executes, Denies, Lossy, LostAfter
  <1>. QED BY <1>4, <1>5, <1>6, <1>7 DEF PipelineInv
-----------------------------
(* The ways on and out of a stage. *)

(* A client that is as it was, or leaves perform, has the run given back. *)
Same(c, me, r) ==
    /\ me.call = client[c].call /\ (me.inside => client[c].inside)
    /\ r.status \in {run.status} \cup Terminal

(* Leave gives the run back; the run is over. *)
LEMMA LeaveMoved ==
    ASSUME PipelineInv, NEW c \in Clients, NEW me, NEW r, NEW s, NEW t,
           Change(c, me, r, s, t), Settled(c, r, t), Same(c, me, r), Over(r),
           Leave(c, r), Frame, staging' = s, target' = t
    PROVE  PipelineInv'
  <1>1. /\ client[c] \in Client /\ r \in Session /\ client[c].inside \in BOOLEAN
        /\ run.busy \in BOOLEAN
    BY DEF PipelineInv, Base, Change, WholePart, Client, Session
  <1> DEFINE b == IF client[c].inside THEN FALSE ELSE r.busy
             e == IF client[c].call = "execute" THEN FALSE ELSE r.executing
             o == client[c]
             q == [r EXCEPT !.busy = b, !.executing = e]
             k == [o EXCEPT !.pc = "done", !.calls = <<>>, !.todo = <<>>, !.inside = FALSE]
  <1>2. b \in BOOLEAN /\ e \in BOOLEAN /\ o \in Client
    BY <1>1, RunTypes
  <1>5. run' = q /\ client' = [client EXCEPT ![c] = k]
    BY DEF Leave, Freed, Become
  <1>7. b <=> run.busy /\ ~client[c].inside
    <2>1. /\ r.busy <=> me.inside \/ (run.busy /\ ~client[c].inside)
          /\ me.inside => client[c].inside
      BY DEF Change, Same
    <2>. QED BY <2>1
  <1>0. o.call = client[c].call /\ e \in {FALSE, r.executing}
    OBVIOUS
  <1>. HIDE DEF b, e, o
  <1>3. /\ q \in Session
        /\ q.busy = b /\ q.executing = e
        /\ q.status = r.status /\ q.outcome = r.outcome /\ q.dry = r.dry /\ q.closed = r.closed
    BY <1>1, <1>2 DEF Session
  <1>4. /\ k \in Client /\ k.pc = "done" /\ k.todo = <<>> /\ k.inside = FALSE
        /\ k.call = client[c].call
    <2>1. "done" \in PC /\ <<>> \in Seq(Calls) /\ <<>> \in Seq(Stage) /\ FALSE \in BOOLEAN
      BY DEF PC
    <2>. QED BY <1>0, <1>2, <2>1 DEF Client
  <1>6. Over(q) /\ (q.status \in Terminal <=> r.status \in Terminal)
    BY <1>3 DEF Over
  <1>. HIDE DEF q, k
  <1>8. Change(c, k, q, s, t)
    <2>1. TodoPart(k)
      BY <1>4 DEF TodoPart
    <2>2. ExecPart(c, k, q)
      BY <1>3, <1>4, <1>6 DEF Change, ExecPart, Same
    <2>3. WholePart(q, s, t)
      BY <1>3 DEF Change, WholePart
    <2>4. /\ q.busy <=> k.inside \/ (run.busy /\ ~client[c].inside)
          /\ q.status # run.status => q.status \in Terminal
      BY <1>3, <1>4, <1>7 DEF Same
    <2>. QED BY <2>1, <2>2, <2>3, <2>4, <1>3, <1>4, <1>6 DEF Change, Same, Executes
  <1>9. Place(c, k, q, s, t)
    BY <1>3, <1>4 DEF Place, StagePart, EndPart, LoadPart, Early, Settled, Denies, StagePC, LoadPC
  <1>10. Moved(c, k, q, s, t)
    BY <1>5, <1>8, <1>9 DEF Moved
  <1>. QED BY <1>10, MovedKeeps

(* terminal: the client goes to sign, or leaves a run that is over. *)
LEMMA TerminalMoved ==
    ASSUME PipelineInv, NEW c \in Clients, NEW me, NEW r, NEW s, NEW t,
           NEW goal \in Terminal, NEW l \in Log, NEW n \in Nat,
           Change(c, me, r, s, t), Settled(c, r, t), r.status \in Terminal => Same(c, me, r),
           EnterTerminal(c, r, me, goal, l, n),
           setup' = setup, closer' = closer, staging' = s, target' = t
    PROVE  PipelineInv'
  <1>1. CASE r.status \in Terminal
    <2>1. Leave(c, r) /\ log' = l
      BY <1>1 DEF EnterTerminal
    <2>2. Over(r) /\ Same(c, me, r) /\ Frame
      BY <1>1, <2>1 DEF Over, Frame
    <2>. QED BY <2>1, <2>2, LeaveMoved
  <1>2. CASE r.status \notin Terminal
    <2> DEFINE k == [me EXCEPT !.pc = "sign", !.goal = goal]
    <2>1. run' = r /\ client' = [client EXCEPT ![c] = k] /\ log' = [l EXCEPT !.errors = @ + n]
      BY <1>2 DEF EnterTerminal, Become
    <2>2. me \in Client
      BY DEF Change
    <2>3. "sign" \in PC
      BY DEF PC
    <2>4. /\ k \in Client /\ k.pc = "sign" /\ k.goal = goal /\ k.call = me.call
          /\ k.todo = me.todo /\ k.inside = me.inside
      BY <2>2, <2>3 DEF Client
    <2>5. log' \in Log
      <3> DEFINE m == l.errors + n
      <3>1. m \in Nat
        BY DEF Log
      <3>2. log' = [l EXCEPT !.errors = m]
        BY <2>1
      <3>. HIDE DEF m
      <3>. QED BY <3>1, <3>2 DEF Log
    <2>. HIDE DEF k
    <2>6. Change(c, k, r, s, t)
      BY <2>4 DEF Change, TodoPart, ExecPart
    <2>7. Place(c, k, r, s, t)
      BY <2>4 DEF Place, StagePart, EndPart, LoadPart, Early, StagePC, LoadPC
    <2>8. Moved(c, k, r, s, t)
      BY <2>1, <2>5, <2>6, <2>7 DEF Moved, Frame
    <2>. QED BY <2>8, MovedKeeps
  <1>. QED BY <1>1, <1>2

(* A failed stage ends the run. *)
LEMMA StatusAfterType ==
    ASSUME NEW kind, NEW o PROVE StatusAfter(kind, o) \in Terminal
  BY DEF StatusAfter, Terminal

(* Notes stay in the log. *)
LEMMA NotedType == ASSUME log \in Log, NEW n \in SUBSET Note PROVE Noted(n) \in Log
  BY DEF Log, Noted

(* perform: what fails in it. *)
LEMMA FailMoved ==
    ASSUME PipelineInv, NEW c \in Clients, NEW me, NEW r, NEW s, NEW t, NEW kind,
           Change(c, me, r, s, t), r.status \in Terminal => Same(c, me, r),
           kind = "unknown" => me.call = "execute",
           kind # "unknown" => Settled(c, r, t),
           Fail(c, r, me, kind),
           setup' = setup, closer' = closer, staging' = s, target' = t
    PROVE  PipelineInv'
  <1>1. log \in Log
    BY DEF PipelineInv, Base
  <1>2. r \in Session
    BY DEF Change, WholePart
  <1>3. CASE Shielded(r)
    <2> DEFINE w == Noted({IF kind = "cancel" THEN "CANCELLED_AFTER_COMMIT"
                           ELSE "STAGE_FAILED_AFTER_COMMIT"})
    <2>1. w \in Log
      BY <1>1, NotedType DEF Note
    <2>2. EnterTerminal(c, r, me, "COMPLETED_WITH_WARNINGS", w, 0)
      BY <1>3 DEF Fail
    <2>3. Settled(c, r, t)
      BY <1>3 DEF Shielded, Settled, Denies
    <2>4. "COMPLETED_WITH_WARNINGS" \in Terminal /\ 0 \in Nat
      BY DEF Terminal
    <2>. HIDE DEF w
    <2>. QED BY <2>1, <2>2, <2>3, <2>4, TerminalMoved
  <1>4. CASE ~Shielded(r)
    <2> DEFINE q == [r EXCEPT !.outcome = OutcomeAfter(kind, r.outcome)]
    <2>1. EnterTerminal(c, q, me, StatusAfter(kind, r.outcome), log, 1)
      BY <1>4 DEF Fail
    <2>2. OutcomeAfter(kind, r.outcome) \in Outcome
      BY <1>2, RunTypes DEF OutcomeAfter, Outcome
    <2>3. /\ q \in Session /\ q.outcome = OutcomeAfter(kind, r.outcome)
          /\ q.status = r.status /\ q.dry = r.dry /\ q.busy = r.busy
          /\ q.executing = r.executing /\ q.closed = r.closed
      BY <1>2, <2>2 DEF Session
    <2>. HIDE DEF q
    <2>4. Change(c, me, q, s, t)
      <3>1. ExecPart(c, me, q)
        BY <2>3 DEF Change, ExecPart, Over
      <3>2. WholePart(q, s, t)
        BY <2>3 DEF Change, WholePart, OutcomeAfter
      <3>3. me.call # "execute" => q.outcome = r.outcome
        BY <2>3 DEF OutcomeAfter
      <3>. QED BY <2>3, <3>1, <3>2, <3>3 DEF Change, Over
    <2>5. Settled(c, q, t)
      BY <2>3 DEF Settled, Denies, OutcomeAfter
    <2>6. q.status \in Terminal => Same(c, me, q)
      BY <2>3 DEF Same
    <2>7. StatusAfter(kind, r.outcome) \in Terminal /\ 1 \in Nat
      BY StatusAfterType
    <2>. QED BY <1>1, <2>1, <2>4, <2>5, <2>6, <2>7, TerminalMoved
  <1>. QED BY <1>3, <1>4

(* No stage begins in a run that has ended. *)
LEMMA MayEnterOpen ==
    ASSUME NEW a, NEW b, MayEnter(a, b)
    PROVE  a \notin Terminal
  BY DEF MayEnter, Edges, Repeatable, Terminal

(* The start of a stage. *)
LEMMA StageMoved ==
    ASSUME PipelineInv, NEW c \in Clients, NEW me, NEW r,
           Change(c, me, r, staging, target), Over(r) => Same(c, me, r),
           me.inside, me.todo # <<>>, r.status = run.status,
           me.call = "execute" => r.outcome = "NOT_STARTED" /\ target = "untouched",
           Settled(c, r, target), EnterStage(c, r, me),
           UNCHANGED <<setup, closer, staging, target>>
    PROVE  PipelineInv'
  <1>0. /\ setup' = setup /\ closer' = closer /\ staging' = staging /\ target' = target
        /\ log \in Log /\ r \in Session /\ me \in Client
    BY DEF PipelineInv, Base, Change, WholePart
  <1>1. CASE r.closed /\ Rechecks(me.call, Head(me.todo))
    <2>1. Leave(c, r) /\ log' = log
      BY <1>1 DEF EnterStage
    <2>2. Over(r) /\ Frame
      BY <1>0, <1>1, <2>1 DEF Over, Frame
    <2>. QED BY <1>0, <2>1, <2>2, LeaveMoved
  <1>2. CASE /\ ~(r.closed /\ Rechecks(me.call, Head(me.todo)))
             /\ r.closed \/ ~MayEnter(r.status, Head(me.todo))
    <2>1. Fail(c, r, me, "error")
      BY <1>2 DEF EnterStage
    <2>2. r.status \in Terminal => Same(c, me, r)
      BY DEF Over
    <2>. QED BY <1>0, <2>1, <2>2, FailMoved
  <1>3. CASE ~r.closed /\ MayEnter(r.status, Head(me.todo))
    <2> DEFINE h == Head(me.todo)
               q == [r EXCEPT !.status = h]
               k == [me EXCEPT !.pc = "announce"]
    <2>1. run' = q /\ client' = [client EXCEPT ![c] = k] /\ log' = log
      BY <1>3 DEF EnterStage, Become
    <2>2. h \in Stage /\ r.status \notin Terminal
      BY <1>0, <1>3, FirstStage, MayEnterOpen
    <2>. HIDE DEF h
    <2>3. /\ q \in Session /\ q.status = h /\ q.outcome = r.outcome /\ q.dry = r.dry
          /\ q.busy = r.busy /\ q.executing = r.executing /\ q.closed = r.closed
      BY <1>0, <2>2 DEF Session
    <2>4. "announce" \in PC
      BY DEF PC
    <2>5. /\ k \in Client /\ k.pc = "announce" /\ k.call = me.call
          /\ k.todo = me.todo /\ k.inside = me.inside
      BY <1>0, <2>4 DEF Client
    <2>6. h = Head(k.todo)
      BY <2>5 DEF h
    <2>. HIDE DEF q, k
    <2>7. Change(c, k, q, staging, target)
      <3>1. TodoPart(k)
        BY <2>5 DEF Change, TodoPart
      <3>2. ExecPart(c, k, q)
        BY <2>2, <2>3, <2>5, <1>3 DEF Change, ExecPart, Over
      <3>3. WholePart(q, staging, target)
        BY <2>3 DEF Change, WholePart
      <3>4. run.executing => q.executing
        BY <2>2, <2>3, <1>3 DEF Change, Over
      <3>. QED BY <2>2, <2>3, <2>5, <3>1, <3>2, <3>3, <3>4 DEF Change, Executes
    <2>8. Place(c, k, q, staging, target)
      BY <2>3, <2>5, <2>6 DEF Place, StagePart, EndPart, LoadPart, Early, StagePC, LoadPC, Settled, Denies
    <2>9. Moved(c, k, q, staging, target)
      BY <1>0, <2>1, <2>7, <2>8 DEF Moved, Frame
    <2>. QED BY <2>9, MovedKeeps
  <1>. QED BY <1>1, <1>2, <1>3
-----------------------------
(* The stages of a call. *)

Plain == Stage \ {"STAGING", "LOADING", "SEMANTIC_PARSING"}

(* The stages the calls name are stages of the state machine. *)
LEMMA StageNames ==
    /\ {"SOURCE_PROBING", "TECHNICAL_PARSING", "STRUCTURE_PROFILING", "STRUCTURE_ANALYZING",
        "PARSE_PLAN_CREATED", "PARSE_PLAN_VALIDATING", "NORMALIZED_DATA_PROFILING",
        "DATABASE_INSPECTING", "MAPPING", "MAPPING_PLAN_CREATED", "MAPPING_PLAN_VALIDATING",
        "NORMALIZING", "VALIDATING"} \subseteq Plain
    /\ {"STAGING", "LOADING", "SEMANTIC_PARSING", "CREATED"} \subseteq Stage
  <1>1. \A e \in Edges : e[1] \in Stage /\ e[2] \in Stage
    BY DEF Stage
  <1>2. /\ <<"CREATED", "SOURCE_PROBING">> \in Edges
        /\ <<"SOURCE_PROBING", "TECHNICAL_PARSING">> \in Edges
        /\ <<"STRUCTURE_PROFILING", "STRUCTURE_ANALYZING">> \in Edges
        /\ <<"PARSE_PLAN_CREATED", "PARSE_PLAN_VALIDATING">> \in Edges
        /\ <<"SEMANTIC_PARSING", "NORMALIZED_DATA_PROFILING">> \in Edges
        /\ <<"DATABASE_INSPECTING", "MAPPING">> \in Edges
        /\ <<"MAPPING_PLAN_CREATED", "MAPPING_PLAN_VALIDATING">> \in Edges
        /\ <<"NORMALIZING", "VALIDATING">> \in Edges
        /\ <<"STAGING", "LOADING">> \in Edges
    BY DEF Edges
  <1>3. /\ "CREATED" \in Stage /\ "SOURCE_PROBING" \in Stage /\ "TECHNICAL_PARSING" \in Stage
        /\ "STRUCTURE_PROFILING" \in Stage /\ "STRUCTURE_ANALYZING" \in Stage
        /\ "PARSE_PLAN_CREATED" \in Stage /\ "PARSE_PLAN_VALIDATING" \in Stage
        /\ "SEMANTIC_PARSING" \in Stage /\ "NORMALIZED_DATA_PROFILING" \in Stage
        /\ "DATABASE_INSPECTING" \in Stage /\ "MAPPING" \in Stage
        /\ "MAPPING_PLAN_CREATED" \in Stage /\ "MAPPING_PLAN_VALIDATING" \in Stage
        /\ "NORMALIZING" \in Stage /\ "VALIDATING" \in Stage
        /\ "STAGING" \in Stage /\ "LOADING" \in Stage
    BY <1>1, <1>2
  <1>. QED BY <1>3 DEF Plain

(* What a concatenation holds. *)
LEMMA Joined ==
    ASSUME NEW S, NEW p \in Seq(S), NEW q \in Seq(S)
    PROVE  /\ p \o q \in Seq(S) /\ Len(p \o q) = Len(p) + Len(q)
           /\ \A i \in 1..Len(p \o q) : (p \o q)[i] = IF i <= Len(p) THEN p[i] ELSE q[i - Len(p)]
  OBVIOUS

(* The parts calls are made of neither parse nor stage nor load. *)
LEMMA PlainStages ==
    ASSUME NEW status, NEW done
    PROVE  /\ Analyze(done) \in Seq(Plain) /\ CreateParsePlan(status, done) \in Seq(Plain)
           /\ MissingParsePlan(status, done) \in Seq(Plain) /\ Profile(done) \in Seq(Plain)
           /\ Catalog(done) \in Seq(Plain) /\ ValidateMapping(status, done) \in Seq(Plain)
  <1>1. Analyze(done) \in Seq(Plain)
    BY StageNames DEF Analyze
  <1>2. Append(Analyze(done), "PARSE_PLAN_CREATED") \in Seq(Plain) /\ <<>> \in Seq(Plain)
    BY <1>1, StageNames
  <1>3. CreateParsePlan(status, done) \in Seq(Plain) /\ MissingParsePlan(status, done) \in Seq(Plain)
    BY <1>2 DEF CreateParsePlan, MissingParsePlan
  <1>4. Profile(done) \in Seq(Plain)
    BY StageNames DEF Profile
  <1>5. Catalog(done) \in Seq(Plain)
    <2> DEFINE q == IF "DATABASE_INSPECTING" \in done THEN <<>> ELSE <<"DATABASE_INSPECTING">>
    <2>1. q \in Seq(Plain)
      BY StageNames
    <2>. HIDE DEF q
    <2>2. Profile(done) \o q \in Seq(Plain)
      BY <1>4, <2>1, Joined
    <2>. QED BY <2>2 DEF Catalog, q
  <1>6. ValidateMapping(status, done) \in Seq(Plain)
    <2> DEFINE q == IF "DATABASE_INSPECTING" \notin done \/ status \in {"DATABASE_INSPECTING", "MAPPING"}
                    THEN <<"MAPPING_PLAN_CREATED">> ELSE <<>>
               v == <<"MAPPING_PLAN_VALIDATING">>
    <2>1. q \in Seq(Plain) /\ v \in Seq(Plain)
      BY StageNames
    <2>2. ValidateMapping(status, done) = Catalog(done) \o q \o v
      BY DEF ValidateMapping
    <2>. HIDE DEF q, v
    <2>3. Catalog(done) \o q \in Seq(Plain)
      BY <1>5, <2>1, Joined
    <2>4. (Catalog(done) \o q) \o v \in Seq(Plain)
      BY <2>1, <2>3, Joined
    <2>. QED BY <2>2, <2>4
  <1>. QED BY <1>1, <1>3, <1>4, <1>5, <1>6

(* Only execute stages and loads, loading comes last, and only              *)
(* parse_semantically parses.                                               *)
LEMMA StagesType ==
    ASSUME NEW m \in Calls, NEW status, NEW done
    PROVE  LET ts == StagesOf(m, status, done) IN
           /\ ts \in Seq(Stage)
           /\ \A i \in DOMAIN ts :
                 /\ m # "execute" => ts[i] \notin {"STAGING", "LOADING"}
                 /\ m = "execute" => (ts[i] = "LOADING" <=> i = Len(ts))
                 /\ ts[i] = "SEMANTIC_PARSING" => m = "parse_semantically"
  <1> DEFINE ts == StagesOf(m, status, done)
  <1>1. CASE m \notin {"parse_semantically", "execute"}
    <2>1. ts \in Seq(Plain)
      <3>1. m \in {"inspect_source", "analyze_structure", "create_parse_plan", "validate_parse_plan",
                   "profile_records", "inspect_database", "create_mapping_plan", "validate_mapping_plan"}
        BY <1>1 DEF Calls
      <3>2. CASE m = "inspect_source"
        BY <3>2, StageNames DEF StagesOf
      <3>3. CASE m \in {"analyze_structure", "create_parse_plan", "profile_records", "validate_mapping_plan"}
        BY <3>3, PlainStages DEF StagesOf
      <3>4. CASE m = "validate_parse_plan"
        BY <3>4, PlainStages, StageNames DEF StagesOf
      <3>5. CASE m = "inspect_database"
        BY <3>5, PlainStages, StageNames DEF StagesOf
      <3>6. CASE m = "create_mapping_plan"
        <4> DEFINE v == <<"MAPPING", "MAPPING_PLAN_CREATED">>
        <4>1. v \in Seq(Plain)
          BY StageNames
        <4>2. ts = Catalog(done) \o v
          BY <3>6 DEF StagesOf
        <4>. HIDE DEF v, ts
        <4>. QED BY <4>1, <4>2, PlainStages, Joined
      <3>. QED BY <3>1, <3>2, <3>3, <3>4, <3>5, <3>6
    <2>. HIDE DEF ts
    <2>2. ts \in Seq(Stage) /\ \A i \in DOMAIN ts : ts[i] \in Plain
      BY <2>1 DEF Plain
    <2>3. /\ ts \in Seq(Stage)
          /\ \A i \in DOMAIN ts :
                /\ m # "execute" => ts[i] \notin {"STAGING", "LOADING"}
                /\ m = "execute" => (ts[i] = "LOADING" <=> i = Len(ts))
                /\ ts[i] = "SEMANTIC_PARSING" => m = "parse_semantically"
      BY <1>1, <2>2 DEF Plain
    <2>. QED BY <2>3 DEF ts
  <1>2. CASE m = "parse_semantically"
    <2> DEFINE p == MissingParsePlan(status, done)
               v == <<"PARSE_PLAN_VALIDATING", "SEMANTIC_PARSING">>
               S == Stage \ {"STAGING", "LOADING"}
    <2>1. v \in Seq(S) /\ ts = p \o v
      BY <1>2, StageNames DEF StagesOf, Plain
    <2>2. p \in Seq(Plain)
      BY PlainStages
    <2>3. Plain \subseteq S /\ S \subseteq Stage
      BY DEF Plain
    <2>. HIDE DEF p, v, ts, S
    <2>4. p \in Seq(S)
      BY <2>2, <2>3
    <2>5. ts \in Seq(S)
      BY <2>1, <2>4, Joined
    <2>6. ts \in Seq(Stage) /\ \A i \in DOMAIN ts : ts[i] \in S
      BY <2>3, <2>5
    <2>7. /\ ts \in Seq(Stage)
          /\ \A i \in DOMAIN ts :
                /\ m # "execute" => ts[i] \notin {"STAGING", "LOADING"}
                /\ m = "execute" => (ts[i] = "LOADING" <=> i = Len(ts))
                /\ ts[i] = "SEMANTIC_PARSING" => m = "parse_semantically"
      BY <1>2, <2>6 DEF S
    <2>. QED BY <2>7 DEF ts
  <1>3. CASE m = "execute"
    <2> DEFINE p == ValidateMapping(status, done)
               v == <<"NORMALIZING", "VALIDATING", "STAGING", "LOADING">>
               S == Stage \ {"SEMANTIC_PARSING"}
    <2>1. v \in Seq(S) /\ ts = p \o v /\ Len(v) = 4
          /\ v[4] = "LOADING" /\ \A i \in 1..3 : v[i] # "LOADING"
      <3>1. ts = p \o v
        BY <1>3 DEF StagesOf
      <3>2. {"NORMALIZING", "VALIDATING", "STAGING", "LOADING"} \subseteq S
        BY StageNames DEF Plain
      <3>3. v \in Seq(S) /\ Len(v) = 4
        BY <3>2
      <3>4. v[1] = "NORMALIZING" /\ v[2] = "VALIDATING" /\ v[3] = "STAGING" /\ v[4] = "LOADING"
        OBVIOUS
      <3>5. \A i \in 1..3 : v[i] # "LOADING"
        BY <3>4
      <3>. QED BY <3>1, <3>3, <3>4, <3>5
    <2>2. p \in Seq(Plain)
      BY PlainStages
    <2>3. Plain \subseteq S /\ S \subseteq Stage
      BY DEF Plain
    <2>. HIDE DEF p, v, ts, S
    <2>4. p \in Seq(S) /\ \A i \in 1..Len(p) : p[i] # "LOADING"
      BY <2>2, <2>3 DEF Plain
    <2>5. /\ ts \in Seq(S) /\ Len(ts) = Len(p) + 4
          /\ \A i \in 1..Len(ts) : ts[i] = IF i <= Len(p) THEN p[i] ELSE v[i - Len(p)]
      <3>1. /\ p \o v \in Seq(S) /\ Len(p \o v) = Len(p) + Len(v)
            /\ \A i \in 1..Len(p \o v) :
                  (p \o v)[i] = IF i <= Len(p) THEN p[i] ELSE v[i - Len(p)]
        <4>1. p \in Seq(S) /\ v \in Seq(S)
          BY <2>1, <2>4
        <4>. QED BY <4>1, Joined
      <3>2. ts = p \o v /\ Len(v) = 4
        BY <2>1
      <3>. QED BY <3>1, <3>2
    <2>6. Len(p) \in Nat /\ DOMAIN ts = 1..Len(ts)
      BY <2>4, <2>5
    <2>7. \A i \in DOMAIN ts : ts[i] = "LOADING" <=> i = Len(ts)
      <3> TAKE i \in DOMAIN ts
      <3>1. CASE i <= Len(p)
        BY <3>1, <2>4, <2>5, <2>6
      <3>2. CASE i > Len(p) /\ i # Len(ts)
        <4>1. i - Len(p) \in 1..3
          BY <3>2, <2>5, <2>6
        <4>. QED BY <3>2, <4>1, <2>1, <2>5, <2>6
      <3>3. CASE i = Len(ts)
        <4>1. i - Len(p) = 4 /\ ~(i <= Len(p))
          BY <3>3, <2>5, <2>6
        <4>. QED BY <3>3, <4>1, <2>1, <2>5, <2>6
      <3>. QED BY <3>1, <3>2, <3>3, <2>5, <2>6
    <2>8. ts \in Seq(Stage) /\ \A i \in DOMAIN ts : ts[i] # "SEMANTIC_PARSING"
      BY <2>3, <2>5 DEF S
    <2>. QED BY <1>3, <2>7, <2>8 DEF ts
  <1>. QED BY <1>1, <1>2, <1>3
-----------------------------
(* The steps of a call. *)

(* What the invariant says of the client that moves. *)
LEMMA OwnFacts ==
    ASSUME PipelineInv, NEW c \in Clients
    PROVE  /\ client[c] \in Client /\ run \in Session /\ staging \in StagingRow
           /\ target \in Target /\ log \in Log
           /\ WholePart(run, staging, target)
           /\ TodoPart(client[c]) /\ StagePart(client[c], run) /\ EndPart(client[c], run)
           /\ ExecPart(c, client[c], run) /\ LoadPart(client[c], run, staging, target)
  BY DEF PipelineInv, Base, Sound, WholePart

(* A step that leaves the call, or ends its being inside perform. *)
LEMMA Kept ==
    ASSUME PipelineInv, NEW c \in Clients, NEW k \in Client, NEW r, NEW s, NEW t,
           TodoPart(k), k.call = client[c].call, k.inside => client[c].inside,
           r.status = run.status, r.closed = run.closed, r.executing = run.executing,
           r.dry = run.dry, WholePart(r, s, t),
           r.busy = IF client[c].inside THEN k.inside ELSE run.busy,
           k.call # "execute" =>
              /\ r.outcome = run.outcome /\ t = target
              /\ s = staging \/ (staging.status \in Abandoned /\ s.status \in {"CANCELLED", "FAILED"})
    PROVE  Change(c, k, r, s, t)
  <1>1. ExecPart(c, client[c], run) /\ k.inside \in BOOLEAN /\ client[c].inside \in BOOLEAN
        /\ client[c] \in Client
    BY OwnFacts DEF Client
  <1>2. ExecPart(c, k, r)
    BY <1>1 DEF ExecPart, Over
  <1>3. r.busy <=> k.inside \/ (run.busy /\ ~client[c].inside)
    BY <1>1
  <1>. QED BY <1>2, <1>3 DEF Change, Executes, Over

(* A step that changes nothing the invariant speaks of. *)
LEMMA Still ==
    ASSUME PipelineInv, NEW c \in Clients
    PROVE  /\ Change(c, client[c], run, staging, target)
           /\ client[c].pc # "raised" => Settled(c, run, target)
           /\ Same(c, client[c], run)
  <1>1. /\ client[c] \in Client /\ TodoPart(client[c]) /\ WholePart(run, staging, target)
        /\ ExecPart(c, client[c], run)
        /\ client[c].inside \in BOOLEAN /\ run.busy \in BOOLEAN
    BY OwnFacts DEF Client, Session
  <1>2. run.busy = IF client[c].inside THEN client[c].inside ELSE run.busy
    BY <1>1 DEF ExecPart
  <1>3. Change(c, client[c], run, staging, target)
    BY <1>1, <1>2, Kept
  <1>. QED BY <1>3 DEF Settled, Same

(* The values that steps assign. *)
LEMMA PCNames ==
    /\ "idle" \in PC /\ "first" \in PC /\ "announce" \in PC /\ "work" \in PC /\ "begin" \in PC
    /\ "fill" \in PC /\ "seal" \in PC /\ "load" \in PC /\ "writing" \in PC /\ "raised" \in PC
    /\ "complete" \in PC /\ "sign" \in PC /\ "tell" \in PC /\ "read" \in PC /\ "move" \in PC
    /\ "done" \in PC /\ <<>> \in Seq(Calls) /\ <<>> \in Seq(Stage)
  BY DEF PC

(* A client that makes no other call. *)
LEMMA Ends ==
    ASSUME PipelineInv, NEW c \in Clients, client[c].pc = "idle",
           Become(c, [client[c] EXCEPT !.pc = "done", !.calls = <<>>]),
           UNCHANGED <<setup, run, log, closer, staging, target>>
    PROVE  PipelineInv'
  <1> DEFINE o == client[c]
             k == [o EXCEPT !.pc = "done", !.calls = <<>>]
  <1>1. o \in Client /\ TodoPart(o) /\ ~o.inside /\ o.pc # "raised"
    BY OwnFacts DEF StagePart
  <1>2. /\ client' = [client EXCEPT ![c] = k] /\ run' = run /\ staging' = staging /\ target' = target
        /\ Frame
    BY OwnFacts DEF Become, Frame
  <1>3. o.call = client[c].call /\ o.inside = client[c].inside
    OBVIOUS
  <1>. HIDE DEF o
  <1>4. /\ k \in Client /\ k.pc = "done" /\ k.call = o.call /\ k.todo = o.todo /\ k.inside = o.inside
    BY <1>1, PCNames DEF Client
  <1>. HIDE DEF k
  <1>5. TodoPart(k)
    BY <1>1, <1>4 DEF TodoPart
  <1>6. Change(c, k, run, staging, target)
    BY Still, <1>3, <1>4, <1>5 DEF Change, ExecPart
  <1>7. Place(c, k, run, staging, target)
    BY Still, <1>1, <1>4 DEF o, Place, StagePart, EndPart, LoadPart, Early, StagePC, LoadPC
  <1>8. Moved(c, k, run, staging, target)
    BY <1>2, <1>6, <1>7 DEF Moved
  <1>. QED BY <1>8, MovedKeeps

(* execute is let in only while nobody else has executed. *)
LEMMA NobodyExecutes ==
    ASSUME PipelineInv, ~run.executing, ~Over(run)
    PROVE  \A d \in Clients : ~Executes(d)
  BY DEF PipelineInv, Sound, ExecPart, Executes

(* A call keeps the invariant: refused, without a stage, or in its first    *)
(* one.                                                                     *)
LEMMA CallStep ==
    ASSUME PipelineInv, NEW c \in Clients, Call(c)
    PROVE  PipelineInv'
  <1> DEFINE o == client[c]
             m == Head(o.calls)
             ts == StagesOf(m, run.status, run.done)
             me == [o EXCEPT !.call = m, !.calls = Tail(@), !.todo = ts, !.inside = TRUE]
             r == [run EXCEPT !.busy = TRUE, !.executing = @ \/ m = "execute",
                              !.dry = IF m = "execute" THEN Dry[c] ELSE @]
  <1>1. /\ o \in Client /\ o.pc = "idle" /\ o.calls # <<>> /\ o.calls \in Seq(Calls)
        /\ TodoPart(o) /\ ~o.inside /\ o.call # "execute" /\ o.todo = <<>> /\ run \in Session
        /\ log \in Log
    BY OwnFacts DEF Call, StagePart, Client
  <1>2. m \in Calls /\ Tail(o.calls) \in Seq(Calls)
    <2> DEFINE q == o.calls
    <2>1. q \in Seq(Calls) /\ q # <<>>
      BY <1>1
    <2>. HIDE DEF q
    <2>2. Head(q) \in Calls /\ Tail(q) \in Seq(Calls)
      BY <2>1
    <2>. QED BY <2>2 DEF q
  <1>3. setup' = setup /\ closer' = closer /\ staging' = staging /\ target' = target
    BY DEF Call
  <1>4. \/ /\ Become(c, [client[c] EXCEPT !.pc = "done", !.calls = <<>>])
           /\ UNCHANGED <<run, log>>
        \/ Become(c, [client[c] EXCEPT !.calls = Tail(@)]) /\ UNCHANGED <<run, log>>
        \/ /\ ~run.closed /\ run.status \notin Terminal /\ Admitted(m) /\ ts # <<>> /\ Alone
           /\ \/ EnterStage(c, r, me)
              \/ run' = r /\ Become(c, [me EXCEPT !.pc = "first"]) /\ UNCHANGED log
    BY DEF Call
  <1>5. CASE /\ Become(c, [client[c] EXCEPT !.pc = "done", !.calls = <<>>])
             /\ UNCHANGED <<run, log>>
    BY <1>1, <1>3, <1>5, Ends
  <1>6. CASE Become(c, [client[c] EXCEPT !.calls = Tail(@)]) /\ UNCHANGED <<run, log>>
    <2> DEFINE cs == Tail(o.calls)
               k == [o EXCEPT !.calls = cs]
    <2>1. client' = [client EXCEPT ![c] = k]
      BY <1>6 DEF Become
    <2>2. cs \in Seq(Calls)
      BY <1>2
    <2>3. o.call = client[c].call /\ o.inside = client[c].inside /\ o.pc = client[c].pc
      OBVIOUS
    <2>. HIDE DEF o, cs
    <2>4. /\ k \in Client /\ k.pc = "idle" /\ k.call = o.call /\ k.todo = o.todo /\ k.inside = o.inside
      BY <1>1, <2>2 DEF Client
    <2>. HIDE DEF k
    <2>5. TodoPart(k)
      BY <1>1, <2>4 DEF TodoPart
    <2>6. Change(c, k, run, staging, target)
      BY Still, <2>3, <2>4, <2>5 DEF Change, ExecPart
    <2>7. Place(c, k, run, staging, target)
      BY Still, <1>1, <2>3, <2>4 DEF Place, StagePart, EndPart, LoadPart, Early, StagePC, LoadPC
    <2>8. Moved(c, k, run, staging, target)
      BY <1>1, <1>3, <1>6, <2>1, <2>6, <2>7 DEF Moved, Frame
    <2>. QED BY <2>8, MovedKeeps
  <1>7. CASE /\ ~run.closed /\ run.status \notin Terminal /\ Admitted(m) /\ ts # <<>> /\ Alone
             /\ \/ EnterStage(c, r, me)
                \/ run' = r /\ Become(c, [me EXCEPT !.pc = "first"]) /\ UNCHANGED log
    <2>1. /\ ts \in Seq(Stage)
          /\ \A i \in DOMAIN ts :
                /\ m # "execute" => ts[i] \notin {"STAGING", "LOADING"}
                /\ m = "execute" => (ts[i] = "LOADING" <=> i = Len(ts))
                /\ ts[i] = "SEMANTIC_PARSING" => m = "parse_semantically"
      BY <1>2, StagesType
    <2>2. ~run.busy /\ ~Over(run) /\ (m = "execute" => ~run.executing)
      BY <1>7 DEF Alone, Admitted, Over
    <2>3. m = "execute" => /\ \A d \in Clients : ~Executes(d)
                           /\ run.outcome = "NOT_STARTED" /\ target = "untouched"
      BY <2>2, NobodyExecutes DEF PipelineInv, PairPart
    <2>4. Dry[c] \in BOOLEAN
      BY SetupFacts DEF PipelineInv, Base
    <2>5. o.call = client[c].call /\ o.inside = client[c].inside /\ o.pc = client[c].pc
      OBVIOUS
    <2> DEFINE x == run.executing \/ m = "execute"
               dr == IF m = "execute" THEN Dry[c] ELSE run.dry
               cs == Tail(o.calls)
               q == [run EXCEPT !.busy = TRUE, !.executing = x, !.dry = dr]
               k == [o EXCEPT !.call = m, !.calls = cs, !.todo = ts, !.inside = TRUE]
    <2>6. q = r /\ k = me
      OBVIOUS
    <2>7. x \in BOOLEAN /\ dr \in BOOLEAN /\ cs \in Seq(Calls)
      BY <1>1, <1>2, <2>4, RunTypes
    <2>8. /\ x <=> run.executing \/ m = "execute"
          /\ m = "execute" => dr = Dry[c]
          /\ m # "execute" => dr = run.dry
      OBVIOUS
    <2>. HIDE DEF o, m, ts, x, dr, cs
    <2>9. /\ q \in Session /\ q.busy = TRUE /\ q.executing = x /\ q.dry = dr
          /\ q.status = run.status /\ q.outcome = run.outcome /\ q.closed = run.closed
      BY <1>1, <2>7 DEF Session
    <2>10. /\ k \in Client /\ k.call = m /\ k.todo = ts /\ k.inside = TRUE
      BY <1>1, <1>2, <2>1, <2>7 DEF Client
    <2>11. [k EXCEPT !.pc = "first"] \in Client
      BY <2>10, PCNames DEF Client
    <2> DEFINE f == [k EXCEPT !.pc = "first"]
    <2>12. /\ f \in Client /\ f.pc = "first" /\ f.call = m /\ f.todo = ts /\ f.inside = TRUE
      <3>. HIDE DEF k
      <3>. QED BY <2>10, <2>11, PCNames DEF Client
    <2>13. ASSUME NEW a \in Client, a.call = m, a.todo = ts, a.inside = TRUE
           PROVE  Change(c, a, q, staging, target)
      <3>. HIDE DEF q, k, f
      <3>1. TodoPart(a)
        BY <2>1, <2>13 DEF TodoPart
      <3>2. ExecPart(c, a, q)
        BY <2>8, <2>9, <2>13 DEF ExecPart
      <3>3. WholePart(q, staging, target)
        BY <2>3, <2>8, <2>9, OwnFacts DEF WholePart
      <3>4. ~Executes(c)
        BY <1>1 DEF Executes, o
      <3>5. run.executing => q.executing
        BY <2>8, <2>9
      <3>. QED BY <2>2, <2>3, <2>5, <2>8, <2>9, <2>13, <3>1, <3>2, <3>3, <3>4, <3>5 DEF Change, Over
    <2>14. Settled(c, q, target)
      BY <1>1, <2>5, <2>9 DEF Settled, Denies
    <2>15. CASE EnterStage(c, r, me)
      <3>1. EnterStage(c, q, k)
        BY <2>6, <2>15
      <3>2. ~Over(q)
        BY <2>2, <2>9 DEF Over
      <3>3. Change(c, k, q, staging, target)
        BY <2>10, <2>13
      <3>4. k.todo # <<>>
        BY <2>10, <1>7
      <3>5. k.call = "execute" => q.outcome = "NOT_STARTED" /\ target = "untouched"
        BY <2>3, <2>9, <2>10
      <3>. HIDE DEF q, k
      <3>. QED BY <1>3, <2>9, <2>10, <2>14, <3>1, <3>2, <3>3, <3>4, <3>5, StageMoved
    <2>16. CASE run' = r /\ Become(c, [me EXCEPT !.pc = "first"]) /\ UNCHANGED log
      <3>1. run' = q /\ client' = [client EXCEPT ![c] = f]
        BY <2>6, <2>16 DEF Become
      <3>2. Change(c, f, q, staging, target)
        BY <2>12, <2>13
      <3>. HIDE DEF q, k, f
      <3>3. Place(c, f, q, staging, target)
        BY <2>3, <2>9, <2>12, <2>14, <1>7 DEF Place, StagePart, EndPart, LoadPart, Early, StagePC, LoadPC
      <3>4. Moved(c, f, q, staging, target)
        BY <1>1, <1>3, <2>16, <3>1, <3>2, <3>3 DEF Moved, Frame
      <3>. QED BY <3>4, MovedKeeps
    <2>. QED BY <1>7, <2>15, <2>16
  <1>. QED BY <1>4, <1>5, <1>6, <1>7

(* A step to another place of the same stage, with the run but for its      *)
(* outcome, its results and what it knows of staging as it was.             *)
LEMMA WorkMoved ==
    ASSUME PipelineInv, NEW c \in Clients, NEW k, NEW r, NEW s, NEW t,
           k \in Client, TodoPart(k), k.call = client[c].call, k.inside = client[c].inside,
           r.status = run.status, r.closed = run.closed, r.executing = run.executing,
           r.dry = run.dry, r.busy = run.busy, WholePart(r, s, t),
           k.call # "execute" =>
              /\ r.outcome = run.outcome /\ t = target
              /\ s = staging \/ (staging.status \in Abandoned /\ s.status \in {"CANCELLED", "FAILED"}),
           Place(c, k, r, s, t), Frame,
           client' = [client EXCEPT ![c] = k], run' = r, staging' = s, target' = t
    PROVE  PipelineInv'
  <1>1. r.busy = IF client[c].inside THEN k.inside ELSE run.busy
    <2>1. ExecPart(c, client[c], run) /\ client[c].inside \in BOOLEAN /\ run.busy \in BOOLEAN
      BY OwnFacts DEF Client, Session
    <2>. QED BY <2>1 DEF ExecPart
  <1>2. Change(c, k, r, s, t)
    BY <1>1, Kept
  <1>3. Moved(c, k, r, s, t)
    BY <1>2 DEF Moved
  <1>. QED BY <1>3, MovedKeeps

(* So does a call that disputes what the run has, *)
LEMMA DisputeStep ==
    ASSUME PipelineInv, NEW c \in Clients, Dispute(c)
    PROVE  PipelineInv'
  <1> DEFINE o == client[c]
             m == Head(o.calls)
             cs == Tail(o.calls)
             x == run.executing \/ m = "execute"
             dr == IF m = "execute" THEN Dry[c] ELSE run.dry
             q == [run EXCEPT !.executing = x, !.dry = dr]
             k == [o EXCEPT !.call = m, !.calls = cs]
  <1>1. /\ o \in Client /\ o.pc = "idle" /\ o.calls # <<>> /\ o.calls \in Seq(Calls)
        /\ TodoPart(o) /\ ~o.inside /\ o.call # "execute" /\ o.todo = <<>> /\ run \in Session
        /\ log \in Log
    BY OwnFacts DEF Dispute, StagePart, Client
  <1>2. m \in Calls /\ cs \in Seq(Calls)
    <2> DEFINE t == o.calls
    <2>1. t \in Seq(Calls) /\ t # <<>>
      BY <1>1
    <2>. HIDE DEF t
    <2>2. Head(t) \in Calls /\ Tail(t) \in Seq(Calls)
      BY <2>1
    <2>. QED BY <2>2 DEF t
  <1>3. /\ run.status \notin Terminal /\ ~run.closed /\ Admitted(m)
        /\ EnterTerminal(c, q, k, "NEEDS_REVIEW", log, 1)
        /\ setup' = setup /\ closer' = closer /\ staging' = staging /\ target' = target
    BY DEF Dispute
  <1>4. o.call = client[c].call /\ o.inside = client[c].inside /\ o.pc = client[c].pc
    OBVIOUS
  <1>5. ~Executes(c) /\ "NEEDS_REVIEW" \in Terminal /\ 1 \in Nat
    BY <1>1 DEF Executes, Terminal
  <1>6. ~Over(run) /\ (m = "execute" => ~run.executing)
    BY <1>3 DEF Admitted, Over
  <1>7. m = "execute" => /\ \A d \in Clients : ~Executes(d)
                         /\ run.outcome = "NOT_STARTED" /\ target = "untouched"
    BY <1>6, NobodyExecutes DEF PipelineInv, PairPart
  <1>8. Dry[c] \in BOOLEAN
    BY SetupFacts DEF PipelineInv, Base
  <1>9. /\ x \in BOOLEAN /\ dr \in BOOLEAN
        /\ x <=> run.executing \/ m = "execute"
        /\ m = "execute" => dr = Dry[c]
        /\ m # "execute" => dr = run.dry
    BY <1>1, <1>8, RunTypes
  <1>. HIDE DEF o, m, cs, x, dr
  <1>10. /\ q \in Session /\ q.executing = x /\ q.dry = dr /\ q.busy = run.busy
         /\ q.status = run.status /\ q.outcome = run.outcome /\ q.closed = run.closed
    BY <1>1, <1>9 DEF Session
  <1>11. /\ k \in Client /\ k.call = m /\ k.todo = o.todo /\ k.inside = o.inside
    BY <1>1, <1>2 DEF Client
  <1>. HIDE DEF k, q
  <1>12. TodoPart(k)
    BY <1>1, <1>11 DEF TodoPart
  <1>13. ExecPart(c, k, q) /\ WholePart(q, staging, target)
    BY <1>1, <1>7, <1>9, <1>10, <1>11, OwnFacts DEF ExecPart, WholePart
  <1>14. Change(c, k, q, staging, target)
    BY Still, <1>1, <1>3, <1>4, <1>5, <1>6, <1>7, <1>9, <1>10, <1>11, <1>12, <1>13 DEF Change, Over
  <1>15. Settled(c, q, target)
    BY Still, <1>1, <1>4, <1>10 DEF Settled, Denies
  <1>. QED BY <1>3, <1>1, <1>5, <1>10, <1>14, <1>15, TerminalMoved

(* the end of the run_started hooks, *)
LEMMA FirstStep ==
    ASSUME PipelineInv, NEW c \in Clients, First(c)
    PROVE  PipelineInv'
  <1> DEFINE o == client[c]
             q == [run EXCEPT !.started = TRUE]
  <1>1. /\ o \in Client /\ o.pc = "first" /\ o.inside /\ o.todo # <<>> /\ run \in Session
        /\ o.call = "execute" => run.outcome = "NOT_STARTED" /\ target = "untouched"
    BY OwnFacts DEF First, StagePart, LoadPart, Early, StagePC
  <1>2. EnterStage(c, q, o) /\ UNCHANGED <<setup, closer, staging, target>>
    BY DEF First
  <1>3. /\ q \in Session /\ q.status = run.status /\ q.outcome = run.outcome /\ q.dry = run.dry
        /\ q.busy = run.busy /\ q.executing = run.executing /\ q.closed = run.closed
    BY <1>1 DEF Session
  <1>4. o = client[c]
    OBVIOUS
  <1>. HIDE DEF q, o
  <1>5. Change(c, o, q, staging, target)
    BY Still, <1>3, <1>4 DEF Change, ExecPart, WholePart, Over
  <1>6. Settled(c, q, target)
    BY Still, <1>1, <1>3, <1>4 DEF Settled, Denies
  <1>7. Same(c, o, q)
    BY <1>3, <1>4 DEF Same
  <1>. QED BY <1>1, <1>2, <1>3, <1>5, <1>6, <1>7, StageMoved

(* the end of the stage_started hooks, *)
LEMMA AnnouncedStep ==
    ASSUME PipelineInv, NEW c \in Clients, Announced(c)
    PROVE  PipelineInv'
  <1> DEFINE o == client[c]
             h == Head(o.todo)
             p == IF run.dry \/ h \notin {"STAGING", "LOADING"} THEN "work"
                  ELSE IF h = "STAGING" THEN "begin" ELSE "load"
             k == [o EXCEPT !.pc = p]
  <1>1. /\ o \in Client /\ o.pc = "announce" /\ o.inside /\ o.todo # <<>> /\ TodoPart(o)
        /\ o.call = "execute" => run.outcome = "NOT_STARTED" /\ target = "untouched"
        /\ run.status \in {h} \cup Terminal /\ run \in Session
        /\ WholePart(run, staging, target)
    BY OwnFacts DEF Announced, StagePart, LoadPart, Early, StagePC
  <1>2. h \in {"STAGING", "LOADING"} => o.call = "execute"
    BY <1>1, FirstStage DEF TodoPart
  <1>3. p \in PC
    BY PCNames
  <1>4. client' = [client EXCEPT ![c] = k] /\ UNCHANGED <<setup, run, log, closer, staging, target>>
    BY DEF Announced, Become
  <1>5. /\ p \in {"work", "begin", "load"}
        /\ p = "work" => run.dry \/ h \notin {"STAGING", "LOADING"}
        /\ p = "begin" => ~run.dry /\ h = "STAGING"
        /\ p = "load" => ~run.dry /\ h = "LOADING"
    OBVIOUS
  <1>6. h = Head(o.todo) /\ o = client[c]
    OBVIOUS
  <1>. HIDE DEF o, h, p
  <1>7. /\ k \in Client /\ k.pc = p /\ k.call = o.call /\ k.todo = o.todo /\ k.inside = o.inside
    BY <1>1, <1>3 DEF Client
  <1>. HIDE DEF k
  <1>8. TodoPart(k)
    BY <1>1, <1>7 DEF TodoPart
  <1>9. Place(c, k, run, staging, target)
    <2>1. StagePart(k, run) /\ EndPart(k, run)
      BY <1>1, <1>5, <1>6, <1>7 DEF StagePart, EndPart
    <2>2. LoadPart(k, run, staging, target)
      BY <1>1, <1>2, <1>5, <1>6, <1>7 DEF LoadPart, Early, LoadPC
    <2>3. Settled(c, run, target)
      BY Still, <1>1, <1>6
    <2>. QED BY <2>1, <2>2, <2>3 DEF Place
  <1>10. Frame /\ log \in Log
    BY <1>4, OwnFacts DEF Frame
  <1>. QED BY <1>1, <1>4, <1>6, <1>7, <1>8, <1>9, <1>10, WorkMoved

(* the operation of a stage that writes nothing, *)
LEMMA WorkStep ==
    ASSUME PipelineInv, NEW c \in Clients, Work(c)
    PROVE  PipelineInv'
  <1> DEFINE o == client[c]
             h == Head(o.todo)
             dn == run.done \cup {h}
             out == IF h = "LOADING" THEN "DRY_RUN" ELSE run.outcome
             q == [run EXCEPT !.done = dn, !.outcome = out]
             k == [o EXCEPT !.pc = "complete"]
  <1>1. /\ o \in Client /\ o.pc = "work" /\ o.inside /\ o.todo # <<>> /\ TodoPart(o)
        /\ o.call = "execute" => run.outcome = "NOT_STARTED" /\ target = "untouched"
        /\ run.status \in {h} \cup Terminal /\ run \in Session
        /\ h = "LOADING" => run.dry
        /\ WholePart(run, staging, target)
    BY OwnFacts DEF Work, StagePart, LoadPart, Early, StagePC
  <1>2. h \in Stage /\ (h = "LOADING" => o.call = "execute")
    BY <1>1, FirstStage DEF TodoPart
  <1>3. dn \in SUBSET Stage /\ out \in Outcome
    BY <1>1, <1>2, RunTypes DEF Outcome
  <1>4. /\ client' = [client EXCEPT ![c] = k] /\ run' = q
        /\ UNCHANGED <<setup, log, closer, staging, target>>
    BY DEF Work, Become
  <1>5. /\ h = "LOADING" => out = "DRY_RUN"
        /\ h # "LOADING" => out = run.outcome
    OBVIOUS
  <1>6. h = Head(o.todo) /\ o = client[c]
    OBVIOUS
  <1>. HIDE DEF o, h, dn, out
  <1>7. /\ k \in Client /\ k.pc = "complete" /\ k.call = o.call /\ k.todo = o.todo /\ k.inside = o.inside
    BY <1>1, PCNames DEF Client
  <1>8. /\ q \in Session /\ q.status = run.status /\ q.outcome = out /\ q.dry = run.dry
        /\ q.busy = run.busy /\ q.executing = run.executing /\ q.closed = run.closed
    BY <1>1, <1>3 DEF Session
  <1>. HIDE DEF k, q
  <1>9. TodoPart(k)
    BY <1>1, <1>7 DEF TodoPart
  <1>10. WholePart(q, staging, target)
    BY <1>1, <1>2, <1>5, <1>8 DEF WholePart
  <1>11. Place(c, k, q, staging, target)
    <2>1. StagePart(k, q) /\ EndPart(k, q)
      BY <1>1, <1>6, <1>7, <1>8 DEF StagePart, EndPart
    <2>2. LoadPart(k, q, staging, target)
      BY <1>1, <1>5, <1>6, <1>7, <1>8 DEF LoadPart, Early, LoadPC
    <2>3. Settled(c, q, target)
      BY Still, <1>1, <1>2, <1>5, <1>6, <1>8 DEF Settled, Denies
    <2>. QED BY <2>1, <2>2, <2>3 DEF Place
  <1>12. Frame /\ log \in Log
    BY <1>4, OwnFacts DEF Frame
  <1>. QED BY <1>1, <1>2, <1>4, <1>5, <1>6, <1>7, <1>8, <1>9, <1>10, <1>11, <1>12, WorkMoved

(* and run.stop inside an operation. *)
LEMMA StopInsideStep ==
    ASSUME PipelineInv, NEW c \in Clients, StopInside(c)
    PROVE  PipelineInv'
  <1> DEFINE o == client[c]
             h == Head(o.todo)
  <1>1. /\ o \in Client /\ o.pc \in {"begin", "work"} /\ o.inside /\ o.todo # <<>> /\ TodoPart(o)
        /\ run \in Session /\ WholePart(run, staging, target)
        /\ o.call = "execute" => run.outcome = "NOT_STARTED" /\ target = "untouched"
        /\ h = "LOADING" => o.pc = "work" /\ run.dry
        /\ log \in Log
    BY OwnFacts DEF StopInside, StagePart, LoadPart, Early, StagePC
  <1>2. h = "LOADING" => o.call = "execute"
    BY <1>1, FirstStage DEF TodoPart
  <1>3. PICK r : /\ r = run \/ (h = "LOADING" /\ r = [run EXCEPT !.outcome = "DRY_RUN"])
                 /\ EnterTerminal(c, r, o, "NEEDS_REVIEW", log, 1)
                 /\ UNCHANGED <<setup, closer, staging, target>>
    BY DEF StopInside
  <1>4. /\ r \in Session /\ r.status = run.status /\ r.dry = run.dry
        /\ r.busy = run.busy /\ r.executing = run.executing /\ r.closed = run.closed
        /\ r.outcome = run.outcome \/ (h = "LOADING" /\ r.outcome = "DRY_RUN")
    <2>1. "DRY_RUN" \in Outcome
      BY DEF Outcome
    <2>. QED BY <1>1, <1>3, <2>1 DEF Session
  <1>5. "NEEDS_REVIEW" \in Terminal /\ 1 \in Nat /\ o = client[c]
    BY DEF Terminal
  <1>. HIDE DEF o, h
  <1>6. WholePart(r, staging, target)
    BY <1>1, <1>2, <1>4 DEF WholePart
  <1>7. Change(c, o, r, staging, target)
    BY Still, <1>2, <1>4, <1>5, <1>6 DEF Change, ExecPart, Over
  <1>8. Settled(c, r, target)
    BY Still, <1>1, <1>2, <1>4, <1>5 DEF Settled, Denies
  <1>9. Same(c, o, r)
    BY <1>4, <1>5 DEF Same
  <1>. QED BY <1>1, <1>3, <1>5, <1>7, <1>8, <1>9, TerminalMoved

(* A row that was written is a row. *)
LEMMA WrittenType ==
    ASSUME staging \in StagingRow,
           NEW x \in {"OPEN", "SEALED", "EXECUTING", "COMMITTED", "QUARANTINED",
                      "ROLLED_BACK", "FAILED", "CANCELLED", "UNKNOWN"}
    PROVE  Written(x) \in StagingRow /\ Written(x).status = x
  BY DEF Written, StagingRow

(* A client in the loader, or writing to the staging store. *)
LEMMA Loading ==
    ASSUME PipelineInv, NEW c \in Clients, client[c].pc \in LoadPC
    PROVE  /\ client[c].inside /\ client[c].todo # <<>> /\ client[c].call = "execute"
           /\ ~run.dry /\ run.outcome = "NOT_STARTED"
           /\ client[c].pc # "raised" => target = "untouched"
           /\ run.status \in {Head(client[c].todo)} \cup Terminal
           /\ Head(client[c].todo) = IF client[c].pc \in {"begin", "fill", "seal"}
                                     THEN "STAGING" ELSE "LOADING"
  BY OwnFacts DEF StagePart, LoadPart, Early, StagePC, LoadPC

(* The row is written while nothing is loaded. *)
LEMMA WrittenMoved ==
    ASSUME PipelineInv, NEW c \in Clients, NEW p \in PC, NEW r \in Session, NEW s \in StagingRow,
           client[c].pc \in {"begin", "fill", "seal", "load"},
           r.status = run.status, r.closed = run.closed, r.executing = run.executing,
           r.dry = run.dry, r.busy = run.busy, r.outcome = run.outcome,
           client' = [client EXCEPT ![c] = [client[c] EXCEPT !.pc = p]],
           run' = r, staging' = s, s.status # "COMMITTED",
           UNCHANGED <<setup, log, closer, target>>,
           \/ client[c].pc = "begin" /\ p = "fill"
           \/ client[c].pc = "fill" /\ p = "seal"
           \/ client[c].pc = "seal" /\ p = "complete"
           \/ client[c].pc = "load" /\ p = "writing" /\ s.status = "EXECUTING"
    PROVE  PipelineInv'
  <1> DEFINE o == client[c]
             h == Head(o.todo)
             k == [o EXCEPT !.pc = p]
  <1>1. /\ o \in Client /\ TodoPart(o) /\ log \in Log /\ target \in Target
        /\ WholePart(run, staging, target)
    BY OwnFacts
  <1>2. /\ o.inside /\ o.todo # <<>> /\ o.call = "execute" /\ ~run.dry
        /\ run.outcome = "NOT_STARTED" /\ target = "untouched" /\ run.status \in {h} \cup Terminal
        /\ h = IF o.pc \in {"begin", "fill", "seal"} THEN "STAGING" ELSE "LOADING"
    BY Loading DEF LoadPC
  <1>3. h = Head(o.todo) /\ o = client[c]
    OBVIOUS
  <1>. HIDE DEF o, h
  <1>4. client' = [client EXCEPT ![c] = k]
    BY DEF o
  <1>5. /\ k \in Client /\ k.pc = p /\ k.call = o.call /\ k.todo = o.todo /\ k.inside = o.inside
    BY <1>1 DEF Client
  <1>. HIDE DEF k
  <1>6. TodoPart(k)
    BY <1>1, <1>5 DEF TodoPart
  <1>7. WholePart(r, s, target)
    BY <1>1, <1>2 DEF WholePart
  <1>8. Place(c, k, r, s, target)
    <2>1. StagePart(k, r) /\ EndPart(k, r)
      BY <1>2, <1>3, <1>5 DEF StagePart, EndPart
    <2>2. LoadPart(k, r, s, target)
      BY <1>2, <1>3, <1>5 DEF LoadPart, Early, LoadPC
    <2>3. Settled(c, r, target)
      BY <1>2 DEF Settled, Denies
    <2>. QED BY <2>1, <2>2, <2>3 DEF Place
  <1>9. Frame
    BY <1>1 DEF Frame
  <1>10. target' = target
    OBVIOUS
  <1>. QED BY <1>2, <1>3, <1>4, <1>5, <1>6, <1>7, <1>8, <1>9, <1>10, WorkMoved

(* The writes to the staging store keep the invariant, *)
LEMMA StagingStep ==
    ASSUME PipelineInv, NEW c \in Clients, Begin(c) \/ Fill(c) \/ Seal(c) \/ Claim(c)
    PROVE  PipelineInv'
  <1>1. run \in Session /\ staging \in StagingRow
    BY OwnFacts
  <1>2. /\ Written("OPEN") \in StagingRow /\ Written("OPEN").status = "OPEN"
        /\ Written("SEALED") \in StagingRow /\ Written("SEALED").status = "SEALED"
        /\ Written("EXECUTING") \in StagingRow /\ Written("EXECUTING").status = "EXECUTING"
    BY <1>1, WrittenType
  <1>3. CASE Begin(c)
    <2> DEFINE q == [run EXCEPT !.context = TRUE]
    <2>1. /\ q \in Session /\ q.status = run.status /\ q.outcome = run.outcome /\ q.dry = run.dry
          /\ q.busy = run.busy /\ q.executing = run.executing /\ q.closed = run.closed
      BY <1>1 DEF Session
    <2>2. /\ run' = q /\ staging' = Written("OPEN") /\ client[c].pc = "begin"
          /\ client' = [client EXCEPT ![c] = [client[c] EXCEPT !.pc = "fill"]]
          /\ UNCHANGED <<setup, log, closer, target>>
      BY <1>3 DEF Begin, Become
    <2>. HIDE DEF q
    <2>. QED BY <1>2, <2>1, <2>2, PCNames, WrittenMoved
  <1>4. CASE Fill(c)
    <2>1. /\ run' = run /\ staging' = Written("OPEN") /\ client[c].pc = "fill"
          /\ client' = [client EXCEPT ![c] = [client[c] EXCEPT !.pc = "seal"]]
          /\ UNCHANGED <<setup, log, closer, target>>
      BY <1>4 DEF Fill, Become
    <2>. QED BY <1>1, <1>2, <2>1, PCNames, WrittenMoved
  <1>5. CASE Seal(c)
    <2> DEFINE dn == run.done \cup {"STAGING"}
               q == [run EXCEPT !.done = dn]
    <2>1. dn \in SUBSET Stage
      BY <1>1, RunTypes, StageNames
    <2>2. /\ run' = q /\ staging' = Written("SEALED") /\ client[c].pc = "seal"
          /\ client' = [client EXCEPT ![c] = [client[c] EXCEPT !.pc = "complete"]]
          /\ UNCHANGED <<setup, log, closer, target>>
      BY <1>5 DEF Seal, Become
    <2>. HIDE DEF dn
    <2>3. /\ q \in Session /\ q.status = run.status /\ q.outcome = run.outcome /\ q.dry = run.dry
          /\ q.busy = run.busy /\ q.executing = run.executing /\ q.closed = run.closed
      BY <1>1, <2>1 DEF Session
    <2>. HIDE DEF q
    <2>. QED BY <1>2, <2>2, <2>3, PCNames, WrittenMoved
  <1>6. CASE Claim(c)
    <2>1. /\ run' = run /\ staging' = Written("EXECUTING") /\ client[c].pc = "load"
          /\ client' = [client EXCEPT ![c] = [client[c] EXCEPT !.pc = "writing"]]
          /\ UNCHANGED <<setup, log, closer, target>>
      BY <1>6 DEF Claim, Become
    <2>. QED BY <1>1, <1>2, <2>1, PCNames, WrittenMoved
  <1>. QED BY <1>3, <1>4, <1>5, <1>6

(* so does a write whose answer is lost, *)
LEMMA LostWriteStep ==
    ASSUME PipelineInv, NEW c \in Clients, NEW kind \in Kind \ {"unknown"}, LostWrite(c, kind)
    PROVE  PipelineInv'
  <1>1. /\ client[c].pc \in {"begin", "fill", "seal"}
        /\ staging' = Written("OPEN") \/ staging' = Written("SEALED")
        /\ Fail(c, run, client[c], kind)
        /\ setup' = setup /\ closer' = closer /\ target' = target
    BY DEF LostWrite
  <1>2. staging \in StagingRow /\ WholePart(run, staging, target)
    BY OwnFacts
  <1>3. /\ Written("OPEN") \in StagingRow /\ Written("OPEN").status = "OPEN"
        /\ Written("SEALED") \in StagingRow /\ Written("SEALED").status = "SEALED"
    BY <1>2, WrittenType
  <1>4. PICK s \in StagingRow : s = staging' /\ s.status # "COMMITTED"
    BY <1>1, <1>3
  <1>5. WholePart(run, s, target)
    BY <1>2, <1>4 DEF WholePart
  <1>6. client[c].call = "execute"
    BY <1>1, Loading DEF LoadPC
  <1>7. Change(c, client[c], run, s, target)
    BY Still, <1>5, <1>6 DEF Change
  <1>8. Settled(c, run, target) /\ Same(c, client[c], run)
    BY Still, <1>1
  <1>. QED BY <1>1, <1>4, <1>7, <1>8, FailMoved

(* and any other failure inside perform. *)
LEMMA FailsStep ==
    ASSUME PipelineInv, NEW c \in Clients, NEW kind \in Kind \ {"unknown"}, Fails(c, kind)
    PROVE  PipelineInv'
  <1>1. /\ client[c].pc # "raised" /\ Fail(c, run, client[c], kind)
        /\ setup' = setup /\ closer' = closer /\ staging' = staging /\ target' = target
    BY DEF Fails
  <1>2. /\ Change(c, client[c], run, staging, target)
        /\ Settled(c, run, target) /\ Same(c, client[c], run)
    BY Still, <1>1
  <1>. QED BY <1>1, <1>2, FailMoved

(* The loader has raised; the row and the target are what it left. *)
LEMMA RaisedMoved ==
    ASSUME PipelineInv, NEW c \in Clients, NEW kind \in Kind,
           NEW s \in StagingRow, NEW t \in Target,
           client[c].pc \in {"load", "writing"}, Raised(c, kind),
           UNCHANGED <<setup, run, log, closer>>, staging' = s, target' = t,
           s.status = "COMMITTED" => t = "loaded",
           t = "loaded" => s.status \in {"COMMITTED", "EXECUTING", "UNKNOWN"} \cup LostAfter
    PROVE  PipelineInv'
  <1> DEFINE o == client[c]
             h == Head(o.todo)
             k == [o EXCEPT !.pc = "raised", !.kind = kind]
  <1>1. /\ o \in Client /\ TodoPart(o) /\ log \in Log /\ run \in Session
        /\ WholePart(run, staging, target)
    BY OwnFacts
  <1>2. /\ o.inside /\ o.todo # <<>> /\ o.call = "execute" /\ ~run.dry
        /\ run.outcome = "NOT_STARTED" /\ run.status \in {h} \cup Terminal /\ h = "LOADING"
    BY Loading DEF LoadPC
  <1>3. h = Head(o.todo) /\ o = client[c] /\ client' = [client EXCEPT ![c] = k]
    BY DEF Raised, Become
  <1>. HIDE DEF o, h
  <1>4. /\ k \in Client /\ k.pc = "raised" /\ k.call = o.call /\ k.todo = o.todo /\ k.inside = o.inside
    BY <1>1, PCNames DEF Client
  <1>. HIDE DEF k
  <1>5. TodoPart(k)
    BY <1>1, <1>4 DEF TodoPart
  <1>6. WholePart(run, s, t)
    BY <1>1, <1>2 DEF WholePart
  <1>7. Place(c, k, run, s, t)
    <2>1. StagePart(k, run) /\ EndPart(k, run)
      BY <1>2, <1>3, <1>4 DEF StagePart, EndPart
    <2>2. LoadPart(k, run, s, t)
      BY <1>2, <1>3, <1>4 DEF LoadPart, Early, LoadPC
    <2>. QED BY <1>4, <2>1, <2>2 DEF Place
  <1>8. Frame
    BY <1>1 DEF Frame
  <1>9. run' = run
    OBVIOUS
  <1>. QED BY <1>2, <1>3, <1>4, <1>5, <1>6, <1>7, <1>8, <1>9, WorkMoved

(* The loader has answered: the target has the rows of this plan. *)
LEMMA ReceivedMoved ==
    ASSUME PipelineInv, NEW c \in Clients, NEW rejected,
           NEW s \in StagingRow, NEW t \in Target \ {"untouched"},
           client[c].pc \in {"load", "writing"}, Received(c, rejected),
           UNCHANGED <<setup, closer>>, staging' = s, target' = t,
           s.status = "COMMITTED" => t = "loaded"
    PROVE  PipelineInv'
  <1> DEFINE o == client[c]
             h == Head(o.todo)
             dn == run.done \cup {"LOADING"}
             q == [run EXCEPT !.outcome = "COMMITTED", !.done = dn]
             k == [o EXCEPT !.pc = "complete"]
  <1>1. /\ o \in Client /\ TodoPart(o) /\ log \in Log /\ run \in Session
        /\ WholePart(run, staging, target)
    BY OwnFacts
  <1>2. /\ o.inside /\ o.todo # <<>> /\ o.call = "execute" /\ ~run.dry
        /\ run.status \in {h} \cup Terminal /\ h = "LOADING"
    BY Loading DEF LoadPC
  <1>3. /\ h = Head(o.todo) /\ o = client[c] /\ client' = [client EXCEPT ![c] = k] /\ run' = q
    BY DEF Received, Become
  <1>4. log' \in Log
    <2>1. Noted({"REJECTED_RECORDS"}) \in Log
      BY <1>1, NotedType DEF Note
    <2>. QED BY <1>1, <2>1 DEF Received
  <1>5. dn \in SUBSET Stage /\ "COMMITTED" \in Outcome
    BY <1>1, RunTypes, StageNames DEF Outcome
  <1>. HIDE DEF o, h, dn
  <1>6. /\ k \in Client /\ k.pc = "complete" /\ k.call = o.call /\ k.todo = o.todo /\ k.inside = o.inside
    BY <1>1, PCNames DEF Client
  <1>7. /\ q \in Session /\ q.status = run.status /\ q.outcome = "COMMITTED" /\ q.dry = run.dry
        /\ q.busy = run.busy /\ q.executing = run.executing /\ q.closed = run.closed
    BY <1>1, <1>5 DEF Session
  <1>. HIDE DEF k, q
  <1>8. TodoPart(k)
    BY <1>1, <1>6 DEF TodoPart
  <1>9. WholePart(q, s, t)
    BY <1>1, <1>2, <1>7 DEF WholePart
  <1>10. Place(c, k, q, s, t)
    <2>1. StagePart(k, q) /\ EndPart(k, q)
      BY <1>2, <1>3, <1>6, <1>7 DEF StagePart, EndPart
    <2>2. LoadPart(k, q, s, t)
      BY <1>2, <1>3, <1>6, <1>7 DEF LoadPart, Early, LoadPC
    <2>3. Settled(c, q, t)
      BY <1>7 DEF Settled, Denies
    <2>. QED BY <2>1, <2>2, <2>3 DEF Place
  <1>11. Frame
    BY <1>4 DEF Frame
  <1>. QED BY <1>2, <1>3, <1>6, <1>7, <1>8, <1>9, <1>10, <1>11, WorkMoved

(* The row as the loader leaves it, given the status it finalised with. *)
LEMMA FinalRow ==
    ASSUME PipelineInv, NEW c \in Clients, client[c].pc = "writing",
           NEW final \in {"COMMITTED", "QUARANTINED", "EXECUTING", "ROLLED_BACK", "CANCELLED", "UNKNOWN"},
           staging' = IF final = "EXECUTING" THEN staging ELSE Written(final)
    PROVE  staging' \in StagingRow /\ staging'.status = final
  <1>1. staging \in StagingRow /\ staging.status = "EXECUTING"
    BY OwnFacts DEF LoadPart
  <1>. QED BY <1>1, WrittenType

(* The loader may refuse, *)
LEMMA LoadRefusedStep ==
    ASSUME PipelineInv, NEW c \in Clients, NEW kind \in Kind, LoadRefused(c, kind)
    PROVE  PipelineInv'
  <1>1. /\ client[c].pc = "load" /\ Raised(c, kind)
        /\ UNCHANGED <<setup, run, log, closer>> /\ staging' = staging /\ target' = target
    BY DEF LoadRefused
  <1>2. staging \in StagingRow /\ target \in Target /\ WholePart(run, staging, target)
    BY OwnFacts
  <1>3. target = "untouched"
    BY <1>1, Loading DEF LoadPC
  <1>. QED BY <1>1, <1>2, <1>3, RaisedMoved DEF WholePart

(* answer with an earlier receipt, *)
LEMMA ReplayStep ==
    ASSUME PipelineInv, NEW c \in Clients, Replay(c)
    PROVE  PipelineInv'
  <1>1. /\ client[c].pc = "load" /\ Received(c, FALSE) /\ target = "untouched"
        /\ UNCHANGED <<setup, closer>> /\ staging' = staging /\ target' = "replayed"
    BY DEF Replay
  <1>2. staging \in StagingRow /\ "replayed" \in Target \ {"untouched"}
        /\ staging.status # "COMMITTED"
    BY <1>1, OwnFacts DEF WholePart, Target
  <1>. QED BY <1>1, <1>2, ReceivedMoved

(* commit, whatever becomes of the receipt and of the row, *)
LEMMA LoadStepKeeps ==
    ASSUME PipelineInv, NEW c \in Clients, NEW final \in {"COMMITTED", "QUARANTINED", "EXECUTING"},
           Load(c, final)
    PROVE  PipelineInv'
  <1>1. /\ client[c].pc = "writing" /\ target' = "loaded"
        /\ staging' = IF final = "EXECUTING" THEN staging ELSE Written(final)
        /\ setup' = setup /\ closer' = closer
    BY DEF Load
  <1>2. staging' \in StagingRow /\ staging'.status = final
    BY <1>1, FinalRow
  <1>3. /\ "loaded" \in Target \ {"untouched"}
        /\ run \in Session /\ WholePart(run, staging, target)
        /\ ~run.dry /\ client[c].call = "execute"
    BY <1>1, OwnFacts, Loading DEF Target, LoadPC
  <1> DEFINE s == staging'
  <1>4. s \in StagingRow /\ s.status = final /\ staging' = s
    BY <1>2
  <1>. HIDE DEF s
  <1>5. CASE Received(c, final = "QUARANTINED")
    BY <1>1, <1>3, <1>4, <1>5, ReceivedMoved
  <1>6. CASE Fail(c, run, client[c], "unknown")
    <2>1. WholePart(run, s, "loaded")
      BY <1>3, <1>4 DEF WholePart
    <2>2. Change(c, client[c], run, s, "loaded")
      BY Still, <1>3, <2>1 DEF Change
    <2>. QED BY Still, <1>1, <1>3, <1>4, <1>6, <2>2, FailMoved
  <1>7. CASE Fail(c, [run EXCEPT !.outcome = "COMMITTED"], client[c], "error")
    <2> DEFINE q == [run EXCEPT !.outcome = "COMMITTED"]
    <2>1. /\ q \in Session /\ q.status = run.status /\ q.outcome = "COMMITTED" /\ q.dry = run.dry
          /\ q.busy = run.busy /\ q.executing = run.executing /\ q.closed = run.closed
      <3>1. "COMMITTED" \in Outcome
        BY DEF Outcome
      <3>. QED BY <1>3, <3>1 DEF Session
    <2>2. Fail(c, q, client[c], "error")
      BY <1>7
    <2>. HIDE DEF q
    <2>3. WholePart(q, s, "loaded")
      BY <1>3, <1>4, <2>1 DEF WholePart
    <2>4. Change(c, client[c], q, s, "loaded")
      BY Still, <1>3, <2>1, <2>3 DEF Change, ExecPart, Over
    <2>5. Settled(c, q, "loaded") /\ Same(c, client[c], q)
      BY Still, <2>1 DEF Settled, Denies, Same
    <2>. QED BY <1>1, <1>4, <2>2, <2>4, <2>5, FailMoved
  <1>8. CASE /\ final \in LostAfter
             /\ \E kind \in Kind \ {"unknown"} : Raised(c, kind)
             /\ UNCHANGED <<run, log>>
    <2>1. PICK kind \in Kind : Raised(c, kind)
      BY <1>8
    <2>. QED BY <1>1, <1>3, <1>4, <1>8, <2>1, RaisedMoved
  <1>. QED BY <1>5, <1>6, <1>7, <1>8 DEF Load

(* roll back, *)
LEMMA RollBackStep ==
    ASSUME PipelineInv, NEW c \in Clients, NEW kind \in Kind,
           NEW final \in {"ROLLED_BACK", "CANCELLED", "EXECUTING"}, RollBack(c, kind, final)
    PROVE  PipelineInv'
  <1>1. /\ client[c].pc = "writing" /\ Raised(c, kind)
        /\ staging' = IF final = "EXECUTING" THEN staging ELSE Written(final)
        /\ UNCHANGED <<setup, run, log, closer>> /\ target' = target
    BY DEF RollBack
  <1>2. staging' \in StagingRow /\ staging'.status = final
    BY <1>1, FinalRow
  <1>3. target \in Target /\ target = "untouched"
    BY <1>1, OwnFacts, Loading DEF LoadPC
  <1> DEFINE s == staging'
  <1>4. s \in StagingRow /\ s.status = final /\ staging' = s
    BY <1>2
  <1>. HIDE DEF s
  <1>. QED BY <1>1, <1>3, <1>4, RaisedMoved

(* or not know whether it committed. *)
LEMMA LoadUnknownStep ==
    ASSUME PipelineInv, NEW c \in Clients, NEW final \in {"UNKNOWN", "EXECUTING"},
           LoadUnknown(c, final)
    PROVE  PipelineInv'
  <1>1. /\ client[c].pc = "writing" /\ Raised(c, "unknown") /\ "unknown" \in Kind
        /\ staging' = IF final = "EXECUTING" THEN staging ELSE Written(final)
        /\ UNCHANGED <<setup, run, log, closer>> /\ target' \in {"untouched", "loaded"}
    BY DEF LoadUnknown, Kind
  <1>2. staging' \in StagingRow /\ staging'.status = final
    BY <1>1, FinalRow
  <1> DEFINE s == staging'
             t == target'
  <1>4. s \in StagingRow /\ s.status = final /\ staging' = s /\ t \in Target /\ target' = t
    BY <1>1, <1>2 DEF Target
  <1>. HIDE DEF s, t
  <1>. QED BY <1>1, <1>4, RaisedMoved

(* What the row says of the target after the loader raised. *)
LEMMA OutcomeOfRow ==
    ASSUME PipelineInv, NEW c \in Clients, client[c].pc = "raised"
    PROVE  LET o == OutcomeOf(staging.status) IN
           /\ o \in {"NOT_STARTED", "ROLLED_BACK", "COMMITTED", "UNKNOWN"}
           /\ o = "COMMITTED" => target = "loaded"
           /\ target = "loaded" => Lossy \/ o \in {"COMMITTED", "UNKNOWN"}
  <1>1. /\ WholePart(run, staging, target) /\ LoadPart(client[c], run, staging, target)
    BY OwnFacts
  <1>2. LostAfter \subseteq {"COMMITTED", "QUARANTINED", "EXECUTING"}
    BY SetupFacts DEF PipelineInv, Base
  <1>3. run.outcome = "NOT_STARTED"
    BY <1>1 DEF LoadPart
  <1>. QED BY <1>1, <1>2, <1>3 DEF WholePart, LoadPart, OutcomeOf, Lossy

(* Reconciliation keeps the invariant: the row decides what the result      *)
(* says,                                                                    *)
LEMMA ConsultStep ==
    ASSUME PipelineInv, NEW c \in Clients, Consult(c)
    PROVE  PipelineInv'
  <1> DEFINE out == OutcomeOf(staging.status)
             q == [run EXCEPT !.outcome = out]
  <1>1. /\ client[c].pc = "raised" /\ Fail(c, q, client[c], client[c].kind)
        /\ setup' = setup /\ closer' = closer /\ staging' = staging /\ target' = target
    BY DEF Consult
  <1>2. /\ run \in Session /\ WholePart(run, staging, target)
        /\ ~run.dry /\ client[c].call = "execute"
    BY <1>1, OwnFacts, Loading DEF LoadPC
  <1>3. /\ out \in {"NOT_STARTED", "ROLLED_BACK", "COMMITTED", "UNKNOWN"}
        /\ out = "COMMITTED" => target = "loaded"
        /\ target = "loaded" => Lossy \/ out \in {"COMMITTED", "UNKNOWN"}
    BY <1>1, OutcomeOfRow
  <1>. HIDE DEF out
  <1>4. /\ q \in Session /\ q.status = run.status /\ q.outcome = out /\ q.dry = run.dry
        /\ q.busy = run.busy /\ q.executing = run.executing /\ q.closed = run.closed
    <2>1. out \in Outcome
      BY <1>3 DEF Outcome
    <2>. QED BY <1>2, <2>1 DEF Session
  <1>. HIDE DEF q
  <1>5. WholePart(q, staging, target)
    BY <1>2, <1>3, <1>4 DEF WholePart
  <1>6. Change(c, client[c], q, staging, target)
    BY Still, <1>2, <1>4, <1>5 DEF Change, ExecPart, Over
  <1>7. Settled(c, q, target) /\ Same(c, client[c], q)
    BY Still, <1>3, <1>4 DEF Settled, Denies, Same
  <1>. QED BY <1>1, <1>2, <1>6, <1>7, FailMoved

(* and a row that cannot be read makes the outcome UNKNOWN. *)
LEMMA ConsultFailsStep ==
    ASSUME PipelineInv, NEW c \in Clients, ConsultFails(c)
    PROVE  PipelineInv'
  <1> DEFINE q == [run EXCEPT !.outcome = "UNKNOWN"]
             l == Noted({"OUTCOME_UNAVAILABLE"})
             goal == StatusAfter(client[c].kind, "UNKNOWN")
  <1>1. /\ client[c].pc = "raised" /\ EnterTerminal(c, q, client[c], goal, l, 1)
        /\ setup' = setup /\ closer' = closer /\ staging' = staging /\ target' = target
    BY DEF ConsultFails
  <1>2. /\ run \in Session /\ WholePart(run, staging, target)
        /\ ~run.dry /\ client[c].call = "execute"
    BY <1>1, OwnFacts, Loading DEF LoadPC
  <1>3. goal \in Terminal /\ l \in Log /\ 1 \in Nat
    BY StatusAfterType, NotedType, OwnFacts DEF Note
  <1>4. /\ q \in Session /\ q.status = run.status /\ q.outcome = "UNKNOWN" /\ q.dry = run.dry
        /\ q.busy = run.busy /\ q.executing = run.executing /\ q.closed = run.closed
    <2>1. "UNKNOWN" \in Outcome
      BY DEF Outcome
    <2>. QED BY <1>2, <2>1 DEF Session
  <1>. HIDE DEF q, l, goal
  <1>5. WholePart(q, staging, target)
    BY <1>2, <1>4 DEF WholePart
  <1>6. Change(c, client[c], q, staging, target)
    BY Still, <1>2, <1>4, <1>5 DEF Change, ExecPart, Over
  <1>7. Settled(c, q, target) /\ Same(c, client[c], q)
    BY Still, <1>4 DEF Settled, Denies, Same
  <1>. QED BY <1>1, <1>3, <1>6, <1>7, TerminalMoved
-----------------------------
(* The end of a stage. *)

(* A stage has ended: the next one begins, execute goes on to terminal, or  *)
(* the call returns.                                                        *)
LEMMA AdvanceKeeps ==
    ASSUME PipelineInv, NEW c \in Clients, NEW l \in Log, client[c].pc = "complete",
           Advance(c, l), UNCHANGED <<setup, closer, staging, target>>
    PROVE  PipelineInv'
  <1> DEFINE o == client[c]
             left == Tail(o.todo)
             free == [run EXCEPT !.busy = FALSE]
             on == [o EXCEPT !.todo = left]
             out == [o EXCEPT !.todo = left, !.inside = FALSE]
  <1>1. /\ o \in Client /\ TodoPart(o) /\ log \in Log /\ run \in Session
        /\ WholePart(run, staging, target) /\ o.pc = "complete"
        /\ o.inside /\ o.todo # <<>>
        /\ o.call = "execute" /\ Head(o.todo) # "LOADING" =>
              run.outcome = "NOT_STARTED" /\ target = "untouched"
        /\ LoadPart(o, run, staging, target) /\ ExecPart(c, o, run)
    BY OwnFacts DEF StagePart, LoadPart, Early, StagePC
  <1>2. /\ 1 \in DOMAIN o.todo /\ Len(o.todo) \in DOMAIN o.todo
        /\ Head(o.todo) = o.todo[1] /\ left \in Seq(Stage)
        /\ \A i \in DOMAIN left : i + 1 \in DOMAIN o.todo /\ left[i] = o.todo[i + 1]
        /\ Len(left) = Len(o.todo) - 1
        /\ left = <<>> => Len(o.todo) = 1
    BY <1>1, FirstStage
  <1>3. \/ left # <<>> /\ EnterStage(c, run, on)
        \/ /\ left = <<>> /\ o.call = "execute"
           /\ EnterTerminal(c, free, out,
                 IF l.notes # {} THEN "COMPLETED_WITH_WARNINGS" ELSE "COMPLETED", l, 0)
        \/ /\ left = <<>> /\ o.call # "execute"
           /\ run' = free /\ Become(c, [out EXCEPT !.pc = "idle"]) /\ log' = log
    BY DEF Advance
  <1>4. o.call = client[c].call /\ o.inside = client[c].inside /\ o.pc = client[c].pc
    OBVIOUS
  <1> DEFINE n == Len(o.todo)
  <1>5. n \in Nat /\ DOMAIN o.todo = 1..n
    <2>1. o.todo \in Seq(Stage)
      BY <1>1 DEF Client
    <2>. QED BY <2>1
  <1>6. Len(left) = n - 1 /\ DOMAIN left = 1..Len(left)
    BY <1>2
  <1>7. left # <<>> => Len(left) # 0
    <2>1. left \in Seq(Stage)
      BY <1>2
    <2>. HIDE DEF left
    <2>. QED BY <2>1
  <1>8. \A i \in DOMAIN left :
          /\ o.call # "execute" => left[i] \notin {"STAGING", "LOADING"}
          /\ o.call = "execute" => (left[i] = "LOADING" <=> i = Len(left))
          /\ left[i] = "SEMANTIC_PARSING" => o.call = "parse_semantically"
    <2> TAKE i \in DOMAIN left
    <2>1. i \in Nat /\ i + 1 \in DOMAIN o.todo /\ left[i] = o.todo[i + 1]
      BY <1>2, <1>5, <1>6
    <2>. HIDE DEF left
    <2>2. i + 1 = Len(o.todo) <=> i = Len(left)
      BY <2>1, <1>5, <1>6 DEF n
    <2>. QED BY <2>1, <2>2, <1>1 DEF TodoPart
  <1>9. left # <<>> => (o.call = "execute" => Head(o.todo) # "LOADING")
    <2>1. ASSUME left # <<>> PROVE 1 # n
      BY <2>1, <1>5, <1>6, <1>7
    <2>. QED BY <2>1, <1>1, <1>2 DEF TodoPart, n
  <1>10. /\ run.busy
         /\ left \in Seq(Stage)
    BY <1>1, <1>2 DEF ExecPart
  <1>11. CASE left # <<>> /\ EnterStage(c, run, on)
    <2>1. EnterStage(c, run, on)
      BY <1>11
    <2>. HIDE DEF o, left, n
    <2>2. /\ on \in Client /\ on.pc = o.pc /\ on.call = o.call /\ on.todo = left /\ on.inside = o.inside
      BY <1>1, <1>10 DEF Client
    <2>. HIDE DEF on
    <2>3. TodoPart(on)
      BY <1>8, <2>2 DEF TodoPart
    <2>4. Change(c, on, run, staging, target)
      BY Still, <1>4, <2>2, <2>3 DEF Change, ExecPart
    <2>5. Settled(c, run, target) /\ Same(c, on, run)
      BY Still, <1>1, <1>4, <2>2 DEF Same
    <2>6. /\ on.call = "execute" => run.outcome = "NOT_STARTED" /\ target = "untouched"
          /\ on.inside /\ on.todo # <<>>
      BY <1>1, <1>9, <1>11, <2>2
    <2>. QED BY <2>1, <2>4, <2>5, <2>6, StageMoved
  <1>12. ASSUME left = <<>>
         PROVE  /\ out \in Client /\ out.pc = "complete" /\ out.call = o.call /\ out.todo = <<>>
                /\ out.inside = FALSE /\ TodoPart(out)
                /\ free \in Session /\ free.status = run.status /\ free.outcome = run.outcome
                /\ free.dry = run.dry /\ free.executing = run.executing
                /\ free.closed = run.closed /\ free.busy = FALSE
                /\ WholePart(free, staging, target)
                /\ Change(c, out, free, staging, target)
                /\ Settled(c, free, target) /\ Same(c, out, free)
    <2>. HIDE DEF o, left, n
    <2>2. /\ out \in Client /\ out.pc = o.pc /\ out.call = o.call /\ out.todo = left /\ out.inside = FALSE
      BY <1>1, <1>10 DEF Client
    <2>3. /\ free \in Session /\ free.status = run.status /\ free.outcome = run.outcome
          /\ free.dry = run.dry /\ free.executing = run.executing
          /\ free.closed = run.closed /\ free.busy = FALSE
      BY <1>1 DEF Session
    <2>. HIDE DEF out, free
    <2>4. TodoPart(out)
      BY <1>12, <2>2 DEF TodoPart
    <2>5. WholePart(free, staging, target)
      BY <1>1, <2>3 DEF WholePart
    <2>6. Change(c, out, free, staging, target)
      <3>1. free.busy = IF client[c].inside THEN out.inside ELSE run.busy
        BY <1>1, <1>4, <2>2, <2>3
      <3>. QED BY <1>1, <1>4, <2>2, <2>3, <2>4, <2>5, <3>1, Kept
    <2>7. Settled(c, free, target) /\ Same(c, out, free)
      BY Still, <1>1, <1>4, <2>2, <2>3 DEF Settled, Denies, Same
    <2>. QED BY <1>1, <1>12, <2>2, <2>3, <2>4, <2>5, <2>6, <2>7
  <1>13. CASE /\ left = <<>> /\ o.call = "execute"
              /\ EnterTerminal(c, free, out,
                    IF l.notes # {} THEN "COMPLETED_WITH_WARNINGS" ELSE "COMPLETED", l, 0)
    <2> DEFINE goal == IF l.notes # {} THEN "COMPLETED_WITH_WARNINGS" ELSE "COMPLETED"
    <2>1. goal \in Terminal /\ 0 \in Nat
      BY DEF Terminal
    <2>2. EnterTerminal(c, free, out, goal, l, 0)
      BY <1>13
    <2>. HIDE DEF goal, free, out
    <2>. QED BY <1>12, <1>13, <2>1, <2>2, TerminalMoved
  <1>14. CASE /\ left = <<>> /\ o.call # "execute"
              /\ run' = free /\ Become(c, [out EXCEPT !.pc = "idle"]) /\ log' = log
    <2> DEFINE k == [out EXCEPT !.pc = "idle"]
    <2>1. run' = free /\ client' = [client EXCEPT ![c] = k] /\ Frame
      BY <1>1, <1>14 DEF Become, Frame
    <2>. HIDE DEF o, left, n, out, free
    <2>2. /\ k \in Client /\ k.pc = "idle" /\ k.call = o.call /\ k.todo = <<>> /\ k.inside = FALSE
      BY <1>12, <1>14, PCNames DEF Client
    <2>. HIDE DEF k
    <2>3. TodoPart(k)
      BY <2>2 DEF TodoPart
    <2>4. Change(c, k, free, staging, target)
      <3>1. free.busy = IF client[c].inside THEN k.inside ELSE run.busy
        BY <1>1, <1>4, <1>12, <1>14, <2>2
      <3>. QED BY <1>1, <1>4, <1>12, <1>14, <2>2, <2>3, <3>1, Kept
    <2>5. Place(c, k, free, staging, target)
      BY <1>12, <1>14, <2>2 DEF Place, StagePart, EndPart, LoadPart, Early, StagePC, LoadPC
    <2>6. Moved(c, k, free, staging, target)
      BY <2>1, <2>4, <2>5 DEF Moved
    <2>. QED BY <2>6, MovedKeeps
  <1>. QED BY <1>3, <1>11, <1>13, <1>14

(* The stage_completed hooks end, *)
LEMMA CompleteStep ==
    ASSUME PipelineInv, NEW c \in Clients, Complete(c)
    PROVE  PipelineInv'
  BY OwnFacts, AdvanceKeeps DEF Complete

(* or fail, *)
LEMMA CompleteFailsStep ==
    ASSUME PipelineInv, NEW c \in Clients, NEW kind \in Kind \ {"unknown"}, CompleteFails(c, kind)
    PROVE  PipelineInv'
  <1>1. /\ client[c].pc = "complete" /\ UNCHANGED <<setup, closer, staging, target>>
        /\ Advance(c, Noted({"HOOK_FAILED_AFTER_COMMIT"})) \/ Fail(c, run, client[c], kind)
    BY DEF CompleteFails
  <1>2. CASE Advance(c, Noted({"HOOK_FAILED_AFTER_COMMIT"}))
    <2>1. Noted({"HOOK_FAILED_AFTER_COMMIT"}) \in Log
      BY NotedType, OwnFacts DEF Note
    <2>. QED BY <1>1, <1>2, <2>1, AdvanceKeeps
  <1>3. CASE Fail(c, run, client[c], kind)
    <2>1. /\ Change(c, client[c], run, staging, target)
          /\ Settled(c, run, target) /\ Same(c, client[c], run)
      BY Still, <1>1
    <2>. QED BY <1>1, <1>3, <2>1, FailMoved
  <1>. QED BY <1>1, <1>2, <1>3

(* or the call stops the run between two stages. *)
LEMMA StopBetweenStep ==
    ASSUME PipelineInv, NEW c \in Clients, StopBetween(c)
    PROVE  PipelineInv'
  <1> DEFINE o == client[c]
             free == [run EXCEPT !.busy = FALSE]
             out == [o EXCEPT !.inside = FALSE]
  <1>1. /\ o \in Client /\ TodoPart(o) /\ log \in Log /\ run \in Session
        /\ WholePart(run, staging, target) /\ o.pc = "complete" /\ o.inside
    BY OwnFacts DEF StopBetween, StagePart, StagePC
  <1>2. /\ EnterTerminal(c, free, out, "NEEDS_REVIEW", log, 1)
        /\ UNCHANGED <<setup, closer, staging, target>>
    BY DEF StopBetween
  <1>3. /\ o.call = client[c].call /\ o.inside = client[c].inside /\ o.pc = client[c].pc
        /\ "NEEDS_REVIEW" \in Terminal /\ 1 \in Nat
    BY DEF Terminal
  <1>. HIDE DEF o
  <1>4. /\ out \in Client /\ out.call = o.call /\ out.todo = o.todo /\ out.inside = FALSE
    BY <1>1 DEF Client
  <1>5. /\ free \in Session /\ free.status = run.status /\ free.outcome = run.outcome
        /\ free.dry = run.dry /\ free.executing = run.executing
        /\ free.closed = run.closed /\ free.busy = FALSE
    BY <1>1 DEF Session
  <1>. HIDE DEF out, free
  <1>6. TodoPart(out)
    BY <1>1, <1>4 DEF TodoPart
  <1>7. WholePart(free, staging, target)
    BY <1>1, <1>5 DEF WholePart
  <1>8. Change(c, out, free, staging, target)
    <2>1. free.busy = IF client[c].inside THEN out.inside ELSE run.busy
      BY <1>1, <1>3, <1>4, <1>5
    <2>. QED BY <1>1, <1>3, <1>4, <1>5, <1>6, <1>7, <2>1, Kept
  <1>9. Settled(c, free, target) /\ Same(c, out, free)
    BY Still, <1>1, <1>3, <1>4, <1>5 DEF Settled, Denies, Same
  <1>. QED BY <1>1, <1>2, <1>3, <1>8, <1>9, TerminalMoved
-----------------------------
(* The end of a run. *)

(* terminal returns: the run is over. *)
LEMMA FinishMoved ==
    ASSUME PipelineInv, NEW c \in Clients, NEW r, NEW s, NEW cut,
           Change(c, client[c], r, s, target), Settled(c, r, target), r.status \in Terminal,
           Finish(c, r, cut), Frame, staging' = s, target' = target
    PROVE  PipelineInv'
  <1> DEFINE z == [r EXCEPT !.status = "CANCELLED"]
  <1>1. r \in Session /\ "CANCELLED" \in Terminal
    BY DEF Change, WholePart, Terminal
  <1>2. Leave(c, r) \/ Leave(c, z)
    BY DEF Finish
  <1>3. CASE Leave(c, r)
    <2>1. Over(r) /\ Same(c, client[c], r)
      BY DEF Over, Same
    <2>. QED BY <1>3, <2>1, LeaveMoved
  <1>4. CASE Leave(c, z)
    <2>1. /\ z \in Session /\ z.status = "CANCELLED" /\ z.outcome = r.outcome /\ z.dry = r.dry
          /\ z.busy = r.busy /\ z.executing = r.executing /\ z.closed = r.closed
      BY <1>1 DEF Session
    <2>. HIDE DEF z
    <2>2. WholePart(z, s, target)
      BY <2>1 DEF Change, WholePart
    <2>3. ExecPart(c, client[c], z)
      BY <1>1, <2>1 DEF Change, ExecPart, Over
    <2>4. Change(c, client[c], z, s, target)
      BY <1>1, <2>1, <2>2, <2>3 DEF Change, Over
    <2>5. Settled(c, z, target) /\ Over(z) /\ Same(c, client[c], z)
      BY <1>1, <2>1 DEF Settled, Denies, Over, Same
    <2>. QED BY <1>4, <2>4, <2>5, LeaveMoved
  <1>. QED BY <1>2, <1>3, <1>4

(* terminal sets its status, and looks for a staged run to give up. *)
LEMMA SetStatusMoved ==
    ASSUME PipelineInv, NEW c \in Clients, NEW goal \in Terminal, NEW cut \in BOOLEAN,
           client[c].pc \in {"sign", "tell"}, SetStatus(c, goal, cut),
           log' \in Log, UNCHANGED <<setup, closer, staging, target>>
    PROVE  PipelineInv'
  <1> DEFINE o == client[c]
             q == [run EXCEPT !.status = goal]
             k == [o EXCEPT !.pc = "read", !.goal = goal, !.cut = cut]
  <1>1. /\ o \in Client /\ TodoPart(o) /\ run \in Session /\ WholePart(run, staging, target)
        /\ ExecPart(c, o, run)
    BY OwnFacts
  <1>2. /\ q \in Session /\ q.status = goal /\ q.outcome = run.outcome /\ q.dry = run.dry
        /\ q.busy = run.busy /\ q.executing = run.executing /\ q.closed = run.closed
    BY <1>1 DEF Session
  <1>3. \/ run' = q /\ client' = [client EXCEPT ![c] = k]
        \/ Finish(c, q, cut)
    BY DEF SetStatus, Become
  <1>4. Frame /\ o = client[c]
    BY DEF Frame
  <1>. HIDE DEF o, q
  <1>5. WholePart(q, staging, target)
    BY <1>1, <1>2 DEF WholePart
  <1>6. ExecPart(c, o, q)
    BY <1>1, <1>2 DEF ExecPart, Over
  <1>7. Change(c, o, q, staging, target)
    BY Still, <1>2, <1>4, <1>5, <1>6 DEF Change, Over
  <1>8. Settled(c, q, target)
    BY Still, <1>2 DEF Settled, Denies
  <1>9. CASE run' = q /\ client' = [client EXCEPT ![c] = k]
    <2>1. /\ k \in Client /\ k.pc = "read" /\ k.call = o.call /\ k.todo = o.todo /\ k.inside = o.inside
      BY <1>1, PCNames DEF Client
    <2>. HIDE DEF k
    <2>2. Change(c, k, q, staging, target)
      BY <1>7, <2>1 DEF Change, TodoPart, ExecPart
    <2>3. Place(c, k, q, staging, target)
      BY <1>2, <1>8, <2>1 DEF Place, StagePart, EndPart, LoadPart, Early, StagePC, LoadPC
    <2>4. Moved(c, k, q, staging, target)
      BY <1>4, <1>9, <2>2, <2>3 DEF Moved
    <2>. QED BY <2>4, MovedKeeps
  <1>10. CASE Finish(c, q, cut)
    BY <1>2, <1>4, <1>7, <1>8, <1>10, FinishMoved
  <1>. QED BY <1>3, <1>9, <1>10

(* The end of the run is signed, *)
LEMMA SignStep ==
    ASSUME PipelineInv, NEW c \in Clients, Sign(c)
    PROVE  PipelineInv'
  <1> DEFINE o == client[c]
             k == [o EXCEPT !.pc = "tell"]
             fin == Append(log.finished, o.goal)
  <1>1. /\ o \in Client /\ TodoPart(o) /\ log \in Log /\ run \in Session
        /\ WholePart(run, staging, target) /\ o.pc = "sign" /\ o.goal \in Terminal
    BY OwnFacts DEF Sign, EndPart
  <1>2. log' = [log EXCEPT !.finished = fin] /\ client' = [client EXCEPT ![c] = k]
        /\ UNCHANGED <<setup, run, closer, staging, target>>
    BY DEF Sign, Become
  <1>3. fin \in Seq(Terminal)
    <2>1. log.finished \in Seq(Terminal)
      BY <1>1 DEF Log
    <2>. QED BY <1>1, <2>1
  <1>4. o = client[c]
    OBVIOUS
  <1>. HIDE DEF o, fin
  <1>5. log' \in Log
    BY <1>1, <1>2, <1>3 DEF Log
  <1>6. /\ k \in Client /\ k.pc = "tell" /\ k.call = o.call /\ k.todo = o.todo
        /\ k.inside = o.inside /\ k.goal = o.goal
    BY <1>1, PCNames DEF Client
  <1>. HIDE DEF k
  <1>7. TodoPart(k)
    BY <1>1, <1>6 DEF TodoPart
  <1>8. Place(c, k, run, staging, target)
    BY Still, <1>1, <1>4, <1>6 DEF Place, StagePart, EndPart, LoadPart, Early, StagePC, LoadPC
  <1>9. Frame
    BY <1>2, <1>5 DEF Frame
  <1>. QED BY <1>1, <1>2, <1>4, <1>6, <1>7, <1>8, <1>9, WorkMoved

(* its hooks are called, *)
LEMMA TellStep ==
    ASSUME PipelineInv, NEW c \in Clients, Tell(c)
    PROVE  PipelineInv'
  <1>1. /\ client[c].pc = "tell" /\ client[c].goal \in Terminal
        /\ SetStatus(c, client[c].goal, FALSE)
        /\ log' \in Log /\ UNCHANGED <<setup, closer, staging, target>>
    BY OwnFacts DEF Tell, EndPart
  <1>. QED BY <1>1, SetStatusMoved

(* or the trail has a gap. *)
LEMMA GapStep ==
    ASSUME PipelineInv, NEW c \in Clients, NEW cut \in BOOLEAN, Gap(c, cut)
    PROVE  PipelineInv'
  <1> DEFINE goal == GoalAfterGap(client[c].goal, cut)
             added == IF ~cut /\ goal # client[c].goal /\ goal = "FAILED" THEN 1 ELSE 0
             n == log.errors + added
             ns == log.notes \cup GapNote
  <1>1. /\ client[c].pc \in {"sign", "tell"} /\ client[c].goal \in Terminal /\ log \in Log
    BY OwnFacts DEF Gap, EndPart
  <1>2. /\ log' = [log EXCEPT !.notes = ns, !.errors = n]
        /\ SetStatus(c, goal, cut) /\ UNCHANGED <<setup, closer, staging, target>>
    BY DEF Gap
  <1>3. goal \in Terminal
    BY <1>1 DEF GoalAfterGap, Terminal
  <1>4. n \in Nat /\ ns \in SUBSET Note
    <2>1. added \in Nat
      OBVIOUS
    <2>2. log.errors \in Nat /\ log.notes \in SUBSET Note
      BY <1>1 DEF Log
    <2>. HIDE DEF added
    <2>. QED BY <2>1, <2>2 DEF GapNote, Note
  <1>. HIDE DEF goal, n, ns
  <1>5. log' \in Log
    BY <1>1, <1>2, <1>4 DEF Log
  <1>. QED BY <1>1, <1>2, <1>3, <1>5, SetStatusMoved

(* Cleanup reads the row, *)
LEMMA ReadStep ==
    ASSUME PipelineInv, NEW c \in Clients, Read(c)
    PROVE  PipelineInv'
  <1> DEFINE o == client[c]
             k == [o EXCEPT !.pc = "move", !.seen = staging]
  <1>1. /\ o \in Client /\ TodoPart(o) /\ log \in Log /\ run \in Session /\ staging \in StagingRow
        /\ WholePart(run, staging, target) /\ o.pc = "read" /\ run.status \in Terminal
    BY OwnFacts DEF Read, EndPart
  <1>2. /\ UNCHANGED <<setup, log, closer, staging, target>>
        /\ \/ staging.status \in Abandoned /\ client' = [client EXCEPT ![c] = k] /\ run' = run
           \/ Finish(c, run, o.cut)
    BY DEF Read, Become
  <1>3. o = client[c] /\ Frame
    BY <1>1, <1>2 DEF Frame
  <1>. HIDE DEF o
  <1>4. /\ Change(c, o, run, staging, target) /\ Settled(c, run, target)
    BY Still, <1>1, <1>3
  <1>5. CASE Finish(c, run, o.cut)
    BY <1>1, <1>2, <1>3, <1>4, <1>5, FinishMoved
  <1>6. CASE staging.status \in Abandoned /\ client' = [client EXCEPT ![c] = k] /\ run' = run
    <2>1. /\ k \in Client /\ k.pc = "move" /\ k.call = o.call /\ k.todo = o.todo
          /\ k.inside = o.inside /\ k.seen = staging
      BY <1>1, PCNames DEF Client
    <2>. HIDE DEF k
    <2>2. TodoPart(k)
      BY <1>1, <2>1 DEF TodoPart
    <2>3. Place(c, k, run, staging, target)
      BY <1>1, <1>4, <1>6, <2>1 DEF Place, StagePart, EndPart, LoadPart, Early, StagePC, LoadPC
    <2>. QED BY <1>1, <1>2, <1>3, <1>6, <2>1, <2>2, <2>3, WorkMoved
  <1>. QED BY <1>2, <1>5, <1>6

(* The row that cleanup writes. *)
LEMMA GivenUpType ==
    ASSUME NEW seen \in StagingRow
    PROVE  GivenUp(seen) \in StagingRow /\ GivenUp(seen).status \in {"CANCELLED", "FAILED"}
  <1> DEFINE m == seen.revision + 1
             x == IF run.status = "CANCELLED" THEN "CANCELLED" ELSE "FAILED"
  <1>1. m \in Nat
    BY DEF StagingRow
  <1>2. GivenUp(seen) = [status |-> x, revision |-> m] /\ x \in {"CANCELLED", "FAILED"}
    BY DEF GivenUp
  <1>. HIDE DEF m, x
  <1>. QED BY <1>1, <1>2 DEF StagingRow

(* and gives up what it read, if it is still there. *)
LEMMA CleanupMoved ==
    ASSUME PipelineInv, NEW c \in Clients, NEW cut, client[c].pc \in {"read", "move"},
           \/ staging' = staging
           \/ /\ client[c].pc = "move" /\ Current(client[c].seen)
              /\ staging' = GivenUp(client[c].seen),
           log' \in Log, Finish(c, run, cut), UNCHANGED <<setup, closer, target>>
    PROVE  PipelineInv'
  <1>1. /\ client[c] \in Client /\ staging \in StagingRow /\ run.status \in Terminal
        /\ WholePart(run, staging, target)
        /\ client[c].pc = "move" => client[c].seen.status \in Abandoned
    BY OwnFacts DEF EndPart
  <1> DEFINE s == staging'
  <1>2. /\ s \in StagingRow
        /\ s = staging \/ (staging.status \in Abandoned /\ s.status \in {"CANCELLED", "FAILED"})
    <2>1. client[c].seen \in StagingRow
      BY <1>1 DEF Client
    <2>. QED BY <1>1, <2>1, GivenUpType DEF Current
  <1>3. staging' = s
    OBVIOUS
  <1>. HIDE DEF s
  <1>4. WholePart(run, s, target)
    BY <1>1, <1>2 DEF WholePart
  <1>5. Change(c, client[c], run, s, target)
    BY Still, <1>2, <1>4 DEF Change
  <1>6. Settled(c, run, target) /\ Frame
    BY Still DEF Frame
  <1>. QED BY <1>1, <1>3, <1>5, <1>6, FinishMoved

(* Cleanup that succeeds, *)
LEMMA MoveStep ==
    ASSUME PipelineInv, NEW c \in Clients, Move(c)
    PROVE  PipelineInv'
  <1>1. log' \in Log
    BY OwnFacts DEF Move
  <1>. QED BY <1>1, CleanupMoved DEF Move

(* and cleanup that fails. *)
LEMMA CleanupFailsStep ==
    ASSUME PipelineInv, NEW c \in Clients, NEW cut \in BOOLEAN, CleanupFails(c, cut)
    PROVE  PipelineInv'
  <1>1. log' \in Log
    BY OwnFacts, NotedType DEF CleanupFails, Note
  <1>. QED BY <1>1, CleanupMoved DEF CleanupFails
-----------------------------
(* The task that closes the lease. *)

(* It gives up an abandoned row, or says that the lease is closed. *)
LEMMA CloserKeeps ==
    ASSUME PipelineInv, NEW r \in Session, NEW s \in StagingRow, ClosePart',
           setup' = setup, client' = client, target' = target, log' \in Log,
           run' = r, staging' = s,
           r.status \in {run.status} \cup Terminal, run.status \in Terminal => r.status \in Terminal,
           run.closed => r.closed, r.outcome = run.outcome, r.dry = run.dry, r.busy = run.busy,
           r.executing = run.executing,
           s = staging \/ (staging.status \in Abandoned /\ s.status \in {"CANCELLED", "FAILED"})
    PROVE  PipelineInv'
  <1>1. Base'
    BY DEF PipelineInv, Base, WholePart
  <1>2. PairPart'
    BY DEF PipelineInv, PairPart, Executes, Denies, Lossy, LostAfter
  <1>3. \A d \in Clients : Sound(d, client[d], run, staging, target)'
    <2> SUFFICES ASSUME NEW d \in Clients PROVE Sound(d, client[d], run, staging, target)'
      OBVIOUS
    <2> DEFINE e == client[d]
    <2>1. /\ e \in Client /\ TodoPart(e) /\ StagePart(e, run) /\ EndPart(e, run)
          /\ ExecPart(d, e, run) /\ LoadPart(e, run, staging, target)
      BY DEF PipelineInv, Sound
    <2>2. LostAfter \cap Abandoned = {}
      BY SetupFacts DEF PipelineInv, Base
    <2>3. e = client'[d]
      OBVIOUS
    <2>. HIDE DEF e
    <2>4. StagePart(e, r) /\ EndPart(e, r)
      BY <2>1 DEF StagePart, EndPart
    <2>5. ExecPart(d, e, r)
      BY <2>1 DEF ExecPart, Over
    <2>6. LoadPart(e, r, s, target)
      BY <2>1, <2>2 DEF LoadPart, Early, Abandoned
    <2>. QED BY <2>1, <2>3, <2>4, <2>5, <2>6
           DEF Sound, TodoPart, StagePart, EndPart, ExecPart, LoadPart, Early, Over, Dry, LostAfter
  <1>. QED BY <1>1, <1>2, <1>3 DEF PipelineInv

(* Every step of the closing task is such a step. *)
LEMMA CloseStepKeeps ==
    ASSUME PipelineInv, CloseStep
    PROVE  PipelineInv'
  <1>1. /\ closer \in Closer /\ (closer.pc = "move" => closer.seen.status \in Abandoned)
        /\ run \in Session /\ staging \in StagingRow /\ log \in Log
    BY DEF PipelineInv, Base, ClosePart, WholePart
  <1>2. CASE Close \/ CloseRead \/ CloseFails \/ CloseCancelled
    <2>1. /\ setup' = setup /\ client' = client /\ target' = target /\ log' = log
          /\ run' = run /\ staging' = staging
      BY <1>2 DEF Close, CloseRead, CloseFails, CloseCancelled
    <2>2. ClosePart'
      <3>1. CASE Close
        BY <1>1, <3>1 DEF Close, ClosePart, Closer
      <3>2. CASE CloseRead
        BY <1>1, <3>2 DEF CloseRead, ClosePart, Closer
      <3>3. CASE CloseFails
        BY <1>1, <3>3 DEF CloseFails, ClosePart, Closer
      <3>4. CASE CloseCancelled
        BY <1>1, <3>4 DEF CloseCancelled, ClosePart, Closer
      <3>. QED BY <1>2, <3>1, <3>2, <3>3, <3>4
    <2>. QED BY <1>1, <2>1, <2>2, CloserKeeps
  <1>3. CASE CloseMove
    <2> DEFINE s == GivenUp(closer.seen)
    <2>1. /\ setup' = setup /\ client' = client /\ target' = target /\ log' = log
          /\ run' = run /\ staging' = s /\ staging = closer.seen /\ closer.pc = "move"
          /\ closer' = [closer EXCEPT !.pc = "rest"]
      BY <1>3 DEF CloseMove, Current
    <2>2. s \in StagingRow /\ s.status \in {"CANCELLED", "FAILED"}
      BY <1>1, GivenUpType DEF Closer
    <2>3. ClosePart'
      BY <1>1, <2>1 DEF ClosePart, Closer
    <2>. HIDE DEF s
    <2>. QED BY <1>1, <2>1, <2>2, <2>3, CloserKeeps
  <1>4. CASE Closed
    <2> DEFINE kept == closer.cut /\ run.outcome = "COMMITTED"
               x == IF kept \/ (closer.failed /\ run.status = "COMPLETED")
                    THEN "COMPLETED_WITH_WARNINGS" ELSE run.status
               q == [run EXCEPT !.closed = TRUE, !.status = x]
               ns == (IF closer.failed THEN {"CLEANUP_FAILED"} ELSE {})
                        \cup (IF kept THEN {"CANCELLED_AFTER_COMMIT"} ELSE {})
    <2>1. /\ setup' = setup /\ client' = client /\ target' = target /\ log' = Noted(ns)
          /\ run' = q /\ staging' = staging /\ closer' = [closer EXCEPT !.pc = "closed"]
      BY <1>4 DEF Closed
    <2>2. log' \in Log
      BY <1>1, <2>1, NotedType DEF Note
    <2>3. x \in {run.status} \cup Terminal /\ (run.status \in Terminal => x \in Terminal)
      BY DEF Terminal
    <2>. HIDE DEF x, ns
    <2>4. /\ q \in Session /\ q.status = x /\ q.outcome = run.outcome /\ q.dry = run.dry
          /\ q.busy = run.busy /\ q.executing = run.executing /\ q.closed = TRUE
      BY <1>1, <2>3 DEF Session
    <2>. HIDE DEF q
    <2>5. ClosePart'
      BY <1>1, <2>1 DEF ClosePart, Closer
    <2>. QED BY <1>1, <2>1, <2>2, <2>3, <2>4, <2>5, CloserKeeps
  <1>. QED BY <1>2, <1>3, <1>4 DEF CloseStep
-----------------------------
(* The invariant holds. *)

(* A new session satisfies the invariant, *)
LEMMA InitKeeps == Init => PipelineInv
  <1> SUFFICES ASSUME Init PROVE PipelineInv
    OBVIOUS
  <1>1. setup \in Setups /\ Plan \in [Clients -> Seq(Calls)]
    BY SetupFacts DEF Init
  <1> DEFINE row == [status |-> "none", revision |-> 0]
             o(c) == [pc |-> "idle", calls |-> Plan[c], call |-> "none", todo |-> <<>>, inside |-> FALSE,
                      goal |-> "none", kind |-> "error", cut |-> FALSE, seen |-> row]
  <1>2. row \in StagingRow /\ row.status = "none"
    BY DEF StagingRow
  <1>3. \A c \in Clients : o(c) \in Client
    <2>1. "error" \in Kind /\ FALSE \in BOOLEAN
      BY DEF Kind
    <2>2. \A c \in Clients : Plan[c] \in Seq(Calls)
      BY <1>1
    <2>. HIDE DEF row
    <2>. QED BY <1>2, <2>1, <2>2, PCNames DEF Client
  <1>4. client = [c \in Clients |-> o(c)]
    BY DEF Init
  <1>5. \A c \in Clients : /\ client[c] = o(c) /\ client[c].pc = "idle" /\ client[c].call = "none"
                           /\ client[c].todo = <<>> /\ client[c].inside = FALSE
    BY <1>4
  <1>6. client \in [Clients -> Client]
    BY <1>3, <1>4
  <1>7. /\ run \in Session /\ run.outcome = "NOT_STARTED" /\ run.busy = FALSE
        /\ target = "untouched" /\ staging = row
    <2>1. "CREATED" \in Stage /\ "NOT_STARTED" \in Outcome /\ {} \in SUBSET Stage
      BY StageNames DEF Outcome
    <2>. QED BY <2>1 DEF Init, Session
  <1>8. log \in Log
    BY DEF Init, Log
  <1>9. ClosePart
    BY <1>2 DEF Init, ClosePart, Closer
  <1>10. WholePart(run, staging, target)
    BY <1>2, <1>7 DEF WholePart, Target
  <1>11. PairPart
    BY <1>5, <1>7 DEF PairPart, Denies, Executes
  <1>12. \A c \in Clients : Sound(c, client[c], run, staging, target)
    <2> SUFFICES ASSUME NEW c \in Clients PROVE Sound(c, client[c], run, staging, target)
      OBVIOUS
    <2> DEFINE e == client[c]
    <2>1. /\ e \in Client /\ e.pc = "idle" /\ e.call = "none" /\ e.todo = <<>> /\ e.inside = FALSE
      BY <1>5, <1>6
    <2>. HIDE DEF e
    <2>2. Sound(c, e, run, staging, target)
      BY <2>1 DEF Sound, TodoPart, StagePart, EndPart, ExecPart, LoadPart, Early, StagePC, LoadPC
    <2>. QED BY <2>2 DEF e
  <1>. QED BY <1>1, <1>6, <1>8, <1>9, <1>10, <1>11, <1>12 DEF PipelineInv, Base

(* and every step keeps it. *)
LEMMA NextKeeps == PipelineInv /\ [Next]_vars => PipelineInv'
  <1> SUFFICES ASSUME PipelineInv, [Next]_vars PROVE PipelineInv'
    OBVIOUS
  <1>1. CASE UNCHANGED vars
    BY <1>1 DEF vars, PipelineInv, Base, ClosePart, PairPart, Executes, Denies, Lossy, LostAfter,
                WholePart, Sound, TodoPart, StagePart, EndPart, ExecPart, LoadPart, Early, Over, Dry
  <1>2. CASE CloseStep
    BY <1>2, CloseStepKeeps
  <1>3. ASSUME NEW c \in Clients, Step(c) PROVE PipelineInv'
    <2>1. CASE Perform(c)
      <3>1. CASE Call(c) \/ Dispute(c) \/ First(c) \/ Announced(c) \/ Work(c) \/ StopInside(c)
        BY <3>1, CallStep, DisputeStep, FirstStep, AnnouncedStep, WorkStep, StopInsideStep
      <3>2. CASE Stop(c)
        BY <3>2, Ends DEF Stop
      <3>3. CASE Begin(c) \/ Fill(c) \/ Seal(c) \/ Complete(c) \/ StopBetween(c)
        BY <3>3, StagingStep, CompleteStep, StopBetweenStep
      <3>4. ASSUME NEW kind \in Kind \ {"unknown"},
                   LostWrite(c, kind) \/ Fails(c, kind) \/ LoadRefused(c, kind) \/ CompleteFails(c, kind)
            PROVE  PipelineInv'
        BY <3>4, LostWriteStep, FailsStep, LoadRefusedStep, CompleteFailsStep
      <3>. QED BY <2>1, <3>1, <3>2, <3>3, <3>4 DEF Perform
    <2>2. CASE LoadStep(c)
      <3>1. CASE Claim(c) \/ Replay(c) \/ Consult(c) \/ ConsultFails(c)
        BY <3>1, StagingStep, ReplayStep, ConsultStep, ConsultFailsStep
      <3>2. ASSUME NEW final \in {"COMMITTED", "QUARANTINED", "EXECUTING"}, Load(c, final)
            PROVE  PipelineInv'
        BY <3>2, LoadStepKeeps
      <3>3. ASSUME NEW kind \in Kind, NEW final \in {"ROLLED_BACK", "CANCELLED", "EXECUTING"},
                   RollBack(c, kind, final)
            PROVE  PipelineInv'
        BY <3>3, RollBackStep
      <3>4. ASSUME NEW final \in {"UNKNOWN", "EXECUTING"}, LoadUnknown(c, final)
            PROVE  PipelineInv'
        BY <3>4, LoadUnknownStep
      <3>. QED BY <2>2, <3>1, <3>2, <3>3, <3>4 DEF LoadStep, Kind
    <2>3. CASE TerminalStep(c)
      <3>1. CASE Sign(c) \/ Tell(c) \/ Read(c) \/ Move(c)
        BY <3>1, SignStep, TellStep, ReadStep, MoveStep
      <3>2. ASSUME NEW cut \in BOOLEAN, Gap(c, cut) \/ CleanupFails(c, cut) PROVE PipelineInv'
        BY <3>2, GapStep, CleanupFailsStep
      <3>. QED BY <2>3, <3>1, <3>2 DEF TerminalStep
    <2>. QED BY <1>3, <2>1, <2>2, <2>3 DEF Step
  <1>. QED BY <1>1, <1>2, <1>3 DEF Next

(* The run session keeps its invariant, whatever its clients call and       *)
(* however their steps interleave, fail and are cancelled.                  *)
THEOREM PipelineInvariant == Spec => []PipelineInv
  <1>. QED BY InitKeeps, NextKeeps, PTL DEF Spec

(* A lease does one thing at a time and in the mode it was asked for: one   *)
(* client is inside perform while busy is set and none otherwise, a dry run *)
(* loads nothing, and only a dry run forecasts (RunSession.perform,         *)
(* execution).                                                              *)
THEOREM LeaseExclusive == Spec => []LeaseIsExclusive
  <1>1. PipelineInv => LeaseIsExclusive
    <2> SUFFICES ASSUME PipelineInv PROVE LeaseIsExclusive
      OBVIOUS
    <2>1. TypeOK
      BY DEF PipelineInv, Base, ClosePart, WholePart, Closer, TypeOK
    <2>2. ModeHolds
      BY DEF PipelineInv, Base, WholePart, ModeHolds
    <2>3. OneStage
      <3>1. \A d \in Clients : client[d].inside => run.busy
        BY OwnFacts DEF ExecPart
      <3>2. run.busy \in BOOLEAN
        BY RunTypes DEF PipelineInv, Base, WholePart
      <3>. QED BY <3>1, <3>2 DEF PipelineInv, PairPart, OneStage
    <2>. QED BY <2>1, <2>2, <2>3 DEF LeaseIsExclusive
  <1>. QED BY <1>1, PipelineInvariant, PTL

(* The outcome of the result is what happened to the target, or UNKNOWN: of *)
(* a target that was loaded no result says NOT_STARTED, DRY_RUN or          *)
(* ROLLED_BACK once the loader is done (RunSession.reconcile_staging), as   *)
(* long as the loader does not raise after it finalised the row as          *)
(* QUARANTINED, a status reconciliation does not know.                      *)
THEOREM OutcomeTruth ==
    ASSUME \A s \in Setups : "QUARANTINED" \notin s.lostAfter
    PROVE  Spec => []OutcomeIsTrue
  <1>1. PipelineInv => OutcomeIsTrue
    BY DEF PipelineInv, Base, PairPart, WholePart, Denies, Lossy, LostAfter, InLoader, OutcomeIsTrue
  <1>. QED BY <1>1, PipelineInvariant, PTL

(* No cleanup takes a staged run from the loader: a row that is EXECUTING   *)
(* changes only while a client is in the writer transaction, since cleanup  *)
(* moves a row only from OPEN or SEALED and only if it is the row it read   *)
(* (cleanup_staging, StagingRepository.transition).                         *)
THEOREM ExecutingIsKept == Spec => ExecutingIsTheLoaders
  <1> DEFINE A == staging.status = "EXECUTING" /\ staging' # staging
                     => \E c \in Clients : client[c].pc = "writing"
  <1>1. PipelineInv /\ [Next]_vars => [A]_vars
    <2> SUFFICES ASSUME PipelineInv, [Next]_vars, staging.status = "EXECUTING", staging' # staging
                 PROVE  \E c \in Clients : client[c].pc = "writing"
      OBVIOUS
    <2>1. /\ \A c \in Clients : client[c].pc = "move" => client[c].seen.status # "EXECUTING"
          /\ closer.pc = "move" => closer.seen.status # "EXECUTING"
      BY OwnFacts DEF EndPart, PipelineInv, ClosePart, Abandoned
    <2>2. ~CloseStep
      BY <2>1 DEF CloseStep, Close, CloseRead, CloseMove, CloseFails, CloseCancelled, Closed, Current
    <2>3. PICK c \in Clients : Step(c)
      BY <2>2 DEF Next, vars
    <2>4. ~Perform(c)
      BY DEF Perform, Call, Dispute, Stop, First, Announced, Work, StopInside, Begin, Fill, Seal,
             LostWrite, Fails, LoadRefused, CompleteFails, Complete, StopBetween
    <2>5. ~TerminalStep(c)
      BY <2>1 DEF TerminalStep, Sign, Tell, Read, Move, Gap, CleanupFails, Current
    <2>6. LoadStep(c) => client[c].pc = "writing"
      BY DEF LoadStep, Claim, Replay, Consult, ConsultFails, Load, RollBack, LoadUnknown
    <2>. QED BY <2>3, <2>4, <2>5, <2>6 DEF Step
  <1>. QED BY <1>1, PipelineInvariant, PTL DEF Spec, ExecutingIsTheLoaders
-----------------------------
(* A commit is reported. *)

(* What a step of c may change of the run, as the other clients see it. *)
Spread(c, r) ==
    /\ run.done \subseteq r.done
    /\ "SEMANTIC_PARSING" \in r.done =>
          "SEMANTIC_PARSING" \in run.done \/ "parse_semantically" \in Asked(setup, c)
    /\ r.outcome # run.outcome => Executes(c) /\ client[c].pc \in StagePC
    /\ r.status \in Terminal => \/ r.status = run.status
                                \/ client[c].pc \in {"sign", "tell"}
                                \/ run.status \in Terminal /\ run.outcome # "COMMITTED"

(* Nobody comes to the end of the run while another client executes. *)
LEMMA EndsAlone ==
    ASSUME PipelineInv, CommitInv, NEW c \in Clients, NEW d \in Clients \ {c},
           client[c].pc \in {"sign", "tell"}, Executes(d), client[d].pc \in StagePC
    PROVE  FALSE
  <1>1. client[d].inside
    BY OwnFacts DEF StagePart
  <1>2. ~client[c].inside /\ client[c].call # "execute"
    BY <1>1 DEF PipelineInv, PairPart, Executes
  <1>3. OthersWait(c) \/ Unparsed(c, run.done)
    BY <1>2 DEF CommitInv, CommitPart, GoalPart
  <1>4. "SEMANTIC_PARSING" \in run.done
    BY DEF CommitInv, CommitPart, AskedPart, Executes
  <1>. QED BY <1>3, <1>4 DEF OthersWait, Unparsed

(* A step keeps the invariant of the commit if it keeps it for the client   *)
(* that makes it.                                                           *)
LEMMA CommitMoved ==
    ASSUME PipelineInv, CommitInv, NEW c \in Clients, NEW k, NEW r,
           setup' = setup, client' = [client EXCEPT ![c] = k], run' = r,
           RunPart(r), CommitPart(c, k, r), Spread(c, r)
    PROVE  CommitInv'
  <1>1. client \in [Clients -> Client]
    BY DEF PipelineInv, Base
  <1>2. client'[c] = k /\ \A d \in Clients \ {c} : client'[d] = client[d]
    BY <1>1
  <1>3. \A d \in Clients : CommitPart(d, client[d], run)'
    <2> SUFFICES ASSUME NEW d \in Clients PROVE CommitPart(d, client[d], run)'
      OBVIOUS
    <2>1. CASE d = c
      <3>1. AskedPart(c, k, r)' /\ UnderPart(k, r)'
        BY DEF CommitPart, AskedPart, UnderPart, Asked
      <3>2. OthersWait(c) => OthersWait(c)'
        BY <1>2 DEF OthersWait, Executes, Asked
      <3>3. Unparsed(c, r.done) => Unparsed(c, r.done)'
        BY DEF Unparsed, Asked
      <3>4. GoalPart(c, k, r)'
        BY <3>2, <3>3 DEF CommitPart, GoalPart
      <3>. QED BY <2>1, <1>2, <3>1, <3>4 DEF CommitPart, AskedPart, UnderPart, GoalPart
    <2>2. CASE d # c
      <3> DEFINE e == client[d]
      <3>1. /\ AskedPart(d, e, run) /\ UnderPart(e, run) /\ GoalPart(d, e, run)
        BY DEF CommitInv, CommitPart
      <3>2. e = client'[d]
        BY <2>2, <1>2
      <3>3. AskedPart(d, e, r)
        BY <3>1 DEF AskedPart, Spread
      <3>4. UnderPart(e, r)
        <4> SUFFICES ASSUME e.call = "execute", e.pc \in StagePC, r.status \in Terminal
                     PROVE  /\ e.pc = "complete" /\ r.outcome = "COMMITTED"
                            /\ r.status = "COMPLETED_WITH_WARNINGS"
          BY DEF UnderPart
        <4>1. ~Executes(c)
          BY <2>2 DEF PipelineInv, PairPart, Executes
        <4>2. r.outcome = run.outcome
          BY <4>1 DEF Spread
        <4>3. client[c].pc \notin {"sign", "tell"}
          BY <2>2, EndsAlone DEF Executes
        <4>4. r.status = run.status
          BY <3>1, <4>3 DEF Spread, UnderPart
        <4>. QED BY <3>1, <4>2, <4>4 DEF UnderPart
      <3>5. GoalPart(d, e, r)'
        <4> SUFFICES ASSUME e.pc \in {"sign", "tell"}
                     PROVE  /\ Told(e.goal, r.outcome)
                            /\ e.inside \/ e.call = "execute" \/ OthersWait(d)' \/ Unparsed(d, r.done)'
          BY <3>2 DEF GoalPart, Told
        <4>1. r.outcome = run.outcome
          BY <2>2, EndsAlone DEF Spread
        <4>2. OthersWait(d) => OthersWait(d)'
          <5> SUFFICES ASSUME OthersWait(d), NEW a \in Clients \ {d}
                       PROVE  ~Executes(a)' /\ "execute" \notin Asked(setup, a)'
            BY DEF OthersWait
          <5>1. "execute" \notin Asked(setup, a) /\ ~Executes(a)
            BY DEF OthersWait
          <5>2. a = c => k.call # "execute"
            BY <5>1 DEF CommitPart, AskedPart
          <5>. QED BY <5>1, <5>2, <1>2 DEF Executes, Asked
        <4>3. Unparsed(d, run.done) => Unparsed(d, r.done)'
          BY <2>2 DEF Unparsed, Spread, Asked
        <4>. QED BY <3>1, <4>1, <4>2, <4>3 DEF GoalPart
      <3>6. AskedPart(d, client[d], run)'
        BY <3>2, <3>3 DEF AskedPart, Asked
      <3>7. UnderPart(client[d], run)'
        BY <3>2, <3>4 DEF UnderPart
      <3>8. GoalPart(d, client[d], run)'
        BY <3>2, <3>5 DEF GoalPart, Told
      <3>. QED BY <3>6, <3>7, <3>8 DEF CommitPart
    <2>. QED BY <2>1, <2>2
  <1>4. RunPart(run)'
    BY DEF RunPart, Told
  <1>. QED BY <1>3, <1>4 DEF CommitInv

(* Leave: the call is over and the client makes no other. *)
LEMMA LeaveCommit ==
    ASSUME PipelineInv, CommitInv, NEW c \in Clients, NEW r \in Session,
           RunPart(r), Spread(c, r), Leave(c, r), setup' = setup
    PROVE  CommitInv'
  <1> DEFINE b == IF client[c].inside THEN FALSE ELSE r.busy
             e == IF client[c].call = "execute" THEN FALSE ELSE r.executing
             o == client[c]
             q == [r EXCEPT !.busy = b, !.executing = e]
             k == [o EXCEPT !.pc = "done", !.calls = <<>>, !.todo = <<>>, !.inside = FALSE]
  <1>1. run' = q /\ client' = [client EXCEPT ![c] = k]
    BY DEF Leave, Freed, Become
  <1>2. AskedPart(c, o, run) /\ o \in Client
    BY OwnFacts DEF CommitInv, CommitPart
  <1>3. b \in BOOLEAN /\ e \in BOOLEAN
    BY RunTypes
  <1>. HIDE DEF b, e, o
  <1>4. q.status = r.status /\ q.outcome = r.outcome /\ q.done = r.done
    BY <1>3 DEF Session
  <1>5. /\ k.pc = "done" /\ k.call = o.call /\ k.calls = <<>>
    BY <1>2 DEF Client
  <1>. HIDE DEF q, k
  <1>6. RunPart(q) /\ Spread(c, q)
    BY <1>4 DEF RunPart, Spread
  <1>7. CommitPart(c, k, q)
    BY <1>2, <1>4, <1>5, <1>6 DEF CommitPart, AskedPart, UnderPart, GoalPart, Spread, StagePC
  <1>. QED BY <1>1, <1>6, <1>7, CommitMoved

(* terminal keeps the invariant of the commit if its status may be told. *)
LEMMA TerminalCommit ==
    ASSUME PipelineInv, CommitInv, NEW c \in Clients, NEW me \in Client, NEW r \in Session,
           NEW goal \in Terminal, NEW l, NEW n,
           AskedPart(c, me, r), RunPart(r), Spread(c, r),
           r.status \notin Terminal =>
              /\ Told(goal, r.outcome)
              /\ me.inside \/ me.call = "execute" \/ OthersWait(c) \/ Unparsed(c, r.done),
           EnterTerminal(c, r, me, goal, l, n), setup' = setup
    PROVE  CommitInv'
  <1>1. CASE r.status \in Terminal
    BY <1>1, LeaveCommit DEF EnterTerminal
  <1>2. CASE r.status \notin Terminal
    <2> DEFINE k == [me EXCEPT !.pc = "sign", !.goal = goal]
    <2>1. run' = r /\ client' = [client EXCEPT ![c] = k]
      BY <1>2 DEF EnterTerminal, Become
    <2>2. /\ k.pc = "sign" /\ k.goal = goal /\ k.call = me.call /\ k.calls = me.calls
          /\ k.inside = me.inside
      BY DEF Client
    <2>. HIDE DEF k
    <2>3. CommitPart(c, k, r)
      BY <1>2, <2>2 DEF CommitPart, AskedPart, UnderPart, GoalPart, StagePC
    <2>. QED BY <2>1, <2>3, CommitMoved
  <1>. QED BY <1>1, <1>2

(* What fails in perform hides no commit: a committed run goes on to a      *)
(* success.                                                                 *)
LEMMA FailCommit ==
    ASSUME PipelineInv, CommitInv, NEW c \in Clients, NEW me \in Client, NEW r \in Session, NEW kind,
           AskedPart(c, me, r), RunPart(r), Spread(c, r), me.inside,
           kind = "unknown" => r.status \notin Terminal /\ Executes(c) /\ client[c].pc \in StagePC,
           Fail(c, r, me, kind), setup' = setup
    PROVE  CommitInv'
  <1>1. CASE Shielded(r)
    <2>1. PICK l : EnterTerminal(c, r, me, "COMPLETED_WITH_WARNINGS", l, 0)
      BY <1>1 DEF Fail
    <2>2. "COMPLETED_WITH_WARNINGS" \in Terminal /\ Told("COMPLETED_WITH_WARNINGS", r.outcome)
      BY DEF Terminal, Told
    <2>. QED BY <2>1, <2>2, TerminalCommit
  <1>2. CASE ~Shielded(r)
    <2> DEFINE q == [r EXCEPT !.outcome = OutcomeAfter(kind, r.outcome)]
               goal == StatusAfter(kind, r.outcome)
    <2>1. EnterTerminal(c, q, me, goal, log, 1)
      BY <1>2 DEF Fail
    <2>2. OutcomeAfter(kind, r.outcome) \in Outcome
      BY RunTypes DEF OutcomeAfter, Outcome
    <2>3. /\ q \in Session /\ q.outcome = OutcomeAfter(kind, r.outcome)
          /\ q.status = r.status /\ q.done = r.done
      BY <2>2 DEF Session
    <2>4. goal \in Terminal /\ goal \notin {"COMPLETED", "COMPLETED_WITH_WARNINGS"}
      BY StatusAfterType DEF StatusAfter
    <2>. HIDE DEF q, goal
    <2>5. q.outcome # "COMMITTED"
      BY <1>2, <2>3 DEF Shielded, OutcomeAfter
    <2>6. RunPart(q)
      BY <2>3, <2>5 DEF RunPart, Told, OutcomeAfter
    <2>7. Spread(c, q)
      BY <2>3 DEF Spread, OutcomeAfter
    <2>8. AskedPart(c, me, q) /\ Told(goal, q.outcome)
      BY <2>3, <2>4, <2>5 DEF AskedPart, Told
    <2>. QED BY <2>1, <2>3, <2>4, <2>6, <2>7, <2>8, TerminalCommit
  <1>. QED BY <1>1, <1>2

(* Loading is the last stage, and nothing goes back to before a parse. *)
LEMMA EdgeFacts ==
    ASSUME NEW a, NEW b, MayEnter(a, b)
    PROVE  /\ a \notin Terminal \cup {"LOADING"} /\ b \notin Terminal
           /\ a \in Later => b \in Later
  BY DEF MayEnter, Edges, Repeatable, Terminal, Later

(* The start of a stage keeps the invariant of the commit. *)
LEMMA StageCommit ==
    ASSUME PipelineInv, CommitInv, NEW c \in Clients, NEW me \in Client, NEW r \in Session,
           me.todo # <<>>, me.inside,
           AskedPart(c, me, r), RunPart(r), Spread(c, r),
           EnterStage(c, r, me), setup' = setup
    PROVE  CommitInv'
  <1>1. CASE r.closed /\ Rechecks(me.call, Head(me.todo))
    BY <1>1, LeaveCommit DEF EnterStage
  <1>2. CASE /\ ~(r.closed /\ Rechecks(me.call, Head(me.todo)))
             /\ r.closed \/ ~MayEnter(r.status, Head(me.todo))
    <2>1. Fail(c, r, me, "error")
      BY <1>2 DEF EnterStage
    <2>. QED BY <2>1, FailCommit
  <1>3. CASE ~r.closed /\ MayEnter(r.status, Head(me.todo))
    <2> DEFINE h == Head(me.todo)
               q == [r EXCEPT !.status = h]
               k == [me EXCEPT !.pc = "announce"]
    <2>1. run' = q /\ client' = [client EXCEPT ![c] = k]
      BY <1>3 DEF EnterStage, Become
    <2>2. /\ r.status \notin Terminal \cup {"LOADING"} /\ h \notin Terminal
          /\ r.status \in Later => h \in Later
      BY <1>3, EdgeFacts
    <2>. HIDE DEF h
    <2>3. q.status = h /\ q.outcome = r.outcome /\ q.done = r.done
      BY DEF Session
    <2>4. k.pc = "announce" /\ k.call = me.call /\ k.calls = me.calls
      BY DEF Client
    <2>. HIDE DEF q, k
    <2>5. RunPart(q) /\ Spread(c, q)
      BY <2>2, <2>3 DEF RunPart, Spread
    <2>6. CommitPart(c, k, q)
      BY <2>2, <2>3, <2>4 DEF CommitPart, AskedPart, UnderPart, GoalPart
    <2>. QED BY <2>1, <2>5, <2>6, CommitMoved
  <1>. QED BY <1>1, <1>2, <1>3

(* What the invariant of the commit says of the client that moves. *)
LEMMA OwnCommit ==
    ASSUME PipelineInv, CommitInv, NEW c \in Clients
    PROVE  /\ client[c] \in Client /\ run \in Session
           /\ AskedPart(c, client[c], run) /\ UnderPart(client[c], run) /\ GoalPart(c, client[c], run)
           /\ RunPart(run) /\ Spread(c, run)
  BY OwnFacts DEF CommitInv, CommitPart, Spread

(* A client at work in a stage goes on in it. *)
LEMMA WorkCommit ==
    ASSUME PipelineInv, CommitInv, NEW c \in Clients, NEW k \in Client, NEW r \in Session,
           client[c].pc \in StagePC \ {"complete"}, k.pc \in StagePC,
           k.call = client[c].call, k.calls = client[c].calls, r.status = run.status,
           r.done = run.done \/ r.done = run.done \cup {Head(client[c].todo)},
           r.done # run.done => r.status \in {Head(client[c].todo)} \cup Terminal,
           r.outcome # run.outcome =>
              Executes(c) /\ r.status \in {"LOADING"} \cup Terminal,
           setup' = setup, client' = [client EXCEPT ![c] = k], run' = r
    PROVE  CommitInv'
  <1> DEFINE h == Head(client[c].todo)
  <1>1. /\ AskedPart(c, client[c], run) /\ UnderPart(client[c], run) /\ RunPart(run)
        /\ TodoPart(client[c]) /\ StagePart(client[c], run) /\ client[c] \in Client
    BY OwnCommit, OwnFacts
  <1>2. h = "SEMANTIC_PARSING" => "parse_semantically" \in Asked(setup, c)
    <2>1. client[c].todo # <<>>
      BY <1>1 DEF StagePart
    <2>2. h = "SEMANTIC_PARSING" => client[c].call = "parse_semantically"
      BY <1>1, <2>1, FirstStage DEF TodoPart
    <2>. QED BY <1>1, <2>2 DEF AskedPart
  <1>. HIDE DEF h
  <1>3. run.status \in Terminal => r.outcome = run.outcome
    BY <1>1 DEF UnderPart, Executes
  <1>4. RunPart(r)
    <2>1. "SEMANTIC_PARSING" \in r.done => r.status \in Later \cup Terminal
      BY <1>1 DEF RunPart, h, Later
    <2>. QED BY <1>1, <1>3, <2>1 DEF RunPart
  <1>5. Spread(c, r)
    BY <1>2 DEF Spread, h
  <1>6. CommitPart(c, k, r)
    <2>1. UnderPart(k, r)
      BY <1>1 DEF UnderPart
    <2>2. AskedPart(c, k, r)
      BY <1>1 DEF AskedPart
    <2>3. GoalPart(c, k, r)
      BY DEF GoalPart, StagePC
    <2>. QED BY <2>1, <2>2, <2>3 DEF CommitPart
  <1>. QED BY <1>4, <1>5, <1>6, CommitMoved

(* The next call of a client and those after it. *)
LEMMA NextCall ==
    ASSUME NEW o \in Client, o.calls # <<>>, NEW S, \A i \in DOMAIN o.calls : o.calls[i] \in S
    PROVE  /\ Head(o.calls) \in Calls /\ Head(o.calls) \in S /\ Tail(o.calls) \in Seq(Calls)
           /\ \A i \in DOMAIN Tail(o.calls) : Tail(o.calls)[i] \in S
  <1> DEFINE q == o.calls
  <1>1. q \in Seq(Calls) /\ q # <<>> /\ \A i \in DOMAIN q : q[i] \in S
    BY DEF Client
  <1>. HIDE DEF q
  <1>2. Len(q) \in Nat \ {0} /\ DOMAIN q = 1..Len(q)
    BY <1>1
  <1>3. 1 \in DOMAIN q /\ Head(q) = q[1] /\ q[1] \in Calls
    BY <1>1, <1>2
  <1>4. /\ Tail(q) \in Seq(Calls) /\ Len(Tail(q)) = Len(q) - 1
        /\ \A i \in 1..Len(Tail(q)) : Tail(q)[i] = q[i + 1]
    BY <1>1
  <1>5. DOMAIN Tail(q) = 1..Len(Tail(q))
    BY <1>4
  <1>6. \A i \in DOMAIN Tail(q) : i + 1 \in DOMAIN q /\ Tail(q)[i] = q[i + 1]
    BY <1>2, <1>4, <1>5
  <1>7. \A i \in DOMAIN Tail(q) : Tail(q)[i] \in S
    BY <1>1, <1>6
  <1>. QED BY <1>1, <1>3, <1>4, <1>7 DEF q

(* A client between two calls, or done. *)
LEMMA IdlePart ==
    ASSUME NEW c \in Clients, NEW k, NEW r, k.pc \in {"idle", "done"}, AskedPart(c, k, r)
    PROVE  CommitPart(c, k, r)
  BY DEF CommitPart, AskedPart, UnderPart, GoalPart, StagePC

(* A client that makes no other call. *)
LEMMA EndsCommit ==
    ASSUME PipelineInv, CommitInv, NEW c \in Clients,
           Become(c, [client[c] EXCEPT !.pc = "done", !.calls = <<>>]), UNCHANGED <<setup, run>>
    PROVE  CommitInv'
  <1> DEFINE o == client[c]
             k == [o EXCEPT !.pc = "done", !.calls = <<>>]
  <1>1. o \in Client /\ client' = [client EXCEPT ![c] = k] /\ o.call = client[c].call
    BY OwnCommit DEF Become
  <1>. HIDE DEF o
  <1>2. k.pc = "done" /\ k.call = o.call /\ k.calls = <<>>
    BY <1>1 DEF Client
  <1>. HIDE DEF k
  <1>3. AskedPart(c, k, run)
    BY OwnCommit, <1>1, <1>2 DEF AskedPart
  <1>4. setup' = setup /\ run' = run /\ CommitPart(c, k, run)
    BY <1>2, <1>3, IdlePart
  <1>5. RunPart(run) /\ Spread(c, run)
    BY OwnCommit
  <1>. QED BY <1>1, <1>4, <1>5, CommitMoved

(* A call: execute comes after a parse (Holds). *)
LEMMA CallCommit ==
    ASSUME PipelineInv, CommitInv, NEW c \in Clients, Call(c)
    PROVE  CommitInv'
  <1> DEFINE o == client[c]
             m == Head(o.calls)
             cs == Tail(o.calls)
             ts == StagesOf(m, run.status, run.done)
             me == [o EXCEPT !.call = m, !.calls = Tail(@), !.todo = ts, !.inside = TRUE]
             r == [run EXCEPT !.busy = TRUE, !.executing = @ \/ m = "execute",
                              !.dry = IF m = "execute" THEN Dry[c] ELSE @]
  <1>1. /\ o \in Client /\ o.pc = "idle" /\ o.calls # <<>> /\ run \in Session
        /\ AskedPart(c, o, run) /\ RunPart(run) /\ Spread(c, run)
    BY OwnCommit DEF Call
  <1>2. /\ m \in Calls /\ m \in Asked(setup, c) /\ cs \in Seq(Calls)
        /\ \A i \in DOMAIN cs : cs[i] \in Asked(setup, c)
    BY <1>1, NextCall DEF AskedPart
  <1>3. setup' = setup /\ Holds(m, run.done)
    BY DEF Call
  <1>4. \/ Become(c, [client[c] EXCEPT !.pc = "done", !.calls = <<>>]) /\ run' = run
        \/ Become(c, [client[c] EXCEPT !.calls = Tail(@)]) /\ run' = run
        \/ /\ run.status \notin Terminal /\ ts # <<>>
           /\ \/ EnterStage(c, r, me)
              \/ run' = r /\ Become(c, [me EXCEPT !.pc = "first"])
    BY DEF Call
  <1>5. CASE Become(c, [client[c] EXCEPT !.pc = "done", !.calls = <<>>]) /\ run' = run
    BY <1>3, <1>5, EndsCommit
  <1>6. CASE Become(c, [client[c] EXCEPT !.calls = Tail(@)]) /\ run' = run
    <2> DEFINE k == [o EXCEPT !.calls = cs]
    <2>1. client' = [client EXCEPT ![c] = k] /\ o.call = client[c].call
      BY <1>6 DEF Become
    <2>. HIDE DEF o, cs
    <2>2. k.pc = "idle" /\ k.call = o.call /\ k.calls = cs
      BY <1>1 DEF Client
    <2>. HIDE DEF k
    <2>3. AskedPart(c, k, run)
      BY <1>1, <1>2, <2>2 DEF AskedPart
    <2>4. run' = run /\ CommitPart(c, k, run)
      BY <1>6, <2>2, <2>3, IdlePart
    <2>. QED BY <1>1, <1>3, <2>1, <2>4, CommitMoved
  <1>7. CASE /\ run.status \notin Terminal /\ ts # <<>>
             /\ \/ EnterStage(c, r, me)
                \/ run' = r /\ Become(c, [me EXCEPT !.pc = "first"])
    <2>1. ts \in Seq(Stage)
      BY <1>2, StagesType
    <2>2. Dry[c] \in BOOLEAN
      BY SetupFacts DEF PipelineInv, Base
    <2>3. m = "execute" => "SEMANTIC_PARSING" \in run.done
      BY <1>3 DEF Holds
    <2> DEFINE x == run.executing \/ m = "execute"
               dr == IF m = "execute" THEN Dry[c] ELSE run.dry
               q == [run EXCEPT !.busy = TRUE, !.executing = x, !.dry = dr]
               k == [o EXCEPT !.call = m, !.calls = cs, !.todo = ts, !.inside = TRUE]
               f == [k EXCEPT !.pc = "first"]
    <2>4. x \in BOOLEAN /\ dr \in BOOLEAN
      BY <1>1, <2>2, RunTypes
    <2>5. \/ EnterStage(c, q, k)
          \/ run' = q /\ client' = [client EXCEPT ![c] = f]
      BY <1>7 DEF Become
    <2>. HIDE DEF o, m, ts, cs, x, dr
    <2>6. /\ q \in Session /\ q.status = run.status /\ q.outcome = run.outcome /\ q.done = run.done
      BY <1>1, <2>4 DEF Session
    <2>7. k \in Client /\ k.call = m /\ k.calls = cs /\ k.todo = ts /\ k.inside = TRUE
      BY <1>1, <1>2, <2>1 DEF Client
    <2>. HIDE DEF q, k
    <2>8. RunPart(q) /\ Spread(c, q) /\ AskedPart(c, k, q)
      BY <1>1, <1>2, <2>3, <2>6, <2>7 DEF RunPart, Spread, AskedPart
    <2>9. CASE EnterStage(c, q, k)
      BY <1>3, <1>7, <2>6, <2>7, <2>8, <2>9, StageCommit
    <2>10. CASE run' = q /\ client' = [client EXCEPT ![c] = f]
      <3>1. f.pc = "first" /\ f.call = k.call /\ f.calls = k.calls
        BY <2>7 DEF Client
      <3>. HIDE DEF f
      <3>2. CommitPart(c, f, q)
        BY <1>7, <2>6, <2>8, <3>1 DEF CommitPart, AskedPart, UnderPart, GoalPart
      <3>. QED BY <1>3, <2>8, <2>10, <3>2, CommitMoved
    <2>. QED BY <2>5, <2>9, <2>10
  <1>. QED BY <1>4, <1>5, <1>6, <1>7

(* A client with an argument of its own is alone in executing. *)
LEMMA DisputesAlone ==
    ASSUME PipelineInv, CommitInv, Undisturbed, NEW c \in Disputes \cap Clients
    PROVE  OthersWait(c)
  <1> SUFFICES ASSUME NEW d \in Clients \ {c} PROVE ~Executes(d) /\ "execute" \notin Asked(setup, d)
    BY DEF OthersWait
  <1>1. "execute" \notin Asked(setup, d)
    BY DEF Undisturbed, Disputes, PipelineInv, Base
  <1>. QED BY <1>1, OwnCommit DEF AskedPart, Executes

(* A disputed argument stops the run while nobody has executed. *)
LEMMA DisputeCommit ==
    ASSUME PipelineInv, CommitInv, Undisturbed, NEW c \in Clients, Dispute(c)
    PROVE  CommitInv'
  <1> DEFINE o == client[c]
             m == Head(o.calls)
             cs == Tail(o.calls)
             x == run.executing \/ m = "execute"
             dr == IF m = "execute" THEN Dry[c] ELSE run.dry
             q == [run EXCEPT !.executing = x, !.dry = dr]
             k == [o EXCEPT !.call = m, !.calls = cs]
  <1>1. /\ o \in Client /\ o.calls # <<>> /\ run \in Session
        /\ AskedPart(c, o, run) /\ RunPart(run) /\ Spread(c, run)
        /\ o.pc = "idle" /\ o.call # "execute"
    BY OwnCommit, OwnFacts DEF Dispute, StagePart
  <1>2. /\ m \in Calls /\ m \in Asked(setup, c) /\ cs \in Seq(Calls)
        /\ \A i \in DOMAIN cs : cs[i] \in Asked(setup, c)
    BY <1>1, NextCall DEF AskedPart
  <1>3. /\ c \in Disputes /\ EnterTerminal(c, q, k, "NEEDS_REVIEW", log, 1)
        /\ setup' = setup /\ Holds(m, run.done)
    BY DEF Dispute
  <1>4. OthersWait(c)
    BY <1>3, DisputesAlone
  <1>5. run.outcome = "NOT_STARTED"
    <2>1. \A d \in Clients : ~Executes(d)
      BY <1>1, <1>4 DEF OthersWait, Executes
    <2>. QED BY <2>1 DEF PipelineInv, PairPart
  <1>6. "NEEDS_REVIEW" \in Terminal /\ Told("NEEDS_REVIEW", run.outcome)
    BY <1>5 DEF Terminal, Told
  <1>7. Dry[c] \in BOOLEAN /\ (m = "execute" => "SEMANTIC_PARSING" \in run.done)
    BY <1>3, SetupFacts DEF PipelineInv, Base, Holds
  <1>8. x \in BOOLEAN /\ dr \in BOOLEAN
    BY <1>1, <1>7, RunTypes
  <1>. HIDE DEF o, m, cs, x, dr
  <1>9. /\ q \in Session /\ q.status = run.status /\ q.outcome = run.outcome /\ q.done = run.done
    BY <1>1, <1>8 DEF Session
  <1>10. k \in Client /\ k.call = m /\ k.calls = cs
    BY <1>1, <1>2 DEF Client
  <1>. HIDE DEF k, q
  <1>11. AskedPart(c, k, q) /\ RunPart(q) /\ Spread(c, q)
    BY <1>1, <1>2, <1>7, <1>9, <1>10 DEF AskedPart, RunPart, Spread
  <1>. QED BY <1>3, <1>4, <1>6, <1>9, <1>10, <1>11, TerminalCommit

(* The steps inside a stage keep the invariant of the commit: *)
LEMMA FirstCommit ==
    ASSUME PipelineInv, CommitInv, NEW c \in Clients, First(c)
    PROVE  CommitInv'
  <1> DEFINE q == [run EXCEPT !.started = TRUE]
  <1>1. /\ client[c] \in Client /\ run \in Session /\ client[c].inside /\ client[c].todo # <<>>
        /\ AskedPart(c, client[c], run) /\ RunPart(run) /\ Spread(c, run)
    BY OwnCommit, OwnFacts DEF First, StagePart, StagePC
  <1>2. EnterStage(c, q, client[c]) /\ setup' = setup
    BY DEF First
  <1>3. q \in Session /\ q.status = run.status /\ q.outcome = run.outcome /\ q.done = run.done
    BY <1>1 DEF Session
  <1>. HIDE DEF q
  <1>4. RunPart(q) /\ Spread(c, q) /\ AskedPart(c, client[c], q)
    BY <1>1, <1>3 DEF RunPart, Spread, AskedPart
  <1>. QED BY <1>1, <1>2, <1>3, <1>4, StageCommit

(* the operation begins, *)
LEMMA AnnouncedCommit ==
    ASSUME PipelineInv, CommitInv, NEW c \in Clients, Announced(c)
    PROVE  CommitInv'
  <1> DEFINE o == client[c]
             p == IF run.dry \/ Head(o.todo) \notin {"STAGING", "LOADING"} THEN "work"
                  ELSE IF Head(o.todo) = "STAGING" THEN "begin" ELSE "load"
             k == [o EXCEPT !.pc = p]
  <1>1. /\ o \in Client /\ run \in Session /\ o.pc = "announce" /\ o = client[c]
        /\ client' = [client EXCEPT ![c] = k] /\ run' = run /\ setup' = setup
    BY OwnCommit DEF Announced, Become
  <1>2. p \in PC /\ p \in StagePC
    BY PCNames DEF StagePC
  <1>. HIDE DEF o, p
  <1>3. k \in Client /\ k.pc = p /\ k.call = o.call /\ k.calls = o.calls
    BY <1>1, <1>2 DEF Client
  <1>. HIDE DEF k
  <1>4. client[c].pc \in StagePC \ {"complete"}
    BY <1>1 DEF StagePC
  <1>. QED BY <1>1, <1>2, <1>3, <1>4, WorkCommit

(* it keeps its result, *)
LEMMA WorkStageCommit ==
    ASSUME PipelineInv, CommitInv, NEW c \in Clients, Work(c)
    PROVE  CommitInv'
  <1> DEFINE o == client[c]
             h == Head(o.todo)
             dn == run.done \cup {h}
             out == IF h = "LOADING" THEN "DRY_RUN" ELSE run.outcome
             q == [run EXCEPT !.done = dn, !.outcome = out]
             k == [o EXCEPT !.pc = "complete"]
  <1>1. /\ o \in Client /\ run \in Session /\ o.pc = "work" /\ o = client[c] /\ h = Head(client[c].todo)
        /\ client' = [client EXCEPT ![c] = k] /\ run' = q /\ setup' = setup
        /\ run.status \in {h} \cup Terminal /\ o.todo # <<>> /\ TodoPart(o)
    BY OwnFacts DEF Work, Become, StagePart, StagePC
  <1>2. h \in Stage /\ (h = "LOADING" => o.call = "execute")
    BY <1>1, FirstStage DEF TodoPart
  <1>3. dn \in SUBSET Stage /\ out \in Outcome
    BY <1>1, <1>2, RunTypes DEF Outcome
  <1>4. (h # "LOADING" => out = run.outcome) /\ dn = run.done \cup {h}
    OBVIOUS
  <1>. HIDE DEF o, h, dn, out
  <1>5. k \in Client /\ k.pc = "complete" /\ k.call = o.call /\ k.calls = o.calls
    BY <1>1, PCNames DEF Client
  <1>6. q \in Session /\ q.status = run.status /\ q.outcome = out /\ q.done = dn
    BY <1>1, <1>3 DEF Session
  <1>. HIDE DEF k, q
  <1>7. /\ client[c].pc \in StagePC \ {"complete"} /\ k.pc \in StagePC
        /\ k.call = client[c].call /\ k.calls = client[c].calls
    BY <1>1, <1>5 DEF StagePC
  <1>8. /\ q.done = run.done \cup {Head(client[c].todo)}
        /\ q.status \in {Head(client[c].todo)} \cup Terminal
    BY <1>1, <1>4, <1>6
  <1>9. q.outcome # run.outcome => Executes(c) /\ q.status \in {"LOADING"} \cup Terminal
    BY <1>1, <1>2, <1>4, <1>6 DEF Executes
  <1>. QED BY <1>1, <1>5, <1>6, <1>7, <1>8, <1>9, WorkCommit

(* A stage that is not the last has not been committed. *)
LEMMA Uncommitted ==
    ASSUME PipelineInv, CommitInv, NEW c \in Clients,
           client[c].pc \in StagePC \ {"first"}, run.status \notin Terminal,
           Head(client[c].todo) # "LOADING"
    PROVE  run.outcome # "COMMITTED"
  BY OwnFacts, OwnCommit DEF StagePart, RunPart

(* it stops the run, *)
LEMMA StopInsideCommit ==
    ASSUME PipelineInv, CommitInv, NEW c \in Clients, StopInside(c)
    PROVE  CommitInv'
  <1> DEFINE o == client[c]
             h == Head(o.todo)
  <1>1. /\ o \in Client /\ o.pc \in {"begin", "work"} /\ o.inside /\ o.todo # <<>> /\ TodoPart(o)
        /\ run \in Session /\ WholePart(run, staging, target) /\ o.pc \in StagePC \ {"first", "complete"}
        /\ h = "LOADING" => o.pc = "work" /\ run.dry
        /\ AskedPart(c, o, run) /\ UnderPart(o, run) /\ RunPart(run) /\ Spread(c, run)
        /\ run.status \in {h} \cup Terminal
    BY OwnFacts, OwnCommit DEF StopInside, StagePart, LoadPart, StagePC
  <1>2. h = "LOADING" => o.call = "execute"
    BY <1>1, FirstStage DEF TodoPart
  <1>3. PICK r : /\ r = run \/ (h = "LOADING" /\ r = [run EXCEPT !.outcome = "DRY_RUN"])
                 /\ EnterTerminal(c, r, o, "NEEDS_REVIEW", log, 1)
                 /\ setup' = setup
    BY DEF StopInside
  <1>4. /\ r \in Session /\ r.status = run.status /\ r.done = run.done
        /\ r.outcome = run.outcome \/ (h = "LOADING" /\ r.outcome = "DRY_RUN")
    <2>1. "DRY_RUN" \in Outcome
      BY DEF Outcome
    <2>. QED BY <1>1, <1>3, <2>1 DEF Session
  <1>5. run.status \notin Terminal => run.outcome # "COMMITTED"
    BY <1>1, Uncommitted DEF WholePart
  <1>6. "NEEDS_REVIEW" \in Terminal /\ o = client[c]
    BY DEF Terminal
  <1>. HIDE DEF o, h
  <1>7. run.status \in Terminal => r.outcome = run.outcome
    BY <1>1, <1>2, <1>4 DEF UnderPart
  <1>8. RunPart(r) /\ AskedPart(c, o, r)
    BY <1>1, <1>4, <1>7 DEF RunPart, AskedPart
  <1>9. Spread(c, r)
    BY <1>1, <1>2, <1>4, <1>6 DEF Spread, Executes
  <1>10. r.status \notin Terminal => Told("NEEDS_REVIEW", r.outcome)
    BY <1>4, <1>5 DEF Told
  <1>. QED BY <1>1, <1>3, <1>4, <1>6, <1>8, <1>9, <1>10, TerminalCommit

(* it writes to the staging store. *)
LEMMA StagingCommit ==
    ASSUME PipelineInv, CommitInv, NEW c \in Clients, Begin(c) \/ Fill(c) \/ Seal(c) \/ Claim(c)
    PROVE  CommitInv'
  <1>1. /\ client[c].pc \in {"begin", "fill", "seal", "load"} /\ client[c] \in Client /\ run \in Session
        /\ client[c].pc \in StagePC \ {"complete"} /\ client[c].pc \in LoadPC
    BY OwnFacts DEF Begin, Fill, Seal, Claim, StagePC, LoadPC
  <1>2. run.status \in {Head(client[c].todo)} \cup Terminal
    BY <1>1, Loading
  <1>3. /\ setup' = setup
        /\ \E p \in {"fill", "seal", "complete", "writing"} :
              client' = [client EXCEPT ![c] = [client[c] EXCEPT !.pc = p]]
        /\ \/ run' = run
           \/ run' = [run EXCEPT !.context = TRUE]
           \/ client[c].pc = "seal" /\ run' = [run EXCEPT !.done = @ \cup {"STAGING"}]
    BY DEF Begin, Fill, Seal, Claim, Become
  <1>4. PICK p \in {"fill", "seal", "complete", "writing"} :
              client' = [client EXCEPT ![c] = [client[c] EXCEPT !.pc = p]]
    BY <1>3
  <1> DEFINE o == client[c]
             k == [o EXCEPT !.pc = p]
             r == run'
  <1>5. p \in PC /\ p \in StagePC /\ o = client[c] /\ client' = [client EXCEPT ![c] = k]
    BY <1>4, PCNames DEF StagePC
  <1>6. /\ r \in Session /\ r.status = run.status /\ r.outcome = run.outcome
        /\ r.done = run.done \/ r.done = run.done \cup {Head(client[c].todo)}
    <2>1. CASE client[c].pc = "seal" /\ run' = [run EXCEPT !.done = @ \cup {"STAGING"}]
      <3> DEFINE dn == run.done \cup {"STAGING"}
      <3>1. dn \in SUBSET Stage /\ run' = [run EXCEPT !.done = dn]
        BY <1>1, <2>1, RunTypes, StageNames
      <3>2. Head(client[c].todo) = "STAGING"
        BY <1>1, <2>1, Loading
      <3>3. dn = run.done \cup {Head(client[c].todo)}
        BY <3>2
      <3>. HIDE DEF dn
      <3>. QED BY <1>1, <3>1, <3>3 DEF Session
    <2>2. CASE run' = run \/ run' = [run EXCEPT !.context = TRUE]
      BY <1>1, <2>2 DEF Session
    <2>. QED BY <1>3, <2>1, <2>2
  <1>7. run' = r
    OBVIOUS
  <1>. HIDE DEF o, r
  <1>8. k \in Client /\ k.pc = p /\ k.call = o.call /\ k.calls = o.calls
    BY <1>1, <1>5 DEF Client
  <1>. HIDE DEF k
  <1>. QED BY <1>1, <1>2, <1>3, <1>5, <1>6, <1>7, <1>8, WorkCommit

(* What fails in perform. *)
LEMMA FailsCommit ==
    ASSUME PipelineInv, CommitInv, NEW c \in Clients, NEW kind \in Kind \ {"unknown"},
           LostWrite(c, kind) \/ Fails(c, kind)
    PROVE  CommitInv'
  <1>1. /\ client[c].pc \in StagePC /\ Fail(c, run, client[c], kind) /\ setup' = setup
    BY DEF LostWrite, Fails, StagePC
  <1>2. client[c].inside
    BY <1>1, OwnFacts DEF StagePart
  <1>. QED BY <1>1, <1>2, OwnCommit, FailCommit

(* While a client is in the loader the run is loading, and may be given any *)
(* outcome.                                                                 *)
LEMMA LoaderCommit ==
    ASSUME PipelineInv, CommitInv, NEW c \in Clients, client[c].pc \in {"load", "writing", "raised"},
           NEW r \in Session, r.status = run.status, r.done = run.done
    PROVE  /\ run.status = "LOADING" /\ run.status \notin Terminal
           /\ Executes(c) /\ client[c].inside /\ client[c].pc \in StagePC
           /\ RunPart(r) /\ Spread(c, r) /\ AskedPart(c, client[c], r)
  <1>1. /\ client[c].pc \in LoadPC /\ client[c].pc \in StagePC
    BY DEF LoadPC, StagePC
  <1>2. Executes(c) /\ client[c].inside /\ run.status \in {"LOADING"} \cup Terminal
    BY <1>1, Loading DEF Executes
  <1>3. run.status \notin Terminal /\ AskedPart(c, client[c], run) /\ RunPart(run)
    BY <1>1, <1>2, OwnCommit DEF UnderPart, Executes
  <1>4. RunPart(r) /\ Spread(c, r) /\ AskedPart(c, client[c], r)
    BY <1>1, <1>2, <1>3 DEF RunPart, Spread, AskedPart
  <1>. QED BY <1>1, <1>2, <1>3, <1>4

(* The loader raises, *)
LEMMA RaisedCommit ==
    ASSUME PipelineInv, CommitInv, NEW c \in Clients, NEW kind \in Kind,
           client[c].pc \in {"load", "writing"}, Raised(c, kind), UNCHANGED <<setup, run>>
    PROVE  CommitInv'
  <1> DEFINE o == client[c]
             k == [o EXCEPT !.pc = "raised", !.kind = kind]
  <1>1. /\ o \in Client /\ run \in Session /\ o = client[c]
        /\ client' = [client EXCEPT ![c] = k] /\ run' = run /\ setup' = setup
        /\ client[c].pc \in StagePC \ {"complete"} /\ "raised" \in StagePC
    BY OwnCommit DEF Raised, Become, StagePC
  <1>. HIDE DEF o
  <1>2. k \in Client /\ k.pc = "raised" /\ k.call = o.call /\ k.calls = o.calls
    BY <1>1, PCNames DEF Client
  <1>. HIDE DEF k
  <1>. QED BY <1>1, <1>2, WorkCommit

(* answers, *)
LEMMA ReceivedCommit ==
    ASSUME PipelineInv, CommitInv, NEW c \in Clients, NEW rejected \in BOOLEAN,
           client[c].pc \in {"load", "writing"}, Received(c, rejected), setup' = setup
    PROVE  CommitInv'
  <1> DEFINE o == client[c]
             h == Head(o.todo)
             dn == run.done \cup {"LOADING"}
             q == [run EXCEPT !.outcome = "COMMITTED", !.done = dn]
             k == [o EXCEPT !.pc = "complete"]
  <1>1. /\ o \in Client /\ run \in Session /\ o = client[c] /\ h = Head(client[c].todo)
        /\ client' = [client EXCEPT ![c] = k] /\ run' = q
        /\ client[c].pc \in StagePC \ {"complete"} /\ "complete" \in StagePC
        /\ client[c].pc \in LoadPC /\ client[c].pc \notin {"begin", "fill", "seal"}
    BY OwnCommit DEF Received, Become, StagePC, LoadPC
  <1>2. dn \in SUBSET Stage /\ "COMMITTED" \in Outcome
    BY <1>1, RunTypes, StageNames DEF Outcome
  <1>3. h = "LOADING" /\ run.status \in {"LOADING"} \cup Terminal /\ Executes(c)
    BY <1>1, Loading DEF Executes
  <1>4. dn = run.done \cup {h}
    BY <1>3
  <1>. HIDE DEF o, h, dn
  <1>5. k \in Client /\ k.pc = "complete" /\ k.call = o.call /\ k.calls = o.calls
    BY <1>1, PCNames DEF Client
  <1>6. q \in Session /\ q.status = run.status /\ q.done = dn
    BY <1>1, <1>2 DEF Session
  <1>. HIDE DEF k, q
  <1>7. /\ q.done = run.done \cup {Head(client[c].todo)}
        /\ q.status \in {Head(client[c].todo)} \cup Terminal
        /\ q.status \in {"LOADING"} \cup Terminal
    BY <1>1, <1>3, <1>4, <1>6
  <1>. QED BY <1>1, <1>3, <1>5, <1>6, <1>7, WorkCommit

(* commits, *)
LEMMA LoadCommit ==
    ASSUME PipelineInv, CommitInv, NEW c \in Clients, NEW final, Load(c, final)
    PROVE  CommitInv'
  <1>1. client[c].pc = "writing" /\ setup' = setup
    BY DEF Load
  <1>2. client[c] \in Client /\ run \in Session
    BY OwnCommit
  <1>3. CASE Received(c, final = "QUARANTINED")
    BY <1>1, <1>3, ReceivedCommit
  <1>4. CASE Fail(c, run, client[c], "unknown")
    BY <1>1, <1>2, <1>4, LoaderCommit, FailCommit
  <1>5. CASE Fail(c, [run EXCEPT !.outcome = "COMMITTED"], client[c], "error")
    <2> DEFINE q == [run EXCEPT !.outcome = "COMMITTED"]
    <2>1. q \in Session /\ q.status = run.status /\ q.done = run.done
      <3>1. "COMMITTED" \in Outcome
        BY DEF Outcome
      <3>. QED BY <1>2, <3>1 DEF Session
    <2>2. Fail(c, q, client[c], "error")
      BY <1>5
    <2>. HIDE DEF q
    <2>. QED BY <1>1, <1>2, <2>1, <2>2, LoaderCommit, FailCommit
  <1>6. CASE (\E kind \in Kind \ {"unknown"} : Raised(c, kind)) /\ UNCHANGED <<run, log>>
    <2>1. PICK kind \in Kind : Raised(c, kind)
      BY <1>6
    <2>. QED BY <1>1, <1>6, <2>1, RaisedCommit
  <1>. QED BY <1>3, <1>4, <1>5, <1>6 DEF Load

(* is asked about after it raised, *)
LEMMA ConsultCommit ==
    ASSUME PipelineInv, CommitInv, NEW c \in Clients, Consult(c)
    PROVE  CommitInv'
  <1> DEFINE out == OutcomeOf(staging.status)
             q == [run EXCEPT !.outcome = out]
  <1>1. /\ client[c].pc = "raised" /\ Fail(c, q, client[c], client[c].kind)
        /\ setup' = setup /\ client[c] \in Client /\ run \in Session
    BY OwnCommit DEF Consult
  <1>2. out \in Outcome
    BY <1>1, OutcomeOfRow DEF Outcome
  <1>. HIDE DEF out
  <1>3. q \in Session /\ q.status = run.status /\ q.done = run.done
    BY <1>1, <1>2 DEF Session
  <1>. HIDE DEF q
  <1>. QED BY <1>1, <1>3, LoaderCommit, FailCommit

(* or cannot be asked about. *)
LEMMA ConsultFailsCommit ==
    ASSUME PipelineInv, CommitInv, NEW c \in Clients, ConsultFails(c)
    PROVE  CommitInv'
  <1> DEFINE q == [run EXCEPT !.outcome = "UNKNOWN"]
             goal == StatusAfter(client[c].kind, "UNKNOWN")
  <1>1. /\ client[c].pc = "raised" /\ setup' = setup /\ client[c] \in Client /\ run \in Session
        /\ EnterTerminal(c, q, client[c], goal, Noted({"OUTCOME_UNAVAILABLE"}), 1)
    BY OwnCommit DEF ConsultFails
  <1>2. goal \in Terminal /\ goal \notin {"COMPLETED", "COMPLETED_WITH_WARNINGS"}
    BY StatusAfterType DEF StatusAfter
  <1>3. q \in Session /\ q.status = run.status /\ q.done = run.done /\ q.outcome = "UNKNOWN"
    <2>1. "UNKNOWN" \in Outcome
      BY DEF Outcome
    <2>. QED BY <1>1, <2>1 DEF Session
  <1>. HIDE DEF q, goal
  <1>4. Told(goal, q.outcome)
    BY <1>2, <1>3 DEF Told
  <1>5. RunPart(q) /\ Spread(c, q) /\ AskedPart(c, client[c], q) /\ client[c].inside
    BY <1>1, <1>3, LoaderCommit
  <1>. QED BY <1>1, <1>2, <1>3, <1>4, <1>5, TerminalCommit

(* The end of a stage. *)
LEMMA AdvanceCommit ==
    ASSUME PipelineInv, CommitInv, NEW c \in Clients, NEW l, client[c].pc = "complete",
           Advance(c, l), setup' = setup
    PROVE  CommitInv'
  <1> DEFINE o == client[c]
             left == Tail(o.todo)
             free == [run EXCEPT !.busy = FALSE]
             on == [o EXCEPT !.todo = left]
             out == [o EXCEPT !.todo = left, !.inside = FALSE]
             goal == IF l.notes # {} THEN "COMPLETED_WITH_WARNINGS" ELSE "COMPLETED"
  <1>1. /\ o \in Client /\ TodoPart(o) /\ run \in Session /\ o.pc = "complete"
        /\ o.inside /\ o.todo # <<>> /\ LoadPart(o, run, staging, target)
        /\ AskedPart(c, o, run) /\ RunPart(run) /\ Spread(c, run)
    BY OwnFacts, OwnCommit DEF StagePart, StagePC
  <1>2. /\ 1 \in DOMAIN o.todo /\ Head(o.todo) = o.todo[1] /\ left \in Seq(Stage)
        /\ left = <<>> => Len(o.todo) = 1
    BY <1>1, FirstStage
  <1>3. \/ left # <<>> /\ EnterStage(c, run, on)
        \/ /\ left = <<>> /\ o.call = "execute"
           /\ \E m : EnterTerminal(c, free, out, goal, m, 0)
        \/ /\ left = <<>> /\ run' = free /\ Become(c, [out EXCEPT !.pc = "idle"])
    BY DEF Advance
  <1>4. goal \in Terminal /\ goal \in {"COMPLETED", "COMPLETED_WITH_WARNINGS"}
    BY DEF Terminal
  <1>5. left = <<>> /\ o.call = "execute" => run.outcome \in {"COMMITTED", "DRY_RUN"}
    BY <1>1, <1>2 DEF TodoPart, LoadPart
  <1>. HIDE DEF o, left, goal
  <1>6. on \in Client /\ on.call = o.call /\ on.calls = o.calls /\ on.todo = left /\ on.inside = o.inside
    BY <1>1, <1>2 DEF Client
  <1>7. out \in Client /\ out.call = o.call /\ out.calls = o.calls
    BY <1>1, <1>2 DEF Client
  <1>8. /\ free \in Session /\ free.status = run.status /\ free.outcome = run.outcome
        /\ free.done = run.done
    BY <1>1 DEF Session
  <1>9. CASE left # <<>> /\ EnterStage(c, run, on)
    <2>. HIDE DEF on
    <2>1. AskedPart(c, on, run)
      BY <1>1, <1>6 DEF AskedPart
    <2>. QED BY <1>1, <1>6, <1>9, <2>1, StageCommit
  <1>10. CASE /\ left = <<>> /\ o.call = "execute"
              /\ \E m : EnterTerminal(c, free, out, goal, m, 0)
    <2>. HIDE DEF free, out
    <2>1. PICK m : EnterTerminal(c, free, out, goal, m, 0)
      BY <1>10
    <2>2. AskedPart(c, out, free) /\ RunPart(free) /\ Spread(c, free)
      BY <1>1, <1>7, <1>8 DEF AskedPart, RunPart, Spread
    <2>3. Told(goal, free.outcome) /\ out.call = "execute"
      BY <1>4, <1>5, <1>7, <1>8, <1>10 DEF Told
    <2>. QED BY <1>4, <1>7, <1>8, <2>1, <2>2, <2>3, TerminalCommit
  <1>11. CASE left = <<>> /\ run' = free /\ Become(c, [out EXCEPT !.pc = "idle"])
    <2> DEFINE k == [out EXCEPT !.pc = "idle"]
    <2>1. client' = [client EXCEPT ![c] = k] /\ run' = free
      BY <1>11 DEF Become
    <2>. HIDE DEF out, free
    <2>2. k.pc = "idle" /\ k.call = o.call /\ k.calls = o.calls
      BY <1>7 DEF Client
    <2>. HIDE DEF k
    <2>3. AskedPart(c, k, free) /\ RunPart(free) /\ Spread(c, free)
      BY <1>1, <1>8, <2>2 DEF AskedPart, RunPart, Spread
    <2>4. CommitPart(c, k, free)
      BY <2>2, <2>3, IdlePart
    <2>. QED BY <2>1, <2>3, <2>4, CommitMoved
  <1>. QED BY <1>3, <1>9, <1>10, <1>11

(* A hook that fails after the commit is a note. *)
LEMMA CompleteFailsCommit ==
    ASSUME PipelineInv, CommitInv, NEW c \in Clients, NEW kind \in Kind \ {"unknown"},
           CompleteFails(c, kind)
    PROVE  CommitInv'
  <1>1. /\ client[c].pc = "complete" /\ setup' = setup /\ client[c].pc \in StagePC
        /\ Advance(c, Noted({"HOOK_FAILED_AFTER_COMMIT"})) \/ Fail(c, run, client[c], kind)
    BY DEF CompleteFails, StagePC
  <1>2. client[c].inside
    BY <1>1, OwnFacts DEF StagePart
  <1>3. CASE Advance(c, Noted({"HOOK_FAILED_AFTER_COMMIT"}))
    BY <1>1, <1>3, AdvanceCommit
  <1>4. CASE Fail(c, run, client[c], kind)
    BY <1>1, <1>2, <1>4, OwnCommit, FailCommit
  <1>. QED BY <1>1, <1>3, <1>4

(* A stop between two stages finds no commit and no execute of another      *)
(* client.                                                                  *)
LEMMA StopBetweenCommit ==
    ASSUME PipelineInv, CommitInv, Undisturbed, NEW c \in Clients, StopBetween(c)
    PROVE  CommitInv'
  <1> DEFINE o == client[c]
             free == [run EXCEPT !.busy = FALSE]
             out == [o EXCEPT !.inside = FALSE]
  <1>1. /\ o \in Client /\ run \in Session /\ o.pc = "complete" /\ o = client[c] /\ o.inside
        /\ o.todo # <<>> /\ AskedPart(c, o, run) /\ RunPart(run) /\ Spread(c, run)
        /\ run.status \in {Head(o.todo)} \cup Terminal
    BY OwnFacts, OwnCommit DEF StopBetween, StagePart, StagePC
  <1>2. /\ EnterTerminal(c, free, out, "NEEDS_REVIEW", log, 1) /\ setup' = setup
        /\ MayStop(o.call, Head(o.todo), c \in Disputes)
    BY DEF StopBetween
  <1>3. run.status \notin Terminal =>
           o.call = "execute" \/ OthersWait(c) \/ Unparsed(c, run.done)
    <2>1. CASE o.call = "parse_semantically" /\ Head(o.todo) = "PARSE_PLAN_VALIDATING"
      <3> SUFFICES ASSUME run.status \notin Terminal PROVE Unparsed(c, run.done)
        OBVIOUS
      <3>1. "SEMANTIC_PARSING" \notin run.done
        BY <1>1, <2>1 DEF RunPart, Later
      <3>2. "parse_semantically" \in Asked(setup, c) /\ setup \in Setups
        BY <1>1, <2>1 DEF AskedPart, PipelineInv, Base
      <3>. QED BY <3>1, <3>2 DEF Unparsed, Undisturbed
    <2>2. CASE c \in Disputes
      BY <2>2, DisputesAlone
    <2>. QED BY <1>2, <2>1, <2>2 DEF MayStop
  <1>4. run.status \notin Terminal => run.outcome # "COMMITTED"
    <2>1. Head(o.todo) # "LOADING"
      BY <1>2 DEF MayStop, ComparedWith
    <2>2. client[c].pc \in StagePC \ {"first"}
      BY <1>1 DEF StagePC
    <2>. QED BY <2>1, <2>2, Uncommitted
  <1>5. "NEEDS_REVIEW" \in Terminal
    BY DEF Terminal
  <1>. HIDE DEF o
  <1>6. out \in Client /\ out.call = o.call /\ out.calls = o.calls
    BY <1>1 DEF Client
  <1>7. /\ free \in Session /\ free.status = run.status /\ free.outcome = run.outcome
        /\ free.done = run.done
    BY <1>1 DEF Session
  <1>. HIDE DEF out, free
  <1>8. AskedPart(c, out, free) /\ RunPart(free) /\ Spread(c, free)
    BY <1>1, <1>6, <1>7 DEF AskedPart, RunPart, Spread
  <1>9. free.status \notin Terminal =>
           /\ Told("NEEDS_REVIEW", free.outcome)
           /\ out.inside \/ out.call = "execute" \/ OthersWait(c) \/ Unparsed(c, free.done)
    BY <1>3, <1>4, <1>6, <1>7 DEF Told
  <1>. QED BY <1>2, <1>5, <1>6, <1>7, <1>8, <1>9, TerminalCommit

(* The end of a run. *)
LEMMA FinishCommit ==
    ASSUME PipelineInv, CommitInv, NEW c \in Clients, NEW r \in Session, NEW cut,
           RunPart(r), Spread(c, r), r.status \in Terminal, r.outcome = run.outcome,
           client[c].pc \in {"sign", "tell"} \/ r.status = run.status,
           Finish(c, r, cut), setup' = setup
    PROVE  CommitInv'
  <1>1. CASE Leave(c, r)
    BY <1>1, LeaveCommit
  <1>2. CASE r.outcome # "COMMITTED" /\ Leave(c, [r EXCEPT !.status = "CANCELLED"])
    <2> DEFINE z == [r EXCEPT !.status = "CANCELLED"]
    <2>1. z \in Session /\ z.status = "CANCELLED" /\ z.outcome = r.outcome /\ z.done = r.done
      BY DEF Session, Terminal
    <2>2. Leave(c, z)
      BY <1>2
    <2>. HIDE DEF z
    <2>3. RunPart(z)
      BY <1>2, <2>1 DEF RunPart, Told, Terminal
    <2>4. Spread(c, z)
      BY <1>2, <2>1 DEF Spread
    <2>. QED BY <2>1, <2>2, <2>3, <2>4, LeaveCommit
  <1>. QED BY <1>1, <1>2 DEF Finish

(* terminal sets a status that may be told of the outcome. *)
LEMMA SetStatusCommit ==
    ASSUME PipelineInv, CommitInv, NEW c \in Clients, NEW goal \in Terminal, NEW cut \in BOOLEAN,
           client[c].pc \in {"sign", "tell"}, Told(goal, run.outcome),
           SetStatus(c, goal, cut), setup' = setup
    PROVE  CommitInv'
  <1> DEFINE o == client[c]
             q == [run EXCEPT !.status = goal]
             k == [o EXCEPT !.pc = "read", !.goal = goal, !.cut = cut]
  <1>1. /\ o \in Client /\ run \in Session /\ AskedPart(c, o, run) /\ RunPart(run) /\ Spread(c, run)
    BY OwnCommit
  <1>2. q \in Session /\ q.status = goal /\ q.outcome = run.outcome /\ q.done = run.done
    BY <1>1 DEF Session
  <1>3. \/ run' = q /\ client' = [client EXCEPT ![c] = k]
        \/ Finish(c, q, cut)
    BY DEF SetStatus, Become
  <1>. HIDE DEF o, q
  <1>4. RunPart(q) /\ Spread(c, q)
    BY <1>1, <1>2 DEF RunPart, Spread
  <1>5. CASE run' = q /\ client' = [client EXCEPT ![c] = k]
    <2>1. k.pc = "read" /\ k.call = o.call /\ k.calls = o.calls
      BY <1>1 DEF Client
    <2>. HIDE DEF k
    <2>2. CommitPart(c, k, q)
      BY <1>1, <1>2, <2>1 DEF CommitPart, AskedPart, UnderPart, GoalPart, StagePC
    <2>. QED BY <1>4, <1>5, <2>2, CommitMoved
  <1>6. CASE Finish(c, q, cut)
    BY <1>2, <1>4, <1>6, FinishCommit
  <1>. QED BY <1>3, <1>5, <1>6

(* The steps of terminal keep the invariant of the commit. *)
LEMMA EndCommit ==
    ASSUME PipelineInv, CommitInv, NEW c \in Clients, TerminalStep(c)
    PROVE  CommitInv'
  <1>1. /\ client[c] \in Client /\ run \in Session
        /\ AskedPart(c, client[c], run) /\ GoalPart(c, client[c], run) /\ RunPart(run) /\ Spread(c, run)
        /\ EndPart(client[c], run)
    BY OwnFacts, OwnCommit
  <1>2. setup' = setup
    BY DEF TerminalStep, Sign, Tell, Read, Move, Gap, CleanupFails
  <1>3. CASE Sign(c)
    <2> DEFINE o == client[c]
               k == [o EXCEPT !.pc = "tell"]
    <2>1. client' = [client EXCEPT ![c] = k] /\ run' = run /\ o = client[c] /\ o.pc = "sign"
      BY <1>3 DEF Sign, Become
    <2>. HIDE DEF o
    <2>2. /\ k.pc = "tell" /\ k.call = o.call /\ k.calls = o.calls /\ k.goal = o.goal
          /\ k.inside = o.inside
      BY <1>1, <2>1 DEF Client
    <2>. HIDE DEF k
    <2>3. CommitPart(c, k, run)
      BY <1>1, <2>1, <2>2 DEF CommitPart, AskedPart, UnderPart, GoalPart, StagePC
    <2>. QED BY <1>1, <1>2, <2>1, <2>3, CommitMoved
  <1>4. CASE Tell(c)
    <2>1. client[c].pc = "tell" /\ SetStatus(c, client[c].goal, FALSE)
      BY <1>4 DEF Tell
    <2>2. client[c].goal \in Terminal /\ Told(client[c].goal, run.outcome)
      BY <1>1, <2>1 DEF EndPart, GoalPart
    <2>. QED BY <1>2, <2>1, <2>2, SetStatusCommit
  <1>5. ASSUME NEW cut \in BOOLEAN, Gap(c, cut) PROVE CommitInv'
    <2> DEFINE goal == GoalAfterGap(client[c].goal, cut)
    <2>1. client[c].pc \in {"sign", "tell"} /\ SetStatus(c, goal, cut)
      BY <1>5 DEF Gap
    <2>2. client[c].goal \in Terminal /\ Told(client[c].goal, run.outcome)
      BY <1>1, <2>1 DEF EndPart, GoalPart
    <2>3. goal \in Terminal /\ Told(goal, run.outcome)
      BY <2>2 DEF GoalAfterGap, Told, Terminal
    <2>. HIDE DEF goal
    <2>. QED BY <1>2, <2>1, <2>3, SetStatusCommit
  <1>6. ASSUME client[c].pc \in {"read", "move"}, NEW cut, Finish(c, run, cut) PROVE CommitInv'
    <2>1. run.status \in Terminal
      BY <1>1, <1>6 DEF EndPart
    <2>. QED BY <1>1, <1>2, <1>6, <2>1, FinishCommit
  <1>7. CASE Read(c)
    <2> DEFINE o == client[c]
               k == [o EXCEPT !.pc = "move", !.seen = staging]
    <2>1. \/ client' = [client EXCEPT ![c] = k] /\ run' = run
          \/ client[c].pc \in {"read", "move"} /\ Finish(c, run, client[c].cut)
      BY <1>7 DEF Read, Become
    <2>2. CASE client' = [client EXCEPT ![c] = k] /\ run' = run
      <3>1. o = client[c]
        OBVIOUS
      <3>. HIDE DEF o
      <3>2. k.pc = "move" /\ k.call = o.call /\ k.calls = o.calls
        BY <1>1, <3>1 DEF Client
      <3>. HIDE DEF k
      <3>3. CommitPart(c, k, run)
        BY <1>1, <3>1, <3>2 DEF CommitPart, AskedPart, UnderPart, GoalPart, StagePC
      <3>. QED BY <1>1, <1>2, <2>2, <3>3, CommitMoved
    <2>. QED BY <1>6, <2>1, <2>2
  <1>8. CASE Move(c)
    BY <1>6, <1>8 DEF Move
  <1>9. ASSUME NEW cut \in BOOLEAN, CleanupFails(c, cut) PROVE CommitInv'
    BY <1>6, <1>9 DEF CleanupFails
  <1>. QED BY <1>3, <1>4, <1>5, <1>7, <1>8, <1>9 DEF TerminalStep

(* The task that closes the lease only ever adds a warning. *)
LEMMA CloserCommit ==
    ASSUME PipelineInv, CommitInv, CloseStep
    PROVE  CommitInv'
  <1>1. setup' = setup /\ client' = client
    BY DEF CloseStep, Close, CloseRead, CloseMove, CloseFails, CloseCancelled, Closed
  <1>2. CASE run' = run
    BY <1>1, <1>2 DEF CommitInv, RunPart, CommitPart, AskedPart, UnderPart, GoalPart,
                      OthersWait, Unparsed, Executes, Asked, Told
  <1>3. CASE Closed
    <2> DEFINE kept == closer.cut /\ run.outcome = "COMMITTED"
               x == IF kept \/ (closer.failed /\ run.status = "COMPLETED")
                    THEN "COMPLETED_WITH_WARNINGS" ELSE run.status
               q == [run EXCEPT !.closed = TRUE, !.status = x]
    <2>1. run' = q
      BY <1>3 DEF Closed
    <2>2. run \in Session
      BY DEF PipelineInv, Base, WholePart
    <2>3. \/ x = run.status
          \/ /\ x = "COMPLETED_WITH_WARNINGS"
             /\ run.outcome = "COMMITTED" \/ run.status = "COMPLETED"
      OBVIOUS
    <2>. HIDE DEF x
    <2>4. q.status = x /\ q.outcome = run.outcome /\ q.done = run.done
      BY <2>2 DEF Session
    <2>. HIDE DEF q
    <2>5. RunPart(q)
      BY <2>3, <2>4 DEF CommitInv, RunPart, Told, Terminal
    <2>6. \A d \in Clients : CommitPart(d, client[d], q)
      <3> SUFFICES ASSUME NEW d \in Clients PROVE CommitPart(d, client[d], q)
        OBVIOUS
      <3>1. /\ AskedPart(d, client[d], run) /\ UnderPart(client[d], run) /\ GoalPart(d, client[d], run)
            /\ LoadPart(client[d], run, staging, target)
        BY OwnFacts, OwnCommit
      <3>2. UnderPart(client[d], q)
        BY <2>3, <2>4, <3>1 DEF UnderPart, LoadPart, Early, StagePC, Terminal
      <3>. QED BY <2>4, <3>1, <3>2 DEF CommitPart, AskedPart, GoalPart
    <2>. QED BY <1>1, <2>1, <2>5, <2>6
           DEF CommitInv, RunPart, CommitPart, AskedPart, UnderPart, GoalPart,
               OthersWait, Unparsed, Executes, Asked, Told
  <1>. QED BY <1>2, <1>3 DEF CloseStep, Close, CloseRead, CloseMove, CloseFails, CloseCancelled

(* A new session satisfies the invariant of the commit, *)
LEMMA InitCommit == Init => CommitInv
  <1> SUFFICES ASSUME Init PROVE CommitInv
    OBVIOUS
  <1>1. /\ run.status = "CREATED" /\ run.outcome = "NOT_STARTED" /\ run.done = {}
        /\ \A c \in Clients : /\ client[c].pc = "idle" /\ client[c].call = "none"
                              /\ client[c].calls = Plan[c]
    BY DEF Init
  <1>2. RunPart(run)
    BY <1>1 DEF RunPart, Terminal
  <1>3. \A c \in Clients : CommitPart(c, client[c], run)
    <2> SUFFICES ASSUME NEW c \in Clients PROVE CommitPart(c, client[c], run)
      OBVIOUS
    <2>1. Asked(setup, c) = {client[c].calls[i] : i \in DOMAIN client[c].calls}
      BY <1>1 DEF Asked, Plan
    <2>2. AskedPart(c, client[c], run)
      BY <1>1, <2>1 DEF AskedPart
    <2>. QED BY <1>1, <2>2, IdlePart
  <1>. QED BY <1>2, <1>3 DEF CommitInv

(* and every step keeps it, given clients that do not disturb each other. *)
LEMMA NextCommit ==
    ASSUME Undisturbed, PipelineInv, CommitInv, [Next]_vars
    PROVE  CommitInv'
  <1>1. CASE UNCHANGED vars
    BY <1>1 DEF vars, CommitInv, RunPart, CommitPart, AskedPart, UnderPart, GoalPart,
                OthersWait, Unparsed, Executes, Asked, Told
  <1>2. CASE CloseStep
    BY <1>2, CloserCommit
  <1>3. ASSUME NEW c \in Clients, Step(c) PROVE CommitInv'
    <2>1. CASE Perform(c)
      <3>1. CASE Call(c) \/ Dispute(c) \/ First(c) \/ Announced(c) \/ Work(c) \/ StopInside(c)
        BY <3>1, CallCommit, DisputeCommit, FirstCommit, AnnouncedCommit, WorkStageCommit,
           StopInsideCommit
      <3>2. CASE Stop(c)
        BY <3>2, EndsCommit DEF Stop
      <3>3. CASE Begin(c) \/ Fill(c) \/ Seal(c) \/ StopBetween(c)
        BY <3>3, StagingCommit, StopBetweenCommit
      <3>4. CASE Complete(c)
        BY <3>4, AdvanceCommit DEF Complete
      <3>5. ASSUME NEW kind \in Kind \ {"unknown"},
                   LostWrite(c, kind) \/ Fails(c, kind) \/ LoadRefused(c, kind) \/ CompleteFails(c, kind)
            PROVE  CommitInv'
        <4>1. CASE LoadRefused(c, kind)
          BY <4>1, RaisedCommit DEF LoadRefused
        <4>. QED BY <3>5, <4>1, FailsCommit, CompleteFailsCommit
      <3>. QED BY <2>1, <3>1, <3>2, <3>3, <3>4, <3>5 DEF Perform
    <2>2. CASE LoadStep(c)
      <3>1. CASE Claim(c)
        BY <3>1, StagingCommit
      <3>2. CASE Replay(c)
        BY <3>2, ReceivedCommit DEF Replay
      <3>3. CASE Consult(c) \/ ConsultFails(c)
        BY <3>3, ConsultCommit, ConsultFailsCommit
      <3>4. ASSUME NEW final, Load(c, final) PROVE CommitInv'
        BY <3>4, LoadCommit
      <3>5. ASSUME NEW kind \in Kind, NEW final, RollBack(c, kind, final) PROVE CommitInv'
        BY <3>5, RaisedCommit DEF RollBack
      <3>6. ASSUME NEW final, LoadUnknown(c, final) PROVE CommitInv'
        <4>1. "unknown" \in Kind
          BY DEF Kind
        <4>. QED BY <3>6, <4>1, RaisedCommit DEF LoadUnknown
      <3>. QED BY <2>2, <3>1, <3>2, <3>3, <3>4, <3>5, <3>6 DEF LoadStep, Kind
    <2>3. CASE TerminalStep(c)
      BY <2>3, EndCommit
    <2>. QED BY <1>3, <2>1, <2>2, <2>3 DEF Step
  <1>. QED BY <1>1, <1>2, <1>3 DEF Next

(* A commit is never hidden by what fails, times out or is cancelled after  *)
(* it, and a run that executed is not COMPLETED without one or a forecast   *)
(* (the except blocks of RunSession.perform, RunSession.terminal, aclose).  *)
(* It needs clients that do not stop the run from outside perform while     *)
(* another one executes.                                                    *)
THEOREM CommitReported ==
    ASSUME Undisturbed
    PROVE  Spec => []CommitIsReported
  <1>1. PipelineInv /\ CommitInv /\ [Next]_vars => CommitInv'
    BY NextCommit
  <1>2. CommitInv => CommitIsReported
    BY DEF CommitInv, RunPart, Told, CommitIsReported
  <1>. QED BY <1>1, <1>2, InitCommit, PipelineInvariant, PTL DEF Spec
-----------------------------
(* The end is told. *)

(* Why the last event may not be the status of the result. *)
Excuses == {"AUDIT_GAP", "CLEANUP_FAILED", "CANCELLED_AFTER_COMMIT"}

Warned(l) == l.notes \cap Excuses # {}

(* What the closer may leave on a flawless run. *)
Unflawed(l) ==
    l.errors = 0 /\ l.notes \subseteq {"CLEANUP_FAILED", "CANCELLED_AFTER_COMMIT"}

Last(q) == q[Len(q)]

(* A run is started once, by the first stage of all. *)
StartPart ==
    /\ \A c \in Clients : /\ client[c].pc \in StagePC \ {"first"} => run.started
                          /\ client[c].pc = "first" => ~run.started
    /\ ~run.started => run.status \in {"CREATED"} \cup Terminal

(* A client at the end of the run, and what it goes for. *)
EndingPart(k, l) ==
    /\ k.pc \in StagePC \cup {"idle"} => k.goal = "none"
    /\ k.pc \in {"sign", "tell", "read", "move"} => k.goal \in Terminal
    /\ k.pc \in {"read", "move"} /\ k.cut => Warned(l)

(* A status that ends the run is some client's, or the closer's. *)
WhosePart ==
    run.status \in Terminal =>
        \/ \E c \in Clients : client[c].goal # "none" /\ client[c].pc \notin {"sign", "tell"}
        \/ Warned(log) /\ run.status = "COMPLETED_WITH_WARNINGS"

(* Errors and events are of a client that came to the end. *)
FreshPart ==
    (\A c \in Clients : client[c].goal = "none") => log.errors = 0 /\ log.finished = <<>>

(* The last event, told or about to be. *)
EventPart ==
    OneEnd /\ ~Warned(log) =>
        /\ \A c \in Clients : client[c].pc = "tell" =>
              log.finished # <<>> /\ Last(log.finished) = client[c].goal
        /\ run.status \in Terminal => log.finished # <<>> /\ Last(log.finished) = run.status

Nobody == \A c \in Clients : ~client[c].inside

(* A success on its way, and one that is told. *)
SuccessPart ==
    OneEnd =>
        /\ \A c \in Clients : client[c].goal = "COMPLETED" /\ client[c].pc \in {"sign", "tell"} =>
              /\ Nobody /\ Unflawed(log) /\ run.status \in {"LOADING"} \cup Terminal
              /\ log.finished = IF client[c].pc = "sign" THEN <<>> ELSE <<"COMPLETED">>
        /\ run.status = "COMPLETED" =>
              Nobody /\ Unflawed(log) /\ log.finished = <<"COMPLETED">>

EndInv ==
    /\ \A c \in Clients : EndingPart(client[c], log)
    /\ StartPart /\ WhosePart /\ FreshPart /\ EventPart /\ SuccessPart

-----------------------------
(* The steps of a client, as the end of the run sees them. *)

(* A client that starts the run does it in the first stage of all. *)
Starts(c, k, r) ==
    /\ run.started => r.started
    /\ r.started # run.started => client[c].inside
    /\ k.pc \in StagePC \ {"first"} => r.started
    /\ k.pc = "first" => ~r.started

(* A warning is left only inside perform. *)
Grown(c, l) ==
    /\ l.errors = log.errors /\ l.finished = log.finished /\ log.notes \subseteq l.notes
    /\ l.notes # log.notes => client[c].inside

(* It does not come to the end. *)
GoesOn(c, k, r, l) ==
    /\ Starts(c, k, r) /\ Grown(c, l)
    /\ client[c].goal = "none" /\ k.goal = "none" /\ k.pc \notin {"sign", "tell", "read", "move"}
    /\ k.inside => client[c].inside \/ run.status \notin Terminal \cup {"LOADING"}
    /\ \/ r.status = run.status
       \/ r.started /\ run.status \notin Terminal \cup {"LOADING"} /\ r.status \notin Terminal

(* It comes to the end: a success is without a flaw, and comes from the     *)
(* last stage.                                                              *)
ComesToEnd(c, k, r, l) ==
    /\ Starts(c, k, r) /\ log.notes \subseteq l.notes /\ l.finished = log.finished
    /\ client[c].goal = "none" /\ k.goal \in Terminal /\ k.pc = "sign"
    /\ r.status = run.status /\ run.status \notin Terminal
    /\ k.goal = "COMPLETED" =>
          /\ l.errors = log.errors /\ l.notes = {} /\ run.status = "LOADING"
          /\ client[c].inside /\ ~k.inside

(* The event of the end is signed. *)
Signs(c, k, r, l) ==
    /\ client[c].pc = "sign" /\ k.pc = "tell" /\ k.goal = client[c].goal
    /\ k.inside = client[c].inside /\ r = run
    /\ l.errors = log.errors /\ l.notes = log.notes
    /\ l.finished = Append(log.finished, client[c].goal)

(* The status is set: the one that was told, or with a warning. *)
SetsStatus(c, k, r, l) ==
    /\ client[c].pc \in {"sign", "tell"} /\ k.pc \in {"read", "done"} /\ k.goal \in Terminal
    /\ k.inside => client[c].inside
    /\ r.status \in Terminal /\ r.started = run.started
    /\ \/ /\ client[c].pc = "tell" /\ l = log /\ r.status = client[c].goal
          /\ k.pc = "read" => ~k.cut
       \/ /\ Warned(l) /\ log.notes \subseteq l.notes /\ r.status # "COMPLETED"

(* The staged run is given up, or a warning says that it could not be. *)
Cleans(c, k, r, l) ==
    /\ client[c].pc \in {"read", "move"} /\ k.pc \in {"move", "done"} /\ k.goal = client[c].goal
    /\ k.pc = "move" => k.cut = client[c].cut
    /\ k.inside => client[c].inside
    /\ l.errors = log.errors /\ l.finished = log.finished
    /\ log.notes \subseteq l.notes /\ l.notes \subseteq log.notes \cup {"CLEANUP_FAILED"}
    /\ r.status = run.status \/ (Warned(l) /\ r.status = "CANCELLED")
    /\ r.started = run.started

Takes(c, k) == client' = [client EXCEPT ![c] = k]

(* A warning stays. *)
LEMMA WarnedStays == ASSUME NEW m, NEW l, m.notes \subseteq l.notes, Warned(m) PROVE Warned(l)
  BY DEF Warned

(* What a step of one client leaves of the others. *)
LEMMA TakenBy ==
    ASSUME PipelineInv, NEW c \in Clients, NEW k, Takes(c, k)
    PROVE  client'[c] = k /\ \A d \in Clients \ {c} : client'[d] = client[d]
  BY DEF PipelineInv, Base, Takes

(* The parts of the invariant that look at a client at a time. *)
LEMMA EndingKeeps ==
    ASSUME PipelineInv, EndInv, NEW c \in Clients, NEW k, NEW r, NEW l,
           Takes(c, k), run' = r, log' = l, log.notes \subseteq l.notes,
           EndingPart(k, l), Starts(c, k, r),
           r.status = run.status \/ r.status \in Terminal \/ r.started
    PROVE  StartPart' /\ \A d \in Clients : EndingPart(client[d], log)'
  <1>1. client'[c] = k /\ \A d \in Clients \ {c} : client'[d] = client[d]
    BY TakenBy
  <1>2. Warned(log) => Warned(l)
    BY WarnedStays
  <1>3. ASSUME NEW d \in Clients PROVE EndingPart(client[d], log)'
    <2>1. EndingPart(client'[d], l)
      BY <1>1, <1>2 DEF EndInv, EndingPart
    <2>. QED BY <2>1 DEF EndingPart, Warned
  <1>4. ASSUME NEW d \in Clients
        PROVE  /\ client'[d].pc \in StagePC \ {"first"} => r.started
               /\ client'[d].pc = "first" => ~r.started
    <2>1. CASE d = c
      BY <1>1, <2>1 DEF Starts
    <2>2. CASE d # c
      <3>1. /\ client'[d] = client[d] /\ StagePart(client[d], run)
            /\ client[d].pc \in StagePC \ {"first"} => run.started
            /\ client[d].pc = "first" => ~run.started
        BY <1>1, <2>2, OwnFacts DEF EndInv, StartPart
      <3>2. client[d].pc = "first" => client[d].inside
        BY <3>1 DEF StagePart, StagePC
      <3>3. client[c].inside => ~client[d].inside
        BY <2>2 DEF PipelineInv, PairPart
      <3>. QED BY <3>1, <3>2, <3>3 DEF Starts
    <2>. QED BY <2>1, <2>2
  <1>5. ~r.started => r.status \in {"CREATED"} \cup Terminal
    BY DEF EndInv, StartPart, Starts
  <1>. QED BY <1>3, <1>4, <1>5 DEF StartPart

(* A step that does not come to the end. *)
LEMMA GoesOnKeeps ==
    ASSUME PipelineInv, EndInv, NEW c \in Clients, NEW k, NEW r, NEW l,
           Takes(c, k), run' = r, log' = l, GoesOn(c, k, r, l)
    PROVE  EndInv'
  <1>1. client'[c] = k /\ \A d \in Clients \ {c} : client'[d] = client[d]
    BY TakenBy
  <1>2. \A d \in Clients : client'[d].goal = client[d].goal
    BY <1>1 DEF GoesOn
  <1>3. OneEnd' => OneEnd
    BY <1>2 DEF OneEnd
  <1>4. /\ l.errors = log.errors /\ l.finished = log.finished /\ log.notes \subseteq l.notes
        /\ Warned(log) => Warned(l)
        /\ r.status \in Terminal => r.status = run.status
    BY WarnedStays DEF GoesOn, Grown
  <1>5. StartPart' /\ \A d \in Clients : EndingPart(client[d], log)'
    <2>1. EndingPart(k, l) /\ Starts(c, k, r) /\ (r.status = run.status \/ r.started)
      BY DEF GoesOn, EndingPart
    <2>. QED BY <1>4, <2>1, EndingKeeps
  <1>6. WhosePart'
    <2> SUFFICES ASSUME r.status \in Terminal
                 PROVE  \/ \E d \in Clients : client'[d].goal # "none" /\ client'[d].pc \notin {"sign", "tell"}
                        \/ Warned(l) /\ r.status = "COMPLETED_WITH_WARNINGS"
      BY DEF WhosePart, Warned
    <2>1. CASE \E d \in Clients : client[d].goal # "none" /\ client[d].pc \notin {"sign", "tell"}
      <3>1. PICK d \in Clients : client[d].goal # "none" /\ client[d].pc \notin {"sign", "tell"}
        BY <2>1
      <3>2. d # c
        BY <3>1 DEF GoesOn
      <3>. QED BY <1>1, <3>1, <3>2
    <2>. QED BY <1>4, <2>1 DEF EndInv, WhosePart
  <1>7. FreshPart'
    BY <1>2, <1>4 DEF EndInv, FreshPart
  <1>8. EventPart'
    <2> SUFFICES ASSUME OneEnd', ~Warned(l)
                 PROVE  /\ \A d \in Clients : client'[d].pc = "tell" =>
                              l.finished # <<>> /\ Last(l.finished) = client'[d].goal
                        /\ r.status \in Terminal => l.finished # <<>> /\ Last(l.finished) = r.status
      BY DEF EventPart, Warned, Last
    <2>1. /\ \A d \in Clients : client[d].pc = "tell" =>
                log.finished # <<>> /\ Last(log.finished) = client[d].goal
          /\ run.status \in Terminal => log.finished # <<>> /\ Last(log.finished) = run.status
      BY <1>3, <1>4 DEF EndInv, EventPart
    <2>2. \A d \in Clients : client'[d].pc = "tell" => client[d].pc = "tell"
      BY <1>1 DEF GoesOn
    <2>. QED BY <1>2, <1>4, <2>1, <2>2
  <1>9. SuccessPart'
    <2> SUFFICES ASSUME OneEnd'
                 PROVE  /\ \A d \in Clients : client'[d].goal = "COMPLETED" /\ client'[d].pc \in {"sign", "tell"} =>
                              /\ Nobody' /\ Unflawed(l) /\ r.status \in {"LOADING"} \cup Terminal
                              /\ l.finished = IF client'[d].pc = "sign" THEN <<>> ELSE <<"COMPLETED">>
                        /\ r.status = "COMPLETED" =>
                              Nobody' /\ Unflawed(l) /\ l.finished = <<"COMPLETED">>
      BY DEF SuccessPart, Unflawed
    <2>1. ASSUME Nobody, Unflawed(log), run.status \in {"LOADING"} \cup Terminal
          PROVE  Nobody' /\ Unflawed(l) /\ r.status = run.status
      <3>1. ~k.inside /\ l.notes = log.notes /\ r.status = run.status
        BY <2>1 DEF GoesOn, Grown, Nobody
      <3>2. Nobody'
        BY <1>1, <2>1, <3>1 DEF Nobody
      <3>. QED BY <1>4, <2>1, <3>1, <3>2 DEF Unflawed
    <2>2. ASSUME NEW d \in Clients, client'[d].goal = "COMPLETED", client'[d].pc \in {"sign", "tell"}
          PROVE  /\ Nobody' /\ Unflawed(l) /\ r.status \in {"LOADING"} \cup Terminal
                 /\ l.finished = IF client'[d].pc = "sign" THEN <<>> ELSE <<"COMPLETED">>
      <3>1. client'[d] = client[d]
        BY <1>1, <2>2 DEF GoesOn
      <3>2. /\ Nobody /\ Unflawed(log) /\ run.status \in {"LOADING"} \cup Terminal
            /\ log.finished = IF client[d].pc = "sign" THEN <<>> ELSE <<"COMPLETED">>
        BY <1>3, <2>2, <3>1 DEF EndInv, SuccessPart
      <3>. QED BY <1>4, <2>1, <3>1, <3>2
    <2>3. ASSUME r.status = "COMPLETED"
          PROVE  Nobody' /\ Unflawed(l) /\ l.finished = <<"COMPLETED">>
      <3>1. run.status = "COMPLETED" /\ run.status \in Terminal
        BY <1>4, <2>3 DEF Terminal
      <3>2. Nobody /\ Unflawed(log) /\ log.finished = <<"COMPLETED">>
        BY <1>3, <3>1 DEF EndInv, SuccessPart
      <3>. QED BY <1>4, <2>1, <3>1, <3>2
    <2>. QED BY <2>2, <2>3
  <1>. QED BY <1>5, <1>6, <1>7, <1>8, <1>9 DEF EndInv

(* A step that comes to the end. *)
LEMMA ComesToEndKeeps ==
    ASSUME PipelineInv, EndInv, NEW c \in Clients, NEW k, NEW r, NEW l,
           Takes(c, k), run' = r, log' = l, ComesToEnd(c, k, r, l)
    PROVE  EndInv'
  <1>1. client'[c] = k /\ \A d \in Clients \ {c} : client'[d] = client[d]
    BY TakenBy
  <1>2. k.goal # "none" /\ r.status \notin Terminal /\ r.status # "COMPLETED"
    BY DEF ComesToEnd, Terminal
  <1>3. StartPart' /\ \A d \in Clients : EndingPart(client[d], log)'
    <2>1. EndingPart(k, l) /\ Starts(c, k, r) /\ r.status = run.status /\ log.notes \subseteq l.notes
      BY DEF ComesToEnd, EndingPart, StagePC
    <2>. QED BY <2>1, EndingKeeps
  <1>4. WhosePart' /\ FreshPart'
    BY <1>1, <1>2 DEF WhosePart, FreshPart
  <1>5. OneEnd' => \A d \in Clients \ {c} : client'[d].goal = "none"
    BY <1>1, <1>2 DEF OneEnd
  <1>6. EventPart'
    <2>1. OneEnd' => \A d \in Clients : client'[d].pc # "tell"
      BY <1>1, <1>3, <1>5 DEF ComesToEnd, EndingPart, Terminal
    <2>. QED BY <1>2, <2>1 DEF EventPart
  <1>7. SuccessPart'
    <2> SUFFICES ASSUME OneEnd', k.goal = "COMPLETED"
                 PROVE  /\ Nobody' /\ Unflawed(l) /\ r.status \in {"LOADING"} \cup Terminal
                        /\ l.finished = <<>>
      <3>1. \A d \in Clients : OneEnd' /\ client'[d].goal = "COMPLETED" => d = c /\ client'[d] = k
        BY <1>1, <1>5
      <3>2. k.pc = "sign"
        BY DEF ComesToEnd
      <3>. QED BY <1>2, <3>1, <3>2 DEF SuccessPart, Unflawed
    <2>1. \A d \in Clients : client[d].goal = "none"
      BY <1>1, <1>5 DEF ComesToEnd
    <2>2. log.errors = 0 /\ log.finished = <<>>
      BY <2>1 DEF EndInv, FreshPart
    <2>3. /\ l.errors = log.errors /\ l.notes = {} /\ l.finished = log.finished
          /\ r.status = "LOADING" /\ client[c].inside /\ ~k.inside
      BY DEF ComesToEnd
    <2>4. Nobody'
      <3>1. \A d \in Clients \ {c} : ~client[d].inside
        BY <2>3 DEF PipelineInv, PairPart
      <3>. QED BY <1>1, <2>3, <3>1 DEF Nobody
    <2>. QED BY <2>2, <2>3, <2>4 DEF Unflawed
  <1>. QED BY <1>3, <1>4, <1>6, <1>7 DEF EndInv

(* A client with a goal is the only one when there is one end. *)
LEMMA OnlyEnd ==
    ASSUME PipelineInv, NEW c \in Clients, NEW k, Takes(c, k), k.goal # "none", OneEnd'
    PROVE  \A d \in Clients : client'[d].goal # "none" => d = c
  <1>1. client'[c] = k
    BY TakenBy
  <1>. QED BY <1>1 DEF OneEnd

(* The event of the end is signed. *)
LEMMA SignsKeeps ==
    ASSUME PipelineInv, EndInv, NEW c \in Clients, NEW k, NEW r, NEW l,
           Takes(c, k), run' = r, log' = l, Signs(c, k, r, l)
    PROVE  EndInv'
  <1>1. client'[c] = k /\ \A d \in Clients \ {c} : client'[d] = client[d]
    BY TakenBy
  <1>2. /\ client[c].pc = "sign" /\ client[c].goal \in Terminal /\ client[c].goal # "none"
        /\ EndingPart(client[c], log) /\ log.finished \in Seq(Terminal)
    BY OwnFacts DEF Signs, EndInv, EndingPart, Terminal, Log
  <1>3. k.goal = client[c].goal /\ k.pc = "tell" /\ r = run /\ k.inside = client[c].inside
    BY DEF Signs
  <1>4. \A d \in Clients : client'[d].goal = client[d].goal /\ client'[d].inside = client[d].inside
    BY <1>1, <1>3
  <1>5. OneEnd' => OneEnd
    BY <1>4 DEF OneEnd
  <1>6. /\ l.errors = log.errors /\ l.notes = log.notes
        /\ l.finished = Append(log.finished, client[c].goal)
        /\ l.finished # <<>> /\ Last(l.finished) = client[c].goal
    BY <1>2 DEF Signs, Last
  <1>7. Warned(l) <=> Warned(log)
    BY <1>6 DEF Warned
  <1>8. StartPart' /\ \A d \in Clients : EndingPart(client[d], log)'
    <2>1. EndingPart(k, l) /\ Starts(c, k, r)
      BY <1>2, <1>3 DEF EndingPart, Starts, StagePC
    <2>. QED BY <1>3, <1>6, <2>1, EndingKeeps
  <1>9. \A d \in Clients : client'[d].pc \notin {"sign", "tell"} => client'[d] = client[d]
    BY <1>1, <1>3
  <1>10. WhosePart'
    <2> SUFFICES ASSUME run.status \in Terminal
                 PROVE  \/ \E d \in Clients : client'[d].goal # "none" /\ client'[d].pc \notin {"sign", "tell"}
                        \/ Warned(l) /\ run.status = "COMPLETED_WITH_WARNINGS"
      BY <1>3 DEF WhosePart, Warned
    <2>1. ASSUME NEW d \in Clients, client[d].goal # "none", client[d].pc \notin {"sign", "tell"}
          PROVE  client'[d] = client[d]
      BY <1>1, <1>2, <2>1
    <2>. QED BY <1>7, <2>1 DEF EndInv, WhosePart
  <1>11. FreshPart'
    BY <1>2, <1>4 DEF FreshPart
  <1>12. OneEnd' /\ run.status \in Terminal => Warned(log) /\ run.status = "COMPLETED_WITH_WARNINGS"
    BY <1>2, <1>5 DEF EndInv, WhosePart, OneEnd
  <1>13. EventPart'
    <2> SUFFICES ASSUME OneEnd', ~Warned(l), NEW d \in Clients, client'[d].pc = "tell"
                 PROVE  l.finished # <<>> /\ Last(l.finished) = client'[d].goal
      BY <1>3, <1>7, <1>12 DEF EventPart, Warned, Last
    <2>1. client'[d].goal # "none"
      BY <1>8 DEF EndingPart, Terminal
    <2>2. d = c
      BY <1>2, <1>3, <2>1, OnlyEnd
    <2>. QED BY <1>1, <1>3, <1>6, <2>2
  <1>14. SuccessPart'
    <2>1. OneEnd' => r.status # "COMPLETED"
      BY <1>3, <1>12 DEF Terminal
    <2> SUFFICES ASSUME OneEnd', NEW d \in Clients, client'[d].goal = "COMPLETED"
                 PROVE  /\ Nobody' /\ Unflawed(l) /\ r.status \in {"LOADING"} \cup Terminal
                        /\ l.finished = IF client'[d].pc = "sign" THEN <<>> ELSE <<"COMPLETED">>
      BY <2>1 DEF SuccessPart, Unflawed
    <2>2. d = c
      BY <1>2, <1>3, OnlyEnd
    <2>3. client[c].goal = "COMPLETED"
      BY <1>4, <2>2
    <2>4. /\ Nobody /\ Unflawed(log) /\ run.status \in {"LOADING"} \cup Terminal
          /\ log.finished = <<>>
      BY <1>2, <1>5, <2>3 DEF EndInv, SuccessPart
    <2>5. l.finished = <<"COMPLETED">>
      BY <1>6, <2>3, <2>4
    <2>6. client'[d].pc = "tell"
      BY <1>1, <1>3, <2>2
    <2>7. Nobody'
      BY <1>4, <2>4 DEF Nobody
    <2>. QED BY <1>3, <1>6, <2>4, <2>5, <2>6, <2>7 DEF Unflawed
  <1>. QED BY <1>8, <1>10, <1>11, <1>13, <1>14 DEF EndInv

(* The status is set. *)
LEMMA SetsStatusKeeps ==
    ASSUME PipelineInv, EndInv, NEW c \in Clients, NEW k, NEW r, NEW l,
           Takes(c, k), run' = r, log' = l, SetsStatus(c, k, r, l)
    PROVE  EndInv'
  <1>1. client'[c] = k /\ \A d \in Clients \ {c} : client'[d] = client[d]
    BY TakenBy
  <1>2. /\ client[c].goal \in Terminal /\ client[c].goal # "none" /\ k.goal # "none"
        /\ k.pc \notin {"sign", "tell"} /\ r.status \in Terminal
    BY DEF SetsStatus, EndInv, EndingPart, Terminal
  <1>3. OneEnd' => OneEnd
    BY <1>1, <1>2 DEF OneEnd
  <1>4. OneEnd' => \A d \in Clients : client'[d].goal # "none" => d = c
    BY <1>2, OnlyEnd
  <1>5. log.notes \subseteq l.notes
    BY DEF SetsStatus
  <1>6. StartPart' /\ \A d \in Clients : EndingPart(client[d], log)'
    <2>1. EndingPart(k, l) /\ Starts(c, k, r)
      BY DEF SetsStatus, EndingPart, Starts, StagePC
    <2>. QED BY <1>2, <1>5, <2>1, EndingKeeps
  <1>7. WhosePart' /\ FreshPart'
    BY <1>1, <1>2 DEF WhosePart, FreshPart
  <1>8. OneEnd' => \A d \in Clients : client'[d].pc \notin {"sign", "tell"}
    <2>1. \A d \in Clients : client'[d].pc \in {"sign", "tell"} => client'[d].goal # "none"
      BY <1>6 DEF EndingPart, Terminal
    <2>. QED BY <1>1, <1>2, <1>4, <2>1
  <1>9. ~Warned(l) \/ r.status = "COMPLETED" =>
           /\ client[c].pc = "tell" /\ l = log /\ r.status = client[c].goal
    BY DEF SetsStatus
  <1>10. EventPart'
    <2> SUFFICES ASSUME OneEnd', ~Warned(l)
                 PROVE  l.finished # <<>> /\ Last(l.finished) = r.status
      BY <1>8 DEF EventPart, Warned, Last
    <2>. QED BY <1>3, <1>9 DEF EndInv, EventPart
  <1>11. SuccessPart'
    <2> SUFFICES ASSUME OneEnd', r.status = "COMPLETED"
                 PROVE  Nobody' /\ Unflawed(l) /\ l.finished = <<"COMPLETED">>
      BY <1>8 DEF SuccessPart, Unflawed
    <2>1. client[c].pc = "tell" /\ l = log /\ client[c].goal = "COMPLETED"
      BY <1>9
    <2>2. Nobody /\ Unflawed(log) /\ log.finished = <<"COMPLETED">>
      BY <1>3, <2>1 DEF EndInv, SuccessPart
    <2>3. Nobody'
      BY <1>1, <2>2 DEF SetsStatus, Nobody
    <2>. QED BY <2>1, <2>2, <2>3
  <1>. QED BY <1>6, <1>7, <1>10, <1>11 DEF EndInv

(* The cleanup. *)
LEMMA CleansKeeps ==
    ASSUME PipelineInv, EndInv, NEW c \in Clients, NEW k, NEW r, NEW l,
           Takes(c, k), run' = r, log' = l, Cleans(c, k, r, l)
    PROVE  EndInv'
  <1>1. client'[c] = k /\ \A d \in Clients \ {c} : client'[d] = client[d]
    BY TakenBy
  <1>2. /\ client[c].goal \in Terminal /\ client[c].goal # "none" /\ k.goal = client[c].goal
        /\ k.pc \notin {"sign", "tell"} /\ EndingPart(client[c], log)
        /\ run.status \in Terminal
    BY OwnFacts DEF Cleans, EndInv, EndingPart, EndPart, Terminal
  <1>3. OneEnd' => OneEnd
    BY <1>1, <1>2 DEF OneEnd
  <1>4. OneEnd' => \A d \in Clients : client'[d].goal # "none" => d = c
    BY <1>2, OnlyEnd
  <1>5. /\ log.notes \subseteq l.notes
        /\ Warned(log) => Warned(l)
        /\ l.errors = log.errors /\ l.finished = log.finished
        /\ \/ r.status = run.status
           \/ Warned(l) /\ r.status = "CANCELLED"
    BY WarnedStays DEF Cleans
  <1>6. StartPart' /\ \A d \in Clients : EndingPart(client[d], log)'
    <2>1. EndingPart(k, l)
      BY <1>2, <1>5 DEF Cleans, EndingPart, StagePC
    <2>2. Starts(c, k, r)
      BY DEF Cleans, Starts, StagePC
    <2>3. r.status = run.status \/ r.status \in Terminal
      BY <1>5 DEF Terminal
    <2>4. log.notes \subseteq l.notes
      BY <1>5
    <2>. QED BY <2>1, <2>2, <2>3, <2>4, EndingKeeps
  <1>7. WhosePart' /\ FreshPart'
    BY <1>1, <1>2 DEF WhosePart, FreshPart
  <1>8. OneEnd' => \A d \in Clients : client'[d].pc \notin {"sign", "tell"}
    <2>1. \A d \in Clients : client'[d].pc \in {"sign", "tell"} => client'[d].goal # "none"
      BY <1>6 DEF EndingPart, Terminal
    <2>. QED BY <1>1, <1>2, <1>4, <2>1
  <1>9. EventPart'
    <2> SUFFICES ASSUME OneEnd', ~Warned(l)
                 PROVE  l.finished # <<>> /\ Last(l.finished) = r.status
      BY <1>8 DEF EventPart, Warned, Last
    <2>1. ~Warned(log) /\ r.status = run.status /\ l.finished = log.finished
      BY <1>5
    <2>. QED BY <1>2, <1>3, <2>1 DEF EndInv, EventPart
  <1>10. SuccessPart'
    <2> SUFFICES ASSUME OneEnd', r.status = "COMPLETED"
                 PROVE  Nobody' /\ Unflawed(l) /\ l.finished = <<"COMPLETED">>
      BY <1>8 DEF SuccessPart, Unflawed
    <2>1. Nobody /\ Unflawed(log) /\ log.finished = <<"COMPLETED">>
      BY <1>3, <1>5 DEF EndInv, SuccessPart
    <2>2. Nobody'
      BY <1>1, <2>1 DEF Cleans, Nobody
    <2>3. Unflawed(l)
      BY <1>5, <2>1 DEF Cleans, Unflawed
    <2>. QED BY <1>5, <2>1, <2>2, <2>3
  <1>. QED BY <1>6, <1>7, <1>9, <1>10 DEF EndInv

(* The task that closes the lease leaves its warnings. *)
LEMMA CloserEnd ==
    ASSUME PipelineInv, EndInv, CloseStep
    PROVE  EndInv'
  <1>1. client' = client
    BY DEF CloseStep, Close, CloseRead, CloseMove, CloseFails, CloseCancelled, Closed
  <1>2. CASE run' = run /\ log' = log
    BY <1>1, <1>2 DEF EndInv, EndingPart, StartPart, WhosePart, FreshPart, EventPart, SuccessPart,
                      OneEnd, Nobody, Warned, Unflawed, Last
  <1>3. CASE Closed
    <2> DEFINE kept == closer.cut /\ run.outcome = "COMMITTED"
               x == IF kept \/ (closer.failed /\ run.status = "COMPLETED")
                    THEN "COMPLETED_WITH_WARNINGS" ELSE run.status
               q == [run EXCEPT !.closed = TRUE, !.status = x]
               n == (IF closer.failed THEN {"CLEANUP_FAILED"} ELSE {})
                          \cup (IF kept THEN {"CANCELLED_AFTER_COMMIT"} ELSE {})
               l == [log EXCEPT !.notes = @ \cup n]
    <2>1. run' = q /\ log' = l
      BY <1>3 DEF Closed, Noted
    <2>2. run \in Session /\ log \in Log
      BY DEF PipelineInv, Base, WholePart
    <2>3. /\ x = run.status \/ (x = "COMPLETED_WITH_WARNINGS" /\ n # {})
          /\ n \subseteq {"CLEANUP_FAILED", "CANCELLED_AFTER_COMMIT"}
      OBVIOUS
    <2>. HIDE DEF x, n
    <2>4. q.status = x /\ q.started = run.started
      BY <2>2 DEF Session
    <2>5. l.notes = log.notes \cup n /\ l.errors = log.errors /\ l.finished = log.finished
      BY <2>2 DEF Log
    <2>. HIDE DEF q, l
    <2>6. /\ Warned(log) => Warned(l)
          /\ Unflawed(log) => Unflawed(l)
          /\ x = run.status \/ (x = "COMPLETED_WITH_WARNINGS" /\ Warned(l))
          /\ x = run.status \/ x \in Terminal
      BY <2>3, <2>5 DEF Warned, Unflawed, Excuses, Terminal
    <2>7. \A c \in Clients : EndingPart(client[c], log)'
      BY <1>1, <2>1, <2>6 DEF EndInv, EndingPart, Warned
    <2>8. StartPart'
      BY <1>1, <2>1, <2>4, <2>6 DEF EndInv, StartPart
    <2>9. WhosePart'
      BY <1>1, <2>1, <2>4, <2>6 DEF EndInv, WhosePart, Warned
    <2>10. FreshPart'
      BY <1>1, <2>1, <2>5 DEF EndInv, FreshPart
    <2>11. OneEnd' <=> OneEnd
      BY <1>1 DEF OneEnd
    <2>12. EventPart'
      BY <1>1, <2>1, <2>4, <2>5, <2>6, <2>11 DEF EndInv, EventPart, Warned, Last
    <2>13. Nobody' <=> Nobody
      BY <1>1 DEF Nobody
    <2>14. SuccessPart'
      <3> SUFFICES ASSUME OneEnd
                   PROVE  /\ \A c \in Clients : client[c].goal = "COMPLETED" /\ client[c].pc \in {"sign", "tell"} =>
                                /\ Nobody /\ Unflawed(l) /\ q.status \in {"LOADING"} \cup Terminal
                                /\ l.finished = IF client[c].pc = "sign" THEN <<>> ELSE <<"COMPLETED">>
                          /\ q.status = "COMPLETED" =>
                                Nobody /\ Unflawed(l) /\ l.finished = <<"COMPLETED">>
        BY <1>1, <2>1, <2>11, <2>13 DEF SuccessPart, Unflawed
      <3>1. /\ \A c \in Clients : client[c].goal = "COMPLETED" /\ client[c].pc \in {"sign", "tell"} =>
                  /\ Nobody /\ Unflawed(log) /\ run.status \in {"LOADING"} \cup Terminal
                  /\ log.finished = IF client[c].pc = "sign" THEN <<>> ELSE <<"COMPLETED">>
            /\ run.status = "COMPLETED" =>
                  Nobody /\ Unflawed(log) /\ log.finished = <<"COMPLETED">>
        BY DEF EndInv, SuccessPart
      <3>2. q.status = "COMPLETED" => run.status = "COMPLETED"
        BY <2>4, <2>6
      <3>. QED BY <2>4, <2>5, <2>6, <3>1, <3>2
    <2>. QED BY <2>7, <2>8, <2>9, <2>10, <2>12, <2>14 DEF EndInv
  <1>. QED BY <1>2, <1>3 DEF CloseStep, Close, CloseRead, CloseMove, CloseFails, CloseCancelled

-----------------------------
(* The actions are such steps. *)

(* The run a step of c leaves has the status it had, and may be started. *)
Begun(c, r) ==
    /\ r \in Session /\ r.status = run.status
    /\ run.started => r.started
    /\ r.started # run.started => client[c].inside

Midway(c) == client[c].pc \in StagePC \cup {"idle"}

(* The call is over. *)
LEMMA LeaveEnd ==
    ASSUME PipelineInv, EndInv, NEW c \in Clients, NEW r, NEW l,
           Midway(c), Begun(c, r), Grown(c, l), Leave(c, r), log' = l
    PROVE  EndInv'
  <1> DEFINE b == IF client[c].inside THEN FALSE ELSE r.busy
             e == IF client[c].call = "execute" THEN FALSE ELSE r.executing
             o == client[c]
             q == [r EXCEPT !.busy = b, !.executing = e]
             k == [o EXCEPT !.pc = "done", !.calls = <<>>, !.todo = <<>>, !.inside = FALSE]
  <1>1. run' = q /\ Takes(c, k) /\ o = client[c] /\ o \in Client /\ o.goal = "none"
    BY OwnFacts DEF Leave, Freed, Become, Takes, Midway, EndInv, EndingPart
  <1>2. q.status = r.status /\ q.started = r.started
    BY DEF Begun, Session
  <1>. HIDE DEF o, q
  <1>3. k.pc = "done" /\ k.goal = "none" /\ ~k.inside
    BY <1>1 DEF Client
  <1>. HIDE DEF k
  <1>4. GoesOn(c, k, q, l)
    BY <1>1, <1>2, <1>3 DEF GoesOn, Starts, Begun, StagePC
  <1>. QED BY <1>1, <1>4, GoesOnKeeps

(* terminal: nothing more if the run is over, else the end. *)
LEMMA TerminalEnd ==
    ASSUME PipelineInv, EndInv, NEW c \in Clients, NEW me \in Client, NEW r, NEW l \in Log,
           NEW goal \in Terminal, NEW n \in Nat,
           Midway(c), Begun(c, r),
           log.notes \subseteq l.notes, l.finished = log.finished, l.errors = log.errors,
           client[c].inside \/ run.status \notin Terminal \/ l = log,
           goal = "COMPLETED" =>
              /\ l.notes = {} /\ n = 0 /\ run.status \in {"LOADING"} \cup Terminal
              /\ client[c].inside /\ ~me.inside,
           EnterTerminal(c, r, me, goal, l, n)
    PROVE  EndInv'
  <1>1. CASE run.status \in Terminal
    <2>1. Leave(c, r) /\ log' = l
      BY <1>1 DEF EnterTerminal, Begun
    <2>2. Grown(c, l)
      BY <1>1 DEF Grown
    <2>. QED BY <2>1, <2>2, LeaveEnd
  <1>2. CASE run.status \notin Terminal
    <2> DEFINE k == [me EXCEPT !.pc = "sign", !.goal = goal]
               m == [l EXCEPT !.errors = @ + n]
    <2>1. run' = r /\ Takes(c, k) /\ log' = m
      BY <1>2 DEF EnterTerminal, Become, Begun, Takes
    <2>2. k.pc = "sign" /\ k.goal = goal /\ k.inside = me.inside
      BY DEF Client
    <2>3. m.notes = l.notes /\ m.finished = l.finished /\ m.errors = l.errors + n /\ l.errors \in Nat
      BY DEF Log
    <2>4. client[c].goal = "none"
      BY DEF Midway, EndInv, EndingPart
    <2>. HIDE DEF k, m
    <2>5. Starts(c, k, r)
      BY <2>2 DEF Starts, Begun, StagePC
    <2>6. ComesToEnd(c, k, r, m)
      BY <1>2, <2>2, <2>3, <2>4, <2>5 DEF ComesToEnd, Begun
    <2>. QED BY <2>1, <2>6, ComesToEndKeeps
  <1>. QED BY <1>1, <1>2

(* What a note leaves. *)
LEMMA NotedFields ==
    ASSUME log \in Log, NEW n \in SUBSET Note
    PROVE  /\ Noted(n) \in Log /\ Noted(n).notes = log.notes \cup n
           /\ Noted(n).errors = log.errors /\ Noted(n).finished = log.finished
  BY NotedType DEF Noted, Log

(* A failure is no success. *)
LEMMA FailEnd ==
    ASSUME PipelineInv, EndInv, NEW c \in Clients, NEW me \in Client, NEW r, NEW kind,
           Midway(c), Begun(c, r), client[c].inside \/ run.status \notin Terminal,
           Fail(c, r, me, kind)
    PROVE  EndInv'
  <1>1. log \in Log
    BY OwnFacts
  <1>2. CASE Shielded(r)
    <2> DEFINE n == {IF kind = "cancel" THEN "CANCELLED_AFTER_COMMIT" ELSE "STAGE_FAILED_AFTER_COMMIT"}
    <2>1. EnterTerminal(c, r, me, "COMPLETED_WITH_WARNINGS", Noted(n), 0)
      BY <1>2 DEF Fail
    <2>2. n \in SUBSET Note /\ "COMPLETED_WITH_WARNINGS" \in Terminal
      BY DEF Note, Terminal
    <2>. HIDE DEF n
    <2>. QED BY <1>1, <2>1, <2>2, NotedFields, TerminalEnd
  <1>3. CASE ~Shielded(r)
    <2> DEFINE q == [r EXCEPT !.outcome = OutcomeAfter(kind, r.outcome)]
               goal == StatusAfter(kind, r.outcome)
    <2>1. EnterTerminal(c, q, me, goal, log, 1)
      BY <1>3 DEF Fail
    <2>2. OutcomeAfter(kind, r.outcome) \in Outcome
      BY RunTypes DEF OutcomeAfter, Outcome, Begun
    <2>3. q \in Session /\ q.status = r.status /\ q.started = r.started
      BY <2>2 DEF Session, Begun
    <2>4. goal \in Terminal /\ goal # "COMPLETED"
      BY StatusAfterType DEF StatusAfter
    <2>. HIDE DEF q, goal
    <2>5. Begun(c, q)
      BY <2>3 DEF Begun
    <2>. QED BY <1>1, <2>1, <2>4, <2>5, TerminalEnd
  <1>. QED BY <1>2, <1>3

(* The start of a stage. *)
LEMMA StageEnd ==
    ASSUME PipelineInv, EndInv, NEW c \in Clients, NEW me \in Client, NEW r,
           Midway(c), Begun(c, r), r.started, client[c].inside \/ run.status \notin Terminal,
           me.goal = "none", EnterStage(c, r, me)
    PROVE  EndInv'
  <1> DEFINE h == Head(me.todo)
  <1>1. \/ Leave(c, r) /\ log' = log
        \/ Fail(c, r, me, "error")
        \/ /\ MayEnter(r.status, h) /\ run' = [r EXCEPT !.status = h]
           /\ Become(c, [me EXCEPT !.pc = "announce"]) /\ log' = log
    BY DEF EnterStage
  <1>. HIDE DEF h
  <1>2. CASE Leave(c, r) /\ log' = log
    <2>1. Grown(c, log)
      BY DEF Grown
    <2>. QED BY <1>2, <2>1, LeaveEnd
  <1>3. CASE Fail(c, r, me, "error")
    BY <1>3, FailEnd
  <1>4. CASE /\ MayEnter(r.status, h) /\ run' = [r EXCEPT !.status = h]
             /\ Become(c, [me EXCEPT !.pc = "announce"]) /\ log' = log
    <2> DEFINE q == [r EXCEPT !.status = h]
               k == [me EXCEPT !.pc = "announce"]
    <2>1. run' = q /\ Takes(c, k)
      BY <1>4 DEF Become, Takes
    <2>2. q.status = h /\ q.started = r.started
      BY DEF Session, Begun
    <2>3. k.pc = "announce" /\ k.goal = me.goal
      BY DEF Client
    <2>4. r.status \notin Terminal \cup {"LOADING"} /\ h \notin Terminal
      BY <1>4, EdgeFacts
    <2>5. client[c].goal = "none"
      BY DEF Midway, EndInv, EndingPart
    <2>. HIDE DEF q, k
    <2>6. Starts(c, k, q)
      BY <2>2, <2>3 DEF Starts, Begun
    <2>7. GoesOn(c, k, q, log)
      BY <2>2, <2>3, <2>4, <2>5, <2>6 DEF GoesOn, Begun, Grown
    <2>. QED BY <1>4, <2>1, <2>7, GoesOnKeeps
  <1>. QED BY <1>1, <1>2, <1>3, <1>4

(* A step inside a stage. *)
LEMMA InnerEnd ==
    ASSUME PipelineInv, EndInv, NEW c \in Clients, NEW k, Takes(c, k),
           client[c].pc \in StagePC \ {"first"}, k.pc \in StagePC \ {"first"},
           k.goal = client[c].goal, k.inside = client[c].inside,
           run'.status = run.status, run'.started = run.started, Grown(c, log')
    PROVE  EndInv'
  <1>1. client[c].goal = "none" /\ run.started
    BY DEF EndInv, EndingPart, StartPart
  <1>2. GoesOn(c, k, run', log')
    BY <1>1 DEF GoesOn, Starts, StagePC
  <1>. QED BY <1>2, GoesOnKeeps

(* What a step that writes no note leaves. *)
LEMMA Unwritten ==
    ASSUME NEW c
    PROVE  Grown(c, log) /\ (run \in Session => Begun(c, run))
  BY DEF Grown, Begun

(* A call. *)
LEMMA CallEnd ==
    ASSUME PipelineInv, EndInv, NEW c \in Clients, Call(c)
    PROVE  EndInv'
  <1> DEFINE o == client[c]
             m == Head(o.calls)
             cs == Tail(o.calls)
             ts == StagesOf(m, run.status, run.done)
             x == run.executing \/ m = "execute"
             dr == IF m = "execute" THEN Dry[c] ELSE run.dry
             q == [run EXCEPT !.busy = TRUE, !.executing = x, !.dry = dr]
             k == [o EXCEPT !.call = m, !.calls = cs, !.todo = ts, !.inside = TRUE]
  <1>1. /\ o \in Client /\ o.pc = "idle" /\ o.calls # <<>> /\ run \in Session /\ o = client[c]
        /\ Midway(c) /\ o.goal = "none" /\ ~o.inside
    BY OwnFacts DEF Call, Midway, EndInv, EndingPart, StagePart
  <1>2. m \in Calls /\ cs \in Seq(Calls)
    BY <1>1 DEF Client
  <1>3. ts \in Seq(Stage) /\ Dry[c] \in BOOLEAN
    BY <1>2, StagesType, SetupFacts DEF PipelineInv, Base
  <1>4. x \in BOOLEAN /\ dr \in BOOLEAN
    BY <1>1, <1>3, RunTypes
  <1>5. \/ /\ run' = run /\ log' = log
           /\ \/ Takes(c, [o EXCEPT !.pc = "done", !.calls = <<>>])
              \/ Takes(c, [o EXCEPT !.calls = cs])
        \/ /\ run.status \notin Terminal
           /\ \/ run.started /\ EnterStage(c, q, k)
              \/ /\ ~run.started /\ run' = q /\ Takes(c, [k EXCEPT !.pc = "first"])
                 /\ log' = log
    BY DEF Call, Become, Takes
  <1>. HIDE DEF o, m, cs, ts, x, dr
  <1>6. q \in Session /\ q.status = run.status /\ q.started = run.started
    BY <1>1, <1>4 DEF Session
  <1>7. k \in Client /\ k.goal = o.goal /\ k.inside
    BY <1>1, <1>2, <1>3 DEF Client
  <1>8. ASSUME NEW d, Takes(c, d), d.pc \in {"idle", "done"}, d.goal = "none", ~d.inside,
               run' = run, log' = log
        PROVE  EndInv'
    <2>1. GoesOn(c, d, run, log)
      BY <1>1, <1>8 DEF GoesOn, Starts, Grown, StagePC
    <2>. QED BY <1>8, <2>1, GoesOnKeeps
  <1>9. CASE Takes(c, [o EXCEPT !.pc = "done", !.calls = <<>>]) /\ run' = run /\ log' = log
    <2> DEFINE d == [o EXCEPT !.pc = "done", !.calls = <<>>]
    <2>1. d.pc = "done" /\ d.goal = "none" /\ ~d.inside
      BY <1>1 DEF Client
    <2>. HIDE DEF d
    <2>. QED BY <1>8, <1>9, <2>1 DEF d
  <1>10. CASE Takes(c, [o EXCEPT !.calls = cs]) /\ run' = run /\ log' = log
    <2> DEFINE d == [o EXCEPT !.calls = cs]
    <2>1. d.pc = "idle" /\ d.goal = "none" /\ ~d.inside
      BY <1>1 DEF Client
    <2>. HIDE DEF d
    <2>. QED BY <1>8, <1>10, <2>1 DEF d
  <1>11. CASE run.status \notin Terminal /\ run.started /\ EnterStage(c, q, k)
    <2>. HIDE DEF q, k
    <2>1. Begun(c, q)
      BY <1>6 DEF Begun
    <2>. QED BY <1>1, <1>6, <1>7, <1>11, <2>1, StageEnd
  <1>12. CASE /\ run.status \notin Terminal /\ ~run.started /\ run' = q
              /\ Takes(c, [k EXCEPT !.pc = "first"]) /\ log' = log
    <2> DEFINE d == [k EXCEPT !.pc = "first"]
    <2>1. d.pc = "first" /\ d.goal = "none"
      BY <1>1, <1>7 DEF Client
    <2>. HIDE DEF d, k, q
    <2>2. run.status = "CREATED"
      BY <1>12 DEF EndInv, StartPart
    <2>3. Starts(c, d, q) /\ Grown(c, log)
      BY <1>6, <1>12, <2>1 DEF Starts, Grown
    <2>4. GoesOn(c, d, q, log)
      BY <1>1, <1>6, <1>12, <2>1, <2>2, <2>3 DEF GoesOn
    <2>. QED BY <1>12, <2>4, GoesOnKeeps DEF d
  <1>. QED BY <1>5, <1>9, <1>10, <1>11, <1>12

(* What ends between two calls, or starts the run. *)
LEMMA BetweenEnd ==
    ASSUME PipelineInv, EndInv, NEW c \in Clients, Dispute(c) \/ Stop(c) \/ First(c)
    PROVE  EndInv'
  <1> DEFINE o == client[c]
  <1>1. /\ o \in Client /\ run \in Session /\ log \in Log /\ Midway(c) /\ o = client[c]
        /\ o.goal = "none" /\ StagePart(o, run)
        /\ Grown(c, log) /\ Begun(c, run)
    BY OwnFacts, Unwritten DEF Dispute, Stop, First, Midway, EndInv, EndingPart, StagePC
  <1>. HIDE DEF o
  <1>2. CASE Dispute(c)
    <2> DEFINE m == Head(o.calls)
               cs == Tail(o.calls)
               x == run.executing \/ m = "execute"
               dr == IF m = "execute" THEN Dry[c] ELSE run.dry
               q == [run EXCEPT !.executing = x, !.dry = dr]
               k == [o EXCEPT !.call = m, !.calls = cs]
    <2>1. /\ o.calls # <<>> /\ run.status \notin Terminal
          /\ EnterTerminal(c, q, k, "NEEDS_REVIEW", log, 1)
      BY <1>1, <1>2 DEF Dispute
    <2>2. m \in Calls /\ cs \in Seq(Calls)
      BY <1>1, <2>1 DEF Client
    <2>3. Dry[c] \in BOOLEAN
      BY SetupFacts DEF PipelineInv, Base
    <2>4. x \in BOOLEAN /\ dr \in BOOLEAN
      BY <1>1, <2>3, RunTypes
    <2>. HIDE DEF m, cs, x, dr
    <2>5. k \in Client
      BY <1>1, <2>2 DEF Client
    <2>6. q \in Session /\ q.status = run.status /\ q.started = run.started
      BY <1>1, <2>4 DEF Session
    <2>. HIDE DEF k, q
    <2>7. "NEEDS_REVIEW" \in Terminal
      BY DEF Terminal
    <2>8. Begun(c, q)
      BY <1>1, <2>6 DEF Begun
    <2>. QED BY <1>1, <2>1, <2>5, <2>7, <2>8, TerminalEnd
  <1>3. CASE Stop(c)
    <2> DEFINE k == [o EXCEPT !.pc = "done", !.calls = <<>>]
    <2>1. Takes(c, k) /\ run' = run /\ log' = log /\ o.pc = "idle"
      BY <1>1, <1>3 DEF Stop, Become, Takes
    <2>2. k.pc = "done" /\ k.goal = o.goal /\ k.inside = o.inside
      BY <1>1 DEF Client
    <2>. HIDE DEF k
    <2>3. ~o.inside
      BY <1>1, <2>1 DEF StagePart
    <2>4. GoesOn(c, k, run, log)
      BY <1>1, <2>2, <2>3 DEF GoesOn, Starts, StagePC
    <2>. QED BY <2>1, <2>4, GoesOnKeeps
  <1>4. CASE First(c)
    <2> DEFINE q == [run EXCEPT !.started = TRUE]
    <2>1. EnterStage(c, q, client[c]) /\ o.pc = "first" /\ o.inside
      BY <1>1, <1>4 DEF First, StagePart, StagePC
    <2>2. q \in Session /\ q.status = run.status /\ q.started
      BY <1>1 DEF Session
    <2>. HIDE DEF q
    <2>3. Begun(c, q)
      BY <1>1, <2>1, <2>2 DEF Begun
    <2>. QED BY <1>1, <2>1, <2>2, <2>3, StageEnd
  <1>. QED BY <1>2, <1>3, <1>4

(* The operation of a stage, and what it keeps. *)
LEMMA OperationEnd ==
    ASSUME PipelineInv, EndInv, NEW c \in Clients,
           \/ Announced(c) \/ Work(c) \/ Begin(c) \/ Fill(c) \/ Seal(c) \/ Claim(c)
    PROVE  EndInv'
  <1> DEFINE o == client[c]
  <1>1. /\ o \in Client /\ run \in Session /\ o = client[c] /\ Grown(c, log)
        /\ o.pc \in StagePC \ {"first"}
    BY OwnFacts, Unwritten DEF Announced, Work, Begin, Fill, Seal, Claim, StagePC
  <1>2. \E p \in StagePC \ {"first"} : Takes(c, [o EXCEPT !.pc = p])
    BY DEF Announced, Work, Begin, Fill, Seal, Claim, Become, Takes, StagePC
  <1>3. log' = log /\ run'.status = run.status /\ run'.started = run.started
    BY <1>1 DEF Announced, Work, Begin, Fill, Seal, Claim, Session
  <1>4. PICK p \in StagePC \ {"first"} : Takes(c, [o EXCEPT !.pc = p])
    BY <1>2
  <1> DEFINE k == [o EXCEPT !.pc = p]
  <1>. HIDE DEF o
  <1>5. k.pc = p /\ k.goal = o.goal /\ k.inside = o.inside
    BY <1>1 DEF Client
  <1>6. Takes(c, k) /\ Grown(c, log')
    BY <1>1, <1>3, <1>4
  <1>. HIDE DEF k
  <1>. QED BY <1>1, <1>3, <1>5, <1>6, InnerEnd

(* The loader raises, *)
LEMMA RaisedEnd ==
    ASSUME PipelineInv, EndInv, NEW c \in Clients, NEW kind,
           client[c].pc \in {"load", "writing"}, Raised(c, kind), UNCHANGED <<run, log>>
    PROVE  EndInv'
  <1> DEFINE o == client[c]
             k == [o EXCEPT !.pc = "raised", !.kind = kind]
  <1>1. /\ o \in Client /\ o = client[c] /\ Takes(c, k) /\ Grown(c, log')
        /\ o.pc \in StagePC \ {"first"} /\ "raised" \in StagePC \ {"first"}
    BY OwnFacts, Unwritten DEF Raised, Become, Takes, StagePC
  <1>. HIDE DEF o
  <1>2. k.pc = "raised" /\ k.goal = o.goal /\ k.inside = o.inside
    BY <1>1 DEF Client
  <1>. HIDE DEF k
  <1>. QED BY <1>1, <1>2, InnerEnd

(* or answers. *)
LEMMA ReceivedEnd ==
    ASSUME PipelineInv, EndInv, NEW c \in Clients, NEW rejected \in BOOLEAN,
           client[c].pc \in {"load", "writing"}, Received(c, rejected)
    PROVE  EndInv'
  <1> DEFINE o == client[c]
             k == [o EXCEPT !.pc = "complete"]
             n == IF rejected THEN {"REJECTED_RECORDS"} ELSE {}
  <1>1. /\ o \in Client /\ run \in Session /\ log \in Log /\ o = client[c] /\ Takes(c, k)
        /\ o.pc \in StagePC \ {"first"} /\ "complete" \in StagePC \ {"first"}
        /\ StagePart(o, run)
    BY OwnFacts DEF Received, Become, Takes, StagePC
  <1>2. run'.status = run.status /\ run'.started = run.started
    BY <1>1 DEF Received, Session
  <1>3. log' = log \/ log' = Noted({"REJECTED_RECORDS"})
    BY DEF Received
  <1>4. o.inside
    BY <1>1 DEF StagePart
  <1>5. {"REJECTED_RECORDS"} \in SUBSET Note
    BY DEF Note
  <1>6. Grown(c, log')
    BY <1>1, <1>3, <1>4, <1>5, NotedFields DEF Grown
  <1>. HIDE DEF o
  <1>7. k.pc = "complete" /\ k.goal = o.goal /\ k.inside = o.inside
    BY <1>1 DEF Client
  <1>. HIDE DEF k
  <1>. QED BY <1>1, <1>2, <1>6, <1>7, InnerEnd

(* What stops or fails in a stage. *)
LEMMA FailsEnd ==
    ASSUME PipelineInv, EndInv, NEW c \in Clients, NEW kind,
           client[c].pc \in StagePC, Fail(c, run, client[c], kind)
    PROVE  EndInv'
  <1>1. /\ client[c] \in Client /\ run \in Session /\ Midway(c) /\ Begun(c, run) /\ client[c].inside
    BY OwnFacts, Unwritten DEF StagePart, Midway
  <1>. QED BY <1>1, FailEnd

(* A stop in a stage is no success. *)
LEMMA StopInsideEnd ==
    ASSUME PipelineInv, EndInv, NEW c \in Clients, StopInside(c)
    PROVE  EndInv'
  <1>1. /\ client[c] \in Client /\ run \in Session /\ log \in Log /\ Midway(c)
    BY OwnFacts DEF StopInside, Midway, StagePC
  <1>2. PICK r : /\ r = run \/ r = [run EXCEPT !.outcome = "DRY_RUN"]
                 /\ EnterTerminal(c, r, client[c], "NEEDS_REVIEW", log, 1)
    BY DEF StopInside
  <1>3. Begun(c, r)
    <2>1. "DRY_RUN" \in Outcome
      BY DEF Outcome
    <2>2. r \in Session /\ r.status = run.status /\ r.started = run.started
      BY <1>1, <1>2, <2>1 DEF Session
    <2>. QED BY <2>2 DEF Begun
  <1>4. "NEEDS_REVIEW" \in Terminal
    BY DEF Terminal
  <1>. QED BY <1>1, <1>2, <1>3, <1>4, TerminalEnd

(* The outcomes of the loader. *)
LEMMA LoaderEnd ==
    ASSUME PipelineInv, EndInv, NEW c \in Clients, LoadStep(c)
    PROVE  EndInv'
  <1>1. run \in Session /\ log \in Log /\ client[c] \in Client
    BY OwnFacts
  <1>2. ASSUME client[c].pc \in {"load", "writing", "raised"}, NEW out \in Outcome
        PROVE  /\ Begun(c, [run EXCEPT !.outcome = out]) /\ Midway(c) /\ client[c].inside
               /\ client[c].pc \in StagePC
    <2> DEFINE q == [run EXCEPT !.outcome = out]
    <2>1. q \in Session /\ q.status = run.status /\ q.started = run.started
      BY <1>1 DEF Session
    <2>2. client[c].pc \in StagePC /\ StagePart(client[c], run)
      BY <1>2, OwnFacts DEF StagePC
    <2>. HIDE DEF q
    <2>3. Begun(c, q)
      BY <2>1 DEF Begun
    <2>. QED BY <2>2, <2>3 DEF StagePart, Midway, q
  <1>3. CASE Claim(c)
    BY <1>3, OperationEnd
  <1>4. CASE Replay(c)
    <2>1. client[c].pc \in {"load", "writing"} /\ Received(c, FALSE)
      BY <1>4 DEF Replay
    <2>. QED BY <2>1, ReceivedEnd
  <1>5. CASE Consult(c)
    <2>1. OutcomeOf(staging.status) \in Outcome
      BY <1>1, RunTypes DEF OutcomeOf, Outcome
    <2>. HIDE DEF OutcomeOf
    <2>. QED BY <1>1, <1>2, <1>5, <2>1, FailEnd DEF Consult
  <1>6. CASE ConsultFails(c)
    <2> DEFINE goal == StatusAfter(client[c].kind, "UNKNOWN")
    <2>1. goal \in Terminal /\ goal # "COMPLETED"
      BY StatusAfterType DEF StatusAfter
    <2>2. "UNKNOWN" \in Outcome /\ {"OUTCOME_UNAVAILABLE"} \in SUBSET Note
      BY DEF Outcome, Note
    <2>3. /\ client[c].pc = "raised"
          /\ EnterTerminal(c, [run EXCEPT !.outcome = "UNKNOWN"], client[c], goal,
                           Noted({"OUTCOME_UNAVAILABLE"}), 1)
      BY <1>6 DEF ConsultFails
    <2>. HIDE DEF goal
    <2>. QED BY <1>1, <1>2, <2>1, <2>2, <2>3, NotedFields, TerminalEnd
  <1>7. ASSUME NEW final, Load(c, final) PROVE EndInv'
    <2>1. client[c].pc = "writing"
      BY <1>7 DEF Load
    <2>2. CASE Received(c, final = "QUARANTINED")
      BY <2>1, <2>2, ReceivedEnd
    <2>3. CASE Fail(c, run, client[c], "unknown")
      BY <2>1, <2>3, FailsEnd DEF StagePC
    <2>4. CASE Fail(c, [run EXCEPT !.outcome = "COMMITTED"], client[c], "error")
      <3>1. "COMMITTED" \in Outcome
        BY DEF Outcome
      <3>. QED BY <1>1, <1>2, <2>1, <2>4, <3>1, FailEnd
    <2>5. CASE (\E kind \in Kind \ {"unknown"} : Raised(c, kind)) /\ UNCHANGED <<run, log>>
      BY <2>1, <2>5, RaisedEnd
    <2>. QED BY <1>7, <2>2, <2>3, <2>4, <2>5 DEF Load
  <1>8. ASSUME NEW kind, NEW final, RollBack(c, kind, final) PROVE EndInv'
    BY <1>8, RaisedEnd DEF RollBack
  <1>9. ASSUME NEW final, LoadUnknown(c, final) PROVE EndInv'
    BY <1>9, RaisedEnd DEF LoadUnknown
  <1>. QED BY <1>3, <1>4, <1>5, <1>6, <1>7, <1>8, <1>9 DEF LoadStep

(* The end of a stage: execute ends as a success without a flaw if nothing  *)
(* was noted.                                                               *)
LEMMA AdvanceEnd ==
    ASSUME PipelineInv, EndInv, NEW c \in Clients, NEW l \in Log, client[c].pc = "complete",
           l = log \/ l = Noted({"HOOK_FAILED_AFTER_COMMIT"}), Advance(c, l)
    PROVE  EndInv'
  <1> DEFINE o == client[c]
             left == Tail(o.todo)
             free == [run EXCEPT !.busy = FALSE]
             on == [o EXCEPT !.todo = left]
             out == [o EXCEPT !.todo = left, !.inside = FALSE]
             goal == IF l.notes # {} THEN "COMPLETED_WITH_WARNINGS" ELSE "COMPLETED"
  <1>1. /\ o \in Client /\ TodoPart(o) /\ run \in Session /\ log \in Log /\ o.pc = "complete"
        /\ o.inside /\ o.todo # <<>> /\ o = client[c] /\ Midway(c) /\ o.goal = "none"
        /\ run.status \in {Head(o.todo)} \cup Terminal /\ run.started
    BY OwnFacts DEF StagePart, StagePC, Midway, EndInv, EndingPart, StartPart
  <1>2. /\ 1 \in DOMAIN o.todo /\ Head(o.todo) = o.todo[1] /\ left \in Seq(Stage)
        /\ left = <<>> => Len(o.todo) = 1
    BY <1>1, FirstStage
  <1>3. \/ left # <<>> /\ EnterStage(c, run, on)
        \/ left = <<>> /\ o.call = "execute" /\ EnterTerminal(c, free, out, goal, l, 0)
        \/ left = <<>> /\ run' = free /\ Takes(c, [out EXCEPT !.pc = "idle"]) /\ log' = log
    BY DEF Advance, Become, Takes
  <1>4. goal \in Terminal /\ (goal = "COMPLETED" => l.notes = {})
    BY DEF Terminal
  <1>5. left = <<>> /\ o.call = "execute" => run.status \in {"LOADING"} \cup Terminal
    BY <1>1, <1>2 DEF TodoPart
  <1>6. /\ log.notes \subseteq l.notes /\ l.finished = log.finished /\ l.errors = log.errors
    <2>1. {"HOOK_FAILED_AFTER_COMMIT"} \in SUBSET Note
      BY DEF Note
    <2>. QED BY <1>1, <2>1, NotedFields
  <1>. HIDE DEF o, left, goal
  <1>7. on \in Client /\ on.goal = o.goal
    BY <1>1, <1>2 DEF Client
  <1>8. out \in Client /\ out.goal = o.goal /\ ~out.inside
    BY <1>1, <1>2 DEF Client
  <1>9. /\ free \in Session /\ free.status = run.status /\ free.started = run.started
    BY <1>1 DEF Session
  <1>10. CASE left # <<>> /\ EnterStage(c, run, on)
    <2>. HIDE DEF on
    <2>. QED BY <1>1, <1>7, <1>10, Unwritten, StageEnd
  <1>11. CASE left = <<>> /\ o.call = "execute" /\ EnterTerminal(c, free, out, goal, l, 0)
    <2>. HIDE DEF free, out
    <2>1. Begun(c, free)
      BY <1>9 DEF Begun
    <2>. QED BY <1>1, <1>4, <1>5, <1>6, <1>8, <1>11, <2>1, TerminalEnd
  <1>12. CASE left = <<>> /\ run' = free /\ Takes(c, [out EXCEPT !.pc = "idle"]) /\ log' = log
    <2> DEFINE k == [out EXCEPT !.pc = "idle"]
    <2>1. k.pc = "idle" /\ k.goal = "none" /\ ~k.inside
      BY <1>1, <1>8 DEF Client
    <2>. HIDE DEF k, free
    <2>2. GoesOn(c, k, free, log)
      BY <1>1, <1>9, <2>1 DEF GoesOn, Starts, Grown, StagePC
    <2>. QED BY <1>12, <2>2, GoesOnKeeps DEF k
  <1>. QED BY <1>3, <1>10, <1>11, <1>12

(* The end of a stage, and what stops the call after it. *)
LEMMA CompleteEnd ==
    ASSUME PipelineInv, EndInv, NEW c \in Clients,
           \/ Complete(c) \/ StopBetween(c)
           \/ \E kind \in Kind : CompleteFails(c, kind)
    PROVE  EndInv'
  <1>1. client[c].pc = "complete" /\ log \in Log /\ client[c].pc \in StagePC
    BY OwnFacts DEF Complete, StopBetween, CompleteFails, StagePC
  <1>2. CASE Complete(c)
    BY <1>1, <1>2, AdvanceEnd DEF Complete
  <1>3. ASSUME NEW kind \in Kind, CompleteFails(c, kind) PROVE EndInv'
    <2>1. CASE Advance(c, Noted({"HOOK_FAILED_AFTER_COMMIT"}))
      <3>1. {"HOOK_FAILED_AFTER_COMMIT"} \in SUBSET Note
        BY DEF Note
      <3>. QED BY <1>1, <2>1, <3>1, NotedFields, AdvanceEnd
    <2>2. CASE Fail(c, run, client[c], kind)
      BY <1>1, <2>2, FailsEnd
    <2>. QED BY <1>3, <2>1, <2>2 DEF CompleteFails
  <1>4. CASE StopBetween(c)
    <2> DEFINE o == client[c]
               free == [run EXCEPT !.busy = FALSE]
               out == [o EXCEPT !.inside = FALSE]
    <2>1. o \in Client /\ run \in Session /\ o.inside /\ o = client[c] /\ Midway(c)
      BY <1>1, OwnFacts DEF StagePart, Midway
    <2>2. EnterTerminal(c, free, out, "NEEDS_REVIEW", log, 1) /\ "NEEDS_REVIEW" \in Terminal
      BY <1>4 DEF StopBetween, Terminal
    <2>3. free \in Session /\ free.status = run.status /\ free.started = run.started
      BY <2>1 DEF Session
    <2>. HIDE DEF o, free
    <2>4. out \in Client
      BY <2>1 DEF Client
    <2>. HIDE DEF out
    <2>5. Begun(c, free)
      BY <2>3 DEF Begun
    <2>. QED BY <1>1, <2>1, <2>2, <2>4, <2>5, TerminalEnd
  <1>. QED BY <1>2, <1>3, <1>4

(* The end of terminal. *)
LEMMA FinishEnd ==
    ASSUME PipelineInv, EndInv, NEW c \in Clients, NEW r \in Session, NEW cut,
           Finish(c, r, cut)
    PROVE  \E k, q : /\ Takes(c, k) /\ run' = q
                     /\ k.pc = "done" /\ k.goal = client[c].goal /\ ~k.inside
                     /\ q.started = r.started
                     /\ q.status = r.status \/ (cut /\ q.status = "CANCELLED")
  <1>1. ASSUME NEW z \in Session, Leave(c, z)
        PROVE  \E k, q : /\ Takes(c, k) /\ run' = q
                         /\ k.pc = "done" /\ k.goal = client[c].goal /\ ~k.inside
                         /\ q.started = z.started /\ q.status = z.status
    <2> DEFINE b == IF client[c].inside THEN FALSE ELSE z.busy
               e == IF client[c].call = "execute" THEN FALSE ELSE z.executing
               o == client[c]
               q == [z EXCEPT !.busy = b, !.executing = e]
               k == [o EXCEPT !.pc = "done", !.calls = <<>>, !.todo = <<>>, !.inside = FALSE]
    <2>1. run' = q /\ Takes(c, k) /\ o = client[c] /\ o \in Client
      BY <1>1, OwnFacts DEF Leave, Freed, Become, Takes
    <2>2. q.status = z.status /\ q.started = z.started
      BY DEF Session
    <2>. HIDE DEF o, q
    <2>3. k.pc = "done" /\ k.goal = o.goal /\ ~k.inside
      BY <2>1 DEF Client
    <2>. HIDE DEF k
    <2>. QED BY <2>1, <2>2, <2>3
  <1>2. CASE Leave(c, r)
    BY <1>1, <1>2
  <1>3. CASE cut /\ Leave(c, [r EXCEPT !.status = "CANCELLED"])
    <2> DEFINE z == [r EXCEPT !.status = "CANCELLED"]
    <2>1. z \in Session /\ z.status = "CANCELLED" /\ z.started = r.started
      BY DEF Session, Terminal
    <2>. HIDE DEF z
    <2>2. Leave(c, z)
      BY <1>3 DEF z
    <2>. QED BY <1>1, <1>3, <2>1, <2>2
  <1>. QED BY <1>2, <1>3 DEF Finish

(* terminal sets a status. *)
LEMMA SetStatusEnd ==
    ASSUME PipelineInv, EndInv, NEW c \in Clients, NEW goal \in Terminal, NEW cut \in BOOLEAN,
           NEW l, log' = l, client[c].pc \in {"sign", "tell"}, SetStatus(c, goal, cut),
           \/ client[c].pc = "tell" /\ l = log /\ goal = client[c].goal /\ ~cut
           \/ Warned(l) /\ log.notes \subseteq l.notes /\ goal # "COMPLETED"
    PROVE  EndInv'
  <1> DEFINE o == client[c]
             z == [run EXCEPT !.status = goal]
             k == [o EXCEPT !.pc = "read", !.goal = goal, !.cut = cut]
  <1>1. o \in Client /\ run \in Session /\ o.goal \in Terminal /\ o = client[c]
    BY OwnFacts DEF EndInv, EndingPart
  <1>2. z \in Session /\ z.status = goal /\ z.started = run.started
    BY <1>1 DEF Session
  <1>3. \/ run' = z /\ Takes(c, k)
        \/ Finish(c, z, cut)
    BY DEF SetStatus, Become, Takes
  <1>. HIDE DEF o, z
  <1>4. CASE run' = z /\ Takes(c, k)
    <2>1. k.pc = "read" /\ k.goal = goal /\ k.cut = cut /\ k.inside = o.inside
      BY <1>1 DEF Client
    <2>. HIDE DEF k
    <2>2. SetsStatus(c, k, z, l)
      BY <1>1, <1>2, <2>1 DEF SetsStatus
    <2>. QED BY <1>4, <2>2, SetsStatusKeeps
  <1>5. CASE Finish(c, z, cut)
    <2>1. PICK m, q : /\ Takes(c, m) /\ run' = q
                      /\ m.pc = "done" /\ m.goal = client[c].goal /\ ~m.inside
                      /\ q.started = z.started
                      /\ q.status = z.status \/ (cut /\ q.status = "CANCELLED")
      BY <1>2, <1>5, FinishEnd
    <2>2. q.status \in Terminal
      BY <1>2, <2>1 DEF Terminal
    <2>3. SetsStatus(c, m, q, l)
      BY <1>1, <1>2, <2>1, <2>2 DEF SetsStatus
    <2>. QED BY <2>1, <2>3, SetsStatusKeeps
  <1>. QED BY <1>3, <1>4, <1>5

(* The cleanup ends. *)
LEMMA CleanupEnd ==
    ASSUME PipelineInv, EndInv, NEW c \in Clients, NEW cut \in BOOLEAN, NEW l, log' = l,
           client[c].pc \in {"read", "move"}, Finish(c, run, cut),
           \/ l = log /\ cut = client[c].cut
           \/ l = Noted({"CLEANUP_FAILED"})
    PROVE  EndInv'
  <1>1. /\ client[c] \in Client /\ run \in Session /\ log \in Log
        /\ client[c].cut => Warned(log)
    BY OwnFacts DEF EndInv, EndingPart
  <1>2. PICK m, q : /\ Takes(c, m) /\ run' = q
                    /\ m.pc = "done" /\ m.goal = client[c].goal /\ ~m.inside
                    /\ q.started = run.started
                    /\ q.status = run.status \/ (cut /\ q.status = "CANCELLED")
    BY <1>1, FinishEnd
  <1>3. {"CLEANUP_FAILED"} \in SUBSET Note
    BY DEF Note
  <1>4. /\ l.errors = log.errors /\ l.finished = log.finished
        /\ log.notes \subseteq l.notes /\ l.notes \subseteq log.notes \cup {"CLEANUP_FAILED"}
        /\ cut => Warned(l)
    <2>1. CASE l = log /\ cut = client[c].cut
      BY <1>1, <2>1
    <2>2. CASE l = Noted({"CLEANUP_FAILED"})
      <3>1. /\ l.errors = log.errors /\ l.finished = log.finished
            /\ l.notes = log.notes \cup {"CLEANUP_FAILED"}
        BY <1>1, <1>3, <2>2, NotedFields
      <3>. QED BY <3>1 DEF Warned, Excuses
    <2>. QED BY <2>1, <2>2
  <1>5. Cleans(c, m, q, l)
    BY <1>2, <1>4 DEF Cleans
  <1>. QED BY <1>2, <1>5, CleansKeeps

(* The steps of terminal. *)
LEMMA TerminalStepEnd ==
    ASSUME PipelineInv, EndInv, NEW c \in Clients, TerminalStep(c)
    PROVE  EndInv'
  <1>1. /\ client[c] \in Client /\ run \in Session /\ log \in Log
        /\ EndingPart(client[c], log) /\ client[c].cut \in BOOLEAN
    BY OwnFacts DEF EndInv, Client
  <1>2. CASE Sign(c)
    <2> DEFINE o == client[c]
               k == [o EXCEPT !.pc = "tell"]
               l == [log EXCEPT !.finished = Append(@, o.goal)]
    <2>1. Takes(c, k) /\ run' = run /\ log' = l /\ o = client[c] /\ o.pc = "sign"
      BY <1>2 DEF Sign, Become, Takes
    <2>2. /\ l.errors = log.errors /\ l.notes = log.notes /\ l.finished = Append(log.finished, o.goal)
      BY <1>1 DEF Log
    <2>. HIDE DEF o, l
    <2>3. k.pc = "tell" /\ k.goal = o.goal /\ k.inside = o.inside
      BY <1>1, <2>1 DEF Client
    <2>. HIDE DEF k
    <2>4. Signs(c, k, run, l)
      BY <2>1, <2>2, <2>3 DEF Signs
    <2>. QED BY <2>1, <2>4, SignsKeeps
  <1>3. CASE Tell(c)
    <2>1. client[c].pc = "tell" /\ SetStatus(c, client[c].goal, FALSE) /\ log' = log
      BY <1>3 DEF Tell
    <2>2. client[c].goal \in Terminal
      BY <1>1, <2>1 DEF EndingPart
    <2>. QED BY <2>1, <2>2, SetStatusEnd
  <1>4. ASSUME NEW cut \in BOOLEAN, Gap(c, cut) PROVE EndInv'
    <2> DEFINE goal == GoalAfterGap(client[c].goal, cut)
               n == IF ~cut /\ goal # client[c].goal /\ goal = "FAILED" THEN 1 ELSE 0
               l == [log EXCEPT !.notes = @ \cup {"AUDIT_GAP"}, !.errors = @ + n]
    <2>1. client[c].pc \in {"sign", "tell"} /\ SetStatus(c, goal, cut) /\ log' = l
      BY <1>4 DEF Gap, GapNote
    <2>2. goal \in Terminal /\ goal # "COMPLETED"
      BY <1>1, <2>1 DEF EndingPart, GoalAfterGap, Terminal
    <2>. HIDE DEF n, goal
    <2>3. l.notes = log.notes \cup {"AUDIT_GAP"}
      BY <1>1 DEF Log
    <2>. HIDE DEF l
    <2>4. Warned(l) /\ log.notes \subseteq l.notes
      BY <2>3 DEF Warned, Excuses
    <2>. QED BY <2>1, <2>2, <2>4, SetStatusEnd
  <1>5. CASE Read(c)
    <2> DEFINE o == client[c]
               k == [o EXCEPT !.pc = "move", !.seen = staging]
    <2>1. /\ o.pc = "read" /\ log' = log /\ o = client[c]
          /\ \/ run' = run /\ Takes(c, k)
             \/ Finish(c, run, o.cut)
      BY <1>5 DEF Read, Become, Takes
    <2>. HIDE DEF o
    <2>2. CASE run' = run /\ Takes(c, k)
      <3>1. k.pc = "move" /\ k.goal = o.goal /\ k.cut = o.cut /\ k.inside = o.inside
        BY <1>1, <2>1 DEF Client
      <3>. HIDE DEF k
      <3>2. Cleans(c, k, run, log)
        BY <2>1, <3>1 DEF Cleans
      <3>. QED BY <2>1, <2>2, <3>2, CleansKeeps
    <2>3. CASE Finish(c, run, o.cut)
      BY <1>1, <2>1, <2>3, CleanupEnd
    <2>. QED BY <2>1, <2>2, <2>3
  <1>6. CASE Move(c)
    <2>1. client[c].pc \in {"read", "move"} /\ Finish(c, run, client[c].cut) /\ log' = log
      BY <1>6 DEF Move
    <2>. QED BY <1>1, <2>1, CleanupEnd
  <1>7. ASSUME NEW cut \in BOOLEAN, CleanupFails(c, cut) PROVE EndInv'
    <2>1. /\ client[c].pc \in {"read", "move"} /\ Finish(c, run, client[c].cut \/ cut)
          /\ log' = Noted({"CLEANUP_FAILED"}) /\ (client[c].cut \/ cut) \in BOOLEAN
      BY <1>1, <1>7 DEF CleanupFails
    <2>. QED BY <2>1, CleanupEnd
  <1>. QED BY <1>2, <1>3, <1>4, <1>5, <1>6, <1>7 DEF TerminalStep

(* A new session has come to no end, *)
LEMMA InitEnd == Init => EndInv
  <1> SUFFICES ASSUME Init PROVE EndInv
    OBVIOUS
  <1>1. /\ run.status = "CREATED" /\ log.errors = 0 /\ log.finished = <<>>
        /\ \A c \in Clients : client[c].pc = "idle" /\ client[c].goal = "none"
    BY DEF Init
  <1>. QED BY <1>1 DEF EndInv, EndingPart, StartPart, WhosePart, FreshPart, EventPart, SuccessPart,
                       StagePC, Terminal

(* and every step keeps what is said of the end. *)
LEMMA NextEnd ==
    ASSUME PipelineInv, EndInv, [Next]_vars
    PROVE  EndInv'
  <1>1. CASE UNCHANGED vars
    BY <1>1 DEF vars, EndInv, EndingPart, StartPart, WhosePart, FreshPart, EventPart, SuccessPart,
                OneEnd, Nobody, Warned, Unflawed, Last
  <1>2. CASE CloseStep
    BY <1>2, CloserEnd
  <1>3. ASSUME NEW c \in Clients, Perform(c) PROVE EndInv'
    <2>1. CASE Call(c) \/ Dispute(c) \/ Stop(c) \/ First(c)
      BY <2>1, CallEnd, BetweenEnd
    <2>2. CASE Announced(c) \/ Work(c) \/ Begin(c) \/ Fill(c) \/ Seal(c)
      BY <2>2, OperationEnd
    <2>3. CASE StopInside(c)
      BY <2>3, StopInsideEnd
    <2>4. ASSUME NEW kind \in Kind, LostWrite(c, kind) \/ Fails(c, kind) PROVE EndInv'
      <3>1. client[c].pc \in StagePC /\ Fail(c, run, client[c], kind)
        BY <2>4 DEF LostWrite, Fails, StagePC
      <3>. QED BY <3>1, FailsEnd
    <2>5. ASSUME NEW kind \in Kind, LoadRefused(c, kind) PROVE EndInv'
      BY <2>5, RaisedEnd DEF LoadRefused
    <2>6. CASE Complete(c) \/ StopBetween(c) \/ \E kind \in Kind : CompleteFails(c, kind)
      BY <2>6, CompleteEnd
    <2>. QED BY <1>3, <2>1, <2>2, <2>3, <2>4, <2>5, <2>6 DEF Perform
  <1>4. ASSUME NEW c \in Clients, Step(c) PROVE EndInv'
    BY <1>3, <1>4, LoaderEnd, TerminalStepEnd DEF Step
  <1>. QED BY <1>1, <1>2, <1>4 DEF Next

(* If one call came to the end, the last event tells the status of the      *)
(* result or a warning tells why it does not, and COMPLETED means that      *)
(* nothing went wrong (RunSession.terminal, RunSession.aclose).             *)
THEOREM EndTold == Spec => [](EndIsReported /\ CompletedIsClean)
  <1>1. PipelineInv /\ EndInv /\ [Next]_vars => EndInv'
    BY NextEnd
  <1>2. EndInv => EndIsReported
    BY DEF EndInv, EventPart, EndIsReported, Ended, Warned, Excuses, Last
  <1>3. EndInv => CompletedIsClean
    BY DEF EndInv, SuccessPart, CompletedIsClean, Unflawed
  <1>. QED BY <1>1, <1>2, <1>3, InitEnd, PipelineInvariant, PTL DEF Spec

(* Nor does it while another client is at work in a stage. *)
LEMMA InsideAlone ==
    ASSUME PipelineInv, CommitInv, NEW c \in Clients, NEW d \in Clients \ {c},
           client[c].pc \in {"sign", "tell"}, Executes(d), client[d].inside
    PROVE  FALSE
  <1>2. ~client[c].inside /\ client[c].call # "execute"
    BY DEF PipelineInv, PairPart, Executes
  <1>3. OthersWait(c) \/ Unparsed(c, run.done)
    BY <1>2 DEF CommitInv, CommitPart, GoalPart
  <1>4. "SEMANTIC_PARSING" \in run.done
    BY DEF CommitInv, CommitPart, AskedPart, Executes
  <1>. QED BY <1>3, <1>4 DEF OthersWait, Unparsed

-----------------------------
(* What was staged is released. *)

(* A staged run that nobody has claimed, and that no warning speaks of. *)
Loose(r, l, s) ==
    /\ r.context /\ r.outcome = "NOT_STARTED" /\ "CLEANUP_FAILED" \notin l.notes
    /\ s.status \in Abandoned

(* The client that will give it up: the one that executes. *)
Keeper(k, r) ==
    /\ k.call = "execute" /\ k.inside
    /\ k.pc \in IF r.status \in Terminal THEN {"read", "move"} ELSE StagePC \cup {"sign", "tell"}

(* Staging comes after the last look at the lease. *)
OrderPart(k) ==
    k.call = "execute" =>
        \A i, j \in DOMAIN k.todo :
            k.todo[i] = "STAGING" /\ k.todo[j] = "DATABASE_INSPECTING" => j < i

ReleaseInv ==
    /\ \A c \in Clients : OrderPart(client[c])
    /\ run.context => run.status \in {"STAGING", "LOADING"} \cup Terminal /\ staging.status # "none"
    /\ Loose(run, log, staging) => \E c \in Clients : Keeper(client[c], run)

(* What a step of c leaves of the run and the row: nothing comes loose, and *)
(* only a client at the end of the run ends it.                             *)
Holding(c, r, l, s) ==
    /\ log.notes \subseteq l.notes
    /\ r.outcome = "NOT_STARTED" => run.outcome = "NOT_STARTED"
    /\ r.context = run.context
    /\ s.status = "none" => staging.status = "none"
    /\ r.context /\ s.status \in Abandoned => staging.status \in Abandoned
    /\ run.status \in Terminal => r.status \in Terminal
    /\ r.status \in Terminal => run.status \in Terminal \/ client[c].pc \in {"sign", "tell"}
    /\ run.status \in {"STAGING", "LOADING"} => r.status \in {"STAGING", "LOADING"} \cup Terminal

(* A step keeps the staged run with its keeper. *)
LEMMA ReleaseMoved ==
    ASSUME PipelineInv, CommitInv, ReleaseInv, NEW c \in Clients, NEW k, NEW r, NEW l, NEW s,
           Takes(c, k), run' = r, log' = l, staging' = s, OrderPart(k), Holding(c, r, l, s),
           Keeper(client[c], run) /\ Loose(r, l, s) => Keeper(k, r)
    PROVE  ReleaseInv'
  <1>1. client'[c] = k /\ \A d \in Clients \ {c} : client'[d] = client[d]
    BY TakenBy
  <1>2. ASSUME NEW d \in Clients PROVE OrderPart(client[d])'
    <2>1. OrderPart(client'[d])
      BY <1>1 DEF ReleaseInv
    <2>. QED BY <2>1 DEF OrderPart
  <1>3. r.context => r.status \in {"STAGING", "LOADING"} \cup Terminal /\ s.status # "none"
    BY DEF ReleaseInv, Holding
  <1>4. ASSUME Loose(r, l, s) PROVE \E d \in Clients : Keeper(client'[d], r)
    <2>1. Loose(run, log, staging)
      BY <1>4 DEF Loose, Holding
    <2>2. PICK d \in Clients : Keeper(client[d], run)
      BY <2>1 DEF ReleaseInv
    <2>3. CASE d = c
      BY <1>1, <1>4, <2>2, <2>3
    <2>4. CASE d # c
      <3>1. client[d].inside /\ Executes(d)
        BY <2>2 DEF Keeper, Executes
      <3>2. client[c].pc \notin {"sign", "tell"}
        BY <2>4, <3>1, InsideAlone
      <3>3. r.status \in Terminal <=> run.status \in Terminal
        BY <3>2 DEF Holding
      <3>4. Keeper(client[d], r)
        BY <2>2, <3>3 DEF Keeper
      <3>. QED BY <1>1, <2>4, <3>4
    <2>. QED BY <2>3, <2>4
  <1>. QED BY <1>2, <1>3, <1>4 DEF ReleaseInv, Loose, Keeper

(* The call is over: it does not keep anything. *)
LEMMA LeaveRelease ==
    ASSUME PipelineInv, CommitInv, ReleaseInv, NEW c \in Clients, NEW r \in Session, NEW l, NEW s,
           Leave(c, r), log' = l, staging' = s, Holding(c, r, l, s),
           Keeper(client[c], run) => ~Loose(r, l, s)
    PROVE  ReleaseInv'
  <1> DEFINE b == IF client[c].inside THEN FALSE ELSE r.busy
             e == IF client[c].call = "execute" THEN FALSE ELSE r.executing
             o == client[c]
             q == [r EXCEPT !.busy = b, !.executing = e]
             k == [o EXCEPT !.pc = "done", !.calls = <<>>, !.todo = <<>>, !.inside = FALSE]
  <1>1. run' = q /\ Takes(c, k) /\ o \in Client
    BY OwnFacts DEF Leave, Freed, Become, Takes
  <1>2. q.status = r.status /\ q.outcome = r.outcome /\ q.context = r.context
    BY DEF Session
  <1>3. k.todo = <<>>
    BY <1>1 DEF Client
  <1>. HIDE DEF q, k
  <1>4. OrderPart(k)
    BY <1>3 DEF OrderPart
  <1>5. Holding(c, q, l, s)
    BY <1>2 DEF Holding
  <1>6. Loose(q, l, s) => Loose(r, l, s)
    BY <1>2 DEF Loose
  <1>. QED BY <1>1, <1>4, <1>5, <1>6, ReleaseMoved

(* terminal: a call that ends the run keeps what it staged. *)
LEMMA TerminalRelease ==
    ASSUME PipelineInv, CommitInv, ReleaseInv, NEW c \in Clients, NEW me \in Client,
           NEW r \in Session, NEW l \in Log, NEW s, NEW goal, NEW n,
           Midway(c), OrderPart(me), r.status = run.status, Holding(c, r, l, s),
           Keeper(client[c], run) /\ Loose(r, l, s) => me.inside /\ me.call = "execute",
           EnterTerminal(c, r, me, goal, l, n), staging' = s
    PROVE  ReleaseInv'
  <1>1. Keeper(client[c], run) => run.status \notin Terminal
    BY DEF Keeper, Midway, StagePC
  <1>2. CASE run.status \in Terminal
    BY <1>1, <1>2, LeaveRelease DEF EnterTerminal
  <1>3. CASE run.status \notin Terminal
    <2> DEFINE k == [me EXCEPT !.pc = "sign", !.goal = goal]
               m == [l EXCEPT !.errors = @ + n]
    <2>1. run' = r /\ Takes(c, k) /\ log' = m
      BY <1>3 DEF EnterTerminal, Become, Takes
    <2>2. k.pc = "sign" /\ k.call = me.call /\ k.inside = me.inside /\ k.todo = me.todo
      BY DEF Client
    <2>3. m.notes = l.notes
      BY DEF Log
    <2>. HIDE DEF k, m
    <2>4. OrderPart(k)
      BY <2>2 DEF OrderPart
    <2>5. Holding(c, r, m, s) /\ (Loose(r, m, s) => Loose(r, l, s))
      BY <2>3 DEF Holding, Loose
    <2>6. me.inside /\ me.call = "execute" => Keeper(k, r)
      BY <1>3, <2>2 DEF Keeper
    <2>. QED BY <2>1, <2>4, <2>5, <2>6, ReleaseMoved
  <1>. QED BY <1>2, <1>3

(* So does one that fails. *)
LEMMA FailRelease ==
    ASSUME PipelineInv, CommitInv, ReleaseInv, NEW c \in Clients, NEW me \in Client,
           NEW r \in Session, NEW s, NEW kind,
           Midway(c), OrderPart(me), r.status = run.status, Holding(c, r, log, s),
           Keeper(client[c], run) /\ Loose(r, log, s) => me.inside /\ me.call = "execute",
           Fail(c, r, me, kind), staging' = s
    PROVE  ReleaseInv'
  <1>1. log \in Log
    BY OwnFacts
  <1>2. CASE Shielded(r)
    <2> DEFINE n == {IF kind = "cancel" THEN "CANCELLED_AFTER_COMMIT" ELSE "STAGE_FAILED_AFTER_COMMIT"}
    <2>1. EnterTerminal(c, r, me, "COMPLETED_WITH_WARNINGS", Noted(n), 0)
      BY <1>2 DEF Fail
    <2>2. n \in SUBSET Note
      BY DEF Note
    <2>. HIDE DEF n
    <2> DEFINE l == Noted(n)
    <2>3. l \in Log /\ log.notes \subseteq l.notes
      BY <1>1, <2>2, NotedFields
    <2>4. EnterTerminal(c, r, me, "COMPLETED_WITH_WARNINGS", l, 0)
      BY <2>1
    <2>. HIDE DEF l
    <2>5. Holding(c, r, l, s) /\ ~Loose(r, l, s)
      BY <1>2, <2>3 DEF Holding, Loose, Shielded
    <2>. QED BY <2>3, <2>4, <2>5, TerminalRelease
  <1>3. CASE ~Shielded(r)
    <2> DEFINE q == [r EXCEPT !.outcome = OutcomeAfter(kind, r.outcome)]
               goal == StatusAfter(kind, r.outcome)
    <2>1. EnterTerminal(c, q, me, goal, log, 1)
      BY <1>3 DEF Fail
    <2>2. OutcomeAfter(kind, r.outcome) \in Outcome
      BY RunTypes DEF OutcomeAfter, Outcome
    <2>3. /\ q \in Session /\ q.status = r.status /\ q.context = r.context
          /\ q.outcome = OutcomeAfter(kind, r.outcome)
      BY <2>2 DEF Session
    <2>. HIDE DEF q, goal
    <2>4. q.outcome = "NOT_STARTED" => r.outcome = "NOT_STARTED"
      BY <2>3 DEF OutcomeAfter
    <2>5. Holding(c, q, log, s) /\ (Loose(q, log, s) => Loose(r, log, s))
      BY <2>3, <2>4 DEF Holding, Loose
    <2>. QED BY <1>1, <2>1, <2>3, <2>5, TerminalRelease
  <1>. QED BY <1>2, <1>3

(* Staging leads to loading, and loading to nothing else. *)
LEMMA AfterStaging ==
    ASSUME NEW a, NEW b, MayEnter(a, b), a \in {"STAGING", "LOADING"}
    PROVE  b = "LOADING"
  BY DEF MayEnter, Edges, Repeatable

(* The start of a stage: the lease is not looked at after staging. *)
LEMMA StageRelease ==
    ASSUME PipelineInv, CommitInv, ReleaseInv, NEW c \in Clients, NEW me \in Client,
           NEW r \in Session,
           Midway(c), OrderPart(me), r.status = run.status, Holding(c, r, log, staging),
           Keeper(client[c], run) /\ Loose(r, log, staging) =>
              me.inside /\ me.call = "execute" /\ ~Rechecks(me.call, Head(me.todo)),
           EnterStage(c, r, me), staging' = staging
    PROVE  ReleaseInv'
  <1> DEFINE h == Head(me.todo)
  <1>1. \/ Rechecks(me.call, h) /\ Leave(c, r) /\ log' = log
        \/ Fail(c, r, me, "error")
        \/ /\ MayEnter(r.status, h) /\ run' = [r EXCEPT !.status = h]
           /\ Become(c, [me EXCEPT !.pc = "announce"]) /\ log' = log
    BY DEF EnterStage
  <1>2. CASE Rechecks(me.call, h) /\ Leave(c, r) /\ log' = log
    BY <1>2, LeaveRelease
  <1>. HIDE DEF h
  <1>3. CASE Fail(c, r, me, "error")
    BY <1>3, FailRelease
  <1>4. CASE /\ MayEnter(r.status, h) /\ run' = [r EXCEPT !.status = h]
             /\ Become(c, [me EXCEPT !.pc = "announce"]) /\ log' = log
    <2> DEFINE q == [r EXCEPT !.status = h]
               k == [me EXCEPT !.pc = "announce"]
    <2>1. run' = q /\ Takes(c, k)
      BY <1>4 DEF Become, Takes
    <2>2. q.status = h /\ q.outcome = r.outcome /\ q.context = r.context
      BY DEF Session
    <2>3. k.pc = "announce" /\ k.call = me.call /\ k.inside = me.inside /\ k.todo = me.todo
      BY DEF Client
    <2>4. /\ r.status \notin Terminal /\ h \notin Terminal
          /\ r.status \in {"STAGING", "LOADING"} => h = "LOADING"
      BY <1>4, EdgeFacts, AfterStaging
    <2>. HIDE DEF q, k
    <2>5. OrderPart(k)
      BY <2>3 DEF OrderPart
    <2>6. Holding(c, q, log, staging) /\ (Loose(q, log, staging) => Loose(r, log, staging))
      BY <2>2, <2>4 DEF Holding, Loose
    <2>7. me.inside /\ me.call = "execute" => Keeper(k, q)
      BY <2>2, <2>3, <2>4 DEF Keeper, StagePC
    <2>. QED BY <1>4, <2>1, <2>5, <2>6, <2>7, ReleaseMoved
  <1>. QED BY <1>1, <1>2, <1>3, <1>4

(* A step inside a stage. *)
LEMMA InnerRelease ==
    ASSUME PipelineInv, CommitInv, ReleaseInv, NEW c \in Clients, NEW k,
           NEW s, Takes(c, k), staging' = s, client[c].pc \in StagePC, k.pc \in StagePC,
           k.call = client[c].call, k.inside = client[c].inside, k.todo = client[c].todo,
           run'.status = run.status, Holding(c, run', log', s)
    PROVE  ReleaseInv'
  <1>1. OrderPart(k)
    BY DEF ReleaseInv, OrderPart
  <1>2. Keeper(client[c], run) => Keeper(k, run')
    BY DEF Keeper, StagePC
  <1>. QED BY <1>1, <1>2, ReleaseMoved

(* What execute does comes in this order. *)
LEMMA StagesOrder ==
    ASSUME NEW m \in Calls, NEW status, NEW done, NEW k,
           k.call = m, k.todo = StagesOf(m, status, done)
    PROVE  OrderPart(k)
  <1> DEFINE ts == k.todo
             p == ValidateMapping(status, done)
             v == <<"NORMALIZING", "VALIDATING", "STAGING", "LOADING">>
  <1> SUFFICES ASSUME m = "execute", NEW i \in DOMAIN ts, NEW j \in DOMAIN ts,
                      ts[i] = "STAGING", ts[j] = "DATABASE_INSPECTING"
               PROVE  j < i
    BY DEF OrderPart
  <1>1. ts = p \o v
    BY DEF StagesOf
  <1>2. v \in Seq(Stage) /\ Len(v) = 4
    BY StageNames DEF Plain
  <1>3. \A n \in 1..4 : v[n] # "DATABASE_INSPECTING"
    <2>1. v[1] = "NORMALIZING" /\ v[2] = "VALIDATING" /\ v[3] = "STAGING" /\ v[4] = "LOADING"
      OBVIOUS
    <2>. QED BY <2>1
  <1>4. p \in Seq(Plain)
    BY PlainStages
  <1>. HIDE DEF p, v
  <1>5. p \in Seq(Stage) /\ \A n \in 1..Len(p) : p[n] # "STAGING"
    BY <1>4 DEF Plain
  <1>6. /\ p \o v \in Seq(Stage) /\ Len(p \o v) = Len(p) + Len(v)
        /\ \A n \in 1..Len(p \o v) : (p \o v)[n] = IF n <= Len(p) THEN p[n] ELSE v[n - Len(p)]
    BY <1>2, <1>5, Joined
  <1>7. /\ ts \in Seq(Stage) /\ Len(ts) = Len(p) + 4
        /\ \A n \in 1..Len(ts) : ts[n] = IF n <= Len(p) THEN p[n] ELSE v[n - Len(p)]
    BY <1>1, <1>2, <1>6
  <1>. HIDE DEF ts
  <1>8. Len(p) \in Nat /\ i \in 1..(Len(p) + 4) /\ j \in 1..(Len(p) + 4)
    BY <1>4, <1>7
  <1>9. ~(i <= Len(p))
    BY <1>5, <1>7, <1>8
  <1>10. j <= Len(p)
    <2> SUFFICES ASSUME ~(j <= Len(p)) PROVE FALSE
      OBVIOUS
    <2>1. j - Len(p) \in 1..4 /\ ts[j] = v[j - Len(p)]
      BY <1>7, <1>8
    <2>. QED BY <2>1, <1>3
  <1>. QED BY <1>8, <1>9, <1>10

(* It is kept by what is left. *)
LEMMA TailOrder ==
    ASSUME NEW o \in Client, o.todo # <<>>, OrderPart(o), NEW k,
           k.call = o.call, k.todo = Tail(o.todo)
    PROVE  OrderPart(k)
  <1> DEFINE left == Tail(o.todo)
  <1> SUFFICES ASSUME o.call = "execute", NEW i \in DOMAIN left, NEW j \in DOMAIN left,
                      left[i] = "STAGING", left[j] = "DATABASE_INSPECTING"
               PROVE  j < i
    BY DEF OrderPart
  <1>1. left \in Seq(Stage) /\ i + 1 \in DOMAIN o.todo /\ j + 1 \in DOMAIN o.todo
        /\ left[i] = o.todo[i + 1] /\ left[j] = o.todo[j + 1]
    BY FirstStage
  <1>2. j + 1 < i + 1
    BY <1>1 DEF OrderPart
  <1>3. i \in Int /\ j \in Int
    <2>. HIDE DEF left
    <2>. QED BY <1>1
  <1>. QED BY <1>2, <1>3

(* Nothing of what is staged changes. *)
LEMMA SameHeld ==
    ASSUME NEW c \in Clients, NEW r,
           r.status = run.status, r.outcome = run.outcome, r.context = run.context
    PROVE  Holding(c, r, log, staging)
  BY DEF Holding

(* A keeper of something staged is staging or loading. *)
LEMMA HeldStatus ==
    ASSUME ReleaseInv, NEW k, Keeper(k, run), run.context, k.pc \notin {"read", "move"}
    PROVE  run.status \in {"STAGING", "LOADING"} /\ run.status \notin Terminal
  BY DEF ReleaseInv, Keeper

(* A client between two calls keeps nothing. *)
LEMMA IdleHeld ==
    ASSUME PipelineInv, NEW c \in Clients, client[c].pc = "idle"
    PROVE  client[c].call # "execute" /\ ~Keeper(client[c], run)
  BY OwnFacts DEF StagePart, Keeper

-----------------------------
(* The steps of a call keep what is staged. *)

LEMMA CallRelease ==
    ASSUME PipelineInv, CommitInv, ReleaseInv, NEW c \in Clients, Call(c)
    PROVE  ReleaseInv'
  <1> DEFINE o == client[c]
             m == Head(o.calls)
             cs == Tail(o.calls)
             ts == StagesOf(m, run.status, run.done)
             x == run.executing \/ m = "execute"
             dr == IF m = "execute" THEN Dry[c] ELSE run.dry
             q == [run EXCEPT !.busy = TRUE, !.executing = x, !.dry = dr]
             k == [o EXCEPT !.call = m, !.calls = cs, !.todo = ts, !.inside = TRUE]
  <1>1. /\ o \in Client /\ o.pc = "idle" /\ o.calls # <<>> /\ run \in Session /\ o = client[c]
        /\ Midway(c) /\ o.call # "execute" /\ ~Keeper(client[c], run)
    BY OwnFacts, IdleHeld DEF Call, Midway
  <1>2. m \in Calls /\ cs \in Seq(Calls)
    BY <1>1 DEF Client
  <1>3. ts \in Seq(Stage) /\ Dry[c] \in BOOLEAN
    BY <1>2, StagesType, SetupFacts DEF PipelineInv, Base
  <1>4. x \in BOOLEAN /\ dr \in BOOLEAN
    BY <1>1, <1>3, RunTypes
  <1>5. staging' = staging
    BY DEF Call
  <1>6. \/ /\ run' = run /\ log' = log
           /\ \/ Takes(c, [o EXCEPT !.pc = "done", !.calls = <<>>])
              \/ Takes(c, [o EXCEPT !.calls = cs])
        \/ EnterStage(c, q, k)
        \/ run' = q /\ Takes(c, [k EXCEPT !.pc = "first"]) /\ log' = log
    BY DEF Call, Become, Takes
  <1>7. k \in Client /\ k.call = m /\ k.todo = ts
    <2>. HIDE DEF o, m, cs, ts
    <2>. QED BY <1>1, <1>2, <1>3 DEF Client
  <1>8. OrderPart(k)
    <2>. HIDE DEF k, m
    <2>. QED BY <1>2, <1>7, StagesOrder
  <1>. HIDE DEF o, m, cs, ts, x, dr
  <1>9. /\ q \in Session /\ q.status = run.status /\ q.outcome = run.outcome
        /\ q.context = run.context
    BY <1>1, <1>4 DEF Session
  <1>10. ASSUME NEW d, Takes(c, d), d.call = o.call, run' = run, log' = log
         PROVE  ReleaseInv'
    <2>1. OrderPart(d)
      BY <1>1, <1>10 DEF OrderPart
    <2>2. Holding(c, run, log, staging)
      BY SameHeld
    <2>. QED BY <1>1, <1>5, <1>10, <2>1, <2>2, ReleaseMoved
  <1>11. CASE Takes(c, [o EXCEPT !.pc = "done", !.calls = <<>>]) /\ run' = run /\ log' = log
    <2> DEFINE d == [o EXCEPT !.pc = "done", !.calls = <<>>]
    <2>1. d.call = o.call
      BY <1>1 DEF Client
    <2>. HIDE DEF d
    <2>. QED BY <1>10, <1>11, <2>1 DEF d
  <1>12. CASE Takes(c, [o EXCEPT !.calls = cs]) /\ run' = run /\ log' = log
    <2> DEFINE d == [o EXCEPT !.calls = cs]
    <2>1. d.call = o.call
      BY <1>1 DEF Client
    <2>. HIDE DEF d
    <2>. QED BY <1>10, <1>12, <2>1 DEF d
  <1>. HIDE DEF q
  <1>13. Holding(c, q, log, staging)
    BY <1>9, SameHeld
  <1>14. CASE EnterStage(c, q, k)
    <2>. HIDE DEF k
    <2>. QED BY <1>1, <1>5, <1>7, <1>8, <1>9, <1>13, <1>14, StageRelease
  <1>15. CASE run' = q /\ Takes(c, [k EXCEPT !.pc = "first"]) /\ log' = log
    <2>. HIDE DEF k
    <2> DEFINE d == [k EXCEPT !.pc = "first"]
    <2>1. d.call = k.call /\ d.todo = k.todo
      BY <1>7 DEF Client
    <2>2. Takes(c, d)
      BY <1>15
    <2>. HIDE DEF d
    <2>3. OrderPart(d)
      BY <1>8, <2>1 DEF OrderPart
    <2>. QED BY <1>1, <1>5, <1>13, <1>15, <2>2, <2>3, ReleaseMoved
  <1>. QED BY <1>6, <1>11, <1>12, <1>14, <1>15

(* A disputed argument stops a call that has kept nothing. *)
LEMMA DisputeRelease ==
    ASSUME PipelineInv, CommitInv, ReleaseInv, NEW c \in Clients, Dispute(c)
    PROVE  ReleaseInv'
  <1> DEFINE o == client[c]
             m == Head(o.calls)
             cs == Tail(o.calls)
             x == run.executing \/ m = "execute"
             dr == IF m = "execute" THEN Dry[c] ELSE run.dry
             q == [run EXCEPT !.executing = x, !.dry = dr]
             k == [o EXCEPT !.call = m, !.calls = cs]
  <1>1. /\ o \in Client /\ run \in Session /\ log \in Log /\ o.calls # <<>> /\ Midway(c)
        /\ ~Keeper(client[c], run) /\ o.todo = <<>> /\ staging' = staging
        /\ EnterTerminal(c, q, k, "NEEDS_REVIEW", log, 1)
    BY OwnFacts, IdleHeld DEF Dispute, Midway, StagePart
  <1>2. m \in Calls /\ cs \in Seq(Calls)
    BY <1>1 DEF Client
  <1>3. Dry[c] \in BOOLEAN
    BY SetupFacts DEF PipelineInv, Base
  <1>4. x \in BOOLEAN /\ dr \in BOOLEAN
    BY <1>1, <1>3, RunTypes
  <1>. HIDE DEF o, m, cs, x, dr
  <1>5. k \in Client /\ k.todo = <<>>
    BY <1>1, <1>2 DEF Client
  <1>6. /\ q \in Session /\ q.status = run.status /\ q.outcome = run.outcome
        /\ q.context = run.context
    BY <1>1, <1>4 DEF Session
  <1>. HIDE DEF k, q
  <1>7. OrderPart(k) /\ Holding(c, q, log, staging)
    BY <1>5, <1>6, SameHeld DEF OrderPart
  <1>. QED BY <1>1, <1>5, <1>6, <1>7, TerminalRelease

(* A client that makes no other call, and the first stage of all, when      *)
(* nothing has been staged.                                                 *)
LEMMA BetweenRelease ==
    ASSUME PipelineInv, CommitInv, EndInv, ReleaseInv, NEW c \in Clients, Stop(c) \/ First(c)
    PROVE  ReleaseInv'
  <1> DEFINE o == client[c]
  <1>1. /\ o \in Client /\ run \in Session /\ Midway(c) /\ o = client[c]
        /\ OrderPart(o) /\ staging' = staging
    BY OwnFacts DEF Stop, First, Midway, StagePC, ReleaseInv
  <1>. HIDE DEF o
  <1>2. CASE Stop(c)
    <2> DEFINE k == [o EXCEPT !.pc = "done", !.calls = <<>>]
    <2>1. Takes(c, k) /\ run' = run /\ log' = log /\ o.pc = "idle"
      BY <1>1, <1>2 DEF Stop, Become, Takes
    <2>2. k.call = o.call
      BY <1>1 DEF Client
    <2>. HIDE DEF k
    <2>3. OrderPart(k) /\ ~Keeper(client[c], run)
      BY <1>1, <2>1, <2>2, IdleHeld DEF OrderPart
    <2>. QED BY <1>1, <2>1, <2>3, SameHeld, ReleaseMoved
  <1>3. CASE First(c)
    <2> DEFINE q == [run EXCEPT !.started = TRUE]
    <2>1. EnterStage(c, q, o) /\ o.pc = "first" /\ run.status \in {"CREATED"} \cup Terminal
      BY <1>1, <1>3 DEF First, EndInv, StartPart
    <2>2. q \in Session /\ q.status = run.status /\ q.outcome = run.outcome /\ q.context = run.context
      BY <1>1 DEF Session
    <2>. HIDE DEF q
    <2>3. ~(Keeper(client[c], run) /\ Loose(q, log, staging))
      BY <1>1, <2>1, <2>2, HeldStatus DEF Loose
    <2>. QED BY <1>1, <2>1, <2>2, <2>3, SameHeld, StageRelease
  <1>. QED BY <1>2, <1>3

(* The operation of a stage, and what it keeps. *)
LEMMA OperationRelease ==
    ASSUME PipelineInv, CommitInv, ReleaseInv, NEW c \in Clients,
           Announced(c) \/ Work(c) \/ Fill(c) \/ Seal(c) \/ Claim(c)
    PROVE  ReleaseInv'
  <1> DEFINE o == client[c]
  <1>1. o \in Client /\ run \in Session /\ o = client[c] /\ o.pc \in StagePC
    BY OwnFacts DEF Announced, Work, Fill, Seal, Claim, StagePC
  <1>2. \E p \in StagePC : Takes(c, [o EXCEPT !.pc = p])
    BY DEF Announced, Work, Fill, Seal, Claim, Become, Takes, StagePC
  <1>3. /\ log' = log /\ run'.status = run.status /\ run'.context = run.context
        /\ run'.outcome = "NOT_STARTED" => run.outcome = "NOT_STARTED"
    <2>1. CASE Work(c)
      <3> DEFINE dn == run.done \cup {Head(client[c].todo)}
                 out == IF Head(client[c].todo) = "LOADING" THEN "DRY_RUN" ELSE run.outcome
                 q == [run EXCEPT !.done = dn, !.outcome = out]
      <3>1. run' = q /\ log' = log
        BY <2>1 DEF Work
      <3>2. out = "NOT_STARTED" => run.outcome = "NOT_STARTED"
        OBVIOUS
      <3>. HIDE DEF dn, out
      <3>3. q.status = run.status /\ q.context = run.context /\ q.outcome = out
        BY <1>1 DEF Session
      <3>. HIDE DEF q
      <3>. QED BY <3>1, <3>2, <3>3
    <2>2. CASE Announced(c) \/ Fill(c) \/ Seal(c) \/ Claim(c)
      BY <1>1, <2>2 DEF Announced, Fill, Seal, Claim, Session
    <2>. QED BY <2>1, <2>2
  <1>4. \/ staging' = staging
        \/ staging' = Written("OPEN") /\ staging.status = "OPEN"
        \/ staging' = Written("SEALED") /\ staging.status = "OPEN"
        \/ staging' = Written("EXECUTING")
    BY DEF Announced, Work, Fill, Seal, Claim
  <1>5. /\ staging'.status = "none" => staging.status = "none"
        /\ staging'.status \in Abandoned => staging.status \in Abandoned
    BY <1>4 DEF Written, Abandoned
  <1> DEFINE s == staging'
  <1>6. Holding(c, run', log', s) /\ s = staging'
    BY <1>3, <1>5 DEF Holding
  <1>. HIDE DEF s
  <1>7. PICK p \in StagePC : Takes(c, [o EXCEPT !.pc = p])
    BY <1>2
  <1> DEFINE k == [o EXCEPT !.pc = p]
  <1>. HIDE DEF o
  <1>8. k.pc = p /\ k.call = o.call /\ k.inside = o.inside /\ k.todo = o.todo
    BY <1>1 DEF Client
  <1>9. Takes(c, k)
    BY <1>7
  <1>. HIDE DEF k
  <1>. QED BY <1>1, <1>3, <1>6, <1>8, <1>9, InnerRelease

(* begin: the client that begins the run keeps it. *)
LEMMA BeginRelease ==
    ASSUME PipelineInv, CommitInv, ReleaseInv, NEW c \in Clients, Begin(c)
    PROVE  ReleaseInv'
  <1> DEFINE o == client[c]
             k == [o EXCEPT !.pc = "fill"]
             q == [run EXCEPT !.context = TRUE]
  <1>1. /\ o \in Client /\ run \in Session /\ o.pc = "begin" /\ o = client[c]
        /\ Takes(c, k) /\ run' = q /\ log' = log /\ staging' = Written("OPEN")
        /\ UnderPart(o, run) /\ OrderPart(o)
    BY OwnFacts, OwnCommit DEF Begin, Become, Takes, ReleaseInv
  <1>2. /\ o.inside /\ o.call = "execute" /\ run.status \in {"STAGING"} \cup Terminal
    BY <1>1, Loading DEF LoadPC
  <1>3. run.status = "STAGING" /\ run.status \notin Terminal
    BY <1>1, <1>2 DEF UnderPart, StagePC, Terminal
  <1>. HIDE DEF o
  <1>4. k.pc = "fill" /\ k.call = o.call /\ k.inside = o.inside /\ k.todo = o.todo
    BY <1>1 DEF Client
  <1>5. q.status = run.status /\ q.outcome = run.outcome /\ q.context
    BY <1>1 DEF Session
  <1>. HIDE DEF k, q
  <1>6. client'[c] = k /\ \A d \in Clients \ {c} : client'[d] = client[d]
    BY <1>1, TakenBy
  <1>7. ASSUME NEW d \in Clients PROVE OrderPart(client[d])'
    <2>1. OrderPart(client'[d])
      BY <1>1, <1>4, <1>6 DEF ReleaseInv, OrderPart
    <2>. QED BY <2>1 DEF OrderPart
  <1>8. Keeper(k, q)
    BY <1>2, <1>3, <1>4, <1>5 DEF Keeper, StagePC
  <1>9. q.status = "STAGING" /\ Written("OPEN").status # "none"
    BY <1>3, <1>5 DEF Written
  <1>10. (\E d \in Clients : Keeper(client[d], run))'
    BY <1>1, <1>6, <1>8 DEF Keeper
  <1>. QED BY <1>1, <1>7, <1>9, <1>10 DEF ReleaseInv

(* What stops or fails in a stage. *)
LEMMA FailsRelease ==
    ASSUME PipelineInv, CommitInv, ReleaseInv, NEW c \in Clients, NEW kind,
           NEW r \in Session, NEW s,
           client[c].pc \in StagePC, r.status = run.status, Holding(c, r, log, s),
           Fail(c, r, client[c], kind), staging' = s
    PROVE  ReleaseInv'
  <1>1. client[c] \in Client /\ Midway(c) /\ OrderPart(client[c])
    BY OwnFacts DEF Midway, ReleaseInv
  <1>2. Keeper(client[c], run) => client[c].inside /\ client[c].call = "execute"
    BY DEF Keeper
  <1>. QED BY <1>1, <1>2, FailRelease

(* What is lost with an answer in staging was not known to be staged. *)
LEMMA StagingRelease ==
    ASSUME PipelineInv, CommitInv, ReleaseInv, NEW c \in Clients, NEW kind,
           LostWrite(c, kind) \/ Fails(c, kind)
    PROVE  ReleaseInv'
  <1> DEFINE s == staging'
  <1>1. run \in Session /\ client[c].pc \in StagePC /\ Fail(c, run, client[c], kind)
    BY OwnFacts DEF LostWrite, Fails, StagePC
  <1>2. \/ s = staging
        \/ staging.status = "none" /\ s = Written("OPEN")
        \/ staging.status = "OPEN" /\ s = Written("OPEN")
        \/ staging.status = "OPEN" /\ s = Written("SEALED")
    BY DEF LostWrite, Fails
  <1>3. run.context => staging.status # "none"
    BY DEF ReleaseInv
  <1>4. Holding(c, run, log, s)
    BY <1>2, <1>3 DEF Holding, Written, Abandoned
  <1>5. staging' = s
    OBVIOUS
  <1>. HIDE DEF s
  <1>. QED BY <1>1, <1>4, <1>5, FailsRelease

(* So does a stop in a stage. *)
LEMMA StopInsideRelease ==
    ASSUME PipelineInv, CommitInv, ReleaseInv, NEW c \in Clients, StopInside(c)
    PROVE  ReleaseInv'
  <1>1. /\ client[c] \in Client /\ run \in Session /\ log \in Log /\ Midway(c)
        /\ OrderPart(client[c]) /\ staging' = staging
    BY OwnFacts DEF StopInside, Midway, StagePC, ReleaseInv
  <1>2. PICK r : /\ r = run \/ r = [run EXCEPT !.outcome = "DRY_RUN"]
                 /\ EnterTerminal(c, r, client[c], "NEEDS_REVIEW", log, 1)
    BY DEF StopInside
  <1>3. /\ r \in Session /\ r.status = run.status /\ r.context = run.context
        /\ r.outcome = "NOT_STARTED" => run.outcome = "NOT_STARTED"
    <2>1. "DRY_RUN" \in Outcome
      BY DEF Outcome
    <2>. QED BY <1>1, <1>2, <2>1 DEF Session
  <1>4. Holding(c, r, log, staging)
    BY <1>3 DEF Holding
  <1>5. Keeper(client[c], run) => client[c].inside /\ client[c].call = "execute"
    BY DEF Keeper
  <1>. QED BY <1>1, <1>2, <1>3, <1>4, <1>5, TerminalRelease

(* A run that is with the loader has no outcome yet, and may be given any. *)
LEMMA LoaderHeld ==
    ASSUME PipelineInv, NEW c \in Clients, client[c].pc \in {"load", "writing", "raised"},
           NEW out \in Outcome, NEW s,
           s = staging \/ s.status \notin Abandoned \cup {"none"}
    PROVE  /\ client[c].pc \in StagePC
           /\ [run EXCEPT !.outcome = out] \in Session
           /\ [run EXCEPT !.outcome = out].status = run.status
           /\ Holding(c, [run EXCEPT !.outcome = out], log, s)
  <1> DEFINE q == [run EXCEPT !.outcome = out]
  <1>1. client[c].pc \in StagePC /\ run.outcome = "NOT_STARTED" /\ run \in Session
    BY OwnFacts, Loading DEF StagePC, LoadPC
  <1>2. q \in Session /\ q.status = run.status /\ q.context = run.context
    BY <1>1 DEF Session
  <1>. HIDE DEF q
  <1>3. Holding(c, q, log, s)
    BY <1>1, <1>2 DEF Holding
  <1>. QED BY <1>1, <1>2, <1>3 DEF q

(* The row the loader leaves is not one that waits. *)
LEMMA FinalHeld ==
    ASSUME NEW final \in {"COMMITTED", "QUARANTINED", "EXECUTING", "ROLLED_BACK", "CANCELLED",
                          "UNKNOWN"}, NEW s,
           s = IF final = "EXECUTING" THEN staging ELSE Written(final)
    PROVE  s = staging \/ s.status \notin Abandoned \cup {"none"}
  BY DEF Written, Abandoned

(* The loader raises, *)
LEMMA RaisedRelease ==
    ASSUME PipelineInv, CommitInv, ReleaseInv, NEW c \in Clients, NEW kind, NEW s,
           client[c].pc \in {"load", "writing"}, Raised(c, kind), UNCHANGED <<run, log>>,
           staging' = s, s = staging \/ s.status \notin Abandoned \cup {"none"}
    PROVE  ReleaseInv'
  <1> DEFINE o == client[c]
             k == [o EXCEPT !.pc = "raised", !.kind = kind]
  <1>1. /\ o \in Client /\ o = client[c] /\ Takes(c, k)
        /\ o.pc \in StagePC /\ "raised" \in StagePC
    BY OwnFacts DEF Raised, Become, Takes, StagePC
  <1>. HIDE DEF o
  <1>2. k.pc = "raised" /\ k.call = o.call /\ k.inside = o.inside /\ k.todo = o.todo
    BY <1>1 DEF Client
  <1>. HIDE DEF k
  <1>3. Holding(c, run', log', s)
    BY DEF Holding
  <1>. QED BY <1>1, <1>2, <1>3, InnerRelease

(* or answers. *)
LEMMA ReceivedRelease ==
    ASSUME PipelineInv, CommitInv, ReleaseInv, NEW c \in Clients, NEW rejected \in BOOLEAN,
           client[c].pc \in {"load", "writing"}, Received(c, rejected),
           staging' = staging \/ staging'.status \notin Abandoned \cup {"none"}
    PROVE  ReleaseInv'
  <1> DEFINE s == staging'
             o == client[c]
             k == [o EXCEPT !.pc = "complete"]
  <1>1. /\ o \in Client /\ run \in Session /\ log \in Log /\ o = client[c] /\ Takes(c, k)
        /\ o.pc \in StagePC /\ "complete" \in StagePC
    BY OwnFacts DEF Received, Become, Takes, StagePC
  <1>2. /\ run'.status = run.status /\ run'.outcome = "COMMITTED" /\ run'.context = run.context
    BY <1>1 DEF Received, Session
  <1>3. log' = log \/ log' = Noted({"REJECTED_RECORDS"})
    BY DEF Received
  <1>4. {"REJECTED_RECORDS"} \in SUBSET Note
    BY DEF Note
  <1>5. log.notes \subseteq log'.notes
    BY <1>1, <1>3, <1>4, NotedFields
  <1>6. Holding(c, run', log', s) /\ s = staging'
    BY <1>2, <1>5 DEF Holding
  <1>. HIDE DEF o, s
  <1>7. k.pc = "complete" /\ k.call = o.call /\ k.inside = o.inside /\ k.todo = o.todo
    BY <1>1 DEF Client
  <1>. HIDE DEF k
  <1>. QED BY <1>1, <1>2, <1>6, <1>7, InnerRelease

(* A staged run is not loose once the loader has claimed it and ended. *)
LEMMA LoaderRelease ==
    ASSUME PipelineInv, CommitInv, ReleaseInv, NEW c \in Clients, LoadStep(c)
    PROVE  ReleaseInv'
  <1>1. run \in Session /\ log \in Log /\ client[c] \in Client
    BY OwnFacts
  <1>2. ASSUME NEW final \in {"COMMITTED", "QUARANTINED", "EXECUTING", "ROLLED_BACK", "CANCELLED",
                              "UNKNOWN"},
               staging' = IF final = "EXECUTING" THEN staging ELSE Written(final)
        PROVE  staging' = staging \/ staging'.status \notin Abandoned \cup {"none"}
    BY <1>2, FinalHeld
  <1>3. CASE Claim(c)
    BY <1>3, OperationRelease
  <1>4. CASE Replay(c)
    <2>1. /\ client[c].pc \in {"load", "writing"} /\ Received(c, FALSE) /\ staging' = staging
      BY <1>4 DEF Replay
    <2>. QED BY <2>1, ReceivedRelease
  <1>5. ASSUME NEW out \in Outcome, NEW kind, Fail(c, [run EXCEPT !.outcome = out], client[c], kind),
               client[c].pc \in {"load", "writing", "raised"},
               staging' = staging \/ staging'.status \notin Abandoned \cup {"none"}
        PROVE  ReleaseInv'
    <2> DEFINE q == [run EXCEPT !.outcome = out]
               s == staging'
    <2>1. /\ q \in Session /\ q.status = run.status /\ client[c].pc \in StagePC
          /\ Holding(c, q, log, s)
      BY <1>5, LoaderHeld
    <2>2. Fail(c, q, client[c], kind) /\ staging' = s
      BY <1>5
    <2>. HIDE DEF q, s
    <2>. QED BY <2>1, <2>2, FailsRelease
  <1>6. CASE Consult(c)
    <2>1. OutcomeOf(staging.status) \in Outcome
      BY <1>1, RunTypes DEF OutcomeOf, Outcome
    <2>. HIDE DEF OutcomeOf
    <2>. QED BY <1>5, <1>6, <2>1 DEF Consult
  <1>7. CASE ConsultFails(c)
    <2> DEFINE goal == StatusAfter(client[c].kind, "UNKNOWN")
               q == [run EXCEPT !.outcome = "UNKNOWN"]
               l == Noted({"OUTCOME_UNAVAILABLE"})
    <2>1. /\ client[c].pc = "raised" /\ staging' = staging
          /\ EnterTerminal(c, q, client[c], goal, l, 1)
      BY <1>7 DEF ConsultFails
    <2>2. {"OUTCOME_UNAVAILABLE"} \in SUBSET Note /\ "UNKNOWN" \in Outcome
      BY DEF Note, Outcome
    <2>3. l \in Log /\ log.notes \subseteq l.notes
      BY <1>1, <2>2, NotedFields
    <2>4. q \in Session /\ q.status = run.status /\ q.context = run.context /\ q.outcome = "UNKNOWN"
      BY <1>1, <2>2 DEF Session
    <2>. HIDE DEF q, l, goal
    <2>5. Holding(c, q, l, staging) /\ ~Loose(q, l, staging)
      BY <2>3, <2>4 DEF Holding, Loose
    <2>6. Midway(c) /\ OrderPart(client[c])
      BY <2>1 DEF Midway, StagePC, ReleaseInv
    <2>. QED BY <1>1, <2>1, <2>3, <2>4, <2>5, <2>6, TerminalRelease
  <1>8. ASSUME NEW final \in {"COMMITTED", "QUARANTINED", "EXECUTING"}, Load(c, final)
        PROVE  ReleaseInv'
    <2>1. /\ client[c].pc = "writing"
          /\ staging' = IF final = "EXECUTING" THEN staging ELSE Written(final)
      BY <1>8 DEF Load
    <2>2. staging' = staging \/ staging'.status \notin Abandoned \cup {"none"}
      BY <1>2, <2>1
    <2>3. CASE Received(c, final = "QUARANTINED")
      BY <2>1, <2>2, <2>3, ReceivedRelease
    <2>4. CASE Fail(c, run, client[c], "unknown")
      <3>1. run.outcome \in Outcome /\ run = [run EXCEPT !.outcome = run.outcome]
        BY <1>1 DEF Session
      <3> DEFINE out == run.outcome
      <3>2. Fail(c, [run EXCEPT !.outcome = out], client[c], "unknown") /\ out \in Outcome
        BY <2>4, <3>1
      <3>. HIDE DEF out
      <3>. QED BY <1>5, <2>1, <2>2, <3>2
    <2>5. CASE Fail(c, [run EXCEPT !.outcome = "COMMITTED"], client[c], "error")
      <3>1. "COMMITTED" \in Outcome
        BY DEF Outcome
      <3>. QED BY <1>5, <2>1, <2>2, <2>5, <3>1
    <2>6. CASE (\E kind \in Kind \ {"unknown"} : Raised(c, kind)) /\ UNCHANGED <<run, log>>
      BY <2>1, <2>2, <2>6, RaisedRelease
    <2>. QED BY <1>8, <2>3, <2>4, <2>5, <2>6 DEF Load
  <1>9. ASSUME NEW kind, NEW final \in {"ROLLED_BACK", "EXECUTING", "CANCELLED"},
               RollBack(c, kind, final)
        PROVE  ReleaseInv'
    <2>1. staging' = staging \/ staging'.status \notin Abandoned \cup {"none"}
      BY <1>2, <1>9 DEF RollBack
    <2>. QED BY <1>9, <2>1, RaisedRelease DEF RollBack
  <1>10. ASSUME NEW final \in {"UNKNOWN", "EXECUTING"}, LoadUnknown(c, final) PROVE ReleaseInv'
    <2>1. staging' = staging \/ staging'.status \notin Abandoned \cup {"none"}
      BY <1>2, <1>10 DEF LoadUnknown
    <2>. QED BY <1>10, <2>1, RaisedRelease DEF LoadUnknown
  <1>. QED BY <1>3, <1>4, <1>6, <1>7, <1>8, <1>9, <1>10 DEF LoadStep

(* The end of a stage. *)
LEMMA AdvanceRelease ==
    ASSUME PipelineInv, CommitInv, ReleaseInv, NEW c \in Clients, NEW l \in Log,
           client[c].pc = "complete", log.notes \subseteq l.notes,
           Advance(c, l), staging' = staging
    PROVE  ReleaseInv'
  <1> DEFINE o == client[c]
             left == Tail(o.todo)
             free == [run EXCEPT !.busy = FALSE]
             on == [o EXCEPT !.todo = left]
             out == [o EXCEPT !.todo = left, !.inside = FALSE]
             goal == IF l.notes # {} THEN "COMPLETED_WITH_WARNINGS" ELSE "COMPLETED"
  <1>1. /\ o \in Client /\ TodoPart(o) /\ run \in Session /\ o.pc = "complete" /\ o = client[c]
        /\ o.inside /\ o.todo # <<>> /\ LoadPart(o, run, staging, target) /\ Midway(c)
        /\ OrderPart(o) /\ run.status \in {Head(o.todo)} \cup Terminal
    BY OwnFacts DEF StagePart, StagePC, Midway, ReleaseInv
  <1>2. /\ 1 \in DOMAIN o.todo /\ Head(o.todo) = o.todo[1] /\ left \in Seq(Stage)
        /\ left = <<>> => Len(o.todo) = 1
    BY <1>1, FirstStage
  <1>3. \/ left # <<>> /\ EnterStage(c, run, on)
        \/ left = <<>> /\ o.call = "execute" /\ EnterTerminal(c, free, out, goal, l, 0)
        \/ /\ left = <<>> /\ o.call # "execute" /\ run' = free
           /\ Takes(c, [out EXCEPT !.pc = "idle"]) /\ log' = log
    BY DEF Advance, Become, Takes
  <1>4. left = <<>> /\ o.call = "execute" => run.outcome # "NOT_STARTED"
    BY <1>1, <1>2 DEF TodoPart, LoadPart
  <1>5. on \in Client /\ on.call = o.call /\ on.inside = o.inside /\ on.todo = left
    <2>. HIDE DEF o, left
    <2>. QED BY <1>1, <1>2 DEF Client
  <1>6. OrderPart(on) /\ OrderPart(out)
    <2>1. out.call = o.call /\ out.todo = left
      BY <1>1 DEF Client
    <2>. HIDE DEF on, out, o
    <2>2. on.todo = Tail(o.todo) /\ out.todo = Tail(o.todo)
      BY <1>5, <2>1
    <2>. QED BY <1>1, <1>5, <2>1, <2>2, TailOrder
  <1>7. /\ free \in Session /\ free.status = run.status /\ free.outcome = run.outcome
        /\ free.context = run.context
    BY <1>1 DEF Session
  <1>8. CASE left # <<>> /\ EnterStage(c, run, on)
    <2>1. Keeper(client[c], run) /\ Loose(run, log, staging) =>
             on.inside /\ on.call = "execute" /\ ~Rechecks(on.call, Head(on.todo))
      <3> SUFFICES ASSUME Keeper(client[c], run), Loose(run, log, staging)
                   PROVE  on.inside /\ on.call = "execute" /\ ~Rechecks(on.call, Head(on.todo))
        OBVIOUS
      <3>1. run.status \in {"STAGING", "LOADING"} /\ run.status \notin Terminal
        BY <1>1, HeldStatus DEF Loose
      <3>2. o.call = "execute" /\ Head(o.todo) = run.status
        BY <1>1, <3>1 DEF Keeper
      <3>3. 2 \in DOMAIN o.todo /\ Head(left) = o.todo[2]
        <4>1. \A i \in DOMAIN left : i + 1 \in DOMAIN o.todo /\ left[i] = o.todo[i + 1]
          BY <1>1, FirstStage
        <4>2. 1 \in DOMAIN left /\ Head(left) = left[1]
          <5>. HIDE DEF left
          <5>. QED BY <1>2, <1>8
        <4>. QED BY <4>1, <4>2
      <3>4. Head(o.todo) # "LOADING"
        <4>1. Len(o.todo) \in Nat /\ DOMAIN o.todo = 1..Len(o.todo)
          <5>1. o.todo \in Seq(Stage)
            BY <1>1 DEF Client
          <5>. HIDE DEF o
          <5>. QED BY <5>1
        <4>2. Len(o.todo) # 1
          BY <3>3, <4>1
        <4>. QED BY <1>1, <1>2, <3>2, <4>2 DEF TodoPart
      <3>5. Head(left) # "DATABASE_INSPECTING"
        BY <1>1, <1>2, <3>1, <3>2, <3>3, <3>4 DEF OrderPart
      <3>. QED BY <1>1, <1>5, <3>2, <3>5 DEF Rechecks
    <2>. HIDE DEF on
    <2>. QED BY <1>1, <1>5, <1>6, <1>8, <2>1, SameHeld, StageRelease
  <1>9. CASE left = <<>> /\ o.call = "execute" /\ EnterTerminal(c, free, out, goal, l, 0)
    <2>1. out \in Client
      <3>. HIDE DEF o, left
      <3>. QED BY <1>1, <1>2 DEF Client
    <2>. HIDE DEF free, out, goal
    <2>2. Holding(c, free, l, staging) /\ ~Loose(free, l, staging)
      BY <1>4, <1>7, <1>9 DEF Holding, Loose
    <2>. QED BY <1>1, <1>6, <1>7, <1>9, <2>1, <2>2, TerminalRelease
  <1>10. CASE /\ left = <<>> /\ o.call # "execute" /\ run' = free
              /\ Takes(c, [out EXCEPT !.pc = "idle"]) /\ log' = log
    <2> DEFINE k == [out EXCEPT !.pc = "idle"]
    <2>1. k.call = o.call
      BY <1>1 DEF Client
    <2>2. Takes(c, k)
      BY <1>10
    <2>. HIDE DEF k, free
    <2>3. OrderPart(k) /\ ~Keeper(client[c], run)
      BY <1>1, <1>10, <2>1 DEF OrderPart, Keeper
    <2>. QED BY <1>7, <1>10, <2>2, <2>3, SameHeld, ReleaseMoved
  <1>. QED BY <1>3, <1>8, <1>9, <1>10

(* The end of a stage, and what stops the call after it. *)
LEMMA CompleteRelease ==
    ASSUME PipelineInv, CommitInv, ReleaseInv, NEW c \in Clients,
           Complete(c) \/ StopBetween(c) \/ \E kind \in Kind : CompleteFails(c, kind)
    PROVE  ReleaseInv'
  <1>1. /\ client[c].pc = "complete" /\ client[c].pc \in StagePC /\ staging' = staging
        /\ client[c] \in Client /\ log \in Log /\ run \in Session
    BY OwnFacts DEF Complete, StopBetween, CompleteFails, StagePC
  <1>2. CASE Complete(c)
    BY <1>1, <1>2, AdvanceRelease DEF Complete
  <1>3. ASSUME NEW kind \in Kind, CompleteFails(c, kind) PROVE ReleaseInv'
    <2> DEFINE l == Noted({"HOOK_FAILED_AFTER_COMMIT"})
    <2>1. Advance(c, l) \/ Fail(c, run, client[c], kind)
      BY <1>3 DEF CompleteFails
    <2>2. {"HOOK_FAILED_AFTER_COMMIT"} \in SUBSET Note
      BY DEF Note
    <2>3. l \in Log /\ log.notes \subseteq l.notes
      BY <1>1, <2>2, NotedFields
    <2>. HIDE DEF l
    <2>. QED BY <1>1, <2>1, <2>3, AdvanceRelease, SameHeld, FailsRelease
  <1>4. CASE StopBetween(c)
    <2> DEFINE o == client[c]
               free == [run EXCEPT !.busy = FALSE]
               out == [o EXCEPT !.inside = FALSE]
    <2>1. /\ EnterTerminal(c, free, out, "NEEDS_REVIEW", log, 1) /\ o = client[c]
          /\ MayStop(o.call, Head(o.todo), c \in Disputes) /\ OrderPart(o) /\ Midway(c)
          /\ run.status \in {Head(o.todo)} \cup Terminal
      BY <1>1, <1>4, OwnFacts DEF StopBetween, ReleaseInv, Midway, StagePart, StagePC
    <2>2. o.call = "execute" => Head(o.todo) \notin {"STAGING", "LOADING"}
      BY <2>1 DEF MayStop, ComparedWith
    <2>3. ~(Keeper(client[c], run) /\ Loose(run, log, staging))
      BY <1>1, <2>1, <2>2, HeldStatus DEF Loose, Keeper
    <2>. HIDE DEF o
    <2>4. out \in Client /\ out.call = o.call /\ out.todo = o.todo
      BY <1>1, <2>1 DEF Client
    <2>5. /\ free \in Session /\ free.status = run.status /\ free.outcome = run.outcome
          /\ free.context = run.context
      BY <1>1 DEF Session
    <2>. HIDE DEF out, free
    <2>6. OrderPart(out) /\ Holding(c, free, log, staging)
      BY <2>1, <2>4, <2>5, SameHeld DEF OrderPart
    <2>7. ~(Keeper(client[c], run) /\ Loose(free, log, staging))
      BY <2>3, <2>5 DEF Loose
    <2>. QED BY <1>1, <2>1, <2>4, <2>5, <2>6, <2>7, TerminalRelease
  <1>. QED BY <1>2, <1>3, <1>4

-----------------------------
(* The end of a run releases what is staged. *)

(* A run that ends with nothing loose. *)
LEMMA FinishRelease ==
    ASSUME PipelineInv, CommitInv, ReleaseInv, NEW c \in Clients, NEW r \in Session, NEW l, NEW s,
           NEW cut, Finish(c, r, cut), log' = l, staging' = s, Holding(c, r, l, s),
           r.status \in Terminal, ~Loose(r, l, s)
    PROVE  ReleaseInv'
  <1>1. CASE Leave(c, r)
    BY <1>1, LeaveRelease
  <1>2. CASE Leave(c, [r EXCEPT !.status = "CANCELLED"])
    <2> DEFINE z == [r EXCEPT !.status = "CANCELLED"]
    <2>1. z \in Session /\ z.status \in Terminal /\ z.outcome = r.outcome /\ z.context = r.context
      BY DEF Session, Terminal
    <2>2. Leave(c, z)
      BY <1>2
    <2>. HIDE DEF z
    <2>3. Holding(c, z, l, s) /\ ~Loose(z, l, s)
      BY <2>1 DEF Holding, Loose
    <2>. QED BY <2>1, <2>2, <2>3, LeaveRelease
  <1>. QED BY <1>1, <1>2 DEF Finish

(* terminal cleans up whenever there is something to give up. *)
LEMMA SetStatusRelease ==
    ASSUME PipelineInv, CommitInv, ReleaseInv, NEW c \in Clients, NEW goal \in Terminal, NEW cut,
           NEW l, log' = l, staging' = staging, log.notes \subseteq l.notes,
           client[c].pc \in {"sign", "tell"}, SetStatus(c, goal, cut)
    PROVE  ReleaseInv'
  <1> DEFINE o == client[c]
             q == [run EXCEPT !.status = goal]
             k == [o EXCEPT !.pc = "read", !.goal = goal, !.cut = cut]
  <1>1. o \in Client /\ run \in Session /\ o = client[c] /\ OrderPart(o)
    BY OwnFacts DEF ReleaseInv
  <1>2. \/ run' = q /\ Takes(c, k)
        \/ ~CleanupDue(q) /\ Finish(c, q, cut)
    BY DEF SetStatus, Become, Takes
  <1>. HIDE DEF o
  <1>3. q \in Session /\ q.status = goal /\ q.outcome = run.outcome /\ q.context = run.context
    BY <1>1 DEF Session
  <1>. HIDE DEF q
  <1>4. Holding(c, q, l, staging)
    BY <1>3 DEF Holding
  <1>5. CASE run' = q /\ Takes(c, k)
    <2>1. k.pc = "read" /\ k.call = o.call /\ k.inside = o.inside /\ k.todo = o.todo
      BY <1>1 DEF Client
    <2>. HIDE DEF k
    <2>2. OrderPart(k)
      BY <1>1, <2>1 DEF OrderPart
    <2>3. Keeper(client[c], run) => Keeper(k, q)
      BY <1>1, <1>3, <2>1 DEF Keeper
    <2>. QED BY <1>4, <1>5, <2>2, <2>3, ReleaseMoved
  <1>6. CASE ~CleanupDue(q) /\ Finish(c, q, cut)
    <2>1. ~Loose(q, l, staging)
      BY <1>6 DEF CleanupDue, Loose
    <2>. QED BY <1>3, <1>4, <1>6, <2>1, FinishRelease
  <1>. QED BY <1>2, <1>5, <1>6

(* The steps of terminal. *)
LEMMA EndRelease ==
    ASSUME PipelineInv, CommitInv, ReleaseInv, NEW c \in Clients, TerminalStep(c)
    PROVE  ReleaseInv'
  <1>1. /\ client[c] \in Client /\ run \in Session /\ log \in Log
        /\ OrderPart(client[c]) /\ EndPart(client[c], run)
    BY OwnFacts DEF ReleaseInv
  <1>2. CASE Sign(c)
    <2> DEFINE o == client[c]
               k == [o EXCEPT !.pc = "tell"]
    <2>1. /\ Takes(c, k) /\ run' = run /\ staging' = staging /\ o = client[c] /\ o.pc = "sign"
          /\ log' = [log EXCEPT !.finished = Append(@, client[c].goal)]
      BY <1>2 DEF Sign, Become, Takes
    <2>2. log'.notes = log.notes
      BY <1>1, <2>1 DEF Log
    <2>. HIDE DEF o
    <2>3. k.pc = "tell" /\ k.call = o.call /\ k.inside = o.inside /\ k.todo = o.todo
      BY <1>1, <2>1 DEF Client
    <2>. HIDE DEF k
    <2>4. OrderPart(k) /\ Holding(c, run, log', staging)
      BY <1>1, <2>1, <2>2, <2>3 DEF OrderPart, Holding
    <2>5. Keeper(client[c], run) => Keeper(k, run)
      BY <2>1, <2>3 DEF Keeper
    <2> DEFINE l == log'
    <2>6. log' = l /\ Holding(c, run, l, staging)
      BY <2>4
    <2>. HIDE DEF l
    <2>. QED BY <2>1, <2>4, <2>5, <2>6, ReleaseMoved
  <1>3. CASE Tell(c)
    <2>1. /\ client[c].pc = "tell" /\ SetStatus(c, client[c].goal, FALSE)
          /\ log' = log /\ staging' = staging /\ client[c].goal \in Terminal
      BY <1>1, <1>3 DEF Tell, EndPart
    <2>. QED BY <2>1, SetStatusRelease
  <1>4. ASSUME NEW cut \in BOOLEAN, Gap(c, cut) PROVE ReleaseInv'
    <2> DEFINE goal == GoalAfterGap(client[c].goal, cut)
               n == IF ~cut /\ goal # client[c].goal /\ goal = "FAILED" THEN 1 ELSE 0
               l == [log EXCEPT !.notes = @ \cup GapNote, !.errors = @ + n]
    <2>1. /\ client[c].pc \in {"sign", "tell"} /\ SetStatus(c, goal, cut)
          /\ log' = l /\ staging' = staging
      BY <1>4 DEF Gap
    <2>2. goal \in Terminal
      BY <1>1, <2>1 DEF EndPart, GoalAfterGap, Terminal
    <2>. HIDE DEF goal, n
    <2>3. log.notes \subseteq l.notes
      BY <1>1 DEF Log
    <2>. HIDE DEF l
    <2>. QED BY <2>1, <2>2, <2>3, SetStatusRelease
  <1>5. ASSUME client[c].pc \in {"read", "move"} PROVE run.status \in Terminal
    BY <1>1, <1>5 DEF EndPart
  <1>6. CASE Read(c)
    <2> DEFINE o == client[c]
               k == [o EXCEPT !.pc = "move", !.seen = staging]
    <2>1. /\ o.pc = "read" /\ o = client[c] /\ log' = log /\ staging' = staging
          /\ \/ Takes(c, k) /\ run' = run
             \/ staging.status \notin Abandoned /\ Finish(c, run, client[c].cut)
      BY <1>6 DEF Read, Become, Takes
    <2>2. CASE Takes(c, k) /\ run' = run
      <3>. HIDE DEF o
      <3>1. k.pc = "move" /\ k.call = o.call /\ k.inside = o.inside /\ k.todo = o.todo
        BY <1>1, <2>1 DEF Client
      <3>. HIDE DEF k
      <3>2. OrderPart(k) /\ (Keeper(client[c], run) => Keeper(k, run))
        BY <1>1, <1>5, <2>1, <3>1 DEF OrderPart, Keeper
      <3>. QED BY <2>1, <2>2, <3>2, SameHeld, ReleaseMoved
    <2>3. CASE staging.status \notin Abandoned /\ Finish(c, run, client[c].cut)
      <3>1. ~Loose(run, log, staging) /\ run.status \in Terminal
        BY <1>5, <2>1, <2>3 DEF Loose
      <3>. QED BY <1>1, <2>1, <2>3, <3>1, SameHeld, FinishRelease
    <2>. QED BY <2>1, <2>2, <2>3
  <1>7. GivenUp(client[c].seen).status \in {"CANCELLED", "FAILED"}
    BY <1>1, GivenUpType DEF Client
  <1>8. CASE Move(c)
    <2> DEFINE s == GivenUp(client[c].seen)
    <2>1. /\ client[c].pc = "move" /\ log' = log /\ staging' = s
          /\ Finish(c, run, client[c].cut)
      BY <1>8 DEF Move
    <2>2. s.status \in {"CANCELLED", "FAILED"}
      BY <1>7
    <2>. HIDE DEF s
    <2>3. Holding(c, run, log, s) /\ ~Loose(run, log, s)
      BY <2>2 DEF Holding, Loose, Abandoned
    <2>. QED BY <1>1, <1>5, <2>1, <2>3, FinishRelease
  <1>9. ASSUME NEW cut \in BOOLEAN, CleanupFails(c, cut) PROVE ReleaseInv'
    <2> DEFINE s == staging'
               l == Noted({"CLEANUP_FAILED"})
    <2>1. /\ client[c].pc \in {"read", "move"} /\ log' = l /\ staging' = s
          /\ Finish(c, run, client[c].cut \/ cut)
          /\ s = staging \/ s = GivenUp(client[c].seen)
      BY <1>9 DEF CleanupFails
    <2>2. {"CLEANUP_FAILED"} \in SUBSET Note
      BY DEF Note
    <2>3. l.notes = log.notes \cup {"CLEANUP_FAILED"}
      BY <1>1, <2>2, NotedFields
    <2>. HIDE DEF s, l
    <2>4. Holding(c, run, l, s) /\ ~Loose(run, l, s)
      BY <1>7, <2>1, <2>3 DEF Holding, Loose, Abandoned
    <2>. QED BY <1>1, <1>5, <2>1, <2>4, FinishRelease
  <1>. QED BY <1>2, <1>3, <1>4, <1>6, <1>8, <1>9 DEF TerminalStep

(* The task that closes the lease only gives up. *)
LEMMA CloserRelease ==
    ASSUME PipelineInv, ReleaseInv, CloseStep
    PROVE  ReleaseInv'
  <1>1. client' = client /\ run \in Session /\ log \in Log /\ closer.seen \in StagingRow
    BY DEF CloseStep, Close, CloseRead, CloseMove, CloseFails, CloseCancelled, Closed,
           PipelineInv, Base, WholePart, ClosePart, Closer
  <1>2. /\ run'.outcome = run.outcome /\ run'.context = run.context
        /\ \/ run'.status = run.status
           \/ run'.status \in Terminal /\ run.status \in Terminal
           \/ run'.status \in Terminal /\ run.outcome = "COMMITTED"
        /\ log.notes \subseteq log'.notes
    <2>1. CASE Closed
      <3> DEFINE kept == closer.cut /\ run.outcome = "COMMITTED"
                 x == IF kept \/ (closer.failed /\ run.status = "COMPLETED")
                      THEN "COMPLETED_WITH_WARNINGS" ELSE run.status
                 q == [run EXCEPT !.closed = TRUE, !.status = x]
                 n == (IF closer.failed THEN {"CLEANUP_FAILED"} ELSE {})
                          \cup (IF kept THEN {"CANCELLED_AFTER_COMMIT"} ELSE {})
      <3>1. run' = q /\ log' = Noted(n)
        BY <2>1 DEF Closed
      <3>2. n \in SUBSET Note
        BY DEF Note
      <3>. HIDE DEF n
      <3>3. log.notes \subseteq log'.notes
        BY <1>1, <3>1, <3>2, NotedFields
      <3>4. \/ x = run.status
            \/ x \in Terminal /\ run.status \in Terminal
            \/ x \in Terminal /\ run.outcome = "COMMITTED"
        BY DEF Terminal
      <3>. HIDE DEF x
      <3>5. q.status = x /\ q.outcome = run.outcome /\ q.context = run.context
        BY <1>1 DEF Session
      <3>. QED BY <3>1, <3>3, <3>4, <3>5
    <2>2. CASE Close \/ CloseRead \/ CloseMove \/ CloseFails \/ CloseCancelled
      BY <2>2 DEF Close, CloseRead, CloseMove, CloseFails, CloseCancelled
    <2>. QED BY <2>1, <2>2 DEF CloseStep
  <1>3. staging' = staging \/ staging' = GivenUp(closer.seen)
    BY DEF CloseStep, Close, CloseRead, CloseMove, CloseFails, CloseCancelled, Closed
  <1>4. /\ staging'.status = "none" => staging.status = "none"
        /\ staging'.status \in Abandoned => staging.status \in Abandoned
    BY <1>1, <1>3, GivenUpType DEF Abandoned
  <1>5. (\A c \in Clients : OrderPart(client[c]))'
    BY <1>1 DEF ReleaseInv, OrderPart
  <1>6. run'.context => run'.status \in {"STAGING", "LOADING"} \cup Terminal /\ staging'.status # "none"
    BY <1>2, <1>4 DEF ReleaseInv
  <1>7. ASSUME Loose(run', log', staging') PROVE \E c \in Clients : Keeper(client'[c], run')
    <2>1. Loose(run, log, staging)
      BY <1>2, <1>4, <1>7 DEF Loose
    <2>2. PICK c \in Clients : Keeper(client[c], run)
      BY <2>1 DEF ReleaseInv
    <2>3. run'.status \in Terminal <=> run.status \in Terminal
      BY <1>2, <2>1 DEF Loose
    <2>4. Keeper(client[c], run')
      BY <2>2, <2>3 DEF Keeper
    <2>. QED BY <1>1, <2>4
  <1>. QED BY <1>5, <1>6, <1>7 DEF ReleaseInv, Loose, Keeper

(* A new session has staged nothing, *)
LEMMA InitRelease == Init => ReleaseInv
  <1> SUFFICES ASSUME Init PROVE ReleaseInv
    OBVIOUS
  <1>1. ~run.context /\ \A c \in Clients : client[c].call = "none"
    BY DEF Init
  <1>. QED BY <1>1 DEF ReleaseInv, OrderPart, Loose

(* and every step keeps a keeper of what is staged. *)
LEMMA NextRelease ==
    ASSUME PipelineInv, CommitInv, EndInv, ReleaseInv, [Next]_vars
    PROVE  ReleaseInv'
  <1>1. CASE UNCHANGED vars
    BY <1>1 DEF vars, ReleaseInv, OrderPart, Loose, Keeper
  <1>2. CASE CloseStep
    BY <1>2, CloserRelease
  <1>3. ASSUME NEW c \in Clients, Perform(c) PROVE ReleaseInv'
    <2>1. CASE Call(c) \/ Dispute(c) \/ Stop(c) \/ First(c)
      BY <2>1, CallRelease, DisputeRelease, BetweenRelease
    <2>2. CASE Announced(c) \/ Work(c) \/ Begin(c) \/ Fill(c) \/ Seal(c)
      BY <2>2, OperationRelease, BeginRelease
    <2>3. CASE StopInside(c)
      BY <2>3, StopInsideRelease
    <2>4. ASSUME NEW kind \in Kind, LostWrite(c, kind) \/ Fails(c, kind) PROVE ReleaseInv'
      BY <2>4, StagingRelease
    <2>5. ASSUME NEW kind \in Kind, LoadRefused(c, kind) PROVE ReleaseInv'
      BY <2>5, RaisedRelease DEF LoadRefused
    <2>6. CASE Complete(c) \/ StopBetween(c) \/ \E kind \in Kind : CompleteFails(c, kind)
      BY <2>6, CompleteRelease
    <2>. QED BY <1>3, <2>1, <2>2, <2>3, <2>4, <2>5, <2>6 DEF Perform
  <1>4. ASSUME NEW c \in Clients, Step(c) PROVE ReleaseInv'
    BY <1>3, <1>4, LoaderRelease, EndRelease DEF Step
  <1>. QED BY <1>1, <1>2, <1>4 DEF Next

(* What the caller is told of the end of a run is true: the last event and  *)
(* the status agree or a warning says why not, COMPLETED means that nothing *)
(* went wrong, and what was staged and never came to the loader is given up *)
(* or a warning says that it could not be (RunSession.terminal,             *)
(* cleanup_staging, RunSession.aclose).  It needs clients that do not stop  *)
(* the run from outside perform while another one executes.                 *)
THEOREM EndTruth ==
    ASSUME Undisturbed
    PROVE  Spec => []EndIsTrue
  <1>1. PipelineInv /\ CommitInv /\ [Next]_vars => CommitInv'
    BY NextCommit
  <1>2. PipelineInv /\ EndInv /\ [Next]_vars => EndInv'
    BY NextEnd
  <1>3. PipelineInv /\ CommitInv /\ EndInv /\ ReleaseInv /\ [Next]_vars => ReleaseInv'
    BY NextRelease
  <1>4. ReleaseInv => StagedIsReleased
    BY DEF ReleaseInv, Loose, Keeper, StagedIsReleased, Ended, InTerminal, Abandoned
  <1>5. EndIsReported /\ CompletedIsClean /\ ReleaseInv => EndIsTrue
    BY <1>4 DEF EndIsTrue
  <1>. QED BY <1>1, <1>2, <1>3, <1>5, InitCommit, InitEnd, InitRelease, PipelineInvariant, EndTold,
              PTL DEF Spec
=============================================================================
