---------------------------- MODULE ParserStream ----------------------------
(***************************************************************************)
(* ValidatedParserStream of parsers/execution.py inside the sessions of    *)
(* parsers/registry.py: what a stream lets through, who may close it, and  *)
(* when the registry may change again.  asyncio runs one task at a time,   *)
(* so a step is what happens between two awaits; registration comes from   *)
(* other threads.                                                          *)
(***************************************************************************)
EXTENDS Extraction, SequencesExt

CONSTANTS
    Sessions, Streams,      \* a stream stands for the task that reads it
    Homes,                  \* possible maps from Streams to Sessions
    Registrars,             \* threads that register or discover
    Offers,                 \* what they bring: sets of [id, object, target, plugin]
    SourceRef, ParserRef,   \* the source and parser a stream was made for
    Emits(_),               \* batches a parser may yield after those accepted
    Failures,               \* how an iterator may fail
    MaxRecords, MaxObjects, MaxBatches, MaxRefs,
    WithClosers             \* the streams somebody else may close, too

ASSUME StreamAssumption ==
    /\ Homes \subseteq [Streams -> Sessions]
    /\ Missing \notin {"reader", "closer", "session", "cancelled", "exhausted"}
    /\ "exhausted" \notin Failures

VARIABLES
    home,        \* the session of a stream
    parsers,     \* ParserRegistry._state.parsers and .plugins, together
    sessions,    \* [phase, frozen, cleanup, selecting]
    holds,       \* sessions whose lease is counted in _active_sessions
    st,          \* the streams
    reader, closer,     \* the task that reads a stream, one that calls aclose
    registrar

streamVars == <<home, parsers, sessions, holds, st, reader, closer, registrar>>

NewStream ==
    [tracked |-> FALSE, closing |-> FALSE, closed |-> FALSE, completed |-> FALSE,
     lock |-> Missing, terminal |-> FALSE, extraction |-> Missing, prints |-> {},
     refs |-> <<>>, keys |-> {}, sums |-> <<>>, tables |-> <<>>, trees |-> <<>>,
     records |-> 0, objects |-> 0, accepted |-> <<>>]

(* Two of one offer that are the same parser, or come from the same place. *)
Doubled(p, offer) ==
    \E q \in offer \ {p} : q.id = p.id \/ (IF p.plugin THEN q.target = p.target ELSE q.object = p.object)

(* A registry holds what an offer brought that it took in as a whole. *)
StreamInit ==
    /\ home \in Homes
    /\ parsers \in Offers /\ (\A p \in parsers : ~Doubled(p, parsers)) /\ holds = {}
    /\ sessions = [s \in Sessions |->
                     [phase |-> "new", frozen |-> {}, cleanup |-> {}, selecting |-> Missing]]
    /\ st = [x \in Streams |-> NewStream]
    /\ reader = [x \in Streams |-> [pc |-> "new", why |-> Missing]]
    /\ closer = [x \in Streams |-> "idle"]
    /\ registrar = [r \in Registrars |-> [pc |-> "idle", offer |-> {}]]

-----------------------------
(* What a batch has to satisfy. *)

(* _preflight_counts: the first limit a batch would break. The records it   *)
(* states come before what is counted in it, those it does not state after. *)
Counted(b) == IF b.records # Missing THEN b.records
              ELSE IF RefKeys(b) = <<>> THEN 1 ELSE Len(RefKeys(b))

LimitBroken(x, b) ==
    LET tooMany == st[x].records + Counted(b) > MaxRecords
    IN  IF Len(st[x].sums) >= MaxBatches THEN "batches"
        ELSE IF tooMany /\ b.records # Missing THEN "records"
        ELSE IF st[x].objects + Len(RefKeys(b)) > MaxObjects THEN "objects"
        ELSE IF tooMany THEN "records"
        ELSE "none"

(* The index of references, looked at once the batch itself is in order. *)
RefsOverflow(x, b) == b.version = "1.1" /\ Len(st[x].refs) + Len(b.refs) > MaxRefs
RefsAreNew(x, b) ==
    b.version = "1.1" =>
        {b.refs[i] : i \in DOMAIN b.refs} \cap {st[x].refs[i] : i \in DOMAIN st[x].refs} = {}

(* Segments so far: [id, next, row, closed, kind]; the last entry of an id  *)
(* counts.                                                                  *)
PlacesOf(known, id) == {i \in DOMAIN known : known[i].id = id}

(* Slip: what is closed may go on. *)
FollowsOn_Reopened(known, new) ==
    LET places == PlacesOf(known, new.id)
        old    == known[Max(places)]
    IN  IF places = {} THEN new.segment = 0 /\ (new.kind # "table" => new.from = 0)
        ELSE new.segment = old.next /\ new.from = old.row /\ new.kind = old.kind

FollowsOn(known, new) ==
    LET places == PlacesOf(known, new.id)
        old    == known[Max(places)]
    IN  IF places = {} THEN new.segment = 0 /\ (new.kind # "table" => new.from = 0)
        ELSE ~old.closed /\ new.segment = old.next /\ new.from = old.row /\ new.kind = old.kind

Entry(new) == [id |-> new.id, next |-> new.segment + 1, row |-> new.upto,
               closed |-> new.last, kind |-> new.kind]

(* _validate_table_segments and _validate_tree_segments: every segment      *)
(* takes up where the one before it of its table or tree left off.          *)
WithSegments(known, news) ==
    [ok |-> \A i \in DOMAIN news : news[i].id # Missing =>
              FollowsOn(known \o [k \in 1..(i - 1) |-> Entry(news[k])], news[i]),
     known |-> known \o [k \in DOMAIN news |-> Entry(news[k])]]

TablesAfter(x, b) == WithSegments(st[x].tables, TableSegments(b))
TreesAfter(x, b) == WithSegments(st[x].trees, TreeSegments(b))

AllClosed(known) ==
    \A i \in DOMAIN known : known[i].id # Missing => known[Max(PlacesOf(known, known[i].id))].closed

(* _validate_batch: the run, the parser, the order, the fingerprints. *)
BatchBelongs(x, b) ==
    /\ BatchFits(b)
    /\ b.source = SourceRef /\ b.parser = ParserRef
    /\ b.index = Len(st[x].sums)
    /\ b.print \notin st[x].prints
    /\ b.version = "1.1" => b.genuine
    /\ st[x].extraction \in {Missing, b.extraction}
    /\ TablesAfter(x, b).ok /\ TreesAfter(x, b).ok

Taken(x, b) ==
    [st[x] EXCEPT !.sums = Append(@, SummaryOf(b)), !.prints = @ \cup {b.print},
                  !.extraction = b.extraction, !.accepted = Append(@, b),
                  !.refs = IF b.version = "1.1" THEN @ \o b.refs ELSE @,
                  !.keys = @ \cup IF b.version = "1.1" THEN {b.refs[i] : i \in DOMAIN b.refs}
                                  ELSE RefsOf(b),
                  !.tables = TablesAfter(x, b).known, !.trees = TreesAfter(x, b).known,
                  !.records = @ + Counted(b), !.objects = @ + Len(RefKeys(b)),
                  !.terminal = b.last]

(* The manifest of the last batch against everything that came before. *)
ManifestClosesIt(s, b) ==
    LET index == b.manifest.index
    IN  /\ b.manifest.sums = s.sums
        /\ IF b.version = "1.1" THEN index = s.refs
           ELSE {index[i] : i \in DOMAIN index} \subseteq s.keys
        /\ AllClosed(s.tables) /\ AllClosed(s.trees)

-----------------------------
(* The registry. *)

IdsOf(offer) == {p.id : p \in offer}

(* register_many, discover_plugins: nothing while a session is open; then   *)
(* the candidates are inspected, which runs code of their own.              *)
RegistrarLooks(r, offer) ==
    /\ registrar[r].pc = "idle"
    /\ registrar' = [registrar EXCEPT ![r] =
          IF holds # {} THEN [pc |-> "frozen", offer |-> {}]
          ELSE [pc |-> "inspecting", offer |-> offer]]
    /\ UNCHANGED <<home, parsers, sessions, holds, st, reader, closer>>

MayCommit == holds = {}

(* What would be there twice refuses the whole registration; a plugin that  *)
(* is there already, or was found twice, is left out by itself.             *)
Clashes(p) ==
    \/ p.id \in IdsOf(parsers)
    \/ ~p.plugin /\ \E q \in parsers : q.object = p.object /\ ~q.plugin
    \/ \E q \in parsers : q.target = p.target /\ (q.plugin \/ p.plugin)

RegistrarCommits(r) ==
    /\ registrar[r].pc = "inspecting"
    /\ LET offer == registrar[r].offer
           twice == {p \in offer : Clashes(p) \/ Doubled(p, offer)}
           done  == MayCommit /\ (twice = {} \/ \A p \in offer : p.plugin)
       IN  /\ parsers' = IF done THEN parsers \cup (offer \ twice) ELSE parsers
           /\ registrar' = [registrar EXCEPT ![r] =
                 [pc |-> IF done THEN "idle" ELSE "refused", offer |-> {}]]
    /\ UNCHANGED <<home, sessions, holds, st, reader, closer>>

-----------------------------
(* Sessions. *)

EnterSession(s) ==
    /\ sessions[s].phase = "new"
    /\ holds' = holds \cup {s}
    /\ sessions' = [sessions EXCEPT ![s].phase = "open",
                                    ![s].frozen = {p \in parsers : ~p.plugin}]
    /\ UNCHANGED <<home, parsers, st, reader, closer, registrar>>

(* select holds the selection lock over the probes of all parsers. *)
SelectStarts(x) ==
    LET s == home[x]
    IN  /\ reader[x].pc = "new"
        /\ IF sessions[s].phase = "open"
             THEN /\ sessions[s].selecting = Missing
                  /\ sessions' = [sessions EXCEPT ![s].selecting = x]
                  /\ reader' = [reader EXCEPT ![x].pc = "selecting"]
             ELSE /\ reader' = [reader EXCEPT ![x] = [pc |-> "ended", why |-> "session_closed"]]
                  /\ UNCHANGED sessions
        /\ sessions[s].phase # "new"
        /\ UNCHANGED <<home, parsers, holds, st, closer, registrar>>

SelectEnds(x, found) ==
    /\ reader[x].pc = "selecting"
    /\ sessions' = [sessions EXCEPT ![home[x]].selecting = Missing]
    /\ reader' = [reader EXCEPT ![x] =
          IF found /\ sessions[home[x]].phase = "open" THEN [pc |-> "selected", why |-> Missing]
          ELSE [pc |-> "ended", why |-> IF found THEN "session_closed" ELSE "not_selected"]]
    /\ UNCHANGED <<home, parsers, holds, st, closer, registrar>>

(* SelectedParser.parse: the call may fail, or the stream is tracked. *)
Parse(x, works) ==
    /\ reader[x].pc = "selected"
    /\ LET open == sessions[home[x]].phase = "open"
       IN  IF open /\ works
             THEN /\ st' = [st EXCEPT ![x].tracked = TRUE]
                  /\ reader' = [reader EXCEPT ![x].pc = "idle"]
             ELSE /\ reader' = [reader EXCEPT ![x] =
                        [pc |-> "ended", why |-> IF open THEN "parse_call" ELSE "session_closed"]]
                  /\ UNCHANGED st
    /\ UNCHANGED <<home, parsers, sessions, holds, closer, registrar>>

TrackedBy(s, streams) == {x \in Streams : home[x] = s /\ streams[x].tracked}

(* Slip: the streams learn of the end when it is their turn. *)
ClosingNow_Later(s, x) == st[x]

(* __aexit__ marks every stream before it awaits anything. *)
ClosingNow(s, x) == IF home[x] = s /\ st[x].tracked THEN [st[x] EXCEPT !.closing = TRUE] ELSE st[x]

ExitStarts(s) ==
    /\ sessions[s].phase = "open"
    /\ sessions' = [sessions EXCEPT ![s].phase = "leaving", ![s].frozen = {}]
    /\ st' = [x \in Streams |-> ClosingNow(s, x)]
    /\ UNCHANGED <<home, parsers, holds, reader, closer, registrar>>

(* _cleanup, a task of its own: behind the selection it lists the streams. *)
CleanupLists(s) ==
    /\ sessions[s].phase = "leaving" /\ sessions[s].selecting = Missing
    /\ sessions' = [sessions EXCEPT ![s].phase = "cleaning", ![s].selecting = "cleanup",
                                    ![s].cleanup = TrackedBy(s, st)]
    /\ UNCHANGED <<home, parsers, holds, st, reader, closer, registrar>>

(* One aclose after the other. *)
CleanupCloses(s, x) ==
    /\ sessions[s].phase = "cleaning" /\ x \in sessions[s].cleanup
    /\ IF st[x].closed
         THEN /\ sessions' = [sessions EXCEPT ![s].cleanup = @ \ {x}] /\ UNCHANGED st
         ELSE /\ st[x].lock = Missing
              /\ st' = [st EXCEPT ![x].lock = "session", ![x].closing = TRUE]
              /\ UNCHANGED sessions
    /\ UNCHANGED <<home, parsers, holds, reader, closer, registrar>>

-----------------------------
(* The end of an iterator, and of a lease. *)

Closing == {"leaving", "cleaning", "left"}

(* _release_lease_if_quiescent. *)
HoldsAfter(streams) ==
    holds \ {s \in Sessions : sessions[s].phase \in Closing /\ TrackedBy(s, streams) = {}}

(* Slip: only a stream that was closed is let go. *)
Closed_Kept(s, how) == [s EXCEPT !.closed = how = "ok", !.tracked = @ /\ how # "ok", !.lock = Missing]

(* _close_underlying_locked: closed only if the iterator says so, tracked   *)
(* no longer in any case.                                                   *)
Closed(s, how) == [s EXCEPT !.closed = how = "ok", !.tracked = FALSE, !.lock = Missing]

CleanupClosed(s, x, how) ==
    /\ sessions[s].phase = "cleaning" /\ st[x].lock = "session" /\ home[x] = s
    /\ st' = [st EXCEPT ![x] = Closed(st[x], how)]
    /\ holds' = HoldsAfter(st')
    /\ sessions' = [sessions EXCEPT ![s].cleanup = @ \ {x}]
    /\ UNCHANGED <<home, parsers, reader, closer, registrar>>

(* The shielded wait of __aexit__ is over. *)
ExitEnds(s) ==
    /\ sessions[s].phase = "cleaning" /\ sessions[s].cleanup = {}
    /\ sessions' = [sessions EXCEPT ![s].phase = "left", ![s].selecting = Missing]
    /\ holds' = HoldsAfter(st)
    /\ UNCHANGED <<home, parsers, st, reader, closer, registrar>>

-----------------------------
(* Reading. *)

Stops(x, why) == reader' = [reader EXCEPT ![x] = [pc |-> "ended", why |-> why]]

(* __anext__ looks before it waits for the lock, and again behind it. *)
NextStarts(x) ==
    /\ reader[x].pc = "idle"
    /\ IF st[x].closing \/ st[x].closed THEN Stops(x, "stop") /\ UNCHANGED st
       ELSE IF st[x].lock # Missing
         THEN reader' = [reader EXCEPT ![x].pc = "waiting"] /\ UNCHANGED st
       ELSE /\ reader' = [reader EXCEPT ![x].pc = "reading"]
            /\ st' = [st EXCEPT ![x].lock = "reader"]
    /\ UNCHANGED <<home, parsers, sessions, holds, closer, registrar>>

NextGoesOn(x) ==
    /\ reader[x].pc = "waiting" /\ st[x].lock = Missing
    /\ IF st[x].closing \/ st[x].closed THEN Stops(x, "stop") /\ UNCHANGED st
       ELSE /\ reader' = [reader EXCEPT ![x].pc = "reading"]
            /\ st' = [st EXCEPT ![x].lock = "reader"]
    /\ UNCHANGED <<home, parsers, sessions, holds, closer, registrar>>

(* Every bad end closes the iterator before the error goes out. *)
CleansUp(x, why) ==
    /\ st' = [st EXCEPT ![x].closing = TRUE]
    /\ reader' = [reader EXCEPT ![x] = [pc |-> "cleaning", why |-> why]]

(* A batch arrives. *)
ReadBatch(x, b) ==
    /\ reader[x].pc = "reading"
    /\ LET limit == LimitBroken(x, b)
           taken == Taken(x, b)
       IN  IF st[x].closing THEN CleansUp(x, "stop")
           ELSE IF st[x].terminal THEN CleansUp(x, "batch_after_terminal")
           ELSE IF limit # "none" THEN CleansUp(x, limit)
           ELSE IF ~BatchBelongs(x, b) THEN CleansUp(x, "invalid")
           ELSE IF RefsOverflow(x, b) THEN CleansUp(x, "refs")
           ELSE IF ~RefsAreNew(x, b) \/ (b.last /\ ~ManifestClosesIt(taken, b))
             THEN CleansUp(x, "invalid")
           ELSE /\ st' = [st EXCEPT ![x] = [taken EXCEPT !.lock = Missing]]
                /\ reader' = [reader EXCEPT ![x].pc = "idle"]
    /\ UNCHANGED <<home, parsers, sessions, holds, closer, registrar>>

(* The iterator is exhausted, which is an error before the last batch. *)
ReadEnds(x) ==
    /\ reader[x].pc = "reading"
    /\ CleansUp(x, IF st[x].terminal THEN "exhausted" ELSE "missing_terminal")
    /\ UNCHANGED <<home, parsers, sessions, holds, closer, registrar>>

(* A cancelled read leaves the iterator where nobody knows. *)
AfterCancelledRead(s) == [s EXCEPT !.closing = TRUE, !.lock = Missing]

ReadFails(x, failure) ==
    /\ reader[x].pc = "reading"
    /\ IF failure = "cancelled"
         THEN /\ st' = [st EXCEPT ![x] = AfterCancelledRead(st[x])]
              /\ reader' = [reader EXCEPT ![x] = [pc |-> "idle", why |-> "cancelled"]]
         ELSE CleansUp(x, failure)
    /\ UNCHANGED <<home, parsers, sessions, holds, closer, registrar>>

ReaderCleaned(x, how) ==
    /\ reader[x].pc = "cleaning"
    /\ st' = [st EXCEPT ![x] =
          [Closed(st[x], how) EXCEPT !.completed = reader[x].why = "exhausted" /\ how = "ok"]]
    /\ holds' = HoldsAfter(st')
    /\ Stops(x, IF how = "ok" THEN reader[x].why ELSE "cleanup")
    /\ UNCHANGED <<home, parsers, sessions, closer, registrar>>

(* aclose by another task; it may give up while it waits for the lock, and  *)
(* may be called again after a failure.                                     *)
CloseStarts(x) ==
    /\ x \in WithClosers /\ closer[x] = "idle" /\ reader[x].pc \notin {"new", "selecting", "selected"}
    /\ reader[x].why \notin {"session_closed", "not_selected", "parse_call"} /\ ~st[x].closed
    /\ st' = [st EXCEPT ![x].closing = TRUE]
    /\ closer' = [closer EXCEPT ![x] = "waiting"]
    /\ UNCHANGED <<home, parsers, sessions, holds, reader, registrar>>

CloseGoesOn(x) ==
    /\ closer[x] = "waiting" /\ st[x].lock = Missing
    /\ IF st[x].closed THEN closer' = [closer EXCEPT ![x] = "done"] /\ UNCHANGED st
       ELSE /\ closer' = [closer EXCEPT ![x] = "cleaning"]
            /\ st' = [st EXCEPT ![x].lock = "closer"]
    /\ UNCHANGED <<home, parsers, sessions, holds, reader, registrar>>

CloseGivesUp(x) ==
    /\ closer[x] = "waiting" /\ closer' = [closer EXCEPT ![x] = "idle"]
    /\ UNCHANGED <<home, parsers, sessions, holds, st, reader, registrar>>

CloserCleaned(x, how) ==
    /\ closer[x] = "cleaning"
    /\ st' = [st EXCEPT ![x] = Closed(st[x], how)]
    /\ holds' = HoldsAfter(st')
    /\ closer' = [closer EXCEPT ![x] = IF how = "ok" THEN "done" ELSE "idle"]
    /\ UNCHANGED <<home, parsers, sessions, reader, registrar>>

-----------------------------
(* A close that fails, and one that is cancelled, leave the same behind. *)
CloseOutcomes == {"ok", "failed"}

SessionStep(s) ==
    \/ EnterSession(s) \/ ExitStarts(s) \/ CleanupLists(s) \/ ExitEnds(s)
    \/ \E x \in Streams : CleanupCloses(s, x) \/ \E how \in CloseOutcomes : CleanupClosed(s, x, how)

StreamStep(x) ==
    \/ SelectStarts(x) \/ \E yes \in BOOLEAN : SelectEnds(x, yes) \/ Parse(x, yes)
    \/ NextStarts(x) \/ NextGoesOn(x) \/ ReadEnds(x)
    \/ reader[x].pc = "reading" /\ \E b \in Emits(st[x].accepted) : ReadBatch(x, b)
    \/ \E failure \in Failures : ReadFails(x, failure)
    \/ CloseStarts(x) \/ CloseGoesOn(x) \/ CloseGivesUp(x)
    \/ \E how \in CloseOutcomes : ReaderCleaned(x, how) \/ CloserCleaned(x, how)

StreamNext ==
    \/ \E s \in Sessions : SessionStep(s)
    \/ \E x \in Streams : StreamStep(x)
    \/ \E r \in Registrars : (\E offer \in Offers : RegistrarLooks(r, offer)) \/ RegistrarCommits(r)

StreamSpec == StreamInit /\ [][StreamNext]_streamVars

-----------------------------
(* Properties. *)

(* What a consumer got up to the last batch is an extraction as the         *)
(* manifest itself would judge it (validate_batches), although the stream   *)
(* never holds more than one batch: order, identity, counts, references and *)
(* segments; and completed is said of nothing else.                         *)
AcceptedIsExtraction ==
    \A x \in Streams :
       /\ st[x].terminal => IsExtraction(Last(st[x].accepted).manifest, st[x].accepted)
       /\ st[x].completed => st[x].terminal /\ st[x].closed

(* No batch leaves a stream once its session has begun to end, somebody has *)
(* begun to close it, or a read was cancelled - even one that was under     *)
(* way (_begin_close, the check behind the await).                          *)
NothingAfterClose ==
    [][\A x \in Streams :
         Len(st'[x].accepted) > Len(st[x].accepted) =>
            /\ sessions[home[x]].phase = "open" /\ ~st[x].closing /\ ~st[x].closed
            /\ reader[x].why # "cancelled"]_streamVars

(* While a session selects, or has a stream nobody has cleaned up, it has   *)
(* the very parsers that are registered - and no two of them clash, however *)
(* registrations and sessions race.                                         *)
RegistryIsFrozen ==
    /\ \A s \in Sessions :
         sessions[s].phase = "open" => sessions[s].frozen = {p \in parsers : ~p.plugin}
    /\ \A p, q \in parsers :
         p # q => p.id # q.id /\ ((p.plugin \/ q.plugin) => p.target # q.target)

(* A session that is left has given the registry back as soon as none of   *)
(* its iterators is in use - whoever closed them, and though one of them    *)
(* could not be closed.                                                     *)
LeaseComesBack ==
    \A s \in holds :
       sessions[s].phase = "left" => \E x \in Streams : home[x] = s /\ st[x].lock # Missing

(* A lease keeps the registry still while it is held, and is given back. *)
LeasesHold == RegistryIsFrozen /\ LeaseComesBack
=============================================================================
