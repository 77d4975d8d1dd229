------------------------------ MODULE MCReading ------------------------------
(***************************************************************************)
(* How a source gets read - the plugins found, the parser chosen, its      *)
(* stream and its process - side by side: each behaviour is one part's,    *)
(* the others stay in one initial state.                                   *)
(***************************************************************************)
EXTENDS ParserStream, Selection, Sandbox, Discovery, TLC

-----------------------------
VARIABLE part

M(id, object) == [id |-> id, object |-> object, target |-> object, plugin |-> FALSE]
Pl(id, target) == [id |-> id, object |-> Missing, target |-> target, plugin |-> TRUE]

MCOffers == {{M("csv", "c1")}, {M("tsv", "c1")}, {M("xml", "c2"), Pl("sql", "c3")} \ {Pl("sql", "c3")},
             {Pl("csv", "c4"), Pl("pdf", "c1"), Pl("sql", "c3")}}

(* Two streams of one session, or of two. *)
MCHomes == {h \in [Streams -> Sessions] : h["a"] = "s1"}

-----------------------------
Plain(n) ==
    [version |-> "1.0", extraction |-> "e", index |-> n, source |-> "src", parser |-> "csv",
     print |-> n, genuine |-> FALSE, lines |-> <<>>, blocks |-> <<>>, tables |-> <<>>,
     trees |-> <<>>, records |-> Missing, refs |-> <<>>, extras |-> FALSE, last |-> FALSE,
     manifest |-> Missing]

At(n) == [line_start |-> n, line_end |-> n, column_start |-> Missing, column_end |-> Missing]
Line(id, n, values) == [id |-> id, number |-> n, at |-> At(n), values |-> values]

Table(segment, from, to, last) ==
    [id |-> "t", segment |-> segment, row_start |-> from, row_end |-> to, is_last |-> last,
     cells |-> IF segment = Missing THEN <<>>
               ELSE <<[id |-> "c", row |-> from, column |-> 0, value |-> Missing]>>]

Node(id, parent, order) ==
    [id |-> id, parent |-> parent, kind |-> "array", order |-> order, value |-> Missing,
     tree |-> Missing, segment |-> Missing, child_start |-> Missing, child_count |-> Missing,
     is_last |-> Missing]

Root(kind, segment, from, count, last) ==
    [Node("n", Missing, 0) EXCEPT !.kind = kind, !.tree = "d", !.segment = segment,
        !.child_start = from, !.child_count = count, !.is_last = last]

(* What a batch may hold: nothing, lines and references, a table segment, a *)
(* tree segment.                                                            *)
Contents(n) ==
    LET plain == Plain(n)
        one   == [plain EXCEPT !.version = "1.1", !.records = 1, !.genuine = TRUE]
        ref   == [extraction |-> "e", batch |-> n, key |-> <<"line", "l">>]
    IN  {plain, one, [one EXCEPT !.genuine = FALSE], [one EXCEPT !.print = 0],
         [plain EXCEPT !.print = 0], [plain EXCEPT !.extraction = "f"], [one EXCEPT !.records = 3],
         [plain EXCEPT !.lines = <<Line("l", 1, <<>>)>>],
         [one EXCEPT !.lines = <<Line("l", 1, <<"v">>), Line("k", 2, <<"v">>)>>],
         [one EXCEPT !.lines = <<Line("l", 1, <<"v">>)>>, !.refs = <<ref>>],
         [one EXCEPT !.refs = <<ref>>]}
        \cup {[one EXCEPT !.tables = <<Table(k, from, from, last)>>] :
                k \in {Missing, 0, 1}, from \in 0..1, last \in BOOLEAN}
        \cup {[one EXCEPT !.tables = <<Table(0, 0, 1, FALSE)>>]}
        \cup {[one EXCEPT !.trees = <<Root(kind, k, from, 0, TRUE)>>] :
                kind \in {"array", "object"}, k \in 0..1, from \in 0..1}
        \cup {[one EXCEPT !.trees = <<Root("array", k, k, 1, last), Node("m", "n", k)>>] :
                k \in 0..1, last \in BOOLEAN}

ManifestOf(b, acc) ==
    LET all == Append(acc, b)
        new == b.version = "1.1"
    IN  [version |-> b.version, source |-> "src", extraction |-> b.extraction, parser |-> "csv",
         producer |-> IF new THEN "csv" ELSE Missing,
         sums |-> [i \in DOMAIN all |-> SummaryOf(all[i])],
         index |-> FlattenSeq([i \in DOMAIN all |-> all[i].refs]),
         records |-> IF ~new THEN Missing
                     ELSE FoldSeq(LAMBDA c, n : n + IF c.records = Missing THEN 0 ELSE c.records,
                                  0, all)]

Manifests(b, acc) ==
    LET m == ManifestOf(b, acc)
    IN  {m, [m EXCEPT !.index = <<>>], [m EXCEPT !.sums = <<Last(m.sums)>>],
         [m EXCEPT !.index = <<[extraction |-> b.extraction, batch |-> 0, key |-> <<"line", "l">>]>>]}
        \cup IF b.version = "1.1" THEN {[m EXCEPT !.records = @ + 1]} ELSE {}

Rich(acc) ==
    LET n == Len(acc)
    IN  Contents(n) \cup {[Plain(n) EXCEPT !.index = 0]}
        \cup UNION {{[b EXCEPT !.last = TRUE, !.manifest = m] : m \in Manifests(b, acc)} :
                      b \in Contents(n)}

(* Two batches are enough where it matters who closes what. *)
MCEmits(acc) ==
    LET b == Plain(Len(acc))
    IN  {IF Len(acc) = 1 THEN [b EXCEPT !.last = TRUE, !.manifest = ManifestOf(b, acc)] ELSE b}

-----------------------------
mcVars == <<part, streamVars>>

Reads(x) ==
    \/ SelectStarts(x) \/ SelectEnds(x, TRUE) \/ Parse(x, TRUE) \/ NextStarts(x) \/ ReadEnds(x)
    \/ \E b \in Rich(st[x].accepted) : ReadBatch(x, b)
    \/ ReaderCleaned(x, "ok")

MCStreamNext ==
    /\ part' = part
    /\ \/ /\ part = "data"
          /\ \E x \in Streams : (Reads(x) \/ EnterSession(home[x])) /\ x = CHOOSE y \in Streams : TRUE
       \/ /\ part = "close"
          /\ (\E s \in Sessions : SessionStep(s)) \/ (\E x \in Streams : StreamStep(x))
       \/ /\ part = "registry"
          /\ \/ \E s \in Sessions : SessionStep(s)
             \/ \E r \in Registrars :
                   (\E offer \in Offers : RegistrarLooks(r, offer)) \/ RegistrarCommits(r)

-----------------------------
readingVars == <<mcVars, selectVars, sandboxVars, discoveryVars>>

-----------------------------
(* Up to three parsers, of different or of the same priority. *)
MCRegistrations ==
    {<<>>, <<[id |-> 1, priority |-> 0]>>,
     <<[id |-> 1, priority |-> 0], [id |-> 2, priority |-> 1]>>,
     <<[id |-> 1, priority |-> 0], [id |-> 3, priority |-> 0], [id |-> 2, priority |-> 1]>>}

Signals(match, hint) ==
    [k \in SignalKinds |-> IF k \in match THEN "match" ELSE IF k \in Hints THEN hint ELSE "none"]

Result(supported, confidence, format, match, hint) ==
    [kind |-> "result", genuine |-> TRUE, supported |-> supported, confidence |-> confidence,
     format |-> format, media |-> format, signals |-> Signals(match, hint)]

(* Both formats, both confidences, one or two strong signals, and the ways   *)
(* not to have an answer.                                                    *)
MCProbes ==
    {[kind |-> "error"], [kind |-> "unavailable"], Result(TRUE, 1, "csv", {}, "none"),
     [Result(TRUE, 1, "csv", {"signature"}, "match") EXCEPT !.genuine = FALSE],
     [Result(FALSE, 0, "none", {}, "match") EXCEPT !.signals["signature"] = "mismatch"]}
    \cup {Result(TRUE, c, f, m, h) : c \in 1..2, f \in {"csv", "tsv"}, h \in {"match", "mismatch"},
            m \in {{"signature"}, {"internal_structure"}, {"content_media_type"},
                   {"signature", "content_media_type"}}}

MCFrames == [size : 1..3, depth : 1..2, fits : BOOLEAN]

-----------------------------
(* One file of any content, another that takes its name. *)
MCInodes ==
    {[i \in Inodes |-> IF i = "i1" THEN f ELSE [kind |-> "regular", time |-> 0, holds |-> <<"x">>]] :
        f \in [kind : {"regular"}, time : {0}, holds : UNION {[1..n -> Pieces] : n \in 0..(MaxPieces + 1)}]
              \cup {[kind |-> "link", time |-> 0, holds |-> <<>>]}}

MCEntries ==
    LET E == [group : {"parsers"}, id : 0..2, target : 0..2] \cup {[group |-> "other", id |-> 1, target |-> 1]}
    IN  {<<>>} \cup {<<e>> : e \in E} \cup {<<e, f>> : e, f \in E}
        \cup {<<e, e, e>> : e \in [group : {"parsers"}, id : {1}, target : {1}]}

MCDistribution(n) ==
    [name : {n}, state : {"ok"}, entries : MCEntries]
    \cup {[name |-> n, state |-> "distribution_not_found", entries |-> <<>>]}

MCInstallations == {<<a>> : a \in MCDistribution("a")}
                   \cup {<<a, b>> : a \in MCDistribution("a"), b \in MCDistribution("b")}

-----------------------------
FirstTuple == <<[id |-> 1, priority |-> 0]>>
NothingInstalled == <<[name |-> "a", state |-> "ok", entries |-> <<>>]>>

(* The parts share nothing, so their state spaces add. *)
MCReadingInit ==
    /\ part \in {"data", "close", "registry", "select", "sandbox", "file", "claims"}
    /\ part \notin {"close", "registry"} => home = [x \in Streams |-> "s1"]
    /\ part # "registry" => parsers = {M("csv", "c1")}
    /\ StreamInit
    /\ part # "select" => tuple = FirstTuple
    /\ SelectInit
    /\ part # "sandbox" => verdict = "none"
    /\ SandboxInit
    /\ IF part = "file" THEN inode \in MCInodes /\ dir = "i1"
       ELSE inode = CHOOSE f \in MCInodes : f["i1"].holds = <<>> /\ f["i1"].kind = "regular"
    /\ part # "file" => dir = NoFile /\ read = NewRead
    /\ part # "claims" => installed = NothingInstalled
    /\ DiscoveryInit

MCReadingNext ==
    \/ MCStreamNext /\ UNCHANGED <<selectVars, sandboxVars, discoveryVars>>
    \/ part = "select" /\ SelectNext /\ UNCHANGED <<mcVars, sandboxVars, discoveryVars>>
    \/ part = "sandbox" /\ SandboxNext /\ UNCHANGED <<mcVars, selectVars, discoveryVars>>
    \/ part = "file" /\ DiscoveryNext /\ UNCHANGED <<mcVars, selectVars, sandboxVars>>

MCReadingSpec == MCReadingInit /\ [][MCReadingNext]_readingVars
=============================================================================
