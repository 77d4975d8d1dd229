----------------------------- MODULE MCDatabase -----------------------------
(***************************************************************************)
(* What the library keeps, finds and does at a database - the audit chain, *)
(* the calls that inspect, the catalog that is read, the attempts to load - *)
(* side by side: each behaviour is one part's, the others stay where they  *)
(* can do nothing.                                                         *)
(***************************************************************************)
EXTENDS AuditChain, Inspection, Catalog
LOCAL INSTANCE SequencesExt
LOCAL INSTANCE FiniteSetsExt
LOCAL INSTANCE TLC

-----------------------------
(***************************************************************************)
(* Three appends to the chain of one run, where the third is one too many: *)
(* an event repeated and its id reused for another body (a second failed   *)
(* attempt at the same run); one that may only come first; all different,  *)
(* with a target that becomes known.                                       *)
(***************************************************************************)

CONSTANTS w1, w2, w3, t1

Ev(id, time, to, body) ==
    [event_id |-> id, occurred_at |-> time, target_id |-> to, policy |-> "p",
     body |-> body]

Script(e1, e2, e3) ==
    [w \in Appenders |-> CASE w = w1 -> e1 [] w = w2 -> e2 [] w = w3 -> e3]

MCScripts ==
    {Script(Ev("a", 1, t1, 0), Ev("a", 1, t1, 0), Ev("a", 2, t1, 1)),
     Script(Ev("a", 1, t1, 0), Ev("b", 0, t1, 0), Ev("a", 1, t1, 0)),
     Script(Ev("a", 1, Null, 0), Ev("b", 1, t1, 0), Ev("c", 2, t1, 0))}

-----------------------------
(***************************************************************************)
(* Databases to read: all graphs of foreign keys of three tables and many  *)
(* of four, odd tables, and databases that change between two calls.       *)
(***************************************************************************)

MCCatalogLimits == [tables |-> 4, columns |-> 5, constraints |-> 7, depth |-> 3]

TypeOf(kind, base, notNull, schema) == [kind |-> kind, base |-> base, not_null |-> notNull, schema |-> schema]
MCTypes == [int |-> TypeOf("builtin", Nothing, FALSE, Nothing),
            named |-> TypeOf("domain", "int", TRUE, Nothing),
            renamed |-> TypeOf("domain", "named", FALSE, Nothing),
            list |-> TypeOf("array", "named", FALSE, Nothing),
            other |-> TypeOf("enum", Nothing, FALSE, 9),
            deep |-> TypeOf("array", "renamed", FALSE, Nothing), deeper |-> TypeOf("array", "deep", FALSE, Nothing)]

Id(n) == <<0, n>>
TargetOf(dialect, include, db, changes) ==
    [dialect |-> dialect, include |-> include, deny |-> {}, schemas |-> {0}, requested |-> {},
     database |-> db, changes |-> changes]

-----------------------------
(* SQLite. *)
Column(name, type, pk) ==
    [name |-> name, type |-> type, null |-> pk = 0, pk |-> pk, generation |-> Nothing, expression |-> Nothing,
     check |-> Nothing, auto |-> FALSE, quoted |-> FALSE]
Holds(columns, keys) ==
    [kind |-> "table", columns |-> columns, checks |-> <<>>, flags |-> {}, odd |-> Nothing, indexes |-> <<>>, keys |-> keys]
KeyTo(parent, columns, remote) == [parent |-> parent, columns |-> columns, parent_columns |-> remote, actions |-> "a"]
IndexOf(name, origin, unique, columns) ==
    [name |-> name, origin |-> origin, unique |-> unique, predicate |-> Nothing,
     keys |-> [i \in DOMAIN columns |-> [column |-> columns[i], expression |-> Nothing, collation |-> "binary"]]]

(* A table refers to each of its parents with a column of its own. *)
Linked(parents) ==
    LET above == SetToSortSeq(parents, <)
    IN Holds(<<Column(0, "INTEGER", 1)>> \o [i \in DOMAIN above |-> Column(2 * i, "TEXT", 0)],
             [i \in DOMAIN above |-> KeyTo(above[i], <<2 * i>>, Nothing)])
GraphOf(numbers, edges) ==
    TargetOf("sqlite", {Id(n) : n \in numbers},
             [id \in {Id(n) : n \in numbers} |-> Linked({e[1] : e \in {d \in edges : d[2] = id[2]}})], {})

ThreeTables == {GraphOf({0, 2, 4}, edges) : edges \in SUBSET ({0, 2, 4} \X {0, 2, 4})}
Pairs == {<<0, 4>>, <<4, 0>>, <<2, 6>>, <<6, 2>>}
Across == {<<0, 2>>, <<2, 0>>, <<4, 6>>, <<6, 4>>, <<4, 2>>, <<0, 0>>}
FourTables == {GraphOf({0, 2, 4, 6}, pairs \cup across) : pairs \in {Pairs, Pairs \ {<<6, 2>>}}, across \in SUBSET Across}

Parent == Holds(<<Column(0, "INTEGER", 1), Column(2, "TEXT", 0)>>, <<>>)
Child == [Holds(<<Column(0, "INTEGER", 1), Column(2, "INTEGER", 0), Column(4, "TEXT", 0)>>,
                <<KeyTo(0, <<2>>, <<0>>)>>)
          EXCEPT !.columns[3].check = <<"x", ",", "AS">>, !.checks = <<<<"y">>>>,
                 !.indexes = <<IndexOf("auto_1", "u", TRUE, <<4>>), IndexOf("own", "c", FALSE, <<2, 4>>)>>]
Two(p, c) == Id(0) :> p @@ Id(2) :> c

Odd(c) == TargetOf("sqlite", {Id(0), Id(2)}, Two(Parent, c), {})
OddTables == {Odd(c) : c \in {
    [Child EXCEPT !.kind = "virtual"],
    [Holds(<<Column(0, "INTEGER", 0), Column(2, "TEXT", 0)>>, <<>>) EXCEPT !.kind = "view"],
    [Child EXCEPT !.odd = <<Word("ON", 1), Word("CONFLICT", 1)>>],
    [Child EXCEPT !.odd = <<Word("DEFERRABLE", 1)>>],
    [Child EXCEPT !.columns[1].null = TRUE, !.columns[1].type = "TEXT"],
    [Child EXCEPT !.columns[1].null = TRUE, !.columns[1].type = "TEXT", !.flags = {"strict"}],
    [Child EXCEPT !.columns[1].auto = TRUE],
    [Child EXCEPT !.columns[3].generation = "virtual", !.columns[3].expression = <<"z", ",">>],
    [Child EXCEPT !.columns[3].quoted = TRUE, !.columns[3].generation = "stored", !.columns[3].expression = <<"CHECK">>],
    [Child EXCEPT !.columns[2].pk = 2, !.columns[2].null = FALSE, !.indexes[1] = IndexOf("pk_1", "pk", TRUE, <<0, 2>>)],
    [Child EXCEPT !.keys[1].parent = 8],
    [Child EXCEPT !.keys[1].parent_columns = <<6>>],
    [Child EXCEPT !.keys[1].columns = <<2, 4>>, !.keys[1].parent_columns = Nothing],
    [Child EXCEPT !.keys[1].columns = <<2, 2>>, !.keys[1].parent_columns = <<0, 2>>],
    [Child EXCEPT !.indexes[2].keys[1].column = Nothing],
    [Child EXCEPT !.indexes = @ \o [i \in 1..3 |-> IndexOf(<<"i", i>>, "c", TRUE, <<2>>)]],
    [Child EXCEPT !.columns = @ \o [i \in 1..3 |-> Column(4 + 2 * i, "TEXT", 0)]]}}

(* A table that only relates two others. *)
Join == [Holds(<<Column(0, "INTEGER", 1), Column(2, "INTEGER", 2)>>, <<KeyTo(0, <<0>>, Nothing), KeyTo(2, <<2>>, Nothing)>>)
         EXCEPT !.indexes = <<IndexOf("pk_1", "pk", TRUE, <<0, 2>>)>>]
Joins == {TargetOf("sqlite", {Id(0), Id(2), Id(4)}, Two(Parent, Parent) @@ Id(4) :> j, {}) : j \in
            {Join, [Join EXCEPT !.keys[2].parent = 1], [Join EXCEPT !.keys[2].parent = 4]}}

Scopes == {[t EXCEPT !.include = include, !.deny = deny, !.requested = requested] :
             t \in {Odd(Child)}, include \in {{Id(0), Id(2)}, {Id(1), Id(2)}, {Id(2)}, {Id(n) : n \in 0..4}},
             deny \in {{}, {Id(1)}, {Id(3), Id(0)}}, requested \in {{}, {0}, {1}}}

Doubled(c) == Append(c.keys, c.keys[1])
Changed(db, same) == [database |-> db, same |-> same]
SqliteChanges ==
    {Changed(Two(Parent, c), TRUE) : c \in {
        Child, [Child EXCEPT !.indexes = Reverse(@)], [Child EXCEPT !.keys[1].parent = 1],
        [Child EXCEPT !.keys[1].parent_columns = Nothing], [Child EXCEPT !.indexes[1].name = "auto_2"],
        [Child EXCEPT !.columns[1].null = TRUE]}}
    \cup {Changed(Two(Parent, Child) @@ Id(4) :> Child, TRUE)}
    \cup {Changed(Two(Parent, c), FALSE) : c \in {
        [Child EXCEPT !.keys = <<>>], [Child EXCEPT !.keys = Doubled(Child)], [Child EXCEPT !.keys[1].actions = "c"],
        [Child EXCEPT !.keys[1].parent_columns = <<2>>], [Child EXCEPT !.keys[1].columns = <<4>>],
        [Child EXCEPT !.columns[3].check = <<"x", ",", "AS", "w">>], [Child EXCEPT !.columns[3].check = Nothing],
        [Child EXCEPT !.checks = Append(@, @[1])], [Child EXCEPT !.flags = {"strict"}],
        [Child EXCEPT !.indexes[1].unique = FALSE, !.indexes[1].origin = "c"], [Child EXCEPT !.indexes[2].predicate = "p"],
        [Child EXCEPT !.indexes[2].keys = Reverse(@)], [Child EXCEPT !.indexes[2].name = "other"],
        [Child EXCEPT !.columns = <<@[1], @[3], @[2]>>], [Child EXCEPT !.columns[2].null = FALSE],
        [Child EXCEPT !.columns[3].generation = "virtual", !.columns[3].expression = <<"z">>]}}
    \cup {Changed(Two([Parent EXCEPT !.columns[2].type = "INTEGER"], Child), FALSE)}
TwiceKeyed == [Child EXCEPT !.keys = Append(Doubled(Child), KeyTo(0, <<4>>, <<2>>))]
KeyChanges == {Changed(Two(Parent, [TwiceKeyed EXCEPT !.keys = Reverse(@)]), TRUE),
               Changed(Two(Parent, [TwiceKeyed EXCEPT !.keys = Tail(@)]), FALSE),
               Changed(Two(Parent, [TwiceKeyed EXCEPT !.keys = <<@[1], @[3], @[3]>>]), FALSE)}

-----------------------------
(* PostgreSQL. *)
PgColumn(name, number, type) ==
    [name |-> name, number |-> number, type |-> type, null |-> TRUE, generation |-> Nothing, expression |-> Nothing,
     identity |-> Nothing, collated |-> FALSE]
Constraint(kind, name, columns) ==
    [kind |-> kind, name |-> name, columns |-> columns, parent |-> Nothing, parent_columns |-> <<>>, actions |-> "a",
     on_delete |-> <<>>, validated |-> TRUE, enforced |-> TRUE, expression |-> Nothing]
ForeignKey(name, columns, parent, remote) ==
    [Constraint("f", name, columns) EXCEPT !.parent = parent, !.parent_columns = remote]
PgIndex(name, numbers) ==
    [name |-> name, primary |-> FALSE, constraint |-> FALSE, unique |-> TRUE, predicate |-> Nothing, include |-> <<>>,
     keys |-> [i \in DOMAIN numbers |-> [number |-> numbers[i], expression |-> "e", collation |-> Nothing]]]
PgTable(columns, constraints, indexes) ==
    [kind |-> "r", columns |-> columns, constraints |-> constraints, indexes |-> indexes]

PgParent == [PgTable(<<PgColumn(0, 1, "int"), PgColumn(1, 2, "renamed")>>, <<Constraint("p", "pk", <<1>>)>>, <<>>)
             EXCEPT !.columns[1].null = FALSE, !.columns[1].identity = "always"]
PgChild == [PgTable(<<PgColumn(0, 1, "int"), PgColumn(1, 2, "int"), PgColumn(2, 4, "list")>>,
                    <<Constraint("p", "pk", <<1, 2>>), ForeignKey("fk", <<1>>, Id(0), <<1>>),
                      [Constraint("c", "ck", <<4>>) EXCEPT !.expression = "x"]>>,
                    <<PgIndex("i1", <<4, 0>>), [PgIndex("i2", <<2>>) EXCEPT !.include = <<4>>]>>)
            EXCEPT !.columns[1].null = FALSE, !.columns[2].null = FALSE]
Renumbered(t) ==
    LET moved == [n \in 1..9 |-> IF n = 4 THEN 7 ELSE n]
        all(s) == [i \in DOMAIN s |-> moved[s[i]]]
    IN [t EXCEPT !.columns = [i \in DOMAIN @ |-> [@[i] EXCEPT !.number = moved[@]]],
                 !.constraints = [i \in DOMAIN @ |-> [@[i] EXCEPT !.columns = all(@), !.on_delete = all(@)]],
                 !.indexes = [i \in DOMAIN @ |-> [@[i] EXCEPT !.include = all(@),
                                !.keys = [k \in DOMAIN @ |-> [@[k] EXCEPT !.number = IF @ = 0 THEN 0 ELSE moved[@]]]]]]
PgOdd == {TargetOf("postgresql", {Id(0), Id(2)}, Two(PgParent, c), {}) : c \in {
    [PgChild EXCEPT !.kind = "v"], [PgChild EXCEPT !.kind = "s"],
    [PgChild EXCEPT !.kind = "v", !.constraints = <<>>, !.indexes = <<>>],
    [PgChild EXCEPT !.kind = "p"], [PgChild EXCEPT !.constraints[3].kind = "x"],
    [PgChild EXCEPT !.constraints[2].parent = <<1, 0>>], [PgChild EXCEPT !.constraints[2].columns = <<3>>],
    [PgChild EXCEPT !.constraints[2].on_delete = <<2>>], [PgChild EXCEPT !.columns[2].null = TRUE],
    [PgChild EXCEPT !.columns[3].type = "other"], [PgChild EXCEPT !.columns[3].type = "deeper"],
    [PgChild EXCEPT !.columns[3].collated = TRUE], [PgChild EXCEPT !.columns[3].type = "gone"],
    [PgChild EXCEPT !.constraints = @ \o [i \in 1..5 |-> Constraint("n", <<"n", i>>, <<1>>)]]}}
PgLinked == {TargetOf("postgresql", {Id(0), Id(2)},
               Two([PgParent EXCEPT !.constraints = @ \o back], PgChild), {}) :
                 back \in {<<>>, <<ForeignKey("b", <<1>>, Id(2), <<1>>)>>, <<ForeignKey("b", <<1>>, Id(0), <<1>>)>>}}
PgScopes == {[t EXCEPT !.include = {Id(0), Id(2), <<1, 0>>}, !.schemas = {0, 1}, !.requested = requested, !.deny = deny] :
               t \in {TargetOf("postgresql", {}, Two(PgParent, PgChild) @@ <<1, 0>> :> PgParent, {})},
               requested \in SUBSET {0, 1} \cup {{2}}, deny \in {{}, {Id(0)}, {Id(2)}}}
PgChanges ==
    {Changed(Two(PgParent, c), TRUE) : c \in {
        Renumbered(PgChild), [PgChild EXCEPT !.constraints = Reverse(@)], [PgChild EXCEPT !.indexes = Reverse(@)]}}
    \cup {Changed(Two(PgParent, c), FALSE) : c \in {
        [PgChild EXCEPT !.constraints[2].name = "other"], [PgChild EXCEPT !.constraints[2].validated = FALSE],
        [PgChild EXCEPT !.constraints[2].validated = FALSE, !.constraints[2].enforced = FALSE],
        [PgChild EXCEPT !.constraints[2].on_delete = <<1>>], [PgChild EXCEPT !.constraints[2].columns = <<2>>],
        [PgChild EXCEPT !.constraints[3].expression = "z"], [PgChild EXCEPT !.indexes[2].include = <<>>],
        [PgChild EXCEPT !.indexes[1].keys[2].expression = "f"], [PgChild EXCEPT !.columns[3].type = "int"],
        [PgChild EXCEPT !.columns[3].number = 1, !.columns[1].number = 4]}}
    \cup {Changed(Two([PgParent EXCEPT !.columns[1].identity = "by_default"], PgChild), FALSE)}

MCTargets ==
    ThreeTables \cup FourTables \cup OddTables \cup Joins \cup Scopes \cup PgOdd \cup PgLinked \cup PgScopes
    \cup {TargetOf("sqlite", {Id(0), Id(2)}, Two(Parent, Child), SqliteChanges),
          TargetOf("sqlite", {Id(0), Id(2)}, Two(Parent, TwiceKeyed), KeyChanges),
          TargetOf("postgresql", {Id(0), Id(2)}, Two(PgParent, PgChild), PgChanges)}

-----------------------------
(***************************************************************************)
(* One run that two attempts load under one key.                           *)
(***************************************************************************)

CONSTANTS r1, k1, i1, a1, a2, None

VARIABLES setup, run, pending, now, att, txn, rows, keyLock, tableLock, ledger, busy, unavailable

loadVars == <<setup, run, pending, now, att, txn, rows, keyLock, tableLock, ledger, busy, unavailable>>

Pair == {a1, a2}

LoadSpec ==
    [expires_at |-> 1, normalized |-> <<<<"a">>>>, batch_count |-> 1, record_count |-> 1,
     references |-> {[kind |-> "normalized", retained_until |-> 2]}]

Twice ==
    [attempts |-> Pair, run |-> [a \in Pair |-> r1], key |-> [a \in Pair |-> k1],
     instance |-> [a \in Pair |-> i1], tables |-> [a \in Pair |-> {1}], binding |-> [r \in {r1} |-> 1],
     stoppable |-> {}, last |-> 0]

Nobody == [Twice EXCEPT !.attempts = {}]

Load ==
    INSTANCE Loader WITH
        Runs <- {r1}, Attempts <- Pair, Keys <- {k1}, Instances <- {i1}, Tables <- {1}, Setups <- {Twice, Nobody},
        SpecOf <- [r \in {r1} |-> LoadSpec], RecordIds <- {"a"}, Kinds <- {"normalized"},
        SuccessSeconds <- 0, FailureSeconds <- 0, MaxRunSeconds <- 2, MaxBatches <- 1, MaxRecords <- 1

-----------------------------
VARIABLE part

databaseVars == <<part, auditVars, inspectionVars, catalogVars, loadVars>>

FirstScript == CHOOSE s \in Scripts : TRUE

(* The parts share nothing, so their state spaces add. *)
MCDatabaseInit ==
    /\ part \in {"append", "inspect", "catalog", "load"}
    /\ IF part = "append" THEN AuditInit
       ELSE /\ setting = [transactional |-> FALSE, events |-> FirstScript] /\ chain = <<>>
            /\ pc = [w \in Appenders |-> "given_up"] /\ seen = [w \in Appenders |-> <<>>]
            /\ tries = [w \in Appenders |-> 0] /\ own = [w \in Appenders |-> Null]
            /\ answer = [w \in Appenders |-> Null] /\ lock = Null /\ check = NoChecks
    /\ IF part = "inspect" THEN InspectionInit
       ELSE /\ adapter = "planner" /\ slot = NoTask /\ blocked = FALSE
            /\ call = [c \in Inspectors |-> [Idle EXCEPT !.step = "ended"]]
            /\ thread = [c \in Inspectors |-> NoThread]
            /\ link = [c \in Inspectors |-> "none"]
    /\ IF part = "catalog" THEN CatalogInit
       ELSE /\ target = Nothing /\ database = Nothing /\ reader = NewCall /\ before = Nothing
    /\ Load!Init /\ setup = IF part = "load" THEN Twice ELSE Nobody

MCDatabaseNext ==
    /\ part' = part
    /\ \/ part = "append" /\ AuditNext /\ UNCHANGED <<inspectionVars, catalogVars, loadVars>>
       \/ part = "inspect" /\ InspectionNext /\ UNCHANGED <<auditVars, catalogVars, loadVars>>
       \/ part = "catalog" /\ CatalogNext /\ UNCHANGED <<auditVars, inspectionVars, loadVars>>
       \/ part = "load" /\ Load!Next /\ UNCHANGED <<auditVars, inspectionVars, catalogVars>>

MCDatabaseSpec ==
    /\ MCDatabaseInit /\ [][MCDatabaseNext]_databaseVars
    /\ AuditFairness /\ InspectionFairness /\ Load!Fairness

(* Every attempt that was started ends: a lock held by a dead or hanging     *)
(* attempt is released with its transaction and holds nobody up for ever.    *)
EveryAttemptEnds == Load!EveryAttemptEnds
=============================================================================
