------------------------------- MODULE MCData -------------------------------
(***************************************************************************)
(* What becomes of data - the formats that are read, the plan that is made *)
(* of them and followed, the records that are staged and the plan that is  *)
(* loaded - side by side: each behaviour is one part's, the others stay in *)
(* one initial state.                                                      *)
(***************************************************************************)
EXTENDS LoadPlan, Delimited, TextLines, JsonTree, MCPlanning, Staging

-----------------------------
(***************************************************************************)
(* Four units of three tables, one above the other, from three records.    *)
(* All ways the units can depend on each other, come from the records and  *)
(* be wrong (two at most), with one relation of records at most.  Records  *)
(* are only compared: it is enough to number them as the units name them.  *)
(***************************************************************************)

FourUnits == 1..4
Tables == <<2, 3, 1, 2>>
Ranks == <<3, 1, 4, 2>>
Actions == <<"update", "insert", "skip", "insert">>

Numbered(origin) ==
    \A u \in Units : origin[u] = 1 \/ \E v \in Units : v < u /\ origin[v] >= origin[u] - 1

FewInputs ==
    {i \in [origin : {f \in [Units -> Records] : Numbered(f)},
            dep : SUBSET {e \in Units \X Units : Table[e[2]] + 1 = Table[e[1]]},
            related : {{}} \cup {{p} : p \in {q \in Records \X Records : q[1] # q[2]}},
            bad : {S \in SUBSET Units : Cardinality(S) <= 2}, atomic : BOOLEAN] :
        \A r \in Records : \E u \in Units : i.origin[u] = r}

-----------------------------
(***************************************************************************)
(* A small instance of Staging: one run, two writers and one maintenance   *)
(* client.  Runs are independent of one another (every call is about one   *)
(* run_id), so one run meets every interleaving there is.                  *)
(***************************************************************************)

Ref(t) == [kind |-> "normalized", retained_until |-> t]

(* The dataset has two batches of one record.  The second spec is for the  *)
(* same run with another dataset and a later expiry; the third one keeps   *)
(* its reference for too short a time.                                     *)
MCSpecs ==
    {[expires_at |-> 2, normalized |-> <<<<"a">>, <<"b">>>>, batch_count |-> 2,
      record_count |-> 2, references |-> {Ref(4)}],
     [expires_at |-> 3, normalized |-> <<<<"a">>>>, batch_count |-> 1,
      record_count |-> 1, references |-> {Ref(6)}],
     [expires_at |-> 2, normalized |-> <<<<"a">>, <<"b">>>>, batch_count |-> 2,
      record_count |-> 2, references |-> {Ref(3)}]}

NB(i, ids) == [batch_index |-> i, is_last |-> FALSE, ids |-> ids, manifest |-> None]
TB(i, ids, m) == [batch_index |-> i, is_last |-> TRUE, ids |-> ids, manifest |-> m]

(* The right batches, and batches of other content under the same ordinals. *)
MCBatches ==
    {NB(0, <<"a">>), NB(0, <<"b">>), TB(1, <<"b">>, <<<<"a">>, <<"b">>>>),
     TB(1, <<"a">>, <<<<"b">>, <<"a">>>>), TB(0, <<"a">>, <<<<"a">>>>)}

-----------------------------
VARIABLE part

dataVars == <<part, vars, loadPlanVars, delimitedVars, linesVars, jsonVars, planVars, planningVars>>

Upto(n, alphabet) == UNION {[1..k -> alphabet] : k \in 0..n}

-----------------------------
(* Delimited texts: all short ones over the characters that matter, longer   *)
(* ones with two delimiters to choose from, and a first row of two cells.    *)
MCTexts ==
    Upto(3, {"x", ",", "q", "cr", "lf", "e"}) \cup [1..4 -> {"x", ",", "q", "cr", "lf"}]
    \cup [1..5 -> {"x", ",", ";", "lf"}]
    \cup {<<"x", ",", "x", "lf">> \o t : t \in [1..4 -> {"x", ",", "q", "lf"}]}

MCDialects == {[delimiter |-> ",", quote |-> "q", escape |-> NoChar, double |-> TRUE],
               [delimiter |-> ",", quote |-> "q", escape |-> "e", double |-> FALSE]}

MCRowLimits == [records |-> 3, lines |-> 9, line_chars |-> 4, record_chars |-> 9,
                field_size |-> 3, columns |-> 3, stop |-> 99]
MCBatchLimits == [rows |-> 2, cells |-> 3, chars |-> 6, batches |-> 3, objects |-> 12, refs |-> 4]
MCCandidates == [delimiters |-> <<",", ";">>, quotes |-> <<"q">>, escapes |-> <<NoChar, "e">>]

-----------------------------
(* Pages: ends of line of every kind, fences that close or do not, and what  *)
(* begins a unit.                                                            *)
MCPages ==
    Upto(4, {"x", "k", "cr", "lf"}) \cup Upto(3, {"f", "g", "#", "*", "x", " ", "lf"})
    \cup {<<"x", "nul", "lf">>, <<"cr", "nul">>}
    \cup {<<"f", a, b, "lf", c, d, "lf", e>> :
            a \in {"f", "g", "lf"}, b, c \in {"f", "x"}, d, e \in {"f", "x", "lf", "*"}}

MCLineLimits == [lines |-> 3, line_chars |-> 3, text_chars |-> 9, captures |-> 2,
                 event_lines |-> 2, event_chars |-> 5, block_chars |-> 6]
MCUnitLimits == [records |-> 3, objects |-> 7, batch_size |-> 2, batches |-> 2, refs |-> 4]

-----------------------------
(* Documents: all short token sequences, arrays and lines of up to three     *)
(* values, repeated names among them.                                        *)
MCValues ==
    {<<"1">>, <<"ws", "1">>, <<"1", "ws">>, <<"[", "]">>, <<"{", "}">>,
     <<"[", "1", ",", "{", "}", "]">>, <<"[", "[", "1", "]", "]">>,
     <<"{", "a", ":", "1", ",", "a", ":", "1", "}">>,
     <<"{", "a", ":", "[", "1", "]", ",", "a", ":", "[", "1", "]", "}">>,
     <<"{", "0", ":", "1", ",", "a", ":", "1", "}">>,
     <<"{", "0", ":", "[", "1", "]", ",", "0", ":", "{", "0", ":", "1", "}", "}">>}

MCArrays ==
    {<<"[">> \o v \o <<"]">> : v \in MCValues}
    \cup {<<"[">> \o v \o <<",">> \o w \o <<"]">> : v, w \in MCValues}
    \cup {<<"[">> \o v \o <<",">> \o w \o <<",">> \o x \o <<"]">> : v, w, x \in MCValues}

MCJsonLines ==
    MCValues \cup {v \o <<"nl">> \o w : v, w \in MCValues}
    \cup {v \o <<"nl">> \o w \o <<"nl">> \o x : v, w, x \in MCValues}
    \cup {v \o <<"nl">> \o w \o <<"nl", "nl", "nl">> : v, w \in MCValues}
    \cup {v \o <<"nl", "ws", "nl">> \o w \o <<"nl">> : v, w \in MCValues}

MCDocuments ==
    {[form |-> "json", tokens |-> t] :
        t \in MCValues \cup MCArrays \cup Upto(4, {"[", "]", "{", "}", ",", ":", "a", "1"})}
    \cup {[form |-> "jsonl", tokens |-> t] : t \in MCJsonLines}

MCJsonLimits ==
    [depth |-> 3, pointer |-> 2, columns |-> 2, keys |-> 4, items |-> 3, nodes |-> 9,
     objects |-> 12, records |-> 3, record_chars |-> 17, batch_nodes |-> 4, batch_chars |-> 11,
     batch_size |-> 2, batches |-> 2, refs |-> 5]

-----------------------------
(* The parts share nothing, so their state spaces add. *)
FirstInput == [origin |-> <<1, 1, 2, 3>>, dep |-> {}, related |-> {}, bad |-> {}, atomic |-> TRUE]

NoText == [text |-> <<>>, dialect |-> CHOOSE d \in MCDialects : TRUE]
NoPage == [text |-> <<"x">>, format |-> "txt"]
NoDocument == [form |-> "json", tokens |-> <<"1">>]

MCDataInit ==
    /\ Init
    /\ part \in {"stage", "plan", "delimited", "lines", "json", "follow", "analyse"}
    /\ IF part = "plan" THEN LoadPlanInit
       ELSE /\ input = FirstInput /\ phase = "close" /\ rejected = {} /\ pending = {}
            /\ unseen = {} /\ members = {} /\ groups = <<>> /\ inside = FALSE
            /\ saved = {} /\ left = {} /\ rows = {} /\ target = {}
            /\ receipt = [inserted |-> 0, updated |-> 0, skipped |-> 0, quarantined |-> 0,
                          loaded |-> 0, rejected |-> 0]
    /\ IF part = "delimited" THEN DelimitedInit
       ELSE source = NoText /\ rest = <<"x">> /\ tok = NewTokenizer
    /\ IF part = "lines" THEN LinesInit
       ELSE page = NoPage /\ unread = NoPage.text /\ scan = NewScan
    /\ IF part = "json" THEN JsonInit
       ELSE document = NoDocument /\ next = 1 /\ js = NewJson
    /\ IF part = "follow" THEN PlanRunInit ELSE IF part = "analyse" THEN PlanningInit
       ELSE /\ job = NoPlan /\ doing = "rejected" /\ at = 0 /\ verdict = Missing
            /\ runtime = Missing /\ out = NewOutput
    /\ part # "analyse" => physical = NoSource /\ samples = NewSamples /\ analysis = Missing

MCDataNext ==
    /\ part' = part
    /\ \/ /\ part = "stage" /\ Next
          /\ UNCHANGED <<loadPlanVars, delimitedVars, linesVars, jsonVars, planVars, planningVars>>
       \/ /\ part = "plan" /\ LoadPlanNext
          /\ UNCHANGED <<vars, delimitedVars, linesVars, jsonVars, planVars, planningVars>>
       \/ /\ part = "delimited" /\ DelimitedNext
          /\ UNCHANGED <<vars, loadPlanVars, linesVars, jsonVars, planVars, planningVars>>
       \/ /\ part = "lines" /\ LinesNext
          /\ UNCHANGED <<vars, loadPlanVars, delimitedVars, jsonVars, planVars, planningVars>>
       \/ /\ part = "json" /\ ReadToken
          /\ UNCHANGED <<vars, loadPlanVars, delimitedVars, linesVars, planVars, planningVars>>
       \/ /\ part = "analyse" /\ PlanningNext
          /\ UNCHANGED <<vars, loadPlanVars, delimitedVars, linesVars, jsonVars>>
       \/ /\ part \in {"follow", "analyse"} /\ PlanRunNext
          /\ UNCHANGED <<vars, loadPlanVars, delimitedVars, linesVars, jsonVars, planningVars>>

(* What is read of a text is the text, in every format: rows however the    *)
(* source is cut, lines and units whole, JSON with its addresses.            *)
ContentIsRead == RowsAreRead /\ LinesAreRead /\ JsonIsRead

MCDataSpec == MCDataInit /\ [][MCDataNext]_dataVars
=============================================================================
