----------------------------- MODULE Selection -----------------------------
(***************************************************************************)
(* select_parser of parsers/selection.py: the registered parsers look at   *)
(* the source one after the other, and from what they say one is chosen.   *)
(* A probe is what a parser answered: a ProbeResult, "unavailable" (its    *)
(* dependency is missing) or the code of an error.  A result that does not *)
(* belong to the source or to the parser has genuine FALSE.                *)
(***************************************************************************)
EXTENDS Integers, FiniteSets, SequencesExt

CONSTANTS
    Registrations,    \* tuples of [id, priority], as a registry may hold them
    Probes,           \* what a parser may answer
    Declared          \* the media type the source claims to have

Hints == {"declared_media_type", "extension"}
Strong == <<"internal_structure", "signature", "content_media_type">>
SignalKinds == Hints \cup {Strong[i] : i \in DOMAIN Strong}

(* ProbeResult: a confidence is counted in its smallest step. *)
ProbeResults ==
    [kind : {"result"}, genuine : BOOLEAN, supported : BOOLEAN, confidence : Nat,
     format : STRING, media : STRING, signals : [SignalKinds -> STRING]]

(* What ParserRegistry holds: each parser under an identifier of its own. *)
ASSUME SelectionAssumption ==
    /\ \A rs \in Registrations :
         /\ rs \in Seq([id : Nat, priority : Int])
         /\ \A i, j \in DOMAIN rs : i # j => rs[i].id # rs[j].id
    /\ \A p \in Probes : p.kind = "result" => p \in ProbeResults

VARIABLES
    tuple,            \* the registrations of this call
    probed,           \* what the parsers answered so far
    chosen            \* "none", or the outcome of the call

selectVars == <<tuple, probed, chosen>>

StrongSignals(p, outcome) == {i \in DOMAIN Strong : p.signals[Strong[i]] = outcome}

(* _validate_probe_result: a parser that supports the source has seen it. *)
ProbeFits(p) ==
    /\ p.genuine
    /\ IF p.supported
         THEN /\ p.confidence > 0 /\ p.format # "none" /\ p.media # "none"
              /\ StrongSignals(p, "match") # {} /\ StrongSignals(p, "mismatch") = {}
         ELSE p.confidence = 0 /\ StrongSignals(p, "match") = {}

(* Slip: what the source claims about itself is evidence, too. *)
Evidence_WithHints(p) ==
    [i \in DOMAIN Strong |->
       p.signals[Strong[i]] = "match" \/ p.signals["declared_media_type"] = "match"]

Evidence(p) == [i \in DOMAIN Strong |-> p.signals[Strong[i]] = "match"]

Stronger(e, f) == \E i \in DOMAIN Strong : e[i] /\ ~f[i] /\ \A k \in 1..(i - 1) : e[k] = f[k]

(* The hints are only worth a warning. *)
WarningsOf(p) ==
    (IF p.signals["declared_media_type"] = "mismatch" \/ (p.supported /\ p.media # Declared)
       THEN {"PARSER_DECLARED_MIME_MISMATCH"} ELSE {})
    \cup (IF p.signals["extension"] = "mismatch" THEN {"PARSER_EXTENSION_MISMATCH"} ELSE {})

-----------------------------
(* The choice. *)

Preferred(c, d) ==
    \/ c.probe.confidence > d.probe.confidence
    \/ /\ c.probe.confidence = d.probe.confidence
       /\ \/ c.priority > d.priority
          \/ c.priority = d.priority /\ c.id < d.id

Refused(code) == [code |-> code, id |-> 0, warnings |-> {}]

(* What follows from the registrations rs and their probes ps. *)
Choice(rs, ps) ==
    LET all       == {[id |-> rs[i].id, priority |-> rs[i].priority, probe |-> ps[i]] : i \in DOMAIN ps}
        eligible  == {c \in all : c.probe.kind = "result" /\ c.probe.supported}
        strongest == {c \in eligible :
                        ~\E d \in eligible : Stronger(Evidence(d.probe), Evidence(c.probe))}
        winner    == CHOOSE c \in strongest : \A d \in strongest \ {c} : Preferred(c, d)
    IN  IF eligible = {}
          THEN Refused(IF \E c \in all : c.probe.kind = "unavailable"
                         THEN "PARSER_DEPENDENCY_UNAVAILABLE" ELSE "PARSER_UNSUPPORTED_FORMAT")
        ELSE IF Cardinality({c.probe.format : c \in strongest}) # 1
          THEN Refused("PARSER_FORMAT_CONFLICT")
        ELSE [code |-> "ok", id |-> winner.id, warnings |-> WarningsOf(winner.probe)]

SelectInit == tuple \in Registrations /\ probed = <<>> /\ chosen = Refused("none")

(* One probe: an error ends the selection, a parser that lacks a dependency  *)
(* is passed over.                                                           *)
Probe(p) ==
    /\ chosen.code = "none" /\ Len(probed) < Len(tuple)
    /\ CASE p.kind = "error" -> chosen' = Refused("PARSER_PROBE_FAILED") /\ UNCHANGED probed
         [] p.kind = "result" /\ ~ProbeFits(p) ->
              chosen' = Refused("PARSER_PROBE_INVALID") /\ UNCHANGED probed
         [] OTHER -> probed' = Append(probed, p) /\ UNCHANGED chosen
    /\ UNCHANGED tuple

Choose ==
    /\ chosen.code = "none" /\ Len(probed) = Len(tuple)
    /\ chosen' = IF tuple = <<>> THEN Refused("PARSER_NOT_FOUND") ELSE Choice(tuple, probed)
    /\ UNCHANGED <<tuple, probed>>

SelectNext == (\E p \in Probes : Probe(p)) \/ Choose

SelectSpec == SelectInit /\ [][SelectNext]_selectVars

-----------------------------
(* What the source claims about itself does not matter, nor the order the    *)
(* parsers were registered in, nor a parser that did not win: none of them   *)
(* changes which parser reads the source (docs of ParserRegistrySession).    *)
Scrubbed(p) == [p EXCEPT !.signals = [k \in SignalKinds |-> IF k \in Hints THEN "none" ELSE @[k]]]

ContentDecides ==
    (chosen.code # "none" /\ Len(probed) = Len(tuple) /\ tuple # <<>>) =>
        /\ LET scrubbed == Choice(tuple, [i \in DOMAIN probed |->
                              IF probed[i].kind = "result" THEN Scrubbed(probed[i]) ELSE probed[i]])
           IN  scrubbed.code = chosen.code /\ scrubbed.id = chosen.id
        /\ Choice(Reverse(tuple), Reverse(probed)) = chosen
        /\ \A i \in DOMAIN tuple :
             chosen.code = "ok" /\ tuple[i].id # chosen.id =>
               Choice(RemoveAt(tuple, i), RemoveAt(probed, i)) = chosen
=============================================================================
