------------------------------- MODULE Replay -------------------------------
(***************************************************************************)
(* A replay is not believed: structure/_stream.py holds every batch against*)
(* the contract and against the batches before it, and keeps only their    *)
(* summaries, their references and how far each table and tree has come.   *)
(* A batch is that of Extraction, with size: what a first look at it       *)
(* counts [items, bytes, depth], and hash: what its payload hashes to.     *)
(***************************************************************************)
EXTENDS Extraction
LOCAL INSTANCE SequencesExt

CONSTANT ReplayLimits   \* [batches, items, bytes, depth, objects, refs, structures]

NewReplay == [sums |-> <<>>, index |-> <<>>, segments |-> {}, manifest |-> Missing,
              version |-> Missing, objects |-> 0, error |-> "ok"]

FirstReason(errors) ==
    LET bad == SelectSeq(errors, LAMBDA e : e # "ok") IN IF bad = <<>> THEN "ok" ELSE bad[1]

(* preflight: before anything is copied or compared. *)
Preflight(b) ==
    IF b.size.items > ReplayLimits.items \/ b.size.bytes > ReplayLimits.bytes THEN "limit"
    ELSE IF b.size.depth > 64 THEN "invalid"
    ELSE "ok"

Levels(b) ==
    LET level[k \in 0..(ReplayLimits.depth + 1)] ==
            {n \in ToSet(b.trees) : IF k = 0 THEN n.parent = Missing
                                    ELSE \E up \in level[k - 1] : up.id = n.parent}
    IN level

TreeDepths(b) == IF Levels(b)[ReplayLimits.depth + 1] # {} THEN "limit" ELSE "ok"

-----------------------------
(* A table or a tree that is cut: each segment begins where the one before  *)
(* it ended, is of the same kind and has the same root.                     *)
TableCut(t) ==
    [family |-> "table", id |-> t.id, at |-> t.segment, start |-> t.row_start, next |-> t.row_end + 1,
     last |-> t.is_last, same |-> <<>>]

TreeCut(n) ==
    [family |-> "tree", id |-> n.tree, at |-> n.segment, start |-> n.child_start,
     next |-> n.child_start + n.child_count, last |-> n.is_last, same |-> <<n.kind, n.id>>]

Segments(b) ==
    LET tables == SelectSeq(b.tables, LAMBDA t : t.segment # Missing)
        trees  == SelectSeq(b.trees, LAMBDA n : n.tree # Missing)
    IN [i \in DOMAIN tables |-> TableCut(tables[i])] \o [i \in DOMAIN trees |-> TreeCut(trees[i])]

OfFamily(segments, family) == {s \in segments : s.family = family}

Begins(s) == s.at = 0 /\ (s.family = "tree" => s.start = 0)
Follows(s, before) ==
    ~before.last /\ s.at = before.at + 1 /\ s.start = before.next /\ s.same = before.same

Continued(r, s) ==
    LET before == {x \in r.segments : x.family = s.family /\ x.id = s.id} IN
    IF r.error # "ok" THEN r
    ELSE IF before = {} /\ Cardinality(OfFamily(r.segments, s.family)) >= ReplayLimits.structures
    THEN [r EXCEPT !.error = "limit"]
    ELSE IF IF before = {} THEN Begins(s) ELSE \A x \in before : Follows(s, x)
    THEN [r EXCEPT !.segments = (@ \ before) \cup {s}]
    ELSE [r EXCEPT !.error = "invalid"]

Continuations(r, b) == FoldLeft(Continued, r, Segments(b))

-----------------------------
(* One batch, and the manifest the last one brings. *)
IndexedRefs(b) ==
    IF b.version = "1.1" THEN b.refs
    ELSE [i \in DOMAIN RefKeys(b) |-> RefOf(b, RefKeys(b)[i])]

Lineage(sum) == <<sum.source, sum.extraction, sum.parser>>

(* What stands against a batch that fits its contract. *)
BatchError(r, b) ==
    IF r.version \notin {Missing, b.version} \/ b.index # Len(r.sums) THEN "invalid"
    ELSE IF r.objects + Len(RefKeys(b)) > ReplayLimits.objects THEN "limit"
    ELSE IF r.sums # <<>> /\ Lineage(SummaryOf(b)) # Lineage(r.sums[1]) THEN "invalid"
    ELSE IF b.version = "1.1" /\ b.hash # b.print THEN "invalid"
    ELSE IF Len(r.index) + Len(IndexedRefs(b)) > ReplayLimits.refs THEN "limit"
    ELSE IF ToSet(IndexedRefs(b)) \cap ToSet(r.index) # {} THEN "invalid"
    ELSE TreeDepths(b)

ManifestError(r, b) ==
    LET m == b.manifest IN
    IF /\ m.sums = r.sums /\ m.version = b.version
       /\ IF b.version = "1.1" THEN m.index = r.index /\ m.hash = m.print
          ELSE ToSet(m.index) \subseteq ToSet(r.index)
       /\ \A s \in r.segments : s.last
    THEN "ok" ELSE "invalid"

Ended(r, b) ==
    IF r.error # "ok" \/ b.manifest = Missing THEN r
    ELSE IF ManifestError(r, b) # "ok" THEN [r EXCEPT !.error = ManifestError(r, b)]
    ELSE [r EXCEPT !.manifest = b.manifest]

(* StreamCheck.accept. *)
Accept(r, b) ==
    LET early == IF r.manifest # Missing THEN "invalid"
                 ELSE IF Len(r.sums) >= ReplayLimits.batches THEN "limit"
                 ELSE IF Preflight(b) # "ok" THEN Preflight(b)
                 ELSE IF ~BatchFits(b) THEN "invalid"
                 ELSE BatchError(r, b)
    IN IF early # "ok" THEN [r EXCEPT !.error = early]
       ELSE Ended(Continuations([r EXCEPT !.sums = Append(@, SummaryOf(b)), !.version = b.version,
                                           !.index = @ \o IndexedRefs(b),
                                           !.objects = @ + Len(RefKeys(b))], b), b)
=============================================================================
