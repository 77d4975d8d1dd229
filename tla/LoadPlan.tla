------------------------------ MODULE LoadPlan ------------------------------
(***************************************************************************)
(* From a validated dataset to rows: the quarantine closure of build_plan  *)
(* (loading/planning.py), the dependency groups (loading/groups.py) and    *)
(* the savepoints of the writer (database/_load_transaction.py).           *)
(*                                                                         *)
(* A unit is one target row.  Units are numbered as their hashes sort.     *)
(* Their values matter only for which unit refers to which: the input says *)
(* it, together with the source records, their relations and the units     *)
(* that validation found wrong.                                            *)
(***************************************************************************)
EXTENDS Integers, Sequences, FiniteSets

CONSTANTS
    Units,      \* of the dataset, as numbers in the order of their hashes
    Records,    \* the source records
    Table,      \* [Units -> Nat] the place of its table in the load order
    Rank,       \* [Units -> Nat] the order in which prepare made the units
    Found,      \* [Units -> Action] what becomes of the unit if nothing is wrong
    BatchSize,  \* rows of one statement
    Inputs      \* the datasets to look at

Action == {"insert", "update", "skip"}

(* Every record has a unit (prepare refuses an unmapped one).  Foreign keys *)
(* are acyclic, so a unit depends on units of earlier tables.               *)
IsInput(i) ==
    /\ \A r \in Records : \E u \in Units : i.origin[u] = r
    /\ \A e \in i.dep : Table[e[2]] < Table[e[1]]

ASSUME LoadPlanAssumption ==
    /\ Units \subseteq Nat /\ IsFiniteSet(Units)
    /\ Table \in [Units -> Nat]
    /\ Rank \in [Units -> Nat] /\ \A u, v \in Units : Rank[u] = Rank[v] => u = v
    /\ Found \in [Units -> Action]
    /\ BatchSize \in Nat \ {0}
    /\ Inputs \subseteq [origin : [Units -> Records], dep : SUBSET (Units \X Units),
                        related : SUBSET (Records \X Records), bad : SUBSET Units,
                        atomic : BOOLEAN]
    /\ \A i \in Inputs : IsInput(i)

VARIABLES
    input,      \* the dataset
    phase,      \* "close", "group", "write", "done", "failed"
    rejected,   \* the units with a code: quarantined in the plan
    pending,    \* work list: units whose neighbours are still to be visited
    unseen,     \* units in no group yet
    members,    \* the group that is being collected
    groups,     \* the groups still to write, the first of them next
    inside,     \* whether a savepoint is open
    saved,      \* the rows at the savepoint
    left,       \* the units of the open group still to write
    rows,       \* the units written in the transaction
    target,     \* the units committed
    receipt     \* the counts of the result

loadPlanVars == <<input, phase, rejected, pending, unseen, members, groups, inside, saved, left,
                 rows, target, receipt>>

(* error_policy: atomic, or quarantine_invalid. *)
Atomic == input.atomic

-----------------------------
(* The two graphs.  Both join a unit to its dependencies and the units of   *)
(* one record and of related records to each other, but planning anchors a  *)
(* record at its least unit and grouping at the one made first.             *)

Both(E) == E \cup {<<e[2], e[1]>> : e \in E}

Around(E, u) == {v \in Units : <<u, v>> \in E}

Peers(i, r) == {u \in Units : i.origin[u] = r}

Least(S) == CHOOSE u \in S : \A v \in S : u <= v

First(S) == CHOOSE u \in S : \A v \in S : Rank[u] <= Rank[v]

Edges(i, anchor) ==
    Both(i.dep \cup {<<u, anchor[i.origin[u]]>> : u \in Units}
               \cup {<<anchor[p[1]], anchor[p[2]]>> : p \in i.related})

(* Slip: only the anchors of a record are joined. *)
PlanEdges_NoPeers(i) ==
    Both(i.dep \cup {<<Least(Peers(i, p[1])), Least(Peers(i, p[2]))>> : p \in i.related})

PlanEdges(i) == Edges(i, [r \in Records |-> Least(Peers(i, r))])

GroupEdges(i) == Edges(i, [r \in Records |-> First(Peers(i, r))])

(* The steps of the plan: by table, then by unit. *)
StepBefore(u, v) == Table[u] < Table[v] \/ (Table[u] = Table[v] /\ u < v)

FirstStep(S) == CHOOSE u \in S : \A v \in S \ {u} : StepBefore(u, v)

-----------------------------
(* Planning. *)

LoadPlanInit ==
    /\ input \in Inputs
    /\ phase = "close"
    /\ rejected = input.bad /\ pending = input.bad
    /\ unseen = {} /\ members = {} /\ groups = <<>>
    /\ inside = FALSE /\ saved = {} /\ left = {}
    /\ rows = {} /\ target = {}
    /\ receipt = [inserted |-> 0, updated |-> 0, skipped |-> 0, quarantined |-> 0,
                  loaded |-> 0, rejected |-> 0]

(* _quarantine_groups: one unit of the work list. *)
Visit(u) ==
    LET new == Around(PlanEdges(input), u) \ rejected
    IN  /\ phase = "close" /\ u \in pending
        /\ rejected' = rejected \cup new
        /\ pending' = (pending \ {u}) \cup new
        /\ UNCHANGED <<input, phase, unseen, members, groups, inside, saved, left, rows, target, receipt>>

(* An atomic load takes nothing or everything. *)
Ready == Atomic => rejected = {}

Planned ==
    /\ phase = "close" /\ pending = {}
    /\ phase' = IF ~Ready THEN "failed" ELSE IF Atomic THEN "write" ELSE "group"
    /\ unseen' = IF Atomic THEN {} ELSE Units
    /\ groups' = IF Atomic THEN <<Units>> ELSE <<>>
    /\ UNCHANGED <<input, rejected, pending, members, inside, saved, left, rows, target, receipt>>

(* dependency_groups: one unit of the work list. *)
Collect(u) ==
    /\ phase = "group" /\ u \in pending
    /\ unseen' = unseen \ {u}
    /\ members' = members \cup {u}
    /\ pending' = (pending \cup Around(GroupEdges(input), u)) \cap unseen'
    /\ UNCHANGED <<input, phase, rejected, groups, inside, saved, left, rows, target, receipt>>

(* A group is complete; the next one starts at the first step left. *)
NextGroup ==
    /\ phase = "group" /\ pending = {}
    /\ groups' = IF members = {} THEN groups ELSE Append(groups, members)
    /\ members' = {}
    /\ IF unseen = {}
       THEN phase' = "write" /\ UNCHANGED pending
       ELSE pending' = {FirstStep(unseen)} /\ UNCHANGED phase
    /\ UNCHANGED <<input, rejected, unseen, inside, saved, left, rows, target, receipt>>

-----------------------------
(* Writing. *)

(* Quarantined groups are passed over.  (A group that is quarantined in     *)
(* part would be LOAD_GROUP_UNRESOLVED, which is Abort.)                    *)
Pass ==
    /\ phase = "write" /\ ~inside /\ groups # <<>> /\ ~Atomic
    /\ Head(groups) \subseteq rejected
    /\ groups' = Tail(groups)
    /\ UNCHANGED <<input, phase, rejected, pending, unseen, members, inside, saved, left, rows, target, receipt>>

Savepoint ==
    /\ phase = "write" /\ ~inside /\ groups # <<>>
    /\ Atomic \/ Head(groups) \cap rejected = {}
    /\ inside' = TRUE /\ saved' = rows
    /\ left' = {u \in Head(groups) \ rejected : Found[u] # "skip"}
    /\ UNCHANGED <<input, phase, rejected, pending, unseen, members, groups, rows, target, receipt>>

(* A statement takes the next units of the first table, BatchSize at most. *)
NextBatch == {u \in left : /\ Table[u] = Table[FirstStep(left)]
                           /\ Cardinality({v \in left : StepBefore(v, u)}) < BatchSize}

(* The foreign keys of S inside the dataset are satisfied. *)
InPlace(S) ==
    \A e \in input.dep : e[1] \in S => e[2] \in rows \cup S \cup {u \in Units : Found[u] # "insert"}

Statement ==
    /\ phase = "write" /\ inside /\ left # {}
    /\ InPlace(NextBatch)
    /\ rows' = rows \cup NextBatch
    /\ left' = left \ NextBatch
    /\ UNCHANGED <<input, phase, rejected, pending, unseen, members, groups, inside, saved, target, receipt>>

(* Slip: what the group has written stays. *)
BackTo_Nothing(r) == rows

BackTo(r) == r

Relabelled(g) == rejected \cup g

(* The database refuses a row: the group goes back to its savepoint and     *)
(* into quarantine.                                                         *)
Refused ==
    /\ phase = "write" /\ inside /\ left # {} /\ ~Atomic
    /\ rows' = BackTo(saved)
    /\ rejected' = Relabelled(Head(groups))
    /\ inside' = FALSE /\ left' = {} /\ groups' = Tail(groups)
    /\ UNCHANGED <<input, phase, pending, unseen, members, saved, target, receipt>>

Release ==
    /\ phase = "write" /\ inside /\ left = {}
    /\ inside' = FALSE /\ groups' = Tail(groups)
    /\ UNCHANGED <<input, phase, rejected, pending, unseen, members, saved, left, rows, target, receipt>>

LoadedCount == Cardinality(Records \ {input.origin[u] : u \in rejected})

Counts ==
    LET planned(a) == Cardinality({u \in Units \ rejected : Found[u] = a})
    IN  [inserted |-> planned("insert"), updated |-> planned("update"), skipped |-> planned("skip"),
         quarantined |-> Cardinality(rejected),
         loaded |-> LoadedCount,
         rejected |-> Cardinality({input.origin[u] : u \in rejected})]

Commit ==
    /\ phase = "write" /\ ~inside /\ groups = <<>>
    /\ phase' = "done"
    /\ target' = rows /\ receipt' = Counts
    /\ UNCHANGED <<input, rejected, pending, unseen, members, groups, inside, saved, left, rows>>

(* Any other error, at any point, or a mixed group: everything is undone. *)
Abort ==
    /\ phase \in {"close", "group", "write"}
    /\ phase' = "failed" /\ rows' = {}
    /\ UNCHANGED <<input, rejected, pending, unseen, members, groups, inside, saved, left, target, receipt>>

LoadPlanNext ==
    \/ \E u \in Units : Visit(u) \/ Collect(u)
    \/ Planned \/ NextGroup
    \/ Pass \/ Savepoint \/ Statement \/ Refused \/ Release \/ Commit \/ Abort

LoadPlanSpec == LoadPlanInit /\ [][LoadPlanNext]_loadPlanVars

-----------------------------
(* The reference: units belong together when one depends on the other, when *)
(* they come from one record, or from related records.                      *)

Together(i, u, v) ==
    \/ <<u, v>> \in i.dep \/ <<v, u>> \in i.dep
    \/ i.origin[u] = i.origin[v]
    \/ <<i.origin[u], i.origin[v]>> \in i.related \/ <<i.origin[v], i.origin[u]>> \in i.related

Whole(i, S) == \A u \in S, v \in Units : Together(i, u, v) => v \in S

(* The least whole set around S. *)
Hull(i, S) == {v \in Units : \A T \in SUBSET Units : S \subseteq T /\ Whole(i, T) => v \in T}

Receipt == [inserted : Nat, updated : Nat, skipped : Nat, quarantined : Nat,
            loaded : Nat, rejected : Nat]

LoadPlanTypeOK ==
    /\ input \in Inputs
    /\ phase \in {"close", "group", "write", "done", "failed"}
    /\ rejected \subseteq Units /\ pending \subseteq Units
    /\ unseen \subseteq Units /\ members \subseteq Units
    /\ groups \in Seq(SUBSET Units)
    /\ inside \in BOOLEAN /\ saved \subseteq Units /\ left \subseteq Units
    /\ rows \subseteq Units /\ target \subseteq Units
    /\ receipt \in Receipt

(* _quarantine_groups takes out exactly what belongs to a wrong unit:       *)
(* nothing less, so that no half of a record or orphan is loaded, and       *)
(* nothing more.                                                            *)
RejectedIsHull ==
    phase = "group" => rejected = Hull(input, input.bad)

(* dependency_groups yields whole, smallest and disjoint groups, although   *)
(* it builds a graph of its own: with RejectedIsHull, no group is ever      *)
(* quarantined in part (LOAD_GROUP_UNRESOLVED).                             *)
GroupsAreHulls ==
    /\ \A k \in 1..Len(groups), u \in Units :
          ~Atomic /\ u \in groups[k] => groups[k] = Hull(input, {u})
    /\ \A k, m \in 1..Len(groups) : k # m => groups[k] \cap groups[m] = {}

(* A statement never comes before the rows its foreign keys refer to, so a  *)
(* group is only refused for data outside of the load.                      *)
ParentsInPlace == phase = "write" /\ inside /\ left # {} => InPlace(NextBatch)

(* What is committed is whole: no half records, no orphans, nothing that    *)
(* belongs to a wrong or refused unit, and everything else.  An atomic load *)
(* commits all rows or none.                                                *)
LoadedIsWhole ==
    phase = "done" =>
        /\ Whole(input, Units \ rejected) /\ input.bad \subseteq rejected
        /\ target = {u \in Units \ rejected : Found[u] # "skip"}
        /\ Atomic => rejected = {}

(* The counts of the receipt are those of the committed rows, and every     *)
(* record is counted once, as loaded or as rejected.                        *)
ReceiptIsTrue ==
    phase = "done" =>
        /\ receipt.inserted + receipt.updated = Cardinality(target)
        /\ receipt.inserted + receipt.updated + receipt.skipped + receipt.quarantined = Cardinality(Units)
        /\ receipt.loaded + receipt.rejected = Cardinality(Records)
=============================================================================
