--------------------------- MODULE LoadPlanProofs ---------------------------
(***************************************************************************)
(* Proofs about LoadPlan, for every dataset.                               *)
(*                                                                         *)
(* Planner and writer build a graph each.  Both graphs join only units     *)
(* that belong together, and connect all that do, so the sets closed under *)
(* either are the whole sets (lemma ClosedIsWhole).  What the work lists   *)
(* collect is then compared with Hull, the least whole set.                *)
(***************************************************************************)
EXTENDS LoadPlan, FiniteSetTheorems, WellFoundedInduction, TLAPS

-----------------------------
(* Least elements. *)

(* A set of numbers that is not empty has a least one. *)
LEMMA LeastNumber ==
    ASSUME NEW S \in SUBSET Nat, S # {}
    PROVE  \E n \in S : \A m \in S : n <= m
  <1>1. IsWellFoundedOn(OpToRel(<, Nat), Nat)
    BY NatLessThanWellFounded
  <1>2. PICK n \in S : \A m \in S : <<m, n>> \notin OpToRel(<, Nat)
    BY <1>1, WFMin
  <1>3. \A m \in S : m < n => <<m, n>> \in OpToRel(<, Nat)
    BY DEF OpToRel
  <1>4. \A m \in S : ~(m < n)
    BY <1>2, <1>3
  <1>5. \A m \in S : m \in Nat
    OBVIOUS
  <1>. QED BY <1>4, <1>5

(* A numbering has its least value somewhere. *)
LEMMA LeastBy ==
    ASSUME NEW f \in [Units -> Nat], NEW S \in SUBSET Units, S # {}
    PROVE  \E u \in S : \A v \in S : f[u] <= f[v]
  <1> DEFINE N == {f[u] : u \in S}
  <1>1. N \in SUBSET Nat /\ N # {}
    OBVIOUS
  <1>2. PICK n \in N : \A m \in N : n <= m
    BY <1>1, LeastNumber
  <1>. QED BY <1>2

(* Both anchors of a record are among its units. *)
LEMMA AnchorIn ==
    ASSUME NEW S \in SUBSET Units, S # {}
    PROVE  Least(S) \in S /\ First(S) \in S
  <1>1. \E u \in S : \A v \in S : u <= v
    BY LeastNumber, LoadPlanAssumption
  <1>2. \E u \in S : \A v \in S : Rank[u] <= Rank[v]
    BY LeastBy, LoadPlanAssumption
  <1>. QED BY <1>1, <1>2 DEF Least, First

(* The first step of a set of units is before all others. *)
LEMMA FirstStepIn ==
    ASSUME NEW S \in SUBSET Units, S # {}
    PROVE  /\ FirstStep(S) \in S
           /\ \A v \in S : Table[FirstStep(S)] <= Table[v]
  <1>1. PICK t \in S : \A v \in S : Table[t] <= Table[v]
    BY LeastBy, LoadPlanAssumption
  <1> DEFINE T == {v \in S : Table[v] = Table[t]}
  <1>2. PICK u \in T : \A v \in T : u <= v
    BY LeastNumber, LoadPlanAssumption
  <1>3. \A v \in S : Table[v] \in Nat /\ v \in Nat
    BY LoadPlanAssumption
  <1>4. \A v \in S \ {u} : StepBefore(u, v)
    BY <1>1, <1>2, <1>3 DEF StepBefore
  <1>5. \A v \in S \ {FirstStep(S)} : StepBefore(FirstStep(S), v)
    BY <1>2, <1>4 DEF FirstStep
  <1>6. FirstStep(S) \in S
    BY <1>2, <1>4 DEF FirstStep
  <1>. QED BY <1>3, <1>5, <1>6 DEF StepBefore

-----------------------------
(* Graphs and whole sets. *)

Dataset == [origin : [Units -> Records], dep : SUBSET (Units \X Units),
            related : SUBSET (Records \X Records), bad : SUBSET Units, atomic : BOOLEAN]

Anchor(i) == {a \in [Records -> Units] : \A r \in Records : i.origin[a[r]] = r}

Closed(E, S) == \A u \in S : Around(E, u) \subseteq S

(* Belonging together has no direction. *)
LEMMA TogetherSymmetric ==
    ASSUME NEW i, NEW u, NEW v, Together(i, u, v)
    PROVE  Together(i, v, u)
  BY DEF Together

(* Edges join units that belong together, in both directions. *)
LEMMA EdgeTogether ==
    ASSUME NEW i \in Dataset, NEW a \in Anchor(i), NEW u, NEW v, <<u, v>> \in Edges(i, a)
    PROVE  u \in Units /\ v \in Units /\ Together(i, u, v) /\ <<v, u>> \in Edges(i, a)
  <1> DEFINE D == i.dep \cup {<<x, a[i.origin[x]]>> : x \in Units}
                        \cup {<<a[p[1]], a[p[2]]>> : p \in i.related}
  <1>1. ASSUME NEW x, NEW y, <<x, y>> \in D
        PROVE  x \in Units /\ y \in Units /\ Together(i, x, y)
    <2>1. CASE <<x, y>> \in i.dep
      BY <2>1 DEF Dataset, Together
    <2>2. CASE \E z \in Units : <<x, y>> = <<z, a[i.origin[z]]>>
      BY <2>2 DEF Dataset, Anchor, Together
    <2>3. CASE \E p \in i.related : <<x, y>> = <<a[p[1]], a[p[2]]>>
      <3>1. PICK p \in i.related : x = a[p[1]] /\ y = a[p[2]]
        BY <2>3
      <3>2. p \in Records \X Records /\ p = <<p[1], p[2]>>
        BY <3>1 DEF Dataset
      <3>3. i.origin[x] = p[1] /\ i.origin[y] = p[2]
        BY <3>1, <3>2 DEF Anchor
      <3>. QED BY <3>1, <3>2, <3>3 DEF Anchor, Together
    <2>. QED BY <1>1, <2>1, <2>2, <2>3
  <1>2. Edges(i, a) = D \cup {<<e[2], e[1]>> : e \in D}
    BY DEF Edges, Both
  <1>3. \A e \in D : e = <<e[1], e[2]>>
    BY DEF Dataset
  <1> HIDE DEF D
  <1>4. CASE <<u, v>> \in D
    BY <1>1, <1>2, <1>4
  <1>5. CASE <<v, u>> \in D
    BY <1>1, <1>2, <1>5, TogetherSymmetric
  <1>6. <<u, v>> \in D \/ <<v, u>> \in D
    BY <1>2, <1>3
  <1>. QED BY <1>4, <1>5, <1>6

(* A set is closed under the edges of either graph if and only if it is     *)
(* whole: an anchor connects all units of its record.                       *)
LEMMA ClosedIsWhole ==
    ASSUME NEW i \in Dataset, NEW a \in Anchor(i), NEW S \in SUBSET Units
    PROVE  Closed(Edges(i, a), S) <=> Whole(i, S)
  <1>1. ASSUME Whole(i, S) PROVE Closed(Edges(i, a), S)
    BY <1>1, EdgeTogether DEF Closed, Around, Whole
  <1>2. ASSUME Closed(Edges(i, a), S), NEW u \in S, NEW v \in Units, Together(i, u, v)
        PROVE  v \in S
    <2> DEFINE o == i.origin
    <2>1. ASSUME NEW x \in S, NEW y \in Units, <<x, y>> \in Edges(i, a) PROVE y \in S
      BY <1>2, <2>1 DEF Closed, Around
    <2>2. \A x \in Units : /\ o[x] \in Records /\ a[o[x]] \in Units
                           /\ <<x, a[o[x]]>> \in Edges(i, a)
                           /\ <<a[o[x]], x>> \in Edges(i, a)
      <3>1. \A x \in Units : o[x] \in Records /\ a[o[x]] \in Units
        BY DEF Dataset, Anchor
      <3>2. \A x \in Units : <<x, a[o[x]]>> \in Edges(i, a)
        BY DEF Edges, Both
      <3>. QED BY <3>1, <3>2, EdgeTogether
    <2>3. CASE <<u, v>> \in i.dep \/ <<v, u>> \in i.dep
      <3>1. \A e \in i.dep : e \in Edges(i, a)
        BY DEF Edges, Both
      <3>2. <<u, v>> \in Edges(i, a)
        BY <2>3, <3>1, EdgeTogether
      <3>. QED BY <2>1, <3>2
    <2>4. a[o[u]] \in S
      BY <2>1, <2>2
    <2>5. CASE o[u] = o[v]
      BY <2>1, <2>2, <2>4, <2>5
    <2>6. CASE <<o[u], o[v]>> \in i.related \/ <<o[v], o[u]>> \in i.related
      <3>1. \A p \in i.related : <<a[p[1]], a[p[2]]>> \in Edges(i, a)
        BY DEF Edges, Both
      <3>2. <<a[o[u]], a[o[v]]>> \in Edges(i, a)
        <4>1. CASE <<o[u], o[v]>> \in i.related
          BY <3>1, <4>1
        <4>2. CASE <<o[v], o[u]>> \in i.related
          <5>1. <<a[o[v]], a[o[u]]>> \in Edges(i, a)
            BY <3>1, <4>2
          <5>. QED BY <5>1, EdgeTogether
        <4>. QED BY <2>6, <4>1, <4>2
      <3>3. a[o[v]] \in S
        BY <2>1, <2>2, <2>4, <3>2
      <3>. QED BY <2>1, <2>2, <3>3
    <2>. QED BY <1>2, <2>3, <2>5, <2>6 DEF Together
  <1>. QED BY <1>1, <1>2 DEF Whole

(* Whole sets stay whole under complement, union and intersection. *)
LEMMA WholeSets ==
    ASSUME NEW i \in Dataset, NEW S \in SUBSET Units, NEW T \in SUBSET Units,
           Whole(i, S), Whole(i, T)
    PROVE  /\ Whole(i, Units \ S)
           /\ Whole(i, S \cup T)
           /\ Whole(i, S \ T)
  <1>1. \A X \in SUBSET Units : Whole(i, X) => Whole(i, Units \ X)
    BY TogetherSymmetric DEF Whole
  <1>2. Whole(i, S \cup T)
    BY DEF Whole
  <1>3. Whole(i, S \ T)
    BY <1>1 DEF Whole
  <1>. QED BY <1>1, <1>2, <1>3

(* The hull of a set is the least whole set around it. *)
LEMMA HullIsLeast ==
    ASSUME NEW i \in Dataset, NEW S \in SUBSET Units
    PROVE  /\ Hull(i, S) \subseteq Units
           /\ S \subseteq Hull(i, S)
           /\ Whole(i, Hull(i, S))
           /\ \A T \in SUBSET Units : S \subseteq T /\ Whole(i, T) => Hull(i, S) \subseteq T
  BY DEF Hull, Whole

(* Every unit of a group stands for the whole group. *)
LEMMA HullOfMember ==
    ASSUME NEW i \in Dataset, NEW s \in Units, NEW u \in Hull(i, {s})
    PROVE  Hull(i, {u}) = Hull(i, {s})
  <1>1. u \in Units /\ {u} \in SUBSET Units /\ {s} \in SUBSET Units
    BY HullIsLeast
  <1> DEFINE A == Hull(i, {s})
             B == Hull(i, {u})
  <1>2. /\ A \subseteq Units /\ s \in A /\ Whole(i, A)
        /\ \A T \in SUBSET Units : s \in T /\ Whole(i, T) => A \subseteq T
    BY <1>1, HullIsLeast
  <1>3. /\ B \subseteq Units /\ u \in B /\ Whole(i, B)
        /\ \A T \in SUBSET Units : u \in T /\ Whole(i, T) => B \subseteq T
    BY <1>1, HullIsLeast
  <1>4. Whole(i, Units \ B)
    BY <1>3, WholeSets
  <1> HIDE DEF A, B
  <1>5. B \subseteq A
    BY <1>2, <1>3 DEF A
  <1>6. s \in B
    <2>1. CASE s \in Units \ B
      BY <1>2, <1>3, <1>4, <2>1 DEF A
    <2>. QED BY <2>1
  <1>7. A \subseteq B
    BY <1>2, <1>3, <1>6
  <1>. QED BY <1>5, <1>7 DEF A, B

(* The inputs are datasets, and the two graphs are built on anchors. *)
LEMMA InputFacts ==
    ASSUME NEW i \in Inputs
    PROVE  /\ i \in Dataset
           /\ \A e \in i.dep : Table[e[2]] < Table[e[1]]
           /\ [r \in Records |-> Least(Peers(i, r))] \in Anchor(i)
           /\ [r \in Records |-> First(Peers(i, r))] \in Anchor(i)
  <1>1. i \in Dataset /\ IsInput(i)
    BY LoadPlanAssumption DEF Dataset
  <1>2. \A r \in Records : Peers(i, r) \in SUBSET Units /\ Peers(i, r) # {}
    BY <1>1 DEF IsInput, Peers
  <1>3. \A r \in Records : Least(Peers(i, r)) \in Peers(i, r) /\ First(Peers(i, r)) \in Peers(i, r)
    BY <1>2, AnchorIn
  <1>4. \A r \in Records : /\ Least(Peers(i, r)) \in Units
                           /\ First(Peers(i, r)) \in Units
                           /\ i.origin[Least(Peers(i, r))] = r
                           /\ i.origin[First(Peers(i, r))] = r
    BY <1>3 DEF Peers
  <1>. QED BY <1>1, <1>4 DEF IsInput, Anchor

(* Sets closed under the graph of the planner, or of the writer, are whole. *)
LEMMA BothGraphs ==
    ASSUME NEW i \in Inputs, NEW S \in SUBSET Units
    PROVE  /\ Closed(PlanEdges(i), S) <=> Whole(i, S)
           /\ Closed(GroupEdges(i), S) <=> Whole(i, S)
  BY InputFacts, ClosedIsWhole DEF PlanEdges, GroupEdges

-----------------------------
(* Lists of groups. *)

Covered(gs) == {u \in Units : \E k \in 1..Len(gs) : u \in gs[k]}

Apart(gs) == \A k, m \in 1..Len(gs) : k # m => gs[k] \cap gs[m] = {}

(* The groups that are left when the first one is done. *)
LEMMA TailFacts ==
    ASSUME NEW gs \in Seq(SUBSET Units), gs # <<>>, Apart(gs)
    PROVE  /\ Head(gs) \in SUBSET Units /\ Head(gs) = gs[1] /\ 1 \in 1..Len(gs)
           /\ Tail(gs) \in Seq(SUBSET Units) /\ Apart(Tail(gs))
           /\ Head(gs) \subseteq Covered(gs)
           /\ Covered(Tail(gs)) = Covered(gs) \ Head(gs)
           /\ \A k \in 1..Len(Tail(gs)) : \E m \in 1..Len(gs) : Tail(gs)[k] = gs[m]
  <1>1. Head(gs) = gs[1] /\ 1 \in 1..Len(gs) /\ gs[1] \in SUBSET Units
    OBVIOUS
  <1>2. /\ Tail(gs) \in Seq(SUBSET Units) /\ Len(Tail(gs)) = Len(gs) - 1
        /\ \A k \in 1..Len(Tail(gs)) : Tail(gs)[k] = gs[k + 1]
    OBVIOUS
  <1>3. \A k \in 1..Len(Tail(gs)) : k + 1 \in 1..Len(gs) /\ k + 1 # 1
    BY <1>2
  <1>4. Apart(Tail(gs))
    BY <1>2, <1>3 DEF Apart
  <1>5. \A m \in 1..Len(gs) : m # 1 => m - 1 \in 1..Len(Tail(gs)) /\ Tail(gs)[m - 1] = gs[m]
    BY <1>2
  <1>6. ASSUME NEW u \in Units
        PROVE  u \in Covered(Tail(gs)) <=> u \in Covered(gs) \ gs[1]
    <2>1. ASSUME u \in Covered(Tail(gs)) PROVE u \in Covered(gs) \ gs[1]
      <3>1. PICK k \in 1..Len(Tail(gs)) : u \in Tail(gs)[k]
        BY <2>1 DEF Covered
      <3>2. u \in gs[k + 1] /\ k + 1 \in 1..Len(gs) /\ k + 1 # 1
        BY <1>2, <1>3, <3>1
      <3>3. u \notin gs[1]
        BY <1>1, <3>2 DEF Apart
      <3>. QED BY <3>2, <3>3 DEF Covered
    <2>2. ASSUME u \in Covered(gs) \ gs[1] PROVE u \in Covered(Tail(gs))
      <3>1. PICK m \in 1..Len(gs) : u \in gs[m] /\ m # 1
        BY <2>2 DEF Covered
      <3>. QED BY <1>5, <3>1 DEF Covered
    <2>. QED BY <2>1, <2>2
  <1>7. Covered(Tail(gs)) \subseteq Units /\ Covered(gs) \subseteq Units
    BY DEF Covered
  <1>8. Covered(Tail(gs)) = Covered(gs) \ gs[1]
    BY <1>6, <1>7
  <1>9. gs[1] \subseteq Covered(gs)
    BY <1>1 DEF Covered
  <1>. QED BY <1>1, <1>2, <1>3, <1>4, <1>8, <1>9

(* A new group that has no unit of the others. *)
LEMMA AppendFacts ==
    ASSUME NEW gs \in Seq(SUBSET Units), Apart(gs), NEW M \in SUBSET Units,
           M \cap Covered(gs) = {}
    PROVE  /\ Append(gs, M) \in Seq(SUBSET Units) /\ Apart(Append(gs, M))
           /\ Covered(Append(gs, M)) = Covered(gs) \cup M
           /\ \A k \in 1..Len(Append(gs, M)) :
                 Append(gs, M)[k] = M \/ (k \in 1..Len(gs) /\ Append(gs, M)[k] = gs[k])
  <1> DEFINE new == Append(gs, M)
             n == Len(gs)
  <1>1. /\ new \in Seq(SUBSET Units) /\ Len(new) = n + 1 /\ n \in Nat
        /\ new[n + 1] = M /\ \A k \in 1..n : new[k] = gs[k]
    OBVIOUS
  <1> HIDE DEF new
  <1>2. \A k \in 1..Len(new) : k = n + 1 \/ k \in 1..n
    BY <1>1
  <1>3. \A k \in 1..n : k \in 1..Len(new) /\ k # n + 1
    BY <1>1
  <1>4. n + 1 \in 1..Len(new)
    BY <1>1
  <1>5. \A k \in 1..n : gs[k] \subseteq Units /\ gs[k] \cap M = {}
    BY DEF Covered
  <1>6. Apart(new)
    BY <1>1, <1>2, <1>5 DEF Apart
  <1>7. Covered(new) = Covered(gs) \cup M
    BY <1>1, <1>2, <1>3, <1>4 DEF Covered
  <1>. QED BY <1>1, <1>2, <1>6, <1>7 DEF new

-----------------------------
(* The inductive invariant, one part for each phase. *)

(* What the load takes from a set of units: all but the rejected ones and   *)
(* the ones that are in the database as they are.                           *)
Wanted(S) == {u \in S \ rejected : Found[u] # "skip"}

(* The closure stays within the hull; what it has visited is surrounded. *)
Closing ==
    phase = "close" =>
        /\ ~inside /\ groups = <<>> /\ members = {} /\ rows = {}
        /\ input.bad \subseteq rejected /\ pending \subseteq rejected
        /\ rejected \subseteq Hull(input, input.bad)
        /\ \A u \in rejected \ pending : Around(PlanEdges(input), u) \subseteq rejected

(* A group grows within the hull of one unit; the units that are left to    *)
(* group are whole.                                                         *)
Grouping ==
    phase = "group" =>
        /\ ~Atomic /\ ~inside /\ rows = {}
        /\ rejected = Hull(input, input.bad)
        /\ members \cap unseen = {} /\ pending \subseteq unseen
        /\ Whole(input, unseen \cup members)
        /\ members \cup pending # {} =>
              \E s \in Units : members \cup pending \subseteq Hull(input, {s})
        /\ \A u \in members : Around(GroupEdges(input), u) \subseteq members \cup pending
        /\ Covered(groups) \cap (unseen \cup members) = {}
        /\ Units = unseen \cup members \cup Covered(groups)

(* The groups that are found, or left to write. *)
Listed ==
    /\ Apart(groups)
    /\ ~Atomic => \A k \in 1..Len(groups) : \A u \in groups[k] : groups[k] = Hull(input, {u})
    /\ Atomic => groups \in {<<Units>>, <<>>}

(* The transaction has the rows of the groups that are done, and what the   *)
(* open group has written.                                                  *)
Writing ==
    phase = "write" =>
        /\ Whole(input, rejected) /\ input.bad \subseteq rejected
        /\ Atomic => rejected = {}
        /\ ~inside => rows = Wanted(Units \ Covered(groups))
        /\ inside =>
              /\ groups # <<>> /\ Head(groups) \cap rejected = {}
              /\ saved = Wanted(Units \ Covered(groups))
              /\ left \subseteq Wanted(Head(groups))
              /\ rows = saved \cup (Wanted(Head(groups)) \ left)

Booked == phase = "done" => receipt = Counts

PlanInv == LoadPlanTypeOK /\ Closing /\ Grouping /\ Listed /\ Writing /\ LoadedIsWhole /\ Booked

(* At the start only the wrong units are rejected. *)
LEMMA InitInv == LoadPlanInit => PlanInv
  <1> SUFFICES ASSUME LoadPlanInit PROVE PlanInv
    OBVIOUS
  <1>1. input \in Dataset
    BY InputFacts DEF LoadPlanInit
  <1>2. input.bad \in SUBSET Units
    BY <1>1 DEF Dataset
  <1>3. LoadPlanTypeOK
    <2>1. <<>> \in Seq(SUBSET Units)
      OBVIOUS
    <2>2. receipt \in Receipt
      BY DEF LoadPlanInit, Receipt
    <2>. QED BY <1>2, <2>1, <2>2 DEF LoadPlanInit, LoadPlanTypeOK
  <1>4. input.bad \subseteq Hull(input, input.bad)
    BY <1>1, <1>2, HullIsLeast
  <1>5. Closing
    BY <1>4 DEF LoadPlanInit, Closing
  <1>6. Listed
    BY DEF LoadPlanInit, Listed, Apart
  <1>. QED BY <1>3, <1>5, <1>6 DEF LoadPlanInit, PlanInv, Grouping, Writing, LoadedIsWhole, Booked

(* The closure: the neighbours of a rejected unit are in the hull. *)
LEMMA VisitInv ==
    ASSUME PlanInv, NEW u \in Units, Visit(u)
    PROVE  PlanInv'
  <1> DEFINE H == Hull(input, input.bad)
             new == Around(PlanEdges(input), u) \ rejected
  <1>1. input \in Inputs /\ input \in Dataset /\ input.bad \in SUBSET Units
    BY InputFacts DEF PlanInv, LoadPlanTypeOK, Dataset
  <1>2. /\ phase = "close" /\ u \in pending
        /\ rejected' = rejected \cup new
        /\ pending' = (pending \ {u}) \cup new
    BY DEF Visit
  <1>3. UNCHANGED <<input, phase, unseen, members, groups, inside, saved, left, rows, target, receipt>>
    BY DEF Visit
  <1>4. new \subseteq Units /\ new \cap rejected = {}
    BY DEF Around
  <1>5. H \in SUBSET Units /\ Closed(PlanEdges(input), H)
    <2>1. H \in SUBSET Units /\ Whole(input, H)
      BY <1>1, HullIsLeast
    <2>. QED BY <1>1, <2>1, BothGraphs
  <1>6. new \subseteq H
    BY <1>2, <1>5 DEF PlanInv, Closing, Closed
  <1>7. \A v \in rejected' \ pending' : Around(PlanEdges(input), v) \subseteq rejected'
    <2> SUFFICES ASSUME NEW v \in rejected' \ pending'
                 PROVE  Around(PlanEdges(input), v) \subseteq rejected'
      OBVIOUS
    <2>1. CASE v = u
      BY <1>2, <2>1
    <2>2. CASE v # u
      BY <1>2, <2>2 DEF PlanInv, Closing
    <2>. QED BY <2>1, <2>2
  <1> HIDE DEF H, new
  <1>8. LoadPlanTypeOK'
    BY <1>2, <1>3, <1>4 DEF PlanInv, LoadPlanTypeOK
  <1>9. Closing'
    BY <1>2, <1>3, <1>6, <1>7 DEF PlanInv, Closing, H
  <1>10. Listed'
    BY <1>3 DEF PlanInv, Listed, Apart, Atomic
  <1>. QED BY <1>2, <1>3, <1>8, <1>9, <1>10 DEF PlanInv, Grouping, Writing, LoadedIsWhole, Booked

(* The closure is done: it is closed, so it is the whole hull. *)
LEMMA PlannedInv ==
    ASSUME PlanInv, Planned
    PROVE  PlanInv'
  <1> DEFINE H == Hull(input, input.bad)
  <1>1. input \in Inputs /\ input \in Dataset /\ input.bad \in SUBSET Units
    BY InputFacts DEF PlanInv, LoadPlanTypeOK, Dataset
  <1>2. phase = "close" /\ pending = {} /\ ~inside /\ rows = {} /\ rejected \in SUBSET Units
    BY DEF Planned, PlanInv, Closing, LoadPlanTypeOK
  <1>3. UNCHANGED <<input, rejected, pending, members, inside, saved, left, rows, target, receipt>>
    BY DEF Planned
  <1>4. Whole(input, rejected)
    <2>1. Closed(PlanEdges(input), rejected)
      BY <1>2 DEF PlanInv, Closing, Closed
    <2>. QED BY <1>1, <1>2, <2>1, BothGraphs
  <1>5. rejected = H
    <2>1. H \subseteq rejected
      BY <1>1, <1>2, <1>4, HullIsLeast DEF PlanInv, Closing
    <2>. QED BY <1>2, <2>1 DEF PlanInv, Closing
  <1>6. CASE Atomic
    <2>1. groups' = <<Units>> /\ unseen' = {} /\ Atomic' /\ phase' \in {"write", "failed"}
      BY <1>3, <1>6 DEF Planned, Atomic
    <2>2. phase' = "write" => rejected' = {}
      BY <1>3, <1>6 DEF Planned, Ready
    <2>3. <<Units>> \in Seq(SUBSET Units) /\ Apart(<<Units>>) /\ Covered(<<Units>>) = Units
      BY DEF Apart, Covered
    <2>4. LoadPlanTypeOK'
      BY <1>3, <2>1, <2>3 DEF PlanInv, LoadPlanTypeOK
    <2>5. Listed'
      BY <2>1, <2>3 DEF Listed
    <2>6. Writing'
      BY <1>2, <1>3, <1>4, <2>1, <2>2, <2>3 DEF PlanInv, Closing, Writing, Wanted
    <2>. QED BY <2>1, <2>4, <2>5, <2>6 DEF PlanInv, Closing, Grouping, LoadedIsWhole, Booked
  <1>7. CASE ~Atomic
    <2>1. groups' = <<>> /\ unseen' = Units /\ ~Atomic' /\ phase' = "group" /\ members' = {}
      <3>1. members = {}
        BY <1>2 DEF PlanInv, Closing
      <3>. QED BY <1>3, <1>7, <3>1 DEF Planned, Atomic, Ready
    <2>2. LoadPlanTypeOK'
      BY <1>3, <2>1 DEF PlanInv, LoadPlanTypeOK
    <2>3. Listed'
      BY <2>1 DEF Listed, Apart
    <2>4. Grouping'
      BY <1>2, <1>3, <1>5, <2>1 DEF Grouping, Whole, Covered
    <2>. QED BY <2>1, <2>2, <2>3, <2>4 DEF PlanInv, Closing, Writing, LoadedIsWhole, Booked
  <1>. QED BY <1>6, <1>7

(* The work list of a group: what is next to a member belongs to the same   *)
(* hull, and was not in an earlier group.                                   *)
LEMMA CollectInv ==
    ASSUME PlanInv, NEW u \in Units, Collect(u)
    PROVE  PlanInv'
  <1> DEFINE near == Around(GroupEdges(input), u)
  <1>1. input \in Inputs /\ input \in Dataset /\ near \subseteq Units
    BY InputFacts DEF PlanInv, LoadPlanTypeOK, Around
  <1>2. /\ phase = "group" /\ u \in pending
        /\ unseen' = unseen \ {u} /\ members' = members \cup {u}
        /\ pending' = (pending \cup near) \cap unseen'
    BY DEF Collect
  <1>3. UNCHANGED <<input, phase, rejected, groups, inside, saved, left, rows, target, receipt>>
    BY DEF Collect
  <1>4. /\ unseen \subseteq Units /\ members \subseteq Units /\ pending \subseteq unseen
        /\ members \cap unseen = {} /\ Whole(input, unseen \cup members)
        /\ \A v \in members : Around(GroupEdges(input), v) \subseteq members \cup pending
    BY <1>2 DEF PlanInv, LoadPlanTypeOK, Grouping
  <1>5. near \subseteq unseen \cup members
    <2>1. Closed(GroupEdges(input), unseen \cup members)
      BY <1>1, <1>4, BothGraphs
    <2>. QED BY <1>2, <1>4, <2>1 DEF Closed
  <1>6. PICK s \in Units : members \cup pending \subseteq Hull(input, {s})
    BY <1>2 DEF PlanInv, Grouping
  <1>7. near \subseteq Hull(input, {s})
    <2>1. {s} \in SUBSET Units
      OBVIOUS
    <2>2. Hull(input, {s}) \in SUBSET Units /\ Whole(input, Hull(input, {s}))
      BY <1>1, <2>1, HullIsLeast
    <2>3. Closed(GroupEdges(input), Hull(input, {s}))
      BY <1>1, <2>2, BothGraphs
    <2>. QED BY <1>2, <1>6, <2>3 DEF Closed
  <1>8. members' \cup pending' \subseteq Hull(input, {s})
    BY <1>2, <1>6, <1>7
  <1>9. \A v \in members' : Around(GroupEdges(input), v) \subseteq members' \cup pending'
    <2> SUFFICES ASSUME NEW v \in members'
                 PROVE  Around(GroupEdges(input), v) \subseteq members' \cup pending'
      OBVIOUS
    <2>1. CASE v = u
      BY <1>2, <1>5, <2>1
    <2>2. CASE v # u
      <3>1. Around(GroupEdges(input), v) \subseteq members \cup pending
        BY <1>2, <1>4, <2>2
      <3>. QED BY <1>2, <1>4, <3>1
    <2>. QED BY <2>1, <2>2
  <1>10. Covered(groups') = Covered(groups)
    BY <1>3
  <1>11. unseen' \cup members' = unseen \cup members
    BY <1>2, <1>4
  <1> HIDE DEF near
  <1>12. LoadPlanTypeOK'
    BY <1>2, <1>3, <1>4 DEF PlanInv, LoadPlanTypeOK
  <1>13. Grouping'
    <2>1. /\ ~Atomic' /\ ~inside' /\ rows' = {} /\ rejected' = Hull(input', input'.bad)
      BY <1>2, <1>3 DEF PlanInv, Grouping, Atomic
    <2>2. members' \cap unseen' = {} /\ pending' \subseteq unseen'
      BY <1>2, <1>4
    <2>3. Whole(input', unseen' \cup members')
      BY <1>3, <1>4, <1>11
    <2>4. /\ Covered(groups') \cap (unseen' \cup members') = {}
          /\ Units = unseen' \cup members' \cup Covered(groups')
      BY <1>2, <1>10, <1>11 DEF PlanInv, Grouping
    <2>. QED BY <1>3, <1>8, <1>9, <2>1, <2>2, <2>3, <2>4 DEF Grouping
  <1>14. Listed'
    BY <1>3 DEF PlanInv, Listed, Apart, Atomic
  <1>. QED BY <1>2, <1>3, <1>12, <1>13, <1>14
           DEF PlanInv, Closing, Writing, LoadedIsWhole, Booked

(* A group that is complete is closed, and so the hull of each of its       *)
(* members; the units that are left are whole again.                        *)
LEMMA NextGroupInv ==
    ASSUME PlanInv, NextGroup
    PROVE  PlanInv'
  <1>1. input \in Inputs /\ input \in Dataset
    BY InputFacts DEF PlanInv, LoadPlanTypeOK
  <1>2. /\ phase = "group" /\ pending = {} /\ members' = {}
        /\ groups' = IF members = {} THEN groups ELSE Append(groups, members)
        /\ ~Atomic /\ ~inside /\ rows = {} /\ rejected = Hull(input, input.bad)
        /\ groups \in Seq(SUBSET Units) /\ Apart(groups)
    BY DEF NextGroup, PlanInv, Grouping, Listed, LoadPlanTypeOK
  <1>3. UNCHANGED <<input, rejected, unseen, inside, saved, left, rows, target, receipt>>
    BY DEF NextGroup
  <1>4. /\ unseen \in SUBSET Units /\ members \in SUBSET Units /\ members \cap unseen = {}
        /\ Whole(input, unseen \cup members)
        /\ members \cap Covered(groups) = {} /\ unseen \cap Covered(groups) = {}
        /\ Units = unseen \cup members \cup Covered(groups)
    BY <1>2 DEF PlanInv, LoadPlanTypeOK, Grouping
  <1>5. Whole(input, members)
    <2>1. Closed(GroupEdges(input), members)
      BY <1>2 DEF PlanInv, Grouping, Closed
    <2>. QED BY <1>1, <1>4, <2>1, BothGraphs
  <1>6. Whole(input, unseen)
    <2>1. unseen \cup members \in SUBSET Units /\ unseen = (unseen \cup members) \ members
      BY <1>4
    <2>2. Whole(input, (unseen \cup members) \ members)
      BY <1>1, <1>4, <1>5, <2>1, WholeSets
    <2>. QED BY <2>1, <2>2
  <1>7. ASSUME NEW u \in members PROVE members = Hull(input, {u})
    <2>1. PICK s \in Units : members \subseteq Hull(input, {s})
      BY <1>2 DEF PlanInv, Grouping
    <2>2. Hull(input, {u}) = Hull(input, {s})
      BY <1>1, <2>1, HullOfMember
    <2>3. {u} \in SUBSET Units /\ {u} \subseteq members
      BY <1>4
    <2>4. Hull(input, {u}) \subseteq members
      BY <1>1, <1>4, <1>5, <2>3, HullIsLeast
    <2>. QED BY <2>1, <2>2, <2>4
  <1>8. /\ groups' \in Seq(SUBSET Units) /\ Apart(groups')
        /\ Covered(groups') = Covered(groups) \cup members
        /\ \A k \in 1..Len(groups') :
              groups'[k] = members \/ (k \in 1..Len(groups) /\ groups'[k] = groups[k])
    <2>1. CASE members = {}
      BY <1>2, <2>1
    <2>2. CASE members # {}
      BY <1>2, <1>4, <2>2, AppendFacts
    <2>. QED BY <2>1, <2>2
  <1>9. Listed'
    <2>1. \A k \in 1..Len(groups') : \A u \in groups'[k] : groups'[k] = Hull(input, {u})
      BY <1>2, <1>7, <1>8 DEF PlanInv, Listed
    <2>. QED BY <1>2, <1>3, <1>8, <2>1 DEF Listed, Atomic
  <1>10. CASE unseen = {}
    <2>1. phase' = "write" /\ pending' = pending
      BY <1>10 DEF NextGroup
    <2>2. LoadPlanTypeOK'
      BY <1>2, <1>3, <1>8, <2>1 DEF PlanInv, LoadPlanTypeOK
    <2>3. Writing'
      <3>1. Units \ Covered(groups') = {}
        BY <1>4, <1>8, <1>10
      <3>2. input.bad \in SUBSET Units
        BY <1>1 DEF Dataset
      <3>3. Whole(input, rejected) /\ input.bad \subseteq rejected
        BY <1>1, <1>2, <3>2, HullIsLeast
      <3>. QED BY <1>2, <1>3, <3>1, <3>3 DEF Writing, Wanted, Atomic
    <2>. QED BY <1>9, <2>1, <2>2, <2>3 DEF PlanInv, Closing, Grouping, LoadedIsWhole, Booked
  <1>11. CASE unseen # {}
    <2>1. phase' = "group" /\ pending' = {FirstStep(unseen)}
      BY <1>2, <1>11 DEF NextGroup
    <2>2. FirstStep(unseen) \in unseen
      BY <1>4, <1>11, FirstStepIn
    <2>3. LoadPlanTypeOK'
      BY <1>2, <1>3, <1>4, <1>8, <2>1, <2>2 DEF PlanInv, LoadPlanTypeOK
    <2>4. FirstStep(unseen) \in Units /\ {FirstStep(unseen)} \subseteq Hull(input, {FirstStep(unseen)})
      BY <1>4, <2>2 DEF Hull
    <2>5. Grouping'
      BY <1>2, <1>3, <1>4, <1>6, <1>8, <2>1, <2>2, <2>4 DEF Grouping, Atomic
    <2>. QED BY <1>9, <2>1, <2>3, <2>5 DEF PlanInv, Closing, Writing, LoadedIsWhole, Booked
  <1>. QED BY <1>10, <1>11

(* What is known of the first group while it is written: it is whole, and   *)
(* its units are in no other group.                                         *)
LEMMA HeadFacts ==
    ASSUME PlanInv, phase = "write", groups # <<>>
    PROVE  /\ Head(groups) \in SUBSET Units /\ Whole(input, Head(groups))
           /\ Tail(groups) \in Seq(SUBSET Units)
           /\ Head(groups) \subseteq Covered(groups)
           /\ Covered(Tail(groups)) = Covered(groups) \ Head(groups)
           /\ Units \ Covered(Tail(groups)) = (Units \ Covered(groups)) \cup Head(groups)
           /\ (input' = input /\ groups' = Tail(groups)) => Listed'
  <1>1. input \in Inputs /\ input \in Dataset /\ groups \in Seq(SUBSET Units) /\ Apart(groups)
    BY InputFacts DEF PlanInv, LoadPlanTypeOK, Listed
  <1>2. /\ Head(groups) \in SUBSET Units /\ Head(groups) = groups[1] /\ 1 \in 1..Len(groups)
        /\ Tail(groups) \in Seq(SUBSET Units) /\ Apart(Tail(groups))
        /\ Head(groups) \subseteq Covered(groups)
        /\ Covered(Tail(groups)) = Covered(groups) \ Head(groups)
        /\ \A k \in 1..Len(Tail(groups)) : \E m \in 1..Len(groups) : Tail(groups)[k] = groups[m]
    BY <1>1, TailFacts
  <1>3. CASE Atomic
    <2>1. groups = <<Units>>
      BY <1>3 DEF PlanInv, Listed
    <2>2. Head(groups) = Units /\ Tail(groups) = <<>>
      BY <2>1
    <2>3. Whole(input, Units)
      BY DEF Whole
    <2>4. ASSUME input' = input, groups' = Tail(groups) PROVE Listed'
      BY <1>2, <1>3, <2>2, <2>4 DEF Listed, Atomic
    <2>. QED BY <1>2, <2>2, <2>3, <2>4
  <1>4. CASE ~Atomic
    <2>1. \A k \in 1..Len(groups) : \A u \in groups[k] : groups[k] = Hull(input, {u})
      BY <1>4 DEF PlanInv, Listed
    <2>2. Whole(input, Head(groups))
      <3>1. ASSUME NEW u \in Head(groups) PROVE Whole(input, Head(groups))
        <4>1. Head(groups) = Hull(input, {u}) /\ {u} \in SUBSET Units
          BY <1>2, <2>1
        <4>. QED BY <1>1, <4>1, HullIsLeast
      <3>. QED BY <3>1 DEF Whole
    <2>3. ASSUME input' = input, groups' = Tail(groups) PROVE Listed'
      BY <1>2, <1>4, <2>1, <2>3 DEF Listed, Atomic
    <2>. QED BY <1>2, <2>2, <2>3
  <1>. QED BY <1>3, <1>4

(* A group that is passed over has no row to take. *)
LEMMA PassInv ==
    ASSUME PlanInv, Pass
    PROVE  PlanInv'
  <1>1. /\ phase = "write" /\ ~inside /\ groups # <<>> /\ Head(groups) \subseteq rejected
        /\ groups' = Tail(groups)
        /\ UNCHANGED <<input, phase, rejected, pending, unseen, members, inside, saved, left,
                       rows, target, receipt>>
    BY DEF Pass
  <1>2. /\ Tail(groups) \in Seq(SUBSET Units) /\ Listed'
        /\ Units \ Covered(groups') = (Units \ Covered(groups)) \cup Head(groups)
    BY <1>1, HeadFacts
  <1>3. LoadPlanTypeOK'
    BY <1>1, <1>2 DEF PlanInv, LoadPlanTypeOK
  <1>4. Writing'
    <2>1. Wanted(Units \ Covered(groups))' = Wanted(Units \ Covered(groups))
      BY <1>1, <1>2 DEF Wanted
    <2>. QED BY <1>1, <2>1 DEF PlanInv, Writing, Atomic
  <1>. QED BY <1>1, <1>2, <1>3, <1>4 DEF PlanInv, Closing, Grouping, LoadedIsWhole, Booked

(* A savepoint is opened on the rows of the groups that are done. *)
LEMMA SavepointInv ==
    ASSUME PlanInv, Savepoint
    PROVE  PlanInv'
  <1>1. /\ phase = "write" /\ ~inside /\ groups # <<>>
        /\ inside' = TRUE /\ saved' = rows /\ left' = Wanted(Head(groups))
        /\ UNCHANGED <<input, phase, rejected, pending, unseen, members, groups, rows, target, receipt>>
    BY DEF Savepoint, Wanted
  <1>2. Head(groups) \in SUBSET Units
    BY <1>1, HeadFacts
  <1>3. Head(groups) \cap rejected = {}
    BY <1>1 DEF Savepoint, PlanInv, Writing
  <1>4. LoadPlanTypeOK'
    BY <1>1, <1>2 DEF PlanInv, LoadPlanTypeOK, Wanted
  <1>5. Writing'
    <2>1. rows = Wanted(Units \ Covered(groups))
      BY <1>1 DEF PlanInv, Writing
    <2>2. \A S : Wanted(S)' = Wanted(S)
      BY <1>1 DEF Wanted
    <2>3. /\ saved' = Wanted(Units \ Covered(groups))'
          /\ left' \subseteq Wanted(Head(groups))'
          /\ rows' = saved' \cup (Wanted(Head(groups))' \ left')
      BY <1>1, <2>1 DEF Wanted
    <2>. QED BY <1>1, <1>3, <2>3 DEF PlanInv, Writing, Atomic
  <1>6. Listed'
    BY <1>1 DEF PlanInv, Listed, Apart, Atomic
  <1>. QED BY <1>1, <1>4, <1>5, <1>6 DEF PlanInv, Closing, Grouping, LoadedIsWhole, Booked

(* A group that is released has written all it takes. *)
LEMMA ReleaseInv ==
    ASSUME PlanInv, Release
    PROVE  PlanInv'
  <1>1. /\ phase = "write" /\ inside /\ left = {} /\ inside' = FALSE /\ groups' = Tail(groups)
        /\ UNCHANGED <<input, phase, rejected, pending, unseen, members, saved, left, rows,
                       target, receipt>>
    BY DEF Release
  <1>2. /\ groups # <<>> /\ saved = Wanted(Units \ Covered(groups))
        /\ rows = saved \cup Wanted(Head(groups))
    BY <1>1 DEF PlanInv, Writing
  <1>3. /\ Tail(groups) \in Seq(SUBSET Units) /\ Listed'
        /\ Units \ Covered(groups') = (Units \ Covered(groups)) \cup Head(groups)
    BY <1>1, <1>2, HeadFacts
  <1>4. LoadPlanTypeOK'
    BY <1>1, <1>3 DEF PlanInv, LoadPlanTypeOK
  <1>5. Writing'
    <2>1. rows' = Wanted(Units \ Covered(groups))'
      BY <1>1, <1>2, <1>3 DEF Wanted
    <2>. QED BY <1>1, <2>1 DEF PlanInv, Writing, Atomic
  <1>. QED BY <1>1, <1>3, <1>4, <1>5 DEF PlanInv, Closing, Grouping, LoadedIsWhole, Booked

(* The units of a statement are taken off those of the open group. *)
LEMMA StatementInv ==
    ASSUME PlanInv, Statement
    PROVE  PlanInv'
  <1>1. /\ phase = "write" /\ inside /\ NextBatch \subseteq left
        /\ rows' = rows \cup NextBatch /\ left' = left \ NextBatch
        /\ UNCHANGED <<input, phase, rejected, pending, unseen, members, groups, inside, saved,
                       target, receipt>>
    BY DEF Statement, NextBatch
  <1>2. LoadPlanTypeOK'
    BY <1>1 DEF PlanInv, LoadPlanTypeOK
  <1>3. Writing'
    <2>1. /\ left \subseteq Wanted(Head(groups))
          /\ rows = saved \cup (Wanted(Head(groups)) \ left)
      BY <1>1 DEF PlanInv, Writing
    <2>2. Wanted(Head(groups))' = Wanted(Head(groups))
      BY <1>1 DEF Wanted
    <2>3. Wanted(Units \ Covered(groups))' = Wanted(Units \ Covered(groups))
      BY <1>1 DEF Wanted
    <2>4. /\ left' \subseteq Wanted(Head(groups))'
          /\ rows' = saved' \cup (Wanted(Head(groups))' \ left')
      BY <1>1, <2>1, <2>2
    <2>. QED BY <1>1, <2>3, <2>4 DEF PlanInv, Writing, Atomic
  <1>4. Listed'
    BY <1>1 DEF PlanInv, Listed, Apart, Atomic
  <1>. QED BY <1>1, <1>2, <1>3, <1>4 DEF PlanInv, Closing, Grouping, LoadedIsWhole, Booked

(* A refused group leaves no row, and as it is whole so is the quarantine. *)
LEMMA RefusedInv ==
    ASSUME PlanInv, Refused
    PROVE  PlanInv'
  <1>1. /\ phase = "write" /\ inside /\ left # {} /\ ~Atomic
        /\ rows' = saved /\ rejected' = rejected \cup Head(groups)
        /\ inside' = FALSE /\ left' = {} /\ groups' = Tail(groups)
        /\ UNCHANGED <<input, phase, pending, unseen, members, saved, target, receipt>>
    BY DEF Refused, BackTo, Relabelled
  <1>2. /\ groups # <<>> /\ saved = Wanted(Units \ Covered(groups))
        /\ Whole(input, rejected) /\ input.bad \subseteq rejected
        /\ rejected \in SUBSET Units /\ input \in Inputs /\ input \in Dataset
    BY <1>1, InputFacts DEF PlanInv, Writing, LoadPlanTypeOK
  <1>3. /\ Head(groups) \in SUBSET Units /\ Whole(input, Head(groups))
        /\ Tail(groups) \in Seq(SUBSET Units) /\ Listed'
        /\ Head(groups) \subseteq Covered(groups)
        /\ Units \ Covered(groups') = (Units \ Covered(groups)) \cup Head(groups)
    BY <1>1, <1>2, HeadFacts
  <1>4. LoadPlanTypeOK'
    BY <1>1, <1>3 DEF PlanInv, LoadPlanTypeOK
  <1>5. Writing'
    <2>1. Whole(input, rejected \cup Head(groups))
      BY <1>2, <1>3, WholeSets
    <2>2. rows' = Wanted(Units \ Covered(groups))'
      BY <1>1, <1>2, <1>3 DEF Wanted
    <2>. QED BY <1>1, <1>2, <2>1, <2>2 DEF Writing, Atomic
  <1>. QED BY <1>1, <1>3, <1>4, <1>5 DEF PlanInv, Closing, Grouping, LoadedIsWhole, Booked

-----------------------------
(* Counting. *)

(* Each record has a unit, so there are finitely many of them. *)
LEMMA FiniteData ==
    ASSUME NEW i \in Inputs
    PROVE  /\ \A S \in SUBSET Units : IsFiniteSet(S) /\ Cardinality(S) \in Nat
           /\ \A R \in SUBSET Records : IsFiniteSet(R) /\ Cardinality(R) \in Nat
  <1>1. IsFiniteSet(Units) /\ i.origin \in [Units -> Records]
    BY LoadPlanAssumption, InputFacts DEF Dataset
  <1>2. \A r \in Records : \E u \in Units : i.origin[u] = r
    BY LoadPlanAssumption DEF IsInput
  <1>3. IsFiniteSet(Records)
    <2>1. i.origin \in Surjection(Units, Records)
      BY <1>1, <1>2 DEF Surjection
    <2>. QED BY <1>1, <2>1, FS_Surjection
  <1>4. \A S \in SUBSET Units : IsFiniteSet(S)
    BY <1>1, FS_Subset
  <1>5. \A R \in SUBSET Records : IsFiniteSet(R)
    BY <1>3, FS_Subset
  <1>. QED BY <1>4, <1>5, FS_CardinalityType

(* The parts of a finite set add up. *)
LEMMA Parts ==
    ASSUME NEW S, IsFiniteSet(S), NEW A, NEW B, S = A \cup B, A \cap B = {}
    PROVE  /\ Cardinality(S) = Cardinality(A) + Cardinality(B)
           /\ Cardinality(A) \in Nat /\ Cardinality(B) \in Nat
  <1>1. IsFiniteSet(A) /\ IsFiniteSet(B)
    BY FS_Subset
  <1>2. Cardinality(A \cup B) = Cardinality(A) + Cardinality(B) - Cardinality(A \cap B)
    BY <1>1, FS_Union
  <1>3. Cardinality(A \cap B) = 0
    BY FS_EmptySet
  <1>4. Cardinality(A) \in Nat /\ Cardinality(B) \in Nat
    BY <1>1, FS_CardinalityType
  <1>. QED BY <1>2, <1>3, <1>4

Becoming(a) == {u \in Units \ rejected : Found[u] = a}

Sources == {input.origin[u] : u \in rejected}

(* The fields of the receipt. *)
LEMMA CountsAre ==
    ASSUME LoadPlanTypeOK
    PROVE  /\ Counts.inserted = Cardinality(Becoming("insert"))
           /\ Counts.updated = Cardinality(Becoming("update"))
           /\ Counts.skipped = Cardinality(Becoming("skip"))
           /\ Counts.quarantined = Cardinality(rejected)
           /\ Counts.loaded = Cardinality(Records \ Sources)
           /\ Counts.rejected = Cardinality(Sources)
           /\ Counts \in Receipt
  <1>1. Sources \in SUBSET Records /\ Records \ Sources \in SUBSET Records
    <2>1. input.origin \in [Units -> Records] /\ rejected \in SUBSET Units
      BY InputFacts DEF LoadPlanTypeOK, Dataset
    <2>. QED BY <2>1 DEF Sources
  <1>2. \A a : Becoming(a) \in SUBSET Units
    BY DEF Becoming
  <1>3. /\ \A a : Cardinality(Becoming(a)) \in Nat
        /\ Cardinality(rejected) \in Nat
        /\ Cardinality(Records \ Sources) \in Nat /\ Cardinality(Sources) \in Nat
    BY <1>1, <1>2, FiniteData DEF LoadPlanTypeOK
  <1>4. Counts = [inserted |-> Cardinality(Becoming("insert")),
                  updated |-> Cardinality(Becoming("update")),
                  skipped |-> Cardinality(Becoming("skip")),
                  quarantined |-> Cardinality(rejected),
                  loaded |-> Cardinality(Records \ Sources),
                  rejected |-> Cardinality(Sources)]
    BY DEF Counts, LoadedCount, Becoming, Sources
  <1>. QED BY <1>3, <1>4 DEF Receipt

(* The end: every group is done. *)
LEMMA CommitInv ==
    ASSUME PlanInv, Commit
    PROVE  PlanInv'
  <1>1. /\ phase = "write" /\ ~inside /\ groups = <<>>
        /\ phase' = "done" /\ target' = rows /\ receipt' = Counts
        /\ UNCHANGED <<input, rejected, pending, unseen, members, groups, inside, saved, left, rows>>
    BY DEF Commit
  <1>2. /\ Whole(input, rejected) /\ input.bad \subseteq rejected
        /\ Atomic => rejected = {}
        /\ rows = Wanted(Units \ Covered(groups))
        /\ rejected \in SUBSET Units /\ input \in Inputs /\ input \in Dataset
    BY <1>1, InputFacts DEF PlanInv, Writing, LoadPlanTypeOK
  <1>3. Covered(groups) = {}
    BY <1>1 DEF Covered
  <1>4. Whole(input, Units \ rejected)
    BY <1>2, WholeSets
  <1>5. LoadPlanTypeOK'
    BY <1>1, CountsAre DEF PlanInv, LoadPlanTypeOK
  <1>6. LoadedIsWhole'
    BY <1>1, <1>2, <1>3, <1>4 DEF LoadedIsWhole, Wanted, Atomic
  <1>7. Booked'
    <2>1. Counts' = Counts
      BY <1>1 DEF Counts, LoadedCount
    <2>. QED BY <1>1, <2>1 DEF Booked
  <1>8. Listed'
    BY <1>1 DEF PlanInv, Listed, Apart, Atomic
  <1>. QED BY <1>1, <1>5, <1>6, <1>7, <1>8 DEF PlanInv, Closing, Grouping, Writing

(* An aborted load has no rows, and nothing more is asked of it. *)
LEMMA AbortInv ==
    ASSUME PlanInv, Abort
    PROVE  PlanInv'
  <1>1. /\ phase' = "failed" /\ rows' = {}
        /\ UNCHANGED <<input, rejected, pending, unseen, members, groups, inside, saved, left,
                       target, receipt>>
    BY DEF Abort
  <1>2. LoadPlanTypeOK' /\ Listed'
    BY <1>1 DEF PlanInv, LoadPlanTypeOK, Listed, Apart, Atomic
  <1>. QED BY <1>1, <1>2 DEF PlanInv, Closing, Grouping, Writing, LoadedIsWhole, Booked

(* Every step keeps the invariant. *)
LEMMA StepInv == PlanInv /\ [LoadPlanNext]_loadPlanVars => PlanInv'
  <1> SUFFICES ASSUME PlanInv, [LoadPlanNext]_loadPlanVars PROVE PlanInv'
    OBVIOUS
  <1>1. ASSUME NEW u \in Units, Visit(u) PROVE PlanInv'
    BY <1>1, VisitInv
  <1>2. ASSUME NEW u \in Units, Collect(u) PROVE PlanInv'
    BY <1>2, CollectInv
  <1>3. CASE Planned
    BY <1>3, PlannedInv
  <1>4. CASE NextGroup
    BY <1>4, NextGroupInv
  <1>5. CASE Pass
    BY <1>5, PassInv
  <1>6. CASE Savepoint
    BY <1>6, SavepointInv
  <1>7. CASE Statement
    BY <1>7, StatementInv
  <1>8. CASE Refused
    BY <1>8, RefusedInv
  <1>9. CASE Release
    BY <1>9, ReleaseInv
  <1>10. CASE Commit
    BY <1>10, CommitInv
  <1>11. CASE Abort
    BY <1>11, AbortInv
  <1>12. CASE UNCHANGED loadPlanVars
    <2>1. LoadPlanTypeOK'
      BY <1>12 DEF PlanInv, LoadPlanTypeOK, loadPlanVars
    <2>2. Closing' /\ Grouping'
      BY <1>12 DEF PlanInv, Closing, Grouping, Atomic, loadPlanVars
    <2>3. Listed'
      BY <1>12 DEF PlanInv, Listed, Apart, Atomic, loadPlanVars
    <2>4. Writing'
      BY <1>12 DEF PlanInv, Writing, Wanted, Atomic, loadPlanVars
    <2>5. LoadedIsWhole' /\ Booked'
      BY <1>12 DEF PlanInv, LoadedIsWhole, Booked, Counts, LoadedCount, Atomic, loadPlanVars
    <2>. QED BY <2>1, <2>2, <2>3, <2>4, <2>5 DEF PlanInv
  <1>. QED BY <1>1, <1>2, <1>3, <1>4, <1>5, <1>6, <1>7, <1>8, <1>9, <1>10, <1>11, <1>12 DEF LoadPlanNext

(* The inductive invariant holds throughout. *)
THEOREM PlanInvHolds == LoadPlanSpec => []PlanInv
  BY InitInv, StepInv, PTL DEF LoadPlanSpec

-----------------------------
(* The properties. *)

(* The variables keep their types; the receipt counts finite sets. *)
THEOREM TypeCorrect == LoadPlanSpec => []LoadPlanTypeOK
  <1>1. PlanInv => LoadPlanTypeOK
    BY DEF PlanInv
  <1>. QED BY <1>1, PlanInvHolds, PTL

(* For every dataset, _quarantine_groups takes out the hull of the wrong    *)
(* units, no unit less and none more.                                       *)
THEOREM QuarantineIsExact == LoadPlanSpec => []RejectedIsHull
  <1>1. PlanInv => RejectedIsHull
    BY DEF PlanInv, Grouping, RejectedIsHull
  <1>. QED BY <1>1, PlanInvHolds, PTL

(* For every dataset, dependency_groups yields disjoint groups that are the *)
(* hulls of their units, although its graph is not the planner's.           *)
THEOREM GroupsAreExact == LoadPlanSpec => []GroupsAreHulls
  <1>1. PlanInv => GroupsAreHulls
    <2> SUFFICES ASSUME PlanInv PROVE GroupsAreHulls
      OBVIOUS
    <2>1. \A k \in 1..Len(groups), u \in Units :
             ~Atomic /\ u \in groups[k] => groups[k] = Hull(input, {u})
      BY DEF PlanInv, Listed
    <2>. QED BY <2>1 DEF PlanInv, Listed, Apart, GroupsAreHulls
  <1>. QED BY <1>1, PlanInvHolds, PTL

(* No statement comes before the rows its foreign keys refer to: the parent *)
(* is in the same group, in an earlier table, and so already written.       *)
THEOREM ParentsFirst == LoadPlanSpec => []ParentsInPlace
  <1>0. PlanInv => input \in Inputs /\ input \in Dataset
    BY InputFacts DEF PlanInv, LoadPlanTypeOK
  <1>1. PlanInv => ParentsInPlace
    <2> SUFFICES ASSUME PlanInv PROVE ParentsInPlace
      OBVIOUS
    <2> SUFFICES ASSUME phase = "write", inside, left # {},
                        NEW e \in input.dep, e[1] \in NextBatch, Found[e[2]] = "insert"
                 PROVE  e[2] \in rows
      <3>1. input.dep \in SUBSET (Units \X Units)
        BY <1>0 DEF Dataset
      <3>2. \A e \in input.dep : e[2] \in Units
        BY <3>1
      <3>. QED BY <3>2 DEF ParentsInPlace, InPlace
    <2>1. /\ e[1] \in Units /\ e[2] \in Units /\ e = <<e[1], e[2]>>
          /\ Table[e[2]] < Table[e[1]] /\ Together(input, e[1], e[2])
      <3>1. e \in Units \X Units /\ Table[e[2]] < Table[e[1]]
        BY <1>0, InputFacts DEF Dataset
      <3>. QED BY <3>1 DEF Together
    <2>2. /\ groups # <<>> /\ Head(groups) \cap rejected = {}
          /\ left \subseteq Wanted(Head(groups))
          /\ rows = saved \cup (Wanted(Head(groups)) \ left)
      BY DEF PlanInv, Writing
    <2>3. Whole(input, Head(groups))
      BY <2>2, HeadFacts
    <2>4. e[1] \in left /\ Table[e[1]] = Table[FirstStep(left)]
      BY DEF NextBatch
    <2>5. e[2] \in Wanted(Head(groups))
      <3>1. e[1] \in Head(groups)
        BY <2>2, <2>4 DEF Wanted
      <3>2. e[2] \in Head(groups)
        BY <2>1, <2>3, <3>1 DEF Whole
      <3>. QED BY <2>2, <3>2 DEF Wanted
    <2>6. e[2] \notin left
      <3>1. left \in SUBSET Units
        BY DEF PlanInv, LoadPlanTypeOK
      <3>2. \A v \in left : Table[FirstStep(left)] <= Table[v]
        BY <3>1, FirstStepIn
      <3>3. FirstStep(left) \in Units /\ Table[e[1]] \in Nat /\ Table[e[2]] \in Nat
        BY <2>1, <3>1, FirstStepIn, LoadPlanAssumption
      <3>. QED BY <2>1, <2>4, <3>2, <3>3
    <2>. QED BY <2>2, <2>5, <2>6
  <1>. QED BY <1>1, PlanInvHolds, PTL

(* What a finished load has committed is whole, free of wrong and refused   *)
(* units, and everything else.                                              *)
THEOREM LoadIsWhole == LoadPlanSpec => []LoadedIsWhole
  <1>1. PlanInv => LoadedIsWhole
    BY DEF PlanInv
  <1>. QED BY <1>1, PlanInvHolds, PTL

(* The receipt of a finished load adds up, for any number of units. *)
THEOREM ReceiptAddsUp == LoadPlanSpec => []ReceiptIsTrue
  <1>1. PlanInv => ReceiptIsTrue
    <2> SUFFICES ASSUME PlanInv, phase = "done" PROVE ReceiptIsTrue
      BY DEF ReceiptIsTrue
    <2>1. /\ receipt = Counts /\ LoadPlanTypeOK /\ input \in Inputs /\ rejected \in SUBSET Units
          /\ target = {u \in Units \ rejected : Found[u] # "skip"}
      BY DEF PlanInv, Booked, LoadedIsWhole, LoadPlanTypeOK
    <2>2. /\ \A S \in SUBSET Units : IsFiniteSet(S)
          /\ \A R \in SUBSET Records : IsFiniteSet(R)
      BY <2>1, FiniteData
    <2>3. \A u \in Units : Found[u] \in {"insert", "update", "skip"}
      BY LoadPlanAssumption DEF Action
    <2>4. Cardinality(target) = Cardinality(Becoming("insert")) + Cardinality(Becoming("update"))
      <3>1. target \in SUBSET Units /\ IsFiniteSet(target)
        BY <2>1, <2>2
      <3>2. /\ target = Becoming("insert") \cup Becoming("update")
            /\ Becoming("insert") \cap Becoming("update") = {}
        BY <2>1, <2>3 DEF Becoming
      <3>. QED BY <3>1, <3>2, Parts
    <2>5. Cardinality(Units \ rejected) = Cardinality(target) + Cardinality(Becoming("skip"))
      <3>1. IsFiniteSet(Units \ rejected)
        BY <2>2
      <3>2. /\ Units \ rejected = target \cup Becoming("skip")
            /\ target \cap Becoming("skip") = {}
        BY <2>1, <2>3 DEF Becoming
      <3>. QED BY <3>1, <3>2, Parts
    <2>6. Cardinality(Units) = Cardinality(Units \ rejected) + Cardinality(rejected)
      <3>1. /\ Units \in SUBSET Units /\ Units = (Units \ rejected) \cup rejected
            /\ (Units \ rejected) \cap rejected = {}
        BY <2>1
      <3>. QED BY <2>2, <3>1, Parts
    <2>7. Cardinality(Records) = Cardinality(Records \ Sources) + Cardinality(Sources)
      <3>1. Sources \in SUBSET Records
        <4>1. input.origin \in [Units -> Records]
          BY <2>1, InputFacts DEF Dataset
        <4>. QED BY <2>1, <4>1 DEF Sources
      <3>2. /\ Records \in SUBSET Records /\ Records = (Records \ Sources) \cup Sources
            /\ (Records \ Sources) \cap Sources = {}
        BY <3>1
      <3>. QED BY <2>2, <3>2, Parts
    <2>8. /\ receipt.inserted = Cardinality(Becoming("insert"))
          /\ receipt.updated = Cardinality(Becoming("update"))
          /\ receipt.skipped = Cardinality(Becoming("skip"))
          /\ receipt.quarantined = Cardinality(rejected)
          /\ receipt.loaded = Cardinality(Records \ Sources)
          /\ receipt.rejected = Cardinality(Sources)
      BY <2>1, CountsAre
    <2>9. receipt.inserted + receipt.updated = Cardinality(target)
      BY <2>4, <2>8
    <2>10. receipt.inserted + receipt.updated + receipt.skipped + receipt.quarantined
              = Cardinality(Units)
      BY <2>5, <2>6, <2>8, <2>9
    <2>11. receipt.loaded + receipt.rejected = Cardinality(Records)
      BY <2>7, <2>8
    <2>. QED BY <2>9, <2>10, <2>11 DEF ReceiptIsTrue
  <1>. QED BY <1>1, PlanInvHolds, PTL

=============================================================================
