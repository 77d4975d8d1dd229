--------------------------- MODULE SemanticProofs ---------------------------
(***************************************************************************)
(* Proofs about Semantic, for every source, policy and limit of issues,    *)
(* every plan that is made, proposed, extracted or saved, and every point  *)
(* where an operation fails, is cancelled or is overtaken by a close.  The *)
(* lemmas about folds and lists of lists are those of SecurityProofs.      *)
(***************************************************************************)
EXTENDS SecurityProofs, Semantic

-----------------------------
(* The operators of Semantic: how they bound and order lists of issues. *)

(* The larger of two numbers, which Score and SavedScope take. *)
LEMMA LargerOf ==
    ASSUME NEW a \in Int, NEW b \in Int
    PROVE  Max({a, b}) = IF a >= b THEN a ELSE b
  <1>1. \E x \in {a, b} : \A y \in {a, b} : x >= y
    OBVIOUS
  <1>2. Max({a, b}) \in {a, b} /\ \A y \in {a, b} : Max({a, b}) >= y
    BY <1>1 DEF Max
  <1> QED BY <1>2

(* The smaller of two numbers, which Bounded takes. *)
LEMMA SmallerOf ==
    ASSUME NEW a \in Int, NEW b \in Int
    PROVE  Min({a, b}) = IF a <= b THEN a ELSE b
  <1>1. \E x \in {a, b} : \A y \in {a, b} : x <= y
    OBVIOUS
  <1>2. Min({a, b}) \in {a, b} /\ \A y \in {a, b} : Min({a, b}) <= y
    BY <1>1 DEF Min
  <1> QED BY <1>2

(* A list of issues is empty when it has no length. *)
LEMMA NoCodes ==
    ASSUME NEW issues \in Codes
    PROVE  issues = <<>> <=> Len(issues) = 0
  BY EmptySeq DEF Codes

(* A list of issues has each of its codes. *)
LEMMA HasAny ==
    ASSUME NEW issues \in Codes, NEW i \in 1..Len(issues)
    PROVE  Has(issues, issues[i])
  BY DEF Has, ToSet, Codes

(* What the limit of issues keeps of a list: its beginning. *)
LEMMA BoundedIs ==
    ASSUME NEW issues \in Codes
    PROVE  /\ Bounded(issues) \in Codes /\ Len(Bounded(issues)) <= Len(issues)
           /\ Len(issues) <= SessionPolicy.issues => Bounded(issues) = issues
           /\ Len(issues) > SessionPolicy.issues => Len(Bounded(issues)) = SessionPolicy.issues
           /\ Bounded(issues) = <<>> <=> issues = <<>>
           /\ \A i \in 1..Len(Bounded(issues)) : Bounded(issues)[i] = issues[i]
           /\ issues # <<>> => Has(Bounded(issues), issues[1])
  <1> DEFINE n == IF Len(issues) <= SessionPolicy.issues THEN Len(issues) ELSE SessionPolicy.issues
             s == SubSeq(issues, 1, n)
  <1>1. Len(issues) \in Nat /\ SessionPolicy.issues \in Nat \ {0}
    BY SemanticAssumption DEF Codes
  <1>2. Bounded(issues) = s /\ n \in 0..Len(issues)
    BY <1>1, SmallerOf DEF Bounded
  <1>3. s \in Codes /\ Len(s) = n /\ \A i \in 1..n : s[i] = issues[i]
    BY <1>1, <1>2 DEF Codes
  <1>4. n = Len(issues) => s = issues
    BY <1>1, <1>3 DEF Codes
  <1> HIDE DEF s
  <1>5. (issues = <<>> <=> Len(issues) = 0) /\ (s = <<>> <=> n = 0)
    BY <1>3, NoCodes
  <1>6. n # 0 => Has(s, issues[1])
    BY <1>2, <1>3, HasAny
  <1>7. n = 0 <=> issues = <<>>
    BY <1>1, <1>5
  <1>8. Len(issues) <= SessionPolicy.issues => s = issues
    BY <1>4
  <1>9. Len(issues) > SessionPolicy.issues => Len(s) = SessionPolicy.issues
    BY <1>1, <1>3
  <1> QED BY <1>1, <1>2, <1>3, <1>5, <1>6, <1>7, <1>8, <1>9

(* The issues of some codes, in their order. *)
LEMMA OfCodesIs ==
    ASSUME NEW issues \in Codes, NEW codes \in SUBSET IssueCodes
    PROVE  /\ OfCodes(issues, codes) \in Seq(codes)
           /\ (\E i \in DOMAIN issues : issues[i] \in codes) => Len(OfCodes(issues, codes)) > 0
  <1> DEFINE s == [i \in DOMAIN issues |-> IF issues[i] \in codes THEN <<issues[i]>> ELSE <<>>]
             n == Len(issues)
  <1>1. n \in Nat /\ DOMAIN issues = 1..n
    BY DEF Codes
  <1>2. Len(s) = n
    BY <1>1
  <1>3. \A i \in 1..n : s[i] \in Seq(codes) /\ (issues[i] \in codes => Len(s[i]) > 0)
    BY <1>1
  <1>4. OfCodes(issues, codes) = FlattenSeq(s)
    BY DEF OfCodes
  <1> HIDE DEF s
  <1>5. CASE n = 0
    <2>1. FlattenSeq(s) = <<>>
      BY <1>2, <1>5 DEF FlattenSeq
    <2> QED BY <1>1, <1>4, <1>5, <2>1
  <1>6. CASE n # 0
    <2>1. PICK f : PutTogether(f, s, n) /\ FlattenSeq(s) = f[n]
      BY <1>1, <1>2, <1>6, FlattenedIs
    <2> DEFINE good(m) == f[m] \in Seq(codes) /\ ((\E i \in 1..m : issues[i] \in codes) => Len(f[m]) > 0)
               flawed == {m \in 1..n : ~good(m)}
    <2>2. ASSUME flawed # {} PROVE FALSE
      <3>1. flawed \in SUBSET Nat
        BY <1>1
      <3>2. PICK m \in flawed : \A k \in flawed : m <= k
        <4> HIDE DEF flawed
        <4> QED BY <2>2, <3>1, LeastOf
      <3>3. m \in 1..n
        OBVIOUS
      <3>4. CASE m = 1
        <4>1. f[1] = s[1]
          BY <2>1, <3>3, <3>4 DEF PutTogether
        <4> QED BY <1>3, <3>2, <3>3, <3>4, <4>1
      <3>5. CASE m # 1
        <4>1. f[m] = f[m - 1] \o s[m]
          BY <2>1, <3>3, <3>5 DEF PutTogether
        <4>2. m - 1 \in 1..n /\ ~(m <= m - 1)
          BY <1>1, <3>3, <3>5
        <4>3. good(m - 1)
          BY <3>2, <4>2
        <4>4. /\ f[m] \in Seq(codes)
              /\ Len(f[m]) = Len(f[m - 1]) + Len(s[m]) /\ Len(f[m - 1]) \in Nat /\ Len(s[m]) \in Nat
          BY <1>3, <3>3, <4>1, <4>3
        <4>a. Len(f[m - 1]) > 0 \/ Len(s[m]) > 0 => Len(f[m]) > 0
          <5>1. \A x, y \in Nat : x > 0 \/ y > 0 => x + y > 0
            OBVIOUS
          <5> QED BY <4>4, <5>1
        <4>5. (\E i \in 1..m : issues[i] \in codes) => Len(f[m]) > 0
          <5> SUFFICES ASSUME NEW i \in 1..m, issues[i] \in codes PROVE Len(f[m]) > 0
            OBVIOUS
          <5>1. CASE i = m
            <6>1. Len(s[m]) > 0
              BY <1>3, <3>3, <5>1
            <6> QED BY <4>a, <6>1
          <5>2. CASE i # m
            <6>1. i \in 1..(m - 1)
              BY <1>1, <3>3, <5>2
            <6>2. Len(f[m - 1]) > 0
              BY <4>3, <6>1
            <6> QED BY <4>a, <6>2
          <5> QED BY <5>1, <5>2
        <4>6. good(m)
          BY <4>4, <4>5
        <4> QED BY <3>2, <4>6
      <3> QED BY <3>4, <3>5
    <2>3. n \in 1..n
      BY <1>1, <1>6
    <2>4. good(n)
      BY <2>2, <2>3
    <2> QED BY <1>1, <1>4, <2>1, <2>4
  <1> QED BY <1>5, <1>6

(* What a list of issues keeps when the reason of the end comes to it. *)
LEMMA WithReasonIs ==
    ASSUME NEW issues \in Codes, NEW code \in IssueCodes
    PROVE  LET w == WithReason(issues, code)
           IN  /\ w \in Codes /\ w # <<>>
               /\ Has(issues, "unsafe") => Has(w, "unsafe")
               /\ Has(w, code) \/ FullOfVetoes(w)
  <1> DEFINE all == Append(issues, code)
             n   == Len(issues)
             a   == OfCodes(all, {"unsafe"})
             b   == OfCodes(all, {code} \ {"unsafe"})
             c   == OfCodes(all, ToSet(all) \ {"unsafe", code})
             s   == a \o b \o c
  <1>1. /\ n \in Nat /\ all \in Codes /\ Len(all) = n + 1 /\ all[n + 1] = code
        /\ \A i \in 1..n : all[i] = issues[i]
        /\ DOMAIN issues = 1..n /\ DOMAIN all = 1..(n + 1)
    BY DEF Codes
  <1>3. WithReason(issues, code) = IF Len(all) <= SessionPolicy.issues THEN all ELSE Bounded(s)
    BY DEF WithReason
  <1> HIDE DEF all
  <1>2. Has(all, code) /\ (Has(issues, "unsafe") => Has(all, "unsafe")) /\ all # <<>>
    <2>1. all # <<>>
      BY <1>1, NoCodes
    <2>2. Has(all, code)
      BY <1>1, HasAny
    <2>3. Has(issues, "unsafe") => Has(all, "unsafe")
      BY <1>1 DEF Has, ToSet
    <2> QED BY <2>1, <2>2, <2>3
  <1>4. /\ a \in Seq({"unsafe"}) /\ b \in Seq({code} \ {"unsafe"}) /\ a \in Codes /\ b \in Codes /\ c \in Codes
        /\ (\E i \in DOMAIN all : all[i] = "unsafe") => Len(a) > 0
        /\ code # "unsafe" => Len(b) > 0
    <2>1. {"unsafe"} \in SUBSET IssueCodes /\ {code} \ {"unsafe"} \in SUBSET IssueCodes
      BY DEF IssueCodes
    <2>2. ToSet(all) \ {"unsafe", code} \in SUBSET IssueCodes
      BY <1>1 DEF ToSet, Codes
    <2>3. a \in Seq({"unsafe"}) /\ ((\E i \in DOMAIN all : all[i] \in {"unsafe"}) => Len(a) > 0)
      BY <1>1, <2>1, OfCodesIs
    <2>4. /\ b \in Seq({code} \ {"unsafe"})
          /\ (\E i \in DOMAIN all : all[i] \in {code} \ {"unsafe"}) => Len(b) > 0
      BY <1>1, <2>1, OfCodesIs
    <2>5. c \in Seq(ToSet(all) \ {"unsafe", code})
      BY <1>1, <2>2, OfCodesIs
    <2> HIDE DEF a, b, c
    <2>6. a \in Codes /\ b \in Codes /\ c \in Codes
      <3>1. \A S, T : S \in SUBSET T => \A x \in Seq(S) : x \in Seq(T)
        OBVIOUS
      <3>2. a \in Codes
        BY <2>1, <2>3, <3>1 DEF Codes
      <3>3. b \in Codes
        BY <2>1, <2>4, <3>1 DEF Codes
      <3>4. c \in Codes
        BY <2>2, <2>5, <3>1 DEF Codes
      <3> QED BY <3>2, <3>3, <3>4
    <2>7. code # "unsafe" => Len(b) > 0
      BY <1>1, <2>4
    <2> QED BY <2>3, <2>4, <2>6, <2>7
  <1>5. Has(all, "unsafe") => Len(a) > 0
    BY <1>4 DEF Has, ToSet
  <1> HIDE DEF a, b, c
  <1>6. /\ s \in Codes /\ Len(s) = Len(a) + Len(b) + Len(c)
        /\ Len(a) \in Nat /\ Len(b) \in Nat /\ Len(c) \in Nat
        /\ \A i \in 1..Len(a) : s[i] = "unsafe"
        /\ Len(b) > 0 => s[Len(a) + 1] = code
    <2>2. /\ \A i \in 1..Len(a) : a[i] = "unsafe"
          /\ \A i \in 1..Len(b) : b[i] = code
      BY <1>4
    <2>3. Len(a) \in Nat /\ Len(b) \in Nat /\ Len(c) \in Nat
      BY <1>4 DEF Codes
    <2>4. /\ a \o b \in Codes /\ Len(a \o b) = Len(a) + Len(b)
          /\ \A i \in 1..Len(a) : (a \o b)[i] = a[i]
          /\ \A i \in 1..Len(b) : (a \o b)[Len(a) + i] = b[i]
      BY <1>4 DEF Codes
    <2>5. /\ s \in Codes /\ Len(s) = Len(a \o b) + Len(c)
          /\ \A i \in 1..Len(a \o b) : s[i] = (a \o b)[i]
      <3> DEFINE ab == a \o b
      <3>1. ab \in Codes
        BY <2>4
      <3> HIDE DEF ab
      <3>2. /\ ab \o c \in Codes /\ Len(ab \o c) = Len(ab) + Len(c)
            /\ \A i \in 1..Len(ab) : (ab \o c)[i] = ab[i]
        BY <1>4, <3>1 DEF Codes
      <3> QED BY <3>2 DEF ab
    <2> HIDE DEF s
    <2>6. \A i \in 1..Len(a) : s[i] = "unsafe"
      BY <2>2, <2>3, <2>4, <2>5
    <2>7. Len(b) > 0 => s[Len(a) + 1] = code
      <3>1. Len(b) > 0 => 1 \in 1..Len(b) /\ Len(a) + 1 \in 1..(Len(a) + Len(b))
        BY <2>3
      <3>2. Len(b) > 0 => (a \o b)[Len(a) + 1] = code
        BY <2>2, <2>4, <3>1
      <3> QED BY <2>4, <2>5, <3>1, <3>2
    <2> QED BY <2>3, <2>4, <2>5, <2>6, <2>7
  <1> HIDE DEF s
  <1>7. CASE Len(all) <= SessionPolicy.issues
    BY <1>1, <1>2, <1>3, <1>7
  <1>8. CASE ~(Len(all) <= SessionPolicy.issues)
    <2> DEFINE w == Bounded(s)
    <2>1. Len(a) + Len(b) > 0
      <3>1. CASE code = "unsafe"
        BY <1>2, <1>5, <1>6, <3>1
      <3>2. CASE code # "unsafe"
        BY <1>4, <1>6, <3>2
      <3> QED BY <3>1, <3>2
    <2>2. s # <<>>
      <3>1. Len(s) # 0
        BY <1>6, <2>1
      <3> QED BY <1>6, <3>1, NoCodes
    <2>3. /\ w \in Codes /\ w # <<>> /\ Has(w, s[1])
          /\ \A i \in 1..Len(w) : w[i] = s[i]
          /\ Len(s) <= SessionPolicy.issues => w = s
          /\ Len(s) > SessionPolicy.issues => Len(w) = SessionPolicy.issues
      BY <1>6, <2>2, BoundedIs
    <2>4. WithReason(issues, code) = w
      BY <1>3, <1>8
    <2> HIDE DEF w
    <2>5. Has(issues, "unsafe") => Has(w, "unsafe")
      BY <1>2, <1>5, <1>6, <2>3
    <2>6. SessionPolicy.issues \in Nat \ {0} /\ Len(w) \in Nat
      BY <2>3, SemanticAssumption DEF Codes
    <2>7. CASE Len(a) < Len(w) /\ code # "unsafe"
      <3>1. Len(a) + 1 \in 1..Len(w) /\ w[Len(a) + 1] = code
        BY <1>4, <1>6, <2>3, <2>6, <2>7
      <3>2. Has(w, code)
        BY <2>3, <3>1, HasAny
      <3> QED BY <2>3, <2>4, <2>5, <3>2
    <2>8. CASE code = "unsafe"
      <3>1. Has(w, "unsafe")
        BY <1>2, <1>5, <1>6, <2>3, <2>8
      <3> QED BY <2>3, <2>4, <2>5, <2>8, <3>1
    <2>9. CASE ~(Len(a) < Len(w)) /\ code # "unsafe"
      <3>1. Len(s) > SessionPolicy.issues
        <4>1. Len(b) > 0
          BY <1>4, <2>9
        <4>2. w # s
          BY <1>6, <2>9, <4>1
        <4> QED BY <1>6, <2>3, <2>6, <4>2
      <3>2. Len(w) = SessionPolicy.issues /\ \A i \in 1..Len(w) : w[i] = "unsafe"
        BY <1>6, <2>3, <2>6, <2>9, <3>1
      <3>3. DOMAIN w = 1..Len(w)
        BY <2>3 DEF Codes
      <3>4. ToSet(w) = {"unsafe"}
        BY <2>6, <3>2, <3>3 DEF ToSet
      <3> QED BY <2>3, <2>4, <2>5, <3>2, <3>4 DEF FullOfVetoes
    <2> QED BY <2>7, <2>8, <2>9
  <1> QED BY <1>7, <1>8

(* Drafts and analyses. *)
Drafts ==
    [plan : PlanOrNone, score : Int, penalty : Nat, issues : Codes, own : BOOLEAN, refs : Nat,
     unresolved : Nat, blocks : Nat, calls : Nat]

(* What an analysis may say: what is not resolved is a block, without a     *)
(* plan there is an issue, and a plan without issues resolves everything.   *)
Fits(a, kinds) ==
    /\ a.unresolved <= a.blocks
    /\ a.plan = NoPlan => a.issues # <<>>
    /\ a.plan # NoPlan => a.plan.kind \in kinds
    /\ a.plan # NoPlan /\ a.issues = <<>> => a.blocks = 0 /\ a.score >= SessionPolicy.threshold

AnalysisFits(a) == Fits(a, setting.kinds)

Trusted(confidence) == SessionPolicy.threshold <= confidence /\ confidence <= 100

(* A draft on its way to _finalize, and one that no model was asked for. *)
DraftFits(d) ==
    /\ d \in Drafts /\ d.unresolved <= d.blocks
    /\ d.plan # NoPlan /\ d.issues = <<>> => d.blocks = 0
    /\ Has(d.issues, "unsafe") => Has(Bounded(d.issues), "unsafe")

DraftStands(d) == ~d.own /\ d.blocks = 0 /\ d.plan # NoPlan /\ Trusted(d.score)

(* An analysis made without a model, as a saved plan is compared with it. *)
Stands(a) == a.plan # NoPlan => a.blocks = 0 /\ Trusted(a.plan.confidence)

(* No plan, no analysis and no report is None. *)
LEMMA NoneIsNone ==
    /\ \A p \in Plans : p # NoPlan
    /\ \A a \in Analyses : a # NoPlan
    /\ \A r \in Reports : r # NoPlan
  BY SemanticAssumption

(* The score of full validation and agreement is the evidence: a plan that  *)
(* was trusted before stays trusted.                                        *)
LEMMA ScoreIs ==
    ASSUME NEW evidence \in Int, NEW validation \in Int, NEW agreement \in Int, NEW penalty \in Int
    PROVE  /\ Score(evidence, validation, agreement, penalty) \in Int
           /\ validation = 100 /\ agreement = 100 /\ penalty = 0 /\ Trusted(evidence) =>
                Trusted(Score(evidence, validation, agreement, penalty))
  <1> DEFINE sum == 20 * evidence + 50 * validation + 30 * agreement
             n   == sum \div 100 - penalty
  <1>1. sum \in Int /\ n \in Int
    OBVIOUS
  <1>2. Score(evidence, validation, agreement, penalty) = Max({0, n})
    BY DEF Score
  <1>3. SessionPolicy.threshold \in Int
    BY SemanticAssumption
  <1>4. Max({0, n}) = IF 0 >= n THEN 0 ELSE n
    <2> HIDE DEF n
    <2> QED BY <1>1, LargerOf
  <1>5. ASSUME validation = 100, agreement = 100, penalty = 0, evidence <= 100
        PROVE  evidence <= n /\ n <= 100
    BY <1>5
  <1> HIDE DEF n
  <1> QED BY <1>1, <1>2, <1>3, <1>4, <1>5 DEF Trusted

(* What the assumption says of the setting under way. *)
LEMMA SettingIs ==
    ASSUME setting \in Settings
    PROVE  /\ setting.mode \in ParsingModes /\ setting.request \in BOOLEAN /\ setting.refs \in Nat
           /\ setting.base \in PlanOrNone
           /\ setting.base # NoPlan => setting.base \in Plans /\ setting.base.confidence \in Int
                                       /\ Trusted(setting.base.confidence)
  BY SemanticAssumption DEF PlanOrNone, Trusted, Plans

(* The codes that the module names itself, and the lists made of them. *)
LEMMA CodesAre ==
    /\ \A code \in {"incomplete", "empty", "needs_semantic", "denied", "unresolved", "context_limit", "low",
                    "plan_disagreement", "candidate_disagreement", "rejected", "kind_denied", "no_entities",
                    "saved_review", "request_invalid", "source", "timeout", "cancelled", "unsafe"} :
         code \in IssueCodes
    /\ \A p \in Proposals : p.code \in IssueCodes
    /\ \A x \in Extractions : x.code \in IssueCodes
    /\ <<>> \in Codes
    /\ \A code \in IssueCodes : <<code>> \in Codes /\ <<code>> # <<>>
    /\ \A a, b \in Codes : a \o b \in Codes
    /\ \A a \in Codes, code \in IssueCodes : Append(a, code) \in Codes /\ Append(a, code) # <<>>
  <1>1. /\ \A p \in Proposals : p.code \in IssueCodes
        /\ \A x \in Extractions : x.code \in IssueCodes
        /\ \A code \in {"incomplete", "empty", "needs_semantic", "denied", "unresolved", "context_limit", "low",
                    "plan_disagreement", "candidate_disagreement", "rejected", "kind_denied", "no_entities",
                    "saved_review", "request_invalid", "source", "timeout", "cancelled", "unsafe"} :
             code \in IssueCodes
    BY DEF IssueCodes
  <1>2. /\ <<>> \in Codes
        /\ \A code \in IssueCodes : <<code>> \in Codes
        /\ \A a, b \in Codes : a \o b \in Codes
        /\ \A a \in Codes, code \in IssueCodes : Append(a, code) \in Codes
    BY DEF Codes
  <1>3. \A code \in IssueCodes : <<code>> # <<>>
    OBVIOUS
  <1>4. \A a \in Codes, code \in IssueCodes : Append(a, code) # <<>>
    <2> SUFFICES ASSUME NEW a \in Codes, NEW code \in IssueCodes PROVE Append(a, code) # <<>>
      OBVIOUS
    <2>1. Len(a) \in Nat /\ Len(Append(a, code)) = Len(a) + 1
      BY DEF Codes
    <2>2. Len(Append(a, code)) # 0
      BY <2>1
    <2> QED BY <1>2, <2>2, NoCodes
  <1> QED BY <1>1, <1>2, <1>3, <1>4

(* What is known of a source without a request fits, and no call was made   *)
(* for it.                                                                  *)
LEMMA ScannedIs ==
    ASSUME setting \in Settings
    PROVE  /\ Incomplete \in Analyses /\ AnalysisFits(Incomplete) /\ Incomplete.calls = 0 /\ Incomplete.plan = NoPlan
           /\ \A mode : /\ Unasked(mode) \in Analyses /\ AnalysisFits(Unasked(mode))
                        /\ Unasked(mode).calls = 0 /\ Unasked(mode).plan = NoPlan
  <1>1. setting.refs \in Nat /\ NoPlan \in PlanOrNone
    BY SettingIs DEF PlanOrNone
  <1>2. \A code \in {"incomplete", "empty", "needs_semantic", "denied"} : <<code>> \in Codes /\ <<code>> # <<>>
    BY CodesAre
  <1>3. \A code \in {"incomplete", "empty", "needs_semantic", "denied"} :
          LET a == [Incomplete EXCEPT !.issues = <<code>>]
          IN  a \in Analyses /\ a.unresolved <= a.blocks /\ a.issues = <<code>> /\ a.plan = NoPlan /\ a.calls = 0
    BY <1>1, <1>2 DEF Incomplete, Analysis, Analyses
  <1>4. /\ Incomplete \in Analyses /\ Incomplete.unresolved <= Incomplete.blocks
        /\ Incomplete.issues = <<"incomplete">> /\ Incomplete.plan = NoPlan /\ Incomplete.calls = 0
    BY <1>1, <1>2 DEF Incomplete, Analysis, Analyses
  <1> QED BY <1>2, <1>3, <1>4 DEF Unasked, AnalysisFits, Fits

(* A draft has what it was made of, and nothing unresolved. *)
LEMMA DraftIs ==
    ASSUME NEW plan \in PlanOrNone, NEW score \in Int, NEW penalty \in Nat, NEW issues \in Codes
    PROVE  /\ Drafted(plan, score, penalty, issues) \in Drafts
           /\ LET d == Drafted(plan, score, penalty, issues)
              IN  /\ d.plan = plan /\ d.score = score /\ d.issues = issues
                  /\ d.unresolved = 0 /\ d.blocks = 0 /\ d.calls = 0 /\ ~d.own
  BY DEF Drafted, Drafts

(* A draft of a model's answer is the same draft. *)
LEMMA OwnDraft ==
    ASSUME NEW d \in Drafts
    PROVE  LET e == [d EXCEPT !.own = TRUE]
           IN  /\ e \in Drafts /\ e.plan = d.plan /\ e.issues = d.issues /\ e.calls = d.calls
               /\ e.unresolved = d.unresolved /\ e.blocks = d.blocks
  BY DEF Drafts

(* A draft with its calls counted is the same draft. *)
LEMMA CountedDraft ==
    ASSUME NEW d \in Drafts, NEW calls \in Nat
    PROVE  LET e == [d EXCEPT !.calls = calls]
           IN  /\ e \in Drafts /\ e.plan = d.plan /\ e.issues = d.issues /\ e.calls = calls
               /\ e.unresolved = d.unresolved /\ e.blocks = d.blocks
  BY DEF Drafts

(* A draft with its scope told is the same draft. *)
LEMMA ScopedDraft ==
    ASSUME NEW d \in Drafts, NEW refs \in Nat, NEW unresolved \in Nat, NEW blocks \in Nat, NEW calls \in Nat
    PROVE  LET e == [d EXCEPT !.refs = refs, !.unresolved = unresolved, !.blocks = blocks, !.calls = calls]
           IN  /\ e \in Drafts /\ e.plan = d.plan /\ e.issues = d.issues /\ e.calls = calls
               /\ e.unresolved = unresolved /\ e.blocks = blocks
  BY DEF Drafts

(* Any score of a valid plan is a number. *)
LEMMA ScoreOfValid ==
    ASSUME NEW evidence \in Int, NEW agreement \in Int, NEW penalty \in Nat
    PROVE  Score(evidence, 100, agreement, penalty) \in Int
  <1> DEFINE n == (20 * evidence + 50 * 100 + 30 * agreement) \div 100 - penalty
  <1>1. n \in Int
    OBVIOUS
  <1>2. Score(evidence, 100, agreement, penalty) = Max({0, n})
    BY DEF Score
  <1> HIDE DEF n
  <1>3. Max({0, n}) = IF 0 >= n THEN 0 ELSE n
    BY <1>1, LargerOf
  <1> QED BY <1>1, <1>2, <1>3

(* A draft without a plan. *)
LEMMA NoDraftIs ==
    ASSUME NEW issues \in Codes
    PROVE  LET e == Drafted(NoPlan, 0, 0, issues) IN e \in Drafts /\ e.plan = NoPlan /\ e.issues = issues
  BY DEF Drafted, Drafts, PlanOrNone

(* The plan made without a model, whether it is penalised or not: without a *)
(* penalty it stands.                                                       *)
LEMMA BaseDraftFits ==
    ASSUME setting \in Settings, setting.base # NoPlan, NEW penalty \in Nat, NEW issues \in Codes,
           Has(issues, "unsafe") => Has(Bounded(issues), "unsafe")
    PROVE  LET d == BaseDraft(penalty, issues)
           IN  /\ DraftFits(d) /\ d.calls = 0 /\ d.issues = issues
               /\ penalty = 0 => DraftStands(d)
               /\ \A calls \in Nat : LET e == [d EXCEPT !.calls = calls]
                                     IN  DraftFits(e) /\ e.calls = calls /\ e.issues = issues
  <1> DEFINE score == Score(setting.base.confidence, 100, 100, penalty)
             d     == BaseDraft(penalty, issues)
  <1>1. setting.base \in Plans /\ setting.base.confidence \in Int /\ Trusted(setting.base.confidence)
    BY SettingIs
  <1>2. score \in Int /\ (penalty = 0 => Trusted(score))
    <2> DEFINE c == setting.base.confidence
    <2>1. c \in Int /\ Trusted(c) /\ 100 \in Int /\ penalty \in Int
      BY <1>1
    <2>2. score = Score(c, 100, 100, penalty)
      OBVIOUS
    <2> HIDE DEF c, score
    <2>3. /\ Score(c, 100, 100, penalty) \in Int
          /\ penalty = 0 => Trusted(Score(c, 100, 100, penalty))
      BY <2>1, ScoreIs
    <2> QED BY <2>2, <2>3
  <1> HIDE DEF score
  <1>3. d = Drafted(setting.base, score, penalty, issues)
    BY DEF BaseDraft, score
  <1> HIDE DEF d
  <1>4. /\ d \in Drafts /\ d.unresolved = 0 /\ d.blocks = 0 /\ d.calls = 0 /\ d.issues = issues
        /\ ~d.own /\ d.plan = setting.base /\ d.score = score
    BY <1>1, <1>2, <1>3, DraftIs DEF PlanOrNone
  <1>5. ASSUME NEW calls \in Nat
        PROVE  LET e == [d EXCEPT !.calls = calls]
               IN  /\ e \in Drafts /\ e.unresolved = 0 /\ e.blocks = 0 /\ e.calls = calls /\ e.issues = issues
    BY <1>4, CountedDraft
  <1> QED BY <1>2, <1>4, <1>5 DEF d, DraftFits, DraftStands

(* A draft after a request that gave no plan (HybridStructureAnalyzer), for *)
(* any code it ended with.                                                  *)
LEMMA WithoutModelFits ==
    ASSUME setting \in Settings, NEW code \in IssueCodes, NEW calls \in Nat
    PROVE  LET d == WithoutModel(<<code>>, calls) IN DraftFits(d) /\ d.calls = calls
  <1> DEFINE issues == <<code>>
             all    == Append(issues, "unresolved")
             d      == WithoutModel(issues, calls)
  <1>1. issues \in Codes /\ all \in Codes /\ all # <<>> /\ all[1] = code /\ Len(issues) = 1 /\ issues # <<>> /\ issues[1] = code
    <2>1. "unresolved" \in IssueCodes /\ <<code>> \in Codes /\ <<code>> # <<>>
      BY CodesAre
    <2>2. all \in Codes /\ all # <<>>
      BY <2>1, CodesAre
    <2>3. all[1] = code
      BY <2>1
    <2> QED BY <2>1, <2>2, <2>3
  <1>2. Has(Bounded(issues), code) /\ Has(Bounded(all), code) /\ Bounded(all) \in Codes
    BY <1>1, BoundedIs
  <1>3. \A c : Has(issues, c) => c = code
    BY DEF Has, ToSet
  <1>4. CASE setting.base # NoPlan /\ ~\E c \in ToSet(issues) : IsVeto(c)
    <2> DEFINE e == BaseDraft(20, issues)
    <2>1. d = [e EXCEPT !.calls = calls]
      BY <1>4 DEF WithoutModel
    <2>2. Has(issues, "unsafe") => Has(Bounded(issues), "unsafe")
      BY <1>2, <1>3
    <2>3. setting.base # NoPlan /\ issues \in Codes
      BY <1>1, <1>4
    <2> HIDE DEF d, issues
    <2>4. DraftFits([BaseDraft(20, issues) EXCEPT !.calls = calls])
          /\ [BaseDraft(20, issues) EXCEPT !.calls = calls].calls = calls
      BY <2>2, <2>3, BaseDraftFits
    <2> QED BY <2>1, <2>4 DEF d, issues
  <1>5. CASE ~(setting.base # NoPlan /\ ~\E c \in ToSet(issues) : IsVeto(c))
    <2>1. d = [Drafted(NoPlan, 0, 0, Bounded(all)) EXCEPT !.refs = setting.refs, !.unresolved = setting.refs,
                                                         !.blocks = setting.refs, !.calls = calls]
      BY <1>5 DEF WithoutModel
    <2>2. setting.refs \in Nat /\ NoPlan \in PlanOrNone
      BY SettingIs DEF PlanOrNone
    <2> HIDE DEF d, all
    <2>3. /\ d \in Drafts /\ d.unresolved = setting.refs /\ d.blocks = setting.refs /\ d.plan = NoPlan
          /\ d.issues = Bounded(all) /\ d.calls = calls
      <3> DEFINE e == Drafted(NoPlan, 0, 0, Bounded(all))
      <3>1. e \in Drafts /\ e.plan = NoPlan /\ e.issues = Bounded(all)
        BY <1>2, NoDraftIs
      <3>2. d = [e EXCEPT !.refs = setting.refs, !.unresolved = setting.refs, !.blocks = setting.refs, !.calls = calls]
        BY <2>1
      <3> HIDE DEF e
      <3> DEFINE refs == setting.refs
      <3>3. refs \in Nat /\ d = [e EXCEPT !.refs = refs, !.unresolved = refs, !.blocks = refs, !.calls = calls]
        BY <2>2, <3>2
      <3> HIDE DEF refs
      <3>4. /\ d \in Drafts /\ d.unresolved = refs /\ d.blocks = refs /\ d.plan = e.plan
            /\ d.issues = e.issues /\ d.calls = calls
        BY <3>1, <3>3 DEF Drafts
      <3> QED BY <3>1, <3>4 DEF refs
    <2>4. \A i \in 1..Len(all) : all[i] = "unsafe" => all[i] = code
      <3>1. all[2] = "unresolved" /\ Len(all) = 2 /\ all[1] = code
        BY DEF all
      <3> QED BY <3>1
    <2>5. Len(Bounded(all)) <= Len(all) /\ \A i \in 1..Len(Bounded(all)) : Bounded(all)[i] = all[i]
      BY <1>1, BoundedIs
    <2>6. Has(Bounded(all), "unsafe") => code = "unsafe"
      <3>1. DOMAIN Bounded(all) = 1..Len(Bounded(all)) /\ Len(Bounded(all)) \in Nat /\ Len(all) \in Nat
        BY <1>1, <1>2 DEF Codes
      <3>2. \A i \in 1..Len(Bounded(all)) : i \in 1..Len(all)
        BY <2>5, <3>1
      <3> DEFINE b == Bounded(all)
      <3> HIDE DEF b
      <3>3. Has(b, "unsafe") => \E i \in DOMAIN b : b[i] = "unsafe"
        BY DEF Has, ToSet
      <3> QED BY <2>4, <2>5, <3>1, <3>2, <3>3 DEF b
    <2>7. code = "unsafe" => Has(Bounded(Bounded(all)), "unsafe")
      <3>1. Bounded(all) # <<>> /\ (Bounded(all))[1] = code
        <4>1. Bounded(all) # <<>>
          BY <1>1, BoundedIs
        <4>2. Len(Bounded(all)) \in Nat /\ Len(Bounded(all)) # 0
          BY <1>2, <4>1, NoCodes DEF Codes
        <4> QED BY <1>1, <2>5, <4>1, <4>2
      <3> QED BY <1>2, <3>1, BoundedIs
    <2> QED BY <2>2, <2>3, <2>6, <2>7 DEF DraftFits, d
  <1> QED BY <1>4, <1>5

(* A draft of the plan that a model proposed carries no veto. *)
LEMMA ProposedDraftFits ==
    ASSUME setting \in Settings, NEW p \in Proposals, p.plan # NoPlan
    PROVE  DraftFits(ProposedDraft(p)) /\ ProposedDraft(p).calls = p.calls /\ ~Has(ProposedDraft(p).issues, "unsafe")
  <1> DEFINE issues  == Disagreements(p.plan)
             penalty == IF issues = <<>> THEN 0 ELSE 20
             score   == Score(p.plan.confidence, 100, AgreementWith(p.plan), penalty)
             d       == ProposedDraft(p)
  <1>1. p.plan \in Plans /\ p.plan.confidence \in Int /\ p.calls \in Nat
    BY SemanticAssumption DEF PlanOrNone, Plans
  <1>2. issues \in Codes /\ ~Has(issues, "unsafe")
    <2> DEFINE a == IF setting.base # NoPlan /\ setting.base.shape # p.plan.shape THEN <<"plan_disagreement">> ELSE <<>>
               b == IF setting.candidates > 1 THEN <<"candidate_disagreement">> ELSE <<>>
               C == {"plan_disagreement", "candidate_disagreement"}
    <2>1. issues = a \o b
      BY DEF Disagreements
    <2>2. a \in Seq(C) /\ b \in Seq(C)
      <3>1. "plan_disagreement" \in C /\ "candidate_disagreement" \in C
        OBVIOUS
      <3> HIDE DEF C
      <3> QED BY <3>1
    <2>3. a \o b \in Seq(C)
      <3> HIDE DEF a, b, C
      <3> QED BY <2>2
    <2>4. C \subseteq IssueCodes
      BY DEF IssueCodes
    <2>5. issues \in Seq(C)
      BY <2>1, <2>3
    <2> HIDE DEF issues
    <2>6. issues \in Codes
      BY <2>4, <2>5 DEF Codes
    <2>7. ~Has(issues, "unsafe")
      BY <2>5 DEF Has, ToSet
    <2> QED BY <2>6, <2>7 DEF issues
  <1>3. AgreementWith(p.plan) \in Int
    BY DEF AgreementWith
  <1>4. penalty \in Nat
    OBVIOUS
  <1>5. d = [Drafted(p.plan, score, penalty, issues) EXCEPT !.own = TRUE, !.calls = p.calls]
    BY DEF ProposedDraft
  <1> HIDE DEF issues, penalty, d
  <1>6. score \in Int
    BY <1>1, <1>3, <1>4, ScoreOfValid
  <1> HIDE DEF score
  <1>7. /\ d \in Drafts /\ d.unresolved = 0 /\ d.blocks = 0 /\ d.issues = issues /\ d.calls = p.calls
    <2> DEFINE e == Drafted(p.plan, score, penalty, issues)
    <2>a. p.plan \in PlanOrNone
      BY <1>1 DEF PlanOrNone
    <2>1. e \in Drafts /\ e.issues = issues /\ e.unresolved = 0 /\ e.blocks = 0
      BY <1>2, <1>4, <1>6, <2>a, DraftIs
    <2>2. d = [e EXCEPT !.own = TRUE, !.calls = p.calls]
      BY <1>5
    <2> HIDE DEF e
    <2> DEFINE f == [e EXCEPT !.own = TRUE]
    <2>3. f \in Drafts /\ f.issues = issues /\ f.unresolved = 0 /\ f.blocks = 0
      BY <2>1, OwnDraft
    <2>4. d = [f EXCEPT !.calls = p.calls]
      BY <2>2
    <2> HIDE DEF f
    <2> QED BY <1>1, <2>3, <2>4, CountedDraft
  <1> QED BY <1>2, <1>7 DEF d, DraftFits

(* A draft of an extraction by chunks. *)
LEMMA ExtractedDraftFits ==
    ASSUME setting \in Settings, NEW x \in Extractions
    PROVE  DraftFits(ExtractedDraft(x)) /\ ExtractedDraft(x).calls = x.calls
  <1> DEFINE penalty == IF x.issues = <<>> THEN 0 ELSE 20
             score   == IF x.plan = NoPlan THEN 0 ELSE Score(Evidence(x), 100, x.agreement, penalty)
             d       == ExtractedDraft(x)
  <1>1. /\ x.calls \in Nat /\ x.plan \in PlanOrNone /\ x.agreement \in Nat /\ x.unresolved \in Nat
        /\ x.blocks \in Nat /\ x.unresolved <= x.blocks
        /\ x.plan # NoPlan /\ x.issues = <<>> => x.blocks = 0
        /\ Len(x.issues) <= SessionPolicy.issues
    BY SemanticAssumption
  <1>2. x.issues \in Codes
    BY SemanticAssumption
  <1>3. Evidence(x) \in Int
    <2> DEFINE all == setting.refs + x.blocks - x.unresolved
    <2>1. setting.refs \in Nat
      BY SettingIs
    <2>2. all \in Nat /\ 100 * (setting.refs - x.unresolved) \in Int
      BY <1>1, <2>1
    <2>3. Evidence(x) = IF all = 0 THEN 0 ELSE (100 * (setting.refs - x.unresolved)) \div all
      BY DEF Evidence
    <2> HIDE DEF all
    <2>4. \A n \in Int, m \in Nat \ {0} : n \div m \in Int
      OBVIOUS
    <2> QED BY <2>2, <2>3, <2>4
  <1>4. penalty \in Nat
    OBVIOUS
  <1>5. d = [Drafted(x.plan, score, penalty, x.issues) EXCEPT !.own = TRUE,
               !.refs = setting.refs, !.unresolved = x.unresolved, !.blocks = x.blocks, !.calls = x.calls]
    BY DEF ExtractedDraft
  <1> HIDE DEF penalty, d
  <1>6. score \in Int
    <2> DEFINE ev == Evidence(x)
               ag == x.agreement
    <2>1. ev \in Int /\ ag \in Int
      BY <1>1, <1>3
    <2>2. score = IF x.plan = NoPlan THEN 0 ELSE Score(ev, 100, ag, penalty)
      OBVIOUS
    <2> HIDE DEF ev, ag, score
    <2>3. Score(ev, 100, ag, penalty) \in Int
      BY <1>4, <2>1, ScoreOfValid
    <2> QED BY <2>2, <2>3
  <1> HIDE DEF score
  <1>7. setting.refs \in Nat
    BY SettingIs
  <1>8. /\ d \in Drafts /\ d.unresolved = x.unresolved /\ d.blocks = x.blocks /\ d.issues = x.issues
        /\ d.calls = x.calls /\ d.plan = x.plan
    <2> DEFINE e == Drafted(x.plan, score, penalty, x.issues)
    <2>1. e \in Drafts /\ e.plan = x.plan /\ e.issues = x.issues
      BY <1>1, <1>2, <1>4, <1>6, DraftIs
    <2>2. d = [e EXCEPT !.own = TRUE, !.refs = setting.refs, !.unresolved = x.unresolved,
                        !.blocks = x.blocks, !.calls = x.calls]
      BY <1>5
    <2> HIDE DEF e
    <2> QED BY <1>1, <1>7, <2>1, <2>2 DEF Drafts
  <1>9. Bounded(x.issues) = x.issues
    BY <1>1, <1>2, BoundedIs
  <1> QED BY <1>1, <1>8, <1>9 DEF d, DraftFits

(* _finalize makes of a draft that fits an analysis that fits. *)
LEMMA FinalizedFits ==
    ASSUME setting \in Settings, NEW d, DraftFits(d), NEW accepted \in BOOLEAN
    PROVE  LET a == Finalized(d, accepted)
           IN  /\ a \in Analyses /\ AnalysisFits(a) /\ a.calls = d.calls
               /\ Has(d.issues, "unsafe") => a.plan = NoPlan /\ Has(a.issues, "unsafe")
               /\ DraftStands(d) => Stands(a)
  <1> DEFINE holds == Offered(d) /\ accepted
             plan  == IF holds THEN [d.plan EXCEPT !.confidence = d.score, !.penalty = d.penalty] ELSE NoPlan
             score == IF holds THEN d.score ELSE 0
             a     == Finalized(d, accepted)
  <1>1. /\ d.plan \in PlanOrNone /\ d.score \in Int /\ d.penalty \in Nat /\ d.issues \in Codes /\ d.refs \in Nat
        /\ d.unresolved \in Nat /\ d.blocks \in Nat /\ d.calls \in Nat /\ d.unresolved <= d.blocks
        /\ d.plan # NoPlan /\ d.issues = <<>> => d.blocks = 0
        /\ Has(d.issues, "unsafe") => Has(Bounded(d.issues), "unsafe")
    BY DEF DraftFits, Drafts
  <1>2. Issued(d, accepted) \in Codes /\ (~holds => Issued(d, accepted) # <<>>)
    <2>1. /\ Append(d.issues, "low") \in Codes
          /\ \A c \in {"rejected", "kind_denied"} : Append(d.issues, c) \in Codes /\ Append(d.issues, c) # <<>>
          /\ <<"no_entities">> \in Codes /\ <<"no_entities">> # <<>>
      BY <1>1, CodesAre
    <2> QED BY <1>1, <2>1 DEF Issued
  <1>3. holds /\ Issued(d, accepted) = <<>> => d.issues = <<>> /\ d.score >= SessionPolicy.threshold
    <2>1. Append(d.issues, "low") # <<>> /\ SessionPolicy.threshold \in Int
      BY <1>1, CodesAre, SemanticAssumption
    <2> QED BY <1>1, <2>1 DEF Issued
  <1>4. Has(d.issues, "unsafe") => ~holds /\ Issued(d, accepted) = d.issues
    <2>1. Has(d.issues, "unsafe") => d.issues # <<>>
      BY DEF Has, ToSet
    <2> QED BY <2>1 DEF Issued, Offered
  <1>5. plan \in PlanOrNone /\ (holds => plan # NoPlan /\ plan.kind = d.plan.kind /\ plan.confidence = d.score)
    <2>1. CASE holds
      <3>1. d.plan \in Plans
        BY <1>1, <2>1 DEF Offered, PlanOrNone
      <3>2. LET q == [d.plan EXCEPT !.confidence = d.score, !.penalty = d.penalty]
            IN  q \in Plans /\ q.kind = d.plan.kind /\ q.confidence = d.score
        BY <1>1, <3>1 DEF Plans
      <3> QED BY <2>1, <3>2, NoneIsNone DEF PlanOrNone
    <2>2. CASE ~holds
      BY <2>2 DEF PlanOrNone
    <2> QED BY <2>1, <2>2
  <1>6. holds => d.plan.kind \in setting.kinds /\ d.plan # NoPlan
    BY DEF Offered
  <1>7. a = Analysis(plan, score, Bounded(Issued(d, accepted)), d.refs, d.unresolved, d.blocks, d.calls)
    BY DEF Finalized
  <1>8. score \in Int /\ (holds => score = d.score) /\ (~holds => plan = NoPlan)
    BY <1>1
  <1> HIDE DEF holds, plan, score, a
  <1>9. /\ Bounded(Issued(d, accepted)) \in Codes
        /\ Bounded(Issued(d, accepted)) = <<>> <=> Issued(d, accepted) = <<>>
    BY <1>2, BoundedIs
  <1>10. /\ a \in Analyses /\ a.plan = plan /\ a.score = score /\ a.issues = Bounded(Issued(d, accepted))
         /\ a.unresolved = d.unresolved /\ a.blocks = d.blocks /\ a.calls = d.calls
    BY <1>1, <1>5, <1>7, <1>8, <1>9 DEF Analysis, Analyses
  <1>11. AnalysisFits(a)
    BY <1>1, <1>2, <1>3, <1>5, <1>6, <1>8, <1>9, <1>10 DEF AnalysisFits, Fits
  <1>12. Has(d.issues, "unsafe") => a.plan = NoPlan /\ Has(a.issues, "unsafe")
    BY <1>1, <1>4, <1>8, <1>10
  <1>13. DraftStands(d) => Stands(a)
    BY <1>5, <1>8, <1>10 DEF DraftStands, Stands
  <1> QED BY <1>10, <1>11, <1>12, <1>13 DEF a

(* A saved plan that is refused leaves an analysis with one issue. *)
LEMMA RefusedFits ==
    ASSUME NEW result \in Analyses, AnalysisFits(result), NEW code \in IssueCodes
    PROVE  LET a == [result EXCEPT !.plan = NoPlan, !.issues = <<code>>, !.score = 0]
           IN  a \in Analyses /\ AnalysisFits(a)
  <1>1. <<code>> \in Codes /\ <<code>> # <<>> /\ NoPlan \in PlanOrNone
    BY CodesAre DEF PlanOrNone
  <1> DEFINE issues == <<code>>
             zero == 0
             a == [result EXCEPT !.plan = NoPlan, !.issues = issues, !.score = zero]
  <1>2. result.unresolved <= result.blocks
    BY DEF AnalysisFits, Fits
  <1>3. issues \in Codes /\ issues # <<>> /\ zero \in Int
    BY <1>1
  <1> HIDE DEF issues, zero
  <1>4. /\ a \in Analyses /\ a.plan = NoPlan /\ a.issues = issues
        /\ a.unresolved = result.unresolved /\ a.blocks = result.blocks
    BY <1>1, <1>3 DEF Analyses
  <1> HIDE DEF a
  <1>5. AnalysisFits(a)
    BY <1>2, <1>3, <1>4 DEF AnalysisFits, Fits
  <1> QED BY <1>4, <1>5 DEF a, issues, zero

(* A saved plan with quotations: what they leave open is an issue. *)
LEMMA SavedScopeFits ==
    ASSUME setting \in Settings, NEW plan \in Plans, NEW result, plan.kind \in setting.kinds
    PROVE  SavedScope(plan, result) \in Analyses /\ AnalysisFits(SavedScope(plan, result))
  <1> DEFINE unresolved == IF plan.penalty > 0 THEN setting.refs ELSE plan.holes
             before == IF plan.penalty > 0 THEN <<"saved_review">> ELSE <<>>
             open == IF unresolved > 0 THEN <<"unresolved">> ELSE <<>>
             issues == before \o open
             evidence == (100 * (setting.refs - unresolved)) \div Max({1, setting.refs})
             penalty == IF issues = <<>> THEN 0 ELSE 20
             score == Score(evidence, 100, 85, penalty)
             low == IF score < SessionPolicy.threshold THEN <<"low">> ELSE <<>>
             all == issues \o low
             a == SavedScope(plan, result)
  <1>1. /\ setting.refs \in Nat /\ plan.penalty \in Nat /\ plan.holes \in Nat /\ unresolved \in Nat
        /\ SessionPolicy.threshold \in Int
    BY SettingIs, SemanticAssumption DEF Plans
  <1>2. a = Analysis(plan, score, Bounded(all), setting.refs, unresolved, unresolved, 0)
    BY DEF SavedScope
  <1>3. /\ before \in Codes /\ open \in Codes /\ low \in Codes
        /\ (unresolved > 0 => open # <<>>) /\ (score < SessionPolicy.threshold => low # <<>>)
    <2>1. \A c \in {"saved_review", "unresolved", "low"} : <<c>> \in Codes /\ <<c>> # <<>>
      BY CodesAre
    <2>2. <<>> \in Codes
      BY CodesAre
    <2> HIDE DEF unresolved, score
    <2> QED BY <2>1, <2>2
  <1>4. evidence \in Int
    <2> DEFINE m == Max({1, setting.refs})
    <2>1. m \in Nat \ {0}
      <3>1. m = IF 1 >= setting.refs THEN 1 ELSE setting.refs
        BY <1>1, LargerOf
      <3> QED BY <1>1, <3>1
    <2> DEFINE n == 100 * (setting.refs - unresolved)
    <2>2. n \in Int
      BY <1>1
    <2>3. evidence = n \div m
      OBVIOUS
    <2> HIDE DEF m, n, evidence
    <2> QED BY <2>1, <2>2, <2>3
  <1> HIDE DEF unresolved, before, open, evidence, low, a
  <1>5. issues \in Codes /\ (issues = <<>> => open = <<>>)
    <2>1. before \o open \in Codes /\ Len(before \o open) = Len(before) + Len(open)
          /\ Len(before) \in Nat /\ Len(open) \in Nat
      BY <1>3 DEF Codes
    <2>2. issues = <<>> => Len(open) = 0
      BY <2>1
    <2> QED BY <1>3, <2>1, <2>2, NoCodes
  <1>6. penalty \in Nat
    OBVIOUS
  <1> HIDE DEF issues, penalty
  <1>7. score \in Int
    <2> DEFINE ag == 85
    <2>1. ag \in Int
      OBVIOUS
    <2>2. score = Score(evidence, 100, ag, penalty)
      OBVIOUS
    <2> HIDE DEF ag, score
    <2>3. Score(evidence, 100, ag, penalty) \in Int
      BY <1>4, <1>6, <2>1, ScoreOfValid
    <2> QED BY <2>2, <2>3
  <1> HIDE DEF score
  <1>8. all \in Codes /\ (all = <<>> => issues = <<>> /\ low = <<>>)
    <2>1. issues \o low \in Codes /\ Len(issues \o low) = Len(issues) + Len(low)
          /\ Len(issues) \in Nat /\ Len(low) \in Nat
      BY <1>3, <1>5 DEF Codes
    <2>2. all = <<>> => Len(issues) = 0 /\ Len(low) = 0
      BY <2>1
    <2> QED BY <1>3, <1>5, <2>1, <2>2, NoCodes
  <1> HIDE DEF all
  <1>9. Bounded(all) \in Codes /\ (Bounded(all) = <<>> <=> all = <<>>)
    BY <1>8, BoundedIs
  <1>10. /\ a \in Analyses /\ a.plan = plan /\ a.score = score /\ a.issues = Bounded(all)
         /\ a.unresolved = unresolved /\ a.blocks = unresolved
    <2>1. plan \in PlanOrNone /\ 0 \in Nat
      BY DEF PlanOrNone
    <2> QED BY <1>1, <1>2, <1>7, <1>9, <2>1 DEF Analysis, Analyses
  <1>11. a.issues = <<>> => a.blocks = 0 /\ a.score >= SessionPolicy.threshold
    BY <1>1, <1>3, <1>5, <1>7, <1>8, <1>9, <1>10
  <1>12. plan # NoPlan
    BY NoneIsNone
  <1> QED BY <1>1, <1>10, <1>11, <1>12 DEF a, AnalysisFits, Fits

(* A saved plan with a grammar: it is compared with the one that was found  *)
(* without a model.                                                         *)
LEMMA SavedShapeFits ==
    ASSUME setting \in Settings, NEW plan \in Plans, NEW result \in Analyses, AnalysisFits(result),
           Stands(result), plan.kind \in setting.kinds
    PROVE  SavedShape(plan, result) \in Analyses /\ AnalysisFits(SavedShape(plan, result))
  <1> DEFINE agrees == result.plan # NoPlan /\ result.plan.shape = plan.shape
             evidence == IF result.plan = NoPlan THEN 0 ELSE result.plan.confidence
             agreement == IF agrees THEN 100 ELSE 0
             score == Score(evidence, 100, agreement, 0)
             issues == IF agrees THEN <<>> ELSE <<"saved_review">>
             a == SavedShape(plan, result)
  <1>1. a = [result EXCEPT !.plan = plan, !.score = score, !.issues = issues]
    BY DEF SavedShape
  <1>2. evidence \in Int /\ agreement \in Int /\ (agrees => evidence = result.plan.confidence /\ agreement = 100)
    <2>1. result.plan # NoPlan => result.plan \in Plans
      BY DEF Analyses, PlanOrNone
    <2> QED BY <2>1 DEF Plans
  <1>3. issues \in Codes /\ (~agrees => issues # <<>>)
    BY CodesAre
  <1>4. agrees => Trusted(evidence) /\ result.blocks = 0
    BY <1>2 DEF Stands
  <1>5. result.blocks \in Nat /\ result.unresolved <= result.blocks /\ SessionPolicy.threshold \in Int
    BY SemanticAssumption DEF Analyses, AnalysisFits, Fits
  <1> HIDE DEF agrees, evidence, agreement, issues, a
  <1>6. score \in Int /\ (agrees => SessionPolicy.threshold <= score)
    <2> DEFINE pen == 0
    <2>1. pen \in Int /\ pen = 0 /\ 100 \in Int
      OBVIOUS
    <2>2. score = Score(evidence, 100, agreement, pen)
      OBVIOUS
    <2> HIDE DEF pen, score
    <2>3. /\ Score(evidence, 100, agreement, pen) \in Int
          /\ agreement = 100 /\ pen = 0 /\ Trusted(evidence) =>
               Trusted(Score(evidence, 100, agreement, pen))
      BY <1>2, <2>1, ScoreIs
    <2> QED BY <1>2, <1>4, <2>1, <2>2, <2>3 DEF Trusted
  <1> HIDE DEF score
  <1>7. /\ a \in Analyses /\ a.plan = plan /\ a.score = score /\ a.issues = issues
        /\ a.blocks = result.blocks /\ a.unresolved = result.unresolved
    <2>1. plan \in PlanOrNone
      BY DEF PlanOrNone
    <2> QED BY <1>1, <1>3, <1>6, <2>1 DEF Analyses
  <1>8. plan # NoPlan
    BY NoneIsNone
  <1>9. a.issues = <<>> => a.blocks = 0 /\ a.score >= SessionPolicy.threshold
    BY <1>3, <1>4, <1>5, <1>6, <1>7
  <1> QED BY <1>5, <1>7, <1>8, <1>9 DEF a, AnalysisFits, Fits

(* A saved plan, checked: an analysis that fits, whatever is said of it. *)
LEMMA SavedFits ==
    ASSUME setting \in Settings, NEW plan \in Plans, NEW result \in Analyses, AnalysisFits(result),
           Stands(result), NEW accepted \in BOOLEAN
    PROVE  Saved(plan, result, accepted) \in Analyses /\ AnalysisFits(Saved(plan, result, accepted))
  <1>1. \A code \in {"rejected", "kind_denied"} :
          LET a == [result EXCEPT !.plan = NoPlan, !.issues = <<code>>, !.score = 0]
          IN  a \in Analyses /\ AnalysisFits(a)
    BY RefusedFits, CodesAre
  <1>2. CASE ~accepted
    BY <1>1, <1>2 DEF Saved
  <1>3. CASE accepted /\ plan.kind \notin setting.kinds
    BY <1>1, <1>3 DEF Saved
  <1>4. CASE accepted /\ plan.kind \in setting.kinds /\ plan.spans
    BY <1>4, SavedScopeFits DEF Saved
  <1>5. CASE accepted /\ plan.kind \in setting.kinds /\ ~plan.spans
    BY <1>5, SavedShapeFits DEF Saved
  <1> QED BY <1>2, <1>3, <1>4, <1>5

Batches == [records : Nat, last : BOOLEAN]

AddsRecords(it, given) ==
    it = [s \in SUBSET DOMAIN given |-> IF s = {} THEN 0 ELSE it[s \ {Max(s)}] + given[Max(s)].records]

SumOf(given) == (CHOOSE it : AddsRecords(it, given))[DOMAIN given]

(* The records given are a sum over the batches given. *)
LEMMA RecordsAre == RecordsGiven = SumOf(output.given)
  BY DEF RecordsGiven, SumOf, FoldLeft, MapThenFoldSet, AddsRecords

(* There is a function that adds up a list of batches, by well-founded      *)
(* recursion on the sets of its places.                                     *)
LEMMA AddingFolds ==
    ASSUME NEW given \in Seq(Batches)
    PROVE  \E it : AddsRecords(it, given)
  <1> DEFINE S    == DOMAIN given
             pick == [s \in SUBSET S |-> Max(s)]
             G    == [xy \in S \X Nat |-> xy[2] + given[xy[1]].records]
  <1>1. IsFiniteSet(S) /\ S = 1..Len(given) /\ Len(given) \in Nat /\ \A i \in S : given[i].records \in Nat
    <2>1. S = 1..Len(given) /\ Len(given) \in Nat /\ \A i \in S : given[i].records \in Nat
      <3>1. S = 1..Len(given) /\ Len(given) \in Nat /\ \A i \in S : given[i] \in Batches
        OBVIOUS
      <3>2. \A b \in Batches : b.records \in Nat
        BY DEF Batches
      <3> HIDE DEF S
      <3> QED BY <3>1, <3>2
    <2>2. \A n \in Nat : IsFiniteSet(1..n)
      BY FS_Interval
    <2> QED BY <2>1, <2>2
  <1> HIDE DEF S
  <1>2. Picks(pick, S)
    <2>1. ASSUME NEW s \in SUBSET S, s # {} PROVE pick[s] \in s
      <3>1. Max(s) \in s
        BY <1>1, <2>1, MaxOfNumbers
      <3> QED BY <3>1
    <2> HIDE DEF pick
    <2> QED BY <2>1 DEF Picks
  <1>3. \A x \in S, y \in Nat : G[<<x, y>>] = y + given[x].records /\ G[<<x, y>>] \in Nat
    <2> TAKE x \in S, y \in Nat
    <2> DEFINE e == given[x].records
               g == G[<<x, y>>]
    <2>1. e \in Nat /\ y \in Nat /\ g = y + e
      BY <1>1
    <2> HIDE DEF e, g, G
    <2>2. g \in Nat
      BY <2>1
    <2> QED BY <2>1, <2>2 DEF e, g
  <1> DEFINE base == 0
             Y    == Nat
  <1>4. base \in Y
    OBVIOUS
  <1> HIDE DEF G, base
  <1>5. PICK f : Folds(f, S, base, pick, G)
    <2> HIDE DEF pick
    <2> QED BY <1>1, <1>2, FoldIsThere
  <1>6. \A x \in S, y \in Y : G[<<x, y>>] \in Y
    BY <1>3
  <1>7. \A s \in SUBSET S : f[s] \in Y
    <2> HIDE DEF pick, Y
    <2> QED BY <1>1, <1>2, <1>4, <1>5, <1>6, FoldStays
  <1>8. f = [s \in SUBSET S |-> f[s]] /\ f[{}] = base
    BY <1>5 DEF Folds
  <1>9. ASSUME NEW s \in SUBSET S, s # {} PROVE f[s] = f[s \ {Max(s)}] + given[Max(s)].records
    <2>1. f[s] = G[<<pick[s], f[s \ {pick[s]}]>>]
      <3> HIDE DEF pick
      <3> QED BY <1>5, <1>9 DEF Folds
    <2>2. pick[s] = Max(s) /\ pick[s] \in S
      BY <1>2, <1>9 DEF Picks
    <2>3. f[s \ {pick[s]}] \in Nat
      BY <1>7
    <2> HIDE DEF pick
    <2> QED BY <1>3, <2>1, <2>2, <2>3
  <1> HIDE DEF pick
  <1>10. AddsRecords(f, given)
    <2>1. [s \in SUBSET S |-> f[s]]
            = [s \in SUBSET S |-> IF s = {} THEN 0 ELSE f[s \ {Max(s)}] + given[Max(s)].records]
      BY <1>8, <1>9 DEF base
    <2> QED BY <1>8, <2>1 DEF AddsRecords, S
  <1> QED BY <1>10

(* Two that begin alike add up alike. *)
LEMMA AddingIsOne ==
    ASSUME NEW given \in Seq(Batches), NEW more \in Seq(Batches), Len(given) <= Len(more),
           \A i \in 1..Len(given) : more[i] = given[i],
           NEW f, AddsRecords(f, given), NEW g, AddsRecords(g, more)
    PROVE  \A s \in SUBSET (1..Len(given)) : f[s] = g[s] /\ f[s] \in Nat
  <1> DEFINE n == Len(given)
             flawed == {s \in SUBSET (1..n) : ~(f[s] = g[s] /\ f[s] \in Nat)}
  <1> SUFFICES ASSUME NEW r \in flawed PROVE FALSE
    OBVIOUS
  <1>1. /\ n \in Nat /\ Len(more) \in Nat /\ DOMAIN given = 1..n /\ 1..n \in SUBSET DOMAIN more
        /\ \A i \in 1..n : given[i].records \in Nat /\ more[i] = given[i]
    <2>1. /\ n \in Nat /\ Len(more) \in Nat /\ DOMAIN given = 1..n /\ DOMAIN more = 1..Len(more)
          /\ \A i \in 1..n : given[i] \in Batches
      OBVIOUS
    <2>2. \A b \in Batches : b.records \in Nat
      BY DEF Batches
    <2>3. 1..n \in SUBSET (1..Len(more))
      BY <2>1
    <2> QED BY <2>1, <2>2, <2>3
  <1>2. \A s \in flawed : IsFiniteSet(s)
    <2>1. IsFiniteSet(1..n)
      BY <1>1, FS_Interval
    <2> QED BY <2>1, FS_Subset
  <1>3. PICK s \in flawed : \A u \in flawed : ~(u \subseteq s /\ u # s)
    <2> HIDE DEF flawed
    <2> QED BY <1>2, LeastSet
  <1>4. s \in SUBSET (1..n) /\ s \in SUBSET DOMAIN more
    BY <1>1
  <1>5. CASE s = {}
    <2>1. f[s] = 0 /\ g[s] = 0
      BY <1>1, <1>4, <1>5 DEF AddsRecords
    <2> QED BY <1>3, <2>1
  <1>6. CASE s # {}
    <2> DEFINE x == Max(s)
               u == s \ {x}
    <2>1. x \in s
      BY <1>1, <1>4, <1>6, MaxOfNumbers
    <2>2. u \subseteq s /\ u # s /\ u \in SUBSET (1..n)
      BY <1>4, <2>1
    <2>3. f[u] = g[u] /\ f[u] \in Nat
      <3> HIDE DEF u
      <3> QED BY <1>3, <2>2
    <2>4. f[s] = f[u] + given[x].records
      BY <1>1, <1>4, <1>6 DEF AddsRecords
    <2>5. g[s] = g[u] + more[x].records
      BY <1>4, <1>6 DEF AddsRecords
    <2>6. given[x].records \in Nat /\ more[x] = given[x]
      BY <1>1, <1>4, <2>1
    <2> HIDE DEF u, x
    <2>7. f[s] = g[s] /\ f[s] \in Nat
      BY <2>3, <2>4, <2>5, <2>6
    <2> QED BY <1>3, <2>7
  <1> QED BY <1>5, <1>6

(* Before the first batch nothing is counted. *)
LEMMA SumOfBegun == SumOf(<<>>) = 0
  <1> DEFINE f == CHOOSE it : AddsRecords(it, <<>>)
  <1>1. AddsRecords(f, <<>>)
    <2>1. <<>> \in Seq(Batches)
      OBVIOUS
    <2> QED BY <2>1, AddingFolds
  <1> HIDE DEF f
  <1>2. DOMAIN <<>> = {}
    OBVIOUS
  <1>3. f[{}] = 0
    BY <1>1 DEF AddsRecords
  <1> QED BY <1>2, <1>3 DEF SumOf, f

(* A batch that is given counts once. *)
LEMMA SumOfGiven ==
    ASSUME NEW given \in Seq(Batches), NEW batch \in Batches
    PROVE  SumOf(Append(given, batch)) = SumOf(given) + batch.records /\ SumOf(given) \in Nat
  <1> DEFINE more == Append(given, batch)
             n == Len(given)
             f == CHOOSE it : AddsRecords(it, given)
             g == CHOOSE it : AddsRecords(it, more)
  <1>1. /\ n \in Nat /\ more \in Seq(Batches) /\ Len(more) = n + 1 /\ more[n + 1] = batch
        /\ \A i \in 1..n : more[i] = given[i]
        /\ DOMAIN given = 1..n /\ DOMAIN more = 1..(n + 1)
    OBVIOUS
  <1> HIDE DEF more
  <1>2. AddsRecords(f, given) /\ AddsRecords(g, more)
    BY <1>1, AddingFolds
  <1>3. SumOf(given) = f[1..n] /\ SumOf(more) = g[1..(n + 1)]
    BY <1>1 DEF SumOf
  <1> HIDE DEF f, g
  <1>4. f[1..n] = g[1..n] /\ f[1..n] \in Nat
    <2>1. Len(given) <= Len(more) /\ \A i \in 1..Len(given) : more[i] = given[i]
      BY <1>1
    <2>2. \A s \in SUBSET (1..Len(given)) : f[s] = g[s] /\ f[s] \in Nat
      BY <1>1, <1>2, <2>1, AddingIsOne
    <2> QED BY <2>2
  <1>5. g[1..(n + 1)] = g[1..n] + batch.records
    <2>1. Max(1..(n + 1)) = n + 1 /\ (1..(n + 1)) \ {n + 1} = 1..n
      <3>1. n + 1 \in Nat \ {0} /\ (n + 1) - 1 = n
        BY <1>1
      <3> DEFINE m == n + 1
      <3> HIDE DEF m
      <3>2. Max(1..m) = m /\ (1..m) \ {m} = 1..(m - 1)
        BY <3>1, MaxOfList DEF m
      <3> QED BY <3>1, <3>2 DEF m
    <2>2. 1..(n + 1) # {} /\ 1..(n + 1) \in SUBSET DOMAIN more
      BY <1>1
    <2>3. g[1..(n + 1)] = g[(1..(n + 1)) \ {Max(1..(n + 1))}] + more[Max(1..(n + 1))].records
      BY <1>2, <2>2 DEF AddsRecords
    <2> QED BY <1>1, <2>1, <2>3
  <1> QED BY <1>3, <1>4, <1>5 DEF more

-----------------------------
(* The invariant of a semantic run. *)

ModelAsked == {"analyze", "parse", "request"}
Asking == {"capture", "ask", "finalize"}

Sessions ==
    [closed : BOOLEAN, started : BOOLEAN, analysis : Analyses \cup {NoPlan}, last : Analyses \cup {NoPlan},
     report : Reports \cup {NoPlan}, records : Nat,
     iterator : {"none", "made", "running", "paused", "ended"}, plan : PlanOrNone]

Operations ==
    [purpose : {"none", "analyze", "parse", "request", "validate", "saved"},
     step : {"none", "capture", "ask", "finalize", "check", "plan", "emit"},
     mode : ParsingModes \cup {"none"}, draft : Drafts \cup Analyses \cup {NoPlan}]

SemanticTypes ==
    /\ setting \in Settings /\ session \in Sessions /\ op \in Operations
    /\ output \in [left : Seq(Nat), given : Seq(Batches)]
    /\ spent \in [calls : Nat, asked : {0, 1}, unsafe : BOOLEAN]

(* Who waits for what: each step belongs to some purposes, an analysis of   *)
(* the session's own runs while it is open and has none, and the iterator   *)
(* runs as long as its operation does.                                      *)
OperationFits ==
    /\ op.step = "none" <=> op.purpose = "none"
    /\ op.purpose = "request" <=> (setting.request /\ op.step # "none")
    /\ op.purpose \in {"validate", "saved"} => op.mode = "deterministic"
    /\ op.step = "ask" => op.purpose \in ModelAsked /\ op.mode # "deterministic" /\ session.last # NoPlan
    /\ op.step = "check" => op.purpose \in {"validate", "saved"}
    /\ op.step \in {"plan", "emit"} => op.purpose = "parse" /\ session.analysis # NoPlan
    /\ op.purpose \in {"analyze", "validate"} => ~session.closed
    /\ op.purpose \in {"analyze", "parse"} /\ op.step \in Asking => ~session.closed /\ session.analysis = NoPlan
    /\ op.purpose \in {"parse", "saved"} <=> session.iterator = "running"
    /\ op.purpose = "analyze" => op.step \in Asking
    /\ op.purpose = "saved" => session.plan # NoPlan

(* What waits for the second reading of the source. *)
DraftIsFit ==
    /\ op.step = "finalize" => DraftFits(op.draft) /\ (op.mode = "deterministic" => DraftStands(op.draft))
    /\ op.step = "check" => op.draft \in Analyses /\ Fits(op.draft, setting.kinds)
    /\ op.step = "check" /\ op.purpose = "saved" => Stands(op.draft)

SessionFits ==
    /\ session.analysis # NoPlan => Fits(session.analysis, setting.kinds)
    /\ session.last # NoPlan => Fits(session.last, setting.kinds)
    /\ setting.request => session.iterator = "none" /\ session.analysis = NoPlan /\ ~session.closed
    /\ session.started <=> session.iterator # "none"
    /\ ~session.started => session.plan = NoPlan
    /\ session.iterator \in {"none", "made"} \/ (session.iterator = "running" /\ op.step # "emit") =>
          session.report = NoPlan /\ output.given = <<>> /\ session.records = 0
    /\ session.iterator = "paused" \/ op.step = "emit" =>
          session.analysis # NoPlan /\ session.analysis.plan # NoPlan /\ session.analysis.plan.valid
    /\ session.report # NoPlan => session.analysis # NoPlan /\ (session.iterator # "ended" => output.left = <<>>)
    /\ output.given # <<>> => session.analysis # NoPlan
    /\ session.records = RecordsGiven

(* One analysis asks, and it is the one that the session has. *)
AskedFits ==
    /\ spent.asked = 0 => spent.calls = 0 /\ ~spent.unsafe
    /\ op.step = "ask" \/ (op.step = "capture" /\ op.purpose \in ModelAsked) => spent.asked = 0
    /\ spent.asked = 1 =>
         \/ session.analysis # NoPlan \/ session.closed
         \/ op.step = "finalize" /\ op.purpose \in ModelAsked
         \/ setting.request /\ answer # "none"
    /\ setting.request /\ op.step # "none" => answer = "none"

(* Where the calls are counted. *)
CallsFit ==
    /\ op.step = "finalize" /\ op.purpose \in ModelAsked => op.draft.calls = spent.calls
    /\ session.last # NoPlan /\ session.analysis = NoPlan =>
         \/ session.last.calls = spent.calls
         \/ session.closed /\ session.plan # NoPlan /\ session.last.calls = 0
    /\ session.analysis # NoPlan =>
         \/ session.analysis.calls = spent.calls
         \/ session.closed /\ session.plan # NoPlan /\ session.analysis.calls = 0 /\ session.iterator = "ended"

(* Where a veto is kept. *)
VetoFits ==
    spent.unsafe /\ session.plan = NoPlan =>
      /\ output.given = <<>>
      /\ \/ setting.request
         \/ op.step = "finalize" /\ op.purpose \in ModelAsked /\ Has(op.draft.issues, "unsafe")
         \/ session.analysis # NoPlan /\ session.analysis.plan = NoPlan /\ Has(session.analysis.issues, "unsafe")

ReportSays(r) ==
    /\ ReportFits(r)
    /\ r.status = "completed" =>
         /\ IsTold /\ r.score >= SessionPolicy.threshold
         /\ r.plan.valid /\ r.plan.kind \in setting.kinds
    /\ r.status # "completed" => (IsTold => r.status = "failed")
    /\ r.status = "cancelled" => Has(r.issues, "cancelled") \/ FullOfVetoes(r.issues)
    /\ r.records = session.records
    /\ r.calls = spent.calls \/ LostCalls(r)
    /\ spent.unsafe /\ session.plan = NoPlan => Has(r.issues, "unsafe")

ReportStands ==
    /\ IsTold => session.report # NoPlan
    /\ session.report # NoPlan => ReportSays(session.report)

SemanticInv ==
    /\ SemanticTypes /\ OperationFits /\ DraftIsFit /\ SessionFits
    /\ AskedFits /\ CallsFit /\ VetoFits /\ ReportStands
-----------------------------
(* Reports. *)

(* The fields of a session. *)
LEMMA SessionTyped ==
    ASSUME NEW s \in Sessions
    PROVE  /\ s.closed \in BOOLEAN /\ s.started \in BOOLEAN /\ s.records \in Nat /\ s.plan \in PlanOrNone
           /\ s.analysis # NoPlan => s.analysis \in Analyses
           /\ s.last # NoPlan => s.last \in Analyses
           /\ s.report # NoPlan => s.report \in Reports
           /\ s.iterator \in {"none", "made", "running", "paused", "ended"}
  BY DEF Sessions

(* The fields of an operation. *)
LEMMA OperationTyped ==
    ASSUME NEW o \in Operations
    PROVE  /\ o.purpose \in {"none", "analyze", "parse", "request", "validate", "saved"}
           /\ o.step \in {"none", "capture", "ask", "finalize", "check", "plan", "emit"}
           /\ o.mode \in ParsingModes \cup {"none"}
  BY DEF Operations

(* A report says what the analysis says. *)
LEMMA ReportIs ==
    ASSUME NEW a \in Analyses, NEW status \in Statuses, NEW records \in Nat
    PROVE  LET r == ReportOf(a, status, records)
           IN  /\ r \in Reports /\ r # NoPlan /\ r.status = status /\ r.plan = a.plan /\ r.issues = a.issues
               /\ r.score = a.score /\ r.calls = a.calls /\ r.blocks = a.blocks /\ r.unresolved = a.unresolved
               /\ r.records = records
  <1> DEFINE r == ReportOf(a, status, records)
  <1>1. /\ r \in Reports /\ r.status = status /\ r.plan = a.plan /\ r.issues = a.issues
        /\ r.score = a.score /\ r.calls = a.calls /\ r.blocks = a.blocks /\ r.unresolved = a.unresolved
        /\ r.records = records
    BY DEF ReportOf, Reports, Analyses
  <1>2. r # NoPlan
    BY <1>1, NoneIsNone
  <1> QED BY <1>1, <1>2

(* A session that is finished has a report of its analysis, and is          *)
(* otherwise as before.                                                     *)
LEMMA FinishedIs ==
    ASSUME NEW s \in Sessions, s.analysis # NoPlan, NEW status \in Statuses
    PROVE  LET e == FinishWith(s, status)
           IN  /\ e \in Sessions /\ e.report = ReportOf(s.analysis, status, s.records)
               /\ e.closed = s.closed /\ e.started = s.started /\ e.records = s.records /\ e.plan = s.plan
               /\ e.analysis = s.analysis /\ e.last = s.last /\ e.iterator = s.iterator
  <1> DEFINE r == ReportOf(s.analysis, status, s.records)
  <1>1. r \in Reports
    BY SessionTyped, ReportIs
  <1>2. FinishWith(s, status) = [s EXCEPT !.report = r]
    BY DEF FinishWith
  <1> HIDE DEF r
  <1>3. [s EXCEPT !.report = r] \in Sessions
    BY <1>1 DEF Sessions
  <1>4. LET e == [s EXCEPT !.report = r]
        IN  /\ e.report = r
            /\ e.closed = s.closed /\ e.started = s.started /\ e.records = s.records /\ e.plan = s.plan
            /\ e.analysis = s.analysis /\ e.last = s.last /\ e.iterator = s.iterator
    BY DEF Sessions
  <1> QED BY <1>2, <1>3, <1>4 DEF r

(* An analysis with other issues still fits, as long as there are some. *)
LEMMA WithIssuesFits ==
    ASSUME NEW a \in Analyses, NEW kinds, Fits(a, kinds), NEW issues \in Codes, issues # <<>>
    PROVE  LET b == [a EXCEPT !.issues = issues]
           IN  /\ b \in Analyses /\ Fits(b, kinds) /\ b.plan = a.plan /\ b.issues = issues /\ b.calls = a.calls
               /\ b.blocks = a.blocks /\ b.unresolved = a.unresolved
  <1> DEFINE b == [a EXCEPT !.issues = issues]
  <1>1. /\ b \in Analyses /\ b.plan = a.plan /\ b.issues = issues /\ b.calls = a.calls
        /\ b.blocks = a.blocks /\ b.unresolved = a.unresolved
    BY DEF Analyses
  <1> HIDE DEF b
  <1>2. Fits(b, kinds)
    BY <1>1 DEF Fits
  <1> QED BY <1>1, <1>2 DEF b

(* What _fail makes of a session: a report of what is known, for a reason   *)
(* that is in it.                                                           *)
Known(s) == IF s.analysis = NoPlan THEN s.last ELSE s.analysis

Fails(e, s, status, code, kinds) ==
    /\ e \in Sessions
    /\ e.closed = s.closed /\ e.started = s.started /\ e.records = s.records /\ e.plan = s.plan
    /\ e.last = s.last /\ e.iterator = s.iterator
    /\ Known(s) = NoPlan => e = s
    /\ Known(s) # NoPlan =>
         /\ e.analysis # NoPlan /\ Fits(e.analysis, kinds) /\ e.analysis.calls = Known(s).calls
         /\ e.analysis.plan = Known(s).plan
         /\ Has(Known(s).issues, "unsafe") => Has(e.analysis.issues, "unsafe") /\ Has(e.report.issues, "unsafe")
         /\ e.report # NoPlan /\ ReportFits(e.report) /\ e.report.status = status
         /\ e.report.records = s.records /\ e.report.calls = Known(s).calls
         /\ Has(e.report.issues, code) \/ FullOfVetoes(e.report.issues)

(* _fail, for any session whose analyses fit: with nothing known it reports *)
(* nothing.                                                                 *)
LEMMA FailedIs ==
    ASSUME NEW s \in Sessions, NEW status \in {"failed", "cancelled"}, NEW code \in IssueCodes, NEW kinds,
           s.analysis # NoPlan => Fits(s.analysis, kinds), s.last # NoPlan => Fits(s.last, kinds)
    PROVE  Fails(FailWith(s, status, code), s, status, code, kinds)
  <1> DEFINE a == Known(s)
             e == FailWith(s, status, code)
  <1>1. CASE a = NoPlan
    <2>1. e = s
      BY <1>1 DEF FailWith, Known
    <2> QED BY <1>1, <2>1 DEF Fails
  <1>2. CASE a # NoPlan
    <2> DEFINE w == WithReason(a.issues, code)
               b == [a EXCEPT !.issues = w]
               t == [s EXCEPT !.analysis = b]
    <2>1. e = FinishWith(t, status)
      BY <1>2 DEF FailWith, Known
    <2>2. a \in Analyses /\ Fits(a, kinds)
      BY <1>2, SessionTyped DEF Known
    <2>3. a.issues \in Codes
      BY <2>2 DEF Analyses
    <2> HIDE DEF a, e
    <2>4. w \in Codes /\ w # <<>> /\ (Has(a.issues, "unsafe") => Has(w, "unsafe")) /\ (Has(w, code) \/ FullOfVetoes(w))
      BY <2>3, WithReasonIs
    <2> HIDE DEF w
    <2>5. /\ b \in Analyses /\ Fits(b, kinds) /\ b.plan = a.plan /\ b.issues = w /\ b.calls = a.calls
          /\ b.blocks = a.blocks /\ b.unresolved = a.unresolved
      BY <2>2, <2>4, WithIssuesFits
    <2> HIDE DEF b
    <2>6. /\ t \in Sessions /\ t.analysis = b /\ t.closed = s.closed /\ t.started = s.started
          /\ t.records = s.records /\ t.plan = s.plan /\ t.last = s.last /\ t.iterator = s.iterator
      BY <2>5 DEF Sessions
    <2> HIDE DEF t
    <2>7. b # NoPlan /\ status \in Statuses /\ status # "completed"
      BY <2>5, NoneIsNone DEF Statuses
    <2>8. /\ e \in Sessions /\ e.report = ReportOf(t.analysis, status, t.records)
          /\ e.closed = t.closed /\ e.started = t.started /\ e.records = t.records /\ e.plan = t.plan
          /\ e.analysis = t.analysis /\ e.last = t.last /\ e.iterator = t.iterator
      BY <2>1, <2>6, <2>7, FinishedIs
    <2>9. s.records \in Nat
      BY SessionTyped
    <2> DEFINE r == ReportOf(b, status, s.records)
    <2>10. /\ r \in Reports /\ r # NoPlan /\ r.status = status /\ r.plan = b.plan /\ r.issues = b.issues
           /\ r.score = b.score /\ r.calls = b.calls /\ r.blocks = b.blocks /\ r.unresolved = b.unresolved
           /\ r.records = s.records
      BY <2>5, <2>7, <2>9, ReportIs
    <2>11. e.report = r
      BY <2>6, <2>8
    <2> HIDE DEF r
    <2>12. ReportFits(r)
      BY <2>4, <2>5, <2>7, <2>10 DEF ReportFits, Fits
    <2>13. e.analysis = b
      BY <2>6, <2>8
    <2> QED BY <1>2, <2>4, <2>5, <2>6, <2>7, <2>8, <2>10, <2>11, <2>12, <2>13 DEF Fails, a, e
  <1> QED BY <1>1, <1>2

SemanticParts ==
    SemanticTypes /\ OperationFits /\ DraftIsFit /\ SessionFits
    /\ AskedFits /\ CallsFit /\ VetoFits /\ ReportStands

(* The same sum after a step. *)
LEMMA RecordsAreNext == RecordsGiven' = SumOf(output'.given)
  BY DEF RecordsGiven, SumOf, FoldLeft, MapThenFoldSet, AddsRecords

(* Where no batch is given, the sum stays and the end is told no more and   *)
(* no less than before.                                                     *)
LEMMA RecordsStay ==
    ASSUME output'.given = output.given
    PROVE  RecordsGiven' = RecordsGiven /\ IsTold' = IsTold
  <1>1. RecordsGiven' = RecordsGiven
    BY RecordsAre, RecordsAreNext
  <1>2. IsTold' = IsTold
    BY DEF IsTold
  <1> QED BY <1>1, <1>2

(* Nothing happens but an answer. *)
LEMMA AnswersOnly ==
    ASSUME SemanticInv, UNCHANGED <<setting, session, op, output, spent>>, ~setting.request \/ answer' = answer
    PROVE  SemanticInv'
  <1>1. SemanticTypes' /\ OperationFits' /\ DraftIsFit' /\ CallsFit'
    BY DEF SemanticInv, SemanticTypes, OperationFits, DraftIsFit, CallsFit
  <1>2. SessionFits' /\ VetoFits' /\ ReportStands'
    BY RecordsStay DEF SemanticInv, SessionFits, VetoFits, ReportStands, ReportSays, LostCalls
  <1>3. AskedFits'
    <2>1. setting'.request \in BOOLEAN /\ setting' = setting
      BY SettingIs DEF SemanticInv, SemanticTypes
    <2> QED BY <2>1 DEF SemanticInv, AskedFits, OperationFits, SemanticTypes, Operations
  <1> QED BY <1>1, <1>2, <1>3 DEF SemanticInv

(* CallAnalyze on a session that is open and has no analysis. *)
LEMMA StartsAnalysis ==
    ASSUME SemanticInv, IsFree, ~session.closed, session.analysis = NoPlan, op' = Begin("analyze", setting.mode),
           UNCHANGED <<setting, session, output, spent, answer>>
    PROVE  SemanticInv'
  <1>1. setting \in Settings /\ session \in Sessions /\ setting.mode \in ParsingModes /\ setting.request = FALSE
    BY SettingIs DEF SemanticInv, SemanticTypes, IsFree
  <1>2. /\ op' \in Operations /\ op'.purpose = "analyze" /\ op'.step = "capture" /\ op'.mode = setting.mode
    BY <1>1 DEF Begin, Operations
  <1>3. op.purpose = "none" /\ op.step = "none"
    BY DEF IsFree, Idle
  <1>4. RecordsGiven' = RecordsGiven /\ IsTold' = IsTold
    BY RecordsStay
  <1>5. SemanticTypes'
    BY <1>2 DEF SemanticInv, SemanticTypes
  <1>6. OperationFits'
    BY <1>1, <1>2, <1>3 DEF SemanticInv, OperationFits, ModelAsked, Asking
  <1>7. DraftIsFit'
    BY <1>2 DEF DraftIsFit
  <1>8. SessionFits'
    BY <1>1, <1>2, <1>3, <1>4 DEF SemanticInv, SessionFits
  <1>9. AskedFits'
    BY <1>1, <1>2, <1>3 DEF SemanticInv, SemanticTypes, AskedFits, ModelAsked
  <1>10. CallsFit'
    BY <1>1, <1>2, <1>3 DEF SemanticInv, CallsFit
  <1>11. VetoFits'
    BY <1>1, <1>2, <1>3 DEF SemanticInv, VetoFits
  <1>12. ReportStands'
    BY <1>1, <1>2, <1>3, <1>4 DEF SemanticInv, ReportStands, ReportSays, LostCalls
  <1> QED BY <1>5, <1>6, <1>7, <1>8, <1>9, <1>10, <1>11, <1>12 DEF SemanticInv

(* CallValidate on an open session: it checks the analysis there is, or     *)
(* makes one.                                                               *)
LEMMA StartsCheck ==
    ASSUME SemanticInv, IsFree, ~session.closed, CallValidate
    PROVE  SemanticInv'
  <1>1. setting \in Settings /\ session \in Sessions /\ setting.request = FALSE
    BY SettingIs DEF SemanticInv, SemanticTypes, IsFree
  <1>2. /\ op'.purpose = "validate" /\ op'.step \in {"capture", "check"} /\ op'.mode = "deterministic"
        /\ op'.step = "check" => op'.draft = session.analysis /\ session.analysis # NoPlan
        /\ op' \in Operations
        /\ UNCHANGED <<setting, session, output, spent, answer>>
    <2>1. /\ UNCHANGED <<setting, session, output, spent, answer>>
          /\ op' = IF session.analysis # NoPlan
                    THEN [Begin("validate", "deterministic") EXCEPT !.step = "check", !.draft = session.analysis]
                    ELSE Begin("validate", "deterministic")
      BY DEF CallValidate
    <2>2. session.analysis # NoPlan => session.analysis \in Analyses
      BY <1>1, SessionTyped
    <2>3. CASE session.analysis # NoPlan
      <3>1. op' = [purpose |-> "validate", step |-> "check", mode |-> "deterministic", draft |-> session.analysis]
        BY <2>1, <2>3 DEF Begin
      <3>2. op' \in Operations
        BY <2>2, <2>3, <3>1 DEF Operations, ParsingModes
      <3>3. op'.purpose = "validate" /\ op'.step = "check" /\ op'.mode = "deterministic" /\ op'.draft = session.analysis
        BY <3>1
      <3> QED BY <2>1, <2>3, <3>2, <3>3
    <2>4. CASE session.analysis = NoPlan
      <3>1. op' = [purpose |-> "validate", step |-> "capture", mode |-> "deterministic", draft |-> NoPlan]
        BY <2>1, <2>4 DEF Begin
      <3>2. op' \in Operations
        BY <3>1 DEF Operations, ParsingModes
      <3>3. op'.purpose = "validate" /\ op'.step = "capture" /\ op'.mode = "deterministic"
        BY <3>1
      <3> QED BY <2>1, <3>2, <3>3
    <2> QED BY <2>3, <2>4
  <1>3. op.purpose = "none" /\ op.step = "none"
    BY DEF IsFree, Idle
  <1>4. RecordsGiven' = RecordsGiven /\ IsTold' = IsTold
    BY <1>2, RecordsStay
  <1>5. session.analysis # NoPlan => session.analysis \in Analyses /\ Fits(session.analysis, setting.kinds)
    BY <1>1, SessionTyped DEF SemanticInv, SessionFits
  <1> USE <1>1, <1>2, <1>3, <1>4 DEF SemanticInv
  <1>6. SemanticTypes'
    BY DEF SemanticTypes
  <1>7. OperationFits'
    BY DEF OperationFits, ModelAsked, Asking
  <1>8. DraftIsFit'
    BY <1>5 DEF DraftIsFit
  <1>9. SessionFits'
    BY DEF SessionFits
  <1>10. AskedFits'
    BY DEF SemanticTypes, AskedFits, ModelAsked
  <1>11. CallsFit'
    BY DEF CallsFit
  <1>12. VetoFits'
    BY DEF VetoFits
  <1>13. ReportStands'
    BY DEF ReportStands, ReportSays, LostCalls
  <1> QED BY <1>6, <1>7, <1>8, <1>9, <1>10, <1>11, <1>12, <1>13

(* CallParse: the one iterator is made, with the plan that is brought. *)
LEMMA MakesIterator ==
    ASSUME SemanticInv, NEW plan \in SavedPlans \cup {NoPlan}, IsFree, ~session.closed, ~session.started,
           session' = [session EXCEPT !.started = TRUE, !.iterator = "made", !.plan = plan],
           UNCHANGED <<setting, op, output, spent, answer>>
    PROVE  SemanticInv'
  <1>1. setting \in Settings /\ session \in Sessions /\ setting.request = FALSE /\ plan \in PlanOrNone
    BY SettingIs, SemanticAssumption DEF SemanticInv, SemanticTypes, IsFree, PlanOrNone
  <1>2. /\ session'.started = TRUE /\ session'.iterator = "made" /\ session'.plan = plan
        /\ session'.closed = session.closed /\ session'.analysis = session.analysis
        /\ session'.last = session.last /\ session'.report = session.report /\ session'.records = session.records
        /\ session' \in Sessions
    BY <1>1 DEF Sessions
  <1>3. op.purpose = "none" /\ op.step = "none"
    BY DEF IsFree, Idle
  <1>4. RecordsGiven' = RecordsGiven /\ IsTold' = IsTold
    BY RecordsStay
  <1>5. session.iterator = "none" /\ session.report = NoPlan /\ session.plan = NoPlan
    BY <1>1, <1>3, SessionTyped DEF SemanticInv, SessionFits
  <1> USE <1>1, <1>2, <1>3, <1>4, <1>5 DEF SemanticInv
  <1>6. SemanticTypes'
    BY DEF SemanticTypes
  <1>7. OperationFits'
    BY DEF OperationFits, ModelAsked, Asking
  <1>8. DraftIsFit'
    BY DEF DraftIsFit
  <1>9. SessionFits'
    BY DEF SessionFits
  <1>10. AskedFits'
    BY DEF SemanticTypes, AskedFits, ModelAsked
  <1>11. CallsFit'
    BY DEF CallsFit
  <1>12. VetoFits'
    BY DEF VetoFits
  <1>13. ReportStands'
    BY DEF ReportStands, ReportSays, LostCalls
  <1> QED BY <1>6, <1>7, <1>8, <1>9, <1>10, <1>11, <1>12, <1>13

(* CallRequest: the one request to the analyzer itself. *)
LEMMA StartsRequest ==
    ASSUME SemanticInv, CallRequest
    PROVE  SemanticInv'
  <1>1. /\ setting \in Settings /\ session \in Sessions /\ setting.request = TRUE /\ answer = "none"
        /\ op.purpose = "none" /\ op.step = "none"
        /\ UNCHANGED <<setting, session, output, spent, answer>>
    BY SettingIs DEF SemanticInv, SemanticTypes, CallRequest, Idle
  <1>2. /\ op'.purpose = "request" /\ op'.step = "capture" /\ op' \in Operations
    <2>1. ModeFor(setting.mode) \in ParsingModes
      BY <1>1, SettingIs DEF ModeFor, ParsingModes
    <2> QED BY <2>1 DEF CallRequest, Begin, Operations
  <1>4. RecordsGiven' = RecordsGiven /\ IsTold' = IsTold
    BY <1>1, RecordsStay
  <1> USE <1>1, <1>2, <1>4 DEF SemanticInv
  <1>6. SemanticTypes'
    BY DEF SemanticTypes
  <1>7. OperationFits'
    BY DEF OperationFits, ModelAsked, Asking
  <1>8. DraftIsFit'
    BY DEF DraftIsFit
  <1>9. SessionFits'
    BY DEF SessionFits
  <1>10. AskedFits'
    BY DEF SemanticTypes, AskedFits, ModelAsked, SessionFits
  <1>11. CallsFit'
    BY DEF CallsFit
  <1>12. VetoFits'
    BY DEF VetoFits
  <1>13. ReportStands'
    BY DEF ReportStands, ReportSays, LostCalls
  <1> QED BY <1>6, <1>7, <1>8, <1>9, <1>10, <1>11, <1>12, <1>13

(* The iterator is asked for the next batch. *)
LEMMA ResumeKeeps ==
    ASSUME SemanticInv, Resume
    PROVE  SemanticInv'
  <1>1. /\ setting \in Settings /\ session \in Sessions /\ setting.request = FALSE
        /\ op.purpose = "none" /\ op.step = "none" /\ session.iterator = "paused"
        /\ UNCHANGED <<setting, output, spent, answer>>
    BY SettingIs DEF SemanticInv, SemanticTypes, Resume, IsFree, Idle
  <1>2. op'.purpose = "parse" /\ op'.step = "emit" /\ op' \in Operations
    BY DEF Resume, Idle, Operations
  <1>3. /\ session'.iterator = "running" /\ session'.plan = session.plan /\ session'.started = session.started
        /\ session'.closed = session.closed /\ session'.analysis = session.analysis
        /\ session'.last = session.last /\ session'.report = session.report /\ session'.records = session.records
        /\ session' \in Sessions
    BY <1>1 DEF Resume, Sessions
  <1>4. RecordsGiven' = RecordsGiven /\ IsTold' = IsTold
    BY <1>1, RecordsStay
  <1> USE <1>1, <1>2, <1>3, <1>4 DEF SemanticInv
  <1>6. SemanticTypes'
    BY DEF SemanticTypes
  <1>7. OperationFits'
    BY DEF OperationFits, ModelAsked, Asking, SessionFits
  <1>8. DraftIsFit'
    BY DEF DraftIsFit
  <1>9. SessionFits'
    BY DEF SessionFits
  <1>10. AskedFits'
    BY DEF SemanticTypes, AskedFits, ModelAsked
  <1>11. CallsFit'
    BY DEF CallsFit
  <1>12. VetoFits'
    BY DEF VetoFits
  <1>13. ReportStands'
    BY DEF ReportStands, ReportSays, LostCalls
  <1> QED BY <1>6, <1>7, <1>8, <1>9, <1>10, <1>11, <1>12, <1>13

(* The iterator ends after its last batch. *)
LEMMA OutputEndsKeeps ==
    ASSUME SemanticInv, OutputEnds
    PROVE  SemanticInv'
  <1>1. /\ setting \in Settings /\ session \in Sessions /\ op.step = "emit"
        /\ UNCHANGED <<setting, output, spent, answer>>
    BY DEF SemanticInv, SemanticTypes, OutputEnds
  <1>2. op'.purpose = "none" /\ op'.step = "none" /\ op' \in Operations
    BY DEF OutputEnds, EndIterator, Idle, Operations
  <1>3. /\ session'.iterator = "ended" /\ session'.plan = session.plan /\ session'.started = session.started
        /\ session'.closed = session.closed /\ session'.analysis = session.analysis
        /\ session'.last = session.last /\ session'.report = session.report /\ session'.records = session.records
        /\ session' \in Sessions
    BY <1>1 DEF OutputEnds, EndIterator, Sessions
  <1>4. RecordsGiven' = RecordsGiven /\ IsTold' = IsTold
    BY <1>1, RecordsStay
  <1>5. op.purpose = "parse" /\ session.iterator = "running" /\ setting.request \in BOOLEAN
    BY <1>1, SettingIs DEF SemanticInv, OperationFits
  <1> USE <1>1, <1>2, <1>3, <1>4, <1>5 DEF SemanticInv
  <1>6. SemanticTypes'
    BY DEF SemanticTypes
  <1>7. OperationFits'
    BY DEF OperationFits, ModelAsked, Asking
  <1>8. DraftIsFit'
    BY DEF DraftIsFit
  <1>9. SessionFits'
    BY DEF SessionFits, OperationFits
  <1>10. AskedFits'
    BY DEF SemanticTypes, AskedFits, ModelAsked, OperationFits
  <1>11. CallsFit'
    BY DEF CallsFit
  <1>12. VetoFits'
    BY DEF VetoFits, OperationFits
  <1>13. ReportStands'
    BY DEF ReportStands, ReportSays, LostCalls
  <1> QED BY <1>6, <1>7, <1>8, <1>9, <1>10, <1>11, <1>12, <1>13

(* A given plan is accepted or refused: the session does not change. *)
LEMMA CheckGivenKeeps ==
    ASSUME SemanticInv, NEW accepted \in BOOLEAN, CheckGiven(accepted)
    PROVE  SemanticInv'
  <1>1. /\ setting \in Settings /\ session \in Sessions /\ op.purpose = "validate" /\ op.step = "check"
        /\ UNCHANGED <<setting, session, output, spent>> /\ answer' # "none"
    BY DEF SemanticInv, SemanticTypes, CheckGiven
  <1>2. op'.purpose = "none" /\ op'.step = "none" /\ op' \in Operations
    BY DEF CheckGiven, Idle, Operations
  <1>4. RecordsGiven' = RecordsGiven /\ IsTold' = IsTold
    BY <1>1, RecordsStay
  <1>5. setting.request = FALSE /\ session.iterator # "running"
    BY <1>1, SettingIs DEF SemanticInv, OperationFits
  <1> USE <1>1, <1>2, <1>4, <1>5 DEF SemanticInv
  <1>6. SemanticTypes'
    BY DEF SemanticTypes
  <1>7. OperationFits'
    BY DEF OperationFits, ModelAsked, Asking
  <1>8. DraftIsFit'
    BY DEF DraftIsFit
  <1>9. SessionFits'
    BY DEF SessionFits
  <1>10. AskedFits'
    BY DEF SemanticTypes, AskedFits, ModelAsked
  <1>11. CallsFit'
    BY DEF CallsFit
  <1>12. VetoFits'
    BY DEF VetoFits
  <1>13. ReportStands'
    BY DEF ReportStands, ReportSays, LostCalls
  <1> QED BY <1>6, <1>7, <1>8, <1>9, <1>10, <1>11, <1>12, <1>13

(* What fails and then ends, or is closed. *)
LEMMA EndsToo ==
    ASSUME NEW s \in Sessions, NEW e, NEW status, NEW code, NEW kinds, Fails(e, s, status, code, kinds)
    PROVE  Fails([e EXCEPT !.iterator = "ended"], [s EXCEPT !.iterator = "ended"], status, code, kinds)
  <1> DEFINE f == [e EXCEPT !.iterator = "ended"]
             t == [s EXCEPT !.iterator = "ended"]
  <1>1. e \in Sessions
    BY DEF Fails
  <1>2. /\ f \in Sessions /\ f.iterator = "ended" /\ f.closed = e.closed /\ f.started = e.started
        /\ f.records = e.records /\ f.plan = e.plan /\ f.last = e.last /\ f.analysis = e.analysis
        /\ f.report = e.report
    BY <1>1 DEF Sessions
  <1>3. /\ t \in Sessions /\ t.iterator = "ended" /\ t.closed = s.closed /\ t.started = s.started
        /\ t.records = s.records /\ t.plan = s.plan /\ t.last = s.last /\ t.analysis = s.analysis
        /\ t.report = s.report
    BY DEF Sessions
  <1>4. Known(t) = Known(s)
    BY <1>3 DEF Known
  <1>5. e = s => f = t
    OBVIOUS
  <1> HIDE DEF f, t
  <1> QED BY <1>2, <1>3, <1>4, <1>5 DEF Fails, f, t

(* _fail and the closing of the session do not disturb one another. *)
LEMMA ClosesToo ==
    ASSUME NEW s \in Sessions, NEW e, NEW status, NEW code, NEW kinds, Fails(e, s, status, code, kinds)
    PROVE  Fails([e EXCEPT !.closed = TRUE], [s EXCEPT !.closed = TRUE], status, code, kinds)
  <1> DEFINE f == [e EXCEPT !.closed = TRUE]
             t == [s EXCEPT !.closed = TRUE]
  <1>1. e \in Sessions
    BY DEF Fails
  <1>2. /\ f \in Sessions /\ f.iterator = e.iterator /\ f.closed = TRUE /\ f.started = e.started
        /\ f.records = e.records /\ f.plan = e.plan /\ f.last = e.last /\ f.analysis = e.analysis
        /\ f.report = e.report
    BY <1>1 DEF Sessions
  <1>3. /\ t \in Sessions /\ t.iterator = s.iterator /\ t.closed = TRUE /\ t.started = s.started
        /\ t.records = s.records /\ t.plan = s.plan /\ t.last = s.last /\ t.analysis = s.analysis
        /\ t.report = s.report
    BY DEF Sessions
  <1>4. Known(t) = Known(s)
    BY <1>3 DEF Known
  <1>5. e = s => f = t
    OBVIOUS
  <1> HIDE DEF f, t
  <1> QED BY <1>2, <1>3, <1>4, <1>5 DEF Fails, f, t

(* An iterator that ends without its records. *)
EndsWell(s, calls, asked, unsafe, status) ==
    /\ s \in Sessions /\ s.iterator = "ended" /\ s.started
    /\ s.analysis # NoPlan => Fits(s.analysis, setting.kinds)
    /\ s.last # NoPlan => Fits(s.last, setting.kinds)
    /\ s.report # NoPlan => s.analysis # NoPlan /\ s.report = session.report
    /\ s.records = session.records /\ s.plan = session.plan
    /\ output.given # <<>> => s.analysis # NoPlan
    /\ asked = 0 => calls = 0 /\ ~unsafe
    /\ asked = 1 => s.analysis # NoPlan \/ s.closed
    /\ Known(s) # NoPlan => Known(s).calls = calls \/ (s.closed /\ s.plan # NoPlan /\ Known(s).calls = 0)
    /\ unsafe /\ s.plan = NoPlan =>
         output.given = <<>> /\ s.analysis # NoPlan /\ s.analysis.plan = NoPlan /\ Has(s.analysis.issues, "unsafe")
    /\ status = "cancelled" => ~IsTold

(* Whatever ends an iterator early, the report it leaves is true. *)
LEMMA EndsBadly ==
    ASSUME SemanticInv, setting.request = FALSE, NEW s, NEW status \in {"failed", "cancelled"}, NEW code \in IssueCodes,
           status = "cancelled" => code = "cancelled",
           spent' \in [calls : Nat, asked : {0, 1}, unsafe : BOOLEAN],
           EndsWell(s, spent'.calls, spent'.asked, spent'.unsafe, status),
           Fails(session', s, status, code, setting.kinds), op' = Idle, UNCHANGED <<setting, output>>
    PROVE  SemanticInv'
  <1>1. op'.purpose = "none" /\ op'.step = "none" /\ op' \in Operations
    BY DEF Idle, Operations
  <1>2. RecordsGiven' = RecordsGiven /\ IsTold' = IsTold
    BY RecordsStay
  <1>3. session.records = RecordsGiven /\ (IsTold => session.report # NoPlan)
    BY DEF SemanticInv, SessionFits, ReportStands
  <1>4. IsTold => output.given # <<>>
    BY DEF IsTold
  <1>5. /\ session' \in Sessions /\ session'.iterator = "ended" /\ session'.started /\ session'.records = session.records
        /\ session'.plan = s.plan /\ session'.closed = s.closed /\ session'.last = s.last
        /\ setting' = setting /\ output' = output
    BY DEF Fails, EndsWell
  <1>6. CASE Known(s) = NoPlan
    <2>1. session' = s /\ s.analysis = NoPlan /\ s.last = NoPlan /\ s.report = NoPlan /\ output.given = <<>>
      BY <1>6 DEF Fails, Known, EndsWell
    <2>2. ~IsTold
      BY <1>4, <2>1
    <2> USE <1>1, <1>2, <1>3, <1>5, <2>1, <2>2 DEF SemanticInv
    <2>10. SemanticTypes'
      BY DEF SemanticTypes, EndsWell
    <2>11. OperationFits'
      BY DEF OperationFits, ModelAsked, Asking
    <2>12. DraftIsFit'
      BY DEF DraftIsFit
    <2>13. SessionFits'
      BY DEF SessionFits, EndsWell
    <2>14. AskedFits'
      BY DEF SemanticTypes, AskedFits, ModelAsked, EndsWell
    <2>15. CallsFit'
      BY DEF CallsFit, EndsWell
    <2>16. VetoFits'
      BY DEF VetoFits, EndsWell
    <2>17. ReportStands'
      BY DEF ReportStands, ReportSays, LostCalls
    <2> QED BY <2>10, <2>11, <2>12, <2>13, <2>14, <2>15, <2>16, <2>17
  <1>7. CASE Known(s) # NoPlan
    <2>1. /\ session'.analysis # NoPlan /\ Fits(session'.analysis, setting.kinds)
          /\ session'.analysis.calls = Known(s).calls /\ session'.analysis.plan = Known(s).plan
          /\ Has(Known(s).issues, "unsafe") =>
               Has(session'.analysis.issues, "unsafe") /\ Has(session'.report.issues, "unsafe")
          /\ session'.report # NoPlan /\ ReportFits(session'.report) /\ session'.report.status = status
          /\ session'.report.records = session.records /\ session'.report.calls = Known(s).calls
          /\ Has(session'.report.issues, code) \/ FullOfVetoes(session'.report.issues)
      BY <1>7 DEF Fails, EndsWell
    <2>2. s.analysis # NoPlan => Known(s) = s.analysis
      BY DEF Known
    <2>3. /\ Known(s).calls = spent'.calls \/ (s.closed /\ s.plan # NoPlan /\ Known(s).calls = 0)
          /\ spent'.asked = 0 => spent'.calls = 0 /\ ~spent'.unsafe
          /\ spent'.unsafe /\ s.plan = NoPlan =>
               output.given = <<>> /\ s.analysis # NoPlan /\ s.analysis.plan = NoPlan /\ Has(s.analysis.issues, "unsafe")
          /\ s.last # NoPlan => Fits(s.last, setting.kinds)
          /\ status = "cancelled" => ~IsTold
      BY <1>7 DEF EndsWell
    <2> HIDE DEF Known
    <2> USE <1>1, <1>2, <1>3, <1>5, <2>1, <2>2, <2>3 DEF SemanticInv
    <2>10. SemanticTypes'
      BY DEF SemanticTypes
    <2>11. OperationFits'
      BY DEF OperationFits, ModelAsked, Asking
    <2>12. DraftIsFit'
      BY DEF DraftIsFit
    <2>13. SessionFits'
      BY DEF SessionFits
    <2>14. AskedFits'
      BY DEF SemanticTypes, AskedFits, ModelAsked
    <2>15. CallsFit'
      BY DEF CallsFit
    <2>16. VetoFits'
      BY DEF VetoFits
    <2>17. ReportStands'
      BY DEF ReportStands, ReportSays, LostCalls
    <2> QED BY <2>10, <2>11, <2>12, <2>13, <2>14, <2>15, <2>16, <2>17
  <1> QED BY <1>6, <1>7

(* An iterator that ends leaves the rest of its session. *)
LEMMA EndedIs ==
    ASSUME NEW s \in Sessions
    PROVE  LET t == [s EXCEPT !.iterator = "ended"]
           IN  /\ t \in Sessions /\ t.iterator = "ended" /\ t.closed = s.closed /\ t.started = s.started
               /\ t.records = s.records /\ t.plan = s.plan /\ t.last = s.last /\ t.analysis = s.analysis
               /\ t.report = s.report
  BY DEF Sessions

(* An iterator that waits for its caller ends well, whatever ends it. *)
LEMMA WaitingEndsWell ==
    ASSUME SemanticInv, op.step = "none", op.purpose = "none", setting.request = FALSE,
           session.iterator \in {"made", "paused"}, NEW shut \in BOOLEAN, session.closed => shut,
           NEW s \in Sessions, s.iterator = "ended", s.closed = shut, s.started = session.started,
           s.records = session.records, s.plan = session.plan, s.last = session.last,
           s.analysis = session.analysis, s.report = session.report,
           NEW status, status = "cancelled" => session.report = NoPlan
    PROVE  EndsWell(s, spent.calls, spent.asked, spent.unsafe, status)
  <1>1. session \in Sessions
    BY DEF SemanticInv, SemanticTypes
  <1>2. /\ s.started /\ (s.analysis # NoPlan => Fits(s.analysis, setting.kinds))
        /\ s.last # NoPlan => Fits(s.last, setting.kinds)
        /\ s.report # NoPlan => s.analysis # NoPlan
        /\ output.given # <<>> => s.analysis # NoPlan
    BY <1>1, SessionTyped DEF SemanticInv, SessionFits
  <1>3. /\ spent.asked = 0 => spent.calls = 0 /\ ~spent.unsafe
        /\ spent.asked = 1 => s.analysis # NoPlan \/ s.closed
    BY DEF SemanticInv, AskedFits
  <1>4. Known(s) # NoPlan => Known(s).calls = spent.calls \/ (s.closed /\ s.plan # NoPlan /\ Known(s).calls = 0)
    BY DEF SemanticInv, CallsFit, Known
  <1>5. spent.unsafe /\ s.plan = NoPlan =>
          output.given = <<>> /\ s.analysis # NoPlan /\ s.analysis.plan = NoPlan /\ Has(s.analysis.issues, "unsafe")
    BY DEF SemanticInv, VetoFits
  <1>6. status = "cancelled" => ~IsTold
    BY DEF SemanticInv, ReportStands
  <1> QED BY <1>2, <1>3, <1>4, <1>5, <1>6 DEF EndsWell

(* The first step of the iterator, on a session that was closed since, with *)
(* a saved plan, or without.                                                *)
LEMMA StartIteratorKeeps ==
    ASSUME SemanticInv, StartIterator
    PROVE  SemanticInv'
  <1>1. /\ setting \in Settings /\ session \in Sessions /\ setting.request = FALSE /\ setting.mode \in ParsingModes
        /\ op = Idle /\ op.purpose = "none" /\ op.step = "none" /\ session.iterator = "made"
        /\ UNCHANGED <<setting, output, spent, answer>>
    BY SettingIs DEF SemanticInv, SemanticTypes, StartIterator, IsFree, Idle
  <1>2. CASE session.closed /\ ~BringsPlan
    <2> DEFINE s == [session EXCEPT !.iterator = "ended"]
    <2>1. session' = FailWith(s, "failed", "request_invalid") /\ op' = Idle
      BY <1>1, <1>2 DEF StartIterator
    <2>2. /\ s \in Sessions /\ s.iterator = "ended" /\ s.closed = session.closed /\ s.started = session.started
          /\ s.records = session.records /\ s.plan = session.plan /\ s.last = session.last
          /\ s.analysis = session.analysis /\ s.report = session.report
      BY <1>1, EndedIs
    <2> HIDE DEF s
    <2>3. session.closed \in BOOLEAN
      BY <1>1, SessionTyped
    <2>4. EndsWell(s, spent.calls, spent.asked, spent.unsafe, "failed")
      BY <1>1, <2>2, <2>3, WaitingEndsWell
    <2>5. "request_invalid" \in IssueCodes
      BY CodesAre
    <2>6. (s.analysis # NoPlan => Fits(s.analysis, setting.kinds)) /\ (s.last # NoPlan => Fits(s.last, setting.kinds))
      BY <2>4 DEF EndsWell
    <2>7. Fails(session', s, "failed", "request_invalid", setting.kinds)
      BY <2>1, <2>2, <2>5, <2>6, FailedIs
    <2>8. spent' = spent /\ spent' \in [calls : Nat, asked : {0, 1}, unsafe : BOOLEAN]
      BY <1>1 DEF SemanticInv, SemanticTypes
    <2> QED BY <1>1, <2>1, <2>4, <2>5, <2>7, <2>8, EndsBadly
  <1>3. CASE ~(session.closed /\ ~BringsPlan)
    <2>1. session' = [session EXCEPT !.iterator = "running"]
          /\ op' = IF BringsPlan THEN Begin("saved", "deterministic")
                   ELSE IF session.analysis = NoPlan THEN Begin("parse", setting.mode)
                   ELSE [Idle EXCEPT !.purpose = "parse", !.step = "plan"]
      BY <1>3 DEF StartIterator
    <2>2. /\ session'.iterator = "running" /\ session'.plan = session.plan /\ session'.started = session.started
          /\ session'.closed = session.closed /\ session'.analysis = session.analysis
          /\ session'.last = session.last /\ session'.report = session.report /\ session'.records = session.records
          /\ session' \in Sessions
      BY <1>1, <2>1 DEF Sessions
    <2>3. RecordsGiven' = RecordsGiven /\ IsTold' = IsTold
      BY <1>1, RecordsStay
    <2>4. session.plan = NoPlan => ~BringsPlan
      BY DEF BringsPlan
    <2>5. CASE BringsPlan
      <3>1. op' = [purpose |-> "saved", step |-> "capture", mode |-> "deterministic", draft |-> NoPlan]
        BY <2>1, <2>5 DEF Begin
      <3>2. op' \in Operations
        BY <3>1 DEF Operations, ParsingModes
      <3>3. op'.purpose = "saved" /\ op'.step = "capture" /\ op'.mode = "deterministic" /\ session.plan # NoPlan
        BY <2>4, <2>5, <3>1
      <3> USE <1>1, <2>2, <2>3, <3>2, <3>3 DEF SemanticInv
      <3>10. SemanticTypes'
        BY DEF SemanticTypes
      <3>11. OperationFits'
        BY DEF OperationFits, ModelAsked, Asking
      <3>12. DraftIsFit'
        BY DEF DraftIsFit
      <3>13. SessionFits'
        BY DEF SessionFits
      <3>14. AskedFits'
        BY DEF SemanticTypes, AskedFits, ModelAsked
      <3>15. CallsFit'
        BY DEF CallsFit
      <3>16. VetoFits'
        BY DEF VetoFits
      <3>17. ReportStands'
        BY DEF ReportStands, ReportSays, LostCalls
      <3> QED BY <3>10, <3>11, <3>12, <3>13, <3>14, <3>15, <3>16, <3>17
    <2>6. CASE ~BringsPlan /\ session.analysis = NoPlan
      <3>1. op' = [purpose |-> "parse", step |-> "capture", mode |-> setting.mode, draft |-> NoPlan]
        BY <2>1, <2>6 DEF Begin
      <3>2. op' \in Operations
        BY <1>1, <3>1 DEF Operations
      <3>3. op'.purpose = "parse" /\ op'.step = "capture" /\ ~session.closed
        BY <1>3, <2>6, <3>1
      <3> USE <1>1, <2>2, <2>3, <2>6, <3>2, <3>3 DEF SemanticInv
      <3>10. SemanticTypes'
        BY DEF SemanticTypes
      <3>11. OperationFits'
        BY DEF OperationFits, ModelAsked, Asking
      <3>12. DraftIsFit'
        BY DEF DraftIsFit
      <3>13. SessionFits'
        BY DEF SessionFits
      <3>14. AskedFits'
        BY DEF SemanticTypes, AskedFits, ModelAsked
      <3>15. CallsFit'
        BY DEF CallsFit
      <3>16. VetoFits'
        BY DEF VetoFits
      <3>17. ReportStands'
        BY DEF ReportStands, ReportSays, LostCalls
      <3> QED BY <3>10, <3>11, <3>12, <3>13, <3>14, <3>15, <3>16, <3>17
    <2>7. CASE ~BringsPlan /\ session.analysis # NoPlan
      <3>1. op' = [purpose |-> "parse", step |-> "plan", mode |-> "none", draft |-> NoPlan]
        BY <2>1, <2>7 DEF Idle
      <3>2. op' \in Operations
        BY <3>1 DEF Operations
      <3>3. op'.purpose = "parse" /\ op'.step = "plan" /\ ~session.closed
        BY <1>3, <2>7, <3>1
      <3> USE <1>1, <2>2, <2>3, <2>7, <3>2, <3>3 DEF SemanticInv
      <3>10. SemanticTypes'
        BY DEF SemanticTypes
      <3>11. OperationFits'
        BY DEF OperationFits, ModelAsked, Asking
      <3>12. DraftIsFit'
        BY DEF DraftIsFit
      <3>13. SessionFits'
        BY DEF SessionFits
      <3>14. AskedFits'
        BY DEF SemanticTypes, AskedFits, ModelAsked
      <3>15. CallsFit'
        BY DEF CallsFit
      <3>16. VetoFits'
        BY DEF VetoFits
      <3>17. ReportStands'
        BY DEF ReportStands, ReportSays, LostCalls
      <3> QED BY <3>10, <3>11, <3>12, <3>13, <3>14, <3>15, <3>16, <3>17
    <2> QED BY <2>5, <2>6, <2>7
  <1> QED BY <1>2, <1>3

(* An iterator that ends without a report, or a session that closes. *)
LEMMA EndsQuietly ==
    ASSUME SemanticInv, op.purpose = "none", op.step = "none", setting.request = FALSE, session' \in Sessions,
           \/ session'.iterator = session.iterator
           \/ session.iterator # "none" /\ session'.iterator = "ended",
           session'.closed = session.closed \/ session'.closed = TRUE, session'.started = session.started,
           session'.records = session.records, session'.plan = session.plan, session'.last = session.last,
           session'.analysis = session.analysis, session'.report = session.report,
           UNCHANGED <<setting, op, output, spent, answer>>
    PROVE  SemanticInv'
  <1>1. RecordsGiven' = RecordsGiven /\ IsTold' = IsTold
    BY RecordsStay
  <1>2. session.closed => session'.closed
    OBVIOUS
  <1>3. session.iterator # "running"
    BY DEF SemanticInv, OperationFits
  <1> USE <1>1, <1>2, <1>3 DEF SemanticInv
  <1>10. SemanticTypes'
    BY DEF SemanticTypes
  <1>11. OperationFits'
    BY DEF OperationFits, ModelAsked, Asking
  <1>12. DraftIsFit'
    BY DEF DraftIsFit
  <1>13. SessionFits'
    BY DEF SessionFits
  <1>14. AskedFits'
    BY DEF SemanticTypes, AskedFits, ModelAsked
  <1>15. CallsFit'
    BY DEF CallsFit
  <1>16. VetoFits'
    BY DEF VetoFits
  <1>17. ReportStands'
    BY DEF ReportStands, ReportSays, LostCalls
  <1> QED BY <1>10, <1>11, <1>12, <1>13, <1>14, <1>15, <1>16, <1>17

(* aclose of the iterator, while the session closes or stays as it was. *)
LEMMA ClosedIs ==
    ASSUME NEW s \in Sessions
    PROVE  LET t == [s EXCEPT !.closed = TRUE]
           IN  /\ t \in Sessions /\ t.iterator = s.iterator /\ t.closed = TRUE /\ t.started = s.started
               /\ t.records = s.records /\ t.plan = s.plan /\ t.last = s.last /\ t.analysis = s.analysis
               /\ t.report = s.report
  BY DEF Sessions

(* aclose of the iterator and aclose of the session. *)
LEMMA ClosedIteratorKeeps ==
    ASSUME SemanticInv, IsFree, session' = ClosedIterator \/ session' = [ClosedIterator EXCEPT !.closed = TRUE],
           UNCHANGED <<setting, op, output, spent, answer>>
    PROVE  SemanticInv'
  <1> DEFINE s == [session EXCEPT !.iterator = "ended"]
             t == [s EXCEPT !.closed = TRUE]
  <1>1. /\ setting \in Settings /\ session \in Sessions /\ setting.request = FALSE /\ session.closed \in BOOLEAN
        /\ op = Idle /\ op.purpose = "none" /\ op.step = "none"
    BY SettingIs, SessionTyped DEF SemanticInv, SemanticTypes, IsFree, Idle
  <1>2. /\ s \in Sessions /\ s.iterator = "ended" /\ s.closed = session.closed /\ s.started = session.started
        /\ s.records = session.records /\ s.plan = session.plan /\ s.last = session.last
        /\ s.analysis = session.analysis /\ s.report = session.report
    BY <1>1, EndedIs
  <1>3. CASE session.iterator = "paused" /\ session.report = NoPlan
    <2> DEFINE e == FailWith(s, "cancelled", "cancelled")
    <2>1. ClosedIterator = e
      BY <1>3 DEF ClosedIterator, NoReport
    <2> HIDE DEF s
    <2>2. /\ t \in Sessions /\ t.iterator = "ended" /\ t.closed = TRUE /\ t.started = session.started
          /\ t.records = session.records /\ t.plan = session.plan /\ t.last = session.last
          /\ t.analysis = session.analysis /\ t.report = session.report
      BY <1>2, ClosedIs
    <2>3. "cancelled" \in IssueCodes
      BY CodesAre
    <2>4. (s.analysis # NoPlan => Fits(s.analysis, setting.kinds)) /\ (s.last # NoPlan => Fits(s.last, setting.kinds))
      BY <1>2 DEF SemanticInv, SessionFits
    <2>5. Fails(e, s, "cancelled", "cancelled", setting.kinds)
      BY <1>2, <2>3, <2>4, FailedIs
    <2>6. Fails([e EXCEPT !.closed = TRUE], t, "cancelled", "cancelled", setting.kinds)
      <3> HIDE DEF e
      <3> QED BY <1>2, <2>5, ClosesToo
    <2> HIDE DEF e, t
    <2>7. spent' = spent /\ spent' \in [calls : Nat, asked : {0, 1}, unsafe : BOOLEAN]
      BY DEF SemanticInv, SemanticTypes
    <2>8. EndsWell(s, spent.calls, spent.asked, spent.unsafe, "cancelled")
      BY <1>1, <1>2, <1>3, WaitingEndsWell
    <2>9. EndsWell(t, spent.calls, spent.asked, spent.unsafe, "cancelled")
      BY <1>1, <1>3, <2>2, WaitingEndsWell
    <2>10. CASE session' = e
      BY <1>1, <2>3, <2>5, <2>7, <2>8, <2>10, EndsBadly
    <2>11. CASE session' = [e EXCEPT !.closed = TRUE]
      BY <1>1, <2>3, <2>6, <2>7, <2>9, <2>11, EndsBadly
    <2> QED BY <2>1, <2>10, <2>11
  <1>4. CASE ~(session.iterator = "paused" /\ session.report = NoPlan)
    <2> DEFINE c == IF session.iterator = "none" THEN session ELSE s
    <2>1. ClosedIterator = c
      BY <1>4 DEF ClosedIterator, NoReport
    <2> HIDE DEF s
    <2>2. /\ c \in Sessions
          /\ \/ c.iterator = session.iterator
             \/ session.iterator # "none" /\ c.iterator = "ended"
          /\ c.closed = session.closed /\ c.started = session.started
          /\ c.records = session.records /\ c.plan = session.plan /\ c.last = session.last
          /\ c.analysis = session.analysis /\ c.report = session.report
      BY <1>1, <1>2
    <2> HIDE DEF c
    <2>3. CASE session' = c
      BY <1>1, <2>2, <2>3, EndsQuietly
    <2>4. CASE session' = [c EXCEPT !.closed = TRUE]
      <3>1. /\ session' \in Sessions /\ session'.iterator = c.iterator /\ session'.closed = TRUE
            /\ session'.started = c.started /\ session'.records = c.records /\ session'.plan = c.plan
            /\ session'.last = c.last /\ session'.analysis = c.analysis /\ session'.report = c.report
        BY <2>2, <2>4, ClosedIs
      <3> QED BY <1>1, <2>2, <3>1, EndsQuietly
    <2> QED BY <2>1, <2>3, <2>4
  <1> QED BY <1>3, <1>4

(* What an operation leaves that fails or is cancelled. *)
Left(calls) == WithCalls(Interrupted, calls)

(* A session that an operation leaves: closed, if the operation was an      *)
(* analysis of its own.                                                     *)
LEMMA LeftIs ==
    ASSUME SemanticInv, NEW calls \in CallsMade
    PROVE  LET s == Left(calls)
           IN  /\ s \in Sessions /\ s.iterator = session.iterator /\ s.started = session.started
               /\ s.records = session.records /\ s.plan = session.plan /\ s.analysis = session.analysis
               /\ s.report = session.report /\ (session.closed => s.closed)
               /\ s.closed <=> session.closed \/ (op.purpose \in {"analyze", "parse"} /\ op.step \in Asking)
               /\ op.step # "ask" => s.last = session.last
               /\ op.step = "ask" => s.last # NoPlan /\ s.last.calls = calls
               /\ s.last # NoPlan => Fits(s.last, setting.kinds)
               /\ calls \in Nat
  <1> DEFINE b == session.closed \/ (op.purpose \in {"analyze", "parse"} /\ op.step \in Asking)
             t == [session EXCEPT !.closed = b]
  <1>1. session \in Sessions /\ calls \in Nat
    BY DEF SemanticInv, SemanticTypes, CallsMade
  <1>2. Interrupted = t
    BY DEF Interrupted, Asking
  <1>3. b \in BOOLEAN
    BY <1>1, SessionTyped
  <1> HIDE DEF b
  <1>4. /\ t \in Sessions /\ t.iterator = session.iterator /\ t.closed = b /\ t.started = session.started
        /\ t.records = session.records /\ t.plan = session.plan /\ t.last = session.last
        /\ t.analysis = session.analysis /\ t.report = session.report
    BY <1>1, <1>3 DEF Sessions
  <1> HIDE DEF t
  <1>5. session.last # NoPlan => session.last \in Analyses /\ Fits(session.last, setting.kinds)
    BY <1>1, SessionTyped DEF SemanticInv, SessionFits
  <1>6. CASE op.step # "ask"
    BY <1>1, <1>2, <1>4, <1>5, <1>6 DEF Left, WithCalls, b
  <1>7. CASE op.step = "ask"
    <2> DEFINE a == [session.last EXCEPT !.calls = calls]
               s == [t EXCEPT !.last = a]
    <2>1. Left(calls) = s
      BY <1>2, <1>4, <1>7 DEF Left, WithCalls
    <2>2. session.last \in Analyses /\ Fits(session.last, setting.kinds)
      BY <1>5, <1>7 DEF SemanticInv, OperationFits
    <2>3. /\ a \in Analyses /\ a.calls = calls /\ a.plan = session.last.plan /\ a.issues = session.last.issues
          /\ a.blocks = session.last.blocks /\ a.unresolved = session.last.unresolved
          /\ a.score = session.last.score
      BY <1>1, <2>2 DEF Analyses
    <2> HIDE DEF a
    <2>4. Fits(a, setting.kinds) /\ a # NoPlan
      BY <2>2, <2>3, NoneIsNone DEF Fits
    <2>5. /\ s \in Sessions /\ s.iterator = t.iterator /\ s.closed = t.closed /\ s.started = t.started
          /\ s.records = t.records /\ s.plan = t.plan /\ s.last = a /\ s.analysis = t.analysis
          /\ s.report = t.report
      BY <1>4, <2>3 DEF Sessions
    <2> HIDE DEF s
    <2> QED BY <1>1, <1>4, <1>7, <2>1, <2>3, <2>4, <2>5 DEF b
  <1> QED BY <1>6, <1>7

SpentAlready(calls) ==
    IF op.step = "ask" THEN [calls |-> spent.calls + calls, asked |-> spent.asked + 1, unsafe |-> FALSE] ELSE spent

(* What a failing request has spent: its calls, in the one analysis. *)
LEMMA SpentIs ==
    ASSUME SemanticInv, NEW calls \in CallsMade, op.step # "none",
           spent' = SpentAlready(calls)
    PROVE  /\ spent' \in [calls : Nat, asked : {0, 1}, unsafe : BOOLEAN]
           /\ op.step # "ask" => spent' = spent
           /\ op.step = "ask" => spent'.calls = calls /\ spent'.asked = 1 /\ ~spent'.unsafe
  <1>1. spent \in [calls : Nat, asked : {0, 1}, unsafe : BOOLEAN]
    BY DEF SemanticInv, SemanticTypes
  <1>2. CASE op.step # "ask"
    BY <1>1, <1>2 DEF SpentAlready
  <1>3. CASE op.step = "ask"
    <2>1. calls \in Nat
      BY DEF CallsMade
    <2>2. spent.asked = 0 /\ spent.calls = 0
      BY <1>3 DEF SemanticInv, AskedFits
    <2>3. spent' = [calls |-> calls, asked |-> 1, unsafe |-> FALSE]
      BY <1>3, <2>1, <2>2 DEF SpentAlready
    <2> QED BY <1>3, <2>1, <2>3
  <1> QED BY <1>2, <1>3

(* An operation of the iterator that fails or is cancelled ends the         *)
(* iterator well.                                                           *)
LEMMA AbandonedEndsWell ==
    ASSUME SemanticInv, NEW calls \in CallsMade, Waits, op.purpose \in {"parse", "saved"},
           spent' = SpentAlready(calls),
           NEW status, status = "cancelled" => session.report = NoPlan
    PROVE  EndsWell([Left(calls) EXCEPT !.iterator = "ended"], spent'.calls, spent'.asked, spent'.unsafe, status)
  <1> DEFINE l == Left(calls)
             s == [l EXCEPT !.iterator = "ended"]
  <1>1. /\ l \in Sessions /\ l.iterator = session.iterator /\ l.started = session.started
        /\ l.records = session.records /\ l.plan = session.plan /\ l.analysis = session.analysis
        /\ l.report = session.report /\ (session.closed => l.closed)
        /\ l.closed <=> session.closed \/ (op.purpose \in {"analyze", "parse"} /\ op.step \in Asking)
        /\ op.step # "ask" => l.last = session.last
        /\ op.step = "ask" => l.last # NoPlan /\ l.last.calls = calls
        /\ l.last # NoPlan => Fits(l.last, setting.kinds)
        /\ calls \in Nat
    BY LeftIs
  <1> HIDE DEF l
  <1>2. /\ s \in Sessions /\ s.iterator = "ended" /\ s.closed = l.closed /\ s.started = l.started
        /\ s.records = l.records /\ s.plan = l.plan /\ s.last = l.last
        /\ s.analysis = l.analysis /\ s.report = l.report
    BY <1>1, EndedIs
  <1> HIDE DEF s
  <1>3. op.step # "none" /\ setting.request \in BOOLEAN /\ session \in Sessions
    BY SettingIs DEF Waits, SemanticInv, SemanticTypes
  <1>4. /\ op.step # "ask" => spent' = spent
        /\ op.step = "ask" => spent'.calls = calls /\ spent'.asked = 1 /\ ~spent'.unsafe
    BY <1>3, SpentIs
  <1>5. /\ setting.request = FALSE /\ session.iterator = "running"
        /\ op.step = "ask" => op.purpose = "parse" /\ session.analysis = NoPlan
        /\ op.purpose = "parse" /\ op.step \in Asking => s.closed
    BY <1>1, <1>2, <1>3 DEF SemanticInv, OperationFits, ModelAsked, Asking
  <1>6. /\ s.started /\ (s.analysis # NoPlan => Fits(s.analysis, setting.kinds))
        /\ s.report # NoPlan => s.analysis # NoPlan
        /\ output.given # <<>> => s.analysis # NoPlan
    BY <1>1, <1>2, <1>3, <1>5, SessionTyped DEF SemanticInv, SessionFits
  <1>7. /\ spent'.asked = 0 => spent'.calls = 0 /\ ~spent'.unsafe
        /\ spent'.asked = 1 => s.analysis # NoPlan \/ s.closed
    <2>1. op.step = "finalize" /\ op.purpose \in ModelAsked => s.closed
      BY <1>5 DEF Asking, ModelAsked
    <2>2. op.step = "ask" => s.closed
      BY <1>5 DEF Asking
    <2>3. session.closed => s.closed
      BY <1>1, <1>2
    <2>4. /\ spent.asked = 0 => spent.calls = 0 /\ ~spent.unsafe
          /\ spent.asked = 1 =>
               session.analysis # NoPlan \/ session.closed \/ (op.step = "finalize" /\ op.purpose \in ModelAsked)
      BY <1>5 DEF SemanticInv, AskedFits
    <2>5. CASE op.step = "ask"
      BY <1>4, <2>2, <2>5
    <2>6. CASE op.step # "ask"
      BY <1>1, <1>2, <1>4, <2>1, <2>3, <2>4, <2>6
    <2> QED BY <2>5, <2>6
  <1>8. Known(s) # NoPlan => Known(s).calls = spent'.calls \/ (s.closed /\ s.plan # NoPlan /\ Known(s).calls = 0)
    BY <1>1, <1>2, <1>4, <1>5 DEF SemanticInv, CallsFit, Known
  <1>9. spent'.unsafe /\ s.plan = NoPlan =>
          output.given = <<>> /\ s.analysis # NoPlan /\ s.analysis.plan = NoPlan /\ Has(s.analysis.issues, "unsafe")
    <2>1. op.step = "finalize" => ~Has(op.draft.issues, "unsafe")
      BY DEF Waits, Offered
    <2> QED BY <1>1, <1>2, <1>4, <1>5, <2>1 DEF SemanticInv, VetoFits
  <1>10. status = "cancelled" => ~IsTold
    BY DEF SemanticInv, ReportStands
  <1> QED BY <1>1, <1>2, <1>6, <1>7, <1>8, <1>9, <1>10 DEF EndsWell, s, l

(* An operation that no iterator waits for. *)
LEMMA LeavesKeeps ==
    ASSUME SemanticInv, NEW calls \in CallsMade, Waits, op.purpose \notin {"parse", "saved"},
           session' = Left(calls), spent' = SpentAlready(calls), op' = Idle, answer' # "none", UNCHANGED <<setting, output>>
    PROVE  SemanticInv'
  <1>1. /\ session' \in Sessions /\ session'.iterator = session.iterator /\ session'.started = session.started
        /\ session'.records = session.records /\ session'.plan = session.plan /\ session'.analysis = session.analysis
        /\ session'.report = session.report /\ (session.closed => session'.closed)
        /\ session'.closed <=> session.closed \/ (op.purpose \in {"analyze", "parse"} /\ op.step \in Asking)
        /\ op.step # "ask" => session'.last = session.last
        /\ op.step = "ask" => session'.last # NoPlan /\ session'.last.calls = calls
        /\ session'.last # NoPlan => Fits(session'.last, setting.kinds)
    BY LeftIs
  <1>2. op'.purpose = "none" /\ op'.step = "none" /\ op' \in Operations
    BY DEF Idle, Operations
  <1>3. op.step # "none" /\ setting.request \in BOOLEAN /\ session \in Sessions
    BY SettingIs DEF Waits, SemanticInv, SemanticTypes
  <1>4. /\ spent' \in [calls : Nat, asked : {0, 1}, unsafe : BOOLEAN]
        /\ op.step # "ask" => spent' = spent
        /\ op.step = "ask" => spent'.calls = calls /\ spent'.asked = 1 /\ ~spent'.unsafe
    BY <1>3, SpentIs
  <1>5. RecordsGiven' = RecordsGiven /\ IsTold' = IsTold
    BY RecordsStay
  <1>6. /\ session.iterator # "running" /\ op.step \notin {"plan", "emit"}
        /\ op.purpose = "request" <=> setting.request
        /\ op.purpose \in {"analyze", "request", "validate"}
        /\ op.purpose = "request" \/ session'.closed \/ op.purpose = "validate"
        /\ op.step = "ask" => op.purpose # "validate"
    <2>1. op.purpose \in {"none", "analyze", "parse", "request", "validate", "saved"}
      BY OperationTyped DEF SemanticInv, SemanticTypes
    <2> QED BY <1>1, <1>3, <2>1 DEF SemanticInv, OperationFits, ModelAsked, Asking
  <1>7. op.step = "finalize" => ~Has(op.draft.issues, "unsafe")
    BY DEF Waits, Offered
  <1>8. op.step = "ask" => session.analysis = NoPlan
    BY <1>3, <1>6 DEF SemanticInv, OperationFits, SessionFits, ModelAsked, Asking
  <1>9. session.report = NoPlan => ~IsTold
    BY DEF SemanticInv, ReportStands
  <1>0. op.step = "ask" => session.report = NoPlan
    BY <1>8 DEF SemanticInv, SessionFits
  <1> USE <1>1, <1>2, <1>3, <1>4, <1>5, <1>6 DEF SemanticInv
  <1>10. SemanticTypes'
    BY DEF SemanticTypes
  <1>11. OperationFits'
    BY DEF OperationFits, ModelAsked, Asking
  <1>12. DraftIsFit'
    BY DEF DraftIsFit
  <1>13. SessionFits'
    BY <1>9 DEF SessionFits
  <1>14. AskedFits'
    BY <1>8 DEF SemanticTypes, AskedFits, ModelAsked
  <1>15. CallsFit'
    BY <1>8 DEF CallsFit
  <1>16. VetoFits'
    BY <1>7, <1>8 DEF VetoFits, SessionFits
  <1>17. ReportStands'
    BY <1>0, <1>9 DEF ReportStands, ReportSays, LostCalls
  <1> QED BY <1>10, <1>11, <1>12, <1>13, <1>14, <1>15, <1>16, <1>17

(* An iterator whose end was told already. *)
LEMMA ToldEndKeeps ==
    ASSUME SemanticInv, NEW calls \in CallsMade, Waits, op.purpose \in {"parse", "saved"}, session.report # NoPlan,
           session' = [Left(calls) EXCEPT !.iterator = "ended"], spent' = SpentAlready(calls), op' = Idle,
           UNCHANGED <<setting, output>>
    PROVE  SemanticInv'
  <1> DEFINE l == Left(calls)
  <1>1. /\ l \in Sessions /\ l.iterator = session.iterator /\ l.started = session.started
        /\ l.records = session.records /\ l.plan = session.plan /\ l.analysis = session.analysis
        /\ l.report = session.report
        /\ l.closed <=> session.closed \/ (op.purpose \in {"analyze", "parse"} /\ op.step \in Asking)
        /\ op.step # "ask" => l.last = session.last
    BY LeftIs
  <1> HIDE DEF l
  <1>2. /\ session' \in Sessions /\ session'.iterator = "ended" /\ session'.closed = l.closed
        /\ session'.started = l.started /\ session'.records = l.records /\ session'.plan = l.plan
        /\ session'.last = l.last /\ session'.analysis = l.analysis /\ session'.report = l.report
    BY <1>1, EndedIs DEF l
  <1>3. op.step # "none" /\ setting.request \in BOOLEAN /\ session \in Sessions
    BY SettingIs DEF Waits, SemanticInv, SemanticTypes
  <1>4. op.step = "emit" /\ op.purpose = "parse" /\ setting.request = FALSE
    BY <1>3 DEF SemanticInv, SessionFits, OperationFits
  <1>5. spent' = spent
    BY <1>4 DEF SpentAlready
  <1>6. op'.purpose = "none" /\ op'.step = "none" /\ op' \in Operations
    BY DEF Idle, Operations
  <1>7. RecordsGiven' = RecordsGiven /\ IsTold' = IsTold
    BY RecordsStay
  <1>8. /\ session'.closed <=> session.closed
        /\ session'.started = session.started /\ session'.records = session.records /\ session'.plan = session.plan
        /\ session'.last = session.last /\ session'.analysis = session.analysis /\ session'.report = session.report
    BY <1>1, <1>2, <1>4 DEF Asking
  <1> USE <1>2, <1>3, <1>4, <1>5, <1>6, <1>7, <1>8 DEF SemanticInv
  <1>10. SemanticTypes'
    BY DEF SemanticTypes
  <1>11. OperationFits'
    BY DEF OperationFits, ModelAsked, Asking
  <1>12. DraftIsFit'
    BY DEF DraftIsFit
  <1>13. SessionFits'
    BY DEF SessionFits, OperationFits
  <1>14. AskedFits'
    BY DEF SemanticTypes, AskedFits, ModelAsked
  <1>15. CallsFit'
    BY DEF CallsFit
  <1>16. VetoFits'
    BY DEF VetoFits
  <1>17. ReportStands'
    BY DEF ReportStands, ReportSays, LostCalls
  <1> QED BY <1>10, <1>11, <1>12, <1>13, <1>14, <1>15, <1>16, <1>17

(* An operation that fails, and one that is cancelled. *)
LEMMA FailingKeeps ==
    ASSUME SemanticInv, NEW calls \in CallsMade, Waits, op.purpose \in {"parse", "saved"},
           NEW status \in {"failed", "cancelled"}, NEW code \in IssueCodes,
           status = "cancelled" => code = "cancelled" /\ session.report = NoPlan,
           session' = [FailWith(Left(calls), status, code) EXCEPT !.iterator = "ended"],
           spent' = SpentAlready(calls), op' = Idle, UNCHANGED <<setting, output>>
    PROVE  SemanticInv'
  <1> DEFINE l == Left(calls)
             e == FailWith(l, status, code)
             s == [l EXCEPT !.iterator = "ended"]
  <1>1. EndsWell(s, spent'.calls, spent'.asked, spent'.unsafe, status)
    BY AbandonedEndsWell
  <1>2. /\ l \in Sessions /\ l.analysis = session.analysis
        /\ l.last # NoPlan => Fits(l.last, setting.kinds)
    BY LeftIs
  <1>3. l.analysis # NoPlan => Fits(l.analysis, setting.kinds)
    BY <1>2 DEF SemanticInv, SessionFits
  <1> HIDE DEF l
  <1>4. Fails(e, l, status, code, setting.kinds)
    BY <1>2, <1>3, FailedIs
  <1> HIDE DEF e
  <1>5. Fails([e EXCEPT !.iterator = "ended"], s, status, code, setting.kinds)
    BY <1>2, <1>4, EndsToo
  <1>6. session' = [e EXCEPT !.iterator = "ended"]
    BY DEF e, l
  <1> HIDE DEF s
  <1>7. op.step # "none" /\ setting.request \in BOOLEAN /\ session \in Sessions
    BY SettingIs DEF Waits, SemanticInv, SemanticTypes
  <1>8. setting.request = FALSE
    BY <1>7 DEF SemanticInv, OperationFits
  <1>9. spent' \in [calls : Nat, asked : {0, 1}, unsafe : BOOLEAN]
    BY <1>7, SpentIs
  <1>10. Fails(session', s, status, code, setting.kinds)
    BY <1>5, <1>6
  <1> QED BY <1>1, <1>8, <1>9, <1>10, EndsBadly

(* The source or the execution fails, or a deadline passes, wherever the    *)
(* operation waits.                                                         *)
LEMMA OperationFailsKeeps ==
    ASSUME SemanticInv, NEW code \in {"source", "timeout"}, NEW calls \in CallsMade, OperationFails(code, calls)
    PROVE  SemanticInv'
  <1>1. Waits /\ spent' = SpentAlready(calls) /\ op' = Idle /\ answer' = code /\ UNCHANGED <<setting, output>>
    BY DEF OperationFails, MayFail, SpentAlready, SpentOn, Abandon
  <1>2. CASE op.purpose \in {"parse", "saved"}
    <2>1. session' = [FailWith(Left(calls), "failed", code) EXCEPT !.iterator = "ended"]
      BY <1>2 DEF OperationFails, Abandon, Left
    <2>2. code \in IssueCodes
      BY CodesAre
    <2> QED BY <1>1, <1>2, <2>1, <2>2, FailingKeeps
  <1>3. CASE op.purpose \notin {"parse", "saved"}
    <2>1. session' = Left(calls) /\ answer' # "none"
      BY <1>1, <1>3 DEF OperationFails, Abandon, Left
    <2> QED BY <1>1, <1>3, <2>1, LeavesKeeps
  <1> QED BY <1>2, <1>3

(* The caller cancels, wherever the operation waits. *)
LEMMA CancelOperationKeeps ==
    ASSUME SemanticInv, NEW calls \in CallsMade, CancelOperation(calls)
    PROVE  SemanticInv'
  <1>1. Waits /\ spent' = SpentAlready(calls) /\ op' = Idle /\ answer' = "cancelled" /\ UNCHANGED <<setting, output>>
    BY DEF CancelOperation, SpentAlready, SpentOn, Abandon
  <1>2. CASE op.purpose \in {"parse", "saved"} /\ session.report = NoPlan
    <2>1. session' = [FailWith(Left(calls), "cancelled", "cancelled") EXCEPT !.iterator = "ended"]
      BY <1>2 DEF CancelOperation, Abandon, Left, NoReport
    <2>2. "cancelled" \in IssueCodes
      BY CodesAre
    <2> QED BY <1>1, <1>2, <2>1, <2>2, FailingKeeps
  <1>3. CASE op.purpose \in {"parse", "saved"} /\ session.report # NoPlan
    <2>1. session' = [Left(calls) EXCEPT !.iterator = "ended"]
      BY <1>3 DEF CancelOperation, Abandon, Left, NoReport
    <2> QED BY <1>1, <1>3, <2>1, ToldEndKeeps
  <1>4. CASE op.purpose \notin {"parse", "saved"}
    <2>1. session' = Left(calls) /\ answer' # "none"
      BY <1>1, <1>4 DEF CancelOperation, Abandon, Left
    <2> QED BY <1>1, <1>4, <2>1, LeavesKeeps
  <1> QED BY <1>2, <1>3, <1>4

(* Every outcome of the analyzer is an answer. *)
LEMMA AnsweredIs == ASSUME NEW a PROVE AnswerOf(a) # "none"
  BY DEF AnswerOf

(* An analysis that goes to whom it is for. *)
LEMMA AnalysisGoes ==
    ASSUME SemanticInv, op.step \in {"capture", "finalize"}, NEW s \in Sessions,
           s.iterator = session.iterator, s.started = session.started, s.closed = session.closed,
           s.records = session.records, s.plan = session.plan, s.analysis = session.analysis, s.report = session.report,
           s.last # NoPlan => Fits(s.last, setting.kinds),
           s.last # NoPlan /\ s.analysis = NoPlan =>
             s.last.calls = spent.calls \/ (s.closed /\ s.plan # NoPlan /\ s.last.calls = 0),
           NEW a \in Analyses, Fits(a, setting.kinds),
           op.purpose \in ModelAsked => a.calls = spent.calls,
           spent.unsafe /\ session.plan = NoPlan /\ op.purpose \in {"analyze", "parse"} =>
             a.plan = NoPlan /\ Has(a.issues, "unsafe"),
           op.purpose = "saved" => Stands(a),
           AnalyseTo(s, a), UNCHANGED <<setting, output, spent>>
    PROVE  SemanticInv'
  <1>1. /\ op \in Operations /\ session \in Sessions /\ setting.request \in BOOLEAN /\ a # NoPlan
        /\ op.purpose \in {"none", "analyze", "parse", "request", "validate", "saved"}
    BY SettingIs, OperationTyped, NoneIsNone DEF SemanticInv, SemanticTypes
  <1>2. RecordsGiven' = RecordsGiven /\ IsTold' = IsTold
    BY RecordsStay
  <1>3. op.purpose # "none" /\ (op.purpose = "request" <=> setting.request)
    BY <1>1 DEF SemanticInv, OperationFits
  <1>4. CASE op.purpose = "analyze"
    <2>1. session' = [s EXCEPT !.analysis = a] /\ op' = Idle /\ answer' = "analysed"
      BY <1>4 DEF AnalyseTo
    <2>2. op'.purpose = "none" /\ op'.step = "none" /\ op' \in Operations
      BY <2>1 DEF Idle, Operations
    <2>3. /\ session' \in Sessions /\ session'.iterator = s.iterator /\ session'.started = s.started
          /\ session'.records = s.records /\ session'.plan = s.plan /\ session'.analysis = a
          /\ session'.report = s.report /\ session'.closed = s.closed /\ session'.last = s.last
      BY <2>1 DEF Sessions
    <2>4. /\ setting.request = FALSE /\ session.analysis = NoPlan /\ session.iterator # "running" /\ op.purpose \in ModelAsked
          /\ ~session.closed
      BY <1>1, <1>3, <1>4 DEF SemanticInv, OperationFits, Asking, ModelAsked
    <2>5. session.report = NoPlan /\ output.given = <<>>
      BY <2>4 DEF SemanticInv, SessionFits
    <2>6. session.iterator # "paused"
      BY <2>4 DEF SemanticInv, SessionFits
    <2> USE <1>1, <1>2, <1>4, <2>2, <2>3, <2>4, <2>5 DEF SemanticInv
    <2>10. SemanticTypes'
      BY DEF SemanticTypes
    <2>11. OperationFits'
      BY DEF OperationFits, ModelAsked, Asking
    <2>12. DraftIsFit'
      BY DEF DraftIsFit
    <2>13. SessionFits'
      BY <2>6 DEF SessionFits
    <2>14. AskedFits'
      BY DEF SemanticTypes, AskedFits, ModelAsked
    <2>15. CallsFit'
      BY DEF CallsFit
    <2>16. VetoFits'
      BY DEF VetoFits
    <2>17. ReportStands'
      BY DEF ReportStands, ReportSays, LostCalls
    <2> QED BY <2>10, <2>11, <2>12, <2>13, <2>14, <2>15, <2>16, <2>17
  <1>5. CASE op.purpose = "parse"
    <2>1. session' = [s EXCEPT !.analysis = a] /\ op' = [op EXCEPT !.step = "plan", !.draft = NoPlan] /\ answer' = answer
      BY <1>5 DEF AnalyseTo
    <2>2. op'.purpose = "parse" /\ op'.step = "plan" /\ op' \in Operations
      BY <1>1, <1>5, <2>1 DEF Operations
    <2>3. /\ session' \in Sessions /\ session'.iterator = s.iterator /\ session'.started = s.started
          /\ session'.records = s.records /\ session'.plan = s.plan /\ session'.analysis = a
          /\ session'.report = s.report /\ session'.closed = s.closed /\ session'.last = s.last
      BY <2>1 DEF Sessions
    <2>4. /\ setting.request = FALSE /\ session.analysis = NoPlan /\ session.iterator = "running" /\ op.purpose \in ModelAsked
          /\ ~session.closed
      BY <1>1, <1>3, <1>5 DEF SemanticInv, OperationFits, Asking, ModelAsked
    <2>5. session.report = NoPlan /\ output.given = <<>>
      BY <2>4 DEF SemanticInv, SessionFits
    <2> USE <1>1, <1>2, <1>5, <2>2, <2>3, <2>4, <2>5 DEF SemanticInv
    <2>10. SemanticTypes'
      BY DEF SemanticTypes
    <2>11. OperationFits'
      BY DEF OperationFits, ModelAsked, Asking
    <2>12. DraftIsFit'
      BY DEF DraftIsFit
    <2>13. SessionFits'
      BY DEF SessionFits
    <2>14. AskedFits'
      BY DEF SemanticTypes, AskedFits, ModelAsked
    <2>15. CallsFit'
      BY DEF CallsFit
    <2>16. VetoFits'
      BY DEF VetoFits
    <2>17. ReportStands'
      BY DEF ReportStands, ReportSays, LostCalls
    <2> QED BY <2>10, <2>11, <2>12, <2>13, <2>14, <2>15, <2>16, <2>17
  <1>6. CASE op.purpose = "request"
    <2>1. session' = s /\ op' = Idle /\ answer' = AnswerOf(a)
      BY <1>6 DEF AnalyseTo
    <2>2. op'.purpose = "none" /\ op'.step = "none" /\ op' \in Operations /\ answer' # "none"
      BY <2>1, AnsweredIs DEF Idle, Operations
    <2>3. setting.request = TRUE /\ session.iterator = "none" /\ session.analysis = NoPlan /\ ~session.closed
          /\ op.purpose \in ModelAsked
      BY <1>1, <1>3, <1>6 DEF SemanticInv, SessionFits, ModelAsked
    <2>4. session.report = NoPlan /\ output.given = <<>>
      BY <2>3 DEF SemanticInv, SessionFits
    <2> USE <1>1, <1>2, <1>6, <2>1, <2>2, <2>3, <2>4 DEF SemanticInv
    <2>10. SemanticTypes'
      BY DEF SemanticTypes
    <2>11. OperationFits'
      BY DEF OperationFits, ModelAsked, Asking
    <2>12. DraftIsFit'
      BY DEF DraftIsFit
    <2>13. SessionFits'
      BY DEF SessionFits
    <2>14. AskedFits'
      BY DEF SemanticTypes, AskedFits, ModelAsked
    <2>15. CallsFit'
      BY DEF CallsFit
    <2>16. VetoFits'
      BY DEF VetoFits
    <2>17. ReportStands'
      BY DEF ReportStands, ReportSays, LostCalls
    <2> QED BY <2>10, <2>11, <2>12, <2>13, <2>14, <2>15, <2>16, <2>17
  <1>7. CASE op.purpose \in {"validate", "saved"}
    <2>1. session' = s /\ op' = [op EXCEPT !.step = "check", !.draft = a] /\ answer' = answer
      BY <1>7 DEF AnalyseTo
    <2>2. op'.purpose = op.purpose /\ op'.mode = op.mode /\ op'.step = "check" /\ op'.draft = a /\ op' \in Operations
      BY <1>1, <2>1 DEF Operations
    <2>3. setting.request = FALSE /\ op.purpose \notin ModelAsked
      BY <1>1, <1>3, <1>7 DEF ModelAsked
    <2> USE <1>1, <1>2, <1>7, <2>1, <2>2, <2>3 DEF SemanticInv
    <2>10. SemanticTypes'
      BY DEF SemanticTypes
    <2>11. OperationFits'
      BY DEF OperationFits, ModelAsked, Asking
    <2>12. DraftIsFit'
      BY DEF DraftIsFit
    <2>13. SessionFits'
      BY DEF SessionFits
    <2>14. AskedFits'
      BY DEF SemanticTypes, AskedFits, ModelAsked
    <2>15. CallsFit'
      BY DEF CallsFit
    <2>16. VetoFits'
      BY DEF VetoFits
    <2>17. ReportStands'
      BY DEF ReportStands, ReportSays, LostCalls
    <2> QED BY <2>10, <2>11, <2>12, <2>13, <2>14, <2>15, <2>16, <2>17
  <1> QED BY <1>1, <1>3, <1>4, <1>5, <1>6, <1>7

(* _finalize: the draft is accepted by the source or not, and becomes the   *)
(* analysis.                                                                *)
LEMMA FinalizeKeeps ==
    ASSUME SemanticInv, NEW accepted \in BOOLEAN, Finalize(accepted)
    PROVE  SemanticInv'
  <1> DEFINE a == Finalized(op.draft, accepted)
  <1>1. /\ op.step = "finalize" /\ AnalyseTo(session, a) /\ UNCHANGED <<setting, output, spent>>
        /\ setting \in Settings /\ session \in Sessions
    BY DEF Finalize, SemanticInv, SemanticTypes
  <1>2. DraftFits(op.draft) /\ (op.mode = "deterministic" => DraftStands(op.draft))
    BY <1>1 DEF SemanticInv, DraftIsFit
  <1>3. /\ a \in Analyses /\ AnalysisFits(a) /\ a.calls = op.draft.calls
        /\ Has(op.draft.issues, "unsafe") => a.plan = NoPlan /\ Has(a.issues, "unsafe")
        /\ DraftStands(op.draft) => Stands(a)
    BY <1>1, <1>2, FinalizedFits
  <1> HIDE DEF a
  <1>4. Fits(a, setting.kinds)
    BY <1>3 DEF AnalysisFits
  <1>5. session.last # NoPlan => Fits(session.last, setting.kinds)
    BY DEF SemanticInv, SessionFits
  <1>6. /\ session.last # NoPlan /\ session.analysis = NoPlan =>
             session.last.calls = spent.calls \/ (session.closed /\ session.plan # NoPlan /\ session.last.calls = 0)
        /\ op.purpose \in ModelAsked => a.calls = spent.calls
    BY <1>1, <1>3 DEF SemanticInv, CallsFit
  <1>7. op.purpose = "saved" => Stands(a)
    BY <1>2, <1>3 DEF SemanticInv, OperationFits
  <1>8. ASSUME spent.unsafe, session.plan = NoPlan, op.purpose \in {"analyze", "parse"}
        PROVE  a.plan = NoPlan /\ Has(a.issues, "unsafe")
    <2>1. session.analysis = NoPlan
      BY <1>1, <1>8 DEF SemanticInv, OperationFits, Asking
    <2>2. setting.request \in BOOLEAN /\ ~setting.request
      BY <1>1, <1>8, SettingIs DEF SemanticInv, OperationFits
    <2> QED BY <1>1, <1>3, <1>8, <2>1, <2>2 DEF SemanticInv, VetoFits
  <1> QED BY <1>1, <1>3, <1>4, <1>5, <1>6, <1>7, <1>8, AnalysisGoes

(* The source of a model's plan that cannot be opened again: the draft      *)
(* becomes the one without a model, which carries the same calls; a veto    *)
(* of the request never waits here.                                         *)
LEMMA FallBackKeeps ==
    ASSUME SemanticInv, FallBack
    PROVE  SemanticInv'
  <1> DEFINE d == WithoutModel(<<"request_invalid">>, op.draft.calls)
  <1>1. /\ op.step = "finalize" /\ op.draft.own /\ ~Has(op.draft.issues, "unsafe")
        /\ op' = [op EXCEPT !.draft = d] /\ UNCHANGED <<setting, session, output, spent, answer>>
        /\ setting \in Settings /\ op \in Operations
    BY DEF FallBack, Offered, SemanticInv, SemanticTypes
  <1>2. DraftFits(op.draft) /\ op.draft.calls \in Nat /\ op.mode # "deterministic"
    BY <1>1 DEF SemanticInv, DraftIsFit, DraftFits, DraftStands, Drafts
  <1>3. "request_invalid" \in IssueCodes
    BY DEF IssueCodes
  <1>4. DraftFits(d) /\ d.calls = op.draft.calls
    BY <1>1, <1>2, <1>3, WithoutModelFits
  <1> HIDE DEF d
  <1>5. /\ op' \in Operations /\ op'.purpose = op.purpose /\ op'.mode = op.mode /\ op'.step = "finalize"
        /\ op'.draft = d
    BY <1>1, <1>4 DEF Operations, DraftFits
  <1>6. RecordsGiven' = RecordsGiven /\ IsTold' = IsTold
    BY <1>1, RecordsStay
  <1> USE <1>1, <1>2, <1>4, <1>5, <1>6 DEF SemanticInv
  <1>10. SemanticTypes'
    BY DEF SemanticTypes
  <1>11. OperationFits'
    BY DEF OperationFits, ModelAsked, Asking
  <1>12. DraftIsFit'
    BY DEF DraftIsFit
  <1>13. SessionFits'
    BY DEF SessionFits
  <1>14. AskedFits'
    BY DEF AskedFits
  <1>15. CallsFit'
    BY DEF CallsFit
  <1>16. VetoFits'
    BY DEF VetoFits
  <1>17. ReportStands'
    BY DEF ReportStands, ReportSays, LostCalls
  <1> QED BY <1>10, <1>11, <1>12, <1>13, <1>14, <1>15, <1>16, <1>17

(* The source is read: what is known then is in last_analysis. *)
LEMMA ScannedSession ==
    ASSUME NEW s \in Sessions, NEW a \in Analyses
    PROVE  LET t == [s EXCEPT !.last = a]
           IN  /\ t \in Sessions /\ t.iterator = s.iterator /\ t.started = s.started /\ t.closed = s.closed
               /\ t.records = s.records /\ t.plan = s.plan /\ t.analysis = s.analysis
               /\ t.report = s.report /\ t.last = a
  BY DEF Sessions

(* The source is read: a plan without a model, a request, or what is known  *)
(* without either.                                                          *)
LEMMA CaptureKeeps ==
    ASSUME SemanticInv, Capture
    PROVE  SemanticInv'
  <1> DEFINE s == [session EXCEPT !.last = Incomplete]
             a == Unasked(op.mode)
  <1>1. /\ op.step = "capture" /\ UNCHANGED <<setting, output, spent>>
        /\ setting \in Settings /\ session \in Sessions /\ op \in Operations /\ setting.request \in BOOLEAN
    BY SettingIs DEF Capture, SemanticInv, SemanticTypes
  <1>2. /\ Incomplete \in Analyses /\ Fits(Incomplete, setting.kinds) /\ Incomplete.calls = 0
        /\ a \in Analyses /\ Fits(a, setting.kinds) /\ a.calls = 0 /\ a.plan = NoPlan
    BY <1>1, ScannedIs DEF AnalysisFits
  <1>3. \/ /\ UsesBase(op.mode) /\ session' = s /\ answer' = answer
           /\ op' = [op EXCEPT !.step = "finalize", !.draft = BaseDraft(0, <<>>)]
        \/ ~UsesBase(op.mode) /\ MayAskModel(op.mode) /\ session' = s /\ answer' = answer /\ op' = [op EXCEPT !.step = "ask"]
        \/ AnalyseTo(s, a)
    BY DEF Capture
  <1>4. /\ s \in Sessions /\ s.iterator = session.iterator /\ s.started = session.started
        /\ s.closed = session.closed /\ s.records = session.records /\ s.plan = session.plan
        /\ s.analysis = session.analysis /\ s.report = session.report /\ s.last = Incomplete
    BY <1>1, <1>2, ScannedSession
  <1>5. s.last # NoPlan /\ Fits(s.last, setting.kinds)
    BY <1>2, <1>4, NoneIsNone
  <1> HIDE DEF s, a
  <1>6. op.purpose \in ModelAsked => spent.calls = 0 /\ ~spent.unsafe
    BY <1>1 DEF SemanticInv, AskedFits
  <1>7. s.analysis = NoPlan => s.last.calls = spent.calls \/ (s.closed /\ s.plan # NoPlan /\ s.last.calls = 0)
    <2>1. op.purpose \in {"none", "analyze", "parse", "request", "validate", "saved"}
      BY <1>1, OperationTyped
    <2>2. CASE op.purpose \in ModelAsked
      BY <1>2, <1>4, <1>6, <2>2
    <2>3. CASE op.purpose \notin ModelAsked
      <3>1. /\ op.purpose = "validate" => ~session.closed
            /\ op.purpose = "saved" => session.plan # NoPlan
            /\ op.purpose # "none" /\ ~setting.request
        BY <1>1, <2>3 DEF SemanticInv, OperationFits, ModelAsked
      <3>2. spent.asked \in {0, 1}
        BY DEF SemanticInv, SemanticTypes
      <3>3. session.analysis = NoPlan => spent.calls = 0 \/ session.closed
        BY <1>1, <3>1, <3>2 DEF SemanticInv, AskedFits
      <3> QED BY <1>2, <1>4, <2>1, <2>3, <3>1, <3>3 DEF ModelAsked
    <2> QED BY <2>2, <2>3
  <1>8. RecordsGiven' = RecordsGiven /\ IsTold' = IsTold
    BY <1>1, RecordsStay
  <1>9. CASE UsesBase(op.mode) /\ session' = s /\ answer' = answer
             /\ op' = [op EXCEPT !.step = "finalize", !.draft = BaseDraft(0, <<>>)]
    <2> DEFINE d == BaseDraft(0, <<>>)
    <2>1. setting.base # NoPlan
      BY <1>9 DEF UsesBase
    <2>2. DraftFits(d) /\ d.calls = 0 /\ DraftStands(d)
      <3> DEFINE penalty == 0
                 issues == <<>>
      <3>1. penalty \in Nat /\ penalty = 0 /\ issues \in Codes /\ (Has(issues, "unsafe") => Has(Bounded(issues), "unsafe"))
        BY CodesAre DEF Has, ToSet
      <3>2. d = BaseDraft(penalty, issues)
        OBVIOUS
      <3> HIDE DEF d, penalty, issues
      <3>3. /\ DraftFits(BaseDraft(penalty, issues)) /\ BaseDraft(penalty, issues).calls = 0
            /\ penalty = 0 => DraftStands(BaseDraft(penalty, issues))
        BY <1>1, <2>1, <3>1, BaseDraftFits
      <3> QED BY <3>1, <3>2, <3>3
    <2> HIDE DEF d
    <2>3. d \in Drafts
      BY <2>2 DEF DraftFits
    <2>4. /\ op' \in Operations /\ op'.purpose = op.purpose /\ op'.mode = op.mode /\ op'.step = "finalize"
          /\ op'.draft = d
      BY <1>1, <1>9, <2>3 DEF d, Operations
    <2> USE <1>1, <1>4, <1>5, <1>6, <1>7, <1>8, <1>9, <2>2, <2>4 DEF SemanticInv
    <2>10. SemanticTypes'
      BY DEF SemanticTypes
    <2>11. OperationFits'
      BY DEF OperationFits, ModelAsked, Asking
    <2>12. DraftIsFit'
      BY DEF DraftIsFit
    <2>13. SessionFits'
      BY DEF SessionFits
    <2>14. AskedFits'
      BY DEF SemanticTypes, AskedFits, ModelAsked
    <2>15. CallsFit'
      BY DEF CallsFit
    <2>16. VetoFits'
      BY DEF VetoFits
    <2>17. ReportStands'
      BY DEF ReportStands, ReportSays, LostCalls
    <2> QED BY <2>10, <2>11, <2>12, <2>13, <2>14, <2>15, <2>16, <2>17
  <1>10. CASE ~UsesBase(op.mode) /\ MayAskModel(op.mode) /\ session' = s /\ answer' = answer /\ op' = [op EXCEPT !.step = "ask"]
    <2>1. /\ op' \in Operations /\ op'.purpose = op.purpose /\ op'.mode = op.mode /\ op'.step = "ask"
      BY <1>1, <1>10 DEF Operations
    <2>2. op.mode # "deterministic"
      BY <1>10 DEF MayAskModel
    <2>3. op.purpose \in ModelAsked
      <3>1. op.purpose \in {"none", "analyze", "parse", "request", "validate", "saved"}
        BY <1>1, OperationTyped
      <3> QED BY <1>1, <2>2, <3>1 DEF SemanticInv, OperationFits, ModelAsked
    <2> USE <1>1, <1>4, <1>5, <1>6, <1>7, <1>8, <1>10, <2>1, <2>2, <2>3 DEF SemanticInv
    <2>10. SemanticTypes'
      BY DEF SemanticTypes
    <2>11. OperationFits'
      BY DEF OperationFits, ModelAsked, Asking
    <2>12. DraftIsFit'
      BY DEF DraftIsFit
    <2>13. SessionFits'
      BY DEF SessionFits
    <2>14. AskedFits'
      BY DEF SemanticTypes, AskedFits, ModelAsked
    <2>15. CallsFit'
      BY DEF CallsFit
    <2>16. VetoFits'
      BY DEF VetoFits
    <2>17. ReportStands'
      BY DEF ReportStands, ReportSays, LostCalls
    <2> QED BY <2>10, <2>11, <2>12, <2>13, <2>14, <2>15, <2>16, <2>17
  <1>11. CASE AnalyseTo(s, a)
    <2>1. op.purpose = "saved" => Stands(a)
      BY <1>2 DEF Stands
    <2>2. op.purpose \in {"analyze", "parse"} => op.purpose \in ModelAsked
      BY DEF ModelAsked
    <2> QED BY <1>1, <1>2, <1>4, <1>5, <1>6, <1>7, <1>11, <2>1, <2>2, AnalysisGoes
  <1> QED BY <1>3, <1>9, <1>10, <1>11

(* A model is asked: the one analysis that asks, with its calls. *)
LEMMA AskedKeeps ==
    ASSUME SemanticInv, op.step = "ask", NEW calls \in Nat, NEW draft, DraftFits(draft), draft.calls = calls,
           Asked(calls, draft)
    PROVE  SemanticInv'
  <1> DEFINE unsafe == Has(draft.issues, "unsafe")
             a == [session.last EXCEPT !.calls = calls]
  <1>1. /\ session' = [session EXCEPT !.last = a] /\ op' = [op EXCEPT !.step = "finalize", !.draft = draft]
        /\ UNCHANGED <<setting, output, answer>>
    BY DEF Asked
  <1>2. spent' = [calls |-> spent.calls + calls, asked |-> spent.asked + 1, unsafe |-> unsafe]
    BY DEF Asked, SpentOn
  <1>3. /\ session \in Sessions /\ op \in Operations /\ draft \in Drafts /\ setting.request \in BOOLEAN
        /\ unsafe \in BOOLEAN
    BY SettingIs DEF SemanticInv, SemanticTypes, DraftFits, Has
  <1>4. spent.asked = 0 /\ spent.calls = 0 /\ ~spent.unsafe
    BY DEF SemanticInv, AskedFits
  <1>5. op.purpose \in ModelAsked /\ op.mode # "deterministic" /\ session.last # NoPlan
    BY DEF SemanticInv, OperationFits
  <1>6. session.last \in Analyses /\ Fits(session.last, setting.kinds)
    BY <1>3, <1>5, SessionTyped DEF SemanticInv, SessionFits
  <1>7. /\ a \in Analyses /\ a.calls = calls /\ a.plan = session.last.plan /\ a.issues = session.last.issues
        /\ a.blocks = session.last.blocks /\ a.unresolved = session.last.unresolved /\ a.score = session.last.score
    BY <1>6 DEF Analyses
  <1> HIDE DEF a
  <1>8. Fits(a, setting.kinds) /\ a # NoPlan
    BY <1>6, <1>7, NoneIsNone DEF Fits
  <1>9. /\ session' \in Sessions /\ session'.iterator = session.iterator /\ session'.started = session.started
        /\ session'.closed = session.closed /\ session'.records = session.records /\ session'.plan = session.plan
        /\ session'.analysis = session.analysis /\ session'.report = session.report /\ session'.last = a
    BY <1>1, <1>3, <1>7, ScannedSession
  <1>10. /\ op' \in Operations /\ op'.purpose = op.purpose /\ op'.mode = op.mode /\ op'.step = "finalize"
         /\ op'.draft = draft
    BY <1>1, <1>3 DEF Operations
  <1> HIDE DEF unsafe
  <1>11. /\ spent' \in [calls : Nat, asked : {0, 1}, unsafe : BOOLEAN] /\ spent'.calls = calls /\ spent'.asked = 1
         /\ spent'.unsafe = unsafe
    <2>1. spent' = [calls |-> calls, asked |-> 1, unsafe |-> unsafe]
      BY <1>2, <1>4
    <2> QED BY <1>3, <2>1
  <1>12. /\ op.purpose = "request" <=> setting.request
         /\ session.analysis = NoPlan
    BY <1>3, <1>5 DEF SemanticInv, OperationFits, SessionFits, ModelAsked, Asking
  <1>13. session.report = NoPlan /\ output.given = <<>>
    BY <1>12 DEF SemanticInv, SessionFits
  <1>14. RecordsGiven' = RecordsGiven /\ IsTold' = IsTold
    BY <1>1, RecordsStay
  <1>15. spent'.unsafe => Has(op'.draft.issues, "unsafe")
    BY <1>10, <1>11 DEF unsafe
  <1> USE <1>1, <1>3, <1>5, <1>8, <1>9, <1>10, <1>11, <1>12, <1>13, <1>14 DEF SemanticInv
  <1>20. SemanticTypes'
    BY DEF SemanticTypes
  <1>21. OperationFits'
    BY DEF OperationFits, ModelAsked, Asking
  <1>22. DraftIsFit'
    BY DEF DraftIsFit
  <1>23. SessionFits'
    BY DEF SessionFits
  <1>24. AskedFits'
    BY DEF SemanticTypes, AskedFits, ModelAsked
  <1>25. CallsFit'
    BY <1>7 DEF CallsFit
  <1>26. VetoFits'
    BY <1>15 DEF VetoFits
  <1>27. ReportStands'
    BY DEF ReportStands, ReportSays, LostCalls
  <1> QED BY <1>20, <1>21, <1>22, <1>23, <1>24, <1>25, <1>26, <1>27

(* A document is asked for chunk by chunk. *)
LEMMA AskByChunkKeeps ==
    ASSUME SemanticInv, NEW x \in Extractions, AskByChunk(x)
    PROVE  SemanticInv'
  <1>1. op.step = "ask" /\ setting \in Settings /\ x.calls \in Nat /\ x.code \in IssueCodes
    BY CodesAre, SemanticAssumption DEF AskByChunk, SemanticInv, SemanticTypes
  <1>2. CASE x.code # ""
    <2> DEFINE d == WithoutModel(<<x.code>>, x.calls)
    <2>1. Asked(x.calls, d)
      BY <1>2 DEF AskByChunk
    <2>2. DraftFits(d) /\ d.calls = x.calls
      BY <1>1, WithoutModelFits
    <2> HIDE DEF d
    <2> QED BY <1>1, <2>1, <2>2, AskedKeeps
  <1>3. CASE x.code = ""
    <2> DEFINE d == ExtractedDraft(x)
    <2>1. Asked(x.calls, d)
      BY <1>3 DEF AskByChunk
    <2>2. DraftFits(d) /\ d.calls = x.calls
      BY <1>1, ExtractedDraftFits
    <2> HIDE DEF d
    <2> QED BY <1>1, <2>1, <2>2, AskedKeeps
  <1> QED BY <1>2, <1>3

(* One request for a plan, if there is a sample to show. *)
LEMMA AskForPlanKeeps ==
    ASSUME SemanticInv, NEW p \in Proposals, AskForPlan(p)
    PROVE  SemanticInv'
  <1>1. op.step = "ask" /\ setting \in Settings /\ p.calls \in Nat /\ p.code \in IssueCodes
        /\ "context_limit" \in IssueCodes
    BY CodesAre, SemanticAssumption DEF AskForPlan, SemanticInv, SemanticTypes
  <1>2. CASE Samples = <<>>
    <2> DEFINE none == 0
               d == WithoutModel(<<"context_limit">>, none)
    <2>1. Asked(none, d) /\ none \in Nat
      BY <1>2 DEF AskForPlan
    <2> HIDE DEF none
    <2>2. DraftFits(d) /\ d.calls = none
      BY <1>1, <2>1, WithoutModelFits
    <2> HIDE DEF d
    <2> QED BY <1>1, <2>1, <2>2, AskedKeeps
  <1>3. CASE Samples # <<>> /\ p.plan = NoPlan
    <2> DEFINE d == WithoutModel(<<p.code>>, p.calls)
    <2>1. Asked(p.calls, d)
      BY <1>3 DEF AskForPlan
    <2>2. DraftFits(d) /\ d.calls = p.calls
      BY <1>1, WithoutModelFits
    <2> HIDE DEF d
    <2> QED BY <1>1, <2>1, <2>2, AskedKeeps
  <1>4. CASE Samples # <<>> /\ p.plan # NoPlan
    <2> DEFINE d == ProposedDraft(p)
    <2>1. Asked(p.calls, d)
      BY <1>4 DEF AskForPlan
    <2>2. DraftFits(d) /\ d.calls = p.calls
      BY <1>1, <1>4, ProposedDraftFits
    <2> HIDE DEF d
    <2> QED BY <1>1, <2>1, <2>2, AskedKeeps
  <1> QED BY <1>2, <1>3, <1>4

(* A saved plan, checked, is the analysis of the session. *)
LEMMA CheckSavedKeeps ==
    ASSUME SemanticInv, NEW accepted \in BOOLEAN, CheckSaved(accepted)
    PROVE  SemanticInv'
  <1> DEFINE v == Saved(session.plan, op.draft, accepted)
             calls == IF session.analysis = NoPlan THEN 0 ELSE session.analysis.calls
             a == [v EXCEPT !.calls = calls]
             s == [session EXCEPT !.analysis = a]
             t == [s EXCEPT !.iterator = "ended"]
  <1>1. /\ op.purpose = "saved" /\ op.step = "check" /\ UNCHANGED <<setting, output, spent, answer>>
        /\ setting \in Settings /\ session \in Sessions /\ op \in Operations /\ setting.request \in BOOLEAN
    BY SettingIs DEF CheckSaved, SemanticInv, SemanticTypes
  <1>2. IF session.closed THEN EndIterator(FailWith(s, "failed", "request_invalid"))
        ELSE session' = s /\ op' = [op EXCEPT !.purpose = "parse", !.step = "plan", !.draft = NoPlan]
    BY DEF CheckSaved, WithSaved
  <1>3. /\ setting.request = FALSE /\ session.plan # NoPlan /\ session.plan \in Plans /\ session.iterator = "running"
        /\ op.draft \in Analyses /\ Fits(op.draft, setting.kinds) /\ Stands(op.draft)
    BY <1>1, SessionTyped DEF SemanticInv, OperationFits, DraftIsFit, PlanOrNone
  <1>4. v \in Analyses /\ Fits(v, setting.kinds)
    <2>1. AnalysisFits(op.draft)
      BY <1>3 DEF AnalysisFits
    <2>2. v \in Analyses /\ AnalysisFits(v)
      BY <1>1, <1>3, <2>1, SavedFits
    <2> HIDE DEF v
    <2> QED BY <2>2 DEF AnalysisFits
  <1> HIDE DEF v
  <1>5. calls \in Nat
    <2>1. session.analysis # NoPlan => session.analysis \in Analyses
      BY <1>1, SessionTyped
    <2> QED BY <2>1 DEF Analyses
  <1>6. calls = spent.calls \/ (session.closed /\ calls = 0)
    <2>1. CASE session.analysis = NoPlan
      <3>1. spent.asked = 1 => session.closed
        BY <1>1, <1>3, <2>1 DEF SemanticInv, AskedFits
      <3>2. spent.asked = 0 => spent.calls = 0
        BY DEF SemanticInv, AskedFits
      <3>3. spent.asked \in {0, 1}
        BY DEF SemanticInv, SemanticTypes
      <3> QED BY <2>1, <3>1, <3>2, <3>3
    <2>2. CASE session.analysis # NoPlan
      BY <1>1, <1>3, <2>2 DEF SemanticInv, CallsFit
    <2> QED BY <2>1, <2>2
  <1> HIDE DEF calls
  <1>7. a \in Analyses /\ a.calls = calls /\ Fits(a, setting.kinds) /\ a # NoPlan
    <2>1. /\ a \in Analyses /\ a.calls = calls /\ a.plan = v.plan /\ a.issues = v.issues
          /\ a.blocks = v.blocks /\ a.unresolved = v.unresolved /\ a.score = v.score
      BY <1>4, <1>5 DEF Analyses
    <2> HIDE DEF a
    <2> QED BY <1>4, <2>1, NoneIsNone DEF Fits
  <1> HIDE DEF a
  <1>8. /\ s \in Sessions /\ s.iterator = session.iterator /\ s.started = session.started
        /\ s.closed = session.closed /\ s.records = session.records /\ s.plan = session.plan
        /\ s.analysis = a /\ s.report = session.report /\ s.last = session.last
    BY <1>1, <1>7 DEF Sessions
  <1> HIDE DEF s
  <1>9. session.report = NoPlan /\ output.given = <<>> /\ session.started
    BY <1>1, <1>3, SessionTyped DEF SemanticInv, SessionFits
  <1>10. s.last # NoPlan => Fits(s.last, setting.kinds)
    BY <1>8 DEF SemanticInv, SessionFits
  <1>11. CASE session.closed
    <2> DEFINE e == FailWith(s, "failed", "request_invalid")
    <2>1. session' = [e EXCEPT !.iterator = "ended"] /\ op' = Idle
      BY <1>2, <1>11 DEF EndIterator
    <2>2. "request_invalid" \in IssueCodes
      BY CodesAre
    <2>3. s.analysis # NoPlan => Fits(s.analysis, setting.kinds)
      BY <1>7, <1>8
    <2>4. Fails(e, s, "failed", "request_invalid", setting.kinds)
      BY <1>8, <1>10, <2>2, <2>3, FailedIs
    <2> HIDE DEF e
    <2>5. Fails(session', t, "failed", "request_invalid", setting.kinds)
      BY <1>8, <2>1, <2>4, EndsToo
    <2>6. /\ t \in Sessions /\ t.iterator = "ended" /\ t.started = session.started
          /\ t.closed = session.closed /\ t.records = session.records /\ t.plan = session.plan
          /\ t.analysis = a /\ t.report = session.report /\ t.last = session.last
      BY <1>8, EndedIs
    <2> HIDE DEF t
    <2>7. Known(t) = a
      BY <1>7, <2>6 DEF Known
    <2>8. /\ spent.asked = 0 => spent.calls = 0 /\ ~spent.unsafe
          /\ spent' = spent /\ spent' \in [calls : Nat, asked : {0, 1}, unsafe : BOOLEAN]
      BY <1>1 DEF SemanticInv, SemanticTypes, AskedFits
    <2>9. EndsWell(t, spent.calls, spent.asked, spent.unsafe, "failed")
      BY <1>3, <1>6, <1>7, <1>8, <1>9, <1>10, <1>11, <2>6, <2>7, <2>8 DEF EndsWell
    <2>10. EndsWell(t, spent'.calls, spent'.asked, spent'.unsafe, "failed")
      BY <2>8, <2>9
    <2> QED BY <1>1, <1>3, <2>1, <2>2, <2>5, <2>8, <2>10, EndsBadly
  <1>12. CASE ~session.closed
    <2>1. session' = s /\ op' = [op EXCEPT !.purpose = "parse", !.step = "plan", !.draft = NoPlan]
      BY <1>2, <1>12
    <2>2. op' \in Operations /\ op'.purpose = "parse" /\ op'.step = "plan"
      BY <1>1, <2>1 DEF Operations
    <2>3. RecordsGiven' = RecordsGiven /\ IsTold' = IsTold
      BY <1>1, RecordsStay
    <2> USE <1>1, <1>3, <1>6, <1>7, <1>8, <1>9, <1>10, <1>12, <2>1, <2>2, <2>3 DEF SemanticInv
    <2>20. SemanticTypes'
      BY DEF SemanticTypes
    <2>21. OperationFits'
      BY DEF OperationFits, ModelAsked, Asking
    <2>22. DraftIsFit'
      BY DEF DraftIsFit
    <2>23. SessionFits'
      BY DEF SessionFits
    <2>24. AskedFits'
      BY DEF SemanticTypes, AskedFits, ModelAsked
    <2>25. CallsFit'
      BY DEF CallsFit
    <2>26. VetoFits'
      BY DEF VetoFits
    <2>27. ReportStands'
      BY DEF ReportStands, ReportSays, LostCalls
    <2> QED BY <2>20, <2>21, <2>22, <2>23, <2>24, <2>25, <2>26, <2>27
  <1> QED BY <1>1, <1>11, <1>12, SessionTyped

(* A report that ends the iterator before its records. *)
LEMMA FinishKeeps ==
    ASSUME SemanticInv, op.step = "plan", NEW s \in Sessions, s.iterator = session.iterator, s.started = session.started,
           s.closed = session.closed, s.records = session.records, s.plan = session.plan, s.last = session.last,
           NEW a \in Analyses, s.analysis = a, Fits(a, setting.kinds), a.issues # <<>>,
           a.calls = session.analysis.calls, a.plan = NoPlan,
           Has(session.analysis.issues, "unsafe") => Has(a.issues, "unsafe"),
           NEW status \in {"rejected_security", "needs_review"},
           session' = [FinishWith(s, status) EXCEPT !.iterator = "ended"], op' = Idle,
           UNCHANGED <<setting, output, spent, answer>>
    PROVE  SemanticInv'
  <1> DEFINE e == FinishWith(s, status)
             r == ReportOf(a, status, s.records)
  <1>1. /\ session \in Sessions /\ setting.request \in BOOLEAN /\ a # NoPlan /\ status \in Statuses /\ s.records \in Nat
    BY SettingIs, SessionTyped, NoneIsNone DEF SemanticInv, SemanticTypes, Statuses
  <1>2. /\ e \in Sessions /\ e.report = r
        /\ e.closed = s.closed /\ e.started = s.started /\ e.records = s.records /\ e.plan = s.plan
        /\ e.analysis = s.analysis /\ e.last = s.last /\ e.iterator = s.iterator
    BY <1>1, FinishedIs
  <1> HIDE DEF e
  <1>3. /\ r \in Reports /\ r # NoPlan /\ r.status = status /\ r.plan = a.plan /\ r.issues = a.issues
        /\ r.score = a.score /\ r.calls = a.calls /\ r.blocks = a.blocks /\ r.unresolved = a.unresolved
        /\ r.records = s.records
    BY <1>1, ReportIs
  <1> HIDE DEF r
  <1>4. /\ session' \in Sessions /\ session'.iterator = "ended" /\ session'.started = session.started
        /\ session'.closed = session.closed /\ session'.records = session.records /\ session'.plan = session.plan
        /\ session'.analysis = a /\ session'.report = r /\ session'.last = session.last
    <2> DEFINE t == [e EXCEPT !.iterator = "ended"]
    <2>1. session' = t
      BY DEF e
    <2>2. /\ t \in Sessions /\ t.iterator = "ended" /\ t.closed = e.closed /\ t.started = e.started
          /\ t.records = e.records /\ t.plan = e.plan /\ t.last = e.last /\ t.analysis = e.analysis
          /\ t.report = e.report
      BY <1>2, EndedIs
    <2> HIDE DEF t
    <2>3. t.analysis = a /\ t.report = r /\ t.last = session.last
      BY <1>2, <2>2
    <2>4. t.started = session.started /\ t.closed = session.closed /\ t.records = session.records /\ t.plan = session.plan
      BY <1>2, <2>2
    <2> QED BY <2>1, <2>2, <2>3, <2>4
  <1>5. op'.purpose = "none" /\ op'.step = "none" /\ op' \in Operations
    BY DEF Idle, Operations
  <1>6. /\ setting.request = FALSE /\ session.iterator = "running" /\ session.analysis # NoPlan
    BY <1>1 DEF SemanticInv, OperationFits
  <1>7. session.report = NoPlan /\ output.given = <<>> /\ session.started
    BY <1>1, <1>6, SessionTyped DEF SemanticInv, SessionFits
  <1>8. ReportFits(r)
    BY <1>3 DEF ReportFits, Fits
  <1>9. session.analysis.calls = spent.calls
    BY <1>6 DEF SemanticInv, CallsFit
  <1>10. RecordsGiven' = RecordsGiven /\ IsTold' = IsTold /\ ~IsTold
    <2>1. ~IsTold
      BY <1>7 DEF SemanticInv, ReportStands
    <2> QED BY <2>1, RecordsStay
  <1> USE <1>1, <1>3, <1>4, <1>5, <1>6, <1>7, <1>8, <1>9, <1>10 DEF SemanticInv
  <1>20. SemanticTypes'
    BY DEF SemanticTypes
  <1>21. OperationFits'
    BY DEF OperationFits, ModelAsked, Asking
  <1>22. DraftIsFit'
    BY DEF DraftIsFit
  <1>23. SessionFits'
    BY DEF SessionFits
  <1>24. AskedFits'
    BY DEF SemanticTypes, AskedFits, ModelAsked
  <1>25. CallsFit'
    BY DEF CallsFit
  <1>26. VetoFits'
    BY DEF VetoFits
  <1>27. ReportStands'
    BY DEF ReportStands, ReportSays, LostCalls, VetoFits
  <1> QED BY <1>20, <1>21, <1>22, <1>23, <1>24, <1>25, <1>26, <1>27

(* A list of issues that grows keeps what it has. *)
LEMMA HasMore ==
    ASSUME NEW issues \in Codes, NEW code \in IssueCodes, NEW last \in IssueCodes, Has(issues, code)
    PROVE  Has(Append(issues, last), code)
  <1>1. PICK i \in DOMAIN issues : issues[i] = code
    BY DEF Has, ToSet
  <1>2. issues \in Seq(IssueCodes)
    BY DEF Codes
  <1>3. i \in DOMAIN Append(issues, last) /\ Append(issues, last)[i] = code
    BY <1>1, <1>2
  <1> QED BY <1>3 DEF Has, ToSet

(* An analysis whose plan the source does not bear out. *)
Rejected(s) ==
    [s EXCEPT !.analysis.plan = NoPlan, !.analysis.score = 0, !.analysis.issues = Append(@, "rejected")]

LEMMA RejectedIs ==
    ASSUME NEW s \in Sessions, s.analysis # NoPlan, NEW kinds, Fits(s.analysis, kinds)
    PROVE  LET t == Rejected(s)
           IN  /\ t \in Sessions /\ t.iterator = s.iterator /\ t.closed = s.closed /\ t.started = s.started
               /\ t.records = s.records /\ t.plan = s.plan /\ t.last = s.last
               /\ t.analysis \in Analyses /\ Fits(t.analysis, kinds)
               /\ t.analysis.plan = NoPlan /\ t.analysis.calls = s.analysis.calls
               /\ t.analysis.issues # <<>>
               /\ Has(s.analysis.issues, "unsafe") => Has(t.analysis.issues, "unsafe")
  <1> DEFINE a == s.analysis
             zero == 0
             issues == Append(a.issues, "rejected")
             b == [a EXCEPT !.plan = NoPlan, !.score = zero, !.issues = issues]
             u == [s EXCEPT !.analysis = b]
  <1>1. a \in Analyses /\ a.issues \in Codes /\ a.unresolved <= a.blocks
    BY SessionTyped DEF Analyses, Fits
  <1>2. zero \in Int
    OBVIOUS
  <1>3. issues \in Codes /\ issues # <<>> /\ (Has(a.issues, "unsafe") => Has(issues, "unsafe"))
    BY <1>1, CodesAre, HasMore
  <1>4. Rejected(s) = u
    <2>1. s = [closed |-> s.closed, started |-> s.started, analysis |-> s.analysis, last |-> s.last,
               report |-> s.report, records |-> s.records, iterator |-> s.iterator, plan |-> s.plan]
      BY DEF Sessions
    <2> QED BY <1>1, <2>1 DEF Rejected, Analyses
  <1> HIDE DEF zero, issues
  <1>5. /\ b \in Analyses /\ b.plan = NoPlan /\ b.issues = issues /\ b.calls = a.calls
        /\ b.unresolved = a.unresolved /\ b.blocks = a.blocks
    BY <1>1, <1>2, <1>3 DEF Analyses, PlanOrNone
  <1> HIDE DEF b
  <1>6. Fits(b, kinds)
    BY <1>1, <1>3, <1>5 DEF Fits
  <1>7. /\ u \in Sessions /\ u.iterator = s.iterator /\ u.closed = s.closed /\ u.started = s.started
        /\ u.records = s.records /\ u.plan = s.plan /\ u.last = s.last /\ u.analysis = b
    BY <1>5 DEF Sessions
  <1> HIDE DEF u
  <1> QED BY <1>3, <1>4, <1>5, <1>6, <1>7

(* The check of the plan before the records: it gives a report, or the      *)
(* records that the plan says.                                              *)
LEMMA CheckPlanKeeps ==
    ASSUME SemanticInv, NEW accepted \in BOOLEAN, CheckPlan(accepted)
    PROVE  SemanticInv'
  <1>1. /\ op.purpose = "parse" /\ op.step = "plan" /\ UNCHANGED <<setting, spent, answer>>
        /\ setting \in Settings /\ session \in Sessions /\ op \in Operations /\ setting.request \in BOOLEAN
    BY SettingIs DEF CheckPlan, SemanticInv, SemanticTypes
  <1>2. /\ session.analysis # NoPlan /\ session.analysis \in Analyses /\ Fits(session.analysis, setting.kinds)
        /\ session.iterator = "running"
    BY <1>1, SessionTyped DEF SemanticInv, OperationFits, SessionFits
  <1>3. CASE session.analysis.plan = NoPlan
    <2> DEFINE status == IF Has(session.analysis.issues, "unsafe") THEN "rejected_security" ELSE "needs_review"
    <2>1. session' = [FinishWith(session, status) EXCEPT !.iterator = "ended"] /\ op' = Idle /\ output' = output
      BY <1>3 DEF CheckPlan, EndIterator
    <2>2. status \in {"rejected_security", "needs_review"}
      OBVIOUS
    <2> HIDE DEF status
    <2>3. session.analysis.issues # <<>>
      BY <1>2, <1>3 DEF Fits
    <2> QED BY <1>1, <1>2, <1>3, <2>1, <2>2, <2>3, FinishKeeps
  <1>4. CASE session.analysis.plan # NoPlan /\ ~accepted
    <2> DEFINE t == Rejected(session)
               status == "needs_review"
    <2>1. session' = [FinishWith(t, status) EXCEPT !.iterator = "ended"] /\ op' = Idle /\ output' = output
      BY <1>4 DEF CheckPlan, EndIterator, Rejected
    <2>2. status \in {"rejected_security", "needs_review"}
      OBVIOUS
    <2> HIDE DEF status
    <2>3. /\ t \in Sessions /\ t.iterator = session.iterator /\ t.closed = session.closed
          /\ t.started = session.started
          /\ t.records = session.records /\ t.plan = session.plan /\ t.last = session.last
          /\ t.analysis \in Analyses /\ Fits(t.analysis, setting.kinds)
          /\ t.analysis.plan = NoPlan /\ t.analysis.calls = session.analysis.calls
          /\ t.analysis.issues # <<>>
          /\ Has(session.analysis.issues, "unsafe") => Has(t.analysis.issues, "unsafe")
      BY <1>1, <1>2, RejectedIs
    <2> HIDE DEF t
    <2> DEFINE b == t.analysis
    <2>4. /\ b \in Analyses /\ t.analysis = b /\ Fits(b, setting.kinds) /\ b.issues # <<>>
          /\ b.calls = session.analysis.calls /\ b.plan = NoPlan
          /\ Has(session.analysis.issues, "unsafe") => Has(b.issues, "unsafe")
      BY <2>3
    <2> HIDE DEF b
    <2> QED BY <1>1, <2>1, <2>2, <2>3, <2>4, FinishKeeps
  <1>5. CASE session.analysis.plan # NoPlan /\ accepted
    <2>1. /\ session.analysis.plan.valid /\ session' = session /\ op' = [op EXCEPT !.step = "emit"]
          /\ output' = [output EXCEPT !.left = session.analysis.plan.batches]
      BY <1>5 DEF CheckPlan
    <2>2. session.analysis.plan.batches \in Seq(Nat)
      BY <1>2, <1>5 DEF Analyses, PlanOrNone, Plans
    <2>3. /\ output' \in [left : Seq(Nat), given : Seq(Batches)] /\ output'.given = output.given
      BY <2>1, <2>2 DEF SemanticInv, SemanticTypes
    <2>4. op' \in Operations /\ op'.purpose = "parse" /\ op'.step = "emit"
      BY <1>1, <2>1 DEF Operations
    <2>5. RecordsGiven' = RecordsGiven /\ IsTold' = IsTold
      BY <2>3, RecordsStay
    <2>6. session.report = NoPlan
      BY <1>1, <1>2 DEF SemanticInv, SessionFits
    <2> USE <1>1, <1>2, <1>5, <2>1, <2>3, <2>4, <2>5, <2>6 DEF SemanticInv
    <2>20. SemanticTypes'
      BY DEF SemanticTypes
    <2>21. OperationFits'
      BY DEF OperationFits, ModelAsked, Asking
    <2>22. DraftIsFit'
      BY DEF DraftIsFit
    <2>23. SessionFits'
      BY DEF SessionFits
    <2>24. AskedFits'
      BY DEF SemanticTypes, AskedFits, ModelAsked
    <2>25. CallsFit'
      BY DEF CallsFit
    <2>26. VetoFits'
      BY DEF VetoFits
    <2>27. ReportStands'
      BY DEF ReportStands, ReportSays, LostCalls
    <2> QED BY <2>20, <2>21, <2>22, <2>23, <2>24, <2>25, <2>26, <2>27
  <1> QED BY <1>3, <1>4, <1>5

(* The records of the next batch are counted before it is given. *)
LEMMA CountedIs ==
    ASSUME session \in Sessions, output.left \in Seq(Nat), Len(output.left) > 0
    PROVE  LET t == Counted
           IN  /\ t \in Sessions /\ t.iterator = "paused" /\ t.records = session.records + Head(output.left)
               /\ t.closed = session.closed /\ t.started = session.started /\ t.plan = session.plan
               /\ t.last = session.last /\ t.analysis = session.analysis /\ t.report = session.report
  <1>1. Head(output.left) \in Nat
    OBVIOUS
  <1>2. session.records + Head(output.left) \in Nat
    BY <1>1, SessionTyped
  <1> QED BY <1>2 DEF Counted, Sessions

(* A batch that is given is counted, and tells whether it is the last. *)
LEMMA GivenIs ==
    ASSUME SemanticTypes, Len(output.left) > 0, NEW last \in BOOLEAN, Given(Head(output.left), last)
    PROVE  /\ output' \in [left : Seq(Nat), given : Seq(Batches)] /\ output'.left = Tail(output.left)
           /\ output'.given # <<>> /\ Head(output.left) \in Nat
           /\ RecordsGiven' = RecordsGiven + Head(output.left) /\ (IsTold' <=> IsTold \/ last)
  <1> DEFINE first == Head(output.left)
             batch == [records |-> first, last |-> last]
             given == output.given
             more == Append(given, batch)
  <1>1. /\ output \in [left : Seq(Nat), given : Seq(Batches)] /\ given \in Seq(Batches)
        /\ output.left \in Seq(Nat) /\ first \in Nat
    BY DEF SemanticTypes
  <1>2. output' = [left |-> Tail(output.left), given |-> more]
    BY DEF Given
  <1> HIDE DEF first
  <1>3. batch \in Batches /\ batch.records = first /\ batch.last = last
    BY <1>1 DEF Batches
  <1> HIDE DEF batch
  <1>4. /\ more \in Seq(Batches) /\ Len(more) = Len(given) + 1 /\ DOMAIN given = 1..Len(given)
        /\ DOMAIN more = 1..Len(more) /\ more[Len(given) + 1] = batch
        /\ \A i \in 1..Len(given) : more[i] = given[i]
    BY <1>1, <1>3
  <1>5. SumOf(more) = SumOf(given) + first
    BY <1>1, <1>3, SumOfGiven
  <1> HIDE DEF given
  <1>6. /\ output'.left = Tail(output.left) /\ output'.given = more
        /\ output' \in [left : Seq(Nat), given : Seq(Batches)]
    BY <1>1, <1>2, <1>4
  <1> HIDE DEF more
  <1>7. RecordsGiven' = RecordsGiven + first
    BY <1>5, <1>6, RecordsAre, RecordsAreNext DEF given
  <1>8. IsTold' <=> IsTold \/ last
    <2>1. IsTold' <=> \E n \in 1..(Len(given) + 1) : more[n].last
      BY <1>4, <1>6 DEF IsTold
    <2>2. IsTold <=> \E n \in 1..Len(given) : given[n].last
      BY <1>4 DEF IsTold, given
    <2>3. Len(given) \in Nat
      BY <1>1
    <2> QED BY <1>3, <1>4, <2>1, <2>2, <2>3
  <1>9. more # <<>>
    BY <1>1, <1>4
  <1> QED BY <1>1, <1>6, <1>7, <1>8, <1>9 DEF first

(* While records are given. *)
LEMMA EmitsOf ==
    ASSUME SemanticInv, op.step = "emit", Len(output.left) > 0
    PROVE  /\ setting \in Settings /\ session \in Sessions /\ setting.request = FALSE
           /\ op.purpose = "parse" /\ session.iterator = "running" /\ session.started
           /\ output.left \in Seq(Nat) /\ output.left # <<>>
           /\ session.report = NoPlan /\ ~IsTold
           /\ session.analysis \in Analyses /\ session.analysis # NoPlan /\ Fits(session.analysis, setting.kinds)
           /\ session.analysis.plan # NoPlan /\ session.analysis.plan.valid
           /\ session.analysis.calls = spent.calls /\ ~(spent.unsafe /\ session.plan = NoPlan)
  <1>1. /\ setting \in Settings /\ session \in Sessions /\ setting.request \in BOOLEAN
        /\ output.left \in Seq(Nat)
    BY SettingIs DEF SemanticInv, SemanticTypes
  <1>2. op.purpose = "parse" /\ session.analysis # NoPlan /\ session.iterator = "running" /\ setting.request = FALSE
    BY <1>1 DEF SemanticInv, OperationFits
  <1>3. session.analysis \in Analyses /\ session.started \in BOOLEAN
    BY <1>1, <1>2, SessionTyped
  <1>4. /\ Fits(session.analysis, setting.kinds) /\ session.analysis.plan # NoPlan /\ session.analysis.plan.valid
        /\ session.started
    BY <1>2, <1>3 DEF SemanticInv, SessionFits
  <1>5. output.left # <<>>
    OBVIOUS
  <1>6. session.report = NoPlan
    BY <1>2, <1>5 DEF SemanticInv, SessionFits
  <1>7. ~IsTold
    BY <1>6 DEF SemanticInv, ReportStands
  <1>8. session.analysis.calls = spent.calls
    BY <1>2 DEF SemanticInv, CallsFit
  <1>9. ~(spent.unsafe /\ session.plan = NoPlan)
    BY <1>2, <1>4 DEF SemanticInv, VetoFits
  <1> QED BY <1>1, <1>2, <1>3, <1>4, <1>5, <1>6, <1>7, <1>8, <1>9

(* A batch before the last: only of a plan that the validator took, and     *)
(* never after a veto.                                                      *)
LEMMA GiveBatchKeeps ==
    ASSUME SemanticInv, GiveBatch
    PROVE  SemanticInv'
  <1>1. /\ op.step = "emit" /\ Len(output.left) > 1 /\ session' = Counted /\ op' = Idle
        /\ UNCHANGED <<setting, spent, answer>> /\ Given(Head(output.left), FALSE) /\ SemanticTypes
    BY DEF GiveBatch, SemanticInv
  <1>2. Len(output.left) > 0
    BY <1>1 DEF SemanticTypes
  <1>3. /\ setting \in Settings /\ session \in Sessions /\ setting.request = FALSE
        /\ op.purpose = "parse" /\ session.iterator = "running" /\ session.started
        /\ output.left \in Seq(Nat)
        /\ session.report = NoPlan /\ ~IsTold
        /\ session.analysis \in Analyses /\ session.analysis # NoPlan /\ Fits(session.analysis, setting.kinds)
        /\ session.analysis.plan # NoPlan /\ session.analysis.plan.valid
        /\ session.analysis.calls = spent.calls /\ ~(spent.unsafe /\ session.plan = NoPlan)
    BY <1>1, <1>2, EmitsOf
  <1>4. /\ output' \in [left : Seq(Nat), given : Seq(Batches)] /\ output'.given # <<>>
        /\ RecordsGiven' = RecordsGiven + Head(output.left) /\ ~IsTold'
    BY <1>1, <1>2, <1>3, GivenIs
  <1>5. /\ session' \in Sessions /\ session'.iterator = "paused"
        /\ session'.records = session.records + Head(output.left)
        /\ session'.closed = session.closed /\ session'.started = session.started /\ session'.plan = session.plan
        /\ session'.last = session.last /\ session'.analysis = session.analysis /\ session'.report = session.report
    BY <1>1, <1>2, <1>3, CountedIs
  <1>6. op'.purpose = "none" /\ op'.step = "none" /\ op' \in Operations
    BY <1>1 DEF Idle, Operations
  <1>7. session'.records = RecordsGiven'
    BY <1>4, <1>5 DEF SemanticInv, SessionFits
  <1> USE <1>1, <1>3, <1>4, <1>5, <1>6, <1>7 DEF SemanticInv
  <1>20. SemanticTypes'
    BY DEF SemanticTypes
  <1>21. OperationFits'
    BY DEF OperationFits, ModelAsked, Asking
  <1>22. DraftIsFit'
    BY DEF DraftIsFit
  <1>23. SessionFits'
    BY DEF SessionFits
  <1>24. AskedFits'
    BY DEF SemanticTypes, AskedFits, ModelAsked
  <1>25. CallsFit'
    BY DEF CallsFit
  <1>26. VetoFits'
    BY DEF VetoFits
  <1>27. ReportStands'
    BY DEF ReportStands, ReportSays, LostCalls
  <1> QED BY <1>20, <1>21, <1>22, <1>23, <1>24, <1>25, <1>26, <1>27

(* A report that is made when the last batch is reached. *)
LEMMA LastReported ==
    ASSUME SemanticInv, op.step = "emit", Len(output.left) = 1, NEW s \in Sessions,
           \/ s.iterator = "paused" /\ op' = Idle
           \/ s.iterator = session.iterator /\ op' = op,
           s.closed = session.closed, s.started = session.started, s.plan = session.plan,
           s.last = session.last, s.analysis = session.analysis, s.records = RecordsGiven',
           NEW status \in {"completed", "needs_review"},
           status = "completed" => session.analysis.issues = <<>> /\ IsTold',
           status = "needs_review" => session.analysis.issues # <<>> /\ ~IsTold',
           session' = FinishWith(s, status),
           output' \in [left : Seq(Nat), given : Seq(Batches)], output'.left = <<>>,
           UNCHANGED <<setting, spent, answer>>
    PROVE  SemanticInv'
  <1> DEFINE a == session.analysis
             r == ReportOf(a, status, s.records)
  <1>1. /\ setting \in Settings /\ session \in Sessions /\ setting.request = FALSE
        /\ op.purpose = "parse" /\ session.iterator = "running" /\ session.started
        /\ session.report = NoPlan /\ ~IsTold
        /\ a \in Analyses /\ a # NoPlan /\ Fits(a, setting.kinds)
        /\ a.plan # NoPlan /\ a.plan.valid
        /\ a.calls = spent.calls /\ ~(spent.unsafe /\ session.plan = NoPlan)
    <2>1. Len(output.left) > 0
      OBVIOUS
    <2> QED BY <2>1, EmitsOf
  <1>2. status \in Statuses /\ s.records \in Nat /\ op \in Operations /\ s.analysis = a
    BY SessionTyped DEF Statuses, SemanticInv, SemanticTypes
  <1> HIDE DEF a
  <1>3. /\ session' \in Sessions /\ session'.report = r
        /\ session'.closed = session.closed /\ session'.started = session.started
        /\ session'.records = s.records /\ session'.plan = session.plan
        /\ session'.analysis = a /\ session'.last = session.last /\ session'.iterator = s.iterator
    <2> DEFINE e == FinishWith(s, status)
    <2>1. /\ e \in Sessions /\ e.report = ReportOf(s.analysis, status, s.records)
          /\ e.closed = s.closed /\ e.started = s.started /\ e.records = s.records /\ e.plan = s.plan
          /\ e.analysis = s.analysis /\ e.last = s.last /\ e.iterator = s.iterator
      BY <1>1, <1>2, FinishedIs
    <2>2. session' = e
      OBVIOUS
    <2> HIDE DEF e
    <2> QED BY <1>2, <2>1, <2>2
  <1>4. /\ r \in Reports /\ r # NoPlan /\ r.status = status /\ r.plan = a.plan /\ r.issues = a.issues
        /\ r.score = a.score /\ r.calls = a.calls /\ r.blocks = a.blocks /\ r.unresolved = a.unresolved
        /\ r.records = s.records
    BY <1>1, <1>2, ReportIs
  <1> HIDE DEF r
  <1>5. ReportFits(r)
    <2>1. status = "completed" => a.blocks = 0
      BY <1>1 DEF Fits, a
    <2> QED BY <1>1, <1>4, <2>1 DEF ReportFits, Fits, a
  <1>6. \/ session'.iterator = "paused" /\ op'.purpose = "none" /\ op'.step = "none" /\ op' \in Operations
        \/ session'.iterator = "running" /\ op' = op
    BY <1>1, <1>3 DEF Idle, Operations
  <1>7. r.status = "completed" =>
          /\ IsTold' /\ r.score >= SessionPolicy.threshold /\ r.plan.valid /\ r.plan.kind \in setting.kinds
    BY <1>1, <1>4 DEF Fits, a
  <1>8. (r.status # "completed" => ~IsTold') /\ r.status # "cancelled"
    BY <1>4
  <1>9. session'.analysis = session.analysis
    BY <1>3 DEF a
  <1>10. session.analysis # NoPlan /\ session.analysis.plan # NoPlan /\ session.analysis.plan.valid
    BY <1>1 DEF a
  <1> USE <1>1, <1>2, <1>3, <1>4, <1>5, <1>6, <1>7, <1>8, <1>9, <1>10 DEF SemanticInv
  <1>20. SemanticTypes'
    BY DEF SemanticTypes
  <1>21. OperationFits'
    BY DEF OperationFits, ModelAsked, Asking
  <1>22. DraftIsFit'
    BY DEF DraftIsFit
  <1>23. SessionFits'
    BY DEF SessionFits
  <1>24. AskedFits'
    BY DEF SemanticTypes, AskedFits, ModelAsked
  <1>25. CallsFit'
    BY DEF CallsFit
  <1>26. VetoFits'
    BY DEF VetoFits
  <1>27. ReportStands'
    BY DEF ReportStands, ReportSays, LostCalls
  <1> QED BY <1>20, <1>21, <1>22, <1>23, <1>24, <1>25, <1>26, <1>27

(* After the only batch there is none. *)
LEMMA TailOfOne ==
    ASSUME NEW left \in Seq(Nat), Len(left) = 1
    PROVE  Tail(left) = <<>> /\ Head(left) \in Nat
  <1>1. left # <<>>
    <2>1. Len(<<>>) = 0
      OBVIOUS
    <2>2. SUFFICES ASSUME left = <<>> PROVE FALSE
      OBVIOUS
    <2> QED BY <2>1, <2>2
  <1>2. Tail(left) \in Seq(Nat) /\ Len(Tail(left)) = Len(left) - 1 /\ Head(left) \in Nat
    BY <1>1, HeadTailProperties
  <1>3. Len(Tail(left)) = 0
    BY <1>2
  <1>4. Tail(left) = <<>>
    BY <1>2, <1>3, EmptySeq
  <1> QED BY <1>2, <1>4

(* The last batch: "completed" without an issue, else a preview for review, *)
(* or nothing at all.                                                       *)
LEMMA GiveLastKeeps ==
    ASSUME SemanticInv, GiveLast
    PROVE  SemanticInv'
  <1> DEFINE first == Head(output.left)
  <1>1. /\ op.step = "emit" /\ Len(output.left) = 1 /\ UNCHANGED <<setting, spent, answer>> /\ SemanticTypes
    BY DEF GiveLast, SemanticInv
  <1>2. Len(output.left) > 0
    BY <1>1
  <1>3. session \in Sessions /\ output.left \in Seq(Nat) /\ session.iterator = "running" /\ ~IsTold
    BY <1>1, <1>2, EmitsOf
  <1>4. Tail(output.left) = <<>> /\ first \in Nat
    BY <1>1, <1>3, TailOfOne
  <1>5. session.records = RecordsGiven
    BY DEF SemanticInv, SessionFits
  <1> HIDE DEF first
  <1>6. CASE session.analysis.issues = <<>> \/ first > 0
    <2> DEFINE s      == Counted
               done   == session.analysis.issues = <<>>
               status == IF done THEN "completed" ELSE "needs_review"
    <2>1. Given(Head(output.left), done) /\ op' = Idle /\ session' = FinishWith(s, status)
      <3>1. CASE done
        <4>1. Given(Head(output.left), TRUE) /\ op' = Idle /\ session' = FinishWith(Counted, "completed")
          BY <3>1 DEF GiveLast
        <4>2. status = "completed"
          BY <3>1
        <4>3. Given(Head(output.left), done)
          BY <3>1, <4>1 DEF Given
        <4> HIDE DEF status
        <4> QED BY <4>1, <4>2, <4>3
      <3>2. CASE ~done
        <4>1. Given(Head(output.left), FALSE) /\ op' = Idle /\ session' = FinishWith(Counted, "needs_review")
          BY <1>6, <3>2 DEF GiveLast, first
        <4>2. status = "needs_review"
          BY <3>2
        <4>3. Given(Head(output.left), done)
          BY <3>2, <4>1 DEF Given
        <4> HIDE DEF status
        <4> QED BY <4>1, <4>2, <4>3
      <3> QED BY <3>1, <3>2
    <2>2. /\ done \in BOOLEAN /\ status \in {"completed", "needs_review"}
          /\ status = "completed" <=> done
      OBVIOUS
    <2> HIDE DEF status
    <2>3. /\ s \in Sessions /\ s.iterator = "paused" /\ s.records = session.records + Head(output.left)
          /\ s.closed = session.closed /\ s.started = session.started /\ s.plan = session.plan
          /\ s.last = session.last /\ s.analysis = session.analysis
      BY <1>1, <1>2, <1>3, CountedIs
    <2> HIDE DEF s
    <2>4. /\ output' \in [left : Seq(Nat), given : Seq(Batches)] /\ output'.left = Tail(output.left)
          /\ RecordsGiven' = RecordsGiven + Head(output.left) /\ (IsTold' <=> IsTold \/ done)
      BY <1>1, <1>2, <2>1, <2>2, GivenIs
    <2>5. /\ status = "completed" => session.analysis.issues = <<>> /\ IsTold'
          /\ status = "needs_review" => session.analysis.issues # <<>> /\ ~IsTold'
      BY <1>3, <2>2, <2>4
    <2>6. s.records = RecordsGiven' /\ output'.left = <<>>
      BY <1>4, <1>5, <2>3, <2>4
    <2> QED BY <1>1, <2>1, <2>2, <2>3, <2>4, <2>5, <2>6, LastReported
  <1>7. CASE session.analysis.issues # <<>> /\ ~(first > 0)
    <2> DEFINE s      == [session EXCEPT !.records = @ + Head(output.left)]
               status == "needs_review"
    <2>1. output' = [output EXCEPT !.left = <<>>] /\ op' = op /\ session' = FinishWith(s, status)
      BY <1>7 DEF GiveLast, first
    <2>2. status \in {"completed", "needs_review"} /\ status # "completed"
      OBVIOUS
    <2> HIDE DEF status
    <2>3. first = 0 /\ session.records \in Nat
      BY <1>3, <1>4, <1>7, SessionTyped
    <2>4. /\ s \in Sessions /\ s.iterator = session.iterator /\ s.records = session.records + first
          /\ s.closed = session.closed /\ s.started = session.started /\ s.plan = session.plan
          /\ s.last = session.last /\ s.analysis = session.analysis
      BY <1>3, <1>4, <2>3 DEF Sessions, first
    <2> HIDE DEF s
    <2>5. /\ output' \in [left : Seq(Nat), given : Seq(Batches)] /\ output'.left = <<>>
          /\ output'.given = output.given
      <3>1. <<>> \in Seq(Nat) /\ output \in [left : Seq(Nat), given : Seq(Batches)]
        BY <1>1 DEF SemanticTypes
      <3>2. output' = [output EXCEPT !.left = <<>>]
        BY <2>1
      <3> QED BY <3>1, <3>2
    <2>6. RecordsGiven' = RecordsGiven /\ IsTold' = IsTold
      BY <2>5, RecordsStay
    <2>7. s.records = RecordsGiven' /\ ~IsTold'
      BY <1>3, <1>5, <2>3, <2>4, <2>6
    <2>8. /\ status = "completed" => session.analysis.issues = <<>> /\ IsTold'
          /\ status = "needs_review" => session.analysis.issues # <<>> /\ ~IsTold'
      BY <1>7, <2>2, <2>7
    <2>9. session' = FinishWith(s, status) /\ op' = op
      BY <2>1
    <2>10. s.closed = session.closed /\ s.started = session.started /\ s.records = RecordsGiven'
      BY <2>4, <2>7
    <2>11. s \in Sessions /\ s.iterator = session.iterator /\ s.plan = session.plan
      BY <2>4
    <2>12. s.last = session.last /\ s.analysis = session.analysis
      BY <2>4
    <2> QED BY <1>1, <2>2, <2>5, <2>8, <2>9, <2>10, <2>11, <2>12, LastReported
  <1> QED BY <1>6, <1>7

(* A new session fits. *)
LEMMA SemanticStarts ==
    ASSUME SemanticInit
    PROVE  SemanticInv
  <1>1. /\ setting \in Settings /\ session = NewSession /\ op = Idle
        /\ output = [left |-> <<>>, given |-> <<>>]
        /\ spent = [calls |-> 0, asked |-> 0, unsafe |-> FALSE] /\ answer = "none"
        /\ setting.request \in BOOLEAN
    BY SettingIs DEF SemanticInit
  <1>2. /\ session \in Sessions /\ session.closed = FALSE /\ session.started = FALSE /\ session.analysis = NoPlan
        /\ session.last = NoPlan /\ session.report = NoPlan /\ session.records = 0
        /\ session.iterator = "none" /\ session.plan = NoPlan
    BY <1>1 DEF NewSession, NoReport, Sessions, PlanOrNone
  <1>3. op \in Operations /\ op.purpose = "none" /\ op.step = "none" /\ op.mode = "none"
    BY <1>1 DEF Idle, Operations
  <1>4. /\ output \in [left : Seq(Nat), given : Seq(Batches)] /\ output.given = <<>> /\ output.left = <<>>
    BY <1>1
  <1>5. /\ spent \in [calls : Nat, asked : {0, 1}, unsafe : BOOLEAN]
        /\ spent.calls = 0 /\ spent.asked = 0 /\ ~spent.unsafe
    BY <1>1
  <1>6. RecordsGiven = 0
    BY <1>4, RecordsAre, SumOfBegun
  <1>7. ~IsTold
    BY <1>4 DEF IsTold
  <1>10. SemanticTypes
    BY <1>1, <1>2, <1>3, <1>4, <1>5 DEF SemanticTypes
  <1>11. OperationFits
    BY <1>1, <1>2, <1>3 DEF OperationFits, ModelAsked, Asking
  <1>12. DraftIsFit
    BY <1>3 DEF DraftIsFit
  <1>13. SessionFits
    BY <1>1, <1>2, <1>3, <1>4, <1>6 DEF SessionFits
  <1>14. AskedFits
    BY <1>1, <1>3, <1>5 DEF AskedFits, ModelAsked
  <1>15. CallsFit
    BY <1>2, <1>3 DEF CallsFit
  <1>16. VetoFits
    BY <1>5 DEF VetoFits
  <1>17. ReportStands
    BY <1>2, <1>7 DEF ReportStands
  <1> QED BY <1>10, <1>11, <1>12, <1>13, <1>14, <1>15, <1>16, <1>17 DEF SemanticInv

(* Every step of a semantic run keeps the invariant. *)
LEMMA SemanticSteps ==
    ASSUME SemanticInv, SemanticNext \/ UNCHANGED semanticVars
    PROVE  SemanticInv'
  <1>1. CASE CallAnalyze
    <2>1. IsFree /\ setting.request = FALSE
      BY <1>1, SettingIs DEF CallAnalyze, IsFree, SemanticInv, SemanticTypes
    <2>2. CASE session.closed \/ session.analysis # NoPlan
      <3>1. UNCHANGED <<setting, session, op, output, spent>>
        BY <1>1, <2>2 DEF CallAnalyze, Refused
      <3> QED BY <2>1, <3>1, AnswersOnly
    <2>3. CASE ~session.closed /\ session.analysis = NoPlan
      <3>1. op' = Begin("analyze", setting.mode) /\ UNCHANGED <<setting, session, output, spent, answer>>
        BY <1>1, <2>3 DEF CallAnalyze
      <3> QED BY <2>1, <2>3, <3>1, StartsAnalysis
    <2> QED BY <2>2, <2>3
  <1>2. CASE CallValidate
    <2>1. IsFree /\ setting.request = FALSE
      BY <1>2, SettingIs DEF CallValidate, IsFree, SemanticInv, SemanticTypes
    <2>2. CASE session.closed
      <3>1. UNCHANGED <<setting, session, op, output, spent>>
        BY <1>2, <2>2 DEF CallValidate, Refused
      <3> QED BY <2>1, <3>1, AnswersOnly
    <2> QED BY <1>2, <2>1, <2>2, StartsCheck
  <1>3. ASSUME NEW plan \in SavedPlans \cup {NoPlan}, CallParse(plan) PROVE SemanticInv'
    <2>1. IsFree /\ setting.request = FALSE
      BY <1>3, SettingIs DEF CallParse, IsFree, SemanticInv, SemanticTypes
    <2>2. CASE session.closed \/ session.started
      <3>1. UNCHANGED <<setting, session, op, output, spent>>
        BY <1>3, <2>2 DEF CallParse, Refused
      <3> QED BY <2>1, <3>1, AnswersOnly
    <2>3. CASE ~session.closed /\ ~session.started
      <3>1. /\ session' = [session EXCEPT !.started = TRUE, !.iterator = "made", !.plan = plan]
            /\ UNCHANGED <<setting, op, output, spent, answer>>
        BY <1>3, <2>3 DEF CallParse
      <3> QED BY <2>1, <2>3, <3>1, MakesIterator
    <2> QED BY <2>2, <2>3
  <1>4. CASE CloseIterator \/ CloseSession
    <2>1. /\ IsFree /\ (session' = ClosedIterator \/ session' = [ClosedIterator EXCEPT !.closed = TRUE])
          /\ UNCHANGED <<setting, op, output, spent, answer>>
      BY <1>4 DEF CloseIterator, CloseSession
    <2> QED BY <2>1, ClosedIteratorKeeps
  <1>5. ASSUME NEW accepted \in BOOLEAN,
               Finalize(accepted) \/ CheckGiven(accepted) \/ CheckSaved(accepted) \/ CheckPlan(accepted)
        PROVE  SemanticInv'
    BY <1>5, FinalizeKeeps, CheckGivenKeeps, CheckSavedKeeps, CheckPlanKeeps
  <1>6. ASSUME NEW calls \in CallsMade,
               (\E code \in {"source", "timeout"} : OperationFails(code, calls)) \/ CancelOperation(calls)
        PROVE  SemanticInv'
    BY <1>6, OperationFailsKeeps, CancelOperationKeeps
  <1>7. CASE CallRequest \/ StartIterator \/ Capture \/ Resume \/ OutputEnds
    BY <1>7, StartsRequest, StartIteratorKeeps, CaptureKeeps, ResumeKeeps, OutputEndsKeeps
  <1>8. CASE GiveBatch \/ GiveLast
    BY <1>8, GiveBatchKeeps, GiveLastKeeps
  <1>9. ASSUME NEW x \in Extractions, AskByChunk(x) PROVE SemanticInv'
    BY <1>9, AskByChunkKeeps
  <1>10. ASSUME NEW p \in Proposals, AskForPlan(p) PROVE SemanticInv'
    BY <1>10, AskForPlanKeeps
  <1>11. CASE UNCHANGED semanticVars
    BY <1>11, AnswersOnly DEF semanticVars
  <1>12. CASE FallBack
    BY <1>12, FallBackKeeps
  <1> QED BY <1>1, <1>2, <1>3, <1>4, <1>5, <1>6, <1>7, <1>8, <1>9, <1>10, <1>11, <1>12 DEF SemanticNext

(* The invariant says that the report is true. *)
LEMMA SemanticReports ==
    ASSUME SemanticInv
    PROVE  ReportIsTrue
  <1>1. spent.asked <= 1
    BY DEF SemanticInv, SemanticTypes
  <1>2. IsTold => session.report # NoReport
    BY DEF SemanticInv, ReportStands, NoReport
  <1>3. spent.unsafe /\ session.plan = NoPlan => output.given = <<>>
    BY DEF SemanticInv, VetoFits
  <1>4. session.report # NoReport => ReportSays(session.report) /\ session.records = RecordsGiven
    BY DEF SemanticInv, ReportStands, SessionFits, NoReport
  <1> QED BY <1>1, <1>2, <1>3, <1>4 DEF ReportIsTrue, ReportSays

(* A semantic run keeps its invariant: who waits for what, what waits for   *)
(* the second reading of the source, that one analysis asks, where its      *)
(* calls are counted and where its veto is kept (parsing/session.py,        *)
(* structure/hybrid.py).                                                    *)
THEOREM SemanticInvariant == SemanticSpec => []SemanticInv
  <1>1. SemanticInit => SemanticInv
    BY SemanticStarts
  <1>2. SemanticInv /\ [SemanticNext]_semanticVars => SemanticInv'
    BY SemanticSteps
  <1> QED BY <1>1, <1>2, PTL DEF SemanticSpec

(* What a session reports is what happened: "completed" only with the last  *)
(* batch given, the source resolved, a sufficient score and nothing to      *)
(* review; every call and every record counted, the reason of any other end *)
(* kept, and nothing given after a veto - whichever operation failed, was   *)
(* cancelled or was overtaken by a close (parsing/session.py,               *)
(* structure/hybrid.py). For every source, policy, plan, answer of a model  *)
(* and limit of issues that meets the assumption.                           *)
THEOREM ReportsAreTrue == SemanticSpec => []ReportIsTrue
  <1>1. SemanticInv => ReportIsTrue
    BY SemanticReports
  <1> QED BY <1>1, SemanticInvariant, PTL
=============================================================================
