--------------------------- MODULE SecurityProofs ---------------------------
(***************************************************************************)
(* Proofs about Guarded, for every policy, every limit and any number of   *)
(* tasks that share one security session, about Provider, for any number   *)
(* of tasks that use one client and close it, and about the placeholder    *)
(* store of Vault, for any jobs, principals and clocks.                    *)
(***************************************************************************)
EXTENDS Guarded, Provider, Vault, FiniteSetTheorems, SequenceTheorems, WellFoundedInduction, TLAPS

-----------------------------
(* Numbers, sums, and the order of the routes. *)

(* A set of numbers that is not empty has a least one. *)
LEMMA LeastOf ==
    ASSUME NEW S \in SUBSET Nat, S # {}
    PROVE  \E n \in S : \A m \in S : n <= m
  <1>1. PICK n \in S : \A m \in S : <<m, n>> \notin OpToRel(<, Nat)
    BY NatLessThanWellFounded, WFMin
  <1>2. \A m \in S : ~(m < n)
    BY <1>1 DEF OpToRel
  <1> QED BY <1>2

(* The partial sums of a list of records. *)
AddsUp(sum, calls, n) ==
    \A i \in 0..n : sum[i] = IF i = 0 THEN 0 ELSE sum[i - 1] + calls[i].reserved

IsSumOf(sum, calls, n) == sum \in [0..n -> Nat] /\ AddsUp(sum, calls, n)

(* Every record has a cost. *)
LEMMA CostsOf ==
    ASSUME NEW calls \in Seq(LLMCallRecord)
    PROVE  Len(calls) \in Nat /\ \A i \in 1..Len(calls) : calls[i].reserved \in Nat
  <1>1. \A rec \in LLMCallRecord : rec.reserved \in Nat
    BY DEF LLMCallRecord
  <1>2. Len(calls) \in Nat /\ \A i \in 1..Len(calls) : calls[i] \in LLMCallRecord
    OBVIOUS
  <1> QED BY <1>1, <1>2

(* The partial sums of a list exist: the first length without them would    *)
(* have some.                                                               *)
LEMMA SumExists ==
    ASSUME NEW calls \in Seq(LLMCallRecord), NEW n \in 0..Len(calls)
    PROVE  \E sum : IsSumOf(sum, calls, n)
  <1> DEFINE Bad == {m \in 0..Len(calls) : ~\E sum : IsSumOf(sum, calls, m)}
  <1> SUFFICES ASSUME Bad # {} PROVE FALSE
    OBVIOUS
  <1>1. Len(calls) \in Nat /\ \A i \in 1..Len(calls) : calls[i].reserved \in Nat
    BY CostsOf
  <1>a. Bad \in SUBSET Nat
    BY <1>1
  <1>2. PICK m \in Bad : \A k \in Bad : m <= k
    BY <1>a, LeastOf
  <1>3. IsSumOf([i \in 0..0 |-> 0], calls, 0)
    BY DEF IsSumOf, AddsUp
  <1>4. m \in 0..Len(calls) /\ m # 0 /\ m - 1 \in 0..Len(calls) /\ m - 1 \notin Bad
    BY <1>1, <1>2, <1>3
  <1>5. PICK sum : IsSumOf(sum, calls, m - 1)
    BY <1>4
  <1> DEFINE more == [i \in 0..m |-> IF i = m THEN sum[m - 1] + calls[m].reserved ELSE sum[i]]
  <1>6. sum \in [0..(m - 1) -> Nat] /\ calls[m].reserved \in Nat
    BY <1>1, <1>4, <1>5 DEF IsSumOf, AddsUp
  <1>7. more \in [0..m -> Nat]
    BY <1>1, <1>4, <1>6
  <1>8. ASSUME NEW i \in 0..m
        PROVE  more[i] = IF i = 0 THEN 0 ELSE more[i - 1] + calls[i].reserved
    <2>1. CASE i = m
      BY <1>1, <1>4, <2>1
    <2>2. CASE i # m
      BY <1>1, <1>4, <1>5, <2>2 DEF IsSumOf, AddsUp
    <2> QED BY <2>1, <2>2
  <1>9. IsSumOf(more, calls, m)
    BY <1>7, <1>8 DEF IsSumOf, AddsUp
  <1> QED BY <1>2, <1>9

(* There is only one of them, whatever comes behind. *)
SameCosts(calls, more, k) == \A i \in 1..k : more[i].reserved = calls[i].reserved

(* There is only one list of partial sums, whatever comes behind. *)
LEMMA SumUnique ==
    ASSUME NEW calls, NEW more, NEW n \in Nat, NEW k \in 0..n, NEW f, NEW g,
           AddsUp(f, calls, n), AddsUp(g, more, k),
           SameCosts(calls, more, k)
    PROVE  f[k] = g[k]
  <1> DEFINE Bad == {m \in 0..k : f[m] # g[m]}
  <1> SUFFICES ASSUME Bad # {} PROVE FALSE
    OBVIOUS
  <1>b. Bad \in SUBSET Nat
    OBVIOUS
  <1>1. PICK m \in Bad : \A l \in Bad : m <= l
    BY <1>b, LeastOf
  <1>2. f[0] = 0 /\ g[0] = 0
    BY DEF IsSumOf, AddsUp
  <1>3. m \in 1..k /\ m - 1 \in 0..k /\ m - 1 \notin Bad
    BY <1>1, <1>2
  <1>4. f[m - 1] = g[m - 1]
    BY <1>3
  <1>a. m \in 0..n /\ m \in 0..k /\ m # 0
    BY <1>3
  <1>5. f[m] = f[m - 1] + calls[m].reserved /\ g[m] = g[m - 1] + more[m].reserved
    BY <1>a DEF IsSumOf, AddsUp
  <1> QED BY <1>1, <1>3, <1>4, <1>5 DEF SameCosts

(* SumReserved is the last of them. *)
LEMMA SumIs ==
    ASSUME NEW calls \in Seq(LLMCallRecord)
    PROVE  \E sum : IsSumOf(sum, calls, Len(calls)) /\ SumReserved(calls) = sum[Len(calls)]
  <1> DEFINE F(sum) == [i \in 0..Len(calls) |-> IF i = 0 THEN 0 ELSE sum[i - 1] + calls[i].reserved]
             upTo == CHOOSE sum : sum = F(sum)
  <1>1. Len(calls) \in Nat /\ \A i \in 1..Len(calls) : calls[i].reserved \in Nat
    BY CostsOf
  <1>2. PICK sum : IsSumOf(sum, calls, Len(calls))
    BY <1>1, SumExists
  <1>3. sum = F(sum)
    BY <1>2 DEF IsSumOf, AddsUp
  <1>4. upTo = F(upTo)
    BY <1>3
  <1>5. SumReserved(calls) = upTo[Len(calls)]
    BY DEF SumReserved
  <1>6. AddsUp(upTo, calls, Len(calls)) /\ AddsUp(sum, calls, Len(calls))
    BY <1>2, <1>4 DEF IsSumOf, AddsUp
  <1> HIDE DEF upTo
  <1>7. upTo[Len(calls)] = sum[Len(calls)]
    <2>1. SameCosts(calls, calls, Len(calls))
      BY DEF SameCosts
    <2> QED BY <1>1, <1>6, <2>1, SumUnique
  <1> QED BY <1>2, <1>5, <1>7

(* What an empty list and one more record add up to. *)
LEMMA SumOfNone == SumReserved(<<>>) = 0
  <1>1. <<>> \in Seq(LLMCallRecord) /\ Len(<<>>) = 0
    OBVIOUS
  <1>2. PICK sum : IsSumOf(sum, <<>>, 0) /\ SumReserved(<<>>) = sum[0]
    BY <1>1, SumIs
  <1> QED BY <1>2 DEF IsSumOf, AddsUp

(* One more record adds its cost. *)
LEMMA SumOfMore ==
    ASSUME NEW calls \in Seq(LLMCallRecord), NEW rec \in LLMCallRecord
    PROVE  /\ SumReserved(Append(calls, rec)) = SumReserved(calls) + rec.reserved
           /\ SumReserved(calls) \in Nat
  <1> DEFINE more == Append(calls, rec)
             n == Len(calls)
  <1>1. /\ n \in Nat /\ Len(more) = n + 1 /\ more \in Seq(LLMCallRecord)
        /\ more[n + 1] = rec /\ \A i \in 1..n : more[i] = calls[i]
    OBVIOUS
  <1> HIDE DEF more
  <1>2. PICK f : IsSumOf(f, more, n + 1) /\ SumReserved(more) = f[n + 1]
    BY <1>1, SumIs
  <1>3. PICK g : IsSumOf(g, calls, n) /\ SumReserved(calls) = g[n]
    BY SumIs
  <1>4. f[n] = g[n]
    <2>1. n + 1 \in Nat /\ n \in 0..(n + 1) /\ SameCosts(more, calls, n)
      BY <1>1 DEF SameCosts
    <2>2. AddsUp(f, more, n + 1) /\ AddsUp(g, calls, n)
      BY <1>2, <1>3 DEF IsSumOf
    <2> HIDE DEF n
    <2> QED BY <2>1, <2>2, SumUnique
  <1>5. f[n + 1] = f[n] + rec.reserved
    <2>1. n + 1 \in 0..(n + 1) /\ n + 1 # 0 /\ (n + 1) - 1 = n
      BY <1>1
    <2>2. f[n + 1] = IF n + 1 = 0 THEN 0 ELSE f[(n + 1) - 1] + more[n + 1].reserved
      BY <2>1, <1>2 DEF IsSumOf, AddsUp
    <2>3. f[n + 1] = f[n] + more[n + 1].reserved
      BY <2>1, <2>2
    <2> QED BY <1>1, <2>3
  <1>6. g[n] \in Nat
    BY <1>1, <1>3 DEF IsSumOf
  <1> QED BY <1>2, <1>3, <1>4, <1>5, <1>6 DEF more

(* There always is a next route. *)
LEMMA NextIsOne ==
    ASSUME NEW pol, NEW todo, todo # {}, todo \in SUBSET Nat
    PROVE  NextRoute(pol, todo) \in todo
  <1> DEFINE Local(k) == pol.routes[k].capabilities.environment = "local"
             near == {k \in todo : Local(k)}
             first == IF pol.mode = "privacy_first" /\ near # {} THEN near ELSE todo
  <1>1. first # {} /\ first \in SUBSET Nat /\ first \subseteq todo
    OBVIOUS
  <1>2. PICK i \in first : \A j \in first : i <= j
    BY <1>1, LeastOf
  <1>3. i \in todo /\ \A j \in todo \ {i} : ComesBefore(pol, i, j)
    BY <1>1, <1>2 DEF ComesBefore
  <1> QED BY <1>3 DEF NextRoute

-----------------------------
(* What a session replies. *)

Within(s) ==
    s \in SecuritySessionSet /\ \A r \in CountedResource : s.counts[r] <= Limit[r]

(* The session as it may be after a method that reserves nothing: the first *)
(* event stays.                                                             *)
Later(s, t) ==
    /\ Within(t) /\ t.start = s.start /\ t.counts = s.counts
    /\ s.event # None => t.event = s.event

Honest(reply) ==
    /\ reply.code = "ok" => reply.ses.event = None
    /\ reply.code # "ok" => /\ reply.ses.event # None
                            /\ reply.code \in {reply.ses.event.code, "SECURITY_RUN_CLOSED"}

IsReply(s, reply) == Later(s, reply.ses) /\ Honest(reply)

(* The event of a code. *)
LEMMA EventFacts ==
    ASSUME NEW code \in ResourceErrorCode
    PROVE  EventOf(code) \in ResourceEvent /\ EventOf(code).code = code /\ EventOf(code) # None
  <1>1. EventOf(code) \in ResourceEvent /\ EventOf(code).code = code
    BY DEF EventOf, ResourceEvent
  <1> QED BY <1>1, GuardedAssumption

(* The first event stays. *)
LEMMA RecordedIs ==
    ASSUME NEW s, Within(s), NEW code \in ResourceErrorCode
    PROVE  /\ Later(s, Recorded(s, code)) /\ Recorded(s, code).event # None
           /\ s.event = None => Recorded(s, code).event.code = code
           /\ Recorded(s, code).parser_used = s.parser_used
  <1>1. EventOf(code) \in ResourceEvent /\ EventOf(code).code = code /\ EventOf(code) # None
    BY EventFacts
  <1> QED BY <1>1 DEF Recorded, Later, Within, SecuritySessionSet

(* A refusal tells its own code. *)
LEMMA DeniedIs ==
    ASSUME NEW s, Within(s), NEW code \in ResourceErrorCode
    PROVE  /\ Later(s, Denied(s, code).ses) /\ Denied(s, code).code = code
           /\ Denied(s, code).ses.event # None /\ code # "ok"
           /\ s.event = None => IsReply(s, Denied(s, code))
  <1>1. code # "ok"
    BY DEF ResourceErrorCode
  <1> QED BY <1>1, RecordedIs DEF Denied, Reply, IsReply, Honest

(* A comparison reserves nothing. *)
LEMMA CheckedIs ==
    ASSUME NEW s, Within(s), NEW r, NEW value
    PROVE  /\ IsReply(s, Checked(s, r, value))
           /\ Checked(s, r, value).code = "ok" => Checked(s, r, value).ses = s /\ ~(value > Limit[r])
  <1>1. "SECURITY_LIMIT_EXCEEDED" \in ResourceErrorCode
    BY DEF ResourceErrorCode
  <1>2. CASE s.event # None
    BY <1>2 DEF Checked, Reply, IsReply, Honest, Later, Within
  <1>3. CASE s.event = None /\ value > Limit[r]
    <2>1. Checked(s, r, value) = Denied(s, "SECURITY_LIMIT_EXCEEDED")
      BY <1>3 DEF Checked
    <2>2. /\ IsReply(s, Denied(s, "SECURITY_LIMIT_EXCEEDED"))
          /\ Denied(s, "SECURITY_LIMIT_EXCEEDED").code # "ok"
      BY <1>1, <1>3, DeniedIs
    <2> QED BY <2>1, <2>2
  <1>4. CASE s.event = None /\ ~(value > Limit[r])
    BY <1>4 DEF Checked, Reply, IsReply, Honest, Later, Within
  <1> QED BY <1>2, <1>3, <1>4

(* The parameters. *)
LEMMA LimitFacts ==
    /\ \A r \in Resource : Limit[r] \in Nat /\ Limit[r] > 0
    /\ CountedResource \subseteq Resource /\ TimedResource \subseteq Resource
    /\ {"llm_calls", "llm_tokens", "db_queries"} = CountedResource
    /\ "processing_time_ms" \in TimedResource /\ "llm_time_ms" \in TimedResource
    /\ "parser_time_ms" \in TimedResource
    /\ "file_bytes" \in Resource /\ "stream_bytes" \in Resource
  BY LimitAssumption DEF Resource, CountedResource, SizedResource, TimedResource

(* A deadline is a time. *)
LEMMA DeadlineIs ==
    ASSUME NEW s, Within(s), NEW r \in TimedResource, NEW clock \in Nat
    PROVE  DeadlineOf(s, r, clock) \in Nat
  <1>1. Limit[r] \in Nat /\ Limit["processing_time_ms"] \in Nat
    BY LimitFacts
  <1>2. s.start \in Nat /\ StageStart(s, r, clock) \in Nat
    BY DEF Within, SecuritySessionSet, StageStart
  <1> QED BY <1>1, <1>2 DEF DeadlineOf

(* Looking at the clock. *)
LEMMA RemainingIs ==
    ASSUME NEW s, Within(s), NEW r \in TimedResource, NEW clock \in Nat
    PROVE  /\ IsReply(s, Remaining(s, r, clock))
           /\ Remaining(s, r, clock).code = "ok" => clock < s.start + Limit["processing_time_ms"]
  <1> DEFINE started == [s EXCEPT !.last = clock, !.stages[r] = StageStart(s, r, clock)]
  <1>1. {"SECURITY_POLICY_INVALID", "PROCESSING_TIMEOUT"} \subseteq ResourceErrorCode
    BY DEF ResourceErrorCode
  <1>2. StageStart(s, r, clock) \in Nat
    BY DEF Within, SecuritySessionSet, StageStart
  <1>3. Within(started) /\ started.start = s.start /\ started.counts = s.counts /\ started.event = s.event
    BY <1>2 DEF Within, SecuritySessionSet
  <1>4. Later(s, started)
    BY <1>3 DEF Later
  <1>5. s.start \in Nat /\ s.last \in Nat
    BY DEF Within, SecuritySessionSet
  <1> HIDE DEF started
  <1>6. CASE s.event # None
    BY <1>6 DEF Remaining, Reply, IsReply, Honest, Later, Within
  <1>7. CASE s.event = None /\ clock < s.last
    <2>1. Remaining(s, r, clock) = Denied(s, "SECURITY_POLICY_INVALID")
      BY <1>5, <1>7 DEF Remaining
    <2> QED BY <1>1, <1>7, <2>1, DeniedIs
  <1>8. CASE s.event = None /\ ~(clock < s.last) /\ clock >= DeadlineOf(s, r, clock)
    <2>1. Remaining(s, r, clock) = Denied(started, "PROCESSING_TIMEOUT")
      BY <1>5, <1>8 DEF Remaining, started
    <2>2. IsReply(started, Denied(started, "PROCESSING_TIMEOUT"))
          /\ Denied(started, "PROCESSING_TIMEOUT").code # "ok"
      BY <1>1, <1>3, <1>8, DeniedIs
    <2>3. Later(s, Denied(started, "PROCESSING_TIMEOUT").ses)
      BY <1>3, <1>8, <2>2 DEF IsReply, Later
    <2> QED BY <2>1, <2>2, <2>3 DEF IsReply
  <1>9. CASE s.event = None /\ ~(clock < s.last) /\ ~(clock >= DeadlineOf(s, r, clock))
    <2>1. Remaining(s, r, clock) = Reply(started, "ok")
      BY <1>5, <1>9 DEF Remaining, started
    <2>2. Limit["processing_time_ms"] \in Nat /\ Limit[r] \in Nat
      BY LimitFacts
    <2>3. DeadlineOf(s, r, clock) \in Nat
      BY DeadlineIs
    <2>4. DeadlineOf(s, r, clock) <= s.start + Limit["processing_time_ms"]
      BY <1>2, <1>5, <2>2 DEF DeadlineOf
    <2>5. clock < s.start + Limit["processing_time_ms"]
      BY <1>5, <1>9, <2>2, <2>3, <2>4
    <2> QED BY <1>3, <1>4, <1>9, <2>1, <2>5 DEF Reply, IsReply, Honest
  <1> QED BY <1>6, <1>7, <1>8, <1>9

(* What a reservation takes: all of it or nothing. *)
Pays(s, t, calls, tokens) ==
    /\ Within(t) /\ t.start = s.start
    /\ s.event # None => t.event = s.event
    /\ t.counts["llm_calls"] = s.counts["llm_calls"] + calls
    /\ t.counts["llm_tokens"] = s.counts["llm_tokens"] + tokens

(* Reserving nothing is paying nothing. *)
LEMMA LaterPays ==
    ASSUME NEW s, NEW t, Later(s, t), Within(s)
    PROVE  Pays(s, t, 0, 0)
  BY DEF Later, Pays, Within, SecuritySessionSet, CountedResource

(* A call and its tokens are reserved together. *)
LEMMA ReservedLLMIs ==
    ASSUME NEW s, Within(s), NEW tokens \in Nat, NEW clock \in Nat
    PROVE  LET all == ReservedLLM(s, tokens, clock)
           IN  /\ all.code # "ok" => IsReply(s, all)
               /\ all.code = "ok" => Pays(s, all.ses, 1, tokens) /\ all.ses.event = None
  <1> DEFINE time  == Remaining(s, "llm_time_ms", clock)
             call  == Checked(time.ses, "llm_calls", s.counts["llm_calls"] + 1)
             token == Checked(time.ses, "llm_tokens", s.counts["llm_tokens"] + tokens)
             paid  == [time.ses EXCEPT !.counts["llm_calls"] = @ + 1, !.counts["llm_tokens"] = @ + tokens]
  <1>1. IsReply(s, time)
    BY LimitFacts, RemainingIs
  <1>2. Within(time.ses) /\ Later(s, time.ses)
    BY <1>1 DEF IsReply, Later
  <1>3. /\ IsReply(time.ses, call)
        /\ call.code = "ok" => call.ses = time.ses /\ ~(s.counts["llm_calls"] + 1 > Limit["llm_calls"])
    BY <1>2, CheckedIs
  <1>4. /\ IsReply(time.ses, token)
        /\ token.code = "ok" => token.ses = time.ses /\ ~(s.counts["llm_tokens"] + tokens > Limit["llm_tokens"])
    BY <1>2, CheckedIs
  <1>5. IsReply(s, call) /\ IsReply(s, token)
    BY <1>2, <1>3, <1>4 DEF IsReply, Later
  <1>6. ReservedLLM(s, tokens, clock) =
            IF time.code # "ok" THEN time
            ELSE IF call.code # "ok" THEN call
            ELSE IF token.code # "ok" THEN token
            ELSE Reply(paid, "ok")
    BY DEF ReservedLLM
  <1>7. ASSUME time.code = "ok", call.code = "ok", token.code = "ok"
        PROVE  Pays(s, paid, 1, tokens) /\ paid.event = None
    <2>1. time.ses \in SecuritySessionSet /\ time.ses.counts = s.counts /\ time.ses.start = s.start
          /\ time.ses.event = None
      BY <1>1, <1>2, <1>7 DEF IsReply, Honest, Later, Within
    <2>2. s.counts \in [CountedResource -> Nat]
      BY DEF Within, SecuritySessionSet
    <2>3. /\ s.counts["llm_calls"] + 1 <= Limit["llm_calls"]
          /\ s.counts["llm_tokens"] + tokens <= Limit["llm_tokens"]
          /\ s.counts["db_queries"] <= Limit["db_queries"]
      BY <1>3, <1>4, <1>7, <2>2, LimitFacts DEF Within
    <2> HIDE DEF time
    <2> DEFINE books == [s.counts EXCEPT !["llm_calls"] = @ + 1, !["llm_tokens"] = @ + tokens]
    <2>a. books \in [CountedResource -> Nat]
      BY <2>2, LimitFacts
    <2>b. paid = [time.ses EXCEPT !.counts = books]
      BY <2>1 DEF SecuritySessionSet
    <2> HIDE DEF books
    <2>4. paid \in SecuritySessionSet
      BY <2>1, <2>a, <2>b DEF SecuritySessionSet
    <2> USE DEF books
    <2>5. /\ paid.counts["llm_calls"] = s.counts["llm_calls"] + 1
          /\ paid.counts["llm_tokens"] = s.counts["llm_tokens"] + tokens
          /\ paid.counts["db_queries"] = s.counts["db_queries"]
          /\ paid.start = s.start /\ paid.event = None
      BY <2>1, <2>2, LimitFacts DEF SecuritySessionSet
    <2> HIDE DEF paid
    <2>6. Within(paid)
      BY <2>3, <2>4, <2>5, LimitFacts DEF Within
    <2>7. s.event = None
      BY <1>2, <2>1 DEF Later
    <2> QED BY <2>5, <2>6, <2>7 DEF Pays
  <1> HIDE DEF time, call, token, paid
  <1> QED BY <1>1, <1>5, <1>6, <1>7 DEF Reply

(* A query is counted before it is made. *)
LEMMA QueryIs ==
    ASSUME NEW s, Within(s)
    PROVE  /\ Within(Reserved(s, "db_queries", 1).ses)
           /\ Pays(s, Reserved(s, "db_queries", 1).ses, 0, 0)
  <1> DEFINE value == s.counts["db_queries"] + 1
             check == Checked(s, "db_queries", value)
             paid == [s EXCEPT !.counts["db_queries"] = value]
  <1>1. /\ IsReply(s, check)
        /\ check.code = "ok" => check.ses = s /\ ~(value > Limit["db_queries"])
    BY CheckedIs
  <1>2. Reserved(s, "db_queries", 1) = IF check.code = "ok" THEN Reply(paid, "ok") ELSE check
    BY DEF Reserved
  <1>3. s.counts \in [CountedResource -> Nat] /\ s \in SecuritySessionSet
    BY DEF Within, SecuritySessionSet
  <1>4. ASSUME check.code = "ok" PROVE Pays(s, paid, 0, 0)
    <2>1. value <= Limit["db_queries"] /\ value \in Nat
      BY <1>1, <1>3, <1>4, LimitFacts
    <2>2. paid \in SecuritySessionSet
      BY <1>3, <2>1, LimitFacts DEF SecuritySessionSet
    <2>3. /\ paid.counts["llm_calls"] = s.counts["llm_calls"]
          /\ paid.counts["llm_tokens"] = s.counts["llm_tokens"]
          /\ paid.counts["db_queries"] = value
          /\ paid.start = s.start /\ paid.event = s.event
      BY <1>3, LimitFacts DEF SecuritySessionSet
    <2> HIDE DEF paid, value
    <2> QED BY <1>3, <2>1, <2>2, <2>3, LimitFacts DEF Pays, Within
  <1>5. Pays(s, check.ses, 0, 0)
    BY <1>1, LaterPays DEF IsReply
  <1> HIDE DEF check, paid
  <1> QED BY <1>2, <1>4, <1>5 DEF Reply, Pays

-----------------------------
(* How an await ends. *)

(* What a task was told is the verdict of the run, or its own error that    *)
(* became the verdict.                                                      *)
Told(code, event) ==
    code # "ok" =>
        /\ event # None
        /\ \/ code \in {event.code, "SECURITY_RUN_CLOSED", "cancelled"}
           \/ code \in LLMErrorCodes /\ event.code = "SECURITY_OPERATION_FAILED"

Closes(s, reply) == Later(s, reply.ses) /\ Told(reply.code, reply.ses.event)

(* What a method of the session says is a verdict. *)
LEMMA RepliesTell ==
    ASSUME NEW s, NEW reply, IsReply(s, reply)
    PROVE  Closes(s, reply)
  BY DEF IsReply, Honest, Closes, Told

(* An answer counts only while the run is open and within its time. *)
LEMMA AfterAnswerIs ==
    ASSUME NEW s, Within(s), NEW r \in TimedResource, NEW clock \in Nat
    PROVE  LET end == AfterAnswer(s, r, clock)
           IN  /\ Closes(s, end)
               /\ end.code = "ok" => /\ end.ses.event = None
                                     /\ clock < s.start + Limit["processing_time_ms"]
  <1> DEFINE again == Remaining(s, r, clock)
  <1>1. /\ IsReply(s, again)
        /\ again.code = "ok" => clock < s.start + Limit["processing_time_ms"]
    BY RemainingIs
  <1>2. AfterAnswer(s, r, clock) = IF again.code = "ok" THEN again ELSE Reply(again.ses, again.ses.event.code)
    BY DEF AfterAnswer
  <1>3. again.code # "ok" => again.ses.event.code # "ok"
    <2>1. \A event \in ResourceEvent : event.code # "ok"
      BY DEF ResourceEvent, ResourceErrorCode
    <2>2. again.ses.event \in ResourceEvent \cup {None}
      BY <1>1 DEF IsReply, Later, Within, SecuritySessionSet
    <2> HIDE DEF again
    <2> QED BY <1>1, <2>1, <2>2 DEF IsReply, Honest
  <1> HIDE DEF again
  <1> QED BY <1>1, <1>2, <1>3 DEF IsReply, Honest, Closes, Told, Reply

(* A timeout closes the run, or finds it closed. *)
LEMMA AfterTimeoutIs ==
    ASSUME NEW s, Within(s), NEW r \in TimedResource, NEW clock \in Nat
    PROVE  Closes(s, AfterTimeout(s, r, clock)) /\ AfterTimeout(s, r, clock).code # "ok"
  <1> DEFINE again == Remaining(s, r, clock)
             over == Denied(again.ses, "PROCESSING_TIMEOUT")
  <1>1. IsReply(s, again)
    BY RemainingIs
  <1>2. AfterTimeout(s, r, clock) = IF again.code = "ok" THEN over ELSE again
    BY DEF AfterTimeout
  <1>3. "PROCESSING_TIMEOUT" \in ResourceErrorCode /\ Within(again.ses)
    BY <1>1 DEF ResourceErrorCode, IsReply, Later
  <1>4. /\ Later(again.ses, over.ses) /\ over.code # "ok"
        /\ again.ses.event = None => IsReply(again.ses, over)
    BY <1>3, DeniedIs
  <1> HIDE DEF again, over
  <1>5. again.code = "ok" => IsReply(s, over)
    BY <1>1, <1>4 DEF IsReply, Honest, Later
  <1> QED BY <1>1, <1>2, <1>4, <1>5, RepliesTell

(* So does a cancellation. *)
LEMMA AfterCancelIs ==
    ASSUME NEW s, Within(s)
    PROVE  Closes(s, AfterCancel(s)) /\ AfterCancel(s).code # "ok"
  <1>1. "SECURITY_OPERATION_CANCELLED" \in ResourceErrorCode
    BY DEF ResourceErrorCode
  <1>2. /\ Later(s, Recorded(s, "SECURITY_OPERATION_CANCELLED"))
        /\ Recorded(s, "SECURITY_OPERATION_CANCELLED").event # None
    BY <1>1, RecordedIs
  <1> QED BY <1>2 DEF AfterCancel, Reply, Closes, Told

(* Which error it was does not matter for the books; for the verdict it is  *)
(* one of the LLM codes unless the run was closed before.                   *)
LEMMA AfterErrorIs ==
    ASSUME NEW s, Within(s), NEW code
    PROVE  /\ Later(s, AfterError(s, code).ses)
           /\ (s.event = None => code \in LLMErrorCodes) =>
                 Closes(s, AfterError(s, code)) /\ AfterError(s, code).code # "ok"
  <1>1. {"SECURITY_LIMIT_EXCEEDED", "PROCESSING_TIMEOUT", "SECURITY_INPUT_REJECTED",
         "SECURITY_OPERATION_FAILED"} \subseteq ResourceErrorCode
    BY DEF ResourceErrorCode
  <1>2. CASE s.event # None
    <2>1. AfterError(s, code) = Reply(s, s.event.code)
      BY <1>2 DEF AfterError
    <2>2. s.event.code # "ok"
      BY <1>2 DEF Within, SecuritySessionSet, ResourceEvent, ResourceErrorCode
    <2> QED BY <1>2, <2>1, <2>2 DEF Reply, Closes, Later, Told, Within
  <1>3. CASE s.event = None /\ AfterError(s, code) \in
                {Denied(s, "SECURITY_LIMIT_EXCEEDED"), Denied(s, "PROCESSING_TIMEOUT"),
                 Denied(s, "SECURITY_INPUT_REJECTED")}
    <2>1. \A known \in ResourceErrorCode : Later(s, Denied(s, known).ses) /\ IsReply(s, Denied(s, known))
                                           /\ Denied(s, known).code # "ok"
      BY <1>3, DeniedIs
    <2>2. IsReply(s, AfterError(s, code)) /\ AfterError(s, code).code # "ok"
      BY <1>1, <1>3, <2>1
    <2> QED BY <2>2, RepliesTell DEF IsReply
  <1>4. CASE s.event = None /\ AfterError(s, code) =
                Reply(Recorded(s, "SECURITY_OPERATION_FAILED"), code)
    <2>1. /\ Later(s, Recorded(s, "SECURITY_OPERATION_FAILED"))
          /\ Recorded(s, "SECURITY_OPERATION_FAILED").event # None
          /\ Recorded(s, "SECURITY_OPERATION_FAILED").event.code = "SECURITY_OPERATION_FAILED"
      BY <1>1, <1>4, RecordedIs
    <2>2. code \in LLMErrorCodes => code # "ok"
      BY DEF LLMErrorCodes
    <2> QED BY <1>4, <2>1, <2>2 DEF Reply, Closes, Told
  <1>5. s.event = None =>
            AfterError(s, code) \in
                {Denied(s, "SECURITY_LIMIT_EXCEEDED"), Denied(s, "PROCESSING_TIMEOUT"),
                 Denied(s, "SECURITY_INPUT_REJECTED"),
                 Reply(Recorded(s, "SECURITY_OPERATION_FAILED"), code)}
    <2> SUFFICES ASSUME s.event = None
                 PROVE  AfterError(s, code) \in
                          {Denied(s, "SECURITY_LIMIT_EXCEEDED"), Denied(s, "PROCESSING_TIMEOUT"),
                           Denied(s, "SECURITY_INPUT_REJECTED"),
                           Reply(Recorded(s, "SECURITY_OPERATION_FAILED"), code)}
      OBVIOUS
    <2>1. CASE code \in {"SECURITY_LIMIT_EXCEEDED", "LLM_BUDGET_EXCEEDED"}
      <3>1. code \notin {"PROCESSING_TIMEOUT", "LLM_TIMEOUT"} /\ code \notin RefusalCodes
        BY <2>1 DEF RefusalCodes, ResourceErrorCode
      <3> QED BY <2>1, <3>1 DEF AfterError
    <2>2. CASE code \in {"PROCESSING_TIMEOUT", "LLM_TIMEOUT"}
      <3>1. code \notin {"SECURITY_LIMIT_EXCEEDED", "LLM_BUDGET_EXCEEDED"} /\ code \notin RefusalCodes
        BY <2>2 DEF RefusalCodes, ResourceErrorCode
      <3> QED BY <2>2, <3>1 DEF AfterError
    <2>3. CASE code \in RefusalCodes
      <3>1. /\ code \notin {"SECURITY_LIMIT_EXCEEDED", "LLM_BUDGET_EXCEEDED"}
            /\ code \notin {"PROCESSING_TIMEOUT", "LLM_TIMEOUT"}
        BY <2>3 DEF RefusalCodes, ResourceErrorCode
      <3> QED BY <2>3, <3>1 DEF AfterError
    <2>4. CASE /\ code \notin {"SECURITY_LIMIT_EXCEEDED", "LLM_BUDGET_EXCEEDED"}
               /\ code \notin {"PROCESSING_TIMEOUT", "LLM_TIMEOUT"}
               /\ code \notin RefusalCodes
      BY <2>4 DEF AfterError
    <2> QED BY <2>1, <2>2, <2>3, <2>4
  <1> QED BY <1>2, <1>3, <1>4, <1>5

-----------------------------
(* The books of one adapter: what it counts and reserves, what its records  *)
(* say, and the request in flight, if it is busy with one.                  *)

Flight ==
    [deployment : Deployments, request : LLMRequest, sent : Environments,
     previous : LLMErrorCodes \cup {None}, reserved : Nat]

Adapter ==
    [start : {0}, busy : BOOLEAN, reserved : Nat, count : Nat, calls : Seq(LLMCallRecord)]

(* A request may go to where it was sent. *)
MayGo(pol, a, r) ==
    IF a = "run" THEN SecurityRouteAllows(r.request, [RunCapabilities EXCEPT !.environment = r.sent])
    ELSE \E i \in DOMAIN pol.routes :
            LET route == pol.routes[i]
                there == [route.capabilities EXCEPT !.environment = r.sent]
            IN  /\ route.deployment = r.deployment
                /\ SecurityRouteAllows(r.request, there)
                /\ PolicyAllows(pol, [route EXCEPT !.capabilities = there], r.request)

(* An attempt after the first n falls back from the last of them. *)
Follows(pol, calls, n, deployment, request, previous) ==
    previous # None =>
        /\ n > 0 /\ calls[n].error_code = previous
        /\ previous \in Transient /\ pol.mode # "fixed"
        /\ calls[n].request = request /\ calls[n].deployment # deployment

RecordRight(pol, a, calls, i) ==
    /\ RecordFits(calls[i]) /\ MayGo(pol, a, calls[i])
    /\ Follows(pol, calls, i - 1, calls[i].deployment, calls[i].request, calls[i].fallback_reason)

FlightRight(pol, a, calls, at, todo) ==
    /\ at \in Flight /\ MayGo(pol, a, at)
    /\ Follows(pol, calls, Len(calls), at.deployment, at.request, at.previous)
    /\ a = "router" =>
          /\ todo # {} /\ todo \subseteq Candidates(pol, at.request)
          /\ at.deployment = pol.routes[NextRoute(pol, todo)].deployment

Books(pol, a, rec, at, todo) ==
    /\ rec \in Adapter
    /\ rec.count = Len(rec.calls) + (IF rec.busy THEN 1 ELSE 0)
    /\ rec.reserved = SumReserved(rec.calls) + (IF rec.busy THEN at.reserved ELSE 0)
    /\ rec.count <= pol.max_calls /\ rec.reserved <= pol.max_tokens
    /\ \A i \in 1..Len(rec.calls) : RecordRight(pol, a, rec.calls, i)
    /\ rec.busy => FlightRight(pol, a, rec.calls, at, todo)

(* An adapter that is not busy has nothing in flight. *)
LEMMA FreeBooks ==
    ASSUME NEW pol, NEW a, NEW rec, NEW at, NEW todo, NEW other, NEW others,
           Books(pol, a, rec, at, todo), ~rec.busy
    PROVE  Books(pol, a, rec, other, others)
  BY DEF Books

(* How an attempt may end: an answer in order leaves no error. *)
Outcome(answered, error) ==
    /\ answered \in BOOLEAN /\ error \in LLMErrorCodes \cup {None}
    /\ answered => error = None

Settles(pol, a, rec, noted, last) ==
    /\ Books(pol, a, noted, None, {}) /\ noted.busy = FALSE
    /\ noted.count = rec.count /\ noted.reserved = rec.reserved
    /\ noted.calls = Append(rec.calls, last)

(* The record of an attempt is all that was known of it while it was in     *)
(* flight, and takes the place of what was in flight in every sum.          *)
LEMMA NotedBooks ==
    ASSUME NEW pol, NEW a, NEW rec, NEW at, NEW todo,
           Books(pol, a, rec, at, todo), rec.busy,
           NEW answered, NEW error, Outcome(answered, error)
    PROVE  Settles(pol, a, rec, Noted(rec, at, answered, error), CallRecord(at, answered, error))
  <1> DEFINE last == CallRecord(at, answered, error)
             noted == Noted(rec, at, answered, error)
             n == Len(rec.calls)
  <1>1. rec \in Adapter /\ at \in Flight
    BY DEF Books, FlightRight
  <1>2. /\ last \in LLMCallRecord /\ RecordFits(last)
        /\ last.deployment = at.deployment /\ last.request = at.request /\ last.sent = at.sent
        /\ last.fallback_reason = at.previous /\ last.reserved = at.reserved
    BY <1>1 DEF CallRecord, LLMCallRecord, Flight, RecordFits, Outcome
  <1>a. noted = [rec EXCEPT !.busy = FALSE, !.calls = Append(@, last)]
    BY DEF Noted
  <1> HIDE DEF last, noted
  <1>b. Append(rec.calls, last) \in Seq(LLMCallRecord)
    BY <1>1, <1>2 DEF Adapter
  <1>3. /\ noted \in Adapter /\ noted.busy = FALSE /\ noted.calls = Append(rec.calls, last)
        /\ noted.count = rec.count /\ noted.reserved = rec.reserved
    BY <1>1, <1>a, <1>b DEF Adapter
  <1>4. /\ n \in Nat /\ Len(noted.calls) = n + 1 /\ noted.calls[n + 1] = last
        /\ \A i \in 1..n : noted.calls[i] = rec.calls[i]
    BY <1>1, <1>2, <1>3 DEF Adapter
  <1>5. SumReserved(noted.calls) = SumReserved(rec.calls) + at.reserved
    BY <1>1, <1>2, <1>3, SumOfMore DEF Adapter
  <1>6. SumReserved(rec.calls) \in Nat /\ at.reserved \in Nat
    BY <1>1, <1>2, SumOfMore DEF Adapter, Flight
  <1>7. ASSUME NEW i \in 1..n PROVE RecordRight(pol, a, noted.calls, i)
    <2>1. RecordRight(pol, a, rec.calls, i)
      BY DEF Books
    <2>2. i - 1 = 0 \/ i - 1 \in 1..n
      BY <1>4
    <2>3. noted.calls[i] = rec.calls[i] /\ (i - 1 # 0 => noted.calls[i - 1] = rec.calls[i - 1])
      BY <1>4, <2>2
    <2> QED BY <1>4, <2>1, <2>2, <2>3 DEF RecordRight, Follows
  <1>8. RecordRight(pol, a, noted.calls, n + 1)
    <2>1. MayGo(pol, a, at) /\ Follows(pol, rec.calls, n, at.deployment, at.request, at.previous)
      BY DEF Books, FlightRight
    <2>2. MayGo(pol, a, last)
      BY <1>2, <2>1 DEF MayGo
    <2>3. Follows(pol, noted.calls, n, last.deployment, last.request, last.fallback_reason)
      BY <1>2, <1>4, <2>1 DEF Follows
    <2> QED BY <1>2, <1>4, <2>2, <2>3 DEF RecordRight
  <1>9. \A i \in 1..Len(noted.calls) : RecordRight(pol, a, noted.calls, i)
    BY <1>4, <1>7, <1>8
  <1>10. /\ noted.count = Len(noted.calls) + 0 /\ noted.reserved = SumReserved(noted.calls) + 0
         /\ noted.count <= pol.max_calls /\ noted.reserved <= pol.max_tokens
    BY <1>3, <1>4, <1>5, <1>6 DEF Books
  <1>11. Books(pol, a, noted, None, {})
    BY <1>3, <1>9, <1>10 DEF Books
  <1>12. Settles(pol, a, rec, noted, last)
    BY <1>3, <1>11 DEF Settles
  <1> QED BY <1>12 DEF last, noted

(* An adapter that was asked either waits for a provider, and has paid for  *)
(* it, or is as it was.                                                     *)
Tried(s, pol, a, rec, todo, try) ==
    IF try.verdict = "wait"
      THEN /\ ~rec.busy /\ try.ad.busy /\ Books(pol, a, try.ad, try.at, todo)
           /\ Pays(s, try.ses, try.ad.count - rec.count, try.ad.reserved - rec.reserved)
      ELSE /\ try.ad = rec /\ Later(s, try.ses)
           /\ try.ses.event = None => try.verdict \in LLMErrorCodes

(* The codes that need telling apart. *)
LEMMA NotWaiting ==
    /\ "wait" \notin LLMErrorCodes \cup ResourceErrorCode
    /\ "ok" \notin LLMErrorCodes \cup ResourceErrorCode
    /\ {"LLM_BUDGET_EXCEEDED", "LLM_POLICY_DENIED", "LLM_CAPABILITY_MISMATCH", "LLM_TIMEOUT",
        "LLM_INVALID_RESPONSE", "LLM_CONTEXT_LIMIT"} \cup Transient \subseteq LLMErrorCodes
  BY DEF LLMErrorCodes, ResourceErrorCode, Transient

(* What the contracts say of the policy of a run. *)
LEMMA PolicyFacts ==
    ASSUME setup \in Setups
    PROVE  /\ policy \in LLMRoutingPolicy /\ PolicyFits(policy) /\ setup.requests \subseteq LLMRequest
           /\ \A i, j \in DOMAIN policy.routes :
                 i # j => policy.routes[i].deployment # policy.routes[j].deployment
  BY GuardedAssumption DEF policy

(* A refusal before or during the reservation. *)
LEMMA RefusedTry ==
    ASSUME NEW s, NEW pol, NEW a, NEW rec, rec \in Adapter, ~rec.busy, NEW todo,
           NEW t, NEW code, Later(s, t), code # "wait",
           t.event = None => code \in LLMErrorCodes
    PROVE  Tried(s, pol, a, rec, todo, Refuse(t, rec, code))
  <1>1. [rec EXCEPT !.busy = FALSE] = rec
    BY DEF Adapter
  <1> QED BY <1>1 DEF Tried, Refuse, Try

(* An error of the session comes from its event. *)
LEMMA HonestCode ==
    ASSUME NEW s, NEW reply, IsReply(s, reply), reply.code # "ok"
    PROVE  reply.code # "wait" /\ reply.ses.event # None /\ Later(s, reply.ses)
  <1>1. reply.ses.event \in ResourceEvent
    BY DEF IsReply, Later, Within, SecuritySessionSet, Honest
  <1>2. reply.ses.event.code \in ResourceErrorCode
    BY <1>1 DEF ResourceEvent
  <1> QED BY <1>2, NotWaiting DEF IsReply, Honest

(* An attempt is reserved in both books or in none. *)
LEMMA ReserveIs ==
    ASSUME setup \in Setups, now \in Nat,
           NEW s, Within(s), NEW a, NEW rec, NEW at, NEW todo, NEW others,
           Books(policy, a, rec, at, others), ~rec.busy,
           NEW d, NEW caps, NEW req, NEW previous, Allowance(caps) \in Nat,
           FlightRight(policy, a, rec.calls, InFlight(d, req, previous, Allowance(caps)), todo)
    PROVE  Tried(s, policy, a, rec, todo, Reserve(s, rec, d, caps, req, previous))
  <1> DEFINE cost == Allowance(caps)
             time == Remaining(s, "llm_time_ms", now)
             all  == ReservedLLM(time.ses, cost, now)
             try  == Reserve(s, rec, d, caps, req, previous)
             paid == Charged(rec, cost)
             flight == InFlight(d, req, previous, cost)
  <1>1. rec \in Adapter /\ policy \in LLMRoutingPolicy
    BY PolicyFacts DEF Books
  <1>2. IsReply(s, time)
    BY LimitFacts, RemainingIs
  <1>3. Within(time.ses) /\ Later(s, time.ses)
    BY <1>2 DEF IsReply, Later
  <1>4. /\ all.code # "ok" => IsReply(time.ses, all)
        /\ all.code = "ok" => Pays(time.ses, all.ses, 1, cost) /\ all.ses.event = None
    BY <1>3, ReservedLLMIs
  <1>5. try = CASE OverBudget(rec, cost) -> Refuse(s, rec, "LLM_BUDGET_EXCEEDED")
          [] ~OverBudget(rec, cost) /\ time.code # "ok" -> Refuse(time.ses, rec, time.code)
          [] ~OverBudget(rec, cost) /\ time.code = "ok" /\ now >= rec.start + policy.max_time ->
                Refuse(time.ses, rec, "LLM_BUDGET_EXCEEDED")
          [] OTHER -> IF all.code # "ok" THEN Refuse(all.ses, rec, all.code)
                      ELSE Try(all.ses, paid, "wait", flight)
    BY DEF Reserve
  <1>6. "LLM_BUDGET_EXCEEDED" \in LLMErrorCodes /\ "LLM_BUDGET_EXCEEDED" # "wait"
    BY DEF LLMErrorCodes
  <1> HIDE DEF time, all, try, cost, flight
  <1>7. CASE OverBudget(rec, cost)
    <2>1. Later(s, s)
      BY DEF Later
    <2> QED BY <1>1, <1>5, <1>6, <1>7, <2>1, RefusedTry DEF try
  <1>8. CASE ~OverBudget(rec, cost) /\ time.code # "ok"
    <2>1. time.code # "wait" /\ time.ses.event # None
      BY <1>2, <1>8, HonestCode
    <2> QED BY <1>1, <1>3, <1>5, <1>8, <2>1, RefusedTry DEF try
  <1>9. CASE ~OverBudget(rec, cost) /\ time.code = "ok" /\ now >= rec.start + policy.max_time
    BY <1>1, <1>3, <1>5, <1>6, <1>9, RefusedTry DEF try
  <1>10. CASE ~OverBudget(rec, cost) /\ time.code = "ok" /\ ~(now >= rec.start + policy.max_time)
    <2>1. CASE all.code # "ok"
      <3>1. IsReply(time.ses, all)
        BY <1>4, <2>1
      <3>2. all.code # "wait" /\ all.ses.event # None /\ Later(time.ses, all.ses)
        BY <2>1, <3>1, HonestCode
      <3>3. Later(s, all.ses)
        BY <1>3, <3>2 DEF Later
      <3>4. try = Refuse(all.ses, rec, all.code)
        BY <1>5, <1>10, <2>1
      <3> QED BY <1>1, <3>2, <3>3, <3>4, RefusedTry DEF try
    <2>2. CASE all.code = "ok"
      <3>1. try = Try(all.ses, paid, "wait", flight)
        BY <1>5, <1>10, <2>2
      <3>2. Pays(s, all.ses, 1, cost)
        BY <1>3, <1>4, <2>2 DEF Pays, Later
      <3>3. cost \in Nat /\ policy.max_calls \in Nat /\ policy.max_tokens \in Nat
        BY <1>1 DEF LLMRoutingPolicy, cost
      <3>4. /\ paid \in Adapter /\ paid.busy = TRUE /\ paid.calls = rec.calls
            /\ paid.count = rec.count + 1 /\ paid.reserved = rec.reserved + cost
        <4>1. rec.count + 1 \in Nat /\ rec.reserved + cost \in Nat
          BY <1>1, <3>3 DEF Adapter
        <4>2. paid = [rec EXCEPT !.busy = TRUE, !.count = rec.count + 1, !.reserved = rec.reserved + cost]
          BY <1>1 DEF Charged, Adapter
        <4> HIDE DEF paid
        <4> QED BY <1>1, <4>1, <4>2 DEF Adapter
      <3>5. rec.count < policy.max_calls /\ rec.reserved + cost <= policy.max_tokens
        BY <1>1, <1>10, <3>3 DEF OverBudget, Adapter
      <3>6. flight.reserved = cost /\ FlightRight(policy, a, rec.calls, flight, todo)
        BY DEF InFlight, flight, cost
      <3> HIDE DEF paid
      <3>7. rec.count \in Nat /\ rec.reserved \in Nat /\ Len(rec.calls) \in Nat /\ SumReserved(rec.calls) \in Nat
        <4>1. rec.calls \in Seq(LLMCallRecord)
          BY <1>1 DEF Adapter
        <4>2. \E sum : IsSumOf(sum, rec.calls, Len(rec.calls)) /\ SumReserved(rec.calls) = sum[Len(rec.calls)]
          BY <4>1, SumIs
        <4>3. Len(rec.calls) \in Nat
          BY <4>1
        <4>4. SumReserved(rec.calls) \in Nat
          BY <4>2, <4>3 DEF IsSumOf
        <4> QED BY <1>1, <4>3, <4>4 DEF Adapter
      <3>8. rec.count = Len(rec.calls) /\ rec.reserved = SumReserved(rec.calls)
        BY <3>7 DEF Books
      <3>a. \A i \in 1..Len(paid.calls) : RecordRight(policy, a, paid.calls, i)
        BY <3>4 DEF Books
      <3>b. /\ paid.count = Len(paid.calls) + 1 /\ paid.reserved = SumReserved(paid.calls) + flight.reserved
            /\ paid.count <= policy.max_calls /\ paid.reserved <= policy.max_tokens
        BY <3>3, <3>4, <3>5, <3>6, <3>7, <3>8
      <3>c. FlightRight(policy, a, paid.calls, flight, todo)
        BY <3>4, <3>6
      <3>9. Books(policy, a, paid, flight, todo)
        BY <3>4, <3>a, <3>b, <3>c DEF Books
      <3>10. paid.count - rec.count = 1 /\ paid.reserved - rec.reserved = cost
        BY <3>3, <3>4, <3>7
      <3>11. Tried(s, policy, a, rec, todo, Try(all.ses, paid, "wait", flight))
        BY <3>2, <3>4, <3>9, <3>10 DEF Tried, Try
      <3> QED BY <3>1, <3>11 DEF try
    <2> QED BY <2>1, <2>2
  <1> QED BY <1>7, <1>8, <1>9, <1>10

(* A candidate may be asked: it is a route of the policy, its allowance is  *)
(* known, and the request may go to where it is approved to be.             *)
LEMMA CandidateIs ==
    ASSUME setup \in Setups, NEW req, NEW i \in Candidates(policy, req)
    PROVE  LET route == policy.routes[i]
           IN  /\ i \in DOMAIN policy.routes /\ i \in Nat
               /\ route.deployment \in Deployments /\ route.capabilities \in ProviderCapabilities
               /\ Allowance(route.capabilities) \in Nat
               /\ SecurityRouteAllows(req, route.capabilities) /\ PolicyAllows(policy, route, req)
  <1> DEFINE route == policy.routes[i]
  <1>1. policy.routes \in Seq(LLMRoutePolicy)
    BY PolicyFacts DEF LLMRoutingPolicy
  <1>2. /\ i \in DOMAIN policy.routes /\ KnownLimits(route.capabilities)
        /\ SecurityRouteAllows(req, route.capabilities) /\ PolicyAllows(policy, route, req)
    BY DEF Candidates, Permitted
  <1>3. i \in Nat /\ route \in LLMRoutePolicy
    BY <1>1, <1>2
  <1>4. route.deployment \in Deployments /\ route.capabilities \in ProviderCapabilities
    BY <1>3 DEF LLMRoutePolicy
  <1> HIDE DEF route
  <1>5. Allowance(route.capabilities) \in Nat
    BY <1>2, <1>4 DEF Allowance, KnownLimits, ProviderCapabilities, TokenLimit
  <1> USE DEF route
  <1> QED BY <1>2, <1>3, <1>4, <1>5

(* The next candidate is asked only as it was approved. *)
LEMMA TryRouteIs ==
    ASSUME setup \in Setups, now \in Nat,
           NEW s, Within(s), NEW rec, NEW at, NEW others,
           Books(policy, "router", rec, at, others), ~rec.busy,
           NEW req \in LLMRequest, NEW todo, todo # {}, todo \subseteq Candidates(policy, req),
           NEW previous \in LLMErrorCodes \cup {None},
           Follows(policy, rec.calls, Len(rec.calls),
                   policy.routes[NextRoute(policy, todo)].deployment, req, previous)
    PROVE  Tried(s, policy, "router", rec, todo, TryRoute(s, rec, req, todo, previous))
  <1> DEFINE i == NextRoute(policy, todo)
             route == policy.routes[i]
             caps == route.capabilities
             d == route.deployment
             flight == InFlight(d, req, previous, Allowance(caps))
  <1>1. todo \in SUBSET Nat
    BY CandidateIs
  <1>2. i \in todo
    BY <1>1, NextIsOne
  <1>3. /\ i \in DOMAIN policy.routes /\ d \in Deployments /\ caps \in ProviderCapabilities
        /\ Allowance(caps) \in Nat /\ SecurityRouteAllows(req, caps) /\ PolicyAllows(policy, route, req)
    BY <1>2, CandidateIs
  <1>4. rec \in Adapter
    BY DEF Books
  <1>5. CASE AsApproved(d, caps)
    <2>1. prov[d] = caps
      BY <1>5 DEF AsApproved
    <2>2. /\ flight.sent = caps.environment /\ flight.deployment = d /\ flight.request = req
          /\ flight.previous = previous /\ flight.reserved = Allowance(caps)
      BY <2>1 DEF InFlight
    <2>3. flight \in Flight
      BY <1>3, <2>1 DEF InFlight, Flight, ProviderCapabilities
    <2>4. MayGo(policy, "router", flight)
      <3>1. policy.routes \in Seq(LLMRoutePolicy)
        BY PolicyFacts DEF LLMRoutingPolicy
      <3>2. route \in LLMRoutePolicy
        BY <1>3, <3>1
      <3>3. [caps EXCEPT !.environment = caps.environment] = caps
        BY <1>3 DEF ProviderCapabilities
      <3>4. [route EXCEPT !.capabilities = caps] = route
        BY <3>2 DEF LLMRoutePolicy
      <3>5. LET there == [policy.routes[i].capabilities EXCEPT !.environment = flight.sent]
            IN  /\ policy.routes[i].deployment = flight.deployment
                /\ SecurityRouteAllows(flight.request, there)
                /\ PolicyAllows(policy, [policy.routes[i] EXCEPT !.capabilities = there], flight.request)
        BY <1>3, <2>2, <3>3, <3>4
      <3> HIDE DEF i, flight
      <3> QED BY <1>3, <3>5 DEF MayGo
    <2>5. FlightRight(policy, "router", rec.calls, flight, todo)
      <3> HIDE DEF flight
      <3> QED BY <2>2, <2>3, <2>4 DEF FlightRight
    <2>6. TryRoute(s, rec, req, todo, previous) = Reserve(s, rec, d, caps, req, previous)
      BY <1>5 DEF TryRoute
    <2> HIDE DEF d, caps
    <2>7. Tried(s, policy, "router", rec, todo, Reserve(s, rec, d, caps, req, previous))
      BY <1>3, <2>5, ReserveIs
    <2> QED BY <2>6, <2>7
  <1>6. CASE ~AsApproved(d, caps)
    <2>1. TryRoute(s, rec, req, todo, previous) = Refuse(s, rec, "LLM_POLICY_DENIED")
      BY <1>6 DEF TryRoute
    <2>2. Later(s, s)
      BY DEF Later
    <2>3. "LLM_POLICY_DENIED" \in LLMErrorCodes /\ "LLM_POLICY_DENIED" # "wait"
      BY DEF LLMErrorCodes
    <2> QED BY <1>4, <2>1, <2>2, <2>3, RefusedTry
  <1> QED BY <1>5, <1>6

(* A refusal before anything else. *)
LEMMA EarlyTry ==
    ASSUME NEW s, Within(s), NEW pol, NEW a, NEW rec, NEW todo,
           NEW code \in LLMErrorCodes
    PROVE  Tried(s, pol, a, rec, todo, Try(s, rec, code, None))
  BY NotWaiting DEF Tried, Try, Later

(* So is the first one, by the router and by the run. *)
LEMMA GenerateIs ==
    ASSUME setup \in Setups, now \in Nat, NEW s, Within(s), NEW t, NEW req \in LLMRequest,
           NEW a, a = AdapterOf(t), NEW at, NEW others, Books(policy, a, ad[a], at, others)
    PROVE  Tried(s, policy, a, ad[a], IF a = "run" THEN {} ELSE Candidates(policy, req),
                 Generate(s, t, req))
  <1>1. CASE a = "run"
    <2> DEFINE caps == RunCapabilities
               flight == InFlight(RunDeployment, req, None, Allowance(caps))
    <2>1. Generate(s, t, req) = GenerateRun(s, ad["run"], req)
      BY <1>1 DEF Generate
    <2>2. CASE ~AsApproved(RunDeployment, caps) \/ ad["run"].busy
      <3>1. Generate(s, t, req) = Try(s, ad["run"], "LLM_POLICY_DENIED", None)
        BY <2>1, <2>2 DEF GenerateRun
      <3> QED BY <1>1, <3>1, NotWaiting, EarlyTry
    <2>3. CASE AsApproved(RunDeployment, caps) /\ ~ad["run"].busy /\ ~KnownLimits(caps)
      <3>1. Generate(s, t, req) = Try(s, ad["run"], "LLM_CAPABILITY_MISMATCH", None)
        BY <2>1, <2>3 DEF GenerateRun
      <3> QED BY <1>1, <3>1, NotWaiting, EarlyTry
    <2>4. CASE /\ AsApproved(RunDeployment, caps) /\ ~ad["run"].busy /\ KnownLimits(caps)
               /\ ~SecurityRouteAllows(req, caps)
      <3>1. Generate(s, t, req) = Try(s, ad["run"], "LLM_POLICY_DENIED", None)
        BY <2>1, <2>4 DEF GenerateRun
      <3> QED BY <1>1, <3>1, NotWaiting, EarlyTry
    <2>5. CASE /\ AsApproved(RunDeployment, caps) /\ ~ad["run"].busy /\ KnownLimits(caps)
               /\ SecurityRouteAllows(req, caps)
      <3>1. Generate(s, t, req) = Reserve(s, ad["run"], RunDeployment, caps, req, None)
        BY <2>1, <2>5 DEF GenerateRun
      <3>2. caps \in ProviderCapabilities /\ RunDeployment \in Deployments
        BY GuardedAssumption
      <3>3. Allowance(caps) \in Nat
        BY <2>5, <3>2 DEF Allowance, KnownLimits, ProviderCapabilities, TokenLimit
      <3>4. prov[RunDeployment] = caps
        BY <2>5 DEF AsApproved
      <3>5. flight \in Flight /\ flight.sent = caps.environment /\ flight.request = req /\ flight.previous = None
        BY <3>2, <3>3, <3>4 DEF InFlight, Flight, ProviderCapabilities
      <3>6. [caps EXCEPT !.environment = caps.environment] = caps
        BY <3>2 DEF ProviderCapabilities
      <3>7. MayGo(policy, "run", flight)
        BY <2>5, <3>5, <3>6 DEF MayGo
      <3>8. FlightRight(policy, "run", ad["run"].calls, flight, {})
        <4> HIDE DEF flight
        <4> QED BY <3>5, <3>7 DEF FlightRight, Follows
      <3>9. Tried(s, policy, "run", ad["run"], {}, Reserve(s, ad["run"], RunDeployment, caps, req, None))
        BY <1>1, <2>5, <3>3, <3>8, ReserveIs
      <3> QED BY <1>1, <3>1, <3>9
    <2> QED BY <2>2, <2>3, <2>4, <2>5
  <1>2. CASE a # "run"
    <2> DEFINE rec == ad["router"]
               early == RefusedBefore(policy, req, rec.busy)
               todo == Candidates(policy, req)
    <2>1. a = "router" /\ Generate(s, t, req) = GenerateRouter(s, rec, req)
      BY <1>2 DEF Generate, AdapterOf
    <2>2. CASE early # "ok"
      <3>1. early \in LLMErrorCodes
        BY <2>2, NotWaiting DEF RefusedBefore
      <3>2. Generate(s, t, req) = Try(s, rec, early, None)
        BY <2>1, <2>2 DEF GenerateRouter
      <3> QED BY <2>1, <3>1, <3>2, EarlyTry
    <2>3. CASE early = "ok"
      <3>1. ~rec.busy /\ todo # {}
        BY <2>3 DEF RefusedBefore
      <3>2. Generate(s, t, req) = TryRoute(s, rec, req, todo, None)
        BY <2>1, <2>3 DEF GenerateRouter
      <3>3. Follows(policy, rec.calls, Len(rec.calls),
                    policy.routes[NextRoute(policy, todo)].deployment, req, None)
        BY DEF Follows
      <3>4. Tried(s, policy, "router", rec, todo, TryRoute(s, rec, req, todo, None))
        BY <2>1, <3>1, <3>3, TryRouteIs
      <3> QED BY <2>1, <3>2, <3>4
    <2> QED BY <2>2, <2>3
  <1> QED BY <1>1, <1>2

-----------------------------
(* The invariant. *)

Snapshot ==
    [pc : {"idle", "reading", "done", "refused"}, got : Nat, expected : Nat \cup {None},
     kind : {"file", "stream"}, outer : Nat]

Lease ==
    [pc : {"idle", "selecting", "held", "pulling", "closed", "refused"}, batches : Nat, outer : Nat]

(* A task that waits was told nothing yet. *)
TaskPart(t) ==
    /\ task[t].pc \in {"idle", "waiting", "done"}
    /\ task[t].pc = "waiting" => task[t].code = None
    /\ task[t].pc = "done" => Told(task[t].code, ses.event)

(* A busy adapter has one task that waits for it. *)
AdapterPart(a) ==
    IF ad[a].busy
      THEN \E t \in setup.tasks : Waiting(a) = {t} /\ Books(policy, a, ad[a], task[t].at, task[t].todo)
      ELSE Waiting(a) = {} /\ Books(policy, a, ad[a], None, {})

(* What the session counts is what its adapters count. *)
SumPart ==
    /\ ses.counts["llm_calls"] = ad["router"].count + ad["run"].count
    /\ ses.counts["llm_tokens"] = ad["router"].reserved + ad["run"].reserved

UserPart == snap \in Snapshot /\ SnapshotIsWhole /\ lease \in Lease

GuardedInv ==
    /\ setup \in Setups /\ now \in Nat /\ Within(ses) /\ ses.start = 0
    /\ ad \in [{"router", "run"} -> Adapter] /\ DOMAIN task = setup.tasks
    /\ \A t \in setup.tasks : TaskPart(t)
    /\ \A a \in {"router", "run"} : AdapterPart(a)
    /\ SumPart /\ UserPart

-----------------------------
(* A step of a task changes its adapter and nothing of the other one. *)

LEMMA TwoAdapters == \A t : AdapterOf(t) \in {"router", "run"}
  BY DEF AdapterOf

(* An adapter and its books, whoever waits for it. *)
LEMMA AdapterFacts ==
    ASSUME GuardedInv, NEW a \in {"router", "run"}
    PROVE  /\ ad[a] \in Adapter /\ ad[a].count \in Nat /\ ad[a].reserved \in Nat
           /\ \E at, todo : Books(policy, a, ad[a], at, todo)
           /\ policy.max_calls \in Nat /\ policy.max_tokens \in Nat
  <1>1. AdapterPart(a) /\ ad[a] \in Adapter
    BY DEF GuardedInv
  <1>2. ad[a].count \in Nat /\ ad[a].reserved \in Nat
    BY <1>1 DEF Adapter
  <1>3. \E at, todo : Books(policy, a, ad[a], at, todo)
    BY <1>1 DEF AdapterPart
  <1>4. policy.max_calls \in Nat /\ policy.max_tokens \in Nat
    BY PolicyFacts DEF GuardedInv, LLMRoutingPolicy
  <1> QED BY <1>1, <1>2, <1>3, <1>4

(* Everybody else was told what is still the verdict. *)
LEMMA TellsOn ==
    ASSUME NEW s, NEW t, NEW code, Told(code, s.event), s.event # None => t.event = s.event
    PROVE  Told(code, t.event)
  BY DEF Told

(* What is left as it was by every step but that of a task or of time. *)
Kept == UNCHANGED <<setup, now, snap, lease>>

(* One step of a task: its adapter is free or busy with it. *)
LEMMA TurnKeeps ==
    ASSUME GuardedInv, Kept, NEW t \in setup.tasks, NEW a, a = AdapterOf(t), NEW rec, NEW x,
           ad' = [ad EXCEPT ![a] = rec], task' = [task EXCEPT ![t] = x],
           Pays(ses, ses', rec.count - ad[a].count, rec.reserved - ad[a].reserved),
           x.pc \in {"waiting", "done"}, x.pc = "waiting" => x.code = None,
           x.pc = "done" => Told(x.code, ses'.event),
           \/ /\ task[t].pc = "waiting" \/ ~ad[a].busy
              /\ rec.busy <=> x.pc = "waiting"
              /\ Books(policy, a, rec, x.at, x.todo)
           \/ task[t].pc # "waiting" /\ x.pc = "done" /\ rec = ad[a]
    PROVE  GuardedInv'
  <1>1. a \in {"router", "run"} /\ policy' = policy
    BY TwoAdapters DEF Kept, policy
  <1>2. ad[a] \in Adapter /\ \E at, todo : Books(policy, a, ad[a], at, todo)
    BY <1>1, AdapterFacts
  <1>3. rec \in Adapter
    BY <1>2 DEF Books
  <1>4. ad' \in [{"router", "run"} -> Adapter] /\ ad'[a] = rec
        /\ \A b \in {"router", "run"} \ {a} : ad'[b] = ad[b]
    BY <1>1, <1>3 DEF GuardedInv
  <1>5. DOMAIN task' = setup.tasks /\ task'[t] = x /\ \A u \in setup.tasks \ {t} : task'[u] = task[u]
    BY DEF GuardedInv
  <1>6. setup' = setup /\ now' = now /\ snap' = snap /\ lease' = lease
    BY DEF Kept
  <1>7. \A u \in setup.tasks : TaskPart(u)'
    <2> SUFFICES ASSUME NEW u \in setup.tasks PROVE TaskPart(u)'
      OBVIOUS
    <2>1. CASE u = t
      BY <1>5, <2>1 DEF TaskPart
    <2>2. CASE u # t
      <3>1. TaskPart(u)
        BY DEF GuardedInv
      <3>2. ses.event # None => ses'.event = ses.event
        BY DEF Pays
      <3>3. task[u].pc = "done" => Told(task[u].code, ses'.event)
        BY <3>1, <3>2, TellsOn DEF TaskPart
      <3> QED BY <1>5, <2>2, <3>1, <3>3 DEF TaskPart
    <2> QED BY <2>1, <2>2
  <1>8. ASSUME NEW b \in {"router", "run"}, b # a PROVE AdapterPart(b)'
    <2>1. Waiting(b)' = Waiting(b)
      BY <1>5, <1>6, <1>8 DEF Waiting, AdapterOf
    <2>2. AdapterPart(b)
      BY DEF GuardedInv
    <2>3. CASE ad[b].busy
      <3>1. PICK u \in setup.tasks : Waiting(b) = {u} /\ Books(policy, b, ad[b], task[u].at, task[u].todo)
        BY <2>2, <2>3 DEF AdapterPart
      <3>2. u # t
        BY <1>8, <3>1 DEF Waiting
      <3>3. task'[u] = task[u] /\ ad'[b] = ad[b]
        BY <1>4, <1>5, <1>8, <3>2
      <3> QED BY <1>1, <1>6, <2>1, <2>3, <3>1, <3>3 DEF AdapterPart
    <2>4. CASE ~ad[b].busy
      BY <1>1, <1>4, <1>6, <1>8, <2>1, <2>2, <2>4 DEF AdapterPart
    <2> QED BY <2>3, <2>4
  <1>9. AdapterPart(a)'
    <2>1. AdapterPart(a)
      BY <1>1 DEF GuardedInv
    <2>2. Waiting(a)' = IF x.pc = "waiting" THEN Waiting(a) \cup {t} ELSE Waiting(a) \ {t}
      BY <1>5, <1>6 DEF Waiting, AdapterOf
    <2>3. CASE /\ task[t].pc = "waiting" \/ ~ad[a].busy
               /\ rec.busy <=> x.pc = "waiting"
               /\ Books(policy, a, rec, x.at, x.todo)
      <3>1. Waiting(a) \subseteq {t}
        BY <2>1, <2>3 DEF AdapterPart, Waiting
      <3>2. CASE x.pc = "waiting"
        <4>1. Waiting(a)' = {t}
          BY <2>2, <3>1, <3>2
        <4> QED BY <1>1, <1>4, <1>5, <1>6, <2>3, <3>2, <4>1 DEF AdapterPart
      <3>3. CASE x.pc # "waiting"
        <4>1. Waiting(a)' = {}
          BY <2>2, <3>1, <3>3
        <4>2. Books(policy, a, rec, None, {}) /\ ~rec.busy
          BY <2>3, <3>3, FreeBooks
        <4> QED BY <1>1, <1>4, <1>6, <4>1, <4>2 DEF AdapterPart
      <3> QED BY <3>2, <3>3
    <2>4. CASE task[t].pc # "waiting" /\ x.pc = "done" /\ rec = ad[a]
      <3>1. Waiting(a)' = Waiting(a)
        BY <2>2, <2>4 DEF Waiting
      <3>2. CASE ad[a].busy
        <4>1. PICK u \in setup.tasks : Waiting(a) = {u} /\ Books(policy, a, ad[a], task[u].at, task[u].todo)
          BY <2>1, <3>2 DEF AdapterPart
        <4>2. u # t
          BY <2>4, <4>1 DEF Waiting
        <4>3. task'[u] = task[u] /\ ad'[a] = ad[a]
          BY <1>4, <1>5, <2>4, <4>2
        <4> QED BY <1>1, <1>6, <3>1, <3>2, <4>1, <4>3 DEF AdapterPart
      <3>3. CASE ~ad[a].busy
        BY <1>1, <1>4, <1>6, <2>1, <2>4, <3>1, <3>3 DEF AdapterPart
      <3> QED BY <3>2, <3>3
    <2> QED BY <2>3, <2>4
  <1>10. SumPart'
    <2>1. /\ ad["router"].count \in Nat /\ ad["run"].count \in Nat
          /\ ad["router"].reserved \in Nat /\ ad["run"].reserved \in Nat
      BY AdapterFacts
    <2>2. /\ ses'.counts["llm_calls"] = ses.counts["llm_calls"] + (rec.count - ad[a].count)
          /\ ses'.counts["llm_tokens"] = ses.counts["llm_tokens"] + (rec.reserved - ad[a].reserved)
      BY DEF Pays
    <2>3. rec.count \in Nat /\ rec.reserved \in Nat
      BY <1>3 DEF Adapter
    <2>4. SumPart
      BY DEF GuardedInv
    <2>5. CASE a = "router"
      <3>1. ad'["router"] = rec /\ ad'["run"] = ad["run"]
        BY <1>4, <2>5
      <3> QED BY <2>1, <2>2, <2>3, <2>4, <2>5, <3>1 DEF SumPart
    <2>6. CASE a = "run"
      <3>1. ad'["run"] = rec /\ ad'["router"] = ad["router"]
        BY <1>4, <2>6
      <3> QED BY <2>1, <2>2, <2>3, <2>4, <2>6, <3>1 DEF SumPart
    <2> QED BY <1>1, <2>5, <2>6
  <1>11. UserPart'
    <2>1. UserPart
      BY DEF GuardedInv
    <2> QED BY <1>6, <2>1 DEF UserPart, SnapshotIsWhole, SourceResource
  <1>12. Within(ses') /\ ses'.start = 0
    BY DEF Pays, GuardedInv
  <1>13. \A b \in {"router", "run"} : AdapterPart(b)'
    BY <1>8, <1>9
  <1> QED BY <1>4, <1>5, <1>6, <1>7, <1>10, <1>11, <1>12, <1>13 DEF GuardedInv

(* What GivenInTime asks of a step, for the tasks, the lease, the snapshot. *)
InTime == ses'.event = None /\ now < ses.start + Limit["processing_time_ms"]
TasksInTime == \A t \in setup.tasks : task[t].pc = "waiting" /\ task'[t].code = "ok" => InTime
LeaseInTime == lease.pc \in {"selecting", "pulling"} /\ lease'.pc = "held" => InTime
SnapInTime == snap.pc = "reading" /\ snap'.pc = "done" => InTime

(* Only the task that moves is given an answer. *)
LEMMA OnlyHis ==
    ASSUME GuardedInv, NEW t \in setup.tasks, NEW x, task' = [task EXCEPT ![t] = x],
           task[t].pc = "waiting" /\ x.code = "ok" => InTime
    PROVE  TasksInTime
  <1> SUFFICES ASSUME NEW u \in setup.tasks, task[u].pc = "waiting", task'[u].code = "ok"
               PROVE  InTime
    BY DEF TasksInTime
  <1>1. DOMAIN task = setup.tasks /\ TaskPart(u)
    BY DEF GuardedInv
  <1>2. u = t
    <2> SUFFICES ASSUME u # t PROVE FALSE
      OBVIOUS
    <2>1. task'[u] = task[u]
      BY <1>1
    <2>2. task[u].code = None
      BY <1>1 DEF TaskPart
    <2> QED BY <2>1, <2>2, GuardedAssumption
  <1> QED BY <1>1, <1>2

(* The adapter of a task as it is when the task may go on: the attempt it   *)
(* waited for is noted, or nothing has happened yet.                        *)
Ready(t, a, rec) ==
    /\ \E at, todo : Books(policy, a, rec, at, todo)
    /\ rec.count = ad[a].count /\ rec.reserved = ad[a].reserved
    /\ \/ task[t].pc = "waiting" /\ ~rec.busy
       \/ task[t].pc # "waiting" /\ rec = ad[a]

(* The task goes on to a provider, or its error is told. *)
LEMMA ContinueKeeps ==
    ASSUME GuardedInv, Kept, NEW t \in setup.tasks, NEW a, a = AdapterOf(t),
           NEW s, Later(ses, s), NEW rec, Ready(t, a, rec),
           NEW todo, NEW try, Tried(s, policy, a, rec, todo, try), Continue(t, try, todo)
    PROVE  GuardedInv' /\ TasksInTime
  <1>1. /\ ad[a].count \in Nat /\ ad[a].reserved \in Nat /\ ad[a] \in Adapter /\ Within(ses)
        /\ a \in {"router", "run"}
    BY TwoAdapters, AdapterFacts DEF GuardedInv
  <1>2. CASE try.verdict = "wait"
    <2> DEFINE x == [pc |-> "waiting", at |-> try.at, todo |-> todo,
                     outer |-> DeadlineOf(try.ses, "llm_time_ms", now),
                     inner |-> Minimum(DeadlineOf(try.ses, "llm_time_ms", now), try.ad.start + policy.max_time),
                     code |-> None]
    <2>1. /\ ses' = try.ses /\ task' = [task EXCEPT ![t] = x] /\ ad' = [ad EXCEPT ![a] = try.ad]
      BY <1>2 DEF Continue
    <2>2. /\ ~rec.busy /\ try.ad.busy /\ Books(policy, a, try.ad, try.at, todo)
          /\ Pays(s, try.ses, try.ad.count - rec.count, try.ad.reserved - rec.reserved)
      BY <1>2 DEF Tried
    <2>3. try.ad.count \in Nat /\ try.ad.reserved \in Nat
      BY <2>2 DEF Books, Adapter
    <2>4. Pays(ses, ses', try.ad.count - ad[a].count, try.ad.reserved - ad[a].reserved)
      BY <2>1, <2>2 DEF Pays, Later, Ready
    <2>5. x.pc = "waiting" /\ x.code = None /\ x.at = try.at /\ x.todo = todo
      OBVIOUS
    <2> HIDE DEF x
    <2>6. task[t].pc = "waiting" \/ ~ad[a].busy
      BY <2>2 DEF Ready
    <2>7. GuardedInv'
      BY <2>1, <2>2, <2>4, <2>5, <2>6, TurnKeeps
    <2>8. TasksInTime
      BY <2>1, <2>5, OnlyHis, GuardedAssumption
    <2> QED BY <2>7, <2>8
  <1>3. CASE try.verdict # "wait"
    <2> DEFINE failed == AfterError(try.ses, try.verdict)
               x == [NewTask EXCEPT !.pc = "done", !.code = failed.code]
    <2>1. /\ ses' = failed.ses /\ task' = [task EXCEPT ![t] = x] /\ ad' = [ad EXCEPT ![a] = rec]
      BY <1>3 DEF Continue, Tried
    <2>2. Later(s, try.ses) /\ (try.ses.event = None => try.verdict \in LLMErrorCodes)
      BY <1>3 DEF Tried
    <2>3. Closes(try.ses, failed) /\ failed.code # "ok"
      BY <2>2, AfterErrorIs DEF Later
    <2>4. x.pc = "done" /\ x.code = failed.code
      BY DEF NewTask
    <2> HIDE DEF x, failed
    <2>5. Later(ses, ses')
      BY <2>1, <2>2, <2>3 DEF Closes, Later
    <2>6. Pays(ses, ses', 0, 0)
      BY <1>1, <2>5, LaterPays
    <2>7. rec.count - ad[a].count = 0 /\ rec.reserved - ad[a].reserved = 0
      BY <1>1 DEF Ready
    <2>8. Told(x.code, ses'.event)
      BY <2>1, <2>3, <2>4 DEF Closes
    <2>9. \/ /\ task[t].pc = "waiting" \/ ~ad[a].busy
             /\ rec.busy <=> x.pc = "waiting"
             /\ Books(policy, a, rec, x.at, x.todo)
          \/ task[t].pc # "waiting" /\ x.pc = "done" /\ rec = ad[a]
      BY <2>4, FreeBooks DEF Ready
    <2>10. GuardedInv'
      BY <2>1, <2>4, <2>6, <2>7, <2>8, <2>9, TurnKeeps
    <2>11. TasksInTime
      BY <2>1, <2>3, <2>4, OnlyHis
    <2> QED BY <2>10, <2>11
  <1> QED BY <1>2, <1>3

(* The task ends with what call told it. *)
LEMMA EndKeeps ==
    ASSUME GuardedInv, Kept, NEW t \in setup.tasks, NEW a, a = AdapterOf(t),
           NEW rec, Ready(t, a, rec), ad' = [ad EXCEPT ![a] = rec],
           NEW reply, Closes(ses, reply), End(t, reply),
           task[t].pc = "waiting" /\ reply.code = "ok" => InTime
    PROVE  GuardedInv' /\ TasksInTime
  <1> DEFINE x == [NewTask EXCEPT !.pc = "done", !.code = reply.code]
  <1>1. /\ ad[a].count \in Nat /\ ad[a].reserved \in Nat /\ Within(ses)
    BY TwoAdapters, AdapterFacts DEF GuardedInv
  <1>2. ses' = reply.ses /\ task' = [task EXCEPT ![t] = x]
    BY DEF End
  <1>3. x.pc = "done" /\ x.code = reply.code
    BY DEF NewTask
  <1> HIDE DEF x
  <1>4. Pays(ses, ses', 0, 0) /\ Told(x.code, ses'.event)
    BY <1>1, <1>2, <1>3, LaterPays DEF Closes
  <1>5. rec.count - ad[a].count = 0 /\ rec.reserved - ad[a].reserved = 0
    BY <1>1 DEF Ready
  <1>6. \/ /\ task[t].pc = "waiting" \/ ~ad[a].busy
           /\ rec.busy <=> x.pc = "waiting"
           /\ Books(policy, a, rec, x.at, x.todo)
        \/ task[t].pc # "waiting" /\ x.pc = "done" /\ rec = ad[a]
    BY <1>3, FreeBooks DEF Ready
  <1>7. GuardedInv'
    BY <1>2, <1>3, <1>4, <1>5, <1>6, TurnKeeps
  <1>8. TasksInTime
    BY <1>2, <1>3, OnlyHis
  <1> QED BY <1>7, <1>8

-----------------------------
(* The steps of a task. *)

LEMMA IdleIsReady ==
    ASSUME GuardedInv, NEW t \in setup.tasks, task[t].pc # "waiting"
    PROVE  Ready(t, AdapterOf(t), ad[AdapterOf(t)])
  BY TwoAdapters, AdapterFacts DEF Ready

(* A task that waits is the one its adapter is busy with. *)
LEMMA WaitingIs ==
    ASSUME GuardedInv, NEW t \in setup.tasks, task[t].pc = "waiting", NEW a, a = AdapterOf(t)
    PROVE  ad[a].busy /\ Books(policy, a, ad[a], task[t].at, task[t].todo)
  <1>1. AdapterPart(a) /\ t \in Waiting(a)
    BY TwoAdapters DEF GuardedInv, Waiting
  <1> QED BY <1>1 DEF AdapterPart

(* After its attempt was noted a task may go on. *)
LEMMA NotedIsReady ==
    ASSUME GuardedInv, NEW t \in setup.tasks, task[t].pc = "waiting", NEW a, a = AdapterOf(t),
           NEW answered, NEW error, Outcome(answered, error)
    PROVE  LET noted == Noted(ad[a], task[t].at, answered, error)
           IN  /\ Ready(t, a, noted) /\ ~noted.busy /\ noted \in Adapter
               /\ noted.calls = Append(ad[a].calls, CallRecord(task[t].at, answered, error))
  <1>1. ad[a].busy /\ Books(policy, a, ad[a], task[t].at, task[t].todo)
    BY WaitingIs
  <1> DEFINE rec == ad[a]
             at == task[t].at
             noted == Noted(rec, at, answered, error)
  <1>a. Books(policy, a, rec, at, task[t].todo) /\ rec.busy
    BY <1>1
  <1>b. Settles(policy, a, rec, noted, CallRecord(at, answered, error))
    <2> HIDE DEF rec, at
    <2> QED BY <1>a, NotedBooks
  <1>2. /\ Books(policy, a, noted, None, {}) /\ noted.busy = FALSE
        /\ noted.count = ad[a].count /\ noted.reserved = ad[a].reserved
        /\ noted.calls = Append(ad[a].calls, CallRecord(task[t].at, answered, error))
    BY <1>b DEF Settles
  <1> HIDE DEF noted
  <1>3. noted \in Adapter
    BY <1>2 DEF Books
  <1>4. Ready(t, a, noted)
    BY <1>2 DEF Ready
  <1> QED BY <1>2, <1>3, <1>4 DEF noted

(* generate_structured up to its first await. *)
LEMMA AskKeeps ==
    ASSUME GuardedInv, NEW t \in setup.tasks, NEW req \in setup.requests, Ask(t, req)
    PROVE  GuardedInv' /\ TasksInTime /\ LeaseInTime /\ SnapInTime
  <1> DEFINE a == AdapterOf(t)
             first == Remaining(ses, "llm_time_ms", now)
             todo == IF a = "run" THEN {} ELSE Candidates(policy, req)
             try == Generate(first.ses, t, req)
  <1>1. /\ setup \in Setups /\ Within(ses) /\ now \in Nat /\ task[t].pc # "waiting"
        /\ req \in LLMRequest /\ a \in {"router", "run"}
    BY PolicyFacts, TwoAdapters DEF GuardedInv, Ask
  <1>2. Kept /\ lease' = lease /\ snap' = snap
    BY DEF Ask, Kept, userVars
  <1>3. LeaseInTime /\ SnapInTime
    BY <1>2 DEF LeaseInTime, SnapInTime
  <1>4. Ready(t, a, ad[a])
    BY <1>1, IdleIsReady
  <1>5. IsReply(ses, first)
    BY <1>1, LimitFacts, RemainingIs
  <1>6. CASE first.code # "ok"
    <2>1. End(t, first) /\ ad' = [ad EXCEPT ![a] = ad[a]]
      BY <1>1, <1>6 DEF Ask, GuardedInv
    <2>2. Closes(ses, first)
      BY <1>5, RepliesTell
    <2> HIDE DEF first, a
    <2> QED BY <1>1, <1>2, <1>3, <1>4, <2>1, <2>2, EndKeeps DEF a
  <1>7. CASE first.code = "ok"
    <2>1. Continue(t, try, todo)
      BY <1>7 DEF Ask
    <2>2. Later(ses, first.ses) /\ Within(first.ses)
      BY <1>5 DEF IsReply, Later
    <2>3. \E at, others : Books(policy, a, ad[a], at, others)
      BY <1>4 DEF Ready
    <2>4. Tried(first.ses, policy, a, ad[a], todo, try)
      BY <1>1, <2>2, <2>3, GenerateIs
    <2> HIDE DEF first, todo, try
    <2> QED BY <1>2, <1>3, <1>4, <2>1, <2>2, <2>4, ContinueKeeps
  <1> QED BY <1>6, <1>7

(* How an answer is settled: it is in order, or there is an error to tell   *)
(* and to record.                                                           *)
LEMMA SettledIs ==
    ASSUME GuardedInv, NEW t \in setup.tasks, NEW verdict \in LLMErrorCodes \cup {"ok"}
    PROVE  LET end == Settled(t, verdict)
           IN  /\ Later(ses, end.ses) /\ end.code # "wait"
               /\ end.code = "ok" \/ end.code \in LLMErrorCodes \/ end.ses.event # None
  <1> DEFINE time == Remaining(ses, "llm_time_ms", now)
             over == now >= ad[AdapterOf(t)].start + policy.max_time
             end == Settled(t, verdict)
  <1>1. Within(ses) /\ Later(ses, ses)
    BY DEF GuardedInv, Later
  <1>2. IsReply(ses, time)
    BY <1>1, LimitFacts, RemainingIs DEF GuardedInv
  <1>3. Later(ses, time.ses) /\ time.code # "wait" /\ (time.code # "ok" => time.ses.event # None)
    BY <1>2, HonestCode DEF IsReply
  <1>4. end \in {Reply(ses, verdict), Reply(ses, "LLM_TIMEOUT"), Reply(ses, "ok"),
                 Reply(time.ses, "LLM_BUDGET_EXCEEDED"), time}
    <2>1. CASE verdict # "ok"
      BY <2>1 DEF Settled
    <2>2. CASE verdict = "ok" /\ AdapterOf(t) = "run"
      BY <2>2 DEF Settled
    <2>3. CASE verdict = "ok" /\ AdapterOf(t) # "run"
      BY <2>3 DEF Settled
    <2> QED BY <2>1, <2>2, <2>3
  <1> HIDE DEF time, end
  <1>5. Later(ses, end.ses) /\ end.code # "wait"
        /\ (end.code = "ok" \/ end.code \in LLMErrorCodes \/ end.ses.event # None)
    <2>1. CASE end = Reply(ses, verdict)
      BY <1>1, <2>1, NotWaiting DEF Reply
    <2>2. CASE end = Reply(ses, "LLM_TIMEOUT")
      BY <1>1, <2>2, NotWaiting DEF Reply
    <2>3. CASE end = Reply(ses, "ok")
      BY <1>1, <2>3 DEF Reply
    <2>4. CASE end = Reply(time.ses, "LLM_BUDGET_EXCEEDED")
      BY <1>3, <2>4, NotWaiting DEF Reply
    <2>5. CASE end = time
      BY <1>3, <2>5
    <2> QED BY <1>4, <2>1, <2>2, <2>3, <2>4, <2>5
  <1> QED BY <1>5 DEF end

(* The error a record keeps. *)
LEMMA ErrorIs ==
    ASSUME NEW code
    PROVE  /\ RecordedError(code) \in LLMErrorCodes \cup {None}
           /\ code = "ok" => RecordedError(code) = None
           /\ code \in LLMErrorCodes => RecordedError(code) = code
  BY NotWaiting DEF RecordedError

(* An answer that is checked has a verdict. *)
LEMMA VerdictIs ==
    ASSUME NEW t, NEW reply \in Answers
    PROVE  Verdict(t, reply) \in LLMErrorCodes \cup {"ok"}
  <1>1. reply.code \in LLMErrorCodes \cup {"ok"}
    BY GuardedAssumption
  <1> DEFINE caps == IF AdapterOf(t) = "run" THEN RunCapabilities
                     ELSE policy.routes[NextRoute(policy, task[t].todo)].capabilities
             fits == reply.bound /\ reply.input <= caps.input /\ reply.output <= caps.output
             wide == reply.input + reply.output > caps.window
  <1>2. Verdict(t, reply) = CASE reply.code # "ok" -> reply.code
          [] reply.code = "ok" /\ ~fits -> "LLM_INVALID_RESPONSE"
          [] reply.code = "ok" /\ fits /\ wide ->
                IF AdapterOf(t) = "run" THEN "LLM_CONTEXT_LIMIT" ELSE "LLM_INVALID_RESPONSE"
          [] OTHER -> "ok"
    BY DEF Verdict
  <1> HIDE DEF fits, wide
  <1> QED BY <1>1, <1>2, NotWaiting

(* The route that is tried next leads to another deployment. *)
LEMMA FallbackFollows ==
    ASSUME GuardedInv, NEW t \in setup.tasks, task[t].pc = "waiting", AdapterOf(t) = "router",
           NEW code \in Transient, policy.mode # "fixed",
           NEW rest, rest = task[t].todo \ {NextRoute(policy, task[t].todo)}, rest # {}
    PROVE  LET noted == Noted(ad["router"], task[t].at, FALSE, code)
           IN  /\ Follows(policy, noted.calls, Len(noted.calls),
                          policy.routes[NextRoute(policy, rest)].deployment, task[t].at.request, code)
               /\ rest \subseteq Candidates(policy, task[t].at.request)
               /\ task[t].at.request \in LLMRequest
  <1> DEFINE at == task[t].at
             todo == task[t].todo
             i == NextRoute(policy, todo)
             j == NextRoute(policy, rest)
             calls == ad["router"].calls
             last == CallRecord(at, FALSE, code)
             noted == Noted(ad["router"], at, FALSE, code)
  <1>1. Books(policy, "router", ad["router"], at, todo) /\ ad["router"].busy
    BY WaitingIs
  <1>2. /\ at \in Flight /\ todo # {} /\ todo \subseteq Candidates(policy, at.request)
        /\ at.deployment = policy.routes[i].deployment /\ calls \in Seq(LLMCallRecord)
    BY <1>1 DEF Books, FlightRight, Adapter
  <1>3. setup \in Setups
    BY DEF GuardedInv
  <1>4. \A k \in todo : k \in DOMAIN policy.routes /\ k \in Nat
    BY <1>2, <1>3, CandidateIs
  <1>5. i \in todo /\ j \in rest
    BY <1>2, <1>4, NextIsOne
  <1>6. policy.routes[j].deployment # at.deployment
    BY <1>2, <1>3, <1>4, <1>5, PolicyFacts
  <1>7. code \in LLMErrorCodes /\ code # None
    BY NotWaiting, GuardedAssumption
  <1>8. /\ last.error_code = code /\ last.request = at.request /\ last.deployment = at.deployment
        /\ at.request \in LLMRequest
    BY <1>2 DEF CallRecord, Flight
  <1>9. noted.calls = Append(calls, last)
    <2>1. ad["router"] \in Adapter
      BY <1>1 DEF Books
    <2> QED BY <2>1 DEF Noted, Adapter
  <1> HIDE DEF last, noted, calls, i, j
  <1>10. last = noted.calls[Len(noted.calls)] /\ Len(noted.calls) > 0
    BY <1>2, <1>9
  <1>11. Follows(policy, noted.calls, Len(noted.calls), policy.routes[j].deployment, at.request, code)
    BY <1>6, <1>8, <1>10 DEF Follows
  <1> QED BY <1>2, <1>8, <1>11 DEF noted, j

(* What happened before does not matter to a verdict. *)
LEMMA ClosesFrom ==
    ASSUME NEW s, NEW t, NEW reply, Later(s, t), Closes(t, reply)
    PROVE  Closes(s, reply)
  BY DEF Closes, Later

(* The provider answers: the end, the next candidate, or an error. *)
LEMMA AnsweredKeeps ==
    ASSUME GuardedInv, NEW t \in setup.tasks, NEW reply \in Answers, Answered(t, reply)
    PROVE  GuardedInv' /\ TasksInTime /\ LeaseInTime /\ SnapInTime
  <1> DEFINE a == AdapterOf(t)
             end == Settled(t, Verdict(t, reply))
             error == RecordedError(end.code)
             answered == end.code = "ok"
             noted == Noted(ad[a], task[t].at, answered, error)
             rest == task[t].todo \ {NextRoute(policy, task[t].todo)}
             again == a = "router" /\ FallsBack(policy, end.code, rest)
  <1>1. /\ task[t].pc = "waiting" /\ Kept /\ lease' = lease /\ snap' = snap
        /\ Within(ses) /\ now \in Nat /\ setup \in Setups /\ ses.start = 0
    BY DEF Answered, Kept, userVars, GuardedInv
  <1>2. LeaseInTime /\ SnapInTime
    BY <1>1 DEF LeaseInTime, SnapInTime
  <1>3. /\ Later(ses, end.ses) /\ end.code # "wait"
        /\ end.code = "ok" \/ end.code \in LLMErrorCodes \/ end.ses.event # None
    BY VerdictIs, SettledIs
  <1>4. Outcome(answered, error)
    BY ErrorIs DEF Outcome
  <1>5. Ready(t, a, noted) /\ ~noted.busy /\ noted \in Adapter
    BY <1>1, <1>4, NotedIsReady
  <1>6. /\ answered => /\ End(t, AfterAnswer(end.ses, "llm_time_ms", now))
                       /\ ad' = [ad EXCEPT ![a] = noted]
        /\ ~answered /\ again =>
              Continue(t, TryRoute(end.ses, noted, task[t].at.request, rest, end.code), rest)
        /\ ~answered /\ ~again => Continue(t, Refuse(end.ses, noted, end.code), rest)
    <2>1. CASE answered
      <3>1. ~again
        BY <2>1 DEF FallsBack, Transient
      <3> QED BY <2>1, <3>1 DEF Answered
    <2>2. CASE ~answered
      BY <2>2 DEF Answered
    <2> QED BY <2>1, <2>2
  <1>7. Within(end.ses) /\ end.ses.start = ses.start
    BY <1>3 DEF Later
  <1>8. CASE answered
    <2> DEFINE given == AfterAnswer(end.ses, "llm_time_ms", now)
    <2>1. /\ Closes(end.ses, given)
          /\ given.code = "ok" => /\ given.ses.event = None
                                  /\ now < end.ses.start + Limit["processing_time_ms"]
      BY <1>1, <1>7, LimitFacts, AfterAnswerIs
    <2>2. Closes(ses, given)
      BY <1>3, <2>1, ClosesFrom
    <2>3. End(t, given) /\ ad' = [ad EXCEPT ![a] = noted]
      BY <1>6, <1>8
    <2>4. given.code = "ok" => InTime
      BY <1>7, <2>1, <2>3 DEF End, InTime
    <2> HIDE DEF given, noted
    <2> QED BY <1>1, <1>2, <1>5, <2>2, <2>3, <2>4, EndKeeps
  <1>9. CASE ~answered /\ again
    <2> DEFINE req == task[t].at.request
               try == TryRoute(end.ses, noted, req, rest, end.code)
    <2>1. end.code \in Transient /\ policy.mode # "fixed" /\ rest # {} /\ a = "router"
      BY <1>9 DEF FallsBack
    <2>2. error = end.code /\ answered = FALSE
      BY <1>9, <2>1, ErrorIs, NotWaiting
    <2>3. noted = Noted(ad["router"], task[t].at, FALSE, end.code)
      BY <2>1, <2>2
    <2>4. /\ Follows(policy, Noted(ad["router"], task[t].at, FALSE, end.code).calls,
                     Len(Noted(ad["router"], task[t].at, FALSE, end.code).calls),
                     policy.routes[NextRoute(policy, rest)].deployment, req, end.code)
          /\ rest \subseteq Candidates(policy, req) /\ req \in LLMRequest
      BY <1>1, <2>1, FallbackFollows
    <2>5. PICK at, others : Books(policy, "router", noted, at, others)
      BY <1>5, <2>1 DEF Ready
    <2>6. Continue(t, try, rest)
      BY <1>6, <1>9
    <2>7. end.code \in LLMErrorCodes \cup {None}
      BY <2>1, NotWaiting
    <2>8. Follows(policy, noted.calls, Len(noted.calls),
                  policy.routes[NextRoute(policy, rest)].deployment, req, end.code)
      BY <2>3, <2>4
    <2> HIDE DEF noted, end, rest, req
    <2>9. Tried(end.ses, policy, "router", noted, rest, try)
      BY <1>1, <1>5, <1>7, <2>1, <2>4, <2>5, <2>7, <2>8, TryRouteIs
    <2> HIDE DEF try, a
    <2>10. Tried(end.ses, policy, a, noted, rest, try)
      BY <2>1, <2>9
    <2>11. a = AdapterOf(t)
      BY DEF a
    <2> QED BY <1>1, <1>2, <1>3, <1>5, <2>6, <2>10, <2>11, ContinueKeeps
  <1>10. CASE ~answered /\ ~again
    <2> DEFINE try == Refuse(end.ses, noted, end.code)
    <2>1. Continue(t, try, rest)
      BY <1>6, <1>10
    <2>2. end.ses.event = None => end.code \in LLMErrorCodes
      BY <1>3, <1>10
    <2> HIDE DEF noted, end, rest
    <2>3. Tried(end.ses, policy, a, noted, rest, try)
      <3>1. Later(end.ses, end.ses)
        BY <1>7 DEF Later
      <3> QED BY <1>3, <1>5, <2>2, <3>1, RefusedTry
    <2> HIDE DEF try
    <2> QED BY <1>1, <1>2, <1>3, <1>5, <2>1, <2>3, ContinueKeeps
  <1> QED BY <1>8, <1>9, <1>10

(* The timeout of the adapter. *)
LEMMA InnerTimeoutKeeps ==
    ASSUME GuardedInv, NEW t \in setup.tasks, InnerTimeout(t)
    PROVE  GuardedInv' /\ TasksInTime /\ LeaseInTime /\ SnapInTime
  <1> DEFINE a == AdapterOf(t)
             code == IF a = "run" THEN "LLM_TIMEOUT" ELSE "LLM_BUDGET_EXCEEDED"
             noted == Noted(ad[a], task[t].at, FALSE, code)
             try == Refuse(ses, noted, code)
             todo == task[t].todo
  <1>1. /\ task[t].pc = "waiting" /\ Kept /\ lease' = lease /\ snap' = snap
        /\ Within(ses) /\ Later(ses, ses)
    BY DEF InnerTimeout, Kept, userVars, GuardedInv, Later
  <1>2. LeaseInTime /\ SnapInTime
    BY <1>1 DEF LeaseInTime, SnapInTime
  <1>3. code \in LLMErrorCodes /\ code # "wait"
    BY NotWaiting
  <1>4. Outcome(FALSE, code)
    BY <1>3 DEF Outcome
  <1>5. Continue(t, try, todo)
    BY DEF InnerTimeout
  <1> HIDE DEF code
  <1>6. Ready(t, a, noted) /\ ~noted.busy /\ noted \in Adapter
    BY <1>1, <1>4, NotedIsReady
  <1> HIDE DEF noted, todo
  <1>7. Tried(ses, policy, a, noted, todo, try)
    BY <1>1, <1>3, <1>6, RefusedTry
  <1> HIDE DEF try
  <1> QED BY <1>1, <1>2, <1>5, <1>6, <1>7, ContinueKeeps

(* The timeout of call. *)
LEMMA OuterTimeoutKeeps ==
    ASSUME GuardedInv, NEW t \in setup.tasks, OuterTimeout(t)
    PROVE  GuardedInv' /\ TasksInTime /\ LeaseInTime /\ SnapInTime
  <1> DEFINE a == AdapterOf(t)
             noted == Noted(ad[a], task[t].at, FALSE, None)
             reply == AfterTimeout(ses, "llm_time_ms", now)
  <1>1. /\ task[t].pc = "waiting" /\ Kept /\ lease' = lease /\ snap' = snap
        /\ Within(ses) /\ now \in Nat
    BY DEF OuterTimeout, Kept, userVars, GuardedInv
  <1>2. LeaseInTime /\ SnapInTime
    BY <1>1 DEF LeaseInTime, SnapInTime
  <1>3. Outcome(FALSE, None)
    BY DEF Outcome
  <1>4. Ready(t, a, noted)
    BY <1>1, <1>3, NotedIsReady
  <1>5. Closes(ses, reply) /\ reply.code # "ok"
    BY <1>1, LimitFacts, AfterTimeoutIs
  <1>6. End(t, reply) /\ ad' = [ad EXCEPT ![a] = noted]
    BY DEF OuterTimeout
  <1> HIDE DEF noted, reply
  <1> QED BY <1>1, <1>2, <1>4, <1>5, <1>6, EndKeeps

(* The caller is cancelled. *)
LEMMA CancelTaskKeeps ==
    ASSUME GuardedInv, NEW t \in setup.tasks, CancelTask(t)
    PROVE  GuardedInv' /\ TasksInTime /\ LeaseInTime /\ SnapInTime
  <1> DEFINE a == AdapterOf(t)
             noted == Noted(ad[a], task[t].at, FALSE, None)
             reply == AfterCancel(ses)
  <1>1. task[t].pc = "waiting" /\ Kept /\ lease' = lease /\ snap' = snap /\ Within(ses)
    BY DEF CancelTask, Kept, userVars, GuardedInv
  <1>2. LeaseInTime /\ SnapInTime
    BY <1>1 DEF LeaseInTime, SnapInTime
  <1>3. Outcome(FALSE, None)
    BY DEF Outcome
  <1>4. Ready(t, a, noted)
    BY <1>1, <1>3, NotedIsReady
  <1>5. Closes(ses, reply) /\ reply.code # "ok"
    BY <1>1, AfterCancelIs
  <1>6. End(t, reply) /\ ad' = [ad EXCEPT ![a] = noted]
    BY DEF CancelTask
  <1> HIDE DEF noted, reply
  <1> QED BY <1>1, <1>2, <1>4, <1>5, <1>6, EndKeeps

-----------------------------
(* The steps of the other users and of the world. *)

LEMMA OthersKeep ==
    ASSUME GuardedInv, setup' = setup, now' \in Nat, ad' = ad, task' = task,
           Later(ses, ses') \/ Pays(ses, ses', 0, 0), UserPart'
    PROVE  GuardedInv' /\ TasksInTime
  <1>1. policy' = policy /\ Within(ses) /\ DOMAIN task = setup.tasks
    BY DEF policy, GuardedInv
  <1>2. Pays(ses, ses', 0, 0)
    BY <1>1, LaterPays
  <1>3. \A t \in setup.tasks : TaskPart(t)'
    <2> SUFFICES ASSUME NEW t \in setup.tasks PROVE TaskPart(t)'
      OBVIOUS
    <2>1. TaskPart(t)
      BY DEF GuardedInv
    <2>2. ses.event # None => ses'.event = ses.event
      BY <1>2 DEF Pays
    <2>3. task[t].pc = "done" => Told(task[t].code, ses'.event)
      BY <2>1, <2>2, TellsOn DEF TaskPart
    <2> QED BY <2>1, <2>3 DEF TaskPart
  <1>4. \A a \in {"router", "run"} : AdapterPart(a)'
    <2> SUFFICES ASSUME NEW a \in {"router", "run"} PROVE AdapterPart(a)'
      OBVIOUS
    <2>1. AdapterPart(a)
      BY DEF GuardedInv
    <2>2. Waiting(a)' = Waiting(a)
      BY DEF Waiting, AdapterOf
    <2> QED BY <1>1, <2>1, <2>2 DEF AdapterPart
  <1>5. SumPart'
    <2>1. /\ ad["router"].count \in Nat /\ ad["run"].count \in Nat
          /\ ad["router"].reserved \in Nat /\ ad["run"].reserved \in Nat
      BY AdapterFacts
    <2> QED BY <1>2, <2>1 DEF SumPart, Pays, GuardedInv
  <1>6. GuardedInv'
    BY <1>2, <1>3, <1>4, <1>5 DEF GuardedInv, Pays
  <1>7. TasksInTime
    <2> SUFFICES ASSUME NEW t \in setup.tasks, task[t].pc = "waiting", task[t].code = "ok" PROVE FALSE
      BY DEF TasksInTime
    <2>1. TaskPart(t)
      BY DEF GuardedInv
    <2> QED BY <2>1, GuardedAssumption DEF TaskPart
  <1> QED BY <1>6, <1>7

(* before_query, between its two locks. *)
LEMMA QueryKeeps ==
    ASSUME GuardedInv, QueryDeadline \/ QueryReserve
    PROVE  GuardedInv' /\ TasksInTime /\ LeaseInTime /\ SnapInTime
  <1>1. /\ setup' = setup /\ now' = now /\ ad' = ad /\ task' = task /\ snap' = snap /\ lease' = lease
        /\ Within(ses) /\ now \in Nat
    BY DEF QueryDeadline, QueryReserve, llmVars, GuardedInv
  <1>2. LeaseInTime /\ SnapInTime
    BY <1>1 DEF LeaseInTime, SnapInTime
  <1>3. UserPart'
    BY <1>1 DEF GuardedInv, UserPart, SnapshotIsWhole, SourceResource
  <1>4. CASE QueryDeadline
    <2>1. ses' = Remaining(ses, "processing_time_ms", now).ses
      BY <1>4 DEF QueryDeadline
    <2>2. Later(ses, ses')
      BY <1>1, <2>1, LimitFacts, RemainingIs DEF IsReply
    <2> QED BY <1>1, <1>2, <1>3, <2>2, OthersKeep
  <1>5. CASE QueryReserve
    <2>1. ses' = Reserved(ses, "db_queries", 1).ses
      BY <1>5 DEF QueryReserve
    <2>2. Pays(ses, ses', 0, 0)
      BY <1>1, <2>1, QueryIs
    <2> QED BY <1>1, <1>2, <1>3, <2>2, OthersKeep
  <1> QED BY <1>4, <1>5

(* The snapshot waits for its next chunk, or has been refused. *)
LEMMA SnapshotAwaitsIs ==
    ASSUME GuardedInv, NEW reply, Later(ses, reply.ses), NEW record \in Snapshot,
           SnapshotAwaits(reply, record)
    PROVE  /\ Later(ses, ses') /\ snap' \in Snapshot /\ snap'.pc \in {"reading", "refused"}
           /\ snap'.got = record.got /\ snap'.kind = record.kind
  <1> DEFINE time == Remaining(reply.ses, "processing_time_ms", now)
             end  == IF reply.code = "ok" THEN time ELSE reply
             outer == DeadlineOf(end.ses, "processing_time_ms", now)
  <1>1. Within(reply.ses) /\ now \in Nat
    BY DEF Later, GuardedInv
  <1>2. Later(reply.ses, time.ses)
    BY <1>1, LimitFacts, RemainingIs DEF IsReply
  <1>3. Later(ses, end.ses)
    BY <1>2 DEF Later
  <1>4. /\ ses' = end.ses
        /\ snap' = IF end.code = "ok" THEN [record EXCEPT !.pc = "reading", !.outer = outer]
                   ELSE [record EXCEPT !.pc = "refused"]
    BY DEF SnapshotAwaits
  <1>5. outer \in Nat
    BY <1>1, <1>3, LimitFacts, DeadlineIs DEF Later
  <1> HIDE DEF end, outer
  <1> QED BY <1>3, <1>4, <1>5 DEF Snapshot

(* snapshot up to its first read. *)
LEMMA SnapshotCallKeeps ==
    ASSUME GuardedInv, NEW kind \in {"file", "stream"}, NEW expected \in {None, Source, Source + 1},
           SnapshotCall(kind, expected)
    PROVE  GuardedInv' /\ TasksInTime /\ LeaseInTime /\ SnapInTime
  <1> DEFINE record == [pc |-> "idle", got |-> 0, expected |-> expected, kind |-> kind, outer |-> 0]
             reply == SnapshotStarts(kind, expected)
             used == [ses EXCEPT !.snapshot_used = TRUE]
  <1>1. /\ setup' = setup /\ now' = now /\ ad' = ad /\ task' = task /\ lease' = lease
        /\ Within(ses) /\ now \in Nat /\ snap.pc # "reading" /\ SnapshotAwaits(reply, record)
    BY DEF SnapshotCall, llmVars, GuardedInv
  <1>2. record \in Snapshot
    BY GuardedAssumption DEF Snapshot
  <1>3. Later(ses, reply.ses)
    <2>1. Within(used) /\ Later(ses, used)
      BY <1>1 DEF Within, Later, SecuritySessionSet
    <2>2. \A r : IsReply(used, Checked(used, r, expected))
      BY <2>1, CheckedIs
    <2>3. \A r : Later(ses, Checked(used, r, expected).ses)
      BY <2>1, <2>2 DEF IsReply, Later
    <2>4. Later(ses, Denied(ses, "SECURITY_INPUT_REJECTED").ses)
      BY <1>1, DeniedIs DEF ResourceErrorCode
    <2>5. Later(ses, ses)
      BY <1>1 DEF Later
    <2> HIDE DEF used
    <2> QED BY <2>1, <2>3, <2>4, <2>5 DEF SnapshotStarts, Reply, used
  <1> HIDE DEF reply
  <1>4. /\ Later(ses, ses') /\ snap' \in Snapshot /\ snap'.pc \in {"reading", "refused"}
        /\ snap'.got = 0 /\ snap'.kind = kind
    BY <1>1, <1>2, <1>3, SnapshotAwaitsIs
  <1>5. UserPart'
    <2>1. Limit["file_bytes"] \in Nat /\ Limit["stream_bytes"] \in Nat
      BY LimitFacts
    <2> QED BY <1>1, <1>4, <2>1 DEF UserPart, SnapshotIsWhole, SourceResource, GuardedInv
  <1>6. LeaseInTime /\ SnapInTime
    BY <1>1 DEF LeaseInTime, SnapInTime
  <1> QED BY <1>1, <1>4, <1>5, <1>6, OthersKeep

(* A chunk is kept when what has come fits the cap; the source is complete  *)
(* when nothing comes any more.                                             *)
LEMMA ChunkComesKeeps ==
    ASSUME GuardedInv, NEW n \in Nat, ChunkComes(n)
    PROVE  GuardedInv' /\ TasksInTime /\ LeaseInTime /\ SnapInTime
  <1> DEFINE cap == SourceResource
             total == snap.got + n
             again == AfterAnswer(ses, "processing_time_ms", now)
             chunk == AfterChunk(again.ses, n)
             next == IF again.code = "ok" THEN chunk ELSE again
             size == Checked(again.ses, cap, total)
             wrong == snap.expected # None /\ (total > snap.expected \/ (n = 0 /\ total # snap.expected))
             much == n > RequestedBytes(Limit[cap], snap.got)
  <1>1. /\ setup' = setup /\ now' = now /\ ad' = ad /\ task' = task /\ lease' = lease
        /\ Within(ses) /\ now \in Nat /\ UserPart /\ snap \in Snapshot /\ snap.pc = "reading"
        /\ ses.start \in Nat
    BY DEF ChunkComes, llmVars, GuardedInv, UserPart
  <1>2. LeaseInTime
    BY <1>1 DEF LeaseInTime
  <1>3. /\ Limit[cap] \in Nat /\ snap.got <= Limit[cap] /\ snap.got \in Nat /\ total \in Nat
        /\ snap.expected \in Nat \cup {None}
    BY <1>1, LimitFacts DEF UserPart, SnapshotIsWhole, SourceResource, Snapshot
  <1>4. /\ Closes(ses, again)
        /\ again.code = "ok" => again.ses.event = None /\ now < ses.start + Limit["processing_time_ms"]
    BY <1>1, LimitFacts, AfterAnswerIs
  <1>5. Within(again.ses) /\ Later(ses, again.ses)
    BY <1>4 DEF Closes, Later
  <1>6. /\ IsReply(again.ses, size)
        /\ size.code = "ok" => size.ses = again.ses /\ ~(total > Limit[cap])
    BY <1>5, CheckedIs
  <1>7. /\ Later(again.ses, Denied(again.ses, "SECURITY_INPUT_REJECTED").ses)
        /\ Denied(again.ses, "SECURITY_INPUT_REJECTED").code # "ok"
    BY <1>5, DeniedIs DEF ResourceErrorCode
  <1>8. chunk = CASE much -> Denied(again.ses, "SECURITY_INPUT_REJECTED")
                  [] n <= RequestedBytes(Limit[cap], snap.got) /\ n > 0 /\ size.code # "ok" -> size
                  [] OTHER -> IF wrong THEN Denied(again.ses, "SECURITY_INPUT_REJECTED")
                              ELSE Reply(again.ses, "ok")
    BY DEF AfterChunk
  <1>9. RequestedBytes(Limit[cap], snap.got) \in Nat /\ RequestedBytes(Limit[cap], snap.got) > 0
    BY <1>3, LimitAssumption DEF RequestedBytes, Minimum
  <1> HIDE DEF again, size, cap
  <1>10. /\ Later(again.ses, chunk.ses)
         /\ chunk.code = "ok" => /\ chunk.ses = again.ses /\ ~wrong
                                 /\ n > 0 => total <= Limit[cap]
    <2>1. CASE much
      BY <1>7, <1>8, <1>9, <2>1
    <2>2. CASE ~much /\ n > 0 /\ size.code # "ok"
      <3>1. chunk = size
        BY <1>8, <1>9, <2>2
      <3> QED BY <1>6, <2>2, <3>1 DEF IsReply
    <2>3. CASE ~much /\ ~(n > 0 /\ size.code # "ok")
      <3>1. chunk = IF wrong THEN Denied(again.ses, "SECURITY_INPUT_REJECTED") ELSE Reply(again.ses, "ok")
        BY <1>8, <1>9, <2>3
      <3>2. Later(again.ses, again.ses)
        BY <1>5 DEF Later
      <3>3. n > 0 => total <= Limit[cap]
        BY <1>3, <1>6, <2>3
      <3> HIDE DEF wrong
      <3> QED BY <1>7, <3>1, <3>2, <3>3 DEF Reply
    <2> QED BY <2>1, <2>2, <2>3
  <1>11. Later(ses, next.ses) /\ (next.code = "ok" => again.code = "ok")
    BY <1>5, <1>10 DEF Later
  <1> HIDE DEF chunk
  <1>12. CASE next.code = "ok" /\ n > 0
    <2> DEFINE record == [snap EXCEPT !.got = @ + n]
    <2>1. SnapshotAwaits(next, record)
      BY <1>12 DEF ChunkComes, chunk, again
    <2>2. record \in Snapshot /\ record.got = total /\ record.kind = snap.kind
      BY <1>1, <1>3 DEF Snapshot
    <2> HIDE DEF record, next
    <2>3. /\ Later(ses, ses') /\ snap' \in Snapshot /\ snap'.pc \in {"reading", "refused"}
          /\ snap'.got = total /\ snap'.kind = snap.kind
      BY <1>11, <2>1, <2>2, SnapshotAwaitsIs
    <2>4. total <= Limit[cap]
      BY <1>10, <1>11, <1>12 DEF next
    <2>5. UserPart'
      BY <1>1, <2>3, <2>4 DEF UserPart, SnapshotIsWhole, SourceResource, cap
    <2>6. SnapInTime
      BY <2>3 DEF SnapInTime
    <2> QED BY <1>1, <1>2, <2>3, <2>5, <2>6, OthersKeep
  <1>13. CASE ~(next.code = "ok" /\ n > 0)
    <2>1. /\ ses' = next.ses
          /\ snap' = [snap EXCEPT !.pc = IF next.code = "ok" THEN "done" ELSE "refused"]
      BY <1>13 DEF ChunkComes, chunk, again
    <2>2. /\ snap' \in Snapshot /\ snap'.got = snap.got /\ snap'.kind = snap.kind
          /\ snap'.expected = snap.expected
          /\ snap'.pc = IF next.code = "ok" THEN "done" ELSE "refused"
      BY <1>1, <2>1 DEF Snapshot
    <2>3. ASSUME next.code = "ok" PROVE snap.got = Source /\ snap.expected \in {None, Source} /\ InTime
      <3>1. n = 0 /\ ~wrong /\ again.code = "ok" /\ next = chunk /\ chunk.ses = again.ses
        BY <1>10, <1>11, <1>13, <2>3
      <3>2. snap.got = Source
        BY <1>9, <3>1 DEF ChunkComes, cap
      <3>3. snap.expected \in {None, Source}
        BY <1>3, <3>1, <3>2
      <3>4. InTime
        BY <1>4, <2>1, <3>1 DEF InTime
      <3> QED BY <3>2, <3>3, <3>4
    <2>4. UserPart'
      BY <1>1, <2>2, <2>3 DEF UserPart, SnapshotIsWhole, SourceResource
    <2>5. SnapInTime
      BY <2>2, <2>3 DEF SnapInTime
    <2> QED BY <1>1, <1>2, <1>11, <2>1, <2>4, <2>5, OthersKeep
  <1> QED BY <1>12, <1>13

(* A read that fails, is cancelled, or takes too long. *)
LEMMA ReadFailsKeeps ==
    ASSUME GuardedInv, ReadFails
    PROVE  GuardedInv' /\ TasksInTime /\ LeaseInTime /\ SnapInTime
  <1>1. /\ setup' = setup /\ now' = now /\ ad' = ad /\ task' = task /\ lease' = lease
        /\ Within(ses) /\ now \in Nat /\ UserPart /\ snap' = [snap EXCEPT !.pc = "refused"]
    BY DEF ReadFails, llmVars, GuardedInv
  <1>2. Later(ses, ses')
    <2>1. Later(ses, AfterError(ses, "SECURITY_OPERATION_FAILED").ses)
      BY <1>1, AfterErrorIs
    <2>2. Later(ses, AfterCancel(ses).ses)
      BY <1>1, AfterCancelIs DEF Closes
    <2>3. Later(ses, AfterTimeout(ses, "processing_time_ms", now).ses)
      BY <1>1, LimitFacts, AfterTimeoutIs DEF Closes
    <2> QED BY <2>1, <2>2, <2>3 DEF ReadFails
  <1>3. snap' \in Snapshot /\ snap'.pc = "refused" /\ snap'.got = snap.got /\ snap'.kind = snap.kind
    BY <1>1 DEF UserPart, Snapshot
  <1>4. UserPart' /\ LeaseInTime /\ SnapInTime
    BY <1>1, <1>3 DEF UserPart, SnapshotIsWhole, SourceResource, LeaseInTime, SnapInTime
  <1> QED BY <1>1, <1>2, <1>4, OthersKeep

(* The lease waits for the parser, or has been refused. *)
LEMMA LeaseAwaitsIs ==
    ASSUME GuardedInv, NEW reply, Later(ses, reply.ses), NEW pc \in {"selecting", "pulling"},
           LeaseAwaits(reply, pc)
    PROVE  Later(ses, ses') /\ lease' \in Lease
  <1> DEFINE time == Remaining(reply.ses, "parser_time_ms", now)
             end  == IF reply.code = "ok" THEN time ELSE reply
             outer == DeadlineOf(end.ses, "parser_time_ms", now)
  <1>1. Within(reply.ses) /\ now \in Nat /\ lease \in Lease
    BY DEF Later, GuardedInv, UserPart
  <1>2. Later(reply.ses, time.ses)
    BY <1>1, LimitFacts, RemainingIs DEF IsReply
  <1>3. Later(ses, end.ses)
    BY <1>2 DEF Later
  <1>4. /\ ses' = end.ses
        /\ lease' = IF end.code = "ok" THEN [lease EXCEPT !.pc = pc, !.outer = outer]
                    ELSE [lease EXCEPT !.pc = "refused"]
    BY DEF LeaseAwaits
  <1>5. outer \in Nat
    BY <1>1, <1>3, LimitFacts, DeadlineIs DEF Later
  <1> HIDE DEF end, outer
  <1> QED BY <1>1, <1>3, <1>4, <1>5 DEF Lease

(* Every step of the lease leaves the rest alone. *)
LEMMA LeaseStepKeeps ==
    ASSUME GuardedInv, setup' = setup, now' = now, ad' = ad, task' = task, snap' = snap,
           Later(ses, ses'), lease' \in Lease
    PROVE  GuardedInv' /\ TasksInTime /\ SnapInTime
  <1>1. UserPart'
    BY DEF GuardedInv, UserPart, SnapshotIsWhole, SourceResource
  <1>2. SnapInTime
    BY DEF SnapInTime
  <1>3. now' \in Nat
    BY DEF GuardedInv
  <1> QED BY <1>1, <1>2, <1>3, OthersKeep

(* parse and the next pull up to their await. *)
LEMMA LeaseOpens ==
    ASSUME GuardedInv, LeaseOpen \/ LeasePull
    PROVE  GuardedInv' /\ TasksInTime /\ LeaseInTime /\ SnapInTime
  <1>1. /\ setup' = setup /\ now' = now /\ ad' = ad /\ task' = task /\ snap' = snap
        /\ Within(ses) /\ lease.pc \notin {"selecting", "pulling"}
    BY DEF LeaseOpen, LeasePull, llmVars, GuardedInv
  <1>2. Later(ses, ses') /\ lease' \in Lease
    <2>1. CASE LeaseOpen
      <3> DEFINE used == [ses EXCEPT !.parser_used = TRUE]
      <3>1. Within(used) /\ Later(ses, used)
        BY <1>1 DEF Within, Later, SecuritySessionSet
      <3>2. \A r : IsReply(used, Checked(used, r, Source))
        BY <3>1, CheckedIs
      <3>3. \A r : Later(ses, Checked(used, r, Source).ses)
        BY <3>1, <3>2 DEF IsReply, Later
      <3>4. Later(ses, Denied(ses, "SECURITY_INPUT_REJECTED").ses)
        BY <1>1, DeniedIs DEF ResourceErrorCode
      <3>5. LeaseStarts = CASE ses.parser_used -> Denied(ses, "SECURITY_INPUT_REJECTED")
                            [] ~ses.parser_used /\ Checked(used, "file_bytes", Source).code # "ok" ->
                                  Checked(used, "file_bytes", Source)
                            [] OTHER -> Checked(used, "stream_bytes", Source)
        BY DEF LeaseStarts
      <3> HIDE DEF used
      <3>6. Later(ses, LeaseStarts.ses)
        BY <3>3, <3>4, <3>5
      <3>7. LeaseAwaits(LeaseStarts, "selecting")
        BY <2>1 DEF LeaseOpen
      <3> QED BY <3>6, <3>7, LeaseAwaitsIs
    <2>2. CASE LeasePull
      <3>1. Later(ses, Reply(ses, "ok").ses)
        BY <1>1 DEF Later, Reply
      <3>2. LeaseAwaits(Reply(ses, "ok"), "pulling")
        BY <2>2 DEF LeasePull
      <3> QED BY <3>1, <3>2, LeaseAwaitsIs
    <2> QED BY <2>1, <2>2
  <1> QED BY <1>1, <1>2, LeaseStepKeeps DEF LeaseInTime

(* A parser was selected. *)
LEMMA LeaseSelectedKeeps ==
    ASSUME GuardedInv, NEW format, LeaseSelected(format)
    PROVE  GuardedInv' /\ TasksInTime /\ LeaseInTime /\ SnapInTime
  <1> DEFINE again == AfterAnswer(ses, "parser_time_ms", now)
             next == IF again.code = "ok" /\ format \notin AllowedFormats
                       THEN Denied(again.ses, "SECURITY_INPUT_REJECTED") ELSE again
  <1>1. /\ setup' = setup /\ now' = now /\ ad' = ad /\ task' = task /\ snap' = snap
        /\ Within(ses) /\ now \in Nat /\ lease \in Lease /\ ses' = next.ses
        /\ lease' = [lease EXCEPT !.pc = IF next.code = "ok" THEN "held" ELSE "refused"]
    BY DEF LeaseSelected, llmVars, GuardedInv, UserPart
  <1>2. /\ Closes(ses, again)
        /\ again.code = "ok" => again.ses.event = None /\ now < ses.start + Limit["processing_time_ms"]
    BY <1>1, LimitFacts, AfterAnswerIs
  <1>3. /\ Later(again.ses, Denied(again.ses, "SECURITY_INPUT_REJECTED").ses)
        /\ Denied(again.ses, "SECURITY_INPUT_REJECTED").code # "ok"
    BY <1>2, DeniedIs DEF ResourceErrorCode, Closes, Later
  <1> HIDE DEF again
  <1>4. Later(ses, next.ses) /\ (next.code = "ok" => next = again /\ again.code = "ok")
    BY <1>2, <1>3 DEF Closes, Later
  <1> HIDE DEF next
  <1>5. lease' \in Lease /\ (lease'.pc = "held" => next.code = "ok")
    BY <1>1 DEF Lease
  <1>6. LeaseInTime
    BY <1>1, <1>2, <1>4, <1>5 DEF LeaseInTime, InTime
  <1> QED BY <1>1, <1>4, <1>5, <1>6, LeaseStepKeeps

(* A batch came, or the end of the stream. *)
LEMMA LeaseBatchKeeps ==
    ASSUME GuardedInv, NEW last \in BOOLEAN, LeaseBatch(last)
    PROVE  GuardedInv' /\ TasksInTime /\ LeaseInTime /\ SnapInTime
  <1> DEFINE again == AfterAnswer(ses, "parser_time_ms", now)
  <1>1. /\ setup' = setup /\ now' = now /\ ad' = ad /\ task' = task /\ snap' = snap
        /\ Within(ses) /\ now \in Nat /\ lease \in Lease /\ ses' = IF last THEN ses ELSE again.ses
        /\ lease' = CASE last -> [lease EXCEPT !.pc = "closed"]
                      [] ~last /\ again.code = "ok" -> [lease EXCEPT !.pc = "held", !.batches = @ + 1]
                      [] OTHER -> [lease EXCEPT !.pc = "refused"]
    BY DEF LeaseBatch, llmVars, GuardedInv, UserPart
  <1>2. /\ Closes(ses, again)
        /\ again.code = "ok" => again.ses.event = None /\ now < ses.start + Limit["processing_time_ms"]
    BY <1>1, LimitFacts, AfterAnswerIs
  <1> HIDE DEF again
  <1>3. lease' \in Lease /\ (lease'.pc = "held" => ~last /\ again.code = "ok")
    <2>1. CASE last
      BY <1>1, <2>1 DEF Lease
    <2>2. CASE ~last /\ again.code = "ok"
      <3>1. lease' = [lease EXCEPT !.pc = "held", !.batches = @ + 1] /\ lease.batches + 1 \in Nat
        BY <1>1, <2>2 DEF Lease
      <3> QED BY <1>1, <2>2, <3>1 DEF Lease
    <2>3. CASE ~last /\ again.code # "ok"
      BY <1>1, <2>3 DEF Lease
    <2> QED BY <2>1, <2>2, <2>3
  <1>4. Later(ses, ses')
    BY <1>1, <1>2 DEF Closes, Later
  <1>5. LeaseInTime
    BY <1>1, <1>2, <1>3 DEF LeaseInTime, InTime
  <1> QED BY <1>1, <1>3, <1>4, <1>5, LeaseStepKeeps

(* The lease fails or is left. *)
LEMMA LeaseEndsKeeps ==
    ASSUME GuardedInv, LeaseFails \/ LeaseLeft(TRUE) \/ LeaseLeft(FALSE)
    PROVE  GuardedInv' /\ TasksInTime /\ LeaseInTime /\ SnapInTime
  <1>1. /\ setup' = setup /\ now' = now /\ ad' = ad /\ task' = task /\ snap' = snap
        /\ Within(ses) /\ now \in Nat /\ lease \in Lease
        /\ lease' = [lease EXCEPT !.pc = "refused"] \/ lease' = [lease EXCEPT !.pc = "closed"]
    BY DEF LeaseFails, LeaseLeft, llmVars, GuardedInv, UserPart
  <1>2. lease' \in Lease /\ lease'.pc # "held"
    BY <1>1 DEF Lease
  <1>3. Later(ses, ses')
    <2>1. \A code : Later(ses, AfterError(ses, code).ses)
      BY <1>1, AfterErrorIs
    <2>2. Later(ses, AfterCancel(ses).ses)
      BY <1>1, AfterCancelIs DEF Closes
    <2>3. Later(ses, AfterTimeout(ses, "parser_time_ms", now).ses)
      BY <1>1, LimitFacts, AfterTimeoutIs DEF Closes
    <2>4. Later(ses, ses)
      BY <1>1 DEF Later
    <2>5. CASE LeaseFails
      BY <2>1, <2>2, <2>3, <2>5 DEF LeaseFails
    <2>6. CASE LeaseLeft(TRUE) \/ LeaseLeft(FALSE)
      BY <2>2, <2>4, <2>6 DEF LeaseLeft
    <2> QED BY <2>5, <2>6
  <1>4. LeaseInTime
    BY <1>2 DEF LeaseInTime
  <1> QED BY <1>1, <1>2, <1>3, <1>4, LeaseStepKeeps

(* The clock, and a deployment that moves. *)
LEMMA WorldKeeps ==
    ASSUME GuardedInv, Tick \/ StepBack \/ (\E d \in Deployments : Redeploy(d)) \/ UNCHANGED guardedVars
    PROVE  GuardedInv' /\ TasksInTime /\ LeaseInTime /\ SnapInTime
  <1>1. now \in Nat /\ Within(ses)
    BY DEF GuardedInv
  <1>2. /\ setup' = setup /\ ad' = ad /\ task' = task /\ snap' = snap /\ lease' = lease /\ ses' = ses
        /\ now' \in Nat
    BY <1>1 DEF Tick, StepBack, Redeploy, guardedVars, userVars, llmVars
  <1>3. UserPart' /\ Later(ses, ses')
    BY <1>1, <1>2 DEF GuardedInv, UserPart, SnapshotIsWhole, SourceResource, Later
  <1>4. LeaseInTime /\ SnapInTime
    BY <1>2 DEF LeaseInTime, SnapInTime
  <1> QED BY <1>2, <1>3, <1>4, OthersKeep

-----------------------------
(* Every state and every step. *)

LEMMA GuardedStarts == GuardedInit => GuardedInv
  <1> SUFFICES ASSUME GuardedInit PROVE GuardedInv
    OBVIOUS
  <1>1. /\ setup \in Setups /\ now = 0 /\ ses = NewSecuritySession(0)
        /\ ad = [a \in {"router", "run"} |-> NewAdapter] /\ task = [t \in setup.tasks |-> NewTask]
        /\ snap = [pc |-> "idle", got |-> 0, expected |-> None, kind |-> "file", outer |-> 0]
        /\ lease = [pc |-> "idle", batches |-> 0, outer |-> 0]
    BY DEF GuardedInit
  <1>2. Within(ses) /\ ses.start = 0 /\ ses.counts["llm_calls"] = 0 /\ ses.counts["llm_tokens"] = 0
    BY <1>1, LimitFacts DEF NewSecuritySession, Within, SecuritySessionSet
  <1>3. /\ NewAdapter \in Adapter /\ NewAdapter.busy = FALSE /\ NewAdapter.count = 0
        /\ NewAdapter.reserved = 0 /\ NewAdapter.calls = <<>>
    BY DEF NewAdapter, Adapter
  <1>4. policy.max_calls \in Nat /\ policy.max_tokens \in Nat
    BY <1>1, PolicyFacts DEF LLMRoutingPolicy
  <1>5. \A a : Books(policy, a, NewAdapter, None, {})
    BY <1>3, <1>4, SumOfNone DEF Books
  <1>6. \A t \in setup.tasks : task[t].pc = "idle"
    BY <1>1 DEF NewTask
  <1>7. \A a \in {"router", "run"} : AdapterPart(a)
    BY <1>1, <1>3, <1>5, <1>6 DEF AdapterPart, Waiting
  <1>8. \A t \in setup.tasks : TaskPart(t)
    BY <1>6 DEF TaskPart
  <1>9. SumPart
    BY <1>1, <1>2, <1>3 DEF SumPart
  <1>10. UserPart
    BY <1>1, LimitFacts DEF UserPart, Snapshot, Lease, SnapshotIsWhole, SourceResource
  <1> HIDE DEF GuardedInit
  <1> QED BY <1>1, <1>2, <1>3, <1>7, <1>8, <1>9, <1>10 DEF GuardedInv

(* Every step keeps the invariant and gives nothing out late. *)
LEMMA GuardedKeeps ==
    ASSUME GuardedInv, [GuardedNext]_guardedVars
    PROVE  GuardedInv' /\ TasksInTime /\ LeaseInTime /\ SnapInTime
  <1>1. CASE \E t \in setup.tasks : LLMStep(t)
    <2>1. PICK t \in setup.tasks : LLMStep(t)
      BY <1>1
    <2>2. CASE \E req \in setup.requests : Ask(t, req)
      BY <2>2, AskKeeps
    <2>3. CASE \E reply \in Answers : Answered(t, reply)
      BY <2>3, AnsweredKeeps
    <2>4. CASE InnerTimeout(t)
      BY <2>4, InnerTimeoutKeeps
    <2>5. CASE OuterTimeout(t)
      BY <2>5, OuterTimeoutKeeps
    <2>6. CASE CancelTask(t)
      BY <2>6, CancelTaskKeeps
    <2> QED BY <2>1, <2>2, <2>3, <2>4, <2>5, <2>6 DEF LLMStep
  <1>2. CASE UserStep
    <2>1. CASE QueryDeadline \/ QueryReserve
      BY <2>1, QueryKeeps
    <2>2. CASE \E kind \in {"file", "stream"}, expected \in {None, Source, Source + 1} :
                  SnapshotCall(kind, expected)
      BY <2>2, SnapshotCallKeeps
    <2>3. CASE \E n \in 0..(ReadChunk + 1) : ChunkComes(n)
      <3>1. \A n \in 0..(ReadChunk + 1) : n \in Nat
        BY LimitAssumption
      <3> QED BY <2>3, <3>1, ChunkComesKeeps
    <2>4. CASE ReadFails
      BY <2>4, ReadFailsKeeps
    <2>5. CASE LeaseOpen \/ LeasePull
      BY <2>5, LeaseOpens
    <2>6. CASE \E format \in Formats : LeaseSelected(format)
      BY <2>6, LeaseSelectedKeeps
    <2>7. CASE \E b \in BOOLEAN : LeaseBatch(b)
      BY <2>7, LeaseBatchKeeps
    <2>8. CASE LeaseFails \/ \E b \in BOOLEAN : LeaseLeft(b)
      BY <2>8, LeaseEndsKeeps
    <2> QED BY <1>2, <2>1, <2>2, <2>3, <2>4, <2>5, <2>6, <2>7, <2>8 DEF UserStep
  <1>3. CASE Tick \/ StepBack \/ (\E d \in Deployments : Redeploy(d)) \/ UNCHANGED guardedVars
    BY <1>3, WorldKeeps
  <1> QED BY <1>1, <1>2, <1>3 DEF GuardedNext

(* The invariant holds in every state of a run. *)
THEOREM GuardedIsInvariant == GuardedSpec => []GuardedInv
  <1>1. GuardedInv /\ [GuardedNext]_guardedVars => GuardedInv'
    BY GuardedKeeps
  <1> QED BY <1>1, GuardedStarts, PTL DEF GuardedSpec

(* Whatever left the process went where its class, its injection report and *)
(* the mode of the policy permit, for every policy, every number of tasks   *)
(* and every deployment that turns into another one (llm/router.py,         *)
(* _candidates and the second look at the capabilities).                    *)
THEOREM GoesOnlyWhereItMay == GuardedSpec => []EgressAllowed
  <1>1. GuardedInv => EgressAllowed
    <2> SUFFICES ASSUME GuardedInv PROVE EgressAllowed
      OBVIOUS
    <2>1. ASSUME NEW a \in {"router", "run"}, NEW r \in RECORDS_OF(a) PROVE MayGo(policy, a, r)
      <3>1. PICK at, todo : Books(policy, a, ad[a], at, todo)
        BY AdapterFacts
      <3>2. PICK i \in DOMAIN ad[a].calls : r = ad[a].calls[i]
        BY <2>1 DEF RECORDS_OF
      <3>3. ad[a].calls \in Seq(LLMCallRecord)
        BY <3>1 DEF Books, Adapter
      <3>4. i \in 1..Len(ad[a].calls)
        BY <3>3
      <3> QED BY <3>1, <3>2, <3>4 DEF Books, RecordRight
    <2>2. ASSUME NEW a \in {"router", "run"}, NEW r \in InFlightOf(a) PROVE MayGo(policy, a, r)
      <3>1. PICK t \in Waiting(a) : r = task[t].at
        BY <2>2 DEF InFlightOf
      <3>2. t \in setup.tasks /\ task[t].pc = "waiting" /\ AdapterOf(t) = a
        BY DEF Waiting
      <3>3. ad[a].busy /\ Books(policy, a, ad[a], task[t].at, task[t].todo)
        BY <3>2, WaitingIs
      <3> QED BY <3>1, <3>3 DEF Books, FlightRight
    <2>3. \A r \in RECORDS_OF("router") \cup InFlightOf("router") : MayGo(policy, "router", r)
      BY <2>1, <2>2
    <2>4. \A r \in RECORDS_OF("run") \cup InFlightOf("run") : MayGo(policy, "run", r)
      BY <2>1, <2>2
    <2> QED BY <2>3, <2>4 DEF EgressAllowed, MayGo
  <1> QED BY <1>1, GuardedIsInvariant, PTL

(* What an adapter counts is what its records and its request in flight add *)
(* up to.                                                                   *)
LEMMA ChargedOnce == GuardedInv => ChargedExactly
  <1> SUFFICES ASSUME GuardedInv PROVE ChargedExactly
    OBVIOUS
  <1> DEFINE calls(a) == Len(ad[a].calls) + Cardinality(Waiting(a))
             tokens(a) == SumReserved(ad[a].calls) + InFlightCost(a)
  <1>1. ASSUME NEW a \in {"router", "run"}
        PROVE  /\ ad[a].count = calls(a) /\ ad[a].reserved = tokens(a)
               /\ ad[a].count <= policy.max_calls /\ ad[a].reserved <= policy.max_tokens
               /\ (ad[a].busy <=> Waiting(a) # {}) /\ Cardinality(Waiting(a)) <= 1
    <2>1. AdapterPart(a)
      BY DEF GuardedInv
    <2>2. CASE ad[a].busy
      <3>1. PICK t \in setup.tasks : Waiting(a) = {t} /\ Books(policy, a, ad[a], task[t].at, task[t].todo)
        BY <2>1, <2>2 DEF AdapterPart
      <3>2. Cardinality(Waiting(a)) = 1
        BY <3>1, FS_Singleton
      <3>3. InFlightCost(a) = task[t].at.reserved
        BY <3>1 DEF InFlightCost
      <3> QED BY <2>2, <3>1, <3>2, <3>3 DEF Books
    <2>3. CASE ~ad[a].busy
      <3>1. Waiting(a) = {} /\ Books(policy, a, ad[a], None, {})
        BY <2>1, <2>3 DEF AdapterPart
      <3>2. Cardinality(Waiting(a)) = 0
        BY <3>1, FS_EmptySet
      <3>3. InFlightCost(a) = 0
        BY <3>1 DEF InFlightCost
      <3> QED BY <2>3, <3>1, <3>2, <3>3 DEF Books
    <2> QED BY <2>2, <2>3
  <1>2. SumPart /\ \A r \in CountedResource : ses.counts[r] <= Limit[r]
    BY DEF GuardedInv, Within
  <1> QED BY <1>1, <1>2 DEF ChargedExactly, SumPart

(* The books of a run: every attempt is charged once, within every limit,   *)
(* and explained by its record; the run has one verdict; a snapshot is the  *)
(* whole source (security/session.py, llm/run.py, security/source.py).      *)
THEOREM BooksOfTheRun == GuardedSpec => []BooksAreTrue
  <1>1. GuardedInv => RecordsExplain
    <2> SUFFICES ASSUME GuardedInv, NEW a \in {"router", "run"}, NEW i \in DOMAIN ad[a].calls
                 PROVE  LET r == ad[a].calls[i]
                            before == ad[a].calls[i - 1]
                        IN  /\ RecordFits(r)
                            /\ r.fallback_reason # None =>
                                  /\ i > 1 /\ before.error_code = r.fallback_reason
                                  /\ r.fallback_reason \in Transient /\ policy.mode # "fixed"
                                  /\ before.request = r.request /\ before.deployment # r.deployment
      BY DEF RecordsExplain
    <2>1. PICK at, todo : Books(policy, a, ad[a], at, todo)
      BY AdapterFacts
    <2>2. ad[a].calls \in Seq(LLMCallRecord)
      BY <2>1 DEF Books, Adapter
    <2>3. i \in 1..Len(ad[a].calls) /\ i \in Nat
      BY <2>2
    <2>4. RecordRight(policy, a, ad[a].calls, i)
      BY <2>1, <2>3 DEF Books
    <2>5. i - 1 > 0 => i > 1
      BY <2>3
    <2> QED BY <2>4, <2>5 DEF RecordRight, Follows
  <1>2. GuardedInv => OneVerdict
    <2> SUFFICES ASSUME GuardedInv, NEW t \in setup.tasks, task[t].pc = "done", task[t].code # "ok"
                 PROVE  /\ ses.event # None
                        /\ \/ task[t].code \in {ses.event.code, "SECURITY_RUN_CLOSED", "cancelled"}
                           \/ task[t].code \in LLMErrorCodes /\ ses.event.code = "SECURITY_OPERATION_FAILED"
      BY DEF OneVerdict
    <2>1. TaskPart(t)
      BY DEF GuardedInv
    <2> QED BY <2>1 DEF TaskPart, Told
  <1>3. GuardedInv => SnapshotIsWhole
    BY DEF GuardedInv, UserPart
  <1>4. GuardedInv => BooksAreTrue
    BY <1>1, <1>2, <1>3, ChargedOnce DEF BooksAreTrue
  <1> QED BY <1>4, GuardedIsInvariant, PTL

(* An answer, a batch or a snapshot is given out only while the run is open *)
(* and within its time, whatever happened during the await (session.py,     *)
(* call, the second remaining_seconds).                                     *)
THEOREM NothingIsLate == GuardedSpec => GivenInTime
  <1>1. GuardedInv /\ [GuardedNext]_guardedVars =>
           [ (\/ \E t \in setup.tasks : task[t].pc = "waiting" /\ task'[t].code = "ok"
              \/ lease.pc \in {"selecting", "pulling"} /\ lease'.pc = "held"
              \/ snap.pc = "reading" /\ snap'.pc = "done")
             => ses'.event = None /\ now < ses.start + Limit["processing_time_ms"] ]_guardedVars
    BY GuardedKeeps DEF TasksInTime, LeaseInTime, SnapInTime, InTime
  <1> QED BY <1>1, GuardedIsInvariant, PTL DEF GuardedSpec, GivenInTime

-----------------------------
(* The provider: its client, its calls and the tasks that close it. *)

CallCodes == WireErrors \cup {ReplyCode(reply) : reply \in Replies} \cup {Nothing}

SaidCodes == CallCodes \cup {"LLM_UNAVAILABLE", "LLM_CONTEXT_LIMIT", "cancelled"}

ProviderTask ==
    [pc : {"idle", "exchange", "exit", "closing", "ended"}, cancelled : BOOLEAN, code : SaidCodes]

CallRecords == [outcome : {"success", "failed", "cancelled"}, code : CallCodes]

ProviderTypes ==
    /\ client \in {"none", "open", "closed"} /\ closed \in BOOLEAN
    /\ closing \in {"none", "scheduled", "gathering", "done", "failed"}
    /\ released \in {0, 1} /\ attempts \in Nat /\ history \in Seq(CallRecords)
    /\ pt \in [ProviderTasks -> ProviderTask]

(* A task is active while it is in the exchange, and whoever is active when *)
(* the provider gathers is one it waits for: nobody gets in any more.       *)
OnTheWire ==
    /\ IsFiniteSet(active) /\ active = {t \in ProviderTasks : pt[t].pc = "exchange"}
    /\ closed <=> closing # "none"
    /\ closing = "gathering" => active \subseteq waitsFor
    /\ released = 1 <=> closing \in {"done", "failed"}
    /\ released = 1 => active = {}

CallsAddUp ==
    /\ Len(history) + Cardinality(active) <= attempts
    /\ attempts <= MaxHistory => Len(history) + Cardinality(active) = attempts

ProviderInv == ProviderTypes /\ OnTheWire /\ CallsAddUp

LEMMA ProviderStarts == ProviderInit => ProviderInv
  <1> SUFFICES ASSUME ProviderInit PROVE ProviderInv
    OBVIOUS
  <1>1. ProviderTypes
    <2>1. Nothing \in SaidCodes
      BY DEF SaidCodes, CallCodes
    <2>2. [pc |-> "idle", cancelled |-> FALSE, code |-> Nothing] \in ProviderTask
      BY <2>1 DEF ProviderTask
    <2>3. pt \in [ProviderTasks -> ProviderTask]
      <3> DEFINE idle == [pc |-> "idle", cancelled |-> FALSE, code |-> Nothing]
      <3>1. pt = [t \in ProviderTasks |-> idle]
        BY DEF ProviderInit
      <3>2. idle \in ProviderTask
        BY <2>2
      <3> HIDE DEF idle
      <3> QED BY <3>1, <3>2
    <2>4. history \in Seq(CallRecords)
      BY DEF ProviderInit
    <2> QED BY <2>3, <2>4 DEF ProviderInit, ProviderTypes
  <1>2. OnTheWire
    BY FS_EmptySet DEF ProviderInit, OnTheWire
  <1>3. CallsAddUp
    BY FS_EmptySet DEF ProviderInit, CallsAddUp
  <1> QED BY <1>1, <1>2, <1>3 DEF ProviderInv

(* What tasks do that are not in the exchange, before and after. *)
LEMMA SameOnTheWire ==
    ASSUME ProviderInv, ProviderTypes', UNCHANGED <<active, attempts, history>>,
           \A t \in ProviderTasks : pt'[t].pc = "exchange" <=> pt[t].pc = "exchange",
           closed' <=> closing' # "none",
           closing' = "gathering" => active \subseteq waitsFor',
           released' = 1 <=> closing' \in {"done", "failed"},
           released' = 1 => active = {}
    PROVE  ProviderInv'
  BY DEF ProviderInv, OnTheWire, CallsAddUp

LEMMA AfterCallIs ==
    ASSUME NEW t, NEW code \in SaidCodes
    PROVE  AfterCall(t, code) \in ProviderTask /\ AfterCall(t, code).pc \in {"exit", "ended"}
  BY DEF AfterCall, ProviderTask

LEMMA GenerateOnKeeps ==
    ASSUME ProviderInv, NEW t \in ProviderTasks, NEW wire \in {"ok", "LLM_CONTEXT_LIMIT"},
           GenerateOn(t, wire)
    PROVE  ProviderInv'
  <1>1. /\ pt[t].pc = "idle" /\ UNCHANGED <<client, closed, closing, waitsFor, history, released>>
        /\ pt[t].cancelled \in BOOLEAN
    BY DEF GenerateOn, ProviderInv, ProviderTypes, ProviderTask
  <1>2. ASSUME NEW code \in {"LLM_UNAVAILABLE", "LLM_CONTEXT_LIMIT"},
               pt' = [pt EXCEPT ![t] = AfterCall(t, code)], UNCHANGED <<active, attempts>>
        PROVE  ProviderInv'
    <2>0. AfterCall(t, code) \in ProviderTask /\ AfterCall(t, code).pc \in {"exit", "ended"}
      BY <1>2, AfterCallIs DEF SaidCodes
    <2>1. ProviderTypes'
      BY <1>1, <1>2, <2>0 DEF ProviderInv, ProviderTypes
    <2>2. \A u \in ProviderTasks : pt'[u].pc = "exchange" <=> pt[u].pc = "exchange"
      BY <1>1, <1>2, <2>0 DEF ProviderInv, ProviderTypes
    <2> QED BY <1>1, <1>2, <2>1, <2>2, SameOnTheWire DEF ProviderInv, OnTheWire
  <1>3. CASE closed \/ client # "open"
    BY <1>2, <1>3 DEF GenerateOn
  <1>4. CASE ~closed /\ client = "open" /\ wire # "ok"
    BY <1>2, <1>4 DEF GenerateOn
  <1>5. CASE ~closed /\ client = "open" /\ wire = "ok"
    <2>1. /\ attempts' = attempts + 1 /\ active' = active \cup {t}
          /\ pt' = [pt EXCEPT ![t].pc = "exchange"]
      BY <1>5 DEF GenerateOn
    <2>2. ProviderTypes'
      BY <1>1, <2>1 DEF ProviderInv, ProviderTypes, ProviderTask
    <2>3. active' = {u \in ProviderTasks : pt'[u].pc = "exchange"}
      BY <2>1 DEF ProviderInv, ProviderTypes, OnTheWire
    <2>4. t \notin active
      BY <1>1 DEF ProviderInv, OnTheWire
    <2>5. IsFiniteSet(active') /\ Cardinality(active') = Cardinality(active) + 1
      BY <2>1, <2>4, FS_AddElement DEF ProviderInv, OnTheWire
    <2>6. closing = "none" /\ released = 0
      BY <1>5 DEF ProviderInv, ProviderTypes, OnTheWire
    <2>7. OnTheWire'
      BY <1>1, <1>5, <2>3, <2>5, <2>6 DEF OnTheWire
    <2>8. Cardinality(active) \in Nat /\ Len(history) \in Nat /\ attempts \in Nat
      BY FS_CardinalityType DEF ProviderInv, ProviderTypes, OnTheWire
    <2>9. CallsAddUp'
      BY <1>1, <2>1, <2>5, <2>8, ProviderAssumption DEF ProviderInv, CallsAddUp
    <2> QED BY <2>2, <2>7, <2>9 DEF ProviderInv
  <1> QED BY <1>3, <1>4, <1>5

LEMMA RecentIs ==
    ASSUME NEW calls \in Seq(CallRecords), calls # <<>>
    PROVE  /\ Recent(calls) \in Seq(CallRecords) /\ Len(Recent(calls)) <= Len(calls)
           /\ Len(calls) <= MaxHistory => Recent(calls) = calls
  BY ProviderAssumption DEF Recent

LEMMA EndCallKeeps ==
    ASSUME ProviderInv, NEW t \in ProviderTasks, pt[t].pc = "exchange",
           NEW outcome \in {"success", "failed", "cancelled"}, NEW code \in CallCodes,
           EndCall(t, outcome, code)
    PROVE  ProviderInv'
  <1> DEFINE told == IF outcome = "cancelled" THEN "cancelled" ELSE code
             call == [outcome |-> outcome, code |-> code]
             more == Append(history, call)
  <1>1. /\ active' = active \ {t} /\ history' = Recent(more) /\ pt' = [pt EXCEPT ![t] = AfterCall(t, told)]
        /\ UNCHANGED <<client, closed, closing, waitsFor, attempts, released>>
    BY DEF EndCall
  <1>2. call \in CallRecords
    BY DEF CallRecords
  <1>3. more \in Seq(CallRecords) /\ Len(more) = Len(history) + 1 /\ more # <<>>
    <2> HIDE DEF call
    <2>1. history \in Seq(CallRecords) /\ Len(history) \in Nat
      BY DEF ProviderInv, ProviderTypes
    <2>2. more \in Seq(CallRecords) /\ Len(more) = Len(history) + 1
      BY <1>2, <2>1
    <2> QED BY <2>1, <2>2
  <1>4. told \in SaidCodes
    BY DEF SaidCodes
  <1> HIDE DEF told, call, more
  <1>5. history' \in Seq(CallRecords) /\ Len(history') <= Len(more)
        /\ (Len(more) <= MaxHistory => history' = more)
    BY <1>1, <1>3, RecentIs
  <1>6. AfterCall(t, told) \in ProviderTask /\ AfterCall(t, told).pc \in {"exit", "ended"}
    BY <1>4, AfterCallIs
  <1>13. ProviderTypes'
    BY <1>1, <1>5, <1>6 DEF ProviderInv, ProviderTypes
  <1>7. active' = {u \in ProviderTasks : pt'[u].pc = "exchange"}
    BY <1>1, <1>6 DEF ProviderInv, ProviderTypes, OnTheWire
  <1>8. t \in active
    BY DEF ProviderInv, OnTheWire
  <1>9. IsFiniteSet(active') /\ Cardinality(active') = Cardinality(active) - 1
    BY <1>1, <1>8, FS_RemoveElement DEF ProviderInv, OnTheWire
  <1>10. OnTheWire'
    BY <1>1, <1>7, <1>9 DEF ProviderInv, OnTheWire
  <1>11. Cardinality(active) \in Nat /\ Cardinality(active') \in Nat /\ Len(history) \in Nat
         /\ Len(history') \in Nat /\ attempts \in Nat
    BY <1>5, <1>9, FS_CardinalityType DEF ProviderInv, ProviderTypes, OnTheWire
  <1>12. CallsAddUp'
    BY <1>1, <1>3, <1>5, <1>9, <1>11, ProviderAssumption DEF ProviderInv, CallsAddUp
  <1> QED BY <1>13, <1>10, <1>12 DEF ProviderInv

(* The steps of a task that closes, of a task that is cancelled, and of     *)
(* those that release the transport.                                        *)
LEMMA QuietKeeps ==
    ASSUME ProviderInv, NEW t \in ProviderTasks, CancelCaller(t) \/ CloseProvider(t) \/ CloseReturns(t)
    PROVE  ProviderInv'
  <1>1. ProviderTypes /\ OnTheWire
    BY DEF ProviderInv
  <1>2. ASSUME CancelCaller(t) \/ CloseReturns(t) PROVE ProviderInv'
    <2>1. UNCHANGED <<client, closed, closing, waitsFor, active, attempts, history, released>>
      BY <1>2 DEF CancelCaller, CloseReturns
    <2>2. ProviderTypes' /\ \A u \in ProviderTasks : pt'[u].pc = "exchange" <=> pt[u].pc = "exchange"
      <3>1. CASE CancelCaller(t)
        BY <1>1, <2>1, <3>1 DEF CancelCaller, ProviderTypes, ProviderTask
      <3>2. CASE CloseReturns(t)
        <4>1. "LLM_UNAVAILABLE" \in SaidCodes /\ pt[t].code \in SaidCodes
          BY <1>1 DEF ProviderTypes, ProviderTask, SaidCodes
        <4>2. PICK code \in SaidCodes :
                 pt' = [pt EXCEPT ![t] = [pc |-> "ended", cancelled |-> FALSE, code |-> code]]
          BY <3>2, <4>1 DEF CloseReturns
        <4>3. pt[t].pc = "closing"
          BY <3>2 DEF CloseReturns
        <4>4. [pc |-> "ended", cancelled |-> FALSE, code |-> code] \in ProviderTask
          BY DEF ProviderTask
        <4> QED BY <1>1, <2>1, <4>2, <4>3, <4>4 DEF ProviderTypes
      <3> QED BY <1>2, <3>1, <3>2
    <2> QED BY <1>1, <2>1, <2>2, SameOnTheWire DEF OnTheWire
  <1>3. CASE CloseProvider(t)
    <2>1. /\ pt[t].pc \in {"idle", "exit"} /\ pt' = [pt EXCEPT ![t].pc = "closing"] /\ closed' = TRUE
          /\ closing' = IF closing = "none" THEN "scheduled" ELSE closing
          /\ UNCHANGED <<client, waitsFor, active, attempts, history, released>>
      BY <1>3 DEF CloseProvider
    <2>2. ProviderTypes'
      BY <1>1, <2>1 DEF ProviderTypes, ProviderTask
    <2>3. \A u \in ProviderTasks : pt'[u].pc = "exchange" <=> pt[u].pc = "exchange"
      BY <1>1, <2>1 DEF ProviderTypes, ProviderTask
    <2> QED BY <1>1, <2>1, <2>2, <2>3, SameOnTheWire DEF OnTheWire
  <1> QED BY <1>2, <1>3

LEMMA ClosingKeeps ==
    ASSUME ProviderInv, StartProvider \/ Shutdown \/ Release
    PROVE  ProviderInv'
  <1>1. ProviderTypes /\ OnTheWire
    BY DEF ProviderInv
  <1>2. CASE StartProvider
    BY <1>1, <1>2, SameOnTheWire DEF StartProvider, ProviderTypes, OnTheWire
  <1>3. CASE Shutdown
    <2>1. /\ closing = "scheduled" /\ closing' = "gathering" /\ waitsFor' = active
          /\ UNCHANGED <<client, closed, active, attempts, history, released>>
          /\ pt' = [u \in ProviderTasks |-> IF u \in active THEN [pt[u] EXCEPT !.cancelled = TRUE] ELSE pt[u]]
      BY <1>3 DEF Shutdown, GatheredBy
    <2>2. ProviderTypes'
      BY <1>1, <2>1 DEF ProviderTypes, ProviderTask
    <2>3. \A u \in ProviderTasks : pt'[u].pc = pt[u].pc
      BY <1>1, <2>1 DEF ProviderTypes, ProviderTask
    <2> QED BY <1>1, <2>1, <2>2, <2>3, SameOnTheWire DEF OnTheWire
  <1>4. CASE Release
    <2>1. /\ closing = "gathering" /\ (\A t \in waitsFor : pt[t].pc = "ended")
          /\ client' = "closed" /\ released' = released + 1 /\ closing' \in {"done", "failed"}
          /\ UNCHANGED <<closed, waitsFor, active, attempts, history, pt>>
      BY <1>4 DEF Release
    <2>2. released = 0 /\ active = {}
      BY <1>1, <2>1 DEF ProviderTypes, OnTheWire
    <2>3. ProviderTypes'
      BY <1>1, <2>1, <2>2 DEF ProviderTypes
    <2> QED BY <1>1, <2>1, <2>2, <2>3, SameOnTheWire DEF OnTheWire
  <1> QED BY <1>2, <1>3, <1>4

LEMMA ProviderKeeps ==
    ASSUME ProviderInv, [ProviderNext]_providerVars
    PROVE  ProviderInv'
  <1>1. CASE \E t \in ProviderTasks : ProviderStep(t)
    <2>1. PICK t \in ProviderTasks : ProviderStep(t) BY <1>1
    <2>2. CASE GenerateOn(t, "ok") \/ GenerateOn(t, "LLM_CONTEXT_LIMIT")
      BY <2>2, GenerateOnKeeps
    <2>3. CASE \E reply \in Replies : Replied(t, reply)
      <3>1. PICK reply \in Replies : Replied(t, reply) BY <2>3
      <3>2. ReplyCode(reply) \in CallCodes
        BY DEF CallCodes
      <3> QED BY <3>1, <3>2, EndCallKeeps DEF Replied
    <2>4. CASE \E code \in WireErrors : WireFails(t, code)
      BY <2>4, EndCallKeeps DEF WireFails, CallCodes
    <2>5. CASE Unwinds(t)
      BY <2>5, EndCallKeeps DEF Unwinds, CallCodes
    <2>6. CASE CancelCaller(t) \/ CloseProvider(t) \/ CloseReturns(t)
      BY <2>6, QuietKeeps
    <2> QED BY <2>1, <2>2, <2>3, <2>4, <2>5, <2>6 DEF ProviderStep
  <1>2. CASE StartProvider \/ Shutdown \/ Release
    BY <1>2, ClosingKeeps
  <1>3. CASE UNCHANGED providerVars
    BY <1>3 DEF providerVars, ProviderInv, ProviderTypes, OnTheWire, CallsAddUp
  <1> QED BY <1>1, <1>2, <1>3 DEF ProviderNext

(* For any number of tasks that generate, that close and that do both: when *)
(* the transport is closed nothing is on the wire and nothing can get on it, *)
(* it is closed once, and every call that was counted has left its record   *)
(* or is under way (aclose, _shutdown, the finally of generate_structured). *)
THEOREM ProviderReleasesAtRest == ProviderSpec => []ReleasedAtRest
  <1>1. ProviderInv => ReleasedAtRest
    BY DEF ProviderInv, ProviderTypes, OnTheWire, CallsAddUp, ReleasedAtRest
  <1> QED BY <1>1, ProviderStarts, ProviderKeeps, PTL DEF ProviderSpec

-----------------------------
(* The size of a set of maps. *)

WeightOf(m) == PayloadBytes(m.map)

OneOf(s) == CHOOSE x \in s : TRUE

(* The sum as a function of the subsets, the way FoldSet computes it. *)
SumsUp(g, S) ==
    g = [s \in SUBSET S |-> IF s = {} THEN 0 ELSE g[s \ {OneOf(s)}] + WeightOf(OneOf(s))]

LEMMA SizeIs ==
    ASSUME NEW S
    PROVE  SizeOf(S) = (CHOOSE g : SumsUp(g, S))[S]
  BY DEF SizeOf, FoldSet, MapThenFoldSet, SumsUp, OneOf, WeightOf

LEMMA OneIsTaken ==
    ASSUME NEW s, IsFiniteSet(s), s # {}
    PROVE  /\ OneOf(s) \in s /\ IsFiniteSet(s \ {OneOf(s)})
           /\ Cardinality(s) \in Nat /\ Cardinality(s \ {OneOf(s)}) = Cardinality(s) - 1
           /\ Cardinality(s \ {OneOf(s)}) \in Nat
  <1>1. OneOf(s) \in s
    BY DEF OneOf
  <1> QED BY <1>1, FS_RemoveElement, FS_CardinalityType

(* Of the finite sets with a flaw there is one without a flawed subset. *)
LEMMA LeastSet ==
    ASSUME NEW flawed, NEW S \in flawed, \A T \in flawed : IsFiniteSet(T)
    PROVE  \E T \in flawed : \A U \in flawed : ~(U \subseteq T /\ U # T)
  <1> DEFINE sizes == {Cardinality(T) : T \in flawed}
  <1>1. \A T \in flawed : Cardinality(T) \in Nat
    BY FS_CardinalityType
  <1>2. PICK T \in flawed : \A U \in flawed : Cardinality(T) <= Cardinality(U)
    <2>1. sizes \in SUBSET Nat /\ sizes # {}
      BY <1>1
    <2>2. PICK n \in sizes : \A m \in sizes : n <= m
      <3> HIDE DEF sizes
      <3> QED BY <2>1, LeastOf
    <2> QED BY <2>2
  <1>3. ASSUME NEW U \in flawed, U \subseteq T, U # T PROVE FALSE
    <2>1. Cardinality(U) <= Cardinality(T) /\ (Cardinality(T) = Cardinality(U) => T = U)
      BY <1>3, FS_Subset
    <2> QED BY <1>1, <1>2, <1>3, <2>1
  <1> QED BY <1>3

LEMMA SumsAreOne ==
    ASSUME NEW S, IsFiniteSet(S), NEW g, SumsUp(g, S), NEW T \in SUBSET S, NEW h, SumsUp(h, T)
    PROVE  \A s \in SUBSET T : g[s] = h[s]
  <1> DEFINE flawed == {s \in SUBSET T : g[s] # h[s]}
  <1> SUFFICES ASSUME NEW r \in flawed PROVE FALSE
    OBVIOUS
  <1>1. \A s \in flawed : IsFiniteSet(s)
    BY FS_Subset
  <1>2. PICK s \in flawed : \A u \in flawed : ~(u \subseteq s /\ u # s)
    <2> HIDE DEF flawed
    <2> QED BY <1>1, LeastSet
  <1> DEFINE u == s \ {OneOf(s)}
  <1>3. CASE s = {}
    BY <1>2, <1>3 DEF SumsUp
  <1>4. CASE s # {}
    <2>1. u \subseteq s /\ u # s /\ u \in SUBSET T /\ s \in SUBSET S
      BY <1>4 DEF OneOf
    <2>2. g[u] = h[u]
      BY <1>2, <2>1
    <2>3. g[s] = g[u] + WeightOf(OneOf(s)) /\ h[s] = h[u] + WeightOf(OneOf(s))
      BY <1>2, <1>4, <2>1 DEF SumsUp
    <2> QED BY <1>2, <2>2, <2>3
  <1> QED BY <1>3, <1>4

LEMMA SumIsThere ==
    ASSUME NEW S, IsFiniteSet(S)
    PROVE  \E g : SumsUp(g, S)
  <1> DEFINE flawed == {s \in SUBSET S : ~\E g : SumsUp(g, s)}
  <1> SUFFICES ASSUME S \in flawed PROVE FALSE
    OBVIOUS
  <1>1. \A s \in flawed : IsFiniteSet(s)
    BY FS_Subset
  <1>2. PICK s \in flawed : \A u \in flawed : ~(u \subseteq s /\ u # s)
    <2> HIDE DEF flawed
    <2> QED BY <1>1, LeastSet
  <1> DEFINE F(u) == CHOOSE g : SumsUp(g, u)
             f    == [u \in SUBSET s |->
                        IF u = {} THEN 0 ELSE F(u \ {OneOf(u)})[u \ {OneOf(u)}] + WeightOf(OneOf(u))]
  <1>3. ASSUME NEW u, u \subseteq s, u # s PROVE SumsUp(F(u), u)
    BY <1>2, <1>3
  <1>4. ASSUME NEW u, u \subseteq s, u # s PROVE f[u] = F(u)[u]
    <2>1. SumsUp(F(u), u) /\ IsFiniteSet(u)
      BY <1>1, <1>2, <1>3, <1>4, FS_Subset
    <2> HIDE DEF F
    <2>2. CASE u = {}
      BY <2>1, <2>2 DEF SumsUp
    <2>3. CASE u # {}
      <3> DEFINE v == u \ {OneOf(u)}
      <3>1. v \subseteq u /\ v \subseteq s /\ v # s /\ v \in SUBSET u
        BY <1>4
      <3>2. SumsUp(F(v), v)
        BY <1>3, <3>1
      <3>3. F(u)[v] = F(v)[v]
        BY <2>1, <3>1, <3>2, SumsAreOne
      <3>4. F(u)[u] = F(u)[v] + WeightOf(OneOf(u))
        BY <2>1, <2>3 DEF SumsUp
      <3>5. f[u] = F(v)[v] + WeightOf(OneOf(u))
        BY <1>4, <2>3
      <3> QED BY <3>3, <3>4, <3>5
    <2> QED BY <2>2, <2>3
  <1>5. SumsUp(f, s)
    <2>1. ASSUME NEW u \in SUBSET s, u # {}
          PROVE  f[u] = f[u \ {OneOf(u)}] + WeightOf(OneOf(u))
      <3> DEFINE v == u \ {OneOf(u)}
      <3>1. v \subseteq s /\ v # s /\ v # u
        BY <2>1 DEF OneOf
      <3>2. f[v] = F(v)[v]
        <4> HIDE DEF v, f, F
        <4> QED BY <1>4, <3>1
      <3>3. f[u] = F(v)[v] + WeightOf(OneOf(u))
        BY <2>1
      <3> HIDE DEF f, F
      <3> QED BY <3>2, <3>3
    <2>2. f = [u \in SUBSET s |-> f[u]] /\ (f[{}] = 0)
      OBVIOUS
    <2> HIDE DEF f
    <2>3. [u \in SUBSET s |-> f[u]]
            = [u \in SUBSET s |-> IF u = {} THEN 0 ELSE f[u \ {OneOf(u)}] + WeightOf(OneOf(u))]
      BY <2>1, <2>2
    <2> QED BY <2>2, <2>3 DEF SumsUp
  <1> QED BY <1>2, <1>5

LEMMA SizeStep ==
    ASSUME NEW S, IsFiniteSet(S)
    PROVE  /\ S = {} => SizeOf(S) = 0
           /\ S # {} => SizeOf(S) = SizeOf(S \ {OneOf(S)}) + WeightOf(OneOf(S))
  <1> DEFINE F(u) == CHOOSE g : SumsUp(g, u)
             T == S \ {OneOf(S)}
  <1>1. IsFiniteSet(T)
    BY FS_RemoveElement
  <1>2. SumsUp(F(S), S) /\ SumsUp(F(T), T)
    <2> HIDE DEF T
    <2> QED BY <1>1, SumIsThere
  <1>3. SizeOf(S) = F(S)[S] /\ SizeOf(T) = F(T)[T]
    BY SizeIs
  <1> HIDE DEF F
  <1>4. F(S)[T] = F(T)[T]
    BY <1>2, SumsAreOne
  <1> QED BY <1>2, <1>3, <1>4 DEF SumsUp

(* Maps whose sizes are numbers. *)
AreWeighed(S) == IsFiniteSet(S) /\ \A m \in S : WeightOf(m) \in Nat

LEMMA SizeIsNumber ==
    ASSUME NEW S, AreWeighed(S)
    PROVE  SizeOf(S) \in Nat
  <1> DEFINE flawed == {s \in SUBSET S : SizeOf(s) \notin Nat}
  <1> SUFFICES ASSUME S \in flawed PROVE FALSE
    OBVIOUS
  <1>1. \A s \in flawed : IsFiniteSet(s)
    BY FS_Subset DEF AreWeighed
  <1>2. PICK s \in flawed : \A u \in flawed : ~(u \subseteq s /\ u # s)
    <2> HIDE DEF flawed
    <2> QED BY <1>1, LeastSet
  <1>3. s # {}
    <2>1. IsFiniteSet(s) /\ SizeOf(s) \notin Nat
      BY <1>1, <1>2
    <2> QED BY <2>1, SizeStep
  <1> DEFINE u == s \ {OneOf(s)}
  <1>4. OneOf(s) \in s
    BY <1>3 DEF OneOf
  <1>5. SizeOf(u) \in Nat
    BY <1>2, <1>4
  <1>6. SizeOf(s) = SizeOf(u) + WeightOf(OneOf(s))
    BY <1>1, <1>2, <1>3, SizeStep
  <1>7. WeightOf(OneOf(s)) \in Nat
    BY <1>2, <1>4 DEF AreWeighed
  <1> QED BY <1>2, <1>5, <1>6, <1>7

(* Whichever is taken out takes its own size with it. *)
LEMMA SizeWithout ==
    ASSUME NEW S, AreWeighed(S), NEW y \in S
    PROVE  SizeOf(S) = SizeOf(S \ {y}) + WeightOf(y)
  <1> DEFINE Off(s, x) == SizeOf(s) # SizeOf(s \ {x}) + WeightOf(x)
             flawed == {s \in SUBSET S : \E x \in s : Off(s, x)}
  <1> SUFFICES ASSUME S \in flawed PROVE FALSE
    OBVIOUS
  <1>1. \A s \in SUBSET S : AreWeighed(s)
    BY FS_Subset DEF AreWeighed
  <1>2. PICK s \in flawed : \A u \in flawed : ~(u \subseteq s /\ u # s)
    <2>1. \A s \in flawed : IsFiniteSet(s)
      BY <1>1 DEF AreWeighed
    <2> HIDE DEF flawed
    <2> QED BY <2>1, LeastSet
  <1>3. PICK x \in s : Off(s, x)
    BY <1>2
  <1> DEFINE p == OneOf(s)
  <1>4. p \in s /\ s \in SUBSET S /\ SizeOf(s) = SizeOf(s \ {p}) + WeightOf(p)
    <2>1. p \in s
      BY <1>3 DEF OneOf
    <2>2. IsFiniteSet(s)
      BY <1>1, <1>2 DEF AreWeighed
    <2> QED BY <1>2, <2>1, <2>2, SizeStep
  <1> HIDE DEF p
  <1>5. p # x
    BY <1>3, <1>4
  <1>6. ASSUME NEW t, t \subseteq s, t # s, NEW z \in t
        PROVE  SizeOf(t) = SizeOf(t \ {z}) + WeightOf(z)
    BY <1>2, <1>4, <1>6
  <1>7. SizeOf(s \ {p}) = SizeOf((s \ {p}) \ {x}) + WeightOf(x)
    BY <1>3, <1>4, <1>5, <1>6
  <1>8. SizeOf(s \ {x}) = SizeOf((s \ {x}) \ {p}) + WeightOf(p)
    BY <1>3, <1>4, <1>5, <1>6
  <1>9. (s \ {x}) \ {p} = (s \ {p}) \ {x}
    OBVIOUS
  <1> DEFINE rest == (s \ {p}) \ {x}
  <1>10. SizeOf(rest) \in Nat /\ WeightOf(x) \in Nat /\ WeightOf(p) \in Nat
    <2>1. rest \in SUBSET S
      BY <1>4
    <2> HIDE DEF rest
    <2>2. SizeOf(rest) \in Nat
      BY <1>1, <2>1, SizeIsNumber
    <2> QED BY <1>3, <1>4, <2>2 DEF AreWeighed
  <1> HIDE DEF rest
  <1>11. /\ SizeOf(s) = (SizeOf(rest) + WeightOf(x)) + WeightOf(p)
         /\ SizeOf(s \ {x}) = SizeOf(rest) + WeightOf(p)
    BY <1>4, <1>7, <1>8, <1>9 DEF rest
  <1> QED BY <1>3, <1>10, <1>11

(* Sizes add up. *)
LEMMA SizeSplits ==
    ASSUME NEW S, AreWeighed(S), NEW R \in SUBSET S
    PROVE  SizeOf(S) = SizeOf(S \ R) + SizeOf(R)
  <1> DEFINE flawed == {T \in SUBSET R : SizeOf(S) # SizeOf(S \ T) + SizeOf(T)}
  <1> SUFFICES ASSUME R \in flawed PROVE FALSE
    OBVIOUS
  <1>1. \A T \in SUBSET S : AreWeighed(T) /\ IsFiniteSet(T) /\ SizeOf(T) \in Nat
    <2>1. \A T \in SUBSET S : AreWeighed(T)
      BY FS_Subset DEF AreWeighed
    <2> QED BY <2>1, SizeIsNumber DEF AreWeighed
  <1>2. PICK T \in flawed : \A u \in flawed : ~(u \subseteq T /\ u # T)
    <2>1. \A T \in flawed : IsFiniteSet(T)
      BY <1>1
    <2> HIDE DEF flawed
    <2> QED BY <2>1, LeastSet
  <1>3. T # {}
    <2>1. SizeOf({}) = 0 /\ S \ {} = S
      BY FS_EmptySet, SizeStep
    <2>2. SizeOf(S) \in Nat
      BY <1>1
    <2>3. SizeOf(S) # SizeOf(S \ T) + SizeOf(T)
      BY <1>2
    <2>4. SizeOf(S) = SizeOf(S \ {}) + SizeOf({})
      BY <2>1, <2>2
    <2> QED BY <2>3, <2>4
  <1>4. PICK x \in T : TRUE
    BY <1>3
  <1> DEFINE U == T \ {x}
  <1>5. SizeOf(S) = SizeOf(S \ U) + SizeOf(U)
    <2>1. U \subseteq T /\ U # T /\ U \in SUBSET R
      BY <1>4
    <2> QED BY <1>2, <2>1
  <1>6. SizeOf(T) = SizeOf(U) + WeightOf(x)
    BY <1>1, <1>2, <1>4, SizeWithout
  <1>7. SizeOf(S \ U) = SizeOf(S \ T) + WeightOf(x)
    <2>1. x \in S \ U /\ (S \ U) \ {x} = S \ T /\ S \ U \in SUBSET S
      BY <1>2, <1>4
    <2> HIDE DEF U
    <2> QED BY <1>1, <2>1, SizeWithout
  <1>8. SizeOf(U) \in Nat /\ SizeOf(S \ T) \in Nat /\ WeightOf(x) \in Nat
    <2>1. U \in SUBSET S /\ S \ T \in SUBSET S /\ x \in S
      BY <1>2, <1>4
    <2> HIDE DEF U
    <2> QED BY <1>1, <2>1 DEF AreWeighed
  <1> HIDE DEF U
  <1>9. SizeOf(S) # SizeOf(S \ T) + SizeOf(T)
    BY <1>2
  <1> QED BY <1>5, <1>6, <1>7, <1>8, <1>9

(* What is kept of the maps, and one map more. *)
LEMMA SizeKept ==
    ASSUME NEW S, AreWeighed(S), NEW K \in SUBSET S
    PROVE  /\ AreWeighed(K) /\ SizeOf(K) = SizeOf(S) - SizeOf(S \ K)
           /\ SizeOf(K) \in Nat /\ SizeOf(S) \in Nat /\ SizeOf(S \ K) \in Nat
           /\ SizeOf(K) <= SizeOf(S) /\ Cardinality(K) <= Cardinality(S)
  <1>1. AreWeighed(K) /\ AreWeighed(S \ K) /\ Cardinality(K) <= Cardinality(S)
    BY FS_Subset DEF AreWeighed
  <1>2. SizeOf(K) \in Nat /\ SizeOf(S) \in Nat /\ SizeOf(S \ K) \in Nat
    BY <1>1, SizeIsNumber
  <1>3. S \ (S \ K) = K
    OBVIOUS
  <1>4. SizeOf(S) = SizeOf(K) + SizeOf(S \ K)
    BY <1>3, SizeSplits
  <1> QED BY <1>1, <1>2, <1>4

LEMMA SizeMore ==
    ASSUME NEW S, AreWeighed(S), NEW m, m \notin S, WeightOf(m) \in Nat
    PROVE  /\ AreWeighed(S \cup {m}) /\ SizeOf(S \cup {m}) = SizeOf(S) + WeightOf(m)
           /\ Cardinality(S \cup {m}) = Cardinality(S) + 1
  <1>1. AreWeighed(S \cup {m}) /\ Cardinality(S \cup {m}) = Cardinality(S) + 1
    BY FS_AddElement DEF AreWeighed
  <1>2. (S \cup {m}) \ {m} = S
    OBVIOUS
  <1>3. SizeOf(S \cup {m}) = SizeOf((S \cup {m}) \ {m}) + WeightOf(m)
    BY <1>1, SizeWithout
  <1> QED BY <1>1, <1>2, <1>3

-----------------------------
(* Folds over finite sets. *)

(* The result for every subset, each from that of the subset without what   *)
(* is picked out of it.                                                     *)
Folds(f, S, base, pick, G) ==
    f = [s \in SUBSET S |-> IF s = {} THEN base ELSE G[<<pick[s], f[s \ {pick[s]}]>>]]

Picks(pick, S) == \A s \in SUBSET S : s # {} => pick[s] \in s

LEMMA FoldOnce ==
    ASSUME NEW S, IsFiniteSet(S), NEW base, NEW pick, Picks(pick, S), NEW G,
           NEW f, Folds(f, S, base, pick, G), NEW T \in SUBSET S, NEW g, Folds(g, T, base, pick, G)
    PROVE  \A s \in SUBSET T : f[s] = g[s]
  <1> DEFINE flawed == {s \in SUBSET T : f[s] # g[s]}
  <1> SUFFICES ASSUME NEW r \in flawed PROVE FALSE
    OBVIOUS
  <1>1. \A s \in flawed : IsFiniteSet(s)
    BY FS_Subset
  <1>2. PICK s \in flawed : \A u \in flawed : ~(u \subseteq s /\ u # s)
    <2> HIDE DEF flawed
    <2> QED BY <1>1, LeastSet
  <1> DEFINE u == s \ {pick[s]}
  <1>3. CASE s = {}
    BY <1>2, <1>3 DEF Folds
  <1>4. CASE s # {}
    <2>1. u \subseteq s /\ u # s /\ u \in SUBSET T /\ s \in SUBSET S
      BY <1>4 DEF Picks
    <2>2. f[u] = g[u]
      BY <1>2, <2>1
    <2>3. f[s] = G[<<pick[s], f[u]>>] /\ g[s] = G[<<pick[s], g[u]>>]
      BY <1>2, <1>4, <2>1 DEF Folds
    <2> QED BY <1>2, <2>2, <2>3
  <1> QED BY <1>3, <1>4

(* There is such a fold for every finite set: the first without one would   *)
(* have one.                                                                *)
LEMMA FoldIsThere ==
    ASSUME NEW S, IsFiniteSet(S), NEW base, NEW pick, Picks(pick, S), NEW G
    PROVE  \E f : Folds(f, S, base, pick, G)
  <1> DEFINE flawed == {s \in SUBSET S : ~\E f : Folds(f, s, base, pick, G)}
  <1> SUFFICES ASSUME S \in flawed PROVE FALSE
    OBVIOUS
  <1>1. \A s \in flawed : IsFiniteSet(s)
    BY FS_Subset
  <1>2. PICK s \in flawed : \A u \in flawed : ~(u \subseteq s /\ u # s)
    <2> HIDE DEF flawed
    <2> QED BY <1>1, LeastSet
  <1> DEFINE F(u) == CHOOSE f : Folds(f, u, base, pick, G)
             rest(u) == u \ {pick[u]}
             f == [u \in SUBSET s |-> IF u = {} THEN base ELSE G[<<pick[u], F(rest(u))[rest(u)]>>]]
  <1>3. ASSUME NEW u, u \subseteq s, u # s
        PROVE  Folds(F(u), u, base, pick, G) /\ IsFiniteSet(u) /\ Picks(pick, u) /\ u \in SUBSET S
    <2>1. Folds(F(u), u, base, pick, G)
      BY <1>2, <1>3
    <2> QED BY <1>1, <1>2, <1>3, <2>1, FS_Subset DEF Picks
  <1>4. ASSUME NEW u, u \subseteq s, u # s PROVE f[u] = F(u)[u]
    <2>1. Folds(F(u), u, base, pick, G) /\ IsFiniteSet(u) /\ Picks(pick, u) /\ u \in SUBSET S
      BY <1>3, <1>4
    <2> HIDE DEF F
    <2>2. CASE u = {}
      BY <2>1, <2>2 DEF Folds
    <2>3. CASE u # {}
      <3> DEFINE v == rest(u)
      <3>1. v \subseteq u /\ v \subseteq s /\ v # s /\ v \in SUBSET u
        BY <1>4, <2>1, <2>3 DEF Picks
      <3>2. Folds(F(v), v, base, pick, G)
        BY <1>3, <3>1
      <3>3. F(u)[v] = F(v)[v]
        <4> HIDE DEF v
        <4>1. \A t \in SUBSET v : F(u)[t] = F(v)[t]
          BY <2>1, <3>1, <3>2, FoldOnce
        <4> QED BY <4>1
      <3>4. F(u)[u] = G[<<pick[u], F(u)[v]>>]
        BY <2>1, <2>3 DEF Folds
      <3>5. f[u] = G[<<pick[u], F(v)[v]>>]
        BY <1>4, <2>3
      <3> QED BY <3>3, <3>4, <3>5
    <2> QED BY <2>2, <2>3
  <1>5. Folds(f, s, base, pick, G)
    <2>1. ASSUME NEW u \in SUBSET s, u # {} PROVE f[u] = G[<<pick[u], f[rest(u)]>>]
      <3> DEFINE v == rest(u)
      <3>1. v \subseteq s /\ v # s
        BY <1>2, <2>1 DEF Picks
      <3>2. f[v] = F(v)[v]
        <4> HIDE DEF v, f, F
        <4> QED BY <1>4, <3>1
      <3>3. f[u] = G[<<pick[u], F(v)[v]>>]
        BY <2>1
      <3> HIDE DEF f, F
      <3> QED BY <3>2, <3>3
    <2>2. f = [u \in SUBSET s |-> f[u]] /\ f[{}] = base
      OBVIOUS
    <2> HIDE DEF f
    <2>3. [u \in SUBSET s |-> f[u]]
            = [u \in SUBSET s |-> IF u = {} THEN base ELSE G[<<pick[u], f[u \ {pick[u]}]>>]]
      BY <2>1, <2>2
    <2> QED BY <2>2, <2>3 DEF Folds
  <1> QED BY <1>2, <1>5

(* What the steps keep within a set, the fold is in. *)
LEMMA FoldStays ==
    ASSUME NEW S, IsFiniteSet(S), NEW base, NEW pick, Picks(pick, S), NEW G, NEW f, Folds(f, S, base, pick, G),
           NEW Y, base \in Y, \A x \in S, y \in Y : G[<<x, y>>] \in Y
    PROVE  \A s \in SUBSET S : f[s] \in Y
  <1> DEFINE flawed == {s \in SUBSET S : f[s] \notin Y}
  <1> SUFFICES ASSUME NEW r \in flawed PROVE FALSE
    OBVIOUS
  <1>1. \A s \in flawed : IsFiniteSet(s)
    BY FS_Subset
  <1>2. PICK s \in flawed : \A u \in flawed : ~(u \subseteq s /\ u # s)
    <2> HIDE DEF flawed
    <2> QED BY <1>1, LeastSet
  <1> DEFINE u == s \ {pick[s]}
  <1>3. CASE s = {}
    BY <1>2, <1>3 DEF Folds
  <1>4. CASE s # {}
    <2>1. u \subseteq s /\ u # s /\ u \in SUBSET S /\ pick[s] \in S
      BY <1>4 DEF Picks
    <2>2. f[u] \in Y
      BY <1>2, <2>1
    <2>3. f[s] = G[<<pick[s], f[u]>>]
      BY <1>2, <1>4 DEF Folds
    <2> QED BY <1>2, <2>1, <2>2, <2>3
  <1> QED BY <1>3, <1>4

-----------------------------
(* Findings that overlap become one. *)

(* The spans made of some findings: in order, each begins where a finding   *)
(* begins, and they cover what the findings cover.                          *)
Covers(spans, found, size) ==
    /\ spans \in Seq(SpansIn(size))
    /\ \A i, j \in 1..Len(spans) : i < j => spans[i][2] <= spans[j][1]
    /\ \A i \in 1..Len(spans) : \E f \in found : spans[i][1] = f[1]
    /\ \A k \in 1..size :
         (\E f \in found : f[1] < k /\ k <= f[2]) <=> (\E i \in 1..Len(spans) : spans[i][1] < k /\ k <= spans[i][2])

LEMMA SpanIs ==
    ASSUME NEW size \in Nat
    PROVE  /\ \A f \in SpansIn(size) : /\ f = <<f[1], f[2]>> /\ f[1] \in 0..size /\ f[2] \in 0..size
                                       /\ f[1] < f[2]
           /\ \A a, b \in 0..size : a < b => <<a, b>> \in SpansIn(size)
  BY DEF SpansIn

(* There is a latest of some findings. *)
LEMMA LatestIs ==
    ASSUME NEW size \in Nat, NEW found \in SUBSET SpansIn(size), found # {}
    PROVE  /\ LatestOf(found) \in found
           /\ \A g \in found : g[1] <= LatestOf(found)[1]
  <1> DEFINE starts == {size - f[1] : f \in found}
  <1>0. \A f \in found : f[1] \in 0..size /\ f[2] \in 0..size
    BY SpanIs
  <1>1. PICK n \in starts : \A m \in starts : n <= m
    <2>1. starts \in SUBSET Nat /\ starts # {}
      BY <1>0
    <2> HIDE DEF starts
    <2> QED BY <2>1, LeastOf
  <1>2. PICK f \in found : n = size - f[1]
    BY <1>1
  <1>3. \A g \in found : g[1] <= f[1]
    BY <1>0, <1>1, <1>2
  <1> DEFINE last == {g \in found : g[1] = f[1]}
             ends == {size - g[2] : g \in last}
  <1>4. PICK m \in ends : \A k \in ends : m <= k
    <2>1. ends \in SUBSET Nat /\ ends # {}
      BY <1>0
    <2> HIDE DEF ends
    <2> QED BY <2>1, LeastOf
  <1>5. PICK h \in last : m = size - h[2]
    BY <1>4
  <1>6. ASSUME NEW g \in last PROVE g[2] <= h[2]
    <2>1. size - g[2] \in ends
      OBVIOUS
    <2>2. m <= size - g[2]
      BY <1>4, <2>1
    <2>3. g[2] \in 0..size /\ h[2] \in 0..size
      BY <1>0
    <2> QED BY <1>5, <2>2, <2>3
  <1>7. \A g \in found : ~Before(h, g)
    BY <1>0, <1>3, <1>5, <1>6 DEF Before
  <1>8. LatestOf(found) \in found /\ \A g \in found : ~Before(LatestOf(found), g)
    BY <1>5, <1>7 DEF LatestOf
  <1>9. \A g \in found : g[1] <= LatestOf(found)[1]
    BY <1>0, <1>8 DEF Before
  <1> QED BY <1>8, <1>9

LEMMA MaxOfTwo ==
    ASSUME NEW a \in Nat, NEW b \in Nat
    PROVE  Max({a, b}) = IF a >= b THEN a ELSE b
  BY DEF Max

(* A finding that begins no earlier than the others joins the last span, or *)
(* begins one.                                                              *)
LEMMA JoinedCovers ==
    ASSUME NEW size \in Nat, NEW found \in SUBSET SpansIn(size), NEW f \in SpansIn(size),
           \A g \in found : g[1] <= f[1], NEW spans, Covers(spans, found, size)
    PROVE  Covers(Joined(f, spans), found \cup {f}, size)
  <1> DEFINE n   == Len(spans)
             all == found \cup {f}
             new == Joined(f, spans)
  <1>1. /\ spans \in Seq(SpansIn(size)) /\ n \in Nat /\ DOMAIN spans = 1..n
        /\ f = <<f[1], f[2]>> /\ f[1] \in 0..size /\ f[2] \in 0..size /\ f[1] < f[2]
        /\ \A i \in 1..n : /\ spans[i] \in SpansIn(size) /\ spans[i][1] \in 0..size
                           /\ spans[i][2] \in 0..size /\ spans[i][1] < spans[i][2]
    BY SpanIs DEF Covers
  <1>2. /\ \A i, j \in 1..n : i < j => spans[i][2] <= spans[j][1]
        /\ \A i \in 1..n : \E g \in found : spans[i][1] = g[1]
        /\ \A k \in 1..size :
             (\E g \in found : g[1] < k /\ k <= g[2]) <=> (\E i \in 1..n : spans[i][1] < k /\ k <= spans[i][2])
    BY DEF Covers
  <1>3. spans # <<>> => n \in 1..n
    BY <1>1
  <1>4. CASE spans # <<>> /\ f[1] < spans[n][2]
    <2> DEFINE a == spans[n][1]
               e == spans[n][2]
               b == IF e >= f[2] THEN e ELSE f[2]
    <2>1. new = [spans EXCEPT ![n] = <<a, b>>]
      <3>1. Max({e, f[2]}) = b
        BY <1>1, <1>3, <1>4, MaxOfTwo
      <3> QED BY <1>4, <3>1 DEF Joined
    <2>2. a \in 0..size /\ b \in 0..size /\ a < b /\ <<a, b>> \in SpansIn(size) /\ a <= f[1] /\ e <= b /\ f[2] <= b
          /\ (b = e \/ b = f[2]) /\ f[1] < e
      <3>1. a \in 0..size /\ e \in 0..size /\ a < e
        BY <1>1, <1>3, <1>4
      <3>2. b \in 0..size /\ a < b /\ e <= b /\ f[2] <= b /\ (b = e \/ b = f[2])
        BY <1>1, <3>1
      <3>3. <<a, b>> \in SpansIn(size)
        BY <3>1, <3>2, SpanIs
      <3>4. a <= f[1]
        BY <1>2, <1>3, <1>4
      <3> QED BY <1>4, <3>1, <3>2, <3>3, <3>4
    <2> HIDE DEF a, b, new
    <2>3. /\ new \in Seq(SpansIn(size)) /\ Len(new) = n
          /\ \A i \in 1..n : new[i] = IF i = n THEN <<a, b>> ELSE spans[i]
      BY <1>1, <1>3, <1>4, <2>1, <2>2
    <2>4. /\ \A i \in 1..n : new[i][1] = spans[i][1]
          /\ \A i \in 1..n : new[i][2] = IF i = n THEN b ELSE spans[i][2]
      BY <2>3 DEF a
    <2>5. \A i, j \in 1..n : i < j => new[i][2] <= new[j][1]
      BY <1>1, <1>2, <2>4
    <2>6. ASSUME NEW k \in 1..size
          PROVE  (\E g \in all : g[1] < k /\ k <= g[2]) <=> (\E i \in 1..n : new[i][1] < k /\ k <= new[i][2])
      <3>1. ASSUME NEW g \in all, g[1] < k, k <= g[2] PROVE \E i \in 1..n : new[i][1] < k /\ k <= new[i][2]
        <4>1. CASE g = f
          <5>1. new[n][1] = a /\ new[n][2] = b
            BY <1>3, <1>4, <2>4 DEF a
          <5>2. a < k /\ k <= b
            BY <1>1, <2>2, <3>1, <4>1
          <5> QED BY <1>3, <1>4, <5>1, <5>2
        <4>2. CASE g \in found
          <5>1. PICK i \in 1..n : spans[i][1] < k /\ k <= spans[i][2]
            BY <1>2, <3>1, <4>2
          <5>2. new[i][1] < k /\ k <= new[i][2]
            BY <1>1, <2>2, <2>4, <5>1
          <5> QED BY <5>2
        <4> QED BY <4>1, <4>2
      <3>2. ASSUME NEW i \in 1..n, new[i][1] < k, k <= new[i][2] PROVE \E g \in all : g[1] < k /\ k <= g[2]
        <4>1. CASE k <= spans[i][2]
          BY <1>2, <2>4, <3>2, <4>1
        <4>2. CASE ~(k <= spans[i][2])
          <5>1. i = n /\ k <= b /\ e < k
            BY <1>1, <2>4, <3>2, <4>2
          <5>2. f[1] < k /\ k <= f[2]
            BY <1>1, <1>3, <2>2, <5>1
          <5> QED BY <5>2
        <4> QED BY <4>1, <4>2
      <3> QED BY <3>1, <3>2
    <2>7. \A i \in 1..n : \E g \in all : new[i][1] = g[1]
      BY <1>2, <2>4
    <2> QED BY <2>3, <2>5, <2>6, <2>7 DEF Covers, new
  <1>5. CASE ~(spans # <<>> /\ f[1] < spans[n][2])
    <2>1. new = Append(spans, f)
      BY <1>5 DEF Joined
    <2> HIDE DEF new
    <2>2. /\ new \in Seq(SpansIn(size)) /\ Len(new) = n + 1 /\ new[n + 1] = f
          /\ \A i \in 1..n : new[i] = spans[i]
      BY <1>1, <2>1
    <2>3. \A i \in 1..n : spans[i][2] <= f[1]
      <3> TAKE i \in 1..n
      <3>1. spans # <<>> /\ n \in 1..n
        BY <1>1
      <3>2. spans[n][2] <= f[1]
        BY <1>1, <1>5, <3>1
      <3>3. i < n => spans[i][2] <= spans[n][1]
        BY <1>2, <3>1
      <3> QED BY <1>1, <3>1, <3>2, <3>3
    <2>4. \A i, j \in 1..(n + 1) : i < j => new[i][2] <= new[j][1]
      BY <1>1, <1>2, <2>2, <2>3
    <2>5. \A i \in 1..(n + 1) : \E g \in all : new[i][1] = g[1]
      <3> TAKE i \in 1..(n + 1)
      <3>1. CASE i = n + 1
        BY <2>2, <3>1
      <3>2. CASE i # n + 1
        <4>1. i \in 1..n
          BY <1>1, <3>2
        <4> QED BY <1>2, <2>2, <4>1
      <3> QED BY <3>1, <3>2
    <2>6. ASSUME NEW k \in 1..size
          PROVE  (\E g \in all : g[1] < k /\ k <= g[2]) <=> (\E i \in 1..(n + 1) : new[i][1] < k /\ k <= new[i][2])
      <3>1. ASSUME NEW g \in all, g[1] < k, k <= g[2] PROVE \E i \in 1..(n + 1) : new[i][1] < k /\ k <= new[i][2]
        <4>1. CASE g = f
          <5>1. n + 1 \in 1..(n + 1)
            BY <1>1
          <5> QED BY <2>2, <3>1, <4>1, <5>1
        <4>2. CASE g \in found
          <5>1. PICK i \in 1..n : spans[i][1] < k /\ k <= spans[i][2]
            BY <1>2, <3>1, <4>2
          <5>2. i \in 1..(n + 1) /\ new[i] = spans[i]
            BY <1>1, <2>2
          <5> QED BY <5>1, <5>2
        <4> QED BY <4>1, <4>2
      <3>2. ASSUME NEW i \in 1..(n + 1), new[i][1] < k, k <= new[i][2] PROVE \E g \in all : g[1] < k /\ k <= g[2]
        <4>1. CASE i = n + 1
          BY <2>2, <3>2, <4>1
        <4>2. CASE i # n + 1
          <5>1. i \in 1..n /\ new[i] = spans[i]
            BY <1>1, <2>2, <4>2
          <5> QED BY <1>2, <3>2, <5>1
        <4> QED BY <4>1, <4>2
      <3> QED BY <3>1, <3>2
    <2> QED BY <2>2, <2>4, <2>5, <2>6 DEF Covers, new
  <1> QED BY <1>4, <1>5

(* The fold of Merged, for every subset of the findings. *)
MergesUp(it, found) ==
    it = [s \in SUBSET found |-> IF s = {} THEN <<>> ELSE Joined(LatestOf(s), it[s \ {LatestOf(s)}])]

LEMMA MergedIs ==
    ASSUME NEW found
    PROVE  Merged(found) = (CHOOSE it : MergesUp(it, found))[found]
  BY DEF Merged, MapThenFoldSet, MergesUp

LEMMA MergedCovers ==
    ASSUME NEW size \in Nat, NEW found \in SUBSET SpansIn(size), IsFiniteSet(found)
    PROVE  Covers(Merged(found), found, size)
  <1> DEFINE Y    == Seq(SpansIn(size))
             pick == [s \in SUBSET found |-> LatestOf(s)]
             G    == [xy \in found \X Y |-> Joined(xy[1], xy[2])]
  <1>1. Picks(pick, found)
    <2>1. ASSUME NEW s \in SUBSET found, s # {} PROVE pick[s] \in s
      <3>1. s \in SUBSET SpansIn(size)
        OBVIOUS
      <3>2. LatestOf(s) \in s
        BY <2>1, <3>1, LatestIs
      <3> QED BY <3>2
    <2> HIDE DEF pick
    <2> QED BY <2>1 DEF Picks
  <1>2. \A x \in found, y \in Y : G[<<x, y>>] = Joined(x, y) /\ Joined(x, y) \in Y
    <2> TAKE x \in found, y \in Y
    <2>1. G[<<x, y>>] = Joined(x, y)
      OBVIOUS
    <2>2. x \in SpansIn(size) /\ x[1] \in 0..size /\ x[2] \in 0..size /\ x[1] < x[2]
      BY SpanIs
    <2>3. CASE y # <<>> /\ x[1] < y[Len(y)][2]
      <3> DEFINE e == y[Len(y)]
      <3>1. e \in SpansIn(size) /\ Len(y) \in 1..Len(y)
        BY <2>3
      <3>2. e[1] \in 0..size /\ e[2] \in 0..size /\ e[1] < e[2]
        BY <3>1, SpanIs
      <3>3. Max({e[2], x[2]}) \in 0..size /\ Max({e[2], x[2]}) >= e[2]
        BY <2>2, <3>2, MaxOfTwo
      <3> DEFINE m == Max({e[2], x[2]})
      <3>4. <<e[1], m>> \in SpansIn(size)
        <4>1. m \in 0..size /\ e[1] < m
          BY <3>2, <3>3
        <4> HIDE DEF m
        <4> QED BY <3>2, <4>1, SpanIs
      <3>5. Joined(x, y) = [y EXCEPT ![Len(y)] = <<e[1], m>>]
        BY <2>3 DEF Joined
      <3> HIDE DEF m, e
      <3> QED BY <2>1, <3>1, <3>4, <3>5
    <2>4. CASE ~(y # <<>> /\ x[1] < y[Len(y)][2])
      <3>1. Joined(x, y) = Append(y, x)
        BY <2>4 DEF Joined
      <3> QED BY <2>1, <2>2, <3>1
    <2> QED BY <2>3, <2>4
  <1>3. PICK f : Folds(f, found, <<>>, pick, G)
    <2> HIDE DEF pick, G
    <2> QED BY <1>1, FoldIsThere
  <1>4. \A s \in SUBSET found : f[s] \in Y
    <2>1. <<>> \in Y
      OBVIOUS
    <2>2. \A x \in found, y \in Y : G[<<x, y>>] \in Y
      <3> HIDE DEF G, Y
      <3> QED BY <1>2
    <2> DEFINE base == <<>>
    <2>3. base \in Y /\ Folds(f, found, base, pick, G)
      BY <1>3, <2>1
    <2> HIDE DEF pick, G, Y, base
    <2> QED BY <1>1, <2>2, <2>3, FoldStays
  <1>5. MergesUp(f, found)
    <2>1. f = [s \in SUBSET found |-> f[s]] /\ f[{}] = <<>>
      BY <1>3 DEF Folds
    <2>2. ASSUME NEW s \in SUBSET found, s # {} PROVE f[s] = Joined(LatestOf(s), f[s \ {LatestOf(s)}])
      <3>1. f[s] = G[<<pick[s], f[s \ {pick[s]}]>>]
        <4> HIDE DEF pick, G
        <4> QED BY <1>3, <2>2 DEF Folds
      <3>2. pick[s] = LatestOf(s) /\ pick[s] \in found
        BY <1>1, <2>2 DEF Picks
      <3>3. f[s \ {pick[s]}] \in Y
        BY <1>4
      <3> HIDE DEF pick, G, Y
      <3> QED BY <1>2, <3>1, <3>2, <3>3
    <2> HIDE DEF pick, G, Y
    <2> QED BY <2>1, <2>2 DEF MergesUp
  <1> HIDE DEF pick, G, Y
  <1> DEFINE it == CHOOSE h : MergesUp(h, found)
  <1>6. MergesUp(it, found) /\ Merged(found) = it[found]
    BY <1>5, MergedIs
  <1> HIDE DEF it
  <1> DEFINE flawed == {s \in SUBSET found : ~Covers(it[s], s, size)}
  <1>7. flawed = {}
    <2> SUFFICES ASSUME NEW r \in flawed PROVE FALSE
      OBVIOUS
    <2>1. \A s \in flawed : IsFiniteSet(s)
      BY FS_Subset
    <2>2. PICK s \in flawed : \A u \in flawed : ~(u \subseteq s /\ u # s)
      <3> HIDE DEF flawed
      <3> QED BY <2>1, LeastSet
    <2>3. s \in SUBSET SpansIn(size) /\ s \in SUBSET found
      BY <2>2
    <2>4. CASE s = {}
      <3>1. it[s] = <<>>
        BY <1>6, <2>4 DEF MergesUp
      <3>2. Covers(<<>>, {}, size)
        BY DEF Covers
      <3> QED BY <2>2, <2>4, <3>1, <3>2
    <2>5. CASE s # {}
      <3> DEFINE x == LatestOf(s)
                 u == s \ {x}
      <3>1. x \in s /\ x \in SpansIn(size) /\ \A g \in u : g[1] <= x[1]
        BY <2>3, <2>5, LatestIs
      <3>2. it[s] = Joined(x, it[u])
        BY <1>6, <2>3, <2>5 DEF MergesUp
      <3> HIDE DEF x
      <3>3. u \subseteq s /\ u # s /\ u \in SUBSET found /\ u \in SUBSET SpansIn(size) /\ u \cup {x} = s
        BY <2>3, <3>1
      <3>4. Covers(it[u], u, size)
        BY <2>2, <3>3
      <3> HIDE DEF u
      <3>5. Covers(Joined(x, it[u]), u \cup {x}, size)
        BY <3>1, <3>3, <3>4, JoinedCovers
      <3> QED BY <2>2, <3>2, <3>3, <3>5
    <2> QED BY <2>4, <2>5
  <1> QED BY <1>6, <1>7

-----------------------------
(* A masked text, told item by item. *)

Symbols(text) == {text[i] : i \in DOMAIN text}
Items(text) == [char : Symbols(text) \cup {Absent}, token : Nat]
IsText(text) == text \in Seq(Symbols(text))
IsMap(map, text) == map \in Seq(Seq(Symbols(text)))

(* Where in the text each item ends: a letter is the next character, which  *)
(* no finding covers, and a token stands for a piece that findings cover.   *)
Tells(p, out, map, text, bare, end) ==
    /\ out \in Seq(Items(text)) /\ IsMap(map, text)
    /\ p \in [0..Len(out) -> 0..end] /\ p[0] = 0 /\ p[Len(out)] = end
    /\ \A i \in 1..Len(out) :
         \/ /\ out[i].token = 0 /\ p[i] = p[i - 1] + 1 /\ out[i].char = text[p[i]] /\ p[i] \in bare
         \/ /\ out[i].token \in 1..Len(map) /\ p[i - 1] < p[i]
            /\ map[out[i].token] = SubSeq(text, p[i - 1] + 1, p[i])
            /\ \A k \in bare : ~(p[i - 1] < k /\ k <= p[i])

LEMMA PlacesTold ==
    ASSUME NEW p, NEW out, NEW map, NEW text, NEW bare, NEW end, Tells(p, out, map, text, bare, end)
    PROVE  /\ out \in Seq(Items(text)) /\ Len(out) \in Nat /\ DOMAIN out = 1..Len(out)
           /\ p[0] = 0 /\ p[Len(out)] = end /\ \A i \in 0..Len(out) : p[i] \in 0..end
  BY DEF Tells

LEMMA TellsNothing ==
    ASSUME NEW text, NEW bare
    PROVE  Tells([i \in 0..0 |-> 0], <<>>, <<>>, text, bare, 0)
  BY DEF Tells, IsMap

(* Letters that follow. *)
LEMMA TellLetters ==
    ASSUME NEW text, IsText(text), NEW bare, NEW c \in 0..Len(text), NEW a \in c..Len(text),
           \A k \in (c + 1)..a : k \in bare,
           NEW p, NEW out, NEW map, Tells(p, out, map, text, bare, c)
    PROVE  \E q : Tells(q, out \o Unmasked(text, c, a), map, text, bare, a)
  <1> DEFINE n    == Len(out)
             m    == a - c
             more == Unmasked(text, c, a)
             new  == out \o more
             q    == [i \in 0..(n + m) |-> IF i <= n THEN p[i] ELSE c + (i - n)]
  <1>1. /\ out \in Seq(Items(text)) /\ n \in Nat /\ IsMap(map, text) /\ p[0] = 0 /\ p[n] = c
        /\ \A i \in 0..n : p[i] \in 0..c
    BY DEF Tells
  <1>2. m \in Nat /\ c \in Nat /\ a \in Nat /\ Len(text) \in Nat /\ c + m = a
    BY DEF IsText
  <1>3. /\ more \in Seq(Items(text)) /\ Len(more) = m
        /\ \A i \in 1..m : more[i].token = 0 /\ more[i].char = text[c + i]
    <2>1. \A i \in 1..m : text[c + i] \in Symbols(text)
      <3> TAKE i \in 1..m
      <3>1. c + i \in 1..Len(text) /\ DOMAIN text = 1..Len(text)
        BY <1>2 DEF IsText
      <3> QED BY <3>1 DEF Symbols
    <2>2. more = [i \in 1..m |-> Char(text[c + i])]
      BY DEF Unmasked
    <2> HIDE DEF more, m
    <2>3. \A i \in 1..m : Char(text[c + i]) \in Items(text)
      BY <2>1 DEF Char, Items
    <2>4. more \in Seq(Items(text)) /\ Len(more) = m
      BY <1>2, <2>2, <2>3
    <2>5. \A i \in 1..m : more[i].token = 0 /\ more[i].char = text[c + i]
      BY <2>2 DEF Char
    <2> QED BY <2>4, <2>5
  <1> HIDE DEF more, m, n
  <1>4. /\ new \in Seq(Items(text)) /\ Len(new) = n + m
        /\ \A i \in 1..(n + m) : new[i] = IF i <= n THEN out[i] ELSE more[i - n]
    BY <1>1, <1>3, ConcatProperties DEF n
  <1> HIDE DEF new
  <1>5. q \in [0..(n + m) -> 0..a] /\ q[0] = 0 /\ q[n + m] = a
    <2>1. \A i \in 0..(n + m) : q[i] \in 0..a
      BY <1>1, <1>2
    <2>2. q[0] = 0
      BY <1>1, <1>2
    <2>3. q[n + m] = a
      BY <1>1, <1>2
    <2> QED BY <2>1, <2>2, <2>3
  <1>6. ASSUME NEW i \in 1..(n + m)
        PROVE  \/ /\ new[i].token = 0 /\ q[i] = q[i - 1] + 1 /\ new[i].char = text[q[i]] /\ q[i] \in bare
               \/ /\ new[i].token \in 1..Len(map) /\ q[i - 1] < q[i]
                  /\ map[new[i].token] = SubSeq(text, q[i - 1] + 1, q[i])
                  /\ \A k \in bare : ~(q[i - 1] < k /\ k <= q[i])
    <2>1. CASE i <= n
      <3>1. i \in 1..n /\ q[i] = p[i] /\ q[i - 1] = p[i - 1] /\ new[i] = out[i]
        BY <1>1, <1>2, <1>4, <2>1
      <3> HIDE DEF q
      <3> QED BY <3>1 DEF Tells, n
    <2>2. CASE ~(i <= n)
      <3>1. i - n \in 1..m /\ new[i] = more[i - n] /\ q[i] = c + (i - n)
        BY <1>1, <1>2, <1>4, <2>2
      <3>2. q[i - 1] = c + (i - n) - 1
        <4>1. CASE i - 1 = n
          BY <1>1, <1>2, <4>1
        <4>2. CASE i - 1 # n
          <5>1. i - 1 \in 0..(n + m) /\ ~(i - 1 <= n)
            BY <1>1, <1>2, <2>2, <4>2
          <5> QED BY <1>1, <1>2, <5>1
        <4> QED BY <4>1, <4>2
      <3>3. c + (i - n) \in (c + 1)..a
        BY <1>1, <1>2, <3>1
      <3> HIDE DEF q
      <3>4. q[i] = q[i - 1] + 1
        BY <1>1, <1>2, <3>1, <3>2
      <3> QED BY <1>3, <3>1, <3>3, <3>4
    <2> QED BY <2>1, <2>2
  <1> HIDE DEF q
  <1>7. Tells(q, new, map, text, bare, a)
    BY <1>1, <1>4, <1>5, <1>6 DEF Tells
  <1> QED BY <1>7 DEF new, more

(* A token that follows, with a map that knows it. *)
LEMMA TellToken ==
    ASSUME NEW text, IsText(text), NEW bare, NEW a \in 0..Len(text), NEW b \in (a + 1)..Len(text),
           \A k \in bare : ~(a < k /\ k <= b),
           NEW p, NEW out, NEW map, Tells(p, out, map, text, bare, a),
           NEW wide, IsMap(wide, text), Len(wide) >= Len(map), \A i \in 1..Len(map) : wide[i] = map[i],
           NEW t \in 1..Len(wide), wide[t] = SubSeq(text, a + 1, b)
    PROVE  \E q : Tells(q, out \o <<Token(t)>>, wide, text, bare, b)
  <1> DEFINE n    == Len(out)
             item == Token(t)
             new  == out \o <<item>>
             q    == [i \in 0..(n + 1) |-> IF i <= n THEN p[i] ELSE b]
  <1>1. /\ out \in Seq(Items(text)) /\ n \in Nat /\ p[0] = 0 /\ p[n] = a
        /\ \A i \in 0..n : p[i] \in 0..a
    BY PlacesTold
  <1>2. a \in Nat /\ b \in Nat /\ a < b /\ Len(text) \in Nat /\ Len(map) \in Nat /\ Len(wide) \in Nat
    BY DEF IsText, IsMap, Tells
  <1>3. item \in Items(text) /\ item.token = t
    BY <1>2 DEF Items, Token
  <1> HIDE DEF item, n
  <1>4. /\ new \in Seq(Items(text)) /\ Len(new) = n + 1 /\ new[n + 1] = item
        /\ \A i \in 1..n : new[i] = out[i]
    <2>1. <<item>> \in Seq(Items(text)) /\ Len(<<item>>) = 1 /\ <<item>>[1] = item
      BY <1>3
    <2>2. /\ new \in Seq(Items(text)) /\ Len(new) = n + 1
          /\ \A i \in 1..(n + 1) : new[i] = IF i <= n THEN out[i] ELSE <<item>>[i - n]
      <3> DEFINE one == <<item>>
      <3> HIDE DEF one
      <3> QED BY <1>1, <2>1, ConcatProperties DEF n, one
    <2> QED BY <1>1, <2>1, <2>2
  <1> HIDE DEF new
  <1>5. q \in [0..(n + 1) -> 0..b] /\ q[0] = 0 /\ q[n + 1] = b
    BY <1>1, <1>2
  <1>6. ASSUME NEW i \in 1..(n + 1)
        PROVE  \/ /\ new[i].token = 0 /\ q[i] = q[i - 1] + 1 /\ new[i].char = text[q[i]] /\ q[i] \in bare
               \/ /\ new[i].token \in 1..Len(wide) /\ q[i - 1] < q[i]
                  /\ wide[new[i].token] = SubSeq(text, q[i - 1] + 1, q[i])
                  /\ \A k \in bare : ~(q[i - 1] < k /\ k <= q[i])
    <2>1. CASE i <= n
      <3>0. i \in 1..n /\ i - 1 <= n /\ i \in 0..(n + 1) /\ i - 1 \in 0..(n + 1)
        BY <1>1, <2>1
      <3>1. i \in 1..n /\ q[i] = p[i] /\ q[i - 1] = p[i - 1] /\ new[i] = out[i]
        BY <1>4, <2>1, <3>0
      <3>2. \A j \in 1..Len(map) : j \in 1..Len(wide) /\ wide[j] = map[j]
        BY <1>2
      <3> HIDE DEF q
      <3> QED BY <3>1, <3>2 DEF Tells, n
    <2>2. CASE ~(i <= n)
      <3>1. i = n + 1 /\ q[i] = b /\ q[i - 1] = a
        BY <1>1, <1>2, <2>2
      <3> HIDE DEF q
      <3> QED BY <1>2, <1>3, <1>4, <3>1
    <2> QED BY <2>1, <2>2
  <1> HIDE DEF q
  <1>7. Tells(q, new, wide, text, bare, b)
    BY <1>1, <1>4, <1>5, <1>6 DEF Tells
  <1> QED BY <1>7 DEF new, item

-----------------------------
(* One finding after the other is replaced. *)

Accumulators(text) == [cursor : 0..Len(text), map : Seq(Seq(Symbols(text))), out : Seq(Items(text))]

(* What a replacement does: the piece that is taken out is in the map. *)
Replaces(wide, t, text, span, acc) ==
    /\ IsMap(wide, text) /\ Len(wide) >= Len(acc.map) /\ \A i \in 1..Len(acc.map) : wide[i] = acc.map[i]
    /\ t \in 1..Len(wide) /\ wide[t] = SubSeq(text, span[1] + 1, span[2])
    /\ Replaced(text, span, acc)
         = [cursor |-> span[2], map |-> wide,
            out |-> (acc.out \o Unmasked(text, acc.cursor, span[1])) \o <<Token(t)>>]

LEMMA ReplacedIs ==
    ASSUME NEW text, IsText(text), NEW span \in SpansIn(Len(text)), NEW acc, IsMap(acc.map, text)
    PROVE  \E wide, t : Replaces(wide, t, text, span, acc)
  <1> DEFINE raw  == SubSeq(text, span[1] + 1, span[2])
             map  == acc.map
             old  == raw \in {map[i] : i \in DOMAIN map}
             wide == IF old THEN map ELSE Append(map, raw)
             t    == CHOOSE i \in DOMAIN wide : wide[i] = raw
  <1>1. Len(text) \in Nat /\ span[1] \in 0..Len(text) /\ span[2] \in 0..Len(text)
    BY SpanIs DEF IsText
  <1>2. raw \in Seq(Symbols(text))
    <2>1. \A i \in (span[1] + 1)..span[2] : text[i] \in Symbols(text)
      <3> TAKE i \in (span[1] + 1)..span[2]
      <3>1. i \in 1..Len(text) /\ DOMAIN text = 1..Len(text)
        BY <1>1 DEF IsText
      <3> QED BY <3>1 DEF Symbols
    <2> QED BY <1>1, <2>1, SubSeqProperties
  <1>3. Replaced(text, span, acc)
          = [cursor |-> span[2], map |-> wide,
             out |-> (acc.out \o Unmasked(text, acc.cursor, span[1])) \o <<Token(t)>>]
    BY DEF Replaced
  <1> HIDE DEF raw
  <1>4. /\ IsMap(wide, text) /\ Len(wide) >= Len(map) /\ \A i \in 1..Len(map) : wide[i] = map[i]
        /\ \E i \in 1..Len(wide) : wide[i] = raw
    <2> DEFINE R == Seq(Symbols(text))
    <2>1. map \in Seq(R) /\ raw \in R /\ Len(map) \in Nat /\ DOMAIN map = 1..Len(map)
      BY <1>2 DEF IsMap
    <2> HIDE DEF R
    <2>2. CASE old
      <3>1. wide = map /\ \E i \in 1..Len(map) : map[i] = raw
        BY <2>1, <2>2
      <3> HIDE DEF wide
      <3> QED BY <2>1, <3>1 DEF IsMap, R
    <2>3. CASE ~old
      <3>1. wide = Append(map, raw)
        BY <2>3
      <3> HIDE DEF wide
      <3>2. wide \in Seq(R) /\ Len(wide) = Len(map) + 1 /\ wide[Len(map) + 1] = raw
            /\ \A i \in 1..Len(map) : wide[i] = map[i]
        BY <2>1, <3>1
      <3>3. Len(map) + 1 \in 1..Len(wide) /\ Len(wide) >= Len(map)
        BY <2>1, <3>2
      <3> QED BY <3>2, <3>3 DEF IsMap, R
    <2> QED BY <2>2, <2>3
  <1> HIDE DEF wide, old
  <1>5. t \in 1..Len(wide) /\ wide[t] = raw
    <2>1. DOMAIN wide = 1..Len(wide)
      BY <1>4 DEF IsMap
    <2> QED BY <1>4, <2>1
  <1> HIDE DEF t
  <1>6. Replaces(wide, t, text, span, acc)
    BY <1>3, <1>4, <1>5 DEF raw, Replaces
  <1> QED BY <1>6

LEMMA ReplacedStays ==
    ASSUME NEW text, IsText(text), NEW span \in SpansIn(Len(text)), NEW acc \in Accumulators(text)
    PROVE  Replaced(text, span, acc) \in Accumulators(text)
  <1>1. IsMap(acc.map, text) /\ acc.cursor \in 0..Len(text) /\ acc.out \in Seq(Items(text))
    BY DEF Accumulators, IsMap
  <1>0. PICK wide, t : Replaces(wide, t, text, span, acc)
    BY <1>1, ReplacedIs
  <1>2. /\ IsMap(wide, text) /\ t \in 1..Len(wide)
        /\ Replaced(text, span, acc)
             = [cursor |-> span[2], map |-> wide,
                out |-> (acc.out \o Unmasked(text, acc.cursor, span[1])) \o <<Token(t)>>]
    BY <1>0 DEF Replaces
  <1>3. Len(text) \in Nat /\ span[1] \in 0..Len(text) /\ span[2] \in 0..Len(text) /\ DOMAIN text = 1..Len(text)
    BY SpanIs DEF IsText
  <1> DEFINE m    == span[1] - acc.cursor
             more == Unmasked(text, acc.cursor, span[1])
             item == Token(t)
  <1>4. more \in Seq(Items(text))
    <2>1. \A i \in 1..m : text[acc.cursor + i] \in Symbols(text)
      <3> TAKE i \in 1..m
      <3>1. acc.cursor + i \in 1..Len(text)
        BY <1>1, <1>3
      <3> QED BY <1>3, <3>1 DEF Symbols
    <2>2. more = [i \in 1..m |-> Char(text[acc.cursor + i])]
      BY DEF Unmasked
    <2>3. m \in Int
      BY <1>1, <1>3
    <2> HIDE DEF more, m
    <2>4. \A i \in 1..m : Char(text[acc.cursor + i]) \in Items(text)
      BY <2>1 DEF Char, Items
    <2>5. CASE m \in Nat
      BY <2>2, <2>4, <2>5
    <2>6. CASE m \notin Nat
      <3>1. 1..m = {}
        BY <2>3, <2>6
      <3>2. more = <<>>
        BY <2>2, <3>1
      <3> QED BY <3>2
    <2> QED BY <2>5, <2>6
  <1>5. item \in Items(text)
    <2>1. t \in Nat
      BY <1>2 DEF IsMap
    <2> QED BY <2>1 DEF Items, Token
  <1> HIDE DEF more, item
  <1>6. (acc.out \o more) \o <<item>> \in Seq(Items(text))
    BY <1>1, <1>4, <1>5
  <1>7. wide \in Seq(Seq(Symbols(text)))
    BY <1>2 DEF IsMap
  <1> QED BY <1>2, <1>3, <1>6, <1>7 DEF Accumulators, more, item

LEMMA ReplacedTells ==
    ASSUME NEW text, IsText(text), NEW bare, NEW span \in SpansIn(Len(text)), NEW acc, NEW c \in 0..Len(text),
           acc.cursor = c, c <= span[1], \A k \in (c + 1)..span[1] : k \in bare,
           \A k \in bare : ~(span[1] < k /\ k <= span[2]),
           NEW p, Tells(p, acc.out, acc.map, text, bare, c)
    PROVE  /\ Replaced(text, span, acc).cursor = span[2]
           /\ \E q : Tells(q, Replaced(text, span, acc).out, Replaced(text, span, acc).map, text, bare, span[2])
  <1> DEFINE a   == span[1]
             b   == span[2]
             mid == acc.out \o Unmasked(text, c, a)
  <1>1. Len(text) \in Nat /\ a \in c..Len(text) /\ a \in 0..Len(text) /\ b \in (a + 1)..Len(text)
    BY SpanIs DEF IsText
  <1>2. IsMap(acc.map, text)
    BY DEF Tells
  <1>0. PICK wide, t : Replaces(wide, t, text, span, acc)
    BY <1>2, ReplacedIs
  <1>3. /\ IsMap(wide, text) /\ Len(wide) >= Len(acc.map) /\ \A i \in 1..Len(acc.map) : wide[i] = acc.map[i]
        /\ t \in 1..Len(wide) /\ wide[t] = SubSeq(text, a + 1, b)
        /\ Replaced(text, span, acc) = [cursor |-> b, map |-> wide, out |-> mid \o <<Token(t)>>]
    BY <1>0 DEF Replaces
  <1> HIDE DEF a, b
  <1>4. PICK r : Tells(r, mid, acc.map, text, bare, a)
    <2>1. \A k \in (c + 1)..a : k \in bare
      BY DEF a
    <2> QED BY <1>1, <2>1, TellLetters
  <1> HIDE DEF mid
  <1>5. \E q : Tells(q, mid \o <<Token(t)>>, wide, text, bare, b)
    <2>1. \A k \in bare : ~(a < k /\ k <= b)
      BY DEF a, b
    <2> QED BY <1>1, <1>3, <1>4, <2>1, TellToken
  <1> QED BY <1>3, <1>5 DEF b

-----------------------------
(* Masking. *)

Begun == [cursor |-> 0, map |-> <<>>, out |-> <<>>]

MasksUp(it, text, spans) ==
    it = [s \in SUBSET DOMAIN spans |->
            IF s = {} THEN Begun ELSE Replaced(text, spans[Max(s)], it[s \ {Max(s)}])]

LEMMA MaskedIs ==
    ASSUME NEW text, NEW found
    PROVE  LET end == (CHOOSE it : MasksUp(it, text, Merged(found)))[DOMAIN Merged(found)]
           IN  /\ Masked(text, found).out = end.out \o Unmasked(text, end.cursor, Len(text))
               /\ Masked(text, found).map = end.map
  BY DEF Masked, FoldLeft, MapThenFoldSet, MasksUp, Begun

LEMMA MaxOfList ==
    ASSUME NEW n \in Nat \ {0}
    PROVE  Max(1..n) = n /\ (1..n) \ {n} = 1..(n - 1)
  <1>1. n \in 1..n /\ \A y \in 1..n : n >= y
    OBVIOUS
  <1>2. Max(1..n) \in 1..n /\ \A y \in 1..n : Max(1..n) >= y
    BY <1>1 DEF Max
  <1> QED BY <1>1, <1>2

LEMMA MaxOfNumbers ==
    ASSUME NEW n \in Nat, NEW s \in SUBSET (1..n), s # {}
    PROVE  Max(s) \in s
  <1> DEFINE flawed == {n - x : x \in s}
  <1>1. flawed \in SUBSET Nat /\ flawed # {}
    <2>1. \A x \in s : x \in 1..n /\ n - x \in Nat
      OBVIOUS
    <2>2. PICK x \in s : TRUE
      OBVIOUS
    <2>3. n - x \in flawed
      OBVIOUS
    <2> QED BY <2>1, <2>3
  <1>2. PICK k \in flawed : \A m \in flawed : k <= m
    <2> HIDE DEF flawed
    <2> QED BY <1>1, LeastOf
  <1>3. PICK x \in s : k = n - x
    BY <1>2
  <1>4. ASSUME NEW y \in s PROVE x >= y
    <2>1. n - y \in flawed
      OBVIOUS
    <2>2. k <= n - y
      BY <1>2, <2>1
    <2>3. x \in 1..n /\ y \in 1..n
      OBVIOUS
    <2> QED BY <1>3, <2>2, <2>3
  <1> QED BY <1>3, <1>4 DEF Max

(* The fold of mask, for every first part of the spans. *)
LEMMA MaskingFolds ==
    ASSUME NEW text, IsText(text), NEW spans \in Seq(SpansIn(Len(text)))
    PROVE  \E it : MasksUp(it, text, spans)
  <1> DEFINE S    == DOMAIN spans
             Y    == Accumulators(text)
             pick == [s \in SUBSET S |-> Max(s)]
             G    == [xy \in S \X Y |-> Replaced(text, spans[xy[1]], xy[2])]
  <1>1. S = 1..Len(spans) /\ Len(spans) \in Nat /\ IsFiniteSet(S) /\ \A i \in S : spans[i] \in SpansIn(Len(text))
    <2>1. S = 1..Len(spans) /\ Len(spans) \in Nat
      OBVIOUS
    <2>2. IsFiniteSet(1..Len(spans))
      BY <2>1, FS_Interval
    <2> QED BY <2>1, <2>2
  <1> HIDE DEF S
  <1>2. Picks(pick, S)
    <2>1. ASSUME NEW s \in SUBSET S, s # {} PROVE pick[s] \in s
      <3>1. Max(s) \in s
        BY <1>1, <2>1, MaxOfNumbers
      <3> QED BY <3>1
    <2> HIDE DEF pick
    <2> QED BY <2>1 DEF Picks
  <1>3. \A x \in S, y \in Y : G[<<x, y>>] = Replaced(text, spans[x], y)
    OBVIOUS
  <1>4. \A x \in S, y \in Y : G[<<x, y>>] \in Y
    <2> HIDE DEF G
    <2> QED BY <1>1, <1>3, ReplacedStays
  <1>5. Begun \in Y
    <2>1. 0 \in 0..Len(text)
      BY DEF IsText
    <2> QED BY <2>1 DEF Begun, Accumulators
  <1> HIDE DEF G, Y
  <1>6. PICK f : Folds(f, S, Begun, pick, G)
    <2> HIDE DEF pick
    <2> QED BY <1>1, <1>2, FoldIsThere
  <1>7. \A s \in SUBSET S : f[s] \in Y
    <2> HIDE DEF pick
    <2> QED BY <1>1, <1>2, <1>4, <1>5, <1>6, FoldStays
  <1>8. f = [s \in SUBSET S |-> f[s]] /\ f[{}] = Begun
    BY <1>6 DEF Folds
  <1>9. ASSUME NEW s \in SUBSET S, s # {} PROVE f[s] = Replaced(text, spans[Max(s)], f[s \ {Max(s)}])
    <2>1. f[s] = G[<<pick[s], f[s \ {pick[s]}]>>]
      <3> HIDE DEF pick
      <3> QED BY <1>6, <1>9 DEF Folds
    <2>2. pick[s] = Max(s) /\ pick[s] \in S
      BY <1>2, <1>9 DEF Picks
    <2>3. f[s \ {pick[s]}] \in Y
      BY <1>7
    <2> HIDE DEF pick
    <2> QED BY <1>3, <2>1, <2>2, <2>3
  <1> HIDE DEF pick
  <1>10. MasksUp(f, text, spans)
    <2>1. [s \in SUBSET S |-> f[s]]
            = [s \in SUBSET S |-> IF s = {} THEN Begun ELSE Replaced(text, spans[Max(s)], f[s \ {Max(s)}])]
      BY <1>8, <1>9
    <2> QED BY <1>8, <2>1 DEF MasksUp, S
  <1> QED BY <1>10

(* Between two spans nothing was found, nor before the first or behind the  *)
(* last.                                                                    *)
LEMMA GapIsBare ==
    ASSUME NEW text, IsText(text), NEW found, found \subseteq SpansIn(Len(text)), NEW spans, Covers(spans, found, Len(text)),
           NEW n \in 0..Len(spans), NEW c, c = IF n = 0 THEN 0 ELSE spans[n][2],
           NEW a, a = IF n = Len(spans) THEN Len(text) ELSE spans[n + 1][1]
    PROVE  c \in 0..Len(text) /\ a \in c..Len(text) /\ \A k \in (c + 1)..a : k \in Untouched(text, found)
  <1> DEFINE size == Len(text)
             m    == Len(spans)
  <1>1. /\ size \in Nat /\ m \in Nat /\ DOMAIN text = 1..size
        /\ \A f \in found : f[1] \in 0..size /\ f[2] \in 0..size
        /\ \A i \in 1..m : spans[i][1] \in 0..size /\ spans[i][2] \in 0..size /\ spans[i][1] < spans[i][2]
    <2>1. \A i \in 1..m : spans[i] \in SpansIn(size)
      BY DEF Covers
    <2>2. size \in Nat /\ m \in Nat /\ DOMAIN text = 1..size
      BY DEF Covers, IsText
    <2> HIDE DEF size, m
    <2> QED BY <2>1, <2>2, SpanIs DEF size
  <1>2. /\ \A i, j \in 1..m : i < j => spans[i][2] <= spans[j][1]
        /\ \A k \in 1..size :
             (\E f \in found : f[1] < k /\ k <= f[2]) <=> (\E i \in 1..m : spans[i][1] < k /\ k <= spans[i][2])
    BY DEF Covers
  <1>3. n \in 0..m /\ c = (IF n = 0 THEN 0 ELSE spans[n][2]) /\ a = IF n = m THEN size ELSE spans[n + 1][1]
    OBVIOUS
  <1> HIDE DEF size, m
  <1>4. /\ n # 0 => n \in 1..m
        /\ n # m => n + 1 \in 1..m
    BY <1>1, <1>3
  <1>5. c \in 0..size /\ a \in 0..size
    BY <1>1, <1>3, <1>4
  <1>6. c <= a
    <2>1. CASE n = 0
      BY <1>3, <1>5, <2>1
    <2>2. CASE n = m
      BY <1>3, <1>5, <2>2
    <2>3. CASE n # 0 /\ n # m
      <3>1. n \in 1..m /\ n + 1 \in 1..m /\ n < n + 1
        BY <1>4, <2>3
      <3> QED BY <1>2, <1>3, <2>3, <3>1
    <2> QED BY <2>1, <2>2, <2>3
  <1>7. ASSUME NEW i \in 1..m PROVE spans[i][2] <= c \/ a <= spans[i][1]
    <2>1. CASE i <= n
      <3>1. n # 0 /\ n \in 1..m
        BY <1>1, <1>3, <1>4, <2>1
      <3>2. i = n \/ spans[i][2] <= spans[n][1]
        BY <1>2, <2>1, <3>1
      <3> QED BY <1>1, <1>3, <3>1, <3>2
    <2>2. CASE ~(i <= n)
      <3>1. n # m /\ n + 1 \in 1..m /\ n + 1 <= i
        BY <1>1, <1>3, <1>4, <2>2
      <3>2. i = n + 1 \/ spans[n + 1][2] <= spans[i][1]
        BY <1>2, <3>1
      <3> QED BY <1>1, <1>3, <3>1, <3>2
    <2> QED BY <2>1, <2>2
  <1>8. ASSUME NEW k \in (c + 1)..a PROVE k \in Untouched(text, found)
    <2>1. k \in 1..size
      BY <1>1, <1>5
    <2>2. ~\E i \in 1..m : spans[i][1] < k /\ k <= spans[i][2]
      <3> SUFFICES ASSUME NEW i \in 1..m, spans[i][1] < k, k <= spans[i][2] PROVE FALSE
        OBVIOUS
      <3>1. spans[i][1] \in Int /\ spans[i][2] \in Int
        BY <1>1
      <3>2. spans[i][2] <= c \/ a <= spans[i][1]
        BY <1>7
      <3>3. c \in Int /\ a \in Int /\ k \in Int /\ c < k /\ k <= a
        BY <1>1, <1>5, <1>8
      <3> QED BY <3>1, <3>2, <3>3
    <2>3. ~\E f \in found : f[1] < k /\ k <= f[2]
      BY <1>2, <2>1, <2>2
    <2>4. ASSUME NEW f \in found PROVE k <= f[1] \/ k > f[2]
      <3>1. f[1] \in Int /\ f[2] \in Int /\ k \in Int
        BY <1>1, <2>1
      <3>2. ~(f[1] < k /\ k <= f[2])
        BY <2>3
      <3> QED BY <3>1, <3>2
    <2> QED BY <1>1, <2>1, <2>4 DEF Untouched
  <1>9. c \in 0..size /\ a \in c..size
    BY <1>1, <1>5, <1>6
  <1>10. \A k \in (c + 1)..a : k \in Untouched(text, found)
    BY <1>8
  <1> QED BY <1>9, <1>10 DEF size

(* What mask gives out tells the text, item by item, and hides whatever was *)
(* found in it.                                                             *)
LEMMA MaskedTells ==
    ASSUME NEW text, IsText(text), NEW found, IsFiniteSet(found), found \subseteq SpansIn(Len(text))
    PROVE  \E p : Tells(p, Masked(text, found).out, Masked(text, found).map, text, Untouched(text, found), Len(text))
  <1> DEFINE size  == Len(text)
             spans == Merged(found)
             bare  == Untouched(text, found)
             m     == Len(spans)
             it    == CHOOSE h : MasksUp(h, text, spans)
             acc(n) == it[1..n]
             at(n)  == IF n = 0 THEN 0 ELSE spans[n][2]
             upto(n) == IF n = m THEN size ELSE spans[n + 1][1]
  <1>1. size \in Nat /\ Covers(spans, found, size)
    BY MergedCovers DEF IsText
  <1>2. spans \in Seq(SpansIn(size)) /\ m \in Nat /\ DOMAIN spans = 1..m
    BY <1>1 DEF Covers
  <1>3. MasksUp(it, text, spans)
    <2> HIDE DEF spans
    <2> QED BY <1>2, MaskingFolds
  <1>4. /\ Masked(text, found).out = acc(m).out \o Unmasked(text, acc(m).cursor, size)
        /\ Masked(text, found).map = acc(m).map
    BY <1>2, MaskedIs
  <1> HIDE DEF it, spans, m, size, bare
  <1>5. \A n \in 0..m : at(n) \in 0..size /\ upto(n) \in at(n)..size /\ \A k \in (at(n) + 1)..upto(n) : k \in bare
    <2> TAKE n \in 0..m
    <2>1. /\ at(n) = (IF n = 0 THEN 0 ELSE spans[n][2])
          /\ upto(n) = IF n = Len(spans) THEN Len(text) ELSE spans[n + 1][1]
          /\ n \in 0..Len(spans) /\ Covers(spans, found, Len(text))
      BY <1>1 DEF m, size
    <2> HIDE DEF at, upto
    <2> QED BY <2>1, GapIsBare DEF size, bare
  <1> DEFINE Right(n) == acc(n).cursor = at(n) /\ \E p : Tells(p, acc(n).out, acc(n).map, text, bare, at(n))
             flawed == {n \in 0..m : ~Right(n)}
  <1>6. flawed = {}
    <2> SUFFICES ASSUME flawed # {} PROVE FALSE
      OBVIOUS
    <2>1. PICK n \in flawed : \A j \in flawed : n <= j
      <3>1. flawed \in SUBSET Nat
        BY <1>2
      <3> HIDE DEF flawed
      <3> QED BY <3>1, LeastOf
    <2>2. CASE n = 0
      <3>1. 1..0 = {} /\ {} \in SUBSET DOMAIN spans
        OBVIOUS
      <3>2. it[{}] = Begun
        BY <1>3, <3>1 DEF MasksUp
      <3>3. acc(0).cursor = 0 /\ acc(0).out = <<>> /\ acc(0).map = <<>>
        BY <3>1, <3>2 DEF Begun
      <3>4. at(0) = 0
        OBVIOUS
      <3> HIDE DEF acc, at
      <3>5. Right(0)
        BY <3>3, <3>4, TellsNothing
      <3> QED BY <2>1, <2>2, <3>5
    <2>3. CASE n # 0
      <3> DEFINE k == n - 1
                 span == spans[n]
      <3>1. n \in 0..m /\ n \in Nat \ {0} /\ k \in 0..m /\ n \in 1..m /\ k # m /\ k + 1 = n
        BY <1>2, <2>1, <2>3
      <3>2. Right(k)
        <4>1. k \notin flawed
          BY <1>2, <2>1, <3>1
        <4> HIDE DEF k, Right
        <4> QED BY <3>1, <4>1
      <3>3. acc(n) = Replaced(text, span, acc(k))
        <4>1. Max(1..n) = n /\ (1..n) \ {n} = 1..k
          BY <3>1, MaxOfList
        <4>2. 1..n \in SUBSET DOMAIN spans /\ 1..n # {}
          BY <1>2, <3>1
        <4>3. it[1..n] = Replaced(text, spans[Max(1..n)], it[(1..n) \ {Max(1..n)}])
          BY <1>3, <4>2 DEF MasksUp
        <4> QED BY <4>1, <4>3
      <3>4. at(n) = span[2] /\ upto(k) = span[1]
        BY <2>3, <3>1
      <3>5. at(k) \in 0..size /\ upto(k) \in at(k)..size /\ \A j \in (at(k) + 1)..upto(k) : j \in bare
        BY <1>5, <3>1
      <3>6. span \in SpansIn(size) /\ span[1] \in 0..size /\ span[2] \in 0..size
        <4>1. span \in SpansIn(size)
          BY <1>2, <3>1
        <4> HIDE DEF span
        <4> QED BY <1>1, <4>1, SpanIs
      <3>7. \A j \in bare : ~(span[1] < j /\ j <= span[2])
        <4> SUFFICES ASSUME NEW j \in bare, span[1] < j, j <= span[2] PROVE FALSE
          OBVIOUS
        <4>1. j \in 1..size /\ \A f \in found : j <= f[1] \/ j > f[2]
          BY DEF bare, Untouched, size, IsText
        <4>2. \E f \in found : f[1] < j /\ j <= f[2]
          BY <1>1, <3>1, <4>1 DEF Covers, m
        <4>3. PICK f \in found : f[1] < j /\ j <= f[2]
          BY <4>2
        <4>4. f[1] \in 0..size /\ f[2] \in 0..size
          BY <1>1, SpanIs DEF size
        <4> QED BY <4>1, <4>3, <4>4
      <3> DEFINE c == at(k)
      <3>8. acc(k).cursor = c /\ \E p : Tells(p, acc(k).out, acc(k).map, text, bare, c)
        BY <3>2
      <3>9. c \in 0..Len(text) /\ c <= span[1] /\ \A j \in (c + 1)..span[1] : j \in bare
        BY <3>4, <3>5, <3>6 DEF size
      <3> HIDE DEF c, acc, at, upto, span, k
      <3>10. PICK p : Tells(p, acc(k).out, acc(k).map, text, bare, c)
        BY <3>8
      <3>11. /\ Replaced(text, span, acc(k)).cursor = span[2]
             /\ \E q : Tells(q, Replaced(text, span, acc(k)).out, Replaced(text, span, acc(k)).map, text, bare, span[2])
        BY <3>6, <3>7, <3>8, <3>9, <3>10, ReplacedTells DEF size
      <3>12. Right(n)
        BY <3>3, <3>4, <3>11
      <3> QED BY <2>1, <3>12
    <2> QED BY <2>2, <2>3
  <1>7. Right(m)
    <2>1. m \in 0..m
      BY <1>2
    <2> HIDE DEF Right
    <2> QED BY <1>6, <2>1
  <1>8. upto(m) = size /\ at(m) \in 0..size /\ size \in at(m)..size /\ \A k \in (at(m) + 1)..size : k \in bare
    <2>1. m \in 0..m /\ upto(m) = size
      BY <1>2
    <2> HIDE DEF at, upto
    <2> QED BY <1>5, <2>1
  <1> DEFINE c == at(m)
             o == acc(m).out
             map == acc(m).map
  <1>9. acc(m).cursor = c /\ \E p : Tells(p, o, map, text, bare, c)
    BY <1>7
  <1>10. c \in 0..Len(text) /\ Len(text) \in c..Len(text) /\ \A k \in (c + 1)..Len(text) : k \in bare
    BY <1>8 DEF size
  <1>11. Masked(text, found).out = o \o Unmasked(text, c, Len(text)) /\ Masked(text, found).map = map
    BY <1>4, <1>9 DEF size
  <1> HIDE DEF c, o, map
  <1>12. PICK p : Tells(p, o, map, text, bare, c)
    BY <1>9
  <1>13. \E q : Tells(q, o \o Unmasked(text, c, Len(text)), map, text, bare, Len(text))
    BY <1>10, <1>12, TellLetters
  <1> QED BY <1>11, <1>13 DEF bare

-----------------------------
(* What was masked is restored. *)

(* Pieces, the way FlattenSeq puts them together. *)
PutTogether(f, seqs, n) == f = [i \in 1..n |-> IF i = 1 THEN seqs[i] ELSE f[i - 1] \o seqs[i]]

LEMMA PiecesArePutTogether ==
    ASSUME NEW s, NEW n \in Nat
    PROVE  \E f : PutTogether(f, s, n)
  <1> DEFINE flawed == {m \in Nat : ~\E f : PutTogether(f, s, m)}
  <1> SUFFICES ASSUME flawed # {} PROVE FALSE
    OBVIOUS
  <1>1. flawed \in SUBSET Nat
    OBVIOUS
  <1>2. PICK m \in flawed : \A j \in flawed : m <= j
    <2> HIDE DEF flawed
    <2> QED BY <1>1, LeastOf
  <1>3. CASE m = 0
    <2>1. PutTogether([i \in {} |-> {}], s, 0)
      BY DEF PutTogether
    <2> QED BY <1>2, <1>3, <2>1
  <1>4. CASE m # 0
    <2>1. m \in Nat /\ m - 1 \in Nat /\ ~(m <= m - 1)
      BY <1>2, <1>4
    <2>2. PICK f : PutTogether(f, s, m - 1)
      BY <1>2, <2>1
    <2> DEFINE end == IF m = 1 THEN s[m] ELSE f[m - 1] \o s[m]
               g   == [i \in 1..m |-> IF i = m THEN end ELSE f[i]]
    <2>3. ASSUME NEW i \in 1..m PROVE g[i] = IF i = 1 THEN s[i] ELSE g[i - 1] \o s[i]
      <3>1. CASE i = m
        <4>1. m # 1 => m - 1 \in 1..m /\ m - 1 # m
          BY <2>1
        <4>2. m # 1 => g[m - 1] = f[m - 1]
          BY <4>1
        <4> QED BY <3>1, <4>2
      <3>2. CASE i # m
        <4>1. i \in 1..(m - 1) /\ (i # 1 => i - 1 \in 1..m /\ i - 1 # m)
          BY <2>1, <3>2
        <4>2. f[i] = IF i = 1 THEN s[i] ELSE f[i - 1] \o s[i]
          BY <2>2, <4>1 DEF PutTogether
        <4>3. g[i] = f[i] /\ (i # 1 => g[i - 1] = f[i - 1])
          BY <3>2, <4>1
        <4> QED BY <4>2, <4>3
      <3> QED BY <3>1, <3>2
    <2>4. PutTogether(g, s, m)
      <3>1. g = [i \in 1..m |-> g[i]]
        OBVIOUS
      <3> HIDE DEF g
      <3> QED BY <2>3, <3>1 DEF PutTogether
    <2> QED BY <1>2, <2>1, <2>4
  <1> QED BY <1>3, <1>4

LEMMA FlattenedIs ==
    ASSUME NEW s, Len(s) \in Nat \ {0}
    PROVE  \E f : PutTogether(f, s, Len(s)) /\ FlattenSeq(s) = f[Len(s)]
  <1> DEFINE F == CHOOSE f : PutTogether(f, s, Len(s))
  <1>1. PutTogether(F, s, Len(s))
    BY PiecesArePutTogether
  <1>2. FlattenSeq(s) = F[Len(s)]
    BY DEF FlattenSeq, PutTogether
  <1> QED BY <1>1, <1>2

(* One item stands for the piece of the text between two places. *)
PieceOf(item, map) == IF item.token = 0 THEN <<item.char>> ELSE map[item.token]

LEMMA PieceIs ==
    ASSUME NEW text, IsText(text), NEW p, NEW out, NEW map, NEW bare, Tells(p, out, map, text, bare, Len(text)),
           NEW i \in 1..Len(out)
    PROVE  p[i - 1] < p[i] /\ PieceOf(out[i], map) = SubSeq(text, p[i - 1] + 1, p[i])
  <1>1. p[i - 1] \in 0..Len(text) /\ p[i] \in 0..Len(text) /\ Len(text) \in Nat
    <2>1. i \in 0..Len(out) /\ i - 1 \in 0..Len(out)
      BY PlacesTold
    <2>2. \A j \in 0..Len(out) : p[j] \in 0..Len(text)
      BY PlacesTold
    <2> QED BY <2>1, <2>2 DEF IsText
  <1>2. \/ /\ out[i].token = 0 /\ p[i] = p[i - 1] + 1 /\ out[i].char = text[p[i]]
        \/ /\ out[i].token \in 1..Len(map) /\ p[i - 1] < p[i]
           /\ map[out[i].token] = SubSeq(text, p[i - 1] + 1, p[i])
    BY DEF Tells
  <1> DEFINE k == p[i]
  <1>3. CASE out[i].token = 0 /\ k = p[i - 1] + 1 /\ out[i].char = text[k]
    <2>1. k \in 1..Len(text) /\ k \in k..Len(text) /\ p[i - 1] = k - 1 /\ text \in Seq(Symbols(text))
      BY <1>1, <1>3 DEF IsText
    <2> HIDE DEF k
    <2>2. SubSeq(text, k, k) = SubSeq(text, k, k - 1) \o <<text[k]>>
      BY <2>1, SubSeqRecursiveSecond
    <2>3. SubSeq(text, k, k - 1) = <<>>
      BY <2>1, SubSeqEmpty
    <2>4. text[k] \in Symbols(text)
      BY <2>1 DEF IsText
    <2>5. SubSeq(text, k, k) = <<text[k]>>
      <3> DEFINE one == <<text[k]>>
      <3>1. one \in Seq(Symbols(text))
        BY <2>4
      <3>2. SubSeq(text, k, k) = <<>> \o one
        BY <2>2, <2>3
      <3> HIDE DEF one
      <3>3. <<>> \o one = one
        BY <3>1, ConcatEmptySeq
      <3> QED BY <3>2, <3>3 DEF one
    <2>6. PieceOf(out[i], map) = <<text[k]>>
      BY <1>3 DEF PieceOf
    <2>7. p[i - 1] + 1 = k /\ p[i - 1] < k
      BY <1>1, <2>1
    <2> QED BY <2>5, <2>6, <2>7 DEF k
  <1>4. CASE out[i].token \in 1..Len(map) /\ p[i - 1] < p[i] /\ map[out[i].token] = SubSeq(text, p[i - 1] + 1, p[i])
    <2>1. out[i].token # 0
      <3>1. Len(map) \in Nat
        BY DEF Tells, IsMap
      <3> QED BY <1>4, <3>1
    <2> QED BY <1>4, <2>1 DEF PieceOf
  <1> QED BY <1>2, <1>3, <1>4

(* Restoring tells the text again. *)
LEMMA RestoredIs ==
    ASSUME NEW text, IsText(text), NEW p, NEW out, NEW map, NEW bare, Tells(p, out, map, text, bare, Len(text))
    PROVE  Restored(out, map) = text
  <1> DEFINE n      == Len(out)
             pieces == [i \in DOMAIN out |-> PieceOf(out[i], map)]
  <1>1. /\ n \in Nat /\ DOMAIN out = 1..n /\ p[0] = 0 /\ p[n] = Len(text) /\ Len(text) \in Nat
        /\ \A i \in 0..n : p[i] \in 0..Len(text)
    <2>1. Len(text) \in Nat
      BY DEF IsText
    <2> QED BY <2>1, PlacesTold
  <1>2. Restored(out, map) = FlattenSeq(pieces)
    BY DEF Restored, PieceOf
  <1>3. Len(pieces) = n
    BY <1>1
  <1>4. ASSUME NEW i \in 1..n PROVE p[i - 1] < p[i] /\ pieces[i] = SubSeq(text, p[i - 1] + 1, p[i])
    <2>1. pieces[i] = PieceOf(out[i], map)
      BY <1>1
    <2> QED BY <2>1, PieceIs
  <1>5. text \in Seq(Symbols(text))
    BY DEF IsText
  <1> HIDE DEF pieces
  <1>6. CASE n = 0
    <2>1. Len(text) = 0 /\ text = <<>>
      BY <1>1, <1>5, <1>6
    <2>2. Len(pieces) = 0 /\ pieces = <<>>
      <3>1. DOMAIN pieces = {}
        BY <1>1, <1>6 DEF pieces
      <3> QED BY <1>3, <1>6, <3>1 DEF pieces
    <2> QED BY <1>2, <2>1, <2>2 DEF FlattenSeq
  <1>7. CASE n # 0
    <2>1. PICK f : PutTogether(f, pieces, n) /\ FlattenSeq(pieces) = f[n]
      <3>1. Len(pieces) \in Nat \ {0}
        BY <1>1, <1>3, <1>7
      <3> QED BY <1>3, <3>1, FlattenedIs
    <2> HIDE DEF n
    <2> DEFINE flawed == {i \in 1..n : f[i] # SubSeq(text, 1, p[i])}
    <2>2. flawed = {}
      <3> SUFFICES ASSUME flawed # {} PROVE FALSE
        OBVIOUS
      <3>1. PICK i \in flawed : \A j \in flawed : i <= j
        <4>1. flawed \in SUBSET Nat
          OBVIOUS
        <4> HIDE DEF flawed
        <4> QED BY <4>1, LeastOf
      <3>2. i \in 1..n /\ i \in 0..n /\ i - 1 \in 0..n
        BY <1>1, <3>1
      <3>3. f[i] = IF i = 1 THEN pieces[i] ELSE f[i - 1] \o pieces[i]
        BY <2>1, <3>2 DEF PutTogether
      <3>4. p[i - 1] < p[i] /\ pieces[i] = SubSeq(text, p[i - 1] + 1, p[i])
        BY <1>4, <3>2
      <3>5. CASE i = 1
        <4>1. p[i - 1] = 0 /\ 0 + 1 = 1
          BY <1>1, <3>5
        <4> QED BY <3>1, <3>3, <3>4, <3>5, <4>1
      <3>6. CASE i # 1
        <4> DEFINE c == p[i - 1]
                   a == p[i]
        <4>1. f[i - 1] = SubSeq(text, 1, c)
          <5>1. i - 1 \in 1..n /\ ~(i <= i - 1)
            BY <1>1, <3>2, <3>6
          <5>2. i - 1 \notin flawed
            BY <3>1, <5>1
          <5> QED BY <5>1, <5>2
        <4>2. c \in 0..Len(text) /\ a \in 0..Len(text)
          BY <1>1, <3>2
        <4>3. c \in 0..Len(text) /\ a \in c..Len(text) /\ 1 \in 1..(Len(text) + 1) /\ c \in (1 - 1)..Len(text)
          BY <1>1, <3>4, <4>2
        <4>4. f[i] = SubSeq(text, 1, c) \o SubSeq(text, c + 1, a)
          BY <3>3, <3>4, <3>6, <4>1
        <4>5. f[i] # SubSeq(text, 1, a)
          BY <3>1
        <4> HIDE DEF a, c
        <4>6. SubSeq(text, 1, c) \o SubSeq(text, c + 1, a) = SubSeq(text, 1, a)
          BY <1>5, <4>3, ConcatAdjacentSubSeq
        <4> QED BY <4>4, <4>5, <4>6
      <3> QED BY <3>5, <3>6
    <2>3. n \in 1..n
      BY <1>1, <1>7 DEF n
    <2>4. f[n] = SubSeq(text, 1, p[n])
      BY <2>2, <2>3
    <2>5. SubSeq(text, 1, Len(text)) = text
      BY <1>5, SubSeqFull
    <2> QED BY <1>1, <1>2, <2>1, <2>4, <2>5
  <1> QED BY <1>6, <1>7

-----------------------------
(* What was found is hidden, and nothing else is lost. *)

(* Places only go up. *)
LEMMA PlacesGoUp ==
    ASSUME NEW n \in Nat, NEW p, \A i \in 0..n : p[i] \in Nat, \A i \in 1..n : p[i - 1] < p[i]
    PROVE  \A i, j \in 0..n : i < j => p[i] < p[j]
  <1> DEFINE flawed == {j \in 0..n : \E i \in 0..n : i < j /\ ~(p[i] < p[j])}
  <1> SUFFICES ASSUME flawed # {} PROVE FALSE
    OBVIOUS
  <1>1. PICK j \in flawed : \A k \in flawed : j <= k
    <2>1. flawed \in SUBSET Nat
      OBVIOUS
    <2> HIDE DEF flawed
    <2> QED BY <2>1, LeastOf
  <1>2. PICK i \in 0..n : i < j /\ ~(p[i] < p[j])
    BY <1>1
  <1>3. j \in 1..n /\ j - 1 \in 0..n /\ ~(j <= j - 1)
    BY <1>1, <1>2
  <1>4. p[j - 1] < p[j] /\ p[j] \in Nat /\ p[j - 1] \in Nat /\ p[i] \in Nat
    BY <1>1, <1>3
  <1>5. CASE i = j - 1
    BY <1>2, <1>4, <1>5
  <1>6. CASE i # j - 1
    <2>1. i < j - 1
      BY <1>2, <1>3, <1>6
    <2>2. j - 1 \notin flawed
      BY <1>1, <1>3
    <2>3. p[i] < p[j - 1]
      BY <1>2, <1>3, <2>1, <2>2
    <2> QED BY <1>2, <1>4, <2>3
  <1> QED BY <1>5, <1>6

(* What is told apart is as many as it was. *)
LEMMA AsManyPlaces ==
    ASSUME NEW S, IsFiniteSet(S), NEW p, \A x, y \in S : p[x] = p[y] => x = y
    PROVE  IsFiniteSet({p[x] : x \in S}) /\ Cardinality({p[x] : x \in S}) = Cardinality(S)
  <1> DEFINE Img(T) == {p[x] : x \in T}
             Same(T) == IsFiniteSet(Img(T)) /\ Cardinality(Img(T)) = Cardinality(T)
             flawed == {T \in SUBSET S : ~Same(T)}
  <1> SUFFICES ASSUME S \in flawed PROVE FALSE
    OBVIOUS
  <1>1. \A T \in flawed : IsFiniteSet(T)
    BY FS_Subset
  <1>2. PICK T \in flawed : \A U \in flawed : ~(U \subseteq T /\ U # T)
    <2> HIDE DEF flawed
    <2> QED BY <1>1, LeastSet
  <1>3. T \in SUBSET S /\ IsFiniteSet(T) /\ ~Same(T)
    BY <1>1, <1>2
  <1>4. CASE T = {}
    <2>1. Img({}) = {}
      OBVIOUS
    <2> HIDE DEF Img
    <2> QED BY <1>3, <1>4, <2>1, FS_EmptySet
  <1>5. CASE T # {}
    <2>1. PICK x \in T : TRUE
      BY <1>5
    <2> DEFINE U == T \ {x}
    <2>2. U \subseteq T /\ U # T /\ U \in SUBSET S
      BY <1>3, <2>1
    <2>3. Same(U)
      <3> HIDE DEF Same
      <3> QED BY <1>2, <2>2
    <2>4. Img(T) = Img(U) \cup {p[x]}
      BY <2>1
    <2>5. p[x] \notin Img(U)
      BY <1>3, <2>1
    <2>6. x \notin U /\ T = U \cup {x} /\ IsFiniteSet(U)
      <3>1. IsFiniteSet(U)
        BY <1>3, <2>2, FS_Subset
      <3> QED BY <2>1, <3>1
    <2> HIDE DEF U, Img
    <2>7. Cardinality(T) = Cardinality(U) + 1
      BY <2>6, FS_AddElement
    <2>8. IsFiniteSet(Img(T)) /\ Cardinality(Img(T)) = Cardinality(Img(U)) + 1
      <3> DEFINE V == Img(U)
                 y == p[x]
      <3>1. IsFiniteSet(V) /\ y \notin V /\ Img(T) = V \cup {y}
        BY <2>3, <2>4, <2>5
      <3> HIDE DEF V, y
      <3> QED BY <3>1, FS_AddElement DEF V
    <2> QED BY <1>3, <2>3, <2>7, <2>8
  <1> QED BY <1>4, <1>5

(* The letters of what is told are those of the text that no finding covers.*)
LEMMA LettersAreBare ==
    ASSUME NEW text, IsText(text), NEW bare, bare \subseteq 1..Len(text),
           NEW p, NEW out, NEW map, Tells(p, out, map, text, bare, Len(text))
    PROVE  /\ \A n \in Letters(out) : n \in 1..Len(out) /\ p[n] \in bare /\ out[n].char = text[p[n]]
           /\ \A k \in bare : \E n \in Letters(out) : p[n] = k
           /\ Len(out) \in Nat /\ \A i, j \in 0..Len(out) : i < j => p[i] < p[j]
           /\ \A i \in 0..Len(out) : p[i] \in 0..Len(text)
  <1> DEFINE L == Len(out)
  <1>1. /\ L \in Nat /\ DOMAIN out = 1..L /\ p[0] = 0 /\ p[L] = Len(text) /\ Len(text) \in Nat
        /\ \A i \in 0..L : p[i] \in 0..Len(text)
    <2>1. Len(text) \in Nat
      BY DEF IsText
    <2> QED BY <2>1, PlacesTold
  <1>2. ASSUME NEW i \in 1..L
        PROVE  \/ out[i].token = 0 /\ p[i] = p[i - 1] + 1 /\ out[i].char = text[p[i]] /\ p[i] \in bare
               \/ /\ out[i].token # 0 /\ p[i - 1] < p[i]
                  /\ \A k \in bare : ~(p[i - 1] < k /\ k <= p[i])
    <2>1. Len(map) \in Nat
      BY DEF Tells, IsMap
    <2>2. \/ /\ out[i].token = 0 /\ p[i] = p[i - 1] + 1 /\ out[i].char = text[p[i]] /\ p[i] \in bare
          \/ /\ out[i].token \in 1..Len(map) /\ p[i - 1] < p[i]
             /\ \A k \in bare : ~(p[i - 1] < k /\ k <= p[i])
      BY DEF Tells
    <2> QED BY <2>1, <2>2
  <1>3. \A i, j \in 0..L : i < j => p[i] < p[j]
    <2>1. \A i \in 0..L : p[i] \in Nat
      BY <1>1
    <2>2. \A i \in 1..L : p[i - 1] < p[i]
      <3> TAKE i \in 1..L
      <3> QED BY PieceIs
    <2> HIDE DEF L
    <2> QED BY <1>1, <2>1, <2>2, PlacesGoUp
  <1> HIDE DEF L
  <1>4. \A n \in Letters(out) : n \in 1..L /\ p[n] \in bare /\ out[n].char = text[p[n]]
    BY <1>1, <1>2 DEF Letters
  <1>5. ASSUME NEW k \in bare PROVE \E n \in Letters(out) : p[n] = k
    <2> DEFINE S == {i \in 0..L : k <= p[i]}
    <2>1. k \in 1..Len(text) /\ k \in Int
      OBVIOUS
    <2>2. S \in SUBSET Nat /\ L \in S
      BY <1>1, <2>1
    <2>3. PICK i \in S : \A j \in S : i <= j
      <3>1. S # {}
        BY <2>2
      <3> HIDE DEF S
      <3> QED BY <2>2, <3>1, LeastOf
    <2>4. i \in 0..L /\ k <= p[i]
      BY <2>3
    <2>5. i \in 1..L /\ i - 1 \in 0..L
      BY <1>1, <2>1, <2>4
    <2>6. p[i - 1] < k
      <3>1. i - 1 \notin S
        BY <1>1, <2>3, <2>5
      <3>2. p[i - 1] \in Int
        BY <1>1, <2>5
      <3> QED BY <2>1, <2>5, <3>1, <3>2
    <2>7. out[i].token = 0 /\ p[i] = p[i - 1] + 1
      BY <1>2, <2>4, <2>5, <2>6
    <2>8. p[i] = k
      <3>1. p[i] \in Int /\ p[i - 1] \in Int
        BY <1>1, <2>4, <2>5
      <3> QED BY <2>1, <2>4, <2>6, <2>7, <3>1
    <2>9. i \in Letters(out)
      BY <1>1, <2>5, <2>7 DEF Letters
    <2> QED BY <2>8, <2>9
  <1> QED BY <1>1, <1>3, <1>4, <1>5 DEF L

(* What tells a text hides what was found in it, and leaves the rest. *)
LEMMA ToldHides ==
    ASSUME NEW text, IsText(text), NEW found, NEW p, NEW out, NEW map,
           Tells(p, out, map, text, Untouched(text, found), Len(text))
    PROVE  HidesIn(out, text, found)
  <1> DEFINE bare == Untouched(text, found)
             left == Letters(out)
             L    == Len(out)
             size == Len(text)
             upto(k) == {j \in bare : j <= k}
             sofar(n) == {m \in left : m <= n}
  <1>1. bare \subseteq 1..size /\ size \in Nat
    BY DEF Untouched, IsText
  <1> HIDE DEF bare
  <1>2. /\ \A n \in left : n \in 1..L /\ p[n] \in bare /\ out[n].char = text[p[n]]
        /\ \A k \in bare : \E n \in left : p[n] = k
        /\ L \in Nat /\ \A i, j \in 0..L : i < j => p[i] < p[j]
        /\ \A i \in 0..L : p[i] \in 0..size
    <2>1. Tells(p, out, map, text, bare, Len(text)) /\ bare \subseteq 1..Len(text)
      BY <1>1 DEF bare
    <2> HIDE DEF left
    <2> QED BY <2>1, LettersAreBare DEF left
  <1> HIDE DEF left, L, size
  <1>3. IsFiniteSet(left) /\ IsFiniteSet(bare)
    <2>1. IsFiniteSet(1..L) /\ IsFiniteSet(1..size)
      BY <1>1, <1>2, FS_Interval
    <2>2. left \subseteq 1..L
      BY <1>2
    <2> QED BY <1>1, <2>1, <2>2, FS_Subset
  <1>4. \A x, y \in left : /\ x \in 0..L /\ y \in 0..L /\ p[x] \in Int /\ p[y] \in Int
                           /\ x < y => p[x] < p[y]
    BY <1>1, <1>2
  <1>5. \A x, y \in left : p[x] = p[y] => x = y
    <2> TAKE x, y \in left
    <2>1. /\ x \in Int /\ y \in Int /\ p[x] \in Int /\ p[y] \in Int
          /\ x < y => p[x] < p[y]
          /\ y < x => p[y] < p[x]
      BY <1>2, <1>4
    <2> QED BY <2>1
  <1>6. Cardinality(left) = Cardinality(bare)
    <2>1. {p[n] : n \in left} = bare
      BY <1>2
    <2> QED BY <1>3, <1>5, <2>1, AsManyPlaces
  <1>7. ASSUME NEW n \in left PROVE Cardinality(sofar(n)) = Cardinality(upto(p[n]))
    <2>1. {p[m] : m \in sofar(n)} = upto(p[n])
      <3>1. ASSUME NEW m \in sofar(n) PROVE p[m] \in upto(p[n])
        <4>1. m \in left /\ m <= n /\ m \in Int /\ n \in Int
          BY <1>2
        <4>2. m = n \/ m < n
          BY <4>1
        <4>3. p[m] \in Int /\ p[n] \in Int /\ (m < n => p[m] < p[n]) /\ p[m] \in bare
          BY <1>2, <1>4, <4>1
        <4>4. p[m] <= p[n]
          BY <4>2, <4>3
        <4> QED BY <4>3, <4>4
      <3>2. ASSUME NEW k \in upto(p[n]) PROVE \E m \in sofar(n) : p[m] = k
        <4>1. k \in bare /\ k <= p[n]
          OBVIOUS
        <4>2. PICK m \in left : p[m] = k
          BY <1>2, <4>1
        <4>3. m \in Int /\ n \in Int /\ p[m] \in Int /\ p[n] \in Int /\ (n < m => p[n] < p[m])
          BY <1>2, <1>4
        <4>4. m <= n
          BY <4>1, <4>2, <4>3
        <4> QED BY <4>2, <4>4
      <3> HIDE DEF sofar, upto
      <3> QED BY <3>1, <3>2
    <2>2. sofar(n) \subseteq left
      OBVIOUS
    <2>3. IsFiniteSet(sofar(n)) /\ \A x, y \in sofar(n) : p[x] = p[y] => x = y
      BY <1>3, <1>5, <2>2, FS_Subset
    <2> HIDE DEF sofar, upto
    <2> QED BY <2>1, <2>3, AsManyPlaces
  <1>8. ASSUME NEW a \in bare, NEW b \in bare, a < b PROVE Cardinality(upto(a)) # Cardinality(upto(b))
    <2>1. a \in Int /\ b \in Int
      BY <1>1
    <2>2. upto(a) \subseteq upto(b) /\ b \in upto(b) /\ b \notin upto(a)
      <3>1. ASSUME NEW j \in upto(a) PROVE j \in upto(b)
        <4>1. j \in bare /\ j <= a /\ j \in Int
          BY <1>1
        <4> QED BY <1>8, <2>1, <4>1
      <3>2. ~(b <= a) /\ b <= b
        BY <1>8, <2>1
      <3> QED BY <3>1, <3>2
    <2>3. IsFiniteSet(upto(b))
      <3>1. upto(b) \subseteq bare
        OBVIOUS
      <3> HIDE DEF upto
      <3> QED BY <1>3, <3>1, FS_Subset
    <2> HIDE DEF upto
    <2> QED BY <2>2, <2>3, FS_Subset
  <1>9. ASSUME NEW n \in left, NEW k \in bare, Cardinality(sofar(n)) = Cardinality(upto(k))
        PROVE  out[n].char = text[k]
    <2>1. p[n] \in bare /\ out[n].char = text[p[n]] /\ p[n] \in Int /\ k \in Int
      BY <1>1, <1>2, <1>4
    <2>2. Cardinality(upto(p[n])) = Cardinality(upto(k))
      BY <1>7, <1>9
    <2> HIDE DEF upto, sofar
    <2>3. ~(p[n] < k) /\ ~(k < p[n])
      BY <1>8, <2>1, <2>2
    <2>4. p[n] = k
      BY <2>1, <2>3
    <2> QED BY <2>1, <2>4
  <1> QED BY <1>6, <1>9 DEF HidesIn, bare, left

-----------------------------
(* What a map weighs. *)

WeighsUp(it, map) ==
    it = [s \in SUBSET DOMAIN map |->
            IF s = {} THEN 0 ELSE it[s \ {OneOf(s)}] + 3 + TokenChars + Len(map[OneOf(s)])]

LEMMA PayloadIs ==
    ASSUME NEW map
    PROVE  PayloadBytes(map) = Overhead + (CHOOSE it : WeighsUp(it, map))[DOMAIN map]
  BY DEF PayloadBytes, FoldSeq, FoldFunction, FoldFunctionOnSet, MapThenFoldSet, WeighsUp, OneOf

LEMMA PayloadIsNumber ==
    ASSUME NEW text, NEW map, IsMap(map, text)
    PROVE  PayloadBytes(map) \in Nat
  <1> DEFINE S    == DOMAIN map
             pick == [s \in SUBSET S |-> OneOf(s)]
             G    == [xy \in S \X Nat |-> xy[2] + 3 + TokenChars + Len(map[xy[1]])]
  <1>1. IsFiniteSet(S) /\ \A i \in S : Len(map[i]) \in Nat
    <2>1. S = 1..Len(map) /\ Len(map) \in Nat /\ \A i \in S : map[i] \in Seq(Symbols(text))
      BY DEF IsMap
    <2>2. IsFiniteSet(1..Len(map))
      BY <2>1, FS_Interval
    <2>3. \A i \in S : Len(map[i]) \in Nat
      BY <2>1
    <2> QED BY <2>1, <2>2, <2>3
  <1> HIDE DEF S
  <1>2. Picks(pick, S)
    <2>1. ASSUME NEW s \in SUBSET S, s # {} PROVE pick[s] \in s
      <3>1. OneOf(s) \in s
        BY <2>1 DEF OneOf
      <3> QED BY <3>1
    <2> HIDE DEF pick
    <2> QED BY <2>1 DEF Picks
  <1>3. \A x \in S, y \in Nat : G[<<x, y>>] = y + 3 + TokenChars + Len(map[x]) /\ G[<<x, y>>] \in Nat
    <2> TAKE x \in S, y \in Nat
    <2>1. G[<<x, y>>] = y + 3 + TokenChars + Len(map[x])
      OBVIOUS
    <2>2. TokenChars \in Nat /\ Len(map[x]) \in Nat
      BY <1>1, VaultAssumption
    <2> DEFINE e == Len(map[x])
               g == G[<<x, y>>]
    <2>3. TokenChars \in Nat /\ e \in Nat /\ y \in Nat /\ g = y + 3 + TokenChars + e
      BY <2>1, <2>2
    <2> HIDE DEF e, g, G
    <2>4. g \in Nat
      BY <2>3
    <2> QED BY <2>3, <2>4 DEF e, g
  <1> DEFINE base == 0
  <1>4. base \in Nat
    OBVIOUS
  <1> HIDE DEF G, base
  <1>5. PICK f : Folds(f, S, base, pick, G)
    <2> HIDE DEF pick
    <2> QED BY <1>1, <1>2, FoldIsThere
  <1> DEFINE Y == Nat
  <1>6. \A x \in S, y \in Y : G[<<x, y>>] \in Y
    BY <1>3
  <1>7. \A s \in SUBSET S : f[s] \in Y
    <2>1. base \in Y
      BY <1>4
    <2> HIDE DEF pick, Y
    <2> QED BY <1>1, <1>2, <1>5, <1>6, <2>1, FoldStays
  <1>8. f = [s \in SUBSET S |-> f[s]] /\ f[{}] = base
    BY <1>5 DEF Folds
  <1>9. ASSUME NEW s \in SUBSET S, s # {} PROVE f[s] = f[s \ {OneOf(s)}] + 3 + TokenChars + Len(map[OneOf(s)])
    <2>1. f[s] = G[<<pick[s], f[s \ {pick[s]}]>>]
      <3> HIDE DEF pick
      <3> QED BY <1>5, <1>9 DEF Folds
    <2>2. pick[s] = OneOf(s) /\ pick[s] \in S
      BY <1>2, <1>9 DEF Picks
    <2>3. f[s \ {pick[s]}] \in Nat
      BY <1>7
    <2> HIDE DEF pick
    <2> QED BY <1>3, <2>1, <2>2, <2>3
  <1> HIDE DEF pick
  <1>10. WeighsUp(f, map)
    <2>1. [s \in SUBSET S |-> f[s]]
            = [s \in SUBSET S |-> IF s = {} THEN 0 ELSE f[s \ {OneOf(s)}] + 3 + TokenChars + Len(map[OneOf(s)])]
      BY <1>8, <1>9 DEF base
    <2> QED BY <1>8, <2>1 DEF WeighsUp, S
  <1> DEFINE it == CHOOSE h : WeighsUp(h, map)
  <1>11. WeighsUp(it, map)
    BY <1>10
  <1> HIDE DEF it
  <1> DEFINE flawed == {s \in SUBSET S : it[s] \notin Nat}
  <1>12. flawed = {}
    <2> SUFFICES ASSUME NEW r \in flawed PROVE FALSE
      OBVIOUS
    <2>1. \A s \in flawed : IsFiniteSet(s)
      BY <1>1, FS_Subset
    <2>2. PICK s \in flawed : \A u \in flawed : ~(u \subseteq s /\ u # s)
      <3> HIDE DEF flawed
      <3> QED BY <2>1, LeastSet
    <2>3. CASE s = {}
      BY <1>11, <2>2, <2>3 DEF WeighsUp, S
    <2>4. CASE s # {}
      <3> DEFINE x == OneOf(s)
                 u == s \ {x}
      <3>1. x \in s /\ x \in S
        BY <2>2, <2>4 DEF OneOf
      <3>2. u \in SUBSET S /\ it[u] \in Nat
        BY <2>2, <3>1
      <3>3. it[s] = it[u] + 3 + TokenChars + Len(map[x])
        BY <1>11, <2>2, <2>4 DEF WeighsUp, S
      <3> DEFINE e == Len(map[x])
                 v == it[u]
      <3>4. TokenChars \in Nat /\ e \in Nat /\ v \in Nat /\ it[s] = v + 3 + TokenChars + e
        BY <1>1, <3>1, <3>2, <3>3, VaultAssumption
      <3> HIDE DEF e, v, u, x
      <3>5. it[s] \in Nat
        BY <3>4
      <3> QED BY <2>2, <3>5
    <2> QED BY <2>3, <2>4
  <1>13. it[S] \in Nat
    BY <1>12
  <1>14. PayloadBytes(map) = Overhead + it[S]
    BY PayloadIs DEF it, S
  <1> QED BY <1>13, <1>14, VaultAssumption

-----------------------------
(* The jobs. *)

(* Whatever is masked can be restored, what was found in it is hidden, and  *)
(* the map that is kept for it weighs something.                            *)
LEMMA JobIsMasked ==
    ASSUME NEW job \in Jobs
    PROVE  LET masked == Masked(job.text, job.found)
           IN  /\ Restored(masked.out, masked.map) = job.text
               /\ HidesIn(masked.out, job.text, job.found)
               /\ PayloadBytes(masked.map) \in Nat
  <1> DEFINE text  == job.text
             found == job.found
             out   == Masked(text, found).out
             map   == Masked(text, found).map
  <1>1. IsText(text) /\ IsFiniteSet(found) /\ found \subseteq SpansIn(Len(text))
    BY VaultAssumption DEF IsText, Symbols
  <1> HIDE DEF text, found, out, map
  <1>2. PICK p : Tells(p, out, map, text, Untouched(text, found), Len(text))
    BY <1>1, MaskedTells DEF out, map
  <1>3. Restored(out, map) = text
    BY <1>1, <1>2, RestoredIs
  <1>4. HidesIn(out, text, found)
    BY <1>1, <1>2, ToldHides
  <1>5. PayloadBytes(map) \in Nat
    <2>1. IsMap(map, text)
      BY <1>2 DEF Tells
    <2> QED BY <2>1, PayloadIsNumber
  <1> QED BY <1>3, <1>4, <1>5 DEF text, found, out, map

-----------------------------
(* The store. *)

(* What is kept was put, with the key that is in force, and no later than   *)
(* its handle says.                                                         *)
WasPut(m, i) ==
    /\ i.handle = m.handle /\ i.key = m.key /\ i.job \in Jobs
    /\ m.map = Masked(i.job.text, i.job.found).map
    /\ i.out = Masked(i.job.text, i.job.found).out

(* RevealedRightly without a word on what a map restores: what is revealed  *)
(* is the map of the job, next to the text that was given out for it.       *)
RevealsWhatWasPut ==
    revealed # Absent =>
      \E i \in issued :
         /\ i.handle = revealed.handle /\ i.key = cipher
         /\ revealed.principal \in Readers
         /\ wall < i.handle.expires_at
         /\ \E m \in maps : m.handle = i.handle /\ mono < m.deadline
         /\ i.job \in Jobs
         /\ i.out = Masked(i.job.text, i.job.found).out
         /\ revealed.map = Masked(i.job.text, i.job.found).map

WasMasked(i) == i.job \in Jobs /\ i.out = Masked(i.job.text, i.job.found).out

VaultInv ==
    /\ wall \in Int /\ mono \in Nat
    /\ \A i \in issued : WasMasked(i)
    /\ IsFiniteSet(issued) /\ \A i \in issued : i.handle.id \in Nat /\ i.handle.id <= Cardinality(issued)
    /\ AreWeighed(maps) /\ mapBytes = SizeOf(maps) /\ mapBytes <= MaxBytes /\ Cardinality(maps) <= MaxMaps
    /\ \A m \in maps : /\ m.key = cipher /\ m.deadline \in Int /\ m.handle.expires_at \in Int
                       /\ \E i \in issued : WasPut(m, i)
    /\ RevealsWhatWasPut

LEMMA VaultStarts == VaultInit => VaultInv
  <1> SUFFICES ASSUME VaultInit PROVE VaultInv
    OBVIOUS
  <1>1. AreWeighed({}) /\ SizeOf({}) = 0 /\ Cardinality({}) = 0
    BY FS_EmptySet, SizeStep DEF AreWeighed
  <1> QED BY <1>1, VaultAssumption DEF VaultInit, VaultInv, RevealsWhatWasPut, AreWeighed

(* Whatever is let go, the rest stays as it was. *)
LEMMA KeepKeeps ==
    ASSUME VaultInv, NEW left \in SUBSET maps, Keep(left), UNCHANGED <<wall, mono, cipher, issued>>,
           RevealsWhatWasPut'
    PROVE  VaultInv'
  <1>1. maps' = left /\ mapBytes' = mapBytes - SizeOf(maps \ left)
    BY DEF Keep
  <1>2. AreWeighed(maps) /\ mapBytes = SizeOf(maps) /\ mapBytes <= MaxBytes /\ Cardinality(maps) <= MaxMaps
    BY DEF VaultInv
  <1>3. /\ AreWeighed(left) /\ mapBytes' = SizeOf(left) /\ mapBytes' <= mapBytes
        /\ Cardinality(left) <= Cardinality(maps) /\ mapBytes \in Nat /\ mapBytes' \in Nat
    BY <1>1, <1>2, SizeKept
  <1>4. Cardinality(left) \in Nat /\ Cardinality(maps) \in Nat
    BY <1>2, <1>3, FS_CardinalityType DEF AreWeighed
  <1>5. mapBytes' <= MaxBytes /\ Cardinality(left) <= MaxMaps
    BY <1>2, <1>3, <1>4, VaultAssumption
  <1> QED BY <1>1, <1>3, <1>5 DEF VaultInv, WasPut, WasMasked

LEMMA PutKeeps ==
    ASSUME VaultInv, NEW job \in Jobs, NEW r \in VaultRuns, NEW w, NEW ttl \in 1..(MaxTtl + 1),
           PutMap(job, r, w, ttl)
    PROVE  VaultInv'
  <1> DEFINE masked == Masked(job.text, job.found)
             left   == {m \in maps : ~IsOver(m)}
             freed  == SizeOf(maps \ left)
             room   == MaxBytes - (mapBytes - freed)
             fits   == /\ ttl \in 1..MaxTtl /\ Cardinality(left) < MaxMaps
                       /\ Len(masked.map) <= MaxEntries /\ PayloadBytes(masked.map) <= room
             handle == [id |-> Cardinality(issued) + 1, run |-> r, expires_at |-> wall + ttl]
             stored == [handle |-> handle, deadline |-> mono + ttl, key |-> cipher, map |-> masked.map]
             entry  == [handle |-> handle, job |-> job, key |-> cipher, out |-> masked.out]
  <1>1. left \in SUBSET maps /\ UNCHANGED <<wall, mono, cipher>> /\ revealed' = Absent
    BY DEF PutMap
  <1>2. RevealsWhatWasPut'
    BY <1>1 DEF RevealsWhatWasPut
  <1>3. CASE ~fits
    <2>1. Keep(left) /\ UNCHANGED issued
      BY <1>3 DEF PutMap
    <2> HIDE DEF left
    <2> QED BY <1>1, <1>2, <2>1, KeepKeeps
  <1>4. CASE fits
    <2>1. /\ maps' = left \cup {stored} /\ issued' = issued \cup {entry}
          /\ mapBytes' = mapBytes - freed + PayloadBytes(masked.map)
      BY <1>4 DEF PutMap
    <2>2. /\ IsFiniteSet(issued) /\ Cardinality(issued) \in Nat
          /\ \A i \in issued : i.handle.id \in Nat /\ i.handle.id <= Cardinality(issued)
      BY FS_CardinalityType DEF VaultInv
    <2>3. \A i \in issued : i.handle # handle
      BY <2>2
    <2>4. entry \notin issued /\ stored \notin maps
      <3>1. entry.handle = handle /\ stored.handle = handle
        OBVIOUS
      <3> HIDE DEF entry, stored, handle
      <3> QED BY <2>3, <3>1 DEF VaultInv, WasPut
    <2>5. /\ IsFiniteSet(issued') /\ Cardinality(issued') = Cardinality(issued) + 1
          /\ \A i \in issued' : i.handle.id \in Nat /\ i.handle.id <= Cardinality(issued')
      <3>1. IsFiniteSet(issued \cup {entry}) /\ Cardinality(issued \cup {entry}) = Cardinality(issued) + 1
        <4> HIDE DEF entry
        <4> QED BY <2>2, <2>4, FS_AddElement
      <3>2. entry.handle.id = Cardinality(issued) + 1
        OBVIOUS
      <3> HIDE DEF entry
      <3>3. issued' = issued \cup {entry}
        BY <2>1
      <3>4. \A i \in issued : i.handle.id <= Cardinality(issued) + 1
        BY <2>2
      <3> DEFINE n == Cardinality(issued)
      <3>5. n \in Nat /\ n + 1 \in Nat /\ n + 1 <= n + 1
        BY <2>2
      <3>6. \A i \in issued' : i.handle.id \in Nat /\ i.handle.id <= n + 1
        <4> HIDE DEF n, handle
        <4>1. \A i \in issued : i.handle.id \in Nat /\ i.handle.id <= n + 1
          BY <2>2, <3>4 DEF n
        <4>2. entry.handle.id \in Nat /\ entry.handle.id <= n + 1
          BY <3>2, <3>5 DEF n
        <4> QED BY <3>3, <4>1, <4>2
      <3>7. IsFiniteSet(issued') /\ Cardinality(issued') = n + 1
        BY <3>1, <3>3
      <3> QED BY <3>6, <3>7
    <2>6. WeightOf(stored) = PayloadBytes(masked.map) /\ WeightOf(stored) \in Nat
      BY JobIsMasked DEF WeightOf
    <2>7. AreWeighed(maps) /\ mapBytes = SizeOf(maps) /\ mapBytes <= MaxBytes
      BY DEF VaultInv
    <2>8. /\ AreWeighed(left) /\ SizeOf(left) = SizeOf(maps) - freed
          /\ SizeOf(left) \in Nat /\ SizeOf(maps) \in Nat /\ freed \in Nat
      <3> HIDE DEF left
      <3> QED BY <1>1, <2>7, SizeKept
    <2>9. /\ AreWeighed(maps') /\ SizeOf(maps') = SizeOf(left) + WeightOf(stored)
          /\ Cardinality(maps') = Cardinality(left) + 1
      <3>1. stored \notin left
        BY <2>4
      <3> HIDE DEF left, stored
      <3> QED BY <2>1, <2>6, <2>8, <3>1, SizeMore
    <2>10. mapBytes' = SizeOf(maps') /\ mapBytes' <= MaxBytes
      <3>1. PayloadBytes(masked.map) <= MaxBytes - (mapBytes - freed)
        BY <1>4
      <3> HIDE DEF left, freed, stored, masked
      <3> QED BY <2>1, <2>6, <2>7, <2>8, <2>9, <3>1, VaultAssumption
    <2>11. Cardinality(maps') <= MaxMaps
      <3>1. Cardinality(left) < MaxMaps /\ Cardinality(left) \in Nat
        BY <1>4, <2>8, FS_CardinalityType DEF AreWeighed
      <3> HIDE DEF left
      <3> QED BY <2>9, <3>1, VaultAssumption
    <2>12. wall' \in Int /\ mono' \in Nat
      BY <1>1 DEF VaultInv
    <2>13. ASSUME NEW m \in maps'
           PROVE  /\ m.key = cipher' /\ m.deadline \in Int /\ m.handle.expires_at \in Int
                  /\ \E i \in issued' : WasPut(m, i)'
      <3>1. CASE m \in maps
        <4>1. /\ m.key = cipher /\ m.deadline \in Int /\ m.handle.expires_at \in Int
              /\ \E i \in issued : WasPut(m, i)
          BY <3>1 DEF VaultInv
        <4> HIDE DEF entry
        <4> QED BY <1>1, <2>1, <4>1 DEF WasPut
      <3>2. CASE m = stored
        <4>1. m.key = cipher /\ m.deadline = mono + ttl /\ m.handle.expires_at = wall + ttl
          BY <3>2
        <4>2. WasPut(m, entry)
          BY <3>2 DEF WasPut
        <4>3. wall \in Int /\ mono \in Nat /\ ttl \in Int
          BY DEF VaultInv
        <4> HIDE DEF entry
        <4> QED BY <1>1, <2>1, <4>1, <4>2, <4>3 DEF WasPut
      <3> HIDE DEF stored, left, entry
      <3>3. m \in left => m \in maps
        BY DEF left
      <3> QED BY <2>1, <3>1, <3>2, <3>3
    <2>14. ASSUME NEW i \in issued' PROVE WasMasked(i)'
      <3>1. entry.job = job /\ entry.out = masked.out
        OBVIOUS
      <3> HIDE DEF entry
      <3>2. i \in issued \/ i = entry
        BY <2>1
      <3> QED BY <3>1, <3>2 DEF VaultInv, WasMasked
    <2> HIDE DEF left, stored, entry, freed, masked, handle
    <2> QED BY <1>2, <2>5, <2>9, <2>10, <2>11, <2>12, <2>13, <2>14 DEF VaultInv
  <1> QED BY <1>3, <1>4

LEMMA GetKeeps ==
    ASSUME VaultInv, NEW handle, NEW r, NEW w, GetMap(handle, r, w)
    PROVE  VaultInv'
  <1> DEFINE found == RecordOf(handle)
             over  == {m \in found : IsOver(m)}
             open  == {m \in found \ over : m.key = cipher /\ m.handle = handle}
             one   == CHOOSE m \in open : TRUE
  <1>1. /\ Keep(maps \ over) /\ UNCHANGED <<wall, mono, cipher, issued>> /\ w \in Readers
        /\ revealed' = IF open = {} THEN Absent
                       ELSE [handle |-> handle, principal |-> w, map |-> one.map]
    BY DEF GetMap
  <1>2. CASE open = {}
    <2>1. RevealsWhatWasPut'
      BY <1>1, <1>2 DEF RevealsWhatWasPut
    <2> HIDE DEF over
    <2> QED BY <1>1, <2>1, KeepKeeps
  <1>3. CASE open # {}
    <2>1. one \in open
      BY <1>3
    <2>2. one \in maps /\ one \notin over /\ ~IsOver(one) /\ one.handle = handle
      BY <2>1 DEF RecordOf
    <2>3. one \in maps'
      BY <1>1, <2>2 DEF Keep
    <2> HIDE DEF open, over, found, one
    <2>4. PICK i \in issued : WasPut(one, i)
      BY <2>2 DEF VaultInv
    <2>5. one.key = cipher /\ one.deadline \in Int /\ one.handle.expires_at \in Int /\ wall \in Int /\ mono \in Nat
      BY <2>2 DEF VaultInv
    <2>6. mono < one.deadline /\ wall < one.handle.expires_at
      BY <2>2, <2>5 DEF IsOver
    <2>7. revealed'.handle = handle /\ revealed'.principal = w /\ revealed'.map = one.map
      BY <1>1, <1>3
    <2>8. RevealsWhatWasPut'
      BY <1>1, <2>2, <2>3, <2>4, <2>5, <2>6, <2>7 DEF RevealsWhatWasPut, WasPut
    <2> QED BY <1>1, <2>8, KeepKeeps
  <1> QED BY <1>2, <1>3

LEMMA VaultStep ==
    ASSUME VaultInv, [VaultNext]_vaultVars
    PROVE  VaultInv'
  <1>1. ASSUME NEW left \in SUBSET maps, Keep(left), UNCHANGED <<wall, mono, cipher, issued>>, revealed' = Absent
        PROVE  VaultInv'
    <2>1. RevealsWhatWasPut'
      BY <1>1 DEF RevealsWhatWasPut
    <2> QED BY <1>1, <2>1, KeepKeeps
  <1>2. CASE PutTooLate
    BY <1>1, <1>2 DEF PutTooLate
  <1>3. CASE PurgeExpired
    BY <1>1, <1>3 DEF PurgeExpired
  <1>4. ASSUME NEW key, RotateKey(key) PROVE VaultInv'
    <2>1. AreWeighed({}) /\ SizeOf({}) = 0 /\ Cardinality({}) = 0
      BY FS_EmptySet, SizeStep DEF AreWeighed
    <2> QED BY <1>4, <2>1, VaultAssumption DEF RotateKey, VaultInv, RevealsWhatWasPut, WasMasked
  <1>5. CASE VaultClock
    <2>1. wall' \in Int /\ mono' \in Nat
      BY <1>5 DEF VaultClock, VaultInv
    <2> QED BY <1>5, <2>1 DEF VaultClock, VaultInv, RevealsWhatWasPut, WasPut, WasMasked
  <1>6. ASSUME NEW handle, NEW r, NEW w, DiscardMap(handle, r, w) PROVE VaultInv'
    <2>1. maps \ RecordOf(handle) \in SUBSET maps
      OBVIOUS
    <2> QED BY <1>1, <1>6, <2>1 DEF DiscardMap
  <1>7. CASE UNCHANGED vaultVars
    BY <1>7 DEF vaultVars, VaultInv, RevealsWhatWasPut, WasPut, WasMasked
  <1>8. CASE CloseVault
    BY <1>4, <1>8 DEF CloseVault
  <1> QED BY <1>2, <1>3, <1>4, <1>5, <1>6, <1>7, <1>8, PutKeeps, GetKeeps DEF VaultNext

(* The counter of the store is the size of what it holds and stays within   *)
(* its limits, whichever way a map leaves it; what get reveals was put      *)
(* under that very handle, with the key in force, for a reader, before      *)
(* either clock says that its time is over, and it restores the text that   *)
(* was masked; and what mask gave out hides whatever was found, however the *)
(* findings overlap, and loses nothing else (security/redaction.py,         *)
(* security/placeholder_store.py).                                          *)
THEOREM VaultKeepsMaps == VaultSpec => []MapsAreKept
  <1>1. VaultInv => BytesAddUp
    BY DEF VaultInv, BytesAddUp
  <1>2. ASSUME VaultInv PROVE RevealedRightly
    <2> SUFFICES ASSUME revealed # Absent
                 PROVE  \E i \in issued :
                           /\ i.handle = revealed.handle /\ i.key = cipher
                           /\ revealed.principal \in Readers
                           /\ wall < i.handle.expires_at
                           /\ \E m \in maps : m.handle = i.handle /\ mono < m.deadline
                           /\ Restored(i.out, revealed.map) = i.job.text
      BY DEF RevealedRightly
    <2>1. PICK i \in issued :
             /\ i.handle = revealed.handle /\ i.key = cipher
             /\ revealed.principal \in Readers
             /\ wall < i.handle.expires_at
             /\ \E m \in maps : m.handle = i.handle /\ mono < m.deadline
             /\ i.job \in Jobs
             /\ i.out = Masked(i.job.text, i.job.found).out
             /\ revealed.map = Masked(i.job.text, i.job.found).map
      BY <1>2 DEF VaultInv, RevealsWhatWasPut
    <2>2. Restored(i.out, revealed.map) = i.job.text
      BY <2>1, JobIsMasked
    <2> QED BY <2>1, <2>2
  <1>3. ASSUME VaultInv PROVE MaskHides
    <2> SUFFICES ASSUME NEW i \in issued PROVE HidesIn(i.out, i.job.text, i.job.found)
      BY DEF MaskHides
    <2>1. i.job \in Jobs /\ i.out = Masked(i.job.text, i.job.found).out
      BY <1>3 DEF VaultInv, WasMasked
    <2> QED BY <2>1, JobIsMasked
  <1>4. VaultInv => MapsAreKept
    BY <1>1, <1>2, <1>3 DEF MapsAreKept
  <1> QED BY <1>4, VaultStarts, VaultStep, PTL DEF VaultSpec
=============================================================================
