--------------------------- MODULE DatabaseProofs ---------------------------
(***************************************************************************)
(* Proofs about what shares one database: the audit chain, for any number  *)
(* of writers and verifiers and for both stores, and the calls that        *)
(* inspect a database, for any number of tasks and cancellations and for   *)
(* each of the three adapters.                                             *)
(*                                                                         *)
(* What append checks before it signs is enough for what _verify demands,  *)
(* and the chain is the append-only log of AuditLog.  The invariant rests  *)
(* on the lengths of digests: a writer that has seen the digest of the     *)
(* present tail has checked its event against that tail, because a chain   *)
(* that has grown since has a longer digest; and whoever has an            *)
(* uncommitted envelope holds the lock, so that it still fits.             *)
(*                                                                         *)
(* The invariant of an inspection says who may hold what.  A call under    *)
(* way holds the slot; whoever ended without its thread having ended       *)
(* blocked the object, and an object that is blocked has no call under     *)
(* way, so that no second thread or connection can come up beside the one  *)
(* left behind.  For the answers it says at which points of a call a       *)
(* cancellation can have been counted already.                             *)
(***************************************************************************)
EXTENDS AuditChain, Inspection, TLAPS

-----------------------------
(* The invariant. *)

(* A chain that _verify accepts, its digests being those of its prefixes. *)
Whole(c) ==
    /\ Links(c) /\ Len(c) <= Maximum
    /\ \A i \in 1..Len(c) : Len(c[i].current_hash) = i

(* An envelope that append may add to the chain c. *)
Fits(c, e) ==
    /\ e.sequence = Len(c) + 1
    /\ e.previous_hash = TailHash(c) /\ e.current_hash = Append(TailHash(c), e.event)
    /\ \A i \in 1..Len(c) : c[i].event.event_id # e.event.event_id
    /\ c # <<>> => Len(c) < Maximum /\ Follows(c[Len(c)].event, e.event)

(* An envelope at its place in the chain. *)
Stored(e, w) ==
    e.sequence <= Len(chain) /\ chain[e.sequence] = e /\ e.event = EventOf[w]

WriterPart(w) ==
    /\ pc[w] \in {"find", "tail", "cas"} \cup {"idle"} => tries[w] < Retries
    /\ pc[w] = "appended" <=> own[w] # Null
    /\ own[w] # Null => /\ Transactional /\ lock = w
                        /\ own[w].event = EventOf[w] /\ Fits(chain, own[w])
    /\ pc[w] = "cas" => /\ Len(seen[w]) <= Len(chain)
                        /\ Len(seen[w]) = Len(chain) => Admissible(EventOf[w])
    /\ answer[w] # Null => Stored(answer[w], w)

(* What was read is a prefix of the chain, and an anchor lies in the chain. *)
Prefix(g) == Len(g) <= Len(chain) /\ \A i \in 1..Len(g) : g[i] = chain[i]

VerifierPart(v) ==
    /\ check[v].mode = "prefix" <=> check[v].head = Null
    /\ Prefix(check[v].got)
    /\ check[v].mode = "through" =>
          /\ Len(check[v].head) \in 1..Len(chain)
          /\ chain[Len(check[v].head)].current_hash = check[v].head
          /\ Len(check[v].got) <= Len(check[v].head)
          /\ check[v].state # "empty"
    /\ check[v].mode \in {"prefix", "through"} => check[v].state # "invalid"

AuditInv ==
    /\ AuditTypeOK /\ Whole(chain)
    /\ \A w \in Appenders : WriterPart(w)
    /\ \A v \in Verifiers : VerifierPart(v)

-----------------------------
(* Chains. *)

(* Appending one envelope. *)
LEMMA Grown ==
    ASSUME NEW c \in Seq(Envelope), NEW e \in Envelope
    PROVE  /\ Append(c, e) \in Seq(Envelope) /\ Len(Append(c, e)) = Len(c) + 1
           /\ \A i \in 1..Len(c) : i \in 1..Len(c) + 1 /\ Append(c, e)[i] = c[i]
           /\ Append(c, e)[Len(c) + 1] = e
  OBVIOUS

(* The digest of the tail is as long as the chain. *)
LEMMA TailLength ==
    ASSUME NEW c \in Seq(Envelope), Whole(c)
    PROVE  TailHash(c) \in Digest /\ Len(TailHash(c)) = Len(c)
  <1>1. CASE c = <<>>
    BY <1>1 DEF TailHash, Digest
  <1>2. CASE c # <<>>
    <2>1. Len(c) \in 1..Len(c) /\ c[Len(c)] \in Envelope
      BY <1>2
    <2>. QED BY <1>2, <2>1 DEF TailHash, Whole, Envelope
  <1>. QED BY <1>1, <1>2

(* What append checks is what _verify demands. *)
LEMMA FittingGrows ==
    ASSUME NEW c \in Seq(Envelope), Whole(c), NEW e \in Envelope, Fits(c, e)
    PROVE  Whole(Append(c, e))
  <1> DEFINE d == Append(c, e)
             n == Len(c)
  <1>1. /\ d \in Seq(Envelope) /\ Len(d) = n + 1 /\ n \in Nat
        /\ \A i \in 1..n : i \in 1..n + 1 /\ d[i] = c[i]
        /\ d[n + 1] = e
    BY Grown
  <1> HIDE DEF d
  <1>2. TailHash(c) \in Digest /\ Len(TailHash(c)) = n
    BY TailLength
  <1>3. e.event \in Event /\ e.current_hash \in Digest /\ Len(e.current_hash) = n + 1
    BY <1>2 DEF Fits, Envelope, Digest
  <1>4. n + 1 <= Maximum
    BY <1>1, ChainAssumption DEF Fits
  <1>5. ASSUME NEW i \in 1..n + 1
        PROVE  /\ d[i].sequence = i
               /\ d[i].previous_hash = IF i = 1 THEN <<>> ELSE d[i - 1].current_hash
               /\ d[i].current_hash = Append(d[i].previous_hash, d[i].event)
               /\ i > 1 => Follows(d[i - 1].event, d[i].event)
               /\ Len(d[i].current_hash) = i
    <2>1. CASE i \in 1..n
      <3>1. i > 1 => i - 1 \in 1..n
        BY <2>1
      <3>2. /\ c[i].sequence = i
            /\ c[i].previous_hash = IF i = 1 THEN <<>> ELSE c[i - 1].current_hash
            /\ c[i].current_hash = Append(c[i].previous_hash, c[i].event)
            /\ i > 1 => Follows(c[i - 1].event, c[i].event)
            /\ Len(c[i].current_hash) = i
        BY <2>1 DEF Whole, Links
      <3>3. d[i] = c[i] /\ (i > 1 => d[i - 1] = c[i - 1]) /\ (i = 1 \/ i > 1)
        BY <1>1, <2>1, <3>1
      <3>. QED BY <3>2, <3>3
    <2>2. CASE i = n + 1 /\ n = 0
      <3>1. c = <<>> /\ d[i] = e /\ i = 1
        BY <1>1, <2>2
      <3>2. TailHash(c) = <<>>
        BY <3>1 DEF TailHash
      <3>3. /\ e.sequence = n + 1 /\ e.previous_hash = <<>>
            /\ e.current_hash = Append(e.previous_hash, e.event)
        BY <3>2 DEF Fits
      <3>4. e.sequence = i /\ Len(e.current_hash) = i /\ ~(i > 1)
        BY <1>3, <2>2, <3>1, <3>3
      <3>. QED BY <3>1, <3>3, <3>4
    <2>3. CASE i = n + 1 /\ n > 0
      <3>1. d[i] = e /\ d[i - 1] = c[n] /\ n \in 1..n /\ c # <<>> /\ i # 1
        BY <1>1, <2>3
      <3>2. TailHash(c) = c[n].current_hash
        BY <3>1 DEF TailHash
      <3>3. /\ e.sequence = n + 1 /\ e.previous_hash = c[n].current_hash
            /\ e.current_hash = Append(e.previous_hash, e.event)
            /\ Follows(c[n].event, e.event)
        BY <3>1, <3>2 DEF Fits
      <3>. QED BY <1>3, <2>3, <3>1, <3>3
    <2>. QED BY <1>1, <2>1, <2>2, <2>3
  <1>6. ASSUME NEW i \in 1..n + 1, NEW j \in 1..n + 1, d[i].event.event_id = d[j].event.event_id
        PROVE  i = j
    BY <1>1, <1>6 DEF Whole, Links, Fits
  <1>7. Links(d)
    BY <1>1, <1>5, <1>6 DEF Links
  <1>. QED BY <1>1, <1>4, <1>5, <1>7 DEF Whole, d

(* Every prefix of an accepted chain is accepted. *)
LEMMA PrefixVerifies ==
    ASSUME NEW g \in Seq(Envelope), AuditTypeOK, Whole(chain), Prefix(g)
    PROVE  Links(g) /\ Len(g) <= Maximum
  <1>1. /\ Len(g) \in Nat /\ Len(chain) \in Nat /\ Len(g) <= Len(chain)
        /\ \A i \in 1..Len(g) : i \in 1..Len(chain) /\ g[i] = chain[i]
    BY DEF Prefix, AuditTypeOK
  <1>2. \A i \in 1..Len(g) : i > 1 => i - 1 \in 1..Len(g)
    BY <1>1
  <1>3. Len(g) <= Maximum
    BY <1>1, ChainAssumption DEF Whole
  <1>4. ASSUME NEW i \in 1..Len(g)
        PROVE  /\ g[i].sequence = i
               /\ g[i].previous_hash = IF i = 1 THEN <<>> ELSE g[i - 1].current_hash
               /\ g[i].current_hash = Append(g[i].previous_hash, g[i].event)
               /\ i > 1 => Follows(g[i - 1].event, g[i].event)
    <2>1. /\ g[i] = chain[i] /\ i \in 1..Len(chain) /\ (i = 1 \/ i > 1)
          /\ i > 1 => g[i - 1] = chain[i - 1]
      BY <1>1, <1>2
    <2>2. /\ chain[i].sequence = i
          /\ chain[i].previous_hash = IF i = 1 THEN <<>> ELSE chain[i - 1].current_hash
          /\ chain[i].current_hash = Append(chain[i].previous_hash, chain[i].event)
          /\ i > 1 => Follows(chain[i - 1].event, chain[i].event)
      BY <2>1 DEF Whole, Links
    <2>. QED BY <2>1, <2>2
  <1>5. \A i, j \in 1..Len(g) : g[i].event.event_id = g[j].event.event_id => i = j
    <2>1. \A i, j \in 1..Len(chain) :
             chain[i].event.event_id = chain[j].event.event_id => i = j
      BY DEF Whole, Links
    <2>. QED BY <1>1, <2>1
  <1>. QED BY <1>3, <1>4, <1>5 DEF Links

(* The events that are offered. *)
LEMMA Offered ==
    ASSUME AuditTypeOK, NEW w \in Appenders
    PROVE  EventOf[w] \in Event
  BY ChainAssumption DEF AuditTypeOK, EventOf

(* The envelope compare_append inserts. *)
Signed(w) == [sequence |-> Len(seen[w]) + 1, event |-> EventOf[w],
              previous_hash |-> seen[w], current_hash |-> Append(seen[w], EventOf[w])]

(* What an appender would insert is an envelope. *)
LEMMA SignedType ==
    ASSUME AuditTypeOK, NEW w \in Appenders
    PROVE  Signed(w) \in Envelope
  <1>1. seen[w] \in Seq(Event) /\ EventOf[w] \in Event
    BY Offered DEF AuditTypeOK, Digest
  <1>2. Append(seen[w], EventOf[w]) \in Digest /\ Len(seen[w]) + 1 \in Nat \ {0}
    BY <1>1 DEF Digest
  <1>. QED BY <1>1, <1>2 DEF Signed, Envelope, Digest

-----------------------------
(* Types. *)

LEMMA AuditTypeStep ==
    ASSUME AuditInv, [AuditNext]_auditVars
    PROVE  AuditTypeOK'
  <1>1. /\ AuditTypeOK /\ Whole(chain) /\ \A w \in Appenders : WriterPart(w)
        /\ chain \in Seq(Envelope)
    BY DEF AuditInv, AuditTypeOK
  <1> USE DEF AuditTypeOK
  <1>2. CASE UNCHANGED auditVars
    BY <1>1, <1>2 DEF auditVars
  <1>3. ASSUME NEW w \in Appenders, Offer(w)
        PROVE  AuditTypeOK'
    BY <1>1, <1>3 DEF Offer, AppendPoint
  <1>4. ASSUME NEW w \in Appenders, Find(w)
        PROVE  AuditTypeOK'
    <2>1. Unlocked(w) => lock' \in Appenders \cup {Null}
      BY <1>1 DEF Unlocked
    <2>2. \A i \in Present(EventOf[w]) : chain[i] \in Envelope
      BY <1>1 DEF Present
    <2>3. pc' \in [Appenders -> AppendPoint] /\ lock' \in Appenders \cup {Null}
      BY <1>1, <1>4, <2>1 DEF Find, AppendPoint, Ended
    <2>4. answer' \in [Appenders -> Envelope \cup {Null}]
      BY <1>1, <1>4, <2>2 DEF Find
    <2>. QED BY <1>1, <1>4, <2>3, <2>4 DEF Find
  <1>5. ASSUME NEW w \in Appenders, ReadTail(w)
        PROVE  AuditTypeOK'
    <2>1. TailHash(chain) \in Digest
      BY <1>1, TailLength
    <2>2. Unlocked(w) => lock' \in Appenders \cup {Null}
      BY <1>1 DEF Unlocked
    <2>3. pc' \in [Appenders -> AppendPoint] /\ lock' \in Appenders \cup {Null}
      BY <1>1, <1>5, <2>2 DEF ReadTail, AppendPoint, Ended
    <2>4. seen' \in [Appenders -> Digest]
      BY <1>1, <1>5, <2>1 DEF ReadTail
    <2>. QED BY <1>1, <1>5, <2>3, <2>4 DEF ReadTail
  <1>6. ASSUME NEW w \in Appenders, Insert(w)
        PROVE  AuditTypeOK'
    <2>1. Signed(w) \in Envelope
      BY <1>1, SignedType
    <2>2. /\ \/ /\ own' = [own EXCEPT ![w] = Signed(w)] /\ lock' = w
                /\ UNCHANGED <<chain, answer>>
             \/ /\ chain' = Append(chain, Signed(w)) /\ UNCHANGED <<own, lock>>
                /\ answer' = [answer EXCEPT ![w] = Signed(w)]
          /\ pc' = [pc EXCEPT ![w] = "appended"] \/ pc' = [pc EXCEPT ![w] = "returned"]
          /\ UNCHANGED <<setting, seen, tries, check>>
      BY <1>6 DEF Insert, Signed
    <2>3. Append(chain, Signed(w)) \in Seq(Envelope)
      BY <1>1, <2>1, Grown
    <2>. QED BY <1>1, <2>1, <2>2, <2>3 DEF AppendPoint, Ended
  <1>7. ASSUME NEW w \in Appenders, Conflict(w)
        PROVE  AuditTypeOK'
    <2>1. tries[w] < Retries /\ tries[w] \in 0..Retries
      BY <1>1, <1>7 DEF Conflict, WriterPart
    <2>2. tries' \in [Appenders -> 0..Retries]
      BY <1>1, <1>7, <2>1, ChainAssumption DEF Conflict
    <2>. QED BY <1>1, <1>7, <2>2 DEF Conflict, AppendPoint, Ended
  <1>8. ASSUME NEW w \in Appenders, NEW told \in BOOLEAN, Commit(w, told)
        PROVE  AuditTypeOK'
    <2>1. own[w] \in Envelope
      BY <1>1, <1>8 DEF Commit, WriterPart
    <2>2. Append(chain, own[w]) \in Seq(Envelope)
      BY <1>1, <2>1, Grown
    <2>3. lock' \in Appenders \cup {Null}
      BY <1>1, <1>8 DEF Commit, Unlocked
    <2>. QED BY <1>1, <1>8, <2>1, <2>2, <2>3 DEF Commit, AppendPoint, Ended
  <1>9. ASSUME NEW w \in Appenders, GiveUp(w)
        PROVE  AuditTypeOK'
    BY <1>1, <1>9 DEF GiveUp, Unlocked, AppendPoint, Ended
  <1>10. ASSUME NEW v \in Verifiers, NEW mode \in Modes, NEW head \in Heads \cup {Null},
                StartCheck(v, mode, head)
         PROVE  AuditTypeOK'
    <2>1. head \in Digest \cup {Null}
      BY <1>1, <1>10 DEF Heads, Envelope
    <2>2. [state |-> "reading", mode |-> mode, head |-> head, got |-> <<>>] \in Check
      BY <2>1 DEF Check
    <2>. QED BY <1>1, <1>10, <2>2 DEF StartCheck, writerVars
  <1>11. ASSUME NEW v \in Verifiers, ReadPage(v)
         PROVE  AuditTypeOK'
    <2> DEFINE c == check[v]
               stop == Len(c.got) + PageLimit(c)
               last == IF stop < Len(chain) THEN stop ELSE Len(chain)
               verdict == Verdict(c.got, c.head)
               page == c.got \o SubSeq(chain, Len(c.got) + 1, last)
    <2>1. c \in Check /\ c.got \in Seq(Envelope)
      BY <1>1 DEF Check
    <2>2. verdict \in {"idle", "reading", "valid", "invalid", "empty"}
      BY DEF Verdict
    <2>3. PageLimit(c) # 0 /\ ~(last <= Len(c.got)) => page \in Seq(Envelope)
      <3>1. Len(c.got) \in Nat /\ Len(chain) \in Nat
        BY <1>1, <2>1
      <3>2. SUFFICES ASSUME ~(last <= Len(c.got)), PageLimit(c) # 0
                     PROVE  SubSeq(chain, Len(c.got) + 1, last) \in Seq(Envelope)
        BY <2>1
      <3>3. PageLimit(c) \in Int
        BY <2>1, ChainAssumption DEF PageLimit, Check
      <3>. QED BY <1>1, <3>1, <3>2, <3>3
    <2>4. check' = [check EXCEPT ![v] = IF PageLimit(c) = 0 \/ last <= Len(c.got)
                                        THEN [c EXCEPT !.state = verdict]
                                        ELSE [c EXCEPT !.got = page]]
      BY <1>11 DEF ReadPage
    <2> HIDE DEF page, last, verdict
    <2>5. /\ [c EXCEPT !.state = verdict] \in Check
          /\ page \in Seq(Envelope) => [c EXCEPT !.got = page] \in Check
      BY <2>1, <2>2 DEF Check
    <2> HIDE DEF c
    <2>6. check' \in [Verifiers -> Check]
      BY <1>1, <2>3, <2>4, <2>5
    <2>. QED BY <1>1, <1>11, <2>6 DEF ReadPage, writerVars
  <1>. QED BY <1>2, <1>3, <1>4, <1>5, <1>6, <1>7, <1>8, <1>9, <1>10, <1>11
           DEF AuditNext, AppendStep, VerifyStep

-----------------------------
(* What a step does to the chain, and to the others. *)

(* The chain grows by an envelope that fits: of a writer that commits, or,  *)
(* without transactions, of one whose compare_append succeeds.              *)
Grows(w, e) ==
    /\ e \in Envelope /\ Fits(chain, e) /\ e.event = EventOf[w]
    /\ chain' = Append(chain, e)
    /\ \/ ~Transactional
       \/ own[w] # Null

(* At the moment of the insert it fits the chain: the tail was compared. *)
LEMMA SignedFits ==
    ASSUME AuditInv, NEW w \in Appenders, Insert(w)
    PROVE  Fits(chain, Signed(w))
  <1>1. /\ AuditTypeOK /\ Whole(chain) /\ chain \in Seq(Envelope) /\ WriterPart(w)
    BY DEF AuditInv, AuditTypeOK
  <1>2. /\ pc[w] = "cas" /\ seen[w] = TailHash(chain) /\ Present(EventOf[w]) = {}
    BY DEF Insert, Current
  <1>3. Len(seen[w]) = Len(chain)
    BY <1>1, <1>2, TailLength
  <1>4. Admissible(EventOf[w])
    BY <1>1, <1>2, <1>3 DEF WriterPart
  <1>. QED BY <1>2, <1>3, <1>4 DEF Fits, Signed, Present, Admissible

(* A step leaves the chain alone or appends one envelope that fits. *)
LEMMA ChainMove ==
    ASSUME AuditInv, [AuditNext]_auditVars
    PROVE  /\ setting' = setting
           /\ chain' = chain \/ \E w \in Appenders, e \in Envelope : Grows(w, e)
  <1>1. /\ AuditTypeOK /\ Whole(chain) /\ chain \in Seq(Envelope)
        /\ \A w \in Appenders : WriterPart(w)
    BY DEF AuditInv, AuditTypeOK
  <1>2. CASE UNCHANGED auditVars
    BY <1>2 DEF auditVars
  <1>3. ASSUME NEW w \in Appenders, Insert(w)
        PROVE  setting' = setting /\ (chain' = chain \/ Grows(w, Signed(w)))
    <2>1. /\ setting' = setting
          /\ \/ chain' = chain
             \/ chain' = Append(chain, Signed(w)) /\ ~Transactional
      <3>1. setting' = setting /\ (Transactional => chain' = chain)
        BY <1>3 DEF Insert
      <3>2. ~Transactional => chain' = Append(chain, Signed(w))
        BY <1>3 DEF Insert, Signed
      <3>. QED BY <3>1, <3>2
    <2>5. Fits(chain, Signed(w))
      BY <1>3, SignedFits
    <2>6. Signed(w) \in Envelope /\ Signed(w).event = EventOf[w]
      BY <1>1, SignedType DEF Signed
    <2>. QED BY <2>1, <2>5, <2>6 DEF Grows
  <1>4. ASSUME NEW w \in Appenders, NEW told \in BOOLEAN, Commit(w, told)
        PROVE  setting' = setting /\ Grows(w, own[w])
    <2>1. own[w] # Null /\ own[w] \in Envelope
      BY <1>1, <1>4 DEF Commit, WriterPart, AuditTypeOK
    <2>2. Fits(chain, own[w]) /\ own[w].event = EventOf[w]
      BY <1>1, <2>1 DEF WriterPart
    <2>3. setting' = setting /\ chain' = Append(chain, own[w])
      BY <1>4 DEF Commit
    <2>. QED BY <2>1, <2>2, <2>3 DEF Grows
  <1>5. ASSUME NEW w \in Appenders,
               Offer(w) \/ Find(w) \/ ReadTail(w) \/ Conflict(w) \/ GiveUp(w)
        PROVE  UNCHANGED <<setting, chain>>
    BY <1>5 DEF Offer, Find, ReadTail, Conflict, GiveUp
  <1>6. ASSUME NEW v \in Verifiers, VerifyStep(v)
        PROVE  UNCHANGED <<setting, chain>>
    BY <1>6 DEF VerifyStep, StartCheck, ReadPage
  <1>7. \A w \in Appenders : Signed(w) \in Envelope
    BY <1>1, SignedType
  <1>8. ASSUME NEW w \in Appenders, NEW e, Grows(w, e)
        PROVE  e \in Envelope
    BY <1>8 DEF Grows
  <1>. QED BY <1>2, <1>3, <1>4, <1>5, <1>6, <1>7, <1>8 DEF AuditNext, AppendStep

(* The chain keeps what it has. *)
LEMMA ChainKept ==
    ASSUME AuditInv, [AuditNext]_auditVars
    PROVE  /\ chain' \in Seq(Envelope) /\ Whole(chain)'
           /\ Len(chain) <= Len(chain') /\ Len(chain) \in Nat /\ Len(chain') \in Nat
           /\ \A i \in 1..Len(chain) : i \in 1..Len(chain') /\ chain'[i] = chain[i]
           /\ chain' # chain => Len(chain) < Len(chain')
  <1>1. chain \in Seq(Envelope) /\ Whole(chain)
    BY DEF AuditInv, AuditTypeOK
  <1>2. CASE chain' = chain
    <2>1. Whole(chain')
      BY <1>1, <1>2
    <2>2. Whole(chain)'
      BY <2>1 DEF Whole, Links
    <2>3. \A i \in 1..Len(chain) : i \in 1..Len(chain') /\ chain'[i] = chain[i]
      BY <1>2
    <2>4. Len(chain) \in Nat /\ Len(chain') = Len(chain)
      BY <1>1, <1>2
    <2>. QED BY <1>1, <1>2, <2>2, <2>3, <2>4
  <1>3. ASSUME NEW w \in Appenders, NEW e \in Envelope, Grows(w, e)
        PROVE  /\ chain' \in Seq(Envelope) /\ Whole(chain)'
               /\ Len(chain') = Len(chain) + 1
               /\ \A i \in 1..Len(chain) : i \in 1..Len(chain') /\ chain'[i] = chain[i]
    <2>1. /\ chain' = Append(chain, e) /\ Fits(chain, e)
      BY <1>3 DEF Grows
    <2>2. Whole(Append(chain, e))
      BY <1>1, <2>1, FittingGrows
    <2>3. Whole(chain')
      BY <2>1, <2>2
    <2>. QED BY <1>1, <2>1, <2>3, Grown DEF Whole, Links
  <1>. QED BY <1>1, <1>2, <1>3, ChainMove

(* A step of one writer leaves the others alone. *)
LEMMA OtherWriters ==
    ASSUME AuditInv, [AuditNext]_auditVars, NEW w \in Appenders
    PROVE  \/ \E told \in BOOLEAN : Commit(w, told)
           \/ Offer(w) \/ Find(w) \/ ReadTail(w) \/ Insert(w) \/ Conflict(w) \/ GiveUp(w)
           \/ /\ pc'[w] = pc[w] /\ seen'[w] = seen[w] /\ tries'[w] = tries[w]
              /\ own'[w] = own[w] /\ answer'[w] = answer[w]
              /\ own[w] # Null => lock' = lock
              /\ own[w] # Null => chain' = chain
  <1>1. /\ AuditTypeOK /\ WriterPart(w) /\ \A x \in Appenders : WriterPart(x)
        /\ Null \notin Appenders
    BY ChainAssumption DEF AuditInv
  <1> DEFINE Alone == /\ pc'[w] = pc[w] /\ seen'[w] = seen[w] /\ tries'[w] = tries[w]
                      /\ own'[w] = own[w] /\ answer'[w] = answer[w]
                      /\ own[w] # Null => lock' = lock
                      /\ own[w] # Null => chain' = chain
  <1>2. CASE UNCHANGED auditVars
    BY <1>2 DEF auditVars
  <1>3. ASSUME NEW x \in Appenders \ {w},
               \/ \E told \in BOOLEAN : Commit(x, told)
               \/ Offer(x) \/ Find(x) \/ ReadTail(x) \/ Insert(x) \/ Conflict(x) \/ GiveUp(x)
        PROVE  Alone
    <2>1. own[w] # Null => Transactional /\ lock = w /\ lock # x /\ lock # Null
      BY <1>1 DEF WriterPart
    <2>2. CASE Offer(x) \/ Find(x) \/ ReadTail(x) \/ GiveUp(x)
      BY <1>1, <2>1, <2>2 DEF Offer, Find, ReadTail, GiveUp, Unlocked, AuditTypeOK
    <2>3. CASE Insert(x) \/ Conflict(x)
      BY <1>1, <2>1, <2>3 DEF Insert, Conflict, AuditTypeOK
    <2>4. ASSUME NEW told \in BOOLEAN, Commit(x, told)
          PROVE  Alone
      <3>1. own[x] # Null
        BY <1>1, <2>4 DEF Commit, WriterPart
      <3>2. own[w] = Null
        BY <1>1, <2>1, <3>1 DEF WriterPart
      <3>. QED BY <1>1, <2>4, <3>2 DEF Commit, AuditTypeOK
    <2>. QED BY <1>3, <2>2, <2>3, <2>4
  <1>4. ASSUME NEW v \in Verifiers, VerifyStep(v)
        PROVE  Alone
    BY <1>4 DEF VerifyStep, StartCheck, ReadPage, writerVars
  <1>. QED BY <1>2, <1>3, <1>4 DEF AuditNext, AppendStep

-----------------------------
(* Writers. *)

LEMMA WriterStep ==
    ASSUME AuditInv, [AuditNext]_auditVars, NEW w \in Appenders
    PROVE  WriterPart(w)'
  <1>1. /\ AuditTypeOK /\ Whole(chain) /\ chain \in Seq(Envelope) /\ WriterPart(w)
        /\ setting' = setting
    BY ChainMove DEF AuditInv, AuditTypeOK
  <1>2. /\ pc \in [Appenders -> AppendPoint] /\ seen \in [Appenders -> Digest]
        /\ tries \in [Appenders -> 0..Retries]
        /\ own \in [Appenders -> Envelope \cup {Null}]
        /\ answer \in [Appenders -> Envelope \cup {Null}]
    BY <1>1 DEF AuditTypeOK
  <1>3. EventOf' = EventOf /\ Transactional' = Transactional
    BY <1>1 DEF EventOf, Transactional
  (* What was answered stays where it is. *)
  <1>4. answer'[w] = answer[w] => (answer'[w] # Null => Stored(answer[w], w)')
    <2>1. SUFFICES ASSUME answer[w] # Null, answer'[w] = answer[w]
                   PROVE  Stored(answer[w], w)'
      OBVIOUS
    <2>2. /\ answer[w] \in Envelope /\ Stored(answer[w], w)
      BY <1>1, <1>2, <2>1 DEF WriterPart
    <2>3. answer[w].sequence \in 1..Len(chain)
      BY <1>1, <2>2 DEF Stored, Envelope
    <2>4. /\ chain'[answer[w].sequence] = chain[answer[w].sequence]
          /\ answer[w].sequence <= Len(chain')
      BY <2>3, ChainKept
    <2>. QED BY <1>3, <2>1, <2>2, <2>4 DEF Stored
  (* What is to be shown. *)
  <1>13. ASSUME pc'[w] \in {"find", "tail", "cas"} \cup {"idle"} => tries'[w] < Retries,
                pc'[w] = "appended" <=> own'[w] # Null,
                own'[w] # Null => /\ Transactional /\ lock' = w
                                  /\ own'[w].event = EventOf[w] /\ Fits(chain', own'[w]),
                pc'[w] = "cas" => /\ Len(seen'[w]) <= Len(chain')
                                  /\ Len(seen'[w]) = Len(chain') => Admissible(EventOf[w])',
                answer'[w] # Null => Stored(answer[w], w)'
         PROVE  WriterPart(w)'
    <2>1. Fits(chain', own'[w]) <=> Fits(chain, own[w])'
      BY DEF Fits, TailHash
    <2>. QED BY <1>3, <1>13, <2>1 DEF WriterPart
  (* The parts that speak of the present chain, when it stays. *)
  <1>5. chain' = chain => /\ Admissible(EventOf[w])' = Admissible(EventOf[w])
                          /\ Fits(chain, own[w]) => Fits(chain', own[w])
    BY <1>3 DEF Admissible
  <1>6. CASE /\ pc'[w] = pc[w] /\ seen'[w] = seen[w] /\ tries'[w] = tries[w]
             /\ own'[w] = own[w] /\ answer'[w] = answer[w]
             /\ own[w] # Null => lock' = lock
             /\ own[w] # Null => chain' = chain
    <2>1. own'[w] # Null => /\ Transactional' /\ lock' = w
                            /\ own'[w].event = EventOf[w]' /\ Fits(chain', own'[w])
      BY <1>1, <1>3, <1>5, <1>6 DEF WriterPart
    <2>2. pc'[w] = "cas" => /\ Len(seen'[w]) <= Len(chain')
                            /\ Len(seen'[w]) = Len(chain') => Admissible(EventOf[w])'
      <3>1. Len(seen[w]) \in Nat
        BY <1>2 DEF Digest
      <3>. QED BY <1>1, <1>5, <1>6, <3>1, ChainKept DEF WriterPart
    <2>3. pc'[w] \in {"find", "tail", "cas"} \cup {"idle"} => tries'[w] < Retries
      BY <1>1, <1>6 DEF WriterPart
    <2>4. pc'[w] = "appended" <=> own'[w] # Null
      BY <1>1, <1>6 DEF WriterPart
    <2>5. answer'[w] # Null => Stored(answer[w], w)'
      BY <1>4, <1>6
    <2>. QED BY <1>3, <1>13, <2>1, <2>2, <2>3, <2>4, <2>5
  <1>7. CASE Offer(w) \/ GiveUp(w)
    <2>1. \/ pc'[w] = "find" /\ own'[w] = own[w] /\ pc[w] = "idle"
          \/ pc'[w] = "given_up" /\ own'[w] = Null
      BY <1>2, <1>7 DEF Offer, GiveUp
    <2>2. answer'[w] = answer[w] /\ tries'[w] = tries[w] /\ chain' = chain
      BY <1>7 DEF Offer, GiveUp
    <2>3. answer'[w] # Null => Stored(answer[w], w)'
      BY <1>4, <2>2
    <2>4. own'[w] = Null /\ (pc'[w] = "find" => tries'[w] < Retries)
      BY <1>1, <2>1, <2>2 DEF WriterPart
    <2>. QED BY <1>13, <2>1, <2>3, <2>4
  <1>8. CASE Find(w)
    <2>1. /\ pc[w] = "find" /\ own' = own /\ tries' = tries /\ chain' = chain
          /\ pc'[w] \in {"tail", "returned", "refused"}
          /\ \/ answer'[w] = answer[w]
             \/ \E i \in 1..Len(chain) : /\ chain[i].event = EventOf[w]
                                         /\ answer'[w] = chain[i]
      BY <1>2, <1>8 DEF Find, Present, SameEvent
    <2>2. \A i \in 1..Len(chain) : chain[i].sequence = i
      BY <1>1 DEF Whole, Links
    <2>3. ASSUME NEW i \in 1..Len(chain), chain[i].event = EventOf[w], answer'[w] = chain[i]
          PROVE  Stored(answer[w], w)'
      BY <1>1, <1>3, <2>1, <2>2, <2>3 DEF Stored
    <2>4. answer'[w] # Null => Stored(answer[w], w)'
      BY <1>4, <2>1, <2>3
    <2>5. own'[w] = Null /\ tries'[w] < Retries
      BY <1>1, <2>1 DEF WriterPart
    <2>. QED BY <1>13, <2>1, <2>4, <2>5
  <1>9. CASE ReadTail(w)
    <2>1. /\ pc[w] = "tail" /\ own' = own /\ tries' = tries /\ chain' = chain
          /\ answer' = answer
          /\ \/ pc'[w] = "refused"
             \/ /\ pc'[w] = "cas" /\ seen'[w] = TailHash(chain)
                /\ Admissible(EventOf[w])
      BY <1>2, <1>9 DEF ReadTail
    <2>2. Len(TailHash(chain)) = Len(chain) /\ Len(chain) \in Nat
      BY <1>1, TailLength
    <2>3. pc'[w] = "cas" => /\ Len(seen'[w]) <= Len(chain')
                            /\ Admissible(EventOf[w])'
      BY <1>5, <2>1, <2>2
    <2>4. answer'[w] # Null => Stored(answer[w], w)'
      BY <1>4, <2>1
    <2>5. own'[w] = Null /\ tries'[w] < Retries
      BY <1>1, <2>1 DEF WriterPart
    <2>. QED BY <1>13, <2>1, <2>3, <2>4, <2>5
  <1>10. CASE Insert(w)
    <2>1. Fits(chain, Signed(w)) /\ Signed(w) \in Envelope /\ Signed(w).event = EventOf[w]
      BY <1>1, <1>10, SignedFits, SignedType DEF Signed
    <2>2. CASE Transactional
      <3>1. /\ own' = [own EXCEPT ![w] = Signed(w)] /\ lock' = w
            /\ pc' = [pc EXCEPT ![w] = "appended"]
            /\ UNCHANGED <<chain, answer, tries>>
        BY <1>10, <2>2 DEF Insert, Signed
      <3>2. own'[w] = Signed(w) /\ pc'[w] = "appended"
        BY <1>2, <3>1
      <3>3. Signed(w) # Null
        BY <2>1, ChainAssumption
      <3>4. Fits(chain', own'[w]) /\ own'[w].event = EventOf[w]
        BY <2>1, <3>1, <3>2
      <3>5. answer'[w] # Null => Stored(answer[w], w)'
        BY <1>4, <3>1
      <3>. QED BY <1>13, <2>2, <3>1, <3>2, <3>3, <3>4, <3>5
    <2>3. CASE ~Transactional
      <3>1. /\ chain' = Append(chain, Signed(w))
            /\ pc' = [pc EXCEPT ![w] = "returned"]
            /\ answer' = [answer EXCEPT ![w] = Signed(w)]
            /\ UNCHANGED <<own, tries>>
        BY <1>10, <2>3 DEF Insert, Signed
      <3>2. own[w] = Null
        BY <1>1, <2>3 DEF WriterPart
      <3>3. /\ chain'[Len(chain) + 1] = Signed(w) /\ Len(chain') = Len(chain) + 1
            /\ Signed(w).sequence = Len(chain) + 1 /\ Len(chain) + 1 \in Nat
        <4>1. Signed(w).sequence = Len(chain) + 1
          BY <2>1 DEF Fits
        <4>. QED BY <1>1, <2>1, <3>1, <4>1, Grown
      <3>4. answer'[w] = Signed(w) /\ pc'[w] = "returned"
        BY <1>2, <3>1
      <3>5. Stored(answer[w], w)'
        BY <1>3, <2>1, <3>3, <3>4 DEF Stored
      <3>6. own'[w] = Null
        BY <3>1, <3>2
      <3>. QED BY <1>13, <3>4, <3>5, <3>6
    <2>. QED BY <2>2, <2>3
  <1>11. CASE Conflict(w)
    <2>1. /\ pc[w] = "cas" /\ own' = own /\ chain' = chain /\ answer' = answer
          /\ \/ pc'[w] = "find" /\ tries'[w] < Retries
             \/ pc'[w] = "exhausted"
      BY <1>2, <1>11 DEF Conflict, Again
    <2>2. own'[w] = Null
      BY <1>1, <2>1 DEF WriterPart
    <2>3. answer'[w] # Null => Stored(answer[w], w)'
      BY <1>4, <2>1
    <2>. QED BY <1>13, <2>1, <2>2, <2>3
  <1>12. ASSUME NEW told \in BOOLEAN, Commit(w, told)
         PROVE  WriterPart(w)'
    <2>1. own[w] \in Envelope /\ Fits(chain, own[w]) /\ own[w].event = EventOf[w]
      BY <1>1, <1>2, <1>12 DEF Commit, WriterPart
    <2>2. /\ chain' = Append(chain, own[w]) /\ own'[w] = Null
          /\ pc'[w] \in {"returned", "given_up"}
          /\ answer'[w] = own[w] \/ answer'[w] = Null
      BY <1>2, <1>12 DEF Commit
    <2>3. /\ chain'[Len(chain) + 1] = own[w] /\ Len(chain') = Len(chain) + 1
          /\ own[w].sequence = Len(chain) + 1 /\ Len(chain) + 1 \in Nat
      <3>1. own[w].sequence = Len(chain) + 1
        BY <2>1 DEF Fits
      <3>. QED BY <1>1, <2>1, <2>2, <3>1, Grown
    <2>4. answer'[w] # Null => Stored(answer[w], w)'
      BY <1>3, <2>1, <2>2, <2>3 DEF Stored
    <2>. QED BY <1>13, <2>2, <2>4
  <1>. QED BY <1>6, <1>7, <1>8, <1>9, <1>10, <1>11, <1>12, OtherWriters

-----------------------------
(* Verifiers. *)

(* The heads that were given out are digests of the chain. *)
LEMMA HeadStored ==
    ASSUME AuditInv, NEW head \in Heads
    PROVE  Len(head) \in 1..Len(chain) /\ chain[Len(head)].current_hash = head /\ head # Null
  <1>1. PICK w \in Appenders : answer[w] # Null /\ head = answer[w].current_hash
    BY DEF Heads
  <1>2. /\ AuditTypeOK /\ Whole(chain) /\ WriterPart(w) /\ answer[w] \in Envelope
    BY <1>1 DEF AuditInv, AuditTypeOK
  <1>3. answer[w].sequence \in 1..Len(chain) /\ chain[answer[w].sequence] = answer[w]
    BY <1>1, <1>2 DEF WriterPart, Stored, Envelope, AuditTypeOK
  <1>4. Len(head) = answer[w].sequence
    BY <1>1, <1>2, <1>3 DEF Whole
  <1>5. head # Null
    BY <1>1, <1>2, ChainAssumption DEF Envelope
  <1>. QED BY <1>1, <1>3, <1>4, <1>5

(* The verdict on a prefix is never a refusal, if it reached its anchor. *)
LEMMA VerdictOfPrefix ==
    ASSUME AuditTypeOK, Whole(chain), NEW g \in Seq(Envelope), Prefix(g),
           NEW head \in Digest \cup {Null},
           head # Null => Len(g) > 0 /\ Len(g) = Len(head) /\ chain[Len(g)].current_hash = head
    PROVE  /\ Verdict(g, head) \in {"valid", "empty"}
           /\ g # <<>> => Verdict(g, head) = "valid"
  <1>1. Links(g) /\ Len(g) <= Maximum
    BY PrefixVerifies
  <1>2. head # Null => g[Len(g)].current_hash = head
    BY DEF Prefix
  <1>. QED BY <1>1, <1>2 DEF Verdict

(* Reading on: a page after what was read. *)
LEMMA Concat ==
    ASSUME NEW g \in Seq(Envelope), NEW s \in Seq(Envelope)
    PROVE  /\ g \o s \in Seq(Envelope) /\ Len(g \o s) = Len(g) + Len(s)
           /\ \A i \in 1..Len(g) + Len(s) :
                 (g \o s)[i] = IF i <= Len(g) THEN g[i] ELSE s[i - Len(g)]
  OBVIOUS

(* A page of the chain, as the reader gets it. *)
LEMMA Paged ==
    ASSUME NEW c \in Seq(Envelope), NEW m \in Nat, NEW n \in Nat, m < n, n <= Len(c)
    PROVE  /\ SubSeq(c, m + 1, n) \in Seq(Envelope)
           /\ Len(SubSeq(c, m + 1, n)) = n - m
           /\ \A i \in 1..n - m : SubSeq(c, m + 1, n)[i] = c[m + i]
  OBVIOUS

(* What is still to be read before an anchor is reached. *)
Limit(m, n, size) == IF n - m < size THEN n - m ELSE size

(* A page never goes beyond the head that was anchored. *)
LEMMA Limited ==
    ASSUME NEW m \in Nat, NEW n \in Nat, m <= n, NEW size \in Nat \ {0}
    PROVE  /\ Limit(m, n, size) \in Nat /\ m + Limit(m, n, size) <= n
           /\ Limit(m, n, size) = 0 <=> m = n
  BY DEF Limit

(* A reader keeps a prefix of the chain, and its head once anchored. *)
LEMMA VerifierStep ==
    ASSUME AuditInv, [AuditNext]_auditVars, NEW v \in Verifiers
    PROVE  VerifierPart(v)'
  <1>1. /\ AuditTypeOK /\ Whole(chain) /\ chain \in Seq(Envelope) /\ VerifierPart(v)
        /\ check[v] \in Check /\ check \in [Verifiers -> Check]
    BY DEF AuditInv, AuditTypeOK
  <1>2. /\ check[v].got \in Seq(Envelope) /\ check[v].head \in Digest \cup {Null}
        /\ Len(check[v].got) \in Nat /\ Len(chain) \in Nat
        /\ check[v].head # Null => Len(check[v].head) \in Nat
    BY <1>1 DEF Check, Digest
  <1>3. ASSUME check'[v] = check[v]
        PROVE  VerifierPart(v)'
    <2>1. Prefix(check[v].got)'
      BY <1>1, <1>2, <1>3, ChainKept DEF VerifierPart, Prefix
    <2>2. check[v].mode = "through" =>
             /\ Len(check[v].head) \in 1..Len(chain')
             /\ chain'[Len(check[v].head)].current_hash = check[v].head
      BY <1>1, ChainKept DEF VerifierPart
    <2>. QED BY <1>1, <1>3, <2>1, <2>2 DEF VerifierPart
  <1>4. ASSUME NEW mode \in Modes, NEW head \in Heads \cup {Null}, StartCheck(v, mode, head)
        PROVE  VerifierPart(v)'
    <2>1. /\ check'[v] = [state |-> "reading", mode |-> mode, head |-> head, got |-> <<>>]
          /\ chain' = chain /\ (mode = "prefix" <=> head = Null)
      BY <1>1, <1>4 DEF StartCheck
    <2>2. head # Null => Len(head) \in 1..Len(chain) /\ chain[Len(head)].current_hash = head
      BY HeadStored
    <2>3. Prefix(check[v].got)'
      BY <1>2, <2>1 DEF Prefix
    <2>. QED BY <1>2, <2>1, <2>2, <2>3 DEF VerifierPart
  <1>5. ASSUME ReadPage(v)
        PROVE  VerifierPart(v)'
    <2> DEFINE c == check[v]
               stop == Len(c.got) + PageLimit(c)
               last == IF stop < Len(chain) THEN stop ELSE Len(chain)
               verdict == Verdict(c.got, c.head)
               page == c.got \o SubSeq(chain, Len(c.got) + 1, last)
    <2>1. /\ c.state = "reading" /\ chain' = chain
          /\ check'[v] = IF PageLimit(c) = 0 \/ last <= Len(c.got)
                         THEN [c EXCEPT !.state = verdict] ELSE [c EXCEPT !.got = page]
      BY <1>1, <1>5 DEF ReadPage
    <2>2. c.mode = "through" =>
             /\ c.head # Null /\ Len(c.head) \in 1..Len(chain)
             /\ chain[Len(c.head)].current_hash = c.head /\ Len(c.got) <= Len(c.head)
      BY <1>1 DEF VerifierPart
    <2>3. /\ PageLimit(c) \in Nat
          /\ c.mode # "through" => PageLimit(c) > 0
          /\ c.mode = "through" => /\ Len(c.got) + PageLimit(c) <= Len(c.head)
                                   /\ PageLimit(c) = 0 <=> Len(c.got) = Len(c.head)
      <3>1. PageSize \in Nat \ {0} /\ Len(c.got) \in Nat
        BY <1>2, ChainAssumption
      <3>2. CASE c.mode = "through"
        <4>1. Len(c.head) \in Nat /\ Len(c.got) <= Len(c.head)
          <5>1. c.head # Null /\ Len(c.got) <= Len(c.head)
            BY <2>2, <3>2
          <5>. QED BY <1>2, <5>1, Zenon
        <4>2. PageLimit(c) = Limit(Len(c.got), Len(c.head), PageSize)
          BY <3>2 DEF PageLimit, Limit
        <4>3. /\ PageLimit(c) \in Nat /\ Len(c.got) + PageLimit(c) <= Len(c.head)
              /\ PageLimit(c) = 0 <=> Len(c.got) = Len(c.head)
          <5> DEFINE m == Len(c.got)
                     n == Len(c.head)
                     l == PageLimit(c)
          <5>1. m \in Nat /\ n \in Nat /\ m <= n /\ PageSize \in Nat \ {0}
            BY <3>1, <4>1
          <5>2. l = Limit(m, n, PageSize)
            BY <4>2
          <5> HIDE DEF m, n, l
          <5>3. /\ l \in Nat /\ m + l <= n
                /\ l = 0 <=> m = n
            BY <5>1, <5>2, Limited
          <5>. QED BY <5>3 DEF m, n, l
        <4>. QED BY <3>2, <4>3
      <3>3. CASE c.mode # "through"
        <4>1. PageLimit(c) = PageSize
          BY <3>3 DEF PageLimit
        <4>. QED BY <3>1, <3>3, <4>1
      <3>. QED BY <3>2, <3>3
    <2>4. /\ Prefix(c.got) /\ (c.mode = "prefix" <=> c.head = Null)
      BY <1>1 DEF VerifierPart
    <2>5. CASE PageLimit(c) = 0 \/ last <= Len(c.got)
      <3>1. c.mode = "through" => Len(c.got) = Len(c.head)
        BY <1>2, <2>2, <2>3, <2>5
      <3>2. c.mode \in {"prefix", "through"} => verdict \in {"valid", "empty"}
        BY <1>1, <1>2, <2>2, <2>4, <3>1, VerdictOfPrefix
      <3>3. c.mode = "through" => c.got # <<>>
        BY <1>2, <2>2, <3>1
      <3>4. c.mode = "through" => verdict = "valid"
        BY <1>1, <1>2, <2>2, <2>4, <3>1, <3>3, VerdictOfPrefix
      <3> HIDE DEF verdict
      <3>5. /\ check'[v].mode = c.mode /\ check'[v].head = c.head /\ check'[v].got = c.got
            /\ check'[v].state = verdict
        BY <1>1, <2>1, <2>5 DEF Check
      <3>6. Prefix(check[v].got)'
        BY <2>1, <2>4, <3>5 DEF Prefix
      <3>. QED BY <2>1, <2>2, <2>4, <3>2, <3>4, <3>5, <3>6 DEF VerifierPart
    <2>6. CASE PageLimit(c) # 0 /\ ~(last <= Len(c.got))
      <3>1. /\ last \in Nat /\ last <= Len(chain) /\ Len(c.got) + 1 <= last
            /\ c.mode = "through" => last <= Len(c.head)
        <4>1. last \in Nat /\ last <= Len(chain) /\ last <= stop
          BY <1>2, <2>3
        <4>2. Len(c.got) + 1 <= last
          BY <1>2, <2>6, <4>1
        <4>3. ASSUME c.mode = "through"
              PROVE  last <= Len(c.head)
          <5>1. /\ Len(c.got) + PageLimit(c) <= Len(c.head) /\ PageLimit(c) \in Nat
                /\ Len(c.head) \in 1..Len(chain)
            BY <2>2, <2>3, <4>3
          <5>2. stop \in Nat /\ Len(c.head) \in Nat /\ stop <= Len(c.head)
            BY <1>2, <5>1
          <5>3. last \in Nat /\ last <= stop
            BY <4>1
          <5> HIDE DEF last, stop, c
          <5>. QED BY <5>2, <5>3
        <4>. QED BY <4>1, <4>2, <4>3
      <3> HIDE DEF last
      <3>2. /\ SubSeq(chain, Len(c.got) + 1, last) \in Seq(Envelope)
            /\ Len(SubSeq(chain, Len(c.got) + 1, last)) = last - Len(c.got)
            /\ \A i \in 1..last - Len(c.got) :
                  SubSeq(chain, Len(c.got) + 1, last)[i] = chain[Len(c.got) + i]
        <4>1. /\ chain \in Seq(Envelope) /\ Len(c.got) \in Nat /\ last \in Nat
              /\ Len(c.got) < last /\ last <= Len(chain)
          BY <1>1, <1>2, <3>1
        <4>. QED BY <4>1, Paged
      <3> DEFINE new == SubSeq(chain, Len(c.got) + 1, last)
      <3> HIDE DEF new
      <3>3. /\ page \in Seq(Envelope) /\ Len(page) = last
            /\ \A i \in 1..last : page[i] = IF i <= Len(c.got) THEN c.got[i]
                                            ELSE new[i - Len(c.got)]
        <4>1. new \in Seq(Envelope) /\ Len(new) = last - Len(c.got)
          BY <3>2 DEF new
        <4>2. page = c.got \o new
          BY DEF new
        <4>3. Len(c.got) + Len(new) = last
          BY <1>2, <3>1, <4>1
        <4>4. c.got \in Seq(Envelope)
          BY <1>2
        <4>5. /\ c.got \o new \in Seq(Envelope) /\ Len(c.got \o new) = Len(c.got) + Len(new)
              /\ \A i \in 1..Len(c.got) + Len(new) :
                    (c.got \o new)[i] = IF i <= Len(c.got) THEN c.got[i]
                                       ELSE new[i - Len(c.got)]
          BY <4>1, <4>4, Concat
        <4> HIDE DEF page
        <4> DEFINE all == c.got \o new
        <4>6. page = all
          BY <4>2
        <4>7. /\ all \in Seq(Envelope) /\ Len(all) = last
              /\ \A i \in 1..last : all[i] = IF i <= Len(c.got) THEN c.got[i] ELSE new[i - Len(c.got)]
          BY <4>3, <4>5
        <4> HIDE DEF all
        <4>. QED BY <4>6, <4>7
      <3>4. Prefix(page)
        <4>1. SUFFICES ASSUME NEW i \in 1..last
                       PROVE  page[i] = chain[i]
          BY <3>1, <3>3 DEF Prefix
        <4>2. CASE i <= Len(c.got)
          BY <1>2, <2>4, <3>3, <4>2 DEF Prefix
        <4>3. CASE ~(i <= Len(c.got))
          <5> DEFINE read == Len(c.got)
          <5>2. read \in Nat /\ last \in Nat /\ i \in 1..last /\ ~(i <= read)
            BY <1>2, <3>1, <4>3
          <5> HIDE DEF read
          <5>3. i - read \in 1..last - read /\ read + (i - read) = i
            BY <5>2
          <5>1. i - Len(c.got) \in 1..last - Len(c.got) /\ Len(c.got) + (i - Len(c.got)) = i
            BY <5>3 DEF read
          <5>. QED BY <3>2, <3>3, <4>3, <5>1 DEF new
        <4>. QED BY <4>2, <4>3
      <3> HIDE DEF page
      <3>5. /\ check'[v].mode = c.mode /\ check'[v].head = c.head /\ check'[v].got = page
            /\ check'[v].state = "reading"
        BY <1>1, <2>1, <2>6 DEF Check, last
      <3>6. Prefix(check[v].got)'
        BY <2>1, <3>4, <3>5 DEF Prefix
      <3>. QED BY <2>1, <2>2, <2>4, <3>1, <3>3, <3>5, <3>6 DEF VerifierPart
    <2>. QED BY <2>5, <2>6
  <1>6. ASSUME NEW w \in Appenders, AppendStep(w) \/ GiveUp(w)
        PROVE  check' = check
    BY <1>6 DEF AppendStep, Offer, Find, ReadTail, Insert, Conflict, Commit, GiveUp
  <1>7. ASSUME NEW u \in Verifiers \ {v}, VerifyStep(u)
        PROVE  check'[v] = check[v]
    BY <1>1, <1>7 DEF VerifyStep, StartCheck, ReadPage
  <1>8. UNCHANGED auditVars => check' = check
    BY DEF auditVars
  <1>. QED BY <1>3, <1>4, <1>5, <1>6, <1>7, <1>8 DEF AuditNext, VerifyStep

-----------------------------
(* The theorems. *)

LEMMA AuditInvInit == AuditInit => AuditInv
  <1> SUFFICES ASSUME AuditInit
               PROVE  AuditInv
    OBVIOUS
  <1> USE DEF AuditInit
  <1>1. /\ Retries \in Nat \ {0} /\ Maximum \in Nat \ {0}
        /\ <<>> \in Seq(Envelope) /\ Len(<<>>) = 0 /\ <<>> \in Digest
    BY ChainAssumption DEF Digest
  <1>2. [state |-> "idle", mode |-> "prefix", head |-> Null, got |-> <<>>] \in Check
    BY <1>1 DEF Check, Modes
  <1>3. AuditTypeOK
    BY <1>1, <1>2 DEF AuditTypeOK, AppendPoint, NoChecks
  <1>4. Whole(chain)
    BY <1>1 DEF Whole, Links
  <1>5. ASSUME NEW w \in Appenders
        PROVE  WriterPart(w)
    <2>1. pc[w] = "idle" /\ own[w] = Null /\ answer[w] = Null /\ tries[w] = 0
      OBVIOUS
    <2>. QED BY <1>1, <2>1 DEF WriterPart
  <1>6. ASSUME NEW v \in Verifiers
        PROVE  VerifierPart(v)
    <2>1. /\ check[v].mode = "prefix" /\ check[v].head = Null /\ check[v].got = <<>>
          /\ check[v].state = "idle"
      BY DEF NoChecks
    <2>. QED BY <1>1, <2>1 DEF VerifierPart, Prefix
  <1>. QED BY <1>3, <1>4, <1>5, <1>6 DEF AuditInv

(* Every step keeps the invariant. *)
LEMMA AuditInvStep ==
    AuditInv /\ [AuditNext]_auditVars => AuditInv'
  <1> SUFFICES ASSUME AuditInv, [AuditNext]_auditVars
               PROVE  AuditInv'
    OBVIOUS
  <1>1. AuditTypeOK'
    BY AuditTypeStep
  <1>2. Whole(chain)'
    <2>1. Whole(chain')
      <3>1. Whole(chain) /\ chain \in Seq(Envelope)
        BY DEF AuditInv, AuditTypeOK
      <3>2. ASSUME NEW w \in Appenders, NEW e \in Envelope, Grows(w, e)
            PROVE  Whole(chain')
        BY <3>1, <3>2, FittingGrows DEF Grows
      <3>. QED BY <3>1, <3>2, ChainMove
    <2>. QED BY <2>1 DEF Whole, Links
  <1>. QED BY <1>1, <1>2, WriterStep, VerifierStep DEF AuditInv

(* The inductive invariant of the audit chain holds in every behaviour. *)
THEOREM AuditInvariant == AuditSpec => []AuditInv
  BY AuditInvInit, AuditInvStep, PTL DEF AuditSpec

(* Whatever the appends race with, the stored chain passes verify, and what *)
(* was answered once - a receipt of append, an anchor - can be shown again  *)
(* while the chain grows between the pages that are read                    *)
(* (security/audit.py, append and _verify).                                 *)
THEOREM ReceiptsAlwaysVerify == AuditSpec => []ReceiptsVerify
  <1>1. ASSUME AuditInv
        PROVE  ReceiptsVerify
    <2>1. AuditTypeOK /\ Whole(chain) /\ chain \in Seq(Envelope)
      BY <1>1 DEF AuditInv, AuditTypeOK
    <2>2. chain # <<>> => Verdict(chain, Null) = "valid"
      BY <2>1 DEF Whole, Verdict
    <2>3. ReceiptStays
      BY <1>1 DEF AuditInv, WriterPart, Stored, ReceiptStays
    <2>4. AnchorVerifies
      BY <1>1 DEF AuditInv, VerifierPart, AnchorVerifies
    <2>. QED BY <2>1, <2>2, <2>3, <2>4 DEF ReceiptsVerify
  <1>. QED BY <1>1, AuditInvariant, PTL

(* The chain, read as its events, is the append-only log of AuditLog: every *)
(* step of the code either leaves it alone or logs one offered event that   *)
(* is not there yet, in the order of time, under the policy and the target  *)
(* of the last one, and never beyond Maximum.                               *)
Events == [i \in 1..Len(chain) |-> chain[i].event]

(* A step of the chain is a step of the log, or none. *)
LEMMA LogStep ==
    AuditInv /\ [AuditNext]_auditVars => [Log!Next]_Events
  <1> SUFFICES ASSUME AuditInv, [AuditNext]_auditVars
               PROVE  Log!Next \/ Events' = Events
    OBVIOUS
  <1>1. AuditTypeOK /\ Whole(chain) /\ chain \in Seq(Envelope) /\ Len(chain) \in Nat
    BY DEF AuditInv, AuditTypeOK
  <1>2. CASE chain' = chain
    BY <1>2 DEF Events
  <1>3. ASSUME NEW w \in Appenders, NEW e \in Envelope, Grows(w, e)
        PROVE  Log!Next
    <2> DEFINE n == Len(chain)
               old == Events
    <2>1. /\ Fits(chain, e) /\ e.event = EventOf[w] /\ chain' = Append(chain, e)
      BY <1>3 DEF Grows
    <2>2. EventOf[w] \in UNION {{f[x] : x \in Appenders} : f \in Scripts}
      BY <1>1 DEF AuditTypeOK, EventOf
    <2>3. Len(Events) = n /\ \A i \in 1..n : Events[i] = chain[i].event
      BY <1>1 DEF Events
    <2>4. n < Maximum
      <3>1. CASE chain = <<>>
        BY <3>1, ChainAssumption
      <3>2. CASE chain # <<>>
        BY <2>1, <3>2 DEF Fits
      <3>. QED BY <3>1, <3>2
    <2>5. \A i \in 1..n : Events[i].event_id # e.event.event_id
      BY <2>1, <2>3 DEF Fits
    <2>6. Events # <<>> => Log!Follows(Events[n], e.event)
      <3>1. SUFFICES ASSUME Events # <<>>
                     PROVE  Log!Follows(Events[n], e.event)
        OBVIOUS
      <3>2. chain # <<>>
        BY <3>1 DEF Events
      <3>3. n \in 1..n
        BY <1>1, <3>2
      <3>4. Follows(chain[n].event, e.event) /\ Events[n] = chain[n].event
        BY <2>1, <2>3, <3>2, <3>3 DEF Fits
      <3>. QED BY <3>4 DEF Follows, Log!Follows
    <2>7. Events' = Append(Events, e.event)
      <3>1. /\ Len(chain') = n + 1 /\ \A i \in 1..n : chain'[i] = chain[i]
            /\ chain'[n + 1] = e
        BY <1>1, <2>1, Grown
      <3>2. Events' = [i \in 1..n + 1 |-> chain'[i].event]
        BY <3>1 DEF Events
      <3>3. Events \in Seq(Event) /\ e.event \in Event
        <4>1. \A i \in 1..n : chain[i].event \in Event
          <5>1. \A i \in 1..n : chain[i] \in Envelope
            BY <1>1
          <5>. QED BY <5>1 DEF Envelope
        <4>2. [i \in 1..n |-> chain[i].event] \in Seq(Event)
          BY <1>1, <4>1
        <4>3. e.event \in Event
          BY DEF Envelope
        <4>. QED BY <4>2, <4>3 DEF Events
      <3>4. /\ Append(Events, e.event) \in Seq(Event)
            /\ Len(Append(Events, e.event)) = n + 1
            /\ \A i \in 1..n : Append(Events, e.event)[i] = Events[i]
            /\ Append(Events, e.event)[n + 1] = e.event
        BY <1>1, <2>3, <3>3
      <3>5. Append(Events, e.event) = [i \in 1..n + 1 |-> Append(Events, e.event)[i]]
        BY <3>4
      <3>6. \A i \in 1..n + 1 : chain'[i].event = Append(Events, e.event)[i]
        BY <1>1, <2>3, <3>1, <3>4
      <3>. QED BY <3>2, <3>5, <3>6
    <2>8. Log!Log(e.event)
      BY <2>3, <2>4, <2>5, <2>6, <2>7 DEF Log!Log, Events
    <2>. QED BY <2>1, <2>2, <2>8 DEF Log!Next
  <1>. QED BY <1>2, <1>3, ChainMove

(* The chain of envelopes, its locks and its tail comparisons implement an  *)
(* append-only log of events without duplicates (audit/sqlite.py,           *)
(* audit/postgresql.py append).                                             *)
THEOREM ChainImplementsLog == AuditSpec => ImplementsLog
  <1>1. AuditInit => Log!Init
    BY DEF AuditInit, Log!Init
  <1>. QED BY <1>1, AuditInvariant, LogStep, PTL DEF AuditSpec, ImplementsLog, Log!Spec, Events

-----------------------------
(* The invariant. *)

Steps == {"idle", "io", "close", "wait", "cleanup", "assembling", "ended"}
Codes == {"none", "FAILED", "PROCESSING_TIMEOUT", "CLEANUP_FAILED"}
Outcomes == Codes \cup {"BUSY", "given", "cancelled"}

Call == [op : {"none", "inspect", "inspect_metadata", "plan"}, step : Steps,
         cancels : Nat, expired : BOOLEAN, cancelled : BOOLEAN, planned : BOOLEAN,
         code : Codes, outcome : Outcomes]

Thread == [state : {"none", "starting", "open", "done"},
           does : {"none", "read", "assemble"}, cancelled : BOOLEAN,
           result : {"none", "ok", "FAILED", "PROCESSING_TIMEOUT"}]

InspectionTypeOK ==
    /\ adapter \in {"sqlite", "postgresql", "planner"}
    /\ slot \in Inspectors \cup {NoTask} /\ blocked \in BOOLEAN
    /\ call \in [Inspectors -> Call] /\ thread \in [Inspectors -> Thread]
    /\ link \in [Inspectors -> {"none", "open", "closed", "terminated"}]

(* What holds of the call k of a task, its thread t and its connection l,   *)
(* when the adapter is a and b says whether the object is blocked.          *)
UnderWay(k) == k.step \notin {"idle", "ended"}
Alive(t) == t.state \in {"starting", "open"}
Reads(t, l) == l = "open" \/ (t.state = "open" /\ t.does = "read")

(* What a call leaves behind blocks the object. *)
PlacePart(a, b, k, t, l) ==
    /\ Alive(t) => UnderWay(k) \/ b \/ a = "planner"
    /\ l = "open" => UnderWay(k)
    /\ k.step \in {"idle", "io", "assembling"} => ~Alive(t)
    /\ k.step = "close" => a = "planner" \/ ~Alive(t)
    /\ k.step = "close" /\ ~k.cancelled /\ k.code = "none" => ~Alive(t)

(* Which adapter does what in a thread and what over a connection. *)
KindPart(a, k, t, l) ==
    /\ t.does = "read" => a = "sqlite"
    /\ a = "sqlite" => l = "none" /\ k.step \notin {"io", "close", "assembling"}
    /\ a = "planner" => k.op \in {"none", "plan"} /\ k.step # "assembling"
    /\ a # "planner" /\ k.step \in {"wait", "cleanup", "assembling"} => l # "open"
    /\ t.state = "done" => t.result # "none"

(* Where a cancellation, or the planner's deadline, can have been counted. *)
CancelPart(a, k) ==
    /\ k.step \in {"idle", "io", "wait", "assembling"} => k.cancels = 0
    /\ k.expired => a = "planner"
    /\ k.step = "close" /\ k.cancels > 0 => k.cancelled \/ k.code = "CLEANUP_FAILED"

AnswerPart(k, t, l) ==
    /\ k.outcome = "given" => ~Reads(t, l) /\ ~Alive(t) /\ k.cancels = 0
    /\ k.step = "ended" /\ k.cancels > 0 => k.outcome \in {"cancelled", "CLEANUP_FAILED"}
    /\ k.outcome = "cancelled" => k.cancels > 0
    /\ k.outcome # "none" => k.step = "ended"

Sound(a, b, k, t, l) ==
    /\ k \in Call /\ t \in Thread /\ l \in {"none", "open", "closed", "terminated"}
    /\ PlacePart(a, b, k, t, l) /\ KindPart(a, k, t, l)
    /\ CancelPart(a, k) /\ AnswerPart(k, t, l)

(* The call under way holds the slot. *)
TaskPart(c) ==
    /\ slot = c <=> UnderWay(call[c])
    /\ Sound(adapter, blocked, call[c], thread[c], link[c])

(* Nothing is started beside what an adapter has left behind. *)
AliveOnce ==
    /\ blocked => slot = NoTask
    /\ adapter # "planner" =>
          \A c, d \in Inspectors : IsAlive(c) /\ IsAlive(d) => c = d

InspectionInv ==
    InspectionTypeOK /\ AliveOnce /\ \A c \in Inspectors : TaskPart(c)

-----------------------------
(* A step of one task. *)

(* What a step does: one task is changed, the slot goes with its being      *)
(* under way, only an ending call blocks the object, and a thread is        *)
(* started by a call under way.                                             *)
Moved(c, k, t, l) ==
    /\ adapter' = adapter
    /\ call' = [call EXCEPT ![c] = k]
    /\ thread' = [thread EXCEPT ![c] = t]
    /\ link' = [link EXCEPT ![c] = l]
    /\ slot' = IF UnderWay(k) THEN c ELSE IF slot = c THEN NoTask ELSE slot
    /\ UnderWay(k) => slot \in {c, NoTask} /\ ~blocked
    /\ blocked' \in BOOLEAN /\ (blocked => blocked')
    /\ blocked' /\ ~blocked => slot = c /\ ~UnderWay(k)
    /\ Alive(t) => IsAlive(c) \/ UnderWay(k)
    /\ Sound(adapter, blocked', k, t, l)

(* A step of one task keeps the invariant when what it leaves is sound and  *)
(* the slot is its own.                                                     *)
LEMMA MovedKeeps ==
    ASSUME InspectionInv, NEW c \in Inspectors, NEW k, NEW t, NEW l, Moved(c, k, t, l)
    PROVE  InspectionInv'
  <1>1. /\ InspectionTypeOK /\ AliveOnce /\ \A d \in Inspectors : TaskPart(d)
        /\ c # NoTask
    BY InspectionAssumption DEF InspectionInv
  <1>2. /\ adapter' = adapter
        /\ call' = [call EXCEPT ![c] = k] /\ thread' = [thread EXCEPT ![c] = t]
        /\ link' = [link EXCEPT ![c] = l]
        /\ k \in Call /\ t \in Thread /\ l \in {"none", "open", "closed", "terminated"}
        /\ blocked' \in BOOLEAN /\ (blocked => blocked')
        /\ slot' = IF UnderWay(k) THEN c ELSE IF slot = c THEN NoTask ELSE slot
    BY DEF Moved, Sound
  <1>3. InspectionTypeOK'
    BY <1>1, <1>2 DEF InspectionTypeOK
  <1>4. /\ call'[c] = k /\ thread'[c] = t /\ link'[c] = l
        /\ \A d \in Inspectors \ {c} : /\ call'[d] = call[d] /\ thread'[d] = thread[d]
                                       /\ link'[d] = link[d]
    BY <1>1, <1>2 DEF InspectionTypeOK
  <1>5. TaskPart(c)'
    <2>1. Sound(adapter', blocked', call'[c], thread'[c], link'[c])
      BY <1>2, <1>4 DEF Moved
    <2>2. slot' = c <=> UnderWay(k)
      BY <1>1, <1>2
    <2>. QED BY <1>4, <2>1, <2>2 DEF TaskPart, Sound, UnderWay, PlacePart, KindPart, CancelPart,
                                     AnswerPart, Alive, Reads
  <1>6. ASSUME NEW d \in Inspectors \ {c}
        PROVE  TaskPart(d)'
    <2>1. TaskPart(d) /\ d # c
      BY <1>1
    <2>2. slot' = d <=> slot = d
      <3>1. CASE UnderWay(k)
        <4>1. slot \in {c, NoTask} /\ slot' = c /\ d # NoTask
          BY <1>2, <3>1, InspectionAssumption DEF Moved
        <4>. QED BY <2>1, <4>1
      <3>2. CASE ~UnderWay(k)
        <4>1. d # NoTask
          BY InspectionAssumption
        <4>. QED BY <1>2, <2>1, <3>2, <4>1
      <3>. QED BY <3>1, <3>2
    <2>3. Sound(adapter', blocked', call[d], thread[d], link[d])
      BY <1>2, <2>1 DEF TaskPart, Sound, PlacePart
    <2>4. slot' = d <=> UnderWay(call[d])
      BY <2>1, <2>2 DEF TaskPart
    <2>. QED BY <1>4, <2>3, <2>4 DEF TaskPart, Sound, UnderWay, PlacePart, KindPart, CancelPart,
                                     AnswerPart, Alive, Reads
  <1>7. AliveOnce'
    <2>1. blocked' => slot' = NoTask
      <3>1. CASE blocked
        BY <1>1, <1>2, <3>1 DEF AliveOnce, Moved
      <3>2. CASE ~blocked
        BY <1>2, <3>2 DEF Moved
      <3>. QED BY <3>1, <3>2
    <2>2. ASSUME adapter # "planner", NEW d \in Inspectors \ {c}, IsAlive(d)
          PROVE  ~Alive(t)
      <3>1. slot = d \/ blocked
        BY <1>1, <2>2 DEF TaskPart, Sound, PlacePart, IsAlive, Alive
      <3>2. ~IsAlive(c)
        BY <1>1, <2>2 DEF AliveOnce
      <3>3. ~UnderWay(k)
        BY <3>1, InspectionAssumption DEF Moved
      <3>. QED BY <3>2, <3>3 DEF Moved
    <2>3. \A d \in Inspectors \ {c} : IsAlive(d)' <=> IsAlive(d)
      BY <1>4 DEF IsAlive
    <2>4. IsAlive(c)' <=> Alive(t)
      BY <1>4 DEF IsAlive, Alive
    <2>5. ASSUME adapter' # "planner", NEW d \in Inspectors, NEW e \in Inspectors,
                 IsAlive(d)', IsAlive(e)'
          PROVE  d = e
      <3>1. CASE d # c /\ e # c
        BY <1>1, <1>2, <2>3, <2>5, <3>1 DEF AliveOnce
      <3>2. CASE d = c /\ e # c
        BY <1>2, <2>2, <2>3, <2>4, <2>5, <3>2
      <3>3. CASE d # c /\ e = c
        BY <1>2, <2>2, <2>3, <2>4, <2>5, <3>3
      <3>. QED BY <3>1, <3>2, <3>3
    <2>. QED BY <2>1, <2>5 DEF AliveOnce
  <1>. QED BY <1>3, <1>5, <1>6, <1>7 DEF InspectionInv

(* The three ways a step changes a task: its call goes on, or ends, or its  *)
(* thread runs.                                                             *)
LEMMA GoesKeeps ==
    ASSUME InspectionInv, NEW c \in Inspectors, NEW k, NEW t, NEW l,
           UnderWay(call[c]), UnderWay(k), Goes(c, k), adapter' = adapter,
           thread' = [thread EXCEPT ![c] = t], link' = [link EXCEPT ![c] = l],
           Sound(adapter, blocked, k, t, l)
    PROVE  InspectionInv'
  <1>1. /\ slot = c /\ ~blocked /\ blocked \in BOOLEAN
    BY InspectionAssumption DEF InspectionInv, TaskPart, AliveOnce, InspectionTypeOK
  <1>2. Moved(c, k, t, l)
    BY <1>1 DEF Goes, Moved
  <1>. QED BY <1>2, MovedKeeps

(* A call may end when what it leaves behind is sound, or blocks the        *)
(* adapter.                                                                 *)
LEMMA EndsKeeps ==
    ASSUME InspectionInv, NEW c \in Inspectors, NEW from, NEW outcome, NEW t, NEW l,
           UnderWay(call[c]), EndsAs(c, from, outcome), adapter' = adapter,
           thread' = [thread EXCEPT ![c] = t], link' = [link EXCEPT ![c] = l],
           Alive(t) => IsAlive(c),
           Sound(adapter, blocked \/ BlocksOn(outcome),
                 [from EXCEPT !.step = "ended", !.outcome = outcome], t, l),
           from \in Call
    PROVE  InspectionInv'
  <1> DEFINE k == [from EXCEPT !.step = "ended", !.outcome = outcome]
  <1>1. /\ slot = c /\ ~blocked /\ blocked \in BOOLEAN
    BY InspectionAssumption DEF InspectionInv, TaskPart, AliveOnce, InspectionTypeOK
  <1>2. ~UnderWay(k)
    BY DEF UnderWay, Call
  <1>3. /\ call' = [call EXCEPT ![c] = k] /\ slot' = NoTask
        /\ blocked' = (blocked \/ BlocksOn(outcome))
        /\ Sound(adapter, blocked \/ BlocksOn(outcome), k, t, l)
    BY DEF EndsAs
  <1> HIDE DEF k
  <1>4. blocked' \in BOOLEAN
    BY <1>3
  <1>5. Sound(adapter, blocked', k, t, l)
    BY <1>3
  <1>6. Moved(c, k, t, l)
    BY <1>1, <1>2, <1>3, <1>4, <1>5 DEF Moved
  <1>. QED BY <1>6, MovedKeeps

(* A thread may move while its call is under way. *)
LEMMA ThreadKeeps ==
    ASSUME InspectionInv, NEW c \in Inspectors, NEW t, IsAlive(c),
           thread' = [thread EXCEPT ![c] = t],
           UNCHANGED <<adapter, slot, blocked, call, link>>,
           Sound(adapter, blocked, call[c], t, link[c])
    PROVE  InspectionInv'
  <1>1. /\ slot = c <=> UnderWay(call[c])
        /\ blocked => slot = NoTask
        /\ blocked \in BOOLEAN /\ c # NoTask
        /\ call = [call EXCEPT ![c] = call[c]] /\ link = [link EXCEPT ![c] = link[c]]
    BY InspectionAssumption DEF InspectionInv, TaskPart, AliveOnce, InspectionTypeOK
  <1>2. Moved(c, call[c], t, link[c])
    BY <1>1 DEF Moved
  <1>. QED BY <1>2, MovedKeeps

(* What is known of a task before its step. *)
LEMMA Before ==
    ASSUME InspectionInv, NEW c \in Inspectors
    PROVE  /\ call[c] \in Call /\ thread[c] \in Thread
           /\ link[c] \in {"none", "open", "closed", "terminated"}
           /\ Sound(adapter, blocked, call[c], thread[c], link[c])
           /\ PlacePart(adapter, blocked, call[c], thread[c], link[c])
           /\ KindPart(adapter, call[c], thread[c], link[c])
           /\ CancelPart(adapter, call[c]) /\ AnswerPart(call[c], thread[c], link[c])
           /\ slot = c <=> UnderWay(call[c])
           /\ UnderWay(call[c]) => ~blocked
           /\ thread = [thread EXCEPT ![c] = thread[c]]
           /\ link = [link EXCEPT ![c] = link[c]]
           /\ c # NoTask /\ blocked \in BOOLEAN
           /\ adapter \in {"sqlite", "postgresql", "planner"}
  BY InspectionAssumption DEF InspectionInv, TaskPart, AliveOnce, InspectionTypeOK, Sound

-----------------------------
(* Entering, and the threads. *)

LEMMA NewThreadIs ==
    ASSUME NEW does \in {"read", "assemble"}
    PROVE  /\ NewThread(does) \in Thread
           /\ NewThread(does).state = "starting" /\ NewThread(does).does = does
           /\ NewThread(does).result = "none"
  <1>1. NoThread \in Thread /\ NoThread.result = "none"
    BY DEF NoThread, Thread
  <1> HIDE DEF NoThread
  <1>. QED BY <1>1 DEF NewThread, Thread

(* A call that is refused at the door leaves everything as it was. *)
LEMMA RefuseKeeps ==
    ASSUME InspectionInv, NEW c \in Inspectors, Refuse(c)
    PROVE  InspectionInv'
  <1> DEFINE k == [call[c] EXCEPT !.step = "ended", !.outcome = "BUSY"]
  <1>1. /\ k \in Call /\ k.step = "ended" /\ k.outcome = "BUSY" /\ k.cancels = 0
        /\ k.expired = call[c].expired /\ k.op = call[c].op
        /\ call[c].step = "idle"
    <2>1. call[c] \in Call /\ call[c].step = "idle" /\ call[c].cancels = 0
      BY Before DEF Refuse, Stands, CancelPart
    <2>. QED BY <2>1 DEF Call, Steps, Outcomes, Codes
  <1>2. call' = [call EXCEPT ![c] = k]
    BY DEF Refuse, InspectionInv, InspectionTypeOK
  <1> HIDE DEF k
  <1>3. Sound(adapter, blocked, k, thread[c], link[c])
    BY <1>1, Before DEF Sound, PlacePart, KindPart, CancelPart, AnswerPart, UnderWay
  <1>4. ~UnderWay(k) /\ ~UnderWay(call[c])
    BY <1>1 DEF UnderWay
  <1>5. UNCHANGED <<adapter, slot, blocked, thread, link>>
    BY DEF Refuse
  <1>6. Moved(c, k, thread[c], link[c])
    BY <1>1, <1>2, <1>3, <1>4, <1>5, Before DEF Moved, IsAlive, Alive
  <1>. QED BY <1>6, MovedKeeps

(* A call that enters takes a free slot. *)
LEMMA EnterKeeps ==
    ASSUME InspectionInv, NEW c \in Inspectors, Enter(c)
    PROVE  InspectionInv'
  <1>1. PICK op \in IF adapter = "planner" THEN {"plan"} ELSE {"inspect", "inspect_metadata"} :
          call' = [call EXCEPT ![c].op = op, ![c].step = IF adapter = "sqlite" THEN "wait" ELSE "io"]
    BY DEF Enter
  <1> DEFINE k == [call[c] EXCEPT !.op = op, !.step = IF adapter = "sqlite" THEN "wait" ELSE "io"]
             t == IF adapter = "sqlite" THEN NewThread("read") ELSE thread[c]
  <1>2. /\ k \in Call /\ k.step = IF adapter = "sqlite" THEN "wait" ELSE "io"
        /\ k.cancels = 0 /\ k.op = op /\ k.cancelled = call[c].cancelled /\ k.code = call[c].code
        /\ k.expired = call[c].expired /\ k.outcome = call[c].outcome
        /\ call[c].step = "idle" /\ op \in {"plan", "inspect", "inspect_metadata"}
    <2>1. call[c] \in Call /\ call[c].step = "idle" /\ call[c].cancels = 0
      BY Before DEF Enter, Stands, CancelPart
    <2>2. op \in {"plan", "inspect", "inspect_metadata"}
      BY <1>1
    <2>. QED BY <2>1, <2>2 DEF Call, Steps
  <1>3. call' = [call EXCEPT ![c] = k]
    BY <1>1 DEF InspectionInv, InspectionTypeOK
  <1>4. t \in Thread /\ thread' = [thread EXCEPT ![c] = t]
    <2>1. CASE adapter = "sqlite"
      BY <2>1, NewThreadIs DEF Enter
    <2>2. CASE adapter # "sqlite"
      BY <2>2, Before DEF Enter
    <2>. QED BY <2>1, <2>2
  <1>5. /\ adapter = "sqlite" => t.does = "read" /\ t.state = "starting"
        /\ adapter # "sqlite" => t = thread[c]
    BY NewThreadIs
  <1> HIDE DEF k, t
  <1>6. ~IsAlive(c) /\ ~Alive(thread[c]) /\ link[c] # "open" /\ k.outcome = "none"
    BY <1>2, Before DEF PlacePart, AnswerPart, UnderWay, IsAlive, Alive
  <1>7. Sound(adapter, blocked, k, t, link[c])
    BY <1>1, <1>2, <1>4, <1>5, <1>6, Before
       DEF Sound, PlacePart, KindPart, CancelPart, AnswerPart, UnderWay, Alive
  <1>8. UnderWay(k)
    BY <1>2 DEF UnderWay
  <1>9. /\ UNCHANGED <<adapter, blocked, link>> /\ slot = NoTask /\ slot' = c /\ ~blocked
    BY DEF Enter
  <1>10. Moved(c, k, t, link[c])
    BY <1>3, <1>4, <1>7, <1>8, <1>9, Before DEF Moved
  <1>. QED BY <1>10, MovedKeeps

(* The thread opens the connection. *)
LEMMA ThreadOpensKeeps ==
    ASSUME InspectionInv, NEW c \in Inspectors, ThreadOpens(c)
    PROVE  InspectionInv'
  <1> DEFINE t == IF thread[c].cancelled
                  THEN [thread[c] EXCEPT !.state = "done", !.result = "PROCESSING_TIMEOUT"]
                  ELSE [thread[c] EXCEPT !.state = "open"]
  <1>1. thread' = [thread EXCEPT ![c] = t]
    BY DEF ThreadOpens, InspectionInv, InspectionTypeOK
  <1>2. /\ t \in Thread /\ t.does = thread[c].does /\ t.state \in {"open", "done"}
        /\ t.state = "done" => t.result = "PROCESSING_TIMEOUT"
    BY Before DEF Thread
  <1> HIDE DEF t
  <1>3. Alive(thread[c]) /\ IsAlive(c)
    BY DEF ThreadOpens, Alive, IsAlive
  <1>4. call[c].outcome # "given"
    BY <1>3, Before DEF AnswerPart
  <1>5. Sound(adapter, blocked, call[c], t, link[c])
    BY <1>2, <1>3, <1>4, Before DEF Sound, PlacePart, KindPart, AnswerPart, Alive
  <1>. QED BY <1>1, <1>3, <1>5, ThreadKeeps DEF ThreadOpens

(* The thread ends with a result. *)
LEMMA ThreadEndsKeeps ==
    ASSUME InspectionInv, NEW c \in Inspectors, ThreadEnds(c)
    PROVE  InspectionInv'
  <1>1. PICK result \in {"PROCESSING_TIMEOUT", "ok", "FAILED"} :
          thread' = [thread EXCEPT ![c].state = "done", ![c].result = result]
    BY DEF ThreadEnds
  <1> DEFINE t == [thread[c] EXCEPT !.state = "done", !.result = result]
  <1>2. thread' = [thread EXCEPT ![c] = t]
    BY <1>1 DEF InspectionInv, InspectionTypeOK
  <1>3. t \in Thread /\ t.does = thread[c].does /\ t.state = "done" /\ t.result = result
    BY Before DEF Thread
  <1> HIDE DEF t
  <1>4. Alive(thread[c]) /\ IsAlive(c)
    BY DEF ThreadEnds, Alive, IsAlive
  <1>5. call[c].outcome # "given"
    BY <1>4, Before DEF AnswerPart
  <1>6. Sound(adapter, blocked, call[c], t, link[c])
    BY <1>3, <1>4, <1>5, Before DEF Sound, PlacePart, KindPart, AnswerPart, Alive
  <1>. QED BY <1>2, <1>4, <1>6, ThreadKeeps DEF ThreadEnds

-----------------------------
(* How a call is changed. *)

LEMMA CancelledTo ==
    ASSUME NEW k \in Call, NEW s \in Steps
    PROVE  LET q == [k EXCEPT !.step = s, !.cancelled = TRUE]
           IN  /\ q \in Call /\ q.step = s /\ q.op = k.op /\ q.cancels = k.cancels
               /\ q.expired = k.expired /\ q.cancelled = TRUE /\ q.code = k.code
               /\ q.outcome = k.outcome
  BY DEF Call

(* A call that ended, field by field. *)
LEMMA EndedTo ==
    ASSUME NEW k \in Call, NEW o \in Outcomes
    PROVE  LET q == [k EXCEPT !.step = "ended", !.outcome = o]
           IN  /\ q \in Call /\ q.step = "ended" /\ q.op = k.op /\ q.cancels = k.cancels
               /\ q.expired = k.expired /\ q.cancelled = k.cancelled /\ q.code = k.code
               /\ q.outcome = o
  BY DEF Call, Steps

(* The end of a call that holds no connection. *)
LEMMA EndingKeeps ==
    ASSUME InspectionInv, NEW c \in Inspectors, NEW from \in Call, NEW outcome \in Outcomes,
           NEW t \in Thread, UnderWay(call[c]), EndsAs(c, from, outcome), adapter # "planner",
           UNCHANGED <<adapter, link>>, thread' = [thread EXCEPT ![c] = t],
           Alive(t) => IsAlive(c) /\ outcome = "CLEANUP_FAILED",
           t.does = "read" => adapter = "sqlite", t.state = "done" => t.result # "none",
           link[c] # "open", ~from.expired,
           outcome = "given" => from.cancels = 0,
           from.cancels > 0 => outcome \in {"cancelled", "CLEANUP_FAILED"},
           outcome = "cancelled" => from.cancels > 0
    PROVE  InspectionInv'
  <1> DEFINE k == [from EXCEPT !.step = "ended", !.outcome = outcome]
             b == blocked \/ BlocksOn(outcome)
  <1>1. /\ k \in Call /\ k.step = "ended" /\ k.cancels = from.cancels
        /\ k.expired = from.expired /\ k.outcome = outcome
    BY EndedTo
  <1>2. Alive(t) => b
    BY DEF BlocksOn
  <1> HIDE DEF k, b
  <1>3. outcome = "given" => ~Reads(t, link[c]) /\ ~Alive(t)
    BY DEF Reads, Alive
  <1>4. Sound(adapter, b, k, t, link[c])
    <2>1. PlacePart(adapter, b, k, t, link[c])
      BY <1>1, <1>2 DEF PlacePart
    <2>2. KindPart(adapter, k, t, link[c])
      BY <1>1, Before DEF KindPart
    <2>3. CancelPart(adapter, k) /\ AnswerPart(k, t, link[c])
      BY <1>1, <1>3 DEF CancelPart, AnswerPart
    <2>. QED BY <1>1, <2>1, <2>2, <2>3, Before DEF Sound
  <1>. QED BY <1>4, EndsKeeps, Before DEF k, b

(* A call that cannot go on. *)
LEMMA AbandonsKeeps ==
    ASSUME InspectionInv, NEW c \in Inspectors, NEW code \in Codes \ {"none"},
           NEW t \in Thread, UnderWay(call[c]), Abandons(c, code),
           call[c].step \in {"wait", "cleanup", "assembling"},
           UNCHANGED <<adapter, link>>, thread' = [thread EXCEPT ![c] = t],
           Alive(t) => IsAlive(c) /\ code = "CLEANUP_FAILED",
           t.does = "read" => adapter = "sqlite", t.state = "done" => t.result # "none",
           call[c].cancels > 0 => code = "CLEANUP_FAILED"
    PROVE  InspectionInv'
  <1>1. CASE adapter = "planner"
    <2> DEFINE k == [call[c] EXCEPT !.step = "close", !.code = code]
    <2>1. /\ k \in Call /\ k.step = "close" /\ k.op = call[c].op /\ k.cancels = call[c].cancels
          /\ k.expired = call[c].expired /\ k.code = code /\ k.outcome = call[c].outcome
      <3>1. call[c] \in Call /\ "close" \in Steps /\ code \in Codes
        BY Before DEF Steps
      <3>. QED BY <3>1 DEF Call
    <2>2. Goes(c, k)
      BY <1>1 DEF Abandons
    <2> HIDE DEF k
    <2>3. UnderWay(k) /\ k.outcome = "none"
      BY <2>1, Before DEF UnderWay, AnswerPart
    <2>4. Sound(adapter, blocked, k, t, link[c])
      <3>1. PlacePart(adapter, blocked, k, t, link[c]) /\ CancelPart(adapter, k)
        BY <1>1, <2>1, <2>3, Before DEF PlacePart, CancelPart
      <3>2. KindPart(adapter, k, t, link[c]) /\ AnswerPart(k, t, link[c])
        BY <1>1, <2>1, <2>3, Before DEF KindPart, AnswerPart
      <3>. QED BY <2>1, <3>1, <3>2, Before DEF Sound
    <2>. QED BY <2>2, <2>3, <2>4, Before, GoesKeeps
  <1>2. CASE adapter # "planner"
    <2>1. EndsAs(c, call[c], code)
      BY <1>2 DEF Abandons, Ends
    <2>2. /\ call[c] \in Call /\ code \in Outcomes /\ link[c] # "open" /\ ~call[c].expired
          /\ call[c].cancels \in Nat
      <3>1. call[c] \in Call /\ call[c].cancels \in Nat
        BY Before DEF Call
      <3>2. link[c] # "open" /\ ~call[c].expired
        BY <1>2, Before DEF KindPart, CancelPart, Call
      <3>. QED BY <3>1, <3>2 DEF Outcomes
    <2>3. code # "given" /\ code # "cancelled"
      BY DEF Codes
    <2>4. call[c].cancels > 0 => code \in {"cancelled", "CLEANUP_FAILED"}
      OBVIOUS
    <2>. QED BY <1>2, <2>1, <2>2, <2>3, <2>4, EndingKeeps
  <1>. QED BY <1>1, <1>2

(* The end of a call whose wait was stopped and whose thread is through. *)
LEMMA StoppedKeeps ==
    ASSUME InspectionInv, NEW c \in Inspectors, NEW from \in Call, NEW t \in Thread,
           UnderWay(call[c]), call[c].step \in {"wait", "cleanup"}, Stopped(c, from),
           from.cancels = 0 => call[c].cancels = 0, from.op = call[c].op,
           from.expired => adapter = "planner", from.outcome = "none",
           UNCHANGED <<adapter, link>>, thread' = [thread EXCEPT ![c] = t],
           t.state = "done", t.result # "none", t.does = "read" => adapter = "sqlite"
    PROVE  InspectionInv'
  <1>1. ~Alive(t) /\ from.cancels \in Nat /\ call[c].cancels \in Nat
    BY Before DEF Alive, Call
  <1>2. CASE from.cancels = 0 /\ ~from.expired
    <2>1. Abandons(c, "PROCESSING_TIMEOUT")
      BY <1>2 DEF Stopped
    <2>2. "PROCESSING_TIMEOUT" \in Codes \ {"none"} /\ ~(call[c].cancels > 0)
      BY <1>2 DEF Codes
    <2>. QED BY <1>1, <2>1, <2>2, AbandonsKeeps
  <1>3. CASE ~(from.cancels = 0 /\ ~from.expired) /\ adapter = "planner"
    <2> DEFINE k == [from EXCEPT !.step = "close", !.cancelled = TRUE]
    <2>1. /\ k \in Call /\ k.step = "close" /\ k.op = from.op /\ k.cancelled
          /\ k.outcome = from.outcome /\ k.expired = from.expired
      BY CancelledTo DEF Steps
    <2>2. Goes(c, k)
      BY <1>3 DEF Stopped
    <2> HIDE DEF k
    <2>3. UnderWay(k) /\ k.outcome = "none"
      BY <2>1 DEF UnderWay
    <2>4. Sound(adapter, blocked, k, t, link[c])
      <3>1. PlacePart(adapter, blocked, k, t, link[c]) /\ CancelPart(adapter, k)
        BY <1>1, <1>3, <2>1, <2>3 DEF PlacePart, CancelPart
      <3>2. KindPart(adapter, k, t, link[c]) /\ AnswerPart(k, t, link[c])
        BY <1>3, <2>1, <2>3, Before DEF KindPart, AnswerPart
      <3>. QED BY <2>1, <3>1, <3>2, Before DEF Sound
    <2>. QED BY <2>2, <2>3, <2>4, Before, GoesKeeps
  <1>4. CASE ~(from.cancels = 0 /\ ~from.expired) /\ adapter # "planner"
    <2>1. EndsAs(c, from, "cancelled")
      BY <1>4 DEF Stopped
    <2>2. /\ link[c] # "open" /\ ~from.expired /\ from.cancels > 0 /\ "cancelled" \in Outcomes
      <3>1. link[c] # "open" /\ from.expired \in BOOLEAN
        BY <1>4, Before DEF KindPart, Call
      <3>. QED BY <1>1, <1>4, <3>1 DEF Outcomes
    <2>3. "cancelled" # "given" /\ "cancelled" \in {"cancelled", "CLEANUP_FAILED"}
      OBVIOUS
    <2>. QED BY <1>1, <1>4, <2>1, <2>2, <2>3, EndingKeeps
  <1>. QED BY <1>2, <1>3, <1>4

-----------------------------
(* Waiting for a thread. *)

LEMMA StartsKeeps ==
    ASSUME InspectionInv, NEW c \in Inspectors, UnderWay(call[c]), Starts(c, "assemble"),
           UNCHANGED <<adapter, link>>, call[c].cancels = 0,
           adapter # "planner" => link[c] # "open"
    PROVE  InspectionInv'
  <1> DEFINE k == [call[c] EXCEPT !.step = "wait"]
             t == NewThread("assemble")
  <1>1. /\ k \in Call /\ k.step = "wait" /\ k.op = call[c].op /\ k.cancels = 0
        /\ k.expired = call[c].expired /\ k.outcome = call[c].outcome
    <2>1. call[c] \in Call /\ "wait" \in Steps
      BY Before DEF Steps
    <2>. QED BY <2>1 DEF Call
  <1>2. Goes(c, k) /\ thread' = [thread EXCEPT ![c] = t]
    BY DEF Starts
  <1>3. t \in Thread /\ t.state = "starting" /\ t.does = "assemble"
    BY NewThreadIs
  <1> HIDE DEF k, t
  <1>4. UnderWay(k) /\ k.outcome = "none"
    BY <1>1, Before DEF UnderWay, AnswerPart
  <1>5. Sound(adapter, blocked, k, t, link[c])
    <2>1. PlacePart(adapter, blocked, k, t, link[c]) /\ CancelPart(adapter, k)
      BY <1>1, <1>4, Before DEF PlacePart, CancelPart
    <2>2. KindPart(adapter, k, t, link[c]) /\ AnswerPart(k, t, link[c])
      BY <1>1, <1>3, <1>4, Before DEF KindPart, AnswerPart
    <2>. QED BY <1>1, <1>3, <2>1, <2>2, Before DEF Sound
  <1>. QED BY <1>2, <1>4, <1>5, Before, GoesKeeps

(* The task sees that its thread is through. *)
LEMMA ThreadIsThroughKeeps ==
    ASSUME InspectionInv, NEW c \in Inspectors, ThreadIsThrough(c)
    PROVE  InspectionInv'
  <1>1. /\ call[c].step = "wait" /\ UnderWay(call[c]) /\ call[c].cancels = 0
        /\ thread[c].state = "done" /\ thread[c].result # "none" /\ ~Alive(thread[c])
        /\ adapter # "planner" => link[c] # "open" /\ ~call[c].expired
        /\ thread[c].does = "read" => adapter = "sqlite"
    <2>1. call[c].step = "wait" /\ thread[c].state = "done"
      BY DEF ThreadIsThrough, Stands
    <2>2. adapter # "planner" => ~call[c].expired
      BY Before DEF CancelPart, Call
    <2>. QED BY <2>1, <2>2, Before DEF UnderWay, CancelPart, KindPart, Alive
  <1>2. UNCHANGED <<adapter, link>>
    BY DEF ThreadIsThrough
  <1>3. CASE thread[c].result # "ok"
    <2>1. Abandons(c, thread[c].result) /\ UNCHANGED thread
      BY <1>3 DEF ThreadIsThrough
    <2>2. thread[c].result \in Codes \ {"none"}
      BY <1>1, <1>3, Before DEF Thread, Codes
    <2>. QED BY <1>1, <1>2, <2>1, <2>2, Before, AbandonsKeeps
  <1>4. CASE thread[c].result = "ok" /\ adapter = "planner"
    <2> DEFINE k == [call[c] EXCEPT !.step = "io", !.planned = TRUE]
    <2>1. /\ k \in Call /\ k.step = "io" /\ k.op = call[c].op /\ k.cancels = call[c].cancels
          /\ k.expired = call[c].expired /\ k.outcome = call[c].outcome
      <3>1. call[c] \in Call /\ "io" \in Steps
        BY Before DEF Steps
      <3>. QED BY <3>1 DEF Call
    <2>2. Goes(c, k) /\ UNCHANGED thread
      BY <1>4 DEF ThreadIsThrough
    <2> HIDE DEF k
    <2>3. UnderWay(k) /\ k.outcome = "none"
      BY <1>1, <2>1, Before DEF UnderWay, AnswerPart
    <2>4. Sound(adapter, blocked, k, thread[c], link[c])
      <3>1. PlacePart(adapter, blocked, k, thread[c], link[c]) /\ CancelPart(adapter, k)
        BY <1>1, <1>4, <2>1, <2>3, Before DEF PlacePart, CancelPart
      <3>2. KindPart(adapter, k, thread[c], link[c]) /\ AnswerPart(k, thread[c], link[c])
        BY <1>4, <2>1, <2>3, Before DEF KindPart, AnswerPart
      <3>. QED BY <2>1, <3>1, <3>2, Before DEF Sound
    <2>. QED BY <1>1, <1>2, <2>2, <2>3, <2>4, Before, GoesKeeps
  <1>5. ASSUME thread[c].result = "ok", adapter # "planner", NEW o \in {"PROCESSING_TIMEOUT", "given"},
               Ends(c, o), UNCHANGED thread
        PROVE  InspectionInv'
    <2>1. /\ EndsAs(c, call[c], o) /\ o \in Outcomes /\ call[c].cancels = 0 /\ ~(0 > 0)
          /\ o # "cancelled" /\ call[c] \in Call /\ thread[c] \in Thread
      BY <1>1, <1>5, Before DEF Ends, Outcomes, Codes
    <2>. QED BY <1>1, <1>2, <1>5, <2>1, Before, EndingKeeps
  <1>6. CASE thread[c].result = "ok" /\ adapter # "planner"
    <2>1. \/ Starts(c, "assemble")
          \/ Ends(c, "PROCESSING_TIMEOUT") /\ UNCHANGED thread
          \/ Ends(c, "given") /\ UNCHANGED thread
      BY <1>6 DEF ThreadIsThrough, Given
    <2>. QED BY <1>1, <1>2, <1>5, <1>6, <2>1, StartsKeeps
  <1>. QED BY <1>3, <1>4, <1>6

(* A thread that is asked to end. *)
Asked(t) == [t EXCEPT !.cancelled = TRUE]

(* The thread is asked to end, and goes on as it was. *)
LEMMA AskedIs ==
    ASSUME InspectionInv, NEW c \in Inspectors, AsksToEnd(c)
    PROVE  /\ thread' = [thread EXCEPT ![c] = Asked(thread[c])]
           /\ Asked(thread[c]) \in Thread
           /\ Asked(thread[c]).state = thread[c].state
           /\ Asked(thread[c]).does = thread[c].does
           /\ Asked(thread[c]).result = thread[c].result
  <1>1. thread[c] \in Thread
    BY Before
  <1>2. thread' = [thread EXCEPT ![c] = Asked(thread[c])]
    BY DEF AsksToEnd, Asked, InspectionInv, InspectionTypeOK
  <1>3. /\ Asked(thread[c]) \in Thread
        /\ Asked(thread[c]).state = thread[c].state /\ Asked(thread[c]).does = thread[c].does
        /\ Asked(thread[c]).result = thread[c].result
    BY <1>1 DEF Asked, Thread
  <1>. QED BY <1>2, <1>3

(* A call that waits on for its thread to end. *)
LEMMA WaitsOn ==
    ASSUME InspectionInv, NEW c \in Inspectors, NEW k \in Call, AsksToEnd(c), Goes(c, k),
           UNCHANGED <<adapter, link>>, call[c].step \in {"wait", "cleanup"},
           k.step = "cleanup", k.op = call[c].op, k.outcome = "none",
           k.expired => adapter = "planner"
    PROVE  InspectionInv'
  <1> DEFINE t == Asked(thread[c])
  <1>1. /\ thread' = [thread EXCEPT ![c] = t] /\ t \in Thread /\ t.state = thread[c].state
        /\ t.does = thread[c].does /\ t.result = thread[c].result
    BY AskedIs
  <1> HIDE DEF t
  <1>2. UnderWay(k) /\ UnderWay(call[c])
    BY DEF UnderWay
  <1>3. Sound(adapter, blocked, k, t, link[c])
    <2>1. PlacePart(adapter, blocked, k, t, link[c]) /\ CancelPart(adapter, k)
      BY <1>2, Before DEF PlacePart, CancelPart
    <2>2. KindPart(adapter, k, t, link[c]) /\ AnswerPart(k, t, link[c])
      BY <1>1, <1>2, Before DEF KindPart, AnswerPart
    <2>. QED BY <1>1, <2>1, <2>2, Before DEF Sound
  <1>. QED BY <1>1, <1>2, <1>3, Before, GoesKeeps

(* The wait for the thread runs out. *)
LEMMA WaitExpiresKeeps ==
    ASSUME InspectionInv, NEW c \in Inspectors, WaitExpires(c)
    PROVE  InspectionInv'
  <1> DEFINE k == [call[c] EXCEPT !.step = "cleanup"]
  <1>1. /\ k \in Call /\ k.step = "cleanup" /\ k.op = call[c].op
        /\ k.expired = call[c].expired /\ k.outcome = call[c].outcome
    <2>1. call[c] \in Call /\ "cleanup" \in Steps
      BY Before DEF Steps
    <2>. QED BY <2>1 DEF Call
  <1>2. AsksToEnd(c) /\ Goes(c, k) /\ UNCHANGED <<adapter, link>> /\ call[c].step = "wait"
    BY DEF WaitExpires, Stands
  <1> HIDE DEF k
  <1>3. k.outcome = "none" /\ (k.expired => adapter = "planner")
    BY <1>1, <1>2, Before DEF AnswerPart, CancelPart
  <1>. QED BY <1>1, <1>2, <1>3, WaitsOn

(* The cleanup ends or gives up. *)
LEMMA CleanupKeeps ==
    ASSUME InspectionInv, NEW c \in Inspectors, CleanupIsThrough(c) \/ CleanupExpires(c)
    PROVE  InspectionInv'
  <1>1. /\ call[c].step = "cleanup" /\ UnderWay(call[c]) /\ UNCHANGED <<adapter, link, thread>>
        /\ call[c].outcome = "none" /\ (call[c].expired => adapter = "planner")
        /\ thread[c].does = "read" => adapter = "sqlite"
        /\ thread[c].state = "done" => thread[c].result # "none"
    <2>1. call[c].step = "cleanup" /\ UNCHANGED <<adapter, link, thread>>
      BY DEF CleanupIsThrough, CleanupExpires, Stands
    <2>. QED BY <2>1, Before DEF UnderWay, AnswerPart, CancelPart, KindPart
  <1>2. CASE CleanupIsThrough(c)
    <2>1. Stopped(c, call[c]) /\ thread[c].state = "done"
      BY <1>2 DEF CleanupIsThrough
    <2>. QED BY <1>1, <2>1, Before, StoppedKeeps
  <1>3. CASE CleanupExpires(c)
    <2>1. Abandons(c, "CLEANUP_FAILED") /\ thread[c].state # "done"
      BY <1>3 DEF CleanupExpires
    <2>2. "CLEANUP_FAILED" \in Codes \ {"none"} /\ (Alive(thread[c]) => IsAlive(c))
      BY DEF Codes, Alive, IsAlive
    <2>. QED BY <1>1, <2>1, <2>2, Before, AbandonsKeeps
  <1>. QED BY <1>2, <1>3

-----------------------------
(* The connection. *)

LEMMA ConnectKeeps ==
    ASSUME InspectionInv, NEW c \in Inspectors, Connect(c)
    PROVE  InspectionInv'
  <1>1. /\ call[c].step = "io" /\ UnderWay(call[c]) /\ UNCHANGED <<adapter, slot, blocked, call, thread>>
        /\ link' = [link EXCEPT ![c] = "open"]
    BY DEF Connect, Stands, UnderWay
  <1>2. Goes(c, call[c])
    BY <1>1 DEF Goes, InspectionInv, InspectionTypeOK
  <1>3. Sound(adapter, blocked, call[c], thread[c], "open")
    <2>1. adapter # "sqlite" /\ call[c].outcome = "none" /\ ~Alive(thread[c])
      BY <1>1, Before DEF KindPart, AnswerPart, PlacePart
    <2>2. PlacePart(adapter, blocked, call[c], thread[c], "open")
      BY <1>1, <2>1 DEF PlacePart
    <2>3. /\ KindPart(adapter, call[c], thread[c], "open")
          /\ AnswerPart(call[c], thread[c], "open")
      BY <1>1, <2>1, Before DEF KindPart, AnswerPart
    <2>. QED BY <2>2, <2>3, Before DEF Sound
  <1>. QED BY <1>1, <1>2, <1>3, Before, GoesKeeps

(* A call goes on to close its connection. *)
LEMMA ToCloseKeeps ==
    ASSUME InspectionInv, NEW c \in Inspectors, NEW k \in Call, call[c].step \in {"io", "close"},
           Goes(c, k), UNCHANGED <<adapter, thread, link>>, k.step = "close",
           k.op = call[c].op, k.outcome = "none", k.expired => adapter = "planner",
           k.cancels > 0 => k.cancelled \/ k.code = "CLEANUP_FAILED",
           call[c].step = "close" => k.cancelled
    PROVE  InspectionInv'
  <1>1. UnderWay(call[c]) /\ UnderWay(k)
    BY DEF UnderWay
  <1>2. PlacePart(adapter, blocked, k, thread[c], link[c]) /\ CancelPart(adapter, k)
    BY <1>1, Before DEF PlacePart, CancelPart
  <1>3. KindPart(adapter, k, thread[c], link[c]) /\ AnswerPart(k, thread[c], link[c])
    BY Before DEF KindPart, AnswerPart
  <1>4. Sound(adapter, blocked, k, thread[c], link[c])
    BY <1>2, <1>3, Before DEF Sound
  <1>. QED BY <1>1, <1>4, Before, GoesKeeps

(* A call that reads holds its connection and was not cancelled. *)
LEMMA AtIO ==
    ASSUME InspectionInv, NEW c \in Inspectors, Stands(c, "io")
    PROVE  /\ call[c].step = "io" /\ UnderWay(call[c]) /\ call[c].outcome = "none"
           /\ call[c].cancels = 0 /\ (call[c].expired => adapter = "planner")
  BY Before DEF Stands, UnderWay, CancelPart, AnswerPart

(* The metadata are read. *)
LEMMA ReadsMetadataKeeps ==
    ASSUME InspectionInv, NEW c \in Inspectors, ReadsMetadata(c)
    PROVE  InspectionInv'
  <1>1. UNCHANGED <<adapter, link>> /\ Stands(c, "io")
    BY DEF ReadsMetadata
  <1>2. CASE adapter = "planner" /\ ~call[c].planned
    <2>1. Starts(c, "assemble")
      BY <1>2 DEF ReadsMetadata
    <2>. QED BY <1>1, <1>2, <2>1, AtIO, StartsKeeps
  <1>3. CASE ~(adapter = "planner" /\ ~call[c].planned)
    <2> DEFINE k == [call[c] EXCEPT !.step = "close"]
    <2>1. Goes(c, k) /\ UNCHANGED thread
      BY <1>3 DEF ReadsMetadata, Moves
    <2>2. /\ k \in Call /\ k.step = "close" /\ k.op = call[c].op /\ k.cancels = call[c].cancels
          /\ k.expired = call[c].expired /\ k.outcome = call[c].outcome
      <3>1. call[c] \in Call /\ "close" \in Steps
        BY Before DEF Steps
      <3>. QED BY <3>1 DEF Call
    <2> HIDE DEF k
    <2>. QED BY <1>1, <2>1, <2>2, AtIO, ToCloseKeeps
  <1>. QED BY <1>2, <1>3

(* The read fails. *)
LEMMA ReadFailsKeeps ==
    ASSUME InspectionInv, NEW c \in Inspectors, ReadFails(c)
    PROVE  InspectionInv'
  <1>1. PICK code \in {"FAILED", "PROCESSING_TIMEOUT"} :
          Goes(c, [call[c] EXCEPT !.step = "close", !.code = code])
    BY DEF ReadFails
  <1> DEFINE k == [call[c] EXCEPT !.step = "close", !.code = code]
  <1>2. /\ k \in Call /\ k.step = "close" /\ k.op = call[c].op /\ k.cancels = call[c].cancels
        /\ k.expired = call[c].expired /\ k.outcome = call[c].outcome
    <2>1. call[c] \in Call /\ "close" \in Steps /\ code \in Codes
      BY Before DEF Steps, Codes
    <2>. QED BY <2>1 DEF Call
  <1>3. Goes(c, k)
    BY <1>1
  <1> HIDE DEF k
  <1>4. UNCHANGED <<adapter, thread, link>> /\ Stands(c, "io")
    BY DEF ReadFails
  <1>. QED BY <1>2, <1>3, <1>4, AtIO, ToCloseKeeps

(* The snapshot is put together. *)
LEMMA AssemblingKeeps ==
    ASSUME InspectionInv, NEW c \in Inspectors, Assembling(c)
    PROVE  InspectionInv'
  <1>1. /\ call[c].step = "assembling" /\ UNCHANGED <<adapter, link>>
        /\ Starts(c, "assemble") \/ (Ends(c, "PROCESSING_TIMEOUT") /\ UNCHANGED thread)
    BY DEF Assembling, Stands
  <1>2. /\ UnderWay(call[c]) /\ call[c].cancels = 0 /\ adapter # "planner" /\ link[c] # "open"
        /\ ~Alive(thread[c]) /\ ~call[c].expired
        /\ thread[c].does = "read" => adapter = "sqlite"
        /\ thread[c].state = "done" => thread[c].result # "none"
    <2>1. call[c].expired \in BOOLEAN
      BY Before DEF Call
    <2>. QED BY <1>1, <2>1, Before DEF UnderWay, CancelPart, KindPart, PlacePart
  <1>3. CASE Ends(c, "PROCESSING_TIMEOUT") /\ UNCHANGED thread
    <2>1. /\ EndsAs(c, call[c], "PROCESSING_TIMEOUT") /\ "PROCESSING_TIMEOUT" \in Outcomes
          /\ call[c] \in Call /\ thread[c] \in Thread /\ ~(0 > 0)
      BY <1>3, Before DEF Ends, Outcomes, Codes
    <2>. QED BY <1>1, <1>2, <1>3, <2>1, Before, EndingKeeps
  <1>. QED BY <1>1, <1>2, <1>3, StartsKeeps

(* The connection is closed, or is not. *)
LEMMA CloseKeeps ==
    ASSUME InspectionInv, NEW c \in Inspectors, CloseSucceeds(c) \/ CloseFails(c)
    PROVE  InspectionInv'
  <1>1. PICK ok \in BOOLEAN, l \in {"closed", "terminated"} :
          link' = [link EXCEPT ![c] = l] /\ AfterClose(c, ok) /\ call[c].step = "close"
    BY DEF CloseSucceeds, CloseFails, Stands
  <1> DEFINE k0 == call[c]
             code == IF ok THEN k0.code ELSE "CLEANUP_FAILED"
             goesOn == ~k0.cancelled /\ code = "none" /\ k0.op = "inspect"
             o == IF k0.cancelled
                  THEN IF k0.cancels > 0 THEN "cancelled" ELSE "PROCESSING_TIMEOUT"
                  ELSE IF code # "none" THEN code ELSE "given"
             k == IF goesOn THEN [k0 EXCEPT !.step = "assembling"]
                  ELSE [k0 EXCEPT !.step = "ended", !.outcome = o]
  <1>2. /\ call' = [call EXCEPT ![c] = k] /\ slot' = IF goesOn THEN slot ELSE NoTask
        /\ blocked' = (blocked \/ ~ok) /\ UNCHANGED <<adapter, thread>>
    BY <1>1 DEF AfterClose
  <1>3. /\ UnderWay(k0) /\ slot = c /\ ~blocked /\ adapter # "sqlite" /\ k0.outcome = "none"
        /\ k0.expired => adapter = "planner"
        /\ k0.cancels > 0 => k0.cancelled \/ k0.code = "CLEANUP_FAILED"
        /\ Alive(thread[c]) => adapter = "planner"
        /\ ~k0.cancelled /\ k0.code = "none" => ~Alive(thread[c])
        /\ adapter = "planner" => k0.op \in {"none", "plan"}
        /\ k0 \in Call /\ k0.code \in Codes /\ k0.cancels \in Nat /\ k0.cancelled \in BOOLEAN
    <2>1. k0 \in Call /\ k0.code \in Codes /\ k0.cancels \in Nat /\ k0.cancelled \in BOOLEAN
      BY Before DEF Call
    <2>2. UnderWay(k0) /\ slot = c /\ ~blocked /\ adapter # "sqlite" /\ k0.outcome = "none"
      BY <1>1, Before DEF UnderWay, KindPart, AnswerPart
    <2>3. /\ k0.expired => adapter = "planner"
          /\ k0.cancels > 0 => k0.cancelled \/ k0.code = "CLEANUP_FAILED"
          /\ adapter = "planner" => k0.op \in {"none", "plan"}
          /\ ~k0.cancelled /\ k0.code = "none" => ~Alive(thread[c])
          /\ Alive(thread[c]) => adapter = "planner"
      BY <1>1, Before DEF CancelPart, KindPart, PlacePart
    <2>. QED BY <2>1, <2>2, <2>3
  <1>4. ~goesOn => o \in Outcomes \ {"none"}
    BY <1>3 DEF Outcomes, Codes
  <1>5. /\ k \in Call /\ k.step = IF goesOn THEN "assembling" ELSE "ended"
        /\ k.op = k0.op /\ k.cancels = k0.cancels /\ k.expired = k0.expired
        /\ k.outcome = IF goesOn THEN "none" ELSE o
    <2>1. CASE goesOn
      <3>1. "assembling" \in Steps
        BY DEF Steps
      <3> DEFINE q == [k0 EXCEPT !.step = "assembling"]
      <3>2. q \in Call /\ q.step = "assembling" /\ q.op = k0.op /\ q.cancels = k0.cancels
            /\ q.expired = k0.expired /\ q.outcome = k0.outcome
        BY <1>3, <3>1 DEF Call
      <3>. QED BY <1>3, <2>1, <3>2
    <2>2. CASE ~goesOn
      <3> DEFINE q == [k0 EXCEPT !.step = "ended", !.outcome = o]
      <3>1. o \in Outcomes /\ "ended" \in Steps
        BY <1>4, <2>2 DEF Steps
      <3> HIDE DEF o
      <3>2. q \in Call /\ q.step = "ended" /\ q.op = k0.op /\ q.cancels = k0.cancels
            /\ q.expired = k0.expired /\ q.outcome = o
        BY <1>3, <3>1 DEF Call
      <3>. QED BY <2>2, <3>2
    <2>. QED BY <2>1, <2>2
  <1>6. CASE goesOn
    <2>1. /\ k.step = "assembling" /\ k.outcome = "none" /\ adapter # "planner" /\ ok
          /\ k.cancels = 0 /\ k.op = k0.op /\ ~Alive(thread[c]) /\ ~k.expired
      <3>1. ok /\ k0.code = "none" /\ ~k0.cancelled /\ k0.op = "inspect"
        BY <1>3, <1>6
      <3>2. adapter # "planner" /\ k0.cancels = 0 /\ ~Alive(thread[c])
        BY <1>3, <3>1
      <3>3. k0.expired \in BOOLEAN
        BY <1>3 DEF Call
      <3>. QED BY <1>3, <1>5, <1>6, <3>1, <3>2, <3>3
    <2>2. Goes(c, k)
      <3>1. blocked' = blocked
        BY <1>2, <1>3, <2>1, Before
      <3>2. slot' = slot /\ call' = [call EXCEPT ![c] = k]
        BY <1>2, <1>6
      <3>. QED BY <3>1, <3>2 DEF Goes
    <2>3. Sound(adapter, blocked, k, thread[c], l)
      <3> HIDE DEF k, goesOn, o, code
      <3>1. PlacePart(adapter, blocked, k, thread[c], l) /\ CancelPart(adapter, k)
        BY <1>1, <2>1 DEF PlacePart, CancelPart
      <3>2. KindPart(adapter, k, thread[c], l) /\ AnswerPart(k, thread[c], l)
        BY <1>1, <1>3, <2>1, Before DEF KindPart, AnswerPart
      <3>. QED BY <1>1, <1>5, <3>1, <3>2, Before DEF Sound
    <2>4. UnderWay(k)
      BY <2>1 DEF UnderWay
    <2> HIDE DEF k
    <2>. QED BY <1>1, <1>2, <1>3, <2>2, <2>3, <2>4, Before, GoesKeeps
  <1>7. CASE ~goesOn
    <2>1. /\ k.step = "ended" /\ k.outcome = o /\ k.cancels = k0.cancels /\ k.op = k0.op
          /\ k.expired = k0.expired /\ k \in Call
      BY <1>5, <1>7
    <2>2. ~UnderWay(k)
      BY <2>1 DEF UnderWay
    <2>3. /\ o = "given" => ~k0.cancelled /\ k0.code = "none"
          /\ k0.cancels > 0 => o \in {"cancelled", "CLEANUP_FAILED"}
          /\ o = "cancelled" => k0.cancels > 0
      <3>1. k0.code # "given" /\ k0.code # "cancelled"
        BY <1>3 DEF Codes
      <3>. QED BY <1>3, <3>1
    <2> HIDE DEF k, goesOn, o, code
    <2>4. blocked' = ~ok
      BY <1>2, <1>3
    <2>5. Sound(adapter, blocked', k, thread[c], l)
      <3>1. PlacePart(adapter, blocked', k, thread[c], l) /\ CancelPart(adapter, k)
        BY <1>1, <1>3, <2>1, <2>2 DEF PlacePart, CancelPart
      <3>2. KindPart(adapter, k, thread[c], l)
        BY <1>1, <1>3, <2>1, Before DEF KindPart
      <3>3. o = "given" => k0.cancels = 0 /\ ~Alive(thread[c])
        BY <1>3, <2>3
      <3>4. AnswerPart(k, thread[c], l)
        BY <1>1, <2>1, <2>3, <3>3 DEF AnswerPart, Reads, Alive
      <3>. QED BY <1>1, <2>1, <3>1, <3>2, <3>4, Before DEF Sound
    <2>6. Moved(c, k, thread[c], l)
      <3>1. slot' = NoTask /\ call' = [call EXCEPT ![c] = k]
        BY <1>2, <1>7
      <3>2. Alive(thread[c]) => IsAlive(c)
        BY DEF Alive, IsAlive
      <3>. QED BY <1>1, <1>2, <1>3, <2>2, <2>4, <2>5, <3>1, <3>2, Before DEF Moved
    <2>. QED BY <2>6, MovedKeeps
  <1>. QED BY <1>6, <1>7

-----------------------------
(* Cancellation, and the deadline of the planner. *)

LEMMA InterruptsKeeps ==
    ASSUME InspectionInv, NEW c \in Inspectors, NEW from \in Call, Interrupts(c, from),
           call[c].step \in {"io", "close", "wait", "cleanup"},
           from.step = call[c].step, from.op = call[c].op, from.outcome = call[c].outcome,
           from.cancels = 0 => call[c].cancels = 0, from.cancels > 0 \/ from.expired,
           from.expired => adapter = "planner", UNCHANGED <<adapter, link>>
    PROVE  InspectionInv'
  <1>1. UnderWay(call[c]) /\ from.outcome = "none"
    BY Before DEF UnderWay, AnswerPart
  <1>2. CASE call[c].step \in {"io", "close"}
    <2> DEFINE k == IF call[c].step = "io" THEN [from EXCEPT !.step = "close", !.cancelled = TRUE]
                    ELSE [from EXCEPT !.cancelled = TRUE]
    <2>1. /\ k \in Call /\ k.step = "close" /\ k.op = from.op /\ k.cancelled
          /\ k.expired = from.expired /\ k.outcome = from.outcome
      <3>1. "close" \in Steps
        BY DEF Steps
      <3>2. CASE call[c].step = "io"
        BY <3>1, <3>2 DEF Call
      <3>3. CASE call[c].step = "close"
        BY <3>3 DEF Call
      <3>. QED BY <1>2, <3>2, <3>3
    <2>2. Goes(c, k) /\ UNCHANGED thread
      BY <1>2 DEF Interrupts, Stands
    <2> HIDE DEF k
    <2>. QED BY <1>1, <1>2, <2>1, <2>2, ToCloseKeeps
  <1>3. CASE call[c].step = "wait" /\ thread[c].state # "done"
    <2> DEFINE k == [from EXCEPT !.step = "cleanup"]
    <2>1. /\ k \in Call /\ k.step = "cleanup" /\ k.op = from.op
          /\ k.expired = from.expired /\ k.outcome = from.outcome
      <3>1. "cleanup" \in Steps
        BY DEF Steps
      <3>. QED BY <3>1 DEF Call
    <2>2. Goes(c, k) /\ AsksToEnd(c)
      BY <1>3 DEF Interrupts, Stands
    <2> HIDE DEF k
    <2>. QED BY <1>1, <1>3, <2>1, <2>2, WaitsOn
  <1>4. CASE call[c].step = "wait" /\ thread[c].state = "done"
    <2> DEFINE t == Asked(thread[c])
    <2>1. Stopped(c, from) /\ AsksToEnd(c)
      BY <1>4 DEF Interrupts, Stands
    <2>2. /\ thread' = [thread EXCEPT ![c] = t] /\ t \in Thread /\ t.state = "done"
          /\ t.result = thread[c].result /\ t.does = thread[c].does
      BY <1>4, <2>1, AskedIs
    <2>3. thread[c].result # "none" /\ (thread[c].does = "read" => adapter = "sqlite")
      BY <1>4, Before DEF KindPart
    <2> HIDE DEF t
    <2>. QED BY <1>1, <1>4, <2>1, <2>2, <2>3, StoppedKeeps
  <1>5. CASE call[c].step = "cleanup"
    <2>1. Goes(c, from) /\ AsksToEnd(c)
      BY <1>5 DEF Interrupts, Stands
    <2>. QED BY <1>1, <1>5, <2>1, WaitsOn
  <1>. QED BY <1>2, <1>3, <1>4, <1>5

(* A task is cancelled. *)
LEMMA CancelKeeps ==
    ASSUME InspectionInv, NEW c \in Inspectors, Cancel(c)
    PROVE  InspectionInv'
  <1> DEFINE from == [call[c] EXCEPT !.cancels = @ + 1]
  <1>1. call[c] \in Call /\ call[c].cancels \in Nat
    BY Before DEF Call
  <1>2. /\ from \in Call /\ from.step = call[c].step /\ from.op = call[c].op
        /\ from.outcome = call[c].outcome /\ from.cancels = call[c].cancels + 1
        /\ from.expired = call[c].expired
    BY <1>1 DEF Call
  <1>3. /\ call[c].step \in {"io", "close", "wait", "cleanup"} /\ Interrupts(c, from)
        /\ UNCHANGED <<adapter, link>>
    BY DEF Cancel
  <1> HIDE DEF from
  <1>4. from.cancels > 0 /\ from.cancels # 0
    BY <1>1, <1>2
  <1>5. from.expired => adapter = "planner"
    BY <1>2, Before DEF CancelPart
  <1>. QED BY <1>2, <1>3, <1>4, <1>5, InterruptsKeeps

(* The deadline of the planner passes. *)
LEMMA PlannerExpiresKeeps ==
    ASSUME InspectionInv, NEW c \in Inspectors, PlannerExpires(c)
    PROVE  InspectionInv'
  <1> DEFINE from == [call[c] EXCEPT !.expired = TRUE]
  <1>1. call[c] \in Call
    BY Before
  <1>2. /\ from \in Call /\ from.step = call[c].step /\ from.op = call[c].op
        /\ from.outcome = call[c].outcome /\ from.cancels = call[c].cancels
        /\ from.expired
    BY <1>1 DEF Call
  <1>3. /\ call[c].step \in {"io", "close", "wait", "cleanup"} /\ Interrupts(c, from)
        /\ UNCHANGED <<adapter, link>> /\ adapter = "planner"
    BY DEF PlannerExpires
  <1> HIDE DEF from
  <1>. QED BY <1>2, <1>3, InterruptsKeeps

-----------------------------
(* The theorem. *)

LEMMA InspectionInvInit == InspectionInit => InspectionInv
  <1> SUFFICES ASSUME InspectionInit
               PROVE  InspectionInv
    OBVIOUS
  <1> USE DEF InspectionInit
  <1>1. Idle \in Call /\ NoThread \in Thread
    BY DEF Idle, NoThread, Call, Thread, Steps, Codes, Outcomes
  <1>2. /\ Idle.step = "idle" /\ Idle.cancels = 0 /\ Idle.expired = FALSE
        /\ Idle.outcome = "none" /\ Idle.op = "none"
        /\ NoThread.state = "none" /\ NoThread.does = "none"
    BY DEF Idle, NoThread
  <1> HIDE DEF Idle, NoThread
  <1>3. InspectionTypeOK
    BY <1>1, InspectionAssumption DEF InspectionTypeOK
  <1>4. AliveOnce
    BY <1>2 DEF AliveOnce, IsAlive
  <1>5. ASSUME NEW c \in Inspectors
        PROVE  TaskPart(c)
    <2>1. call[c] = Idle /\ thread[c] = NoThread /\ link[c] = "none" /\ slot # c
      BY InspectionAssumption
    <2>. QED BY <1>1, <1>2, <2>1 DEF TaskPart, Sound, PlacePart, KindPart, CancelPart, AnswerPart,
                                     UnderWay, Alive, Reads
  <1>. QED BY <1>3, <1>4, <1>5 DEF InspectionInv

(* Every step keeps the invariant. *)
LEMMA InspectionInvStep ==
    InspectionInv /\ [InspectionNext]_inspectionVars => InspectionInv'
  <1> SUFFICES ASSUME InspectionInv, [InspectionNext]_inspectionVars
               PROVE  InspectionInv'
    OBVIOUS
  <1>1. CASE UNCHANGED inspectionVars
    BY <1>1 DEF inspectionVars, InspectionInv, InspectionTypeOK, AliveOnce, IsAlive, TaskPart, Sound,
                UnderWay, PlacePart, KindPart, CancelPart, AnswerPart, Alive, Reads
  <1>2. ASSUME NEW c \in Inspectors, LoopStep(c)
        PROVE  InspectionInv'
    BY <1>2, RefuseKeeps, EnterKeeps, ThreadIsThroughKeeps, WaitExpiresKeeps, CleanupKeeps,
       ConnectKeeps, ReadsMetadataKeeps, ReadFailsKeeps, CloseKeeps, AssemblingKeeps
       DEF LoopStep
  <1>3. ASSUME NEW c \in Inspectors, OutsideStep(c)
        PROVE  InspectionInv'
    BY <1>3, ThreadOpensKeeps, ThreadEndsKeeps, CancelKeeps, PlannerExpiresKeeps DEF OutsideStep
  <1>. QED BY <1>1, <1>2, <1>3 DEF InspectionNext

(* The inductive invariant of the inspecting calls holds in every behaviour. *)
THEOREM InspectionInvariant == InspectionSpec => []InspectionInv
  BY InspectionInvInit, InspectionInvStep, PTL DEF InspectionSpec

(* Whatever is cancelled and whenever, an object never has two connections, *)
(* and what outlives its call blocks the object; a catalog is given only    *)
(* with the connection closed and the thread ended, never to a task that    *)
(* was cancelled, and that task is told so (database/_inspection.py,        *)
(* run_inspection; database/postgresql.py, _cleanup).                       *)
THEOREM InspectionsExclude == InspectionSpec => []InspectionIsExclusive
  <1>1. ASSUME InspectionInv
        PROVE  InspectionIsExclusive
    <2>1. ASSUME NEW c \in Inspectors, IsOpen(c)
          PROVE  slot = c \/ blocked
      <3>1. CASE link[c] = "open"
        BY <1>1, <3>1, Before DEF PlacePart
      <3>2. CASE thread[c].state = "open" /\ thread[c].does = "read"
        <4>1. adapter # "planner" /\ Alive(thread[c])
          BY <1>1, <3>2, Before DEF KindPart, Alive
        <4>. QED BY <1>1, <4>1, Before DEF PlacePart
      <3>. QED BY <2>1, <3>1, <3>2 DEF IsOpen
    <2>2. ASSUME NEW c \in Inspectors, NEW d \in Inspectors, IsOpen(c), IsOpen(d)
          PROVE  c = d
      <3>1. CASE adapter = "sqlite"
        <4>1. IsAlive(c) /\ IsAlive(d)
          BY <1>1, <2>2, <3>1, Before DEF KindPart, IsOpen, IsAlive
        <4>. QED BY <1>1, <3>1, <4>1 DEF InspectionInv, AliveOnce
      <3>2. CASE adapter # "sqlite"
        <4>1. link[c] = "open" /\ link[d] = "open"
          BY <1>1, <2>2, <3>2, Before DEF KindPart, IsOpen
        <4>. QED BY <1>1, <4>1, Before DEF PlacePart
      <3>. QED BY <3>1, <3>2
    <2>3. ASSUME NEW c \in Inspectors
          PROVE  /\ IsAlive(c) => slot = c \/ blocked \/ adapter = "planner"
                 /\ call[c].outcome = "given" => ~IsOpen(c) /\ ~IsAlive(c) /\ call[c].cancels = 0
                 /\ Stands(c, "ended") /\ call[c].cancels > 0 =>
                       call[c].outcome \in {"cancelled", "CLEANUP_FAILED"}
                 /\ call[c].outcome = "cancelled" => call[c].cancels > 0
      BY <1>1, Before DEF PlacePart, AnswerPart, IsAlive, Alive, IsOpen, Reads, Stands
    <2>. QED BY <2>1, <2>2, <2>3 DEF InspectionIsExclusive
  <1>. QED BY <1>1, InspectionInvariant, PTL
=============================================================================
