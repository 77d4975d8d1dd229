----------------------------- MODULE AuditChain -----------------------------
(***************************************************************************)
(* The HMAC audit chain of one run, appended to by several writers and     *)
(* verified while it grows.                                                *)
(*                                                                         *)
(* security/audit.py drives an append (look for the event, read the tail,  *)
(* sign, compare and append, up to Retries times).  The store is either    *)
(* PostgreSQLAuditChainStore, whose rows belong to the transaction of the  *)
(* caller and whose compare_append holds an advisory lock to the end of    *)
(* that transaction (Transactional), or MemoryAuditChainStore, where each  *)
(* compare_append is atomic and final.  An append can be cancelled, time   *)
(* out or be rolled back with its transaction at every await, and its      *)
(* answer can be lost after it took effect.                                *)
(*                                                                         *)
(* A digest is represented by what it authenticates: HMAC over the         *)
(* previous digest and the event, so the events up to and including it.    *)
(***************************************************************************)
EXTENDS Integers, Sequences

CONSTANTS
    Appenders,      \* calls of append
    Verifiers,      \* calls of verify and verify_through
    Ids, Policies, TargetIds, Null, Maximum,
    Retries,        \* 16 in the code
    PageSize,       \* 256 in the code
    Stores,         \* the stores to look at: whether they are transactional
    Scripts         \* SUBSET [Appenders -> Event] what the calls may append

Event == [event_id : Ids, occurred_at : Nat, target_id : TargetIds \cup {Null},
          policy : Policies, body : Nat]

Digest == Seq(Event)

Envelope == [sequence : Nat \ {0}, event : Event, previous_hash : Digest,
             current_hash : Digest]

ASSUME ChainAssumption ==
    /\ Scripts \subseteq [Appenders -> Event]
    /\ Maximum \in Nat \ {0} /\ Retries \in Nat \ {0} /\ PageSize \in Nat \ {0}
    /\ Stores \subseteq BOOLEAN
    /\ Null \notin TargetIds /\ Null \notin Envelope /\ Null \notin Digest
    /\ Null \notin Appenders

VARIABLES
    setting,    \* the store, and what each call appends; never changes
    chain,    \* committed rows of chain_events, in order
    pc,       \* [Appenders -> where append is]
    seen,     \* [Appenders -> Digest]            the tail that was read
    tries,    \* [Appenders -> Nat]               failed compare_appends
    own,      \* [Appenders -> Envelope or Null]  inserted, not yet committed
    answer,   \* [Appenders -> Envelope or Null]  what append returned
    lock,     \* the holder of the advisory lock of the chain, or Null
    check     \* [Verifiers -> Check]

auditVars == <<setting, chain, pc, seen, tries, own, answer, lock, check>>
writerVars == <<pc, seen, tries, own, answer, lock>>

Transactional == setting.transactional
EventOf == setting.events

Ended == {"returned", "refused", "exhausted", "given_up"}
AppendPoint == {"idle", "find", "tail", "cas", "appended"} \cup Ended

(* A verification: which one (verify, verify with an expected head,         *)
(* verify_through), the anchor, the records of the pages read so far, and   *)
(* the verdict ("invalid" is every refusal, "empty" AUDIT_CHAIN_EMPTY).     *)
Modes == {"prefix", "exact", "through"}

Check == [state : {"idle", "reading", "valid", "invalid", "empty"}, mode : Modes,
          head : Digest \cup {Null}, got : Seq(Envelope)]

-----------------------------
(* append. *)

TailHash(c) == IF c = <<>> THEN <<>> ELSE c[Len(c)].current_hash

Present(e) == {i \in 1..Len(chain) : chain[i].event.event_id = e.event_id}

(* Slip: the time of the event is not compared. *)
Follows_AnyTime(d, e) ==
    /\ d.target_id = Null \/ d.target_id = e.target_id
    /\ d.policy = e.policy

(* The checks of append against the tail, and _binding of the tail. *)
Follows(d, e) ==
    /\ d.occurred_at <= e.occurred_at
    /\ d.target_id = Null \/ d.target_id = e.target_id
    /\ d.policy = e.policy

Admissible(e) ==
    chain # <<>> =>
        /\ Len(chain) < Maximum
        /\ Follows(chain[Len(chain)].event, e)

Offer(w) ==
    /\ pc[w] = "idle"
    /\ pc' = [pc EXCEPT ![w] = "find"]
    /\ UNCHANGED <<setting, chain, seen, tries, own, answer, lock, check>>

(* Slip: a lock of the session (pg_advisory_lock) stays. *)
Unlocked_Session(w) == lock' = lock

(* The locks of a transaction go with it. *)
Unlocked(w) == lock' = IF lock = w THEN Null ELSE lock

SameEvent(d, e) == d = e

(* The event is there already: the same one is returned, another one under  *)
(* its id refused.  Nothing was written, so the transaction simply ends.    *)
Find(w) ==
    /\ pc[w] = "find"
    /\ IF Present(EventOf[w]) = {}
       THEN /\ pc' = [pc EXCEPT ![w] = "tail"]
            /\ UNCHANGED <<answer, lock>>
       ELSE \E i \in Present(EventOf[w]) :
               /\ IF SameEvent(chain[i].event, EventOf[w])
                  THEN /\ pc' = [pc EXCEPT ![w] = "returned"]
                       /\ answer' = [answer EXCEPT ![w] = chain[i]]
                  ELSE /\ pc' = [pc EXCEPT ![w] = "refused"]
                       /\ UNCHANGED answer
               /\ Unlocked(w)
    /\ UNCHANGED <<setting, chain, seen, tries, own, check>>

ReadTail(w) ==
    /\ pc[w] = "tail"
    /\ IF Admissible(EventOf[w])
       THEN /\ seen' = [seen EXCEPT ![w] = TailHash(chain)]
            /\ pc' = [pc EXCEPT ![w] = "cas"]
            /\ UNCHANGED lock
       ELSE /\ pc' = [pc EXCEPT ![w] = "refused"]
            /\ Unlocked(w)
            /\ UNCHANGED seen
    /\ UNCHANGED <<setting, chain, tries, own, answer, check>>

Current(w) == seen[w] = TailHash(chain) /\ Present(EventOf[w]) = {}

(* compare_append that succeeds.  The envelope was signed for the tail that *)
(* was seen; with a transaction it becomes visible at commit and the lock   *)
(* is kept until then.                                                      *)
Insert(w) ==
    LET e == [sequence |-> Len(seen[w]) + 1, event |-> EventOf[w],
              previous_hash |-> seen[w], current_hash |-> Append(seen[w], EventOf[w])]
    IN  /\ pc[w] = "cas" /\ lock \in {Null, w}
        /\ Current(w)
        /\ IF Transactional
           THEN /\ own' = [own EXCEPT ![w] = e]
                /\ pc' = [pc EXCEPT ![w] = "appended"]
                /\ lock' = w
                /\ UNCHANGED <<chain, answer>>
           ELSE /\ chain' = Append(chain, e)
                /\ pc' = [pc EXCEPT ![w] = "returned"]
                /\ answer' = [answer EXCEPT ![w] = e]
                /\ UNCHANGED <<own, lock>>
        /\ UNCHANGED <<setting, seen, tries, check>>

(* The lock is of the transaction, not of the call: it outlives a failed    *)
(* compare_append, unless the failure is the last one.                      *)
KeepsLock(w) == Transactional /\ tries[w] + 1 < Retries

Again(w) == tries[w] + 1 < Retries

Conflict(w) ==
    /\ pc[w] = "cas" /\ lock \in {Null, w}
    /\ ~Current(w)
    /\ tries' = [tries EXCEPT ![w] = @ + 1]
    /\ pc' = [pc EXCEPT ![w] = IF Again(w) THEN "find" ELSE "exhausted"]
    /\ lock' = IF KeepsLock(w) THEN w ELSE Null
    /\ UNCHANGED <<setting, chain, seen, own, answer, check>>

(* The transaction of the caller commits; its answer may be lost. *)
Commit(w, told) ==
    /\ pc[w] = "appended"
    /\ chain' = Append(chain, own[w])
    /\ own' = [own EXCEPT ![w] = Null]
    /\ Unlocked(w)
    /\ pc' = [pc EXCEPT ![w] = IF told THEN "returned" ELSE "given_up"]
    /\ answer' = [answer EXCEPT ![w] = IF told THEN own[w] ELSE Null]
    /\ UNCHANGED <<setting, seen, tries, check>>

(* Timeout, cancellation, a signer or store that fails, a crash, or the     *)
(* rollback of the caller's transaction.                                    *)
GiveUp(w) ==
    /\ pc[w] \in {"find", "tail", "cas", "appended"}
    /\ pc' = [pc EXCEPT ![w] = "given_up"]
    /\ own' = [own EXCEPT ![w] = Null]
    /\ Unlocked(w)
    /\ UNCHANGED <<setting, chain, seen, tries, answer, check>>

-----------------------------
(* verify and verify_through. *)

(* _verify, on everything that was read. *)
Links(c) ==
    /\ \A i \in 1..Len(c) :
          /\ c[i].sequence = i
          /\ c[i].previous_hash = IF i = 1 THEN <<>> ELSE c[i - 1].current_hash
          /\ c[i].current_hash = Append(c[i].previous_hash, c[i].event)
          /\ i > 1 => Follows(c[i - 1].event, c[i].event)
    /\ \A i, j \in 1..Len(c) : c[i].event.event_id = c[j].event.event_id => i = j

Verdict(c, head) ==
    IF c = <<>> THEN "empty"
    ELSE IF Links(c) /\ Len(c) <= Maximum /\ (head # Null => c[Len(c)].current_hash = head)
         THEN "valid" ELSE "invalid"

(* The heads that were given out: receipts, and anchors kept by a host. *)
Heads == {answer[w].current_hash : w \in {x \in Appenders : answer[x] # Null}}

StartCheck(v, mode, head) ==
    /\ check[v].state = "idle"
    /\ mode = "prefix" <=> head = Null
    /\ check' = [check EXCEPT ![v] =
                    [state |-> "reading", mode |-> mode, head |-> head, got |-> <<>>]]
    /\ UNCHANGED <<setting, chain, writerVars>>

(* Slip: every page is a full page. *)
PageLimit_Full(c) == PageSize

(* How many records the next read asks for. *)
PageLimit(c) ==
    IF c.mode = "through" /\ Len(c.head) - Len(c.got) < PageSize
    THEN Len(c.head) - Len(c.got) ELSE PageSize

(* One page, as the chain is at that moment; an empty page, or the anchor's *)
(* sequence being reached, ends the reading.                                *)
ReadPage(v) ==
    LET c    == check[v]
        stop == Len(c.got) + PageLimit(c)
        last == IF stop < Len(chain) THEN stop ELSE Len(chain)
    IN  /\ c.state = "reading"
        /\ check' = [check EXCEPT ![v] =
             IF PageLimit(c) = 0 \/ last <= Len(c.got)
             THEN [c EXCEPT !.state = Verdict(c.got, c.head)]
             ELSE [c EXCEPT !.got = c.got \o SubSeq(chain, Len(c.got) + 1, last)]]
        /\ UNCHANGED <<setting, chain, writerVars>>

-----------------------------
NoChecks == [v \in Verifiers |-> [state |-> "idle", mode |-> "prefix", head |-> Null, got |-> <<>>]]

AuditInit ==
    /\ setting \in [transactional : Stores, events : Scripts]
    /\ chain = <<>>
    /\ pc = [w \in Appenders |-> "idle"]
    /\ seen = [w \in Appenders |-> <<>>]
    /\ tries = [w \in Appenders |-> 0]
    /\ own = [w \in Appenders |-> Null]
    /\ answer = [w \in Appenders |-> Null]
    /\ lock = Null
    /\ check = NoChecks

(* One step of append, other than giving up. *)
AppendStep(w) ==
    \/ Offer(w) \/ Find(w) \/ ReadTail(w) \/ Insert(w) \/ Conflict(w)
    \/ \E told \in BOOLEAN : Commit(w, told)

VerifyStep(v) ==
    \/ \E mode \in Modes, head \in Heads \cup {Null} : StartCheck(v, mode, head)
    \/ ReadPage(v)

AuditNext ==
    \/ \E w \in Appenders : AppendStep(w) \/ GiveUp(w)
    \/ \E v \in Verifiers : VerifyStep(v)

AuditSpec == AuditInit /\ [][AuditNext]_auditVars

(* Fairness.  Every await of append ends (its timeout is not needed for it), *)
(* and the transaction of the caller is committed or rolled back.           *)
AuditFairness == \A w \in Appenders : WF_auditVars(AppendStep(w))

-----------------------------
(* Properties. *)

AuditTypeOK ==
    /\ setting \in [transactional : Stores, events : Scripts]
    /\ chain \in Seq(Envelope)
    /\ pc \in [Appenders -> AppendPoint]
    /\ seen \in [Appenders -> Digest]
    /\ tries \in [Appenders -> 0..Retries]
    /\ own \in [Appenders -> Envelope \cup {Null}]
    /\ answer \in [Appenders -> Envelope \cup {Null}]
    /\ lock \in Appenders \cup {Null}
    /\ check \in [Verifiers -> Check]

(* The envelope an append returned stays in the chain at its sequence, so   *)
(* the audit_head of a load receipt can be verified for ever.               *)
ReceiptStays ==
    \A w \in Appenders :
        answer[w] # Null =>
            /\ answer[w].sequence <= Len(chain)
            /\ chain[answer[w].sequence] = answer[w]
            /\ answer[w].event = EventOf[w]

(* A verification of the stored prefix, or through a head that was given    *)
(* out, never fails while appends go on between its pages.                  *)
AnchorVerifies ==
    \A v \in Verifiers :
        /\ check[v].mode \in {"prefix", "through"} => check[v].state # "invalid"
        /\ check[v].mode = "through" => check[v].state # "empty"

(* The chain is the append-only log AuditLog describes. *)
Log == INSTANCE AuditLog
         WITH log <- [i \in 1..Len(chain) |-> chain[i].event],
              Events <- UNION {{f[w] : w \in Appenders} : f \in Scripts}

ImplementsLog == Log!Spec

(* Every append that was started ends, also when the holder of the lock of  *)
(* the chain gives up or loses its answer.                                  *)
EveryAppendEnds == \A w \in Appenders : pc[w] = "find" ~> pc[w] \in Ended

(* Whatever the appends race with, the stored chain passes verify - what     *)
(* append checks before it signs is enough for what _verify demands - and    *)
(* what was answered once can be shown again: the receipt of an append, and  *)
(* the head a load was written with.                                         *)
ReceiptsVerify ==
    /\ AuditTypeOK
    /\ chain # <<>> => Verdict(chain, Null) = "valid"
    /\ ReceiptStays /\ AnchorVerifies
=============================================================================
