-------------------------------- MODULE Vault --------------------------------
(***************************************************************************)
(* Reversible redaction: mask and restore_fields of security/redaction.py  *)
(* over EncryptedMemoryPlaceholderStore of security/placeholder_store.py.  *)
(* A ciphertext is its plaintext together with the key and the handle it   *)
(* is bound to; its length is that of the plaintext and the tag.           *)
(***************************************************************************)
EXTENDS Integers, FiniteSets, SequencesExt, FiniteSetsExt

CONSTANTS
    VaultRuns, Writers, Readers,    \* PlaceholderMapPolicy
    Strangers,                      \* principals of neither list
    MaxTtl, MaxMaps, MaxEntries, MaxBytes,
    TokenChars, MaxOutput,          \* length of a token, ScanLimits.max_output_chars
    Overhead,                       \* bytes of a map besides its entries
    Jobs,                           \* [text, found]: what is masked
    Keys, MaxHandles, MaxTime,      \* bounds of the model
    Absent

-----------------------------
(* Masking. *)

(* _spans: in the order of their places, findings that overlap become one. *)
Before(f, g) == f[1] < g[1] \/ (f[1] = g[1] /\ f[2] < g[2])
LatestOf(found) == CHOOSE f \in found : \A g \in found : ~Before(f, g)

Joined(f, spans) ==
    LET end == spans[Len(spans)] IN
    IF spans # <<>> /\ f[1] < end[2]
    THEN [spans EXCEPT ![Len(spans)] = <<end[1], Max({end[2], f[2]})>>]
    ELSE Append(spans, f)

Merged(found) == MapThenFoldSet(Joined, <<>>, LAMBDA f : f, LatestOf, found)

Char(c) == [char |-> c, token |-> 0]
Token(n) == [char |-> Absent, token |-> n]

Unmasked(text, from, to) == [i \in 1..(to - from) |-> Char(text[from + i])]

(* mask on one text: equal values share a token, map[n] is the value behind *)
(* the n-th one.                                                            *)
Replaced(text, span, acc) ==
    LET raw == SubSeq(text, span[1] + 1, span[2])
        map == IF raw \in {acc.map[i] : i \in DOMAIN acc.map} THEN acc.map ELSE Append(acc.map, raw)
        n   == CHOOSE i \in DOMAIN map : map[i] = raw
    IN  [cursor |-> span[2], map |-> map,
         out |-> (acc.out \o Unmasked(text, acc.cursor, span[1])) \o <<Token(n)>>]

Masked(text, found) ==
    LET end == FoldLeft(LAMBDA acc, span : Replaced(text, span, acc),
                        [cursor |-> 0, map |-> <<>>, out |-> <<>>], Merged(found))
    IN  [out |-> end.out \o Unmasked(text, end.cursor, Len(text)), map |-> end.map]

MaskedSize(out) ==
    Len(SelectSeq(out, LAMBDA item : item.token = 0))
      + TokenChars * Len(SelectSeq(out, LAMBDA item : item.token # 0))

(* restore_fields: every token by its value, everything else as it is. *)
Restored(out, map) ==
    FlattenSeq([i \in DOMAIN out |-> IF out[i].token = 0 THEN <<out[i].char>>
                                     ELSE map[out[i].token]])

PayloadBytes(map) ==
    Overhead + FoldSeq(LAMBDA raw, n : n + 3 + TokenChars + Len(raw), 0, map)

(* PlaceholderMapPolicy, sizes, and findings that lie in their text: a span *)
(* is not empty (SensitiveFinding.span).                                    *)
SpansIn(size) == {f \in (0..size) \X (0..size) : f[1] < f[2]}

ASSUME VaultAssumption ==
    /\ MaxMaps \in Nat /\ MaxBytes \in Nat /\ Overhead \in Nat /\ TokenChars \in Nat
    /\ \A job \in Jobs : /\ job.text \in Seq({job.text[i] : i \in DOMAIN job.text})
                         /\ IsFiniteSet(job.found) /\ job.found \subseteq SpansIn(Len(job.text))

VARIABLES
    wall, mono,          \* the two clocks
    lastWall, lastMono,  \* the last readings of the store
    cipher, maps, mapBytes,     \* _cipher, _records, _bytes
    issued,              \* handle -> what was masked for it, a history
    revealed             \* what get answered last

vaultVars == <<wall, mono, lastWall, lastMono, cipher, maps, mapBytes, issued, revealed>>

-----------------------------
(* The store. *)

VaultInit ==
    /\ wall = 0 /\ mono = 0 /\ lastWall = 0 /\ lastMono = 0
    /\ cipher \in Keys /\ maps = {} /\ mapBytes = 0
    /\ issued = {} /\ revealed = Absent

(* _times: without a key, or when a clock went back, nothing is given out. *)
TimesHold == cipher # Absent /\ wall >= lastWall /\ mono >= lastMono

(* Slip: one clock decides. *)
IsOver_Wall(m) == wall >= m.handle.expires_at

(* A map is over when either clock says so. *)
IsOver(m) == mono >= m.deadline \/ wall >= m.handle.expires_at

SizeOf(some) == FoldSet(LAMBDA m, n : n + PayloadBytes(m.map), 0, some)

Keep(left) == /\ maps' = left /\ mapBytes' = mapBytes - SizeOf(maps \ left)

Looked == lastWall' = wall /\ lastMono' = mono

(* put, called by mask: expired maps go first, then the limits.  The reply  *)
(* of a full store is an error, and so is what is longer than is allowed.   *)
PutMap(job, run, principal, ttl) ==
    LET masked == Masked(job.text, job.found)
        left   == {m \in maps : ~IsOver(m)}
        room   == MaxBytes - (mapBytes - SizeOf(maps \ left))
        fits   == /\ ttl \in 1..MaxTtl /\ Cardinality(left) < MaxMaps
                  /\ Len(masked.map) <= MaxEntries /\ PayloadBytes(masked.map) <= room
        handle == [id |-> Cardinality(issued) + 1, run |-> run, expires_at |-> wall + ttl]
        stored == [handle |-> handle, deadline |-> mono + ttl, key |-> cipher,
                   map |-> masked.map]
    IN  /\ MaskedSize(masked.out) <= MaxOutput
        /\ run \in VaultRuns /\ principal \in Writers /\ TimesHold
        /\ Cardinality(issued) < MaxHandles
        /\ IF fits
             THEN /\ maps' = left \cup {stored}
                  /\ mapBytes' = mapBytes - SizeOf(maps \ left) + PayloadBytes(masked.map)
                  /\ issued' = issued \cup {[handle |-> handle, job |-> job, key |-> cipher,
                                             out |-> masked.out]}
             ELSE Keep(left) /\ UNCHANGED issued
        /\ Looked /\ revealed' = Absent
        /\ UNCHANGED <<wall, mono, cipher>>

(* mask that finds its time over after put takes the map back. *)
PutTooLate ==
    /\ TimesHold /\ maps # {} /\ revealed = Absent
    /\ \E m \in maps : m.handle.id = Cardinality(issued) /\ ~IsOver(m) /\ Keep(maps \ {m})
    /\ Looked /\ UNCHANGED <<wall, mono, cipher, issued, revealed>>

(* _record: the handle has to be the one that was given out, to the letter. *)
RecordOf(handle) == {m \in maps : m.handle = handle}

(* get, called by restore_fields; an expired map is removed on the way. *)
GetMap(handle, run, principal) ==
    /\ run \in VaultRuns /\ principal \in Readers /\ handle.run = run /\ TimesHold
    /\ LET found == RecordOf(handle)
           over  == {m \in found : IsOver(m)}
           open  == {m \in found \ over : m.key = cipher /\ m.handle = handle}
       IN  /\ Keep(maps \ over)
           /\ revealed' = IF open = {} THEN Absent
                          ELSE [handle |-> handle, principal |-> principal,
                                map |-> (CHOOSE m \in open : TRUE).map]
    /\ Looked /\ UNCHANGED <<wall, mono, cipher, issued>>

DiscardMap(handle, run, principal) ==
    /\ run \in VaultRuns /\ principal \in Writers /\ handle.run = run /\ TimesHold
    /\ Keep(maps \ RecordOf(handle))
    /\ Looked /\ revealed' = Absent /\ UNCHANGED <<wall, mono, cipher, issued>>

PurgeExpired ==
    /\ TimesHold /\ Keep({m \in maps : ~IsOver(m)})
    /\ Looked /\ revealed' = Absent /\ UNCHANGED <<wall, mono, cipher, issued>>

(* rotate_key revokes every handle; it also opens a closed store. *)
RotateKey(key) ==
    /\ cipher' = key /\ maps' = {} /\ mapBytes' = 0 /\ revealed' = Absent
    /\ UNCHANGED <<wall, mono, lastWall, lastMono, issued>>

CloseVault == RotateKey(Absent)

(* The clocks of the host run apart, and may be set back. *)
VaultClock ==
    /\ \/ wall' \in {wall + 1, wall - 1} \cap 0..MaxTime /\ mono' = mono
       \/ mono' = mono + 1 /\ mono < MaxTime /\ wall' = wall
    /\ revealed' = Absent
    /\ UNCHANGED <<lastWall, lastMono, cipher, maps, mapBytes, issued>>

(* Handles a caller may show: its own, or one with another time or run. *)
Shown ==
    {i.handle : i \in issued}
      \cup {[i.handle EXCEPT !.expires_at = @ + 1] : i \in issued}
      \cup {[i.handle EXCEPT !.run = r] : i \in issued, r \in VaultRuns}

VaultNext ==
    \/ \E job \in Jobs, run \in VaultRuns, p \in Writers \cup Strangers, ttl \in 1..(MaxTtl + 1) :
          PutMap(job, run, p, ttl)
    \/ PutTooLate \/ PurgeExpired \/ CloseVault \/ VaultClock
    \/ \E handle \in Shown, run \in VaultRuns :
          \/ \E p \in Readers \cup Strangers : GetMap(handle, run, p)
          \/ \E p \in Writers \cup Strangers : DiscardMap(handle, run, p)
    \/ \E key \in Keys : RotateKey(key)

VaultSpec == VaultInit /\ [][VaultNext]_vaultVars

-----------------------------
(* Properties. *)

(* The byte counter is the sum of what is stored and stays in its limit,    *)
(* whichever of the six ways an entry left by (put's purge, an expired get, *)
(* discard, purge_expired, rotate_key, close).                              *)
BytesAddUp ==
    /\ mapBytes = SizeOf(maps) /\ mapBytes <= MaxBytes
    /\ Cardinality(maps) <= MaxMaps

(* What get reveals is what was put under that very handle, with the key    *)
(* that is still in force, for its run, to a reader, before both clocks are *)
(* over - and it restores exactly the text that was masked.                 *)
RevealedRightly ==
    revealed # Absent =>
      \E i \in issued :
         /\ i.handle = revealed.handle /\ i.key = cipher
         /\ revealed.principal \in Readers
         /\ wall < i.handle.expires_at
         /\ \E m \in maps : m.handle = i.handle /\ mono < m.deadline
         /\ Restored(i.out, revealed.map) = i.job.text

(* Nothing a finding covers is left in a masked text, and nothing else is   *)
(* lost: the characters that stay are those no finding touches, in order,   *)
(* however the findings overlap (redaction.py _spans, mask).                *)
Untouched(text, found) == {k \in DOMAIN text : \A f \in found : k <= f[1] \/ k > f[2]}
Letters(out) == {n \in DOMAIN out : out[n].token = 0}

HidesIn(out, text, found) ==
    LET bare == Untouched(text, found)
        left == Letters(out)
    IN  /\ Cardinality(left) = Cardinality(bare)
        /\ \A n \in left, k \in bare :
             Cardinality({m \in left : m <= n}) = Cardinality({j \in bare : j <= k})
               => out[n].char = text[k]

MaskHides == \A i \in issued : HidesIn(i.out, i.job.text, i.job.found)

(* What a map is for, from the text that is masked to the text that is      *)
(* restored, and the room it takes meanwhile.                               *)
MapsAreKept == BytesAddUp /\ RevealedRightly /\ MaskHides
=============================================================================
