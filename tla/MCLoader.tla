------------------------------ MODULE MCLoader ------------------------------
(***************************************************************************)
(* Small instances of Loader: which attempt loads which run, under which   *)
(* key, on which instance, into which tables.  The set of setups is closed *)
(* under permutations of the attempts, so that these are a symmetry.       *)
(***************************************************************************)
EXTENDS Loader, TLC

CONSTANTS r1, r2, k1, k2, i1, i2, a1, a2, a3

MCSpec ==
    [expires_at |-> 1, normalized |-> <<<<"a">>>>, batch_count |-> 1,
     record_count |-> 1,
     references |-> {[kind |-> "normalized", retained_until |-> 2]}]

MCSpecOf == [r \in Runs |-> MCSpec]

SameData  == [r \in Runs |-> 1]
OtherData == [r \in Runs |-> IF r = r1 THEN 1 ELSE 2]

(* One run is loaded again and again under one key. *)
Retry ==
    [attempts |-> Attempts, run |-> [a \in Attempts |-> r1], key |-> [a \in Attempts |-> k1],
     instance |-> [a \in Attempts |-> i1], tables |-> [a \in Attempts |-> {1}],
     binding |-> SameData, stoppable |-> {r1}, last |-> 0]

Pair == {a1, a2}

Second(x, y) == [a \in Attempts |-> IF a = a2 THEN y ELSE x]

(* The same data staged twice and loaded under one key. *)
TwoRuns == [Retry EXCEPT !.attempts = Pair, !.run = Second(r1, r2)]

(* One key for different data. *)
TwoDatasets == [TwoRuns EXCEPT !.binding = OtherData, !.stoppable = {}]

(* One run under two keys; it expires. *)
TwoKeys == [Retry EXCEPT !.attempts = Pair, !.key = Second(k1, k2), !.last = 1]

(* Without a ledger: two runs on one instance, one run on two, and two runs *)
(* into the same two tables.                                                *)
OneLoader  == [TwoRuns EXCEPT !.key = [a \in Attempts |-> None]]
TwoLoaders == [OneLoader EXCEPT !.run = Retry.run, !.instance = Second(i1, i2)]
TwoTables  == [TwoLoaders EXCEPT !.run = TwoRuns.run, !.tables = [a \in Attempts |-> {1, 2}]]

Permuted(s, p) ==
    [s EXCEPT !.attempts = {a \in Attempts : p[a] \in s.attempts},
              !.run = [a \in Attempts |-> s.run[p[a]]], !.key = [a \in Attempts |-> s.key[p[a]]],
              !.instance = [a \in Attempts |-> s.instance[p[a]]],
              !.tables = [a \in Attempts |-> s.tables[p[a]]]]

Symmetry == Permutations(Attempts)

AllSetups ==
    {Permuted(s, p) : s \in {Retry, TwoRuns, TwoDatasets, TwoKeys, TwoTables, OneLoader, TwoLoaders},
                      p \in Symmetry}
=============================================================================
