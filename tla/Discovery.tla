----------------------------- MODULE Discovery -----------------------------
(***************************************************************************)
(* discover_parser_plugins of parsers/discovery.py: the metadata files of  *)
(* the allowed distributions are read, without importing anything, while   *)
(* an installer may rewrite them, and what they claim is sorted out.       *)
(*                                                                         *)
(* A file is an inode with the pieces it holds, the time of its last       *)
(* change and its kind; the directory maps a name to an inode.  Two        *)
(* changes of an inode differ in their times.                              *)
(***************************************************************************)
EXTENDS Integers, FiniteSets, SequencesExt

CONSTANTS
    Inodes, Pieces,     \* a piece is what one os.read returns
    MaxPieces,          \* the byte limit, in pieces
    MaxFileTime,        \* bound: changes of the files
    NoFile,
    MaxEntries,         \* ParserDiscoveryPolicy.max_entries
    MaxPerDistribution, \* _MAX_ENTRY_POINTS_PER_DISTRIBUTION
    Installations       \* what the distributions may claim, see below

(* An installation is a list of distributions, each with a list of entries. *)
ASSUME DiscoveryAssumption ==
    /\ MaxPieces \in Nat
    /\ \A ds \in Installations :
         /\ ds \in Seq({ds[i] : i \in DOMAIN ds})
         /\ \A i \in DOMAIN ds :
              ds[i].entries \in Seq({ds[i].entries[k] : k \in DOMAIN ds[i].entries})

VARIABLES
    inode, dir, filetime,   \* the file system
    seenAs,                 \* what an inode has held so far, for the properties
    read,                   \* the reader of one file
    installed               \* the distributions, in the order of the policy

discoveryVars == <<inode, dir, filetime, seenAs, read, installed>>

NewRead == [pc |-> "stat", header |-> FALSE, expected |-> NoFile, fd |-> NoFile,
            before |-> NoFile, got |-> <<>>, result |-> "none"]

DiscoveryInit ==
    /\ inode \in {f \in [Inodes -> [kind : {"regular", "link"}, time : {0},
                                     holds : UNION {[1..n -> Pieces] : n \in 0..(MaxPieces + 1)}]] :
                    \A i \in Inodes : f[i].kind = "link" => f[i].holds = <<>>}
    /\ dir \in Inodes \cup {NoFile} /\ filetime = 0
    /\ seenAs = [i \in Inodes |-> {inode[i].holds}]
    /\ \E header \in BOOLEAN : read = [NewRead EXCEPT !.header = header]
    /\ installed \in Installations

-----------------------------
(* The file system: a file is written in place, or another takes its name. *)

WriteInPlace(i, holds) ==
    /\ filetime < MaxFileTime /\ inode[i].kind = "regular"
    /\ filetime' = filetime + 1
    /\ inode' = [inode EXCEPT ![i].holds = holds, ![i].time = filetime']
    /\ seenAs' = [seenAs EXCEPT ![i] = @ \cup {holds}]
    /\ UNCHANGED <<dir, read, installed>>

Rename(i) ==
    /\ filetime < MaxFileTime /\ filetime' = filetime + 1
    /\ dir' = i /\ UNCHANGED <<inode, seenAs, read, installed>>

-----------------------------
(* _read_bounded_metadata_file, one system call after the other. *)

ReadStops(why) == read' = [read EXCEPT !.pc = "done", !.result = why]

TooBig(i) == ~read.header /\ Len(inode[i].holds) > MaxPieces

Stat ==
    /\ read.pc = "stat"
    /\ IF dir = NoFile THEN ReadStops("missing")
       ELSE IF inode[dir].kind # "regular" THEN ReadStops("metadata_path_unsafe")
       ELSE IF TooBig(dir) THEN ReadStops("size_limit")
       ELSE read' = [read EXCEPT !.pc = "open", !.expected = dir]
    /\ UNCHANGED <<inode, dir, filetime, seenAs, installed>>

Open ==
    /\ read.pc = "open"
    /\ IF dir = NoFile THEN ReadStops("metadata_changed_during_read")
       ELSE IF inode[dir].kind # "regular" THEN ReadStops("metadata_path_unsafe")
       ELSE read' = [read EXCEPT !.pc = "fstat", !.fd = dir]
    /\ UNCHANGED <<inode, dir, filetime, seenAs, installed>>

FileStatus(i) == [ino |-> i, size |-> Len(inode[i].holds), time |-> inode[i].time]

FstatBefore ==
    /\ read.pc = "fstat"
    /\ IF read.fd # read.expected THEN ReadStops("metadata_changed_during_read")
       ELSE IF TooBig(read.fd) THEN ReadStops("size_limit")
       ELSE read' = [read EXCEPT !.pc = "read", !.before = FileStatus(read.fd)]
    /\ UNCHANGED <<inode, dir, filetime, seenAs, installed>>

(* One os.read: up to a piece more than allowed, and of a header no further  *)
(* than its blank line.                                                      *)
ReadPiece ==
    /\ read.pc = "read"
    /\ LET at   == Len(read.got) + 1
           more == at <= Len(inode[read.fd].holds)
           got  == IF more THEN Append(read.got, inode[read.fd].holds[at]) ELSE read.got
           full == Len(got) > MaxPieces
           ends == read.header /\ more /\ Last(got) = "blank"
       IN  IF full THEN ReadStops("size_limit")
           ELSE read' = [read EXCEPT !.got = got, !.pc = IF more /\ ~ends THEN "read" ELSE "fstat again"]
    /\ UNCHANGED <<inode, dir, filetime, seenAs, installed>>

ReadUnreadable ==
    /\ read.pc \in {"fstat", "read", "fstat again"} /\ ReadStops("metadata_file_unreadable")
    /\ UNCHANGED <<inode, dir, filetime, seenAs, installed>>

(* Slip: it is the same file if it has the same inode and size. *)
Unchanged_SizeOnly(i) == FileStatus(i).ino = read.before.ino /\ FileStatus(i).size = read.before.size

Unchanged(i) == FileStatus(i) = read.before

FstatAfter ==
    /\ read.pc = "fstat again"
    /\ ReadStops(IF Unchanged(read.fd) THEN "ok" ELSE "metadata_changed_during_read")
    /\ UNCHANGED <<inode, dir, filetime, seenAs, installed>>

-----------------------------
(* What the files say.  An installation is a sequence of [name, state,       *)
(* entries]; state is "ok" or why the metadata cannot be used; an entry is   *)
(* [group, id, target], id or target 0 when it has no permitted form.        *)

Failure(d, id, reason) == [distribution |-> d, id |-> id, reason |-> reason]

(* _parse_entry_point. *)
Bad(e) == e.group = "parsers" /\ (e.id = 0 \/ e.target = 0)
Candidate(d, e) == [id |-> e.id, distribution |-> d, target |-> e.target]

(* The candidates of a distribution, and what is wrong with it. *)
Readable(x) == x.state = "ok" /\ Len(x.entries) <= MaxPerDistribution

(* An entry may be there more than once, so candidates are [of, entry]. *)
CandidatesOf(ds) ==
    UNION {{[at |-> <<i, k>>, is |-> Candidate(ds[i].name, ds[i].entries[k])] :
              k \in {k \in DOMAIN ds[i].entries :
                       ds[i].entries[k].group = "parsers" /\ ~Bad(ds[i].entries[k])}} :
            i \in {i \in DOMAIN ds : Readable(ds[i])}}

Rejected(ds) ==
    {Failure(ds[i].name, 0, IF ds[i].state # "ok" THEN ds[i].state ELSE "distribution_entry_limit_exceeded") :
        i \in {i \in DOMAIN ds : ~Readable(ds[i])}}
    \cup UNION {{Failure(ds[i].name, ds[i].entries[k].id,
                         IF ds[i].entries[k].id = 0 THEN "adapter_id_format" ELSE "target_format") :
                   k \in {k \in DOMAIN ds[i].entries : Bad(ds[i].entries[k])}} :
                 i \in {i \in DOMAIN ds : Readable(ds[i])}}

(* _remove_duplicate_claims: who claims what another claims gets nothing,    *)
(* first by identifier, then by target.                                      *)
SharesId(cs) == {c \in cs : \E d \in cs \ {c} : d.is.id = c.is.id}
SharesTarget(cs) == {c \in cs : \E d \in cs \ {c} : d.is.target = c.is.target}

Unique(cs) == (cs \ SharesId(cs)) \ SharesTarget(cs \ SharesId(cs))

(* The report: the first max_entries in the order of their identifiers. *)
Accepted(ds) ==
    LET rest == Unique(CandidatesOf(ds))
    IN  {c.is : c \in {c \in rest :
                  Cardinality({d \in rest : d.is.id < c.is.id}) < MaxEntries}}

ReportOf(ds) ==
    LET all  == CandidatesOf(ds)
        ids  == SharesId(all)
        rest == Unique(all)
    IN  [descriptors |-> Accepted(ds),
         failures |-> Rejected(ds)
           \cup {Failure(c.is.distribution, c.is.id, "duplicate_adapter_id") : c \in ids}
           \cup {Failure(c.is.distribution, c.is.id, "duplicate_target") : c \in SharesTarget(all \ ids)}
           \cup {Failure(c.is.distribution, c.is.id, "entry_limit_exceeded") :
                   c \in {c \in rest : c.is \notin Accepted(ds)}}]

-----------------------------
FileContents == UNION {[1..n -> Pieces] : n \in 0..MaxPieces}

DiscoveryNext ==
    \/ (\E i \in Inodes, h \in FileContents : WriteInPlace(i, h))
    \/ (\E i \in Inodes \cup {NoFile} : Rename(i))
    \/ Stat \/ Open \/ FstatBefore \/ ReadPiece \/ ReadUnreadable \/ FstatAfter

DiscoverySpec == DiscoveryInit /\ [][DiscoveryNext]_discoveryVars

(* What was read, in however many pieces, is what one file held at one       *)
(* moment - all of it, or up to the blank line - though it was rewritten or  *)
(* replaced meanwhile.                                                       *)
OneRevision ==
    read.result = "ok" =>
        \E holds \in seenAs[read.fd] :
            IF read.header /\ read.got # <<>> /\ Last(read.got) = "blank" THEN IsPrefix(read.got, holds)
            ELSE read.got = holds

(* Who is accepted does not depend on the order of the policy, one           *)
(* identifier or target is never accepted twice, and nobody takes over an    *)
(* identifier by claiming it, too: a second claim leaves both without it. It *)
(* may so free a target or a place among the first max_entries for a third,  *)
(* but whoever is accepted for an identifier with the claim is the one that  *)
(* would be accepted for it without.                                         *)
ClaimsAreFair ==
    /\ ReportOf(Reverse(installed)) = ReportOf(installed)
    /\ \A c, d \in Accepted(installed) : c # d => c.id # d.id /\ c.target # d.target
    /\ \A i \in DOMAIN installed :
         LET without == RemoveAt(installed, i)
         IN  \A c \in Accepted(installed) : ~\E d \in Accepted(without) : d.id = c.id /\ d # c

DiscoveryIsSound == OneRevision /\ ClaimsAreFair
=============================================================================
