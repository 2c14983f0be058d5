------------------------------ MODULE JournalFile ------------------------------
(********************************************************************************)
(* The journal (journal.cpp): one file, appended to, recovered by a scan,       *)
(* truncated at a torn tail, replaced by compaction.                            *)
(*                                                                              *)
(* The file is a sequence of cells.  A record occupies as many cells as its     *)
(* payload needs, the first one holding the declared length and the sequence    *)
(* number, the last one the digest and the trailer; the file header is a record *)
(* of its own.  A cell knows the record it was written for, so a digest check   *)
(* succeeds exactly when all cells of one record are in place.  What a scan     *)
(* makes of the middle of a record, where a length prefix should be, depends on *)
(* the payload: every outcome the code has for it is possible.                  *)
(*                                                                              *)
(* flushed is the number of leading cells that survive whatever happens.  A     *)
(* crash keeps a prefix of the rest; directory entries are durable.             *)
(********************************************************************************)
EXTENDS Naturals, Sequences, FiniteSetsExt

CONSTANTS
  Payloads,        \* what callers append
  Length,          \* [Payloads -> cells of the record]
  Modes,           \* of JournalOpenMode
  MaxPayload,      \* options.max_payload_bytes, in cells of a record
  MaxBytes,        \* options.max_bytes, in cells
  MaxRecords,      \* options.max_records
  MaxGenerations   \* bound on replacements of the history

HeaderLen == 2

ASSUME LengthAssumption == Length \in [Payloads -> Nat \ {0, 1}]
ASSUME ModesAssumption ==
  Modes \subseteq {"ReadOnlyExisting", "OpenOrCreateReadWrite", "CreateTruncating"}
ASSUME BoundsAssumption ==
  /\ MaxPayload \in Nat /\ MaxBytes \in Nat /\ MaxRecords \in Nat /\ MaxGenerations \in Nat

VARIABLES
  file,            \* what a read returns
  flushed,         \* leading cells that survive a crash
  generation,      \* replacements of the history so far
  acked,           \* appends reported a success since the last replacement
  faulted,         \* whether a write, flush, truncation or rename has failed
  handle,          \* handle_: "none", "ro" or "rw"
  size_bytes,      \* where the next append writes
  next_sequence,
  good_bytes,      \* recovery_.good_bytes
  writable         \* recovery_.writable

history == <<acked, generation, faulted>>
disk    == <<file, flushed, history>>
journal == <<handle, size_bytes, next_sequence, good_bytes, writable>>
vars    == <<disk, journal>>

(********************************************************************************)
(* File operations and formats.                                                 *)
(********************************************************************************)
Cells(p, seq, len) == [i \in 1..len |-> [p |-> p, seq |-> seq, len |-> len, i |-> i]]
MakeHeader         == Cells("header", 0, HeaderLen)
MakeRecord(p, seq) == Cells(p, seq, Length[p])

\* FileOps::write_at, of which the first n cells are done.
WriteAt(f, at, cells, n) ==
  [k \in 1..Max({Len(f), at + n}) |-> IF k > at /\ k <= at + n THEN cells[k - at] ELSE f[k]]

Truncate(f, n) == SubSeq(f, 1, n)

(********************************************************************************)
(* The record scan of Journal::open.                                            *)
(********************************************************************************)
StartsRecord(f, o) == f[o + 1].i = 1
Fits(f, o)         == o + f[o + 1].len <= Len(f)
Verified(f, o)     == \A k \in 1..f[o + 1].len : f[o + k] = [f[o + 1] EXCEPT !.i = k]
PreviousSeq(f, o)  == IF o = HeaderLen THEN 0 ELSE f[o].seq

\* What stops the scan at offset o, {} when the record there is good.
Stopped(f, o, records) ==
  IF records >= MaxRecords THEN {"BoundsExceeded"}
  ELSE IF ~StartsRecord(f, o) THEN {"TornTailRecovered", "CorruptRecord", "BoundsExceeded"}
  ELSE IF ~Fits(f, o) THEN {"TornTailRecovered"}
  ELSE IF ~Verified(f, o) THEN {"CorruptRecord"}
  ELSE IF records # 0 /\ f[o + 1].seq <= PreviousSeq(f, o) THEN {"CorruptRecord"}
  ELSE {}

\* Good records are passed until the end or something that is none: the good bytes, and
\* the payloads in them, from offset o where n records have been passed.
Scan(f) ==
  LET from[n \in 0..MaxRecords] ==
        [o \in HeaderLen..Len(f) |->
           IF o = Len(f) \/ Stopped(f, o, n) # {} THEN [good |-> o, records |-> <<>>]
           ELSE LET rest == from[n + 1][o + f[o + 1].len]
                IN  [good |-> rest.good, records |-> <<f[o + 1].p>> \o rest.records]]
  IN  from[0][HeaderLen]

\* What the scan reports, by where it ended.
Outcomes(f, s) ==
  IF s.good < Len(f) THEN Stopped(f, s.good, Len(s.records))
  ELSE IF s.records = <<>> THEN {"Empty"} ELSE {"Clean"}
Recovery(f) == Outcomes(f, Scan(f))

\* The payloads of the good prefix.
History(f) == IF Len(f) < HeaderLen THEN <<>> ELSE Scan(f).records

\* Journal::load: up to good_bytes, which append does not move.
Load == History(Truncate(file, good_bytes))

(********************************************************************************)
(* Journal::open                                                                *)
(********************************************************************************)
Init ==
  /\ file = <<>> /\ flushed = 0 /\ generation = 0 /\ acked = 0 /\ faulted = FALSE
  /\ handle = "none" /\ size_bytes = 0 /\ next_sequence = 1 /\ good_bytes = 0 /\ writable = FALSE

HandleFor(mode) == IF mode = "ReadOnlyExisting" THEN "ro" ELSE "rw"

\* A truncating open of a journal with content replaces its history.
Replaces(mode) == mode = "CreateTruncating" /\ file # <<>>
CountsReplacement(mode) ==
  /\ Replaces(mode) => generation < MaxGenerations
  /\ generation' = generation + (IF Replaces(mode) THEN 1 ELSE 0)
  /\ acked' = IF Replaces(mode) THEN 0 ELSE acked
  /\ UNCHANGED faulted

\* An empty or truncated file gets a header.
OpenFresh(mode) ==
  /\ file = <<>> \/ mode = "CreateTruncating"
  /\ mode # "ReadOnlyExisting"
  /\ CountsReplacement(mode)
  /\ file' = MakeHeader
  /\ flushed' = HeaderLen
  /\ handle' = "rw"
  /\ size_bytes' = HeaderLen /\ next_sequence' = 1 /\ good_bytes' = HeaderLen /\ writable' = TRUE

\* The header is cut short by an error or a crash; the handle is released.
OpenFreshFails(mode) ==
  /\ file = <<>> \/ mode = "CreateTruncating"
  /\ mode # "ReadOnlyExisting"
  /\ CountsReplacement(mode)
  /\ \E n \in 0..HeaderLen : file' = WriteAt(<<>>, 0, MakeHeader, n)
  /\ flushed' = 0
  /\ UNCHANGED journal

\* A file shorter than the header is never rewritten.
OpenShort(mode) ==
  /\ file # <<>> /\ Len(file) < HeaderLen
  /\ mode # "CreateTruncating"
  /\ handle' = HandleFor(mode)
  /\ size_bytes' = 0 /\ next_sequence' = 1 /\ good_bytes' = 0 /\ writable' = FALSE
  /\ UNCHANGED disk

RecoveredEarly(s, mode) ==
  /\ handle' = HandleFor(mode)
  /\ good_bytes' = IF Len(s.records) > 1 THEN s.good - file[s.good].len ELSE s.good
  /\ next_sequence' = PreviousSeq(file, s.good) + 1

Recovered(s, mode) ==
  /\ handle' = HandleFor(mode)
  /\ good_bytes' = s.good
  /\ next_sequence' = PreviousSeq(file, s.good) + 1

OpenScanned(mode) ==
  /\ Len(file) >= HeaderLen /\ mode # "CreateTruncating"
  /\ \E outcome \in Recovery(file) :
       /\ mode = "ReadOnlyExisting" \/ outcome # "TornTailRecovered"
       /\ writable' = (mode = "OpenOrCreateReadWrite" /\ outcome \in {"Clean", "Empty"})
  /\ Recovered(Scan(file), mode)
  /\ size_bytes' = Len(file)
  /\ UNCHANGED disk

OpenTornKept(mode) ==
  /\ Len(file) >= HeaderLen /\ mode = "OpenOrCreateReadWrite"
  /\ "TornTailRecovered" \in Recovery(file)
  /\ Recovered(Scan(file), mode)
  /\ size_bytes' = Scan(file).good
  /\ writable' = TRUE
  /\ UNCHANGED disk

\* The torn tail is discarded.
OpenTorn(mode) ==
  /\ Len(file) >= HeaderLen /\ mode = "OpenOrCreateReadWrite"
  /\ "TornTailRecovered" \in Recovery(file)
  /\ Recovered(Scan(file), mode)
  /\ file' = Truncate(file, Scan(file).good)
  /\ flushed' = Scan(file).good
  /\ size_bytes' = Scan(file).good
  /\ writable' = TRUE
  /\ UNCHANGED history

\* The truncation or its flush fails.
OpenTornFails(mode) ==
  /\ Len(file) >= HeaderLen /\ mode = "OpenOrCreateReadWrite"
  /\ "TornTailRecovered" \in Recovery(file)
  /\ Recovered(Scan(file), mode)
  /\ file' \in {file, Truncate(file, Scan(file).good)}
  /\ flushed' = Min({flushed, Scan(file).good})
  /\ size_bytes' = Len(file)
  /\ writable' = FALSE
  /\ faulted' = TRUE
  /\ UNCHANGED <<acked, generation>>

Open(mode) ==
  /\ handle = "none"
  /\ \/ OpenFresh(mode) \/ OpenFreshFails(mode) \/ OpenShort(mode)
     \/ OpenScanned(mode) \/ OpenTorn(mode) \/ OpenTornFails(mode)

(********************************************************************************)
(* Journal::append, flush, close                                                *)
(********************************************************************************)
MayAppend(p) ==
  /\ handle # "none"
  /\ writable
  /\ Length[p] <= MaxPayload
  /\ size_bytes + Length[p] <= MaxBytes

AppendUnflushed(p) ==
  /\ MayAppend(p)
  /\ file' = WriteAt(file, size_bytes, MakeRecord(p, next_sequence), Length[p])
  /\ size_bytes' = size_bytes + Length[p]
  /\ next_sequence' = next_sequence + 1
  /\ acked' = acked + 1
  /\ UNCHANGED <<flushed, generation, faulted, handle, good_bytes, writable>>

AppendRecord(p) ==
  /\ MayAppend(p)
  /\ file' = WriteAt(file, size_bytes, MakeRecord(p, next_sequence), Length[p])
  /\ size_bytes' = size_bytes + Length[p]
  /\ flushed' = size_bytes'
  /\ next_sequence' = next_sequence + 1
  /\ acked' = acked + 1
  /\ UNCHANGED <<generation, faulted, handle, good_bytes, writable>>

\* The write stops after some cells, or the flush fails after all of them.
Interrupted(p) ==
  /\ MayAppend(p)
  /\ \E n \in 0..Length[p] :
       file' = WriteAt(file, size_bytes, MakeRecord(p, next_sequence), n)
  /\ flushed' = Min({flushed, size_bytes})
  /\ UNCHANGED <<acked, generation>>

AppendFails(p) == Interrupted(p) /\ faulted' = TRUE /\ UNCHANGED journal

Flush ==
  /\ handle # "none"
  /\ flushed' = Len(file)
  /\ UNCHANGED <<file, history, journal>>

Release == handle' = "none" /\ UNCHANGED <<size_bytes, next_sequence, good_bytes, writable>>

Close ==
  /\ handle # "none"
  /\ \/ flushed' = Len(file) /\ UNCHANGED faulted
     \/ UNCHANGED flushed /\ faulted' = TRUE
  /\ Release
  /\ UNCHANGED <<file, acked, generation>>

(********************************************************************************)
(* Journal::compact: the records it is given, renumbered, in a sibling file     *)
(* that replaces the original.  Writable or not, read-only or not.              *)
(********************************************************************************)
Compacted(records) ==
  LET image[n \in 0..Len(records)] ==
        IF n = 0 THEN MakeHeader ELSE image[n - 1] \o MakeRecord(records[n], n)
  IN  image[Len(records)]

MayCompact(records) ==
  /\ handle # "none"
  /\ Len(records) <= MaxRecords
  /\ Len(Compacted(records)) <= MaxBytes

Compact(records) ==
  /\ MayCompact(records)
  /\ generation < MaxGenerations
  /\ generation' = generation + 1
  /\ acked' = 0
  /\ file' = Compacted(records)
  /\ flushed' = Len(file')
  /\ \/ /\ handle' = "rw"
        /\ size_bytes' = Len(file')
        /\ good_bytes' = Len(file')
        /\ next_sequence' = Len(records) + 1
        /\ writable' = TRUE
        /\ UNCHANGED faulted
     \/ Release /\ faulted' = TRUE

\* The rename fails: the original stays and the handle is gone.
CompactNotReplaced(records) ==
  /\ MayCompact(records)
  /\ Release
  /\ faulted' = TRUE
  /\ UNCHANGED <<file, flushed, acked, generation>>

(********************************************************************************)
(* A crash of the process or of the machine, also in the middle of an append.   *)
(********************************************************************************)
Gone == /\ handle' = "none"
        /\ size_bytes' = 0 /\ next_sequence' = 1 /\ good_bytes' = 0 /\ writable' = FALSE

Crash ==
  /\ \E n \in flushed..Len(file) : file' = Truncate(file, n)
  /\ Gone
  /\ UNCHANGED <<flushed, history>>

CrashInAppend(p) == Interrupted(p) /\ Gone /\ UNCHANGED faulted

\* What the callers compact to: the newest of the records they loaded.
Kept == IF handle = "none" THEN {} ELSE {SubSeq(Load, n, Len(Load)) : n \in 1..Len(Load) + 1}

Next ==
  \/ \E mode \in Modes : Open(mode)
  \/ \E p \in Payloads : AppendRecord(p) \/ AppendFails(p) \/ CrashInAppend(p)
  \/ \E records \in Kept : Compact(records) \/ CompactNotReplaced(records)
  \/ Flush \/ Close \/ Crash

Spec == Init /\ [][Next]_vars

(********************************************************************************)
(* Properties.                                                                  *)
(********************************************************************************)
\* The cells that count as history: in an open, writable journal a record beyond
\* size_bytes is going to be overwritten, even when it was flushed.
Settled == IF handle # "none" /\ writable THEN Min({flushed, size_bytes}) ELSE flushed
DurableLog == History(Truncate(file, Settled))
Pending    == SubSeq(History(file), Len(DurableLog) + 1, Len(History(file)))

L == INSTANCE Log WITH log <- DurableLog, pending <- Pending

\* The journal implements the abstract log (journal.hpp: "append-only persistence"):
\* across crashes, failed writes, recoveries and compactions the acknowledged
\* history only grows at its end or is replaced as a whole.
ImplementsLog == L!Spec

\* Opening for writing serves what the file holds (open, then load): every
\* acknowledged record in order, then complete records only.
RecoveredIsServed ==
  [][handle = "none" /\ handle' = "rw" /\ writable' /\ generation' = generation =>
       Load' = DurableLog \o Pending]_vars

\* Without I/O errors a crash costs at most the record being written
\* (persistence.md: a torn tail is truncated "back to the last complete record"):
\* the scan of a file that has its header ends in a writable outcome.  After a failed
\* append it may not: the rest of a longer record stays behind a shorter one.
CrashLeavesWritable ==
  ~faulted /\ handle = "none" /\ Len(file) >= HeaderLen =>
    Recovery(file) \subseteq {"Empty", "Clean", "TornTailRecovered"}
================================================================================
