---------------------------- MODULE SessionLedger ----------------------------
(***************************************************************************)
(* SessionLedger of storage/session_jsonl.py over crashes and failed       *)
(* writes.  The file is a sequence of lines.  A line holds what writes     *)
(* have put between two newlines: one entry's JSON text, a part of it, or, *)
(* when a write found the file not ending in a newline, several pieces.    *)
(* Entries are numbered in the order append() is called.                   *)
(***************************************************************************)
EXTENDS Naturals, Sequences, SequencesExt

CONSTANTS
    CrashCuts,      \* how much of a line a crash during its write may leave
    FailureCuts,    \* the same for a write that raises
    MaxEntries, MaxCrashes, MaxFailures

(* How much of the line is in the file, without its newline but for        *)
(* "whole": nothing, text that ends at a character boundary, text that     *)
(* ends within a multi-byte character, the complete JSON text.             *)
Extents == {"nothing", "text", "character", "json", "whole"}

ASSUME CutsAssumption == CrashCuts \subseteq Extents /\ FailureCuts \subseteq Extents

ASSUME BoundsAssumption ==
    MaxEntries \in Nat /\ MaxCrashes \in Nat /\ MaxFailures \in Nat

VARIABLES
    file,           \* the lines on disk
    entries,        \* SessionLedger.entries, by number
    status,         \* "closed", "open", "writing", or "failed": __init__ raised
    appended,       \* calls of append() so far
    raised,         \* the calls that raised in this process: their callers know
    crashes, failures

vars == <<file, entries, status, appended, raised, crashes, failures>>

Init ==
    /\ file = <<>>
    /\ entries = <<>>
    /\ status = "closed"
    /\ appended = 0 /\ raised = {}
    /\ crashes = 0 /\ failures = 0

-----------------------------------------------------------------------------
(* _read_existing                                                          *)

Piece(entry, extent) == [entry |-> entry, extent |-> extent]

Parses(line) == Len(line.pieces) = 1 /\ line.pieces[1].extent = "json"

(* json.loads decodes the bytes first: a torn character is no              *)
(* JSONDecodeError.                                                        *)
Decodes(line) == \A i \in DOMAIN line.pieces : line.pieces[i].extent # "character"

IsPartialFinal(lines, i) == i = Len(lines) /\ ~lines[i].ended /\ Decodes(lines[i])

CanOpen(lines) == \A i \in DOMAIN lines : Parses(lines[i]) \/ IsPartialFinal(lines, i)

(* Variant: the partial line is skipped but left in the file.              *)
NotTruncated(lines) == lines

(* The lines whose entries are kept: all, or all but a partial last one.   *)
Readable(lines) ==
    IF lines # <<>> /\ ~Parses(lines[Len(lines)]) THEN Front(lines) ELSE lines

Truncated(lines) == Readable(lines)

Numbers(lines) == [i \in DOMAIN lines |-> lines[i].pieces[1].entry]

EntriesIn(lines) == Numbers(Readable(lines))

-----------------------------------------------------------------------------
(* append                                                                  *)

(* What a write that left this much of an entry makes of the file.  The    *)
(* stream is opened in append mode: a line without newline is continued.   *)
Written(entry, extent) ==
    LET ended == extent = "whole"
        piece == Piece(entry, IF ended THEN "json" ELSE extent)
        line == [pieces |-> <<piece>>, ended |-> ended]
        last == file[Len(file)]
    IN CASE extent = "nothing" -> file
         [] extent # "nothing" /\ file # <<>> /\ ~last.ended ->
                Append(Front(file),
                       [pieces |-> Append(last.pieces, piece), ended |-> ended])
         [] OTHER -> Append(file, line)

(* __init__: a file without entries is given its session entry.            *)
Open ==
    /\ status = "closed"
    /\ IF CanOpen(file)
         THEN /\ file' = Truncated(file)
              /\ entries' = EntriesIn(file')
              /\ IF entries' # <<>>
                   THEN status' = "open" /\ UNCHANGED appended
                   ELSE /\ appended < MaxEntries
                        /\ status' = "writing" /\ appended' = appended + 1
         ELSE /\ status' = "failed"
              /\ UNCHANGED <<file, entries, appended>>
    /\ UNCHANGED <<raised, crashes, failures>>

BeginAppend ==
    /\ status = "open"
    /\ appended < MaxEntries
    /\ appended' = appended + 1
    /\ status' = "writing"
    /\ UNCHANGED <<file, entries, raised, crashes, failures>>

(* Variant: the entry is not added to the list.                            *)
EntriesForgotten == entries

EntriesAppended == Append(entries, appended)

(* write, flush and fsync have returned.                                   *)
Synced ==
    /\ status = "writing"
    /\ file' = Written(appended, "whole")
    /\ entries' = EntriesAppended
    /\ status' = "open"
    /\ UNCHANGED <<appended, raised, crashes, failures>>

(* One of them raises (a full disk), with any part of the line written;    *)
(* the caller goes on.  An append of __init__ ends the program instead.    *)
AppendFails ==
    /\ status = "writing"
    /\ failures < MaxFailures
    /\ failures' = failures + 1
    /\ \E cut \in FailureCuts : file' = Written(appended, cut)
    /\ IF entries = <<>>
         THEN status' = "closed" /\ raised' = {}
         ELSE status' = "open" /\ raised' = raised \cup {appended}
    /\ UNCHANGED <<entries, appended, crashes>>

(* The process or the machine stops: what has been synced stays, of what   *)
(* is being written any part CrashCuts allows.                              *)
Crash ==
    /\ status \in {"open", "writing"}
    /\ crashes < MaxCrashes
    /\ crashes' = crashes + 1
    /\ IF status = "writing"
         THEN \E cut \in CrashCuts \cup {"whole"} : file' = Written(appended, cut)
         ELSE UNCHANGED file
    /\ entries' = <<>> /\ raised' = {}
    /\ status' = "closed"
    /\ UNCHANGED <<appended, failures>>

(* Nothing more to append, or no way to go on.                             *)
Rest ==
    /\ status = "failed" \/ appended = MaxEntries
    /\ UNCHANGED vars

Next == Open \/ BeginAppend \/ Synced \/ AppendFails \/ Crash \/ Rest

Spec == Init /\ [][Next]_vars

-----------------------------------------------------------------------------

(* What stands before the last newline, and what a reader has of it.       *)
Unended == file # <<>> /\ ~file[Len(file)].ended

EndedLines == IF Unended THEN Front(file) ELSE file

Sound == \A i \in DOMAIN EndedLines : Parses(EndedLines[i])

Unreadable == <<0>>

(* An open ledger continues an unended line; a closed one does so when it  *)
(* has read an entry from it, and cuts it off or fails to open otherwise.  *)
Ending ==
    CASE ~Unended -> "clean"
      [] Unended /\ (status \in {"open", "writing"} \/ Parses(file[Len(file)])) -> "loose"
      [] OTHER -> "cut"

Log == INSTANCE DurableLog WITH
            log <- IF Sound THEN Numbers(EndedLines) ELSE Unreadable,
            ending <- Ending

(* session_jsonl.py:68, "append-only durable": however often the program   *)
(* is stopped or an append raises, and whatever of its line that leaves,   *)
(* the complete lines only grow, by one entry at a time.  Text left by a   *)
(* stop is cut off before anything is written.  Where an append continues  *)
(* an unended line all the same, the file no longer opens: no line that    *)
(* has ended is lost in silence.                                           *)
AppendOnly == Log!Spec

Holds(line, n) == \E i \in DOMAIN line.pieces : line.pieces[i] = Piece(n, "json")

OnDisk == {n \in 1 .. appended : \E i \in DOMAIN file : Holds(file[i], n)}

SharedLine == \E i \in DOMAIN file : Len(file[i].pieces) > 1

Increasing(numbers) == \A i, j \in DOMAIN numbers : i < j => numbers[i] < numbers[j]

(* An open ledger's list is what the file holds, in order, but for appends *)
(* that raised, whose entries the file may have.  As long as no two writes *)
(* share a line, a reader finds just that.                                 *)
MemoryMatchesFile ==
    status \in {"open", "writing"} =>
        /\ Increasing(entries) /\ Range(entries) = OnDisk \ raised
        /\ ~SharedLine => Increasing(EntriesIn(file)) /\ Range(EntriesIn(file)) = OnDisk

(* test_session_ignores_only_partial_final_line: whatever an interrupted   *)
(* write leaves at the end of the file, the session can be opened again.   *)
OpensAgain == CanOpen(file)

(* What a reader finds, it finds again later.                              *)
FoundStays ==
    [][CanOpen(file) => CanOpen(file') /\ IsPrefix(EntriesIn(file), EntriesIn(file'))]_file
=============================================================================
