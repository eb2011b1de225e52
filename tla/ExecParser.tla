----------------------------- MODULE ExecParser -----------------------------
(***************************************************************************)
(* ExecParser of protocol/exec_parser.py: the reply is fed as it streams   *)
(* in, cut anywhere, and at most one line-anchored <exec> block is         *)
(* recognised.  A text is a sequence of symbols; a marker is two of them,  *)
(* so a chunk may end inside it, and a half on its own is plain text.      *)
(***************************************************************************)
EXTENDS Naturals, Sequences, FiniteSets, SequencesExt

CONSTANTS
    MaxText, MaxChunk       \* bounds of the model, in symbols

Newline == "\n"
Return == "\r"
Open == <<"<ex", "ec>">>
Close == <<"</ex", "ec>">>

Symbols == {Newline, Return, "<ex", "</ex", "ec>"}

Chunks == UNION {[1 .. n -> Symbols] : n \in 1 .. MaxChunk}

VARIABLES
    parser,         \* state, _pending, and the text collected so far
    raw,            \* _raw, joined
    deltas,         \* what feed() and finalize() have returned so far
    finalized

vars == <<parser, raw, deltas, finalized>>

Init ==
    /\ parser = [state |-> "TEXT", pending |-> <<>>,
                 prefix |-> <<>>, code |-> <<>>, suffix |-> <<>>]
    /\ raw = <<>>
    /\ deltas = <<>>
    /\ finalized = FALSE

-----------------------------------------------------------------------------
(* Lines                                                                   *)

DropLast(line, symbol) == IF Len(line) > 0 /\ Last(line) = symbol THEN Front(line) ELSE line

(* Variant: the carriage return is left on the line.                       *)
LineValueKeepsReturn(line) == DropLast(line, Newline)

LineValue(line) == DropLast(DropLast(line, Newline), Return)

Newlines(text) == {i \in DOMAIN text : text[i] = Newline}

(* str.find: the first of them.                                            *)
FirstNewline(text) == CHOOSE i \in Newlines(text) : \A j \in Newlines(text) : i <= j

(* Where a line goes in each state: the block it is added to, and the kind *)
(* of the delta it gives.                                                  *)
Block(state) ==
    CASE state = "TEXT" -> [name |-> "prefix", kind |-> "text"]
      [] state = "EXEC" -> [name |-> "code", kind |-> "code"]
      [] state = "AFTER_EXEC" -> [name |-> "suffix", kind |-> "text"]

Transition(state, marker) ==
    CASE state = "TEXT" /\ marker = Open -> "EXEC"
      [] state = "EXEC" /\ marker = Close -> "AFTER_EXEC"
      [] OTHER -> "ERROR"

(* acc is a parser and the deltas so far.                                  *)
ProcessLine(acc, line) ==
    LET p == acc.parser
        block == Block(p.state)
    IN  CASE p.state = "ERROR" -> acc
          [] p.state # "ERROR" /\ LineValue(line) \in {Open, Close} ->
                [acc EXCEPT !.parser.state = Transition(p.state, LineValue(line))]
          [] OTHER ->
                [parser |-> [p EXCEPT ![block.name] = @ \o line],
                 deltas |-> Append(acc.deltas, [kind |-> block.kind, line |-> line])]

-----------------------------------------------------------------------------

Pending(chunk) == parser.pending \o chunk

(* One round of the loop takes a complete line off what is pending.        *)
Round(acc) ==
    LET text == acc.parser.pending
        newline == FirstNewline(text)
        rest == SubSeq(text, newline + 1, Len(text))
    IN  IF Newlines(text) = {} THEN acc
        ELSE ProcessLine([acc EXCEPT !.parser.pending = rest], SubSeq(text, 1, newline))

(* Each round shortens the text, so that many rounds are enough.           *)
Rounds(acc) ==
    LET after[n \in 0 .. Len(acc.parser.pending)] ==
            IF n = 0 THEN acc ELSE Round(after[n - 1])
    IN  after[Len(acc.parser.pending)]

Feed(chunk) ==
    LET text == Pending(chunk)
        acc == Rounds([parser |-> [parser EXCEPT !.pending = text], deltas |-> deltas])
    IN  /\ ~finalized
        /\ Len(raw) + Len(chunk) <= MaxText
        /\ raw' = raw \o chunk
        /\ IF parser.state = "ERROR"
             THEN UNCHANGED <<parser, deltas>>
             ELSE parser' = acc.parser /\ deltas' = acc.deltas
        /\ UNCHANGED finalized

(* Variant: the delta of the unfinished line is not returned.              *)
FinalDeltasLost(acc) == deltas

FinalDeltas(acc) == acc.deltas

(* A last line without a newline counts, as text or as a marker.           *)
Finalize ==
    LET acc == [parser |-> parser, deltas |-> deltas]
        last == IF parser.state = "ERROR" \/ parser.pending = <<>> THEN acc
                ELSE ProcessLine([acc EXCEPT !.parser.pending = <<>>], parser.pending)
    IN  /\ ~finalized
        /\ finalized' = TRUE
        /\ parser' = IF last.parser.state = "EXEC"
                       THEN [last.parser EXCEPT !.state = "ERROR"] ELSE last.parser
        /\ deltas' = FinalDeltas(last)
        /\ UNCHANGED raw

(* An empty delta of the provider is fed as well: it changes nothing.      *)
Done == finalized /\ UNCHANGED vars

Next == (\E chunk \in Chunks : Feed(chunk)) \/ Finalize \/ Done

Spec == Init /\ [][Next]_vars

(* The ParserResult: malformed text, plain text, or a block.               *)
Malformed == [verdict |-> "malformed"]
Plain(text) == [verdict |-> "plain", prefix |-> text]
Exec(before, body, after) ==
    [verdict |-> "exec", prefix |-> before, code |-> body, suffix |-> after]

Result ==
    CASE parser.state = "ERROR" -> Malformed
      [] parser.state = "AFTER_EXEC" -> Exec(parser.prefix, parser.code, parser.suffix)
      [] OTHER -> Plain(parser.prefix)

-----------------------------------------------------------------------------
(* The reference, written over the whole text and its positions.           *)

StartsLine(text, i) == i = 1 \/ text[i - 1] = Newline

LineEnd(text, i) ==
    LET ends == {j \in i .. Len(text) : text[j] = Newline}
    IN  IF ends = {} THEN Len(text) ELSE CHOOSE j \in ends : \A k \in ends : j <= k

MarkerLines(marker) == {marker \o ending : ending \in
    {<<>>, <<Newline>>, <<Return>>, <<Return, Newline>>}}

Markers(text, marker) ==
    {i \in DOMAIN text :
        StartsLine(text, i) /\ SubSeq(text, i, LineEnd(text, i)) \in MarkerLines(marker)}

Parsed(text) ==
    LET opens == Markers(text, Open)
        closes == Markers(text, Close)
    IN  IF opens = {} /\ closes = {} THEN Plain(text)
        ELSE IF \E o \in opens, c \in closes : opens = {o} /\ closes = {c} /\ o < c
          THEN LET o == CHOOSE i \in opens : TRUE
                   c == CHOOSE i \in closes : TRUE
               IN  Exec(SubSeq(text, 1, o - 1),
                        SubSeq(text, LineEnd(text, o) + 1, c - 1),
                        SubSeq(text, LineEnd(text, c) + 1, Len(text)))
          ELSE Malformed

(* exec_parser.py:28, README.md:55-63: however the stream is cut, the      *)
(* result is a function of the text alone: one block when exactly one      *)
(* opening marker line is followed by exactly one closing marker line,     *)
(* malformed when marker lines stand in any other way.                     *)
ResultIsParsed == finalized => Result = Parsed(raw)

(* The lines of one kind, joined in the order they were returned.          *)
Joined(kind, list) ==
    LET joined[n \in 0 .. Len(list)] ==
            IF n = 0 THEN <<>>
            ELSE joined[n - 1] \o (IF list[n].kind = kind THEN list[n].line ELSE <<>>)
    IN  joined[Len(list)]

Streamed(kind) == Joined(kind, deltas)

(* PLAN 9.2: what the subscribers were shown as text and as code while the *)
(* reply streamed in is what the finished message holds.                   *)
StreamedIsResult ==
    (finalized /\ parser.state # "ERROR") =>
        /\ Streamed("text") = parser.prefix \o parser.suffix
        /\ Streamed("code") = parser.code

-----------------------------------------------------------------------------
(* The message sent back to the provider (openai_conversion.py).           *)

StartsWithBreak(text) == text # <<>> /\ Head(text) \in {Newline, Return}
EndsWithBreak(text) == text # <<>> /\ Last(text) \in {Newline, Return}

(* Variant: the text follows the marker directly.                          *)
NoGap(text) == <<>>

Gap(text) == IF text = <<>> \/ StartsWithBreak(text) THEN <<>> ELSE <<Newline>>

SerializeAssistantText ==
    LET body == IF parser.code = <<>> \/ EndsWithBreak(parser.code)
                  THEN parser.code ELSE Append(parser.code, Newline)
    IN  parser.prefix \o Open \o <<Newline>> \o body \o Close
            \o Gap(parser.suffix) \o parser.suffix

LoneReturn(text) == text # <<>> /\ Head(text) = Return /\ Len(text) > 1 /\ text[2] # Newline

(* The model reads its own reply as it wrote it: the same text before the  *)
(* same block, however the markers stood in the stream.  A line that       *)
(* begins with a lone carriage return is the exception, see below.         *)
ReplayKeepsBlock ==
    (finalized /\ parser.state = "AFTER_EXEC" /\ ~LoneReturn(parser.suffix)) =>
        LET replayed == Parsed(SerializeAssistantText)
        IN  /\ replayed.verdict = "exec"
            /\ replayed.prefix = parser.prefix
            /\ replayed.code = parser.code

(* tests/unit/test_auth_providers.py:159: a message with a block, replayed *)
(* to the provider, keeps its marker lines valid.                          *)
ReplayKeepsMarkers ==
    (finalized /\ parser.state = "AFTER_EXEC") =>
        Parsed(SerializeAssistantText).verdict = "exec"
=============================================================================
