---------------------------- MODULE ProviderStream ----------------------------
(***************************************************************************)
(* One request to the provider: the server's events, the connection, the   *)
(* generator stream_response of providers/openai.py or openai_codex.py,    *)
(* and _stream_assistant of agent/loop.py, which consumes it.  An event is *)
(* known by its number in "sent".  Events are read in the order they are   *)
(* sent, so one of them in the connection at a time is enough.             *)
(***************************************************************************)
EXTENDS Naturals, Sequences, SequencesExt

CONSTANTS
    Providers,      \* RunConfig.provider: "openai" reads by the SDK, "codex" lines by itself
    MaxEvents       \* bound of the model: events of one response

ASSUME ProvidersAssumption == Providers \subseteq {"openai", "codex"} /\ MaxEvents \in Nat

VARIABLES
    provider,
    sent,       \* types of the events the server has sent
    wire,       \* what of the last one has not been read
    closed,     \* the server has closed the connection
    reader,     \* the generator: "idle", "reading" or "ended"
    dataLines,  \* data_lines of the codex provider
    terminal,   \* the generator has yielded "done" or "error"
    yielding,   \* the provider's events still to be yielded, in order
    received,   \* the events whose text, reasoning or item the loop has taken
    stopReason, \* stop_reason of the loop, "none" before a terminal event
    answered,   \* the reply is complete
    faults      \* what has gone wrong so far

readerVars == <<reader, dataLines, terminal, yielding>>
loopVars == <<received, stopReason, answered>>
vars == <<provider, sent, wire, closed, readerVars, loopVars, faults>>

-----------------------------------------------------------------------------

Content == {"text", "reasoning", "reasoning_item"}
Outcomes == {"completed", "incomplete", "failed", "cancelled"}
EventTypes == Content \cup Outcomes \cup {"other"}      \* "other": "[DONE]" too

Line(data, number) == [data |-> data, of |-> number]
Blank == Line("blank", 0)

(* The lines an event comes in: its JSON text in one "data:" line or two.  *)
(* aiter_lines also breaks a line at the separators of str.splitlines,     *)
(* U+2028 and U+0085 among them, which JSON text may hold as they are;     *)
(* then the rest has no "data:".                                           *)
Framings(number) ==
    IF provider = "openai" THEN {<<Line("whole", number)>>}
    ELSE {<<Line("whole", number), Blank>>,
          <<Line("first", number), Line("rest", number), Blank>>,
          <<Line("first", number), Line("stray", number), Blank>>}

Init ==
    /\ provider \in Providers
    /\ sent = <<>>
    /\ wire = <<>>
    /\ closed = FALSE
    /\ reader = "idle"
    /\ dataLines = <<>>
    /\ terminal = FALSE
    /\ yielding = <<>>
    /\ received = <<>>
    /\ stopReason = "none"
    /\ answered = FALSE
    /\ faults = {}

-----------------------------------------------------------------------------
(* The server.  After the outcome of the response nothing of it follows.   *)

OutcomeSent == \E i \in DOMAIN sent : sent[i] \in Outcomes

Send ==
    /\ reader = "reading" /\ ~closed /\ wire = <<>>
    /\ Len(sent) < MaxEvents
    /\ \E type \in EventTypes :
          /\ OutcomeSent => type = "other"
          /\ sent' = Append(sent, type)
    /\ \E lines \in Framings(Len(sent')) :
          /\ wire' = lines
          /\ faults' = IF Line("stray", Len(sent')) \in Range(lines)
                         THEN faults \cup {"broken line"} ELSE faults
    /\ UNCHANGED <<provider, closed, readerVars, loopVars>>

(* The end of the body, which may fall anywhere in a frame.                *)
Close ==
    /\ reader = "reading" /\ ~closed
    /\ closed' = TRUE
    /\ \E n \in 0 .. Len(wire) :
          /\ wire' = SubSeq(wire, 1, n)
          /\ faults' = IF OutcomeSent /\ SubSeq(wire, n + 1, Len(wire)) \in {<<>>, <<Blank>>}
                         THEN faults ELSE faults \cup {"cut short"}
    /\ UNCHANGED <<provider, sent, readerVars, loopVars>>

-----------------------------------------------------------------------------
(* The provider.                                                           *)

Delta(number) == [type |-> "delta", reason |-> "none", of |-> number]
Usage == [type |-> "usage", reason |-> "none", of |-> 0]
Done(reason) == [type |-> "done", reason |-> reason, of |-> 0]
Error(reason) == [type |-> "error", reason |-> reason, of |-> 0]

IsTerminal(event) == event.type \in {"done", "error"}

(* Variant: an answer cut at the output limit counts as completed.         *)
IncompleteIsStop(type) == "stop"

ReasonOf(type) ==
    CASE type = "completed" -> "stop"
      [] type = "incomplete" -> "length"
      [] type = "failed" -> "error"
      [] type = "cancelled" -> "aborted"

normalize_openai_event(number) ==
    LET type == sent[number]
    IN CASE type \in Content -> <<Delta(number)>>
         [] type \in {"completed", "incomplete"} -> <<Usage, Done(ReasonOf(type))>>
         [] type \in {"failed", "cancelled"} -> <<Error(ReasonOf(type))>>
         [] OTHER -> <<>>

IsWhole(lines) ==
    LET n == lines[1].of
    IN lines \in {<<Line("whole", n)>>, <<Line("first", n), Line("rest", n)>>}

_events_from_sse_data(lines) ==
    CASE lines = <<>> -> <<>>
      [] lines # <<>> /\ IsWhole(lines) -> normalize_openai_event(lines[1].of)
      [] OTHER -> <<Error("error")>>

Yield(events) ==
    /\ yielding' = events
    /\ terminal' = (terminal \/ \E i \in DOMAIN events : IsTerminal(events[i]))

AtWork == reader = "reading" /\ yielding = <<>> /\ ~answered

Connect ==
    /\ reader = "idle"
    /\ reader' = "reading"
    /\ UNCHANGED <<provider, sent, wire, closed, dataLines, terminal, yielding, loopVars, faults>>

(* A status that is no success, or no connection at all.                   *)
Refused ==
    /\ reader = "idle"
    /\ reader' = "ended"
    /\ Yield(<<Error("error")>>)
    /\ faults' = faults \cup {"refused"}
    /\ UNCHANGED <<provider, sent, wire, closed, dataLines, loopVars>>

ReadEvent ==
    /\ AtWork /\ provider = "openai" /\ wire # <<>>
    /\ wire' = Tail(wire)
    /\ Yield(normalize_openai_event(Head(wire).of))
    /\ UNCHANGED <<provider, sent, closed, reader, dataLines, loopVars, faults>>

DataLines(line) == Append(dataLines, line)

(* Variant: the lines of an event that was yielded are kept.               *)
NotCleared == dataLines

Cleared == <<>>

ReadLine ==
    /\ AtWork /\ provider = "codex" /\ wire # <<>>
    /\ wire' = Tail(wire)
    /\ LET line == Head(wire)
       IN \/ /\ line = Blank
             /\ Yield(_events_from_sse_data(dataLines))
             /\ dataLines' = Cleared
          \/ /\ line.data \in {"whole", "first", "rest"}
             /\ dataLines' = DataLines(line)
             /\ UNCHANGED <<terminal, yielding>>
          \/ line.data = "stray" /\ UNCHANGED <<dataLines, terminal, yielding>>
    /\ UNCHANGED <<provider, sent, closed, reader, loopVars, faults>>

(* Variant: a frame without its blank line is dropped.                     *)
NothingAtEnd == <<>>

EventsAtEnd == _events_from_sse_data(dataLines)

ReadEnd ==
    /\ AtWork /\ closed /\ wire = <<>>
    /\ reader' = "ended"
    /\ LET events == EventsAtEnd
           over == terminal \/ \E i \in DOMAIN events : IsTerminal(events[i])
       IN Yield(IF over THEN events ELSE Append(events, Error("error")))
    /\ UNCHANGED <<provider, sent, wire, closed, dataLines, loopVars, faults>>

(* Variant: the request is made again, without limit.                      *)
Retries == reader' = "idle"

GivesUp == reader' = "ended"

(* The read raises: a broken connection, at any time before the end of the *)
(* body is seen, or the client's time limit when nothing comes.  Only the  *)
(* client library's own exceptions become a reply; any other one leaves    *)
(* the stream, and is AgentLoop's StepFails.                               *)
ReadFails ==
    /\ AtWork
    /\ GivesUp
    /\ Yield(<<Error("error")>>)
    /\ faults' = faults \cup {"broken"}
    /\ UNCHANGED <<provider, sent, wire, closed, dataLines, loopVars>>

-----------------------------------------------------------------------------
(* The loop.                                                               *)

(* The last terminal event counts.                                          *)
TakeEvent ==
    /\ ~answered /\ yielding # <<>>
    /\ LET event == Head(yielding)
       IN /\ received' = IF event.type = "delta" THEN Append(received, event.of) ELSE received
          /\ stopReason' = IF IsTerminal(event) THEN event.reason ELSE stopReason
    /\ yielding' = Tail(yielding)
    /\ UNCHANGED <<provider, sent, wire, closed, reader, dataLines, terminal, answered, faults>>

StreamOver ==
    /\ ~answered /\ reader = "ended" /\ yielding = <<>>
    /\ answered' = TRUE
    /\ stopReason' = IF stopReason = "none" THEN "error" ELSE stopReason
    /\ UNCHANGED <<provider, sent, wire, closed, readerVars, received, faults>>

(* CancelledError, in the generator or while an event is given out.        *)
Cancelled ==
    /\ ~answered
    /\ answered' = TRUE
    /\ stopReason' = "aborted"
    /\ faults' = faults \cup {"cancelled"}
    /\ UNCHANGED <<provider, sent, wire, closed, readerVars, received>>

Rest == answered /\ UNCHANGED vars

Progress == Connect \/ ReadEvent \/ ReadLine \/ ReadEnd \/ TakeEvent \/ StreamOver

Next == Send \/ Close \/ Refused \/ ReadFails \/ Cancelled \/ Progress \/ Rest

(* The client's time limit ends a read for which nothing comes.            *)
TimesOut == wire = <<>> /\ ~closed /\ ReadFails

Spec == Init /\ [][Next]_vars

FairSpec == Spec /\ WF_vars(Progress) /\ WF_vars(TimesOut)

-----------------------------------------------------------------------------

ContentSent == {i \in DOMAIN sent : sent[i] \in Content}

(* README.md:63, PLAN 9.1: a reply counts as complete, or as cut at the    *)
(* output limit, only when the server has said so, however the connection  *)
(* ended.                                                                  *)
CompleteOnlyIfSaid ==
    answered =>
        /\ stopReason = "stop" => "completed" \in Range(sent)
        /\ stopReason = "length" => "incomplete" \in Range(sent)

(* Nothing is taken twice or out of order, and no fault adds to a reply.   *)
TakenInOrder == \A i, j \in DOMAIN received : i < j => received[i] < received[j]

EverythingTaken == TakenInOrder /\ Range(received) = ContentSent

(* A response that arrives whole is taken whole, each delta once and in    *)
(* order, with the outcome the server gave it, whatever its framing and    *)
(* even without the last blank line.                                       *)
WholeResponseTaken ==
    (answered /\ faults = {}) =>
        /\ EverythingTaken
        /\ \E i \in DOMAIN sent : sent[i] \in Outcomes /\ stopReason = ReasonOf(sent[i])

(* The loop gets its reply whatever the server and the connection do.      *)
ReplyComes == <>answered

(* PLAN 9.1, "Execute only after the complete provider response is         *)
(* authoritative": a reply that has lost a piece never counts as complete. *)
LostPieceNeverComplete ==
    (answered /\ stopReason \in {"stop", "length"}) => EverythingTaken

(* A response read to its completion stays complete when the connection    *)
(* fails, or times out, after that.                                        *)
CompletedStays ==
    (answered /\ faults \subseteq {"broken"} /\ "completed" \in Range(sent)
        /\ wire = <<>> /\ dataLines = <<>>) => stopReason = "stop"
=============================================================================
