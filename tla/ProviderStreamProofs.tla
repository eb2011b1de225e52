------------------------- MODULE ProviderStreamProofs -------------------------
(***************************************************************************)
(* Proofs about ProviderStream, for responses of any length.               *)
(***************************************************************************)
EXTENDS ProviderStream, SequenceTheorems, TLAPS

Lines == [data : {"whole", "first", "rest", "stray", "blank"}, of : Nat]
Reasons == {"none", "stop", "length", "error", "aborted"}
Events == [type : {"delta", "usage", "done", "error"}, reason : Reasons, of : Nat]

Said(type) == \E i \in DOMAIN sent : sent[i] = type

(* What an event or the loop says of the response is what the server said. *)
Honest(reason) ==
    (reason = "stop" => Said("completed")) /\ (reason = "length" => Said("incomplete"))

(* Events that at most one event of the server, number n, gave rise to.    *)
Stem(events, n) ==
    /\ events \in Seq(Events)
    /\ \A i \in DOMAIN events : Honest(events[i].reason)
    /\ \A i \in DOMAIN events : events[i].type = "delta" => events[i].of = n
    /\ \A i, j \in DOMAIN events : events[i].type = "delta" /\ events[j].type = "delta" => i = j

TypeInv ==
    /\ provider \in {"openai", "codex"}
    /\ sent \in Seq(EventTypes)
    /\ wire \in Seq(Lines) /\ dataLines \in Seq(Lines)
    /\ yielding \in Seq(Events)
    /\ received \in Seq(Nat)
    /\ stopReason \in Reasons

HonestInv ==
    /\ Honest(stopReason)
    /\ \A i \in DOMAIN yielding : Honest(yielding[i].reason)

(* A blank line is the last of its frame; the SDK gives an event at once.  *)
FrameInv ==
    /\ \A i \in DOMAIN wire : wire[i].data = "blank" => i = Len(wire)
    /\ provider = "openai" => Len(wire) <= 1
    /\ reader = "idle" => dataLines = <<>>
    /\ reader = "reading" /\ ~closed /\ dataLines # <<>> => wire # <<>>
    /\ provider = "codex" /\ ~closed /\ wire # <<>> => wire[Len(wire)].data = "blank"
    /\ provider = "openai" => dataLines = <<>> /\ \A i \in DOMAIN wire : wire[i].data # "blank"

(* What is still to be read is of the last event, and it, what is being    *)
(* yielded and what was taken lie in this order.                           *)
After(n) ==
    /\ \A k \in DOMAIN received : received[k] < n
    /\ \A i \in DOMAIN yielding : yielding[i].type = "delta" => yielding[i].of < n

YieldingOrdered ==
    /\ \A i \in DOMAIN yielding : yielding[i].type = "delta" =>
          yielding[i].of <= Len(sent) /\ \A k \in DOMAIN received : received[k] < yielding[i].of
    /\ \A i, j \in DOMAIN yielding :
          yielding[i].type = "delta" /\ yielding[j].type = "delta" => i = j

WireOrdered ==
    \A i \in DOMAIN wire : wire[i].data # "blank" =>
        wire[i].of = Len(sent) /\ Len(sent) > 0 /\ After(Len(sent))

DataOrdered ==
    \A i \in DOMAIN dataLines :
        /\ dataLines[i].of = Len(sent) /\ Len(sent) > 0
        /\ reader = "reading" => After(Len(sent))

OrderInv ==
    /\ TakenInOrder
    /\ \A k \in DOMAIN received : received[k] <= Len(sent)
    /\ YieldingOrdered /\ WireOrdered /\ DataOrdered

StreamInv == TypeInv /\ HonestInv /\ FrameInv /\ OrderInv

LEMMA StreamInit == Init => StreamInv
BY ProvidersAssumption
   DEF ProvidersAssumption, Init, StreamInv, TypeInv, HonestInv, FrameInv, OrderInv, TakenInOrder,
       YieldingOrdered, WireOrdered, DataOrdered, Honest, Reasons, EventTypes, Lines, Events

-----------------------------------------------------------------------------
(* What the provider makes of the server's events.                         *)

LEMMA ErrorStem == ASSUME NEW n PROVE Stem(<<Error("error")>>, n)
BY DEF Stem, Error, Events, Reasons, Honest

LEMMA NoStem == ASSUME NEW n PROVE Stem(<<>>, n)
BY DEF Stem

LEMMA StemAppend ==
    ASSUME NEW n, NEW events, Stem(events, n)
    PROVE  Stem(Append(events, Error("error")), n)
<1> DEFINE more == Append(events, Error("error"))
<1>1. Error("error") \in Events /\ Honest("error")
  BY DEF Error, Events, Reasons, Honest
<1>2. events \in Seq(Events)
  BY DEF Stem
<1>3. /\ more \in Seq(Events)
      /\ \A i \in DOMAIN more : \/ i \in DOMAIN events /\ more[i] = events[i]
                                \/ more[i] = Error("error")
  BY <1>1, <1>2
<1> HIDE DEF more
<1> QED
  BY <1>1, <1>3 DEF Stem, Error

LEMMA NormalizeStem ==
    ASSUME TypeInv, NEW n \in DOMAIN sent
    PROVE  Stem(normalize_openai_event(n), n)
<1>1. sent[n] \in EventTypes /\ n \in Nat
  BY DEF TypeInv
<1>2. CASE sent[n] \in Content
  <2>1. normalize_openai_event(n) = <<Delta(n)>>
    BY <1>2 DEF normalize_openai_event, Content
  <2> QED
    BY <1>1, <2>1 DEF Stem, Delta, Events, Reasons, Honest
<1>3. CASE sent[n] \in {"completed", "incomplete"}
  <2>1. normalize_openai_event(n) = <<Usage, Done(ReasonOf(sent[n]))>>
    BY <1>3 DEF normalize_openai_event, Content
  <2>2. ReasonOf(sent[n]) = IF sent[n] = "completed" THEN "stop" ELSE "length"
    BY <1>3 DEF ReasonOf
  <2>3. Honest(ReasonOf(sent[n]))
    BY <1>3, <2>2 DEF Honest, Said
  <2> QED
    BY <1>3, <2>1, <2>2, <2>3 DEF Stem, Usage, Done, Events, Reasons, Honest
<1>4. CASE sent[n] \in {"failed", "cancelled"}
  <2>1. normalize_openai_event(n) = <<Error(ReasonOf(sent[n]))>>
    BY <1>4 DEF normalize_openai_event, Content
  <2>2. ReasonOf(sent[n]) \in {"error", "aborted"}
    BY <1>4 DEF ReasonOf
  <2> QED
    BY <2>1, <2>2 DEF Stem, Error, Events, Reasons, Honest
<1>5. CASE sent[n] = "other"
  <2>1. normalize_openai_event(n) = <<>>
    BY <1>5 DEF normalize_openai_event, Content
  <2> QED
    BY <2>1, NoStem
<1> QED
  BY <1>1, <1>2, <1>3, <1>4, <1>5 DEF EventTypes, Content, Outcomes

LEMMA SseStem ==
    ASSUME TypeInv, NEW lines \in Seq(Lines), NEW n,
           \A i \in DOMAIN lines : lines[i].of = n /\ n \in DOMAIN sent
    PROVE  Stem(_events_from_sse_data(lines), n)
<1>1. CASE lines = <<>>
  BY <1>1, NoStem DEF _events_from_sse_data
<1>2. CASE lines # <<>> /\ IsWhole(lines)
  <2>1. lines[1].of = n /\ n \in DOMAIN sent
    BY <1>2
  <2>2. _events_from_sse_data(lines) = normalize_openai_event(n)
    BY <1>2, <2>1 DEF _events_from_sse_data
  <2> QED
    BY <2>1, <2>2, NormalizeStem
<1>3. CASE lines # <<>> /\ ~IsWhole(lines)
  <2>1. _events_from_sse_data(lines) = <<Error("error")>>
    BY <1>3 DEF _events_from_sse_data
  <2> QED
    BY <2>1, ErrorStem
<1> QED
  BY <1>1, <1>2, <1>3

(* What is yielded comes after all that was taken.                         *)
LEMMA YieldStep ==
    ASSUME StreamInv, NEW events, Stem(events, Len(sent)), Yield(events),
           \A k \in DOMAIN received : (\E i \in DOMAIN events : events[i].type = "delta")
                => received[k] < Len(sent),
           UNCHANGED <<sent, loopVars>>
    PROVE  /\ yielding' \in Seq(Events)
           /\ HonestInv' /\ YieldingOrdered'
           /\ TakenInOrder' /\ \A k \in DOMAIN received' : received'[k] <= Len(sent')
<1>1. yielding' = events /\ sent' = sent /\ received' = received /\ stopReason' = stopReason
  BY DEF Yield, loopVars
<1>2. Len(sent) \in Nat
  BY DEF StreamInv, TypeInv
<1>3. HonestInv'
  BY <1>1 DEF StreamInv, HonestInv, Stem, Honest, Said
<1>4. YieldingOrdered'
  BY <1>1, <1>2 DEF YieldingOrdered, Stem
<1>5. TakenInOrder' /\ \A k \in DOMAIN received' : received'[k] <= Len(sent')
  BY <1>1 DEF StreamInv, OrderInv, TakenInOrder
<1> QED
  BY <1>1, <1>3, <1>4, <1>5 DEF Stem

-----------------------------------------------------------------------------
(* The steps.                                                              *)

LEMMA Numbers ==
    ASSUME TypeInv
    PROVE  /\ Len(sent) \in Nat /\ Len(wire) \in Nat
           /\ \A k \in DOMAIN received : received[k] \in Nat
           /\ \A i \in DOMAIN yielding : yielding[i].of \in Nat
<1>1. \A i \in DOMAIN yielding : yielding[i] \in Events
  BY DEF TypeInv
<1>2. \A e \in Events : e.of \in Nat
  BY DEF Events
<1>3. \A k \in DOMAIN received : received[k] \in Nat
  BY DEF TypeInv
<1> QED
  BY <1>1, <1>2, <1>3 DEF TypeInv

LEMMA SendStep == ASSUME StreamInv, Send PROVE StreamInv'
<1>1. PICK type \in EventTypes : sent' = Append(sent, type)
  BY DEF Send
<1>2. PICK lines \in Framings(Len(sent')) : wire' = lines
  BY DEF Send
<1>3. /\ reader = "reading" /\ ~closed /\ wire = <<>>
      /\ UNCHANGED <<provider, closed, readerVars, loopVars>>
  BY DEF Send
<1>4. /\ sent \in Seq(EventTypes) /\ sent' \in Seq(EventTypes)
      /\ Len(sent) \in Nat /\ Len(sent') = Len(sent) + 1
      /\ \A t : Said(t) => Said(t)'
  <2>1. sent \in Seq(EventTypes) /\ sent' \in Seq(EventTypes)
    BY <1>1 DEF StreamInv, TypeInv
  <2>2. Len(sent) \in Nat /\ Len(sent') = Len(sent) + 1
        /\ \A i \in DOMAIN sent : i \in DOMAIN sent' /\ sent'[i] = sent[i]
    BY <1>1, <2>1
  <2> QED
    BY <2>1, <2>2 DEF Said
<1>5. dataLines = <<>>
  BY <1>3 DEF StreamInv, FrameInv
<1>6. After(Len(sent))'
  BY <1>3, <1>4, Numbers DEF After, StreamInv, OrderInv, YieldingOrdered, readerVars, loopVars
<1>7. /\ wire' \in Seq(Lines)
      /\ \A i \in DOMAIN wire' : wire'[i].data # "blank" => wire'[i].of = Len(sent')
      /\ \A i \in DOMAIN wire' : wire'[i].data = "blank" => i = Len(wire')
      /\ provider = "openai" =>
            Len(wire') <= 1 /\ \A i \in DOMAIN wire' : wire'[i].data # "blank"
      /\ provider = "codex" => wire'[Len(wire')].data = "blank"
  <2>1. CASE provider = "openai"
    <3>1. wire' = <<Line("whole", Len(sent'))>>
      BY <1>2, <2>1 DEF Framings
    <3> QED
      BY <3>1, <2>1, <1>4 DEF Line, Lines
  <2>2. CASE provider = "codex"
    <3>1. \/ wire' = <<Line("whole", Len(sent')), Line("blank", 0)>>
          \/ \E part \in {"rest", "stray"} :
                wire' = <<Line("first", Len(sent')), Line(part, Len(sent')), Line("blank", 0)>>
      BY <1>2, <2>2 DEF Framings, Blank
    <3>2. CASE wire' = <<Line("whole", Len(sent')), Line("blank", 0)>>
      BY <3>2, <2>2, <1>4 DEF Line, Lines
    <3>3. ASSUME NEW part \in {"rest", "stray"},
                 wire' = <<Line("first", Len(sent')), Line(part, Len(sent')), Line("blank", 0)>>
          PROVE  <1>7!1 /\ <1>7!2 /\ <1>7!3 /\ <1>7!4 /\ <1>7!5
      BY <3>3, <2>2, <1>4 DEF Line, Lines
    <3> QED
      BY <3>1, <3>2, <3>3
  <2> QED
    BY <2>1, <2>2 DEF StreamInv, TypeInv
<1>8. TypeInv'
  BY <1>3, <1>4, <1>7 DEF StreamInv, TypeInv, readerVars, loopVars
<1>9. HonestInv'
  BY <1>3, <1>4 DEF StreamInv, HonestInv, Honest, readerVars, loopVars
<1>10. FrameInv'
  BY <1>3, <1>5, <1>7 DEF StreamInv, FrameInv, readerVars, loopVars
<1>11. OrderInv'
  <2>1. TakenInOrder' /\ (\A k \in DOMAIN received' : received'[k] <= Len(sent'))
    BY <1>3, <1>4 DEF StreamInv, OrderInv, TakenInOrder, TypeInv, readerVars, loopVars
  <2>2. YieldingOrdered'
    BY <1>3, <1>4, Numbers DEF StreamInv, OrderInv, YieldingOrdered, readerVars, loopVars
  <2>3. WireOrdered' /\ DataOrdered'
    BY <1>3, <1>4, <1>5, <1>6, <1>7 DEF WireOrdered, DataOrdered, readerVars
  <2> QED
    BY <2>1, <2>2, <2>3 DEF OrderInv
<1> QED
  BY <1>8, <1>9, <1>10, <1>11 DEF StreamInv

LEMMA CloseStep == ASSUME StreamInv, Close PROVE StreamInv'
<1>1. PICK n \in 0 .. Len(wire) : wire' = SubSeq(wire, 1, n)
  BY DEF Close
<1>2. closed' = TRUE /\ UNCHANGED <<provider, sent, readerVars, loopVars>>
  BY DEF Close
<1>3. /\ wire' \in Seq(Lines) /\ Len(wire') = n /\ n <= Len(wire)
      /\ \A i \in DOMAIN wire' : i \in DOMAIN wire /\ wire'[i] = wire[i]
  BY <1>1 DEF StreamInv, TypeInv
<1>4. TypeInv' /\ HonestInv'
  BY <1>2, <1>3 DEF StreamInv, TypeInv, HonestInv, Honest, Said, readerVars, loopVars
<1>5. FrameInv'
  <2>1. \A i \in DOMAIN wire' : wire'[i].data = "blank" => i = Len(wire')
    BY <1>3 DEF StreamInv, FrameInv, TypeInv
  <2>2. Len(wire) \in Nat /\ n \in Nat
    BY DEF StreamInv, TypeInv
  <2> QED
    BY <1>2, <1>3, <2>1, <2>2 DEF StreamInv, FrameInv, readerVars
<1>6. OrderInv'
  BY <1>2, <1>3 DEF StreamInv, OrderInv, TakenInOrder, YieldingOrdered, WireOrdered, DataOrdered,
                    After, readerVars, loopVars
<1> QED
  BY <1>4, <1>5, <1>6 DEF StreamInv

LEMMA TailOfWire ==
    ASSUME StreamInv, wire # <<>>, wire' = Tail(wire)
    PROVE  /\ wire' \in Seq(Lines) /\ Len(wire') = Len(wire) - 1
           /\ \A i \in DOMAIN wire' : i + 1 \in DOMAIN wire /\ wire'[i] = wire[i + 1]
           /\ Head(wire) = wire[1] /\ 1 \in DOMAIN wire /\ wire[1] \in Lines
BY DEF StreamInv, TypeInv

LEMMA ReadEventStep == ASSUME StreamInv, ReadEvent PROVE StreamInv'
<1> DEFINE n == Head(wire).of
<1>1. /\ provider = "openai" /\ wire # <<>> /\ wire' = Tail(wire) /\ reader = "reading"
      /\ Yield(normalize_openai_event(n))
      /\ UNCHANGED <<provider, sent, closed, reader, dataLines, loopVars>>
  BY DEF ReadEvent, AtWork
<1>2. wire' = <<>> /\ Head(wire) = wire[1] /\ 1 \in DOMAIN wire
  BY <1>1, TailOfWire, Numbers DEF StreamInv, FrameInv
<1>3. n = Len(sent) /\ Len(sent) > 0 /\ After(Len(sent))
  BY <1>1, <1>2 DEF StreamInv, FrameInv, OrderInv, WireOrdered
<1>4. Stem(normalize_openai_event(n), Len(sent))
  BY <1>3, NormalizeStem DEF StreamInv, TypeInv
<1>5. /\ yielding' \in Seq(Events) /\ HonestInv' /\ YieldingOrdered'
      /\ TakenInOrder' /\ \A k \in DOMAIN received' : received'[k] <= Len(sent')
  BY <1>1, <1>3, <1>4, YieldStep DEF After
<1>6. TypeInv'
  BY <1>1, <1>2, <1>5 DEF StreamInv, TypeInv, loopVars
<1>7. FrameInv' /\ WireOrdered' /\ DataOrdered'
  BY <1>1, <1>2 DEF StreamInv, FrameInv, WireOrdered, DataOrdered
<1> QED
  BY <1>5, <1>6, <1>7 DEF StreamInv, OrderInv

LEMMA ReadLineStep == ASSUME StreamInv, ReadLine PROVE StreamInv'
<1> DEFINE line == Head(wire)
<1>1. /\ provider = "codex" /\ wire # <<>> /\ wire' = Tail(wire)
      /\ reader = "reading" /\ yielding = <<>>
      /\ UNCHANGED <<provider, sent, closed, reader, loopVars>>
  BY DEF ReadLine, AtWork
<1>2. /\ wire' \in Seq(Lines) /\ Len(wire') = Len(wire) - 1
      /\ \A i \in DOMAIN wire' : i + 1 \in DOMAIN wire /\ wire'[i] = wire[i + 1]
      /\ line = wire[1] /\ 1 \in DOMAIN wire /\ line \in Lines /\ Len(wire) \in Nat
  BY <1>1, TailOfWire, Numbers DEF StreamInv
<1>3. \A i \in DOMAIN wire' : wire'[i].data = "blank" => i = Len(wire')
  BY <1>2 DEF StreamInv, FrameInv
<1>4. CASE line = Blank
  <2> DEFINE events == _events_from_sse_data(dataLines)
  <2>1. line.data = "blank" /\ Yield(events) /\ dataLines' = <<>>
    BY <1>4 DEF ReadLine, Blank, Line, Cleared
  <2>2. wire' = <<>>
    BY <1>2, <2>1 DEF StreamInv, FrameInv
  <2>3. Stem(events, Len(sent))
    <3>1. dataLines \in Seq(Lines) /\ TypeInv
      BY DEF StreamInv, TypeInv
    <3>2. \A i \in DOMAIN dataLines : dataLines[i].of = Len(sent) /\ Len(sent) \in DOMAIN sent
      BY DEF StreamInv, TypeInv, OrderInv, DataOrdered
    <3> QED
      BY <3>1, <3>2, SseStem
  <2>4. \A k \in DOMAIN received : (\E i \in DOMAIN events : events[i].type = "delta")
            => received[k] < Len(sent)
    <3>1. CASE dataLines = <<>>
      BY <3>1 DEF _events_from_sse_data
    <3>2. CASE dataLines # <<>>
      BY <1>1, <3>2 DEF StreamInv, TypeInv, OrderInv, DataOrdered, After
    <3> QED
      BY <3>1, <3>2
  <2> HIDE DEF events
  <2>5. /\ yielding' \in Seq(Events) /\ HonestInv' /\ YieldingOrdered'
        /\ TakenInOrder' /\ \A k \in DOMAIN received' : received'[k] <= Len(sent')
    BY <1>1, <2>1, <2>3, <2>4, YieldStep
  <2>6. TypeInv'
    BY <1>1, <1>2, <2>1, <2>5 DEF StreamInv, TypeInv, loopVars
  <2>7. FrameInv' /\ WireOrdered' /\ DataOrdered'
    BY <1>1, <2>1, <2>2 DEF FrameInv, WireOrdered, DataOrdered
  <2> QED
    BY <2>5, <2>6, <2>7 DEF StreamInv, OrderInv
<1>5. CASE line # Blank
  <2>1. /\ yielding' = yielding
        /\ dataLines' = dataLines \/ (line.data # "blank" /\ dataLines' = Append(dataLines, line))
    BY <1>1, <1>5 DEF ReadLine, DataLines
  <2>2. TypeInv' /\ dataLines \in Seq(Lines)
    <3> HIDE DEF line
    <3>1. dataLines \in Seq(Lines) /\ dataLines' \in Seq(Lines)
      <4>1. dataLines \in Seq(Lines)
        BY DEF StreamInv, TypeInv
      <4>2. line \in Lines
        BY <1>2
      <4>3. Append(dataLines, line) \in Seq(Lines)
        BY <4>1, <4>2
      <4> QED
        BY <2>1, <4>1, <4>3
    <3> QED
      BY <1>1, <1>2, <2>1, <3>1 DEF StreamInv, TypeInv, loopVars
  <2>3. HonestInv' /\ YieldingOrdered'
    BY <1>1, <2>1 DEF StreamInv, OrderInv, HonestInv, YieldingOrdered, Honest, Said, loopVars
  <2>4. After(Len(sent)) => After(Len(sent))'
    BY <1>1, <2>1 DEF After, loopVars
  <2>5. WireOrdered'
    BY <1>1, <1>2, <2>4 DEF StreamInv, OrderInv, WireOrdered
  <2>6. line.data # "blank"
    BY <1>5, <1>1 DEF ReadLine
  <2>7. line.of = Len(sent) /\ Len(sent) > 0 /\ After(Len(sent))
    BY <1>2, <2>6 DEF StreamInv, OrderInv, WireOrdered
  <2>8. DataOrdered'
    <3>1. \A i \in DOMAIN dataLines' : dataLines'[i].of = Len(sent)
      BY <2>1, <2>2, <2>7 DEF StreamInv, OrderInv, DataOrdered
    <3> QED
      BY <1>1, <2>4, <2>7, <3>1 DEF DataOrdered
  <2>9. FrameInv'
    <3>1. ~closed => wire' # <<>>
      BY <1>1, <1>2, <2>6 DEF StreamInv, FrameInv
    <3>2. ~closed => wire'[Len(wire')].data = "blank"
      BY <1>1, <1>2, <3>1 DEF StreamInv, FrameInv
    <3> QED
      BY <1>1, <1>3, <3>1, <3>2 DEF FrameInv
  <2>10. TakenInOrder' /\ \A k \in DOMAIN received' : received'[k] <= Len(sent')
    BY <1>1 DEF StreamInv, OrderInv, TakenInOrder, loopVars
  <2> QED
    BY <2>2, <2>3, <2>5, <2>8, <2>9, <2>10 DEF StreamInv, OrderInv
<1> QED
  BY <1>4, <1>5

LEMMA ReadEndStep == ASSUME StreamInv, ReadEnd PROVE StreamInv'
<1> DEFINE read == EventsAtEnd
<1>1. /\ wire = <<>> /\ reader = "reading" /\ reader' = "ended"
      /\ \/ Yield(read) \/ Yield(Append(read, Error("error")))
      /\ UNCHANGED <<provider, sent, wire, closed, dataLines, loopVars>>
  BY DEF ReadEnd, AtWork
<1>2. Stem(read, Len(sent))
  <2>1. dataLines \in Seq(Lines) /\ TypeInv
    BY DEF StreamInv, TypeInv
  <2>2. \A i \in DOMAIN dataLines : dataLines[i].of = Len(sent) /\ Len(sent) \in DOMAIN sent
    BY DEF StreamInv, TypeInv, OrderInv, DataOrdered
  <2> QED
    BY <2>1, <2>2, SseStem DEF EventsAtEnd
<1>3. (\E i \in DOMAIN read : read[i].type = "delta")
        => \A k \in DOMAIN received : received[k] < Len(sent)
  <2>1. CASE dataLines = <<>>
    BY <2>1 DEF EventsAtEnd, _events_from_sse_data
  <2>2. CASE dataLines # <<>>
    BY <1>1, <2>2 DEF StreamInv, TypeInv, OrderInv, DataOrdered, After
  <2> QED
    BY <2>1, <2>2
<1> HIDE DEF read
<1>4. PICK events : /\ Yield(events) /\ Stem(events, Len(sent))
                    /\ (\E i \in DOMAIN events : events[i].type = "delta")
                            => \E i \in DOMAIN read : read[i].type = "delta"
  <2>1. CASE Yield(read)
    BY <1>2, <2>1
  <2>2. CASE Yield(Append(read, Error("error")))
    <3> DEFINE more == Append(read, Error("error"))
    <3>1. Stem(more, Len(sent))
      BY <1>2, StemAppend
    <3>2. \A i \in DOMAIN more : \/ i \in DOMAIN read /\ more[i] = read[i]
                                \/ more[i] = Error("error")
      BY <1>2 DEF Stem
    <3>3. (\E i \in DOMAIN more : more[i].type = "delta")
            => \E i \in DOMAIN read : read[i].type = "delta"
      BY <3>2 DEF Error
    <3> QED
      BY <2>2, <3>1, <3>3
  <2> QED
    BY <1>1, <2>1, <2>2
<1>5. /\ yielding' \in Seq(Events) /\ HonestInv' /\ YieldingOrdered'
      /\ TakenInOrder' /\ \A k \in DOMAIN received' : received'[k] <= Len(sent')
  BY <1>1, <1>3, <1>4, YieldStep
<1>6. TypeInv'
  BY <1>1, <1>5 DEF StreamInv, TypeInv, loopVars
<1>7. FrameInv' /\ WireOrdered' /\ DataOrdered'
  BY <1>1 DEF StreamInv, FrameInv, OrderInv, WireOrdered, DataOrdered
<1> QED
  BY <1>5, <1>6, <1>7 DEF StreamInv, OrderInv

(* Nothing that is still to be read is touched when the reader gives up.   *)
LEMMA FailStep == ASSUME StreamInv, Refused \/ ReadFails PROVE StreamInv'
<1>1. /\ Yield(<<Error("error")>>) /\ reader' = "ended"
      /\ UNCHANGED <<provider, sent, wire, closed, dataLines, loopVars>>
  BY DEF Refused, ReadFails, GivesUp
<1>2. yielding' = <<Error("error")>>
  BY <1>1 DEF Yield
<1>3. ~\E i \in DOMAIN yielding' : yielding'[i].type = "delta"
  BY <1>2 DEF Error
<1>4. /\ yielding' \in Seq(Events) /\ HonestInv' /\ YieldingOrdered'
      /\ TakenInOrder' /\ \A k \in DOMAIN received' : received'[k] <= Len(sent')
  BY <1>1, <1>2, <1>3, ErrorStem, YieldStep
<1>5. TypeInv'
  BY <1>1, <1>4 DEF StreamInv, TypeInv, loopVars
<1>6. FrameInv' /\ DataOrdered'
  BY <1>1 DEF StreamInv, FrameInv, OrderInv, DataOrdered
<1>7. WireOrdered'
  BY <1>1, <1>3 DEF StreamInv, OrderInv, WireOrdered, After, loopVars
<1> QED
  BY <1>4, <1>5, <1>6, <1>7 DEF StreamInv, OrderInv

LEMMA TakeEventStep == ASSUME StreamInv, TakeEvent PROVE StreamInv'
<1> DEFINE event == Head(yielding)
<1>1. /\ yielding # <<>> /\ yielding' = Tail(yielding)
      /\ received' = IF event.type = "delta" THEN Append(received, event.of) ELSE received
      /\ stopReason' = IF IsTerminal(event) THEN event.reason ELSE stopReason
      /\ UNCHANGED <<provider, sent, wire, closed, reader, dataLines>>
  BY DEF TakeEvent
<1>2. /\ yielding \in Seq(Events) /\ event = yielding[1] /\ 1 \in DOMAIN yielding
      /\ event \in Events /\ yielding' \in Seq(Events)
      /\ \A i \in DOMAIN yielding' :
            i + 1 \in DOMAIN yielding /\ i + 1 # 1 /\ yielding'[i] = yielding[i + 1]
  BY <1>1 DEF StreamInv, TypeInv
<1>3. event.of \in Nat /\ event.reason \in Reasons
  BY <1>2 DEF Events
<1> HIDE DEF event
<1>4. /\ received \in Seq(Nat) /\ received' \in Seq(Nat) /\ Len(sent) \in Nat
      /\ \A k \in DOMAIN received' : \/ k \in DOMAIN received /\ received'[k] = received[k]
                                    \/ /\ event.type = "delta" /\ k = Len(received) + 1
                                       /\ received'[k] = event.of
  BY <1>1, <1>3 DEF StreamInv, TypeInv
<1>5. TypeInv'
  BY <1>1, <1>2, <1>3, <1>4 DEF StreamInv, TypeInv
<1>6. HonestInv'
  BY <1>1, <1>2 DEF StreamInv, HonestInv, Honest, Said
<1>7. FrameInv'
  BY <1>1 DEF StreamInv, FrameInv
<1>8. event.type = "delta" =>
        /\ event.of <= Len(sent)
        /\ \A k \in DOMAIN received : received[k] < event.of
        /\ \A i \in DOMAIN yielding' : yielding'[i].type # "delta"
  BY <1>2 DEF StreamInv, OrderInv, YieldingOrdered
<1>9. TakenInOrder'
  BY <1>4, <1>8 DEF StreamInv, OrderInv, TakenInOrder
<1>10. \A k \in DOMAIN received' : received'[k] <= Len(sent')
  BY <1>1, <1>4, <1>8 DEF StreamInv, OrderInv
<1>11. YieldingOrdered'
  <2>1. CASE event.type = "delta"
    BY <1>8, <2>1 DEF YieldingOrdered
  <2>2. CASE event.type # "delta"
    BY <1>1, <1>2, <2>2 DEF StreamInv, OrderInv, YieldingOrdered
  <2> QED
    BY <2>1, <2>2
<1>12. After(Len(sent)) => After(Len(sent))'
  BY <1>1, <1>2, <1>4 DEF After
<1>13. WireOrdered' /\ DataOrdered'
  BY <1>1, <1>12 DEF StreamInv, OrderInv, WireOrdered, DataOrdered
<1> QED
  BY <1>5, <1>6, <1>7, <1>9, <1>10, <1>11, <1>13 DEF StreamInv, OrderInv

(* What neither sends, reads nor takes.                                    *)
LEMMA QuietStep ==
    ASSUME StreamInv, Connect \/ StreamOver \/ Cancelled \/ Rest \/ UNCHANGED vars
    PROVE  StreamInv'
<1>1. /\ UNCHANGED <<provider, sent, wire, closed, dataLines, yielding, received>>
      /\ stopReason' \in {stopReason, "error", "aborted"}
  BY DEF Connect, StreamOver, Cancelled, Rest, vars, readerVars, loopVars
<1>2. (reader = "idle" /\ reader' = "reading") \/ reader' = reader
  BY DEF Connect, StreamOver, Cancelled, Rest, vars, readerVars
<1>3. TypeInv'
  BY <1>1 DEF StreamInv, TypeInv, Reasons
<1>4. HonestInv'
  BY <1>1 DEF StreamInv, HonestInv, Honest, Said
<1>5. FrameInv'
  BY <1>1, <1>2 DEF StreamInv, FrameInv
<1>6. OrderInv'
  BY <1>1, <1>2 DEF StreamInv, FrameInv, OrderInv, TakenInOrder, YieldingOrdered, WireOrdered,
                    DataOrdered, After
<1> QED
  BY <1>3, <1>4, <1>5, <1>6 DEF StreamInv

LEMMA StreamNext == ASSUME StreamInv, [Next]_vars PROVE StreamInv'
BY SendStep, CloseStep, ReadEventStep, ReadLineStep, ReadEndStep, FailStep, TakeEventStep, QuietStep
   DEF Next, Progress

LEMMA StreamAlways == Spec => []StreamInv
BY StreamInit, StreamNext, PTL DEF Spec

-----------------------------------------------------------------------------

(* However the connection ends, a reply counts as complete, or as cut at   *)
(* the output limit, only when the server has said so.                     *)
THEOREM NothingElseIsComplete == Spec => []CompleteOnlyIfSaid
<1>1. StreamInv => CompleteOnlyIfSaid
  BY DEF StreamInv, HonestInv, Honest, Said, CompleteOnlyIfSaid, Range
<1> QED
  BY <1>1, StreamAlways, PTL

(* Nothing of a response is taken twice or out of order.                   *)
THEOREM OrderKept == Spec => []TakenInOrder
<1>1. StreamInv => TakenInOrder
  BY DEF StreamInv, OrderInv
<1> QED
  BY <1>1, StreamAlways, PTL
-----------------------------------------------------------------------------
(* A whole response.  As long as nothing has gone wrong, what has been     *)
(* sent and is not taken or being yielded yet is the frame of the last     *)
(* event, read up to some line, and the same holds of the outcome.         *)

Framed ==
    LET whole == Line("whole", Len(sent))
        first == Line("first", Len(sent))
        rest == Line("rest", Len(sent))
    IN \/ /\ dataLines = <<>>
          /\ wire \in {<<>>, <<whole>>, <<whole, Blank>>, <<first, rest>>, <<first, rest, Blank>>}
       \/ dataLines = <<first>> /\ wire \in {<<rest>>, <<rest, Blank>>}
       \/ dataLines \in {<<whole>>, <<first, rest>>} /\ wire \in {<<>>, <<Blank>>}

Unread(k) == k = Len(sent) /\ reader = "reading" /\ (wire # <<>> \/ dataLines # <<>>)

BeingYielded(k) == \E i \in DOMAIN yielding : yielding[i].type = "delta" /\ yielding[i].of = k

ContentKept ==
    \A k \in ContentSent : Unread(k) \/ k \in Range(received) \/ BeingYielded(k)

TerminalSeen == stopReason # "none" \/ \E i \in DOMAIN yielding : IsTerminal(yielding[i])

OutcomeKept ==
    \A k \in DOMAIN sent : sent[k] \in Outcomes => Unread(k) \/ (terminal /\ TerminalSeen)

IsOutcome(reason) == \E i \in DOMAIN sent : sent[i] \in Outcomes /\ reason = ReasonOf(sent[i])

OutcomeTrue ==
    /\ stopReason # "none" => IsOutcome(stopReason)
    /\ \A i \in DOMAIN yielding : IsTerminal(yielding[i]) => IsOutcome(yielding[i].reason)

ReadToTheEnd ==
    /\ closed => OutcomeSent
    /\ reader = "ended" => closed
    /\ answered => reader = "ended" /\ yielding = <<>>

(* No fault makes the loop take what is no content.                        *)
OnlyContent ==
    /\ \A k \in DOMAIN received : received[k] \in ContentSent
    /\ \A i \in DOMAIN yielding : yielding[i].type = "delta" => yielding[i].of \in ContentSent

WholeInv ==
    /\ OnlyContent
    /\ faults = {} => Framed /\ ContentKept /\ OutcomeKept /\ OutcomeTrue /\ ReadToTheEnd

LEMMA WholeInit == Init => WholeInv
BY DEF Init, WholeInv, OnlyContent, Framed, ContentKept, OutcomeKept, OutcomeTrue, ReadToTheEnd,
       ContentSent

(* A short sequence is the tuple of its elements.                          *)
LEMMA ShortSequence ==
    ASSUME NEW S, NEW s \in Seq(S)
    PROVE  /\ Len(s) = 0 => s = <<>>
           /\ Len(s) = 1 => s = <<s[1]>>
           /\ Len(s) = 2 => s = <<s[1], s[2]>>
<1>1. Len(s) = 0 => s = <<>>
  OBVIOUS
<1>2. ASSUME Len(s) = 1 PROVE s = <<s[1]>>
  <2> DEFINE t == <<s[1]>>
  <2>1. t \in Seq(S) /\ Len(s) = Len(t) /\ \A i \in 1 .. Len(s) : s[i] = t[i]
    BY <1>2
  <2> HIDE DEF t
  <2>2. s = t
    BY <2>1, SeqEqual
  <2> QED
    BY <2>2 DEF t
<1>3. ASSUME Len(s) = 2 PROVE s = <<s[1], s[2]>>
  <2> DEFINE t == <<s[1], s[2]>>
  <2>1. t \in Seq(S) /\ Len(t) = 2 /\ t[1] = s[1] /\ t[2] = s[2]
    <3>1. s[1] \in S /\ s[2] \in S
      BY <1>3, ElementOfSeq
    <3> QED
      BY <3>1
  <2> HIDE DEF t
  <2>2. Len(s) = Len(t) /\ \A i \in 1 .. Len(s) : s[i] = t[i]
    BY <1>3, <2>1
  <2>3. s = t
    BY <2>1, <2>2, SeqEqual
  <2> QED
    BY <2>3 DEF t
<1> QED
  BY <1>1, <1>2, <1>3

(* A sequence less its last element.                                       *)
LEMMA LastDropped ==
    ASSUME NEW S, NEW s \in Seq(S), NEW n \in 0 .. Len(s)
    PROVE  /\ SubSeq(s, n + 1, Len(s)) = <<>> => SubSeq(s, 1, n) = s
           /\ \A e : SubSeq(s, n + 1, Len(s)) = <<e>> =>
                 n = Len(s) - 1 /\ Len(s) > 0 /\ s[Len(s)] = e
           /\ SubSeq(s, 1, n) \in Seq(S) /\ Len(SubSeq(s, 1, n)) = n
           /\ \A i \in 1 .. n : SubSeq(s, 1, n)[i] = s[i]
<1> DEFINE d == SubSeq(s, n + 1, Len(s))
<1>1. Len(s) \in Nat /\ n \in Nat /\ n <= Len(s) /\ \A i \in 1 .. Len(s) : s[i] \in S
  OBVIOUS
<1>2. /\ Len(d) = IF n + 1 <= Len(s) THEN Len(s) - (n + 1) + 1 ELSE 0
      /\ \A i \in 1 .. Len(s) - (n + 1) + 1 : d[i] = s[n + 1 + i - 1]
  BY <1>1, SubSeqProperties
<1>3. /\ SubSeq(s, 1, n) \in Seq(S) /\ Len(SubSeq(s, 1, n)) = n
      /\ \A i \in 1 .. n : SubSeq(s, 1, n)[i] = s[i]
  <2>1. \A i \in 1 .. n : s[i] \in S
    BY <1>1
  <2>2. /\ SubSeq(s, 1, n) \in Seq(S)
        /\ Len(SubSeq(s, 1, n)) = IF 1 <= n THEN n - 1 + 1 ELSE 0
        /\ \A i \in 1 .. n - 1 + 1 : SubSeq(s, 1, n)[i] = s[1 + i - 1]
    BY <1>1, <2>1, SubSeqProperties
  <2> QED
    BY <1>1, <2>2
<1> HIDE DEF d
<1>4. ASSUME d = <<>> PROVE SubSeq(s, 1, n) = s
  <2>1. Len(d) = 0
    BY <1>4
  <2>2. n = Len(s)
    BY <1>1, <1>2, <2>1
  <2> QED
    BY <2>2, SubSeqFull
<1>5. ASSUME NEW e, d = <<e>> PROVE n = Len(s) - 1 /\ Len(s) > 0 /\ s[Len(s)] = e
  <2>1. Len(d) = 1 /\ d[1] = e
    BY <1>5
  <2>2. n = Len(s) - 1
    <3>1. PICK l \in Nat : l = Len(s)
      BY <1>1
    <3>2. 1 = IF n + 1 <= l THEN l - (n + 1) + 1 ELSE 0
      BY <1>2, <2>1, <3>1
    <3>3. n = l - 1
      BY <1>1, <3>2
    <3> QED
      BY <3>1, <3>3
  <2>3. d[1] = s[n + 1 + 1 - 1]
    BY <1>1, <1>2, <2>2
  <2> QED
    BY <1>1, <2>1, <2>2, <2>3
<1>6. /\ d = <<>> => SubSeq(s, 1, n) = s
      /\ \A e : d = <<e>> => n = Len(s) - 1 /\ Len(s) > 0 /\ s[Len(s)] = e
  BY <1>4, <1>5
<1> QED
  BY <1>3, <1>6 DEF d

(* What follows the first of one, two or three.                            *)
LEMMA ShortTails ==
    ASSUME NEW a, NEW b, NEW c
    PROVE  /\ Tail(<<a>>) = <<>> /\ <<a>>[1] = a
           /\ Tail(<<a, b>>) = <<b>> /\ <<a, b>>[1] = a
           /\ Tail(<<a, b, c>>) = <<b, c>> /\ <<a, b, c>>[1] = a
<1>1. Tail(<<a>>) = <<>> /\ <<a>>[1] = a
  OBVIOUS
<1>2. Tail(<<a, b>>) = <<b>> /\ <<a, b>>[1] = a
  OBVIOUS
<1>3. Tail(<<a, b, c>>) = <<b, c>> /\ <<a, b, c>>[1] = a
  OBVIOUS
<1> QED
  BY <1>1, <1>2, <1>3

LEMMA ShortHeads ==
    ASSUME NEW a, NEW b, NEW c, NEW s
    PROVE  /\ s \in {<<a>>, <<a, b>>} => s[1] = a /\ Tail(s) \in {<<>>, <<b>>}
           /\ s \in {<<a, b>>, <<a, b, c>>} => s[1] = a /\ Tail(s) \in {<<b>>, <<b, c>>}
<1>1. ASSUME s = <<a>> PROVE s[1] = a /\ Tail(s) = <<>>
  BY <1>1, ShortTails
<1>2. ASSUME s = <<a, b>> PROVE s[1] = a /\ Tail(s) = <<b>>
  BY <1>2, ShortTails
<1>3. ASSUME s = <<a, b, c>> PROVE s[1] = a /\ Tail(s) = <<b, c>>
  BY <1>3, ShortTails
<1> QED
  BY <1>1, <1>2, <1>3, Zenon

(* What the provider makes of one event says what the event says.          *)
LEMMA NormalizeNews ==
    ASSUME TypeInv, NEW n \in DOMAIN sent, NEW events, events = normalize_openai_event(n)
    PROVE  /\ \A i \in DOMAIN events : events[i].type = "delta" =>
                  events[i].of = n /\ n \in ContentSent
           /\ n \in ContentSent =>
                  \E i \in DOMAIN events : events[i].type = "delta" /\ events[i].of = n
           /\ sent[n] \in Outcomes => \E i \in DOMAIN events : IsTerminal(events[i])
           /\ \A i \in DOMAIN events : IsTerminal(events[i]) => IsOutcome(events[i].reason)
<1>1. sent[n] \in EventTypes
  BY DEF TypeInv
<1>2. CASE sent[n] \in Content
  <2>1. events = <<Delta(n)>>
    BY <1>2 DEF normalize_openai_event, Content
  <2> QED
    BY <1>2, <2>1 DEF Delta, IsTerminal, ContentSent, Content, Outcomes
<1>3. CASE sent[n] \in {"completed", "incomplete"}
  <2>1. events = <<Usage, Done(ReasonOf(sent[n]))>>
    BY <1>3 DEF normalize_openai_event, Content
  <2>2. sent[n] \in Outcomes /\ n \notin ContentSent
    BY <1>3 DEF Outcomes, ContentSent, Content
  <2>3. IsOutcome(ReasonOf(sent[n]))
    BY <2>2 DEF IsOutcome
  <2> QED
    BY <2>1, <2>2, <2>3 DEF Usage, Done, IsTerminal
<1>4. CASE sent[n] \in {"failed", "cancelled"}
  <2>1. events = <<Error(ReasonOf(sent[n]))>>
    BY <1>4 DEF normalize_openai_event, Content
  <2>2. sent[n] \in Outcomes /\ n \notin ContentSent
    BY <1>4 DEF Outcomes, ContentSent, Content
  <2>3. IsOutcome(ReasonOf(sent[n]))
    BY <2>2 DEF IsOutcome
  <2> QED
    BY <2>1, <2>2, <2>3 DEF Error, IsTerminal
<1>5. CASE sent[n] = "other"
  <2>1. events = <<>>
    BY <1>5 DEF normalize_openai_event, Content
  <2> QED
    BY <1>5, <2>1 DEF ContentSent, Content, Outcomes
<1> QED
  BY <1>1, <1>2, <1>3, <1>4, <1>5 DEF EventTypes, Content, Outcomes

(* Whatever lines of the last event are read, no content comes of it that  *)
(* is not its own.                                                         *)
LEMMA SseNews ==
    ASSUME StreamInv, NEW events, events = _events_from_sse_data(dataLines)
    PROVE  \A i \in DOMAIN events : events[i].type = "delta" => events[i].of \in ContentSent
<1>1. CASE dataLines = <<>>
  BY <1>1 DEF _events_from_sse_data
<1>2. CASE dataLines # <<>> /\ IsWhole(dataLines)
  <2>1. dataLines[1].of = Len(sent) /\ Len(sent) \in DOMAIN sent
    BY <1>2 DEF StreamInv, TypeInv, OrderInv, DataOrdered
  <2>2. events = normalize_openai_event(Len(sent))
    BY <1>2, <2>1 DEF _events_from_sse_data
  <2> QED
    BY <2>1, <2>2, NormalizeNews DEF StreamInv
<1>3. CASE dataLines # <<>> /\ ~IsWhole(dataLines)
  <2>1. events = <<Error("error")>>
    BY <1>3 DEF _events_from_sse_data
  <2> QED
    BY <2>1 DEF Error
<1> QED
  BY <1>1, <1>2, <1>3

(* A frame that has been read is the event.                                *)
LEMMA FrameRead ==
    ASSUME StreamInv, Framed, dataLines # <<>>, \A i \in DOMAIN wire : wire[i].data = "blank"
    PROVE  /\ Len(sent) \in DOMAIN sent
           /\ _events_from_sse_data(dataLines) = normalize_openai_event(Len(sent))
<1> DEFINE whole == Line("whole", Len(sent))
           first == Line("first", Len(sent))
           rest == Line("rest", Len(sent))
<1>1. Len(sent) \in DOMAIN sent
  BY DEF StreamInv, TypeInv, OrderInv, DataOrdered
<1>2. dataLines \in {<<whole>>, <<first, rest>>}
  BY DEF Framed, Line
<1>3. dataLines[1].of = Len(sent)
  BY <1>2 DEF Line
<1>4. IsWhole(dataLines)
  BY <1>2, <1>3 DEF IsWhole
<1> QED
  BY <1>1, <1>3, <1>4 DEF _events_from_sse_data

(* The last event has been read.                                           *)
LEMMA NewsYielded ==
    ASSUME StreamInv, WholeInv, faults = {}, yielding = <<>>, Len(sent) \in DOMAIN sent,
           Yield(normalize_openai_event(Len(sent))), UNCHANGED <<sent, received, stopReason>>
    PROVE  ContentKept' /\ OutcomeKept' /\ OutcomeTrue'
<1> DEFINE n == Len(sent)
<1>1. PICK events : events = normalize_openai_event(n)
  OBVIOUS
<1>2. /\ yielding' = events
      /\ terminal' = (terminal \/ \E i \in DOMAIN events : IsTerminal(events[i]))
  BY <1>1 DEF Yield
<1>3. /\ n \in ContentSent =>
             \E i \in DOMAIN events : events[i].type = "delta" /\ events[i].of = n
      /\ sent[n] \in Outcomes => \E i \in DOMAIN events : IsTerminal(events[i])
      /\ \A i \in DOMAIN events : IsTerminal(events[i]) => IsOutcome(events[i].reason)
  BY <1>1, NormalizeNews DEF StreamInv
<1>4. ContentKept'
  BY <1>2, <1>3 DEF WholeInv, ContentKept, Unread, BeingYielded, ContentSent
<1>5. OutcomeKept'
  <2> SUFFICES ASSUME NEW k \in DOMAIN sent, sent[k] \in Outcomes PROVE (terminal /\ TerminalSeen)'
    BY DEF OutcomeKept
  <2>1. \/ \E i \in DOMAIN events : IsTerminal(events[i])
        \/ terminal /\ stopReason # "none"
    <3>1. CASE k = n
      BY <1>3, <3>1
    <3>2. CASE k # n
      BY <3>2 DEF WholeInv, OutcomeKept, Unread, TerminalSeen
    <3> QED
      BY <3>1, <3>2
  <2>2. terminal'
    BY <1>2, <2>1, Zenon
  <2>3. TerminalSeen'
    BY <1>2, <2>1 DEF TerminalSeen
  <2> QED
    BY <2>2, <2>3
<1>6. OutcomeTrue'
  BY <1>2, <1>3 DEF WholeInv, OutcomeTrue, IsOutcome
<1> QED
  BY <1>4, <1>5, <1>6

-----------------------------------------------------------------------------

LEMMA SendWhole == ASSUME StreamInv, WholeInv, Send PROVE WholeInv'
<1>1. PICK type \in EventTypes : sent' = Append(sent, type)
  BY DEF Send
<1>2. /\ reader = "reading" /\ ~closed /\ wire = <<>> /\ dataLines = <<>>
      /\ UNCHANGED <<closed, reader, dataLines, terminal, yielding, received, stopReason, answered>>
  BY DEF Send, readerVars, loopVars, StreamInv, FrameInv
<1>3. /\ Len(sent) \in Nat /\ Len(sent') = Len(sent) + 1
      /\ DOMAIN sent' = DOMAIN sent \cup {Len(sent')}
      /\ \A i \in DOMAIN sent : sent'[i] = sent[i]
  <2>1. sent \in Seq(EventTypes)
    BY DEF StreamInv, TypeInv
  <2> QED
    BY <1>1, <2>1
<1>4. ContentSent \subseteq ContentSent' /\ ContentSent' \subseteq ContentSent \cup {Len(sent')}
  BY <1>3 DEF ContentSent
<1>5. OnlyContent'
  BY <1>2, <1>4 DEF WholeInv, OnlyContent
<1>6. ASSUME faults' = {}
      PROVE  Framed' /\ ContentKept' /\ OutcomeKept' /\ OutcomeTrue' /\ ReadToTheEnd'
  <2>1. PICK lines \in Framings(Len(sent')) :
            /\ wire' = lines
            /\ faults' = IF Line("stray", Len(sent')) \in Range(lines)
                           THEN faults \cup {"broken line"} ELSE faults
    BY DEF Send
  <2>2. faults = {} /\ Line("stray", Len(sent')) \notin Range(wire')
    BY <1>6, <2>1
  <2> DEFINE n == Len(sent')
  <2>3. wire' \in {<<Line("whole", n)>>, <<Line("whole", n), Blank>>,
                   <<Line("first", n), Line("rest", n), Blank>>}
    <3>1. wire' # <<Line("first", n), Line("stray", n), Blank>>
      <4> SUFFICES ASSUME wire' = <<Line("first", n), Line("stray", n), Blank>> PROVE FALSE
        OBVIOUS
      <4>1. 2 \in DOMAIN wire' /\ wire'[2] = Line("stray", n)
        OBVIOUS
      <4> QED
        BY <2>2, <4>1 DEF Range
    <3> QED
      BY <2>1, <3>1 DEF Framings
  <2>4. Framed' /\ wire' # <<>>
    BY <1>2, <2>3 DEF Framed, Blank
  <2>5. ContentKept'
    BY <1>2, <1>4, <2>2, <2>4 DEF WholeInv, ContentKept, Unread, BeingYielded
  <2>6. OutcomeKept'
    BY <1>2, <1>3, <2>2, <2>4 DEF WholeInv, OutcomeKept, Unread, TerminalSeen
  <2>7. \A r : IsOutcome(r) => IsOutcome(r)'
    BY <1>3 DEF IsOutcome
  <2>8. OutcomeTrue' /\ ReadToTheEnd'
    BY <1>2, <2>2, <2>7 DEF WholeInv, OutcomeTrue, ReadToTheEnd
  <2> QED
    BY <2>4, <2>5, <2>6, <2>8
<1> QED
  BY <1>5, <1>6 DEF WholeInv

LEMMA CloseWhole == ASSUME StreamInv, WholeInv, Close PROVE WholeInv'
<1>1. /\ reader = "reading" /\ ~closed /\ closed' = TRUE
      /\ UNCHANGED <<provider, sent, reader, dataLines, terminal, yielding, received, stopReason,
                     answered>>
  BY DEF Close, readerVars, loopVars
<1>2. OnlyContent'
  BY <1>1 DEF WholeInv, OnlyContent, ContentSent
<1>3. ASSUME faults' = {}
      PROVE  Framed' /\ ContentKept' /\ OutcomeKept' /\ OutcomeTrue' /\ ReadToTheEnd'
  <2>1. PICK n \in 0 .. Len(wire) :
            /\ wire' = SubSeq(wire, 1, n)
            /\ faults = {} /\ OutcomeSent
            /\ SubSeq(wire, n + 1, Len(wire)) \in {<<>>, <<Blank>>}
    BY <1>3 DEF Close
  <2>2. wire \in Seq(Lines)
    BY DEF StreamInv, TypeInv
  <2>3. \/ wire' = wire
        \/ /\ n = Len(wire) - 1 /\ Len(wire) > 0 /\ wire[Len(wire)] = Blank
           /\ wire' \in Seq(Lines) /\ Len(wire') = n
           /\ \A i \in 1 .. n : wire'[i] = wire[i]
    BY <2>1, <2>2, LastDropped
  <2>4. Framed' /\ (wire # <<>> \/ dataLines # <<>> => wire' # <<>> \/ dataLines' # <<>>)
    <3> DEFINE whole == Line("whole", Len(sent))
               first == Line("first", Len(sent))
               rest == Line("rest", Len(sent))
    <3>1. Framed /\ whole # Blank /\ first # Blank /\ rest # Blank
      BY <2>1 DEF WholeInv, Line, Blank
    <3>2. CASE wire' = wire
      BY <1>1, <3>1, <3>2 DEF Framed, Blank
    <3>3. CASE /\ n = Len(wire) - 1 /\ Len(wire) > 0 /\ wire[Len(wire)] = Blank
               /\ wire' \in Seq(Lines) /\ Len(wire') = n
               /\ \A i \in 1 .. n : wire'[i] = wire[i]
      <4>1. /\ Len(wire') = 0 => wire' = <<>>
            /\ Len(wire') = 1 => wire' = <<wire'[1]>>
            /\ Len(wire') = 2 => wire' = <<wire'[1], wire'[2]>>
        BY <3>3, ShortSequence
      <4>2. /\ \/ /\ dataLines = <<>>
                  /\ wire \in {<<>>, <<whole>>, <<whole, Blank>>, <<first, rest>>,
                               <<first, rest, Blank>>}
               \/ dataLines = <<first>> /\ wire \in {<<rest>>, <<rest, Blank>>}
               \/ dataLines \in {<<whole>>, <<first, rest>>} /\ wire \in {<<>>, <<Blank>>}
            /\ \/ dataLines = <<>> /\ wire' \in {<<whole>>, <<first, rest>>}
               \/ dataLines = <<first>> /\ wire' = <<rest>>
               \/ dataLines \in {<<whole>>, <<first, rest>>} /\ wire' = <<>>
               => Framed'
        BY <1>1, <3>1 DEF Framed
      <4> HIDE DEF whole, first, rest
      <4>3. CASE dataLines = <<>> /\ wire \in {<<>>, <<whole>>, <<first, rest>>}
        <5>1. wire[Len(wire)] \in {whole, rest}
          BY <3>3, <4>3
        <5> QED
          BY <3>1, <3>3, <5>1
      <4>4. CASE dataLines = <<>> /\ wire = <<whole, Blank>>
        <5>1. wire' = <<whole>>
          BY <3>3, <4>1, <4>4
        <5> QED
          BY <4>2, <4>4, <5>1
      <4>5. CASE dataLines = <<>> /\ wire = <<first, rest, Blank>>
        <5>1. wire' = <<first, rest>>
          BY <3>3, <4>1, <4>5
        <5> QED
          BY <4>2, <4>5, <5>1
      <4>6. CASE dataLines = <<first>> /\ wire = <<rest>>
        BY <3>1, <3>3, <4>6
      <4>7. CASE dataLines = <<first>> /\ wire = <<rest, Blank>>
        <5>1. wire' = <<rest>>
          BY <3>3, <4>1, <4>7
        <5> QED
          BY <4>2, <4>7, <5>1
      <4>8. CASE dataLines \in {<<whole>>, <<first, rest>>} /\ wire \in {<<>>, <<Blank>>}
        <5>1. wire' = <<>>
          BY <3>3, <4>1, <4>8
        <5>2. dataLines' # <<>>
          BY <1>1, <4>8
        <5> QED
          BY <4>2, <4>8, <5>1, <5>2
      <4> QED
        BY <4>2, <4>3, <4>4, <4>5, <4>6, <4>7, <4>8
    <3> QED
      BY <2>3, <3>2, <3>3
  <2>5. ContentKept'
    BY <1>1, <2>1, <2>4 DEF WholeInv, ContentKept, Unread, BeingYielded, ContentSent
  <2>6. OutcomeKept'
    BY <1>1, <2>1, <2>4 DEF WholeInv, OutcomeKept, Unread, TerminalSeen
  <2>7. OutcomeTrue' /\ ReadToTheEnd'
    BY <1>1, <2>1 DEF WholeInv, OutcomeTrue, IsOutcome, ReadToTheEnd, OutcomeSent
  <2> QED
    BY <2>4, <2>5, <2>6, <2>7
<1> QED
  BY <1>2, <1>3 DEF WholeInv

LEMMA ReadEventWhole == ASSUME StreamInv, WholeInv, ReadEvent PROVE WholeInv'
<1> DEFINE n == Len(sent)
<1>1. /\ provider = "openai" /\ wire # <<>> /\ wire' = Tail(wire)
      /\ reader = "reading" /\ yielding = <<>> /\ ~answered
      /\ Yield(normalize_openai_event(Head(wire).of))
      /\ UNCHANGED <<provider, sent, closed, reader, dataLines, received, stopReason, answered,
                     faults>>
  BY DEF ReadEvent, AtWork, loopVars
<1>2. wire' = <<>> /\ Head(wire) = wire[1] /\ 1 \in DOMAIN wire /\ dataLines = <<>>
  BY <1>1, TailOfWire, Numbers DEF StreamInv, FrameInv
<1>3. Head(wire).of = n /\ n \in DOMAIN sent
  BY <1>1, <1>2 DEF StreamInv, TypeInv, FrameInv, OrderInv, WireOrdered
<1>4. \A i \in DOMAIN yielding' : yielding'[i].type = "delta" => yielding'[i].of \in ContentSent
  BY <1>1, <1>3, NormalizeNews DEF StreamInv, Yield
<1>5. OnlyContent'
  BY <1>1, <1>4 DEF WholeInv, OnlyContent, ContentSent
<1>6. ASSUME faults' = {}
      PROVE  Framed' /\ ContentKept' /\ OutcomeKept' /\ OutcomeTrue' /\ ReadToTheEnd'
  <2>1. ContentKept' /\ OutcomeKept' /\ OutcomeTrue'
    BY <1>1, <1>3, <1>6, NewsYielded
  <2>2. Framed'
    BY <1>1, <1>2 DEF Framed
  <2>3. ReadToTheEnd'
    BY <1>1, <1>6 DEF WholeInv, ReadToTheEnd, OutcomeSent
  <2> QED
    BY <2>1, <2>2, <2>3
<1> QED
  BY <1>5, <1>6 DEF WholeInv

LEMMA ReadLineWhole == ASSUME StreamInv, WholeInv, ReadLine PROVE WholeInv'
<1> DEFINE n == Len(sent)
           line == Head(wire)
<1>1. /\ wire # <<>> /\ wire' = Tail(wire)
      /\ reader = "reading" /\ yielding = <<>> /\ ~answered
      /\ UNCHANGED <<sent, closed, reader, received, stopReason, answered, faults>>
  BY DEF ReadLine, AtWork, loopVars
<1>2. faults' = {} => ReadToTheEnd'
  BY <1>1 DEF WholeInv, ReadToTheEnd, OutcomeSent
<1>3. CASE line = Blank
  <2>1. Yield(_events_from_sse_data(dataLines)) /\ dataLines' = <<>>
    BY <1>3 DEF ReadLine, Blank, Line, Cleared
  <2>2. OnlyContent'
    BY <1>1, <2>1, SseNews DEF WholeInv, OnlyContent, ContentSent, Yield
  <2>3. ASSUME faults' = {} PROVE Framed' /\ ContentKept' /\ OutcomeKept' /\ OutcomeTrue'
    <3>1. dataLines # <<>> /\ wire = <<Blank>>
      <4>1. line = wire[1] /\ wire[1].data = "blank"
        BY <1>1, <1>3, TailOfWire DEF Blank, Line
      <4>2. Framed
        BY <1>1, <2>3 DEF WholeInv
      <4> QED
        BY <1>1, <4>1, <4>2 DEF Framed, Line, Blank
    <3>2. /\ n \in DOMAIN sent
          /\ Yield(normalize_openai_event(n))
      BY <1>1, <2>1, <2>3, <3>1, FrameRead DEF WholeInv, Blank, Line
    <3>3. ContentKept' /\ OutcomeKept' /\ OutcomeTrue'
      BY <1>1, <2>3, <3>2, NewsYielded
    <3>4. Framed'
      BY <1>1, <2>1, <3>1 DEF Framed
    <3> QED
      BY <3>3, <3>4
  <2> QED
    BY <1>2, <2>2, <2>3 DEF WholeInv
<1>4. CASE line # Blank
  <2>1. /\ UNCHANGED <<terminal, yielding>>
        /\ \/ line.data \in {"whole", "first", "rest"} /\ dataLines' = Append(dataLines, line)
           \/ line.data = "stray" /\ dataLines' = dataLines
    BY <1>4 DEF ReadLine, DataLines
  <2>2. OnlyContent'
    BY <1>1, <2>1 DEF WholeInv, OnlyContent, ContentSent
  <2>3. ASSUME faults' = {} PROVE Framed' /\ ContentKept' /\ OutcomeKept' /\ OutcomeTrue'
    <3>1. Framed
      BY <1>1, <2>3 DEF WholeInv
    <3>2. Framed' /\ dataLines' # <<>>
      <4> DEFINE whole == Line("whole", n)
                 first == Line("first", n)
                 rest == Line("rest", n)
      <4>1. /\ dataLines \in Seq(Lines) /\ line \in Lines /\ wire \in Seq(Lines)
            /\ line = wire[1]
        BY <1>1, TailOfWire DEF StreamInv, TypeInv
      <4>2. line \in {whole, first, rest}
        BY <1>1, <1>4, <3>1, <4>1 DEF Framed
      <4>3. dataLines' = Append(dataLines, line)
        BY <2>1, <4>2 DEF Line
      <4>4. /\ dataLines' \in Seq(Lines) /\ Len(dataLines') = Len(dataLines) + 1
            /\ \A i \in 1 .. Len(dataLines) : dataLines'[i] = dataLines[i]
            /\ dataLines'[Len(dataLines) + 1] = line
        BY <4>1, <4>3, AppendProperties
      <4>5. /\ Len(dataLines') = 1 => dataLines' = <<dataLines'[1]>>
            /\ Len(dataLines') = 2 => dataLines' = <<dataLines'[1], dataLines'[2]>>
        BY <4>4, ShortSequence
      <4>6. whole # Blank /\ first # Blank /\ rest # Blank
        BY DEF Line, Blank
      <4>7. /\ \/ /\ dataLines = <<>>
                  /\ wire \in {<<>>, <<whole>>, <<whole, Blank>>, <<first, rest>>,
                               <<first, rest, Blank>>}
               \/ dataLines = <<first>> /\ wire \in {<<rest>>, <<rest, Blank>>}
               \/ dataLines \in {<<whole>>, <<first, rest>>} /\ wire \in {<<>>, <<Blank>>}
            /\ \/ dataLines' = <<first>> /\ wire' \in {<<rest>>, <<rest, Blank>>}
               \/ dataLines' \in {<<whole>>, <<first, rest>>} /\ wire' \in {<<>>, <<Blank>>}
               => Framed'
        BY <1>1, <3>1 DEF Framed, Blank
      <4> HIDE DEF whole, first, rest, line
      <4>8. dataLines = <<>> => dataLines' = <<line>>
        BY <4>4, <4>5
      <4>9. CASE dataLines = <<>> /\ wire \in {<<whole>>, <<whole, Blank>>}
        <5>1. line = whole /\ wire' \in {<<>>, <<Blank>>}
          BY <1>1, <4>1, <4>9, ShortHeads, Zenon
        <5> QED
          BY <4>7, <4>8, <4>9, <5>1
      <4>10. CASE dataLines = <<>> /\ wire \in {<<first, rest>>, <<first, rest, Blank>>}
        <5>1. line = first /\ wire' \in {<<rest>>, <<rest, Blank>>}
          <6>1. wire \in {<<first, rest>>, <<first, rest, Blank>>}
            BY <4>10
          <6>2. wire[1] = first /\ Tail(wire) \in {<<rest>>, <<rest, Blank>>}
            BY <6>1, ShortHeads, Zenon
          <6> QED
            BY <1>1, <4>1, <6>2
        <5> QED
          BY <4>7, <4>8, <4>10, <5>1
      <4>11. CASE dataLines = <<first>> /\ wire \in {<<rest>>, <<rest, Blank>>}
        <5>1. line = rest /\ wire' \in {<<>>, <<Blank>>}
          BY <1>1, <4>1, <4>11, ShortHeads, Zenon
        <5>2. dataLines' = <<first, rest>>
          BY <4>4, <4>5, <4>11, <5>1
        <5> QED
          BY <4>7, <5>1, <5>2
      <4>12. CASE wire \in {<<>>, <<Blank>>}
        <5>1. line = Blank
          BY <1>1, <4>1, <4>12
        <5> QED
          BY <1>4, <5>1 DEF line
      <4>13. Framed'
        BY <4>7, <4>9, <4>10, <4>11, <4>12
      <4> QED
        BY <4>4, <4>13
    <3>3. ContentKept'
      BY <1>1, <2>1, <2>3, <3>2 DEF WholeInv, ContentKept, Unread, BeingYielded, ContentSent
    <3>4. OutcomeKept' /\ OutcomeTrue'
      BY <1>1, <2>1, <2>3, <3>2
      DEF WholeInv, OutcomeKept, Unread, TerminalSeen, OutcomeTrue, IsOutcome
    <3> QED
      BY <3>2, <3>3, <3>4
  <2> QED
    BY <1>2, <2>2, <2>3 DEF WholeInv
<1> QED
  BY <1>3, <1>4

LEMMA ReadEndWhole == ASSUME StreamInv, WholeInv, ReadEnd PROVE WholeInv'
<1>1. PICK events : events = _events_from_sse_data(dataLines)
  OBVIOUS
<1> DEFINE over == terminal \/ \E i \in DOMAIN events : IsTerminal(events[i])
<1>2. /\ closed /\ wire = <<>> /\ reader = "reading" /\ reader' = "ended"
      /\ yielding = <<>> /\ ~answered
      /\ Yield(IF over THEN events ELSE Append(events, Error("error")))
      /\ UNCHANGED <<sent, wire, closed, dataLines, received, stopReason, answered, faults>>
  BY <1>1 DEF ReadEnd, AtWork, EventsAtEnd, loopVars
<1>3. OnlyContent'
  <2>1. \A i \in DOMAIN yielding' :
            \/ yielding'[i] = Error("error")
            \/ i \in DOMAIN events /\ yielding'[i] = events[i]
    <3>1. events \in Seq(Events)
      <4>1. dataLines \in Seq(Lines) /\ TypeInv
        BY DEF StreamInv, TypeInv
      <4>2. \A i \in DOMAIN dataLines : dataLines[i].of = Len(sent) /\ Len(sent) \in DOMAIN sent
        BY DEF StreamInv, TypeInv, OrderInv, DataOrdered
      <4> QED
        BY <1>1, <4>1, <4>2, SseStem DEF Stem
    <3>2. yielding' = events \/ yielding' = Append(events, Error("error"))
      BY <1>2 DEF Yield
    <3> QED
      BY <3>1, <3>2
  <2>2. \A i \in DOMAIN events : events[i].type = "delta" => events[i].of \in ContentSent
    BY <1>1, SseNews
  <2>3. \A i \in DOMAIN yielding' : yielding'[i].type = "delta" => yielding'[i].of \in ContentSent
    BY <2>1, <2>2 DEF Error
  <2> QED
    BY <1>2, <2>3 DEF WholeInv, OnlyContent, ContentSent
<1>4. ASSUME faults' = {}
      PROVE  Framed' /\ ContentKept' /\ OutcomeKept' /\ OutcomeTrue' /\ ReadToTheEnd'
  <2>1. Framed /\ ContentKept /\ OutcomeKept /\ OutcomeTrue /\ ReadToTheEnd
    BY <1>2, <1>4 DEF WholeInv
  <2>2. PICK k \in DOMAIN sent : sent[k] \in Outcomes
    BY <1>2, <2>1 DEF ReadToTheEnd, OutcomeSent
  <2>3. Framed' /\ ReadToTheEnd'
    BY <1>2, <2>1 DEF Framed, ReadToTheEnd, OutcomeSent
  <2>4. CASE dataLines = <<>>
    <3>1. events = <<>>
      BY <1>1, <2>4 DEF _events_from_sse_data
    <3>2. terminal
      BY <1>2, <2>1, <2>2, <2>4 DEF OutcomeKept, Unread
    <3>3. yielding' = <<>> /\ terminal'
      BY <1>2, <3>1, <3>2 DEF Yield
    <3>4. ContentKept' /\ OutcomeKept' /\ OutcomeTrue'
      BY <1>2, <2>1, <2>4, <3>3
      DEF ContentKept, OutcomeKept, OutcomeTrue, Unread, BeingYielded, ContentSent, TerminalSeen,
          IsOutcome
    <3> QED
      BY <2>3, <3>4
  <2>5. CASE dataLines # <<>>
    <3>1. Len(sent) \in DOMAIN sent /\ events = normalize_openai_event(Len(sent))
      BY <1>1, <1>2, <2>1, <2>5, FrameRead
    <3>2. over
      <4>1. CASE k = Len(sent)
        BY <2>2, <3>1, <4>1, NormalizeNews DEF StreamInv
      <4>2. CASE k # Len(sent)
        BY <2>1, <2>2, <4>2 DEF OutcomeKept, Unread
      <4> QED
        BY <4>1, <4>2
    <3>3. ContentKept' /\ OutcomeKept' /\ OutcomeTrue'
      BY <1>2, <1>4, <3>1, <3>2, NewsYielded
    <3> QED
      BY <2>3, <3>3
  <2> QED
    BY <2>4, <2>5
<1> QED
  BY <1>3, <1>4 DEF WholeInv

(* A fault takes no content that is none.                                  *)
LEMMA FaultWhole == ASSUME StreamInv, WholeInv, Refused \/ ReadFails \/ Cancelled PROVE WholeInv'
<1>1. /\ faults' # {} /\ UNCHANGED <<sent, received>>
      /\ yielding' = yielding \/ yielding' = <<Error("error")>>
  BY DEF Refused, ReadFails, Cancelled, Yield, readerVars, loopVars
<1>2. OnlyContent'
  BY <1>1 DEF WholeInv, OnlyContent, ContentSent, Error
<1> QED
  BY <1>1, <1>2 DEF WholeInv

LEMMA TakeEventWhole == ASSUME StreamInv, WholeInv, TakeEvent PROVE WholeInv'
<1> DEFINE event == Head(yielding)
<1>1. /\ yielding # <<>> /\ yielding' = Tail(yielding)
      /\ received' = IF event.type = "delta" THEN Append(received, event.of) ELSE received
      /\ stopReason' = IF IsTerminal(event) THEN event.reason ELSE stopReason
      /\ ~answered
      /\ UNCHANGED <<sent, wire, closed, reader, dataLines, terminal, answered, faults>>
  BY DEF TakeEvent
<1>2. /\ yielding \in Seq(Events) /\ event = yielding[1] /\ 1 \in DOMAIN yielding
      /\ event \in Events /\ received \in Seq(Nat)
  BY <1>1 DEF StreamInv, TypeInv
<1>3. /\ \A i \in DOMAIN yielding' : i + 1 \in DOMAIN yielding /\ yielding'[i] = yielding[i + 1]
      /\ \A i \in DOMAIN yielding : i = 1 \/ (i - 1 \in DOMAIN yielding' /\ yielding[i] = yielding'[i - 1])
  BY <1>1, <1>2
<1>4. event.of \in Nat
  BY <1>2 DEF Events
<1> HIDE DEF event
<1>5. /\ \A k \in DOMAIN received' : received'[k] \in Range(received)
                                    \/ (event.type = "delta" /\ received'[k] = event.of)
      /\ Range(received) \subseteq Range(received')
      /\ event.type = "delta" => event.of \in Range(received')
  <2>1. CASE event.type = "delta"
    <3>1. /\ DOMAIN received' = DOMAIN received \cup {Len(received) + 1}
          /\ received'[Len(received) + 1] = event.of
          /\ \A k \in DOMAIN received : received'[k] = received[k]
      BY <1>1, <1>2, <1>4, <2>1
    <3> QED
      BY <2>1, <3>1 DEF Range
  <2>2. CASE event.type # "delta"
    BY <1>1, <2>2 DEF Range
  <2> QED
    BY <2>1, <2>2
<1>6. OnlyContent'
  BY <1>1, <1>2, <1>3, <1>5 DEF WholeInv, OnlyContent, ContentSent, Range
<1>7. ASSUME faults' = {}
      PROVE  Framed' /\ ContentKept' /\ OutcomeKept' /\ OutcomeTrue' /\ ReadToTheEnd'
  <2>1. Framed /\ ContentKept /\ OutcomeKept /\ OutcomeTrue /\ ReadToTheEnd
    BY <1>1, <1>7 DEF WholeInv
  <2>2. Framed' /\ ReadToTheEnd'
    BY <1>1, <2>1 DEF Framed, ReadToTheEnd, OutcomeSent
  <2>3. \A k : Unread(k)' <=> Unread(k)
    BY <1>1 DEF Unread
  <2>4. ContentKept'
    <3>1. ASSUME NEW k, BeingYielded(k) PROVE BeingYielded(k)' \/ k \in Range(received')
      BY <1>2, <1>3, <1>5, <3>1 DEF BeingYielded
    <3> QED
      BY <1>1, <1>5, <2>1, <2>3, <3>1 DEF ContentKept, ContentSent
  <2>5. IsTerminal(event) => IsOutcome(event.reason) /\ event.reason # "none"
    <3>1. \A t \in Outcomes : ReasonOf(t) # "none"
      BY DEF Outcomes, ReasonOf
    <3> QED
      BY <1>2, <2>1, <3>1 DEF OutcomeTrue, IsOutcome
  <2>6. TerminalSeen => TerminalSeen'
    BY <1>1, <1>2, <1>3, <2>5 DEF TerminalSeen
  <2>7. OutcomeKept'
    BY <1>1, <2>1, <2>3, <2>6 DEF OutcomeKept
  <2>8. OutcomeTrue'
    BY <1>1, <1>3, <2>1, <2>5 DEF OutcomeTrue, IsOutcome
  <2> QED
    BY <2>2, <2>4, <2>7, <2>8
<1> QED
  BY <1>6, <1>7 DEF WholeInv

(* The end of the stream finds an outcome: it adds none of its own.        *)
LEMMA QuietWhole ==
    ASSUME StreamInv, WholeInv, Connect \/ StreamOver \/ Rest \/ UNCHANGED vars
    PROVE  WholeInv'
<1>1. UNCHANGED <<sent, wire, closed, dataLines, terminal, yielding, received, faults>>
  BY DEF Connect, StreamOver, Rest, vars, readerVars, loopVars
<1>2. OnlyContent'
  BY <1>1 DEF WholeInv, OnlyContent, ContentSent
<1>3. ASSUME faults' = {}
      PROVE  Framed' /\ ContentKept' /\ OutcomeKept' /\ OutcomeTrue' /\ ReadToTheEnd'
  <2>1. Framed /\ ContentKept /\ OutcomeKept /\ OutcomeTrue /\ ReadToTheEnd
    BY <1>1, <1>3 DEF WholeInv
  <2>2. Framed'
    BY <1>1, <2>1 DEF Framed
  <2>3. CASE Connect
    <3>1. reader = "idle" /\ reader' = "reading" /\ UNCHANGED <<stopReason, answered>>
      BY <2>3 DEF Connect, loopVars
    <3>2. ContentKept' /\ OutcomeKept' /\ OutcomeTrue' /\ ReadToTheEnd'
      BY <1>1, <2>1, <3>1
      DEF ContentKept, OutcomeKept, OutcomeTrue, ReadToTheEnd, Unread, BeingYielded, ContentSent,
          TerminalSeen, IsOutcome, OutcomeSent
    <3> QED
      BY <2>2, <3>2
  <2>4. CASE StreamOver
    <3>1. /\ reader = "ended" /\ yielding = <<>> /\ reader' = reader
          /\ stopReason' = IF stopReason = "none" THEN "error" ELSE stopReason
      BY <2>4 DEF StreamOver, readerVars
    <3>2. PICK k \in DOMAIN sent : sent[k] \in Outcomes
      BY <2>1, <3>1 DEF ReadToTheEnd, OutcomeSent
    <3>3. stopReason # "none"
      BY <2>1, <3>1, <3>2 DEF OutcomeKept, Unread, TerminalSeen
    <3>4. ContentKept' /\ OutcomeKept' /\ OutcomeTrue' /\ ReadToTheEnd'
      BY <1>1, <2>1, <3>1, <3>3
      DEF ContentKept, OutcomeKept, OutcomeTrue, ReadToTheEnd, Unread, BeingYielded, ContentSent,
          TerminalSeen, IsOutcome, OutcomeSent
    <3> QED
      BY <2>2, <3>4
  <2>5. CASE Rest \/ UNCHANGED vars
    <3>1. UNCHANGED <<reader, stopReason, answered>>
      BY <2>5 DEF Rest, vars, readerVars, loopVars
    <3>2. ContentKept' /\ OutcomeKept' /\ OutcomeTrue' /\ ReadToTheEnd'
      BY <1>1, <2>1, <3>1
      DEF ContentKept, OutcomeKept, OutcomeTrue, ReadToTheEnd, Unread, BeingYielded, ContentSent,
          TerminalSeen, IsOutcome, OutcomeSent
    <3> QED
      BY <2>2, <3>2
  <2> QED
    BY <2>3, <2>4, <2>5
<1> QED
  BY <1>2, <1>3 DEF WholeInv

LEMMA WholeNext == ASSUME StreamInv, WholeInv, [Next]_vars PROVE WholeInv'
BY SendWhole, CloseWhole, ReadEventWhole, ReadLineWhole, ReadEndWhole, FaultWhole, TakeEventWhole,
   QuietWhole
DEF Next, Progress

(* openai.py:60-75, openai_codex.py:68-88 and loop.py:278-330: a response  *)
(* that arrives whole, in whatever frames and of whatever length, is taken *)
(* whole, each delta once and in order, with the outcome the server gave.  *)
THEOREM NothingLost == Spec => []WholeResponseTaken
<1>1. StreamInv /\ WholeInv => WholeResponseTaken
  <2> SUFFICES ASSUME StreamInv, WholeInv, answered, faults = {}
               PROVE  /\ EverythingTaken
                      /\ \E i \in DOMAIN sent :
                            sent[i] \in Outcomes /\ stopReason = ReasonOf(sent[i])
    BY DEF WholeResponseTaken
  <2>1. /\ ContentKept /\ OutcomeKept /\ OutcomeTrue /\ OutcomeSent
        /\ reader = "ended" /\ yielding = <<>>
    BY DEF WholeInv, ReadToTheEnd
  <2>2. Range(received) = ContentSent
    BY <2>1 DEF WholeInv, OnlyContent, ContentKept, Unread, BeingYielded, Range
  <2>3. stopReason # "none"
    BY <2>1 DEF OutcomeSent, OutcomeKept, Unread, TerminalSeen
  <2> QED
    BY <2>1, <2>2, <2>3 DEF StreamInv, OrderInv, EverythingTaken, OutcomeTrue, IsOutcome
<1> QED
  BY <1>1, StreamAlways, WholeInit, WholeNext, PTL DEF Spec

=============================================================================
