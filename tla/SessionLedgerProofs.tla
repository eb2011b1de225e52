-------------------------- MODULE SessionLedgerProofs --------------------------
(***************************************************************************)
(* Proofs about SessionLedger, for any number of entries, crashes and      *)
(* failed writes, and whatever each of them leaves of a line.              *)
(***************************************************************************)
EXTENDS SessionLedger, SequenceTheorems, TLAPS

Numbered == Nat \ {0}
Pieces == [entry : Numbered, extent : {"text", "character", "json"}]
Lines == [pieces : Seq(Pieces) \ {<<>>}, ended : BOOLEAN]

(* Only the last line may lack its newline; an ended line of one piece is  *)
(* an entry.                                                               *)
Shaped(lines) ==
    /\ lines \in Seq(Lines)
    /\ \A i \in 1 .. Len(lines) :
          /\ i < Len(lines) => lines[i].ended = TRUE
          /\ lines[i].ended = TRUE /\ Len(lines[i].pieces) = 1 => Parses(lines[i])

-----------------------------------------------------------------------------
(* Sequences.                                                              *)

LEMMA FrontIs ==
    ASSUME NEW S, NEW s \in Seq(S), s # <<>>
    PROVE  /\ Front(s) \in Seq(S) /\ Len(s) \in Nat \ {0}
           /\ Len(Front(s)) = Len(s) - 1
           /\ \A i \in 1 .. Len(s) - 1 : Front(s)[i] = s[i]
<1>1. PICK n \in Nat : n = Len(s) - 1
  BY EmptySeq
<1>2. \A i \in 1 .. n : s[i] \in S
  BY <1>1
<1>3. /\ SubSeq(s, 1, n) \in Seq(S)
      /\ Len(SubSeq(s, 1, n)) = IF 1 <= n THEN n - 1 + 1 ELSE 0
      /\ \A i \in 1 .. n - 1 + 1 : SubSeq(s, 1, n)[i] = s[1 + i - 1]
  BY <1>1, <1>2, SubSeqProperties
<1>4. Front(s) = SubSeq(s, 1, n)
  BY <1>1 DEF Front
<1> QED
  BY <1>1, <1>3, <1>4

LEMMA MoreIs ==
    ASSUME NEW S, NEW s \in Seq(S), NEW e \in S
    PROVE  /\ Append(s, e) \in Seq(S) /\ Len(s) \in Nat
           /\ Len(Append(s, e)) = Len(s) + 1 /\ Append(s, e) # <<>>
           /\ Append(s, e)[Len(s) + 1] = e
           /\ \A i \in 1 .. Len(s) : Append(s, e)[i] = s[i]
<1>1. /\ Append(s, e) \in Seq(S) /\ Len(s) \in Nat
      /\ Len(Append(s, e)) = Len(s) + 1
      /\ Append(s, e)[Len(s) + 1] = e
      /\ \A i \in 1 .. Len(s) : Append(s, e)[i] = s[i]
  BY AppendProperties
<1>2. Append(s, e) # <<>>
  BY <1>1
<1> QED
  BY <1>1, <1>2

-----------------------------------------------------------------------------
(* What a write makes of the file.                                         *)

PieceOf(entry, extent) == Piece(entry, IF extent = "whole" THEN "json" ELSE extent)

LEMMA PieceTyped ==
    ASSUME NEW entry \in Numbered, NEW extent \in Extents, extent # "nothing"
    PROVE  PieceOf(entry, extent) \in Pieces
BY DEF PieceOf, Piece, Pieces, Extents

LEMMA LineTyped ==
    ASSUME NEW pieces \in Seq(Pieces), NEW piece \in Pieces, NEW ended \in BOOLEAN
    PROVE  [pieces |-> Append(pieces, piece), ended |-> ended] \in Lines
<1>1. Append(pieces, piece) \in Seq(Pieces) /\ Append(pieces, piece) # <<>>
  BY MoreIs
<1>2. PICK more : more = Append(pieces, piece)
  OBVIOUS
<1> QED
  BY <1>1, <1>2 DEF Lines

(* A line of its own.                                                      *)
LEMMA WrittenBehind ==
    ASSUME Shaped(file), ~Unended, NEW entry \in Numbered,
           NEW extent \in Extents, extent # "nothing",
           NEW lines, lines = Written(entry, extent)
    PROVE  /\ Shaped(lines) /\ Len(lines) = Len(file) + 1 /\ lines # <<>>
           /\ \A i \in 1 .. Len(file) : lines[i] = file[i]
           /\ lines[Len(file) + 1] =
                 [pieces |-> <<PieceOf(entry, extent)>>, ended |-> (extent = "whole")]
<1>1. PICK line : line = [pieces |-> <<PieceOf(entry, extent)>>, ended |-> (extent = "whole")]
  OBVIOUS
<1>2. lines = Append(file, line)
  BY <1>1 DEF Written, Unended, PieceOf
<1>3. line \in Lines
  <2>1. PieceOf(entry, extent) \in Pieces
    BY PieceTyped
  <2>2. <<>> \in Seq(Pieces) /\ <<PieceOf(entry, extent)>> = Append(<<>>, PieceOf(entry, extent))
    BY EmptySeq
  <2> QED
    BY <1>1, <2>1, <2>2, LineTyped
<1>4. /\ lines \in Seq(Lines) /\ Len(file) \in Nat /\ Len(lines) = Len(file) + 1 /\ lines # <<>>
      /\ lines[Len(file) + 1] = line /\ \A i \in 1 .. Len(file) : lines[i] = file[i]
  BY <1>2, <1>3, MoreIs DEF Shaped
<1>5. line.ended = TRUE => Parses(line)
  BY <1>1 DEF Parses, PieceOf, Piece
<1>6. \A i \in 1 .. Len(file) : file[i].ended = TRUE
  <2>1. file # <<>> => file[Len(file)].ended = TRUE
    <3>1. file # <<>> => file[Len(file)] \in Lines
      BY EmptySeq DEF Shaped
    <3> QED
      BY <3>1 DEF Unended, Lines
  <2> QED
    BY <1>4, <2>1 DEF Shaped
<1>7. Shaped(lines)
  BY <1>4, <1>5, <1>6 DEF Shaped
<1> QED
  BY <1>1, <1>4, <1>7

(* The stream continues a line without its newline.                        *)
LEMMA WrittenInto ==
    ASSUME Shaped(file), Unended, NEW entry \in Numbered,
           NEW extent \in Extents, extent # "nothing",
           NEW lines, lines = Written(entry, extent)
    PROVE  /\ Shaped(lines) /\ Len(lines) = Len(file) /\ lines # <<>> /\ Len(file) \in Nat \ {0}
           /\ \A i \in 1 .. Len(file) - 1 : lines[i] = file[i]
           /\ lines[Len(file)] = [pieces |-> Append(file[Len(file)].pieces, PieceOf(entry, extent)),
                                  ended |-> (extent = "whole")]
           /\ Len(lines[Len(file)].pieces) = Len(file[Len(file)].pieces) + 1
           /\ Len(file[Len(file)].pieces) \in Nat \ {0}
<1>1. PICK last : last = file[Len(file)]
  OBVIOUS
<1>2. PICK line : line = [pieces |-> Append(last.pieces, PieceOf(entry, extent)),
                          ended |-> (extent = "whole")]
  OBVIOUS
<1>3. file # <<>> /\ file \in Seq(Lines) /\ Len(file) \in Nat \ {0}
  BY EmptySeq DEF Shaped, Unended
<1>4. last \in Lines
  BY <1>1, <1>3
<1>5. lines = Append(Front(file), line)
  BY <1>1, <1>2 DEF Written, Unended, PieceOf
<1>6. PieceOf(entry, extent) \in Pieces
  BY PieceTyped
<1>7. last.pieces \in Seq(Pieces) /\ last.pieces # <<>>
  BY <1>4 DEF Lines
<1>8. line \in Lines
  BY <1>2, <1>6, <1>7, LineTyped
<1>9. Len(line.pieces) = Len(last.pieces) + 1 /\ Len(last.pieces) \in Nat \ {0}
  BY <1>2, <1>6, <1>7, MoreIs, EmptySeq
<1>10. /\ Front(file) \in Seq(Lines) /\ Len(Front(file)) = Len(file) - 1
       /\ \A i \in 1 .. Len(file) - 1 : Front(file)[i] = file[i]
  BY <1>3, FrontIs
<1>11. PICK front \in Seq(Lines) : front = Front(file)
  BY <1>10
<1>12. /\ lines \in Seq(Lines) /\ Len(lines) = Len(front) + 1 /\ lines # <<>>
       /\ lines[Len(front) + 1] = line /\ \A i \in 1 .. Len(front) : lines[i] = front[i]
  BY <1>5, <1>8, <1>11, MoreIs
<1>13. /\ Len(lines) = Len(file) /\ lines[Len(file)] = line
       /\ \A i \in 1 .. Len(file) - 1 : lines[i] = file[i]
  BY <1>3, <1>10, <1>11, <1>12
<1>14. \A i \in 1 .. Len(lines) :
          /\ i < Len(lines) => lines[i].ended = TRUE
          /\ lines[i].ended = TRUE /\ Len(lines[i].pieces) = 1 => Parses(lines[i])
  <2> SUFFICES ASSUME NEW i \in 1 .. Len(lines)
               PROVE  /\ i < Len(lines) => lines[i].ended = TRUE
                      /\ lines[i].ended = TRUE /\ Len(lines[i].pieces) = 1 => Parses(lines[i])
    OBVIOUS
  <2>1. CASE i = Len(file)
    <3>1. lines[i] = line /\ ~(i < Len(lines))
      BY <1>3, <1>13, <2>1
    <3>2. Len(line.pieces) # 1
      BY <1>9
    <3> QED
      BY <3>1, <3>2
  <2>2. CASE i # Len(file)
    <3>1. i \in 1 .. Len(file) - 1 /\ i \in 1 .. Len(file) /\ i < Len(file)
      BY <1>3, <1>13, <2>2
    <3>2. lines[i] = file[i]
      BY <1>13, <3>1
    <3>3. /\ file[i].ended = TRUE
          /\ file[i].ended = TRUE /\ Len(file[i].pieces) = 1 => Parses(file[i])
      BY <3>1 DEF Shaped
    <3> QED
      BY <3>2, <3>3
  <2> QED
    BY <2>1, <2>2
<1>15. Shaped(lines)
  BY <1>12, <1>14 DEF Shaped
<1> QED
  BY <1>1, <1>2, <1>3, <1>9, <1>12, <1>13, <1>15

LEMMA NothingWritten == ASSUME NEW entry PROVE Written(entry, "nothing") = file
BY DEF Written

-----------------------------------------------------------------------------
(* The ended lines.                                                        *)

Loose(lines) == lines # <<>> /\ ~lines[Len(lines)].ended

EndedIn(lines) == IF Loose(lines) THEN Front(lines) ELSE lines

SoundIn(lines) == \A i \in DOMAIN EndedIn(lines) : Parses(EndedIn(lines)[i])

LogIn(lines) == IF SoundIn(lines) THEN Numbers(EndedIn(lines)) ELSE Unreadable

LEMMA EndedAre ==
    ASSUME NEW lines, Shaped(lines)
    PROVE  /\ EndedIn(lines) \in Seq(Lines) /\ Len(lines) \in Nat
           /\ Len(EndedIn(lines)) = IF Loose(lines) THEN Len(lines) - 1 ELSE Len(lines)
           /\ \A i \in 1 .. Len(EndedIn(lines)) : /\ i \in 1 .. Len(lines)
                                                /\ EndedIn(lines)[i] = lines[i]
                                                /\ lines[i].ended = TRUE
<1>1. lines \in Seq(Lines) /\ Len(lines) \in Nat /\ (lines # <<>> => Len(lines) # 0)
  BY EmptySeq DEF Shaped
<1>2. CASE Loose(lines)
  <2>1. lines # <<>> /\ EndedIn(lines) = Front(lines)
    BY <1>2 DEF Loose, EndedIn
  <2>2. /\ Front(lines) \in Seq(Lines) /\ Len(Front(lines)) = Len(lines) - 1
        /\ \A i \in 1 .. Len(lines) - 1 : Front(lines)[i] = lines[i]
    BY <1>1, <2>1, FrontIs
  <2>3. \A i \in 1 .. Len(lines) - 1 : i \in 1 .. Len(lines) /\ lines[i].ended = TRUE
    BY <1>1 DEF Shaped
  <2> QED
    BY <1>1, <1>2, <2>1, <2>2, <2>3
<1>3. CASE ~Loose(lines)
  <2>1. EndedIn(lines) = lines
    BY <1>3 DEF EndedIn
  <2>2. \A i \in 1 .. Len(lines) : lines[i].ended = TRUE
    <3> SUFFICES ASSUME NEW i \in 1 .. Len(lines) PROVE lines[i].ended = TRUE
      OBVIOUS
    <3>1. CASE i < Len(lines)
      BY <3>1 DEF Shaped
    <3>2. CASE i = Len(lines)
      <4>1. lines # <<>> /\ lines[i] \in Lines
        BY <1>1, EmptySeq
      <4>2. lines[Len(lines)].ended = TRUE
        BY <1>3, <3>2, <4>1 DEF Loose, Lines
      <4> QED
        BY <3>2, <4>2
    <3>3. i < Len(lines) \/ i = Len(lines)
      BY <1>1
    <3> QED
      BY <3>1, <3>2, <3>3
  <2> QED
    BY <1>1, <1>3, <2>1, <2>2
<1> QED
  BY <1>2, <1>3

LEMMA NumbersAre ==
    ASSUME NEW lines \in Seq(Lines)
    PROVE  /\ Numbers(lines) \in Seq(Numbered) /\ Len(Numbers(lines)) = Len(lines)
           /\ \A i \in 1 .. Len(lines) : Numbers(lines)[i] = lines[i].pieces[1].entry
           /\ Numbers(lines) # Unreadable
<1>1. DOMAIN lines = 1 .. Len(lines) /\ Len(lines) \in Nat
  OBVIOUS
<1>2. \A i \in 1 .. Len(lines) : lines[i].pieces[1].entry \in Numbered
  <2> SUFFICES ASSUME NEW i \in 1 .. Len(lines) PROVE lines[i].pieces[1].entry \in Numbered
    OBVIOUS
  <2>1. lines[i] \in Lines
    OBVIOUS
  <2>2. lines[i].pieces \in Seq(Pieces) /\ lines[i].pieces # <<>>
    BY <2>1 DEF Lines
  <2>3. lines[i].pieces[1] \in Pieces
    BY <2>2, EmptySeq
  <2> QED
    BY <2>3 DEF Pieces
<1>3. PICK numbers : numbers = Numbers(lines)
  OBVIOUS
<1>4. numbers \in [1 .. Len(lines) -> Numbered]
  BY <1>1, <1>2, <1>3 DEF Numbers
<1>5. numbers \in Seq(Numbered) /\ Len(numbers) = Len(lines)
  BY <1>1, <1>4, IsASeq, LenProperties
<1>6. \A i \in 1 .. Len(lines) : numbers[i] = lines[i].pieces[1].entry
  BY <1>1, <1>3 DEF Numbers
<1>7. numbers # Unreadable
  <2>1. Unreadable[1] = 0 /\ Len(Unreadable) = 1
    BY DEF Unreadable
  <2>2. ASSUME Len(numbers) = 1 PROVE numbers[1] \in Numbered
    <3>1. 1 \in 1 .. Len(numbers)
      BY <2>2
    <3> QED
      BY <1>5, <3>1, ElementOfSeq
  <2> QED
    BY <2>1, <2>2 DEF Numbered
<1> QED
  BY <1>3, <1>5, <1>6, <1>7

LEMMA SameLog ==
    ASSUME NEW a, NEW b, Shaped(a), Shaped(b), Len(EndedIn(a)) = Len(EndedIn(b)),
           \A i \in 1 .. Len(EndedIn(a)) : a[i] = b[i]
    PROVE  LogIn(a) = LogIn(b)
<1>1. /\ EndedIn(a) \in Seq(Lines)
      /\ \A i \in 1 .. Len(EndedIn(a)) : EndedIn(a)[i] = a[i]
  BY EndedAre
<1>2. /\ EndedIn(b) \in Seq(Lines)
      /\ \A i \in 1 .. Len(EndedIn(b)) : EndedIn(b)[i] = b[i]
  BY EndedAre
<1>3. EndedIn(a) = EndedIn(b)
  BY <1>1, <1>2, SeqEqual
<1> QED
  BY <1>3 DEF LogIn, SoundIn

(* An entry more, behind a newline.                                        *)
LEMMA LogGrows ==
    ASSUME Shaped(file), ~Unended, NEW entry \in Numbered,
           NEW lines, lines = Written(entry, "whole"),
           NEW before, before = LogIn(file), NEW after, after = LogIn(lines)
    PROVE  /\ ~Loose(lines)
           /\ \/ after = before
              \/ /\ before # Unreadable /\ after # Unreadable
                 /\ Len(after) = Len(before) + 1
                 /\ before = SubSeq(after, 1, Len(before))
<1>1. PICK last : last = [pieces |-> <<PieceOf(entry, "whole")>>, ended |-> ("whole" = "whole")]
  OBVIOUS
<1>2. "whole" \in Extents /\ "whole" # "nothing"
  BY DEF Extents
<1>3. /\ Shaped(lines) /\ Len(lines) = Len(file) + 1 /\ lines # <<>>
      /\ \A i \in 1 .. Len(file) : lines[i] = file[i]
      /\ lines[Len(file) + 1] = last
  BY <1>1, <1>2, WrittenBehind
<1>4. last.ended /\ Parses(last)
  BY <1>1 DEF Parses, PieceOf, Piece
<1>5. ~Loose(lines)
  BY <1>3, <1>4 DEF Loose
<1>6. EndedIn(file) = file /\ EndedIn(lines) = lines
  BY <1>5 DEF EndedIn, Unended, Loose
<1>7. file \in Seq(Lines) /\ lines \in Seq(Lines) /\ Len(file) \in Nat
  BY <1>3 DEF Shaped
<1>8. SoundIn(lines) <=> SoundIn(file)
  <2>1. DOMAIN lines = 1 .. Len(file) + 1 /\ DOMAIN file = 1 .. Len(file)
    BY <1>3, <1>7
  <2>2. \A i \in DOMAIN lines : i \in DOMAIN file \/ lines[i] = last
    BY <1>3, <1>7, <2>1
  <2>3. \A i \in DOMAIN file : i \in DOMAIN lines /\ lines[i] = file[i]
    BY <1>3, <1>7, <2>1
  <2> QED
    BY <1>4, <1>6, <2>2, <2>3 DEF SoundIn
<1>9. CASE SoundIn(file)
  <2>1. before = Numbers(file) /\ after = Numbers(lines)
    BY <1>6, <1>8, <1>9 DEF LogIn
  <2>2. /\ before \in Seq(Numbered) /\ Len(before) = Len(file) /\ before # Unreadable
        /\ \A i \in 1 .. Len(file) : before[i] = file[i].pieces[1].entry
    BY <1>7, <2>1, NumbersAre
  <2>3. /\ after \in Seq(Numbered) /\ Len(after) = Len(lines) /\ after # Unreadable
        /\ \A i \in 1 .. Len(lines) : after[i] = lines[i].pieces[1].entry
    BY <1>7, <2>1, NumbersAre
  <2>4. PICK n \in Nat : n = Len(before)
    BY <1>7, <2>2
  <2>5. \A i \in 1 .. n : after[i] \in Numbered /\ after[i] = before[i]
    <3> SUFFICES ASSUME NEW i \in 1 .. n PROVE after[i] \in Numbered /\ after[i] = before[i]
      OBVIOUS
    <3>1. i \in 1 .. Len(file) /\ i \in 1 .. Len(lines) /\ i \in 1 .. Len(after)
      BY <1>3, <1>7, <2>2, <2>3, <2>4
    <3>2. after[i] \in Numbered
      BY <2>3, <3>1, ElementOfSeq
    <3>3. lines[i] = file[i]
      BY <1>3, <3>1
    <3> QED
      BY <2>2, <2>3, <3>1, <3>2, <3>3
  <2>6. /\ SubSeq(after, 1, n) \in Seq(Numbered)
        /\ Len(SubSeq(after, 1, n)) = IF 1 <= n THEN n - 1 + 1 ELSE 0
        /\ \A i \in 1 .. n - 1 + 1 : SubSeq(after, 1, n)[i] = after[1 + i - 1]
    BY <2>3, <2>4, <2>5, SubSeqProperties
  <2>7. PICK front \in Seq(Numbered) : front = SubSeq(after, 1, n)
    BY <2>6
  <2>8. Len(front) = n /\ \A i \in 1 .. n : front[i] = before[i]
    BY <2>4, <2>5, <2>6, <2>7
  <2>9. front = before
    BY <2>2, <2>4, <2>7, <2>8, SeqEqual
  <2>10. Len(after) = Len(before) + 1
    BY <1>3, <2>2, <2>3
  <2>11. before = SubSeq(after, 1, Len(before))
    BY <2>4, <2>7, <2>9
  <2> QED
    BY <1>5, <2>2, <2>3, <2>10, <2>11
<1>10. CASE ~SoundIn(file)
  <2>1. after = before
    BY <1>8, <1>10 DEF LogIn
  <2> QED
    BY <1>5, <2>1
<1> QED
  BY <1>9, <1>10

LEMMA LogTears ==
    ASSUME Shaped(file), ~Unended, NEW entry \in Numbered,
           NEW extent \in Extents \ {"nothing", "whole"},
           NEW lines, lines = Written(entry, extent)
    PROVE  Loose(lines) /\ LogIn(lines) = LogIn(file)
<1>1. PICK last : last = [pieces |-> <<PieceOf(entry, extent)>>, ended |-> (extent = "whole")]
  OBVIOUS
<1>2. /\ Shaped(lines) /\ Len(lines) = Len(file) + 1 /\ lines # <<>>
      /\ \A i \in 1 .. Len(file) : lines[i] = file[i]
      /\ lines[Len(file) + 1] = last
  BY <1>1, WrittenBehind
<1>3. ~last.ended
  BY <1>1
<1>4. Loose(lines) /\ ~Loose(file)
  BY <1>2, <1>3 DEF Loose, Unended
<1>5. Len(file) \in Nat
  BY DEF Shaped
<1>6. Len(EndedIn(lines)) = Len(lines) - 1
  BY <1>2, <1>4, EndedAre
<1>7. Len(EndedIn(file)) = Len(file)
  BY <1>4, EndedAre
<1>8. /\ Len(EndedIn(file)) = Len(EndedIn(lines))
      /\ \A i \in 1 .. Len(EndedIn(file)) : file[i] = lines[i]
  BY <1>2, <1>5, <1>6, <1>7
<1>9. LogIn(file) = LogIn(lines)
  BY <1>2, <1>8, SameLog
<1> QED
  BY <1>4, <1>9

(* A line of two pieces is no entry.                                       *)
LEMMA LogSpoils ==
    ASSUME Shaped(file), Unended, NEW entry \in Numbered,
           NEW lines, lines = Written(entry, "whole")
    PROVE  ~Loose(lines) /\ LogIn(lines) = Unreadable
<1>1. PICK line : line = [pieces |-> Append(file[Len(file)].pieces, PieceOf(entry, "whole")),
                          ended |-> ("whole" = "whole")]
  OBVIOUS
<1>2. "whole" \in Extents /\ "whole" # "nothing"
  BY DEF Extents
<1>3. /\ Shaped(lines) /\ Len(lines) = Len(file) /\ lines # <<>> /\ Len(file) \in Nat \ {0}
      /\ lines[Len(file)] = line
      /\ Len(lines[Len(file)].pieces) = Len(file[Len(file)].pieces) + 1
      /\ Len(file[Len(file)].pieces) \in Nat \ {0}
  BY <1>1, <1>2, WrittenInto
<1>4. line.ended /\ Len(line.pieces) # 1
  <2>1. line.ended
    BY <1>1
  <2>2. Len(line.pieces) = Len(file[Len(file)].pieces) + 1
    BY <1>3
  <2> QED
    BY <1>3, <2>1, <2>2
<1>5. ~Loose(lines) /\ EndedIn(lines) = lines
  BY <1>3, <1>4 DEF Loose, EndedIn
<1>6. Len(file) \in DOMAIN lines /\ ~Parses(lines[Len(file)])
  <2>1. Len(file) \in DOMAIN lines
    <3>1. lines \in Seq(Lines)
      BY <1>3 DEF Shaped
    <3> QED
      BY <1>3, <3>1
  <2> QED
    BY <1>3, <1>4, <2>1 DEF Parses
<1> QED
  BY <1>5, <1>6 DEF LogIn, SoundIn

LEMMA LogContinues ==
    ASSUME Shaped(file), Unended, NEW entry \in Numbered,
           NEW extent \in Extents \ {"nothing", "whole"},
           NEW lines, lines = Written(entry, extent)
    PROVE  Loose(lines) /\ LogIn(lines) = LogIn(file)
<1>1. PICK line : line = [pieces |-> Append(file[Len(file)].pieces, PieceOf(entry, extent)),
                          ended |-> (extent = "whole")]
  OBVIOUS
<1>2. /\ Shaped(lines) /\ Len(lines) = Len(file) /\ lines # <<>> /\ Len(file) \in Nat \ {0}
      /\ \A i \in 1 .. Len(file) - 1 : lines[i] = file[i]
      /\ lines[Len(file)] = line
  BY <1>1, WrittenInto
<1>3. ~line.ended
  BY <1>1
<1>4. Loose(lines) /\ Loose(file)
  BY <1>2, <1>3 DEF Loose, Unended
<1>5. Len(EndedIn(lines)) = Len(lines) - 1
  BY <1>2, <1>4, EndedAre
<1>6. Len(EndedIn(file)) = Len(file) - 1
  BY <1>4, EndedAre
<1>7. /\ Len(EndedIn(file)) = Len(EndedIn(lines))
      /\ \A i \in 1 .. Len(EndedIn(file)) : file[i] = lines[i]
  BY <1>2, <1>5, <1>6
<1>8. LogIn(file) = LogIn(lines)
  BY <1>2, <1>7, SameLog
<1> QED
  BY <1>4, <1>8

(* What opening makes of the file: every line left is an entry.            *)
LEMMA LogMends ==
    ASSUME Shaped(file), CanOpen(file), NEW lines, lines = Readable(file)
    PROVE  /\ Shaped(lines) /\ LogIn(lines) = LogIn(file)
           /\ \A i \in 1 .. Len(lines) : /\ i \in 1 .. Len(file) /\ lines[i] = file[i]
                                         /\ Parses(lines[i])
           /\ \/ lines = file /\ (file # <<>> => Parses(file[Len(file)]))
              \/ Unended /\ ~Parses(file[Len(file)]) /\ ~Loose(lines)
<1>1. file \in Seq(Lines) /\ Len(file) \in Nat /\ DOMAIN file = 1 .. Len(file)
      /\ (file # <<>> => Len(file) # 0)
  BY EmptySeq DEF Shaped
<1>2. \A i \in 1 .. Len(file) : Parses(file[i]) \/ (i = Len(file) /\ ~file[i].ended)
  BY <1>1 DEF CanOpen, IsPartialFinal
<1>3. CASE file = <<>> \/ Parses(file[Len(file)])
  <2>1. lines = file
    BY <1>3 DEF Readable
  <2>2. \A i \in 1 .. Len(file) : Parses(file[i])
    <3> SUFFICES ASSUME NEW i \in 1 .. Len(file) PROVE Parses(file[i])
      OBVIOUS
    <3>1. file # <<>>
      BY EmptySeq
    <3> QED
      BY <1>2, <1>3, <3>1
  <2> QED
    BY <1>1, <1>3, <2>1, <2>2
<1>4. CASE ~(file = <<>> \/ Parses(file[Len(file)]))
  <2>1. lines = Front(file) /\ file # <<>>
    BY <1>4 DEF Readable
  <2>2. Loose(file) /\ Unended
    <3>1. Len(file) \in 1 .. Len(file)
      BY <1>1, <2>1
    <3>2. ~file[Len(file)].ended
      BY <1>2, <1>4, <3>1
    <3> QED
      BY <2>1, <3>2 DEF Loose, Unended
  <2>3. lines = EndedIn(file)
    BY <2>1, <2>2 DEF EndedIn
  <2>4. /\ lines \in Seq(Lines) /\ Len(lines) = Len(file) - 1
        /\ \A i \in 1 .. Len(lines) : /\ i \in 1 .. Len(file) /\ lines[i] = file[i]
                                      /\ file[i].ended = TRUE
    BY <2>2, <2>3, EndedAre
  <2>5. \A i \in 1 .. Len(lines) : Parses(lines[i])
    BY <1>1, <1>2, <2>4
  <2>6. Shaped(lines)
    <3>1. \A i \in 1 .. Len(lines) :
             /\ i < Len(lines) => lines[i].ended = TRUE
             /\ lines[i].ended = TRUE /\ Len(lines[i].pieces) = 1 => Parses(lines[i])
      BY <2>4, <2>5
    <3> QED
      BY <2>4, <3>1 DEF Shaped
  <2>7. ~Loose(lines)
    <3>1. lines # <<>> => Len(lines) \in 1 .. Len(lines)
      BY <2>4, EmptySeq
    <3> QED
      BY <2>4, <3>1 DEF Loose
  <2>8. LogIn(lines) = LogIn(file)
    <3>1. EndedIn(lines) = EndedIn(file)
      BY <2>3, <2>7 DEF EndedIn
    <3> QED
      BY <3>1 DEF LogIn, SoundIn
  <2> QED
    BY <1>4, <2>2, <2>4, <2>5, <2>6, <2>7, <2>8
<1> QED
  BY <1>3, <1>4

-----------------------------------------------------------------------------
(* The log over the ledger's steps.                                        *)

EndingIn(lines, now) ==
    CASE ~Loose(lines) -> "clean"
      [] Loose(lines) /\ (now \in {"open", "writing"} \/ Parses(lines[Len(lines)])) -> "loose"
      [] OTHER -> "cut"

Grows(before, after) ==
    /\ before # Unreadable /\ after # Unreadable
    /\ Len(after) = Len(before) + 1
    /\ before = SubSeq(after, 1, Len(before))

(* A step of the log, or none.                                             *)
Moves(before, ending, after, now) ==
    \/ /\ after = before
       /\ \/ now = ending
          \/ ending = "clean" /\ now \in {"cut", "loose"}
          \/ ending = "loose" /\ now = "cut"
          \/ ending = "cut" /\ now = "clean"
    \/ ending = "clean" /\ now = "clean" /\ Grows(before, after)
    \/ ending = "loose" /\ now = "clean" /\ after = Unreadable

LEMMA MovesAre ==
    Moves(LogIn(file), Ending, LogIn(file)', Ending')
       => [Log!Next]_<<IF Sound THEN Numbers(EndedLines) ELSE Unreadable, Ending>>
<1>1. (IF Sound THEN Numbers(EndedLines) ELSE Unreadable) = LogIn(file)
  BY DEF Sound, EndedLines, Unended, LogIn, SoundIn, EndedIn, Loose
<1>2. (IF Sound THEN Numbers(EndedLines) ELSE Unreadable)' = LogIn(file)'
  BY DEF Sound, EndedLines, Unended, LogIn, SoundIn, EndedIn, Loose
<1>3. PICK before : before = LogIn(file)
  OBVIOUS
<1>4. PICK after : after = LogIn(file)'
  OBVIOUS
<1>5. Moves(before, Ending, after, Ending') =>
         \/ after = before /\ Ending' = Ending
         \/ /\ Ending = "clean" /\ Ending' = "clean" /\ before # Unreadable /\ after # Unreadable
            /\ Len(after) = Len(before) + 1 /\ before = SubSeq(after, 1, Len(before))
         \/ Ending = "clean" /\ Ending' \in {"cut", "loose"} /\ after = before
         \/ Ending = "loose" /\ Ending' = "cut" /\ after = before
         \/ Ending = "cut" /\ Ending' = "clean" /\ after = before
         \/ Ending = "loose" /\ Ending' = "clean" /\ after = Unreadable
  BY DEF Moves, Grows
<1> QED
  BY <1>1, <1>2, <1>3, <1>4, <1>5
     DEF Log!Next, Log!Grow, Log!Tear, Log!Forsake, Log!Mend, Log!Spoil

LinesInv ==
    /\ Shaped(file)
    /\ appended \in Nat
    /\ status = "writing" => appended # 0

(* A write, and how much of it there is.                                   *)
LEMMA WriteMoves ==
    ASSUME LinesInv, status = "writing", NEW cut \in Extents,
           NEW lines, lines = Written(appended, cut),
           NEW now \in {"open", "closed"}
    PROVE  /\ Shaped(lines)
           /\ Moves(LogIn(file), EndingIn(file, status), LogIn(lines), EndingIn(lines, now))
<1>1. Shaped(file) /\ appended \in Numbered
  BY DEF LinesInv, Numbered
<1>2. CASE cut = "nothing"
  <2>1. lines = file
    BY <1>2, NothingWritten
  <2>2. \/ EndingIn(file, now) = EndingIn(file, status)
        \/ EndingIn(file, status) = "loose" /\ EndingIn(file, now) = "cut"
    <3>1. CASE Loose(file)
      BY <3>1 DEF EndingIn
    <3>2. CASE ~Loose(file)
      BY <3>2 DEF EndingIn
    <3> QED
      BY <3>1, <3>2
  <2> QED
    BY <1>1, <2>1, <2>2 DEF Moves
<1>3. ASSUME cut # "nothing" PROVE Shaped(lines)
  <2>1. CASE Unended
    BY <1>1, <1>3, <2>1, WrittenInto
  <2>2. CASE ~Unended
    BY <1>1, <1>3, <2>2, WrittenBehind
  <2> QED
    BY <2>1, <2>2
<1>4. Unended => EndingIn(file, status) = "loose"
  BY DEF EndingIn, Unended, Loose
<1>5. ~Unended => EndingIn(file, status) = "clean"
  BY DEF EndingIn, Unended, Loose
<1>6. /\ Loose(lines) => EndingIn(lines, now) \in {"loose", "cut"}
      /\ ~Loose(lines) => EndingIn(lines, now) = "clean"
  BY DEF EndingIn
<1>7. ASSUME cut = "whole" PROVE Moves(LogIn(file), EndingIn(file, status), LogIn(lines), EndingIn(lines, now))
  <2>1. CASE Unended
    <3>1. ~Loose(lines) /\ LogIn(lines) = Unreadable
      BY <1>1, <1>7, <2>1, LogSpoils
    <3> QED
      BY <1>4, <1>6, <2>1, <3>1 DEF Moves
  <2>2. CASE ~Unended
    <3>1. ~Loose(lines) /\ (LogIn(lines) = LogIn(file) \/ Grows(LogIn(file), LogIn(lines)))
      BY <1>1, <1>7, <2>2, LogGrows DEF Grows
    <3> QED
      BY <1>5, <1>6, <2>2, <3>1 DEF Moves
  <2> QED
    BY <2>1, <2>2
<1>8. ASSUME cut \in Extents \ {"nothing", "whole"}
      PROVE  Moves(LogIn(file), EndingIn(file, status), LogIn(lines), EndingIn(lines, now))
  <2>1. CASE Unended
    <3>1. Loose(lines) /\ LogIn(lines) = LogIn(file)
      BY <1>1, <1>8, <2>1, LogContinues
    <3> QED
      BY <1>4, <1>6, <2>1, <3>1 DEF Moves
  <2>2. CASE ~Unended
    <3>1. Loose(lines) /\ LogIn(lines) = LogIn(file)
      BY <1>1, <1>8, <2>2, LogTears
    <3> QED
      BY <1>5, <1>6, <2>2, <3>1 DEF Moves
  <2> QED
    BY <2>1, <2>2
<1> QED
  BY <1>2, <1>3, <1>7, <1>8

(* The file stays: whoever would have continued its line may be gone.      *)
LEMMA StayMoves ==
    ASSUME NEW now, now \in {"open", "writing"} =>
                       status \in {"open", "writing"} \/ (file # <<>> => Parses(file[Len(file)]))
    PROVE  Moves(LogIn(file), EndingIn(file, status), LogIn(file), EndingIn(file, now))
<1>1. \/ EndingIn(file, now) = EndingIn(file, status)
      \/ EndingIn(file, status) = "loose" /\ EndingIn(file, now) = "cut"
  BY DEF EndingIn, Loose
<1> QED
  BY <1>1 DEF Moves

LEMMA LinesNext ==
    ASSUME LinesInv, [Next]_vars
    PROVE  /\ LinesInv'
           /\ Moves(LogIn(file), EndingIn(file, status), LogIn(file'), EndingIn(file', status'))
<1>0. Shaped(file) /\ appended \in Nat /\ (status = "writing" => appended # 0)
  BY DEF LinesInv
<1> DEFINE Goal == Shaped(file')
              /\ Moves(LogIn(file), EndingIn(file, status), LogIn(file'), EndingIn(file', status'))
<1>1. CASE Open
  <2>1. appended' \in Nat /\ (status' = "writing" => appended' # 0)
    BY <1>0, <1>1 DEF Open
  <2>2. CASE CanOpen(file)
    <3>1. file' = Readable(file)
      BY <1>1, <2>2 DEF Open, Truncated
    <3>2. /\ Shaped(file') /\ LogIn(file') = LogIn(file)
          /\ \/ file' = file /\ (file # <<>> => Parses(file[Len(file)]))
             \/ Unended /\ ~Parses(file[Len(file)]) /\ ~Loose(file')
      BY <1>0, <2>2, <3>1, LogMends
    <3>3. CASE file' = file /\ (file # <<>> => Parses(file[Len(file)]))
      BY <2>1, <3>2, <3>3, StayMoves DEF LinesInv
    <3>4. CASE Unended /\ ~Parses(file[Len(file)]) /\ ~Loose(file')
      <4>1. status = "closed"
        BY <1>1 DEF Open
      <4>2. EndingIn(file, status) = "cut"
        BY <3>4, <4>1 DEF EndingIn, Loose, Unended
      <4>3. EndingIn(file', status') = "clean"
        BY <3>4 DEF EndingIn
      <4>4. Moves(LogIn(file), EndingIn(file, status), LogIn(file'), EndingIn(file', status'))
        BY <3>2, <4>2, <4>3 DEF Moves
      <4> QED
        BY <2>1, <3>2, <4>4 DEF LinesInv
    <3> QED
      BY <3>2, <3>3, <3>4
  <2>3. CASE ~CanOpen(file)
    <3>1. file' = file /\ status' = "failed"
      BY <1>1, <2>3 DEF Open
    <3> QED
      BY <1>0, <2>1, <3>1, StayMoves DEF LinesInv
  <2> QED
    BY <2>2, <2>3
<1>2. CASE BeginAppend
  <2>1. /\ file' = file /\ status = "open" /\ status' = "writing"
        /\ appended' = appended + 1
    BY <1>2 DEF BeginAppend
  <2> QED
    BY <1>0, <2>1, StayMoves DEF LinesInv
<1>3. CASE Synced
  <2>1. /\ status = "writing" /\ file' = Written(appended, "whole") /\ status' = "open"
        /\ appended' = appended /\ "whole" \in Extents
    BY <1>3 DEF Synced, Extents
  <2>2. Goal
    BY <2>1, WriteMoves
  <2> QED
    BY <1>0, <2>1, <2>2 DEF LinesInv
<1>4. CASE AppendFails
  <2>1. PICK cut \in Extents : file' = Written(appended, cut)
    BY <1>4, CutsAssumption DEF AppendFails
  <2>2. status = "writing" /\ status' \in {"open", "closed"} /\ appended' = appended
    BY <1>4 DEF AppendFails
  <2>3. Goal
    BY <2>1, <2>2, WriteMoves
  <2> QED
    BY <1>0, <2>2, <2>3 DEF LinesInv
<1>5. CASE Crash
  <2>1. status' = "closed" /\ appended' = appended /\ status \in {"open", "writing"}
    BY <1>5 DEF Crash
  <2>2. CASE status = "open"
    <3>1. file' = file
      BY <1>5, <2>2 DEF Crash
    <3> QED
      BY <1>0, <2>1, <3>1, StayMoves DEF LinesInv
  <2>3. CASE status = "writing"
    <3>1. PICK cut \in Extents : file' = Written(appended, cut)
      BY <1>5, <2>3, CutsAssumption DEF Crash, Extents
    <3>2. Goal
      BY <2>1, <2>3, <3>1, WriteMoves
    <3> QED
      BY <1>0, <2>1, <3>2 DEF LinesInv
  <2> QED
    BY <2>1, <2>2, <2>3
<1>6. CASE Rest \/ UNCHANGED vars
  <2>1. file' = file /\ status' = status /\ appended' = appended
    BY <1>6 DEF Rest, vars
  <2> QED
    BY <1>0, <2>1, StayMoves DEF LinesInv
<1> QED
  BY <1>1, <1>2, <1>3, <1>4, <1>5, <1>6 DEF Next

LEMMA LinesAlways == Spec => []LinesInv
<1>1. Init => LinesInv
  <2> SUFFICES ASSUME Init PROVE LinesInv
    OBVIOUS
  <2>1. file = <<>> /\ appended = 0 /\ status = "closed"
    BY DEF Init
  <2>2. <<>> \in Seq(Lines) /\ Len(<<>>) = 0
    BY EmptySeq
  <2>3. Shaped(file)
    BY <2>1, <2>2 DEF Shaped
  <2> QED
    BY <2>1, <2>3 DEF LinesInv
<1>2. LinesInv /\ [Next]_vars => LinesInv'
  BY LinesNext
<1> QED
  BY <1>1, <1>2, PTL DEF Spec

(* session_jsonl.py:68, "append-only durable": whatever a stop or a        *)
(* raising append leaves of a line, the newline alone missing or more,     *)
(* every step leaves the entries of the ended lines as they are, or adds   *)
(* one at their end, and cuts off text before it writes.  The one          *)
(* exception, an append that continues an unended line, makes a file that  *)
(* cannot be opened.                                                       *)
THEOREM LedgerIsDurableLog == Spec => AppendOnly
<1>1. Init => (IF Sound THEN Numbers(EndedLines) ELSE Unreadable) = <<>> /\ Ending = "clean"
  <2> SUFFICES ASSUME Init
               PROVE  (IF Sound THEN Numbers(EndedLines) ELSE Unreadable) = <<>> /\ Ending = "clean"
    OBVIOUS
  <2>1. file = <<>>
    BY DEF Init
  <2>2. ~Unended /\ EndedLines = <<>>
    BY <2>1 DEF Unended, EndedLines
  <2>3. Sound
    BY <2>2 DEF Sound
  <2>4. <<>> \in Seq(Lines) /\ Len(<<>>) = 0
    BY EmptySeq
  <2>5. Numbers(<<>>) \in Seq(Numbered) /\ Len(Numbers(<<>>)) = 0
    BY <2>4, NumbersAre
  <2>6. Numbers(<<>>) = <<>>
    BY <2>5, EmptySeq
  <2> QED
    BY <2>2, <2>3, <2>6 DEF Ending
<1>2. LinesInv /\ [Next]_vars
         => [Log!Next]_<<IF Sound THEN Numbers(EndedLines) ELSE Unreadable, Ending>>
  <2> SUFFICES ASSUME LinesInv, [Next]_vars
               PROVE  [Log!Next]_<<IF Sound THEN Numbers(EndedLines) ELSE Unreadable, Ending>>
    OBVIOUS
  <2>1. Moves(LogIn(file), EndingIn(file, status), LogIn(file'), EndingIn(file', status'))
    BY LinesNext
  <2>2. Ending = EndingIn(file, status) /\ Ending' = EndingIn(file', status')
    BY DEF Ending, EndingIn, Unended, Loose
  <2>3. Moves(LogIn(file), Ending, LogIn(file)', Ending')
    BY <2>1, <2>2
  <2> QED
    BY <2>3, MovesAre
<1> QED
  BY <1>1, <1>2, LinesAlways, PTL DEF Spec, AppendOnly, Log!Spec

(* A reader of a file that opens.                                          *)
LEMMA ReaderIs ==
    ASSUME Shaped(file), CanOpen(file),
           NEW log, log = LogIn(file), NEW found, found = EntriesIn(file)
    PROVE  found = log \/ Grows(log, found)
<1>1. PICK lines : lines = Readable(file)
  OBVIOUS
<1>2. /\ Shaped(lines) /\ LogIn(lines) = LogIn(file)
      /\ \A i \in 1 .. Len(lines) : Parses(lines[i])
  BY <1>1, LogMends
<1>3. lines \in Seq(Lines) /\ Len(lines) \in Nat
  BY <1>2 DEF Shaped
<1>4. PICK ended : ended = EndedIn(lines)
  OBVIOUS
<1>5. /\ ended \in Seq(Lines)
      /\ Len(ended) = IF Loose(lines) THEN Len(lines) - 1 ELSE Len(lines)
      /\ \A i \in 1 .. Len(ended) : i \in 1 .. Len(lines) /\ ended[i] = lines[i]
  BY <1>2, <1>4, EndedAre
<1>6. SoundIn(lines)
  BY <1>2, <1>4, <1>5 DEF SoundIn
<1>7. log = Numbers(ended) /\ found = Numbers(lines)
  BY <1>1, <1>2, <1>4, <1>6 DEF LogIn, EntriesIn
<1>8. /\ log \in Seq(Numbered) /\ Len(log) = Len(ended) /\ log # Unreadable
      /\ \A i \in 1 .. Len(ended) : log[i] = ended[i].pieces[1].entry
  BY <1>5, <1>7, NumbersAre
<1>9. /\ found \in Seq(Numbered) /\ Len(found) = Len(lines) /\ found # Unreadable
      /\ \A i \in 1 .. Len(lines) : found[i] = lines[i].pieces[1].entry
  BY <1>3, <1>7, NumbersAre
<1>10. CASE ~Loose(lines)
  BY <1>4, <1>7, <1>10 DEF EndedIn
<1>11. CASE Loose(lines)
  <2>1. PICK n \in Nat : n = Len(log) /\ Len(found) = n + 1
    BY <1>3, <1>5, <1>8, <1>9, <1>11
  <2>2. \A i \in 1 .. n : log[i] = found[i] /\ i \in 1 .. Len(found)
    BY <1>5, <1>8, <1>9, <2>1
  <2>3. \A i \in 1 .. n : found[i] \in Numbered
    BY <1>9, <2>2, ElementOfSeq
  <2>4. /\ SubSeq(found, 1, n) \in Seq(Numbered)
        /\ Len(SubSeq(found, 1, n)) = IF 1 <= n THEN n - 1 + 1 ELSE 0
        /\ \A i \in 1 .. n - 1 + 1 : SubSeq(found, 1, n)[i] = found[1 + i - 1]
    BY <1>9, <2>1, <2>3, SubSeqProperties
  <2>5. PICK front \in Seq(Numbered) : front = SubSeq(found, 1, n)
    BY <2>4
  <2>6. Len(front) = n /\ \A i \in 1 .. n : front[i] = log[i]
    BY <2>1, <2>2, <2>4, <2>5
  <2>7. front = log
    BY <1>8, <2>1, <2>5, <2>6, SeqEqual
  <2> QED
    BY <1>8, <1>9, <2>1, <2>5, <2>7 DEF Grows
<1> QED
  BY <1>10, <1>11

LEMMA OpensIs ==
    ASSUME Shaped(file)
    PROVE  CanOpen(file) <=> SoundIn(file) /\ (Loose(file) => Decodes(file[Len(file)]))
<1>1. PICK ended : ended = EndedIn(file)
  OBVIOUS
<1>2. /\ ended \in Seq(Lines) /\ Len(file) \in Nat /\ DOMAIN file = 1 .. Len(file)
      /\ Len(ended) = IF Loose(file) THEN Len(file) - 1 ELSE Len(file)
      /\ \A i \in 1 .. Len(ended) : /\ i \in 1 .. Len(file) /\ ended[i] = file[i]
                                     /\ file[i].ended = TRUE
  <2>1. DOMAIN file = 1 .. Len(file)
    BY DEF Shaped
  <2> QED
    BY <1>1, <2>1, EndedAre
<1>3. SoundIn(file) <=> \A i \in 1 .. Len(ended) : Parses(file[i])
  <2>0. ended \in Seq(Lines)
    BY <1>2
  <2>1. DOMAIN ended = 1 .. Len(ended)
    BY <2>0
  <2>2. \A i \in DOMAIN ended : Parses(ended[i]) <=> Parses(file[i])
    BY <1>2, <2>1
  <2> QED
    BY <1>1, <2>1, <2>2 DEF SoundIn
<1>4. CASE ~Loose(file)
  <2>1. Len(ended) = Len(file)
    BY <1>2, <1>4
  <2>2. \A i \in 1 .. Len(file) : ~IsPartialFinal(file, i)
    BY <1>2, <2>1 DEF IsPartialFinal
  <2> QED
    BY <1>2, <1>3, <1>4, <2>1, <2>2 DEF CanOpen
<1>5. CASE Loose(file)
  <2>1. PICK n \in Nat : n = Len(ended) /\ Len(file) = n + 1
    <3>1. Len(file) # 0
      BY <1>5, EmptySeq DEF Loose, Shaped
    <3>2. PICK m \in Nat : m = Len(file) /\ Len(ended) = m - 1 /\ m # 0
      BY <1>2, <1>5, <3>1
    <3>3. m - 1 \in Nat /\ m = (m - 1) + 1
      BY <3>2
    <3> QED
      BY <3>2, <3>3
  <2>2. \A i \in 1 .. n : ~IsPartialFinal(file, i)
    BY <1>2, <2>1 DEF IsPartialFinal
  <2>3. IsPartialFinal(file, n + 1) <=> Decodes(file[n + 1])
    BY <1>5, <2>1 DEF IsPartialFinal, Loose
  <2>4. Parses(file[n + 1]) => Decodes(file[n + 1])
    <3>1. file \in Seq(Lines) /\ n + 1 \in 1 .. Len(file)
      <4>1. n + 1 \in 1 .. n + 1
        BY <2>1
      <4> QED
        BY <2>1, <4>1 DEF Shaped
    <3>2. file[n + 1] \in Lines
      BY <3>1, ElementOfSeq
    <3>3. file[n + 1].pieces \in Seq(Pieces)
      BY <3>2 DEF Lines
    <3>4. Len(file[n + 1].pieces) = 1 => DOMAIN file[n + 1].pieces = {1}
      BY <3>3
    <3> QED
      BY <3>4 DEF Parses, Decodes
  <2>5. \A i \in 1 .. Len(file) : i \in 1 .. n \/ i = n + 1
    BY <2>1
  <2>6. n + 1 \in 1 .. Len(file) /\ \A i \in 1 .. n : i \in 1 .. Len(file)
    BY <2>1
  <2> QED
    BY <1>2, <1>3, <1>5, <2>1, <2>2, <2>3, <2>4, <2>5, <2>6 DEF CanOpen
<1> QED
  BY <1>4, <1>5

(* What the log of the ended lines has to do with a reader's: a file opens *)
(* unless an ended line is no entry or a character is torn behind them,    *)
(* and a reader then finds the log, or the log and the entry whose newline *)
(* is missing.                                                             *)
THEOREM ReaderFindsTheLog ==
    Spec => [](/\ CanOpen(file) <=> Sound /\ (Unended => Decodes(file[Len(file)]))
               /\ CanOpen(file) => \/ EntriesIn(file) = Numbers(EndedLines)
                                   \/ Grows(Numbers(EndedLines), EntriesIn(file)))
<1>1. LinesInv => /\ CanOpen(file) <=> Sound /\ (Unended => Decodes(file[Len(file)]))
                  /\ CanOpen(file) => \/ EntriesIn(file) = Numbers(EndedLines)
                                      \/ Grows(Numbers(EndedLines), EntriesIn(file))
  <2> SUFFICES ASSUME LinesInv
               PROVE  /\ CanOpen(file) <=> Sound /\ (Unended => Decodes(file[Len(file)]))
                      /\ CanOpen(file) => \/ EntriesIn(file) = Numbers(EndedLines)
                                          \/ Grows(Numbers(EndedLines), EntriesIn(file))
    OBVIOUS
  <2>1. Shaped(file)
    BY DEF LinesInv
  <2>2. /\ Sound <=> SoundIn(file)
        /\ Unended <=> Loose(file)
        /\ EndedLines = EndedIn(file)
    BY DEF Sound, SoundIn, EndedLines, EndedIn, Unended, Loose
  <2>3. CanOpen(file) <=> Sound /\ (Unended => Decodes(file[Len(file)]))
    BY <2>1, <2>2, OpensIs
  <2>4. ASSUME CanOpen(file)
        PROVE  \/ EntriesIn(file) = Numbers(EndedLines)
               \/ Grows(Numbers(EndedLines), EntriesIn(file))
    <3>1. SoundIn(file)
      BY <2>2, <2>3, <2>4
    <3>2. LogIn(file) = Numbers(EndedLines)
      BY <2>2, <3>1 DEF LogIn
    <3> QED
      BY <2>1, <2>4, <3>2, ReaderIs
  <2> QED
    BY <2>3, <2>4
<1> QED
  BY <1>1, LinesAlways, PTL

-----------------------------------------------------------------------------
(* The entries in the file.                                                *)

HeldBy(lines) == {n \in Nat : \E i \in DOMAIN lines : Holds(lines[i], n)}

Below(lines, n) ==
    \A i \in 1 .. Len(lines) : \A j \in 1 .. Len(lines[i].pieces) : lines[i].pieces[j].entry <= n

FirstsIncrease(lines) ==
    \A i, j \in 1 .. Len(lines) : i < j => lines[i].pieces[1].entry < lines[j].pieces[1].entry

LEMMA LineIs ==
    ASSUME NEW lines \in Seq(Lines), NEW i \in 1 .. Len(lines)
    PROVE  /\ lines[i].pieces \in Seq(Pieces) /\ lines[i].pieces # <<>>
           /\ Len(lines[i].pieces) \in Numbered /\ 1 \in 1 .. Len(lines[i].pieces)
           /\ DOMAIN lines[i].pieces = 1 .. Len(lines[i].pieces)
           /\ \A j \in 1 .. Len(lines[i].pieces) : /\ lines[i].pieces[j] \in Pieces
                                                 /\ lines[i].pieces[j].entry \in Numbered
<1>1. lines[i] \in Lines
  BY ElementOfSeq
<1>2. PICK pieces \in Seq(Pieces) : pieces = lines[i].pieces /\ pieces # <<>>
  BY <1>1 DEF Lines
<1>3. Len(pieces) \in Numbered /\ 1 \in 1 .. Len(pieces) /\ DOMAIN pieces = 1 .. Len(pieces)
  BY <1>2, EmptySeq DEF Numbered
<1>4. \A j \in 1 .. Len(pieces) : pieces[j] \in Pieces
  BY ElementOfSeq
<1>5. \A piece \in Pieces : piece.entry \in Numbered
  BY DEF Pieces
<1> QED
  BY <1>2, <1>3, <1>4, <1>5

LEMMA HeldBelow ==
    ASSUME NEW lines \in Seq(Lines), NEW m \in Nat, Below(lines, m)
    PROVE  HeldBy(lines) \subseteq 1 .. m
<1> SUFFICES ASSUME NEW n \in HeldBy(lines) PROVE n \in 1 .. m
  OBVIOUS
<1>1. PICK i \in 1 .. Len(lines) : Holds(lines[i], n)
  BY DEF HeldBy
<1>2. PICK j \in 1 .. Len(lines[i].pieces) : lines[i].pieces[j] = Piece(n, "json")
  BY <1>1, LineIs DEF Holds
<1>3. lines[i].pieces[j].entry = n
  BY <1>2 DEF Piece
<1>4. lines[i].pieces[j].entry \in Numbered /\ lines[i].pieces[j].entry <= m
  BY LineIs DEF Below
<1> QED
  BY <1>3, <1>4 DEF Numbered

(* A line that parses holds its number and no other.                       *)
LEMMA ParsedHolds ==
    ASSUME NEW lines \in Seq(Lines), NEW i \in 1 .. Len(lines), NEW n,
           Len(lines[i].pieces) = 1
    PROVE  Holds(lines[i], n) <=> Parses(lines[i]) /\ n = lines[i].pieces[1].entry
<1>1. DOMAIN lines[i].pieces = {1} /\ lines[i].pieces[1] \in Pieces
  BY LineIs
<1>2. PICK piece \in Pieces : piece = lines[i].pieces[1]
  BY <1>1
<1>3. piece = Piece(n, "json") <=> piece.extent = "json" /\ n = piece.entry
  BY DEF Piece, Pieces
<1> QED
  BY <1>1, <1>2, <1>3 DEF Holds, Parses

LEMMA AllParse ==
    ASSUME NEW lines \in Seq(Lines), \A i \in 1 .. Len(lines) : Parses(lines[i]),
           FirstsIncrease(lines)
    PROVE  /\ Readable(lines) = lines
           /\ Numbers(lines) \in Seq(Numbered) /\ Increasing(Numbers(lines))
           /\ Range(Numbers(lines)) = HeldBy(lines)
<1>1. Len(lines) \in Nat /\ DOMAIN lines = 1 .. Len(lines) /\ (lines # <<>> => Len(lines) # 0)
  BY EmptySeq
<1>2. Readable(lines) = lines
  <2>1. lines # <<>> => Len(lines) \in 1 .. Len(lines)
    BY <1>1
  <2> QED
    BY <2>1 DEF Readable
<1>3. PICK numbers : numbers = Numbers(lines)
  OBVIOUS
<1>4. /\ numbers \in Seq(Numbered) /\ DOMAIN numbers = 1 .. Len(lines)
      /\ \A i \in 1 .. Len(lines) : numbers[i] = lines[i].pieces[1].entry
  BY <1>1, <1>3, NumbersAre
<1>5. Increasing(numbers)
  BY <1>4 DEF Increasing, FirstsIncrease
<1>6. ASSUME NEW n PROVE n \in Range(numbers) <=> n \in HeldBy(lines)
  <2>1. n \in Range(numbers) <=> \E i \in 1 .. Len(lines) : n = lines[i].pieces[1].entry
    BY <1>4 DEF Range
  <2>2. \A i \in 1 .. Len(lines) : Holds(lines[i], n) <=> n = lines[i].pieces[1].entry
    BY ParsedHolds DEF Parses
  <2>3. n \in Range(numbers) => n \in Nat
    <3>1. \A i \in 1 .. Len(lines) : lines[i].pieces[1].entry \in Numbered
      BY LineIs
    <3> QED
      BY <2>1, <3>1 DEF Numbered
  <2> QED
    BY <1>1, <2>1, <2>2, <2>3 DEF HeldBy
<1>7. Range(numbers) = HeldBy(lines)
  BY <1>6
<1> QED
  BY <1>2, <1>3, <1>4, <1>5, <1>7

(* What a reader finds in lines of one piece each.                         *)
LEMMA Unshared ==
    ASSUME NEW lines, Shaped(lines), FirstsIncrease(lines),
           \A i \in 1 .. Len(lines) : ~(Len(lines[i].pieces) > 1)
    PROVE  Increasing(EntriesIn(lines)) /\ Range(EntriesIn(lines)) = HeldBy(lines)
<1>1. lines \in Seq(Lines) /\ Len(lines) \in Nat /\ DOMAIN lines = 1 .. Len(lines)
      /\ (lines # <<>> => Len(lines) # 0)
  BY EmptySeq DEF Shaped
<1>2. \A i \in 1 .. Len(lines) : Len(lines[i].pieces) = 1
  <2> SUFFICES ASSUME NEW i \in 1 .. Len(lines) PROVE Len(lines[i].pieces) = 1
    OBVIOUS
  <2>1. PICK n \in Numbered : n = Len(lines[i].pieces)
    BY <1>1, LineIs
  <2>2. ~(n > 1)
    BY <2>1
  <2>3. n = 1
    BY <2>2 DEF Numbered
  <2> QED
    BY <2>1, <2>3
<1>3. \A i \in 1 .. Len(lines) : i < Len(lines) => Parses(lines[i])
  BY <1>2 DEF Shaped
<1>4. CASE lines = <<>> \/ Parses(lines[Len(lines)])
  <2>1. \A i \in 1 .. Len(lines) : Parses(lines[i])
    <3> SUFFICES ASSUME NEW i \in 1 .. Len(lines) PROVE Parses(lines[i])
      OBVIOUS
    <3>1. i < Len(lines) \/ i = Len(lines)
      <4>1. PICK n \in Nat : n = Len(lines)
        BY <1>1
      <4>2. i \in 1 .. n
        BY <4>1
      <4>3. i < n \/ i = n
        BY <4>2
      <4> QED
        BY <4>1, <4>3
    <3>2. lines # <<>>
      BY EmptySeq
    <3> QED
      BY <1>3, <1>4, <3>1, <3>2
  <2>2. /\ Readable(lines) = lines /\ Increasing(Numbers(lines))
        /\ Range(Numbers(lines)) = HeldBy(lines)
    BY <1>1, <2>1, AllParse
  <2> QED
    BY <2>2 DEF EntriesIn
<1>5. CASE ~(lines = <<>> \/ Parses(lines[Len(lines)]))
  <2>1. PICK front \in Seq(Lines) : front = Front(lines) /\ lines # <<>>
    BY <1>1, <1>5, FrontIs
  <2>2. /\ Len(front) = Len(lines) - 1
        /\ \A i \in 1 .. Len(lines) - 1 : front[i] = lines[i]
    BY <1>1, <2>1, FrontIs
  <2>3. \A i \in 1 .. Len(front) : /\ i \in 1 .. Len(lines) /\ i < Len(lines)
                                  /\ front[i] = lines[i]
    BY <1>1, <2>2
  <2>4. \A i \in 1 .. Len(front) : Parses(front[i])
    BY <1>3, <2>3
  <2>5. FirstsIncrease(front)
    BY <2>3 DEF FirstsIncrease
  <2>6. /\ Increasing(Numbers(front)) /\ Range(Numbers(front)) = HeldBy(front)
    BY <2>4, <2>5, AllParse
  <2>7. EntriesIn(lines) = Numbers(front)
    BY <1>5, <2>1 DEF EntriesIn, Readable
  <2>8. HeldBy(front) = HeldBy(lines)
    <3>1. DOMAIN front = 1 .. Len(front)
      OBVIOUS
    <3>2. \A n : ~Holds(lines[Len(lines)], n)
      <4>1. Len(lines) \in 1 .. Len(lines)
        BY <1>1, <2>1
      <4> QED
        BY <1>1, <1>2, <1>5, <4>1, ParsedHolds
    <3>3. \A i \in 1 .. Len(lines) : i = Len(lines) \/ i \in 1 .. Len(front)
      <4>1. PICK n \in Nat : n = Len(lines) /\ Len(front) = n - 1
        BY <1>1, <2>2
      <4> QED
        BY <4>1
    <3> QED
      BY <1>1, <2>3, <3>1, <3>2, <3>3 DEF HeldBy
  <2> QED
    BY <2>6, <2>7, <2>8
<1> QED
  BY <1>4, <1>5

Added(entry, extent) == IF extent \in {"json", "whole"} THEN {entry} ELSE {}

LEMMA WrittenHolds ==
    ASSUME Shaped(file), NEW entry \in Numbered, NEW extent \in Extents,
           NEW lines, lines = Written(entry, extent)
    PROVE  HeldBy(lines) = HeldBy(file) \cup Added(entry, extent)
<1>1. file \in Seq(Lines) /\ Len(file) \in Nat /\ DOMAIN file = 1 .. Len(file)
  BY DEF Shaped
<1>2. PICK piece : piece = PieceOf(entry, extent)
  OBVIOUS
<1>3. \A n \in Nat : piece = Piece(n, "json") <=> n = entry /\ extent \in {"json", "whole"}
  BY <1>2 DEF PieceOf, Piece, Extents
<1>4. CASE extent = "nothing"
  BY <1>4, NothingWritten DEF Added
<1>5. CASE extent # "nothing" /\ ~Unended
  <2>1. PICK last : last = [pieces |-> <<piece>>, ended |-> (extent = "whole")]
    OBVIOUS
  <2>2. /\ Shaped(lines) /\ Len(lines) = Len(file) + 1
        /\ \A i \in 1 .. Len(file) : lines[i] = file[i]
        /\ lines[Len(file) + 1] = last
    BY <1>2, <1>5, <2>1, WrittenBehind
  <2>3. DOMAIN lines = 1 .. Len(file) + 1
    BY <2>2 DEF Shaped
  <2>4. last.pieces = <<piece>> /\ DOMAIN last.pieces = {1} /\ last.pieces[1] = piece
    BY <2>1
  <2>5. \A n \in Nat : Holds(last, n) <=> n = entry /\ extent \in {"json", "whole"}
    BY <1>3, <2>4 DEF Holds
  <2>6. \A i \in DOMAIN lines : (i \in DOMAIN file /\ lines[i] = file[i]) \/ lines[i] = last
    BY <1>1, <2>2, <2>3
  <2>7. /\ \A i \in DOMAIN file : i \in DOMAIN lines /\ lines[i] = file[i]
        /\ Len(file) + 1 \in DOMAIN lines
    BY <1>1, <2>2, <2>3
  <2>8. ASSUME NEW n \in Nat
        PROVE  n \in HeldBy(lines) <=> n \in HeldBy(file) \/ n \in Added(entry, extent)
    BY <2>2, <2>5, <2>6, <2>7 DEF HeldBy, Added
  <2> QED
    BY <2>8 DEF HeldBy, Added, Numbered
<1>6. CASE extent # "nothing" /\ Unended
  <2>1. PICK before : before = file[Len(file)].pieces
    OBVIOUS
  <2>2. PICK after : after = Append(before, piece)
    OBVIOUS
  <2>3. PICK last : last = [pieces |-> after, ended |-> (extent = "whole")]
    OBVIOUS
  <2>4. /\ Shaped(lines) /\ Len(lines) = Len(file) /\ Len(file) \in Nat \ {0}
        /\ \A i \in 1 .. Len(file) - 1 : lines[i] = file[i]
        /\ lines[Len(file)] = last
    BY <1>2, <1>6, <2>1, <2>2, <2>3, WrittenInto
  <2>5. DOMAIN lines = 1 .. Len(file) /\ Len(file) \in 1 .. Len(file)
    BY <2>4 DEF Shaped
  <2>6. before \in Seq(Pieces) /\ DOMAIN before = 1 .. Len(before)
    BY <1>1, <2>1, <2>5, LineIs
  <2>7. piece \in Pieces
    BY <1>2, <1>6, PieceTyped
  <2>8. /\ after \in Seq(Pieces) /\ Len(after) = Len(before) + 1 /\ Len(before) \in Nat
        /\ after[Len(before) + 1] = piece /\ \A j \in 1 .. Len(before) : after[j] = before[j]
    BY <2>2, <2>6, <2>7, MoreIs
  <2>9. DOMAIN after = 1 .. Len(before) + 1
    BY <2>8
  <2>10. \A n \in Nat : Holds(last, n)
            <=> Holds(file[Len(file)], n) \/ (n = entry /\ extent \in {"json", "whole"})
    <3>1. /\ \A j \in DOMAIN after : (j \in DOMAIN before /\ after[j] = before[j]) \/ after[j] = piece
          /\ \A j \in DOMAIN before : j \in DOMAIN after /\ after[j] = before[j]
          /\ Len(before) + 1 \in DOMAIN after
      BY <2>6, <2>8, <2>9
    <3>2. last.pieces = after
      BY <2>3
    <3> QED
      BY <1>3, <2>1, <2>8, <3>1, <3>2 DEF Holds
  <2>11. \A i \in DOMAIN lines : i \in DOMAIN file /\ (lines[i] = file[i] \/ i = Len(file))
    BY <1>1, <2>4, <2>5
  <2>12. ASSUME NEW n \in Nat
         PROVE  n \in HeldBy(lines) <=> n \in HeldBy(file) \/ n \in Added(entry, extent)
    BY <1>1, <2>4, <2>5, <2>10, <2>11 DEF HeldBy, Added
  <2> QED
    BY <2>12 DEF HeldBy, Added, Numbered
<1> QED
  BY <1>4, <1>5, <1>6

(* The entries of a file are written in their order.                       *)
LEMMA WrittenBelow ==
    ASSUME Shaped(file), NEW m \in Nat, Below(file, m), FirstsIncrease(file),
           NEW entry \in Numbered, m < entry, NEW extent \in Extents,
           NEW lines, lines = Written(entry, extent)
    PROVE  Below(lines, entry) /\ FirstsIncrease(lines)
<1>1. file \in Seq(Lines) /\ Len(file) \in Nat /\ DOMAIN file = 1 .. Len(file)
  BY DEF Shaped
<1>2. PICK piece : piece = PieceOf(entry, extent)
  OBVIOUS
<1>3. piece.entry = entry
  BY <1>2 DEF PieceOf, Piece
<1>4. \A i \in 1 .. Len(file) : \A j \in 1 .. Len(file[i].pieces) :
         file[i].pieces[j].entry \in Nat /\ file[i].pieces[j].entry <= m
  <2> SUFFICES ASSUME NEW i \in 1 .. Len(file), NEW j \in 1 .. Len(file[i].pieces)
               PROVE  file[i].pieces[j].entry \in Nat /\ file[i].pieces[j].entry <= m
    OBVIOUS
  <2>1. file[i].pieces[j].entry \in Numbered
    BY <1>1, LineIs
  <2>2. file[i].pieces[j].entry <= m
    BY DEF Below
  <2> QED
    BY <2>1, <2>2 DEF Numbered
<1>5. \A i \in 1 .. Len(file) : 1 \in 1 .. Len(file[i].pieces)
  BY <1>1, LineIs
<1>6. entry \in Nat
  BY DEF Numbered
<1>7. CASE extent = "nothing"
  <2>1. lines = file
    BY <1>7, NothingWritten
  <2>2. Below(file, entry)
    <3> SUFFICES ASSUME NEW i \in 1 .. Len(file), NEW j \in 1 .. Len(file[i].pieces)
                 PROVE  file[i].pieces[j].entry <= entry
      BY DEF Below
    <3>1. PICK n \in Nat : n = file[i].pieces[j].entry /\ n <= m
      BY <1>4
    <3> QED
      BY <1>6, <3>1
  <2> QED
    BY <2>1, <2>2
<1>8. CASE extent # "nothing" /\ ~Unended
  <2>1. PICK last : last = [pieces |-> <<piece>>, ended |-> (extent = "whole")]
    OBVIOUS
  <2>2. /\ Len(lines) = Len(file) + 1
        /\ \A i \in 1 .. Len(file) : lines[i] = file[i]
        /\ lines[Len(file) + 1] = last
    BY <1>2, <1>8, <2>1, WrittenBehind
  <2>3. last.pieces = <<piece>> /\ Len(last.pieces) = 1 /\ last.pieces[1] = piece
    BY <2>1
  <2>4. Below(lines, entry)
    <3> SUFFICES ASSUME NEW i \in 1 .. Len(lines), NEW j \in 1 .. Len(lines[i].pieces)
                 PROVE  lines[i].pieces[j].entry <= entry
      BY DEF Below
    <3>1. CASE i \in 1 .. Len(file)
      <4>1. PICK n \in Nat : n = file[i].pieces[j].entry /\ n <= m
        BY <1>4, <2>2, <3>1
      <4> QED
        BY <1>6, <2>2, <3>1, <4>1
    <3>2. CASE i = Len(file) + 1
      <4>1. lines[i] = last
        BY <2>2, <3>2
      <4>2. j \in 1 .. 1
        BY <2>3, <4>1
      <4>3. j = 1
        BY <4>2
      <4> QED
        BY <1>3, <1>6, <2>3, <4>1, <4>3
    <3> QED
      BY <1>1, <2>2, <3>1, <3>2
  <2>5. FirstsIncrease(lines)
    <3> SUFFICES ASSUME NEW i \in 1 .. Len(lines), NEW j \in 1 .. Len(lines), i < j
                 PROVE  lines[i].pieces[1].entry < lines[j].pieces[1].entry
      BY DEF FirstsIncrease
    <3>1. i \in 1 .. Len(file) /\ lines[i] = file[i]
      BY <1>1, <2>2
    <3>2. CASE j \in 1 .. Len(file)
      BY <2>2, <3>1, <3>2 DEF FirstsIncrease
    <3>3. CASE j = Len(file) + 1
      <4>1. PICK n \in Nat : n = file[i].pieces[1].entry /\ n <= m
        BY <1>4, <1>5, <3>1
      <4>2. lines[j].pieces[1].entry = entry
        BY <1>3, <2>2, <2>3, <3>3
      <4> QED
        BY <1>6, <3>1, <4>1, <4>2
    <3> QED
      BY <1>1, <2>2, <3>2, <3>3
  <2> QED
    BY <2>4, <2>5
<1>9. CASE extent # "nothing" /\ Unended
  <2>1. PICK before : before = file[Len(file)].pieces
    OBVIOUS
  <2>2. PICK after : after = Append(before, piece)
    OBVIOUS
  <2>3. PICK last : last = [pieces |-> after, ended |-> (extent = "whole")]
    OBVIOUS
  <2>4. /\ Len(lines) = Len(file) /\ Len(file) \in Nat \ {0}
        /\ \A i \in 1 .. Len(file) - 1 : lines[i] = file[i]
        /\ lines[Len(file)] = last
    BY <1>2, <1>9, <2>1, <2>2, <2>3, WrittenInto
  <2>5. Len(file) \in 1 .. Len(file)
    BY <2>4
  <2>6. before \in Seq(Pieces) /\ 1 \in 1 .. Len(before)
    BY <1>1, <2>1, <2>5, LineIs
  <2>7. piece \in Pieces
    BY <1>2, <1>9, PieceTyped
  <2>8. /\ Len(after) = Len(before) + 1 /\ Len(before) \in Nat
        /\ after[Len(before) + 1] = piece /\ \A j \in 1 .. Len(before) : after[j] = before[j]
    BY <2>2, <2>6, <2>7, MoreIs
  <2>9. last.pieces = after
    BY <2>3
  <2>10. \A i \in 1 .. Len(file) : i = Len(file) \/ lines[i] = file[i]
    BY <2>4
  <2>11. Below(lines, entry)
    <3> SUFFICES ASSUME NEW i \in 1 .. Len(lines), NEW j \in 1 .. Len(lines[i].pieces)
                 PROVE  lines[i].pieces[j].entry <= entry
      BY DEF Below
    <3>1. CASE i # Len(file)
      <4>1. i \in 1 .. Len(file) /\ lines[i] = file[i]
        BY <2>4, <2>10, <3>1
      <4>2. PICK n \in Nat : n = file[i].pieces[j].entry /\ n <= m
        BY <1>4, <4>1
      <4> QED
        BY <1>6, <4>1, <4>2
    <3>2. CASE i = Len(file)
      <4>1. lines[i].pieces = after /\ j \in 1 .. Len(before) + 1
        BY <2>4, <2>8, <2>9, <3>2
      <4>2. CASE j = Len(before) + 1
        BY <1>3, <1>6, <2>8, <4>1, <4>2
      <4>3. CASE j \in 1 .. Len(before)
        <5>1. PICK n \in Nat : n = before[j].entry /\ n <= m
          BY <1>4, <2>1, <2>5, <4>3
        <5> QED
          BY <1>6, <2>8, <4>1, <4>3, <5>1
      <4> QED
        BY <2>8, <4>1, <4>2, <4>3
    <3> QED
      BY <3>1, <3>2
  <2>12. \A i \in 1 .. Len(lines) : /\ i \in 1 .. Len(file)
                                   /\ lines[i].pieces[1] = file[i].pieces[1]
    <3> SUFFICES ASSUME NEW i \in 1 .. Len(lines)
                 PROVE  i \in 1 .. Len(file) /\ lines[i].pieces[1] = file[i].pieces[1]
      OBVIOUS
    <3>1. CASE i = Len(file)
      BY <2>1, <2>4, <2>6, <2>8, <2>9, <3>1
    <3>2. CASE i # Len(file)
      BY <2>4, <2>10, <3>2
    <3> QED
      BY <3>1, <3>2
  <2>13. FirstsIncrease(lines)
    BY <2>12 DEF FirstsIncrease
  <2> QED
    BY <2>11, <2>13
<1> QED
  BY <1>7, <1>8, <1>9

-----------------------------------------------------------------------------
(* The list over the ledger's steps.                                       *)

Done == IF status = "writing" THEN appended - 1 ELSE appended

ListInv ==
    /\ LinesInv
    /\ Below(file, Done) /\ FirstsIncrease(file)
    /\ raised \subseteq 1 .. Done
    /\ status = "closed" => raised = {}
    /\ status \in {"open", "writing"} =>
          /\ entries \in Seq(Numbered) /\ Increasing(entries)
          /\ Range(entries) = HeldBy(file) \ raised

LEMMA IncreasingMore ==
    ASSUME NEW s \in Seq(Numbered), Increasing(s), NEW m \in Nat, Range(s) \subseteq 1 .. m,
           NEW n \in Numbered, m < n, NEW t, t = Append(s, n)
    PROVE  t \in Seq(Numbered) /\ Increasing(t) /\ Range(t) = Range(s) \cup {n}
<1>1. /\ t \in Seq(Numbered) /\ Len(s) \in Nat /\ Len(t) = Len(s) + 1
      /\ t[Len(s) + 1] = n /\ \A i \in 1 .. Len(s) : t[i] = s[i]
  BY MoreIs
<1>2. DOMAIN s = 1 .. Len(s) /\ DOMAIN t = 1 .. Len(s) + 1
  BY <1>1
<1>3. \A i \in 1 .. Len(s) : s[i] \in Nat /\ s[i] < n
  <2> SUFFICES ASSUME NEW i \in 1 .. Len(s) PROVE s[i] \in Nat /\ s[i] < n
    OBVIOUS
  <2>1. s[i] \in 1 .. m
    BY <1>2 DEF Range
  <2> QED
    BY <2>1 DEF Numbered
<1>4. Increasing(t)
  <2> SUFFICES ASSUME NEW i \in 1 .. Len(s) + 1, NEW j \in 1 .. Len(s) + 1, i < j
               PROVE  t[i] < t[j]
    BY <1>2 DEF Increasing
  <2>1. i \in 1 .. Len(s) /\ t[i] = s[i]
    BY <1>1
  <2>2. CASE j \in 1 .. Len(s)
    BY <1>1, <1>2, <2>1, <2>2 DEF Increasing
  <2>3. CASE j = Len(s) + 1
    BY <1>1, <1>3, <2>1, <2>3
  <2> QED
    BY <1>1, <2>2, <2>3
<1>5. ASSUME NEW e PROVE e \in Range(t) <=> e \in Range(s) \/ e = n
  <2>1. \A i \in DOMAIN t : (i \in DOMAIN s /\ t[i] = s[i]) \/ t[i] = n
    BY <1>1, <1>2
  <2>2. /\ \A i \in DOMAIN s : i \in DOMAIN t /\ t[i] = s[i]
        /\ Len(s) + 1 \in DOMAIN t
    BY <1>1, <1>2
  <2> QED
    BY <1>1, <2>1, <2>2 DEF Range
<1> QED
  BY <1>1, <1>4, <1>5

(* A write, whatever there is of it, and whoever learns of it.             *)
LEMMA WriteLists ==
    ASSUME ListInv, status = "writing", NEW cut \in Extents,
           NEW lines, lines = Written(appended, cut)
    PROVE  /\ appended \in Numbered /\ raised \subseteq 1 .. appended
           /\ appended \notin HeldBy(file) /\ appended \notin raised
           /\ Below(lines, appended) /\ FirstsIncrease(lines)
           /\ HeldBy(lines) = HeldBy(file) \cup Added(appended, cut)
<1>1. Shaped(file) /\ appended \in Numbered
  BY DEF ListInv, LinesInv, Numbered
<1>2. PICK m \in Nat : m = appended - 1 /\ m = Done
  BY <1>1 DEF Done, Numbered
<1>3. Below(file, m) /\ FirstsIncrease(file) /\ raised \subseteq 1 .. m
  BY <1>2 DEF ListInv
<1>4. m < appended /\ appended \notin 1 .. m /\ 1 .. m \subseteq 1 .. appended
  BY <1>1, <1>2 DEF Numbered
<1>5. HeldBy(file) \subseteq 1 .. m
  BY <1>1, <1>3, HeldBelow DEF Shaped
<1>6. Below(lines, appended) /\ FirstsIncrease(lines)
  BY <1>1, <1>3, <1>4, WrittenBelow
<1>7. HeldBy(lines) = HeldBy(file) \cup Added(appended, cut)
  BY <1>1, WrittenHolds
<1> QED
  BY <1>1, <1>3, <1>4, <1>5, <1>6, <1>7

LEMMA ListNext ==
    ASSUME ListInv, [Next]_vars
    PROVE  ListInv'
<1>0. LinesInv /\ LinesInv' /\ appended \in Nat /\ Shaped(file) /\ file \in Seq(Lines)
  BY LinesNext DEF ListInv, LinesInv, Shaped
<1>1. CASE Open
  <2>1. status = "closed" /\ raised = {} /\ raised' = {} /\ Done = appended
    BY <1>1 DEF Open, ListInv, Done
  <2>2. Below(file, appended) /\ FirstsIncrease(file)
    BY <2>1 DEF ListInv
  <2>3. CASE CanOpen(file)
    <3>1. /\ file' = Readable(file) /\ entries' = EntriesIn(file')
          /\ \/ status' = "open" /\ appended' = appended
             \/ status' = "writing" /\ appended' = appended + 1
      BY <1>1, <2>3 DEF Open, Truncated
    <3>2. Done' = appended
      BY <1>0, <3>1 DEF Done
    <3>3. PICK lines : lines = file'
      OBVIOUS
    <3>4. /\ Shaped(lines)
          /\ \A i \in 1 .. Len(lines) : /\ i \in 1 .. Len(file) /\ lines[i] = file[i]
                                        /\ Parses(lines[i])
      BY <1>0, <2>3, <3>1, <3>3, LogMends
    <3>5. Below(lines, appended) /\ FirstsIncrease(lines)
      BY <2>2, <3>4 DEF Below, FirstsIncrease
    <3>6. /\ Readable(lines) = lines
          /\ Numbers(lines) \in Seq(Numbered) /\ Increasing(Numbers(lines))
          /\ Range(Numbers(lines)) = HeldBy(lines)
      BY <3>4, <3>5, AllParse DEF Shaped
    <3>7. entries' = Numbers(lines)
      BY <3>1, <3>3, <3>6 DEF EntriesIn
    <3> QED
      BY <1>0, <2>1, <3>1, <3>2, <3>3, <3>5, <3>6, <3>7 DEF ListInv
  <2>4. CASE ~CanOpen(file)
    <3>1. file' = file /\ status' = "failed" /\ appended' = appended
      BY <1>1, <2>4 DEF Open
    <3>2. Done' = appended
      BY <3>1 DEF Done
    <3> QED
      BY <1>0, <2>1, <2>2, <3>1, <3>2 DEF ListInv
  <2> QED
    BY <2>3, <2>4
<1>2. CASE BeginAppend
  <2>1. /\ file' = file /\ entries' = entries /\ raised' = raised
        /\ status = "open" /\ status' = "writing" /\ appended' = appended + 1
    BY <1>2 DEF BeginAppend
  <2>2. Done' = Done
    BY <1>0, <2>1 DEF Done
  <2> QED
    BY <1>0, <2>1, <2>2 DEF ListInv
<1>3. CASE Synced
  <2>1. /\ status = "writing" /\ file' = Written(appended, "whole") /\ status' = "open"
        /\ appended' = appended /\ raised' = raised /\ entries' = Append(entries, appended)
        /\ "whole" \in Extents
    BY <1>3 DEF Synced, Extents, EntriesAppended
  <2>2. /\ appended \in Numbered /\ raised \subseteq 1 .. appended
        /\ appended \notin HeldBy(file) /\ appended \notin raised
        /\ Below(file', appended) /\ FirstsIncrease(file')
        /\ HeldBy(file') = HeldBy(file) \cup Added(appended, "whole")
    BY <2>1, WriteLists
  <2>3. Done' = appended
    BY <2>1 DEF Done
  <2>4. PICK m \in Nat : m = appended - 1 /\ m = Done
    BY <2>1, <2>2 DEF Done, Numbered
  <2>5. /\ entries \in Seq(Numbered) /\ Increasing(entries)
        /\ Range(entries) = HeldBy(file) \ raised /\ Below(file, m)
    BY <2>1, <2>4 DEF ListInv
  <2>6. Range(entries) \subseteq 1 .. m
    BY <1>0, <2>5, HeldBelow
  <2>7. m < appended
    BY <2>2, <2>4 DEF Numbered
  <2>8. /\ entries' \in Seq(Numbered) /\ Increasing(entries')
        /\ Range(entries') = Range(entries) \cup {appended}
    BY <2>1, <2>2, <2>5, <2>6, <2>7, IncreasingMore
  <2>9. Range(entries') = HeldBy(file') \ raised'
    BY <2>1, <2>2, <2>5, <2>8 DEF Added
  <2> QED
    BY <1>0, <2>1, <2>2, <2>3, <2>8, <2>9 DEF ListInv
<1>4. CASE AppendFails
  <2>1. PICK cut \in Extents : file' = Written(appended, cut)
    BY <1>4, CutsAssumption DEF AppendFails
  <2>2. /\ status = "writing" /\ appended' = appended /\ entries' = entries
        /\ \/ status' = "closed" /\ raised' = {}
           \/ status' = "open" /\ raised' = raised \cup {appended}
    BY <1>4 DEF AppendFails
  <2>3. /\ appended \in Numbered /\ raised \subseteq 1 .. appended
        /\ appended \notin HeldBy(file) /\ appended \notin raised
        /\ Below(file', appended) /\ FirstsIncrease(file')
        /\ HeldBy(file') = HeldBy(file) \cup Added(appended, cut)
    BY <2>1, <2>2, WriteLists
  <2>4. Done' = appended
    BY <2>2 DEF Done
  <2>5. /\ entries \in Seq(Numbered) /\ Increasing(entries)
        /\ Range(entries) = HeldBy(file) \ raised
    BY <2>2 DEF ListInv
  <2>6. Range(entries) = HeldBy(file') \ (raised \cup {appended})
    BY <2>3, <2>5 DEF Added
  <2>7. raised' \subseteq 1 .. appended
    <3>1. appended \in 1 .. appended
      BY <2>3 DEF Numbered
    <3>2. CASE raised' = {}
      BY <3>2
    <3>3. CASE raised' = raised \cup {appended}
      BY <2>3, <3>1, <3>3
    <3> QED
      BY <2>2, <3>2, <3>3
  <2>8. CASE status' = "closed" /\ raised' = {}
    BY <1>0, <2>3, <2>4, <2>7, <2>8 DEF ListInv
  <2>9. CASE status' = "open" /\ raised' = raised \cup {appended}
    BY <1>0, <2>2, <2>3, <2>4, <2>5, <2>6, <2>7, <2>9 DEF ListInv
  <2> QED
    BY <2>2, <2>8, <2>9
<1>5. CASE Crash
  <2>1. status' = "closed" /\ raised' = {} /\ appended' = appended /\ Done' = appended
    BY <1>5 DEF Crash, Done
  <2>2. CASE status = "open"
    <3>1. file' = file /\ Done = appended
      BY <1>5, <2>2 DEF Crash, Done
    <3>2. Below(file', appended) /\ FirstsIncrease(file')
      BY <3>1 DEF ListInv
    <3> QED
      BY <1>0, <2>1, <3>2 DEF ListInv
  <2>3. CASE status = "writing"
    <3>1. PICK cut \in Extents : file' = Written(appended, cut)
      BY <1>5, <2>3, CutsAssumption DEF Crash, Extents
    <3>2. Below(file', appended) /\ FirstsIncrease(file')
      BY <2>3, <3>1, WriteLists
    <3> QED
      BY <1>0, <2>1, <3>2 DEF ListInv
  <2> QED
    BY <1>5, <2>2, <2>3 DEF Crash
<1>6. CASE Rest \/ UNCHANGED vars
  <2>1. UNCHANGED vars
    BY <1>6 DEF Rest
  <2>2. /\ file' = file /\ entries' = entries /\ status' = status
        /\ appended' = appended /\ raised' = raised /\ Done' = Done
    BY <2>1 DEF vars, Done
  <2> QED
    BY <1>0, <2>2 DEF ListInv
<1> QED
  BY <1>1, <1>2, <1>3, <1>4, <1>5, <1>6 DEF Next

LEMMA ListAlways == Spec => []ListInv
<1>1. Init /\ LinesInv => ListInv
  <2> SUFFICES ASSUME Init, LinesInv PROVE ListInv
    OBVIOUS
  <2>1. file = <<>> /\ status = "closed" /\ raised = {} /\ Len(<<>>) = 0
    BY DEF Init
  <2>2. Below(file, Done) /\ FirstsIncrease(file)
    BY <2>1 DEF Below, FirstsIncrease
  <2> QED
    BY <2>1, <2>2 DEF ListInv
<1>2. ListInv /\ [Next]_vars => ListInv'
  BY ListNext
<1> QED
  BY <1>1, <1>2, LinesAlways, PTL DEF Spec

(* session_jsonl.py:73 and 138: whatever stops and raising appends have    *)
(* left before, an open ledger's list is the entries in the file, in       *)
(* order, but for those whose append raised, and as long as no two writes  *)
(* share a line a reader finds the file's entries.                         *)
THEOREM ListIsTheFile == Spec => []MemoryMatchesFile
<1>1. ListInv => MemoryMatchesFile
  <2> SUFFICES ASSUME ListInv, status \in {"open", "writing"}
               PROVE  /\ Increasing(entries) /\ Range(entries) = OnDisk \ raised
                      /\ ~SharedLine => /\ Increasing(EntriesIn(file))
                                        /\ Range(EntriesIn(file)) = OnDisk
    BY DEF MemoryMatchesFile
  <2>1. Shaped(file) /\ file \in Seq(Lines) /\ appended \in Nat
    BY DEF ListInv, LinesInv, Shaped
  <2>2. PICK m \in Nat : m = Done /\ m <= appended
    BY <2>1 DEF Done, ListInv, LinesInv
  <2>3. HeldBy(file) \subseteq 1 .. m
    BY <2>1, <2>2, HeldBelow DEF ListInv
  <2>4. 1 .. m \subseteq 1 .. appended
    BY <2>1, <2>2
  <2>5. OnDisk = HeldBy(file)
    BY <2>1, <2>3, <2>4 DEF OnDisk, HeldBy
  <2>6. ASSUME ~SharedLine
        PROVE  Increasing(EntriesIn(file)) /\ Range(EntriesIn(file)) = HeldBy(file)
    <3>1. \A i \in 1 .. Len(file) : ~(Len(file[i].pieces) > 1)
      BY <2>1, <2>6 DEF SharedLine
    <3> QED
      BY <2>1, <3>1, Unshared DEF ListInv
  <2> QED
    BY <2>5, <2>6 DEF ListInv
<1> QED
  BY <1>1, ListAlways, PTL
=============================================================================
