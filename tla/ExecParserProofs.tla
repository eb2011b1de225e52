-------------------------- MODULE ExecParserProofs --------------------------
(***************************************************************************)
(* Theorems about ExecParser, for every text and every way to cut it: the  *)
(* result is the block structure of the whole text, what was shown while   *)
(* it streamed in is what the message holds, and the reply that goes back  *)
(* to the provider reads as the same block.                                *)
(***************************************************************************)
EXTENDS ExecParser, SequenceTheorems, WellFoundedInduction, TLAPS

Text == Seq(Symbols)

(* A text after which a new line begins.                                   *)
Closed(text) == text = <<>> \/ text[Len(text)] = Newline

(* A line of a text, with its newline if it has one.                       *)
Line(line) == /\ line \in Text
              /\ line # <<>>
              /\ \A i \in 1 .. Len(line) - 1 : line[i] # Newline

Marks == {Open, Close}

-----------------------------------------------------------------------------
(* Sets of naturals, and texts.                                            *)

(* A set of naturals that is not empty has a least element.                *)
LEMMA LeastElement ==
    ASSUME NEW S \in SUBSET Nat, S # {}
    PROVE  \E x \in S : \A y \in S : x <= y
<1> DEFINE R == {p \in Nat \X Nat : p[1] < p[2]}
<1>1. IsWellFoundedOn(R, Nat)
  <2>1. OpToRel(<, Nat) = R
    BY DEF OpToRel
  <2> QED
    BY <2>1, NatLessThanWellFounded
<1>2. PICK x \in S : \A y \in S : ~(<<y, x>> \in R)
  <2> HIDE DEF R
  <2> QED
    BY WFMin, <1>1
<1>3. ASSUME NEW y \in S PROVE x <= y
  <2>1. <<y, x>>[1] = y /\ <<y, x>>[2] = x /\ <<y, x>> \in Nat \X Nat
    OBVIOUS
  <2>2. ~(y < x)
    BY <1>2, <2>1
  <2> QED
    BY <2>2
<1> QED
  BY <1>3

(* A set that holds 0 and, with each number, the next, holds all.          *)
LEMMA SetInduction ==
    ASSUME NEW T, 0 \in T, \A n \in Nat : n \in T => n + 1 \in T
    PROVE  Nat \subseteq T
<1> SUFFICES ASSUME Nat \ T # {} PROVE FALSE
  OBVIOUS
<1>1. PICK x \in Nat \ T : \A y \in Nat \ T : x <= y
  <2>1. (Nat \ T) \in SUBSET Nat
    OBVIOUS
  <2> QED
    BY <2>1, LeastElement
<1>2. x # 0 /\ x - 1 \in Nat /\ ~(x <= x - 1) /\ (x - 1) + 1 = x
  BY <1>1
<1>3. x - 1 \in T
  BY <1>1, <1>2
<1> QED
  BY <1>1, <1>2, <1>3

(* What a text and two texts joined are made of.                           *)
LEMMA TextFacts ==
    ASSUME NEW text \in Text
    PROVE  /\ Len(text) \in Nat
           /\ DOMAIN text = 1 .. Len(text)
           /\ text = <<>> <=> Len(text) = 0
           /\ \A i \in 1 .. Len(text) : text[i] \in Symbols
<1>1. Len(text) \in Nat /\ DOMAIN text = 1 .. Len(text)
  BY LenProperties DEF Text
<1>2. text = <<>> <=> Len(text) = 0
  BY EmptySeq DEF Text
<1>3. \A i \in 1 .. Len(text) : text[i] \in Symbols
  BY ElementOfSeq DEF Text
<1> QED
  BY <1>1, <1>2, <1>3

LEMMA JoinFacts ==
    ASSUME NEW s \in Text, NEW t \in Text
    PROVE  /\ s \o t \in Text
           /\ Len(s \o t) = Len(s) + Len(t)
           /\ \A i \in 1 .. Len(s) : (s \o t)[i] = s[i]
           /\ \A i \in 1 .. Len(t) : (s \o t)[Len(s) + i] = t[i]
<1>1. /\ s \o t \in Text
      /\ Len(s \o t) = Len(s) + Len(t)
      /\ \A i \in 1 .. Len(s) + Len(t) : (s \o t)[i] =
            IF i <= Len(s) THEN s[i] ELSE t[i - Len(s)]
  BY ConcatProperties DEF Text
<1>2. Len(s) \in Nat /\ Len(t) \in Nat
  BY TextFacts
<1>3. \A i \in 1 .. Len(s) : (s \o t)[i] = s[i]
  BY <1>1, <1>2
<1>4. ASSUME NEW i \in 1 .. Len(t) PROVE (s \o t)[Len(s) + i] = t[i]
  <2>1. Len(s) + i \in 1 .. Len(s) + Len(t) /\ ~(Len(s) + i <= Len(s)) /\ (Len(s) + i) - Len(s) = i
    BY <1>2
  <2> QED
    BY <1>1, <2>1
<1> QED
  BY <1>1, <1>3, <1>4

LEMMA SliceFacts ==
    ASSUME NEW text \in Text, NEW a \in Nat \ {0}, NEW b \in Nat, b <= Len(text)
    PROVE  /\ SubSeq(text, a, b) \in Text
           /\ Len(SubSeq(text, a, b)) = IF a <= b THEN b - a + 1 ELSE 0
           /\ \A i \in 1 .. b - a + 1 : SubSeq(text, a, b)[i] = text[a + i - 1]
<1>1. \A i \in a .. b : text[i] \in Symbols
  BY TextFacts
<1> QED
  BY <1>1, SubSeqProperties DEF Text

(* A text falls into what stands up to a position and what stands after.   *)
LEMMA CutFacts ==
    ASSUME NEW text \in Text, NEW n \in 0 .. Len(text)
    PROVE  /\ text = SubSeq(text, 1, n) \o SubSeq(text, n + 1, Len(text))
           /\ SubSeq(text, 1, n) \in Text
           /\ SubSeq(text, n + 1, Len(text)) \in Text
           /\ Len(SubSeq(text, 1, n)) = n
           /\ Len(SubSeq(text, n + 1, Len(text))) = Len(text) - n
           /\ \A i \in 1 .. n : SubSeq(text, 1, n)[i] = text[i]
<1>1. Len(text) \in Nat /\ n \in Nat
  BY TextFacts
<1>2. SubSeq(text, 1, n) \o SubSeq(text, n + 1, Len(text)) = SubSeq(text, 1, Len(text))
  <2>1. /\ 1 \in 1 .. Len(text) + 1
        /\ n \in 1 - 1 .. Len(text)
        /\ Len(text) \in n .. Len(text)
    BY <1>1
  <2> QED
    BY <2>1, ConcatAdjacentSubSeq DEF Text
<1>3. SubSeq(text, 1, Len(text)) = text
  BY SubSeqFull DEF Text
<1>4. /\ SubSeq(text, 1, n) \in Text
      /\ Len(SubSeq(text, 1, n)) = n
      /\ \A i \in 1 .. n : SubSeq(text, 1, n)[i] = text[i]
  BY <1>1, SliceFacts
<1>5. /\ SubSeq(text, n + 1, Len(text)) \in Text
      /\ Len(SubSeq(text, n + 1, Len(text))) = Len(text) - n
  BY <1>1, SliceFacts
<1> QED
  BY <1>2, <1>3, <1>4, <1>5

(* The slices of two texts joined.                                         *)
LEMMA JoinSlices ==
    ASSUME NEW s \in Text, NEW t \in Text, NEW a \in Nat \ {0}
    PROVE  /\ \A b \in 0 .. Len(s) : SubSeq(s \o t, a, b) = SubSeq(s, a, b)
           /\ \A b \in 0 .. Len(t) :
                SubSeq(s \o t, Len(s) + a, Len(s) + b) = SubSeq(t, a, b)
           /\ a <= Len(s) + 1 =>
                SubSeq(s \o t, a, Len(s \o t)) = SubSeq(s, a, Len(s)) \o t
<1> DEFINE u == s \o t
<1>0. /\ u \in Text /\ Len(u) = Len(s) + Len(t)
      /\ Len(s) \in Nat /\ Len(t) \in Nat
      /\ \A i \in 1 .. Len(s) : u[i] = s[i]
      /\ \A i \in 1 .. Len(t) : u[Len(s) + i] = t[i]
  BY JoinFacts, TextFacts
<1> HIDE DEF u
<1>1. ASSUME NEW b \in 0 .. Len(s) PROVE SubSeq(u, a, b) = SubSeq(s, a, b)
  <2> DEFINE x == SubSeq(u, a, b)
             y == SubSeq(s, a, b)
  <2>1. b \in Nat /\ b <= Len(u) /\ b <= Len(s)
    BY <1>0
  <2>2. /\ x \in Text
        /\ Len(x) = IF a <= b THEN b - a + 1 ELSE 0
        /\ \A i \in 1 .. b - a + 1 : x[i] = u[a + i - 1]
    BY <1>0, <2>1, SliceFacts
  <2>3. /\ y \in Text
        /\ Len(y) = IF a <= b THEN b - a + 1 ELSE 0
        /\ \A i \in 1 .. b - a + 1 : y[i] = s[a + i - 1]
    BY <2>1, SliceFacts
  <2> HIDE DEF x, y
  <2>4. ASSUME NEW i \in 1 .. Len(x) PROVE x[i] = y[i]
    <3>1. i \in 1 .. b - a + 1 /\ a + i - 1 \in 1 .. Len(s)
      BY <1>0, <2>1, <2>2
    <3> QED
      BY <1>0, <2>2, <2>3, <3>1
  <2>5. x = y
    BY <2>2, <2>3, <2>4, SeqEqual DEF Text
  <2> QED
    BY <2>5 DEF x, y
<1>2. ASSUME NEW b \in 0 .. Len(t)
      PROVE  SubSeq(u, Len(s) + a, Len(s) + b) = SubSeq(t, a, b)
  <2> DEFINE x == SubSeq(u, Len(s) + a, Len(s) + b)
             y == SubSeq(t, a, b)
  <2>1. PICK c \in Nat \ {0} : c = Len(s) + a
    BY <1>0
  <2>2. PICK d \in Nat : d = Len(s) + b
    BY <1>0
  <2>3. b \in Nat /\ b <= Len(t) /\ d <= Len(u) /\ d - c = b - a /\ (c <= d <=> a <= b)
    BY <1>0, <2>1, <2>2
  <2>4. /\ SubSeq(u, c, d) \in Text
        /\ Len(SubSeq(u, c, d)) = IF c <= d THEN d - c + 1 ELSE 0
        /\ \A i \in 1 .. d - c + 1 : SubSeq(u, c, d)[i] = u[c + i - 1]
    BY <1>0, <2>3, SliceFacts
  <2>5. /\ y \in Text
        /\ Len(y) = IF a <= b THEN b - a + 1 ELSE 0
        /\ \A i \in 1 .. b - a + 1 : y[i] = t[a + i - 1]
    BY <2>3, SliceFacts
  <2>6. x = SubSeq(u, c, d)
    BY <2>1, <2>2
  <2> HIDE DEF x, y
  <2>7. ASSUME NEW i \in 1 .. Len(x) PROVE x[i] = y[i]
    <3>1. i \in 1 .. b - a + 1 /\ i \in 1 .. d - c + 1 /\ a + i - 1 \in 1 .. Len(t)
      BY <1>0, <2>3, <2>4, <2>6, SMTT(30)
    <3>2. u[Len(s) + (a + i - 1)] = t[a + i - 1]
      BY <1>0, <3>1
    <3>3. Len(s) + (a + i - 1) = c + i - 1
      BY <1>0, <2>1
    <3> QED
      BY <2>4, <2>5, <2>6, <3>1, <3>2, <3>3
  <2>8. x = y
    BY <2>3, <2>4, <2>5, <2>6, <2>7, SeqEqual DEF Text
  <2> QED
    BY <2>8 DEF x, y
<1>3. ASSUME a <= Len(s) + 1
      PROVE  SubSeq(u, a, Len(u)) = SubSeq(s, a, Len(s)) \o t
  <2>1. SubSeq(u, a, Len(s)) \o SubSeq(u, Len(s) + 1, Len(u)) = SubSeq(u, a, Len(u))
    <3>1. /\ a \in 1 .. Len(u) + 1
          /\ Len(s) \in a - 1 .. Len(u)
          /\ Len(u) \in Len(s) .. Len(u)
      BY <1>0, <1>3
    <3> QED
      BY <1>0, <3>1, ConcatAdjacentSubSeq DEF Text
  <2>2. SubSeq(u, a, Len(s)) = SubSeq(s, a, Len(s))
    BY <1>0, <1>1
  <2>3. SubSeq(u, Len(s) + 1, Len(u)) = t
    <3> DEFINE x == SubSeq(u, Len(s) + 1, Len(u))
    <3>1. PICK n \in 0 .. Len(u) : n = Len(s)
      BY <1>0
    <3>2. /\ x \in Text
          /\ Len(x) = Len(t)
          /\ \A i \in 1 .. Len(t) : x[i] = u[Len(s) + i]
      <4>1. n + 1 \in Nat \ {0} /\ Len(u) \in Nat /\ Len(u) <= Len(u)
        BY <1>0
      <4>2. /\ SubSeq(u, n + 1, Len(u)) \in Text
            /\ Len(SubSeq(u, n + 1, Len(u))) = IF n + 1 <= Len(u) THEN Len(u) - (n + 1) + 1 ELSE 0
            /\ \A i \in 1 .. Len(u) - (n + 1) + 1 : SubSeq(u, n + 1, Len(u))[i] = u[(n + 1) + i - 1]
        BY <1>0, <4>1, SliceFacts
      <4> QED
        BY <1>0, <3>1, <4>2
    <3> HIDE DEF x
    <3>3. x = t
      BY <1>0, <3>2, SeqEqual DEF Text
    <3> QED
      BY <3>3 DEF x
  <2> QED
    BY <2>1, <2>2, <2>3
<1> QED
  BY <1>1, <1>2, <1>3 DEF u

-----------------------------------------------------------------------------
(* Line ends and marker lines.                                             *)

(* i is where the line that a begins ends.                                 *)
EndsAt(text, a, i) ==
    /\ i \in a .. Len(text)
    /\ text[i] = Newline \/ i = Len(text)
    /\ \A j \in a .. i - 1 : text[j] # Newline

LEMMA LineEndFacts ==
    ASSUME NEW text \in Text, NEW a \in 1 .. Len(text)
    PROVE  /\ EndsAt(text, a, LineEnd(text, a))
           /\ \A i : EndsAt(text, a, i) => i = LineEnd(text, a)
<1> DEFINE ends == {j \in a .. Len(text) : text[j] = Newline}
<1>0. Len(text) \in Nat /\ a \in Nat
  BY TextFacts
<1>1. EndsAt(text, a, LineEnd(text, a))
  <2>1. CASE ends = {}
    <3>1. LineEnd(text, a) = Len(text)
      BY <2>1 DEF LineEnd
    <3> QED
      BY <1>0, <2>1, <3>1 DEF EndsAt
  <2>2. CASE ends # {}
    <3> DEFINE e == CHOOSE j \in ends : \A k \in ends : j <= k
    <3>1. LineEnd(text, a) = e
      BY <2>2 DEF LineEnd
    <3>2. e \in ends /\ \A k \in ends : e <= k
      <4>1. ends \in SUBSET Nat
        BY <1>0
      <4> HIDE DEF ends
      <4>2. \E j \in ends : \A k \in ends : j <= k
        BY <2>2, <4>1, LeastElement
      <4> QED
        BY <4>2
    <3> HIDE DEF e
    <3>3. ASSUME NEW j \in a .. e - 1 PROVE text[j] # Newline
      <4>1. ~(e <= j) /\ j \in a .. Len(text)
        BY <1>0, <3>2
      <4> QED
        BY <3>2, <4>1
    <3> QED
      BY <3>1, <3>2, <3>3 DEF EndsAt
  <2> QED
    BY <2>1, <2>2
<1>2. ASSUME NEW i, EndsAt(text, a, i), NEW k, EndsAt(text, a, k), i < k PROVE FALSE
  <2>1. i \in a .. k - 1 /\ i # Len(text)
    BY <1>0, <1>2 DEF EndsAt
  <2> QED
    BY <1>2, <2>1 DEF EndsAt
<1>3. ASSUME NEW i, EndsAt(text, a, i) PROVE i = LineEnd(text, a)
  <2>1. i \in Nat /\ LineEnd(text, a) \in Nat
    BY <1>0, <1>1, <1>3 DEF EndsAt
  <2>2. ~(i < LineEnd(text, a)) /\ ~(LineEnd(text, a) < i)
    BY <1>1, <1>2, <1>3
  <2> QED
    BY <2>1, <2>2
<1> QED
  BY <1>1, <1>3

(* Where the first of two joined texts ends a line, the lines of both are  *)
(* the lines of the whole.                                                 *)
LEMMA JoinedLines ==
    ASSUME NEW s \in Text, Closed(s), NEW t \in Text
    PROVE  /\ \A a \in 1 .. Len(s) : /\ LineEnd(s \o t, a) = LineEnd(s, a)
                                     /\ (s \o t)[LineEnd(s, a)] = Newline
           /\ \A a \in 1 .. Len(t) : LineEnd(s \o t, Len(s) + a) = Len(s) + LineEnd(t, a)
<1> DEFINE u == s \o t
<1>0. /\ u \in Text /\ Len(u) = Len(s) + Len(t)
      /\ Len(s) \in Nat /\ Len(t) \in Nat
      /\ \A i \in 1 .. Len(s) : u[i] = s[i]
      /\ \A i \in 1 .. Len(t) : u[Len(s) + i] = t[i]
      /\ s = <<>> <=> Len(s) = 0
  BY JoinFacts, TextFacts
<1> HIDE DEF u
<1>1. ASSUME NEW a \in 1 .. Len(s)
      PROVE  LineEnd(u, a) = LineEnd(s, a) /\ u[LineEnd(s, a)] = Newline
  <2>1. PICK e : e = LineEnd(s, a)
    OBVIOUS
  <2>2. EndsAt(s, a, e)
    BY <2>1, LineEndFacts
  <2>3. s[e] = Newline
    BY <1>0, <2>2 DEF EndsAt, Closed
  <2>4. EndsAt(u, a, e) /\ u[e] = Newline
    BY <1>0, <2>2, <2>3, SMTT(30) DEF EndsAt
  <2>5. a \in 1 .. Len(u)
    BY <1>0
  <2> QED
    BY <1>0, <2>1, <2>4, <2>5, LineEndFacts
<1>2. ASSUME NEW a \in 1 .. Len(t) PROVE LineEnd(u, Len(s) + a) = Len(s) + LineEnd(t, a)
  <2>1. PICK e : e = LineEnd(t, a)
    OBVIOUS
  <2>2. EndsAt(t, a, e)
    BY <2>1, LineEndFacts
  <2>3. e \in Nat /\ e \in 1 .. Len(t) /\ u[Len(s) + e] = t[e]
    BY <1>0, <2>2 DEF EndsAt
  <2>4. PICK x \in Nat, y \in Nat : x = Len(s) + a /\ y = Len(s) + e
    BY <1>0, <2>3
  <2>5. EndsAt(u, Len(s) + a, Len(s) + e)
    <3>1. y \in x .. Len(u) /\ (y = Len(u) <=> e = Len(t))
      BY <1>0, <2>2, <2>3, <2>4 DEF EndsAt
    <3>2. u[y] = Newline \/ y = Len(u)
      BY <2>2, <2>3, <2>4, <3>1 DEF EndsAt
    <3>3. ASSUME NEW j \in x .. y - 1 PROVE u[j] # Newline
      <4>0. j \in Nat /\ a \in Nat /\ j - Len(s) \in Nat /\ j = Len(s) + (j - Len(s))
        BY <1>0, <2>4
      <4>1. PICK i \in Nat : j = Len(s) + i
        BY <4>0
      <4>2. i \in a .. e - 1 /\ i \in 1 .. Len(t)
        BY <1>0, <2>3, <2>4, <4>1
      <4>3. t[i] # Newline
        BY <2>2, <4>2 DEF EndsAt
      <4> QED
        BY <1>0, <4>1, <4>2, <4>3
    <3> QED
      BY <2>4, <3>1, <3>2, <3>3 DEF EndsAt
  <2>6. Len(s) + a \in 1 .. Len(u)
    BY <1>0
  <2> QED
    BY <1>0, <2>1, <2>5, <2>6, LineEndFacts
<1> QED
  BY <1>1, <1>2 DEF u

(* The marker lines of the whole are those of the two texts.               *)
LEMMA JoinedMarkers ==
    ASSUME NEW s \in Text, Closed(s), NEW t \in Text, NEW m
    PROVE  /\ \A i \in Markers(s \o t, m) :
                i \in Markers(s, m) \/ \E k \in Markers(t, m) : i = Len(s) + k
           /\ \A i \in Markers(s, m) : i \in Markers(s \o t, m)
           /\ \A k \in Markers(t, m) : Len(s) + k \in Markers(s \o t, m)
<1> DEFINE u == s \o t
<1>0. /\ u \in Text /\ Len(u) = Len(s) + Len(t)
      /\ Len(s) \in Nat /\ Len(t) \in Nat
      /\ DOMAIN u = 1 .. Len(u) /\ DOMAIN s = 1 .. Len(s) /\ DOMAIN t = 1 .. Len(t)
      /\ \A i \in 1 .. Len(s) : u[i] = s[i]
      /\ \A i \in 1 .. Len(t) : u[Len(s) + i] = t[i]
      /\ s = <<>> <=> Len(s) = 0
  BY JoinFacts, TextFacts
<1>1. ASSUME NEW i \in 1 .. Len(s)
      PROVE  i \in Markers(u, m) <=> i \in Markers(s, m)
  <2>1. PICK e : e = LineEnd(s, i)
    OBVIOUS
  <2>2. LineEnd(u, i) = e /\ e \in 0 .. Len(s)
    BY <1>0, <2>1, JoinedLines, LineEndFacts DEF EndsAt
  <2>3. SubSeq(u, i, e) = SubSeq(s, i, e)
    BY <1>0, <2>2, JoinSlices
  <2>4. StartsLine(u, i) <=> StartsLine(s, i)
    <3>1. i = 1 \/ i - 1 \in 1 .. Len(s)
      BY <1>0
    <3> QED
      BY <1>0, <3>1 DEF StartsLine
  <2>5. i \in DOMAIN u /\ i \in DOMAIN s
    BY <1>0
  <2> HIDE DEF u
  <2> QED
    BY <2>1, <2>2, <2>3, <2>4, <2>5 DEF Markers
<1>2. ASSUME NEW k \in 1 .. Len(t)
      PROVE  Len(s) + k \in Markers(u, m) <=> k \in Markers(t, m)
  <2>1. PICK e : e = LineEnd(t, k)
    OBVIOUS
  <2>2. LineEnd(u, Len(s) + k) = Len(s) + e /\ e \in 0 .. Len(t)
    BY <1>0, <2>1, JoinedLines, LineEndFacts DEF EndsAt
  <2>3. SubSeq(u, Len(s) + k, Len(s) + e) = SubSeq(t, k, e)
    <3>1. k \in Nat \ {0}
      BY <1>0
    <3> QED
      BY <1>0, <2>2, <3>1, JoinSlices
  <2>4. StartsLine(u, Len(s) + k) <=> StartsLine(t, k)
    <3>1. CASE k = 1
      <4>1. Len(s) + k = 1 \/ (Len(s) \in 1 .. Len(s) /\ (Len(s) + k) - 1 = Len(s))
        BY <1>0, <3>1
      <4> QED
        BY <1>0, <3>1, <4>1 DEF StartsLine, Closed
    <3>2. CASE k # 1
      <4>1. /\ k - 1 \in 1 .. Len(t)
            /\ (Len(s) + k) - 1 = Len(s) + (k - 1)
            /\ Len(s) + k # 1
        BY <1>0, <3>2
      <4> QED
        BY <1>0, <3>2, <4>1 DEF StartsLine
    <3> QED
      BY <3>1, <3>2
  <2>5. Len(s) + k \in DOMAIN u /\ k \in DOMAIN t
    BY <1>0
  <2> HIDE DEF u
  <2> QED
    BY <2>1, <2>2, <2>3, <2>4, <2>5 DEF Markers
<1>3. ASSUME NEW i \in Markers(u, m)
      PROVE  i \in Markers(s, m) \/ \E k \in Markers(t, m) : i = Len(s) + k
  <2>1. i \in 1 .. Len(u)
    BY <1>0, <1>3 DEF Markers
  <2>2. CASE i <= Len(s)
    <3>1. i \in 1 .. Len(s)
      BY <1>0, <2>1, <2>2
    <3> QED
      BY <1>1, <1>3, <3>1
  <2>3. CASE ~(i <= Len(s))
    <3>1. i - Len(s) \in 1 .. Len(t) /\ i = Len(s) + (i - Len(s))
      BY <1>0, <2>1, <2>3
    <3>2. PICK k \in 1 .. Len(t) : i = Len(s) + k
      BY <3>1
    <3> QED
      BY <1>2, <1>3, <3>2
  <2> QED
    BY <2>2, <2>3
<1>4. /\ \A i \in Markers(s, m) : i \in 1 .. Len(s)
      /\ \A k \in Markers(t, m) : k \in 1 .. Len(t)
  BY <1>0 DEF Markers
<1> HIDE DEF u
<1>5. /\ \A i \in Markers(s, m) : i \in Markers(u, m)
      /\ \A k \in Markers(t, m) : Len(s) + k \in Markers(u, m)
  BY <1>1, <1>2, <1>4
<1> QED
  BY <1>3, <1>5 DEF u

(* A line is a marker line or holds none.                                  *)
LEMMA LineMarkers ==
    ASSUME NEW line, Line(line), NEW m
    PROVE  /\ line \in MarkerLines(m) => Markers(line, m) = {1}
           /\ line \notin MarkerLines(m) => Markers(line, m) = {}
<1>0. /\ line \in Text /\ Len(line) \in Nat /\ Len(line) # 0
      /\ DOMAIN line = 1 .. Len(line)
  BY TextFacts DEF Line
<1>1. LineEnd(line, 1) = Len(line)
  <2>1. EndsAt(line, 1, Len(line)) /\ 1 \in 1 .. Len(line)
    BY <1>0 DEF EndsAt, Line
  <2> QED
    BY <1>0, <2>1, LineEndFacts
<1>2. SubSeq(line, 1, Len(line)) = line
  BY <1>0, SubSeqFull DEF Text
<1>3. ASSUME NEW i \in Markers(line, m) PROVE i = 1
  <2>1. i \in 1 .. Len(line) /\ (i = 1 \/ line[i - 1] = Newline)
    BY <1>0 DEF Markers, StartsLine
  <2>2. i = 1 \/ i - 1 \in 1 .. Len(line) - 1
    BY <1>0, <2>1
  <2> QED
    BY <2>1, <2>2 DEF Line
<1>4. 1 \in Markers(line, m) <=> line \in MarkerLines(m)
  <2>1. 1 \in DOMAIN line /\ StartsLine(line, 1)
    BY <1>0 DEF StartsLine
  <2> QED
    BY <1>1, <1>2, <2>1 DEF Markers
<1> QED
  BY <1>3, <1>4

LEMMA NoMarkersInNothing == \A m : Markers(<<>>, m) = {}
<1>1. DOMAIN <<>> = {}
  OBVIOUS
<1> QED
  BY <1>1 DEF Markers

-----------------------------------------------------------------------------
(* What the parser makes of a line.                                        *)

(* A last symbol that is dropped was there.                                *)
LEMMA Dropped ==
    ASSUME NEW text \in Text, NEW symbol \in Symbols
    PROVE  /\ DropLast(text, symbol) \in Text
           /\ text = DropLast(text, symbol) \/ text = DropLast(text, symbol) \o <<symbol>>
           /\ DropLast(text \o <<symbol>>, symbol) = text
           /\ text # <<>> /\ text[Len(text)] # symbol => DropLast(text, symbol) = text
<1>0. Len(text) \in Nat /\ (text = <<>> <=> Len(text) = 0)
  BY TextFacts
<1>1. ASSUME Len(text) > 0 /\ Last(text) = symbol
      PROVE  /\ DropLast(text, symbol) \in Text
             /\ text = DropLast(text, symbol) \/ text = DropLast(text, symbol) \o <<symbol>>
  <2>1. DropLast(text, symbol) = SubSeq(text, 1, Len(text) - 1) /\ text[Len(text)] = symbol
    BY <1>1 DEF DropLast, Front, Last
  <2>2. PICK n \in 0 .. Len(text) : n = Len(text) - 1 /\ n + 1 = Len(text)
    <3>1. /\ Len(text) - 1 \in 0 .. Len(text)
          /\ (Len(text) - 1) + 1 = Len(text)
      BY <1>0, <1>1
    <3> QED
      BY <3>1
  <2>3. /\ text = SubSeq(text, 1, n) \o SubSeq(text, Len(text), Len(text))
        /\ SubSeq(text, 1, n) \in Text
    <3>1. /\ text = SubSeq(text, 1, n) \o SubSeq(text, n + 1, Len(text))
          /\ SubSeq(text, 1, n) \in Text
      BY CutFacts
    <3> QED
      BY <2>2, <3>1
  <2>4. SubSeq(text, Len(text), Len(text)) = <<symbol>>
    <3>1. Len(text) \in Nat \ {0} /\ Len(text) <= Len(text)
      BY <1>0, <1>1
    <3> DEFINE x == SubSeq(text, Len(text), Len(text))
    <3>2. x \in Text /\ Len(x) = 1 /\ x[1] = symbol
      BY <1>0, <2>1, <3>1, SliceFacts
    <3>3. <<symbol>> \in Text /\ Len(<<symbol>>) = 1 /\ <<symbol>>[1] = symbol
      BY DEF Text
    <3> HIDE DEF x
    <3>4. x = <<symbol>>
      BY <3>2, <3>3, SeqEqual DEF Text
    <3> QED
      BY <3>4 DEF x
  <2> QED
    BY <2>1, <2>2, <2>3, <2>4
<1>2. ASSUME ~(Len(text) > 0 /\ Last(text) = symbol)
      PROVE  /\ DropLast(text, symbol) \in Text
             /\ text = DropLast(text, symbol) \/ text = DropLast(text, symbol) \o <<symbol>>
  BY <1>2 DEF DropLast
<1>3. DropLast(text \o <<symbol>>, symbol) = text
  <2> DEFINE t == <<symbol>>
             u == text \o t
  <2>1. t \in Text /\ Len(t) = 1 /\ t[1] = symbol
    BY DEF Text
  <2> HIDE DEF t
  <2>2. u \in Text /\ Len(u) = Len(text) + 1 /\ u[Len(text) + 1] = symbol
    <3>1. /\ u \in Text
          /\ Len(u) = Len(text) + Len(t)
          /\ \A i \in 1 .. Len(t) : u[Len(text) + i] = t[i]
      BY <2>1, JoinFacts
    <3> QED
      BY <2>1, <3>1
  <2>3. SubSeq(u, 1, Len(text)) = SubSeq(text, 1, Len(text))
    BY <1>0, <2>1, JoinSlices
  <2>4. SubSeq(text, 1, Len(text)) = text
    BY SubSeqFull DEF Text
  <2>5. Len(u) > 0 /\ Last(u) = symbol /\ Front(u) = text
    <3>1. Len(u) - 1 = Len(text)
      BY <1>0, <2>2
    <3> QED
      BY <1>0, <2>2, <2>3, <2>4, <3>1 DEF Last, Front
  <2> HIDE DEF u
  <2>6. DropLast(u, symbol) = text
    BY <2>5 DEF DropLast
  <2> QED
    BY <2>6 DEF u, t
<1>4. text # <<>> /\ text[Len(text)] # symbol => DropLast(text, symbol) = text
  BY DEF DropLast, Last
<1> QED
  BY <1>1, <1>2, <1>3, <1>4

(* _line_value: the value of a line is a marker just when the line is one  *)
(* of the marker's lines.                                                  *)
LEMMA MarkerValue ==
    ASSUME NEW line \in Text, NEW m \in Marks
    PROVE  LineValue(line) = m <=> line \in MarkerLines(m)
<1>0. /\ Newline \in Symbols /\ Return \in Symbols /\ Newline # Return
      /\ <<Newline>> \in Text /\ <<Return>> \in Text
      /\ <<Return>> \o <<Newline>> = <<Return, Newline>>
  <2>1. /\ Newline \in Symbols /\ Return \in Symbols /\ Newline # Return
        /\ <<Newline>> \in Text /\ <<Return>> \in Text
    BY DEF Symbols, Newline, Return, Text
  <2> DEFINE x == <<Return>> \o <<Newline>>
             y == <<Return, Newline>>
  <2>2. x \in Text /\ Len(x) = 2 /\ x[1] = Return /\ x[2] = Newline
    <3>1. /\ x \in Text /\ Len(x) = 1 + 1
          /\ \A i \in 1 .. 1 : x[i] = <<Return>>[i]
          /\ \A i \in 1 .. 1 : x[1 + i] = <<Newline>>[i]
      BY <2>1, JoinFacts
    <3> QED
      BY <3>1
  <2>3. y \in Text /\ Len(y) = 2 /\ y[1] = Return /\ y[2] = Newline
    BY <2>1 DEF Text
  <2>4. x = y
    <3> HIDE DEF x, y
    <3>1. \A i \in 1 .. Len(x) : x[i] = y[i]
      BY <2>2, <2>3
    <3> QED
      BY <2>2, <2>3, <3>1, SeqEqual DEF Text
  <2> QED
    BY <2>1, <2>4
<1>1. /\ m \in Text /\ m # <<>>
      /\ m[Len(m)] # Newline /\ m[Len(m)] # Return
  BY DEF Marks, Open, Close, Text, Symbols, Newline, Return
<1>2. /\ m \o <<>> = m
      /\ m \o <<Return, Newline>> = (m \o <<Return>>) \o <<Newline>>
      /\ m \o <<Return>> \in Text
  <2>1. m \o <<>> = m
    BY <1>1, ConcatEmptySeq DEF Text
  <2>2. (m \o <<Return>>) \o <<Newline>> = m \o (<<Return>> \o <<Newline>>)
    BY <1>0, <1>1, ConcatAssociative DEF Text
  <2>3. m \o <<Return>> \in Text
    BY <1>0, <1>1, JoinFacts
  <2> QED
    BY <1>0, <2>1, <2>2, <2>3
<1>3. MarkerLines(m) = {m, m \o <<Newline>>, m \o <<Return>>, (m \o <<Return>>) \o <<Newline>>}
  BY <1>2 DEF MarkerLines
<1>4. ASSUME LineValue(line) = m PROVE line \in MarkerLines(m)
  <2> DEFINE a == DropLast(line, Newline)
  <2>1. a \in Text /\ (line = a \/ line = a \o <<Newline>>)
    BY <1>0, Dropped
  <2>2. DropLast(a, Return) = m
    BY <1>4 DEF LineValue
  <2> HIDE DEF a
  <2>3. a = m \/ a = m \o <<Return>>
    BY <1>0, <2>1, <2>2, Dropped
  <2> QED
    BY <1>3, <2>1, <2>3
<1>5. DropLast(m, Return) = m /\ DropLast(m, Newline) = m /\ DropLast(m \o <<Return>>, Return) = m
  BY <1>0, <1>1, Dropped
<1>6. DropLast(m \o <<Newline>>, Newline) = m
  BY <1>0, <1>1, Dropped
<1>7. DropLast((m \o <<Return>>) \o <<Newline>>, Newline) = m \o <<Return>>
  BY <1>0, <1>2, Dropped
<1>8. DropLast(m \o <<Return>>, Newline) = m \o <<Return>>
  <2> DEFINE t == <<Return>>
             u == m \o t
  <2>1. t \in Text /\ Len(t) = 1 /\ t[1] = Return
    BY <1>0
  <2> HIDE DEF t
  <2>2. u \in Text /\ Len(u) = Len(m) + 1 /\ u[Len(m) + 1] = Return /\ Len(m) \in Nat
    <3>1. /\ u \in Text
          /\ Len(u) = Len(m) + Len(t)
          /\ \A i \in 1 .. Len(t) : u[Len(m) + i] = t[i]
          /\ Len(m) \in Nat
      BY <1>1, <2>1, JoinFacts, TextFacts
    <3> QED
      BY <2>1, <3>1
  <2>3. u # <<>> /\ u[Len(u)] # Newline
    BY <1>0, <2>2, TextFacts
  <2> HIDE DEF u
  <2>4. DropLast(u, Newline) = u
    BY <1>0, <2>2, <2>3, Dropped
  <2> QED
    BY <2>4 DEF u, t
<1>9. ASSUME line \in MarkerLines(m) PROVE LineValue(line) = m
  <2>1. CASE line = m
    BY <1>5, <2>1 DEF LineValue
  <2>2. CASE line = m \o <<Newline>>
    BY <1>5, <1>6, <2>2 DEF LineValue
  <2>3. CASE line = m \o <<Return>>
    BY <1>5, <1>8, <2>3 DEF LineValue
  <2>4. CASE line = (m \o <<Return>>) \o <<Newline>>
    BY <1>5, <1>7, <2>4 DEF LineValue
  <2> QED
    BY <1>3, <1>9, <2>1, <2>2, <2>3, <2>4
<1> QED
  BY <1>4, <1>9

LEMMA TwoMarkers == Open \in Marks /\ Close \in Marks /\ Open # Close
BY DEF Marks, Open, Close

-----------------------------------------------------------------------------
(* What a parser has made of a text.                                       *)

States == {"TEXT", "EXEC", "AFTER_EXEC", "ERROR"}

Parsers == [state : States, pending : Text, prefix : Text, code : Text, suffix : Text]

(* Two lines of one marker, or a closing line with no opening line before. *)
Bad(text) ==
    \/ \E m \in Marks : \E i, j \in Markers(text, m) : i # j
    \/ \E c \in Markers(text, Close) : \A o \in Markers(text, Open) : ~(o < c)

OneBlock(p, text) ==
    \E o, c \in 1 .. Len(text) :
        /\ Markers(text, Open) = {o} /\ Markers(text, Close) = {c} /\ o < c
        /\ p.prefix = SubSeq(text, 1, o - 1)
        /\ p.code = SubSeq(text, LineEnd(text, o) + 1, c - 1)
        /\ p.suffix = SubSeq(text, LineEnd(text, c) + 1, Len(text))

OpenBlock(p, text) ==
    \E o \in 1 .. Len(text) :
        /\ Markers(text, Open) = {o} /\ Markers(text, Close) = {}
        /\ p.prefix = SubSeq(text, 1, o - 1)
        /\ p.code = SubSeq(text, LineEnd(text, o) + 1, Len(text))
        /\ p.suffix = <<>>

NoBlock(p, text) ==
    /\ Markers(text, Open) = {} /\ Markers(text, Close) = {}
    /\ p.prefix = text /\ p.code = <<>> /\ p.suffix = <<>>

(* The parser has read the text, line by line.                             *)
Scanned(p, text) ==
    /\ p.state = "TEXT" => NoBlock(p, text)
    /\ p.state = "EXEC" => OpenBlock(p, text)
    /\ p.state = "AFTER_EXEC" => OneBlock(p, text)
    /\ p.state = "ERROR" => Bad(text)

(* A bad text stays bad whatever follows its lines.                        *)
LEMMA BadStays ==
    ASSUME NEW s \in Text, Closed(s), Bad(s), NEW t \in Text
    PROVE  Bad(s \o t)
<1> DEFINE u == s \o t
<1>1. \A m : /\ \A i \in Markers(s, m) : i \in Markers(u, m)
             /\ \A i \in Markers(u, m) :
                    i \in Markers(s, m) \/ \E k \in Markers(t, m) : i = Len(s) + k
  BY JoinedMarkers
<1>2. /\ \A m : \A i \in Markers(s, m) : i \in 1 .. Len(s)
      /\ \A m : \A i \in Markers(t, m) : i \in 1 .. Len(t)
      /\ Len(s) \in Nat /\ Len(t) \in Nat
  BY TextFacts DEF Markers
<1> HIDE DEF u
<1>3. ASSUME NEW m \in Marks, NEW i \in Markers(s, m), NEW j \in Markers(s, m), i # j
      PROVE  Bad(u)
  <2>1. i \in Markers(u, m) /\ j \in Markers(u, m)
    BY <1>1
  <2> QED
    BY <1>3, <2>1 DEF Bad
<1>4. ASSUME NEW c \in Markers(s, Close), \A o \in Markers(s, Open) : ~(o < c)
      PROVE  Bad(u)
  <2>1. c \in Markers(u, Close) /\ c \in 1 .. Len(s)
    BY <1>1, <1>2
  <2>2. ASSUME NEW o \in Markers(u, Open) PROVE ~(o < c)
    <3>1. CASE o \in Markers(s, Open)
      BY <1>4, <3>1
    <3>2. ASSUME NEW k \in Markers(t, Open), o = Len(s) + k PROVE ~(o < c)
      <4>1. k \in 1 .. Len(t)
        BY <1>2
      <4> QED
        BY <1>2, <2>1, <3>2, <4>1
    <3> QED
      BY <1>1, <3>1, <3>2
  <2> QED
    BY <2>1, <2>2 DEF Bad
<1>5. Bad(u)
  BY <1>3, <1>4 DEF Bad
<1> QED
  BY <1>5 DEF u

(* What a line adds to the markers and the slices of the text before it.   *)
LEMMA LineJoins ==
    ASSUME NEW text \in Text, Closed(text), NEW line, Line(line)
    PROVE  LET u == text \o line
               n == Len(text)
           IN  /\ u \in Text /\ n \in Nat /\ Len(u) \in Nat /\ n < Len(u)
               /\ \A m : Markers(text, m) \subseteq 1 .. n
               /\ \A m \in Marks : Markers(u, m) = Markers(text, m) \cup
                    (IF LineValue(line) = m THEN {n + 1} ELSE {})
               /\ SubSeq(u, 1, n) = text
               /\ LineEnd(u, n + 1) = Len(u)
               /\ SubSeq(u, Len(u) + 1, Len(u)) = <<>>
<1> DEFINE u == text \o line
           n == Len(text)
<1>0. /\ line \in Text /\ Len(line) \in Nat /\ Len(line) # 0 /\ n \in Nat
      /\ u \in Text /\ Len(u) = n + Len(line)
  BY TextFacts, JoinFacts DEF Line
<1>1. \A m : Markers(text, m) \subseteq 1 .. n
  BY TextFacts DEF Markers
<1>2. ASSUME NEW m \in Marks
      PROVE  Markers(u, m) = Markers(text, m) \cup (IF LineValue(line) = m THEN {n + 1} ELSE {})
  <2>1. /\ LineValue(line) = m => Markers(line, m) = {1}
        /\ LineValue(line) # m => Markers(line, m) = {}
    BY <1>0, MarkerValue, LineMarkers
  <2>2. /\ \A i \in Markers(u, m) :
            i \in Markers(text, m) \/ \E k \in Markers(line, m) : i = n + k
        /\ \A i \in Markers(text, m) : i \in Markers(u, m)
        /\ \A k \in Markers(line, m) : n + k \in Markers(u, m)
    BY <1>0, JoinedMarkers
  <2> HIDE DEF u, n
  <2> QED
    BY <2>1, <2>2
<1>3. SubSeq(u, 1, n) = text
  <2>1. SubSeq(u, 1, n) = SubSeq(text, 1, n)
    BY <1>0, JoinSlices
  <2> QED
    BY <2>1, SubSeqFull DEF Text
<1>4. LineEnd(u, n + 1) = Len(u)
  <2>1. EndsAt(line, 1, Len(line)) /\ 1 \in 1 .. Len(line)
    BY <1>0 DEF EndsAt, Line
  <2>2. LineEnd(line, 1) = Len(line)
    BY <1>0, <2>1, LineEndFacts
  <2> QED
    BY <1>0, <2>1, <2>2, JoinedLines
<1>5. SubSeq(u, Len(u) + 1, Len(u)) = <<>>
  BY <1>0, SubSeqEmpty
<1> QED
  BY <1>0, <1>1, <1>2, <1>3, <1>4, <1>5

LEMMA SlicesStay ==
    ASSUME NEW text \in Text, Closed(text), NEW line, Line(line), NEW i \in 1 .. Len(text)
    PROVE  LET u == text \o line
               e == LineEnd(text, i)
           IN  /\ LineEnd(u, i) = e /\ e \in i .. Len(text)
               /\ SubSeq(u, 1, i - 1) = SubSeq(text, 1, i - 1)
               /\ \A b \in 0 .. Len(text) : SubSeq(u, e + 1, b) = SubSeq(text, e + 1, b)
               /\ SubSeq(u, e + 1, Len(u)) = SubSeq(text, e + 1, Len(text)) \o line
<1> DEFINE u == text \o line
<1>0. line \in Text /\ Len(text) \in Nat
  BY TextFacts DEF Line
<1>1. PICK e : e = LineEnd(text, i)
  OBVIOUS
<1>2. LineEnd(u, i) = e
  BY <1>0, <1>1, JoinedLines
<1>3. e \in i .. Len(text)
  BY <1>1, LineEndFacts DEF EndsAt
<1>4. SubSeq(u, 1, i - 1) = SubSeq(text, 1, i - 1)
  <2>1. i - 1 \in 0 .. Len(text)
    BY <1>0
  <2> QED
    BY <1>0, <2>1, JoinSlices
<1>5. e + 1 \in Nat \ {0} /\ e + 1 <= Len(text) + 1
  BY <1>0, <1>3
<1>6. /\ \A b \in 0 .. Len(text) : SubSeq(u, e + 1, b) = SubSeq(text, e + 1, b)
      /\ SubSeq(u, e + 1, Len(u)) = SubSeq(text, e + 1, Len(text)) \o line
  BY <1>0, <1>5, JoinSlices
<1> QED
  BY <1>1, <1>2, <1>3, <1>4, <1>6

(* The five parts of a parser.                                             *)
Parts(q, state, pending, prefix, code, suffix) ==
    /\ q \in Parsers
    /\ q.state = state /\ q.pending = pending
    /\ q.prefix = prefix /\ q.code = code /\ q.suffix = suffix

LEMMA PartsOf ==
    ASSUME NEW p \in Parsers, NEW line \in Text
    PROVE  /\ \A state \in States :
                Parts([p EXCEPT !.state = state], state, p.pending, p.prefix, p.code, p.suffix)
           /\ \A rest \in Text :
                Parts([p EXCEPT !.pending = rest], p.state, rest, p.prefix, p.code, p.suffix)
           /\ Parts([p EXCEPT !["prefix"] = @ \o line],
                    p.state, p.pending, p.prefix \o line, p.code, p.suffix)
           /\ Parts([p EXCEPT !["code"] = @ \o line],
                    p.state, p.pending, p.prefix, p.code \o line, p.suffix)
           /\ Parts([p EXCEPT !["suffix"] = @ \o line],
                    p.state, p.pending, p.prefix, p.code, p.suffix \o line)
<1>1. p.prefix \in Text /\ p.code \in Text /\ p.suffix \in Text
  BY DEF Parsers
<1>2. p.prefix \o line \in Text /\ p.code \o line \in Text /\ p.suffix \o line \in Text
  BY <1>1, JoinFacts
<1> QED
  BY <1>2 DEF Parts, Parsers

(* What _process_line makes of a line outside the error state.             *)
LEMMA Processed ==
    ASSUME NEW p \in Parsers, p.state # "ERROR", NEW ds, NEW line \in Text
    PROVE  LET r == ProcessLine([parser |-> p, deltas |-> ds], line)
               q == r.parser
               v == LineValue(line)
               shown(kind) == Append(ds, [kind |-> kind, line |-> line])
           IN  /\ v \in Marks =>
                    /\ Parts(q, Transition(p.state, v), p.pending, p.prefix, p.code, p.suffix)
                    /\ r.deltas = ds
               /\ v \notin Marks /\ p.state = "TEXT" =>
                    /\ Parts(q, "TEXT", p.pending, p.prefix \o line, p.code, p.suffix)
                    /\ r.deltas = shown("text")
               /\ v \notin Marks /\ p.state = "EXEC" =>
                    /\ Parts(q, "EXEC", p.pending, p.prefix, p.code \o line, p.suffix)
                    /\ r.deltas = shown("code")
               /\ v \notin Marks /\ p.state = "AFTER_EXEC" =>
                    /\ Parts(q, "AFTER_EXEC", p.pending, p.prefix, p.code, p.suffix \o line)
                    /\ r.deltas = shown("text")
<1> DEFINE acc == [parser |-> p, deltas |-> ds]
           r == ProcessLine(acc, line)
           v == LineValue(line)
<1>0. acc.parser = p /\ acc.deltas = ds /\ p.state \in States
  BY DEF Parsers
<1>1. ASSUME v \in Marks
      PROVE  /\ Parts(r.parser, Transition(p.state, v), p.pending, p.prefix, p.code, p.suffix)
             /\ r.deltas = ds
  <2>1. r = [acc EXCEPT !.parser.state = Transition(p.state, v)]
    BY <1>0, <1>1 DEF ProcessLine, Marks
  <2>2. r.parser = [p EXCEPT !.state = Transition(p.state, v)] /\ r.deltas = ds
    BY <2>1
  <2>3. Transition(p.state, v) \in States
    BY <1>0, <1>1, TwoMarkers DEF Transition, States, Marks
  <2> QED
    BY <2>2, <2>3, PartsOf
<1>2. ASSUME v \notin Marks
      PROVE  LET block == Block(p.state)
             IN  r = [parser |-> [p EXCEPT ![block.name] = @ \o line],
                      deltas |-> Append(ds, [kind |-> block.kind, line |-> line])]
  BY <1>0, <1>2 DEF ProcessLine, Marks
<1>3. ASSUME v \notin Marks, p.state = "TEXT"
      PROVE  /\ Parts(r.parser, "TEXT", p.pending, p.prefix \o line, p.code, p.suffix)
             /\ r.deltas = Append(ds, [kind |-> "text", line |-> line])
  <2>1. Block(p.state) = [name |-> "prefix", kind |-> "text"]
    BY <1>3 DEF Block
  <2>2. Block(p.state).name = "prefix" /\ Block(p.state).kind = "text"
    BY <2>1
  <2>3. /\ r.parser = [p EXCEPT !["prefix"] = @ \o line]
        /\ r.deltas = Append(ds, [kind |-> "text", line |-> line])
    <3>1. PICK b : b = Block(p.state)
      OBVIOUS
    <3>2. r = [parser |-> [p EXCEPT ![b.name] = @ \o line],
               deltas |-> Append(ds, [kind |-> b.kind, line |-> line])]
      BY <1>2, <1>3, <3>1
    <3>3. r = [parser |-> [p EXCEPT !["prefix"] = @ \o line],
               deltas |-> Append(ds, [kind |-> "text", line |-> line])]
      BY ONLY <2>2, <3>1, <3>2
    <3> HIDE DEF r
    <3> QED
      BY <3>3
  <2> QED
    BY <1>3, <2>3, PartsOf
<1>4. ASSUME v \notin Marks, p.state = "EXEC"
      PROVE  /\ Parts(r.parser, "EXEC", p.pending, p.prefix, p.code \o line, p.suffix)
             /\ r.deltas = Append(ds, [kind |-> "code", line |-> line])
  <2>1. Block(p.state) = [name |-> "code", kind |-> "code"]
    BY <1>4 DEF Block
  <2>2. Block(p.state).name = "code" /\ Block(p.state).kind = "code"
    BY <2>1
  <2>3. /\ r.parser = [p EXCEPT !["code"] = @ \o line]
        /\ r.deltas = Append(ds, [kind |-> "code", line |-> line])
    <3>1. PICK b : b = Block(p.state)
      OBVIOUS
    <3>2. r = [parser |-> [p EXCEPT ![b.name] = @ \o line],
               deltas |-> Append(ds, [kind |-> b.kind, line |-> line])]
      BY <1>2, <1>4, <3>1
    <3>3. r = [parser |-> [p EXCEPT !["code"] = @ \o line],
               deltas |-> Append(ds, [kind |-> "code", line |-> line])]
      BY ONLY <2>2, <3>1, <3>2
    <3> HIDE DEF r
    <3> QED
      BY <3>3
  <2> QED
    BY <1>4, <2>3, PartsOf
<1>5. ASSUME v \notin Marks, p.state = "AFTER_EXEC"
      PROVE  /\ Parts(r.parser, "AFTER_EXEC", p.pending, p.prefix, p.code, p.suffix \o line)
             /\ r.deltas = Append(ds, [kind |-> "text", line |-> line])
  <2>1. Block(p.state) = [name |-> "suffix", kind |-> "text"]
    BY <1>5 DEF Block
  <2>2. Block(p.state).name = "suffix" /\ Block(p.state).kind = "text"
    BY <2>1
  <2>3. /\ r.parser = [p EXCEPT !["suffix"] = @ \o line]
        /\ r.deltas = Append(ds, [kind |-> "text", line |-> line])
    <3>1. PICK b : b = Block(p.state)
      OBVIOUS
    <3>2. r = [parser |-> [p EXCEPT ![b.name] = @ \o line],
               deltas |-> Append(ds, [kind |-> b.kind, line |-> line])]
      BY <1>2, <1>5, <3>1
    <3>3. r = [parser |-> [p EXCEPT !["suffix"] = @ \o line],
               deltas |-> Append(ds, [kind |-> "text", line |-> line])]
      BY ONLY <2>2, <3>1, <3>2
    <3> HIDE DEF r
    <3> QED
      BY <3>3
  <2> QED
    BY <1>5, <2>3, PartsOf
<1> QED
  BY <1>1, <1>3, <1>4, <1>5

(* A parser that has read a text has, after a line, read the text and the  *)
(* line.                                                                   *)
LEMMA LineRead ==
    ASSUME NEW p \in Parsers, p.state # "ERROR", NEW ds,
           NEW text \in Text, Closed(text), Scanned(p, text), NEW line, Line(line)
    PROVE  LET q == ProcessLine([parser |-> p, deltas |-> ds], line).parser
           IN  /\ q \in Parsers /\ q.pending = p.pending
               /\ Scanned(q, text \o line)
<1> DEFINE q == ProcessLine([parser |-> p, deltas |-> ds], line).parser
           v == LineValue(line)
           S(state) == Parts(q, state, p.pending, p.prefix, p.code, p.suffix)
<1>0. PICK u, n : u = text \o line /\ n = Len(text)
  OBVIOUS
<1>1. /\ u \in Text /\ n \in Nat /\ Len(u) \in Nat /\ n < Len(u)
      /\ \A m : Markers(text, m) \subseteq 1 .. n
      /\ \A m \in Marks : Markers(u, m) = Markers(text, m) \cup
            (IF v = m THEN {n + 1} ELSE {})
      /\ SubSeq(u, 1, n) = text
      /\ LineEnd(u, n + 1) = Len(u)
      /\ SubSeq(u, Len(u) + 1, Len(u)) = <<>>
  BY <1>0, LineJoins
<1>2. ASSUME NEW i \in 1 .. n
      PROVE  LET e == LineEnd(text, i)
             IN  /\ LineEnd(u, i) = e /\ e \in i .. n
                 /\ SubSeq(u, 1, i - 1) = SubSeq(text, 1, i - 1)
                 /\ \A b \in 0 .. n : SubSeq(u, e + 1, b) = SubSeq(text, e + 1, b)
                 /\ SubSeq(u, e + 1, Len(u)) = SubSeq(text, e + 1, n) \o line
  BY <1>0, SlicesStay
<1>3. /\ line \in Text /\ p.state \in {"TEXT", "EXEC", "AFTER_EXEC"}
      /\ Open \in Marks /\ Close \in Marks /\ Open # Close
  BY TwoMarkers DEF Line, Parsers, States
<1>4. /\ v \in Marks => S(Transition(p.state, v))
      /\ v \notin Marks /\ p.state = "TEXT" =>
            Parts(q, "TEXT", p.pending, p.prefix \o line, p.code, p.suffix)
      /\ v \notin Marks /\ p.state = "EXEC" =>
            Parts(q, "EXEC", p.pending, p.prefix, p.code \o line, p.suffix)
      /\ v \notin Marks /\ p.state = "AFTER_EXEC" =>
            Parts(q, "AFTER_EXEC", p.pending, p.prefix, p.code, p.suffix \o line)
  BY <1>3, Processed
<1> HIDE DEF q, v
<1>5. CASE p.state = "TEXT"
  <2>1. /\ Markers(text, Open) = {} /\ Markers(text, Close) = {}
        /\ p.prefix = text /\ p.code = <<>> /\ p.suffix = <<>>
    BY <1>5 DEF Scanned, NoBlock
  <2>2. CASE v = Open
    <3>1. Parts(q, "EXEC", p.pending, p.prefix, p.code, p.suffix)
      BY <1>3, <1>4, <1>5, <2>2 DEF Transition
    <3>2. Markers(u, Open) = {n + 1} /\ Markers(u, Close) = {}
      BY <1>1, <1>3, <2>1, <2>2
    <3>3. n + 1 \in 1 .. Len(u) /\ (n + 1) - 1 = n
      BY <1>1
    <3>4. OpenBlock(q, u)
      BY <1>1, <2>1, <3>1, <3>2, <3>3 DEF OpenBlock, Parts
    <3> QED
      BY <1>0, <3>1, <3>4 DEF Scanned, Parts, q
  <2>3. CASE v = Close
    <3>1. Parts(q, "ERROR", p.pending, p.prefix, p.code, p.suffix)
      BY <1>3, <1>4, <1>5, <2>3 DEF Transition
    <3>2. Markers(u, Open) = {} /\ n + 1 \in Markers(u, Close)
      BY <1>1, <1>3, <2>1, <2>3
    <3>3. Bad(u)
      BY <3>2 DEF Bad
    <3> QED
      BY <1>0, <3>1, <3>3 DEF Scanned, Parts, q
  <2>4. CASE v \notin Marks
    <3>1. Parts(q, "TEXT", p.pending, p.prefix \o line, p.code, p.suffix)
      BY <1>4, <1>5, <2>4
    <3>2. Markers(u, Open) = {} /\ Markers(u, Close) = {}
      BY <1>1, <1>3, <2>1, <2>4
    <3>3. NoBlock(q, u)
      BY <1>0, <2>1, <3>1, <3>2 DEF NoBlock, Parts
    <3> QED
      BY <1>0, <3>1, <3>3 DEF Scanned, Parts, q
  <2> QED
    BY <2>2, <2>3, <2>4 DEF Marks
<1>6. CASE p.state = "EXEC"
  <2>1. PICK o \in 1 .. n :
            /\ Markers(text, Open) = {o} /\ Markers(text, Close) = {}
            /\ p.prefix = SubSeq(text, 1, o - 1)
            /\ p.code = SubSeq(text, LineEnd(text, o) + 1, n)
            /\ p.suffix = <<>>
    BY <1>0, <1>6 DEF Scanned, OpenBlock
  <2>2. CASE v = Open
    <3>1. Parts(q, "ERROR", p.pending, p.prefix, p.code, p.suffix)
      BY <1>3, <1>4, <1>6, <2>2 DEF Transition
    <3>2. o \in Markers(u, Open) /\ n + 1 \in Markers(u, Open) /\ o # n + 1
      BY <1>1, <1>3, <2>1, <2>2
    <3>3. Bad(u)
      BY <1>3, <3>2 DEF Bad
    <3> QED
      BY <1>0, <3>1, <3>3 DEF Scanned, Parts, q
  <2>3. CASE v = Close
    <3>1. Parts(q, "AFTER_EXEC", p.pending, p.prefix, p.code, p.suffix)
      BY <1>3, <1>4, <1>6, <2>3 DEF Transition
    <3>2. Markers(u, Open) = {o} /\ Markers(u, Close) = {n + 1}
      BY <1>1, <1>3, <2>1, <2>3
    <3>3. n + 1 \in 1 .. Len(u) /\ (n + 1) - 1 = n /\ o \in 1 .. Len(u) /\ o < n + 1
      BY <1>1, <2>1
    <3>4. /\ q.prefix = SubSeq(u, 1, o - 1)
          /\ q.code = SubSeq(u, LineEnd(u, o) + 1, n)
          /\ q.suffix = SubSeq(u, LineEnd(u, n + 1) + 1, Len(u))
      <4>1. n \in 0 .. n
        BY <1>1
      <4> QED
        BY <1>1, <1>2, <2>1, <3>1, <4>1 DEF Parts
    <3>5. OneBlock(q, u)
      BY <3>2, <3>3, <3>4 DEF OneBlock
    <3> QED
      BY <1>0, <3>1, <3>5 DEF Scanned, Parts, q
  <2>4. CASE v \notin Marks
    <3>1. Parts(q, "EXEC", p.pending, p.prefix, p.code \o line, p.suffix)
      BY <1>4, <1>6, <2>4
    <3>2. Markers(u, Open) = {o} /\ Markers(u, Close) = {}
      BY <1>1, <1>3, <2>1, <2>4
    <3>3. /\ q.prefix = SubSeq(u, 1, o - 1)
          /\ q.code = SubSeq(u, LineEnd(u, o) + 1, Len(u))
          /\ q.suffix = <<>>
      BY <1>2, <2>1, <3>1 DEF Parts
    <3>4. o \in 1 .. Len(u)
      BY <1>1, <2>1
    <3>5. OpenBlock(q, u)
      BY <3>2, <3>3, <3>4 DEF OpenBlock
    <3> QED
      BY <1>0, <3>1, <3>5 DEF Scanned, Parts, q
  <2> QED
    BY <2>2, <2>3, <2>4 DEF Marks
<1>7. CASE p.state = "AFTER_EXEC"
  <2>1. PICK o \in 1 .. n, c \in 1 .. n :
            /\ Markers(text, Open) = {o} /\ Markers(text, Close) = {c} /\ o < c
            /\ p.prefix = SubSeq(text, 1, o - 1)
            /\ p.code = SubSeq(text, LineEnd(text, o) + 1, c - 1)
            /\ p.suffix = SubSeq(text, LineEnd(text, c) + 1, n)
    BY <1>0, <1>7 DEF Scanned, OneBlock
  <2>2. CASE v \in Marks
    <3>1. Parts(q, "ERROR", p.pending, p.prefix, p.code, p.suffix)
      BY <1>4, <1>7, <2>2 DEF Transition
    <3>2. PICK i \in 1 .. n : i \in Markers(text, v)
      BY <2>1, <2>2 DEF Marks
    <3>3. i \in Markers(u, v) /\ n + 1 \in Markers(u, v) /\ i # n + 1
      BY <1>1, <2>2, <3>2
    <3>4. Bad(u)
      BY <2>2, <3>3 DEF Bad
    <3> QED
      BY <1>0, <3>1, <3>4 DEF Scanned, Parts, q
  <2>3. CASE v \notin Marks
    <3>1. Parts(q, "AFTER_EXEC", p.pending, p.prefix, p.code, p.suffix \o line)
      BY <1>4, <1>7, <2>3
    <3>2. Markers(u, Open) = {o} /\ Markers(u, Close) = {c}
      BY <1>1, <1>3, <2>1, <2>3
    <3>3. /\ q.prefix = SubSeq(u, 1, o - 1)
          /\ q.code = SubSeq(u, LineEnd(u, o) + 1, c - 1)
          /\ q.suffix = SubSeq(u, LineEnd(u, c) + 1, Len(u))
      <4>1. c - 1 \in 0 .. n
        BY <1>1, <2>1
      <4> QED
        BY <1>2, <2>1, <3>1, <4>1 DEF Parts
    <3>4. o \in 1 .. Len(u) /\ c \in 1 .. Len(u)
      BY <1>1, <2>1
    <3>5. OneBlock(q, u)
      BY <2>1, <3>2, <3>3, <3>4 DEF OneBlock
    <3> QED
      BY <1>0, <3>1, <3>5 DEF Scanned, Parts, q
  <2> QED
    BY <2>2, <2>3
<1> QED
  BY <1>3, <1>5, <1>6, <1>7

-----------------------------------------------------------------------------
(* The deltas joined.                                                      *)

Delta == [kind : {"text", "code"}, line : Text]

(* What a delta adds to the text of a kind.                                *)
Piece(kind, delta) == IF delta.kind = kind THEN delta.line ELSE <<>>

(* The texts of a kind after each delta.                                   *)
Joins(kind, list) ==
    CHOOSE g : g = [n \in 0 .. Len(list) |->
                       IF n = 0 THEN <<>>
                       ELSE g[n - 1] \o (IF list[n].kind = kind THEN list[n].line ELSE <<>>)]

Adds(g, kind, list, n) == g[n] = g[n - 1] \o Piece(kind, list[n])

LEMMA JoinsFollow ==
    ASSUME NEW kind, NEW list, Len(list) \in Nat
    PROVE  /\ Joined(kind, list) = Joins(kind, list)[Len(list)]
           /\ Joins(kind, list)[0] = <<>>
           /\ \A n \in 1 .. Len(list) : Adds(Joins(kind, list), kind, list, n)
<1> DEFINE L == Len(list)
           Upto(g, n) == /\ DOMAIN g = 0 .. n
                         /\ g = [m \in 0 .. n |-> g[m]]
                         /\ g[0] = <<>>
                         /\ \A m \in 1 .. n : Adds(g, kind, list, m)
           T == {n \in Nat : \E g : Upto(g, n)}
<1>1. 0 \in T
  <2>1. Upto([m \in 0 .. 0 |-> <<>>], 0)
    OBVIOUS
  <2> QED
    BY <2>1
<1>2. ASSUME NEW n \in Nat, n \in T PROVE n + 1 \in T
  <2>1. PICK g : Upto(g, n)
    BY <1>2
  <2> DEFINE h == [m \in 0 .. n + 1 |->
                      IF m <= n THEN g[m] ELSE g[n] \o Piece(kind, list[n + 1])]
  <2>2. DOMAIN h = 0 .. n + 1 /\ h = [m \in 0 .. n + 1 |-> h[m]] /\ h[0] = <<>>
    BY <2>1
  <2>3. ASSUME NEW m \in 1 .. n + 1 PROVE Adds(h, kind, list, m)
    <3>1. CASE m = n + 1
      <4>1. h[m] = g[n] \o Piece(kind, list[n + 1]) /\ h[m - 1] = g[n]
        BY <3>1
      <4> QED
        BY <3>1, <4>1 DEF Adds
    <3>2. CASE m # n + 1
      <4>1. m \in 1 .. n /\ h[m] = g[m] /\ h[m - 1] = g[m - 1]
        BY <2>3, <3>2
      <4> HIDE DEF h
      <4> QED
        BY <2>1, <4>1 DEF Adds
    <3> QED
      BY <3>1, <3>2
  <2>4. Upto(h, n + 1)
    BY <2>2, <2>3
  <2>5. \E k : Upto(k, n + 1)
    BY <2>4
  <2> HIDE DEF Upto
  <2> QED
    BY <2>5
<1>3. PICK g : Upto(g, L)
  <2>1. Nat \subseteq T
    <3> HIDE DEF T
    <3> QED
      BY <1>1, <1>2, SetInduction
  <2> QED
    BY <2>1
<1> DEFINE Loop(f) == [n \in 0 .. L |->
                IF n = 0 THEN <<>>
                ELSE f[n - 1] \o (IF list[n].kind = kind THEN list[n].line ELSE <<>>)]
<1>4. g = Loop(g)
  <2>1. ASSUME NEW n \in 0 .. L PROVE g[n] = Loop(g)[n]
    <3>1. CASE n = 0
      BY <1>3, <3>1
    <3>2. CASE n # 0
      <4>1. n \in 1 .. L
        BY <3>2
      <4>2. Loop(g)[n] = g[n - 1] \o (IF list[n].kind = kind THEN list[n].line ELSE <<>>)
        BY <3>2
      <4> HIDE DEF Loop
      <4>3. Loop(g)[n] = g[n - 1] \o Piece(kind, list[n])
        BY <4>2 DEF Piece
      <4> QED
        BY <1>3, <4>1, <4>3 DEF Adds
    <3> QED
      BY <3>1, <3>2
  <2> QED
    BY <1>3, <2>1
<1> DEFINE c == CHOOSE f : f = Loop(f)
<1>5. c = Loop(c)
  <2> HIDE DEF Loop
  <2> QED
    BY <1>4
<1>6. c = Joins(kind, list) /\ Joined(kind, list) = c[L]
  BY DEF Joins, Joined
<1> HIDE DEF c
<1>7. c[0] = <<>>
  <2>1. Loop(c)[0] = <<>>
    OBVIOUS
  <2> HIDE DEF Loop
  <2> QED
    BY <1>5, <2>1
<1>8. ASSUME NEW n \in 1 .. L PROVE Adds(c, kind, list, n)
  <2>1. n \in 0 .. L /\ n # 0
    OBVIOUS
  <2>2. Loop(c)[n] = c[n - 1] \o (IF list[n].kind = kind THEN list[n].line ELSE <<>>)
    BY <2>1
  <2> HIDE DEF Loop
  <2>3. c[n] = c[n - 1] \o (IF list[n].kind = kind THEN list[n].line ELSE <<>>)
    BY <1>5, <2>2
  <2> QED
    BY <2>3 DEF Adds, Piece
<1> QED
  BY <1>6, <1>7, <1>8

(* One more delta adds its piece.                                          *)
LEMMA JoinedNext ==
    ASSUME NEW kind, NEW list \in Seq(Delta), NEW d \in Delta
    PROVE  /\ Joined(kind, <<>>) = <<>>
           /\ Joined(kind, Append(list, d)) = Joined(kind, list) \o Piece(kind, d)
<1> DEFINE L == Len(list)
           more == Append(list, d)
           J(l) == Joins(kind, l)
<1>1. /\ L \in Nat /\ Len(more) = L + 1 /\ more[L + 1] = d
      /\ \A n \in 1 .. L : more[n] = list[n]
  BY AppendProperties
<1> HIDE DEF more
<1>2. /\ Joined(kind, list) = J(list)[L]
      /\ J(list)[0] = <<>>
      /\ \A n \in 1 .. L : Adds(J(list), kind, list, n)
  BY <1>1, JoinsFollow
<1>3. /\ Joined(kind, more) = J(more)[L + 1]
      /\ J(more)[0] = <<>>
      /\ \A n \in 1 .. L + 1 : Adds(J(more), kind, more, n)
  BY <1>1, JoinsFollow
<1> HIDE DEF J
<1> DEFINE U == {n \in Nat : n <= L => J(more)[n] = J(list)[n]}
<1>4. 0 \in U
  BY <1>2, <1>3
<1>5. ASSUME NEW n \in Nat, n \in U, n + 1 <= L
      PROVE  J(more)[n + 1] = J(list)[n + 1]
  <2>1. n + 1 \in 1 .. L /\ n + 1 \in 1 .. L + 1 /\ (n + 1) - 1 = n
    BY <1>1, <1>5
  <2>2. J(more)[n] = J(list)[n]
    BY <1>1, <1>5
  <2> QED
    BY <1>1, <1>2, <1>3, <2>1, <2>2 DEF Adds
<1>6. \A n \in Nat : n \in U => n + 1 \in U
  BY <1>5
<1>7. J(more)[L] = J(list)[L]
  <2>1. Nat \subseteq U
    <3> HIDE DEF U
    <3> QED
      BY <1>4, <1>6, SetInduction
  <2> QED
    BY <1>1, <2>1
<1>8. Joined(kind, more) = Joined(kind, list) \o Piece(kind, d)
  <2>1. L + 1 \in 1 .. L + 1 /\ (L + 1) - 1 = L
    BY <1>1
  <2> QED
    BY <1>1, <1>2, <1>3, <1>7, <2>1 DEF Adds
<1>9. Joined(kind, <<>>) = <<>>
  <2>1. Len(<<>>) = 0
    OBVIOUS
  <2> QED
    BY <2>1, JoinsFollow
<1> QED
  BY <1>8, <1>9 DEF more

(* What was shown is what the parser holds.                                *)
Shown(p, list) ==
    /\ list \in Seq(Delta)
    /\ Joined("text", list) = p.prefix \o p.suffix
    /\ Joined("code", list) = p.code

LEMMA LineShown ==
    ASSUME NEW p \in Parsers, p.state # "ERROR", NEW list, Shown(p, list),
           p.state # "AFTER_EXEC" => p.suffix = <<>>,
           NEW line \in Text
    PROVE  LET r == ProcessLine([parser |-> p, deltas |-> list], line)
           IN  r.parser.state # "ERROR" => Shown(r.parser, r.deltas)
<1> DEFINE r == ProcessLine([parser |-> p, deltas |-> list], line)
           v == LineValue(line)
           shown(kind) == Append(list, [kind |-> kind, line |-> line])
<1>1. /\ v \in Marks =>
            /\ Parts(r.parser, Transition(p.state, v), p.pending, p.prefix, p.code, p.suffix)
            /\ r.deltas = list
      /\ v \notin Marks /\ p.state = "TEXT" =>
            /\ Parts(r.parser, "TEXT", p.pending, p.prefix \o line, p.code, p.suffix)
            /\ r.deltas = shown("text")
      /\ v \notin Marks /\ p.state = "EXEC" =>
            /\ Parts(r.parser, "EXEC", p.pending, p.prefix, p.code \o line, p.suffix)
            /\ r.deltas = shown("code")
      /\ v \notin Marks /\ p.state = "AFTER_EXEC" =>
            /\ Parts(r.parser, "AFTER_EXEC", p.pending, p.prefix, p.code, p.suffix \o line)
            /\ r.deltas = shown("text")
  BY Processed, SMTT(30)
<1>2. /\ list \in Seq(Delta)
      /\ Joined("text", list) = p.prefix \o p.suffix
      /\ Joined("code", list) = p.code
      /\ p.prefix \in Text /\ p.code \in Text /\ p.suffix \in Text
      /\ p.prefix \o p.suffix \in Text
      /\ p.state \in {"TEXT", "EXEC", "AFTER_EXEC"}
  BY JoinFacts DEF Shown, Parsers, States
<1>3. ASSUME NEW kind \in {"text", "code"}
      PROVE  /\ shown(kind) \in Seq(Delta)
             /\ Joined(kind, shown(kind)) = Joined(kind, list) \o line
             /\ \A other \in {"text", "code"} \ {kind} : Joined(other, shown(kind)) = Joined(other, list)
  <2> DEFINE d == [kind |-> kind, line |-> line]
  <2>1. d \in Delta /\ d.kind = kind /\ d.line = line
    BY DEF Delta
  <2> HIDE DEF d
  <2>2. Append(list, d) \in Seq(Delta)
    BY <1>2, <2>1, AppendProperties
  <2>3. \A k : Joined(k, Append(list, d)) = Joined(k, list) \o Piece(k, d)
    BY <1>2, <2>1, JoinedNext
  <2>4. Joined(kind, Append(list, d)) = Joined(kind, list) \o line
    BY <2>1, <2>3 DEF Piece
  <2>5. ASSUME NEW other \in {"text", "code"} \ {kind}
        PROVE  Joined(other, Append(list, d)) = Joined(other, list)
    <3>1. Joined(other, Append(list, d)) = Joined(other, list) \o <<>>
      BY <2>1, <2>3 DEF Piece
    <3>2. Joined(other, list) \in Text
      BY <1>2
    <3> QED
      BY <3>1, <3>2, ConcatEmptySeq DEF Text
  <2> QED
    BY <2>2, <2>4, <2>5 DEF d
<1>4. /\ shown("text") \in Seq(Delta) /\ shown("code") \in Seq(Delta)
      /\ Joined("text", shown("text")) = (p.prefix \o p.suffix) \o line
      /\ Joined("code", shown("text")) = p.code
      /\ Joined("code", shown("code")) = p.code \o line
      /\ Joined("text", shown("code")) = p.prefix \o p.suffix
  <2>1. "text" \in {"text", "code"} \ {"code"} /\ "code" \in {"text", "code"} \ {"text"}
    OBVIOUS
  <2> HIDE DEF shown
  <2> QED
    BY <1>2, <1>3, <2>1
<1> HIDE DEF r, v, shown
<1>5. ASSUME v \in Marks, r.parser.state # "ERROR" PROVE Shown(r.parser, r.deltas)
  BY <1>1, <1>2, <1>5 DEF Shown, Parts
<1>6. ASSUME v \notin Marks, p.state = "TEXT" PROVE Shown(r.parser, r.deltas)
  <2>1. (p.prefix \o p.suffix) \o line = (p.prefix \o line) \o p.suffix
    <3>1. p.suffix = <<>> /\ p.prefix \o <<>> = p.prefix
      BY <1>2, <1>6, ConcatEmptySeq DEF Text
    <3>2. (p.prefix \o line) \o <<>> = p.prefix \o line
      <4>1. p.prefix \o line \in Text
        BY <1>2, JoinFacts
      <4> QED
        BY <4>1, ConcatEmptySeq DEF Text
    <3> QED
      BY <3>1, <3>2
  <2> QED
    BY <1>1, <1>4, <1>6, <2>1 DEF Shown, Parts
<1>7. ASSUME v \notin Marks, p.state = "EXEC" PROVE Shown(r.parser, r.deltas)
  BY <1>1, <1>2, <1>4, <1>7 DEF Shown, Parts
<1>8. ASSUME v \notin Marks, p.state = "AFTER_EXEC" PROVE Shown(r.parser, r.deltas)
  <2>1. (p.prefix \o p.suffix) \o line = p.prefix \o (p.suffix \o line)
    <3>1. PICK a \in Text, b \in Text : a = p.prefix /\ b = p.suffix
      BY <1>2
    <3>2. (a \o b) \o line = a \o (b \o line)
      BY ConcatAssociative DEF Text
    <3> QED
      BY <3>1, <3>2
  <2> QED
    BY <1>1, <1>4, <1>8, <2>1 DEF Shown, Parts
<1>9. r.parser.state # "ERROR" => Shown(r.parser, r.deltas)
  BY <1>2, <1>5, <1>6, <1>7, <1>8
<1> QED
  BY <1>9 DEF r

-----------------------------------------------------------------------------
(* The loop of feed().                                                     *)

(* A parser and its deltas, once the text has been fed.                    *)
Read(p, list, text) ==
    /\ p \in Parsers
    /\ p.state = "ERROR" => \E s, t \in Text : text = s \o t /\ Closed(s) /\ Bad(s)
    /\ p.state # "ERROR" =>
        /\ Shown(p, list)
        /\ \E s \in Text : text = s \o p.pending /\ Closed(s) /\ Scanned(p, s)

Pair(p, list) == [parser |-> p, deltas |-> list]

(* A parser stays with its deltas in a pair.                               *)
LEMMA PairKept ==
    ASSUME NEW p \in Parsers, NEW list, NEW line \in Text
    PROVE  LET r == ProcessLine(Pair(p, list), line)
           IN  /\ r = Pair(r.parser, r.deltas)
               /\ p.state = "ERROR" => r = Pair(p, list)
<1> DEFINE acc == [parser |-> p, deltas |-> list]
           r == ProcessLine(acc, line)
           block == Block(p.state)
           v == LineValue(line)
<1>0. acc.parser = p /\ acc.deltas = list
  OBVIOUS
<1>1. ASSUME p.state = "ERROR" PROVE r = acc
  BY <1>0, <1>1 DEF ProcessLine
<1>2. ASSUME p.state # "ERROR", v \in {Open, Close}
      PROVE  r = [acc EXCEPT !.parser.state = Transition(p.state, v)]
  BY <1>0, <1>2 DEF ProcessLine
<1>3. ASSUME p.state # "ERROR", v \notin {Open, Close}
      PROVE  r = [parser |-> [p EXCEPT ![block.name] = @ \o line],
                  deltas |-> Append(list, [kind |-> block.kind, line |-> line])]
  BY <1>0, <1>3 DEF ProcessLine
<1> HIDE DEF r, v, block
<1>4. r = [parser |-> r.parser, deltas |-> r.deltas]
  BY <1>1, <1>2, <1>3
<1> QED
  BY <1>1, <1>4 DEF r, Pair

(* The line up to the first newline, and what is left.                     *)
LEMMA FirstLine ==
    ASSUME NEW text \in Text, Newlines(text) # {}
    PROVE  LET n == FirstNewline(text)
               line == SubSeq(text, 1, n)
               rest == SubSeq(text, n + 1, Len(text))
           IN  /\ text = line \o rest
               /\ Line(line) /\ Closed(line) /\ rest \in Text
               /\ Len(rest) < Len(text)
<1>0. Len(text) \in Nat /\ DOMAIN text = 1 .. Len(text)
  BY TextFacts
<1>1. PICK n : n = FirstNewline(text)
  OBVIOUS
<1>2. n \in Newlines(text) /\ \A j \in Newlines(text) : n <= j
  <2>1. Newlines(text) \in SUBSET Nat
    BY <1>0 DEF Newlines
  <2>2. \E i \in Newlines(text) : \A j \in Newlines(text) : i <= j
    BY <2>1, LeastElement
  <2> QED
    BY <1>1, <2>2 DEF FirstNewline
<1>3. n \in 1 .. Len(text) /\ text[n] = Newline
  BY <1>0, <1>2 DEF Newlines
<1>4. n \in 0 .. Len(text) /\ n \in Nat
  BY <1>0, <1>3
<1> DEFINE line == SubSeq(text, 1, n)
           rest == SubSeq(text, n + 1, Len(text))
<1>5. /\ text = line \o rest /\ line \in Text /\ rest \in Text
      /\ Len(line) = n /\ Len(rest) = Len(text) - n
      /\ \A i \in 1 .. n : line[i] = text[i]
  BY <1>4, CutFacts
<1> HIDE DEF line, rest
<1>6. Line(line)
  <2>1. line # <<>>
    BY <1>3, <1>4, <1>5, TextFacts
  <2>2. ASSUME NEW i \in 1 .. Len(line) - 1 PROVE line[i] # Newline
    <3>1. i \in 1 .. n /\ i \in 1 .. Len(text) /\ ~(n <= i)
      BY <1>0, <1>3, <1>4, <1>5
    <3>2. i \notin Newlines(text)
      BY <1>2, <3>1
    <3> QED
      BY <1>0, <1>5, <3>1, <3>2 DEF Newlines
  <2> QED
    BY <1>5, <2>1, <2>2 DEF Line
<1>7. Closed(line)
  BY <1>3, <1>4, <1>5 DEF Closed
<1>8. Len(rest) < Len(text)
  BY <1>0, <1>3, <1>5
<1> QED
  BY <1>1, <1>5, <1>6, <1>7, <1>8 DEF line, rest

(* A text without a newline is nothing, or a line.                         *)
LEMMA LastLine ==
    ASSUME NEW text \in Text, Newlines(text) = {}
    PROVE  text = <<>> \/ Line(text)
<1>1. DOMAIN text = 1 .. Len(text) /\ Len(text) \in Nat
  BY TextFacts
<1>2. \A i \in 1 .. Len(text) - 1 : text[i] # Newline
  BY <1>1 DEF Newlines
<1> QED
  BY <1>2 DEF Line

LEMMA JoinAssociative ==
    ASSUME NEW s \in Text, NEW t \in Text, NEW u \in Text
    PROVE  (s \o t) \o u = s \o (t \o u)
BY ConcatAssociative DEF Text

(* A text that ends with a line that ends is one that ends a line.         *)
LEMMA ClosedJoin ==
    ASSUME NEW s \in Text, Closed(s), NEW t \in Text, Closed(t)
    PROVE  Closed(s \o t)
<1>1. CASE t = <<>>
  <2>1. s \o t = s
    BY <1>1, ConcatEmptySeq DEF Text
  <2> QED
    BY <2>1
<1>2. CASE t # <<>>
  <2>1. PICK n \in Nat, k \in Nat : n = Len(s) /\ k = Len(t)
    BY TextFacts
  <2>2. k \in 1 .. k /\ t[k] = Newline
    BY <1>2, <2>1, TextFacts DEF Closed
  <2>3. Len(s \o t) = n + k /\ (s \o t)[n + k] = t[k]
    BY <2>1, <2>2, JoinFacts
  <2> QED
    BY <2>2, <2>3 DEF Closed
<1> QED
  BY <1>1, <1>2

(* A round takes a line off and keeps what was read.                       *)
LEMMA RoundKeeps ==
    ASSUME NEW p, NEW list, NEW text \in Text, Read(p, list, text)
    PROVE  LET r == Round(Pair(p, list))
           IN  /\ r = Pair(r.parser, r.deltas)
               /\ Read(r.parser, r.deltas, text)
               /\ Newlines(p.pending) = {} => r = Pair(p, list)
               /\ Newlines(p.pending) # {} => Len(r.parser.pending) < Len(p.pending)
<1> DEFINE acc == [parser |-> p, deltas |-> list]
           r == Round(acc)
           n == FirstNewline(p.pending)
           line == SubSeq(p.pending, 1, n)
           rest == SubSeq(p.pending, n + 1, Len(p.pending))
           cut == [p EXCEPT !.pending = rest]
<1>0. acc = Pair(p, list) /\ p \in Parsers /\ p.pending \in Text
  BY DEF Pair, Read, Parsers
<1>1. ASSUME Newlines(p.pending) = {} PROVE r = acc
  BY <1>1 DEF Round
<1>2. ASSUME Newlines(p.pending) # {}
      PROVE  /\ r = Pair(r.parser, r.deltas)
             /\ Read(r.parser, r.deltas, text)
             /\ Len(r.parser.pending) < Len(p.pending)
  <2>1. /\ p.pending = line \o rest
        /\ Line(line) /\ line \in Text /\ Closed(line) /\ rest \in Text
        /\ Len(rest) < Len(p.pending)
    BY <1>0, <1>2, FirstLine DEF Line
  <2>2. r = ProcessLine([acc EXCEPT !.parser.pending = rest], line)
    BY <1>2 DEF Round
  <2>3. [acc EXCEPT !.parser.pending = rest] = Pair(cut, list)
    <3> HIDE DEF rest
    <3>1. /\ DOMAIN [acc EXCEPT !.parser.pending = rest] = {"parser", "deltas"}
          /\ [acc EXCEPT !.parser.pending = rest].parser = cut
          /\ [acc EXCEPT !.parser.pending = rest].deltas = list
      OBVIOUS
    <3> QED
      BY <3>1 DEF Pair
  <2>4. r = ProcessLine(Pair(cut, list), line)
    BY <2>2, <2>3
  <2>5. Parts(cut, p.state, rest, p.prefix, p.code, p.suffix)
    BY <1>0, <2>1, PartsOf
  <2> HIDE DEF r, line, rest, cut, acc
  <2>6. r = Pair(r.parser, r.deltas) /\ (cut.state = "ERROR" => r = Pair(cut, list))
    BY <2>1, <2>4, <2>5, PairKept DEF Parts
  <2>7. CASE p.state = "ERROR"
    <3>1. r.parser = cut
      BY <2>5, <2>6, <2>7 DEF Parts, Pair
    <3>2. Read(r.parser, r.deltas, text)
      BY <2>5, <2>7, <3>1 DEF Read, Parts
    <3> QED
      BY <2>1, <2>5, <2>6, <3>1, <3>2 DEF Parts
  <2>8. CASE p.state # "ERROR"
    <3>1. PICK s \in Text : text = s \o p.pending /\ Closed(s) /\ Scanned(p, s)
      BY <2>8 DEF Read
    <3>2. Scanned(cut, s) /\ Shown(cut, list)
      BY <2>5, <2>8, <3>1 DEF Read, Scanned, Shown, Parts, NoBlock, OpenBlock, OneBlock
    <3>3. /\ r.parser \in Parsers /\ r.parser.pending = rest
          /\ Scanned(r.parser, s \o line)
      BY <2>1, <2>4, <2>5, <2>8, <3>1, <3>2, LineRead DEF Parts, Pair
    <3>4. r.parser.state # "ERROR" => Shown(r.parser, r.deltas)
      <4>1. cut \in Parsers /\ cut.state # "ERROR"
        BY <2>5, <2>8 DEF Parts
      <4>2. cut.state # "AFTER_EXEC" => cut.suffix = <<>>
        BY <3>2, <4>1 DEF Scanned, NoBlock, OpenBlock, Parsers, States
      <4> QED
        BY <2>1, <2>4, <3>2, <4>1, <4>2, LineShown DEF Pair
    <3>5. /\ s \o line \in Text /\ Closed(s \o line)
          /\ text = (s \o line) \o rest
      <4>1. s \o line \in Text
        BY <2>1, JoinFacts
      <4>2. Closed(s \o line)
        BY <2>1, <3>1, ClosedJoin
      <4>3. (s \o line) \o rest = s \o (line \o rest)
        BY <2>1, JoinAssociative
      <4> QED
        BY <2>1, <3>1, <4>1, <4>2, <4>3
    <3>6. Read(r.parser, r.deltas, text)
      BY <2>1, <3>3, <3>4, <3>5 DEF Read, Scanned
    <3> QED
      BY <2>1, <2>6, <3>3, <3>6
  <2> QED
    BY <2>7, <2>8
<1> QED
  BY <1>0, <1>1, <1>2 DEF Pair

(* The loop, round by round.                                               *)
After(acc) ==
    CHOOSE g : g = [n \in 0 .. Len(acc.parser.pending) |->
                       IF n = 0 THEN acc ELSE Round(g[n - 1])]

LEMMA RoundsFollow ==
    ASSUME NEW acc, Len(acc.parser.pending) \in Nat
    PROVE  LET L == Len(acc.parser.pending)
           IN  /\ Rounds(acc) = After(acc)[L]
               /\ After(acc)[0] = acc
               /\ \A n \in 1 .. L : After(acc)[n] = Round(After(acc)[n - 1])
<1> DEFINE L == Len(acc.parser.pending)
           Upto(g, n) == /\ DOMAIN g = 0 .. n
                         /\ g = [m \in 0 .. n |-> g[m]]
                         /\ g[0] = acc
                         /\ \A m \in 1 .. n : g[m] = Round(g[m - 1])
           T == {n \in Nat : \E g : Upto(g, n)}
<1>1. 0 \in T
  <2>1. Upto([m \in 0 .. 0 |-> acc], 0)
    OBVIOUS
  <2>2. \E g : Upto(g, 0)
    BY <2>1
  <2> HIDE DEF Upto
  <2> QED
    BY <2>2
<1>2. ASSUME NEW n \in Nat, n \in T PROVE n + 1 \in T
  <2>1. PICK g : Upto(g, n)
    BY <1>2
  <2> DEFINE h == [m \in 0 .. n + 1 |-> IF m <= n THEN g[m] ELSE Round(g[n])]
  <2>2. DOMAIN h = 0 .. n + 1 /\ h = [m \in 0 .. n + 1 |-> h[m]] /\ h[0] = acc
    BY <2>1
  <2>3. ASSUME NEW m \in 1 .. n + 1 PROVE h[m] = Round(h[m - 1])
    <3>1. CASE m = n + 1
      <4>1. h[m] = Round(g[n]) /\ h[m - 1] = g[n]
        BY <3>1
      <4> QED
        BY <4>1
    <3>2. CASE m # n + 1
      <4>1. m \in 1 .. n /\ h[m] = g[m] /\ h[m - 1] = g[m - 1]
        BY <2>3, <3>2
      <4> HIDE DEF h
      <4> QED
        BY <2>1, <4>1
    <3> QED
      BY <3>1, <3>2
  <2>4. Upto(h, n + 1)
    BY <2>2, <2>3
  <2>5. \E k : Upto(k, n + 1)
    BY <2>4
  <2> HIDE DEF Upto
  <2> QED
    BY <2>5
<1>3. PICK g : Upto(g, L)
  <2>1. Nat \subseteq T
    <3> HIDE DEF T
    <3> QED
      BY <1>1, <1>2, SetInduction
  <2> QED
    BY <2>1
<1> DEFINE Loop(f) == [n \in 0 .. L |-> IF n = 0 THEN acc ELSE Round(f[n - 1])]
<1>4. g = Loop(g)
  <2>1. ASSUME NEW n \in 0 .. L PROVE g[n] = Loop(g)[n]
    <3>1. CASE n = 0
      BY <1>3, <3>1
    <3>2. CASE n # 0
      <4>1. n \in 1 .. L /\ Loop(g)[n] = Round(g[n - 1])
        BY <3>2
      <4> QED
        BY <1>3, <4>1
    <3> QED
      BY <3>1, <3>2
  <2> QED
    BY <1>3, <2>1
<1> DEFINE c == CHOOSE f : f = Loop(f)
<1>5. c = Loop(c)
  <2> HIDE DEF Loop
  <2> QED
    BY <1>4
<1>6. c = After(acc) /\ Rounds(acc) = c[L]
  BY DEF After, Rounds
<1> HIDE DEF c
<1>7. c[0] = acc /\ \A n \in 1 .. L : c[n] = Round(c[n - 1])
  BY <1>5
<1> QED
  BY <1>6, <1>7

(* exec_parser.py:52-60: the loop reads what was fed, to the last newline. *)
LEMMA RoundsKeep ==
    ASSUME NEW p, NEW list, NEW text \in Text, Read(p, list, text)
    PROVE  LET r == Rounds(Pair(p, list))
           IN  Read(r.parser, r.deltas, text) /\ Newlines(r.parser.pending) = {}
<1> DEFINE acc == Pair(p, list)
<1>1. PICK L \in Nat : L = Len(p.pending)
  BY TextFacts DEF Read, Parsers
<1>2. acc.parser = p /\ acc.deltas = list
  BY DEF Pair
<1> HIDE DEF acc
<1>3. PICK g : /\ Rounds(acc) = g[L] /\ g[0] = acc
               /\ \A n \in 1 .. L : g[n] = Round(g[n - 1])
  BY <1>1, <1>2, RoundsFollow
<1> DEFINE Good(n) == /\ g[n] = Pair(g[n].parser, g[n].deltas)
                      /\ Read(g[n].parser, g[n].deltas, text)
                      /\ \/ Newlines(g[n].parser.pending) = {}
                         \/ Len(g[n].parser.pending) + n <= L
           U == {n \in Nat : n <= L => Good(n)}
<1>4. Good(0)
  BY <1>1, <1>2, <1>3 DEF acc
<1>5. ASSUME NEW n \in Nat, n + 1 <= L, Good(n) PROVE Good(n + 1)
  <2>1. n + 1 \in 1 .. L /\ (n + 1) - 1 = n
    BY <1>1, <1>5
  <2>2. g[n + 1] = Round(g[n])
    BY <1>3, <2>1
  <2>3. PICK q, ds : q = g[n].parser /\ ds = g[n].deltas
    OBVIOUS
  <2>4. g[n] = Pair(q, ds) /\ Read(q, ds, text)
    BY <1>5, <2>3
  <2>5. PICK r : r = g[n + 1]
    OBVIOUS
  <2>6. /\ r = Pair(r.parser, r.deltas)
        /\ Read(r.parser, r.deltas, text)
        /\ Newlines(q.pending) = {} => r = Pair(q, ds)
        /\ Newlines(q.pending) # {} => Len(r.parser.pending) < Len(q.pending)
    <3>1. r = Round(Pair(q, ds))
      BY <2>2, <2>4, <2>5
    <3> HIDE DEF Good
    <3> QED
      BY <2>4, <3>1, RoundKeeps
  <2>7. Len(q.pending) \in Nat /\ Len(r.parser.pending) \in Nat
    BY <2>4, <2>6, TextFacts DEF Read, Parsers
  <2>8. Newlines(r.parser.pending) = {} \/ Len(r.parser.pending) + (n + 1) <= L
    <3>1. CASE Newlines(q.pending) = {}
      <4>1. r.parser = q
        BY <2>6, <3>1 DEF Pair
      <4> QED
        BY <3>1, <4>1
    <3>2. CASE Newlines(q.pending) # {}
      <4>1. PICK x \in Nat, y \in Nat : x = Len(q.pending) /\ y = Len(r.parser.pending)
        BY <2>7
      <4>2. x + n <= L /\ y < x
        BY <1>5, <2>3, <2>6, <3>2, <4>1
      <4>3. y + (n + 1) <= L
        BY <1>1, <4>2
      <4> QED
        BY <4>1, <4>3
    <3> QED
      BY <3>1, <3>2
  <2> QED
    BY <2>5, <2>6, <2>8
<1> HIDE DEF Good
<1>6. Nat \subseteq U
  <2>1. 0 \in U
    BY <1>4
  <2>2. ASSUME NEW n \in Nat, n \in U PROVE n + 1 \in U
    <3>1. CASE n + 1 <= L
      <4>1. n <= L
        BY <1>1, <3>1
      <4> QED
        BY <1>5, <2>2, <3>1, <4>1
    <3>2. CASE ~(n + 1 <= L)
      BY <3>2
    <3> QED
      BY <3>1, <3>2
  <2> HIDE DEF U
  <2> QED
    BY <2>1, <2>2, SetInduction
<1>7. Good(L)
  BY <1>1, <1>6
<1>8. PICK r : r = Rounds(acc)
  OBVIOUS
<1>9. Read(r.parser, r.deltas, text) /\ (Newlines(r.parser.pending) = {} \/ Len(r.parser.pending) + L <= L)
  BY <1>3, <1>7, <1>8 DEF Good
<1>10. r.parser.pending \in Text
  BY <1>9 DEF Read, Parsers
<1>11. Newlines(r.parser.pending) = {}
  <2>1. CASE Len(r.parser.pending) + L <= L
    <3>0. PICK x \in Nat : x = Len(r.parser.pending)
      BY <1>10, TextFacts
    <3>1. Len(r.parser.pending) = 0
      <4>1. x + L <= L
        BY <2>1, <3>0
      <4>2. L \in Nat
        OBVIOUS
      <4>3. x = 0
        BY ONLY <4>1, <4>2, x \in Nat
      <4> QED
        BY <3>0, <4>3
    <3>2. DOMAIN r.parser.pending = {}
      BY <1>10, <3>1, TextFacts
    <3> QED
      BY <3>2 DEF Newlines
  <2> QED
    BY <1>9, <2>1
<1> QED
  BY <1>8, <1>9, <1>11 DEF acc

-----------------------------------------------------------------------------
(* The result, and what was shown.                                         *)

(* The block structure of a text a parser has read.                        *)
LEMMA ParsedOf ==
    ASSUME NEW p, NEW text \in Text
    PROVE  /\ NoBlock(p, text) => Parsed(text) = Plain(p.prefix)
           /\ OneBlock(p, text) => Parsed(text) = Exec(p.prefix, p.code, p.suffix)
           /\ OpenBlock(p, text) => Parsed(text) = Malformed
           /\ Bad(text) => Parsed(text) = Malformed
<1> DEFINE opens == Markers(text, Open)
           closes == Markers(text, Close)
           one == \E o \in opens, c \in closes : opens = {o} /\ closes = {c} /\ o < c
           first(S) == CHOOSE i \in S : TRUE
<1>1. /\ opens = {} /\ closes = {} => Parsed(text) = Plain(text)
      /\ ~(opens = {} /\ closes = {}) /\ ~one => Parsed(text) = Malformed
      /\ ~(opens = {} /\ closes = {}) /\ one => Parsed(text) =
            Exec(SubSeq(text, 1, first(opens) - 1),
                 SubSeq(text, LineEnd(text, first(opens)) + 1, first(closes) - 1),
                 SubSeq(text, LineEnd(text, first(closes)) + 1, Len(text)))
  BY DEF Parsed
<1>2. ASSUME NoBlock(p, text) PROVE Parsed(text) = Plain(p.prefix)
  BY <1>1, <1>2 DEF NoBlock
<1>3. ASSUME OneBlock(p, text) PROVE Parsed(text) = Exec(p.prefix, p.code, p.suffix)
  <2>1. PICK o, c :
            /\ opens = {o} /\ closes = {c} /\ o < c
            /\ p.prefix = SubSeq(text, 1, o - 1)
            /\ p.code = SubSeq(text, LineEnd(text, o) + 1, c - 1)
            /\ p.suffix = SubSeq(text, LineEnd(text, c) + 1, Len(text))
    BY <1>3 DEF OneBlock
  <2>2. first(opens) = o /\ first(closes) = c
    <3> HIDE DEF opens, closes
    <3> QED
      BY <2>1
  <2>3. one /\ ~(opens = {})
    <3> HIDE DEF opens, closes
    <3> QED
      BY <2>1
  <2> HIDE DEF opens, closes, one, first
  <2> QED
    BY <1>1, <2>1, <2>2, <2>3
<1>4. ASSUME OpenBlock(p, text) PROVE Parsed(text) = Malformed
  BY <1>1, <1>4 DEF OpenBlock
<1>5. ASSUME Bad(text) PROVE Parsed(text) = Malformed
  <2>1. opens # {} \/ closes # {}
    BY <1>5 DEF Bad, Marks
  <2>2. ~one
    BY <1>5 DEF Bad, Marks
  <2> QED
    BY <1>1, <2>1, <2>2
<1> QED
  BY <1>2, <1>3, <1>4, <1>5

LEMMA JoinedNothing == \A kind : Joined(kind, <<>>) = <<>>
<1>1. Len(<<>>) = 0
  OBVIOUS
<1> QED
  BY <1>1, JoinsFollow

(* A finished parser.                                                      *)
Finished(p, list, text) ==
    /\ p \in Parsers
    /\ p.state # "EXEC"
    /\ p.state = "ERROR" => Parsed(text) = Malformed
    /\ p.state # "ERROR" => Scanned(p, text) /\ Shown(p, list)

(* The inductive invariant: what was fed is what was read and a line that  *)
(* has not ended; afterwards all of it was read.                           *)
ParserInv ==
    /\ raw \in Text
    /\ ~finalized => /\ Read(parser, deltas, raw)
                     /\ parser.state # "ERROR" => Newlines(parser.pending) = {}
    /\ finalized => Finished(parser, deltas, raw)

LEMMA InitParser == Init => ParserInv
<1> SUFFICES ASSUME Init PROVE ParserInv
  OBVIOUS
<1>1. <<>> \in Text /\ <<>> \in Seq(Delta)
  BY DEF Text
<1>2. /\ parser \in Parsers /\ parser.state = "TEXT" /\ parser.pending = <<>>
      /\ parser.prefix = <<>> /\ parser.code = <<>> /\ parser.suffix = <<>>
  BY <1>1 DEF Init, Parsers, States
<1>3. <<>> \o <<>> = <<>>
  BY <1>1, ConcatEmptySeq DEF Text
<1>4. Shown(parser, deltas)
  BY <1>1, <1>2, <1>3, JoinedNothing DEF Init, Shown
<1>5. Closed(<<>>) /\ Scanned(parser, <<>>)
  BY <1>2, NoMarkersInNothing DEF Closed, Scanned, NoBlock
<1>6. Newlines(<<>>) = {}
  <2>1. DOMAIN <<>> = {}
    OBVIOUS
  <2> QED
    BY <2>1 DEF Newlines
<1> QED
  BY <1>1, <1>2, <1>3, <1>4, <1>5, <1>6 DEF Init, ParserInv, Read

LEMMA FeedKeeps ==
    ASSUME ParserInv, NEW chunk \in Chunks, Feed(chunk)
    PROVE  ParserInv'
<1>1. chunk \in Text
  <2>1. PICK n \in 1 .. MaxChunk : chunk \in [1 .. n -> Symbols]
    BY DEF Chunks
  <2>2. n \in Nat
    BY <2>1
  <2> QED
    BY <2>1, <2>2, SeqDef DEF Text
<1>2. /\ ~finalized /\ ~finalized' /\ raw' = raw \o chunk /\ raw \in Text /\ raw' \in Text
      /\ Read(parser, deltas, raw)
  BY <1>1, JoinFacts DEF ParserInv, Feed
<1>3. CASE parser.state = "ERROR"
  <2>1. PICK s \in Text, t \in Text : raw = s \o t /\ Closed(s) /\ Bad(s)
    BY <1>2, <1>3 DEF Read
  <2>2. t \o chunk \in Text /\ raw' = s \o (t \o chunk)
    <3>1. t \o chunk \in Text
      BY <1>1, JoinFacts
    <3>2. (s \o t) \o chunk = s \o (t \o chunk)
      BY <1>1, JoinAssociative
    <3> QED
      BY <1>2, <2>1, <3>1, <3>2
  <2>3. parser' = parser /\ deltas' = deltas
    BY <1>3 DEF Feed
  <2>4. Read(parser', deltas', raw')
    BY <1>2, <1>3, <2>1, <2>2, <2>3 DEF Read
  <2> QED
    BY <1>2, <1>3, <2>3, <2>4 DEF ParserInv
<1>4. CASE parser.state # "ERROR"
  <2> DEFINE text == parser.pending \o chunk
             p == [parser EXCEPT !.pending = text]
  <2>1. parser \in Parsers /\ parser.pending \in Text
    BY <1>2 DEF Read, Parsers
  <2>2. text \in Text
    BY <1>1, <2>1, JoinFacts
  <2>3. Parts(p, parser.state, text, parser.prefix, parser.code, parser.suffix)
    BY <2>1, <2>2, PartsOf
  <2>4. PICK s \in Text : raw = s \o parser.pending /\ Closed(s) /\ Scanned(parser, s)
    BY <1>2, <1>4 DEF Read
  <2>5. raw' = s \o text
    <3>1. PICK t \in Text : t = parser.pending
      BY <2>1
    <3>2. (s \o t) \o chunk = s \o (t \o chunk)
      BY <1>1, JoinAssociative
    <3> QED
      BY <1>2, <2>4, <3>1, <3>2
  <2> DEFINE r == Rounds([parser |-> p, deltas |-> deltas])
  <2>6. parser' = r.parser /\ deltas' = r.deltas
    BY <1>4 DEF Feed, Pending
  <2>7. r = Rounds(Pair(p, deltas))
    BY DEF Pair
  <2> HIDE DEF p, r, text
  <2>8. Read(p, deltas, raw')
    <3>1. Shown(p, deltas) /\ Scanned(p, s)
      BY <1>2, <1>4, <2>3, <2>4
         DEF Read, Shown, Parts, Scanned, NoBlock, OpenBlock, OneBlock
    <3> QED
      BY <1>4, <2>3, <2>4, <2>5, <3>1 DEF Read, Parts
  <2>9. Read(r.parser, r.deltas, raw') /\ Newlines(r.parser.pending) = {}
    BY <1>2, <2>7, <2>8, RoundsKeep
  <2> QED
    BY <1>2, <2>6, <2>9 DEF ParserInv
<1> QED
  BY <1>3, <1>4

LEMMA FinalizeKeeps ==
    ASSUME ParserInv, Finalize
    PROVE  ParserInv'
<1> DEFINE acc == [parser |-> parser, deltas |-> deltas]
           last == IF parser.state = "ERROR" \/ parser.pending = <<>> THEN acc
                   ELSE ProcessLine([acc EXCEPT !.parser.pending = <<>>], parser.pending)
<1>1. /\ finalized' /\ raw' = raw /\ raw \in Text
      /\ Read(parser, deltas, raw)
      /\ parser.state # "ERROR" => Newlines(parser.pending) = {}
      /\ parser' = IF last.parser.state = "EXEC"
                     THEN [last.parser EXCEPT !.state = "ERROR"] ELSE last.parser
      /\ deltas' = last.deltas
  BY DEF ParserInv, Finalize, FinalDeltas
<1>2. PICK q, ds : q = last.parser /\ ds = last.deltas
  OBVIOUS
<1>3. /\ q \in Parsers
      /\ q.state = "ERROR" => Bad(raw)
      /\ q.state # "ERROR" => Scanned(q, raw) /\ Shown(q, ds)
  <2>1. CASE parser.state = "ERROR"
    <3>1. q = parser
      BY <1>2, <2>1
    <3>2. Bad(raw)
      BY <1>1, <2>1, BadStays DEF Read
    <3> QED
      BY <1>1, <2>1, <3>1, <3>2 DEF Read
  <2>2. CASE parser.state # "ERROR"
    <3>1. PICK s \in Text : raw = s \o parser.pending /\ Closed(s) /\ Scanned(parser, s)
      BY <1>1, <2>2 DEF Read
    <3>2. CASE parser.pending = <<>>
      <4>1. q = parser /\ ds = deltas
        BY <1>2, <3>2
      <4>2. raw = s
        BY <3>1, <3>2, ConcatEmptySeq DEF Text
      <4> QED
        BY <1>1, <2>2, <3>1, <4>1, <4>2 DEF Read
    <3>3. CASE parser.pending # <<>>
      <4> DEFINE cut == [parser EXCEPT !.pending = <<>>]
      <4>1. <<>> \in Text /\ parser \in Parsers /\ parser.pending \in Text
        BY <1>1 DEF Read, Parsers, Text
      <4>2. Line(parser.pending)
        BY <1>1, <2>2, <3>3, <4>1, LastLine
      <4>3. Parts(cut, parser.state, <<>>, parser.prefix, parser.code, parser.suffix)
        BY <4>1, PartsOf
      <4>4. [acc EXCEPT !.parser.pending = <<>>] = Pair(cut, deltas)
        <5>1. /\ DOMAIN [acc EXCEPT !.parser.pending = <<>>] = {"parser", "deltas"}
              /\ [acc EXCEPT !.parser.pending = <<>>].parser = cut
              /\ [acc EXCEPT !.parser.pending = <<>>].deltas = deltas
          OBVIOUS
        <5> QED
          BY <5>1 DEF Pair
      <4>5. last = ProcessLine(Pair(cut, deltas), parser.pending)
        BY <2>2, <3>3, <4>4
      <4> HIDE DEF cut, last, acc
      <4>6. Scanned(cut, s) /\ Shown(cut, deltas)
        BY <1>1, <2>2, <3>1, <4>3
           DEF Read, Shown, Parts, Scanned, NoBlock, OpenBlock, OneBlock
      <4>7. cut \in Parsers /\ cut.state # "ERROR"
        BY <2>2, <4>3 DEF Parts
      <4>8. q \in Parsers /\ Scanned(q, raw)
        BY <1>2, <3>1, <4>2, <4>5, <4>6, <4>7, LineRead DEF Pair
      <4>9. q.state # "ERROR" => Shown(q, ds)
        <5>1. cut.state # "AFTER_EXEC" => cut.suffix = <<>>
          BY <4>6, <4>7 DEF Scanned, NoBlock, OpenBlock, Parsers, States
        <5> QED
          BY <1>2, <4>1, <4>5, <4>6, <4>7, <5>1, LineShown DEF Pair
      <4> QED
        BY <4>8, <4>9 DEF Scanned
    <3> QED
      BY <3>2, <3>3
  <2> QED
    BY <2>1, <2>2
<1> HIDE DEF last
<1>4. Bad(raw) => Parsed(raw) = Malformed
  BY <1>1, ParsedOf
<1>5. CASE q.state = "EXEC"
  <2>1. Parts(parser', "ERROR", q.pending, q.prefix, q.code, q.suffix)
    <3>1. parser' = [q EXCEPT !.state = "ERROR"] /\ "ERROR" \in States
      BY <1>1, <1>2, <1>5 DEF States
    <3>2. <<>> \in Text
      BY DEF Text
    <3> QED
      BY <1>3, <3>1, <3>2, PartsOf
  <2>2. Parsed(raw) = Malformed
    BY <1>1, <1>3, <1>5, ParsedOf DEF Scanned
  <2> QED
    BY <1>1, <2>1, <2>2 DEF ParserInv, Finished, Parts
<1>6. CASE q.state # "EXEC"
  <2>1. parser' = q /\ deltas' = ds
    BY <1>1, <1>2, <1>6
  <2>2. Finished(q, ds, raw)
    BY <1>3, <1>4, <1>6 DEF Finished
  <2> QED
    BY <1>1, <2>1, <2>2 DEF ParserInv
<1> QED
  BY <1>5, <1>6

LEMMA ParserInvariant == Spec => []ParserInv
<1>1. ASSUME ParserInv, [Next]_vars PROVE ParserInv'
  <2>1. CASE UNCHANGED vars
    BY <1>1, <2>1 DEF ParserInv, vars
  <2>2. CASE Done
    BY <1>1, <2>2 DEF ParserInv, Done, vars
  <2>3. CASE Finalize
    BY <1>1, <2>3, FinalizeKeeps
  <2>4. ASSUME NEW chunk \in Chunks, Feed(chunk) PROVE ParserInv'
    BY <1>1, <2>4, FeedKeeps
  <2> QED
    BY <1>1, <2>1, <2>2, <2>3, <2>4 DEF Next
<1> QED
  BY InitParser, <1>1, PTL DEF Spec

(* exec_parser.py:28, README.md:55-63: for every text and every way it is  *)
(* cut into chunks, the result of the parser is the block structure of the *)
(* whole text.                                                             *)
THEOREM ResultIsBlockStructure == Spec => []ResultIsParsed
<1>1. ASSUME ParserInv PROVE ResultIsParsed
  <2> SUFFICES ASSUME finalized PROVE Result = Parsed(raw)
    BY DEF ResultIsParsed
  <2>1. /\ raw \in Text /\ parser.state \in {"TEXT", "AFTER_EXEC", "ERROR"}
        /\ parser.state = "ERROR" => Parsed(raw) = Malformed
        /\ parser.state # "ERROR" => Scanned(parser, raw)
    BY <1>1 DEF ParserInv, Finished, Parsers, States
  <2>2. CASE parser.state = "ERROR"
    BY <2>1, <2>2 DEF Result
  <2>3. CASE parser.state = "TEXT"
    <3>1. Parsed(raw) = Plain(parser.prefix)
      BY <2>1, <2>3, ParsedOf DEF Scanned
    <3> QED
      BY <2>3, <3>1 DEF Result
  <2>4. CASE parser.state = "AFTER_EXEC"
    <3>1. Parsed(raw) = Exec(parser.prefix, parser.code, parser.suffix)
      BY <2>1, <2>4, ParsedOf DEF Scanned
    <3> QED
      BY <2>4, <3>1 DEF Result
  <2> QED
    BY <2>1, <2>2, <2>3, <2>4
<1> QED
  BY ParserInvariant, <1>1, PTL

(* PLAN 9.2: however the reply is cut, the text and the code shown while   *)
(* it streamed in are those of the finished message.                       *)
THEOREM ShownIsStored == Spec => []StreamedIsResult
<1>1. ASSUME ParserInv PROVE StreamedIsResult
  BY <1>1 DEF ParserInv, Finished, Shown, StreamedIsResult, Streamed
<1> QED
  BY ParserInvariant, <1>1, PTL

-----------------------------------------------------------------------------
(* The reply that goes back to the provider.                               *)

(* A text without a marker line.                                           *)
Free(text) == \A m \in Marks : Markers(text, m) = {}

(* Where the line of a text ends, a text that follows is free if all is.   *)
LEMMA FreeRest ==
    ASSUME NEW s \in Text, Closed(s), NEW t \in Text, Free(s \o t)
    PROVE  Free(t)
<1>1. ASSUME NEW m \in Marks PROVE Markers(t, m) = {}
  <2>1. \A k \in Markers(t, m) : Len(s) + k \in Markers(s \o t, m)
    BY JoinedMarkers
  <2> QED
    BY <2>1 DEF Free
<1> QED
  BY <1>1 DEF Free

(* Text before and code of a block end with a line and hold no marker      *)
(* line, and nor does the text after it.                                   *)
LEMMA BlockParts ==
    ASSUME NEW p \in Parsers, NEW text \in Text, OneBlock(p, text)
    PROVE  /\ Closed(p.prefix) /\ Free(p.prefix)
           /\ Closed(p.code) /\ Free(p.code)
           /\ Free(p.suffix)
<1>0. PICK n \in Nat : n = Len(text)
  BY TextFacts
<1>1. PICK o \in 1 .. n, c \in 1 .. n :
        /\ Markers(text, Open) = {o} /\ Markers(text, Close) = {c} /\ o < c
        /\ p.prefix = SubSeq(text, 1, o - 1)
        /\ p.code = SubSeq(text, LineEnd(text, o) + 1, c - 1)
        /\ p.suffix = SubSeq(text, LineEnd(text, c) + 1, n)
  BY <1>0 DEF OneBlock
<1>2. /\ o = 1 \/ text[o - 1] = Newline
      /\ c = 1 \/ text[c - 1] = Newline
  <2>1. o \in Markers(text, Open) /\ c \in Markers(text, Close)
    BY <1>1
  <2> QED
    BY <2>1 DEF Markers, StartsLine
<1>3. \A m \in Marks : \A i \in Markers(text, m) : i \in {o, c}
  BY <1>1 DEF Marks
<1>4. PICK e, d : e = LineEnd(text, o) /\ d = LineEnd(text, c)
  OBVIOUS
<1>5. EndsAt(text, o, e) /\ EndsAt(text, c, d)
  BY <1>0, <1>1, <1>4, LineEndFacts
<1>6. e \in o .. n /\ d \in c .. n /\ e \in Nat /\ d \in Nat
  BY <1>0, <1>5 DEF EndsAt
<1>7. e <= c - 1
  <2>1. CASE ~(e <= c - 1)
    <3>1. c # 1 /\ c - 1 \in o .. e - 1
      BY <1>1, <1>6, <2>1
    <3> QED
      BY <1>2, <1>5, <3>1 DEF EndsAt
  <2> QED
    BY <2>1
<1>8. text[e] = Newline /\ text[c - 1] = Newline
  <2>1. e # n /\ c # 1
    BY <1>1, <1>6, <1>7
  <2> QED
    BY <1>0, <1>2, <1>5, <2>1 DEF EndsAt
<1>9. Closed(p.prefix) /\ Free(p.prefix)
  <2>1. PICK k \in 0 .. n : k = o - 1
    BY <1>1
  <2> DEFINE s == SubSeq(text, 1, k)
             t == SubSeq(text, k + 1, Len(text))
  <2>2. /\ text = s \o t /\ s \in Text /\ t \in Text /\ Len(s) = k
        /\ \A i \in 1 .. k : s[i] = text[i]
    BY <1>0, <2>1, CutFacts
  <2>3. p.prefix = s
    BY <1>1, <2>1
  <2> HIDE DEF s, t
  <2>4. Closed(s)
    <3>1. CASE k = 0
      BY <2>2, <3>1, TextFacts DEF Closed
    <3>2. CASE k # 0
      <4>1. k \in 1 .. k /\ o # 1
        BY <1>1, <2>1, <3>2
      <4> QED
        BY <1>2, <2>1, <2>2, <4>1 DEF Closed
    <3> QED
      BY <3>1, <3>2
  <2>5. ASSUME NEW m \in Marks, NEW i \in Markers(s, m) PROVE FALSE
    <3>1. i \in Markers(text, m)
      BY <2>2, <2>4, <2>5, JoinedMarkers
    <3>2. i \in 1 .. k
      BY <2>2, <2>5, TextFacts DEF Markers
    <3> QED
      BY <1>1, <1>3, <2>1, <3>1, <3>2
  <2> QED
    BY <2>3, <2>4, <2>5 DEF Free
<1>10. Closed(p.code) /\ Free(p.code)
  <2>1. PICK k \in 0 .. n : k = c - 1
    BY <1>1
  <2> DEFINE a == SubSeq(text, 1, e)
             b == SubSeq(text, e + 1, k)
             s == SubSeq(text, 1, k)
             t == SubSeq(text, k + 1, Len(text))
  <2>2. /\ text = s \o t /\ s \in Text /\ t \in Text /\ Len(s) = k
        /\ \A i \in 1 .. k : s[i] = text[i]
    BY <1>0, <2>1, CutFacts
  <2>3. /\ a \in Text /\ Len(a) = e
        /\ \A i \in 1 .. e : a[i] = text[i]
    <3>1. e \in 0 .. Len(text)
      BY <1>0, <1>6
    <3> QED
      BY <3>1, CutFacts
  <2>4. s = a \o b
    <3>1. /\ 1 \in 1 .. Len(text) + 1
          /\ e \in 1 - 1 .. Len(text)
          /\ k \in e .. Len(text)
      BY <1>0, <1>6, <1>7, <2>1
    <3> QED
      BY <3>1, ConcatAdjacentSubSeq DEF Text
  <2>5. /\ b \in Text
        /\ Len(b) = IF e + 1 <= k THEN k - (e + 1) + 1 ELSE 0
        /\ \A i \in 1 .. k - (e + 1) + 1 : b[i] = text[(e + 1) + i - 1]
    <3>1. e + 1 \in Nat \ {0} /\ k \in Nat /\ k <= Len(text)
      BY <1>0, <1>6, <2>1
    <3> QED
      BY <3>1, SliceFacts
  <2>6. p.code = b
    BY <1>1, <1>4, <2>1
  <2> HIDE DEF a, b, s, t
  <2>7. Closed(a) /\ Closed(s)
    <3>1. e \in 1 .. e /\ k \in 1 .. k
      BY <1>1, <1>6, <1>7, <2>1
    <3> QED
      BY <1>8, <2>1, <2>2, <2>3, <3>1 DEF Closed
  <2>8. Closed(b)
    <3>1. CASE e + 1 <= k
      <4>1. PICK l \in Nat : l = Len(b)
        BY <2>5, TextFacts
      <4>2. l = k - e /\ l \in 1 .. k - (e + 1) + 1 /\ (e + 1) + l - 1 = k
        BY <1>6, <2>1, <2>5, <3>1, <4>1
      <4> QED
        BY <1>8, <2>1, <2>5, <4>1, <4>2 DEF Closed
    <3>2. CASE ~(e + 1 <= k)
      BY <2>5, <3>2, TextFacts DEF Closed
    <3> QED
      BY <3>1, <3>2
  <2>9. ASSUME NEW m \in Marks, NEW i \in Markers(b, m) PROVE FALSE
    <3>1. e + i \in Markers(s, m)
      BY <2>3, <2>4, <2>5, <2>7, <2>9, JoinedMarkers
    <3>2. e + i \in Markers(text, m)
      BY <2>2, <2>7, <3>1, JoinedMarkers
    <3>3. e + i \in 1 .. k /\ i \in 1 .. Len(b) /\ Len(b) \in Nat
      BY <2>2, <2>5, <2>9, <3>1, TextFacts DEF Markers
    <3> QED
      BY <1>1, <1>3, <1>6, <2>1, <3>2, <3>3
  <2> QED
    BY <2>6, <2>8, <2>9 DEF Free
<1>11. Free(p.suffix)
  <2>1. d \in 0 .. Len(text)
    BY <1>0, <1>6
  <2> DEFINE s == SubSeq(text, 1, d)
             t == SubSeq(text, d + 1, Len(text))
  <2>2. /\ text = s \o t /\ s \in Text /\ t \in Text /\ Len(s) = d /\ Len(t) = Len(text) - d
        /\ \A i \in 1 .. d : s[i] = text[i]
    BY <2>1, CutFacts
  <2>3. p.suffix = t
    BY <1>0, <1>1, <1>4
  <2> HIDE DEF s, t
  <2>4. CASE d = n
    <3>1. t = <<>>
      BY <1>0, <2>2, <2>4, TextFacts
    <3> QED
      BY <2>3, <3>1, NoMarkersInNothing DEF Free
  <2>5. CASE d # n
    <3>1. Closed(s)
      <4>1. d \in 1 .. d
        BY <1>1, <1>6
      <4> QED
        BY <1>0, <1>5, <2>2, <2>5, <4>1 DEF EndsAt, Closed
    <3>2. ASSUME NEW m \in Marks, NEW i \in Markers(t, m) PROVE FALSE
      <4>1. d + i \in Markers(text, m)
        BY <2>2, <3>1, <3>2, JoinedMarkers
      <4>2. i \in 1 .. Len(t) /\ Len(t) \in Nat
        BY <2>2, <3>2, TextFacts DEF Markers
      <4> QED
        BY <1>1, <1>3, <1>6, <4>1, <4>2
    <3> QED
      BY <2>3, <3>2 DEF Free
  <2> QED
    BY <2>4, <2>5
<1> QED
  BY <1>9, <1>10, <1>11

(* The markers of a text and one that follows its last line.               *)
LEMMA MarkersAfter ==
    ASSUME NEW s \in Text, Closed(s), NEW t \in Text, NEW m
    PROVE  /\ Markers(s, m) = {} =>
                Markers(s \o t, m) = {Len(s) + k : k \in Markers(t, m)}
           /\ Markers(t, m) = {} => Markers(s \o t, m) = Markers(s, m)
<1>1. /\ \A i \in Markers(s \o t, m) :
            i \in Markers(s, m) \/ \E k \in Markers(t, m) : i = Len(s) + k
      /\ \A i \in Markers(s, m) : i \in Markers(s \o t, m)
      /\ \A k \in Markers(t, m) : Len(s) + k \in Markers(s \o t, m)
  BY JoinedMarkers
<1>2. PICK w : w = s \o t
  OBVIOUS
<1> QED
  BY <1>1, <1>2

(* A text that begins with the closing line and holds no other marker.     *)
Closing(text) == Markers(text, Open) = {} /\ Markers(text, Close) = {1}

(* A line of the closing marker, with or without a text after it.          *)
LEMMA ClosingLine ==
    ASSUME NEW line, Line(line), line \in MarkerLines(Close)
    PROVE  /\ Closing(line)
           /\ \A t \in Text : Closed(line) /\ Free(t) => Closing(line \o t)
<1>1. line \in Text
  BY DEF Line
<1>2. line \notin MarkerLines(Open)
  <2>1. LineValue(line) = Close
    BY <1>1, MarkerValue, TwoMarkers
  <2>2. LineValue(line) # Open
    BY <2>1, TwoMarkers
  <2> QED
    BY <1>1, <2>2, MarkerValue, TwoMarkers
<1>3. Markers(line, Close) = {1} /\ Markers(line, Open) = {}
  BY <1>2, LineMarkers
<1>4. ASSUME NEW t \in Text, Closed(line), Free(t) PROVE Closing(line \o t)
  <2>1. Markers(t, Open) = {} /\ Markers(t, Close) = {}
    BY <1>4, TwoMarkers DEF Free
  <2>2. Markers(line \o t, Open) = Markers(line, Open)
    BY <1>1, <1>4, <2>1, MarkersAfter
  <2>3. Markers(line \o t, Close) = Markers(line, Close)
    BY <1>1, <1>4, <2>1, MarkersAfter
  <2> QED
    BY <1>3, <2>2, <2>3 DEF Closing
<1> QED
  BY <1>3, <1>4 DEF Closing

(* A marker and an ending are a line of the marker.                        *)
LEMMA WrittenMarker ==
    ASSUME NEW m \in Marks,
           NEW ending \in {<<>>, <<Newline>>, <<Return>>, <<Return, Newline>>}
    PROVE  /\ Line(m \o ending) /\ m \o ending \in MarkerLines(m)
           /\ ending \in {<<Newline>>, <<Return, Newline>>} => Closed(m \o ending)
<1>1. m \o ending \in MarkerLines(m)
  BY DEF MarkerLines
<1>2. m \in Text /\ Len(m) = 2 /\ m[1] # Newline /\ m[2] # Newline
  <2>1. Open \in Text /\ Len(Open) = 2 /\ Open[1] # Newline /\ Open[2] # Newline
    BY DEF Open, Text, Symbols, Newline
  <2>2. Close \in Text /\ Len(Close) = 2 /\ Close[1] # Newline /\ Close[2] # Newline
    BY DEF Close, Text, Symbols, Newline
  <2> QED
    BY <2>1, <2>2 DEF Marks
<1>3. PICK k \in 0 .. 2 :
        /\ ending \in Text /\ Len(ending) = k
        /\ \A i \in 1 .. k - 1 : ending[i] # Newline
        /\ ending \in {<<Newline>>, <<Return, Newline>>} => k > 0 /\ ending[k] = Newline
  <2>1. <<>> \in Text /\ <<Newline>> \in Text /\ <<Return>> \in Text /\ <<Return, Newline>> \in Text
    BY DEF Text, Symbols, Newline, Return
  <2>2. Return # Newline
    BY DEF Return, Newline
  <2>3. CASE ending = <<>>
    BY <2>1, <2>2, <2>3
  <2>4. CASE ending = <<Newline>>
    BY <2>1, <2>2, <2>4
  <2>5. CASE ending = <<Return>>
    BY <2>1, <2>2, <2>5
  <2>6. CASE ending = <<Return, Newline>>
    BY <2>1, <2>2, <2>6
  <2> QED
    BY <2>3, <2>4, <2>5, <2>6
<1>4. PICK w : w = m \o ending
  OBVIOUS
<1>5. /\ w \in Text /\ Len(w) = 2 + k
      /\ \A i \in 1 .. 2 : w[i] = m[i]
      /\ \A i \in 1 .. k : w[2 + i] = ending[i]
  <2>1. m \in Text /\ ending \in Text
    BY <1>2, <1>3
  <2>2. /\ w \in Text /\ Len(w) = Len(m) + Len(ending)
        /\ \A i \in 1 .. Len(m) : w[i] = m[i]
        /\ \A i \in 1 .. Len(ending) : w[Len(m) + i] = ending[i]
    BY <1>4, <2>1, JoinFacts
  <2> QED
    BY <1>2, <1>3, <2>2
<1>6. Line(w)
  <2>1. w # <<>>
    BY <1>5, TextFacts
  <2>2. ASSUME NEW i \in 1 .. Len(w) - 1 PROVE w[i] # Newline
    <3>1. CASE i \in 1 .. 2
      <4>1. i = 1 \/ i = 2
        BY <3>1
      <4> QED
        BY <1>2, <1>5, <4>1
    <3>2. CASE i \notin 1 .. 2
      <4>1. i - 2 \in 1 .. k - 1 /\ i - 2 \in 1 .. k /\ 2 + (i - 2) = i
        BY <1>5, <2>2, <3>2
      <4> QED
        BY <1>3, <1>5, <4>1
    <3> QED
      BY <3>1, <3>2
  <2> QED
    BY <1>5, <2>1, <2>2 DEF Line
<1>7. ending \in {<<Newline>>, <<Return, Newline>>} => Closed(w)
  <2> SUFFICES ASSUME ending \in {<<Newline>>, <<Return, Newline>>} PROVE Closed(w)
    OBVIOUS
  <2>1. k > 0 /\ ending[k] = Newline /\ k \in 1 .. k
    BY <1>3
  <2>2. w[2 + k] = Newline
    BY <1>5, <2>1
  <2> QED
    BY <1>5, <2>2 DEF Closed
<1> QED
  BY <1>1, <1>4, <1>6, <1>7

(* Block, opening line, code and closing line read as they were written.   *)
LEMMA WrittenBlock ==
    ASSUME NEW P \in Text, Closed(P), Free(P), NEW C \in Text, Closed(C), Free(C),
           NEW T \in Text, Closing(T), NEW O, Line(O), Closed(O), O \in MarkerLines(Open)
    PROVE  LET read == Parsed(P \o (O \o (C \o T)))
           IN  read.verdict = "exec" /\ read.prefix = P /\ read.code = C
<1> DEFINE U == C \o T
           V == O \o U
           W == P \o V
           x == Len(P)
           y == Len(O)
           z == Len(C)
<1>0. O \in Text
  BY DEF Line
<1>1. /\ U \in Text /\ V \in Text /\ W \in Text
      /\ x \in Nat /\ y \in Nat /\ z \in Nat /\ y > 0
      /\ Len(W) = x + (y + (z + Len(T))) /\ Len(T) \in Nat
  <2>1. U \in Text /\ Len(U) = z + Len(T)
    BY JoinFacts
  <2>2. V \in Text /\ Len(V) = y + (z + Len(T))
    <3> HIDE DEF U
    <3>1. O \o U \in Text /\ Len(O \o U) = Len(O) + Len(U)
      BY <1>0, <2>1, JoinFacts
    <3> QED
      BY <2>1, <3>1
  <2>3. W \in Text /\ Len(W) = x + (y + (z + Len(T)))
    <3> HIDE DEF V
    <3>1. P \o V \in Text /\ Len(P \o V) = Len(P) + Len(V)
      BY <2>2, JoinFacts
    <3> QED
      BY <2>2, <3>1
  <2>4. x \in Nat /\ y \in Nat /\ z \in Nat /\ Len(T) \in Nat
    BY <1>0, TextFacts
  <2>5. y > 0
    BY <1>0, <2>4, TextFacts DEF Line
  <2> QED
    BY <2>1, <2>2, <2>3, <2>4, <2>5
<1>2. Markers(O, Open) = {1} /\ Markers(O, Close) = {}
  <2>1. LineValue(O) = Open /\ Open # Close
    BY <1>0, MarkerValue, TwoMarkers
  <2>2. O \notin MarkerLines(Close)
    BY <1>0, <2>1, MarkerValue, TwoMarkers
  <2> QED
    BY <2>2, LineMarkers
<1>3. /\ Markers(P, Open) = {} /\ Markers(P, Close) = {}
      /\ Markers(C, Open) = {} /\ Markers(C, Close) = {}
  BY TwoMarkers DEF Free
<1>4. Markers(U, Open) = {} /\ Markers(U, Close) = {z + 1}
  <2>1. /\ Markers(U, Open) = {z + k : k \in Markers(T, Open)}
        /\ Markers(U, Close) = {z + k : k \in Markers(T, Close)}
    BY <1>3, MarkersAfter
  <2> HIDE DEF U
  <2> QED
    BY <2>1 DEF Closing
<1> HIDE DEF U
<1>5. Markers(V, Open) = {1} /\ Markers(V, Close) = {y + (z + 1)}
  <2>1. /\ Markers(V, Open) = Markers(O, Open)
        /\ Markers(V, Close) = {y + k : k \in Markers(U, Close)}
    <3>1. U \in Text
      BY <1>1
    <3>2. Markers(O \o U, Open) = Markers(O, Open)
      BY <1>0, <1>4, <3>1, MarkersAfter
    <3>3. Markers(O \o U, Close) = {Len(O) + k : k \in Markers(U, Close)}
      BY <1>0, <1>2, <3>1, MarkersAfter
    <3> QED
      BY <3>2, <3>3
  <2> HIDE DEF V
  <2> QED
    BY <1>2, <1>4, <2>1
<1>6. LineEnd(V, 1) = y
  <2>1. EndsAt(O, 1, y) /\ 1 \in 1 .. y
    BY <1>1 DEF EndsAt, Line
  <2>2. LineEnd(O, 1) = y
    BY <1>0, <2>1, LineEndFacts
  <2> QED
    BY <1>0, <1>1, <2>1, <2>2, JoinedLines
<1>7. SubSeq(V, y + 1, y + z) = C
  <2>1. z \in 0 .. Len(U) /\ z \in 0 .. z
    BY <1>1, JoinFacts DEF U
  <2>2. SubSeq(V, y + 1, y + z) = SubSeq(U, 1, z)
    <3>1. U \in Text /\ 1 \in Nat \ {0}
      BY <1>1
    <3>2. \A b \in 0 .. Len(U) : SubSeq(O \o U, Len(O) + 1, Len(O) + b) = SubSeq(U, 1, b)
      BY <1>0, <3>1, JoinSlices
    <3> QED
      BY <2>1, <3>2
  <2>3. SubSeq(U, 1, z) = SubSeq(C, 1, z)
    BY <1>1, <2>1, JoinSlices DEF U
  <2>4. SubSeq(C, 1, z) = C
    BY SubSeqFull DEF Text
  <2> QED
    BY <2>2, <2>3, <2>4
<1>8. Len(V) = y + (z + Len(T))
  <2>1. Len(U) = z + Len(T)
    BY JoinFacts DEF U
  <2> QED
    BY <1>0, <1>1, <2>1, JoinFacts
<1> HIDE DEF V
<1>9. Markers(W, Open) = {x + 1} /\ Markers(W, Close) = {x + (y + (z + 1))}
  <2>1. /\ Markers(W, Open) = {x + k : k \in Markers(V, Open)}
        /\ Markers(W, Close) = {x + k : k \in Markers(V, Close)}
    BY <1>1, <1>3, MarkersAfter
  <2> HIDE DEF W
  <2> QED
    BY <1>5, <2>1
<1>10. LineEnd(W, x + 1) = x + y
  <2>1. 1 \in 1 .. Len(V) /\ V \in Text
    BY <1>1, <1>8
  <2>2. LineEnd(P \o V, Len(P) + 1) = Len(P) + LineEnd(V, 1)
    BY <2>1, JoinedLines
  <2> QED
    BY <1>6, <2>2
<1>11. SubSeq(W, 1, x) = P
  <2>1. SubSeq(W, 1, x) = SubSeq(P, 1, x)
    BY <1>1, JoinSlices
  <2> QED
    BY <2>1, SubSeqFull DEF Text
<1>12. SubSeq(W, x + (y + 1), x + (y + z)) = C
  <2>1. y + 1 \in Nat \ {0} /\ y + z \in 0 .. Len(V)
    BY <1>1, <1>8
  <2>2. SubSeq(W, x + (y + 1), x + (y + z)) = SubSeq(V, y + 1, y + z)
    <3>1. V \in Text
      BY <1>1
    <3>2. \A a \in Nat \ {0} : \A b \in 0 .. Len(V) :
            SubSeq(P \o V, Len(P) + a, Len(P) + b) = SubSeq(V, a, b)
      BY <3>1, JoinSlices
    <3> HIDE DEF x, y, z
    <3> QED
      BY <2>1, <3>2 DEF x
  <2> QED
    BY <1>7, <2>2
<1> HIDE DEF W
<1>13. PICK o, c : o = x + 1 /\ c = x + (y + (z + 1))
  OBVIOUS
<1> DEFINE p == [prefix |-> P, code |-> C, suffix |-> SubSeq(W, LineEnd(W, c) + 1, Len(W))]
<1>14. OneBlock(p, W)
  <2>1. o \in 1 .. Len(W) /\ c \in 1 .. Len(W) /\ o < c
    <3>1. Len(T) > 0
      <4>1. 1 \in Markers(T, Close)
        BY DEF Closing
      <4>2. 1 \in 1 .. Len(T)
        BY <4>1, TextFacts DEF Markers
      <4> QED
        BY <1>1, <4>2
    <3> QED
      BY <1>1, <1>13, <3>1
  <2>2. /\ o - 1 = x /\ LineEnd(W, o) + 1 = x + (y + 1) /\ c - 1 = x + (y + z)
    BY <1>1, <1>10, <1>13
  <2>3. /\ p.prefix = SubSeq(W, 1, o - 1)
        /\ p.code = SubSeq(W, LineEnd(W, o) + 1, c - 1)
        /\ p.suffix = SubSeq(W, LineEnd(W, c) + 1, Len(W))
    BY <1>11, <1>12, <2>2
  <2> QED
    BY <1>9, <1>13, <2>1, <2>3 DEF OneBlock
<1>15. Parsed(W) = Exec(p.prefix, p.code, p.suffix)
  <2> HIDE DEF p
  <2> QED
    BY <1>1, <1>14, ParsedOf
<1>16. W = P \o (O \o (C \o T))
  BY DEF W, V, U
<1> QED
  BY <1>15, <1>16 DEF Exec

(* The closing marker, the gap and the text after the block.               *)
LEMMA WrittenAfter ==
    ASSUME NEW S \in Text, Free(S), ~LoneReturn(S)
    PROVE  (Close \o Gap(S)) \o S \in Text /\ Closing((Close \o Gap(S)) \o S)
<1>0. /\ <<>> \in Text /\ <<Newline>> \in Text /\ <<Return>> \in Text
      /\ <<Return, Newline>> \in Text /\ Close \in Text
  BY DEF Text, Symbols, Newline, Return, Close
<1> DEFINE L(ending) == Close \o ending
<1>1. \A ending \in {<<>>, <<Newline>>, <<Return>>, <<Return, Newline>>} :
        /\ Line(L(ending)) /\ L(ending) \in MarkerLines(Close) /\ L(ending) \in Text
        /\ ending \in {<<Newline>>, <<Return, Newline>>} => Closed(L(ending))
  BY TwoMarkers, WrittenMarker DEF Line
<1>2. \A ending \in {<<>>, <<Newline>>, <<Return>>, <<Return, Newline>>} : Closing(L(ending))
  BY <1>1, ClosingLine
<1>3. \A ending \in {<<Newline>>, <<Return, Newline>>} : \A t \in Text :
        Free(t) => Closing(L(ending) \o t)
  <2> SUFFICES ASSUME NEW ending \in {<<Newline>>, <<Return, Newline>>}, NEW t \in Text, Free(t)
               PROVE  Closing(L(ending) \o t)
    OBVIOUS
  <2>1. Line(L(ending)) /\ L(ending) \in MarkerLines(Close) /\ Closed(L(ending))
    BY <1>1
  <2> HIDE DEF L
  <2> QED
    BY <2>1, ClosingLine
<1> HIDE DEF L
<1>4. L(<<>>) = Close
  BY <1>0, ConcatEmptySeq DEF Text, L
<1>5. Close \o Gap(S) \in Text
  BY <1>0, JoinFacts DEF Gap
<1>6. (Close \o Gap(S)) \o S \in Text
  BY <1>5, JoinFacts
<1>7. PICK l \in Nat : l = Len(S)
  BY TextFacts
<1>8. S = <<>> <=> l = 0
  BY <1>7, TextFacts
<1>9. CASE S = <<>>
  <2>1. Gap(S) = <<>>
    BY <1>9 DEF Gap
  <2>2. Close \o Gap(S) = Close
    BY <1>4, <2>1 DEF L
  <2>3. (Close \o Gap(S)) \o S = Close
    BY <1>0, <1>9, <2>2, ConcatEmptySeq DEF Text
  <2> QED
    BY <1>2, <1>4, <1>6, <2>3
<1>10. CASE S # <<>> /\ Head(S) \notin {Newline, Return}
  <2>1. Gap(S) = <<Newline>>
    BY <1>10 DEF Gap, StartsWithBreak
  <2>2. Close \o Gap(S) = L(<<Newline>>)
    BY <2>1 DEF L
  <2> QED
    BY <1>3, <1>6, <2>2
<1>11. ASSUME S # <<>>, Head(S) \in {Newline, Return}
       PROVE  (Close \o Gap(S)) \o S = Close \o S
  <2>1. Gap(S) = <<>>
    BY <1>11 DEF Gap, StartsWithBreak
  <2> QED
    BY <1>4, <2>1 DEF L
<1>12. ASSUME S # <<>>, NEW k \in 1 .. l, NEW ending \in {<<Newline>>, <<Return, Newline>>},
              SubSeq(S, 1, k) = ending
       PROVE  Closing(Close \o S)
  <2> DEFINE t == SubSeq(S, k + 1, Len(S))
  <2>1. S = ending \o t /\ t \in Text /\ ending \in Text
    <3>1. k \in 0 .. Len(S)
      BY <1>7
    <3> QED
      BY <1>12, <3>1, CutFacts
  <2> HIDE DEF t
  <2>2. Closed(ending)
    <3>1. CASE ending = <<Newline>>
      BY <3>1 DEF Closed
    <3>2. CASE ending = <<Return, Newline>>
      BY <3>2 DEF Closed
    <3> QED
      BY <3>1, <3>2
  <2>3. Free(t)
    BY <2>1, <2>2, FreeRest
  <2>4. Close \o S = L(ending) \o t
    <3>1. PICK m \in Text, e \in Text, u \in Text : m = Close /\ e = ending /\ u = t
      BY <1>0, <2>1
    <3>2. (m \o e) \o u = m \o (e \o u)
      BY JoinAssociative
    <3> QED
      BY <2>1, <3>1, <3>2 DEF L
  <2> QED
    BY <1>3, <2>1, <2>3, <2>4
<1>13. S # <<>> => Head(S) = S[1] /\ 1 \in 1 .. l /\ l # 0
  BY <1>7, <1>8 DEF Text
<1>14. CASE S # <<>> /\ Head(S) = Newline
  <2>1. SubSeq(S, 1, 1) = <<Newline>>
    <3> DEFINE x == SubSeq(S, 1, 1)
    <3>1. x \in Text /\ Len(x) = 1 /\ x[1] = S[1]
      BY <1>7, <1>13, <1>14, SliceFacts
    <3> HIDE DEF x
    <3>2. x = <<Newline>>
      BY <1>0, <1>13, <1>14, <3>1, SeqEqual DEF Text
    <3> QED
      BY <3>2 DEF x
  <2>2. Closing(Close \o S)
    BY <1>12, <1>13, <1>14, <2>1
  <2> QED
    BY <1>6, <1>11, <1>14, <2>2
<1>15. CASE S # <<>> /\ Head(S) = Return /\ ~(l > 1)
  <2>1. S = <<Return>>
    <3>1. l = 1 /\ S[1] = Return
      BY <1>13, <1>15
    <3>2. <<Return>> \in Text /\ Len(<<Return>>) = 1 /\ <<Return>>[1] = Return
      BY <1>0
    <3>3. PICK y \in Text : y = <<Return>> /\ Len(y) = 1 /\ y[1] = Return
      BY <3>2
    <3>4. \A i \in 1 .. Len(S) : S[i] = y[i]
      BY <1>7, <3>1, <3>3
    <3>5. S = y
      BY <1>7, <3>1, <3>3, <3>4, SeqEqual DEF Text
    <3> QED
      BY <3>3, <3>5
  <2>2. Closing(Close \o S)
    BY <1>2, <2>1 DEF L
  <2> QED
    BY <1>6, <1>11, <1>15, <2>2
<1>16. CASE S # <<>> /\ Head(S) = Return /\ l > 1
  <2>1. S[2] = Newline
    BY <1>7, <1>16 DEF LoneReturn
  <2>2. SubSeq(S, 1, 2) = <<Return, Newline>>
    <3> DEFINE x == SubSeq(S, 1, 2)
               y == <<Return, Newline>>
    <3>1. 2 \in Nat /\ 2 <= Len(S)
      BY <1>7, <1>16
    <3>2. /\ x \in Text /\ Len(x) = IF 1 <= 2 THEN 2 - 1 + 1 ELSE 0
          /\ \A i \in 1 .. 2 - 1 + 1 : x[i] = S[1 + i - 1]
      BY <3>1, SliceFacts
    <3>3. x \in Text /\ Len(x) = 2 /\ x[1] = S[1] /\ x[2] = S[2]
      <4> HIDE DEF x
      <4> QED
        BY <3>2
    <3>4. y \in Text /\ Len(y) = 2 /\ y[1] = Return /\ y[2] = Newline
      BY <1>0
    <3> HIDE DEF x, y
    <3>5. \A i \in 1 .. Len(x) : x[i] = y[i]
      BY <1>13, <1>16, <2>1, <3>3, <3>4
    <3>6. x = y
      BY <3>3, <3>4, <3>5, SeqEqual DEF Text
    <3> QED
      BY <3>6 DEF x, y
  <2>3. Closing(Close \o S)
    <3>1. 2 \in 1 .. l
      BY <1>16
    <3> QED
      BY <1>12, <1>16, <2>2, <3>1
  <2> QED
    BY <1>6, <1>11, <1>16, <2>3
<1> QED
  BY <1>9, <1>10, <1>14, <1>15, <1>16

(* The reply as its four pieces.                                           *)
LEMMA ReplyInPieces ==
    ASSUME parser \in Parsers, Closed(parser.code)
    PROVE  SerializeAssistantText =
            parser.prefix \o ((Open \o <<Newline>>) \o
                (parser.code \o ((Close \o Gap(parser.suffix)) \o parser.suffix)))
<1>1. PICK P, A, N, C, M, G, S :
        /\ P = parser.prefix /\ C = parser.code /\ S = parser.suffix
        /\ A = Open /\ N = <<Newline>> /\ M = Close /\ G = Gap(S)
  OBVIOUS
<1>2. P \in Text /\ C \in Text /\ S \in Text
  BY <1>1 DEF Parsers
<1>3. A \in Text /\ M \in Text /\ N \in Text /\ G \in Text
  <2>1. <<Newline>> \in Text /\ <<>> \in Text
    BY DEF Text, Symbols, Newline
  <2>2. Close \in Text /\ Open \in Text
    BY DEF Close, Open, Text, Symbols
  <2>3. Gap(S) \in Text
    BY <2>1 DEF Gap
  <2> QED
    BY <1>1, <2>1, <2>2, <2>3
<1>4. PICK O : O = A \o N /\ O \in Text
  BY <1>3, JoinFacts
<1>5. PICK X : X = P \o O /\ X \in Text
  BY <1>2, <1>4, JoinFacts
<1>6. PICK Y : Y = X \o C /\ Y \in Text
  BY <1>2, <1>5, JoinFacts
<1>7. PICK H : H = M \o G /\ H \in Text
  BY <1>3, JoinFacts
<1>8. PICK T : T = H \o S /\ T \in Text
  BY <1>2, <1>7, JoinFacts
<1>9. PICK Z : Z = C \o T /\ Z \in Text
  BY <1>2, <1>8, JoinFacts
<1>10. (P \o A) \o N = P \o (A \o N)
  <2>1. P \in Text /\ A \in Text /\ N \in Text
    BY <1>2, <1>3
  <2> QED
    BY ONLY <2>1, JoinAssociative
<1>11. (Y \o M) \o G = Y \o (M \o G)
  <2>1. Y \in Text /\ M \in Text /\ G \in Text
    BY <1>3, <1>6
  <2> QED
    BY ONLY <2>1, JoinAssociative
<1>12. (Y \o H) \o S = Y \o (H \o S)
  <2>1. Y \in Text /\ H \in Text /\ S \in Text
    BY <1>2, <1>6, <1>7
  <2> QED
    BY ONLY <2>1, JoinAssociative
<1>13. (X \o C) \o T = X \o (C \o T)
  <2>1. X \in Text /\ C \in Text /\ T \in Text
    BY <1>2, <1>5, <1>8
  <2> QED
    BY ONLY <2>1, JoinAssociative
<1>14. (P \o O) \o Z = P \o (O \o Z)
  <2>1. P \in Text /\ O \in Text /\ Z \in Text
    BY <1>2, <1>4, <1>9
  <2> QED
    BY ONLY <2>1, JoinAssociative
<1>15. P \o A \o N = X
  BY ONLY <1>4, <1>5, <1>10
<1>16. P \o A \o N \o C \o M \o G \o S = ((Y \o M) \o G) \o S
  BY ONLY <1>6, <1>15
<1>17. ((Y \o M) \o G) \o S = Y \o T
  BY ONLY <1>7, <1>8, <1>11, <1>12
<1>18. Y \o T = P \o (O \o Z)
  BY ONLY <1>5, <1>6, <1>9, <1>13, <1>14
<1>19. P \o A \o N \o C \o M \o G \o S = P \o ((A \o N) \o (C \o ((M \o G) \o S)))
  BY ONLY <1>4, <1>7, <1>8, <1>9, <1>16, <1>17, <1>18
<1>20. SerializeAssistantText = P \o A \o N \o C \o M \o G \o S
  <2>1. C = <<>> \/ EndsWithBreak(C)
    BY <1>1 DEF Closed, EndsWithBreak, Last
  <2> QED
    BY <1>1, <2>1 DEF SerializeAssistantText
<1> QED
  BY ONLY <1>1, <1>19, <1>20

(* openai_conversion.py:80-100: for every reply with a block whose text    *)
(* after the block does not begin with a lone carriage return, the message *)
(* sent back to the provider reads as the same text before the same block. *)
THEOREM ReplyReadsBack == Spec => []ReplayKeepsBlock
<1>1. ASSUME ParserInv PROVE ReplayKeepsBlock
  <2> SUFFICES ASSUME finalized, parser.state = "AFTER_EXEC", ~LoneReturn(parser.suffix)
               PROVE  LET replayed == Parsed(SerializeAssistantText)
                      IN  /\ replayed.verdict = "exec"
                          /\ replayed.prefix = parser.prefix
                          /\ replayed.code = parser.code
    BY DEF ReplayKeepsBlock
  <2>1. raw \in Text /\ parser \in Parsers /\ OneBlock(parser, raw)
    BY <1>1 DEF ParserInv, Finished, Scanned
  <2>2. PICK P \in Text, C \in Text, S \in Text :
            P = parser.prefix /\ C = parser.code /\ S = parser.suffix
    BY <2>1 DEF Parsers
  <2>3. Closed(P) /\ Free(P) /\ Closed(C) /\ Free(C) /\ Free(S)
    BY <2>1, <2>2, BlockParts
  <2>4. SerializeAssistantText =
            P \o ((Open \o <<Newline>>) \o (C \o ((Close \o Gap(S)) \o S)))
    BY <2>1, <2>2, <2>3, ReplyInPieces
  <2>5. PICK O : /\ O = Open \o <<Newline>>
                 /\ Line(O) /\ Closed(O) /\ O \in MarkerLines(Open)
    BY TwoMarkers, WrittenMarker
  <2>6. PICK T \in Text : T = (Close \o Gap(S)) \o S /\ Closing(T)
    BY <2>2, <2>3, WrittenAfter
  <2>7. LET read == Parsed(P \o (O \o (C \o T)))
        IN  read.verdict = "exec" /\ read.prefix = P /\ read.code = C
    BY <2>3, <2>5, <2>6, WrittenBlock
  <2> QED
    BY <2>2, <2>4, <2>5, <2>6, <2>7
<1> QED
  BY ParserInvariant, <1>1, PTL
=============================================================================
