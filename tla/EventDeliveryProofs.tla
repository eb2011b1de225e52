------------------------- MODULE EventDeliveryProofs -------------------------
(***************************************************************************)
(* Proofs about EventDelivery, for any number of emits, handlers and       *)
(* cancellations: the order in which the sinks see the events, and what    *)
(* the loop's emit() waits for.                                            *)
(***************************************************************************)
EXTENDS EventDelivery, SequenceTheorems, TLAPS

Tasks == {Main} \cup Handlers \cup Nat

TypeOK ==
    /\ ready \in Seq(Tasks)
    /\ main \in {"io", "working", "awaiting", "giving"}
    /\ awaited \in Nat /\ sequence \in Nat /\ tail \in Nat
    /\ Events \subseteq 1 .. sequence
    /\ status \in [Events -> {"new", "giving", "done", "cancelled"}]
    /\ previous \in [Events -> Nat]
    /\ waiters \in [Events -> Seq(Tasks)]
    /\ cancelling \subseteq {Main} \cup Events
    /\ delivered \in Seq(Nat)

Done(k) == status[k] = "done"

(* Each delivery awaits the background event before its own; one that      *)
(* awaits nothing found all of them done.                                  *)
Chained ==
    \A k \in Events :
        /\ previous[k] = 0 => \A j \in Events : j < k => Done(j)
        /\ previous[k] # 0 =>
              /\ previous[k] \in Events /\ previous[k] < k
              /\ \A j \in Events : j < k => j <= previous[k]

(* The tail is the latest background event, or all of them are done.       *)
TailIsLast ==
    /\ tail = 0 => \A k \in Events : Done(k)
    /\ tail # 0 => tail \in Events /\ \A k \in Events : k <= tail

(* A delivery reaches the sinks after all those before it.                 *)
InTurn == \A j, k \in Events : j < k /\ status[k] \in {"giving", "done"} => Done(j)

Order == Chained /\ TailIsLast /\ InTurn

Once(s, e) == \A i, j \in DOMAIN s : s[i] = e /\ s[j] = e => i = j

(* The loop's task is in the ready queue once at most, and while it awaits *)
(* a delivery only when that one has ended; no other delivery that has not *)
(* ended will wake it.                                                     *)
Waiting ==
    /\ Once(ready, Main)
    /\ main = "io" => ~Contains(ready, Main)
    /\ main = "awaiting" => awaited \in Events /\ (Contains(ready, Main) => ~Pending(awaited))
    /\ \A k \in Events : Pending(k) /\ Contains(waiters[k], Main) =>
          main = "awaiting" /\ awaited = k /\ Once(waiters[k], Main)

(* While the loop awaits a delivery, a later one is cancelled only through *)
(* the one it awaits.                                                      *)
CancelledBefore ==
    main = "awaiting" =>
        \A k \in Events : awaited < k /\ (k \in cancelling \/ status[k] = "cancelled")
            => status[awaited] = "cancelled"

(* What the sinks have handled is what is done in the background, and what *)
(* the loop gave before the event that it gives now.                       *)
Given ==
    /\ \A k \in Events : Done(k) <=> Contains(delivered, k)
    /\ \A i \in DOMAIN delivered : delivered[i] \in 1 .. sequence
    /\ main = "giving" =>
          /\ awaited \in (1 .. sequence) \ Events
          /\ \A i \in DOMAIN delivered : delivered[i] \notin Events => delivered[i] < awaited

IInv == TypeOK /\ Order /\ Waiting /\ CancelledBefore /\ Given /\ OrderWithinSource

-----------------------------------------------------------------------------
(* Sequences.                                                              *)

(* What a queue holds after an Append.                                     *)
LEMMA AppendHolds ==
    ASSUME NEW S, NEW s \in Seq(S), NEW e \in S, NEW x
    PROVE  /\ Append(s, e) \in Seq(S)
           /\ Contains(Append(s, e), x) <=> Contains(s, x) \/ x = e
           /\ Once(s, x) /\ ~(x = e /\ Contains(s, x)) => Once(Append(s, e), x)
<1>1. /\ Len(Append(s, e)) = Len(s) + 1 /\ Len(s) \in Nat
      /\ Append(s, e)[Len(s) + 1] = e
      /\ \A i \in 1 .. Len(s) : Append(s, e)[i] = s[i]
      /\ DOMAIN s = 1 .. Len(s) /\ DOMAIN Append(s, e) = 1 .. (Len(s) + 1)
  OBVIOUS
<1>2. Append(s, e) \in Seq(S)
  OBVIOUS
<1>3. Contains(Append(s, e), x) <=> Contains(s, x) \/ x = e
  BY <1>1 DEF Contains
<1>4. ASSUME Once(s, x), ~(x = e /\ Contains(s, x)) PROVE Once(Append(s, e), x)
  BY <1>1, <1>4 DEF Once, Contains
<1> QED
  BY <1>2, <1>3, <1>4

(* What a queue holds once its head has run.                               *)
LEMMA TailHolds ==
    ASSUME NEW S, NEW s \in Seq(S), s # <<>>, NEW x
    PROVE  /\ Tail(s) \in Seq(S)
           /\ Contains(Tail(s), x) => Contains(s, x)
           /\ Contains(s, x) => Contains(Tail(s), x) \/ x = Head(s)
           /\ Once(s, x) => Once(Tail(s), x)
           /\ Once(s, x) /\ x = Head(s) => ~Contains(Tail(s), x)
<1>1. /\ Tail(s) \in Seq(S) /\ Len(s) \in Nat \ {0} /\ Head(s) = s[1]
      /\ Len(Tail(s)) = Len(s) - 1
      /\ DOMAIN s = 1 .. Len(s) /\ DOMAIN Tail(s) = 1 .. (Len(s) - 1)
      /\ \A i \in 1 .. (Len(s) - 1) : Tail(s)[i] = s[i + 1]
  BY HeadTailProperties
<1>2. Contains(Tail(s), x) => Contains(s, x)
  BY <1>1 DEF Contains
<1>3. ASSUME Contains(s, x), x # Head(s) PROVE Contains(Tail(s), x)
  <2>1. PICK i \in 1 .. Len(s) : s[i] = x
    BY <1>3 DEF Contains
  <2>2. i # 1 /\ i - 1 \in 1 .. (Len(s) - 1) /\ Tail(s)[i - 1] = x
    BY <1>1, <1>3, <2>1
  <2> QED
    BY <1>1, <2>2 DEF Contains
<1>4. ASSUME Once(s, x) PROVE Once(Tail(s), x)
  BY <1>1, <1>4 DEF Once
<1>5. ASSUME Once(s, x), x = Head(s) PROVE ~Contains(Tail(s), x)
  BY <1>1, <1>5 DEF Once, Contains
<1> QED
  BY <1>1, <1>2, <1>3, <1>4, <1>5

(* What a queue holds once a task's waiters have joined it.                *)
LEMMA ConcatHolds ==
    ASSUME NEW S, NEW s \in Seq(S), NEW t \in Seq(S), NEW x
    PROVE  /\ s \o t \in Seq(S)
           /\ Contains(s \o t, x) <=> Contains(s, x) \/ Contains(t, x)
           /\ Once(s, x) /\ Once(t, x) /\ ~(Contains(s, x) /\ Contains(t, x)) => Once(s \o t, x)
<1>1. /\ s \o t \in Seq(S) /\ Len(s) \in Nat /\ Len(t) \in Nat
      /\ Len(s \o t) = Len(s) + Len(t)
      /\ DOMAIN s = 1 .. Len(s) /\ DOMAIN t = 1 .. Len(t)
      /\ DOMAIN (s \o t) = 1 .. (Len(s) + Len(t))
      /\ \A i \in 1 .. (Len(s) + Len(t)) :
            (s \o t)[i] = IF i <= Len(s) THEN s[i] ELSE t[i - Len(s)]
  OBVIOUS
<1>2. Contains(s \o t, x) => Contains(s, x) \/ Contains(t, x)
  BY <1>1 DEF Contains
<1>3. Contains(s, x) => Contains(s \o t, x)
  BY <1>1 DEF Contains
<1>4. ASSUME Contains(t, x) PROVE Contains(s \o t, x)
  <2>1. PICK i \in 1 .. Len(t) : t[i] = x
    BY <1>4 DEF Contains
  <2>2. i + Len(s) \in 1 .. Len(s \o t) /\ (s \o t)[i + Len(s)] = x
    BY <1>1, <2>1
  <2> QED
    BY <2>2 DEF Contains
<1>5. ASSUME Once(s, x), Once(t, x), ~(Contains(s, x) /\ Contains(t, x))
      PROVE  Once(s \o t, x)
  BY <1>1, <1>5 DEF Once, Contains
<1> QED
  BY <1>1, <1>2, <1>3, <1>4, <1>5

-----------------------------------------------------------------------------
(* Steps.                                                                  *)

(* emit_background starts a delivery that awaits the tail and becomes it.  *)
LEMMA BackgroundStep ==
    ASSUME TypeOK, NEW h \in Handlers, EmitBackground(h)
    PROVE  LET n == sequence + 1 IN
           /\ ready # <<>> /\ Head(ready) # Main
           /\ ready' = Append(Tail(ready), n)
           /\ sequence' = n /\ tail' = n /\ n \notin Events
           /\ Events' = Events \cup {n}
           /\ status' \in [Events' -> {"new", "giving", "done", "cancelled"}]
           /\ previous' \in [Events' -> Nat]
           /\ waiters' \in [Events' -> Seq(Tasks)]
           /\ status'[n] = "new" /\ previous'[n] = tail /\ waiters'[n] = <<>>
           /\ \A k \in Events : /\ status'[k] = status[k] /\ previous'[k] = previous[k]
                                /\ waiters'[k] = waiters[k]
           /\ UNCHANGED <<main, awaited, cancelling, delivered>>
<1> DEFINE n == sequence + 1
<1>1. n \in Nat /\ n \notin Events
  BY DEF TypeOK
<1>2. /\ sequence' = n /\ tail' = n
      /\ status' = [y \in Events \cup {n} |-> IF y = n THEN "new" ELSE status[y]]
      /\ previous' = [y \in DOMAIN previous \cup {n} |-> IF y = n THEN tail ELSE previous[y]]
      /\ waiters' = [y \in DOMAIN waiters \cup {n} |-> IF y = n THEN <<>> ELSE waiters[y]]
  BY DEF EmitBackground, With, Events, Previous
<1>3. /\ ready # <<>> /\ Head(ready) # Main /\ ready' = Append(Tail(ready), n)
      /\ UNCHANGED <<main, awaited, cancelling, delivered>>
  BY <1>2, NamesAssumption DEF EmitBackground, Running
<1>4. Events' = Events \cup {n}
  BY <1>2 DEF Events
<1>5. <<>> \in Seq(Tasks)
  OBVIOUS
<1>6. DOMAIN previous = Events /\ DOMAIN waiters = Events
  BY DEF TypeOK
<1>7. status' \in [Events' -> {"new", "giving", "done", "cancelled"}]
  BY <1>1, <1>2, <1>4 DEF TypeOK
<1>8. previous' \in [Events' -> Nat]
  BY <1>1, <1>2, <1>4, <1>6 DEF TypeOK
<1>9. waiters' \in [Events' -> Seq(Tasks)]
  BY <1>1, <1>2, <1>4, <1>5, <1>6 DEF TypeOK
<1>10. /\ status'[n] = "new" /\ previous'[n] = tail /\ waiters'[n] = <<>>
       /\ \A k \in Events : /\ status'[k] = status[k] /\ previous'[k] = previous[k]
                            /\ waiters'[k] = waiters[k]
  BY <1>1, <1>2, <1>6
<1> QED
  BY <1>1, <1>2, <1>3, <1>4, <1>7, <1>8, <1>9, <1>10

(* What a step of a delivery may be: it waits for the one it awaits, it is *)
(* with the sinks, or it ends, handled or cancelled.                       *)
DeliveryGoes(k) ==
    /\ Running(k) /\ Pending(k)
    /\ Events' = Events
    /\ UNCHANGED <<main, awaited, sequence, tail, previous>>
    /\ \/ /\ \E p \in Events : /\ p = previous[k] /\ Pending(p)
                               /\ waiters' = [waiters EXCEPT ![p] = Append(@, k)]
          /\ ready' = Tail(ready)
          /\ UNCHANGED <<status, cancelling, delivered>>
       \/ /\ \A j \in Events : j < k => Done(j)
          /\ status' = [status EXCEPT ![k] = "giving"]
          /\ ready' = Tail(ready)
          /\ UNCHANGED <<waiters, cancelling, delivered>>
       \/ /\ \A j \in Events : j < k => Done(j)
          /\ Finish(k, "done")
          /\ delivered' = Append(delivered, k)
          /\ UNCHANGED waiters
       \/ /\ \/ k \in cancelling
             \/ previous[k] \in Events /\ status[previous[k]] = "cancelled"
          /\ Finish(k, "cancelled")
          /\ UNCHANGED <<waiters, delivered>>

(* deliver() goes on to the sinks only when the events before its own are  *)
(* done: the one it awaits is, and that one came after the others.         *)
LEMMA DeliveryStep ==
    ASSUME TypeOK, Order, NEW k \in Events, BeginDelivery(k) \/ EndDelivery(k)
    PROVE  DeliveryGoes(k)
<1>1. k \in Nat /\ previous[k] \in Nat /\ \A j \in Events : j \in Nat
  BY DEF TypeOK
<1>2. Events' = Events
  BY DEF BeginDelivery, EndDelivery, Finish, Events
<1>3. CASE BeginDelivery(k)
  <2>1. Running(k) /\ Pending(k) /\ UNCHANGED <<main, awaited, sequence, tail, previous>>
    BY <1>3 DEF BeginDelivery, Pending
  <2>2. ASSUME ~(previous[k] \in Events /\ status[previous[k]] = "cancelled"),
               ~Pending(previous[k])
        PROVE  \A j \in Events : j < k => Done(j)
    <3>1. CASE previous[k] = 0
      BY <3>1 DEF Order, Chained
    <3>2. CASE previous[k] # 0
      <4>1. previous[k] \in Events /\ Done(previous[k])
        BY <3>2, <2>2 DEF Order, Chained, Pending, TypeOK, Done
      <4> QED
        BY <1>1, <3>2, <4>1 DEF Order, Chained, InTurn, Done
    <3> QED
      BY <3>1, <3>2
  <2> QED
    BY <1>2, <1>3, <2>1, <2>2 DEF BeginDelivery, DeliveryGoes, Pending
<1>4. CASE EndDelivery(k)
  <2>1. \A j \in Events : j < k => Done(j)
    BY <1>4 DEF EndDelivery, Order, InTurn
  <2> QED
    BY <1>2, <1>4, <2>1 DEF EndDelivery, DeliveryGoes, Pending
<1> QED
  BY <1>3, <1>4

(* What emit() does once nothing it has to wait for is pending: it raises  *)
(* if the tail was cancelled, or numbers its event and gives it to the     *)
(* sinks, and then all background events up to the tail it found are done. *)
EmitGoes ==
    /\ Running(Main) /\ main \in {"working", "awaiting"}
    /\ UNCHANGED <<previous, status, waiters>>
    /\ cancelling' \subseteq cancelling
    /\ awaited' = sequence'
    /\ \/ /\ GoOn /\ UNCHANGED <<sequence, tail, delivered>>
       \/ /\ Give /\ tail' \in {tail, 0}
          /\ tail' = 0 => \A k \in Events : Done(k)
          /\ main = "awaiting" => Main \notin cancelling /\ Done(awaited)
          /\ main = "working" => \A k \in Events : Done(k)

(* emit() looks at the tail, or has awaited it: what it found is no longer *)
(* pending, and all background events up to a tail that is done are done.  *)
LEMMA EmitStep ==
    ASSUME TypeOK, Order, Waiting, EmitAtOnce \/ EmitAfterTail
    PROVE  EmitGoes
<1>1. tail \in Nat /\ \A j \in Events : j \in Nat
  BY DEF TypeOK
<1>2. ASSUME tail = 0 \/ (tail \in Events /\ Done(tail))
      PROVE  \A k \in Events : Done(k)
  BY <1>1, <1>2 DEF Order, TailIsLast, InTurn, Done
<1>3. CASE EmitAtOnce
  <2>1. /\ Running(Main) /\ main = "working" /\ ~Pending(tail) /\ awaited' = sequence'
        /\ UNCHANGED <<previous, status, waiters, cancelling>>
    BY <1>3 DEF EmitAtOnce, Busy
  <2>2. CASE tail \in Events /\ status[tail] = "cancelled"
    BY <1>3, <2>1, <2>2 DEF EmitAtOnce, Raised, TailAfterRaise, EmitGoes
  <2>3. CASE ~(tail \in Events /\ status[tail] = "cancelled")
    <3>1. tail = 0 \/ (tail \in Events /\ Done(tail))
      BY <2>1, <2>3 DEF Order, TailIsLast, Pending, TypeOK, Done
    <3> QED
      BY <1>2, <1>3, <2>1, <2>3, <3>1 DEF EmitAtOnce, EmitGoes
  <2> QED
    BY <2>2, <2>3
<1>4. CASE EmitAfterTail
  <2>1. /\ Running(Main) /\ main = "awaiting" /\ awaited' = sequence'
        /\ UNCHANGED <<previous, status, waiters>> /\ cancelling' \subseteq cancelling
    BY <1>4 DEF EmitAfterTail
  <2>2. awaited \in Events /\ ~Pending(awaited)
    <3>1. Contains(ready, Main)
      BY <2>1, HeadTailProperties DEF Running, Contains, TypeOK
    <3> QED
      BY <2>1, <3>1 DEF Waiting
  <2>3. CASE Main \in cancelling \/ status[awaited] = "cancelled"
    BY <1>4, <2>1, <2>3 DEF EmitAfterTail, Raised, TailAfterRaise, EmitGoes
  <2>4. CASE ~(Main \in cancelling \/ status[awaited] = "cancelled")
    <3>1. Done(awaited)
      BY <2>2, <2>4 DEF Pending, TypeOK, Done
    <3>2. Give /\ tail' = IF tail = awaited THEN 0 ELSE tail
      BY <1>4, <2>4 DEF EmitAfterTail, ClearTail
    <3>3. tail' = 0 => \A k \in Events : Done(k)
      BY <1>1, <1>2, <2>2, <3>1, <3>2
    <3> QED
      BY <2>1, <2>4, <3>1, <3>2, <3>3 DEF EmitGoes
  <2> QED
    BY <2>3, <2>4
<1> QED
  BY <1>3, <1>4

(* The steps that leave the deliveries and what was delivered alone.       *)
LEMMA OtherStep ==
    ASSUME MainReady \/ SinkReturns \/ CancelMain \/ Quiet \/ UNCHANGED vars
           \/ \E h \in Handlers : HandlerReady(h)
    PROVE  UNCHANGED <<awaited, sequence, tail, previous, status, waiters, delivered>>
BY DEF MainReady, SinkReturns, CancelMain, Quiet, HandlerReady, vars

(* Every step is one of these.                                             *)
LEMMA Steps ==
    ASSUME TypeOK, Order, Waiting, [Next]_vars
    PROVE  \/ \E h \in Handlers : EmitBackground(h)
           \/ \E k \in Events : DeliveryGoes(k)
           \/ EmitGoes
           \/ AwaitTail
           \/ EndEmit
           \/ MainReady \/ SinkReturns \/ CancelMain \/ Quiet \/ UNCHANGED vars
              \/ \E h \in Handlers : HandlerReady(h)
BY DeliveryStep, EmitStep DEF Next, RunTask

(* The ready queue after a step.                                           *)
LEMMA ReadyTypes ==
    ASSUME TypeOK, Order, Waiting, [Next]_vars
    PROVE  ready' \in Seq(Tasks)
<1>1. ASSUME ready # <<>> PROVE Tail(ready) \in Seq(Tasks)
  BY <1>1, TailHolds DEF TypeOK
<1>2. ASSUME NEW e \in Tasks PROVE Append(ready, e) \in Seq(Tasks)
  BY DEF TypeOK
<1>3. CASE \E h \in Handlers : EmitBackground(h)
  <2>1. PICK h \in Handlers : EmitBackground(h)
    BY <1>3
  <2>2. ready # <<>> /\ ready' = Append(Tail(ready), sequence + 1) /\ sequence + 1 \in Tasks
    BY <2>1, BackgroundStep DEF TypeOK, Tasks
  <2>3. Tail(ready) \in Seq(Tasks)
    BY <1>1, <2>2
  <2> QED
    BY <2>2, <2>3, AppendHolds
<1>4. CASE \E k \in Events : DeliveryGoes(k)
  <2>1. PICK k \in Events : DeliveryGoes(k)
    BY <1>4
  <2>2. ready # <<>> /\ waiters[k] \in Seq(Tasks)
    BY <2>1 DEF DeliveryGoes, Running, TypeOK
  <2>3. Tail(ready) \in Seq(Tasks) /\ Tail(ready) \o waiters[k] \in Seq(Tasks)
    BY <1>1, <2>2, ConcatHolds
  <2> QED
    BY <2>1, <2>3 DEF DeliveryGoes, Finish
<1>5. CASE EmitGoes \/ AwaitTail \/ EndEmit
  BY <1>1, <1>5, SMTT(30) DEF EmitGoes, Give, GoOn, AwaitTail, EndEmit, Running
<1>6. CASE MainReady \/ \E h \in Handlers : HandlerReady(h)
  BY <1>2, <1>6 DEF Tasks, MainReady, HandlerReady
<1>7. CASE SinkReturns
  <2>1. PICK task \in Events \cup {Main} : ready' = Append(ready, task)
    BY <1>7 DEF SinkReturns
  <2>2. task \in Tasks
    BY DEF TypeOK, Tasks
  <2> QED
    BY <1>2, <2>1, <2>2 DEF TypeOK
<1>8. CASE CancelMain
  <2>1. PICK task \in Events \cup {Main} : ready' \in {ready, Append(ready, task)}
    BY <1>8 DEF CancelMain
  <2>2. task \in Tasks
    BY DEF TypeOK, Tasks
  <2> QED
    BY <1>2, <2>1, <2>2 DEF TypeOK
<1>9. CASE Quiet \/ UNCHANGED vars
  BY <1>9 DEF Quiet, vars, TypeOK
<1> QED
  BY Steps, <1>3, <1>4, <1>5, <1>6, <1>7, <1>8, <1>9

(* Types are kept.                                                         *)
LEMMA Types ==
    ASSUME TypeOK, Order, Waiting, [Next]_vars
    PROVE  TypeOK'
<1>1. ready' \in Seq(Tasks)
  BY ReadyTypes
<1>2. CASE \E h \in Handlers : EmitBackground(h)
  <2>1. PICK h \in Handlers : EmitBackground(h)
    BY <1>2
  <2>2. /\ sequence' = sequence + 1 /\ tail' = sequence' /\ Events' = Events \cup {sequence'}
        /\ status' \in [Events' -> {"new", "giving", "done", "cancelled"}]
        /\ previous' \in [Events' -> Nat]
        /\ waiters' \in [Events' -> Seq(Tasks)]
        /\ UNCHANGED <<main, awaited, cancelling, delivered>>
    BY <2>1, BackgroundStep
  <2>3. Events' \subseteq 1 .. sequence'
    BY <2>2 DEF TypeOK
  <2> QED
    BY <1>1, <2>2, <2>3 DEF TypeOK
<1>3. CASE \E k \in Events : DeliveryGoes(k)
  <2>1. PICK k \in Events : DeliveryGoes(k)
    BY <1>3
  <2>2. k \in Nat /\ k \in Tasks
    BY DEF TypeOK, Tasks
  <2>3. delivered' \in Seq(Nat)
    <3>1. Append(delivered, k) \in Seq(Nat)
      BY <2>2 DEF TypeOK
    <3> QED
      BY <2>1, <3>1 DEF TypeOK, DeliveryGoes
  <2>4. waiters' \in [Events' -> Seq(Tasks)]
    <3>1. ASSUME NEW q \in Events PROVE Append(waiters[q], k) \in Seq(Tasks)
      BY <2>2 DEF TypeOK
    <3> QED
      BY <2>1, <3>1 DEF TypeOK, DeliveryGoes
  <2>5. status' \in [Events' -> {"new", "giving", "done", "cancelled"}]
    BY <2>1 DEF TypeOK, DeliveryGoes, Finish
  <2> QED
    BY <1>1, <2>1, <2>3, <2>4, <2>5 DEF TypeOK, DeliveryGoes, Finish
<1>4. CASE EmitGoes
  <2>1. sequence' \in {sequence, sequence + 1} /\ main' \in {"io", "working", "giving"}
        /\ tail' \in {tail, 0}
    BY <1>4 DEF EmitGoes, Give, GoOn
  <2>2. delivered' \in Seq(Nat)
    <3>1. Append(delivered, sequence') \in Seq(Nat)
      BY <2>1 DEF TypeOK
    <3> QED
      BY <1>4, <3>1 DEF TypeOK, EmitGoes, Give
  <2>3. UNCHANGED <<previous, status, waiters>> /\ Events' = Events
        /\ cancelling' \subseteq cancelling /\ awaited' = sequence'
    BY <1>4 DEF EmitGoes, Events
  <2> QED
    BY <1>1, <2>1, <2>2, <2>3 DEF TypeOK
<1>5. CASE AwaitTail
  <2>1. tail \in Events /\ Events' = Events
    BY <1>5 DEF AwaitTail, Busy, Pending, Events
  <2>2. Append(waiters[tail], Main) \in Seq(Tasks)
    BY <2>1 DEF TypeOK, Tasks
  <2>3. waiters' \in [Events' -> Seq(Tasks)]
    BY <1>5, <2>1, <2>2 DEF TypeOK, AwaitTail
  <2> QED
    BY <1>1, <1>5, <2>1, <2>3 DEF TypeOK, AwaitTail
<1>6. CASE EndEmit
  <2>1. delivered' \in Seq(Nat)
    BY <1>6 DEF TypeOK, EndEmit
  <2> QED
    BY <1>1, <1>6, <2>1 DEF TypeOK, EndEmit, GoOn, Events
<1>7. CASE \/ MainReady \/ SinkReturns \/ CancelMain \/ Quiet \/ UNCHANGED vars
           \/ \E h \in Handlers : HandlerReady(h)
  <2>1. UNCHANGED <<awaited, sequence, tail, previous, status, waiters, delivered>>
        /\ Events' = Events
    BY <1>7, OtherStep DEF Events
  <2>2. main' \in {main, "working"}
    BY <1>7 DEF MainReady, SinkReturns, CancelMain, Quiet, HandlerReady, vars
  <2>3. cancelling' \subseteq {Main} \cup Events
    BY <1>7 DEF MainReady, SinkReturns, CancelMain, Quiet, HandlerReady, vars, TypeOK
  <2> QED
    BY <1>1, <2>1, <2>2, <2>3 DEF TypeOK
<1> QED
  BY Steps, <1>2, <1>3, <1>4, <1>5, <1>6, <1>7

(* The background events keep their order: a new one comes after all, and  *)
(* a delivery ends or goes to the sinks when those before it are done.     *)
LEMMA OrderKept ==
    ASSUME TypeOK, Order, Waiting, [Next]_vars
    PROVE  Order'
<1>1. sequence \in Nat /\ tail \in Nat /\ \A j \in Events : j \in Nat /\ j < sequence + 1
  BY DEF TypeOK
<1>2. CASE \E h \in Handlers : EmitBackground(h)
  <2>1. PICK h \in Handlers : EmitBackground(h)
    BY <1>2
  <2> DEFINE n == sequence + 1
  <2>2. /\ Events' = Events \cup {n} /\ tail' = n /\ n \notin Events
        /\ status'[n] = "new" /\ previous'[n] = tail
        /\ \A k \in Events : status'[k] = status[k] /\ previous'[k] = previous[k]
    BY <2>1, BackgroundStep
  <2>3. n \in Nat /\ n # 0 /\ \A j \in Events : j < n /\ ~(n < j)
    BY <1>1
  <2> HIDE DEF n
  <2>4. Chained'
    <3> SUFFICES ASSUME NEW k \in Events'
                 PROVE  /\ previous'[k] = 0 => \A j \in Events' : j < k => Done(j)'
                        /\ previous'[k] # 0 =>
                              /\ previous'[k] \in Events' /\ previous'[k] < k
                              /\ \A j \in Events' : j < k => j <= previous'[k]
      BY DEF Chained
    <3>1. CASE k = n
      BY <1>1, <2>2, <2>3, <3>1 DEF Order, TailIsLast, Done
    <3>2. CASE k \in Events
      <4>1. \A j \in Events' : j < k => j \in Events
        BY <2>2, <2>3, <3>2
      <4> QED
        BY <2>2, <3>2, <4>1 DEF Order, Chained, Done
    <3> QED
      BY <2>2, <3>1, <3>2
  <2>5. TailIsLast'
    BY <1>1, <2>2, <2>3 DEF TailIsLast
  <2>6. InTurn'
    BY <2>2, <2>3 DEF Order, InTurn, Done
  <2> QED
    BY <2>4, <2>5, <2>6 DEF Order
<1>3. CASE \E k \in Events : DeliveryGoes(k)
  <2>1. PICK k \in Events : DeliveryGoes(k)
    BY <1>3
  <2>2. /\ Events' = Events /\ UNCHANGED <<previous, tail>> /\ k \in Nat /\ ~Done(k)
        /\ \A j \in Events \ {k} : status'[j] = status[j]
        /\ status'[k] \in {"giving", "done"} /\ status'[k] # status[k]
              => \A j \in Events : j < k => Done(j)
    BY <1>1, <2>1 DEF DeliveryGoes, Finish, Pending, TypeOK, Done
  <2>3. \A j \in Events : Done(j) => Done(j)'
    BY <2>2 DEF Done
  <2>4. Chained' /\ TailIsLast'
    BY <2>2, <2>3 DEF Order, Chained, TailIsLast
  <2>5. InTurn'
    BY <1>1, <2>2, <2>3 DEF Order, InTurn
  <2> QED
    BY <2>4, <2>5 DEF Order
<1>4. CASE EmitGoes
  <2>1. UNCHANGED <<previous, status>> /\ Events' = Events
        /\ tail' \in {tail, 0} /\ (tail' = 0 => tail = 0 \/ \A k \in Events : Done(k))
    BY <1>4 DEF EmitGoes, Events
  <2> QED
    BY <2>1 DEF Order, Chained, TailIsLast, InTurn, Done
<1>5. CASE \/ AwaitTail \/ EndEmit
           \/ MainReady \/ SinkReturns \/ CancelMain \/ Quiet \/ UNCHANGED vars
           \/ \E h \in Handlers : HandlerReady(h)
  <2>1. UNCHANGED <<previous, status, tail>> /\ Events' = Events
    BY <1>5, OtherStep DEF AwaitTail, EndEmit, Events
  <2> QED
    BY <2>1 DEF Order, Chained, TailIsLast, InTurn, Done
<1> QED
  BY Steps, <1>2, <1>3, <1>4, <1>5

(* What the sinks have handled stays what is done, in order.               *)
LEMMA GivenKept ==
    ASSUME IInv, [Next]_vars
    PROVE  Given' /\ OrderWithinSource'
<1>1. TypeOK /\ Order /\ Waiting /\ Given /\ OrderWithinSource
  BY DEF IInv
<1>2. sequence \in Nat /\ delivered \in Seq(Nat) /\ \A j \in Events : j \in Nat /\ j < sequence + 1
  BY <1>1 DEF TypeOK
<1>3. CASE \E h \in Handlers : EmitBackground(h)
  <2>1. PICK h \in Handlers : EmitBackground(h)
    BY <1>3
  <2> DEFINE n == sequence + 1
  <2>2. /\ Events' = Events \cup {n} /\ n \notin Events /\ sequence' = n
        /\ status'[n] = "new" /\ \A k \in Events : status'[k] = status[k]
        /\ UNCHANGED <<main, awaited, delivered>>
    BY <1>1, <2>1, BackgroundStep
  <2>3. \A i \in DOMAIN delivered :
           delivered[i] \in 1 .. n /\ delivered[i] # n
           /\ (delivered[i] \in Events' <=> delivered[i] \in Events)
    BY <1>1, <1>2, <2>2 DEF Given
  <2>4. ~Contains(delivered, n)
    BY <1>2, <2>3 DEF Contains
  <2>5. Given'
    BY <1>1, <1>2, <2>2, <2>3, <2>4 DEF Given, Done, Contains, TypeOK
  <2>6. OrderWithinSource'
    BY <1>1, <2>2, <2>3 DEF OrderWithinSource, Background
  <2> QED
    BY <2>5, <2>6
<1>4. ASSUME NEW e \in 1 .. sequence', sequence' \in Nat, sequence' >= sequence,
             Events' = Events,
             delivered' = Append(delivered, e), \A k \in Events : Done(k)' <=> Done(k) \/ k = e,
             main' # "giving",
             \A i \in DOMAIN delivered : (delivered[i] \in Events <=> e \in Events)
                 => delivered[i] < e
      PROVE  Given' /\ OrderWithinSource'
  <2>1. e \in Nat /\ sequence' \in Nat
    BY <1>4
  <2>2. /\ Len(delivered') = Len(delivered) + 1 /\ Len(delivered) \in Nat
        /\ DOMAIN delivered = 1 .. Len(delivered) /\ DOMAIN delivered' = 1 .. Len(delivered) + 1
        /\ \A i \in 1 .. Len(delivered) : delivered'[i] = delivered[i]
        /\ delivered'[Len(delivered) + 1] = e
    BY <1>2, <1>4, <2>1
  <2>3. \A k \in Events : Contains(delivered', k) <=> Contains(delivered, k) \/ k = e
    BY <2>2 DEF Contains
  <2>4. \A i \in DOMAIN delivered' : delivered'[i] \in 1 .. sequence'
    BY <1>1, <1>2, <1>4, <2>1, <2>2 DEF Given
  <2>5. Given'
    BY <1>1, <1>4, <2>3, <2>4 DEF Given
  <2>6. OrderWithinSource'
    BY <1>1, <1>2, <1>4, <2>1, <2>2 DEF OrderWithinSource, Background
  <2> QED
    BY <2>5, <2>6
<1>5. CASE \E k \in Events : DeliveryGoes(k)
  <2>1. PICK k \in Events : DeliveryGoes(k)
    BY <1>5
  <2>2. Events' = Events /\ UNCHANGED <<main, awaited, sequence>> /\ ~Done(k) /\ k \in Nat
    BY <1>2, <2>1 DEF DeliveryGoes, Pending, Done
  <2>3. CASE delivered' = delivered
    <3>1. \A j \in Events : Done(j)' <=> Done(j)
      BY <1>1, <2>1, <2>2, <2>3 DEF DeliveryGoes, Finish, Done, TypeOK
    <3> QED
      BY <1>1, <2>2, <2>3, <3>1 DEF Given, OrderWithinSource, Background
  <2>4. CASE delivered' # delivered
    <3>1. /\ delivered' = Append(delivered, k) /\ status' = [status EXCEPT ![k] = "done"]
          /\ \A j \in Events : j < k => Done(j)
      BY <2>1, <2>4 DEF DeliveryGoes, Finish
    <3>2. \A j \in Events : Done(j)' <=> Done(j) \/ j = k
      BY <1>1, <3>1 DEF Done, TypeOK
    <3>3. \A i \in DOMAIN delivered : delivered[i] \in Events => delivered[i] < k
      <4> SUFFICES ASSUME NEW i \in DOMAIN delivered, delivered[i] \in Events
                   PROVE  delivered[i] < k
        OBVIOUS
      <4>1. Done(delivered[i])
        BY <1>1, <1>2 DEF Given, Contains
      <4>2. ~(k < delivered[i])
        BY <1>1, <2>2, <4>1 DEF Order, InTurn, Done
      <4> QED
        BY <1>2, <2>2, <4>1, <4>2
    <3>4. CASE main # "giving"
      <4>1. k \in 1 .. sequence' /\ sequence' \in Nat /\ sequence' >= sequence
        BY <1>2, <1>1, <2>2 DEF TypeOK
      <4> QED
        BY <1>2, <1>4, <2>2, <3>1, <3>2, <3>3, <3>4, <4>1
    <3>5. CASE main = "giving"
      <4>1. /\ Len(delivered') = Len(delivered) + 1 /\ Len(delivered) \in Nat
            /\ DOMAIN delivered = 1 .. Len(delivered)
            /\ DOMAIN delivered' = 1 .. Len(delivered) + 1
            /\ \A i \in 1 .. Len(delivered) : delivered'[i] = delivered[i]
            /\ delivered'[Len(delivered) + 1] = k
        BY <1>2, <2>2, <3>1
      <4>2. \A j \in Events : Contains(delivered', j) <=> Contains(delivered, j) \/ j = k
        BY <4>1 DEF Contains
      <4>3. \A i \in DOMAIN delivered' :
               delivered'[i] \in 1 .. sequence
               /\ (delivered'[i] \notin Events => delivered'[i] < awaited)
        <5>1. k \in 1 .. sequence
          BY <1>1 DEF TypeOK
        <5> QED
          BY <1>1, <3>5, <4>1, <5>1 DEF Given
      <4>4. Given'
        BY <1>1, <2>2, <3>2, <3>5, <4>2, <4>3 DEF Given
      <4>5. OrderWithinSource'
        BY <1>1, <1>2, <2>2, <3>3, <4>1 DEF OrderWithinSource, Background
      <4> QED
        BY <4>4, <4>5
    <3> QED
      BY <3>4, <3>5
  <2> QED
    BY <2>3, <2>4
<1>6. CASE EmitGoes
  <2>1. UNCHANGED status /\ Events' = Events /\ awaited' = sequence' /\ main # "giving"
    BY <1>6 DEF EmitGoes, Events
  <2>2. CASE UNCHANGED <<sequence, delivered>> /\ GoOn
    BY <1>1, <2>1, <2>2 DEF GoOn, Given, OrderWithinSource, Background, Done
  <2>3. CASE Give
    <3>1. sequence' = sequence + 1 /\ sequence' \notin Events
      BY <1>2, <2>3 DEF Give
    <3>2. \A i \in DOMAIN delivered : delivered[i] \in 1 .. sequence' /\ delivered[i] < sequence'
      BY <1>1, <1>2, <3>1 DEF Given
    <3>3. CASE delivered' = Append(delivered, sequence') /\ GoOn
      <4>1. sequence' \in 1 .. sequence' /\ sequence' \in Nat /\ sequence' >= sequence
        BY <1>2, <3>1
      <4>2. main' # "giving"
        BY <3>3 DEF GoOn
      <4>3. \A k \in Events : Done(k)' <=> Done(k) \/ k = sequence'
        BY <2>1, <3>1 DEF Done
      <4> QED
        BY <1>4, <2>1, <3>2, <3>3, <4>1, <4>2, <4>3
    <3>4. CASE main' = "giving" /\ UNCHANGED delivered
      BY <1>1, <1>2, <2>1, <3>1, <3>2, <3>4 DEF Given, OrderWithinSource, Background, Done
    <3> QED
      BY <2>3, <3>3, <3>4 DEF Give
  <2> QED
    BY <1>6, <2>2, <2>3 DEF EmitGoes
<1>7. CASE EndEmit
  <2>1. /\ main = "giving" /\ main' # "giving" /\ UNCHANGED <<awaited, sequence, status>>
        /\ Events' = Events
    BY <1>7 DEF EndEmit, GoOn, Events
  <2>2. CASE delivered' = delivered
    BY <1>1, <2>1, <2>2 DEF Given, OrderWithinSource, Background, Done
  <2>3. CASE delivered' = Append(delivered, awaited)
    <3>1. awaited \in 1 .. sequence' /\ awaited \notin Events
          /\ sequence' \in Nat /\ sequence' >= sequence
          /\ \A i \in DOMAIN delivered : delivered[i] \notin Events => delivered[i] < awaited
      BY <1>1, <1>2, <2>1 DEF Given
    <3>2. \A k \in Events : Done(k)' <=> Done(k) \/ k = awaited
      BY <2>1, <3>1 DEF Done
    <3> QED
      BY <1>2, <1>4, <2>1, <2>3, <3>1, <3>2
  <2> QED
    BY <1>7, <2>2, <2>3 DEF EndEmit
<1>8. CASE \/ AwaitTail
           \/ MainReady \/ SinkReturns \/ CancelMain \/ Quiet \/ UNCHANGED vars
           \/ \E h \in Handlers : HandlerReady(h)
  <2>1. UNCHANGED <<sequence, status, delivered>> /\ Events' = Events
    BY <1>8, OtherStep DEF AwaitTail, Events
  <2>2. main' = "giving" => main = "giving" /\ UNCHANGED awaited
    BY <1>8, OtherStep
    DEF AwaitTail, MainReady, SinkReturns, CancelMain, Quiet, HandlerReady, vars
  <2> QED
    BY <1>1, <2>1, <2>2 DEF Given, OrderWithinSource, Background, Done
<1> QED
  BY Steps, <1>1, <1>3, <1>5, <1>6, <1>7, <1>8

(* The loop's task is woken once, by the delivery it awaits.               *)
LEMMA WaitingKept ==
    ASSUME TypeOK, Order, Waiting, [Next]_vars
    PROVE  Waiting'
<1>1. /\ ready \in Seq(Tasks) /\ Main \in Tasks
      /\ \A k \in Events : k \in Tasks /\ k # Main /\ waiters[k] \in Seq(Tasks)
  BY NamesAssumption DEF TypeOK, Tasks
<1>2. ASSUME ready # <<>>
      PROVE  /\ Tail(ready) \in Seq(Tasks) /\ Once(Tail(ready), Main)
             /\ Contains(Tail(ready), Main) => Contains(ready, Main)
             /\ Head(ready) = Main => ~Contains(Tail(ready), Main) /\ Contains(ready, Main)
  <2>1. Head(ready) = Main => Contains(ready, Main)
    BY <1>1, <1>2, HeadTailProperties DEF Contains
  <2> QED
    BY <1>1, <1>2, <2>1, TailHolds DEF Waiting
<1>3. ASSUME NEW q \in Seq(Tasks), NEW e \in Tasks, e # Main
      PROVE  /\ Contains(Append(q, e), Main) <=> Contains(q, Main)
             /\ Once(q, Main) => Once(Append(q, e), Main)
  BY <1>1, <1>3, AppendHolds
<1>4. CASE \E h \in Handlers : EmitBackground(h)
  <2>1. PICK h \in Handlers : EmitBackground(h)
    BY <1>4
  <2> DEFINE n == sequence + 1
  <2>2. /\ ready # <<>> /\ ready' = Append(Tail(ready), n) /\ Events' = Events \cup {n}
        /\ n \notin Events /\ waiters'[n] = <<>>
        /\ \A k \in Events : status'[k] = status[k] /\ waiters'[k] = waiters[k]
        /\ UNCHANGED <<main, awaited>>
    BY <2>1, BackgroundStep
  <2>3. n \in Tasks /\ n # Main
    BY NamesAssumption DEF TypeOK, Tasks
  <2>4. Once(ready', Main) /\ (Contains(ready', Main) => Contains(ready, Main))
    BY <1>2, <1>3, <2>2, <2>3
  <2>5. ~Contains(waiters'[n], Main)
    BY <2>2 DEF Contains
  <2>6. \A k \in Events : Pending(k)' <=> Pending(k)
    BY <2>2 DEF Pending
  <2> QED
    BY <2>2, <2>4, <2>5, <2>6 DEF Waiting
<1>5. CASE \E k \in Events : DeliveryGoes(k)
  <2>1. PICK k \in Events : DeliveryGoes(k)
    BY <1>5
  <2>2. /\ ready # <<>> /\ Head(ready) = k /\ Pending(k) /\ Events' = Events
        /\ UNCHANGED <<main, awaited>>
    BY <2>1 DEF DeliveryGoes, Running
  <2>3. \A j \in Events : Pending(j)' => Pending(j)
    BY <2>2, <2>1 DEF DeliveryGoes, Finish, Pending, TypeOK
  <2>4. CASE ready' = Tail(ready)
    <3>1. Once(ready', Main) /\ (Contains(ready', Main) => Contains(ready, Main))
      BY <1>2, <2>2, <2>4
    <3>2. \A j \in Events : Pending(j)' /\ Contains(waiters'[j], Main) =>
             Contains(waiters[j], Main) /\ (Once(waiters[j], Main) => Once(waiters'[j], Main))
      <4>1. CASE UNCHANGED waiters
        BY <4>1
      <4>2. CASE \E q \in Events : waiters' = [waiters EXCEPT ![q] = Append(@, k)]
        BY <1>1, <1>3, <4>2 DEF TypeOK
      <4> QED
        BY <2>1, <4>1, <4>2 DEF DeliveryGoes
    <3> QED
      BY <2>2, <2>3, <3>1, <3>2 DEF Waiting
  <2>5. CASE ready' = Tail(ready) \o waiters[k] /\ UNCHANGED waiters /\ ~Pending(k)'
    <3>1. Contains(waiters[k], Main) =>
             main = "awaiting" /\ awaited = k /\ Once(waiters[k], Main) /\ ~Contains(ready, Main)
      BY <2>2 DEF Waiting
    <3>2. Contains(ready', Main) <=> Contains(Tail(ready), Main) \/ Contains(waiters[k], Main)
      BY <1>1, <1>2, <2>2, <2>5, ConcatHolds
    <3>3. Once(ready', Main)
      <4>1. ~Contains(waiters[k], Main) => Once(waiters[k], Main)
        BY <1>1 DEF Once, Contains
      <4> QED
        BY <1>1, <1>2, <2>2, <2>5, <3>1, <4>1, ConcatHolds
    <3> QED
      BY <1>2, <2>2, <2>3, <2>5, <3>1, <3>2, <3>3 DEF Waiting
  <2> QED
    <3>1. ASSUME status'[k] \in {"done", "cancelled"} PROVE ~Pending(k)'
      BY <3>1 DEF Pending
    <3> QED
      BY <2>1, <2>4, <2>5, <3>1 DEF DeliveryGoes, Finish, TypeOK
<1>6. CASE EmitGoes \/ EndEmit
  <2>1. /\ ready # <<>> /\ Head(ready) = Main /\ main' # "awaiting"
        /\ UNCHANGED <<status, waiters>> /\ Events' = Events
        /\ \/ main' \in {"io", "giving"} /\ ready' = Tail(ready)
           \/ main' = "working" /\ ready' = ready
    BY <1>6 DEF EmitGoes, EndEmit, Give, GoOn, Running, Events
  <2>2. \A k \in Events : Pending(k)' => Pending(k)
    BY <2>1 DEF Pending
  <2>3. \A k \in Events : ~(Pending(k) /\ Contains(waiters[k], Main))
    BY <1>2, <2>1 DEF Waiting
  <2>4. Once(ready', Main) /\ (main' = "io" => ~Contains(ready', Main))
    BY <1>2, <2>1 DEF Waiting
  <2> QED
    BY <2>1, <2>2, <2>3, <2>4 DEF Waiting
<1>7. CASE AwaitTail
  <2>1. /\ ready # <<>> /\ Head(ready) = Main /\ ready' = Tail(ready) /\ main # "awaiting"
        /\ main' = "awaiting" /\ awaited' = tail /\ tail \in Events /\ Events' = Events
        /\ UNCHANGED status /\ waiters' = [waiters EXCEPT ![tail] = Append(@, Main)]
        /\ Pending(tail)
    BY <1>7 DEF AwaitTail, Busy, Running, Pending, Events
  <2>2. ~Contains(ready', Main) /\ Once(ready', Main)
    BY <1>2, <2>1
  <2>3. ~Contains(waiters[tail], Main)
    BY <2>1 DEF Waiting
  <2>4. Once(waiters[tail], Main)
    BY <1>1, <2>1, <2>3 DEF Once, Contains
  <2>5. Once(waiters'[tail], Main)
    BY <1>1, <2>1, <2>3, <2>4, AppendHolds DEF TypeOK
  <2>6. \A k \in Events : Pending(k)' => Pending(k)
    BY <2>1 DEF Pending
  <2>7. \A k \in Events \ {tail} : waiters'[k] = waiters[k]
    BY <2>1 DEF TypeOK
  <2> QED
    BY <2>1, <2>2, <2>5, <2>6, <2>7 DEF Waiting
<1>8. CASE MainReady
  <2>1. /\ main = "io" /\ main' = "working" /\ ready' = Append(ready, Main)
        /\ UNCHANGED <<status, waiters, awaited>> /\ Events' = Events
    BY <1>8 DEF MainReady, Events
  <2>2. Once(ready', Main)
    BY <1>1, <2>1, AppendHolds DEF Waiting
  <2>3. \A k \in Events : Pending(k)' => Pending(k)
    BY <2>1 DEF Pending
  <2> QED
    BY <2>1, <2>2, <2>3 DEF Waiting
<1>9. CASE \/ SinkReturns \/ CancelMain \/ Quiet \/ UNCHANGED vars
           \/ \E h \in Handlers : HandlerReady(h)
  <2>1. UNCHANGED <<main, awaited, status, waiters>> /\ Events' = Events
    BY <1>9, OtherStep DEF SinkReturns, CancelMain, Quiet, HandlerReady, vars, Events
  <2>2. \A k \in Events : Pending(k)' <=> Pending(k)
    BY <2>1 DEF Pending
  <2>3. \/ ready' = ready
        \/ \E e \in Tasks : ready' = Append(ready, e) /\ e # Main
        \/ ready' = Append(ready, Main) /\ ~Contains(ready, Main) /\ main = "giving"
    <3>1. CASE SinkReturns
      BY <1>1, <3>1, NamesAssumption DEF SinkReturns, InSink
    <3>2. CASE CancelMain
      BY <1>1, <3>2 DEF CancelMain
    <3>3. CASE Quiet \/ UNCHANGED vars
      BY <3>3 DEF Quiet, vars
    <3>4. CASE \E h \in Handlers : HandlerReady(h)
      BY <3>4, NamesAssumption DEF HandlerReady, Tasks
    <3> QED
      BY <1>9, <3>1, <3>2, <3>3, <3>4
  <2>4. /\ Once(ready', Main)
        /\ main # "giving" => (Contains(ready', Main) => Contains(ready, Main))
    <3>1. Once(ready, Main)
      BY DEF Waiting
    <3>2. CASE \E e \in Tasks : ready' = Append(ready, e) /\ e # Main
      BY <1>1, <1>3, <3>1, <3>2
    <3>3. CASE ready' = Append(ready, Main) /\ ~Contains(ready, Main) /\ main = "giving"
      BY <1>1, <3>1, <3>3, AppendHolds
    <3> QED
      BY <2>3, <3>1, <3>2, <3>3
  <2> QED
    BY <2>1, <2>2, <2>4 DEF Waiting
<1> QED
  BY Steps, <1>4, <1>5, <1>6, <1>7, <1>8, <1>9

(* A delivery later than the one the loop awaits is not cancelled by       *)
(* itself.                                                                 *)
LEMMA CancelledKept ==
    ASSUME IInv, [Next]_vars
    PROVE  CancelledBefore'
<1>1. /\ TypeOK /\ Order /\ Waiting /\ CancelledBefore
      /\ cancelling \subseteq {Main} \cup Events /\ sequence \in Nat
      /\ \A k \in Events : k \in Nat
  BY DEF IInv, TypeOK
<1>2. CASE \E h \in Handlers : EmitBackground(h)
  <2>1. PICK h \in Handlers : EmitBackground(h)
    BY <1>2
  <2> DEFINE n == sequence + 1
  <2>2. /\ Events' = Events \cup {n} /\ n \notin Events /\ status'[n] = "new"
        /\ \A k \in Events : status'[k] = status[k]
        /\ UNCHANGED <<main, awaited, cancelling>>
    BY <1>1, <2>1, BackgroundStep
  <2>3. n \notin cancelling
    BY <1>1, <2>2, NamesAssumption
  <2>4. main = "awaiting" => awaited \in Events
    BY <1>1 DEF Waiting
  <2> QED
    BY <1>1, <2>2, <2>3, <2>4 DEF CancelledBefore
<1>3. CASE \E k \in Events : DeliveryGoes(k)
  <2>1. PICK k \in Events : DeliveryGoes(k)
    BY <1>3
  <2>2. /\ Events' = Events /\ UNCHANGED <<main, awaited>> /\ cancelling' \subseteq cancelling
        /\ Pending(k)
        /\ \A j \in Events \ {k} : status'[j] = status[j]
        /\ status'[k] = "cancelled" =>
              k \in cancelling \/ (previous[k] \in Events /\ status[previous[k]] = "cancelled")
    BY <1>1, <2>1 DEF DeliveryGoes, Finish, Pending, TypeOK
  <2> SUFFICES ASSUME main = "awaiting", NEW j \in Events, awaited < j,
                      j \in cancelling' \/ status'[j] = "cancelled"
               PROVE  status'[awaited] = "cancelled"
    BY <2>2 DEF CancelledBefore
  <2>3. awaited \in Events
    BY <1>1 DEF Waiting
  <2>4. status[awaited] = "cancelled" => status'[awaited] = "cancelled"
    BY <2>2, <2>3 DEF Pending
  <2>5. CASE j \in cancelling \/ status[j] = "cancelled"
    BY <1>1, <2>3, <2>4, <2>5 DEF CancelledBefore
  <2>6. CASE ~(j \in cancelling \/ status[j] = "cancelled")
    <3>1. j = k /\ previous[k] \in Events /\ status[previous[k]] = "cancelled"
      BY <2>2, <2>6
    <3>2. awaited <= previous[k] /\ previous[k] \in Nat /\ awaited \in Nat
      <4>1. previous[k] \in 1 .. sequence /\ awaited < k /\ awaited \in Nat
        BY <1>1, <2>3, <3>1 DEF TypeOK
      <4>2. \A i \in Events : i < k => i <= previous[k]
        BY <1>1, <4>1 DEF Order, Chained
      <4> QED
        BY <1>1, <2>3, <4>1, <4>2
    <3>3. status[awaited] = "cancelled"
      BY <1>1, <3>1, <3>2 DEF CancelledBefore
    <3> QED
      BY <2>4, <3>3
  <2> QED
    BY <2>5, <2>6
<1>4. CASE EmitGoes \/ EndEmit \/ MainReady
  BY <1>4 DEF EmitGoes, EndEmit, MainReady, Give, GoOn, CancelledBefore
<1>5. CASE AwaitTail
  <2>1. /\ awaited' = tail /\ tail \in Events /\ Events' = Events
    BY <1>5 DEF AwaitTail, Busy, Pending, Events
  <2>2. \A k \in Events : k <= tail
    BY <1>1, <2>1 DEF Order, TailIsLast, Done, TypeOK, Pending
  <2> QED
    BY <1>1, <2>1, <2>2 DEF CancelledBefore
<1>6. CASE CancelMain
  <2>1. UNCHANGED <<main, awaited, status>> /\ Events' = Events
    BY <1>6 DEF CancelMain, Events
  <2>2. \A k \in cancelling' : k \in cancelling \/ k = Main \/ k <= awaited
    BY <1>6 DEF CancelMain
  <2>3. \A k \in Events : k # Main
    BY <1>1, NamesAssumption
  <2>4. main = "awaiting" => awaited \in Nat
    BY <1>1 DEF TypeOK
  <2> QED
    BY <1>1, <2>1, <2>2, <2>3, <2>4 DEF CancelledBefore
<1>7. CASE SinkReturns \/ Quiet \/ UNCHANGED vars \/ \E h \in Handlers : HandlerReady(h)
  BY <1>1, <1>7 DEF SinkReturns, Quiet, vars, HandlerReady, CancelledBefore, Events
<1> QED
  BY <1>1, Steps, <1>2, <1>3, <1>4, <1>5, <1>6, <1>7

-----------------------------------------------------------------------------

(* The invariant holds initially and every step keeps it.                  *)
LEMMA Invariant == Spec => []IInv
<1>1. Init => IInv
  <2> SUFFICES ASSUME Init PROVE IInv
    OBVIOUS
  <2>1. Events = {} /\ <<>> \in Seq(Tasks) /\ <<>> \in Seq(Nat)
    BY DEF Init, Events
  <2>2. TypeOK
    BY <2>1 DEF Init, TypeOK, Events
  <2>3. Order /\ Waiting
    BY <2>1 DEF Init, Order, Chained, TailIsLast, InTurn, Waiting, Once, Contains
  <2>4. CancelledBefore /\ Given /\ OrderWithinSource
    BY <2>1 DEF Init, CancelledBefore, Given, OrderWithinSource
  <2> QED
    BY <2>2, <2>3, <2>4 DEF IInv
<1>2. IInv /\ [Next]_vars => IInv'
  BY Types, OrderKept, WaitingKept, CancelledKept, GivenKept DEF IInv
<1> QED
  BY <1>1, <1>2, PTL DEF Spec

(* session.py:30-77: whatever is cancelled and however slow the sinks are, *)
(* no event is handled twice, and the loop's events and the background     *)
(* events are each handled in their order.                                 *)
THEOREM SourcesInOrder == Spec => []OrderWithinSource
BY Invariant, PTL DEF IInv

(* emit() that awaited the tail numbers its event when all the deliveries  *)
(* that were pending when it was called have been handled.                 *)
THEOREM EmitWaits == Spec => WaitsForPending
<1>1. IInv /\ [Next]_vars =>
        [(main = "awaiting" /\ main' # "awaiting" /\ sequence' # sequence) =>
            \A k \in Events : k <= awaited => Contains(delivered, k)]_vars
  <2> SUFFICES ASSUME IInv, [Next]_vars, main = "awaiting", main' # "awaiting",
                      sequence' # sequence
               PROVE  \A k \in Events : k <= awaited => Contains(delivered, k)
    OBVIOUS
  <2>1. TypeOK /\ Order /\ Waiting /\ Given
    BY DEF IInv
  <2>2. EmitGoes
    <3>1. ~\E h \in Handlers : EmitBackground(h)
      BY DEF EmitBackground
    <3>2. ~\E k \in Events : DeliveryGoes(k)
      BY DEF DeliveryGoes
    <3> QED
      BY <2>1, <3>1, <3>2, Steps, OtherStep DEF AwaitTail, EndEmit
  <2>3. awaited \in Events /\ Done(awaited)
    BY <2>1, <2>2 DEF EmitGoes, Waiting
  <2>4. \A k \in Events : k <= awaited => Done(k)
    BY <2>1, <2>3 DEF Order, InTurn, Done, TypeOK
  <2> QED
    BY <2>1, <2>4 DEF Given
<1> QED
  BY <1>1, Invariant, PTL DEF Spec, WaitsForPending

(* Once a delivery has been cancelled, every later emit() of the loop      *)
(* raises: the events it has numbered stay the same.                       *)
THEOREM TailStaysDead == Spec => DeadTailStaysDead
<1>1. IInv /\ [Next]_vars =>
        [(\E k \in Events : status[k] = "cancelled")
            => (1 .. sequence') \ DOMAIN status' = (1 .. sequence) \ Events]_vars
  <2> SUFFICES ASSUME IInv, [Next]_vars, NEW k \in Events, status[k] = "cancelled"
               PROVE  (1 .. sequence') \ Events' = (1 .. sequence) \ Events
    BY DEF Events
  <2>1. TypeOK /\ Order /\ Waiting /\ CancelledBefore /\ sequence \in Nat
        /\ \A j \in Events : j \in Nat
    BY DEF IInv, TypeOK
  <2>2. CASE \E h \in Handlers : EmitBackground(h)
    <3>1. sequence' = sequence + 1 /\ Events' = Events \cup {sequence + 1}
      BY <2>1, <2>2, BackgroundStep
    <3> QED
      BY <2>1, <3>1
  <2>3. CASE EmitGoes
    <3>1. CASE Give
      <4>1. ~(main = "working" /\ \A j \in Events : Done(j))
        BY DEF Done
      <4>2. ASSUME main = "awaiting", Done(awaited) PROVE FALSE
        <5>1. awaited \in Events
          BY <2>1, <4>2 DEF Waiting
        <5>2. ~(awaited < k)
          BY <2>1, <4>2 DEF CancelledBefore, Done
        <5>3. ~(k < awaited)
          BY <2>1, <4>2, <5>1 DEF Order, InTurn, Done
        <5> QED
          BY <2>1, <4>2, <5>1, <5>2, <5>3 DEF Done
      <4>3. UNCHANGED sequence
        BY <2>3, <4>1, <4>2 DEF EmitGoes
      <4> QED
        BY <2>3, <4>3 DEF EmitGoes, Events
    <3>2. CASE UNCHANGED sequence
      BY <2>3, <3>2 DEF EmitGoes, Events
    <3> QED
      BY <2>3, <3>1, <3>2 DEF EmitGoes
  <2>4. CASE UNCHANGED sequence /\ Events' = Events
    BY <2>4
  <2>5. CASE \E j \in Events : DeliveryGoes(j)
    BY <2>4, <2>5 DEF DeliveryGoes
  <2>6. CASE \/ AwaitTail \/ EndEmit
             \/ MainReady \/ SinkReturns \/ CancelMain \/ Quiet \/ UNCHANGED vars
             \/ \E h \in Handlers : HandlerReady(h)
    BY <2>4, <2>6, OtherStep DEF AwaitTail, EndEmit, Events
  <2> QED
    BY <2>1, Steps, <2>2, <2>3, <2>5, <2>6
<1> QED
  BY <1>1, Invariant, PTL DEF Spec, DeadTailStaysDead
=============================================================================
