---------------------------- MODULE EventDelivery ----------------------------
(***************************************************************************)
(* AgentSession's event delivery (agent/session.py) on the tasks of one    *)
(* asyncio loop.  The loop's task emits in the foreground and awaits the   *)
(* delivery tail; tool handlers emit in the background, each with a task   *)
(* that awaits the tail it found.  asyncio runs ready tasks first in first *)
(* out, and a task that ends makes those that await it ready.  An event    *)
(* and the task that delivers it in the background are both named by the   *)
(* event's sequence number.                                                *)
(***************************************************************************)
EXTENDS Naturals, Sequences, SequencesExt

CONSTANTS
    Main,           \* the loop's task
    Handlers,       \* tool calls, each of which emits one background event
    SlowSinks,      \* a sink may suspend; the terminal's and the trace's do not
    MaxEmits,       \* emit() calls of the loop
    MaxCancels      \* cancellations of the loop

ASSUME ConstantsAssumption ==
    SlowSinks \in BOOLEAN /\ MaxEmits \in Nat /\ MaxCancels \in Nat

(* A task is the loop's, a handler's or, named by a number, a delivery's.  *)
ASSUME NamesAssumption == Main \notin Nat \cup Handlers /\ Handlers \cap Nat = {}

VARIABLES
    ready,          \* asyncio's ready queue; its head is the running task
    main,           \* the loop's task: "io", "working", "awaiting" or "giving"
    awaited,        \* the tail the loop's task awaits, then the event it gives
    arrived,        \* handlers whose request has been received
    sequence,       \* EventFactory._sequence
    tail,           \* AgentSession._delivery_tail, 0 for None
    previous,       \* deliver()'s previous, by event; foreground events have none
    status,         \* "new", "giving", "done" or "cancelled", by background event
    waiters,        \* the tasks that await a delivery, in the order they began to
    cancelling,     \* tasks that will be thrown CancelledError when they next run
    delivered,      \* what the sinks have handled, in order
    emits, cancels

vars == <<ready, main, awaited, arrived, sequence, tail, previous, status, waiters, cancelling,
          delivered, emits, cancels>>

Events == DOMAIN status         \* the background events

Init ==
    /\ ready = <<>>
    /\ main = "io"
    /\ awaited = 0
    /\ arrived = {}
    /\ sequence = 0
    /\ tail = 0
    /\ previous = <<>> /\ status = <<>> /\ waiters = <<>>
    /\ cancelling = {}
    /\ delivered = <<>>
    /\ emits = 0 /\ cancels = 0

Running(task) == ready # <<>> /\ Head(ready) = task

With(f, x, value) == [y \in DOMAIN f \cup {x} |-> IF y = x THEN value ELSE f[y]]

Pending(k) == k \in Events /\ status[k] \in {"new", "giving"}

-----------------------------------------------------------------------------
(* What makes tasks ready from outside: a socket, a timer.                 *)

MainReady ==
    /\ main = "io"
    /\ emits < MaxEmits
    /\ main' = "working"
    /\ ready' = Append(ready, Main)
    /\ UNCHANGED <<awaited, arrived, sequence, tail, previous, status, waiters, cancelling,
                   delivered, emits, cancels>>

HandlerReady(h) ==
    /\ h \notin arrived
    /\ arrived' = arrived \cup {h}
    /\ ready' = Append(ready, h)
    /\ UNCHANGED <<main, awaited, sequence, tail, previous, status, waiters, cancelling,
                   delivered, emits, cancels>>

-----------------------------------------------------------------------------
(* emit_background                                                         *)

(* Variant: the delivery does not await the one before it.                 *)
PreviousIgnored == 0

(* Variant: the tail is looked up when the delivery runs, and is its own.  *)
PreviousLookedUpLate == sequence + 1

Previous == tail

EmitBackground(h) ==
    /\ Running(h)
    /\ sequence' = sequence + 1
    /\ previous' = With(previous, sequence', Previous)
    /\ status' = With(status, sequence', "new")
    /\ waiters' = With(waiters, sequence', <<>>)
    /\ tail' = sequence'
    /\ ready' = Append(Tail(ready), sequence')
    /\ UNCHANGED <<main, awaited, arrived, cancelling, delivered, emits, cancels>>

Finish(k, how) ==
    /\ status' = [status EXCEPT ![k] = how]
    /\ ready' = Tail(ready) \o waiters[k]
    /\ cancelling' = cancelling \ {k}

(* deliver(), up to the sink or to the await of previous.                  *)
BeginDelivery(k) ==
    /\ Running(k) /\ status[k] = "new"
    /\ LET p == previous[k]
           raised == k \in cancelling \/ (p \in Events /\ status[p] = "cancelled")
       IN \/ /\ raised
             /\ Finish(k, "cancelled")
             /\ UNCHANGED <<waiters, delivered>>
          \/ /\ ~raised /\ Pending(p)
             /\ waiters' = [waiters EXCEPT ![p] = Append(@, k)]
             /\ ready' = Tail(ready)
             /\ UNCHANGED <<status, cancelling, delivered>>
          \/ /\ ~raised /\ ~Pending(p)
             /\ delivered' = Append(delivered, k)
             /\ Finish(k, "done")
             /\ UNCHANGED waiters
          \/ /\ ~raised /\ ~Pending(p) /\ SlowSinks
             /\ status' = [status EXCEPT ![k] = "giving"]
             /\ ready' = Tail(ready)
             /\ UNCHANGED <<waiters, cancelling, delivered>>
    /\ UNCHANGED <<main, awaited, arrived, sequence, tail, previous, emits, cancels>>

(* The sink's await has ended.                                             *)
EndDelivery(k) ==
    /\ Running(k) /\ status[k] = "giving"
    /\ IF k \in cancelling
         THEN Finish(k, "cancelled") /\ UNCHANGED delivered
         ELSE Finish(k, "done") /\ delivered' = Append(delivered, k)
    /\ UNCHANGED <<main, awaited, arrived, sequence, tail, previous, waiters, emits, cancels>>

-----------------------------------------------------------------------------
(* emit, with wait_until_idle                                              *)

(* After an emit the loop goes on to the next or waits for something else. *)
GoOn ==
    /\ emits' = emits + 1
    /\ \/ main' = "io" /\ ready' = Tail(ready)
       \/ emits' < MaxEmits /\ main' = "working" /\ ready' = ready

Give ==
    /\ sequence' = sequence + 1
    /\ \/ delivered' = Append(delivered, sequence') /\ GoOn
       \/ /\ SlowSinks
          /\ main' = "giving" /\ ready' = Tail(ready)
          /\ UNCHANGED <<delivered, emits>>

(* Variant: the tail is cleared although awaiting it raised.               *)
TailAfterRaiseCleared == 0

TailAfterRaise == tail

Raised == GoOn /\ tail' = TailAfterRaise /\ UNCHANGED <<sequence, delivered>>

Busy == Pending(tail)

EmitAtOnce ==
    /\ Running(Main) /\ main = "working" /\ ~Busy
    /\ IF tail \in Events /\ status[tail] = "cancelled"
         THEN Raised
         ELSE Give /\ tail' = 0
    /\ awaited' = sequence'
    /\ UNCHANGED <<arrived, previous, status, waiters, cancelling, cancels>>

AwaitTail ==
    /\ Running(Main) /\ main = "working" /\ Busy
    /\ main' = "awaiting"
    /\ awaited' = tail
    /\ waiters' = [waiters EXCEPT ![tail] = Append(@, Main)]
    /\ ready' = Tail(ready)
    /\ UNCHANGED <<arrived, sequence, tail, previous, status, cancelling, delivered, emits,
                   cancels>>

(* Variant: the tail is cleared even if it has moved on.                   *)
ClearTailAlways == 0

ClearTail == IF tail = awaited THEN 0 ELSE tail

(* The tail is done: it is cleared if it is still the one awaited, and not *)
(* looked at again.                                                        *)
EmitAfterTail ==
    /\ Running(Main) /\ main = "awaiting"
    /\ cancelling' = cancelling \ {Main}
    /\ IF Main \in cancelling \/ status[awaited] = "cancelled"
         THEN Raised
         ELSE Give /\ tail' = ClearTail
    /\ awaited' = sequence'
    /\ UNCHANGED <<arrived, previous, status, waiters, cancels>>

(* The sink's await has ended, with CancelledError if the loop was         *)
(* cancelled in it.                                                        *)
EndEmit ==
    /\ Running(Main) /\ main = "giving"
    /\ delivered' = IF Main \in cancelling THEN delivered ELSE Append(delivered, awaited)
    /\ cancelling' = cancelling \ {Main}
    /\ GoOn
    /\ UNCHANGED <<awaited, arrived, sequence, tail, previous, status, waiters, cancels>>

-----------------------------------------------------------------------------
(* What the sinks and the deadline do.                                     *)

InSink(task) ==
    \/ task = Main /\ main = "giving"
    \/ task \in Events /\ status[task] = "giving"

SinkReturns ==
    /\ \E task \in Events \cup {Main} :
          /\ InSink(task) /\ ~Contains(ready, task)
          /\ ready' = Append(ready, task)
    /\ UNCHANGED <<main, awaited, arrived, sequence, tail, previous, status, waiters, cancelling,
                   delivered, emits, cancels>>

(* Task.cancel() of the loop: passed on along the awaits to the first task *)
(* that awaits no other, which is thrown the exception when it runs.       *)
CancelMain ==
    /\ main \in {"awaiting", "giving"}
    /\ cancels < MaxCancels
    /\ cancels' = cancels + 1
    /\ LET chain == {k \in Events :
                        k <= awaited /\ Pending(k) /\ (Contains(ready, k) \/ InSink(k))}
           targets == IF main = "giving" \/ Contains(ready, Main) THEN {Main}
                      ELSE {k \in chain : \A j \in chain : j <= k}
       IN \E target \in targets :
            /\ cancelling' = cancelling \cup {target}
            /\ ready' = IF Contains(ready, target) THEN ready ELSE Append(ready, target)
    /\ UNCHANGED <<main, awaited, arrived, sequence, tail, previous, status, waiters, delivered,
                   emits>>

-----------------------------------------------------------------------------

RunTask ==
    \/ \E h \in Handlers : EmitBackground(h)
    \/ \E k \in Events : BeginDelivery(k) \/ EndDelivery(k)
    \/ EmitAtOnce \/ AwaitTail \/ EmitAfterTail \/ EndEmit

(* Nothing is ready and nothing more will come: asyncio waits for ever, be *)
(* it because all is done or because tasks await each other.               *)
Quiet ==
    /\ ready = <<>> /\ arrived = Handlers
    /\ main = "awaiting" \/ (main = "io" /\ emits = MaxEmits)
    /\ \A k \in Events : ~InSink(k)
    /\ UNCHANGED vars

Next ==
    \/ RunTask \/ MainReady \/ SinkReturns \/ CancelMain \/ Quiet
    \/ \E h \in Handlers : HandlerReady(h)

Spec == Init /\ [][Next]_vars

(* asyncio runs the head of its queue, and every sink returns.             *)
FairSpec == Spec /\ WF_vars(RunTask) /\ WF_vars(SinkReturns)

-----------------------------------------------------------------------------

Background(k) == k \in Events

(* Whatever is cancelled and however slow the sinks are, no event is       *)
(* handled twice, the loop's own events are handled in their order and     *)
(* the background events in theirs.                                        *)
OrderWithinSource ==
    \A i, j \in DOMAIN delivered :
        i < j => \/ delivered[i] < delivered[j]
                 \/ Background(delivered[i]) /\ ~Background(delivered[j])
                 \/ ~Background(delivered[i]) /\ Background(delivered[j])

(* emit() waits for what was pending when it was called: once it has got   *)
(* a number for its event, all of that has been handled.                   *)
WaitsForPending ==
    [][(main = "awaiting" /\ main' # "awaiting" /\ sequence' # sequence) =>
        \A k \in Events : k <= awaited => Contains(delivered, k)]_vars

(* The "dead" tail of AgentLoop: once a delivery has been cancelled, the   *)
(* loop never again emits an event of its own, whatever has been emitted   *)
(* in the background since.                                                *)
DeadTailStaysDead ==
    [][(\E k \in Events : status[k] = "cancelled")
        => (1 .. sequence') \ DOMAIN status' = (1 .. sequence) \ Events]_vars

(* PLAN 7.1 and test_agent_loop.py:187: sinks see ascending sequence       *)
(* numbers.                                                                *)
DeliveredInSequence ==
    \A i, j \in DOMAIN delivered : i < j => delivered[i] < delivered[j]

(* Every background event reaches the sinks, or its delivery was           *)
(* cancelled with the loop.                                                *)
EveryEventSettles ==
    \A k \in 1 .. (MaxEmits + 3) :
        (k \in Events) ~> (Contains(delivered, k) \/ (k \in Events /\ status[k] = "cancelled"))
=============================================================================
