------------------------- MODULE JupyterKernelProofs -------------------------
(***************************************************************************)
(* Proofs about JupyterKernel, for any number of cells, messages and       *)
(* processes: that it keeps the contract AgentLoop is built on, and that   *)
(* what it answers is complete and leaves nothing running.                 *)
(***************************************************************************)
EXTENDS JupyterKernel, SequenceTheorems, TLAPS

(* The places of a call, as far as the contract tells them apart.          *)
LEMMA CallStates ==
    /\ pc \in {"collect", "reply"} => CallState = "execute"
    /\ pc \in {"interrupt", "grace"} => CallState = "recover"
    /\ pc \in {"kill", "boot", "install"} => CallState = pc
    /\ pc \notin {"collect", "reply", "interrupt", "grace", "kill", "boot", "install"} =>
           CallState = "idle"
BY DEF CallState

(* The same after a step.                                                  *)
LEMMA CallStatesNext ==
    /\ pc' \in {"collect", "reply"} => CallState' = "execute"
    /\ pc' \in {"interrupt", "grace"} => CallState' = "recover"
    /\ pc' \in {"kill", "boot", "install"} => CallState' = pc'
    /\ pc' \notin {"collect", "reply", "interrupt", "grace", "kill", "boot", "install"} =>
           CallState' = "idle"
BY DEF CallState

(* A step that leaves the call where it stands is none of the contract's.  *)
LEMMA SameCall ==
    ASSUME UNCHANGED <<pc, generation, process>>
    PROVE  UNCHANGED Contract!vars
BY DEF Contract!vars, CallState

(* What the process does by itself is no step of a call.                   *)
LEMMA ProcessRefines ==
    ASSUME Publish \/ FinishCell \/ Die \/ ReadOn \/ Down \/ UNCHANGED vars
    PROVE  UNCHANGED Contract!vars
BY SameCall DEF Publish, FinishCell, Die, ReadOn, Read, Down, callVars, vars

(* Nor is starting the kernel or shutting it down.                         *)
LEMMA LifeRefines ==
    ASSUME Start \/ Started \/ StartFails \/ Shutdown
    PROVE  UNCHANGED Contract!vars
<1>1. CallState = "idle" /\ CallState' = "idle"
  BY CallStates, CallStatesNext DEF Start, Started, InstallTools, StartFails, Shutdown, Free
<1>2. UNCHANGED <<generation, process>>
  BY DEF Start, Started, InstallTools, StartFails, Shutdown
<1> QED
  BY <1>1, <1>2 DEF Contract!vars

(* Each step of execute is the contract's step of that name, or none.      *)
LEMMA ExecuteRefines ==
    ASSUME Execute \/ ReadIdle \/ ReadReply \/ TimeOut \/ Cancelled \/ DeathDetected
    PROVE  Contract!Next \/ UNCHANGED Contract!vars
<1> USE CallStates, CallStatesNext DEF Contract!Goto
<1>1. CASE Execute
  <2>1. Contract!Submit
    BY <1>1 DEF Execute, Free, Contract!Submit
  <2> QED
    BY <2>1 DEF Contract!Next
<1>2. CASE ReadIdle
  BY <1>2 DEF ReadIdle, Read, Contract!vars
<1>3. CASE ReadReply
  <2>1. Contract!Finish
    BY <1>3 DEF ReadReply, Contract!Finish
  <2> QED
    BY <2>1 DEF Contract!Next
<1>4. CASE TimeOut \/ Cancelled
  <2>1. Contract!Overrun
    BY <1>4 DEF TimeOut, TimeOutRecovers, Cancelled, Move, Contract!Overrun
  <2> QED
    BY <2>1 DEF Contract!Next
<1>5. CASE DeathDetected
  <2>1. Contract!Replace
    BY <1>5 DEF DeathDetected, Move, Contract!Replace
  <2> QED
    BY <2>1 DEF Contract!Next
<1> QED
  BY <1>1, <1>2, <1>3, <1>4, <1>5

(* So is each step of _interrupt_and_wait.                                 *)
LEMMA RecoveryRefines ==
    ASSUME InterruptKernel \/ GraceIdle \/ GraceExpires
    PROVE  Contract!Next \/ UNCHANGED Contract!vars
<1> USE CallStates, CallStatesNext DEF Contract!Goto
<1>1. CASE InterruptKernel
  BY <1>1 DEF InterruptKernel, Move, Contract!vars
<1>2. CASE GraceIdle
  <2>1. Contract!Settle
    BY <1>2 DEF GraceIdle, Read, Contract!Settle
  <2> QED
    BY <2>1 DEF Contract!Next
<1>3. CASE GraceExpires
  <2>1. Contract!Replace
    BY <1>3 DEF GraceExpires, Move, Contract!Replace
  <2> QED
    BY <2>1 DEF Contract!Next
<1> QED
  BY <1>1, <1>2, <1>3

(* And each step of _replace_kernel.                                       *)
LEMMA ReplacementRefines ==
    ASSUME Restart \/ RestartProcess \/ Ready \/ ToolsInstalled
    PROVE  Contract!Next \/ UNCHANGED Contract!vars
<1> USE CallStates, CallStatesNext DEF Contract!Goto
<1>1. CASE Restart
  <2>1. Contract!Replace
    BY <1>1 DEF Restart, Move, Free, Contract!Replace
  <2> QED
    BY <2>1 DEF Contract!Next
<1>2. CASE RestartProcess
  <2>1. Contract!Kill
    BY <1>2 DEF RestartProcess, EndProcess, Contract!Kill
  <2> QED
    BY <2>1 DEF Contract!Next
<1>3. CASE Ready
  <2>1. Contract!Ready
    BY <1>3 DEF Ready, NextGeneration, InstallTools, Contract!Ready
  <2> QED
    BY <2>1 DEF Contract!Next
<1>4. CASE ToolsInstalled /\ pc = "install"
  <2>1. Contract!Installed
    BY <1>4 DEF ToolsInstalled, Read, Contract!Installed
  <2> QED
    BY <2>1 DEF Contract!Next
<1>5. CASE ToolsInstalled /\ pc = "first_install"
  BY <1>5 DEF ToolsInstalled, Read, Contract!vars
<1> QED
  BY <1>1, <1>2, <1>3, <1>4, <1>5 DEF ToolsInstalled

(* An exception ends a call of the contract, but not the first start.      *)
LEMMA AbandonRefines ==
    ASSUME Abandon
    PROVE  Contract!Next \/ UNCHANGED Contract!vars
<1> USE CallStates, CallStatesNext
<1>1. pc' \in {"abandoned", "raised"} /\ CallState' = "idle"
  BY DEF Abandon
<1>2. /\ generation' = generation
      /\ process' \in IF pc = "kill" THEN {process, process + 1} ELSE {process}
  BY DEF Abandon, EndProcess
<1>3. CASE pc = "first_install"
  BY <1>1, <1>2, <1>3 DEF Contract!vars
<1>4. CASE pc # "first_install"
  <2>1. pc \in {"collect", "reply", "interrupt", "grace", "kill", "boot", "install"}
    BY <1>4 DEF Abandon, MayBeCancelled
  <2>2. CallState # "idle" /\ (CallState = "kill" <=> pc = "kill")
    BY <2>1
  <2>3. Contract!Abandon
    BY <1>1, <1>2, <2>2 DEF Contract!Abandon
  <2> QED
    BY <2>3 DEF Contract!Next
<1> QED
  BY <1>3, <1>4

(* JupyterKernel implements what the loop relies on: whatever the process, *)
(* the clocks and the cancellations do, the call it is in goes only where  *)
(* KernelContract lets it go, and the generation and the process change    *)
(* only where the contract says.                                           *)
THEOREM KernelImplementsContract == Spec => ImplementsContract
<1>1. Init => Contract!Init
  BY CallStates DEF Init, Contract!Init
<1>2. [Next]_vars => [Contract!Next]_(Contract!vars)
  BY ProcessRefines, LifeRefines, ExecuteRefines, RecoveryRefines, ReplacementRefines,
     AbandonRefines
  DEF Next, Call
<1> QED
  BY <1>1, <1>2, PTL DEF Spec, ImplementsContract, Contract!Spec

-----------------------------------------------------------------------------
(* The channels, in order.  A cell's messages end with its idle status,    *)
(* and a cell sent later is published later.                               *)

Places ==
    {"unstarted", "starting", "first_install", "down", "free", "abandoned", "raised",
     "collect", "reply", "interrupt", "grace", "kill", "boot", "install"}

Messages == [cell : Nat, kind : {"output", "idle"}]

TypeOK ==
    /\ pc \in Places
    /\ cell \in Nat
    /\ generation \in Nat
    /\ queue \in Seq(Nat)
    /\ iopub \in Seq(Messages)
    /\ shell \subseteq Nat
    /\ process \in Nat

(* A message that may stand before anything the cell "of" publishes.       *)
Before(message, of) ==
    message.cell < of \/ (message.cell = of /\ message.kind = "output")

InOrder ==
    /\ \A i, j \in DOMAIN queue : i < j => queue[i] < queue[j]
    /\ \A i, j \in DOMAIN iopub : i < j => Before(iopub[i], iopub[j].cell)
    /\ \A i \in DOMAIN iopub, j \in DOMAIN queue : Before(iopub[i], queue[j])

(* Nothing is in the channels that was sent after the cell awaited: an     *)
(* idle status of it is the last message there is.                         *)
Sent ==
    /\ \A i \in DOMAIN queue : queue[i] <= Awaited
    /\ \A i \in DOMAIN iopub : iopub[i].cell <= Awaited

Answered ==
    /\ pc \in {"free", "reply", "unstarted", "starting", "boot"} =>
           queue = <<>> /\ iopub = <<>>
    /\ pc = "down" => queue = <<>>

Channels == InOrder /\ Sent /\ Answered

IInv == TypeOK /\ Channels

(* Each of the kernel's steps keeps the types.                             *)
LEMMA KernelTypes == ASSUME TypeOK, [Next]_vars PROVE TypeOK'
<1> USE DEF TypeOK, Places, Free
<1>1. \A c \in Nat : {Message(c, "output"), Message(c, "idle")} \subseteq Messages
  BY DEF Message, Messages
<1>0. <<>> \in Seq(Nat) /\ <<>> \in Seq(Messages)
  OBVIOUS
<1>2. CASE Publish \/ FinishCell
  <2>1. Head(queue) \in Nat /\ Tail(queue) \in Seq(Nat)
    BY <1>2 DEF Publish, FinishCell
  <2>2. /\ Append(iopub, Message(Head(queue), "output")) \in Seq(Messages)
        /\ Append(iopub, Message(Head(queue), "idle")) \in Seq(Messages)
    BY <1>1, <2>1
  <2> QED
    BY <1>2, <2>1, <2>2 DEF Publish, FinishCell, callVars
<1>3. CASE Die \/ Down \/ UNCHANGED vars
  BY <1>0, <1>3 DEF Die, Down, vars, callVars, processVars
<1>4. CASE Start \/ Started \/ StartFails \/ Shutdown
  <2>1. InstallTools("first_install") => queue' \in Seq(Nat)
    BY DEF InstallTools, Bootstrap
  <2> QED
    BY <1>0, <1>4, <2>1 DEF Start, Started, InstallTools, StartFails, Shutdown
<1>5. CASE Execute
  <2>1. cell' \in Nat /\ queue' \in Seq(Nat)
    BY <1>5 DEF Execute
  <2> QED
    BY <1>5, <2>1 DEF Execute
<1>6. CASE ReadOn \/ ReadIdle \/ GraceIdle \/ ToolsInstalled
  <2>1. iopub # <<>> => Tail(iopub) \in Seq(Messages)
    OBVIOUS
  <2> QED
    BY <1>6, <2>1 DEF ReadOn, ReadIdle, GraceIdle, ToolsInstalled, Read
<1>7. CASE ReadReply
  BY <1>7 DEF ReadReply
<1>8. CASE TimeOut \/ Cancelled \/ DeathDetected \/ InterruptKernel \/ GraceExpires \/ Restart
  BY <1>8 DEF TimeOut, TimeOutRecovers, Cancelled, DeathDetected, InterruptKernel, GraceExpires,
              Restart, Move, processVars
<1>9. CASE RestartProcess
  BY <1>0, <1>9 DEF RestartProcess, EndProcess
<1>10. CASE Ready
  <2>1. queue' \in Seq(Nat)
    BY <1>10 DEF Ready, InstallTools, Bootstrap
  <2> QED
    BY <1>10, <2>1 DEF Ready, NextGeneration, InstallTools
<1>11. CASE Abandon
  <2>1. pc' \in Places /\ UNCHANGED <<cell, generation>>
    BY <1>11 DEF Abandon
  <2>2. EndProcess \/ UNCHANGED <<processVars, process>>
    BY <1>11 DEF Abandon
  <2>3. UNCHANGED <<processVars, process>> => TypeOK'
    BY <2>1 DEF processVars
  <2>4. EndProcess => TypeOK'
    BY <1>0, <2>1 DEF EndProcess
  <2> QED
    BY <2>2, <2>3, <2>4
<1> QED
  BY <1>2, <1>3, <1>4, <1>5, <1>6, <1>7, <1>8, <1>9, <1>10, <1>11
  DEF Next, Call

(* A message read leaves the rest of the channel as it was.                *)
LEMMA AfterTail ==
    ASSUME NEW S, NEW seq \in Seq(S), seq # <<>>
    PROVE  \A i \in DOMAIN Tail(seq) : i + 1 \in DOMAIN seq /\ Tail(seq)[i] = seq[i + 1]
OBVIOUS

(* One that is added comes last.                                           *)
LEMMA AfterAppend ==
    ASSUME NEW S, NEW seq \in Seq(S), NEW e \in S
    PROVE  \A i \in DOMAIN Append(seq, e) :
               \/ i \in DOMAIN seq /\ Append(seq, e)[i] = seq[i]
               \/ i = Len(seq) + 1 /\ Append(seq, e)[i] = e
OBVIOUS

(* Of a single message nothing remains.                                    *)
LEMMA NothingAfterTheFirst ==
    ASSUME NEW S, NEW seq \in Seq(S), seq # <<>>, \A i \in DOMAIN seq : ~(1 < i)
    PROVE  Tail(seq) = <<>>
<1>1. Len(seq) \in Nat /\ DOMAIN seq = 1 .. Len(seq) /\ Len(seq) # 0
  OBVIOUS
<1>2. Len(seq) \in DOMAIN seq
  BY <1>1
<1>3. Len(seq) = 1
  BY <1>1, <1>2
<1>4. Tail(seq) \in Seq(S) /\ Len(Tail(seq)) = Len(seq) - 1
  BY HeadTailProperties
<1> QED
  BY <1>3, <1>4, EmptySeq

(* Cells are numbered, in what was sent and in what was published.         *)
LEMMA CellNumbers ==
    ASSUME TypeOK
    PROVE  /\ \A j \in DOMAIN queue : queue[j] \in Nat
           /\ \A i \in DOMAIN iopub : iopub[i].cell \in Nat
           /\ Awaited \in Nat
<1> USE DEF TypeOK
<1>1. \A i \in DOMAIN iopub : iopub[i] \in Messages
  OBVIOUS
<1> QED
  BY <1>1 DEF Messages, Awaited, Bootstrap

(* What the process publishes comes after all that is published already.   *)
LEMMA PublishingInOrder ==
    ASSUME IInv, NEW message \in Messages,
           queue # <<>>, message.cell = Head(queue),
           iopub' = Append(iopub, message),
           \/ UNCHANGED queue /\ message.kind = "output"
           \/ queue' = Tail(queue),
           UNCHANGED callVars
    PROVE  Channels'
<1> USE DEF IInv, TypeOK, Channels
<1>1. /\ 1 \in DOMAIN queue
      /\ message.cell = queue[1]
      /\ message.cell \in Nat
      /\ message.kind \in {"output", "idle"}
  BY DEF Messages
<1>2. \A i \in DOMAIN iopub : iopub[i] \in Messages
  OBVIOUS
<1>3. \A i \in DOMAIN iopub' :
          \/ i \in DOMAIN iopub /\ iopub'[i] = iopub[i]
          \/ i = Len(iopub) + 1 /\ iopub'[i] = message
  BY AfterAppend
<1>4. \A j \in DOMAIN queue' : \E k \in DOMAIN queue :
          queue'[j] = queue[k] /\ (k = 1 => UNCHANGED queue /\ message.kind = "output")
  <2>1. CASE queue' = Tail(queue)
    BY <2>1, AfterTail
  <2> QED
    BY <2>1
<1>5. InOrder'
  <2>1. \A i, j \in DOMAIN queue' : i < j => queue'[i] < queue'[j]
    <3>1. CASE queue' = Tail(queue)
      <4>1. \A j \in DOMAIN queue' :
                j \in Nat /\ j + 1 \in DOMAIN queue /\ queue'[j] = queue[j + 1]
        BY <3>1, AfterTail
      <4> QED
        BY <4>1 DEF InOrder
    <3>2. CASE UNCHANGED queue
      BY <3>2 DEF InOrder
    <3> QED
      BY <3>1, <3>2
  <2>2. \A i, j \in DOMAIN iopub' : i < j => Before(iopub'[i], iopub'[j].cell)
    BY <1>1, <1>3 DEF InOrder
  <2>3. \A i \in DOMAIN iopub', j \in DOMAIN queue' : Before(iopub'[i], queue'[j])
    <3>1. \A j \in DOMAIN queue' :
              \/ message.cell < queue'[j]
              \/ message.cell = queue'[j] /\ message.kind = "output"
      BY <1>1, <1>4 DEF InOrder
    <3>2. \A i \in DOMAIN iopub, j \in DOMAIN queue' : Before(iopub[i], queue'[j])
      BY <1>4 DEF InOrder
    <3> QED
      BY <1>3, <3>1, <3>2 DEF Before
  <2> QED
    BY <2>1, <2>2, <2>3 DEF InOrder
<1>6. Sent'
  <2>1. Awaited' = Awaited
    BY DEF Awaited, callVars
  <2> QED
    BY <1>1, <1>3, <1>4, <2>1 DEF Sent
<1>7. Answered'
  <2>1. pc \notin {"free", "reply", "unstarted", "starting", "boot", "down"}
    BY DEF Answered
  <2> QED
    BY <2>1 DEF Answered, callVars
<1> QED
  BY <1>5, <1>6, <1>7

(* The idle status of the awaited cell is the last message there is, and   *)
(* no cell is left behind it.                                              *)
LEMMA AwaitedIdleIsLast ==
    ASSUME IInv, iopub # <<>>, IsIdleOf(Head(iopub), Awaited)
    PROVE  queue = <<>> /\ Tail(iopub) = <<>>
<1> USE DEF IInv, TypeOK, Channels
<1>1. /\ 1 \in DOMAIN iopub
      /\ iopub[1].cell = Awaited /\ iopub[1].kind # "output"
  BY DEF IsIdleOf, Message
<1>2. DOMAIN queue = {}
  BY <1>1, CellNumbers DEF InOrder, Before, Sent
<1>3. \A i \in DOMAIN iopub : ~(1 < i)
  BY <1>1, CellNumbers DEF InOrder, Before, Sent
<1>4. Tail(iopub) = <<>>
  BY <1>3, NothingAfterTheFirst
<1>5. queue = <<>>
  BY <1>2
<1> QED
  BY <1>4, <1>5

(* Neither reading a message nor emptying a channel puts one out of order. *)
LEMMA TakingKeepsOrder ==
    ASSUME IInv,
           Awaited' \in Nat, Awaited <= Awaited',
           UNCHANGED queue \/ queue' = <<>>,
           \/ UNCHANGED iopub
           \/ iopub' = <<>>
           \/ iopub # <<>> /\ iopub' = Tail(iopub)
    PROVE  InOrder' /\ Sent'
<1> USE DEF IInv, TypeOK, Channels
<1>1. \A j \in DOMAIN queue' : j \in DOMAIN queue /\ queue'[j] = queue[j] /\ queue[j] \in Nat
  OBVIOUS
<1>2. \E n \in {0, 1} : \A i \in DOMAIN iopub' :
          i \in Nat /\ i + n \in DOMAIN iopub /\ iopub'[i] = iopub[i + n]
  <2>1. CASE iopub # <<>> /\ iopub' = Tail(iopub)
    <3>1. \A i \in DOMAIN iopub' :
              i \in Nat /\ i + 1 \in DOMAIN iopub /\ iopub'[i] = iopub[i + 1]
      BY <2>1, AfterTail
    <3> QED
      BY <3>1
  <2>2. CASE UNCHANGED iopub \/ iopub' = <<>>
    <3>1. \A i \in DOMAIN iopub' :
              i \in Nat /\ i + 0 \in DOMAIN iopub /\ iopub'[i] = iopub[i + 0]
      BY <2>2
    <3> QED
      BY <3>1
  <2> QED
    BY <2>1, <2>2
<1>3. InOrder'
  <2>1. \A i, j \in DOMAIN queue' : i < j => queue'[i] < queue'[j]
    BY <1>1 DEF InOrder
  <2>2. \A i, j \in DOMAIN iopub' : i < j => Before(iopub'[i], iopub'[j].cell)
    BY <1>2 DEF InOrder
  <2>3. \A i \in DOMAIN iopub', j \in DOMAIN queue' : Before(iopub'[i], queue'[j])
    BY <1>1, <1>2 DEF InOrder
  <2> QED
    BY <2>1, <2>2, <2>3 DEF InOrder
<1>4. Sent'
  BY <1>1, <1>2, CellNumbers DEF Sent
<1> QED
  BY <1>3, <1>4

(* A cell is sent after all others.                                        *)
LEMMA SendingKeepsOrder ==
    ASSUME IInv, NEW c \in Nat,
           \A j \in DOMAIN queue : queue[j] < c,
           \A i \in DOMAIN iopub : iopub[i].cell < c,
           queue' = IF alive THEN Append(queue, c) ELSE queue,
           UNCHANGED iopub,
           Awaited' = c
    PROVE  InOrder' /\ Sent'
<1> USE DEF IInv, TypeOK, Channels
<1>1. \A j \in DOMAIN queue' :
          \/ j \in DOMAIN queue /\ queue'[j] = queue[j]
          \/ j = Len(queue) + 1 /\ queue'[j] = c
  BY AfterAppend
<1>2. InOrder'
  <2>1. \A i, j \in DOMAIN queue' : i < j => queue'[i] < queue'[j]
    BY <1>1 DEF InOrder
  <2>2. \A i \in DOMAIN iopub', j \in DOMAIN queue' : Before(iopub'[i], queue'[j])
    BY <1>1 DEF InOrder, Before
  <2> QED
    BY <2>1, <2>2 DEF InOrder
<1>3. Sent'
  BY <1>1, CellNumbers DEF Sent
<1> QED
  BY <1>2, <1>3

(* Each of the kernel's steps keeps the channels in order.                 *)
LEMMA KernelChannels == ASSUME IInv, [Next]_vars PROVE Channels'
<1> USE DEF IInv, TypeOK, Channels
<1>1. CASE Publish \/ FinishCell
  <2>1. Head(queue) \in Nat /\ queue # <<>>
    BY <1>1 DEF Publish, FinishCell
  <2>2. \A kind \in {"output", "idle"} :
            /\ Message(Head(queue), kind) \in Messages
            /\ Message(Head(queue), kind).cell = Head(queue)
            /\ Message(Head(queue), kind).kind = kind
    BY <2>1 DEF Message, Messages
  <2>3. CASE Publish
    BY <2>1, <2>2, <2>3, PublishingInOrder DEF Publish
  <2>4. CASE FinishCell
    BY <2>1, <2>2, <2>4, PublishingInOrder DEF FinishCell
  <2> QED
    BY <1>1, <2>3, <2>4
<1>2. CASE Die
  <2>1. Awaited' = Awaited /\ Awaited \in Nat
    BY <1>2 DEF Die, Awaited, callVars, Bootstrap
  <2>2. InOrder' /\ Sent'
    BY <1>2, <2>1, TakingKeepsOrder DEF Die
  <2> QED
    BY <1>2, <2>2 DEF Die, Answered, callVars
<1>3. CASE Down \/ UNCHANGED vars
  BY <1>3 DEF Down, vars, callVars, processVars, InOrder, Sent, Awaited, Answered
<1>4. CASE Start \/ StartFails \/ Shutdown \/ RestartProcess
  <2>1. Awaited' = cell /\ Awaited = cell
    BY <1>4 DEF Start, StartFails, Shutdown, RestartProcess, Awaited, Free
  <2>2. InOrder' /\ Sent'
    BY <1>4, <2>1, TakingKeepsOrder DEF Start, StartFails, Shutdown, RestartProcess, EndProcess
  <2> QED
    BY <1>4, <2>2 DEF Start, StartFails, Shutdown, RestartProcess, EndProcess, Answered
<1>5. CASE Started \/ Ready
  <2>1. queue = <<>> /\ iopub = <<>>
    BY <1>5 DEF Started, Ready, Answered
  <2>2. pc' \in {"install", "first_install"} /\ Awaited' = Bootstrap
    BY <1>5 DEF Started, Ready, InstallTools, Awaited
  <2>3. InOrder' /\ Sent'
    BY <1>5, <2>1, <2>2, SendingKeepsOrder DEF Started, Ready, InstallTools, Bootstrap
  <2> QED
    BY <2>2, <2>3 DEF Answered
<1>6. CASE Execute
  <2>1. pc' = "collect" /\ Awaited = cell /\ Awaited' = cell + 1
    BY <1>6 DEF Execute, Awaited, Free
  <2>2. /\ \A j \in DOMAIN queue : queue[j] < cell + 1
        /\ \A i \in DOMAIN iopub : iopub[i].cell < cell + 1
    BY <2>1, CellNumbers DEF Sent
  <2>3. InOrder' /\ Sent'
    BY <1>6, <2>1, <2>2, SendingKeepsOrder DEF Execute
  <2> QED
    BY <2>1, <2>3 DEF Answered
<1>7. CASE ReadOn
  <2>1. Awaited' = Awaited /\ Awaited \in Nat
    BY <1>7 DEF ReadOn, Read, Awaited, Bootstrap
  <2>2. InOrder' /\ Sent'
    BY <1>7, <2>1, TakingKeepsOrder DEF ReadOn, Read
  <2> QED
    BY <1>7, <2>2 DEF ReadOn, Read, Answered
<1>8. CASE ReadIdle \/ GraceIdle \/ ToolsInstalled
  <2>1. /\ iopub # <<>> /\ iopub' = Tail(iopub) /\ UNCHANGED queue
        /\ IsIdleOf(Head(iopub), Awaited)
        /\ pc' \in {"reply", "free"}
        /\ Awaited' = cell /\ Awaited <= cell
    BY <1>8 DEF ReadIdle, GraceIdle, ToolsInstalled, Read, Collected, Awaited, Bootstrap
  <2>2. InOrder' /\ Sent'
    BY <2>1, TakingKeepsOrder
  <2>3. queue' = <<>> /\ iopub' = <<>>
    BY <2>1, AwaitedIdleIsLast
  <2> QED
    BY <2>1, <2>2, <2>3 DEF Answered
<1>9. CASE ReadReply
  BY <1>9 DEF ReadReply, InOrder, Sent, Awaited, Answered
<1>10. CASE TimeOut \/ Cancelled \/ DeathDetected \/ InterruptKernel \/ GraceExpires \/ Restart
  <2>1. /\ pc \in {"collect", "reply", "interrupt", "grace"} \cup Free
        /\ pc' \in {"interrupt", "grace", "kill"}
        /\ UNCHANGED <<cell, queue, iopub>>
    BY <1>10 DEF TimeOut, TimeOutRecovers, Cancelled, DeathDetected, InterruptKernel,
                 GraceExpires, Restart, Move, processVars
  <2> QED
    BY <2>1 DEF InOrder, Sent, Awaited, Answered, Free
<1>11. CASE Abandon
  <2>1. /\ pc' \in {"abandoned", "raised"} /\ UNCHANGED cell
        /\ UNCHANGED <<queue, iopub>> \/ (queue' = <<>> /\ iopub' = <<>>)
    BY <1>11 DEF Abandon, EndProcess, processVars
  <2>2. Awaited' = cell /\ Awaited <= cell
    BY <2>1 DEF Awaited, Bootstrap
  <2>3. InOrder' /\ Sent'
    BY <2>1, <2>2, TakingKeepsOrder
  <2> QED
    BY <2>1, <2>3 DEF Answered
<1> QED
  BY <1>1, <1>2, <1>3, <1>4, <1>5, <1>6, <1>7, <1>8, <1>9, <1>10, <1>11 DEF Next, Call

(* The channels stay in order in every execution.                          *)
THEOREM ChannelsInOrder == Spec => []IInv
<1>1. Init => IInv
  BY ConstantsAssumption
  DEF Init, IInv, TypeOK, Places, Channels, InOrder, Sent, Answered
<1>2. IInv /\ [Next]_vars => IInv'
  BY KernelTypes, KernelChannels DEF IInv
<1> QED
  BY <1>1, <1>2, PTL DEF Spec

(* A call that returned, whatever was abandoned before it, has left the    *)
(* process nothing to run.                                                 *)
THEOREM AnsweredIsDone == Spec => []NothingRunsAfterAnswer
<1>1. IInv => NothingRunsAfterAnswer
  BY DEF IInv, Channels, Answered, NothingRunsAfterAnswer
<1> QED
  BY <1>1, ChannelsInOrder, PTL

(* A call that returns with the reply has read all the cell published.     *)
THEOREM AnswerIsComplete == Spec => CompleteWhenAnswered
<1>1. IInv =>
          (pc = "reply" /\ pc' = "free" => \A i \in DOMAIN iopub : iopub[i].cell # cell)
  BY DEF IInv, Channels, Answered
<1> QED
  BY <1>1, ChannelsInOrder, PTL DEF CompleteWhenAnswered, Spec
=============================================================================
