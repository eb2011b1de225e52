--------------------------- MODULE AgentLoopProofs ---------------------------
(***************************************************************************)
(* Proofs about AgentLoop, for every configuration of the loop and any     *)
(* number of prompts and tool calls; and about Resume, whose steps are     *)
(* AgentLoop's with the entries they write, for any number of starts and   *)
(* stops on the same file.  The first part (to LoopImplementsEventOrder)   *)
(* is about Spec of AgentLoop and uses nothing of Resume; the second is    *)
(* about SessionSpec.                                                      *)
(***************************************************************************)
EXTENDS AgentLoopProperties, Resume, FiniteSetTheorems, WellFoundedInduction, TLAPS

(* The steps of the loop that emit an event and otherwise only move on, or *)
(* append a message, keep the types.                                       *)
LEMMA StepTypes ==
    ASSUME TypeOK, NEW point, NEW type, NEW role, NEW next \in Points,
           Step(point, type, role, next)
    PROVE  TypeOK'
BY DEF TypeOK, Step, Emits, kernelVars, counters, cellVars, outcome, requestVars, timerVars

(* The same for a step that appends a message.                             *)
LEMMA StepAppendingTypes ==
    ASSUME TypeOK, NEW point, NEW type, NEW role, NEW message \in Message, NEW next \in Points,
           StepAppending(point, type, role, message, next)
    PROVE  TypeOK'
BY DEF TypeOK, StepAppending, Emits, kernelVars, counters, cellVars, outcome, requestVars,
       timerVars

(* The messages the loop appends are messages.                             *)
LEMMA MessageTypes ==
    ASSUME TypeOK
    PROVE  /\ User \in Message
           /\ ProtocolError \in Message
           /\ Assistant(reply) \in Message
           /\ Observation \in Message
           /\ PresentNotice \in Message
BY DEF TypeOK, Message, User, ProtocolError, Assistant, Observation, Execution, PresentNotice,
       Notice, Cell

-----------------------------------------------------------------------------

(* agent_start to the request keeps the types.                             *)
LEMMA OpeningTypes == ASSUME TypeOK, Opening PROVE TypeOK'
<1>1. \A p \in {"first_turn_start", "user_start", "user_end", "assistant_start", "streaming"} :
          p \in Points
  BY DEF Points, EmitPoints, Preamble
<1> QED
  BY <1>1, StepTypes, StepAppendingTypes, MessageTypes DEF Opening

(* Whatever the reply, taking it keeps the types.                          *)
LEMMA TakeReplyTypes ==
    ASSUME TypeOK, NEW r \in Reply, TakeReply(r)
    PROVE  reply' \in Reply /\ pc' \in Points /\ messages' \in Seq(Message)
<1>1. {"final_delta", "assistant_end"} \subseteq Points
  BY DEF Points, EmitPoints
<1> QED
  BY <1>1, SMTT(30) DEF TakeReply, TypeOK, Message, Assistant

(* What a cancelled stream is answered with is a reply.                    *)
LEMMA CancelledReplyTypes == \A b \in Blocks : CancelledReply(b) \in Reply
BY DEF CancelledReply, Reply, StopReasons

(* The stream keeps the types.                                             *)
LEMMA StreamTypes ==
    ASSUME TypeOK, StreamDelta \/ StreamEnds \/ FinalDelta
    PROVE  TypeOK'
<1>1. {"streaming", "final_delta", "assistant_end"} \subseteq Points
  BY DEF Points, EmitPoints
<1>2. CASE StreamDelta
  BY <1>1, <1>2, StepTypes DEF StreamDelta
<1>3. CASE FinalDelta
  BY <1>1, <1>3, StepAppendingTypes, MessageTypes DEF FinalDelta
<1>4. CASE StreamEnds
  BY <1>4, TakeReplyTypes DEF StreamEnds, TypeOK, kernelVars, counters, cellVars, outcome,
                              requestVars, timerVars
<1> QED
  BY <1>2, <1>3, <1>4

(* So does every decision on a reply.                                      *)
LEMMA DecidingTypes == ASSUME TypeOK, Deciding PROVE TypeOK'
<1> USE DEF TypeOK, Emits, kernelVars, counters, cellVars, outcome, requestVars, timerVars
<1>1. {"last_turn_end", "repair_start", "exec_start"} \subseteq Points
  BY DEF Points, EmitPoints
<1>2. CASE EndOnReply
  BY <1>1, <1>2 DEF EndOnReply, ReplyError, Errors
<1>3. CASE Repair
  BY <1>1, <1>3, MessageTypes DEF Repair
<1>4. CASE RefuseExecution
  BY <1>1, <1>4 DEF RefuseExecution, Errors
<1>5. CASE BeginExecution
  BY <1>1, <1>5 DEF BeginExecution
<1> QED
  BY <1>2, <1>3, <1>4, <1>5 DEF Deciding

(* The end of a turn, and what follows it, keeps the types.                *)
LEMMA TurnsTypes == ASSUME TypeOK, Turns PROVE TypeOK'
<1>1. {"repair_end", "repair_turn_end", "turn_start", "agent_end"} \subseteq Points
  BY DEF Points, EmitPoints
<1>2. ASSUME NEW point, TurnEnds(point),
             NextTurn \/ (Finalise /\ lastError' \in Errors /\ UNCHANGED turn)
      PROVE  TypeOK'
  <2>1. pc' \in Points /\ turn' \in Nat /\ lastError' \in Errors /\ isRunning' \in BOOLEAN
    <3>1. CASE NextTurn
      <4>1. CASE turn + 1 < MaxTurns
        BY <1>1, <3>1, <4>1 DEF TypeOK, NextTurn, OpensTurn, outcome
      <4>2. CASE ~(turn + 1 < MaxTurns)
        BY <1>1, <3>1, <4>2 DEF TypeOK, NextTurn, Finalise, StopsRunning, Errors
      <4> QED
        BY <4>1, <4>2
    <3>2. CASE Finalise /\ lastError' \in Errors /\ UNCHANGED turn
      BY <1>1, <3>2 DEF TypeOK, Finalise, StopsRunning
    <3> QED
      BY <1>2, <3>1, <3>2
  <2> QED
    BY <1>2, <2>1 DEF TypeOK, TurnEnds, Emits, kernelVars, cellVars, requestVars, timerVars
<1>3. CASE RepairTurnEnd
  BY <1>2, <1>3 DEF RepairTurnEnd, Errors
<1>4. CASE TurnEnd
  BY <1>2, <1>4 DEF TurnEnd
<1>5. CASE LastTurnEnd
  BY <1>2, <1>5 DEF LastTurnEnd, TypeOK
<1> QED
  BY <1>1, <1>3, <1>4, <1>5, StepTypes DEF Turns

-----------------------------------------------------------------------------
(* The kernel's steps keep the types of its three variables.               *)
LEMMA KernelTypes ==
    ASSUME TypeOK,
           \/ Kernel!Submit \/ Kernel!Finish \/ Kernel!Overrun \/ Kernel!Settle
           \/ Kernel!Replace \/ Kernel!Kill \/ Kernel!Ready \/ Kernel!Installed \/ Kernel!Abandon
    PROVE  call' \in Kernel!CallStates /\ generation' \in Nat /\ process' \in Nat \ {0}
<1> USE DEF TypeOK, Kernel!CallStates
<1>1. CASE \/ Kernel!Submit \/ Kernel!Finish \/ Kernel!Overrun \/ Kernel!Settle
           \/ Kernel!Replace \/ Kernel!Installed
  BY <1>1 DEF Kernel!Submit, Kernel!Finish, Kernel!Overrun, Kernel!Settle, Kernel!Replace,
              Kernel!Installed, Kernel!Goto
<1>2. CASE Kernel!Kill \/ Kernel!Ready \/ Kernel!Abandon
  BY <1>2 DEF Kernel!Kill, Kernel!Ready, Kernel!Abandon
<1> QED
  BY <1>1, <1>2

(* Sending the cell keeps the types.                                       *)
LEMMA SubmitTypes == ASSUME TypeOK, SubmitCell PROVE TypeOK'
<1>1. Kernel!Submit
  BY DEF SubmitCell
<1>2. call' \in Kernel!CallStates /\ generation' \in Nat /\ process' \in Nat \ {0}
  BY <1>1, KernelTypes
<1>3. cell' \in Cell /\ pc' \in Points
  BY DEF SubmitCell, TypeOK, Cell, Points
<1> QED
  BY <1>2, <1>3 DEF SubmitCell, TypeOK, Emits, counters, outcome, requestVars, timerVars

(* What happens to the kernel while a call is in progress.                 *)
KernelWork ==
    CellEnds \/ CellOverruns \/ CellLost \/ Replacing \/ ReplacedDuringCell \/ Restarted

(* Output of the cell keeps the types.                                     *)
LEMMA ExecOutputTypes == ASSUME TypeOK, ExecOutput PROVE TypeOK'
BY StepTypes DEF ExecOutput, Points

(* Whatever the kernel does meanwhile keeps the types.                     *)
LEMMA KernelWorkTypes == ASSUME TypeOK, KernelWork PROVE TypeOK'
<1>1. call' \in Kernel!CallStates /\ generation' \in Nat /\ process' \in Nat \ {0}
  BY KernelTypes DEF KernelWork, CellEnds, CellOverruns, OverrunCell, CellLost, Replacing,
                     ReplacedDuringCell, Restarted
<1>2. pc' \in Points
  BY DEF TypeOK, Points, EmitPoints, KernelWork, CellEnds, CellOverruns, OverrunCell, CellLost,
         Replacing, ReplacedDuringCell, Restarted
<1>3. replaced' \in BOOLEAN
  BY DEF TypeOK, KernelWork, CellEnds, CellOverruns, OverrunCell, CellLost, Replacing,
         ReplacedDuringCell, Restarted
<1>4. KernelStep /\ UNCHANGED timerVars
  BY DEF KernelWork, CellEnds, CellOverruns, OverrunCell, CellLost, Replacing,
         ReplacedDuringCell, Restarted
<1>5. tail' \in {"idle", "pending", "dead"}
  BY DEF TypeOK, KernelWork, CellEnds, CellOverruns, OverrunCell, CancelTail, CellLost, Replacing,
         ReplacedDuringCell, Restarted
<1> QED
  BY <1>1, <1>2, <1>3, <1>4, <1>5 DEF TypeOK, KernelStep, counters, outcome, requestVars, timerVars

(* The observation and the notice keep the types.                          *)
LEMMA ObservingTypes == ASSUME TypeOK, Observing PROVE TypeOK'
<1>1. {"execution_start", "execution_end", "kernel_failed", "kernel_restarted", "restarting",
       "notice_start", "notice_end", "turn_end"} \subseteq Points
  BY DEF Points, EmitPoints
<1>2. CASE ExecutionEnd
  <2>1. restart' \in [proc : Nat, run : Nat] /\ active' \in Nat
    BY <1>2 DEF ExecutionEnd, Consume, NoRequest
  <2>2. pc' \in Points
    BY <1>1, <1>2 DEF ExecutionEnd
  <2>3. call' \in Kernel!CallStates /\ generation' \in Nat /\ process' \in Nat \ {0}
    BY <1>2, KernelTypes DEF ExecutionEnd, kernelVars, TypeOK
  <2> QED
    BY <1>2, <2>1, <2>2, <2>3 DEF ExecutionEnd, TypeOK, Emits, counters, cellVars, outcome,
                                  timerVars
<1> QED
  BY <1>1, <1>2, StepTypes, StepAppendingTypes, MessageTypes DEF Observing

-----------------------------------------------------------------------------
(* An exception that leaves _run.                                          *)
LEMMA RaiseTypes ==
    ASSUME TypeOK, NEW exception \in {"cancelled", "timeout", "error"}, Raise(exception),
           tail' \in {"idle", "pending", "dead"},
           deadline' \in {"off", "armed", "expired"}, interrupted' \in Seq(Nat),
           call' \in Kernel!CallStates, generation' \in Nat, process' \in Nat \ {0}
    PROVE  TypeOK'
<1>1. pc' \in Points /\ isRunning' \in BOOLEAN
  BY DEF TypeOK, Raise, Finalise, StopsRunning, Points, EmitPoints
<1> QED
  BY <1>1 DEF TypeOK, Raise, counters, cellVars, requestVars

(* Every exception but a cancellation keeps the types.                     *)
LEMMA RaisingTypes == ASSUME TypeOK, EmitRaises \/ StepFails \/ KernelRaises PROVE TypeOK'
<1>1. CASE EmitRaises \/ StepFails
  BY <1>1, RaiseTypes DEF EmitRaises, StepFails, TypeOK, timerVars, kernelVars
<1>2. CASE KernelRaises
  <2>1. KernelException \in {"cancelled", "timeout", "error"}
    BY DEF KernelException
  <2>2. call' \in Kernel!CallStates /\ generation' \in Nat /\ process' \in Nat \ {0}
    BY <1>2, KernelTypes DEF KernelRaises
  <2> QED
    BY <1>2, <2>1, <2>2, RaiseTypes DEF KernelRaises, TypeOK, timerVars
<1> QED
  BY <1>1, <1>2

(* The deadline and Ctrl-C keep the types at every await.                  *)
LEMMA CancelTypes == ASSUME TypeOK, DeadlineExpires \/ Interrupt PROVE TypeOK'
<1>1. deadline' \in {"off", "armed", "expired"} /\ interrupted' \in Seq(Nat)
  <2>1. interrupted' = interrupted \/ interrupted' = Append(interrupted, run)
    BY DEF DeadlineExpires, Interrupt
  <2>2. deadline' \in {"expired", deadline}
    BY DEF DeadlineExpires, Interrupt
  <2>3. deadline \in {"off", "armed", "expired"} /\ interrupted \in Seq(Nat) /\ run \in Nat
    BY DEF TypeOK
  <2> QED
    BY <2>1, <2>2, <2>3
<1>2. \/ CancelEmit \/ CancelStream \/ CancelCell
      \/ CancelKernelCall /\ (UNCHANGED tail \/ CancelTail)
  BY DEF DeadlineExpires, Interrupt, Cancel, CancelAll, CancelKernel
<1>3. CASE CancelEmit
  BY <1>1, <1>3, RaiseTypes DEF CancelEmit, CancelTail, TypeOK, kernelVars
<1>4. CASE CancelStream
  <2>1. tail' \in {"idle", "pending", "dead"}
    BY <1>4 DEF CancelStream, CancelTail, TypeOK
  <2>2. reply' \in Reply /\ pc' \in Points /\ messages' \in Seq(Message)
    BY <1>4, TakeReplyTypes, CancelledReplyTypes DEF CancelStream, StreamCancelled
  <2> QED
    BY <1>1, <1>4, <2>1, <2>2 DEF CancelStream, StreamCancelled, TypeOK, counters, cellVars,
                                  outcome, requestVars, kernelVars
<1>5. CASE CancelCell
  <2>1. call' \in Kernel!CallStates /\ generation' \in Nat /\ process' \in Nat \ {0}
    BY <1>5, KernelTypes DEF CancelCell, OverrunCell
  <2>2. tail' \in {"idle", "pending", "dead"}
    BY <1>5 DEF CancelCell, OverrunCell, CancelTail, TypeOK
  <2> QED
    BY <1>1, <1>5, <2>1, <2>2 DEF CancelCell, OverrunCell, KernelStep, TypeOK, counters, outcome,
                                  requestVars
<1>6. CASE CancelKernelCall /\ (UNCHANGED tail \/ CancelTail)
  <2>1. call' \in Kernel!CallStates /\ generation' \in Nat /\ process' \in Nat \ {0}
    BY <1>6, KernelTypes DEF CancelKernelCall
  <2>2. tail' \in {"idle", "pending", "dead"}
    BY <1>6 DEF CancelTail, TypeOK
  <2> QED
    BY <1>1, <1>6, <2>1, <2>2, RaiseTypes DEF CancelKernelCall
<1> QED
  BY <1>2, <1>3, <1>4, <1>5, <1>6

(* The start and the end of a run keep the types.                          *)
LEMMA BoundaryTypes ==
    ASSUME TypeOK, StartRun \/ Quit \/ AgentEnd \/ Leave \/ Deliver \/ Exited
    PROVE  TypeOK'
<1> USE DEF TypeOK, kernelVars, counters, cellVars, outcome, requestVars, timerVars
<1>1. {"agent_start", "leaving", "prompt", "exited"} \subseteq Points
  BY DEF Points, EmitPoints, Preamble
<1>2. CASE StartRun
  BY <1>1, <1>2 DEF StartRun, Errors
<1>3. CASE Quit
  BY <1>1, <1>3 DEF Quit
<1>4. CASE AgentEnd
  BY <1>1, <1>4, StepTypes DEF AgentEnd
<1>5. CASE Leave
  BY <1>1, <1>5 DEF Leave, Errors
<1>6. CASE Deliver
  BY <1>6 DEF Deliver, Delivers
<1>7. CASE Exited
  BY <1>7 DEF Exited, vars
<1> QED
  BY <1>2, <1>3, <1>4, <1>5, <1>6, <1>7

(* Tool calls keep the types.                                              *)
LEMMA ToolCallTypes == ASSUME TypeOK, TodoChanged \/ RequestRestart PROVE TypeOK'
<1>1. ToolCall /\ tail' \in {"idle", "pending", "dead"}
  BY DEF TodoChanged, RequestRestart, EmitBackground, ToolCall, TypeOK
<1>2. Caller \in Nat
  BY DEF Caller, TypeOK
<1>3. restart' \in [proc : Nat, run : Nat]
  BY <1>2 DEF TodoChanged, RequestRestart, TypeOK
<1> QED
  BY <1>1, <1>3 DEF ToolCall, TypeOK, kernelVars, counters, cellVars, outcome, timerVars

(* The types are inductive.                                                *)
LEMMA NextTypes == ASSUME TypeOK, [Next]_vars PROVE TypeOK'
<1>1. CASE Progress
  BY <1>1, OpeningTypes, StreamTypes, DecidingTypes, TurnsTypes, SubmitTypes, KernelWorkTypes,
     ObservingTypes, BoundaryTypes, RaisingTypes DEF Progress, KernelWork
<1>2. CASE Next /\ ~Progress
  BY <1>2, BoundaryTypes, StreamTypes, ExecOutputTypes, RaisingTypes, CancelTypes, ToolCallTypes
  DEF Next
<1>3. CASE UNCHANGED vars
  BY <1>3 DEF vars, TypeOK, kernelVars, counters, cellVars, outcome, requestVars, timerVars
<1> QED
  BY <1>1, <1>2, <1>3

(* A loop that has not run anything yet.                                   *)
LEMMA InitTypes == ASSUME Init PROVE TypeOK
<1>1. reply \in Reply /\ cell \in Cell /\ restart \in [proc : Nat, run : Nat]
  BY DEF Init, Reply, StopReasons, Blocks, Cell, NoRequest
<1>2. pc \in Points /\ lastError \in Errors /\ event.run \in Nat
  BY DEF Init, Points, Errors
<1>3. call \in Kernel!CallStates /\ generation \in Nat /\ process \in Nat \ {0}
  BY ConfigAssumption DEF Init, Kernel!Init, Kernel!CallStates
<1>4. /\ run = 0 /\ turn = 0 /\ executions = 0 /\ repairs = 0
      /\ active = 0 /\ interrupted = <<>> /\ rpcs = 0
  BY DEF Init
<1>5. messages \in Seq(Message)
  BY DEF Init
<1>6. replaced \in BOOLEAN /\ isRunning \in BOOLEAN
  BY Zenon DEF Init
<1>7. raising = "none" /\ tail = "idle" /\ deadline = "off"
  BY DEF Init
<1> QED
  BY <1>1, <1>2, <1>3, <1>4, <1>5, <1>6, <1>7 DEF TypeOK

(* Every variable of the loop keeps its type, whatever the configuration.  *)
THEOREM TypeCorrect == Spec => []TypeOK
<1>1. Init => TypeOK
  BY InitTypes
<1>2. TypeOK /\ [Next]_vars => TypeOK'
  BY NextTypes
<1> QED
  BY <1>1, <1>2, PTL DEF Spec

-----------------------------------------------------------------------------
(* The transcript.  Which message may be appended next depends on the      *)
(* latest one, and the loop does not look at it: it relies on where it     *)
(* stands.  The inductive invariant says what that tells of the latest     *)
(* message.                                                                *)

Latest == messages[Len(messages)]

Executing == {"exec_start", "executing", "exec_end"}

Executed == {"execution_start", "execution_end", "kernel_failed", "restarting",
             "kernel_restarted"}

(* A request may go out, or the loop is on its way to one.                 *)
NothingOpen == Executed \cup
    {"user_start", "user_end", "turn_start", "assistant_start", "streaming", "final_delta",
     "repair_start", "repair_end", "repair_turn_end", "notice_start", "notice_end", "turn_end"}

Standing ==
    /\ pc \in NothingOpen => messages # <<>> /\ Latest.kind # "assistant"
    /\ pc \in Executed => Latest.kind = "execution"
    /\ pc = "assistant_end" => messages # <<>> /\ Latest = Assistant(reply)
    /\ pc \in Executing =>
            messages # <<>> /\ Latest = Assistant([stop |-> "stop", block |-> "exec"])

TranscriptInv == TypeOK /\ TranscriptShape /\ Standing

(* A message that may follow the latest one keeps a transcript well formed. *)
LEMMA AppendWellFormed ==
    ASSUME NEW transcript \in Seq(Message), NEW m \in Message, WellFormed(transcript),
           IF transcript = <<>> THEN m = User ELSE Follows(transcript[Len(transcript)], m)
    PROVE  WellFormed(Append(transcript, m))
<1> DEFINE longer == Append(transcript, m)
<1>1. /\ Len(longer) = Len(transcript) + 1
      /\ longer[Len(transcript) + 1] = m
      /\ \A j \in 1 .. Len(transcript) : longer[j] = transcript[j]
      /\ DOMAIN longer = 1 .. Len(transcript) + 1
      /\ DOMAIN transcript = 1 .. Len(transcript)
      /\ Len(transcript) \in Nat
  OBVIOUS
<1> SUFFICES ASSUME NEW i \in DOMAIN longer
             PROVE  IF i = 1 THEN longer[i] = User ELSE Follows(longer[i - 1], longer[i])
  BY DEF WellFormed
<1>2. CASE i = Len(transcript) + 1
  <2>1. CASE transcript = <<>>
    BY <1>1, <1>2, <2>1
  <2>2. CASE transcript # <<>>
    <3>1. Len(transcript) >= 1 /\ Follows(transcript[Len(transcript)], m)
      BY <2>2
    <3>2. longer[i - 1] = transcript[Len(transcript)]
      BY <1>1, <1>2, <3>1
    <3> QED
      BY <1>1, <1>2, <3>1, <3>2
  <2> QED
    BY <2>1, <2>2
<1>3. CASE i # Len(transcript) + 1
  <2>1. i \in 1 .. Len(transcript)
    BY <1>1, <1>3
  <2>2. longer[i] = transcript[i] /\ (i # 1 => longer[i - 1] = transcript[i - 1])
    BY <1>1, <2>1
  <2> QED
    BY <1>1, <2>1, <2>2 DEF WellFormed
<1> QED
  BY <1>2, <1>3

(* A step that appends nothing must not claim more of the latest message   *)
(* than was known.                                                         *)
LEMMA Unappended ==
    ASSUME TranscriptInv, UNCHANGED messages,
           pc' \in NothingOpen => pc \in NothingOpen,
           pc' \in Executed => pc \in Executed,
           pc' = "assistant_end" => pc = "assistant_end" /\ UNCHANGED reply,
           pc' \in Executing => pc \in Executing \/ (pc = "assistant_end" /\ Runnable(reply))
    PROVE  TranscriptShape' /\ Standing'
<1>1. TranscriptShape'
  BY DEF TranscriptInv, TranscriptShape
<1>2. Runnable(reply) => Assistant(reply) = Assistant([stop |-> "stop", block |-> "exec"])
  BY DEF TranscriptInv, TypeOK, Reply, StopReasons, Blocks, Runnable, ProviderFailed, NeedsRepair,
         NothingToRun, Assistant
<1>3. Latest' = Latest
  BY DEF Latest
<1>4. /\ pc' \in NothingOpen => messages' # <<>> /\ Latest'.kind # "assistant"
      /\ pc' \in Executed => Latest'.kind = "execution"
  BY <1>3 DEF TranscriptInv, Standing
<1>5. pc' = "assistant_end" => messages' # <<>> /\ Latest' = Assistant(reply')
  BY <1>3 DEF TranscriptInv, Standing
<1>6. pc' \in Executing =>
          messages' # <<>> /\ Latest' = Assistant([stop |-> "stop", block |-> "exec"])
  BY <1>2, <1>3 DEF TranscriptInv, Standing
<1> QED
  BY <1>1, <1>4, <1>5, <1>6 DEF Standing

(* A step that appends m.                                                  *)
LEMMA Appended ==
    ASSUME TranscriptInv, NEW m \in Message, messages' = Append(messages, m),
           IF messages = <<>> THEN m = User ELSE Follows(Latest, m),
           pc' \in NothingOpen => m.kind # "assistant",
           pc' \in Executed => m.kind = "execution",
           pc' = "assistant_end" => m = Assistant(reply'),
           pc' \notin Executing
    PROVE  TranscriptShape' /\ Standing'
<1>1. messages \in Seq(Message) /\ WellFormed(messages)
  BY DEF TranscriptInv, TypeOK, TranscriptShape
<1>2. TranscriptShape'
  BY <1>1, AppendWellFormed DEF TranscriptShape, Latest
<1>3. messages' # <<>> /\ Latest' = m
  BY <1>1 DEF Latest
<1> QED
  BY <1>2, <1>3 DEF Standing

(* The user message may follow anything.                                   *)
LEMMA OpeningTranscript == ASSUME TranscriptInv, Opening PROVE TranscriptShape' /\ Standing'
<1> USE DEF NothingOpen, Executed, Executing
<1>1. CASE StepAppending("first_turn_start", "turn_start", "none", User, "user_start")
  <2>1. Follows(Latest, User) /\ User \in Message /\ User.kind = "user"
    BY DEF Follows, User, Message
  <2> QED
    BY <1>1, <2>1, Appended DEF StepAppending
<1>2. CASE Opening /\ UNCHANGED messages
  BY <1>2, Unappended DEF Opening, Step, StepAppending, Emits
<1> QED
  BY <1>1, <1>2 DEF Opening, Step

(* A reply follows a transcript in which nothing is open.                  *)
LEMMA TakeReplyTranscript ==
    ASSUME TranscriptInv, NEW r \in Reply, pc = "streaming", TakeReply(r)
    PROVE  TranscriptShape' /\ Standing'
<1> USE DEF NothingOpen, Executed, Executing
<1>1. CASE pc' = "final_delta" /\ UNCHANGED messages
  BY <1>1, Unappended
<1>2. CASE pc' = "assistant_end" /\ messages' = Append(messages, Assistant(r))
  <2>1. messages # <<>> /\ Follows(Latest, Assistant(r)) /\ Assistant(r) \in Message
    BY DEF TranscriptInv, Standing, Follows, Assistant, Message
  <2>2. reply' = r
    BY DEF TakeReply
  <2> QED
    BY <1>2, <2>1, <2>2, Appended
<1> QED
  BY <1>1, <1>2 DEF TakeReply

(* The stream appends the reply exactly once.                              *)
LEMMA StreamTranscript ==
    ASSUME TranscriptInv, StreamDelta \/ StreamEnds \/ StreamCancelled \/ FinalDelta
    PROVE  TranscriptShape' /\ Standing'
<1>1. CASE StreamDelta
  BY <1>1, Unappended DEF StreamDelta, Step, Emits, NothingOpen, Executed, Executing
<1>2. CASE StreamEnds
  BY <1>2, TakeReplyTranscript DEF StreamEnds
<1>3. CASE StreamCancelled
  BY <1>3, TakeReplyTranscript, CancelledReplyTypes DEF StreamCancelled
<1>4. CASE FinalDelta
  <2>1. messages # <<>> /\ Follows(Latest, Assistant(reply)) /\ Assistant(reply) \in Message
    BY <1>4 DEF FinalDelta, StepAppending, Emits, TranscriptInv, TypeOK, Standing, NothingOpen,
                Follows, Assistant, Message
  <2>2. /\ messages' = Append(messages, Assistant(reply))
        /\ pc' = "assistant_end" /\ reply' = reply
    BY <1>4 DEF FinalDelta, StepAppending
  <2> QED
    BY <2>1, <2>2, Appended DEF NothingOpen, Executed, Executing
<1> QED
  BY <1>1, <1>2, <1>3, <1>4

(* A repair answers a malformed or truncated block; a cell, a complete one. *)
LEMMA DecidingTranscript == ASSUME TranscriptInv, Deciding PROVE TranscriptShape' /\ Standing'
<1> USE DEF NothingOpen, Executed, Executing
<1>1. CASE EndOnReply \/ RefuseExecution \/ BeginExecution
  BY <1>1, Unappended DEF EndOnReply, RefuseExecution, BeginExecution, Emits
<1>2. CASE Repair
  <2>1. messages # <<>> /\ Latest = Assistant(reply)
    BY <1>2 DEF Repair, Emits, TranscriptInv, Standing
  <2>2. Follows(Latest, ProtocolError)
    BY <1>2, <2>1 DEF Repair, ProviderFailed, NeedsRepair, TranscriptInv, TypeOK, Reply,
                      StopReasons, Blocks, Assistant, ProtocolError, Follows
  <2>3. ProtocolError \in Message /\ ProtocolError.kind = "protocol_error"
    BY DEF ProtocolError, Message
  <2> QED
    BY <1>2, <2>1, <2>2, <2>3, Appended DEF Repair
<1> QED
  BY <1>1, <1>2 DEF Deciding

(* The end of a turn appends nothing.                                      *)
LEMMA TurnsTranscript == ASSUME TranscriptInv, Turns PROVE TranscriptShape' /\ Standing'
<1>1. UNCHANGED messages
  BY DEF Turns, Step, RepairTurnEnd, TurnEnd, LastTurnEnd, TurnEnds
<1>2. /\ pc' \in {"repair_end", "repair_turn_end", "turn_start"} => pc \in NothingOpen
      /\ pc' \in {"repair_end", "repair_turn_end", "turn_start", "agent_end"}
  BY DEF Turns, Step, RepairTurnEnd, TurnEnd, LastTurnEnd, TurnEnds, Emits, NextTurn, OpensTurn,
         Finalise, NothingOpen
<1> QED
  BY <1>1, <1>2, Unappended DEF NothingOpen, Executed, Executing

(* Sending the cell appends nothing.                                       *)
LEMMA SubmitTranscript ==
    ASSUME TranscriptInv, SubmitCell PROVE TranscriptShape' /\ Standing'
BY Unappended DEF SubmitCell, Emits, NothingOpen, Executed, Executing

(* What the kernel does meanwhile appends nothing.                         *)
LEMMA KernelWorkTranscript ==
    ASSUME TranscriptInv, KernelWork PROVE TranscriptShape' /\ Standing'
<1>1. UNCHANGED messages
  BY DEF KernelWork, CellEnds, CellOverruns, OverrunCell, CellLost, Replacing,
         ReplacedDuringCell, Restarted, KernelStep
<1>2. \/ UNCHANGED <<pc, reply>>
      \/ pc = "executing" /\ pc' = "exec_end"
      \/ pc = "restarting" /\ pc' = "kernel_restarted"
  BY DEF KernelWork, CellEnds, CellOverruns, OverrunCell, CellLost, Replacing,
         ReplacedDuringCell, Restarted, KernelStep
<1> QED
  BY <1>1, <1>2, Unappended DEF NothingOpen, Executed, Executing

(* The observation answers the block, the notice the observation.          *)
LEMMA ObservingTranscript ==
    ASSUME TranscriptInv, Observing PROVE TranscriptShape' /\ Standing'
<1> USE DEF NothingOpen, Executed, Executing
<1>1. CASE StepAppending("exec_end", "exec_end", "none", Observation, "execution_start")
  <2>1. /\ messages # <<>> /\ Follows(Latest, Observation)
        /\ Observation.kind = "execution"
    BY <1>1 DEF StepAppending, Emits, TranscriptInv, Standing, Follows, Observation, Execution,
                Assistant
  <2>2. Observation \in Message
    BY MessageTypes DEF TranscriptInv
  <2> QED
    BY <1>1, <2>1, <2>2, Appended DEF StepAppending
<1>2. CASE StepAppending("kernel_restarted", "kernel_restarted", "none", PresentNotice,
                         "notice_start")
  <2>1. /\ messages # <<>> /\ Follows(Latest, PresentNotice)
        /\ PresentNotice.kind = "notice"
    BY <1>2 DEF StepAppending, Emits, TranscriptInv, Standing, Follows, PresentNotice, Notice
  <2>2. PresentNotice \in Message
    BY MessageTypes DEF TranscriptInv
  <2> QED
    BY <1>2, <2>1, <2>2, Appended DEF StepAppending
<1>3. CASE ExecutionEnd
  BY <1>3, Unappended DEF ExecutionEnd, Emits
<1>4. CASE Observing /\ UNCHANGED messages /\ ~ExecutionEnd
  BY <1>4, Unappended DEF Observing, Step, StepAppending, Emits
<1> QED
  BY <1>1, <1>2, <1>3, <1>4 DEF Observing, Step

(* An exception leaves the transcript as it is, and nothing is appended    *)
(* after it in this run.                                                   *)
LEMMA RaiseTranscript ==
    ASSUME TranscriptInv, NEW exception, Raise(exception)
    PROVE  TranscriptShape' /\ Standing'
BY Unappended DEF Raise, Finalise, NothingOpen, Executed, Executing

(* An exception appends nothing and goes where nothing is claimed.         *)
LEMMA RaisingTranscript ==
    ASSUME TranscriptInv, EmitRaises \/ StepFails \/ KernelRaises
    PROVE  TranscriptShape' /\ Standing'
BY RaiseTranscript DEF EmitRaises, StepFails, KernelRaises

(* A cancellation appends at most the aborted reply.                       *)
LEMMA CancelTranscript ==
    ASSUME TranscriptInv, DeadlineExpires \/ Interrupt
    PROVE  TranscriptShape' /\ Standing'
<1>1. CASE CancelEmit
  BY <1>1, RaiseTranscript DEF CancelEmit
<1>2. CASE CancelStream
  BY <1>2, StreamTranscript DEF CancelStream
<1>3. CASE CancelCell
  BY <1>3, Unappended DEF CancelCell, OverrunCell, KernelStep
<1>4. CASE CancelKernelCall
  BY <1>4, RaiseTranscript DEF CancelKernelCall
<1> QED
  BY <1>1, <1>2, <1>3, <1>4 DEF DeadlineExpires, Interrupt, Cancel, CancelAll, CancelKernel

(* The start and the end of a run append nothing.                          *)
LEMMA BoundaryTranscript ==
    ASSUME TranscriptInv,
           \/ StartRun \/ Quit \/ AgentEnd \/ Leave \/ Deliver \/ Exited
           \/ ExecOutput \/ TodoChanged \/ RequestRestart \/ UNCHANGED vars
    PROVE  TranscriptShape' /\ Standing'
<1>1. UNCHANGED messages
  BY DEF StartRun, Quit, AgentEnd, Leave, Deliver, Exited, ExecOutput, Step, TodoChanged,
         RequestRestart, ToolCall, vars
<1>2. UNCHANGED <<pc, reply>> \/ pc' \in {"agent_start", "leaving", "prompt", "exited"}
  BY DEF StartRun, Quit, AgentEnd, Leave, Deliver, Exited, ExecOutput, Step, Emits, TodoChanged,
         RequestRestart, ToolCall, vars
<1> QED
  BY <1>1, <1>2, Unappended DEF NothingOpen, Executed, Executing

(* The invariant is inductive.                                             *)
LEMMA NextTranscript ==
    ASSUME TranscriptInv, [Next]_vars
    PROVE  TranscriptShape' /\ Standing'
<1>1. CASE Progress
  BY <1>1, OpeningTranscript, StreamTranscript, DecidingTranscript, TurnsTranscript,
     SubmitTranscript, KernelWorkTranscript, ObservingTranscript, BoundaryTranscript,
     RaisingTranscript
  DEF Progress, KernelWork
<1>2. CASE Next /\ ~Progress
  BY <1>2, BoundaryTranscript, StreamTranscript, RaisingTranscript, CancelTranscript DEF Next
<1> QED
  BY <1>1, <1>2, BoundaryTranscript

(* It holds in every state of every behaviour.                             *)
LEMMA TranscriptInvariant == Spec => []TranscriptInv
<1>1. Init => TranscriptShape /\ Standing
  BY DEF Init, TranscriptShape, WellFormed, Standing, NothingOpen, Executed, Executing
<1>2. TypeOK /\ TranscriptShape /\ Standing /\ [Next]_vars => TranscriptShape' /\ Standing'
  BY NextTranscript DEF TranscriptInv
<1> QED
  BY <1>1, <1>2, TypeCorrect, PTL DEF Spec, TranscriptInv

(* README.md:63, loop.py:119-166: whatever the limits, and however often   *)
(* the run is cancelled, the kernel replaced or an event delivery dead,    *)
(* only the block of a complete reply that ended with "stop" is executed,  *)
(* each reply is answered at most once and none is left open in its run.   *)
THEOREM TranscriptCorrect == Spec => []TranscriptShape
<1>1. TranscriptInv => TranscriptShape
  BY DEF TranscriptInv
<1> QED
  BY <1>1, TranscriptInvariant, PTL

-----------------------------------------------------------------------------
(* Between runs.  A kernel call is in progress only where the loop awaits  *)
(* it, an exception on its way out is at the end of the run, and whatever  *)
(* leads there has cleared is_running and, unless it is an exception, the  *)
(* id of the active run.                                                   *)

CallInProgress == call # "idle" => pc \in {"executing", "restarting"}

RaisingEnds == raising # "none" => pc \in {"agent_end", "leaving"}

RunningKnown ==
    pc \in {"prompt", "agent_end"} \/ (pc = "leaving" /\ raising = "none") => isRunning = FALSE

ActivePoints == Executing \cup {"execution_start", "execution_end", "exited"}

ActiveKnown == active # 0 => raising # "none" \/ pc \in ActivePoints

(* A run without a deadline has none that could expire.                    *)
NoDeadline == HasDeadline = FALSE

ControlInv == CallInProgress /\ RaisingEnds /\ RunningKnown /\ ActiveKnown

(* The loop's own steps.                                                   *)
LEMMA LoopControl ==
    ASSUME TypeOK, ControlInv, Opening \/ StreamDelta \/ StreamEnds \/ FinalDelta \/ Deciding
    PROVE  ControlInv'
<1> USE DEF ControlInv, CallInProgress, RaisingEnds, RunningKnown, ActiveKnown, ActivePoints,
            Executing, outcome, requestVars, kernelVars
<1>1. CASE Opening \/ StreamDelta \/ FinalDelta
  BY <1>1 DEF Opening, StreamDelta, FinalDelta, Step, StepAppending, Emits
<1>2. CASE StreamEnds
  BY <1>2 DEF StreamEnds, TakeReply
<1>3. CASE Deciding
  BY <1>3 DEF Deciding, EndOnReply, Repair, RefuseExecution, BeginExecution, Emits
<1> QED
  BY <1>1, <1>2, <1>3

(* The end of a turn.                                                      *)
LEMMA TurnsControl == ASSUME TypeOK, ControlInv, Turns PROVE ControlInv'
<1> USE DEF ControlInv, CallInProgress, RaisingEnds, RunningKnown, ActiveKnown, ActivePoints,
            Executing, outcome, requestVars, kernelVars
<1>1. /\ pc \in {"repair_start", "repair_end", "repair_turn_end", "turn_end", "last_turn_end"}
      /\ UNCHANGED <<raising, active, call>>
      /\ \/ pc' = "agent_end" /\ isRunning' = FALSE
         \/ pc' \in {"repair_end", "repair_turn_end", "turn_start"} /\ UNCHANGED isRunning
  BY DEF Turns, Step, Emits, RepairTurnEnd, TurnEnd, LastTurnEnd, TurnEnds, NextTurn, OpensTurn,
         Finalise, StopsRunning
<1> QED
  BY <1>1

(* A kernel call begins at exec_start or at execution_end and ends where   *)
(* the loop awaits it.                                                     *)
LEMMA KernelControl ==
    ASSUME TypeOK, ControlInv, SubmitCell \/ KernelWork \/ ExecOutput \/ Observing
    PROVE  ControlInv'
<1> USE DEF ControlInv, CallInProgress, RaisingEnds, RunningKnown, ActiveKnown, ActivePoints,
            Executing, outcome, requestVars, kernelVars
<1>1. CASE SubmitCell \/ ExecOutput
  BY <1>1 DEF SubmitCell, ExecOutput, Step, Emits
<1>2. CASE KernelWork
  <2>1. /\ UNCHANGED <<raising, active, isRunning>>
        /\ \/ pc = "executing" /\ pc' = "exec_end" /\ call' = "idle"
           \/ pc = "restarting" /\ pc' = "kernel_restarted" /\ call' = "idle"
           \/ pc = "executing" /\ UNCHANGED pc
           \/ call # "idle" /\ UNCHANGED pc
    BY <1>2 DEF KernelWork, CellEnds, CellOverruns, OverrunCell, CellLost, Replacing,
                ReplacedDuringCell, Restarted, KernelStep, Kernel!Finish, Kernel!Settle,
                Kernel!Overrun, Kernel!Replace, Kernel!Kill, Kernel!Ready, Kernel!Installed,
                Kernel!Goto
  <2> QED
    BY <2>1
<1>3. CASE ExecutionEnd
  BY <1>3 DEF ExecutionEnd, Emits, Consume
<1>4. CASE Observing /\ ~ExecutionEnd
  BY <1>4 DEF Observing, Step, StepAppending, Emits
<1> QED
  BY <1>1, <1>2, <1>3, <1>4

(* An exception.                                                           *)
LEMMA RaiseControl ==
    ASSUME TypeOK, ControlInv,
           NEW exception \in {"cancelled", "timeout", "error"}, Raise(exception),
           call' = "idle" \/ (UNCHANGED call /\ call = "idle")
    PROVE  ControlInv'
<1>1. /\ raising' # "none" /\ pc' \in {"agent_end", "leaving"}
      /\ pc' = "agent_end" => isRunning' = FALSE
  BY DEF Raise, Finalise, StopsRunning
<1> QED
  BY <1>1 DEF ControlInv, CallInProgress, RaisingEnds, RunningKnown, ActiveKnown

(* Every exception, the deadline's and the user's cancellations among them. *)
LEMMA RaisingControl ==
    ASSUME TypeOK, ControlInv,
           EmitRaises \/ StepFails \/ KernelRaises \/ DeadlineExpires \/ Interrupt
    PROVE  ControlInv'
<1>1. pc \in EmitPoints \cup {"streaming"} => call = "idle"
  BY DEF ControlInv, CallInProgress, EmitPoints, Preamble
<1>2. CASE EmitRaises \/ StepFails \/ CancelEmit
  BY <1>1, <1>2, RaiseControl DEF EmitRaises, StepFails, CancelEmit, kernelVars
<1>3. CASE KernelRaises \/ CancelKernelCall
  <2>1. KernelException \in {"timeout", "error"}
    BY DEF KernelException
  <2> QED
    BY <1>3, <2>1, RaiseControl DEF KernelRaises, CancelKernelCall, Kernel!Abandon
<1>4. CASE CancelStream
  BY <1>1, <1>4 DEF CancelStream, StreamCancelled, TakeReply, ControlInv, CallInProgress,
                    RaisingEnds, RunningKnown, ActiveKnown, ActivePoints, Executing, outcome,
                    requestVars, kernelVars
<1>5. CASE CancelCell
  BY <1>5 DEF CancelCell, OverrunCell, KernelStep, ControlInv, CallInProgress, RaisingEnds,
              RunningKnown, ActiveKnown, ActivePoints, outcome, requestVars
<1> QED
  BY <1>2, <1>3, <1>4, <1>5
  DEF DeadlineExpires, Interrupt, Cancel, CancelAll, CancelKernel

(* The start and the end of a run, and tool calls.  Without a deadline an  *)
(* exception ends the application, and no later prompt sees what it left.  *)
LEMMA BoundaryControl ==
    ASSUME TypeOK, ControlInv, NoDeadline,
           \/ StartRun \/ Quit \/ AgentEnd \/ Leave \/ Deliver \/ Exited
           \/ TodoChanged \/ RequestRestart \/ UNCHANGED vars
    PROVE  ControlInv'
<1> USE DEF ControlInv, CallInProgress, RaisingEnds, RunningKnown, ActiveKnown, ActivePoints,
            Executing, outcome, requestVars, kernelVars
<1>1. CASE StartRun \/ Quit \/ AgentEnd
  BY <1>1 DEF StartRun, Quit, AgentEnd, Step, Emits
<1>2. CASE Leave
  BY <1>2 DEF Leave, DeadlineReported, NoDeadline
<1>3. CASE Deliver \/ Exited \/ TodoChanged \/ RequestRestart \/ UNCHANGED vars
  BY <1>3 DEF Deliver, Exited, TodoChanged, RequestRestart, ToolCall, vars
<1> QED
  BY <1>1, <1>2, <1>3

(* Every step keeps the control of the loop, if no deadline is configured. *)
LEMMA NextControl == ASSUME TypeOK, ControlInv, NoDeadline, [Next]_vars PROVE ControlInv'
<1>1. CASE Progress
  BY <1>1, LoopControl, TurnsControl, KernelControl, BoundaryControl, RaisingControl
  DEF Progress, KernelWork
<1>2. CASE Next /\ ~Progress
  BY <1>2, LoopControl, KernelControl, BoundaryControl, RaisingControl DEF Next
<1> QED
  BY <1>1, <1>2, BoundaryControl

(* It holds in every state of every behaviour.                             *)
LEMMA ControlInvariant == NoDeadline => (Spec => []ControlInv)
<1> SUFFICES ASSUME NoDeadline PROVE Spec => []ControlInv
  OBVIOUS
<1>1. Init => ControlInv
  BY DEF Init, ControlInv, CallInProgress, RaisingEnds, RunningKnown, ActiveKnown, Kernel!Init
<1>2. TypeOK /\ ControlInv /\ [Next]_vars => ControlInv'
  BY NextControl
<1> QED
  BY <1>1, <1>2, TypeCorrect, PTL DEF Spec

(* loop.py:66-107: in the configuration the program ships with, where a    *)
(* run has no deadline, a run that returns to the prompt has left no flag  *)
(* that refuses the next prompt, no kernel call in progress and no run id  *)
(* behind, whatever was cancelled, replaced or lost in it.  (With a        *)
(* deadline the code does leave them: see RefusesOnlyWhileActive.)         *)
THEOREM PromptFindsNothingOpen == NoDeadline => (Spec => []NothingLeftOpen)
<1>1. ControlInv => NothingLeftOpen
  <2> SUFFICES ASSUME ControlInv, pc = "prompt"
               PROVE  ~isRunning /\ active = 0 /\ call = "idle"
    BY DEF NothingLeftOpen, RefusesOnlyWhileActive
  <2>1. isRunning = FALSE
    BY DEF ControlInv, RunningKnown
  <2>2. active = 0 /\ call = "idle"
    BY DEF ControlInv, CallInProgress, RaisingEnds, ActiveKnown, ActivePoints, Executing
  <2> QED
    BY <2>1, <2>2
<1> QED
  BY <1>1, ControlInvariant, PTL

-----------------------------------------------------------------------------
(* The outcome.  No error is reported before the run is decided; from then *)
(* on the error and the latest message say the same.                       *)

Answered == Latest = Assistant([stop |-> "stop", block |-> "none"])

Undecided == Points \ {"prompt", "last_turn_end", "agent_end", "leaving", "exited"}

Decided ==
    \/ pc = "last_turn_end"
    \/ pc \in {"agent_end", "leaving"} /\ raising = "none"
    \/ pc = "prompt" /\ run > 0

OutcomeKnown ==
    /\ pc \in Undecided => lastError = "none"
    /\ Decided => ((lastError = "none") <=> Answered)

OutcomeInv == TranscriptInv /\ ControlInv /\ OutcomeKnown

(* A step within the undecided part of a run reports nothing.              *)
LEMMA StillUndecided ==
    ASSUME OutcomeInv, pc \in Undecided, UNCHANGED lastError, pc' \in Undecided
    PROVE  OutcomeKnown'
BY DEF OutcomeInv, OutcomeKnown, Decided, Undecided

(* The reply decides the run when it is an answer or cannot be run.        *)
LEMMA DecidingOutcome == ASSUME OutcomeInv, Deciding PROVE OutcomeKnown'
<1> USE DEF Undecided, Points, EmitPoints
<1>1. pc = "assistant_end" /\ lastError = "none" /\ Latest = Assistant(reply)
  BY DEF Deciding, EndOnReply, Repair, RefuseExecution, BeginExecution, Emits, OutcomeInv,
         OutcomeKnown, TranscriptInv, Standing
<1>2. reply \in Reply
  BY DEF OutcomeInv, TranscriptInv, TypeOK
<1>3. Answered <=> reply = [stop |-> "stop", block |-> "none"]
  BY <1>1, <1>2 DEF Answered, Assistant
<1>4. CASE EndOnReply \/ RefuseExecution
  <2>1. /\ pc' = "last_turn_end" /\ UNCHANGED messages
        /\ (lastError' = "none") <=> reply = [stop |-> "stop", block |-> "none"]
    BY <1>1, <1>2, <1>4
    DEF EndOnReply, RefuseExecution, ReplyError, Runnable, ProviderFailed, NeedsRepair,
        NothingToRun, Reply, StopReasons, Blocks
  <2>2. Answered' <=> Answered
    BY <2>1 DEF Answered, Latest
  <2> QED
    BY <1>3, <2>1, <2>2 DEF OutcomeKnown, Decided
<1>5. CASE Repair \/ BeginExecution
  BY <1>1, <1>5, StillUndecided DEF Repair, BeginExecution, outcome
<1> QED
  BY <1>4, <1>5 DEF Deciding

(* A turn that is the last ends with an observation, not with an answer.   *)
LEMMA TurnsOutcome == ASSUME OutcomeInv, Turns PROVE OutcomeKnown'
<1> USE DEF Undecided, Points, EmitPoints
<1>1. UNCHANGED messages /\ (Answered' <=> Answered)
  BY DEF Turns, Step, RepairTurnEnd, TurnEnd, LastTurnEnd, TurnEnds, Answered, Latest
<1>2. CASE LastTurnEnd
  BY <1>1, <1>2 DEF LastTurnEnd, TurnEnds, Emits, Finalise, OutcomeInv, OutcomeKnown, Decided
<1>3. CASE /\ pc \in {"repair_start", "repair_end", "repair_turn_end", "turn_end"}
           /\ pc' \in {"repair_end", "repair_turn_end", "turn_start"}
           /\ UNCHANGED lastError
  BY <1>3, StillUndecided
<1>4. CASE /\ pc \in {"repair_turn_end", "turn_end"}
           /\ pc' = "agent_end"
           /\ lastError' \in {"turns", "repairs"}
  <2>1. Latest.kind # "assistant"
    BY <1>4 DEF OutcomeInv, TranscriptInv, Standing, NothingOpen
  <2>2. ~Answered
    BY <2>1 DEF Answered, Assistant
  <2> QED
    BY <1>1, <1>4, <2>2 DEF OutcomeKnown, Decided
<1> QED
  BY <1>2, <1>3, <1>4
  DEF Turns, Step, Emits, RepairTurnEnd, TurnEnd, TurnEnds, NextTurn, OpensTurn, Finalise, outcome

(* Opening, streaming, executing and observing report nothing.             *)
LEMMA WorkOutcome ==
    ASSUME OutcomeInv,
           \/ Opening \/ StreamDelta \/ StreamEnds \/ FinalDelta
           \/ SubmitCell \/ KernelWork \/ ExecOutput \/ Observing
    PROVE  OutcomeKnown'
<1> USE DEF Undecided, Points, EmitPoints, Preamble
<1>1. CASE Opening \/ StreamDelta \/ FinalDelta \/ ExecOutput \/ SubmitCell
  BY <1>1, StillUndecided
  DEF Opening, StreamDelta, FinalDelta, ExecOutput, SubmitCell, Step, StepAppending, Emits, outcome
<1>2. CASE StreamEnds
  BY <1>2, StillUndecided DEF StreamEnds, TakeReply, outcome
<1>3. CASE Observing
  BY <1>3, StillUndecided
  DEF Observing, ExecutionEnd, Step, StepAppending, Emits, outcome
<1>4. CASE KernelWork
  <2>1. /\ UNCHANGED <<lastError, raising, run, messages>>
        /\ \/ pc = "executing" /\ pc' = "exec_end"
           \/ pc = "restarting" /\ pc' = "kernel_restarted"
           \/ UNCHANGED pc
    BY <1>4 DEF KernelWork, CellEnds, CellOverruns, OverrunCell, CellLost, Replacing,
                ReplacedDuringCell, Restarted, KernelStep, outcome
  <2> QED
    BY <2>1 DEF OutcomeInv, OutcomeKnown, Decided, Answered, Latest
<1> QED
  BY <1>1, <1>2, <1>3, <1>4

(* An exception reports nothing, and the prompt does not come back.        *)
LEMMA RaisingOutcome ==
    ASSUME OutcomeInv,
           EmitRaises \/ StepFails \/ KernelRaises \/ DeadlineExpires \/ Interrupt
    PROVE  OutcomeKnown'
<1> USE DEF Undecided, Points, EmitPoints, Preamble
<1>1. ASSUME NEW exception \in {"cancelled", "timeout", "error"}, Raise(exception)
      PROVE  OutcomeKnown'
  BY <1>1 DEF Raise, Finalise, OutcomeKnown, Decided
<1>2. CASE EmitRaises \/ StepFails \/ CancelEmit \/ KernelRaises \/ CancelKernelCall
  BY <1>1, <1>2 DEF EmitRaises, StepFails, CancelEmit, KernelRaises, KernelException,
                    CancelKernelCall
<1>3. CASE CancelStream
  BY <1>3, StillUndecided DEF CancelStream, StreamCancelled, TakeReply, outcome
<1>4. CASE CancelCell
  BY <1>4, StillUndecided DEF CancelCell, OverrunCell, KernelStep, outcome
<1> QED
  BY <1>2, <1>3, <1>4 DEF DeadlineExpires, Interrupt, Cancel, CancelAll, CancelKernel

(* The start and the end of a run, and tool calls.                         *)
LEMMA BoundaryOutcome ==
    ASSUME OutcomeInv, NoDeadline,
           \/ StartRun \/ Quit \/ AgentEnd \/ Leave \/ Deliver \/ Exited
           \/ TodoChanged \/ RequestRestart \/ UNCHANGED vars
    PROVE  OutcomeKnown'
<1> USE DEF Undecided, Points, EmitPoints, Preamble, outcome
<1>1. UNCHANGED messages /\ (Answered' <=> Answered)
  BY DEF StartRun, Quit, AgentEnd, Leave, Deliver, Exited, Step, TodoChanged, RequestRestart,
         ToolCall, vars, Answered, Latest
<1>2. CASE StartRun \/ Quit
  BY <1>2 DEF StartRun, Quit, OutcomeKnown, Decided
<1>3. CASE AgentEnd
  BY <1>1, <1>3 DEF AgentEnd, Step, Emits, OutcomeInv, OutcomeKnown, Decided
<1>4. CASE Leave
  <2>1. /\ pc' = (IF raising = "none" THEN "prompt" ELSE "exited")
        /\ pc = "leaving" /\ UNCHANGED lastError
    BY <1>4 DEF Leave, DeadlineReported, NoDeadline
  <2> QED
    BY <1>1, <2>1 DEF OutcomeInv, OutcomeKnown, Decided
<1>5. CASE Deliver \/ Exited \/ TodoChanged \/ RequestRestart \/ UNCHANGED vars
  BY <1>1, <1>5
  DEF Deliver, Exited, TodoChanged, RequestRestart, ToolCall, vars, OutcomeInv, OutcomeKnown,
      Decided
<1> QED
  BY <1>2, <1>3, <1>4, <1>5

(* Every step keeps what is known of the outcome.                          *)
LEMMA NextOutcome == ASSUME OutcomeInv, NoDeadline, [Next]_vars PROVE OutcomeKnown'
<1>1. CASE Progress
  BY <1>1, WorkOutcome, DecidingOutcome, TurnsOutcome, BoundaryOutcome, RaisingOutcome
  DEF Progress, KernelWork
<1>2. CASE Next /\ ~Progress
  BY <1>2, WorkOutcome, BoundaryOutcome, RaisingOutcome DEF Next
<1> QED
  BY <1>1, <1>2, BoundaryOutcome

(* loop.py:103-107: without a deadline, a run that returned to the prompt  *)
(* has reported an error exactly when the transcript does not end in a     *)
(* complete answer, whichever limit, failure or refusal ended it.          *)
THEOREM ErrorTellsTheOutcome == NoDeadline => (Spec => []OutcomeReported)
<1> SUFFICES ASSUME NoDeadline PROVE Spec => []OutcomeReported
  OBVIOUS
<1>1. Init => OutcomeKnown
  BY DEF Init, OutcomeKnown, Undecided, Decided
<1>2. TranscriptInv /\ ControlInv /\ OutcomeKnown /\ [Next]_vars => OutcomeKnown'
  BY NextOutcome DEF OutcomeInv
<1>3. OutcomeKnown => OutcomeReported
  BY DEF OutcomeKnown, OutcomeReported, Decided, Answered, Latest
<1>4. Spec => []ControlInv
  BY ControlInvariant
<1> QED
  BY <1>1, <1>2, <1>3, <1>4, TranscriptInvariant, PTL DEF Spec

-----------------------------------------------------------------------------
(* Memory losses.  The notice for a replaced process is owed from the end  *)
(* of the old process until it is appended; wherever else a run stands     *)
(* that may still make a request, the present process is announced.        *)

AnnouncedIn(transcript, gen, proc) ==
    proc = 1 \/ \E i \in DOMAIN transcript : transcript[i] = Notice([gen |-> gen, proc |-> proc])

Announced == AnnouncedIn(messages, generation, process)

Owed ==
    \/ raising # "none" \/ pc = "exited"
    \/ pc \in {"restarting", "kernel_failed", "kernel_restarted"}
    \/ pc \in {"exec_end", "execution_start", "execution_end"} /\ replaced
    \/ pc = "executing" /\ call \in {"boot", "install"}

AnnouncedOrOwed == Announced \/ Owed

LossInv == TypeOK /\ ControlInv /\ AnnouncedOrOwed

(* A message appended takes back no announcement.                          *)
LEMMA StillAnnounced ==
    ASSUME LossInv, Announced, UNCHANGED <<generation, process>>,
           UNCHANGED messages \/ \E m \in Message : messages' = Append(messages, m)
    PROVE  Announced'
<1>1. messages \in Seq(Message)
  BY DEF LossInv, TypeOK
<1>2. \A i \in DOMAIN messages : i \in DOMAIN messages' /\ messages'[i] = messages[i]
  BY <1>1
<1> QED
  BY <1>2 DEF Announced, AnnouncedIn

(* A step that neither replaces the process nor leaves a point where the   *)
(* notice is owed.                                                         *)
LEMMA StepAnnounced ==
    ASSUME LossInv, UNCHANGED <<generation, process>>,
           UNCHANGED messages \/ \E m \in Message : messages' = Append(messages, m),
           Owed => Owed'
    PROVE  AnnouncedOrOwed'
BY StillAnnounced DEF LossInv, AnnouncedOrOwed

(* The loop outside of an execution.                                       *)
LEMMA LoopAnnounced ==
    ASSUME LossInv, Opening \/ StreamDelta \/ StreamEnds \/ FinalDelta \/ Deciding \/ Turns
    PROVE  AnnouncedOrOwed'
<1> USE DEF kernelVars
<1>1. UNCHANGED <<generation, process, raising>>
  BY DEF Opening, StreamDelta, StreamEnds, FinalDelta, Deciding, EndOnReply, Repair,
         RefuseExecution, BeginExecution, Turns, RepairTurnEnd, TurnEnd, LastTurnEnd, TurnEnds,
         Step, StepAppending, Emits
<1>2. Owed => Owed'
  <2>1. pc \notin {"exited", "restarting", "kernel_failed", "kernel_restarted", "exec_end",
                   "execution_start", "execution_end", "executing"}
    BY DEF Opening, StreamDelta, StreamEnds, FinalDelta, Deciding, EndOnReply, Repair,
           RefuseExecution, BeginExecution, Turns, RepairTurnEnd, TurnEnd, LastTurnEnd, TurnEnds,
           Step, StepAppending, Emits
  <2> QED
    BY <1>1, <2>1 DEF Owed
<1>3. \A r \in Reply : Assistant(r) \in Message
  BY DEF Assistant, Message
<1>4. /\ User \in Message /\ ProtocolError \in Message
      /\ Assistant(reply) \in Message
  BY MessageTypes DEF LossInv
<1>5. UNCHANGED messages \/ \E m \in Message : messages' = Append(messages, m)
  <2>1. CASE StreamEnds
    BY <1>3, <2>1 DEF StreamEnds, TakeReply
  <2>2. CASE Opening \/ FinalDelta \/ Deciding
    BY <1>4, <2>2 DEF Opening, FinalDelta, Deciding, EndOnReply, Repair, RefuseExecution,
                      BeginExecution, Step, StepAppending
  <2>3. CASE StreamDelta \/ Turns
    BY <2>3 DEF StreamDelta, Turns, RepairTurnEnd, TurnEnd, LastTurnEnd, TurnEnds, Step
  <2> QED
    BY <2>1, <2>2, <2>3
<1> QED
  BY <1>1, <1>2, <1>5, StepAnnounced

(* The end of a process makes the notice owed, whether it ended in a       *)
(* cell, which is then said to have been replaced, or in a restart.        *)
LEMMA KernelAnnounced ==
    ASSUME LossInv, SubmitCell \/ KernelWork \/ ExecOutput
    PROVE  AnnouncedOrOwed'
<1> USE DEF LossInv
<1>1. CASE SubmitCell \/ ExecOutput
  BY <1>1, StepAnnounced
  DEF SubmitCell, ExecOutput, Step, Emits, Owed, kernelVars, Kernel!Submit, Kernel!Goto, cellVars
<1>2. CASE KernelWork
  <2>1. UNCHANGED <<messages, raising>>
    BY <1>2 DEF KernelWork, CellEnds, CellOverruns, OverrunCell, CellLost, Replacing,
                ReplacedDuringCell, Restarted, KernelStep
  <2>2. CASE CellEnds \/ CellOverruns \/ CellLost
    <3>1. call \in {"idle", "execute", "recover"} /\ UNCHANGED <<generation, process>>
      BY <2>2 DEF CellEnds, CellOverruns, OverrunCell, CellLost, Kernel!Finish, Kernel!Settle,
                  Kernel!Overrun, Kernel!Replace, Kernel!Goto
    <3>2. pc = "executing"
      BY <2>2 DEF CellEnds, CellOverruns, OverrunCell, CellLost
    <3> QED
      BY <2>1, <3>1, <3>2, StepAnnounced DEF Owed
  <2>3. CASE Replacing
    <3>1. call \in {"kill", "boot"} /\ call' \in {"boot", "install"} /\ UNCHANGED pc
      BY <2>3 DEF Replacing, Kernel!Kill, Kernel!Ready
    <3>2. pc \in {"executing", "restarting"}
      BY <3>1 DEF ControlInv, CallInProgress
    <3> QED
      BY <3>1, <3>2 DEF AnnouncedOrOwed, Owed
  <2>4. CASE ReplacedDuringCell \/ Restarted
    BY <2>4 DEF ReplacedDuringCell, Restarted, AnnouncedOrOwed, Owed
  <2> QED
    BY <1>2, <2>2, <2>3, <2>4 DEF KernelWork
<1> QED
  BY <1>1, <1>2

(* The notice is appended before the turn ends.                            *)
LEMMA ObservingAnnounced == ASSUME LossInv, Observing PROVE AnnouncedOrOwed'
<1> USE DEF LossInv
<1>1. CASE StepAppending("kernel_restarted", "kernel_restarted", "none", PresentNotice,
                         "notice_start")
  <2>1. messages \in Seq(Message) /\ PresentNotice \in Message
    BY MessageTypes DEF TypeOK
  <2>2. messages' = Append(messages, PresentNotice) /\ UNCHANGED <<generation, process>>
    BY <1>1 DEF StepAppending, kernelVars
  <2>3. Len(messages) + 1 \in DOMAIN messages' /\ messages'[Len(messages) + 1] = PresentNotice
    BY <2>1, <2>2
  <2> QED
    BY <2>2, <2>3 DEF AnnouncedOrOwed, Announced, AnnouncedIn, PresentNotice
<1>2. CASE ExecutionEnd
  <2>1. pc = "execution_end" /\ UNCHANGED <<messages, raising>>
    BY <1>2 DEF ExecutionEnd, Emits
  <2>2. CASE pc' \in {"kernel_failed", "restarting"}
    BY <2>2 DEF AnnouncedOrOwed, Owed
  <2>3. CASE pc' = "turn_end"
    BY <1>2, <2>1, <2>3, StepAnnounced DEF ExecutionEnd, RecordsReplacement, Owed, kernelVars
  <2> QED
    BY <1>2, <2>2, <2>3 DEF ExecutionEnd
<1>3. CASE /\ Observing /\ ~ExecutionEnd
           /\ pc # "kernel_restarted"
  <2>1. Observation \in Message
    BY MessageTypes
  <2>2. /\ UNCHANGED <<generation, process, raising, replaced>>
        /\ UNCHANGED messages \/ messages' = Append(messages, Observation)
        /\ \/ pc = "exec_end" /\ pc' = "execution_start"
           \/ pc = "execution_start" /\ pc' = "execution_end"
           \/ pc = "kernel_failed" /\ pc' = "kernel_restarted"
           \/ pc \in {"notice_start", "notice_end"}
    BY <1>3 DEF Observing, Step, StepAppending, Emits, kernelVars, cellVars
  <2> QED
    BY <2>1, <2>2, StepAnnounced DEF Owed
<1> QED
  BY <1>1, <1>2, <1>3 DEF Observing, Step, StepAppending, Emits

(* After an exception no request is made; a cancelled stream announces     *)
(* what it announced.                                                      *)
LEMMA RaisingAnnounced ==
    ASSUME LossInv,
           EmitRaises \/ StepFails \/ KernelRaises \/ DeadlineExpires \/ Interrupt
    PROVE  AnnouncedOrOwed'
<1> USE DEF LossInv
<1>1. CASE EmitRaises \/ StepFails \/ CancelEmit \/ KernelRaises \/ CancelKernelCall
  BY <1>1 DEF EmitRaises, StepFails, CancelEmit, KernelRaises, KernelException,
              CancelKernelCall, Raise, AnnouncedOrOwed, Owed
<1>2. CASE CancelStream
  <2>1. \A b \in Blocks : Assistant(CancelledReply(b)) \in Message
    BY CancelledReplyTypes DEF Assistant, Message
  <2>2. /\ pc = "streaming"
        /\ UNCHANGED <<generation, process, raising>>
        /\ UNCHANGED messages \/ \E m \in Message : messages' = Append(messages, m)
    BY <1>2, <2>1 DEF CancelStream, StreamCancelled, TakeReply, kernelVars
  <2> QED
    BY <2>2, StepAnnounced DEF Owed
<1>3. CASE CancelCell
  BY <1>3, StepAnnounced DEF CancelCell, OverrunCell, KernelStep, Kernel!Overrun, Kernel!Goto, Owed
<1> QED
  BY <1>1, <1>2, <1>3 DEF DeadlineExpires, Interrupt, Cancel, CancelAll, CancelKernel

(* The start and the end of a run, and tool calls.  Only without a         *)
(* deadline does an exception end the application, and with it what was    *)
(* owed.                                                                   *)
LEMMA BoundaryAnnounced ==
    ASSUME LossInv, NoDeadline,
           \/ StartRun \/ Quit \/ AgentEnd \/ Leave \/ Deliver \/ Exited
           \/ TodoChanged \/ RequestRestart \/ UNCHANGED vars
    PROVE  AnnouncedOrOwed'
<1>1. UNCHANGED <<messages, generation, process>>
  BY DEF StartRun, Quit, AgentEnd, Leave, Deliver, Exited, Step, TodoChanged, RequestRestart,
         ToolCall, vars, kernelVars
<1>2. Owed => Owed'
  <2>1. CASE StartRun \/ Quit \/ AgentEnd
    BY <2>1 DEF StartRun, Quit, AgentEnd, Step, Emits, Owed
  <2>2. CASE Leave
    BY <2>2 DEF Leave, DeadlineReported, NoDeadline, Owed
  <2>3. CASE Deliver \/ Exited \/ TodoChanged \/ RequestRestart \/ UNCHANGED vars
    BY <2>3 DEF Deliver, Exited, TodoChanged, RequestRestart, ToolCall, vars, Owed, kernelVars,
                cellVars
  <2> QED
    BY <2>1, <2>2, <2>3
<1> QED
  BY <1>1, <1>2, StepAnnounced

(* Every step keeps the announcement, or owes it.                          *)
LEMMA NextAnnounced == ASSUME LossInv, NoDeadline, [Next]_vars PROVE AnnouncedOrOwed'
<1>1. CASE Progress
  BY <1>1, LoopAnnounced, KernelAnnounced, ObservingAnnounced, BoundaryAnnounced,
     RaisingAnnounced
  DEF Progress, KernelWork
<1>2. CASE Next /\ ~Progress
  BY <1>2, LoopAnnounced, KernelAnnounced, BoundaryAnnounced, RaisingAnnounced DEF Next
<1> QED
  BY <1>1, <1>2, BoundaryAnnounced

(* PLAN 15.5, README.md:80: without a deadline, the model is told of every *)
(* loss of its memory, in a cell or by a restart, before the next request. *)
THEOREM LossAnnounced == NoDeadline => (Spec => []MemoryLossAnnounced)
<1> SUFFICES ASSUME NoDeadline PROVE Spec => []MemoryLossAnnounced
  OBVIOUS
<1>1. Init => AnnouncedOrOwed
  BY DEF Init, Kernel!Init, AnnouncedOrOwed, Announced, AnnouncedIn
<1>2. TypeOK /\ ControlInv /\ AnnouncedOrOwed /\ [Next]_vars => AnnouncedOrOwed'
  BY NextAnnounced DEF LossInv
<1>3. ControlInv /\ AnnouncedOrOwed => MemoryLossAnnounced
  BY DEF ControlInv, RaisingEnds, AnnouncedOrOwed, Owed, Announced, AnnouncedIn,
         MemoryLossAnnounced
<1>4. Spec => []ControlInv
  BY ControlInvariant
<1> QED
  BY <1>1, <1>2, <1>3, <1>4, TypeCorrect, PTL DEF Spec

-----------------------------------------------------------------------------
(* The limits.  What the transcript holds since the latest prompt is       *)
(* bounded by the loop's counters, less the cell on its way, and more the  *)
(* reply of the present turn.                                              *)

Since(kind) ==
    {j \in DOMAIN messages :
        messages[j].kind = kind /\ \A i \in DOMAIN messages : IsLatestUser(i) => i < j}

(* A prompt is the only message of its kind.                               *)
LEMMA OnlyUserIsUser == \A m \in Message : m.kind = "user" <=> m = User
BY DEF Message, User, ProtocolError

(* The counts are numbers.                                                 *)
LEMMA CountIsNumber ==
    ASSUME messages \in Seq(Message), NEW kind
    PROVE  /\ IsFiniteSet(Since(kind)) /\ Len(messages) + 1 \notin Since(kind)
           /\ SinceUser(kind) = Cardinality(Since(kind))
           /\ SinceUser(kind) \in Nat
<1>1. Since(kind) \subseteq 1 .. Len(messages) /\ Len(messages) \in Nat
  BY DEF Since
<1>2. IsFiniteSet(Since(kind))
  <2>1. IsFiniteSet(1 .. Len(messages))
    BY <1>1, FS_Interval
  <2> QED
    BY <1>1, <2>1, FS_Subset
<1>3. SinceUser(kind) = Cardinality(Since(kind))
  BY DEF SinceUser, Since
<1> QED
  BY <1>1, <1>2, <1>3, FS_CardinalityType

(* A prompt appended starts the counts again.                              *)
LEMMA PromptRestartsCounts ==
    ASSUME messages \in Seq(Message), messages' = Append(messages, User), NEW kind
    PROVE  SinceUser(kind)' = 0
<1> PICK last \in Nat : last = Len(messages) + 1
  OBVIOUS
<1>1. User \in Message
  BY DEF Message
<1>2. DOMAIN messages' = 1 .. last /\ messages'[last] = User /\ last \in Nat \ {0}
  BY <1>1
<1>3. last \in DOMAIN messages' /\ IsLatestUser(last)'
  BY <1>2 DEF IsLatestUser
<1>4. Since(kind)' = {}
  BY <1>2, <1>3 DEF Since
<1>5. SinceUser(kind)' = Cardinality(Since(kind)')
  BY DEF SinceUser, Since
<1> QED
  BY <1>4, <1>5, FS_EmptySet

(* Any other message counts for its kind alone.                            *)
LEMMA MessageCounts ==
    ASSUME messages \in Seq(Message), NEW m \in Message, m.kind # "user",
           messages' = Append(messages, m), NEW kind
    PROVE  SinceUser(kind)' = SinceUser(kind) + IF m.kind = kind THEN 1 ELSE 0
<1> PICK last \in Nat : last = Len(messages) + 1
  OBVIOUS
<1>1. /\ DOMAIN messages' = 1 .. last /\ messages'[last] = m
      /\ DOMAIN messages = 1 .. Len(messages) /\ Len(messages) \in Nat
      /\ \A i \in DOMAIN messages : messages'[i] = messages[i]
  OBVIOUS
<1>2. m # User
  BY OnlyUserIsUser
<1>3. \A i \in DOMAIN messages' :
          IsLatestUser(i)' <=> i \in DOMAIN messages /\ IsLatestUser(i)
  BY <1>1, <1>2 DEF IsLatestUser
<1>4. Since(kind)' = Since(kind) \cup IF m.kind = kind THEN {last} ELSE {}
  BY <1>1, <1>3 DEF Since
<1>5. SinceUser(kind)' = Cardinality(Since(kind)')
  BY DEF SinceUser, Since
<1>6. /\ IsFiniteSet(Since(kind)) /\ last \notin Since(kind)
      /\ SinceUser(kind) = Cardinality(Since(kind)) /\ SinceUser(kind) \in Nat
  BY CountIsNumber
<1>7. CASE m.kind = kind
  <2>1. Since(kind)' = Since(kind) \cup {last}
    BY <1>4, <1>7
  <2>2. Cardinality(Since(kind) \cup {last}) = Cardinality(Since(kind)) + 1
    BY <1>6, FS_AddElement
  <2> QED
    BY <1>5, <1>6, <1>7, <2>1, <2>2
<1>8. CASE m.kind # kind
  BY <1>4, <1>5, <1>6, <1>8
<1> QED
  BY <1>7, <1>8

InRun == Points \ {"prompt", "agent_start", "first_turn_start", "agent_end", "leaving", "exited"}

(* The reply of the present turn is in the transcript.                     *)
Replied ==
    Executing \cup Executed \cup
    {"assistant_end", "last_turn_end", "repair_start", "repair_end", "repair_turn_end",
     "notice_start", "notice_end", "turn_end"}

Repairing == {"repair_start", "repair_end", "repair_turn_end"}

One(points) == IF pc \in points THEN 1 ELSE 0

CountersHold ==
    /\ executions <= MaxExecutions
    /\ turn < MaxTurns
    /\ repairs <= MaxRepairs + One(Repairing)

CountsHold ==
    /\ SinceUser("execution") + One(Executing) <= executions
    /\ SinceUser("assistant") <= turn + One(Replied)
    /\ SinceUser("protocol_error") <= repairs

Counted ==
    /\ pc \in InRun \cup {"agent_start", "first_turn_start"} => CountersHold
    /\ IF pc \in InRun THEN CountsHold ELSE LimitsHold

CountInv == TypeOK /\ Counted

(* What the loop counts keeps the limits.                                  *)
LEMMA CountsKeepLimits == ASSUME CountInv PROVE LimitsHold
<1>1. /\ SinceUser("execution") \in Nat
      /\ SinceUser("assistant") \in Nat
      /\ SinceUser("protocol_error") \in Nat
  BY CountIsNumber DEF CountInv, TypeOK
<1>2. /\ executions \in Nat /\ turn \in Nat /\ repairs \in Nat
      /\ One(Executing) \in {0, 1} /\ One(Replied) \in {0, 1} /\ One(Repairing) \in {0, 1}
  BY DEF CountInv, TypeOK, One
<1> QED
  BY <1>1, <1>2, ConfigAssumption DEF CountInv, Counted, CountersHold, CountsHold, LimitsHold

(* A step that appends nothing and counts nothing.                         *)
LEMMA NothingCounted ==
    ASSUME CountInv, UNCHANGED <<messages, turn, executions, repairs>>,
           pc' \in InRun =>
               /\ pc \in InRun
               /\ pc' \in Executing => pc \in Executing
               /\ pc \in Replied => pc' \in Replied
               /\ pc \in Repairing => pc' \in Repairing \/ repairs <= MaxRepairs,
           pc' \in {"agent_start", "first_turn_start"} =>
               pc \in {"agent_start", "first_turn_start"}
    PROVE  Counted'
<1> USE DEF CountInv
<1>1. \A kind : SinceUser(kind)' = SinceUser(kind)
  BY DEF SinceUser, IsLatestUser
<1>2. LimitsHold
  BY CountsKeepLimits
<1>3. LimitsHold'
  BY <1>1, <1>2 DEF LimitsHold
<1>4. /\ SinceUser("execution") \in Nat /\ SinceUser("assistant") \in Nat
      /\ SinceUser("protocol_error") \in Nat
      /\ executions \in Nat /\ turn \in Nat /\ repairs \in Nat
  BY CountIsNumber DEF TypeOK
<1>5. CASE pc' \in InRun
  BY <1>1, <1>4, <1>5, ConfigAssumption DEF Counted, CountersHold, CountsHold, One
<1>6. CASE pc' \in {"agent_start", "first_turn_start"}
  BY <1>3, <1>6, ConfigAssumption DEF Counted, CountersHold, One, InRun, Repairing
<1>7. CASE pc' \notin InRun \cup {"agent_start", "first_turn_start"}
  BY <1>3, <1>7 DEF Counted
<1> QED
  BY <1>5, <1>6, <1>7

(* A message that is not a prompt counts for its kind.                     *)
LEMMA AppendCounted ==
    ASSUME CountInv, NEW m \in Message, m.kind # "user", messages' = Append(messages, m)
    PROVE  /\ SinceUser("execution") \in Nat
           /\ SinceUser("assistant") \in Nat
           /\ SinceUser("protocol_error") \in Nat
           /\ \A kind : m.kind # kind => SinceUser(kind)' = SinceUser(kind)
           /\ \A kind : m.kind = kind => SinceUser(kind)' = SinceUser(kind) + 1
<1>1. messages \in Seq(Message)
  BY DEF CountInv, TypeOK
<1>2. \A kind : SinceUser(kind)' = SinceUser(kind) + IF m.kind = kind THEN 1 ELSE 0
  BY <1>1, MessageCounts
<1>3. \A kind : SinceUser(kind) \in Nat
  BY <1>1, CountIsNumber
<1> QED
  BY <1>2, <1>3

(* The prompt is appended with nothing spent.                              *)
LEMMA OpeningCounted == ASSUME CountInv, Opening PROVE Counted'
<1> USE DEF InRun, Points, EmitPoints, Preamble, Executing, Executed, Replied, Repairing
<1>1. CASE StepAppending("first_turn_start", "turn_start", "none", User, "user_start")
  <2>1. pc = "first_turn_start" /\ pc' = "user_start" /\ UNCHANGED <<turn, executions, repairs>>
    BY <1>1 DEF StepAppending, Emits, counters
  <2>2. messages \in Seq(Message) /\ messages' = Append(messages, User)
    BY <1>1 DEF StepAppending, CountInv, TypeOK
  <2>3. \A kind : SinceUser(kind)' = 0
    BY <2>2, PromptRestartsCounts
  <2>4. CountersHold
    BY <2>1 DEF CountInv, Counted
  <2> QED
    BY <2>1, <2>3, <2>4, ConfigAssumption
    DEF CountInv, TypeOK, Counted, CountersHold, CountsHold, One
<1>2. CASE Opening /\ pc # "first_turn_start"
  <2>1. /\ UNCHANGED <<messages, turn, executions, repairs>>
        /\ \/ pc = "agent_start" /\ pc' = "first_turn_start"
           \/ /\ pc \in {"user_start", "user_end", "turn_start", "assistant_start"}
              /\ pc' \in {"user_end", "assistant_start", "streaming"}
    BY <1>2 DEF Opening, Step, StepAppending, Emits, counters
  <2> QED
    BY <2>1, NothingCounted
<1> QED
  BY <1>1, <1>2 DEF Opening, Step, StepAppending, Emits

(* A turn has one reply.                                                   *)
LEMMA ReplyCounted ==
    ASSUME CountInv, NEW r \in Reply, pc \in {"streaming", "final_delta"},
           pc' = "assistant_end", messages' = Append(messages, Assistant(r)),
           UNCHANGED <<turn, executions, repairs>>
    PROVE  Counted'
<1> USE DEF InRun, Points, EmitPoints, Executing, Executed, Replied, Repairing
<1>1. Assistant(r) \in Message /\ Assistant(r).kind = "assistant"
  BY DEF Assistant, Message
<1>2. /\ SinceUser("execution")' = SinceUser("execution")
      /\ SinceUser("protocol_error")' = SinceUser("protocol_error")
      /\ SinceUser("assistant")' = SinceUser("assistant") + 1
      /\ SinceUser("assistant") \in Nat
  BY <1>1, AppendCounted
<1>3. CountersHold /\ CountsHold
  BY DEF CountInv, Counted
<1> QED
  BY <1>2, <1>3, ConfigAssumption
  DEF CountInv, TypeOK, Counted, CountersHold, CountsHold, One

(* The stream appends it once, complete, cancelled or with its last line.  *)
LEMMA StreamCounted ==
    ASSUME CountInv, StreamDelta \/ StreamEnds \/ StreamCancelled \/ FinalDelta
    PROVE  Counted'
<1> USE DEF InRun, Points, EmitPoints, Executing, Executed, Replied, Repairing, counters
<1>1. ASSUME NEW r \in Reply, pc = "streaming", TakeReply(r), UNCHANGED counters
      PROVE  Counted'
  BY <1>1, ReplyCounted, NothingCounted DEF TakeReply
<1>2. CASE StreamDelta
  BY <1>2, NothingCounted DEF StreamDelta, Step, Emits
<1>3. CASE StreamEnds
  BY <1>1, <1>3 DEF StreamEnds
<1>4. CASE StreamCancelled
  BY <1>1, <1>4, CancelledReplyTypes DEF StreamCancelled
<1>5. CASE FinalDelta
  BY <1>5, ReplyCounted DEF FinalDelta, StepAppending, Emits, CountInv, TypeOK
<1> QED
  BY <1>2, <1>3, <1>4, <1>5

(* A cell is counted when it begins, a repair when it is appended.         *)
LEMMA DecidingCounted == ASSUME CountInv, Deciding PROVE Counted'
<1> USE DEF InRun, Points, EmitPoints, Executing, Executed, Replied, Repairing, counters
<1>1. CASE EndOnReply \/ RefuseExecution
  BY <1>1, NothingCounted DEF EndOnReply, RefuseExecution, Emits
<1>2. CASE BeginExecution
  <2>1. /\ pc = "assistant_end" /\ pc' = "exec_start" /\ UNCHANGED <<messages, turn, repairs>>
        /\ executions' = executions + 1 /\ ~(executions >= MaxExecutions)
    BY <1>2 DEF BeginExecution, Emits, ExecutionsSpent
  <2>2. \A kind : SinceUser(kind)' = SinceUser(kind)
    BY <2>1 DEF SinceUser, IsLatestUser
  <2>3. SinceUser("execution") \in Nat
    BY CountIsNumber DEF CountInv, TypeOK
  <2>4. CountersHold /\ CountsHold
    BY <2>1 DEF CountInv, Counted
  <2> QED
    BY <2>1, <2>2, <2>3, <2>4, ConfigAssumption
    DEF CountInv, TypeOK, Counted, CountersHold, CountsHold, One
<1>3. CASE Repair
  <2>1. /\ pc = "assistant_end" /\ pc' = "repair_start" /\ UNCHANGED <<turn, executions>>
        /\ messages' = Append(messages, ProtocolError) /\ repairs' = repairs + 1
    BY <1>3 DEF Repair, Emits
  <2>2. ProtocolError \in Message /\ ProtocolError.kind = "protocol_error"
    BY DEF ProtocolError, Message
  <2>3. /\ SinceUser("execution")' = SinceUser("execution")
        /\ SinceUser("protocol_error")' = SinceUser("protocol_error") + 1
        /\ SinceUser("assistant")' = SinceUser("assistant")
        /\ SinceUser("protocol_error") \in Nat
    BY <2>1, <2>2, AppendCounted
  <2>4. CountersHold /\ CountsHold
    BY <2>1 DEF CountInv, Counted
  <2> QED
    BY <2>1, <2>3, <2>4, ConfigAssumption
    DEF CountInv, TypeOK, Counted, CountersHold, CountsHold, One
<1> QED
  BY <1>1, <1>2, <1>3 DEF Deciding

(* A turn is begun, and a repair forgiven, only within the limits.         *)
LEMMA TurnsCounted == ASSUME CountInv, Turns PROVE Counted'
<1> USE DEF InRun, Points, EmitPoints, Executing, Executed, Replied, Repairing, counters
<1>1. CASE /\ pc' \in {"repair_end", "repair_turn_end"} /\ pc \in {"repair_start", "repair_end"}
           /\ UNCHANGED <<messages, turn, executions, repairs>>
  BY <1>1, NothingCounted
<1>2. CASE pc' = "agent_end" /\ UNCHANGED <<messages, turn, executions, repairs>>
  BY <1>2, NothingCounted
<1>3. CASE /\ pc \in {"repair_turn_end", "turn_end"} /\ pc' = "turn_start"
           /\ turn' = turn + 1 /\ turn + 1 < MaxTurns
           /\ pc = "repair_turn_end" => ~(repairs > MaxRepairs)
           /\ UNCHANGED <<messages, executions, repairs>>
  <2>1. \A kind : SinceUser(kind)' = SinceUser(kind)
    BY <1>3 DEF SinceUser, IsLatestUser
  <2>2. SinceUser("assistant") \in Nat
    BY CountIsNumber DEF CountInv, TypeOK
  <2>3. CountersHold /\ CountsHold
    BY <1>3 DEF CountInv, Counted
  <2> QED
    BY <1>3, <2>1, <2>2, <2>3, ConfigAssumption
    DEF CountInv, TypeOK, Counted, CountersHold, CountsHold, One
<1>4. CASE Step("repair_start", "message_start", "protocol_error", "repair_end")
           \/ Step("repair_end", "message_end", "protocol_error", "repair_turn_end")
  BY <1>1, <1>4 DEF Step, Emits
<1>5. CASE RepairTurnEnd \/ TurnEnd
  BY <1>2, <1>3, <1>5
  DEF RepairTurnEnd, RepairsSpent, TurnEnd, TurnEnds, Emits, NextTurn, OpensTurn, Finalise
<1>6. CASE LastTurnEnd
  BY <1>2, <1>6 DEF LastTurnEnd, TurnEnds, Finalise
<1> QED
  BY <1>4, <1>5, <1>6 DEF Turns

(* The kernel counts nothing.                                              *)
LEMMA KernelCounted ==
    ASSUME CountInv, SubmitCell \/ KernelWork \/ ExecOutput
    PROVE  Counted'
<1> USE DEF InRun, Points, EmitPoints, Executing, Executed, Replied, Repairing, counters
<1>1. CASE SubmitCell \/ ExecOutput
  BY <1>1, NothingCounted DEF SubmitCell, ExecOutput, Step, Emits
<1>2. CASE KernelWork
  <2>1. /\ UNCHANGED <<messages, turn, executions, repairs>>
        /\ \/ UNCHANGED pc
           \/ pc = "executing" /\ pc' = "exec_end"
           \/ pc = "restarting" /\ pc' = "kernel_restarted"
    BY <1>2 DEF KernelWork, CellEnds, CellOverruns, OverrunCell, CellLost, Replacing,
                ReplacedDuringCell, Restarted, KernelStep
  <2> QED
    BY <2>1, NothingCounted
<1> QED
  BY <1>1, <1>2

(* The observation was counted when its cell began; a notice is not.       *)
LEMMA ObservingCounted == ASSUME CountInv, Observing PROVE Counted'
<1> USE DEF InRun, Points, EmitPoints, Executing, Executed, Replied, Repairing, counters
<1>1. CASE StepAppending("exec_end", "exec_end", "none", Observation, "execution_start")
  <2>1. /\ pc = "exec_end" /\ pc' = "execution_start"
        /\ messages' = Append(messages, Observation)
        /\ UNCHANGED <<turn, executions, repairs>>
    BY <1>1 DEF StepAppending, Emits
  <2>2. Observation \in Message /\ Observation.kind = "execution"
    BY MessageTypes DEF CountInv, Observation, Execution
  <2>3. /\ SinceUser("execution")' = SinceUser("execution") + 1
        /\ SinceUser("protocol_error")' = SinceUser("protocol_error")
        /\ SinceUser("assistant")' = SinceUser("assistant")
        /\ SinceUser("execution") \in Nat
    BY <2>1, <2>2, AppendCounted
  <2>4. CountersHold /\ CountsHold
    BY <2>1 DEF CountInv, Counted
  <2> QED
    BY <2>1, <2>3, <2>4, ConfigAssumption
    DEF CountInv, TypeOK, Counted, CountersHold, CountsHold, One
<1>2. CASE StepAppending("kernel_restarted", "kernel_restarted", "none", PresentNotice,
                         "notice_start")
  <2>1. /\ pc = "kernel_restarted" /\ pc' = "notice_start"
        /\ messages' = Append(messages, PresentNotice)
        /\ UNCHANGED <<turn, executions, repairs>>
    BY <1>2 DEF StepAppending, Emits
  <2>2. PresentNotice \in Message /\ PresentNotice.kind = "notice"
    BY MessageTypes DEF CountInv, PresentNotice, Notice
  <2>3. /\ SinceUser("execution")' = SinceUser("execution")
        /\ SinceUser("protocol_error")' = SinceUser("protocol_error")
        /\ SinceUser("assistant")' = SinceUser("assistant")
    BY <2>1, <2>2, AppendCounted
  <2>4. CountersHold /\ CountsHold
    BY <2>1 DEF CountInv, Counted
  <2> QED
    BY <2>1, <2>3, <2>4, ConfigAssumption
    DEF CountInv, TypeOK, Counted, CountersHold, CountsHold, One
<1>3. CASE ExecutionEnd
  BY <1>3, NothingCounted DEF ExecutionEnd, Emits
<1>4. CASE Observing /\ pc \notin {"exec_end", "kernel_restarted"} /\ ~ExecutionEnd
  BY <1>4, NothingCounted DEF Observing, Step, StepAppending, Emits
<1> QED
  BY <1>1, <1>2, <1>3, <1>4 DEF Observing, Step, StepAppending, Emits

(* Nor does an exception; a cancelled stream has its one reply.            *)
LEMMA RaisingCounted ==
    ASSUME CountInv,
           EmitRaises \/ StepFails \/ KernelRaises \/ DeadlineExpires \/ Interrupt
    PROVE  Counted'
<1> USE DEF InRun, counters
<1>1. ASSUME NEW exception, Raise(exception)
      PROVE  Counted'
  BY <1>1, NothingCounted DEF Raise, Finalise
<1>2. CASE EmitRaises \/ StepFails \/ CancelEmit \/ KernelRaises \/ CancelKernelCall
  BY <1>1, <1>2 DEF EmitRaises, StepFails, CancelEmit, KernelRaises, CancelKernelCall
<1>3. CASE CancelStream
  BY <1>3, StreamCounted DEF CancelStream
<1>4. CASE CancelCell
  BY <1>4, NothingCounted DEF CancelCell, OverrunCell, KernelStep
<1> QED
  BY <1>2, <1>3, <1>4 DEF DeadlineExpires, Interrupt, Cancel, CancelAll, CancelKernel

(* A run begins with nothing spent.                                        *)
LEMMA BoundaryCounted ==
    ASSUME CountInv,
           \/ StartRun \/ Quit \/ AgentEnd \/ Leave \/ Deliver \/ Exited
           \/ TodoChanged \/ RequestRestart \/ UNCHANGED vars
    PROVE  Counted'
<1> USE DEF InRun, counters
<1>1. CASE StartRun
  <2>1. pc' = "agent_start" /\ UNCHANGED messages
        /\ executions' = 0 /\ turn' = 0 /\ repairs' = 0
    BY <1>1 DEF StartRun
  <2>2. \A kind : SinceUser(kind)' = SinceUser(kind)
    BY <2>1 DEF SinceUser, IsLatestUser
  <2>3. LimitsHold'
    BY <2>2, CountsKeepLimits DEF LimitsHold
  <2> QED
    BY <2>1, <2>3, ConfigAssumption DEF Counted, CountersHold, One, Repairing
<1>2. CASE Quit \/ AgentEnd \/ Leave
  BY <1>2, NothingCounted DEF Quit, AgentEnd, Step, Leave
<1>3. CASE Deliver \/ Exited \/ TodoChanged \/ RequestRestart \/ UNCHANGED vars
  BY <1>3, NothingCounted DEF Deliver, Exited, TodoChanged, RequestRestart, ToolCall, vars
<1> QED
  BY <1>1, <1>2, <1>3

(* Every step counts what it spends.                                       *)
LEMMA NextCounted == ASSUME CountInv, [Next]_vars PROVE Counted'
<1>1. CASE Progress
  BY <1>1, OpeningCounted, StreamCounted, DecidingCounted, TurnsCounted, KernelCounted,
     ObservingCounted, BoundaryCounted, RaisingCounted
  DEF Progress, KernelWork
<1>2. CASE Next /\ ~Progress
  BY <1>2, StreamCounted, KernelCounted, BoundaryCounted, RaisingCounted DEF Next
<1> QED
  BY <1>1, <1>2, BoundaryCounted

(* PLAN 12, config.py:90-99: counted in the transcript, no prompt costs    *)
(* more cells, replies or repairs than configured, with or without a       *)
(* deadline, however the runs before it ended.                             *)
THEOREM LimitsKept == Spec => []LimitsHold
<1>1. Init => Counted
  <2> SUFFICES ASSUME Init PROVE LimitsHold
    BY DEF Init, Counted, InRun
  <2>1. \A kind : Since(kind) = {}
    BY DEF Init, Since
  <2>2. \A kind : SinceUser(kind) = 0
    BY <2>1, FS_EmptySet DEF SinceUser, Since
  <2> QED
    BY <2>2, ConfigAssumption DEF LimitsHold
<1>2. TypeOK /\ Counted /\ [Next]_vars => Counted'
  BY NextCounted DEF CountInv
<1>3. TypeOK /\ Counted => LimitsHold
  BY CountsKeepLimits DEF CountInv
<1> QED
  BY <1>1, <1>2, <1>3, TypeCorrect, PTL DEF Spec

-----------------------------------------------------------------------------
(* The order of the run events.  Where the loop stands tells which event   *)
(* was the latest.                                                         *)

Is(type, role) == event.type = type /\ event.role = role

(* An event after which agent_end may come.                                *)
MayEnd ==
    /\ event.type \notin {"none", "agent_start", "agent_end"}
    /\ event.type = "message_start" => event.role # "user"

(* The latest event, by the event the loop is about to emit.               *)
LatestEvent ==
    /\ pc = "first_turn_start" => Is("agent_start", "none")
    /\ pc = "user_start" => Is("turn_start", "none")
    /\ pc = "user_end" => Is("message_start", "user")
    /\ pc = "turn_start" => Is("turn_end", "none")
    /\ pc = "assistant_start" => Is("message_end", "user") \/ Is("turn_start", "none")
    /\ pc \in {"streaming", "final_delta", "assistant_end"} =>
            Is("message_start", "assistant") \/ Is("delta", "none")
    /\ pc \in {"repair_start", "exec_start", "last_turn_end"} => Is("message_end", "assistant")
    /\ pc = "repair_end" => Is("message_start", "protocol_error")
    /\ pc = "repair_turn_end" => Is("message_end", "protocol_error")
    /\ pc \in {"executing", "exec_end"} => Is("exec_start", "none") \/ Is("exec_output", "none")
    /\ pc = "execution_start" => Is("exec_end", "none")
    /\ pc = "execution_end" => Is("message_start", "execution")
    /\ pc \in {"kernel_failed", "restarting"} => Is("message_end", "execution")
    /\ pc = "kernel_restarted" => Is("kernel_failed", "none") \/ Is("message_end", "execution")
    /\ pc = "notice_start" => Is("kernel_restarted", "none")
    /\ pc = "notice_end" => Is("message_start", "kernel_notice")
    /\ pc = "turn_end" => Is("message_end", "execution") \/ Is("message_end", "kernel_notice")
    /\ pc = "agent_end" => MayEnd

(* Between two runs it is agent_end, or nothing before the first.          *)
BetweenRuns ==
    /\ pc \in {"prompt", "agent_start"} => event.type \in {"none", "agent_end"}
    /\ pc = "leaving" /\ raising = "none" => event.type = "agent_end"

RunOfEvent ==
    /\ pc = "agent_start" => event.run + 1 = run
    /\ pc \notin {"agent_start", "leaving", "exited"} \/ (pc = "leaving" /\ raising = "none") =>
           event.run = run

EventKnown == LatestEvent /\ BetweenRuns /\ RunOfEvent

EventInv == TypeOK /\ ControlInv /\ EventKnown

(* What EventOrder lets come after an event.                               *)
LEMMA OrderAfter ==
    ASSUME NEW e
    PROVE  /\ e.type = "agent_start" => "turn_start" \in Order!After(e)
           /\ e.type = "turn_start" => "message_start" \in Order!After(e)
           /\ e.type = "message_start" => "message_end" \in Order!After(e)
           /\ e.type = "message_start" /\ e.role = "assistant" => "delta" \in Order!After(e)
           /\ e.type = "delta" => "delta" \in Order!After(e) /\ "message_end" \in Order!After(e)
           /\ e.type \in {"exec_start", "exec_output"} =>
                  "exec_output" \in Order!After(e) /\ "exec_end" \in Order!After(e)
           /\ e.type = "exec_end" => "message_start" \in Order!After(e)
           /\ e.type = "kernel_failed" => "kernel_restarted" \in Order!After(e)
           /\ e.type = "kernel_restarted" => "message_start" \in Order!After(e)
           /\ e.type = "turn_end" => "turn_start" \in Order!After(e)
BY DEF Order!After

(* After a message it depends on whose message it was.                     *)
LEMMA OrderAfterMessage ==
    ASSUME NEW e, e.type = "message_end"
    PROVE  /\ e.role = "user" => "message_start" \in Order!After(e)
           /\ e.role = "assistant" =>
                  /\ "exec_start" \in Order!After(e)
                  /\ "message_start" \in Order!After(e)
                  /\ "turn_end" \in Order!After(e)
           /\ e.role = "execution" =>
                  /\ "kernel_failed" \in Order!After(e)
                  /\ "kernel_restarted" \in Order!After(e)
                  /\ "turn_end" \in Order!After(e)
           /\ e.role \in {"protocol_error", "kernel_notice"} => "turn_end" \in Order!After(e)
BY DEF Order!After

(* Whose message it may be.                                                *)
LEMMA OrderRoles ==
    ASSUME NEW e
    PROVE  /\ \A type : type \notin {"message_start", "message_end"} =>
                  "none" \in Order!RoleAfter(e, type)
           /\ e.type = "delta" => "assistant" \in Order!RoleAfter(e, "message_end")
           /\ e.type # "delta" => e.role \in Order!RoleAfter(e, "message_end")
           /\ e.type = "turn_start" =>
                  /\ "user" \in Order!RoleAfter(e, "message_start")
                  /\ "assistant" \in Order!RoleAfter(e, "message_start")
           /\ e.type = "message_end" /\ e.role = "user" =>
                  "assistant" \in Order!RoleAfter(e, "message_start")
           /\ e.type = "message_end" /\ e.role # "user" =>
                  "protocol_error" \in Order!RoleAfter(e, "message_start")
           /\ e.type = "exec_end" => "execution" \in Order!RoleAfter(e, "message_start")
           /\ e.type = "kernel_restarted" =>
                  "kernel_notice" \in Order!RoleAfter(e, "message_start")
BY DEF Order!RoleAfter, Order!RoleStarting

(* An event emitted within the run is a RunEvent.                          *)
LEMMA EmitsInOrder ==
    ASSUME NEW point, NEW type, NEW role, Emits(point, type, role), event.run = run,
           type \in Order!After(event), role \in Order!RoleAfter(event, type)
    PROVE  Order!RunEvent
BY DEF Emits, Order!RunEvent

OrderStep == Order!StartEvent \/ Order!RunEvent \/ Order!EndEvent \/ UNCHANGED event

(* What an emission makes of the latest event.                             *)
LEMMA Emitted ==
    ASSUME NEW point, NEW type, NEW role, Emits(point, type, role)
    PROVE  /\ pc = point /\ event'.type = type /\ event'.role = role /\ event'.run = run
           /\ run' = run /\ raising' = raising
BY DEF Emits

(* A step that emits nothing.                                              *)
LEMMA NothingEmitted ==
    ASSUME EventInv, UNCHANGED <<event, run>>,
           \/ UNCHANGED <<pc, raising>>
           \/ pc' \in {"leaving", "exited"} /\ raising' # "none"
           \/ pc' = "exited"
    PROVE  EventKnown' /\ OrderStep
BY DEF EventInv, EventKnown, LatestEvent, BetweenRuns, RunOfEvent, MayEnd, Is, OrderStep

(* The opening of a run and of a turn.                                     *)
LEMMA OpeningOrder == ASSUME EventInv, Opening PROVE EventKnown' /\ OrderStep
<1> USE DEF EventInv, EventKnown, LatestEvent, BetweenRuns, RunOfEvent, Is
<1>1. CASE Step("agent_start", "agent_start", "none", "first_turn_start")
  <2>1. Emits("agent_start", "agent_start", "none") /\ pc' = "first_turn_start"
    BY <1>1 DEF Step
  <2>2. Order!StartEvent
    BY <2>1 DEF Emits, Order!StartEvent
  <2> QED
    BY <2>1, <2>2, Emitted DEF OrderStep
<1>2. CASE StepAppending("first_turn_start", "turn_start", "none", User, "user_start")
  <2>1. Emits("first_turn_start", "turn_start", "none") /\ pc' = "user_start"
    BY <1>2 DEF StepAppending
  <2> QED
    BY <2>1, Emitted, EmitsInOrder, OrderAfter, OrderRoles DEF OrderStep
<1>3. CASE Step("user_start", "message_start", "user", "user_end")
  <2>1. Emits("user_start", "message_start", "user") /\ pc' = "user_end"
    BY <1>3 DEF Step
  <2> QED
    BY <2>1, Emitted, EmitsInOrder, OrderAfter, OrderRoles DEF OrderStep
<1>4. CASE Step("user_end", "message_end", "user", "assistant_start")
  <2>1. Emits("user_end", "message_end", "user") /\ pc' = "assistant_start"
    BY <1>4 DEF Step
  <2> QED
    BY <2>1, Emitted, EmitsInOrder, OrderAfter, OrderRoles DEF OrderStep
<1>5. CASE Step("turn_start", "turn_start", "none", "assistant_start")
  <2>1. Emits("turn_start", "turn_start", "none") /\ pc' = "assistant_start"
    BY <1>5 DEF Step
  <2> QED
    BY <2>1, Emitted, EmitsInOrder, OrderAfter, OrderRoles DEF OrderStep
<1>6. CASE Step("assistant_start", "message_start", "assistant", "streaming")
  <2>1. Emits("assistant_start", "message_start", "assistant") /\ pc' = "streaming"
    BY <1>6 DEF Step
  <2> QED
    BY <2>1, Emitted, EmitsInOrder, OrderAfter, OrderAfterMessage, OrderRoles DEF OrderStep
<1> QED
  BY <1>1, <1>2, <1>3, <1>4, <1>5, <1>6 DEF Opening

(* The stream, complete or cancelled.                                      *)
LEMMA StreamOrder ==
    ASSUME EventInv, StreamDelta \/ StreamEnds \/ StreamCancelled \/ FinalDelta
    PROVE  EventKnown' /\ OrderStep
<1> USE DEF EventInv, EventKnown, LatestEvent, BetweenRuns, RunOfEvent, Is, MayEnd
<1>1. CASE StreamDelta
  <2>1. Emits("streaming", "delta", "none") /\ pc' = "streaming"
    BY <1>1 DEF StreamDelta, Step
  <2> QED
    BY <2>1, Emitted, EmitsInOrder, OrderAfter, OrderAfterMessage, OrderRoles DEF OrderStep
<1>2. CASE FinalDelta
  <2>1. Emits("final_delta", "delta", "none") /\ pc' = "assistant_end"
    BY <1>2 DEF FinalDelta, StepAppending
  <2> QED
    BY <2>1, Emitted, EmitsInOrder, OrderAfter, OrderAfterMessage, OrderRoles DEF OrderStep
<1>3. CASE StreamEnds \/ StreamCancelled
  <2>1. /\ UNCHANGED <<event, run, raising>>
        /\ pc = "streaming" /\ pc' \in {"final_delta", "assistant_end"}
    BY <1>3 DEF StreamEnds, StreamCancelled, TakeReply
  <2> QED
    BY <2>1 DEF OrderStep
<1> QED
  BY <1>1, <1>2, <1>3

(* What the loop does with a reply.                                        *)
LEMMA DecidingOrder == ASSUME EventInv, Deciding PROVE EventKnown' /\ OrderStep
<1> USE DEF EventInv, EventKnown, LatestEvent, BetweenRuns, RunOfEvent, Is, MayEnd
<1>1. /\ Emits("assistant_end", "message_end", "assistant")
      /\ pc' \in {"last_turn_end", "repair_start", "exec_start"}
  BY DEF Deciding, EndOnReply, Repair, RefuseExecution, BeginExecution
<1> QED
  BY <1>1, Emitted, EmitsInOrder, OrderAfter, OrderRoles DEF OrderStep

(* The end of a turn.                                                      *)
LEMMA TurnsOrder == ASSUME EventInv, Turns PROVE EventKnown' /\ OrderStep
<1> USE DEF EventInv, EventKnown, LatestEvent, BetweenRuns, RunOfEvent, Is, MayEnd
<1>1. CASE Step("repair_start", "message_start", "protocol_error", "repair_end")
  <2>1. Emits("repair_start", "message_start", "protocol_error") /\ pc' = "repair_end"
    BY <1>1 DEF Step
  <2> QED
    BY <2>1, Emitted, EmitsInOrder, OrderAfter, OrderAfterMessage, OrderRoles DEF OrderStep
<1>2. CASE Step("repair_end", "message_end", "protocol_error", "repair_turn_end")
  <2>1. Emits("repair_end", "message_end", "protocol_error") /\ pc' = "repair_turn_end"
    BY <1>2 DEF Step
  <2> QED
    BY <2>1, Emitted, EmitsInOrder, OrderAfter, OrderAfterMessage, OrderRoles DEF OrderStep
<1>3. CASE RepairTurnEnd \/ TurnEnd \/ LastTurnEnd
  <2>1. /\ \E point \in {"repair_turn_end", "turn_end", "last_turn_end"} :
               Emits(point, "turn_end", "none")
        /\ pc' \in {"turn_start", "agent_end"}
    BY <1>3 DEF RepairTurnEnd, TurnEnd, LastTurnEnd, TurnEnds, NextTurn, OpensTurn, Finalise
  <2> QED
    BY <2>1, Emitted, EmitsInOrder, OrderAfterMessage, OrderRoles DEF OrderStep
<1> QED
  BY <1>1, <1>2, <1>3 DEF Turns

(* The cell, and what the kernel does meanwhile.                           *)
LEMMA KernelOrder ==
    ASSUME EventInv, SubmitCell \/ KernelWork \/ ExecOutput
    PROVE  EventKnown' /\ OrderStep
<1> USE DEF EventInv, EventKnown, LatestEvent, BetweenRuns, RunOfEvent, Is, MayEnd
<1>1. CASE SubmitCell
  <2>1. Emits("exec_start", "exec_start", "none") /\ pc' = "executing"
    BY <1>1 DEF SubmitCell
  <2> QED
    BY <2>1, Emitted, EmitsInOrder, OrderAfter, OrderAfterMessage, OrderRoles DEF OrderStep
<1>2. CASE ExecOutput
  <2>1. Emits("executing", "exec_output", "none") /\ pc' = "executing"
    BY <1>2 DEF ExecOutput, Step
  <2> QED
    BY <2>1, Emitted, EmitsInOrder, OrderAfter, OrderAfterMessage, OrderRoles DEF OrderStep
<1>3. CASE KernelWork
  <2>1. /\ UNCHANGED <<event, run, raising>>
        /\ \/ UNCHANGED pc
           \/ pc = "executing" /\ pc' = "exec_end"
           \/ pc = "restarting" /\ pc' = "kernel_restarted"
    BY <1>3 DEF KernelWork, CellEnds, CellOverruns, OverrunCell, CellLost, Replacing,
                ReplacedDuringCell, Restarted, KernelStep
  <2> QED
    BY <2>1 DEF OrderStep
<1> QED
  BY <1>1, <1>2, <1>3

(* The observation and the notice.                                         *)
LEMMA ObservingOrder == ASSUME EventInv, Observing PROVE EventKnown' /\ OrderStep
<1> USE DEF EventInv, EventKnown, LatestEvent, BetweenRuns, RunOfEvent, Is, MayEnd
<1>1. CASE StepAppending("exec_end", "exec_end", "none", Observation, "execution_start")
  <2>1. Emits("exec_end", "exec_end", "none") /\ pc' = "execution_start"
    BY <1>1 DEF StepAppending
  <2> QED
    BY <2>1, Emitted, EmitsInOrder, OrderAfter, OrderAfterMessage, OrderRoles DEF OrderStep
<1>2. CASE Step("execution_start", "message_start", "execution", "execution_end")
  <2>1. Emits("execution_start", "message_start", "execution") /\ pc' = "execution_end"
    BY <1>2 DEF Step
  <2> QED
    BY <2>1, Emitted, EmitsInOrder, OrderAfter, OrderAfterMessage, OrderRoles DEF OrderStep
<1>3. CASE ExecutionEnd
  <2>1. Emits("execution_end", "message_end", "execution") /\ pc' \in {"kernel_failed", "restarting", "turn_end"}
    BY <1>3 DEF ExecutionEnd
  <2> QED
    BY <2>1, Emitted, EmitsInOrder, OrderAfter, OrderAfterMessage, OrderRoles DEF OrderStep
<1>4. CASE Step("kernel_failed", "kernel_failed", "none", "kernel_restarted")
  <2>1. Emits("kernel_failed", "kernel_failed", "none") /\ pc' = "kernel_restarted"
    BY <1>4 DEF Step
  <2> QED
    BY <2>1, Emitted, EmitsInOrder, OrderAfter, OrderAfterMessage, OrderRoles DEF OrderStep
<1>5. CASE StepAppending("kernel_restarted", "kernel_restarted", "none", PresentNotice,
                         "notice_start")
  <2>1. Emits("kernel_restarted", "kernel_restarted", "none") /\ pc' = "notice_start"
    BY <1>5 DEF StepAppending
  <2> QED
    BY <2>1, Emitted, EmitsInOrder, OrderAfter, OrderAfterMessage, OrderRoles DEF OrderStep
<1>6. CASE Step("notice_start", "message_start", "kernel_notice", "notice_end")
  <2>1. Emits("notice_start", "message_start", "kernel_notice") /\ pc' = "notice_end"
    BY <1>6 DEF Step
  <2> QED
    BY <2>1, Emitted, EmitsInOrder, OrderAfter, OrderAfterMessage, OrderRoles DEF OrderStep
<1>7. CASE Step("notice_end", "message_end", "kernel_notice", "turn_end")
  <2>1. Emits("notice_end", "message_end", "kernel_notice") /\ pc' = "turn_end"
    BY <1>7 DEF Step
  <2> QED
    BY <2>1, Emitted, EmitsInOrder, OrderAfter, OrderAfterMessage, OrderRoles DEF OrderStep
<1> QED
  BY <1>1, <1>2, <1>3, <1>4, <1>5, <1>6, <1>7 DEF Observing

(* An exception emits nothing, and agent_end may come next unless it was   *)
(* raised before the try statement of _run or in its finally clause.       *)
LEMMA RaisingOrder ==
    ASSUME EventInv,
           EmitRaises \/ StepFails \/ KernelRaises \/ DeadlineExpires \/ Interrupt
    PROVE  EventKnown' /\ OrderStep
<1>1. ASSUME NEW exception \in {"cancelled", "timeout", "error"}, Raise(exception),
             pc \in EmitPoints \cup {"streaming", "executing", "restarting"}
      PROVE  EventKnown' /\ OrderStep
  <2>1. UNCHANGED <<event, run>> /\ raising' # "none"
    BY <1>1 DEF Raise
  <2>2. CASE pc \in Preamble \cup {"agent_end"}
    BY <1>1, <2>1, <2>2, NothingEmitted DEF Raise
  <2>3. CASE pc \notin Preamble \cup {"agent_end"}
    <3>1. pc' = "agent_end"
      BY <1>1, <2>3 DEF Raise, Finalise
    <3>2. MayEnd /\ event.run = run
      BY <1>1, <2>3
      DEF EventInv, EventKnown, LatestEvent, RunOfEvent, Is, MayEnd, EmitPoints, Preamble
    <3>3. MayEnd' /\ event'.run = run'
      BY <2>1, <3>2 DEF MayEnd
    <3> QED
      BY <2>1, <3>1, <3>3 DEF EventKnown, LatestEvent, BetweenRuns, RunOfEvent, OrderStep
  <2> QED
    BY <2>2, <2>3
<1>2. CASE EmitRaises \/ StepFails \/ CancelEmit \/ KernelRaises \/ CancelKernelCall
  BY <1>1, <1>2 DEF EmitRaises, StepFails, CancelEmit, KernelRaises, KernelException,
                    CancelKernelCall
<1>3. CASE CancelStream
  BY <1>3, StreamOrder DEF CancelStream
<1>4. CASE CancelCell
  BY <1>4, NothingEmitted DEF CancelCell, OverrunCell, KernelStep
<1> QED
  BY <1>2, <1>3, <1>4 DEF DeadlineExpires, Interrupt, Cancel, CancelAll, CancelKernel

(* The start and the end of a run, and tool calls.                         *)
LEMMA BoundaryOrder ==
    ASSUME EventInv, NoDeadline,
           \/ StartRun \/ Quit \/ AgentEnd \/ Leave \/ Deliver \/ Exited
           \/ TodoChanged \/ RequestRestart \/ UNCHANGED vars
    PROVE  EventKnown' /\ OrderStep
<1> USE DEF EventInv, EventKnown, LatestEvent, BetweenRuns, RunOfEvent, Is, MayEnd
<1>1. CASE StartRun
  <2>1. /\ pc = "prompt" /\ pc' = "agent_start" /\ run' = run + 1
        /\ UNCHANGED event
    BY <1>1 DEF StartRun
  <2> QED
    BY <2>1 DEF OrderStep
<1>2. CASE AgentEnd
  <2>1. Emits("agent_end", "agent_end", "none") /\ pc' = "leaving"
    BY <1>2 DEF AgentEnd, Step
  <2>2. Order!EndEvent
    BY <2>1 DEF Emits, Order!EndEvent
  <2> QED
    BY <2>1, <2>2, Emitted DEF OrderStep
<1>3. CASE Leave
  <2>1. /\ pc = "leaving" /\ pc' = (IF raising = "none" THEN "prompt" ELSE "exited")
        /\ UNCHANGED <<event, run>>
    BY <1>3 DEF Leave, DeadlineReported, NoDeadline
  <2> QED
    BY <2>1 DEF OrderStep
<1>4. CASE Quit \/ Deliver \/ Exited \/ TodoChanged \/ RequestRestart \/ UNCHANGED vars
  BY <1>4, NothingEmitted DEF Quit, Deliver, Exited, TodoChanged, RequestRestart, ToolCall, vars
<1> QED
  BY <1>1, <1>2, <1>3, <1>4

(* Every step emits in order.                                              *)
LEMMA NextOrder ==
    ASSUME EventInv, NoDeadline, [Next]_vars
    PROVE  EventKnown' /\ OrderStep
<1>1. CASE Progress
  BY <1>1, OpeningOrder, StreamOrder, DecidingOrder, TurnsOrder, KernelOrder, ObservingOrder,
     BoundaryOrder, RaisingOrder
  DEF Progress, KernelWork
<1>2. CASE Next /\ ~Progress
  BY <1>2, StreamOrder, KernelOrder, BoundaryOrder, RaisingOrder DEF Next
<1> QED
  BY <1>1, <1>2, BoundaryOrder

(* PLAN 6.3 and 13: without a deadline the loop implements EventOrder: in  *)
(* every run each event comes after one it may follow, agent_end once and  *)
(* last, whatever fails, is cancelled or is lost.                          *)
THEOREM LoopImplementsEventOrder == NoDeadline => (Spec => EventsInOrder)
<1> SUFFICES ASSUME NoDeadline PROVE Spec => EventsInOrder
  OBVIOUS
<1>1. Init => EventKnown /\ event = Order!Silent
  BY DEF Init, EventKnown, LatestEvent, BetweenRuns, RunOfEvent, Order!Silent
<1>2. TypeOK /\ ControlInv /\ EventKnown /\ [Next]_vars =>
          EventKnown' /\ [Order!StartEvent \/ Order!RunEvent \/ Order!EndEvent]_event
  BY NextOrder DEF EventInv, OrderStep
<1>3. Spec => []ControlInv
  BY ControlInvariant
<1> QED
  BY <1>1, <1>2, <1>3, TypeCorrect, PTL DEF Spec, EventsInOrder, Order!Spec

-----------------------------------------------------------------------------
(***************************************************************************)
(* Second part: Resume, in the configuration the program ships with, runs  *)
(* without a deadline.                                                     *)
(***************************************************************************)

(* Numbers.  Induction over the naturals, for sets that can be written     *)
(* down: what a recursive function computes follows from it.               *)

(* A set of naturals has a least element.                                  *)
LEMMA LeastElement ==
    ASSUME NEW S \in SUBSET Nat, S # {}
    PROVE  \E x \in S : \A y \in S : x <= y
<1> DEFINE R == {p \in Nat \X Nat : p[1] < p[2]}
<1>1. IsWellFoundedOn(R, Nat)
  <2>1. OpToRel(<, Nat) = R
    BY DEF OpToRel
  <2> QED
    BY <2>1, NatLessThanWellFounded
<1>2. PICK x \in S : \A y \in S : ~(<<y, x>> \in R)
  <2> HIDE DEF R
  <2> QED
    BY WFMin, <1>1
<1>3. ASSUME NEW y \in S PROVE x <= y
  <2>1. <<y, x>>[1] = y /\ <<y, x>>[2] = x /\ <<y, x>> \in Nat \X Nat
    OBVIOUS
  <2>2. ~(y < x)
    BY <1>2, <2>1
  <2> QED
    BY <2>2
<1> QED
  BY <1>3

(* A set that holds 0 and, with each number, the next, holds all.          *)
LEMMA SetInduction ==
    ASSUME NEW T, 0 \in T, \A n \in Nat : n \in T => n + 1 \in T
    PROVE  Nat \subseteq T
<1> SUFFICES ASSUME Nat \ T # {} PROVE FALSE
  OBVIOUS
<1>1. PICK x \in Nat \ T : \A y \in Nat \ T : x <= y
  <2>1. (Nat \ T) \in SUBSET Nat
    OBVIOUS
  <2> QED
    BY <2>1, LeastElement
<1>2. x # 0 /\ x - 1 \in Nat /\ ~(x <= x - 1) /\ (x - 1) + 1 = x
  BY <1>1
<1>3. x - 1 \in T
  BY <1>1, <1>2
<1> QED
  BY <1>1, <1>2, <1>3

(* Max over a bounded set of numbers and 0 is one of them and bounds them. *)
LEMMA MaxBounds ==
    ASSUME NEW S \in SUBSET Nat, NEW b \in Nat, \A x \in S : x <= b
    PROVE  Max({0} \cup S) \in Nat /\ \A x \in S : x <= Max({0} \cup S)
<1> DEFINE Z == {0} \cup S
           B == {n \in Nat : \A x \in Z : x <= n}
<1>1. PICK m \in B : \A n \in B : m <= n
  <2>1. b \in B
    OBVIOUS
  <2>2. B \in SUBSET Nat /\ B # {}
    BY <2>1
  <2> HIDE DEF B
  <2> QED
    BY <2>2, LeastElement
<1>2. m \in Nat /\ \A x \in Z : x <= m
  BY <1>1
<1>3. m \in Z
  <2> SUFFICES ASSUME m \notin Z PROVE FALSE
    OBVIOUS
  <2>1. m # 0 /\ m - 1 \in Nat /\ ~(m <= m - 1)
    BY <1>2
  <2>2. \A x \in Z : x <= m - 1
    BY <1>2, <2>1
  <2>3. m - 1 \in B
    BY <2>1, <2>2
  <2> QED
    BY <1>1, <2>1, <2>3
<1>4. \E x \in Z : \A y \in Z : x >= y
  BY <1>2, <1>3
<1>5. Max(Z) \in Z /\ \A y \in Z : Max(Z) >= y
  <2> HIDE DEF Z
  <2> QED
    BY <1>4 DEF Max
<1>6. ASSUME NEW z, z \in Z, \A y \in Z : z >= y
      PROVE  z \in Nat /\ \A x \in S : x <= z
  BY <1>6
<1> QED
  BY ONLY <1>5, <1>6

-----------------------------------------------------------------------------
(* The file and what is read from it.                                      *)

Entry ==
    {Session} \cup [type : {"kernel"}, cell : Cell] \cup [type : {"message"}, message : Message]

(* What a loop over the entries builds up.                                 *)
Reads(g, entries) ==
    g = [n \in 0 .. Len(entries) |->
            IF n = 0 THEN <<>>
            ELSE IF entries[n].type = "message" THEN Append(g[n - 1], entries[n].message)
            ELSE g[n - 1]]

(* session_jsonl.py:144: messages() gives a transcript for every file.     *)
LEMMA MessagesTyped ==
    ASSUME NEW entries \in Seq(Entry)
    PROVE  /\ Messages(entries) \in Seq(Message)
           /\ entries = <<>> => Messages(entries) = <<>>
<1> DEFINE L == Len(entries)
           Next1(n, s) == IF entries[n].type = "message" THEN Append(s, entries[n].message)
                          ELSE s
           Upto(n, g) == /\ g \in [0 .. n -> Seq(Message)]
                         /\ g[0] = <<>>
                         /\ \A m \in 1 .. n : g[m] = Next1(m, g[m - 1])
           T == {n \in Nat : n <= L => \E g : Upto(n, g)}
<1>1. L \in Nat
  OBVIOUS
<1>2. ASSUME NEW n \in 1 .. L, NEW s \in Seq(Message) PROVE Next1(n, s) \in Seq(Message)
  <2>1. entries[n] \in Entry
    BY <1>1
  <2>2. entries[n].type = "message" => entries[n].message \in Message
    BY <2>1 DEF Entry, Session
  <2> QED
    BY <2>2
<1> HIDE DEF Next1
<1>3. 0 \in T
  <2>1. Upto(0, [n \in 0 .. 0 |-> <<>>])
    <3>1. <<>> \in Seq(Message)
      OBVIOUS
    <3> QED
      BY <3>1
  <2> QED
    BY <2>1
<1>4. ASSUME NEW n \in Nat, n \in T PROVE n + 1 \in T
  <2> SUFFICES ASSUME n + 1 <= L PROVE \E g : Upto(n + 1, g)
    <3> HIDE DEF Upto, L
    <3> QED
      OBVIOUS
  <2>1. PICK g : Upto(n, g)
    <3> HIDE DEF Upto, L
    <3> QED
      BY <1>1, <1>4
  <2> DEFINE h == [m \in 0 .. n + 1 |-> IF m <= n THEN g[m] ELSE Next1(n + 1, g[n])]
  <2>2. g[n] \in Seq(Message) /\ n + 1 \in 1 .. L
    BY <1>1, <2>1
  <2>3. Next1(n + 1, g[n]) \in Seq(Message)
    BY <1>2, <2>2
  <2>4. h \in [0 .. n + 1 -> Seq(Message)] /\ h[0] = <<>>
    BY <2>1, <2>3
  <2>5. ASSUME NEW m \in 1 .. n + 1 PROVE h[m] = Next1(m, h[m - 1])
    <3>1. CASE m = n + 1
      BY <3>1
    <3>2. CASE m # n + 1
      BY <2>1, <3>2
    <3> QED
      BY <3>1, <3>2
  <2>6. Upto(n + 1, h)
    BY <2>4, <2>5
  <2> QED
    BY <2>6
<1>5. L \in T
  <2>1. Nat \subseteq T
    <3> HIDE DEF T
    <3> QED
      BY <1>3, <1>4, SetInduction
  <2> QED
    BY <1>1, <2>1
<1>6. PICK g : Upto(L, g)
  BY <1>1, <1>5
<1>7. Reads(g, entries)
  <2> DEFINE f == [n \in 0 .. L |-> IF n = 0 THEN <<>> ELSE Next1(n, g[n - 1])]
  <2>1. \A n \in 0 .. L : g[n] = f[n]
    BY <1>6
  <2>2. g = f
    BY <1>6, <2>1
  <2> QED
    BY <2>2 DEF Reads, Next1
<1> DEFINE c == CHOOSE x : Reads(x, entries)
<1>8. Reads(c, entries)
  <2> HIDE DEF Reads
  <2> QED
    BY <1>7
<1>9. Messages(entries) = c[L]
  BY DEF Messages, Reads
<1>10. \A n \in 0 .. L : c[n] = IF n = 0 THEN <<>> ELSE Next1(n, c[n - 1])
  <2> HIDE DEF c
  <2> QED
    BY <1>8 DEF Reads, Next1
<1> DEFINE U == {n \in Nat : n <= L => c[n] \in Seq(Message)}
<1> HIDE DEF c
<1>11. 0 \in U
  <2>1. c[0] = <<>> /\ <<>> \in Seq(Message)
    BY <1>1, <1>10
  <2> QED
    BY <2>1
<1>12. ASSUME NEW n \in Nat, n \in U PROVE n + 1 \in U
  BY <1>1, <1>2, <1>10, <1>12
<1>13. Nat \subseteq U
  <2> HIDE DEF U
  <2> QED
    BY <1>11, <1>12, SetInduction
<1>14. entries = <<>> => c[L] = <<>>
  BY <1>10
<1> QED
  BY <1>1, <1>9, <1>13, <1>14


-----------------------------------------------------------------------------
(* The invariant.                                                          *)

Present == [gen |-> generation, proc |-> process]

SessionTypes ==
    /\ TypeOK
    /\ ledger \in Seq(Entry)
    /\ stage \in {"stopped", "opened", "started", "recorded", "running"}
    /\ stage # "running" => pc = "prompt" /\ raising = "none" /\ call = "idle"

(* The processes whose kernel entry is on the file.                        *)
KernelCells == {ledger[j].cell : j \in {i \in DOMAIN ledger : ledger[i].type = "kernel"}}

(* Nothing more will be written in this start.                             *)
Over == raising # "none" \/ pc = "exited"

(* The entry of a new process is owed until the replacement is recorded.   *)
Unrecorded ==
    \/ pc = "restarting"
    \/ pc \in {"exec_end", "execution_start", "execution_end"} /\ replaced
    \/ pc = "executing" /\ call \in {"boot", "install"}

(* The cell the next observation is about.                                 *)
CellKnown ==
    pc \in {"executing", "exec_end"} =>
        cell \in KernelCells /\ (Unrecorded \/ cell = Present)

(* Numbers that are given out are new: while a start goes on, what is on   *)
(* the file is about the present process or about an earlier one under a   *)
(* smaller number; between the end of a process and the number of the next *)
(* all of it is about earlier ones.                                        *)
Numbered ==
    /\ \E b \in Nat : \A c \in CellsOnFile : c.gen <= b
    /\ \A c \in CellsOnFile : c.proc <= process
    /\ stage # "stopped" => \A c \in CellsOnFile : c.gen <= generation
    /\ stage \in {"opened", "started"} => \A c \in CellsOnFile : c.gen < generation
    /\ stage = "started" => \A c \in CellsOnFile : c.proc < process

Recording ==
    stage \in {"recorded", "running"} /\ ~Over =>
        /\ \A c \in CellsOnFile :
              \/ call # "boot" /\ c = Present
              \/ c.proc < process /\ (call = "boot" \/ c.gen < generation)
        /\ Present \in KernelCells \/ Unrecorded
        /\ CellKnown

(* The present process is announced behind all that the transcript tells   *)
(* of another, or its notice is owed.                                      *)
AnnouncedLast ==
    \A i \in DOMAIN messages :
        \/ \E j \in i + 1 .. Len(messages) : messages[j] = Notice(Present)
        \/ messages[i].kind \in {"execution", "notice"} => messages[i].cell.proc = process

Fresh ==
    /\ stage \in {"opened", "started"} /\ ~resumed => messages = <<>>
    /\ stage = "running" => Owed \/ AnnouncedLast

SessionInv ==
    /\ SessionTypes /\ ControlInv
    /\ Numbered /\ Recording /\ GenerationsNameProcesses /\ RecordedBeforeUse
    /\ Fresh

-----------------------------------------------------------------------------
(* Entries.                                                                *)

(* The cells of each kind of entry.                                        *)
LEMMA CellsOfEntry ==
    /\ CellsOf(Session) = {}
    /\ \A c : CellsOf([type |-> "kernel", cell |-> c]) = {c}
    /\ \A m : m.kind \notin {"execution", "notice"} => CellsOf(MessageEntry(m)) = {}
    /\ \A c : CellsOf(MessageEntry(Execution(c))) = {c}
    /\ \A c : CellsOf(MessageEntry(Notice(c))) = {c}
BY DEF CellsOf, Session, MessageEntry, Execution, Notice

(* All of them are cells.                                                  *)
LEMMA CellsTyped == ASSUME NEW e \in Entry PROVE CellsOf(e) \subseteq Cell
<1>1. CASE e = Session
  BY <1>1, CellsOfEntry
<1>2. CASE e \in [type : {"kernel"}, cell : Cell]
  <2>1. e = [type |-> "kernel", cell |-> e.cell] /\ e.cell \in Cell
    BY <1>2
  <2> QED
    BY <2>1, CellsOfEntry
<1>3. CASE e \in [type : {"message"}, message : Message]
  <2>1. e = MessageEntry(e.message) /\ e.message \in Message
    BY <1>3 DEF MessageEntry
  <2>2. \/ e.message.kind \notin {"execution", "notice"}
        \/ e.message = Execution(e.message.cell) /\ e.message.cell \in Cell
        \/ e.message = Notice(e.message.cell) /\ e.message.cell \in Cell
    BY <2>1 DEF Message, User, ProtocolError, Execution, Notice
  <2> QED
    BY <2>1, <2>2, CellsOfEntry
<1> QED
  BY <1>1, <1>2, <1>3 DEF Entry

(* What is on the file are cells.                                          *)
LEMMA FileTyped == ASSUME SessionTypes PROVE CellsOnFile \subseteq Cell
<1>1. \A e \in Range(ledger) : e \in Entry
  BY DEF SessionTypes, Range
<1> QED
  BY <1>1, CellsTyped DEF CellsOnFile

(* An entry appended adds its cells, and takes none back.                  *)
LEMMA EntryAppended ==
    ASSUME SessionTypes, NEW e \in Entry, ledger' = Append(ledger, e)
    PROVE  /\ ledger' \in Seq(Entry)
           /\ Len(ledger') = Len(ledger) + 1 /\ Len(ledger) \in Nat
           /\ DOMAIN ledger = 1 .. Len(ledger) /\ DOMAIN ledger' = 1 .. Len(ledger) + 1
           /\ ledger'[Len(ledger) + 1] = e
           /\ \A i \in DOMAIN ledger : ledger'[i] = ledger[i]
           /\ CellsOnFile' = CellsOnFile \cup CellsOf(e)
           /\ KernelCells \subseteq KernelCells'
           /\ e.type = "kernel" => e.cell \in KernelCells'
<1>1. ledger \in Seq(Entry)
  BY DEF SessionTypes
<1>2. /\ ledger' \in Seq(Entry)
      /\ Len(ledger') = Len(ledger) + 1 /\ Len(ledger) \in Nat
      /\ DOMAIN ledger = 1 .. Len(ledger) /\ DOMAIN ledger' = 1 .. Len(ledger) + 1
      /\ ledger'[Len(ledger) + 1] = e
      /\ \A i \in DOMAIN ledger : ledger'[i] = ledger[i]
  BY <1>1
<1>3. Range(ledger') = Range(ledger) \cup {e}
  BY <1>2 DEF Range
<1>4. CellsOnFile' = CellsOnFile \cup CellsOf(e)
  <2>1. CellsOnFile' = UNION {CellsOf(x) : x \in Range(ledger')}
    BY DEF CellsOnFile, CellsOf
  <2> QED
    BY <1>3, <2>1 DEF CellsOnFile
<1>5. /\ KernelCells \subseteq KernelCells'
      /\ e.type = "kernel" => e.cell \in KernelCells'
  BY <1>2 DEF KernelCells
<1> QED
  BY <1>2, <1>4, <1>5

(* A file that keeps each cell behind its kernel entry does so with one    *)
(* more entry that has none, is a kernel entry or whose cell is on file.   *)
LEMMA StillRecorded ==
    ASSUME SessionTypes, RecordedBeforeUse, NEW e \in Entry, ledger' = Append(ledger, e),
           e.type = "message" => CellsOf(e) \subseteq KernelCells
    PROVE  RecordedBeforeUse'
<1> SUFFICES ASSUME NEW i \in DOMAIN ledger', ledger'[i].type = "message",
                    NEW c \in CellsOf(ledger'[i])
             PROVE  \E j \in 1 .. i - 1 : ledger'[j].type = "kernel" /\ ledger'[j].cell = c
  BY DEF RecordedBeforeUse, CellsOf
<1>1. /\ Len(ledger) \in Nat
      /\ DOMAIN ledger = 1 .. Len(ledger) /\ DOMAIN ledger' = 1 .. Len(ledger) + 1
      /\ ledger'[Len(ledger) + 1] = e
      /\ \A k \in DOMAIN ledger : ledger'[k] = ledger[k]
  BY EntryAppended
<1>2. CASE i = Len(ledger) + 1
  <2>1. PICK j \in DOMAIN ledger : ledger[j].type = "kernel" /\ ledger[j].cell = c
    BY <1>1, <1>2 DEF KernelCells
  <2> QED
    BY <1>1, <1>2, <2>1
<1>3. CASE i # Len(ledger) + 1
  <2>1. i \in DOMAIN ledger /\ ledger'[i] = ledger[i]
    BY <1>1, <1>3
  <2>2. PICK j \in 1 .. i - 1 : ledger[j].type = "kernel" /\ ledger[j].cell = c
    BY <2>1 DEF RecordedBeforeUse
  <2> QED
    BY <1>1, <2>1, <2>2
<1> QED
  BY <1>2, <1>3

(* A kernel entry has its own cell.                                        *)
LEMMA KernelCellsOnFile == ASSUME SessionTypes PROVE KernelCells \subseteq CellsOnFile
<1> SUFFICES ASSUME NEW j \in DOMAIN ledger, ledger[j].type = "kernel"
             PROVE  ledger[j].cell \in CellsOnFile
  BY DEF KernelCells
<1>1. ledger[j] \in Entry /\ ledger[j] \in Range(ledger)
  BY DEF SessionTypes, Range
<1>2. ledger[j] = [type |-> "kernel", cell |-> ledger[j].cell]
  BY <1>1 DEF Entry, Session
<1>3. CellsOf(ledger[j]) = {ledger[j].cell}
  BY <1>2, CellsOfEntry
<1> QED
  BY <1>1, <1>3 DEF CellsOnFile

-----------------------------------------------------------------------------
(* What a step writes.                                                     *)

(* Nothing that is news of a process.                                      *)
FileKept ==
    /\ ledger' \in Seq(Entry) /\ RecordedBeforeUse'
    /\ CellsOnFile' = CellsOnFile
    /\ KernelCells \subseteq KernelCells'

(* A file left alone.                                                      *)
LEMMA NotWritten == ASSUME SessionInv, UNCHANGED ledger PROVE FileKept
BY DEF SessionInv, SessionTypes, FileKept, RecordedBeforeUse, CellsOnFile, CellsOf, KernelCells

(* A message without a cell, or about a process on file.                   *)
LEMMA MessageWritten ==
    ASSUME SessionInv, NEW m \in Message, ledger' = Append(ledger, MessageEntry(m)),
           CellsOf(MessageEntry(m)) \subseteq KernelCells
    PROVE  FileKept
<1>1. MessageEntry(m) \in Entry
  BY DEF MessageEntry, Entry
<1>2. RecordedBeforeUse'
  BY <1>1, StillRecorded DEF SessionInv
<1>3. KernelCells \subseteq CellsOnFile
  BY KernelCellsOnFile DEF SessionInv
<1> QED
  BY <1>1, <1>2, <1>3, EntryAppended DEF SessionInv, FileKept

(* The entry of the present process.                                       *)
LEMMA KernelWritten ==
    ASSUME SessionInv, ledger' = Append(ledger, KernelEntry)
    PROVE  /\ ledger' \in Seq(Entry) /\ RecordedBeforeUse'
           /\ CellsOnFile' = CellsOnFile \cup {Present}
           /\ KernelCells \subseteq KernelCells' /\ Present \in KernelCells'
<1>1. KernelEntry \in Entry /\ KernelEntry.type = "kernel" /\ KernelEntry.cell = Present
  BY DEF KernelEntry, Entry, Present, Cell, SessionInv, SessionTypes, TypeOK
<1>2. CellsOf(KernelEntry) = {Present}
  BY CellsOfEntry DEF KernelEntry, Present
<1>3. RecordedBeforeUse'
  BY <1>1, StillRecorded DEF SessionInv
<1> QED
  BY <1>1, <1>2, <1>3, EntryAppended DEF SessionInv

(* What the loop appended is what is written.                              *)
LEMMA AppendIsRecorded ==
    ASSUME SessionInv, Recorded, NEW m \in Message, messages' = Append(messages, m)
    PROVE  ledger' = Append(ledger, MessageEntry(m))
<1>1. messages \in Seq(Message)
  BY DEF SessionInv, SessionTypes, TypeOK
<1>2. messages' # messages /\ Last(messages') = m
  BY <1>1 DEF Last
<1> QED
  BY <1>2 DEF Recorded

(* While the loop runs, numbers only grow, and what is on the file stays   *)
(* behind them.                                                            *)
LEMMA NumbersKept ==
    ASSUME SessionInv, stage = "running", UNCHANGED stage, FileKept,
           generation' \in Nat, generation' >= generation,
           process' \in Nat, process' >= process
    PROVE  Numbered' /\ GenerationsNameProcesses'
<1>1. generation \in Nat /\ process \in Nat /\ CellsOnFile \subseteq Cell
  BY FileTyped DEF SessionInv, SessionTypes, TypeOK
<1>2. \A c \in CellsOnFile : c.gen \in Nat /\ c.proc \in Nat
  BY <1>1 DEF Cell
<1>3. CellsOnFile' = CellsOnFile
  BY DEF FileKept
<1>4. \A c \in CellsOnFile' : c.gen <= generation' /\ c.proc <= process'
  BY <1>1, <1>2, <1>3 DEF SessionInv, Numbered
<1> QED
  BY <1>3, <1>4 DEF Numbered, SessionInv, GenerationsNameProcesses

(* A step that neither replaces the process nor writes its entry.          *)
LEMMA StepRecording ==
    ASSUME SessionInv, stage = "running", UNCHANGED stage, FileKept,
           UNCHANGED <<generation, process>>, call = "boot" <=> call' = "boot",
           Over => Over', Unrecorded => Unrecorded' \/ Over',
           pc' \in {"executing", "exec_end"} /\ ~Over' =>
              UNCHANGED cell /\ pc \in {"executing", "exec_end"}
    PROVE  /\ ledger' \in Seq(Entry)
           /\ Numbered' /\ GenerationsNameProcesses' /\ RecordedBeforeUse' /\ Recording'
<1>1. generation \in Nat /\ process \in Nat
  BY DEF SessionInv, SessionTypes, TypeOK
<1>2. Numbered' /\ GenerationsNameProcesses'
  BY <1>1, NumbersKept
<1>3. Present' = Present
  BY DEF Present
<1>4. Recording'
  BY <1>3 DEF SessionInv, Recording, CellKnown, FileKept
<1> QED
  BY <1>2, <1>4 DEF FileKept

-----------------------------------------------------------------------------
(* What the steps of the session write, and where they leave the numbers.  *)

Working == SessionInv /\ stage = "running" /\ UNCHANGED stage /\ Recorded

RecordingKept ==
    /\ ledger' \in Seq(Entry)
    /\ Numbered' /\ GenerationsNameProcesses' /\ RecordedBeforeUse' /\ Recording'

(* A step that appends no message and records no replacement.              *)
LEMMA NothingWritten ==
    ASSUME Working, UNCHANGED messages, ~RecordsKernel
    PROVE  FileKept
BY NotWritten DEF Working, Recorded

(* The loop outside of an execution, and a cancelled stream, leave the     *)
(* kernel alone and append no message about a process.                     *)
LEMMA LoopSteps ==
    ASSUME TypeOK,
           \/ Opening \/ StreamDelta \/ StreamEnds \/ FinalDelta \/ Deciding \/ Turns
           \/ CancelStream
    PROVE  /\ UNCHANGED <<generation, process, raising, call, cell, replaced>>
           /\ pc \notin {"exited", "restarting", "kernel_failed", "kernel_restarted",
                          "exec_end", "execution_start", "execution_end", "executing"}
           /\ pc' \notin {"executing", "exec_end"}
           /\ \/ UNCHANGED messages
              \/ \E m \in Message : /\ messages' = Append(messages, m)
                                     /\ m.kind \notin {"execution", "notice"}
<1> USE DEF kernelVars, cellVars
<1>1. UNCHANGED <<generation, process, raising, call, cell, replaced>>
  BY DEF Opening, StreamDelta, StreamEnds, FinalDelta, Deciding, EndOnReply, Repair,
         RefuseExecution, BeginExecution, Turns, RepairTurnEnd, TurnEnd, LastTurnEnd, TurnEnds,
         Step, StepAppending, Emits, CancelStream, StreamCancelled
<1>2. pc \notin {"exited", "restarting", "kernel_failed", "kernel_restarted", "exec_end",
                 "execution_start", "execution_end", "executing"}
  BY DEF Opening, StreamDelta, StreamEnds, FinalDelta, Deciding, EndOnReply, Repair,
         RefuseExecution, BeginExecution, Turns, RepairTurnEnd, TurnEnd, LastTurnEnd, TurnEnds,
         Step, StepAppending, Emits, CancelStream, StreamCancelled
<1>3. pc' \notin {"executing", "exec_end"}
  BY DEF Opening, StreamDelta, StreamEnds, FinalDelta, Deciding, EndOnReply, Repair,
         RefuseExecution, BeginExecution, Turns, RepairTurnEnd, TurnEnd, LastTurnEnd, TurnEnds,
         NextTurn, OpensTurn, Finalise, Step, StepAppending, CancelStream, StreamCancelled,
         TakeReply
<1>4. \A r \in Reply : Assistant(r) \in Message
  BY DEF Assistant, Message
<1>5. UNCHANGED messages \/ \E m \in Message : /\ messages' = Append(messages, m)
                                               /\ m.kind \notin {"execution", "notice"}
  <2>1. CASE StreamEnds
    BY <1>4, <2>1 DEF StreamEnds, TakeReply, Assistant
  <2>2. CASE CancelStream
    BY <1>4, <2>2, CancelledReplyTypes DEF CancelStream, StreamCancelled, TakeReply, Assistant
  <2>3. CASE Opening \/ FinalDelta \/ Deciding
    BY <2>3, MessageTypes
    DEF Opening, FinalDelta, Deciding, EndOnReply, Repair, RefuseExecution, BeginExecution, Step,
        StepAppending, User, Assistant, ProtocolError
  <2>4. CASE StreamDelta \/ Turns
    BY <2>4 DEF StreamDelta, Turns, RepairTurnEnd, TurnEnd, LastTurnEnd, TurnEnds, Step
  <2> QED
    BY <2>1, <2>2, <2>3, <2>4
<1> QED
  BY <1>1, <1>2, <1>3, <1>5

(* So their numbers stay.                                                  *)
LEMMA LoopRecording ==
    ASSUME Working,
           \/ Opening \/ StreamDelta \/ StreamEnds \/ FinalDelta \/ Deciding \/ Turns
           \/ CancelStream
    PROVE  RecordingKept
<1>1. /\ UNCHANGED <<generation, process, raising, call, cell, replaced>>
      /\ pc \notin {"exited", "restarting", "kernel_failed", "kernel_restarted",
                     "exec_end", "execution_start", "execution_end", "executing"}
      /\ pc' \notin {"executing", "exec_end"}
      /\ \/ UNCHANGED messages
         \/ \E m \in Message : /\ messages' = Append(messages, m)
                                /\ m.kind \notin {"execution", "notice"}
  BY LoopSteps DEF Working, SessionInv, SessionTypes
<1>2. FileKept
  <2>1. CASE UNCHANGED messages
    BY <1>1, <2>1, NothingWritten DEF RecordsKernel
  <2>2. ASSUME NEW m \in Message, messages' = Append(messages, m),
               m.kind \notin {"execution", "notice"}
        PROVE  FileKept
    <3>1. ledger' = Append(ledger, MessageEntry(m))
      BY <2>2, AppendIsRecorded DEF Working
    <3>2. CellsOf(MessageEntry(m)) = {}
      BY <2>2, CellsOfEntry
    <3> QED
      BY <3>1, <3>2, MessageWritten DEF Working
  <2> QED
    BY <1>1, <2>1, <2>2
<1> QED
  BY <1>1, <1>2, StepRecording DEF Working, Over, Unrecorded, RecordingKept

(* A cell is sent to the process on file; its output writes nothing.       *)
LEMMA SubmitRecording ==
    ASSUME Working, SubmitCell \/ ExecOutput
    PROVE  RecordingKept
<1>1. UNCHANGED <<generation, process, messages, raising>>
  BY DEF SubmitCell, ExecOutput, Step, Emits, Kernel!Submit, Kernel!Goto, kernelVars
<1>2. FileKept
  BY <1>1, NothingWritten DEF SubmitCell, ExecOutput, Step, Emits, RecordsKernel
<1>3. CASE ExecOutput
  BY <1>1, <1>2, <1>3, StepRecording
  DEF ExecOutput, Step, Emits, kernelVars, cellVars, Working, Over, Unrecorded, RecordingKept
<1>4. CASE SubmitCell
  <2>1. /\ pc = "exec_start" /\ pc' = "executing" /\ call = "idle" /\ call' = "execute"
        /\ cell' = Present
    BY <1>4 DEF SubmitCell, Emits, Kernel!Submit, Kernel!Goto, Present
  <2>2. generation \in Nat /\ process \in Nat /\ Present' = Present
    BY <1>1 DEF Working, SessionInv, SessionTypes, TypeOK, Present
  <2>3. /\ ledger' \in Seq(Entry)
        /\ Numbered' /\ GenerationsNameProcesses' /\ RecordedBeforeUse'
    BY <1>1, <1>2, <2>2, NumbersKept DEF Working, FileKept
  <2>4. raising = "none" => Present \in KernelCells
    BY <2>1 DEF Working, SessionInv, Recording, Over, Unrecorded
  <2>5. Recording'
    BY <1>1, <1>2, <2>1, <2>2, <2>4
    DEF Working, SessionInv, Recording, Over, CellKnown, FileKept
  <2> QED
    BY <2>3, <2>5 DEF RecordingKept
<1> QED
  BY <1>3, <1>4

(* The entry of the present process: it is the latest, or on the file      *)
(* already.                                                                *)
LEMMA PresentAdded ==
    ASSUME Working, UNCHANGED <<generation, process, raising>>,
           raising = "none", pc # "exited", call # "boot", call' # "boot",
           CellsOnFile' = CellsOnFile \cup {Present}, Present \in KernelCells',
           pc' \notin {"executing", "exec_end"}
    PROVE  Numbered' /\ GenerationsNameProcesses' /\ Recording'
<1>1. generation \in Nat /\ process \in Nat /\ Present' = Present
      /\ Present.gen = generation /\ Present.proc = process
  BY DEF Working, SessionInv, SessionTypes, TypeOK, Present
<1>2. \A c \in CellsOnFile : c.gen \in Nat /\ c.proc \in Nat
  BY FileTyped DEF Working, SessionInv, Cell
<1>3. \A c \in CellsOnFile : c = Present \/ (c.proc < process /\ c.gen < generation)
  BY DEF Working, SessionInv, Recording, Over
<1>4. GenerationsNameProcesses
  BY DEF Working, SessionInv
<1>5. Numbered'
  BY <1>1, <1>2, <1>3 DEF Working, Numbered
<1>6. GenerationsNameProcesses'
  BY <1>1, <1>2, <1>3, <1>4 DEF GenerationsNameProcesses
<1>7. Recording'
  BY <1>1, <1>3 DEF Recording, CellKnown
<1> QED
  BY <1>5, <1>6, <1>7

(* A new process gets a number beyond all on the file, and its entry when  *)
(* the replacement is complete.                                            *)
LEMMA KernelRecording ==
    ASSUME Working, KernelWork \/ CancelCell
    PROVE  RecordingKept
<1>1. UNCHANGED <<messages, raising, cell>>
  BY DEF KernelWork, CellEnds, CellOverruns, OverrunCell, CellLost, Replacing,
         ReplacedDuringCell, Restarted, CancelCell, KernelStep
<1>2. generation \in Nat /\ process \in Nat /\ CellsOnFile \subseteq Cell
      /\ \A c \in CellsOnFile : c.gen \in Nat /\ c.proc \in Nat
  BY FileTyped DEF Working, SessionInv, SessionTypes, TypeOK, Cell
<1>3. call # "idle" => pc \in {"executing", "restarting"}
  BY DEF Working, SessionInv, ControlInv, CallInProgress
<1>4. CASE CellEnds \/ CellOverruns \/ CancelCell \/ CellLost
  <2>1. /\ pc = "executing" /\ pc' \in {"executing", "exec_end"}
        /\ call \in {"idle", "execute", "recover"} /\ call' \in {"idle", "recover", "kill"}
        /\ UNCHANGED <<generation, process>>
    BY <1>4 DEF CellEnds, CellOverruns, CancelCell, OverrunCell, CellLost, Kernel!Finish,
                Kernel!Settle, Kernel!Overrun, Kernel!Replace, Kernel!Goto
  <2>2. FileKept
    BY <1>1, <2>1, NothingWritten DEF RecordsKernel
  <2> QED
    BY <1>1, <2>1, <2>2, StepRecording DEF Working, Over, Unrecorded, RecordingKept
<1>5. CASE Replacing
  <2>1. /\ UNCHANGED pc
        /\ \/ call = "kill" /\ call' = "boot" /\ process' = process + 1 /\ UNCHANGED generation
           \/ call = "boot" /\ call' = "install" /\ generation' = generation + 1
              /\ UNCHANGED process
    BY <1>5 DEF Replacing, Kernel!Kill, Kernel!Ready
  <2>2. FileKept
    BY <1>1, <2>1, NothingWritten DEF RecordsKernel
  <2>3. /\ ledger' \in Seq(Entry)
        /\ Numbered' /\ GenerationsNameProcesses' /\ RecordedBeforeUse'
    BY <1>2, <2>1, <2>2, NumbersKept DEF Working, FileKept
  <2>4. pc \in {"executing", "restarting"} /\ Unrecorded'
    BY <1>3, <2>1 DEF Unrecorded
  <2>5. \A c \in CellsOnFile : c.gen <= generation
    BY DEF Working, SessionInv, Numbered
  <2>6. Recording'
    <3> SUFFICES ASSUME ~Over'
                 PROVE  /\ \A c \in CellsOnFile' :
                              \/ call' # "boot" /\ c = Present'
                              \/ c.proc < process' /\ (call' = "boot" \/ c.gen < generation')
                        /\ CellKnown'
      BY <2>4 DEF Recording
    <3>1. ~Over
      BY <1>1, <2>1 DEF Over
    <3>2. /\ \A c \in CellsOnFile :
               \/ call # "boot" /\ c = Present
               \/ c.proc < process /\ (call = "boot" \/ c.gen < generation)
          /\ CellKnown
      BY <3>1 DEF Working, SessionInv, Recording
    <3>3. CellKnown'
      BY <1>1, <2>1, <2>2, <2>4, <3>2 DEF CellKnown, FileKept
    <3>4. ASSUME NEW c \in CellsOnFile
          PROVE  \/ call' # "boot" /\ c = Present'
                 \/ c.proc < process' /\ (call' = "boot" \/ c.gen < generation')
      <4>1. c.gen \in Nat /\ c.proc \in Nat /\ (c = Present => c.proc = process)
        BY <1>2, <3>4 DEF Present
      <4> QED
        BY <1>2, <2>1, <2>5, <3>2, <3>4, <4>1
    <3> QED
      BY <2>2, <3>3, <3>4 DEF FileKept
  <2> QED
    BY <2>3, <2>6 DEF RecordingKept
<1>6. CASE ReplacedDuringCell
  <2>1. /\ pc = "executing" /\ pc' = "exec_end" /\ replaced' = TRUE
        /\ call = "install" /\ call' = "idle"
        /\ UNCHANGED <<generation, process>>
    BY <1>6 DEF ReplacedDuringCell, Kernel!Installed, Kernel!Goto
  <2>2. FileKept
    BY <1>1, <2>1, NothingWritten DEF RecordsKernel
  <2> QED
    BY <1>1, <2>1, <2>2, StepRecording DEF Working, Over, Unrecorded, RecordingKept
<1>7. CASE Restarted
  <2>1. /\ pc = "restarting" /\ pc' = "kernel_restarted" /\ call = "install" /\ call' = "idle"
        /\ UNCHANGED <<generation, process>>
    BY <1>7 DEF Restarted, Kernel!Installed, Kernel!Goto
  <2>2. ledger' = Append(ledger, KernelEntry)
    BY <1>1, <2>1 DEF Working, Recorded, RecordsKernel
  <2>3. /\ ledger' \in Seq(Entry) /\ RecordedBeforeUse'
        /\ CellsOnFile' = CellsOnFile \cup {Present}
        /\ Present \in KernelCells' /\ Present' = Present
    BY <2>1, <2>2, KernelWritten DEF Working, Present
  <2>4. raising = "none"
    BY <2>1 DEF Working, SessionInv, ControlInv, RaisingEnds
  <2> QED
    BY <1>1, <2>1, <2>3, <2>4, PresentAdded DEF RecordingKept
<1> QED
  BY <1>4, <1>5, <1>6, <1>7 DEF KernelWork

(* The observation is about the process the cell was sent to, the notice   *)
(* about the present one: both are on the file.                            *)
LEMMA ObservingRecording == ASSUME Working, Observing PROVE RecordingKept
<1>1. raising = "none" /\ call = "idle" /\ pc # "exited"
  <2>1. pc \in {"exec_end", "execution_start", "execution_end", "kernel_failed",
                "kernel_restarted", "notice_start", "notice_end"}
    BY DEF Observing, ExecutionEnd, Step, StepAppending, Emits
  <2> QED
    BY <2>1 DEF Working, SessionInv, ControlInv, CallInProgress, RaisingEnds
<1>2. TypeOK
  BY DEF Working, SessionInv, SessionTypes
<1>3. CASE StepAppending("exec_end", "exec_end", "none", Observation, "execution_start")
  <2>1. /\ messages' = Append(messages, Observation) /\ Observation \in Message
        /\ pc = "exec_end" /\ pc' = "execution_start"
        /\ UNCHANGED <<generation, process, raising, call, cell, replaced>>
    BY <1>2, <1>3, MessageTypes DEF StepAppending, Emits, kernelVars, cellVars
  <2>2. cell \in KernelCells
    BY <1>1, <2>1 DEF Working, SessionInv, Recording, Over, CellKnown
  <2>3. CellsOf(MessageEntry(Observation)) \subseteq KernelCells
    BY <2>2, CellsOfEntry DEF Observation
  <2>4. FileKept
    BY <2>1, <2>3, AppendIsRecorded, MessageWritten DEF Working
  <2> QED
    BY <2>1, <2>4, StepRecording DEF Working, Over, Unrecorded, RecordingKept
<1>4. CASE StepAppending("kernel_restarted", "kernel_restarted", "none", PresentNotice,
                         "notice_start")
  <2>1. /\ messages' = Append(messages, PresentNotice) /\ PresentNotice \in Message
        /\ pc = "kernel_restarted" /\ pc' = "notice_start"
        /\ UNCHANGED <<generation, process, raising, call, cell, replaced>>
    BY <1>2, <1>4, MessageTypes DEF StepAppending, Emits, kernelVars, cellVars
  <2>2. Present \in KernelCells
    BY <1>1, <2>1 DEF Working, SessionInv, Recording, Over, Unrecorded
  <2>3. CellsOf(MessageEntry(PresentNotice)) \subseteq KernelCells
    BY <2>2, CellsOfEntry DEF PresentNotice, Present
  <2>4. FileKept
    BY <2>1, <2>3, AppendIsRecorded, MessageWritten DEF Working
  <2> QED
    BY <2>1, <2>4, StepRecording DEF Working, Over, Unrecorded, RecordingKept
<1>5. CASE ExecutionEnd
  <2>1. pc = "execution_end" /\ UNCHANGED <<messages, raising, cell, replaced>>
    BY <1>5 DEF ExecutionEnd, Emits, cellVars
  <2>2. CASE pc' = "kernel_failed"
    <3>1. UNCHANGED <<generation, process, call>>
      BY <1>5, <2>2 DEF ExecutionEnd, kernelVars
    <3>2. ledger' = Append(ledger, KernelEntry)
      BY <2>1, <2>2 DEF Working, Recorded, RecordsKernel
    <3>3. /\ ledger' \in Seq(Entry) /\ RecordedBeforeUse'
          /\ CellsOnFile' = CellsOnFile \cup {Present}
          /\ Present \in KernelCells'
      BY <3>2, KernelWritten DEF Working
    <3> QED
      BY <1>1, <2>1, <2>2, <3>1, <3>3, PresentAdded DEF RecordingKept
  <2>3. CASE pc' # "kernel_failed"
    <3>1. /\ ~replaced /\ pc' \in {"restarting", "turn_end"} /\ call' \in {"idle", "kill"}
          /\ UNCHANGED <<generation, process>>
      BY <1>1, <1>5, <2>3
      DEF ExecutionEnd, RecordsReplacement, Kernel!Replace, Kernel!Goto, kernelVars
    <3>2. FileKept
      BY <2>1, <3>1, NothingWritten DEF RecordsKernel
    <3> QED
      BY <1>1, <2>1, <3>1, <3>2, StepRecording DEF Working, Over, Unrecorded, RecordingKept
  <2> QED
    BY <2>2, <2>3
<1>6. CASE /\ Observing /\ ~ExecutionEnd
           /\ pc \notin {"exec_end", "kernel_restarted"}
  <2>1. /\ UNCHANGED <<messages, generation, process, raising, call, cell, replaced>>
        /\ \/ pc = "execution_start" /\ pc' = "execution_end"
           \/ pc = "kernel_failed" /\ pc' = "kernel_restarted"
           \/ pc = "notice_start" /\ pc' = "notice_end"
           \/ pc = "notice_end" /\ pc' = "turn_end"
    BY <1>6 DEF Observing, Step, StepAppending, Emits, kernelVars, cellVars
  <2>2. FileKept
    BY <2>1, NothingWritten DEF RecordsKernel
  <2> QED
    BY <2>1, <2>2, StepRecording DEF Working, Over, Unrecorded, RecordingKept
<1> QED
  BY <1>3, <1>4, <1>5, <1>6 DEF Observing, Step, StepAppending, Emits

(* Once an exception is on its way nothing more is written.                *)
LEMMA RaisingRecording ==
    ASSUME Working, EmitRaises \/ StepFails \/ CancelEmit \/ KernelRaises \/ CancelKernelCall
    PROVE  RecordingKept
<1>1. UNCHANGED <<messages, generation>> /\ Over' /\ process' \in {process, process + 1}
      /\ pc' \in {"agent_end", "leaving"}
  BY DEF EmitRaises, StepFails, CancelEmit, KernelRaises, KernelException, CancelKernelCall,
         Raise, Finalise, Kernel!Abandon, Over, kernelVars
<1>2. FileKept
  BY <1>1, NothingWritten DEF RecordsKernel
<1>3. generation \in Nat /\ process \in Nat
  BY DEF Working, SessionInv, SessionTypes, TypeOK
<1>4. /\ ledger' \in Seq(Entry)
      /\ Numbered' /\ GenerationsNameProcesses' /\ RecordedBeforeUse'
  BY <1>1, <1>2, <1>3, NumbersKept DEF Working, FileKept
<1> QED
  BY <1>1, <1>4 DEF Recording, RecordingKept

(* The start and the end of a run, and tool calls, write nothing.          *)
LEMMA BoundaryRecording ==
    ASSUME Working, NoDeadline,
           \/ StartRun \/ Quit \/ AgentEnd \/ Leave \/ Deliver \/ Exited
           \/ TodoChanged \/ RequestRestart
    PROVE  RecordingKept
<1>1. UNCHANGED <<messages, generation, process, call, cell, replaced>>
  BY DEF StartRun, Quit, AgentEnd, Leave, Deliver, Exited, Step, TodoChanged, RequestRestart,
         ToolCall, vars, kernelVars, cellVars
<1>2. \/ UNCHANGED <<pc, raising>>
      \/ /\ pc \in {"prompt", "agent_end", "leaving"}
         /\ pc' \in {"agent_start", "exited", "leaving", "prompt"}
         /\ Over => Over'
  <2>1. CASE StartRun \/ Quit \/ AgentEnd
    BY <2>1 DEF StartRun, Quit, AgentEnd, Step, Emits, Over
  <2>2. CASE Leave
    BY <2>2 DEF Leave, DeadlineReported, NoDeadline, Over
  <2>3. CASE Deliver \/ Exited \/ TodoChanged \/ RequestRestart
    BY <2>3 DEF Deliver, Exited, TodoChanged, RequestRestart, ToolCall, vars
  <2> QED
    BY <2>1, <2>2, <2>3
<1>3. FileKept
  BY <1>1, <1>2, NothingWritten DEF RecordsKernel
<1> QED
  BY <1>1, <1>2, <1>3, StepRecording DEF Working, Over, Unrecorded, RecordingKept

(* Every step of the loop.                                                 *)
LEMMA NextRecording == ASSUME Working, NoDeadline, Next PROVE RecordingKept
<1>1. CASE Progress
  BY <1>1, LoopRecording, SubmitRecording, KernelRecording, ObservingRecording,
     RaisingRecording, BoundaryRecording
  DEF Progress, KernelWork
<1>2. CASE DeadlineExpires \/ Interrupt
  BY <1>2, LoopRecording, KernelRecording, RaisingRecording
  DEF DeadlineExpires, Interrupt, Cancel, CancelAll, CancelKernel
<1>3. CASE Next /\ ~Progress /\ ~DeadlineExpires /\ ~Interrupt
  BY <1>3, LoopRecording, SubmitRecording, RaisingRecording, BoundaryRecording DEF Next
<1> QED
  BY <1>1, <1>2, <1>3

-----------------------------------------------------------------------------
(* What the transcript tells of earlier processes.                         *)

(* A step that keeps the process, appends at most a message that is not    *)
(* about another one, and leaves no notice that is owed.                   *)
LEMMA StepFresh ==
    ASSUME SessionInv, stage = "running", UNCHANGED <<stage, generation, process>>,
           Owed => Owed',
           \/ Owed' \/ UNCHANGED messages
           \/ \E m \in Message :
                 /\ messages' = Append(messages, m)
                 /\ m.kind \in {"execution", "notice"} => m.cell.proc = process
    PROVE  Fresh'
<1> SUFFICES ASSUME ~Owed' PROVE AnnouncedLast'
  BY DEF Fresh
<1>1. AnnouncedLast /\ messages \in Seq(Message) /\ Present' = Present
  BY DEF SessionInv, SessionTypes, TypeOK, Fresh, Present
<1>2. CASE UNCHANGED messages
  BY <1>1, <1>2 DEF AnnouncedLast
<1>3. ASSUME NEW m \in Message, messages' = Append(messages, m),
             m.kind \in {"execution", "notice"} => m.cell.proc = process
      PROVE  AnnouncedLast'
  <2>1. /\ Len(messages') = Len(messages) + 1 /\ Len(messages) \in Nat
        /\ DOMAIN messages = 1 .. Len(messages) /\ DOMAIN messages' = 1 .. Len(messages) + 1
        /\ messages'[Len(messages) + 1] = m
        /\ \A i \in 1 .. Len(messages) : messages'[i] = messages[i]
    BY <1>1, <1>3
  <2> SUFFICES ASSUME NEW i \in DOMAIN messages'
               PROVE  \/ \E j \in i + 1 .. Len(messages') : messages'[j] = Notice(Present)
                      \/ messages'[i].kind \in {"execution", "notice"}
                            => messages'[i].cell.proc = process
    BY <1>1 DEF AnnouncedLast
  <2>2. CASE i = Len(messages) + 1
    BY <1>3, <2>1, <2>2
  <2>3. CASE i # Len(messages) + 1
    <3>1. i \in DOMAIN messages
      BY <2>1, <2>3
    <3>2. ASSUME NEW j \in i + 1 .. Len(messages), messages[j] = Notice(Present)
          PROVE  j \in i + 1 .. Len(messages') /\ messages'[j] = Notice(Present)
      BY <2>1, <3>1, <3>2
    <3> QED
      BY <1>1, <2>1, <3>1, <3>2 DEF AnnouncedLast
  <2> QED
    BY <2>2, <2>3
<1> QED
  BY <1>2, <1>3

(* The notice settles all that came before it.                             *)
LEMMA NoticeFresh ==
    ASSUME SessionInv, UNCHANGED <<generation, process>>,
           messages' = Append(messages, PresentNotice)
    PROVE  AnnouncedLast'
<1>1. messages \in Seq(Message) /\ Present' = Present /\ PresentNotice = Notice(Present)
      /\ Present.proc = process
  BY DEF SessionInv, SessionTypes, TypeOK, Present, PresentNotice
<1>2. /\ Len(messages') = Len(messages) + 1 /\ Len(messages) \in Nat
      /\ DOMAIN messages' = 1 .. Len(messages) + 1
      /\ messages'[Len(messages) + 1] = Notice(Present)
  BY <1>1
<1>3. Notice(Present).cell = Present
  BY DEF Notice
<1> SUFFICES ASSUME NEW i \in DOMAIN messages'
             PROVE  \/ \E j \in i + 1 .. Len(messages') : messages'[j] = Notice(Present)
                    \/ messages'[i].cell.proc = process
  BY <1>1 DEF AnnouncedLast
<1>4. CASE i = Len(messages) + 1
  BY <1>1, <1>2, <1>3, <1>4
<1>5. CASE i # Len(messages) + 1
  BY <1>2, <1>5
<1> QED
  BY <1>4, <1>5

(* The loop outside of an execution, and sending a cell.                   *)
LEMMA LoopFresh ==
    ASSUME Working,
           \/ Opening \/ StreamDelta \/ StreamEnds \/ FinalDelta \/ Deciding \/ Turns
           \/ CancelStream \/ SubmitCell \/ ExecOutput
    PROVE  Fresh'
<1>1. CASE SubmitCell \/ ExecOutput
  BY <1>1, StepFresh
  DEF Working, SubmitCell, ExecOutput, Step, Emits, Owed, kernelVars, cellVars, Kernel!Submit,
      Kernel!Goto
<1>2. CASE \/ Opening \/ StreamDelta \/ StreamEnds \/ FinalDelta \/ Deciding \/ Turns
           \/ CancelStream
  <2>1. /\ UNCHANGED <<generation, process, raising, call, cell, replaced>>
        /\ pc \notin {"exited", "restarting", "kernel_failed", "kernel_restarted",
                       "exec_end", "execution_start", "execution_end", "executing"}
        /\ \/ UNCHANGED messages
           \/ \E m \in Message : /\ messages' = Append(messages, m)
                                  /\ m.kind \notin {"execution", "notice"}
    BY <1>2, LoopSteps DEF Working, SessionInv, SessionTypes
  <2>2. Owed => Owed'
    BY <2>1 DEF Owed
  <2>3. \/ UNCHANGED messages
        \/ \E m \in Message : /\ messages' = Append(messages, m)
                               /\ m.kind \in {"execution", "notice"} => m.cell.proc = process
    BY <2>1
  <2> QED
    BY <2>1, <2>2, <2>3, StepFresh DEF Working
<1> QED
  BY <1>1, <1>2

(* From the end of a process its successor's notice is owed.               *)
LEMMA KernelFresh == ASSUME Working, KernelWork \/ CancelCell PROVE Fresh'
<1>1. UNCHANGED <<messages, raising>>
  BY DEF KernelWork, CellEnds, CellOverruns, OverrunCell, CellLost, Replacing,
         ReplacedDuringCell, Restarted, CancelCell, KernelStep
<1>2. CASE CellEnds \/ CellOverruns \/ CancelCell \/ CellLost
  <2>1. /\ pc = "executing" /\ call \in {"idle", "execute", "recover"}
        /\ UNCHANGED <<generation, process>>
    BY <1>2 DEF CellEnds, CellOverruns, CancelCell, OverrunCell, CellLost, Kernel!Finish,
                Kernel!Settle, Kernel!Overrun, Kernel!Replace, Kernel!Goto
  <2> QED
    BY <1>1, <2>1, StepFresh DEF Working, Owed
<1>3. CASE Replacing
  <2>1. call \in {"kill", "boot"} /\ call' \in {"boot", "install"} /\ UNCHANGED pc
    BY <1>3 DEF Replacing, Kernel!Kill, Kernel!Ready
  <2>2. pc \in {"executing", "restarting"}
    BY <2>1 DEF Working, SessionInv, ControlInv, CallInProgress
  <2> QED
    BY <2>1, <2>2 DEF Working, Fresh, Owed
<1>4. CASE ReplacedDuringCell \/ Restarted
  BY <1>4 DEF ReplacedDuringCell, Restarted, Working, Fresh, Owed
<1> QED
  BY <1>2, <1>3, <1>4 DEF KernelWork

(* An observation is about the present process, or the notice is owed.     *)
LEMMA ObservingFresh == ASSUME Working, Observing PROVE Fresh'
<1>1. TypeOK
  BY DEF Working, SessionInv, SessionTypes
<1>2. CASE StepAppending("kernel_restarted", "kernel_restarted", "none", PresentNotice,
                         "notice_start")
  <2>1. messages' = Append(messages, PresentNotice) /\ UNCHANGED <<generation, process>>
    BY <1>2 DEF StepAppending, kernelVars
  <2> QED
    BY <2>1, NoticeFresh DEF Working, Fresh
<1>3. CASE StepAppending("exec_end", "exec_end", "none", Observation, "execution_start")
  <2>1. /\ messages' = Append(messages, Observation) /\ Observation \in Message
        /\ pc = "exec_end" /\ pc' = "execution_start"
        /\ UNCHANGED <<generation, process, raising, replaced>>
    BY <1>1, <1>3, MessageTypes DEF StepAppending, Emits, kernelVars, cellVars
  <2>2. CASE replaced
    BY <2>1, <2>2 DEF Working, Fresh, Owed
  <2>3. CASE ~replaced
    <3>1. raising = "none"
      BY <2>1 DEF Working, SessionInv, ControlInv, RaisingEnds
    <3>2. cell = Present
      BY <2>1, <2>3, <3>1 DEF Working, SessionInv, Recording, Over, CellKnown, Unrecorded
    <3>3. Observation.cell.proc = process
      BY <3>2 DEF Observation, Execution, Present
    <3> QED
      BY <2>1, <3>3, StepFresh DEF Working, Owed
  <2> QED
    BY <2>2, <2>3
<1>4. CASE ExecutionEnd
  <2>1. pc = "execution_end" /\ UNCHANGED <<messages, raising>>
    BY <1>4 DEF ExecutionEnd, Emits
  <2>2. CASE pc' \in {"kernel_failed", "restarting"}
    BY <2>2 DEF Working, Fresh, Owed
  <2>3. CASE pc' = "turn_end"
    BY <1>4, <2>1, <2>3, StepFresh DEF Working, ExecutionEnd, RecordsReplacement, Owed, kernelVars
  <2> QED
    BY <1>4, <2>2, <2>3 DEF ExecutionEnd
<1>5. CASE /\ Observing /\ ~ExecutionEnd
           /\ pc \notin {"exec_end", "kernel_restarted"}
  <2>1. /\ UNCHANGED <<messages, generation, process, raising, replaced>>
        /\ \/ pc = "execution_start" /\ pc' = "execution_end"
           \/ pc = "kernel_failed" /\ pc' = "kernel_restarted"
           \/ pc \in {"notice_start", "notice_end"}
    BY <1>5 DEF Observing, Step, StepAppending, Emits, kernelVars, cellVars
  <2> QED
    BY <2>1, StepFresh DEF Working, Owed
<1> QED
  BY <1>2, <1>3, <1>4, <1>5 DEF Observing, Step, StepAppending, Emits

(* Exceptions, the start and the end of a run, and tool calls.             *)
LEMMA BoundaryFresh ==
    ASSUME Working, NoDeadline,
           \/ EmitRaises \/ StepFails \/ CancelEmit \/ KernelRaises \/ CancelKernelCall
           \/ StartRun \/ Quit \/ AgentEnd \/ Leave \/ Deliver \/ Exited
           \/ TodoChanged \/ RequestRestart
    PROVE  Fresh'
<1>1. CASE EmitRaises \/ StepFails \/ CancelEmit \/ KernelRaises \/ CancelKernelCall
  BY <1>1 DEF EmitRaises, StepFails, CancelEmit, KernelRaises, KernelException,
              CancelKernelCall, Raise, Working, Fresh, Owed
<1>2. CASE \/ StartRun \/ Quit \/ AgentEnd \/ Leave \/ Deliver \/ Exited
           \/ TodoChanged \/ RequestRestart
  <2>1. UNCHANGED <<messages, generation, process>>
    BY <1>2 DEF StartRun, Quit, AgentEnd, Leave, Deliver, Exited, Step, TodoChanged,
                RequestRestart, ToolCall, vars, kernelVars
  <2>2. Owed => Owed'
    <3>1. CASE StartRun \/ Quit \/ AgentEnd
      BY <3>1 DEF StartRun, Quit, AgentEnd, Step, Emits, Owed
    <3>2. CASE Leave
      BY <3>2 DEF Leave, DeadlineReported, NoDeadline, Owed
    <3>3. CASE Deliver \/ Exited \/ TodoChanged \/ RequestRestart
      BY <3>3 DEF Deliver, Exited, TodoChanged, RequestRestart, ToolCall, vars, Owed,
                  kernelVars, cellVars
    <3> QED
      BY <1>2, <3>1, <3>2, <3>3
  <2> QED
    BY <2>1, <2>2, StepFresh DEF Working
<1> QED
  BY <1>1, <1>2

(* Every step of the loop.                                                 *)
LEMMA NextFresh == ASSUME Working, NoDeadline, Next PROVE Fresh'
<1>1. CASE Progress
  BY <1>1, LoopFresh, KernelFresh, ObservingFresh, BoundaryFresh DEF Progress, KernelWork
<1>2. CASE DeadlineExpires \/ Interrupt
  BY <1>2, LoopFresh, KernelFresh, BoundaryFresh
  DEF DeadlineExpires, Interrupt, Cancel, CancelAll, CancelKernel
<1>3. CASE Next /\ ~Progress /\ ~DeadlineExpires /\ ~Interrupt
  BY <1>3, LoopFresh, BoundaryFresh DEF Next
<1> QED
  BY <1>1, <1>2, <1>3

-----------------------------------------------------------------------------
(* The steps of a start and of a stop.                                     *)

(* A process of the application before its session.                        *)
LEMMA VolatileControl ==
    ASSUME NEW transcript \in Seq(Message), NEW number \in Nat, Volatile(transcript, number),
           process \in Nat \ {0}, UNCHANGED process
    PROVE  /\ TypeOK' /\ ControlInv'
           /\ pc' = "prompt" /\ raising' = "none" /\ call' = "idle"
<1>1. /\ pc' = "prompt" /\ raising' = "none" /\ call' = "idle" /\ active' = 0
      /\ isRunning' = FALSE
  BY DEF Volatile
<1>2. ControlInv'
  BY <1>1 DEF ControlInv, CallInProgress, RaisingEnds, RunningKnown, ActiveKnown
<1>3. reply' \in Reply /\ cell' \in Cell /\ restart' \in [proc : Nat, run : Nat]
  BY DEF Volatile, Reply, StopReasons, Blocks, Cell, NoRequest
<1>4. pc' \in Points /\ lastError' \in Errors /\ event'.run \in Nat
  BY DEF Volatile, Points, Errors
<1>5. call' \in Kernel!CallStates /\ generation' \in Nat /\ process' \in Nat \ {0}
  BY DEF Volatile, Kernel!CallStates
<1>6. /\ run' = 0 /\ turn' = 0 /\ executions' = 0 /\ repairs' = 0
      /\ interrupted' = <<>> /\ rpcs' = 0 /\ tail' = "idle" /\ deadline' = "off"
  BY DEF Volatile
<1>7. messages' \in Seq(Message) /\ interrupted' \in Seq(Nat)
  BY <1>6 DEF Volatile
<1>8. replaced' \in BOOLEAN /\ isRunning' \in BOOLEAN
  BY Zenon DEF Volatile
<1>9. TypeOK'
  BY <1>1, <1>3, <1>4, <1>5, <1>6, <1>7, <1>8 DEF TypeOK
<1> QED
  BY <1>1, <1>2, <1>9

(* application.py:91-109: the number a start takes is beyond all on the    *)
(* file.                                                                   *)
LEMMA OpenKept == ASSUME SessionInv, OpenSession PROVE SessionInv'
<1>1. /\ TypeOK /\ ledger \in Seq(Entry) /\ process \in Nat \ {0}
      /\ \A c \in CellsOnFile : c.gen \in Nat /\ c.proc \in Nat
  BY FileTyped DEF SessionInv, SessionTypes, TypeOK, Cell
<1>2. FileKept
  <2>1. CASE ledger # <<>>
    BY <2>1, NotWritten DEF OpenSession
  <2>2. CASE ledger = <<>>
    <3>1. ledger' = Append(ledger, Session)
      <4>1. ledger' = <<Session>>
        BY <2>2, Zenon DEF OpenSession
      <4> HIDE DEF Session
      <4> QED
        BY <2>2, <4>1
    <3>2. Session \in Entry /\ Session.type = "session"
      BY DEF Entry, Session
    <3> QED
      BY <3>1, <3>2, CellsOfEntry, EntryAppended, StillRecorded DEF SessionInv, FileKept
  <2> QED
    BY <2>1, <2>2
<1> DEFINE S == UNION {{c.gen : c \in CellsOf(e)} : e \in Range(ledger)}
<1>3. S \in SUBSET Nat /\ \A c \in CellsOnFile : c.gen \in S
  BY <1>1 DEF CellsOnFile
<1>4. PICK b \in Nat : \A c \in CellsOnFile : c.gen <= b
  BY DEF SessionInv, Numbered
<1>5. \A x \in S : x <= b
  BY <1>4 DEF CellsOnFile
<1>6. MaxKernelGeneration \in Nat /\ \A x \in S : x <= MaxKernelGeneration
  <2>1. MaxKernelGeneration = Max({0} \cup S)
    BY DEF MaxKernelGeneration
  <2> HIDE DEF S
  <2> QED
    BY <1>3, <1>5, <2>1, MaxBounds
<1>7. /\ generation' = MaxKernelGeneration + 1 /\ UNCHANGED process
      /\ stage' = "opened" /\ messages' = Messages(ledger)
      /\ ~resumed' => ledger = <<>>
  BY DEF OpenSession, Volatile
<1>8. \A c \in CellsOnFile : c.gen < generation' /\ c.gen <= generation'
  <2> HIDE DEF S
  <2> QED
    BY <1>1, <1>3, <1>6, <1>7
<1>9. Messages(ledger) \in Seq(Message) /\ (ledger = <<>> => Messages(ledger) = <<>>)
  BY <1>1, MessagesTyped
<1>10. TypeOK' /\ ControlInv' /\ pc' = "prompt" /\ raising' = "none" /\ call' = "idle"
  BY <1>1, <1>6, <1>9, VolatileControl DEF OpenSession
<1>11. Numbered'
  BY <1>2, <1>4, <1>7, <1>8 DEF SessionInv, Numbered, FileKept
<1>12. SessionTypes' /\ RecordedBeforeUse' /\ GenerationsNameProcesses'
  BY <1>2, <1>7, <1>10 DEF SessionInv, SessionTypes, GenerationsNameProcesses, FileKept
<1>13. Recording' /\ Fresh'
  BY <1>7, <1>9 DEF Recording, Fresh
<1> QED
  BY <1>10, <1>11, <1>12, <1>13 DEF SessionInv

(* A process that has been started is a new one.                           *)
LEMMA StartKept == ASSUME SessionInv, StartKernel PROVE SessionInv'
<1>1. FileKept
  BY NotWritten DEF StartKernel
<1>2. /\ process \in Nat \ {0} /\ process' = process + 1
      /\ \A c \in CellsOnFile : c.gen \in Nat /\ c.proc \in Nat
  BY FileTyped DEF SessionInv, SessionTypes, TypeOK, Cell, StartKernel
<1>3. TypeOK'
  BY <1>2 DEF SessionInv, SessionTypes, TypeOK, StartKernel, counters, cellVars, outcome,
              requestVars, timerVars
<1>4. SessionTypes' /\ ControlInv'
  BY <1>1, <1>3 DEF SessionInv, SessionTypes, ControlInv, CallInProgress, RaisingEnds,
                    RunningKnown, ActiveKnown, StartKernel, outcome, requestVars, FileKept
<1>5. Numbered' /\ GenerationsNameProcesses' /\ RecordedBeforeUse'
  BY <1>1, <1>2 DEF SessionInv, Numbered, GenerationsNameProcesses, FileKept, StartKernel
<1>6. Recording' /\ Fresh'
  BY DEF SessionInv, Recording, Fresh, StartKernel
<1> QED
  BY <1>4, <1>5, <1>6 DEF SessionInv

(* application.py:110: its entry is the first about it.                    *)
LEMMA RecordStartKept == ASSUME SessionInv, RecordStart PROVE SessionInv'
<1>1. /\ ledger' \in Seq(Entry) /\ RecordedBeforeUse'
      /\ CellsOnFile' = CellsOnFile \cup {Present} /\ Present \in KernelCells'
  BY KernelWritten DEF RecordStart
<1>2. /\ generation \in Nat /\ process \in Nat
      /\ Present.gen = generation /\ Present.proc = process
      /\ UNCHANGED <<generation, process>> /\ Present' = Present
      /\ \A c \in CellsOnFile : c.gen \in Nat /\ c.proc \in Nat
  BY FileTyped DEF SessionInv, SessionTypes, TypeOK, Cell, RecordStart, vars, kernelVars, Present
<1>3. \A c \in CellsOnFile : c.gen < generation /\ c.proc < process
  BY DEF SessionInv, Numbered, RecordStart
<1>4. SessionTypes' /\ ControlInv'
  BY <1>1 DEF SessionInv, SessionTypes, TypeOK, ControlInv, CallInProgress, RaisingEnds,
              RunningKnown, ActiveKnown, RecordStart, vars, counters, cellVars, outcome,
              requestVars, timerVars, kernelVars
<1>5. Numbered' /\ GenerationsNameProcesses'
  <2>1. stage' \in {"recorded", "running"}
    BY DEF RecordStart
  <2>2. \A c \in CellsOnFile' : c.gen <= generation' /\ c.proc <= process'
    BY <1>1, <1>2, <1>3
  <2>3. GenerationsNameProcesses
    BY DEF SessionInv
  <2>4. GenerationsNameProcesses'
    BY <1>1, <1>2, <1>3, <2>3 DEF GenerationsNameProcesses
  <2> QED
    BY <1>2, <2>1, <2>2, <2>4 DEF Numbered
<1>6. pc' = "prompt" /\ call' = "idle"
  BY DEF SessionInv, SessionTypes, RecordStart, vars, kernelVars
<1>7. Recording'
  BY <1>1, <1>2, <1>3, <1>6 DEF Recording, CellKnown
<1>8. Fresh'
  BY DEF SessionInv, Fresh, AnnouncedLast, RecordStart, vars
<1> QED
  BY <1>1, <1>4, <1>5, <1>7, <1>8 DEF SessionInv

(* application.py:111-124: the notice of a resumed session is about the    *)
(* process on file, and the latest message.                                *)
LEMMA AnnounceKept == ASSUME SessionInv, AnnounceResume PROVE SessionInv'
<1>1. /\ messages' = Append(messages, PresentNotice)
      /\ ledger' = Append(ledger, MessageEntry(PresentNotice))
      /\ stage = "recorded" /\ stage' = "running"
      /\ UNCHANGED <<pc, raising, call, generation, process, cell, replaced>>
  BY DEF AnnounceResume, ResumeNotice, kernelVars, cellVars
<1>2. pc = "prompt" /\ raising = "none" /\ call = "idle" /\ TypeOK
  BY <1>1 DEF SessionInv, SessionTypes
<1>3. PresentNotice \in Message /\ messages \in Seq(Message)
  BY <1>2, MessageTypes DEF TypeOK
<1>4. messages' \in Seq(Message)
  BY <1>1, <1>3
<1>5. Present \in KernelCells
  BY <1>1, <1>2 DEF SessionInv, Recording, Over, Unrecorded
<1>6. FileKept
  <2>1. CellsOf(MessageEntry(PresentNotice)) \subseteq KernelCells
    BY <1>5, CellsOfEntry DEF PresentNotice, Present
  <2> QED
    BY <1>1, <1>3, <2>1, MessageWritten
<1>7. TypeOK'
  BY <1>1, <1>2, <1>4 DEF TypeOK, AnnounceResume, counters, cellVars, outcome, requestVars,
                          timerVars, kernelVars
<1>8. SessionTypes' /\ ControlInv'
  BY <1>1, <1>6, <1>7 DEF SessionInv, SessionTypes, ControlInv, CallInProgress, RaisingEnds,
                          RunningKnown, ActiveKnown, AnnounceResume, outcome, requestVars, FileKept
<1>9. Numbered' /\ GenerationsNameProcesses' /\ RecordedBeforeUse'
  BY <1>1, <1>6 DEF SessionInv, Numbered, GenerationsNameProcesses, FileKept
<1>10. Recording'
  BY <1>1, <1>2, <1>6 DEF SessionInv, Recording, CellKnown, Over, Unrecorded, Present, FileKept
<1>11. Fresh'
  BY <1>1, NoticeFresh DEF Fresh
<1> QED
  BY <1>8, <1>9, <1>10, <1>11 DEF SessionInv

(* A stop leaves the file.                                                 *)
LEMMA StopKept == ASSUME SessionInv, Stop PROVE SessionInv'
<1>1. /\ stage' = "stopped" /\ Volatile(<<>>, 0) /\ UNCHANGED process
      /\ <<>> \in Seq(Message) /\ 0 \in Nat /\ process \in Nat \ {0}
  BY DEF Stop, SessionInv, SessionTypes, TypeOK
<1>2. FileKept
  BY NotWritten DEF Stop
<1>3. TypeOK' /\ ControlInv' /\ pc' = "prompt" /\ raising' = "none" /\ call' = "idle"
  BY <1>1, VolatileControl
<1>4. SessionTypes'
  BY <1>1, <1>2, <1>3 DEF SessionTypes, FileKept
<1>5. Numbered' /\ GenerationsNameProcesses' /\ RecordedBeforeUse'
  BY <1>1, <1>2 DEF SessionInv, Numbered, GenerationsNameProcesses, FileKept
<1>6. Recording' /\ Fresh'
  BY <1>1 DEF Recording, Fresh
<1> QED
  BY <1>3, <1>4, <1>5, <1>6 DEF SessionInv

(* Nothing happens.                                                        *)
LEMMA StutterKept == ASSUME SessionInv, UNCHANGED <<vars, sessionVars>> PROVE SessionInv'
<1>1. /\ UNCHANGED <<pc, run, turn, executions, repairs, reply, cell, replaced, raising, messages,
                     isRunning, lastError, restart, active, tail, event, deadline, interrupted,
                     rpcs, call, generation, process>>
      /\ UNCHANGED <<ledger, stage, resumed, starts>>
  BY DEF vars, sessionVars, counters, cellVars, outcome, requestVars, timerVars, kernelVars
<1>2. FileKept /\ Present' = Present
  BY <1>1, NotWritten DEF Present
<1>3. SessionTypes' /\ ControlInv'
  BY <1>1 DEF SessionInv, SessionTypes, TypeOK, ControlInv, CallInProgress, RaisingEnds,
              RunningKnown, ActiveKnown
<1>4. Numbered' /\ GenerationsNameProcesses' /\ RecordedBeforeUse'
  BY <1>1, <1>2 DEF SessionInv, Numbered, GenerationsNameProcesses, FileKept
<1>5. Recording'
  BY <1>1, <1>2 DEF SessionInv, Recording, CellKnown, Over, Unrecorded, FileKept
<1>6. Fresh'
  BY <1>1, <1>2 DEF SessionInv, Fresh, AnnouncedLast, Owed
<1> QED
  BY <1>2, <1>3, <1>4, <1>5, <1>6 DEF SessionInv

(* The loop at work.                                                       *)
LEMMA WorkKept == ASSUME SessionInv, NoDeadline, Work PROVE SessionInv'
<1>1. Working /\ Next
  BY DEF Working, Work
<1>2. TypeOK' /\ ControlInv'
  BY <1>1, NextTypes, NextControl DEF SessionInv, SessionTypes
<1>3. SessionTypes'
  BY <1>1, <1>2, NextRecording DEF Working, SessionTypes, RecordingKept
<1> QED
  BY <1>1, <1>2, <1>3, NextRecording, NextFresh DEF SessionInv, RecordingKept

-----------------------------------------------------------------------------
(* The theorems.                                                           *)

(* It holds in every state of every behaviour.                             *)
LEMMA SessionInvariant == NoDeadline => (SessionSpec => []SessionInv)
<1> SUFFICES ASSUME NoDeadline PROVE SessionSpec => []SessionInv
  OBVIOUS
<1>1. SessionInit => SessionInv
  <2> SUFFICES ASSUME SessionInit PROVE SessionInv
    OBVIOUS
  <2>1. TypeOK
    BY InitTypes DEF SessionInit
  <2>2. ControlInv
    BY DEF SessionInit, Init, ControlInv, CallInProgress, RaisingEnds, RunningKnown, ActiveKnown,
           Kernel!Init
  <2>3. /\ stage = "stopped" /\ ledger = <<>> /\ <<>> \in Seq(Entry)
        /\ pc = "prompt" /\ raising = "none" /\ call = "idle"
    BY DEF SessionInit, Init, Kernel!Init
  <2>4. CellsOnFile = {} /\ RecordedBeforeUse
    BY <2>3 DEF CellsOnFile, Range, RecordedBeforeUse
  <2>5. Numbered /\ GenerationsNameProcesses
    <3>1. 0 \in Nat
      OBVIOUS
    <3> QED
      BY <2>4, <3>1 DEF Numbered, GenerationsNameProcesses
  <2>6. SessionTypes /\ Recording /\ Fresh
    BY <2>1, <2>3 DEF SessionTypes, Recording, Fresh
  <2> QED
    BY <2>2, <2>4, <2>5, <2>6 DEF SessionInv
<1>2. SessionInv /\ [SessionNext]_<<vars, sessionVars>> => SessionInv'
  BY OpenKept, StartKept, RecordStartKept, AnnounceKept, WorkKept, StopKept, StutterKept
  DEF SessionNext, Rest
<1> QED
  BY <1>1, <1>2, PTL DEF SessionSpec

(* application.py:104 and loop.py:382, PLAN 11.1 and 14.4: on the whole    *)
(* file, over any number of stops, resumptions and replacements, two       *)
(* records carry the same generation exactly when they are about the same  *)
(* process.                                                                *)
THEOREM NumbersNameProcesses == NoDeadline => (SessionSpec => []GenerationsNameProcesses)
<1>1. SessionInv => GenerationsNameProcesses
  BY DEF SessionInv
<1> QED
  BY <1>1, SessionInvariant, PTL

(* loop.py:345-382, PLAN 15.5: wherever the application stops, each        *)
(* message about a process stands behind the entry of that process, so     *)
(* that its number is never given out again.                               *)
THEOREM RecordedFirst == NoDeadline => (SessionSpec => []RecordedBeforeUse)
<1>1. SessionInv => RecordedBeforeUse
  BY DEF SessionInv
<1> QED
  BY <1>1, SessionInvariant, PTL

(* README.md:65, PLAN 14.4: what a request tells of an earlier process is  *)
(* followed by the notice that the present one is fresh, also after a stop *)
(* that came before the notice.                                            *)
THEOREM ResumeAnnounced == NoDeadline => (SessionSpec => []FreshMemoryAnnounced)
<1>1. SessionInv => FreshMemoryAnnounced
  <2> SUFFICES ASSUME SessionInv, stage = "running", pc = "streaming"
               PROVE  AnnouncedLast
    BY DEF FreshMemoryAnnounced, AnnouncedLast, Present
  <2>1. ~Owed
    BY DEF SessionInv, ControlInv, RaisingEnds, Owed
  <2> QED
    BY <2>1 DEF SessionInv, Fresh
<1> QED
  BY <1>1, SessionInvariant, PTL

=============================================================================
