------------------------------ MODULE AgentLoop ------------------------------
(***************************************************************************)
(* AgentLoop.run of agent/loop.py with the parts of AgentSession,          *)
(* RestartController and the tool RPC handlers that run between its        *)
(* awaits.  One asyncio thread: the loop's task gives way to the handlers  *)
(* only where it is Suspended, and only there can it be cancelled.         *)
(***************************************************************************)
EXTENDS Naturals, Sequences

CONSTANTS
    MaxTurns, MaxExecutions, MaxRepairs,    \* RunConfig
    HasDeadline,            \* RunConfig.run_timeout_seconds is set
    MaxInterrupts,          \* how often the user may press Ctrl-C; see Interrupt
    InitialGeneration,
    MaxRuns, MaxRpcs        \* bounds of the model: prompts, tool calls

ASSUME ConfigAssumption ==              \* RunConfig.validate
    /\ MaxTurns \in Nat \ {0}
    /\ MaxExecutions \in Nat
    /\ MaxRepairs \in Nat
    /\ HasDeadline \in BOOLEAN
    /\ MaxInterrupts \in 0 .. 2
    /\ InitialGeneration \in Nat
    /\ MaxRuns \in Nat
    /\ MaxRpcs \in Nat

VARIABLES
    pc,                 \* the await the loop's task has reached
    run,                \* run_id
    turn,               \* turn_number
    executions,
    repairs,
    reply,              \* stop reason and Exec block of the reply being handled
    cell,               \* generation and process the latest cell was sent to
    replaced,           \* KernelExecutionResult.replaced_kernel
    raising,            \* the exception on its way out of _run
    messages,           \* AgentState.messages
    isRunning,          \* AgentState.is_running
    lastError,          \* AgentState.last_error
    restart,            \* RestartController.requested, with who asked and the event's run
    active,             \* AgentLoop._active_run_id
    tail,               \* AgentSession._delivery_tail
    event,              \* the latest event of the loop itself
    deadline,           \* asyncio.timeout of run()
    interrupted,        \* the runs in which Ctrl-C was pressed, in order
    rpcs,               \* tool calls so far
    call, generation, process       \* the kernel, see KernelContract

Kernel == INSTANCE KernelContract

kernelVars == <<call, generation, process>>
counters == <<turn, executions, repairs>>
cellVars == <<cell, replaced>>
outcome == <<isRunning, lastError>>
requestVars == <<restart, active>>
timerVars == <<deadline, interrupted>>
vars == <<pc, run, counters, reply, cellVars, raising, messages, outcome, requestVars, tail,
          event, timerVars, rpcs, kernelVars>>

-----------------------------------------------------------------------------

StopReasons == {"stop", "length", "error", "aborted"}
Blocks == {"none", "exec", "malformed"}
Reply == [stop : StopReasons, block : Blocks]

Cell == [gen : Nat, proc : Nat]

User == [kind |-> "user"]
ProtocolError == [kind |-> "protocol_error"]
Assistant(r) == [kind |-> "assistant", reply |-> r]
Execution(c) == [kind |-> "execution", cell |-> c]
Notice(c) == [kind |-> "notice", cell |-> c]

Message ==
    {User, ProtocolError} \cup [kind : {"assistant"}, reply : Reply]
        \cup [kind : {"execution", "notice"}, cell : Cell]

NoRequest == [proc |-> 0, run |-> 0]

Preamble == {"agent_start", "first_turn_start", "user_start", "user_end"}

EmitPoints == Preamble \cup
    {"turn_start", "assistant_start", "final_delta", "assistant_end",
     "repair_start", "repair_end", "repair_turn_end", "exec_start", "exec_end",
     "execution_start", "execution_end", "kernel_failed", "kernel_restarted",
     "notice_start", "notice_end", "turn_end", "last_turn_end", "agent_end"}

Points == EmitPoints \cup
    {"prompt", "streaming", "executing", "restarting", "leaving", "exited"}

Errors == {"none", "provider", "length", "repairs", "executions", "turns", "deadline"}

Init ==
    /\ pc = "prompt"
    /\ run = 0
    /\ turn = 0 /\ executions = 0 /\ repairs = 0
    /\ reply = [stop |-> "stop", block |-> "none"]
    /\ cell = [gen |-> 0, proc |-> 0]
    /\ replaced = FALSE
    /\ raising = "none"
    /\ messages = <<>>
    /\ isRunning = FALSE
    /\ lastError = "none"
    /\ restart = NoRequest
    /\ active = 0
    /\ tail = "idle"
    /\ event = [type |-> "none", role |-> "none", run |-> 0]
    /\ deadline = "off"
    /\ interrupted = <<>>
    /\ rpcs = 0
    /\ Kernel!Init

-----------------------------------------------------------------------------
(* Delivery of events (agent/session.py).  The tail is the chain of        *)
(* background deliveries: emit() awaits it first.  EventDelivery models    *)
(* the tasks of the chain; here it is idle, pending, or dead: cancelled    *)
(* while the loop awaited it, after which every await of it raises.        *)

Suspended ==
    \/ pc \in {"prompt", "streaming", "executing", "restarting"}
    \/ pc \in EmitPoints /\ tail = "pending"

EmitBackground == tail' = IF tail = "dead" THEN "dead" ELSE "pending"

(* Variant: a delivery that looks the tail up when it runs awaits itself.  *)
DeliversItself == tail' = tail

Delivers == tail' = "idle"

Deliver ==
    /\ tail = "pending"
    /\ Delivers
    /\ UNCHANGED <<pc, run, counters, reply, cellVars, raising, messages, outcome, requestVars,
                   event, timerVars, rpcs, kernelVars>>

(* Cancelling a task that awaits the tail cancels the tail's task, unless  *)
(* that has just finished.                                                 *)
CancelTail == tail' \in IF tail = "pending" THEN {"idle", "dead"} ELSE {tail}

Emits(point, type, role) ==
    /\ pc = point
    /\ tail = "idle"
    /\ event' = [type |-> type, role |-> role, run |-> run]
    /\ UNCHANGED <<run, raising, tail, timerVars, rpcs>>

(* An event after which the loop only moves on.                            *)
Step(point, type, role, next) ==
    /\ Emits(point, type, role)
    /\ pc' = next
    /\ UNCHANGED <<counters, reply, cellVars, messages, outcome, requestVars, kernelVars>>

(* An event after which a message is appended.                             *)
StepAppending(point, type, role, message, next) ==
    /\ Emits(point, type, role)
    /\ messages' = Append(messages, message)
    /\ pc' = next
    /\ UNCHANGED <<counters, reply, cellVars, outcome, requestVars, kernelVars>>

(* Variant: is_running is not reset.                                       *)
StaysRunning == isRunning' = isRunning

StopsRunning == isRunning' = FALSE

(* The finally clause of _run: is_running is cleared, then agent_end.      *)
Finalise == pc' = "agent_end" /\ StopsRunning

(* An exception leaves the await the task stands at.  The preamble is not  *)
(* inside the try statement.                                               *)
Raise(exception) ==
    /\ raising' = exception
    /\ IF pc \in Preamble \cup {"agent_end"}
         THEN pc' = "leaving" /\ UNCHANGED isRunning
         ELSE Finalise
    /\ UNCHANGED <<run, counters, reply, cellVars, messages, lastError, requestVars, event, rpcs>>

EmitRaises ==
    /\ pc \in EmitPoints
    /\ tail = "dead"
    /\ Raise("cancelled")
    /\ UNCHANGED <<tail, timerVars, kernelVars>>

(* A sink, the ledger or the provider raises: nothing in _run catches it.  *)
StepFails ==
    /\ pc = "streaming" \/ (pc \in EmitPoints /\ tail = "idle")
    /\ Raise("error")
    /\ UNCHANGED <<tail, timerVars, kernelVars>>

-----------------------------------------------------------------------------
(* The start of a run.                                                     *)

StartRun ==
    /\ pc = "prompt"
    /\ ~isRunning
    /\ run < MaxRuns
    /\ run' = run + 1
    /\ isRunning' = TRUE
    /\ lastError' = "none"
    /\ turn' = 0 /\ executions' = 0 /\ repairs' = 0
    /\ deadline' = IF HasDeadline THEN "armed" ELSE "off"
    /\ pc' = "agent_start"
    /\ UNCHANGED <<reply, cellVars, raising, messages, requestVars, tail, event, interrupted,
                   rpcs, kernelVars>>

(* /quit, end of input, Ctrl-C at the prompt; or run() refuses.            *)
Quit ==
    /\ pc = "prompt"
    /\ pc' = "exited"
    /\ UNCHANGED <<run, counters, reply, cellVars, raising, messages, outcome, requestVars, tail,
                   event, timerVars, rpcs, kernelVars>>

Opening ==
    \/ Step("agent_start", "agent_start", "none", "first_turn_start")
    \/ StepAppending("first_turn_start", "turn_start", "none", User, "user_start")
    \/ Step("user_start", "message_start", "user", "user_end")
    \/ Step("user_end", "message_end", "user", "assistant_start")
    \/ Step("turn_start", "turn_start", "none", "assistant_start")
    \/ Step("assistant_start", "message_start", "assistant", "streaming")

-----------------------------------------------------------------------------
(* The provider's reply (_stream_assistant).  The reply is complete when   *)
(* the stream has ended; a last line without a newline is emitted after    *)
(* that, and only then is the message appended.                            *)

StreamDelta == Step("streaming", "delta", "none", "streaming")

TakeReply(r) ==
    /\ reply' = r
    /\ \/ pc' = "final_delta" /\ UNCHANGED messages
       \/ pc' = "assistant_end" /\ messages' = Append(messages, Assistant(r))

StreamEnds ==
    /\ pc = "streaming"
    /\ \E r \in Reply : TakeReply(r)
    /\ UNCHANGED <<run, counters, cellVars, raising, outcome, requestVars, tail, event, timerVars,
                   rpcs, kernelVars>>

(* CancelledError is caught.  What the parser has seen may hold a block.   *)
CancelledReply(block) == [stop |-> "aborted", block |-> block]

StreamCancelled ==
    /\ pc = "streaming"
    /\ \E block \in Blocks : TakeReply(CancelledReply(block))
    /\ UNCHANGED <<run, counters, cellVars, raising, outcome, requestVars, event, rpcs,
                   kernelVars>>

FinalDelta == StepAppending("final_delta", "delta", "none", Assistant(reply), "assistant_end")

-----------------------------------------------------------------------------
(* What the loop does with a complete reply.                               *)

(* Variant: "aborted" is forgotten.                                        *)
ProviderFailedUnlessAborted(r) == r.stop = "error"

ProviderFailed(r) == r.stop \in {"error", "aborted"}

NeedsRepair(r) == r.block = "malformed" \/ (r.stop = "length" /\ r.block = "exec")

NothingToRun(r) == r.stop = "length" \/ r.block = "none"

(* Variant: an answer cut at the output limit counts as complete.          *)
ReplyErrorUnlessLength(r) == IF ProviderFailed(r) THEN "provider" ELSE lastError

ReplyError(r) ==
    IF ProviderFailed(r) THEN "provider"
    ELSE IF r.stop = "length" THEN "length" ELSE lastError

EndOnReply ==
    /\ Emits("assistant_end", "message_end", "assistant")
    /\ ProviderFailed(reply) \/ (~NeedsRepair(reply) /\ NothingToRun(reply))
    /\ lastError' = ReplyError(reply)
    /\ pc' = "last_turn_end"
    /\ UNCHANGED <<counters, reply, cellVars, messages, isRunning, requestVars, kernelVars>>

Repair ==
    /\ Emits("assistant_end", "message_end", "assistant")
    /\ ~ProviderFailed(reply) /\ NeedsRepair(reply)
    /\ repairs' = repairs + 1
    /\ messages' = Append(messages, ProtocolError)
    /\ pc' = "repair_start"
    /\ UNCHANGED <<turn, executions, reply, cellVars, outcome, requestVars, kernelVars>>

Runnable(r) == ~ProviderFailed(r) /\ ~NeedsRepair(r) /\ ~NothingToRun(r)

(* Variant: off by one.                                                    *)
ExecutionsOverspent == executions > MaxExecutions

ExecutionsSpent == executions >= MaxExecutions

RefuseExecution ==
    /\ Emits("assistant_end", "message_end", "assistant")
    /\ Runnable(reply) /\ ExecutionsSpent
    /\ lastError' = "executions"
    /\ pc' = "last_turn_end"
    /\ UNCHANGED <<counters, reply, cellVars, messages, isRunning, requestVars, kernelVars>>

BeginExecution ==
    /\ Emits("assistant_end", "message_end", "assistant")
    /\ Runnable(reply) /\ ~ExecutionsSpent
    /\ executions' = executions + 1
    /\ active' = run
    /\ pc' = "exec_start"
    /\ UNCHANGED <<turn, repairs, reply, cellVars, messages, outcome, restart, kernelVars>>

-----------------------------------------------------------------------------
(* The end of a turn, and the next one or the end of the run.              *)

(* Variant: turn_start is emitted for the first turn only.                 *)
OpensTurnSilently == pc' = "assistant_start"

OpensTurn == pc' = "turn_start"

NextTurn ==
    IF turn + 1 < MaxTurns
      THEN turn' = turn + 1 /\ OpensTurn /\ UNCHANGED outcome
      ELSE Finalise /\ lastError' = "turns" /\ UNCHANGED turn

TurnEnds(point) ==
    /\ Emits(point, "turn_end", "none")
    /\ UNCHANGED <<executions, repairs, reply, cellVars, messages, requestVars, kernelVars>>

TurnEnd == TurnEnds("turn_end") /\ NextTurn

RepairsSpent == repairs > MaxRepairs

RepairTurnEnd ==
    /\ TurnEnds("repair_turn_end")
    /\ IF RepairsSpent
         THEN Finalise /\ lastError' = "repairs" /\ UNCHANGED turn
         ELSE NextTurn

LastTurnEnd == TurnEnds("last_turn_end") /\ Finalise /\ UNCHANGED <<turn, lastError>>

Turns ==
    \/ Step("repair_start", "message_start", "protocol_error", "repair_end")
    \/ Step("repair_end", "message_end", "protocol_error", "repair_turn_end")
    \/ RepairTurnEnd
    \/ TurnEnd
    \/ LastTurnEnd

-----------------------------------------------------------------------------
(* Execution (_execute) and what the kernel does meanwhile.                *)

SubmitCell ==
    /\ Emits("exec_start", "exec_start", "none")
    /\ Kernel!Submit
    /\ cell' = [gen |-> generation, proc |-> process]
    /\ pc' = "executing"
    /\ UNCHANGED <<counters, reply, replaced, messages, outcome, requestVars>>

ExecOutput ==
    /\ call = "execute"
    /\ Step("executing", "exec_output", "none", "executing")

KernelStep ==
    UNCHANGED <<run, counters, reply, cell, raising, messages, outcome, requestVars, event, rpcs>>

CellEnds ==
    /\ pc = "executing"
    /\ Kernel!Finish \/ Kernel!Settle
    /\ replaced' = FALSE
    /\ pc' = "exec_end"
    /\ KernelStep
    /\ UNCHANGED <<tail, timerVars>>

(* The cell is cancelled, where it waits for the kernel or where it gives  *)
(* out an output, and interrupted: by its time-out, or see CancelCell.     *)
OverrunCell ==
    /\ pc = "executing"
    /\ Kernel!Overrun
    /\ KernelStep
    /\ CancelTail \/ UNCHANGED tail
    /\ UNCHANGED <<pc, replaced>>

CellOverruns == OverrunCell /\ UNCHANGED timerVars

(* The process died, or did not become idle within the grace.              *)
CellLost ==
    /\ pc = "executing"
    /\ Kernel!Replace
    /\ KernelStep
    /\ UNCHANGED <<pc, replaced, tail, timerVars>>

Replacing ==
    /\ Kernel!Kill \/ Kernel!Ready
    /\ KernelStep
    /\ UNCHANGED <<pc, replaced, tail, timerVars>>

ReplacedDuringCell ==
    /\ pc = "executing"
    /\ Kernel!Installed
    /\ replaced' = TRUE
    /\ pc' = "exec_end"
    /\ KernelStep
    /\ UNCHANGED <<tail, timerVars>>

Restarted ==
    /\ pc = "restarting"
    /\ Kernel!Installed
    /\ pc' = "kernel_restarted"
    /\ KernelStep
    /\ UNCHANGED <<replaced, tail, timerVars>>

(* Variant: a class of its own that no handler knows.                      *)
KernelExceptionUnknown == "kernel_died"

(* The kernel call raises: a broken connection while the process lives, a  *)
(* process that cannot be signalled or started or does not answer, tools   *)
(* that do not install in time.                                            *)
KernelException == IF call = "install" THEN "timeout" ELSE "error"

KernelRaises ==
    /\ pc \in {"executing", "restarting"}
    /\ Kernel!Abandon
    /\ Raise(KernelException)
    /\ UNCHANGED <<tail, timerVars>>

-----------------------------------------------------------------------------
(* The observation is appended, the restart request consumed, and a        *)
(* replacement recorded (_append_observation, _record_kernel_replacement). *)
(* Variant: the observation is stamped with the kernel's present number.   *)
ObservationRestamped == Execution([gen |-> generation, proc |-> cell.proc])

Observation == Execution(cell)

(* Variant: _active_run_id is not cleared.                                 *)
ConsumeKeepsRun == restart' = NoRequest /\ active' = active

Consume == restart' = NoRequest /\ active' = 0

(* Variant: the result's replaced_kernel is not looked at.                 *)
ForgetsReplacement == FALSE

RecordsReplacement == replaced

(* Variant: the request is dropped.                                        *)
ForgetsRestart == FALSE

RestartDue == restart # NoRequest

ExecutionEnd ==
    /\ Emits("execution_end", "message_end", "execution")
    /\ Consume
    /\ \/ RecordsReplacement /\ pc' = "kernel_failed" /\ UNCHANGED kernelVars
       \/ ~RecordsReplacement /\ RestartDue /\ pc' = "restarting" /\ Kernel!Replace
       \/ ~RecordsReplacement /\ ~RestartDue /\ pc' = "turn_end" /\ UNCHANGED kernelVars
    /\ UNCHANGED <<counters, reply, cellVars, messages, outcome>>

PresentNotice == Notice([gen |-> generation, proc |-> process])

Observing ==
    \/ StepAppending("exec_end", "exec_end", "none", Observation, "execution_start")
    \/ Step("execution_start", "message_start", "execution", "execution_end")
    \/ ExecutionEnd
    \/ Step("kernel_failed", "kernel_failed", "none", "kernel_restarted")
    \/ StepAppending("kernel_restarted", "kernel_restarted", "none", PresentNotice, "notice_start")
    \/ Step("notice_start", "message_start", "kernel_notice", "notice_end")
    \/ Step("notice_end", "message_end", "kernel_notice", "turn_end")

-----------------------------------------------------------------------------
(* The end of a run.                                                       *)

AgentEnd == Step("agent_end", "agent_end", "none", "leaving")

(* asyncio.timeout turns the cancellation into TimeoutError when it is the *)
(* deadline's own; run() catches any TimeoutError, but only with a         *)
(* deadline.  Everything else ends the application.                        *)
InterruptedInRun == \E i \in DOMAIN interrupted : interrupted[i] = run

DeadlineReported ==
    /\ HasDeadline
    /\ \/ raising = "timeout"
       \/ raising = "cancelled" /\ deadline = "expired" /\ ~InterruptedInRun

Leave ==
    /\ pc = "leaving"
    /\ pc' = IF raising = "none" \/ DeadlineReported THEN "prompt" ELSE "exited"
    /\ lastError' = IF DeadlineReported THEN "deadline" ELSE lastError
    /\ raising' = "none"
    /\ deadline' = "off"
    /\ UNCHANGED <<run, counters, reply, cellVars, messages, isRunning, requestVars, tail, event,
                   interrupted, rpcs, kernelVars>>

-----------------------------------------------------------------------------
(* Cancellation of the loop's task at the await where it is suspended.     *)

CancelEmit ==
    /\ pc \in EmitPoints /\ tail = "pending"
    /\ CancelTail
    /\ Raise("cancelled")
    /\ UNCHANGED kernelVars

(* In the stream, between two deltas or at the delivery of one.            *)
CancelStream == StreamCancelled /\ (CancelTail \/ UNCHANGED tail)

(* execute() answers the first cancellation by interrupting the cell.      *)
CancelCell == OverrunCell

(* Neither the recovery from a time-out nor restart() is shielded.         *)
CancelKernelCall ==
    /\ pc \in {"executing", "restarting"}
    /\ call # "execute"
    /\ Kernel!Abandon
    /\ Raise("cancelled")

CancelKernel == CancelKernelCall /\ UNCHANGED tail

Cancel == CancelEmit \/ CancelStream \/ CancelCell \/ CancelKernel

DeadlineExpires ==
    /\ deadline = "armed"
    /\ deadline' = "expired"
    /\ Cancel
    /\ UNCHANGED interrupted

(* Every task is cancelled, the deliveries and a shielded recovery too.    *)
CancelAll == CancelEmit \/ ((CancelStream \/ CancelCell \/ CancelKernelCall) /\ CancelTail)

(* At the first Ctrl-C asyncio.run cancels the loop's task; at the second  *)
(* it leaves its event loop, cancels every task and waits until they have  *)
(* ended, which a task that goes on after a cancellation does not.  A      *)
(* third ends the wait, and the process.                                   *)
Interrupt ==
    /\ Len(interrupted) < MaxInterrupts
    /\ interrupted' = Append(interrupted, run)
    /\ \/ interrupted = <<>> /\ Cancel
       \/ interrupted # <<>> /\ CancelAll
    /\ UNCHANGED deadline

-----------------------------------------------------------------------------
(* Tool calls, made by a cell or by what a cell left running in the        *)
(* background; the process has run a cell, then.  A call already received  *)
(* is served while the process that made it is being replaced, until its   *)
(* token is revoked.                                                       *)

Caller == IF call = "boot" THEN process - 1 ELSE process

ToolCall ==
    /\ pc # "exited" /\ Suspended
    /\ call # "install" /\ cell.proc = Caller
    /\ rpcs < MaxRpcs
    /\ rpcs' = rpcs + 1
    /\ UNCHANGED <<pc, run, counters, reply, cellVars, raising, messages, outcome, active, event,
                   timerVars, kernelVars>>

TodoChanged == ToolCall /\ EmitBackground /\ UNCHANGED restart

RequestRestart ==
    /\ ToolCall
    /\ IF restart = NoRequest
         THEN restart' = [proc |-> Caller, run |-> active] /\ EmitBackground
         ELSE UNCHANGED <<restart, tail>>

-----------------------------------------------------------------------------

Exited == pc = "exited" /\ UNCHANGED vars

Deciding == EndOnReply \/ Repair \/ RefuseExecution \/ BeginExecution

(* What goes on by itself: the loop's own steps, the provider, the kernel. *)
Progress ==
    \/ Opening \/ StreamEnds \/ FinalDelta \/ Deciding \/ Turns
    \/ SubmitCell \/ CellEnds \/ CellOverruns \/ CellLost
    \/ Replacing \/ ReplacedDuringCell \/ Restarted
    \/ Observing \/ AgentEnd \/ Leave \/ EmitRaises

Next ==
    \/ Progress \/ Deliver
    \/ StartRun \/ Quit \/ Exited
    \/ StreamDelta \/ ExecOutput
    \/ StepFails \/ KernelRaises \/ DeadlineExpires \/ Interrupt
    \/ TodoChanged \/ RequestRestart

Spec == Init /\ [][Next]_vars

(* asyncio runs every ready task; provider_timeout_seconds,                *)
(* execution_timeout_seconds and interrupt_grace_seconds are positive and  *)
(* bound every wait of the loop.                                           *)
FairSpec == Spec /\ WF_vars(Progress) /\ WF_vars(Deliver)
=============================================================================
