---------------------------- MODULE JupyterKernel ----------------------------
(***************************************************************************)
(* JupyterKernel of kernel/jupyter.py, with the process it drives.  One    *)
(* call is in progress at a time (the lock).  The process runs the cells   *)
(* it was sent in order; it publishes a cell's outputs and then its idle   *)
(* status on IOPub, in order, and its reply on the shell channel, which is *)
(* read separately.  The tools' bootstrap is a cell of its own.            *)
(***************************************************************************)
EXTENDS Naturals, Sequences

CONSTANTS
    InitialGeneration,
    MaxCells, MaxBacklog, MaxProcesses

ASSUME ConstantsAssumption ==
    /\ InitialGeneration \in Nat
    /\ MaxCells \in Nat /\ MaxBacklog \in Nat /\ MaxProcesses \in Nat

VARIABLES
    pc,             \* where the call in progress stands; without one, how the last ended
    cell,           \* message_id of the latest cell
    shielded,       \* _interrupt_and_wait runs in asyncio.shield
    connected,      \* the client's channels are open
    generation,
    queue,          \* cells the process has yet to finish
    iopub, shell,   \* messages not yet read
    alive,          \* is_alive()
    process         \* processes started, a count the program does not keep

callVars == <<pc, cell, shielded, connected>>
processVars == <<queue, iopub, shell, alive>>
vars == <<callVars, generation, processVars, process>>

(* AgentLoop calls again after a cancellation or a TimeoutError, which its *)
(* deadline turns into the end of a run, but not after another exception.  *)
Free == {"free", "abandoned"}

Bootstrap == 0      \* the message id of _install_tools

Init ==
    /\ pc = "unstarted"
    /\ cell = 0
    /\ shielded = FALSE
    /\ connected = FALSE
    /\ generation = InitialGeneration
    /\ queue = <<>> /\ iopub = <<>> /\ shell = {}
    /\ alive = FALSE
    /\ process = 1

Message(of, kind) == [cell |-> of, kind |-> kind]

IsIdleOf(message, of) == message = Message(of, "idle")

Awaited == IF pc \in {"install", "first_install"} THEN Bootstrap ELSE cell

-----------------------------------------------------------------------------
(* The process.                                                            *)

Publish ==
    /\ queue # <<>> /\ Head(queue) # Bootstrap
    /\ Len(iopub) < MaxBacklog
    /\ iopub' = Append(iopub, Message(Head(queue), "output"))
    /\ UNCHANGED <<callVars, generation, queue, shell, alive, process>>

(* By itself or by an interrupt.                                           *)
FinishCell ==
    /\ queue # <<>>
    /\ iopub' = Append(iopub, Message(Head(queue), "idle"))
    /\ shell' = shell \cup {Head(queue)}
    /\ queue' = Tail(queue)
    /\ UNCHANGED <<callVars, generation, alive, process>>

Die ==
    /\ alive
    /\ alive' = FALSE
    /\ queue' = <<>>
    /\ process < MaxProcesses
    /\ UNCHANGED <<callVars, generation, iopub, shell, process>>

-----------------------------------------------------------------------------
(* start, shutdown                                                         *)

Start ==
    /\ pc = "unstarted"
    /\ pc' = "starting"
    /\ alive' = TRUE
    /\ connected' = TRUE
    /\ UNCHANGED <<cell, shielded, generation, queue, iopub, shell, process>>

InstallTools(next) ==
    /\ pc' = next
    /\ queue' = IF alive THEN Append(queue, Bootstrap) ELSE queue
    /\ UNCHANGED <<cell, shielded, connected, iopub, shell, alive, process>>

Started == pc = "starting" /\ alive /\ InstallTools("first_install") /\ UNCHANGED generation

StartFails ==
    /\ pc = "starting"
    /\ pc' = "down"
    /\ alive' = FALSE
    /\ connected' = FALSE
    /\ UNCHANGED <<cell, shielded, generation, queue, iopub, shell, process>>

Shutdown ==
    /\ pc \in Free \cup {"raised"}
    /\ pc' = "down"
    /\ alive' = FALSE
    /\ connected' = FALSE
    /\ queue' = <<>> /\ iopub' = <<>> /\ shell' = {}
    /\ UNCHANGED <<cell, shielded, generation, process>>

-----------------------------------------------------------------------------
(* execute                                                                 *)

(* With closed channels the request raises before anything is tried.       *)
Execute ==
    /\ pc \in Free /\ connected
    /\ cell < MaxCells
    /\ cell' = cell + 1
    /\ queue' = IF alive THEN Append(queue, cell') ELSE queue
    /\ pc' = "collect"
    /\ UNCHANGED <<shielded, connected, generation, iopub, shell, alive, process>>

Read(next) ==
    /\ iopub # <<>>
    /\ iopub' = Tail(iopub)
    /\ pc' = next
    /\ UNCHANGED <<cell, shielded, connected, generation, queue, shell, alive, process>>

(* A message of another cell, or output: collected or passed over.         *)
ReadOn ==
    /\ pc \in {"collect", "grace", "install", "first_install"}
    /\ iopub # <<>> /\ ~IsIdleOf(Head(iopub), Awaited)
    /\ Read(pc)

(* Variant: the shell reply is looked for first.                           *)
CollectedWithReply == cell \in shell \/ (iopub # <<>> /\ IsIdleOf(Head(iopub), cell))

Collected == iopub # <<>> /\ IsIdleOf(Head(iopub), cell)

ReadIdle == pc = "collect" /\ Collected /\ Read("reply")

ReadReply ==
    /\ pc = "reply"
    /\ cell \in shell
    /\ shell' = shell \ {cell}
    /\ pc' = "free"
    /\ UNCHANGED <<cell, shielded, connected, generation, queue, iopub, alive, process>>

Move(from, to) ==
    /\ pc \in from
    /\ pc' = to
    /\ UNCHANGED <<cell, connected, generation, processVars, process>>

(* Variant: a time-out just returns.                                       *)
TimeOutReturns == "free"

TimeOutRecovers == "interrupt"

TimeOut == Move({"collect", "reply"}, TimeOutRecovers) /\ shielded' = FALSE

Cancelled == Move({"collect", "reply"}, "interrupt") /\ shielded' = TRUE

(* Nothing to read for half a second and no process.                       *)
DeathDetected ==
    /\ ~alive /\ iopub = <<>>
    /\ Move({"collect"}, "kill")
    /\ UNCHANGED shielded

-----------------------------------------------------------------------------
(* _interrupt_and_wait                                                     *)

InterruptKernel == Move({"interrupt"}, "grace") /\ UNCHANGED shielded

GraceIdle == pc = "grace" /\ Collected /\ Read("free")

(* Variant: the grace never ends.                                          *)
GraceUnlimited == FALSE

(* Whatever is still to be read by then.                                   *)
GraceExpires == Move({"grace"}, "kill") /\ UNCHANGED shielded

-----------------------------------------------------------------------------
(* _replace_kernel                                                         *)

Restart ==
    /\ connected /\ process < MaxProcesses
    /\ Move(Free, "kill")
    /\ shielded' = FALSE

EndProcess ==
    /\ queue' = <<>> /\ iopub' = <<>> /\ shell' = {}
    /\ process' = process + 1

RestartProcess ==
    /\ pc = "kill"
    /\ EndProcess
    /\ alive' = TRUE
    /\ pc' = "boot"
    /\ UNCHANGED <<cell, shielded, connected, generation>>

(* Variant: the number is given before the process answers, and again.     *)
NextGenerationTwice == generation + 2

NextGeneration == generation + 1

Ready ==
    /\ pc = "boot" /\ alive
    /\ generation' = NextGeneration
    /\ InstallTools("install")

ToolsInstalled ==
    /\ pc \in {"install", "first_install"}
    /\ iopub # <<>> /\ IsIdleOf(Head(iopub), Bootstrap)
    /\ Read("free")

-----------------------------------------------------------------------------
(* The call ends in an exception: a cancellation where it is not shielded, *)
(* a broken connection while a cell runs, a process that cannot be         *)
(* signalled or replaced, a new one that does not answer or install the    *)
(* tools in time.  A second Ctrl-C reaches a shielded call as well, and    *)
(* nobody calls after it.  A restart_kernel cut short may have ended the   *)
(* old process and not started the new one.                                *)

MayBeCancelled == pc \in {"kill", "boot", "install", "interrupt", "grace"} /\ ~shielded

Abandon ==
    /\ \/ MayBeCancelled /\ pc' = "abandoned"
       \/ pc = "install" /\ pc' = "abandoned"
       \/ /\ pc \in {"collect", "reply", "interrupt", "grace", "kill", "boot", "install",
                    "first_install"}
          /\ pc' = "raised"
    /\ \/ EndProcess /\ pc = "kill" /\ alive' = FALSE
       \/ UNCHANGED <<processVars, process>>
    /\ connected' = (pc # "kill")
    /\ UNCHANGED <<cell, shielded, generation>>

-----------------------------------------------------------------------------

(* The channels and clocks of the call in progress.                        *)
Call ==
    \/ ReadOn \/ ReadIdle \/ ReadReply \/ TimeOut \/ DeathDetected
    \/ InterruptKernel \/ GraceIdle \/ GraceExpires
    \/ RestartProcess \/ Ready \/ ToolsInstalled

Down == pc = "down" /\ UNCHANGED vars

Next ==
    \/ Call \/ Publish \/ FinishCell \/ Die
    \/ Start \/ Started \/ StartFails \/ Shutdown \/ Down
    \/ Execute \/ Cancelled \/ Restart \/ Abandon

Spec == Init /\ [][Next]_vars

(* Every wait of execute() has a positive time limit.                      *)
FairSpec ==
    /\ Spec
    /\ WF_vars(ReadOn) /\ WF_vars(TimeOut) /\ WF_vars(InterruptKernel)
    /\ WF_vars(GraceIdle) /\ WF_vars(GraceExpires) /\ WF_vars(RestartProcess)

-----------------------------------------------------------------------------

CallState ==
    CASE pc \in {"collect", "reply"} -> "execute"
      [] pc \in {"interrupt", "grace"} -> "recover"
      [] pc \in {"kill", "boot", "install"} -> pc
      [] OTHER -> "idle"

(* kernel/base.py as AgentLoop uses it: whatever the process and the       *)
(* clocks do, every step of a call is one the loop's model allows, and     *)
(* generation and process change only as it assumes.                       *)
Contract == INSTANCE KernelContract WITH call <- CallState

ImplementsContract == Contract!Spec

(* A call that returned has left the process nothing to run, whatever      *)
(* calls before it were abandoned: the next cell starts at once.           *)
NothingRunsAfterAnswer == pc = "free" => queue = <<>>

(* PLAN 11.1, "one active cell at a time": a cell is never sent behind     *)
(* another, whether that one's call returned or raised.                    *)
OneCellAtATime ==
    \A i, j \in DOMAIN queue : Bootstrap \notin {queue[i], queue[j]} => i = j

(* A call that returns with the cell's reply has read every message the    *)
(* cell published: no output is lost to the next call.                     *)
CompleteWhenAnswered ==
    [][pc = "reply" /\ pc' = "free" =>
        \A i \in DOMAIN iopub : iopub[i].cell # cell]_vars

(* PLAN 11.3: only a cell that does not return to idle within the grace    *)
(* costs the process its life, or one whose idle is not read by then.      *)
IdleUnread == \E i \in DOMAIN iopub : IsIdleOf(iopub[i], cell)

OnlyBusyProcessReplaced ==
    [][(pc = "grace" /\ pc' = "kill") => (queue # <<>> \/ ~alive \/ IdleUnread)]_vars

(* execute() answers, or begins to replace the process: neither a cell     *)
(* that ignores its interrupt nor a lost message holds the lock for ever.  *)
ExecuteAnswers == (pc = "collect") ~> (pc \in Free \cup {"raised", "boot"})
=============================================================================
