----------------------------- MODULE Application -----------------------------
(***************************************************************************)
(* The life of one process of the program: asyncio.run(run(CONFIG)) of     *)
(* run.py over application.run.  What it opens (an interpreter, a server,  *)
(* threads that read the terminal), in which order it opens and closes     *)
(* them, and what Ctrl-C does at each await.  A run of the agent is three  *)
(* stages here: AgentLoop and JupyterKernel have its detail.               *)
(*                                                                         *)
(* asyncio's runner, the thread pool and the user are external: the first  *)
(* Ctrl-C cancels the main task; the second breaks out of the event loop,  *)
(* which cancels every task once and waits for them; the next ends the     *)
(* wait, and one more the wait for the threads of the pool.                *)
(***************************************************************************)
EXTENDS Naturals, Sequences

CONSTANTS AuthModes,     \* the values of config.auth_mode looked at
          HasDeadline,   \* config.run_timeout_seconds is not None
          MaxRuns,       \* bound: the prompts the user enters
          MaxPresses     \* bound: the times the user presses Ctrl-C

VARIABLES
    stage,        \* the await run() is at; "over" when it has returned or raised
    left,         \* why it left the prompt loop, or never came to it
    interpreter,  \* an interpreter process of this program is alive
    manager,      \* kernel._manager is not None
    recovery,     \* the shielded _interrupt_and_wait, a task of its own
    server,       \* the tool server listens
    connection,   \* one of the server's: none, of a silent peer, of one that does not read
    readers,      \* threads in console.input
    overdue,      \* the deadline of this run has fired
    unclean,      \* the awaits whose failure left open what they had, or were to close
    runs,         \* prompts entered
    runner,       \* what asyncio.run is doing
    presses       \* the stage (or the runner's state) at each Ctrl-C

resources == <<interpreter, manager, recovery, server, connection>>
vars == <<stage, left, resources, unclean, readers, overdue, runs, runner, presses>>

TypeOK ==
    /\ stage \in {"starting", "login", "asking", "serving", "spawning", "booting",
                  "installing", "prompt", "working", "cell", "recovering", "stopping",
                  "closing", "over"}
    /\ left \in {"no", "quit", "eof", "raised", "interrupt"}
    /\ recovery \in {"none", "waiting", "replacing"}
    /\ {interpreter, manager, server, overdue} \subseteq BOOLEAN
    /\ connection \in {"none", "silent", "unread"}
    /\ unclean \subseteq {"spawning", "booting", "stopping"}
    /\ readers \in 0..2 /\ runs \in 0..MaxRuns
    /\ runner \in {"running", "cancelling", "joining", "exiting", "exited"}
    /\ Len(presses) <= MaxPresses

Init ==
    /\ stage = "starting" /\ left = "no"
    /\ interpreter = FALSE /\ manager = FALSE /\ recovery = "none"
    /\ server = FALSE /\ connection = "none" /\ unclean = {}
    /\ readers = 0 /\ overdue = FALSE /\ runs = 0
    /\ runner = "running" /\ presses = <<>>

LoopRuns == runner \in {"running", "cancelling"}   \* tasks take steps

\* A step of run() that waits at s: what the runner and the user do is not its.
Main(s) == LoopRuns /\ stage = s /\ UNCHANGED <<runner, presses>>

Cleaned == UNCHANGED unclean
LeftOpen == unclean' = unclean \cup {stage}

GoTo(s) == stage' = s /\ UNCHANGED left
Leave(s, why) == stage' = s /\ left' = why
AskLine == GoTo("prompt") /\ readers' = readers + 1     \* asyncio.to_thread(console.input)

-----------------------------------------------------------------------------
(* run(): up to the prompt *)

Configure ==
    /\ Main("starting")
    /\ \/ Leave("over", "raised")                        \* an invalid configuration
       \/ "api_key" \in AuthModes /\ GoTo("serving")
       \/ "codex" \in AuthModes /\ GoTo("login")
    /\ Cleaned /\ UNCHANGED <<resources, readers, overdue, runs>>

Login ==
    /\ Main("login")
    /\ \/ Leave("over", "raised") /\ UNCHANGED readers
       \/ GoTo("serving") /\ UNCHANGED readers
       \/ GoTo("asking") /\ readers' = readers + 1
    /\ Cleaned /\ UNCHANGED <<resources, overdue, runs>>

Answered ==
    /\ Main("asking")
    /\ GoTo("login") \/ Leave("over", "raised")           \* a line; the end of the input
    /\ readers' = readers - 1
    /\ Cleaned /\ UNCHANGED <<resources, overdue, runs>>

Serve ==
    /\ Main("serving")
    /\ \/ GoTo("spawning") /\ server' = TRUE
       \/ Leave("over", "raised") /\ UNCHANGED server      \* before the try
    /\ Cleaned
    /\ UNCHANGED <<interpreter, manager, recovery, connection, readers, overdue, runs>>

\* start_kernel, client() and start_channels(), outside the try: no clean-up.
Spawn ==
    /\ Main("spawning")
    /\ \/ GoTo("booting") /\ interpreter' = TRUE /\ Cleaned
       \/ Leave("stopping", "raised") /\ UNCHANGED interpreter /\ Cleaned
       \/ Leave("stopping", "raised") /\ interpreter' = TRUE /\ LeftOpen
    /\ UNCHANGED <<manager, recovery, server, connection, readers, overdue, runs>>

Ready ==
    /\ Main("booting") /\ GoTo("installing") /\ manager' = TRUE /\ Cleaned
    /\ UNCHANGED <<interpreter, recovery, server, connection, readers, overdue, runs>>

BootFailsUncleaned ==      \* Variant: except Exception only raises
    /\ Main("booting") /\ Leave("stopping", "raised") /\ Cleaned
    /\ UNCHANGED <<resources, readers, overdue, runs>>

\* stop_channels() or shutdown_kernel() may raise in its turn.
BootFails ==
    /\ Main("booting") /\ Leave("stopping", "raised")
    /\ \/ interpreter' = FALSE /\ Cleaned
       \/ UNCHANGED interpreter /\ LeftOpen
    /\ UNCHANGED <<manager, recovery, server, connection, readers, overdue, runs>>

\* The tools are installed, the start of the interpreter is recorded and announced.
Installed ==
    /\ Main("installing")
    /\ AskLine \/ (Leave("stopping", "raised") /\ UNCHANGED readers)
    /\ Cleaned /\ UNCHANGED <<resources, overdue, runs>>

-----------------------------------------------------------------------------
(* The prompt loop and the runs of the agent *)

ReadLine ==
    /\ Main("prompt")
    /\ \/ Leave("stopping", "quit") /\ UNCHANGED runs
       \/ Leave("stopping", "eof") /\ UNCHANGED runs
       \/ runs < MaxRuns /\ runs' = runs + 1 /\ GoTo("working")
    /\ readers' = readers - 1 /\ overdue' = FALSE
    /\ Cleaned /\ UNCHANGED resources

RunOver ==
    /\ Main("working")
    /\ AskLine \/ (Leave("stopping", "raised") /\ UNCHANGED readers)
    /\ Cleaned /\ UNCHANGED <<resources, overdue, runs>>

StartCell ==
    /\ Main("working") /\ GoTo("cell") /\ Cleaned
    /\ UNCHANGED <<resources, readers, overdue, runs>>

\* The cell may leave a connection to the server open, held by a process it forked.
CellEnds ==
    /\ Main("cell") /\ GoTo("working") /\ connection' \in {"none", "silent", "unread"}
    /\ Cleaned
    /\ UNCHANGED <<interpreter, manager, recovery, server, readers, overdue, runs>>

Recovered ==
    /\ Main("recovering") /\ recovery = "none"
    /\ (interpreter /\ GoTo("working")) \/ Leave("stopping", "raised")   \* it raised
    /\ Cleaned
    /\ UNCHANGED <<resources, readers, overdue, runs>>

\* asyncio.timeout cancels the main task: a stream ends as aborted, a cell is
\* recovered under a shield, and a recovery already under way is abandoned.
Deadline ==
    /\ HasDeadline /\ ~overdue /\ overdue' = TRUE /\ Cleaned
    /\ \/ Main("working") /\ AskLine /\ UNCHANGED recovery
       \/ Main("cell") /\ GoTo("recovering") /\ recovery' = "waiting" /\ UNCHANGED readers
       \/ Main("recovering") /\ Leave("stopping", "interrupt") /\ UNCHANGED <<recovery, readers>>
    /\ UNCHANGED <<interpreter, manager, server, connection, runs>>

-----------------------------------------------------------------------------
(* _interrupt_and_wait, which an abandoned shield leaves running *)

Obeyed ==
    /\ LoopRuns /\ recovery = "waiting" /\ recovery' = "none"
    /\ UNCHANGED <<stage, left, interpreter, manager, server, connection, unclean,
                   readers, overdue, runs, runner, presses>>

\* restart_kernel(now=True) kills the interpreter and, awaits later, starts
\* another: start_kernel or a later step may raise.
GraceOver ==
    /\ LoopRuns /\ recovery = "waiting" /\ manager
    /\ recovery' = "replacing" /\ interpreter' = FALSE
    /\ UNCHANGED <<stage, left, manager, server, connection, unclean, readers, overdue,
                   runs, runner, presses>>

Respawn ==
    /\ LoopRuns /\ recovery = "replacing" /\ recovery' = "none" /\ interpreter' \in BOOLEAN
    /\ UNCHANGED <<stage, left, manager, server, connection, unclean, readers, overdue,
                   runs, runner, presses>>

-----------------------------------------------------------------------------
(* finally *)

\* kernel.shutdown(), which does nothing without a manager, and the close of the
\* listening socket.
Shutdown ==
    /\ Main("stopping") /\ GoTo("closing") /\ Cleaned
    /\ interpreter' = (interpreter /\ ~manager) /\ manager' = FALSE /\ server' = FALSE
    /\ UNCHANGED <<recovery, connection, readers, overdue, runs>>

\* stop_channels() or shutdown_kernel() raises: the lines behind it are not run.
ShutdownFails ==
    /\ Main("stopping") /\ manager /\ Leave("over", "raised") /\ LeftOpen
    /\ interpreter' \in {interpreter, FALSE} /\ manager' \in BOOLEAN
    /\ UNCHANGED <<recovery, server, connection, readers, overdue, runs>>

\* server.wait_closed() waits for the connections; then the provider is closed.
Closed ==
    /\ Main("closing") /\ connection = "none" /\ GoTo("over") /\ Cleaned
    /\ UNCHANGED <<resources, readers, overdue, runs>>

ConnectionGoes(from, to) ==
    /\ connection = from /\ connection' = to
    /\ UNCHANGED <<stage, left, interpreter, manager, recovery, server, unclean, readers,
                   overdue, runs, runner, presses>>

\* A request whose answer is read, or is too large for the buffers and is not;
\* the end of the stream.  Nothing limits the write of the answer.
PeerSpeaks ==
    /\ LoopRuns
    /\ \/ ConnectionGoes("silent", "none")
       \/ ConnectionGoes("silent", "unread")
       \/ ConnectionGoes("unread", "none")

\* Variant: no limit on the read.
NeverTimesOut == stage = "starting" /\ ConnectionGoes("silent", "none")

\* wait_for(readline(), timeout=30)
ReadTimesOut == LoopRuns /\ ConnectionGoes("silent", "none")

-----------------------------------------------------------------------------
(* Ctrl-C: CancelledError at the await the main task is at *)

CancelStart ==
    \/ /\ stage \in {"login", "asking"} /\ Leave("over", "interrupt")
       /\ UNCHANGED <<interpreter, server>>
    \/ /\ stage = "serving" /\ Leave("over", "interrupt")
       /\ server' \in BOOLEAN /\ UNCHANGED interpreter
    \/ /\ stage = "spawning" /\ Leave("stopping", "interrupt")
       /\ interpreter' \in BOOLEAN /\ UNCHANGED server
    \/ /\ stage \in {"booting", "installing"}                  \* not an Exception
       /\ Leave("stopping", "interrupt") /\ UNCHANGED <<interpreter, server>>

AskAgain == stage = "prompt" /\ AskLine                  \* Variant: Ctrl-C only repeats the prompt
CancelPrompt == stage = "prompt" /\ Leave("stopping", "interrupt") /\ UNCHANGED readers

\* second: every task is cancelled, the shielded recovery too.
CancelRun(second) ==
    \/ stage = "working" /\ (GoTo("working") \/ Leave("stopping", "interrupt")) /\ UNCHANGED recovery
    \/ stage = "cell" /\ GoTo("recovering") /\ recovery' = "waiting"
    \/ /\ stage = "recovering" /\ Leave("stopping", "interrupt")
       /\ recovery' = IF second THEN "none" ELSE recovery

CancelFinally ==
    \/ /\ stage = "stopping" /\ interpreter' \in {interpreter, interpreter /\ ~manager}
       /\ manager' = FALSE
    \/ stage = "closing" /\ UNCHANGED <<interpreter, manager>>

CancelMain(second) ==
    /\ Cleaned /\ UNCHANGED <<connection, overdue, runs>>
    /\ \/ CancelStart /\ UNCHANGED <<manager, recovery, readers>>
       \/ CancelPrompt /\ UNCHANGED <<interpreter, manager, recovery, server>>
       \/ CancelRun(second) /\ UNCHANGED <<interpreter, manager, server, readers>>
       \/ CancelFinally /\ GoTo("over") /\ UNCHANGED <<recovery, server, readers>>

Idle == UNCHANGED <<stage, left, resources, unclean, readers, overdue, runs>>

Press ==
    /\ Len(presses) < MaxPresses
    /\ presses' = Append(presses, IF LoopRuns THEN stage ELSE runner)
    /\ \/ runner = "running" /\ presses = <<>> /\ CancelMain(FALSE) /\ UNCHANGED runner
       \/ runner = "running" /\ presses # <<>> /\ CancelMain(TRUE) /\ runner' = "cancelling"
       \/ runner = "running" /\ stage = "over" /\ runner' = "exiting" /\ Idle
       \/ runner \in {"cancelling", "joining"} /\ runner' = "exiting" /\ Idle
       \/ runner = "exiting" /\ runner' = "exited" /\ Idle

-----------------------------------------------------------------------------
(* asyncio.run after the main task, and the threads *)

\* The tasks that are left are cancelled and waited for: one whose answer is not
\* read waits for its transport all the same (writer.wait_closed()).
Close ==
    /\ LoopRuns /\ stage = "over" /\ connection # "unread" /\ runner' = "joining"
    /\ recovery' = "none"
    /\ UNCHANGED <<stage, left, interpreter, manager, server, connection, unclean, readers,
                   overdue, runs, presses>>

JoinGivesUp == runner = "joining" /\ runner' = "exiting" /\ UNCHANGED presses /\ Idle  \* 300 s

Exit ==
    /\ runner \in {"joining", "exiting"} /\ readers = 0
    /\ runner' = "exited" /\ UNCHANGED presses /\ Idle

\* Enter, for a thread whose prompt was abandoned.
LineForNobody ==
    /\ readers > 0 /\ stage \notin {"prompt", "asking"} /\ readers' = readers - 1
    /\ UNCHANGED <<stage, left, resources, unclean, overdue, runs, runner, presses>>

Terminated == runner = "exited" /\ UNCHANGED vars

RunStep == \/ Configure \/ Login \/ Serve \/ Spawn \/ Ready \/ BootFails \/ Installed
           \/ Recovered \/ Shutdown \/ ShutdownFails \/ Closed \/ Close \/ Exit
RecoveryStep == Obeyed \/ GraceOver \/ Respawn
Next == \/ RunStep \/ RecoveryStep \/ Answered \/ ReadLine \/ RunOver \/ StartCell
        \/ CellEnds \/ Deadline \/ PeerSpeaks \/ ReadTimesOut \/ Press \/ JoinGivesUp \/ LineForNobody \/ Terminated

Spec == Init /\ [][Next]_vars

\* The event loop runs its tasks, and the limits on the reads and on the wait
\* for the interpreter are timers.  The user need do nothing, and a cell may never end.
FairSpec ==
    /\ Spec /\ WF_vars(RunStep) /\ WF_vars(RecoveryStep) /\ WF_vars(ReadTimesOut)

-----------------------------------------------------------------------------
(* Properties *)

Pressed(stages) == \E i \in 1..Len(presses) : presses[i] \in stages

\* A Ctrl-C fell at one of these awaits, or one failed and left things open.
Disturbed(stages) == Pressed(stages) \/ unclean \cap stages # {}

\* Under a deadline also a cell, whose recovery the deadline or the Ctrl-C,
\* whichever is the later, leaves to itself.
KernelAtRisk ==
    {"spawning", "booting", "recovering", "stopping"} \cup (IF HasDeadline THEN {"cell"} ELSE {})

\* When run() is over, its interpreter has been shut down and its server closed,
\* at whatever await it failed or was cancelled -- unless a Ctrl-C fell while that
\* resource was being opened, recovered or closed, or a call that should end the
\* interpreter raised: of kernel.shutdown() that leaves the server as well
\* (application.py 160-211, jupyter.py 72-87, 228-238).
NothingLeftRunning ==
    stage = "over" =>
        /\ server => Disturbed({"serving", "stopping"})
        /\ interpreter => Disturbed(KernelAtRisk)

\* Two prompts never read the terminal at once: a line the user types goes to
\* the prompt that asks, not to the thread of one that was cancelled
\* (application.py 198-201, terminal.py 84-85).
OneReader == readers <= 1

\* Once the loop is left and no thread still reads the terminal, the process
\* ends, though a connection's peer may stay silent, unless a peer that has asked
\* does not read its answer: "EOF and an exact /quit line exit cleanly while idle"
\* (IMPLEMENTATION_PLAN.md 1287).
LeavingEnds ==
    <>[](connection # "unread") => ((stage = "stopping" /\ readers = 0) ~> (runner = "exited"))

\* "While idle: exit or require a second interrupt" (IMPLEMENTATION_PLAN.md 849):
\* after two interrupts, the first at the prompt, the process ends.
TwoInterruptsExit ==
    (Len(presses) = 2 /\ presses[1] = "prompt") ~> (runner = "exited")

\* run() never ends with its server open.
ServerNeverLeft == stage = "over" => ~server

\* An interpreter never outlives the run() that started it.
KernelNeverLeft == stage = "over" => ~interpreter

\* After shutdown() no task starts another interpreter (jupyter.py 149, 215-222, 228-238).
NoneStartedAfterShutdown ==
    [][(stage \in {"closing", "over"} /\ interpreter') => interpreter]_vars
=============================================================================
