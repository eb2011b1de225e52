# A TLA+ development of py-code-act

py-code-act is a terminal agent. A model's reply may hold one line-anchored
`<exec>` block; the harness runs it as a cell of a private Jupyter kernel, shows
the model what it printed, and asks again, until a reply holds no block. This
directory models the parts of the program whose correctness depends on what
happens in between: cancellations, processes that die, deliveries that overlap,
and writes that stop half way. Line numbers are those of `src/py_code_act/`;
"PLAN" is `IMPLEMENTATION_PLAN.md`.

    tlc -workers 2 -config AgentLoop_shipped.cfg AgentLoopProperties
    tlapm AgentLoopProofs.tla

## 1. The system

| Component | State it keeps | Operations | Talks to |
|---|---|---|---|
| `AgentLoop`, `RestartController` (agent/loop.py, state.py) | transcript, `is_running`, `last_error`, turn/execution/repair counters, `_active_run_id`, `requested` | `run`, `_stream_assistant`, `_execute`, `_append_observation`, `_record_kernel_replacement`, `consume` | provider (stream), kernel (calls), session (events), tool handlers (callbacks between its awaits) |
| `AgentSession`, `EventFactory` (agent/session.py, domain/events.py) | sinks, delivery tail, sequence number | `emit`, `emit_background`, `append_message`, `wait_until_idle` | the sinks, the ledger |
| `JupyterKernel` (kernel/jupyter.py) | lock, manager, client, generation | `start`, `execute`, `interrupt`, `restart`, `shutdown` | the interpreter process over IOPub and shell; the tool server (token rotation) |
| `SessionLedger` (storage/session_jsonl.py) | entries, file | open and repair, `append`, `todo_state`, `max_kernel_generation` | the disk |
| `ExecParser` (protocol/exec_parser.py), `serialize_assistant_text` (providers/openai_conversion.py) | parser state, pending line, blocks | `feed`, `finalize`; replay of a finished message | fed by the loop; read by the provider |
| `ToolRpcServer`, `ToolRegistry`, `TodoService`, the client in kernel/bootstrap.py | token, task dictionary | `create`, `update`, `clear`, `list`, `restart`; `rotate_token` | called by cells over a socket; calls `todo_changed` (ledger, event) |
| `CodexOAuth`, `CredentialStore` (auth/) | credential file, tokens at the server | browser and device login, refresh, `save`, `load` | the authorization server, the disk |
| `application.run`, `RunConfig`, the runner of `asyncio.run` (run.py) | which resources are open, the session that is resumed | start-up, prompt loop, `todo_changed`, resume, shutdown | everything; the user's Ctrl-C |
| Providers (providers/) | an HTTP client and a credential; per request the lines of a frame and whether an outcome was seen | `stream_response`, `normalize_openai_event` | the model's server; read by the loop |
| Skills, project context, system prompt | the skills and files chosen, fixed at start-up | `discover_skills`, `discover_context_files`, text assembly | the file system |
| `TerminalRenderer`, `TraceRecorder`, redaction | output only | event sinks | terminal, /tmp |

One asyncio thread runs all of it, beside the interpreter process. Control
changes hands only at an `await`; so the hard questions are about what an
`await` lets happen:

* **Cancellation.** `asyncio.timeout` (the run deadline) and Ctrl-C throw
  `CancelledError` into whichever await the loop stands at. Two places catch it
  (`_stream_assistant`, `execute`), one shields from it, one passes it on to
  another task (`await self._delivery_tail`).
* **Callbacks.** A tool handler runs while the loop is suspended, and changes the
  restart request, the delivery tail, the tasks and the ledger.
* **Processes.** A cell may time out, ignore its interrupt, die, or leave
  something running that calls tools later, during a replacement too.
* **Disk.** The ledger, the credential file and the session they are resumed
  into survive a stop at any system call.
* **The wire.** A response may end, fail or turn undecodable after any event, and
  it comes in lines that need not match the events.
* **Threads.** `console.input` runs in a thread of the pool that nothing can
  interrupt; the process does not end before it does.

What makes each component correct:

* Loop: only a block of a complete, well-formed reply is run; every reply is
  answered before the next request; limits hold; generation numbers name
  processes; the model is told when memory was lost; every run ends and leaves
  nothing behind.
* Delivery: no event twice, none lost, order kept, an emit waits for what was
  pending.
* Kernel: what returns has finished and lost no output; a busy process is waited
  for or replaced; generations count replacements.
* Ledger: the complete lines only grow, a reader finds them, and none is lost in silence.
* Parser: a function of the text, however it was cut; a replay parses the same.
* Tools: durable tasks; a call of a process that is gone has no effect.
* Login: no stop costs a stored credential; polling ends.
* Resume: generation numbers name processes over the whole file; no process is
  used before it is recorded; fresh memory is announced.
* Provider: only what the server called complete counts as complete; nothing is
  taken twice, out of order or, without a fault, not at all; a reply comes.
* Discovery: earlier sources win; every skill is chosen or reported, once.
* Application: what was opened is closed; one thread reads the terminal; leaving
  ends the process.

## 2. The modules

    AgentLoopProperties --> AgentLoop --> KernelContract      JupyterKernel ==> KernelContract
    AgentLoopProperties ==> EventOrder                        SessionLedger ==> DurableLog
    Resume --> AgentLoop                                      MCDiscovery --> Discovery
    EventDelivery    ExecParser    ToolService    CodexLogin    ProviderStream    Application

    AgentLoopProofs --> AgentLoopProperties, Resume
    StartupProofs   --> Application, CodexLogin, Discovery
    JupyterKernelProofs   EventDeliveryProofs   SessionLedgerProofs   ToolServiceProofs
    ProviderStreamProofs  ExecParserProofs                            (each --> its module)

`B --> A`: B extends or instantiates A. `B ==> A`: B implements A, which TLC checks
with A as a PROPERTY of B's run and section 4 proves. AgentLoopProofs has the proofs
about Resume too, because a step of Resume is a step of AgentLoop and its proofs use
the loop's lemmas. StartupProofs has three components that do not meet: it extends all
three, which is why the definitions of CodexLogin and Discovery carry their component's
name (`LoginNext`, `DiscoverySpec`).

**KernelContract** is what the loop relies on from a kernel (kernel/base.py):
where the call in progress stands (`call`), the number the kernel reports
(`generation`), and the interpreter process the memory lives in (`process`, a
count the program does not have: whether `generation` is an accurate name for it
is one of the questions). AgentLoop is composed of its actions; JupyterKernel
is shown to implement it, so a fact about the loop is a fact about the loop with
the real kernel.

**AgentLoop** is `AgentLoop.run` with every await as a point of `pc`. Most points
are emits; what the code does after an emit and before its next await is part of
the same action, because nothing can come between. `Emits` is the guard of
`AgentSession.emit` (the delivery tail is idle), `Step` and `StepAppending` the
two commonest continuations. `Raise` is an exception leaving the await: the four
emits before the `try` (loop.py:83-104) leave at once, every other point goes
through the `finally` (`Finalise`). `Cancel` gives each place where the task can be
suspended its own outcome: an emit raises and passes the cancellation on to the
tail's task (`CancelTail`), the stream turns it into an "aborted" reply whose
parser result may still hold a block (`CancelledReply`), a cell is interrupted,
and a kernel call that is already recovering or replacing raises. Tool calls come
from the process of the latest cell, and during `restart_kernel` from the process
being replaced (`Caller`), until the token is rotated. A reply is one of four stop
reasons with one of three parser results; texts, usage, ids that are only shown,
and the system prompt are left out. Events carry type, role and run. The first
Ctrl-C of the process cancels the main task; the second, though it may come in a
later run, breaks out of asyncio's loop, which cancels every task once more and
waits for a main task that may catch that as well (`MaxInterrupts = 2`); the
third ends the process at once.

**AgentLoopProperties** holds what is asked of it, **EventOrder** the order of run
events (PLAN 6.3, 13) as a specification of its own: which type may follow
which, with an error allowed to end the run anywhere but within the user message.

**EventDelivery** has what AgentLoop summarises in `tail`: tasks named by sequence
number, asyncio's first-in-first-out ready queue, `deliver()` awaiting the tail
found at creation (`previous`), waiters woken in order, sinks that may suspend,
and a cancellation that travels along the awaits to the task that waits for no
other. `DeadTailStaysDead` justifies AgentLoop's `"dead"`: after a cancelled
delivery no emit of the loop succeeds again.

**JupyterKernel** is kernel/jupyter.py with the process: a queue of cells, IOPub
messages in order, shell replies read separately, deaths at any time. A call is
a path through `collect`, `reply`, `interrupt`, `grace`, `kill`, `boot`, `install`.
`shielded` tells the recovery from a cancellation (shielded) from that of a
time-out (not). `Abandon` gathers every way a call ends in an exception, the second
Ctrl-C of the process among them, by which asyncio cancels the shielded recovery too.

**SessionLedger** is storage/session_jsonl.py over lines made of pieces: a write that
stops, or raises in `write`, `flush` or `fsync`, leaves nothing, text, text cut within a
character, everything but the newline, or the whole line. `raised` has the appends of
this process whose callers got an exception. **DurableLog** is what the file should be:
the entries of the lines that have ended, and how the file goes on behind them, in text
that is not read again (`"cut"`: a start cuts it off, or cannot open the file), or in a
line the next write would continue (`"loose"`). A log whose line was continued is
`Unreadable` from then on, never a shorter log.

**ExecParser** is the parser fed in chunks: `Feed` takes the lines that a chunk ends
one by one (`Rounds`, the code's `while`, whose round is `Round`). Against it stand
`Parsed`, a definition over the whole text and its positions that knows nothing of
states, and `SerializeAssistantText`, the function that writes a message out again for
the next request.

**ToolService** is a tool call from the cell's `_rpc.call` to the answer, with the
task dictionary (in insertion order), the ledger entries and their replay, the
token and its rotation, kernel replacement and restart of the application. Each
connection has a task of its own in the server, and a cell may call from several
threads, so requests wait in a set and are served in any order; a caller may give up (the client's 30 s, an interrupt), and its request
is served all the same. An append that raises may leave its entry in the ledger or not;
`failures` has the calls it happened to. The number that ties an entry to its request is the
model's.

**CodexLogin** is `CodexOAuth.credential()` and everything below it, one system call
of `CredentialStore.save` at a time, with the server's side: credentials are
numbered as issued, a refresh token is accepted once.

**Resume** composes AgentLoop with the session file: `OpenSession`, `StartKernel`,
`RecordStart` and `AnnounceResume` are the steps of `application.run` before the
prompt, `Work` is a step of AgentLoop together with the entry it appends
(`append_message`, `_record_kernel_replacement`), and `Stop` may follow any of them;
then the application starts again on what the file holds. Here an append is one step.
SessionLedger is the ground for that: after stops alone a reader has the entries of the
ended lines and at most the one being written (`ReaderFindsTheLog`), for every cut but the
two of section 5 (a torn character; a line without its newline that is continued).
`process` runs on over all starts, so the
file's generations can be compared with the processes they were written for.

**ProviderStream** is one request: the server's events, each in the lines of a
frame, the generator `stream_response` of either provider, and `_stream_assistant`,
which takes what it yields. The codex provider reads lines by itself (`data_lines`,
the blank line, the end of the body without one); for the other the SDK hands out
whole events. `faults` records what went wrong, so that properties can say what
holds when nothing did. It ends in the `stopReason` that AgentLoop's replies start
from.

**Discovery** is `discover_skills`, one visited path or examined skill at a time, and
then the search for context files, over a file system whose nodes are resolved
paths: `subdir` may lead back to a directory already seen. `Candidates` and `Before`
define, without any of the code's state, which paths a skill can be found by and
which comes first; a path is followed through the directories by `NodesOn`. **MCDiscovery** has the file systems and layouts.

**Application** is the process: `stage` is the await `run()` stands at, from the
credential to `server.close()`, `runner` where `asyncio.run` stands, `readers` the
threads in `console.input`. A run of the agent is three stages (`working`, `cell`,
`recovering`), because what is asked here is which resources are open; AgentLoop
and JupyterKernel have the detail. `recovery` is the shielded task of a cancelled
`execute()`, which goes on when its caller is gone. A connection left open is that of a
silent peer, whose read has a limit, or of one that has asked and does not read its
answer, whose write has none. `unclean` has the awaits at which a failing call left
something open: `start_kernel`'s own (nothing cleans up there), the clean-up of
`start()` (jupyter.py:84-87), and `kernel.shutdown()`, which takes `server.close()` and
`provider.close()` with it.

Definitions whose comment begins "Variant:" are not part of any specification.
Each is a way the code could plausibly have been written wrongly; putting it in
place of the definition below it makes TLC find the property it was written
for violated (`mutants` in PROJECT.json), which shows that the property can fail.

## 3. The runs

Twelve runs are listed in PROJECT.json, and all of them pass. A bound named
`Max...` limits how often the environment acts; it sits in the guard of the action
it limits, and nowhere else.

| Run | What it asks | Bounds, and why they are enough | Distinct states |
|---|---|---|---|
| agentloop_shipped | What is asked of the loop in the configuration `run.py` ships (no deadline): `TranscriptShape`, `LimitsHold`, `MemoryLossAnnounced`, `OutcomeReported`, `NothingLeftOpen`, and refinement of EventOrder (`EventsInOrder`) | two prompts (what one run leaves for the next), two turns and one execution each (so both limits are reached, and a second reply follows an observation, a repair and a notice), one repair, one tool call, Ctrl-C twice at any awaits of one run or of two | 1.85 million |
| agentloop_deadline | `RestartHonoured` and `EveryRunEnds` under a deadline that may expire at any await, beside two Ctrl-C's | one prompt: every cancellation point of a run, three turns and two executions, so that a cell of a replaced process is followed by another | 145 thousand |
| event_delivery | `OrderWithinSource`, `WaitsForPending`, `DeadTailStaysDead`, `EveryEventSettles` | three background events (a chain whose middle task is cancelled has both neighbours), two events of the loop, one cancellation, sinks that may or may not suspend | 27 thousand |
| session_ledger | `MemoryMatchesFile`, and refinement of DurableLog (`AppendOnly`) | six entries, three crashes, two failed writes (a line continued, and continued again); a crash leaves any extent, and so does a write that raises, the whole line included | 49 thousand |
| jupyter_kernel | refinement of KernelContract (`ImplementsContract`), `NothingRunsAfterAnswer`, `CompleteWhenAnswered`, `ExecuteAnswers` | three cells (an abandoned one, one behind it, one after both), three processes, three unread messages | 29 thousand |
| exec_parser | `ResultIsParsed`, `StreamedIsResult`, `ReplayKeepsBlock` | every text of at most seven symbols in every cut; a marker is two symbols, so seven hold two whole markers with line breaks, and each marker may be cut in its middle | 197 thousand |
| tool_service | `ResumedTodosMatch`, `AnswersMatchLedger`, `OldProcessActsNoMore` | three calls on two names from two processes (one of the old process, one of the new, one more in the inbox to be served out of order), one append that raises and leaves its entry or not, a restart of the application in place of a replacement | 1.04 million |
| codex_login | `ReadyIsStored`, `StoredOnlyRenewed`, `LoginEnds` | four starts and four credentials: one login and three refreshes or interrupted attempts | 14 thousand |
| resume | `GenerationsNameProcesses`, `RecordedBeforeUse`, `FreshMemoryAnnounced` | three starts, so that what a stopped start left behind is read by one that is stopped in turn; each with a run of one turn, one cell and one tool call, in which the kernel may be replaced. Two starts with two turns, and three starts with two turns and no tool call (4.2 million states), were run as well | 546 thousand |
| provider_stream | `CompleteOnlyIfSaid`, `WholeResponseTaken`, `TakenInOrder`, `ReplyComes` | three events: a piece before, at and after the outcome, or two pieces and an outcome, each in every framing; every fault at every point; both providers | 161 thousand |
| discovery | `FirstSourceWins`, `EverySkillAccountedFor`, `ContextInOrder` | two directories that may hold each other or themselves and two files, with every assignment of names, links two deep, two orders of sources; for context files three directories of two candidates each in every way of linking | 798 thousand |
| application | `NothingLeftRunning`, `OneReader`, `LeavingEnds` | two prompts (what one leaves for the next), four Ctrl-C's (two reach `run()`, two asyncio's own waits), both credentials, a deadline; calls that should close something may raise | 15 thousand |

What the passing runs show, where a test would hardly reach:

* A deadline, Ctrl-C, a dead kernel, a raising sink and a tool call may fall at
  any await, and still no block of a truncated, malformed, failed or aborted
  reply is run and no request goes out with a reply unanswered.
* The observation carries the number of the process the cell ran in, even when
  the kernel was replaced while the cell ran; numbers in the transcript and
  processes correspond one to one.
* `last_error` is None after a run exactly when the transcript ends in a
  complete answer, however the run has ended.
* The chain of delivery tasks has no cycle and loses nothing, although the tail
  is read and cleared at different times; clearing it without the identity
  check of session.py:55, or looking it up in the task, breaks a property.
* The kernel never returns an answer while a cell is running, nor before the
  cell's last output was read, although reply and output come on two channels.
* A session file stopped anywhere, also between a kernel's start and the entry
  that records it, gives out no generation twice to processes that left a trace,
  and whatever the next request tells of an earlier process is followed by the
  notice that the present one is fresh.
* A todo call that its caller gave up, and that is served later, takes effect at
  most once, and every answer that arrives tells the truth about the ledger: what was
  answered ok is recorded, and an entry without that belongs to an append that raised.
* A response cut, refused, undecodable, broken or cancelled anywhere never passes
  for one the server did not call complete; the last frame counts without its
  blank line.
* A reply is read by the model as it wrote it, block for block, whatever line
  breaks stood at its markers, except behind a lone carriage return (section 5).
* Cycles of links neither lose nor repeat a skill.
* A failure at any step of start-up, of a run or of the prompt closes what was open,
  unless the call that closes it fails. What may stay open when a Ctrl-C falls while a
  resource is being opened or closed, or when the call that should close it raises, is
  excused by the await it happens at (`Disturbed`) and shown in section 5.

### Fairness

`AgentLoop!FairSpec` assumes weak fairness of `Progress` (the loop's own steps, the
provider's end of stream, the kernel's work) and of `Deliver`. asyncio runs every
ready task; every wait of the loop is bounded by a time limit that
`RunConfig.validate` requires to be positive (config.py:93-100). New prompts, tool
calls, exceptions, Ctrl-C and the deadline are under no fairness: nothing makes
them happen. `EventDelivery!FairSpec` assumes that asyncio runs the head of its
queue and that a sink that suspends returns. `JupyterKernel!FairSpec` assumes only
the client's own steps and clocks, none of the process: a cell may never end and
ignore its interrupt. `FairLoginSpec` of CodexLogin assumes that a sleep ends, a request is
answered or times out, and time passes; not that the user ever authorizes.
`ProviderStream!FairSpec` assumes that the provider and the loop read what is there
(`Progress`), and that a read for which nothing comes ends at the client's time limit
(`TimesOut`); nothing of the server, but that its response is finite (`MaxEvents`):
neither the program nor the model bounds how much a server may stream. `Application!FairSpec` assumes that asyncio runs
the main task and the recovery (`RunStep`, `RecoveryStep`), whose waits are bounded by
timers, and that the server's read of a silent peer ends at its limit
(`ReadTimesOut`). It assumes nothing of the user, of cells, or of the wait for the
pool's threads, so `LeavingEnds` is about a process in which no thread still reads
the terminal. Nor does it assume that a peer reads its answer: `writer.drain()` and
`writer.wait_closed()` (server.py:104-107) have no limit, a peer that never reads keeps
the process, and `LeavingEnds` is stated for behaviours in which none stays for ever.

`RestartHonoured` leaves three ways out: the process was replaced, the deadline
expired, the application ended. `EveryRunEnds` has none but the end of the
application.

### Deadlock

Deadlock is checked in every run. Where a system may rest (the application has
exited, the ledger cannot be opened, nothing more is to be called) an explicit
stuttering action says so, with the condition under which it may. Tasks of
EventDelivery that await each other for ever leave asyncio idle, not stopped:
`Quiet` allows that, and `EveryEventSettles` forbids it.

## 4. What is proved

`tlapm` checks every step; nothing is assumed but the named ASSUMEs of the
modules. `ConfigAssumption` of AgentLoop is `RunConfig.validate` plus the types of
the model's bounds, `BoundsAssumption` and `StartsAssumption` of the other modules the
latter, `CutsAssumption` of SessionLedger that its cuts are extents,
`ProvidersAssumption` the two providers there are, `NamesAssumption` of EventDelivery
that the tasks of the loop and of the tool handlers are no event numbers. The
theorems hold for every value of the constants, so for any number of prompts, turns,
tool calls, processes, cells, events, credentials, restarts and Ctrl-C's, for
responses of any length. Where TLC can evaluate an inductive invariant, it checked it
on the module's run before it was proved.

Some theorems have the form `NoDeadline => (Spec => ...)`, with `NoDeadline ==
HasDeadline = FALSE`. That is the configuration `run.py` ships, and the one the runs
check those properties in. Under a deadline TLC finds each of them violated (section 5
has the typical histories): the deadline may expire in the few emits where the code
does not expect it.

The loop (AgentLoopProofs):

* `TypeCorrect`: `Spec => []TypeOK`, by one lemma per group of actions.
* `TranscriptCorrect`: `Spec => []TranscriptShape`. The shape is a
  relation between neighbouring messages, and whether the next may be appended
  depends on the latest, which the code never looks at: it relies on where it
  stands. `TranscriptInv` therefore adds `Standing`, which says for each region of
  `pc` what the latest message is: no reply is open where a request may follow;
  the latest is the reply itself at `assistant_end`; it is a complete reply with
  a block while a cell is sent and runs; it is an observation until the restart
  or the notice. Two lemmas carry the argument: a step that appends a message
  that may follow (`Appended`), and a step that appends nothing and enters no
  region that claims more (`Unappended`). Exceptions go to points where nothing is
  claimed, which is why the result holds under every cancellation.
* `LimitsKept`: `Spec => []LimitsHold`. The property counts messages since the latest
  prompt; the code counts in three variables that it raises at other moments.
  `CountInv` relates the two region by region: an execution is counted before its
  observation is appended, a reply after, and only a repair may exceed its limit
  by one, while the run that refuses it ends. The counting itself is a fact about the
  cardinality of a set of positions, by `FiniteSetTheorems`.
* `PromptFindsNothingOpen`: `[]NothingLeftOpen`, from `ControlInv`: a kernel call
  is in progress only at its own await, an exception on its way out stands at the
  end of the run, and whatever leads there has cleared the flag and, unless it is an
  exception, the run's id. This is what a deadline breaks.
* `ErrorTellsTheOutcome`: `[]OutcomeReported`. `OutcomeKnown` says where a run is still
  undecided (no error yet) and that from there on error and latest message agree;
  it needs `TranscriptInv` for what the latest message is.
* `LossAnnounced`: `[]MemoryLossAnnounced`. At each moment the present process has
  been announced or its notice is owed (`Owed`: the points between a replacement and
  the notice, with the kernel call's own states).
* `LoopImplementsEventOrder`: `EventsInOrder`, that is `Spec => Order!Spec`, step by
  step. Where the loop stands determines the type, role and run of the latest event
  (`EventKnown`), so that each emit is a step of EventOrder.

The kernel (JupyterKernelProofs):

* `KernelImplementsContract`: `Spec => ImplementsContract`. With it the theorems about
  the loop speak about the loop over the real kernel. Each step is matched with a
  step of the contract by the state of the call (`CallState`).
* `AnsweredIsDone` and `AnswerIsComplete`: `[]NothingRunsAfterAnswer` and
  `CompleteWhenAnswered`, from `IInv`: the queue of cells and the messages of IOPub
  are in the order of the cells, a cell's idle status is its last message, and
  nothing was sent after the cell awaited. So a client that has read the idle status
  has read all, and one that is free has empty channels, whatever it abandoned.

Delivery (EventDeliveryProofs):

* `SourcesInOrder`, `EmitWaits` and `TailStaysDead`: `[]OrderWithinSource`,
  `WaitsForPending` and `DeadTailStaysDead`. The invariant has the chain of
  deliveries (each awaits the one before it, and one that awaits nothing found all
  done), the place of the loop's task (in the ready queue once at most, and woken
  only by the delivery it awaits), and what has been handled. `OrderWithinSource` is
  inductive only beside the other parts: an event is delivered at the right place
  because everything before it is done, which the chain says.

The session over its starts (second part of AgentLoopProofs): one invariant,
`SessionInv`, for `NumbersNameProcesses`, `RecordedFirst` and `ResumeAnnounced`
(`GenerationsNameProcesses`, `RecordedBeforeUse`, `FreshMemoryAnnounced`), which are
properties of the whole file over any number of starts. `Numbered` says that a number
about to be given out is new to the file, `Recording` that a process whose number is in
use has its entry or that the loop stands where the entry is owed (`Unrecorded`),
`Fresh` that the notice is there or owed. Each is stated so that it survives a stop at
any step. `WorkKept` takes what a step of AgentLoop does from the loop's own proofs.

The session file (SessionLedgerProofs), for any cuts of stops and of failing writes, and
any number of both:

* `LedgerIsDurableLog`: `AppendOnly`, that is `Spec => Log!Spec`. The invariant, `LinesInv`,
  is what the code never checks: only the last line may lack its newline, and an ended
  line of one piece is an entry (`Shaped`). A write to a file that ends in a newline is
  one case (`WrittenBehind`), a write to one that does not another (`WrittenInto`), and
  `Moves` says which steps of the log there are, so that `WriteMoves` and its likes match
  each step of the program with one of them.
* `ListIsTheFile`: `[]MemoryMatchesFile`. `ListInv` relates the list to `HeldBy(file)`, the
  entries of all pieces in the file, whatever lines they stand on: they are numbered
  below the entry being written, the lines' first ones increase, and the list has what
  the file holds but for `raised`. The entry of an append that raised may be in the file
  and not in the list; the list gets it at the next start only.
* `ReaderFindsTheLog`: a file opens unless an ended line is no entry or a character is
  torn behind them, and what a reader finds then is the log of `AppendOnly`, or the log
  and the one entry whose newline is missing.

Tools (ToolServiceProofs):

* `OldProcessPowerless`: `Spec => OldProcessActsNoMore`. Invariant:
  a tools object holds the token in force and belongs to its owner; a request in
  the inbox carries a token of the past or present, and one with the present
  token was sent by the owner. It is inductive because the process loses its
  tools when it is replaced, before the token is rotated, and the owner changes
  in the same step as the token.
* `AnswersKept`: `Spec => []AnswersMatchLedger`. The property is not
  inductive: it says nothing of calls not yet served. `CallsInv` adds that calls
  are numbered as they are made, no two requests in the inbox share a number
  (`InboxNumbered`), and that neither an entry nor the answer has the number of a
  request still in the inbox (`ServedGone`). An entry whose call was not answered ok
  belongs to an append that raised, and such a call is in `failures` for good.
* `TodosSurvive`: `Spec => []ResumedTodosMatch`, the property being about a session in
  which no append raised: after one that did, memory and file differ
  (`ToolService_failed_append`). The heart is `ServedAsReplayed`: what
  `todo_state` makes of the list and one entry is what the service made of the
  list and the request the entry was written for. It needs that a name stands in
  the list once (`Listed`). `StatesFollow` unfolds the replay of a longer ledger.

The provider (ProviderStreamProofs):

* `NothingElseIsComplete` and `OrderKept`: `Spec => []CompleteOnlyIfSaid` and `Spec =>
  []TakenInOrder`, from one invariant. Every event
  the generator holds names an outcome the server has sent (`HonestInv`). Pieces
  taken, pieces being yielded, and what is still in the frame and on the wire are
  numbered in this order (`OrderInv`), which is inductive because a frame's lines
  are cleared before the next frame begins (`FrameInv`).
* `NothingLost`: `Spec => []WholeResponseTaken`, from `WholeInv` beside them. Without a
  fault the lines read and the lines on the wire make up the latest event, in one of
  the ways a frame can be cut (`Framed`); each piece sent is unread, about to be
  yielded, or taken (`ContentKept`), the outcome likewise (`OutcomeKept`), and the
  reader stops only at the end (`ReadToTheEnd`).

The parser (ExecParserProofs): a text is any sequence of the symbols, cut in any way.

* `ResultIsBlockStructure` and `ShownIsStored`: `Spec => []ResultIsParsed` and
  `[]StreamedIsResult`, from `ParserInv`. What was fed so far is a text of whole lines
  and a last line that has not ended, which is `pending`; of the whole lines `Scanned`
  says, state by state, where their markers stand and which parts of the text are
  prefix, code and suffix (in "ERROR", that no continuation parses), and `Shown` that
  the deltas, joined by kind, are those parts. A chunk is taken in rounds of one line,
  and `LineJoins` is the heart: a line added to a text of whole lines adds at most
  the one marker it consists of, and leaves the others where they are.
* `ReplyReadsBack`: `Spec => []ReplayKeepsBlock`. The text that is sent back has the
  same two marker lines, each on a line of its own, and no others: the prefix, the
  code and the suffix are lines without a marker, and the line breaks that `Gap` puts
  between them make none.

Start and end, in StartupProofs (the login and the end of the application):

* `OnePromptReads`: `Spec => []OneReader`. A thread reads exactly
  while a prompt waits, or is left from one that was cancelled, and then no prompt
  follows (`ReaderInv`).
* `RunClosesWhatItOpened`: `Spec => []NothingLeftRunning`. `ServerAt` and `KernelAt` say
  for every await what is open there (`ClosedInv`). Each holds as long as nothing has
  disturbed the awaits at which its resource is opened, recovered or closed
  (`Disturbed`): no Ctrl-C fell there and no clean-up call raised there. Neither is ever
  forgotten (`PressesGrow`), so what holds at the end is what the property excuses.
* `UsedIsStored` and `StoredStays`: `Spec => []ReadyIsStored` and
  `Spec => StoredOnlyRenewed`. Invariant: what `save()` holds was issued after what
  is stored and is renewable, the temporary file is complete when it is renamed,
  and a stored credential that is fresh is renewable, since a refresh token is
  spent only for one that is not, and no credential becomes fresh again.

Discovery, in StartupProofs: for any number of directories and files (a directory has the
model's four names), any links between them, cycles included, any sources, chains of any
length and any `MaxLinks`.

* `PrecedenceKept` and `NoSkillLost`: `DiscoverySpec => []FirstSourceWins` and
  `[]EverySkillAccountedFor`. Both properties look back, when the scan is over, on all
  paths there are; `ScanInv` says what holds of them on the way. An entry of the agenda
  stands for the directory at the end of a path, or for one file (`Stands`), and covers
  the candidates below it (`Covers`). `NothingForgotten`: a candidate of the present
  source was looked at, or its skill is in `found`, or an entry of the agenda covers it.
  `AgendaInOrder` and `FoundInOrder`: what comes before an entry, in the order of
  `Before`, is covered by the entries in front of it or already found. The step that
  needs work is `visit`: its entries cover what the directory covered, name by name and
  sorted (`Spread`, `VisitSpreads`). `SelectedFirst` then says of each skill chosen that
  all candidates before it had lost to a skill before it, and `SelectedOnce` that names
  and files are chosen once. `SelectedFirst` is inductive only beside the order of
  `found`, and that only beside the order of the agenda. `ScanInv` was checked by TLC on
  the run's file systems as well.
* `NearestLast`: `DiscoverySpec => []ContextInOrder`. The files read after n directories
  list what the first n add (`ContextRead`, `Lists`); that the next one stands at
  position k when it is the k-th new one is a fact about cardinalities (`ListGrows`).

What a recursive definition computes is proved in five places: the messages replayed
from the file (`Resume!Messages`), the tasks (`ToolService!TodoState`), the rounds of the
parser and the deltas joined (`Rounds`, `Joined`), and the directories on a path
(`NodesOn`). All are recursive functions over positions. The library's induction theorems take a
predicate as a parameter; what is used instead is induction over a set of naturals
that can be written down (`SetInduction`, from the well-foundedness of the naturals).

Only model-checked:

* the liveness properties (`EveryRunEnds`, `RestartHonoured`, `EveryEventSettles`,
  `ExecuteAnswers`, `LoginEnds`, `ReplyComes`, `LeavingEnds`), which need fairness and
  ENABLED.

Every safety property of the runs, invariant or action property, has its theorem.

## 5. Disagreements found

The following configurations are kept beside the listed runs, to be run by hand.
Each checks one property and ends in its violation; the first group disagrees with
a line of the documentation or the tests.

| Configuration | Property | What the text says, and what happens |
|---|---|---|
| AgentLoop_deadline_requests | `DeadlineStopsRequests` | PLAN 12 lists an "overall optional run deadline". The deadline cancels once, and `execute()` answers that cancellation as an interrupted cell (jupyter.py:148): the loop records it and requests the next reply |
| EventDelivery_sequence | `DeliveredInSequence` | PLAN 7.1: "append in event sequence order". `emit` does not look at the tail again after awaiting it (session.py:51): a background event that came meanwhile has a smaller number and is delivered later |
| SessionLedger_character | `OpensAgain` | a partial last line is meant to be ignored (session_jsonl.py:109). One that is cut within a multi-byte character raises UnicodeDecodeError, which `_read_existing` does not catch (line 107): the session does not open again |
| CodexLogin_expired | `RequestsCarryLiveToken` | the provider keeps the credential of the start for the whole session (application.py:47), and nothing looks at its expiry again |
| ProviderStream_lost_piece | `LostPieceNeverComplete` | PLAN 9.1: "Execute only after the complete provider response is authoritative". A frame that cannot be decoded becomes an error event (openai_codex.py:104), the stream goes on, and the last terminal event counts: a response that has lost a piece in its middle is taken as complete, and its block is run |
| Application_idle_interrupt | `TwoInterruptsExit` | PLAN 16.1 (line 849): "While idle: exit or require a second interrupt". A Ctrl-C at the prompt leaves the thread in `input()` (terminal.py:85); the process waits for it, and neither the first nor, while asyncio still cancels, the second Ctrl-C ends that wait: only Enter or another Ctrl-C does |
| ExecParser_replay | `ReplayKeepsMarkers` | tests/unit/test_auth_providers.py:159 asks that a replayed block keeps its markers. A suffix that starts with a lone `\r` is replayed on the closing marker's line (openai_conversion.py:29) |
| Discovery_undecodable | `StartsAnyway` | skills.py:120 goes on when an ignore file cannot be read (`except OSError`). One that is not UTF-8 raises UnicodeDecodeError, a ValueError: start-up fails |

The second group has no text against it; a reader of the code may want to know.

| Configuration | Property | What happens |
|---|---|---|
| AgentLoop_deadline_notice | `MemoryLossAnnounced` | the deadline falls between the kernel's replacement and its notice (loop.py:164): the next prompt's request does not tell the model that its memory is gone |
| AgentLoop_deadline_refuses | `RefusesOnlyWhileActive` | the deadline falls in one of the four emits before the `try` (loop.py:79-104): `is_running` stays set and every later prompt is refused |
| AgentLoop_cell_timeout | `TimeOutStaysInCell` | a cell's time-out falls where an output waits for a background delivery (session.py:54) and cancels that delivery; the cell is recovered, but the next emit awaits the cancelled tail and raises CancelledError, and the application ends although nobody cancelled it |
| AgentLoop_stale_restart | `RestartHitsRequester` | a call of the process being replaced asks for a restart after `consume()` (loop.py:160) and before the token is rotated: the new process is replaced after its first cell |
| SessionLedger_continued_line | `FoundStays` | a write that raises leaves text, or a stop an entry without its newline; the next append continues that line (session_jsonl.py:134). Afterwards the file opens no more, or opens without both entries when that append is itself stopped: what a reader found is not found again |
| JupyterKernel_idle_consumed | `OnlyBusyProcessReplaced` | a time-out between the idle status and the reply waits for an idle already read (jupyter.py:146, 183): an idle process is replaced |
| JupyterKernel_two_cells | `OneCellAtATime` | a cancellation during the unshielded recovery (jupyter.py:146) leaves the cell running, the next is sent behind it |
| ToolService_failed_append | `FailedCallChangesNothing` | a task whose ledger entry could not be written stays (todo.py:41) |
| CodexLogin_unreadable | `UnreadableStartsLogin` | a stop in the first `save()` leaves an empty file on which every later start fails (storage.py:44) |
| CodexLogin_refused | `RefusedStartsLogin` | a stop between refresh and save leaves a spent refresh token on which every later start fails (openai_codex.py:302) |
| ProviderStream_late_failure | `CompletedStays` | the connection fails, or times out, after the completed response was read (openai_codex.py:95): the error event is the last terminal event, and the response is thrown away |
| Application_start_interrupted | `KernelNeverLeft` | Ctrl-C while the interpreter boots: `except Exception` (jupyter.py:82) does not see a cancellation, and `shutdown()` has no manager yet. Nobody ends the interpreter but its own watch of its parent |
| Application_shutdown_raises | `ServerNeverLeft` | an exception of `shutdown_kernel` (jupyter.py:235) leaves the `finally` of application.py:207-211 at its first line: `server.close()` and `provider.close()` are not called, and `run()` is over with the server listening, without any Ctrl-C |
| Application_abandoned_recovery | `NoneStartedAfterShutdown` | under a deadline, a Ctrl-C leaves `execute()` while its shielded recovery goes on (jupyter.py:149), or the other way round; `shutdown()` ends the interpreter, and the recovery starts another, which the program never ends. Without a deadline the second cancellation reaches the recovery itself, and the property holds |

Two more were seen while modelling. With a deadline, a cancellation between
`restart_kernel` and `self._generation += 1` leaves a new process under the old
number, so that in the next prompt's run two processes share it: with two prompts
and a deadline `GenerationNamesProcess` fails, and Resume is checked without one.
A deadline that expires in the `finally`'s own emit ends a run without `agent_end`,
so `EventsInOrder` is checked without one too.

## 6. Not modelled, or only in part

* **Observability** (TraceRecorder, redaction) writes to /tmp and influences no
  run; its write failures are swallowed. Redaction is a conversion of text that no
  property here reads.
* **Rendering**: `prompt()` and its thread are in Application; `handle()` only prints,
  and appears as a sink that does not suspend.
* **Domain messages**: the kinds and stop reasons are values, and Resume has what of
  a message survives the session file. The JSON forms, request bodies, usage
  figures, PKCE and JWT decoding, and kernel/outputs.py are conversions without
  state.
* **Prompt text**: which context files and skills are in it is in Discovery; how
  they are written is layout. `SkillsService.load` reads a skill's file when it is
  asked, not when it was discovered: the file may have changed or gone, which is
  an error of that call and changes no state. Warnings about the form of a name or
  a description are left out; of a directory's entries only those a skill can come
  from are there.
* Two processes of the application on one session file: nothing in the program
  locks it, and nothing says it may be done.
* `JupyterKernel.interrupt` and `SessionLedger.extend_messages` are not called by the
  program.
* AgentLoop goes on after a second Ctrl-C as asyncio does; a third ends the process
  at once and is left to Resume's `Stop`.
* What a machine's stop costs beyond a process's: `CredentialStore.save` renames without
  fsync (storage.py:44-53), so CodexLogin's stops are those of the process. SessionLedger's
  are also the machine's, for `append` syncs.
* `stream_response` of the codex provider turns `httpx.HTTPError` alone into an error
  event (openai_codex.py:95). Another exception ends `_stream_assistant` without a reply; that is
  AgentLoop's `StepFails` at `streaming`, and no step of ProviderStream.
* Application: the failures of `server.close()` and `provider.close()` themselves, behind
  which nothing is left to close but the provider's connections; and the few lines between
  `server.start()` and the `try` (application.py:160), which do not fail on a session file
  the program wrote. A connection's write to a peer that does not read is there, without
  a limit as in the code, and excluded from `LeavingEnds`.
* Without a property: the undecodable ignore file (skills.py:120) and the expired
  credential (application.py:47), where the code does what section 5 says, so that
  nothing of it could be shown to hold.

## 7. Plan

Done in this order: KernelContract, AgentLoop and its properties; EventDelivery and
SessionLedger, on which the loop's summaries rest; JupyterKernel against the
contract; ExecParser; ToolService; CodexLogin; Resume, AgentLoop on the session file;
ProviderStream; Discovery; Application; the proofs of section 4.

Next theorems: `FoundStays`, once the code ends an unended line before it writes; the
loop's theorems under a deadline, once the emits before the `try` are inside it.

Next models: ProviderStream's reply in place of AgentLoop's free choice of one, so
that section 5's lost piece is seen to reach a cell; and a deadline in Resume, with
the numbering above repaired.
