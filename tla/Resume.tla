-------------------------------- MODULE Resume --------------------------------
(***************************************************************************)
(* application.run over a session file: start-up, the loop, and a stop at  *)
(* any step, again and again on the same file.  Composes AgentLoop with    *)
(* the ledger.  An append is one step here: SessionLedger shows that a     *)
(* reader finds an entry whole or not at all, and has the torn characters  *)
(* and failed writes after which there is no reader.  The todo entries are *)
(* modelled in ToolService.  The process counter of the contract runs on   *)
(* from one start to the next.                                             *)
(***************************************************************************)
EXTENDS AgentLoop, SequencesExt, FiniteSetsExt

CONSTANT MaxStarts      \* bound of the model: starts of the application

ASSUME StartsAssumption == MaxStarts \in Nat

VARIABLES
    ledger,     \* the entries of the session file
    stage,      \* "stopped", or how far start-up has come: "opened", "started",
                \* "recorded", "running"
    resumed,    \* SessionLedger.resumed
    starts

sessionVars == <<ledger, stage, resumed, starts>>

-----------------------------------------------------------------------------
(* What is written and read.  Processes are written down only here: an     *)
(* entry of the program has the generation alone.                          *)

Session == [type |-> "session"]
KernelEntry == [type |-> "kernel", cell |-> [gen |-> generation, proc |-> process]]
MessageEntry(m) == [type |-> "message", message |-> m]

Messages(entries) ==
    LET result[n \in 0 .. Len(entries)] ==
            IF n = 0 THEN <<>>
            ELSE IF entries[n].type = "message" THEN Append(result[n - 1], entries[n].message)
            ELSE result[n - 1]
    IN result[Len(entries)]

(* The cells an entry or its message has the generation of.                *)
CellsOf(entry) ==
    CASE entry.type = "kernel" -> {entry.cell}
      [] entry.type = "message" /\ entry.message.kind \in {"execution", "notice"} ->
            {entry.message.cell}
      [] OTHER -> {}

(* Variant: session_info and kernel_restart are not looked at.             *)
MaxKernelGenerationOfMessages ==
    Max({0} \cup UNION {{c.gen : c \in CellsOf(e)} :
                            e \in {x \in Range(ledger) : x.type = "message"}})

MaxKernelGeneration == Max({0} \cup UNION {{c.gen : c \in CellsOf(e)} : e \in Range(ledger)})

-----------------------------------------------------------------------------
(* Start-up.                                                               *)

(* All that a process of the application has in memory, before a session.  *)
Volatile(transcript, number) ==
    /\ pc' = "prompt"
    /\ run' = 0 /\ turn' = 0 /\ executions' = 0 /\ repairs' = 0
    /\ reply' = [stop |-> "stop", block |-> "none"]
    /\ cell' = [gen |-> 0, proc |-> 0] /\ replaced' = FALSE
    /\ raising' = "none" /\ lastError' = "none" /\ isRunning' = FALSE
    /\ messages' = transcript
    /\ restart' = NoRequest /\ active' = 0
    /\ tail' = "idle" /\ event' = [type |-> "none", role |-> "none", run |-> 0]
    /\ deadline' = "off" /\ interrupted' = <<>> /\ rpcs' = 0
    /\ call' = "idle" /\ generation' = number

(* The ledger is opened, a new one given its session entry, and the kernel *)
(* numbered.                                                               *)
OpenSession ==
    /\ stage = "stopped"
    /\ starts < MaxStarts
    /\ starts' = starts + 1
    /\ resumed' = (ledger # <<>>)
    /\ ledger' = IF resumed' THEN ledger ELSE <<Session>>
    /\ stage' = "opened"
    /\ Volatile(Messages(ledger), MaxKernelGeneration + 1)
    /\ UNCHANGED process

StartKernel ==
    /\ stage = "opened"
    /\ stage' = "started"
    /\ process' = process + 1
    /\ UNCHANGED <<pc, run, counters, reply, cellVars, raising, messages, outcome, requestVars,
                   tail, event, timerVars, rpcs, call, generation, ledger, resumed, starts>>

RecordStart ==
    /\ stage = "started"
    /\ ledger' = Append(ledger, KernelEntry)
    /\ stage' = IF resumed THEN "recorded" ELSE "running"
    /\ UNCHANGED <<vars, resumed, starts>>

(* Variant: the notice is shown to the user only.                          *)
ResumeNoticeShown == UNCHANGED <<messages, ledger>>

ResumeNotice ==
    /\ messages' = Append(messages, PresentNotice)
    /\ ledger' = Append(ledger, MessageEntry(PresentNotice))

AnnounceResume ==
    /\ stage = "recorded"
    /\ ResumeNotice
    /\ stage' = "running"
    /\ UNCHANGED <<pc, run, counters, reply, cellVars, raising, outcome, requestVars,
                   tail, event, timerVars, rpcs, kernelVars, resumed, starts>>

-----------------------------------------------------------------------------
(* The session.                                                            *)

(* Variant: a kernel that had to be replaced is not recorded.              *)
RecordsRestartsOnly == pc = "restarting" /\ pc' = "kernel_restarted"

(* _record_kernel_replacement begins with an entry of its own.             *)
RecordsKernel ==
    \/ pc = "execution_end" /\ pc' = "kernel_failed"
    \/ pc = "restarting" /\ pc' = "kernel_restarted"

(* append_message is the only other place where the loop writes.           *)
Recorded ==
    ledger' = IF messages' # messages THEN Append(ledger, MessageEntry(Last(messages')))
              ELSE IF RecordsKernel THEN Append(ledger, KernelEntry)
              ELSE ledger

Work ==
    /\ stage = "running"
    /\ pc # "exited"
    /\ Next
    /\ Recorded
    /\ UNCHANGED <<stage, resumed, starts>>

(* The application ends: /quit, an exception, a lost machine.              *)
Stop ==
    /\ stage # "stopped"
    /\ stage' = "stopped"
    /\ resumed' = FALSE
    /\ Volatile(<<>>, 0)
    /\ UNCHANGED <<ledger, starts, process>>

Rest == stage = "stopped" /\ starts = MaxStarts /\ UNCHANGED <<vars, sessionVars>>

SessionInit ==
    /\ Init
    /\ ledger = <<>>
    /\ stage = "stopped"
    /\ resumed = FALSE
    /\ starts = 0

SessionNext ==
    \/ OpenSession \/ StartKernel \/ RecordStart \/ AnnounceResume
    \/ Work \/ Stop \/ Rest

SessionSpec == SessionInit /\ [][SessionNext]_<<vars, sessionVars>>

-----------------------------------------------------------------------------

CellsOnFile == UNION {CellsOf(e) : e \in Range(ledger)}

(* PLAN 11.1 and 14.4, "a fresh kernel with a new generation": on the      *)
(* whole file, over any stops and resumptions, two records carry the same  *)
(* generation exactly when they are about the same process, and numbers    *)
(* grow with the processes.                                                *)
GenerationsNameProcesses ==
    \A c, d \in CellsOnFile : c.gen < d.gen <=> c.proc < d.proc

(* PLAN 15.5, "persists the restart": a message about a process stands     *)
(* behind the entry that recorded the process, so that the number of a     *)
(* process that has run a cell is never given out again.                   *)
RecordedBeforeUse ==
    \A i \in DOMAIN ledger :
        ledger[i].type = "message" =>
            \A c \in CellsOf(ledger[i]) :
                \E j \in 1 .. i - 1 : ledger[j].type = "kernel" /\ ledger[j].cell = c

(* README.md:65 and 102, PLAN 14.4: whatever a request to the provider     *)
(* tells of an earlier process is followed by the notice that the present  *)
(* one is fresh, whether it was replaced or the session resumed, and even  *)
(* if the application stopped before it could tell.                        *)
FreshMemoryAnnounced ==
    (stage = "running" /\ pc = "streaming") =>
        \A i \in DOMAIN messages :
            \/ \E j \in i + 1 .. Len(messages) :
                    messages[j] = Notice([gen |-> generation, proc |-> process])
            \/ messages[i].kind \in {"execution", "notice"} => messages[i].cell.proc = process
=============================================================================
