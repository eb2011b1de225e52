------------------------- MODULE AgentLoopProperties -------------------------
(***************************************************************************)
(* What agent/loop.py promises to the model, the user and the subscribers  *)
(* of its events.                                                          *)
(***************************************************************************)
EXTENDS AgentLoop, FiniteSets

(* The type of every variable of the loop, whatever run, cell or          *)
(* cancellation has gone before.                                           *)
TypeOK ==
    /\ pc \in Points
    /\ run \in Nat
    /\ turn \in Nat /\ executions \in Nat /\ repairs \in Nat
    /\ reply \in Reply
    /\ cell \in Cell
    /\ replaced \in BOOLEAN
    /\ raising \in {"none", "cancelled", "timeout", "error"}
    /\ messages \in Seq(Message)
    /\ isRunning \in BOOLEAN
    /\ lastError \in Errors
    /\ restart \in [proc : Nat, run : Nat]
    /\ active \in Nat
    /\ tail \in {"idle", "pending", "dead"}
    /\ event.run \in Nat
    /\ deadline \in {"off", "armed", "expired"}
    /\ interrupted \in Seq(Nat)
    /\ rpcs \in Nat
    /\ call \in Kernel!CallStates
    /\ generation \in Nat
    /\ process \in Nat \ {0}

-----------------------------------------------------------------------------
(* The transcript the model is sent.                                       *)

(* Whether m may stand directly after p.                                   *)
Follows(p, m) ==
    CASE m.kind = "user" -> TRUE
      [] m.kind = "assistant" -> p.kind # "assistant"
      [] m.kind = "execution" -> p = Assistant([stop |-> "stop", block |-> "exec"])
      [] m.kind = "protocol_error" ->
            \/ p = Assistant([stop |-> "stop", block |-> "malformed"])
            \/ p \in {Assistant([stop |-> "length", block |-> b]) : b \in {"exec", "malformed"}}
      [] m.kind = "notice" -> p.kind = "execution"

WellFormed(transcript) ==
    \A i \in DOMAIN transcript :
        IF i = 1 THEN transcript[i] = User ELSE Follows(transcript[i - 1], transcript[i])

(* README.md:63: only the block of a complete, well-formed reply that      *)
(* ended with "stop" is ever executed; a malformed or truncated one is     *)
(* answered by a repair observation; and no request is made while a reply  *)
(* of the same run stands unanswered, however the run is cancelled.        *)
TranscriptShape == WellFormed(messages)

(* PLAN 15.5 and README.md:80: when a request goes out, the process that   *)
(* will run the next cell is the first one, or the transcript holds the    *)
(* notice that announced it under the generation the kernel now reports.   *)
MemoryLossAnnounced ==
    pc = "streaming" =>
        \/ process = 1
        \/ \E i \in DOMAIN messages :
                messages[i] = Notice([gen |-> generation, proc |-> process])

(* PLAN 11.1: generation numbers in the transcript name processes: two     *)
(* messages carry the same number exactly when they are about the same     *)
(* process, and later messages are never about an earlier process.         *)
GenerationNamesProcess ==
    \A i, j \in {k \in DOMAIN messages : messages[k].kind \in {"execution", "notice"}} :
        i <= j =>
            /\ messages[i].cell.gen <= messages[j].cell.gen
            /\ messages[i].cell.proc <= messages[j].cell.proc
            /\ messages[i].cell.gen = messages[j].cell.gen
                    <=> messages[i].cell.proc = messages[j].cell.proc

(* Where the latest prompt stands in the transcript.                       *)
IsLatestUser(i) ==
    messages[i] = User /\ \A j \in DOMAIN messages : messages[j] = User => j <= i

SinceUser(kind) ==
    Cardinality({j \in DOMAIN messages :
        messages[j].kind = kind /\ \A i \in DOMAIN messages : IsLatestUser(i) => i < j})

(* PLAN 12, operational limits: counted in the transcript, not by the      *)
(* loop's own counters, no prompt costs more cells, replies or repairs     *)
(* than configured.  The last repair is the one that ends the run.         *)
LimitsHold ==
    /\ SinceUser("execution") <= MaxExecutions
    /\ SinceUser("assistant") <= MaxTurns
    /\ SinceUser("protocol_error") <= MaxRepairs + 1

-----------------------------------------------------------------------------
(* Between runs.                                                           *)

(* last_error of a run that returned to the prompt is None exactly when    *)
(* the transcript ends in a complete answer.                               *)
OutcomeReported ==
    (pc = "prompt" /\ run > 0) =>
        ((lastError = "none")
            <=> (messages[Len(messages)] = Assistant([stop |-> "stop", block |-> "none"])))

(* loop.py:66: is_running refuses a prompt only while a run is active.     *)
RefusesOnlyWhileActive == pc = "prompt" => ~isRunning

(* What a run leaves behind for the next prompt: no flag that refuses it,  *)
(* no kernel call in progress and no run id that the next                  *)
(* kernel_restart_requested event would be stamped with.                   *)
NothingLeftOpen == RefusesOnlyWhileActive /\ (pc = "prompt" => active = 0 /\ call = "idle")

Order == INSTANCE EventOrder

(* PLAN 6.3 and 13: the run events come in the promised order, none of     *)
(* them after agent_end.                                                   *)
EventsInOrder == Order!Spec

-----------------------------------------------------------------------------
(* Restart requests, the deadline, termination.                            *)

(* PLAN 15.5: a restart that tools.kernel.restart() schedules replaces the *)
(* process that asked for it, not a later one.                             *)
RestartHitsRequester ==
    [][(pc = "execution_end" /\ pc' = "restarting") => restart.proc = process]_vars

(* README.md:80: a restart requested while a cell runs replaces the        *)
(* process of the cell, whatever ends the cell, unless the run's deadline  *)
(* expires or the application ends first.                                  *)
RestartHonoured ==
    \A p \in 1 .. (MaxRuns * MaxExecutions + 1) :
        (pc = "executing" /\ restart.proc = p)
            ~> (process > p \/ deadline = "expired" \/ pc = "exited")

(* PLAN 12, overall run deadline: once it has expired the run makes no     *)
(* further provider request.                                               *)
DeadlineStopsRequests ==
    [][(deadline = "expired" /\ pc # "streaming") => pc' # "streaming"]_vars

(* A cell's time-out ends the cell and no more: a CancelledError leaves    *)
(* the run only when the deadline or the user has cancelled it.            *)
TimeOutStaysInCell ==
    raising = "cancelled" => deadline = "expired" \/ interrupted # <<>>

(* Every prompt is finished: no cancellation, lost kernel, repair or       *)
(* pending delivery leaves the loop waiting for ever.                      *)
EveryRunEnds == (pc = "agent_start") ~> (pc \in {"prompt", "exited"})
=============================================================================
