----------------------------- MODULE ToolService -----------------------------
(***************************************************************************)
(* The tools a cell can call: ToolRpcServer of tools/server.py with the    *)
(* todo list behind it (tools/todo.py), the entries todo_changed of        *)
(* application.py puts into the ledger, and what todo_state of             *)
(* storage/session_jsonl.py makes of them when the session is resumed.     *)
(* A request is sent by a process with the token it was given; it may be   *)
(* served after its caller has given up, was interrupted or is gone.       *)
(***************************************************************************)
EXTENDS Naturals, Sequences, SequencesExt, FiniteSets

CONSTANTS
    Names,
    MaxCalls, MaxProcesses, MaxFailures     \* bounds of the model

ASSUME BoundsAssumption ==
    MaxCalls \in Nat /\ MaxProcesses \in Nat /\ MaxFailures \in Nat

VARIABLES
    todos,          \* TodoService._tasks: a dict, in insertion order
    ledger,         \* the todo_change entries
    inbox,          \* requests received and not yet served
    answer,         \* the latest response that had a caller to read it
    token,          \* ToolRpcServer.token
    process,        \* the interpreter process, by number
    owner,          \* the process the harness last completed a start of
    tools,          \* the token in the process's tools object, 0 before they are installed
    calls,
    failures        \* the calls whose append raised

processVars == <<token, process, owner, tools>>
vars == <<todos, ledger, inbox, answer, processVars, calls, failures>>

Statuses == {"pending", "done", "unknown"}      \* the last is not a TaskStatus

Arguments ==
    [op : {"create", "update"}, name : Names, status : Statuses] \cup [op : {"clear"}]

Init ==
    /\ todos = <<>> /\ ledger = <<>>
    /\ inbox = {}
    /\ answer = [id |-> 0, ok |-> TRUE]
    /\ token = 1
    /\ process = 1 /\ owner = 1 /\ tools = 0
    /\ calls = 0 /\ failures = {}

-----------------------------------------------------------------------------
(* A Python dict as the sequence of its items.                             *)

Has(tasks, name) == \E i \in DOMAIN tasks : tasks[i].name = name

Task(name, status) == [name |-> name, status |-> status]

(* Variant: a task that is stored again moves to the end.                  *)
StoreLast(tasks, name, status) ==
    SelectSeq(tasks, LAMBDA task : task.name # name) \o <<Task(name, status)>>

Store(tasks, name, status) ==
    IF Has(tasks, name)
      THEN [i \in DOMAIN tasks |->
                IF tasks[i].name = name THEN Task(name, status) ELSE tasks[i]]
      ELSE Append(tasks, Task(name, status))

(* todo_state()                                                            *)
Replay(state, entry) ==
    IF entry.op = "clear" THEN <<>>
    ELSE IF Has(state, entry.name)
      THEN LET i == CHOOSE k \in DOMAIN state : state[k].name = entry.name
           IN  [state EXCEPT ![i].status = entry.status]
      ELSE Append(state, Task(entry.name, entry.status))

TodoState(entries) ==
    LET state[n \in 0 .. Len(entries)] ==
            IF n = 0 THEN <<>> ELSE Replay(state[n - 1], entries[n])
    IN state[Len(entries)]

-----------------------------------------------------------------------------
(* _rpc.call in the kernel.                                                *)

Call(arguments) ==
    /\ tools # 0
    /\ calls < MaxCalls
    /\ calls' = calls + 1
    /\ inbox' = inbox \cup
            {[id |-> calls', process |-> process, token |-> tools, arguments |-> arguments,
              waiting |-> TRUE]}
    /\ UNCHANGED <<todos, ledger, answer, processVars, failures>>

(* Variant: the call is sent once more.                                    *)
SentAgain(request) == inbox' = inbox \cup {[request EXCEPT !.waiting = FALSE]}

LeftBehind(request) == inbox' = (inbox \ {request}) \cup {[request EXCEPT !.waiting = FALSE]}

(* The time limit of the socket, an interrupt, or the end of the process:  *)
(* the request stays where it is.                                          *)
GiveUp(request) ==
    /\ request.waiting
    /\ LeftBehind(request)
    /\ UNCHANGED <<todos, ledger, answer, processVars, calls, failures>>

(* _handle, from the line received to the response: it awaits nothing.     *)
Respond(request, ok) ==
    /\ request \in inbox
    /\ inbox' = inbox \ {request}
    /\ answer' = IF request.waiting THEN [id |-> request.id, ok |-> ok] ELSE answer
    /\ UNCHANGED <<processVars, calls>>

Valid(status) == status # "unknown"

(* What create, update and clear raise.                                    *)
Raises(arguments) ==
    CASE arguments.op = "create" -> Has(todos, arguments.name) \/ ~Valid(arguments.status)
      [] arguments.op = "update" -> ~Has(todos, arguments.name) \/ ~Valid(arguments.status)
      [] arguments.op = "clear" -> FALSE

TasksAfter(arguments) ==
    IF arguments.op = "clear" THEN <<>> ELSE Store(todos, arguments.name, arguments.status)

Entry(request) ==
    IF request.arguments.op = "clear"
      THEN [op |-> "clear", process |-> request.process, id |-> request.id]
      ELSE [op |-> request.arguments.op, name |-> request.arguments.name,
            status |-> request.arguments.status, process |-> request.process,
            id |-> request.id]

Authorized(request) == request.token = token

Deny(request) ==
    /\ ~Authorized(request)
    /\ Respond(request, FALSE)
    /\ UNCHANGED <<todos, ledger, failures>>

Reject(request) ==
    /\ Authorized(request) /\ Raises(request.arguments)
    /\ Respond(request, FALSE)
    /\ UNCHANGED <<todos, ledger, failures>>

Serve(request) ==
    /\ Authorized(request) /\ ~Raises(request.arguments)
    /\ todos' = TasksAfter(request.arguments)
    /\ ledger' = Append(ledger, Entry(request))
    /\ Respond(request, TRUE)
    /\ UNCHANGED failures

(* todo_changed raises and the handler reports it.  A failing write leaves *)
(* no entry, a failing flush or fsync may leave it in the file.            *)
ServeUnrecorded(request) ==
    /\ Authorized(request) /\ ~Raises(request.arguments)
    /\ Cardinality(failures) < MaxFailures
    /\ failures' = failures \cup {request.id}
    /\ todos' = TasksAfter(request.arguments)
    /\ ledger' \in {ledger, Append(ledger, Entry(request))}
    /\ Respond(request, FALSE)

Handle(request) ==
    Deny(request) \/ Reject(request) \/ Serve(request) \/ ServeUnrecorded(request)

-----------------------------------------------------------------------------
(* The kernel is replaced, the application started again.                  *)

(* restart_kernel: what the old process sent may still be in the inbox.    *)
ReplaceProcess ==
    /\ process < MaxProcesses
    /\ process' = process + 1
    /\ tools' = 0
    /\ UNCHANGED <<todos, ledger, inbox, answer, token, owner, calls, failures>>

(* Variant: a kernel without rpc_token_rotator.                            *)
KeepToken == token

RotateToken == token + 1

(* generation += 1, and the new token.                                     *)
Ready ==
    /\ owner < process
    /\ owner' = process
    /\ token' = RotateToken
    /\ UNCHANGED <<todos, ledger, inbox, answer, process, tools, calls, failures>>

InstallTools ==
    /\ owner = process /\ tools = 0
    /\ tools' = token
    /\ UNCHANGED <<todos, ledger, inbox, answer, token, process, owner, calls, failures>>

(* The application stops anywhere between two steps and is started again.  *)
Resume ==
    /\ process < MaxProcesses
    /\ process' = process + 1 /\ owner' = process'
    /\ token' = token + 1 /\ tools' = 0
    /\ inbox' = {}
    /\ todos' = TodoState(ledger)
    /\ UNCHANGED <<ledger, answer, calls, failures>>

Rest == calls = MaxCalls /\ inbox = {} /\ process = MaxProcesses /\ UNCHANGED vars

Next ==
    \/ \E arguments \in Arguments : Call(arguments)
    \/ \E request \in inbox : Handle(request) \/ GiveUp(request)
    \/ ReplaceProcess \/ Ready \/ InstallTools \/ Resume \/ Rest

Spec == Init /\ [][Next]_vars

-----------------------------------------------------------------------------

(* PLAN 15.3, "changes remain durable": unless an append has failed, a     *)
(* session resumed now would start with exactly the tasks the kernel sees, *)
(* in the order list() gives.                                              *)
ResumedTodosMatch == failures = {} => TodoState(ledger) = todos

(* PLAN 15.3, "immediate feedback": a call the caller was told has         *)
(* succeeded is in the ledger, one that was told to have failed is not,    *)
(* unless its append raised; and a call that was given up, and may be      *)
(* served all the same, has one effect at most.                            *)
AnswersMatchLedger ==
    /\ \A i, j \in DOMAIN ledger : ledger[i].id = ledger[j].id => i = j
    /\ answer.id # 0 =>
          LET recorded == \E i \in DOMAIN ledger : ledger[i].id = answer.id
          IN  /\ answer.ok => recorded
              /\ recorded => answer.ok \/ answer.id \in failures

(* A call the caller is told has failed has changed no task.               *)
FailedCallChangesNothing ==
    [][(answer' # answer /\ ~answer'.ok) => todos' = todos]_vars

(* PLAN 15.2, "clean invalidation when a kernel generation ends": once a   *)
(* new process has its generation number, no call of an earlier one has an *)
(* effect, however late it is served.                                      *)
OldProcessActsNoMore ==
    [][ledger' # ledger => Last(ledger').process = owner]_vars
=============================================================================
