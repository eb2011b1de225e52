-------------------------- MODULE ToolServiceProofs --------------------------
(***************************************************************************)
(* Proofs about ToolService, for any number of names, calls, processes,    *)
(* failures and restarts of the application.                               *)
(***************************************************************************)
EXTENDS ToolService, WellFoundedInduction, TLAPS

TypeInv == token \in Nat /\ process \in Nat /\ owner \in Nat /\ tools \in Nat

(* The tools object of the running process holds the token in force, and   *)
(* only the process that owns the token has one.                           *)
ToolsHoldToken == tools # 0 => process = owner /\ tools = token

(* A request with the token in force was sent by the token's owner; none   *)
(* holds a token yet to come.                                              *)
RequestsDated ==
    \A request \in inbox :
        /\ request.token \in Nat /\ request.token <= token
        /\ request.token = token => request.process = owner

TokenInv == TypeInv /\ ToolsHoldToken /\ RequestsDated

Requests == [id : Nat, process : Nat, token : Nat, arguments : Arguments, waiting : BOOLEAN]

Entries == {Entry(request) : request \in Requests}

CallsTyped ==
    /\ calls \in Nat
    /\ inbox \subseteq Requests
    /\ ledger \in Seq(Entries)
    /\ answer \in [id : Nat, ok : BOOLEAN]

(* Nothing has been sent.                                                  *)
LEMMA TokenInit == Init => TokenInv
BY DEF Init, TokenInv, TypeInv, ToolsHoldToken, RequestsDated

(* Serving a request, whatever comes of it, only takes it from the inbox.  *)
LEMMA HandleStep ==
    ASSUME TokenInv, NEW request \in inbox, Handle(request)
    PROVE  TokenInv'
<1>1. inbox' \subseteq inbox /\ UNCHANGED processVars
  BY DEF Handle, Deny, Reject, Serve, ServeUnrecorded, Respond
<1> QED
  BY <1>1 DEF TokenInv, TypeInv, ToolsHoldToken, RequestsDated, processVars

(* A call carries the token of the process that makes it.                  *)
LEMMA CallStep == ASSUME TokenInv, NEW arguments, Call(arguments) PROVE TokenInv'
BY DEF TokenInv, TypeInv, ToolsHoldToken, RequestsDated, Call, processVars

(* What its caller does not wait for is the same request.                  *)
LEMMA GiveUpStep ==
    ASSUME TokenInv, CallsTyped, NEW request \in inbox, GiveUp(request)
    PROVE  TokenInv'
<1> DEFINE left == [request EXCEPT !.waiting = FALSE]
<1>1. left.token = request.token /\ left.process = request.process
  BY DEF CallsTyped, Requests
<1>2. inbox' = (inbox \ {request}) \cup {left} /\ UNCHANGED processVars
  BY DEF GiveUp, LeftBehind
<1> HIDE DEF left
<1> QED
  BY <1>1, <1>2 DEF TokenInv, TypeInv, ToolsHoldToken, RequestsDated, processVars

(* The process changes before the token does, and loses its tools at once. *)
LEMMA ProcessStep ==
    ASSUME TokenInv, ReplaceProcess \/ Ready \/ InstallTools \/ Resume
    PROVE  TokenInv'
<1> USE DEF TokenInv, TypeInv, ToolsHoldToken, RequestsDated
<1>1. CASE ReplaceProcess \/ InstallTools
  BY <1>1 DEF ReplaceProcess, InstallTools
<1>2. CASE Ready
  BY <1>2 DEF Ready, RotateToken
<1>3. CASE Resume
  BY <1>3 DEF Resume
<1> QED
  BY <1>1, <1>2, <1>3

(* The invariant is inductive.                                             *)
LEMMA TokenNext == ASSUME TokenInv, CallsTyped, [Next]_vars PROVE TokenInv'
<1>1. CASE UNCHANGED vars
  BY <1>1 DEF vars, processVars, TokenInv, TypeInv, ToolsHoldToken, RequestsDated
<1>2. CASE Rest
  BY <1>1, <1>2 DEF Rest
<1> QED
  BY <1>1, <1>2, CallStep, HandleStep, GiveUpStep, ProcessStep DEF Next

(* Only a call with the token in force reaches the ledger.                 *)
LEMMA ServedByOwner ==
    ASSUME TokenInv, CallsTyped, [Next]_vars, ledger' # ledger
    PROVE  Last(ledger').process = owner
<1>1. PICK request \in inbox : Serve(request) \/ ServeUnrecorded(request)
  BY DEF Next, vars, Call, Handle, GiveUp, Deny, Reject, ReplaceProcess, Ready, InstallTools,
         Resume, Rest
<1>2. request.process = owner
  BY <1>1 DEF Serve, ServeUnrecorded, Authorized, TokenInv, RequestsDated
<1>3. Entry(request).process = request.process
  BY DEF Entry
<1>4. Last(ledger') = Entry(request)
  <2>1. ledger' = Append(ledger, Entry(request))
    BY <1>1 DEF Serve, ServeUnrecorded
  <2> QED
    BY <2>1 DEF CallsTyped, Last
<1> QED
  BY <1>2, <1>3, <1>4

-----------------------------------------------------------------------------
(* Every call is in the inbox, in the ledger, or neither, but never in two *)
(* places.                                                                 *)

InboxNumbered ==
    /\ \A r \in inbox : 1 <= r.id /\ r.id <= calls
    /\ \A r, s \in inbox : r.id = s.id => r = s

(* What has been served is in the inbox no more.                           *)
ServedGone ==
    /\ \A i \in DOMAIN ledger :
          1 <= ledger[i].id /\ ledger[i].id <= calls /\ \A r \in inbox : ledger[i].id # r.id
    /\ answer.id <= calls
    /\ \A r \in inbox : answer.id # r.id

CallsInv == CallsTyped /\ InboxNumbered /\ ServedGone /\ AnswersMatchLedger

LEMMA CallsInit == Init => CallsInv
BY DEF Init, CallsInv, CallsTyped, InboxNumbered, ServedGone, AnswersMatchLedger

(* An entry has the number of its request.                                 *)
LEMMA EntryId == ASSUME NEW request PROVE Entry(request).id = request.id
BY DEF Entry

(* A new call has a number of its own.                                     *)
LEMMA CallCounted ==
    ASSUME TypeInv, CallsInv, NEW arguments \in Arguments, Call(arguments)
    PROVE  CallsInv'
<1> DEFINE new == [id |-> calls', process |-> process, token |-> tools,
                   arguments |-> arguments, waiting |-> TRUE]
<1>1. calls' = calls + 1 /\ inbox' = inbox \cup {new} /\ UNCHANGED <<ledger, answer, failures>>
  BY DEF Call
<1>2. new \in Requests /\ new.id = calls + 1 /\ calls \in Nat
  BY <1>1 DEF CallsInv, CallsTyped, Requests, TypeInv
<1> HIDE DEF new
<1>3. CallsTyped'
  BY <1>1, <1>2 DEF CallsInv, CallsTyped
<1>4. InboxNumbered'
  BY <1>1, <1>2 DEF CallsInv, CallsTyped, InboxNumbered, Requests
<1>5. ServedGone'
  <2>1. ASSUME NEW i \in DOMAIN ledger PROVE ledger[i].id \in Int
    BY <2>1, EntryId DEF CallsInv, CallsTyped, Entries, Requests
  <2> QED
    BY <1>1, <1>2, <2>1 DEF CallsInv, CallsTyped, ServedGone, Requests
<1>6. AnswersMatchLedger'
  BY <1>1 DEF CallsInv, AnswersMatchLedger
<1> QED
  BY <1>3, <1>4, <1>5, <1>6 DEF CallsInv

(* A request answered with success is in the ledger, any other is not,     *)
(* unless its append raised.                                               *)
LEMMA HandleCounted ==
    ASSUME CallsInv, NEW request \in inbox, Handle(request)
    PROVE  CallsInv'
<1>1. PICK ok \in BOOLEAN :
        /\ Respond(request, ok)
        /\ ledger' = ledger \/ ledger' = Append(ledger, Entry(request))
        /\ ok => ledger' = Append(ledger, Entry(request))
        /\ ledger' # ledger => ok \/ request.id \in failures'
        /\ failures \subseteq failures'
  BY DEF Handle, Deny, Reject, Serve, ServeUnrecorded
<1>2. /\ request \in Requests /\ request.id \in Nat /\ 1 <= request.id /\ request.id <= calls
      /\ Entry(request) \in Entries /\ Entry(request).id = request.id
      /\ \A i \in DOMAIN ledger : ledger[i].id # request.id
      /\ ledger \in Seq(Entries)
  BY EntryId DEF CallsInv, CallsTyped, InboxNumbered, ServedGone, Requests, Entries
<1>3. /\ inbox' = inbox \ {request} /\ calls' = calls
      /\ answer' = IF request.waiting THEN [id |-> request.id, ok |-> ok] ELSE answer
  BY <1>1 DEF Respond
<1>4. \A r \in inbox' : r \in inbox /\ r.id # request.id
  BY <1>3 DEF CallsInv, InboxNumbered
<1>5. CASE ledger' # ledger
  <2>1. /\ DOMAIN ledger' = DOMAIN ledger \cup {Len(ledger) + 1}
        /\ ledger'[Len(ledger) + 1].id = request.id
        /\ \A i \in DOMAIN ledger : ledger'[i] = ledger[i] /\ i # Len(ledger) + 1
        /\ ledger' \in Seq(Entries)
    <3>1. ledger' = Append(ledger, Entry(request))
      BY <1>1, <1>5
    <3> QED
      BY <1>2, <3>1
  <2>2. CallsTyped' /\ InboxNumbered'
    BY <1>2, <1>3, <1>4, <2>1 DEF CallsInv, CallsTyped, InboxNumbered
  <2>3. ServedGone'
    BY <1>2, <1>3, <1>4, <2>1 DEF CallsInv, ServedGone
  <2>4. AnswersMatchLedger'
    BY <1>1, <1>2, <1>3, <1>5, <2>1 DEF CallsInv, ServedGone, AnswersMatchLedger
  <2> QED
    BY <2>2, <2>3, <2>4 DEF CallsInv
<1>6. CASE ledger' = ledger
  <2>1. ~ok
    <3>1. Len(Append(ledger, Entry(request))) = Len(ledger) + 1 /\ Len(ledger) \in Nat
      BY <1>2
    <3> QED
      BY <1>1, <1>6, <3>1
  <2>2. CallsTyped' /\ InboxNumbered'
    BY <1>2, <1>3, <1>4, <1>6 DEF CallsInv, CallsTyped, InboxNumbered
  <2>3. ServedGone'
    BY <1>2, <1>3, <1>4, <1>6 DEF CallsInv, ServedGone
  <2>4. AnswersMatchLedger'
    BY <1>1, <1>2, <1>3, <1>6, <2>1 DEF CallsInv, AnswersMatchLedger
  <2> QED
    BY <2>2, <2>3, <2>4 DEF CallsInv
<1> QED
  BY <1>5, <1>6

(* A call that is given up keeps its number.                               *)
LEMMA GiveUpCounted ==
    ASSUME CallsInv, NEW request \in inbox, GiveUp(request)
    PROVE  CallsInv'
<1> DEFINE left == [request EXCEPT !.waiting = FALSE]
<1>1. inbox' = (inbox \ {request}) \cup {left} /\ UNCHANGED <<calls, ledger, answer, failures>>
  BY DEF GiveUp, LeftBehind
<1>2. left \in Requests /\ left.id = request.id
  BY DEF CallsInv, CallsTyped, Requests
<1> HIDE DEF left
<1>3. \A r \in inbox' : \E s \in inbox : s.id = r.id /\ (r = left \/ r = s)
  BY <1>1, <1>2
<1>4. CallsTyped'
  BY <1>1, <1>2 DEF CallsInv, CallsTyped
<1>5. InboxNumbered'
  BY <1>1, <1>2 DEF CallsInv, InboxNumbered
<1>6. ServedGone' /\ AnswersMatchLedger'
  BY <1>1, <1>3 DEF CallsInv, ServedGone, AnswersMatchLedger
<1> QED
  BY <1>4, <1>5, <1>6 DEF CallsInv

(* No call is put into the inbox or the ledger by anything else.           *)
LEMMA ProcessCounted ==
    ASSUME CallsInv,
           ReplaceProcess \/ Ready \/ InstallTools \/ Resume \/ Rest \/ UNCHANGED vars
    PROVE  CallsInv'
<1>1. inbox' \subseteq inbox /\ UNCHANGED <<calls, ledger, answer, failures>>
  BY DEF ReplaceProcess, Ready, InstallTools, Resume, Rest, vars
<1> QED
  BY <1>1 DEF CallsInv, CallsTyped, InboxNumbered, ServedGone, AnswersMatchLedger

(* Both invariants together are inductive.                                 *)
LEMMA CallsNext == ASSUME TypeInv, CallsInv, [Next]_vars PROVE CallsInv'
BY CallCounted, HandleCounted, GiveUpCounted, ProcessCounted DEF Next

LEMMA AlwaysBoth == Spec => [](TokenInv /\ CallsInv)
<1>1. ASSUME TokenInv /\ CallsInv, [Next]_vars PROVE (TokenInv /\ CallsInv)'
  BY <1>1, TokenNext, CallsNext DEF TokenInv, CallsInv
<1> QED
  BY <1>1, TokenInit, CallsInit, PTL DEF Spec

(* Once a new process has its generation, no call of an earlier one has an *)
(* effect, however late it is served.                                      *)
THEOREM OldProcessPowerless == Spec => OldProcessActsNoMore
<1>1. ASSUME TokenInv, CallsInv, [Next]_vars
      PROVE  [ledger' # ledger => Last(ledger').process = owner]_vars
  BY <1>1, ServedByOwner DEF CallsInv
<1> QED
  BY <1>1, AlwaysBoth, PTL DEF Spec, OldProcessActsNoMore

(* What a caller was told of its call is what the ledger has of it, and no *)
(* call has two effects, however late it is served.                        *)
THEOREM AnswersKept == Spec => []AnswersMatchLedger
<1>1. CallsInv => AnswersMatchLedger
  BY DEF CallsInv
<1> QED
  BY <1>1, AlwaysBoth, PTL

-----------------------------------------------------------------------------
(* The todo list and its replay.  The loop over the entries is a recursive *)
(* function; that it computes one step per entry follows by induction.     *)

(* A set of naturals that holds 0 and, with each number, the next, holds   *)
(* all.                                                                    *)
LEMMA SetInduction ==
    ASSUME NEW T, 0 \in T, \A n \in Nat : n \in T => n + 1 \in T
    PROVE  Nat \subseteq T
<1> SUFFICES ASSUME Nat \ T # {} PROVE FALSE
  OBVIOUS
<1> DEFINE R == {p \in Nat \X Nat : p[1] < p[2]}
<1>1. IsWellFoundedOn(R, Nat)
  <2>1. OpToRel(<, Nat) = R
    BY DEF OpToRel
  <2> QED
    BY <2>1, NatLessThanWellFounded
<1>2. PICK x \in Nat \ T : \A y \in Nat \ T : ~(<<y, x>> \in R)
  <2>1. (Nat \ T) \in SUBSET Nat
    OBVIOUS
  <2> HIDE DEF R
  <2> QED
    BY <1>1, <2>1, WFMin
<1>3. x # 0 /\ x - 1 \in Nat /\ x - 1 < x /\ (x - 1) + 1 = x
  BY <1>2
<1>4. <<x - 1, x>> \in R
  BY <1>3
<1>5. x - 1 \in T
  <2> HIDE DEF R
  <2> QED
    BY <1>2, <1>3, <1>4
<1> QED
  BY <1>2, <1>3, <1>5

(* The states the replay of a file goes through.                           *)
States(entries) ==
    CHOOSE g : g = [n \in 0 .. Len(entries) |->
                       IF n = 0 THEN <<>> ELSE Replay(g[n - 1], entries[n])]

Step(g, entries, n) == g[n] = Replay(g[n - 1], entries[n])

(* There are such states.                                                  *)
LEMMA StatesFollow ==
    ASSUME NEW entries, Len(entries) \in Nat
    PROVE  /\ TodoState(entries) = States(entries)[Len(entries)]
           /\ States(entries)[0] = <<>>
           /\ \A n \in 1 .. Len(entries) : Step(States(entries), entries, n)
<1> DEFINE L == Len(entries)
           Upto(g, n) == /\ DOMAIN g = 0 .. n
                         /\ g = [m \in 0 .. n |-> g[m]]
                         /\ g[0] = <<>>
                         /\ \A m \in 1 .. n : Step(g, entries, m)
           T == {n \in Nat : \E g : Upto(g, n)}
<1>1. 0 \in T
  <2>1. Upto([m \in 0 .. 0 |-> <<>>], 0)
    OBVIOUS
  <2> QED
    BY <2>1
<1>2. ASSUME NEW n \in Nat, n \in T PROVE n + 1 \in T
  <2>1. PICK g : Upto(g, n)
    BY <1>2
  <2> DEFINE h == [m \in 0 .. n + 1 |-> IF m <= n THEN g[m] ELSE Replay(g[n], entries[n + 1])]
  <2>2. DOMAIN h = 0 .. n + 1 /\ h = [m \in 0 .. n + 1 |-> h[m]] /\ h[0] = <<>>
    BY <2>1
  <2>3. ASSUME NEW m \in 1 .. n + 1 PROVE Step(h, entries, m)
    <3>1. CASE m = n + 1
      <4>1. h[m] = Replay(g[n], entries[n + 1]) /\ h[m - 1] = g[n]
        BY <3>1
      <4> QED
        BY <3>1, <4>1 DEF Step
    <3>2. CASE m # n + 1
      <4>1. m \in 1 .. n /\ h[m] = g[m] /\ h[m - 1] = g[m - 1]
        BY <2>3, <3>2
      <4> HIDE DEF h
      <4> QED
        BY <2>1, <4>1 DEF Step
    <3> QED
      BY <3>1, <3>2
  <2>4. Upto(h, n + 1)
    BY <2>2, <2>3
  <2> QED
    BY <2>4
<1>3. PICK g : Upto(g, L)
  <2>1. Nat \subseteq T
    <3> HIDE DEF T
    <3> QED
      BY <1>1, <1>2, SetInduction
  <2> QED
    BY <2>1
<1> DEFINE Loop(f) == [n \in 0 .. L |-> IF n = 0 THEN <<>> ELSE Replay(f[n - 1], entries[n])]
<1>4. g = Loop(g)
  <2>1. ASSUME NEW n \in 0 .. L PROVE g[n] = Loop(g)[n]
    <3>1. CASE n = 0
      BY <1>3, <3>1
    <3>2. CASE n # 0
      <4>1. n \in 1 .. L /\ Loop(g)[n] = Replay(g[n - 1], entries[n])
        BY <3>2
      <4> QED
        BY <1>3, <4>1 DEF Step
    <3> QED
      BY <3>1, <3>2
  <2> QED
    BY <1>3, <2>1
<1> DEFINE c == CHOOSE f : f = Loop(f)
<1>5. c = Loop(c)
  <2> HIDE DEF Loop
  <2> QED
    BY <1>4
<1>6. c = States(entries) /\ TodoState(entries) = c[L]
  BY DEF States, TodoState
<1> HIDE DEF c
<1>7. c[0] = <<>> /\ \A n \in 1 .. L : Step(c, entries, n)
  BY <1>5 DEF Step
<1> QED
  BY <1>6, <1>7

(* session_jsonl.py:126-142: one more entry is one more step.              *)
LEMMA TodoStateNext ==
    ASSUME NEW S, NEW entries \in Seq(S), NEW e \in S
    PROVE  /\ TodoState(<<>>) = <<>>
           /\ TodoState(Append(entries, e)) = Replay(TodoState(entries), e)
<1> DEFINE L == Len(entries)
           more == Append(entries, e)
<1>1. /\ L \in Nat /\ Len(more) = L + 1 /\ more[L + 1] = e
      /\ \A n \in 1 .. L : more[n] = entries[n]
  OBVIOUS
<1> HIDE DEF more
<1>2. /\ TodoState(entries) = States(entries)[L]
      /\ States(entries)[0] = <<>>
      /\ \A n \in 1 .. L : Step(States(entries), entries, n)
  BY <1>1, StatesFollow
<1>3. /\ TodoState(more) = States(more)[L + 1]
      /\ States(more)[0] = <<>>
      /\ \A n \in 1 .. L + 1 : Step(States(more), more, n)
  BY <1>1, StatesFollow
<1> DEFINE U == {n \in Nat : n <= L => States(more)[n] = States(entries)[n]}
<1>4. 0 \in U
  BY <1>2, <1>3
<1>5. ASSUME NEW n \in Nat, n \in U, n + 1 <= L
      PROVE  States(more)[n + 1] = States(entries)[n + 1]
  <2>1. n + 1 \in 1 .. L /\ n + 1 \in 1 .. L + 1 /\ (n + 1) - 1 = n
    BY <1>1, <1>5
  <2>2. States(more)[n] = States(entries)[n]
    BY <1>1, <1>5
  <2> QED
    BY <1>1, <1>2, <1>3, <2>1, <2>2 DEF Step
<1>6. \A n \in Nat : n \in U => n + 1 \in U
  BY <1>5
<1>7. States(more)[L] = States(entries)[L]
  <2>1. Nat \subseteq U
    <3> HIDE DEF U
    <3> QED
      BY <1>4, <1>6, SetInduction
  <2> QED
    BY <1>1, <2>1
<1>8. TodoState(more) = Replay(TodoState(entries), e)
  <2>1. L + 1 \in 1 .. L + 1 /\ (L + 1) - 1 = L
    BY <1>1
  <2> QED
    BY <1>1, <1>2, <1>3, <1>7, <2>1 DEF Step
<1>9. TodoState(<<>>) = <<>>
  <2>1. Len(<<>>) = 0
    OBVIOUS
  <2> QED
    BY <2>1, StatesFollow
<1> QED
  BY <1>8, <1>9 DEF more

(* The list: a dict has a name once.                                       *)
Tasks == [name : Names, status : Statuses]

Listed ==
    /\ todos \in Seq(Tasks)
    /\ \A i, j \in DOMAIN todos : todos[i].name = todos[j].name => i = j

TodosInv == Listed /\ TodoState(ledger) = todos

(* todo.py:45-84 and session_jsonl.py:126-142: what a call makes of the    *)
(* list, the replay makes of its entry.                                    *)
LEMMA ServedAsReplayed ==
    ASSUME Listed, NEW request \in Requests, ~Raises(request.arguments)
    PROVE  /\ TasksAfter(request.arguments) = Replay(todos, Entry(request))
           /\ todos' = TasksAfter(request.arguments) => Listed'
<1> DEFINE args == request.arguments
           e == Entry(request)
<1>1. args \in Arguments
  BY DEF Requests
<1>2. CASE args.op = "clear"
  <2>1. e.op = "clear" /\ TasksAfter(args) = <<>>
    BY <1>2 DEF Entry, TasksAfter
  <2>2. Replay(todos, e) = <<>>
    BY <2>1 DEF Replay
  <2>3. todos' = <<>> => Listed'
    <3>1. <<>> \in Seq(Tasks)
      OBVIOUS
    <3> QED
      BY <3>1 DEF Listed
  <2> QED
    BY <2>1, <2>2, <2>3
<1>3. CASE args.op # "clear"
  <2>1. /\ args \in [op : {"create", "update"}, name : Names, status : Statuses]
        /\ args.op \in {"create", "update"} /\ args.name \in Names /\ args.status \in Statuses
    BY <1>1, <1>3 DEF Arguments
  <2>2. e.op = args.op /\ e.name = args.name /\ e.status = args.status
    BY <1>3 DEF Entry
  <2>3. TasksAfter(args) = Store(todos, args.name, args.status)
    BY <1>3 DEF TasksAfter
  <2> DEFINE task == Task(args.name, args.status)
  <2>4. task \in Tasks /\ task.name = args.name
        /\ task.status = args.status
    BY <2>1 DEF Task, Tasks
  <2>5. CASE ~Has(todos, args.name)
    <3>1. TasksAfter(args) = Append(todos, task) /\ Replay(todos, e) = Append(todos, task)
      BY <1>3, <2>1, <2>2, <2>3, <2>5 DEF Store, Replay
    <3>2. ASSUME todos' = Append(todos, task) PROVE Listed'
      <4>1. /\ todos' \in Seq(Tasks)
            /\ DOMAIN todos' = DOMAIN todos \cup {Len(todos) + 1}
            /\ todos'[Len(todos) + 1] = task
            /\ \A i \in DOMAIN todos : todos'[i] = todos[i]
        <5> HIDE DEF task
        <5> QED
          BY <2>4, <3>2 DEF Listed
      <4>2. \A i \in DOMAIN todos : todos[i].name # args.name
        BY <2>5 DEF Has
      <4> HIDE DEF task
      <4> QED
        BY <2>4, <4>1, <4>2 DEF Listed
    <3> QED
      BY <3>1, <3>2
  <2>6. CASE Has(todos, args.name)
    <3>1. PICK k \in DOMAIN todos : todos[k].name = args.name
      BY <2>6 DEF Has
    <3>2. \A i \in DOMAIN todos : todos[i].name = args.name <=> i = k
      BY <3>1 DEF Listed
    <3>3. (CHOOSE i \in DOMAIN todos : todos[i].name = args.name) = k
      BY <3>1, <3>2
    <3> DEFINE stored == [i \in DOMAIN todos |->
                              IF todos[i].name = args.name THEN task ELSE todos[i]]
    <3>4. Replay(todos, e) = [todos EXCEPT ![k].status = args.status]
      BY <1>3, <2>1, <2>2, <2>6, <3>3 DEF Replay
    <3>5. [todos[k] EXCEPT !.status = args.status] = task
      <4>1. todos[k] \in [name : Names, status : Statuses]
        <5>1. todos[k] \in Tasks
          BY <3>1 DEF Listed
        <5> QED
          BY <5>1 DEF Tasks
      <4> DEFINE new == [todos[k] EXCEPT !.status = args.status]
      <4>2. /\ new = [name |-> new.name, status |-> new.status]
            /\ new.name = todos[k].name /\ new.status = args.status
        BY <4>1
      <4> QED
        BY <3>1, <4>2 DEF Task
    <3>6. Replay(todos, e) = [i \in DOMAIN todos |-> IF i = k THEN task ELSE todos[i]]
      <4> HIDE DEF task
      <4> QED
        BY <3>1, <3>4, <3>5 DEF Listed
    <3>7. stored = [i \in DOMAIN todos |-> IF i = k THEN task ELSE todos[i]]
      BY <3>2
    <3>8. TasksAfter(args) = stored
      BY <2>3, <2>6 DEF Store
    <3>9. ASSUME todos' = stored PROVE Listed'
      <4>1. /\ todos' \in Seq(Tasks)
            /\ DOMAIN todos' = DOMAIN todos
            /\ \A i \in DOMAIN todos : todos'[i].name = todos[i].name
        <5> HIDE DEF task
        <5> QED
          BY <2>4, <3>1, <3>7, <3>9 DEF Listed
      <4> QED
        BY <4>1 DEF Listed
    <3> QED
      BY <3>6, <3>7, <3>8, <3>9
  <2> QED
    BY <2>5, <2>6
<1> QED
  BY <1>2, <1>3

(* As long as no append has failed, list and ledger move together.         *)
LEMMA TodosNext ==
    ASSUME CallsTyped, TodosInv, [Next]_vars, failures' = {}
    PROVE  TodosInv'
<1>1. CASE UNCHANGED <<todos, ledger>>
  <2>1. TodoState(ledger') = TodoState(ledger)
    BY <1>1
  <2> QED
    BY <1>1, <2>1 DEF TodosInv, Listed
<1>2. ASSUME NEW request \in inbox, Serve(request) PROVE TodosInv'
  <2>1. /\ ~Raises(request.arguments) /\ request \in Requests
        /\ todos' = TasksAfter(request.arguments) /\ ledger' = Append(ledger, Entry(request))
        /\ ledger \in Seq(Entries) /\ Entry(request) \in Entries
    BY <1>2 DEF Serve, CallsTyped, Entries
  <2>2. TodoState(ledger') = Replay(TodoState(ledger), Entry(request))
    BY <2>1, TodoStateNext
  <2> QED
    BY <2>1, <2>2, ServedAsReplayed DEF TodosInv
<1>3. CASE Resume
  <2>1. ledger' = ledger /\ todos' = TodoState(ledger)
    BY <1>3 DEF Resume
  <2> QED
    BY <1>1, <2>1 DEF TodosInv
<1> QED
  BY <1>1, <1>2, <1>3
  DEF Next, vars, Call, Handle, GiveUp, Deny, Reject, ServeUnrecorded, ReplaceProcess, Ready,
      InstallTools, Rest

(* A failed append is never forgotten.                                     *)
LEMMA FailuresCounted ==
    ASSUME [Next]_vars
    PROVE  failures' = {} => failures = {}
BY DEF Next, vars, Call, Handle, GiveUp, Deny, Reject, Serve, ServeUnrecorded, Respond,
       ReplaceProcess, Ready, InstallTools, Resume, Rest

(* todo.py and session_jsonl.py:126-142, PLAN 15.3: whatever was called,   *)
(* served late, denied or cut off by a stop, a session resumed now would   *)
(* start with the list the kernel sees, in its order, unless an append has *)
(* failed.                                                                 *)
THEOREM TodosSurvive == Spec => []ResumedTodosMatch
<1> DEFINE Inv == failures = {} => TodosInv
<1>1. Init => Inv
  <2> SUFFICES ASSUME Init PROVE Inv
    OBVIOUS
  <2>1. todos = <<>> /\ ledger = <<>>
    BY DEF Init
  <2>2. TodoState(ledger) = <<>>
    <3>1. <<>> \in Seq({0}) /\ 0 \in {0}
      OBVIOUS
    <3> QED
      BY <2>1, <3>1, TodoStateNext
  <2> QED
    BY <2>1, <2>2 DEF TodosInv, Listed
<1>2. CallsInv /\ Inv /\ [Next]_vars => Inv'
  <2> SUFFICES ASSUME CallsInv, Inv, [Next]_vars PROVE Inv'
    OBVIOUS
  <2>1. failures' = {} => failures = {}
    BY FailuresCounted
  <2> QED
    BY <2>1, TodosNext DEF CallsInv
<1>3. Inv => ResumedTodosMatch
  BY DEF TodosInv, ResumedTodosMatch
<1> QED
  BY <1>1, <1>2, <1>3, AlwaysBoth, PTL DEF Spec

=============================================================================
