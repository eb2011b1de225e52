----------------------------- MODULE StartupProofs -----------------------------
(***************************************************************************)
(* Proofs about the start and the end of the program: Application, for any *)
(* number of prompts and of Ctrl-C's; CodexLogin, for any number of starts *)
(* and credentials; Discovery, for any file system.  The specifications    *)
(* are independent of each other.                                          *)
(***************************************************************************)
EXTENDS Application, CodexLogin, Discovery, SequenceTheorems, FiniteSetTheorems,
        WellFoundedInduction, TLAPS

(* A thread reads the terminal exactly while a prompt waits for it, or is  *)
(* left from a prompt that was cancelled, and then no prompt follows.      *)
ReaderInv ==
    /\ readers \in {0, 1}
    /\ stage \in {"prompt", "asking"} => readers = 1
    /\ readers = 1 => stage \in {"prompt", "asking", "stopping", "closing", "over"}

LEMMA ReaderInit == Init => ReaderInv
BY DEF Init, ReaderInv

LEMMA ReaderStep == ReaderInv /\ [Next]_vars => ReaderInv'
<1> SUFFICES ASSUME ReaderInv, [Next]_vars PROVE ReaderInv'
  OBVIOUS
<1> USE DEF ReaderInv, resources, Main, GoTo, Leave, AskLine
<1>1. CASE RunStep
  <2>1. CASE Configure \/ Login \/ Serve \/ Spawn \/ Ready \/ BootFails
    BY <2>1 DEF Configure, Login, Serve, Spawn, Ready, BootFails
  <2>2. CASE Installed \/ Recovered
    BY <2>2 DEF Installed, Recovered
  <2>3. CASE Shutdown \/ ShutdownFails
    <3>1. readers' = readers /\ stage = "stopping" /\ stage' \in {"closing", "over"}
      BY <2>3 DEF Shutdown, ShutdownFails
    <3> QED
      BY <3>1
  <2>4. CASE Closed \/ Close \/ Exit
    BY <2>4 DEF Closed, Close, Exit, Idle
  <2> QED
    BY <1>1, <2>1, <2>2, <2>3, <2>4 DEF RunStep
<1>2. CASE RecoveryStep
  BY <1>2 DEF RecoveryStep, Obeyed, GraceOver, Respawn
<1>3. CASE Answered \/ ReadLine \/ RunOver \/ StartCell \/ CellEnds \/ Deadline
  BY <1>3 DEF Answered, ReadLine, RunOver, StartCell, CellEnds, Deadline
<1>4. CASE PeerSpeaks \/ ReadTimesOut \/ JoinGivesUp \/ LineForNobody \/ Terminated
  BY <1>4 DEF PeerSpeaks, ReadTimesOut, ConnectionGoes, JoinGivesUp, LineForNobody,
              Terminated, Idle, vars
<1>5. ASSUME NEW second \in BOOLEAN, CancelMain(second) PROVE ReaderInv'
  BY <1>5 DEF CancelMain, CancelStart, CancelPrompt, CancelRun, CancelFinally
<1>6. CASE Press
  BY <1>5, <1>6 DEF Press, Idle
<1>7. CASE UNCHANGED vars
  BY <1>7 DEF vars
<1> QED
  BY <1>1, <1>2, <1>3, <1>4, <1>6, <1>7 DEF Next

(* At most one thread reads the terminal (application.py 198-201): what    *)
(* the user types is read for the prompt that asks.                        *)
THEOREM OnePromptReads == Spec => []OneReader
<1>1. Spec => []ReaderInv
  BY ReaderInit, ReaderStep, PTL DEF Spec
<1>2. ReaderInv => OneReader
  BY DEF ReaderInv, OneReader
<1> QED
  BY <1>1, <1>2, PTL

-----------------------------------------------------------------------------

Stages == {"starting", "login", "asking", "serving", "spawning", "booting", "installing",
           "prompt", "working", "cell", "recovering", "stopping", "closing", "over"}
RunnerStates == {"running", "cancelling", "joining", "exiting", "exited"}
Places == Stages \cup RunnerStates

ServerAtRisk == {"serving", "stopping"}

(* When the server may be open, as long as neither a Ctrl-C nor a failing  *)
(* shutdown came between its start and its close.                          *)
ServerAt ==
    stage \in {"starting", "login", "asking", "serving", "closing", "over"} => ~server

(* What there is of the interpreter, as long as nothing came between its   *)
(* start, or its replacement, and its end.                                 *)
KernelAt ==
    /\ stage \in {"starting", "login", "asking", "serving", "spawning", "closing", "over"}
           => ~interpreter /\ ~manager
    /\ stage = "booting" => ~manager
    /\ stage \in {"installing", "prompt", "working", "cell", "recovering"} => manager
    /\ stage = "stopping" => (interpreter => manager)
    /\ recovery # "none" => stage = "recovering"
    /\ stage = "recovering" /\ ~overdue => Pressed({"cell"})

ClosedInv ==
    /\ presses \in Seq(Places)
    /\ stage \in Stages /\ runner \in RunnerStates
    /\ interpreter \in BOOLEAN /\ manager \in BOOLEAN
    /\ server \in BOOLEAN /\ overdue \in BOOLEAN
    /\ ~Disturbed(ServerAtRisk) => ServerAt
    /\ ~Disturbed(KernelAtRisk) => KernelAt

(* A Ctrl-C adds the place where it fell, and no other is forgotten.       *)
LEMMA PressesGrow ==
  ASSUME presses \in Seq(Places), NEW at \in Places, presses' = Append(presses, at), NEW S
  PROVE  /\ presses' \in Seq(Places)
         /\ Pressed(S) => Pressed(S)'
         /\ at \in S => Pressed(S)'
<1>1. Len(presses') = Len(presses) + 1 /\ presses' \in Seq(Places)
  OBVIOUS
<1>2. \A i \in 1..Len(presses) : presses'[i] = presses[i]
  OBVIOUS
<1>3. presses'[Len(presses')] = at
  BY <1>1
<1> QED
  BY <1>1, <1>2, <1>3 DEF Pressed

LEMMA ClosedInit == Init => ClosedInv
<1> SUFFICES ASSUME Init PROVE ClosedInv
  OBVIOUS
<1>1. presses \in Seq(Places) /\ stage \in Stages /\ runner \in RunnerStates
  BY DEF Init, Stages, RunnerStates
<1>2. ServerAt /\ KernelAt
  BY DEF Init, ServerAt, KernelAt
<1> QED
  BY <1>1, <1>2 DEF Init, ClosedInv

LEMMA ClosedStep == ClosedInv /\ [Next]_vars => ClosedInv'
<1> SUFFICES ASSUME ClosedInv, [Next]_vars PROVE ClosedInv'
  OBVIOUS
<1> USE DEF ClosedInv, ServerAt, KernelAt, Stages, RunnerStates, resources, Main, GoTo, Leave,
            AskLine
<1>0. UNCHANGED presses /\ (Cleaned \/ LeftOpen) =>
          /\ Disturbed(ServerAtRisk) => Disturbed(ServerAtRisk)'
          /\ Disturbed(KernelAtRisk) => Disturbed(KernelAtRisk)'
          /\ stage \in ServerAtRisk /\ LeftOpen => Disturbed(ServerAtRisk)'
          /\ stage \in KernelAtRisk /\ LeftOpen => Disturbed(KernelAtRisk)'
          /\ Pressed({"cell"})' = Pressed({"cell"})
  <2> SUFFICES ASSUME UNCHANGED presses, unclean \subseteq unclean'
               PROVE  /\ Disturbed(ServerAtRisk) => Disturbed(ServerAtRisk)'
                      /\ Disturbed(KernelAtRisk) => Disturbed(KernelAtRisk)'
                      /\ stage \in ServerAtRisk /\ LeftOpen => Disturbed(ServerAtRisk)'
                      /\ stage \in KernelAtRisk /\ LeftOpen => Disturbed(KernelAtRisk)'
                      /\ Pressed({"cell"})' = Pressed({"cell"})
    BY DEF Cleaned, LeftOpen
  <2> QED
    BY DEF Disturbed, Pressed, LeftOpen, ServerAtRisk, KernelAtRisk
<1>1. CASE RunStep
  <2>1. CASE Configure
    BY <1>0, <2>1 DEF Configure
  <2>2. CASE Login
    BY <1>0, <2>2 DEF Login
  <2>3. CASE Serve
    <3>1. ~Disturbed(ServerAtRisk)' => ServerAt'
      BY <1>0, <2>3 DEF Serve
    <3>2. ~Disturbed(KernelAtRisk)' => KernelAt'
      BY <1>0, <2>3 DEF Serve
    <3>3. stage' \in Stages /\ server' \in BOOLEAN
      BY <2>3 DEF Serve
    <3> QED
      BY <2>3, <3>1, <3>2, <3>3 DEF Serve
  <2>4. CASE Ready
    BY <1>0, <2>4 DEF Ready
  <2>5. CASE Spawn
    <3>1. UNCHANGED presses /\ (Cleaned \/ LeftOpen)
      BY <2>5 DEF Spawn
    <3>2. ~Disturbed(KernelAtRisk)' => KernelAt'
      <4>1. CASE LeftOpen
        BY <1>0, <2>5, <3>1, <4>1 DEF Spawn, KernelAtRisk
      <4>2. CASE stage' = "booting" /\ interpreter' = TRUE
        BY <1>0, <2>5, <3>1, <4>2 DEF Spawn
      <4>3. CASE stage' = "stopping" /\ UNCHANGED interpreter
        BY <1>0, <2>5, <3>1, <4>3 DEF Spawn
      <4> QED
        BY <2>5, <4>1, <4>2, <4>3 DEF Spawn
    <3>3. ~Disturbed(ServerAtRisk)' => ServerAt'
      BY <1>0, <2>5, <3>1 DEF Spawn
    <3>4. stage' \in Stages /\ interpreter' \in BOOLEAN
      BY <2>5 DEF Spawn
    <3> QED
      BY <2>5, <3>1, <3>2, <3>3, <3>4 DEF Spawn
  <2>6. CASE BootFails
    <3>1. stage \in KernelAtRisk /\ UNCHANGED presses /\ (Cleaned \/ LeftOpen)
      BY <2>6 DEF BootFails, KernelAtRisk
    <3> QED
      BY <1>0, <2>6, <3>1 DEF BootFails
  <2>7. CASE Installed \/ Recovered
    BY <1>0, <2>7 DEF Installed, Recovered
  <2>8. CASE Shutdown
    BY <1>0, <2>8 DEF Shutdown
  <2>9. CASE ShutdownFails
    <3>1. Disturbed(ServerAtRisk)' /\ Disturbed(KernelAtRisk)'
      BY <1>0, <2>9 DEF ShutdownFails, ServerAtRisk, KernelAtRisk
    <3> QED
      BY <2>9, <3>1 DEF ShutdownFails
  <2>10. CASE Closed \/ Close \/ Exit
    BY <1>0, <2>10 DEF Closed, Close, Exit, Idle, Cleaned
  <2> QED
    BY <1>1, <2>1, <2>2, <2>3, <2>4, <2>5, <2>6, <2>7, <2>8, <2>9, <2>10 DEF RunStep
<1>2. CASE RecoveryStep
  <2>1. CASE Obeyed
    <3>1. UNCHANGED <<stage, manager, interpreter, server, overdue, runner, presses>> /\ Cleaned
      BY <2>1 DEF Obeyed, Cleaned
    <3>2. recovery # "none" /\ recovery' = "none"
      BY <2>1 DEF Obeyed
    <3>3. ~Disturbed(ServerAtRisk)' => ServerAt'
      BY <1>0, <3>1
    <3>4. ~Disturbed(KernelAtRisk)' => KernelAt'
      BY <1>0, <3>1, <3>2
    <3> QED
      BY <3>1, <3>3, <3>4
  <2>2. CASE GraceOver
    <3>1. UNCHANGED <<stage, manager, server, overdue, runner, presses>> /\ Cleaned
      BY <2>2 DEF GraceOver, Cleaned
    <3>2. recovery = "waiting" /\ recovery' = "replacing" /\ interpreter' = FALSE
      BY <2>2 DEF GraceOver
    <3>3. ~Disturbed(ServerAtRisk)' => ServerAt'
      BY <1>0, <3>1
    <3>4. ~Disturbed(KernelAtRisk)' => KernelAt'
      BY <1>0, <3>1, <3>2
    <3> QED
      BY <3>1, <3>2, <3>3, <3>4
  <2>3. CASE Respawn
    <3>1. UNCHANGED <<stage, manager, server, overdue, runner, presses>> /\ Cleaned
      BY <2>3 DEF Respawn, Cleaned
    <3>2. recovery # "none" /\ recovery' = "none" /\ interpreter' \in BOOLEAN
      BY <2>3 DEF Respawn
    <3>3. ~Disturbed(ServerAtRisk)' => ServerAt'
      BY <1>0, <3>1
    <3>4. ~Disturbed(KernelAtRisk)' => KernelAt'
      BY <1>0, <3>1, <3>2
    <3> QED
      BY <3>1, <3>2, <3>3, <3>4
  <2> QED
    BY <1>2, <2>1, <2>2, <2>3 DEF RecoveryStep
<1>3. CASE Answered \/ ReadLine \/ RunOver \/ StartCell \/ CellEnds
  <2>1. CASE Answered
    BY <1>0, <2>1 DEF Answered
  <2>2. CASE ReadLine
    BY <1>0, <2>2 DEF ReadLine
  <2>3. CASE RunOver \/ StartCell
    BY <1>0, <2>3 DEF RunOver, StartCell
  <2>4. CASE CellEnds
    BY <1>0, <2>4 DEF CellEnds
  <2> QED
    BY <1>3, <2>1, <2>2, <2>3, <2>4
<1>4. CASE Deadline
  <2>1. UNCHANGED presses /\ Cleaned
    BY <1>4 DEF Deadline
  <2>2. HasDeadline /\ Pressed({"cell"}) => Disturbed(KernelAtRisk)
    BY DEF Disturbed, Pressed, KernelAtRisk
  <2>3. ~Disturbed(ServerAtRisk)' => ServerAt'
    BY <1>0, <1>4, <2>1 DEF Deadline
  <2>4. ~Disturbed(KernelAtRisk)' => KernelAt'
    BY <1>0, <1>4, <2>1, <2>2 DEF Deadline
  <2>5. stage' \in Stages
    BY <1>4 DEF Deadline
  <2> QED
    BY <1>4, <2>3, <2>4, <2>5 DEF Deadline
<1>5. CASE PeerSpeaks \/ ReadTimesOut \/ JoinGivesUp \/ LineForNobody \/ Terminated
  BY <1>0, <1>5 DEF PeerSpeaks, ReadTimesOut, ConnectionGoes, JoinGivesUp, LineForNobody,
              Terminated, Idle, vars, Cleaned
<1>6. CASE Press
  <2> DEFINE at == IF LoopRuns THEN stage ELSE runner
  <2>1. /\ presses' \in Seq(Places)
        /\ \A S : Pressed(S) => Pressed(S)'
        /\ \A S : at \in S => Pressed(S)'
    BY <1>6, PressesGrow DEF Press, Places
  <2>2. UNCHANGED unclean
    BY <1>6 DEF Press, CancelMain, Cleaned, Idle
  <2>3. \A S : (Disturbed(S) => Disturbed(S)') /\ (at \in S => Disturbed(S)')
    BY <2>1, <2>2 DEF Disturbed
  <2>4. ASSUME NEW second \in BOOLEAN, CancelMain(second), LoopRuns, runner' \in RunnerStates
        PROVE  ClosedInv'
    <3>0. \A S : stage \in S => Disturbed(S)'
      BY <2>3, <2>4
    <3>1. CASE stage \in {"login", "asking", "installing"}
      BY <2>1, <2>3, <2>4, <3>1 DEF CancelMain, CancelStart, CancelPrompt, CancelRun, CancelFinally
    <3>2. CASE stage \in {"spawning", "booting", "recovering"}
      <4>1. Disturbed(KernelAtRisk)'
        BY <3>0, <3>2 DEF KernelAtRisk
      <4> QED
        BY <2>1, <2>3, <2>4, <3>2, <4>1
           DEF CancelMain, CancelStart, CancelPrompt, CancelRun, CancelFinally
    <3>3. CASE stage = "serving"
      <4>1. Disturbed(ServerAtRisk)'
        BY <3>0, <3>3 DEF ServerAtRisk
      <4> QED
        BY <2>1, <2>3, <2>4, <3>3, <4>1
           DEF CancelMain, CancelStart, CancelPrompt, CancelRun, CancelFinally
    <3>4. CASE stage = "stopping"
      <4>1. Disturbed(ServerAtRisk)' /\ Disturbed(KernelAtRisk)'
        BY <3>0, <3>4 DEF ServerAtRisk, KernelAtRisk
      <4> QED
        BY <2>1, <2>4, <3>4, <4>1 DEF CancelMain, CancelStart, CancelPrompt, CancelRun, CancelFinally
    <3>5. CASE stage \in {"prompt", "working", "cell", "closing"}
      BY <2>1, <2>3, <2>4, <3>5 DEF CancelMain, CancelStart, CancelPrompt, CancelRun, CancelFinally
    <3> QED
      BY <2>4, <3>1, <3>2, <3>3, <3>4, <3>5
         DEF CancelMain, CancelStart, CancelPrompt, CancelRun, CancelFinally
  <2>5. ASSUME Idle, runner' \in RunnerStates PROVE ClosedInv'
    BY <2>1, <2>3, <2>5 DEF Idle
  <2>6. Idle \/ (LoopRuns /\ \E second \in BOOLEAN : CancelMain(second))
    BY <1>6 DEF Press, LoopRuns
  <2>7. runner' \in RunnerStates
    BY <1>6 DEF Press
  <2> QED
    BY <2>4, <2>5, <2>6, <2>7
<1>7. CASE UNCHANGED vars
  BY <1>0, <1>7 DEF vars, Cleaned
<1> QED
  BY <1>1, <1>2, <1>3, <1>4, <1>5, <1>6, <1>7 DEF Next

(* At whatever await run() failed or was cancelled, its interpreter is     *)
(* shut down and its server closed when it is over, unless a Ctrl-C fell   *)
(* while that resource was being opened, recovered or closed, or a call    *)
(* that should end the interpreter raised itself, as of kernel.shutdown()  *)
(* in the finally (application.py 160-211, jupyter.py 72-87, 228-238).     *)
THEOREM RunClosesWhatItOpened == Spec => []NothingLeftRunning
<1>1. Spec => []ClosedInv
  BY ClosedInit, ClosedStep, PTL DEF Spec
<1>2. ClosedInv => NothingLeftRunning
  BY DEF ClosedInv, ServerAt, KernelAt, ServerAtRisk, NothingLeftRunning
<1> QED
  BY <1>1, <1>2, PTL

-----------------------------------------------------------------------------
(* CodexLogin                                                              *)

Ages == {"fresh", "ending", "expired"}

TypeInv ==
    /\ age \in Seq(Ages)
    /\ file \in {NoFile, Empty} \cup 1 .. Len(age)
    /\ credential \in 0 .. Len(age)

(* What save() is given is new: it is numbered after what is stored, and   *)
(* the server still accepts its refresh token.                             *)
SavesNew ==
    pc \in {"creating", "opening", "writing", "completing", "replacing"} =>
        credential \in refreshable /\ credential >= 1 /\ file < credential

(* The temporary file is complete before it is renamed.                    *)
RenamesComplete == pc = "replacing" => temporary = credential

(* A refresh token is spent only for a credential that ages, and age is    *)
(* for good: a stored credential that is still fresh can be renewed.       *)
FreshIsRenewable == file >= 1 /\ age[file] = "fresh" => file \in refreshable

RefreshesStored ==
    pc = "refreshing" => file >= 1 /\ credential = file /\ age[file] # "fresh"

StoreInv ==
    /\ TypeInv /\ SavesNew /\ RenamesComplete /\ FreshIsRenewable /\ RefreshesStored
    /\ ReadyIsStored

(* Nothing is stored and nothing issued before the first start.            *)
LEMMA StoreInit == LoginInit => StoreInv
BY DEF LoginInit, StoreInv, TypeInv, SavesNew, RenamesComplete, FreshIsRenewable, RefreshesStored,
       ReadyIsStored, NoFile, Empty

(* credential() up to the server: the file decides, and is not changed.    *)
LEMMA LoginStep ==
    ASSUME StoreInv, \/ Start \/ Load \/ Paste \/ RequestDevice \/ Poll \/ PollAnswered
                     \/ DeadlinePasses \/ Request \/ Response \/ Stop \/ LoginRest
    PROVE  StoreInv'
<1> USE DEF StoreInv, TypeInv, SavesNew, RenamesComplete, FreshIsRenewable, RefreshesStored,
            ReadyIsStored, NoFile, Empty, diskVars, serverVars
<1>1. CASE Load
  BY <1>1 DEF Load, LoginMethods, NeedsRefresh, Issued, Torn
<1>2. CASE Start \/ Stop
  BY <1>2 DEF Start, Stop
<1>3. CASE Paste \/ RequestDevice \/ Request \/ Response
  BY <1>3 DEF Paste, RequestDevice, Request, Response, Goto
<1>4. CASE Poll \/ PollAnswered \/ DeadlinePasses
  BY <1>4 DEF Poll, NextPoll, PollAnswered, DeadlinePasses, Goto
<1>5. CASE LoginRest
  BY <1>5 DEF LoginRest, loginVars
<1> QED
  BY <1>1, <1>2, <1>3, <1>4, <1>5

(* The server issues a credential in place of one that is not both stored  *)
(* and fresh.                                                              *)
LEMMA IssueStep ==
    ASSUME StoreInv, pc \notin {"ready", "responding"}, NEW spent, TokenIssued(spent),
           file >= 1 /\ age[file] = "fresh" => file \notin spent
    PROVE  StoreInv'
<1> USE DEF StoreInv, TypeInv, NoFile, Empty
<1>1. /\ Len(age') = Len(age) + 1 /\ Len(age) \in Nat
      /\ age' \in Seq(Ages)
      /\ \A k \in 1 .. Len(age) : age'[k] = age[k]
  BY DEF TokenIssued, Ages
<1>2. TypeInv'
  BY <1>1 DEF TokenIssued, diskVars
<1>3. SavesNew' /\ RenamesComplete' /\ RefreshesStored' /\ ReadyIsStored'
  BY <1>1 DEF TokenIssued, diskVars, SavesNew, RenamesComplete, RefreshesStored, ReadyIsStored
<1>4. FreshIsRenewable'
  BY <1>1 DEF TokenIssued, diskVars, FreshIsRenewable
<1> QED
  BY <1>2, <1>3, <1>4

(* Exchange of a code, and refresh.                                        *)
LEMMA ServerStep == ASSUME StoreInv, Exchange \/ Refresh PROVE StoreInv'
<1>1. ASSUME NEW from, NEW to \in {"failed", "refused"}, Goto(from, to) PROVE StoreInv'
  BY <1>1 DEF Goto, diskVars, serverVars, StoreInv, TypeInv, SavesNew, RenamesComplete,
              FreshIsRenewable, RefreshesStored, ReadyIsStored
<1>2. CASE Exchange
  BY <1>1, <1>2, IssueStep DEF Exchange
<1>3. CASE Refresh
  <2>1. file \notin {credential} \/ age[file] # "fresh"
    BY <1>3 DEF Refresh, StoreInv, RefreshesStored
  <2> QED
    BY <1>1, <1>3, <2>1, IssueStep DEF Refresh
<1> QED
  BY <1>2, <1>3

(* save(), one system call at a time.                                      *)
LEMMA SaveStep ==
    ASSUME StoreInv,
           CreateFile \/ OpenTemporary \/ WritePart \/ WriteRest \/ Replace \/ SaveFails
    PROVE  StoreInv'
<1> USE DEF Save, StoreInv, TypeInv, SavesNew, RenamesComplete, FreshIsRenewable,
            RefreshesStored, ReadyIsStored, NoFile, Empty, serverVars, diskVars
<1>1. CASE CreateFile
  BY <1>1 DEF CreateFile, Created
<1>2. CASE OpenTemporary \/ WritePart \/ WriteRest
  BY <1>2 DEF OpenTemporary, WritePart, Tears, WriteRest
<1>3. CASE Replace
  BY <1>3 DEF Replace, Replaces
<1>4. CASE SaveFails
  BY <1>4 DEF SaveFails
<1> QED
  BY <1>1, <1>2, <1>3, <1>4

(* Time passes: no credential becomes fresh again.                         *)
LEMMA AgeingStep == ASSUME StoreInv, Ageing PROVE StoreInv'
<1>1. /\ age' \in Seq(Ages) /\ Len(age') = Len(age)
      /\ \A k \in 1 .. Len(age) : age'[k] = "fresh" => age[k] = "fresh"
  BY DEF Ageing, Issued, StoreInv, TypeInv, Ages
<1> QED
  BY <1>1 DEF Ageing, StoreInv, TypeInv, SavesNew, RenamesComplete, FreshIsRenewable,
              RefreshesStored, ReadyIsStored, NoFile, Empty, diskVars

(* The invariant is inductive.                                             *)
LEMMA StoreNext == ASSUME StoreInv, [LoginNext]_loginVars PROVE StoreInv'
<1>1. CASE UNCHANGED loginVars
  BY <1>1 DEF loginVars, StoreInv, TypeInv, SavesNew, RenamesComplete, FreshIsRenewable,
              RefreshesStored, ReadyIsStored, diskVars, serverVars
<1> QED
  BY <1>1, LoginStep, ServerStep, SaveStep, AgeingStep DEF LoginNext

(* Whatever the application uses is stored, and its refresh token is one   *)
(* the server accepts.                                                     *)
THEOREM UsedIsStored == LoginSpec => []ReadyIsStored
<1>1. StoreInv => ReadyIsStored
  BY DEF StoreInv
<1> QED
  BY <1>1, StoreInit, StoreNext, PTL DEF LoginSpec

(* Only save() touches the file: it creates it empty, or renames a         *)
(* complete later credential into place.                                   *)
LEMMA FileStep ==
    ASSUME StoreInv, [LoginNext]_loginVars, file' # file
    PROVE  \/ file = NoFile /\ file' = Empty
           \/ file' \in 1 .. Len(age) /\ file' > file
<1> USE DEF loginVars, diskVars, serverVars, Goto, Save
<1>1. CreateFile \/ Replace
  BY DEF LoginNext, Start, Load, Paste, RequestDevice, Poll, PollAnswered, DeadlinePasses, TokenIssued,
         Exchange, Refresh, OpenTemporary, WritePart, Tears, WriteRest, SaveFails, Request,
         Response, Ageing, Stop, LoginRest
<1>2. CASE CreateFile
  BY <1>2 DEF CreateFile, Created
<1>3. CASE Replace
  BY <1>3 DEF Replace, Replaces, StoreInv, TypeInv, SavesNew, RenamesComplete
<1> QED
  BY <1>1, <1>2, <1>3

(* No stop and no failing write costs a credential that was stored.        *)
THEOREM StoredStays == LoginSpec => StoredOnlyRenewed
<1>1. ASSUME StoreInv, [LoginNext]_loginVars
      PROVE  [file' # file => \/ file = NoFile /\ file' = Empty
                              \/ file' \in 1 .. Len(age) /\ file' > file]_file
  BY <1>1, FileStep
<1> QED
  BY <1>1, StoreInit, StoreNext, PTL DEF LoginSpec, StoredOnlyRenewed

-----------------------------------------------------------------------------
(* Discovery: the context files.                                           *)

LEMMA LeastElement ==
    ASSUME NEW S \in SUBSET Nat, S # {}
    PROVE  Min(S) \in S /\ \A y \in S : Min(S) <= y
<1> DEFINE R == {p \in Nat \X Nat : p[1] < p[2]}
<1>1. IsWellFoundedOn(R, Nat)
  <2>1. OpToRel(<, Nat) = R
    BY DEF OpToRel
  <2> QED
    BY <2>1, NatLessThanWellFounded
<1>2. PICK x \in S : \A y \in S : ~(<<y, x>> \in R)
  <2> HIDE DEF R
  <2> QED
    BY WFMin, <1>1
<1>3. ASSUME NEW y \in S PROVE x <= y
  <2>1. <<y, x>>[1] = y /\ <<y, x>>[2] = x /\ <<y, x>> \in Nat \X Nat
    OBVIOUS
  <2>2. ~(y < x)
    BY <1>2, <2>1
  <2> QED
    BY <2>2
<1> QED
  BY <1>3 DEF Min

First(i) == FirstPresent(layout.chain[i])
HasFirst(i) == Present(layout.chain[i]) # {}

(* The levels whose file no earlier one has.                               *)
NewUpTo(n) ==
    {i \in 1 .. n :
        /\ HasFirst(i) /\ First(i) # layout.global
        /\ \A j \in 1 .. n : HasFirst(j) /\ j < i => First(j) # First(i)}

Global == IF layout.global = Absent THEN <<>> ELSE <<layout.global>>
Own == IF layout.global = Absent THEN context ELSE Tail(context)

ContextTyped ==
    /\ layout \in Layouts
    /\ level \in 0 .. Len(layout.chain)
    /\ context \in Seq(Files)
    /\ phase \notin {"context", "done"} => level = 0
    /\ phase = "done" => level = Len(layout.chain)

(* A list of the new files, one for each, in the order of the levels.      *)
Lists(own, news) ==
    /\ Len(own) = Cardinality(news)
    /\ \A i \in news : own[Cardinality({j \in news : j <= i})] = First(i)

ContextRead ==
    /\ layout.global # Absent => context # <<>> /\ context[1] = layout.global
    /\ Lists(Own, NewUpTo(level))
    /\ Range(context) = Range(Global) \cup {First(i) : i \in {j \in 1 .. level : HasFirst(j)}}

ContextInv == ContextTyped /\ (phase \in {"context", "done"} => ContextRead)

(* Sets of levels are counted one by one.                                  *)
LEMMA OneMore ==
    ASSUME NEW n \in Nat, NEW news \in SUBSET (1 .. n)
    PROVE  /\ Cardinality(news) \in Nat
           /\ Cardinality(news \cup {n + 1}) = Cardinality(news) + 1
           /\ \A i \in news : {j \in news \cup {n + 1} : j <= i} = {j \in news : j <= i}
           /\ {j \in news \cup {n + 1} : j <= n + 1} = news \cup {n + 1}
           /\ \A i \in news : Cardinality({j \in news : j <= i}) \in 1 .. Cardinality(news)
<1>1. IsFiniteSet(news) /\ Cardinality(news) \in Nat
  <2>1. IsFiniteSet(1 .. n)
    BY FS_Interval
  <2> QED
    BY <2>1, FS_Subset, FS_CardinalityType
<1>2. Cardinality(news \cup {n + 1}) = Cardinality(news) + 1
  BY <1>1, FS_AddElement
<1>3. ASSUME NEW i \in news PROVE Cardinality({j \in news : j <= i}) \in 1 .. Cardinality(news)
  <2> DEFINE upto == {j \in news : j <= i}
  <2>1. upto \in SUBSET news /\ upto # {}
    BY <1>3
  <2>2. IsFiniteSet(upto) /\ Cardinality(upto) <= Cardinality(news)
    BY <1>1, <2>1, FS_Subset
  <2>3. Cardinality(upto) \in Nat /\ Cardinality(upto) # 0
    BY <2>1, <2>2, FS_CardinalityType, FS_EmptySet
  <2> QED
    BY <1>1, <2>2, <2>3
<1>4. \A i \in news : {j \in news \cup {n + 1} : j <= i} = {j \in news : j <= i}
  OBVIOUS
<1>5. {j \in news \cup {n + 1} : j <= n + 1} = news \cup {n + 1}
  <2>1. \A j \in news \cup {n + 1} : j <= n + 1
    OBVIOUS
  <2> QED
    BY <2>1
<1> QED
  BY <1>1, <1>2, <1>3, <1>4, <1>5

(* A list with one more file.                                              *)
LEMMA ListGrows ==
    ASSUME NEW n \in Nat, NEW news \in SUBSET (1 .. n), NEW own \in Seq(Files),
           Lists(own, news), First(n + 1) \in Files
    PROVE  Lists(Append(own, First(n + 1)), news \cup {n + 1})
<1> DEFINE x == First(n + 1)
           all == news \cup {n + 1}
<1>1. Len(own) = Cardinality(news) /\ Len(Append(own, x)) = Len(own) + 1
  BY DEF Lists
<1>2. Len(Append(own, x)) = Cardinality(all)
  BY <1>1, OneMore
<1>3. ASSUME NEW i \in news
      PROVE  Append(own, x)[Cardinality({j \in all : j <= i})] = First(i)
  <2>1. PICK k \in 1 .. Len(own) : k = Cardinality({j \in news : j <= i})
    BY <1>1, OneMore
  <2>2. Append(own, x)[k] = own[k]
    OBVIOUS
  <2>3. own[k] = First(i)
    BY <2>1 DEF Lists
  <2>4. {j \in all : j <= i} = {j \in news : j <= i}
    BY OneMore
  <2> QED
    BY <2>1, <2>2, <2>3, <2>4
<1>4. Append(own, x)[Cardinality({j \in all : j <= n + 1})] = x
  <2>1. {j \in all : j <= n + 1} = all
    BY OneMore
  <2>2. Append(own, x)[Len(own) + 1] = x
    OBVIOUS
  <2> QED
    BY <1>1, <1>2, <2>1, <2>2
<1> QED
  BY <1>2, <1>3, <1>4 DEF Lists

(* What the loop looks at on a level, and what that makes of the files.    *)
LEMMA FirstIsFile ==
    ASSUME layout \in Layouts, NEW i \in 1 .. Len(layout.chain), HasFirst(i)
    PROVE  First(i) \in Files /\ First(i) # Absent
<1>1. PICK candidates \in Seq(Files \cup {Absent}) : candidates = layout.chain[i]
  <2>1. layout.chain \in Seq(Seq(Files \cup {Absent}))
    BY DEF Layouts
  <2> QED
    BY <2>1, ElementOfSeq
<1>2. Present(candidates) \in SUBSET Nat /\ Present(candidates) # {}
  BY <1>1 DEF Present, HasFirst
<1>3. Min(Present(candidates)) \in Present(candidates)
  BY <1>2, LeastElement
<1>4. candidates[Min(Present(candidates))] \in Files \cup {Absent}
  BY <1>3, ElementOfSeq DEF Present
<1>5. candidates[Min(Present(candidates))] # Absent
  BY <1>3 DEF Present
<1> QED
  BY <1>1, <1>4, <1>5 DEF First, FirstPresent

LEMMA ContextInit == DiscoveryInit => ContextInv
<1> SUFFICES ASSUME DiscoveryInit PROVE ContextInv
  OBVIOUS
<1>1. layout \in Layouts
  BY SurroundingsAssumption DEF DiscoveryInit
<1>2. Len(layout.chain) \in Nat
  BY <1>1, LenProperties DEF Layouts
<1>3. context \in Seq(Files)
  BY EmptySeq DEF DiscoveryInit
<1> QED
  BY <1>1, <1>2, <1>3 DEF DiscoveryInit, ContextInv, ContextTyped

LEMMA NothingNew == NewUpTo(0) = {} /\ {First(i) : i \in {j \in 1 .. 0 : HasFirst(j)}} = {}
BY DEF NewUpTo

(* Before the first level, the global file is all there is.                *)
LEMMA BeginKeeps ==
    ASSUME ContextInv, BeginContext
    PROVE  ContextInv'
<1>1. level = 0 /\ level' = 0 /\ layout' = layout /\ phase' = "context" /\ context' = Global
  BY DEF BeginContext, ContextInv, ContextTyped, contextVars, Global
<1>2. layout.global \in Files \cup {Absent}
  BY DEF ContextInv, ContextTyped, Layouts
<1>3. ContextTyped'
  BY <1>1, <1>2 DEF ContextInv, ContextTyped, Global
<1>4. NewUpTo(level)' = {} /\ {First(i) : i \in {j \in 1 .. level : HasFirst(j)}}' = {}
  <2>1. level' = 0
    BY <1>1
  <2> QED
    BY <2>1 DEF NewUpTo
<1>5. Own' = <<>>
  BY <1>1, <1>2 DEF Own, Global
<1>6. Lists(Own, NewUpTo(level))'
  BY <1>4, <1>5, FS_EmptySet DEF Lists
<1>7. Global' = Global
  BY <1>1 DEF Global
<1>8. (layout.global # Absent => context # <<>> /\ context[1] = layout.global)'
  BY <1>1 DEF Global
<1>9. ContextRead'
  BY <1>1, <1>4, <1>6, <1>7, <1>8 DEF ContextRead
<1> QED
  BY <1>3, <1>9 DEF ContextInv

(* A level whose first file is new adds it; any other level adds nothing.  *)
LEMMA NextLevel ==
    ASSUME NEW n \in Nat
    PROVE  NewUpTo(n + 1) =
             IF /\ HasFirst(n + 1) /\ First(n + 1) # layout.global
                /\ First(n + 1) \notin {First(i) : i \in {j \in 1 .. n : HasFirst(j)}}
               THEN NewUpTo(n) \cup {n + 1} ELSE NewUpTo(n)
<1>1. ASSUME NEW i \in 1 .. n PROVE i \in NewUpTo(n + 1) <=> i \in NewUpTo(n)
  BY <1>1 DEF NewUpTo
<1>2. n + 1 \in NewUpTo(n + 1) <=>
         /\ HasFirst(n + 1) /\ First(n + 1) # layout.global
         /\ First(n + 1) \notin {First(i) : i \in {j \in 1 .. n : HasFirst(j)}}
  BY DEF NewUpTo
<1>3. NewUpTo(n + 1) \subseteq 1 .. (n + 1) /\ NewUpTo(n) \subseteq 1 .. n
  BY DEF NewUpTo
<1> QED
  BY <1>1, <1>2, <1>3

LEMMA ReadKeeps ==
    ASSUME ContextInv, ReadContext
    PROVE  ContextInv'
<1>1. PICK n \in Nat : n = level /\ level' = n + 1 /\ n + 1 \in 1 .. Len(layout.chain)
  <2>1. Len(layout.chain) \in Nat /\ level \in Nat
    BY LenProperties DEF ContextInv, ContextTyped, Layouts
  <2> QED
    BY <2>1 DEF ReadContext
<1>2. /\ layout' = layout /\ phase' = phase /\ phase = "context"
      /\ context' = context \o FirstCandidate(layout.chain[n + 1])
  BY <1>1 DEF ReadContext
<1>3. ContextRead /\ context \in Seq(Files) /\ layout \in Layouts
  BY <1>2 DEF ContextInv, ContextTyped
<1> DEFINE x == First(n + 1)
           firsts == {First(i) : i \in {j \in 1 .. n : HasFirst(j)}}
           new == HasFirst(n + 1) /\ x # layout.global /\ x \notin firsts
<1>4. /\ \A i : First(i)' = First(i) /\ (HasFirst(i)' <=> HasFirst(i))
      /\ Global' = Global
      /\ \A k : NewUpTo(k)' = NewUpTo(k)
  BY <1>2 DEF First, HasFirst, Global, NewUpTo
<1>5. HasFirst(n + 1) => x \in Files /\ x # Absent
  BY <1>1, <1>3, FirstIsFile
<1>6. x \in Range(context) <=> x \in Range(Global) \cup firsts
  BY <1>1, <1>3 DEF ContextRead
<1>7. Range(Global) = IF layout.global = Absent THEN {} ELSE {layout.global}
  BY DEF Range, Global
<1>8. context' = IF new THEN Append(context, x) ELSE context
  <2>1. FirstCandidate(layout.chain[n + 1]) = IF new THEN <<x>> ELSE <<>>
    BY <1>5, <1>6, <1>7 DEF FirstCandidate, First, HasFirst
  <2>2. new => context \o <<x>> = Append(context, x)
    BY <1>3, <1>5
  <2>3. context \o <<>> = context
    BY <1>3
  <2> HIDE DEF new, x
  <2> QED
    BY <1>2, <2>1, <2>2, <2>3
<1>9. NewUpTo(n + 1) = IF new THEN NewUpTo(n) \cup {n + 1} ELSE NewUpTo(n)
  BY NextLevel
<1>10. context' \in Seq(Files)
  BY <1>3, <1>5, <1>8
<1>11. ContextTyped'
  BY <1>1, <1>2, <1>3, <1>10 DEF ContextTyped
<1>12. (layout.global # Absent => context # <<>> /\ context[1] = layout.global)'
  BY <1>2, <1>3, <1>5, <1>8 DEF ContextRead
<1>13. Own \in Seq(Files) /\ Own' = IF new THEN Append(Own, x) ELSE Own
  <2>1. CASE layout.global = Absent
    BY <1>2, <1>3, <1>8, <2>1 DEF Own
  <2>2. CASE layout.global # Absent
    <3>1. context # <<>>
      BY <1>3, <2>2 DEF ContextRead
    <3>2. Tail(context) \in Seq(Files)
      BY <1>3, <3>1
    <3>3. new => Tail(Append(context, x)) = Append(Tail(context), x)
      <4>1. SUFFICES ASSUME new PROVE Tail(Append(context, x)) = Append(Tail(context), x)
        OBVIOUS
      <4>2. x \in Files
        BY <1>5, <4>1
      <4> HIDE DEF x
      <4> QED
        BY <1>3, <3>1, <4>2, AppendProperties, HeadTailProperties, SeqEqual
    <3> QED
      BY <1>2, <1>8, <2>2, <3>2, <3>3 DEF Own
  <2> QED
    BY <2>1, <2>2
<1>14. Lists(Own, NewUpTo(n))
  BY <1>1, <1>3 DEF ContextRead
<1>15. Lists(Own', NewUpTo(n + 1))
  <2>1. CASE new
    <3>1. NewUpTo(n) \in SUBSET (1 .. n) /\ x \in Files
      BY <1>5, <2>1 DEF NewUpTo
    <3>2. Lists(Append(Own, x), NewUpTo(n) \cup {n + 1})
      BY <1>13, <1>14, <3>1, ListGrows
    <3> QED
      BY <1>9, <1>13, <2>1, <3>2
  <2>2. CASE ~new
    BY <1>9, <1>13, <1>14, <2>2
  <2> QED
    BY <2>1, <2>2
<1>16. Lists(Own, NewUpTo(level))'
  BY <1>1, <1>4, <1>15 DEF Lists
<1>17. Range(context') = Range(Global) \cup {First(i) : i \in {j \in 1 .. n + 1 : HasFirst(j)}}
  <2>1. Range(context) = Range(Global) \cup firsts
    BY <1>1, <1>3 DEF ContextRead
  <2>2. {First(i) : i \in {j \in 1 .. n + 1 : HasFirst(j)}}
          = IF HasFirst(n + 1) THEN firsts \cup {x} ELSE firsts
    <3>1. {j \in 1 .. n + 1 : HasFirst(j)} = IF HasFirst(n + 1)
             THEN {j \in 1 .. n : HasFirst(j)} \cup {n + 1} ELSE {j \in 1 .. n : HasFirst(j)}
      OBVIOUS
    <3> QED
      BY <3>1
  <2>3. CASE new
    <3>1. Range(Append(context, x)) = Range(context) \cup {x}
      BY <1>3, <1>5, <2>3, AppendProperties DEF Range
    <3> QED
      BY <1>8, <2>1, <2>2, <2>3, <3>1
  <2>4. CASE ~new
    <3>1. HasFirst(n + 1) => x \in Range(Global) \cup firsts
      BY <1>5, <1>7, <2>4
    <3> QED
      BY <1>8, <2>1, <2>2, <2>4, <3>1
  <2> QED
    BY <2>3, <2>4
<1>18. ContextRead'
  BY <1>1, <1>4, <1>12, <1>16, <1>17 DEF ContextRead
<1> QED
  BY <1>11, <1>18 DEF ContextInv

(* The skills are read without a look at the context files.                *)
LEMMA SkillsKeep ==
    ASSUME ContextInv,
           \/ NextSource \/ VisitDirectory \/ _load_file \/ Select
           \/ Finish \/ DiscoveryRest \/ UNCHANGED discoveryVars
    PROVE  ContextInv'
<1>1. layout' = layout /\ level' = level /\ context' = context
  BY DEF NextSource, VisitDirectory, _load_file, Select, Finish, DiscoveryRest, discoveryVars,
         contextVars
<1>2. \/ phase' = phase
      \/ phase = "skills" /\ phase' = "raised"
      \/ phase = "context" /\ phase' = "done" /\ level = Len(layout.chain)
  BY DEF NextSource, VisitDirectory, _load_file, Select, Finish, DiscoveryRest, discoveryVars
<1>3. ContextTyped'
  BY <1>1, <1>2 DEF ContextInv, ContextTyped
<1>4. ContextRead => ContextRead'
  BY <1>1, ZenonT(40) DEF ContextRead, Lists, NewUpTo, Own, Global, First, HasFirst
<1> QED
  BY <1>2, <1>3, <1>4 DEF ContextInv

(* context.py 30: for every chain of directories, whatever files and links *)
(* they hold, the context files are the first candidates of the            *)
(* directories, each once, the global file before them.                    *)
THEOREM NearestLast == DiscoverySpec => []ContextInOrder
<1>1. ContextInv /\ [DiscoveryNext]_discoveryVars => ContextInv'
  BY BeginKeeps, ReadKeeps, SkillsKeep DEF DiscoveryNext
<1>2. ContextInv => ContextInOrder
  <2> SUFFICES ASSUME ContextInv, phase = "done" PROVE ContextInOrder
    BY DEF ContextInOrder
  <2>1. level = Len(layout.chain) /\ DOMAIN layout.chain = 1 .. level
    BY LenProperties DEF ContextInv, ContextTyped, Layouts
  <2> DEFINE levels == {i \in DOMAIN layout.chain : Present(layout.chain[i]) # {}}
             new == {i \in levels :
                        /\ FirstPresent(layout.chain[i]) # layout.global
                        /\ \A j \in levels : j < i =>
                              FirstPresent(layout.chain[j]) # FirstPresent(layout.chain[i])}
  <2>2. new = NewUpTo(level)
    BY <2>1 DEF NewUpTo, First, HasFirst
  <2>3. ContextRead
    BY DEF ContextInv
  <2>4. Lists(Own, new)
    BY <2>2, <2>3 DEF ContextRead
  <2>5. layout.global # Absent => context[1] = layout.global
    BY <2>3 DEF ContextRead
  <2>6. Len(Own) = Cardinality(new)
    BY <2>4 DEF Lists
  <2>7. \A i \in new : Own[Cardinality({j \in new : j <= i})] = FirstPresent(layout.chain[i])
    BY <2>4 DEF Lists, First
  <2> QED
    BY <2>5, <2>6, <2>7 DEF ContextInOrder, Own
<1> QED
  BY <1>1, <1>2, ContextInit, PTL DEF DiscoverySpec

-----------------------------------------------------------------------------
(* Discovery: the directories on a path.                                   *)

(* A set that holds 0 and, with each number, the next, holds all.          *)
LEMMA SetInduction ==
    ASSUME NEW T, 0 \in T, \A n \in Nat : n \in T => n + 1 \in T
    PROVE  Nat \subseteq T
<1> SUFFICES ASSUME Nat \ T # {} PROVE FALSE
  OBVIOUS
<1>1. PICK x \in Nat \ T : \A y \in Nat \ T : x <= y
  <2>1. (Nat \ T) \in SUBSET Nat
    OBVIOUS
  <2> QED
    BY <2>1, LeastElement
<1>2. x # 0 /\ x - 1 \in Nat /\ ~(x <= x - 1) /\ (x - 1) + 1 = x
  BY <1>1
<1>3. x - 1 \in T
  BY <1>1, <1>2
<1> QED
  BY <1>1, <1>2, <1>3

(* What the recursion of NodesOn defines.                                  *)
LEMMA NodesFollow ==
    ASSUME NEW ways, NEW start, NEW path, Len(path) \in Nat
    PROVE  /\ NodesOn(ways, start, path)[0] = start
           /\ \A n \in 1 .. Len(path) :
                 NodesOn(ways, start, path)[n]
                   = Below(ways, NodesOn(ways, start, path)[n - 1], path[n])
<1> DEFINE L == Len(path)
           Upto(g, n) == /\ DOMAIN g = 0 .. n
                         /\ g = [m \in 0 .. n |-> g[m]]
                         /\ g[0] = start
                         /\ \A m \in 1 .. n : g[m] = Below(ways, g[m - 1], path[m])
           T == {n \in Nat : \E g : Upto(g, n)}
<1>1. 0 \in T
  <2>1. Upto([m \in 0 .. 0 |-> start], 0)
    OBVIOUS
  <2> QED
    BY <2>1
<1>2. ASSUME NEW n \in Nat, n \in T PROVE n + 1 \in T
  <2>1. PICK g : Upto(g, n)
    BY <1>2
  <2> DEFINE h == [m \in 0 .. n + 1 |->
                      IF m <= n THEN g[m] ELSE Below(ways, g[n], path[n + 1])]
  <2>2. DOMAIN h = 0 .. n + 1 /\ h = [m \in 0 .. n + 1 |-> h[m]] /\ h[0] = start
    BY <2>1
  <2>3. ASSUME NEW m \in 1 .. n + 1 PROVE h[m] = Below(ways, h[m - 1], path[m])
    <3>1. CASE m = n + 1
      <4>1. h[m] = Below(ways, g[n], path[n + 1]) /\ h[m - 1] = g[n]
        BY <3>1
      <4> QED
        BY <3>1, <4>1
    <3>2. CASE m # n + 1
      <4>1. m \in 1 .. n /\ h[m] = g[m] /\ h[m - 1] = g[m - 1]
        BY <2>3, <3>2
      <4> HIDE DEF h
      <4> QED
        BY <2>1, <4>1
    <3> QED
      BY <3>1, <3>2
  <2>4. Upto(h, n + 1)
    BY <2>2, <2>3
  <2>5. \E k : Upto(k, n + 1)
    BY <2>4
  <2> HIDE DEF Upto
  <2> QED
    BY <2>5
<1>3. PICK g : Upto(g, L)
  <2>1. Nat \subseteq T
    <3> HIDE DEF T
    <3> QED
      BY <1>1, <1>2, SetInduction
  <2> QED
    BY <2>1
<1> DEFINE Loop(f) == [n \in 0 .. L |-> IF n = 0 THEN start ELSE Below(ways, f[n - 1], path[n])]
<1>4. g = Loop(g)
  <2>1. ASSUME NEW n \in 0 .. L PROVE g[n] = Loop(g)[n]
    BY <1>3, <2>1
  <2> QED
    BY <1>3, <2>1
<1> DEFINE c == CHOOSE f : f = Loop(f)
<1>5. c = Loop(c)
  <2> HIDE DEF Loop
  <2> QED
    BY <1>4
<1>6. c = NodesOn(ways, start, path)
  BY DEF NodesOn
<1> HIDE DEF c
<1>7. c[0] = start /\ \A n \in 1 .. L : c[n] = Below(ways, c[n - 1], path[n])
  BY <1>5
<1> QED
  BY <1>6, <1>7

(* What the links of a scan may be.                                        *)
WaysSet == [Dirs -> [Subdirs -> Dirs \cup {Absent}]]

LEMMA WaysTyped == ASSUME fs \in FileSystem PROVE Ways \in WaysSet
BY DEF FileSystem, Ways, WaysSet

LEMMA BelowTyped ==
    ASSUME NEW ways \in WaysSet, NEW node, NEW sub \in Subdirs
    PROVE  /\ Below(ways, node, sub) \in Dirs \cup {Absent}
           /\ node \notin Dirs => Below(ways, node, sub) = Absent
BY DEF Below, WaysSet

LEMMA PathFacts ==
    ASSUME NEW path \in Paths
    PROVE  /\ path \in Seq(Subdirs) /\ Len(path) \in 0 .. MaxLinks
           /\ DOMAIN path = 1 .. Len(path)
<1>1. PICK n \in 0 .. MaxLinks : path \in [1 .. n -> Subdirs]
  BY DEF Paths
<1>2. n \in Nat
  BY <1>1, SurroundingsAssumption
<1>3. path \in Seq(Subdirs)
  BY <1>1, <1>2, SeqDef
<1>4. Len(path) = n
  BY <1>1, <1>2, <1>3, LenProperties
<1> QED
  BY <1>1, <1>3, <1>4

(* Two paths that begin alike lead through the same directories.           *)
LEMMA SameStart ==
    ASSUME NEW ways, NEW start, NEW p, NEW q, Len(p) \in Nat, Len(q) \in Nat, NEW k \in Nat,
           k <= Len(p), k <= Len(q), \A j \in 1 .. k : p[j] = q[j]
    PROVE  NodesOn(ways, start, p)[k] = NodesOn(ways, start, q)[k]
<1> DEFINE P(n) == NodesOn(ways, start, p)[n]
           Q(n) == NodesOn(ways, start, q)[n]
           T == {n \in Nat : n <= k => P(n) = Q(n)}
<1>1. 0 \in T
  BY NodesFollow
<1>2. ASSUME NEW n \in Nat, n \in T PROVE n + 1 \in T
  <2>1. SUFFICES ASSUME n + 1 <= k PROVE P(n + 1) = Q(n + 1)
    OBVIOUS
  <2>2. P(n) = Q(n) /\ p[n + 1] = q[n + 1]
    BY <1>2, <2>1
  <2>3. P(n + 1) = Below(ways, P(n), p[n + 1])
    <3>1. n + 1 \in 1 .. Len(p) /\ (n + 1) - 1 = n
      BY <2>1
    <3> HIDE DEF P
    <3> QED
      BY <3>1, NodesFollow DEF P
  <2>4. Q(n + 1) = Below(ways, Q(n), q[n + 1])
    <3>1. n + 1 \in 1 .. Len(q) /\ (n + 1) - 1 = n
      BY <2>1
    <3> QED
      BY <3>1, NodesFollow
  <2> HIDE DEF P, Q
  <2> QED
    BY <2>2, <2>3, <2>4
<1>3. Nat \subseteq T
  <2> HIDE DEF T
  <2> QED
    BY <1>1, <1>2, SetInduction
<1> QED
  BY <1>3

(* Where a path does not lead on, it leads nowhere.                        *)
LEMMA AbsentStays ==
    ASSUME NEW ways \in WaysSet, NEW start, NEW path \in Seq(Subdirs), NEW k \in 1 .. Len(path),
           NodesOn(ways, start, path)[k] = Absent
    PROVE  NodesOn(ways, start, path)[Len(path)] = Absent
<1> DEFINE N(n) == NodesOn(ways, start, path)[n]
           T == {n \in Nat : k <= n /\ n <= Len(path) => N(n) = Absent}
<1>0. Len(path) \in Nat
  BY LenProperties
<1>1. 0 \in T
  BY <1>0
<1>2. ASSUME NEW n \in Nat, n \in T PROVE n + 1 \in T
  <2>1. SUFFICES ASSUME k <= n, n + 1 <= Len(path) PROVE N(n + 1) = Absent
    OBVIOUS
  <2>2. N(n) = Absent
    BY <1>0, <1>2, <2>1
  <2>3. n + 1 \in 1 .. Len(path) /\ (n + 1) - 1 = n
    BY <2>1
  <2>4. N(n + 1) = Below(ways, N(n), path[n + 1])
    BY <1>0, <2>3, NodesFollow
  <2>5. Absent \notin Dirs /\ path[n + 1] \in Subdirs
    BY <2>3, SurroundingsAssumption, ElementOfSeq
  <2> HIDE DEF N
  <2> QED
    BY <2>2, <2>4, <2>5, BelowTyped
<1>3. Nat \subseteq T
  <2> HIDE DEF T
  <2> QED
    BY <1>1, <1>2, SetInduction
<1> QED
  BY <1>0, <1>3

-----------------------------------------------------------------------------
(* Discovery: the sources, the places below them and the candidates.       *)

SkillNames == {"x", "skills", "s", "t", "p"}
Skills == [name : SkillNames, file : Files]
Entries == [node : Dirs \cup Files, name : SkillNames, markdown : BOOLEAN, depth : Nat]
SourceSet == [node : Nodes, name : {"x", "skills"}, markdown : BOOLEAN]
EntryNames == Leaves \cup Subdirs \cup {"itself"}

LEMMA SourceTyped ==
    ASSUME NEW node \in Nodes, NEW name \in {"x", "skills"}, NEW markdown \in BOOLEAN
    PROVE  Source(node, name, markdown) \in SourceSet
BY DEF Source, SourceSet

AgentSet == [node : Nodes, git : BOOLEAN]

LEMMA AgentsTyped ==
    ASSUME NEW agents \in Seq(AgentSet)
    PROVE  _project_agents_directories(agents) \in Seq(SourceSet)
<1> DEFINE tops == {i \in DOMAIN agents : agents[i].git}
           top == IF tops = {} THEN Len(agents) ELSE Min(tops)
<1>1. Len(agents) \in Nat /\ DOMAIN agents = 1 .. Len(agents)
  BY LenProperties
<1>2. tops # {} => Min(tops) \in tops
  <2>1. tops \in SUBSET Nat
    BY <1>1
  <2> HIDE DEF tops
  <2> QED
    BY <2>1, LeastElement
<1>3. top \in 0 .. Len(agents)
  BY <1>1, <1>2
<1> HIDE DEF top
<1>4. ASSUME NEW i \in 1 .. top PROVE Source(agents[i].node, "skills", FALSE) \in SourceSet
  <2>1. i \in 1 .. Len(agents)
    BY <1>1, <1>3
  <2>2. agents[i] \in AgentSet
    BY <2>1, ElementOfSeq
  <2>3. agents[i].node \in Nodes
    BY <2>2 DEF AgentSet
  <2> QED
    BY <2>3, SourceTyped
<1>5. [i \in 1 .. top |-> Source(agents[i].node, "skills", FALSE)] \in Seq(SourceSet)
  <2>1. [i \in 1 .. top |-> Source(agents[i].node, "skills", FALSE)] \in [1 .. top -> SourceSet]
    BY <1>4
  <2>2. top \in Nat
    BY <1>1, <1>3
  <2> QED
    BY <2>1, <2>2, SeqDef
<1> QED
  BY <1>5 DEF _project_agents_directories, top

LEMMA SourcesTyped ==
    ASSUME layout \in Layouts
    PROVE  /\ Sources \in Seq(SourceSet) /\ Len(Sources) \in Nat
           /\ DOMAIN Sources = 1 .. Len(Sources)
           /\ \A i \in 1 .. Len(Sources) : Sources[i] \in SourceSet
<1> DEFINE explicit == [i \in DOMAIN layout.explicit |-> Source(layout.explicit[i], "x", TRUE)]
           user == <<Source(layout.user[1], "skills", TRUE), Source(layout.user[2], "skills", FALSE),
                     Source(layout.user[3], "skills", TRUE)>>
<1>1. /\ layout.explicit \in Seq(Nodes) /\ layout.user \in [1 .. 3 -> Nodes]
      /\ layout.agents \in Seq(AgentSet)
  BY DEF Layouts, AgentSet
<1>2. explicit \in Seq(SourceSet)
  <2>1. PICK n \in Nat : n = Len(layout.explicit) /\ DOMAIN layout.explicit = 1 .. n
    BY <1>1, LenProperties
  <2>2. ASSUME NEW i \in 1 .. n PROVE Source(layout.explicit[i], "x", TRUE) \in SourceSet
    <3>1. layout.explicit[i] \in Nodes
      BY <1>1, <2>1, ElementOfSeq
    <3> QED
      BY <3>1, SourceTyped
  <2>3. explicit = [i \in 1 .. n |-> Source(layout.explicit[i], "x", TRUE)]
    BY <2>1
  <2>4. [i \in 1 .. n |-> Source(layout.explicit[i], "x", TRUE)] \in [1 .. n -> SourceSet]
    BY <2>2
  <2> HIDE DEF explicit
  <2>5. explicit \in [1 .. n -> SourceSet]
    BY <2>3, <2>4
  <2> QED
    BY <2>5, SeqDef
<1>3. user \in Seq(SourceSet)
  <2>0. layout.user[1] \in Nodes /\ layout.user[2] \in Nodes /\ layout.user[3] \in Nodes
    BY <1>1
  <2>1. /\ Source(layout.user[1], "skills", TRUE) \in SourceSet
        /\ Source(layout.user[2], "skills", FALSE) \in SourceSet
        /\ Source(layout.user[3], "skills", TRUE) \in SourceSet
    BY <2>0 DEF Source, SourceSet
  <2>2. PICK a \in SourceSet, b \in SourceSet, c \in SourceSet : user = <<a, b, c>>
    BY <2>1
  <2>3. <<a, b, c>> \in Seq(SourceSet)
    OBVIOUS
  <2> QED
    BY <2>2, <2>3
<1>4. _project_agents_directories(layout.agents) \in Seq(SourceSet)
  BY <1>1, AgentsTyped
<1>5. Sources = explicit \o (user \o _project_agents_directories(layout.agents))
  BY DEF Sources, DefaultSources
<1>6. Sources \in Seq(SourceSet)
  <2> HIDE DEF explicit, user
  <2> QED
    BY <1>2, <1>3, <1>4, <1>5
<1> QED
  BY <1>6, LenProperties, ElementOfSeq

(* Where the walk along p from source k ends, as of a candidate.           *)
Way(k, p) == [source |-> k, path |-> p]

Spots(k) == [source : {k}, path : Paths, leaf : Leaves \cup {"itself"}]
Spot(k, p, leaf) == [source |-> k, path |-> p, leaf |-> leaf]

Place(c) == Append(c.path, c.leaf)

(* The place of c lies below the directory that p leads to.                *)
Under(p, c) == Len(p) <= Len(c.path) /\ \A j \in 1 .. Len(p) : p[j] = c.path[j]

(* What the scan of source k has to visit: the directory p leads to, or    *)
(* the file at the place c.                                                *)
IsDirectory(k, item, p) ==
    /\ p \in Paths /\ Parent(Way(k, p)) \in Dirs
    /\ item = Entry(Parent(Way(k, p)), ParentName(Way(k, p)),
                    p # <<>> \/ Sources[k].markdown, Len(p))

IsFile(k, item, c) ==
    c \in Spots(k) /\ IsPlace(c) /\ item.node = FileOf(c) /\ item.name = ParentName(c)

Stands(k, item, w) ==
    \/ IsDirectory(k, item, w)
    \/ \E c \in Spots(k) : IsFile(k, item, c) /\ w = Place(c)

Covers(k, item, d) ==
    \/ IsFile(k, item, d)
    \/ \E p \in Paths : IsDirectory(k, item, p) /\ Under(p, d)

CandidatesOf(k) == {d \in Candidates : d.source = k}

LEMMA Ranks ==
    /\ Rank("itself") = 1 /\ Rank("SKILL.md") = 2 /\ Rank("a.md") = 3
    /\ Rank("s") = 4 /\ Rank("t") = 5
<1> DEFINE names == <<"itself", "SKILL.md", "a.md", "s", "t">>
<1>1. \A i \in 1 .. 5 : (names[i] = "itself" <=> i = 1) /\ (names[i] = "SKILL.md" <=> i = 2)
                     /\ (names[i] = "a.md" <=> i = 3) /\ (names[i] = "s" <=> i = 4)
                     /\ (names[i] = "t" <=> i = 5)
  OBVIOUS
<1> QED
  BY <1>1 DEF Rank

LEMMA PlaceFacts ==
    ASSUME NEW k, NEW c \in Spots(k)
    PROVE  /\ Place(c) \in Seq(EntryNames) /\ Len(Place(c)) = Len(c.path) + 1
           /\ \A i \in 1 .. Len(c.path) : Place(c)[i] = c.path[i] /\ c.path[i] \in Subdirs
           /\ Place(c)[Len(c.path) + 1] = c.leaf /\ c.leaf \in Leaves \cup {"itself"}
           /\ c.path \in Paths /\ c.source = k
<1>1. c.path \in Paths /\ c.leaf \in Leaves \cup {"itself"} /\ c.source = k
  BY DEF Spots
<1>2. PICK path \in Seq(Subdirs) : path = c.path
  BY <1>1, PathFacts
<1>3. path \in Seq(EntryNames) /\ c.leaf \in EntryNames
  BY <1>1, <1>2, SeqMonotonic DEF EntryNames
<1>4. Append(path, c.leaf) \in Seq(EntryNames) /\ Len(Append(path, c.leaf)) = Len(path) + 1
      /\ \A i \in 1 .. Len(path) : Append(path, c.leaf)[i] = path[i]
      /\ Append(path, c.leaf)[Len(path) + 1] = c.leaf
  BY <1>3, AppendProperties
<1>5. \A i \in 1 .. Len(path) : path[i] \in Subdirs
  BY <1>2, ElementOfSeq
<1> QED
  BY <1>1, <1>2, <1>4, <1>5 DEF Place

(* Candidates are places of files with a header.                           *)
LEMMA CandidateFacts ==
    ASSUME fs \in FileSystem, layout \in Layouts, NEW k, NEW d \in CandidatesOf(k)
    PROVE  /\ d \in Spots(k) /\ IsPlace(d) /\ FileOf(d) \in Files
           /\ fs.header[FileOf(d)] # "invalid" /\ k \in 1 .. Len(Sources)
<1>1. d \in [source : DOMAIN Sources, path : Paths, leaf : Leaves \cup {"itself"}] /\ d.source = k
      /\ IsPlace(d) /\ fs.header[FileOf(d)] # "invalid"
  BY DEF CandidatesOf, Candidates
<1>2. d \in Spots(k) /\ k \in 1 .. Len(Sources)
  BY <1>1, SourcesTyped DEF Spots
<1>3. FileOf(d) \in Files
  <2>1. CASE d.leaf = "itself"
    BY <1>1, <2>1 DEF IsPlace, FileOf, Leaves
  <2>2. CASE d.leaf # "itself"
    BY <1>1, <2>2 DEF IsPlace, FileOf, FileSystem
  <2> QED
    BY <2>1, <2>2
<1> QED
  BY <1>1, <1>2, <1>3

(* The surroundings do not change, and what is defined by them does not.   *)
LEMMA Kept ==
    ASSUME UNCHANGED <<fs, layout>>
    PROVE  /\ Sources' = Sources /\ Candidates' = Candidates
           /\ \A c : SkillOf(c)' = SkillOf(c)
           /\ \A k, item, w : Stands(k, item, w)' <=> Stands(k, item, w)
           /\ \A k, item, d : Covers(k, item, d)' <=> Covers(k, item, d)
<1>1. Sources' = Sources
  BY DEF Sources, DefaultSources
<1>2. Ways' = Ways
  BY DEF Ways, Declared, Ignored
<1>3. \A c : Parent(c)' = Parent(c) /\ ParentName(c)' = ParentName(c)
  BY <1>1, <1>2 DEF Parent, ParentName
<1>4. \A c : FileOf(c)' = FileOf(c)
  BY <1>3 DEF FileOf
<1>5. \A c : IsPlace(c)' <=> IsPlace(c)
  BY <1>1, <1>3, <1>4 DEF IsPlace, Declared, Ignored
<1>6. Candidates' = Candidates
  BY <1>1, <1>4, <1>5 DEF Candidates
<1>7. \A c : SkillOf(c)' = SkillOf(c)
  BY <1>3, <1>4 DEF SkillOf, Name
<1>8. \A k, item, c : IsFile(k, item, c)' <=> IsFile(k, item, c)
  BY <1>3, <1>4, <1>5 DEF IsFile
<1>9. \A k, item, p : IsDirectory(k, item, p)' <=> IsDirectory(k, item, p)
  BY <1>1, <1>3 DEF IsDirectory
<1>10. \A k, item, w : Stands(k, item, w)' <=> Stands(k, item, w)
  BY <1>8, <1>9 DEF Stands
<1>11. \A k, item, d : Covers(k, item, d)' <=> Covers(k, item, d)
  BY <1>8, <1>9 DEF Covers
<1> QED
  BY <1>1, <1>6, <1>7, <1>10, <1>11

-----------------------------------------------------------------------------
(* Discovery: what a visit of a directory leaves to visit.                 *)

(* The name in the directory p leads to by which the way to c goes on.     *)
NextName(c, p) == Place(c)[Len(p) + 1]

LEMMA WayFacts ==
    ASSUME NEW k, NEW p
    PROVE  /\ Parent(Way(k, p)) = NodesOn(Ways, Sources[k].node, p)[Len(p)]
           /\ ParentName(Way(k, p)) = IF p = <<>> THEN Sources[k].name ELSE p[Len(p)]
BY DEF Way, Parent, ParentName

LEMMA OneDown ==
    ASSUME NEW k, NEW p \in Paths, NEW sub \in Subdirs
    PROVE  /\ Append(p, sub) \in Seq(Subdirs) /\ Append(p, sub) # <<>>
           /\ Len(Append(p, sub)) = Len(p) + 1
           /\ \A i \in 1 .. Len(p) : Append(p, sub)[i] = p[i]
           /\ Append(p, sub)[Len(p) + 1] = sub
           /\ Len(p) < MaxLinks => Append(p, sub) \in Paths
           /\ Parent(Way(k, Append(p, sub))) = Below(Ways, Parent(Way(k, p)), sub)
           /\ ParentName(Way(k, Append(p, sub))) = sub
<1> DEFINE q == Append(p, sub)
           node == Sources[k].node
<1>1. p \in Seq(Subdirs) /\ Len(p) \in 0 .. MaxLinks /\ MaxLinks \in Nat
  BY PathFacts, SurroundingsAssumption
<1>2. /\ q \in Seq(Subdirs) /\ q # <<>> /\ Len(q) = Len(p) + 1
      /\ \A i \in 1 .. Len(p) : q[i] = p[i]
      /\ q[Len(p) + 1] = sub
  BY <1>1, AppendProperties
<1>3. Len(p) < MaxLinks => q \in Paths
  <2>1. SUFFICES ASSUME Len(p) < MaxLinks PROVE q \in Paths
    OBVIOUS
  <2>2. PICK n \in 0 .. MaxLinks : n = Len(q)
    BY <1>1, <1>2, <2>1
  <2>3. q \in [1 .. n -> Subdirs]
    BY <1>2, <2>2, LenProperties, ElementOfSeq
  <2> HIDE DEF q
  <2> QED
    BY <2>3 DEF Paths
<1> HIDE DEF q
<1>4. Parent(Way(k, q)) = Below(Ways, Parent(Way(k, p)), sub)
  <2>1. PICK n \in Nat : n = Len(p)
    BY <1>1
  <2>2. n + 1 \in 1 .. Len(q) /\ (n + 1) - 1 = n /\ Len(q) \in Nat /\ q[n + 1] = sub
    BY <1>2, <2>1
  <2>3. NodesOn(Ways, node, q)[n + 1] = Below(Ways, NodesOn(Ways, node, q)[n], sub)
    BY <2>2, NodesFollow
  <2>4. NodesOn(Ways, node, q)[n] = NodesOn(Ways, node, p)[n]
    BY <1>2, <2>1, <2>2, SameStart
  <2> QED
    BY <1>2, <2>1, <2>3, <2>4, WayFacts
<1>5. ParentName(Way(k, q)) = sub
  BY <1>2, WayFacts
<1> QED
  BY <1>2, <1>3, <1>4, <1>5 DEF q

(* The way to a place below p leads through the directory of p.            *)
LEMMA ParentOn ==
    ASSUME NEW k, NEW c \in Spots(k), NEW p \in Paths, Under(p, c)
    PROVE  NodesOn(Ways, Sources[k].node, c.path)[Len(p)] = Parent(Way(k, p))
<1>1. Len(p) \in Nat /\ Len(c.path) \in Nat
  BY PlaceFacts, PathFacts
<1>2. NodesOn(Ways, Sources[k].node, c.path)[Len(p)] = NodesOn(Ways, Sources[k].node, p)[Len(p)]
  BY <1>1, SameStart DEF Under
<1> QED
  BY <1>2, WayFacts

LEMMA SpotFacts ==
    ASSUME NEW k, NEW c \in Spots(k)
    PROVE  Parent(c) = Parent(Way(k, c.path)) /\ ParentName(c) = ParentName(Way(k, c.path))
<1>1. c.source = k
  BY PlaceFacts
<1> QED
  BY <1>1 DEF Way, Parent, ParentName

(* The way ends in this directory.                                         *)
LEMMA EndsHere ==
    ASSUME NEW k, NEW c \in Spots(k), NEW p \in Paths, Under(p, c), NextName(c, p) \notin Subdirs
    PROVE  c.path = p /\ c.leaf = NextName(c, p)
<1>1. PICK q \in Seq(Subdirs) : q = c.path
  BY PlaceFacts, PathFacts
<1>2. p \in Seq(Subdirs) /\ Len(p) \in Nat /\ Len(q) \in Nat
  BY <1>1, PathFacts, LenProperties
<1>3. Len(p) = Len(q)
  <2>1. SUFFICES ASSUME Len(p) < Len(q) PROVE FALSE
    BY <1>1, <1>2 DEF Under
  <2>2. Len(p) + 1 \in 1 .. Len(q)
    BY <1>2, <2>1
  <2> QED
    BY <1>1, <2>2, PlaceFacts DEF NextName
<1>4. p = q
  BY <1>1, <1>2, <1>3, SeqEqual DEF Under
<1> QED
  BY <1>1, <1>3, <1>4, PlaceFacts DEF NextName

(* The way of a candidate goes on into a subdirectory, which is there.     *)
LEMMA GoesDown ==
    ASSUME fs \in FileSystem, layout \in Layouts, NEW k, NEW c \in CandidatesOf(k),
           NEW p \in Paths, Under(p, c), NEW sub \in Subdirs, NextName(c, p) = sub
    PROVE  /\ Len(p) < MaxLinks /\ Append(p, sub) \in Paths /\ Under(Append(p, sub), c)
           /\ Parent(Way(k, Append(p, sub))) \in Dirs
<1>1. c \in Spots(k) /\ IsPlace(c)
  BY CandidateFacts
<1>2. PICK q \in Paths : q = c.path
  BY <1>1, PlaceFacts
<1>3. /\ q \in Seq(Subdirs) /\ Len(q) \in 0 .. MaxLinks /\ MaxLinks \in Nat
      /\ p \in Seq(Subdirs) /\ Len(p) \in Nat
  BY PathFacts, SurroundingsAssumption
<1>4. Len(p) < Len(q) /\ q[Len(p) + 1] = sub
  <2>1. Len(p) <= Len(q)
    BY <1>2 DEF Under
  <2>2. Len(p) # Len(q)
    <3>1. SUFFICES ASSUME Len(p) = Len(q) PROVE FALSE
      OBVIOUS
    <3>2. c.leaf = sub /\ c.leaf \in Leaves \cup {"itself"}
      BY <1>1, <1>2, <3>1, PlaceFacts DEF NextName
    <3> QED
      BY <3>2 DEF Leaves, Subdirs
  <2>3. Len(p) + 1 \in 1 .. Len(q)
    BY <1>3, <2>1, <2>2
  <2> QED
    BY <1>1, <1>2, <1>3, <2>1, <2>2, <2>3, PlaceFacts DEF NextName
<1>5. Len(p) < MaxLinks /\ Append(p, sub) \in Paths
  <2>1. Len(p) < MaxLinks
    BY <1>3, <1>4
  <2> QED
    BY <2>1, OneDown
<1>6. Under(Append(p, sub), c)
  <2>1. PICK w \in Paths : w = Append(p, sub)
    BY <1>5
  <2>2. Len(w) = Len(p) + 1 /\ (\A i \in 1 .. Len(p) : w[i] = p[i]) /\ w[Len(p) + 1] = sub
    BY <2>1, OneDown
  <2>3. \A i \in 1 .. Len(p) : p[i] = q[i]
    BY <1>2 DEF Under
  <2>4. \A i \in 1 .. Len(w) : w[i] = q[i]
    BY <1>3, <1>4, <2>2, <2>3
  <2> QED
    BY <1>2, <1>3, <1>4, <2>1, <2>2, <2>4 DEF Under
<1>7. Parent(Way(k, Append(p, sub))) \in Dirs
  <2>1. Parent(Way(k, Append(p, sub))) \in Dirs \cup {Absent}
    <3>1. Parent(Way(k, Append(p, sub))) = Below(Ways, Parent(Way(k, p)), sub)
      BY OneDown
    <3>2. Ways \in WaysSet
      BY WaysTyped
    <3> QED
      BY <3>1, <3>2, BelowTyped
  <2>2. Parent(Way(k, Append(p, sub))) # Absent
    <3>1. SUFFICES ASSUME Parent(Way(k, Append(p, sub))) = Absent PROVE FALSE
      OBVIOUS
    <3>2. PICK w \in Paths : w = Append(p, sub)
      BY <1>5
    <3>3. Len(w) \in 1 .. Len(q)
      BY <1>3, <1>4, <3>2, OneDown
    <3>4. NodesOn(Ways, Sources[k].node, q)[Len(w)] = Absent
      BY <1>1, <1>2, <1>6, <3>1, <3>2, ParentOn
    <3>5. NodesOn(Ways, Sources[k].node, q)[Len(q)] = Absent
      BY <1>3, <3>3, <3>4, WaysTyped, AbsentStays
    <3>6. Parent(c) = Absent
      BY <1>1, <1>2, <3>5, SpotFacts, WayFacts
    <3> QED
      BY <1>1, <3>6, SurroundingsAssumption DEF IsPlace
  <2> QED
    BY <2>1, <2>2
<1> QED
  BY <1>5, <1>6, <1>7

LEMMA EntryFacts ==
    ASSUME NEW node \in Dirs \cup Files, NEW name \in SkillNames, NEW markdown \in BOOLEAN,
           NEW depth \in Nat
    PROVE  /\ Entry(node, name, markdown, depth) \in Entries
           /\ Entry(node, name, markdown, depth).node = node
           /\ Entry(node, name, markdown, depth).name = name
BY DEF Entry, Entries

LEMMA NamesTyped ==
    ASSUME layout \in Layouts, NEW k \in 1 .. Len(Sources), NEW p \in Paths
    PROVE  ParentName(Way(k, p)) \in SkillNames
<1>1. p # <<>> => p[Len(p)] \in Subdirs
  <2>1. p \in Seq(Subdirs) /\ Len(p) \in Nat
    BY PathFacts, SurroundingsAssumption
  <2>2. p # <<>> => Len(p) \in 1 .. Len(p)
    BY <2>1, EmptySeq
  <2> QED
    BY <2>1, <2>2, ElementOfSeq
<1>2. Sources[k].name \in {"x", "skills"}
  BY SourcesTyped DEF SourceSet
<1> QED
  BY <1>1, <1>2, WayFacts DEF SkillNames, Subdirs

(* list stands for what is below p behind the names, in their order.       *)
Spread(k, list, p, names) ==
    /\ list \in Seq(Entries) /\ names \subseteq EntryNames
    /\ \A d \in CandidatesOf(k) : Under(p, d) /\ NextName(d, p) \in names =>
          \E i \in 1 .. Len(list) : Covers(k, list[i], d)
    /\ \A i \in 1 .. Len(list) : \E x \in names :
          /\ Stands(k, list[i], Append(p, x))
          /\ \A d \in CandidatesOf(k) :
                (Under(p, d) /\ NextName(d, p) \in names /\ Rank(NextName(d, p)) < Rank(x)) =>
                    \E j \in 1 .. i - 1 : Covers(k, list[j], d)

LEMMA SpreadOne ==
    ASSUME NEW k, NEW item \in Entries, NEW p, NEW x \in EntryNames, Stands(k, item, Append(p, x)),
           \A d \in CandidatesOf(k) : Under(p, d) /\ NextName(d, p) = x => Covers(k, item, d)
    PROVE  Spread(k, <<item>>, p, {x})
<1>1. <<item>> \in Seq(Entries) /\ Len(<<item>>) = 1 /\ <<item>>[1] = item
  OBVIOUS
<1>2. Rank(x) < Rank(x) <=> FALSE
  BY Ranks DEF EntryNames, Leaves, Subdirs
<1> QED
  BY <1>1, <1>2 DEF Spread

LEMMA SpreadNone ==
    ASSUME NEW k, NEW p, NEW x \in EntryNames,
           \A d \in CandidatesOf(k) : Under(p, d) => NextName(d, p) # x
    PROVE  Spread(k, <<>>, p, {x})
<1>1. <<>> \in Seq(Entries) /\ Len(<<>>) = 0
  OBVIOUS
<1> QED
  BY <1>1 DEF Spread

LEMMA SpreadJoin ==
    ASSUME NEW k, NEW p, NEW A, NEW B, NEW a, NEW b, Spread(k, a, p, A), Spread(k, b, p, B),
           \A x \in A, y \in B : Rank(x) < Rank(y) /\ ~(Rank(y) < Rank(x))
    PROVE  Spread(k, a \o b, p, A \cup B)
<1>1. a \in Seq(Entries) /\ b \in Seq(Entries) /\ A \subseteq EntryNames /\ B \subseteq EntryNames
  BY DEF Spread
<1>2. PICK m \in Nat, n \in Nat : m = Len(a) /\ n = Len(b)
  BY <1>1, LenProperties
<1>3. /\ a \o b \in Seq(Entries) /\ Len(a \o b) = m + n
      /\ \A i \in 1 .. m : (a \o b)[i] = a[i]
      /\ \A i \in 1 .. n : (a \o b)[m + i] = b[i]
  <2>1. \A i \in 1 .. Len(a) + Len(b) :
           (a \o b)[i] = IF i <= Len(a) THEN a[i] ELSE b[i - Len(a)]
    BY <1>1, ConcatProperties
  <2>2. a \o b \in Seq(Entries) /\ Len(a \o b) = Len(a) + Len(b)
    BY <1>1, ConcatProperties
  <2>3. ASSUME NEW i \in 1 .. n PROVE (a \o b)[m + i] = b[i]
    <3>1. m + i \in 1 .. m + n /\ ~(m + i <= m) /\ (m + i) - m = i
      OBVIOUS
    <3> QED
      BY <1>2, <2>1, <3>1
  <2> QED
    BY <1>2, <2>1, <2>2, <2>3
<1>4. PICK c \in Seq(Entries) : c = a \o b
  BY <1>3
<1>5. ASSUME NEW d \in CandidatesOf(k), Under(p, d), NextName(d, p) \in A \cup B
      PROVE  \E i \in 1 .. m + n : Covers(k, c[i], d)
  <2>1. CASE NextName(d, p) \in A
    <3>1. PICK i \in 1 .. m : Covers(k, a[i], d)
      BY <1>2, <1>5, <2>1 DEF Spread
    <3>2. i \in 1 .. m + n /\ c[i] = a[i]
      BY <1>3, <1>4
    <3> QED
      BY <3>1, <3>2
  <2>2. CASE NextName(d, p) \in B
    <3>1. PICK i \in 1 .. n : Covers(k, b[i], d)
      BY <1>2, <1>5, <2>2 DEF Spread
    <3>2. m + i \in 1 .. m + n /\ c[m + i] = b[i]
      BY <1>3, <1>4
    <3> QED
      BY <3>1, <3>2
  <2> QED
    BY <1>5, <2>1, <2>2
<1>6. ASSUME NEW i \in 1 .. m + n
      PROVE  \E x \in A \cup B :
                /\ Stands(k, c[i], Append(p, x))
                /\ \A d \in CandidatesOf(k) :
                      (Under(p, d) /\ NextName(d, p) \in A \cup B /\ Rank(NextName(d, p)) < Rank(x)) =>
                          \E j \in 1 .. i - 1 : Covers(k, c[j], d)
  <2>1. CASE i <= m
    <3>1. i \in 1 .. m /\ c[i] = a[i]
      BY <1>3, <1>4, <2>1
    <3>2. PICK x \in A :
             /\ Stands(k, a[i], Append(p, x))
             /\ \A d \in CandidatesOf(k) :
                   (Under(p, d) /\ NextName(d, p) \in A /\ Rank(NextName(d, p)) < Rank(x)) =>
                       \E j \in 1 .. i - 1 : Covers(k, a[j], d)
      BY <1>2, <3>1 DEF Spread
    <3>3. ASSUME NEW d \in CandidatesOf(k), Under(p, d), NextName(d, p) \in A \cup B,
                 Rank(NextName(d, p)) < Rank(x)
          PROVE  \E j \in 1 .. i - 1 : Covers(k, c[j], d)
      <4>1. NextName(d, p) \in A
        BY <3>3
      <4>2. PICK j \in 1 .. i - 1 : Covers(k, a[j], d)
        BY <3>2, <3>3, <4>1
      <4>3. c[j] = a[j]
        BY <1>3, <1>4, <3>1
      <4> QED
        BY <4>2, <4>3
    <3> QED
      BY <3>1, <3>2, <3>3
  <2>2. CASE ~(i <= m)
    <3>1. PICK h \in 1 .. n : i = m + h /\ c[i] = b[h]
      <4>1. i - m \in 1 .. n /\ i = m + (i - m)
        BY <2>2
      <4> QED
        BY <1>3, <1>4, <4>1
    <3>2. PICK x \in B :
             /\ Stands(k, b[h], Append(p, x))
             /\ \A d \in CandidatesOf(k) :
                   (Under(p, d) /\ NextName(d, p) \in B /\ Rank(NextName(d, p)) < Rank(x)) =>
                       \E j \in 1 .. h - 1 : Covers(k, b[j], d)
      BY <1>2 DEF Spread
    <3>3. ASSUME NEW d \in CandidatesOf(k), Under(p, d), NextName(d, p) \in A \cup B,
                 Rank(NextName(d, p)) < Rank(x)
          PROVE  \E j \in 1 .. i - 1 : Covers(k, c[j], d)
      <4>1. CASE NextName(d, p) \in A
        <5>1. PICK j \in 1 .. m : Covers(k, a[j], d)
          BY <1>2, <3>3, <4>1 DEF Spread
        <5>2. j \in 1 .. i - 1 /\ c[j] = a[j]
          BY <1>3, <1>4, <3>1, SMTT(30)
        <5> QED
          BY <5>1, <5>2
      <4>2. CASE NextName(d, p) \in B
        <5>1. PICK j \in 1 .. h - 1 : Covers(k, b[j], d)
          BY <3>2, <3>3, <4>2
        <5>2. m + j \in 1 .. i - 1 /\ j \in 1 .. n
          BY <3>1
        <5>3. c[m + j] = b[j]
          BY <1>3, <1>4, <5>2
        <5> QED
          BY <5>1, <5>2, <5>3
      <4> QED
        BY <3>3, <4>1, <4>2
    <3> QED
      BY <3>1, <3>2, <3>3
  <2> QED
    BY <2>1, <2>2
<1>7. Len(c) = m + n
  BY <1>3, <1>4
<1>8. Spread(k, c, p, A \cup B)
  BY <1>1, <1>5, <1>6, <1>7 DEF Spread
<1> QED
  BY <1>4, <1>8

(* A file in the directory.                                                *)
LEMMA FileSpreads ==
    ASSUME fs \in FileSystem, layout \in Layouts, NEW k \in 1 .. Len(Sources), NEW p \in Paths,
           NEW at, IsDirectory(k, at, p), NEW leaf \in Leaves,
           fs.entry[at.node][leaf] # Absent, ~Ignored(at.node, leaf),
           leaf = "a.md" => ~Declared(at.node) /\ (p # <<>> \/ Sources[k].markdown)
    PROVE  Spread(k, FileIn(at.node, leaf, at.name), p, {leaf})
<1> DEFINE dir == Parent(Way(k, p))
           c == Spot(k, p, leaf)
           item == Entry(fs.entry[at.node][leaf], at.name, leaf # "SKILL.md", 0)
<1>1. at.node = dir /\ at.name = ParentName(Way(k, p)) /\ dir \in Dirs
  BY DEF IsDirectory, Entry
<1>2. fs.entry[at.node][leaf] \in Files
  BY <1>1 DEF FileSystem
<1>3. at.name \in SkillNames
  BY <1>1, NamesTyped
<1>4. item \in Entries /\ item.node = fs.entry[at.node][leaf] /\ item.name = at.name
  <2>1. PICK markdown \in BOOLEAN : markdown = (leaf # "SKILL.md")
    OBVIOUS
  <2>2. PICK target \in Dirs \cup Files : target = fs.entry[at.node][leaf]
    BY <1>2
  <2>3. 0 \in Nat
    OBVIOUS
  <2>4. /\ Entry(target, at.name, markdown, 0) \in Entries
        /\ Entry(target, at.name, markdown, 0).node = target
        /\ Entry(target, at.name, markdown, 0).name = at.name
    BY <1>3, <2>3, EntryFacts
  <2>5. item = Entry(target, at.name, markdown, 0)
    BY <2>1, <2>2
  <2> HIDE DEF item
  <2> QED
    BY <2>2, <2>4, <2>5
<1>5. /\ c \in Spots(k) /\ c.path = p /\ c.leaf = leaf /\ c.source = k
  BY DEF Spot, Spots
<1>6. Parent(c) = dir /\ ParentName(c) = at.name
  BY <1>1, <1>5, SpotFacts
<1>7. leaf # "itself" /\ leaf \in EntryNames
  BY DEF Leaves, EntryNames
<1>8. FileOf(c) = fs.entry[at.node][leaf]
  BY <1>1, <1>5, <1>6, <1>7 DEF FileOf
<1>9. IsPlace(c)
  BY <1>1, <1>5, <1>6, <1>8 DEF IsPlace
<1>10. IsFile(k, item, c)
  BY <1>4, <1>5, <1>6, <1>8, <1>9 DEF IsFile
<1>11. Stands(k, item, Append(p, leaf))
  BY <1>5, <1>10 DEF Stands, Place
<1>12. ASSUME NEW d \in CandidatesOf(k), Under(p, d), NextName(d, p) = leaf
       PROVE  Covers(k, item, d)
  <2>1. d \in Spots(k) /\ IsPlace(d)
    BY CandidateFacts
  <2>2. leaf \notin Subdirs
    BY DEF Leaves, Subdirs
  <2>3. d.path = p /\ d.leaf = leaf
    BY <1>12, <2>1, <2>2, EndsHere
  <2>4. Parent(d) = dir /\ ParentName(d) = at.name
    BY <1>1, <2>1, <2>3, SpotFacts
  <2>5. FileOf(d) = fs.entry[at.node][leaf]
    BY <1>1, <1>7, <2>3, <2>4 DEF FileOf
  <2> QED
    BY <1>4, <2>1, <2>4, <2>5 DEF Covers, IsFile
<1>13. FileIn(at.node, leaf, at.name) = <<item>>
  BY DEF FileIn
<1> HIDE DEF item
<1> QED
  BY <1>4, <1>7, <1>11, <1>12, <1>13, SpreadOne

(* No candidate stands behind a file that is not there or not looked at.   *)
LEMMA NoFileSpreads ==
    ASSUME fs \in FileSystem, layout \in Layouts, NEW k \in 1 .. Len(Sources), NEW p \in Paths,
           NEW at, IsDirectory(k, at, p), NEW leaf \in Leaves \cup {"itself"},
           \/ leaf = "itself"
           \/ fs.entry[at.node][leaf] = Absent \/ Ignored(at.node, leaf)
           \/ leaf = "a.md" /\ (Declared(at.node) \/ ~(p # <<>> \/ Sources[k].markdown))
    PROVE  Spread(k, <<>>, p, {leaf})
<1>1. at.node = Parent(Way(k, p)) /\ at.node \in Dirs /\ at.node \notin Files
  BY SurroundingsAssumption DEF IsDirectory, Entry
<1>2. ASSUME NEW d \in CandidatesOf(k), Under(p, d), NextName(d, p) = leaf PROVE FALSE
  <2>1. d \in Spots(k) /\ IsPlace(d) /\ d.source = k
    BY CandidateFacts, PlaceFacts
  <2>2. leaf \notin Subdirs
    BY DEF Leaves, Subdirs
  <2>3. d.path = p /\ d.leaf = leaf
    BY <1>2, <2>1, <2>2, EndsHere
  <2>4. Parent(d) = at.node
    BY <1>1, <2>1, <2>3, SpotFacts
  <2> QED
    BY <1>1, <2>1, <2>3, <2>4 DEF IsPlace, FileOf, Leaves
<1> QED
  BY <1>2, SpreadNone DEF EntryNames

(* A subdirectory, where the scan goes down to it.                         *)
LEMMA DirectorySpreads ==
    ASSUME fs \in FileSystem, layout \in Layouts, NEW k \in 1 .. Len(Sources), NEW p \in Paths,
           NEW at, IsDirectory(k, at, p), NEW sub \in Subdirs, ~Declared(at.node)
    PROVE  Spread(k, Subdirectory(at, sub), p, {sub})
<1> DEFINE dir == Parent(Way(k, p))
           q == Append(p, sub)
           item == Entry(fs.subdir[at.node][sub], sub, TRUE, at.depth + 1)
<1>1. at.node = dir /\ dir \in Dirs /\ at.depth = Len(p)
  BY DEF IsDirectory, Entry
<1>2. Parent(Way(k, q)) = IF Ignored(dir, sub) THEN Absent ELSE fs.subdir[dir][sub]
  <2>1. Parent(Way(k, q)) = Below(Ways, dir, sub)
    BY OneDown
  <2>2. Below(Ways, dir, sub) = Ways[dir][sub]
    BY <1>1 DEF Below
  <2> QED
    BY <1>1, <2>1, <2>2 DEF Ways
<1>3. sub \in EntryNames /\ Len(p) \in Nat
  BY PathFacts DEF EntryNames
<1>4. CASE fs.subdir[at.node][sub] # Absent /\ ~Ignored(at.node, sub) /\ at.depth < MaxLinks
  <2>1. fs.subdir[at.node][sub] \in Dirs
    BY <1>1, <1>4 DEF FileSystem
  <2>2. item \in Entries
    <3>1. at.depth + 1 \in Nat /\ sub \in SkillNames /\ TRUE \in BOOLEAN
      BY <1>1, <1>3 DEF SkillNames, Subdirs
    <3> QED
      BY <2>1, <3>1, EntryFacts
  <2>3. /\ q \in Paths /\ q # <<>> /\ Len(q) = Len(p) + 1
        /\ ParentName(Way(k, q)) = sub
    BY <1>1, <1>4, OneDown
  <2>4. (q # <<>> \/ Sources[k].markdown) = TRUE
    BY <2>3
  <2>5. IsDirectory(k, item, q)
    BY <1>1, <1>2, <1>4, <2>1, <2>3, <2>4 DEF IsDirectory
  <2>6. Stands(k, item, q)
    BY <2>5 DEF Stands
  <2>7. ASSUME NEW d \in CandidatesOf(k), Under(p, d), NextName(d, p) = sub
        PROVE  Covers(k, item, d)
    <3>1. Under(q, d)
      BY <2>7, GoesDown
    <3> QED
      BY <2>3, <2>5, <3>1 DEF Covers
  <2>8. Subdirectory(at, sub) = <<item>>
    BY <1>4 DEF Subdirectory
  <2> HIDE DEF item, q
  <2> QED
    BY <1>3, <2>2, <2>6, <2>7, <2>8, SpreadOne DEF q
<1>5. CASE ~(fs.subdir[at.node][sub] # Absent /\ ~Ignored(at.node, sub) /\ at.depth < MaxLinks)
  <2>1. ASSUME NEW d \in CandidatesOf(k), Under(p, d), NextName(d, p) = sub PROVE FALSE
    <3>1. Len(p) < MaxLinks /\ Parent(Way(k, q)) \in Dirs
      BY <2>1, GoesDown
    <3> QED
      BY <1>1, <1>2, <1>5, <3>1, SurroundingsAssumption
  <2>2. Subdirectory(at, sub) = <<>>
    BY <1>5 DEF Subdirectory
  <2> QED
    BY <1>3, <2>1, <2>2, SpreadNone
<1> QED
  BY <1>4, <1>5

(* Nothing but SKILL.md, where it is declared.                             *)
LEMMA NoDirectorySpreads ==
    ASSUME fs \in FileSystem, layout \in Layouts, NEW k \in 1 .. Len(Sources), NEW p \in Paths,
           NEW at, IsDirectory(k, at, p), NEW sub \in Subdirs, Declared(at.node)
    PROVE  Spread(k, <<>>, p, {sub})
<1>1. at.node = Parent(Way(k, p)) /\ at.node \in Dirs
  BY DEF IsDirectory, Entry
<1>2. Parent(Way(k, Append(p, sub))) = Absent
  <2>1. Parent(Way(k, Append(p, sub))) = Below(Ways, at.node, sub)
    BY <1>1, OneDown
  <2> QED
    BY <1>1, <2>1 DEF Below, Ways
<1>3. ASSUME NEW d \in CandidatesOf(k), Under(p, d), NextName(d, p) = sub PROVE FALSE
  BY <1>2, <1>3, GoesDown, SurroundingsAssumption
<1> QED
  BY <1>3, SpreadNone DEF EntryNames

(* What visit leaves to visit stands for all that is below p.              *)
LEMMA VisitSpreads ==
    ASSUME fs \in FileSystem, layout \in Layouts, NEW k \in 1 .. Len(Sources), NEW p \in Paths,
           NEW at, IsDirectory(k, at, p)
    PROVE  Spread(k, visit(at), p, EntryNames)
<1> DEFINE declared == IF Declared(at.node) THEN FileIn(at.node, "SKILL.md", at.name) ELSE <<>>
           loose == IF Declared(at.node) THEN <<>> ELSE Loose(at)
           s1 == IF Declared(at.node) THEN <<>> ELSE Subdirectory(at, "s")
           t1 == IF Declared(at.node) THEN <<>> ELSE Subdirectory(at, "t")
<1>1. at.markdown = (p # <<>> \/ Sources[k].markdown)
  BY DEF IsDirectory, Entry
<1>2. Spread(k, <<>>, p, {"itself"})
  BY NoFileSpreads
<1>3. Spread(k, declared, p, {"SKILL.md"})
  <2>1. "SKILL.md" \in Leaves /\ "SKILL.md" # "a.md"
    BY DEF Leaves
  <2>2. CASE Declared(at.node)
    <3>1. fs.entry[at.node]["SKILL.md"] # Absent /\ ~Ignored(at.node, "SKILL.md")
      BY <2>2 DEF Declared
    <3> QED
      BY <2>1, <2>2, <3>1, FileSpreads
  <2>3. CASE ~Declared(at.node)
    <3>1. fs.entry[at.node]["SKILL.md"] = Absent \/ Ignored(at.node, "SKILL.md")
      BY <2>3 DEF Declared
    <3> QED
      BY <2>1, <2>3, <3>1, NoFileSpreads
  <2> QED
    BY <2>2, <2>3
<1>4. Spread(k, loose, p, {"a.md"})
  <2>1. "a.md" \in Leaves
    BY DEF Leaves
  <2> DEFINE here == /\ ~Declared(at.node) /\ (p # <<>> \/ Sources[k].markdown)
                     /\ fs.entry[at.node]["a.md"] # Absent /\ ~Ignored(at.node, "a.md")
  <2>2. CASE here
    <3>1. loose = FileIn(at.node, "a.md", at.name)
      BY <1>1, <2>2 DEF Loose
    <3>2. Spread(k, FileIn(at.node, "a.md", at.name), p, {"a.md"})
      BY <2>1, <2>2, FileSpreads
    <3> QED
      BY <3>1, <3>2
  <2>3. CASE ~here
    <3>1. loose = <<>>
      BY <1>1, <2>3 DEF Loose
    <3>2. Spread(k, <<>>, p, {"a.md"})
      BY <2>1, <2>3, NoFileSpreads
    <3> QED
      BY <3>1, <3>2
  <2> QED
    BY <2>2, <2>3
<1>5. Spread(k, s1, p, {"s"}) /\ Spread(k, t1, p, {"t"})
  <2>1. "s" \in Subdirs /\ "t" \in Subdirs
    BY DEF Subdirs
  <2>2. CASE Declared(at.node)
    BY <2>1, <2>2, NoDirectorySpreads
  <2>3. CASE ~Declared(at.node)
    BY <2>1, <2>3, DirectorySpreads
  <2> QED
    BY <2>2, <2>3
<1> HIDE DEF declared, loose, s1, t1
<1>6. Spread(k, <<>> \o declared, p, {"itself"} \cup {"SKILL.md"})
  <2>1. \A x \in {"itself"}, y \in {"SKILL.md"} : Rank(x) < Rank(y) /\ ~(Rank(y) < Rank(x))
    BY Ranks
  <2> QED
    BY <1>2, <1>3, <2>1, SpreadJoin
<1>7. Spread(k, (<<>> \o declared) \o loose, p, ({"itself"} \cup {"SKILL.md"}) \cup {"a.md"})
  BY <1>4, <1>6, SpreadJoin, Ranks
<1>8. Spread(k, ((<<>> \o declared) \o loose) \o s1, p,
             (({"itself"} \cup {"SKILL.md"}) \cup {"a.md"}) \cup {"s"})
  BY <1>5, <1>7, SpreadJoin, Ranks
<1>9. Spread(k, (((<<>> \o declared) \o loose) \o s1) \o t1, p,
             ((({"itself"} \cup {"SKILL.md"}) \cup {"a.md"}) \cup {"s"}) \cup {"t"})
  BY <1>5, <1>8, SpreadJoin, Ranks
<1>10. EntryNames = ((({"itself"} \cup {"SKILL.md"}) \cup {"a.md"}) \cup {"s"}) \cup {"t"}
  BY DEF EntryNames, Leaves, Subdirs
<1>11. visit(at) = (((<<>> \o declared) \o loose) \o s1) \o t1
  <2>1. /\ declared \in Seq(Entries) /\ loose \in Seq(Entries)
        /\ s1 \in Seq(Entries) /\ t1 \in Seq(Entries)
    BY <1>3, <1>4, <1>5 DEF Spread
  <2>2. CASE Declared(at.node)
    <3>1. visit(at) = declared /\ loose = <<>> /\ s1 = <<>> /\ t1 = <<>>
      BY <2>2 DEF visit, declared, loose, s1, t1
    <3> QED
      BY <2>1, <3>1
  <2>3. CASE ~Declared(at.node)
    <3>1. visit(at) = (loose \o s1) \o t1 /\ declared = <<>>
      BY <2>3 DEF visit, declared, loose, s1, t1
    <3> QED
      BY <2>1, <3>1
  <2> QED
    BY <2>2, <2>3
<1> QED
  BY <1>9, <1>10, <1>11

(* What is earlier than something in the directory of p is earlier than    *)
(* the directory, or in it and of an earlier name.                         *)
LEMMA EarlierBelow ==
    ASSUME NEW k, NEW d \in Spots(k), NEW p \in Paths, NEW x \in EntryNames,
           Earlier(Place(d), Append(p, x))
    PROVE  \/ Earlier(Place(d), p)
           \/ Under(p, d) /\ Rank(NextName(d, p)) < Rank(x)
<1>1. PICK q \in Seq(Subdirs) : q = d.path
  BY PlaceFacts, PathFacts
<1>2. PICK m \in Nat, n \in Nat : m = Len(p) /\ n = Len(q)
  BY <1>1, PathFacts, LenProperties
<1>3. DOMAIN p = 1 .. m
  BY <1>2, PathFacts
<1>4. /\ DOMAIN Append(p, x) = 1 .. m + 1
      /\ \A i \in 1 .. m : Append(p, x)[i] = p[i]
      /\ Append(p, x)[m + 1] = x
  <2>1. p \in Seq(EntryNames)
    BY PathFacts, SeqMonotonic DEF EntryNames
  <2> QED
    BY <1>2, <2>1, AppendProperties
<1>5. DOMAIN Place(d) = 1 .. n + 1 /\ \A i \in 1 .. n : Place(d)[i] = q[i]
  BY <1>1, <1>2, PlaceFacts, LenProperties, SMTT(30)
<1>6. PICK i \in 1 .. m + 1 :
         /\ i \in 1 .. n + 1
         /\ \A j \in 1 .. i - 1 : Place(d)[j] = Append(p, x)[j]
         /\ Rank(Place(d)[i]) < Rank(Append(p, x)[i])
  BY <1>4, <1>5 DEF Earlier
<1>7. CASE i <= m
  <2>1. i \in 1 .. m /\ \A j \in 1 .. i - 1 : j \in 1 .. m
    BY <1>7
  <2>2. \A j \in 1 .. i - 1 : Place(d)[j] = p[j]
    BY <1>4, <1>6, <2>1
  <2>3. Rank(Place(d)[i]) < Rank(p[i])
    BY <1>4, <1>6, <2>1
  <2>4. Earlier(Place(d), p)
    BY <1>3, <1>5, <1>6, <2>1, <2>2, <2>3 DEF Earlier
  <2> QED
    BY <2>4
<1>8. CASE i = m + 1
  <2>1. m <= n /\ \A j \in 1 .. m : p[j] = q[j]
    <3>1. m <= n /\ i - 1 = m
      BY <1>6, <1>8
    <3>2. ASSUME NEW j \in 1 .. m PROVE p[j] = q[j]
      <4>1. j \in 1 .. n /\ j \in 1 .. i - 1
        BY <3>1
      <4>2. Place(d)[j] = Append(p, x)[j]
        BY <1>6, <4>1
      <4>3. Append(p, x)[j] = p[j] /\ Place(d)[j] = q[j]
        BY <1>4, <1>5, <4>1
      <4> QED
        BY <4>2, <4>3
    <3> QED
      BY <3>1, <3>2
  <2>2. Under(p, d)
    BY <1>1, <1>2, <2>1 DEF Under
  <2>3. Rank(NextName(d, p)) < Rank(x)
    BY <1>2, <1>4, <1>6, <1>8 DEF NextName
  <2> QED
    BY <2>2, <2>3
<1> QED
  BY <1>7, <1>8

LEMMA NextNameTyped ==
    ASSUME NEW k, NEW d \in Spots(k), NEW p \in Paths, Under(p, d)
    PROVE  NextName(d, p) \in EntryNames
<1>1. PICK w \in Seq(EntryNames) : w = Place(d)
  BY PlaceFacts
<1>2. PICK m \in Nat, n \in Nat : m = Len(p) /\ n = Len(d.path)
  BY PlaceFacts, PathFacts
<1>3. m + 1 \in 1 .. Len(w)
  BY <1>1, <1>2, PlaceFacts DEF Under
<1> QED
  BY <1>1, <1>2, <1>3, ElementOfSeq DEF NextName

LEMMA PlaceIsFile ==
    ASSUME fs \in FileSystem, NEW c, IsPlace(c)
    PROVE  FileOf(c) \in Files
<1>1. CASE c.leaf = "itself"
  BY <1>1 DEF IsPlace, FileOf, Leaves
<1>2. CASE c.leaf # "itself"
  BY <1>2 DEF IsPlace, FileOf, FileSystem
<1> QED
  BY <1>1, <1>2

(* A source that is there stands for all its candidates, and nothing of it *)
(* comes before it.                                                        *)
LEMMA SourceStands ==
    ASSUME fs \in FileSystem, layout \in Layouts, NEW k \in 1 .. Len(Sources),
           Sources[k].node # Absent
    PROVE  LET item == Entry(Sources[k].node, Sources[k].name, Sources[k].markdown, 0)
           IN  /\ item \in Entries
               /\ \A d \in CandidatesOf(k) : Covers(k, item, d)
               /\ \E w : Stands(k, item, w) /\ \A d \in CandidatesOf(k) : ~Earlier(Place(d), w)
<1> DEFINE s == Sources[k]
           item == Entry(s.node, s.name, s.markdown, 0)
<1>1. /\ s.node \in Dirs \cup Files /\ s.name \in SkillNames /\ s.name \in {"x", "skills"}
      /\ s.markdown \in BOOLEAN
  BY SourcesTyped DEF SourceSet, Nodes, SkillNames
<1>2. item \in Entries /\ item.node = s.node /\ item.name = s.name
  <2>1. 0 \in Nat
    OBVIOUS
  <2> HIDE DEF s
  <2> QED
    BY <1>1, <2>1, EntryFacts
<1>3. <<>> \in Paths /\ Len(<<>>) = 0
  <2>1. 0 \in 0 .. MaxLinks
    BY SurroundingsAssumption
  <2>2. <<>> \in [1 .. 0 -> Subdirs]
    OBVIOUS
  <2> QED
    BY <2>1, <2>2 DEF Paths
<1>4. Parent(Way(k, <<>>)) = s.node /\ ParentName(Way(k, <<>>)) = s.name
  BY <1>3, WayFacts, NodesFollow
<1>5. \A d \in CandidatesOf(k) : d \in Spots(k) /\ IsPlace(d) /\ Under(<<>>, d)
  BY <1>3, CandidateFacts, PlaceFacts, PathFacts DEF Under
<1>6. CASE s.node \in Dirs
  <2>1. (<<>> # <<>> \/ s.markdown) = s.markdown
    BY <1>1
  <2>2. IsDirectory(k, item, <<>>)
    BY <1>3, <1>4, <1>6, <2>1 DEF IsDirectory
  <2>3. \A d \in CandidatesOf(k) : Covers(k, item, d)
    BY <1>3, <1>5, <2>2 DEF Covers
  <2>4. \A d : ~Earlier(Place(d), <<>>)
    BY DEF Earlier
  <2>5. Stands(k, item, <<>>)
    BY <2>2 DEF Stands
  <2> HIDE DEF item
  <2>6. \E w : Stands(k, item, w) /\ \A d \in CandidatesOf(k) : ~Earlier(Place(d), w)
    BY <2>4, <2>5
  <2> QED
    BY <1>2, <2>3, <2>6 DEF item
<1>7. CASE s.node \in Files
  <2> DEFINE c == Spot(k, <<>>, "itself")
  <2>1. c \in Spots(k) /\ c.path = <<>> /\ c.leaf = "itself" /\ c.source = k
    BY <1>3 DEF Spot, Spots
  <2>2. Parent(c) = s.node /\ ParentName(c) = s.name
    BY <1>4, <2>1, SpotFacts
  <2>3. IsPlace(c) /\ FileOf(c) = s.node
    BY <1>7, <2>1, <2>2 DEF IsPlace, FileOf
  <2>4. IsFile(k, item, c)
    BY <1>2, <2>1, <2>2, <2>3 DEF IsFile
  <2>5. ASSUME NEW d \in CandidatesOf(k) PROVE Covers(k, item, d)
    <3>1. d.path = <<>>
      <4>1. SUFFICES ASSUME d.path # <<>> PROVE FALSE
        OBVIOUS
      <4>2. PICK q \in Paths : q = d.path
        BY <1>5, PlaceFacts
      <4>3. q \in Seq(Subdirs) /\ Len(q) \in Nat /\ 1 \in 1 .. Len(q)
        BY <4>1, <4>2, PathFacts, EmptySeq, SurroundingsAssumption
      <4>4. NodesOn(Ways, s.node, q)[1] = Below(Ways, NodesOn(Ways, s.node, q)[0], q[1])
            /\ NodesOn(Ways, s.node, q)[0] = s.node
        <5>1. 1 - 1 = 0
          OBVIOUS
        <5> QED
          BY <4>3, <5>1, NodesFollow
      <4>5. NodesOn(Ways, s.node, q)[1] = Absent
        BY <1>7, <4>4, SurroundingsAssumption DEF Below
      <4>6. NodesOn(Ways, s.node, q)[Len(q)] = Absent
        BY <4>3, <4>5, WaysTyped, AbsentStays
      <4>7. Parent(d) = Absent
        BY <1>5, <4>2, <4>6, SpotFacts, WayFacts
      <4> QED
        BY <1>5, <4>7, SurroundingsAssumption DEF IsPlace
    <3>2. Parent(d) = s.node /\ ParentName(d) = s.name
      BY <1>4, <1>5, <3>1, SpotFacts
    <3>3. FileOf(d) = s.node
      <4>1. s.node \notin Dirs
        BY <1>7, SurroundingsAssumption
      <4>2. d.leaf = "itself"
        BY <1>5, <3>2, <4>1 DEF IsPlace
      <4> QED
        BY <3>2, <4>2 DEF FileOf
    <3> QED
      BY <1>2, <1>5, <3>2, <3>3 DEF Covers, IsFile
  <2>6. ASSUME NEW d \in CandidatesOf(k) PROVE ~Earlier(Place(d), Place(c))
    <3>1. SUFFICES ASSUME Earlier(Place(d), Place(c)) PROVE FALSE
      OBVIOUS
    <3>2. Place(c) = <<"itself">>
      <4>1. Append(<<>>, "itself") = <<"itself">>
        OBVIOUS
      <4> HIDE DEF c
      <4> QED
        BY <2>1, <4>1 DEF Place
    <3>3. PICK w \in Seq(EntryNames) : w = Place(d) /\ Len(w) = Len(d.path) + 1
      BY <1>5, PlaceFacts
    <3>4. 1 \in DOMAIN w /\ Rank(w[1]) < Rank("itself")
      BY <3>1, <3>2, <3>3 DEF Earlier
    <3>5. w[1] \in EntryNames
      BY <3>3, <3>4, ElementOfSeq, LenProperties
    <3> QED
      BY <3>4, <3>5, Ranks DEF EntryNames, Leaves, Subdirs
  <2>7. Stands(k, item, Place(c))
    BY <2>1, <2>4 DEF Stands
  <2> HIDE DEF item, c
  <2>8. \E w : Stands(k, item, w) /\ \A d \in CandidatesOf(k) : ~Earlier(Place(d), w)
    BY <2>6, <2>7
  <2> QED
    BY <1>2, <2>5, <2>8 DEF item
<1> QED
  BY <1>1, <1>6, <1>7

LEMMA NoSource ==
    ASSUME fs \in FileSystem, layout \in Layouts, NEW k \in 1 .. Len(Sources),
           Sources[k].node = Absent
    PROVE  CandidatesOf(k) = {}
<1> SUFFICES ASSUME NEW d \in CandidatesOf(k) PROVE FALSE
  OBVIOUS
<1>1. d \in Spots(k) /\ IsPlace(d)
  BY CandidateFacts
<1>2. PICK q \in Paths : q = d.path
  BY <1>1, PlaceFacts
<1>3. q \in Seq(Subdirs) /\ Len(q) \in Nat
  BY PathFacts, SurroundingsAssumption
<1>4. NodesOn(Ways, Absent, q)[Len(q)] = Absent
  <2>1. CASE Len(q) = 0
    BY <1>3, <2>1, NodesFollow
  <2>2. CASE Len(q) # 0
    <3>1. 1 \in 1 .. Len(q) /\ 1 - 1 = 0
      BY <1>3, <2>2
    <3>2. NodesOn(Ways, Absent, q)[1] = Below(Ways, Absent, q[1])
      BY <1>3, <3>1, NodesFollow
    <3>3. NodesOn(Ways, Absent, q)[1] = Absent
      BY <3>2, SurroundingsAssumption DEF Below
    <3> QED
      BY <1>3, <3>1, <3>3, WaysTyped, AbsentStays
  <2> QED
    BY <2>1, <2>2
<1>5. Parent(d) = Absent
  BY <1>1, <1>2, <1>4, SpotFacts, WayFacts
<1> QED
  BY <1>1, <1>5, SurroundingsAssumption DEF IsPlace

-----------------------------------------------------------------------------
(* Discovery: the skills.                                                  *)

(* A skill was looked at by Select: its name or its file is chosen ...     *)
Handled(skill) ==
    \E i \in 1 .. Len(selected) : selected[i].name = skill.name \/ selected[i].file = skill.file

(* ... and its file is, or it is reported.                                 *)
Reported(skill) ==
    \/ <<"collision", skill.file>> \in diagnostics
    \/ \E i \in 1 .. Len(selected) : selected[i].file = skill.file

Seen(d) == Handled(SkillOf(d)) /\ Reported(SkillOf(d))

Loaded(d, n) == \E i \in 1 .. n : found[i] = SkillOf(d)

Waiting(d, n) ==
    Seen(d) \/ Loaded(d, Len(found)) \/ \E i \in 1 .. n : Covers(source, agenda[i], d)

ScanTyped ==
    /\ fs \in FileSystem /\ layout \in Layouts
    /\ source \in 0 .. Len(Sources)
    /\ agenda \in Seq(Entries) /\ found \in Seq(Skills) /\ selected \in Seq(Skills)
    /\ agenda # <<>> => source # 0
    /\ phase \in {"context", "done"} => source = Len(Sources) /\ agenda = <<>> /\ found = <<>>

(* The sources before this one are done with, and of this one nothing is   *)
(* forgotten.                                                              *)
NothingForgotten ==
    /\ \A d \in Candidates : d.source < source => Seen(d)
    /\ \A d \in CandidatesOf(source) : Waiting(d, Len(agenda))

(* What is to be visited, and what was found, is in the order of precedence.*)
AgendaInOrder ==
    \A i \in 1 .. Len(agenda) : \E w :
        /\ Stands(source, agenda[i], w)
        /\ \A d \in CandidatesOf(source) : Earlier(Place(d), w) => Waiting(d, i - 1)

FoundInOrder ==
    \A i \in 1 .. Len(found) : \E c \in CandidatesOf(source) :
        /\ found[i] = SkillOf(c)
        /\ \A d \in CandidatesOf(source) :
              Earlier(Place(d), Place(c)) => Seen(d) \/ Loaded(d, i - 1)

(* A skill before the i-th has its name, or its file.                      *)
TakenBefore(skill, i) ==
    \E j \in 1 .. i - 1 : selected[j].name = skill.name \/ selected[j].file = skill.file

SelectedFirst ==
    \A i \in 1 .. Len(selected) : \E c \in Candidates :
        /\ SkillOf(c) = selected[i]
        /\ \A d \in Candidates : Before(d, c) => TakenBefore(SkillOf(d), i)

SelectedOnce ==
    /\ canonical = {selected[i].file : i \in 1 .. Len(selected)}
    /\ \A i, j \in 1 .. Len(selected) :
          i # j => selected[i].name # selected[j].name /\ selected[i].file # selected[j].file

ScanInv ==
    /\ ScanTyped /\ NothingForgotten /\ AgendaInOrder /\ FoundInOrder
    /\ SelectedFirst /\ SelectedOnce

LEMMA ScanInit == DiscoveryInit => ScanInv
<1> SUFFICES ASSUME DiscoveryInit PROVE ScanInv
  OBVIOUS
<1>1. fs \in FileSystem /\ layout \in Layouts
  BY SurroundingsAssumption DEF DiscoveryInit
<1>2. source = 0 /\ agenda = <<>> /\ found = <<>> /\ selected = <<>> /\ canonical = {}
      /\ phase = "skills"
  BY DEF DiscoveryInit
<1>3. \A d \in Candidates : d.source \in 1 .. Len(Sources)
  BY <1>1, SourcesTyped DEF Candidates
<1>4. Len(Sources) \in Nat
  BY <1>1, SourcesTyped
<1>5. ScanTyped
  <2>1. source \in 0 .. Len(Sources)
    BY <1>2, <1>4
  <2>2. agenda \in Seq(Entries) /\ found \in Seq(Skills) /\ selected \in Seq(Skills)
    BY <1>2, EmptySeq
  <2> QED
    BY <1>1, <1>2, <2>1, <2>2 DEF ScanTyped
<1>6. NothingForgotten
  <2>1. \A d \in Candidates : ~(d.source < 0) /\ d.source # 0
    BY <1>3, <1>4
  <2> QED
    BY <1>2, <2>1 DEF NothingForgotten, CandidatesOf
<1>7. AgendaInOrder /\ FoundInOrder /\ SelectedFirst
  <2>1. Len(<<>>) = 0
    OBVIOUS
  <2> QED
    BY <1>2, <2>1 DEF AgendaInOrder, FoundInOrder, SelectedFirst
<1>8. SelectedOnce
  <2>1. 1 .. Len(<<>>) = {}
    OBVIOUS
  <2> QED
    BY <1>2, <2>1 DEF SelectedOnce
<1> QED
  BY <1>5, <1>6, <1>7, <1>8 DEF ScanInv

(* Steps that leave the chosen skills alone keep what is known of them.    *)
LEMMA ChoiceKept ==
    ASSUME ScanInv, UNCHANGED <<fs, layout, selected, canonical>>, diagnostics \subseteq diagnostics'
    PROVE  /\ SelectedFirst' /\ SelectedOnce'
           /\ \A d : Seen(d) => Seen(d)'
           /\ \A k : CandidatesOf(k)' = CandidatesOf(k)
<1>1. Candidates' = Candidates /\ \A c : SkillOf(c)' = SkillOf(c)
  BY Kept
<1>2. SelectedFirst'
  BY <1>1 DEF ScanInv, SelectedFirst, TakenBefore
<1>3. SelectedOnce'
  BY DEF ScanInv, SelectedOnce
<1>4. \A d : Seen(d) => Seen(d)'
  BY <1>1 DEF Seen, Handled, Reported
<1>5. \A k : CandidatesOf(k)' = CandidatesOf(k)
  BY <1>1 DEF CandidatesOf
<1> QED
  BY <1>2, <1>3, <1>4, <1>5

(* The next source begins when the last one is done with.                  *)
LEMMA NextSourceKeeps ==
    ASSUME ScanInv, NextSource
    PROVE  ScanInv'
<1>1. /\ fs' = fs /\ layout' = layout /\ phase' = phase /\ phase = "skills"
      /\ found' = found /\ selected' = selected /\ canonical' = canonical
      /\ agenda = <<>> /\ found = <<>> /\ source' = source + 1 /\ source < Len(Sources)
      /\ diagnostics \subseteq diagnostics'
  BY DEF NextSource
<1>2. ScanTyped /\ NothingForgotten
  BY DEF ScanInv
<1>3. PICK k \in 1 .. Len(Sources) : k = source + 1
  BY <1>1, <1>2 DEF ScanTyped
<1>4. /\ SelectedFirst' /\ SelectedOnce' /\ \A d : Seen(d) => Seen(d)'
      /\ \A i : CandidatesOf(i)' = CandidatesOf(i)
  BY <1>1, ChoiceKept
<1>5. /\ Sources' = Sources /\ Candidates' = Candidates
      /\ \A i, item, w : Stands(i, item, w)' <=> Stands(i, item, w)
      /\ \A i, item, d : Covers(i, item, d)' <=> Covers(i, item, d)
  BY <1>1, Kept
<1> DEFINE item == Entry(Sources[k].node, Sources[k].name, Sources[k].markdown, 0)
<1>6. \/ Sources[k].node = Absent /\ agenda' = <<>>
      \/ Sources[k].node # Absent /\ agenda' = <<item>>
  BY <1>1, <1>3, <1>5 DEF NextSource
<1>7. Len(<<>>) = 0 /\ Len(<<item>>) = 1 /\ <<item>>[1] = item
  OBVIOUS
<1>8. \A d \in Candidates : d.source < k => Seen(d)'
  <2>1. ASSUME NEW d \in CandidatesOf(source) PROVE Seen(d)
    <3>1. Waiting(d, 0)
      BY <1>1, <1>2, <1>7, <2>1 DEF NothingForgotten
    <3> QED
      BY <1>1, <1>7, <3>1 DEF Waiting, Loaded
  <2>2. ASSUME NEW d \in Candidates PROVE d.source \in Nat
    <3>1. d.source \in DOMAIN Sources
      BY DEF Candidates
    <3>2. DOMAIN Sources = 1 .. Len(Sources) /\ Len(Sources) \in Nat
      BY <1>2, SourcesTyped DEF ScanTyped
    <3> QED
      BY <3>1, <3>2
  <2>3. source \in Nat
    BY <1>2 DEF ScanTyped
  <2>4. ASSUME NEW d \in Candidates, d.source < k PROVE Seen(d)
    <3>1. d.source < source \/ d.source = source
      BY <1>3, <2>2, <2>3, <2>4
    <3> QED
      BY <1>2, <2>1, <2>4, <3>1 DEF NothingForgotten, CandidatesOf
  <2> QED
    BY <1>4, <2>4
<1>9. ASSUME Sources[k].node # Absent
      PROVE  /\ item \in Entries
             /\ \A d \in CandidatesOf(k) : Covers(k, item, d)
             /\ \E w : Stands(k, item, w) /\ \A d \in CandidatesOf(k) : ~Earlier(Place(d), w)
  BY <1>2, <1>9, SourceStands DEF ScanTyped
<1>10. Sources[k].node = Absent => CandidatesOf(k) = {}
  BY <1>2, NoSource DEF ScanTyped
<1> HIDE DEF item
<1>11. agenda' \in Seq(Entries)
  <2>1. CASE Sources[k].node = Absent
    BY <1>6, <2>1, EmptySeq
  <2>2. CASE Sources[k].node # Absent
    <3>1. item \in Entries /\ agenda' = <<item>>
      BY <1>6, <1>9, <2>2
    <3>2. \A S : \A x \in S : <<x>> \in Seq(S)
      OBVIOUS
    <3> QED
      BY <3>1, <3>2
  <2> QED
    BY <2>1, <2>2
<1>12. ScanTyped'
  BY <1>1, <1>2, <1>3, <1>5, <1>11 DEF ScanTyped
<1>13. source' = k
  BY <1>1, <1>3
<1>14. NothingForgotten'
  <2>1. ASSUME NEW d \in CandidatesOf(k) PROVE Waiting(d, Len(agenda))'
    <3>1. agenda' = <<item>> /\ Covers(k, item, d)
      BY <1>6, <1>9, <1>10, <2>1
    <3>2. 1 \in 1 .. Len(agenda') /\ Covers(source', agenda'[1], d)
      BY <1>7, <1>13, <3>1
    <3> QED
      BY <1>5, <3>2 DEF Waiting
  <2> QED
    BY <1>4, <1>5, <1>8, <1>13, <2>1 DEF NothingForgotten
<1>15. AgendaInOrder'
  <2>1. CASE Sources[k].node = Absent
    BY <1>6, <1>7, <2>1 DEF AgendaInOrder
  <2>2. CASE Sources[k].node # Absent
    <3>1. PICK w : Stands(k, item, w) /\ \A d \in CandidatesOf(k) : ~Earlier(Place(d), w)
      BY <1>9, <2>2
    <3>2. agenda' = <<item>>
      BY <1>6, <2>2
    <3>3. Stands(source, agenda[1], w)'
      BY <1>5, <1>7, <1>13, <3>1, <3>2
    <3>4. \A d \in CandidatesOf(source)' : ~Earlier(Place(d), w)
      BY <1>4, <1>13, <3>1
    <3>5. 1 .. Len(agenda') = {1}
      BY <1>7, <3>2
    <3> QED
      BY <3>3, <3>4, <3>5 DEF AgendaInOrder
  <2> QED
    BY <2>1, <2>2
<1>16. FoundInOrder'
  BY <1>1, <1>7 DEF FoundInOrder
<1> QED
  BY <1>4, <1>12, <1>14, <1>15, <1>16 DEF ScanInv

(* What an item covers is in what it is replaced by.                       *)
LEMMA VisitCovers ==
    ASSUME fs \in FileSystem, layout \in Layouts, NEW k \in 1 .. Len(Sources), NEW at,
           at.node \in Dirs, NEW d \in CandidatesOf(k), Covers(k, at, d)
    PROVE  \E i \in 1 .. Len(visit(at)) : Covers(k, visit(at)[i], d)
<1>1. ~IsFile(k, at, d)
  BY PlaceIsFile, SurroundingsAssumption DEF IsFile
<1>2. PICK p \in Paths : IsDirectory(k, at, p) /\ Under(p, d)
  BY <1>1 DEF Covers
<1>3. NextName(d, p) \in EntryNames
  BY <1>2, CandidateFacts, NextNameTyped
<1>4. Spread(k, visit(at), p, EntryNames)
  BY <1>2, VisitSpreads
<1> QED
  BY <1>2, <1>3, <1>4 DEF Spread

LEMMA VisitOrder ==
    ASSUME fs \in FileSystem, layout \in Layouts, NEW k \in 1 .. Len(Sources), NEW at,
           at.node \in Dirs, NEW p, Stands(k, at, p), NEW i \in 1 .. Len(visit(at))
    PROVE  \E w : /\ Stands(k, visit(at)[i], w)
                  /\ \A d \in CandidatesOf(k) : Earlier(Place(d), w) =>
                        \/ Earlier(Place(d), p)
                        \/ \E j \in 1 .. i - 1 : Covers(k, visit(at)[j], d)
<1>1. IsDirectory(k, at, p)
  BY PlaceIsFile, SurroundingsAssumption DEF Stands, IsFile
<1>2. p \in Paths
  BY <1>1 DEF IsDirectory
<1>3. Spread(k, visit(at), p, EntryNames)
  BY <1>1, <1>2, VisitSpreads
<1>4. PICK x \in EntryNames :
         /\ Stands(k, visit(at)[i], Append(p, x))
         /\ \A d \in CandidatesOf(k) :
               (Under(p, d) /\ NextName(d, p) \in EntryNames /\ Rank(NextName(d, p)) < Rank(x)) =>
                   \E j \in 1 .. i - 1 : Covers(k, visit(at)[j], d)
  BY <1>3 DEF Spread
<1>5. ASSUME NEW d \in CandidatesOf(k), Earlier(Place(d), Append(p, x)), ~Earlier(Place(d), p)
      PROVE  \E j \in 1 .. i - 1 : Covers(k, visit(at)[j], d)
  <2>1. d \in Spots(k)
    BY CandidateFacts
  <2>2. Under(p, d) /\ Rank(NextName(d, p)) < Rank(x)
    BY <1>2, <1>5, <2>1, EarlierBelow
  <2>3. NextName(d, p) \in EntryNames
    BY <1>2, <2>1, <2>2, NextNameTyped
  <2> QED
    BY <1>4, <2>2, <2>3
<1> QED
  BY <1>4, <1>5

(* The first and the rest of a sequence.                                   *)
LEMMA FirstAndRest ==
    ASSUME NEW S, NEW s \in Seq(S), s # <<>>
    PROVE  \E n \in Nat : /\ Len(s) = n + 1 /\ Len(Tail(s)) = n
                         /\ Head(s) = s[1] /\ s[1] \in S /\ Tail(s) \in Seq(S)
                         /\ \A i \in 1 .. n : Tail(s)[i] = s[i + 1]
<1>1. /\ Head(s) \in S /\ Tail(s) \in Seq(S)
      /\ Len(Tail(s)) = Len(s) - 1 /\ Len(s) \in Nat
      /\ \A i \in 1 .. Len(Tail(s)) : Tail(s)[i] = s[i + 1]
  BY HeadTailProperties, LenProperties
<1>2. Len(Tail(s)) \in Nat /\ Head(s) = s[1]
  BY <1>1, LenProperties
<1>3. Len(s) = Len(Tail(s)) + 1
  BY <1>1, <1>2
<1> QED
  BY <1>1, <1>2, <1>3

(* Visiting a directory: what was waiting still is, and in order.          *)
LEMMA VisitKeeps ==
    ASSUME ScanInv, VisitDirectory, phase' = phase
    PROVE  ScanInv'
<1>1. /\ fs' = fs /\ layout' = layout /\ phase = "skills" /\ source' = source
      /\ found' = found /\ selected' = selected /\ canonical' = canonical
      /\ diagnostics' = diagnostics /\ agenda # <<>>
  BY DEF VisitDirectory
<1>2. ScanTyped /\ NothingForgotten /\ AgendaInOrder /\ FoundInOrder
  BY DEF ScanInv
<1>3. PICK k \in 1 .. Len(Sources) : k = source
  <2>1. Len(Sources) \in Nat
    BY <1>2, SourcesTyped DEF ScanTyped
  <2> QED
    BY <1>1, <1>2, <2>1 DEF ScanTyped
<1>4. PICK at \in Entries, rest \in Seq(Entries), n \in Nat :
         /\ at = agenda[1] /\ rest = Tail(agenda) /\ Len(agenda) = n + 1 /\ Len(rest) = n
         /\ \A i \in 1 .. n : rest[i] = agenda[i + 1]
  <2>1. agenda \in Seq(Entries) /\ agenda # <<>>
    BY <1>1, <1>2 DEF ScanTyped
  <2>2. PICK n \in Nat : /\ Len(agenda) = n + 1 /\ Len(Tail(agenda)) = n
                        /\ agenda[1] \in Entries /\ Tail(agenda) \in Seq(Entries)
                        /\ \A i \in 1 .. n : Tail(agenda)[i] = agenda[i + 1]
    BY <2>1, FirstAndRest
  <2> QED
    BY <2>2
<1>5. /\ at.node \in Dirs /\ agenda' = visit(at) \o rest
  <2>1. Head(agenda) = at
    BY <1>1, <1>4
  <2>2. phase' # "raised"
    BY <1>1
  <2> QED
    BY <1>4, <2>1, <2>2 DEF VisitDirectory
<1>6. PICK p : /\ Stands(k, at, p)
               /\ \A d \in CandidatesOf(k) : Earlier(Place(d), p) => Waiting(d, 0)
  <2>1. 1 \in 1 .. Len(agenda) /\ 1 - 1 = 0
    BY <1>4
  <2> QED
    BY <1>2, <1>3, <1>4, <2>1 DEF AgendaInOrder
<1>7. PICK list \in Seq(Entries), m \in Nat : list = visit(at) /\ m = Len(list)
  <2>1. IsDirectory(k, at, p)
    BY <1>2, <1>5, <1>6, PlaceIsFile, SurroundingsAssumption DEF Stands, IsFile, ScanTyped
  <2>2. p \in Paths
    BY <2>1 DEF IsDirectory
  <2>3. Spread(k, visit(at), p, EntryNames)
    BY <1>2, <2>1, <2>2, VisitSpreads DEF ScanTyped
  <2> QED
    BY <2>3, LenProperties DEF Spread
<1>8. /\ agenda' \in Seq(Entries) /\ Len(agenda') = m + n
      /\ \A i \in 1 .. m : agenda'[i] = list[i]
      /\ \A h \in 1 .. n : agenda'[m + h] = agenda[h + 1]
  <2>1. /\ list \o rest \in Seq(Entries) /\ Len(list \o rest) = m + n
        /\ \A i \in 1 .. m : (list \o rest)[i] = list[i]
        /\ \A h \in 1 .. n : (list \o rest)[m + h] = rest[h]
    BY <1>4, <1>7
  <2> QED
    BY <1>4, <1>5, <1>7, <2>1
<1>9. /\ SelectedFirst' /\ SelectedOnce' /\ \A d : Seen(d) => Seen(d)'
      /\ \A i : CandidatesOf(i)' = CandidatesOf(i)
  BY <1>1, ChoiceKept
<1>10. /\ Sources' = Sources /\ Candidates' = Candidates /\ \A c : SkillOf(c)' = SkillOf(c)
       /\ \A i, item, w : Stands(i, item, w)' <=> Stands(i, item, w)
       /\ \A i, item, d : Covers(i, item, d)' <=> Covers(i, item, d)
  BY <1>1, Kept
<1>11. /\ \A d, i : Loaded(d, i)' <=> Loaded(d, i)
  BY <1>1, <1>10 DEF Loaded
(* An item h of the old agenda is among the first m + h - 1 of the new.    *)
<1>12. ASSUME NEW d \in CandidatesOf(k), NEW h \in 0 .. n, Waiting(d, h + 1)
       PROVE  Waiting(d, m + h)'
  <2>1. CASE Seen(d) \/ Loaded(d, Len(found))
    BY <1>1, <1>9, <1>11, <2>1 DEF Waiting
  <2>2. CASE \E i \in 1 .. h + 1 : Covers(k, agenda[i], d)
    <3>1. PICK i \in 1 .. h + 1 : Covers(k, agenda[i], d)
      BY <2>2
    <3>2. \E j \in 1 .. m + h : Covers(k, agenda'[j], d)
      <4>1. CASE i = 1
        <5>1. PICK j \in 1 .. m : Covers(k, list[j], d)
          BY <1>2, <1>4, <1>5, <1>7, <3>1, <4>1, VisitCovers DEF ScanTyped
        <5>2. j \in 1 .. m + h /\ agenda'[j] = list[j]
          BY <1>8, <5>1
        <5> QED
          BY <5>1, <5>2
      <4>2. CASE i # 1
        <5>1. i - 1 \in 1 .. n /\ (i - 1) + 1 = i /\ m + (i - 1) \in 1 .. m + h
          BY <3>1, <4>2
        <5>2. agenda'[m + (i - 1)] = agenda[i]
          BY <1>8, <5>1
        <5> QED
          BY <3>1, <5>1, <5>2
      <4> QED
        BY <4>1, <4>2
    <3> QED
      BY <1>1, <1>3, <1>10, <3>2 DEF Waiting
  <2> QED
    BY <1>3, <1>12, <2>1, <2>2 DEF Waiting
<1>13. ScanTyped'
  BY <1>1, <1>2, <1>8, <1>10, <1>3, <1>4 DEF ScanTyped
<1>14. NothingForgotten'
  <2>1. ASSUME NEW d \in CandidatesOf(k) PROVE Waiting(d, Len(agenda))'
    <3>1. Waiting(d, n + 1)
      BY <1>2, <1>3, <1>4, <2>1 DEF NothingForgotten
    <3>2. n \in 0 .. n
      OBVIOUS
    <3>3. Waiting(d, m + n)'
      BY <1>12, <2>1, <3>1, <3>2
    <3> QED
      BY <1>8, <3>3 DEF Waiting
  <2> QED
    BY <1>1, <1>2, <1>3, <1>9, <1>10, <2>1 DEF NothingForgotten
<1>15. AgendaInOrder'
  <2>1. ASSUME NEW i \in 1 .. m
        PROVE  \E w : /\ Stands(k, list[i], w)
                      /\ \A d \in CandidatesOf(k) : Earlier(Place(d), w) => Waiting(d, i - 1)'
    <3>1. PICK w : /\ Stands(k, list[i], w)
                   /\ \A d \in CandidatesOf(k) : Earlier(Place(d), w) =>
                         \/ Earlier(Place(d), p)
                         \/ \E j \in 1 .. i - 1 : Covers(k, list[j], d)
      BY <1>2, <1>5, <1>6, <1>7, <2>1, VisitOrder DEF ScanTyped
    <3>2. ASSUME NEW d \in CandidatesOf(k), Earlier(Place(d), w) PROVE Waiting(d, i - 1)'
      <4>1. CASE Earlier(Place(d), p)
        <5>1. Waiting(d, 0)
          BY <1>6, <4>1
        <5>2. Seen(d) \/ Loaded(d, Len(found))
          BY <5>1 DEF Waiting
        <5> QED
          BY <1>1, <1>9, <1>11, <5>2 DEF Waiting
      <4>2. CASE \E j \in 1 .. i - 1 : Covers(k, list[j], d)
        <5>1. PICK j \in 1 .. i - 1 : Covers(k, list[j], d)
          BY <4>2
        <5>2. j \in 1 .. m
          BY <2>1, <5>1
        <5>3. agenda'[j] = list[j]
          BY <1>8, <5>2
        <5>4. Covers(source, agenda[j], d)'
          BY <1>1, <1>3, <1>10, <5>1, <5>3
        <5> QED
          BY <5>1, <5>4 DEF Waiting
      <4> QED
        BY <3>1, <3>2, <4>1, <4>2
    <3> QED
      BY <3>1, <3>2
  <2>2. ASSUME NEW h \in 1 .. n
        PROVE  \E w : /\ Stands(k, agenda[h + 1], w)
                      /\ \A d \in CandidatesOf(k) : Earlier(Place(d), w) => Waiting(d, m + h - 1)'
    <3>1. h + 1 \in 1 .. Len(agenda) /\ (h + 1) - 1 = h
      BY <1>4, <2>2
    <3>2. PICK w : /\ Stands(k, agenda[h + 1], w)
                   /\ \A d \in CandidatesOf(k) : Earlier(Place(d), w) => Waiting(d, h)
      BY <1>2, <1>3, <3>1 DEF AgendaInOrder
    <3>3. PICK g \in 0 .. n : g = h - 1 /\ g + 1 = h /\ m + g = m + h - 1
      BY <2>2
    <3>4. ASSUME NEW d \in CandidatesOf(k), Earlier(Place(d), w) PROVE Waiting(d, m + h - 1)'
      <4>1. Waiting(d, g + 1)
        BY <3>2, <3>3, <3>4
      <4>2. Waiting(d, m + g)'
        BY <1>12, <4>1
      <4> QED
        BY <3>3, <4>2
    <3> QED
      BY <3>2, <3>4
  <2>3. ASSUME NEW i \in 1 .. m + n
        PROVE  \E w : /\ Stands(k, agenda'[i], w)
                      /\ \A d \in CandidatesOf(k) : Earlier(Place(d), w) => Waiting(d, i - 1)'
    <3>1. CASE i <= m
      <4>1. i \in 1 .. m
        BY <3>1
      <4>2. agenda'[i] = list[i]
        BY <1>8, <4>1
      <4> QED
        BY <2>1, <4>1, <4>2
    <3>2. CASE ~(i <= m)
      <4>1. PICK h \in 1 .. n : m + h = i
        <5>1. i - m \in 1 .. n /\ m + (i - m) = i
          BY <3>2
        <5> QED
          BY <5>1
      <4>2. agenda'[m + h] = agenda[h + 1] /\ m + h - 1 = i - 1
        BY <1>8, <4>1
      <4>3. agenda'[i] = agenda[h + 1]
        BY <4>1, <4>2
      <4> QED
        BY <2>2, <4>2, <4>3
    <3> QED
      BY <3>1, <3>2
  <2>4. \A i \in 1 .. Len(agenda') : \E w :
           /\ Stands(source, agenda[i], w)'
           /\ \A d \in CandidatesOf(source)' : Earlier(Place(d), w) => Waiting(d, i - 1)'
    BY <1>1, <1>3, <1>8, <1>9, <1>10, <2>3
  <2> QED
    BY <2>4 DEF AgendaInOrder
<1>16. FoundInOrder'
  BY <1>1, <1>2, <1>3, <1>9, <1>10, <1>11 DEF FoundInOrder
<1> QED
  BY <1>9, <1>13, <1>14, <1>15, <1>16 DEF ScanInv

(* What covers a candidate, of the files, is the candidate.                *)
LEMMA FileCovers ==
    ASSUME fs \in FileSystem, layout \in Layouts, NEW k, NEW at, at.node \in Files,
           NEW d \in CandidatesOf(k), Covers(k, at, d)
    PROVE  /\ SkillOf(d) = [name |-> Name(at.node, at.name), file |-> at.node]
           /\ fs.header[at.node] # "invalid"
<1>1. IsFile(k, at, d)
  <2>1. ASSUME NEW p \in Paths, IsDirectory(k, at, p) PROVE at.node \in Dirs
    BY <2>1 DEF IsDirectory, Entry
  <2> QED
    BY <2>1, SurroundingsAssumption DEF Covers
<1>2. at.node = FileOf(d) /\ at.name = ParentName(d)
  BY <1>1 DEF IsFile
<1>3. fs.header[FileOf(d)] # "invalid"
  BY CandidateFacts
<1> QED
  BY <1>2, <1>3 DEF SkillOf

(* Loading a file: its skill is that of the candidates it stood for.       *)
LEMMA LoadKeeps ==
    ASSUME ScanInv, _load_file
    PROVE  ScanInv'
<1>1. /\ fs' = fs /\ layout' = layout /\ phase = "skills" /\ phase' = phase /\ source' = source
      /\ selected' = selected /\ canonical' = canonical /\ agenda # <<>>
      /\ agenda' = Tail(agenda) /\ diagnostics \subseteq diagnostics'
  BY DEF _load_file
<1>2. ScanTyped /\ NothingForgotten /\ AgendaInOrder /\ FoundInOrder
  BY DEF ScanInv
<1>3. PICK k \in 1 .. Len(Sources) : k = source
  <2>1. Len(Sources) \in Nat
    BY <1>2, SourcesTyped DEF ScanTyped
  <2> QED
    BY <1>1, <1>2, <2>1 DEF ScanTyped
<1>4. PICK at \in Entries, n \in Nat :
         /\ at = agenda[1] /\ Head(agenda) = at /\ Len(agenda) = n + 1 /\ Len(agenda') = n
         /\ agenda' \in Seq(Entries) /\ \A i \in 1 .. n : agenda'[i] = agenda[i + 1]
  <2>1. agenda \in Seq(Entries) /\ agenda # <<>>
    BY <1>1, <1>2 DEF ScanTyped
  <2>2. PICK n \in Nat : /\ Len(agenda) = n + 1 /\ Len(Tail(agenda)) = n
                        /\ Head(agenda) = agenda[1]
                        /\ agenda[1] \in Entries /\ Tail(agenda) \in Seq(Entries)
                        /\ \A i \in 1 .. n : Tail(agenda)[i] = agenda[i + 1]
    BY <2>1, FirstAndRest
  <2> QED
    BY <1>1, <2>2
<1>5. /\ SelectedFirst' /\ SelectedOnce' /\ \A d : Seen(d) => Seen(d)'
      /\ \A i : CandidatesOf(i)' = CandidatesOf(i)
  BY <1>1, ChoiceKept
<1>6. /\ Sources' = Sources /\ Candidates' = Candidates /\ \A c : SkillOf(c)' = SkillOf(c)
      /\ \A i, item, w : Stands(i, item, w)' <=> Stands(i, item, w)
      /\ \A i, item, d : Covers(i, item, d)' <=> Covers(i, item, d)
  BY <1>1, Kept
<1>7. at.node \in Files
  BY <1>4 DEF _load_file
<1>8. PICK skill \in Skills : skill = [name |-> Name(at.node, at.name), file |-> at.node]
  <2>1. Name(at.node, at.name) \in SkillNames
    BY <1>4 DEF Name, Entries, SkillNames
  <2> QED
    BY <1>7, <2>1 DEF Skills
<1>9. \/ fs.header[at.node] = "invalid" /\ found' = found
      \/ fs.header[at.node] # "invalid" /\ found' = Append(found, skill)
  BY <1>4, <1>8 DEF _load_file
<1>10. PICK m \in Nat : m = Len(found) /\ found \in Seq(Skills)
  BY <1>2, LenProperties DEF ScanTyped
<1>11. /\ Append(found, skill) \in Seq(Skills) /\ Len(Append(found, skill)) = m + 1
       /\ \A i \in 1 .. m : Append(found, skill)[i] = found[i]
       /\ Append(found, skill)[m + 1] = skill
  BY <1>10, AppendProperties
<1>12. /\ found' \in Seq(Skills) /\ Len(found') \in {m, m + 1}
       /\ \A i \in 1 .. m : found'[i] = found[i]
  BY <1>9, <1>10, <1>11
<1>13. \A d, i : i \in 0 .. m /\ Loaded(d, i) => Loaded(d, i)'
  BY <1>6, <1>12 DEF Loaded
<1>14. \A d : Loaded(d, m) => Loaded(d, Len(found))'
  <2>1. ASSUME NEW d, Loaded(d, m) PROVE Loaded(d, Len(found))'
    <3>1. PICK i \in 1 .. m : found[i] = SkillOf(d)
      BY <2>1 DEF Loaded
    <3>2. i \in 1 .. Len(found') /\ found'[i] = SkillOf(d)'
      BY <1>6, <1>12, <3>1
    <3> QED
      BY <3>2 DEF Loaded
  <2> QED
    BY <2>1
<1>15. ASSUME NEW d \in CandidatesOf(k), NEW h \in 0 .. n, Waiting(d, h + 1)
       PROVE  Waiting(d, h)'
  <2>1. CASE Seen(d) \/ Loaded(d, Len(found))
    BY <1>5, <1>10, <1>14, <2>1 DEF Waiting
  <2>2. CASE \E i \in 1 .. h + 1 : Covers(k, agenda[i], d)
    <3>1. PICK i \in 1 .. h + 1 : Covers(k, agenda[i], d)
      BY <2>2
    <3>2. CASE i = 1
      <4>1. SkillOf(d) = skill /\ fs.header[at.node] # "invalid"
        BY <1>2, <1>4, <1>7, <1>8, <3>1, <3>2, FileCovers DEF ScanTyped
      <4>2. found' = Append(found, skill) /\ m + 1 \in 1 .. Len(found')
        BY <1>9, <1>11, <4>1
      <4>3. found'[m + 1] = SkillOf(d)'
        BY <1>6, <1>11, <4>1, <4>2
      <4> QED
        BY <4>2, <4>3 DEF Waiting, Loaded
    <3>3. CASE i # 1
      <4>1. PICK j \in 1 .. h : j = i - 1 /\ j + 1 = i /\ j \in 1 .. n
        BY <3>1, <3>3
      <4>2. Covers(source, agenda[j], d)'
        BY <1>1, <1>3, <1>4, <1>6, <3>1, <4>1
      <4> QED
        BY <4>1, <4>2 DEF Waiting
    <3> QED
      BY <3>2, <3>3
  <2> QED
    BY <1>3, <1>15, <2>1, <2>2 DEF Waiting
<1>16. ScanTyped'
  BY <1>1, <1>2, <1>3, <1>4, <1>6, <1>12 DEF ScanTyped
<1>17. NothingForgotten'
  <2>1. ASSUME NEW d \in CandidatesOf(k) PROVE Waiting(d, Len(agenda))'
    <3>1. Waiting(d, n + 1) /\ n \in 0 .. n
      BY <1>2, <1>3, <1>4, <2>1 DEF NothingForgotten
    <3>2. Waiting(d, n)'
      BY <1>15, <2>1, <3>1
    <3> QED
      BY <1>4, <3>2 DEF Waiting
  <2> QED
    BY <1>1, <1>2, <1>3, <1>5, <1>6, <2>1 DEF NothingForgotten
<1>18. AgendaInOrder'
  <2>1. ASSUME NEW h \in 1 .. n
        PROVE  \E w : /\ Stands(k, agenda'[h], w)
                      /\ \A d \in CandidatesOf(k) : Earlier(Place(d), w) => Waiting(d, h - 1)'
    <3>1. h + 1 \in 1 .. Len(agenda) /\ (h + 1) - 1 = h
      BY <1>4, <2>1
    <3>2. PICK w : /\ Stands(k, agenda[h + 1], w)
                   /\ \A d \in CandidatesOf(k) : Earlier(Place(d), w) => Waiting(d, h)
      BY <1>2, <1>3, <3>1 DEF AgendaInOrder
    <3>3. PICK g \in 0 .. n : g = h - 1 /\ g + 1 = h
      BY <2>1
    <3>4. ASSUME NEW d \in CandidatesOf(k), Earlier(Place(d), w) PROVE Waiting(d, h - 1)'
      <4>1. Waiting(d, g + 1)
        BY <3>2, <3>3, <3>4
      <4>2. Waiting(d, g)'
        BY <1>15, <4>1
      <4> QED
        BY <3>3, <4>2
    <3> QED
      BY <1>4, <3>2, <3>4
  <2>2. \A i \in 1 .. Len(agenda') : \E w :
           /\ Stands(source, agenda[i], w)'
           /\ \A d \in CandidatesOf(source)' : Earlier(Place(d), w) => Waiting(d, i - 1)'
    BY <1>1, <1>3, <1>4, <1>5, <1>6, <2>1
  <2> QED
    BY <2>2 DEF AgendaInOrder
<1>19. FoundInOrder'
  <2>1. ASSUME NEW i \in 1 .. m
        PROVE  \E c \in CandidatesOf(k) :
                  /\ found'[i] = SkillOf(c)
                  /\ \A d \in CandidatesOf(k) :
                        Earlier(Place(d), Place(c)) => Seen(d)' \/ Loaded(d, i - 1)'
    <3>1. PICK c \in CandidatesOf(k) :
             /\ found[i] = SkillOf(c)
             /\ \A d \in CandidatesOf(k) :
                   Earlier(Place(d), Place(c)) => Seen(d) \/ Loaded(d, i - 1)
      BY <1>2, <1>3, <1>10, <2>1 DEF FoundInOrder
    <3>2. i - 1 \in 0 .. m
      BY <2>1
    <3> QED
      BY <1>5, <1>12, <1>13, <3>1, <3>2
  <2>2. ASSUME fs.header[at.node] # "invalid"
        PROVE  \E c \in CandidatesOf(k) :
                  /\ skill = SkillOf(c)
                  /\ \A d \in CandidatesOf(k) :
                        Earlier(Place(d), Place(c)) => Seen(d)' \/ Loaded(d, m)'
    <3>1. 1 \in 1 .. Len(agenda) /\ 1 - 1 = 0
      BY <1>4
    <3>2. PICK w : /\ Stands(k, at, w)
                   /\ \A d \in CandidatesOf(k) : Earlier(Place(d), w) => Waiting(d, 0)
      BY <1>2, <1>3, <1>4, <3>1 DEF AgendaInOrder
    <3>3. PICK c \in Spots(k) : IsFile(k, at, c) /\ w = Place(c)
      <4>1. ~IsDirectory(k, at, w)
        BY <1>7, SurroundingsAssumption DEF IsDirectory, Entry
      <4> QED
        BY <3>2, <4>1 DEF Stands
    <3>4. IsPlace(c) /\ at.node = FileOf(c) /\ at.name = ParentName(c)
      BY <3>3 DEF IsFile
    <3>5. c \in CandidatesOf(k)
      <4>1. DOMAIN Sources = 1 .. Len(Sources)
        BY <1>2, SourcesTyped DEF ScanTyped
      <4>2. c \in [source : DOMAIN Sources, path : Paths, leaf : Leaves \cup {"itself"}]
            /\ c.source = k
        BY <3>3, <4>1 DEF Spots
      <4> QED
        BY <2>2, <3>4, <4>2 DEF CandidatesOf, Candidates
    <3>6. skill = SkillOf(c)
      BY <1>8, <3>4 DEF SkillOf
    <3>7. ASSUME NEW d \in CandidatesOf(k), Earlier(Place(d), Place(c))
          PROVE  Seen(d)' \/ Loaded(d, m)'
      <4>1. Waiting(d, 0)
        BY <3>2, <3>3, <3>7
      <4>2. Seen(d) \/ Loaded(d, m)
        BY <1>10, <4>1 DEF Waiting
      <4> QED
        BY <1>5, <1>13, <4>2
    <3> QED
      BY <3>5, <3>6, <3>7
  <2>3. \A i \in 1 .. Len(found') : \E c \in CandidatesOf(k) :
                  /\ found'[i] = SkillOf(c)
                  /\ \A d \in CandidatesOf(k) :
                        Earlier(Place(d), Place(c)) => Seen(d)' \/ Loaded(d, i - 1)'
    <3>1. CASE fs.header[at.node] = "invalid"
      BY <1>9, <1>10, <2>1, <3>1
    <3>2. CASE fs.header[at.node] # "invalid"
      <4>1. Len(found') = m + 1 /\ found'[m + 1] = skill /\ (m + 1) - 1 = m
        BY <1>9, <1>11, <3>2
      <4>2. ASSUME NEW i \in 1 .. m + 1
            PROVE  \E c \in CandidatesOf(k) :
                      /\ found'[i] = SkillOf(c)
                      /\ \A d \in CandidatesOf(k) :
                            Earlier(Place(d), Place(c)) => Seen(d)' \/ Loaded(d, i - 1)'
        <5>1. CASE i = m + 1
          BY <2>2, <3>2, <4>1, <5>1
        <5>2. CASE i # m + 1
          <6>1. i \in 1 .. m
            BY <5>2
          <6> QED
            BY <2>1, <6>1
        <5> QED
          BY <5>1, <5>2
      <4> QED
        BY <4>1, <4>2
    <3> QED
      BY <3>1, <3>2
  <2>4. \A i \in 1 .. Len(found') : \E c \in CandidatesOf(source)' :
                  /\ found'[i] = SkillOf(c)'
                  /\ \A d \in CandidatesOf(source)' :
                        Earlier(Place(d), Place(c)) => Seen(d)' \/ Loaded(d, i - 1)'
    BY <1>1, <1>3, <1>5, <1>6, <2>3
  <2> QED
    BY <2>4 DEF FoundInOrder
<1> QED
  BY <1>5, <1>16, <1>17, <1>18, <1>19 DEF ScanInv

(* What Select makes of a skill: all before it were looked at.             *)
LEMMA SelectChooses ==
    ASSUME ScanInv, Select
    PROVE  /\ selected' \in Seq(Skills) /\ SelectedFirst' /\ SelectedOnce'
           /\ \A d : Seen(d) => Seen(d)'
           /\ \A d : SkillOf(d) = found[1] => Seen(d)'
           /\ \A k : CandidatesOf(k)' = CandidatesOf(k)
<1>1. /\ fs' = fs /\ layout' = layout /\ source' = source /\ agenda = <<>> /\ found # <<>>
      /\ found' = Tail(found) /\ diagnostics \subseteq diagnostics'
  BY DEF Select
<1>2. ScanTyped /\ NothingForgotten /\ FoundInOrder /\ SelectedFirst /\ SelectedOnce
  BY DEF ScanInv
<1>3. /\ Candidates' = Candidates /\ \A c : SkillOf(c)' = SkillOf(c)
      /\ \A k : CandidatesOf(k)' = CandidatesOf(k)
  <2>1. Candidates' = Candidates /\ \A c : SkillOf(c)' = SkillOf(c)
    BY <1>1, Kept
  <2> QED
    BY <2>1 DEF CandidatesOf
<1>4. PICK skill \in Skills, n \in Nat : skill = found[1] /\ Head(found) = skill /\ Len(found) = n + 1
  <2>1. found \in Seq(Skills) /\ found # <<>>
    BY <1>1, <1>2 DEF ScanTyped
  <2>2. PICK n \in Nat : Len(found) = n + 1 /\ Head(found) = found[1] /\ found[1] \in Skills
    BY <2>1, FirstAndRest
  <2> QED
    BY <2>2
<1>5. PICK m \in Nat : m = Len(selected) /\ DOMAIN selected = 1 .. m /\ selected \in Seq(Skills)
  BY <1>2, LenProperties DEF ScanTyped
<1>6. CASE /\ Known(skill) /\ UNCHANGED <<selected, canonical, diagnostics>>
  <2>1. SelectedFirst' /\ SelectedOnce' /\ \A d : Seen(d) => Seen(d)'
    BY <1>1, <1>6, ChoiceKept
  <2>2. PICK i \in 1 .. Len(selected) : selected[i].file = skill.file
    BY <1>2, <1>6 DEF Known, SelectedOnce
  <2>3. \A d : SkillOf(d) = skill => Seen(d)
    BY <2>2 DEF Seen, Handled, Reported
  <2> QED
    BY <1>3, <1>4, <1>5, <1>6, <2>1, <2>3
<1>7. CASE /\ NameTaken(skill) /\ UNCHANGED <<selected, canonical>>
           /\ diagnostics' = diagnostics \cup {<<"collision", skill.file>>}
  <2>1. SelectedFirst' /\ SelectedOnce' /\ \A d : Seen(d) => Seen(d)'
    BY <1>1, <1>7, ChoiceKept
  <2>2. PICK i \in 1 .. Len(selected) : selected[i].name = skill.name
    BY <1>5, <1>7 DEF NameTaken
  <2>3. ASSUME NEW d, SkillOf(d) = skill PROVE Seen(d)'
    <3>1. SkillOf(d)' = skill
      BY <1>3, <2>3
    <3>2. <<"collision", skill.file>> \in diagnostics' /\ selected' = selected
      BY <1>7
    <3>3. Handled(SkillOf(d))'
      BY <2>2, <3>1, <3>2 DEF Handled
    <3>4. Reported(SkillOf(d))'
      BY <3>1, <3>2 DEF Reported
    <3> QED
      BY <3>3, <3>4 DEF Seen
  <2> QED
    BY <1>3, <1>4, <1>5, <1>7, <2>1, <2>3
<1>8. CASE /\ ~Known(skill) /\ ~NameTaken(skill)
           /\ selected' = Append(selected, skill) /\ canonical' = canonical \cup {skill.file}
  <2>1. /\ selected' \in Seq(Skills) /\ Len(selected') = m + 1
        /\ \A i \in 1 .. m : selected'[i] = selected[i]
        /\ selected'[m + 1] = skill
    BY <1>5, <1>8, AppendProperties
  <2>2. \A d : Seen(d) => Seen(d)'
    <3>1. ASSUME NEW d, Seen(d) PROVE Seen(d)'
      <4>1. PICK i \in 1 .. m : selected[i].name = SkillOf(d).name \/ selected[i].file = SkillOf(d).file
        BY <1>5, <3>1 DEF Seen, Handled
      <4>2. i \in 1 .. Len(selected') /\ selected'[i] = selected[i]
        BY <2>1, <4>1
      <4>3. Handled(SkillOf(d))'
        BY <1>3, <4>1, <4>2 DEF Handled
      <4>4. \/ <<"collision", SkillOf(d).file>> \in diagnostics
            \/ \E j \in 1 .. m : selected[j].file = SkillOf(d).file
        BY <1>5, <3>1 DEF Seen, Reported
      <4>5. \A j \in 1 .. m : j \in 1 .. Len(selected')
        BY <2>1
      <4>6. Reported(SkillOf(d))'
        BY <1>1, <1>3, <2>1, <4>4, <4>5 DEF Reported
      <4> QED
        BY <4>3, <4>6 DEF Seen
    <3> QED
      BY <3>1
  <2>3. \A d : SkillOf(d) = skill => Seen(d)'
    <3>1. ASSUME NEW d, SkillOf(d) = skill PROVE Seen(d)'
      <4>1. SkillOf(d)' = skill /\ m + 1 \in 1 .. Len(selected')
        BY <1>3, <2>1, <3>1
      <4> QED
        BY <2>1, <4>1 DEF Seen, Handled, Reported
    <3> QED
      BY <3>1
  <2>4. SelectedFirst'
    <3>1. ASSUME NEW i \in 1 .. m
          PROVE  \E c \in Candidates :
                    /\ SkillOf(c) = selected'[i]
                    /\ \A d \in Candidates : Before(d, c) => TakenBefore(SkillOf(d), i)'
      <4>1. PICK c \in Candidates :
               /\ SkillOf(c) = selected[i]
               /\ \A d \in Candidates : Before(d, c) => TakenBefore(SkillOf(d), i)
        BY <1>2, <1>5, <3>1 DEF SelectedFirst
      <4>2. \A j \in 1 .. i - 1 : selected'[j] = selected[j]
        <5>1. \A j \in 1 .. i - 1 : j \in 1 .. m
          BY <3>1
        <5> QED
          BY <2>1, <5>1
      <4>3. \A d : TakenBefore(SkillOf(d), i) => TakenBefore(SkillOf(d), i)'
        BY <1>3, <4>2 DEF TakenBefore
      <4> QED
        BY <2>1, <3>1, <4>1, <4>3
    <3>2. \E c \in Candidates :
             /\ SkillOf(c) = skill
             /\ \A d \in Candidates : Before(d, c) => TakenBefore(SkillOf(d), m + 1)'
      <4>1. 1 \in 1 .. Len(found) /\ 1 - 1 = 0
        BY <1>4
      <4>2. PICK c \in CandidatesOf(source) :
               /\ found[1] = SkillOf(c)
               /\ \A d \in CandidatesOf(source) :
                     Earlier(Place(d), Place(c)) => Seen(d) \/ Loaded(d, 0)
        BY <1>2, <4>1 DEF FoundInOrder
      <4>3. ASSUME NEW d \in Candidates, Before(d, c) PROVE Seen(d)
        <5>1. c.source = source
          BY DEF CandidatesOf
        <5>2. CASE d.source < source
          BY <1>2, <5>2 DEF NothingForgotten
        <5>3. CASE d.source = source /\ Earlier(Place(d), Place(c))
          <6>1. d \in CandidatesOf(source)
            BY <5>3 DEF CandidatesOf
          <6>2. ~Loaded(d, 0)
            BY DEF Loaded
          <6> QED
            BY <4>2, <5>3, <6>1, <6>2
        <5> QED
          BY <4>3, <5>1, <5>2, <5>3 DEF Before, Place
      <4>4. ASSUME NEW d, Seen(d) PROVE TakenBefore(SkillOf(d), m + 1)'
        <5>1. PICK j \in 1 .. m : selected[j].name = SkillOf(d).name \/ selected[j].file = SkillOf(d).file
          BY <1>5, <4>4 DEF Seen, Handled
        <5>2. j \in 1 .. (m + 1) - 1 /\ selected'[j] = selected[j]
          BY <2>1, <5>1
        <5> QED
          BY <1>3, <5>1, <5>2 DEF TakenBefore
      <4>5. c \in Candidates
        BY DEF CandidatesOf
      <4> QED
        BY <1>4, <4>2, <4>3, <4>4, <4>5
    <3>3. ASSUME NEW i \in 1 .. m + 1
          PROVE  \E c \in Candidates :
                    /\ SkillOf(c) = selected'[i]
                    /\ \A d \in Candidates : Before(d, c) => TakenBefore(SkillOf(d), i)'
      <4>1. CASE i = m + 1
        BY <2>1, <3>2, <4>1
      <4>2. CASE i # m + 1
        <5>1. i \in 1 .. m
          BY <4>2
        <5> QED
          BY <3>1, <5>1
      <4> QED
        BY <4>1, <4>2
    <3> QED
      BY <1>3, <2>1, <3>3 DEF SelectedFirst
  <2>5. SelectedOnce'
    <3>1. canonical' = {selected'[i].file : i \in 1 .. m + 1}
      <4>1. canonical = {selected[i].file : i \in 1 .. m}
        BY <1>2, <1>5 DEF SelectedOnce
      <4>2. 1 .. m + 1 = (1 .. m) \cup {m + 1}
        OBVIOUS
      <4> QED
        BY <1>8, <2>1, <4>1, <4>2
    <3>2. \A i \in 1 .. m : selected[i].file # skill.file /\ selected[i].name # skill.name
      BY <1>2, <1>5, <1>8 DEF SelectedOnce, Known, NameTaken
    <3>3. ASSUME NEW i \in 1 .. m + 1, NEW j \in 1 .. m + 1, i # j
          PROVE  selected'[i].name # selected'[j].name /\ selected'[i].file # selected'[j].file
      <4>1. CASE i = m + 1
        <5>1. j \in 1 .. m
          BY <3>3, <4>1
        <5> QED
          BY <2>1, <3>2, <4>1, <5>1
      <4>2. CASE j = m + 1
        <5>1. i \in 1 .. m
          BY <3>3, <4>2
        <5> QED
          BY <2>1, <3>2, <4>2, <5>1
      <4>3. CASE i # m + 1 /\ j # m + 1
        <5>1. i \in 1 .. m /\ j \in 1 .. m
          BY <4>3
        <5> QED
          BY <1>2, <1>5, <2>1, <3>3, <5>1 DEF SelectedOnce
      <4> QED
        BY <4>1, <4>2, <4>3
    <3> QED
      BY <2>1, <3>1, <3>3 DEF SelectedOnce
  <2> QED
    BY <1>3, <1>4, <2>1, <2>2, <2>3, <2>4, <2>5
<1> QED
  BY <1>4, <1>6, <1>7, <1>8 DEF Select

LEMMA SelectKeeps ==
    ASSUME ScanInv, Select
    PROVE  ScanInv'
<1>1. /\ fs' = fs /\ layout' = layout /\ phase = "skills" /\ phase' = phase /\ source' = source
      /\ agenda' = agenda /\ agenda = <<>> /\ found # <<>> /\ found' = Tail(found)
  BY DEF Select
<1>2. ScanTyped /\ NothingForgotten /\ FoundInOrder
  BY DEF ScanInv
<1>3. /\ selected' \in Seq(Skills) /\ SelectedFirst' /\ SelectedOnce'
      /\ \A d : Seen(d) => Seen(d)'
      /\ \A d : SkillOf(d) = found[1] => Seen(d)'
      /\ \A k : CandidatesOf(k)' = CandidatesOf(k)
  BY SelectChooses
<1>4. Sources' = Sources /\ Candidates' = Candidates /\ \A c : SkillOf(c)' = SkillOf(c)
  BY <1>1, Kept
<1>5. PICK n \in Nat : /\ Len(found) = n + 1 /\ Len(found') = n /\ found' \in Seq(Skills)
                      /\ \A i \in 1 .. n : found'[i] = found[i + 1]
  <2>1. found \in Seq(Skills) /\ found # <<>>
    BY <1>1, <1>2 DEF ScanTyped
  <2> QED
    BY <1>1, <2>1, FirstAndRest
<1>6. ASSUME NEW d, NEW h \in 0 .. n, Seen(d) \/ Loaded(d, h + 1)
      PROVE  Seen(d)' \/ Loaded(d, h)'
  <2>1. CASE Seen(d)
    BY <1>3, <2>1
  <2>2. CASE Loaded(d, h + 1)
    <3>1. PICK i \in 1 .. h + 1 : found[i] = SkillOf(d)
      BY <2>2 DEF Loaded
    <3>2. CASE i = 1
      BY <1>3, <3>1, <3>2
    <3>3. CASE i # 1
      <4>1. PICK j \in 1 .. h : j + 1 = i /\ j \in 1 .. n
        <5>1. i - 1 \in 1 .. h /\ (i - 1) + 1 = i /\ i - 1 \in 1 .. n
          BY <3>1, <3>3
        <5> QED
          BY <5>1
      <4> QED
        BY <1>4, <1>5, <3>1, <4>1 DEF Loaded
    <3> QED
      BY <3>2, <3>3
  <2> QED
    BY <1>6, <2>1, <2>2
<1>7. ScanTyped'
  BY <1>1, <1>2, <1>3, <1>4, <1>5 DEF ScanTyped
<1>8. NothingForgotten'
  <2>1. ASSUME NEW d \in CandidatesOf(source) PROVE Waiting(d, Len(agenda))'
    <3>1. Waiting(d, Len(agenda)) /\ n \in 0 .. n /\ 1 .. Len(<<>>) = {}
      BY <1>2, <2>1 DEF NothingForgotten
    <3>2. Seen(d) \/ Loaded(d, n + 1)
      BY <1>1, <1>5, <3>1 DEF Waiting
    <3>3. Seen(d)' \/ Loaded(d, n)'
      BY <1>6, <3>1, <3>2
    <3> QED
      BY <1>5, <3>3 DEF Waiting
  <2> QED
    BY <1>1, <1>2, <1>3, <1>4, <2>1 DEF NothingForgotten
<1>9. AgendaInOrder'
  <2>1. 1 .. Len(<<>>) = {}
    OBVIOUS
  <2> QED
    BY <1>1, <2>1 DEF AgendaInOrder
<1>10. FoundInOrder'
  <2>1. ASSUME NEW i \in 1 .. n
        PROVE  \E c \in CandidatesOf(source) :
                  /\ found'[i] = SkillOf(c)
                  /\ \A d \in CandidatesOf(source) :
                        Earlier(Place(d), Place(c)) => Seen(d)' \/ Loaded(d, i - 1)'
    <3>1. i + 1 \in 1 .. Len(found) /\ (i + 1) - 1 = i
      BY <1>5, <2>1
    <3>2. PICK c \in CandidatesOf(source) :
             /\ found[i + 1] = SkillOf(c)
             /\ \A d \in CandidatesOf(source) :
                   Earlier(Place(d), Place(c)) => Seen(d) \/ Loaded(d, i)
      BY <1>2, <3>1 DEF FoundInOrder
    <3>3. PICK g \in 0 .. n : g = i - 1 /\ g + 1 = i
      BY <2>1
    <3>4. ASSUME NEW d \in CandidatesOf(source), Earlier(Place(d), Place(c))
          PROVE  Seen(d)' \/ Loaded(d, i - 1)'
      <4>1. Seen(d) \/ Loaded(d, g + 1)
        BY <3>2, <3>3, <3>4
      <4>2. Seen(d)' \/ Loaded(d, g)'
        BY <1>6, <4>1
      <4> QED
        BY <3>3, <4>2
    <3> QED
      BY <1>5, <3>2, <3>4
  <2>2. \A i \in 1 .. Len(found') : \E c \in CandidatesOf(source)' :
                  /\ found'[i] = SkillOf(c)'
                  /\ \A d \in CandidatesOf(source)' :
                        Earlier(Place(d), Place(c)) => Seen(d)' \/ Loaded(d, i - 1)'
    BY <1>1, <1>3, <1>4, <1>5, <2>1
  <2> QED
    BY <2>2 DEF FoundInOrder
<1> QED
  BY <1>3, <1>7, <1>8, <1>9, <1>10 DEF ScanInv

(* The other steps leave the scan alone.                                   *)
LEMMA ScanRests ==
    ASSUME ScanInv, \/ BeginContext \/ ReadContext \/ Finish \/ UNCHANGED discoveryVars
                    \/ VisitDirectory /\ phase' # phase
    PROVE  ScanInv'
<1>1. /\ UNCHANGED <<fs, layout, skillVars>>
      /\ \/ phase' = phase \/ phase' = "raised"
         \/ phase' \in {"context", "done"} /\ source = Len(Sources) /\ agenda = <<>> /\ found = <<>>
  <2>1. CASE BeginContext
    BY <2>1 DEF BeginContext
  <2>2. CASE ReadContext
    BY <2>2 DEF ReadContext
  <2>3. CASE Finish
    BY <2>3 DEF Finish, ScanInv, ScanTyped
  <2>4. CASE UNCHANGED discoveryVars
    BY <2>4 DEF discoveryVars
  <2>5. CASE VisitDirectory /\ phase' # phase
    BY <2>5 DEF VisitDirectory, skillVars
  <2> QED
    BY <2>1, <2>2, <2>3, <2>4, <2>5
<1>2. /\ fs' = fs /\ layout' = layout /\ source' = source /\ agenda' = agenda /\ found' = found
      /\ selected' = selected /\ canonical' = canonical /\ diagnostics' = diagnostics
  BY <1>1 DEF skillVars
<1>3. ScanTyped /\ NothingForgotten /\ AgendaInOrder /\ FoundInOrder
  BY DEF ScanInv
<1>4. /\ SelectedFirst' /\ SelectedOnce' /\ \A d : Seen(d) => Seen(d)'
      /\ \A i : CandidatesOf(i)' = CandidatesOf(i)
  BY <1>2, ChoiceKept
<1>5. /\ Sources' = Sources /\ Candidates' = Candidates /\ \A c : SkillOf(c)' = SkillOf(c)
      /\ \A i, item, w : Stands(i, item, w)' <=> Stands(i, item, w)
      /\ \A i, item, d : Covers(i, item, d)' <=> Covers(i, item, d)
  BY <1>2, Kept
<1>6. ScanTyped'
  BY <1>1, <1>2, <1>3, <1>5 DEF ScanTyped
<1>7. \A d, n : (Loaded(d, n) => Loaded(d, n)') /\ (Waiting(d, n) => Waiting(d, n)')
  <2>1. \A d, n : Loaded(d, n) => Loaded(d, n)'
    BY <1>2, <1>5 DEF Loaded
  <2> QED
    BY <1>2, <1>4, <1>5, <2>1 DEF Waiting
<1>8. NothingForgotten'
  BY <1>2, <1>3, <1>4, <1>5, <1>7 DEF NothingForgotten
<1>9. AgendaInOrder'
  BY <1>2, <1>3, <1>4, <1>5, <1>7 DEF AgendaInOrder
<1>10. FoundInOrder'
  BY <1>2, <1>3, <1>4, <1>5, <1>7 DEF FoundInOrder
<1> QED
  BY <1>4, <1>6, <1>8, <1>9, <1>10 DEF ScanInv

LEMMA ScanNext == ASSUME ScanInv, [DiscoveryNext]_discoveryVars PROVE ScanInv'
<1>1. CASE VisitDirectory
  BY <1>1, VisitKeeps, ScanRests
<1>2. CASE DiscoveryRest
  BY <1>2, ScanRests DEF DiscoveryRest
<1> QED
  BY <1>1, <1>2, NextSourceKeeps, LoadKeeps, SelectKeeps, ScanRests DEF DiscoveryNext

(* When the scan is over, every candidate was seen.                        *)
LEMMA AllSeen ==
    ASSUME ScanInv, phase = "done"
    PROVE  \A d \in Candidates : Seen(d)
<1> SUFFICES ASSUME NEW d \in Candidates PROVE Seen(d)
  OBVIOUS
<1>1. ScanTyped /\ NothingForgotten
  BY DEF ScanInv
<1>2. source = Len(Sources) /\ agenda = <<>> /\ found = <<>>
  BY <1>1 DEF ScanTyped
<1>3. d.source \in 1 .. Len(Sources) /\ Len(Sources) \in Nat
  BY <1>1, SourcesTyped DEF ScanTyped, Candidates
<1>4. CASE d.source = source
  <2>1. Waiting(d, Len(agenda)) /\ 1 .. Len(<<>>) = {}
    BY <1>1, <1>4 DEF NothingForgotten, CandidatesOf
  <2> QED
    BY <1>2, <2>1 DEF Waiting, Loaded
<1>5. CASE d.source # source
  BY <1>1, <1>2, <1>3, <1>5 DEF NothingForgotten
<1> QED
  BY <1>4, <1>5

(* No skill is lost in silence: _load_file and the loop of discover_skills *)
(* choose the file of every candidate or report it as a collision          *)
(* (skills.py:214-229), however the sources and their links overlap.       *)
THEOREM NoSkillLost == DiscoverySpec => []EverySkillAccountedFor
<1>1. ScanInv => EverySkillAccountedFor
  <2> SUFFICES ASSUME ScanInv, phase = "done"
               PROVE  EverySkillAccountedFor
    BY DEF EverySkillAccountedFor
  <2>1. DOMAIN selected = 1 .. Len(selected)
    BY LenProperties DEF ScanInv, ScanTyped
  <2>2. ASSUME NEW c \in Candidates
        PROVE  \/ FileOf(c) \in {s.file : s \in Range(selected)}
               \/ <<"collision", FileOf(c)>> \in diagnostics
    <3>1. Reported(SkillOf(c))
      BY AllSeen DEF Seen
    <3>2. SkillOf(c).file = FileOf(c)
      BY DEF SkillOf
    <3>3. ASSUME NEW i \in 1 .. Len(selected), selected[i].file = SkillOf(c).file
          PROVE  FileOf(c) \in {s.file : s \in Range(selected)}
      <4>1. selected[i] \in Range(selected)
        BY <2>1 DEF Range
      <4> QED
        BY <3>2, <3>3, <4>1
    <3> QED
      BY <3>1, <3>2, <3>3 DEF Reported
  <2>3. \A i, j \in DOMAIN selected :
           i # j => selected[i].name # selected[j].name /\ selected[i].file # selected[j].file
    BY <2>1 DEF ScanInv, SelectedOnce
  <2> QED
    BY <2>2, <2>3 DEF EverySkillAccountedFor
<1> QED
  BY <1>1, ScanInit, ScanNext, PTL DEF DiscoverySpec

(* The first source wins (skills.py:187, README.md:92): the loop of        *)
(* discover_skills takes the skills in the order the sources, and the      *)
(* sorted walks of _scan_directory, come to them, so that an earlier       *)
(* candidate for a chosen skill's name or file lost to a skill before it.  *)
THEOREM PrecedenceKept == DiscoverySpec => []FirstSourceWins
<1>1. ScanInv => FirstSourceWins
  <2> SUFFICES ASSUME ScanInv, phase = "done"
               PROVE  FirstSourceWins
    BY DEF FirstSourceWins
  <2> DEFINE all == {[at |-> c, skill |-> SkillOf(c)] : c \in Candidates}
             taken(i) == {selected[j].name : j \in 1 .. i} \cup {selected[j].file : j \in 1 .. i}
  <2>1. DOMAIN selected = 1 .. Len(selected) /\ Len(selected) \in Nat
    BY LenProperties DEF ScanInv, ScanTyped
  <2>2. ASSUME NEW i \in DOMAIN selected
        PROVE  \E c \in all :
                  /\ c.skill = selected[i]
                  /\ \A d \in all :
                        (Before(d.at, c.at) /\ (\/ d.skill.name = selected[i].name
                                              \/ d.skill.file = selected[i].file)) =>
                             /\ d.skill # selected[i]
                             /\ d.skill.name \in taken(i - 1) \/ d.skill.file \in taken(i - 1)
    <3>1. PICK c \in Candidates :
             /\ SkillOf(c) = selected[i]
             /\ \A d \in Candidates : Before(d, c) => TakenBefore(SkillOf(d), i)
      BY <2>1, <2>2 DEF ScanInv, SelectedFirst
    <3>2. ASSUME NEW d \in Candidates, Before(d, c)
          PROVE  /\ SkillOf(d) # selected[i]
                 /\ SkillOf(d).name \in taken(i - 1) \/ SkillOf(d).file \in taken(i - 1)
      <4>1. PICK j \in 1 .. i - 1 :
               selected[j].name = SkillOf(d).name \/ selected[j].file = SkillOf(d).file
        BY <3>1, <3>2 DEF TakenBefore
      <4>2. j \in 1 .. Len(selected) /\ i \in 1 .. Len(selected) /\ j # i
        BY <2>1, <2>2, <4>1
      <4>3. selected[j].name # selected[i].name /\ selected[j].file # selected[i].file
        BY <4>2 DEF ScanInv, SelectedOnce
      <4>4. selected[j].name \in taken(i - 1) /\ selected[j].file \in taken(i - 1)
        BY <4>1
      <4> HIDE DEF taken
      <4> QED
        BY <4>1, <4>3, <4>4
    <3> DEFINE r == [at |-> c, skill |-> SkillOf(c)]
    <3>3. r \in all /\ r.at = c /\ r.skill = SkillOf(c)
      OBVIOUS
    <3>4. \A e \in all : e.at \in Candidates /\ e.skill = SkillOf(e.at)
      OBVIOUS
    <3> HIDE DEF r, all, taken
    <3> QED
      BY <3>1, <3>2, <3>3, <3>4
  <2> QED
    BY <2>2 DEF FirstSourceWins
<1> QED
  BY <1>1, ScanInit, ScanNext, PTL DEF DiscoverySpec
=============================================================================
