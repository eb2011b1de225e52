--------------------------- MODULE KernelContract ---------------------------
(***************************************************************************)
(* What agent/loop.py relies on from a kernel (kernel/base.py, Kernel):    *)
(* one call at a time, the generation number the kernel reports, and the   *)
(* interpreter process that holds the cells' memory.  AgentLoop is built   *)
(* on these actions; JupyterKernel is shown to implement them.             *)
(*                                                                         *)
(* "process" counts interpreter processes.  The program keeps no such      *)
(* counter: generation is its own name for the process, and whether the    *)
(* name is accurate is one of the questions the models ask.                *)
(***************************************************************************)
EXTENDS Naturals

CONSTANT InitialGeneration      \* JupyterKernel.__init__, initial_generation

VARIABLES
    call,           \* where the call in progress stands
    generation,     \* Kernel.generation
    process         \* interpreter processes started so far

vars == <<call, generation, process>>

CallStates == {"idle", "execute", "recover", "kill", "boot", "install"}

Replacing == {"kill", "boot", "install"}

Init ==
    /\ call = "idle"
    /\ generation = InitialGeneration
    /\ process = 1

Goto(from, to) ==
    /\ call = from
    /\ call' = to
    /\ UNCHANGED <<generation, process>>

(* execute(): the cell is sent.                                            *)
Submit == Goto("idle", "execute")

(* The cell's output and reply have arrived: execute() returns.            *)
Finish == Goto("execute", "idle")

(* Time-out or cancellation: the cell is interrupted and a grace begins.   *)
Overrun == Goto("execute", "recover")

(* The interrupted cell became idle: the process is kept.                  *)
Settle == Goto("recover", "idle")

(* restart(), a dead process, or a grace that ran out.                     *)
Replace == \E from \in {"idle", "execute", "recover"} : Goto(from, "kill")

(* The old process ends, and its memory with it.                           *)
Kill ==
    /\ call = "kill"
    /\ call' = "boot"
    /\ process' = process + 1
    /\ UNCHANGED generation

(* The new process answers: it gets its number.                            *)
Ready ==
    /\ call = "boot"
    /\ call' = "install"
    /\ generation' = generation + 1
    /\ UNCHANGED process

(* The tools are installed: the replacement is complete.                   *)
Installed == Goto("install", "idle")

(* The call ends in an exception where it stands.  One thrown into a call  *)
(* that is ending the process may find it ended already.                   *)
Abandon ==
    /\ call # "idle"
    /\ call' = "idle"
    /\ process' \in IF call = "kill" THEN {process, process + 1} ELSE {process}
    /\ UNCHANGED generation

Next ==
    \/ Submit \/ Finish \/ Overrun \/ Settle
    \/ Replace \/ Kill \/ Ready \/ Installed \/ Abandon

Spec == Init /\ [][Next]_vars
=============================================================================
