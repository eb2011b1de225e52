------------------------------ MODULE EventOrder ------------------------------
(***************************************************************************)
(* The order of the run events a subscriber may rely on                    *)
(* (IMPLEMENTATION_PLAN.md 6.3, and 13: after agent_end no event of the    *)
(* run).  The state is the latest run event only; AgentLoop is checked to  *)
(* implement this module.  Background notifications (todo_changed,         *)
(* kernel_restart_requested) are outside this order.                       *)
(***************************************************************************)
EXTENDS Naturals

VARIABLE event      \* [type, role, run] of the latest run event

Silent == [type |-> "none", role |-> "none", run |-> 0]

(* The types of event that may come next within the run, by the latest     *)
(* one.  agent_end is added in RunEvent: an error may end a run anywhere   *)
(* but before its user message is complete.                                *)
After(e) ==
    CASE e.type = "agent_start" -> {"turn_start"}
      [] e.type = "turn_start" -> {"message_start"}
      [] e.type = "message_start" ->
            {"message_end"} \cup IF e.role = "assistant" THEN {"delta"} ELSE {}
      [] e.type = "delta" -> {"delta", "message_end"}
      [] e.type = "message_end" ->
            CASE e.role = "user" -> {"message_start"}
              [] e.role = "assistant" -> {"exec_start", "message_start", "turn_end"}
              [] e.role = "execution" -> {"kernel_failed", "kernel_restarted", "turn_end"}
              [] OTHER -> {"turn_end"}
      [] e.type = "exec_start" -> {"exec_output", "exec_end"}
      [] e.type = "exec_output" -> {"exec_output", "exec_end"}
      [] e.type = "exec_end" -> {"message_start"}
      [] e.type = "kernel_failed" -> {"kernel_restarted"}
      [] e.type = "kernel_restarted" -> {"message_start"}
      [] e.type = "turn_end" -> {"turn_start"}
      [] OTHER -> {}

(* Whose message may start after e.                                        *)
RoleStarting(e) ==
    CASE e.type = "turn_start" -> {"user", "assistant"}
      [] e.type = "message_end" -> IF e.role = "user" THEN {"assistant"} ELSE {"protocol_error"}
      [] e.type = "exec_end" -> {"execution"}
      [] OTHER -> {"kernel_notice"}

(* Whose message an event after e is about.                                *)
RoleAfter(e, type) ==
    IF type = "message_start" THEN RoleStarting(e)
    ELSE IF type # "message_end" THEN {"none"}
    ELSE IF e.type = "delta" THEN {"assistant"} ELSE {e.role}

StartEvent ==
    /\ event.type \in {"none", "agent_end"}
    /\ event' = [type |-> "agent_start", role |-> "none", run |-> event.run + 1]

RunEvent ==
    \E type \in After(event) : \E role \in RoleAfter(event, type) :
        event' = [type |-> type, role |-> role, run |-> event.run]

EndEvent ==
    /\ event.type \notin {"none", "agent_start", "agent_end"}
    /\ event.type = "message_start" => event.role # "user"
    /\ event' = [type |-> "agent_end", role |-> "none", run |-> event.run]

Spec == event = Silent /\ [][StartEvent \/ RunEvent \/ EndEvent]_event
=============================================================================
