------------------------------ MODULE DurableLog ------------------------------
(***************************************************************************)
(* What a session file promises whoever resumes it: a log that only grows, *)
(* one entry at a time, over stops and failing writes.  The state is what  *)
(* the ended lines hold, and how the file goes on behind them.             *)
(***************************************************************************)
EXTENDS Naturals, Sequences

CONSTANT Unreadable     \* what a reader gets instead of a log

VARIABLES
    log,
    ending      \* "clean": with a newline; "cut": with text that is not read again;
                \* "loose": with a line that the next write would continue

(* One more entry, and those that were there.                              *)
Grow ==
    /\ ending = "clean" /\ ending' = "clean"
    /\ log # Unreadable /\ log' # Unreadable
    /\ Len(log') = Len(log) + 1
    /\ log = SubSeq(log', 1, Len(log))

(* A write that did not return.                                            *)
Tear == ending = "clean" /\ ending' \in {"cut", "loose"} /\ UNCHANGED log

(* A stop: whoever would have continued the line is gone.                  *)
Forsake == ending = "loose" /\ ending' = "cut" /\ UNCHANGED log

(* What was cut is removed, and only then is the file written again.       *)
Mend == ending = "cut" /\ ending' = "clean" /\ UNCHANGED log

(* A write continues the line: what is lost is lost for all to see.        *)
Spoil == ending = "loose" /\ ending' = "clean" /\ log' = Unreadable

Next == Grow \/ Tear \/ Forsake \/ Mend \/ Spoil

Spec == log = <<>> /\ ending = "clean" /\ [][Next]_<<log, ending>>
=============================================================================
