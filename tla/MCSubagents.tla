---------------------------- MODULE MCSubagents ----------------------------
(* Instances of Subagents: each scenario brings together the requests and  *)
(* events that meet in one of the coordinator's races.                     *)
EXTENDS Subagents

CONSTANT w1

Handing == {"foreground", "query", "CancelOne"}
Prompts == {"foreground", "background", "CancelPrompt", "Outstanding"}
Tearing == {"background", "nested", "remove", "unload"}
Buffering == {"background", "Completions", "remove", "unload"}
Draining == {"workflow", "Outstanding"}
Looping == {"loop", "nested"}

AllScenarios == {Handing, Prompts, Tearing, Buffering, Draining, Looping}
Budgets == [s \in AllScenarios |-> CASE s = Handing -> 1 [] s = Looping -> 3 [] OTHER -> 2]

\* Without is SelectSeq, written without recursion.
ASSUME WithoutSelects ==
    \A s \in BoundedSeq({1, 2, 3}, 4), S \in SUBSET {1, 2, 3} :
        Without(s, S) = SelectSeq(s, LAMBDA c : c \notin S)
=============================================================================
