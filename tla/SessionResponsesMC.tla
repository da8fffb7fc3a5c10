-------------------------- MODULE SessionResponsesMC --------------------------
(* Small instances of SessionResponses for TLC. *)
EXTENDS SessionResponses

Constant == [name |-> "1/3+i", ans |-> FALSE, random |-> FALSE, exact |-> TRUE,
             reads |-> NoName, assigns |-> NoName, size |-> 1]
Rounded == [Constant EXCEPT !.name = "sqrt(-2)", !.exact = FALSE]
Dice == [Rounded EXCEPT !.name = "complex(rand();1)", !.random = TRUE, !.size = 2]
FromAnswer == [Rounded EXCEPT !.name = "ans/3", !.ans = TRUE]
SetX == [Constant EXCEPT !.name = "x=i", !.assigns = "x"]
StepX == [Rounded EXCEPT !.name = "x=x*i", !.reads = "x", !.assigns = "x"]
SetY == [Constant EXCEPT !.name = "y=ans", !.ans = TRUE, !.assigns = "y"]

AllInputs == {Rounded, Dice, FromAnswer, SetX, StepX, SetY}
===============================================================================
