-------------------------------- MODULE Calls -------------------------------
(***************************************************************************)
(* How the kernels are written down: a C function that returns a status    *)
(* and fills a result is an operator that returns both, a for loop is a    *)
(* recursive function of its counter.                                      *)
(***************************************************************************)
EXTENDS Integers, Sequences

Larger(m, n) == IF m > n THEN m ELSE n
Smaller(m, n) == IF m < n THEN m ELSE n
Magnitude(n) == IF n < 0 THEN -n ELSE n
Sign(n) == IF n < 0 THEN -1 ELSE IF n = 0 THEN 0 ELSE 1

\* C's `/' and `%' truncate toward zero.
Quotient(n, d) == Sign(n) * Sign(d) * (Magnitude(n) \div Magnitude(d))
Remainder(n, d) == Sign(n) * (Magnitude(n) % Magnitude(d))

\* for (i = 1; i <= n; i++) state = Body(state, i)
Loop(n, start, Body(_, _)) ==
    LET after[i \in 0 .. n] == IF i = 0 THEN start ELSE Body(after[i - 1], i)
    IN  after[n]

\* for (i = n; i >= 1; i--) state = Body(state, i)
LoopDown(n, start, Body(_, _)) ==
    Loop(n, start, LAMBDA state, i : Body(state, n + 1 - i))

\* The first n in 0 .. bound with a property that some n has.
Least(bound, Holds(_)) == CHOOSE n \in 0 .. bound : Holds(n) /\ \A m \in 0 .. n - 1 : ~Holds(m)

Ok(v) == [status |-> "OK", value |-> v]
Refused(status) == [status |-> status]

\* The code's `if (status == OK) status = Next(...)'.
Then(call, Next(_)) == IF call.status = "OK" THEN Next(call.value) ELSE call

\* for (i = 1; status == OK && i <= n; i++) status = Body(&state, i)
Turn(call, i, Body(_, _)) == IF call.status = "OK" THEN Body(call.value, i) ELSE call
LoopWhileOk(n, start, Body(_, _)) ==
    LET after[i \in 0 .. n] == IF i = 0 THEN Ok(start) ELSE Turn(after[i - 1], i, Body)
    IN  after[n]
=============================================================================
