------------------------------ MODULE NumericsMC ------------------------------
(***************************************************************************)
(* The numeric library under test: the calls of ArithmeticMC, or the       *)
(* refinement of a graph, or a search for roots.  They share no state, so  *)
(* each of them begins when the other two are at rest.                     *)
(***************************************************************************)
EXTENDS ArithmeticMC, AdaptiveGraph, RootSearch

SmallValues == -2 .. 2
Quarters == [n \in 0 .. MaxIterations |-> 2 * 4^n]

NumericsInit == KernelsInit /\ Init /\ RootsInit

ArithmeticRests == call = Idle /\ workspace = Dec!NewWorkspace
GraphRests == stage = "idle"
RootsRest == search = NoSearch /\ scan = NoScan

Kernels == GraphRests /\ RootsRest /\ UNCHANGED <<vars, roots>>

NumericsNext ==
    \/ Kernels /\ IntegerCall
    \/ Kernels /\ SmallIntegerCall
    \/ Kernels /\ UnaryIntegerCall
    \/ Kernels /\ DecimalCall
    \/ Kernels /\ RoundingCall
    \/ Kernels /\ TextCall
    \/ Kernels /\ FractionCall
    \/ Kernels /\ StatisticsCall
    \/ Kernels /\ SeriesCall
    \/ Kernels /\ Return
    \/ ArithmeticRests /\ RootsRest /\ Next /\ UNCHANGED <<kernels, roots>>
    \/ ArithmeticRests /\ GraphRests /\ RootsNext /\ UNCHANGED <<kernels, vars>>

NumericsSpec == NumericsInit /\ [][NumericsNext]_<<kernels, vars, roots>>
===============================================================================
