--------------------------- MODULE UnitConversion ---------------------------
(***************************************************************************)
(* Conversions between units (src/src/modules/units/units.c).              *)
(*                                                                         *)
(* A unit is a record: the quantity it measures, the exact scale and       *)
(* offset that make a canonical value, and the power of pi in the scale.   *)
(***************************************************************************)
EXTENDS Rationals

\* A value that only a numerical method computes: none is modelled.
Numerical == Refused("NUMERICAL")

ConversionIsExact(from, to) == from.quantity = to.quantity /\ from.pi = to.pi

ConvertCoefficients(value, from, to) ==
    IF from = to THEN Ok(value)
    ELSE Then(MulFractions(value, from.scale), LAMBDA scaled :
         Then(AddFractions(scaled, from.offset), LAMBDA canonical :
         Then(SubFractions(canonical, to.offset), LAMBDA moved : DivFractions(moved, to.scale))))

ConvertRational(value, from, to) ==
    IF from.quantity # to.quantity THEN Refused("INCOMPATIBLE_UNITS")
    ELSE IF from.pi # to.pi THEN Refused("NON_RATIONAL_CONVERSION")
    ELSE ConvertCoefficients(value, from, to)

\* Exact up to one rounding, unless pi has to come in.
ConvertDecimal(x, from, to, digits, rounding) ==
    IF from.quantity # to.quantity THEN Refused("INCOMPATIBLE_UNITS")
    ELSE Then(FromDecimal(x), LAMBDA value :
         Then(ConvertCoefficients(value, from, to), LAMBDA converted :
              IF from.pi # to.pi /\ converted.numerator # 0 THEN Numerical
              ELSE ToDecimal(converted, digits, rounding)))
=============================================================================
