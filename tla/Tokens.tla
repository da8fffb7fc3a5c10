------------------------------- MODULE Tokens -------------------------------
(***************************************************************************)
(* The tokens of an expression (src/src/engine/parser/tokenizer.c).        *)
(*                                                                         *)
(* A text is a sequence of characters.  A word of letters may stand as one *)
(* character of the class Letters; two neighbours still make one           *)
(* identifier.  The parser asks for one token after the other: here they   *)
(* are all cut at once, and the first one that cannot be cut is the last,  *)
(* an INVALID that the parser meets only if it gets that far.  Columns of  *)
(* errors are left out.                                                    *)
(***************************************************************************)
EXTENDS Calls

CONSTANT Letters   \* A to Z, a to z, and the words that are made of them

Digits == {"0", "1", "2", "3", "4", "5", "6", "7", "8", "9"}
Separators == {".", ","}
Signs == {"+", "-"}
Spaces == {" ", "tab", "newline"}
Greek == {"pi", "phi"}             \* of two bytes each, never part of a word
Quote == "quote"
UnitCharacters == Letters \cup Digits \cup {"/", "_"}
SquareRoot == "root sign"
Punctuation == {";", "+", "-", "*", "/", "^", "!", "(", ")", "squared", "cubed", SquareRoot}

CharAt(text, i) == IF i <= Len(text) THEN text[i] ELSE "NUL"

\* The first position from i on whose character is not of the class.
Past(text, i, class) ==
    i + Least(Len(text), LAMBDA n : CharAt(text, i + n) \notin class)

Token(type, text, i, end) == [type |-> type, text |-> SubSeq(text, i, end - 1), end |-> end]
Invalid == [type |-> "INVALID", text |-> <<>>, end |-> 0]

\* An `E' that no digits follow is left for the next token, a product.
ExponentEnd(text, i) ==
    LET digits == IF CharAt(text, i + 1) \in Signs THEN i + 2 ELSE i + 1
    IN  IF CharAt(text, i) = "E" /\ CharAt(text, digits) \in Digits THEN Past(text, digits, Digits) ELSE i

ReadNumber(text, i) ==
    LET whole == Past(text, i, Digits)
        mantissa == IF CharAt(text, whole) \in Separators THEN Past(text, whole + 1, Digits) ELSE whole
        end == ExponentEnd(text, mantissa)
    IN  IF CharAt(text, end) \in Separators THEN Invalid ELSE Token("NUMBER", text, i, end)

ReadIdentifier(text, i) ==
    Token("IDENTIFIER", text, i, IF CharAt(text, i) \in Greek THEN i + 1 ELSE Past(text, i, Letters))

ReadUnit(text, i) ==
    LET end == Past(text, i + 1, UnitCharacters)
    IN  IF CharAt(text, end) # Quote THEN Invalid
        ELSE [Token("UNIT", text, i + 1, end) EXCEPT !.end = end + 1]

TokenFrom(text, i) ==
    CASE CharAt(text, i) \in Digits -> ReadNumber(text, i)
      [] CharAt(text, i) \in Separators /\ CharAt(text, i + 1) \in Digits -> ReadNumber(text, i)
      [] CharAt(text, i) \in Letters \cup Greek -> ReadIdentifier(text, i)
      [] CharAt(text, i) = Quote -> ReadUnit(text, i)
      [] CharAt(text, i) \in Punctuation -> Token(CharAt(text, i), text, i, i + 1)
      [] CharAt(text, i) = "NUL" -> Token("END", text, i, i)
      [] OTHER -> Invalid
NextToken(text, i) == TokenFrom(text, Past(text, i, Spaces))

RECURSIVE TokensFrom(_, _, _)
TokensFrom(text, token, before) ==
    IF token.type \in {"END", "INVALID"} THEN Append(before, token)
    ELSE TokensFrom(text, NextToken(text, token.end), Append(before, token))
Tokens(text) == TokensFrom(text, NextToken(text, 1), <<>>)
=============================================================================
