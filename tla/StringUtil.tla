------------------------------ MODULE StringUtil ------------------------------
(***************************************************************************)
(* The helpers of string_util.cpp that other parts rely on.  A text is a   *)
(* sequence of characters; a loop over it is a step function on the loop's *)
(* state, run as often as the text has characters: a state at the end of   *)
(* the text is one the step leaves alone.                                  *)
(***************************************************************************)
EXTENDS Integers, Sequences, SequencesExt

CONSTANT Characters     \* the characters of texts, and words that stand for one

ASSUME CharactersAssumption ==
    /\ {" ", "'", "(", ")", "+", "/", "%", "2", "0", "5", "7", "8", "9", "B", "F"} \subseteq Characters
    /\ {"\"", "\\", "backspace", "formfeed", "newline", "return", "tab", "bell", "unit"} \subseteq Characters
    /\ {"b", "f", "n", "r", "t", "u", "1"} \subseteq Characters

\* The state of a loop after n rounds.
Iterate(step, start, n) ==
    LET state[k \in 0 .. n] == IF k = 0 THEN start ELSE step[state[k - 1]] IN state[n]

Before(s, i) == SubSeq(s, 1, i - 1)
After(s, i)  == SubSeq(s, i + 1, Len(s))
Inner(s, i)  == SubSeq(s, i, Len(s) - 1)

-----------------------------------------------------------------------------
(* SQL.                                                                    *)

\* Every quote inside is doubled.
Doubled(value, q) == [i \in 1 .. Len(value) |-> IF value[i] = q THEN <<q, q>> ELSE <<value[i]>>]

QuoteStringLiteral(value) == <<"'">> \o FlattenSeq(Doubled(value, "'")) \o <<"'">>

QuoteIdentifier(name) == <<"\"", name, "\"">>

-----------------------------------------------------------------------------
(* JSON.                                                                   *)

\* Characters with a short escape, and other control characters by code.
Short ==
    [c \in {"\"", "\\", "backspace", "formfeed", "newline", "return", "tab"} |->
        CASE c = "backspace" -> "b" [] c = "formfeed" -> "f" [] c = "newline" -> "n"
          [] c = "return" -> "r" [] c = "tab" -> "t" [] OTHER -> c]

Control == [c \in {"bell", "unit"} |-> IF c = "bell" THEN <<"0", "7">> ELSE <<"1", "f">>]

\* Mutant of Escaped: control characters without a short escape stay.
EscapedRaw(c) == IF c \in DOMAIN Short THEN <<"\\", Short[c]>> ELSE <<c>>

\* One character, escaped where JSON demands it.
Escaped(c) ==
    CASE c \in DOMAIN Short   -> <<"\\", Short[c]>>
      [] c \in DOMAIN Control -> <<"\\", "u", "0", "0">> \o Control[c]
      [] OTHER -> <<c>>

JsonEscape(value) == FlattenSeq([i \in 1 .. Len(value) |-> Escaped(value[i])])

-----------------------------------------------------------------------------
(* URLs.                                                                   *)

\* The characters that are told apart, with their hexadecimal codes.
LowDigit ==
    [c \in {" ", "'", "(", ")", "+", "/", "%"} |->
        CASE c = " " -> "0" [] c = "%" -> "5" [] c = "'" -> "7" [] c = "(" -> "8"
          [] c = ")" -> "9" [] c = "+" -> "B" [] c = "/" -> "F"]

Hex == [c \in DOMAIN LowDigit |-> <<"2", LowDigit[c]>>]

\* One round of UrlDecode, at position i: a '%' that no two hexadecimal
\* digits follow stays, and '+' is a blank.
UrlDecodeStep(input) ==
    LET Coded(i) == {c \in DOMAIN Hex : i + 2 <= Len(input) /\ SubSeq(input, i + 1, i + 2) = Hex[c]} IN
    [at \in [i : Nat, result : Seq(Characters)] |->
        IF at.i > Len(input) THEN at
        ELSE IF input[at.i] = "%" /\ Coded(at.i) # {}
        THEN [i |-> at.i + 3, result |-> Append(at.result, CHOOSE c \in Coded(at.i) : TRUE)]
        ELSE [i |-> at.i + 1, result |-> Append(at.result, IF input[at.i] = "+" THEN " " ELSE input[at.i])]]

UrlDecode(input) == Iterate(UrlDecodeStep(input), [i |-> 1, result |-> <<>>], Len(input)).result

Trim(text) ==
    LET kept == {i \in DOMAIN text : text[i] # " "} IN
    IF kept = {} THEN <<>>
    ELSE SubSeq(text, CHOOSE i \in kept : \A j \in kept : i <= j, CHOOSE i \in kept : \A j \in kept : j <= i)
=============================================================================
