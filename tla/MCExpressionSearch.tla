---------------------------- MODULE MCExpressionSearch ----------------------------
(* Two lines of tokens of one and two characters, searched in two buffers. *)
EXTENDS ExpressionSearch

CONSTANTS a, b, A, dot, bracket, garbage

MCWord == {<<a>>, <<A>>, <<a, b>>}
MCLower == [w \in MCWord |-> IF w = <<A>> THEN <<a>> ELSE w]
MCListed == {<<dot>>}
MCUnlisted == {<<bracket>>}
TokenLines(tokens, most) == UNION {[1..n -> tokens] : n \in 1..most}
MCLines == TokenLines(MCWord \cup MCListed, 3)
              \cup {<<<<a, b>>, <<a>>, <<dot>>, <<a>>>>, <<<<a>>, <<a, b>>, <<a>>, <<dot>>>>,
                    <<<<a>>, <<A>>, <<a, b>>, <<a>>, <<dot>>>>,
                    <<<<a>>, <<a>>, <<a>>, <<a>>, <<a>>, <<dot>>>>,
                    <<<<dot>>, <<a, b>>, <<a, b>>, <<dot>>, <<a, b>>>>}
MCBracketLines == TokenLines({<<a>>} \cup MCUnlisted, 4)
MCDomainExpressions == {<<<<a>>>>, <<<<a>>, <<a>>>>, <<<<A>>, <<a>>>>, <<<<a, b>>>>}
MCExpressions == MCDomainExpressions \cup {<<<<a>>, <<dot>>, <<a>>>>, <<<<a>>, <<dot>>>>}
MCChar == {a, b, A, dot, bracket, garbage}
\* What the stack holds may be the end of an expression of the dictionary.
MCResidues == {<< >>, <<garbage>>, <<a, Separator>>}
\* For the dictionary and the provisional one; for proper nouns; for a domain, whose
\* expressions have no punctuation.
MCPrograms ==
    {[lowers |-> TRUE, counts |-> TRUE, expressions |-> MCExpressions],
     [lowers |-> FALSE, counts |-> TRUE, expressions |-> MCExpressions],
     [lowers |-> FALSE, counts |-> FALSE, expressions |-> MCDomainExpressions]}
MCUndefinedIds == {0, 3}
===================================================================================
