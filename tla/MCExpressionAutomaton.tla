------------------------- MODULE MCExpressionAutomaton -------------------------
(* Small dictionaries over two characters, searched in texts of one or two chunks. *)
EXTENDS ExpressionAutomaton

CONSTANTS a, b

MCChar == {a, b}
Texts(n) == UNION {[1..k -> MCChar] : k \in 0..n}
MCEntries == Texts(2) \cup {<<a, a, b>>, <<a, b, a>>, <<b, a, b>>, <<a, b, a, b>>}
MCChunks == Texts(2) \cup {<<a, b, a, a>>}
================================================================================
