--------------------------- MODULE MCParserWordMap ---------------------------
(***************************************************************************)
(* Sentences of five words, the last "a".  The parser keeps a word as it   *)
(* is, loses it, or changes it (the case of "B", a full stop after "a");   *)
(* it may see a punctuation mark before a word.  At most two of these      *)
(* things happen, and the last word is kept.                               *)
(* A word may be a decimal number, at any place but the last.              *)
(***************************************************************************)
EXTENDS ParserWordMap, Sequences

MCText == {"0.5", "a", "a.", "a's", "B", "b", "nonascii1", "nonascii2", "PUNCT-OpenParen", "PUNCT-Comma"}
MCLow == [t \in MCText |-> IF t = "B" THEN "b" ELSE t]
MCOpening == {"PUNCT-OpenParen"}
MCStem == [t \in {"a."} |-> "a"]

Sentence == {s \in [Id -> {"0.5", "a", "a.", "a's", "B", "nonascii1", "nonascii2"}] :
               /\ s[1] \in {"0.5", "a", "B", "nonascii1"}
               /\ s[NoOfWords] = "a"}
Mishap == {m \in [Id -> {"none", "lost", "changed", "mark"}] :
             /\ Cardinality({i \in Id : m[i] # "none"}) <= 2
             /\ m[NoOfWords] = "none"}

Heard(t, m) == CASE m = "changed" /\ t = "B" -> "b"
                [] m = "changed" /\ t = "a" -> "a."
                [] OTHER -> t

\* How many parser ids a word and the mark before it take.
Width(t, m) == CASE m = "lost" -> 0
                 [] OTHER -> (IF m = "mark" THEN 2 ELSE 1) + (IF t = "a's" THEN 1 ELSE 0)

MCInit ==
    \E s \in Sentence, m \in Mishap :
       LET end[i \in 0..NoOfWords] ==
               IF i = 0 THEN 0 ELSE end[i - 1] + Width(s[i], m[i])
           at == [i \in Id |-> IF m[i] = "lost" THEN 0
                               ELSE IF m[i] = "mark" THEN end[i - 1] + 2 ELSE end[i - 1] + 1]
           marks == {end[i - 1] + 1 : i \in {j \in Id : m[j] = "mark"}}
           words == {at[i] : i \in Id} \ {0}
       IN  /\ word = s
           /\ place = at
           /\ parser = marks \union words
           /\ token = [p \in Pid |->
                 IF p \in words
                 THEN LET i == CHOOSE j \in Id : at[j] = p
                      IN  [text |-> Heard(s[i], m[i]),
                           remark |-> IF s[i] = "a's" THEN "'s" ELSE "-"]
                 ELSE [text |-> IF p = 1 THEN "PUNCT-OpenParen" ELSE "PUNCT-Comma", remark |-> "-"]]
           /\ InOrder
           /\ open = Id
           /\ current = {} /\ missing = {} /\ linked = {} /\ warned = {}
           /\ halted = FALSE

MCSpec == MCInit /\ [][Next]_vars
==============================================================================
