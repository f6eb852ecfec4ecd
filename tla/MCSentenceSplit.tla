--------------------------- MODULE MCSentenceSplit ---------------------------
(* Texts of one to four sentences of one to three words, through arrays that  *)
(* three words fill but one; texts that fill them, at their end or before it,  *)
(* and every outcome for every sentence.                                      *)
EXTENDS SentenceSplit, SequencesExt

MCSent == 1..4

WordsOf(n, i) == [j \in 1..n[i] |-> i]
Text(n, k) == FlattenSeq([i \in 1..k |-> WordsOf(n, i)])
MCTexts == {Text(n, k) : n \in [MCSent -> 1..3], k \in 1..4}
              \cup {Text(n, 3) : n \in [MCSent -> {1, 4, 5}]}
=============================================================================
