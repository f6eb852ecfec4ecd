------------------------------- MODULE TextTable -------------------------------
(***************************************************************************)
(* The table of a text's words that gen_table.pl makes and word.c reads: a *)
(* line per word, with the number of the word's sentence.                  *)
(***************************************************************************)
EXTENDS Sequences, Integers

CONSTANTS Sent,     \* the sentence numbers, "para.line"
          Texts,    \* the inputs: the sentence of each word
          MaxSlots  \* MAX_NO_OF_LINES: the slots are 0 .. MaxSlots - 1, 0 is unused

ASSUME SlotAssumption == MaxSlots \in Nat /\ MaxSlots >= 3

\* There is a first word, and gen_table.pl numbers the sentences upwards: the
\* number of one that is over never comes back.
ASSUME TextsAssumption ==
    \A t \in Texts :
        /\ t \in Seq(Sent) /\ Len(t) > 0
        /\ \A i, j, k \in 1..Len(t) :
              i < j /\ j < k /\ t[i] = t[k] => t[j] = t[i]
================================================================================
