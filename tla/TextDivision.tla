----------------------------- MODULE TextDivision -----------------------------
(***************************************************************************)
(* What the sentence splitter promises to the rest of the system: the text *)
(* is divided into directories, one for each sentence, in the order of the *)
(* sentences, each with all the words of its sentence and no other.        *)
(***************************************************************************)
EXTENDS Sequences, Integers

VARIABLES text,  \* the sentence each word belongs to, in text order
          dirs   \* the directories written: a name and the places of its words

\* The last word that is in a directory.
Placed == IF dirs = << >> THEN 0
          ELSE LET words == dirs[Len(dirs)].words IN words[Len(words)]

\* The words from p to q are a sentence, all of it.
WholeSentence(p, q) ==
    /\ \A i \in p..q : text[i] = text[p]
    /\ q < Len(text) => text[q + 1] # text[p]

Init == dirs = << >>

WriteSentence ==
    \E q \in (Placed + 1)..Len(text) :
        /\ WholeSentence(Placed + 1, q)
        /\ dirs' = Append(dirs, [name |-> text[q],
                                 words |-> [i \in 1..(q - Placed) |-> Placed + i]])
        /\ UNCHANGED text

Spec == Init /\ [][WriteSentence]_<<text, dirs>>
=============================================================================
