----------------------------- MODULE WordGrouping -----------------------------
(***************************************************************************)
(* word.c: reads the table of words made by gen_table.pl, a line per word  *)
(* with the number of its sentence, and writes a directory per sentence.   *)
(* That a sentence is over shows only in the first word of the next one,   *)
(* which is already in an array then and is carried over to its first      *)
(* slot.  The arrays are of fixed size and the index is not tested.        *)
(* The files of a directory all list the words under the ids 1, 2, ...;    *)
(* here a directory is its name and the sequence of the words' places.     *)
(***************************************************************************)
EXTENDS TextTable

Slots == 1..(MaxSlots - 1)

VARIABLES text,   \* the input
          pos,    \* the next line to read
          index,  \* the slot it is read into
          slot,   \* word[]: the place in the text each slot points to
          prev,   \* prev_para.prev_line
          dirs,   \* the directories, as listed in dir_names.txt
          pc      \* "first" while flag is set, then "reading", then how it ended

wordVars == <<text, pos, index, slot, prev, dirs, pc>>

WordInit == /\ text \in Texts
        /\ pos = 1 /\ index = 1
        /\ slot = [i \in Slots |-> 0]   \* not initialised; no slot is read before
        /\ prev = text[1]               \* it is written, nor prev_para
        /\ dirs = << >>
        /\ pc = "first"

\* The directory of the sentence that is over, with slots 1 .. index - 1; the same
\* step writes its line of new_text.txt.
Directory == [name |-> prev, words |-> [i \in 1..(index - 1) |-> slot[i]]]

AtEnd == pos > Len(text)

Full_Faulty == index + 1 \notin Slots  \* a slot too early

Full == index \notin Slots

ReadFirst ==
    /\ pc = "first"
    /\ slot' = [slot EXCEPT ![index] = pos]
    /\ pos' = pos + 1
    /\ index' = index + 1
    /\ prev' = text[pos]
    /\ pc' = "reading"
    /\ UNCHANGED <<text, dirs>>

ReadSame ==
    /\ pc = "reading" /\ ~AtEnd /\ ~Full
    /\ text[pos] = prev
    /\ slot' = [slot EXCEPT ![index] = pos]
    /\ pos' = pos + 1
    /\ index' = index + 1
    /\ UNCHANGED <<text, prev, dirs, pc>>

ReadNext_Faulty ==  \* the word carried over is not counted
    /\ pc = "reading" /\ ~AtEnd /\ ~Full
    /\ text[pos] # prev
    /\ dirs' = Append(dirs, Directory)
    /\ slot' = [slot EXCEPT ![index] = pos, ![1] = pos]
    /\ pos' = pos + 1
    /\ index' = 1
    /\ prev' = text[pos]
    /\ UNCHANGED <<text, pc>>

ReadNext_Faulty2 ==  \* the sentence's number is taken too late
    /\ pc = "reading" /\ ~AtEnd /\ ~Full
    /\ text[pos] # prev
    /\ dirs' = Append(dirs, Directory)
    /\ slot' = [slot EXCEPT ![index] = pos, ![1] = pos]
    /\ pos' = pos + 1
    /\ index' = 2
    /\ UNCHANGED <<text, prev, pc>>

ReadNext ==
    /\ pc = "reading" /\ ~AtEnd /\ ~Full
    /\ text[pos] # prev
    /\ dirs' = Append(dirs, Directory)
    /\ slot' = [slot EXCEPT ![index] = pos, ![1] = pos]
    /\ pos' = pos + 1
    /\ index' = 2
    /\ prev' = text[pos]
    /\ UNCHANGED <<text, pc>>

ReadEnd_Faulty ==  \* a sentence of one word, just carried over, is left out
    /\ pc = "reading" /\ AtEnd
    /\ dirs' = IF index > 2 THEN Append(dirs, Directory) ELSE dirs
    /\ index' = 2
    /\ pc' = "done"
    /\ UNCHANGED <<text, pos, slot, prev>>

\* At the end of the file the last sentence is written.  Slot 1 is assigned once
\* more, of no consequence, even from past the array when the sentence filled it.
ReadEnd ==
    /\ pc = "reading" /\ AtEnd
    /\ dirs' = Append(dirs, Directory)
    /\ index' = 2
    /\ pc' = "done"
    /\ UNCHANGED <<text, pos, slot, prev>>

\* A line is read into a slot past the array: nothing is known of the program
\* from there on.
Overrun ==
    /\ pc = "reading" /\ ~AtEnd /\ Full
    /\ pc' = "overrun"
    /\ UNCHANGED <<text, pos, index, slot, prev, dirs>>

WordNext == ReadFirst \/ ReadSame \/ ReadNext \/ ReadEnd \/ Overrun

WordSpec == WordInit /\ [][WordNext]_wordVars
-----------------------------------------------------------------------------

WordTypeOK ==
    /\ text \in Texts
    /\ pos \in 1..(Len(text) + 1)
    /\ index \in 1..MaxSlots
    /\ slot \in [Slots -> 0..Len(text)]
    /\ prev \in Sent
    /\ dirs \in Seq([name : Sent, words : Seq(1..Len(text))])
    /\ pc \in {"first", "reading", "done", "overrun"}

Division == INSTANCE TextDivision

\* The directories are the sentences, whole, in order, each with its own words:
\* what the carried-over word, its number and the flag are for.
ImplementsDivision == Division!Spec

\* No directory is written twice: the files of one would replace those of the
\* other, and dir_names.txt, which everything else is dealt out by, list both.
NamesDistinct ==
    \A k, l \in DOMAIN dirs : dirs[k].name = dirs[l].name => k = l

\* When the program ends every word is in a directory, the last sentence's too.
AllPlaced == pc = "done" => Division!Placed = Len(text)

\* The arrays are overrun only by a text with a sentence of MaxSlots - 1 words: 499,
\* if a word, of the same or the next sentence, follows them.
OverrunOnlyLong ==
    pc = "overrun" =>
        \E p \in 1..Len(text) :
            /\ p + MaxSlots - 1 <= Len(text)
            /\ \A i \in p..(p + MaxSlots - 2) : text[i] = text[p]
============================================================================
