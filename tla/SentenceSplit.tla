----------------------------- MODULE SentenceSplit -----------------------------
(***************************************************************************)
(* Anusaaraka_stanford.sh from the table of words to the sentences'        *)
(* directories: word.c makes the directories and a file with a line per    *)
(* sentence, an external program (tagger, parser, dictionary search) turns *)
(* the lines into blocks, and split_file.c deals the blocks out.  There    *)
(* are some fifteen such files, each made and dealt out alike and by       *)
(* itself; here there is one.                                              *)
(***************************************************************************)
EXTENDS WordGrouping, BlockHandOut

\* The files are dealt out to the sentences' directories, and a line other than the
\* separator carries the position of its sentence.
ASSUME SplitAssumption == Name = Sent /\ Line = Nat /\ Separator = 0

VARIABLES stage,     \* "words", then "deal"
          outcome    \* what became of each sentence

vars == <<stage, wordVars, outcome, dealVars>>

\* What the program can make of a sentence: its lines and a separator; the separator
\* alone, for a sentence without a parse that Anusaaraka_stanford.sh:103 gives an
\* empty tree; the lines without separator, when the line did not end as the
\* program expects; or nothing.
Outcome == {"block", "empty", "unclosed", "lost"}

Output(k, result) == CASE result = "block"    -> <<k, k, Separator>>
                       [] result = "empty"    -> <<Separator>>
                       [] result = "unclosed" -> <<k, k>>
                       [] result = "lost"     -> << >>

Init == /\ stage = "words"
        /\ WordInit
        /\ outcome = << >>
        /\ names = << >> /\ stream = << >>
        /\ next = 1 /\ at = 1 /\ copying = FALSE
        /\ given = [n \in Sent |-> << >>]

Group == /\ stage = "words"
         /\ WordNext
         /\ UNCHANGED <<stage, outcome, dealVars>>

\* The external program, which reads the sentences one after the other.
Parse == /\ stage = "words" /\ pc = "done" /\ Len(outcome) < Len(dirs)
         /\ \E result \in Outcome :
                /\ outcome' = Append(outcome, result)
                /\ stream' = stream \o Output(Len(outcome) + 1, result)
         /\ UNCHANGED <<stage, wordVars, names, next, at, copying, given>>

\* split_file.c is started when the program is through; dir_names.txt, which it
\* reads as it goes, does not change any more.
StartDeal == /\ stage = "words" /\ pc = "done" /\ Len(outcome) = Len(dirs)
             /\ names' = [k \in DOMAIN dirs |-> dirs[k].name]
             /\ stage' = "deal"
             /\ UNCHANGED <<wordVars, outcome, stream, next, at, copying, given>>

HandOut == /\ stage = "deal"
           /\ DealNext
           /\ UNCHANGED <<stage, wordVars, outcome>>

Next == Group \/ Parse \/ StartDeal \/ HandOut

Spec == Init /\ [][Next]_vars
-----------------------------------------------------------------------------
\* The lines made of the k-th sentence, and those its directory has.
Produced(k) == {p \in DOMAIN stream : stream[p] = k}
Received(k) == Places(given[dirs[k].name])

\* A sentence's output, whole or empty, is in the directory that has its words,
\* as long as the program has put a separator after every sentence before it.
OwnBlock ==
    stage = "deal" /\ Done =>
        \A k \in DOMAIN dirs :
            (\A j \in 1..k : outcome[j] \in {"block", "empty"}) =>
                Received(k) = Produced(k)

\* No line is in two directories, and none in a later one than its sentence's own:
\* the words of a directory never get the parse of an earlier sentence.
NeverEarlier ==
    stage = "deal" =>
        \A k, l \in DOMAIN dirs :
            /\ k # l => Received(k) \cap Received(l) = {}
            /\ \A p \in Received(k) : stream[p] >= k

\* The damage of one lost sentence is not contained: every later directory gets the
\* output of the sentence after its own, and the last gets none.
LossShifts ==
    stage = "deal" /\ Done =>
        \A i \in DOMAIN dirs :
            (outcome[i] = "lost" /\ \A j \in DOMAIN dirs \ {i} : outcome[j] = "block") =>
                \A k \in DOMAIN dirs :
                    Received(k) = Produced(IF k < i THEN k ELSE k + 1)
================================================================================
