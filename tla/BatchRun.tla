------------------------------- MODULE BatchRun -------------------------------
(****************************************************************************)
(* The drivers: src/bin/Anusaaraka_stanford.sh, which translates a text, and *)
(* src/bin/run_sentence_stanford.sh, which it calls for every sentence.      *)
(*                                                                          *)
(* Several runs are active at a time.  A run's files lie in a directory      *)
(* named after its text, tmp/$1_tmp, and in tmp/tmp_save_format/$1, which    *)
(* runs on texts of the same name share; the domain's dictionary they all    *)
(* share (DomainDictionary).  A run may be killed, and a sentence's run takes *)
(* 500 seconds at most.                                                     *)
(*                                                                          *)
(* Of a file only the run is kept whose text it came from: its words, its    *)
(* facts.  What the programs called do with them is in the other modules.    *)
(* Writing through a working directory that another run has removed is left  *)
(* out, as are the parser's and the tagger's files, which go the way of the   *)
(* search programs'.                                                        *)
(****************************************************************************)
EXTENDS DomainDictionary, Sequences

CONSTANTS
    Names,          \* what texts may be called
    MaxSentences    \* the most sentences of a text

ASSUME BatchAssumption == MaxSentences \in Nat \ {0} /\ None \notin Runs

Sentences == 1 .. MaxSentences

VARIABLES
    name,           \* the name of each run's text
    length,         \* the number of its sentences
    directory,      \* tmp/$1_tmp, for the names that have one
    format,         \* tmp/tmp_save_format/$1.fmt_split, by name
    todo,           \* what each run has still to read of dir_names.txt
    timedOut,       \* the sentences that each run's time limit ended
    orphaned,       \* a run was killed, but not its sentence's processes
    disturbed,      \* a run of the same name was active during a run
    page            \* the translations that a run showed

batchVars == <<name, length, directory, format, todo, timedOut, orphaned, disturbed, page>>
vars == <<dictionaryVars, batchVars>>
files == <<directory, format>>

(* A sentence's directory: the run whose words word.out wrote, that whose     *)
(* expressions split_file put there, the dictionary's domain; the (Domain)    *)
(* facts of domain.dat and the runs whose facts are in the files that stages  *)
(* append to; and hindi_sentence.dat, a set of one translation or none.       *)
NewSentence(r) ==
    [words |-> r, found |-> None, dictionary |-> None, domains |-> {}, appended |-> {},
     hindi |-> {}]

\* What run_modules_std.bat and run_H_gen_sen.bat make of a sentence's directory.
Translated(d) ==
    [words |-> d.words, found |-> d.found, dictionary |-> d.dictionary,
     domains |-> d.domains, appended |-> d.appended]

Init ==
    /\ DictionaryInit
    /\ name \in [Runs -> Names]
    /\ length \in [Runs -> Sentences]
    /\ directory = [n \in {} |-> None]
    /\ format = [n \in Names |-> None]
    /\ todo = [r \in Runs |-> << >>]
    /\ timedOut = [r \in Runs |-> {}]
    /\ orphaned = [r \in Runs |-> FALSE]
    /\ disturbed = [r \in Runs |-> FALSE]
    /\ page = [r \in Runs |-> << >>]

-----------------------------------------------------------------------------
Here(r) == directory[name[r]]
Exists(r) == name[r] \in DOMAIN directory
Started(r) == at[r] \notin {"rm", "done", "killed"}

\* r works on files that other active runs of the name take for theirs.
DisturbNamesakes(r) ==
    disturbed' = [s \in Runs |-> \/ disturbed[s]
                                 \/ s # r /\ name[s] = name[r] /\ Started(s)]

\* A command of r that does no more to the dictionary's files than go on.
Command(r, from, to) ==
    /\ at[r] = from
    /\ Go(r, to)
    /\ DisturbNamesakes(r)
    /\ UNCHANGED <<domain, source, object, binary, relink, searched, rivals,
                   name, length, orphaned>>

\* Without the directory nothing can be written to it; the script goes on.
Writes(r, d) ==
    directory' = IF Exists(r) THEN [directory EXCEPT ![name[r]] = d] ELSE directory

\* Mutant: the directory is not removed first.
rm_missing(r) ==
    /\ Command(r, "rm", "mkdir")
    /\ UNCHANGED <<files, todo, timedOut, page>>

(* Lines 34 to 36, 38 and 41.                                               *)
rm(r) ==
    /\ Command(r, "rm", "mkdir")
    /\ directory' = [n \in DOMAIN directory \ {name[r]} |-> directory[n]]
    /\ UNCHANGED <<format, todo, timedOut, page>>

NewDirectory ==
    [text |-> None, words |-> None, found |-> None, dictionary |-> None,
     names |-> << >>, sentence |-> << >>]

mkdir(r) ==
    /\ Command(r, "mkdir", "cp")
    /\ directory' = [n \in DOMAIN directory \cup {name[r]} |->
                       IF n \in DOMAIN directory THEN directory[n] ELSE NewDirectory]
    /\ UNCHANGED <<format, todo, timedOut, page>>

cp(r) ==
    /\ Command(r, "cp", "format")
    /\ Writes(r, [Here(r) EXCEPT !.text = r])
    /\ UNCHANGED <<format, todo, timedOut, page>>

(* Lines 68 to 70: stdenglish.sh, pre_process.sh and save_format.sh.         *)
save_format(r) ==
    /\ Command(r, "format", "word")
    /\ format' = [format EXCEPT ![name[r]] = IF Exists(r) THEN Here(r).text ELSE None]
    /\ UNCHANGED <<directory, todo, timedOut, page>>

(* Line 74: word.out makes the sentences' directories and writes their names. *)
Grouped(d, owner) ==
    LET n == IF owner = None THEN 0 ELSE length[owner]
    IN [d EXCEPT !.words = owner,
                 !.names = [i \in 1 .. n |-> i],
                 !.sentence = [i \in 1 .. n \cup DOMAIN d.sentence |->
                                 IF i > n THEN d.sentence[i]
                                 ELSE IF i \in DOMAIN d.sentence
                                   THEN [d.sentence[i] EXCEPT !.words = owner]
                                   ELSE NewSentence(owner)]]

word(r) ==
    /\ Command(r, "word", "search")
    /\ Writes(r, Grouped(Here(r), format[name[r]]))
    /\ UNCHANGED <<format, todo, timedOut, page>>

\* Mutant: the test of line 114 is missing, and what it guards.
search_general(r) ==
    /\ Command(r, "search", "split")
    /\ Writes(r, [Here(r) EXCEPT !.found = Here(r).words])
    /\ UNCHANGED <<format, todo, timedOut, page>>

(* Lines 109 to 114.                                                        *)
search(r) ==
    /\ Command(r, "search", Then(r))
    /\ Writes(r, [Here(r) EXCEPT !.found = Here(r).words])
    /\ UNCHANGED <<format, todo, timedOut, page>>

(* Lines 115 to 119: the last of them writes into the run's directory.        *)
dictionary(r) ==
    /\ MakeDictionary(r)
    /\ DisturbNamesakes(r)
    /\ directory' = IF at[r] = "run_dic" /\ Exists(r)
                      THEN [directory EXCEPT ![name[r]].dictionary = binary]
                      ELSE directory
    /\ UNCHANGED <<name, length, format, todo, timedOut, orphaned, page>>

(* Lines 124 to 148: split_file.out puts what was found for a sentence in its *)
(* directory (SentenceSplit); the dictionary's only if there is a domain.     *)
Split(r, d) ==
    [d EXCEPT !.sentence = [i \in DOMAIN d.sentence |->
        IF i > Len(d.names) THEN d.sentence[i]
        ELSE [d.sentence[i] EXCEPT
                !.found = d.found,
                !.dictionary = IF domain[r] = General THEN @ ELSE d.dictionary]]]

split_file(r) ==
    /\ Command(r, "split", "read")
    /\ Writes(r, Split(r, Here(r)))
    /\ UNCHANGED <<format, todo, timedOut, page>>

(* Line 157: the file stays open while the loop reads it.                    *)
open_dir_names(r) ==
    /\ Command(r, "read", "loop")
    /\ todo' = [todo EXCEPT ![r] = IF Exists(r) THEN Here(r).names ELSE << >>]
    /\ UNCHANGED <<files, timedOut, page>>

(* Lines 151 to 155, and 2 to 15 of run_sentence_stanford.sh, which ends at   *)
(* once if the sentence's directory is not there.                            *)
HasSentence(r) == Exists(r) /\ todo[r][1] \in DOMAIN Here(r).sentence
InSentence(r, field, value) ==
    directory' = [directory EXCEPT ![name[r]].sentence[todo[r][1]][field] = value]
ThisSentence(r) == Here(r).sentence[todo[r][1]]

run_sentence(r) ==
    /\ todo[r] # << >>
    /\ IF HasSentence(r)
         THEN /\ Command(r, "loop", "clips")
              /\ InSentence(r, "domains", ThisSentence(r).domains \cup {domain[r]})
              /\ UNCHANGED todo
         ELSE /\ Command(r, "loop", "loop")
              /\ todo' = [todo EXCEPT ![r] = Tail(@)]
              /\ UNCHANGED directory
    /\ UNCHANGED <<format, timedOut, page>>

(* Line 21: the stages, which append their facts to some of their files.      *)
run_modules(r) ==
    /\ Command(r, "clips", "collect")
    /\ IF HasSentence(r)
         THEN InSentence(r, "appended", ThisSentence(r).appended \cup {r})
         ELSE UNCHANGED directory
    /\ UNCHANGED <<format, todo, timedOut, page>>

\* The loop goes on, unless the shell that runs it is dead.
Onward(r) == IF orphaned[r] THEN "killed" ELSE "loop"

(* Lines 23 to 54: the translation is the last file that is written.          *)
hindi_sentence(r) ==
    /\ Command(r, "collect", Onward(r))
    /\ IF HasSentence(r)
         THEN InSentence(r, "hindi", {Translated(ThisSentence(r))})
         ELSE UNCHANGED directory
    /\ todo' = [todo EXCEPT ![r] = Tail(@)]
    /\ UNCHANGED <<format, timedOut, page>>

\* Mutant: the limit is on the stages alone.
timeout_modules(r) ==
    /\ Command(r, "clips", Onward(r))
    /\ timedOut' = [timedOut EXCEPT ![r] = @ \cup {todo[r][1]}]
    /\ todo' = [todo EXCEPT ![r] = Tail(@)]
    /\ UNCHANGED <<files, page>>

\* Mutant: the sentence that is ended ends the loop.
timeout_breaks(r) ==
    /\ Command(r, at[r], Onward(r))
    /\ at[r] \in {"clips", "collect"}
    /\ timedOut' = [timedOut EXCEPT ![r] = @ \cup {todo[r][1]}]
    /\ todo' = [todo EXCEPT ![r] = << >>]
    /\ UNCHANGED <<files, page>>

(* Line 155: timeout kills the sentence's processes wherever they are.        *)
timeout(r) ==
    /\ Command(r, at[r], Onward(r))
    /\ at[r] \in {"clips", "collect"}
    /\ timedOut' = [timedOut EXCEPT ![r] = @ \cup {todo[r][1]}]
    /\ todo' = [todo EXCEPT ![r] = Tail(@)]
    /\ UNCHANGED <<files, page>>

end_loop(r) ==
    /\ todo[r] = << >>
    /\ Command(r, "loop", "browse")
    /\ UNCHANGED <<files, todo, timedOut, page>>

(* Lines 159 to 169.                                                        *)
run_anu_browser(r) ==
    /\ Command(r, "browse", "done")
    /\ page' = [page EXCEPT ![r] =
                  IF Exists(r) THEN [i \in DOMAIN Here(r).sentence |-> Here(r).sentence[i].hindi]
                  ELSE << >>]
    /\ UNCHANGED <<files, todo, timedOut>>

(* The shell that runs the script dies.  timeout has put the processes of a    *)
(* sentence in a group of their own: they go on.                              *)
kill(r) ==
    /\ Started(r) /\ ~ orphaned[r]
    /\ IF at[r] \in {"clips", "collect"}
         THEN orphaned' = [orphaned EXCEPT ![r] = TRUE] /\ UNCHANGED at
         ELSE Go(r, "killed") /\ UNCHANGED orphaned
    /\ UNCHANGED <<domain, source, object, binary, relink, searched, rivals,
                   name, length, files, todo, timedOut, disturbed, page>>

-----------------------------------------------------------------------------
\* The commands that do not wait for a sentence's processes.
Step(r) ==
    \/ rm(r) \/ mkdir(r) \/ cp(r) \/ save_format(r) \/ word(r) \/ search(r)
    \/ dictionary(r) \/ split_file(r)
    \/ open_dir_names(r) \/ run_sentence(r) \/ end_loop(r) \/ run_anu_browser(r)

Next == \E r \in Runs : Step(r) \/ run_modules(r) \/ hindi_sentence(r) \/ timeout(r) \/ kill(r)

Spec == Init /\ [][Next]_vars

(* The shell's commands end, but a stage may run for ever: what ends a         *)
(* sentence for sure is the time limit.                                      *)
Fairness == \A r \in Runs : WF_vars(Step(r)) /\ WF_vars(timeout(r))

FairSpec == Spec /\ Fairness

-----------------------------------------------------------------------------
(* A run that no other run of its name was active with shows translations of  *)
(* its own text and no other: of its words, with the expressions found in      *)
(* them, one (Domain) fact, and facts that one attempt appended, whatever a     *)
(* killed run of the same name left behind (rm -rf and mkdir, >> of            *)
(* run_sentence_stanford.sh:13-15, the time limit).                            *)
OwnTranslations ==
    \A r \in Runs :
        at[r] = "done" /\ ~ disturbed[r] =>
            /\ DOMAIN page[r] = 1 .. length[r]
            /\ \A i \in DOMAIN page[r] : \A translation \in page[r][i] :
                 /\ translation.words = r /\ translation.found = r
                 /\ translation.dictionary = searched[r]
                 /\ translation.domains = {domain[r]} /\ translation.appended = {r}

(* Every sentence of such a run is translated, but for those that the time     *)
(* limit ended: one that takes too long does not cost the others.             *)
EachTranslated ==
    \A r \in Runs :
        at[r] = "done" /\ ~ disturbed[r] =>
            \A i \in 1 .. length[r] : page[r][i] # {} \/ i \in timedOut[r]

(* Every run ends, though the stages may not.                                 *)
Finishes == \A r \in Runs : Started(r) ~> ~ Started(r)
===============================================================================
