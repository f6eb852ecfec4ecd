---------------------------- MODULE BatchRunProofs ----------------------------
(****************************************************************************)
(* Proofs about BatchRun, for any number of runs, names, domains and          *)
(* sentences: what DomainDictionary promises, proved of its own steps, and    *)
(* that the whole script takes no other.                                      *)
(****************************************************************************)
EXTENDS BatchRun, SequenceTheorems, TLAPS

\* No run of another domain has touched the files since r copied its dictionary.
Among(r) == \A s \in rivals[r] : domain[s] = domain[r]

(* What a run that is making its dictionary can rely on among runs of its     *)
(* domain, and, in the second half, alone.                                   *)
MakingOwn(r) ==
    Making(r) /\ domain[r] \in Available /\ Among(r) =>
        /\ source = domain[r]
        /\ at[r] # "rm_dic" => object \in {None, domain[r]} /\ binary \in {None, domain[r]}
        /\ rivals[r] = {} =>
             /\ at[r] = "compile" => object = None /\ binary = None
             /\ at[r] = "link" => object = domain[r] /\ relink[r]
             /\ at[r] = "run_dic" => binary = domain[r]

HasOwn(r) ==
    HasSearched(r) /\ domain[r] \in Available =>
        /\ rivals[r] = {} => searched[r] = domain[r]
        /\ Among(r) => searched[r] \in {None, domain[r]}

DictionaryInv ==
    /\ DictionaryTypeOK
    /\ \A r \in Runs : MakingOwn(r) /\ HasOwn(r)

\* An available domain is one, and not "general".
LEMMA AvailableIsDomain == \A d \in Available : d \in Domains /\ d # General /\ d # None
  BY DomainsAssumption

LEMMA DictionaryInitHolds == DictionaryInit => DictionaryInv
  BY DEF DictionaryInit, DictionaryInv, DictionaryTypeOK, MakingOwn, HasOwn, Making,
         HasSearched, Commands, Before, Dictionary, After

LEMMA TypePreserved == DictionaryTypeOK /\ [DictionaryNext]_dictionaryVars => DictionaryTypeOK'
<1> SUFFICES ASSUME DictionaryTypeOK, [DictionaryNext]_dictionaryVars PROVE DictionaryTypeOK'
  OBVIOUS
<1> USE DEF DictionaryTypeOK
<1>1. ASSUME NEW r \in Runs, cp_dic(r) PROVE DictionaryTypeOK'
  BY <1>1 DEF cp_dic, Disturb, Go, Commands, Dictionary
<1>2. ASSUME NEW r \in Runs, rm_dic(r) PROVE DictionaryTypeOK'
  BY <1>2 DEF rm_dic, Disturb, Go, Commands, Dictionary
<1>3. ASSUME NEW r \in Runs, compile(r) PROVE DictionaryTypeOK'
  BY <1>3 DEF compile, Disturb, Go, Commands, Dictionary
<1>4. ASSUME NEW r \in Runs, link(r) PROVE DictionaryTypeOK'
  BY <1>4 DEF link, Disturb, Go, Commands, Dictionary
<1>5. ASSUME NEW r \in Runs, run_dic(r) PROVE DictionaryTypeOK'
  BY <1>5 DEF run_dic, Go, Commands, After
<1>6. ASSUME NEW r \in Runs, OtherCommand(r) PROVE DictionaryTypeOK'
  BY <1>6 DEF OtherCommand, Then, Go, Commands, Before, After
<1>7. CASE UNCHANGED dictionaryVars
  BY <1>7 DEF dictionaryVars
<1> QED  BY <1>1, <1>2, <1>3, <1>4, <1>5, <1>6, <1>7 DEF DictionaryNext, MakeDictionary

(* A step of r seen from another run s: what s relies on survives it, unless   *)
(* r is of another domain, which s's rivals then show.                        *)
LEMMA OthersKeepOwn ==
    ASSUME DictionaryInv, NEW r \in Runs, NEW s \in Runs, s # r,
           MakeDictionary(r)
    PROVE  MakingOwn(s)' /\ HasOwn(s)'
<1>1. /\ at'[s] = at[s] /\ domain' = domain /\ searched'[s] = searched[s] /\ relink'[s] = relink[s]
      /\ (Making(s))' = Making(s) /\ (HasSearched(s))' = HasSearched(s)
  BY DEF DictionaryInv, DictionaryTypeOK, MakeDictionary, cp_dic, rm_dic, compile, link, run_dic,
         Go, Making, HasSearched
<1>2. rivals'[s] = rivals[s] \/ (Making(s) /\ rivals'[s] = rivals[s] \cup {r})
  BY DEF DictionaryInv, DictionaryTypeOK, MakeDictionary, cp_dic, rm_dic, compile, link, run_dic,
         Disturb
<1>3. HasOwn(s)'
  <2>1. HasSearched(s) => ~ Making(s)
    BY DEF HasSearched, Making, After, Dictionary
  <2>2. HasSearched(s) => rivals'[s] = rivals[s]
    BY <1>2, <2>1
  <2>3. HasOwn(s)
    BY DEF DictionaryInv
  <2> QED  BY <1>1, <2>2, <2>3 DEF HasOwn, Among
<1>4. ASSUME Making(s), domain[s] \in Available, Among(s)'
      PROVE  /\ source' = domain[s]
             /\ at[s] # "rm_dic" => object' \in {None, domain[s]} /\ binary' \in {None, domain[s]}
             /\ rivals'[s] = {} => /\ ~ cp_dic(r) /\ ~ rm_dic(r) /\ ~ compile(r) /\ ~ link(r)
  <2>1. Among(s)
    BY <1>1, <1>2, <1>4 DEF Among
  <2>2. /\ source = domain[s]
        /\ at[s] # "rm_dic" => object \in {None, domain[s]} /\ binary \in {None, domain[s]}
    BY <1>4, <2>1 DEF DictionaryInv, MakingOwn
  <2>3. CASE run_dic(r)
    BY <2>2, <2>3 DEF run_dic, cp_dic, rm_dic, compile, link
  <2>4. CASE ~ run_dic(r)
    <3>1. rivals'[s] = rivals[s] \cup {r}
      BY <1>4, <2>4 DEF MakeDictionary, cp_dic, rm_dic, compile, link, Disturb
    <3>2. domain[r] = domain[s]
      BY <1>1, <1>4, <3>1 DEF Among
    <3>3. source' = domain[s]
      BY <1>4, <2>2, <2>4, <3>2 DEF MakeDictionary, cp_dic, rm_dic, compile, link
    <3>4. at[s] # "rm_dic" => object' \in {None, domain[s]} /\ binary' \in {None, domain[s]}
      BY <2>2, <2>4 DEF MakeDictionary, cp_dic, rm_dic, compile, link
    <3> QED  BY <3>1, <3>3, <3>4
  <2> QED  BY <2>3, <2>4
<1>5. MakingOwn(s)'
  <2> SUFFICES ASSUME Making(s), domain[s] \in Available, Among(s)'
               PROVE  /\ source' = domain[s]
                      /\ at[s] # "rm_dic" => object' \in {None, domain[s]} /\ binary' \in {None, domain[s]}
                      /\ rivals'[s] = {} =>
                           /\ at[s] = "compile" => object' = None /\ binary' = None
                           /\ at[s] = "link" => object' = domain[s] /\ relink[s]
                           /\ at[s] = "run_dic" => binary' = domain[s]
    BY <1>1 DEF MakingOwn
  <2>1. ASSUME rivals'[s] = {}
        PROVE  /\ at[s] = "compile" => object' = None /\ binary' = None
               /\ at[s] = "link" => object' = domain[s] /\ relink[s]
               /\ at[s] = "run_dic" => binary' = domain[s]
    <3>1. run_dic(r) /\ rivals[s] = {} /\ Among(s)
      BY <1>2, <1>4, <2>1 DEF MakeDictionary, Among
    <3>2. object' = object /\ binary' = binary
      BY <3>1 DEF run_dic
    <3> QED  BY <3>1, <3>2 DEF DictionaryInv, MakingOwn
  <2> QED  BY <1>4, <2>1
<1> QED  BY <1>3, <1>5

\* A step of r for r itself.
LEMMA OneKeepsOwn ==
    ASSUME DictionaryInv, NEW r \in Runs, MakeDictionary(r)
    PROVE  MakingOwn(r)' /\ HasOwn(r)'
<1>1. DictionaryTypeOK /\ MakingOwn(r) /\ HasOwn(r) /\ domain' = domain
  BY DEF DictionaryInv, MakeDictionary, cp_dic, rm_dic, compile, link, run_dic
<1>2. domain[r] \in Available => domain[r] # None
  BY AvailableIsDomain
<1>3. CASE cp_dic(r)
  <2>1. at'[r] = "rm_dic" /\ (domain[r] \in Available => source' = domain[r])
    BY <1>1, <1>3 DEF DictionaryTypeOK, cp_dic, Go
  <2> QED  BY <1>1, <2>1 DEF MakingOwn, HasOwn, HasSearched, After
<1>4. CASE rm_dic(r)
  <2>1. /\ at[r] = "rm_dic" /\ at'[r] = "compile" /\ rivals'[r] = rivals[r]
        /\ source' = source /\ object' = None /\ binary' = None
    BY <1>1, <1>4 DEF DictionaryTypeOK, rm_dic, Go, Disturb
  <2> QED  BY <1>1, <2>1 DEF MakingOwn, HasOwn, HasSearched, After, Making, Dictionary, Among
<1>5. CASE compile(r)
  <2>1. /\ at[r] = "compile" /\ at'[r] = "link" /\ rivals'[r] = rivals[r]
        /\ source' = source /\ binary' = binary
        /\ object' = IF object = None THEN source ELSE object
        /\ relink'[r] = (object = None \/ binary = None)
    BY <1>1, <1>5 DEF DictionaryTypeOK, compile, Go, Disturb
  <2> QED  BY <1>1, <2>1 DEF MakingOwn, HasOwn, HasSearched, After, Making, Dictionary, Among
<1>6. CASE link(r)
  <2>1. /\ at[r] = "link" /\ at'[r] = "run_dic" /\ rivals'[r] = rivals[r]
        /\ source' = source /\ object' = object
        /\ binary' = IF relink[r] /\ object # None THEN object ELSE binary
    BY <1>1, <1>6 DEF DictionaryTypeOK, link, Go, Disturb
  <2> QED  BY <1>1, <1>2, <2>1 DEF MakingOwn, HasOwn, HasSearched, After, Making, Dictionary, Among
<1>7. CASE run_dic(r)
  <2>1. /\ at[r] = "run_dic" /\ at'[r] = "split" /\ rivals'[r] = rivals[r]
        /\ searched'[r] = binary
    BY <1>1, <1>7 DEF DictionaryTypeOK, run_dic, Go
  <2> QED  BY <1>1, <2>1 DEF MakingOwn, HasOwn, HasSearched, After, Making, Dictionary, Among
<1> QED  BY <1>3, <1>4, <1>5, <1>6, <1>7 DEF MakeDictionary

LEMMA DictionaryStepHolds == DictionaryInv /\ [DictionaryNext]_dictionaryVars => DictionaryInv'
<1> SUFFICES ASSUME DictionaryInv, [DictionaryNext]_dictionaryVars PROVE DictionaryInv'
  OBVIOUS
<1>1. DictionaryTypeOK'
  BY TypePreserved DEF DictionaryInv
<1>2. ASSUME NEW s \in Runs PROVE MakingOwn(s)' /\ HasOwn(s)'
  <2>1. CASE \E r \in Runs : MakeDictionary(r)
    BY <2>1, OthersKeepOwn, OneKeepsOwn
  <2>2. ASSUME NEW r \in Runs, OtherCommand(r) PROVE MakingOwn(s)' /\ HasOwn(s)'
    <3>1. /\ domain' = domain /\ source' = source /\ object' = object /\ binary' = binary
          /\ relink' = relink /\ searched' = searched /\ rivals' = rivals
      BY <2>2 DEF OtherCommand
    <3>2. MakingOwn(s) /\ HasOwn(s) /\ DictionaryTypeOK
      BY DEF DictionaryInv
    <3>3. CASE s # r
      <4>1. at'[s] = at[s]
        BY <2>2, <3>2, <3>3 DEF OtherCommand, Go, DictionaryTypeOK
      <4> QED  BY <3>1, <3>2, <4>1 DEF MakingOwn, HasOwn, Making, HasSearched, Among
    <3>4. CASE s = r
      <4>1. ~ Making(s)'
        BY <2>2, <3>2, <3>4 DEF OtherCommand, Then, Go, DictionaryTypeOK, Making, Dictionary,
                                Before, After
      <4>2. domain[s] \in Available => domain[s] # General
        BY AvailableIsDomain
      <4>3. domain[s] \in Available /\ HasSearched(s)' => HasSearched(s)
        BY <2>2, <3>1, <3>2, <3>4, <4>2 DEF OtherCommand, Then, Go, DictionaryTypeOK, HasSearched,
                                            Before, After
      <4> QED  BY <3>1, <3>2, <4>1, <4>3 DEF MakingOwn, HasOwn, Among
    <3> QED  BY <3>3, <3>4
  <2>3. CASE UNCHANGED dictionaryVars
    BY <2>3 DEF dictionaryVars, DictionaryInv, MakingOwn, HasOwn, Making, HasSearched, Among
  <2> QED  BY <2>1, <2>2, <2>3 DEF DictionaryNext
<1> QED  BY <1>1, <1>2 DEF DictionaryInv

-----------------------------------------------------------------------------
(* The script's commands are the dictionary's or leave it alone.             *)
LEMMA CommandIsOther ==
    ASSUME NEW r \in Runs, NEW from, NEW to, Command(r, from, to),
           \/ from \in Before /\ to \in Before \cup {Then(r)}
           \/ from \in After /\ to \in After \cup {"killed"}
    PROVE  OtherCommand(r)
  BY DEF Command, OtherCommand

LEMMA EveryStep == [Next]_vars => [DictionaryNext]_dictionaryVars
<1> SUFFICES ASSUME [Next]_vars PROVE [DictionaryNext]_dictionaryVars
  OBVIOUS
<1>1. ASSUME NEW r \in Runs, Step(r) PROVE DictionaryNext
  <2>1. CASE dictionary(r)
    BY <2>1 DEF dictionary, DictionaryNext
  <2>2. CASE rm(r) \/ mkdir(r) \/ cp(r) \/ save_format(r) \/ word(r) \/ search(r)
    <3>1. OtherCommand(r)
      BY <2>2, CommandIsOther DEF rm, mkdir, cp, save_format, word, search, Before
    <3> QED  BY <3>1 DEF DictionaryNext
  <2>3. CASE split_file(r) \/ open_dir_names(r) \/ run_sentence(r) \/ end_loop(r) \/ run_anu_browser(r)
    <3>1. OtherCommand(r)
      BY <2>3, CommandIsOther DEF split_file, open_dir_names, run_sentence, end_loop,
                                  run_anu_browser, After
    <3> QED  BY <3>1 DEF DictionaryNext
  <2> QED  BY <1>1, <2>1, <2>2, <2>3 DEF Step
<1>2. ASSUME NEW r \in Runs, run_modules(r) \/ hindi_sentence(r) \/ timeout(r) PROVE DictionaryNext
  <2>1. Onward(r) \in After \cup {"killed"}
    BY DEF Onward, After
  <2>2. OtherCommand(r)
    BY <1>2, <2>1, CommandIsOther DEF run_modules, hindi_sentence, timeout, After
  <2> QED  BY <2>2 DEF DictionaryNext
<1>3. ASSUME NEW r \in Runs, kill(r) PROVE [DictionaryNext]_dictionaryVars
  BY <1>3 DEF kill, OtherCommand, DictionaryNext, dictionaryVars
<1>4. CASE UNCHANGED vars
  BY <1>4 DEF vars, dictionaryVars
<1> QED  BY <1>1, <1>2, <1>3, <1>4 DEF Next

\* The script, with all it does besides, treats the dictionary's files as specified.
THEOREM Implements == Spec => DictionarySpec
<1>1. Init => DictionaryInit
  BY DEF Init
<1> QED  BY <1>1, EveryStep, PTL DEF Spec, DictionarySpec

\* Typing of the dictionary's files for any number of runs.
THEOREM TypeCorrect == Spec => []DictionaryTypeOK
<1>1. DictionaryInv => DictionaryTypeOK
  BY DEF DictionaryInv
<1> QED  BY Implements, DictionaryInitHolds, DictionaryStepHolds, <1>1, PTL DEF DictionarySpec

\* A run that is alone with the files searches the dictionary of its domain.
THEOREM AloneSearchesOwn == Spec => []OwnDictionary
<1>1. DictionaryInv => OwnDictionary
  BY DEF DictionaryInv, HasOwn, OwnDictionary
<1> QED  BY Implements, DictionaryInitHolds, DictionaryStepHolds, <1>1, PTL DEF DictionarySpec

\* Runs of one domain never give each other another's dictionary.
THEOREM ForeignNeedsRival == Spec => []ForeignOnlyByRivals
<1>1. DictionaryInv => ForeignOnlyByRivals
  <2> SUFFICES ASSUME DictionaryInv, NEW r \in Runs, HasSearched(r), domain[r] \in Available,
                      searched[r] \notin {None, domain[r]}
               PROVE  \E s \in rivals[r] : domain[s] # domain[r]
    BY DEF ForeignOnlyByRivals
  <2> QED  BY DEF DictionaryInv, HasOwn, Among
<1> QED  BY Implements, DictionaryInitHolds, DictionaryStepHolds, <1>1, PTL DEF DictionarySpec

-----------------------------------------------------------------------------
(* The files of a run that no namesake disturbed, command by command.         *)
Good(r) ==
    [words |-> r, found |-> r, dictionary |-> searched[r], domains |-> {domain[r]},
     appended |-> {r}]

OwnSentence(r, f, d) ==
    [words : {r}, found : {f}, dictionary : {d}, domains : {{}, {domain[r]}},
     appended : {{}, {r}}, hindi : {{}, {Good(r)}}]

Blank(t) ==
    [text : {t}, words : {None}, found : {None}, dictionary : {None}, names : {<< >>},
     sentence : {<< >>}]

\* d holds r's sentences, with what was found in them by f and dictionary e.
Holds(d, r, f, e) ==
    /\ d = [text |-> r, words |-> r, found |-> d.found, dictionary |-> d.dictionary,
            names |-> [i \in 1 .. length[r] |-> i], sentence |-> d.sentence]
    /\ d.sentence \in [1 .. length[r] -> OwnSentence(r, f, e)]

Untouched(x) == x.domains = {} /\ x.appended = {} /\ x.hindi = {}

Preparing(r) ==
    /\ at[r] = "mkdir" => ~ Exists(r)
    /\ at[r] \in {"cp", "format", "word"} => Exists(r)
    /\ at[r] = "cp" => Here(r) \in Blank(None)
    /\ at[r] = "format" => Here(r) \in Blank(r)
    /\ at[r] = "word" => Here(r) \in Blank(r) /\ format[name[r]] = r

Searching(r) ==
    at[r] \in {"search", "cp_dic", "split"} \cup Dictionary =>
        /\ Exists(r) /\ Holds(Here(r), r, None, None)
        /\ at[r] # "search" => Here(r).found = r
        /\ at[r] = "split" /\ domain[r] # General => Here(r).dictionary = searched[r]
        /\ \A i \in 1 .. length[r] : Untouched(Here(r).sentence[i])

\* The number of sentences that the loop is done with.
Past(r) == length[r] - Len(todo[r])

Translating(r) ==
    at[r] \in {"loop", "clips", "collect", "browse"} =>
        /\ Exists(r) /\ Holds(Here(r), r, r, searched[r])
        /\ todo[r] \in Seq(Nat) /\ Len(todo[r]) \leq length[r]
        /\ \A j \in 1 .. Len(todo[r]) : todo[r][j] = Past(r) + j
        /\ at[r] \in {"clips", "collect"} =>
             /\ todo[r] # << >>
             /\ Here(r).sentence[todo[r][1]].domains = {domain[r]}
             /\ Here(r).sentence[todo[r][1]].hindi = {}
             /\ at[r] = "collect" => Here(r).sentence[todo[r][1]].appended = {r}
             /\ at[r] = "clips" => Here(r).sentence[todo[r][1]].appended = {}
        /\ at[r] = "browse" => todo[r] = << >>
        /\ \A i \in 1 .. length[r] :
             /\ i > Past(r) /\ (at[r] = "loop" \/ i # Past(r) + 1) => Untouched(Here(r).sentence[i])
             /\ i \leq Past(r) => Here(r).sentence[i].hindi # {} \/ i \in timedOut[r]

Reading(r) ==
    at[r] = "read" =>
        /\ Exists(r) /\ Holds(Here(r), r, r, searched[r])
        /\ \A i \in 1 .. length[r] : Untouched(Here(r).sentence[i])

Shown(r) ==
    at[r] = "done" =>
        /\ DOMAIN page[r] = 1 .. length[r]
        /\ \A i \in 1 .. length[r] : page[r][i] \in {{}, {Good(r)}}
        /\ \A i \in 1 .. length[r] : page[r][i] # {} \/ i \in timedOut[r]

OwnFiles(r) ==
    ~ disturbed[r] =>
        Preparing(r) /\ Searching(r) /\ Reading(r) /\ Translating(r) /\ Shown(r)

NoneSearched(r) ==
    /\ at[r] \in {"cp_dic"} \cup Dictionary => domain[r] # General
    /\ domain[r] = General \/ at[r] \in Before \cup {"cp_dic"} \cup Dictionary => searched[r] = None

BatchTypeOK ==
    /\ name \in [Runs -> Names] /\ length \in [Runs -> Sentences]
    /\ DOMAIN directory \subseteq Names /\ DOMAIN format = Names
    /\ DOMAIN todo = Runs /\ DOMAIN timedOut = Runs /\ DOMAIN page = Runs
    /\ disturbed \in [Runs -> BOOLEAN] /\ orphaned \in [Runs -> BOOLEAN]

BatchInv ==
    /\ DictionaryTypeOK
    /\ BatchTypeOK
    /\ \A r \in Runs : NoneSearched(r) /\ OwnFiles(r)

\* Every step but a kill and a stutter.
Work(s) == Step(s) \/ run_modules(s) \/ hindi_sentence(s) \/ timeout(s)

(* What a step of s leaves as it was.                                        *)
LEMMA Frame ==
    ASSUME DictionaryTypeOK, BatchTypeOK, NEW s \in Runs, Work(s)
    PROVE  /\ BatchTypeOK'
           /\ name' = name /\ length' = length /\ domain' = domain /\ orphaned' = orphaned
           /\ \A n \in Names \ {name[s]} :
                /\ n \in DOMAIN directory' <=> n \in DOMAIN directory
                /\ n \in DOMAIN directory => directory'[n] = directory[n]
                /\ format'[n] = format[n]
           /\ \A r \in Runs \ {s} : /\ at'[r] = at[r] /\ todo'[r] = todo[r] /\ page'[r] = page[r]
                                    /\ timedOut'[r] = timedOut[r] /\ searched'[r] = searched[r]
           /\ \A r \in Runs : disturbed'[r] = (disturbed[r] \/ (s # r /\ name[r] = name[s] /\ Started(r)))
<1> USE DEF DictionaryTypeOK, BatchTypeOK, Command, Go, DisturbNamesakes, Writes, files
<1>1. CASE rm(s)
  BY <1>1 DEF rm
<1>10. CASE mkdir(s)
  <2> DEFINE d == [n \in DOMAIN directory \cup {name[s]} |->
                     IF n \in DOMAIN directory THEN directory[n] ELSE NewDirectory]
  <2>1. /\ DOMAIN d \subseteq Names
        /\ \A n \in Names \ {name[s]} :
             (n \in DOMAIN d <=> n \in DOMAIN directory) /\ (n \in DOMAIN directory => d[n] = directory[n])
    OBVIOUS
  <2>2. directory' = d
    BY <1>10 DEF mkdir
  <2> HIDE DEF d
  <2> QED  BY <1>10, <2>1, <2>2 DEF mkdir
<1>11. CASE cp(s)
  BY <1>11 DEF cp
<1>2. CASE save_format(s) \/ word(s)
  BY <1>2 DEF save_format, word
<1>8. CASE search(s)
  BY <1>8 DEF search
<1>9. CASE split_file(s)
  BY <1>9 DEF split_file
<1>3. CASE open_dir_names(s) \/ end_loop(s)
  BY <1>3 DEF open_dir_names, end_loop
<1>6. CASE run_anu_browser(s)
  BY <1>6 DEF run_anu_browser
<1>7. CASE timeout(s)
  BY <1>7 DEF timeout
<1>4. CASE run_sentence(s) \/ run_modules(s) \/ hindi_sentence(s)
  BY <1>4 DEF run_sentence, run_modules, hindi_sentence, InSentence
<1>5. CASE dictionary(s)
  <2>1. /\ DOMAIN directory' = DOMAIN directory
        /\ \A n \in Names \ {name[s]} :
             n \in DOMAIN directory => directory'[n] = directory[n]
    BY <1>5 DEF dictionary
  <2>2. /\ domain' = domain
        /\ \A r \in Runs \ {s} : at'[r] = at[r] /\ searched'[r] = searched[r]
    BY <1>5 DEF dictionary, MakeDictionary, cp_dic, rm_dic, compile, link, run_dic
  <2> QED  BY <1>5, <2>1, <2>2 DEF dictionary
<1> QED  BY <1>1, <1>2, <1>3, <1>4, <1>5, <1>6, <1>7, <1>8, <1>9, <1>10, <1>11 DEF Work, Step

\* A run keeps what it has while another works, or counts as disturbed.
LEMMA OthersKeepFiles ==
    ASSUME BatchInv, NEW s \in Runs, Work(s), NEW r \in Runs, r # s
    PROVE  NoneSearched(r)' /\ OwnFiles(r)'
<1>1. DictionaryTypeOK /\ BatchTypeOK /\ NoneSearched(r) /\ OwnFiles(r)
  BY DEF BatchInv
<1>2. /\ at'[r] = at[r] /\ todo'[r] = todo[r] /\ page'[r] = page[r]
      /\ timedOut'[r] = timedOut[r] /\ searched'[r] = searched[r]
      /\ name' = name /\ length' = length /\ domain' = domain
      /\ disturbed'[r] = (disturbed[r] \/ (s # r /\ name[r] = name[s] /\ Started(r)))
  BY <1>1, Frame
<1>3. NoneSearched(r)'
  BY <1>1, <1>2 DEF NoneSearched
<1>4. CASE disturbed'[r]
  BY <1>3, <1>4 DEF OwnFiles
<1>5. CASE ~ disturbed'[r] /\ name[r] # name[s]
  <2>1. /\ Exists(r)' <=> Exists(r)
        /\ Exists(r) => Here(r)' = Here(r)
        /\ format'[name[r]] = format[name[r]]
    BY <1>1, <1>2, <1>5, Frame DEF Here, Exists, BatchTypeOK
  <2>2. Good(r)' = Good(r) /\ Past(r)' = Past(r)
    BY <1>2 DEF Good, Past
  <2>3. \A d, f, e : Holds(d, r, f, e)' <=> Holds(d, r, f, e)
    BY <1>2, <2>2 DEF Holds, OwnSentence
  <2>4. Preparing(r)' /\ Searching(r)' /\ Reading(r)'
    BY <1>1, <1>2, <1>5, <2>1, <2>3 DEF OwnFiles, Preparing, Searching, Reading
  <2>5. Translating(r)'
    BY <1>1, <1>2, <1>5, <2>1, <2>2, <2>3 DEF OwnFiles, Translating
  <2>6. Shown(r)'
    BY <1>1, <1>2, <1>5, <2>2 DEF OwnFiles, Shown
  <2> QED  BY <1>3, <2>4, <2>5, <2>6 DEF OwnFiles
<1>6. CASE ~ disturbed'[r] /\ ~ Started(r)
  <2>1. at[r] \in {"rm", "done", "killed"}
    BY <1>6 DEF Started
  <2>2. Preparing(r)' /\ Searching(r)' /\ Reading(r)' /\ Translating(r)'
    BY <1>2, <2>1 DEF Preparing, Searching, Reading, Translating, Dictionary
  <2>3. Shown(r)'
    BY <1>1, <1>2, <1>6 DEF OwnFiles, Shown, Good
  <2> QED  BY <1>3, <2>2, <2>3 DEF OwnFiles
<1> QED  BY <1>1, <1>2, <1>4, <1>5, <1>6 DEF BatchTypeOK

-----------------------------------------------------------------------------
(* A run's own commands, in order.                                          *)
LEMMA PrepareStep ==
    ASSUME BatchInv, NEW r \in Runs, rm(r) \/ mkdir(r) \/ cp(r) \/ save_format(r)
    PROVE  NoneSearched(r)' /\ OwnFiles(r)'
<1>1. DictionaryTypeOK /\ BatchTypeOK /\ NoneSearched(r) /\ OwnFiles(r)
  BY DEF BatchInv
<1>2. /\ at[r] \in {"rm", "mkdir", "cp", "format"} /\ at'[r] \in {"mkdir", "cp", "format", "word"}
      /\ searched' = searched /\ domain' = domain /\ name' = name
      /\ disturbed'[r] = disturbed[r]
  BY <1>1 DEF rm, mkdir, cp, save_format, Command, Go, DisturbNamesakes, DictionaryTypeOK, BatchTypeOK
<1>3. NoneSearched(r)'
  BY <1>1, <1>2 DEF NoneSearched, Before, Dictionary
<1>4. (Searching(r) /\ Reading(r) /\ Translating(r) /\ Shown(r))'
  BY <1>2 DEF Searching, Reading, Translating, Shown, Dictionary
<1>5. CASE rm(r)
  <2>1. at'[r] = "mkdir" /\ ~ Exists(r)'
    BY <1>1, <1>2, <1>5 DEF rm, Command, Go, Exists, BatchTypeOK, DictionaryTypeOK
  <2> QED  BY <1>1, <1>2, <1>3, <1>4, <2>1 DEF Preparing, OwnFiles
<1>6. CASE mkdir(r)
  <2>1. /\ at[r] = "mkdir" /\ at'[r] = "cp" /\ Exists(r)'
        /\ ~ Exists(r) => Here(r)' = NewDirectory
    BY <1>1, <1>2, <1>6 DEF mkdir, Command, Go, Here, Exists, BatchTypeOK, DictionaryTypeOK
  <2>2. NewDirectory \in Blank(None)
    BY DEF NewDirectory, Blank
  <2> QED  BY <1>1, <1>2, <1>3, <1>4, <2>1, <2>2 DEF Preparing, OwnFiles
<1>7. CASE cp(r)
  BY <1>1, <1>2, <1>3, <1>4, <1>7 DEF cp, Command, Go, Writes, Here, Exists, BatchTypeOK,
     DictionaryTypeOK, Preparing, OwnFiles, Blank
<1>8. CASE save_format(r)
  BY <1>1, <1>2, <1>3, <1>4, <1>8 DEF save_format, Command, Go, Writes, Here, Exists, BatchTypeOK,
     DictionaryTypeOK, Preparing, OwnFiles, Blank
<1> QED  BY <1>5, <1>6, <1>7, <1>8

\* A step of r alone neither disturbs r nor changes what it was given.
LEMMA OwnStep ==
    ASSUME BatchInv, NEW r \in Runs, Work(r), ~ disturbed'[r]
    PROVE  /\ DictionaryTypeOK /\ BatchTypeOK /\ NoneSearched(r) /\ ~ disturbed[r]
           /\ Preparing(r) /\ Searching(r) /\ Reading(r) /\ Translating(r) /\ Shown(r)
           /\ domain' = domain /\ name' = name /\ length' = length /\ length[r] \in Nat
<1>1. DictionaryTypeOK /\ BatchTypeOK /\ NoneSearched(r) /\ OwnFiles(r)
  BY DEF BatchInv
<1>2. domain' = domain /\ name' = name /\ length' = length /\ ~ disturbed[r]
  BY <1>1, Frame
<1>3. length[r] \in Nat
  BY <1>1, BatchAssumption DEF BatchTypeOK, Sentences
<1> QED  BY <1>1, <1>2, <1>3 DEF OwnFiles

\* What r writes to its directory is there.
LEMMA Written ==
    ASSUME BatchTypeOK, NEW r \in Runs, NEW d, Exists(r), Writes(r, d), name' = name
    PROVE  Exists(r)' /\ Here(r)' = d
  BY DEF BatchTypeOK, Exists, Writes, Here

LEMMA GroupedHolds ==
    ASSUME BatchTypeOK, NEW r \in Runs, length[r] \in Nat, NEW d \in Blank(r)
    PROVE  /\ Holds(Grouped(d, r), r, None, None)
           /\ \A i \in 1 .. length[r] : Untouched(Grouped(d, r).sentence[i])
<1> DEFINE S == [i \in 1 .. length[r] |-> NewSentence(r)]
<1>1. /\ d = [text |-> r, words |-> None, found |-> None, dictionary |-> None, names |-> << >>,
              sentence |-> << >>]
      /\ DOMAIN d.sentence = {}
  BY DEF Blank
<1>2. r # None
  BY BatchAssumption
<1>3. Grouped(d, r) = [text |-> r, words |-> r, found |-> None, dictionary |-> None,
                       names |-> [i \in 1 .. length[r] |-> i], sentence |-> S]
  <2>1. [i \in 1 .. length[r] \cup DOMAIN d.sentence |->
            IF i > length[r] THEN d.sentence[i]
            ELSE IF i \in DOMAIN d.sentence THEN [d.sentence[i] EXCEPT !.words = r]
            ELSE NewSentence(r)] = S
    BY <1>1
  <2> DEFINE N == [i \in 1 .. length[r] |-> i]
  <2>2. Grouped(d, r) = [d EXCEPT !.words = r, !.names = N, !.sentence = S]
    BY <1>2, <2>1 DEF Grouped
  <2> HIDE DEF S, N
  <2>3. Grouped(d, r) = [text |-> r, words |-> r, found |-> None, dictionary |-> None,
                         names |-> N, sentence |-> S]
    BY <1>1, <2>2
  <2> QED  BY <2>3 DEF N
<1>4. NewSentence(r) \in OwnSentence(r, None, None) /\ Untouched(NewSentence(r))
  BY DEF NewSentence, OwnSentence, Untouched
<1>5. S \in [1 .. length[r] -> OwnSentence(r, None, None)]
  BY <1>4
<1>6. \A i \in 1 .. length[r] : Untouched(S[i])
  BY <1>4
<1> HIDE DEF S
<1> QED  BY <1>3, <1>5, <1>6 DEF Holds

LEMMA WordStep ==
    ASSUME BatchInv, NEW r \in Runs, word(r)
    PROVE  NoneSearched(r)' /\ OwnFiles(r)'
<1>0. Work(r)
  BY DEF Work, Step
<1>1. at[r] = "word" /\ at'[r] = "search" /\ searched' = searched /\ domain' = domain
  BY DEF word, Command, Go, BatchInv, DictionaryTypeOK
<1>2. NoneSearched(r)'
  BY <1>1 DEF NoneSearched, BatchInv, Before, Dictionary
<1>3. ASSUME ~ disturbed'[r]
      PROVE  (Preparing(r) /\ Searching(r) /\ Reading(r) /\ Translating(r) /\ Shown(r))'
  <2>1. /\ BatchTypeOK /\ name' = name /\ length' = length /\ length[r] \in Nat
        /\ Exists(r) /\ Here(r) \in Blank(r) /\ format[name[r]] = r
    BY <1>0, <1>1, <1>3, OwnStep DEF Preparing
  <2>2. Exists(r)' /\ Here(r)' = Grouped(Here(r), r)
    BY <2>1, Written DEF word
  <2>3. /\ Holds(Here(r)', r, None, None)
        /\ \A i \in 1 .. length[r] : Untouched(Here(r)'.sentence[i])
    BY <2>1, <2>2, GroupedHolds
  <2>4. \A d : Holds(d, r, None, None) => Holds(d, r, None, None)'
    BY <1>1, <2>1 DEF Holds, OwnSentence, Good
  <2>5. Searching(r)'
    BY <1>1, <2>1, <2>2, <2>3, <2>4 DEF Searching, Untouched
  <2> QED  BY <1>1, <2>5 DEF Preparing, Reading, Translating, Shown
<1> QED  BY <1>2, <1>3 DEF OwnFiles

LEMMA FoundHere ==
    ASSUME NEW d, NEW r, Holds(d, r, None, None)
    PROVE  [d EXCEPT !.found = d.words] =
             [text |-> r, words |-> r, found |-> r, dictionary |-> d.dictionary,
              names |-> [i \in 1 .. length[r] |-> i], sentence |-> d.sentence]
<1> DEFINE N == [i \in 1 .. length[r] |-> i]
<1>1. d = [text |-> r, words |-> r, found |-> d.found, dictionary |-> d.dictionary,
           names |-> N, sentence |-> d.sentence]
  BY DEF Holds
<1> HIDE DEF N
<1>2. d.words = r
  BY <1>1
<1>3. [d EXCEPT !.found = d.words] =
        [text |-> r, words |-> r, found |-> r, dictionary |-> d.dictionary,
         names |-> N, sentence |-> d.sentence]
  BY <1>1, <1>2
<1> QED  BY <1>3 DEF N

LEMMA SearchStep ==
    ASSUME BatchInv, NEW r \in Runs, search(r)
    PROVE  NoneSearched(r)' /\ OwnFiles(r)'
<1>0. Work(r)
  BY DEF Work, Step
<1>1. /\ at[r] = "search" /\ at'[r] = Then(r) /\ at'[r] \in {"cp_dic", "split"}
      /\ searched' = searched /\ domain' = domain
      /\ at'[r] = "split" <=> domain[r] = General
  BY DEF search, Command, Go, Then, BatchInv, DictionaryTypeOK
<1>2. NoneSearched(r)'
  BY <1>1 DEF NoneSearched, BatchInv, Before, Dictionary
<1>3. ASSUME ~ disturbed'[r]
      PROVE  (Preparing(r) /\ Searching(r) /\ Reading(r) /\ Translating(r) /\ Shown(r))'
  <2>1. /\ BatchTypeOK /\ name' = name /\ length' = length
        /\ Exists(r) /\ Holds(Here(r), r, None, None)
        /\ \A i \in 1 .. length[r] : Untouched(Here(r).sentence[i])
    BY <1>0, <1>1, <1>3, OwnStep DEF Searching
  <2>2. Exists(r)' /\ Here(r)' = [Here(r) EXCEPT !.found = Here(r).words]
    BY <2>1, Written DEF search
  <2>3. Here(r)' = [text |-> r, words |-> r, found |-> r, dictionary |-> Here(r).dictionary,
                    names |-> [i \in 1 .. length[r] |-> i], sentence |-> Here(r).sentence]
    BY <2>1, <2>2, FoundHere
  <2>4. Holds(Here(r)', r, None, None) /\ Here(r)'.sentence = Here(r).sentence /\ Here(r)'.found = r
    BY <2>1, <2>3 DEF Holds
  <2>5. \A d : Holds(d, r, None, None) => Holds(d, r, None, None)'
    BY <1>1, <2>1 DEF Holds, OwnSentence, Good
  <2>6. Searching(r)'
    BY <1>1, <2>1, <2>2, <2>4, <2>5 DEF Searching, Untouched
  <2> QED  BY <1>1, <2>6 DEF Preparing, Reading, Translating, Shown
<1> QED  BY <1>2, <1>3 DEF OwnFiles

LEMMA DictionaryHere ==
    ASSUME NEW d, NEW r, NEW f, NEW e, NEW b, Holds(d, r, f, e)
    PROVE  /\ Holds([d EXCEPT !.dictionary = b], r, f, e)
           /\ [d EXCEPT !.dictionary = b].dictionary = b
           /\ [d EXCEPT !.dictionary = b].found = d.found
           /\ [d EXCEPT !.dictionary = b].sentence = d.sentence
<1> DEFINE N == [i \in 1 .. length[r] |-> i]
<1>1. d = [text |-> r, words |-> r, found |-> d.found, dictionary |-> d.dictionary,
           names |-> N, sentence |-> d.sentence]
  BY DEF Holds
<1> HIDE DEF N
<1>2. [d EXCEPT !.dictionary = b] =
        [text |-> r, words |-> r, found |-> d.found, dictionary |-> b,
         names |-> N, sentence |-> d.sentence]
  BY <1>1
<1> QED  BY <1>2 DEF N, Holds

\* Untouched sentences have no translation that could be another's.
LEMMA UntouchedHolds ==
    ASSUME NEW d, NEW r, NEW f, NEW e, Holds(d, r, f, e), length' = length, domain' = domain,
           \A i \in 1 .. length[r] : Untouched(d.sentence[i])
    PROVE  Holds(d, r, f, e)'
<1>1. \A i \in 1 .. length[r] : d.sentence[i] \in OwnSentence(r, f, e)'
  <2> TAKE i \in 1 .. length[r]
  <2>1. d.sentence[i] \in OwnSentence(r, f, e) /\ d.sentence[i].hindi = {}
    BY DEF Holds, Untouched
  <2> QED  BY <2>1 DEF OwnSentence
<1> QED  BY <1>1 DEF Holds

LEMMA DictionaryStep ==
    ASSUME BatchInv, NEW r \in Runs, dictionary(r)
    PROVE  NoneSearched(r)' /\ OwnFiles(r)'
<1>0. Work(r)
  BY DEF Work, Step
<1>1. /\ at[r] \in {"cp_dic"} \cup Dictionary /\ at'[r] \in Dictionary \cup {"split"}
      /\ domain' = domain
      /\ at'[r] # "split" => at[r] # "run_dic" /\ searched' = searched
      /\ at'[r] = "split" => at[r] = "run_dic" /\ searched'[r] = binary
  BY DEF dictionary, MakeDictionary, cp_dic, rm_dic, compile, link, run_dic, Go, Dictionary,
         BatchInv, DictionaryTypeOK
<1>2. NoneSearched(r)'
  BY <1>1 DEF NoneSearched, BatchInv, Before, Dictionary
<1>3. ASSUME ~ disturbed'[r]
      PROVE  (Preparing(r) /\ Searching(r) /\ Reading(r) /\ Translating(r) /\ Shown(r))'
  <2>1. /\ BatchTypeOK /\ name' = name /\ length' = length
        /\ Exists(r) /\ Holds(Here(r), r, None, None) /\ Here(r).found = r
        /\ \A i \in 1 .. length[r] : Untouched(Here(r).sentence[i])
    BY <1>0, <1>1, <1>3, OwnStep DEF Searching, Dictionary
  <2>2. /\ Exists(r)' /\ Holds(Here(r)', r, None, None)
        /\ Here(r)'.found = r /\ Here(r)'.sentence = Here(r).sentence
        /\ at'[r] = "split" => Here(r)'.dictionary = searched'[r]
    <3>1. CASE at[r] # "run_dic"
      <4>1. directory' = directory
        BY <3>1 DEF dictionary
      <4> QED  BY <1>1, <2>1, <3>1, <4>1 DEF Exists, Here
    <3>2. CASE at[r] = "run_dic"
      <4>1. Exists(r)' /\ Here(r)' = [Here(r) EXCEPT !.dictionary = binary]
        BY <2>1, <3>2 DEF dictionary, Exists, Here, BatchTypeOK
      <4>2. at'[r] = "split"
        BY <1>1, <3>2 DEF dictionary, MakeDictionary, cp_dic, rm_dic, compile, link, run_dic, Go,
                          BatchInv, DictionaryTypeOK
      <4> QED  BY <1>1, <2>1, <4>1, <4>2, DictionaryHere
    <3> QED  BY <3>1, <3>2
  <2>3. Holds(Here(r), r, None, None)' /\ \A i \in 1 .. length[r] : Untouched(Here(r)'.sentence[i])
    BY <1>1, <2>1, <2>2, UntouchedHolds
  <2>4. Searching(r)'
    BY <1>1, <2>1, <2>2, <2>3 DEF Searching, Untouched, Dictionary
  <2> QED  BY <1>1, <2>4 DEF Preparing, Reading, Translating, Shown, Dictionary
<1> QED  BY <1>2, <1>3 DEF OwnFiles

LEMMA SplitHolds ==
    ASSUME BatchTypeOK, NEW r \in Runs, length[r] \in Nat, NEW d, Holds(d, r, None, None), d.found = r,
           domain[r] # General => d.dictionary = searched[r],
           domain[r] = General => searched[r] = None,
           \A i \in 1 .. length[r] : Untouched(d.sentence[i])
    PROVE  /\ Holds(Split(r, d), r, r, searched[r])
           /\ \A i \in 1 .. length[r] : Untouched(Split(r, d).sentence[i])
<1> DEFINE N == [i \in 1 .. length[r] |-> i]
           x(i) == [d.sentence[i] EXCEPT !.found = d.found,
                                         !.dictionary = IF domain[r] = General THEN @ ELSE d.dictionary]
           S == [i \in 1 .. length[r] |-> x(i)]
<1>1. /\ d = [text |-> r, words |-> r, found |-> r, dictionary |-> d.dictionary,
              names |-> N, sentence |-> d.sentence]
      /\ DOMAIN d.sentence = 1 .. length[r]
      /\ \A i \in 1 .. length[r] : d.sentence[i] \in OwnSentence(r, None, None)
  BY DEF Holds
<1>2. \A i \in 1 .. length[r] : x(i) \in OwnSentence(r, r, searched[r]) /\ Untouched(x(i))
  <2> TAKE i \in 1 .. length[r]
  <2>1. d.sentence[i] \in OwnSentence(r, None, None) /\ Untouched(d.sentence[i])
    BY <1>1
  <2> QED  BY <2>1 DEF OwnSentence, Untouched
<1>3. d.names = N
  BY <1>1
<1>4. Len(d.names) = length[r]
  BY <1>3
<1> HIDE DEF N
<1>5. [i \in DOMAIN d.sentence |-> IF i > Len(d.names) THEN d.sentence[i] ELSE x(i)] = S
  <2> HIDE DEF x
  <2> DEFINE L == Len(d.names)
             e == d.sentence
  <2>1. DOMAIN e = 1 .. length[r] /\ L = length[r]
    BY <1>1, <1>4
  <2> HIDE DEF L, e
  <2>2. [i \in DOMAIN e |-> IF i > L THEN e[i] ELSE x(i)] = S
    BY <2>1
  <2> QED  BY <2>2 DEF L, e
<1>6. Split(r, d) = [d EXCEPT !.sentence = S]
  BY <1>5 DEF Split
<1> HIDE DEF S
<1>7. Split(r, d) = [text |-> r, words |-> r, found |-> r, dictionary |-> d.dictionary,
                     names |-> N, sentence |-> S]
  BY <1>1, <1>6
<1>8. S \in [1 .. length[r] -> OwnSentence(r, r, searched[r])]
  BY <1>2 DEF S
<1>9. \A i \in 1 .. length[r] : Untouched(S[i])
  BY <1>2 DEF S
<1> QED  BY <1>7, <1>8, <1>9 DEF N, Holds

LEMMA SplitStep ==
    ASSUME BatchInv, NEW r \in Runs, split_file(r)
    PROVE  NoneSearched(r)' /\ OwnFiles(r)'
<1>0. Work(r)
  BY DEF Work, Step
<1>1. /\ at[r] = "split" /\ at'[r] = "read" /\ searched' = searched /\ domain' = domain
  BY DEF split_file, Command, Go, BatchInv, DictionaryTypeOK
<1>2. NoneSearched(r)'
  BY <1>1 DEF NoneSearched, BatchInv, Before, Dictionary
<1>3. ASSUME ~ disturbed'[r]
      PROVE  (Preparing(r) /\ Searching(r) /\ Reading(r) /\ Translating(r) /\ Shown(r))'
  <2>1. /\ BatchTypeOK /\ name' = name /\ length' = length /\ length[r] \in Nat
        /\ NoneSearched(r) /\ Exists(r) /\ Holds(Here(r), r, None, None) /\ Here(r).found = r
        /\ domain[r] # General => Here(r).dictionary = searched[r]
        /\ \A i \in 1 .. length[r] : Untouched(Here(r).sentence[i])
    BY <1>0, <1>1, <1>3, OwnStep DEF Searching
  <2>2. Exists(r)' /\ Here(r)' = Split(r, Here(r))
    BY <2>1, Written DEF split_file
  <2>3. /\ Holds(Here(r)', r, r, searched[r])
        /\ \A i \in 1 .. length[r] : Untouched(Here(r)'.sentence[i])
    BY <2>1, <2>2, SplitHolds DEF NoneSearched
  <2>4. Holds(Here(r), r, r, searched[r])'
    BY <1>1, <2>1, <2>3, UntouchedHolds
  <2>5. Reading(r)'
    BY <2>1, <2>2, <2>3, <2>4 DEF Reading, Untouched
  <2> QED  BY <1>1, <2>5 DEF Preparing, Searching, Translating, Shown, Dictionary
<1> QED  BY <1>2, <1>3 DEF OwnFiles

(* The sentence that the loop is at.                                        *)
Put(d, i, y) == [d EXCEPT !.sentence = [d.sentence EXCEPT ![i] = y]]

LEMMA InSentenceHere ==
    ASSUME BatchTypeOK, NEW r \in Runs, Exists(r), name' = name, NEW y,
           directory' = [directory EXCEPT ![name[r]] = Put(Here(r), todo[r][1], y)]
    PROVE  Exists(r)' /\ Here(r)' = Put(Here(r), todo[r][1], y)
  BY DEF BatchTypeOK, Exists, Here

LEMMA PutHolds ==
    ASSUME NEW d, NEW r, NEW f, NEW e, Holds(d, r, f, e),
           NEW i \in 1 .. length[r], NEW y \in OwnSentence(r, f, e)
    PROVE  /\ Holds(Put(d, i, y), r, f, e)
           /\ Put(d, i, y).sentence[i] = y
           /\ \A j \in 1 .. length[r] \ {i} : Put(d, i, y).sentence[j] = d.sentence[j]
<1> DEFINE N == [j \in 1 .. length[r] |-> j]
           S == [d.sentence EXCEPT ![i] = y]
           x == Put(d, i, y)
<1>1. /\ d = [text |-> r, words |-> r, found |-> d.found, dictionary |-> d.dictionary,
              names |-> N, sentence |-> d.sentence]
      /\ d.sentence \in [1 .. length[r] -> OwnSentence(r, f, e)]
  BY DEF Holds
<1>2. /\ S \in [1 .. length[r] -> OwnSentence(r, f, e)]
      /\ S[i] = y /\ \A j \in 1 .. length[r] \ {i} : S[j] = d.sentence[j]
  BY <1>1
<1> HIDE DEF N, S
<1>3. x = [text |-> r, words |-> r, found |-> d.found, dictionary |-> d.dictionary,
           names |-> N, sentence |-> S]
  BY <1>1 DEF S, Put
<1> HIDE DEF x
<1>4. x.sentence = S /\ x.found = d.found /\ x.dictionary = d.dictionary
  BY <1>3
<1>5. Holds(x, r, f, e)
  BY <1>2, <1>3, <1>4 DEF N, Holds
<1>6. /\ x.sentence[i] = y
      /\ \A j \in 1 .. length[r] \ {i} : x.sentence[j] = d.sentence[j]
  BY <1>2, <1>4
<1> QED  BY <1>5, <1>6 DEF x

LEMMA OpenStep ==
    ASSUME BatchInv, NEW r \in Runs, open_dir_names(r)
    PROVE  NoneSearched(r)' /\ OwnFiles(r)'
<1>0. Work(r)
  BY DEF Work, Step
<1>1. /\ at[r] = "read" /\ at'[r] = "loop" /\ searched' = searched /\ domain' = domain
      /\ directory' = directory /\ timedOut' = timedOut
  BY DEF open_dir_names, Command, Go, BatchInv, DictionaryTypeOK, files
<1>2. NoneSearched(r)'
  BY <1>1 DEF NoneSearched, BatchInv, Before, Dictionary
<1>3. ASSUME ~ disturbed'[r]
      PROVE  (Preparing(r) /\ Searching(r) /\ Reading(r) /\ Translating(r) /\ Shown(r))'
  <2>1. /\ BatchTypeOK /\ name' = name /\ length' = length /\ length[r] \in Nat
        /\ Exists(r) /\ Holds(Here(r), r, r, searched[r])
        /\ \A i \in 1 .. length[r] : Untouched(Here(r).sentence[i])
    BY <1>0, <1>1, <1>3, OwnStep DEF Reading
  <2>2. Exists(r)' /\ Here(r)' = Here(r)
    BY <1>1, <2>1 DEF Exists, Here
  <2> DEFINE N == [i \in 1 .. length[r] |-> i]
  <2>3. todo'[r] = N
    <3>1. Here(r).names = N
      BY <2>1 DEF Holds
    <3>2. todo'[r] = Here(r).names
      BY <2>1 DEF open_dir_names, BatchTypeOK
    <3> QED  BY <3>1, <3>2
  <2>4. N \in Seq(Nat) /\ Len(N) = length[r] /\ \A j \in 1 .. length[r] : N[j] = j
    BY <2>1
  <2>5. Past(r)' = 0
    BY <2>1, <2>3, <2>4 DEF Past
  <2>6. Holds(Here(r), r, r, searched[r])'
    BY <1>1, <2>1, <2>2, UntouchedHolds
  <2> HIDE DEF N
  <2>7. Translating(r)'
    <3>1. /\ Exists(r)' /\ Holds(Here(r), r, r, searched[r])'
          /\ todo'[r] \in Seq(Nat) /\ Len(todo'[r]) \leq length[r]
      BY <2>1, <2>2, <2>3, <2>4, <2>6
    <3>2. \A j \in 1 .. Len(todo'[r]) : todo'[r][j] = Past(r)' + j
      BY <2>1, <2>3, <2>4, <2>5
    <3>3. \A i \in 1 .. length[r] : Untouched(Here(r)'.sentence[i]) /\ ~ i \leq Past(r)'
      BY <2>1, <2>2, <2>5
    <3> QED  BY <1>1, <2>1, <3>1, <3>2, <3>3 DEF Translating, Untouched
  <2> QED  BY <1>1, <2>7 DEF Preparing, Searching, Reading, Shown, Dictionary
<1> QED  BY <1>2, <1>3 DEF OwnFiles

\* The sentence that the loop is at is there.
LEMMA AtSentence ==
    ASSUME BatchTypeOK, NEW r \in Runs, length[r] \in Nat, Translating(r),
           at[r] \in {"loop", "clips", "collect"}, todo[r] # << >>
    PROVE  /\ Exists(r) /\ Holds(Here(r), r, r, searched[r])
           /\ todo[r][1] \in 1 .. length[r] /\ todo[r][1] = Past(r) + 1
           /\ HasSentence(r) /\ ThisSentence(r) \in OwnSentence(r, r, searched[r])
           /\ Past(r) \in Nat /\ Len(todo[r]) \in 1 .. length[r]
<1>1. /\ Exists(r) /\ Holds(Here(r), r, r, searched[r])
      /\ todo[r] \in Seq(Nat) /\ Len(todo[r]) \leq length[r]
      /\ \A j \in 1 .. Len(todo[r]) : todo[r][j] = Past(r) + j
  BY DEF Translating
<1>2. Len(todo[r]) \in 1 .. length[r] /\ Past(r) \in Nat
  BY <1>1 DEF Past
<1>3. todo[r][1] \in 1 .. length[r] /\ todo[r][1] = Past(r) + 1
  BY <1>1, <1>2 DEF Past
<1> QED  BY <1>1, <1>2, <1>3 DEF HasSentence, ThisSentence, Holds

LEMMA HoldsStays ==
    ASSUME NEW r \in Runs, length' = length, domain' = domain, searched' = searched
    PROVE  \A d : Holds(d, r, r, searched[r])' <=> Holds(d, r, r, searched[r])
  BY DEF Holds, OwnSentence, Good

LEMMA RunSentenceStep ==
    ASSUME BatchInv, NEW r \in Runs, run_sentence(r)
    PROVE  NoneSearched(r)' /\ OwnFiles(r)'
<1>0. Work(r)
  BY DEF Work, Step
<1>1. /\ at[r] = "loop" /\ at'[r] \in {"loop", "clips"} /\ searched' = searched /\ domain' = domain
      /\ timedOut' = timedOut
  BY DEF run_sentence, Command, Go, BatchInv, DictionaryTypeOK
<1>2. NoneSearched(r)'
  BY <1>1 DEF NoneSearched, BatchInv, Before, Dictionary
<1>3. ASSUME ~ disturbed'[r]
      PROVE  (Preparing(r) /\ Searching(r) /\ Reading(r) /\ Translating(r) /\ Shown(r))'
  <2> DEFINE i == todo[r][1]
             y == [ThisSentence(r) EXCEPT !.domains = ThisSentence(r).domains \cup {domain[r]}]
  <2>1. /\ BatchTypeOK /\ DictionaryTypeOK /\ name' = name /\ length' = length /\ length[r] \in Nat
        /\ Translating(r) /\ todo[r] # << >>
    BY <1>0, <1>3, OwnStep DEF run_sentence
  <2>2. /\ Exists(r) /\ Holds(Here(r), r, r, searched[r])
        /\ i \in 1 .. length[r] /\ i = Past(r) + 1
        /\ HasSentence(r) /\ ThisSentence(r) \in OwnSentence(r, r, searched[r])
        /\ Past(r) \in Nat
    BY <1>1, <2>1, AtSentence
  <2>3. Untouched(ThisSentence(r))
    BY <1>1, <2>1, <2>2 DEF Translating, ThisSentence
  <2>4. /\ at'[r] = "clips" /\ todo' = todo
        /\ directory' = [directory EXCEPT ![name[r]] = Put(Here(r), i, y)]
    BY <2>1, <2>2 DEF run_sentence, Command, Go, DictionaryTypeOK, InSentence, Put, Here,
                      ThisSentence
  <2>5. /\ y \in OwnSentence(r, r, searched[r])
        /\ y.domains = {domain[r]} /\ y.hindi = {} /\ y.appended = {}
    BY <2>2, <2>3 DEF OwnSentence, Untouched
  <2> HIDE DEF y
  <2>6. Exists(r)' /\ Here(r)' = Put(Here(r), i, y)
    BY <2>1, <2>2, <2>4, InSentenceHere
  <2> HIDE DEF i
  <2>7. /\ Holds(Here(r)', r, r, searched[r])
        /\ Here(r)'.sentence[i] = y
        /\ \A j \in 1 .. length[r] \ {i} : Here(r)'.sentence[j] = Here(r).sentence[j]
    BY <2>2, <2>5, <2>6, PutHolds
  <2>8. Holds(Here(r), r, r, searched[r])'
    BY <1>1, <2>1, <2>7, HoldsStays
  <2>9. Past(r)' = Past(r)
    BY <2>1, <2>4 DEF Past
  <2>10. \A j \in 1 .. length[r] :
             /\ j > Past(r) /\ j # i => Untouched(Here(r)'.sentence[j])
             /\ j \leq Past(r) => Here(r)'.sentence[j].hindi # {} \/ j \in timedOut[r]
    <3> TAKE j \in 1 .. length[r]
    <3>1. /\ j > Past(r) => Untouched(Here(r).sentence[j])
          /\ j \leq Past(r) => Here(r).sentence[j].hindi # {} \/ j \in timedOut[r]
      BY <1>1, <2>1 DEF Translating
    <3>2. j # i => Here(r)'.sentence[j] = Here(r).sentence[j]
      BY <2>7
    <3>3. j \leq Past(r) => j # i
      BY <2>2
    <3> QED  BY <3>1, <3>2, <3>3
  <2>11. Translating(r)'
    <3>1. /\ Exists(r)' /\ Holds(Here(r), r, r, searched[r])'
          /\ todo'[r] \in Seq(Nat) /\ Len(todo'[r]) \leq length[r]
          /\ \A j \in 1 .. Len(todo'[r]) : todo'[r][j] = Past(r)' + j
      BY <1>1, <2>1, <2>4, <2>6, <2>8, <2>9 DEF Translating
    <3>2. /\ todo'[r] # << >> /\ i = todo'[r][1]
          /\ Here(r)'.sentence[i].domains = {domain[r]}
          /\ Here(r)'.sentence[i].hindi = {} /\ Here(r)'.sentence[i].appended = {}
      BY <2>1, <2>4, <2>5, <2>7 DEF i
    <3> QED  BY <1>1, <2>1, <2>2, <2>4, <2>9, <2>10, <3>1, <3>2 DEF Translating, Untouched
  <2> QED  BY <2>4, <2>11 DEF Preparing, Searching, Reading, Shown, Dictionary
<1> QED  BY <1>2, <1>3 DEF OwnFiles

LEMMA RunModulesStep ==
    ASSUME BatchInv, NEW r \in Runs, run_modules(r)
    PROVE  NoneSearched(r)' /\ OwnFiles(r)'
<1>0. Work(r)
  BY DEF Work
<1>1. /\ at[r] = "clips" /\ at'[r] = "collect" /\ searched' = searched /\ domain' = domain
      /\ timedOut' = timedOut /\ todo' = todo
  BY DEF run_modules, Command, Go, BatchInv, DictionaryTypeOK
<1>2. NoneSearched(r)'
  BY <1>1 DEF NoneSearched, BatchInv, Before, Dictionary
<1>3. ASSUME ~ disturbed'[r]
      PROVE  (Preparing(r) /\ Searching(r) /\ Reading(r) /\ Translating(r) /\ Shown(r))'
  <2> DEFINE i == todo[r][1]
             y == [ThisSentence(r) EXCEPT !.appended = ThisSentence(r).appended \cup {r}]
  <2>1. /\ BatchTypeOK /\ DictionaryTypeOK /\ name' = name /\ length' = length /\ length[r] \in Nat
        /\ Translating(r) /\ todo[r] # << >>
    BY <1>0, <1>1, <1>3, OwnStep DEF Translating
  <2>2. /\ Exists(r) /\ Holds(Here(r), r, r, searched[r])
        /\ i \in 1 .. length[r] /\ i = Past(r) + 1
        /\ HasSentence(r) /\ ThisSentence(r) \in OwnSentence(r, r, searched[r])
        /\ Past(r) \in Nat
    BY <1>1, <2>1, AtSentence
  <2>3. /\ ThisSentence(r).domains = {domain[r]} /\ ThisSentence(r).hindi = {}
        /\ ThisSentence(r).appended = {}
    BY <1>1, <2>1, <2>2 DEF Translating, ThisSentence
  <2>4. directory' = [directory EXCEPT ![name[r]] = Put(Here(r), i, y)]
    BY <2>1, <2>2 DEF run_modules, InSentence, Put, Here, ThisSentence
  <2>5. /\ y \in OwnSentence(r, r, searched[r])
        /\ y.domains = {domain[r]} /\ y.hindi = {} /\ y.appended = {r}
    BY <2>2, <2>3 DEF OwnSentence
  <2> HIDE DEF y
  <2>6. Exists(r)' /\ Here(r)' = Put(Here(r), i, y)
    BY <2>1, <2>2, <2>4, InSentenceHere
  <2> HIDE DEF i
  <2>7. /\ Holds(Here(r)', r, r, searched[r])
        /\ Here(r)'.sentence[i] = y
        /\ \A j \in 1 .. length[r] \ {i} : Here(r)'.sentence[j] = Here(r).sentence[j]
    BY <2>2, <2>5, <2>6, PutHolds
  <2>8. Holds(Here(r), r, r, searched[r])'
    BY <1>1, <2>1, <2>7, HoldsStays
  <2>9. Past(r)' = Past(r)
    BY <1>1, <2>1 DEF Past
  <2>10. \A j \in 1 .. length[r] :
             /\ j > Past(r) /\ j # i => Untouched(Here(r)'.sentence[j])
             /\ j \leq Past(r) => Here(r)'.sentence[j].hindi # {} \/ j \in timedOut[r]
    <3> TAKE j \in 1 .. length[r]
    <3>1. /\ j > Past(r) /\ j # Past(r) + 1 => Untouched(Here(r).sentence[j])
          /\ j \leq Past(r) => Here(r).sentence[j].hindi # {} \/ j \in timedOut[r]
      BY <1>1, <2>1 DEF Translating
    <3>2. j # i => Here(r)'.sentence[j] = Here(r).sentence[j]
      BY <2>7
    <3>3. (j \leq Past(r) => j # i) /\ i = Past(r) + 1
      BY <2>2
    <3> QED  BY <3>1, <3>2, <3>3
  <2>11. Translating(r)'
    <3>1. /\ Exists(r)' /\ Holds(Here(r), r, r, searched[r])'
          /\ todo'[r] \in Seq(Nat) /\ Len(todo'[r]) \leq length[r]
          /\ \A j \in 1 .. Len(todo'[r]) : todo'[r][j] = Past(r)' + j
      BY <1>1, <2>1, <2>6, <2>8, <2>9 DEF Translating
    <3>2. /\ todo'[r] # << >> /\ i = todo'[r][1]
          /\ Here(r)'.sentence[i].domains = {domain[r]}
          /\ Here(r)'.sentence[i].hindi = {} /\ Here(r)'.sentence[i].appended = {r}
      BY <1>1, <2>1, <2>5, <2>7 DEF i
    <3> QED  BY <1>1, <2>1, <2>2, <2>9, <2>10, <3>1, <3>2 DEF Translating, Untouched
  <2> QED  BY <1>1, <2>11 DEF Preparing, Searching, Reading, Shown, Dictionary
<1> QED  BY <1>2, <1>3 DEF OwnFiles

\* The loop is done with one sentence more.
LEMMA TailStep ==
    ASSUME BatchTypeOK, NEW r \in Runs, length[r] \in Nat, length' = length, Translating(r),
           at[r] \in {"loop", "clips", "collect"}, todo[r] # << >>,
           todo' = [todo EXCEPT ![r] = Tail(@)]
    PROVE  /\ todo'[r] \in Seq(Nat) /\ Len(todo'[r]) \leq length[r]
           /\ Past(r)' = Past(r) + 1
           /\ \A j \in 1 .. Len(todo'[r]) : todo'[r][j] = Past(r)' + j
<1>1. /\ todo[r] \in Seq(Nat) /\ Len(todo[r]) \leq length[r]
      /\ \A j \in 1 .. Len(todo[r]) : todo[r][j] = Past(r) + j
  BY DEF Translating
<1>2. todo'[r] = Tail(todo[r])
  BY DEF BatchTypeOK
<1>3. /\ Tail(todo[r]) \in Seq(Nat) /\ Len(Tail(todo[r])) = Len(todo[r]) - 1
      /\ \A j \in 1 .. Len(todo[r]) - 1 : Tail(todo[r])[j] = todo[r][j + 1]
  BY <1>1, HeadTailProperties
<1> DEFINE n == Len(todo[r])
           t == Tail(todo[r])
<1>4. n \in Nat \ {0}
  BY <1>1
<1>5. Len(t) = n - 1 /\ \A j \in 1 .. n - 1 : t[j] = todo[r][j + 1]
  BY <1>3
<1>6. Past(r) = length[r] - n /\ Past(r)' = length[r] - Len(t)
  BY <1>2 DEF Past
<1> HIDE DEF n, t
<1>7. Past(r)' = Past(r) + 1
  BY <1>4, <1>5, <1>6
<1>8. \A j \in 1 .. n - 1 : t[j] = Past(r)' + j
  <2> TAKE j \in 1 .. n - 1
  <2>1. j + 1 \in 1 .. n
    BY <1>4
  <2>2. t[j] = Past(r) + (j + 1)
    BY <1>1, <1>5, <2>1 DEF n
  <2> QED  BY <1>4, <1>6, <1>7, <2>1, <2>2
<1>9. n \leq length[r] /\ t \in Seq(Nat) /\ todo'[r] = t
  BY <1>1, <1>2, <1>3 DEF n, t
<1>10. 1 .. Len(t) = 1 .. n - 1 /\ Len(t) \leq length[r]
  BY <1>4, <1>5, <1>9
<1>11. \A j \in 1 .. Len(t) : t[j] = Past(r)' + j
  BY <1>8, <1>10
<1> QED  BY <1>7, <1>9, <1>10, <1>11

\* Steps that are done with the sentence the loop is at.
LEMMA PastStep ==
    ASSUME BatchInv, NEW r \in Runs, Work(r), ~ disturbed'[r],
           at[r] \in {"loop", "clips", "collect"}, todo[r] # << >>,
           at'[r] \in {"loop", "killed"}, todo' = [todo EXCEPT ![r] = Tail(@)],
           searched' = searched, Exists(r)', Holds(Here(r)', r, r, searched[r]),
           \A j \in 1 .. length[r] \ {todo[r][1]} : Here(r)'.sentence[j] = Here(r).sentence[j],
           \A j \in timedOut[r] : j \in timedOut'[r],
           Here(r)'.sentence[todo[r][1]].hindi # {} \/ todo[r][1] \in timedOut'[r]
    PROVE  Translating(r)'
<1> DEFINE i == todo[r][1]
<1>1. /\ BatchTypeOK /\ DictionaryTypeOK /\ name' = name /\ length' = length /\ length[r] \in Nat
      /\ domain' = domain /\ Translating(r)
  BY OwnStep
<1>2. /\ i \in 1 .. length[r] /\ i = Past(r) + 1 /\ Past(r) \in Nat
      /\ \A j \in 1 .. length[r] : j # i => Here(r)'.sentence[j] = Here(r).sentence[j]
  BY <1>1, AtSentence
<1>3. /\ todo'[r] \in Seq(Nat) /\ Len(todo'[r]) \leq length[r]
      /\ Past(r)' = Past(r) + 1
      /\ \A j \in 1 .. Len(todo'[r]) : todo'[r][j] = Past(r)' + j
  BY <1>1, TailStep
<1>4. Holds(Here(r), r, r, searched[r])'
  BY <1>1, HoldsStays
<1> HIDE DEF i
<1>5. \A j \in 1 .. length[r] :
            /\ j > Past(r)' => Untouched(Here(r)'.sentence[j])
            /\ j \leq Past(r)' => Here(r)'.sentence[j].hindi # {} \/ j \in timedOut'[r]
  <2> TAKE j \in 1 .. length[r]
  <2>1. CASE j = i
    BY <1>2, <1>3, <2>1 DEF i
  <2>2. CASE j # i
    <3>1. /\ j > Past(r) /\ j # Past(r) + 1 => Untouched(Here(r).sentence[j])
          /\ j \leq Past(r) => Here(r).sentence[j].hindi # {} \/ j \in timedOut[r]
      BY <1>1 DEF Translating
    <3> QED  BY <1>2, <1>3, <2>2, <3>1
  <2> QED  BY <2>1, <2>2
<1> QED  BY <1>1, <1>3, <1>4, <1>5 DEF Translating, Untouched

LEMMA TimeoutStep ==
    ASSUME BatchInv, NEW r \in Runs, timeout(r)
    PROVE  NoneSearched(r)' /\ OwnFiles(r)'
<1>0. Work(r)
  BY DEF Work
<1>1. /\ at[r] \in {"clips", "collect"} /\ at'[r] \in {"loop", "killed"}
      /\ searched' = searched /\ domain' = domain /\ directory' = directory
      /\ todo' = [todo EXCEPT ![r] = Tail(@)]
      /\ timedOut' = [timedOut EXCEPT ![r] = @ \cup {todo[r][1]}]
  BY DEF timeout, Onward, Command, Go, files, BatchInv, DictionaryTypeOK
<1>2. NoneSearched(r)'
  BY <1>1 DEF NoneSearched, BatchInv, Before, Dictionary
<1>3. ASSUME ~ disturbed'[r]
      PROVE  (Preparing(r) /\ Searching(r) /\ Reading(r) /\ Translating(r) /\ Shown(r))'
  <2>1. /\ BatchTypeOK /\ name' = name /\ length' = length /\ length[r] \in Nat
        /\ Translating(r) /\ todo[r] # << >>
    BY <1>0, <1>1, <1>3, OwnStep DEF Translating
  <2>2. Exists(r) /\ Holds(Here(r), r, r, searched[r])
    BY <1>1, <2>1, AtSentence
  <2>3. Exists(r)' /\ Here(r)' = Here(r)
    BY <1>1, <2>1, <2>2 DEF Exists, Here
  <2>4. timedOut'[r] = timedOut[r] \cup {todo[r][1]}
    BY <1>1, <2>1 DEF BatchTypeOK
  <2>5. Translating(r)'
    BY <1>0, <1>1, <1>3, <2>1, <2>2, <2>3, <2>4, PastStep
  <2> QED  BY <1>1, <2>5 DEF Preparing, Searching, Reading, Shown, Dictionary
<1> QED  BY <1>2, <1>3 DEF OwnFiles

LEMMA HindiSentenceStep ==
    ASSUME BatchInv, NEW r \in Runs, hindi_sentence(r)
    PROVE  NoneSearched(r)' /\ OwnFiles(r)'
<1>0. Work(r)
  BY DEF Work
<1>1. /\ at[r] = "collect" /\ at'[r] \in {"loop", "killed"}
      /\ searched' = searched /\ domain' = domain /\ timedOut' = timedOut
      /\ todo' = [todo EXCEPT ![r] = Tail(@)]
  BY DEF hindi_sentence, Onward, Command, Go, BatchInv, DictionaryTypeOK
<1>2. NoneSearched(r)'
  BY <1>1 DEF NoneSearched, BatchInv, Before, Dictionary
<1>3. ASSUME ~ disturbed'[r]
      PROVE  (Preparing(r) /\ Searching(r) /\ Reading(r) /\ Translating(r) /\ Shown(r))'
  <2> DEFINE i == todo[r][1]
             y == [ThisSentence(r) EXCEPT !.hindi = {Translated(ThisSentence(r))}]
  <2>1. /\ BatchTypeOK /\ name' = name /\ length' = length /\ length[r] \in Nat
        /\ Translating(r) /\ todo[r] # << >>
    BY <1>0, <1>1, <1>3, OwnStep DEF Translating
  <2>2. /\ Exists(r) /\ Holds(Here(r), r, r, searched[r])
        /\ i \in 1 .. length[r]
        /\ HasSentence(r) /\ ThisSentence(r) \in OwnSentence(r, r, searched[r])
    BY <1>1, <2>1, AtSentence
  <2>3. ThisSentence(r).domains = {domain[r]} /\ ThisSentence(r).appended = {r}
    BY <1>1, <2>1, <2>2 DEF Translating, ThisSentence
  <2>4. directory' = [directory EXCEPT ![name[r]] = Put(Here(r), i, y)]
    BY <2>1, <2>2 DEF hindi_sentence, InSentence, Put, Here, ThisSentence
  <2>5. y \in OwnSentence(r, r, searched[r]) /\ y.hindi # {}
    <3>1. Translated(ThisSentence(r)) = Good(r)
      BY <2>2, <2>3 DEF OwnSentence, Translated, Good
    <3> QED  BY <2>2, <3>1 DEF OwnSentence
  <2> HIDE DEF y
  <2>6. Exists(r)' /\ Here(r)' = Put(Here(r), i, y)
    BY <2>1, <2>2, <2>4, InSentenceHere
  <2> HIDE DEF i
  <2>7. /\ Holds(Here(r)', r, r, searched[r])
        /\ Here(r)'.sentence[i] = y
        /\ \A j \in 1 .. length[r] \ {i} : Here(r)'.sentence[j] = Here(r).sentence[j]
    BY <2>2, <2>5, <2>6, PutHolds
  <2>8. Translating(r)'
    BY <1>0, <1>1, <1>3, <2>1, <2>5, <2>6, <2>7, PastStep DEF i
  <2> QED  BY <1>1, <2>8 DEF Preparing, Searching, Reading, Shown, Dictionary
<1> QED  BY <1>2, <1>3 DEF OwnFiles

LEMMA EndLoopStep ==
    ASSUME BatchInv, NEW r \in Runs, end_loop(r)
    PROVE  NoneSearched(r)' /\ OwnFiles(r)'
<1>0. Work(r)
  BY DEF Work, Step
<1>1. /\ at[r] = "loop" /\ at'[r] = "browse" /\ todo[r] = << >>
      /\ searched' = searched /\ domain' = domain /\ directory' = directory
      /\ todo' = todo /\ timedOut' = timedOut
  BY DEF end_loop, Command, Go, files, BatchInv, DictionaryTypeOK
<1>2. NoneSearched(r)'
  BY <1>1 DEF NoneSearched, BatchInv, Before, Dictionary
<1>3. ASSUME ~ disturbed'[r]
      PROVE  (Preparing(r) /\ Searching(r) /\ Reading(r) /\ Translating(r) /\ Shown(r))'
  <2>1. /\ name' = name /\ length' = length /\ length[r] \in Nat /\ Translating(r)
    BY <1>0, <1>3, OwnStep
  <2>2. /\ Exists(r)' <=> Exists(r)
        /\ Here(r)' = Here(r) /\ Past(r)' = Past(r) /\ Past(r) = length[r]
        /\ \A d : Holds(d, r, r, searched[r])' <=> Holds(d, r, r, searched[r])
    BY <1>1, <2>1, HoldsStays DEF Exists, Here, Past
  <2>3. Translating(r)'
    BY <1>1, <2>1, <2>2 DEF Translating
  <2> QED  BY <1>1, <2>3 DEF Preparing, Searching, Reading, Shown, Dictionary
<1> QED  BY <1>2, <1>3 DEF OwnFiles

LEMMA BrowserStep ==
    ASSUME BatchInv, NEW r \in Runs, run_anu_browser(r)
    PROVE  NoneSearched(r)' /\ OwnFiles(r)'
<1>0. Work(r)
  BY DEF Work, Step
<1>1. /\ at[r] = "browse" /\ at'[r] = "done"
      /\ searched' = searched /\ domain' = domain /\ timedOut' = timedOut
  BY DEF run_anu_browser, Command, Go, BatchInv, DictionaryTypeOK
<1>2. NoneSearched(r)'
  BY <1>1 DEF NoneSearched, BatchInv, Before, Dictionary
<1>3. ASSUME ~ disturbed'[r]
      PROVE  (Preparing(r) /\ Searching(r) /\ Reading(r) /\ Translating(r) /\ Shown(r))'
  <2>1. /\ BatchTypeOK /\ length' = length /\ length[r] \in Nat /\ Translating(r)
    BY <1>0, <1>3, OwnStep
  <2>2. /\ Exists(r) /\ Holds(Here(r), r, r, searched[r]) /\ Past(r) = length[r]
    BY <1>1, <2>1 DEF Translating, Past
  <2>3. page'[r] = [i \in DOMAIN Here(r).sentence |-> Here(r).sentence[i].hindi]
    BY <2>1, <2>2 DEF run_anu_browser, BatchTypeOK
  <2>4. /\ DOMAIN Here(r).sentence = 1 .. length[r]
        /\ \A i \in 1 .. length[r] : Here(r).sentence[i] \in OwnSentence(r, r, searched[r])
    BY <2>2 DEF Holds
  <2>5. \A i \in 1 .. length[r] : /\ Here(r).sentence[i].hindi \in {{}, {Good(r)}}
                                  /\ Here(r).sentence[i].hindi # {} \/ i \in timedOut[r]
    <3> TAKE i \in 1 .. length[r]
    <3>1. Here(r).sentence[i].hindi \in {{}, {Good(r)}}
      BY <2>4 DEF OwnSentence
    <3> QED  BY <1>1, <2>1, <2>2, <3>1 DEF Translating
  <2>6. Good(r)' = Good(r)
    BY <1>1 DEF Good
  <2>7. DOMAIN page'[r] = 1 .. length[r] /\ \A i \in 1 .. length[r] : page'[r][i] = Here(r).sentence[i].hindi
    BY <2>3, <2>4
  <2>8. Shown(r)'
    BY <1>1, <2>1, <2>5, <2>6, <2>7 DEF Shown
  <2> QED  BY <1>1, <2>8 DEF Preparing, Searching, Reading, Translating, Dictionary
<1> QED  BY <1>2, <1>3 DEF OwnFiles

\* A run that is killed leaves its files, and so do the others.
LEMMA KillStep ==
    ASSUME BatchInv, NEW s \in Runs, kill(s)
    PROVE  BatchInv'
<1>1. /\ DictionaryTypeOK /\ BatchTypeOK
      /\ DictionaryTypeOK' /\ BatchTypeOK'
      /\ \A r \in Runs : at'[r] = at[r] \/ at'[r] = "killed"
      /\ name' = name /\ length' = length /\ domain' = domain /\ disturbed' = disturbed
      /\ directory' = directory /\ format' = format /\ todo' = todo /\ page' = page
      /\ timedOut' = timedOut /\ searched' = searched
  BY DEF BatchInv, kill, Go, files, DictionaryTypeOK, BatchTypeOK, Commands
<1> SUFFICES ASSUME NEW r \in Runs
             PROVE  NoneSearched(r)' /\ OwnFiles(r)'
  BY <1>1 DEF BatchInv
<1>2. NoneSearched(r) /\ OwnFiles(r)
  BY DEF BatchInv
<1>3. CASE at'[r] = "killed"
  <2>1. NoneSearched(r)'
    BY <1>1, <1>2, <1>3 DEF NoneSearched, Before, Dictionary
  <2>2. (Preparing(r) /\ Searching(r) /\ Reading(r) /\ Translating(r) /\ Shown(r))'
    BY <1>3 DEF Preparing, Searching, Reading, Translating, Shown, Dictionary
  <2> QED  BY <2>1, <2>2 DEF OwnFiles
<1>4. CASE at'[r] = at[r]
  <2>1. NoneSearched(r)'
    BY <1>1, <1>2, <1>4 DEF NoneSearched
  <2>2. /\ Exists(r)' <=> Exists(r)
        /\ Here(r)' = Here(r) /\ Past(r)' = Past(r) /\ Good(r)' = Good(r)
        /\ \A d, f, e : Holds(d, r, f, e)' <=> Holds(d, r, f, e)
    BY <1>1 DEF Exists, Here, Past, Good, Holds, OwnSentence
  <2>3. (Preparing(r) <=> Preparing(r)') /\ (Searching(r) <=> Searching(r)') /\ (Reading(r) <=> Reading(r)')
    BY <1>1, <1>4, <2>2 DEF Preparing, Searching, Reading
  <2>4. Translating(r) => Translating(r)'
    BY <1>1, <1>4, <2>2 DEF Translating
  <2>5. Shown(r) => Shown(r)'
    BY <1>1, <1>4, <2>2 DEF Shown
  <2> QED  BY <1>1, <1>2, <2>1, <2>3, <2>4, <2>5 DEF OwnFiles
<1> QED  BY <1>1, <1>3, <1>4

LEMMA BatchUnchanged == BatchInv /\ UNCHANGED vars => BatchInv'
<1> SUFFICES ASSUME BatchInv, UNCHANGED vars
             PROVE  BatchInv'
  OBVIOUS
<1>1. /\ at' = at /\ name' = name /\ length' = length /\ domain' = domain /\ disturbed' = disturbed
      /\ directory' = directory /\ format' = format /\ todo' = todo /\ page' = page
      /\ timedOut' = timedOut /\ searched' = searched /\ orphaned' = orphaned
      /\ source' = source /\ object' = object /\ binary' = binary
      /\ relink' = relink /\ rivals' = rivals
  BY DEF vars, dictionaryVars, batchVars
<1>2. DictionaryTypeOK' /\ BatchTypeOK'
  BY <1>1 DEF BatchInv, DictionaryTypeOK, BatchTypeOK
<1>3. ASSUME NEW r \in Runs
      PROVE  NoneSearched(r)' /\ OwnFiles(r)'
  <2>1. NoneSearched(r) /\ OwnFiles(r)
    BY DEF BatchInv
  <2>2. /\ Exists(r)' <=> Exists(r)
        /\ Here(r)' = Here(r) /\ Past(r)' = Past(r) /\ Good(r)' = Good(r)
        /\ \A d, f, e : Holds(d, r, f, e)' <=> Holds(d, r, f, e)
    BY <1>1 DEF Exists, Here, Past, Good, Holds, OwnSentence
  <2>3. NoneSearched(r)'
    BY <1>1, <2>1 DEF NoneSearched
  <2>4. (Preparing(r) <=> Preparing(r)') /\ (Searching(r) <=> Searching(r)') /\ (Reading(r) <=> Reading(r)')
    BY <1>1, <2>2 DEF Preparing, Searching, Reading
  <2>5. Translating(r) => Translating(r)'
    BY <1>1, <2>2 DEF Translating
  <2>6. Shown(r) => Shown(r)'
    BY <1>1, <2>2 DEF Shown
  <2> QED  BY <1>1, <2>1, <2>3, <2>4, <2>5, <2>6 DEF OwnFiles
<1> QED  BY <1>2, <1>3 DEF BatchInv

LEMMA BatchInitHolds == Init => BatchInv
<1> SUFFICES ASSUME Init
             PROVE  BatchInv
  OBVIOUS
<1>1. DictionaryTypeOK
  BY DictionaryInitHolds DEF Init, DictionaryInv
<1>2. BatchTypeOK
  BY DEF Init, BatchTypeOK
<1>3. \A r \in Runs : NoneSearched(r) /\ OwnFiles(r)
  BY DEF Init, DictionaryInit, NoneSearched, OwnFiles, Preparing, Searching, Reading, Translating, Shown,
         Dictionary
<1> QED  BY <1>1, <1>2, <1>3 DEF BatchInv

LEMMA BatchStepHolds == BatchInv /\ [Next]_vars => BatchInv'
<1> SUFFICES ASSUME BatchInv, Next
             PROVE  BatchInv'
  BY BatchUnchanged
<1>1. DictionaryTypeOK /\ BatchTypeOK
  BY DEF BatchInv
<1>2. DictionaryTypeOK'
  BY <1>1, EveryStep, TypePreserved
<1>3. PICK s \in Runs : Work(s) \/ kill(s)
  BY DEF Next, Work
<1>4. CASE kill(s)
  BY <1>4, KillStep
<1>5. CASE Work(s)
  <2>1. BatchTypeOK'
    BY <1>1, <1>5, Frame
  <2>2. ASSUME NEW r \in Runs \ {s}
        PROVE  NoneSearched(r)' /\ OwnFiles(r)'
    BY <1>5, OthersKeepFiles
  <2>3. NoneSearched(s)' /\ OwnFiles(s)'
    <3>1. CASE rm(s) \/ mkdir(s) \/ cp(s) \/ save_format(s)
      BY <3>1, PrepareStep
    <3>2. CASE word(s) \/ search(s) \/ dictionary(s) \/ split_file(s)
      BY <3>2, WordStep, SearchStep, DictionaryStep, SplitStep
    <3>3. CASE open_dir_names(s) \/ run_sentence(s) \/ run_modules(s) \/ hindi_sentence(s)
      BY <3>3, OpenStep, RunSentenceStep, RunModulesStep, HindiSentenceStep
    <3>4. CASE timeout(s) \/ end_loop(s) \/ run_anu_browser(s)
      BY <3>4, TimeoutStep, EndLoopStep, BrowserStep
    <3> QED  BY <1>5, <3>1, <3>2, <3>3, <3>4 DEF Work, Step
  <2> QED  BY <1>2, <2>1, <2>2, <2>3 DEF BatchInv
<1> QED  BY <1>3, <1>4, <1>5

LEMMA BatchInvHolds == Spec => []BatchInv
<1> QED  BY BatchInitHolds, BatchStepHolds, PTL DEF Spec

(* A run that no namesake was active with shows its own translations, with any *)
(* number of runs, killed or not, before it and around it.                    *)
THEOREM OwnTranslationsShown == Spec => []OwnTranslations
<1>1. BatchInv => OwnTranslations
  <2> SUFFICES ASSUME BatchInv, NEW r \in Runs, at[r] = "done", ~ disturbed[r]
               PROVE  /\ DOMAIN page[r] = 1 .. length[r]
                      /\ \A i \in DOMAIN page[r] : \A translation \in page[r][i] :
                           /\ translation.words = r /\ translation.found = r
                           /\ translation.dictionary = searched[r]
                           /\ translation.domains = {domain[r]} /\ translation.appended = {r}
    BY DEF OwnTranslations
  <2>1. Shown(r)
    BY DEF BatchInv, OwnFiles
  <2>2. /\ DOMAIN page[r] = 1 .. length[r]
        /\ \A i \in 1 .. length[r] : page[r][i] \in {{}, {Good(r)}}
    BY <2>1 DEF Shown
  <2>3. \A i \in 1 .. length[r] : \A translation \in page[r][i] : translation = Good(r)
    BY <2>2
  <2> QED  BY <2>2, <2>3 DEF Good
<1> QED  BY BatchInvHolds, <1>1, PTL

(* Each sentence of such a run is translated or was ended by the time limit.   *)
THEOREM SentencesTranslated == Spec => []EachTranslated
<1>1. BatchInv => EachTranslated
  BY DEF BatchInv, OwnFiles, Shown, EachTranslated
<1> QED  BY BatchInvHolds, <1>1, PTL
===============================================================================
