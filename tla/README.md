# TLA+ models of anusaaraka

Anusaaraka translates English to Hindi.  A sentence is tokenised, parsed and
analysed by external programs, and then passes through some forty small expert
systems, each a set of CLIPS rules that reads facts from files and writes facts
to files.  This directory models the stages where the outcome depends on the
*order* in which rules fire and on what one stage leaves for the next, the search
for multi-word expressions that feeds them, and the scripts that run it all, several
at a time.  It checks them with TLC and proves their main properties with TLAPS.

- [1. The system](#1-the-system)
- [2. The modules](#2-the-modules)
- [3. What is checked](#3-what-is-checked)
- [4. What is proved](#4-what-is-proved)
- [5. Findings](#5-findings)
- [6. What is not modelled](#6-what-is-not-modelled)
- [7. Plan](#7-plan)

Paths below are relative to `src/`.

## 1. The system

### 1.1 Inventory

| Component | Code | State it keeps | Operations |
|---|---|---|---|
| Batch driver | `bin/Anusaaraka_stanford.sh` | `tmp/<file>_tmp/`, the dictionary binaries in the source tree | tokenise, parse, split, build the domain dictionary, run each sentence with a time limit of 500 s |
| Sentence driver | `bin/run_sentence_stanford.sh` | the sentence's directory | CLIPS run, generation, `all_facts` |
| Sentence splitter | `Anu_src/word.c`, `Anu_src/split_file.c` | the words of the current sentence, one word carried over; position in the parser's output | group words into sentence directories; deal the parser's blocks out to them by position |
| Stage sequence | `Anu_clp_files/run_modules_std.bat` | the `.dat` files of the sentence | `(clear)`, `bload`, `load-facts`, `open`, `(run)` per stage |
| CLIPS engine (vendored) | `CLIPS/` | working memory, agenda | recognise-act cycle |
| Alignment | `Anu_clp_files/parserid_wordid_mapping.clp` | `current_id`, `nonascii_missing`, remaining words and tokens | 8 rules, and `end` |
| Category, root | `Anu_clp_files/cat_rule.clp`, `root_rule.clp` | analyses of each word | choose one |
| Multi-word expression search | `multifast-v1.4.2/` | Aho-Corasick automaton, line buffer, table of word offsets | find dictionary groups in a sentence, name their words |
| Choice among expressions | `Anu_clp_files/check_for_best_match_in_multi-word.clp` | the groups found | 6 rules: load the domain's, drop nested groups, join groups that meet, prefer the provisional dictionary |
| WSD rules | `WSD/`, `wsd_meaning.clp` | - | some 8200 rule files, one or more per English word |
| Template meanings | `Anu_clp_files/template_before_mng.clp` | - | 5 fixed patterns |
| Group meanings | `Anu_clp_files/hindi_compound_meaning.clp` | control facts, competing groups | 17 rules |
| Word meanings | `Anu_clp_files/hindi_meaning.clp` | control facts, category and form of each word | 31 rules, and `end` |
| Hindi generation | `H_ordering_rules.clp`, `GNP_agreement.clp`, `vibakthi.clp`, `hindi_sentence.clp`, `prepare_apertium_input.clp`, apertium | order, agreement, case markers | grammar tables |

### 1.2 How the parts interact

Programs and stages share nothing but files.  Within a sentence everything is
sequential; what makes the behaviour hard is elsewhere:

- **A stage is a recognise-act cycle, not a program.**  The facts in working
  memory determine which rules are active; the engine fires an activation of
  highest salience (`CLIPS/engine.c:211-345`, `CLIPS/agenda.c:118-192`), the
  rule changes the facts, and the agenda changes with them.  Whether a rule ever
  fires, and on which facts, follows from all the other rules.  Rules of equal
  salience fire in an order that depends on the order of the facts in the files.
- **Control facts.**  `(meaning_to_be_decided id)` exists once per word.  A rule
  that decides a word must retract it.  A word that is only *part* of a group
  keeps it until a second rule (`mng_decided`) has seen the
  `(mng_has_been_decided id)` fact, so in between other rules can take it.
- **Hand-over by files.**  `(clear)` empties working memory between stages; the
  control facts are loaded afresh from the same file, and the second stage knows
  what the first did only through `compound_meaning_decided` facts that the first
  appended to another file.  (The first stage does not close its files before the
  second reads them; the engine flushes after every `printout`,
  `CLIPS/sysdep.c:914`.)
- **Two numberings.**  The parser's tokens and the program's words are numbered
  differently, and everything the parser says reaches the words through the
  alignment.  The parser drops words it cannot read, and adds tokens.
- **Evaluation errors.**  An error in a rule's condition or action stops
  `(run)`: whatever the stage had not yet done is silently missing, and the next
  stage starts.
- **Positions.**  Parser output is matched with sentence directories by counting
  blocks.
- **Concurrent runs** of the drivers share a directory when their texts have the
  same name, and compile the domain's dictionary in one place of the source tree
  that all runs share.  A run can be killed, and `timeout` ends a sentence's
  processes anywhere.
- **State between calls.**  The automaton's node and position, the line buffer and
  the table of word offsets outlive the text they were made for.

### 1.3 What makes each component correct

| Component | Properties that make it correct |
|---|---|
| Alignment | one to one; every word accounted for unless the stage is stopped; faithful when the parser kept the words; recovers when it lost one |
| Group meanings | competing groups are settled before one is written; a word of a group gets no second meaning; a group's words are released when the stage ends |
| Word meanings | every word gets exactly one meaning, from the best source its facts allow; the earlier stages' decisions stand |
| Stage sequence | no word is decided twice or forgotten between two stages |
| Splitter | each word in exactly one directory, in order; block *i* in directory *i* |
| Drivers | a run left alone shows translations of its own text from its own dictionary, whatever earlier runs left behind; one sentence's time limit does not cost the others; every run ends |
| Expression search | the groups found are the dictionary's, all of them, and named by the words where they occur |
| Choice among expressions | no word drops out of its expressions; no group gets a foreign meaning; the provisional dictionary comes first as far as the order of the rules allows |

The list of hazards with their lines is in `PROJECT.json` ("hazards").

## 2. The modules

| Module | Models | Uses |
|---|---|---|
| `CompoundMeaning` | `hindi_compound_meaning.clp` | `MeaningStage` |
| `HindiMeaning` | `hindi_meaning.clp` | `MeaningStage` |
| `MeaningStage` | what a meaning stage promises to the others | - |
| `MeaningPipeline` | the two stages in `run_modules_std.bat:413-458` | extends `CompoundMeaning`; instances of `HindiMeaning` and, for the two as one stage, `MeaningStage` |
| `ParserWordMap` | `parserid_wordid_mapping.clp`, on the facts of `run_modules_std.bat:72-80` | - |
| `TextTable` | the table of words that `gen_table.pl` makes, read by `word.c` | - |
| `WordGrouping` | `word.c` | `TextTable`, `TextDivision` |
| `TextDivision` | what the splitter promises: the text divided into its sentences | - |
| `BlockHandOut` | `split_file.c` | - |
| `SentenceSplit` | `Anusaaraka_stanford.sh:72-148`: both, and an external program between them | both |
| `ExpressionMatching` | what a search promises: every occurrence of every pattern learnt, and no other | - |
| `ExpressionAutomaton` | `ahocorasick.c`, `node.c` | `ExpressionMatching` |
| `ExpressionSearch` | `multi_word_expression.c` and its three variants, up to the facts with the words' ids | `ExpressionMatching` |
| `BestMatch` | `check_for_best_match_in_multi-word.clp` | - |
| `DomainDictionary` | `Anusaaraka_stanford.sh:114-120` and the `Makefile` it runs | - |
| `BatchRun` | `Anusaaraka_stanford.sh`, `run_sentence_stanford.sh` | `DomainDictionary` |
| `HindiMeaningProofs`, `ParserWordMapProofs`, `ExpressionAutomatonProofs`, `ExpressionSearchProofs`, `BestMatchProofs`, `BatchRunProofs` | theorems | the module each is named for |
| `MeaningPipelineProofs` | theorems of the group stage, then of the pipeline | `MeaningPipeline` |
| `SentenceSplitProofs` | theorems of `WordGrouping`, of `BlockHandOut`, then of the two together | `SentenceSplit` |
| `MC...` | instances for TLC | the module each is named for |

### 2.1 A CLIPS stage in TLA+

All stages are modelled alike:

- Working memory is state: a set of ids per control fact, a function per
  one-per-word fact, a set of facts otherwise.  Facts that no rule changes are
  chosen in `Init`.  Output files are state that only grows.
- One firing of a rule is one step of the action of the same name: retractions,
  assertions and output of the right-hand side at once.
- `OnAgenda` says for every rule whether some facts match its left-hand side,
  `Salience` repeats the declarations, and `MayFire(r)` is the engine's choice:
  nothing of higher salience is active.
- Among equal saliences every order is allowed.  The engine's default strategy
  fixes one, by the age of the facts, that is by the order of lines in files that
  other programs write; no property should depend on it.
- Refraction (an activation fires once) is modelled where a rule leaves its facts
  in place: `lwgFired` for `lwg_mng`, `dummyCat` for `generate_dummy_cat`, the
  lasting `current_id` fact for `id-link_id_map_for_first_word`.  Every other rule
  retracts a fact that it matched.
- `Quiescent` (or `Ended`) is the return of `(run)`.

Meanings are opaque: a meaning is a model value, or only its source is kept.
The dictionaries are constants (sets of the keys they have).

### 2.2 State and code

**CompoundMeaning.**  `toDecide` and `hasBeen` are the two control facts; `wsd`
and `db` the groups that rules may retract; `facts` the other groups (whole
sentences, verb chunks, domain groups, phrasal verbs) and the ids with an
`id-domain_type` fact; `hm` is `hindi_meanings_tmp.dat` and `compDecided` the
facts appended to `wsd_facts_output.dat`.  Rules that differ only in *word* and
*root* facts are one action with the kind as a field.  `Init` lets the auxiliaries
of a verb chunk have no control fact, since `H_ordering_rules.clp:879-890`
removed them.  The two rules of salience 9400 are not actions: they have an
`OnAgenda` entry, but match only what the rules of salience 9500 match and take, and so
cannot fire.

**HindiMeaning.**  `evidence[w]` is what other stages know of word `w` (WSD,
idiom, template, group, ...); `root`, `cat`, `orig`, `word` are the one-per-word
facts; `dicName` and `dummyCat` stand for the facts of `get_dic_name` and
`generate_dummy_cat`; `hm[w]` is the sequence of sources of what was written for
`w`, so that a second meaning would be seen.  The 26 deciding rules have the same
right-hand side up to the source and are the values of `Decide`'s parameter;
`Finds(r, w)` is rule `r`'s left-hand side.  `halted` is the evaluation error:
`lowcase` applied to a number.

**MeaningPipeline.**  The first stage is `CompoundMeaning` itself, which the module
extends; the second is an instance of `HindiMeaning` with a working memory (`wordOpen`,
`evidence`, ...) and an output file (`wordHM`) of its own.  `LoadSingle` is `(clear)` and
the loading of the second stage: the control facts are those of the file (`control`), the
evidence gains `compound` for the ids in `compDecided`.

**ParserWordMap.**  `open` and `parser` are the words and tokens that still have
their fact, `current` and `missing` the two control facts; `linked` is the output
file: for a word, the parser id and the *names* written, since a possessive
(two tokens, one fact) is written under two.  `place` is not in the program: it
says which token each word really became, and the properties about faithfulness
compare the output with it.  `halted` is an evaluation error again: `default_rule1` takes
the length of every token ahead of the current word that is printed with a ".", and a
decimal number (`Decimal`; CLIPS reads ".5" as a FLOAT) has none.  The joins are
evaluated when a `current_id` is asserted (`Join`).  The tokeniser spells "3.11" as
`3SYMBOL-DOT11` (`Anu/stdenglish/mapping-symbols.lex:91-103`), but ".5" and "1e5" reach the stage as
numbers.

**WordGrouping.**  `pos` is the input pointer, `slot` the array `word` with a place in
the text for each pointer, `index`, `prev` and `dirs` (the lines of `dir_names.txt`) the
variables of the same purpose; an iteration of the loop is a step, and `flag` and
`file_end` are in `pc`.  A directory stands for its nine files, which list the same
words under the ids 1, 2, ...  `Overrun` is the write past the arrays: what the program
does after it is unknown, and the model stops there.  The last assignment to slot 1
when a sentence of 499 words ends the file reads one element past the array into a slot
that is not used any more.

**BlockHandOut.**  `next` and `at` are the positions in the two files read, `copying`
says that a directory's file is open, and `given` has that file's contents as places in
the stream.

**SentenceSplit.**  Between the two a program that is not in `src/` makes the blocks,
one sentence after the other (`Parse`); what it may do to a sentence is `Outcome`: a block,
an empty tree (`Anusaaraka_stanford.sh:103` puts it in the place of a skipped sentence), a
block without a separator (`apertium/tagger.lex:26` writes one only after a sentence tag at
the end of the line), or nothing.  `StartDeal` starts `split_file.c` when that program is
through.  The module extends both components: a step is a step of one of them or of the
program between them.

**ExpressionAutomaton.**  A node of the trie is the string that leads to it.  `Add`
is `ac_automata_add`, `SetFailures` and the steps of the union are
`ac_automata_finalize`, one node at a time; `Search`, `Advance`, `Fall`, `Skip` and
`Return` are a call of `ac_automata_search`, which keeps `current_node` and
`base_position` for the next call.  `Registered` is `node_register_matchstr` with the
comparison that `node_has_matchstr` really makes.

**ExpressionSearch.**  A line is its tokens and, as the program sees it, its
characters with underscores at both ends of every word.  `input_line` is the array, which
is not cleared, and `len` what `getline` has allocated for the line; `table` is `offset_no`
and `word_id`, of which only the entries of the current line are written; `mapping` is the
facts that relate tokens' ids to words'.  `loop` and `chunk_start` say where the two search
loops are, and `printed` has the line's facts, each with the buffer and the position it was
found at.  `ToLower` copies the lower-cased line: when the underscore meant for the newline
has replaced the NUL, the copy goes on into what the stack holds, which is any of
`Residues`.  `lines_read`, `longest` and `spilled` are history: how many lines, the longest,
whether a copy has gone on in that way.  `Programs` has the four programs, which differ in
whether they lower-case and which tokens they count.  Searching itself is
`ExpressionMatching`'s: that the automaton does it is the refinement of the module before.

**BestMatch.**  `facts` and `domainFacts` are the two kinds of group facts.  A group is
its first and last id (its ids are adjacent, since `map_mwe` takes them from the first
to the last word of a match), its meaning as a sequence of words, and its
dictionary's rank.  The head's id, the category and the kind are left out: no rule tests
them.

**DomainDictionary.**  `source`, `object` and `binary` are the three files in the shared
source directory, as the domain they were made from.  `make` is `compile` and `link`,
between which other runs act; `relink` is what one `make` has decided to do.  `rivals`
is no program state: it records which runs touched the files while another was making
its program.

**BatchRun.**  `directory` is `tmp/$1_tmp` by the text's name, with the files that
matter in it: the text, the file of expressions found, the dictionary's, `dir_names.txt`
and a directory per sentence; each is the run whose text it was made from.  `format` is
`tmp/tmp_save_format/$1.fmt_split`.  `at` is the line of the script that a run is at.
Files a program appends to are sets: `domains` is `domain.dat`, `appended` the runs whose
stages wrote.  `orphaned` says that the shell is dead but the sentence's processes, which
`timeout` has put in a process group of their own, are not.  `disturbed` is no program
state: it says that a run of the same name was active during a run.

The saliences and conditions of the alignment and of the two meaning stages were also
compared with the engine in `CLIPS/`, built from this repository: random sets of facts were given to
the unmodified rule files, and the files they wrote were compared with what the
models allow (6000 sets for `hindi_meaning.clp`, 3800 for
`hindi_compound_meaning.clp`, and hand-made sentences for
`parserid_wordid_mapping.clp`).  No difference remains.

## 3. What is checked

### 3.1 Runs

| Run | Configuration | Shows |
|---|---|---|
| `compound` | `MCCompoundMeaning.cfg` | which of several overlapping groups wins, and what becomes of the words it covers |
| `single` | `MCHindiMeaning.cfg` | every word gets one meaning, from the best source |
| `pipeline` | `MCMeaningPipeline.cfg` | no word decided twice or forgotten between the two stages |
| `alignment` | `MCParserWordMap.cfg` | the mapping is one to one, accounts for every word unless a decimal number stops the stage, and is faithful where the code is built to be |
| `split` | `MCSentenceSplit.cfg` | every sentence is written whole, in order, under its own number; the n-th directory gets the n-th block, its own until the parser drops a separator |
| `automaton` | `MCExpressionAutomaton.cfg` | the automaton reports every occurrence of its patterns and nothing else |
| `expressions` | `MCExpressionSearch.cfg` | what is found gets the ids of its own words, in all four programs |
| `best_match` | `MCBestMatch.cfg` | no word drops out of its expressions, whatever the order of the rules |
| `drivers` | `MCBatchRun.cfg` | a run left alone shows its own text's translations; runs that share the dictionary; killed and timed-out runs |
| `every_word` | `MCHindiMeaningEvery.cfg` | a finding (5.1): violated |
| `rest_recovered` | `MCParserWordMapRest.cfg` | a finding (5.2): violated |
| `bracketed` | `MCExpressionSearchBracket.cfg` | a finding (5.3): violated |

Properties, by module (each is defined and commented where it is stated):

- `CompoundMeaning`: `RivalsSettledFirst` (no group is written while two still
  compete), `DoubleOnlyByOverlap` (two
  facts for one word come only from overlapping groups of different extent, or from a
  chunk whose auxiliaries are what was found to be a sentence; they *are* possible, since
  `lwg_mng` does not look whether the auxiliaries still have their control facts, see 5), `DecidedAreReleased` (no decided word waits when the stage
  ends), `ImplementsStage`.
- `HindiMeaning`: `BestSource` (one meaning per word, and no rule of higher rank
  could have decided it, *whatever the rules changed in between*),
  `EarlierStagesStand`, `DecidedUnlessNumericPropN`, `ImplementsStage`.
- `MeaningPipeline`: `OneOwnMeaning` (the second stage writes for no word of a group, and
  no word gets two meanings of its own), `NoneForgotten`, `Terminates`.
- `ParserWordMap`: `OneToOne`, `Accounted` (no word is left without a mapping or a report
  unless a decimal number is among the tokens), `DecimalLosesRest` (such a number behind
  the first token costs all words but the first their mapping, wherever it stands),
  `NoMissedMatch`, `FaithfulAlignment`, `NonAsciiRecovered` (when the parser lost one
  non-ascii word, the others are still mapped to their own tokens).
- `WordGrouping`: `ImplementsDivision`, `AllPlaced` and `OverrunOnlyLong` (the arrays are
  overrun only by a sentence of `MaxSlots - 1` words, 499 in the code, and the word after
  it).
- `BlockHandOut`: `BlocksByPosition`.
- `SentenceSplit`: `OwnBlock` (whole and empty blocks reach their own directory as long
  as every earlier sentence has a separator), `NeverEarlier` (no line reaches two
  directories, nor one after its own), `LossShifts` (what one lost sentence does to all
  later ones).
- `ExpressionAutomaton`: `ListsComplete` (the joined lists have every pattern a node ends
  with), `CallsEnd`, `Implements`.
- `ExpressionSearch`: `NamesItsWords` (the ids of a fact from the line's first buffer are
  those of the words found), `FoundInBuffer` (what is found in the first buffer, up to the
  end of the line, is what occurs there, all and only), `ForeignOnlyBehindLonger`
  (something that is not in the line is found only where a copy ran into the stack, or
  beyond the first buffer, where an earlier and longer line reached).
- `BestMatch`: `NoneLost`, `OwnMeanings`, `ProvisionalOnlyToLonger`, `Terminates`.
- `DomainDictionary`: `OwnDictionary` (a run whose files no other touched searched its own
  domain's dictionary, whatever killed runs left half made), `ForeignOnlyByRivals`.
- `BatchRun`: `OwnTranslations`, `EachTranslated`, `Finishes`, and `DictionarySpec`: the
  script uses the dictionary's files as `DomainDictionary` says.

The modules' type invariants, and some invariants that follow from others
(`TextOnlyOnUntouched`, `LastResort`, `WsdOverridden`, `NormalisedFirst`, `NamesDistinct`,
`LongestNode`, `FoundExact`), and that the two meaning stages are one `MeaningStage`
(`ImplementsWhole`), are no properties of a run: they are proved.

`ExpressionMatching` is the abstract specification of the search: it learns patterns,
reads a text character by character, and reports exactly the patterns that end there.

`TextDivision` is the abstract specification of the splitter: each step writes the next
sentence, whole.  `WordGrouping` implements it although it recognises the end of a
sentence only in the next one's first word.

`MeaningStage` is the abstract specification of a meaning stage: a step may close
words and cover words, and gives a word a meaning of its own only if it is open and
untouched, closing it in the same step.  `CompoundMeaning` and `HindiMeaning` are
shown to implement it, under the mapping of control facts to `open`, of the words
in the output file to `written`, and of those that are there with a meaning, and
not with a "-", to `own`.

Every property has a mutant in `PROJECT.json`: a definition of the model changed
the way a slip in that rule would change it (a fact not retracted, saliences
ignored, `>=` for `=`, a fact file not loaded), under which TLC finds the property
violated.  They are the definitions called `..._Faulty`, or described as mutants in the comment
before them; no specification uses them.

### 3.2 Bounds

The state spaces of the rule stages, the splitter and the drivers are finite without
artificial counters: every rule but the normalising ones consumes a fact, and scripts and
files end.  What is bounded is the sentence or text.  The automaton can be called for
ever: `MaxEntries` and `MaxRead` bound its dictionary and its text, and `MaxLines` the lines
of the expression search.

- `compound`: four words, the constants give one to two candidate groups of every
  kind, placed so that each overlaps others, and *any subset* of them may have been
  found.  Both outcomes of the comparison by length occur, including the tie, and
  both overlaps of chunk and group.  Three words would not let two groups overlap
  in one word and both keep a word of their own next to a chunk.
- `single`: two words.  Rules read at most one word beside the one they decide (the
  previous one), so two suffice; the second word takes every form, root, category
  and evidence, including pairs of competing evidence; each dictionary has a key
  that only one rule looks up, so every deciding rule fires.
- `pipeline`: three words and one group of each kind; words left to the second
  stage are a plain word, a particle or a possessive number, with and without
  evidence.
- `alignment`: five words over seven spellings that make rules compete ("a", "a.",
  "a's", "B" that the parser may see as "b", two non-ascii words) or stop them ("0.5",
  also as the first word, where it does no harm), and every choice of at
  most two mishaps: a word lost, a word changed, a punctuation mark inserted.  Five
  words let a lost word have two words before it and two after it.

- `split`: texts of one to four sentences of one to three words, and of three sentences of
  which each has one, four or five, and five slots: sentences that fit, that fill the
  four slots used, with and without a word after them, and that exceed them, first, in the
  middle and last; every outcome for every sentence, so a fault can precede and follow
  sound sentences, and two faults can meet.  The blocks may be empty, not closed, too
  few.
- `automaton`: ten patterns of up to four characters over two letters, chosen so that
  they are each other's prefixes, suffixes and factors; dictionaries of up to three; texts
  of up to four characters in any division into calls, restarted or continued.  Failures
  of length two and three, falls through several failures and lists joined from two nodes
  all occur.
- `expressions`: words of one and two characters, upper and lower case, and one mark;
  lines of up to six tokens, buffers of fewer characters than a line, and a line after
  a longer one; the stack may hold the end of an expression of the dictionary; all four
  programs.
- `best_match`: every set of at most four of twelve groups over four words, of both ranks,
  with all ways to overlap: equal, nested, meeting in a word, single words; chains of
  three groups that are joined one after the other.
- `drivers`: two runs.  On a text of the same name: two sentences and one, with and
  without a domain; on texts of different names: physics and any domain, the same,
  another or one that has no dictionary.  Each can be killed anywhere, and each sentence timed out at each stage.
  Two runs are enough for every property, since each blames at most one other run.

Distinct states: `compound` 77304, `single` 87259, `pipeline` 3754, `alignment` 387071,
`split` 319886, `automaton` 297212, `expressions` 31534, `best_match` 53982, `drivers`
147221.

### 3.3 Fairness

`Terminates` of the pipeline and of `BestMatch` assumes `WF_vars(Next)` and nothing about
which rule is chosen: `(run)` loops until the agenda is empty
(`CLIPS/engine.c:211-345`), and the stages of a sentence run in one process, one after
the other.  `CallsEnd` of the automaton assumes that a call, once made, goes on.
`Finishes` of the drivers assumes that each command of a run's shell ends and that
`timeout` does what it is for; it assumes neither that a sentence's stages
(`run_modules`, `hindi_sentence`) ever end nor that a run is ever killed.  The
shell waits for a dictionary's programs, so these are taken to end.

`CHECK_DEADLOCK FALSE` is set because stages, programs and scripts do stop.

## 4. What is proved

The theorems hold for sentences of every length, every set of facts and every
dictionary, under the named assumptions of the modules:

- `MeaningAssumption` ("-" is no meaning), `FactAssumption` (the candidate facts have the
  shape the rules match; a phrasal verb is not its own particle), `WordAssumption` and
  `FormAssumption` (words are numbered; case folding and stripping are functions on forms);
- `NumberAssumption`, `TextAssumption` (the same for the alignment; a decimal number opens
  no quotation and ends in no full stop);
- `TextsAssumption` (a sentence's number never comes back, as `gen_table.pl` numbers them),
  `SlotAssumption`, `SplitAssumption` (directories are named by sentences; what a line of
  parser output stands for);
- `EntriesAssumption`, `ChunksAssumption` (patterns and texts are strings of the
  automaton's alphabet);
- `CharAssumption` (the three marks are no characters of tokens), `TokenAssumption` (a
  lower-cased word is as long as the word), `ProgramsAssumption` (a domain's expressions have no
  punctuation, as its dictionary's have none), `SizesAssumption` (the array is a whole
  number of buffers), `ResiduesAssumption`, `LinesAssumption` (a line fits into the array);
- `FoundAssumption` and `DomainAssumption` (the groups found are groups, finitely many);
- `DomainsAssumption` and `BatchAssumption` (names of things that are not the same are
  different, a text has a sentence at least).

| Theorem | States |
|---|---|
| `MeaningPipelineProofs!TypeCorrect` | `TypeOK` |
| `MeaningPipelineProofs!RivalsSettled` | `RivalsSettledFirst` |
| `MeaningPipelineProofs!TextUntouched` | `TextOnlyOnUntouched` |
| `MeaningPipelineProofs!Released` | `DecidedAreReleased` |
| `MeaningPipelineProofs!Implements` | `ImplementsStage` |
| `MeaningPipelineProofs!DoubleNeedsOverlap` | `DoubleOnlyByOverlap` |
| `MeaningPipelineProofs!OneMeaningEach` | `OneOwnMeaning` |
| `MeaningPipelineProofs!NoneIsForgotten` | `NoneForgotten` |
| `MeaningPipelineProofs!WholeImplements` | `ImplementsWhole` |
| `HindiMeaningProofs!TypeCorrect` | `TypeOK` |
| `HindiMeaningProofs!BestWins` | `BestSource` |
| `HindiMeaningProofs!EarlierStand` | `EarlierStagesStand` |
| `HindiMeaningProofs!Decided` | `DecidedUnlessNumericPropN` |
| `HindiMeaningProofs!Last` | `LastResort` |
| `HindiMeaningProofs!WsdWins` | `WsdOverridden` |
| `HindiMeaningProofs!Normalised` | `NormalisedFirst` |
| `HindiMeaningProofs!Implements` | `ImplementsStage` |
| `ParserWordMapProofs!TypeCorrect` | `TypeOK` |
| `ParserWordMapProofs!MappedOneToOne` | `OneToOne` |
| `ParserWordMapProofs!EveryWordAccounted` | `Accounted` |
| `ParserWordMapProofs!DecimalStops` | `DecimalLosesRest` |
| `ParserWordMapProofs!NoneMissed` | `NoMissedMatch` |
| `ParserWordMapProofs!Faithful` | `FaithfulAlignment` |
| `ParserWordMapProofs!LossRecovered` | `NonAsciiRecovered` |
| `SentenceSplitProofs!WordTypeCorrect` | `WordTypeOK`, of `word.c` by itself |
| `SentenceSplitProofs!OneDirectoryEach` | `NamesDistinct` |
| `SentenceSplitProofs!NoneLeftOut` | `AllPlaced` |
| `SentenceSplitProofs!OverrunNeedsLong` | `OverrunOnlyLong` |
| `SentenceSplitProofs!Implements` | `ImplementsDivision` |
| `SentenceSplitProofs!DealTypeCorrect` | `DealTypeOK`, of `split_file.c` by itself |
| `SentenceSplitProofs!ByPosition` | `BlocksByPosition` |
| `SentenceSplitProofs!WordsRight` | `AllPlaced`, `OverrunOnlyLong` and `ImplementsDivision` of the whole |
| `SentenceSplitProofs!BlocksRight` | `BlocksByPosition` of the whole |
| `SentenceSplitProofs!OwnOutput` | `OwnBlock` |
| `SentenceSplitProofs!NotBefore` | `NeverEarlier` |
| `SentenceSplitProofs!LossIsNotContained` | `LossShifts` |
| `ExpressionAutomatonProofs!TypeCorrect` | `TypeOK` |
| `ExpressionAutomatonProofs!NoPatternLost` | `ListsComplete` |
| `ExpressionAutomatonProofs!InLongestNode` | `LongestNode` |
| `ExpressionAutomatonProofs!AllAndOnly` | `FoundExact` |
| `ExpressionAutomatonProofs!Refinement` | `Implements` |
| `ExpressionSearchProofs!Invariant` | `IInv`: what the arrays hold before and behind a line's end, and where each fact is from |
| `ExpressionSearchProofs!NoForeign` | `ForeignOnlyBehindLonger` |
| `ExpressionSearchProofs!AllFound` | `FoundInBuffer` |
| `ExpressionSearchProofs!RightWords` | `NamesItsWords`, if the lines have no punctuation but what `check_for_punctuation` knows |
| `BestMatchProofs!TypeCorrect` | `TypeOK` |
| `BestMatchProofs!GroupsKept` | `NoneLost` |
| `BestMatchProofs!ProvisionalKept` | `ProvisionalOnlyToLonger` |
| `BestMatchProofs!MeaningsOwn` | `OwnMeanings` |
| `BatchRunProofs!TypeCorrect` | `DictionaryTypeOK` |
| `BatchRunProofs!Implements` | `DictionarySpec` |
| `BatchRunProofs!AloneSearchesOwn` | `OwnDictionary` |
| `BatchRunProofs!ForeignNeedsRival` | `ForeignOnlyByRivals` |
| `BatchRunProofs!OwnTranslationsShown` | `OwnTranslations` |
| `BatchRunProofs!SentencesTranslated` | `EachTranslated` |

**Groups.**  That a covered word gets no second meaning is not inductive: a word of a
group keeps its control fact for a while.  `Inv` adds `Marked` (a word something was
written for, and that still has its control fact, has a `mng_has_been_decided` fact)
and `ReleasedOrMarked` (the same of the words handed to the next stage).  Since
`mng_decided` has the highest salience, no other rule fires while a marked word waits
(`NoMarkedWaits`), so a rule that decides a group finds its head untouched
(`DecideGroupLemma`).

That two facts for one word need two extents is about groups that are gone when the second
fact is written.  `OverlapInv` therefore traces every fact to the extent of a group
that may have written it, all of whose words have lost their control fact or are marked
(`Traced`): a group of that extent has no head left to be decided, so a second fact traced to
the word is of another extent (`DoubleTraced`).  Chunks do not look at control facts, so the
order of the saliences has to help: no chunk is left when a rule below has written
(`ChunksFirst`), and what remains is the exception for whole sentences.

**Pipeline.**  The first stage is not disturbed by the second (`RunsCompound`), so what is
proved of it holds.  `PipelineInv` adds that it reports exactly the words it has written for
(`Reported`), and that the second stage has that report, has written for no word reported
or dealt with by a template, and has dropped a control fact only of those or of a word it
has written for (`Running`).  With both stages' steps that makes the two together one
`MeaningStage`.

**Words.**  `Inv` says of every decided word which rule took it (`Taken`): it was the
best for the word, *and* the stage was then far enough for that to last.  Nothing is
decided before the dictionary is named; before the categories are listed only rules
above 9400 have fired; while a possessive waits only the symbol rule has.  The lemma
`FindsLocal` shows which facts a rule's condition depends on, `StaysTaken` that later
steps do not disturb them.  `LastResort`, `WsdOverridden` and `NormalisedFirst` follow
from `BestSource` by the order of the saliences.

**Alignment.**  `Inv` says that a mapped word has lost its fact and that the names
written for it are no name of a token still to be mapped (`Apart`); a possessive's
second name is its number plus one, which is why `Gap` (no token has that number) is
part of it.  `Halting` stands beside it: as long as a decimal number is to be seen behind
the first token, either no rule has fired (`Fresh`) or the stage has stopped; the first
rule is the only one that can fire then (`FirstRuleFirst`), and the `current_id` it asserts
halts the stage (`FirstRuleHalts`).  Faithfulness needs more: `Walk` follows the current word along a sentence that
lost the words `D`, none or one non-ascii word.  The words before the current one and their
tokens are done with and the others are not (`At`), and the walk is in one of three
situations: the word's token is not behind its number (`Level`); the word is the lost one
(`AtLost`); or its token is the one before it and `nonascii_missing` holds just that number
(`Behind`).  In each, its own token is the only one that any rule would take
(`OnlyOwnToken`, `OnlyMissing`, `OnlyLost`), and the next step leads to one of them
(`Onward`, `Resume`).

**Splitter.**  `Pending` says that the slots below `index` hold consecutive places that
end just before `pos`, all of the sentence `prev`, and that the word before them, if
any, is in a directory and of another sentence; that makes the next directory a whole
sentence.  That its name is new follows since a text's sentences are contiguous
(`Contiguous`).  In the hand-out `Split` relates the number of separators before the
line to be read to the number of names read; a directory has the lines of its block
before that line (`Contents`), and once it is closed there are no others.

For the two together `Labelled` counts: before a line of sentence *k* there are as many
separators as sentences before *k* were closed (`Closing`).  By position a line is then in
the directory of that number plus one: its own if all before it were closed (`OwnOutput`),
never one after it since no more can be closed than there are (`NotBefore`), and one
earlier behind a lost one (`LossIsNotContained`).

**Automaton.**  Nothing is said of how the lists are joined until it is known that a
failure is the longest proper suffix of its node that is a node (`Failures`).  `Lists`
then follows the climb: the lists hold suffixes only, one per length, and what the nodes
still pending lack is what the climb from them will add.  That a list never has two
patterns of one length is what makes the comparison by length in `Registered` harmless.
`LongestNode` says where the search is between two characters; with `Lists` every pattern
that ends at a character is in the list of the node reached (`FoundExact`), and a step is
one of `ExpressionMatching` or none.

**Search.**  The underscores at both ends of an expression make a match of characters a match of
tokens (`PatternFound`).  `TextInFront` says that the array begins with the line's text,
and `WithinLongest` that, unless a copy spilled, it has characters only as far as the
longest line reached; a match that ends behind the line's end must begin behind it, since no
expression has a newline in it, and needs a character there.  In the first buffer the NUL
behind the text stops the search before one, and where the underscore has replaced the NUL
no line has reached further (`Allocation`).  That gives `FactsRight` (`OwnLine` or `Behind`), and
`NoForeign` and half of `AllFound` with it; the other half is `NoneMissed`.  For the
ids, `TableInFront` says that the table begins with the line's own entries, one for every
token that a match can end with: the first entry with a match's position is therefore not a
stale one (`EntryIs`), and counting the words among the tokens gives the same numbers on
both sides (`IdsResolve`).

**Choice among expressions.**  `Spans` relates a group that a step takes away to one it
leaves: it has the other's ids, and is provisional or longer if the other was
provisional.  Retraction and join both leave a spanning group, spanning is
transitive, and so every group found is spanned by one that is left.  `SinglesFound` (a
single word's group is never made by a join) bounds the exception for the rank that a
join takes from its second group.  A joined meaning is the first one followed by
the second, which may lose the word they meet in (`WithoutWords`, `JoinedWords`), so its words are
those of groups found within its ids (`MngInv`).

**Drivers.**  `MakingOwn` says what a run that is making its dictionary can rely on, among
runs of its domain and alone, after each of its commands; a step of another run either
leaves the files alone or appears in `rivals`.  `BatchInv` says of every run that is
not `disturbed` what is in its directory at each command (`Preparing`, `Searching`,
`Reading`, `Translating`, `Shown`): before line 34 nothing is assumed of it, so what earlier
runs left behind cannot matter.  There is a lemma per command, and one
(`OthersKeepFiles`) for the steps of other runs, which touch a directory only when they
are of its name and then make the run disturbed.

Checked by TLC only: liveness (`Terminates`, `CallsEnd`, `Finishes`), which these provers
do not do.  Every invariant and every other property of a passing run is stated by a
theorem.  Recursive definitions are functions, and what they compute is proved from
the least number for which it would fail (`LeastNumber`: the natural numbers are well
founded), as the library's induction theorems take an operator as a parameter.

## 5. Findings

**5.1 A number as a proper noun stops the word stage.**
`get_PropN_mng_with_prev_word_the` (`hindi_meaning.clp:149-164`) tests
`(lowcase ?rt)` at line 156 without the `numberp` test the other rules have.  For a
proper noun whose root is a number, after the word "the", the call is an evaluation
error (`CLIPS/argacces.c:477`), and an evaluation error stops `(run)`
(`CLIPS/engine.c:218`).  The test is evaluated as soon as `get_dic_name` has
fired, so nothing was decided yet: no word of the sentence gets a meaning from this
stage, which is there to "Generate hindi meaning for every english word"
(`run_modules_std.bat:435`).  `EveryWordDecided` is violated by "the 1980".
`DecidedUnlessNumericPropN`, proved, says that this is the only kind of sentence for
which it can happen.

**5.2 `default_rule` does not get the remaining ids.**
Its comment (`parserid_wordid_mapping.clp:81-82`) says that it maps the words after one
that the parser lost.  Its condition (line 87) asks for a token whose number is not
below the word's; but a lost word makes the tokens after it one *smaller* than their
words, unless punctuation before it had made them larger, as in the comment's example.
`RestRecovered` is violated by a sentence that lost its second word.

**5.3 Brackets count as words.**
`check_for_punctuation` (`multifast-v1.4.2/src/multi_word_expression.c:43-52`) tells
punctuation from words by a list that has neither square nor curly brackets.  The
tokeniser makes these tokens of their own, and `gen_table.pl` and `word.c` do not number
them; so the ids of every expression behind a bracket are too high by the number of
brackets before it.  `NamesItsWords` is violated by a line with a bracket in it;
`expressions` checks it for the marks that the list has, and `RightWords` proves that lines
without brackets are named right.

**Decimal numbers.**  `default_rule1` (`parserid_wordid_mapping.clp:100-102`) applies `length`
to every token ahead whose print contains a "."; for a token that CLIPS has read as a
FLOAT this is an evaluation error (`CLIPS/miscfun.c:367`), and `(run)` stops in the middle of
the first rule.  A sentence with ".5" or "1e5" behind its first token keeps the mapping of
its first word at most, and `print_warning_msg`, there to report "If mapping for a original
word is missing" (line 162), reports nothing.  `DecimalLosesRest` states it; loading the
rules into the engine built from `CLIPS/` shows the same.

**Long lines.**  The comment in `main` (`multi_word_expression.c:215-219`) describes a
search that goes on from one chunk to the next, but the third argument of
`ac_automata_search` is 0 (lines 270 and 291): every buffer of 2500 characters is searched
from the root, and the positions in it are looked up as if it were the line's first.
`FoundInBuffer` and `NamesItsWords` are therefore about the first buffer.

**A sentence and a chunk.**  The proof of `DoubleOnlyByOverlap` needs an exception: if the
auxiliaries of a verb chunk are exactly the words that `Match-sen.pl` has matched as a sentence,
each of them gets a fact from `complete_sen_trans` and one from `lwg_mng`, although the groups
have the same extent.  `lwg_mng`, alone among the deciding rules, does not ask for the control
facts of the words it writes.  `compound` has such a pair.

**Two non-ascii words.**  `default_rule_for_nonascii_missing` and `get_next_map_for_nonascii`
have the same salience, 1000.  When a second non-ascii word follows a lost one, the
first of these rules may take it, although the parser kept it: it then stays unmapped, and
nothing is reported.  `NonAsciiRecovered` is therefore about a lost word with no other
non-ascii word after it.

**Provisional dictionary.**  The comment at `check_for_best_match_in_multi-word.clp:34` wants
the provisional dictionary's group for the same words.  The rule has salience 1;
before it, a rule of salience 100 may have joined one of the two with a third group, so
the comparison does not happen.  `ProvisionalOnlyToLonger` states what remains.

**Harmless.**  The `else` of the first rule (`parserid_wordid_mapping.clp:30-32`) stands
outside its `if`: `(current_id 1)` is asserted in either case.  After `(current_id 2)`
it has no word to be current for, and `FaithfulAlignment` is proved with it
there.  The two `wsd_vrb_phrase` rules (`hindi_compound_meaning.clp:237-267`, salience
9400) match only groups that a rule of salience 9500 also matches and takes, so they have
no occasion to fire.

## 6. What is not modelled

- The **meanings** themselves, formatting, transliteration and the second output file
  (`hindi_meanings_with_grp_ids_tmp.dat`) with group ids.
- The **engine**: the Rete network, its conflict resolution among equal saliences, and
  the functions the rules call; a stage's model says what they return.
- The **template stage** (`template_before_mng.clp`): its output is an input of the
  pipeline (evidence `template`).  A word with a template's meaning keeps its control fact
  through the group stage, which may write another; no comment says which counts.
- **Category and root choice** (`cat_rule.clp`, `root_rule.clp`): tables of linguistic
  preferences in rules; what choice is right is a question of grammar that neither a
  comment nor a test answers, so a property could only repeat the rules.
- **Hindi generation**, the **WSD rules**, the **parsers**, apertium, the browser
  interface, `debugging/` and `miscellaneous/`: grammar and data, external programs, or
  presentation.  The variants of the stage script for other parsers and for Telugu
  (`run_modules_ol.bat`, `run_modules_link.bat`, ...) differ in what they load.
- In the **splitter** the wording of the files: punctuation names, capitals and lower
  case (`word.c:12-48`, `225-265`).
- In the **search** lines that overrun the arrays, the dictionary entries' meanings, and
  `ac_automata_settext` and `ac_automata_findnext`, which nothing calls.
- In the **choice among expressions** the group's head: a join keeps the second group's
  head id and category.
- In the **drivers** the files of the entity recogniser, the parser and the tagger, which
  go the way of the search programs'; the provisional rules of the sandbox,
  transliteration and HTML; writing through a working directory that another run has
  removed.  A domain without a dictionary leaves the last run's in place
  (`Anusaaraka_stanford.sh:116`): the model does that, and no property is about it.

By lines, most of the repository is of a kind that has no behaviour to model: the
dictionaries compiled into `multifast-v1.4.2/src/*-dic.c` (40 000 lines of string
tables), the scanners that lex generated (`lex.yy.c`), the sources of CLIPS and of other
programs taken over unchanged, and the collection of one-off tools in `miscellaneous/`.
The map names the lines that were modelled and no others.

## 7. Plan

In this order; 1 to 7 are done.

1. `CompoundMeaning`, `HindiMeaning` with `MeaningStage` as their abstract
   specification, and their proofs; the core, since this is where every English
   word's meaning is chosen.
2. `MeaningPipeline`: the composition of the two.
3. `ParserWordMap` and its proofs: everything the parser says reaches the words
   through it.
4. `WordGrouping` with `TextDivision` as its abstract specification, `BlockHandOut`,
   their proofs, and `SentenceSplit`, the composition of the two.
5. `ExpressionAutomaton` with `ExpressionMatching` as its abstract specification,
   `ExpressionSearch`: from the dictionary to the facts that the stages start from.
6. `BestMatch`: what is left of the facts when they overlap.
7. `DomainDictionary` and `BatchRun`: several runs, with shared directories, crashes and
   time limits.

Open: the template stage, once it is settled which meaning is to win; the control fact of
the first word when the parser lost it (`parserid_wordid_mapping.clp:22`), and a domain
without a dictionary, both hazards that no property covers.
