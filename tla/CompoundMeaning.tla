-------------------------- MODULE CompoundMeaning --------------------------
(***************************************************************************)
(* The stage of run_modules_std.bat that loads hindi_compound_meaning.clp: *)
(* it gives one Hindi meaning to a group of English words (a whole         *)
(* sentence, a verb chunk, a multi-word expression of the WSD rules or of  *)
(* a dictionary, a phrasal verb).  A CLIPS stage is a recognise-act cycle: *)
(* the facts in working memory put activations on the agenda, and the      *)
(* engine fires one of the activations of highest salience until none is   *)
(* left.  One action below is one firing of the rule of the same name.     *)
(*                                                                         *)
(* Rules of equal salience are ordered by CLIPS's conflict resolution      *)
(* strategy, which depends on the order of the facts in the files; here    *)
(* that order is left open.                                                *)
(***************************************************************************)
EXTENDS Integers, FiniteSets

CONSTANTS
    Word,      \* word ids of the sentence
    Meaning,   \* Hindi meanings: what a dictionary or a WSD rule can return
    Sen,       \* candidate head_id-sen_mng-g_ids facts
    Chunk,     \* candidate root-verbchunk-tam-chunkids facts (verb chunks)
    Wsd,       \* candidate affecting_id-affected_ids-wsd_group_*_mng facts
    Db,        \* candidate ids-cmp_mng-head-cat-mng_typ-priority facts
    Dom,       \* candidate ids-domain_cmp_mng-head-cat-mng_typ-priority facts
    Phrasal,   \* candidate kriyA-upasarga pairs; found: the target language is
               \* Hindi and Phrv.gdbm has the pair
    Typed      \* ids that may have an id-domain_type fact

\* The "-" that stands for "no meaning of its own" in an id-HM-source fact.
Dash == "-"

SenFact == [ids: SUBSET Word, head: Word, mng: Meaning]
ChunkFact == [ids: SUBSET Word, last: Word, passive: BOOLEAN]
WsdFact == [ids: SUBSET Word, head: Word, mng: Meaning, typ: {"word", "root"}]
DbFact == [ids: SUBSET Word, head: Word, mng: Meaning,
           typ: {"WM", "RM"}, priority: {1, 2}]
DomFact == [ids: SUBSET Word, head: Word, mng: Meaning, typ: {"WM", "RM"}]
PhrasalFact == [verb: Word, particle: Word, mng: Meaning, found: BOOLEAN]

ASSUME MeaningAssumption == Dash \notin Meaning
ASSUME FactAssumption == /\ Sen \subseteq SenFact
                         /\ Chunk \subseteq ChunkFact
                         /\ Wsd \subseteq WsdFact
                         /\ Db \subseteq DbFact
                         /\ Dom \subseteq DomFact
                         /\ Phrasal \subseteq PhrasalFact
                         /\ \A p \in Phrasal : p.verb # p.particle
                         /\ Typed \subseteq Word

Source == {"Complete_sen_gdbm", "LWG",
           "Domain_WSD_compound_phrase_word_mng",
           "Domain_WSD_compound_phrase_root_mng",
           "Domain_compound_phrase_word_mng", "Domain_compound_phrase_root_mng",
           "WSD_compound_phrase_word_mng", "WSD_compound_phrase_root_mng",
           "provisional_Database_compound_phrase_word_mng",
           "provisional_Database_compound_phrase_root_mng",
           "Database_compound_phrase_word_mng",
           "Database_compound_phrase_root_mng", "Verb_Phrase_gdbm"}

VARIABLES
    facts,      \* the loaded facts that no rule of this stage retracts
    wsd,        \* affecting_id-... facts still in working memory
    db,         \* ids-cmp_mng-... facts still in working memory
    toDecide,   \* ids with a (meaning_to_be_decided id) fact
    hasBeen,    \* ids with a (mng_has_been_decided id) fact
    lwgFired,   \* chunks whose lwg_mng activation has fired (refraction)
    hm,         \* id-HM-source facts written to hindi_meanings_tmp.dat
    compDecided \* ids of compound_meaning_decided in wsd_facts_output.dat

vars == <<facts, wsd, db, toDecide, hasBeen, lwgFired, hm, compDecided>>

HmFact == [id: Word, mng: Meaning \union {Dash}, src: Source]

Facts == [sen: SUBSET Sen, chunk: SUBSET Chunk, dom: SUBSET Dom,
          phrasal: SUBSET Phrasal, typed: SUBSET Typed, kriyAmUla: BOOLEAN]

TypeOK == /\ facts \in Facts
          /\ wsd \subseteq Wsd
          /\ db \subseteq Db
          /\ toDecide \subseteq Word
          /\ hasBeen \subseteq Word
          /\ lwgFired \subseteq Chunk
          /\ hm \subseteq HmFact
          /\ compDecided \subseteq Word

\* Control facts come from meaning_to_be_decided.dat, one per word;
\* H_ordering_rules has removed those of the auxiliaries of a verb phrase, so
\* any of the ids before the last one of a chunk may lack one.
Auxiliaries(chunks) == UNION {c.ids : c \in chunks}

Init == /\ facts \in Facts
        /\ wsd \in SUBSET Wsd
        /\ db \in SUBSET Db
        /\ \E aux \in SUBSET Auxiliaries(facts.chunk) : toDecide = Word \ aux
        /\ hasBeen = {}
        /\ lwgFired = {}
        /\ hm = {}
        /\ compDecided = {}
-----------------------------------------------------------------------------
\* Definitions named ..._Faulty are the errors that the properties below are
\* there to notice; no specification uses them.

Covered(ids, head, src) == {[id |-> i, mng |-> Dash, src |-> src] :
                              i \in ids \ {head}}

print_hindi_mng_Faulty(ids, head, src) == \* the "-" facts are not written
    /\ hasBeen' = hasBeen \union (ids \ {head})
    /\ compDecided' = compDecided \union (ids \ {head})
    /\ UNCHANGED hm

\* print_hindi_mng: every id of the group but the head gets "-", its control
\* fact is marked for removal, and the next stage is told about it.
print_hindi_mng(ids, head, src) ==
    /\ hasBeen' = hasBeen \union (ids \ {head})
    /\ hm' = hm \union Covered(ids, head, src)
    /\ compDecided' = compDecided \union (ids \ {head})

DecideGroup_Faulty(g, src) == \* the other ids are not marked
    /\ toDecide' = toDecide \ {g.head}
    /\ hm' = hm \union Covered(g.ids, g.head, src)
                \union {[id |-> g.head, mng |-> g.mng, src |-> src]}
    /\ compDecided' = compDecided \union g.ids \union {g.head}
    /\ UNCHANGED <<facts, wsd, db, hasBeen, lwgFired>>

\* What every rule that decides a group does: retract the head's control
\* fact, cover the other ids, write the head's meaning.
DecideGroup(g, src) ==
    /\ toDecide' = toDecide \ {g.head}
    /\ hasBeen' = hasBeen \union (g.ids \ {g.head})
    /\ hm' = hm \union Covered(g.ids, g.head, src)
                \union {[id |-> g.head, mng |-> g.mng, src |-> src]}
    /\ compDecided' = compDecided \union g.ids \union {g.head}
    /\ UNCHANGED <<facts, wsd, db, lwgFired>>
-----------------------------------------------------------------------------
(* The activations of each rule: the facts that match its left-hand side. *)

Awaiting(S) == {g \in S : g.head \in toDecide}

Decided == hasBeen \intersect toDecide
LwgChunks_Faulty == {c \in facts.chunk : ~facts.kriyAmUla /\ ~c.passive} \* no refraction
LwgChunks == {c \in facts.chunk \ lwgFired : ~facts.kriyAmUla /\ ~c.passive}
VerbCompounds == {g \in db : \E c \in facts.chunk : ~c.passive /\ c.last \in g.ids}
Rivals == {p \in wsd \X db : p[1].head \in p[2].ids}
DomainWsd == {g \in Awaiting(wsd) : g.head \in facts.typed}
\* wsd_vrb_phrase_word_mng and wsd_vrb_phrase_root_mng: a WSD group that is
\* exactly a verb and its particle, both still to be decided.
WsdVerbPhrases == {g \in Awaiting(wsd) : \E p \in facts.phrasal :
                     /\ g.head = p.verb
                     /\ g.ids = {p.particle}
                     /\ p.particle \in toDecide}
\* A pair that Phrv.gdbm does not have only prints a warning.
PhrasalVerbs == {p \in facts.phrasal : /\ {p.verb, p.particle} \subseteq toDecide
                                       /\ p.found}

Salience == [mng_decided |-> 9990, complete_sen_trans |-> 9950, lwg_mng |-> 9900,
             rm_cmp_mng_if_head_is_verb |-> 9850, compare_wsd_and_db |-> 9800,
             domain_wsd |-> 9700, domain_default |-> 9600,
             wsd_cmp_phrase |-> 9500, wsd_vrb_phrase |-> 9400,
             database_cmp_phrase |-> 9300, vrb_phrase_mng |-> 9200]

OnAgenda == [mng_decided |-> Decided # {},
             complete_sen_trans |-> Awaiting(facts.sen) # {},
             lwg_mng |-> LwgChunks # {},
             rm_cmp_mng_if_head_is_verb |-> VerbCompounds # {},
             compare_wsd_and_db |-> Rivals # {},
             domain_wsd |-> DomainWsd # {},
             domain_default |-> Awaiting(facts.dom) # {},
             wsd_cmp_phrase |-> Awaiting(wsd) # {},
             wsd_vrb_phrase |-> WsdVerbPhrases # {},
             database_cmp_phrase |-> Awaiting(db) # {},
             vrb_phrase_mng |-> PhrasalVerbs # {}]

MayFire_Faulty(r) == OnAgenda[r] \* saliences ignored

\* The engine fires rule r only when nothing of higher salience is active.
MayFire(r) == \A q \in DOMAIN Salience :
                OnAgenda[q] => Salience[q] <= Salience[r]

Quiescent == \A q \in DOMAIN Salience : ~OnAgenda[q]
-----------------------------------------------------------------------------
mng_decided ==
    /\ MayFire("mng_decided")
    /\ \E w \in Decided : toDecide' = toDecide \ {w}
    /\ UNCHANGED <<facts, wsd, db, hasBeen, lwgFired, hm, compDecided>>

complete_sen_trans ==
    /\ MayFire("complete_sen_trans")
    /\ \E g \in Awaiting(facts.sen) : DecideGroup(g, "Complete_sen_gdbm")

\* The verb chunk's last id keeps its control fact; the others are covered
\* whether or not they still have one.
lwg_mng ==
    /\ MayFire("lwg_mng")
    /\ \E c \in LwgChunks : /\ print_hindi_mng(c.ids, c.last, "LWG")
                            /\ lwgFired' = lwgFired \union {c}
    /\ UNCHANGED <<facts, wsd, db, toDecide>>

rm_cmp_mng_if_head_is_verb ==
    /\ MayFire("rm_cmp_mng_if_head_is_verb")
    /\ \E g \in VerbCompounds : db' = db \ {g}
    /\ UNCHANGED <<facts, wsd, toDecide, hasBeen, lwgFired, hm, compDecided>>

\* (length (create$ ?id $?ids)) against (length $?cmp_ids)
Length(g) == Cardinality(g.ids \union {g.head})

\* Of a WSD group and a dictionary group that holds the WSD group's head, the
\* longer stays; on a tie the WSD group.
compare_wsd_and_db ==
    /\ MayFire("compare_wsd_and_db")
    /\ \E p \in Rivals :
         IF Length(p[1]) >= Cardinality(p[2].ids)
         THEN db' = db \ {p[2]} /\ wsd' = wsd
         ELSE wsd' = wsd \ {p[1]} /\ db' = db
    /\ UNCHANGED <<facts, toDecide, hasBeen, lwgFired, hm, compDecided>>

get_wsd_compound_mng_for_domain ==
    /\ MayFire("domain_wsd")
    /\ \E g \in DomainWsd :
         DecideGroup(g, IF g.typ = "word" THEN "Domain_WSD_compound_phrase_word_mng"
                                          ELSE "Domain_WSD_compound_phrase_root_mng")

get_default_domain_compound_mng ==
    /\ MayFire("domain_default")
    /\ \E g \in Awaiting(facts.dom) :
         DecideGroup(g, IF g.typ = "WM" THEN "Domain_compound_phrase_word_mng"
                                        ELSE "Domain_compound_phrase_root_mng")

wsd_cmp_phrase_mng ==
    /\ MayFire("wsd_cmp_phrase")
    /\ \E g \in Awaiting(wsd) :
         DecideGroup(g, IF g.typ = "word" THEN "WSD_compound_phrase_word_mng"
                                          ELSE "WSD_compound_phrase_root_mng")

DatabaseSource(g) ==
    IF g.typ = "WM"
    THEN IF g.priority = 1 THEN "provisional_Database_compound_phrase_word_mng"
                           ELSE "Database_compound_phrase_word_mng"
    ELSE IF g.priority = 1 THEN "provisional_Database_compound_phrase_root_mng"
                           ELSE "Database_compound_phrase_root_mng"

database_cmp_phrase_mng ==
    /\ MayFire("database_cmp_phrase")
    /\ \E g \in Awaiting(db) : DecideGroup(g, DatabaseSource(g))

vrb_phrase_mng_Faulty == \* the particle keeps its control fact
    /\ MayFire("vrb_phrase_mng")
    /\ \E p \in PhrasalVerbs :
         /\ toDecide' = toDecide \ {p.verb}
         /\ hm' = hm \union
                   {[id |-> p.verb, mng |-> p.mng, src |-> "Verb_Phrase_gdbm"],
                    [id |-> p.particle, mng |-> Dash, src |-> "Verb_Phrase_gdbm"]}
         /\ compDecided' = compDecided \union {p.verb, p.particle}
    /\ UNCHANGED <<facts, wsd, db, hasBeen, lwgFired>>

\* Both control facts go at once, without a (mng_has_been_decided) fact.
vrb_phrase_mng ==
    /\ MayFire("vrb_phrase_mng")
    /\ \E p \in PhrasalVerbs :
         /\ toDecide' = toDecide \ {p.verb, p.particle}
         /\ hm' = hm \union
                   {[id |-> p.verb, mng |-> p.mng, src |-> "Verb_Phrase_gdbm"],
                    [id |-> p.particle, mng |-> Dash, src |-> "Verb_Phrase_gdbm"]}
         /\ compDecided' = compDecided \union {p.verb, p.particle}
    /\ UNCHANGED <<facts, wsd, db, hasBeen, lwgFired>>

Next == \/ mng_decided \/ complete_sen_trans \/ lwg_mng
        \/ rm_cmp_mng_if_head_is_verb \/ compare_wsd_and_db
        \/ get_wsd_compound_mng_for_domain \/ get_default_domain_compound_mng
        \/ wsd_cmp_phrase_mng \/ database_cmp_phrase_mng \/ vrb_phrase_mng

Spec == Init /\ [][Next]_vars
-----------------------------------------------------------------------------
(* What the stage must guarantee. *)

\* A word receives a meaning of its own only when nothing, not even the "-" of
\* a group it belongs to, was written for it before: a covered word loses its
\* control fact (mng_decided) before any rule that could decide it fires.
TextOnlyOnUntouched ==
    [][\A f \in hm' \ hm : f.mng # Dash => \A g \in hm : g.id # f.id]_vars

\* The extents of the groups the stage may write: for a chunk, the ids it
\* covers.
Extent(g) == g.ids \union {g.head}
Auxiliary(c) == c.ids \ {c.last}
Extents == {Extent(g) : g \in facts.sen \union wsd \union db \union facts.dom}
             \union {Auxiliary(c) : c \in facts.chunk}
             \union {{p.verb, p.particle} : p \in facts.phrasal}

\* Two different id-HM-source facts for a word are possible only when two
\* groups of different extent overlap in that word; groups over the same words
\* never both write.  The exception is a chunk whose auxiliaries are what
\* Match-sen.pl has found to be a sentence: lwg_mng, alone among the rules, does
\* not look whether they still have their control facts.
DoubleOnlyByOverlap ==
    \A f, g \in hm : (f.id = g.id /\ f # g) =>
        \/ \E d, e \in Extents : d # e /\ f.id \in d \intersect e
        \/ \E s \in facts.sen, c \in facts.chunk :
               Extent(s) = Auxiliary(c) /\ f.id \in Extent(s)

DictionaryOrWsd == {"WSD_compound_phrase_word_mng", "WSD_compound_phrase_root_mng",
                    "Domain_WSD_compound_phrase_word_mng",
                    "Domain_WSD_compound_phrase_root_mng",
                    "provisional_Database_compound_phrase_word_mng",
                    "provisional_Database_compound_phrase_root_mng",
                    "Database_compound_phrase_word_mng",
                    "Database_compound_phrase_root_mng"}

\* No group of the WSD rules or of the dictionary is written while two of them
\* still compete for a word: the comparison by length comes first.
RivalsSettledFirst == (\E f \in hm : f.src \in DictionaryOrWsd) => Rivals = {}

\* When the agenda is empty no word told to the next stage as decided is still
\* waiting for a meaning in this one.
DecidedAreReleased == Quiescent => compDecided \intersect toDecide = {}

\* The stage keeps the promise of MeaningStage.
Written == {f.id : f \in hm}
Stage == INSTANCE MeaningStage WITH open <- toDecide, written <- Written,
            own <- {f.id : f \in {g \in hm : g.mng # Dash}}
ImplementsStage == Stage!Spec
============================================================================
