---------------------------- MODULE HindiMeaning ----------------------------
(***************************************************************************)
(* The stage of run_modules_std.bat that loads hindi_meaning.clp: every    *)
(* word that still has a (meaning_to_be_decided id) fact gets its Hindi    *)
(* meaning from the best of what earlier stages and the dictionaries offer *)
(* for it.  As in CompoundMeaning an action is one firing of a rule and    *)
(* the engine fires an activation of highest salience; the rules that only *)
(* look a word up and write what they found are one action, Decide(r),     *)
(* with the rule's condition in Matches and its salience in Salience.      *)
(*                                                                         *)
(* A word form is an element of Form; the dictionaries are sets of keys,   *)
(* a key being a form or a form with a category, as in "run_verb".         *)
(***************************************************************************)
EXTENDS Integers, Sequences

CONSTANTS
    Word,        \* ids of the words
    Form,        \* word forms
    The,         \* the form "the"
    Low,         \* lowcase: [Form -> Form]
    Possessive,  \* forms in which "'s" occurs
    Strip,       \* the part before the first "'s": [Possessive -> Form]
    Numeric,     \* forms that are numbers for CLIPS (numberp)
    Plural,      \* forms with a hyphen that end in "s"
    Singular,    \* the form without its last character: [Plural -> Form]
    Default,     \* keys of default-iit-bombay-shabdanjali-dic.gdbm
    Glossary,    \* keys of the domain's dictionary
    Mixed,       \* keys of mixed_domain_dic.gdbm
    ProperNoun,  \* keys of proper_noun_dic.gdbm (forms)
    Translit     \* keys of transliterate_meaning.gdbm (forms)

\* The categories that generate_dummy_cat asserts, abridged to those the rules
\* name and two others, and the two that occur only in id-cat_coarse facts.
DefaultCat == {"noun", "verb", "adjective", "PropN", "number", "preposition"}
Cat == DefaultCat \union {"particle", "symbol"}

\* What earlier stages may have recorded for a word.
Evidence == {"compound",      \* (compound_meaning_decided id)
             "template",      \* an id-HM-source fact of template_before_mng
             "domain_type",   \* (id-domain_type id d) with d the Domain
             "wsd_word",      \* (id-wsd_word_mng id m)
             "wsd_root",      \* (id-wsd_root_mng id m)
             "idiom_word",    \* (id-idiom_word_mng id m)
             "idiom_root",    \* (id-idiom_root_mng id m)
             "infinitive",    \* (prep_id-relation-anu_ids - to-infinitive id _)
             "cardinal"}      \* (id-cat id cardinal_number)

Source == {"Symbol", "proper_noun_dic", "Default_meaning", "WSD_word_mng",
           "WSD_root_mng", "Glossary", "Idiom_word_mng", "Idiom_root_mng", "Word",
           "Default_meaning_with_different_category", "transliterate_meaning_dic",
           "Mixed_domain_dic_meaning", "transliterate_mng", "Original_word"}

ASSUME WordAssumption == Word \subseteq Int
ASSUME FormAssumption == /\ The \in Form
                         /\ Low \in [Form -> Form]
                         /\ Possessive \subseteq Form
                         /\ Strip \in [Possessive -> Form \ Possessive]
                         /\ Plural \subseteq Form
                         /\ Singular \in [Plural -> Form]

VARIABLES
    special,   \* the Domain fact is not "general"
    evidence,  \* what earlier stages recorded, for each word
    root,      \* id-root facts
    cat,       \* id-cat_coarse facts
    orig,      \* id-original_word facts
    word,      \* id-word facts
    dicName,   \* the (dic_name d) fact has been asserted
    dummyCat,  \* the (default-cat c) facts have been asserted
    halted,    \* an evaluation error has stopped (run)
    toDecide,  \* ids with a (meaning_to_be_decided id) fact
    hm         \* the sources this stage wrote for each word, in order

fixed == <<special, evidence, root>>
vars == <<special, evidence, root, cat, orig, word, dicName, dummyCat, halted,
          toDecide, hm>>

TypeOK == /\ special \in BOOLEAN
          /\ evidence \in [Word -> SUBSET Evidence]
          /\ root \in [Word -> Form]
          /\ cat \in [Word -> Cat]
          /\ orig \in [Word -> Form]
          /\ word \in [Word -> Form]
          /\ dicName \in BOOLEAN
          /\ dummyCat \in BOOLEAN
          /\ halted \in BOOLEAN
          /\ toDecide \subseteq Word
          /\ hm \in [Word -> Seq(Source)]

\* word.dat holds the original words in lower case (str_tolower in word.c).
Init == /\ special \in BOOLEAN
        /\ evidence \in [Word -> SUBSET Evidence]
        /\ root \in [Word -> Form]
        /\ cat \in [Word -> Cat]
        /\ orig \in [Word -> Form]
        /\ word = [w \in Word |-> Low[orig[w]]]
        /\ dicName = FALSE
        /\ dummyCat = FALSE
        /\ halted = FALSE
        /\ toDecide \in SUBSET Word
        /\ hm = [w \in Word |-> << >>]
-----------------------------------------------------------------------------
\* Definitions named ..._Faulty are the errors that the properties below are
\* there to notice; no specification uses them.

Has(w, e) == e \in evidence[w]
NonNumeric(f) == f \notin Numeric

\* A lookup in some other category than the word's own.
OtherCat(dic, f, c) == dummyCat /\ \E d \in DefaultCat \ {c} : <<f, d>> \in dic
InDefault(f, c) == dicName /\ NonNumeric(f) /\ <<f, c>> \in Default
InDefaultOther(f, c) == dicName /\ NonNumeric(f) /\ OtherCat(Default, f, c)
LowOrig(w) == Low[orig[w]]

\* A lookup of a number is an error, which the load-facts command survives: it
\* only finds nothing.
PropNDic(w) == cat[w] = "PropN" /\ NonNumeric(word[w]) /\ word[w] \in ProperNoun
AfterThe(w) == cat[w] = "PropN" /\ w - 1 \in Word /\ word[w - 1] = The /\ dicName
PropNAfterThe(w) == AfterThe(w) /\ <<Low[root[w]], "noun">> \in Default
DomainWsd(w, e) == Has(w, "domain_type") /\ Has(w, e)
GlossaryRoot(w) == special /\ NonNumeric(root[w]) /\ <<root[w], cat[w]>> \in Glossary
GlossaryNoun(w) == /\ special /\ cat[w] = "PropN" /\ NonNumeric(root[w])
                   /\ <<Low[root[w]], "noun">> \in Glossary
GlossaryOrig(w) == special /\ NonNumeric(orig[w]) /\ <<orig[w], cat[w]>> \in Glossary
NumberInDefault(w) == /\ cat[w] = "number"
                      /\ InDefault(root[w], IF Has(w, "cardinal") THEN "noun"
                                                                  ELSE "adjective")
TranslitDic(w) == NonNumeric(word[w]) /\ word[w] \in Translit
WithoutS(w) == /\ orig[w] \in Plural /\ cat[w] = "noun" /\ NonNumeric(orig[w])
               /\ dicName /\ <<Singular[orig[w]], "noun">> \in Default
\* (neq (numberp ?org_wrd) TRUE) is on the form as written, not in lower case.
LowSame(w) == dicName /\ NonNumeric(orig[w]) /\ <<LowOrig(w), cat[w]>> \in Default
LowOther(w) == dicName /\ NonNumeric(orig[w]) /\ OtherCat(Default, LowOrig(w), cat[w])
MixedSame(w) == NonNumeric(word[w]) /\ <<word[w], cat[w]>> \in Mixed
MixedOther(w) == NonNumeric(word[w]) /\ OtherCat(Mixed, word[w], cat[w])

\* The words each rule is activated for.
EarlierDecided_Faulty == {w \in toDecide : Has(w, "template")}
EarlierDecided == {w \in toDecide : Has(w, "template") \/ Has(w, "compound")}
Possessives == {w \in toDecide : /\ cat[w] \in {"PropN", "number"}
                                 /\ orig[w] \in Possessive
                                 /\ NonNumeric(orig[w])}
Particles == {w \in toDecide : cat[w] = "particle"}

Finds(r, w) ==
  CASE r = "decide_mng_symbols" -> cat[w] = "symbol"
    [] r = "get_PropN_mng" -> PropNDic(w)
    [] r = "get_PropN_mng_with_prev_word_the" -> PropNAfterThe(w)
    [] r = "get_domain_wsd_word_mng" -> DomainWsd(w, "wsd_word")
    [] r = "get_domain_wsd_root_mng" -> DomainWsd(w, "wsd_root")
    [] r = "get_mng_from_domain_dic_with_same_cat" -> GlossaryRoot(w)
    [] r = "get_mng_from_domain_dic_with_diff_cat" -> GlossaryNoun(w)
    [] r = "default_domain_mng_with_org_wrd_with_same_cat" -> GlossaryOrig(w)
    [] r = "idiom_word_mng" -> Has(w, "idiom_word")
    [] r = "wsd_word_mng" -> Has(w, "wsd_word")
    [] r = "idiom_root_mng" -> Has(w, "idiom_root")
    [] r = "wsd_root_mng" -> Has(w, "wsd_root")
    [] r = "rm_infinitive_to_id" -> Has(w, "infinitive")
    [] r = "same_cat_with_root" -> InDefault(root[w], cat[w])
    [] r = "same_cat_with_org_wrd" -> InDefault(orig[w], cat[w])
    [] r = "get_meaning_for_number" -> NumberInDefault(w)
    [] r = "different_cat_with_root" -> InDefaultOther(root[w], cat[w])
    [] r = "different_cat_with_org_wrd" -> InDefaultOther(orig[w], cat[w])
    [] r = "get_mng_from_transliterate_mng" -> TranslitDic(w)
    [] r = "same_cat_with_org_wrd_lc" -> LowSame(w)
    [] r = "default_mng_without_s_for_noun" -> WithoutS(w)
    [] r = "different_cat_with_org_wrd_lc" -> LowOther(w)
    [] r = "mixed_dom_hindi_mng_same_cat" -> MixedSame(w)
    [] r = "mixed_domain_hindi_mng_different_cat" -> MixedOther(w)
    [] r = "test_for_PropN" -> cat[w] = "PropN" /\ NonNumeric(word[w])
    [] r = "default_mng" -> TRUE

Matches(r) == {w \in toDecide : Finds(r, w)}

Salience ==
 [get_dic_name |-> 9901, mng_decided |-> 9900, decide_mng_symbols |-> 9800,
  modify_word_for_apos |-> 9700, get_PropN_mng |-> 9600,
  get_PropN_mng_with_prev_word_the |-> 9500, generate_dummy_cat |-> 9400,
  get_domain_wsd_word_mng |-> 9300, get_domain_wsd_root_mng |-> 9200,
  get_mng_from_domain_dic_with_same_cat |-> 8900,
  get_mng_from_domain_dic_with_diff_cat |-> 8850,
  default_domain_mng_with_org_wrd_with_same_cat |-> 8700,
  idiom_word_mng |-> 8300, wsd_word_mng |-> 8200, idiom_root_mng |-> 8100,
  wsd_root_mng |-> 8000, modify_cat_for_particle |-> 7910,
  rm_infinitive_to_id |-> 7910, same_cat_with_root |-> 7700,
  same_cat_with_org_wrd |-> 7600, get_meaning_for_number |-> 7550,
  different_cat_with_root |-> 7500, different_cat_with_org_wrd |-> 7300,
  get_mng_from_transliterate_mng |-> 7250, same_cat_with_org_wrd_lc |-> 7200,
  default_mng_without_s_for_noun |-> 7150, different_cat_with_org_wrd_lc |-> 7100,
  mixed_dom_hindi_mng_same_cat |-> 7000,
  mixed_domain_hindi_mng_different_cat |-> 6900, test_for_PropN |-> 6500,
  default_mng |-> 6400]

DecidingRule == DOMAIN Salience \ {"get_dic_name", "generate_dummy_cat", "mng_decided",
                                   "modify_word_for_apos", "modify_cat_for_particle"}

SourceOf(r) ==
  CASE r = "decide_mng_symbols" -> "Symbol"
    [] r = "get_PropN_mng" -> "proper_noun_dic"
    [] r \in {"get_domain_wsd_word_mng", "wsd_word_mng"} -> "WSD_word_mng"
    [] r \in {"get_domain_wsd_root_mng", "wsd_root_mng"} -> "WSD_root_mng"
    [] r \in {"get_mng_from_domain_dic_with_same_cat",
              "get_mng_from_domain_dic_with_diff_cat",
              "default_domain_mng_with_org_wrd_with_same_cat"} -> "Glossary"
    [] r = "idiom_word_mng" -> "Idiom_word_mng"
    [] r = "idiom_root_mng" -> "Idiom_root_mng"
    [] r = "rm_infinitive_to_id" -> "Word"
    [] r \in {"get_PropN_mng_with_prev_word_the", "same_cat_with_root",
              "same_cat_with_org_wrd", "get_meaning_for_number",
              "same_cat_with_org_wrd_lc",
              "default_mng_without_s_for_noun"} -> "Default_meaning"
    [] r \in {"different_cat_with_root", "different_cat_with_org_wrd",
              "different_cat_with_org_wrd_lc"} ->
         "Default_meaning_with_different_category"
    [] r = "get_mng_from_transliterate_mng" -> "transliterate_meaning_dic"
    [] r \in {"mixed_dom_hindi_mng_same_cat",
              "mixed_domain_hindi_mng_different_cat"} -> "Mixed_domain_dic_meaning"
    [] r = "test_for_PropN" -> "transliterate_mng"
    [] OTHER -> "Original_word"

OnAgenda(r) == CASE r = "get_dic_name" -> ~dicName
                 [] r = "generate_dummy_cat" -> ~dummyCat
                 [] r = "mng_decided" -> EarlierDecided # {}
                 [] r = "modify_word_for_apos" -> Possessives # {}
                 [] r = "modify_cat_for_particle" -> Particles # {}
                 [] OTHER -> Matches(r) # {}

MayFire_Faulty(r) == ~halted /\ OnAgenda(r) \* saliences ignored

\* The engine fires rule r only when nothing of higher salience is active.
MayFire(r) == /\ ~halted
              /\ OnAgenda(r)
              /\ \A q \in DOMAIN Salience : Salience[q] > Salience[r] => ~OnAgenda(q)

\* (run) returns: nothing is left to fire, or an error has halted it.
Ended == halted \/ \A q \in DOMAIN Salience : ~OnAgenda(q)

\* lowcase takes a symbol or a string; given a number it is an evaluation error
\* that halts (run).  Only the test of get_PropN_mng_with_prev_word_the lacks
\* the numberp test that keeps the other rules from it; it is evaluated as soon
\* as its other patterns match.
LowcaseOfNumber == \E w \in toDecide : AfterThe(w) /\ root[w] \in Numeric
-----------------------------------------------------------------------------
get_dic_name == /\ MayFire("get_dic_name")
                /\ ~dicName
                /\ dicName' = TRUE
                /\ UNCHANGED <<fixed, cat, orig, word, dummyCat, toDecide, hm>>
                /\ halted' = LowcaseOfNumber'

generate_dummy_cat == /\ MayFire("generate_dummy_cat")
                      /\ ~dummyCat
                      /\ dummyCat' = TRUE
                      /\ UNCHANGED <<fixed, cat, orig, word, dicName, halted, toDecide, hm>>

\* Words whose meaning the template or the compound stage has written.
mng_decided ==
    /\ MayFire("mng_decided")
    /\ \E w \in EarlierDecided : toDecide' = toDecide \ {w}
    /\ UNCHANGED <<fixed, cat, orig, word, dicName, dummyCat, halted, hm>>

modify_word_for_apos_Faulty == \* the number is put in lower case as well
    /\ MayFire("modify_word_for_apos")
    /\ UNCHANGED <<fixed, cat, dicName, dummyCat, toDecide, hm>>
    /\ \E w \in Possessives :
         LET stripped == Strip[orig[w]]
         IN  /\ orig' = [orig EXCEPT ![w] = stripped]
             /\ word' = [word EXCEPT ![w] = IF stripped \in Numeric THEN @
                                            ELSE Low[stripped]]
             /\ halted' = (stripped \in Numeric \/ LowcaseOfNumber')

\* Only id-original_word and id-word are replaced; id-root keeps its form.  The
\* word of a number keeps the stripped form; that of a proper noun is put in
\* lower case, which halts the run when the stripped form is a number, before
\* the new id-word fact is asserted.
modify_word_for_apos ==
    /\ MayFire("modify_word_for_apos")
    /\ UNCHANGED <<fixed, cat, dicName, dummyCat, toDecide, hm>>
    /\ \E w \in Possessives :
         LET stripped == Strip[orig[w]]
             fails == cat[w] = "PropN" /\ stripped \in Numeric
         IN  /\ orig' = [orig EXCEPT ![w] = stripped]
             /\ word' = [word EXCEPT ![w] = CASE fails -> @
                                              [] cat[w] = "number" -> stripped
                                              [] OTHER -> Low[stripped]]
             /\ halted' = (fails \/ LowcaseOfNumber')

modify_cat_for_particle ==
    /\ MayFire("modify_cat_for_particle")
    /\ \E w \in Particles : cat' = [cat EXCEPT ![w] = "preposition"]
    /\ UNCHANGED <<fixed, orig, word, dicName, dummyCat, halted, toDecide, hm>>

Decide_Faulty(r) == \* the control fact is not retracted
    /\ MayFire(r)
    /\ \E w \in Matches(r) : hm' = [hm EXCEPT ![w] = Append(@, SourceOf(r))]
    /\ UNCHANGED <<fixed, cat, orig, word, dicName, dummyCat, halted, toDecide>>

\* Every other rule: retract the control fact, write the meaning.
Decide(r) ==
    /\ MayFire(r)
    /\ \E w \in Matches(r) :
         /\ toDecide' = toDecide \ {w}
         /\ hm' = [hm EXCEPT ![w] = Append(@, SourceOf(r))]
    /\ UNCHANGED <<fixed, cat, orig, word, dicName, dummyCat, halted>>

Next == \/ get_dic_name \/ generate_dummy_cat \/ mng_decided
        \/ modify_word_for_apos \/ modify_cat_for_particle
        \/ \E r \in DecidingRule : Decide(r)

Spec == Init /\ [][Next]_vars
-----------------------------------------------------------------------------
(* What the stage must guarantee. *)

\* Every word gets one meaning, from the rule of highest salience whose
\* condition its facts satisfy, whatever was decided for the other words in
\* between: a rule that a later change of facts (the category of a particle, the
\* form of a possessive, the dictionary's name) brings to the agenda is never too
\* late for a word that a lesser rule has taken.
Best(r, w) == /\ Finds(r, w)
              /\ \A q \in DecidingRule : Salience[q] > Salience[r] => ~Finds(q, w)
BestSource == \A w \in Word : hm[w] # << >> =>
    \E r \in DecidingRule : Best(r, w) /\ hm[w] = <<SourceOf(r)>>

\* The stage never writes for a word whose meaning the template or the compound stage
\* has written: mng_decided takes the control fact before any rule can use it.
EarlierStagesStand == \A w \in Word :
    (Has(w, "template") \/ Has(w, "compound")) => hm[w] = << >>

\* "Generate hindi meaning for every english word" (run_modules_std.bat:435):
\* when the run is over no control fact is left ...
EveryWordDecided == Ended => toDecide = {}

\* ... which can fail in one way: a proper noun whose form is a number.
NumericPropN == \E w \in Word : /\ cat[w] = "PropN"
                                /\ {root[w], orig[w]} \intersect Numeric # {}
DecidedUnlessNumericPropN == Ended /\ ~NumericPropN => toDecide = {}

Wrote(w, S) == \E i \in 1..Len(hm[w]) : hm[w][i] \in S

\* A word is passed on untranslated, or transliterated, only when neither its
\* root nor its form nor its form in lower case is in the default dictionary
\* under any category.
LastResort == \A w \in Word :
    Wrote(w, {"transliterate_mng", "Original_word"}) =>
       \A f \in {root[w], orig[w], Low[orig[w]]} :
           \/ {f, orig[w]} \intersect Numeric # {}
           \/ \A c \in DefaultCat \union {cat[w]} : <<f, c>> \notin Default

\* A meaning that the WSD rules found is overridden by a general dictionary only
\* for a proper noun, and by the domain's glossary only when the WSD meaning is
\* not one for that domain.
WsdOverridden == \A w \in Word :
    (Has(w, "wsd_word") \/ Has(w, "wsd_root")) =>
       /\ Wrote(w, {"Default_meaning", "Default_meaning_with_different_category",
                    "transliterate_meaning_dic", "Mixed_domain_dic_meaning",
                    "transliterate_mng", "Original_word"}) => cat[w] = "PropN"
       /\ Wrote(w, {"Glossary"}) => ~Has(w, "domain_type")

\* Words are looked up in the form and category that the normalising rules give
\* them: no proper noun or number keeps its "'s", no particle its category, once
\* a dictionary has been used for it.
NormalisedFirst == \A w \in Word :
    /\ Wrote(w, Source \ {"Symbol"}) /\ cat[w] \in {"PropN", "number"} =>
          orig[w] \notin Possessive \/ orig[w] \in Numeric
    /\ Wrote(w, {"Default_meaning", "Default_meaning_with_different_category",
                 "Mixed_domain_dic_meaning", "Original_word"}) => cat[w] # "particle"

\* The stage keeps the promise of MeaningStage: a word's meaning is written in
\* the step that takes its control fact, and only there.
Written == {w \in Word : hm[w] # << >>}
Stage == INSTANCE MeaningStage WITH open <- toDecide, written <- Written,
            own <- {w \in Written : ~Wrote(w, {"Word"})}
ImplementsStage == Stage!Spec
============================================================================
