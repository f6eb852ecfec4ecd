------------------------- MODULE HindiMeaningProofs -------------------------
(***************************************************************************)
(* Proofs about HindiMeaning for every sentence, every choice of facts and *)
(* every dictionary.  The inductive invariant says of a decided word which *)
(* rule took it, and ties the rules that may already have fired to what    *)
(* the normalising rules have still to do: nothing before the dictionary   *)
(* is named, only the proper-noun rules before the categories are there,   *)
(* only the symbol rule while a possessive waits.                          *)
(***************************************************************************)
EXTENDS HindiMeaning, TLAPS

\* The facts that the conditions of the rules read, for one word.
OwnFacts(w) == <<special, evidence[w], root[w], cat[w], orig[w], word[w], dicName, dummyCat>>

\* A possessive that modify_word_for_apos has still to strip.
Unstripped(w) == /\ cat[w] \in {"PropN", "number"}
                 /\ orig[w] \in Possessive
                 /\ NonNumeric(orig[w])

\* Which rule took a word, and what that says of the stage's progress.
Taken(r, w) == /\ Best(r, w)
               /\ hm[w] = <<SourceOf(r)>>
               /\ dicName
               /\ w \notin toDecide
               /\ ~dummyCat => Salience[r] > 9400
               /\ Possessives # {} => Salience[r] > 9700
               /\ ~Has(w, "template") /\ ~Has(w, "compound")
               /\ Salience[r] < 9700 => ~Unstripped(w)
               /\ Salience[r] < 7910 => cat[w] # "particle"

Progress == \A w \in Word : hm[w] # << >> => \E r \in DecidingRule : Taken(r, w)

HaltedByNumber == halted => NumericPropN

Inv == TypeOK /\ Progress /\ HaltedByNumber
-----------------------------------------------------------------------------
\* The rules above the two marks of Taken.
LEMMA TopRules ==
  /\ \A r \in DecidingRule : Salience[r] > 9400 =>
        r \in {"decide_mng_symbols", "get_PropN_mng", "get_PropN_mng_with_prev_word_the"}
  /\ \A r \in DecidingRule : Salience[r] > 9700 => r = "decide_mng_symbols"
  /\ \A r \in DecidingRule : Salience[r] \in Nat /\ Salience[r] <= 9800
BY DEF DecidingRule, Salience

\* The rules from the symbols down to the WSD roots.
LEMMA EarlyRules == \A r \in DecidingRule : Salience[r] >= 8000 =>
  r \in {"decide_mng_symbols", "get_PropN_mng", "get_PropN_mng_with_prev_word_the",
         "get_domain_wsd_word_mng", "get_domain_wsd_root_mng",
         "get_mng_from_domain_dic_with_same_cat", "get_mng_from_domain_dic_with_diff_cat",
         "default_domain_mng_with_org_wrd_with_same_cat", "idiom_word_mng",
         "wsd_word_mng", "idiom_root_mng", "wsd_root_mng"}
BY DEF DecidingRule, Salience

\* Between them and the dictionaries there is only the rule for infinitives.
LEMMA RulesAboveDictionaries == \A r \in DecidingRule :
  Salience[r] < 7910 \/ Salience[r] >= 8000 \/ r = "rm_infinitive_to_id"
BY DEF DecidingRule, Salience

\* A rule's condition depends on the facts of the word and, for the rule that
\* looks for "the", on the word before.
LEMMA FindsLocal ==
  ASSUME NEW w \in Word, NEW r \in DecidingRule, OwnFacts(w)' = OwnFacts(w),
         word'[w - 1] = word[w - 1]
  PROVE  Finds(r, w)' = Finds(r, w)
<1>1. /\ special' = special /\ dicName' = dicName /\ dummyCat' = dummyCat
      /\ evidence'[w] = evidence[w] /\ root'[w] = root[w] /\ cat'[w] = cat[w]
      /\ orig'[w] = orig[w] /\ word'[w] = word[w]
  BY DEF OwnFacts
<1>2. /\ \A e : Has(w, e)' = Has(w, e)
      /\ \A d, f, c : OtherCat(d, f, c)' = OtherCat(d, f, c)
      /\ \A f, c : InDefault(f, c)' = InDefault(f, c)
  BY <1>1 DEF Has, OtherCat, InDefault
<1>3. \A f, c : InDefaultOther(f, c)' = InDefaultOther(f, c)
  BY <1>1, <1>2 DEF InDefaultOther
<1>4. /\ PropNDic(w)' = PropNDic(w)
      /\ PropNAfterThe(w)' = PropNAfterThe(w)
      /\ \A e : DomainWsd(w, e)' = DomainWsd(w, e)
  BY <1>1, <1>2 DEF PropNDic, PropNAfterThe, AfterThe, DomainWsd
<1>5. /\ GlossaryRoot(w)' = GlossaryRoot(w)
      /\ GlossaryNoun(w)' = GlossaryNoun(w)
      /\ GlossaryOrig(w)' = GlossaryOrig(w)
      /\ TranslitDic(w)' = TranslitDic(w)
      /\ WithoutS(w)' = WithoutS(w)
  BY <1>1 DEF GlossaryRoot, GlossaryNoun, GlossaryOrig, TranslitDic, WithoutS
<1>6. NumberInDefault(w)' = NumberInDefault(w)
  BY <1>1, <1>2 DEF NumberInDefault
<1>7. /\ LowSame(w)' = LowSame(w)
      /\ LowOther(w)' = LowOther(w)
      /\ MixedSame(w)' = MixedSame(w)
      /\ MixedOther(w)' = MixedOther(w)
  BY <1>1, <1>2 DEF LowSame, LowOther, MixedSame, MixedOther, LowOrig
<1>8. /\ InDefault(root[w], cat[w])' = InDefault(root[w], cat[w])
      /\ InDefault(orig[w], cat[w])' = InDefault(orig[w], cat[w])
      /\ InDefaultOther(root[w], cat[w])' = InDefaultOther(root[w], cat[w])
      /\ InDefaultOther(orig[w], cat[w])' = InDefaultOther(orig[w], cat[w])
  BY <1>1, <1>2, <1>3
<1> QED BY <1>1, <1>2, <1>4, <1>5, <1>6, <1>7, <1>8 DEF Finds, DecidingRule, Salience

\* What firing a deciding rule tells of the agenda.
LEMMA FiringLemma ==
  ASSUME NEW r \in DecidingRule, MayFire(r)
  PROVE  /\ EarlierDecided = {}
         /\ dicName
         /\ ~dummyCat => Salience[r] >= 9400
         /\ Possessives # {} => Salience[r] >= 9700
         /\ Particles # {} => Salience[r] >= 7910
         /\ \A q \in DecidingRule : Salience[q] > Salience[r] => Matches(q) = {}
<1>1. Salience[r] \in Nat /\ Salience[r] <= 9800
  BY TopRules
<1>2. \A q \in DOMAIN Salience : Salience[q] > Salience[r] => ~OnAgenda(q)
  BY DEF MayFire
<1>3. /\ "mng_decided" \in DOMAIN Salience /\ Salience["mng_decided"] = 9900
      /\ "get_dic_name" \in DOMAIN Salience /\ Salience["get_dic_name"] = 9901
      /\ "generate_dummy_cat" \in DOMAIN Salience /\ Salience["generate_dummy_cat"] = 9400
      /\ "modify_word_for_apos" \in DOMAIN Salience
      /\ Salience["modify_word_for_apos"] = 9700
      /\ "modify_cat_for_particle" \in DOMAIN Salience
      /\ Salience["modify_cat_for_particle"] = 7910
  BY DEF Salience
<1>4. ~OnAgenda("mng_decided") /\ ~OnAgenda("get_dic_name")
  BY <1>1, <1>2, <1>3
<1>5. Salience[r] < 9400 => ~OnAgenda("generate_dummy_cat")
  BY <1>1, <1>2, <1>3
<1>6. Salience[r] < 9700 => ~OnAgenda("modify_word_for_apos")
  BY <1>1, <1>2, <1>3
<1>10. Salience[r] < 7910 => ~OnAgenda("modify_cat_for_particle")
  BY <1>1, <1>2, <1>3
<1>7. /\ OnAgenda("mng_decided") <=> EarlierDecided # {}
      /\ OnAgenda("get_dic_name") <=> ~dicName
      /\ OnAgenda("generate_dummy_cat") <=> ~dummyCat
      /\ OnAgenda("modify_word_for_apos") <=> Possessives # {}
      /\ OnAgenda("modify_cat_for_particle") <=> Particles # {}
  BY DEF OnAgenda
<1>8. \A q \in DecidingRule : q \in DOMAIN Salience /\ (OnAgenda(q) <=> Matches(q) # {})
  BY DEF OnAgenda, DecidingRule
<1>9. \A q \in DecidingRule : Salience[q] > Salience[r] => Matches(q) = {}
  BY <1>2, <1>8
<1> QED BY <1>1, <1>4, <1>5, <1>6, <1>7, <1>9, <1>10

\* No deciding rule has the salience of a normalising rule.
LEMMA NoTies == \A r \in DecidingRule : Salience[r] # 9400 /\ Salience[r] # 9700
BY DEF DecidingRule, Salience

\* Types are kept.
LEMMA TypeStep == ASSUME TypeOK, [Next]_vars PROVE TypeOK'
<1> USE FormAssumption DEF TypeOK
<1>1. CASE get_dic_name
  <2>1. halted' = LowcaseOfNumber'
    BY <1>1 DEF get_dic_name
  <2>2. halted' \in BOOLEAN
    BY <2>1 DEF LowcaseOfNumber
  <2> QED BY <1>1, <2>2 DEF get_dic_name, fixed
<1>2. CASE generate_dummy_cat
  BY <1>2 DEF generate_dummy_cat, fixed
<1>3. CASE mng_decided
  BY <1>3 DEF mng_decided, fixed
<1>4. CASE modify_word_for_apos
  <2>1. PICK w \in Possessives :
          LET stripped == Strip[orig[w]]
              fails == cat[w] = "PropN" /\ stripped \in Numeric
          IN  /\ orig' = [orig EXCEPT ![w] = stripped]
              /\ word' = [word EXCEPT ![w] = CASE fails -> @
                                               [] cat[w] = "number" -> stripped
                                               [] OTHER -> Low[stripped]]
              /\ halted' = (fails \/ LowcaseOfNumber')
    BY <1>4 DEF modify_word_for_apos
  <2>2. w \in Word /\ Strip[orig[w]] \in Form /\ word[w] \in Form
    BY DEF Possessives
  <2>3. orig' \in [Word -> Form]
    BY <2>1, <2>2
  <2>4. Low[Strip[orig[w]]] \in Form
    BY <2>2
  <2>5. \E f \in Form : word' = [word EXCEPT ![w] = f]
    <3>1. CASE cat[w] = "PropN" /\ Strip[orig[w]] \in Numeric
      BY <2>1, <2>2, <3>1
    <3>2. CASE ~(cat[w] = "PropN" /\ Strip[orig[w]] \in Numeric) /\ cat[w] = "number"
      BY <2>1, <2>2, <3>2
    <3>3. CASE ~(cat[w] = "PropN" /\ Strip[orig[w]] \in Numeric) /\ cat[w] # "number"
      BY <2>1, <2>4, <3>3
    <3> QED BY <3>1, <3>2, <3>3
  <2>6. word' \in [Word -> Form]
    BY <2>2, <2>5
  <2>7. halted' \in BOOLEAN
    BY <2>1 DEF LowcaseOfNumber
  <2> QED BY <1>4, <2>3, <2>6, <2>7 DEF modify_word_for_apos, fixed
<1>5. CASE modify_cat_for_particle
  <2>1. "preposition" \in Cat
    BY DEF Cat, DefaultCat
  <2> QED BY <1>5, <2>1 DEF modify_cat_for_particle, Particles, fixed
<1>6. CASE \E r \in DecidingRule : Decide(r)
  <2>1. PICK r \in DecidingRule : Decide(r)
    BY <1>6
  <2>2. SourceOf(r) \in Source
    BY DEF SourceOf, Source
  <2>3. PICK w \in Matches(r) : /\ toDecide' = toDecide \ {w}
                                /\ hm' = [hm EXCEPT ![w] = Append(@, SourceOf(r))]
    BY <2>1 DEF Decide
  <2>4. w \in Word /\ Append(hm[w], SourceOf(r)) \in Seq(Source)
    BY <2>2 DEF Matches
  <2>5. hm' \in [Word -> Seq(Source)]
    BY <2>3, <2>4
  <2> QED BY <2>1, <2>3, <2>5 DEF Decide, fixed
<1>7. CASE UNCHANGED vars
  BY <1>7 DEF vars
<1> QED BY <1>1, <1>2, <1>3, <1>4, <1>5, <1>6, <1>7 DEF Next

LEMMA TypeInit == Init => TypeOK
<1> SUFFICES ASSUME Init PROVE TypeOK
  OBVIOUS
<1>1. word \in [Word -> Form]
  BY FormAssumption DEF Init
<1>2. << >> \in Seq(Source)
  OBVIOUS
<1>3. hm \in [Word -> Seq(Source)]
  BY <1>2 DEF Init
<1> QED BY <1>1, <1>3 DEF Init, TypeOK
-----------------------------------------------------------------------------
\* The normalising rules only take possessives off the agenda.
LEMMA PossessivesShrink == ASSUME TypeOK, [Next]_vars PROVE Possessives' \subseteq Possessives
<1> USE FormAssumption DEF TypeOK
<1>1. CASE UNCHANGED <<cat, orig, toDecide>>
  BY <1>1 DEF Possessives
<1>2. CASE mng_decided \/ \E r \in DecidingRule : Decide(r)
  <2>1. toDecide' \subseteq toDecide /\ UNCHANGED <<cat, orig>>
    BY <1>2 DEF mng_decided, Decide
  <2> QED BY <2>1 DEF Possessives
<1>3. CASE modify_word_for_apos
  <2>1. UNCHANGED <<cat, toDecide>>
    BY <1>3 DEF modify_word_for_apos
  <2>2. PICK w \in Possessives : orig' = [orig EXCEPT ![w] = Strip[orig[w]]]
    BY <1>3 DEF modify_word_for_apos
  <2>3. w \in Word /\ Strip[orig[w]] \notin Possessive
    BY <2>2 DEF Possessives
  <2> QED BY <2>1, <2>2, <2>3 DEF Possessives
<1>4. CASE modify_cat_for_particle
  <2>1. UNCHANGED <<orig, toDecide>>
    BY <1>4 DEF modify_cat_for_particle
  <2>2. PICK w \in Particles : cat' = [cat EXCEPT ![w] = "preposition"]
    BY <1>4 DEF modify_cat_for_particle
  <2> QED BY <2>1, <2>2 DEF Possessives, Particles
<1> QED BY <1>1, <1>2, <1>3, <1>4
        DEF Next, vars, get_dic_name, generate_dummy_cat

\* A step that leaves a taken word's own facts alone, and the word before it
\* unless the symbol rule took it, leaves the word taken.
LEMMA StaysTaken ==
  ASSUME TypeOK, [Next]_vars, NEW w \in Word, NEW r \in DecidingRule, Taken(r, w),
         OwnFacts(w)' = OwnFacts(w), hm'[w] = hm[w], toDecide' \subseteq toDecide,
         word'[w - 1] = word[w - 1] \/ r = "decide_mng_symbols"
  PROVE  Taken(r, w)'
<1>1. /\ dicName' = dicName /\ dummyCat' = dummyCat /\ evidence'[w] = evidence[w]
      /\ cat'[w] = cat[w] /\ orig'[w] = orig[w]
  BY DEF OwnFacts
<1>2. Best(r, w)'
  <2>1. CASE word'[w - 1] = word[w - 1]
    <3>1. \A q \in DecidingRule : Finds(q, w)' = Finds(q, w)
      BY <2>1, FindsLocal
    <3>2. /\ Finds(r, w)
          /\ \A q \in DecidingRule : Salience[q] > Salience[r] => ~Finds(q, w)
      BY DEF Taken, Best
    <3>3. /\ Finds(r, w)'
          /\ \A q \in DecidingRule : Salience[q] > Salience[r] => ~Finds(q, w)'
      BY <3>1, <3>2
    <3> QED BY <3>3 DEF Best
  <2>2. CASE r = "decide_mng_symbols"
    <3>1. Salience[r] = 9800
      BY <2>2 DEF Salience
    <3>2. \A q \in DecidingRule : ~(Salience[q] > Salience[r])
      BY <3>1, TopRules
    <3>3. cat[w] = "symbol"
      BY <2>2 DEF Taken, Best, Finds
    <3>4. Finds(r, w)'
      BY <1>1, <2>2, <3>3 DEF Finds
    <3> QED BY <3>2, <3>4 DEF Best
  <2> QED BY <2>1, <2>2
<1>3. Possessives' \subseteq Possessives
  BY PossessivesShrink
<1> QED BY <1>1, <1>2, <1>3 DEF Taken, Has, Unstripped, NonNumeric

\* The word a deciding rule takes is taken by the best rule for it.
LEMMA DecidedWell ==
  ASSUME TypeOK, Progress, NEW r \in DecidingRule, MayFire(r),
         NEW w \in Matches(r), hm'[w] = Append(hm[w], SourceOf(r)),
         toDecide' = toDecide \ {w},
         UNCHANGED <<special, evidence, root, cat, orig, word, dicName, dummyCat>>
  PROVE  Taken(r, w)'
<1>1. w \in toDecide /\ w \in Word /\ Finds(r, w)
  BY DEF Matches, TypeOK
<1>2. hm[w] = << >>
  BY <1>1 DEF Progress, Taken
<1>3. /\ EarlierDecided = {}
      /\ dicName
      /\ ~dummyCat => Salience[r] >= 9400
      /\ Possessives # {} => Salience[r] >= 9700
      /\ Particles # {} => Salience[r] >= 7910
      /\ \A q \in DecidingRule : Salience[q] > Salience[r] => Matches(q) = {}
  BY FiringLemma
<1>4. Salience[r] \in Nat /\ Salience[r] # 9400 /\ Salience[r] # 9700
  BY TopRules, NoTies
<1>5. ~Has(w, "template") /\ ~Has(w, "compound")
  BY <1>1, <1>3 DEF EarlierDecided
<1>6. \A q \in DecidingRule : Salience[q] > Salience[r] => ~Finds(q, w)
  BY <1>1, <1>3 DEF Matches
<1>7. \A q \in DecidingRule : Finds(q, w)' = Finds(q, w)
  <2>1. OwnFacts(w)' = OwnFacts(w) /\ word'[w - 1] = word[w - 1]
    BY DEF OwnFacts
  <2> QED BY <1>1, <2>1, FindsLocal
<1>8. Best(r, w)'
  BY <1>1, <1>6, <1>7 DEF Best
<1>9. hm'[w] = <<SourceOf(r)>>
  BY <1>2
<1>10. Possessives' \subseteq Possessives
  BY DEF Possessives
<1>11. Salience[r] < 9700 => ~Unstripped(w)
  BY <1>1, <1>3, <1>4 DEF Unstripped, Possessives
<1>12. Salience[r] < 7910 => cat[w] # "particle"
  BY <1>1, <1>3, <1>4 DEF Particles
<1> QED BY <1>3, <1>4, <1>5, <1>8, <1>9, <1>10, <1>11, <1>12
        DEF Taken, Has, Unstripped, NonNumeric

LEMMA ProgressInit == Init => Progress
BY DEF Init, Progress

LEMMA ProgressStep == ASSUME TypeOK, Progress, [Next]_vars PROVE Progress'
<1> SUFFICES ASSUME NEW w \in Word, hm'[w] # << >>
             PROVE  \E r \in DecidingRule : Taken(r, w)'
  BY DEF Progress
<1> USE DEF TypeOK
<1>1. CASE get_dic_name
  <2>1. ~dicName /\ hm' = hm
    BY <1>1 DEF get_dic_name
  <2> QED BY <2>1 DEF Progress, Taken
<1>2. CASE generate_dummy_cat
  <2>1. /\ ~dummyCat /\ dummyCat' /\ hm' = hm
        /\ UNCHANGED <<special, evidence, root, cat, orig, word, dicName, toDecide>>
    BY <1>2 DEF generate_dummy_cat, fixed
  <2>2. PICK r \in DecidingRule : Taken(r, w)
    BY <2>1 DEF Progress
  <2>3. Salience[r] > 9400
    BY <2>1, <2>2 DEF Taken
  <2>4. \A q \in DecidingRule : Salience[q] > 9400 => (Finds(q, w)' <=> Finds(q, w))
    <3>1. \A q \in DecidingRule : Salience[q] > 9400 =>
            q \in {"decide_mng_symbols", "get_PropN_mng", "get_PropN_mng_with_prev_word_the"}
      BY TopRules
    <3>2. /\ PropNDic(w)' <=> PropNDic(w)
          /\ PropNAfterThe(w)' <=> PropNAfterThe(w)
      BY <2>1 DEF PropNDic, PropNAfterThe, AfterThe
    <3> QED BY <2>1, <3>1, <3>2 DEF Finds
  <2>5. Best(r, w)'
    <3>1. \A q \in DecidingRule : Salience[q] \in Nat
      BY TopRules
    <3>2. \A q \in DecidingRule : Salience[q] > Salience[r] => Salience[q] > 9400
      BY <2>3, <3>1
    <3> QED BY <2>2, <2>3, <2>4, <3>2 DEF Taken, Best
  <2>6. Possessives' = Possessives
    BY <2>1 DEF Possessives
  <2> QED BY <2>1, <2>2, <2>5, <2>6 DEF Taken, Has, Unstripped, NonNumeric
<1>3. CASE mng_decided
  <2>1. /\ toDecide' \subseteq toDecide /\ hm' = hm
        /\ UNCHANGED <<special, evidence, root, cat, orig, word, dicName, dummyCat>>
    BY <1>3 DEF mng_decided, fixed
  <2>2. PICK r \in DecidingRule : Taken(r, w)
    BY <2>1 DEF Progress
  <2>3. OwnFacts(w)' = OwnFacts(w) /\ word'[w - 1] = word[w - 1]
    BY <2>1 DEF OwnFacts
  <2> QED BY <2>1, <2>2, <2>3, StaysTaken
<1>4. CASE modify_word_for_apos
  <2>1. /\ hm' = hm /\ toDecide' = toDecide /\ Possessives # {}
        /\ UNCHANGED <<special, evidence, root, cat, dicName, dummyCat>>
    BY <1>4 DEF modify_word_for_apos, fixed
  <2>2. PICK r \in DecidingRule : Taken(r, w)
    BY <2>1 DEF Progress
  <2>3. r = "decide_mng_symbols"
    BY <2>1, <2>2, TopRules DEF Taken
  <2>4. PICK v \in Possessives : /\ \A u \in Word \ {v} : orig'[u] = orig[u]
                                /\ \A u \in Word \ {v} : word'[u] = word[u]
    BY <1>4 DEF modify_word_for_apos
  <2>5. v # w
    BY <2>2 DEF Taken, Possessives
  <2>6. OwnFacts(w)' = OwnFacts(w)
    BY <2>1, <2>4, <2>5 DEF OwnFacts
  <2> QED BY <2>1, <2>2, <2>3, <2>6, StaysTaken
<1>5. CASE modify_cat_for_particle
  <2>1. /\ hm' = hm /\ toDecide' = toDecide
        /\ UNCHANGED <<special, evidence, root, orig, word, dicName, dummyCat>>
    BY <1>5 DEF modify_cat_for_particle, fixed
  <2>2. PICK r \in DecidingRule : Taken(r, w)
    BY <2>1 DEF Progress
  <2>3. PICK v \in Particles : cat' = [cat EXCEPT ![v] = "preposition"]
    BY <1>5 DEF modify_cat_for_particle
  <2>4. v # w
    BY <2>2 DEF Taken, Particles
  <2>5. OwnFacts(w)' = OwnFacts(w) /\ word'[w - 1] = word[w - 1]
    BY <2>1, <2>3, <2>4 DEF OwnFacts
  <2> QED BY <2>1, <2>2, <2>5, StaysTaken
<1>6. CASE \E r \in DecidingRule : Decide(r)
  <2>1. PICK r \in DecidingRule : Decide(r)
    BY <1>6
  <2>2. PICK v \in Matches(r) : /\ toDecide' = toDecide \ {v}
                                /\ hm' = [hm EXCEPT ![v] = Append(@, SourceOf(r))]
    BY <2>1 DEF Decide
  <2>3. UNCHANGED <<special, evidence, root, cat, orig, word, dicName, dummyCat>>
    BY <2>1 DEF Decide, fixed
  <2>4. MayFire(r) /\ v \in Word
    BY <2>1 DEF Decide, Matches
  <2>5. CASE v = w
    <3>1. hm'[w] = Append(hm[w], SourceOf(r))
      BY <2>2, <2>5
    <3>2. Taken(r, w)'
      BY <2>2, <2>3, <2>4, <2>5, <3>1, DecidedWell
    <3> QED BY <3>2
  <2>6. CASE v # w
    <3>1. hm'[w] = hm[w] /\ toDecide' \subseteq toDecide
      BY <2>2, <2>6
    <3>2. PICK q \in DecidingRule : Taken(q, w)
      BY <3>1 DEF Progress
    <3>3. OwnFacts(w)' = OwnFacts(w) /\ word'[w - 1] = word[w - 1]
      BY <2>3 DEF OwnFacts
    <3> QED BY <3>1, <3>2, <3>3, StaysTaken
  <2> QED BY <2>5, <2>6
<1>7. CASE UNCHANGED vars
  <2>1. /\ toDecide' = toDecide /\ hm' = hm
        /\ UNCHANGED <<special, evidence, root, cat, orig, word, dicName, dummyCat>>
    BY <1>7 DEF vars
  <2>2. PICK r \in DecidingRule : Taken(r, w)
    BY <2>1 DEF Progress
  <2>3. OwnFacts(w)' = OwnFacts(w) /\ word'[w - 1] = word[w - 1]
    BY <2>1 DEF OwnFacts
  <2> QED BY <2>1, <2>2, <2>3, StaysTaken
<1> QED BY <1>1, <1>2, <1>3, <1>4, <1>5, <1>6, <1>7 DEF Next

\* Only the evaluation error halts the run; nothing happens after it.
LEMMA HaltStep == ASSUME TypeOK, HaltedByNumber, [Next]_vars PROVE HaltedByNumber'
<1> USE DEF TypeOK
<1>1. CASE UNCHANGED vars
  BY <1>1 DEF vars, HaltedByNumber, NumericPropN
<1>2. CASE Next /\ halted' = halted
  <2>1. ~halted
    BY <1>2 DEF Next, get_dic_name, generate_dummy_cat, mng_decided, modify_word_for_apos,
                modify_cat_for_particle, Decide, MayFire
  <2> QED BY <1>2, <2>1 DEF HaltedByNumber
<1>3. LowcaseOfNumber' /\ TypeOK' => NumericPropN'
  BY DEF LowcaseOfNumber, AfterThe, NumericPropN
<1>4. TypeOK'
  BY TypeStep
<1>5. CASE get_dic_name
  BY <1>3, <1>4, <1>5 DEF get_dic_name, HaltedByNumber
<1>6. CASE modify_word_for_apos
  <2>1. PICK w \in Possessives :
          /\ orig' = [orig EXCEPT ![w] = Strip[orig[w]]]
          /\ halted' = ((cat[w] = "PropN" /\ Strip[orig[w]] \in Numeric) \/ LowcaseOfNumber')
    BY <1>6 DEF modify_word_for_apos
  <2>2. CASE LowcaseOfNumber'
    BY <1>3, <1>4, <2>2 DEF HaltedByNumber
  <2>3. CASE cat[w] = "PropN" /\ Strip[orig[w]] \in Numeric
    <3>1. w \in Word /\ orig'[w] \in Numeric /\ cat'[w] = "PropN"
      BY <1>6, <2>1, <2>3 DEF modify_word_for_apos, Possessives
    <3> QED BY <3>1 DEF HaltedByNumber, NumericPropN
  <2>4. CASE ~halted'
    BY <2>4 DEF HaltedByNumber
  <2> QED BY <2>1, <2>2, <2>3, <2>4
<1>7. generate_dummy_cat \/ mng_decided \/ modify_cat_for_particle
        \/ (\E r \in DecidingRule : Decide(r)) => halted' = halted
  BY DEF generate_dummy_cat, mng_decided, modify_cat_for_particle, Decide
<1> QED BY <1>1, <1>2, <1>5, <1>6, <1>7 DEF Next

LEMMA Invariance == Spec => []Inv
<1>1. Init => Inv
  BY TypeInit, ProgressInit DEF Inv, Init, HaltedByNumber
<1>2. Inv /\ [Next]_vars => Inv'
  BY TypeStep, ProgressStep, HaltStep DEF Inv
<1> QED BY <1>1, <1>2, PTL DEF Spec
-----------------------------------------------------------------------------
\* The variables keep their types.
THEOREM TypeCorrect == Spec => []TypeOK
BY Invariance, PTL DEF Inv

\* Every word of every sentence gets one meaning, from the best rule for it:
\* the order of the rules in hindi_meaning.clp is the order of preference.
THEOREM BestWins == Spec => []BestSource
<1>1. Inv => BestSource
  BY DEF Inv, Progress, Taken, BestSource
<1> QED BY <1>1, Invariance, PTL

\* A word that the template or the compound stage wrote for is left alone
\* (rule mng_decided).
THEOREM EarlierStand == Spec => []EarlierStagesStand
<1>1. Inv => EarlierStagesStand
  BY DEF Inv, Progress, Taken, EarlierStagesStand
<1> QED BY <1>1, Invariance, PTL

\* The run leaves a word undecided only when some proper noun is a number.
THEOREM Decided == Spec => []DecidedUnlessNumericPropN
<1>1. Inv => DecidedUnlessNumericPropN
  <2> SUFFICES ASSUME Inv, Ended, ~NumericPropN PROVE toDecide = {}
    BY DEF DecidedUnlessNumericPropN
  <2>1. ~halted
    BY DEF Inv, HaltedByNumber
  <2>2. "default_mng" \in DOMAIN Salience
    BY DEF Salience
  <2>3. ~OnAgenda("default_mng")
    BY <2>1, <2>2 DEF Ended
  <2>4. Matches("default_mng") = {}
    BY <2>3 DEF OnAgenda
  <2>5. \A w \in toDecide : w \in Matches("default_mng")
    BY DEF Matches, Finds
  <2> QED BY <2>4, <2>5
<1> QED BY <1>1, Invariance, PTL

\* A word is passed on untranslated or transliterated only when the default
\* dictionary has nothing for it.
THEOREM Last == Spec => []LastResort
<1>1. Inv => LastResort
  <2> SUFFICES ASSUME Inv, NEW w \in Word, Wrote(w, {"transliterate_mng", "Original_word"}),
                      NEW f \in {root[w], orig[w], Low[orig[w]]},
                      {f, orig[w]} \intersect Numeric = {},
                      NEW c \in DefaultCat \union {cat[w]}
               PROVE  <<f, c>> \notin Default
    BY DEF LastResort
  <2>1. PICK r \in DecidingRule : Taken(r, w)
    BY DEF Inv, Progress, Wrote
  <2>2. SourceOf(r) \in {"transliterate_mng", "Original_word"}
    BY <2>1 DEF Taken, Wrote
  <2>3. r \in {"test_for_PropN", "default_mng"}
    BY <2>2 DEF SourceOf, DecidingRule, Salience
  <2>4. Salience[r] <= 6500 /\ Salience[r] \in Nat
    BY <2>3 DEF Salience
  <2>5. dicName /\ dummyCat
    BY <2>1, <2>4 DEF Taken
  <2>6. \A q \in DecidingRule : Salience[q] > 6500 => ~Finds(q, w)
    BY <2>1, <2>4, TopRules DEF Taken, Best
  <2>7. /\ ~InDefault(root[w], cat[w]) /\ ~InDefault(orig[w], cat[w])
        /\ ~InDefaultOther(root[w], cat[w]) /\ ~InDefaultOther(orig[w], cat[w])
        /\ ~LowSame(w) /\ ~LowOther(w)
    <3>1. /\ ~Finds("same_cat_with_root", w) /\ ~Finds("same_cat_with_org_wrd", w)
          /\ ~Finds("different_cat_with_root", w) /\ ~Finds("different_cat_with_org_wrd", w)
          /\ ~Finds("same_cat_with_org_wrd_lc", w)
          /\ ~Finds("different_cat_with_org_wrd_lc", w)
      BY <2>6 DEF DecidingRule, Salience
    <3> QED BY <3>1 DEF Finds
  <2>8. CASE c = cat[w]
    BY <2>5, <2>7, <2>8 DEF InDefault, LowSame, LowOrig, NonNumeric
  <2>9. CASE c \in DefaultCat \ {cat[w]}
    BY <2>5, <2>7, <2>9 DEF InDefaultOther, LowOther, LowOrig, OtherCat, NonNumeric
  <2> QED BY <2>8, <2>9
<1> QED BY <1>1, Invariance, PTL

\* A WSD meaning gives way only to a proper noun's rules and, unless it is one
\* for the domain, to the domain's glossary.
THEOREM WsdWins == Spec => []WsdOverridden
<1>1. Inv => WsdOverridden
  <2> SUFFICES ASSUME Inv, NEW w \in Word, Has(w, "wsd_word") \/ Has(w, "wsd_root"),
                      hm[w] # << >>
               PROVE  /\ Wrote(w, {"Default_meaning", "Default_meaning_with_different_category",
                              "transliterate_meaning_dic", "Mixed_domain_dic_meaning",
                              "transliterate_mng", "Original_word"}) => cat[w] = "PropN"
                      /\ Wrote(w, {"Glossary"}) => ~Has(w, "domain_type")
    BY DEF WsdOverridden, Wrote
  <2>1. PICK r \in DecidingRule : Taken(r, w)
    BY DEF Inv, Progress
  <2>2. \A S : Wrote(w, S) <=> SourceOf(r) \in S
    BY <2>1 DEF Taken, Wrote
  <2>3. /\ Finds(r, w)
        /\ \A q \in DecidingRule : Salience[q] > Salience[r] => ~Finds(q, w)
    BY <2>1 DEF Taken, Best
  <2>4. /\ Finds("wsd_word_mng", w) <=> Has(w, "wsd_word")
        /\ Finds("wsd_root_mng", w) <=> Has(w, "wsd_root")
        /\ Finds("get_domain_wsd_word_mng", w) <=> DomainWsd(w, "wsd_word")
        /\ Finds("get_domain_wsd_root_mng", w) <=> DomainWsd(w, "wsd_root")
    BY DEF Finds
  <2>5. {"wsd_word_mng", "wsd_root_mng", "get_domain_wsd_word_mng",
         "get_domain_wsd_root_mng"} \subseteq DecidingRule
    BY DEF DecidingRule, Salience
  <2>6. Salience["wsd_word_mng"] = 8200 /\ Salience["wsd_root_mng"] = 8000
        /\ Salience["get_domain_wsd_word_mng"] = 9300
        /\ Salience["get_domain_wsd_root_mng"] = 9200
    BY DEF Salience
  <2>7. Salience[r] \in Nat
    BY TopRules
  <2>8. Salience[r] >= 8000
    BY <2>3, <2>4, <2>5, <2>6, <2>7
  <2>9. ASSUME SourceOf(r) \in {"Default_meaning", "Default_meaning_with_different_category",
                  "transliterate_meaning_dic", "Mixed_domain_dic_meaning",
                  "transliterate_mng", "Original_word"}
        PROVE  cat[w] = "PropN"
    <3>1. r \in {"decide_mng_symbols", "get_PropN_mng", "get_PropN_mng_with_prev_word_the",
                  "get_domain_wsd_word_mng", "get_domain_wsd_root_mng",
                  "get_mng_from_domain_dic_with_same_cat",
                  "get_mng_from_domain_dic_with_diff_cat",
                  "default_domain_mng_with_org_wrd_with_same_cat", "idiom_word_mng",
                  "wsd_word_mng", "idiom_root_mng", "wsd_root_mng"}
      BY <2>8, EarlyRules
    <3>3. r = "get_PropN_mng_with_prev_word_the"
      BY <2>9, <3>1 DEF SourceOf
    <3> QED BY <2>3, <3>3 DEF Finds, PropNAfterThe, AfterThe
  <2>10. ASSUME SourceOf(r) = "Glossary", Has(w, "domain_type") PROVE FALSE
    <3>1. r \in {"get_mng_from_domain_dic_with_same_cat",
                  "get_mng_from_domain_dic_with_diff_cat",
                  "default_domain_mng_with_org_wrd_with_same_cat"}
      BY <2>10 DEF SourceOf
    <3>2. Salience[r] \in {8900, 8850, 8700}
      <4>1. /\ Salience["get_mng_from_domain_dic_with_same_cat"] = 8900
            /\ Salience["get_mng_from_domain_dic_with_diff_cat"] = 8850
            /\ Salience["default_domain_mng_with_org_wrd_with_same_cat"] = 8700
        BY DEF Salience
      <4> QED BY <3>1, <4>1
    <3> QED BY <2>3, <2>4, <2>5, <2>6, <2>7, <2>10, <3>2 DEF DomainWsd
  <2> QED BY <2>2, <2>9, <2>10
<1> QED BY <1>1, Invariance, PTL

\* Forms and categories are normalised before a dictionary is used.
THEOREM Normalised == Spec => []NormalisedFirst
<1>1. Inv => NormalisedFirst
  <2>0. \A w, S : hm[w] = << >> => ~Wrote(w, S)
    BY DEF Wrote
  <2> SUFFICES ASSUME Inv, NEW w \in Word, hm[w] # << >>
               PROVE  /\ Wrote(w, Source \ {"Symbol"}) /\ cat[w] \in {"PropN", "number"} =>
                            orig[w] \notin Possessive \/ orig[w] \in Numeric
                      /\ Wrote(w, {"Default_meaning", "Default_meaning_with_different_category",
                                   "Mixed_domain_dic_meaning", "Original_word"}) =>
                            cat[w] # "particle"
    BY <2>0 DEF NormalisedFirst
  <2>1. PICK r \in DecidingRule : Taken(r, w)
    BY DEF Inv, Progress
  <2>2. \A S : Wrote(w, S) <=> SourceOf(r) \in S
    BY <2>1 DEF Taken, Wrote
  <2>3. SourceOf(r) # "Symbol" => Salience[r] < 9700
    <3>1. SourceOf(r) # "Symbol" => r # "decide_mng_symbols"
      BY DEF SourceOf
    <3> QED BY <3>1, TopRules, NoTies
  <2>4. SourceOf(r) \in {"Default_meaning", "Default_meaning_with_different_category",
                         "Mixed_domain_dic_meaning", "Original_word"} =>
          Salience[r] < 7910 \/ r = "get_PropN_mng_with_prev_word_the"
    <3> SUFFICES ASSUME SourceOf(r) \in {"Default_meaning",
                              "Default_meaning_with_different_category",
                              "Mixed_domain_dic_meaning", "Original_word"},
                        ~(Salience[r] < 7910)
                 PROVE  r = "get_PropN_mng_with_prev_word_the"
      OBVIOUS
    <3>1. r = "rm_infinitive_to_id" \/
          r \in {"decide_mng_symbols", "get_PropN_mng", "get_PropN_mng_with_prev_word_the",
                 "get_domain_wsd_word_mng", "get_domain_wsd_root_mng",
                 "get_mng_from_domain_dic_with_same_cat",
                 "get_mng_from_domain_dic_with_diff_cat",
                 "default_domain_mng_with_org_wrd_with_same_cat", "idiom_word_mng",
                 "wsd_word_mng", "idiom_root_mng", "wsd_root_mng"}
      BY EarlyRules, RulesAboveDictionaries
    <3> QED BY <3>1 DEF SourceOf
  <2>5. r = "get_PropN_mng_with_prev_word_the" => cat[w] = "PropN"
    BY <2>1 DEF Taken, Best, Finds, PropNAfterThe, AfterThe
  <2> QED BY <2>1, <2>2, <2>3, <2>4, <2>5 DEF Taken, Unstripped, NonNumeric
<1> QED BY <1>1, Invariance, PTL

\* The stage keeps the promise of MeaningStage.
THEOREM Implements == Spec => ImplementsStage
<1>1. Init => Stage!Init
  <2> SUFFICES ASSUME Init PROVE Stage!Init
    OBVIOUS
  <2>1. Written = {} /\ toDecide \subseteq Word
    BY DEF Init, Written
  <2> QED BY <2>1 DEF Stage!Init
<1>2. Inv /\ Inv' /\ [Next]_vars => [Stage!Step]_Stage!vars
  <2> SUFFICES ASSUME Inv, Inv', [Next]_vars PROVE [Stage!Step]_Stage!vars
    OBVIOUS
  <2> USE DEF Inv, TypeOK
  <2>1. CASE hm' = hm /\ toDecide' \subseteq toDecide
    <3>1. Written' = Written /\ \A w : Wrote(w, {"Word"})' <=> Wrote(w, {"Word"})
      BY <2>1 DEF Written, Wrote
    <3> QED BY <2>1, <3>1 DEF Stage!Step, Stage!Given, Written
  <2>2. CASE \E r \in DecidingRule : Decide(r)
    <3>1. PICK r \in DecidingRule : Decide(r)
      BY <2>2
    <3>2. PICK v \in Matches(r) : /\ toDecide' = toDecide \ {v}
                                  /\ hm' = [hm EXCEPT ![v] = Append(@, SourceOf(r))]
      BY <3>1 DEF Decide
    <3>3. v \in toDecide /\ v \in Word
      BY DEF Matches
    <3>4. hm[v] = << >>
      BY <3>3 DEF Progress, Taken
    <3>5. Written' = Written \union {v} /\ v \notin Written
      BY <3>2, <3>3, <3>4 DEF Written
    <3>6. \A w \in Written : Wrote(w, {"Word"})' <=> Wrote(w, {"Word"})
      BY <3>2, <3>5 DEF Written, Wrote
    <3> QED BY <3>2, <3>3, <3>5, <3>6 DEF Stage!Step, Stage!Given, Written
  <2>3. Next => \/ hm' = hm /\ toDecide' \subseteq toDecide
                \/ \E r \in DecidingRule : Decide(r)
    BY DEF Next, get_dic_name, generate_dummy_cat, mng_decided, modify_word_for_apos,
           modify_cat_for_particle
  <2>4. CASE UNCHANGED vars
    BY <2>1, <2>4 DEF vars
  <2> QED BY <2>1, <2>2, <2>3, <2>4
<1> QED BY <1>1, <1>2, Invariance, PTL DEF Spec, ImplementsStage, Stage!Spec
============================================================================
