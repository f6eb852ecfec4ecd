------------------------- MODULE MeaningPipelineProofs -------------------------
(***************************************************************************)
(* Proofs about the group stage alone (part 1, Spec of CompoundMeaning)    *)
(* and about both meaning stages together (part 2, PipelineSpec), for      *)
(* every sentence, every group and all dictionaries.                       *)
(***************************************************************************)
EXTENDS MeaningPipeline, TLAPS

(***************************************************************************)
(* Part 1: the group stage.  The inductive invariant adds to typing that a *)
(* word something was written for either has lost its control fact or is   *)
(* marked for losing it; rule mng_decided has the highest salience, so no  *)
(* rule that decides a group fires while a marked word is waiting.         *)
(***************************************************************************)

Marked == \A f \in hm : f.id \in toDecide => f.id \in hasBeen
ReleasedOrMarked == compDecided \intersect toDecide \subseteq hasBeen
Inv == TypeOK /\ Marked /\ ReleasedOrMarked /\ RivalsSettledFirst

GroupFact == [ids: SUBSET Word, head: Word, mng: Meaning]

USE DEF Dash

\* What deciding a group g does, whichever rule does it: typing and the marks
\* are preserved, and only the head gets a meaning of its own.
LEMMA DecideGroupLemma ==
  ASSUME TypeOK, Marked, ReleasedOrMarked, Decided = {},
         NEW g, g.ids \subseteq Word, g.head \in toDecide, g.mng \in Meaning,
         NEW src \in Source, DecideGroup(g, src)
  PROVE  /\ TypeOK' /\ Marked' /\ ReleasedOrMarked'
         /\ \A f \in hm' \ hm : f.mng # Dash => \A h \in hm : h.id # f.id
         /\ \A f \in hm' \ hm : f.src = src
<1>1. /\ toDecide' = toDecide \ {g.head}
      /\ hasBeen' = hasBeen \union (g.ids \ {g.head})
      /\ compDecided' = compDecided \union g.ids \union {g.head}
      /\ UNCHANGED <<facts, wsd, db, lwgFired>>
  BY DEF DecideGroup
<1>2. hm' = hm \union Covered(g.ids, g.head, src)
               \union {[id |-> g.head, mng |-> g.mng, src |-> src]}
  BY DEF DecideGroup
<1>3. Covered(g.ids, g.head, src) \subseteq HmFact
  BY DEF Covered, TypeOK, HmFact
<1>4. [id |-> g.head, mng |-> g.mng, src |-> src] \in HmFact
  BY DEF HmFact, TypeOK
<1>5. TypeOK'
  BY <1>1, <1>2, <1>3, <1>4 DEF TypeOK
<1>6. ASSUME NEW f \in hm', f \notin hm
      PROVE  /\ f.src = src
             /\ f.id = g.head \/ (f.mng = Dash /\ f.id \in g.ids \ {g.head})
  BY <1>2, <1>6 DEF Covered
<1>7. Marked'
  BY <1>1, <1>6 DEF Marked
<1>8. ReleasedOrMarked'
  BY <1>1 DEF ReleasedOrMarked
<1>9. \A h \in hm : h.id # g.head
  BY DEF Marked, Decided
<1>10. ASSUME NEW f \in hm' \ hm, f.mng # Dash
       PROVE  \A h \in hm : h.id # f.id
  BY <1>6, <1>9, <1>10
<1> QED BY <1>5, <1>6, <1>7, <1>8, <1>10

\* A rule below mng_decided fires only when no marked word waits.
LEMMA NoMarkedWaits ==
  ASSUME NEW r \in DOMAIN Salience, r # "mng_decided", MayFire(r)
  PROVE  Decided = {}
<1>1. Salience["mng_decided"] = 9990 /\ "mng_decided" \in DOMAIN Salience
  BY DEF Salience
<1>2. ~(Salience["mng_decided"] <= Salience[r])
  BY <1>1 DEF Salience
<1>3. OnAgenda["mng_decided"] => Salience["mng_decided"] <= Salience[r]
  BY <1>1 DEF MayFire
<1>4. ~OnAgenda["mng_decided"]
  BY <1>2, <1>3
<1> QED BY <1>4 DEF OnAgenda

LEMMA NoRivalWaits ==
  ASSUME NEW r \in {"domain_wsd", "wsd_cmp_phrase", "database_cmp_phrase"}, MayFire(r)
  PROVE  Rivals = {}
<1>1. Salience["compare_wsd_and_db"] = 9800 /\ "compare_wsd_and_db" \in DOMAIN Salience
  BY DEF Salience
<1>2. ~(Salience["compare_wsd_and_db"] <= Salience[r])
  BY <1>1 DEF Salience
<1>3. OnAgenda["compare_wsd_and_db"] => Salience["compare_wsd_and_db"] <= Salience[r]
  BY <1>1 DEF MayFire
<1>4. ~OnAgenda["compare_wsd_and_db"]
  BY <1>2, <1>3
<1> QED BY <1>4 DEF OnAgenda

\* Every step keeps the invariant and respects TextOnlyOnUntouched.
LEMMA StepLemma ==
  ASSUME Inv, Next
  PROVE  /\ Inv'
         /\ \A f \in hm' \ hm : f.mng # Dash => \A g \in hm : g.id # f.id
<1> USE FactAssumption DEF Inv
<1>1. CASE mng_decided
  <2>1. /\ toDecide' \subseteq toDecide
        /\ \A w \in toDecide \ toDecide' : w \notin toDecide'
        /\ UNCHANGED <<facts, wsd, db, hasBeen, lwgFired, hm, compDecided>>
    BY <1>1 DEF mng_decided
  <2> QED BY <2>1 DEF TypeOK, Marked, ReleasedOrMarked, RivalsSettledFirst, Rivals
<1>2. CASE complete_sen_trans
  <2>1. Decided = {}
    BY <1>2, NoMarkedWaits DEF complete_sen_trans, Salience
  <2>2. PICK g \in Awaiting(facts.sen) : DecideGroup(g, "Complete_sen_gdbm")
    BY <1>2 DEF complete_sen_trans
  <2>3. g \in SenFact /\ g.head \in toDecide
    BY DEF Awaiting, TypeOK, Facts
  <2>4. "Complete_sen_gdbm" \in Source /\ "Complete_sen_gdbm" \notin DictionaryOrWsd
    BY DEF Source, DictionaryOrWsd
  <2>5. /\ TypeOK' /\ Marked' /\ ReleasedOrMarked'
        /\ \A f \in hm' \ hm : f.mng # Dash => \A h \in hm : h.id # f.id
        /\ \A f \in hm' \ hm : f.src = "Complete_sen_gdbm"
    BY <2>1, <2>2, <2>3, <2>4, DecideGroupLemma DEF SenFact
  <2>6. UNCHANGED <<wsd, db>>
    BY <2>2 DEF DecideGroup
  <2> QED BY <2>4, <2>5, <2>6 DEF RivalsSettledFirst, Rivals
<1>3. CASE lwg_mng
  <2>1. PICK c \in LwgChunks : /\ print_hindi_mng(c.ids, c.last, "LWG")
                               /\ lwgFired' = lwgFired \union {c}
    BY <1>3 DEF lwg_mng
  <2>2. c \in Chunk /\ c.ids \subseteq Word
    BY DEF LwgChunks, TypeOK, Facts, ChunkFact
  <2>3. UNCHANGED <<facts, wsd, db, toDecide>>
    BY <1>3 DEF lwg_mng
  <2>4. /\ hasBeen' = hasBeen \union (c.ids \ {c.last})
        /\ hm' = hm \union Covered(c.ids, c.last, "LWG")
        /\ compDecided' = compDecided \union (c.ids \ {c.last})
    BY <2>1 DEF print_hindi_mng
  <2>5. Covered(c.ids, c.last, "LWG") \subseteq HmFact
    BY <2>2 DEF Covered, HmFact, Source
  <2>6. ASSUME NEW f \in hm', f \notin hm
        PROVE  f.mng = Dash /\ f.src = "LWG" /\ f.id \in c.ids \ {c.last}
    BY <2>4, <2>6 DEF Covered
  <2>7. TypeOK'
    BY <2>1, <2>2, <2>3, <2>4, <2>5 DEF TypeOK
  <2>8. Marked' /\ ReleasedOrMarked'
    BY <2>3, <2>4, <2>6 DEF Marked, ReleasedOrMarked
  <2>9. RivalsSettledFirst'
    BY <2>3, <2>6 DEF RivalsSettledFirst, Rivals, DictionaryOrWsd
  <2> QED BY <2>6, <2>7, <2>8, <2>9
<1>4. CASE rm_cmp_mng_if_head_is_verb
  <2>1. /\ db' \subseteq db
        /\ UNCHANGED <<facts, wsd, toDecide, hasBeen, lwgFired, hm, compDecided>>
    BY <1>4 DEF rm_cmp_mng_if_head_is_verb
  <2> QED BY <2>1 DEF TypeOK, Marked, ReleasedOrMarked, RivalsSettledFirst, Rivals
<1>5. CASE compare_wsd_and_db
  <2>1. /\ db' \subseteq db /\ wsd' \subseteq wsd
        /\ UNCHANGED <<facts, toDecide, hasBeen, lwgFired, hm, compDecided>>
    BY <1>5 DEF compare_wsd_and_db
  <2> QED BY <2>1 DEF TypeOK, Marked, ReleasedOrMarked, RivalsSettledFirst, Rivals
<1>6. CASE get_wsd_compound_mng_for_domain
  <2>1. Decided = {} /\ Rivals = {}
    BY <1>6, NoMarkedWaits, NoRivalWaits DEF get_wsd_compound_mng_for_domain, Salience
  <2>2. PICK g \in DomainWsd, src \in Source : DecideGroup(g, src)
    BY <1>6 DEF get_wsd_compound_mng_for_domain, Source
  <2>3. g \in WsdFact /\ g.head \in toDecide
    BY DEF DomainWsd, Awaiting, TypeOK
  <2>4. /\ TypeOK' /\ Marked' /\ ReleasedOrMarked'
        /\ \A f \in hm' \ hm : f.mng # Dash => \A h \in hm : h.id # f.id
    BY <2>1, <2>2, <2>3, DecideGroupLemma DEF WsdFact
  <2>5. UNCHANGED <<wsd, db>>
    BY <2>2 DEF DecideGroup
  <2> QED BY <2>1, <2>4, <2>5 DEF RivalsSettledFirst, Rivals
<1>7. CASE get_default_domain_compound_mng
  <2>1. Decided = {}
    BY <1>7, NoMarkedWaits DEF get_default_domain_compound_mng, Salience
  <2>2. PICK g \in Awaiting(facts.dom),
             src \in {"Domain_compound_phrase_word_mng", "Domain_compound_phrase_root_mng"} :
               DecideGroup(g, src)
    BY <1>7 DEF get_default_domain_compound_mng
  <2>3. g \in DomFact /\ g.head \in toDecide
    BY DEF Awaiting, TypeOK, Facts
  <2>4. src \in Source /\ src \notin DictionaryOrWsd
    BY <2>2 DEF Source, DictionaryOrWsd
  <2>5. /\ TypeOK' /\ Marked' /\ ReleasedOrMarked'
        /\ \A f \in hm' \ hm : f.mng # Dash => \A h \in hm : h.id # f.id
        /\ \A f \in hm' \ hm : f.src = src
    BY <2>1, <2>2, <2>3, <2>4, DecideGroupLemma DEF DomFact
  <2>6. UNCHANGED <<wsd, db>>
    BY <2>2 DEF DecideGroup
  <2> QED BY <2>4, <2>5, <2>6 DEF RivalsSettledFirst, Rivals
<1>8. CASE wsd_cmp_phrase_mng
  <2>1. Decided = {} /\ Rivals = {}
    BY <1>8, NoMarkedWaits, NoRivalWaits DEF wsd_cmp_phrase_mng, Salience
  <2>2. PICK g \in Awaiting(wsd), src \in Source : DecideGroup(g, src)
    BY <1>8 DEF wsd_cmp_phrase_mng, Source
  <2>3. g \in WsdFact /\ g.head \in toDecide
    BY DEF Awaiting, TypeOK
  <2>4. /\ TypeOK' /\ Marked' /\ ReleasedOrMarked'
        /\ \A f \in hm' \ hm : f.mng # Dash => \A h \in hm : h.id # f.id
    BY <2>1, <2>2, <2>3, DecideGroupLemma DEF WsdFact
  <2>5. UNCHANGED <<wsd, db>>
    BY <2>2 DEF DecideGroup
  <2> QED BY <2>1, <2>4, <2>5 DEF RivalsSettledFirst, Rivals
<1>9. CASE database_cmp_phrase_mng
  <2>1. Decided = {} /\ Rivals = {}
    BY <1>9, NoMarkedWaits, NoRivalWaits DEF database_cmp_phrase_mng, Salience
  <2>2. PICK g \in Awaiting(db) : DecideGroup(g, DatabaseSource(g))
    BY <1>9 DEF database_cmp_phrase_mng
  <2>3. g \in DbFact /\ g.head \in toDecide
    BY DEF Awaiting, TypeOK
  <2>4. DatabaseSource(g) \in Source
    BY DEF DatabaseSource, Source
  <2>5. /\ TypeOK' /\ Marked' /\ ReleasedOrMarked'
        /\ \A f \in hm' \ hm : f.mng # Dash => \A h \in hm : h.id # f.id
    BY <2>1, <2>2, <2>3, <2>4, DecideGroupLemma DEF DbFact
  <2>6. UNCHANGED <<wsd, db>>
    BY <2>2 DEF DecideGroup
  <2> QED BY <2>1, <2>5, <2>6 DEF RivalsSettledFirst, Rivals
<1>10. CASE vrb_phrase_mng
  <2>1. Decided = {}
    BY <1>10, NoMarkedWaits DEF vrb_phrase_mng, Salience
  <2>2. PICK p \in PhrasalVerbs :
         /\ toDecide' = toDecide \ {p.verb, p.particle}
         /\ hm' = hm \union
                   {[id |-> p.verb, mng |-> p.mng, src |-> "Verb_Phrase_gdbm"],
                    [id |-> p.particle, mng |-> Dash, src |-> "Verb_Phrase_gdbm"]}
         /\ compDecided' = compDecided \union {p.verb, p.particle}
    BY <1>10 DEF vrb_phrase_mng
  <2>3. /\ p \in PhrasalFact /\ p.verb # p.particle
        /\ p.verb \in toDecide /\ p.particle \in toDecide
    BY DEF PhrasalVerbs, TypeOK, Facts
  <2>4. UNCHANGED <<facts, wsd, db, hasBeen, lwgFired>>
    BY <1>10 DEF vrb_phrase_mng
  <2>5. {[id |-> p.verb, mng |-> p.mng, src |-> "Verb_Phrase_gdbm"],
         [id |-> p.particle, mng |-> Dash, src |-> "Verb_Phrase_gdbm"]} \subseteq HmFact
    BY <2>3 DEF HmFact, PhrasalFact, Source
  <2>6. ASSUME NEW f \in hm', f \notin hm
        PROVE  /\ f.src = "Verb_Phrase_gdbm"
               /\ f.id = p.verb \/ (f.id = p.particle /\ f.mng = Dash)
    BY <2>2, <2>6
  <2>7. TypeOK'
    BY <2>2, <2>3, <2>4, <2>5 DEF TypeOK, PhrasalFact
  <2>8. Marked' /\ ReleasedOrMarked'
    BY <2>2, <2>4, <2>6 DEF Marked, ReleasedOrMarked
  <2>9. RivalsSettledFirst'
    BY <2>4, <2>6 DEF RivalsSettledFirst, Rivals, DictionaryOrWsd
  <2>10. \A h \in hm : h.id # p.verb
    BY <2>1, <2>3 DEF Marked, Decided
  <2>11. ASSUME NEW f \in hm' \ hm, f.mng # Dash
         PROVE  \A h \in hm : h.id # f.id
    BY <2>6, <2>10, <2>11
  <2> QED BY <2>7, <2>8, <2>9, <2>11
<1> QED
  BY <1>1, <1>2, <1>3, <1>4, <1>5, <1>6, <1>7, <1>8, <1>9, <1>10 DEF Next

LEMMA InitInv == Init => Inv
<1> SUFFICES ASSUME Init PROVE Inv OBVIOUS
<1>1. TypeOK
  BY DEF Init, TypeOK
<1>2. Marked /\ ReleasedOrMarked /\ RivalsSettledFirst
  BY DEF Init, Marked, ReleasedOrMarked, RivalsSettledFirst
<1> QED BY <1>1, <1>2 DEF Inv

LEMMA StutterInv == Inv /\ UNCHANGED vars => Inv'
BY DEF Inv, TypeOK, Marked, ReleasedOrMarked, RivalsSettledFirst, Rivals, vars

LEMMA Invariance == Spec => []Inv
<1>1. Inv /\ [Next]_vars => Inv'
  BY StepLemma, StutterInv
<1> QED BY InitInv, <1>1, PTL DEF Spec

\* Typing, for every sentence and dictionary.
THEOREM TypeCorrect == Spec => []TypeOK
BY Invariance, PTL DEF Inv

\* The comparison by length is over before a WSD or dictionary group is
\* written (rules compare_wsd_and_db_MWE_*).
THEOREM RivalsSettled == Spec => []RivalsSettledFirst
BY Invariance, PTL DEF Inv

\* A meaning is only ever written for a word that nothing was written for.
THEOREM TextUntouched == Spec => TextOnlyOnUntouched
<1>1. Inv /\ [Next]_vars =>
        [\A f \in hm' \ hm : f.mng # Dash => \A g \in hm : g.id # f.id]_vars
  <2> SUFFICES ASSUME Inv, [Next]_vars
               PROVE  [\A f \in hm' \ hm : f.mng # Dash => \A g \in hm : g.id # f.id]_vars
    OBVIOUS
  <2>1. CASE Next
    BY <2>1, StepLemma
  <2>2. CASE UNCHANGED vars
    BY <2>2
  <2> QED BY <2>1, <2>2
<1> QED BY <1>1, Invariance, PTL DEF Spec, TextOnlyOnUntouched

\* Once the agenda is empty, no word reported as decided still waits here.
THEOREM Released == Spec => []DecidedAreReleased
<1>1. Inv => DecidedAreReleased
  <2> SUFFICES ASSUME Inv, Quiescent PROVE compDecided \intersect toDecide = {}
    BY DEF DecidedAreReleased
  <2>1. "mng_decided" \in DOMAIN Salience
    BY DEF Salience
  <2>2. Decided = {}
    BY <2>1 DEF Quiescent, OnAgenda
  <2> QED BY <2>2 DEF Inv, ReleasedOrMarked, Decided
<1> QED BY <1>1, Invariance, PTL

\* A meaning is written for a word in the step that retracts its control fact.
LEMMA OwnClosed ==
  ASSUME TypeOK, Next
  PROVE  /\ toDecide' \subseteq toDecide
         /\ hm \subseteq hm'
         /\ \A f \in hm' \ hm : f.mng # Dash => f.id \in toDecide /\ f.id \notin toDecide'
<1> DEFINE Own == \A f \in hm' \ hm : f.mng # Dash => f.id \in toDecide /\ f.id \notin toDecide'
<1>1. ASSUME NEW g, NEW src, g.head \in toDecide, DecideGroup(g, src)
      PROVE  toDecide' \subseteq toDecide /\ hm \subseteq hm' /\ Own
  BY <1>1 DEF DecideGroup, Covered
<1>2. CASE mng_decided \/ rm_cmp_mng_if_head_is_verb \/ compare_wsd_and_db
  BY <1>2 DEF mng_decided, rm_cmp_mng_if_head_is_verb, compare_wsd_and_db
<1>3. CASE lwg_mng
  <2>1. PICK c \in LwgChunks : hm' = hm \union Covered(c.ids, c.last, "LWG")
    BY <1>3 DEF lwg_mng, print_hindi_mng
  <2>2. toDecide' = toDecide
    BY <1>3 DEF lwg_mng
  <2> QED BY <2>1, <2>2 DEF Covered
<1>4. CASE \E S, g, src : g \in Awaiting(S) /\ DecideGroup(g, src)
  BY <1>1, <1>4 DEF Awaiting
<1>5. CASE vrb_phrase_mng
  BY <1>5 DEF vrb_phrase_mng, PhrasalVerbs
<1>6. complete_sen_trans \/ get_wsd_compound_mng_for_domain
        \/ get_default_domain_compound_mng \/ wsd_cmp_phrase_mng
        \/ database_cmp_phrase_mng =>
          \E S, g, src : g \in Awaiting(S) /\ DecideGroup(g, src)
  BY DEF complete_sen_trans, get_wsd_compound_mng_for_domain,
         get_default_domain_compound_mng, wsd_cmp_phrase_mng, database_cmp_phrase_mng,
         DomainWsd
<1> QED BY <1>2, <1>3, <1>4, <1>5, <1>6 DEF Next

\* The stage keeps the promise of MeaningStage.
THEOREM Implements == Spec => ImplementsStage
<1>1. Init => Stage!Init
  <2> SUFFICES ASSUME Init PROVE Stage!Init
    OBVIOUS
  <2>1. Written = {} /\ toDecide \subseteq Word /\ hm = {}
    BY DEF Init, Written
  <2> QED BY <2>1 DEF Stage!Init
<1>2. Inv /\ Inv' /\ [Next]_vars => [Stage!Step]_Stage!vars
  <2> SUFFICES ASSUME Inv, Inv', Next PROVE Stage!Step
    BY DEF vars, Stage!vars, Written
  <2>1. /\ toDecide' \subseteq toDecide /\ hm \subseteq hm'
        /\ \A f \in hm' \ hm : f.mng # Dash => f.id \in toDecide /\ f.id \notin toDecide'
    BY OwnClosed DEF Inv
  <2>2. \A f \in hm' \ hm : f.mng # Dash => \A g \in hm : g.id # f.id
    BY StepLemma
  <2>3. Written \subseteq Written' /\ Written' \subseteq Word
    BY <2>1 DEF Written, Inv, TypeOK, HmFact
  <2> DEFINE own == {f.id : f \in {g \in hm : g.mng # Dash}}
  <2>4. own \subseteq own' /\ own' \subseteq Written'
    BY <2>1 DEF Written
  <2>5. ASSUME NEW i \in own', i \notin own
        PROVE  i \in toDecide /\ i \notin toDecide' /\ i \notin Written
    <3>1. PICK f \in hm' : f.mng # Dash /\ f.id = i
      OBVIOUS
    <3>2. f \notin hm
      BY <2>5, <3>1
    <3> QED BY <2>1, <2>2, <3>1, <3>2 DEF Written
  <2> QED BY <2>1, <2>3, <2>4, <2>5 DEF Stage!Step, Stage!Given
<1> QED BY <1>1, <1>2, Invariance, PTL DEF Spec, ImplementsStage, Stage!Spec
-----------------------------------------------------------------------------
(* Overlaps.  A fact is traced to the extent of a group that may have written *)
(* it, all of whose words have lost their control facts or are marked; so a   *)
(* group of that extent has no head left to be decided.                       *)

\* The extents of the groups that write facts of a source.  Only those of WSD and
\* dictionary groups can be retracted.
ExtentsOf(src) ==
    CASE src = "Complete_sen_gdbm" -> {Extent(s) : s \in facts.sen}
      [] src = "LWG" -> {Auxiliary(c) : c \in facts.chunk}
      [] src \in DictionaryOrWsd -> {Extent(g) : g \in wsd \union db}
      [] OTHER -> {Extent(g) : g \in facts.dom}
                     \union {{p.verb, p.particle} : p \in facts.phrasal}

Closed(d) == d \intersect toDecide \subseteq hasBeen
Traces(f) == {d \in ExtentsOf(f.src) : f.id \in d /\ Closed(d)}

Excepted(i) == \E s \in facts.sen, c \in facts.chunk :
                  Extent(s) = Auxiliary(c) /\ i \in Extent(s)

Traced == \A f \in hm : Traces(f) # {}
DoubleTraced == \A f, g \in hm : (f.id = g.id /\ f # g) =>
                    \/ \E d \in Traces(f), e \in Traces(g) : d # e
                    \/ Excepted(f.id)

\* No chunk is left to be written once a fact of a lower rule is there, and no
\* dictionary group left to be retracted once a WSD or dictionary group is.
Early == {"Complete_sen_gdbm", "LWG"}
ChunksFirst == (\E f \in hm : f.src \notin Early) => LwgChunks = {}
CompoundsFirst == (\E f \in hm : f.src \in DictionaryOrWsd) => VerbCompounds = {}

LwgDashes == \A f \in hm : f.src = "LWG" => f.mng = Dash

OverlapInv == Traced /\ DoubleTraced /\ ChunksFirst /\ CompoundsFirst /\ LwgDashes

\* Rules of lower salience than r wait for r.
LEMMA Waits ==
  ASSUME NEW r \in DOMAIN Salience, NEW q \in DOMAIN Salience, MayFire(r),
         ~(Salience[q] <= Salience[r])
  PROVE  ~OnAgenda[q]
BY DEF MayFire

\* What a step leaves alone keeps its traces.
LEMMA TracesStay ==
  ASSUME TypeOK, UNCHANGED facts, toDecide' \subseteq toDecide,
         hasBeen \subseteq hasBeen', NEW f \in hm,
         f.src \in DictionaryOrWsd => wsd' = wsd /\ db' = db
  PROVE  Traces(f) \subseteq Traces(f)'
<1>1. ExtentsOf(f.src)' = ExtentsOf(f.src)
  BY DEF ExtentsOf, DictionaryOrWsd
<1>2. \A d : Closed(d) => Closed(d)'
  BY DEF Closed
<1> QED BY <1>1, <1>2 DEF Traces

\* A step that writes for the words of e, whose head was open, or for the
\* auxiliaries of a chunk.
LEMMA WriteTraced ==
  ASSUME TypeOK, Traced, DoubleTraced, UNCHANGED <<facts, wsd, db>>,
         toDecide' \subseteq toDecide, hasBeen \subseteq hasBeen', hm \subseteq hm',
         NEW e, NEW src, e \in ExtentsOf(src), Closed(e)',
         \A f \in hm' \ hm : f.src = src /\ f.id \in e,
         \A f, g \in hm' \ hm : f.id = g.id => f = g,
         \A f \in hm, g \in hm' \ hm : f.id = g.id =>
             Excepted(f.id) \/ \E d \in Traces(f) : d # e
  PROVE  Traced' /\ DoubleTraced'
<1>1. \A f \in hm : Traces(f) \subseteq Traces(f)'
  BY TracesStay
<1>2. ASSUME NEW f \in hm' \ hm PROVE e \in Traces(f)'
  <2>1. f.src = src /\ f.id \in e
    OBVIOUS
  <2>2. ExtentsOf(src)' = ExtentsOf(src)
    BY DEF ExtentsOf, DictionaryOrWsd
  <2> QED BY <2>1, <2>2 DEF Traces
<1>3. Traced'
  <2> SUFFICES ASSUME NEW f \in hm' PROVE Traces(f)' # {}
    BY DEF Traced
  <2>1. CASE f \in hm
    BY <1>1, <2>1 DEF Traced
  <2>2. CASE f \notin hm
    BY <1>2, <2>2
  <2> QED BY <2>1, <2>2
<1>4. \A i : Excepted(i) => Excepted(i)'
  BY DEF Excepted
<1>5. DoubleTraced'
  <2> SUFFICES ASSUME NEW f \in hm', NEW g \in hm', f.id = g.id, f # g
               PROVE  \/ \E d \in Traces(f)', k \in Traces(g)' : d # k
                      \/ Excepted(f.id)'
    BY DEF DoubleTraced
  <2>1. CASE f \in hm /\ g \in hm
    <3>1. \/ \E d \in Traces(f), k \in Traces(g) : d # k
          \/ Excepted(f.id)
      BY <2>1 DEF DoubleTraced
    <3> QED BY <1>1, <1>4, <2>1, <3>1
  <2>2. CASE f \in hm /\ g \notin hm
    <3>1. Excepted(f.id) \/ \E d \in Traces(f) : d # e
      BY <2>2
    <3> QED BY <1>1, <1>2, <1>4, <2>2, <3>1
  <2>3. CASE f \notin hm /\ g \in hm
    <3>1. Excepted(g.id) \/ \E d \in Traces(g) : d # e
      BY <2>3
    <3> QED BY <1>1, <1>2, <1>4, <2>3, <3>1
  <2>4. CASE f \notin hm /\ g \notin hm
    BY <2>4
  <2> QED BY <2>1, <2>2, <2>3, <2>4
<1> QED BY <1>3, <1>5

\* A head that is not marked is in no closed extent.
LEMMA OpenHead ==
  ASSUME Decided = {}, NEW h \in toDecide, NEW e, h \in e, Traced, NEW f \in hm
  PROVE  \E d \in Traces(f) : d # e
<1>1. PICK d : d \in Traces(f)
  BY DEF Traced
<1>2. h \notin d
  BY <1>1 DEF Traces, Closed, Decided
<1> QED BY <1>1, <1>2

LEMMA GroupTraced ==
  ASSUME Inv, Traced, DoubleTraced, Decided = {},
         NEW g, g.head \in toDecide, NEW src, Extent(g) \in ExtentsOf(src),
         DecideGroup(g, src), g.mng \in Meaning
  PROVE  Traced' /\ DoubleTraced'
<1>1. /\ toDecide' = toDecide \ {g.head}
      /\ hasBeen' = hasBeen \union (g.ids \ {g.head})
      /\ UNCHANGED <<facts, wsd, db>>
      /\ hm' = hm \union Covered(g.ids, g.head, src)
                  \union {[id |-> g.head, mng |-> g.mng, src |-> src]}
  BY DEF DecideGroup
<1>2. Closed(Extent(g))'
  BY <1>1 DEF Closed, Extent
<1>3. \A f \in hm' \ hm : f.src = src /\ f.id \in Extent(g)
  BY <1>1 DEF Covered, Extent
<1>4. \A f, h \in hm' \ hm : f.id = h.id => f = h
  BY <1>1 DEF Covered
<1>5. \A f \in hm : \E d \in Traces(f) : d # Extent(g)
  <2> TAKE f \in hm
  <2> DEFINE e == Extent(g)
  <2>1. g.head \in e
    BY DEF Extent
  <2> HIDE DEF e
  <2>2. \E d \in Traces(f) : d # e
    BY <2>1, OpenHead
  <2> QED BY <2>2 DEF e
<1> QED BY <1>1, <1>2, <1>3, <1>4, <1>5, WriteTraced DEF Inv

\* Whichever rule decides a group, the rules above it have nothing left to do.
LEMMA GroupOverlap ==
  ASSUME Inv, OverlapInv, Decided = {},
         NEW g, g.head \in toDecide, NEW src, Extent(g) \in ExtentsOf(src),
         DecideGroup(g, src), g.mng \in Meaning, src # "LWG",
         src \notin Early => LwgChunks = {},
         src \in DictionaryOrWsd => VerbCompounds = {}
  PROVE  OverlapInv'
<1>1. Traced' /\ DoubleTraced'
  BY GroupTraced DEF OverlapInv
<1>2. /\ UNCHANGED <<facts, wsd, db, lwgFired>>
      /\ \A f \in hm' \ hm : f.src = src
  BY DEF DecideGroup, Covered
<1>3. LwgChunks' = LwgChunks /\ VerbCompounds' = VerbCompounds
  BY <1>2 DEF LwgChunks, VerbCompounds
<1>4. ChunksFirst' /\ CompoundsFirst' /\ LwgDashes'
  BY <1>2, <1>3 DEF OverlapInv, ChunksFirst, CompoundsFirst, LwgDashes
<1> QED BY <1>1, <1>4 DEF OverlapInv

\* A step that writes nothing, and retracts no group once one of them is written.
LEMMA QuietOverlap ==
  ASSUME Inv, OverlapInv, UNCHANGED <<facts, hm, lwgFired>>,
         toDecide' \subseteq toDecide, hasBeen \subseteq hasBeen',
         db' \subseteq db,
         (\E f \in hm : f.src \in DictionaryOrWsd) => wsd' = wsd /\ db' = db
  PROVE  OverlapInv'
<1>1. \A f \in hm : Traces(f) \subseteq Traces(f)'
  BY TracesStay DEF Inv
<1>2. Traced'
  BY <1>1 DEF OverlapInv, Traced
<1>3. DoubleTraced'
  <2> SUFFICES ASSUME NEW f \in hm, NEW g \in hm, f.id = g.id, f # g
               PROVE  \/ \E d \in Traces(f)', k \in Traces(g)' : d # k
                      \/ Excepted(f.id)'
    BY DEF DoubleTraced
  <2>1. \/ \E d \in Traces(f), k \in Traces(g) : d # k
        \/ Excepted(f.id)
    BY DEF OverlapInv, DoubleTraced
  <2>2. Excepted(f.id)' <=> Excepted(f.id)
    BY DEF Excepted
  <2> QED BY <1>1, <2>1, <2>2
<1>4. ChunksFirst' /\ CompoundsFirst' /\ LwgDashes'
  BY DEF OverlapInv, ChunksFirst, CompoundsFirst, LwgChunks, VerbCompounds, LwgDashes
<1> QED BY <1>2, <1>3, <1>4 DEF OverlapInv

LEMMA ChunkOverlap == ASSUME Inv, OverlapInv, lwg_mng PROVE OverlapInv'
<1>1. PICK c \in LwgChunks : /\ print_hindi_mng(c.ids, c.last, "LWG")
                             /\ lwgFired' = lwgFired \union {c}
  BY DEF lwg_mng
<1>2. UNCHANGED <<facts, wsd, db, toDecide>>
  BY DEF lwg_mng
<1>3. /\ hasBeen' = hasBeen \union Auxiliary(c)
      /\ hm' = hm \union Covered(c.ids, c.last, "LWG")
  BY <1>1 DEF print_hindi_mng, Auxiliary
<1>4. c \in facts.chunk /\ Auxiliary(c) \in ExtentsOf("LWG")
  BY <1>1 DEF LwgChunks, ExtentsOf, DictionaryOrWsd
<1>5. Closed(Auxiliary(c))'
  BY <1>2, <1>3 DEF Closed
<1>6. \A f \in hm' \ hm : f.src = "LWG" /\ f.mng = Dash /\ f.id \in Auxiliary(c)
  BY <1>3 DEF Covered, Auxiliary
<1>7. \A f, g \in hm' \ hm : f.id = g.id => f = g
  BY <1>3 DEF Covered
<1>8. ASSUME NEW f \in hm, NEW g \in hm' \ hm, f.id = g.id
      PROVE  Excepted(f.id) \/ \E d \in Traces(f) : d # Auxiliary(c)
  <2>1. f.src \in Early
    BY <1>1 DEF OverlapInv, ChunksFirst
  <2>2. PICK d : d \in Traces(f)
    BY DEF OverlapInv, Traced
  <2>3. CASE f.src = "Complete_sen_gdbm"
    <3>1. PICK s \in facts.sen : d = Extent(s)
      BY <2>2, <2>3 DEF Traces, ExtentsOf, DictionaryOrWsd
    <3>2. f.id \in d
      BY <2>2 DEF Traces
    <3> QED BY <1>4, <2>2, <3>1, <3>2 DEF Excepted
  <2>4. CASE f.src = "LWG"
    <3>1. f.id \in Auxiliary(c) /\ g.mng = Dash
      BY <1>6, <1>8
    <3>2. f.mng = Dash
      BY <2>4 DEF OverlapInv, LwgDashes
    <3>3. f = [id |-> f.id, mng |-> Dash, src |-> "LWG"]
      BY <2>4, <3>2 DEF Inv, TypeOK, HmFact
    <3>4. g = [id |-> g.id, mng |-> Dash, src |-> "LWG"]
      BY <1>3 DEF Covered
    <3> QED BY <1>8, <3>3, <3>4
  <2> QED BY <2>1, <2>3, <2>4 DEF Early
<1>9. Traced' /\ DoubleTraced'
  BY <1>2, <1>3, <1>4, <1>5, <1>6, <1>7, <1>8, WriteTraced DEF Inv, OverlapInv
<1>10. ChunksFirst' /\ CompoundsFirst' /\ LwgDashes'
  <2>1. LwgChunks' \subseteq LwgChunks /\ VerbCompounds' = VerbCompounds
    BY <1>1, <1>2 DEF LwgChunks, VerbCompounds
  <2>2. \A f \in hm' : f.src \notin Early => f \in hm
    BY <1>6 DEF Early
  <2>3. \A f \in hm' : f.src \in DictionaryOrWsd => f \in hm
    BY <1>6 DEF DictionaryOrWsd
  <2> QED BY <1>6, <2>1, <2>2, <2>3 DEF OverlapInv, ChunksFirst, CompoundsFirst, LwgDashes
<1> QED BY <1>9, <1>10 DEF OverlapInv

LEMMA OverlapStep == ASSUME Inv, OverlapInv, Next PROVE OverlapInv'
<1> USE FactAssumption DEF Inv
<1>1. CASE mng_decided
  BY <1>1, QuietOverlap DEF mng_decided
<1>2. CASE complete_sen_trans
  <2>1. Decided = {}
    BY <1>2, NoMarkedWaits DEF complete_sen_trans, Salience
  <2>2. PICK g \in Awaiting(facts.sen) : DecideGroup(g, "Complete_sen_gdbm")
    BY <1>2 DEF complete_sen_trans
  <2>3. g \in SenFact /\ g.head \in toDecide
    BY DEF Awaiting, TypeOK, Facts
  <2>4. Extent(g) \in ExtentsOf("Complete_sen_gdbm")
    BY <2>2 DEF ExtentsOf, Awaiting, DictionaryOrWsd
  <2>5. g.mng \in Meaning
    BY <2>3 DEF SenFact
  <2> QED BY <2>1, <2>2, <2>3, <2>4, <2>5, GroupOverlap DEF Early, DictionaryOrWsd
<1>3. CASE lwg_mng
  BY <1>3, ChunkOverlap
<1>4. CASE rm_cmp_mng_if_head_is_verb
  <2>1. VerbCompounds # {} /\ db' \subseteq db
    BY <1>4 DEF rm_cmp_mng_if_head_is_verb
  <2> QED
    BY <1>4, <2>1, QuietOverlap DEF rm_cmp_mng_if_head_is_verb, OverlapInv, CompoundsFirst
<1>5. CASE compare_wsd_and_db
  <2>1. Rivals # {} /\ db' \subseteq db
    BY <1>5 DEF compare_wsd_and_db
  <2> QED BY <1>5, <2>1, QuietOverlap DEF compare_wsd_and_db, RivalsSettledFirst
<1>6. CASE get_wsd_compound_mng_for_domain
  <2>1. Decided = {} /\ ~OnAgenda["lwg_mng"] /\ ~OnAgenda["rm_cmp_mng_if_head_is_verb"]
    BY <1>6, NoMarkedWaits, Waits DEF get_wsd_compound_mng_for_domain, Salience
  <2>2. PICK g \in DomainWsd, src \in DictionaryOrWsd : DecideGroup(g, src)
    BY <1>6 DEF get_wsd_compound_mng_for_domain, DictionaryOrWsd
  <2>3. g \in wsd /\ g \in WsdFact /\ g.head \in toDecide
    BY <2>2 DEF DomainWsd, Awaiting, TypeOK
  <2>4. Extent(g) \in ExtentsOf(src) /\ src # "LWG"
    BY <2>2, <2>3 DEF ExtentsOf, DictionaryOrWsd
  <2> QED BY <2>1, <2>2, <2>3, <2>4, GroupOverlap DEF WsdFact, OnAgenda
<1>7. CASE get_default_domain_compound_mng
  <2>1. Decided = {} /\ ~OnAgenda["lwg_mng"]
    BY <1>7, NoMarkedWaits, Waits DEF get_default_domain_compound_mng, Salience
  <2>2. PICK g \in Awaiting(facts.dom),
             src \in {"Domain_compound_phrase_word_mng", "Domain_compound_phrase_root_mng"} :
               DecideGroup(g, src)
    BY <1>7 DEF get_default_domain_compound_mng
  <2>3. g \in facts.dom /\ g \in DomFact /\ g.head \in toDecide
    BY <2>2 DEF Awaiting, TypeOK, Facts
  <2>4. Extent(g) \in ExtentsOf(src) /\ src # "LWG" /\ src \notin DictionaryOrWsd
    BY <2>2, <2>3 DEF ExtentsOf, DictionaryOrWsd
  <2> QED BY <2>1, <2>2, <2>3, <2>4, GroupOverlap DEF DomFact, OnAgenda
<1>8. CASE wsd_cmp_phrase_mng
  <2>1. Decided = {} /\ ~OnAgenda["lwg_mng"] /\ ~OnAgenda["rm_cmp_mng_if_head_is_verb"]
    BY <1>8, NoMarkedWaits, Waits DEF wsd_cmp_phrase_mng, Salience
  <2>2. PICK g \in Awaiting(wsd), src \in DictionaryOrWsd : DecideGroup(g, src)
    BY <1>8 DEF wsd_cmp_phrase_mng, DictionaryOrWsd
  <2>3. g \in wsd /\ g \in WsdFact /\ g.head \in toDecide
    BY <2>2 DEF Awaiting, TypeOK
  <2>4. Extent(g) \in ExtentsOf(src) /\ src # "LWG"
    BY <2>2, <2>3 DEF ExtentsOf, DictionaryOrWsd
  <2> QED BY <2>1, <2>2, <2>3, <2>4, GroupOverlap DEF WsdFact, OnAgenda
<1>9. CASE database_cmp_phrase_mng
  <2>1. Decided = {} /\ ~OnAgenda["lwg_mng"] /\ ~OnAgenda["rm_cmp_mng_if_head_is_verb"]
    BY <1>9, NoMarkedWaits, Waits DEF database_cmp_phrase_mng, Salience
  <2>2. PICK g \in Awaiting(db), src \in DictionaryOrWsd : DecideGroup(g, src)
    BY <1>9 DEF database_cmp_phrase_mng, DatabaseSource, DictionaryOrWsd
  <2>3. g \in db /\ g \in DbFact /\ g.head \in toDecide
    BY <2>2 DEF Awaiting, TypeOK
  <2>4. Extent(g) \in ExtentsOf(src) /\ src # "LWG"
    BY <2>2, <2>3 DEF ExtentsOf, DictionaryOrWsd
  <2> QED BY <2>1, <2>2, <2>3, <2>4, GroupOverlap DEF DbFact, OnAgenda
<1>10. CASE vrb_phrase_mng
  <2> DEFINE src == "Verb_Phrase_gdbm"
  <2>1. Decided = {} /\ ~OnAgenda["lwg_mng"]
    BY <1>10, NoMarkedWaits, Waits DEF vrb_phrase_mng, Salience
  <2>2. PICK p \in PhrasalVerbs :
         /\ toDecide' = toDecide \ {p.verb, p.particle}
         /\ hm' = hm \union
                   {[id |-> p.verb, mng |-> p.mng, src |-> "Verb_Phrase_gdbm"],
                    [id |-> p.particle, mng |-> Dash, src |-> "Verb_Phrase_gdbm"]}
    BY <1>10 DEF vrb_phrase_mng
  <2> DEFINE e == {p.verb, p.particle}
  <2>3. p \in facts.phrasal /\ p.verb # p.particle /\ p.verb \in toDecide
    BY DEF PhrasalVerbs, TypeOK, Facts
  <2>4. UNCHANGED <<facts, wsd, db, hasBeen, lwgFired>>
    BY <1>10 DEF vrb_phrase_mng
  <2>5. e \in ExtentsOf(src) /\ Closed(e)'
    BY <2>2, <2>3 DEF ExtentsOf, DictionaryOrWsd, Closed
  <2>6. /\ \A f \in hm' \ hm : f.src = src /\ f.id \in e
        /\ \A f, g \in hm' \ hm : f.id = g.id => f = g
    BY <2>2, <2>3
  <2>7. \A f \in hm : \E d \in Traces(f) : d # e
    <3> TAKE f \in hm
    <3> HIDE DEF e
    <3>1. p.verb \in e
      BY DEF e
    <3> QED BY <2>1, <2>3, <3>1, OpenHead DEF OverlapInv
  <2>8. Traced' /\ DoubleTraced'
    <3> HIDE DEF e, src
    <3> QED BY <2>2, <2>4, <2>5, <2>6, <2>7, WriteTraced DEF OverlapInv
  <2>9. LwgChunks' = {}
    BY <2>1, <2>4 DEF OnAgenda, LwgChunks
  <2>10. VerbCompounds' = VerbCompounds
    BY <2>4 DEF VerbCompounds
  <2>11. ChunksFirst' /\ CompoundsFirst' /\ LwgDashes'
    BY <2>6, <2>9, <2>10
       DEF OverlapInv, ChunksFirst, CompoundsFirst, LwgDashes, DictionaryOrWsd
  <2> QED BY <2>8, <2>11 DEF OverlapInv
<1> QED
  BY <1>1, <1>2, <1>3, <1>4, <1>5, <1>6, <1>7, <1>8, <1>9, <1>10 DEF Next

LEMMA OverlapInvariance == Spec => []OverlapInv
<1>1. Init => OverlapInv
  BY DEF Init, OverlapInv, Traced, DoubleTraced, ChunksFirst, CompoundsFirst, LwgDashes
<1>2. Inv /\ OverlapInv /\ UNCHANGED vars => OverlapInv'
  <2> SUFFICES ASSUME Inv, OverlapInv, UNCHANGED vars PROVE OverlapInv'
    OBVIOUS
  <2> QED BY QuietOverlap DEF vars
<1>3. Inv /\ OverlapInv /\ [Next]_vars => OverlapInv'
  BY <1>2, OverlapStep
<1> QED BY <1>1, <1>3, Invariance, PTL DEF Spec

\* Whatever groups were found, a word gets two facts only from two groups of
\* different extent that overlap in it, or from a chunk and a sentence over the
\* same words (every deciding rule, and the order of the saliences).
THEOREM DoubleNeedsOverlap == Spec => []DoubleOnlyByOverlap
<1>1. Inv /\ OverlapInv => DoubleOnlyByOverlap
  <2> SUFFICES ASSUME Inv, OverlapInv, NEW f \in hm, NEW g \in hm, f.id = g.id, f # g
               PROVE  \/ \E d, e \in Extents : d # e /\ f.id \in d \intersect e
                      \/ Excepted(f.id)
    BY DEF DoubleOnlyByOverlap, Excepted
  <2>1. \/ \E d \in Traces(f), e \in Traces(g) : d # e
        \/ Excepted(f.id)
    BY DEF OverlapInv, DoubleTraced
  <2>2. \A src : ExtentsOf(src) \subseteq Extents
    BY DEF ExtentsOf, Extents
  <2> QED BY <2>1, <2>2 DEF Traces
<1> QED BY <1>1, Invariance, OverlapInvariance, PTL
-----------------------------------------------------------------------------
(***************************************************************************)
(* Part 2: both stages.  The first keeps the invariant of part 1; what the *)
(* second needs of it is that every id it has written for is among the     *)
(* compound_meaning_decided facts.                                         *)
(***************************************************************************)

\* The first stage reports exactly the words it has written for, and gives none
\* two meanings of its own.
Reported == compDecided = Written
OneOwn == \A f, g \in hm : (f.id = g.id /\ f.mng # Dash /\ g.mng # Dash) => f = g

\* The second stage writes nothing before it runs.
Waiting == stage = "compound" => /\ wordOpen = {}
                                 /\ \A w \in Word : "compound" \notin evidence[w]
                                 /\ \A w \in Word : wordHM[w] = << >>

\* The words that earlier stages have dealt with.
Dealt(w) == evidence[w] \intersect {"template", "compound"} # {}

\* It knows the words of the first, leaves them and those of the templates alone, and
\* retracts a control fact only of them or of a word it writes for.
Running == stage = "single" =>
    /\ wordOpen \subseteq control
    /\ \A w \in Word : "compound" \in evidence[w] <=> w \in compDecided
    /\ \A w \in Word : Dealt(w) => wordHM[w] = << >>
    /\ \A w \in wordOpen : wordHM[w] = << >>
    /\ \A w \in control : w \in wordOpen \/ Dealt(w) \/ wordHM[w] # << >>

PipelineInv ==
    /\ stage \in {"compound", "single"}
    /\ Inv /\ Reported /\ OneOwn
    /\ control \subseteq Word /\ toDecide \subseteq control
    /\ DOMAIN evidence = Word /\ wordHM \in [Word -> Seq(Single!Source)]
    /\ Waiting /\ Running
-----------------------------------------------------------------------------
(* The first stage. *)

\* The words of the facts that print_hindi_mng writes, and of those added to others.
LEMMA CoveredWords ==
  ASSUME NEW ids, NEW head, NEW src
  PROVE  {f.id : f \in Covered(ids, head, src)} = ids \ {head}
<1>1. ASSUME NEW i \in ids \ {head}
      PROVE  \E f \in Covered(ids, head, src) : f.id = i
  <2>1. [id |-> i, mng |-> Dash, src |-> src] \in Covered(ids, head, src)
    BY DEF Covered
  <2> QED BY <2>1
<1>2. \A f \in Covered(ids, head, src) : f.id \in ids \ {head}
  BY DEF Covered
<1> QED BY <1>1, <1>2

LEMMA WordsAdded ==
  ASSUME NEW S, hm' = hm \union S
  PROVE  Written' = Written \union {f.id : f \in S}
BY DEF Written

\* A step writes at most one meaning, and reports all the words it writes for.
LEMMA GroupStep ==
  ASSUME Next
  PROVE  /\ \A f, g \in hm' \ hm : f.mng # Dash /\ g.mng # Dash => f = g
         /\ Reported => Reported'
<1>1. ASSUME NEW g, NEW src, DecideGroup(g, src)
      PROVE  /\ \A e, f \in hm' \ hm : e.mng # Dash /\ f.mng # Dash => e = f
             /\ Reported => Reported'
  <2>1. /\ hm' = hm \union Covered(g.ids, g.head, src)
                    \union {[id |-> g.head, mng |-> g.mng, src |-> src]}
        /\ compDecided' = compDecided \union g.ids \union {g.head}
    BY <1>1 DEF DecideGroup
  <2>2. Written' = Written \union g.ids \union {g.head}
    <3> DEFINE head == [id |-> g.head, mng |-> g.mng, src |-> src]
               S == Covered(g.ids, g.head, src) \union {head}
    <3>1. hm' = hm \union S
      BY <2>1
    <3>2. {f.id : f \in S} = {f.id : f \in Covered(g.ids, g.head, src)} \union {head.id}
      OBVIOUS
    <3>3. {f.id : f \in S} = (g.ids \ {g.head}) \union {g.head}
      BY <3>2, CoveredWords
    <3> HIDE DEF S
    <3>4. Written' = Written \union {f.id : f \in S}
      BY <3>1, WordsAdded
    <3> QED BY <3>3, <3>4
  <2> QED BY <2>1, <2>2 DEF Covered, Reported
<1>2. CASE mng_decided \/ rm_cmp_mng_if_head_is_verb \/ compare_wsd_and_db
  <2>1. hm' = hm /\ compDecided' = compDecided
    BY <1>2 DEF mng_decided, rm_cmp_mng_if_head_is_verb, compare_wsd_and_db
  <2> QED BY <2>1 DEF Reported, Written
<1>3. CASE lwg_mng
  <2>1. PICK c \in LwgChunks : /\ hm' = hm \union Covered(c.ids, c.last, "LWG")
                               /\ compDecided' = compDecided \union (c.ids \ {c.last})
    BY <1>3 DEF lwg_mng, print_hindi_mng
  <2>2. Written' = Written \union (c.ids \ {c.last})
    BY <2>1, WordsAdded, CoveredWords
  <2> QED BY <2>1, <2>2 DEF Covered, Reported
<1>4. CASE vrb_phrase_mng
  <2>1. PICK p \in PhrasalVerbs :
          /\ hm' = hm \union
                    {[id |-> p.verb, mng |-> p.mng, src |-> "Verb_Phrase_gdbm"],
                     [id |-> p.particle, mng |-> Dash, src |-> "Verb_Phrase_gdbm"]}
          /\ compDecided' = compDecided \union {p.verb, p.particle}
    BY <1>4 DEF vrb_phrase_mng
  <2> DEFINE v == [id |-> p.verb, mng |-> p.mng, src |-> "Verb_Phrase_gdbm"]
             a == [id |-> p.particle, mng |-> Dash, src |-> "Verb_Phrase_gdbm"]
  <2>2. Written' = Written \union {p.verb, p.particle}
    <3>1. {f.id : f \in {v, a}} = {v.id, a.id}
      BY Zenon
    <3>2. Written' = Written \union {f.id : f \in {v, a}}
      BY <2>1, WordsAdded
    <3> QED BY <3>1, <3>2
  <2> QED BY <2>1, <2>2 DEF Reported
<1>5. complete_sen_trans \/ get_wsd_compound_mng_for_domain
        \/ get_default_domain_compound_mng \/ wsd_cmp_phrase_mng
        \/ database_cmp_phrase_mng => \E g, src : DecideGroup(g, src)
  BY DEF complete_sen_trans, get_wsd_compound_mng_for_domain,
         get_default_domain_compound_mng, wsd_cmp_phrase_mng, database_cmp_phrase_mng
<1> QED BY <1>1, <1>2, <1>3, <1>4, <1>5 DEF Next

LEMMA CompoundRuns == PipelineInv /\ RunCompound => PipelineInv'
<1> SUFFICES ASSUME PipelineInv, RunCompound PROVE PipelineInv'
  OBVIOUS
<1>1. Inv /\ Next /\ stage = "compound" /\ UNCHANGED <<stage, control, singleVars>>
  BY DEF PipelineInv, RunCompound
<1>2. /\ Inv'
      /\ \A f \in hm' \ hm : f.mng # Dash => \A g \in hm : g.id # f.id
  BY <1>1, StepLemma
<1>3. toDecide' \subseteq toDecide /\ hm \subseteq hm'
  BY <1>1, OwnClosed DEF Inv
<1>4. Reported' /\ OneOwn'
  <2>1. Reported'
    BY <1>1, GroupStep DEF PipelineInv
  <2>2. OneOwn'
    <3> SUFFICES ASSUME NEW f \in hm', NEW g \in hm', f.id = g.id, f.mng # Dash, g.mng # Dash
                 PROVE  f = g
      BY DEF OneOwn
    <3>1. CASE f \in hm /\ g \in hm
      BY <3>1 DEF PipelineInv, OneOwn
    <3>2. CASE f \notin hm /\ g \notin hm
      BY <1>1, <3>2, GroupStep
    <3>3. CASE (f \in hm /\ g \notin hm) \/ (f \notin hm /\ g \in hm)
      BY <1>2, <3>3
    <3> QED BY <3>1, <3>2, <3>3
  <2> QED BY <2>1, <2>2
<1>5. UNCHANGED <<wordOpen, wordHM, evidence>>
  BY <1>1 DEF singleVars
<1> QED
  BY <1>1, <1>2, <1>3, <1>4, <1>5 DEF PipelineInv, Waiting, Running
-----------------------------------------------------------------------------
(* The second stage. *)

\* Rule mng_decided comes before every rule that writes.
LEMMA DecidersWait ==
  ASSUME NEW r \in Single!DecidingRule, Single!MayFire(r)
  PROVE  Single!EarlierDecided = {}
<1>1. /\ "mng_decided" \in DOMAIN Single!Salience
      /\ Single!Salience["mng_decided"] > Single!Salience[r]
  BY DEF Single!DecidingRule, Single!Salience
<1>2. ~Single!OnAgenda("mng_decided")
  BY <1>1 DEF Single!MayFire
<1> QED BY <1>2 DEF Single!OnAgenda

LEMMA SingleRuns == PipelineInv /\ RunSingle => PipelineInv'
<1> SUFFICES ASSUME PipelineInv, RunSingle PROVE PipelineInv'
  OBVIOUS
<1>1. Single!Next /\ stage = "single" /\ UNCHANGED <<stage, control, vars>>
  BY DEF RunSingle
<1>2. evidence' = evidence
  BY <1>1 DEF Single!Next, Single!get_dic_name, Single!generate_dummy_cat,
     Single!mng_decided, Single!modify_word_for_apos, Single!modify_cat_for_particle,
     Single!Decide, Single!fixed
<1>3. Inv' /\ Reported' /\ OneOwn' /\ toDecide' = toDecide /\ compDecided' = compDecided
  <2>1. UNCHANGED vars
    BY <1>1
  <2> QED BY <2>1, StutterInv DEF PipelineInv, Reported, OneOwn, Written, vars
<1>4. CASE wordHM' = wordHM /\ wordOpen' = wordOpen
  BY <1>1, <1>2, <1>3, <1>4 DEF PipelineInv, Waiting, Running, Dealt
<1>5. CASE Single!mng_decided
  <2>1. PICK w \in Single!EarlierDecided : wordOpen' = wordOpen \ {w}
    BY <1>5 DEF Single!mng_decided
  <2>2. wordHM' = wordHM
    BY <1>5 DEF Single!mng_decided
  <2>3. Dealt(w)
    BY <2>1 DEF Single!EarlierDecided, Single!Has, Dealt
  <2> QED BY <1>1, <1>2, <1>3, <2>1, <2>2, <2>3 DEF PipelineInv, Waiting, Running, Dealt
<1>6. CASE \E r \in Single!DecidingRule : Single!Decide(r)
  <2>1. PICK r \in Single!DecidingRule : Single!Decide(r)
    BY <1>6
  <2>2. PICK w \in Single!Matches(r) :
          /\ wordOpen' = wordOpen \ {w}
          /\ wordHM' = [wordHM EXCEPT ![w] = Append(@, Single!SourceOf(r))]
    BY <2>1 DEF Single!Decide
  <2>3. w \in wordOpen /\ w \in control /\ w \in Word /\ wordHM[w] = << >>
    BY <1>1 DEF Single!Matches, PipelineInv, Running
  <2>4. ~Dealt(w)
    <3>1. w \notin Single!EarlierDecided
      BY <2>1, DecidersWait DEF Single!Decide
    <3> QED BY <2>3, <3>1 DEF Single!EarlierDecided, Single!Has, Dealt
  <2>5. wordHM'[w] # << >> /\ wordHM' \in [Word -> Seq(Single!Source)]
        /\ \A u \in Word \ {w} : wordHM'[u] = wordHM[u]
    <3>1. Single!SourceOf(r) \in Single!Source
      BY DEF Single!SourceOf, Single!Source
    <3> QED BY <2>2, <2>3, <3>1 DEF PipelineInv
  <2>6. Running'
    BY <1>1, <1>2, <1>3, <2>2, <2>3, <2>4, <2>5 DEF PipelineInv, Running, Dealt
  <2> QED BY <1>1, <1>2, <1>3, <2>5, <2>6 DEF PipelineInv, Waiting
<1>7. Single!get_dic_name \/ Single!generate_dummy_cat \/ Single!modify_word_for_apos
        \/ Single!modify_cat_for_particle => wordHM' = wordHM /\ wordOpen' = wordOpen
  BY DEF Single!get_dic_name, Single!generate_dummy_cat, Single!modify_word_for_apos,
         Single!modify_cat_for_particle
<1> QED BY <1>1, <1>4, <1>5, <1>6, <1>7 DEF Single!Next
-----------------------------------------------------------------------------
LEMMA PipelineStarts == PipelineInit => PipelineInv
<1> SUFFICES ASSUME PipelineInit PROVE PipelineInv
  OBVIOUS
<1>1. Inv /\ hm = {} /\ compDecided = {} /\ control \subseteq Word
  BY InitInv DEF PipelineInit, Init
<1>2. DOMAIN evidence = Word /\ wordHM \in [Word -> Seq(Single!Source)]
      /\ \A w \in Word : wordHM[w] = << >>
  BY DEF PipelineInit, Single!Init
<1> QED
  BY <1>1, <1>2 DEF PipelineInit, PipelineInv, Reported, Written, OneOwn, Waiting, Running

LEMMA SingleLoads == PipelineInv /\ LoadSingle => PipelineInv'
<1> SUFFICES ASSUME PipelineInv, LoadSingle PROVE PipelineInv'
  OBVIOUS
<1>1. UNCHANGED <<control, vars, wordHM>> /\ stage = "compound" /\ stage' = "single"
      /\ wordOpen' = control
      /\ evidence' = [w \in Word |-> evidence[w] \union
                        (IF w \in compDecided THEN {"compound"} ELSE {})]
  BY DEF LoadSingle
<1>2. Inv' /\ Reported' /\ OneOwn' /\ toDecide' = toDecide /\ compDecided' = compDecided
  <2>1. UNCHANGED vars
    BY <1>1
  <2> QED BY <2>1, StutterInv DEF PipelineInv, Reported, OneOwn, Written, vars
<1>3. Running'
  BY <1>1, <1>2 DEF PipelineInv, Waiting, Running
<1> QED BY <1>1, <1>2, <1>3 DEF PipelineInv, Waiting

LEMMA PipelineSteps == PipelineInv /\ [PipelineNext]_pipelineVars => PipelineInv'
<1> SUFFICES ASSUME PipelineInv, [PipelineNext]_pipelineVars PROVE PipelineInv'
  OBVIOUS
<1>1. CASE PipelineNext
  BY <1>1, CompoundRuns, SingleLoads, SingleRuns DEF PipelineNext
<1>2. CASE UNCHANGED pipelineVars
  <2>1. UNCHANGED <<stage, control, vars, evidence, wordOpen, wordHM>>
    BY <1>2 DEF pipelineVars, singleVars
  <2>2. Inv' /\ Reported' /\ OneOwn' /\ toDecide' = toDecide /\ compDecided' = compDecided
    BY <2>1, StutterInv DEF PipelineInv, Reported, OneOwn, Written, vars
  <2> QED BY <2>1, <2>2 DEF PipelineInv, Waiting, Running, Dealt
<1> QED BY <1>1, <1>2

LEMMA PipelineInvariance == PipelineSpec => []PipelineInv
BY PipelineStarts, PipelineSteps, PTL DEF PipelineSpec
-----------------------------------------------------------------------------
(* The properties. *)

\* No word is translated by both stages, and by the first only once: the control
\* facts are loaded twice, and what keeps the second stage from the words of the
\* first are the facts in wsd_facts_output.dat.
THEOREM OneMeaningEach == PipelineSpec => []OneOwnMeaning
<1>1. PipelineInv => OneOwnMeaning
  <2> SUFFICES ASSUME PipelineInv, NEW w \in Word
               PROVE  /\ (\E f \in hm : f.id = w) => wordHM[w] = << >>
                      /\ \A f, g \in OwnInGroup(w) : f = g
    BY DEF OneOwnMeaning
  <2>1. (\E f \in hm : f.id = w) => w \in compDecided
    BY DEF PipelineInv, Reported, Written
  <2>2. w \in compDecided => wordHM[w] = << >>
    BY DEF PipelineInv, Waiting, Running, Dealt
  <2>3. \A f, g \in OwnInGroup(w) : f = g
    BY DEF PipelineInv, OneOwn, OwnInGroup
  <2> QED BY <2>1, <2>2, <2>3
<1> QED BY <1>1, PipelineInvariance, PTL

\* No word with a control fact is left without: default_mng takes what no other rule
\* does, unless the run was halted.
THEOREM NoneIsForgotten == PipelineSpec => []NoneForgotten
<1>1. PipelineInv => NoneForgotten
  <2> SUFFICES ASSUME PipelineInv, Done, ~halted, NEW w \in control
               PROVE  \/ \E f \in hm : f.id = w
                      \/ "template" \in evidence[w]
                      \/ wordHM[w] # << >>
    BY DEF NoneForgotten
  <2>1. ~Single!OnAgenda("default_mng")
    <3>1. "default_mng" \in DOMAIN Single!Salience
      BY DEF Single!Salience
    <3> QED BY <3>1 DEF Done, Single!Ended
  <2>2. wordOpen = {}
    <3>1. Single!Matches("default_mng") = {}
      BY <2>1 DEF Single!OnAgenda
    <3>2. \A u \in wordOpen : u \in Single!Matches("default_mng")
      BY DEF Single!Matches, Single!Finds
    <3> QED BY <3>1, <3>2
  <2>3. stage = "single" /\ w \in Word /\ (Dealt(w) \/ wordHM[w] # << >>)
    BY <2>2 DEF Done, PipelineInv, Running
  <2>4. "compound" \in evidence[w] => \E f \in hm : f.id = w
    BY <2>3 DEF PipelineInv, Running, Reported, Written
  <2> QED BY <2>3, <2>4 DEF Dealt
<1> QED BY <1>1, PipelineInvariance, PTL

\* The first stage is not disturbed by the second: what was proved of it holds of it in
\* the pipeline.
THEOREM RunsCompound == PipelineSpec => Spec
<1>1. PipelineInit => Init
  BY DEF PipelineInit
<1>2. [PipelineNext]_pipelineVars => [Next]_vars
  BY DEF PipelineNext, RunCompound, LoadSingle, RunSingle, pipelineVars
<1> QED BY <1>1, <1>2, PTL DEF PipelineSpec, Spec

\* The two stages keep the promise of one: a word gets a meaning of its own, in
\* whichever, only while nothing was written for it in either.
THEOREM WholeImplements == PipelineSpec => ImplementsWhole
<1>1. PipelineInit => Whole!Init
  <2> SUFFICES ASSUME PipelineInit PROVE Whole!Init
    OBVIOUS
  <2>1. hm = {} /\ control \subseteq Word /\ \A w \in Word : wordHM[w] = << >>
    BY DEF PipelineInit, Init, Single!Init
  <2> QED BY <2>1 DEF Whole!Init, Written, SingleWritten
<1>2. PipelineInv /\ PipelineInv' /\ [PipelineNext]_pipelineVars => [Whole!Step]_Whole!vars
  <2> SUFFICES ASSUME PipelineInv, PipelineInv', [PipelineNext]_pipelineVars
               PROVE  [Whole!Step]_Whole!vars
    OBVIOUS
  <2> DEFINE own == {f.id : f \in {g \in hm : g.mng # Dash}}
  <2>1. CASE RunCompound
    <3>1. Next /\ control' = control /\ wordHM' = wordHM /\ Inv
      BY <2>1 DEF RunCompound, PipelineInv, singleVars
    <3>2. /\ hm \subseteq hm'
          /\ \A f \in hm' \ hm : f.mng # Dash => f.id \in toDecide
      BY <3>1, OwnClosed DEF Inv
    <3>3. \A f \in hm' \ hm : f.mng # Dash => \A g \in hm : g.id # f.id
      BY <3>1, StepLemma
    <3>4. SingleWritten = {} /\ SingleWritten' = {}
      BY <2>1, <3>1 DEF SingleWritten, PipelineInv, Waiting, RunCompound
    <3>5. Written \subseteq Written' /\ Written' \subseteq Word
      BY <3>2 DEF Written, PipelineInv, Inv, TypeOK, HmFact
    <3>6. own \subseteq own' /\ own' \subseteq Written'
      BY <3>2 DEF Written
    <3>7. ASSUME NEW i \in own', i \notin own
          PROVE  i \in toDecide /\ i \notin Written
      <4>1. PICK f \in hm' : f.mng # Dash /\ f.id = i
        OBVIOUS
      <4>2. f \notin hm
        BY <3>7, <4>1
      <4> QED BY <3>2, <3>3, <4>1, <4>2 DEF Written
    <3>8. toDecide \subseteq control
      BY DEF PipelineInv
    <3> QED BY <3>1, <3>4, <3>5, <3>6, <3>7, <3>8 DEF Whole!Step, Whole!Given
  <2>2. CASE UNCHANGED <<control, hm, wordHM>>
    BY <2>2 DEF Whole!vars, Written, SingleWritten
  <2>3. CASE RunSingle /\ \E r \in Single!DecidingRule : Single!Decide(r)
    <3>1. PICK r \in Single!DecidingRule : Single!Decide(r)
      BY <2>3
    <3>2. PICK w \in Single!Matches(r) :
            wordHM' = [wordHM EXCEPT ![w] = Append(@, Single!SourceOf(r))]
      BY <3>1 DEF Single!Decide
    <3>3. /\ stage = "single" /\ control' = control /\ hm' = hm
          /\ w \in wordOpen /\ w \in control /\ w \in Word /\ wordHM[w] = << >>
          /\ stage' = "single" /\ evidence' = evidence /\ compDecided' = compDecided
      BY <2>3, <3>1 DEF RunSingle, vars, Single!Matches, PipelineInv, Running,
                        Single!Decide, Single!fixed
    <3>4. SingleWritten' = SingleWritten \union {w} /\ w \notin SingleWritten
      BY <3>2, <3>3 DEF SingleWritten, PipelineInv
    <3>5. w \notin Written
      <4>1. wordHM'[w] # << >>
        BY <3>3, <3>4 DEF SingleWritten
      <4> QED BY <3>3, <4>1 DEF PipelineInv, Running, Dealt, Reported
    <3>6. Written' = Written /\ own' = own /\ Written \subseteq Word /\ own \subseteq Written
      BY <3>3 DEF Written, PipelineInv, Inv, TypeOK, HmFact
    <3> QED BY <3>3, <3>4, <3>5, <3>6 DEF Whole!Step, Whole!Given, SingleWritten
  <2>4. RunSingle => \/ UNCHANGED <<control, hm, wordHM>>
                     \/ \E r \in Single!DecidingRule : Single!Decide(r)
    BY DEF RunSingle, vars, Single!Next, Single!get_dic_name, Single!generate_dummy_cat,
           Single!mng_decided, Single!modify_word_for_apos, Single!modify_cat_for_particle
  <2>5. LoadSingle => UNCHANGED <<control, hm, wordHM>>
    BY DEF LoadSingle, vars
  <2>6. CASE UNCHANGED pipelineVars
    BY <2>2, <2>6 DEF pipelineVars, vars, singleVars
  <2> QED BY <2>1, <2>2, <2>3, <2>4, <2>5, <2>6 DEF PipelineNext
<1> QED
  BY <1>1, <1>2, PipelineInvariance, PTL DEF PipelineSpec, ImplementsWhole, Whole!Spec
================================================================================
