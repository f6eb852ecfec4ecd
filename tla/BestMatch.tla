------------------------------ MODULE BestMatch ------------------------------
(****************************************************************************)
(* Choice among the multi-word expressions found in a sentence:             *)
(* src/Anu_clp_files/check_for_best_match_in_multi-word.clp, which           *)
(* run_modules_std.bat runs on the facts of the search programs before the   *)
(* group stage.                                                              *)
(*                                                                          *)
(* A fact is a group of adjacent words with the Hindi meaning a dictionary   *)
(* gives it and the dictionary's rank, 1 for the provisional dictionary and  *)
(* 2 for the others.  Its head, category and kind are left out: no rule      *)
(* tests them.  The rules retract a group that lies within another and join  *)
(* two groups that meet in a word.  Rules of one salience fire in any order, *)
(* which in CLIPS is that of the facts in the file.                          *)
(****************************************************************************)
EXTENDS Naturals, Sequences, FiniteSets

CONSTANTS
    Vocabulary,        \* the words of a Hindi meaning
    FoundSets,    \* sets of groups the search programs may have found
    DomainSets    \* sets of groups the domain's search program may have found

Ranks == {1, 2}
Provisional(g) == g.rank = 1

(* The ids of a group are adjacent (map_mwe takes them from the first to    *)
(* the last word of what was found), and a group has one at least.          *)
Shapes == [first : Nat, last : Nat, mng : Seq(Vocabulary), rank : Ranks]
Groups == {g \in Shapes : g.first \leq g.last}

ASSUME FoundAssumption == \A S \in FoundSets : S \subseteq Groups /\ IsFiniteSet(S)
ASSUME DomainAssumption == \A S \in DomainSets : S \subseteq Groups /\ IsFiniteSet(S)

VARIABLES
    found,          \* multi_word_expressions.dat, as it was loaded
    domainFile,     \* domain_multi_word_expressions.dat
    domainWanted,   \* load_domain_multi_word_file is still to fire
    facts,          \* ids-cmp_mng-head-cat-mng_typ-priority
    domainFacts     \* ids-domain_cmp_mng-head-cat-mng_typ-priority

vars == <<found, domainFile, domainWanted, facts, domainFacts>>

Init ==
    /\ found \in FoundSets
    /\ facts = found
    /\ domainWanted \in BOOLEAN                \* domain.dat names a domain, or general
    /\ domainFile \in IF domainWanted THEN DomainSets ELSE {{}}
    /\ domainFacts = {}

-----------------------------------------------------------------------------
Length(g) == g.last - g.first + 1
Single(g) == g.first = g.last

\* g's ids are among h's: (member$ g h)
Within(g, h) == h.first \leq g.first /\ g.last \leq h.last
Nested(g, h) == Within(g, h) \/ Within(h, g)

(* Two groups of one rank and different meanings, one within the other.      *)
Rivals(g, h) == g.rank = h.rank /\ g.mng # h.mng /\ Nested(g, h)

\* Mutant: of two rivals the one that begins first stays.
LoserByFirst(g, h) == IF g.first < h.first THEN h ELSE g
\* Of two rivals the first stays only if it is longer.
Loser(g, h) == IF Length(g) > Length(h) THEN h ELSE g

Meet(g, h) == g.last = h.first /\ ~ (Single(g) /\ Single(h))

(* delete-member$: every occurrence of w is taken out, not only the first.   *)
Without(t, w) ==
    LET left[n \in 0 .. Len(t)] ==
            IF n = 0 THEN <<>>
            ELSE IF t[n] = w THEN left[n - 1] ELSE Append(left[n - 1], t[n])
    IN  left[Len(t)]

(* A word that ends the first meaning and begins the second is there once.   *)
JoinedMng(s, t) ==
    IF s # <<>> /\ t # <<>> /\ s[Len(s)] = t[1] THEN s \o Without(t, t[1]) ELSE s \o t

\* Mutant: the ids of the second group are forgotten.
JoinedShort(g, h) ==
    [first |-> g.first, last |-> g.last, mng |-> JoinedMng(g.mng, h.mng), rank |-> h.rank]
Joined(g, h) ==
    [first |-> g.first, last |-> h.last, mng |-> JoinedMng(g.mng, h.mng), rank |-> h.rank]

-----------------------------------------------------------------------------
(* Salience 9000.                                                           *)
load_domain_multi_word_file ==
    /\ domainWanted
    /\ domainWanted' = FALSE
    /\ domainFacts' = domainFile
    /\ UNCHANGED <<found, domainFile, facts>>

(* Salience 100: the three rules compete.                                    *)
chk_for_best_match_in_multi_word ==
    /\ ~ domainWanted
    /\ \E g, h \in facts : Rivals(g, h) /\ facts' = facts \ {Loser(g, h)}
    /\ UNCHANGED <<found, domainFile, domainWanted, domainFacts>>

chk_for_best_match_in_domain ==
    /\ ~ domainWanted
    /\ \E g, h \in domainFacts :
         Rivals(g, h) /\ domainFacts' = domainFacts \ {Loser(g, h)}
    /\ UNCHANGED <<found, domainFile, domainWanted, facts>>

\* Mutant: only the first group is retracted.
combine_keeping_second ==
    /\ ~ domainWanted
    /\ \E g, h \in facts :
         Meet(g, h) /\ facts' = (facts \ {g}) \union {Joined(g, h)}
    /\ UNCHANGED <<found, domainFile, domainWanted, domainFacts>>

combine_two_groups_with_same_id ==
    /\ ~ domainWanted
    /\ \E g, h \in facts :
         Meet(g, h) /\ facts' = (facts \ {g, h}) \union {Joined(g, h)}
    /\ UNCHANGED <<found, domainFile, domainWanted, domainFacts>>

(* Nothing of salience 100 or more is on the agenda.                         *)
BestMatched ==
    /\ ~ domainWanted
    /\ \A g, h \in facts : ~ Rivals(g, h) /\ ~ Meet(g, h)
    /\ \A g, h \in domainFacts : ~ Rivals(g, h)

SameIds(g, h) == g.first = h.first /\ g.last = h.last

\* Mutant: the provisional group is retracted.
prov_multi_retracted ==
    /\ BestMatched
    /\ \E g, h \in facts :
         Provisional(g) /\ h.rank = 2 /\ SameIds(g, h) /\ facts' = facts \ {g}
    /\ UNCHANGED <<found, domainFile, domainWanted, domainFacts>>

(* Salience 1.  The fact asserted again is still there.                      *)
chk_for_prov_multi_same_group_ids ==
    /\ BestMatched
    /\ \E g, h \in facts :
         Provisional(g) /\ h.rank = 2 /\ SameIds(g, h) /\ facts' = facts \ {h}
    /\ UNCHANGED <<found, domainFile, domainWanted, domainFacts>>

ProvisionalPreferred ==
    \A g, h \in facts : Provisional(g) /\ h.rank = 2 => ~ SameIds(g, h)

(* Salience 0.                                                              *)
chk_for_prov_multi_diff_group_ids ==
    /\ BestMatched
    /\ ProvisionalPreferred
    /\ \E g, h \in facts :
         Provisional(g) /\ h.rank = 2 /\ Nested(g, h) /\ facts' = facts \ {Loser(g, h)}
    /\ UNCHANGED <<found, domainFile, domainWanted, domainFacts>>

Next ==
    \/ load_domain_multi_word_file
    \/ chk_for_best_match_in_multi_word
    \/ chk_for_best_match_in_domain
    \/ combine_two_groups_with_same_id
    \/ chk_for_prov_multi_same_group_ids
    \/ chk_for_prov_multi_diff_group_ids

Spec == Init /\ [][Next]_vars
FairSpec == Spec /\ WF_vars(Next)

Ended ==
    /\ BestMatched
    /\ \A g, h \in facts : Provisional(g) /\ h.rank = 2 => ~ Nested(g, h)

-----------------------------------------------------------------------------
IsGroup(g) ==
    g.first \in Nat /\ g.last \in Nat /\ g.first \leq g.last /\ g.rank \in Ranks

(* Every fact of every set is a group: adjacent ids, one at least, and a     *)
(* rank; joining two groups makes a group.                                   *)
TypeOK ==
    /\ domainWanted \in BOOLEAN
    /\ \A S \in {found, domainFile, facts, domainFacts} : \A g \in S : IsGroup(g)

(* Whatever the order of the rules, no word that belonged to an expression   *)
(* drops out: the ids of every group that was found lie within those of one  *)
(* that is left (retractions and joins of both kinds of facts).              *)
NoneLost ==
    /\ \A g \in found : \E h \in facts : Within(g, h)
    /\ ~ domainWanted => \A g \in domainFile : \E h \in domainFacts : Within(g, h)

(* A group's meaning is made of meanings of groups within its own ids, no    *)
(* matter how often it was joined (combine_two_groups_with_same_id).         *)
OwnMeanings ==
    \A g \in facts : \A i \in 1 .. Len(g.mng) :
        \E h \in found : Within(h, g) /\ \E j \in 1 .. Len(h.mng) : h.mng[j] = g.mng[i]

(* A group of the provisional dictionary gives way only to a longer group or *)
(* to another that has the provisional dictionary's rank; a group    *)
(* joined from two has the rank of the second (saliences 100, 1 and 0).      *)
(* Single words of the other dictionaries are excepted: one at the group's   *)
(* end makes the group theirs without making it longer.                      *)
ProvisionalOnlyToLonger ==
    \A g \in found : Provisional(g) =>
        \/ \E h \in facts : Within(g, h) /\ (Provisional(h) \/ Length(h) > Length(g))
        \/ \E s \in found : Single(s) /\ s.rank = 2 /\ Within(s, g)

(* The rules come to an end: every firing leaves fewer facts, though         *)
(* combine_two_groups_with_same_id asserts new ones.                         *)
Terminates == <>Ended
=============================================================================
