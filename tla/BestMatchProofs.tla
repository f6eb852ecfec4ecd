--------------------------- MODULE BestMatchProofs ---------------------------
(****************************************************************************)
(* Proofs about BestMatch, for every set of groups that the search programs *)
(* may find.  A group that a step takes out of the facts is spanned by one  *)
(* that it leaves: that keeps every group's ids, and a provisional group's  *)
(* rank but for a longer one.                                               *)
(****************************************************************************)
EXTENDS BestMatch, TLAPS, WellFoundedInduction

\* A single word's group is never the outcome of a join.
SinglesFound == \A g \in facts : Single(g) => g \in found

IInv == TypeOK /\ NoneLost /\ SinglesFound /\ ProvisionalOnlyToLonger

\* Every meaning is a sequence of words.
Worded == \A g \in found \union facts : g.mng \in Seq(Vocabulary)
MngInv == Worded /\ OwnMeanings

\* w stands for k: it has k's ids, and is provisional or longer if k is provisional.
Spans(k, w) ==
    /\ Within(k, w)
    /\ Provisional(k) => Provisional(w) \/ Length(w) > Length(k)

\* The rules that retract one of two nested groups do no more than this.
Retracts(S, T) ==
    \E g, h \in S :
        /\ g # h
        /\ T = S \ {Loser(g, h)}
        /\ Nested(g, h)
        /\ g.rank = h.rank \/ (Provisional(g) /\ h.rank = 2 /\ ~ SameIds(g, h))

\* The exception that ProvisionalOnlyToLonger makes for g.
Excepted(g) == \E s \in found : Single(s) /\ s.rank = 2 /\ Within(s, g)

-----------------------------------------------------------------------------
LEMMA SpansTransitive ==
    ASSUME NEW f, NEW g, NEW h, IsGroup(f), IsGroup(g), IsGroup(h),
           Within(f, g), Provisional(f) => Provisional(g) \/ Length(g) > Length(f),
           Spans(g, h)
    PROVE  Spans(f, h)
<1>1. Length(h) \geq Length(g)
  BY DEF Spans, Within, Length, IsGroup
<1>2. Length(f) \in Nat /\ Length(g) \in Nat /\ Length(h) \in Nat /\ Length(g) \geq Length(f)
  BY DEF Within, Length, IsGroup
<1>3. Within(f, h)
  BY DEF Spans, Within, IsGroup
<1>4. Provisional(f) => Provisional(h) \/ Length(h) > Length(f)
  BY <1>1, <1>2 DEF Spans
<1> QED  BY <1>3, <1>4 DEF Spans

(* A group that is retracted is spanned by its rival, the others by          *)
(* themselves.                                                              *)
LEMMA RivalSpans ==
    ASSUME NEW S, NEW T, \A g \in S : IsGroup(g), Retracts(S, T), NEW k \in S
    PROVE  \E w \in T : Spans(k, w)
<1>1. PICK g \in S, h \in S :
        /\ g # h
        /\ T = S \ {Loser(g, h)}
        /\ Nested(g, h)
        /\ g.rank = h.rank \/ (Provisional(g) /\ h.rank = 2 /\ ~ SameIds(g, h))
  BY DEF Retracts
<1>2. IsGroup(g) /\ IsGroup(h) /\ IsGroup(k)
  OBVIOUS
<1>3. CASE k # Loser(g, h)
  <2>1. k \in T
    BY <1>1, <1>3
  <2>2. Spans(k, k)
    BY <1>2 DEF Spans, Within, IsGroup
  <2> QED  BY <2>1, <2>2
<1>4. CASE k = Loser(g, h) /\ Length(g) > Length(h)
  <2>1. k = h
    BY <1>4 DEF Loser
  <2>2. g \in T
    BY <1>1, <1>4, <2>1
  <2>3. Within(h, g)
    BY <1>1, <1>2, <1>4 DEF Nested, Within, Length, IsGroup
  <2> QED  BY <1>4, <2>1, <2>2, <2>3 DEF Spans
<1>5. CASE k = Loser(g, h) /\ ~ (Length(g) > Length(h))
  <2>1. k = g
    BY <1>5 DEF Loser
  <2>2. h \in T
    BY <1>1, <1>5, <2>1
  <2>3. Within(g, h)
    BY <1>1, <1>2, <1>5 DEF Nested, Within, Length, IsGroup
  <2>4. g.rank # h.rank => Length(h) > Length(g)
    BY <1>1, <1>2, <2>3 DEF SameIds, Within, Length, IsGroup
  <2>5. Provisional(g) => Provisional(h) \/ Length(h) > Length(g)
    BY <2>4 DEF Provisional
  <2> QED  BY <2>1, <2>2, <2>3, <2>5 DEF Spans
<1> QED  BY <1>3, <1>4, <1>5

(* The two groups that are joined are spanned by what they are joined to,    *)
(* but for a provisional group whose last word makes it another dictionary's. *)
LEMMA JoinSpans ==
    ASSUME NEW g, NEW h, IsGroup(g), IsGroup(h), Meet(g, h)
    PROVE  /\ IsGroup(Joined(g, h))
           /\ ~ Single(Joined(g, h))
           /\ Spans(h, Joined(g, h))
           /\ Within(g, Joined(g, h))
           /\ Spans(g, Joined(g, h)) \/ (Single(h) /\ h.rank = 2 /\ Within(h, g))
<1> DEFINE j == Joined(g, h)
<1>1. j.first = g.first /\ j.last = h.last /\ j.rank = h.rank
  BY DEF Joined
<1> HIDE DEF j
<1>2. IsGroup(j) /\ ~ Single(j) /\ Within(h, j) /\ Within(g, j)
  BY <1>1 DEF IsGroup, Meet, Single, Within
<1>3. Spans(h, j)
  BY <1>1, <1>2 DEF Spans, Provisional
<1>4. Spans(g, j) \/ (Single(h) /\ h.rank = 2 /\ Within(h, g))
  <2>1. CASE Single(h) /\ h.rank = 2
    <3>1. Within(h, g)
      BY <2>1 DEF Single, Meet, Within, IsGroup
    <3> QED  BY <2>1, <3>1
  <2>2. CASE h.rank = 1
    BY <1>1, <1>2, <2>2 DEF Spans, Provisional
  <2>3. CASE ~ Single(h)
    <3>1. Length(j) > Length(g)
      BY <1>1, <2>3 DEF Single, Meet, Length, IsGroup
    <3> QED  BY <1>2, <3>1 DEF Spans
  <2>4. h.rank = 1 \/ h.rank = 2
    BY DEF IsGroup, Ranks
  <2> QED  BY <2>1, <2>2, <2>3, <2>4
<1> QED  BY <1>2, <1>3, <1>4 DEF j

-----------------------------------------------------------------------------
(* What a step must do to the facts for the invariant to survive.           *)
LEMMA SpannedPreserves ==
    ASSUME IInv, TypeOK', found' = found,
           \A k \in facts : \E w \in facts' :
               Within(k, w) /\ (Spans(k, w) \/ Excepted(k))
    PROVE  /\ \A g \in found : \E h \in facts' : Within(g, h)
           /\ ProvisionalOnlyToLonger'
<1>0. /\ \A g \in found : IsGroup(g)
      /\ \A g \in facts : IsGroup(g)
      /\ \A g \in facts' : IsGroup(g)
  BY DEF IInv, TypeOK
<1>1. ASSUME NEW g \in found
      PROVE  \E h \in facts' : Within(g, h)
  <2>1. PICK k \in facts : Within(g, k)
    BY DEF IInv, NoneLost
  <2>2. PICK w \in facts' : Within(k, w)
    OBVIOUS
  <2> QED  BY <1>0, <2>1, <2>2 DEF Within, IsGroup
<1>2. ASSUME NEW g \in found, Provisional(g), ~ Excepted(g)
      PROVE  \E w \in facts' : Within(g, w) /\ (Provisional(w) \/ Length(w) > Length(g))
  <2>1. PICK k \in facts : Within(g, k) /\ (Provisional(k) \/ Length(k) > Length(g))
    BY <1>2 DEF IInv, ProvisionalOnlyToLonger, Excepted
  <2>2. PICK w \in facts' : Within(k, w) /\ (Spans(k, w) \/ Excepted(k))
    OBVIOUS
  <2>3. IsGroup(g) /\ IsGroup(k) /\ IsGroup(w)
    BY <1>0
  <2>4. CASE Spans(k, w)
    <3>1. Spans(g, w)
      BY <2>1, <2>3, <2>4, SpansTransitive
    <3> QED  BY <1>2, <3>1 DEF Spans
  <2>5. CASE Length(k) > Length(g)
    <3>1. Within(g, w) /\ Length(w) > Length(g)
      BY <2>1, <2>2, <2>3, <2>5 DEF Within, Length, IsGroup
    <3> QED  BY <3>1
  <2>6. CASE Excepted(k) /\ ~ (Length(k) > Length(g))
    <3>1. k.first = g.first /\ k.last = g.last
      BY <2>1, <2>3, <2>6 DEF Within, Length, IsGroup
    <3>2. Excepted(g)
      BY <2>6, <3>1 DEF Excepted, Within
    <3> QED  BY <1>2, <3>2
  <2> QED  BY <2>2, <2>4, <2>5, <2>6
<1>3. ProvisionalOnlyToLonger'
  <2> SUFFICES ASSUME NEW g \in found, Provisional(g)
               PROVE  \/ \E h \in facts' : Within(g, h) /\ (Provisional(h) \/ Length(h) > Length(g))
                      \/ Excepted(g)
    BY DEF ProvisionalOnlyToLonger, Excepted
  <2> QED  BY <1>2
<1> QED  BY <1>1, <1>3

(* A retraction among the facts that leaves the domain's alone.             *)
LEMMA RetractionPreserves ==
    ASSUME IInv, Retracts(facts, facts'),
           UNCHANGED <<found, domainFile, domainWanted, domainFacts>>
    PROVE  IInv'
<1>1. facts' \subseteq facts
  BY DEF Retracts
<1>2. TypeOK'
  BY <1>1 DEF IInv, TypeOK
<1>3. \A k \in facts : \E w \in facts' : Within(k, w) /\ (Spans(k, w) \/ Excepted(k))
  <2> TAKE k \in facts
  <2>1. \A g \in facts : IsGroup(g)
    BY DEF IInv, TypeOK
  <2>2. PICK w \in facts' : Spans(k, w)
    BY <2>1, RivalSpans
  <2> QED  BY <2>2 DEF Spans
<1>4. SinglesFound'
  BY <1>1 DEF IInv, SinglesFound
<1>5. (\A g \in found : \E h \in facts' : Within(g, h)) /\ ProvisionalOnlyToLonger'
  BY <1>2, <1>3, SpannedPreserves
<1>6. NoneLost'
  BY <1>5 DEF IInv, NoneLost
<1> QED  BY <1>2, <1>4, <1>5, <1>6 DEF IInv

LEMMA LeastNumber ==
    ASSUME NEW T, T \subseteq Nat, T # {}
    PROVE  \E n \in T : n = 0 \/ (n - 1 \in Nat /\ n - 1 \notin T)
<1>1. IsWellFoundedOn(OpToRel(<, Nat), Nat)
  BY NatLessThanWellFounded
<1>2. PICK n \in T : \A y \in T : ~ (<<y, n>> \in OpToRel(<, Nat))
  BY <1>1, WFMin
<1>3. \A y \in T : ~ (y < n)
  BY <1>2 DEF OpToRel
<1> QED  BY <1>3

(* A meaning from which a word was taken out is made of its own words.       *)
LEMMA WithoutWords ==
    ASSUME NEW t \in Seq(Vocabulary), NEW w
    PROVE  /\ Without(t, w) \in Seq(Vocabulary)
           /\ \A i \in 1 .. Len(Without(t, w)) :
                \E j \in 1 .. Len(t) : t[j] = Without(t, w)[i]
<1> DEFINE Row(f, m) == f = [n \in 0 .. m |->
                IF n = 0 THEN <<>>
                ELSE IF t[n] = w THEN f[n - 1] ELSE Append(f[n - 1], t[n])]
           left == CHOOSE f : Row(f, Len(t))
           Unrowed == {m \in Nat : ~ \E f : Row(f, m)}
           Own(n) == /\ left[n] \in Seq(Vocabulary)
                     /\ \A i \in 1 .. Len(left[n]) : \E j \in 1 .. Len(t) : t[j] = left[n][i]
           Other == {n \in Nat : n \leq Len(t) /\ ~ Own(n)}
<1>1. Unrowed = {}
  <2>1. SUFFICES ASSUME Unrowed # {} PROVE FALSE
    OBVIOUS
  <2>2. PICK m \in Unrowed : m = 0 \/ (m - 1 \in Nat /\ m - 1 \notin Unrowed)
    BY <2>1, LeastNumber
  <2>3. CASE m = 0
    <3>1. Row([n \in 0 .. 0 |-> <<>>], 0)
      OBVIOUS
    <3> QED  BY <2>2, <2>3, <3>1
  <2>4. CASE m # 0
    <3>1. PICK f : Row(f, m - 1)
      BY <2>2, <2>4
    <3> DEFINE g == [n \in 0 .. m |-> IF n < m THEN f[n]
                       ELSE IF t[n] = w THEN f[n - 1] ELSE Append(f[n - 1], t[n])]
    <3>2. ASSUME NEW n \in 0 .. m
          PROVE  g[n] = IF n = 0 THEN <<>>
                        ELSE IF t[n] = w THEN g[n - 1] ELSE Append(g[n - 1], t[n])
      <4>1. m \in Nat /\ m - 1 \in Nat /\ n \in Int
        BY <2>2, <2>4
      <4>2. CASE n < m
        <5>1. n \in 0 .. (m - 1) /\ (n # 0 => n - 1 \in 0 .. m /\ n - 1 < m)
          BY <4>1, <4>2
        <5>2. g[n] = f[n] /\ (n # 0 => g[n - 1] = f[n - 1])
          BY <4>2, <5>1
        <5>3. f[n] = IF n = 0 THEN <<>>
                     ELSE IF t[n] = w THEN f[n - 1] ELSE Append(f[n - 1], t[n])
          BY <3>1, <5>1
        <5> HIDE DEF g
        <5> QED  BY <5>2, <5>3
      <4>3. CASE n = m
        <5>1. m \in 0 .. m /\ m - 1 \in 0 .. m /\ m - 1 < m /\ ~ (m < m)
          BY <4>1
        <5>2. g[m - 1] = f[m - 1]
          BY <5>1
        <5>3. g[m] = IF t[m] = w THEN f[m - 1] ELSE Append(f[m - 1], t[m])
          BY <5>1
        <5> HIDE DEF g
        <5> QED  BY <2>4, <4>3, <5>2, <5>3
      <4> QED  BY <4>1, <4>2, <4>3
    <3>3. g = [n \in 0 .. m |-> g[n]]
      OBVIOUS
    <3> HIDE DEF g
    <3>4. Row(g, m)
      BY <3>2, <3>3
    <3> QED  BY <2>2, <3>4
  <2> QED  BY <2>3, <2>4
<1>2. Len(t) \in Nat
  OBVIOUS
<1>3. Row(left, Len(t))
  BY <1>1, <1>2
<1>4. Without(t, w) = left[Len(t)]
  BY DEF Without
<1> HIDE DEF left
\* What is left of every beginning of t is made of its words.
<1>5. Other = {}
  <2>1. SUFFICES ASSUME Other # {} PROVE FALSE
    OBVIOUS
  <2>2. PICK n \in Other : n = 0 \/ (n - 1 \in Nat /\ n - 1 \notin Other)
    BY <2>1, LeastNumber
  <2>3. n \in Nat /\ n \in 0 .. Len(t) /\ ~ Own(n)
    BY <1>2, <2>2
  <2>4. left[n] = IF n = 0 THEN <<>>
                  ELSE IF t[n] = w THEN left[n - 1] ELSE Append(left[n - 1], t[n])
    BY <1>3, <2>3
  <2>5. CASE n = 0
    BY <2>3, <2>4, <2>5
  <2>6. CASE n # 0
    <3>1. Own(n - 1) /\ n \in 1 .. Len(t)
      BY <1>2, <2>2, <2>3, <2>6
    <3>2. CASE t[n] = w
      BY <2>3, <2>4, <2>6, <3>1, <3>2
    <3>3. CASE t[n] # w
      <4>1. left[n] = Append(left[n - 1], t[n]) /\ t[n] \in Vocabulary
        BY <2>4, <2>6, <3>1, <3>3
      <4>2. left[n] \in Seq(Vocabulary) /\ Len(left[n]) = Len(left[n - 1]) + 1
        BY <3>1, <4>1
      <4>3. ASSUME NEW i \in 1 .. Len(left[n])
            PROVE  \E j \in 1 .. Len(t) : t[j] = left[n][i]
        <5>1. CASE i = Len(left[n - 1]) + 1
          BY <3>1, <4>1, <5>1
        <5>2. CASE i # Len(left[n - 1]) + 1
          <6>1. i \in 1 .. Len(left[n - 1]) /\ left[n][i] = left[n - 1][i]
            BY <3>1, <4>1, <4>2, <5>2
          <6> QED  BY <3>1, <6>1
        <5> QED  BY <5>1, <5>2
      <4> QED  BY <2>3, <4>2, <4>3
    <3> QED  BY <3>2, <3>3
  <2> QED  BY <2>5, <2>6
<1> QED  BY <1>2, <1>4, <1>5

(* A joined meaning is made of words of the two.                             *)
LEMMA JoinedWords ==
    ASSUME NEW s \in Seq(Vocabulary), NEW t \in Seq(Vocabulary)
    PROVE  /\ JoinedMng(s, t) \in Seq(Vocabulary)
           /\ \A i \in 1 .. Len(JoinedMng(s, t)) :
                \/ \E j \in 1 .. Len(s) : s[j] = JoinedMng(s, t)[i]
                \/ \E j \in 1 .. Len(t) : t[j] = JoinedMng(s, t)[i]
<1>1. PICK u \in Seq(Vocabulary) :
        /\ JoinedMng(s, t) = s \o u
        /\ \A i \in 1 .. Len(u) : \E j \in 1 .. Len(t) : t[j] = u[i]
  <2>1. CASE s # <<>> /\ t # <<>> /\ s[Len(s)] = t[1]
    BY <2>1, WithoutWords DEF JoinedMng
  <2>2. CASE ~ (s # <<>> /\ t # <<>> /\ s[Len(s)] = t[1])
    BY <2>2 DEF JoinedMng
  <2> QED  BY <2>1, <2>2
<1>2. s \o u \in Seq(Vocabulary) /\ Len(s \o u) = Len(s) + Len(u)
  OBVIOUS
<1>3. ASSUME NEW i \in 1 .. Len(s \o u)
      PROVE  \/ \E j \in 1 .. Len(s) : s[j] = (s \o u)[i]
             \/ \E j \in 1 .. Len(t) : t[j] = (s \o u)[i]
  <2>1. CASE i \leq Len(s)
    BY <2>1
  <2>2. CASE i > Len(s)
    <3>1. i - Len(s) \in 1 .. Len(u) /\ (s \o u)[i] = u[i - Len(s)]
      BY <1>2, <2>2
    <3> QED  BY <1>1, <3>1
  <2> QED  BY <2>1, <2>2
<1> QED  BY <1>1, <1>2, <1>3

LEMMA InitHolds == Init => IInv
<1> SUFFICES ASSUME Init PROVE IInv
  OBVIOUS
<1>1. TypeOK
  <2>1. \A g \in found \cup domainFile : g \in Groups
    BY FoundAssumption, DomainAssumption DEF Init
  <2>2. \A g \in found \cup domainFile : IsGroup(g)
    BY <2>1 DEF Groups, Shapes, IsGroup
  <2> QED  BY <2>2 DEF Init, TypeOK
<1>2. \A g \in found : Within(g, g)
  BY <1>1 DEF TypeOK, Within, IsGroup
<1> QED  BY <1>1, <1>2 DEF Init, IInv, NoneLost, SinglesFound, ProvisionalOnlyToLonger

LEMMA StepHolds == IInv /\ [Next]_vars => IInv'
<1> SUFFICES ASSUME IInv, [Next]_vars PROVE IInv'
  OBVIOUS
<1>0. /\ \A g \in found : IsGroup(g)
      /\ \A g \in facts : IsGroup(g)
      /\ \A g \in domainFacts : IsGroup(g)
      /\ \A g \in domainFile : IsGroup(g)
  BY DEF IInv, TypeOK
<1>1. CASE load_domain_multi_word_file
  <2>1. \A g \in domainFile : Within(g, g)
    BY <1>0 DEF Within, IsGroup
  <2> QED  BY <1>1, <2>1 DEF load_domain_multi_word_file, IInv, TypeOK, NoneLost,
                             SinglesFound, ProvisionalOnlyToLonger
<1>2. CASE chk_for_best_match_in_multi_word
  <2>1. Retracts(facts, facts')
    BY <1>2 DEF chk_for_best_match_in_multi_word, Rivals, Retracts
  <2> QED  BY <1>2, <2>1, RetractionPreserves DEF chk_for_best_match_in_multi_word
<1>3. CASE chk_for_best_match_in_domain
  <2>1. Retracts(domainFacts, domainFacts')
    BY <1>3 DEF chk_for_best_match_in_domain, Rivals, Retracts
  <2>2. domainFacts' \subseteq domainFacts /\ UNCHANGED <<found, domainFile, domainWanted, facts>>
    BY <1>3 DEF chk_for_best_match_in_domain
  <2>3. TypeOK' /\ SinglesFound' /\ ProvisionalOnlyToLonger'
    BY <2>2 DEF IInv, TypeOK, SinglesFound, ProvisionalOnlyToLonger
  <2>4. \A k \in domainFacts : \E w \in domainFacts' : Within(k, w)
    BY <1>0, <2>1, RivalSpans DEF Spans
  <2>5. \A g \in domainFile : \E h \in domainFacts' : Within(g, h)
    <3> TAKE g \in domainFile
    <3>1. PICK k \in domainFacts : Within(g, k)
      BY <1>3 DEF chk_for_best_match_in_domain, IInv, NoneLost
    <3>2. PICK w \in domainFacts' : Within(k, w)
      BY <2>4
    <3> QED  BY <1>0, <2>2, <3>1, <3>2 DEF Within, IsGroup
  <2>6. NoneLost'
    BY <2>2, <2>5 DEF IInv, NoneLost
  <2> QED  BY <2>3, <2>6 DEF IInv
<1>4. CASE combine_two_groups_with_same_id
  <2>1. PICK g \in facts, h \in facts :
           Meet(g, h) /\ facts' = (facts \ {g, h}) \cup {Joined(g, h)}
    BY <1>4 DEF combine_two_groups_with_same_id
  <2>2. /\ IsGroup(Joined(g, h)) /\ ~ Single(Joined(g, h))
        /\ Spans(h, Joined(g, h)) /\ Within(g, Joined(g, h))
        /\ Spans(g, Joined(g, h)) \/ (Single(h) /\ h.rank = 2 /\ Within(h, g))
    BY <1>0, <2>1, JoinSpans
  <2>3. UNCHANGED <<found, domainFile, domainWanted, domainFacts>>
    BY <1>4 DEF combine_two_groups_with_same_id
  <2>4. TypeOK'
    BY <1>0, <2>1, <2>2, <2>3 DEF IInv, TypeOK
  <2>5. SinglesFound'
    BY <2>1, <2>2, <2>3 DEF IInv, SinglesFound
  <2>6. \A k \in facts : \E w \in facts' : Within(k, w) /\ (Spans(k, w) \/ Excepted(k))
    <3> TAKE k \in facts
    <3>1. CASE k # g /\ k # h
      <4>1. k \in facts' /\ Spans(k, k)
        BY <1>0, <2>1, <3>1 DEF Spans, Within, IsGroup
      <4> QED  BY <4>1 DEF Spans
    <3>2. CASE k = h
      BY <2>1, <2>2, <3>2 DEF Spans
    <3>3. CASE k = g
      <4>1. Single(h) => h \in found
        BY DEF IInv, SinglesFound
      <4>2. Spans(g, Joined(g, h)) \/ Excepted(g)
        BY <2>2, <4>1 DEF Excepted
      <4> QED  BY <2>1, <2>2, <3>3, <4>2
    <3> QED  BY <3>1, <3>2, <3>3
  <2>7. (\A k \in found : \E w \in facts' : Within(k, w)) /\ ProvisionalOnlyToLonger'
    BY <2>3, <2>4, <2>6, SpannedPreserves
  <2>8. NoneLost'
    BY <2>3, <2>7 DEF IInv, NoneLost
  <2> QED  BY <2>4, <2>5, <2>7, <2>8 DEF IInv
<1>5. CASE chk_for_prov_multi_same_group_ids
  <2>1. PICK g \in facts, h \in facts :
           Provisional(g) /\ h.rank = 2 /\ SameIds(g, h) /\ facts' = facts \ {h}
    BY <1>5 DEF chk_for_prov_multi_same_group_ids
  <2>2. UNCHANGED <<found, domainFile, domainWanted, domainFacts>>
    BY <1>5 DEF chk_for_prov_multi_same_group_ids
  <2>3. TypeOK' /\ SinglesFound'
    BY <2>1, <2>2 DEF IInv, TypeOK, SinglesFound
  <2>4. \A k \in facts : \E w \in facts' : Within(k, w) /\ (Spans(k, w) \/ Excepted(k))
    <3> TAKE k \in facts
    <3>1. CASE k = h
      <4>1. g \in facts' /\ Spans(h, g)
        BY <1>0, <2>1 DEF Spans, Within, SameIds, Provisional, IsGroup
      <4> QED  BY <3>1, <4>1 DEF Spans
    <3>2. CASE k # h
      <4>1. k \in facts' /\ Spans(k, k)
        BY <1>0, <2>1, <3>2 DEF Spans, Within, IsGroup
      <4> QED  BY <4>1 DEF Spans
    <3> QED  BY <3>1, <3>2
  <2>5. (\A k \in found : \E w \in facts' : Within(k, w)) /\ ProvisionalOnlyToLonger'
    BY <2>2, <2>3, <2>4, SpannedPreserves
  <2>6. NoneLost'
    BY <2>2, <2>5 DEF IInv, NoneLost
  <2> QED  BY <2>3, <2>5, <2>6 DEF IInv
<1>6. CASE chk_for_prov_multi_diff_group_ids
  <2>1. Retracts(facts, facts')
    BY <1>6 DEF chk_for_prov_multi_diff_group_ids, ProvisionalPreferred, Retracts, Provisional
  <2> QED  BY <1>6, <2>1, RetractionPreserves DEF chk_for_prov_multi_diff_group_ids
<1>7. CASE UNCHANGED vars
  BY <1>7 DEF vars, IInv, TypeOK, NoneLost, SinglesFound, ProvisionalOnlyToLonger
<1> QED  BY <1>1, <1>2, <1>3, <1>4, <1>5, <1>6, <1>7 DEF Next

-----------------------------------------------------------------------------
\* Typing of the choice for any sets of groups.
THEOREM TypeCorrect == Spec => []TypeOK
<1>1. IInv => TypeOK
  BY DEF IInv
<1> QED  BY InitHolds, StepHolds, <1>1, PTL DEF Spec

\* Whatever the order of the rules, the ids of every group found stay in a group.
THEOREM GroupsKept == Spec => []NoneLost
<1>1. IInv => NoneLost
  BY DEF IInv
<1> QED  BY InitHolds, StepHolds, <1>1, PTL DEF Spec

\* A provisional group gives way to a longer or a provisional one only, or to a
\* single word of another dictionary.
THEOREM ProvisionalKept == Spec => []ProvisionalOnlyToLonger
<1>1. IInv => ProvisionalOnlyToLonger
  BY DEF IInv
<1> QED  BY InitHolds, StepHolds, <1>1, PTL DEF Spec

LEMMA MngInit == Init => MngInv
<1> SUFFICES ASSUME Init PROVE MngInv
  OBVIOUS
<1>1. \A g \in found : g \in Groups
  BY FoundAssumption DEF Init
<1>2. \A g \in found : Within(g, g) /\ g.mng \in Seq(Vocabulary)
  BY <1>1 DEF Groups, Shapes, Within
<1> QED  BY <1>2 DEF Init, MngInv, Worded, OwnMeanings

LEMMA MngStep == IInv /\ MngInv /\ [Next]_vars => MngInv'
<1> SUFFICES ASSUME IInv, MngInv, [Next]_vars PROVE MngInv'
  OBVIOUS
<1>1. ASSUME facts' \subseteq facts, found' = found
      PROVE  MngInv'
  BY <1>1 DEF MngInv, Worded, OwnMeanings
<1>2. CASE combine_two_groups_with_same_id
  <2>1. PICK g \in facts, h \in facts :
           Meet(g, h) /\ facts' = (facts \ {g, h}) \cup {Joined(g, h)}
    BY <1>2 DEF combine_two_groups_with_same_id
  <2> DEFINE both == Joined(g, h)
  <2>2. found' = found /\ both.mng = JoinedMng(g.mng, h.mng)
    BY <1>2 DEF combine_two_groups_with_same_id, Joined
  <2>3. /\ both.mng \in Seq(Vocabulary)
        /\ \A i \in 1 .. Len(both.mng) : \/ \E j \in 1 .. Len(g.mng) : g.mng[j] = both.mng[i]
                                         \/ \E j \in 1 .. Len(h.mng) : h.mng[j] = both.mng[i]
    <3>1. PICK s \in Seq(Vocabulary), t \in Seq(Vocabulary) : s = g.mng /\ t = h.mng
      BY DEF MngInv, Worded
    <3>2. PICK u : u = JoinedMng(s, t)
      OBVIOUS
    <3>3. /\ u \in Seq(Vocabulary)
          /\ \A i \in 1 .. Len(u) : \/ \E j \in 1 .. Len(s) : s[j] = u[i]
                                    \/ \E j \in 1 .. Len(t) : t[j] = u[i]
      BY <3>2, JoinedWords
    <3>4. u = both.mng
      BY <2>2, <3>1, <3>2
    <3> HIDE DEF both
    <3> QED  BY <3>1, <3>3, <3>4
  <2>4. /\ IsGroup(g) /\ IsGroup(h) /\ IsGroup(both)
        /\ Within(g, both) /\ Within(h, both)
    BY <2>1, JoinSpans DEF IInv, TypeOK, Spans
  <2> HIDE DEF both
  <2>5. ASSUME NEW i \in 1 .. Len(both.mng)
        PROVE  \E f \in found : Within(f, both) /\ \E j \in 1 .. Len(f.mng) : f.mng[j] = both.mng[i]
    <3>1. PICK k \in {g, h} : \E j \in 1 .. Len(k.mng) : k.mng[j] = both.mng[i]
      BY <2>3
    <3>2. k \in facts /\ IsGroup(k) /\ Within(k, both)
      BY <2>4, <3>1
    <3>3. PICK f \in found : Within(f, k) /\ \E j \in 1 .. Len(f.mng) : f.mng[j] = both.mng[i]
      BY <3>1, <3>2 DEF MngInv, OwnMeanings
    <3>4. Within(f, both)
      BY <2>4, <3>2, <3>3 DEF Within, IsGroup, IInv, TypeOK
    <3> QED  BY <3>3, <3>4
  <2>6. Worded'
    BY <2>1, <2>2, <2>3 DEF both, MngInv, Worded
  <2>7. OwnMeanings'
    <3>1. \A f \in facts' : f \in facts \/ f = both
      BY <2>1 DEF both
    <3> QED  BY <2>2, <2>5, <3>1 DEF MngInv, OwnMeanings
  <2> QED  BY <2>6, <2>7 DEF MngInv
<1>3. CASE ~ combine_two_groups_with_same_id
  BY <1>1, <1>3 DEF Next, vars, load_domain_multi_word_file, chk_for_best_match_in_multi_word,
     chk_for_best_match_in_domain, chk_for_prov_multi_same_group_ids,
     chk_for_prov_multi_diff_group_ids
<1> QED  BY <1>2, <1>3

\* However often a group was joined, its meaning is made of meanings of groups
\* found within its ids (combine_two_groups_with_same_id).
THEOREM MeaningsOwn == Spec => []OwnMeanings
<1>1. MngInv => OwnMeanings
  BY DEF MngInv
<1> QED  BY InitHolds, StepHolds, MngInit, MngStep, <1>1, PTL DEF Spec
=============================================================================
