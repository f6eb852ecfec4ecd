----------------------- MODULE ExpressionAutomatonProofs -----------------------
(***************************************************************************)
(* Proofs about ExpressionAutomaton: any alphabet, any dictionary, any     *)
(* texts cut into any chunks.                                              *)
(***************************************************************************)
EXTENDS ExpressionAutomaton, NaturalsInduction, WellFoundedInduction,
        SequenceTheorems, TLAPS

\* A node's name less its last character is a node's name.
PrefixClosed == \A n \in Seq(Char), c \in Char : Append(n, c) \in nodes => n \in nodes

Phases == /\ phase \in {"closed", "search"} => m = Root /\ pending = {}
          /\ phase = "open" => read = << >> /\ found = {} /\ current = Root
          /\ phase = "union" => read = << >> /\ found = {} /\ current = Root
          /\ IsSuffix(m, node)
          /\ << >> \notin dictionary

Failures == phase # "open" =>
    \A n \in nodes \ {Root} :
        /\ IsSuffix(failure[n], n) /\ failure[n] # n
        /\ \A t \in nodes : IsSuffix(t, n) /\ t # n => Len(t) <= Len(failure[n])

\* What is in the lists, and what already is while they are being joined: of the
\* node at hand the patterns no shorter than the failure reached.
Lists == /\ \A n \in nodes : /\ \A p \in matched[n] : IsSuffix(p, n)
                             /\ n \in dictionary => n \in matched[n]
                             /\ n \in final <=> matched[n] # {}
         /\ phase # "open" =>
               \A n \in nodes \ pending : \A p \in dictionary :
                   IsSuffix(p, n) /\ (n = node => Len(p) >= Len(m)) => p \in matched[n]

IInv == TypeOK /\ PrefixClosed /\ Phases /\ Failures /\ Lists /\ LongestNode /\ FoundExact
-----------------------------------------------------------------------------
(* Suffixes. *)

LEMMA LeastNatural ==
    ASSUME NEW T, T \subseteq Nat, T # {}
    PROVE  \E x \in T : \A y \in T : x <= y
<1>1. IsWellFoundedOn(OpToRel(<, Nat), Nat)
  BY NatLessThanWellFounded
<1>2. PICK x \in T : \A y \in T : ~ (<<y, x>> \in OpToRel(<, Nat))
  BY <1>1, WFMin
<1>3. \A y \in T : ~ (y < x)
  BY <1>2 DEF OpToRel
<1> QED
  BY <1>3

LEMMA SuffixLength ==
    ASSUME NEW u \in Seq(Char), NEW s \in Seq(Char), IsSuffix(u, s)
    PROVE  Len(u) <= Len(s)
BY DEF IsSuffix, Matching!EndsAt

LEMMA SuffixSelf ==
    ASSUME NEW s \in Seq(Char)
    PROVE  IsSuffix(s, s) /\ IsSuffix(Root, s)
BY DEF IsSuffix, Matching!EndsAt, Root

LEMMA SuffixTransitive ==
    ASSUME NEW u \in Seq(Char), NEW v \in Seq(Char), NEW s \in Seq(Char),
           IsSuffix(u, v), IsSuffix(v, s)
    PROVE  IsSuffix(u, s)
<1>1. \A i \in 1..Len(u) : /\ u[i] = v[Len(v) - Len(u) + i]
                           /\ Len(v) - Len(u) + i \in 1..Len(v)
  BY DEF IsSuffix, Matching!EndsAt
<1>2. \A j \in 1..Len(v) : v[j] = s[Len(s) - Len(v) + j]
  BY DEF IsSuffix, Matching!EndsAt
<1>3. \A i \in 1..Len(u) : u[i] = s[Len(s) - Len(u) + i]
  <2> TAKE i \in 1..Len(u)
  <2>1. u[i] = s[Len(s) - Len(v) + (Len(v) - Len(u) + i)]
    BY <1>1, <1>2
  <2>2. Len(s) - Len(v) + (Len(v) - Len(u) + i) = Len(s) - Len(u) + i
    OBVIOUS
  <2> QED
    BY <2>1, <2>2
<1> QED
  BY <1>3 DEF IsSuffix, Matching!EndsAt

LEMMA SuffixNested ==
    ASSUME NEW u \in Seq(Char), NEW v \in Seq(Char), NEW s \in Seq(Char),
           IsSuffix(u, s), IsSuffix(v, s), Len(u) <= Len(v)
    PROVE  IsSuffix(u, v)
<1>1. \A i \in 1..Len(u) : u[i] = s[Len(s) - Len(u) + i]
  BY DEF IsSuffix, Matching!EndsAt
<1>2. \A j \in 1..Len(v) : v[j] = s[Len(s) - Len(v) + j]
  BY DEF IsSuffix, Matching!EndsAt
<1>3. \A i \in 1..Len(u) : u[i] = v[Len(v) - Len(u) + i]
  <2> TAKE i \in 1..Len(u)
  <2>1. v[Len(v) - Len(u) + i] = s[Len(s) - Len(v) + (Len(v) - Len(u) + i)]
    BY <1>2
  <2>2. Len(s) - Len(v) + (Len(v) - Len(u) + i) = Len(s) - Len(u) + i
    OBVIOUS
  <2> QED
    BY <1>1, <2>1, <2>2
<1> QED
  BY <1>3 DEF IsSuffix, Matching!EndsAt

\* Two suffixes of one sequence that are equally long are equal: why the lists
\* lose nothing when patterns are told apart by their lengths.
LEMMA SuffixByLength ==
    ASSUME NEW u \in Seq(Char), NEW v \in Seq(Char), NEW s \in Seq(Char),
           IsSuffix(u, s), IsSuffix(v, s), Len(u) = Len(v)
    PROVE  u = v
<1>1. \A i \in 1..Len(u) : u[i] = v[i]
  BY DEF IsSuffix, Matching!EndsAt
<1> QED
  BY <1>1

LEMMA PrefixElements ==
    ASSUME NEW u \in Seq(Char), NEW k \in 0..Len(u)
    PROVE  /\ SubSeq(u, 1, k) \in Seq(Char) /\ Len(SubSeq(u, 1, k)) = k
           /\ \A i \in 1..k : SubSeq(u, 1, k)[i] = u[i]
<1>1. Len(u) \in Nat /\ k \in Int /\ k >= 0 /\ 1 \in Int /\ k - 1 + 1 = k
  OBVIOUS
<1>2. \A i \in 1..k : u[i] \in Char
  OBVIOUS
<1>3. /\ SubSeq(u, 1, k) \in Seq(Char)
      /\ Len(SubSeq(u, 1, k)) = IF 1 <= k THEN k - 1 + 1 ELSE 0
      /\ \A i \in 1..k - 1 + 1 : SubSeq(u, 1, k)[i] = u[1 + i - 1]
  BY <1>1, <1>2, SubSeqProperties
<1> QED
  BY <1>1, <1>3

LEMMA SuffixAppend ==
    ASSUME NEW u \in Seq(Char), NEW s \in Seq(Char), NEW c \in Char
    PROVE  /\ IsSuffix(u, s) => IsSuffix(Append(u, c), Append(s, c))
           /\ u # Root /\ IsSuffix(u, Append(s, c)) =>
                 \E v \in Seq(Char) : u = Append(v, c) /\ IsSuffix(v, s)
<1>1. ASSUME IsSuffix(u, s)
      PROVE  IsSuffix(Append(u, c), Append(s, c))
  BY <1>1 DEF IsSuffix, Matching!EndsAt
<1>2. ASSUME u # Root, IsSuffix(u, Append(s, c))
      PROVE  \E v \in Seq(Char) : u = Append(v, c) /\ IsSuffix(v, s)
  <2>1. Len(u) \in Nat \ {0}
    BY <1>2 DEF Root
  <2>2. PICK v \in Seq(Char) : /\ v = SubSeq(u, 1, Len(u) - 1) /\ Len(v) = Len(u) - 1
                               /\ \A i \in 1..Len(u) - 1 : v[i] = u[i]
    <3>1. Len(u) - 1 \in 0..Len(u)
      BY <2>1
    <3> QED
      BY <3>1, PrefixElements
  <2>3. /\ Len(Append(s, c)) = Len(s) + 1 /\ Append(s, c)[Len(s) + 1] = c
        /\ \A i \in 1..Len(s) : Append(s, c)[i] = s[i]
    BY AppendProperties
  <2>4. /\ Len(u) <= Len(s) + 1
        /\ \A i \in 1..Len(u) : u[i] = Append(s, c)[Len(s) + 1 - Len(u) + i]
    BY <1>2, <2>3 DEF IsSuffix, Matching!EndsAt
  <2>5. u[Len(u)] = c
    BY <2>1, <2>3, <2>4
  <2>6. u = Append(v, c)
    <3>1. /\ Append(v, c) \in Seq(Char) /\ Len(Append(v, c)) = Len(u)
          /\ Append(v, c)[Len(u)] = c
          /\ \A i \in 1..Len(u) - 1 : Append(v, c)[i] = v[i]
      BY <2>1, <2>2, AppendProperties
    <3>2. \A i \in 1..Len(u) : Append(v, c)[i] = u[i]
      BY <2>1, <2>2, <2>5, <3>1
    <3> QED
      BY <3>1, <3>2, SeqEqual
  <2>7. \A i \in 1..Len(v) : v[i] = s[Len(s) - Len(v) + i]
    <3> TAKE i \in 1..Len(v)
    <3>0. Len(s) \in Nat /\ Len(v) = Len(u) - 1 /\ i \in 1..Len(u) - 1 /\ Len(u) <= Len(s) + 1
      BY <2>2, <2>4
    <3>1. Len(s) + 1 - Len(u) + i \in 1..Len(s) /\ Len(s) + 1 - Len(u) + i = Len(s) - Len(v) + i
      BY <2>1, <3>0
    <3>2. v[i] = u[i] /\ u[i] = Append(s, c)[Len(s) + 1 - Len(u) + i]
      BY <2>1, <2>2, <2>4
    <3> QED
      BY <2>3, <3>1, <3>2
  <2>8. IsSuffix(v, s)
    <3>1. Len(s) \in Nat /\ Len(v) \in Nat /\ Len(v) <= Len(s)
      BY <2>1, <2>2, <2>4
    <3>2. Len(s) \in Len(v)..Len(s)
      BY <3>1
    <3> QED
      BY <2>7, <3>2, Zenon DEF IsSuffix, Matching!EndsAt
  <2> QED
    BY <2>2, <2>6, <2>8
<1> QED
  BY <1>1, <1>2

LEMMA LongestExists ==
    ASSUME TypeOK, NEW n \in nodes \ {Root}
    PROVE  /\ LongestSuffix(n) \in nodes
           /\ IsSuffix(LongestSuffix(n), n) /\ LongestSuffix(n) # n
           /\ \A t \in nodes : IsSuffix(t, n) /\ t # n => Len(t) <= Len(LongestSuffix(n))
<1> DEFINE Cut == {i \in Nat : \E s \in nodes : IsSuffix(s, n) /\ s # n /\ i = Len(n) - Len(s)}
<1>0. n \in Seq(Char) /\ nodes \subseteq Seq(Char) /\ Root \in nodes
  BY DEF TypeOK
<1>1. Len(n) \in Cut
  <2>1. IsSuffix(Root, n) /\ Root # n /\ Len(n) = Len(n) - Len(Root) /\ Len(n) \in Nat
    BY <1>0, SuffixSelf DEF Root
  <2> QED
    BY <1>0, <2>1
<1>2. PICK i \in Cut : \A j \in Cut : i <= j
  BY <1>1, LeastNatural
<1>3. PICK s \in nodes : IsSuffix(s, n) /\ s # n /\ i = Len(n) - Len(s)
  BY <1>2
<1>4. ASSUME NEW t \in nodes, IsSuffix(t, n), t # n
      PROVE  Len(t) <= Len(s)
  <2>1. Len(n) - Len(t) \in Cut
    <3>1. Len(t) \in Nat /\ Len(n) \in Nat /\ Len(t) <= Len(n)
      BY <1>0, <1>4, SuffixLength
    <3>2. Len(n) - Len(t) \in Nat
      BY <3>1
    <3>3. \E x \in nodes : IsSuffix(x, n) /\ x # n /\ Len(n) - Len(t) = Len(n) - Len(x)
      BY <1>4
    <3> QED
      BY <3>2, <3>3
  <2>2. Len(n) \in Nat /\ Len(s) \in Nat /\ Len(t) \in Nat
    BY <1>0
  <2>3. i <= Len(n) - Len(t)
    BY <1>2, <2>1
  <2> HIDE DEF Cut
  <2> QED
    BY <1>3, <2>2, <2>3
<1>5. \E x \in nodes : /\ IsSuffix(x, n) /\ x # n
                       /\ \A t \in nodes : IsSuffix(t, n) /\ t # n => Len(t) <= Len(x)
  BY <1>3, <1>4
<1> QED
  BY <1>5 DEF LongestSuffix
-----------------------------------------------------------------------------
(* Types. *)

LEMMA PrefixFacts ==
    ASSUME NEW p \in Seq(Char)
    PROVE  /\ Prefixes(p) \subseteq Seq(Char) /\ p \in Prefixes(p) /\ Root \in Prefixes(p)
           /\ \A n \in Seq(Char), c \in Char :
                 Append(n, c) \in Prefixes(p) => n \in Prefixes(p)
<1>1. Len(p) \in Nat /\ 0 \in 0..Len(p) /\ Len(p) \in 0..Len(p)
  OBVIOUS
<1>2. p = SubSeq(p, 1, Len(p)) /\ Root = SubSeq(p, 1, 0)
  BY <1>1, SubSeqFull, SubSeqEmpty DEF Root
<1>3. ASSUME NEW n \in Seq(Char), NEW c \in Char, NEW k \in 0..Len(p),
             Append(n, c) = SubSeq(p, 1, k)
      PROVE  n \in Prefixes(p)
  <2>1. Len(SubSeq(p, 1, k)) = k /\ \A i \in 1..k : SubSeq(p, 1, k)[i] = p[i]
    BY PrefixElements
  <2>2. Len(Append(n, c)) = Len(n) + 1 /\ \A i \in 1..Len(n) : Append(n, c)[i] = n[i]
    BY AppendProperties
  <2>3. Len(n) + 1 = k /\ \A i \in 1..Len(n) : n[i] = p[i]
    BY <1>3, <2>1, <2>2
  <2>4. Len(n) \in 0..Len(p)
    BY <1>1, <2>3
  <2>5. /\ SubSeq(p, 1, Len(n)) \in Seq(Char) /\ Len(SubSeq(p, 1, Len(n))) = Len(n)
        /\ \A i \in 1..Len(n) : SubSeq(p, 1, Len(n))[i] = p[i]
    BY <2>4, PrefixElements
  <2>6. n = SubSeq(p, 1, Len(n))
    BY <2>3, <2>5, SeqEqual
  <2> QED
    BY <2>4, <2>6 DEF Prefixes
<1>4. Prefixes(p) \subseteq Seq(Char)
  BY PrefixElements DEF Prefixes
<1>5. p \in Prefixes(p) /\ Root \in Prefixes(p)
  BY <1>1, <1>2 DEF Prefixes
<1>6. \A n \in Seq(Char), c \in Char : Append(n, c) \in Prefixes(p) => n \in Prefixes(p)
  BY <1>3 DEF Prefixes
<1> QED
  BY <1>4, <1>5, <1>6

LEMMA RegisteredFacts ==
    ASSUME NEW list, NEW new
    PROVE  list \subseteq Registered(list, new) /\ Registered(list, new) \subseteq list \cup new
BY DEF Registered

LEMMA TypeStep == TypeOK /\ [Next]_vars => TypeOK'
<1> SUFFICES ASSUME TypeOK, [Next]_vars
             PROVE  TypeOK'
  OBVIOUS
<1>1. ASSUME NEW p \in Entries, Add(p)
      PROVE  TypeOK'
  <2>1. p \in Seq(Char) /\ Prefixes(p) \subseteq Seq(Char) /\ p \in Prefixes(p)
    BY EntriesAssumption, PrefixFacts
  <2> DEFINE all == nodes \cup Prefixes(p)
             own == [n \in all |-> IF n \in nodes THEN matched[n] ELSE {}]
  <2>2. own \in [all -> SUBSET dictionary] /\ p \in all
    BY <2>1 DEF TypeOK
  <2>3. nodes' = all /\ phase = "open" /\ UNCHANGED <<phase, failure, union, search, read, found>>
    BY <1>1 DEF Add
  <2>4. /\ matched' \in [all -> SUBSET dictionary'] /\ dictionary' \subseteq all
        /\ final' \subseteq all
    <3>1. CASE p \in final
      BY <1>1, <2>2, <3>1 DEF Add, TypeOK
    <3>2. CASE p \notin final
      <4>1. /\ matched' = [own EXCEPT ![p] = Registered(own[p], {p})]
            /\ dictionary' = dictionary \cup {p} /\ final' = final \cup {p}
        BY <1>1, <3>2 DEF Add
      <4>2. Registered(own[p], {p}) \in SUBSET (dictionary \cup {p})
        BY <2>2, RegisteredFacts
      <4> QED
        BY <2>2, <4>1, <4>2 DEF TypeOK
    <3> QED
      BY <3>1, <3>2
  <2> QED
    BY <2>1, <2>3, <2>4 DEF TypeOK, union, search, Position
<1>2. CASE SetFailures
  <2>1. \A n \in nodes \ {Root} : LongestSuffix(n) \in nodes
    BY LongestExists
  <2> QED
    BY <1>2, <2>1 DEF SetFailures, TypeOK, trie, search, Position
<1>3. CASE UnionNode
  BY <1>3 DEF UnionNode, TypeOK, trie, search, Position
<1>4. CASE UnionClimb
  <2>1. failure[m] \in nodes
    BY <1>4 DEF UnionClimb, TypeOK
  <2>2. Registered(matched[node], matched[failure[m]]) \in SUBSET dictionary
    BY <2>1, RegisteredFacts DEF TypeOK
  <2>3. matched' \in [nodes -> SUBSET dictionary]
    BY <1>4, <2>2 DEF UnionClimb, TypeOK
  <2>4. final' \subseteq nodes
    BY <1>4 DEF UnionClimb, TypeOK
  <2> QED
    BY <1>4, <2>1, <2>3, <2>4 DEF UnionClimb, TypeOK, search, Position
<1>5. CASE Close
  BY <1>5 DEF Close, TypeOK, trie, union, search, Position
<1>6. ASSUME NEW chunk \in Chunks, NEW keep \in BOOLEAN, Search(chunk, keep)
      PROVE  TypeOK'
  <2>1. chunk \in Seq(Char)
    BY ChunksAssumption
  <2>2. CASE keep
    BY <1>6, <2>1, <2>2 DEF Search, TypeOK, trie, union, Position
  <2>3. CASE ~ keep
    BY <1>6, <2>1, <2>3 DEF Search, TypeOK, trie, union, Position
  <2> QED
    BY <2>2, <2>3
<1>7. CASE Advance
  <2>1. text[position + 1] \in Char /\ position + 1 \in 0..Len(text)
    BY <1>7 DEF Advance, TypeOK
  <2> QED
    BY <1>7, <2>1 DEF Advance, TypeOK, trie, union, Position
<1>8. CASE Fall
  <2>1. failure[current] \in nodes
    BY <1>8 DEF Fall, TypeOK
  <2> QED
    BY <1>8, <2>1 DEF Fall, TypeOK, trie, union, Position
<1>9. CASE Skip
  <2>1. text[position + 1] \in Char /\ position + 1 \in 0..Len(text)
    BY <1>9 DEF Skip, TypeOK
  <2> QED
    BY <1>9, <2>1 DEF Skip, TypeOK, trie, union, Position
<1>10. CASE Return
  BY <1>10 DEF Return, TypeOK, trie, union, Position
<1>11. CASE UNCHANGED vars
  BY <1>11 DEF vars, trie, union, search, TypeOK, Position
<1> QED
  BY <1>1, <1>2, <1>3, <1>4, <1>5, <1>6, <1>7, <1>8, <1>9, <1>10, <1>11 DEF Next
-----------------------------------------------------------------------------
(* The invariant of one step. *)

Others == Phases /\ Failures /\ Lists /\ LongestNode /\ FoundExact

\* Nothing has been read: nothing can have been found, and the root is the longest node.
LEMMA NothingRead ==
    ASSUME NEW N, N \subseteq Seq(Char)
    PROVE  /\ IsSuffix(Root, << >>)
           /\ \A n \in N : ~ (IsSuffix(n, << >>) /\ Len(n) > Len(Root))
           /\ \A dict : Matching!Occurrences(dict, << >>) = {}
<1>1. << >> \in Seq(Char) /\ Len(<< >>) = 0
  OBVIOUS
<1>2. ASSUME NEW n \in N, IsSuffix(n, << >>)
      PROVE  ~ (Len(n) > Len(Root))
  <2>1. n \in Seq(Char) /\ Len(n) \in Nat
    BY <1>2
  <2>2. Len(n) <= Len(<< >>)
    BY <1>1, <1>2, <2>1, SuffixLength, Zenon
  <2> QED
    BY <1>1, <2>1, <2>2 DEF Root
<1>3. IsSuffix(Root, << >>)
  BY <1>1, SuffixSelf
<1>4. \A dict : Matching!Occurrences(dict, << >>) = {}
  <2>1. 1..Len(<< >>) = {}
    BY <1>1
  <2> QED
    BY <2>1 DEF Matching!Occurrences
<1> QED
  BY <1>2, <1>3, <1>4

LEMMA InitInv == Init => IInv
<1> SUFFICES ASSUME Init
             PROVE  IInv
  OBVIOUS
<1>1. TypeOK
  BY DEF Init, TypeOK, Root, Position
<1>2. PrefixClosed
  <2> SUFFICES ASSUME NEW n \in Seq(Char), NEW c \in Char, Append(n, c) = Root
               PROVE  FALSE
    BY DEF PrefixClosed, Init
  <2>1. Append(n, c) # << >>
    BY AppendProperties
  <2> QED
    BY <2>1 DEF Root
<1>3. Phases
  <2>1. Root \in Seq(Char)
    BY DEF Root
  <2>2. IsSuffix(Root, Root)
    BY <2>1, SuffixSelf
  <2>3. IsSuffix(m, node) /\ << >> \notin dictionary /\ phase = "open"
    BY <2>2 DEF Init
  <2>4. read = << >> /\ found = {} /\ current = Root
    BY DEF Init
  <2> QED
    BY <2>3, <2>4 DEF Phases
<1>4. Failures /\ Lists
  BY DEF Failures, Lists, Init
<1>5. LongestNode /\ FoundExact
  <2>1. phase = "open" /\ read = << >> /\ found = {} /\ dictionary = {}
    BY DEF Init
  <2>2. Matching!Occurrences(dictionary, read) = {}
    BY <2>1 DEF Matching!Occurrences
  <2> QED
    BY <2>1, <2>2 DEF FoundExact, LongestNode
<1> QED
  BY <1>1, <1>2, <1>3, <1>4, <1>5 DEF IInv

LEMMA PrefixStep == TypeOK /\ PrefixClosed /\ [Next]_vars => PrefixClosed'
<1> SUFFICES ASSUME TypeOK, PrefixClosed, [Next]_vars
             PROVE  PrefixClosed'
  OBVIOUS
<1>1. ASSUME NEW p \in Entries, Add(p)
      PROVE  PrefixClosed'
  <2>1. p \in Seq(Char)
    BY EntriesAssumption
  <2>2. nodes' = nodes \cup Prefixes(p)
    BY <1>1 DEF Add
  <2> QED
    BY <2>1, <2>2, PrefixFacts DEF PrefixClosed
<1>2. CASE UNCHANGED nodes
  BY <1>2 DEF PrefixClosed
<1> QED
  BY <1>1, <1>2 DEF Next, SetFailures, UnionNode, UnionClimb, Close, Search, Advance,
                    Fall, Skip, Return, vars, trie

LEMMA AddStep ==
    ASSUME IInv, TypeOK', NEW p \in Entries, Add(p)
    PROVE  Others'
<1>1. /\ phase = "open" /\ phase' = "open" /\ p \in Seq(Char) /\ p # << >>
      /\ UNCHANGED <<failure, union, search, read, found>>
      /\ read = << >> /\ found = {} /\ current = Root
  BY EntriesAssumption DEF Add, IInv, Phases
<1>2. Failures' /\ LongestNode' /\ FoundExact'
  <2>1. Failures'
    BY <1>1 DEF Failures
  <2>2. read' = << >> /\ current' = Root /\ found' = {}
    BY <1>1 DEF search
  <2>3. Matching!Occurrences(dictionary, read)' = {}
    BY <2>2 DEF Matching!Occurrences
  <2>4. LongestNode'
    BY <1>1 DEF LongestNode
  <2> QED
    BY <2>1, <2>2, <2>3, <2>4 DEF FoundExact
<1>3. Phases'
  BY <1>1 DEF Phases, IInv, Add, union, search
<1>4. Lists'
  <2> DEFINE all == nodes \cup Prefixes(p)
             own == [n \in all |-> IF n \in nodes THEN matched[n] ELSE {}]
  <2>1. /\ nodes' = all /\ nodes \subseteq Seq(Char) /\ all \subseteq Seq(Char) /\ p \in all
        /\ final \subseteq nodes /\ dictionary \subseteq nodes
    BY <1>1, PrefixFacts DEF Add, IInv, TypeOK
  <2>2. \A n \in all : /\ \A q \in own[n] : IsSuffix(q, n)
                       /\ n \in dictionary => n \in own[n]
                       /\ n \in final <=> own[n] # {}
    BY <2>1 DEF IInv, Lists
  <2>3. CASE p \in final
    <3>1. matched' = own /\ final' = final /\ dictionary' = dictionary
      BY <2>3 DEF Add
    <3> QED
      BY <1>1, <2>1, <2>2, <3>1 DEF Lists
  <2>4. CASE p \notin final
    <3>1. /\ matched' = [own EXCEPT ![p] = Registered(own[p], {p})]
          /\ dictionary' = dictionary \cup {p} /\ final' = final \cup {p}
      BY <2>4 DEF Add
    <3>2. own[p] = {}
      BY <2>1, <2>2, <2>4
    <3>3. Registered(own[p], {p}) = {p}
      BY <3>2 DEF Registered
    <3>4. matched'[p] = {p} /\ \A n \in all \ {p} : matched'[n] = own[n]
      BY <2>1, <3>1, <3>3
    <3>5. IsSuffix(p, p)
      BY <1>1, SuffixSelf
    <3> HIDE DEF own, all
    <3>6. \A n \in all : /\ \A q \in matched'[n] : IsSuffix(q, n)
                         /\ n \in dictionary' => n \in matched'[n]
                         /\ n \in final' <=> matched'[n] # {}
      BY <2>2, <3>1, <3>4, <3>5
    <3> QED
      BY <1>1, <2>1, <3>6 DEF Lists
  <2> QED
    BY <2>3, <2>4
<1> QED
  BY <1>2, <1>3, <1>4 DEF Others

LEMMA SetFailuresStep ==
    ASSUME IInv, TypeOK', SetFailures
    PROVE  Others'
<1>1. /\ phase = "open" /\ phase' = "union" /\ pending' = nodes
      /\ UNCHANGED <<trie, node, m, search, read, found>>
      /\ failure' = [n \in nodes \ {Root} |-> LongestSuffix(n)]
  BY DEF SetFailures
<1>2. Failures'
  BY <1>1, LongestExists DEF Failures, IInv, trie
<1>3. Phases' /\ Lists'
  BY <1>1 DEF IInv, Phases, Lists, trie, search
<1>4. LongestNode' /\ FoundExact'
  BY <1>1 DEF IInv, LongestNode, FoundExact, trie, search
<1> QED
  BY <1>2, <1>3, <1>4 DEF Others

LEMMA UnionNodeStep ==
    ASSUME IInv, TypeOK', UnionNode
    PROVE  Others'
<1>1. /\ phase = "union" /\ phase' = "union" /\ m = Root
      /\ UNCHANGED <<trie, failure, search, read, found>>
      /\ node' \in pending /\ m' = node' /\ pending' = pending \ {node'}
  BY DEF UnionNode
<1>2. Failures' /\ LongestNode' /\ FoundExact'
  BY <1>1 DEF IInv, Failures, LongestNode, FoundExact, trie, search
<1>3. node' \in Seq(Char) /\ nodes \subseteq Seq(Char) /\ dictionary \subseteq nodes
  BY <1>1 DEF IInv, TypeOK
<1>4. Phases'
  BY <1>1, <1>3, SuffixSelf DEF IInv, Phases, trie, search
<1>5. ASSUME NEW n \in nodes \ pending', NEW p \in dictionary, IsSuffix(p, n),
             n = node' => Len(p) >= Len(m')
      PROVE  p \in matched[n]
  <2>1. CASE n = node'
    <3>1. p = n
      BY <1>1, <1>3, <1>5, <2>1, SuffixLength, SuffixByLength, SuffixSelf
    <3> QED
      BY <3>1 DEF IInv, Lists
  <2>2. CASE n # node'
    <3>1. n \notin pending /\ Len(p) >= Len(m)
      BY <1>1, <1>3, <1>5, <2>2 DEF Root
    <3> QED
      BY <1>1, <1>5, <3>1 DEF IInv, Lists
  <2> QED
    BY <2>1, <2>2
<1>6. Lists'
  BY <1>1, <1>5 DEF IInv, Lists, trie
<1> QED
  BY <1>2, <1>4, <1>6 DEF Others

LEMMA UnionClimbStep ==
    ASSUME IInv, TypeOK', UnionClimb
    PROVE  Others'
<1> DEFINE f == failure[m]
           list == Registered(matched[node], matched[f])
<1>1. /\ phase = "union" /\ phase' = "union" /\ m # Root /\ m' = f
      /\ matched' = [matched EXCEPT ![node] = list]
      /\ final' = IF f \in final THEN final \cup {node} ELSE final
      /\ UNCHANGED <<nodes, dictionary, failure, pending, node, search, read, found>>
  BY DEF UnionClimb
<1>2. /\ node \in nodes /\ m \in nodes \ {Root} /\ f \in nodes /\ nodes \subseteq Seq(Char)
      /\ dictionary \subseteq nodes /\ matched \in [nodes -> SUBSET dictionary]
  BY <1>1 DEF IInv, TypeOK
<1>3. /\ IsSuffix(f, m) /\ IsSuffix(m, node)
      /\ \A t \in nodes : IsSuffix(t, m) /\ t # m => Len(t) <= Len(f)
  BY <1>1, <1>2 DEF IInv, Failures, Phases
<1>4. IsSuffix(f, node)
  BY <1>2, <1>3, SuffixTransitive
<1>5. Failures' /\ LongestNode' /\ FoundExact'
  BY <1>1 DEF IInv, Failures, LongestNode, FoundExact, search
<1>6. Phases'
  BY <1>1, <1>4 DEF IInv, Phases, search
<1>7. matched'[node] = list /\ \A n \in nodes \ {node} : matched'[n] = matched[n]
  BY <1>1, <1>2
<1>8. \A p \in list : IsSuffix(p, node)
  <2>1. \A p \in matched[node] : IsSuffix(p, node)
    BY <1>2 DEF IInv, Lists
  <2>2. \A p \in matched[f] : p \in nodes /\ IsSuffix(p, f)
    BY <1>2 DEF IInv, Lists
  <2>3. \A p \in matched[f] : IsSuffix(p, node)
    BY <1>2, <1>4, <2>2, SuffixTransitive
  <2> QED
    BY <2>1, <2>3, RegisteredFacts
<1>9. matched[node] \subseteq list
  BY RegisteredFacts
<1>10. node \in final' <=> list # {}
  <2>1. node \in final <=> matched[node] # {}
    BY <1>2 DEF IInv, Lists
  <2>2. f \in final <=> matched[f] # {}
    BY <1>2 DEF IInv, Lists
  <2>3. list # {} <=> matched[node] # {} \/ matched[f] # {}
    BY DEF Registered
  <2> QED
    BY <1>1, <2>1, <2>2, <2>3
<1>11. ASSUME NEW p \in dictionary, node \notin pending, IsSuffix(p, node), Len(p) >= Len(f)
       PROVE  p \in list
  <2>1. CASE Len(p) >= Len(m)
    BY <1>1, <1>2, <1>9, <1>11, <2>1 DEF IInv, Lists
  <2>2. CASE Len(p) < Len(m)
    <3>1. IsSuffix(p, m) /\ p # m
      BY <1>2, <1>3, <1>11, <2>2, SuffixNested
    <3>2. Len(p) = Len(f)
      BY <1>2, <1>3, <1>11, <3>1
    <3>3. p = f
      BY <1>2, <1>4, <1>11, <3>2, SuffixByLength
    <3>4. p \in matched[f]
      BY <1>2, <3>3 DEF IInv, Lists
    <3>5. \A q \in matched[node] : Len(q) = Len(p) => q = p
      <4> TAKE q \in matched[node]
      <4>1. q \in Seq(Char) /\ IsSuffix(q, node)
        BY <1>2 DEF IInv, Lists
      <4> QED
        BY <1>2, <1>11, <4>1, SuffixByLength
    <3> QED
      BY <3>4, <3>5 DEF Registered
  <2> QED
    BY <1>2, <2>1, <2>2
<1> HIDE DEF list, f
<1>12. Lists'
  <2>1. \A n \in nodes : /\ \A p \in matched'[n] : IsSuffix(p, n)
                         /\ n \in dictionary => n \in matched'[n]
                         /\ n \in final' <=> matched'[n] # {}
    <3> TAKE n \in nodes
    <3>1. CASE n = node
      BY <1>7, <1>8, <1>9, <1>10, <3>1 DEF IInv, Lists
    <3>2. CASE n # node
      BY <1>1, <1>7, <3>2 DEF IInv, Lists
    <3> QED
      BY <3>1, <3>2
  <2>2. \A n \in nodes \ pending : \A p \in dictionary :
            IsSuffix(p, n) /\ (n = node => Len(p) >= Len(f)) => p \in matched'[n]
    <3> TAKE n \in nodes \ pending
    <3> TAKE p \in dictionary
    <3>1. CASE n = node
      BY <1>7, <1>11, <3>1
    <3>2. CASE n # node
      BY <1>1, <1>7, <3>2 DEF IInv, Lists
    <3> QED
      BY <3>1, <3>2
  <2> QED
    BY <1>1, <2>1, <2>2 DEF Lists
<1> QED
  BY <1>5, <1>6, <1>12 DEF Others

LEMMA CloseStep ==
    ASSUME IInv, TypeOK', Close
    PROVE  Others'
<1>1. /\ phase = "union" /\ phase' = "closed" /\ m = Root /\ pending = {}
      /\ UNCHANGED <<trie, failure, union, search, read, found>>
      /\ read = << >> /\ current = Root /\ found = {}
  BY DEF Close, IInv, Phases
<1>2. Phases' /\ Failures' /\ Lists'
  BY <1>1 DEF IInv, Phases, Failures, Lists, trie, union, search
<1>3. LongestNode' /\ FoundExact'
  <2>1. nodes' \subseteq Seq(Char) /\ read' = << >> /\ current' = Root /\ found' = {}
    BY <1>1 DEF search, TypeOK
  <2> QED
    BY <2>1, NothingRead DEF LongestNode, FoundExact
<1> QED
  BY <1>2, <1>3 DEF Others

LEMMA SearchStep ==
    ASSUME IInv, TypeOK', NEW chunk \in Chunks, NEW keep \in BOOLEAN, Search(chunk, keep)
    PROVE  Others'
<1>1. /\ phase = "closed" /\ phase' = "search"
      /\ UNCHANGED <<trie, failure, union>>
  BY DEF Search
<1>2. Phases' /\ Failures' /\ Lists'
  BY <1>1 DEF IInv, Phases, Failures, Lists, trie, union
<1>3. LongestNode' /\ FoundExact'
  <2>1. CASE keep
    <3>1. UNCHANGED <<current, read, found>>
      BY <2>1 DEF Search
    <3> QED
      BY <1>1, <3>1 DEF IInv, LongestNode, FoundExact, trie
  <2>2. CASE ~ keep
    <3>1. nodes' \subseteq Seq(Char) /\ read' = << >> /\ current' = Root /\ found' = {}
      BY <2>2 DEF Search, TypeOK
    <3> QED
      BY <3>1, NothingRead DEF LongestNode, FoundExact
  <2> QED
    BY <2>1, <2>2
<1> QED
  BY <1>2, <1>3 DEF Others

\* In a search the lists are complete and every longer node is passed over.
LEMMA Searching ==
    ASSUME IInv, phase \in {"closed", "search"}
    PROVE  /\ ListsComplete
           /\ \A n \in nodes : matched[n] = {p \in dictionary : IsSuffix(p, n)}
           /\ \A n \in nodes : n \in final <=> matched[n] # {}
<1>1. m = Root /\ pending = {} /\ phase # "open"
  BY DEF IInv, Phases
<1>2. \A n \in nodes : \A p \in dictionary : IsSuffix(p, n) => p \in matched[n]
  <2> TAKE n \in nodes
  <2> TAKE p \in dictionary
  <2>1. Len(p) \in Nat /\ Len(p) >= Len(m)
    BY <1>1 DEF IInv, TypeOK, Root
  <2> QED
    BY <1>1, <2>1 DEF IInv, Lists
<1>3. \A n \in nodes : \A p \in matched[n] : p \in dictionary /\ IsSuffix(p, n)
  BY DEF IInv, TypeOK, Lists
<1>4. \A n \in nodes : matched[n] = {p \in dictionary : IsSuffix(p, n)}
  BY <1>2, <1>3
<1>5. \A n \in nodes : n \in final <=> matched[n] # {}
  BY DEF IInv, Lists
<1> QED
  BY <1>4, <1>5 DEF ListsComplete

\* What reading one more character c adds to the occurrences.
LEMMA OneMore ==
    ASSUME NEW s \in Seq(Char), NEW c \in Char, NEW dict, dict \subseteq Seq(Char)
    PROVE  Matching!Occurrences(dict, Append(s, c))
             = Matching!Occurrences(dict, s)
                 \cup {o \in {Len(Append(s, c))} \X dict : IsSuffix(o[2], Append(s, c))}
<1> DEFINE t == Append(s, c)
<1>1. /\ t \in Seq(Char) /\ Len(t) = Len(s) + 1 /\ \A i \in 1..Len(s) : t[i] = s[i]
      /\ Len(s) \in Nat
  BY AppendProperties
<1> HIDE DEF t
<1>2. ASSUME NEW k \in 1..Len(s), NEW p \in dict
      PROVE  Matching!EndsAt(p, t, k) <=> Matching!EndsAt(p, s, k)
  <2>1. k \in Len(p)..Len(t) <=> k \in Len(p)..Len(s)
    BY <1>1
  <2>2. ASSUME k \in Len(p)..Len(s), NEW i \in 1..Len(p)
        PROVE  t[k - Len(p) + i] = s[k - Len(p) + i]
    <3>1. Len(p) \in Nat
      OBVIOUS
    <3>2. k - Len(p) + i \in 1..Len(s)
      BY <1>1, <2>2, <3>1
    <3> QED
      BY <1>1, <3>2
  <2> QED
    BY <2>1, <2>2 DEF Matching!EndsAt
<1>3. 1..Len(t) = (1..Len(s)) \cup {Len(t)} /\ Len(t) \notin 1..Len(s)
  BY <1>1
<1>4. ASSUME NEW k \in 1..Len(t), NEW p \in dict
      PROVE  /\ <<k, p>> \in Matching!Occurrences(dict, t) <=> Matching!EndsAt(p, t, k)
             /\ <<k, p>> \in Matching!Occurrences(dict, s)
                  <=> k \in 1..Len(s) /\ Matching!EndsAt(p, s, k)
             /\ <<k, p>> \in {o \in {Len(t)} \X dict : IsSuffix(o[2], t)}
                  <=> k = Len(t) /\ Matching!EndsAt(p, t, k)
  BY DEF Matching!Occurrences, IsSuffix
<1>5. \A k \in 1..Len(t), p \in dict :
          <<k, p>> \in Matching!Occurrences(dict, t) <=>
             <<k, p>> \in Matching!Occurrences(dict, s)
                            \cup {o \in {Len(t)} \X dict : IsSuffix(o[2], t)}
  BY <1>2, <1>3, <1>4
<1>6. /\ Matching!Occurrences(dict, t) \subseteq (1..Len(t)) \X dict
      /\ Matching!Occurrences(dict, s) \subseteq (1..Len(t)) \X dict
      /\ {o \in {Len(t)} \X dict : IsSuffix(o[2], t)} \subseteq (1..Len(t)) \X dict
  BY <1>3 DEF Matching!Occurrences
<1>7. Matching!Occurrences(dict, t) = Matching!Occurrences(dict, s)
                 \cup {o \in {Len(t)} \X dict : IsSuffix(o[2], t)}
  BY <1>5, <1>6
<1> QED
  BY <1>7 DEF t

\* A node that the text ends with once c is read extends one that it ended with.
LEMMA NodeBefore ==
    ASSUME TypeOK, PrefixClosed, NEW c \in Char, NEW n \in nodes, n # Root,
           IsSuffix(n, Append(read, c))
    PROVE  \E v \in nodes : n = Append(v, c) /\ IsSuffix(v, read) /\ Len(n) = Len(v) + 1
<1>1. n \in Seq(Char) /\ read \in Seq(Char)
  BY DEF TypeOK
<1>2. PICK v \in Seq(Char) : n = Append(v, c) /\ IsSuffix(v, read)
  BY <1>1, SuffixAppend
<1>3. v \in nodes
  BY <1>2 DEF PrefixClosed
<1>4. Len(n) = Len(v) + 1
  BY <1>2, AppendProperties
<1> QED
  BY <1>2, <1>3, <1>4

\* What a character that is read does: the node is again the longest that the
\* text ends with, and what is found is what ends there.
LEMMA AdvanceReads ==
    ASSUME IInv, TypeOK', Advance
    PROVE  /\ text[position + 1] \in Char /\ read' = Append(read, text[position + 1])
           /\ IsSuffix(current', read')
           /\ \A n \in nodes : IsSuffix(n, read') => Len(n) <= Len(current')
           /\ found' = found \cup
                 {o \in {Len(read')} \X dictionary : IsSuffix(o[2], read')}
<1> DEFINE c == text[position + 1]
<1>1. /\ phase = "search" /\ Following \in nodes /\ current' = Following
      /\ read' = Append(read, c) /\ position' = position + 1 /\ position < Len(text)
      /\ UNCHANGED <<phase, base, dictionary, nodes>>
      /\ found' = found \cup
           (IF Following \in final THEN {position' + base} \X matched[Following] ELSE {})
  BY DEF Advance, trie
<1>2. /\ c \in Char /\ nodes \subseteq Seq(Char) /\ read \in Seq(Char) /\ current \in nodes
      /\ dictionary \subseteq nodes
  BY <1>1 DEF IInv, TypeOK
<1>3. Following = Append(current, c) /\ Len(Following) = Len(current) + 1
  BY <1>2, AppendProperties DEF Following
<1> HIDE DEF c
<1>4. read' \in Seq(Char) /\ IsSuffix(Following, read')
  BY <1>1, <1>2, <1>3, SuffixAppend, AppendProperties DEF IInv, LongestNode
<1>5. ASSUME NEW n \in nodes, IsSuffix(n, read')
      PROVE  Len(n) <= Len(Following)
  <2>1. CASE n = Root
    BY <1>1, <1>2, <2>1 DEF Root
  <2>2. CASE n # Root
    <3>1. PICK v \in nodes : n = Append(v, c) /\ IsSuffix(v, read) /\ Len(n) = Len(v) + 1
      BY <1>1, <1>2, <1>5, <2>2, NodeBefore DEF IInv
    <3>2. ~ (Len(v) > Len(current))
      BY <1>1, <3>1 DEF IInv, LongestNode, c
    <3> QED
      BY <1>2, <1>3, <3>1, <3>2
  <2> QED
    BY <2>1, <2>2
<1>6. \A p \in dictionary : IsSuffix(p, read') <=> IsSuffix(p, Following)
  BY <1>1, <1>2, <1>4, <1>5, SuffixNested, SuffixTransitive
<1>7. position' + base = Len(read')
  BY <1>1 DEF TypeOK, Position
<1>8. /\ matched[Following] = {p \in dictionary : IsSuffix(p, Following)}
      /\ Following \in final <=> matched[Following] # {}
  BY <1>1, Searching
<1>9. matched[Following] = {p \in dictionary : IsSuffix(p, read')}
  BY <1>6, <1>8
<1>10. found' = found \cup ({Len(read')} \X {p \in dictionary : IsSuffix(p, read')})
  BY <1>1, <1>7, <1>8, <1>9
<1>11. {Len(read')} \X {p \in dictionary : IsSuffix(p, read')}
         = {o \in {Len(read')} \X dictionary : IsSuffix(o[2], read')}
  OBVIOUS
<1> QED
  BY <1>1, <1>2, <1>4, <1>5, <1>10, <1>11 DEF c

LEMMA SkipReads ==
    ASSUME IInv, TypeOK', Skip
    PROVE  /\ text[position + 1] \in Char /\ read' = Append(read, text[position + 1])
           /\ IsSuffix(current', read')
           /\ \A n \in nodes : IsSuffix(n, read') => Len(n) <= Len(current')
           /\ found' = found \cup
                 {o \in {Len(read')} \X dictionary : IsSuffix(o[2], read')}
<1> DEFINE c == text[position + 1]
<1>1. /\ phase = "search" /\ current = Root /\ Following \notin nodes
      /\ read' = Append(read, c) /\ position < Len(text)
      /\ UNCHANGED <<current, dictionary, nodes, found>>
  BY DEF Skip, trie
<1>2. /\ c \in Char /\ nodes \subseteq Seq(Char) /\ read \in Seq(Char)
      /\ dictionary \subseteq nodes /\ << >> \notin dictionary
  BY <1>1 DEF IInv, TypeOK, Phases
<1>3. Following = Append(Root, c)
  BY <1>1 DEF Following
<1> HIDE DEF c
<1>4. read' \in Seq(Char)
  BY <1>1, <1>2, AppendProperties
<1>5. IsSuffix(current', read')
  BY <1>1, <1>4, SuffixSelf
<1>6. ASSUME NEW n \in nodes, IsSuffix(n, read'), n # Root
      PROVE  FALSE
  <2>1. PICK v \in nodes : n = Append(v, c) /\ IsSuffix(v, read)
    BY <1>1, <1>2, <1>6, NodeBefore DEF IInv
  <2>2. v # Root
    BY <1>1, <1>3, <1>6, <2>1
  <2>3. Len(v) > Len(current)
    BY <1>1, <1>2, <2>2 DEF Root
  <2> QED
    BY <1>1, <1>6, <2>1, <2>3 DEF IInv, LongestNode, c
<1>7. {o \in {Len(read')} \X dictionary : IsSuffix(o[2], read')} = {}
  BY <1>2, <1>6 DEF Root
<1>8. \A n \in nodes : IsSuffix(n, read') => Len(n) <= Len(current')
  BY <1>1, <1>6 DEF Root
<1> QED
  BY <1>1, <1>2, <1>5, <1>7, <1>8 DEF c

LEMMA ReadStep ==
    ASSUME IInv, TypeOK', Advance \/ Skip
    PROVE  Others'
<1>1. /\ UNCHANGED <<phase, trie, failure, union>> /\ phase = "search"
  BY DEF Advance, Skip
<1>2. Phases' /\ Failures' /\ Lists'
  BY <1>1 DEF IInv, Phases, Failures, Lists, trie, union
<1>3. /\ text[position + 1] \in Char /\ read' = Append(read, text[position + 1])
      /\ IsSuffix(current', read')
      /\ \A n \in nodes : IsSuffix(n, read') => Len(n) <= Len(current')
      /\ found' = found \cup
           {o \in {Len(read')} \X dictionary : IsSuffix(o[2], read')}
  BY AdvanceReads, SkipReads
<1>4. nodes' = nodes /\ dictionary' = dictionary /\ nodes \subseteq Seq(Char)
      /\ current' \in nodes /\ dictionary \subseteq Seq(Char) /\ read \in Seq(Char)
  BY <1>1 DEF trie, IInv, TypeOK
<1>5. LongestNode'
  <2>1. \A n \in nodes' : ~ (IsSuffix(n, read') /\ Len(n) > Len(current'))
    BY <1>3, <1>4
  <2> QED
    BY <1>3, <2>1 DEF LongestNode
<1>6. FoundExact'
  <2>1. found = Matching!Occurrences(dictionary, read)
    BY DEF IInv, FoundExact
  <2>2. found' = Matching!Occurrences(dictionary, read')
    BY <1>3, <1>4, <2>1, OneMore
  <2> QED
    BY <1>4, <2>2 DEF FoundExact, Matching!Occurrences, Matching!EndsAt
<1> QED
  BY <1>2, <1>5, <1>6 DEF Others

LEMMA FallStep ==
    ASSUME IInv, TypeOK', Fall
    PROVE  Others'
<1>1. /\ phase = "search" /\ position < Len(text) /\ Following \notin nodes
      /\ current # Root /\ current' = failure[current]
      /\ UNCHANGED <<phase, trie, failure, union, base, text, position, read, found>>
  BY DEF Fall
<1>2. Phases' /\ Failures' /\ Lists' /\ FoundExact'
  BY <1>1 DEF IInv, Phases, Failures, Lists, FoundExact, trie, union
<1>3. /\ nodes \subseteq Seq(Char) /\ current \in nodes \ {Root} /\ failure[current] \in nodes
      /\ read \in Seq(Char)
  BY <1>1 DEF IInv, TypeOK
<1>4. /\ IsSuffix(failure[current], current)
      /\ \A t \in nodes : IsSuffix(t, current) /\ t # current
                            => Len(t) <= Len(failure[current])
  BY <1>1, <1>3 DEF IInv, Failures
<1>5. IsSuffix(current, read)
  BY <1>1 DEF IInv, LongestNode
<1>6. IsSuffix(current', read)
  BY <1>1, <1>3, <1>4, <1>5, SuffixTransitive
<1>7. ASSUME NEW n \in nodes, IsSuffix(n, read), Len(n) > Len(current')
      PROVE  Append(n, text[position + 1]) \notin nodes
  <2>1. CASE Len(n) > Len(current)
    BY <1>1, <1>7, <2>1 DEF IInv, LongestNode
  <2>2. CASE Len(n) <= Len(current)
    <3>1. IsSuffix(n, current)
      BY <1>3, <1>5, <1>7, <2>2, SuffixNested
    <3>2. n = current
      BY <1>1, <1>3, <1>4, <1>7, <3>1
    <3> QED
      BY <1>1, <3>2 DEF Following
  <2> QED
    BY <1>3, <2>1, <2>2
<1>8. LongestNode'
  BY <1>1, <1>6, <1>7 DEF LongestNode, trie
<1> QED
  BY <1>2, <1>8 DEF Others

LEMMA ReturnStep ==
    ASSUME IInv, TypeOK', Return
    PROVE  Others'
<1>1. /\ phase = "search" /\ phase' = "closed" /\ position = Len(text)
      /\ UNCHANGED <<trie, failure, union, current, text, position, read, found>>
  BY DEF Return
<1>2. Phases' /\ Failures' /\ Lists' /\ FoundExact'
  BY <1>1 DEF IInv, Phases, Failures, Lists, FoundExact, trie, union
<1>3. position \in Nat /\ Len(text) \in Nat
  BY DEF IInv, TypeOK
<1>4. \A n \in nodes : ~ (IsSuffix(n, read) /\ Len(n) > Len(current))
  BY <1>1, <1>3 DEF IInv, LongestNode
<1>5. LongestNode'
  BY <1>1, <1>4 DEF IInv, LongestNode, trie
<1> QED
  BY <1>2, <1>5 DEF Others

LEMMA InvStep == IInv /\ [Next]_vars => IInv'
<1> SUFFICES ASSUME IInv, [Next]_vars
             PROVE  IInv'
  OBVIOUS
<1>1. TypeOK' /\ PrefixClosed'
  BY TypeStep, PrefixStep DEF IInv
<1>2. CASE \E p \in Entries : Add(p)
  BY <1>1, <1>2, AddStep DEF IInv, Others
<1>3. CASE SetFailures \/ UnionNode \/ UnionClimb \/ Close
  BY <1>1, <1>3, SetFailuresStep, UnionNodeStep, UnionClimbStep, CloseStep DEF IInv, Others
<1>4. CASE \E chunk \in Chunks, keep \in BOOLEAN : Search(chunk, keep)
  BY <1>1, <1>4, SearchStep DEF IInv, Others
<1>5. CASE Advance \/ Skip \/ Fall \/ Return
  BY <1>1, <1>5, ReadStep, FallStep, ReturnStep DEF IInv, Others
<1>6. CASE UNCHANGED vars
  <2>1. Phases' /\ Failures' /\ Lists'
    BY <1>6 DEF IInv, Phases, Failures, Lists, vars, trie, union, search
  <2>2. LongestNode' /\ FoundExact'
    BY <1>6 DEF IInv, LongestNode, FoundExact, vars, trie, union, search
  <2> QED
    BY <1>1, <2>1, <2>2 DEF IInv
<1> QED
  BY <1>2, <1>3, <1>4, <1>5, <1>6 DEF Next
-----------------------------------------------------------------------------
(* The theorems. *)

THEOREM Invariance == Spec => []IInv
<1> QED
  BY InitInv, InvStep, PTL DEF Spec

\* The types hold in every reachable state.
THEOREM TypeCorrect == Spec => []TypeOK
<1>1. IInv => TypeOK
  BY DEF IInv
<1> QED
  BY <1>1, Invariance, PTL

\* For every dictionary: telling a node's patterns apart by their lengths alone, as
\* node_has_matchstr does, loses none of them.
THEOREM NoPatternLost == Spec => []ListsComplete
<1>1. IInv => ListsComplete
  BY Searching DEF ListsComplete
<1> QED
  BY <1>1, Invariance, PTL

\* For every text: the search is in the longest node that what it read ends with.
THEOREM InLongestNode == Spec => []LongestNode
<1>1. IInv => LongestNode
  BY DEF IInv
<1> QED
  BY <1>1, Invariance, PTL

\* For every dictionary and every text, in whatever chunks: what is found are the
\* occurrences, all and only.
THEOREM AllAndOnly == Spec => []FoundExact
<1>1. IInv => FoundExact
  BY DEF IInv
<1> QED
  BY <1>1, Invariance, PTL

\* The automaton implements the abstract search, for every alphabet and dictionary.
THEOREM Refinement == Spec => Implements
<1>1. Init => Matching!Init
  BY DEF Init, Matching!Init
<1>2. IInv /\ IInv' /\ [Next]_vars => [Matching!Next]_(Matching!vars)
  <2> SUFFICES ASSUME IInv, IInv', [Next]_vars
               PROVE  Matching!Next \/ UNCHANGED <<dictionary, read, found>>
    BY DEF Matching!vars
  <2>1. ASSUME NEW p \in Entries, Add(p)
        PROVE  Matching!Next \/ UNCHANGED <<dictionary, read, found>>
    <3>1. p # << >> /\ read = << >> /\ found = {} /\ UNCHANGED <<read, found>>
      BY <2>1, EntriesAssumption DEF Add, IInv, Phases
    <3>2. CASE p \in final
      BY <2>1, <3>1, <3>2 DEF Add
    <3>3. CASE p \notin final
      BY <2>1, <3>1, <3>3 DEF Add, Matching!Next, Matching!Learn
    <3> QED
      BY <3>2, <3>3
  <2>2. CASE SetFailures \/ UnionNode \/ UnionClimb \/ Close \/ Fall \/ Return
    BY <2>2 DEF SetFailures, UnionNode, UnionClimb, Close, Fall, Return, trie
  <2>3. ASSUME NEW chunk \in Chunks, NEW keep \in BOOLEAN, Search(chunk, keep)
        PROVE  Matching!Next \/ UNCHANGED <<dictionary, read, found>>
    <3>1. CASE keep
      BY <2>3, <3>1 DEF Search, trie
    <3>2. CASE ~ keep
      BY <2>3, <3>2 DEF Search, trie, Matching!Next, Matching!Restart
    <3> QED
      BY <3>1, <3>2
  <2>4. CASE Advance \/ Skip
    <3>1. /\ text[position + 1] \in Char /\ read' = Append(read, text[position + 1])
          /\ found' = found \cup
               {o \in {Len(read')} \X dictionary : IsSuffix(o[2], read')}
      BY <2>4, AdvanceReads, SkipReads DEF IInv
    <3>2. dictionary' = dictionary
      BY <2>4 DEF Advance, Skip, trie
    <3>3. Matching!Read(text[position + 1])
      BY <3>1, <3>2 DEF Matching!Read, IsSuffix
    <3> QED
      BY <3>1, <3>3 DEF Matching!Next
  <2>5. CASE UNCHANGED vars
    BY <2>5 DEF vars, trie
  <2> QED
    BY <2>1, <2>2, <2>3, <2>4, <2>5 DEF Next
<1> QED
  BY <1>1, <1>2, Invariance, PTL DEF Spec, Implements, Matching!Spec
================================================================================
