-------------------------- MODULE SentenceSplitProofs --------------------------
(***************************************************************************)
(* Proofs about the sentence splitter: of word.c by itself (WordGrouping), *)
(* of split_file.c by itself (BlockHandOut) and of the two one after the   *)
(* other.  Texts and sentences of any length, arrays of any size, any      *)
(* number of directories, any stream.                                      *)
(***************************************************************************)
EXTENDS SentenceSplit, FiniteSetTheorems, TLAPS

(* Part 1: word.c. *)

\* The words read but not yet in a directory are the last index - 1.
Start == pos - index

\* Typing, without what the slots and directories point to.
Types == /\ text \in Texts
         /\ pos \in 1..(Len(text) + 1)
         /\ index \in 1..MaxSlots
         /\ slot \in [Slots -> 0..Len(text)]
         /\ prev \in Sent
         /\ dirs \in Seq([name : Sent, words : Seq(1..Len(text))])
         /\ pc \in {"first", "reading", "done", "overrun"}

\* Nothing was read yet.
AtFirst == pc = "first" => pos = 1 /\ index = 1 /\ dirs = << >>

\* The slots below index hold the words of the current sentence, from its start.
Pending == pc \in {"reading", "overrun"} =>
    /\ index >= 2 /\ Start >= 0
    /\ \A i \in 1..(index - 1) : slot[i] = Start + i
    /\ \A p \in (Start + 1)..(pos - 1) : text[p] = prev
    /\ Start > 0 => text[Start] # prev
    /\ Division!Placed = Start

\* Directories have names of their own, of words before those still to be written.
Names == /\ NamesDistinct
         /\ \A k \in DOMAIN dirs : \E p \in 1..Len(text) :
                /\ text[p] = dirs[k].name
                /\ pc \in {"reading", "overrun"} => p <= Start

\* How the program can have ended.
Ends == /\ pc = "done" => Division!Placed = Len(text)
        /\ pc = "overrun" => index = MaxSlots /\ pos <= Len(text)

WordInv == Types /\ AtFirst /\ Pending /\ Names /\ Ends

\* What the arrays and the texts are.
LEMMA Bounds ==
    ASSUME Types
    PROVE  /\ MaxSlots \in Nat /\ MaxSlots >= 3
           /\ text \in Seq(Sent) /\ Len(text) \in Nat /\ Len(text) > 0
           /\ \A p \in 1..Len(text) : text[p] \in Sent
           /\ pos \in Nat /\ index \in Nat /\ 1 \in Slots
BY SlotAssumption, TextsAssumption DEF Types, Slots

\* A number that returns was never gone: the sentences of a text are contiguous.
LEMMA Contiguous ==
    ASSUME Types,
           NEW p \in 1..Len(text), NEW q \in 1..Len(text), NEW r \in 1..Len(text),
           p <= r, r <= q, text[p] = text[q]
    PROVE  text[r] = text[p]
<1>1. CASE p = r \/ r = q
  BY <1>1
<1>2. CASE p < r /\ r < q
  BY <1>2, TextsAssumption DEF Types
<1> QED
  BY <1>1, <1>2, Bounds

\* Appending a directory with words puts its last word last.
LEMMA AppendPlaced ==
    ASSUME NEW n, NEW w, w \in Seq(Int), Len(w) > 0,
           dirs \in Seq([name : Sent, words : Seq(1..Len(text))]),
           dirs' = Append(dirs, [name |-> n, words |-> w])
    PROVE  Division!Placed' = w[Len(w)]
<1>1. /\ Len(dirs') = Len(dirs) + 1
      /\ dirs'[Len(dirs) + 1] = [name |-> n, words |-> w]
      /\ dirs' # << >>
  OBVIOUS
<1> QED
  BY <1>1 DEF Division!Placed

\* The directory written has the words from the start of the sentence on.
LEMMA DirectoryWords ==
    ASSUME Types, Pending, pc = "reading"
    PROVE  /\ Directory = [name |-> prev,
                           words |-> [i \in 1..(index - 1) |-> Start + i]]
           /\ Directory.words \in Seq(1..Len(text))
           /\ Directory.words \in Seq(Int)
           /\ Len(Directory.words) = index - 1
           /\ Directory.words[index - 1] = pos - 1
           /\ Directory \in [name : Sent, words : Seq(1..Len(text))]
<1>1. \A i \in 1..(index - 1) : slot[i] = Start + i /\ Start + i \in 1..Len(text)
  BY Bounds DEF Types, Pending, Start
<1>2. [i \in 1..(index - 1) |-> slot[i]] = [i \in 1..(index - 1) |-> Start + i]
  BY <1>1
<1> DEFINE w == [i \in 1..(index - 1) |-> Start + i]
<1>3. index - 1 \in Nat /\ index - 1 >= 1
  BY Bounds DEF Pending
<1>4. w \in Seq(1..Len(text)) /\ w \in Seq(Int) /\ Len(w) = index - 1
  <2> DEFINE n == index - 1
  <2>1. w \in [1..n -> 1..Len(text)] /\ w \in [1..n -> Int]
    BY <1>1, Bounds
  <2>2. n \in Nat
    BY <1>3
  <2> HIDE DEF n, w
  <2>3. w \in Seq(1..Len(text)) /\ w \in Seq(Int) /\ Len(w) = n
    BY <2>1, <2>2
  <2> QED
    BY <2>3 DEF n, w
<1>5. w[index - 1] = pos - 1
  BY <1>3, Bounds DEF Start
<1> QED
  BY <1>2, <1>4, <1>5, prev \in Sent DEF Directory, Types

\* The sentence whose number prev holds has no directory yet.
LEMMA NewName ==
    ASSUME Types, Pending, Names, pc = "reading"
    PROVE  \A k \in DOMAIN dirs : dirs[k].name # prev
<1> SUFFICES ASSUME NEW k \in DOMAIN dirs, dirs[k].name = prev PROVE FALSE
  OBVIOUS
<1>1. PICK p \in 1..Len(text) : text[p] = prev /\ p <= Start
  BY DEF Names
<1>2. /\ Start \in 1..Len(text) /\ Start + 1 \in 1..Len(text)
      /\ text[Start + 1] = prev /\ text[Start] # prev
  BY <1>1, Bounds DEF Pending, Start, Types
<1>3. text[Start] = text[p]
  BY <1>1, <1>2, Contiguous
<1> QED
  BY <1>1, <1>2, <1>3

\* After the directory is appended the names are still distinct and behind.
LEMMA NamesAppend ==
    ASSUME Types, Pending, Names, pc = "reading",
           dirs' = Append(dirs, Directory), UNCHANGED text
    PROVE  /\ NamesDistinct'
           /\ \A k \in DOMAIN dirs' : \E p \in 1..Len(text) :
                 text[p] = dirs'[k].name /\ p <= pos - 1
<1>1. /\ \A k \in DOMAIN dirs : dirs'[k] = dirs[k]
      /\ dirs'[Len(dirs) + 1] = Directory
      /\ DOMAIN dirs' = DOMAIN dirs \cup {Len(dirs) + 1}
      /\ Len(dirs) + 1 \notin DOMAIN dirs
  <2>1. dirs \in Seq([name : Sent, words : Seq(1..Len(text))])
    BY DEF Types
  <2> QED
    BY <2>1
<1>2. Directory.name = prev
  BY DEF Directory
<1>3. NamesDistinct'
  BY <1>1, <1>2, NewName DEF Names, NamesDistinct
<1>4. /\ pos - 1 \in 1..Len(text) /\ text[pos - 1] = prev
      /\ Start <= pos - 1
  BY Bounds DEF Pending, Start, Types
<1>5. ASSUME NEW k \in DOMAIN dirs'
      PROVE  \E p \in 1..Len(text) : text[p] = dirs'[k].name /\ p <= pos - 1
  <2>1. CASE k \in DOMAIN dirs
    <3>1. PICK p \in 1..Len(text) : text[p] = dirs[k].name /\ p <= Start
      BY <2>1 DEF Names
    <3> QED
      BY <1>1, <1>4, <2>1, <3>1, Bounds DEF Start
  <2>2. CASE k = Len(dirs) + 1
    BY <1>1, <1>2, <1>4, <2>2, Bounds
  <2> QED
    BY <1>1, <2>1, <2>2
<1> QED
  BY <1>3, <1>5
-----------------------------------------------------------------------------
LEMMA WordInitInv == WordInit => WordInv
<1> SUFFICES ASSUME WordInit PROVE WordInv
  OBVIOUS
<1>1. text \in Seq(Sent) /\ Len(text) \in Nat /\ Len(text) > 0
  BY TextsAssumption DEF WordInit
<1>2. Types
  BY <1>1, SlotAssumption DEF WordInit, Types, Slots
<1> QED
  BY <1>2 DEF WordInit, WordInv, AtFirst, Pending, Names, NamesDistinct, Ends

LEMMA FirstInv == WordInv /\ ReadFirst => WordInv'
<1> SUFFICES ASSUME WordInv, ReadFirst PROVE WordInv'
  OBVIOUS
<1>0. Types /\ AtFirst /\ Names /\ pc = "first"
  BY DEF WordInv, ReadFirst
<1>1. Types'
  BY <1>0, Bounds DEF Types, AtFirst, Slots, ReadFirst
<1>2. Pending'
  BY <1>0, Bounds DEF Pending, Start, AtFirst, Types, Division!Placed, Slots, ReadFirst
<1>3. AtFirst' /\ Names' /\ Ends'
  BY <1>0, Bounds DEF AtFirst, Names, NamesDistinct, Ends, Types, ReadFirst
<1> QED
  BY <1>1, <1>2, <1>3 DEF WordInv

LEMMA SameInv == WordInv /\ ReadSame => WordInv'
<1> SUFFICES ASSUME WordInv, ReadSame PROVE WordInv'
  OBVIOUS
<1>0. Types /\ Pending /\ Names /\ pc = "reading"
  BY DEF WordInv, ReadSame
<1>1. Types'
  BY <1>0, Bounds DEF Types, Slots, AtEnd, Full, ReadSame
<1>2. Start' = Start
  BY <1>0, Bounds DEF Start, ReadSame
<1>3. Pending'
  <2>1. Division!Placed' = Division!Placed
    BY DEF ReadSame, Division!Placed
  <2>2. index >= 2 /\ index \in Slots
    BY <1>0 DEF Pending, ReadSame, Full
  <2>3. Start \in Int /\ pos = Start + index
    BY <1>0, Bounds DEF Start
  <2>4. \A i \in 1..(index' - 1) : slot'[i] = Start + i
    <3>1. /\ slot' = [slot EXCEPT ![index] = pos] /\ index' = index + 1
          /\ \A i \in 1..(index - 1) : slot[i] = Start + i
      BY <1>0 DEF Pending, ReadSame
    <3>2. slot \in [Slots -> 0..Len(text)] /\ index \in Int
      BY <1>0, Bounds DEF Types
    <3> QED
      BY <2>2, <2>3, <3>1, <3>2, Bounds DEF Slots
  <2>5. \A p \in (Start + 1)..(pos' - 1) : text[p] = prev
    <3>1. /\ pos' = pos + 1 /\ text[pos] = prev
          /\ \A p \in (Start + 1)..(pos - 1) : text[p] = prev
      BY <1>0 DEF Pending, ReadSame
    <3>2. pos \in Int
      BY <1>0, Bounds
    <3>3. (Start + 1)..(pos' - 1) \subseteq ((Start + 1)..(pos - 1)) \cup {pos}
      BY <2>3, <3>1, <3>2
    <3> QED
      BY <3>1, <3>3
  <2> QED
    BY <1>0, <1>2, <2>1, <2>2, <2>4, <2>5, Bounds DEF Pending, ReadSame
<1>4. AtFirst' /\ Names' /\ Ends'
  BY <1>0, <1>2 DEF AtFirst, Names, NamesDistinct, Ends, ReadSame
<1> QED
  BY <1>1, <1>3, <1>4 DEF WordInv

LEMMA NextInv == WordInv /\ ReadNext => WordInv'
<1> SUFFICES ASSUME WordInv, ReadNext PROVE WordInv'
  OBVIOUS
<1>1. Types /\ Pending /\ Names /\ pc = "reading"
  BY DEF WordInv, ReadNext
<1>2. /\ Directory = [name |-> prev, words |-> Directory.words]
      /\ Directory.words \in Seq(Int)
      /\ Len(Directory.words) = index - 1
      /\ Directory.words[index - 1] = pos - 1
      /\ Directory \in [name : Sent, words : Seq(1..Len(text))]
  BY <1>1, DirectoryWords DEF Directory
<1>3. /\ pos \in 1..Len(text) /\ index \in Slots /\ index >= 2
      /\ Start >= 0 /\ Start \in Int
  BY <1>1, Bounds DEF Pending, ReadNext, AtEnd, Full, Types, Start
<1>4. Types'
  <2>1. dirs' \in Seq([name : Sent, words : Seq(1..Len(text))])
    BY <1>1, <1>2 DEF Types, ReadNext
  <2>2. slot' \in [Slots -> 0..Len(text)]
    <3>1. pos \in 0..Len(text) /\ 1 \in Slots
      BY <1>1, <1>3, Bounds
    <3> QED
      BY <1>1, <1>3, <3>1 DEF Types, ReadNext
  <2> QED
    BY <1>1, <1>3, <2>1, <2>2, Bounds DEF Types, ReadNext
<1>5. Division!Placed' = pos - 1
  <2>1. dirs' = Append(dirs, [name |-> prev, words |-> Directory.words])
    BY <1>2 DEF ReadNext
  <2>2. Len(Directory.words) > 0
    BY <1>2, <1>3 DEF Slots
  <2>3. dirs \in Seq([name : Sent, words : Seq(1..Len(text))])
    BY <1>1 DEF Types
  <2>4. Division!Placed' = Directory.words[Len(Directory.words)]
    BY <1>2, <2>1, <2>2, <2>3, AppendPlaced
  <2> QED
    BY <1>2, <2>4
<1>6. Start' = pos - 1
  BY <1>3 DEF Start, ReadNext
<1>7. Pending'
  <2>1. \A i \in 1..(index' - 1) : slot'[i] = Start' + i
    BY <1>1, <1>3, <1>6, Bounds DEF Types, Slots, ReadNext
  <2>2. text[pos - 1] = prev /\ prev' # prev
    BY <1>1, <1>3, Bounds DEF Pending, Start, ReadNext
  <2>3. \A p \in (Start' + 1)..(pos' - 1) : text'[p] = prev'
    BY <1>3, <1>6 DEF ReadNext
  <2> QED
    BY <1>3, <1>5, <1>6, <2>1, <2>2, <2>3 DEF Pending, ReadNext
<1>8. Names'
  <2>1. /\ NamesDistinct'
        /\ \A k \in DOMAIN dirs' : \E p \in 1..Len(text) :
              text[p] = dirs'[k].name /\ p <= pos - 1
    BY <1>1, NamesAppend DEF ReadNext
  <2> QED
    BY <1>6, <2>1 DEF Names, ReadNext
<1>9. AtFirst' /\ Ends'
  BY <1>1 DEF AtFirst, Ends, ReadNext
<1> QED
  BY <1>4, <1>7, <1>8, <1>9 DEF WordInv

LEMMA ReadEndInv == WordInv /\ ReadEnd => WordInv'
<1> SUFFICES ASSUME WordInv, ReadEnd PROVE WordInv'
  OBVIOUS
<1>1. Types /\ Pending /\ Names /\ pc = "reading"
  BY DEF WordInv, ReadEnd
<1>2. /\ Directory = [name |-> prev, words |-> Directory.words]
      /\ Directory.words \in Seq(Int)
      /\ Len(Directory.words) = index - 1
      /\ Directory.words[index - 1] = pos - 1
      /\ Directory \in [name : Sent, words : Seq(1..Len(text))]
  BY <1>1, DirectoryWords DEF Directory
<1>3. Types'
  <2>1. dirs' \in Seq([name : Sent, words : Seq(1..Len(text))])
    BY <1>1, <1>2 DEF Types, ReadEnd
  <2> QED
    BY <1>1, <2>1, Bounds DEF Types, ReadEnd
<1>4. Division!Placed' = Len(text)
  <2>1. dirs' = Append(dirs, [name |-> prev, words |-> Directory.words])
    BY <1>2 DEF ReadEnd
  <2>2. Len(Directory.words) > 0
    BY <1>1, <1>2, Bounds DEF Pending
  <2>3. dirs \in Seq([name : Sent, words : Seq(1..Len(text))])
    BY <1>1 DEF Types
  <2>4. Division!Placed' = Directory.words[Len(Directory.words)]
    BY <1>2, <2>1, <2>2, <2>3, AppendPlaced
  <2>5. pos - 1 = Len(text)
    BY <1>1, Bounds DEF ReadEnd, AtEnd, Types
  <2> QED
    BY <1>2, <2>4, <2>5
<1>5. Names'
  <2>1. /\ NamesDistinct'
        /\ \A k \in DOMAIN dirs' : \E p \in 1..Len(text) :
              text[p] = dirs'[k].name /\ p <= pos - 1
    BY <1>1, NamesAppend DEF ReadEnd
  <2> QED
    BY <2>1 DEF Names, ReadEnd
<1>6. AtFirst' /\ Pending' /\ Ends'
  BY <1>1, <1>4 DEF AtFirst, Pending, Ends, ReadEnd
<1> QED
  BY <1>3, <1>5, <1>6 DEF WordInv

LEMMA OverrunInv == WordInv /\ Overrun => WordInv'
<1> SUFFICES ASSUME WordInv, Overrun PROVE WordInv'
  OBVIOUS
<1>0. Types /\ Pending /\ Names /\ pc = "reading"
  BY DEF WordInv, Overrun
<1>1. Types' /\ AtFirst' /\ Names'
  BY <1>0 DEF Types, AtFirst, Names, NamesDistinct, Start, Overrun
<1>2. Pending'
  BY <1>0 DEF Pending, Start, Division!Placed, Overrun
<1>3. Ends'
  BY <1>0, Bounds DEF Ends, Full, AtEnd, Slots, Types, Overrun
<1> QED
  BY <1>1, <1>2, <1>3 DEF WordInv

LEMMA WordStepInv == WordInv /\ [WordNext]_wordVars => WordInv'
<1> SUFFICES ASSUME WordInv, [WordNext]_wordVars PROVE WordInv'
  OBVIOUS
<1>1. CASE WordNext
  BY <1>1, FirstInv, SameInv, NextInv, ReadEndInv, OverrunInv DEF WordNext
<1>2. CASE UNCHANGED wordVars
  BY <1>2 DEF wordVars, WordInv, Types, AtFirst, Pending, Names, NamesDistinct, Ends, Start,
              Division!Placed
<1> QED
  BY <1>1, <1>2

\* The invariant holds of every text.
THEOREM WordInductive == WordSpec => []WordInv
<1> QED
  BY WordInitInv, WordStepInv, PTL DEF WordSpec
-----------------------------------------------------------------------------
(* The properties. *)

\* Typing: nothing is read or written past the arrays by a step of the program
\* other than the last of an overrun.
THEOREM WordTypeCorrect == WordSpec => []WordTypeOK
<1>1. WordInv => WordTypeOK
  BY DEF WordInv, Types, WordTypeOK
<1> QED
  BY <1>1, WordInductive, PTL

\* Every sentence has one directory.
THEOREM OneDirectoryEach == WordSpec => []NamesDistinct
<1>1. WordInv => NamesDistinct
  BY DEF WordInv, Names
<1> QED
  BY <1>1, WordInductive, PTL

\* No word is left out when the program ends.
THEOREM NoneLeftOut == WordSpec => []AllPlaced
<1>1. WordInv => AllPlaced
  BY DEF WordInv, Ends, AllPlaced
<1> QED
  BY <1>1, WordInductive, PTL

\* Only a sentence that fills the arrays can overrun them.
THEOREM OverrunNeedsLong == WordSpec => []OverrunOnlyLong
<1>1. WordInv => OverrunOnlyLong
  <2> SUFFICES ASSUME WordInv, pc = "overrun" PROVE OverrunOnlyLong
    BY DEF OverrunOnlyLong
  <2>1. index = MaxSlots /\ pos <= Len(text) /\ Types /\ Pending
    BY DEF WordInv, Ends
  <2>2. \A i \in (Start + 1)..(Start + 1 + MaxSlots - 2) : text[i] = prev
    BY <2>1, Bounds DEF Pending, Start
  <2>3. Start + 1 \in 1..Len(text) /\ Start + 1 + MaxSlots - 1 <= Len(text)
    BY <2>1, Bounds DEF Pending, Start
  <2>4. text[Start + 1] = prev
    BY <2>1, <2>2, Bounds DEF Pending, Start
  <2> QED
    BY <2>2, <2>3, <2>4 DEF OverrunOnlyLong
<1> QED
  BY <1>1, WordInductive, PTL

\* A step of the program is a step of the division, or none: a directory is
\* written for the next sentence, with all its words.
LEMMA StepDivides ==
    WordInv /\ [WordNext]_wordVars => [Division!WriteSentence]_<<text, dirs>>
<1> SUFFICES ASSUME WordInv, [WordNext]_wordVars PROVE [Division!WriteSentence]_<<text, dirs>>
  OBVIOUS
<1>1. ASSUME pc = "reading", dirs' = Append(dirs, Directory), UNCHANGED text,
             AtEnd \/ text[pos] # prev
      PROVE  Division!WriteSentence
  <2> DEFINE q == pos - 1
  <2>1. Types /\ Pending
    BY DEF WordInv
  <2>2. Division!Placed = Start /\ q \in (Start + 1)..Len(text) /\ q - Start = index - 1
    BY <1>1, <2>1, Bounds DEF Pending, Start, Types
  <2>3. \A i \in (Start + 1)..q : text[i] = prev
    BY <1>1, <2>1 DEF Pending
  <2>4. q < Len(text) => text[q + 1] # prev
    BY <1>1, <2>1, Bounds DEF AtEnd
  <2>5. text[Start + 1] = prev /\ text[q] = prev
    BY <2>1, <2>2, <2>3, Bounds DEF Start
  <2>6. Division!WholeSentence(Start + 1, q)
    BY <2>3, <2>4, <2>5 DEF Division!WholeSentence
  <2>7. Directory = [name |-> text[q], words |-> [i \in 1..(q - Start) |-> Start + i]]
    BY <1>1, <2>1, <2>2, <2>5, DirectoryWords
  <2> HIDE DEF q
  <2> QED
    BY <1>1, <2>2, <2>6, <2>7 DEF Division!WriteSentence
<1>2. CASE ReadNext
  BY <1>1, <1>2 DEF ReadNext
<1>3. CASE ReadEnd
  BY <1>1, <1>3 DEF ReadEnd
<1>4. CASE ReadFirst \/ ReadSame \/ Overrun \/ UNCHANGED wordVars
  BY <1>4 DEF ReadFirst, ReadSame, Overrun, wordVars
<1> QED
  BY <1>2, <1>3, <1>4 DEF WordNext

\* word.c divides the text into its sentences.
THEOREM Implements == WordSpec => ImplementsDivision
<1>1. WordInit => Division!Init
  BY DEF WordInit, Division!Init
<1> QED
  BY <1>1, WordInductive, StepDivides, PTL DEF WordSpec, ImplementsDivision, Division!Spec
-----------------------------------------------------------------------------
(* Part 2: split_file.c. *)

Distinct == \A k, l \in DOMAIN names : names[k] = names[l] => k = l

\* How many blocks are over when the line at "at" is read.
Over == IF copying THEN next - 2 ELSE next - 1

\* Lines that were read belong to a block whose directory was opened, lines that
\* were not to the one being copied or a later one.
Split == /\ \A p \in (1..Len(stream)) \ Separators :
               p < at => SeparatorsBefore(p) <= next - 2
         /\ at <= Len(stream) => SeparatorsBefore(at) = Over
         /\ \A p \in 1..Len(stream) : p >= at => SeparatorsBefore(p) >= Over

\* A directory has those lines of its block that were read, in order.
Contents == \A k \in DOMAIN names : k < next =>
                /\ Places(given[names[k]]) = {p \in Block(k) : p < at}
                /\ Increasing(given[names[k]])

\* A directory has nothing before its turn.
Untouched == \A k \in DOMAIN names : k >= next => given[names[k]] = << >>

DealInv == DealTypeOK /\ Distinct /\ Split /\ Contents /\ Untouched
-----------------------------------------------------------------------------
(* Counting, of separators here and of sentences in part 3. *)

\* How many members of S there are before n.
Before(S, n) == Cardinality({q \in 1..(n - 1) : q \in S})

LEMMA BeforeType ==
    ASSUME NEW S, NEW n \in Int
    PROVE  /\ IsFiniteSet({q \in 1..(n - 1) : q \in S})
           /\ Before(S, n) \in Nat
<1>1. IsFiniteSet(1..(n - 1))
  BY FS_Interval
<1>2. IsFiniteSet({q \in 1..(n - 1) : q \in S})
  BY <1>1, FS_Subset
<1> QED
  BY <1>2, FS_CardinalityType DEF Before

LEMMA BeforeOne == \A S : Before(S, 1) = 0
<1> TAKE S
<1>1. {q \in 1..(1 - 1) : q \in S} = {}
  OBVIOUS
<1> QED
  BY <1>1, FS_EmptySet DEF Before

LEMMA BeforeMonotonic ==
    ASSUME NEW S, NEW n \in Int, NEW m \in Int, n <= m
    PROVE  Before(S, n) <= Before(S, m)
<1>1. {q \in 1..(n - 1) : q \in S} \subseteq {q \in 1..(m - 1) : q \in S}
  OBVIOUS
<1> QED
  BY <1>1, BeforeType, FS_Subset DEF Before

LEMMA BeforeNext ==
    ASSUME NEW S, NEW n \in Nat \ {0}
    PROVE  Before(S, n + 1) = IF n \in S THEN Before(S, n) + 1 ELSE Before(S, n)
<1> DEFINE T(r) == {q \in 1..(r - 1) : q \in S}
<1>1. CASE n \in S
  <2>1. T(n + 1) = T(n) \cup {n} /\ n \notin T(n)
    BY <1>1
  <2>2. Cardinality(T(n) \cup {n}) = Cardinality(T(n)) + 1
    BY <2>1, BeforeType, FS_AddElement
  <2> QED
    BY <1>1, <2>1, <2>2 DEF Before
<1>2. CASE n \notin S
  <2>1. T(n + 1) = T(n)
    BY <1>2
  <2> QED
    BY <1>2, <2>1 DEF Before
<1> QED
  BY <1>1, <1>2

\* Only what is before counts.
LEMMA BeforeSame ==
    ASSUME NEW S, NEW T, NEW n \in Int,
           \A q \in 1..(n - 1) : q \in S <=> q \in T
    PROVE  Before(S, n) = Before(T, n)
<1>1. {q \in 1..(n - 1) : q \in S} = {q \in 1..(n - 1) : q \in T}
  OBVIOUS
<1> QED
  BY <1>1 DEF Before

LEMMA BeforeBound ==
    ASSUME NEW S, NEW n \in Nat \ {0}
    PROVE  /\ Before(S, n) <= n - 1
           /\ (\A q \in 1..(n - 1) : q \in S) => Before(S, n) = n - 1
<1>1. IsFiniteSet(1..(n - 1)) /\ Cardinality(1..(n - 1)) = n - 1
  BY FS_Interval
<1>2. Before(S, n) <= n - 1
  <2>1. {q \in 1..(n - 1) : q \in S} \subseteq 1..(n - 1)
    OBVIOUS
  <2> QED
    BY <1>1, <2>1, FS_Subset DEF Before
<1>3. ASSUME \A q \in 1..(n - 1) : q \in S
      PROVE  Before(S, n) = n - 1
  <2>1. {q \in 1..(n - 1) : q \in S} = 1..(n - 1)
    BY <1>3
  <2> QED
    BY <1>1, <2>1 DEF Before
<1> QED
  BY <1>2, <1>3

\* All but one.
LEMMA BeforeBut ==
    ASSUME NEW S, NEW n \in Nat \ {0}, NEW i \in 1..(n - 1),
           i \notin S, \A q \in 1..(n - 1) : q # i => q \in S
    PROVE  Before(S, n) = n - 2
<1> DEFINE all == 1..(n - 1)
           but == {q \in all : q \in S}
<1>1. but \subseteq all /\ i \in all /\ i \notin but /\ all = but \cup {i}
  OBVIOUS
<1>2. IsFiniteSet(all) /\ Cardinality(all) = n - 1
  BY FS_Interval
<1> HIDE DEF all, but
<1>3. Cardinality(but) \in Nat /\ Cardinality(all) = Cardinality(but) + 1
  BY <1>1, <1>2, FS_Subset, FS_AddElement, FS_CardinalityType
<1>4. Cardinality(but) = n - 2
  BY <1>2, <1>3
<1> QED
  BY <1>4 DEF Before, all, but

LEMMA SeparatorsCounted ==
    \A p \in Int : SeparatorsBefore(p) = Before(Separators, p)
BY DEF SeparatorsBefore, Before

LEMMA CountType ==
    ASSUME stream \in Seq(Line), NEW p \in 1..(Len(stream) + 1)
    PROVE  SeparatorsBefore(p) \in Nat
<1>1. p \in Int
  OBVIOUS
<1> QED
  BY <1>1, BeforeType, SeparatorsCounted

LEMMA CountMonotonic ==
    ASSUME stream \in Seq(Line),
           NEW p \in 1..(Len(stream) + 1), NEW r \in 1..(Len(stream) + 1), p <= r
    PROVE  SeparatorsBefore(p) <= SeparatorsBefore(r)
<1>1. p \in Int /\ r \in Int
  OBVIOUS
<1> QED
  BY <1>1, BeforeMonotonic, SeparatorsCounted

LEMMA CountNext ==
    ASSUME stream \in Seq(Line), NEW p \in 1..Len(stream)
    PROVE  SeparatorsBefore(p + 1) =
               IF p \in Separators THEN SeparatorsBefore(p) + 1 ELSE SeparatorsBefore(p)
<1>1. p \in Nat \ {0} /\ p \in Int /\ p + 1 \in Int
  OBVIOUS
<1> QED
  BY <1>1, BeforeNext, SeparatorsCounted

\* Only the stream decides what a block is.
LEMMA BlocksStay ==
    ASSUME UNCHANGED stream
    PROVE  /\ Separators' = Separators
           /\ \A p : SeparatorsBefore(p)' = SeparatorsBefore(p)
           /\ \A k : Block(k)' = Block(k)
BY DEF Separators, SeparatorsBefore, Block
-----------------------------------------------------------------------------
LEMMA DealInitInv == DealInit => DealInv
<1> SUFFICES ASSUME DealInit PROVE DealInv
  OBVIOUS
<1>1. stream \in Seq(Line) /\ Len(stream) \in Nat /\ names \in Seq(Name) /\ Len(names) \in Nat
  BY DEF DealInit
<1>2. DealTypeOK
  <2>1. given \in [Name -> Seq(1..Len(stream))]
    BY DEF DealInit
  <2>2. next \in 1..(Len(names) + 1) /\ at \in 1..(Len(stream) + 1)
    BY <1>1 DEF DealInit
  <2>3. copying \in BOOLEAN /\ ~copying
    BY DEF DealInit
  <2> QED
    BY <1>1, <2>1, <2>2, <2>3 DEF DealTypeOK
<1>3. SeparatorsBefore(1) = 0
  BY BeforeOne, SeparatorsCounted
<1>4. \A p \in 1..Len(stream) : SeparatorsBefore(p) >= 0
  <2> TAKE p \in 1..Len(stream)
  <2>1. p \in 1..(Len(stream) + 1)
    BY <1>1
  <2>2. SeparatorsBefore(p) \in Nat
    BY <1>1, <2>1, CountType
  <2> QED
    BY <2>2
<1>5. Split
  BY <1>1, <1>3, <1>4 DEF DealInit, Split, Over
<1>6. Untouched
  <2>1. \A k \in DOMAIN names : names[k] \in Name
    BY <1>1
  <2> QED
    BY <2>1 DEF DealInit, Untouched
<1> QED
  BY <1>1, <1>2, <1>5, <1>6 DEF DealInit, DealInv, Distinct, Contents

LEMMA OpenInv == DealInv /\ OpenNext => DealInv'
<1> SUFFICES ASSUME DealInv, OpenNext PROVE DealInv'
  OBVIOUS
<1>1. DealTypeOK /\ Distinct /\ Split /\ Contents /\ ~copying /\ UNCHANGED <<names, stream, at>>
  BY DEF DealInv, OpenNext
<1>2. /\ Len(names) \in Nat /\ Len(stream) \in Nat /\ next \in 1..Len(names)
      /\ next \in Nat /\ at \in Nat
  BY <1>1 DEF DealTypeOK, OpenNext
<1>3. DealTypeOK'
  BY <1>1, <1>2 DEF DealTypeOK, OpenNext
<1>4. Distinct'
  BY <1>1 DEF Distinct
<1>5. Split'
  <2>1. Over' = Over /\ next' = next + 1
    BY <1>1, <1>2 DEF Over, OpenNext
  <2>2. \A p \in 1..(Len(stream) + 1) : SeparatorsBefore(p) \in Nat
    BY <1>1, CountType DEF DealTypeOK
  <2> QED
    BY <1>1, <1>2, <2>1, <2>2, BlocksStay DEF Split
<1>6. Contents'
  <2> SUFFICES ASSUME NEW k \in DOMAIN names, k < next'
               PROVE  /\ Places(given[names[k]])' = {p \in Block(k) : p < at}
                      /\ Increasing(given[names[k]])'
    BY <1>1, BlocksStay DEF Contents
  <2>1. CASE k = next
    <3>1. given'[names'[k]] = << >>
      BY <1>1, <2>1 DEF DealTypeOK, OpenNext
    <3>2. {p \in Block(k) : p < at} = {}
      BY <1>1, <1>2, <2>1 DEF Block, Split
    <3> QED
      BY <3>1, <3>2 DEF Places, Increasing
  <2>2. CASE k < next
    <3>1. given'[names'[k]] = given[names[k]]
      BY <1>1, <1>2, <2>2 DEF DealTypeOK, OpenNext, Distinct
    <3> QED
      BY <1>1, <2>2, <3>1 DEF Contents, Places, Increasing
  <2> QED
    BY <1>1, <1>2, <2>1, <2>2 DEF OpenNext
<1>7. Untouched'
  <2>1. \A k \in DOMAIN names : k >= next + 1 => names[k] # names[next]
    BY <1>1, <1>2 DEF Distinct
  <2>2. /\ given' = [given EXCEPT ![names[next]] = << >>] /\ next' = next + 1
        /\ \A k \in DOMAIN names : k >= next + 1 => given[names[k]] = << >> /\ names[k] \in Name
    BY <1>2, <1>1 DEF OpenNext, DealInv, Untouched, DealTypeOK
  <2> QED
    BY <1>1, <2>1, <2>2 DEF Untouched, DealTypeOK
<1> QED
  BY <1>3, <1>4, <1>5, <1>6, <1>7 DEF DealInv

LEMMA CopyInv == DealInv /\ CopyLine => DealInv'
<1> SUFFICES ASSUME DealInv, CopyLine PROVE DealInv'
  OBVIOUS
<1>1. /\ DealTypeOK /\ Distinct /\ Split /\ Contents /\ copying
      /\ UNCHANGED <<names, stream, next, copying>> /\ at' = at + 1
  BY DEF DealInv, CopyLine
<1>2. /\ Len(names) \in Nat /\ Len(stream) \in Nat /\ next \in Nat /\ at \in Nat
      /\ next - 1 \in 1..Len(names) /\ at \in 1..Len(stream)
      /\ at \in (1..Len(stream)) \ Separators
      /\ stream \in Seq(Line)
  BY <1>1 DEF DealTypeOK, CopyLine, Separators
<1>3. DealTypeOK'
  <2>1. Current \in Name
    BY <1>1, <1>2 DEF DealTypeOK, Current
  <2> QED
    BY <1>1, <1>2, <2>1 DEF DealTypeOK, CopyLine
<1>4. Distinct'
  BY <1>1 DEF Distinct
<1>5. SeparatorsBefore(at) = next - 2 /\ SeparatorsBefore(at + 1) = next - 2
  BY <1>1, <1>2, CountNext DEF Split, Over
<1>6. Split'
  <2>1. Over' = Over
    BY <1>1 DEF Over
  <2> QED
    BY <1>1, <1>2, <1>5, <2>1, BlocksStay DEF Split, Over
<1>7. Contents'
  <2> SUFFICES ASSUME NEW k \in DOMAIN names, k < next
               PROVE  /\ Places(given[names[k]])' = {p \in Block(k) : p < at + 1}
                      /\ Increasing(given[names[k]])'
    BY <1>1, BlocksStay DEF Contents
  <2>0. /\ Places(given[names[k]]) = {p \in Block(k) : p < at}
        /\ Increasing(given[names[k]])
        /\ given[names[k]] \in Seq(1..Len(stream))
    BY <1>1 DEF Contents, DealTypeOK
  <2>1. CASE k = next - 1
    <3>1. given'[names'[k]] = Append(given[names[k]], at)
      <4>1. names[k] \in Name /\ Current = names[k] /\ names' = names
        BY <1>1, <1>2, <2>1 DEF DealTypeOK, Current
      <4>2. given' = [given EXCEPT ![Current] = Append(@, at)]
        BY DEF CopyLine
      <4>3. given \in [Name -> Seq(1..Len(stream))]
        BY <1>1 DEF DealTypeOK
      <4> QED
        BY <4>1, <4>2, <4>3
    <3>2. at \in Block(k)
      BY <1>2, <1>5, <2>1 DEF Block
    <3> DEFINE s == given[names[k]]
    <3> HIDE DEF s
    <3>3. s \in Seq(1..Len(stream)) /\ \A i \in DOMAIN s : s[i] < at
      BY <2>0 DEF s, Places
    <3>4. Places(Append(s, at)) = Places(s) \cup {at}
      <4>1. /\ DOMAIN Append(s, at) = DOMAIN s \cup {Len(s) + 1}
            /\ Append(s, at)[Len(s) + 1] = at
            /\ \A i \in DOMAIN s : Append(s, at)[i] = s[i]
        BY <3>3
      <4> QED
        BY <4>1 DEF Places
    <3>5. Increasing(Append(s, at))
      BY <2>0, <3>3 DEF Increasing, s
    <3>6. {p \in Block(k) : p < at + 1} = {p \in Block(k) : p < at} \cup {at}
      BY <1>2, <3>2 DEF Block
    <3>7. Places(given[names[k]])' = Places(Append(s, at))
      BY <3>1 DEF s, Places
    <3>8. Increasing(given[names[k]])'
      BY <3>1, <3>5 DEF s, Increasing
    <3> QED
      BY <2>0, <3>4, <3>6, <3>7, <3>8 DEF s
  <2>2. CASE k < next - 1
    <3>1. given'[names'[k]] = given[names[k]]
      BY <1>1, <1>2, <2>2 DEF DealTypeOK, CopyLine, Current, Distinct
    <3>2. at \notin Block(k)
      BY <1>2, <1>5, <2>2 DEF Block
    <3>3. {p \in Block(k) : p < at + 1} = {p \in Block(k) : p < at}
      BY <1>2, <3>2 DEF Block
    <3> QED
      BY <2>0, <3>1, <3>3 DEF Places, Increasing
  <2> QED
    BY <1>1, <1>2, <2>1, <2>2
<1>8. Untouched'
  <2>1. \A k \in DOMAIN names : k >= next => names[k] # Current
    BY <1>1, <1>2 DEF Distinct, Current
  <2>2. /\ given' = [given EXCEPT ![Current] = Append(@, at)]
        /\ \A k \in DOMAIN names : k >= next => given[names[k]] = << >> /\ names[k] \in Name
    BY <1>1, <1>2 DEF CopyLine, DealInv, Untouched, DealTypeOK
  <2> QED
    BY <1>1, <2>1, <2>2 DEF Untouched, DealTypeOK
<1> QED
  BY <1>3, <1>4, <1>6, <1>7, <1>8 DEF DealInv

LEMMA SeparatorInv == DealInv /\ CloseAtSeparator => DealInv'
<1> SUFFICES ASSUME DealInv, CloseAtSeparator PROVE DealInv'
  OBVIOUS
<1>1. /\ DealTypeOK /\ Distinct /\ Split /\ Contents /\ copying /\ copying' = FALSE
      /\ UNCHANGED <<names, stream, next, given>> /\ at' = at + 1
  BY DEF DealInv, CloseAtSeparator
<1>2. /\ Len(names) \in Nat /\ Len(stream) \in Nat /\ next \in Nat /\ at \in Nat
      /\ at \in 1..Len(stream) /\ at \in Separators /\ stream \in Seq(Line)
  BY <1>1 DEF DealTypeOK, CloseAtSeparator, Separators
<1>3. DealTypeOK' /\ Distinct'
  <2>1. at' \in 1..(Len(stream) + 1)
    BY <1>1, <1>2
  <2> QED
    BY <1>1, <2>1 DEF DealTypeOK, Distinct
<1>4. SeparatorsBefore(at + 1) = next - 1
  BY <1>1, <1>2, CountNext DEF Split, Over
<1>5. Split'
  <2>1. Over' = next - 1
    BY <1>1 DEF Over
  <2>2. \A p \in 1..Len(stream) : p >= at + 1 => SeparatorsBefore(p) >= next - 1
    <3> TAKE p \in 1..Len(stream)
    <3> HAVE p >= at + 1
    <3>0. p \in 1..(Len(stream) + 1) /\ at + 1 \in 1..(Len(stream) + 1)
      BY <1>2
    <3>1. /\ SeparatorsBefore(at + 1) <= SeparatorsBefore(p)
          /\ SeparatorsBefore(p) \in Nat
      BY <1>2, <3>0, CountMonotonic, CountType
    <3> QED
      BY <1>2, <1>4, <3>1
  <2>3. \A p \in (1..Len(stream)) \ Separators : p < at + 1 => p < at
    BY <1>2
  <2> QED
    BY <1>1, <1>2, <1>4, <2>1, <2>2, <2>3, BlocksStay DEF Split
<1>6. Contents'
  <2>1. \A k : {p \in Block(k) : p < at + 1} = {p \in Block(k) : p < at}
    BY <1>2 DEF Block
  <2>2. \A k \in DOMAIN names : k < next =>
            /\ Places(given[names[k]]) = {p \in Block(k) : p < at + 1}
            /\ Increasing(given[names[k]])
    BY <1>1, <2>1 DEF Contents
  <2> QED
    BY <1>1, <2>2, BlocksStay DEF Contents, Places, Increasing
<1>7. Untouched'
  BY <1>1 DEF DealInv, Untouched
<1> QED
  BY <1>3, <1>5, <1>6, <1>7 DEF DealInv

LEMMA CloseEndInv == DealInv /\ CloseAtEnd => DealInv'
<1> SUFFICES ASSUME DealInv, CloseAtEnd PROVE DealInv'
  OBVIOUS
<1>1. /\ DealTypeOK /\ Distinct /\ Split /\ Contents /\ at > Len(stream)
      /\ UNCHANGED <<names, stream, next, at, given>> /\ copying' = FALSE
  BY DEF DealInv, CloseAtEnd
<1>2. DealTypeOK' /\ Distinct'
  BY <1>1 DEF DealTypeOK, Distinct
<1>3. Split'
  <2>1. Len(stream) \in Nat /\ at \in Nat
    BY <1>1 DEF DealTypeOK
  <2> QED
    BY <1>1, <2>1, BlocksStay DEF Split
<1>4. Contents'
  BY <1>1, BlocksStay DEF Contents, Places, Increasing
<1>5. Untouched'
  BY <1>1 DEF DealInv, Untouched
<1> QED
  BY <1>2, <1>3, <1>4, <1>5 DEF DealInv

LEMMA DealStepInv == DealInv /\ [DealNext]_dealVars => DealInv'
<1> SUFFICES ASSUME DealInv, [DealNext]_dealVars PROVE DealInv'
  OBVIOUS
<1>1. CASE DealNext
  BY <1>1, OpenInv, CopyInv, SeparatorInv, CloseEndInv DEF DealNext
<1>2. CASE UNCHANGED dealVars
  <2>1. DealTypeOK' /\ Distinct'
    BY <1>2 DEF dealVars, DealInv, DealTypeOK, Distinct
  <2>2. Split' /\ Contents' /\ Untouched'
    BY <1>2, BlocksStay DEF dealVars, DealInv, Split, Over, Contents, Untouched, Places,
                            Increasing
  <2> QED
    BY <2>1, <2>2 DEF DealInv
<1> QED
  BY <1>1, <1>2

THEOREM DealInductive == DealSpec => []DealInv
<1> QED
  BY DealInitInv, DealStepInv, PTL DEF DealSpec

\* Typing, for any number of directories and any stream.
THEOREM DealTypeCorrect == DealSpec => []DealTypeOK
<1>1. DealInv => DealTypeOK
  BY DEF DealInv
<1> QED
  BY <1>1, DealInductive, PTL

LEMMA PositionOf == DealInv => BlocksByPosition
<1> SUFFICES ASSUME DealInv, NEW k \in DOMAIN names, Closed(k)
             PROVE  /\ Places(given[names[k]]) = Block(k)
                    /\ Increasing(given[names[k]])
  BY DEF BlocksByPosition
<1>1. DealTypeOK /\ Split /\ Contents
  BY DEF DealInv
<1>2. k < next /\ k \in Int /\ next \in Int /\ at \in Int /\ Len(stream) \in Nat
  BY <1>1 DEF Closed, DealTypeOK
<1>3. \A p \in Block(k) : p < at
  <2> SUFFICES ASSUME NEW p \in Block(k), p >= at PROVE FALSE
    BY <1>2 DEF Block
  <2>1. SeparatorsBefore(p) = k - 1 /\ SeparatorsBefore(p) >= Over
    BY <1>1 DEF Block, Split
  <2> QED
    BY <1>2, <2>1 DEF Over, Closed
<1>4. {p \in Block(k) : p < at} = Block(k)
  BY <1>3
<1> QED
  BY <1>1, <1>2, <1>4 DEF Contents

\* The n-th directory gets the n-th block, whole: also when there are fewer blocks
\* than directories, or more.
THEOREM ByPosition == DealSpec => []BlocksByPosition
<1> QED
  BY PositionOf, DealInductive, PTL
-----------------------------------------------------------------------------
(* Part 3: the two, and the program between them. *)

\* The sentences the program puts a separator after.
Closing == {j \in DOMAIN outcome : outcome[j] \in {"block", "empty"}}

\* A line is of a sentence that has lines, and as many blocks are over before it as
\* sentences before that one were closed.
Labelled ==
    /\ stream \in Seq(Line)
    /\ \A p \in (1..Len(stream)) \ Separators :
           /\ stream[p] \in DOMAIN outcome
           /\ outcome[stream[p]] \in {"block", "unclosed"}
           /\ Before(Separators, p) = Before(Closing, stream[p])
    /\ Before(Separators, Len(stream) + 1) = Before(Closing, Len(outcome) + 1)

\* The sentences are parsed when all have a directory, and dealt out when all are
\* parsed, by the names of the directories.
Order ==
    /\ outcome \in Seq(Outcome) /\ Len(outcome) <= Len(dirs)
    /\ pc # "done" => outcome = << >> /\ stream = << >>
    /\ stage = "words" => /\ names = << >> /\ next = 1 /\ at = 1 /\ copying = FALSE
                          /\ given = [n \in Sent |-> << >>]
    /\ stage = "deal" => /\ pc = "done" /\ Len(outcome) = Len(dirs)
                         /\ names = [k \in DOMAIN dirs |-> dirs[k].name]
                         /\ DealInv

IInv == stage \in {"words", "deal"} /\ WordInv /\ Labelled /\ Order
-----------------------------------------------------------------------------
LEMMA InitInv == Init => IInv
<1> SUFFICES ASSUME Init PROVE IInv
  OBVIOUS
<1>1. WordInv
  BY WordInitInv DEF Init
<1>2. dirs = << >> /\ pc = "first" /\ outcome = << >> /\ stream = << >>
  BY DEF Init, WordInit
<1>3. Order
  BY <1>2 DEF Init, Order
<1>4. Labelled
  BY <1>2, BeforeOne DEF Labelled
<1> QED
  BY <1>1, <1>3, <1>4 DEF Init, IInv

\* The directories written stay, and none is written after the end.
LEMMA WordsDone ==
    ASSUME WordInv, [WordNext]_wordVars
    PROVE  /\ Len(dirs) \in Nat /\ Len(dirs') \in Nat /\ Len(dirs) <= Len(dirs')
           /\ pc = "done" => UNCHANGED wordVars
<1>1. dirs \in Seq([name : Sent, words : Seq(1..Len(text))])
  BY DEF WordInv, Types
<1>2. dirs' = dirs \/ dirs' = Append(dirs, Directory)
  BY DEF WordNext, ReadFirst, ReadSame, ReadNext, ReadEnd, Overrun, wordVars
<1>3. pc = "done" => UNCHANGED wordVars
  BY DEF WordNext, ReadFirst, ReadSame, ReadNext, ReadEnd, Overrun, wordVars
<1>4. /\ Len(dirs) \in Nat
      /\ Len(Append(dirs, Directory)) = Len(dirs) + 1
  <2> DEFINE d == dirs
             S == [name : Sent, words : Seq(1..Len(text))]
  <2>1. d \in Seq(S)
    BY <1>1
  <2> HIDE DEF S
  <2> QED
    BY <2>1
<1> QED
  BY <1>2, <1>3, <1>4

LEMMA LabelledStays ==
    ASSUME Labelled, stream' = stream, outcome' = outcome
    PROVE  Labelled'
<1>1. Separators' = Separators /\ Closing' = Closing
  BY DEF Separators, Closing
<1> QED
  BY <1>1 DEF Labelled

LEMMA GroupInv == IInv /\ Group => IInv'
<1> SUFFICES ASSUME IInv, Group PROVE IInv'
  OBVIOUS
<1>1. /\ WordInv /\ Labelled /\ Order /\ stage = "words" /\ WordNext
      /\ UNCHANGED <<stage, outcome, names, stream, next, at, copying, given>>
  BY DEF IInv, Group, dealVars
<1>2. WordInv' /\ pc # "done"
  BY <1>1, WordStepInv
     DEF WordNext, ReadFirst, ReadSame, ReadNext, ReadEnd, Overrun
<1>3. Labelled'
  BY <1>1, LabelledStays
<1>4. Order'
  BY <1>1, <1>2, WordsDone DEF Order
<1> QED
  BY <1>1, <1>2, <1>3, <1>4 DEF IInv

\* What the program writes for a sentence.
LEMMA OutputIs ==
    ASSUME NEW k \in Nat \ {0}, NEW result \in Outcome
    PROVE  /\ Output(k, result) \in Seq(Line)
           /\ result = "block" => Output(k, result) = <<k, k, 0>>
           /\ result = "empty" => Output(k, result) = <<0>>
           /\ result = "unclosed" => Output(k, result) = <<k, k>>
           /\ result = "lost" => Output(k, result) = << >>
BY SplitAssumption DEF Output, Outcome

\* A sentence's output is of that sentence, and has a separator at its end or none.
LEMMA OutputShape ==
    ASSUME NEW k \in Nat \ {0}, NEW result \in Outcome
    PROVE  LET o == Output(k, result)
               n == Len(o)
           IN  /\ n \in 0..3
               /\ \A i \in 1..n : o[i] \in {0, k}
               /\ \A i \in 1..n : o[i] = k => result \in {"block", "unclosed"}
               /\ \A i \in 1..(n - 1) : o[i] = k
               /\ result \in {"block", "empty"} <=> n > 0 /\ o[n] = 0
<1>1. CASE result = "block"
  <2>1. Output(k, result) = <<k, k, 0>>
    BY <1>1, OutputIs
  <2> DEFINE o == Output(k, result)
  <2>2. Len(o) = 3 /\ o[1] = k /\ o[2] = k /\ o[3] = 0
    BY <2>1
  <2> HIDE DEF o
  <2>3. \A i \in 1..3 : i = 1 \/ i = 2 \/ i = 3
    OBVIOUS
  <2>4. \A i \in 1..2 : i = 1 \/ i = 2
    OBVIOUS
  <2>5. /\ \A i \in 1..Len(o) : o[i] \in {0, k}
        /\ \A i \in 1..(Len(o) - 1) : o[i] = k
    BY <2>2, <2>3, <2>4
  <2>6. o[Len(o)] = 0 /\ Len(o) > 0 /\ Len(o) \in 0..3
    BY <2>2
  <2> QED
    BY <1>1, <2>5, <2>6 DEF o
<1>2. CASE result = "empty"
  BY <1>2, OutputIs
<1>3. CASE result = "unclosed"
  BY <1>3, OutputIs
<1>4. CASE result = "lost"
  BY <1>4, OutputIs
<1> QED
  BY <1>1, <1>2, <1>3, <1>4 DEF Outcome

LEMMA ParseInv == IInv /\ Parse => IInv'
<1> SUFFICES ASSUME IInv, Parse PROVE IInv'
  OBVIOUS
<1>1. /\ WordInv /\ Labelled /\ Order /\ stage = "words" /\ pc = "done"
      /\ UNCHANGED <<stage, wordVars, names, next, at, copying, given>>
      /\ Len(outcome) < Len(dirs)
  BY DEF IInv, Parse
<1>2. WordInv'
  BY <1>1, WordStepInv
<1> DEFINE k == Len(outcome) + 1
           a == Len(stream)
<1>3. PICK result \in Outcome :
          /\ outcome' = Append(outcome, result)
          /\ stream' = stream \o Output(k, result)
  BY DEF Parse
<1> DEFINE o == Output(k, result)
           n == Len(o)
<1>4. /\ outcome \in Seq(Outcome) /\ stream \in Seq(Line) /\ a \in Nat
      /\ k \in Nat \ {0} /\ Len(dirs) \in Nat
  <2>1. outcome \in Seq(Outcome) /\ stream \in Seq(Line)
    BY <1>1 DEF Order, Labelled
  <2> QED
    BY <1>1, <2>1, WordsDone
<1>5. /\ outcome' \in Seq(Outcome) /\ Len(outcome') = k
      /\ outcome'[k] = result /\ \A j \in 1..(k - 1) : outcome'[j] = outcome[j]
  BY <1>3, <1>4
<1>6. o \in Seq(Line) /\ n \in 0..3
  BY <1>4, OutputIs, OutputShape
<1>7. /\ stream' \in Seq(Line) /\ Len(stream') = a + n
      /\ \A p \in 1..a : stream'[p] = stream[p]
      /\ \A i \in 1..n : stream'[a + i] = o[i]
  BY <1>3, <1>4, <1>6
<1>8. Order'
  BY <1>1, <1>4, <1>5 DEF Order, wordVars
<1>9. ASSUME NEW j \in 1..k
      PROVE  Before(Closing', j) = Before(Closing, j)
  <2>1. \A q \in 1..(j - 1) : q \in Closing' <=> q \in Closing
    BY <1>4, <1>5 DEF Closing
  <2> QED
    BY <2>1, <1>4, BeforeSame
<1>10. Before(Closing', k + 1) =
           IF result \in {"block", "empty"} THEN Before(Closing, k) + 1
                                           ELSE Before(Closing, k)
  <2>1. k \in Closing' <=> result \in {"block", "empty"}
    BY <1>4, <1>5 DEF Closing
  <2>2. Before(Closing', k) = Before(Closing, k)
    BY <1>4, <1>9
  <2> QED
    BY <2>1, <2>2, <1>4, BeforeNext
<1>11. ASSUME NEW p \in 1..(a + 1)
       PROVE  Before(Separators', p) = Before(Separators, p)
  <2>1. \A q \in 1..(p - 1) : q \in Separators' <=> q \in Separators
    BY <1>4, <1>6, <1>7 DEF Separators
  <2> QED
    BY <2>1, <1>4, BeforeSame
<1>12. \A i \in 1..n : a + i \in Separators' <=> o[i] = 0
  BY <1>4, <1>6, <1>7, SplitAssumption DEF Separators
<1>13. \A i \in 1..n : Before(Separators', a + i) = Before(Separators, a + 1)
  <2>1. Before(Separators', a + 1) = Before(Separators, a + 1)
    BY <1>4, <1>11
  <2>2. ASSUME NEW i \in 1..(n - 1)
        PROVE  Before(Separators', a + i + 1) = Before(Separators', a + i)
    <3>1. o[i] # 0
      BY <1>4, OutputShape
    <3>2. a + i \notin Separators' /\ a + i \in Nat \ {0}
      BY <1>4, <1>6, <1>12, <3>1
    <3> QED
      BY <3>2, BeforeNext
  <2> HIDE DEF o, n, a
  <2>3. n > 1 => Before(Separators', a + 2) = Before(Separators', a + 1)
    <3>1. a + 1 + 1 = a + 2
      BY <1>4
    <3> QED
      BY <1>6, <2>2, <3>1
  <2>4. n > 2 => Before(Separators', a + 3) = Before(Separators', a + 2)
    <3>1. a + 2 + 1 = a + 3
      BY <1>4
    <3> QED
      BY <1>6, <2>2, <3>1
  <2>5. \A i \in 1..n : i = 1 \/ (i = 2 /\ n > 1) \/ (i = 3 /\ n > 2)
    BY <1>6
  <2> SUFFICES ASSUME NEW i \in 1..n
               PROVE  Before(Separators', a + i) = Before(Separators, a + 1)
    OBVIOUS
  <2>6. CASE i = 1
    BY <2>1, <2>6
  <2>7. CASE i = 2 /\ n > 1
    BY <2>1, <2>3, <2>7
  <2>8. CASE i = 3 /\ n > 2
    <3>1. n > 1
      BY <1>6, <2>8
    <3> QED
      BY <2>1, <2>3, <2>4, <2>8, <3>1
  <2> QED
    BY <2>5, <2>6, <2>7, <2>8
<1>14. Labelled'
  <2>1. ASSUME NEW p \in (1..Len(stream')) \ Separators'
        PROVE  /\ stream'[p] \in DOMAIN outcome'
               /\ outcome'[stream'[p]] \in {"block", "unclosed"}
               /\ Before(Separators', p) = Before(Closing', stream'[p])
    <3>1. CASE p \in 1..a
      <4>1. p \in (1..a) \ Separators /\ stream'[p] = stream[p]
        BY <1>4, <1>7, <3>1 DEF Separators
      <4>2. /\ stream[p] \in 1..(k - 1)
            /\ outcome[stream[p]] \in {"block", "unclosed"}
            /\ Before(Separators, p) = Before(Closing, stream[p])
        BY <1>1, <1>4, <4>1 DEF Labelled
      <4>3. /\ Before(Separators', p) = Before(Separators, p)
            /\ Before(Closing', stream[p]) = Before(Closing, stream[p])
        BY <1>4, <1>9, <1>11, <3>1, <4>2
      <4> QED
        BY <1>4, <1>5, <4>1, <4>2, <4>3
    <3>2. CASE p \notin 1..a
      <4>1. PICK i \in 1..n : p = a + i
        <5>1. p - a \in 1..n /\ p = a + (p - a)
          BY <1>4, <1>6, <1>7, <3>2
        <5> QED
          BY <5>1
      <4>2. o[i] = k /\ result \in {"block", "unclosed"}
        BY <1>4, <1>12, <4>1, OutputShape
      <4>3. stream'[p] = k
        BY <1>7, <4>1, <4>2
      <4>4. /\ Before(Separators', p) = Before(Separators, a + 1)
            /\ Before(Closing', k) = Before(Closing, k)
        BY <1>4, <1>9, <1>13, <4>1
      <4> QED
        BY <1>1, <1>4, <1>5, <4>2, <4>3, <4>4 DEF Labelled
    <3> QED
      BY <3>1, <3>2
  <2>2. Before(Separators', Len(stream') + 1) = Before(Closing', Len(outcome') + 1)
    <3>1. CASE n = 0
      <4>1. result \notin {"block", "empty"}
        BY <1>4, <3>1, OutputShape
      <4>2. Before(Separators', a + 1) = Before(Separators, a + 1)
        BY <1>4, <1>11
      <4> QED
        BY <1>1, <1>4, <1>5, <1>7, <1>10, <3>1, <4>1, <4>2 DEF Labelled
    <3>2. CASE n > 0
      <4>1. /\ result \in {"block", "empty"} <=> a + n \in Separators'
            /\ a + n \in Nat \ {0}
        BY <1>4, <1>6, <1>12, <3>2, OutputShape
      <4>2. Before(Separators', a + n) = Before(Separators, a + 1)
        BY <1>6, <1>13, <3>2
      <4>3. Before(Separators', a + n + 1) =
                IF a + n \in Separators' THEN Before(Separators', a + n) + 1
                                         ELSE Before(Separators', a + n)
        BY <4>1, BeforeNext
      <4> QED
        BY <1>1, <1>4, <1>5, <1>7, <1>10, <4>1, <4>2, <4>3 DEF Labelled
    <3> QED
      BY <1>6, <3>1, <3>2
  <2> QED
    BY <1>7, <2>1, <2>2 DEF Labelled
<1> QED
  BY <1>1, <1>2, <1>8, <1>14 DEF IInv

\* The hand-out starts as by itself.
LEMMA DealStarts == DealInit' => DealInv'
BY DealInitInv, PTL

LEMMA StartInv == IInv /\ StartDeal => IInv'
<1> SUFFICES ASSUME IInv, StartDeal PROVE IInv'
  OBVIOUS
<1>1. /\ WordInv /\ Labelled /\ Order /\ stage = "words" /\ pc = "done"
      /\ Len(outcome) = Len(dirs) /\ stage' = "deal"
      /\ names' = [k \in DOMAIN dirs |-> dirs[k].name]
      /\ UNCHANGED <<wordVars, outcome, stream, next, at, copying, given>>
  BY DEF IInv, StartDeal
<1>2. WordInv'
  BY <1>1, WordStepInv
<1>3. Labelled'
  BY <1>1, LabelledStays
<1>4. DealInit'
  <2>1. names' \in Seq(Name)
    <3> DEFINE S == [name : Sent, words : Seq(1..Len(text))]
    <3>1. dirs \in Seq(S)
      BY <1>1 DEF WordInv, Types
    <3> HIDE DEF S
    <3>2. /\ Len(dirs) \in Nat /\ DOMAIN dirs = 1..Len(dirs)
          /\ \A k \in 1..Len(dirs) : dirs[k] \in S
      BY <3>1
    <3>3. \A k \in 1..Len(dirs) : dirs[k].name \in Sent
      BY <3>2 DEF S
    <3>4. names' \in [1..Len(dirs) -> Name]
      BY <1>1, <3>2, <3>3, SplitAssumption
    <3> QED
      BY <3>2, <3>4
  <2>2. \A k, l \in DOMAIN names' : names'[k] = names'[l] => k = l
    BY <1>1 DEF WordInv, Names, NamesDistinct
  <2>3. given' = [n \in Name |-> << >>] /\ next' = 1 /\ at' = 1 /\ copying' = FALSE
    BY <1>1, SplitAssumption DEF Order
  <2>4. stream' \in Seq(Line)
    BY <1>1 DEF Labelled
  <2> QED
    BY <2>1, <2>2, <2>3, <2>4 DEF DealInit
<1>5. Order'
  BY <1>1, <1>4, DealStarts DEF Order, wordVars
<1> QED
  BY <1>1, <1>2, <1>3, <1>5 DEF IInv

LEMMA HandOutInv == IInv /\ HandOut => IInv'
<1> SUFFICES ASSUME IInv, HandOut PROVE IInv'
  OBVIOUS
<1>1. /\ WordInv /\ Labelled /\ Order /\ stage = "deal" /\ DealNext
      /\ UNCHANGED <<stage, wordVars, outcome>>
  BY DEF IInv, HandOut
<1>2. WordInv'
  BY <1>1, WordStepInv
<1>3. UNCHANGED <<names, stream>>
  BY <1>1 DEF DealNext, OpenNext, CopyLine, CloseAtSeparator, CloseAtEnd
<1>4. Labelled'
  BY <1>1, <1>3, LabelledStays
<1>5. DealInv'
  BY <1>1, DealStepInv DEF Order
<1>6. Order'
  BY <1>1, <1>3, <1>5 DEF Order, wordVars
<1> QED
  BY <1>1, <1>2, <1>4, <1>6 DEF IInv

LEMMA StepInv == IInv /\ [Next]_vars => IInv'
<1> SUFFICES ASSUME IInv, [Next]_vars PROVE IInv'
  OBVIOUS
<1>1. CASE Next
  BY <1>1, GroupInv, ParseInv, StartInv, HandOutInv DEF Next
<1>2. CASE UNCHANGED vars
  <2>1. UNCHANGED <<stage, wordVars, outcome, dealVars>>
    BY <1>2 DEF vars
  <2>2. WordInv'
    BY <2>1, WordStepInv DEF IInv
  <2>3. Labelled'
    BY <2>1, LabelledStays DEF IInv, dealVars
  <2>4. stage = "deal" => DealInv'
    BY <2>1, DealStepInv DEF IInv, Order
  <2>5. Order'
    BY <2>1, <2>4 DEF IInv, Order, wordVars, dealVars
  <2> QED
    BY <2>1, <2>2, <2>3, <2>5 DEF IInv
<1> QED
  BY <1>1, <1>2

THEOREM Inductive == Spec => []IInv
<1> QED
  BY InitInv, StepInv, PTL DEF Spec
-----------------------------------------------------------------------------
(* The properties of the two together. *)

\* To word.c, the whole is word.c.
THEOREM RunsWordC == Spec => WordSpec
<1>1. Init => WordInit
  BY DEF Init
<1>2. [Next]_vars => [WordNext]_wordVars
  BY DEF Next, Group, Parse, StartDeal, HandOut, vars
<1> QED
  BY <1>1, <1>2, PTL DEF Spec, WordSpec

\* No word is left out, only a long sentence overruns the arrays, and the text is
\* divided into its sentences, whatever the stages after word.c do.
THEOREM WordsRight == Spec => [](AllPlaced /\ OverrunOnlyLong) /\ ImplementsDivision
<1> QED
  BY RunsWordC, NoneLeftOut, OverrunNeedsLong, Implements, PTL

\* The n-th sentence's directory gets the n-th block, whatever the program made of
\* the sentences.
THEOREM BlocksRight == Spec => []BlocksByPosition
<1>1. IInv => BlocksByPosition
  <2>1. CASE stage = "deal"
    BY <2>1, PositionOf DEF IInv, Order
  <2>2. CASE stage = "words"
    BY <2>2 DEF IInv, Order, BlocksByPosition
  <2> QED
    BY <2>1, <2>2 DEF IInv
<1> QED
  BY <1>1, Inductive, PTL

\* What is known when the blocks are dealt out: whose lines are in the n-th block,
\* and that a directory has lines of its block only.
LEMMA Dealing ==
    ASSUME IInv, stage = "deal"
    PROVE  /\ Len(dirs) \in Nat /\ DOMAIN dirs = 1..Len(dirs)
           /\ DOMAIN outcome = DOMAIN dirs /\ DOMAIN names = DOMAIN dirs
           /\ DOMAIN stream = 1..Len(stream)
           /\ \A k \in DOMAIN dirs :
                  /\ dirs[k].name = names[k]
                  /\ Received(k) \subseteq Block(k)
                  /\ Done => Received(k) = Block(k)
           /\ \A k, p : p \in Block(k) <=>
                  /\ p \in DOMAIN stream /\ stream[p] \in DOMAIN dirs
                  /\ outcome[stream[p]] \in {"block", "unclosed"}
                  /\ Before(Closing, stream[p]) = k - 1
<1>1. /\ WordInv /\ Labelled /\ DealInv /\ Len(outcome) = Len(dirs)
      /\ outcome \in Seq(Outcome)
      /\ names = [k \in DOMAIN dirs |-> dirs[k].name]
  BY DEF IInv, Order
<1>2. dirs \in Seq([name : Sent, words : Seq(1..Len(text))])
  BY <1>1 DEF WordInv, Types
<1>3. Len(dirs) \in Nat /\ DOMAIN dirs = 1..Len(dirs) /\ DOMAIN outcome = DOMAIN dirs
  BY <1>1, <1>2
<1>4. stream \in Seq(Line) /\ DOMAIN stream = 1..Len(stream) /\ Len(stream) \in Nat
  BY <1>1 DEF Labelled
<1>5. ASSUME NEW k \in DOMAIN dirs
      PROVE  /\ dirs[k].name = names[k]
             /\ Received(k) \subseteq Block(k)
             /\ Done => Received(k) = Block(k)
  <2>1. dirs[k].name = names[k] /\ k \in DOMAIN names
    BY <1>1
  <2>2. CASE k < next
    <3>1. Received(k) = {p \in Block(k) : p < at}
      BY <1>1, <2>1, <2>2 DEF DealInv, Contents, Received
    <3>2. Done => Received(k) = Block(k)
      BY <1>1, <2>1, <2>2, PositionOf DEF BlocksByPosition, Closed, Done, Received
    <3> QED
      BY <2>1, <3>1, <3>2
  <2>3. CASE k >= next
    <3>1. given[names[k]] = << >>
      BY <1>1, <2>1, <2>3 DEF DealInv, Untouched
    <3>2. Received(k) = {}
      BY <2>1, <3>1 DEF Received, Places
    <3>3. ~Done
      BY <1>1, <1>3, <2>3 DEF Done, DealInv, DealTypeOK
    <3> QED
      BY <2>1, <3>2, <3>3
  <2> QED
    BY <1>1, <1>3, <2>2, <2>3 DEF DealInv, DealTypeOK
<1>6. ASSUME NEW k, NEW p
      PROVE  p \in Block(k) <=>
                  /\ p \in DOMAIN stream /\ stream[p] \in DOMAIN dirs
                  /\ outcome[stream[p]] \in {"block", "unclosed"}
                  /\ Before(Closing, stream[p]) = k - 1
  <2>1. CASE p \in (1..Len(stream)) \ Separators
    <3>1. SeparatorsBefore(p) = Before(Separators, p)
      BY <1>4, <2>1, SeparatorsCounted
    <3>2. p \in Block(k) <=> Before(Separators, p) = k - 1
      BY <2>1, <3>1 DEF Block
    <3> QED
      BY <1>1, <1>3, <1>4, <2>1, <3>2 DEF Labelled
  <2>2. CASE p \in Separators
    BY <1>3, <2>2, SplitAssumption DEF Separators, Block
  <2>3. CASE p \notin 1..Len(stream)
    BY <1>4, <2>3 DEF Block
  <2> QED
    BY <2>1, <2>2, <2>3
<1> QED
  BY <1>1, <1>3, <1>4, <1>5, <1>6

\* As long as every sentence so far has a separator, a sentence's output is in the
\* directory that has its words: what is before it is closed as often as there are
\* sentences, and what is after it once more.
THEOREM OwnOutput == Spec => []OwnBlock
<1>1. IInv => OwnBlock
  <2> SUFFICES ASSUME IInv, stage = "deal", Done, NEW k \in DOMAIN dirs,
                      \A j \in 1..k : outcome[j] \in {"block", "empty"}
               PROVE  Received(k) = Produced(k)
    BY DEF OwnBlock
  <2>1. k \in Nat \ {0} /\ \A j \in DOMAIN dirs : j \in Nat \ {0}
    BY Dealing
  <2>2. \A j \in 1..k : j \in Closing
    BY <2>1, Dealing DEF Closing
  <2>3. Before(Closing, k) = k - 1 /\ Before(Closing, k + 1) = k
    BY <2>1, <2>2, BeforeBound
  <2>4. ASSUME NEW m \in DOMAIN dirs
        PROVE  Before(Closing, m) = k - 1 <=> m = k
    <3>1. CASE m < k
      BY <2>1, <3>1, BeforeBound, BeforeType
    <3>2. CASE m > k
      <4>1. Before(Closing, k + 1) <= Before(Closing, m)
        BY <2>1, <3>2, BeforeMonotonic
      <4> QED
        BY <2>1, <2>3, <3>2, <4>1, BeforeType
    <3> QED
      BY <2>1, <2>3, <3>1, <3>2
  <2>5. Block(k) = Produced(k)
    <3>1. \A p \in DOMAIN stream : stream[p] = k => outcome[k] \in {"block", "unclosed"}
      <4> SUFFICES ASSUME NEW p \in DOMAIN stream, stream[p] = k
                   PROVE  outcome[k] \in {"block", "unclosed"}
        OBVIOUS
      <4>1. p \in (1..Len(stream)) \ Separators
        BY <2>1, Dealing, SplitAssumption DEF Separators
      <4> QED
        BY <4>1 DEF IInv, Labelled
    <3> QED
      BY <2>4, <3>1, Dealing DEF Produced
  <2> QED
    BY <2>5, Dealing
<1> QED
  BY <1>1, Inductive, PTL

\* A line is in one directory, and never in one after its sentence's: there cannot
\* be more separators before it than sentences.
THEOREM NotBefore == Spec => []NeverEarlier
<1>1. IInv => NeverEarlier
  <2> SUFFICES ASSUME IInv, stage = "deal", NEW k \in DOMAIN dirs, NEW l \in DOMAIN dirs
               PROVE  /\ k # l => Received(k) \cap Received(l) = {}
                      /\ \A p \in Received(k) : stream[p] >= k
    BY DEF NeverEarlier
  <2>1. k \in Nat \ {0} /\ l \in Nat \ {0} /\ \A j \in DOMAIN dirs : j \in Nat \ {0}
    BY Dealing
  <2>2. Received(k) \subseteq Block(k) /\ Received(l) \subseteq Block(l)
    BY Dealing
  <2>3. k # l => Block(k) \cap Block(l) = {}
    BY <2>1, Dealing
  <2>4. ASSUME NEW p \in Block(k)
        PROVE  stream[p] >= k
    <3>1. stream[p] \in Nat \ {0} /\ Before(Closing, stream[p]) = k - 1
      BY <2>1, Dealing
    <3> QED
      BY <2>1, <3>1, BeforeBound
  <2> QED
    BY <2>2, <2>3, <2>4
<1> QED
  BY <1>1, Inductive, PTL

\* One lost sentence shifts every later one by a directory.
THEOREM LossIsNotContained == Spec => []LossShifts
<1>1. IInv => LossShifts
  <2> SUFFICES ASSUME IInv, stage = "deal", Done, NEW i \in DOMAIN dirs,
                      outcome[i] = "lost",
                      \A j \in DOMAIN dirs \ {i} : outcome[j] = "block",
                      NEW k \in DOMAIN dirs
               PROVE  Received(k) = Produced(IF k < i THEN k ELSE k + 1)
    BY DEF LossShifts
  <2>1. i \in Nat \ {0} /\ k \in Nat \ {0} /\ \A j \in DOMAIN dirs : j \in Nat \ {0}
    BY Dealing
  <2>2. Closing = DOMAIN dirs \ {i}
    BY Dealing DEF Closing
  <2>3. ASSUME NEW m \in DOMAIN dirs
        PROVE  Before(Closing, m) = IF m <= i THEN m - 1 ELSE m - 2
    <3>1. 1..(m - 1) \subseteq DOMAIN dirs
      BY <2>1, Dealing
    <3>2. CASE m <= i
      <4>1. \A q \in 1..(m - 1) : q \in Closing
        BY <2>1, <2>2, <3>1, <3>2
      <4> QED
        BY <2>1, <3>2, <4>1, BeforeBound
    <3>3. CASE m > i
      <4>1. /\ i \in 1..(m - 1) /\ i \notin Closing
            /\ \A q \in 1..(m - 1) : q # i => q \in Closing
        BY <2>1, <2>2, <3>1, <3>3
      <4> QED
        BY <2>1, <3>3, <4>1, BeforeBut
    <3> QED
      BY <2>1, <3>2, <3>3
  <2> DEFINE own == IF k < i THEN k ELSE k + 1
  <2>4. \A m \in DOMAIN dirs : m # i => (Before(Closing, m) = k - 1 <=> m = own)
    BY <2>1, <2>3
  <2>5. own # i
    BY <2>1
  <2>6. ASSUME NEW p \in DOMAIN stream, stream[p] = own
        PROVE  own \in DOMAIN dirs
    <3>1. p \in (1..Len(stream)) \ Separators
      BY <2>1, <2>6, Dealing, SplitAssumption DEF Separators
    <3> QED
      BY <2>6, <3>1, Dealing DEF IInv, Labelled
  <2>7. Block(k) = Produced(own)
    <3>1. \A p \in Block(k) : p \in Produced(own)
      <4> TAKE p \in Block(k)
      <4>1. /\ p \in DOMAIN stream /\ stream[p] \in DOMAIN dirs /\ stream[p] # i
            /\ Before(Closing, stream[p]) = k - 1
        BY Dealing
      <4> HIDE DEF own
      <4> QED
        BY <2>4, <4>1 DEF Produced
    <3>2. \A p \in Produced(own) : p \in Block(k)
      <4> TAKE p \in Produced(own)
      <4> HIDE DEF own
      <4>1. p \in DOMAIN stream /\ stream[p] = own /\ own \in DOMAIN dirs
        BY <2>6 DEF Produced
      <4>2. outcome[own] = "block" /\ Before(Closing, own) = k - 1
        BY <2>4, <2>5, <4>1
      <4> QED
        BY <4>1, <4>2, Dealing
    <3> QED
      BY <3>1, <3>2
  <2> QED
    BY <2>7, Dealing
<1> QED
  BY <1>1, Inductive, PTL
=============================================================================
