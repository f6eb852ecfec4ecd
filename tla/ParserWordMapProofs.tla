------------------------- MODULE ParserWordMapProofs -------------------------
(***************************************************************************)
(* Proofs about ParserWordMap for sentences and parses of every length and *)
(* every spelling.  Inv is inductive: a mapped word has lost its fact, and *)
(* the names written for it are no name of a token still to be mapped.     *)
(* Walk is the walk along a sentence of which the parser lost no word, or  *)
(* one that can be made up for: the words before the current one are       *)
(* mapped, those from it on are not.  Halting is inductive beside Inv: it   *)
(* says when the stage halts, and how little it has done by then.          *)
(***************************************************************************)
EXTENDS ParserWordMap, TLAPS

Gap == \A p \in parser : token[p].remark # "-" => p + 1 \notin parser

\* All that may be written for token p.
Names(p) == Nodes(p) \union {<<p, "">>}

Apart == \A m \in linked : /\ m.id \notin open
                           /\ \A p \in parser : m.nodes \intersect Names(p) = {}

Booked == /\ \A i \in Id \ open : IsLinked(i) \/ i \in warned \/ word[i] \in NonAscii
          /\ \A i \in open : i \notin warned
          /\ \A i \in warned : ~IsLinked(i)

Inv == TypeOK /\ Gap /\ Apart /\ Booked /\ OneToOne /\ NoMissedMatch

LEMMA NamesBegin ==
  ASSUME NEW p, NEW n \in Names(p)
  PROVE  n[1] = p \/ (token[p].remark # "-" /\ n[1] = p + 1)
<1>1. CASE token[p].remark = "-"
  <2>1. n = <<p, "">>
    BY <1>1 DEF Names, Nodes
  <2> QED BY <2>1
<1>2. CASE token[p].remark # "-"
  <2>1. n = <<p, "">> \/ n = <<p, "'s">> \/ n = <<p + 1, "">>
    BY <1>2, Zenon DEF Names, Nodes
  <2>2. <<p, "">>[1] = p /\ <<p, "'s">>[1] = p /\ <<p + 1, "">>[1] = p + 1
    OBVIOUS
  <2> QED BY <1>2, <2>1, <2>2, Zenon
<1> QED BY <1>1, <1>2

\* Different tokens have no name in common.
LEMMA NamesApart ==
  ASSUME TypeOK, Gap, NEW p \in parser, NEW q \in parser, p # q
  PROVE  Names(p) \intersect Names(q) = {}
<1>1. p \in Int /\ q \in Int
  BY DEF TypeOK, Pid
<1>2. /\ token[p].remark # "-" => q # p + 1
      /\ token[q].remark # "-" => p # q + 1
  BY DEF Gap
<1>3. ASSUME NEW n \in Names(p), n \in Names(q)
      PROVE  FALSE
  <2>1. n[1] = p \/ (token[p].remark # "-" /\ n[1] = p + 1)
    BY NamesBegin
  <2>2. n[1] = q \/ (token[q].remark # "-" /\ n[1] = q + 1)
    BY <1>3, NamesBegin
  <2> QED BY <1>1, <1>2, <2>1, <2>2
<1> QED BY <1>3

LEMMA NamesTyped ==
  ASSUME TypeOK, NEW p \in parser
  PROVE  Names(p) \subseteq Node
<1>1. p \in Int /\ 1 <= p /\ p <= LastPid
  BY NumberAssumption DEF TypeOK, Pid
<1>2. p \in 1..(LastPid + 1) /\ p + 1 \in 1..(LastPid + 1)
  BY <1>1, NumberAssumption
<1>3. <<p, "">> \in Node /\ <<p, "'s">> \in Node /\ <<p + 1, "">> \in Node
  BY <1>2 DEF Node
<1> QED BY <1>3 DEF Names, Nodes

\* Writing the mapping of an open word i, retracting the facts of i, of other
\* non-ascii words and of the token p, preserves the invariant.
LEMMA MapLemma ==
  ASSUME Inv, NEW i \in open, NEW p \in parser,
         NEW nodes, nodes \subseteq Names(p),
         linked' = linked \union {[id |-> i, pid |-> p, nodes |-> nodes]},
         open' \subseteq open \ {i},
         \A d \in open \ open' : d = i \/ word[d] \in NonAscii,
         parser' = parser \ {p},
         current' \subseteq Nat, missing' \subseteq Nat, halted' \in BOOLEAN,
         UNCHANGED <<fixed, warned>>
  PROVE  Inv'
<1> DEFINE new == [id |-> i, pid |-> p, nodes |-> nodes]
<1>1. i \in Id /\ p \in Pid
  BY DEF Inv, TypeOK
<1>2. new \in Link
  BY <1>1, NamesTyped DEF Inv, Link
<1>3. TypeOK'
  BY <1>2 DEF Inv, TypeOK, fixed
<1>4. Gap'
  BY DEF Inv, Gap, fixed
<1>5. \A q \in parser : Names(q)' = Names(q)
  BY DEF Names, Nodes, fixed
<1>6. Apart'
  <2>1. ASSUME NEW m \in linked', NEW q \in parser'
        PROVE  m.nodes \intersect Names(q)' = {}
    <3>1. CASE m \in linked
      BY <3>1, <1>5 DEF Inv, Apart
    <3>2. CASE m = new
      <4>1. Names(p) \intersect Names(q) = {}
        BY NamesApart DEF Inv
      <4> QED BY <3>2, <4>1, <1>5
    <3> QED BY <3>1, <3>2
  <2>2. ASSUME NEW m \in linked'
        PROVE  m.id \notin open'
    BY DEF Inv, Apart
  <2> QED BY <2>1, <2>2 DEF Apart
<1>7. ASSUME NEW j \in Id
      PROVE  IsLinked(j)' <=> (IsLinked(j) \/ j = i)
  <2>1. new.id = i /\ linked' = linked \union {new}
    OBVIOUS
  <2> HIDE DEF new
  <2> QED BY <2>1 DEF IsLinked
<1>8. Booked'
  BY <1>1, <1>7 DEF Inv, Booked, fixed, TypeOK
<1>9. OneToOne'
  <2>1. \A m \in linked : m.id # i /\ m.nodes \intersect nodes = {}
    BY DEF Inv, Apart
  <2>2. ASSUME NEW m \in linked', NEW n \in linked',
               m.id = n.id \/ m.nodes \intersect n.nodes # {}
        PROVE  m = n
    <3>1. CASE m \in linked /\ n \in linked
      BY <3>1, <2>2 DEF Inv, OneToOne
    <3>2. CASE m = new /\ n \in linked
      BY <3>2, <2>1, <2>2
    <3>3. CASE m \in linked /\ n = new
      BY <3>3, <2>1, <2>2
    <3>4. CASE m = new /\ n = new
      BY <3>4
    <3> QED BY <3>1, <3>2, <3>3, <3>4
  <2> QED BY <2>2 DEF OneToOne
<1>10. NoMissedMatch'
  BY DEF Inv, NoMissedMatch, fixed
<1> QED BY <1>3, <1>4, <1>6, <1>8, <1>9, <1>10 DEF Inv

LEMMA MapOneLemma ==
  ASSUME Inv, NEW i \in open, NEW p \in parser,
         NEW nodes, nodes \subseteq Names(p), Map(p, i, nodes),
         current' \subseteq Nat, missing' \subseteq Nat, halted' \in BOOLEAN,
         UNCHANGED <<fixed, warned>>
  PROVE  Inv'
<1>1. /\ linked' = linked \union {[id |-> i, pid |-> p, nodes |-> nodes]}
      /\ open' \subseteq open \ {i}
      /\ \A d \in open \ open' : d = i \/ word[d] \in NonAscii
      /\ parser' = parser \ {p}
  BY DEF Map
<1> QED BY <1>1, MapLemma

LEMMA JoinTyped ==
  ASSUME Join
  PROVE  halted' \in BOOLEAN
BY DEF Join, DecimalAhead

\* The four rules that move current_id on.
LEMMA AdvanceLemma ==
  ASSUME Inv, NEW c \in Current, NEW p \in parser, Advance(p, c), missing' \subseteq Nat
  PROVE  Inv'
<1>1. c \in open /\ c \in Nat
  BY DEF Current, Inv, TypeOK
<1>2. Nodes(p) \subseteq Names(p)
  BY DEF Names
<1>3. current' \subseteq Nat
  BY <1>1 DEF Advance, Inv, TypeOK
<1>4. halted' \in BOOLEAN
  BY JoinTyped DEF Advance
<1> QED BY MapOneLemma, <1>1, <1>2, <1>3, <1>4 DEF Advance

LEMMA ChosenAreParsed ==
  ASSUME NEW c
  PROVE  /\ SameText(c) \subseteq parser
         /\ Lowercase(c) \subseteq parser
         /\ WithDot(c) \subseteq parser
         /\ AfterLost(c) \subseteq parser
BY DEF SameText, Lowercase, WithDot, AfterLost, First, Ahead

LEMMA Inductive == Inv /\ [Next]_vars => Inv'
<1> SUFFICES ASSUME Inv, [Next]_vars
             PROVE  Inv'
  OBVIOUS
<1>0. TypeOK
  BY DEF Inv
<1>1. CASE id_link_id_map_for_first_word
  <2>0. halted' \in BOOLEAN
    BY <1>1, JoinTyped DEF id_link_id_map_for_first_word
  <2>1. CASE token[1].text \notin Opening /\ Map(1, 1, Nodes(1)) /\ current' = {1, 2}
    <3>1. PICK i \in open, p \in parser : i = 1 /\ p = 1
      BY <1>1 DEF id_link_id_map_for_first_word, MayFire, OnAgenda, FirstWord
    <3>2. Nodes(p) \subseteq Names(p) /\ Map(p, i, Nodes(p))
      BY <2>1, <3>1 DEF Names
    <3>3. current' \subseteq Nat /\ missing' \subseteq Nat /\ UNCHANGED <<fixed, warned>>
      BY <1>1, <2>1, <1>0 DEF id_link_id_map_for_first_word, TypeOK
    <3> QED BY <2>0, <3>2, <3>3, MapOneLemma
  <2>2. CASE current' = {1} /\ UNCHANGED <<open, parser, linked>>
    <3>1. UNCHANGED <<word, token, place, open, parser, missing, linked, warned>>
      BY <1>1, <2>2 DEF id_link_id_map_for_first_word, fixed
    <3>2. TypeOK' /\ Gap'
      BY <2>0, <2>2, <3>1 DEF Inv, TypeOK, Gap
    <3>3. Apart' /\ OneToOne' /\ Booked' /\ NoMissedMatch'
      BY <3>1 DEF Inv, Apart, OneToOne, Booked, NoMissedMatch, IsLinked, Names, Nodes
    <3> QED BY <3>2, <3>3 DEF Inv
  <2> QED BY <1>1, <2>1, <2>2 DEF id_link_id_map_for_first_word
<1>2. CASE id_link_id_map
  BY <1>2, <1>0, AdvanceLemma, ChosenAreParsed DEF id_link_id_map, TypeOK
<1>3. CASE id_link_id_map_for_lowercase
  BY <1>3, <1>0, AdvanceLemma, ChosenAreParsed DEF id_link_id_map_for_lowercase, TypeOK
<1>4. CASE default_rule1
  BY <1>4, <1>0, AdvanceLemma, ChosenAreParsed DEF default_rule1, TypeOK
<1>5. CASE default_rule_for_nonascii_missing
  <2>1. PICK c \in Current :
         /\ LostNonAscii(c)
         /\ linked' = linked \union {[id |-> c + 1, pid |-> c, nodes |-> Nodes(c)]}
         /\ open' = open \ {c, c + 1}
         /\ parser' = parser \ {c}
         /\ current' = (current \ {c}) \union {c + 2}
         /\ missing' = missing \union {c + 1}
    BY <1>5 DEF default_rule_for_nonascii_missing
  <2>2. c \in open /\ c \in Nat /\ c + 1 \in open /\ c \in parser /\ word[c] \in NonAscii
    BY <2>1, <1>0 DEF LostNonAscii, Current, TypeOK
  <2>3. current' \subseteq Nat /\ missing' \subseteq Nat
    BY <2>1, <2>2, <1>0 DEF TypeOK
  <2>4. open' \subseteq open \ {c + 1}
    BY <2>1
  <2>5. \A d \in open \ open' : d = c + 1 \/ word[d] \in NonAscii
    BY <2>1, <2>2
  <2>6. Nodes(c) \subseteq Names(c)
    BY DEF Names
  <2>7. halted' \in BOOLEAN
    BY <1>5, JoinTyped DEF default_rule_for_nonascii_missing
  <2> QED BY <1>5, <2>1, <2>2, <2>3, <2>4, <2>5, <2>6, <2>7, MapLemma
          DEF default_rule_for_nonascii_missing
<1>6. CASE get_next_map_for_nonascii
  <2>1. PICK c \in Current : \E p \in AfterLost(c) :
          Advance(p, c) /\ missing' = (missing \ {p}) \union {p + 1}
    BY <1>6 DEF get_next_map_for_nonascii
  <2> PICK p \in AfterLost(c) : Advance(p, c) /\ missing' = (missing \ {p}) \union {p + 1}
    BY <2>1
  <2>2. p \in missing /\ p \in parser
    BY DEF AfterLost
  <2>3. missing' \subseteq Nat
    BY <2>1, <2>2, <1>0 DEF TypeOK
  <2> QED BY <2>1, <2>2, <2>3, AdvanceLemma
<1>7. CASE default_rule
  <2>1. PICK i \in open, p \in parser : Map(p, i, {<<p, "">>})
    BY <1>7 DEF default_rule, AnyAhead
  <2>2. {<<p, "">>} \subseteq Names(p)
    BY DEF Names
  <2>3. /\ current' \subseteq Nat /\ missing' \subseteq Nat /\ halted' \in BOOLEAN
        /\ UNCHANGED <<fixed, warned>>
    BY <1>7, <1>0 DEF default_rule, TypeOK
  <2> QED BY <2>1, <2>2, <2>3, MapOneLemma
<1>8. CASE print_warning_msg
  <2>1. PICK i \in open : open' = open \ {i} /\ warned' = warned \union {i}
    BY <1>8 DEF print_warning_msg
  <2>2. UNCHANGED <<word, token, place, parser, current, missing, linked, halted>>
    BY <1>8 DEF print_warning_msg, fixed
  <2>3. AnyAhead = {}
    <3>1. Salience["default_rule"] > Salience["print_warning_msg"]
      BY DEF Salience
    <3>2. "default_rule" \in DOMAIN Salience
      BY DEF Salience
    <3>3. ~OnAgenda["default_rule"]
      BY <1>8, <3>1, <3>2 DEF print_warning_msg, MayFire
    <3> QED BY <3>3 DEF OnAgenda
  <2>4. ASSUME NEW p \in parser, p >= i, token[p].text = word[i]
        PROVE  FALSE
    <3>1. <<i, p>> \in AnyAhead
      BY <2>4 DEF AnyAhead
    <3> QED BY <3>1, <2>3
  <2>5. ~IsLinked(i)
    BY <2>1 DEF IsLinked, Inv, Apart
  <2>6. TypeOK' /\ Gap'
    BY <2>1, <2>2 DEF Inv, TypeOK, Gap
  <2>7. Apart' /\ OneToOne'
    BY <2>1, <2>2 DEF Inv, Apart, OneToOne, Names, Nodes
  <2>8. Booked'
    BY <2>1, <2>2, <2>5 DEF Inv, Booked, IsLinked
  <2>9. NoMissedMatch'
    BY <2>1, <2>2, <2>4 DEF Inv, NoMissedMatch
  <2> QED BY <2>6, <2>7, <2>8, <2>9 DEF Inv
<1>9. CASE UNCHANGED vars
  BY <1>9 DEF vars, fixed, Inv, TypeOK, Gap, Apart, Booked, OneToOne, NoMissedMatch,
       IsLinked, Names, Nodes
<1> QED BY <1>1, <1>2, <1>3, <1>4, <1>5, <1>6, <1>7, <1>8, <1>9 DEF Next

LEMMA Initial == Init => Inv
<1> SUFFICES ASSUME Init
             PROVE  Inv
  OBVIOUS
<1>1. parser \subseteq Pid /\ Pid \subseteq Nat
  BY DEF Init, Pid
<1>2. place \in [Id -> 0..LastPid]
  <2>1. parser \union {0} \subseteq 0..LastPid
    BY <1>1, NumberAssumption DEF Pid
  <2> QED BY <2>1 DEF Init
<1>3. TypeOK
  BY <1>1, <1>2 DEF Init, TypeOK
<1>4. Gap
  BY DEF Init, InOrder, Gap
<1>5. Apart /\ Booked /\ OneToOne /\ NoMissedMatch
  BY DEF Init, Apart, Booked, OneToOne, NoMissedMatch
<1> QED BY <1>3, <1>4, <1>5 DEF Inv

LEMMA Always == Spec => []Inv
BY Initial, Inductive, PTL DEF Spec

\* The variables have their types.
THEOREM TypeCorrect == Spec => []TypeOK
BY Always, PTL DEF Inv

\* No word is mapped twice and no node's name is written for two words, whatever
\* the parser did to the sentence (Map and its callers).
THEOREM MappedOneToOne == Spec => []OneToOne
BY Always, PTL DEF Inv

\* A word is reported only when no unmapped token ahead is spelled as it is: the
\* saliences of default_rule and print_warning_msg.
THEOREM NoneMissed == Spec => []NoMissedMatch
BY Always, PTL DEF Inv
-----------------------------------------------------------------------------
(* The halt.  A halted stage has a decimal number among its tokens; and    *)
(* where one is behind the first token, nothing but the first rule fires,  *)
(* which asserts the first current_id.                                     *)

DecimalSeen == \E p \in Seen \ {1} : token[p].text \in Decimal

Fresh == /\ current = {} /\ open = Id /\ 1 \in parser
         /\ linked = {} /\ warned = {} /\ ~halted

Stopped == halted /\ warned = {} /\ \A m \in linked : m.id = 1

Halting == /\ halted => DecimalLeft
           /\ (NoOfWords > 1 /\ DecimalSeen) => (Fresh \/ Stopped)

LEMMA StepsRun ==
  ASSUME Next
  PROVE  ~halted
BY DEF Next, MayFire, id_link_id_map_for_first_word, id_link_id_map,
       id_link_id_map_for_lowercase, default_rule1, default_rule_for_nonascii_missing,
       get_next_map_for_nonascii, default_rule, print_warning_msg

\* A step takes what it writes from the tokens.
LEMMA SeenShrinks ==
  ASSUME TypeOK, Next
  PROVE  Seen' \subseteq Seen /\ UNCHANGED fixed
<1>1. ASSUME NEW p \in parser, NEW i, NEW nodes,
             linked' = linked \union {[id |-> i, pid |-> p, nodes |-> nodes]},
             parser' \subseteq parser
      PROVE  Seen' \subseteq Seen
  BY <1>1 DEF Seen
<1>2. ASSUME NEW p \in parser, NEW c, Advance(p, c)
      PROVE  Seen' \subseteq Seen /\ UNCHANGED fixed
  <2>1. /\ linked' = linked \union {[id |-> c, pid |-> p, nodes |-> Nodes(p)]}
        /\ parser' \subseteq parser
        /\ UNCHANGED fixed
    BY <1>2 DEF Advance, Map
  <2> QED BY <2>1, <1>1
<1>3. CASE id_link_id_map_for_first_word
  <2>1. 1 \in parser /\ UNCHANGED fixed
    BY <1>3 DEF id_link_id_map_for_first_word, MayFire, OnAgenda, FirstWord
  <2>2. CASE Map(1, 1, Nodes(1))
    <3>1. /\ linked' = linked \union {[id |-> 1, pid |-> 1, nodes |-> Nodes(1)]}
          /\ parser' \subseteq parser
      BY <2>2 DEF Map
    <3> QED BY <2>1, <3>1, <1>1
  <2>3. CASE UNCHANGED <<open, parser, linked>>
    BY <2>1, <2>3 DEF Seen
  <2> QED BY <1>3, <2>2, <2>3 DEF id_link_id_map_for_first_word
<1>4. CASE id_link_id_map \/ id_link_id_map_for_lowercase \/ default_rule1
           \/ get_next_map_for_nonascii
  BY <1>2, <1>4, ChosenAreParsed DEF id_link_id_map, id_link_id_map_for_lowercase,
     default_rule1, get_next_map_for_nonascii
<1>5. CASE default_rule_for_nonascii_missing
  <2>1. PICK c \in Current :
          /\ c \in parser
          /\ linked' = linked \union {[id |-> c + 1, pid |-> c, nodes |-> Nodes(c)]}
          /\ parser' = parser \ {c}
    BY <1>5 DEF default_rule_for_nonascii_missing, LostNonAscii
  <2>2. Seen' \subseteq Seen
    BY <2>1, <1>1
  <2> QED BY <1>5, <2>2 DEF default_rule_for_nonascii_missing
<1>6. CASE default_rule
  <2>1. PICK i \in open, p \in parser : Map(p, i, {<<p, "">>})
    BY <1>6 DEF default_rule, AnyAhead
  <2>2. /\ linked' = linked \union {[id |-> i, pid |-> p, nodes |-> {<<p, "">>}]}
        /\ parser' \subseteq parser
    BY <2>1 DEF Map
  <2>3. Seen' \subseteq Seen
    BY <2>2, <1>1
  <2> QED BY <1>6, <2>3 DEF default_rule
<1>7. CASE print_warning_msg
  BY <1>7 DEF print_warning_msg, Seen
<1> QED BY <1>3, <1>4, <1>5, <1>6, <1>7 DEF Next

\* Before the first current_id no other rule of salience 1000 is active, and none
\* below it may fire.
LEMMA FirstRuleFirst ==
  ASSUME Fresh, Next
  PROVE  id_link_id_map_for_first_word
<1>1. 1 \in open /\ Current = {}
  BY NumberAssumption DEF Fresh, Id, Current
<1>2. OnAgenda["id_link_id_map_for_first_word"]
  BY <1>1 DEF OnAgenda, FirstWord, Fresh
<1>3. /\ "id_link_id_map_for_first_word" \in DOMAIN Salience
      /\ Salience["id_link_id_map_for_first_word"] > Salience["default_rule"]
      /\ Salience["id_link_id_map_for_first_word"] > Salience["print_warning_msg"]
  BY DEF Salience
<1>4. ~MayFire("default_rule") /\ ~MayFire("print_warning_msg")
  BY <1>2, <1>3 DEF MayFire
<1> QED BY <1>1, <1>4 DEF Next, id_link_id_map, id_link_id_map_for_lowercase,
           default_rule1, default_rule_for_nonascii_missing, get_next_map_for_nonascii,
           default_rule, print_warning_msg

\* With a decimal number behind the first token that rule's assert halts the stage.
LEMMA FirstRuleHalts ==
  ASSUME TypeOK, Fresh, NoOfWords > 1, DecimalSeen, id_link_id_map_for_first_word
  PROVE  Stopped'
<1>1. PICK p \in parser : p # 1 /\ token[p].text \in Decimal
  BY DEF Fresh, DecimalSeen, Seen
<1>2. p \in Nat /\ p >= 2
  BY <1>1 DEF TypeOK, Pid
<1>3. UNCHANGED fixed /\ warned' = {} /\ Join
  BY DEF id_link_id_map_for_first_word, Fresh
<1>4. 1 \in Id /\ 2 \in Id
  BY NumberAssumption DEF Id
<1>5. CASE Map(1, 1, Nodes(1)) /\ current' = {1, 2}
  <2>1. 2 \in Current'
    BY <1>4, <1>5 DEF Current, Map, Fresh
  <2>2. p \in parser'
    BY <1>1, <1>5 DEF Map
  <2>3. p \in Ahead(2)'
    BY <1>2, <2>2 DEF Ahead
  <2>4. token'[p].text \in Decimal
    BY <1>1, <1>3 DEF fixed
  <2>5. DecimalAhead'
    BY <2>1, <2>3, <2>4 DEF DecimalAhead
  <2>6. linked' = {[id |-> 1, pid |-> 1, nodes |-> Nodes(1)]}
    BY <1>5 DEF Map, Fresh
  <2> QED BY <1>3, <2>5, <2>6 DEF Join, Stopped
<1>6. CASE current' = {1} /\ UNCHANGED <<open, parser, linked>>
  <2>1. 1 \in Current'
    BY <1>4, <1>6 DEF Current, Fresh
  <2>2. p \in Ahead(1)'
    BY <1>2, <1>6 DEF Ahead
  <2>3. token'[p].text \in Decimal
    BY <1>1, <1>3 DEF fixed
  <2>4. DecimalAhead'
    BY <2>1, <2>2, <2>3 DEF DecimalAhead
  <2> QED BY <1>3, <1>6, <2>4 DEF Join, Stopped, Fresh
<1> QED BY <1>5, <1>6 DEF id_link_id_map_for_first_word

LEMMA HaltInductive == TypeOK /\ Halting /\ [Next]_vars => Halting'
<1> SUFFICES ASSUME TypeOK, Halting, [Next]_vars
             PROVE  Halting'
  OBVIOUS
<1>1. CASE Next
  <2>1. ~halted
    BY <1>1, StepsRun
  <2>2. halted' => DecimalLeft'
    <3>1. Join \/ halted' = halted
      BY <1>1 DEF Next, Advance, id_link_id_map_for_first_word, id_link_id_map,
         id_link_id_map_for_lowercase, default_rule1, default_rule_for_nonascii_missing,
         get_next_map_for_nonascii, default_rule, print_warning_msg
    <3> QED BY <2>1, <3>1 DEF Join, DecimalAhead, Ahead, DecimalLeft
  <2>3. ASSUME NoOfWords > 1, DecimalSeen'
        PROVE  Stopped'
    <3>1. DecimalSeen
      BY <1>1, <2>3, SeenShrinks DEF DecimalSeen, fixed
    <3>2. Fresh
      BY <2>1, <2>3, <3>1 DEF Halting, Stopped
    <3> QED BY <1>1, <2>3, <3>1, <3>2, FirstRuleFirst, FirstRuleHalts
  <2> QED BY <2>2, <2>3 DEF Halting
<1>2. CASE UNCHANGED vars
  BY <1>2 DEF vars, fixed, Halting, DecimalLeft, DecimalSeen, Seen, Fresh, Stopped
<1> QED BY <1>1, <1>2

LEMMA HaltInitial == Init => Halting
<1> SUFFICES ASSUME Init, DecimalSeen
             PROVE  Fresh
  BY DEF Init, Halting
<1>1. PICK p \in parser : p # 1
  BY DEF Init, DecimalSeen, Seen
<1>2. p \in Nat /\ 1 \in 1..p
  BY <1>1 DEF Init, Pid
<1>3. 1 \in parser \/ 0 \in parser
  BY <1>2 DEF Init, InOrder
<1>4. 1 \in parser
  BY <1>3 DEF Init, Pid
<1> QED BY <1>4 DEF Init, Fresh

LEMMA HaltAlways == Spec => []Halting
<1>1. Inv /\ Halting /\ [Next]_vars => Halting'
  BY HaltInductive DEF Inv
<1> QED BY <1>1, Always, HaltInitial, PTL DEF Spec

\* Every word ends up mapped, reported or lost as a non-ascii word, and never two
\* of these, unless a decimal number among the tokens has stopped the stage
\* (default_rule_for_nonascii_missing, print_warning_msg, the join of default_rule1).
THEOREM EveryWordAccounted == Spec => []Accounted
<1>1. Inv /\ Halting => Accounted
  BY DEF Inv, Booked, Apart, Accounted, IsLinked, Ended, OnAgenda, Salience, Halting
<1> QED BY <1>1, Always, HaltAlways, PTL

\* A decimal number anywhere behind the first token leaves all words but the first
\* unmapped and unreported: default_rule1 halts the engine in the first step.
THEOREM DecimalStops == Spec => []DecimalLosesRest
<1>1. Halting => DecimalLosesRest
  BY DEF Halting, Fresh, Stopped, DecimalSeen, DecimalLosesRest
<1> QED BY <1>1, HaltAlways, PTL
-----------------------------------------------------------------------------
(* The walk along the words of a sentence of which the parser lost the     *)
(* words D: none, or one as NonAsciiRecovered describes.                   *)

Spoken(D) == KeptBut(D) /\ OthersArePunctuation
Recoverable(D) == Spoken(D) /\ (D = {} \/ \E k \in Id \ {1} : D = {k} /\ LostOne(k))

Ordered == \A i, j \in Id : (i < j /\ place[i] # 0 /\ place[j] # 0) => place[i] < place[j]

\* Before the first rule.
Start(D) == /\ current = {} /\ missing = {} /\ open = Id /\ 1 \in parser
            /\ \A i \in Id \ D : place[i] \in parser

\* Word c is the current one: the words before it are done with, the others not.
At(D, c) == /\ c \in current /\ current \subseteq {1, c}
            /\ \A i \in Id : i \in open <=> i >= c
            /\ \A i \in Id \ D : place[i] \in parser <=> i >= c

\* Its token is not behind it, and nonascii_missing holds no word's token.
Level(D, c) == /\ c \notin D /\ place[c] >= c
               /\ \/ missing = {}
                  \/ /\ \A d \in D : d < c
                     /\ \A m \in missing, i \in Id \ D : place[i] # m

\* Its token is the one before it, which nonascii_missing holds.
Behind(D, c) == /\ D # {} /\ c \notin D /\ \A d \in D : d < c
                /\ place[c] = c - 1 /\ missing = {c - 1}

AtLost(D, c) == c \in D /\ missing = {}

\* The walk can go on.
OnWay(D) == \/ open = {}
            \/ \E c \in Id : At(D, c) /\ (Level(D, c) \/ Behind(D, c) \/ AtLost(D, c))

Walking(D) == AlignedBut(D) /\ (Start(D) \/ OnWay(D))

Walk == Ordered /\ \A D \in SUBSET Id : Recoverable(D) => Walking(D)

\* What Spoken says of the tokens: a token is a word's, or spelled as none.
LEMMA Kept ==
  ASSUME TypeOK, Ordered, NEW D, Spoken(D)
  PROVE  /\ \A i \in Id \ D : /\ place[i] \in Pid
                              /\ token[place[i]].text = word[i]
                              /\ word[i] \notin Opening
         /\ \A i, j \in Id \ D : i < j => place[i] < place[j]
         /\ \A i, j \in Id \ D : word[i] = word[j] => Same(place[i], place[j])
         /\ \A i \in Id, j \in Id \ D : word[j] \in DOMAIN Stem => Stem[word[j]] # word[i]
         /\ \A p \in Pid : (\A i \in Id \ D : place[i] # p) =>
               /\ \A i \in Id : token[p].text # word[i] /\ token[p].text # Low[word[i]]
               /\ token[p].text \notin DOMAIN Stem
         /\ 1 \in Id /\ (place[1] > 1 => token[1].text \in Opening)
<1>1. 1 \in Id
  BY NumberAssumption DEF Id
<1>2. \A i \in Id \ D : place[i] \in 0..LastPid /\ place[i] # 0
  BY DEF Spoken, KeptBut, TypeOK
<1>3. \A i \in Id \ D : place[i] \in Pid
  BY <1>2, NumberAssumption DEF Pid
<1>4. \A i, j \in Id \ D : i < j => place[i] < place[j]
  BY <1>2 DEF Ordered
<1>5. /\ \A i \in Id \ D : token[place[i]].text = word[i]
      /\ \A i \in Id : word[i] \notin Opening
      /\ \A i, j \in Id \ D : word[i] = word[j] => Same(place[i], place[j])
      /\ \A i \in Id, j \in Id \ D : word[j] \in DOMAIN Stem => Stem[word[j]] # word[i]
      /\ \A i \in Id : i \in D => place[i] = 0
  BY DEF Spoken, KeptBut
<1>6. ASSUME NEW p \in Pid, \A i \in Id \ D : place[i] # p
      PROVE  /\ \A i \in Id : token[p].text # word[i] /\ token[p].text # Low[word[i]]
             /\ token[p].text \notin DOMAIN Stem
  <2>1. p # 0
    BY DEF Pid
  <2>2. \A i \in Id : place[i] # p
    BY <1>5, <1>6, <2>1
  <2> QED BY <1>1, <2>2 DEF Spoken, OthersArePunctuation
<1>7. place[1] > 1 => token[1].text \in Opening
  BY DEF Spoken, OthersArePunctuation
<1> QED BY <1>1, <1>3, <1>4, <1>5, <1>6, <1>7

\* A token that is still there and spelled as a word is the current word's or a
\* later one's.
LEMMA Owner ==
  ASSUME TypeOK, Ordered, NEW D, Spoken(D), NEW c \in Id, At(D, c),
         NEW p \in parser,
         \/ \E i \in Id : token[p].text = word[i] \/ token[p].text = Low[word[i]]
         \/ token[p].text \in DOMAIN Stem
  PROVE  \E i \in Id \ D : i >= c /\ p = place[i] /\ token[p].text = word[i]
<1>1. p \in Pid
  BY DEF TypeOK
<1>2. PICK i \in Id \ D : place[i] = p
  BY <1>1, Kept
<1>3. i >= c
  BY <1>2 DEF At
<1> QED BY <1>2, <1>3, Kept

\* The current word has no rival, and no token is it with a full stop.
LEMMA OnlyCurrent ==
  ASSUME TypeOK, Ordered, NEW D, Spoken(D), NEW c \in Id, At(D, c)
  PROVE  Current = {c} /\ WithDot(c) = {} /\ ~FirstWord
<1>1. Id \subseteq Int /\ open \subseteq Id /\ c \in Int /\ c >= 1
  BY DEF Id, TypeOK
<1>2. c \in Current
  BY <1>1 DEF At, Current
<1>3. ASSUME NEW d \in Current
      PROVE  d = c
  <2>1. d \in {1, c} /\ d \in open /\ d \in Id
    BY <1>1 DEF At, Current
  <2>2. 1 \in open => 1 >= c
    BY <2>1, Kept DEF At
  <2> QED BY <1>1, <2>1, <2>2
<1>4. ASSUME NEW p \in WithDot(c)
      PROVE  FALSE
  <2>1. p \in parser /\ token[p].text \in DOMAIN Stem /\ Stem[token[p].text] = word[c]
    BY DEF WithDot, First, Ahead
  <2>2. PICK i \in Id \ D : token[p].text = word[i]
    BY <2>1, Owner
  <2> QED BY <2>1, <2>2, Kept
<1> QED BY <1>2, <1>3, <1>4 DEF At, FirstWord

\* At a word that is level with its token, that token is the only one any rule
\* would take.
LEMMA OnlyOwnToken ==
  ASSUME TypeOK, Ordered, NEW D, Spoken(D), NEW c \in Id, At(D, c), Level(D, c)
  PROVE  SameText(c) = {place[c]} /\ ~LostNonAscii(c) /\ AfterLost(c) = {}
<1>1. Id \subseteq Int /\ Pid \subseteq Int /\ parser \subseteq Pid /\ open \subseteq Id
  BY DEF Id, Pid, TypeOK
<1>2. c \in Id \ D /\ place[c] >= c
  BY DEF Level
<1>3. place[c] \in parser /\ token[place[c]].text = word[c]
  BY <1>1, <1>2, Kept DEF At
\* The tokens of the words from c on begin with its own.
<1>4. ASSUME NEW i \in Id \ D, i >= c
      PROVE  place[c] <= place[i]
  <2>1. place[c] \in Int /\ place[i] \in Int
    BY <1>1, <1>2, Kept
  <2>2. c < i => place[c] < place[i]
    BY <1>2, Kept
  <2>3. i \in Int /\ c \in Int
    BY <1>1
  <2> QED BY <1>4, <2>1, <2>2, <2>3
<1>5. place[c] \in SameText(c)
  <2>1. ASSUME NEW q \in parser, Same(place[c], q)
        PROVE  place[c] <= q
    <3>1. token[q].text = word[c]
      BY <1>3, <2>1 DEF Same
    <3> QED BY <3>1, <1>4, Owner
  <2> QED BY <2>1, <1>2, <1>3 DEF SameText, First, Ahead
<1>6. ASSUME NEW p \in SameText(c)
      PROVE  p = place[c]
  <2>1. p \in parser /\ token[p].text = word[c] /\ \A q \in parser : (q >= c /\ Same(p, q)) => p <= q
    BY DEF SameText, First, Ahead
  <2>2. PICK i \in Id \ D : i >= c /\ p = place[i] /\ word[i] = word[c]
    BY <2>1, Owner
  <2>3. Same(p, place[c])
    BY <1>2, <2>2, Kept
  <2>4. p <= place[c] /\ place[c] <= p
    BY <1>2, <1>3, <1>4, <2>1, <2>2, <2>3
  <2>5. p \in Int /\ place[c] \in Int
    BY <2>1, <1>1, <1>3
  <2> QED BY <2>4, <2>5
<1>7. ~LostNonAscii(c)
  <2>1. SUFFICES ASSUME LostNonAscii(c)
                 PROVE  FALSE
    OBVIOUS
  <2>2. c + 1 \in Id /\ c \in parser /\ token[c].text = word[c + 1] /\ token[c].text # word[c]
    BY <2>1, <1>1 DEF LostNonAscii
  <2>3. PICK i \in Id \ D : c = place[i] /\ i >= c
    BY <2>2, Owner
  <2>4. place[c] = c
    <3>1. c \in Int /\ place[c] \in Int /\ place[c] >= c /\ place[c] <= c
      BY <1>1, <1>2, <1>3, <1>4, <2>3
    <3> QED BY <3>1
  <2> QED BY <2>2, <2>4, <1>3
<1>8. ASSUME NEW p \in AfterLost(c)
      PROVE  FALSE
  <2>1. p \in missing /\ p \in parser /\ token[p].text = word[c]
    BY DEF AfterLost
  <2>2. \E i \in Id \ D : p = place[i]
    BY <2>1, Owner
  <2>3. \A i \in Id \ D : place[i] # p
    BY <2>1 DEF Level
  <2> QED BY <2>2, <2>3
<1> QED BY <1>5, <1>6, <1>7, <1>8

\* At a word that is behind, its token is taken by the rule for missing words only.
LEMMA OnlyMissing ==
  ASSUME TypeOK, Ordered, NEW D, Recoverable(D), NEW c \in Id, At(D, c), Behind(D, c)
  PROVE  AfterLost(c) = {place[c]} /\ ~LostNonAscii(c)
<1>1. c \in Id \ D /\ Spoken(D) /\ place[c] = c - 1 /\ missing = {c - 1}
  BY DEF Behind, Recoverable
<1>2. place[c] \in parser /\ token[place[c]].text = word[c]
  <2>1. c >= c
    BY DEF Id
  <2> QED BY <1>1, <2>1, Kept DEF At
<1>3. AfterLost(c) = {place[c]}
  BY <1>1, <1>2 DEF AfterLost
<1>4. PICK k \in Id \ {1} : D = {k} /\ LostOne(k)
  BY DEF Recoverable, Behind
<1>5. ~LostNonAscii(c)
  BY <1>1, <1>4 DEF LostNonAscii, LostOne, Behind
<1> QED BY <1>3, <1>5

\* A word that the parser lost: its two rules, should it be the last word, and the
\* one rule otherwise.
LEMMA OnlyLost ==
  ASSUME TypeOK, Ordered, NEW D, Recoverable(D), NEW c \in Id, At(D, c), AtLost(D, c)
  PROVE  /\ D = {c} /\ LostOne(c) /\ c # 1 /\ AfterLost(c) = {}
         /\ c + 1 \in Id => LostNonAscii(c)
         /\ c + 1 \notin Id => /\ ~LostNonAscii(c) /\ SameText(c) = {} /\ Lowercase(c) = {}
                               /\ AnyAhead = {} /\ open = {c}
<1>1. D = {c} /\ LostOne(c) /\ c # 1 /\ Spoken(D)
  BY DEF Recoverable, AtLost
<1>2. AfterLost(c) = {}
  BY DEF AtLost, AfterLost
<1>3. Id \subseteq Int /\ open \subseteq Id /\ c \in Int /\ c >= 1 /\ c <= NoOfWords
  BY NumberAssumption DEF Id, TypeOK
<1>4. ASSUME c + 1 \in Id
      PROVE  LostNonAscii(c)
  <2>1. c + 1 \in Id \ D /\ c + 1 >= c
    BY <1>1, <1>3, <1>4
  <2>2. c \in parser /\ token[c].text = word[c + 1]
    <3>1. place[c + 1] = c
      BY <1>1, <1>4 DEF LostOne
    <3> QED BY <1>1, <2>1, <3>1, Kept DEF At
  <2>3. c + 1 \in open
    BY <1>4, <2>1 DEF At
  <2>4. word[c] \in NonAscii /\ word[c + 1] # word[c]
    BY <1>1, <2>1 DEF LostOne
  <2> QED BY <2>2, <2>3, <2>4 DEF LostNonAscii
<1>5. ASSUME c + 1 \notin Id
      PROVE  /\ ~LostNonAscii(c) /\ SameText(c) = {} /\ Lowercase(c) = {}
             /\ AnyAhead = {} /\ open = {c}
  <2>1. c = NoOfWords
    BY <1>3, <1>5, NumberAssumption DEF Id
  <2>2. \A i \in Id : i >= c => i = c
    BY <1>3, <2>1, NumberAssumption DEF Id
  <2>3. open = {c}
    <3>1. c \in open
      BY <1>3 DEF At
    <3>2. \A i \in open : i = c
      BY <1>3, <2>2 DEF At
    <3> QED BY <3>1, <3>2
  \* No token is left that is spelled as a word.
  <2>4. ASSUME NEW p \in parser, NEW i \in Id
        PROVE  token[p].text # word[i] /\ token[p].text # Low[word[i]]
    BY <1>1, <2>2, Owner
  <2>5. SameText(c) = {} /\ Lowercase(c) = {}
    BY <2>4 DEF SameText, Lowercase, First, Ahead
  <2>6. AnyAhead = {}
    <3>1. ASSUME NEW m \in AnyAhead
          PROVE  FALSE
      <4>1. PICK i \in open, p \in parser : token[p].text = word[i]
        BY DEF AnyAhead
      <4> QED BY <1>3, <2>4, <4>1
    <3> QED BY <3>1
  <2>7. ~LostNonAscii(c)
    BY <1>3, <1>5 DEF LostNonAscii
  <2> QED BY <2>3, <2>5, <2>6, <2>7
<1> QED BY <1>1, <1>2, <1>4, <1>5

\* In such a sentence only these rules fire.
LEMMA WalkStep ==
  ASSUME TypeOK, Ordered, NEW D, Recoverable(D), Start(D) \/ OnWay(D), Next
  PROVE  \/ Start(D) /\ id_link_id_map_for_first_word
         \/ \E c \in Id : At(D, c) /\ Level(D, c) /\ Advance(place[c], c) /\ UNCHANGED missing
         \/ \E c \in Id : /\ At(D, c) /\ Behind(D, c) /\ Advance(place[c], c)
                          /\ missing' = {c}
         \/ \E c \in Id : /\ At(D, c) /\ AtLost(D, c)
                          /\ IF c + 1 \in Id THEN default_rule_for_nonascii_missing
                                             ELSE print_warning_msg
<1>0. Spoken(D)
  BY DEF Recoverable
<1>1. Salience["print_warning_msg"] = -10 /\ Salience["default_rule"] = 10
      /\ Salience["id_link_id_map_for_lowercase"] = 998 /\ Salience["id_link_id_map"] = 999
      /\ Salience["id_link_id_map_for_first_word"] = 1000
      /\ Salience["default_rule_for_nonascii_missing"] = 1000
      /\ Salience["get_next_map_for_nonascii"] = 1000
  BY DEF Salience
<1>2. DOMAIN Salience = {"id_link_id_map_for_first_word", "default_rule1",
        "default_rule_for_nonascii_missing", "get_next_map_for_nonascii", "id_link_id_map",
        "id_link_id_map_for_lowercase", "default_rule", "print_warning_msg"}
  BY DEF Salience
<1>3. ASSUME Current = {}, ~FirstWord, AnyAhead = {}, open = {}
      PROVE  FALSE
  BY <1>3 DEF Next, id_link_id_map_for_first_word, id_link_id_map, id_link_id_map_for_lowercase,
     default_rule1, default_rule_for_nonascii_missing, get_next_map_for_nonascii,
     default_rule, print_warning_msg, MayFire, OnAgenda
<1>4. CASE Start(D)
  <2>1. Current = {} /\ OnAgenda["id_link_id_map_for_first_word"]
    BY <1>0, <1>4, Kept DEF Start, Current, OnAgenda, FirstWord
  <2>2. ~MayFire("print_warning_msg") /\ ~MayFire("default_rule")
    BY <2>1, <1>1, <1>2 DEF MayFire
  <2> QED BY <1>4, <2>1, <2>2 DEF Next, id_link_id_map, id_link_id_map_for_lowercase,
          default_rule1, default_rule_for_nonascii_missing, get_next_map_for_nonascii,
          default_rule, print_warning_msg
<1>5. CASE open = {}
  BY <1>3, <1>5 DEF Current, FirstWord, AnyAhead
<1>6. ASSUME NEW c \in Id, At(D, c)
      PROVE  Current = {c} /\ ~default_rule1 /\ ~id_link_id_map_for_first_word
  <2>1. Current = {c} /\ WithDot(c) = {} /\ ~FirstWord
    BY <1>0, <1>6, OnlyCurrent
  <2> QED BY <2>1 DEF default_rule1, id_link_id_map_for_first_word, MayFire, OnAgenda
<1>7. ASSUME NEW c \in Id, At(D, c), Level(D, c)
      PROVE  Advance(place[c], c) /\ UNCHANGED missing
  <2>1. /\ Current = {c} /\ SameText(c) = {place[c]}
        /\ ~default_rule_for_nonascii_missing /\ ~get_next_map_for_nonascii
    BY <1>0, <1>6, <1>7, OnlyOwnToken
       DEF default_rule_for_nonascii_missing, get_next_map_for_nonascii
  <2>2. OnAgenda["id_link_id_map"]
    BY <2>1 DEF OnAgenda
  <2>3. /\ ~MayFire("print_warning_msg") /\ ~MayFire("default_rule")
        /\ ~MayFire("id_link_id_map_for_lowercase")
    BY <2>2, <1>1, <1>2 DEF MayFire
  <2>4. id_link_id_map
    BY <1>6, <1>7, <2>1, <2>3 DEF Next, id_link_id_map_for_lowercase, default_rule, print_warning_msg
  <2> QED BY <2>1, <2>4 DEF id_link_id_map
<1>8. ASSUME NEW c \in Id, At(D, c), Behind(D, c)
      PROVE  Advance(place[c], c) /\ missing' = {c}
  <2>1. /\ Current = {c} /\ AfterLost(c) = {place[c]} /\ ~default_rule_for_nonascii_missing
    BY <1>6, <1>8, OnlyMissing DEF default_rule_for_nonascii_missing
  <2>2. OnAgenda["get_next_map_for_nonascii"]
    BY <2>1 DEF OnAgenda
  <2>3. /\ ~MayFire("print_warning_msg") /\ ~MayFire("default_rule")
        /\ ~MayFire("id_link_id_map_for_lowercase") /\ ~MayFire("id_link_id_map")
    BY <2>2, <1>1, <1>2 DEF MayFire
  <2>4. get_next_map_for_nonascii
    BY <1>6, <1>8, <2>1, <2>3 DEF Next, id_link_id_map_for_lowercase, id_link_id_map,
       default_rule, print_warning_msg
  <2>5. Advance(place[c], c) /\ missing' = (missing \ {place[c]}) \union {place[c] + 1}
    BY <2>1, <2>4 DEF get_next_map_for_nonascii
  <2>6. missing = {place[c]} /\ place[c] + 1 = c
    BY <1>8 DEF Behind, Id
  <2> QED BY <2>5, <2>6
<1>9. ASSUME NEW c \in Id, At(D, c), AtLost(D, c)
      PROVE  IF c + 1 \in Id THEN default_rule_for_nonascii_missing ELSE print_warning_msg
  <2>1. Current = {c} /\ AfterLost(c) = {} /\ ~get_next_map_for_nonascii
    BY <1>6, <1>9, OnlyLost DEF get_next_map_for_nonascii
  <2>2. CASE c + 1 \in Id
    <3>1. OnAgenda["default_rule_for_nonascii_missing"]
      BY <1>9, <2>1, <2>2, OnlyLost DEF OnAgenda
    <3>2. /\ ~MayFire("print_warning_msg") /\ ~MayFire("default_rule")
          /\ ~MayFire("id_link_id_map_for_lowercase") /\ ~MayFire("id_link_id_map")
      BY <3>1, <1>1, <1>2 DEF MayFire
    <3> QED BY <1>6, <1>9, <2>1, <2>2, <3>2 DEF Next, id_link_id_map_for_lowercase,
            id_link_id_map, default_rule, print_warning_msg
  <2>3. CASE c + 1 \notin Id
    <3>1. ~LostNonAscii(c) /\ SameText(c) = {} /\ Lowercase(c) = {} /\ AnyAhead = {}
      BY <1>9, <2>3, OnlyLost
    <3> QED BY <1>6, <1>9, <2>1, <2>3, <3>1 DEF Next, id_link_id_map_for_lowercase,
            id_link_id_map, default_rule, default_rule_for_nonascii_missing
  <2> QED BY <2>2, <2>3
<1> QED BY <1>4, <1>5, <1>7, <1>8, <1>9 DEF OnWay

LEMMA StaticFacts == Next => UNCHANGED fixed
BY DEF Next, id_link_id_map_for_first_word, id_link_id_map, id_link_id_map_for_lowercase,
   default_rule1, default_rule_for_nonascii_missing, get_next_map_for_nonascii,
   default_rule, print_warning_msg, Advance

\* When word c has lost its facts and its token, the next word is the current one.
LEMMA NextAt ==
  ASSUME TypeOK, Ordered, NEW D, Spoken(D), NEW c \in Id \ D, UNCHANGED fixed,
         \A i \in Id \ D : place[i] \in parser <=> i >= c,
         parser' = parser \ {place[c]},
         open' \subseteq Id, \A i \in Id : i \in open' <=> i >= c + 1,
         c + 1 \in current', current' \subseteq {1, c + 1}
  PROVE  IF c + 1 \in Id THEN At(D, c + 1)' ELSE open' = {}
<1>1. Id \subseteq Int /\ c \in Id /\ c <= NoOfWords
  BY NumberAssumption DEF Id
<1>2. ASSUME NEW i \in Id \ D
      PROVE  place[i] \in parser' <=> i >= c + 1
  <2>1. i # c => place[i] # place[c]
    <3>1. i < c => place[i] < place[c]
      BY Kept
    <3>2. c < i => place[c] < place[i]
      BY Kept
    <3>3. place[i] \in Int /\ place[c] \in Int
      BY Kept DEF Pid
    <3> QED BY <1>1, <3>1, <3>2, <3>3
  <2> QED BY <1>1, <2>1
<1>3. CASE c + 1 \in Id
  BY <1>2, <1>3 DEF At, fixed
<1>4. CASE c + 1 \notin Id
  <2>1. \A i \in Id : ~(i >= c + 1)
    BY <1>1, <1>4, NumberAssumption DEF Id
  <2> QED BY <1>4, <2>1
<1> QED BY <1>3, <1>4

\* From a word level with its token the walk goes on, to a lost word perhaps.
LEMMA Onward ==
  ASSUME TypeOK, Ordered, NEW D, Recoverable(D), NEW c \in Id, Level(D, c),
         UNCHANGED fixed, missing' = missing,
         IF c + 1 \in Id THEN At(D, c + 1)' ELSE open' = {}
  PROVE  OnWay(D)'
<1>1. Id \subseteq Int /\ c \in Id \ D /\ Spoken(D)
  BY DEF Id, Level, Recoverable
<1>2. CASE c + 1 \notin Id
  BY <1>2 DEF OnWay
<1>3. CASE c + 1 \in D
  <2>1. missing = {} /\ D \subseteq Id
    <3>1. ~(c + 1 < c)
      BY <1>1
    <3> QED BY <1>3, <3>1 DEF Level, Recoverable
  <2>2. AtLost(D, c + 1)'
    BY <1>3, <2>1 DEF AtLost
  <2>3. c + 1 \in Id
    BY <1>3, <2>1
  <2> QED BY <2>2, <2>3 DEF OnWay
<1>4. CASE c + 1 \in Id \ D
  <2>1. place[c + 1] >= c + 1
    <3>1. place[c] < place[c + 1]
      BY <1>1, <1>4, Kept
    <3>2. place[c] \in Int /\ place[c + 1] \in Int /\ place[c] >= c
      BY <1>1, <1>4, Kept DEF Pid, Level
    <3> QED BY <1>1, <3>1, <3>2
  <2>2. (\A d \in D : d < c) => \A d \in D : d < c + 1
    BY <1>1 DEF Recoverable
  <2>3. Level(D, c + 1)'
    BY <1>4, <2>1, <2>2 DEF Level, fixed
  <2> QED BY <1>4, <2>3 DEF OnWay
<1> QED BY <1>2, <1>3, <1>4

\* From a word one ahead of its token: the next one is too, or is level with its own.
LEMMA Resume ==
  ASSUME TypeOK, Ordered, NEW D, Recoverable(D), D # {}, NEW c \in Id \ D,
         \A d \in D : d < c, place[c] = c - 1,
         UNCHANGED fixed, missing' = {c},
         IF c + 1 \in Id THEN At(D, c + 1)' ELSE open' = {}
  PROVE  OnWay(D)'
<1>1. Id \subseteq Int /\ c \in Id /\ Spoken(D) /\ D \subseteq Int
  BY DEF Id, Recoverable
<1>2. CASE c + 1 \notin Id
  BY <1>2 DEF OnWay
<1>3. CASE c + 1 \in Id
  <2>1. c + 1 \notin D /\ \A d \in D : d < c + 1
    BY <1>1
  <2>2. \A i \in Id \ D : place[i] \in Int
    BY <1>1, Kept DEF Pid
  <2>3. place[c + 1] > c - 1
    BY <1>1, <1>3, <2>1, Kept
  <2>4. CASE place[c + 1] = c
    <3>1. c + 1 - 1 = c
      BY <1>1
    <3>2. place'[c + 1] = c + 1 - 1 /\ missing' = {c + 1 - 1}
      BY <2>4, <3>1 DEF fixed
    <3>3. Behind(D, c + 1)'
      BY <2>1, <3>2 DEF Behind
    <3> QED BY <1>3, <3>3 DEF OnWay
  <2>5. CASE place[c + 1] >= c + 1
    <3>1. ASSUME NEW i \in Id \ D
          PROVE  place[i] # c
      <4>1. CASE i = c
        BY <4>1, <1>1
      <4>2. CASE i < c
        BY <4>2, <1>1, <2>2, Kept
      <4>3. CASE i = c + 1
        BY <4>3, <1>1, <2>5, <2>2
      <4>4. CASE i > c + 1
        BY <4>4, <1>1, <1>3, <2>1, <2>2, <2>5, Kept
      <4> QED BY <4>1, <4>2, <4>3, <4>4, <1>1
    <3>2. Level(D, c + 1)'
      BY <2>1, <2>5, <3>1 DEF Level, fixed
    <3> QED BY <1>3, <3>2 DEF OnWay
  <2> QED BY <1>1, <1>3, <2>1, <2>2, <2>3, <2>4, <2>5
<1> QED BY <1>2, <1>3

LEMMA WalkInductive == TypeOK /\ TypeOK' /\ Walk /\ [Next]_vars => Walk'
<1> SUFFICES ASSUME TypeOK, TypeOK', Walk, [Next]_vars
             PROVE  Walk'
  OBVIOUS
<1>1. UNCHANGED fixed
  BY StaticFacts DEF vars, fixed
<1>2. Ordered /\ Ordered' /\ open' \subseteq Id
  BY <1>1 DEF Walk, Ordered, TypeOK, fixed
<1>3. \A D \in SUBSET Id : Recoverable(D)' <=> Recoverable(D)
  BY <1>1 DEF Recoverable, LostOne, Spoken, KeptBut, OthersArePunctuation, Same, fixed
<1>4. SUFFICES ASSUME NEW D \in SUBSET Id, Recoverable(D)
               PROVE  Walking(D)'
  BY <1>2, <1>3 DEF Walk
<1>5. AlignedBut(D) /\ (Start(D) \/ OnWay(D)) /\ Spoken(D)
  BY <1>4 DEF Walk, Walking, Recoverable
<1>6. \A m : OwnToken(m)' <=> OwnToken(m)
  BY <1>1 DEF OwnToken, Nodes, fixed
<1>7. Id \subseteq Int
  BY DEF Id
\* Mapping a word to its own token leaves the others aligned.
<1>8. ASSUME NEW i \in Id \ D, NEW p, p = place[i],
             linked' = linked \union {[id |-> i, pid |-> p, nodes |-> Nodes(p)]},
             open \ {i} \subseteq open' \union D
      PROVE  AlignedBut(D)'
  <2> DEFINE new == [id |-> i, pid |-> p, nodes |-> Nodes(p)]
  <2>1. new \in linked' /\ linked \subseteq linked' /\ new.id = i /\ OwnToken(new)
    BY <1>8 DEF OwnToken
  <2>2. linked' = linked \union {new}
    BY <1>8
  <2> HIDE DEF new
  <2>3. \A m \in linked' : OwnToken(m)
    BY <1>5, <2>1, <2>2 DEF AlignedBut
  <2>4. \A j \in Id \ (open' \union D) : j = i \/ j \notin open
    BY <1>8
  <2>5. \A j \in Id \ (open' \union D) : IsLinked(j)'
    BY <1>5, <2>1, <2>4 DEF AlignedBut, IsLinked
  <2> QED BY <1>6, <2>3, <2>5 DEF AlignedBut
<1>9. CASE Start(D) /\ id_link_id_map_for_first_word
  <2>0. /\ 1 \in Id \ D /\ place[1] \in parser /\ place[1] \in Int /\ place[1] >= 1
        /\ \A i \in Id : i \in open /\ i >= 1
        /\ \A i \in Id \ D : place[i] \in parser
    <3>1. 1 \in Id \ D
      BY <1>4, <1>5, <1>2, Kept DEF Recoverable
    <3> QED BY <1>9, <3>1 DEF Start, TypeOK, Pid, Id
  <2>1. CASE token[1].text \notin Opening /\ Map(1, 1, Nodes(1)) /\ current' = {1, 2}
    <3>1. place[1] = 1
      BY <2>0, <2>1, <1>2, <1>5, Kept
    <3>2. AlignedBut(D)'
      BY <1>8, <2>0, <2>1, <3>1 DEF Map
    <3>3. IF 1 + 1 \in Id THEN At(D, 1 + 1)' ELSE open' = {}
      <4>1. parser' = parser \ {place[1]} /\ 1 + 1 \in current' /\ current' \subseteq {1, 1 + 1}
        BY <2>1, <3>1 DEF Map
      <4>2. \A i \in Id : i \in open' <=> i >= 1 + 1
        BY <2>0, <2>1, <1>7 DEF Map
      <4>3. \A i \in Id \ D : place[i] \in parser <=> i >= 1
        BY <2>0
      <4> QED BY <1>1, <1>2, <1>5, <2>0, <4>1, <4>2, <4>3, NextAt
    <3>4. Level(D, 1)
      BY <1>9, <2>0 DEF Start, Level
    <3>5. missing' = missing
      BY <1>9 DEF id_link_id_map_for_first_word
    <3>6. OnWay(D)'
      BY <1>1, <1>2, <1>4, <2>0, <3>3, <3>4, <3>5, Onward
    <3> QED BY <3>2, <3>6 DEF Walking
  <2>2. CASE current' = {1} /\ UNCHANGED <<open, parser, linked>>
    <3>1. missing' = {} /\ UNCHANGED fixed
      BY <1>1, <1>9 DEF Start, id_link_id_map_for_first_word
    <3>2. At(D, 1)' /\ Level(D, 1)'
      BY <2>0, <2>2, <3>1 DEF At, Level, fixed
    <3>3. AlignedBut(D)'
      BY <1>5, <1>6, <2>2 DEF AlignedBut, IsLinked
    <3> QED BY <2>0, <3>2, <3>3 DEF Walking, OnWay
  <2> QED BY <1>9, <2>1, <2>2 DEF id_link_id_map_for_first_word
\* The current word is mapped to its own token.
<1>10. ASSUME NEW c \in Id \ D, At(D, c), Advance(place[c], c)
       PROVE  AlignedBut(D)' /\ IF c + 1 \in Id THEN At(D, c + 1)' ELSE open' = {}
  <2>1. AlignedBut(D)'
    BY <1>8, <1>10 DEF Advance, Map
  <2>2. c + 1 \in current' /\ current' \subseteq {1, c + 1}
    BY <1>10 DEF Advance, At
  <2>3. parser' = parser \ {place[c]} /\ open' = open \ {c}
    BY <1>10 DEF Advance, Map
  <2>4. \A i \in Id : i \in open' <=> i >= c + 1
    BY <1>7, <1>10, <2>3 DEF At
  <2>5. \A i \in Id \ D : place[i] \in parser <=> i >= c
    BY <1>10 DEF At
  <2> QED BY <1>1, <1>2, <1>5, <2>1, <2>2, <2>3, <2>4, <2>5, NextAt
<1>11. ASSUME NEW c \in Id, At(D, c), Level(D, c), Advance(place[c], c), UNCHANGED missing
       PROVE  Walking(D)'
  <2>1. c \in Id \ D
    BY <1>11 DEF Level
  <2> QED BY <1>1, <1>2, <1>4, <1>10, <1>11, <2>1, Onward DEF Walking
<1>12. ASSUME NEW c \in Id, At(D, c), Behind(D, c), Advance(place[c], c), missing' = {c}
       PROVE  Walking(D)'
  <2>1. c \in Id \ D /\ D # {} /\ (\A d \in D : d < c) /\ place[c] = c - 1
    BY <1>12 DEF Behind
  <2> QED BY <1>1, <1>2, <1>4, <1>10, <1>12, <2>1, Resume DEF Walking
<1>13. ASSUME NEW c \in Id, At(D, c), AtLost(D, c), c + 1 \in Id,
              default_rule_for_nonascii_missing
       PROVE  Walking(D)'
  <2>1. D = {c} /\ LostOne(c)
    BY <1>2, <1>4, <1>13, OnlyLost
  <2>2. PICK e : e = c + 1
    OBVIOUS
  <2>3. Current = {c} /\ place[e] = c
    BY <1>2, <1>5, <1>13, <2>1, <2>2, OnlyCurrent DEF LostOne
  <2>4. /\ linked' = linked \union {[id |-> e, pid |-> c, nodes |-> Nodes(c)]}
        /\ open' = open \ {c, e} /\ parser' = parser \ {place[e]}
        /\ current' = (current \ {c}) \union {c + 2} /\ missing' = missing \union {e}
    BY <1>13, <2>2, <2>3 DEF default_rule_for_nonascii_missing
  <2>5. e \in Id \ D /\ e + 1 = c + 2 /\ e - 1 = c /\ c < e
    BY <1>7, <1>13, <2>1, <2>2
  <2>6. AlignedBut(D)'
    BY <1>8, <2>1, <2>3, <2>4, <2>5
  <2>7. missing' = {e} /\ e + 1 \in current' /\ current' \subseteq {1, e + 1}
    BY <1>13, <2>4, <2>5 DEF AtLost, At
  <2>8. \A i \in Id : i \in open' <=> i >= e + 1
    BY <1>7, <1>13, <2>2, <2>4 DEF At
  <2>9. \A i \in Id \ D : place[i] \in parser <=> i >= e
    BY <1>7, <1>13, <2>1, <2>2 DEF At
  <2>10. IF e + 1 \in Id THEN At(D, e + 1)' ELSE open' = {}
    BY <1>1, <1>2, <1>5, <2>4, <2>5, <2>7, <2>8, <2>9, NextAt
  <2>11. D # {} /\ (\A d \in D : d < e) /\ place[e] = e - 1
    BY <2>1, <2>3, <2>5
  <2>12. OnWay(D)'
    BY <1>1, <1>2, <1>4, <2>5, <2>7, <2>10, <2>11, Resume
  <2> QED BY <2>6, <2>12 DEF Walking
<1>14. ASSUME NEW c \in Id, At(D, c), AtLost(D, c), c + 1 \notin Id, print_warning_msg
       PROVE  Walking(D)'
  <2>1. D = {c} /\ open = {c}
    BY <1>2, <1>4, <1>14, OnlyLost
  <2>2. open' = {} /\ linked' = linked
    BY <1>14, <2>1 DEF print_warning_msg
  <2>3. AlignedBut(D)'
    BY <1>5, <1>6, <2>1, <2>2 DEF AlignedBut, IsLinked
  <2> QED BY <2>2, <2>3 DEF Walking, OnWay
<1>15. CASE UNCHANGED vars
  BY <1>5, <1>15 DEF vars, fixed, Walking, Start, OnWay, At, Level, Behind, AtLost,
     AlignedBut, OwnToken, IsLinked, Nodes
<1>16. CASE Next
  BY <1>2, <1>4, <1>5, <1>9, <1>11, <1>12, <1>13, <1>14, <1>16, WalkStep
<1> QED BY <1>15, <1>16

LEMMA WalkInitial == Init => Walk
<1> SUFFICES ASSUME Init
             PROVE  Walk
  OBVIOUS
<1>1. Ordered /\ TypeOK
  BY Initial DEF Init, InOrder, Ordered, Inv
<1>2. ASSUME NEW D \in SUBSET Id, Recoverable(D)
      PROVE  Start(D)
  <2>0. Spoken(D) /\ 1 \notin D
    BY <1>2 DEF Recoverable
  <2>1. \A i \in Id \ D : place[i] \in parser
    BY <1>1, <2>0, Kept DEF Init, Pid
  <2>2. 1 \in Id \ D
    BY <1>1, <2>0, Kept
  <2>3. place[1] \in parser /\ 1 \in 1..place[1]
    BY <1>1, <2>1, <2>2 DEF TypeOK, Pid
  <2>4. 0 \notin parser
    BY <1>1 DEF TypeOK, Pid
  <2>5. 1 \in parser
    BY <2>3, <2>4 DEF Init, InOrder
  <2> QED BY <2>1, <2>5 DEF Init, Start
<1>3. \A D : AlignedBut(D)
  BY DEF Init, AlignedBut
<1> QED BY <1>1, <1>2, <1>3 DEF Walk, Walking

LEMMA Walks == Spec => []Walk
<1>1. Inv => TypeOK
  BY DEF Inv
<1> QED BY <1>1, Always, WalkInitial, WalkInductive, PTL DEF Spec

\* A sentence the parser kept is aligned word for word, as far as the stage gets,
\* whatever punctuation, possessives and repeated words it has (id_link_id_map and the
\* first rule).
THEOREM Faithful == Spec => []FaithfulAlignment
<1>1. Walk => FaithfulAlignment
  <2>1. {} \in SUBSET Id
    OBVIOUS
  <2> QED BY <2>1 DEF Walk, Walking, FaithfulAlignment, Recoverable, Spoken
<1> QED BY <1>1, Walks, PTL

\* A lost non-ascii word costs its own mapping and misleads no other word
\* (default_rule_for_nonascii_missing, get_next_map_for_nonascii).
THEOREM LossRecovered == Spec => []NonAsciiRecovered
<1>1. Walk => NonAsciiRecovered
  <2>1. ASSUME Walk, NEW k \in Id \ {1}, LostOne(k), OthersArePunctuation
        PROVE  AlignedBut({k})
    <3>1. {k} \in SUBSET Id /\ Recoverable({k})
      BY <2>1 DEF Recoverable, Spoken, LostOne
    <3> QED BY <2>1, <3>1 DEF Walk, Walking
  <2> QED BY <2>1 DEF NonAsciiRecovered
<1> QED BY <1>1, Walks, PTL

=============================================================================
