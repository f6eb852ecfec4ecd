---------------------------- MODULE ParserWordMap ----------------------------
(***************************************************************************)
(* The stage of run_modules_std.bat that loads                             *)
(* parserid_wordid_mapping.clp: it aligns the words of the sentence, as    *)
(* word.c numbered them, with the tokens the parser saw.  The parser's     *)
(* numbering runs ahead of the word's at every punctuation mark and at     *)
(* every "'s" (one word, two tokens), and falls behind it when the parser  *)
(* lost a word.  A current_id fact walks along the words; each rule that   *)
(* maps its word consumes the token and moves it on.                       *)
(*                                                                         *)
(* One action is one firing of the rule of the same name; the engine fires *)
(* an activation of highest salience, and the order among equals is open.  *)
(* A test that cannot be evaluated stops the engine: default_rule1 takes   *)
(* the length of every token with a "." in it, and a number has none.      *)
(***************************************************************************)
EXTENDS Integers, FiniteSets

CONSTANTS
    NoOfWords,  \* word ids are 1..NoOfWords
    LastPid,    \* parser ids are 1..LastPid
    Text,       \* what a word or a token may be spelled
    Low,        \* lowcase: [Text -> Text]
    Numeric,    \* texts that are numbers for CLIPS (numberp)
    Decimal,    \* numbers that CLIPS prints with a "." (a FLOAT, such as .5)
    Opening,    \* opening quotes and the like, which the first rule names
    NonAscii,   \* texts that contain "nonascii"
    Stem        \* for the texts that end in ".", what is before it

Id == 1..NoOfWords
Pid == 1..LastPid

\* A token's remark is "'s" when sd_combining_apostrophe joined the two tokens
\* of a possessive; the joined token keeps the id of the first.  ("'" alone is
\* treated as "'s" is.)
Token == [text: Text, remark: {"-", "'s"}]

ASSUME NumberAssumption == NoOfWords \in Nat \ {0} /\ LastPid \in Nat \ {0}
ASSUME TextAssumption == /\ Low \in [Text -> Text]
                         /\ Opening \subseteq Text
                         /\ NonAscii \subseteq Text
                         /\ DOMAIN Stem \subseteq Text
                         /\ Decimal \subseteq Numeric \ (Opening \union DOMAIN Stem)

VARIABLES
    word,     \* the text of each word
    token,    \* the token with each parser id
    place,    \* the parser id of the token each word became; 0 when the parser
              \* lost the word.  The program does not know it.
    open,     \* ids with an id-original_word fact
    parser,   \* parser ids with a parser_numid-word-remark fact
    current,  \* the current_id facts
    missing,  \* the nonascii_missing facts
    linked,   \* what was written to parserid_wordid_mapping.dat: for a word, the
              \* parser id it was mapped to and the names written for that id
    warned,   \* ids for which the missing mapping was reported
    halted    \* an evaluation error has stopped (run)

fixed == <<word, token, place>>
vars == <<word, token, place, open, parser, current, missing, linked, warned, halted>>

\* The names of a parser's node: P3, or for a possessive P3's and P4.
Node == (1..(LastPid + 1)) \X {"", "'s"}
Link == [id: Id, pid: Pid, nodes: SUBSET Node]

TypeOK == /\ word \in [Id -> Text]
          /\ token \in [Pid -> Token]
          /\ place \in [Id -> 0..LastPid]
          /\ open \subseteq Id
          /\ parser \subseteq Pid
          /\ current \subseteq Nat
          /\ missing \subseteq Nat
          /\ linked \subseteq Link
          /\ warned \subseteq Id
          /\ halted \in BOOLEAN

\* The parser numbers its tokens 1, 2, ... in the order of the words; only the
\* second token of a possessive has no fact of its own.
InOrder == /\ \A i, j \in Id : (i < j /\ place[i] # 0 /\ place[j] # 0)
                                   => place[i] < place[j]
           /\ \A p \in parser : token[p].remark # "-" => p + 1 \notin parser
           /\ \A p \in parser : \A q \in 1..p :
                  q \in parser \/ (q - 1 \in parser /\ token[q - 1].remark # "-")

Init == /\ word \in [Id -> Text]
        /\ token \in [Pid -> Token]
        /\ parser \in SUBSET Pid
        /\ place \in [Id -> parser \union {0}]
        /\ InOrder
        /\ open = Id
        /\ current = {}
        /\ missing = {}
        /\ linked = {}
        /\ warned = {}
        /\ halted = FALSE
-----------------------------------------------------------------------------
(* The activations of each rule.  Definitions named ..._Faulty are the     *)
(* errors that the properties below are there to notice; no specification  *)
(* uses them.                                                              *)

Same(p, q) == token[p] = token[q]
\* The first of the tokens S: no equal one before it that is not before c.
First(c, S) == {p \in S : \A q \in parser : (q >= c /\ Same(p, q)) => p <= q}
Ahead(c) == {p \in parser : p >= c}

\* A current_id fact is there for good once the first rule has fired, so this also
\* stands for its refraction.
FirstWord == current = {} /\ 1 \in open /\ 1 \in parser

SameText_Faulty(c) == {p \in Ahead(c) : token[p].text = word[c]} \* not the first
SameText(c) == First(c, {p \in Ahead(c) : token[p].text = word[c]})
Lowercase(c) == First(c, {p \in Ahead(c) : /\ word[c] \notin Numeric
                                           /\ token[p].text = Low[word[c]]})
WithDot(c) == First(c, {p \in Ahead(c) : /\ token[p].text \in DOMAIN Stem
                                         /\ Stem[token[p].text] = word[c]})

LostNonAscii_Faulty(c) == \* any word will do
    /\ ~(c \in parser /\ token[c].text = word[c])
    /\ c + 1 \in open /\ c \in parser /\ token[c].text = word[c + 1]

\* The parser lost the non-ascii word c: the token with its number is the next word.
LostNonAscii(c) ==
    /\ word[c] \in NonAscii
    /\ ~(c \in parser /\ token[c].text = word[c])
    /\ c + 1 \in open /\ c \in parser /\ token[c].text = word[c + 1]

AfterLost_Faulty(c) == \* with the ">=" of the other rules
    {p \in missing \intersect Ahead(c) : token[p].text = word[c]}
AfterLost(c) == {p \in missing \intersect parser : token[p].text = word[c]}
AnyAhead == {m \in open \X parser : m[2] >= m[1] /\ token[m[2]].text = word[m[1]]}

\* The current word, while it has a fact.
Current == current \intersect open

DecimalAhead_Faulty == \* with "=" for ">="
    \E c \in Current : c \in parser /\ token[c].text \in Decimal

\* (length ?wrd1) fails in the join of default_rule1: for the current word there is
\* a token ahead whose print has a "." and which is a number, no symbol.
DecimalAhead == \E c \in Current : \E p \in Ahead(c) : token[p].text \in Decimal

Salience == [id_link_id_map_for_first_word |-> 1000, default_rule1 |-> 1000,
             default_rule_for_nonascii_missing |-> 1000,
             get_next_map_for_nonascii |-> 1000, id_link_id_map |-> 999,
             id_link_id_map_for_lowercase |-> 998, default_rule |-> 10,
             print_warning_msg |-> -10]

OnAgenda ==
    [id_link_id_map_for_first_word |-> FirstWord,
     default_rule1 |-> \E c \in Current : WithDot(c) # {},
     default_rule_for_nonascii_missing |-> \E c \in Current : LostNonAscii(c),
     get_next_map_for_nonascii |-> \E c \in Current : AfterLost(c) # {},
     id_link_id_map |-> \E c \in Current : SameText(c) # {},
     id_link_id_map_for_lowercase |-> \E c \in Current : Lowercase(c) # {},
     default_rule |-> AnyAhead # {},
     print_warning_msg |-> open # {}]

MayFire_Faulty(r) == ~halted /\ OnAgenda[r] \* saliences ignored

\* The engine fires rule r only when nothing of higher salience is active.
MayFire(r) == /\ ~halted
              /\ OnAgenda[r]
              /\ \A q \in DOMAIN Salience : Salience[q] > Salience[r] => ~OnAgenda[q]

\* (run) returns: nothing is left to fire, or an error has halted it.
Ended == halted \/ \A q \in DOMAIN Salience : ~OnAgenda[q]
-----------------------------------------------------------------------------
Nodes(p) == IF token[p].remark = "-" THEN {<<p, "">>}
                                     ELSE {<<p, "'s">>, <<p + 1, "">>}

Map_Faulty(p, i, nodes) == \* the token's fact is not retracted
    /\ linked' = linked \union {[id |-> i, pid |-> p, nodes |-> nodes]}
    /\ open' = open \ {i}
    /\ UNCHANGED parser

\* Retract the facts of word i and token p, write their mapping.
Map(p, i, nodes) ==
    /\ linked' = linked \union {[id |-> i, pid |-> p, nodes |-> nodes]}
    /\ open' = open \ {i}
    /\ parser' = parser \ {p}

\* The joins are evaluated when current_id is asserted.  (What the rule would have
\* asserted after that is of no use to a stage that has halted.)
Join == halted' = DecimalAhead'

\* Map token p to the current word c and make the next word current.
Advance(p, c) == /\ Map(p, c, Nodes(p))
                 /\ current' = (current \ {c}) \union {c + 1}
                 /\ UNCHANGED <<fixed, warned>>
                 /\ Join

\* The first word is mapped to the first token, whatever their texts, unless
\* the token opens a quotation or a parenthesis.  (current_id 1) is asserted in
\* either case.
id_link_id_map_for_first_word ==
    /\ MayFire("id_link_id_map_for_first_word")
    /\ \/ /\ token[1].text \notin Opening
          /\ Map(1, 1, Nodes(1))
          /\ current' = {1, 2}
       \/ /\ token[1].text \in Opening
          /\ current' = {1}
          /\ UNCHANGED <<open, parser, linked>>
    /\ UNCHANGED <<fixed, missing, warned>>
    /\ Join

id_link_id_map ==
    /\ MayFire("id_link_id_map")
    /\ \E c \in Current : \E p \in SameText(c) : Advance(p, c)
    /\ UNCHANGED missing

id_link_id_map_for_lowercase ==
    /\ MayFire("id_link_id_map_for_lowercase")
    /\ \E c \in Current : \E p \in Lowercase(c) : Advance(p, c)
    /\ UNCHANGED missing

\* The token is the word with a full stop.
default_rule1 ==
    /\ MayFire("default_rule1")
    /\ \E c \in Current : \E p \in WithDot(c) : Advance(p, c)
    /\ UNCHANGED missing

\* Both words lose their facts; nothing is written for the lost one.
default_rule_for_nonascii_missing ==
    /\ MayFire("default_rule_for_nonascii_missing")
    /\ \E c \in Current :
         /\ LostNonAscii(c)
         /\ linked' = linked \union {[id |-> c + 1, pid |-> c, nodes |-> Nodes(c)]}
         /\ open' = open \ {c, c + 1}
         /\ parser' = parser \ {c}
         /\ current' = (current \ {c}) \union {c + 2}
         /\ missing' = missing \union {c + 1}
    /\ UNCHANGED <<fixed, warned>>
    /\ Join

get_next_map_for_nonascii ==
    /\ MayFire("get_next_map_for_nonascii")
    /\ \E c \in Current : \E p \in AfterLost(c) :
         /\ Advance(p, c)
         /\ missing' = (missing \ {p}) \union {p + 1}

\* When current_id is stuck: any equal token ahead; the remark is dropped.
default_rule ==
    /\ MayFire("default_rule")
    /\ \E m \in AnyAhead : Map(m[2], m[1], {<<m[2], "">>})
    /\ UNCHANGED <<fixed, current, missing, warned, halted>>

\* The rule's test, an "or" of three inequalities, holds for every id.
print_warning_msg ==
    /\ MayFire("print_warning_msg")
    /\ \E i \in open : /\ open' = open \ {i}
                       /\ warned' = warned \union {i}
    /\ UNCHANGED <<fixed, parser, current, missing, linked, halted>>

Next == \/ id_link_id_map_for_first_word \/ id_link_id_map
        \/ id_link_id_map_for_lowercase \/ default_rule1
        \/ default_rule_for_nonascii_missing \/ get_next_map_for_nonascii
        \/ default_rule \/ print_warning_msg

Spec == Init /\ [][Next]_vars
-----------------------------------------------------------------------------
(* What the stage must guarantee. *)

\* The mapping is one to one: a word is mapped to one token and no node's name is
\* written for two words, though a possessive's second name is a number that
\* another token might have had.
OneToOne == \A m, n \in linked :
    (m.id = n.id \/ m.nodes \intersect n.nodes # {}) => m = n

\* Every word is mapped, or reported, or lost its fact as a non-ascii word; never
\* two of these.  The stage leaves words without either only when the parser saw a
\* decimal number.
IsLinked(i) == \E m \in linked : m.id = i
DecimalLeft == \E p \in parser : token[p].text \in Decimal
Accounted == /\ \A i \in Id \ open : \/ IsLinked(i) \/ i \in warned
                                     \/ word[i] \in NonAscii
             /\ \A i \in open : ~IsLinked(i) /\ i \notin warned
             /\ \A i \in warned : ~IsLinked(i)
             /\ Ended /\ open # {} => DecimalLeft

\* A decimal number behind the first token costs all words but the first their
\* mapping, and no word is reported: default_rule1 stops the stage in the first
\* step or not at all, wherever in the sentence the number is.
Seen == parser \union {m.pid : m \in linked} \* the tokens the stage was given
DecimalLosesRest ==
    (NoOfWords > 1 /\ \E p \in Seen \ {1} : token[p].text \in Decimal)
       => warned = {} /\ \A m \in linked : m.id = 1

\* A word is reported only when no unmapped token ahead of it is spelled as it is.
NoMissedMatch == \A i \in warned :
    \A p \in parser : p >= i => token[p].text # word[i]

\* Words other than those of D reached the parser as they were written, equal words
\* were joined alike, and no token is a word with a full stop.
KeptBut(D) ==
    /\ \A i \in Id \ D : place[i] # 0 /\ token[place[i]].text = word[i]
    /\ \A i, j \in Id \ D : word[i] = word[j] => Same(place[i], place[j])
    /\ \A i \in D : place[i] = 0
    /\ \A i \in Id : word[i] \notin Opening
    /\ \A i \in Id, j \in Id \ D : word[j] \in DOMAIN Stem => Stem[word[j]] # word[i]

\* What the other tokens, those of punctuation, are spelled: never as a word.
OthersArePunctuation ==
    /\ \A p \in Pid : (\A i \in Id : place[i] # p) =>
          \A i \in Id : /\ token[p].text \notin {word[i], Low[word[i]]}
                        /\ token[p].text \notin DOMAIN Stem
    /\ place[1] > 1 => token[1].text \in Opening

\* Every word but those of D that waits no longer is mapped, and every mapping is
\* to the word's own token, under all its names.
OwnToken(m) == m.pid = place[m.id] /\ m.nodes = Nodes(m.pid)
AlignedBut(D) == /\ \A i \in Id \ (open \union D) : IsLinked(i)
                 /\ \A m \in linked : OwnToken(m)

\* When the parser kept every word, every word that waits no longer is mapped to its
\* own token, however many punctuation marks, possessives and equal words the
\* sentence has.  (Which words may be left waiting, Accounted says.)
FaithfulAlignment == (KeptBut({}) /\ OthersArePunctuation) => AlignedBut({})

\* Word k is non-ascii, occurs once, and was lost by the parser with no punctuation
\* or possessive before the word after it; no later word is non-ascii.
LostOne(k) == /\ KeptBut({k})
              /\ word[k] \in NonAscii
              /\ \A i \in Id \ {k} : word[i] # word[k] /\ (i > k => word[i] \notin NonAscii)
              /\ k + 1 \in Id => place[k + 1] = k

\* Such a loss does not disturb the mapping of the other words that wait no longer.
NonAsciiRecovered == \A k \in Id \ {1} :
    (LostOne(k) /\ OthersArePunctuation) => AlignedBut({k})

\* When the parser lost one word, default_rule is there "To get the remaining ids"
\* (parserid_wordid_mapping.clp:82): no other word is reported.
RestRecovered ==
    \A k \in Id \ {1} :
       (/\ KeptBut({k}) /\ OthersArePunctuation
        /\ \A i, j \in Id : i # j => word[i] # word[j])
       => warned \subseteq {k}
============================================================================
