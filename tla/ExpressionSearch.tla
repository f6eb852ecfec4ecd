--------------------------- MODULE ExpressionSearch ---------------------------
(***************************************************************************)
(* The search of the tokenised sentences for multi-word expressions: the   *)
(* four programs multi_word_expression*.c, which differ in whether they    *)
(* search the lower-cased line too (lowers) and in whether their table     *)
(* has punctuation (counts; without it their ids are words', with it       *)
(* tokens'), and the rules of parser_id_mapping.clp that turn tokens' ids  *)
(* into words'.                                                            *)
(*                                                                         *)
(* A token is a sequence of characters, none of them an underscore:        *)
(* replace_underscore_with_hyphen.py has been over the text.  The          *)
(* automaton is replaced by what it promises, ExpressionMatching.  Lines   *)
(* that overrun the arrays are left out.                                   *)
(***************************************************************************)
EXTENDS Integers, FiniteSets, Sequences

CONSTANTS Char,            \* what tokens are made of
          Separator, Newline, Null,
          Word,            \* tokens that are words
          Listed,          \* punctuation that check_for_punctuation knows
          Unlisted,        \* punctuation that it does not: brackets, braces
          Lower,           \* tolower, on words
          Programs,        \* records of lowers, counts and the dictionary's
                           \* expressions, which are sequences of tokens
          BufferSize, LineSize,  \* of buffer and input_line: 2500 and 10000
          FirstSize,       \* what getline first allocates
          Residues,        \* what the stack may hold where nothing was written
          UndefinedIds,    \* what word_ids may be where nothing was assigned
          Lines, MaxLines  \* the lines of the file; how many are read

Token == Word \cup Listed \cup Unlisted
Expression == Seq(Seq(Char) \ {<< >>}) \ {<< >>}

ASSUME CharAssumption == /\ {Separator, Newline, Null} \cap Char = {}
                         /\ Separator # Newline /\ Separator # Null /\ Newline # Null

ASSUME TokenAssumption == /\ Token \subseteq Seq(Char) \ {<< >>}
                          /\ Word \cap Listed = {}
                          /\ Lower \in [Word -> Word]
                          /\ \A w \in Word : Len(Lower[w]) = Len(w)

\* A domain's expressions have no punctuation.
ASSUME ProgramsAssumption ==
    /\ Programs \subseteq [lowers : BOOLEAN, counts : BOOLEAN, expressions : SUBSET Expression]
    /\ \A p \in Programs : ~ p.counts =>
           \A e \in p.expressions : \A j \in 1..Len(e) : e[j] \notin Listed

ASSUME SizesAssumption == /\ BufferSize \in Nat \ {0} /\ LineSize \in Nat
                          /\ FirstSize \in Nat
                          /\ \E n \in 0..LineSize : LineSize = n * BufferSize

ASSUME ResiduesAssumption == Residues \subseteq Seq(Char \cup {Separator, Newline})

VARIABLES program,      \* the one that runs
          line,         \* the line, as tokens; the next three hold its characters
          input_line,   \* an array, which is never cleared
          len,          \* what getline has allocated
          table,        \* offset_no and word_id: only written from the front
          mapping,      \* the multifast_id-wordid facts of the line
          loop,         \* "idle" between lines, "original", "lower"
          chunk_start,
          printed,      \* the facts of the line, each with where it was found
          \* history: how many lines, the longest's characters, and whether a copy ran
          \* into what the stack holds
          lines_read, longest, spilled

vars == <<program, line, input_line, len, table, mapping, loop, chunk_start, printed,
          lines_read, longest, spilled>>

Matching == INSTANCE ExpressionMatching
               WITH Entries <- {}, dictionary <- {}, read <- << >>, found <- {}

\* Where the underscores are: in front, and after each token.
Ends(tokens) ==
    LET end[i \in 0..Len(tokens)] == IF i = 0 THEN 1 ELSE end[i - 1] + Len(tokens[i]) + 1
    IN end
EndOf(tokens, i) == Ends(tokens)[i]

\* Tokens between underscores, and what the last is followed by.
Joined(tokens, last) ==
    LET size == EndOf(tokens, Len(tokens))
        TokenAt(k) == CHOOSE i \in 1..Len(tokens) : EndOf(tokens, i - 1) < k /\ k <= EndOf(tokens, i)
        CharAt(k) == Append(tokens[TokenAt(k)], Separator)[k - EndOf(tokens, TokenAt(k) - 1)]
    IN [k \in 1..size |-> IF k = size THEN last ELSE IF k = 1 THEN Separator ELSE CharAt(k)]

Text(tokens) == Joined(tokens, Newline)
Pattern(expression) == Joined(expression, Separator)
Lowercase(tokens) == [i \in DOMAIN tokens |->
                         IF tokens[i] \in Word THEN Lower[tokens[i]] ELSE tokens[i]]

ASSUME LinesAssumption ==
    \A l \in Lines : l \in Seq(Token) \ {<< >>} /\ Len(Text(l)) < LineSize

Init == /\ program \in Programs
        /\ line = << >> /\ mapping = << >> /\ printed = {}
        /\ input_line = [k \in 1..LineSize |-> Null]
        /\ len = 0 /\ table = << >>
        /\ loop = "idle" /\ chunk_start = 0
        /\ lines_read = 0 /\ longest = 0 /\ spilled = FALSE
-----------------------------------------------------------------------------
IsPunctuation(token) == token \in Listed

\* The elements of s that are in S, in their order.
Among(s, S) ==
    LET at == {i \in 1..Len(s) : s[i] \in S}
        kept[n \in 0..Len(s)] == IF n = 0 THEN << >>
                                 ELSE IF n \in at THEN Append(kept[n - 1], s[n]) ELSE kept[n - 1]
    IN kept[Len(s)]

UpTo(first, last) == [i \in 1..(last - first + 1) |-> first + i - 1]

\* The tokens up to the i-th that count as words.
Counted(tokens, i) == Cardinality({j \in 1..i : ~ IsPunctuation(tokens[j])})

\* An entry for each token that a space follows: where it ends, and its id.
Entries(tokens) ==
    LET entered == Among(UpTo(1, Len(tokens) - 1),
                         {i \in 1..Len(tokens) : program.counts \/ ~ IsPunctuation(tokens[i])})
    IN [k \in 1..Len(entered) |->
           [offset |-> EndOf(tokens, entered[k]),
            id |-> IF program.counts THEN entered[k] ELSE Counted(tokens, entered[k])]]

WordIds(tokens) ==
    [i \in {i \in 1..(Len(tokens) - 1) : ~ IsPunctuation(tokens[i])} |-> Counted(tokens, i)]

Larger(m, n) == IF m >= n THEN m ELSE n

Overwrite(old, new) == [k \in 1..Larger(Len(old), Len(new)) |->
                           IF k <= Len(new) THEN new[k] ELSE old[k]]

Allocated(needed) == IF needed <= len THEN len
                     ELSE Larger(FirstSize, Larger(2 * len, needed))

\* Mutant: the line is copied without the character that ends it.
ReadUnended(l) ==
    LET n == Len(Text(l)) - 1
    IN /\ loop = "idle" /\ lines_read < MaxLines
       /\ line' = l
       /\ len' = Allocated(n + 1)
       /\ input_line' = [k \in 1..LineSize |->
                            IF k <= n + 1 THEN Text(l)[k]
                            ELSE IF k = len' + 1 THEN Separator ELSE input_line[k]]
       /\ table' = Overwrite(table, Entries(l))
       /\ mapping' = WordIds(l)
       /\ printed' = {} /\ chunk_start' = 0 /\ loop' = "original"
       /\ lines_read' = lines_read + 1 /\ longest' = Larger(longest, n)
       /\ UNCHANGED <<program, spilled>>

\* getline, strcpy and replace_space_with_underscore; the underscore meant for the
\* newline goes where getline's buffer ends.
ReadLine(l) ==
    LET n == Len(Text(l)) - 1
    IN /\ loop = "idle" /\ lines_read < MaxLines
       /\ line' = l
       /\ len' = Allocated(n + 1)
       /\ input_line' = [k \in 1..LineSize |->
                            IF k <= n + 1 THEN Text(l)[k]
                            ELSE IF k = len' + 1 THEN Separator
                            ELSE IF k = n + 2 THEN Null ELSE input_line[k]]
       /\ table' = Overwrite(table, Entries(l))
       /\ mapping' = WordIds(l)
       /\ printed' = {} /\ chunk_start' = 0 /\ loop' = "original"
       /\ lines_read' = lines_read + 1 /\ longest' = Larger(longest, n)
       /\ UNCHANGED <<program, spilled>>

Least(S) == CHOOSE x \in S : \A y \in S : x <= y
Greatest(S) == CHOOSE x \in S : \A y \in S : x >= y

\* A string ends before its first Null.
String(s) == LET ends == {k \in 1..Len(s) : s[k] = Null}
             IN IF ends = {} THEN s ELSE SubSeq(s, 1, Least(ends) - 1)

\* Mutant: a character of the buffer is kept for the Null.
ChunkTerminated == String(SubSeq(input_line, chunk_start + 1, chunk_start + BufferSize - 1))

Chunk == String(SubSeq(input_line, chunk_start + 1, chunk_start + BufferSize))

Matches == {o \in (1..Len(Chunk)) \X program.expressions :
               Matching!EndsAt(Pattern(o[2]), Chunk, o[1])}

\* Mutant: the table is looked through from its end.
LastEntries(position) ==
    LET found == {k \in DOMAIN table : table[k].offset = position}
    IN IF found = {} THEN {} ELSE {table[Greatest(found)].id}

\* The first entry with the position, if one has it.
EntryFor(position) ==
    LET found == {k \in DOMAIN table : table[k].offset = position}
    IN IF found = {} THEN {} ELSE {table[Least(found)].id}

\* match_handler, for all matches in a buffer: as many ids as the expression has
\* tokens, back from the one found; with none found the variable is undefined.
Report(undefined) ==
    {[expression |-> o[2],
      ids |-> LET last == IF EntryFor(o[1]) # {} THEN CHOOSE id \in EntryFor(o[1]) : TRUE
                                                 ELSE undefined[o[1]]
              IN [i \in 1..Len(o[2]) |-> last - Len(o[2]) + i],
      from |-> chunk_start, at |-> o[1]] : o \in Matches}

SearchBuffer ==
    /\ \/ loop = "original" /\ chunk_start < LineSize
       \/ loop = "lower" /\ chunk_start < Len(String(input_line))
    /\ \E undefined \in [{o[1] : o \in {p \in Matches : EntryFor(p[1]) = {}}} -> UndefinedIds] :
          printed' = printed \cup Report(undefined)
    /\ chunk_start' = chunk_start + BufferSize
    /\ UNCHANGED <<program, line, input_line, len, table, mapping, loop, lines_read, longest,
                   spilled>>

\* strcpy of the lower-cased line; when the underscore has replaced the character
\* that ends it, also of what the stack holds behind it.
ToLower ==
    /\ loop = "original" /\ chunk_start >= LineSize /\ program.lowers
    /\ \E residue \in Residues :
          LET text == Text(Lowercase(line)) \o
                         (IF len = Len(Text(line)) THEN <<Separator>> \o residue ELSE << >>)
          IN /\ input_line' = [k \in 1..LineSize |->
                                  IF k <= Len(text) THEN text[k]
                                  ELSE IF k = Len(text) + 1 THEN Null ELSE input_line[k]]
             /\ spilled' = (spilled \/ Len(text) > Len(Text(line)) + 1)
    /\ chunk_start' = 0
    /\ loop' = "lower"
    /\ UNCHANGED <<program, line, len, table, mapping, printed, lines_read, longest>>

EndLine == /\ \/ loop = "original" /\ chunk_start >= LineSize /\ ~ program.lowers
              \/ loop = "lower" /\ chunk_start >= Len(String(input_line))
           /\ loop' = "idle"
           /\ UNCHANGED <<program, line, input_line, len, table, mapping, chunk_start, printed,
                          lines_read, longest, spilled>>

Next == \/ \E l \in Lines : ReadLine(l)
        \/ SearchBuffer \/ ToLower \/ EndLine

Spec == Init /\ [][Next]_vars
-----------------------------------------------------------------------------
\* map_mwe and remove_punc_ids_in_mwe: an M id becomes its word's or goes.
Resolved(ids) ==
    IF program.counts
    THEN LET known == Among(ids, DOMAIN mapping)
         IN [i \in 1..Len(known) |-> mapping[known[i]]]
    ELSE ids

IsWord(token) == token \in Word

\* The words among tokens first to last, as word.c numbers them.
WordsOf(first, last) ==
    LET words == Among(UpTo(first, last), {i \in 1..Len(line) : IsWord(line[i])})
    IN [i \in 1..Len(words) |-> Cardinality({j \in 1..words[i] : IsWord(line[j])})]

\* Found in the line's first buffer, and before the line's end.
InFirstBuffer(f) == f.from = 0 /\ f.at <= Len(Text(line))

\* A fact from the first buffer names the words of its expression and no other,
\* whatever the table holds from the lines before.
NamesItsWords ==
    \A f \in printed : InFirstBuffer(f) =>
        \E last \in 1..Len(line) :
            /\ EndOf(line, last) = f.at
            /\ Resolved(f.ids) = WordsOf(last - Len(f.expression) + 1, last)

\* Every expression in the first buffer of the line, as it is or lower-cased, is
\* reported where it is, but for one that the end of the line ends.
Reported == {<<f.at, Pattern(f.expression)>> : f \in {g \in printed : InFirstBuffer(g)}}
FirstBuffer(s) == SubSeq(s, 1, IF Len(s) < BufferSize THEN Len(s) ELSE BufferSize)
OccurrencesIn(tokens) == Matching!Occurrences({Pattern(e) : e \in program.expressions},
                                              FirstBuffer(Text(tokens)))
FoundInBuffer ==
    (loop = "idle" /\ lines_read > 0) =>
        Reported = OccurrencesIn(line) \cup
                   (IF program.lowers THEN OccurrencesIn(Lowercase(line)) ELSE {})

\* Expression e starts after the i-th token.
StartsAfter(e, tokens, i) == /\ i + Len(e) <= Len(tokens)
                             /\ \A j \in 1..Len(e) : tokens[i + j] = e[j]
Occurs(e, tokens) == \E i \in 0..Len(tokens) : StartsAfter(e, tokens, i)

\* An expression that the line does not have is reported only where an earlier and
\* longer line reached past the first buffer, or where a copy ran into the stack.
ForeignOnlyBehindLonger ==
    \A f \in printed :
        ~ (Occurs(f.expression, line) \/ Occurs(f.expression, Lowercase(line)))
          => \/ spilled
             \/ f.from > 0 /\ longest >= Len(Text(line)) /\ longest >= BufferSize
===============================================================================
