-------------------------- MODULE ExpressionAutomaton --------------------------
(***************************************************************************)
(* The automaton of the multi-word expression search: ahocorasick.c and    *)
(* node.c.  A node is named by the characters on the path to it from the   *)
(* root, so an edge is the last character of a name and the trie is a set  *)
(* of names.  Memory management, node numbers and the sorting of edges     *)
(* (which lets the search find an edge by bisection) are left out; so are  *)
(* the settext/findnext interface, which nothing calls, and a callback     *)
(* that stops the search, which match_handler never does.                  *)
(***************************************************************************)
EXTENDS Integers, Sequences, FiniteSets

CONSTANTS Char,
          Entries,     \* what the program offers to ac_automata_add
          Chunks,      \* what it may search in one call
          MaxPattern,  \* AC_PATTRN_MAX_LENGTH
          MaxEntries, MaxRead  \* bounds on the dictionary and the text

ASSUME EntriesAssumption == Entries \subseteq Seq(Char)
ASSUME ChunksAssumption == Chunks \subseteq Seq(Char)

VARIABLES phase,       \* "open", then "union" (in finalize), "closed", "search"
          nodes,
          final,       \* the nodes with their final flag set
          matched,     \* matched_patterns of each node
          failure,     \* failure_node of each node but the root
          pending,     \* all_nodes from i on, in ac_automata_finalize
          node, m,     \* of ac_automata_union_matchstrs
          current, base, text, position,  \* of ac_automata_search
          dictionary,  \* the patterns accepted
          read, found  \* history: the text since the last reset, the callbacks

trie == <<nodes, final, matched, dictionary>>
union == <<pending, node, m>>
search == <<current, base, text, position>>
vars == <<phase, trie, failure, union, search, read, found>>

Matching == INSTANCE ExpressionMatching

Root == << >>
Prefixes(p) == {SubSeq(p, 1, k) : k \in 0..Len(p)}
IsSuffix(u, s) == Matching!EndsAt(u, s, Len(s))

Init == /\ phase = "open"
        /\ nodes = {Root} /\ final = {} /\ matched = [n \in {Root} |-> {}]
        /\ dictionary = {}
        /\ failure = << >>
        /\ pending = {} /\ node = Root /\ m = Root
        /\ current = Root /\ base = 0 /\ text = << >> /\ position = 0
        /\ read = << >> /\ found = {}
-----------------------------------------------------------------------------
\* Mutant: the first pattern of a list keeps every other out.
RegisteredFirst(list, new) == IF list = {} THEN new ELSE list

\* node_register_matchstr for each of a list: node_has_matchstr compares the
\* lengths alone (its inner loop cannot fail), so a list has one per length.
Registered(list, new) ==
    list \cup {q \in new : \A p \in list : Len(p) # Len(q)}

Add(p) ==
    LET all == nodes \cup Prefixes(p)
        own == [n \in all |-> IF n \in nodes THEN matched[n] ELSE {}]
    IN /\ phase = "open" /\ Cardinality(dictionary) < MaxEntries
       /\ Len(p) \in 1..MaxPattern
       /\ nodes' = all
       /\ IF p \in final
          THEN matched' = own /\ UNCHANGED <<final, dictionary>>
          ELSE /\ final' = final \cup {p}
               /\ matched' = [own EXCEPT ![p] = Registered(@, {p})]
               /\ dictionary' = dictionary \cup {p}
       /\ UNCHANGED <<phase, failure, union, search, read, found>>

\* Mutant: the suffixes tried from the whole name.
LongestOrItself(n) ==
    CHOOSE s \in nodes : /\ IsSuffix(s, n)
                         /\ \A t \in nodes : IsSuffix(t, n) => Len(t) <= Len(s)

\* The first i whose suffix of the name is a node; the empty one always is.
LongestSuffix(n) ==
    CHOOSE s \in nodes : /\ IsSuffix(s, n) /\ s # n
                         /\ \A t \in nodes : IsSuffix(t, n) /\ t # n => Len(t) <= Len(s)

\* The first half of ac_automata_finalize: the traversal that sets the failures.
SetFailures == /\ phase = "open"
               /\ failure' = [n \in nodes \ {Root} |-> LongestSuffix(n)]
               /\ pending' = nodes
               /\ phase' = "union"
               /\ UNCHANGED <<trie, node, m, search, read, found>>

\* The second half: for each node, up the failures from it to the root.  The
\* code takes the nodes in the order of their creation; here in any order.
UnionNode == /\ phase = "union" /\ m = Root
             /\ \E n \in pending : node' = n /\ m' = n /\ pending' = pending \ {n}
             /\ UNCHANGED <<phase, trie, failure, search, read, found>>

\* Mutant: the final flag of the failure is not passed on.
ClimbKeepsFlag == /\ phase = "union" /\ m # Root
                  /\ m' = failure[m]
                  /\ matched' = [matched EXCEPT ![node] = Registered(@, matched[failure[m]])]
                  /\ UNCHANGED <<phase, nodes, final, dictionary, failure, pending, node,
                                 search, read, found>>

UnionClimb == /\ phase = "union" /\ m # Root
              /\ m' = failure[m]
              /\ matched' = [matched EXCEPT ![node] = Registered(@, matched[failure[m]])]
              /\ final' = IF failure[m] \in final THEN final \cup {node} ELSE final
              /\ UNCHANGED <<phase, nodes, dictionary, failure, pending, node,
                             search, read, found>>

Close == /\ phase = "union" /\ m = Root /\ pending = {}
         /\ phase' = "closed"
         /\ UNCHANGED <<trie, failure, union, search, read, found>>
-----------------------------------------------------------------------------
\* ac_automata_search, and ac_automata_reset unless the text goes on from the last.
Search(chunk, keep) ==
    /\ phase = "closed"
    /\ (IF keep THEN Len(read) ELSE 0) + Len(chunk) <= MaxRead
    /\ phase' = "search"
    /\ text' = chunk /\ position' = 0
    /\ IF keep
       THEN UNCHANGED <<current, base, read, found>>
       ELSE current' = Root /\ base' = 0 /\ read' = << >> /\ found' = {}
    /\ UNCHANGED <<trie, failure, union>>

Following == Append(current, text[position + 1])

\* An edge for the character: the callback hears of all the node's patterns.
Advance == /\ phase = "search" /\ position < Len(text)
           /\ Following \in nodes
           /\ current' = Following
           /\ position' = position + 1
           /\ read' = Append(read, text[position + 1])
           /\ found' = found \cup
                 (IF Following \in final THEN {position' + base} \X matched[Following]
                                         ELSE {})
           /\ UNCHANGED <<phase, trie, failure, union, base, text>>

\* No edge: to the failure node, with the same character.
Fall == /\ phase = "search" /\ position < Len(text)
        /\ Following \notin nodes /\ current # Root
        /\ current' = failure[current]
        /\ UNCHANGED <<phase, trie, failure, union, base, text, position, read, found>>

\* No edge at the root: the character is passed over.
Skip == /\ phase = "search" /\ position < Len(text)
        /\ Following \notin nodes /\ current = Root
        /\ position' = position + 1
        /\ read' = Append(read, text[position + 1])
        /\ UNCHANGED <<phase, trie, failure, union, current, base, text, found>>

Return == /\ phase = "search" /\ position = Len(text)
          /\ base' = base + position
          /\ phase' = "closed"
          /\ UNCHANGED <<trie, failure, union, current, text, position, read, found>>

Next == \/ \E p \in Entries : Add(p)
        \/ SetFailures \/ UnionNode \/ UnionClimb \/ Close
        \/ \E chunk \in Chunks, keep \in BOOLEAN : Search(chunk, keep)
        \/ Advance \/ Fall \/ Skip \/ Return

Spec == Init /\ [][Next]_vars
\* The program's one thread stays in a call until it returns.
FairSpec == Spec /\ WF_vars(\/ UnionNode \/ UnionClimb \/ Close
                            \/ Advance \/ Fall \/ Skip \/ Return)
-----------------------------------------------------------------------------
Position == base + (IF phase = "search" THEN position ELSE 0)

TypeOK == /\ phase \in {"open", "union", "closed", "search"}
          /\ nodes \subseteq Seq(Char) /\ Root \in nodes
          /\ dictionary \subseteq nodes /\ final \subseteq nodes
          /\ matched \in [nodes -> SUBSET dictionary]
          /\ pending \subseteq nodes /\ node \in nodes /\ m \in nodes
          /\ phase # "open" => failure \in [nodes \ {Root} -> nodes]
          /\ current \in nodes
          /\ text \in Seq(Char) /\ base \in Nat /\ position \in 0..Len(text)
          /\ read \in Seq(Char) /\ Position = Len(read)

\* Registering a pattern by its length loses none: once the lists are joined, a
\* node has every pattern that its name ends with, and is final when there is one.
ListsComplete ==
    phase \in {"closed", "search"} =>
        \A n \in nodes :
            /\ matched[n] = {p \in dictionary : IsSuffix(p, n)}
            /\ n \in final <=> matched[n] # {}

\* Between characters the automaton is in the longest node that the text read ends
\* with; on the way there it has passed over only nodes without an edge for the
\* next character.
LongestNode ==
    phase \in {"closed", "search"} =>
        /\ IsSuffix(current, read)
        /\ \A n \in nodes :
              IsSuffix(n, read) /\ Len(n) > Len(current) =>
                  /\ phase = "search" /\ position < Len(text)
                  /\ Append(n, text[position + 1]) \notin nodes

\* The callback has heard of every occurrence in the text, across the chunks of a
\* search that goes on, and of nothing else.
FoundExact == found = Matching!Occurrences(dictionary, read)

\* ac_automata_finalize and ac_automata_search come to their ends: the failures
\* they go along lead to the root.
CallsEnd == phase \in {"union", "search"} ~> phase = "closed"

\* The automaton is a search of the dictionary's expressions.
Implements == Matching!Spec
================================================================================
