--------------------------- MODULE ExpressionMatching ---------------------------
(***************************************************************************)
(* What a search of a text for the expressions of a dictionary promises,   *)
(* whatever structure it searches with: as the text is read, every         *)
(* occurrence of every expression, each with the position where it ends.   *)
(***************************************************************************)
EXTENDS Integers, Sequences

CONSTANTS Char, Entries

VARIABLES dictionary,  \* the expressions searched for
          read,        \* the text since the search last started afresh
          found        \* <<k, p>>: p reported as ending after k characters of it

vars == <<dictionary, read, found>>

\* Expression p ends after the k-th character of text s.
EndsAt(p, s, k) == /\ k \in Len(p)..Len(s)
                   /\ \A i \in 1..Len(p) : p[i] = s[k - Len(p) + i]

Occurrences(dict, s) ==
    {o \in (1..Len(s)) \X dict : EndsAt(o[2], s, o[1])}

Init == dictionary = {} /\ read = << >> /\ found = {}

\* Expressions are learnt before anything is read.
Learn(p) == /\ read = << >> /\ found = {}
            /\ p # << >>
            /\ dictionary' = dictionary \cup {p}
            /\ UNCHANGED <<read, found>>

Read(c) == /\ read' = Append(read, c)
           /\ found' = found \cup
                 {o \in {Len(read')} \X dictionary : EndsAt(o[2], read', Len(read'))}
           /\ UNCHANGED dictionary

Restart == /\ read' = << >> /\ found' = {}
           /\ UNCHANGED dictionary

Next == \/ \E p \in Entries : Learn(p)
        \/ \E c \in Char : Read(c)
        \/ Restart

Spec == Init /\ [][Next]_vars
================================================================================
