----------------------------- MODULE BlockHandOut -----------------------------
(***************************************************************************)
(* split_file.c: deals the blocks of a file, one per sentence with a line  *)
(* ";~~~~~~~~~~" after each, out to the directories of dir_names.txt.      *)
(* Nothing in a block says whose it is: the n-th goes to the n-th name.    *)
(* Lines are opaque.  (A line of more than 255 characters is copied in     *)
(* pieces.  A missing input file ends the program before it has written    *)
(* anything: here both are there.)                                         *)
(***************************************************************************)
EXTENDS Sequences, Integers, FiniteSets

CONSTANTS Name,      \* the directories there may be
          Line,      \* the lines there may be
          Separator  \* the line between blocks

VARIABLES names,    \* dir_names.txt
          stream,   \* the file to be dealt out
          next,     \* the name to be read next
          at,       \* the line to be read next
          copying,  \* a file of a directory is open
          given     \* what its file has in each directory: places in the stream

dealVars == <<names, stream, next, at, copying, given>>

\* The directory whose file is open.
Current == names[next - 1]

DealInit == /\ names \in Seq(Name) /\ \A k, l \in DOMAIN names : names[k] = names[l] => k = l
        /\ stream \in Seq(Line)
        /\ next = 1 /\ at = 1
        /\ copying = FALSE
        /\ given = [n \in Name |-> << >>]

OpenNext ==
    /\ ~copying /\ next <= Len(names)
    /\ given' = [given EXCEPT ![names[next]] = << >>]
    /\ next' = next + 1
    /\ copying' = TRUE
    /\ UNCHANGED <<names, stream, at>>

CopyLine_Faulty ==  \* a line is read in the test and another in the loop
    /\ copying /\ at <= Len(stream)
    /\ stream[at] # Separator
    /\ given' = [given EXCEPT ![Current] = Append(@, at)]
    /\ at' = at + 2
    /\ UNCHANGED <<names, stream, next, copying>>

CopyLine ==
    /\ copying /\ at <= Len(stream)
    /\ stream[at] # Separator
    /\ given' = [given EXCEPT ![Current] = Append(@, at)]
    /\ at' = at + 1
    /\ UNCHANGED <<names, stream, next, copying>>

CloseAtSeparator_Faulty ==  \* the separator is left for the next directory
    /\ copying /\ at <= Len(stream)
    /\ stream[at] = Separator
    /\ copying' = FALSE
    /\ UNCHANGED <<names, stream, next, at, given>>

CloseAtSeparator ==
    /\ copying /\ at <= Len(stream)
    /\ stream[at] = Separator
    /\ at' = at + 1
    /\ copying' = FALSE
    /\ UNCHANGED <<names, stream, next, given>>

CloseAtEnd ==
    /\ copying /\ at > Len(stream)
    /\ copying' = FALSE
    /\ UNCHANGED <<names, stream, next, at, given>>

DealNext == OpenNext \/ CopyLine \/ CloseAtSeparator \/ CloseAtEnd

DealSpec == DealInit /\ [][DealNext]_dealVars

Done == ~copying /\ next > Len(names)
-----------------------------------------------------------------------------
Separators == {q \in 1..Len(stream) : stream[q] = Separator}
SeparatorsBefore(p) == Cardinality({q \in 1..(p - 1) : q \in Separators})

\* The places of the k-th block of the stream.
Block(k) == {p \in (1..Len(stream)) \ Separators : SeparatorsBefore(p) = k - 1}

DealTypeOK ==
    /\ names \in Seq(Name)
    /\ stream \in Seq(Line)
    /\ next \in 1..(Len(names) + 1)
    /\ at \in 1..(Len(stream) + 1)
    /\ copying \in BOOLEAN
    /\ copying => next > 1
    /\ given \in [Name -> Seq(1..Len(stream))]

Increasing(s) == \A i, j \in DOMAIN s : i < j => s[i] < s[j]
Places(s) == {s[i] : i \in DOMAIN s}

Closed(k) == k < next /\ (copying => k < next - 1)

\* When the file of the k-th directory is closed it has the lines of the k-th
\* block, all of them, in their order, and nothing later changes it.
BlocksByPosition ==
    \A k \in DOMAIN names : Closed(k) =>
        /\ Places(given[names[k]]) = Block(k)
        /\ Increasing(given[names[k]])
============================================================================
