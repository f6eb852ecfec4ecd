----------------------------- MODULE MCBestMatch -----------------------------
(* Groups over a sentence of four words, as many as four at a time.          *)
EXTENDS BestMatch, FiniteSetsExt

CONSTANTS p, q, r, s

G(first, last, mng, rank) == [first |-> first, last |-> last, mng |-> mng, rank |-> rank]

(* The common word of two groups that meet ends the one's meaning and begins *)
(* the other's, or does not; <<q>> is the meaning of a single word.          *)
Pool ==
    {G(1, 2, <<p, q>>, 1), G(1, 2, <<p, q>>, 2), G(1, 2, <<s>>, 2),
     G(2, 3, <<q, r>>, 1), G(2, 3, <<q, r, q>>, 2),
     G(3, 4, <<s, r>>, 1), G(3, 4, <<r, s>>, 2),
     G(1, 3, <<p, r>>, 1), G(2, 4, <<s>>, 2),
     G(2, 2, <<q>>, 1), G(2, 2, <<q>>, 2), G(3, 3, <<q>>, 2)}

MCFoundSets == {S \in SUBSET Pool : Cardinality(S) \leq 4}
MCDomainSets ==
    {{G(1, 2, <<p>>, 1), G(1, 3, <<q>>, 1)},
     {G(1, 2, <<p>>, 1), G(1, 2, <<q>>, 1), G(2, 2, <<p>>, 1)}}
=============================================================================
