-------------------------- MODULE MCHindiMeaning --------------------------
(***************************************************************************)
(* Two words, of which the first may be "the".  The forms are chosen so    *)
(* that every dictionary rule has a form that only it finds.               *)
(***************************************************************************)
EXTENDS HindiMeaning

MCWord == 1..2
MCForm == {"the", "run", "Run", "Run's", "Ram", "ram", "1980", "1980's",
           "keepers-s", "keeper", "unseen", "Unseen"}
MCLow == [f \in MCForm |-> CASE f = "Run" -> "run" [] f = "Run's" -> "unseen"
                             [] f = "Ram" -> "ram" [] f = "Unseen" -> "unseen"
                             [] OTHER -> f]
MCPossessive == {"Run's", "1980's"}
MCStrip == [f \in MCPossessive |-> IF f = "Run's" THEN "Run" ELSE "1980"]
MCNumeric == {"1980"}
MCPlural == {"keepers-s"}
MCSingular == [f \in MCPlural |-> "keeper"]
MCDefault == {<<"run", "verb">>, <<"run", "noun">>, <<"ram", "adjective">>,
              <<"keeper", "noun">>, <<"the", "noun">>, <<"1980", "noun">>}
MCGlossary == {<<"Run", "verb">>, <<"ram", "noun">>, <<"run", "noun">>}
MCMixed == {<<"1980's", "noun">>, <<"unseen", "verb">>}
MCProperNoun == {"ram", "1980"}
MCTranslit == {"1980's"}

\* The roots a form may have: what it is a form of, or itself when the
\* morphological analyser does not know it.
MCRoots(f) == CASE f \in {"run", "Run", "Run's"} -> {"run", "unseen", f}
                [] f \in {"ram", "Ram"} -> {"ram", f}
                [] f \in {"unseen", "Unseen"} -> {"run", "ram", f}
                [] f = "1980's" -> {"1980", f}
                [] OTHER -> {f}

\* The evidence of the second word: nothing, one kind, or two that compete.
MCEvidence == {{}} \union {{e} : e \in Evidence}
                \union {{"domain_type", e} : e \in {"wsd_word", "wsd_root"}}
                \union {{"template", "wsd_word"}, {"compound", "idiom_root"},
                        {"idiom_root", "wsd_word"}, {"infinitive", "wsd_root"}}

\* The second word is any word; the first is decided already, or is "the", or
\* is a possessive.
MCInit ==
    /\ special \in BOOLEAN
    /\ \E e \in MCEvidence : evidence = <<{}, e>>
    /\ \E first \in {<<"the", "noun", {2}>>, <<"the", "noun", {1, 2}>>,
                      <<"Run's", "PropN", {1, 2}>>} :
         /\ \E f \in Form : /\ orig = <<first[1], f>>
                            /\ \E r \in MCRoots(f) : root = <<first[1], r>>
         /\ \E c \in Cat : cat = <<first[2], c>>
         /\ toDecide = first[3]
    /\ word = [w \in Word |-> Low[orig[w]]]
    /\ dicName = FALSE /\ dummyCat = FALSE /\ halted = FALSE
    /\ hm = [w \in Word |-> << >>]

MCSpec == MCInit /\ [][Next]_vars
============================================================================
