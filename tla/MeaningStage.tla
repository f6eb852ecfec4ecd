---------------------------- MODULE MeaningStage ----------------------------
(***************************************************************************)
(* What a stage that decides meanings promises to the stages around it,    *)
(* whatever its rules: CompoundMeaning and HindiMeaning are shown to       *)
(* implement it.  A word is open while it has a (meaning_to_be_decided id) *)
(* fact.  A step may close words, cover words (an id-HM-source fact that   *)
(* holds "-"), and give words a meaning of their own; it gives one only to *)
(* an open word for which nothing was written, and closes that word in the *)
(* same step.                                                              *)
(***************************************************************************)
CONSTANT Word

VARIABLES
    open,     \* words with a control fact
    written,  \* words for which the stage has written an id-HM-source fact
    own       \* those that were given a meaning of their own

vars == <<open, written, own>>

Init == /\ open \subseteq Word
        /\ written = {}
        /\ own = {}

Given == own' \ own

Step == /\ open' \subseteq open
        /\ written \subseteq written' /\ written' \subseteq Word
        /\ own \subseteq own' /\ own' \subseteq written'
        /\ Given \subseteq open \ written
        /\ Given \intersect open' = {}

Spec == Init /\ [][Step]_vars
============================================================================
