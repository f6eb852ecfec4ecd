-------------------------- MODULE MeaningPipeline --------------------------
(***************************************************************************)
(* The two meaning stages of run_modules_std.bat one after the other.      *)
(* Each stage starts with an empty working memory (clear) and loads its    *)
(* facts from files, so the second stage knows of the first only what was  *)
(* written: its control facts come from the same meaning_to_be_decided.dat *)
(* as the first stage's, and the words the first stage has dealt with are  *)
(* known to it only by the compound_meaning_decided facts that stage       *)
(* appended to wsd_facts_output.dat.  The first stage is CompoundMeaning   *)
(* itself; the second an instance of HindiMeaning with a working memory    *)
(* and an output file of its own.                                          *)
(***************************************************************************)
EXTENDS CompoundMeaning, Sequences

CONSTANTS Form, The, Low, Possessive, Strip, Numeric, Plural, Singular,
          Default, Glossary, Mixed, ProperNoun, Translit

VARIABLES
    stage,      \* which stage is running: "compound" or "single"
    control,    \* the facts of meaning_to_be_decided.dat
    \* working memory and output file of the stage for single words
    special, evidence, root, cat, orig, word, dicName, dummyCat, halted,
    wordOpen, wordHM

Single == INSTANCE HindiMeaning WITH toDecide <- wordOpen, hm <- wordHM

singleVars == <<special, evidence, root, cat, orig, word, dicName, dummyCat, halted,
                wordOpen, wordHM>>
pipelineVars == <<stage, control, vars, singleVars>>

\* The compound_meaning_decided facts the second stage will load; before that
\* no word has one.
PipelineInit ==
    /\ stage = "compound"
    /\ Init
    /\ control = toDecide
    /\ Single!Init
    /\ wordOpen = {}
    /\ \A w \in Word : "compound" \notin evidence[w]

RunCompound == /\ stage = "compound"
               /\ Next
               /\ UNCHANGED <<stage, control, singleVars>>

LoadSingle_Faulty == \* the compound_meaning_decided facts are not loaded
    /\ stage = "compound"
    /\ Quiescent
    /\ stage' = "single"
    /\ wordOpen' = control
    /\ UNCHANGED <<control, vars, special, evidence, root, cat, orig, word,
                   dicName, dummyCat, halted, wordHM>>

\* (clear), and the load-facts commands of the next stage.  The first stage never
\* closes its files, but the engine flushes after every printout (sysdep.c:914).
LoadSingle ==
    /\ stage = "compound"
    /\ Quiescent
    /\ stage' = "single"
    /\ wordOpen' = control
    /\ evidence' = [w \in Word |-> evidence[w] \union
                      (IF w \in compDecided THEN {"compound"} ELSE {})]
    /\ UNCHANGED <<control, vars, special, root, cat, orig, word, dicName,
                   dummyCat, halted, wordHM>>

RunSingle == /\ stage = "single"
             /\ Single!Next
             /\ UNCHANGED <<stage, control, vars>>

PipelineNext == RunCompound \/ LoadSingle \/ RunSingle

PipelineSpec == PipelineInit /\ [][PipelineNext]_pipelineVars
PipelineFairSpec == PipelineSpec /\ WF_pipelineVars(PipelineNext)
-----------------------------------------------------------------------------
(* What the two stages must guarantee together. *)

OwnInGroup(w) == {f \in hm : f.id = w /\ f.mng # Dash}
Done == stage = "single" /\ Single!Ended

\* A word that is part of a group, be it only as a "-", gets no meaning from the
\* second stage, and no word gets two meanings of its own.
OneOwnMeaning == \A w \in Word :
    /\ (\E f \in hm : f.id = w) => wordHM[w] = << >>
    /\ \A f, g \in OwnInGroup(w) : f = g

\* When both stages are over every word of meaning_to_be_decided.dat has been
\* written for: as part of a group, by a template, or on its own.
NoneForgotten == Done /\ ~halted =>
    \A w \in control : \/ \E f \in hm : f.id = w
                       \/ "template" \in evidence[w]
                       \/ wordHM[w] # << >>

\* Both stages come to an end.
Terminates == <>[]Done

\* Together they are one stage: what either has written is written, and a word that
\* has its control fact is open until something is written for it.
SingleWritten == {w \in Word : wordHM[w] # << >>}
Whole == INSTANCE MeaningStage WITH
            open <- control \ (Written \union SingleWritten),
            written <- Written \union SingleWritten,
            own <- {f.id : f \in {g \in hm : g.mng # Dash}} \union SingleWritten
ImplementsWhole == Whole!Spec
============================================================================
