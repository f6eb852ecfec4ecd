------------------------- MODULE MCMeaningPipeline -------------------------
(***************************************************************************)
(* Three words: the compound stage chooses among an overlapping WSD group, *)
(* a dictionary group, a verb chunk and a phrasal verb; the words left to  *)
(* the second stage differ in what is known of them.                       *)
(***************************************************************************)
EXTENDS MeaningPipeline

MCWord == 1..3
MCMeaning == {"m1", "m2", "m3"}
MCChunk == {[ids |-> {1}, last |-> 2, passive |-> FALSE]}
MCWsd == {[ids |-> {2}, head |-> 3, mng |-> "m1", typ |-> "word"]}
MCDb == {[ids |-> 2..3, head |-> 2, mng |-> "m2", typ |-> "RM", priority |-> 2]}
MCDom == {[ids |-> {1, 3}, head |-> 1, mng |-> "m2", typ |-> "WM"]}
MCPhrasal == {[verb |-> 2, particle |-> 3, mng |-> "m3", found |-> TRUE]}
MCForm == {"run", "Run", "unseen", "12", "12's"}
MCLow == [f \in MCForm |-> IF f = "Run" THEN "run" ELSE f]
MCPossessive == {"12's"}
MCStrip == [f \in MCPossessive |-> "12"]
MCSingular == << >>
MCDefault == {<<"run", "verb">>}

\* What the second stage will find: the same for the first word always, a
\* numeric proper noun or a particle for the third.
MCInit ==
    /\ stage = "compound"
    /\ Init /\ control = toDecide
    /\ special = FALSE
    /\ \E e \in {{}, {"wsd_word"}, {"template"}} : evidence = <<{}, {"wsd_root"}, e>>
    /\ root = <<"run", "unseen", "run">>
    /\ \E third \in {<<"12's", "PropN">>, <<"Run", "particle">>} :
         /\ orig = <<"Run", "unseen", third[1]>>
         /\ cat = <<"noun", "verb", third[2]>>
    /\ word = [w \in Word |-> Low[orig[w]]]
    /\ dicName = FALSE /\ dummyCat = FALSE /\ halted = FALSE
    /\ wordOpen = {}
    /\ wordHM = [w \in Word |-> << >>]

MCSpec == MCInit /\ [][PipelineNext]_pipelineVars /\ WF_pipelineVars(PipelineNext)
============================================================================
