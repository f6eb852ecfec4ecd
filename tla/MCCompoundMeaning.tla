------------------------- MODULE MCCompoundMeaning -------------------------
(* A four-word sentence with an overlapping group of every kind. *)
EXTENDS CompoundMeaning

MCWord == 1..4
MCMeaning == {"m1", "m2", "m3", "m4", "m5", "m6"}
MCSen == {[ids |-> 1..4, head |-> 4, mng |-> "m1"],
          [ids |-> {1}, head |-> 1, mng |-> "m2"]}
MCChunk == {[ids |-> {1}, last |-> 2, passive |-> FALSE],
            [ids |-> {3}, last |-> 4, passive |-> TRUE]}
MCWsd == {[ids |-> {3}, head |-> 2, mng |-> "m2", typ |-> "word"],
          [ids |-> {2, 3}, head |-> 4, mng |-> "m3", typ |-> "root"]}
MCDb == {[ids |-> 2..4, head |-> 4, mng |-> "m4", typ |-> "WM", priority |-> 1],
         [ids |-> 3..4, head |-> 3, mng |-> "m5", typ |-> "RM", priority |-> 2]}
MCDom == {[ids |-> 3..4, head |-> 4, mng |-> "m5", typ |-> "WM"],
          [ids |-> {1, 3}, head |-> 1, mng |-> "m5", typ |-> "RM"]}
MCPhrasal == {[verb |-> 2, particle |-> 3, mng |-> "m6", found |-> TRUE]}
MCTyped == {4}
============================================================================
