------------------------------ MODULE MCBatchRun ------------------------------
(* Two runs, which may be given a text of the same name; symmetric choices    *)
(* are left out.                                                             *)
EXTENDS BatchRun

CONSTANTS r1, r2, n1, n2, physics, agriculture, chemistry

(* Runs on texts of one name meet in the directory, others in the dictionary. *)
MCInit ==
    /\ Init
    /\ name[r1] = n1 /\ source = agriculture
    /\ \/ /\ name[r2] = n1
          /\ length[r1] = 2 /\ length[r2] = 1
          /\ domain[r1] \in {physics, General} /\ domain[r2] = General
       \/ /\ name[r2] = n2
          /\ length[r1] = 1 /\ length[r2] = 1
          /\ domain[r1] = physics /\ domain[r2] # General

MCFairSpec == MCInit /\ [][Next]_vars /\ Fairness
===============================================================================
