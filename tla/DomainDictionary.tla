--------------------------- MODULE DomainDictionary ---------------------------
(****************************************************************************)
(* The dictionary of a text's domain: src/bin/Anusaaraka_stanford.sh, lines  *)
(* 114 to 120, and the part of src/multifast-v1.4.2/src/Makefile they use.   *)
(*                                                                          *)
(* Every run on a text of some domain copies the domain's dictionary over    *)
(* domain_multi_dic.c in the source directory that all runs share, removes   *)
(* the search program, makes it and runs it.  Nothing keeps two runs apart.  *)
(*                                                                          *)
(* Of a file only the domain it was made from is kept.  cc reads and writes  *)
(* in one step.                                                              *)
(****************************************************************************)
EXTENDS Naturals, FiniteSets

CONSTANTS
    Runs,        \* the runs of the script, of which several may be active
    Domains,     \* the fourth argument's values but for "general"
    Available,   \* the domains there is a dictionary for
    General,     \* the fourth argument is "general" or missing
    None         \* no file

ASSUME DomainsAssumption == /\ Available \subseteq Domains
                            /\ General \notin Domains
                            /\ None \notin Domains \cup {General}

(* The command that a run is at, by the line of the script.                  *)
Before == {"rm", "mkdir", "cp", "format", "word", "search"}                   \* to 112
Dictionary == {"rm_dic", "compile", "link", "run_dic"}                       \* 117 to 119
After == {"split", "read", "loop", "clips", "collect", "browse", "done"}     \* from 122
Commands == Before \cup {"cp_dic"} \cup Dictionary \cup After \cup {"killed"}

VARIABLES
    at,         \* the command that each run is at
    domain,     \* each run's fourth argument
    source,     \* domain_multi_dic.c
    object,     \* multi_word_expression_for_domain.o
    binary,     \* multi_word_expression_for_domain
    relink,     \* make has found that the program must be linked
    searched,   \* the dictionary each run's expressions were searched in
    rivals      \* the runs that touched these files in the course of a run's

dictionaryVars == <<at, domain, source, object, binary, relink, searched, rivals>>

DictionaryInit ==
    /\ domain \in [Runs -> Domains \cup {General}]
    /\ at = [r \in Runs |-> "rm"]
    /\ source \in Available
    /\ object = source /\ binary = source
    /\ relink = [r \in Runs |-> FALSE]
    /\ searched = [r \in Runs |-> None]
    /\ rivals = [r \in Runs |-> {}]

-----------------------------------------------------------------------------
Go(r, command) == at' = [at EXCEPT ![r] = command]

\* r is between its copy of the dictionary and the search.
Making(r) == at[r] \in Dictionary

\* What r does now happens to every other run that is making the program.
Disturb(r) ==
    rivals' = [s \in Runs |-> IF s = r THEN IF at[r] = "cp_dic" THEN {} ELSE rivals[r]
                              ELSE IF Making(s) THEN rivals[s] \cup {r} ELSE rivals[s]]

(* cp $4_multi_dic.c domain_multi_dic.c: without a dictionary of that name    *)
(* the last run's stays.                                                     *)
cp_dic(r) ==
    /\ at[r] = "cp_dic"
    /\ source' = IF domain[r] \in Available THEN domain[r] ELSE source
    /\ Disturb(r)
    /\ Go(r, "rm_dic")
    /\ UNCHANGED <<domain, object, binary, relink, searched>>

\* Mutant: the program is removed, the object file is not.
rm_binary_only(r) ==
    /\ at[r] = "rm_dic"
    /\ binary' = None
    /\ Disturb(r)
    /\ Go(r, "compile")
    /\ UNCHANGED <<domain, source, object, relink, searched>>

rm_dic(r) ==
    /\ at[r] = "rm_dic"
    /\ object' = None /\ binary' = None
    /\ Disturb(r)
    /\ Go(r, "compile")
    /\ UNCHANGED <<domain, source, relink, searched>>

(* make does not know that the object file depends on domain_multi_dic.c: it  *)
(* compiles if there is no object file, and links if it compiled or there is  *)
(* no program.                                                               *)
compile(r) ==
    /\ at[r] = "compile"
    /\ object' = IF object = None THEN source ELSE object
    /\ relink' = [relink EXCEPT ![r] = object = None \/ binary = None]
    /\ Disturb(r)
    /\ Go(r, "link")
    /\ UNCHANGED <<domain, source, binary, searched>>

link(r) ==
    /\ at[r] = "link"
    /\ binary' = IF relink[r] /\ object # None THEN object ELSE binary
    /\ Disturb(r)
    /\ Go(r, "run_dic")
    /\ UNCHANGED <<domain, source, object, relink, searched>>

run_dic(r) ==
    /\ at[r] = "run_dic"
    /\ searched' = [searched EXCEPT ![r] = binary]
    /\ Go(r, "split")
    /\ UNCHANGED <<domain, source, object, binary, relink, rivals>>

MakeDictionary(r) == cp_dic(r) \/ rm_dic(r) \/ compile(r) \/ link(r) \/ run_dic(r)

\* What follows the search programs, by the test of line 114.
Then(r) == IF domain[r] # General THEN "cp_dic" ELSE "split"

(* The rest of the script leaves these files alone.  A run may be killed     *)
(* anywhere.                                                                *)
OtherCommand(r) ==
    /\ \/ at[r] \in Before /\ \E command \in Before \cup {Then(r)} : Go(r, command)
       \/ at[r] \in After /\ \E command \in After : Go(r, command)
       \/ Go(r, "killed")
    /\ UNCHANGED <<domain, source, object, binary, relink, searched, rivals>>

DictionaryNext == \E r \in Runs : MakeDictionary(r) \/ OtherCommand(r)

DictionarySpec == DictionaryInit /\ [][DictionaryNext]_dictionaryVars

-----------------------------------------------------------------------------
DictionaryTypeOK ==
    /\ at \in [Runs -> Commands]
    /\ domain \in [Runs -> Domains \cup {General}]
    /\ source \in Available
    /\ object \in Available \cup {None}
    /\ binary \in Available \cup {None}
    /\ relink \in [Runs -> BOOLEAN]
    /\ searched \in [Runs -> Available \cup {None}]
    /\ rivals \in [Runs -> SUBSET Runs]

(* A run is after its search when it has got what it was making.             *)
HasSearched(r) == at[r] \in After

(* A run that no other touched the files under searched its own domain's      *)
(* dictionary, whatever earlier runs left, or killed runs left half made      *)
(* (cp, rm and make of lines 116 to 118 need no more than to be alone).       *)
OwnDictionary ==
    \A r \in Runs :
        HasSearched(r) /\ domain[r] \in Available /\ rivals[r] = {} => searched[r] = domain[r]

(* With rivals, all of its own domain, it may find no program, between their   *)
(* rm and make, but never another domain's.                                  *)
ForeignOnlyByRivals ==
    \A r \in Runs :
        HasSearched(r) /\ domain[r] \in Available /\ searched[r] \notin {None, domain[r]}
          => \E s \in rivals[r] : domain[s] # domain[r]
===============================================================================
