---------------------------- MODULE MCGeneration ----------------------------
(* Small instances of GenerationSystem: one paid row, alone or with the      *)
(* shots of its plan.                                                        *)
EXTENDS GenerationSystem, TLC

CONSTANT Root   \* the row the customer requested; every other row is a shot of it

Others == Gen \ {Root}

MCStandalone == [g \in Gen |-> "STANDALONE"]
MCAd         == [g \in Gen |-> IF g = Root THEN "AD" ELSE "CHILD"]
MCBatch      == [g \in Gen |-> IF g = Root THEN "BATCH" ELSE "CHILD"]

MCNoParent   == [g \in Gen |-> None]
MCParentOf   == [g \in Gen |-> IF g = Root THEN None ELSE Root]

MCPrice      == [g \in Gen |-> IF g = Root THEN 4 ELSE 0]
MCPremium    == [g \in Gen |-> IF g = Root THEN 1 ELSE 0]
MCNoPremium  == [g \in Gen |-> 0]

MCSymmetry == Permutations(Worker) \cup Permutations(Others)
=============================================================================
