---------------------------- MODULE MCSavedBatch ----------------------------
EXTENDS SavedBatch, TLC

CONSTANTS e1, e2, b1, b2, v1, v2, f1, f2

MCKeyOf == [b \in Batches |-> "key"]
MCPromptOf == [v \in Versions |-> v]
MCForms ==
    { [profile |-> f1, prompts |-> {v1}, params |-> f1],
      [profile |-> f2, prompts |-> {v2}, params |-> f2],
      [profile |-> f1, prompts |-> {}, params |-> f2] }

Symmetry == Permutations(Editors) \cup Permutations(Batches)
=============================================================================
