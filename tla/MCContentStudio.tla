---------------------------- MODULE MCContentStudio ----------------------------
EXTENDS ContentStudio, TLC

Sound == Contents \ {Conflicting}

DraftPayloads ==
    [content : Sound, row : 0..1] \cup {[content |-> Conflicting, row |-> 0]}

Interchangeable ==
    Permutations(Managers) \cup Permutations(Workers) \cup Permutations(Trainings)
        \cup Permutations(Sound)
================================================================================
