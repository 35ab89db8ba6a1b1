-------------------------- MODULE MCInstagramConnection --------------------------
EXTENDS InstagramConnection, TLC

\* Stores, accounts, authorization requests and callbacks are interchangeable.
Symmetry ==
    Permutations(Stores) \cup Permutations(Accounts)
        \cup Permutations(Grants) \cup Permutations(Requests)
================================================================================
