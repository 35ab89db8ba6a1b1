---------------------------- MODULE MCStoreAccess ----------------------------
EXTENDS StoreAccess, TLC

Interchangeable == Permutations(Sessions) \cup Permutations(Requests)
================================================================================
