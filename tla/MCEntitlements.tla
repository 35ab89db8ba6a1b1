---------------------------- MODULE MCEntitlements ----------------------------
EXTENDS Entitlements, TLC

CONSTANTS automation, assistant

Offers == [p \in Plans |->
             [family |-> IF p = automation THEN "AUTOMATION" ELSE "AI_ASSISTANT",
              days |-> 1, limit |-> 1]]

\* A store from before the families, that has been given the trials of register().
Customers ==
    {<<Subscription("LEGACY_BUNDLE", "LEGACY", 0, 2, 1),
       Subscription("AI_ASSISTANT", "TRIAL", 0, 1, 0),
       Subscription("AUTOMATION", "TRIAL", 0, 1, 1)>>}

Interchangeable == Permutations(Writers)
================================================================================
