--------------------------- MODULE MCKnowledgeAnswers ---------------------------
EXTENDS KnowledgeAnswers, TLC

CONSTANTS pf, r1, f1, e1, e2, g1, industry, delivery

Kinds == [e \in Rows |-> CASE e = pf -> "profile" [] e = r1 -> "policy" [] e = f1 -> "faq"
                          [] OTHER -> "entry"]

\* Only the entries have names that can clash.
Naming == [e \in Rows |-> IF Kinds[e] = "entry" THEN {industry, delivery} ELSE {delivery}]

\* The store starts with its industry profile published.
Opened == [e \in {e1} |-> industry]

\* The entries differ in length, which orders them; a policy can push
\* what must be there over the budget.
Lengths == [x \in Rows \cup Products |->
              CASE x = e1 -> 2 [] x \in {e2, r1, g1} -> 4 [] OTHER -> 1]

\* A reply that nothing in sight has asked for, and a question with its reply.
Talks == {<<"outbound", "inbound", "outbound">>}

Interchangeable == Permutations(Managers)
================================================================================
