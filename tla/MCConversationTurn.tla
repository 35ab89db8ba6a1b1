---------------------------- MODULE MCConversationTurn ----------------------------
EXTENDS ConversationTurn, TLC
CONSTANTS c1, c2, m1, m2

\* Two messages of one customer, or one each of two customers of the store.
MCSenders == {m1 :> c1 @@ m2 :> c1, m1 :> c1 @@ m2 :> c2}
\* No rule, or one that matches the first message.
MCMatches == {{}, {m1}}
================================================================================
