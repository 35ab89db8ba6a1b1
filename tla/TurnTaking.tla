------------------------------- MODULE TurnTaking -------------------------------
(***************************************************************************)
(* What the participants of conversations may rely on, with requests,      *)
(* revisions, times and counters forgotten.  A conversation is with the    *)
(* machines or with a human, and only those who have it speak in it.  A    *)
(* machine says one thing to a message; a generated reply answers what was *)
(* said last, which is the customer's, and is paid for by the budget of    *)
(* the store.  Who replies has the last word.                              *)
(***************************************************************************)
EXTENDS Naturals

CONSTANTS Conversations, Messages, Nobody

VARIABLES
    holder,     \* holder[c]: who has c, the "machines" or a "human"
    said,       \* said[c]: the lines of c
    last,       \* last[c]: the line that has the last word in c
    budget      \* how many replies may still be generated

turnVars == <<holder, said, last, budget>>

\* What author says to a message; of the customer, the message.
Line(author, to) == [author |-> author, to |-> to]
Silence == Line("nobody", Nobody)

Heard(c, m) == Line("customer", m) \in said[c]

Say(c, l) ==
    /\ said' = [said EXCEPT ![c] = @ \cup {l}]
    /\ last' = [last EXCEPT ![c] = l]

\* A message is heard once, in one conversation, and possibly late: then what was
\* said after it keeps the last word.
Hear(c, m) ==
    LET l == Line("customer", m)
    IN
    /\ \A d \in Conversations : ~Heard(d, m)
    /\ \/ Say(c, l)
       \/ /\ said[c] # {}
          /\ said' = [said EXCEPT ![c] = @ \cup {l}]
          /\ UNCHANGED last
    /\ UNCHANGED <<holder, budget>>

ReplyByRule(c, m) ==
    /\ holder[c] = "machines"
    /\ Heard(c, m)
    /\ Line("automation", m) \notin said[c]
    /\ Say(c, Line("automation", m))
    /\ UNCHANGED <<holder, budget>>

\* Only the customer's last word is answered.
Generate(c) ==
    LET l == Line("assistant", last[c].to)
    IN
    /\ holder[c] = "machines"
    /\ last[c].author = "customer"
    /\ l \notin said[c]
    /\ budget > 0
    /\ Say(c, l)
    /\ budget' = budget - 1
    /\ UNCHANGED holder

ReplyByHuman(c, m) ==
    /\ holder[c] = "human"
    /\ Heard(c, m)
    /\ Say(c, Line("human", m))
    /\ UNCHANGED <<holder, budget>>

TakeOver(c) ==
    /\ holder[c] = "machines"
    /\ said[c] # {}
    /\ holder' = [holder EXCEPT ![c] = "human"]
    /\ UNCHANGED <<said, last, budget>>

GiveBack(c) ==
    /\ holder[c] = "human"
    /\ holder' = [holder EXCEPT ![c] = "machines"]
    /\ UNCHANGED <<said, last, budget>>

TurnInit ==
    /\ holder = [c \in Conversations |-> "machines"]
    /\ said = [c \in Conversations |-> {}]
    /\ last = [c \in Conversations |-> Silence]
    /\ budget \in Nat

TurnNext ==
    \E c \in Conversations :
       \/ Generate(c) \/ TakeOver(c) \/ GiveBack(c)
       \/ \E m \in Messages : Hear(c, m) \/ ReplyByRule(c, m) \/ ReplyByHuman(c, m)

TurnSpec == TurnInit /\ [][TurnNext]_turnVars
================================================================================
