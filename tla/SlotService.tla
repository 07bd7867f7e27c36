---------------------------- MODULE SlotService ----------------------------
(***************************************************************************)
(* What the upload queue promises, whatever threads, offers, tokens and    *)
(* addresses it is made of: peers ask, wait their turn, hold a slot, and   *)
(* give it up once.  There are no tables and no in-between states here; a  *)
(* holder is one thing from the offer to the end of the stream.            *)
(***************************************************************************)
EXTENDS Integers, FiniteSets

CONSTANTS
    Clients,  \* who may ask
    Goods     \* what for

VARIABLES
    waiting,  \* requests: who, what, the number drawn, and the standing
    drawn,    \* numbers drawn so far
    holding,  \* slots in use: by whom, for what, and the ticket of the grant
    issued,   \* tickets issued so far
    limit     \* slots there are

vars == <<waiting, drawn, holding, issued, limit>>

Free == IF Cardinality(holding) < limit THEN limit - Cardinality(holding) ELSE 0

\* Donors go first, and among equals whoever drew the lower number.
GoesBefore(i, j) ==
    IF i.donor = j.donor THEN i.number < j.number ELSE i.donor

Turn(j) == Cardinality({i \in waiting : GoesBefore(i, j)})

Init ==
    /\ waiting = {} /\ drawn = 0
    /\ holding = {} /\ issued = 0
    /\ limit \in Nat \ {0}

Ask(u, g, donor) ==
    /\ drawn' = drawn + 1
    /\ waiting' = waiting \cup
         {[client |-> u, good |-> g, number |-> drawn', donor |-> donor]}
    /\ UNCHANGED <<holding, issued, limit>>

\* The standing of those who wait changes, and nothing else about them.
Regrade(donors) ==
    /\ waiting' = {[j EXCEPT !.donor = j.client \in donors] : j \in waiting}
    /\ UNCHANGED <<drawn, holding, issued, limit>>

\* Every free slot goes to the next in turn, tickets in the same order.
Grant ==
    LET next == {j \in waiting : Turn(j) < Free}
    IN  /\ next # {}
        /\ waiting' = waiting \ next
        /\ holding' = holding \cup
             {[client |-> j.client, good |-> j.good, ticket |-> issued + Turn(j)] :
                 j \in next}
        /\ issued' = issued + Cardinality(next)
        /\ UNCHANGED <<drawn, limit>>

\* Slots come back, for whatever reason; nobody else's place is touched.
Return ==
    /\ holding' # holding /\ holding' \subseteq holding
    /\ UNCHANGED <<waiting, drawn, issued, limit>>

\* A client that is gone waits for nothing.
Withdraw(u) ==
    /\ waiting' = {j \in waiting : j.client # u}
    /\ holding' \subseteq holding
    /\ \A h \in holding \ holding' : h.client = u
    /\ UNCHANGED <<drawn, issued, limit>>

Resize ==
    /\ limit' \in Nat \ {0}
    /\ UNCHANGED <<waiting, drawn, holding, issued>>

Next ==
    \/ \E u \in Clients, g \in Goods, donor \in BOOLEAN : Ask(u, g, donor)
    \/ \E donors \in SUBSET Clients : Regrade(donors)
    \/ Grant
    \/ Return
    \/ \E u \in Clients : Withdraw(u)
    \/ Resize

Spec == Init /\ [][Next]_vars
=============================================================================
