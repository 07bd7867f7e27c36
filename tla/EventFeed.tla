----------------------------- MODULE EventFeed -----------------------------
(***************************************************************************)
(* What the hub promises a client, whatever buffers and threads lie        *)
(* between: it follows the feed once, from where it joined, and is handed  *)
(* every event since, one after another and none twice, until it is cut    *)
(* off; what was handed to it before that it may still read.               *)
(***************************************************************************)
EXTENDS Integers

CONSTANT Readers

VARIABLES
    last,      \* events so far
    fresh,     \* readers that may still join
    following, \* readers that get what comes
    due,       \* the last event a reader has been handed
    read       \* the last event a reader has read

feedVars == <<last, fresh, following, due, read>>

FeedInit ==
    /\ last = 0 /\ fresh = Readers /\ following = {}
    /\ due = [r \in Readers |-> 0] /\ read = due

\* Who follows is handed the event or is cut off.
Emit ==
    /\ last' = last + 1
    /\ following' \subseteq following
    /\ due' = [r \in Readers |-> IF r \in following' THEN last' ELSE due[r]]
    /\ UNCHANGED <<fresh, read>>

Join(r) ==
    /\ r \in fresh
    /\ fresh' = fresh \ {r} /\ following' = following \cup {r}
    /\ due' = [due EXCEPT ![r] = last] /\ read' = [read EXCEPT ![r] = last]
    /\ UNCHANGED last

TurnAway(r) ==
    /\ r \in fresh
    /\ fresh' = fresh \ {r}
    /\ UNCHANGED <<last, following, due, read>>

\* The next event and no other.
Read(r) ==
    /\ read[r] < due[r]
    /\ read' = [read EXCEPT ![r] = @ + 1]
    /\ UNCHANGED <<last, fresh, following, due>>

Leave(r) ==
    /\ r \in following
    /\ following' = following \ {r}
    /\ UNCHANGED <<last, fresh, due, read>>

FeedNext ==
    Emit \/ \E r \in Readers : Join(r) \/ TurnAway(r) \/ Read(r) \/ Leave(r)

FeedSpec == FeedInit /\ [][FeedNext]_feedVars
=============================================================================
