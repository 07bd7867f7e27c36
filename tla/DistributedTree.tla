-------------------------- MODULE DistributedTree --------------------------
(***************************************************************************)
(* Our place in the distributed search tree: candidate parents and the     *)
(* threads that sound them out (client/distributed.rs), the children that  *)
(* hang from us (client/children.rs), and the handlers of the operations   *)
(* loop that move between them (operations/tree.rs, search.rs, peers.rs).  *)
(*                                                                         *)
(* Concurrent parties: the loop, one thread per candidate link, the server *)
(* and the peers.  What the server and new children send may be handled at *)
(* any moment and so has no channel; what link threads send waits in one,  *)
(* for it names links that may have been given up meanwhile.               *)
(***************************************************************************)
EXTENDS Integers, FiniteSets, Sequences

CONSTANTS
    Candidates,   \* users the server offers as parents
    Kids,         \* users that want to hang from us
    Me,           \* our own name
    Elsewhere,    \* a branch root that is none of the above
    Levels,       \* the levels a candidate may claim, nonsense included
    ChildLimits,  \* what the server's figures may limit us to
    MaxCandidates,\* MAX_CANDIDATES
    MaxLinks,     \* bound: links ever made
    MaxTreeOps    \* bound: operations in the channel when a thread adds one

\* No user: Leaf.parent is None.
Nobody == "nobody"

ASSUME TreeConstants ==
    /\ Nobody \notin Candidates
    /\ Me \notin Candidates /\ Elsewhere \notin Candidates \cup {Me}
    /\ Levels \subseteq Int
    /\ ChildLimits # {} /\ ChildLimits \subseteq Nat
    /\ {MaxCandidates, MaxLinks, MaxTreeOps} \subseteq Nat

VARIABLES
    parent,      \* Leaf.parent, or Nobody
    links,       \* Leaf.candidates: user -> link number and what it claimed
    nextLink,    \* Leaf.next_link
    branch,      \* Leaf.branch
    movePending, \* Leaf.move_pending
    justMoved,   \* Leaf.moved lies less than MOVE_INTERVAL back
    threads,     \* running link threads: link number -> user and cancel flag
    treeOps,     \* the loop's channel, as far as link threads fill it
    told,        \* the stance the server has from us; its `room` is also
                 \* announced_accept_children
    kids,        \* Children.links: user -> the branch it last heard of, and
                 \* whether its socket is still there
    fed,         \* Children.fed
    limit,       \* Children.max
    overtaken,   \* history: the parent was lost while a move waited to be told
    slipped      \* history: a child fell off in a write no answer followed

leafVars  == <<parent, links, nextLink, branch, movePending, justMoved>>
childVars == <<kids, fed, limit>>
serverSees == <<told, overtaken, slipped>>
treeVars  == <<leafVars, threads, treeOps, childVars, serverSees>>

Unsaid  == "unsaid"
NoLevel == -1

Under(root, level) == [root |-> root, level |-> level]
Parentless == Under(Me, 0)

Names  == Candidates \cup {Me, Elsewhere}
Branch == [root : Names, level : Nat]

LinkOp ==
    [op : {"Search", "Closed"}, user : Candidates, link : Nat]
      \cup [op : {"Level"}, user : Candidates, link : Nat, level : Levels]
      \cup [op : {"Root"}, user : Candidates, link : Nat]
      \cup [op : {"IncomingSearch"}]

-----------------------------------------------------------------------------
(* Children. *)

RoomIn(ks, isFed, max) == isFed /\ Cardinality(DOMAIN ks) < max
HasRoom == RoomIn(kids, fed, limit)

\* A write to every child drops those it fails for: any whose socket is gone,
\* though the first writes after a close may still succeed.
Dead(ks) == {k \in DOMAIN ks : ~ks[k].alive}

WithoutKids(ks, gone) == [k \in DOMAIN ks \ gone |-> ks[k]]

\* announce_move: the stance carries whether we have room, which counts as
\* told; then every child hears of the branch, and may turn out to be dead.
Announces(ks, isFed, b, hasParent) ==
    \E gone \in SUBSET Dead(ks) :
        /\ told' = [hasParent |-> hasParent, branch |-> b,
                    room |-> RoomIn(ks, isFed, limit)]
        /\ kids' = [k \in DOMAIN ks \ gone |-> [ks[k] EXCEPT !.heard = b]]
        /\ slipped' = (gone # {})

\* A broadcast that nothing is told about afterwards.
Relays ==
    \E gone \in SUBSET Dead(kids) :
        /\ kids' = WithoutKids(kids, gone)
        /\ slipped' = (slipped \/ gone # {})

\* announce_child_capacity.
TellsRoom(room) ==
    /\ told' = [told EXCEPT !.room = room]
    /\ slipped' = FALSE
-----------------------------------------------------------------------------
(* The leaf. *)

HasLink(u, n) == u \in DOMAIN links /\ links[u].link = n

IsParent(u, n) == parent = u /\ HasLink(u, n)

\* Mutant: the candidates that lost are forgotten, their threads go on.
CancelNobody(kept) == threads' = threads

\* cancel_candidates, but for those kept: a thread reads its flag later.
CancelAll(kept) ==
    threads' = [n \in DOMAIN threads |->
                   IF \E u \in DOMAIN links \ kept : links[u].link = n
                   THEN [threads[n] EXCEPT !.cancelled = TRUE] ELSE threads[n]]

\* Mutant: a move that comes too soon is not kept for the sweep.
ClaimForgets(u, c) ==
    /\ links' = [links EXCEPT ![u] = c]
    /\ LET b == Under(c.root, c.level + 1) IN
       IF parent # u \/ c.root = Unsaid \/ c.level = NoLevel \/ b = branch
       THEN UNCHANGED <<branch, movePending, justMoved, serverSees, kids>>
       ELSE /\ branch' = b
            /\ justMoved' = TRUE
            /\ overtaken' = (justMoved /\ overtaken)
            /\ UNCHANGED movePending
            /\ IF justMoved THEN UNCHANGED <<told, slipped, kids>>
                            ELSE Announces(kids, fed, b, TRUE)

\* What moved_with_parent and due_announcement make of a candidate's claim:
\* nothing, a move to be told now, or one that waits for the sweep.
Claim(u, c) ==
    /\ links' = [links EXCEPT ![u] = c]
    /\ LET b == Under(c.root, c.level + 1) IN
       IF parent # u \/ c.root = Unsaid \/ c.level = NoLevel \/ b = branch
       THEN UNCHANGED <<branch, movePending, justMoved, serverSees, kids>>
       ELSE /\ branch' = b
            /\ movePending' = justMoved
            /\ justMoved' = TRUE
            /\ overtaken' = (justMoved /\ overtaken)
            /\ IF justMoved THEN UNCHANGED <<told, slipped, kids>>
                            ELSE Announces(kids, fed, b, TRUE)

\* Without a parent our branch is our own.
Orphaned(isFed, ks) ==
    /\ parent' = Nobody
    /\ branch' = Parentless
    /\ overtaken' = movePending
    /\ Announces(ks, isFed, Parentless, FALSE)
-----------------------------------------------------------------------------
(* The operations loop. *)

\* PossibleParents, one offer at a time: none while we hang from a parent, none
\* twice, none beyond the cap.
Consider(u) ==
    /\ parent = Nobody
    /\ u \notin DOMAIN links
    /\ Cardinality(DOMAIN links) < MaxCandidates
    /\ nextLink <= MaxLinks
    /\ links' = [v \in DOMAIN links \cup {u} |->
                    IF v = u THEN [link |-> nextLink, level |-> NoLevel, root |-> Unsaid]
                             ELSE links[v]]
    /\ threads' = [n \in DOMAIN threads \cup {nextLink} |->
                      IF n = nextLink THEN [user |-> u, cancelled |-> FALSE]
                                      ELSE threads[n]]
    /\ nextLink' = nextLink + 1
    /\ UNCHANGED <<parent, branch, movePending, justMoved, treeOps, childVars, serverSees>>

TakesOp(op) == treeOps # <<>> /\ Head(treeOps).op = op

\* Mutant: a level below zero is taken for a place in the tree.
ParentBranchLevelRaw ==
    /\ TakesOp("Level")
    /\ LET m == Head(treeOps) IN
       IF HasLink(m.user, m.link)
       THEN Claim(m.user, [links[m.user] EXCEPT
                              !.level = m.level,
                              !.root  = IF m.level = 0 THEN m.user ELSE @])
       ELSE UNCHANGED <<links, branch, movePending, justMoved, serverSees, kids>>
    /\ treeOps' = Tail(treeOps)
    /\ UNCHANGED <<parent, nextLink, threads, fed, limit>>

\* A stale link's level or root is nobody's.
ParentBranchLevel ==
    /\ TakesOp("Level")
    /\ LET m == Head(treeOps) IN
       IF HasLink(m.user, m.link)
       THEN Claim(m.user,
                  [links[m.user] EXCEPT
                      !.level = IF m.level < 0 THEN NoLevel ELSE m.level,
                      !.root  = IF m.level = 0 THEN m.user ELSE @])
       ELSE UNCHANGED <<links, branch, movePending, justMoved, serverSees, kids>>
    /\ treeOps' = Tail(treeOps)
    /\ UNCHANGED <<parent, nextLink, threads, fed, limit>>

ParentBranchRoot ==
    /\ TakesOp("Root")
    /\ LET m == Head(treeOps) IN
       IF HasLink(m.user, m.link)
       THEN Claim(m.user, [links[m.user] EXCEPT !.root = Elsewhere])
       ELSE UNCHANGED <<links, branch, movePending, justMoved, serverSees, kids>>
    /\ treeOps' = Tail(treeOps)
    /\ UNCHANGED <<parent, nextLink, threads, fed, limit>>

\* search_from adopts the first candidate that told its place and then sends a
\* search; a parent's search goes down to the children and to ourselves.
Adoptable(u, n) ==
    /\ parent = Nobody /\ HasLink(u, n)
    /\ links[u].level # NoLevel /\ links[u].root # Unsaid

Adopts(u) ==
    LET b == Under(links[u].root, links[u].level + 1) IN
    /\ CancelAll({u})
    /\ links' = [v \in {u} |-> links[u]]
    /\ parent' = u
    /\ branch' = b
    /\ overtaken' = FALSE
    /\ Announces(kids, fed, b, TRUE)

ParentSearch ==
    /\ TakesOp("Search")
    /\ LET m == Head(treeOps)
           heard == Append(Tail(treeOps), [op |-> "IncomingSearch"]) IN
       \/ /\ Adoptable(m.user, m.link)
          /\ Adopts(m.user)
          /\ treeOps' = heard
       \/ /\ IsParent(m.user, m.link)
          /\ Relays
          /\ treeOps' = heard
          /\ UNCHANGED <<parent, links, branch, threads, told, overtaken>>
       \/ /\ ~Adoptable(m.user, m.link) /\ ~IsParent(m.user, m.link)
          /\ treeOps' = Tail(treeOps)
          /\ UNCHANGED <<parent, links, branch, threads, kids, serverSees>>
    /\ UNCHANGED <<nextLink, movePending, justMoved, fed, limit>>

\* IncomingSearch of a parent's search: it was relayed where it arrived.
HearParentSearch ==
    /\ TakesOp("IncomingSearch")
    /\ fed' = TRUE
    /\ UNCHANGED kids
    /\ IF fed THEN UNCHANGED <<told, slipped>> ELSE TellsRoom(RoomIn(kids, TRUE, limit))
    /\ treeOps' = Tail(treeOps)
    /\ UNCHANGED <<leafVars, threads, limit, overtaken>>

\* IncomingSearch of the server's own: relayed here, and a child that turns out
\* to be dead makes room the server hears of.
HearServerSearch ==
    /\ fed' = TRUE
    /\ \E gone \in SUBSET Dead(kids) :
            /\ kids' = WithoutKids(kids, gone)
            /\ IF fed /\ gone = {} THEN UNCHANGED <<told, slipped>>
               ELSE TellsRoom(RoomIn(WithoutKids(kids, gone), TRUE, limit))
    /\ UNCHANGED <<leafVars, threads, treeOps, limit, overtaken>>

ParentClosed ==
    /\ TakesOp("Closed")
    /\ LET m == Head(treeOps) IN
       IF HasLink(m.user, m.link)
       THEN /\ links' = [v \in DOMAIN links \ {m.user} |-> links[v]]
            /\ IF parent = m.user THEN Orphaned(fed, kids)
               ELSE UNCHANGED <<parent, branch, kids, serverSees>>
       ELSE UNCHANGED <<parent, links, branch, kids, serverSees>>
    /\ treeOps' = Tail(treeOps)
    /\ UNCHANGED <<nextLink, movePending, justMoved, threads, fed, limit>>

\* ResetDistributed, from the server or from a fresh login: no parent, no
\* candidates, and the children are let go.
ResetDistributed ==
    /\ CancelAll({})
    /\ links' = <<>>
    /\ fed' = FALSE
    /\ Orphaned(FALSE, <<>>)
    /\ UNCHANGED <<nextLink, movePending, justMoved, treeOps, limit>>

\* The second's sweep tells a move that waited, as one under a parent.
SweepTellsMove ==
    /\ movePending /\ ~justMoved
    /\ movePending' = FALSE
    /\ justMoved' = TRUE
    /\ UNCHANGED overtaken
    /\ Announces(kids, fed, branch, TRUE)
    /\ UNCHANGED <<parent, links, nextLink, branch, threads, treeOps, fed, limit>>

\* ChildConnected: taken on if there is room and told where we sit, unless its
\* own first write fails; the server is told when that filled us.
ChildConnected(k) ==
    /\ HasRoom /\ k \notin DOMAIN kids
    /\ LET carried == [c \in DOMAIN kids \cup {k} |->
                          IF c = k THEN [heard |-> branch, alive |-> TRUE] ELSE kids[c]]
       IN  /\ kids' = carried
           /\ IF RoomIn(carried, fed, limit) THEN UNCHANGED <<told, slipped>>
                                             ELSE TellsRoom(FALSE)
    /\ UNCHANGED <<leafVars, threads, treeOps, fed, limit, overtaken>>

\* Mutant: the server is not told what its figures have changed.
ServerFiguresUntold(n) ==
    /\ limit' = n
    /\ UNCHANGED <<leafVars, threads, treeOps, kids, fed, serverSees>>

\* ParentMinSpeed, ParentSpeedRatio and our own recorded speed.
ServerFigures(n) ==
    /\ limit' = n
    /\ TellsRoom(RoomIn(kids, fed, n))
    /\ UNCHANGED <<leafVars, threads, treeOps, kids, fed, overtaken>>
-----------------------------------------------------------------------------
(* Link threads, children and time. *)

Sends(m) ==
    /\ Len(treeOps) < MaxTreeOps
    /\ treeOps' = Append(treeOps, m)
    /\ UNCHANGED <<leafVars, threads, childVars, serverSees>>

\* A frame the thread had read before it looked at its flag is still sent.
LinkSends(n) ==
    LET u == threads[n].user IN
    \/ \E l \in Levels : Sends([op |-> "Level", user |-> u, link |-> n, level |-> l])
    \/ Sends([op |-> "Root", user |-> u, link |-> n])
    \/ Sends([op |-> "Search", user |-> u, link |-> n])

Ended(n) == threads' = [k \in DOMAIN threads \ {n} |-> threads[k]]

\* The link broke, was silent for too long, or its thread never started.
LinkBreaks(n) ==
    /\ Ended(n)
    /\ treeOps' = IF threads[n].cancelled THEN treeOps
                  ELSE Append(treeOps,
                              [op |-> "Closed", user |-> threads[n].user, link |-> n])
    /\ UNCHANGED <<leafVars, childVars, serverSees>>

LinkCancelled(n) ==
    /\ threads[n].cancelled
    /\ Ended(n)
    /\ UNCHANGED <<leafVars, treeOps, childVars, serverSees>>

ChildDies(k) ==
    /\ k \in DOMAIN kids /\ kids[k].alive
    /\ kids' = [kids EXCEPT ![k].alive = FALSE]
    /\ UNCHANGED <<leafVars, threads, treeOps, fed, limit, serverSees>>

MoveIntervalPasses ==
    /\ justMoved
    /\ justMoved' = FALSE
    /\ UNCHANGED <<parent, links, nextLink, branch, movePending, threads, treeOps,
                   childVars, serverSees>>
-----------------------------------------------------------------------------
TreeInit ==
    /\ parent = Nobody /\ links = <<>> /\ nextLink = 1 /\ branch = Parentless
    /\ movePending = FALSE /\ justMoved = FALSE
    /\ threads = <<>> /\ treeOps = <<>>
    /\ told = [hasParent |-> FALSE, branch |-> Parentless, room |-> FALSE]
    /\ kids = <<>> /\ fed = FALSE /\ limit \in ChildLimits
    /\ overtaken = FALSE /\ slipped = FALSE

TreeNext ==
    \/ \E u \in Candidates : Consider(u)
    \/ ParentBranchLevel \/ ParentBranchRoot \/ ParentSearch \/ ParentClosed
    \/ HearParentSearch \/ HearServerSearch
    \/ ResetDistributed \/ SweepTellsMove \/ MoveIntervalPasses
    \/ \E k \in Kids : ChildConnected(k) \/ ChildDies(k)
    \/ \E n \in ChildLimits : ServerFigures(n)
    \/ \E n \in DOMAIN threads : LinkSends(n) \/ LinkBreaks(n) \/ LinkCancelled(n)

TreeSpec == TreeInit /\ [][TreeNext]_treeVars
-----------------------------------------------------------------------------
(* Correctness. *)

\* The types of the state: a level taken on is never below zero.
TreeTypeOK ==
    /\ parent \in Candidates \cup {Nobody}
    /\ \A u \in DOMAIN links :
            links[u] \in [link : 1..MaxLinks, level : Nat \cup {NoLevel},
                         root : Names \cup {Unsaid}]
    /\ DOMAIN links \subseteq Candidates /\ Cardinality(DOMAIN links) <= MaxCandidates
    /\ branch \in Branch /\ movePending \in BOOLEAN /\ justMoved \in BOOLEAN
    /\ DOMAIN threads \subseteq 1..(nextLink - 1)
    /\ \A n \in DOMAIN threads : threads[n] \in [user : Candidates, cancelled : BOOLEAN]
    /\ \A k \in DOMAIN treeOps : treeOps[k] \in LinkOp
    /\ told \in [hasParent : BOOLEAN, branch : Branch, room : BOOLEAN]
    /\ DOMAIN kids \subseteq Kids
    /\ \A k \in DOMAIN kids : kids[k] \in [heard : Branch, alive : BOOLEAN]
    /\ fed \in BOOLEAN /\ limit \in Nat

\* A candidate's entry and its thread go together: whoever is entered is being
\* sounded out or its end is on the way to us, so a dead link never keeps a
\* user from being tried again; a thread nobody has entered was cancelled; and
\* a parent is the only one entered (distributed.rs:287-292).
LinksHaveThreads ==
    /\ \A u \in DOMAIN links :
            \/ links[u].link \in DOMAIN threads /\ ~threads[links[u].link].cancelled
            \/ [op |-> "Closed", user |-> u, link |-> links[u].link]
                  \in {treeOps[k] : k \in DOMAIN treeOps}
    /\ \A n \in DOMAIN threads : threads[n].cancelled \/ HasLink(threads[n].user, n)
    /\ parent # Nobody => DOMAIN links = {parent}

\* What the server and every child last heard of our place is where we sit, or
\* the move waits to be told.  Whether we have a parent is told rightly too,
\* but for the sweep that tells a waiting move after the parent was lost
\* (operations/mod.rs:46-51 says "has a parent" whatever became of it).
PlaceIsTold ==
    /\ told.branch = branch \/ movePending
    /\ \A k \in DOMAIN kids : kids[k].heard = branch \/ movePending
    /\ told.hasParent = (parent # Nobody) \/ overtaken

\* The server knows whether we would take another child (operations/mod.rs:734-736),
\* unless a child fell off in a write that is not followed by an answer: a
\* parent's search relayed, or our stance broadcast.
RoomIsTold == told.room = HasRoom \/ slipped
=============================================================================
