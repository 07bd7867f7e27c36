----------------------- MODULE DistributedTreeProofs -----------------------
(***************************************************************************)
(* Proofs about the distributed tree, for any candidates, levels and       *)
(* children and however many links were made and messages are on their     *)
(* way: candidates and the threads that sound them out go together; what   *)
(* the server and the children were told of our place and of our room is   *)
(* so, or is about to be told; and every table keeps its type.             *)
(***************************************************************************)
EXTENDS DistributedTree, FiniteSetTheorems, SequenceTheorems, TLAPS

USE TreeConstants

Entry  == [link : Nat, level : Int, root : Names \cup {Unsaid}]
Thread == [user : Candidates, cancelled : BOOLEAN]

TreeShape ==
    /\ links \in [DOMAIN links -> Entry] /\ DOMAIN links \subseteq Candidates
    /\ threads \in [DOMAIN threads -> Thread] /\ DOMAIN threads \subseteq Nat
    /\ treeOps \in Seq(LinkOp)
    /\ nextLink \in Nat
    /\ parent \in Candidates \cup {Nobody}

\* The end of link n of user u is on its way to the loop.
EndOf(u, n)   == [op |-> "Closed", user |-> u, link |-> n]
EndOnItsWay(ops, u, n) == \E k \in DOMAIN ops : ops[k] = EndOf(u, n)

\* Link numbers are used once, and a thread says that it ended after it has.
NumbersOnce ==
    /\ \A u, v \in DOMAIN links : links[u].link = links[v].link => u = v
    /\ \A u \in DOMAIN links : links[u].link < nextLink
    /\ \A n \in DOMAIN threads : n < nextLink
    /\ \A k \in DOMAIN treeOps :
            treeOps[k].op = "Closed" =>
                treeOps[k].link < nextLink /\ treeOps[k].link \notin DOMAIN threads

EntriesLive ==
    \A u \in DOMAIN links :
        \/ links[u].link \in DOMAIN threads /\ ~threads[links[u].link].cancelled
        \/ EndOnItsWay(treeOps, u, links[u].link)

ThreadsKnown == \A n \in DOMAIN threads : threads[n].cancelled \/ HasLink(threads[n].user, n)

ParentAlone == parent # Nobody => DOMAIN links = {parent}

LinkInv ==
    TreeShape /\ NumbersOnce /\ EntriesLive /\ ThreadsKnown /\ ParentAlone

-----------------------------------------------------------------------------
(* What happens to the channel. *)

\* A message that is no end of a link leaves the ends that wait where they are.
LEMMA OpTaken ==
    ASSUME TreeShape, treeOps # <<>>
    PROVE  /\ Head(treeOps) \in LinkOp /\ Tail(treeOps) \in Seq(LinkOp)
           /\ \A k \in DOMAIN Tail(treeOps) :
                  k + 1 \in DOMAIN treeOps /\ Tail(treeOps)[k] = treeOps[k + 1]
           /\ \A u, n : EndOnItsWay(treeOps, u, n) =>
                  Head(treeOps) = EndOf(u, n) \/ EndOnItsWay(Tail(treeOps), u, n)
<1>1. Head(treeOps) = treeOps[1] /\ treeOps[1] \in LinkOp /\ Tail(treeOps) \in Seq(LinkOp)
  BY DEF TreeShape
<1>2. \A k \in DOMAIN Tail(treeOps) :
          k + 1 \in DOMAIN treeOps /\ Tail(treeOps)[k] = treeOps[k + 1]
  BY DEF TreeShape
<1>3. ASSUME NEW u, NEW n, NEW k \in DOMAIN treeOps, treeOps[k] = EndOf(u, n)
      PROVE  Head(treeOps) = EndOf(u, n) \/ EndOnItsWay(Tail(treeOps), u, n)
  <2>1. CASE k = 1 BY <1>1, <1>3, <2>1
  <2>2. CASE k # 1
    <3>1. k - 1 \in DOMAIN Tail(treeOps) /\ Tail(treeOps)[k - 1] = treeOps[k]
      BY <2>2 DEF TreeShape
    <3> QED BY <1>3, <3>1 DEF EndOnItsWay
  <2> QED BY <2>1, <2>2
<1> QED BY <1>1, <1>2, <1>3 DEF EndOnItsWay

LEMMA OpAdded ==
    ASSUME NEW s \in Seq(LinkOp), NEW m \in LinkOp
    PROVE  /\ Append(s, m) \in Seq(LinkOp)
           /\ \A k \in DOMAIN Append(s, m) :
                  Append(s, m)[k] = m \/ (k \in DOMAIN s /\ Append(s, m)[k] = s[k])
           /\ \A u, n : EndOnItsWay(s, u, n) => EndOnItsWay(Append(s, m), u, n)
           /\ \A u, n : m = EndOf(u, n) => EndOnItsWay(Append(s, m), u, n)
<1> DEFINE a == Append(s, m)
<1>1. a \in Seq(LinkOp) /\ Len(a) = Len(s) + 1 /\ Len(s) \in Nat
        /\ DOMAIN s = 1..Len(s) /\ DOMAIN a = 1..Len(a)
  OBVIOUS
<1>2. /\ a[Len(s) + 1] = m /\ \A k \in 1..Len(s) : a[k] = s[k]
      /\ \A k \in 1..Len(a) : k = Len(s) + 1 => a[k] = m
  OBVIOUS
<1>3. \A k \in DOMAIN a : k = Len(s) + 1 \/ k \in DOMAIN s
  BY <1>1
<1>4. Len(s) + 1 \in DOMAIN a /\ \A k \in DOMAIN s : k \in DOMAIN a
  BY <1>1
<1> HIDE DEF a
<1>5. (\A u, n : EndOnItsWay(s, u, n) => EndOnItsWay(a, u, n)) /\ \A u, n : m = EndOf(u, n) => EndOnItsWay(a, u, n)
  BY <1>1, <1>2, <1>4 DEF EndOnItsWay
<1>6. \A k \in DOMAIN a : a[k] = m \/ (k \in DOMAIN s /\ a[k] = s[k])
  <2> SUFFICES ASSUME NEW k \in DOMAIN a PROVE a[k] = m \/ (k \in DOMAIN s /\ a[k] = s[k])
    OBVIOUS
  <2>1. CASE k = Len(s) + 1
    BY <1>1, <1>2, <2>1
  <2>2. CASE k \in DOMAIN s
    BY <1>1, <1>2, <2>2
  <2> QED BY <1>3, <2>1, <2>2
<1> QED BY <1>1, <1>5, <1>6 DEF a

\* A step that leaves the links and threads alone and takes a message that ends
\* nothing we have an entry for.
LEMMA QuietTreeStep ==
    ASSUME LinkInv, UNCHANGED <<parent, nextLink, threads>>,
           links' \in [DOMAIN links -> Entry], DOMAIN links' = DOMAIN links,
           \A u \in DOMAIN links : links'[u].link = links[u].link,
           treeOps' \in Seq(LinkOp),
           \A k \in DOMAIN treeOps' :
               treeOps'[k].op = "Closed" => \E j \in DOMAIN treeOps : treeOps[j] = treeOps'[k],
           \A u \in DOMAIN links :
               EndOnItsWay(treeOps, u, links[u].link) => EndOnItsWay(treeOps', u, links[u].link)
    PROVE  LinkInv'
<1> USE DEF LinkInv
<1>1. TreeShape'
  BY DEF TreeShape
<1>2. NumbersOnce'
  <2>1. \A k \in DOMAIN treeOps' :
            treeOps'[k].op = "Closed" =>
                treeOps'[k].link < nextLink /\ treeOps'[k].link \notin DOMAIN threads
    BY DEF NumbersOnce
  <2> QED BY <2>1 DEF NumbersOnce
<1>3. EntriesLive'
  BY DEF EntriesLive
<1>4. ThreadsKnown'
  BY DEF ThreadsKnown, HasLink
<1>5. ParentAlone'
  BY DEF ParentAlone
<1> QED BY <1>1, <1>2, <1>3, <1>4, <1>5

-----------------------------------------------------------------------------
(* The steps that change links or threads. *)

\* A new candidate gets a number nobody had.
LEMMA ConsiderKeeps == ASSUME LinkInv, NEW u \in Candidates, Consider(u) PROVE LinkInv'
<1> USE DEF LinkInv
<1> DEFINE e == [link |-> nextLink, level |-> NoLevel, root |-> Unsaid]
           t == [user |-> u, cancelled |-> FALSE]
<1>1. /\ u \notin DOMAIN links /\ parent = Nobody
      /\ links' = [v \in DOMAIN links \cup {u} |-> IF v = u THEN e ELSE links[v]]
      /\ threads' = [n \in DOMAIN threads \cup {nextLink} |->
                        IF n = nextLink THEN t ELSE threads[n]]
      /\ nextLink' = nextLink + 1 /\ UNCHANGED <<parent, treeOps>>
  BY DEF Consider
<1>2. e \in Entry /\ t \in Thread
  BY DEF TreeShape, Entry, Thread, NoLevel
<1>3. nextLink \in Nat /\ nextLink \notin DOMAIN threads
        /\ \A v \in DOMAIN links : links[v].link \in Nat /\ links[v].link < nextLink
  BY DEF TreeShape, NumbersOnce, Entry
<1>4. TreeShape'
  BY <1>1, <1>2, <1>3 DEF TreeShape
<1>5. NumbersOnce'
  <2>1. \A v, w \in DOMAIN links' : links'[v].link = links'[w].link => v = w
    BY <1>1, <1>3 DEF NumbersOnce
  <2>2. \A v \in DOMAIN links' : links'[v].link < nextLink'
    BY <1>1, <1>3
  <2>3. \A n \in DOMAIN threads' : n < nextLink'
    BY <1>1, <1>3 DEF NumbersOnce, TreeShape
  <2>4. \A k \in DOMAIN treeOps' :
            treeOps'[k].op = "Closed" =>
                treeOps'[k].link < nextLink' /\ treeOps'[k].link \notin DOMAIN threads'
    <3> SUFFICES ASSUME NEW k \in DOMAIN treeOps, treeOps[k].op = "Closed"
                 PROVE  treeOps[k].link < nextLink + 1
                          /\ treeOps[k].link \notin DOMAIN threads \cup {nextLink}
      BY <1>1
    <3>1. treeOps[k].link \in Nat
      BY DEF TreeShape, LinkOp
    <3> QED BY <1>3, <3>1 DEF NumbersOnce
  <2> QED BY <2>1, <2>2, <2>3, <2>4 DEF NumbersOnce
<1>6. EntriesLive'
  BY <1>1, <1>3 DEF EntriesLive
<1>7. ThreadsKnown'
  BY <1>1, <1>3 DEF ThreadsKnown, HasLink, TreeShape, Thread
<1>8. ParentAlone'
  BY <1>1 DEF ParentAlone
<1> QED BY <1>4, <1>5, <1>6, <1>7, <1>8

\* Cancelling leaves every thread with its user, and the kept ones running.
LEMMA Cancelling ==
    ASSUME TreeShape, NEW kept, CancelAll(kept)
    PROVE  /\ DOMAIN threads' = DOMAIN threads
           /\ threads' \in [DOMAIN threads' -> Thread]
           /\ \A n \in DOMAIN threads :
                  /\ threads'[n].user = threads[n].user
                  /\ (\E u \in DOMAIN links \ kept : links[u].link = n) =>
                         threads'[n].cancelled
                  /\ ~(\E u \in DOMAIN links \ kept : links[u].link = n) =>
                         threads'[n] = threads[n]
<1>1. \A n \in DOMAIN threads :
          /\ threads[n] \in Thread
          /\ [threads[n] EXCEPT !.cancelled = TRUE] \in Thread
          /\ [threads[n] EXCEPT !.cancelled = TRUE].user = threads[n].user
          /\ [threads[n] EXCEPT !.cancelled = TRUE].cancelled
  BY DEF TreeShape, Thread
<1>2. /\ DOMAIN threads' = DOMAIN threads
      /\ \A n \in DOMAIN threads :
             threads'[n] = IF \E u \in DOMAIN links \ kept : links[u].link = n
                           THEN [threads[n] EXCEPT !.cancelled = TRUE] ELSE threads[n]
      /\ threads' = [n \in DOMAIN threads' |-> threads'[n]]
  BY DEF CancelAll
<1>3. ASSUME NEW n \in DOMAIN threads
      PROVE  /\ threads'[n] \in Thread
             /\ threads'[n].user = threads[n].user
             /\ (\E u \in DOMAIN links \ kept : links[u].link = n) => threads'[n].cancelled
             /\ ~(\E u \in DOMAIN links \ kept : links[u].link = n) => threads'[n] = threads[n]
  <2>1. CASE \E u \in DOMAIN links \ kept : links[u].link = n
    <3>1. threads'[n] = [threads[n] EXCEPT !.cancelled = TRUE]
      BY <1>2, <2>1
    <3> QED BY <1>1, <2>1, <3>1
  <2>2. CASE ~\E u \in DOMAIN links \ kept : links[u].link = n
    <3>1. threads'[n] = threads[n]
      BY <1>2, <2>2
    <3> QED BY <1>1, <2>2, <3>1
  <2> QED BY <2>1, <2>2
<1>4. threads' \in [DOMAIN threads' -> Thread]
  BY <1>2, <1>3
<1> QED BY <1>2, <1>3, <1>4

\* Who is adopted keeps its link; all others are cancelled with their threads.
LEMMA AdoptKeeps ==
    ASSUME LinkInv, NEW u \in DOMAIN links, Adopts(u), nextLink' = nextLink,
           treeOps' \in Seq(LinkOp),
           \A k \in DOMAIN treeOps' :
               treeOps'[k].op = "Closed" => \E j \in DOMAIN treeOps : treeOps[j] = treeOps'[k],
           \A v \in DOMAIN links :
               EndOnItsWay(treeOps, v, links[v].link) => EndOnItsWay(treeOps', v, links[v].link)
    PROVE  LinkInv'
<1> USE DEF LinkInv
<1>1. CancelAll({u}) /\ links' = [v \in {u} |-> links[u]] /\ parent' = u
  BY DEF Adopts
<1>2. TreeShape'
  BY <1>1, Cancelling DEF TreeShape
<1>3. NumbersOnce'
  <2>1. \A k \in DOMAIN treeOps' :
            treeOps'[k].op = "Closed" =>
                treeOps'[k].link < nextLink /\ treeOps'[k].link \notin DOMAIN threads
    BY DEF NumbersOnce
  <2> QED BY <1>1, <2>1, Cancelling DEF NumbersOnce
<1>4. EntriesLive'
  <2>1. CASE EndOnItsWay(treeOps, u, links[u].link)
    BY <1>1, <2>1 DEF EntriesLive
  <2>2. CASE links[u].link \in DOMAIN threads /\ ~threads[links[u].link].cancelled
    <3>1. ~threads'[links[u].link].cancelled /\ links[u].link \in DOMAIN threads'
      BY <1>1, <2>2, Cancelling DEF NumbersOnce
    <3> QED BY <1>1, <3>1 DEF EntriesLive
  <2> QED BY <2>1, <2>2 DEF EntriesLive
<1>5. ThreadsKnown'
  <2> SUFFICES ASSUME NEW n \in DOMAIN threads, ~threads'[n].cancelled
               PROVE  threads'[n].user = u /\ links[u].link = n
    BY <1>1, Cancelling DEF ThreadsKnown, HasLink
  <2>1. ~threads[n].cancelled /\ ~\E v \in DOMAIN links \ {u} : links[v].link = n
    BY <1>1, Cancelling
  <2>2. HasLink(threads[n].user, n)
    BY <2>1 DEF ThreadsKnown
  <2> QED BY <1>1, <2>1, <2>2, Cancelling DEF HasLink
<1>6. ParentAlone'
  BY <1>1 DEF ParentAlone
<1> QED BY <1>2, <1>3, <1>4, <1>5, <1>6

LEMMA ResetKeeps == ASSUME LinkInv, ResetDistributed PROVE LinkInv'
<1> USE DEF LinkInv
<1>1. CancelAll({}) /\ links' = <<>> /\ parent' = Nobody /\ UNCHANGED <<nextLink, treeOps>>
  BY DEF ResetDistributed, Orphaned
<1>2. DOMAIN links' = {}
  BY <1>1
<1>3. TreeShape'
  BY <1>1, <1>2, Cancelling DEF TreeShape
<1>4. NumbersOnce'
  BY <1>1, <1>2, Cancelling DEF NumbersOnce
<1>5. EntriesLive' /\ ParentAlone'
  BY <1>1, <1>2 DEF EntriesLive, ParentAlone
<1>6. ThreadsKnown'
  BY <1>1, Cancelling DEF ThreadsKnown, HasLink
<1> QED BY <1>3, <1>4, <1>5, <1>6

\* A thread that ends tells of it, unless it was told to.
LEMMA ThreadEndKeeps ==
    ASSUME LinkInv, NEW n \in DOMAIN threads, LinkBreaks(n) \/ LinkCancelled(n)
    PROVE  LinkInv'
<1> USE DEF LinkInv
<1> DEFINE m == EndOf(threads[n].user, n)
<1>1. UNCHANGED <<parent, links, nextLink>> /\ threads' = [k \in DOMAIN threads \ {n} |-> threads[k]]
  BY DEF LinkBreaks, LinkCancelled, Ended, leafVars
<1>2. m \in LinkOp /\ m.op = "Closed" /\ m.link = n
  BY DEF EndOf, LinkOp, TreeShape, Thread
<1>3. \/ treeOps' = treeOps /\ threads[n].cancelled
      \/ treeOps' = Append(treeOps, m) /\ ~threads[n].cancelled
  BY DEF LinkBreaks, LinkCancelled, EndOf
<1>4. treeOps' \in Seq(LinkOp)
        /\ (\A k \in DOMAIN treeOps' :
                treeOps'[k] = m \/ (k \in DOMAIN treeOps /\ treeOps'[k] = treeOps[k]))
        /\ \A u, k : EndOnItsWay(treeOps, u, k) => EndOnItsWay(treeOps', u, k)
  <2>1. CASE treeOps' = treeOps
    BY <2>1 DEF TreeShape
  <2>2. CASE treeOps' = Append(treeOps, m)
    BY <1>2, <2>2, OpAdded DEF TreeShape
  <2> QED BY <1>3, <2>1, <2>2
<1>5. ~threads[n].cancelled => EndOnItsWay(treeOps', threads[n].user, n)
  <2>1. treeOps \in Seq(LinkOp)
    BY DEF TreeShape
  <2>2. EndOnItsWay(Append(treeOps, m), threads[n].user, n)
    BY <1>2, <2>1, OpAdded
  <2> QED BY <1>3, <2>2
<1>6. TreeShape'
  BY <1>1, <1>4 DEF TreeShape
<1>7. NumbersOnce'
  BY <1>1, <1>2, <1>4 DEF NumbersOnce
<1>8. EntriesLive'
  <2> SUFFICES ASSUME NEW u \in DOMAIN links
               PROVE  \/ links[u].link \in DOMAIN threads' /\ ~threads'[links[u].link].cancelled
                      \/ EndOnItsWay(treeOps', u, links[u].link)
    BY <1>1 DEF EntriesLive
  <2>1. CASE EndOnItsWay(treeOps, u, links[u].link)
    BY <1>4, <2>1
  <2>2. CASE links[u].link \in DOMAIN threads /\ ~threads[links[u].link].cancelled
                /\ links[u].link # n
    BY <1>1, <2>2
  <2>3. CASE links[u].link = n /\ ~threads[n].cancelled
    <3>1. threads[n].user = u
      BY <2>3 DEF ThreadsKnown, HasLink, NumbersOnce
    <3> QED BY <1>5, <2>3, <3>1
  <2> QED BY <2>1, <2>2, <2>3 DEF EntriesLive
<1>9. ThreadsKnown' /\ ParentAlone'
  BY <1>1 DEF ThreadsKnown, ParentAlone, HasLink
<1> QED BY <1>6, <1>7, <1>8, <1>9

\* The end of a link takes its entry, and only when it is that very link's.
LEMMA ClosedKeeps == ASSUME LinkInv, ParentClosed PROVE LinkInv'
<1> USE DEF LinkInv
<1> DEFINE m == Head(treeOps)
<1>1. treeOps # <<>> /\ m.op = "Closed" /\ treeOps' = Tail(treeOps)
        /\ UNCHANGED <<nextLink, threads>>
  BY DEF ParentClosed, TakesOp
<1>2. m \in LinkOp /\ m = EndOf(m.user, m.link) /\ m = treeOps[1] /\ 1 \in DOMAIN treeOps
  BY <1>1, OpTaken DEF LinkOp, EndOf, TreeShape
<1>3. m.link \notin DOMAIN threads
  BY <1>1, <1>2 DEF NumbersOnce
<1>4. /\ treeOps' \in Seq(LinkOp)
      /\ \A k \in DOMAIN treeOps' : \E j \in DOMAIN treeOps : treeOps[j] = treeOps'[k]
      /\ \A u, n : EndOnItsWay(treeOps, u, n) =>
             (u = m.user /\ n = m.link) \/ EndOnItsWay(treeOps', u, n)
  BY <1>1, OpTaken DEF EndOf
<1>5. CASE ~HasLink(m.user, m.link)
  <2>1. UNCHANGED <<parent, links>>
    BY <1>5 DEF ParentClosed
  <2>2. \A u \in DOMAIN links :
            EndOnItsWay(treeOps, u, links[u].link) => EndOnItsWay(treeOps', u, links[u].link)
    BY <1>4, <1>5 DEF HasLink
  <2>3. links' \in [DOMAIN links -> Entry]
    BY <2>1 DEF TreeShape
  <2> QED BY <1>1, <1>4, <2>1, <2>2, <2>3, QuietTreeStep
<1>6. CASE HasLink(m.user, m.link)
  <2>1. links' = [v \in DOMAIN links \ {m.user} |-> links[v]]
          /\ parent' = IF parent = m.user THEN Nobody ELSE parent
    BY <1>6 DEF ParentClosed, Orphaned
  <2>2. TreeShape'
    BY <1>1, <1>4, <2>1 DEF TreeShape
  <2>3. NumbersOnce'
    <3>1. \A k \in DOMAIN treeOps' :
              treeOps'[k].op = "Closed" =>
                  treeOps'[k].link < nextLink /\ treeOps'[k].link \notin DOMAIN threads
      BY <1>4 DEF NumbersOnce
    <3> QED BY <1>1, <2>1, <3>1 DEF NumbersOnce
  <2>4. EntriesLive'
    BY <1>1, <1>4, <2>1 DEF EntriesLive
  <2>5. ThreadsKnown'
    BY <1>1, <1>3, <1>6, <2>1 DEF ThreadsKnown, HasLink
  <2>6. ParentAlone'
    BY <1>6, <2>1 DEF ParentAlone, HasLink
  <2> QED BY <2>2, <2>3, <2>4, <2>5, <2>6
<1> QED BY <1>5, <1>6

\* A claim changes what an entry says and not which link it is.
LEMMA ClaimKeeps ==
    ASSUME LinkInv, ParentBranchLevel \/ ParentBranchRoot PROVE LinkInv'
<1> USE DEF LinkInv
<1> DEFINE m == Head(treeOps)
<1>1. treeOps # <<>> /\ m.op \in {"Level", "Root"} /\ treeOps' = Tail(treeOps)
        /\ UNCHANGED <<parent, nextLink, threads>>
  BY DEF ParentBranchLevel, ParentBranchRoot, TakesOp
<1>2. m \in LinkOp /\ m.user \in Candidates /\ (m.op = "Level" => m.level \in Int)
  BY <1>1, OpTaken DEF LinkOp
<1>3. /\ treeOps' \in Seq(LinkOp)
      /\ \A k \in DOMAIN treeOps' : \E j \in DOMAIN treeOps : treeOps[j] = treeOps'[k]
      /\ \A u, n : EndOnItsWay(treeOps, u, n) => EndOnItsWay(treeOps', u, n)
  BY <1>1, OpTaken DEF EndOf
<1>4. \/ links' = links
      \/ /\ m.user \in DOMAIN links
         /\ \E l \in Int, r \in Names \cup {Unsaid} :
                links' = [links EXCEPT ![m.user] = [@ EXCEPT !.level = l, !.root = r]]
  <2>1. CASE links' = links
    BY <2>1
  <2>2. CASE m.user \in DOMAIN links /\ links' # links
    <3> DEFINE e == links[m.user]
    <3>1. e \in Entry
      BY <2>2 DEF TreeShape
    <3>2. CASE ParentBranchLevel
      <4> DEFINE l == IF m.level < 0 THEN NoLevel ELSE m.level
                 r == IF m.level = 0 THEN m.user ELSE e.root
      <4>1. links' = [links EXCEPT ![m.user] = [e EXCEPT !.level = l, !.root = r]]
        BY <2>2, <3>2 DEF ParentBranchLevel, Claim
      <4>2. l \in Int /\ r \in Names \cup {Unsaid}
        BY <1>2, <3>1, <3>2 DEF ParentBranchLevel, TakesOp, NoLevel, Names, Entry
      <4> QED BY <2>2, <4>1, <4>2
    <3>3. CASE ParentBranchRoot
      <4>1. links' = [links EXCEPT ![m.user] = [e EXCEPT !.root = Elsewhere]]
        BY <2>2, <3>3 DEF ParentBranchRoot, Claim
      <4>2. [e EXCEPT !.root = Elsewhere] = [e EXCEPT !.level = e.level, !.root = Elsewhere]
        BY <3>1 DEF Entry
      <4>3. e.level \in Int /\ Elsewhere \in Names \cup {Unsaid}
        BY <3>1 DEF Entry, Names
      <4> QED BY <2>2, <4>1, <4>2, <4>3
    <3> QED BY <3>2, <3>3
  <2>3. m.user \notin DOMAIN links => links' = links
    BY DEF ParentBranchLevel, ParentBranchRoot, HasLink
  <2> QED BY <2>1, <2>2, <2>3
<1>5. /\ DOMAIN links' = DOMAIN links /\ links' \in [DOMAIN links -> Entry]
      /\ \A u \in DOMAIN links : links'[u].link = links[u].link
  <2>1. CASE links' = links
    BY <2>1 DEF TreeShape
  <2>2. ASSUME m.user \in DOMAIN links, NEW l \in Int, NEW r \in Names \cup {Unsaid},
               links' = [links EXCEPT ![m.user] = [@ EXCEPT !.level = l, !.root = r]]
        PROVE  <1>5!1 /\ <1>5!2
    <3>1. [links[m.user] EXCEPT !.level = l, !.root = r] \in Entry
            /\ [links[m.user] EXCEPT !.level = l, !.root = r].link = links[m.user].link
      BY <2>2 DEF TreeShape, Entry
    <3> QED BY <2>2, <3>1 DEF TreeShape
  <2> QED BY <1>4, <2>1, <2>2
<1> QED BY <1>1, <1>3, <1>5, QuietTreeStep

LEMMA SearchKeeps == ASSUME LinkInv, ParentSearch PROVE LinkInv'
<1> USE DEF LinkInv
<1> DEFINE m == Head(treeOps)
           h == [op |-> "IncomingSearch"]
<1>1. treeOps # <<>> /\ m.op = "Search" /\ nextLink' = nextLink
        /\ (treeOps' = Tail(treeOps) \/ treeOps' = Append(Tail(treeOps), h))
  BY DEF ParentSearch, TakesOp
<1>2. h \in LinkOp /\ h.op # "Closed"
  BY DEF LinkOp
<1>3. /\ treeOps' \in Seq(LinkOp)
      /\ \A k \in DOMAIN treeOps' :
             treeOps'[k].op = "Closed" => \E j \in DOMAIN treeOps : treeOps[j] = treeOps'[k]
      /\ \A u, n : EndOnItsWay(treeOps, u, n) => EndOnItsWay(treeOps', u, n)
  <2>1. /\ Tail(treeOps) \in Seq(LinkOp)
        /\ \A k \in DOMAIN Tail(treeOps) : \E j \in DOMAIN treeOps : treeOps[j] = Tail(treeOps)[k]
        /\ \A u, n : EndOnItsWay(treeOps, u, n) => EndOnItsWay(Tail(treeOps), u, n)
    BY <1>1, OpTaken DEF EndOf
  <2>2. CASE treeOps' = Tail(treeOps)
    BY <2>1, <2>2
  <2>3. CASE treeOps' = Append(Tail(treeOps), h)
    <3> DEFINE t == Tail(treeOps)
    <3>1. /\ Append(t, h) \in Seq(LinkOp)
          /\ \A k \in DOMAIN Append(t, h) :
                 Append(t, h)[k] = h \/ (k \in DOMAIN t /\ Append(t, h)[k] = t[k])
          /\ \A u, n : EndOnItsWay(t, u, n) => EndOnItsWay(Append(t, h), u, n)
      BY <1>2, <2>1, OpAdded
    <3> HIDE DEF t, h
    <3>2. \A k \in DOMAIN Append(t, h) :
              Append(t, h)[k].op = "Closed" =>
                  \E j \in DOMAIN treeOps : treeOps[j] = Append(t, h)[k]
      BY <1>2, <2>1, <3>1 DEF t
    <3> QED BY <2>1, <2>3, <3>1, <3>2 DEF t
  <2> QED BY <1>1, <2>2, <2>3
<1>4. CASE Adoptable(m.user, m.link) /\ Adopts(m.user)
  BY <1>1, <1>3, <1>4, AdoptKeeps DEF Adoptable, HasLink
<1>5. CASE UNCHANGED <<parent, links, threads>>
  BY <1>1, <1>3, <1>5, QuietTreeStep DEF TreeShape
<1> QED BY <1>4, <1>5 DEF ParentSearch

\* Everything else leaves links and threads alone and ends no link.
LEMMA OthersKeep ==
    ASSUME LinkInv, UNCHANGED <<parent, links, nextLink, threads>>,
           \/ treeOps' = treeOps
           \/ treeOps # <<>> /\ Head(treeOps).op # "Closed" /\ treeOps' = Tail(treeOps)
           \/ \E m \in LinkOp : m.op # "Closed" /\ treeOps' = Append(treeOps, m)
    PROVE  LinkInv'
<1> USE DEF LinkInv
<1>1. links' \in [DOMAIN links -> Entry]
  BY DEF TreeShape
<1>2. CASE treeOps' = treeOps
  BY <1>1, <1>2, QuietTreeStep DEF TreeShape
<1>3. CASE treeOps # <<>> /\ Head(treeOps).op # "Closed" /\ treeOps' = Tail(treeOps)
  <2>1. /\ treeOps' \in Seq(LinkOp)
        /\ \A k \in DOMAIN treeOps' : \E j \in DOMAIN treeOps : treeOps[j] = treeOps'[k]
        /\ \A u, n : EndOnItsWay(treeOps, u, n) => EndOnItsWay(treeOps', u, n)
    BY <1>3, OpTaken DEF EndOf
  <2> QED BY <1>1, <2>1, QuietTreeStep
<1>4. ASSUME NEW m \in LinkOp, m.op # "Closed", treeOps' = Append(treeOps, m) PROVE LinkInv'
  <2>1. treeOps \in Seq(LinkOp)
    BY DEF TreeShape
  <2>2. /\ treeOps' \in Seq(LinkOp)
        /\ \A k \in DOMAIN treeOps' :
               treeOps'[k].op = "Closed" => \E j \in DOMAIN treeOps : treeOps[j] = treeOps'[k]
        /\ \A u, n : EndOnItsWay(treeOps, u, n) => EndOnItsWay(treeOps', u, n)
    BY <1>4, <2>1, OpAdded
  <2> QED BY <1>1, <2>2, QuietTreeStep
<1> QED BY <1>2, <1>3, <1>4

LEMMA LinkStep == ASSUME LinkInv, [TreeNext]_treeVars PROVE LinkInv'
<1>1. CASE UNCHANGED treeVars
  BY <1>1, OthersKeep DEF treeVars, leafVars
<1>2. CASE HearParentSearch
  BY <1>2, OthersKeep DEF HearParentSearch, TakesOp, leafVars
<1>3. CASE HearServerSearch \/ SweepTellsMove \/ MoveIntervalPasses
  BY <1>3, OthersKeep DEF HearServerSearch, SweepTellsMove, MoveIntervalPasses, leafVars
<1>4. ASSUME NEW k \in Kids, ChildConnected(k) \/ ChildDies(k) PROVE LinkInv'
  BY <1>4, OthersKeep DEF ChildConnected, ChildDies, leafVars
<1>5. ASSUME NEW n \in ChildLimits, ServerFigures(n) PROVE LinkInv'
  BY <1>5, OthersKeep DEF ServerFigures, leafVars
<1>6. ASSUME NEW n \in DOMAIN threads, LinkSends(n) PROVE LinkInv'
  <2>1. PICK m : /\ m \in [op : {"Search", "Root"}, user : {threads[n].user}, link : {n}]
                           \cup [op : {"Level"}, user : {threads[n].user}, link : {n}, level : Levels]
                 /\ Sends(m)
    BY <1>6 DEF LinkSends
  <2>2. threads[n].user \in Candidates /\ n \in Nat
    BY DEF LinkInv, TreeShape, Thread
  <2>3. m \in LinkOp /\ m.op # "Closed"
    BY <2>1, <2>2 DEF LinkOp
  <2> QED BY <2>1, <2>3, OthersKeep DEF Sends, leafVars
<1> QED BY <1>1, <1>2, <1>3, <1>4, <1>5, <1>6, ConsiderKeeps, ClaimKeeps, SearchKeeps,
           ClosedKeeps, ResetKeeps, ThreadEndKeeps DEF TreeNext

LEMMA LinkInit == TreeInit => LinkInv
<1> SUFFICES ASSUME TreeInit PROVE LinkInv
  OBVIOUS
<1>1. DOMAIN links = {} /\ DOMAIN threads = {} /\ DOMAIN treeOps = {}
          /\ treeOps \in Seq(LinkOp) /\ nextLink \in Nat /\ parent = Nobody
  BY DEF TreeInit
<1>2. links \in [DOMAIN links -> Entry] /\ threads \in [DOMAIN threads -> Thread]
  BY <1>1 DEF TreeInit
<1> QED BY <1>1, <1>2
          DEF LinkInv, TreeShape, NumbersOnce, EntriesLive, ThreadsKnown, ParentAlone

\* Whoever is entered as a candidate is being sounded out or its end is on the
\* way, a thread nobody has entered was cancelled, and a parent is the only one
\* entered (distributed.rs:287-292).
THEOREM LinksAndThreads == TreeSpec => []LinksHaveThreads
<1>1. LinkInv /\ [TreeNext]_treeVars => LinkInv'
  BY LinkStep
<1>2. LinkInv => LinksHaveThreads
  BY DEF LinkInv, EntriesLive, ThreadsKnown, ParentAlone, LinksHaveThreads, EndOnItsWay, EndOf
<1> QED BY LinkInit, <1>1, <1>2, PTL DEF TreeSpec
-----------------------------------------------------------------------------
(* What the server and the children are told of our place. *)

Stance == [hasParent : BOOLEAN, branch : Branch, room : BOOLEAN]
Child  == [heard : Branch, alive : BOOLEAN]
Flock(ks) == ks \in [DOMAIN ks -> Child] /\ DOMAIN ks \subseteq Kids

\* What a candidate claims, and how many there are.
ClaimsTyped ==
    /\ nextLink \in 1..(MaxLinks + 1) /\ DOMAIN threads \subseteq 1..(nextLink - 1)
    /\ \A u \in DOMAIN links :
            links[u].link \in 1..MaxLinks /\ links[u].level \in Nat \cup {NoLevel}
    /\ IsFiniteSet(DOMAIN links) /\ Cardinality(DOMAIN links) <= MaxCandidates

StanceTyped ==
    /\ branch \in Branch /\ told \in Stance /\ Flock(kids)
    /\ {movePending, justMoved, fed, overtaken, slipped} \subseteq BOOLEAN
    /\ limit \in Nat

\* A move waits to be told only as a move under a parent, or the parent was
\* lost meanwhile: the sweep that tells it says "has a parent" either way.
MoveHasParent == movePending => parent # Nobody \/ overtaken

LEMMA ParentlessIsABranch == Parentless \in Branch
BY DEF Parentless, Under, Branch, Names

LEMMA RoomIsBoolean ==
    ASSUME NEW ks, NEW f \in BOOLEAN, NEW n PROVE RoomIn(ks, f, n) \in BOOLEAN
BY DEF RoomIn

\* Children that are all kept leave the room as it was.
LEMMA SameFlock ==
    ASSUME NEW ks, NEW js, DOMAIN ks = DOMAIN js, NEW f, NEW n
    PROVE  RoomIn(ks, f, n) = RoomIn(js, f, n)
BY DEF RoomIn

\* A stance broadcast: server and children hear of one and the same place.
LEMMA Announcing ==
    ASSUME NEW ks, Flock(ks), NEW f \in BOOLEAN, NEW b \in Branch, NEW h \in BOOLEAN,
           Announces(ks, f, b, h)
    PROVE  /\ told' \in Stance /\ told'.branch = b /\ told'.hasParent = h
           /\ Flock(kids') /\ \A k \in DOMAIN kids' : kids'[k].heard = b
           /\ slipped' \in BOOLEAN
           /\ told'.room = RoomIn(kids', f, limit) \/ slipped'
<1>1. PICK gone \in SUBSET Dead(ks) :
          /\ told' = [hasParent |-> h, branch |-> b, room |-> RoomIn(ks, f, limit)]
          /\ kids' = [k \in DOMAIN ks \ gone |-> [ks[k] EXCEPT !.heard = b]]
          /\ slipped' = (gone # {})
  BY DEF Announces
<1>2. told' \in Stance /\ told'.branch = b /\ told'.hasParent = h
        /\ told'.room = RoomIn(ks, f, limit)
  BY <1>1, RoomIsBoolean DEF Stance
<1>3. DOMAIN kids' = DOMAIN ks \ gone
  BY <1>1
<1>4. ASSUME NEW k \in DOMAIN kids'
      PROVE  kids'[k] \in Child /\ kids'[k].heard = b
  <2>1. ks[k] \in Child /\ kids'[k] = [ks[k] EXCEPT !.heard = b]
    BY <1>1, <1>3, <1>4 DEF Flock
  <2> QED BY <2>1 DEF Child
<1>5. kids' \in [DOMAIN kids' -> Child]
  BY <1>1, <1>4
<1>6. gone = {} => RoomIn(kids', f, limit) = RoomIn(ks, f, limit)
  BY <1>3, SameFlock
<1> QED BY <1>1, <1>2, <1>3, <1>4, <1>5, <1>6 DEF Flock

\* Children dropped in a write: the rest know what they knew.
LEMMA Dropping ==
    ASSUME NEW ks, Flock(ks), NEW gone, NEW b, \A k \in DOMAIN ks : ks[k].heard = b
    PROVE  /\ Flock(WithoutKids(ks, gone))
           /\ DOMAIN WithoutKids(ks, gone) = DOMAIN ks \ gone
           /\ \A k \in DOMAIN WithoutKids(ks, gone) : WithoutKids(ks, gone)[k].heard = b
BY DEF Flock, WithoutKids

LEMMA TellingRoom ==
    ASSUME told \in Stance, NEW r \in BOOLEAN, TellsRoom(r)
    PROVE  /\ told' \in Stance /\ told'.room = r
           /\ told'.branch = told.branch /\ told'.hasParent = told.hasParent
           /\ slipped' = FALSE
BY DEF TellsRoom, Stance
-----------------------------------------------------------------------------
StanceInv == StanceTyped /\ MoveHasParent /\ PlaceIsTold /\ RoomIsTold

\* A step that only time, links or threads notice.
LEMMA StanceKept ==
    ASSUME StanceInv, UNCHANGED <<parent, branch, movePending, childVars, serverSees>>,
           justMoved' \in BOOLEAN
    PROVE  StanceInv'
BY DEF StanceInv, StanceTyped, MoveHasParent, PlaceIsTold, RoomIsTold, HasRoom, childVars,
       serverSees

\* A broadcast settles whatever waited, if it says rightly whether we have a
\* parent.
LEMMA StanceTold ==
    ASSUME StanceInv, NEW ks, Flock(ks), NEW f \in BOOLEAN, NEW b \in Branch,
           NEW h \in BOOLEAN, Announces(ks, f, b, h),
           branch' = b, fed' = f, limit' = limit,
           {movePending', justMoved', overtaken'} \subseteq BOOLEAN,
           (h <=> parent' # Nobody) \/ overtaken',
           movePending' => parent' # Nobody \/ overtaken'
    PROVE  StanceInv'
<1>1. /\ told' \in Stance /\ told'.branch = b /\ told'.hasParent = h
      /\ Flock(kids') /\ \A k \in DOMAIN kids' : kids'[k].heard = b
      /\ slipped' \in BOOLEAN
      /\ told'.room = RoomIn(kids', f, limit) \/ slipped'
  BY Announcing
<1>2. StanceTyped'
  BY <1>1 DEF StanceInv, StanceTyped, Flock
<1>3. PlaceIsTold'
  <2>1. told'.hasParent = (parent' # Nobody) \/ overtaken'
    BY <1>1
  <2> QED BY <1>1, <2>1 DEF PlaceIsTold
<1>4. RoomIsTold'
  BY <1>1 DEF RoomIsTold, HasRoom
<1> QED BY <1>2, <1>3, <1>4 DEF StanceInv, MoveHasParent

\* A candidate's claim moves us only if it is our parent's and names a place.
LEMMA ClaimStance ==
    ASSUME LinkInv, StanceInv, NEW u \in Candidates, NEW c,
           c.level \in Nat \cup {NoLevel}, c.root \in Names \cup {Unsaid},
           Claim(u, c), UNCHANGED <<parent, fed, limit>>
    PROVE  StanceInv'
<1> DEFINE b == Under(c.root, c.level + 1)
<1>1. CASE parent # u \/ c.root = Unsaid \/ c.level = NoLevel \/ b = branch
  <2>1. UNCHANGED <<branch, movePending, justMoved, serverSees, kids>>
    BY <1>1 DEF Claim
  <2> QED BY <2>1, StanceKept DEF StanceInv, StanceTyped, childVars
<1>2. CASE ~(parent # u \/ c.root = Unsaid \/ c.level = NoLevel \/ b = branch)
  <2>1. b \in Branch
    BY <1>2 DEF Under, Branch
  <2>2. parent' = u /\ u # Nobody
    BY <1>2
  <2>3. /\ branch' = b /\ movePending' = justMoved /\ justMoved' = TRUE
        /\ overtaken' = (justMoved /\ overtaken)
        /\ IF justMoved THEN UNCHANGED <<told, slipped, kids>>
                        ELSE Announces(kids, fed, b, TRUE)
    BY <1>2 DEF Claim
  <2>4. {justMoved, overtaken} \subseteq BOOLEAN /\ Flock(kids) /\ fed \in BOOLEAN
    BY DEF StanceInv, StanceTyped
  <2> HIDE DEF b
  <2>5. CASE justMoved
    <3>1. overtaken' = overtaken /\ movePending' = TRUE
      BY <2>3, <2>4, <2>5
    <3>2. UNCHANGED <<told, slipped, kids, fed, limit, parent>>
      BY <2>3, <2>5
    <3> QED BY <2>1, <2>2, <2>3, <3>1, <3>2
            DEF StanceInv, StanceTyped, MoveHasParent, PlaceIsTold, RoomIsTold, HasRoom
  <2>6. CASE ~justMoved
    <3>1. Announces(kids, fed, b, TRUE) /\ movePending' = FALSE /\ overtaken' = FALSE
      BY <2>3, <2>4, <2>6
    <3>2. {movePending', justMoved', overtaken'} \subseteq BOOLEAN
      BY <2>3, <3>1
    <3>3. (TRUE <=> parent' # Nobody) \/ overtaken'
      BY <2>2
    <3> QED BY <2>1, <2>3, <2>4, <3>1, <3>2, <3>3, StanceTold
  <2> QED BY <2>5, <2>6
<1> QED BY <1>1, <1>2

LEMMA ClaimingStance ==
    ASSUME LinkInv, ClaimsTyped, StanceInv, ParentBranchLevel \/ ParentBranchRoot
    PROVE  StanceInv'
<1> DEFINE m == Head(treeOps)
<1>1. treeOps # <<>> /\ m.op \in {"Level", "Root"} /\ UNCHANGED <<parent, fed, limit>>
  BY DEF ParentBranchLevel, ParentBranchRoot, TakesOp
<1>2. m \in LinkOp
  BY <1>1, OpTaken DEF LinkInv
<1>3. m.user \in Candidates /\ (m.op = "Level" => m.level \in Int)
  BY <1>1, <1>2 DEF LinkOp
<1>4. CASE ~HasLink(m.user, m.link)
  <2>1. UNCHANGED <<branch, movePending, justMoved, serverSees, kids>>
    BY <1>4 DEF ParentBranchLevel, ParentBranchRoot
  <2> QED BY <1>1, <2>1, StanceKept DEF StanceInv, StanceTyped, childVars
<1>5. CASE HasLink(m.user, m.link)
  <2> DEFINE e == links[m.user]
  <2>1. e \in Entry /\ e.level \in Nat \cup {NoLevel}
    BY <1>5 DEF HasLink, LinkInv, TreeShape, ClaimsTyped
  <2>2. CASE ParentBranchLevel
    <3> DEFINE c == [e EXCEPT !.level = IF m.level < 0 THEN NoLevel ELSE m.level,
                              !.root  = IF m.level = 0 THEN m.user ELSE @]
    <3>1. Claim(m.user, c)
      BY <1>5, <2>2 DEF ParentBranchLevel
    <3>2. m.level \in Int
      BY <1>3, <2>2 DEF ParentBranchLevel, TakesOp
    <3>3. c.level \in Nat \cup {NoLevel} /\ c.root \in Names \cup {Unsaid}
      BY <1>3, <2>1, <3>2 DEF Entry, Names
    <3> QED BY <1>1, <1>3, <3>1, <3>3, ClaimStance
  <2>3. CASE ParentBranchRoot
    <3> DEFINE c == [e EXCEPT !.root = Elsewhere]
    <3>1. Claim(m.user, c)
      BY <1>5, <2>3 DEF ParentBranchRoot
    <3>2. c.level \in Nat \cup {NoLevel} /\ c.root \in Names \cup {Unsaid}
      BY <2>1 DEF Entry, Names
    <3> QED BY <1>1, <1>3, <3>1, <3>2, ClaimStance
  <2> QED BY <2>2, <2>3
<1> QED BY <1>4, <1>5

\* Losing the parent is told at once; a move that waited is told after it.
LEMMA OrphanStance ==
    ASSUME StanceInv, NEW f \in BOOLEAN, NEW ks, Flock(ks), Orphaned(f, ks),
           fed' = f, UNCHANGED <<movePending, justMoved, limit>>
    PROVE  StanceInv'
<1>1. /\ parent' = Nobody /\ branch' = Parentless /\ overtaken' = movePending
      /\ Announces(ks, f, Parentless, FALSE)
  BY DEF Orphaned
<1>2. {movePending', justMoved', overtaken'} \subseteq BOOLEAN
  BY <1>1 DEF StanceInv, StanceTyped
<1>3. (FALSE <=> parent' # Nobody) \/ overtaken'
  BY <1>1
<1>4. movePending' => parent' # Nobody \/ overtaken'
  BY <1>1
<1> QED BY <1>1, <1>2, <1>3, <1>4, ParentlessIsABranch, StanceTold

LEMMA SearchStance ==
    ASSUME LinkInv, ClaimsTyped, StanceInv, ParentSearch PROVE StanceInv'
<1> DEFINE m == Head(treeOps)
<1>1. UNCHANGED <<movePending, justMoved, fed, limit>>
  BY DEF ParentSearch
<1>2. CASE Adoptable(m.user, m.link) /\ Adopts(m.user)
  <2> DEFINE u == m.user
             b == Under(links[u].root, links[u].level + 1)
  <2>1. u \in DOMAIN links /\ links[u].level # NoLevel /\ links[u].root # Unsaid
    BY <1>2 DEF Adoptable, HasLink
  <2>2. links[u] \in Entry /\ links[u].level \in Nat /\ u \in Candidates
    BY <2>1 DEF LinkInv, TreeShape, ClaimsTyped
  <2>3. b \in Branch
    BY <2>1, <2>2 DEF Under, Branch, Entry
  <2>4. parent' = u /\ branch' = b /\ overtaken' = FALSE /\ Announces(kids, fed, b, TRUE)
    BY <1>2 DEF Adopts
  <2>5. u # Nobody
    BY <2>2
  <2>6. {movePending', justMoved', overtaken'} \subseteq BOOLEAN /\ Flock(kids) /\ fed \in BOOLEAN
    BY <1>1, <2>4 DEF StanceInv, StanceTyped
  <2> HIDE DEF b
  <2>7. (TRUE <=> parent' # Nobody) \/ overtaken'
    BY <2>4, <2>5
  <2>8. movePending' => parent' # Nobody \/ overtaken'
    BY <2>4, <2>5
  <2>9. fed' = fed /\ limit' = limit
    BY <1>1
  <2> QED BY <2>3, <2>4, <2>6, <2>7, <2>8, <2>9, StanceTold
<1>3. CASE Relays /\ UNCHANGED <<parent, branch, told, overtaken>>
  <2>1. PICK gone \in SUBSET Dead(kids) :
            kids' = WithoutKids(kids, gone) /\ slipped' = (slipped \/ gone # {})
    BY <1>3 DEF Relays
  <2>2. /\ Flock(kids') /\ DOMAIN kids' = DOMAIN kids \ gone
        /\ \A k \in DOMAIN kids' : kids'[k].heard = kids[k].heard
    BY <2>1 DEF StanceInv, StanceTyped, Flock, WithoutKids
  <2>3. slipped' \in BOOLEAN /\ (gone # {} => slipped') /\ (slipped => slipped')
    BY <2>1
  <2>4. gone = {} => RoomIn(kids', fed, limit) = RoomIn(kids, fed, limit)
    BY <2>2, SameFlock
  <2> QED BY <1>1, <1>3, <2>2, <2>3, <2>4
          DEF StanceInv, StanceTyped, MoveHasParent, PlaceIsTold, RoomIsTold, HasRoom
<1>4. CASE UNCHANGED <<parent, branch, kids, serverSees>>
  BY <1>1, <1>4, StanceKept DEF StanceInv, StanceTyped, childVars
<1> QED BY <1>2, <1>3, <1>4 DEF ParentSearch

LEMMA ClosedStance == ASSUME StanceInv, ParentClosed PROVE StanceInv'
<1>1. UNCHANGED <<movePending, justMoved, fed, limit>>
  BY DEF ParentClosed
<1>2. CASE Orphaned(fed, kids)
  BY <1>1, <1>2, OrphanStance DEF StanceInv, StanceTyped
<1>3. CASE UNCHANGED <<parent, branch, kids, serverSees>>
  BY <1>1, <1>3, StanceKept DEF StanceInv, StanceTyped, childVars
<1> QED BY <1>2, <1>3 DEF ParentClosed

LEMMA ResetStance == ASSUME StanceInv, ResetDistributed PROVE StanceInv'
<1>1. Flock(<<>>)
  BY DEF Flock
<1> QED BY <1>1, OrphanStance DEF ResetDistributed

LEMMA SweepStance == ASSUME StanceInv, SweepTellsMove PROVE StanceInv'
<1>1. /\ movePending /\ movePending' = FALSE /\ justMoved' = TRUE
      /\ UNCHANGED <<overtaken, parent, branch, fed, limit>>
      /\ Announces(kids, fed, branch, TRUE)
  BY DEF SweepTellsMove
<1>2. /\ {movePending', justMoved', overtaken'} \subseteq BOOLEAN
      /\ Flock(kids) /\ fed \in BOOLEAN /\ branch \in Branch
  BY <1>1 DEF StanceInv, StanceTyped
<1>3. (TRUE <=> parent' # Nobody) \/ overtaken'
  BY <1>1 DEF StanceInv, MoveHasParent
<1>4. movePending' => parent' # Nobody \/ overtaken'
  BY <1>1
<1> QED BY <1>1, <1>2, <1>3, <1>4, StanceTold
-----------------------------------------------------------------------------
\* What is told of the room alone leaves what was told of the place.
LEMMA RoomRetold ==
    ASSUME StanceInv, Flock(kids'), \A k \in DOMAIN kids' :
               kids'[k].heard = branch \/ movePending,
           NEW r \in BOOLEAN, TellsRoom(r), r = HasRoom',
           fed' \in BOOLEAN, limit' \in Nat,
           UNCHANGED <<parent, branch, movePending, justMoved, overtaken>>
    PROVE  StanceInv'
<1>1. /\ told' \in Stance /\ told'.room = r
      /\ told'.branch = told.branch /\ told'.hasParent = told.hasParent
      /\ slipped' = FALSE
  BY TellingRoom DEF StanceInv, StanceTyped
<1> QED BY <1>1 DEF StanceInv, StanceTyped, MoveHasParent, PlaceIsTold, RoomIsTold

\* The room is not told again when the server knows of it.
LEMMA RoomKept ==
    ASSUME StanceInv, Flock(kids'), \A k \in DOMAIN kids' :
               kids'[k].heard = branch \/ movePending,
           HasRoom' = HasRoom,
           fed' \in BOOLEAN, limit' \in Nat,
           UNCHANGED <<parent, branch, movePending, justMoved, serverSees>>
    PROVE  StanceInv'
BY DEF StanceInv, StanceTyped, MoveHasParent, PlaceIsTold, RoomIsTold, serverSees

LEMMA HearingStance ==
    ASSUME StanceInv, HearParentSearch \/ HearServerSearch PROVE StanceInv'
<1>1. fed' = TRUE /\ UNCHANGED <<parent, branch, movePending, justMoved, limit, overtaken>>
  BY DEF HearParentSearch, HearServerSearch, leafVars
<1>2. fed \in BOOLEAN /\ limit \in Nat /\ limit' \in Nat /\ Flock(kids) /\ fed' \in BOOLEAN
  BY <1>1 DEF StanceInv, StanceTyped
<1>3. \A k \in DOMAIN kids : kids[k].heard = branch \/ movePending
  BY DEF StanceInv, PlaceIsTold
<1>4. CASE HearParentSearch
  <2>1. kids' = kids
    BY <1>4 DEF HearParentSearch
  <2>2. CASE fed
    <3>1. UNCHANGED <<told, slipped>> /\ fed' = fed
      BY <1>1, <1>2, <1>4, <2>2 DEF HearParentSearch
    <3>2. HasRoom' = HasRoom
      BY <1>1, <2>1, <3>1 DEF HasRoom
    <3> QED BY <1>1, <1>2, <1>3, <2>1, <3>1, <3>2, RoomKept DEF serverSees
  <2>3. CASE ~fed
    <3>1. TellsRoom(RoomIn(kids, TRUE, limit))
      BY <1>4, <2>3 DEF HearParentSearch
    <3>2. RoomIn(kids, TRUE, limit) = HasRoom' /\ RoomIn(kids, TRUE, limit) \in BOOLEAN
      BY <1>1, <2>1, RoomIsBoolean DEF HasRoom
    <3> QED BY <1>1, <1>2, <1>3, <2>1, <3>1, <3>2, RoomRetold
  <2> QED BY <2>2, <2>3
<1>5. CASE HearServerSearch
  <2>1. PICK gone \in SUBSET Dead(kids) :
            /\ kids' = WithoutKids(kids, gone)
            /\ IF fed /\ gone = {} THEN UNCHANGED <<told, slipped>>
               ELSE TellsRoom(RoomIn(WithoutKids(kids, gone), TRUE, limit))
    BY <1>5 DEF HearServerSearch
  <2>2. /\ Flock(kids') /\ DOMAIN kids' = DOMAIN kids \ gone
        /\ \A k \in DOMAIN kids' : kids'[k].heard = kids[k].heard
    BY <1>2, <2>1 DEF Flock, WithoutKids
  <2>3. \A k \in DOMAIN kids' : kids'[k].heard = branch \/ movePending
    BY <1>3, <2>2
  <2>4. CASE fed /\ gone = {}
    <3>1. HasRoom' = HasRoom
      <4>1. DOMAIN kids' = DOMAIN kids
        BY <2>2, <2>4
      <4>2. RoomIn(kids', fed, limit) = RoomIn(kids, fed, limit)
        BY <4>1, SameFlock
      <4>3. fed' = fed
        BY <1>1, <1>2, <2>4
      <4> QED BY <1>1, <4>2, <4>3 DEF HasRoom
    <3> QED BY <1>1, <1>2, <2>1, <2>2, <2>3, <2>4, <3>1, RoomKept DEF serverSees
  <2>5. CASE ~(fed /\ gone = {})
    <3>1. TellsRoom(RoomIn(kids', TRUE, limit))
      BY <2>1, <2>5
    <3>2. RoomIn(kids', TRUE, limit) = HasRoom' /\ RoomIn(kids', TRUE, limit) \in BOOLEAN
      BY <1>1, RoomIsBoolean DEF HasRoom
    <3> QED BY <1>1, <1>2, <2>2, <2>3, <3>1, <3>2, RoomRetold
  <2> QED BY <2>4, <2>5
<1> QED BY <1>4, <1>5

\* Whoever fills us is taken on, told where we sit, and reported.
LEMMA NewChildStance ==
    ASSUME StanceInv, NEW k \in Kids, ChildConnected(k) PROVE StanceInv'
<1> DEFINE carried == [c \in DOMAIN kids \cup {k} |->
                          IF c = k THEN [heard |-> branch, alive |-> TRUE] ELSE kids[c]]
<1>1. /\ HasRoom /\ k \notin DOMAIN kids /\ kids' = carried
      /\ IF RoomIn(carried, fed, limit) THEN UNCHANGED <<told, slipped>> ELSE TellsRoom(FALSE)
      /\ UNCHANGED <<parent, branch, movePending, justMoved, fed, limit, overtaken>>
  BY DEF ChildConnected, leafVars
<1>2. fed' \in BOOLEAN /\ limit' \in Nat /\ Flock(kids) /\ branch \in Branch /\ fed \in BOOLEAN
  BY <1>1 DEF StanceInv, StanceTyped
<1>3. ASSUME NEW c \in DOMAIN kids'
      PROVE  kids'[c] \in Child /\ (kids'[c].heard = branch \/ movePending)
  <2>1. CASE c = k
    BY <1>1, <1>2, <2>1 DEF Child
  <2>2. CASE c # k
    <3>1. c \in DOMAIN kids /\ kids'[c] = kids[c]
      BY <1>1, <2>2
    <3> QED BY <1>2, <3>1 DEF Flock, StanceInv, PlaceIsTold
  <2> QED BY <2>1, <2>2
<1>4. Flock(kids')
  <2>1. DOMAIN kids' = DOMAIN kids \cup {k} /\ kids' \in [DOMAIN kids' -> Child]
    BY <1>1, <1>3
  <2> QED BY <1>2, <2>1 DEF Flock
<1> HIDE DEF carried
<1>5. RoomIn(carried, fed, limit) = HasRoom'
  BY <1>1 DEF HasRoom
<1>6. CASE RoomIn(carried, fed, limit)
  <2>1. HasRoom' = HasRoom
    BY <1>1, <1>2, <1>5, <1>6, RoomIsBoolean DEF HasRoom
  <2> QED BY <1>1, <1>2, <1>3, <1>4, <1>6, <2>1, RoomKept DEF serverSees
<1>7. CASE ~RoomIn(carried, fed, limit)
  <2>1. FALSE = HasRoom'
    BY <1>2, <1>5, <1>7, RoomIsBoolean
  <2> QED BY <1>1, <1>2, <1>3, <1>4, <1>7, <2>1, RoomRetold
<1> QED BY <1>6, <1>7

LEMMA DyingStance == ASSUME StanceInv, NEW k \in Kids, ChildDies(k) PROVE StanceInv'
<1>1. /\ k \in DOMAIN kids /\ kids' = [kids EXCEPT ![k].alive = FALSE]
      /\ UNCHANGED <<parent, branch, movePending, justMoved, fed, limit, serverSees>>
  BY DEF ChildDies, leafVars
<1>2. Flock(kids)
  BY DEF StanceInv, StanceTyped
<1>3. /\ Flock(kids') /\ DOMAIN kids' = DOMAIN kids
      /\ \A c \in DOMAIN kids : kids'[c].heard = kids[c].heard
  BY <1>1, <1>2 DEF Flock, Child
<1>4. HasRoom' = HasRoom
  <2>1. RoomIn(kids', fed, limit) = RoomIn(kids, fed, limit)
    BY <1>3, SameFlock
  <2> QED BY <1>1, <2>1 DEF HasRoom
<1>5. \A c \in DOMAIN kids' : kids'[c].heard = branch \/ movePending
  BY <1>3 DEF StanceInv, PlaceIsTold
<1>6. fed' \in BOOLEAN /\ limit' \in Nat
  BY <1>1 DEF StanceInv, StanceTyped
<1> QED BY <1>1, <1>3, <1>4, <1>5, <1>6, RoomKept

LEMMA FiguresStance ==
    ASSUME StanceInv, NEW n \in ChildLimits, ServerFigures(n) PROVE StanceInv'
<1>1. /\ limit' = n /\ TellsRoom(RoomIn(kids, fed, n))
      /\ UNCHANGED <<parent, branch, movePending, justMoved, kids, fed, overtaken>>
  BY DEF ServerFigures, leafVars
<1>2. fed \in BOOLEAN /\ Flock(kids) /\ n \in Nat
  BY DEF StanceInv, StanceTyped
<1>3. RoomIn(kids, fed, n) = HasRoom' /\ RoomIn(kids, fed, n) \in BOOLEAN
  BY <1>1, <1>2, RoomIsBoolean DEF HasRoom
<1>4. \A k \in DOMAIN kids' : kids'[k].heard = branch \/ movePending
  BY <1>1 DEF StanceInv, PlaceIsTold
<1> QED BY <1>1, <1>2, <1>3, <1>4, RoomRetold

LEMMA StanceStep ==
    ASSUME LinkInv, ClaimsTyped, StanceInv, [TreeNext]_treeVars PROVE StanceInv'
<1>1. CASE UNCHANGED treeVars
  BY <1>1, StanceKept DEF treeVars, leafVars, StanceInv, StanceTyped
<1>2. ASSUME NEW u \in Candidates, Consider(u) PROVE StanceInv'
  BY <1>2, StanceKept DEF Consider, StanceInv, StanceTyped
<1>3. CASE MoveIntervalPasses
  BY <1>3, StanceKept DEF MoveIntervalPasses
<1>4. ASSUME NEW n \in DOMAIN threads, LinkSends(n) \/ LinkBreaks(n) \/ LinkCancelled(n)
      PROVE  StanceInv'
  <2>1. UNCHANGED <<leafVars, childVars, serverSees>>
    BY <1>4 DEF LinkSends, Sends, LinkBreaks, LinkCancelled
  <2> QED BY <2>1, StanceKept DEF leafVars, StanceInv, StanceTyped
<1> QED BY <1>1, <1>2, <1>3, <1>4, ClaimingStance, SearchStance, ClosedStance, ResetStance,
           SweepStance, HearingStance, NewChildStance, DyingStance, FiguresStance DEF TreeNext
-----------------------------------------------------------------------------
\* How many candidates there are and what they claim.
LEMMA ClaimsStep ==
    ASSUME LinkInv, ClaimsTyped, [TreeNext]_treeVars PROVE ClaimsTyped'
<1> USE DEF ClaimsTyped
<1>1. CASE UNCHANGED <<links, nextLink, threads>>
  BY <1>1
<1>2. ASSUME NEW u \in Candidates, Consider(u) PROVE ClaimsTyped'
  <2> DEFINE e == [link |-> nextLink, level |-> NoLevel, root |-> Unsaid]
  <2>1. /\ u \notin DOMAIN links /\ Cardinality(DOMAIN links) < MaxCandidates
        /\ nextLink <= MaxLinks /\ nextLink' = nextLink + 1
        /\ links' = [v \in DOMAIN links \cup {u} |-> IF v = u THEN e ELSE links[v]]
        /\ DOMAIN threads' = DOMAIN threads \cup {nextLink}
    BY <1>2 DEF Consider
  <2>2. IsFiniteSet(DOMAIN links') /\ Cardinality(DOMAIN links') = Cardinality(DOMAIN links) + 1
    BY <2>1, FS_AddElement
  <2>3. Cardinality(DOMAIN links) \in Nat
    BY FS_CardinalityType
  <2>4. nextLink \in 1..MaxLinks /\ nextLink' \in 1..(MaxLinks + 1)
    BY <2>1
  <2>5. ASSUME NEW v \in DOMAIN links'
        PROVE  links'[v].link \in 1..MaxLinks /\ links'[v].level \in Nat \cup {NoLevel}
    BY <2>1, <2>4
  <2>6. DOMAIN threads' \subseteq 1..(nextLink' - 1)
    BY <2>1, <2>4
  <2>7. Cardinality(DOMAIN links') <= MaxCandidates
    BY <2>1, <2>2, <2>3
  <2> QED BY <2>2, <2>4, <2>5, <2>6, <2>7
<1>3. CASE /\ nextLink' = nextLink /\ DOMAIN threads' \subseteq DOMAIN threads
           /\ DOMAIN links' \subseteq DOMAIN links
           /\ \A v \in DOMAIN links' : links'[v] = links[v]
  <2>1. IsFiniteSet(DOMAIN links') /\ Cardinality(DOMAIN links') <= Cardinality(DOMAIN links)
    BY <1>3, FS_Subset
  <2>2. Cardinality(DOMAIN links) \in Nat /\ Cardinality(DOMAIN links') \in Nat
    BY <2>1, FS_CardinalityType
  <2> QED BY <1>3, <2>1, <2>2
<1>4. CASE ParentBranchLevel \/ ParentBranchRoot
  <2> DEFINE m == Head(treeOps)
             e == links[m.user]
  <2>1. UNCHANGED <<nextLink, threads>>
    BY <1>4 DEF ParentBranchLevel, ParentBranchRoot
  <2>2. CASE links' = links
    BY <2>1, <2>2
  <2>3. CASE HasLink(m.user, m.link)
    <3>1. e \in Entry /\ e.level \in Nat \cup {NoLevel} /\ e.link \in 1..MaxLinks
            /\ m.user \in DOMAIN links
      BY <2>3 DEF HasLink, LinkInv, TreeShape
    <3>2. PICK c : links' = [links EXCEPT ![m.user] = c] /\ c.link = e.link
                    /\ c.level \in Nat \cup {NoLevel}
      <4>1. CASE ParentBranchLevel
        <5> DEFINE c == [e EXCEPT !.level = IF m.level < 0 THEN NoLevel ELSE m.level,
                                  !.root  = IF m.level = 0 THEN m.user ELSE @]
        <5>1. links' = [links EXCEPT ![m.user] = c]
          BY <2>3, <4>1 DEF ParentBranchLevel, Claim
        <5>2. m.level \in Int
          <6>1. m \in LinkOp /\ m.op = "Level"
            BY <4>1, OpTaken DEF ParentBranchLevel, TakesOp, LinkInv
          <6> QED BY <6>1 DEF LinkOp
        <5>3. c.link = e.link /\ c.level \in Nat \cup {NoLevel}
          BY <3>1, <5>2 DEF Entry
        <5> QED BY <5>1, <5>3
      <4>2. CASE ParentBranchRoot
        <5>1. links' = [links EXCEPT ![m.user] = [e EXCEPT !.root = Elsewhere]]
          BY <2>3, <4>2 DEF ParentBranchRoot, Claim
        <5>2. [e EXCEPT !.root = Elsewhere].link = e.link
                /\ [e EXCEPT !.root = Elsewhere].level = e.level
          BY <3>1 DEF Entry
        <5> QED BY <3>1, <5>1, <5>2
      <4> QED BY <1>4, <4>1, <4>2
    <3>3. DOMAIN links' = DOMAIN links
            /\ \A v \in DOMAIN links : v # m.user => links'[v] = links[v]
      BY <3>2
    <3>4. links'[m.user] = c
      BY <3>1, <3>2
    <3>5. ASSUME NEW v \in DOMAIN links'
          PROVE  links'[v].link \in 1..MaxLinks /\ links'[v].level \in Nat \cup {NoLevel}
      BY <3>1, <3>2, <3>3, <3>4
    <3> QED BY <2>1, <3>3, <3>5
  <2> QED BY <1>4, <2>2, <2>3 DEF ParentBranchLevel, ParentBranchRoot
<1>5. CASE ParentSearch
  <2>1. CASE \E u \in DOMAIN links : Adopts(u)
    <3>1. /\ DOMAIN threads' = DOMAIN threads /\ DOMAIN links' \subseteq DOMAIN links
          /\ \A v \in DOMAIN links' : links'[v] = links[v]
      BY <2>1 DEF Adopts, CancelAll
    <3> QED BY <1>3, <1>5, <3>1 DEF ParentSearch
  <2>2. CASE UNCHANGED <<links, threads>>
    BY <1>1, <1>5, <2>2 DEF ParentSearch
  <2> QED BY <1>5, <2>1, <2>2 DEF ParentSearch, Adoptable, HasLink
<1>6. CASE ParentClosed
  BY <1>3, <1>6 DEF ParentClosed
<1>7. CASE ResetDistributed
  BY <1>3, <1>7 DEF ResetDistributed, CancelAll
<1>8. ASSUME NEW n \in DOMAIN threads, LinkBreaks(n) \/ LinkCancelled(n) PROVE ClaimsTyped'
  BY <1>3, <1>8 DEF LinkBreaks, LinkCancelled, Ended, leafVars
<1>9. CASE UNCHANGED treeVars \/ HearParentSearch \/ HearServerSearch
           \/ SweepTellsMove \/ MoveIntervalPasses
  BY <1>1, <1>9 DEF treeVars, leafVars, HearParentSearch, HearServerSearch, SweepTellsMove,
                    MoveIntervalPasses
<1>10. CASE (\E k \in Kids : ChildConnected(k) \/ ChildDies(k))
            \/ \E n \in ChildLimits : ServerFigures(n)
  BY <1>1, <1>10 DEF ChildConnected, ChildDies, ServerFigures, leafVars
<1>11. ASSUME NEW n \in DOMAIN threads, LinkSends(n) PROVE ClaimsTyped'
  BY <1>1, <1>11 DEF LinkSends, Sends, leafVars
<1> QED BY <1>2, <1>4, <1>5, <1>6, <1>7, <1>8, <1>9, <1>10, <1>11 DEF TreeNext
-----------------------------------------------------------------------------
PlaceInv == LinkInv /\ ClaimsTyped /\ StanceInv

LEMMA PlaceAlways == TreeSpec => []PlaceInv
<1>1. TreeInit => PlaceInv
  <2> SUFFICES ASSUME TreeInit PROVE PlaceInv
    OBVIOUS
  <2>1. DOMAIN links = {} /\ DOMAIN threads = {} /\ DOMAIN kids = {} /\ nextLink = 1
          /\ parent = Nobody
    BY DEF TreeInit
  <2>2. IsFiniteSet({}) /\ Cardinality({}) = 0
    BY FS_EmptySet
  <2>3. ClaimsTyped
    BY <2>1, <2>2 DEF ClaimsTyped
  <2>4. told \in Stance /\ ~told.room /\ told.branch = branch /\ ~told.hasParent
    BY ParentlessIsABranch DEF TreeInit, Stance
  <2>5. StanceTyped
    <3>1. Flock(kids)
      BY <2>1 DEF TreeInit, Flock
    <3>2. limit \in Nat
      BY DEF TreeInit
    <3> QED BY <2>4, <3>1, <3>2, ParentlessIsABranch DEF TreeInit, StanceTyped
  <2>6. StanceInv
    BY <2>1, <2>4, <2>5
       DEF TreeInit, StanceInv, Stance, MoveHasParent, PlaceIsTold, RoomIsTold, HasRoom, RoomIn
  <2> QED BY <2>3, <2>6, LinkInit DEF PlaceInv
<1>2. PlaceInv /\ [TreeNext]_treeVars => PlaceInv'
  BY LinkStep, ClaimsStep, StanceStep DEF PlaceInv
<1> QED BY <1>1, <1>2, PTL DEF TreeSpec

\* Every table of the tree keeps its type: whatever level a candidate claims,
\* ours is never below zero (distributed.rs:178-190), and there are never more
\* candidates than the cap.
THEOREM TreeTyped == TreeSpec => []TreeTypeOK
<1>1. PlaceInv => TreeTypeOK
  <2> SUFFICES ASSUME PlaceInv PROVE TreeTypeOK
    OBVIOUS
  <2>1. \A u \in DOMAIN links :
            links[u] \in [link : 1..MaxLinks, level : Nat \cup {NoLevel},
                          root : Names \cup {Unsaid}]
    BY DEF PlaceInv, ClaimsTyped, LinkInv, TreeShape, Entry
  <2>2. \A k \in DOMAIN treeOps : treeOps[k] \in LinkOp
    BY DEF PlaceInv, LinkInv, TreeShape
  <2> QED BY <2>1, <2>2
          DEF TreeTypeOK, PlaceInv, ClaimsTyped, LinkInv, TreeShape, Thread, StanceInv,
              StanceTyped, Stance, Child, Flock
<1> QED BY <1>1, PlaceAlways, PTL

\* What the server and every child last heard of our place is where we sit, or
\* a move waits to be told; and whether we have a parent is told rightly, but
\* for the sweep that tells a waiting move after the parent was lost
\* (operations/mod.rs:46-51).
THEOREM PlacesAreTold == TreeSpec => []PlaceIsTold
<1>1. PlaceInv => PlaceIsTold
  BY DEF PlaceInv, StanceInv
<1> QED BY <1>1, PlaceAlways, PTL

\* The server knows whether we would take another child
\* (operations/mod.rs:734-736), but for a child that fell off in a write no
\* answer follows.
THEOREM RoomsAreTold == TreeSpec => []RoomIsTold
<1>1. PlaceInv => RoomIsTold
  BY DEF PlaceInv, StanceInv
<1> QED BY <1>1, PlaceAlways, PTL
=============================================================================
