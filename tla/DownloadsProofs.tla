-------------------------- MODULE DownloadsProofs --------------------------
(***************************************************************************)
(* Proofs about the files we fetch, for any peers, files, sizes and        *)
(* bounds: one thread to a download, verdicts that stay, cancellations     *)
(* that hold, transfers that are not abandoned and files that are whole.   *)
(***************************************************************************)
EXTENDS Downloads, SequenceTheorems, WellFoundedInduction, TLAPS

Live(r) == r.status \in {"InProgress", "Paused"}

Places == {"claimed", "opening", "looking", "reading", "finishing", "failing",
           "discarding"}

Thread == [id : Ids, user : Users, file : Files, token : Nat, at : Places,
           inode : Nat, append : BOOLEAN, written : 0..Size]

Data == Seq(Chunk \cup {Hole})

Opened(n) == threads[n].at \in {"looking", "reading", "finishing", "discarding"}

\* The store: rows have a place and a caller of their own, and their positions
\* have a bound, so that a row can always be pushed after the last.
Store ==
    /\ rows \subseteq Row
    /\ minted \in 0..MaxDownloads
    /\ \A r, q \in rows : r.pos = q.pos => r = q
    /\ \A r, q \in rows : r.id = q.id => r = q
    /\ \A r \in rows : r.id <= minted
    /\ \E b \in Nat : \A r \in rows : r.pos <= b

Notes ==
    /\ spent \subseteq PeerTokens
    /\ told \in [Ids -> SUBSET Verdict]
    /\ collected \subseteq Nat /\ declined \subseteq Nat
    /\ unlinking \subseteq Files

Running ==
    /\ started \in 0..MaxThreads
    /\ DOMAIN threads \subseteq 1..started
    /\ \A n \in DOMAIN threads : threads[n] \in Thread
    /\ \A n \in DOMAIN threads : threads[n].at = "reading" => threads[n].written < Size

Disk ==
    /\ content \in Seq(Data)
    /\ part \in [Files -> 0..Len(content)]
    /\ saved \in [Files -> Data]
    /\ \A n \in DOMAIN threads : threads[n].inode <= Len(content)
    /\ \A n \in DOMAIN threads : Opened(n) => threads[n].inode # 0

\* A download is claimed once: it has left the queue for good.
Claimed ==
    /\ \A n \in DOMAIN threads : threads[n].id <= minted
    /\ \A n \in DOMAIN threads : \A r \in rows :
          r.id = threads[n].id => r.status # "Queued"
    /\ ClaimOnce

\* Nobody is told of a download before it is asked for, and who is told that it
\* was cancelled has a cancelled row, or none any more.
Heard ==
    /\ \A i \in Ids : told[i] # {} => i <= minted
    /\ \A r \in rows : "Cancelled" \in told[r.id] => r.status = "Cancelled"

IInv == Store /\ Notes /\ Running /\ Disk /\ Claimed /\ Heard
-----------------------------------------------------------------------------
(* Least and greatest numbers, and what the lookups of the store find.     *)

LEMMA Bounds ==
    /\ Size \in Nat /\ MaxDownloads \in Nat /\ MaxThreads \in Nat
    /\ PeerTokens \subseteq Nat /\ PeerTokens \cap 0..MaxDownloads = {}
BY DownloadConstants

LEMMA LeastNumber ==
    ASSUME NEW S, S \subseteq Nat, S # {}
    PROVE  \E m \in S : \A n \in S : m <= n
<1> DEFINE R == {ss \in Nat \X Nat : ss[1] < ss[2]}
<1>1. IsWellFoundedOn(R, Nat)
  BY NatLessThanWellFounded DEF OpToRel
<1>2. \A x, y \in Nat : x < y => <<x, y>> \in R
  OBVIOUS
<1> HIDE DEF R
<1>3. PICK m \in S : \A n \in S : ~ (<<n, m>> \in R)
  BY <1>1, WFMin
<1>4. \A n \in S : ~(n < m)
  BY <1>2, <1>3
<1> QED
  BY <1>3, <1>4

LEMMA GreatestNumber ==
    ASSUME NEW S, S \subseteq Nat, S # {}, NEW b \in Nat, \A n \in S : n <= b
    PROVE  \E m \in S : \A n \in S : n <= m
<1> DEFINE B == {k \in Nat : \A n \in S : n <= k}
<1>1. B \subseteq Nat /\ b \in B
  OBVIOUS
<1>2. PICK m \in B : \A k \in B : m <= k
  BY <1>1, LeastNumber
<1>3. CASE m \in S
  BY <1>3
<1>4. CASE m \notin S
  <2>1. \A n \in S : n < m
    BY <1>4
  <2>2. m # 0
    <3>1. PICK n \in S : TRUE
      OBVIOUS
    <3> QED
      BY <2>1, <3>1
  <2>3. m - 1 \in B
    BY <2>1, <2>2
  <2> QED
    BY <1>2, <2>3
<1> QED
  BY <1>3, <1>4

LEMMA FirstFound ==
    ASSUME Store, NEW S, S \subseteq rows, S # {}
    PROVE  First(S) \in S /\ \A q \in S : First(S).pos <= q.pos
<1> DEFINE P == {q.pos : q \in S}
<1>1. P \subseteq Nat /\ P # {}
  BY DEF Store, Row
<1>2. PICK m \in P : \A p \in P : m <= p
  <2> HIDE DEF P
  <2> QED
    BY <1>1, LeastNumber
<1>3. \E r \in S : \A q \in S : r.pos <= q.pos
  BY <1>2
<1> QED
  BY <1>3 DEF First

LEMMA OfTokenFound ==
    ASSUME Store, NEW t, OfToken(t) # {}
    PROVE  /\ First(OfToken(t)) \in rows
           /\ First(OfToken(t)).token = t
           /\ \A q \in rows : q.token = t => First(OfToken(t)).pos <= q.pos
BY FirstFound DEF OfToken

LEMMA OfFileFound ==
    ASSUME Store, NEW u, NEW f, OfFile(u, f) # {}
    PROVE  /\ First(OfFile(u, f)) \in rows
           /\ First(OfFile(u, f)).user = u
           /\ First(OfFile(u, f)).file = f
BY FirstFound DEF OfFile

\* The rows that add leaves in place.
Staying(r) == {q \in rows : ~(Finished(q) /\ q.user = r.user /\ q.file = r.file)}

LEMMA AddedLast ==
    ASSUME Store, NEW r
    PROVE  \E p \in Nat : /\ Added(r) = Staying(r) \cup {[r EXCEPT !.pos = p]}
                          /\ \A q \in Staying(r) : q.pos < p
<1> DEFINE P    == {q.pos : q \in Staying(r)}
           last == IF Staying(r) = {} THEN 0
                   ELSE CHOOSE p \in P : \A q \in Staying(r) : q.pos <= p
<1>1. Added(r) = Staying(r) \cup {[r EXCEPT !.pos = last + 1]}
  BY DEF Added, Staying
<1>2. last \in Nat /\ \A q \in Staying(r) : q.pos <= last
  <2>1. CASE Staying(r) = {}
    BY <2>1
  <2>2. CASE Staying(r) # {}
    <3>1. P \subseteq Nat /\ P # {}
      BY <2>2 DEF Store, Row, Staying
    <3>2. PICK b \in Nat : \A p \in P : p <= b
      BY DEF Store, Staying
    <3>3. PICK m \in P : \A p \in P : p <= m
      <4> HIDE DEF P
      <4> QED
        BY <3>1, <3>2, GreatestNumber
    <3>4. \E p \in P : \A q \in Staying(r) : q.pos <= p
      BY <3>3
    <3> QED
      BY <2>2, <3>1, <3>4
  <2> QED
    BY <2>1, <2>2
<1>3. \A q \in Staying(r) : q.pos \in Nat
  BY DEF Store, Row, Staying
<1> HIDE DEF last
<1>4. last + 1 \in Nat /\ \A q \in Staying(r) : q.pos < last + 1
  BY <1>2, <1>3
<1> QED
  BY <1>1, <1>4
-----------------------------------------------------------------------------
(* What a step does to the rows.  All but three actions only let rows go   *)
(* and change their status.                                                *)

Same(r, q) ==
    /\ q.id = r.id /\ q.pos = r.pos /\ q.user = r.user /\ q.file = r.file
    /\ q.token = r.token

Aged(r, q) ==
    \/ q.status = r.status
    \/ ~Finished(r) /\ Finished(q)
    \/ Live(r) /\ Live(q)

Narrows ==
    /\ rows' \subseteq Row
    /\ UNCHANGED <<minted, spent>>
    /\ \A q \in rows' : \E r \in rows : Same(r, q) /\ Aged(r, q)
    /\ \A p, q \in rows' : p.id = q.id => p = q

LEMMA StayingNarrows ==
    ASSUME Store, rows' \subseteq rows, UNCHANGED <<minted, spent>>
    PROVE  Narrows
BY DEF Narrows, Store, Same, Aged

LEMMA WithNarrows ==
    ASSUME Store, NEW r \in rows, NEW s \in Status, rows' = With(r, s),
           (~Finished(r) /\ s \in Verdict) \/ (Live(r) /\ s \in {"InProgress", "Paused"}),
           UNCHANGED <<minted, spent>>
    PROVE  Narrows
<1> DEFINE n == [r EXCEPT !.status = s]
<1>1. n \in Row /\ Same(r, n) /\ n.status = s
  BY DEF Store, Row, Same
<1>2. Aged(r, n)
  BY <1>1 DEF Aged, Finished, Live
<1>3. rows' = (rows \ {r}) \cup {n}
  BY DEF With
<1>4. \A q \in rows : Same(q, q) /\ Aged(q, q)
  BY DEF Same, Aged
<1> HIDE DEF n
<1>5. \A q \in rows \ {r} : q.id # n.id
  BY <1>1 DEF Store, Same
<1> QED
  BY <1>1, <1>2, <1>3, <1>4, <1>5 DEF Narrows, Store

LEMMA UpdatedNarrows ==
    ASSUME Store, NEW T, NEW s \in Verdict, rows' = Updated(T, s),
           UNCHANGED <<minted, spent>>
    PROVE  Narrows
<1>1. \A r \in Reached(T) : /\ r \in rows /\ ~Finished(r)
                            /\ [r EXCEPT !.status = s] \in Row
                            /\ Same(r, [r EXCEPT !.status = s])
                            /\ Aged(r, [r EXCEPT !.status = s])
  BY DEF Store, Row, Same, Aged, Reached, Finished, Status
<1>2. rows' = (rows \ Reached(T)) \cup {[r EXCEPT !.status = s] : r \in Reached(T)}
  BY DEF Updated
<1>3. \A q \in rows : Same(q, q) /\ Aged(q, q)
  BY DEF Same, Aged
<1>4. ASSUME NEW q \in rows'
      PROVE  \/ q \in rows \ Reached(T)
             \/ \E r \in Reached(T) : q = [r EXCEPT !.status = s]
  BY <1>2
<1>5. ASSUME NEW q \in rows'
      PROVE  q \in Row /\ \E r \in rows : Same(r, q) /\ Aged(r, q)
  BY <1>1, <1>3, <1>4 DEF Store
<1>6. ASSUME NEW p \in rows', NEW q \in rows', p.id = q.id
      PROVE  p = q
  <2>1. PICK r \in rows : IF r \in Reached(T) THEN p = [r EXCEPT !.status = s] ELSE p = r
    BY <1>4, <1>1
  <2>2. PICK o \in rows : IF o \in Reached(T) THEN q = [o EXCEPT !.status = s] ELSE q = o
    BY <1>4, <1>1
  <2>3. r.id = p.id /\ o.id = q.id
    BY <2>1, <2>2, <1>1 DEF Same
  <2>4. r = o
    BY <2>3, <1>6 DEF Store
  <2> QED
    BY <2>1, <2>2, <2>4
<1> QED
  BY <1>5, <1>6 DEF Narrows

\* The rows when n is pushed last, and what the other three actions do.
Pushed(n) == Staying(n) \cup {n}

Appends ==
    /\ minted < MaxDownloads /\ minted' = minted + 1 /\ UNCHANGED spent
    /\ \E n \in Row :
          /\ MayAsk(n.user, n.file)
          /\ n.id = minted + 1 /\ n.token = minted + 1 /\ n.status = "Queued"
          /\ \A q \in Staying(n) : q.pos < n.pos
          /\ rows' = Pushed(n)

Retoken(r, n) ==
    /\ n.id = r.id /\ n.user = r.user /\ n.file = r.file /\ n.status = r.status
    /\ n.token \in spent => "repeated token" \in Mishaps
    /\ Live(r) => "second offer" \in Mishaps
    /\ n.token \in PeerTokens /\ spent' = spent \cup {n.token}
    /\ \A q \in Staying(n) : q.pos < n.pos
    /\ rows' = {q \in Pushed(n) : q.token # r.token}

Retokens ==
    /\ UNCHANGED minted
    /\ \E r \in rows, n \in Row : Retoken(r, n)

ClaimRow(r, n) ==
    /\ r.status = "Queued" /\ n.status = "InProgress" /\ Same(r, n)
    /\ \A q \in rows : q.token = r.token => r.pos <= q.pos
    /\ rows' = (rows \ {r}) \cup {n}

NewThread(r, k) ==
    /\ DOMAIN threads' = DOMAIN threads \cup {k}
    /\ \A m \in DOMAIN threads : m # k => threads'[m] = threads[m]
    /\ threads'[k] = [id |-> r.id, user |-> r.user, file |-> r.file,
                      token |-> r.token, at |-> "claimed", inode |-> 0,
                      append |-> FALSE, written |-> 0]

Claims ==
    /\ UNCHANGED <<minted, spent>>
    /\ started < MaxThreads /\ started' = started + 1
    /\ \E r \in rows, n \in Row : ClaimRow(r, n) /\ NewThread(r, started + 1)

\* Threads end and go on, but keep what they copied from the row.
ThreadsKeep ==
    \A n \in DOMAIN threads' :
        /\ n \in DOMAIN threads
        /\ threads'[n].id = threads[n].id /\ threads'[n].user = threads[n].user
        /\ threads'[n].file = threads[n].file
        /\ threads'[n].token = threads[n].token

LEMMA DownloadAppends ==
    ASSUME Store, NEW u \in Users, NEW f \in Files,
           Download(u, f) \/ DownloadDeclined(u, f)
    PROVE  Appends
<1>1. /\ minted < MaxDownloads /\ minted' = minted + 1 /\ UNCHANGED spent
      /\ rows' = Added(NewRow(u, f)) /\ MayAsk(u, f)
  BY DEF Download, DownloadDeclined, MayAsk
<1>2. PICK p \in Nat : /\ rows' = Staying(NewRow(u, f)) \cup {[NewRow(u, f) EXCEPT !.pos = p]}
                       /\ \A q \in Staying(NewRow(u, f)) : q.pos < p
  BY <1>1, AddedLast
<1> DEFINE n == [id |-> minted + 1, pos |-> p, user |-> u, file |-> f,
                 token |-> minted + 1, status |-> "Queued"]
<1>3. [NewRow(u, f) EXCEPT !.pos = p] = n
  BY DEF NewRow
<1>4. Staying(NewRow(u, f)) = Staying(n)
  BY DEF Staying, NewRow
<1>5. n \in Row
  <2>1. minted + 1 \in Ids /\ minted + 1 \in Nat
    BY <1>1, Bounds DEF Ids, Store
  <2> QED
    BY <2>1 DEF Row, Status
<1>6. rows' = Pushed(n) /\ \A q \in Staying(n) : q.pos < n.pos
  BY <1>2, <1>3, <1>4 DEF Pushed
<1>7. n.user = u /\ n.file = f /\ n.id = minted + 1 /\ n.token = minted + 1 /\ n.status = "Queued"
  OBVIOUS
<1> HIDE DEF n
<1> QED
  BY <1>1, <1>5, <1>6, <1>7 DEF Appends

LEMMA UpdateRetokens ==
    ASSUME Store, NEW u \in Users, NEW f \in Files, NEW t \in PeerTokens,
           UpdateDownloadTokens(u, f, t)
    PROVE  Retokens
<1> DEFINE r == First(OfFile(u, f))
           o == [r EXCEPT !.token = t]
<1>1. /\ OfFile(u, f) # {}
      /\ t \in spent => "repeated token" \in Mishaps
      /\ r.status \in {"InProgress", "Paused"} => "second offer" \in Mishaps
      /\ spent' = spent \cup {t} /\ UNCHANGED minted
      /\ rows' = {q \in Added(o) : q.token # r.token}
  BY DEF UpdateDownloadTokens
<1>2. r \in rows
  BY <1>1, OfFileFound
<1> HIDE DEF r
<1>3. r \in Row
  BY <1>2 DEF Store
<1>4. PICK p \in Nat : /\ Added(o) = Staying(o) \cup {[o EXCEPT !.pos = p]}
                       /\ \A q \in Staying(o) : q.pos < p
  BY AddedLast
<1> DEFINE n == [o EXCEPT !.pos = p]
<1>5. /\ n \in Row /\ n.id = r.id /\ n.user = r.user /\ n.file = r.file
      /\ n.status = r.status /\ n.token = t /\ n.pos = p
      /\ o.user = n.user /\ o.file = n.file
  BY <1>3, Bounds DEF Row
<1> HIDE DEF n, o
<1>6. Staying(o) = Staying(n)
  BY <1>5 DEF Staying
<1>7. Added(o) = Pushed(n)
  BY <1>4, <1>6 DEF Pushed, n
<1>8. \A q \in Staying(n) : q.pos < n.pos
  BY <1>4, <1>5, <1>6
<1>9. Retoken(r, n)
  BY <1>1, <1>5, <1>7, <1>8 DEF Retoken, Live
<1> QED
  BY <1>1, <1>2, <1>5, <1>9 DEF Retokens

LEMMA ClaimClaims ==
    ASSUME Store, Running, NEW u \in Users, NEW t, Claim(u, t)
    PROVE  Claims
<1> DEFINE r == First(OfToken(t))
           n == [r EXCEPT !.status = "InProgress"]
<1>1. /\ OfToken(t) # {} /\ r.user = u /\ r.status = "Queued"
      /\ rows' = (rows \ {r}) \cup {n}
      /\ started < MaxThreads /\ started' = started + 1
      /\ UNCHANGED <<minted, spent>>
  BY DEF Claim, Claimable, With
<1>2. threads' = [m \in DOMAIN threads \cup {started + 1} |->
                         IF m = started + 1
                         THEN [id |-> r.id, user |-> u, file |-> r.file,
                               token |-> t, at |-> "claimed", inode |-> 0,
                               append |-> FALSE, written |-> 0]
                         ELSE threads[m]]
  BY DEF Claim
<1>3. r \in rows /\ r.token = t /\ \A q \in rows : q.token = t => r.pos <= q.pos
  BY <1>1, OfTokenFound
<1> HIDE DEF r
<1>4. n \in Row /\ n.status = "InProgress" /\ Same(r, n)
  BY <1>3 DEF Store, Row, Same, Status
<1>5. ClaimRow(r, n)
  BY <1>1, <1>3, <1>4 DEF ClaimRow
<1>6. NewThread(r, started + 1)
  BY <1>1, <1>2, <1>3 DEF NewThread
<1> HIDE DEF n
<1> QED
  BY <1>1, <1>3, <1>4, <1>5, <1>6 DEF Claims

\* The three and the others.
LEMMA OtherCallersNarrow ==
    ASSUME Store, NEW u \in Users, NEW f \in Files,
           \/ PauseByFile(u, f) \/ ResumeByFile(u, f) \/ CancelByFile(u, f)
           \/ RemoveQueuedByFile(u, f) \/ RemoveByFile(u, f)
    PROVE  Narrows /\ UNCHANGED <<threads, started>>
<1> DEFINE r == First(OfFile(u, f))
<1>1. OfFile(u, f) # {} => r \in rows
  BY OfFileFound
<1>2. CASE PauseByFile(u, f)
  BY <1>1, <1>2, WithNarrows DEF PauseByFile, Live, Status
<1>3. CASE ResumeByFile(u, f)
  BY <1>1, <1>3, WithNarrows DEF ResumeByFile, Live, Status
<1>4. CASE CancelByFile(u, f)
  BY <1>1, <1>4, WithNarrows DEF CancelByFile, Status, Verdict
<1>5. CASE RemoveQueuedByFile(u, f)
  BY <1>5, StayingNarrows DEF RemoveQueuedByFile
<1>6. CASE RemoveByFile(u, f)
  BY <1>6, StayingNarrows DEF RemoveByFile
<1> QED
  BY <1>2, <1>3, <1>4, <1>5, <1>6

LEMMA LoopNarrows ==
    ASSUME Store,
           \/ \E t \in declined : FailDeclined(t)
           \/ \E f \in unlinking : CancelUnlinks(f)
           \/ \E u \in Users : FailQueued(u)
           \/ \E u \in Users, F \in {{f} : f \in Files} \cup {Files} : CollectFailed(u, F)
           \/ FailCollected
    PROVE  Narrows /\ UNCHANGED <<threads, started>>
<1>1. ASSUME NEW t \in declined, FailDeclined(t)
      PROVE  Narrows /\ UNCHANGED <<threads, started>>
  BY <1>1, UpdatedNarrows DEF FailDeclined, Verdict
<1>2. ASSUME NEW f \in unlinking, CancelUnlinks(f)
      PROVE  Narrows /\ UNCHANGED <<threads, started>>
  BY <1>2, StayingNarrows DEF CancelUnlinks, storeVars
<1>3. ASSUME NEW u \in Users, FailQueued(u)
      PROVE  Narrows /\ UNCHANGED <<threads, started>>
  BY <1>3, UpdatedNarrows DEF FailQueued, Verdict
<1>4. ASSUME NEW u \in Users, NEW F, CollectFailed(u, F)
      PROVE  Narrows /\ UNCHANGED <<threads, started>>
  BY <1>4, StayingNarrows DEF CollectFailed, storeVars
<1>5. CASE FailCollected
  BY <1>5, StayingNarrows DEF FailCollected
<1> QED
  BY <1>1, <1>2, <1>3, <1>4, <1>5

LEMMA TransfersNarrow ==
    ASSUME Store, NEW n \in DOMAIN threads, Transfers(n)
    PROVE  Narrows
<1>1. CASE Promotes(n)
  BY <1>1, UpdatedNarrows DEF Promotes, Verdict
<1>2. CASE Fails(n)
  BY <1>2, UpdatedNarrows DEF Fails, Verdict
<1>3. CASE ~Promotes(n) /\ ~Fails(n)
  <2>1. UNCHANGED storeVars
    BY <1>3 DEF Transfers, LooksBeforeOpen, Looks, Reads, ReadsNothing, OpenPart,
                PeerCloses, StreamFails, CannotFinish, Discards
  <2> QED
    BY <2>1, StayingNarrows DEF storeVars
<1> QED
  BY <1>1, <1>2, <1>3

\* What opening the partial finds and leaves.
OnDisk(n)  == IF part[threads[n].file] = 0 THEN 0
              ELSE Len(content[part[threads[n].file]])
Resumes(n) == OnDisk(n) > 0 /\ OnDisk(n) < Size
Inode(n)   == IF part[threads[n].file] = 0 THEN Len(content) + 1
              ELSE part[threads[n].file]

Reopened(n, where) ==
    [threads EXCEPT ![n].at = where, ![n].inode = Inode(n),
                    ![n].append = Resumes(n),
                    ![n].written = IF Resumes(n) THEN OnDisk(n) ELSE 0]

LEMMA Opening ==
    ASSUME NEW n, NEW sent \in BOOLEAN, OpenPart(n, sent)
    PROVE  /\ threads[n].at = "opening"
           /\ threads' = Reopened(n, IF sent THEN "looking" ELSE "failing")
           /\ part' = [part EXCEPT ![threads[n].file] = Inode(n)]
           /\ content' = IF part[threads[n].file] = 0 THEN Append(content, << >>)
                         ELSE IF Resumes(n) THEN content
                         ELSE [content EXCEPT ![Inode(n)] = << >>]
           /\ UNCHANGED <<storeVars, told, pendVars, started, saved>>
BY DEF OpenPart, Reopened, Inode, Resumes, OnDisk

LEMMA TransfersKeep ==
    ASSUME Running, NEW n \in DOMAIN threads, Transfers(n)
    PROVE  /\ ThreadsKeep /\ UNCHANGED started
           /\ \A m \in DOMAIN threads \ {n} :
                 m \in DOMAIN threads' /\ threads'[m] = threads[m]
<1>1. threads[n] \in Thread
  BY DEF Running
<1>2. UNCHANGED started
  BY DEF Transfers, LooksBeforeOpen, Looks, Reads, ReadsNothing, OpenPart,
         PeerCloses, StreamFails, CannotFinish, Discards, Promotes, Fails
<1>3. CASE Ends(n)
  BY <1>2, <1>3 DEF Ends, ThreadsKeep
<1>4. CASE \E where \in Places : Goes(n, where)
  BY <1>1, <1>2, <1>4 DEF Goes, ThreadsKeep, Thread
<1>5. CASE Reads(n)
  BY <1>1, <1>2, <1>5 DEF Reads, ThreadsKeep, Thread
<1>6. CASE \E sent \in BOOLEAN : OpenPart(n, sent)
  <2>1. PICK where \in Places : threads' = Reopened(n, where)
    BY <1>6, Opening DEF Places
  <2> QED
    BY <1>1, <1>2, <2>1 DEF Reopened, ThreadsKeep, Thread
<1>7. Ends(n) \/ (\E where \in Places : Goes(n, where)) \/ Reads(n) \/ \E sent \in BOOLEAN : OpenPart(n, sent)
  BY DEF Transfers, LooksBeforeOpen, Looks, ReadsNothing, Places,
         PeerCloses, StreamFails, CannotFinish, Discards, Promotes, Fails
<1> QED
  BY <1>3, <1>4, <1>5, <1>6, <1>7

\* A step that claims nothing starts no thread.
Rests == ThreadsKeep /\ UNCHANGED started

LEMMA RowsStep ==
    ASSUME Store, Running, [Next]_vars
    PROVE  \/ Claims
           \/ (Narrows \/ Appends \/ Retokens) /\ Rests
<1>1. UNCHANGED <<threads, started>> => Rests
  BY DEF Rests, ThreadsKeep
<1>2. CASE UNCHANGED vars
  BY <1>1, <1>2, StayingNarrows DEF vars, storeVars
<1>3. CASE CallerStep
  <2>1. ASSUME NEW u \in Users, NEW f \in Files, Download(u, f) \/ DownloadDeclined(u, f)
        PROVE  Appends /\ Rests
    BY <2>1, <1>1, DownloadAppends DEF Download, DownloadDeclined
  <2> QED
    BY <1>1, <1>3, <2>1, OtherCallersNarrow, LoopNarrows DEF CallerStep
<1>4. CASE LoopStep
  <2>1. ASSUME NEW u \in Users, NEW f \in Files, NEW t \in PeerTokens,
               UpdateDownloadTokens(u, f, t)
        PROVE  Retokens /\ Rests
    BY <2>1, <1>1, UpdateRetokens DEF UpdateDownloadTokens
  <2> QED
    BY <1>1, <1>4, <2>1, LoopNarrows DEF LoopStep
<1>5. CASE ThreadStep
  BY <1>5, ClaimClaims, TransfersNarrow, TransfersKeep DEF ThreadStep, Rests
<1> QED
  BY <1>2, <1>3, <1>4, <1>5 DEF Next
-----------------------------------------------------------------------------
(* The store and its verdicts.                                             *)

LEMMA NarrowStore ==
    ASSUME Store, Narrows
    PROVE  Store'
<1>1. PICK b \in Nat : \A r \in rows : r.pos <= b
  BY DEF Store
<1>2. \A q \in rows' : \E r \in rows : q.id = r.id /\ q.pos = r.pos
  BY DEF Narrows, Same
<1>3. \A p, q \in rows' : p.pos = q.pos => p = q
  BY <1>2 DEF Narrows, Store
<1>4. \A q \in rows' : q.id <= minted' /\ q.pos <= b
  BY <1>1, <1>2 DEF Narrows, Store
<1> QED
  BY <1>1, <1>3, <1>4 DEF Narrows, Store

LEMMA AppendStore ==
    ASSUME Store, Appends
    PROVE  Store'
<1>1. PICK n \in Row : /\ n.id = minted + 1
                       /\ \A q \in Staying(n) : q.pos < n.pos
                       /\ rows' = Pushed(n)
  BY DEF Appends
<1>2. minted \in Nat /\ minted' = minted + 1 /\ minted' \in 0..MaxDownloads
  BY Bounds DEF Appends, Store
<1>3. \A q \in Staying(n) : q \in rows /\ q \in Row /\ q.id <= minted
  BY DEF Staying, Store
<1>4. n.pos \in Nat /\ n.id \in Nat
  BY DEF Row, Ids
<1>5. \A q \in Staying(n) : q.id \in Nat /\ q.pos \in Nat
  BY <1>3 DEF Row, Ids
<1>6. \A q, p \in rows' : (q.pos = p.pos => q = p) /\ (q.id = p.id => q = p)
  <2>1. \A q \in Staying(n) : q.pos # n.pos /\ q.id # n.id
    BY <1>1, <1>2, <1>3, <1>4, <1>5
  <2>2. \A q, p \in Staying(n) : (q.pos = p.pos => q = p) /\ (q.id = p.id => q = p)
    BY <1>3 DEF Store
  <2> QED
    BY <1>1, <2>1, <2>2 DEF Pushed
<1>7. \A q \in rows' : q.id <= minted' /\ q.pos <= n.pos
  BY <1>1, <1>2, <1>3, <1>4, <1>5 DEF Pushed
<1>8. rows' \subseteq Row
  BY <1>1, <1>3 DEF Pushed
<1> QED
  BY <1>2, <1>4, <1>6, <1>7, <1>8 DEF Store

LEMMA RetokenStore ==
    ASSUME Store, Retokens
    PROVE  Store'
<1>1. PICK r \in rows, n \in Row : Retoken(r, n)
  BY DEF Retokens
<1>2. n.pos \in Nat /\ n.id = r.id /\ r \in Row /\ UNCHANGED minted
  BY <1>1 DEF Row, Retoken, Store, Retokens
<1>3. \A q \in Staying(n) : q \in rows /\ q \in Row /\ q.pos < n.pos /\ q.pos \in Nat
  BY <1>1 DEF Staying, Store, Retoken, Row
<1>4. \A q \in rows' : (q \in Staying(n) /\ q # r) \/ q = n
  BY <1>1 DEF Retoken, Pushed
<1>5. \A q \in rows' : q \in Row /\ q.id <= minted' /\ q.pos <= n.pos
  BY <1>2, <1>3, <1>4 DEF Store
<1>6. \A q, p \in rows' : (q.pos = p.pos => q = p) /\ (q.id = p.id => q = p)
  <2>1. \A q \in Staying(n) : q # r => q.pos # n.pos /\ q.id # n.id
    BY <1>2, <1>3 DEF Store
  <2>2. \A q, p \in Staying(n) : (q.pos = p.pos => q = p) /\ (q.id = p.id => q = p)
    BY <1>3 DEF Store
  <2> QED
    BY <1>4, <2>1, <2>2
<1> QED
  BY <1>2, <1>5, <1>6 DEF Store

LEMMA ClaimStore ==
    ASSUME Store, Claims
    PROVE  Store'
<1>1. PICK r \in rows, n \in Row : ClaimRow(r, n)
  BY DEF Claims
<1>2. n.id = r.id /\ n.pos = r.pos /\ rows' = (rows \ {r}) \cup {n} /\ UNCHANGED minted
  BY <1>1 DEF ClaimRow, Same, Claims
<1> QED
  BY <1>2 DEF Store

LEMMA StoreKept ==
    ASSUME Store, Running, [Next]_vars
    PROVE  Store'
BY RowsStep, NarrowStore, AppendStore, RetokenStore, ClaimStore

\* Whatever a row has come to, its successors in the store have come to.
LEMMA VerdictKept ==
    ASSUME Store, Running, [Next]_vars,
           NEW r \in rows, NEW q \in rows', r.id = q.id, Finished(r)
    PROVE  q.status = r.status
<1>1. CASE Narrows
  <2>1. PICK o \in rows : Same(o, q) /\ Aged(o, q)
    BY <1>1 DEF Narrows
  <2>2. o = r
    BY <2>1 DEF Store, Same
  <2> QED
    BY <2>1, <2>2 DEF Aged, Finished, Live, Verdict
<1>2. CASE Appends
  <2>1. PICK n \in Row : n.id = minted + 1 /\ rows' = Staying(n) \cup {n}
    BY <1>2 DEF Appends, Pushed
  <2>2. r.id \in Nat /\ minted \in Nat /\ r.id <= minted
    BY Bounds DEF Store, Row, Ids
  <2>3. q \in rows
    BY <2>1, <2>2 DEF Staying
  <2> QED
    BY <2>3 DEF Store
<1>3. CASE Retokens
  <2>1. PICK o \in rows, n \in Row : Retoken(o, n)
    BY <1>3 DEF Retokens
  <2>2. q \in rows \/ q = n
    BY <2>1 DEF Retoken, Pushed, Staying
  <2>3. n.id = o.id /\ n.status = o.status
    BY <2>1 DEF Retoken
  <2> QED
    BY <2>2, <2>3 DEF Store
<1>4. CASE Claims
  <2>1. PICK o \in rows, n \in Row : ClaimRow(o, n)
    BY <1>4 DEF Claims
  <2>2. q \in rows \/ (q = n /\ n.id = o.id /\ ~Finished(o))
    BY <2>1 DEF ClaimRow, Same, Finished, Verdict
  <2> QED
    BY <2>2 DEF Store
<1> QED
  BY <1>1, <1>2, <1>3, <1>4, RowsStep

LEMMA ClaimedKept ==
    ASSUME Store, Running, Claimed, [Next]_vars
    PROVE  Claimed'
<1>0. /\ \A r \in rows : r \in Row /\ r.id \in Nat /\ r.id <= minted
      /\ minted \in Nat
      /\ \A n \in DOMAIN threads : threads[n].id \in Nat /\ threads[n].id <= minted
  BY Bounds DEF Store, Running, Thread, Row, Ids, Claimed
<1>1. CASE Rests /\ Narrows
  <2>1. \A n \in DOMAIN threads', q \in rows' : q.id = threads'[n].id => q.status # "Queued"
    <3> SUFFICES ASSUME NEW n \in DOMAIN threads', NEW q \in rows', q.id = threads'[n].id
                 PROVE  q.status # "Queued"
      OBVIOUS
    <3>1. PICK r \in rows : Same(r, q) /\ Aged(r, q)
      BY <1>1 DEF Narrows
    <3>2. n \in DOMAIN threads /\ threads[n].id = r.id
      BY <1>1, <3>1 DEF Rests, ThreadsKeep, Same
    <3>3. r.status # "Queued"
      BY <3>2 DEF Claimed
    <3> QED
      BY <3>1, <3>3 DEF Aged, Finished, Live, Verdict
  <2> QED
    BY <1>1, <2>1 DEF Claimed, ClaimOnce, Rests, ThreadsKeep, Narrows
<1>2. CASE Rests /\ Appends
  <2>1. PICK n \in Row : n.id = minted + 1 /\ rows' = Staying(n) \cup {n}
    BY <1>2 DEF Appends, Pushed
  <2>2. minted' = minted + 1 /\ Staying(n) \subseteq rows
    BY <1>2 DEF Appends, Staying
  <2>3. \A m \in DOMAIN threads : threads[m].id # minted + 1 /\ threads[m].id <= minted + 1
    BY <1>0
  <2> QED
    BY <1>2, <2>1, <2>2, <2>3 DEF Claimed, ClaimOnce, Rests, ThreadsKeep
<1>3. CASE Rests /\ Retokens
  <2>1. PICK o \in rows, n \in Row : Retoken(o, n)
    BY <1>3 DEF Retokens
  <2>2. \A q \in rows' : \E r \in rows : q.id = r.id /\ q.status = r.status
    BY <2>1 DEF Retoken, Pushed, Staying
  <2> QED
    BY <1>3, <2>2 DEF Claimed, ClaimOnce, Rests, ThreadsKeep, Retokens
<1>4. CASE Claims
  <2>1. PICK r \in rows, n \in Row : ClaimRow(r, n) /\ NewThread(r, started + 1)
    BY <1>4 DEF Claims
  <2>2. UNCHANGED minted /\ started + 1 \notin DOMAIN threads
    BY <1>4, Bounds DEF Claims, Running
  <2>3. /\ DOMAIN threads' = DOMAIN threads \cup {started + 1}
        /\ \A m \in DOMAIN threads : threads'[m] = threads[m]
        /\ threads'[started + 1].id = r.id
    BY <2>1, <2>2 DEF NewThread
  <2>4. \A m \in DOMAIN threads : threads[m].id # r.id
    BY <2>1 DEF ClaimRow, Claimed
  <2>5. n.id = r.id /\ n.status = "InProgress" /\ rows' = (rows \ {r}) \cup {n}
    BY <2>1 DEF ClaimRow, Same
  <2>6. \A q \in rows \ {r} : q.id # r.id
    BY DEF Store
  <2>7. \A m \in DOMAIN threads', q \in rows' : q.id = threads'[m].id => q.status # "Queued"
    BY <2>3, <2>4, <2>5, <2>6 DEF Claimed
  <2>8. ClaimOnce'
    BY <2>3, <2>4 DEF Claimed, ClaimOnce
  <2>9. \A m \in DOMAIN threads' : threads'[m].id <= minted'
    BY <1>0, <2>2, <2>3
  <2> QED
    BY <2>7, <2>8, <2>9 DEF Claimed
<1> QED
  BY <1>1, <1>2, <1>3, <1>4, RowsStep
-----------------------------------------------------------------------------
(* What callers are told.                                                  *)

\* A step tells only who has asked, and of a cancellation only once the row says so.
Tells ==
    /\ told' \in [Ids -> SUBSET Verdict]
    /\ \A i \in Ids : told'[i] # {} => told[i] # {} \/ i <= minted'
    /\ \A i \in Ids : "Cancelled" \in told'[i] =>
          \/ "Cancelled" \in told[i]
          \/ \A q \in rows' : q.id = i => q.status = "Cancelled"

LEMMA Telling ==
    ASSUME Notes, NEW S, NEW v \in Verdict, Tell(S, v)
    PROVE  /\ told' \in [Ids -> SUBSET Verdict]
           /\ \A i \in Ids : told'[i] = IF i \in S THEN told[i] \cup {v} ELSE told[i]
BY DEF Tell, Notes

LEMMA TellsOther ==
    ASSUME Notes, NEW S, NEW v \in {"Completed", "Failed"}, Tell(S, v),
           \A i \in S : i <= minted'
    PROVE  Tells
<1>1. v \in Verdict /\ v # "Cancelled"
  BY DEF Verdict
<1>2. /\ told' \in [Ids -> SUBSET Verdict]
      /\ \A i \in Ids : told'[i] = IF i \in S THEN told[i] \cup {v} ELSE told[i]
  BY <1>1, Telling
<1>3. \A i \in Ids : "Cancelled" \in told'[i] => "Cancelled" \in told[i]
  BY <1>1, <1>2
<1>4. \A i \in Ids : told'[i] # {} => told[i] # {} \/ i <= minted'
  BY <1>2
<1> QED
  BY <1>2, <1>3, <1>4 DEF Tells

LEMMA TellsNobody ==
    ASSUME Notes, UNCHANGED told
    PROVE  Tells
BY DEF Tells, Notes

LEMMA CancelTells ==
    ASSUME Store, Notes, NEW u \in Users, NEW f \in Files, CancelByFile(u, f)
    PROVE  Tells
<1> DEFINE r == First(OfFile(u, f))
<1>1. /\ OfFile(u, f) # {} /\ rows' = With(r, "Cancelled")
      /\ Tell({r.id}, "Cancelled") /\ UNCHANGED minted
  BY DEF CancelByFile
<1>2. r \in rows
  BY <1>1, OfFileFound
<1> HIDE DEF r
<1>3. [r EXCEPT !.status = "Cancelled"].status = "Cancelled"
  BY <1>2 DEF Store, Row
<1>4. \A q \in rows' : q.id = r.id => q.status = "Cancelled"
  BY <1>1, <1>2, <1>3 DEF With, Store
<1>5. r.id <= minted'
  BY <1>1, <1>2 DEF Store
<1>6. "Cancelled" \in Verdict
  BY DEF Verdict
<1>7. /\ told' \in [Ids -> SUBSET Verdict]
      /\ \A i \in Ids : told'[i] = IF i \in {r.id} THEN told[i] \cup {"Cancelled"} ELSE told[i]
  BY <1>1, <1>6, Telling
<1> QED
  BY <1>4, <1>5, <1>7 DEF Tells

LEMMA CallersTell ==
    ASSUME Store, Notes, CallerStep
    PROVE  Tells
<1>1. ASSUME NEW u \in Users, NEW f \in Files, DownloadDeclined(u, f)
      PROVE  Tells
  <2>1. minted' = minted + 1 /\ minted \in Nat /\ Tell({minted'}, "Failed")
    BY <1>1, Bounds DEF DownloadDeclined, Store
  <2> QED
    BY <2>1, TellsOther
<1>2. ASSUME NEW u \in Users, NEW f \in Files,
             \/ Download(u, f) \/ PauseByFile(u, f) \/ ResumeByFile(u, f)
             \/ RemoveQueuedByFile(u, f) \/ RemoveByFile(u, f)
      PROVE  Tells
  BY <1>2, TellsNobody DEF Download, PauseByFile, ResumeByFile, RemoveQueuedByFile,
                           RemoveByFile
<1>3. ASSUME NEW x, FailDeclined(x) \/ CancelUnlinks(x)
      PROVE  Tells
  BY <1>3, TellsNobody DEF FailDeclined, CancelUnlinks
<1> QED
  BY <1>1, <1>2, <1>3, CancelTells DEF CallerStep

LEMMA LoopTells ==
    ASSUME Store, Notes, LoopStep
    PROVE  Tells
<1>1. ASSUME NEW u, NEW f, NEW t, UpdateDownloadTokens(u, f, t)
      PROVE  Tells
  BY <1>1, TellsNobody DEF UpdateDownloadTokens
<1>2. CASE FailCollected
  BY <1>2, TellsNobody DEF FailCollected
<1>3. ASSUME NEW R, R \subseteq rows, Tell(IdsOf(R), "Failed"), UNCHANGED minted
      PROVE  Tells
  BY <1>3, TellsOther DEF IdsOf, Store
<1>4. ASSUME NEW u, FailQueued(u)
      PROVE  Tells
  BY <1>3, <1>4 DEF FailQueued
<1>5. ASSUME NEW u, NEW F, CollectFailed(u, F)
      PROVE  Tells
  BY <1>3, <1>5 DEF CollectFailed, storeVars
<1> QED
  BY <1>1, <1>2, <1>4, <1>5 DEF LoopStep

LEMMA ThreadsTell ==
    ASSUME Notes, Claimed, ThreadStep
    PROVE  Tells
<1>1. ASSUME NEW u, NEW t, Claim(u, t)
      PROVE  Tells
  BY <1>1, TellsNobody DEF Claim
<1>2. ASSUME NEW n \in DOMAIN threads, Transfers(n)
      PROVE  Tells
  <2>1. \A i \in {threads[n].id} : i <= minted
    BY DEF Claimed
  <2>2. CASE Promotes(n)
    <3>1. UNCHANGED minted /\ (UNCHANGED told \/ Tell({threads[n].id}, "Completed"))
      BY <2>2 DEF Promotes
    <3> QED
      BY <2>1, <3>1, TellsNobody, TellsOther
  <2>3. CASE Fails(n)
    <3>1. UNCHANGED minted /\ (UNCHANGED told \/ Tell({threads[n].id}, "Failed"))
      BY <2>3 DEF Fails
    <3> QED
      BY <2>1, <3>1, TellsNobody, TellsOther
  <2>4. CASE ~Promotes(n) /\ ~Fails(n)
    <3>1. UNCHANGED told
      BY <1>2, <2>4 DEF Transfers, LooksBeforeOpen, Looks, Reads, ReadsNothing, OpenPart,
                        PeerCloses, StreamFails, CannotFinish, Discards
    <3> QED
      BY <3>1, TellsNobody
  <2> QED
    BY <2>2, <2>3, <2>4
<1> QED
  BY <1>1, <1>2 DEF ThreadStep

LEMMA TellsStep ==
    ASSUME Store, Notes, Claimed, [Next]_vars
    PROVE  Tells
<1>1. CASE UNCHANGED vars
  BY <1>1, TellsNobody DEF vars
<1> QED
  BY <1>1, CallersTell, LoopTells, ThreadsTell DEF Next

LEMMA HeardKept ==
    ASSUME Store, Notes, Running, Claimed, Heard, [Next]_vars
    PROVE  Heard'
<1>1. Tells
  BY TellsStep
<1>2. minted \in Nat /\ minted' \in Nat /\ minted <= minted'
  BY RowsStep, Bounds DEF Store, Narrows, Appends, Retokens, Claims
<1>3. \A i \in Ids : told'[i] # {} => i <= minted'
  BY <1>1, <1>2 DEF Tells, Heard, Ids
<1>4. \A q \in rows' : q.id \in Ids
  BY StoreKept DEF Store, Row
<1>5. ASSUME NEW q \in rows', "Cancelled" \in told[q.id]
      PROVE  q.status = "Cancelled"
  <2>1. q.id <= minted /\ q.id \in Nat
    BY <1>4, <1>5 DEF Heard, Ids
  <2>2. \E r \in rows : r.id = q.id
    <3>1. CASE Narrows
      BY <3>1 DEF Narrows, Same
    <3>2. CASE Appends
      BY <2>1, <1>2, <3>2 DEF Appends, Pushed, Staying
    <3>3. CASE Retokens
      BY <3>3 DEF Retokens, Retoken, Pushed, Staying
    <3>4. CASE Claims
      BY <3>4 DEF Claims, ClaimRow, Same
    <3> QED
      BY <3>1, <3>2, <3>3, <3>4, RowsStep
  <2>3. PICK r \in rows : r.id = q.id
    BY <2>2
  <2>4. r.status = "Cancelled" /\ Finished(r)
    BY <1>5, <2>3 DEF Heard, Finished, Verdict
  <2> QED
    BY <2>3, <2>4, VerdictKept
<1> QED
  BY <1>1, <1>3, <1>4, <1>5 DEF Tells, Heard

LEMMA SpentKept ==
    ASSUME Store, Notes, Running, [Next]_vars
    PROVE  spent' \subseteq PeerTokens
BY RowsStep DEF Notes, Narrows, Appends, Retokens, Retoken, Claims

LEMMA PendingKept ==
    ASSUME Store, Notes, [Next]_vars
    PROVE  collected' \subseteq Nat /\ declined' \subseteq Nat /\ unlinking' \subseteq Files
<1>0. \A r \in rows : r.token \in Nat
  BY DEF Store, Row
<1>1. CASE UNCHANGED pendVars
  BY <1>1 DEF pendVars, Notes
<1>2. ASSUME NEW u \in Users, NEW f \in Files, DownloadDeclined(u, f) \/ CancelByFile(u, f)
      PROVE  collected' \subseteq Nat /\ declined' \subseteq Nat /\ unlinking' \subseteq Files
  <2>1. minted \in Nat
    BY Bounds DEF Store
  <2>2. CASE DownloadDeclined(u, f)
    BY <2>1, <2>2 DEF DownloadDeclined, Notes
  <2>3. CASE CancelByFile(u, f)
    BY <2>3 DEF CancelByFile, Notes
  <2> QED
    BY <1>2, <2>2, <2>3
<1>3. ASSUME NEW x, FailDeclined(x) \/ CancelUnlinks(x)
      PROVE  collected' \subseteq Nat /\ declined' \subseteq Nat /\ unlinking' \subseteq Files
  BY <1>3 DEF FailDeclined, CancelUnlinks, Notes
<1>4. ASSUME NEW u, NEW F, CollectFailed(u, F)
      PROVE  collected' \subseteq Nat /\ declined' \subseteq Nat /\ unlinking' \subseteq Files
  BY <1>0, <1>4 DEF CollectFailed, Notes
<1>5. CASE FailCollected
  BY <1>5 DEF FailCollected, Notes
<1>6. CASE CallerStep
  BY <1>1, <1>2, <1>3, <1>6 DEF CallerStep, Download, PauseByFile, ResumeByFile,
                                RemoveQueuedByFile, RemoveByFile
<1>7. CASE LoopStep
  BY <1>1, <1>4, <1>5, <1>7 DEF LoopStep, UpdateDownloadTokens, FailQueued
<1>8. CASE ThreadStep
  <2>1. UNCHANGED pendVars
    BY <1>8 DEF ThreadStep, Claim, Transfers, LooksBeforeOpen, Looks, Reads, ReadsNothing,
                OpenPart, PeerCloses, StreamFails, CannotFinish, Discards, Promotes, Fails
  <2> QED
    BY <1>1, <2>1
<1> QED
  BY <1>1, <1>6, <1>7, <1>8 DEF Next, vars

LEMMA NotesKept ==
    ASSUME Store, Notes, Running, Claimed, [Next]_vars
    PROVE  Notes'
BY SpentKept, PendingKept, TellsStep DEF Notes, Tells
-----------------------------------------------------------------------------
(* Threads and the disk.                                                   *)

LEMMA EmptyData == << >> \in Data
BY EmptySeq DEF Data

LEMMA WrittenData ==
    ASSUME NEW c \in Data, NEW p \in Nat, p > 0, NEW x \in Chunk
    PROVE  Written(c, p, x) \in Data
<1>1. Len(c) \in Nat /\ \A i \in 1..Len(c) : c[i] \in Chunk \cup {Hole}
  BY ElementOfSeq, LenProperties DEF Data
<1> DEFINE k    == IF p > Len(c) THEN p ELSE Len(c)
           e(i) == IF i = p THEN x ELSE IF i <= Len(c) THEN c[i] ELSE Hole
<1>2. k \in Nat
  BY <1>1
<1>3. \A i \in 1..k : e(i) \in Chunk \cup {Hole}
  BY <1>1
<1>4. Written(c, p, x) = [i \in 1..k |-> e(i)]
  BY DEF Written
<1> HIDE DEF k, e
<1>5. [i \in 1..k |-> e(i)] \in [1..k -> Chunk \cup {Hole}]
  BY <1>3
<1> QED
  BY <1>2, <1>4, <1>5, IsASeq DEF Data

LEMMA DataAt ==
    ASSUME Disk, NEW i \in 1..Len(content)
    PROVE  content[i] \in Data /\ Len(content[i]) \in Nat
BY ElementOfSeq, LenProperties DEF Disk, Data

LEMMA ContentLength ==
    ASSUME Disk
    PROVE  Len(content) \in Nat /\ DOMAIN content = 1..Len(content)
BY LenProperties DEF Disk

LEMMA OnDiskIs ==
    ASSUME Running, Disk, NEW n \in DOMAIN threads
    PROVE  /\ OnDisk(n) \in Nat /\ Inode(n) \in Nat
           /\ Resumes(n) \in BOOLEAN /\ (Resumes(n) => OnDisk(n) \in 0..Size)
           /\ Inode(n) \in 1..(Len(content) + 1)
           /\ part[threads[n].file] # 0 => Inode(n) \in 1..Len(content)
<1>1. part[threads[n].file] \in 0..Len(content) /\ Len(content) \in Nat
  BY ContentLength DEF Disk, Running, Thread
<1>2. OnDisk(n) \in Nat
  BY <1>1, DataAt DEF OnDisk
<1> QED
  BY <1>1, <1>2, Bounds DEF Inode, Resumes

LEMMA ReadsInto ==
    ASSUME Running, Disk, NEW n \in DOMAIN threads, Reads(n)
    PROVE  /\ threads[n].at = "reading" /\ threads[n].written + 1 \in 1..Size
           /\ threads[n].inode \in 1..Len(content)
           /\ \E c \in Data : content' = [content EXCEPT ![threads[n].inode] = c]
           /\ threads' = [threads EXCEPT ![n].written = threads[n].written + 1,
                             ![n].at = IF threads[n].written + 1 >= Size
                                       THEN "finishing" ELSE "looking"]
           /\ UNCHANGED <<part, saved>>
<1> DEFINE th == threads[n]
           c  == content[th.inode]
           p  == IF th.append THEN Len(c) + 1 ELSE th.written + 1
           x  == [user |-> th.user, at |-> th.written + 1]
<1>1. /\ th.at = "reading"
      /\ content' = [content EXCEPT ![th.inode] = Written(c, p, x)]
      /\ threads' = [threads EXCEPT ![n].written = @ + 1,
                         ![n].at = IF th.written + 1 >= Size THEN "finishing" ELSE "looking"]
      /\ UNCHANGED <<part, saved>>
  BY DEF Reads
<1>2. th \in Thread /\ th.written < Size /\ th.written \in 0..Size
  BY <1>1 DEF Running, Thread
<1>3. th.written + 1 \in 1..Size
  BY <1>2, Bounds
<1>4. th.inode \in 1..Len(content)
  BY <1>1, <1>2, ContentLength DEF Disk, Opened, Thread
<1>5. c \in Data /\ Len(c) \in Nat
  BY <1>4, DataAt
<1>6. x \in Chunk
  BY <1>2, <1>3 DEF Chunk, Thread
<1>7. p \in Nat /\ p > 0
  BY <1>2, <1>5
<1>8. Written(c, p, x) \in Data
  <2> HIDE DEF c, p, x
  <2> QED
    BY <1>5, <1>6, <1>7, WrittenData
<1> QED
  BY <1>1, <1>3, <1>4, <1>8

\* A thread that goes on is well formed.
Typed(n) ==
    n \in DOMAIN threads' =>
        /\ threads'[n] \in Thread
        /\ threads'[n].at = "reading" => threads'[n].written < Size

LEMMA TransfersTyped ==
    ASSUME Running, Disk, NEW n \in DOMAIN threads, Transfers(n)
    PROVE  Typed(n)
<1>1. threads[n] \in Thread
  BY DEF Running
<1>2. CASE Ends(n)
  BY <1>2 DEF Ends, Typed
<1>3. ASSUME NEW where \in Places \ {"reading"}, Goes(n, where)
      PROVE  Typed(n)
  BY <1>1, <1>3 DEF Goes, Typed, Thread, Places
<1>4. CASE Looks(n)
  <2>1. CASE threads[n].written >= Size
    BY <1>3, <1>4, <2>1 DEF Looks, Places
  <2>2. CASE ~(threads[n].written >= Size) /\ Goes(n, "reading")
    <3>1. threads[n].written < Size
      BY <1>1, <2>2, Bounds DEF Thread
    <3> QED
      BY <1>1, <2>2, <3>1 DEF Goes, Typed, Thread, Places
  <2> QED
    BY <1>3, <1>4, <2>1, <2>2 DEF Looks, Places
<1>5. CASE Reads(n)
  <2> DEFINE w == threads[n].written + 1
             where == IF w >= Size THEN "finishing" ELSE "looking"
  <2>0. w \in 1..Size
    BY <1>5, ReadsInto
  <2>1. w \in 0..Size /\ where \in Places /\ where # "reading"
    BY <2>0, Bounds DEF Places
  <2>2. threads' = [threads EXCEPT ![n].written = w, ![n].at = where]
    BY <1>5, ReadsInto
  <2> HIDE DEF w, where
  <2>3. threads'[n] = [threads[n] EXCEPT !.written = w, !.at = where]
    BY <2>2
  <2> QED
    BY <1>1, <2>1, <2>3 DEF Typed, Thread
<1>6. CASE \E sent \in BOOLEAN : OpenPart(n, sent)
  <2>1. PICK where \in Places \ {"reading"} : threads' = Reopened(n, where)
    BY <1>6, Opening DEF Places
  <2>2. /\ threads'[n] = [threads[n] EXCEPT !.at = where, !.inode = Inode(n),
                                          !.append = Resumes(n),
                                          !.written = IF Resumes(n) THEN OnDisk(n) ELSE 0]
    BY <2>1 DEF Reopened
  <2>3. (IF Resumes(n) THEN OnDisk(n) ELSE 0) \in 0..Size
    BY OnDiskIs, Bounds
  <2> QED
    BY <1>1, <2>2, <2>3, OnDiskIs DEF Typed, Thread
<1>7. \/ Ends(n) \/ Looks(n) \/ Reads(n) \/ (\E sent \in BOOLEAN : OpenPart(n, sent))
      \/ \E where \in Places \ {"reading"} : Goes(n, where)
  BY DEF Transfers, LooksBeforeOpen, ReadsNothing, Places,
         PeerCloses, StreamFails, CannotFinish, Discards, Promotes, Fails
<1> QED
  BY <1>2, <1>3, <1>4, <1>5, <1>6, <1>7

LEMMA RunningKept ==
    ASSUME Store, Running, Disk, [Next]_vars
    PROVE  Running'
<1>1. CASE Claims
  <2>1. PICK r \in rows : NewThread(r, started + 1)
    BY <1>1 DEF Claims
  <2>2. started \in Nat /\ started + 1 \in 0..MaxThreads /\ started' = started + 1
    BY <1>1, Bounds DEF Claims, Running
  <2>3. r.id \in Ids /\ r.user \in Users /\ r.file \in Files /\ r.token \in Nat
    BY DEF Store, Row
  <2>4. threads'[started + 1] \in Thread /\ threads'[started + 1].at # "reading"
    BY <2>1, <2>3, Bounds DEF NewThread, Thread, Places
  <2>5. started + 1 \notin DOMAIN threads
    BY <2>2 DEF Running
  <2>6. DOMAIN threads' \subseteq 1..started'
    BY <2>1, <2>2 DEF NewThread, Running
  <2>7. \A m \in DOMAIN threads' : m = started + 1 \/ (m \in DOMAIN threads /\ threads'[m] = threads[m])
    BY <2>1, <2>5 DEF NewThread
  <2> QED
    BY <2>2, <2>4, <2>6, <2>7 DEF Running
<1>2. ASSUME NEW n \in DOMAIN threads, Transfers(n)
      PROVE  Running'
  <2>1. Typed(n) /\ ThreadsKeep /\ UNCHANGED started
    BY <1>2, TransfersTyped, TransfersKeep
  <2>2. \A m \in DOMAIN threads' : m = n \/ (m \in DOMAIN threads /\ threads'[m] = threads[m])
    BY <1>2, <2>1, TransfersKeep DEF ThreadsKeep
  <2> QED
    BY <2>1, <2>2 DEF Running, Typed, ThreadsKeep
<1>3. CASE UNCHANGED <<threads, started>>
  BY <1>3 DEF Running
<1>4. \/ UNCHANGED <<threads, started>> \/ Claims \/ \E n \in DOMAIN threads : Transfers(n)
  <2>1. CASE CallerStep
    BY <2>1, OtherCallersNarrow, LoopNarrows DEF CallerStep, Download, DownloadDeclined
  <2>2. CASE LoopStep
    BY <2>2, LoopNarrows DEF LoopStep, UpdateDownloadTokens
  <2>3. CASE ThreadStep
    BY <2>3, ClaimClaims DEF ThreadStep
  <2> QED
    BY <2>1, <2>2, <2>3 DEF Next, vars
<1> QED
  BY <1>1, <1>2, <1>3, <1>4

\* A step that leaves the disk alone, and opens no partial.
DiskRests ==
    /\ UNCHANGED diskVars
    /\ \A n \in DOMAIN threads' :
          \/ threads'[n].inode = 0 /\ threads'[n].at = "claimed"
          \/ /\ n \in DOMAIN threads /\ threads'[n].inode = threads[n].inode
             /\ threads'[n].written = threads[n].written
             /\ threads'[n] = threads[n] \/ Opened(n) \/ threads'[n].at \in {"opening", "failing"}

LEMMA DiskRestsKept ==
    ASSUME Disk, DiskRests
    PROVE  Disk'
<1>1. Len(content) \in Nat
  BY ContentLength
<1>2. UNCHANGED <<content, part, saved>>
  BY DEF DiskRests, diskVars
<1> QED
  BY <1>1, <1>2 DEF Disk, DiskRests, Opened

LEMMA OpeningKeepsDisk ==
    ASSUME Running, Disk, NEW n \in DOMAIN threads, NEW sent \in BOOLEAN, OpenPart(n, sent)
    PROVE  Disk'
<1> DEFINE f == threads[n].file
<1>1. /\ threads' = Reopened(n, IF sent THEN "looking" ELSE "failing")
      /\ part' = [part EXCEPT ![f] = Inode(n)]
      /\ content' = IF part[f] = 0 THEN Append(content, << >>)
                    ELSE IF Resumes(n) THEN content
                    ELSE [content EXCEPT ![Inode(n)] = << >>]
      /\ UNCHANGED saved
  BY Opening
<1>2. content \in Seq(Data) /\ Len(content) \in Nat
  BY ContentLength DEF Disk
<1>3. /\ content' \in Seq(Data) /\ Len(content') \in Nat
      /\ Len(content) <= Len(content') /\ Inode(n) \in 1..Len(content')
  <2>1. CASE part[f] = 0
    <3>1. content' = Append(content, << >>)
      BY <1>1, <2>1
    <3>2. content' \in Seq(Data) /\ Len(content') = Len(content) + 1
      BY <1>2, <3>1, EmptyData, AppendProperties
    <3> QED
      BY <1>2, <3>2, OnDiskIs
  <2>2. CASE part[f] # 0 /\ Resumes(n)
    BY <1>1, <1>2, <2>2, OnDiskIs
  <2>3. CASE part[f] # 0 /\ ~Resumes(n)
    <3>1. content' = [content EXCEPT ![Inode(n)] = << >>] /\ Inode(n) \in 1..Len(content)
      BY <1>1, <2>3, OnDiskIs
    <3>2. content' \in Seq(Data) /\ Len(content') = Len(content)
      BY <1>2, <3>1, EmptyData, ExceptSeq
    <3> QED
      BY <1>2, <3>1, <3>2
  <2> QED
    BY <2>1, <2>2, <2>3
<1>4. part' \in [Files -> 0..Len(content')]
  <2>1. \A g \in Files : part[g] \in 0..Len(content')
    BY <1>2, <1>3 DEF Disk
  <2>2. Inode(n) \in 0..Len(content') /\ DOMAIN part = Files /\ part = [g \in Files |-> part[g]]
    BY <1>3 DEF Disk
  <2> HIDE DEF f
  <2> QED
    BY <1>1, <2>1, <2>2
<1>5. \A m \in DOMAIN threads' :
         /\ m \in DOMAIN threads
         /\ IF m = n THEN threads'[m].inode = Inode(n) ELSE threads'[m] = threads[m]
  BY <1>1, TransfersTyped DEF Reopened, Running, Thread
<1>6. \A m \in DOMAIN threads' : threads'[m].inode <= Len(content')
  <2>1. \A m \in DOMAIN threads : threads[m].inode <= Len(content) /\ threads[m].inode \in Nat
    BY DEF Disk, Running, Thread
  <2> QED
    BY <1>2, <1>3, <1>5, <2>1
<1>7. \A m \in DOMAIN threads' : Opened(m)' => threads'[m].inode # 0
  BY <1>3, <1>5 DEF Disk, Opened
<1> QED
  BY <1>1, <1>3, <1>4, <1>6, <1>7 DEF Disk

LEMMA ReadingKeepsDisk ==
    ASSUME Running, Disk, NEW n \in DOMAIN threads, Reads(n)
    PROVE  Disk'
<1>1. PICK c \in Data : content' = [content EXCEPT ![threads[n].inode] = c]
  BY ReadsInto
<1>2. content' \in Seq(Data) /\ Len(content') = Len(content)
  <2>1. threads[n].inode \in 1..Len(content) /\ content \in Seq(Data)
    BY ReadsInto DEF Disk
  <2> QED
    BY <1>1, <2>1, ExceptSeq
<1>3. \A m \in DOMAIN threads' :
         /\ m \in DOMAIN threads /\ threads'[m].inode = threads[m].inode
         /\ m # n => threads'[m] = threads[m]
  <2> DEFINE w == threads[n].written + 1
             where == IF w >= Size THEN "finishing" ELSE "looking"
  <2>1. threads' = [threads EXCEPT ![n].written = w, ![n].at = where]
    BY ReadsInto
  <2> HIDE DEF w, where
  <2> QED
    BY <2>1 DEF Running, Thread
<1>4. Opened(n)
  BY ReadsInto DEF Opened
<1>5. UNCHANGED <<part, saved>>
  BY ReadsInto
<1>6. \A m \in DOMAIN threads' : Opened(m)' => Opened(m)
  BY <1>3, <1>4 DEF Opened
<1> QED
  BY <1>2, <1>3, <1>5, <1>6 DEF Disk

LEMMA PromotingKeepsDisk ==
    ASSUME Running, Disk, NEW n \in DOMAIN threads, Promotes(n) \/ Discards(n)
    PROVE  Disk'
<1> DEFINE f == threads[n].file
<1>1. f \in Files /\ threads[n] \in Thread
  BY DEF Running, Thread
<1>2. part' = [part EXCEPT ![f] = 0] /\ UNCHANGED content
  BY DEF Promotes, Discards
<1>3. saved' \in [Files -> Data]
  <2>1. CASE Promotes(n)
    <3>1. saved' = [saved EXCEPT ![f] = content[part[f]]] /\ part[f] # 0
      BY <2>1 DEF Promotes
    <3>2. content[part[f]] \in Data
      BY <1>1, <3>1, DataAt, ContentLength DEF Disk
    <3> QED
      BY <3>1, <3>2 DEF Disk
  <2>2. CASE Discards(n)
    BY <2>2 DEF Discards, Disk
  <2> QED
    BY <2>1, <2>2
<1>4. part' \in [Files -> 0..Len(content')]
  <2>1. 0 \in 0..Len(content) /\ part \in [Files -> 0..Len(content)]
    BY ContentLength DEF Disk
  <2> QED
    BY <1>2, <2>1
<1>5. Ends(n) \/ Goes(n, "failing")
  BY DEF Promotes, Discards
<1>6. \A m \in DOMAIN threads' :
         /\ m \in DOMAIN threads /\ threads'[m].inode = threads[m].inode
         /\ threads'[m] = threads[m] \/ threads'[m].at = "failing"
  BY <1>1, <1>5 DEF Ends, Goes, Thread
<1>7. content' \in Seq(Data) /\ Len(content') = Len(content)
  BY <1>2 DEF Disk
<1>8. \A m \in DOMAIN threads' : Opened(m)' => Opened(m)
  BY <1>6 DEF Opened
<1> QED
  BY <1>3, <1>4, <1>6, <1>7, <1>8 DEF Disk

LEMMA OthersRest ==
    ASSUME Running, NEW n \in DOMAIN threads, Transfers(n),
           ~Promotes(n), ~Discards(n), ~Reads(n), \A sent \in BOOLEAN : ~OpenPart(n, sent)
    PROVE  DiskRests
<1>1. threads[n] \in Thread
  BY DEF Running
<1>2. UNCHANGED diskVars
  BY DEF Transfers, LooksBeforeOpen, Looks, ReadsNothing, PeerCloses, StreamFails,
         CannotFinish, Fails
<1>3. CASE Ends(n)
  BY <1>2, <1>3 DEF Ends, DiskRests
<1>4. ASSUME NEW where \in Places, Goes(n, where),
             Opened(n) \/ where \in {"opening", "failing"}
      PROVE  DiskRests
  BY <1>1, <1>2, <1>4 DEF Goes, DiskRests, Thread
<1>5. \/ Ends(n)
      \/ \E where \in Places : Goes(n, where) /\ (Opened(n) \/ where \in {"opening", "failing"})
  BY DEF Transfers, LooksBeforeOpen, Looks, ReadsNothing, Places, Opened,
         PeerCloses, StreamFails, CannotFinish, Fails
<1> QED
  BY <1>3, <1>4, <1>5

LEMMA DiskKept ==
    ASSUME Store, Running, Disk, Notes, [Next]_vars
    PROVE  Disk'
<1>1. CASE UNCHANGED <<diskVars, threads>>
  BY <1>1, DiskRestsKept DEF DiskRests
<1>2. ASSUME NEW f \in unlinking, CancelUnlinks(f)
      PROVE  Disk'
  <2>1. f \in Files /\ part' = [part EXCEPT ![f] = 0] /\ UNCHANGED <<content, saved, threads>>
    BY <1>2 DEF CancelUnlinks, Notes
  <2>2. part' \in [Files -> 0..Len(content')]
    BY <2>1, ContentLength DEF Disk
  <2> QED
    BY <2>1, <2>2 DEF Disk, Opened
<1>3. CASE Claims /\ UNCHANGED diskVars
  <2>1. PICK r \in rows : NewThread(r, started + 1)
    BY <1>3 DEF Claims
  <2>2. started + 1 \notin DOMAIN threads
    BY Bounds DEF Running
  <2>3. DiskRests
    BY <1>3, <2>1, <2>2 DEF NewThread, DiskRests
  <2> QED
    BY <2>3, DiskRestsKept
<1>4. ASSUME NEW n \in DOMAIN threads, Transfers(n)
      PROVE  Disk'
  BY <1>4, OpeningKeepsDisk, ReadingKeepsDisk, PromotingKeepsDisk, OthersRest, DiskRestsKept
<1>5. CASE CallerStep
  <2>1. UNCHANGED <<diskVars, threads>> \/ \E f \in unlinking : CancelUnlinks(f)
    BY <1>5 DEF CallerStep, Download, DownloadDeclined, PauseByFile, ResumeByFile,
                CancelByFile, RemoveQueuedByFile, RemoveByFile, FailDeclined
  <2> QED
    BY <1>1, <1>2, <2>1
<1>6. CASE LoopStep
  <2>1. UNCHANGED <<diskVars, threads>>
    BY <1>6 DEF LoopStep, UpdateDownloadTokens, FailQueued, CollectFailed, FailCollected
  <2> QED
    BY <1>1, <2>1
<1>7. CASE ThreadStep
  BY <1>3, <1>4, <1>7, ClaimClaims DEF ThreadStep, Claim
<1> QED
  BY <1>1, <1>5, <1>6, <1>7 DEF Next, vars

LEMMA InitIInv == Init => IInv
<1> SUFFICES ASSUME Init PROVE IInv
  OBVIOUS
<1> USE DEF Init
<1>1. Store
  BY Bounds DEF Store
<1>2. Notes
  BY DEF Notes
<1>3. threads = << >> => DOMAIN threads = {}
  OBVIOUS
<1>4. Running
  BY <1>3, Bounds DEF Running
<1>5. Disk
  <2>1. content \in Seq(Data) /\ Len(content) = 0
    BY EmptySeq
  <2> QED
    BY <1>3, <2>1, EmptyData DEF Disk
<1>6. Claimed
  BY <1>3 DEF Claimed, ClaimOnce
<1>7. Heard
  BY DEF Heard
<1> QED
  BY <1>1, <1>2, <1>4, <1>5, <1>6, <1>7 DEF IInv

LEMMA StepIInv == IInv /\ [Next]_vars => IInv'
BY StoreKept, NotesKept, RunningKept, DiskKept, ClaimedKept, HeardKept DEF IInv

LEMMA TypeOKFollows == IInv => TypeOK
<1> SUFFICES ASSUME IInv PROVE TypeOK
  OBVIOUS
<1>1. Store /\ Notes /\ Running /\ Disk
  BY DEF IInv
<1>2. \A n \in DOMAIN threads :
        /\ threads[n].id \in Ids /\ threads[n].file \in Files
        /\ threads[n].inode \in 0..Len(content) /\ threads[n].written \in 0..Size
  BY <1>1, ContentLength DEF Running, Disk, Thread
<1>3. \A i \in DOMAIN content : content[i] \in Seq(Chunk \cup {Hole})
  BY <1>1, ContentLength, DataAt DEF Data
<1> QED
  BY <1>1, <1>2, <1>3 DEF TypeOK, Store, Notes, Running, Disk

LEMMA Invariant == Spec => []IInv
BY InitIInv, StepIInv, PTL DEF Spec
-----------------------------------------------------------------------------
(* Theorems.                                                               *)

\* Every table of the downloads keeps its type, and rows their own positions.
THEOREM DownloadsTyped == Spec => []TypeOK
BY Invariant, TypeOKFollows, PTL

\* However a peer answers, whatever callers do meanwhile: one download, one thread.
THEOREM OneThread == Spec => []ClaimOnce
<1>1. IInv => ClaimOnce
  BY DEF IInv, Claimed
<1> QED
  BY <1>1, Invariant, PTL

\* What a download came to is final: no late thread or notice changes it.
THEOREM VerdictsStay == Spec => VerdictStays
<1>1. IInv /\ [Next]_vars =>
        [\A r \in rows, q \in rows' :
            r.id = q.id /\ Finished(r) => q.status = r.status]_vars
  BY VerdictKept DEF IInv
<1> QED
  BY <1>1, Invariant, PTL DEF Spec, VerdictStays
-----------------------------------------------------------------------------
(* Cancellations.  While no peer offers twice with one token, a token says *)
(* which download it is: a thread that finds a row finds its own.          *)

NoRepeat == "repeated token" \notin Mishaps

TokensTell ==
    /\ \A r \in rows : r.token = r.id \/ r.token \in spent
    /\ \A r, q \in rows : r.token = q.token => r = q
    /\ \A n \in DOMAIN threads :
          threads[n].token = threads[n].id \/ threads[n].token \in spent
    /\ \A n \in DOMAIN threads, r \in rows :
          r.token = threads[n].token => r.id = threads[n].id

\* Tokens peers put in their offers are not among ours.
LEMMA TokensApart ==
    ASSUME IInv
    PROVE  /\ minted \in Nat
           /\ \A r \in rows : r.id \in Nat /\ r.id <= minted /\ r.id \notin PeerTokens
           /\ \A n \in DOMAIN threads : /\ threads[n].id \in Nat /\ threads[n].id <= minted
                                        /\ threads[n].id \notin PeerTokens
           /\ minted < MaxDownloads => minted + 1 \notin PeerTokens
           /\ spent \subseteq PeerTokens
<1>1. minted \in 0..MaxDownloads /\ spent \subseteq PeerTokens
  BY DEF IInv, Store, Notes
<1>2. \A i \in 0..MaxDownloads : i \notin PeerTokens
  BY Bounds
<1>3. \A r \in rows : r.id \in Ids /\ r.id <= minted
  BY DEF IInv, Store, Row
<1>4. \A n \in DOMAIN threads : threads[n].id \in Ids /\ threads[n].id <= minted
  BY DEF IInv, Running, Claimed, Thread
<1>5. \A i \in Ids : i \in Nat /\ i \in 0..MaxDownloads
  BY Bounds DEF Ids
<1>6. minted \in Nat /\ (minted < MaxDownloads => minted + 1 \in 0..MaxDownloads)
  BY <1>1, Bounds
<1> QED
  BY <1>1, <1>2, <1>3, <1>4, <1>5, <1>6

LEMMA TokensKept ==
    ASSUME NoRepeat, IInv, TokensTell, [Next]_vars
    PROVE  TokensTell'
<1>0. Store /\ Running /\ Store' /\ Running'
  BY StepIInv DEF IInv
<1>1. CASE Rests /\ Narrows
  <2>1. \A q \in rows' : \E r \in rows : r.id = q.id /\ r.token = q.token
    BY <1>1 DEF Narrows, Same
  <2>2. \A p, q \in rows' : p.token = q.token => p = q
    BY <1>1, <2>1 DEF Narrows, TokensTell
  <2>3. \A n \in DOMAIN threads', q \in rows' :
           q.token = threads'[n].token => q.id = threads'[n].id
    BY <1>1, <2>1 DEF Rests, ThreadsKeep, TokensTell
  <2> QED
    BY <1>1, <2>1, <2>2, <2>3 DEF Narrows, Rests, ThreadsKeep, TokensTell
<1>2. CASE Rests /\ Appends
  <2>1. PICK n \in Row : n.id = minted + 1 /\ n.token = minted + 1 /\ rows' = Staying(n) \cup {n}
    BY <1>2 DEF Appends, Pushed
  <2>2. minted < MaxDownloads /\ UNCHANGED spent
    BY <1>2 DEF Appends
  <2>3. \A q \in Staying(n) : q \in rows /\ q.token # n.token
    BY <2>1, <2>2, TokensApart DEF TokensTell, Staying
  <2>4. \A m \in DOMAIN threads : threads[m].token # n.token
    BY <2>1, <2>2, TokensApart DEF TokensTell
  <2>5. \A r \in rows' : r.token = r.id \/ r.token \in spent'
    BY <2>1, <2>2, <2>3 DEF TokensTell
  <2>6. \A p, q \in rows' : p.token = q.token => p = q
    BY <2>1, <2>3 DEF TokensTell
  <2>7. \A m \in DOMAIN threads', q \in rows' :
           q.token = threads'[m].token => q.id = threads'[m].id
    BY <1>2, <2>1, <2>3, <2>4 DEF Rests, ThreadsKeep, TokensTell
  <2> QED
    BY <1>2, <2>2, <2>5, <2>6, <2>7 DEF Rests, ThreadsKeep, TokensTell
<1>3. CASE Rests /\ Retokens
  <2>1. PICK r \in rows, n \in Row : Retoken(r, n)
    BY <1>3 DEF Retokens
  <2>2. /\ n.token \in PeerTokens /\ n.token \notin spent /\ spent' = spent \cup {n.token}
        /\ n.id = r.id
    BY <2>1 DEF Retoken, NoRepeat
  <2>3. \A q \in rows' : q = n \/ q \in rows
    BY <2>1 DEF Retoken, Pushed, Staying
  <2>4. \A q \in rows : q.token # n.token
    BY <2>2, TokensApart DEF TokensTell
  <2>5. \A m \in DOMAIN threads : threads[m].token # n.token
    BY <2>2, TokensApart DEF TokensTell
  <2>6. \A p, q \in rows' : p.token = q.token => p = q
    BY <2>3, <2>4 DEF TokensTell
  <2>7. \A m \in DOMAIN threads', q \in rows' :
           q.token = threads'[m].token => q.id = threads'[m].id
    BY <1>3, <2>3, <2>5 DEF Rests, ThreadsKeep, TokensTell
  <2>8. \A q \in rows' : q.token = q.id \/ q.token \in spent'
    BY <2>2, <2>3 DEF TokensTell
  <2>9. \A m \in DOMAIN threads' : threads'[m].token = threads'[m].id \/ threads'[m].token \in spent'
    BY <1>3, <2>2 DEF Rests, ThreadsKeep, TokensTell
  <2> QED
    BY <2>6, <2>7, <2>8, <2>9 DEF TokensTell
<1>4. CASE Claims
  <2>1. PICK r \in rows, n \in Row : ClaimRow(r, n) /\ NewThread(r, started + 1)
    BY <1>4 DEF Claims
  <2>2. started + 1 \notin DOMAIN threads /\ UNCHANGED spent
    BY <1>0, <1>4, Bounds DEF Running, Claims
  <2>3. n.id = r.id /\ n.token = r.token /\ rows' = (rows \ {r}) \cup {n}
    BY <2>1 DEF ClaimRow, Same
  <2>4. /\ DOMAIN threads' = DOMAIN threads \cup {started + 1}
        /\ \A m \in DOMAIN threads : threads'[m] = threads[m]
        /\ threads'[started + 1].id = r.id /\ threads'[started + 1].token = r.token
    BY <2>1, <2>2 DEF NewThread
  <2>5. \A p, q \in rows' : p.token = q.token => p = q
    BY <2>3 DEF TokensTell
  <2>6. \A m \in DOMAIN threads', q \in rows' :
           q.token = threads'[m].token => q.id = threads'[m].id
    BY <2>3, <2>4 DEF TokensTell
  <2> QED
    BY <2>2, <2>3, <2>4, <2>5, <2>6 DEF TokensTell
<1> QED
  BY <1>0, <1>1, <1>2, <1>3, <1>4, RowsStep

LEMMA OnlyPromotingSaves ==
    ASSUME [Next]_vars, saved' # saved
    PROVE  \E n \in DOMAIN threads : Promotes(n)
<1>1. CASE CallerStep
  BY <1>1 DEF CallerStep, Download, DownloadDeclined, PauseByFile, ResumeByFile,
              CancelByFile, RemoveQueuedByFile, RemoveByFile, FailDeclined, CancelUnlinks,
              diskVars
<1>2. CASE LoopStep
  BY <1>2 DEF LoopStep, UpdateDownloadTokens, FailQueued, CollectFailed, FailCollected,
              diskVars
<1>3. CASE ThreadStep
  BY <1>3 DEF ThreadStep, Claim, Transfers, LooksBeforeOpen, Looks, Reads, ReadsNothing,
              OpenPart, PeerCloses, StreamFails, CannotFinish, Discards, Fails, diskVars
<1> QED
  BY <1>1, <1>2, <1>3 DEF Next, vars, diskVars

\* What is promoted is a download nobody has been told was cancelled.
LEMMA PromotesUncancelled ==
    ASSUME IInv, TokensTell, NEW n \in DOMAIN threads, Promotes(n)
    PROVE  "Cancelled" \notin told'[threads[n].id]
<1> DEFINE i == threads[n].id
           r == First(Seen(n))
<1>1. /\ Seen(n) # {} /\ r.status # "Cancelled"
      /\ UNCHANGED told \/ Tell({i}, "Completed")
  BY DEF Promotes, SeenAs
<1>2. r \in rows /\ r.token = threads[n].token
  BY <1>1, OfTokenFound DEF IInv, Seen
<1>3. r.id = i
  BY <1>2 DEF TokensTell
<1>4. "Cancelled" \notin told[i]
  BY <1>1, <1>2, <1>3 DEF IInv, Heard
<1>5. i \in Ids
  BY DEF IInv, Running, Thread
<1>6. "Completed" \in Verdict /\ "Completed" # "Cancelled"
  BY DEF Verdict
<1> HIDE DEF i
<1>7. told'[i] = told[i] \/ told'[i] = told[i] \cup {"Completed"}
  <2>1. CASE Tell({i}, "Completed")
    BY <1>5, <1>6, <2>1, Telling DEF IInv
  <2> QED
    BY <1>1, <2>1
<1> QED
  BY <1>4, <1>6, <1>7 DEF i

\* While no token is offered twice, cancelling and completing never both happen.
THEOREM CancelsHold ==
    ASSUME NoRepeat
    PROVE  Spec => CancelHolds
<1>1. Init => TokensTell
  <2>1. threads = << >> => DOMAIN threads = {}
    OBVIOUS
  <2> QED
    BY <2>1 DEF Init, TokensTell
<1>2. IInv /\ TokensTell /\ [Next]_vars => TokensTell'
  BY TokensKept
<1>3. IInv /\ TokensTell /\ [Next]_vars =>
        [\A n \in DOMAIN threads :
            threads[n].at = "finishing" /\ Leaves(n) /\ saved' # saved
               => "Cancelled" \notin told'[threads[n].id]]_vars
  <2> SUFFICES ASSUME IInv, TokensTell, [Next]_vars, saved' # saved,
                      NEW n \in DOMAIN threads, Leaves(n)
               PROVE  "Cancelled" \notin told'[threads[n].id]
    OBVIOUS
  <2>1. PICK m \in DOMAIN threads : Promotes(m)
    BY OnlyPromotingSaves
  <2>2. m = n
    BY <2>1, TransfersKeep DEF IInv, Transfers, Leaves
  <2> QED
    BY <2>1, <2>2, PromotesUncancelled
<1> QED
  BY <1>1, <1>2, <1>3, Invariant, PTL DEF Spec, CancelHolds
-----------------------------------------------------------------------------
(* Transfers are not abandoned.  While no download in transfer is offered  *)
(* anew, what goes on under a token is the first row that has it.          *)

NoSecondOffer == "second offer" \notin Mishaps

\* It is the row of a thread that discards which was cancelled.
DiscardsKnow ==
    \A n \in DOMAIN threads, r \in rows :
       threads[n].at = "discarding" /\ r.id = threads[n].id /\ r.token = threads[n].token
          => ~Live(r)

LiveFirst == \A r, q \in rows : Live(r) /\ q.token = r.token => r.pos <= q.pos

Attended == NoOrphan /\ LiveFirst /\ DiscardsKnow

\* Nothing comes to life but by a claim.
LEMMA LiveBefore ==
    ASSUME NoSecondOffer, Narrows \/ Appends \/ Retokens, NEW q \in rows', Live(q)
    PROVE  \E r \in rows : Live(r) /\ Same(r, q)
<1>1. CASE Narrows
  BY <1>1 DEF Narrows, Aged, Live, Finished, Verdict
<1>2. CASE Appends
  BY <1>2 DEF Appends, Pushed, Staying, Live, Same
<1>3. CASE Retokens
  BY <1>3 DEF Retokens, Retoken, NoSecondOffer, Pushed, Staying, Live, Same
<1> QED
  BY <1>1, <1>2, <1>3

LEMMA FirstLives ==
    ASSUME Store, LiveFirst, NEW r \in rows, Live(r)
    PROVE  OfToken(r.token) # {} /\ First(OfToken(r.token)) = r
<1>1. OfToken(r.token) # {}
  BY DEF OfToken
<1>2. /\ First(OfToken(r.token)) \in rows /\ First(OfToken(r.token)).token = r.token
      /\ First(OfToken(r.token)).pos <= r.pos
  BY <1>1, OfTokenFound
<1>3. r.pos <= First(OfToken(r.token)).pos
  BY <1>2 DEF LiveFirst
<1>4. r.pos \in Nat /\ First(OfToken(r.token)).pos \in Nat
  BY <1>2 DEF Store, Row
<1>5. r.pos = First(OfToken(r.token)).pos
  BY <1>2, <1>3, <1>4
<1> QED
  BY <1>1, <1>2, <1>5 DEF Store

LEMMA LiveFirstKept ==
    ASSUME NoSecondOffer, Store, Running, LiveFirst, [Next]_vars
    PROVE  LiveFirst'
<1>0. \A r \in rows : r.pos \in Nat
  BY DEF Store, Row
<1>1. CASE Narrows
  <2> SUFFICES ASSUME NEW p \in rows', NEW q \in rows', Live(p), q.token = p.token
               PROVE  p.pos <= q.pos
    BY DEF LiveFirst, Live
  <2>1. PICK r \in rows : Live(r) /\ Same(r, p)
    BY <1>1, LiveBefore
  <2>2. PICK o \in rows : Same(o, q)
    BY <1>1 DEF Narrows
  <2> QED
    BY <2>1, <2>2 DEF LiveFirst, Same
<1>2. CASE Appends
  <2>1. PICK n \in Row : /\ n.status = "Queued" /\ rows' = Staying(n) \cup {n}
                         /\ \A q \in Staying(n) : q.pos < n.pos
    BY <1>2 DEF Appends, Pushed
  <2>2. n.pos \in Nat /\ ~Live(n) /\ Staying(n) \subseteq rows
    BY <2>1 DEF Row, Live, Staying
  <2> QED
    BY <1>0, <2>1, <2>2 DEF LiveFirst, Live
<1>3. CASE Retokens
  <2>1. PICK r \in rows, n \in Row : Retoken(r, n)
    BY <1>3 DEF Retokens
  <2>2. /\ ~Live(n) /\ n.pos \in Nat /\ Staying(n) \subseteq rows
        /\ \A q \in Staying(n) : q.pos < n.pos
        /\ \A q \in rows' : q \in Staying(n) \/ q = n
    BY <2>1 DEF Retoken, NoSecondOffer, Live, Row, Staying, Pushed
  <2> QED
    BY <1>0, <2>2 DEF LiveFirst, Live
<1>4. CASE Claims
  <2>1. PICK r \in rows, n \in Row : ClaimRow(r, n)
    BY <1>4 DEF Claims
  <2>2. /\ n.token = r.token /\ n.pos = r.pos /\ rows' = (rows \ {r}) \cup {n}
        /\ \A q \in rows : q.token = r.token => r.pos <= q.pos
    BY <2>1 DEF ClaimRow, Same
  <2> QED
    BY <1>0, <2>2 DEF LiveFirst, Live
<1> QED
  BY <1>1, <1>2, <1>3, <1>4, RowsStep

LEMMA DiscardsFound ==
    ASSUME Running, NEW n \in DOMAIN threads, Transfers(n),
           n \in DOMAIN threads', threads'[n].at = "discarding"
    PROVE  SeenAs(n, {"Cancelled"})
<1>1. threads[n] \in Thread
  BY DEF Running
<1>2. ~Ends(n)
  BY DEF Ends
<1>3. ASSUME NEW where, Goes(n, where)
      PROVE  where = "discarding"
  BY <1>1, <1>3 DEF Goes, Thread
<1>4. ~Reads(n)
  <2>1. SUFFICES ASSUME Reads(n) PROVE FALSE
    OBVIOUS
  <2>2. threads' = [threads EXCEPT ![n].written = @ + 1,
                       ![n].at = IF threads[n].written + 1 >= Size THEN "finishing" ELSE "looking"]
    BY <2>1 DEF Reads
  <2> QED
    BY <1>1, <2>2 DEF Thread
<1>5. \A sent \in BOOLEAN : ~OpenPart(n, sent)
  <2> SUFFICES ASSUME NEW sent \in BOOLEAN, OpenPart(n, sent) PROVE FALSE
    OBVIOUS
  <2>1. threads' = Reopened(n, IF sent THEN "looking" ELSE "failing")
    BY Opening
  <2> QED
    BY <1>1, <2>1 DEF Reopened, Thread
<1> QED
  BY <1>2, <1>3, <1>4, <1>5 DEF Transfers, LooksBeforeOpen, Looks, ReadsNothing,
     PeerCloses, StreamFails, CannotFinish, Discards, Promotes, Fails

\* A thread moves only by a step of its own.
LEMMA ThreadMoves ==
    ASSUME Store, Running, [Next]_vars, NEW n \in DOMAIN threads,
           ~(n \in DOMAIN threads' /\ threads'[n] = threads[n])
    PROVE  Transfers(n) /\ Rests /\ (Narrows \/ Appends \/ Retokens)
<1>1. ASSUME NEW r \in rows, NewThread(r, started + 1)
      PROVE  FALSE
  <2>1. started + 1 \notin DOMAIN threads
    BY Bounds DEF Running
  <2> QED
    BY <1>1, <2>1 DEF NewThread
<1>2. ~Claims
  BY <1>1 DEF Claims
<1>3. ~UNCHANGED threads
  OBVIOUS
<1>4. \E m \in DOMAIN threads : Transfers(m)
  <2>1. CASE CallerStep
    BY <1>3, <2>1, OtherCallersNarrow, LoopNarrows DEF CallerStep, Download, DownloadDeclined
  <2>2. CASE LoopStep
    BY <1>3, <2>2, LoopNarrows DEF LoopStep, UpdateDownloadTokens
  <2>3. CASE ThreadStep
    BY <1>2, <2>3, ClaimClaims DEF ThreadStep
  <2> QED
    BY <1>3, <2>1, <2>2, <2>3 DEF Next, vars
<1> QED
  BY <1>2, <1>4, TransfersKeep, RowsStep

LEMMA DiscardsKnowKept ==
    ASSUME NoSecondOffer, Store, Running, Claimed, LiveFirst, DiscardsKnow, [Next]_vars
    PROVE  DiscardsKnow'
<1> SUFFICES ASSUME NEW n \in DOMAIN threads', NEW q \in rows',
                    threads'[n].at = "discarding", q.id = threads'[n].id,
                    q.token = threads'[n].token, Live(q)
             PROVE  FALSE
  BY DEF DiscardsKnow, Live
<1>1. CASE Claims
  <2>1. PICK r \in rows, o \in Row : ClaimRow(r, o) /\ NewThread(r, started + 1)
    BY <1>1 DEF Claims
  <2>2. n \in DOMAIN threads /\ threads'[n] = threads[n] /\ n # started + 1
    BY <2>1, Bounds DEF NewThread, Running
  <2>3. CASE q = o
    BY <2>1, <2>2, <2>3 DEF Claimed, ClaimRow, Same
  <2>4. CASE q # o
    BY <2>1, <2>2, <2>4 DEF DiscardsKnow, ClaimRow
  <2> QED
    BY <2>3, <2>4
<1>2. CASE ~Claims
  <2>1. Rests /\ (Narrows \/ Appends \/ Retokens)
    BY <1>2, RowsStep
  <2>2. PICK r \in rows : Live(r) /\ Same(r, q)
    BY <2>1, LiveBefore
  <2>3. n \in DOMAIN threads /\ r.id = threads[n].id /\ r.token = threads[n].token
    BY <2>1, <2>2 DEF Rests, ThreadsKeep, Same
  <2>4. threads[n].at # "discarding"
    BY <2>2, <2>3 DEF DiscardsKnow
  <2>5. Transfers(n)
    BY <2>3, <2>4, ThreadMoves
  <2>6. SeenAs(n, {"Cancelled"})
    BY <2>3, <2>5, DiscardsFound
  <2>7. First(OfToken(r.token)) = r
    BY <2>2, FirstLives
  <2> QED
    BY <2>2, <2>3, <2>6, <2>7 DEF SeenAs, Seen, Live
<1> QED
  BY <1>1, <1>2

\* A thread that ends leaves its download settled.
LEMMA EndsSettle ==
    ASSUME Store, LiveFirst, DiscardsKnow, NEW n \in DOMAIN threads, Transfers(n),
           Running, n \notin DOMAIN threads', NEW r \in rows, Live(r),
           r.id = threads[n].id, r.token = threads[n].token,
           NEW q \in rows', q.id = r.id
    PROVE  ~Live(q)
<1>1. Seen(n) # {} /\ First(Seen(n)) = r
  BY FirstLives DEF Seen
<1>2. ~Finished(r) /\ r.status # "Cancelled"
  BY DEF Live, Finished, Verdict
<1>3. ASSUME NEW s \in Verdict, rows' = Updated({threads[n].token}, s)
      PROVE  ~Live(q)
  <2>1. r \in Reached({threads[n].token})
    BY <1>1, <1>2 DEF Reached, Seen
  <2>2. \A o \in Reached({threads[n].token}) : o \in rows /\ [o EXCEPT !.status = s].id = o.id
                                             /\ [o EXCEPT !.status = s].status = s
    BY DEF Reached, Store, Row
  <2>3. q \in rows \ Reached({threads[n].token})
           \/ \E o \in Reached({threads[n].token}) : q = [o EXCEPT !.status = s]
    BY <1>3 DEF Updated
  <2>4. q.status = s
    BY <2>1, <2>2, <2>3 DEF Store
  <2> QED
    BY <2>4 DEF Live, Verdict
<1>4. CASE Promotes(n)
  BY <1>3, <1>4 DEF Promotes, Verdict
<1>5. CASE Fails(n)
  BY <1>3, <1>5 DEF Fails, Verdict
<1>6. CASE Discards(n)
  BY <1>6 DEF Discards, DiscardsKnow
<1>7. CASE LooksBeforeOpen(n) /\ Ends(n)
  <2>1. SeenAs(n, {"Cancelled"})
    <3>1. ~Goes(n, "opening") /\ ~Goes(n, "failing")
      BY DEF Goes
    <3> QED
      BY <1>7, <3>1 DEF LooksBeforeOpen
  <2> QED
    BY <1>1, <1>2, <2>1 DEF SeenAs
<1>8. \A where : ~Goes(n, where)
  BY DEF Goes
<1>9. ~Reads(n) /\ \A sent \in BOOLEAN : ~OpenPart(n, sent)
  BY Opening DEF Reads, Reopened
<1> QED
  BY <1>4, <1>5, <1>6, <1>7, <1>8, <1>9 DEF Transfers, LooksBeforeOpen, Looks,
     ReadsNothing, PeerCloses, StreamFails, CannotFinish

LEMMA NoOrphanKept ==
    ASSUME NoSecondOffer, Store, Running, Attended, [Next]_vars
    PROVE  NoOrphan'
<1> SUFFICES ASSUME NEW q \in rows', Live(q)
             PROVE  \E n \in DOMAIN threads' : /\ threads'[n].id = q.id
                                              /\ threads'[n].token = q.token
  BY DEF NoOrphan, Live
<1>1. CASE Claims
  <2>1. PICK r \in rows, o \in Row : ClaimRow(r, o) /\ NewThread(r, started + 1)
    BY <1>1 DEF Claims
  <2>2. CASE q = o
    BY <2>1, <2>2 DEF ClaimRow, Same, NewThread
  <2>3. CASE q # o
    <3>1. q \in rows
      BY <2>1, <2>3 DEF ClaimRow
    <3>2. PICK n \in DOMAIN threads : threads[n].id = q.id /\ threads[n].token = q.token
      BY <3>1 DEF Attended, NoOrphan, Live
    <3>3. n # started + 1
      BY Bounds DEF Running
    <3> QED
      BY <2>1, <3>2, <3>3 DEF NewThread
  <2> QED
    BY <2>2, <2>3
<1>2. CASE ~Claims
  <2>1. Rests /\ (Narrows \/ Appends \/ Retokens)
    BY <1>2, RowsStep
  <2>2. PICK r \in rows : Live(r) /\ Same(r, q)
    BY <2>1, LiveBefore
  <2>3. PICK n \in DOMAIN threads : threads[n].id = r.id /\ threads[n].token = r.token
    BY <2>2 DEF Attended, NoOrphan, Live
  <2>4. n \in DOMAIN threads'
    <3> SUFFICES ASSUME n \notin DOMAIN threads' PROVE FALSE
      OBVIOUS
    <3>1. Transfers(n)
      BY ThreadMoves
    <3> QED
      BY <2>2, <2>3, <3>1, EndsSettle DEF Attended, Same
  <2> QED
    BY <2>1, <2>2, <2>3, <2>4 DEF Rests, ThreadsKeep, Same
<1> QED
  BY <1>1, <1>2

\* While no download in transfer is offered anew, one that says it is being
\* transferred, or is paused, has its thread.
THEOREM NothingIsOrphaned ==
    ASSUME NoSecondOffer
    PROVE  Spec => []NoOrphan
<1>1. Init => Attended
  <2>1. threads = << >> => DOMAIN threads = {}
    OBVIOUS
  <2> QED
    BY <2>1 DEF Init, Attended, NoOrphan, LiveFirst, DiscardsKnow
<1>2. IInv /\ Attended /\ [Next]_vars => Attended'
  <2>1. IInv /\ Attended /\ [Next]_vars => LiveFirst' /\ DiscardsKnow' /\ NoOrphan'
    BY LiveFirstKept, DiscardsKnowKept, NoOrphanKept DEF IInv, Attended
  <2> QED
    BY <2>1 DEF Attended
<1>3. Attended => NoOrphan
  BY DEF Attended
<1> QED
  BY <1>1, <1>2, <1>3, Invariant, PTL DEF Spec
-----------------------------------------------------------------------------
(* Files are whole.  With one peer, callers that ask for a file once at a  *)
(* time and only ever pause, peers that can be asked, no file refused and  *)
(* no token offered twice, at most one thread writes a partial.            *)

Unmixed ==
    /\ \A u, v \in Users : u = v
    /\ Calls \subseteq {"pause"}
    /\ Mishaps \subseteq {"second offer"}

\* The first k chunks of the file u sends.
Prefix(u, k) == [i \in 1..k |-> [user |-> u, at |-> i]]

NothingPending == collected = {} /\ declined = {} /\ unlinking = {}

OneAtATime ==
    \A r, q \in rows : r.file = q.file /\ ~Finished(r) /\ ~Finished(q) => r = q

Owned ==
    \A n \in DOMAIN threads :
       \E r \in rows : r.id = threads[n].id /\ r.file = threads[n].file /\ Live(r)

Partials ==
    /\ \A f, g \in Files : part[f] = part[g] /\ part[f] # 0 => f = g
    /\ \A f \in Files : part[f] # 0 =>
          \E u \in Users, k \in 0..Size : content[part[f]] = Prefix(u, k)
    /\ \A n \in DOMAIN threads : threads[n].inode # 0 =>
          /\ threads[n].inode = part[threads[n].file]
          /\ content[threads[n].inode] = Prefix(threads[n].user, threads[n].written)

Sole == NothingPending /\ OneAtATime /\ Owned /\ Partials /\ WholeFile

LEMMA UnmixedHas ==
    ASSUME Unmixed
    PROVE  /\ NoRepeat
           /\ "refusal" \notin Mishaps /\ "unreachable" \notin Mishaps
           /\ "cancel" \notin Calls /\ "remove" \notin Calls /\ "twice" \notin Calls
BY DEF Unmixed, NoRepeat

LEMMA PrefixIs ==
    ASSUME NEW u, NEW k \in Nat
    PROVE  /\ Len(Prefix(u, k)) = k
           /\ k = 0 => Prefix(u, k) = << >>
<1> DEFINE S == {[user |-> u, at |-> i] : i \in 1..k}
<1>1. Prefix(u, k) \in [1..k -> S]
  BY DEF Prefix
<1>2. Prefix(u, k) \in Seq(S) /\ Len(Prefix(u, k)) = k
  <2> HIDE DEF S
  <2>1. Prefix(u, k) \in Seq(S)
    BY <1>1, IsASeq
  <2>2. DOMAIN Prefix(u, k) = 1..k
    BY DEF Prefix
  <2> QED
    BY <2>1, <2>2, LenProperties
<1>3. k = 0 => Prefix(u, k) = << >>
  <2> HIDE DEF S
  <2> QED
    BY <1>2, EmptySeq
<1> QED
  BY <1>2, <1>3

LEMMA PrefixGrows ==
    ASSUME NEW u, NEW k \in Nat
    PROVE  Written(Prefix(u, k), k + 1, [user |-> u, at |-> k + 1]) = Prefix(u, k + 1)
<1>1. Len(Prefix(u, k)) = k
  BY PrefixIs
<1>2. \A i \in 1..k : Prefix(u, k)[i] = [user |-> u, at |-> i]
  BY DEF Prefix
<1>3. \A i \in 1..(k + 1) :
         (IF i = k + 1 THEN [user |-> u, at |-> k + 1]
          ELSE IF i <= k THEN Prefix(u, k)[i] ELSE Hole) = [user |-> u, at |-> i]
  BY <1>2
<1>4. Written(Prefix(u, k), k + 1, [user |-> u, at |-> k + 1])
        = [i \in 1..(k + 1) |-> IF i = k + 1 THEN [user |-> u, at |-> k + 1]
                               ELSE IF i <= k THEN Prefix(u, k)[i] ELSE Hole]
  BY <1>1 DEF Written
<1> QED
  BY <1>3, <1>4 DEF Prefix

\* Callers and the loop, as far as they go.
LEMMA PendingStays ==
    ASSUME Unmixed, NothingPending, [Next]_vars
    PROVE  NothingPending'
<1>1. CASE CallerStep
  BY <1>1, UnmixedHas DEF CallerStep, Download, DownloadDeclined, PauseByFile, ResumeByFile,
     CancelByFile, RemoveQueuedByFile, RemoveByFile, FailDeclined, CancelUnlinks,
     NothingPending, pendVars
<1>2. CASE LoopStep
  BY <1>2, UnmixedHas DEF LoopStep, UpdateDownloadTokens, FailQueued, CollectFailed,
     FailCollected, NothingPending, pendVars
<1>3. CASE ThreadStep
  BY <1>3 DEF ThreadStep, Claim, Transfers, LooksBeforeOpen, Looks, Reads, ReadsNothing,
     OpenPart, PeerCloses, StreamFails, CannotFinish, Discards, Promotes, Fails,
     NothingPending, pendVars
<1> QED
  BY <1>1, <1>2, <1>3 DEF Next, vars, pendVars, NothingPending

LEMMA OneAtATimeKept ==
    ASSUME Unmixed, IInv, OneAtATime, [Next]_vars
    PROVE  OneAtATime'
<1>0. Store /\ Running
  BY DEF IInv
<1> SUFFICES ASSUME NEW p \in rows', NEW q \in rows', p.file = q.file,
                    ~Finished(p), ~Finished(q)
             PROVE  p = q
  BY DEF OneAtATime, Finished
<1>1. CASE Narrows
  <2>1. PICK r \in rows : Same(r, p) /\ Aged(r, p)
    BY <1>1 DEF Narrows
  <2>2. PICK o \in rows : Same(o, q) /\ Aged(o, q)
    BY <1>1 DEF Narrows
  <2>3. ~Finished(r) /\ ~Finished(o)
    BY <2>1, <2>2 DEF Aged, Finished, Live, Verdict
  <2>4. r = o
    BY <2>1, <2>2, <2>3 DEF OneAtATime, Same
  <2> QED
    BY <1>1, <2>1, <2>2, <2>4 DEF Narrows, Same
<1>2. CASE Appends
  <2>1. PICK n \in Row : MayAsk(n.user, n.file) /\ rows' = Staying(n) \cup {n}
    BY <1>2 DEF Appends, Pushed
  <2>2. \A r \in rows : r.file = n.file => Finished(r)
    <3>1. \A r \in rows : r.user = n.user
      BY <1>0 DEF Unmixed, Store, Row
    <3> QED
      BY <2>1, <3>1, UnmixedHas DEF MayAsk, OfFile
  <2> QED
    BY <2>1, <2>2 DEF OneAtATime, Staying
<1>3. CASE Retokens
  <2>1. PICK r \in rows, n \in Row : Retoken(r, n)
    BY <1>3 DEF Retokens
  <2>2. /\ n.file = r.file /\ n.status = r.status
        /\ \A o \in rows' : o = n \/ (o \in rows /\ o # r)
    BY <2>1 DEF Retoken, Pushed, Staying
  <2> QED
    BY <2>2 DEF OneAtATime, Finished
<1>4. CASE Claims
  <2>1. PICK r \in rows, n \in Row : ClaimRow(r, n)
    BY <1>4 DEF Claims
  <2>2. n.file = r.file /\ ~Finished(r) /\ rows' = (rows \ {r}) \cup {n}
    BY <2>1 DEF ClaimRow, Same, Finished, Verdict
  <2> QED
    BY <2>2 DEF OneAtATime
<1> QED
  BY <1>0, <1>1, <1>2, <1>3, <1>4, RowsStep

\* A row in transfer is there as long as its thread is.
Survives(r) == \E q \in rows' : q.id = r.id /\ q.file = r.file /\ Live(q)

LEMMA UpdatedSpares ==
    ASSUME NEW r \in rows, Live(r), NEW T, NEW s, rows' = Updated(T, s), r.token \notin T
    PROVE  Survives(r)
BY DEF Updated, Reached, Survives

LEMMA CallersSpare ==
    ASSUME Unmixed, IInv, NothingPending, CallerStep, NEW r \in rows, Live(r)
    PROVE  Survives(r)
<1>0. r \in Row /\ ~Finished(r) /\ Store
  BY DEF IInv, Store, Live, Finished, Verdict
<1>1. ASSUME NEW u \in Users, NEW f \in Files, Download(u, f) \/ DownloadDeclined(u, f)
      PROVE  Survives(r)
  BY <1>0, <1>1, DownloadAppends DEF Appends, Pushed, Staying, Survives
<1>2. ASSUME NEW u \in Users, NEW f \in Files, NEW s \in {"InProgress", "Paused"},
             rows' = With(First(OfFile(u, f)), s), OfFile(u, f) # {}
      PROVE  Survives(r)
  <2> DEFINE o == First(OfFile(u, f))
  <2>1. o \in rows /\ o \in Row
    BY <1>0, <1>2, OfFileFound DEF Store
  <2> HIDE DEF o
  <2>2. /\ [o EXCEPT !.status = s].id = o.id /\ [o EXCEPT !.status = s].file = o.file
        /\ [o EXCEPT !.status = s].status = s
    BY <2>1 DEF Row
  <2>3. rows' = (rows \ {o}) \cup {[o EXCEPT !.status = s]}
    BY <1>2 DEF With, o
  <2> QED
    BY <2>2, <2>3 DEF Survives, Live
<1>3. ASSUME NEW u \in Users, NEW f \in Files, PauseByFile(u, f) \/ ResumeByFile(u, f)
      PROVE  Survives(r)
  BY <1>2, <1>3 DEF PauseByFile, ResumeByFile
<1>4. \/ \E u \in Users, f \in Files : \/ Download(u, f) \/ DownloadDeclined(u, f)
                                       \/ PauseByFile(u, f) \/ ResumeByFile(u, f)
  BY UnmixedHas DEF CallerStep, CancelByFile, RemoveQueuedByFile, RemoveByFile,
     NothingPending
<1> QED
  BY <1>1, <1>3, <1>4

LEMMA LoopSpares ==
    ASSUME Unmixed, IInv, TokensTell, NothingPending, LoopStep, NEW r \in rows, Live(r)
    PROVE  Survives(r)
<1>0. r \in Row /\ ~Finished(r) /\ Store /\ r.status # "Queued"
  BY DEF IInv, Store, Live, Finished, Verdict
<1>1. ASSUME NEW u \in Users, NEW f \in Files, NEW t \in PeerTokens,
             UpdateDownloadTokens(u, f, t)
      PROVE  Survives(r)
  <2>1. PICK o \in rows, n \in Row : Retoken(o, n)
    BY <1>0, <1>1, UpdateRetokens DEF Retokens
  <2>2. /\ n.token \in PeerTokens /\ n.token \notin spent
        /\ n.id = o.id /\ n.file = o.file /\ n.status = o.status
        /\ rows' = {q \in Staying(n) \cup {n} : q.token # o.token}
    BY <2>1, UnmixedHas DEF Retoken, NoRepeat, Pushed
  <2>3. CASE r = o
    <3>1. n.token # o.token
      BY <2>2, TokensApart DEF TokensTell
    <3> QED
      BY <2>2, <2>3, <3>1 DEF Survives, Live
  <2>4. CASE r # o
    <3>1. r.token # o.token
      BY <2>4 DEF TokensTell
    <3> QED
      BY <1>0, <2>2, <3>1 DEF Survives, Staying
  <2> QED
    BY <2>3, <2>4
<1>2. ASSUME NEW u \in Users, FailQueued(u)
      PROVE  Survives(r)
  <2> DEFINE T == {q.token : q \in {q \in rows : q.user = u /\ q.status = "Queued"}}
  <2>1. rows' = Updated(T, "Failed")
    BY <1>2 DEF FailQueued
  <2>2. r.token \notin T
    BY <1>0 DEF TokensTell
  <2> HIDE DEF T
  <2> QED
    BY <2>1, <2>2, UpdatedSpares
<1>3. \/ \E u \in Users, f \in Files, t \in PeerTokens : UpdateDownloadTokens(u, f, t)
      \/ \E u \in Users : FailQueued(u)
  BY UnmixedHas DEF LoopStep, CollectFailed, FailCollected, NothingPending
<1> QED
  BY <1>1, <1>2, <1>3

\* A thread that finds a row finds the one it owns.
LEMMA FindsItsOwn ==
    ASSUME IInv, TokensTell, Owned, NEW n \in DOMAIN threads, Seen(n) # {}
    PROVE  Live(First(Seen(n)))
<1>1. PICK r \in rows : r.id = threads[n].id /\ Live(r)
  BY DEF Owned
<1>2. First(Seen(n)) \in rows /\ First(Seen(n)).token = threads[n].token
  BY OfTokenFound DEF IInv, Seen
<1>3. First(Seen(n)) = r
  BY <1>1, <1>2 DEF TokensTell, IInv, Store
<1> QED
  BY <1>1, <1>3

LEMMA PromotesEnds ==
    ASSUME IInv, TokensTell, Owned, NEW n \in DOMAIN threads, Promotes(n)
    PROVE  Ends(n)
<1>1. ~Finished(First(Seen(n)))
  BY FindsItsOwn DEF Promotes, SeenAs, Live, Finished, Verdict
<1> QED
  BY <1>1 DEF Promotes

LEMMA ThreadsSpare ==
    ASSUME IInv, TokensTell, Owned, NEW n \in DOMAIN threads, Transfers(n),
           NEW m \in DOMAIN threads', m \in DOMAIN threads, NEW r \in rows, Live(r),
           r.id = threads[m].id
    PROVE  Survives(r)
<1>1. ASSUME NEW s, rows' = Updated({threads[n].token}, s), Ends(n)
      PROVE  Survives(r)
  <2>1. m # n
    BY <1>1 DEF Ends
  <2>2. r.token # threads[n].token
    BY <2>1 DEF TokensTell, IInv, Claimed, ClaimOnce
  <2> QED
    BY <1>1, <2>2, UpdatedSpares
<1>2. CASE Promotes(n)
  BY <1>1, <1>2, PromotesEnds DEF Promotes
<1>3. CASE Fails(n)
  BY <1>1, <1>3 DEF Fails
<1>4. CASE ~Promotes(n) /\ ~Fails(n)
  <2>1. UNCHANGED rows
    BY <1>4 DEF Transfers, LooksBeforeOpen, Looks, Reads, ReadsNothing, OpenPart,
                PeerCloses, StreamFails, CannotFinish, Discards, storeVars
  <2> QED
    BY <2>1 DEF Survives
<1> QED
  BY <1>2, <1>3, <1>4

LEMMA OwnedKept ==
    ASSUME Unmixed, IInv, TokensTell, NothingPending, Owned, [Next]_vars
    PROVE  Owned'
<1>0. Store /\ Running
  BY DEF IInv
<1> SUFFICES ASSUME NEW m \in DOMAIN threads'
             PROVE  \E q \in rows' : q.id = threads'[m].id /\ q.file = threads'[m].file /\ Live(q)
  BY DEF Owned, Live
<1>1. CASE Claims
  <2>1. PICK r \in rows, o \in Row : ClaimRow(r, o) /\ NewThread(r, started + 1)
    BY <1>1 DEF Claims
  <2>2. CASE m = started + 1
    BY <2>1, <2>2 DEF NewThread, ClaimRow, Same, Live
  <2>3. CASE m # started + 1
    <3>1. m \in DOMAIN threads /\ threads'[m] = threads[m]
      BY <2>1, <2>3 DEF NewThread
    <3>2. PICK q \in rows : q.id = threads[m].id /\ q.file = threads[m].file /\ Live(q)
      BY <3>1 DEF Owned
    <3> QED
      BY <2>1, <3>1, <3>2 DEF ClaimRow, Live
  <2> QED
    BY <2>2, <2>3
<1>2. CASE ~Claims
  <2>1. /\ m \in DOMAIN threads /\ threads'[m].id = threads[m].id
        /\ threads'[m].file = threads[m].file
    BY <1>0, <1>2, RowsStep DEF Rests, ThreadsKeep
  <2>2. PICK r \in rows : r.id = threads[m].id /\ r.file = threads[m].file /\ Live(r)
    BY <2>1 DEF Owned
  <2>3. Survives(r)
    <3>1. CASE UNCHANGED vars
      BY <2>2, <3>1 DEF vars, storeVars, Survives
    <3>2. CASE ThreadStep
      BY <1>0, <1>2, <2>1, <2>2, <3>2, ClaimClaims, ThreadsSpare DEF ThreadStep
    <3> QED
      BY <2>2, <3>1, <3>2, CallersSpare, LoopSpares DEF Next
  <2> QED
    BY <2>1, <2>2, <2>3 DEF Survives
<1> QED
  BY <1>1, <1>2
\* No two threads fetch one file.
LEMMA FilesApart ==
    ASSUME IInv, Owned, OneAtATime, NEW m \in DOMAIN threads, NEW n \in DOMAIN threads,
           threads[m].file = threads[n].file
    PROVE  m = n
<1>1. PICK r \in rows : r.id = threads[m].id /\ r.file = threads[m].file /\ Live(r)
  BY DEF Owned
<1>2. PICK q \in rows : q.id = threads[n].id /\ q.file = threads[n].file /\ Live(q)
  BY DEF Owned
<1>3. r = q
  BY <1>1, <1>2 DEF OneAtATime, Live, Finished, Verdict
<1> QED
  BY <1>1, <1>2, <1>3 DEF IInv, Claimed, ClaimOnce

LEMMA HandlesIn ==
    ASSUME IInv
    PROVE  /\ Len(content) \in Nat /\ DOMAIN content = 1..Len(content)
           /\ \A f \in Files : part[f] \in 0..Len(content)
           /\ DOMAIN part = Files
           /\ \A n \in DOMAIN threads :
                 /\ threads[n] \in Thread /\ threads[n].file \in Files
                 /\ threads[n].user \in Users /\ threads[n].written \in 0..Size
                 /\ threads[n].inode \in 0..Len(content)
<1>1. Len(content) \in Nat /\ DOMAIN content = 1..Len(content)
  BY ContentLength DEF IInv
<1> QED
  BY <1>1 DEF IInv, Disk, Running, Thread

LEMMA RestsPartials ==
    ASSUME IInv, Partials, DiskRests,
           \A n \in DOMAIN threads' : n \in DOMAIN threads =>
              threads'[n].file = threads[n].file /\ threads'[n].user = threads[n].user
    PROVE  Partials'
<1>1. UNCHANGED <<part, content>>
  BY DEF DiskRests, diskVars
<1>2. \A n \in DOMAIN threads' : threads'[n].inode # 0 =>
         /\ n \in DOMAIN threads /\ threads'[n].inode = threads[n].inode
         /\ threads'[n].written = threads[n].written
  BY DEF DiskRests
<1> QED
  BY <1>1, <1>2 DEF Partials

\* The chunk goes where it belongs, and into no partial but the thread's own.
LEMMA ReadingPartials ==
    ASSUME IInv, Partials, Owned, OneAtATime, NEW n \in DOMAIN threads, Reads(n)
    PROVE  Partials'
<1> DEFINE f == threads[n].file
           w == threads[n].written
           u == threads[n].user
           i == threads[n].inode
<1>1. i \in 1..Len(content) /\ w + 1 \in 1..Size /\ UNCHANGED part
  BY ReadsInto DEF IInv
<1>2. i # 0 /\ w \in Nat /\ f \in Files /\ u \in Users /\ w + 1 \in 0..Size
  BY <1>1, HandlesIn, Bounds
<1>3. i = part[f] /\ content[i] = Prefix(u, w)
  BY <1>2 DEF Partials
<1>4. content' = [content EXCEPT ![i] = Prefix(u, w + 1)]
  <2>1. Len(content[i]) = w
    BY <1>2, <1>3, PrefixIs
  <2>2. content' = [content EXCEPT ![i] = Written(content[i], w + 1, [user |-> u, at |-> w + 1])]
    BY <2>1 DEF Reads
  <2> QED
    BY <1>2, <1>3, <2>2, PrefixGrows
<1>5. /\ DOMAIN threads' = DOMAIN threads
      /\ \A m \in DOMAIN threads \ {n} : threads'[m] = threads[m]
      /\ threads'[n].inode = i /\ threads'[n].written = w + 1
      /\ threads'[n].file = f /\ threads'[n].user = u
  <2> DEFINE where == IF w + 1 >= Size THEN "finishing" ELSE "looking"
  <2>1. threads' = [threads EXCEPT ![n].written = w + 1, ![n].at = where]
    BY ReadsInto DEF IInv
  <2>2. threads[n] \in Thread
    BY HandlesIn
  <2> HIDE DEF where
  <2> QED
    BY <2>1, <2>2 DEF Thread
<1>6. content'[i] = Prefix(u, w + 1) /\ \A j \in DOMAIN content : j # i => content'[j] = content[j]
  BY <1>1, <1>4, HandlesIn
<1>7. \A g \in Files : part[g] # 0 /\ part[g] # i => content'[part[g]] = content[part[g]]
  BY <1>6, HandlesIn
<1>8. \A m \in DOMAIN threads \ {n} : threads[m].inode # 0 =>
         threads[m].inode = part[threads[m].file] /\ threads[m].inode # i
  BY <1>2, <1>3, FilesApart, HandlesIn DEF Partials
<1> HIDE DEF f, w, u, i
<1>9. \A g \in Files : part'[g] # 0 =>
         \E v \in Users, k \in 0..Size : content'[part'[g]] = Prefix(v, k)
  <2> SUFFICES ASSUME NEW g \in Files, part[g] # 0
               PROVE  \E v \in Users, k \in 0..Size : content'[part[g]] = Prefix(v, k)
    BY <1>1
  <2>1. CASE part[g] = i
    BY <1>2, <1>6, <2>1
  <2>2. CASE part[g] # i
    BY <1>7, <2>2 DEF Partials
  <2> QED
    BY <2>1, <2>2
<1>10. ASSUME NEW m \in DOMAIN threads', threads'[m].inode # 0
       PROVE  /\ threads'[m].inode = part'[threads'[m].file]
              /\ content'[threads'[m].inode] = Prefix(threads'[m].user, threads'[m].written)
  <2>1. CASE m = n
    BY <1>1, <1>3, <1>5, <1>6, <2>1
  <2>2. CASE m # n
    <3>1. /\ m \in DOMAIN threads /\ threads'[m] = threads[m] /\ threads[m].inode # 0
          /\ threads[m].inode = part[threads[m].file] /\ threads[m].inode # i
          /\ threads[m].file \in Files
      BY <1>5, <1>8, <1>10, <2>2, HandlesIn
    <3> QED
      BY <1>1, <1>7, <3>1 DEF Partials
  <2> QED
    BY <2>1, <2>2
<1> QED
  BY <1>1, <1>9, <1>10 DEF Partials

\* A partial that is resumed holds what it should; any other starts over.
LEMMA OpeningPartials ==
    ASSUME Unmixed, IInv, Partials, Owned, OneAtATime, NEW n \in DOMAIN threads,
           NEW sent \in BOOLEAN, OpenPart(n, sent)
    PROVE  Partials'
<1> DEFINE f == threads[n].file
           u == threads[n].user
           i == Inode(n)
           w == IF Resumes(n) THEN OnDisk(n) ELSE 0
<1>1. f \in Files /\ u \in Users /\ threads[n] \in Thread /\ part[f] \in 0..Len(content)
  BY HandlesIn
<1>2. /\ part' = [part EXCEPT ![f] = i]
      /\ content' = IF part[f] = 0 THEN Append(content, << >>)
                    ELSE IF Resumes(n) THEN content
                    ELSE [content EXCEPT ![i] = << >>]
  BY Opening
<1>3. i = (IF part[f] = 0 THEN Len(content) + 1 ELSE part[f]) /\ i # 0
  BY HandlesIn DEF Inode
<1>4. /\ DOMAIN threads' = DOMAIN threads
      /\ \A m \in DOMAIN threads \ {n} : threads'[m] = threads[m]
      /\ threads'[n].inode = i /\ threads'[n].written = w
      /\ threads'[n].file = f /\ threads'[n].user = u
  <2> DEFINE where == IF sent THEN "looking" ELSE "failing"
  <2>1. threads' = Reopened(n, where)
    BY Opening
  <2> HIDE DEF where
  <2> QED
    BY <1>1, <2>1 DEF Reopened, Thread
<1>5. w \in 0..Size
  BY Bounds, OnDiskIs DEF IInv
<1>6. /\ content'[i] = Prefix(u, w)
      /\ \A j \in 1..Len(content) : j # i => content'[j] = content[j]
  <2>1. CASE part[f] = 0
    <3>1. w = 0
      BY <2>1 DEF Resumes, OnDisk
    <3>2. content \in Seq(Data) /\ << >> \in Data
      BY EmptyData DEF IInv, Disk
    <3>3. content' = Append(content, << >>) /\ i = Len(content) + 1
      BY <1>2, <1>3, <2>1
    <3>4. content'[i] = << >> /\ \A j \in 1..Len(content) : content'[j] = content[j]
      BY <3>2, <3>3, AppendProperties
    <3> QED
      BY <3>1, <3>4, PrefixIs
  <2>2. CASE part[f] # 0 /\ Resumes(n)
    <3>1. i = part[f] /\ content' = content /\ w = Len(content[part[f]])
      BY <1>2, <1>3, <2>2 DEF OnDisk
    <3>2. PICK v \in Users, k \in 0..Size : content[part[f]] = Prefix(v, k)
      BY <1>1, <2>2 DEF Partials
    <3>3. v = u
      BY <1>1 DEF Unmixed
    <3>4. k \in Nat /\ Len(Prefix(v, k)) = k
      BY PrefixIs, Bounds
    <3>5. k = w
      BY <3>1, <3>2, <3>4
    <3> QED
      BY <3>1, <3>2, <3>3, <3>5
  <2>3. CASE part[f] # 0 /\ ~Resumes(n)
    <3>1. i = part[f] /\ content' = [content EXCEPT ![i] = << >>] /\ w = 0
      BY <1>2, <1>3, <2>3
    <3>2. i \in DOMAIN content
      BY <1>1, <2>3, <3>1, HandlesIn
    <3>3. content'[i] = << >> /\ \A j \in DOMAIN content : j # i => content'[j] = content[j]
      BY <3>1, <3>2
    <3> QED
      BY <3>1, <3>3, PrefixIs, HandlesIn
  <2> QED
    BY <2>1, <2>2, <2>3
<1>7. \A g \in Files : g # f /\ part[g] # 0 => part[g] # i /\ part[g] \in 1..Len(content)
  BY <1>1, <1>3, HandlesIn DEF Partials
<1>8. \A g \in Files : part'[g] = IF g = f THEN i ELSE part[g]
  BY <1>2, HandlesIn
<1>9. \A m \in DOMAIN threads \ {n} : threads[m].inode # 0 =>
         /\ threads[m].inode = part[threads[m].file] /\ threads[m].file # f
         /\ threads[m].file \in Files
  BY FilesApart, HandlesIn DEF Partials
<1> HIDE DEF f, u, i, w
<1>10. \A g, h \in Files : part'[g] = part'[h] /\ part'[g] # 0 => g = h
  BY <1>3, <1>7, <1>8 DEF Partials
<1>11. \A g \in Files : part'[g] # 0 =>
         \E v \in Users, k \in 0..Size : content'[part'[g]] = Prefix(v, k)
  <2> SUFFICES ASSUME NEW g \in Files, part'[g] # 0
               PROVE  \E v \in Users, k \in 0..Size : content'[part'[g]] = Prefix(v, k)
    OBVIOUS
  <2>1. CASE g = f
    BY <1>1, <1>5, <1>6, <1>8, <2>1
  <2>2. CASE g # f
    BY <1>6, <1>7, <1>8, <2>2 DEF Partials
  <2> QED
    BY <2>1, <2>2
<1>12. ASSUME NEW m \in DOMAIN threads', threads'[m].inode # 0
       PROVE  /\ threads'[m].inode = part'[threads'[m].file]
              /\ content'[threads'[m].inode] = Prefix(threads'[m].user, threads'[m].written)
  <2>1. CASE m = n
    BY <1>1, <1>4, <1>6, <1>8, <2>1
  <2>2. CASE m # n
    <3>1. /\ m \in DOMAIN threads /\ threads'[m] = threads[m] /\ threads[m].inode # 0
          /\ threads[m].inode = part[threads[m].file] /\ threads[m].file # f
          /\ threads[m].file \in Files
      BY <1>4, <1>9, <1>12, <2>2
    <3>2. content'[threads[m].inode] = content[threads[m].inode]
      BY <1>6, <1>7, <3>1
    <3> QED
      BY <1>8, <3>1, <3>2 DEF Partials
  <2> QED
    BY <2>1, <2>2
<1> QED
  BY <1>10, <1>11, <1>12 DEF Partials

LEMMA EndingPartials ==
    ASSUME IInv, Partials, Owned, OneAtATime, NEW n \in DOMAIN threads, Ends(n),
           part' = [part EXCEPT ![threads[n].file] = 0], UNCHANGED content
    PROVE  Partials'
<1> DEFINE f == threads[n].file
<1>1. f \in Files /\ \A g \in Files : part'[g] = IF g = f THEN 0 ELSE part[g]
  BY HandlesIn
<1>2. \A m \in DOMAIN threads' : m \in DOMAIN threads /\ m # n /\ threads'[m] = threads[m]
  BY DEF Ends
<1>3. \A m \in DOMAIN threads' : threads[m].file # f /\ threads[m].file \in Files
  BY <1>2, FilesApart, HandlesIn
<1> HIDE DEF f
<1> QED
  BY <1>1, <1>2, <1>3 DEF Partials

LEMMA PartialsKept ==
    ASSUME Unmixed, IInv, TokensTell, Sole, [Next]_vars
    PROVE  Partials'
<1>0. Store /\ Running /\ Disk /\ Partials /\ Owned /\ OneAtATime /\ NothingPending
  BY DEF IInv, Sole
<1>1. CASE UNCHANGED <<diskVars, threads>>
  <2>1. DiskRests
    BY <1>1 DEF DiskRests
  <2> QED
    BY <1>0, <1>1, <2>1, RestsPartials
<1>2. CASE Claims /\ UNCHANGED diskVars
  <2>1. PICK r \in rows : NewThread(r, started + 1)
    BY <1>2 DEF Claims
  <2>2. started + 1 \notin DOMAIN threads
    BY <1>0, Bounds DEF Running
  <2>3. DiskRests
    BY <1>2, <2>1, <2>2 DEF NewThread, DiskRests
  <2>4. \A n \in DOMAIN threads' : n \in DOMAIN threads => threads'[n] = threads[n]
    BY <2>1, <2>2 DEF NewThread
  <2> QED
    BY <1>0, <2>3, <2>4, RestsPartials
<1>3. ASSUME NEW n \in DOMAIN threads, Transfers(n)
      PROVE  Partials'
  <2>1. CASE Promotes(n) \/ Discards(n)
    <3>1. Ends(n) /\ part' = [part EXCEPT ![threads[n].file] = 0] /\ UNCHANGED content
      BY <1>0, <2>1, PromotesEnds DEF Promotes, Discards
    <3> QED
      BY <1>0, <3>1, EndingPartials
  <2>2. CASE ~Promotes(n) /\ ~Discards(n) /\ ~Reads(n) /\ \A sent \in BOOLEAN : ~OpenPart(n, sent)
    <3>1. DiskRests
      BY <1>0, <1>3, <2>2, OthersRest
    <3>2. ThreadsKeep
      BY <1>0, <1>3, TransfersKeep
    <3> QED
      BY <1>0, <3>1, <3>2, RestsPartials DEF ThreadsKeep
  <2> QED
    BY <1>0, <2>1, <2>2, ReadingPartials, OpeningPartials
<1>4. CASE CallerStep
  <2>1. UNCHANGED <<diskVars, threads>>
    BY <1>0, <1>4 DEF CallerStep, Download, DownloadDeclined, PauseByFile, ResumeByFile,
                CancelByFile, RemoveQueuedByFile, RemoveByFile, FailDeclined, NothingPending
  <2> QED
    BY <1>1, <2>1
<1>5. CASE LoopStep
  <2>1. UNCHANGED <<diskVars, threads>>
    BY <1>5 DEF LoopStep, UpdateDownloadTokens, FailQueued, CollectFailed, FailCollected
  <2> QED
    BY <1>1, <2>1
<1>6. CASE ThreadStep
  BY <1>0, <1>2, <1>3, <1>6, ClaimClaims DEF ThreadStep, Claim
<1> QED
  BY <1>1, <1>4, <1>5, <1>6 DEF Next, vars

LEMMA WholeKept ==
    ASSUME IInv, Sole, [Next]_vars
    PROVE  WholeFile'
<1>1. CASE UNCHANGED saved
  BY <1>1 DEF Sole, WholeFile
<1>2. CASE saved' # saved
  <2>1. PICK n \in DOMAIN threads : Promotes(n)
    BY <1>2, OnlyPromotingSaves
  <2> DEFINE f == threads[n].file
  <2>2. /\ saved' = [saved EXCEPT ![f] = content[part[f]]]
        /\ threads[n].written >= Size /\ threads[n].at = "finishing"
    BY <2>1 DEF Promotes
  <2>3. /\ f \in Files /\ threads[n].user \in Users /\ threads[n].written = Size
        /\ threads[n].inode # 0
    BY <2>2, HandlesIn, Bounds DEF IInv, Disk, Opened
  <2>4. content[part[f]] = Prefix(threads[n].user, Size)
    BY <2>3 DEF Sole, Partials
  <2>5. \A g \in Files : saved'[g] = IF g = f THEN Prefix(threads[n].user, Size) ELSE saved[g]
    BY <2>2, <2>4 DEF IInv, Disk
  <2> HIDE DEF f
  <2> SUFFICES ASSUME NEW g \in Files, saved'[g] # << >>
               PROVE  \E u \in Users : saved'[g] = Prefix(u, Size)
    BY DEF WholeFile, Prefix
  <2>6. CASE g = f
    BY <2>3, <2>5, <2>6
  <2>7. CASE g # f
    <3>1. saved'[g] = saved[g] /\ saved[g] # << >>
      BY <2>5, <2>7
    <3>2. \E u \in Users : saved[g] = Prefix(u, Size)
      BY <3>1 DEF Sole, WholeFile, Prefix
    <3> QED
      BY <3>1, <3>2
  <2> QED
    BY <2>6, <2>7
<1> QED
  BY <1>1, <1>2

\* However often a download from one peer is interrupted and resumed, what is
\* promoted in the end is the file: nothing missing, doubled or out of place.
THEOREM FilesAreWhole ==
    ASSUME Unmixed
    PROVE  Spec => []WholeFile
<1>1. Init => TokensTell /\ Sole
  <2>1. threads = << >> => DOMAIN threads = {}
    OBVIOUS
  <2> QED
    BY <2>1 DEF Init, TokensTell, Sole, NothingPending, OneAtATime, Owned, Partials, WholeFile
<1>2. IInv /\ TokensTell /\ Sole /\ [Next]_vars => TokensTell' /\ Sole'
  <2> SUFFICES ASSUME IInv, TokensTell, Sole, [Next]_vars
               PROVE  TokensTell' /\ Sole'
    OBVIOUS
  <2>1. NothingPending /\ OneAtATime /\ Owned
    BY DEF Sole
  <2>2. TokensTell'
    BY UnmixedHas, TokensKept
  <2>3. NothingPending' /\ OneAtATime' /\ Owned'
    BY <2>1, PendingStays, OneAtATimeKept, OwnedKept
  <2>4. Partials' /\ WholeFile'
    BY PartialsKept, WholeKept
  <2> QED
    BY <2>2, <2>3, <2>4 DEF Sole
<1>3. Sole => WholeFile
  BY DEF Sole
<1> QED
  BY <1>1, <1>2, <1>3, Invariant, PTL DEF Spec
=============================================================================
