----------------------------- MODULE Downloads -----------------------------
(***************************************************************************)
(* Files we fetch: the download store, the threads that stream into .part  *)
(* files, the operations loop and the callers of the API, all meeting      *)
(* under the ClientContext lock (download_store.rs, client/downloads.rs,   *)
(* peer/download_peer.rs, operations/transfers.rs, peer/listen.rs).        *)
(*                                                                         *)
(* One action is one section under the lock or one effect on the disk.     *)
(* Bytes are counted in chunks; a chunk is named by the peer it came from  *)
(* and its place in that peer's file.  A remote path is its basename:      *)
(* every download goes to the one download directory.                      *)
(***************************************************************************)
EXTENDS Integers, FiniteSets, Sequences

CONSTANTS
    Users,          \* the peers we download from
    Files,          \* names of the files they share
    Size,           \* chunks in a file
    MaxDownloads,   \* bound: calls of download
    PeerTokens,     \* bound: the tokens peers put in their TransferRequests
    MaxThreads,     \* bound: transfer threads started
    Calls,          \* what callers do besides downloading
    Mishaps         \* what peers do besides offering each file once, or
                    \* "unreachable": there is no way to ask them

ASSUME DownloadConstants ==
    /\ Size \in Nat /\ MaxDownloads \in Nat /\ MaxThreads \in Nat
    /\ PeerTokens \subseteq Nat /\ PeerTokens \cap 0..MaxDownloads = {}
    /\ Calls \subseteq {"pause", "cancel", "remove", "twice"}
    /\ Mishaps \subseteq {"repeated token", "second offer", "refusal", "unreachable"}

VARIABLES
    rows,       \* the store, a Vec: pos orders it, id is the caller's channel
    minted,     \* NEXT_DOWNLOAD_TOKEN: downloads asked for so far
    spent,      \* tokens peers have offered with
    told,       \* id -> verdicts sent on the caller's status channel
    collected,  \* tokens the loop has told of a failure and not yet failed
    declined,   \* tokens a caller has told of a failure and not yet failed
    unlinking,  \* files whose .part a cancelling caller has yet to remove
    threads,    \* transfer threads: thread -> its copy of the row and progress
    started,    \* threads started so far
    part,       \* file -> inode behind its .part, 0 if there is none
    content,    \* inode -> the chunks in it
    saved       \* file -> what was last promoted to the final path

storeVars == <<rows, minted, spent>>
pendVars  == <<collected, declined, unlinking>>
diskVars  == <<part, content, saved>>
vars == <<storeVars, told, pendVars, threads, started, diskVars>>

Ids      == 1..MaxDownloads
Verdict  == {"Completed", "Cancelled", "Failed"}
Status   == {"Queued", "InProgress", "Paused"} \cup Verdict
Row      == [id : Ids, pos : Nat, user : Users, file : Files, token : Nat,
             status : Status]
Chunk    == [user : Users, at : 1..Size]
Hole     == [user |-> "nobody", at |-> 0]
-----------------------------------------------------------------------------
(* The store. *)

Finished(r) == r.status \in Verdict

\* Vec::iter().find: of several rows, the one that was pushed first.
First(S) == CHOOSE r \in S : \A q \in S : r.pos <= q.pos

OfToken(t)   == {r \in rows : r.token = t}
OfFile(u, f) == {r \in rows : r.user = u /\ r.file = f}

\* add: a finished row of the same file makes way, the new one goes last.
Added(r) ==
    LET kept == {q \in rows : ~(Finished(q) /\ q.user = r.user /\ q.file = r.file)}
        last == IF kept = {} THEN 0
                ELSE CHOOSE p \in {q.pos : q \in kept} : \A q \in kept : q.pos <= p
    IN  kept \cup {[r EXCEPT !.pos = last + 1]}

With(r, s) == (rows \ {r}) \cup {[r EXCEPT !.status = s]}

\* Mutant (of Reached): a verdict may be replaced.
ReachedAnyhow(T) == {r \in rows : r.token \in T /\ r = First(OfToken(r.token))}

\* update_status(t, s) for each t of T; the first row of a token answers for it,
\* and a verdict is never replaced.
Reached(T) == {r \in rows : r.token \in T /\ r = First(OfToken(r.token))
                                          /\ ~Finished(r)}
Updated(T, s) ==
    (rows \ Reached(T)) \cup {[r EXCEPT !.status = s] : r \in Reached(T)}

Tell(S, v) == told' = [i \in Ids |-> IF i \in S THEN told[i] \cup {v} ELSE told[i]]

IdsOf(R) == {r.id : r \in R}

LoopFree == collected = {}

Init ==
    /\ rows = {} /\ minted = 0 /\ spent = {}
    /\ told = [i \in Ids |-> {}]
    /\ collected = {} /\ declined = {} /\ unlinking = {}
    /\ threads = << >> /\ started = 0
    /\ part = [f \in Files |-> 0] /\ content = << >>
    /\ saved = [f \in Files |-> << >>]
-----------------------------------------------------------------------------
(* Callers of the API. *)

NewRow(u, f) == [id |-> minted + 1, pos |-> 0, user |-> u, file |-> f,
                 token |-> minted + 1, status |-> "Queued"]

\* Nothing but the callers' own restraint keeps a file from being asked for
\* while an earlier download of it is unfinished.
MayAsk(u, f) ==
    /\ minted < MaxDownloads
    /\ (\E r \in OfFile(u, f) : ~Finished(r)) => "twice" \in Calls

Download(u, f) ==
    /\ MayAsk(u, f)
    /\ minted' = minted + 1
    /\ rows' = Added(NewRow(u, f))
    /\ UNCHANGED <<spent, told, pendVars, threads, started, diskVars>>

\* No way to ask the peer: the caller is told at once, the row fails later.
DownloadDeclined(u, f) ==
    /\ "unreachable" \in Mishaps
    /\ MayAsk(u, f)
    /\ minted' = minted + 1
    /\ rows' = Added(NewRow(u, f))
    /\ Tell({minted'}, "Failed")
    /\ declined' = declined \cup {minted'}
    /\ UNCHANGED <<spent, collected, unlinking, threads, started, diskVars>>

FailDeclined(t) ==
    /\ t \in declined
    /\ declined' = declined \ {t}
    /\ rows' = Updated({t}, "Failed")
    /\ UNCHANGED <<minted, spent, told, collected, unlinking, threads, started,
                   diskVars>>

PauseByFile(u, f) ==
    LET r == First(OfFile(u, f))
    IN  /\ "pause" \in Calls
        /\ OfFile(u, f) # {} /\ r.status = "InProgress"
        /\ rows' = With(r, "Paused")
        /\ UNCHANGED <<minted, spent, told, pendVars, threads, started, diskVars>>

ResumeByFile(u, f) ==
    LET r == First(OfFile(u, f))
    IN  /\ "pause" \in Calls
        /\ OfFile(u, f) # {} /\ r.status = "Paused"
        /\ rows' = With(r, "InProgress")
        /\ UNCHANGED <<minted, spent, told, pendVars, threads, started, diskVars>>

\* cancel_download: under the lock the verdict, after it the .part.
CancelByFile(u, f) ==
    LET r == First(OfFile(u, f))
    IN  /\ "cancel" \in Calls
        /\ OfFile(u, f) # {} /\ ~Finished(r)
        /\ rows' = With(r, "Cancelled")
        /\ Tell({r.id}, "Cancelled")
        /\ unlinking' = unlinking \cup {f}
        /\ UNCHANGED <<minted, spent, collected, declined, threads, started,
                       diskVars>>

CancelUnlinks(f) ==
    /\ f \in unlinking
    /\ unlinking' = unlinking \ {f}
    /\ part' = [part EXCEPT ![f] = 0]
    /\ UNCHANGED <<storeVars, told, collected, declined, threads, started,
                   content, saved>>

RemoveQueuedByFile(u, f) ==
    LET queued == {r \in OfFile(u, f) : r.status = "Queued"}
    IN  /\ "remove" \in Calls
        /\ queued # {}
        /\ rows' = rows \ {First(queued)}
        /\ UNCHANGED <<minted, spent, told, pendVars, threads, started, diskVars>>

\* Whatever their status; the row's thread only learns of it from its absence.
RemoveByFile(u, f) ==
    /\ "remove" \in Calls
    /\ OfFile(u, f) # {}
    /\ rows' = rows \ OfFile(u, f)
    /\ UNCHANGED <<minted, spent, told, pendVars, threads, started, diskVars>>
-----------------------------------------------------------------------------
(* The operations loop. *)

\* UpdateDownloadTokens: the peer offers the file under a token of its own.  A
\* row already claimed, or already finished, moves to that token as it is.
UpdateDownloadTokens(u, f, t) ==
    LET r == First(OfFile(u, f))
    IN  /\ LoopFree
        /\ OfFile(u, f) # {} /\ r.status # "Cancelled"
        /\ t \in spent => "repeated token" \in Mishaps
        /\ r.status \in {"InProgress", "Paused"} => "second offer" \in Mishaps
        /\ spent' = spent \cup {t}
        /\ rows' = {q \in Added([r EXCEPT !.token = t]) : q.token # r.token}
        /\ UNCHANGED <<minted, told, pendVars, threads, started, diskVars>>

\* fail_queued_downloads: the peer could not be reached.
FailQueued(u) ==
    LET queued == {r \in rows : r.user = u /\ r.status = "Queued"}
    IN  /\ LoopFree
        /\ queued # {}
        /\ Tell(IdsOf(queued), "Failed")
        /\ rows' = Updated({r.token : r \in queued}, "Failed")
        /\ UNCHANGED <<minted, spent, pendVars, threads, started, diskVars>>

\* process_failed_uploads: told under the read lock (of one file the peer
\* refused, or of all when its connection failed) ...
CollectFailed(u, F) ==
    LET queued == {r \in rows : r.user = u /\ r.file \in F /\ r.status = "Queued"}
    IN  /\ "refusal" \in Mishaps
        /\ LoopFree
        /\ queued # {}
        /\ Tell(IdsOf(queued), "Failed")
        /\ collected' = {r.token : r \in queued}
        /\ UNCHANGED <<storeVars, declined, unlinking, threads, started, diskVars>>

\* ... failed and removed under the write lock, whatever they are by then.
FailCollected ==
    /\ collected # {}
    /\ collected' = {}
    /\ rows' = {r \in rows : r.token \notin collected}
    /\ UNCHANGED <<minted, spent, told, declined, unlinking, threads, started,
                   diskVars>>

\* Mutant: a row being streamed can be claimed again.
ClaimableAgain(u, t) ==
    /\ OfToken(t) # {}
    /\ First(OfToken(t)).user = u
    /\ ~Finished(First(OfToken(t)))

\* claim_for_peer: the row must be u's and still queued.
Claimable(u, t) ==
    /\ OfToken(t) # {}
    /\ First(OfToken(t)).user = u
    /\ First(OfToken(t)).status = "Queued"

\* A file connection with u starts a thread if its token can be claimed.  The
\* loop claims before it dials, the listener when the peer has connected, the
\* dialler of an F connection when the peer has sent the token.
Claim(u, t) ==
    LET r == First(OfToken(t))
    IN  /\ started < MaxThreads
        /\ Claimable(u, t)
        /\ rows' = With(r, "InProgress")
        /\ started' = started + 1
        /\ threads' = [n \in DOMAIN threads \cup {started'} |->
                         IF n = started'
                         THEN [id |-> r.id, user |-> u, file |-> r.file,
                               token |-> t, at |-> "claimed", inode |-> 0,
                               append |-> FALSE, written |-> 0]
                         ELSE threads[n]]
        /\ UNCHANGED <<minted, spent, told, pendVars, diskVars>>
-----------------------------------------------------------------------------
(* A transfer thread.  It looks its row up by token at every turn. *)

Seen(n) == OfToken(threads[n].token)
SeenAs(n, S) == Seen(n) # {} /\ First(Seen(n)).status \in S
Goes(n, where) == threads' = [threads EXCEPT ![n].at = where]
Ends(n) == threads' = [m \in DOMAIN threads \ {n} |-> threads[m]]

\* wait_while_paused at the head of the transfer, before the .part is opened.
LooksBeforeOpen(n) ==
    /\ threads[n].at = "claimed"
    /\ \/ SeenAs(n, Status \ {"Cancelled", "Paused"}) /\ Goes(n, "opening")
       \/ SeenAs(n, {"Cancelled"}) /\ Ends(n)
       \/ Seen(n) = {} /\ Goes(n, "failing")
    /\ UNCHANGED <<storeVars, told, pendVars, started, diskVars>>

\* Mutants: an absent .part is not created; a resumed one is asked for from zero.
OpenPartAbsent(n, sent) ==
    LET f == threads[n].file
    IN  /\ threads[n].at = "opening"
        /\ threads' = [threads EXCEPT
                         ![n].at = IF sent THEN "looking" ELSE "failing",
                         ![n].inode = IF part[f] = 0 THEN Len(content) + 1 ELSE part[f]]
        /\ UNCHANGED <<storeVars, told, pendVars, started, diskVars>>

OpenPartFromZero(n, sent) ==
    LET f     == threads[n].file
        inode == IF part[f] = 0 THEN Len(content) + 1 ELSE part[f]
    IN  /\ threads[n].at = "opening"
        /\ part' = [part EXCEPT ![f] = inode]
        /\ content' = IF part[f] = 0 THEN Append(content, << >>) ELSE content
        /\ threads' = [threads EXCEPT
                         ![n].at = IF sent THEN "looking" ELSE "failing",
                         ![n].inode = inode, ![n].append = TRUE, ![n].written = 0]
        /\ UNCHANGED <<storeVars, told, pendVars, started, saved>>

\* PartFile::open: a shorter .part is resumed, any other starts over; then the
\* offset goes to the peer, which may already be gone.
OpenPart(n, sent) ==
    LET f      == threads[n].file
        old    == part[f]
        onDisk == IF old = 0 THEN 0 ELSE Len(content[old])
        resume == onDisk > 0 /\ onDisk < Size
        inode  == IF old = 0 THEN Len(content) + 1 ELSE old
    IN  /\ threads[n].at = "opening"
        /\ part' = [part EXCEPT ![f] = inode]
        /\ content' = IF old = 0 THEN Append(content, << >>)
                      ELSE IF resume THEN content
                      ELSE [content EXCEPT ![inode] = << >>]
        /\ threads' = [threads EXCEPT ![n].at = IF sent THEN "looking" ELSE "failing",
                                      ![n].inode = inode,
                                      ![n].append = resume,
                                      ![n].written = IF resume THEN onDisk ELSE 0]
        /\ UNCHANGED <<storeVars, told, pendVars, started, saved>>

\* The head of the read loop.
Looks(n) ==
    /\ threads[n].at = "looking"
    /\ \/ /\ SeenAs(n, Status \ {"Cancelled", "Paused"})
          /\ Goes(n, IF threads[n].written >= Size THEN "finishing" ELSE "reading")
       \/ SeenAs(n, {"Cancelled"}) /\ Goes(n, "discarding")
       \/ Seen(n) = {} /\ Goes(n, "failing")
    /\ UNCHANGED <<storeVars, told, pendVars, started, diskVars>>

\* One write: at the end of a .part opened to append, else at the thread's own
\* offset, beyond the end if somebody truncated it meanwhile.
Written(c, p, x) ==
    [i \in 1..(IF p > Len(c) THEN p ELSE Len(c)) |->
        IF i = p THEN x ELSE IF i <= Len(c) THEN c[i] ELSE Hole]

Reads(n) ==
    LET th == threads[n]
        c  == content[th.inode]
        p  == IF th.append THEN Len(c) + 1 ELSE th.written + 1
        x  == [user |-> th.user, at |-> th.written + 1]
    IN  /\ th.at = "reading"
        /\ content' = [content EXCEPT ![th.inode] = Written(c, p, x)]
        /\ threads' = [threads EXCEPT
                         ![n].written = @ + 1,
                         ![n].at = IF th.written + 1 >= Size THEN "finishing"
                                   ELSE "looking"]
        /\ UNCHANGED <<storeVars, told, pendVars, started, part, saved>>

\* Nothing came for a second, the peer closed, or the socket failed.
ReadsNothing(n) ==
    /\ threads[n].at = "reading"
    /\ Goes(n, "looking")
    /\ UNCHANGED <<storeVars, told, pendVars, started, diskVars>>

\* Mutant: the end of the stream is taken for a pause in it.
PeerClosesUnseen(n) ==
    /\ threads[n].at = "reading"
    /\ Goes(n, "looking")
    /\ UNCHANGED <<storeVars, told, pendVars, started, diskVars>>

PeerCloses(n) ==
    /\ threads[n].at = "reading"
    /\ Goes(n, "finishing")
    /\ UNCHANGED <<storeVars, told, pendVars, started, diskVars>>

StreamFails(n) ==
    /\ threads[n].at \in {"claimed", "opening", "reading"}
    /\ Goes(n, "failing")
    /\ UNCHANGED <<storeVars, told, pendVars, started, diskVars>>

\* Mutant: the row is not looked at again before the rename.
PromotesBlindly(n) ==
    LET th == threads[n]
    IN  /\ th.at = "finishing"
        /\ Seen(n) # {} /\ th.written >= Size /\ part[th.file] # 0
        /\ saved' = [saved EXCEPT ![th.file] = content[part[th.file]]]
        /\ part' = [part EXCEPT ![th.file] = 0]
        /\ rows' = Updated({th.token}, "Completed")
        /\ Ends(n) /\ Tell({th.id}, "Completed")
        /\ UNCHANGED <<minted, spent, pendVars, started, content>>

\* finish_transfer: look, promote and publish under one write lock.
Promotes(n) ==
    LET th == threads[n]
    IN  /\ th.at = "finishing"
        /\ SeenAs(n, Status \ {"Cancelled", "Paused"})
        /\ th.written >= Size
        /\ part[th.file] # 0
        /\ saved' = [saved EXCEPT ![th.file] = content[part[th.file]]]
        /\ part' = [part EXCEPT ![th.file] = 0]
        /\ rows' = Updated({th.token}, "Completed")
        /\ IF Finished(First(Seen(n)))
           THEN Goes(n, "failing") /\ UNCHANGED told
           ELSE Ends(n) /\ Tell({th.id}, "Completed")
        /\ UNCHANGED <<minted, spent, pendVars, started, content>>

CannotFinish(n) ==
    LET th == threads[n]
    IN  /\ th.at = "finishing"
        /\ \/ SeenAs(n, {"Cancelled"}) /\ Goes(n, "discarding")
           \/ Seen(n) = {} /\ Goes(n, "failing")
           \/ /\ SeenAs(n, Status \ {"Cancelled", "Paused"})
              /\ th.written < Size \/ part[th.file] = 0
              /\ Goes(n, "failing")
        /\ UNCHANGED <<storeVars, told, pendVars, started, diskVars>>

Discards(n) ==
    /\ threads[n].at = "discarding"
    /\ part' = [part EXCEPT ![threads[n].file] = 0]
    /\ Ends(n)
    /\ UNCHANGED <<storeVars, told, pendVars, started, content, saved>>

\* Mutant: a thread that fails tells nobody.
FailsQuietly(n) ==
    /\ threads[n].at = "failing"
    /\ Ends(n)
    /\ UNCHANGED <<storeVars, told, pendVars, started, diskVars>>

\* send_download_status: whoever owns the token fails, if it still can.
Fails(n) ==
    LET th == threads[n]
    IN  /\ th.at = "failing"
        /\ Ends(n)
        /\ rows' = Updated({th.token}, "Failed")
        /\ IF SeenAs(n, Status \ Verdict) THEN Tell({th.id}, "Failed")
                                          ELSE UNCHANGED told
        /\ UNCHANGED <<minted, spent, pendVars, started, diskVars>>
-----------------------------------------------------------------------------
CallerStep ==
    \/ \E u \in Users, f \in Files :
          \/ Download(u, f) \/ DownloadDeclined(u, f)
          \/ PauseByFile(u, f) \/ ResumeByFile(u, f) \/ CancelByFile(u, f)
          \/ RemoveQueuedByFile(u, f) \/ RemoveByFile(u, f)
    \/ \E t \in declined : FailDeclined(t)
    \/ \E f \in unlinking : CancelUnlinks(f)

LoopStep ==
    \/ \E u \in Users, f \in Files, t \in PeerTokens : UpdateDownloadTokens(u, f, t)
    \/ \E u \in Users : FailQueued(u)
    \/ \E u \in Users, F \in {{f} : f \in Files} \cup {Files} : CollectFailed(u, F)
    \/ FailCollected

Transfers(n) ==
    \/ LooksBeforeOpen(n) \/ Looks(n) \/ Reads(n) \/ ReadsNothing(n)
    \/ \E sent \in BOOLEAN : OpenPart(n, sent)
    \/ PeerCloses(n) \/ StreamFails(n)
    \/ Promotes(n) \/ CannotFinish(n) \/ Discards(n) \/ Fails(n)

ThreadStep ==
    \/ \E u \in Users, r \in rows : Claim(u, r.token)
    \/ \E n \in DOMAIN threads : Transfers(n)

Next == CallerStep \/ LoopStep \/ ThreadStep

Spec == Init /\ [][Next]_vars

(* Threads run.  A peer that sends nothing is given up on after thirty seconds, *)
(* and one that sends has only so much to send.                                 *)
Fairness ==
    \A n \in 1..MaxThreads :
        /\ WF_vars(n \in DOMAIN threads /\ Transfers(n))
        /\ SF_vars(n \in DOMAIN threads
                     /\ (Reads(n) \/ PeerCloses(n) \/ StreamFails(n)))

FairSpec == Spec /\ Fairness
-----------------------------------------------------------------------------
(* Properties. *)

(* Every table has its type; positions and threads are told apart. *)
TypeOK ==
    /\ rows \in SUBSET Row
    /\ \A r, q \in rows : r.pos = q.pos => r = q
    /\ minted \in 0..MaxDownloads
    /\ spent \in SUBSET PeerTokens
    /\ told \in [Ids -> SUBSET Verdict]
    /\ collected \in SUBSET Nat /\ declined \in SUBSET Nat
    /\ unlinking \in SUBSET Files
    /\ DOMAIN threads \in SUBSET (1..started)
    /\ \A n \in DOMAIN threads :
          /\ threads[n].id \in Ids /\ threads[n].file \in Files
          /\ threads[n].inode \in 0..Len(content)
          /\ threads[n].written \in 0..Size
    /\ started \in 0..MaxThreads
    /\ part \in [Files -> 0..Len(content)]
    /\ \A i \in DOMAIN content : content[i] \in Seq(Chunk \cup {Hole})

(* However often a peer answers, and in whichever direction its connections    *)
(* come, one download is never streamed by two threads.                        *)
ClaimOnce ==
    \A m, n \in DOMAIN threads : threads[m].id = threads[n].id => m = n

(* What a download came to is never taken back, by a late thread, a late       *)
(* notice or a new offer.                                                      *)
VerdictStays ==
    [][\A r \in rows, q \in rows' :
          r.id = q.id /\ Finished(r) => q.status = r.status]_vars

Leaves(n) == ~(n \in DOMAIN threads' /\ threads'[n] = threads[n])

(* A cancelled download is never promoted to its final path: cancelling comes  *)
(* first and discards, or completing comes first and cancelling is refused.    *)
CancelHolds ==
    [][\A n \in DOMAIN threads :
          threads[n].at = "finishing" /\ Leaves(n) /\ saved' # saved
             => "Cancelled" \notin told'[threads[n].id]]_vars

(* A download interrupted and resumed, however often, ends up whole: no chunk  *)
(* is missing, doubled or out of place.                                        *)
WholeFile ==
    \A f \in Files : saved[f] # << >> =>
        \E u \in Users : saved[f] = [k \in 1..Size |-> [user |-> u, at |-> k]]

(* A row that says it is being transferred is: some thread will still settle it. *)
NoOrphan ==
    \A r \in rows : r.status \in {"InProgress", "Paused"} =>
        \E n \in DOMAIN threads : /\ threads[n].id = r.id
                                  /\ threads[n].token = r.token

(* A transfer that is not left paused reaches a verdict.                       *)
TransfersSettle ==
    \A i \in Ids :
        (\E r \in rows : r.id = i /\ r.status = "InProgress")
            ~> ~(\E r \in rows : r.id = i /\ r.status = "InProgress")

(* An unfinished download that nobody removes and nobody was told about does   *)
(* not vanish from the store.                                                  *)
NothingVanishes ==
    [][\A r \in rows :
          told[r.id] = {} /\ ~Finished(r) => r.id \in IdsOf(rows')]_vars

(* Two transfers never write one partial: a file downloaded again after it was *)
(* cancelled has the partial to itself.                                        *)
Writes(n) == threads[n].at = "reading"
OneWriter ==
    \A m, n \in DOMAIN threads :
        Writes(m) /\ Writes(n) /\ threads[m].inode = threads[n].inode => m = n

(* A transfer the peer announced, under a token it offered, never runs for a    *)
(* caller that was already told it failed.                                     *)
NoTransferAfterFailure ==
    \A n \in DOMAIN threads :
        threads[n].token \in spent => "Failed" \notin told[threads[n].id]
=============================================================================
