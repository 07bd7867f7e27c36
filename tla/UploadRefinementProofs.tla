----------------------- MODULE UploadRefinementProofs -----------------------
(***************************************************************************)
(* UploadQueue implements SlotService, for any peers, files and bounds:    *)
(* the mapped initial state is initial, and from IInv every step is one of *)
(* the service's or leaves it alone.                                       *)
(***************************************************************************)
EXTENDS UploadRefinement, UploadQueueProofs

\* The service counts as we do: its Cardinality is the same definition.
LEMMA SameCardinality ==
    ASSUME NEW S
    PROVE  Service!Cardinality(S) = Cardinality(S)
BY Zenon DEF Service!Cardinality, Cardinality
-----------------------------------------------------------------------------
(* Waiting jobs and the service's waiters are the same, one for one. *)

LEMMA WaiterInjective ==
    ASSUME NEW q \in SUBSET Job, DistinctIn(q), NEW i \in q, NEW j \in q,
           WaiterOf(i) = WaiterOf(j)
    PROVE  i = j
<1>1. WaiterOf(i).number = i.seq /\ WaiterOf(j).number = j.seq BY DEF WaiterOf
<1>2. QED BY <1>1 DEF DistinctIn

(* The service ranks waiters as the queue ranks jobs. *)
LEMMA SameOrder ==
    ASSUME NEW i \in Job, NEW j \in Job
    PROVE  Service!GoesBefore(WaiterOf(i), WaiterOf(j)) <=> Before(i, j)
<1>1. i.privileged \in BOOLEAN /\ j.privileged \in BOOLEAN BY DEF Job
<1>2. /\ WaiterOf(i).donor = i.privileged /\ WaiterOf(i).number = i.seq
      /\ WaiterOf(j).donor = j.privileged /\ WaiterOf(j).number = j.seq
  BY DEF WaiterOf
<1>3. Service!GoesBefore(WaiterOf(i), WaiterOf(j)) <=>
        IF i.privileged = j.privileged THEN i.seq < j.seq ELSE i.privileged
  BY <1>2 DEF Service!GoesBefore
<1>4. QED BY <1>1, <1>3, Zenon DEF Before

LEMMA WaiterCount ==
    ASSUME IInv, NEW S \in SUBSET queue
    PROVE  Cardinality({WaiterOf(j) : j \in S}) = Cardinality(S)
<1> DEFINE W == {WaiterOf(j) : j \in S}
           f == [j \in S |-> WaiterOf(j)]
<1>1. queue \in SUBSET Job /\ DistinctIn(queue) /\ IsFiniteSet(queue)
  BY DEF IInv, TypeOK, DistinctSeq, DistinctIn
<1>2. IsFiniteSet(S) BY <1>1, FS_Subset
<1>3. f \in Surjection(S, W) BY DEF Surjection
<1>4. \A i, j \in S : f[i] = f[j] => i = j BY <1>1, WaiterInjective
<1>5. f \in Bijection(S, W) BY <1>3, <1>4 DEF Bijection, Injection, IsInjective, Surjection
<1>6. ExistsBijection(S, W) BY <1>5 DEF ExistsBijection
<1>7. QED BY <1>2, <1>6, FS_Bijection

(* A waiter's turn is its place in the queue, counted from 0. *)
LEMMA TurnIsPlace ==
    ASSUME IInv, NEW j \in queue
    PROVE  Service!Turn(WaiterOf(j)) = Place(queue, j) - 1
<1>1. queue \in SUBSET Job /\ IsFiniteSet(queue) BY DEF IInv, TypeOK
<1>2. {w \in Waiters : Service!GoesBefore(w, WaiterOf(j))}
        = {WaiterOf(i) : i \in Ahead(queue, j)}
  <2>1. \A i \in queue :
            Service!GoesBefore(WaiterOf(i), WaiterOf(j)) <=> i \in Ahead(queue, j)
    BY <1>1, SameOrder DEF Ahead
  <2>2. Ahead(queue, j) \subseteq queue BY DEF Ahead
  <2>3. QED BY <2>1, <2>2 DEF Waiters
<1>3. Ahead(queue, j) \in SUBSET queue BY DEF Ahead
<1>4. Service!Turn(WaiterOf(j)) = Cardinality(Ahead(queue, j))
  BY <1>2, <1>3, WaiterCount, SameCardinality DEF Service!Turn
<1>5. Cardinality(Ahead(queue, j)) \in Nat BY <1>1, PlaceNat
<1>6. QED BY <1>4, <1>5 DEF Place
-----------------------------------------------------------------------------
(* Slots in flight and the service's holders are as many. *)

\* The holder a token stands for, wherever it is.
HolderAt(t) ==
    IF t \in DOMAIN uploads THEN HolderOf(uploads, t) ELSE HolderOf(active, t)

Held == DOMAIN uploads \cup InProgress

LEMMA HoldersByToken ==
    ASSUME OneLedger
    PROVE  Holders = {HolderAt(t) : t \in Held}
<1>1. \A t \in DOMAIN uploads : HolderAt(t) = HolderOf(uploads, t) BY DEF HolderAt
<1>2. \A t \in InProgress : t \notin DOMAIN uploads BY DEF OneLedger, InProgress
<1>3. \A t \in InProgress : HolderAt(t) = HolderOf(active, t)
  BY <1>2 DEF HolderAt
<1>4. QED BY <1>1, <1>3 DEF Holders, Held

LEMMA HolderCount ==
    ASSUME IInv
    PROVE  Cardinality(Holders) = InFlight
<1> DEFINE f == [t \in Held |-> HolderAt(t)]
<1>1. OneLedger BY DEF IInv
<1>2. /\ IsFiniteSet(DOMAIN uploads) /\ Cardinality(DOMAIN uploads) \in Nat
      /\ IsFiniteSet(InProgress) /\ Cardinality(InProgress) \in Nat
  BY UploadsFinite DEF IInv
<1>3. DOMAIN uploads \cap InProgress = {} BY <1>1 DEF OneLedger, InProgress
<1>4. Cardinality({}) = 0 BY FS_EmptySet
<1>5. IsFiniteSet(Held) /\ Cardinality(Held) = InFlight
  <2>1. /\ IsFiniteSet(Held)
        /\ Cardinality(Held) = Cardinality(DOMAIN uploads)
             + Cardinality(InProgress) - Cardinality(DOMAIN uploads \cap InProgress)
    BY <1>2, FS_Union DEF Held
  <2>2. Cardinality(DOMAIN uploads \cap InProgress) = 0 BY <1>3, <1>4
  <2>3. QED BY <1>2, <2>1, <2>2 DEF InFlight
<1>6. f \in Surjection(Held, Holders) BY <1>1, HoldersByToken DEF Surjection
<1>7. \A t \in Held : HolderAt(t).ticket = t BY DEF HolderAt, HolderOf
<1>8. \A t, v \in Held : f[t] = f[v] => t = v BY <1>7
<1>9. f \in Bijection(Held, Holders)
  BY <1>6, <1>8 DEF Bijection, Injection, IsInjective, Surjection
<1>10. ExistsBijection(Held, Holders) BY <1>9 DEF ExistsBijection
<1>11. QED BY <1>5, <1>10, FS_Bijection

LEMMA FreeSlots ==
    ASSUME IInv
    PROVE  Service!Free = IF InFlight < slots THEN slots - InFlight ELSE 0
BY HolderCount, SameCardinality DEF Service!Free
-----------------------------------------------------------------------------
(* What the helpers do, seen from the service. *)

\* A step the service does not see.
Unseen == Waiters' = Waiters /\ Holders' = Holders
            /\ UNCHANGED <<seq, nextToken, slots>>

LEMMA QuietHolders ==
    ASSUME UNCHANGED <<uploads, active>>
    PROVE  Holders' = Holders
BY DEF Holders, HolderOf, InProgress

LEMMA QuietWaiters ==
    ASSUME UNCHANGED queue
    PROVE  Waiters' = Waiters
BY DEF Waiters

(* Starting the stream moves a holder between our tables and changes nothing  *)
(* about it.                                                                  *)
LEMMA SpawnHolders ==
    ASSUME IInv, NEW S, SpawnServe(S)
    PROVE  Holders' = Holders
<1> DEFINE moved == S \cap DOMAIN uploads
<1>1. DOMAIN uploads \cap DOMAIN active = {} BY DEF IInv, OneLedger
<1>2. DOMAIN uploads' = DOMAIN uploads \ moved
      /\ \A t \in DOMAIN uploads' : uploads'[t] = uploads[t]
  BY DEF SpawnServe
<1>3. DOMAIN active' = DOMAIN active \cup moved BY DEF SpawnServe
<1>4. ASSUME NEW t \in moved
      PROVE  /\ active'[t].user = uploads[t].user
             /\ active'[t].file = uploads[t].file
             /\ active'[t].status = "InProgress"
  BY DEF SpawnServe
<1>5. \A t \in DOMAIN active : active'[t] = active[t] BY <1>1 DEF SpawnServe
<1>6. InProgress' = InProgress \cup moved
  <2>1. \A t \in moved : t \in DOMAIN active' /\ active'[t].status = "InProgress"
    BY <1>3, <1>4
  <2>2. \A t \in DOMAIN active : t \notin moved BY <1>1
  <2>3. QED BY <1>3, <1>5, <2>1, <2>2 DEF InProgress
<1>7. \A t \in DOMAIN uploads \ moved :
        HolderOf(uploads, t)' = HolderOf(uploads, t)
  BY <1>2 DEF HolderOf
<1>8. \A t \in InProgress : HolderOf(active, t)' = HolderOf(active, t)
  BY <1>5 DEF HolderOf, InProgress
<1>9. \A t \in moved : HolderOf(active, t)' = HolderOf(uploads, t)
  BY <1>4 DEF HolderOf
<1>10. moved \subseteq DOMAIN uploads OBVIOUS
<1> HIDE DEF moved
<1>11. Holders' = {HolderOf(uploads, t)' : t \in DOMAIN uploads'}
                    \cup {HolderOf(active, t)' : t \in InProgress'}
  BY DEF Holders
<1>12. QED
  BY <1>2, <1>6, <1>7, <1>8, <1>9, <1>10, <1>11 DEF Holders

(* Dropping offers returns their slots and no other. *)
LEMMA DropHolders ==
    ASSUME NEW S, DropUploads(S), UNCHANGED active
    PROVE  /\ Holders' \subseteq Holders
           /\ \A h \in Holders \ Holders' :
                 \E t \in S \cap DOMAIN uploads : h.client = uploads[t].user
<1>1. DOMAIN uploads' = DOMAIN uploads \ S
      /\ \A t \in DOMAIN uploads' : uploads'[t] = uploads[t]
  BY DEF DropUploads
<1>2. \A t \in DOMAIN uploads \ S : HolderOf(uploads, t)' = HolderOf(uploads, t)
  BY <1>1 DEF HolderOf
<1>3. {HolderOf(active, t) : t \in InProgress}'
        = {HolderOf(active, t) : t \in InProgress}
  BY DEF HolderOf, InProgress
<1>4. Holders' = {HolderOf(uploads, t) : t \in DOMAIN uploads \ S}
                   \cup {HolderOf(active, t) : t \in InProgress}
  BY <1>1, <1>2, <1>3 DEF Holders
<1>5. \A t \in DOMAIN uploads : HolderOf(uploads, t).client = uploads[t].user
  BY DEF HolderOf
<1>6. QED BY <1>4, <1>5 DEF Holders

(* Answering an offer does not change who holds the slot. *)
LEMMA MarkHolders ==
    ASSUME IInv, NEW t \in DOMAIN uploads,
           uploads' = [uploads EXCEPT ![t].offered = FALSE], UNCHANGED active
    PROVE  Holders' = Holders
<1>1. DOMAIN uploads' = DOMAIN uploads OBVIOUS
<1>2. \A v \in DOMAIN uploads :
        uploads'[v].user = uploads[v].user /\ uploads'[v].file = uploads[v].file
  BY DEF IInv, TypeOK, Offer
<1>3. \A v \in DOMAIN uploads : HolderOf(uploads, v)' = HolderOf(uploads, v)
  BY <1>2 DEF HolderOf
<1>4. {HolderOf(active, v) : v \in InProgress}'
        = {HolderOf(active, v) : v \in InProgress}
  BY DEF HolderOf, InProgress
<1>5. QED BY <1>1, <1>3, <1>4 DEF Holders

(* A stream that ends returns a slot, and no other is touched. *)
LEMMA EndHolders ==
    ASSUME IInv, NEW t, NEW status \in Outcomes, ServeEnds(t, status)
    PROVE  Holders' \subseteq Holders
<1>1. active \in [DOMAIN active -> Upload] /\ t \in DOMAIN active
      /\ uploads' = uploads /\ active' = [active EXCEPT ![t].status = status]
  BY DEF IInv, TypeOK, ServeEnds, InProgress
<1>2. status # "InProgress" BY UploadConstants
<1>3. DOMAIN active' = DOMAIN active BY <1>1
<1>4. ASSUME NEW v \in InProgress'
      PROVE  v \in InProgress /\ HolderOf(active, v)' = HolderOf(active, v)
  <2>1. v \in DOMAIN active /\ active'[v].status = "InProgress"
    BY <1>3 DEF InProgress
  <2>2. active'[t].status = status BY <1>1 DEF Upload
  <2>3. v # t BY <1>2, <2>1, <2>2
  <2>4. active'[v] = active[v] BY <1>1, <2>1, <2>3
  <2>5. QED BY <2>1, <2>4 DEF InProgress, HolderOf
<1>5. {HolderOf(uploads, v) : v \in DOMAIN uploads}'
        = {HolderOf(uploads, v) : v \in DOMAIN uploads}
  BY <1>1 DEF HolderOf
<1>6. Holders' = {HolderOf(uploads, v) : v \in DOMAIN uploads}'
                   \cup {HolderOf(active, v)' : v \in InProgress'}
  BY DEF Holders
<1>7. QED BY <1>4, <1>5, <1>6 DEF Holders

(* Asking a stream to stop does not stop it. *)
LEMMA CancelHolders ==
    ASSUME IInv, NEW u, NEW f, CancelUpload(u, f)
    PROVE  Holders' = Holders
<1> DEFINE hit == {t \in InProgress : active[t].user = u /\ active[t].file = f}
<1>1. active \in [DOMAIN active -> Upload] BY DEF IInv, TypeOK
<1>2. uploads' = uploads
      /\ active' = [t \in DOMAIN active |->
                        IF t \in hit THEN [active[t] EXCEPT !.cancel = TRUE]
                        ELSE active[t]]
  BY DEF CancelUpload
<1>3. ASSUME NEW t \in DOMAIN active
      PROVE  /\ active'[t].status = active[t].status
             /\ active'[t].user = active[t].user
             /\ active'[t].file = active[t].file
  BY <1>1, <1>2 DEF Upload
<1>4. DOMAIN active' = DOMAIN active BY <1>2
<1>5. InProgress' = InProgress BY <1>3, <1>4 DEF InProgress
<1>6. \A t \in InProgress : HolderOf(active, t)' = HolderOf(active, t)
  BY <1>3 DEF HolderOf, InProgress
<1>7. {HolderOf(uploads, t) : t \in DOMAIN uploads}'
        = {HolderOf(uploads, t) : t \in DOMAIN uploads}
  BY <1>2 DEF HolderOf
<1>8. QED BY <1>5, <1>6, <1>7 DEF Holders
-----------------------------------------------------------------------------
(* A pump is a Grant, or nothing when no slot is free or nobody waits. *)

Granted == {WaiterOf(j) : j \in Served}

\* Those a pump takes are those whose turn it is.
LEMMA ServedInTurn ==
    ASSUME IInv
    PROVE  {w \in Waiters : Service!Turn(w) < Service!Free} = Granted
<1>1. ASSUME NEW j \in queue
      PROVE  Service!Turn(WaiterOf(j)) < Service!Free <=> j \in Served
  <2>1. IsFiniteSet(queue) BY DEF IInv, TypeOK
  <2>2. Place(queue, j) \in Nat \ {0} BY <2>1, PlaceNat
  <2>3. InFlight \in Nat /\ slots \in Int BY UploadsFinite DEF IInv, TypeOK
  <2>4. Service!Turn(WaiterOf(j)) = Place(queue, j) - 1 BY TurnIsPlace
  <2>5. Service!Free = IF InFlight < slots THEN slots - InFlight ELSE 0
    BY FreeSlots
  <2>6. Service!Turn(WaiterOf(j)) < Service!Free
          <=> Place(queue, j) <= slots - InFlight
    BY <2>2, <2>3, <2>4, <2>5
  <2>7. QED BY <2>6 DEF Served, Best
<1>2. Served \subseteq queue BY DEF Served, Best
<1>3. QED BY <1>1, <1>2 DEF Waiters, Granted

\* Each takes the token of its turn, and what was held stays as it was.
LEMMA PumpHolders ==
    ASSUME IInv, PumpUploads, UNCHANGED active
    PROVE  Holders' = Holders \cup
             {[client |-> w.client, good |-> w.good,
               ticket |-> nextToken + Service!Turn(w)] : w \in Granted}
<1> DEFINE grantOf(w) == [client |-> w.client, good |-> w.good,
                          ticket |-> nextToken + Service!Turn(w)]
<1>1. DOMAIN uploads' = DOMAIN uploads \cup Minted BY PumpTables
<1>2. Minted \cap DOMAIN uploads = {}
  <2>1. Minted \in SUBSET (nextToken..(nextToken + Cardinality(Served) - 1))
        /\ Cardinality(Served) \in Nat
    BY ServedFacts
  <2>2. DOMAIN uploads \in SUBSET (0..(nextToken - 1)) /\ nextToken \in Nat
    BY DEF IInv, TypeOK
  <2>3. QED BY <2>1, <2>2
<1>3. \A t \in DOMAIN uploads : HolderOf(uploads, t)' = HolderOf(uploads, t)
  BY <1>1 DEF PumpUploads, HolderOf
<1>4. queue \in SUBSET Job /\ IsFiniteSet(queue) /\ DistinctIn(queue)
      /\ nextToken \in Nat
  BY DEF IInv, TypeOK, DistinctSeq, DistinctIn
<1>5. Served \subseteq queue BY DEF Served, Best
<1>6. ASSUME NEW j \in Served, NEW t, t = TokenOf(j)
      PROVE  HolderOf(uploads, t)' = grantOf(WaiterOf(j))
  <2> DEFINE job == CHOOSE i \in Served : TokenOf(i) = t
  <2>1. t \in Minted /\ t \notin DOMAIN uploads BY <1>2, <1>6 DEF Minted
  <2>2. job \in Served /\ TokenOf(job) = t BY <1>6
  <2>3. uploads'[t] = [user |-> job.user, file |-> job.file, offered |-> TRUE]
    BY <1>1, <2>1 DEF PumpUploads
  <2> HIDE DEF job
  <2>4. Place(queue, job) \in Nat /\ Place(queue, j) \in Nat BY <1>4, PlaceNat
  <2>5. job = j
    <3>1. Place(queue, job) = Place(queue, j)
      BY <1>4, <1>6, <2>2, <2>4 DEF TokenOf
    <3>2. QED BY <1>4, <1>5, <2>2, <3>1, PlaceInjective
  <2>6. t = nextToken + Service!Turn(WaiterOf(j))
    <3>1. Service!Turn(WaiterOf(j)) = Place(queue, j) - 1
      BY <1>5, TurnIsPlace
    <3>2. QED BY <1>4, <1>6, <2>4, <3>1 DEF TokenOf
  <2>7. uploads'[t].user = j.user /\ uploads'[t].file = j.file BY <2>3, <2>5
  <2>8. WaiterOf(j).client = j.user /\ WaiterOf(j).good = j.file BY DEF WaiterOf
  <2>9. QED BY <2>6, <2>7, <2>8 DEF HolderOf
<1> HIDE DEF grantOf
<1>7. {HolderOf(uploads, t)' : t \in Minted} = {grantOf(w) : w \in Granted}
  BY <1>6 DEF Minted, Granted
<1>8. {HolderOf(active, t) : t \in InProgress}'
        = {HolderOf(active, t) : t \in InProgress}
  BY DEF HolderOf, InProgress
<1>9. Holders' = {HolderOf(uploads, t)' : t \in DOMAIN uploads'}
                   \cup {HolderOf(active, t) : t \in InProgress}'
  BY DEF Holders
<1>10. Holders' = Holders \cup {grantOf(w) : w \in Granted}
  BY <1>1, <1>3, <1>7, <1>8, <1>9 DEF Holders
<1>11. QED BY <1>10 DEF grantOf

LEMMA PumpGrants ==
    ASSUME IInv, PumpUploads, UNCHANGED <<seq, slots, active>>
    PROVE  Service!Grant \/ Unseen
<1>1. queue \in SUBSET Job /\ DistinctIn(queue) /\ nextToken \in Nat
  BY DEF IInv, TypeOK, DistinctSeq, DistinctIn
<1>2. Served \in SUBSET queue /\ IsFiniteSet(Served) BY ServedFacts
<1>3. Waiters' = Waiters \ Granted
  <2>1. queue' = queue \ Served BY DEF PumpUploads
  <2>2. Waiters' = {WaiterOf(j) : j \in queue'} BY DEF Waiters, WaiterOf
  <2>3. \A i, j \in queue : WaiterOf(i) = WaiterOf(j) => i = j
    BY <1>1, WaiterInjective
  <2>4. QED BY <1>2, <2>1, <2>2, <2>3 DEF Waiters, Granted
<1>4. Service!Cardinality(Granted) = Cardinality(Served)
  BY <1>2, WaiterCount, SameCardinality DEF Granted
<1>5. nextToken' = nextToken + Cardinality(Served) BY DEF PumpUploads
<1>6. CASE Granted = {}
  <2>1. Served = {} BY <1>6 DEF Granted
  <2>2. Cardinality(Served) = 0 BY <2>1, FS_EmptySet
  <2>3. nextToken' = nextToken BY <1>1, <1>5, <2>2
  <2>4. Waiters' = Waiters BY <1>3, <1>6
  <2>5. Holders' = Holders BY <1>6, PumpHolders
  <2>6. QED BY <2>3, <2>4, <2>5 DEF Unseen
<1>7. CASE Granted # {}
  BY <1>3, <1>4, <1>5, <1>7, PumpHolders, ServedInTurn DEF Service!Grant
<1>8. QED BY <1>6, <1>7
-----------------------------------------------------------------------------
(* The other steps the service sees. *)

LEMMA RequestAsks ==
    ASSUME NEW u \in Users, NEW f \in Files, QueueUpload(u, f)
    PROVE  \E donor \in BOOLEAN : Service!Ask(u, f, donor)
<1> DEFINE job == [user |-> u, file |-> f, privileged |-> u \in privileged,
                   seq |-> seq']
<1>1. /\ seq' = seq + 1 /\ queue' = queue \cup {job}
      /\ UNCHANGED <<slots, slotVars>>
  BY DEF QueueUpload
<1>2. Holders' = Holders BY <1>1, QuietHolders DEF slotVars
<1>3. WaiterOf(job) = [client |-> u, good |-> f, number |-> seq',
                       donor |-> u \in privileged]
  BY DEF WaiterOf
<1>4. Waiters' = {WaiterOf(j) : j \in queue'} BY DEF Waiters, WaiterOf
<1> HIDE DEF job
<1>5. Waiters' = Waiters \cup {[client |-> u, good |-> f, number |-> seq',
                                donor |-> u \in privileged]}
  BY <1>1, <1>3, <1>4 DEF Waiters
<1>6. (u \in privileged) \in BOOLEAN OBVIOUS
<1>7. Service!Ask(u, f, u \in privileged)
  BY <1>1, <1>2, <1>5 DEF Service!Ask, slotVars
<1>8. QED BY <1>6, <1>7

LEMMA ListRegrades ==
    ASSUME IInv, NEW S \in PrivilegedLists, SetPrivilegedUsers(S)
    PROVE  \E donors \in SUBSET Users : Service!Regrade(donors)
<1> DEFINE again(j) == [j EXCEPT !.privileged = j.user \in S]
           regraded(w) == [w EXCEPT !.donor = w.client \in S]
<1>1. /\ queue' = {again(j) : j \in queue}
      /\ UNCHANGED <<seq, slots, slotVars>>
  BY DEF SetPrivilegedUsers
<1>2. S \in SUBSET Users BY UploadConstants
<1>3. Holders' = Holders BY <1>1, QuietHolders DEF slotVars
<1>4. Waiters' = {WaiterOf(j) : j \in queue'} BY DEF Waiters, WaiterOf
<1>5. ASSUME NEW j \in queue
      PROVE  WaiterOf(again(j)) = regraded(WaiterOf(j))
  <2>1. j \in [user : Users, file : Files, privileged : BOOLEAN, seq : Nat]
    BY DEF IInv, TypeOK, Job
  <2>2. again(j) = [user |-> j.user, file |-> j.file,
                    privileged |-> j.user \in S, seq |-> j.seq]
    BY <2>1
  <2>3. WaiterOf(again(j)) = [client |-> j.user, good |-> j.file,
                              number |-> j.seq, donor |-> j.user \in S]
    BY <2>2 DEF WaiterOf
  <2>4. WaiterOf(j) = [client |-> j.user, good |-> j.file,
                       number |-> j.seq, donor |-> j.privileged]
    BY DEF WaiterOf
  <2>5. regraded(WaiterOf(j)) = [client |-> j.user, good |-> j.file,
                                 number |-> j.seq, donor |-> j.user \in S]
    BY <2>4
  <2>6. QED BY <2>3, <2>5
<1> HIDE DEF again, regraded
<1>6. Waiters' = {regraded(w) : w \in Waiters}
  BY <1>1, <1>4, <1>5 DEF Waiters
<1>7. Service!Regrade(S)
  BY <1>1, <1>3, <1>6 DEF Service!Regrade, regraded, slotVars
<1>8. QED BY <1>2, <1>7

LEMMA FailureWithdraws ==
    ASSUME IInv, PeerFailed
    PROVE  \E u \in Users : Service!Withdraw(u)
<1> DEFINE u == Head(channel).user
           jobs == {j \in queue : j.user = u}
           held == {t \in DOMAIN uploads : uploads[t].user = u}
<1>1. /\ Takes("PeerDisconnected")
      /\ queue' = queue \ jobs
      /\ DropUploads(held)
      /\ UNCHANGED <<seq, slots, active, nextToken>>
  BY DEF PeerFailed
<1>2. u \in Users
  <2>1. Head(channel) \in Operation
    BY <1>1, TakesRest DEF IInv, TypeOK, RestOK
  <2>2. Head(channel).op = "PeerDisconnected" BY <1>1 DEF Takes
  <2>3. QED BY <2>1, <2>2 DEF Operation
<1> HIDE DEF u
<1>3. Waiters' = {w \in Waiters : w.client # u}
  <2>1. Waiters' = {WaiterOf(j) : j \in queue'} BY DEF Waiters, WaiterOf
  <2>2. \A j \in queue : WaiterOf(j).client = j.user BY DEF WaiterOf
  <2>3. QED BY <1>1, <2>1, <2>2 DEF Waiters
<1>4. /\ Holders' \subseteq Holders
      /\ \A h \in Holders \ Holders' :
            \E t \in held \cap DOMAIN uploads : h.client = uploads[t].user
  BY <1>1, DropHolders
<1>5. \A h \in Holders \ Holders' : h.client = u BY <1>4
<1>6. Service!Withdraw(u) BY <1>1, <1>3, <1>4, <1>5 DEF Service!Withdraw
<1>7. QED BY <1>2, <1>6

\* Fewer holders and nothing else: slots came back, or nothing happened.
LEMMA FewerReturn ==
    ASSUME Waiters' = Waiters, Holders' \subseteq Holders,
           UNCHANGED <<seq, nextToken, slots>>
    PROVE  Service!Return \/ Unseen
BY DEF Service!Return, Unseen
-----------------------------------------------------------------------------
(* The simulation. *)

LEMMA StartsAsService == Init => Service!Init
<1> SUFFICES ASSUME Init PROVE Service!Init
  OBVIOUS
<1>1. queue = {} /\ DOMAIN uploads = {} /\ DOMAIN active = {} BY DEF Init
<1>2. Waiters = {} BY <1>1 DEF Waiters
<1>3. Holders = {} BY <1>1 DEF Holders, InProgress
<1>4. slots \in Nat \ {0} BY UploadConstants DEF Init
<1>5. QED BY <1>2, <1>3, <1>4 DEF Init, Service!Init

LEMMA StepsAsService ==
    ASSUME IInv, Next
    PROVE  Service!Next \/ Unseen
<1>1. CASE LoopPumps \/ \E t \in ended : ThreadPumps(t)
  <2>1. PumpUploads /\ UNCHANGED <<seq, slots, active>>
    BY <1>1 DEF LoopPumps, ThreadPumps
  <2>2. QED BY <2>1, PumpGrants DEF Service!Next
<1>2. CASE \E u \in Users, f \in Files : QueueUpload(u, f)
  BY <1>2, RequestAsks DEF Service!Next
<1>3. CASE \E S \in PrivilegedLists : SetPrivilegedUsers(S)
  BY <1>3, ListRegrades DEF Service!Next
<1>4. CASE \E c \in DOMAIN uploads : SweepStaleOffers(c)
  <2>1. PICK c \in DOMAIN uploads : SweepStaleOffers(c) BY <1>4
  <2>2. PICK stale : DropUploads(stale) BY <2>1 DEF SweepStaleOffers
  <2>3. UNCHANGED <<jobVars, slots, active, nextToken>>
    BY <2>1 DEF SweepStaleOffers
  <2>4. Holders' \subseteq Holders BY <2>2, <2>3, DropHolders
  <2>5. Waiters' = Waiters BY <2>3, QuietWaiters DEF jobVars
  <2>6. Service!Return \/ Unseen BY <2>3, <2>4, <2>5, FewerReturn DEF jobVars
  <2>7. QED BY <2>6 DEF Service!Next
<1>5. CASE StartUploadKnown \/ \E u \in Users : AddressKnown(u)
  <2>1. PICK S : SpawnServe(S) BY <1>5 DEF StartUploadKnown, AddressKnown
  <2>2. UNCHANGED <<jobVars, slots, nextToken>>
    BY <1>5 DEF StartUploadKnown, AddressKnown
  <2>3. QED BY <2>1, <2>2, SpawnHolders, QuietWaiters DEF Unseen, jobVars
<1>6. CASE StartUploadUnknown
  BY <1>6, MarkHolders, QuietWaiters DEF StartUploadUnknown, Unseen, jobVars
<1>7. CASE PeerFailed BY <1>7, FailureWithdraws DEF Service!Next
<1>8. CASE StartUploadGone \/ PeerClosed
  BY <1>8, QuietHolders, QuietWaiters
  DEF StartUploadGone, PeerClosed, Unseen, jobVars, slotVars
<1>9. CASE \E u \in Users : AddressUnknown(u)
  BY <1>9, QuietHolders, QuietWaiters
  DEF AddressUnknown, Unseen, jobVars, slotVars
<1>10. CASE ActorStep
  BY <1>10, QuietHolders, QuietWaiters
  DEF ActorStep, ActorStarts, ActorEnds, ServeUpload, TransferResponse,
      Unseen, jobVars, slotVars
<1>11. CASE \E t \in DOMAIN active, status \in Outcomes : ServeEnds(t, status)
  <2>1. PICK t \in DOMAIN active, status \in Outcomes : ServeEnds(t, status)
    BY <1>11
  <2>2. UNCHANGED <<jobVars, slots, nextToken>> BY <2>1 DEF ServeEnds
  <2>3. Holders' \subseteq Holders BY <2>1, EndHolders
  <2>4. Waiters' = Waiters BY <2>2, QuietWaiters DEF jobVars
  <2>5. Service!Return \/ Unseen BY <2>2, <2>3, <2>4, FewerReturn DEF jobVars
  <2>6. QED BY <2>5 DEF Service!Next
<1>12. CASE \E u \in Users, f \in Files : CancelUpload(u, f)
  BY <1>12, CancelHolders, QuietWaiters DEF CancelUpload, Unseen, jobVars
<1>13. CASE \E n \in 1..MaxSlots : SetUploadSlots(n)
  <2>1. PICK n \in 1..MaxSlots : SetUploadSlots(n) BY <1>13
  <2>2. slots' \in Nat \ {0} BY <2>1, UploadConstants DEF SetUploadSlots
  <2>3. UNCHANGED <<jobVars, slotVars>> BY <2>1 DEF SetUploadSlots
  <2>4. Service!Resize
    BY <2>2, <2>3, QuietHolders, QuietWaiters
    DEF Service!Resize, jobVars, slotVars
  <2>5. QED BY <2>4 DEF Service!Next
<1>14. QED
  BY <1>1, <1>2, <1>3, <1>4, <1>5, <1>6, <1>7, <1>8, <1>9, <1>10, <1>11,
     <1>12, <1>13
  DEF Next, LoopStep, TakesOperation, ThreadStep

(* The queue of upload_queue.rs, pumped by the operations loop and by ending    *)
(* threads, keeps the promise of SlotService for any peers, files and bounds.   *)
THEOREM Refinement == Spec => ImplementsSlotService
<1>1. Init => Service!Init BY StartsAsService
<1>2. IInv /\ [Next]_vars => [Service!Next]_(Service!vars)
  <2> SUFFICES ASSUME IInv, [Next]_vars, ~Service!Next
               PROVE  UNCHANGED Service!vars
    OBVIOUS
  <2>1. CASE Next BY <2>1, StepsAsService DEF Unseen, Service!vars
  <2>2. CASE UNCHANGED vars
    BY <2>2, QuietHolders, QuietWaiters DEF vars, jobVars, slotVars, Service!vars
  <2>3. QED BY <2>1, <2>2
<1>3. QED BY <1>1, <1>2, Invariant, PTL DEF Spec, Service!Spec, ImplementsSlotService
=============================================================================
