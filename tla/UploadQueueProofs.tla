------------------------- MODULE UploadQueueProofs -------------------------
(***************************************************************************)
(* What TLAPS proves of UploadQueue, for any peers, files and bounds.      *)
(***************************************************************************)
EXTENDS UploadQueue, FiniteSetTheorems, WellFoundedInduction, TLAPS

\* Arrival numbers tell the waiting jobs apart.
DistinctSeq == \A i, j \in queue : i.seq = j.seq => i = j

SeqBound == \A j \in queue : j.seq <= seq

(* The inductive invariant.  SlotBound needs OneLedger (a token counted in    *)
(* both tables would be counted twice when it moves), OneLedger needs the     *)
(* freshness of tokens that TypeOK states, and the bound on what one pump     *)
(* takes needs distinct arrival numbers.                                      *)
IInv == TypeOK /\ DistinctSeq /\ SeqBound /\ OneLedger /\ SlotBound
-----------------------------------------------------------------------------
(* Ranking. *)

DistinctIn(q) == \A i, j \in q : i.seq = j.seq => i = j

LEMMA BeforeTotal ==
    ASSUME NEW q \in SUBSET Job, DistinctIn(q), NEW i \in q, NEW j \in q, i # j
    PROVE  Before(i, j) \/ Before(j, i)
<1>1. i.seq # j.seq BY DEF DistinctIn
<1>2. i.seq \in Nat /\ j.seq \in Nat BY DEF Job
<1>3. i.privileged \in BOOLEAN /\ j.privileged \in BOOLEAN BY DEF Job
<1>4. i.seq < j.seq \/ j.seq < i.seq BY <1>1, <1>2
<1>5. QED BY <1>3, <1>4, Zenon DEF Before

LEMMA BeforeTransitive ==
    ASSUME NEW h \in Job, NEW i \in Job, NEW j \in Job,
           Before(h, i), Before(i, j)
    PROVE  Before(h, j)
<1>1. h.seq \in Nat /\ i.seq \in Nat /\ j.seq \in Nat BY DEF Job
<1>2. h.seq < i.seq /\ i.seq < j.seq => h.seq < j.seq BY <1>1
<1>3. QED BY <1>2, Zenon DEF Before

LEMMA BeforeIrreflexive ==
    ASSUME NEW i \in Job
    PROVE  ~Before(i, i)
<1>1. i.seq \in Nat BY DEF Job
<1>2. ~(i.seq < i.seq) BY <1>1
<1>3. QED BY <1>2, Zenon DEF Before

LEMMA PlaceNat ==
    ASSUME NEW q, IsFiniteSet(q), NEW j
    PROVE  /\ IsFiniteSet(Ahead(q, j))
           /\ Cardinality(Ahead(q, j)) \in Nat
           /\ Place(q, j) \in Nat \ {0}
<1>1. Ahead(q, j) \in SUBSET q BY DEF Ahead
<1>2. IsFiniteSet(Ahead(q, j)) BY <1>1, FS_Subset
<1>3. Cardinality(Ahead(q, j)) \in Nat BY <1>2, FS_CardinalityType
<1>4. QED BY <1>2, <1>3 DEF Place

(* Whoever comes before j has a smaller place. *)
LEMMA PlaceMonotone ==
    ASSUME NEW q \in SUBSET Job, IsFiniteSet(q), NEW i \in q, NEW j \in q,
           Before(i, j)
    PROVE  Place(q, i) < Place(q, j)
<1> DEFINE A == Ahead(q, i)
           B == Ahead(q, j)
<1>1. i \in Job /\ j \in Job OBVIOUS
<1>2. i \notin A BY <1>1, BeforeIrreflexive DEF Ahead
<1>3. A \cup {i} \in SUBSET B
  <2>1. i \in B BY DEF Ahead
  <2>2. ASSUME NEW h \in A PROVE h \in B
    <3>1. h \in q /\ Before(h, i) BY DEF Ahead
    <3>2. h \in Job BY <3>1
    <3>3. Before(h, j) BY <1>1, <3>1, <3>2, BeforeTransitive
    <3>4. QED BY <3>1, <3>3 DEF Ahead
  <2>3. QED BY <2>1, <2>2
<1>4. IsFiniteSet(A) /\ Cardinality(A) \in Nat BY PlaceNat
<1>5. IsFiniteSet(B) /\ Cardinality(B) \in Nat BY PlaceNat
<1>6. Cardinality(A \cup {i}) = Cardinality(A) + 1
  BY <1>2, <1>4, FS_AddElement
<1>7. Cardinality(A \cup {i}) <= Cardinality(B) BY <1>3, <1>5, FS_Subset
<1>8. Cardinality(A) < Cardinality(B) BY <1>4, <1>5, <1>6, <1>7
<1>9. QED BY <1>4, <1>5, <1>8 DEF Place

(* Each waiting job has a place of its own. *)
LEMMA PlaceInjective ==
    ASSUME NEW q \in SUBSET Job, IsFiniteSet(q), DistinctIn(q),
           NEW i \in q, NEW j \in q, i # j
    PROVE  Place(q, i) # Place(q, j)
<1>1. Place(q, i) \in Nat /\ Place(q, j) \in Nat BY PlaceNat
<1>2. CASE Before(i, j) BY <1>1, <1>2, PlaceMonotone
<1>3. CASE Before(j, i) BY <1>1, <1>3, PlaceMonotone
<1>4. QED BY <1>2, <1>3, BeforeTotal

(* A pump that has n slots to fill takes at most n jobs. *)
LEMMA BestBound ==
    ASSUME NEW q \in SUBSET Job, IsFiniteSet(q), DistinctIn(q), NEW n \in Int
    PROVE  /\ IsFiniteSet(Best(q, n))
           /\ Cardinality(Best(q, n)) \in Nat
           /\ Cardinality(Best(q, n)) <= IF n < 0 THEN 0 ELSE n
<1> DEFINE S == Best(q, n)
           f == [j \in S |-> Place(q, j)]
<1>1. S \in SUBSET q BY DEF Best
<1>2. IsFiniteSet(S) /\ Cardinality(S) \in Nat
  BY <1>1, FS_Subset, FS_CardinalityType
<1>3. \A j \in S : Place(q, j) \in 1..n BY PlaceNat DEF Best
<1>4. f \in [S -> 1..n] BY <1>3
<1>5. \A i, j \in S : f[i] = f[j] => i = j BY <1>1, PlaceInjective
<1>6. f \in Injection(S, 1..n) BY <1>4, <1>5 DEF Injection, IsInjective
<1>7. IsFiniteSet(1..n) /\ Cardinality(1..n) = IF 1 > n THEN 0 ELSE n - 1 + 1
  BY FS_Interval
<1>8. Cardinality(S) <= Cardinality(1..n) BY <1>6, <1>7, FS_Injection
<1>9. QED BY <1>2, <1>7, <1>8

(* Those taken have the places from 1 on, with none left out. *)
LEMMA BestPlaces ==
    ASSUME NEW q \in SUBSET Job, IsFiniteSet(q), DistinctIn(q), NEW n \in Int,
           NEW j \in Best(q, n)
    PROVE  Place(q, j) \in 1..Cardinality(Best(q, n))
<1> DEFINE S == Best(q, n)
           A == Ahead(q, j)
<1>1. j \in q /\ Place(q, j) <= n BY DEF Best
<1>2. j \in Job BY <1>1
<1>3. IsFiniteSet(A) /\ Cardinality(A) \in Nat /\ Place(q, j) \in Nat \ {0}
  BY PlaceNat
<1>4. IsFiniteSet(S) /\ Cardinality(S) \in Nat BY BestBound
<1>5. j \notin A BY <1>2, BeforeIrreflexive DEF Ahead
<1>6. A \cup {j} \in SUBSET S
  <2>1. ASSUME NEW i \in A PROVE i \in S
    <3>1. i \in q /\ Before(i, j) BY DEF Ahead
    <3>2. Place(q, i) < Place(q, j) BY <1>1, <3>1, PlaceMonotone
    <3>3. Place(q, i) \in Nat BY PlaceNat
    <3>4. Place(q, i) <= n BY <1>1, <1>3, <3>2, <3>3
    <3>5. QED BY <3>1, <3>4 DEF Best
  <2>2. QED BY <2>1
<1>7. Cardinality(A \cup {j}) = Cardinality(A) + 1
  BY <1>3, <1>5, FS_AddElement
<1>8. Cardinality(A \cup {j}) <= Cardinality(S) BY <1>4, <1>6, FS_Subset
<1>9. QED BY <1>3, <1>4, <1>7, <1>8 DEF Place
-----------------------------------------------------------------------------
(* What the helpers do to the tables. *)

\* The tokens one pump mints.
Minted == {TokenOf(j) : j \in Served}

LEMMA UploadsFinite ==
    ASSUME TypeOK
    PROVE  /\ IsFiniteSet(DOMAIN uploads) /\ Cardinality(DOMAIN uploads) \in Nat
           /\ IsFiniteSet(InProgress) /\ Cardinality(InProgress) \in Nat
           /\ InFlight \in Nat
<1>1. nextToken - 1 \in Int BY DEF TypeOK
<1>2. IsFiniteSet(0..(nextToken - 1)) BY <1>1, FS_Interval
<1>3. DOMAIN uploads \in SUBSET (0..(nextToken - 1)) BY DEF TypeOK
<1>4. InProgress \in SUBSET (0..(nextToken - 1)) BY DEF TypeOK, InProgress
<1>5. IsFiniteSet(DOMAIN uploads) /\ IsFiniteSet(InProgress)
  BY <1>2, <1>3, <1>4, FS_Subset
<1>6. Cardinality(DOMAIN uploads) \in Nat /\ Cardinality(InProgress) \in Nat
  BY <1>5, FS_CardinalityType
<1>7. QED BY <1>5, <1>6 DEF InFlight

LEMMA ServedFacts ==
    ASSUME IInv
    PROVE  /\ IsFiniteSet(Served)
           /\ Served \in SUBSET queue
           /\ Cardinality(Served) \in Nat
           /\ Cardinality(Served) <=
                IF slots < InFlight THEN 0 ELSE slots - InFlight
           /\ Minted \in SUBSET (nextToken..(nextToken + Cardinality(Served) - 1))
           /\ IsFiniteSet(Minted)
           /\ Cardinality(Minted) \in Nat
           /\ Cardinality(Minted) <= Cardinality(Served)
<1>1. queue \in SUBSET Job /\ IsFiniteSet(queue) /\ DistinctIn(queue)
  BY DEF IInv, TypeOK, DistinctSeq, DistinctIn
<1>2. slots \in Int /\ InFlight \in Nat /\ nextToken \in Nat
  BY UploadsFinite DEF IInv, TypeOK
<1>3. slots - InFlight \in Int BY <1>2
<1>4. /\ IsFiniteSet(Served)
      /\ Cardinality(Served) \in Nat
      /\ Cardinality(Served) <= IF slots - InFlight < 0 THEN 0
                                ELSE slots - InFlight
  BY <1>1, <1>3, BestBound DEF Served
<1>5. Served \in SUBSET queue BY DEF Served, Best
<1>6. \A j \in Served : Place(queue, j) \in 1..Cardinality(Served)
  BY <1>1, <1>3, BestPlaces DEF Served
<1>7. Minted \in SUBSET (nextToken..(nextToken + Cardinality(Served) - 1))
  <2>1. ASSUME NEW j \in Served
        PROVE  TokenOf(j) \in nextToken..(nextToken + Cardinality(Served) - 1)
    BY <1>2, <1>4, <1>6 DEF TokenOf
  <2>2. QED BY <2>1 DEF Minted
<1>8. IsFiniteSet(Minted) /\ Cardinality(Minted) <= Cardinality(Served)
  <2> DEFINE f == [j \in Served |-> TokenOf(j)]
  <2>1. f \in Surjection(Served, Minted) BY DEF Surjection, Minted
  <2>2. QED BY <1>4, <2>1, FS_Surjection
<1>9. Cardinality(Minted) \in Nat BY <1>8, FS_CardinalityType
<1>10. QED BY <1>2, <1>4, <1>5, <1>7, <1>8, <1>9

LEMMA PumpTables ==
    ASSUME IInv, PumpUploads, UNCHANGED active
    PROVE  /\ DOMAIN uploads' = DOMAIN uploads \cup Minted
           /\ uploads' \in [DOMAIN uploads' -> Offer]
           /\ nextToken' \in Nat /\ nextToken <= nextToken'
           /\ DOMAIN uploads' \in SUBSET (0..(nextToken' - 1))
           /\ DOMAIN active' \in SUBSET (0..(nextToken' - 1))
           /\ DOMAIN uploads' \cap DOMAIN active' = {}
           /\ mailbox' \in SUBSET Serve
<1>1. DOMAIN uploads' = DOMAIN uploads \cup Minted BY DEF PumpUploads, Minted
<1>2. nextToken \in Nat /\ Cardinality(Served) \in Nat
      /\ nextToken' = nextToken + Cardinality(Served)
  BY ServedFacts DEF IInv, TypeOK, PumpUploads
<1>3. Minted \in SUBSET (nextToken..(nextToken' - 1)) BY <1>2, ServedFacts
<1>4. Served \in SUBSET Job BY ServedFacts DEF IInv, TypeOK
<1>5. uploads' \in [DOMAIN uploads' -> Offer]
  <2>1. ASSUME NEW t \in DOMAIN uploads'
        PROVE  uploads'[t] \in Offer
    <3>1. CASE t \in DOMAIN uploads
      BY <3>1, <2>1 DEF PumpUploads, IInv, TypeOK
    <3>2. CASE t \notin DOMAIN uploads
      <4> DEFINE job == CHOOSE j \in Served : TokenOf(j) = t
      <4>1. \E j \in Served : TokenOf(j) = t BY <1>1, <2>1, <3>2 DEF Minted
      <4>2. job \in Served BY <4>1
      <4>3. job \in Job BY <4>2, <1>4
      <4>4. uploads'[t] = [user |-> job.user, file |-> job.file, offered |-> TRUE]
        BY <2>1, <3>2 DEF PumpUploads
      <4> HIDE DEF job
      <4>5. QED BY <4>3, <4>4 DEF Job, Offer
    <3>3. QED BY <3>1, <3>2
  <2>2. uploads' = [t \in DOMAIN uploads' |-> uploads'[t]] BY DEF PumpUploads
  <2>3. QED BY <2>1, <2>2
<1>6. /\ DOMAIN uploads \in SUBSET (0..(nextToken - 1))
      /\ DOMAIN active \in SUBSET (0..(nextToken - 1))
  BY DEF IInv, TypeOK
<1>7. DOMAIN uploads' \in SUBSET (0..(nextToken' - 1))
  <2>1. 0..(nextToken - 1) \subseteq 0..(nextToken' - 1) BY <1>2
  <2>2. nextToken..(nextToken' - 1) \subseteq 0..(nextToken' - 1) BY <1>2
  <2>3. Minted \subseteq 0..(nextToken' - 1) BY <1>3, <2>2
  <2>4. DOMAIN uploads \subseteq 0..(nextToken' - 1) BY <1>6, <2>1
  <2>5. QED BY <1>1, <2>3, <2>4
<1>8. DOMAIN active' \in SUBSET (0..(nextToken' - 1)) BY <1>2, <1>6
<1>9. DOMAIN uploads' \cap DOMAIN active' = {}
  <2>1. Minted \cap DOMAIN active = {} BY <1>2, <1>3, <1>6
  <2>2. DOMAIN uploads \cap DOMAIN active = {} BY DEF IInv, OneLedger
  <2>3. QED BY <1>1, <2>1, <2>2
<1>10. mailbox' \in SUBSET Serve
  <2>1. ASSUME NEW j \in Served
        PROVE  [user |-> j.user, token |-> TokenOf(j)] \in Serve
    <3>1. TokenOf(j) \in Minted BY DEF Minted
    <3>2. TokenOf(j) \in nextToken..(nextToken' - 1) BY <1>3, <3>1
    <3>3. \A n \in nextToken..(nextToken' - 1) : n \in Nat BY <1>2
    <3>4. TokenOf(j) \in Nat BY <3>2, <3>3
    <3>5. j \in Job BY <1>4
    <3>6. QED BY <3>4, <3>5 DEF Job, Serve, Token
  <2>2. mailbox \in SUBSET Serve BY DEF IInv, TypeOK
  <2>3. QED BY <2>1, <2>2 DEF PumpUploads
<1>11. QED BY <1>1, <1>2, <1>5, <1>7, <1>8, <1>9, <1>10

(* A pump never takes what is in flight beyond the slot count. *)
LEMMA PumpInFlight ==
    ASSUME IInv, PumpUploads, UNCHANGED active
    PROVE  InFlight' <= InFlight \/ InFlight' <= slots
<1>1. DOMAIN uploads' = DOMAIN uploads \cup Minted BY PumpTables
<1>2. InProgress' = InProgress BY DEF InProgress
<1>3. /\ IsFiniteSet(DOMAIN uploads) /\ Cardinality(DOMAIN uploads) \in Nat
      /\ Cardinality(InProgress) \in Nat
  BY UploadsFinite DEF IInv
<1>4. /\ IsFiniteSet(Minted) /\ Cardinality(Minted) \in Nat
      /\ Cardinality(Minted) <= Cardinality(Served)
      /\ Cardinality(Served) \in Nat
      /\ Cardinality(Served) <=
                IF slots < InFlight THEN 0 ELSE slots - InFlight
  BY ServedFacts
<1>5. IsFiniteSet(DOMAIN uploads \cap Minted)
      /\ Cardinality(DOMAIN uploads \cap Minted) \in Nat
  BY <1>3, FS_Intersection, FS_CardinalityType
<1>6. Cardinality(DOMAIN uploads \cup Minted) =
        Cardinality(DOMAIN uploads) + Cardinality(Minted)
          - Cardinality(DOMAIN uploads \cap Minted)
  BY <1>3, <1>4, FS_Union
<1>7. Cardinality(DOMAIN uploads') <=
        Cardinality(DOMAIN uploads) + Cardinality(Served)
  BY <1>1, <1>3, <1>4, <1>5, <1>6
<1>8. Cardinality(DOMAIN uploads') \in Int BY <1>1, <1>3, <1>4, <1>5, <1>6
<1>9. slots \in Int BY DEF IInv, TypeOK
<1>10. QED BY <1>2, <1>3, <1>4, <1>7, <1>8, <1>9 DEF InFlight

\* What TypeOK and OneLedger say of the two token tables.
LedgerOK ==
    /\ nextToken \in Nat
    /\ uploads \in [DOMAIN uploads -> Offer]
    /\ DOMAIN uploads \in SUBSET (0..(nextToken - 1))
    /\ active \in [DOMAIN active -> Upload]
    /\ DOMAIN active \in SUBSET (0..(nextToken - 1))
    /\ DOMAIN uploads \cap DOMAIN active = {}

(* spawn_serve moves tokens from one table to the other and mints none. *)
LEMMA SpawnTables ==
    ASSUME IInv, NEW S, SpawnServe(S), UNCHANGED nextToken
    PROVE  LedgerOK' /\ InFlight' = InFlight
<1> DEFINE moved == S \cap DOMAIN uploads
<1>1. LedgerOK BY DEF IInv, TypeOK, OneLedger, LedgerOK
<1>2. DOMAIN uploads' = DOMAIN uploads \ moved BY DEF SpawnServe
<1>3. DOMAIN active' = DOMAIN active \cup moved BY DEF SpawnServe
<1>4. uploads' \in [DOMAIN uploads' -> Offer]
  BY <1>1, <1>2 DEF SpawnServe, LedgerOK
<1>5. active' \in [DOMAIN active' -> Upload]
  <2>1. ASSUME NEW t \in DOMAIN active' PROVE active'[t] \in Upload
    <3>1. CASE t \in moved
      <4>1. uploads[t] \in Offer BY <1>1, <3>1 DEF LedgerOK
      <4>2. active'[t] = [user |-> uploads[t].user, file |-> uploads[t].file,
                          status |-> "InProgress", cancel |-> FALSE]
        BY <2>1, <3>1 DEF SpawnServe
      <4>3. QED BY <4>1, <4>2 DEF Offer, Upload, Status
    <3>2. CASE t \notin moved
      <4>1. t \in DOMAIN active BY <1>3, <2>1, <3>2
      <4>2. active'[t] = active[t] BY <2>1, <3>2 DEF SpawnServe
      <4>3. QED BY <1>1, <4>1, <4>2 DEF LedgerOK
    <3>3. QED BY <3>1, <3>2
  <2>2. active' = [t \in DOMAIN active' |-> active'[t]] BY DEF SpawnServe
  <2>3. QED BY <2>1, <2>2
<1>6. LedgerOK' BY <1>1, <1>2, <1>3, <1>4, <1>5 DEF LedgerOK
<1>7. InProgress' = InProgress \cup moved
  <2>1. ASSUME NEW t \in moved
        PROVE  t \in DOMAIN active' /\ active'[t].status = "InProgress"
    BY <1>3 DEF SpawnServe
  <2>2. ASSUME NEW t \in DOMAIN active
        PROVE  t \in DOMAIN active' /\ t \notin moved /\ active'[t] = active[t]
    BY <1>1, <1>3 DEF SpawnServe, LedgerOK
  <2>3. QED BY <1>3, <2>1, <2>2 DEF InProgress
<1>8. moved \cap InProgress = {} BY <1>1 DEF LedgerOK, InProgress
<1>9. /\ IsFiniteSet(DOMAIN uploads) /\ Cardinality(DOMAIN uploads) \in Nat
      /\ IsFiniteSet(InProgress) /\ Cardinality(InProgress) \in Nat
  BY UploadsFinite DEF IInv
<1>10. moved \in SUBSET DOMAIN uploads OBVIOUS
<1>11. IsFiniteSet(moved) /\ Cardinality(moved) \in Nat
  BY <1>9, <1>10, FS_Subset, FS_CardinalityType
<1> HIDE DEF moved
<1>12. Cardinality(DOMAIN uploads') = Cardinality(DOMAIN uploads) - Cardinality(moved)
  <2>1. DOMAIN uploads \cap moved = moved BY <1>10
  <2>2. Cardinality(DOMAIN uploads \ moved) =
          Cardinality(DOMAIN uploads) - Cardinality(DOMAIN uploads \cap moved)
    BY <1>9, FS_Difference
  <2>3. Cardinality(DOMAIN uploads') =
          Cardinality(DOMAIN uploads) - Cardinality(DOMAIN uploads \cap moved)
    BY <1>2, <2>2
  <2>4. QED BY <2>1, <2>3, Zenon
<1>13. Cardinality(InProgress') = Cardinality(InProgress) + Cardinality(moved)
  <2>1. InProgress \cap moved = {} BY <1>8
  <2>2. Cardinality({}) = 0 BY FS_EmptySet
  <2>3. Cardinality(InProgress \cup moved) =
          Cardinality(InProgress) + Cardinality(moved) - Cardinality(InProgress \cap moved)
    BY <1>9, <1>11, FS_Union
  <2>4. Cardinality(InProgress \cap moved) = 0 BY <2>1, <2>2
  <2>5. Cardinality(InProgress') = Cardinality(InProgress \cup moved)
    BY <1>7
  <2>6. QED BY <1>9, <1>11, <2>3, <2>4, <2>5
<1>14. InFlight' = InFlight BY <1>9, <1>11, <1>12, <1>13 DEF InFlight
<1>15. QED BY <1>6, <1>14

LEMMA DropTables ==
    ASSUME IInv, NEW S, DropUploads(S), UNCHANGED <<active, nextToken>>
    PROVE  LedgerOK' /\ InFlight' <= InFlight
<1>1. LedgerOK BY DEF IInv, TypeOK, OneLedger, LedgerOK
<1>2. DOMAIN uploads' = DOMAIN uploads \ S BY DEF DropUploads
<1>3. LedgerOK' BY <1>1, <1>2 DEF LedgerOK, DropUploads
<1>4. /\ IsFiniteSet(DOMAIN uploads) /\ Cardinality(DOMAIN uploads) \in Nat
      /\ Cardinality(InProgress) \in Nat
  BY UploadsFinite DEF IInv
<1>5. DOMAIN uploads' \in SUBSET DOMAIN uploads BY <1>2
<1>6. /\ IsFiniteSet(DOMAIN uploads')
      /\ Cardinality(DOMAIN uploads') <= Cardinality(DOMAIN uploads)
  BY <1>4, <1>5, FS_Subset
<1>7. Cardinality(DOMAIN uploads') \in Nat BY <1>6, FS_CardinalityType
<1>8. InProgress' = InProgress BY DEF InProgress
<1>9. QED BY <1>3, <1>4, <1>6, <1>7, <1>8 DEF InFlight

(* A pump leaves both tables in order. *)
LEMMA PumpLedger ==
    ASSUME IInv, PumpUploads, UNCHANGED active
    PROVE  LedgerOK'
BY PumpTables DEF LedgerOK, IInv, TypeOK
-----------------------------------------------------------------------------
(* Every step, over the token tables and over all the rest. *)

\* A step takes on more only within the slot count.
Growth == InFlight' <= InFlight \/ InFlight' <= slots'

LEMMA QuietLedger ==
    ASSUME IInv, UNCHANGED slotVars
    PROVE  LedgerOK' /\ Growth /\ InFlight' = InFlight
<1>1. LedgerOK BY DEF IInv, TypeOK, OneLedger, LedgerOK
<1>2. LedgerOK' BY <1>1 DEF LedgerOK, slotVars
<1>3. InFlight' = InFlight BY DEF InFlight, InProgress, slotVars
<1>4. InFlight \in Nat BY UploadsFinite DEF IInv
<1>5. QED BY <1>2, <1>3, <1>4 DEF Growth

\* Marking an offer answered keeps its token where it is.
LEMMA MarkLedger ==
    ASSUME IInv, NEW t \in DOMAIN uploads,
           uploads' = [uploads EXCEPT ![t].offered = FALSE],
           UNCHANGED <<active, nextToken>>
    PROVE  LedgerOK' /\ Growth /\ InFlight' = InFlight
<1>1. LedgerOK BY DEF IInv, TypeOK, OneLedger, LedgerOK
<1>2. LedgerOK' BY <1>1 DEF LedgerOK, Offer
<1>3. DOMAIN uploads' = DOMAIN uploads OBVIOUS
<1>4. InFlight' = InFlight BY <1>3 DEF InFlight, InProgress
<1>5. InFlight \in Nat BY UploadsFinite DEF IInv
<1>6. QED BY <1>2, <1>4, <1>5 DEF Growth

LEMMA ServeEndsLedger ==
    ASSUME IInv, NEW t, NEW status \in Outcomes, ServeEnds(t, status)
    PROVE  LedgerOK' /\ Growth
<1>1. LedgerOK BY DEF IInv, TypeOK, OneLedger, LedgerOK
<1>2. t \in DOMAIN active /\ uploads' = uploads /\ nextToken' = nextToken
      /\ active' = [active EXCEPT ![t].status = status]
  BY DEF ServeEnds, InProgress
<1>3. status \in Status BY UploadConstants DEF Status
<1>4. LedgerOK' BY <1>1, <1>2, <1>3 DEF LedgerOK, Upload
<1>5. status # "InProgress" BY UploadConstants
<1>6. InProgress' \in SUBSET InProgress
  BY <1>1, <1>2, <1>5 DEF InProgress, LedgerOK
<1>7. /\ IsFiniteSet(InProgress) /\ Cardinality(InProgress) \in Nat
      /\ Cardinality(DOMAIN uploads) \in Nat
  BY UploadsFinite DEF IInv
<1>8. Cardinality(InProgress') <= Cardinality(InProgress) /\ IsFiniteSet(InProgress')
  BY <1>6, <1>7, FS_Subset
<1>9. Cardinality(InProgress') \in Nat BY <1>8, FS_CardinalityType
<1>10. Cardinality(DOMAIN uploads') = Cardinality(DOMAIN uploads) BY <1>2
<1>11. InFlight' <= InFlight BY <1>7, <1>8, <1>9, <1>10 DEF InFlight
<1>12. QED BY <1>4, <1>11 DEF Growth

LEMMA CancelLedger ==
    ASSUME IInv, NEW u, NEW f, CancelUpload(u, f)
    PROVE  LedgerOK' /\ Growth /\ InFlight' = InFlight
<1> DEFINE hit == {t \in InProgress : active[t].user = u /\ active[t].file = f}
<1>1. LedgerOK BY DEF IInv, TypeOK, OneLedger, LedgerOK
<1>2. uploads' = uploads /\ nextToken' = nextToken
      /\ active' = [t \in DOMAIN active |->
                        IF t \in hit THEN [active[t] EXCEPT !.cancel = TRUE]
                        ELSE active[t]]
  BY DEF CancelUpload
<1>3. LedgerOK'
  <2>1. ASSUME NEW t \in DOMAIN active
        PROVE  active'[t] \in Upload /\ active'[t].status = active[t].status
    BY <1>1, <1>2 DEF LedgerOK, Upload
  <2>2. DOMAIN active' = DOMAIN active BY <1>2
  <2>3. active' \in [DOMAIN active -> Upload] BY <1>2, <2>1
  <2>4. QED BY <1>1, <1>2, <2>2, <2>3 DEF LedgerOK
<1>4. InProgress' = InProgress
  <2>1. ASSUME NEW t \in DOMAIN active
        PROVE  active'[t].status = active[t].status
    BY <1>1, <1>2 DEF LedgerOK, Upload
  <2>2. DOMAIN active' = DOMAIN active BY <1>2
  <2>3. QED BY <2>1, <2>2 DEF InProgress
<1>5. InFlight' = InFlight BY <1>2, <1>4 DEF InFlight
<1>6. InFlight \in Nat BY UploadsFinite DEF IInv
<1>7. QED BY <1>3, <1>5, <1>6 DEF Growth

LEMMA LedgerStep ==
    ASSUME IInv, [Next]_vars
    PROVE  LedgerOK' /\ Growth
<1>1. CASE UNCHANGED vars BY <1>1, QuietLedger DEF vars, slotVars
<1>2. CASE LoopPumps \/ \E t \in ended : ThreadPumps(t)
  <2>1. PumpUploads /\ UNCHANGED active /\ UNCHANGED slots
    BY <1>2 DEF LoopPumps, ThreadPumps
  <2>2. QED BY <2>1, PumpLedger, PumpInFlight DEF Growth
<1>3. CASE \E u \in Users, f \in Files : QueueUpload(u, f)
  BY <1>3, QuietLedger DEF QueueUpload
<1>4. CASE \E S \in PrivilegedLists : SetPrivilegedUsers(S)
  BY <1>4, QuietLedger DEF SetPrivilegedUsers
<1>5. CASE \E c \in DOMAIN uploads : SweepStaleOffers(c)
  BY <1>5, DropTables DEF SweepStaleOffers, Growth
<1>6. CASE StartUploadGone \/ PeerClosed
  BY <1>6, QuietLedger DEF StartUploadGone, PeerClosed
<1>7. CASE StartUploadKnown
  <2>1. SpawnServe({Head(channel).token}) /\ UNCHANGED nextToken
    BY <1>7 DEF StartUploadKnown
  <2>2. InFlight \in Nat BY UploadsFinite DEF IInv
  <2>3. QED BY <2>1, <2>2, SpawnTables DEF Growth
<1>8. CASE StartUploadUnknown
  BY <1>8, MarkLedger DEF StartUploadUnknown
<1>9. CASE PeerFailed
  BY <1>9, DropTables DEF PeerFailed, Growth
<1>10. CASE \E u \in Users : AddressKnown(u)
  <2>1. PICK u \in Users : AddressKnown(u) BY <1>10
  <2>2. SpawnServe(pendingServes[u]) /\ UNCHANGED nextToken
    BY <2>1 DEF AddressKnown
  <2>3. InFlight \in Nat BY UploadsFinite DEF IInv
  <2>4. QED BY <2>2, <2>3, SpawnTables DEF Growth
<1>11. CASE \E u \in Users : AddressUnknown(u)
  BY <1>11, QuietLedger DEF AddressUnknown, slotVars
<1>12. CASE ActorStep
  BY <1>12, QuietLedger DEF ActorStep, ActorStarts, ActorEnds, ServeUpload,
                            TransferResponse, slotVars
<1>13. CASE \E t \in DOMAIN active, status \in Outcomes : ServeEnds(t, status)
  BY <1>13, ServeEndsLedger
<1>14. CASE \E u \in Users, f \in Files : CancelUpload(u, f)
  BY <1>14, CancelLedger
<1>15. CASE \E n \in 1..MaxSlots : SetUploadSlots(n)
  BY <1>15, QuietLedger DEF SetUploadSlots
<1>16. QED
  BY <1>1, <1>2, <1>3, <1>4, <1>5, <1>6, <1>7, <1>8, <1>9, <1>10, <1>11,
     <1>12, <1>13, <1>14, <1>15
  DEF Next, LoopStep, TakesOperation, ThreadStep

\* What TypeOK says of the waiting jobs, and how they are numbered.
QueueOK ==
    /\ queue \in SUBSET Job /\ IsFiniteSet(queue)
    /\ seq \in Nat
    /\ privileged \in SUBSET Users
    /\ DistinctSeq /\ SeqBound

\* What TypeOK says of everything else.
RestOK ==
    /\ slots \in 1..MaxSlots
    /\ peerAddresses \in SUBSET Users
    /\ pendingServes \in [Users -> SUBSET Token]
    /\ asked \in SUBSET Users
    /\ connected \in SUBSET Users
    /\ mailbox \in SUBSET Serve
    /\ serving \in [Users -> SUBSET Token]
    /\ channel \in Seq(Operation)
    /\ owed \in BOOLEAN
    /\ ended \in SUBSET Token

LEMMA SmallerQueue ==
    ASSUME QueueOK, queue' \in SUBSET queue, UNCHANGED <<seq, privileged>>
    PROVE  QueueOK'
<1>1. IsFiniteSet(queue') BY FS_Subset DEF QueueOK
<1>2. QED BY <1>1 DEF QueueOK, DistinctSeq, SeqBound

LEMMA LongerQueue ==
    ASSUME QueueOK, NEW u \in Users, NEW f \in Files, QueueUpload(u, f)
    PROVE  QueueOK'
<1> DEFINE job == [user |-> u, file |-> f, privileged |-> u \in privileged,
                   seq |-> seq']
<1>1. queue' = queue \cup {job} /\ seq' = seq + 1 /\ privileged' = privileged
  BY DEF QueueUpload
<1>2. IsFiniteSet(queue') BY <1>1, FS_AddElement DEF QueueOK
<1>3. job \in Job
  <2>1. (u \in privileged) \in BOOLEAN OBVIOUS
  <2>2. seq' \in Nat BY <1>1 DEF QueueOK
  <2>3. QED BY <2>1, <2>2 DEF Job
<1>4. \A j \in queue : j.seq \in Nat /\ j.seq < seq'
  BY <1>1 DEF QueueOK, SeqBound, Job
<1>5. job.seq = seq' OBVIOUS
<1>6. seq' \in Nat BY <1>1 DEF QueueOK
<1> HIDE DEF job
<1>7. DistinctSeq' BY <1>1, <1>4, <1>5, <1>6 DEF QueueOK, DistinctSeq
<1>8. SeqBound' BY <1>1, <1>4, <1>5, <1>6 DEF SeqBound
<1>9. QED BY <1>1, <1>2, <1>3, <1>6, <1>7, <1>8 DEF QueueOK

LEMMA RankedQueue ==
    ASSUME QueueOK, NEW S \in PrivilegedLists, SetPrivilegedUsers(S)
    PROVE  QueueOK'
<1> DEFINE again(j) == [j EXCEPT !.privileged = j.user \in S]
           f == [j \in queue |-> again(j)]
<1>1. queue' = {again(j) : j \in queue} /\ seq' = seq /\ privileged' = S
  BY DEF SetPrivilegedUsers
<1>2. S \in SUBSET Users BY UploadConstants
<1>3. ASSUME NEW j \in queue
      PROVE  again(j) \in Job /\ again(j).seq = j.seq
  <2>1. j \in [user : Users, file : Files, privileged : BOOLEAN, seq : Nat]
    BY DEF Job, QueueOK
  <2>2. again(j) = [user |-> j.user, file |-> j.file,
                    privileged |-> j.user \in S, seq |-> j.seq]
    BY <2>1
  <2>3. (j.user \in S) \in BOOLEAN OBVIOUS
  <2> HIDE DEF again
  <2>4. again(j).seq = j.seq BY <2>2
  <2>5. QED BY <2>1, <2>2, <2>3, <2>4 DEF Job
<1>4. f \in Surjection(queue, queue') BY <1>1 DEF Surjection
<1>5. IsFiniteSet(queue') BY <1>4, FS_Surjection DEF QueueOK
<1> HIDE DEF again
<1>6. DistinctSeq' BY <1>1, <1>3 DEF QueueOK, DistinctSeq
<1>7. SeqBound' BY <1>1, <1>3 DEF QueueOK, SeqBound
<1>8. QED BY <1>1, <1>2, <1>3, <1>5, <1>6, <1>7 DEF QueueOK

LEMMA QueueStep ==
    ASSUME IInv, [Next]_vars
    PROVE  QueueOK'
<1>1. QueueOK BY DEF IInv, TypeOK, QueueOK
<1>2. CASE UNCHANGED jobVars
  BY <1>1, <1>2 DEF QueueOK, DistinctSeq, SeqBound, jobVars
<1>3. CASE LoopPumps \/ \E t \in ended : ThreadPumps(t)
  <2>1. queue' = queue \ Served /\ UNCHANGED <<seq, privileged>>
    BY <1>3 DEF LoopPumps, ThreadPumps, PumpUploads
  <2>2. QED BY <1>1, <2>1, SmallerQueue
<1>4. CASE PeerFailed
  <2>1. queue' \in SUBSET queue /\ UNCHANGED <<seq, privileged>>
    BY <1>4 DEF PeerFailed
  <2>2. QED BY <1>1, <2>1, SmallerQueue
<1>5. CASE \E u \in Users, f \in Files : QueueUpload(u, f)
  BY <1>1, <1>5, LongerQueue
<1>6. CASE \E S \in PrivilegedLists : SetPrivilegedUsers(S)
  BY <1>1, <1>6, RankedQueue
<1>7. CASE UNCHANGED vars BY <1>2, <1>7 DEF vars
<1>8. CASE \E c \in DOMAIN uploads : SweepStaleOffers(c)
  BY <1>2, <1>8 DEF SweepStaleOffers
<1>9. CASE StartUploadGone \/ StartUploadKnown \/ StartUploadUnknown \/ PeerClosed
  BY <1>2, <1>9 DEF StartUploadGone, StartUploadKnown, StartUploadUnknown,
                    PeerClosed
<1>10. CASE \E u \in Users : AddressKnown(u) \/ AddressUnknown(u)
  BY <1>2, <1>10 DEF AddressKnown, AddressUnknown
<1>11. CASE ActorStep
  BY <1>2, <1>11 DEF ActorStep, ActorStarts, ActorEnds, ServeUpload,
                     TransferResponse
<1>12. CASE \/ \E t \in DOMAIN active, status \in Outcomes : ServeEnds(t, status)
            \/ \E u \in Users, f \in Files : CancelUpload(u, f)
            \/ \E n \in 1..MaxSlots : SetUploadSlots(n)
  BY <1>2, <1>12 DEF ServeEnds, CancelUpload, SetUploadSlots
<1>13. QED
  BY <1>3, <1>4, <1>5, <1>6, <1>7, <1>8, <1>9, <1>10, <1>11, <1>12
  DEF Next, LoopStep, TakesOperation, ThreadStep

LEMMA TakesRest ==
    ASSUME RestOK, NEW op, Takes(op)
    PROVE  channel' \in Seq(Operation) /\ Head(channel) \in Operation
BY DEF RestOK, Takes

LEMMA RestStep ==
    ASSUME IInv, [Next]_vars
    PROVE  RestOK'
<1>1. RestOK BY DEF IInv, TypeOK, RestOK
<1>2. CASE UNCHANGED vars
  BY <1>1, <1>2 DEF RestOK, vars, routeVars, actorVars
<1>3. CASE LoopPumps \/ \E t \in ended : ThreadPumps(t)
  <2>1. PumpUploads /\ UNCHANGED active BY <1>3 DEF LoopPumps, ThreadPumps
  <2>2. mailbox' \in SUBSET Serve BY <2>1, PumpTables
  <2>3. CASE LoopPumps BY <1>1, <2>2, <2>3 DEF LoopPumps, RestOK, routeVars
  <2>4. CASE \E t \in ended : ThreadPumps(t)
    BY <1>1, <2>2, <2>4 DEF ThreadPumps, RestOK, routeVars
  <2>5. QED BY <1>3, <2>3, <2>4
<1>4. CASE \E u \in Users, f \in Files : QueueUpload(u, f)
  BY <1>1, <1>4 DEF QueueUpload, RestOK, routeVars, actorVars
<1>5. CASE \E S \in PrivilegedLists : SetPrivilegedUsers(S)
  BY <1>1, <1>5 DEF SetPrivilegedUsers, RestOK, routeVars, actorVars
<1>6. CASE \E c \in DOMAIN uploads : SweepStaleOffers(c)
  BY <1>1, <1>6 DEF SweepStaleOffers, RestOK, routeVars, actorVars
<1>7. CASE StartUploadGone
  BY <1>1, <1>7, TakesRest DEF StartUploadGone, RestOK, routeVars, actorVars
<1>8. CASE StartUploadKnown
  BY <1>1, <1>8, TakesRest DEF StartUploadKnown, RestOK, routeVars, actorVars
<1>9. CASE StartUploadUnknown
  <2> DEFINE t == Head(channel).token
             u == uploads[t].user
  <2>1. t \in DOMAIN uploads /\ channel' \in Seq(Operation)
    BY <1>1, <1>9, TakesRest DEF StartUploadUnknown
  <2>2. u \in Users /\ t \in Token
    BY <2>1 DEF IInv, TypeOK, Offer, Token
  <2>3. pendingServes' = [pendingServes EXCEPT ![u] = @ \cup {t}]
        /\ asked' = asked \cup {u}
        /\ UNCHANGED <<slots, peerAddresses, actorVars, owed, ended>>
    BY <1>9 DEF StartUploadUnknown
  <2> HIDE DEF t, u
  <2>4. pendingServes' \in [Users -> SUBSET Token]
    BY <1>1, <2>2, <2>3 DEF RestOK
  <2>5. QED BY <1>1, <2>1, <2>2, <2>3, <2>4 DEF RestOK, actorVars
<1>10. CASE PeerClosed
  BY <1>1, <1>10, TakesRest DEF PeerClosed, RestOK, routeVars, actorVars
<1>11. CASE PeerFailed
  <2>1. channel' \in Seq(Operation) /\ owed' \in BOOLEAN
        /\ UNCHANGED <<slots, routeVars, actorVars, ended>>
    BY <1>1, <1>11, TakesRest DEF PeerFailed
  <2>2. QED BY <1>1, <2>1 DEF RestOK, routeVars, actorVars
<1>12. CASE \E u \in Users : AddressKnown(u) \/ AddressUnknown(u)
  BY <1>1, <1>12 DEF AddressKnown, AddressUnknown, RestOK, actorVars
<1>13. CASE ActorStep
  <2>1. CASE \E u \in Users : ActorStarts(u)
    BY <1>1, <2>1 DEF ActorStarts, RestOK, routeVars
  <2>2. CASE \E u \in Users, error \in BOOLEAN : ActorEnds(u, error)
    <3>1. PICK u \in Users, error \in BOOLEAN : ActorEnds(u, error) BY <2>2
    <3>2. PeerDisconnected(u, error) \in Operation
      BY DEF PeerDisconnected, Operation
    <3>3. channel' \in Seq(Operation) BY <1>1, <3>1, <3>2 DEF ActorEnds, RestOK
    <3>4. QED BY <1>1, <3>1, <3>3 DEF ActorEnds, RestOK, routeVars
  <2>3. CASE \E m \in mailbox : ServeUpload(m)
    BY <1>1, <2>3 DEF ServeUpload, RestOK, routeVars, Serve
  <2>4. CASE \E u \in Users : \E t \in serving[u], allowed \in BOOLEAN :
               TransferResponse(u, t, allowed)
    <3>1. PICK u \in Users : \E t \in serving[u], allowed \in BOOLEAN :
               TransferResponse(u, t, allowed)
      BY <2>4
    <3>2. PICK t \in serving[u], allowed \in BOOLEAN :
               TransferResponse(u, t, allowed)
      BY <3>1
    <3>3. t \in Token BY <1>1 DEF RestOK
    <3>4. StartUpload(t) \in Operation BY <3>3 DEF StartUpload, Operation
    <3>5. channel' \in Seq(Operation)
      BY <1>1, <3>2, <3>4 DEF TransferResponse, RestOK
    <3>6. QED BY <1>1, <3>2, <3>5 DEF TransferResponse, RestOK, routeVars
  <2>5. QED BY <1>13, <2>1, <2>2, <2>3, <2>4 DEF ActorStep
<1>14. CASE \E t \in DOMAIN active, status \in Outcomes : ServeEnds(t, status)
  BY <1>1, <1>14 DEF ServeEnds, InProgress, RestOK, routeVars, actorVars, IInv,
                     TypeOK, Token
<1>15. CASE \E u \in Users, f \in Files : CancelUpload(u, f)
  BY <1>1, <1>15 DEF CancelUpload, RestOK, routeVars, actorVars
<1>16. CASE \E n \in 1..MaxSlots : SetUploadSlots(n)
  BY <1>1, <1>16 DEF SetUploadSlots, RestOK, routeVars, actorVars
<1>17. QED
  BY <1>2, <1>3, <1>4, <1>5, <1>6, <1>7, <1>8, <1>9, <1>10, <1>11, <1>12,
     <1>13, <1>14, <1>15, <1>16
  DEF Next, LoopStep, TakesOperation, ThreadStep
-----------------------------------------------------------------------------
(* The theorems. *)

LEMMA InitInv == Init => IInv
<1> SUFFICES ASSUME Init PROVE IInv
  OBVIOUS
<1>1. DOMAIN uploads = {} /\ DOMAIN active = {} /\ queue = {} BY DEF Init
<1>2. TypeOK
  <2>1. IsFiniteSet(queue) BY <1>1, FS_EmptySet
  <2>2. channel \in Seq(Operation) BY DEF Init
  <2>3. uploads \in [DOMAIN uploads -> Offer] BY <1>1 DEF Init
  <2>4. active \in [DOMAIN active -> Upload] BY <1>1 DEF Init
  <2>5. QED BY <1>1, <2>1, <2>2, <2>3, <2>4 DEF Init, TypeOK
<1>3. DistinctSeq /\ SeqBound /\ OneLedger
  BY <1>1 DEF DistinctSeq, SeqBound, OneLedger
<1>4. SlotBound
  <2>1. InProgress = {} BY <1>1 DEF InProgress
  <2>2. Cardinality({}) = 0 BY FS_EmptySet
  <2>3. InFlight = 0 BY <1>1, <2>1, <2>2 DEF InFlight
  <2>4. QED BY <2>3, UploadConstants DEF SlotBound
<1>5. QED BY <1>2, <1>3, <1>4 DEF IInv

LEMMA InFlightNat == TypeOK' => (InFlight \in Nat)'
<1>1. TypeOK => InFlight \in Nat BY UploadsFinite
<1>2. QED BY <1>1, PTL

LEMMA NextInv == IInv /\ [Next]_vars => IInv' /\ Growth
<1> SUFFICES ASSUME IInv, [Next]_vars PROVE IInv' /\ Growth
  OBVIOUS
<1>1. LedgerOK' /\ Growth BY LedgerStep
<1>2. QueueOK' BY QueueStep
<1>3. RestOK' BY RestStep
<1>4. TypeOK' BY <1>1, <1>2, <1>3 DEF TypeOK, LedgerOK, QueueOK, RestOK
<1>5. DistinctSeq' /\ SeqBound' BY <1>2 DEF QueueOK
<1>6. OneLedger' BY <1>1 DEF LedgerOK, OneLedger
<1>7. SlotBound'
  <2>1. InFlight <= MaxSlots /\ InFlight \in Nat
    BY UploadsFinite DEF IInv, SlotBound
  <2>2. InFlight' \in Nat BY <1>4, InFlightNat
  <2>3. slots' \in 1..MaxSlots BY <1>3 DEF RestOK
  <2>4. QED BY <1>1, <2>1, <2>2, <2>3, UploadConstants DEF Growth, SlotBound
<1>8. QED BY <1>1, <1>4, <1>5, <1>6, <1>7 DEF IInv

(* The strengthened invariant holds of every behaviour of the upload queue. *)
THEOREM Invariant == Spec => []IInv
<1>1. Init => IInv BY InitInv
<1>2. IInv /\ [Next]_vars => IInv' BY NextInv
<1>3. QED BY <1>1, <1>2, PTL DEF Spec

(* Every table keeps its type, and its keys are tokens minted so far. *)
THEOREM TypeCorrect == Spec => []TypeOK
<1>1. IInv => TypeOK BY DEF IInv
<1>2. QED BY <1>1, Invariant, PTL

(* Never more offers and streams than the largest slot count ever set, however  *)
(* the pumps of the operations loop and of the ending threads interleave.       *)
THEOREM SlotsBounded == Spec => []SlotBound
<1>1. IInv => SlotBound BY DEF IInv
<1>2. QED BY <1>1, Invariant, PTL

(* A token is never both a waiting offer and a transfer. *)
THEOREM LedgersDisjoint == Spec => []OneLedger
<1>1. IInv => OneLedger BY DEF IInv
<1>2. QED BY <1>1, Invariant, PTL

(* No step takes an upload on beyond the slot count of that moment, also after  *)
(* set_upload_slots has lowered it below what is in flight.                     *)
THEOREM PumpsRespectSlots == Spec => NeverOversubscribed
<1>1. IInv /\ [Next]_vars => [InFlight' > InFlight => InFlight' <= slots']_vars
  <2> SUFFICES ASSUME IInv, [Next]_vars, InFlight' > InFlight
               PROVE  InFlight' <= slots'
    OBVIOUS
  <2>1. IInv' /\ Growth BY NextInv
  <2>2. InFlight \in Nat BY UploadsFinite DEF IInv
  <2>3. InFlight' \in Nat BY <2>1, InFlightNat DEF IInv
  <2>4. QED BY <2>1, <2>2, <2>3 DEF Growth
<1>2. QED BY <1>1, Invariant, PTL DEF Spec, NeverOversubscribed
-----------------------------------------------------------------------------
(* The order of service: donors before everybody else, and among equals     *)
(* whoever asked first.                                                      *)

\* A waiting job carries the standing its peer has by the latest list.
Graded == \A j \in queue : j.privileged = (j.user \in privileged)

LEMMA InitGraded == Init => Graded
BY DEF Init, Graded

LEMMA NextGraded ==
    ASSUME IInv, Graded, [Next]_vars
    PROVE  Graded'
<1>1. CASE queue' \subseteq queue /\ UNCHANGED privileged
  BY <1>1 DEF Graded
<1>2. CASE \E u \in Users, f \in Files : QueueUpload(u, f)
  <2>1. PICK u \in Users, f \in Files : QueueUpload(u, f) BY <1>2
  <2> DEFINE job == [user |-> u, file |-> f, privileged |-> u \in privileged,
                     seq |-> seq']
  <2>2. queue' = queue \cup {job} /\ privileged' = privileged
    BY <2>1 DEF QueueUpload
  <2>3. job.privileged = (job.user \in privileged) OBVIOUS
  <2> HIDE DEF job
  <2>4. QED BY <2>2, <2>3 DEF Graded
<1>3. CASE \E S \in PrivilegedLists : SetPrivilegedUsers(S)
  <2>1. PICK S \in PrivilegedLists : SetPrivilegedUsers(S) BY <1>3
  <2>2. queue' = {[j EXCEPT !.privileged = j.user \in S] : j \in queue}
        /\ privileged' = S
    BY <2>1 DEF SetPrivilegedUsers
  <2>3. ASSUME NEW j \in queue
        PROVE  [j EXCEPT !.privileged = j.user \in S].privileged
                 = ([j EXCEPT !.privileged = j.user \in S].user \in S)
    BY DEF IInv, TypeOK, Job
  <2>4. QED BY <2>2, <2>3 DEF Graded
<1>4. CASE LoopPumps \/ \E t \in ended : ThreadPumps(t)
  BY <1>1, <1>4 DEF LoopPumps, ThreadPumps, PumpUploads
<1>5. CASE PeerFailed BY <1>1, <1>5 DEF PeerFailed
<1>6. CASE UNCHANGED jobVars BY <1>1, <1>6 DEF jobVars
<1>7. CASE UNCHANGED vars BY <1>6, <1>7 DEF vars
<1>8. CASE \E c \in DOMAIN uploads : SweepStaleOffers(c)
  BY <1>6, <1>8 DEF SweepStaleOffers
<1>9. CASE StartUploadGone \/ StartUploadKnown \/ StartUploadUnknown \/ PeerClosed
  BY <1>6, <1>9 DEF StartUploadGone, StartUploadKnown, StartUploadUnknown,
                    PeerClosed
<1>10. CASE \E u \in Users : AddressKnown(u) \/ AddressUnknown(u)
  BY <1>6, <1>10 DEF AddressKnown, AddressUnknown
<1>11. CASE ActorStep
  BY <1>6, <1>11 DEF ActorStep, ActorStarts, ActorEnds, ServeUpload,
                     TransferResponse
<1>12. CASE \/ \E t \in DOMAIN active, status \in Outcomes : ServeEnds(t, status)
            \/ \E u \in Users, f \in Files : CancelUpload(u, f)
            \/ \E n \in 1..MaxSlots : SetUploadSlots(n)
  BY <1>6, <1>12 DEF ServeEnds, CancelUpload, SetUploadSlots
<1>13. QED
  BY <1>2, <1>3, <1>4, <1>5, <1>7, <1>8, <1>9, <1>10, <1>11, <1>12
  DEF Next, LoopStep, TakesOperation, ThreadStep

THEOREM GradedAlways == Spec => [](IInv /\ Graded)
<1>1. Init => IInv /\ Graded BY InitInv, InitGraded
<1>2. IInv /\ Graded /\ [Next]_vars => (IInv /\ Graded)' BY NextInv, NextGraded
<1>3. QED BY <1>1, <1>2, PTL DEF Spec
-----------------------------------------------------------------------------
(* Only a pump makes offers, and it serves from the head of the ranking. *)

LEMMA OnlyPumpsOffer ==
    ASSUME IInv, [Next]_vars, NewOffers # {}
    PROVE  PumpUploads /\ UNCHANGED <<active, privileged>>
<1>1. CASE LoopPumps \/ \E t \in ended : ThreadPumps(t)
  BY <1>1 DEF LoopPumps, ThreadPumps
<1>2. CASE UNCHANGED uploads BY <1>2 DEF NewOffers
<1>3. CASE \E S : DropUploads(S) BY <1>3 DEF DropUploads, NewOffers
<1>4. CASE \E S : SpawnServe(S) BY <1>4 DEF SpawnServe, NewOffers
<1>5. CASE UNCHANGED vars BY <1>2, <1>5 DEF vars, slotVars
<1>6. CASE \E c \in DOMAIN uploads : SweepStaleOffers(c)
  BY <1>3, <1>6 DEF SweepStaleOffers
<1>7. CASE PeerFailed BY <1>3, <1>7 DEF PeerFailed
<1>8. CASE StartUploadKnown BY <1>4, <1>8 DEF StartUploadKnown
<1>9. CASE \E u \in Users : AddressKnown(u) BY <1>4, <1>9 DEF AddressKnown
<1>10. CASE StartUploadUnknown BY <1>10 DEF StartUploadUnknown, NewOffers
<1>11. CASE \/ \E u \in Users, f \in Files : QueueUpload(u, f)
            \/ \E S \in PrivilegedLists : SetPrivilegedUsers(S)
            \/ StartUploadGone \/ PeerClosed
            \/ \E u \in Users : AddressUnknown(u)
  BY <1>2, <1>11 DEF QueueUpload, SetPrivilegedUsers, StartUploadGone, PeerClosed,
                     AddressUnknown, slotVars
<1>12. CASE ActorStep
  BY <1>2, <1>12 DEF ActorStep, ActorStarts, ActorEnds, ServeUpload,
                     TransferResponse, slotVars
<1>13. CASE \/ \E t \in DOMAIN active, status \in Outcomes : ServeEnds(t, status)
            \/ \E u \in Users, f \in Files : CancelUpload(u, f)
            \/ \E n \in 1..MaxSlots : SetUploadSlots(n)
  BY <1>2, <1>13 DEF ServeEnds, CancelUpload, SetUploadSlots, slotVars
<1>14. QED
  BY <1>1, <1>5, <1>6, <1>7, <1>8, <1>9, <1>10, <1>11, <1>12, <1>13
  DEF Next, LoopStep, TakesOperation, ThreadStep

(* Whoever comes before somebody served is served too. *)
LEMMA ServedFromHead ==
    ASSUME IInv, NEW i \in queue, NEW j \in Served, Before(i, j)
    PROVE  i \in Served
<1>1. queue \in SUBSET Job /\ IsFiniteSet(queue) BY DEF IInv, TypeOK
<1>2. j \in queue /\ Place(queue, j) <= slots - InFlight BY DEF Served, Best
<1>3. Place(queue, i) < Place(queue, j) BY <1>1, <1>2, PlaceMonotone
<1>4. Place(queue, i) \in Nat /\ Place(queue, j) \in Nat BY <1>1, PlaceNat
<1>5. slots - InFlight \in Int BY UploadsFinite DEF IInv, TypeOK
<1>6. Place(queue, i) <= slots - InFlight BY <1>2, <1>3, <1>4, <1>5
<1>7. QED BY <1>6 DEF Served, Best

(* A new offer is a served job's, and names its peer. *)
LEMMA OfferOfServed ==
    ASSUME IInv, PumpUploads, UNCHANGED active, NEW t \in NewOffers
    PROVE  \E j \in Served : uploads'[t].user = j.user
<1> DEFINE job == CHOOSE j \in Served : TokenOf(j) = t
<1>1. t \in DOMAIN uploads' /\ t \notin DOMAIN uploads BY DEF NewOffers
<1>2. \E j \in Served : TokenOf(j) = t BY <1>1, PumpTables DEF Minted
<1>3. job \in Served BY <1>2
<1>4. uploads'[t] = [user |-> job.user, file |-> job.file, offered |-> TRUE]
  BY <1>1 DEF PumpUploads
<1> HIDE DEF job
<1>5. QED BY <1>3, <1>4
-----------------------------------------------------------------------------
(* While a donor waits nobody else is offered a slot, however the server's     *)
(* list changed since they asked.                                              *)
THEOREM DonorsFirst == Spec => NoDonorOvertaken
<1>1. IInv /\ Graded /\ [Next]_vars =>
        [(\E t \in NewOffers : uploads'[t].user \notin privileged)
            => \A j \in queue' : j.user \notin privileged]_vars
  <2> SUFFICES ASSUME IInv, Graded, [Next]_vars,
                      NEW t \in NewOffers, uploads'[t].user \notin privileged,
                      NEW k \in queue', k.user \in privileged
               PROVE  FALSE
    OBVIOUS
  <2>1. PumpUploads /\ UNCHANGED <<active, privileged>> BY OnlyPumpsOffer
  <2>2. PICK j \in Served : uploads'[t].user = j.user BY <2>1, OfferOfServed
  <2>3. j \in queue /\ k \in queue /\ k \notin Served
    BY <2>1 DEF PumpUploads, Served, Best
  <2>4. k.privileged /\ ~j.privileged BY <2>2, <2>3 DEF Graded
  <2>5. Before(k, j) BY <2>4 DEF Before
  <2>6. QED BY <2>3, <2>5, ServedFromHead
<1>2. QED BY <1>1, GradedAlways, PTL DEF Spec, NoDonorOvertaken

(* Among peers of one standing a slot never goes to somebody while one who     *)
(* asked earlier is left waiting.                                              *)
THEOREM ArrivalOrder == Spec => FirstComeFirstServed
<1>1. IInv /\ Graded /\ [Next]_vars =>
        [NewOffers # {} =>
           \A i \in queue \ queue', j \in queue' :
              (i.user \in privileged <=> j.user \in privileged)
                 => i.seq < j.seq]_vars
  <2> SUFFICES ASSUME IInv, Graded, [Next]_vars, NewOffers # {},
                      NEW i \in queue \ queue', NEW j \in queue',
                      i.user \in privileged <=> j.user \in privileged
               PROVE  i.seq < j.seq
    OBVIOUS
  <2>1. PumpUploads BY OnlyPumpsOffer
  <2>2. i \in Served /\ j \in queue /\ j \notin Served BY <2>1 DEF PumpUploads
  <2>3. i.privileged = j.privileged BY <2>2 DEF Graded
  <2>4. i.seq \in Nat /\ j.seq \in Nat BY <2>2 DEF IInv, TypeOK, Job
  <2>5. ~Before(j, i) BY <2>2, ServedFromHead
  <2>6. ~(j.seq < i.seq) BY <2>3, <2>5 DEF Before
  <2>7. i.seq # j.seq BY <2>2 DEF IInv, DistinctSeq
  <2>8. QED BY <2>4, <2>6, <2>7
<1>2. QED BY <1>1, GradedAlways, PTL DEF Spec, FirstComeFirstServed
-----------------------------------------------------------------------------
(* No slot stays idle: a pump that leaves somebody waiting has filled every  *)
(* slot, and whatever frees a slot owes a pump.                              *)

\* Where some number satisfies a condition, a least one does.
LEMMA LeastNumber ==
    ASSUME NEW S \in SUBSET Nat, S # {}
    PROVE  \E n \in S : \A m \in S : n <= m
<1>1. IsWellFoundedOn(OpToRel(<, Nat), Nat) BY NatLessThanWellFounded
<1>2. PICK n \in S : \A m \in Nat : <<m, n>> \in OpToRel(<, Nat) => m \notin S
  BY <1>1, WFMin
<1>3. ASSUME NEW m \in S PROVE n <= m
  <2>1. CASE m < n BY <1>2, <2>1 DEF OpToRel
  <2>2. CASE ~(m < n) BY <2>2
  <2>3. QED BY <2>1, <2>2
<1>4. QED BY <1>3

(* A pump that leaves a job behind has taken all it may. *)
LEMMA BestIsFull ==
    ASSUME NEW q \in SUBSET Job, IsFiniteSet(q), DistinctIn(q), NEW n \in Int,
           Best(q, n) # q
    PROVE  n <= Cardinality(Best(q, n))
<1> DEFINE S == Best(q, n)
           P == {Place(q, j) : j \in q \ S}
<1>1. IsFiniteSet(S) /\ Cardinality(S) \in Nat BY BestBound
<1>2. \A j \in q : Place(q, j) \in Nat BY PlaceNat
<1>3. P \in SUBSET Nat /\ P # {} BY <1>2 DEF Best
<1>4. PICK p \in P : \A m \in P : p <= m BY <1>3, LeastNumber
<1>5. PICK j \in q : j \notin S /\ p = Place(q, j) BY <1>4
<1>6. Ahead(q, j) \in SUBSET S
  <2>1. ASSUME NEW i \in Ahead(q, j), i \notin S PROVE FALSE
    <3>1. i \in q /\ Before(i, j) BY DEF Ahead
    <3>2. Place(q, i) < Place(q, j) BY <3>1, <1>5, PlaceMonotone
    <3>3. Place(q, i) \in P BY <2>1, <3>1
    <3>4. p <= Place(q, i) BY <1>4, <3>3
    <3>5. QED BY <1>2, <1>5, <3>1, <3>2, <3>4
  <2>2. QED BY <2>1
<1>7. IsFiniteSet(Ahead(q, j)) /\ Cardinality(Ahead(q, j)) \in Nat BY PlaceNat
<1>8. Cardinality(Ahead(q, j)) <= Cardinality(S) BY <1>1, <1>6, FS_Subset
<1>9. ~(Place(q, j) <= n) BY <1>5 DEF Best
<1>10. QED BY <1>1, <1>7, <1>8, <1>9 DEF Place

(* Each job taken mints a token of its own. *)
LEMMA MintedCount ==
    ASSUME IInv
    PROVE  Cardinality(Minted) = Cardinality(Served)
<1> DEFINE f == [j \in Served |-> TokenOf(j)]
<1>1. IsFiniteSet(Served) /\ Served \in SUBSET queue BY ServedFacts
<1>2. queue \in SUBSET Job /\ IsFiniteSet(queue) /\ DistinctIn(queue)
  BY DEF IInv, TypeOK, DistinctSeq, DistinctIn
<1>3. ASSUME NEW i \in Served, NEW j \in Served, TokenOf(i) = TokenOf(j)
      PROVE  i = j
  <2>1. Place(queue, i) \in Nat /\ Place(queue, j) \in Nat
    BY <1>1, <1>2, PlaceNat
  <2>2. nextToken \in Nat BY DEF IInv, TypeOK
  <2>3. Place(queue, i) = Place(queue, j) BY <1>3, <2>1, <2>2 DEF TokenOf
  <2>4. QED BY <1>1, <1>2, <2>3, PlaceInjective
<1>4. f \in Surjection(Served, Minted) BY DEF Surjection, Minted
<1>5. IsInjective(f) BY <1>3 DEF IsInjective
<1>6. f \in Bijection(Served, Minted)
  BY <1>4, <1>5 DEF Bijection, Injection, Surjection
<1>7. ExistsBijection(Served, Minted) BY <1>6 DEF ExistsBijection
<1>8. QED BY <1>1, <1>7, FS_Bijection

LEMMA PumpFills ==
    ASSUME IInv, PumpUploads, UNCHANGED <<active, slots>>
    PROVE  queue' # {} => InFlight' >= slots'
<1> SUFFICES ASSUME queue' # {} PROVE InFlight' >= slots
  OBVIOUS
<1>1. queue \in SUBSET Job /\ IsFiniteSet(queue) /\ DistinctIn(queue)
  BY DEF IInv, TypeOK, DistinctSeq, DistinctIn
<1>2. slots \in Int /\ InFlight \in Nat /\ nextToken \in Nat
  BY UploadsFinite DEF IInv, TypeOK
<1>3. slots - InFlight \in Int BY <1>2
<1>4. Served # queue BY DEF PumpUploads
<1>5. slots - InFlight <= Cardinality(Served)
  BY <1>1, <1>3, <1>4, BestIsFull DEF Served
<1>6. Cardinality(Minted) = Cardinality(Served) /\ IsFiniteSet(Minted)
      /\ Cardinality(Served) \in Nat
  BY MintedCount, ServedFacts
<1>7. DOMAIN uploads \cap Minted = {}
  <2>1. Minted \in SUBSET (nextToken..(nextToken + Cardinality(Served) - 1))
    BY ServedFacts
  <2>2. DOMAIN uploads \in SUBSET (0..(nextToken - 1)) BY DEF IInv, TypeOK
  <2>3. QED BY <1>2, <1>6, <2>1, <2>2
<1>8. DOMAIN uploads' = DOMAIN uploads \cup Minted BY PumpTables
<1>9. IsFiniteSet(DOMAIN uploads) /\ Cardinality(DOMAIN uploads) \in Nat
      /\ Cardinality(InProgress) \in Nat
  BY UploadsFinite DEF IInv
<1>10. Cardinality(DOMAIN uploads \cap Minted) = 0 BY <1>7, FS_EmptySet
<1>11. Cardinality(DOMAIN uploads \cup Minted) =
         Cardinality(DOMAIN uploads) + Cardinality(Minted)
           - Cardinality(DOMAIN uploads \cap Minted)
  BY <1>6, <1>9, FS_Union
<1>12. Cardinality(DOMAIN uploads') =
         Cardinality(DOMAIN uploads) + Cardinality(Served)
  BY <1>6, <1>8, <1>9, <1>10, <1>11
<1>13. InProgress' = InProgress BY DEF InProgress
<1>14. QED BY <1>2, <1>5, <1>6, <1>9, <1>12, <1>13 DEF InFlight

\* A step that frees no slot, queues nobody and settles no debt.
LEMMA IdleKept ==
    ASSUME NoIdleSlot, UNCHANGED <<queue, slots, owed, ended>>,
           InFlight' = InFlight
    PROVE  NoIdleSlot'
BY DEF NoIdleSlot

LEMMA IdleStep ==
    ASSUME IInv, NoIdleSlot, [Next /\ slots' <= slots]_vars
    PROVE  NoIdleSlot'
<1>1. CASE UNCHANGED vars BY <1>1, QuietLedger, IdleKept DEF vars, slotVars, jobVars
<1>2. CASE LoopPumps \/ \E t \in ended : ThreadPumps(t)
  <2>1. PumpUploads /\ UNCHANGED <<active, slots>>
    BY <1>2 DEF LoopPumps, ThreadPumps
  <2>2. QED BY <2>1, PumpFills DEF NoIdleSlot
<1>3. CASE owed' = TRUE BY <1>3 DEF NoIdleSlot
<1>4. CASE StartUploadGone \/ PeerClosed
           \/ (\E u \in Users : AddressUnknown(u)) \/ ActorStep
  <2>1. UNCHANGED <<slotVars, queue, slots, owed, ended>>
    BY <1>4 DEF StartUploadGone, PeerClosed, AddressUnknown, ActorStep,
       ActorStarts, ActorEnds, ServeUpload, TransferResponse, jobVars
  <2>2. QED BY <2>1, QuietLedger, IdleKept
<1>5. CASE StartUploadKnown \/ \E u \in Users : AddressKnown(u)
  <2>1. PICK S : SpawnServe(S)
    BY <1>5 DEF StartUploadKnown, AddressKnown
  <2>2. UNCHANGED <<nextToken, queue, slots, owed, ended>>
    BY <1>5 DEF StartUploadKnown, AddressKnown, jobVars
  <2>3. InFlight' = InFlight BY <2>1, <2>2, SpawnTables
  <2>4. QED BY <2>2, <2>3, IdleKept
<1>6. CASE StartUploadUnknown
  <2>1. PICK t \in DOMAIN uploads : uploads' = [uploads EXCEPT ![t].offered = FALSE]
    BY <1>6 DEF StartUploadUnknown
  <2>2. UNCHANGED <<active, nextToken, queue, slots, owed, ended>>
    BY <1>6 DEF StartUploadUnknown, jobVars
  <2>3. InFlight' = InFlight BY <2>1, <2>2, MarkLedger
  <2>4. QED BY <2>2, <2>3, IdleKept
<1>7. CASE PeerFailed /\ owed' # TRUE
  <2> DEFINE u == Head(channel).user
             jobs == {j \in queue : j.user = u}
             held == {t \in DOMAIN uploads : uploads[t].user = u}
  <2>1. jobs = {} /\ held = {} /\ owed' = FALSE BY <1>7 DEF PeerFailed
  <2>2. queue' = queue \ jobs /\ DropUploads(held)
        /\ UNCHANGED <<slots, active, nextToken, ended>>
    BY <1>7 DEF PeerFailed
  <2>3. ~owed BY <1>7 DEF PeerFailed, Takes
  <2> HIDE DEF jobs, held
  <2>4. queue' = queue /\ DOMAIN uploads' = DOMAIN uploads
    BY <2>1, <2>2 DEF DropUploads
  <2>5. InFlight' = InFlight BY <2>2, <2>4 DEF InFlight, InProgress
  <2>6. QED BY <2>1, <2>2, <2>3, <2>4, <2>5 DEF NoIdleSlot
<1>8. CASE \E t \in DOMAIN active, status \in Outcomes : ServeEnds(t, status)
  BY <1>8 DEF ServeEnds, NoIdleSlot
<1>9. CASE \E u \in Users, f \in Files : CancelUpload(u, f)
  <2>1. UNCHANGED <<queue, slots, owed, ended>>
    BY <1>9 DEF CancelUpload, jobVars
  <2>2. InFlight' = InFlight BY <1>9, CancelLedger
  <2>3. QED BY <2>1, <2>2, IdleKept
<1>10. CASE slots' <= slots /\ \E n \in 1..MaxSlots : SetUploadSlots(n)
  <2>1. UNCHANGED <<slotVars, queue, owed, ended>> /\ slots' \in 1..MaxSlots
    BY <1>10 DEF SetUploadSlots, jobVars
  <2>2. InFlight' = InFlight BY <2>1, QuietLedger
  <2>3. InFlight \in Nat /\ slots \in Int /\ MaxSlots \in Int
    BY UploadsFinite, UploadConstants DEF IInv, TypeOK
  <2>4. QED BY <1>10, <2>1, <2>2, <2>3 DEF NoIdleSlot
<1>11. ASSUME (\E u \in Users, f \in Files : QueueUpload(u, f))
              \/ (\E S \in PrivilegedLists : SetPrivilegedUsers(S))
              \/ (\E c \in DOMAIN uploads : SweepStaleOffers(c))
       PROVE  owed' = TRUE
  BY <1>11 DEF QueueUpload, SetPrivilegedUsers, SweepStaleOffers
<1>12. QED
  BY <1>1, <1>2, <1>3, <1>4, <1>5, <1>6, <1>7, <1>8, <1>9, <1>10, <1>11
     DEF Next, LoopStep, ThreadStep, TakesOperation

(* While the slot count is only lowered, nobody waits beside a free slot once   *)
(* the loop and the ended threads have pumped: whatever frees a slot pumps or   *)
(* has the loop pump.  (Raising the count pumps nothing; see UploadQueueRaise.) *)
THEOREM SlotsAreUsed == SpecLowering => []NoIdleSlot
<1>1. Init => IInv /\ NoIdleSlot BY InitInv DEF Init, NoIdleSlot
<1>2. IInv /\ NoIdleSlot /\ [Next /\ slots' <= slots]_vars => (IInv /\ NoIdleSlot)'
  <2> SUFFICES ASSUME IInv, NoIdleSlot, [Next /\ slots' <= slots]_vars
               PROVE  IInv' /\ NoIdleSlot'
    OBVIOUS
  <2>1. [Next]_vars OBVIOUS
  <2>2. QED BY <2>1, NextInv, IdleStep
<1>3. QED BY <1>1, <1>2, PTL DEF SpecLowering
-----------------------------------------------------------------------------
(* Where tokens travel: each leads back to its own peer, and an accepted   *)
(* offer is on the list that serves it.                                    *)

\* Nothing travels under a token that is still to be minted, so that a new
\* offer is never met by an old message.
NoneAhead ==
    /\ \A m \in mailbox : m.token < nextToken
    /\ \A u \in Users : \A t \in serving[u] \cup pendingServes[u] : t < nextToken

RouteInv == IInv /\ NoneAhead /\ RightPeer /\ AcceptedIsRouted

LEMMA InitRoutes == Init => RouteInv
<1> SUFFICES ASSUME Init PROVE RouteInv
  OBVIOUS
<1>1. IInv BY InitInv
<1>2. DOMAIN uploads = {} BY DEF Init
<1>3. mailbox = {} /\ serving = [u \in Users |-> {}]
      /\ pendingServes = [u \in Users |-> {}]
  BY DEF Init
<1>4. NoneAhead BY <1>3 DEF NoneAhead
<1>5. RightPeer /\ AcceptedIsRouted BY <1>2 DEF RightPeer, AcceptedIsRouted
<1>6. QED BY <1>1, <1>4, <1>5 DEF RouteInv
-----------------------------------------------------------------------------
(* Steps that send no token anywhere. *)

\* Jobs stay their peer's, and tokens only leave the places they travel in.
SendsNothing ==
    /\ \A t \in DOMAIN uploads' :
          t \in DOMAIN uploads /\ uploads'[t].user = uploads[t].user
    /\ mailbox' \subseteq mailbox
    /\ \A u \in Users : serving'[u] \subseteq serving[u]
    /\ \A u \in Users : pendingServes'[u] \subseteq pendingServes[u]
    /\ nextToken' = nextToken

LEMMA NothingSent ==
    ASSUME NoneAhead, RightPeer, SendsNothing
    PROVE  NoneAhead' /\ RightPeer'
<1>1. NoneAhead' BY DEF NoneAhead, SendsNothing
<1>2. RightPeer' BY DEF RightPeer, SendsNothing
<1>3. QED BY <1>1, <1>2

\* A job that is left waiting was waiting before, and so was its list.
KeepsRoutes ==
    /\ peerAddresses' = peerAddresses
    /\ \A u \in Users : pendingServes[u] \subseteq pendingServes'[u]
    /\ \A t \in DOMAIN uploads' :
          ~uploads'[t].offered =>
             /\ t \in DOMAIN uploads /\ ~uploads[t].offered
             /\ uploads'[t].user = uploads[t].user

LEMMA RoutesKept ==
    ASSUME TypeOK, AcceptedIsRouted, KeepsRoutes
    PROVE  AcceptedIsRouted'
<1> SUFFICES ASSUME NEW t \in DOMAIN uploads', ~uploads'[t].offered
             PROVE  /\ t \in pendingServes'[uploads'[t].user]
                    /\ uploads'[t].user \notin peerAddresses'
  BY DEF AcceptedIsRouted
<1>1. t \in DOMAIN uploads /\ ~uploads[t].offered
      /\ uploads'[t].user = uploads[t].user
  BY DEF KeepsRoutes
<1>2. uploads[t].user \in Users BY <1>1 DEF TypeOK, Offer
<1>3. QED BY <1>1, <1>2 DEF AcceptedIsRouted, KeepsRoutes

\* What SpawnServe and DropUploads leave in the table they leave as it was.
Shrinks == \A t \in DOMAIN uploads' :
              t \in DOMAIN uploads /\ uploads'[t] = uploads[t]

LEMMA SpawnShrinks == \A S : SpawnServe(S) => Shrinks
BY DEF SpawnServe, Shrinks

LEMMA DropShrinks == \A S : DropUploads(S) => Shrinks
BY DEF DropUploads, Shrinks
-----------------------------------------------------------------------------
(* Steps that do. *)

LEMMA PumpRoutes ==
    ASSUME RouteInv, PumpUploads, UNCHANGED <<active, serving, routeVars>>
    PROVE  NoneAhead' /\ RightPeer' /\ AcceptedIsRouted'
<1>1. IInv /\ NoneAhead /\ RightPeer /\ AcceptedIsRouted BY DEF RouteInv
<1>2. /\ DOMAIN uploads' = DOMAIN uploads \cup Minted
      /\ nextToken' \in Nat /\ nextToken <= nextToken'
      /\ DOMAIN uploads' \in SUBSET (0..(nextToken' - 1))
  BY <1>1, PumpTables
<1>3. nextToken \in Nat /\ Cardinality(Served) \in Nat
      /\ Minted \in SUBSET (nextToken..(nextToken + Cardinality(Served) - 1))
  BY <1>1, ServedFacts DEF IInv, TypeOK
<1>4. \A t \in Minted : t \in Nat /\ nextToken <= t /\ t < nextToken'
  <2>1. nextToken' = nextToken + Cardinality(Served) BY DEF PumpUploads
  <2>2. QED BY <1>3, <2>1
<1>5. \A t \in DOMAIN uploads : t \in Nat /\ t < nextToken
  BY <1>1, <1>3 DEF IInv, TypeOK
<1>6. \A t \in DOMAIN uploads : uploads'[t] = uploads[t]
  BY <1>2 DEF PumpUploads
<1>7. queue \in SUBSET Job /\ IsFiniteSet(queue) /\ DistinctIn(queue)
  BY <1>1 DEF IInv, TypeOK, DistinctSeq, DistinctIn
<1>8. Served \subseteq queue BY DEF Served, Best
<1>9. ASSUME NEW j \in Served, NEW t, t = TokenOf(j)
      PROVE  t \in Minted /\ uploads'[t].user = j.user /\ uploads'[t].offered
  <2> DEFINE job == CHOOSE i \in Served : TokenOf(i) = t
  <2>1. t \in Minted BY <1>9 DEF Minted
  <2>2. t \in DOMAIN uploads' /\ t \notin DOMAIN uploads
    BY <1>2, <1>3, <1>4, <1>5, <2>1
  <2>3. job \in Served /\ TokenOf(job) = t BY <1>9
  <2>4. uploads'[t] = [user |-> job.user, file |-> job.file, offered |-> TRUE]
    BY <2>2 DEF PumpUploads
  <2> HIDE DEF job
  <2>5. Place(queue, job) \in Nat /\ Place(queue, j) \in Nat BY <1>7, PlaceNat
  <2>6. Place(queue, job) = Place(queue, j)
    BY <1>3, <1>9, <2>3, <2>5 DEF TokenOf
  <2>7. job = j BY <1>7, <1>8, <2>3, <2>6, PlaceInjective
  <2>8. QED BY <2>1, <2>4, <2>7
<1>10. \A m \in mailbox' \ mailbox : \E j \in Served :
          m = [user |-> j.user, token |-> TokenOf(j)]
  BY DEF PumpUploads
<1>11. \A m \in mailbox : m.token \in Nat /\ m.token < nextToken
  BY <1>1 DEF NoneAhead, IInv, TypeOK, Serve, Token
<1>12. \A u \in Users : \A t \in serving[u] \cup pendingServes[u] :
          t \in Nat /\ t < nextToken
  BY <1>1 DEF NoneAhead, IInv, TypeOK, Token
<1>13. serving' = serving /\ pendingServes' = pendingServes
       /\ peerAddresses' = peerAddresses
  BY DEF routeVars
<1>14. ASSUME NEW m \in mailbox' \ mailbox
       PROVE  /\ m.token \in Minted /\ m.user = uploads'[m.token].user
  <2>1. PICK j \in Served : m = [user |-> j.user, token |-> TokenOf(j)]
    BY <1>10
  <2>2. m.token = TokenOf(j) /\ m.user = j.user BY <2>1
  <2>3. QED BY <1>9, <2>2
<1>15. NoneAhead'
  <2>1. \A m \in mailbox' : m.token < nextToken'
    BY <1>2, <1>3, <1>4, <1>11, <1>14
  <2>2. \A u \in Users : \A t \in serving'[u] \cup pendingServes'[u] :
           t < nextToken'
    BY <1>2, <1>3, <1>12, <1>13
  <2>3. QED BY <2>1, <2>2 DEF NoneAhead
<1>16. RightPeer'
  <2> SUFFICES ASSUME NEW t \in DOMAIN uploads'
               PROVE  /\ \A m \in mailbox' :
                            m.token = t => m.user = uploads'[t].user
                      /\ \A u \in Users :
                            t \in serving'[u] \cup pendingServes'[u]
                              => u = uploads'[t].user
    BY DEF RightPeer
  <2>1. CASE t \in DOMAIN uploads
    <3>1. \A m \in mailbox : m.token = t => m.user = uploads'[t].user
      BY <1>1, <1>6, <2>1 DEF RightPeer
    <3>2. \A m \in mailbox' \ mailbox : m.token # t
      BY <1>3, <1>4, <1>5, <1>14, <2>1
    <3>3. QED BY <1>1, <1>6, <1>13, <2>1, <3>1, <3>2 DEF RightPeer
  <2>2. CASE t \in Minted
    <3>1. \A m \in mailbox : m.token # t BY <1>3, <1>4, <1>11, <2>2
    <3>2. \A u \in Users : t \notin serving'[u] \cup pendingServes'[u]
      BY <1>3, <1>4, <1>12, <1>13, <2>2
    <3>3. QED BY <1>14, <3>1, <3>2
  <2>3. QED BY <1>2, <2>1, <2>2
<1>17. AcceptedIsRouted'
  <2>1. \A t \in Minted : uploads'[t].offered BY <1>9 DEF Minted
  <2>2. \A t \in DOMAIN uploads' : ~uploads'[t].offered =>
           /\ t \in DOMAIN uploads /\ ~uploads[t].offered
           /\ uploads'[t].user = uploads[t].user
    BY <1>2, <1>6, <2>1
  <2>3. KeepsRoutes BY <1>13, <2>2 DEF KeepsRoutes
  <2>4. QED BY <1>1, <2>3, RoutesKept DEF IInv
<1>18. QED BY <1>15, <1>16, <1>17

\* An accepted offer joins the list of its own peer, whose address is unknown.
LEMMA AcceptRoutes ==
    ASSUME RouteInv, StartUploadUnknown
    PROVE  NoneAhead' /\ RightPeer' /\ AcceptedIsRouted'
<1> DEFINE t == Head(channel).token
           u == uploads[t].user
<1>1. IInv /\ NoneAhead /\ RightPeer /\ AcceptedIsRouted BY DEF RouteInv
<1>2. /\ t \in DOMAIN uploads /\ u \notin peerAddresses
      /\ uploads' = [uploads EXCEPT ![t].offered = FALSE]
      /\ pendingServes' = [pendingServes EXCEPT ![u] = @ \cup {t}]
      /\ UNCHANGED <<nextToken, peerAddresses, actorVars>>
  BY DEF StartUploadUnknown
<1>3. /\ uploads \in [DOMAIN uploads -> Offer]
      /\ DOMAIN uploads \in SUBSET (0..(nextToken - 1)) /\ nextToken \in Nat
      /\ pendingServes \in [Users -> SUBSET Token]
  BY <1>1 DEF IInv, TypeOK
<1>4. u \in Users BY <1>2, <1>3 DEF Offer
<1>5. u = uploads[t].user OBVIOUS
<1> HIDE DEF t, u
<1>6. t < nextToken BY <1>2, <1>3
<1>7. /\ DOMAIN uploads' = DOMAIN uploads
      /\ \A v \in DOMAIN uploads : uploads'[v].user = uploads[v].user
      /\ \A v \in DOMAIN uploads \ {t} : uploads'[v] = uploads[v]
  BY <1>2, <1>3 DEF Offer
<1>8. /\ pendingServes'[u] = pendingServes[u] \cup {t}
      /\ \A w \in Users \ {u} : pendingServes'[w] = pendingServes[w]
  BY <1>2, <1>3, <1>4
<1>9. NoneAhead' BY <1>1, <1>2, <1>6, <1>8 DEF NoneAhead, actorVars
<1>10. RightPeer' BY <1>1, <1>2, <1>5, <1>7, <1>8 DEF RightPeer, actorVars
<1>11. AcceptedIsRouted'
  <2> SUFFICES ASSUME NEW v \in DOMAIN uploads', ~uploads'[v].offered
               PROVE  /\ v \in pendingServes'[uploads'[v].user]
                      /\ uploads'[v].user \notin peerAddresses'
    BY DEF AcceptedIsRouted
  <2> DEFINE w == uploads[v].user
  <2>1. v \in DOMAIN uploads /\ uploads'[v].user = w /\ peerAddresses' = peerAddresses
    BY <1>2, <1>7
  <2>2. v \in pendingServes'[w] /\ w \notin peerAddresses
    <3>1. CASE v = t BY <1>2, <1>5, <1>8, <3>1
    <3>2. CASE v # t
      <4>1. uploads'[v] = uploads[v] BY <1>7, <2>1, <3>2
      <4>2. v \in pendingServes[w] /\ w \notin peerAddresses
        BY <1>1, <2>1, <4>1 DEF AcceptedIsRouted
      <4>3. w \in Users BY <1>3, <2>1 DEF Offer
      <4>4. QED BY <1>8, <4>2, <4>3
    <3>3. QED BY <3>1, <3>2
  <2> HIDE DEF w
  <2>3. QED BY <2>1, <2>2
<1>12. QED BY <1>9, <1>10, <1>11

\* An address serves the whole list of its peer, so nothing accepted is left.
LEMMA AddressRoutes ==
    ASSUME RouteInv, NEW u \in Users, AddressKnown(u)
    PROVE  NoneAhead' /\ RightPeer' /\ AcceptedIsRouted'
<1>1. IInv /\ NoneAhead /\ RightPeer /\ AcceptedIsRouted BY DEF RouteInv
<1>2. /\ peerAddresses' = peerAddresses \cup {u}
      /\ pendingServes' = [pendingServes EXCEPT ![u] = {}]
      /\ SpawnServe(pendingServes[u])
      /\ UNCHANGED <<nextToken, actorVars>>
  BY DEF AddressKnown
<1>3. uploads \in [DOMAIN uploads -> Offer]
      /\ pendingServes \in [Users -> SUBSET Token]
  BY <1>1 DEF IInv, TypeOK
<1>4. Shrinks BY <1>2, SpawnShrinks
<1>5. DOMAIN uploads' \cap pendingServes[u] = {} BY <1>2 DEF SpawnServe
<1>6. /\ pendingServes'[u] = {}
      /\ \A w \in Users \ {u} : pendingServes'[w] = pendingServes[w]
  BY <1>2, <1>3
<1>7. SendsNothing BY <1>2, <1>4, <1>6 DEF SendsNothing, Shrinks, actorVars
<1>8. AcceptedIsRouted'
  <2> SUFFICES ASSUME NEW t \in DOMAIN uploads', ~uploads'[t].offered
               PROVE  /\ t \in pendingServes'[uploads'[t].user]
                      /\ uploads'[t].user \notin peerAddresses'
    BY DEF AcceptedIsRouted
  <2>1. t \in DOMAIN uploads /\ uploads'[t] = uploads[t] BY <1>4 DEF Shrinks
  <2>2. /\ t \in pendingServes[uploads[t].user]
        /\ uploads[t].user \notin peerAddresses
    BY <1>1, <2>1 DEF AcceptedIsRouted
  <2>3. uploads[t].user \in Users BY <1>3, <2>1 DEF Offer
  <2>4. uploads[t].user # u BY <1>5, <2>2
  <2>5. QED BY <1>2, <1>6, <2>1, <2>2, <2>3, <2>4
<1>9. QED BY <1>1, <1>7, <1>8, NothingSent

\* The actor carries a message's token on to its own peer.
LEMMA MailRoutes ==
    ASSUME RouteInv, NEW m \in mailbox, ServeUpload(m)
    PROVE  NoneAhead' /\ RightPeer' /\ AcceptedIsRouted'
<1>1. IInv /\ NoneAhead /\ RightPeer /\ AcceptedIsRouted BY DEF RouteInv
<1>2. /\ mailbox' \subseteq mailbox
      /\ serving' = IF m.user \in connected
                    THEN [serving EXCEPT ![m.user] = @ \cup {m.token}]
                    ELSE serving
      /\ UNCHANGED <<slotVars, routeVars>>
  BY DEF ServeUpload
<1>3. serving \in [Users -> SUBSET Token] BY <1>1 DEF IInv, TypeOK
<1>4. \A u \in Users : \A t \in serving'[u] :
         t \in serving[u] \/ (u = m.user /\ t = m.token)
  BY <1>2, <1>3
<1>5. uploads' = uploads /\ nextToken' = nextToken
      /\ pendingServes' = pendingServes /\ peerAddresses' = peerAddresses
  BY <1>2 DEF slotVars, routeVars
<1>6. NoneAhead' BY <1>1, <1>2, <1>4, <1>5 DEF NoneAhead
<1>7. RightPeer' BY <1>1, <1>2, <1>4, <1>5 DEF RightPeer
<1>8. AcceptedIsRouted' BY <1>1, <1>5 DEF AcceptedIsRouted
<1>9. QED BY <1>6, <1>7, <1>8
-----------------------------------------------------------------------------
(* Every step. *)

LEMMA QuietRoutes ==
    ASSUME RouteInv, SendsNothing, KeepsRoutes
    PROVE  NoneAhead' /\ RightPeer' /\ AcceptedIsRouted'
BY NothingSent, RoutesKept DEF RouteInv, IInv

LEMMA StillRoutes ==
    ASSUME RouteInv, Shrinks \/ UNCHANGED uploads,
           UNCHANGED <<nextToken, routeVars, mailbox>>,
           \A u \in Users : serving'[u] \subseteq serving[u]
    PROVE  NoneAhead' /\ RightPeer' /\ AcceptedIsRouted'
<1>1. SendsNothing BY DEF SendsNothing, Shrinks, routeVars
<1>2. UNCHANGED <<peerAddresses, pendingServes>> BY DEF routeVars
<1>3. KeepsRoutes BY <1>2 DEF KeepsRoutes, Shrinks
<1>4. QED BY <1>1, <1>3, QuietRoutes

LEMMA RouteStep ==
    ASSUME RouteInv, [Next]_vars
    PROVE  NoneAhead' /\ RightPeer' /\ AcceptedIsRouted'
<1>1. CASE UNCHANGED vars
  BY <1>1, StillRoutes DEF vars, slotVars, actorVars
<1>2. CASE LoopPumps \/ \E t \in ended : ThreadPumps(t)
  <2>1. PumpUploads /\ UNCHANGED <<active, serving, routeVars>>
    BY <1>2 DEF LoopPumps, ThreadPumps
  <2>2. QED BY <2>1, PumpRoutes
<1>3. CASE \/ \E u \in Users, f \in Files : QueueUpload(u, f)
           \/ \E S \in PrivilegedLists : SetPrivilegedUsers(S)
           \/ StartUploadGone \/ PeerClosed
  BY <1>3, StillRoutes DEF QueueUpload, SetPrivilegedUsers, StartUploadGone,
                           PeerClosed, slotVars, actorVars
<1>4. CASE \E c \in DOMAIN uploads : SweepStaleOffers(c)
  BY <1>4, DropShrinks, StillRoutes DEF SweepStaleOffers, actorVars
<1>5. CASE StartUploadKnown
  BY <1>5, SpawnShrinks, StillRoutes DEF StartUploadKnown, actorVars
<1>6. CASE StartUploadUnknown BY <1>6, AcceptRoutes
<1>7. CASE PeerFailed
  BY <1>7, DropShrinks, StillRoutes DEF PeerFailed, actorVars
<1>8. CASE \E u \in Users : AddressKnown(u) BY <1>8, AddressRoutes
<1>9. CASE \E u \in Users : AddressUnknown(u)
  <2>1. UNCHANGED <<slotVars, peerAddresses, pendingServes, actorVars>>
    BY <1>9 DEF AddressUnknown
  <2>2. SendsNothing BY <2>1 DEF SendsNothing, slotVars, actorVars
  <2>3. KeepsRoutes BY <2>1 DEF KeepsRoutes, slotVars
  <2>4. QED BY <2>2, <2>3, QuietRoutes
<1>10. CASE \E u \in Users : ActorStarts(u)
  BY <1>10, StillRoutes DEF ActorStarts, slotVars
<1>11. CASE \E u \in Users, error \in BOOLEAN : ActorEnds(u, error)
  <2>1. PICK u \in Users, error \in BOOLEAN : ActorEnds(u, error) BY <1>11
  <2>2. serving' = [serving EXCEPT ![u] = {}]
        /\ UNCHANGED <<slotVars, routeVars, mailbox>>
    BY <2>1 DEF ActorEnds
  <2>3. serving \in [Users -> SUBSET Token] BY DEF RouteInv, IInv, TypeOK
  <2>4. \A w \in Users : serving'[w] \subseteq serving[w] BY <2>2, <2>3
  <2>5. QED BY <2>2, <2>4, StillRoutes DEF slotVars
<1>12. CASE \E m \in mailbox : ServeUpload(m) BY <1>12, MailRoutes
<1>13. CASE \E u \in Users : \E t \in serving[u], allowed \in BOOLEAN :
               TransferResponse(u, t, allowed)
  <2>1. PICK u \in Users : \E t \in serving[u], allowed \in BOOLEAN :
               TransferResponse(u, t, allowed)
    BY <1>13
  <2>2. PICK t \in serving[u], allowed \in BOOLEAN :
               TransferResponse(u, t, allowed)
    BY <2>1
  <2>3. serving' = [serving EXCEPT ![u] = @ \ {t}]
        /\ UNCHANGED <<slotVars, routeVars, mailbox>>
    BY <2>2 DEF TransferResponse
  <2>4. serving \in [Users -> SUBSET Token] BY DEF RouteInv, IInv, TypeOK
  <2>5. \A w \in Users : serving'[w] \subseteq serving[w] BY <2>3, <2>4
  <2>6. QED BY <2>3, <2>5, StillRoutes DEF slotVars
<1>14. CASE \/ \E t \in DOMAIN active, status \in Outcomes : ServeEnds(t, status)
            \/ \E u \in Users, f \in Files : CancelUpload(u, f)
            \/ \E n \in 1..MaxSlots : SetUploadSlots(n)
  BY <1>14, StillRoutes DEF ServeEnds, CancelUpload, SetUploadSlots, slotVars,
                            actorVars
<1>15. QED
  BY <1>1, <1>2, <1>3, <1>4, <1>5, <1>6, <1>7, <1>8, <1>9, <1>10, <1>11,
     <1>12, <1>13, <1>14
  DEF Next, LoopStep, TakesOperation, ActorStep, ThreadStep

THEOREM RoutesAlways == Spec => []RouteInv
<1>1. Init => RouteInv BY InitRoutes
<1>2. RouteInv /\ [Next]_vars => RouteInv' BY NextInv, RouteStep DEF RouteInv
<1>3. QED BY <1>1, <1>2, PTL DEF Spec

(* A token in a mailbox, with an actor or on a waiting list belongs to a job of *)
(* the peer it travels with, so that no job is streamed to another's address.   *)
THEOREM TokensKeepTheirPeer == Spec => []RightPeer
<1>1. RouteInv => RightPeer BY DEF RouteInv
<1>2. QED BY <1>1, RoutesAlways, PTL

(* An accepted offer, which no longer expires, is on the list that the address  *)
(* of its peer will serve.                                                      *)
THEOREM AcceptedAreRouted == Spec => []AcceptedIsRouted
<1>1. RouteInv => AcceptedIsRouted BY DEF RouteInv
<1>2. QED BY <1>1, RoutesAlways, PTL
=============================================================================
