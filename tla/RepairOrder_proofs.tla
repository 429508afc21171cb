------------------------- MODULE RepairOrder_proofs -------------------------
(***************************************************************************)
(* Proofs about RepairOrder, for every number of quote lines, versions and *)
(* cost entries, every scene, and any number of requests that write on the *)
(* strength of a state that others have replaced.                          *)
(***************************************************************************)
EXTENDS RepairOrder, SequenceTheorems, FiniteSetTheorems, WellFoundedInduction, TLAPS

-----------------------------------------------------------------------------
(***************************************************************************)
(* Facts about the operators of the model.                                 *)
(***************************************************************************)

\* A nonempty finite set of numbers has a greatest element, so that Newest
\* chooses one.
LEMMA GreatestExists ==
  ASSUME NEW S \in SUBSET Int, IsFiniteSet(S), S # {}
  PROVE  \E m \in S : \A x \in S : x <= m
<1> DEFINE Above(x) == {y \in S : y > x}
           F == {Above(x) : x \in S}
           R == StrictSubsetOrdering(S)
<1>1. IsWellFoundedOn(R, SUBSET S)
  BY FS_StrictSubsetOrderingWellFounded, FS_FiniteSubsetsOfFinite
<1>2. F \subseteq SUBSET S /\ F # {}
  OBVIOUS
<1> HIDE DEF R
<1>3. PICK T \in F : \A U \in F : <<U, T>> \notin R
  BY <1>1, <1>2, WFMin
<1>4. PICK m \in S : T = Above(m)
  BY <1>3
<1>5. ASSUME NEW x \in S, x > m
      PROVE  FALSE
  <2>1. Above(x) \subseteq Above(m) /\ Above(x) # Above(m)
    <3>1. x \in Above(m) /\ x \notin Above(x)
      BY <1>5
    <3>2. \A y \in Above(x) : y \in Above(m)
      BY <1>5
    <3> QED
      BY <3>1, <3>2
  <2>2. <<Above(x), Above(m)>> \in R
    BY <2>1, <1>2 DEF R, StrictSubsetOrdering
  <2> QED
    BY <2>2, <1>3, <1>4
<1> QED
  BY <1>5

\* Among versions that exist, Newest finds one, and no other is above it.
LEMMA NewestIsGreatest ==
  ASSUME NEW s, NEW vs \in SUBSET Versions, vs # {}
  PROVE  Newest(s, vs) \in vs /\ \A w \in vs : w <= Newest(s, vs)
<1>1. IsFiniteSet(Versions) /\ Versions \subseteq Int
  BY ConstantsAssumption, FS_Interval DEF Versions
<1>2. IsFiniteSet(vs)
  BY <1>1, FS_Subset
<1>3. \E m \in vs : \A w \in vs : w <= m
  BY <1>1, <1>2, GreatestExists
<1> QED
  BY <1>3 DEF Newest

\* The version a new quote would get: the first one that no version of the
\* order reaches.
LEMMA NextVersionFacts ==
  ASSUME NEW s
  PROVE  /\ NextVersion(s) \in Nat \ {0}
         /\ NextVersion(s) # 1 => /\ NextVersion(s) - 1 \in Versions
                                  /\ Exists(s, NextVersion(s) - 1)
         /\ \A v \in Versions : Exists(s, v) => v < NextVersion(s)
<1> DEFINE vs == {v \in Versions : Exists(s, v)}
<1>1. CASE vs = {}
  BY <1>1 DEF NextVersion
<1>2. CASE vs # {}
  <2>1. Newest(s, vs) \in vs /\ \A w \in vs : w <= Newest(s, vs)
    BY <1>2, NewestIsGreatest
  <2>2. NextVersion(s) = Newest(s, vs) + 1
    BY <1>2 DEF NextVersion
  <2>3. Versions \subseteq Nat \ {0}
    BY ConstantsAssumption DEF Versions
  <2>4. Newest(s, vs) \in Versions /\ Exists(s, Newest(s, vs))
    BY <2>1
  <2>5. \A v \in Versions : Exists(s, v) => v <= Newest(s, vs)
    BY <2>1
  <2> DEFINE n == Newest(s, vs)
  <2>6. /\ NextVersion(s) = n + 1 /\ n \in Versions /\ Exists(s, n)
        /\ \A v \in Versions : Exists(s, v) => v <= n
    BY <2>2, <2>4, <2>5
  <2> HIDE DEF n
  <2>7. n \in Nat /\ n # 0
    BY <2>3, <2>6
  <2>8. NextVersion(s) - 1 = n /\ NextVersion(s) \in Nat \ {0}
    BY <2>6, <2>7
  <2>9. \A v \in Versions : Exists(s, v) => v < NextVersion(s)
    BY <2>3, <2>6, <2>7
  <2> QED
    BY <2>6, <2>8, <2>9
<1> QED
  BY <1>1, <1>2

\* advanceCaseToAtLeast changes the stage of the case and nothing else.
LEMMA AtLeastIsStage ==
  ASSUME NEW d \in Database, NEW stage \in Stages
  PROVE  \E x \in {d.stage, stage} : AtLeast(d, stage) = [d EXCEPT !.stage = x]
<1>1. d.stage \in Stages
  BY DEF Database
<1> QED
  BY <1>1 DEF AtLeast

-----------------------------------------------------------------------------
(***************************************************************************)
(* The inductive invariant.  What a request tests belongs to a state s     *)
(* that may be gone, so the invariant says of every state a request may    *)
(* still act on, of Snapshots, what it says of the database; and the       *)
(* columns that are never taken back, Kept, carry a test of s over to the  *)
(* database the request writes.                                            *)
(***************************************************************************)
Jobs(d) ==
    /\ d.supplement <=> d.ready1
    /\ d.supplementVersion # 0 => d.supplement
    /\ \A v \in Versions : d.quotes[v].lucrareIndex = 2 => d.supplement

ClosedCase(d) == d.resolved \/ d.stage = "closed" => d.completed

Kept(s, d) ==
    /\ s.supplement => d.supplement
    /\ s.completed => d.completed

\* Decisions on the repair and what they wait for; work on a damaged vehicle.
Decided(d) == d.ready \/ d.ready1 \/ d.awaiting \/ d.path # "none"
Approval(d) == With(d, "approved") # {} \/ InsurerReady(d)
UnderRepair(d) == isDamage /\ (d.in2 \/ (d.status = "in_progress" /\ ~d.supplement))

Recorded(d) ==
    /\ Decided(d) \/ Approval(d) => agreed
    /\ UnderRepair(d) => cleared

\* A synchronisation carries on only what the insurer has accepted.
Carried(c) ==
    /\ c.accepted => agreed
    /\ c.step \in {"lines", "case", "ready"} => c.accepted

IInv ==
    /\ TypeOK
    /\ \A s \in Snapshots : Jobs(s) /\ ClosedCase(s) /\ Kept(s, db) /\ Recorded(s)
    /\ \A s \in Snapshots : \A t \in Later(s) : GateOpen(s, t) => cleared
    /\ \A k \in Syncs : Carried(syncs[k])

\* What a request may leave as the database.
Fits(d) ==
    /\ d \in Database
    /\ Jobs(d) /\ ClosedCase(d) /\ Kept(db, d)
    /\ Decided(d) => agreed \/ Approval(d)
    /\ UnderRepair(d) => cleared

\* Every state a request may have read is well typed; it may be the present one.
LEMMA SnapshotsTyped ==
  ASSUME TypeOK, NEW s \in Snapshots
  PROVE  s \in Database /\ db \in Snapshots
BY DEF TypeOK, Snapshots

\* The states of past after a commit: the database it replaced and those before.
LEMMA PastAfter ==
  ASSUME TypeOK, NEW s, NEW new, Commit(s, new)
  PROVE  /\ past' \in Seq(Database) /\ Len(past') <= MaxPast
         /\ \A i \in DOMAIN past' : past'[i] \in Snapshots
         /\ \A i, j \in DOMAIN past' : i >= j => past'[j] \in Later(past'[i])
<1> DEFINE both == <<db>> \o past
           n == IF Len(past) < MaxPast THEN Len(past) + 1 ELSE MaxPast
<1>1. past \in Seq(Database) /\ Len(past) \in Nat /\ MaxPast \in Nat /\ Len(past) <= MaxPast
  BY ConstantsAssumption DEF TypeOK
<1>2. past' = <<>> \/ past' = SubSeq(both, 1, n)
  BY DEF Commit
<1>3. <<db>> \in Seq(Database) /\ Len(<<db>>) = 1
  BY DEF TypeOK
<1>4. /\ Len(both) = Len(past) + 1
      /\ \A i \in 1 .. Len(past) + 1 : both[i] = IF i <= 1 THEN db ELSE past[i - 1]
  BY <1>1, <1>3, ConcatProperties
<1>5. \A i \in 1 .. Len(past) + 1 : both[i] \in Snapshots /\ both[i] \in Database
  <2> TAKE i \in 1 .. Len(past) + 1
  <2>1. CASE i = 1
    BY <2>1, <1>4 DEF Snapshots, TypeOK
  <2>2. CASE i # 1
    <3>1. both[i] = past[i - 1] /\ i - 1 \in DOMAIN past
      BY <2>2, <1>1, <1>4
    <3> QED
      BY <3>1, <1>1 DEF Snapshots
  <2> QED
    BY <2>1, <2>2
<1>9. \A i, j \in 1 .. Len(past) + 1 : i >= j => both[j] \in Later(both[i])
  <2> TAKE i, j \in 1 .. Len(past) + 1
  <2> HAVE i >= j
  <2>1. CASE j = 1
    BY <2>1, <1>4 DEF Later
  <2>2. CASE j # 1
    <3>1. /\ both[i] = past[i - 1] /\ both[j] = past[j - 1] /\ i - 1 >= j - 1
          /\ i - 1 \in DOMAIN past /\ j - 1 \in DOMAIN past
      BY <2>2, <1>1, <1>4
    <3> QED
      BY <3>1 DEF Later
  <2> QED
    BY <2>1, <2>2
<1> HIDE DEF both
<1>6. n \in Nat /\ n <= Len(past) + 1 /\ n <= MaxPast
  BY <1>1
<1> HIDE DEF n
<1>7. CASE past' = SubSeq(both, 1, n)
  <2>1. /\ \A i \in 1 .. n : both[i] \in Snapshots /\ both[i] \in Database
        /\ \A i, j \in 1 .. n : i >= j => both[j] \in Later(both[i])
    BY <1>1, <1>5, <1>6, <1>9
  <2>2. /\ past' \in Seq(Database)
        /\ Len(past') = (IF 1 <= n THEN n - 1 + 1 ELSE 0)
        /\ \A i \in 1 .. n - 1 + 1 : past'[i] = both[1 + i - 1]
    BY <1>6, <1>7, <2>1, SubSeqProperties
  <2>3. Len(past') = n
    BY <1>6, <2>2
  <2> QED
    BY <1>6, <2>1, <2>2, <2>3
<1>8. CASE past' = <<>>
  BY <1>1, <1>8
<1> QED
  BY <1>2, <1>7, <1>8

\* What a request reads after s it could have read after s before the last commit,
\* unless it is what that commit has written.
LEMMA LaterAfter ==
  ASSUME TypeOK, NEW s, NEW new, Commit(s, new),
         NEW r \in Snapshots', NEW t \in Later(r)'
  PROVE  /\ r = new \/ r \in Snapshots
         /\ t = new \/ (r \in Snapshots /\ t \in Later(r))
<1>1. db' = new
  BY DEF Commit
<1>2. /\ \A i \in DOMAIN past' : past'[i] \in Snapshots
      /\ \A i, j \in DOMAIN past' : i >= j => past'[j] \in Later(past'[i])
  BY PastAfter
<1>3. t = db' \/ \E i, j \in DOMAIN past' : i >= j /\ r = past'[i] /\ t = past'[j]
  BY DEF Later
<1> QED
  BY <1>1, <1>2, <1>3 DEF Snapshots

\* A commit that leaves a fitting database keeps the invariant.
LEMMA FitsKeeps ==
  ASSUME IInv, NEW s \in Snapshots, NEW new, Fits(new), Commit(s, new),
         syncs' \in [Syncs -> Sync],
         \A k \in Syncs :
            /\ syncs'[k].accepted => agreed \/ Approval(new)
            /\ syncs'[k].step \in {"lines", "case", "ready"} => syncs'[k].accepted
  PROVE  IInv'
<1>1. db' = new /\ scene' = scene /\ cut' = cut
  BY DEF Commit
<1>2. /\ agreed' = (agreed \/ Approval(new))
      /\ cleared' = (cleared \/ \E r \in Snapshots' : GateOpen(r, new))
  BY DEF Commit, Approval
<1>3. TypeOK /\ agreed \in BOOLEAN /\ cleared \in BOOLEAN
  BY DEF IInv, TypeOK
<1>4. overlaps' \in Nat
  BY <1>3 DEF Commit, Count, TypeOK
<1>5. TypeOK'
  BY <1>1, <1>2, <1>3, <1>4, PastAfter DEF TypeOK, Fits
<1>6. \A k \in Syncs : Carried(syncs[k])'
  BY <1>2 DEF Carried
<1>7. ASSUME NEW t \in Snapshots'
      PROVE  Jobs(t) /\ ClosedCase(t) /\ Kept(t, db') /\ Recorded(t)'
  <2>1. t = new \/ t \in Snapshots
    BY <1>1, <1>3, PastAfter DEF Snapshots
  <2>2. CASE t = new
    <3>1. Jobs(t) /\ ClosedCase(t) /\ Kept(t, db')
      BY <1>1, <2>2 DEF Fits, Kept
    <3>2. Decided(new) \/ Approval(new) => agreed'
      BY <1>2, <1>3 DEF Fits
    <3>3. UnderRepair(new) => cleared'
      BY <1>2, <1>3 DEF Fits
    <3> QED
      BY <3>1, <3>2, <3>3, <2>2, <1>1 DEF Recorded, UnderRepair, isDamage
  <2>3. CASE t \in Snapshots
    <3>1. Jobs(t) /\ ClosedCase(t) /\ Kept(t, db) /\ Recorded(t)
      BY <2>3 DEF IInv
    <3>2. Kept(t, db')
      BY <3>1, <1>1 DEF Fits, Kept
    <3>3. Recorded(t)'
      BY <3>1, <1>1, <1>2, <1>3 DEF Recorded, UnderRepair, isDamage
    <3> QED
      BY <3>1, <3>2, <3>3
  <2> QED
    BY <2>1, <2>2, <2>3
<1>8. ASSUME NEW r \in Snapshots', NEW t \in Later(r)', GateOpen(r, t)'
      PROVE  cleared'
  <2>1. GateOpen(r, t)
    BY <1>1, <1>8 DEF GateOpen, isDamage
  <2>2. t = new \/ (r \in Snapshots /\ t \in Later(r))
    BY <1>3, LaterAfter
  <2> QED
    BY <1>2, <2>1, <2>2 DEF IInv
<1> QED
  BY <1>5, <1>6, <1>7, <1>8 DEF IInv

-----------------------------------------------------------------------------
(***************************************************************************)
(* Writing a quote, and writing the stage, keep what fits.                 *)
(***************************************************************************)

\* A database that fits, with one quote replaced by one that fits too.
LEMMA QuoteFits ==
  ASSUME NEW d \in Database, NEW v \in Versions, NEW q \in Quote,
         Jobs(d), ClosedCase(d), Kept(db, d),
         Decided(d) => \/ agreed
                       \/ q.status = "approved"
                       \/ InsurerReady(d),
         UnderRepair(d) => cleared,
         q.lucrareIndex = 2 => d.supplement
  PROVE  /\ Fits([d EXCEPT !.quotes[v] = q])
         /\ [d EXCEPT !.quotes[v] = q].quotes[v] = q
<1> DEFINE new == [d EXCEPT !.quotes[v] = q]
<1>1. new \in Database
  BY DEF Database
<1>2. /\ new.supplement = d.supplement /\ new.ready1 = d.ready1 /\ new.completed = d.completed
      /\ new.supplementVersion = d.supplementVersion /\ new.resolved = d.resolved /\ new.stage = d.stage
      /\ new.ready = d.ready /\ new.awaiting = d.awaiting /\ new.path = d.path
      /\ new.in2 = d.in2 /\ new.status = d.status /\ new.pipeline = d.pipeline
      /\ new.agreedAt = d.agreedAt
  BY DEF Database
<1>3. \A w \in Versions : new.quotes[w] = IF w = v THEN q ELSE d.quotes[w]
  BY DEF Database
<1> HIDE DEF new
<1>4. Jobs(new) /\ ClosedCase(new) /\ Kept(db, new)
  BY <1>2, <1>3 DEF Jobs, ClosedCase, Kept
<1>5. Decided(new) => agreed \/ Approval(new)
  <2>1. q.status = "approved" => v \in With(new, "approved")
    BY <1>3 DEF With
  <2> QED
    BY <1>2, <2>1 DEF Decided, Approval, InsurerReady
<1>6. UnderRepair(new) => cleared
  BY <1>2 DEF UnderRepair, InsurerReady
<1> QED
  BY <1>1, <1>3, <1>4, <1>5, <1>6 DEF Fits, new

\* The same without a quote.
LEMMA StageFits ==
  ASSUME NEW d, Fits(d), NEW stage \in Stages \ {"closed"}
  PROVE  /\ Fits(AtLeast(d, stage))
         /\ Decided(AtLeast(d, stage)) => Decided(d)
         /\ InsurerReady(d) => InsurerReady(AtLeast(d, stage))
         /\ AtLeast(d, stage).quotes = d.quotes
         /\ AtLeast(d, stage).supplement = d.supplement
         /\ ClosedCase(d) => ClosedCase(AtLeast(d, stage))
<1>1. d \in Database
  BY DEF Fits
<1>2. PICK x \in {d.stage, stage} : AtLeast(d, stage) = [d EXCEPT !.stage = x]
  BY <1>1, AtLeastIsStage
<1> DEFINE new == [d EXCEPT !.stage = x]
<1>3. x \in Stages /\ new \in Database
  BY <1>1 DEF Database
<1>4. /\ new.supplement = d.supplement /\ new.ready1 = d.ready1
      /\ new.supplementVersion = d.supplementVersion /\ new.resolved = d.resolved
      /\ new.completed = d.completed /\ (new.stage = "closed" => d.stage = "closed")
      /\ new.ready = d.ready /\ new.awaiting = d.awaiting /\ new.path = d.path
      /\ new.in2 = d.in2 /\ new.status = d.status /\ new.pipeline = d.pipeline
      /\ new.agreedAt = d.agreedAt /\ new.quotes = d.quotes
  BY <1>1 DEF Database
<1> HIDE DEF new
<1>5. Jobs(new) /\ ClosedCase(new) /\ Kept(db, new)
  BY <1>4 DEF Jobs, ClosedCase, Kept, Fits
<1>6. /\ Decided(new) => agreed \/ Approval(new)
      /\ Decided(new) => Decided(d)
      /\ InsurerReady(d) => InsurerReady(new)
  BY <1>4 DEF Decided, Approval, InsurerReady, With, Fits
<1>7. UnderRepair(new) => cleared
  BY <1>4 DEF UnderRepair, InsurerReady, Fits
<1> QED
  BY <1>2, <1>3, <1>4, <1>5, <1>6, <1>7 DEF Fits, new

\* Under the invariant the database itself fits.
LEMMA DbFits ==
  ASSUME IInv
  PROVE  /\ Fits(db) /\ db \in Database
         /\ Jobs(db) /\ ClosedCase(db) /\ Kept(db, db) /\ Recorded(db)
         /\ \A v \in Versions : db.quotes[v] \in Quote
         /\ Decided(db) => agreed
<1>1. db \in Snapshots /\ db \in Database
  BY DEF IInv, TypeOK, Snapshots
<1>2. Jobs(db) /\ ClosedCase(db) /\ Kept(db, db) /\ Recorded(db)
  BY <1>1 DEF IInv
<1>3. Fits(db)
  BY <1>1, <1>2 DEF Fits, Recorded
<1>4. \A v \in Versions : db.quotes[v] \in Quote
  BY <1>1 DEF Database
<1> QED
  BY <1>1, <1>2, <1>3, <1>4 DEF Recorded

\* A fitting database in which decisions have been agreed takes any quote that
\* fits.
LEMMA QuoteFitsIn ==
  ASSUME NEW d, Fits(d), NEW v \in Versions, NEW q \in Quote,
         Decided(d) => agreed \/ q.status = "approved" \/ InsurerReady(d),
         q.lucrareIndex = 2 => d.supplement
  PROVE  Fits([d EXCEPT !.quotes[v] = q])
BY QuoteFits DEF Fits

\* What the invariant says of the state a request has read.
LEMMA ReadFacts ==
  ASSUME IInv, NEW s \in Snapshots
  PROVE  /\ s \in Database
         /\ s.supplement => db.supplement
         /\ s.ready1 => s.supplement
         /\ s.completed => db.completed
         /\ ClosedCase(s)
         /\ Decided(s) \/ Approval(s) => agreed
         /\ UnderRepair(s) => cleared
         /\ \A v \in Versions : s.quotes[v] \in Quote
<1>1. s \in Database
  BY SnapshotsTyped DEF IInv
<1>2. \A v \in Versions : s.quotes[v] \in Quote
  BY <1>1 DEF Database
<1> QED
  BY <1>1, <1>2 DEF IInv, Jobs, Kept, Recorded

\* ... and of what it has read twice.
LEMMA TwoReads ==
  ASSUME IInv, NEW s \in Snapshots, NEW t \in Later(s)
  PROVE  /\ t \in Snapshots
         /\ Older(s, t) \in Snapshots
         /\ GateOpen(s, t) => cleared
<1>1. t \in Snapshots
  BY DEF Later, Snapshots
<1> QED
  BY <1>1 DEF Older, IInv

-----------------------------------------------------------------------------
(***************************************************************************)
(* Every request leaves a database that fits.  First the quotes.           *)
(***************************************************************************)
Committed(s) == \E new : Fits(new) /\ Commit(s, new)

\* A request that leaves the synchronisations of the claim alone.
LEMMA CommittedKeeps ==
  ASSUME IInv, NEW s \in Snapshots, Committed(s), UNCHANGED syncs
  PROVE  IInv'
<1>1. PICK new : Fits(new) /\ Commit(s, new)
  BY DEF Committed
<1>2. \A k \in Syncs : Carried(syncs[k]) /\ syncs'[k] = syncs[k]
  BY DEF IInv
<1>3. \A k \in Syncs :
         /\ syncs'[k].accepted => agreed \/ Approval(new)
         /\ syncs'[k].step \in {"lines", "case", "ready"} => syncs'[k].accepted
  BY <1>2, Zenon DEF Carried
<1>4. syncs' \in [Syncs -> Sync]
  BY DEF IInv, TypeOK
<1> QED
  BY <1>1, <1>3, <1>4, FitsKeeps

\* The stages the requests write.
LEMMA StageNames ==
  {"scheduled", "work_order", "in_service", "out_service", "quote", "approval",
   "invoiced", "cost", "closed"} \subseteq Stages
BY DEF Stages, StageOrder

\* A request that changes one quote of the database and perhaps its stage.
LEMMA ChangeQuoteCommits ==
  ASSUME IInv, NEW s \in Snapshots, NEW v \in Versions, NEW d, NEW q \in Quote,
         \/ d = db
         \/ \E stage \in Stages \ {"closed"} : d = AtLeast(db, stage),
         q.lucrareIndex \in {db.quotes[v].lucrareIndex, 1} \/ db.supplement,
         ChangeQuote(s, v, d, q)
  PROVE  Committed(s) /\ UNCHANGED syncs
<1>1. /\ Fits(d) /\ d.supplement = db.supplement
      /\ Decided(d) => agreed
  BY DbFits, StageFits
<1>2. q.lucrareIndex = 2 => d.supplement
  BY <1>1, DbFits DEF Jobs
<1>4. Fits([d EXCEPT !.quotes[v] = q])
  BY <1>1, <1>2, QuoteFitsIn
<1> QED
  BY <1>4 DEF ChangeQuote, Committed

\* The following lemmas take the operations of the quotes one by one: each is a
\* commit that keeps what IInv says of the database it writes.
LEMMA CreateDraftCommits ==
  ASSUME IInv, NEW s \in Snapshots, NEW t \in Later(s), NEW lines \in SUBSET Lines,
         CreateDraft(s, t, lines)
  PROVE  Committed(Older(s, t)) /\ UNCHANGED syncs
<1> DEFINE n == NextVersion(t)
           q == DraftOf(s, lines)
<1>1. n \in Versions /\ UNCHANGED syncs
      /\ Commit(Older(s, t), AtLeast([db EXCEPT !.quotes[n] = q], "quote"))
  BY DEF CreateDraft
<1>2. /\ q \in Quote
      /\ q.lucrareIndex = 2 => s.supplement
  <2>1. NoQuote \in Quote
    BY DEF NoQuote, Quote, QuoteStatuses
  <2> DEFINE index == IF s.supplement THEN 2 ELSE 1
  <2>2. index \in {1, 2} /\ (index = 2 => s.supplement)
    OBVIOUS
  <2>3. q = [NoQuote EXCEPT !.status = "draft", !.lines = lines, !.lucrareIndex = index]
    BY DEF DraftOf
  <2> HIDE DEF index, q
  <2> QED
    BY <2>1, <2>2, <2>3 DEF Quote, QuoteStatuses
<1> HIDE DEF q, n
<1>3. Fits([db EXCEPT !.quotes[n] = q])
  BY <1>1, <1>2, DbFits, ReadFacts, QuoteFitsIn
<1>4. Fits(AtLeast([db EXCEPT !.quotes[n] = q], "quote"))
  BY <1>3, StageFits, StageNames
<1> QED
  BY <1>1, <1>4 DEF Committed

LEMMA UpdateDraftCommits ==
  ASSUME IInv, NEW s \in Snapshots, NEW v \in Versions, NEW lines \in SUBSET Lines,
         UpdateDraft(s, v, lines)
  PROVE  Committed(s) /\ UNCHANGED syncs
<1> DEFINE q == [db.quotes[v] EXCEPT !.lines = lines, !.approvedLines = {}]
<1>1. /\ q \in Quote /\ q.lucrareIndex = db.quotes[v].lucrareIndex
  BY DbFits DEF Quote
<1>2. ChangeQuote(s, v, db, q)
  BY DEF UpdateDraft
<1> HIDE DEF q
<1> QED
  BY <1>1, <1>2, ChangeQuoteCommits

LEMMA DeleteDraftCommits ==
  ASSUME IInv, NEW s \in Snapshots, NEW v \in Versions, DeleteDraft(s, v)
  PROVE  Committed(s) /\ UNCHANGED syncs
<1>1. NoQuote \in Quote /\ NoQuote.lucrareIndex = 1
  BY DEF NoQuote, Quote, QuoteStatuses
<1>2. ChangeQuote(s, v, db, NoQuote)
  BY DEF DeleteDraft
<1> QED
  BY <1>1, <1>2, ChangeQuoteCommits

LEMMA SubmitCommits ==
  ASSUME IInv, NEW s \in Snapshots, NEW v \in Versions, Submit(s, v)
  PROVE  Committed(s) /\ UNCHANGED syncs
<1> DEFINE q == [db.quotes[v] EXCEPT !.status = "submitted"]
<1>1. /\ q \in Quote /\ q.lucrareIndex = db.quotes[v].lucrareIndex
  BY DbFits DEF Quote, QuoteStatuses
<1>2. ChangeQuote(s, v, AtLeast(db, "approval"), q)
  BY DEF Submit
<1> HIDE DEF q
<1> QED
  BY <1>1, <1>2, ChangeQuoteCommits, StageNames

LEMMA RejectCommits ==
  ASSUME IInv, NEW s \in Snapshots, NEW v \in Versions, Reject(s, v)
  PROVE  Committed(s) /\ UNCHANGED syncs
<1> DEFINE q == [db.quotes[v] EXCEPT !.status = "rejected"]
<1>1. /\ q \in Quote /\ q.lucrareIndex = db.quotes[v].lucrareIndex
  BY DbFits DEF Quote, QuoteStatuses
<1>2. ChangeQuote(s, v, db, q)
  BY DEF Reject
<1> HIDE DEF q
<1> QED
  BY <1>1, <1>2, ChangeQuoteCommits

LEMMA RecordInvoiceCommits ==
  ASSUME IInv, NEW s \in Snapshots, NEW v \in Versions, RecordInvoice(s, v)
  PROVE  Committed(s) /\ UNCHANGED syncs
<1> DEFINE q == [db.quotes[v] EXCEPT !.invoiced = TRUE]
<1>1. /\ q \in Quote /\ q.lucrareIndex = db.quotes[v].lucrareIndex
  BY DbFits DEF Quote
<1>2. ChangeQuote(s, v, AtLeast(db, "invoiced"), q)
  BY DEF RecordInvoice
<1> HIDE DEF q
<1> QED
  BY <1>1, <1>2, ChangeQuoteCommits, StageNames

LEMMA MoveLucrareIndexCommits ==
  ASSUME IInv, NEW s \in Snapshots, NEW v \in Versions, NEW index \in {1, 2},
         MoveLucrareIndex(s, v, index)
  PROVE  Committed(s) /\ UNCHANGED syncs
<1> DEFINE q == [db.quotes[v] EXCEPT !.lucrareIndex = index]
<1>1. q \in Quote /\ q.lucrareIndex = index
  BY DbFits DEF Quote
<1>2. ChangeQuote(s, v, db, q) /\ (index = 2 => s.supplement \/ s.ready1)
  BY DEF MoveLucrareIndex
<1>3. index = 1 \/ db.supplement
  BY <1>2, ReadFacts
<1> HIDE DEF q
<1> QED
  BY <1>1, <1>2, <1>3, ChangeQuoteCommits

LEMMA ResubmitCommits ==
  ASSUME IInv, NEW s \in Snapshots, NEW v \in Versions, NEW est \in {"short", "long"},
         Resubmit(s, v, est)
  PROVE  Committed(s) /\ UNCHANGED syncs
<1> DEFINE q == [db.quotes[v] EXCEPT !.approvedLines = {}]
           d == [db EXCEPT !.est = est]
<1>1. /\ q \in Quote
      /\ q.lucrareIndex = db.quotes[v].lucrareIndex
  BY DbFits DEF Quote
<1>2. Fits(d) /\ Decided(d) = Decided(db) /\ d.quotes = db.quotes
      /\ d.supplement = db.supplement
  BY DbFits DEF Fits, Database, Jobs, ClosedCase, Kept, Decided, Approval, InsurerReady,
                With, UnderRepair
<1>3. ChangeQuote(s, v, AtLeast(d, "approval"), q)
  BY DEF Resubmit, AskAgain
<1> HIDE DEF q, d
<1> DEFINE dd == AtLeast(d, "approval")
<1>4. Fits(dd) /\ (Decided(dd) => agreed) /\ dd.supplement = db.supplement
  BY <1>2, DbFits, StageFits, StageNames
<1>5. Fits([dd EXCEPT !.quotes[v] = q])
  BY <1>1, <1>4, DbFits, QuoteFitsIn DEF Jobs, ClosedCase
<1> QED
  BY <1>3, <1>5 DEF ChangeQuote, Committed

LEMMA OrderPartsCommits ==
  ASSUME IInv, NEW s \in Snapshots, NEW v \in Versions, OrderParts(s, v)
  PROVE  Committed(s) /\ UNCHANGED syncs
<1> DEFINE d == [db EXCEPT !.status = "waiting_parts"]
<1>1. d \in Database
  BY DbFits DEF Database, OrderStatuses
<1>2. Fits(d)
  BY <1>1, DbFits DEF Fits, Database, Jobs, ClosedCase, Kept, Decided, Approval, InsurerReady,
                With, UnderRepair
<1> QED
  BY <1>2 DEF OrderParts, Committed

LEMMA PostCostCommits ==
  ASSUME IInv, NEW s \in Snapshots, NEW v \in Versions, NEW c \in CostIds,
         PostCost(s, v, c)
  PROVE  Committed(s) /\ UNCHANGED syncs
<1> DEFINE q == [db.quotes[v] EXCEPT !.cost = c]
           e == [id |-> c, quote |-> v, amount |-> s.quotes[v].approved]
           d == [db EXCEPT !.costs = @ \cup {e}, !.linked = TRUE]
<1>1. /\ q \in Quote
      /\ q.lucrareIndex = db.quotes[v].lucrareIndex
  BY DbFits DEF Quote
<1>2. e \in CostEntry
  BY ReadFacts DEF CostEntry, Quote
<1>3. ChangeQuote(s, v, AtLeast(d, "cost"), q)
  BY DEF PostCost, AddCost
<1> HIDE DEF e
<1>4. d \in Database
  BY <1>2, DbFits DEF Database
<1>5. /\ d.quotes = db.quotes /\ d.supplement = db.supplement
      /\ d.completed = db.completed /\ d.resolved = db.resolved /\ d.stage = db.stage
      /\ d.ready1 = db.ready1 /\ d.supplementVersion = db.supplementVersion
      /\ d.ready = db.ready /\ d.awaiting = db.awaiting /\ d.path = db.path
      /\ d.in2 = db.in2 /\ d.status = db.status /\ d.pipeline = db.pipeline
      /\ d.agreedAt = db.agreedAt
  BY DbFits DEF Database
<1> HIDE DEF q, d
<1>6. Fits(d) /\ Decided(d) = Decided(db)
  BY <1>4, <1>5, DbFits DEF Fits, Jobs, ClosedCase, Kept, Decided, Approval, InsurerReady,
                With, UnderRepair
<1> DEFINE dd == AtLeast(d, "cost")
<1>7. Fits(dd) /\ (Decided(dd) => agreed) /\ dd.supplement = db.supplement
  BY <1>5, <1>6, DbFits, StageFits, StageNames
<1>8. Fits([dd EXCEPT !.quotes[v] = q])
  BY <1>1, <1>7, DbFits, QuoteFitsIn DEF Jobs
<1> QED
  BY <1>3, <1>8 DEF ChangeQuote, Committed

LEMMA DeleteCostCommits ==
  ASSUME IInv, NEW s \in Snapshots, NEW e, DeleteCost(s, e)
  PROVE  Committed(s) /\ UNCHANGED syncs
<1> DEFINE f == [w \in Versions |->
                    IF db.quotes[w].cost = e.id THEN [db.quotes[w] EXCEPT !.cost = NoCost]
                                                ELSE db.quotes[w]]
           costs == db.costs \ {e}
           d == [db EXCEPT !.costs = costs, !.quotes = f]
<1>1. \A w \in Versions : /\ f[w] \in Quote
                          /\ f[w].lucrareIndex = db.quotes[w].lucrareIndex
                          /\ f[w].status = db.quotes[w].status
  BY DbFits DEF Quote
<1>2. f \in [Versions -> Quote] /\ costs \in SUBSET CostEntry
  BY <1>1, DbFits DEF Database
<1>3. Commit(s, d) /\ UNCHANGED syncs
  BY DEF DeleteCost
<1> HIDE DEF f, costs
<1>4. d \in Database
  BY <1>2, DbFits DEF Database
<1>5. /\ d.completed = db.completed /\ d.quotes = f /\ d.supplement = db.supplement
      /\ d.ready1 = db.ready1 /\ d.supplementVersion = db.supplementVersion
      /\ d.ready = db.ready /\ d.awaiting = db.awaiting /\ d.path = db.path
      /\ d.in2 = db.in2 /\ d.status = db.status /\ d.pipeline = db.pipeline
      /\ d.agreedAt = db.agreedAt /\ d.resolved = db.resolved /\ d.stage = db.stage
  BY DbFits DEF Database
<1> HIDE DEF d
<1>6. Fits(d)
  BY <1>1, <1>4, <1>5, DbFits DEF Fits, Jobs, ClosedCase, Kept, Decided, Approval, InsurerReady,
                With, UnderRepair
<1> QED
  BY <1>3, <1>6 DEF Committed

LEMMA ApproveCommits ==
  ASSUME IInv, NEW s \in Snapshots, NEW v \in Versions, NEW lines \in SUBSET Lines,
         Approve(s, v, lines)
  PROVE  Committed(s) /\ UNCHANGED syncs
<1> DEFINE second == OpensSecondJob(s, v) \/ JoinsSecondJob(s)
           q == [db.quotes[v] EXCEPT
                       !.status = "approved", !.approvedLines = lines,
                       !.approved = Value(lines),
                       !.lucrareIndex = IF second THEN 2 ELSE @]
           d == ApprovedOrder(s, v)
<1>1. /\ q \in Quote /\ q.status = "approved"
      /\ q.lucrareIndex = 2 => second \/ db.quotes[v].lucrareIndex = 2
  <2>1. Value(lines) \in SUBSET Lines
    BY DEF Value
  <2>2. db.quotes[v] \in Quote
    BY DbFits
  <2> QED
    BY <2>1, <2>2 DEF Quote, QuoteStatuses
<1>2. ChangeQuote(s, v, d, q)
  BY DEF Approve
<1>3. v \in 0 .. MaxVersion /\ v # 0
  BY ConstantsAssumption DEF Versions
<1> HIDE DEF q
<1>4. /\ d \in Database
      /\ second => d.supplement
      /\ Jobs(d) /\ ClosedCase(d) /\ Kept(db, d)
      /\ UnderRepair(d) => cleared
  <2> DEFINE d0 == [db EXCEPT !.awaiting = (s.path = "none" \/ OutUnreturned(s)),
                              !.stage = "approval"]
  <2>1. /\ d0 \in Database /\ d0.quotes = db.quotes /\ d0.supplement = db.supplement
        /\ d0.ready1 = db.ready1 /\ d0.supplementVersion = db.supplementVersion
        /\ d0.completed = db.completed /\ d0.resolved = db.resolved /\ d0.stage # "closed"
        /\ d0.in2 = db.in2 /\ d0.status = db.status /\ d0.pipeline = db.pipeline
        /\ d0.agreedAt = db.agreedAt /\ d0.car = db.car
    <3>1. (s.path = "none" \/ OutUnreturned(s)) \in BOOLEAN
      OBVIOUS
    <3> QED
      BY <3>1, DbFits, StageNames DEF Database
  <2> HIDE DEF d0
  <2>2. CASE OpensSecondJob(s, v)
    <3>1. d = OpenSecondJob(d0, v)
      BY <2>2 DEF ApprovedOrder, d0
    <3>2. /\ d \in Database /\ d.quotes = d0.quotes /\ d.supplement /\ d.ready1
          /\ d.completed = db.completed /\ d.resolved = db.resolved /\ d.stage # "closed" /\ d.in2 = db.in2
          /\ d.pipeline = db.pipeline
          /\ d.agreedAt = db.agreedAt /\ d.car = db.car
      <4> DEFINE e == [d0 EXCEPT !.ready1 = TRUE, !.ready = FALSE]
      <4>1. /\ e \in Database /\ e.quotes = d0.quotes /\ e.ready1
            /\ e.completed = d0.completed /\ e.resolved = d0.resolved /\ e.stage = d0.stage /\ e.in2 = d0.in2
            /\ e.pipeline = d0.pipeline /\ e.agreedAt = d0.agreedAt /\ e.car = d0.car
        BY <2>1 DEF Database
      <4>2. d = [e EXCEPT !.status = "in_progress", !.supplement = TRUE,
                          !.supplementVersion = v]
        BY <3>1 DEF OpenSecondJob
      <4> HIDE DEF e, d
      <4> QED
        BY ZenonT(30), <1>3, <2>1, <4>1, <4>2 DEF Database, OrderStatuses
    <3> HIDE DEF d
    <3> QED
      BY <2>1, <3>2, DbFits DEF Jobs, ClosedCase, Kept, UnderRepair, InsurerReady,
                                Recorded
  <2>3. CASE ~OpensSecondJob(s, v) /\ JoinsSecondJob(s) /\ v >= s.supplementVersion
    <3>1. d = [d0 EXCEPT !.supplementVersion = v]
      BY <2>3 DEF ApprovedOrder, d0
    <3>2. /\ d \in Database /\ d.quotes = d0.quotes /\ d.supplement = db.supplement
          /\ d.ready1 = db.ready1 /\ d.status = db.status
          /\ d.completed = db.completed /\ d.resolved = db.resolved /\ d.stage # "closed" /\ d.in2 = db.in2
          /\ d.pipeline = db.pipeline
          /\ d.agreedAt = db.agreedAt /\ d.car = db.car
      BY <1>3, <2>1, <3>1 DEF Database
    <3>3. d.supplement
      BY <2>3, <3>2, ReadFacts DEF JoinsSecondJob
    <3> HIDE DEF d
    <3> QED
      BY <2>1, <3>2, <3>3, DbFits DEF Jobs, ClosedCase, Kept, UnderRepair,
                                InsurerReady, Recorded
  <2>4. CASE ~OpensSecondJob(s, v) /\ ~(JoinsSecondJob(s) /\ v >= s.supplementVersion)
    <3>1. d = d0
      BY <2>4 DEF ApprovedOrder, d0
    <3>2. second => db.supplement
      BY <2>4, ReadFacts DEF JoinsSecondJob
    <3> HIDE DEF d
    <3> QED
      BY <2>1, <3>1, <3>2, DbFits DEF Jobs, ClosedCase, Kept, UnderRepair,
                                InsurerReady, Recorded
  <2> QED
    BY <2>2, <2>3, <2>4
<1> HIDE DEF d, second
<1>5. Fits([d EXCEPT !.quotes[v] = q])
  <2>1. q.lucrareIndex = 2 => d.supplement
    BY <1>1, <1>4, DbFits DEF Jobs, Kept
  <2> QED
    BY <1>1, <1>4, <2>1, QuoteFits
<1> QED
  BY <1>2, <1>5 DEF ChangeQuote, Committed

-----------------------------------------------------------------------------
(***************************************************************************)
(* The order, the case and the replacement car.                            *)
(***************************************************************************)

\* Columns the invariant does not speak of may change at will.
LEMMA PlainFits ==
  ASSUME IInv, NEW d \in Database,
         d.quotes = db.quotes, d.supplement = db.supplement, d.ready1 = db.ready1,
         d.supplementVersion = db.supplementVersion, db.completed => d.completed,
         ClosedCase(d),
         Decided(d) => agreed \/ Approval(d),
         UnderRepair(d) => cleared
  PROVE  Fits(d)
BY DbFits DEF Fits, Jobs, Kept

\* The following lemmas do the same for the operations of the orders.
LEMMA PatchEstimateCommits ==
  ASSUME IInv, NEW s \in Snapshots, NEW t \in Later(s), NEW est \in {"short", "long"},
         PatchEstimate(s, t, est)
  PROVE  Committed(Older(s, t)) /\ UNCHANGED syncs
<1> DEFINE d == [db EXCEPT !.est = est]
<1>1. d \in Database
  BY DbFits DEF Database
<1>2. Fits(d)
  BY <1>1, DbFits DEF Fits, Database, Jobs, ClosedCase, Kept, Decided, Approval, InsurerReady,
                With, UnderRepair
<1> QED
  BY <1>2 DEF PatchEstimate, Write, Committed

LEMMA PatchStatusCommits ==
  ASSUME IInv, NEW s \in Snapshots, NEW t \in Later(s), NEW status \in OrderStatuses,
         PatchStatus(s, t, status)
  PROVE  Committed(Older(s, t)) /\ UNCHANGED syncs
<1> DEFINE d == [db EXCEPT !.status = status]
<1>1. d \in Database /\ d.quotes = db.quotes /\ d.supplement = db.supplement
      /\ d.ready1 = db.ready1 /\ d.supplementVersion = db.supplementVersion
      /\ d.completed = db.completed /\ d.resolved = db.resolved /\ d.stage = db.stage /\ d.in2 = db.in2
      /\ d.ready = db.ready /\ d.awaiting = db.awaiting /\ d.path = db.path
      /\ d.status = status
  BY DbFits DEF Database
<1> HIDE DEF d
<1>2. status = "in_progress" => GateOpen(s, t) \/ s.status = "in_progress"
  BY DEF PatchStatus
<1>3. UnderRepair(d) => cleared
  <2>1. GateOpen(s, t) => cleared
    BY TwoReads
  <2>2. isDamage /\ s.status = "in_progress" /\ ~db.supplement => cleared
    BY ReadFacts DEF UnderRepair
  <2>3. isDamage /\ db.in2 => cleared
    BY DbFits DEF Recorded, UnderRepair
  <2> QED
    BY <1>1, <1>2, <2>1, <2>2, <2>3 DEF UnderRepair
<1>4. Decided(d) => agreed
  BY <1>1, DbFits DEF Decided
<1>5. Fits(d)
  BY <1>1, <1>3, <1>4, DbFits, PlainFits DEF ClosedCase
<1> QED
  BY <1>5 DEF PatchStatus, Write, Committed, d

LEMMA MarkReadyCommits ==
  ASSUME IInv, NEW s \in Snapshots, MarkReady(s)
  PROVE  Committed(s) /\ UNCHANGED syncs
<1> DEFINE d == [db EXCEPT !.ready = TRUE]
<1>1. d \in Database
  BY DbFits DEF Database
<1>2. agreed
  BY ReadFacts DEF MarkReady, Approval
<1>3. Fits(d)
  BY <1>1, <1>2, DbFits DEF Fits, Database, Jobs, ClosedCase, Kept, InsurerReady,
                UnderRepair
<1> QED
  BY <1>3 DEF MarkReady, Write, Committed

LEMMA StartSupplementCommits ==
  ASSUME IInv, NEW s \in Snapshots, StartSupplement(s)
  PROVE  Committed(s) /\ UNCHANGED syncs
<1> DEFINE e == [db EXCEPT !.ready1 = TRUE, !.ready = FALSE, !.status = "in_progress"]
           d == [db EXCEPT !.ready1 = TRUE, !.ready = FALSE, !.status = "in_progress",
                           !.supplement = TRUE, !.supplementVersion = 0]
<1>1. /\ e \in Database /\ e.quotes = db.quotes /\ e.ready1 /\ e.completed = db.completed
      /\ e.resolved = db.resolved /\ e.stage = db.stage /\ e.in2 = db.in2
  BY DbFits DEF Database, OrderStatuses
<1>2. d = [e EXCEPT !.supplement = TRUE, !.supplementVersion = 0]
  OBVIOUS
<1>3. Write(s, d)
  BY DEF StartSupplement
<1> HIDE DEF d, e
<1>4. /\ d \in Database /\ d.quotes = db.quotes /\ d.ready1 /\ d.completed = db.completed
      /\ d.resolved = db.resolved /\ d.stage = db.stage /\ d.in2 = db.in2
      /\ d.supplement /\ d.supplementVersion = 0
  <2>1. 0 \in 0 .. MaxVersion
    BY ConstantsAssumption
  <2> QED
    BY <1>1, <1>2, <2>1 DEF Database
<1>5. agreed
  BY ReadFacts DEF StartSupplement, Decided
<1>6. UnderRepair(d) => cleared
  BY <1>4, DbFits DEF UnderRepair, Recorded
<1>7. Jobs(d) /\ ClosedCase(d) /\ Kept(db, d)
  BY <1>4, DbFits DEF Jobs, ClosedCase, Kept
<1>8. Fits(d)
  BY <1>4, <1>5, <1>6, <1>7 DEF Fits
<1> QED
  BY <1>3, <1>8 DEF Write, Committed

LEMMA ServiceTimesCommits ==
  ASSUME IInv, NEW s \in Snapshots, NEW t \in Later(s),
         NEW in \in {"keep", "set", "clear"}, NEW out \in {"keep", "set", "clear"},
         ServiceTimes(s, t, in, out)
  PROVE  Committed(Older(s, t)) /\ UNCHANGED syncs
<1> DEFINE second == SecondVisit(s)
           starts == in = "set" /\ (second \/ ~isDamage)
                             /\ s.status \in {"sent", "waiting_parts"}
           d1 == IF second
                 THEN [db EXCEPT !.in2 = Stamp(@, in), !.out2 = Stamp(@, out)]
                 ELSE [db EXCEPT !.in1 = Stamp(@, in), !.out1 = Stamp(@, out)]
           d2 == IF starts THEN [d1 EXCEPT !.status = "in_progress"] ELSE d1
           d3 == IF in = "set" THEN AtLeast(d2, "in_service") ELSE d2
           d4 == IF out = "set" THEN AtLeast(d3, "out_service") ELSE d3
<1>1. Write(Older(s, t), d4) /\ (second /\ in = "set" /\ ~s.in2 => GateOpen(s, t))
  BY DEF ServiceTimes
<1>2. \A old \in BOOLEAN, change \in {"keep", "set", "clear"} :
         /\ Stamp(old, change) \in BOOLEAN
         /\ Stamp(old, change) => old \/ change = "set"
  BY DEF Stamp
<1>3. /\ d1 \in Database /\ d1.quotes = db.quotes /\ d1.supplement = db.supplement
      /\ d1.ready1 = db.ready1 /\ d1.supplementVersion = db.supplementVersion
      /\ d1.completed = db.completed /\ d1.resolved = db.resolved /\ d1.stage = db.stage /\ d1.status = db.status
      /\ d1.ready = db.ready /\ d1.awaiting = db.awaiting /\ d1.path = db.path
      /\ d1.in2 => db.in2 \/ (second /\ in = "set")
  <2>1. db.in1 \in BOOLEAN /\ db.out1 \in BOOLEAN /\ db.in2 \in BOOLEAN /\ db.out2 \in BOOLEAN
    BY DbFits DEF Database
  <2>2. /\ Stamp(db.in1, in) \in BOOLEAN /\ Stamp(db.out1, out) \in BOOLEAN
        /\ Stamp(db.in2, in) \in BOOLEAN /\ Stamp(db.out2, out) \in BOOLEAN
        /\ Stamp(db.in2, in) => db.in2 \/ in = "set"
    BY <1>2, <2>1
  <2> QED
    BY ZenonT(30), <2>2, DbFits DEF Database
<1> HIDE DEF d1
<1>4. /\ d2 \in Database /\ d2.quotes = db.quotes /\ d2.supplement = db.supplement
      /\ d2.ready1 = db.ready1 /\ d2.supplementVersion = db.supplementVersion
      /\ d2.completed = db.completed /\ d2.resolved = db.resolved /\ d2.stage = db.stage
      /\ d2.ready = db.ready /\ d2.awaiting = db.awaiting /\ d2.path = db.path
      /\ d2.in2 = d1.in2
      /\ d2.status = "in_progress" => db.status = "in_progress" \/ starts
  BY <1>3 DEF Database, OrderStatuses
<1> HIDE DEF d2
<1>5. isDamage /\ second /\ in = "set" => cleared
  BY <1>1, ReadFacts, TwoReads DEF UnderRepair
<1>6. UnderRepair(d2) => cleared
  <2>1. isDamage /\ (db.in2 \/ (db.status = "in_progress" /\ ~db.supplement)) => cleared
    BY DbFits DEF Recorded, UnderRepair
  <2> QED
    BY <1>3, <1>4, <1>5, <2>1 DEF UnderRepair
<1>7. Decided(d2) => agreed
  BY <1>4, DbFits DEF Decided
<1>8. Fits(d2)
  BY <1>4, <1>6, <1>7, DbFits, PlainFits DEF ClosedCase
<1>9. Fits(d3)
  BY <1>8, StageFits, StageNames
<1> HIDE DEF d3
<1>10. Fits(d4)
  BY <1>9, StageFits, StageNames
<1> QED
  BY <1>1, <1>10 DEF Write, Committed

\* Completion by the partner, and the record of the repair.
LEMMA CompletionCommits ==
  ASSUME IInv, NEW s \in Snapshots, CompleteByPartner(s) \/ Transform(s)
  PROVE  Committed(s) /\ UNCHANGED syncs
<1>1. CASE CompleteByPartner(s)
  <2> DEFINE d == [db EXCEPT !.status = "done"]
  <2>1. d \in Database
    BY DbFits DEF Database, OrderStatuses
  <2>2. Fits(d)
    BY <2>1, DbFits DEF Fits, Database, Jobs, ClosedCase, Kept, Decided, Approval, InsurerReady,
                With, UnderRepair, Recorded
  <2> QED
    BY <1>1, <2>2 DEF CompleteByPartner, Write, Committed
<1>2. CASE Transform(s)
  <2> DEFINE d == [db EXCEPT !.linked = TRUE]
  <2>1. d \in Database
    BY DbFits DEF Database
  <2>2. Fits(d)
    BY <2>1, DbFits DEF Fits, Database, Jobs, ClosedCase, Kept, Decided, Approval, InsurerReady,
                With, UnderRepair
  <2> QED
    BY <1>2, <2>2 DEF Transform, Write, Committed
<1> QED
  BY <1>1, <1>2

\* Completion by the fleet: the case is complete afterwards, even when the request has
\* only seen another one close it.
LEMMA CompleteCommits ==
  ASSUME IInv, NEW s \in Snapshots, NEW t \in Later(s), Complete(s, t)
  PROVE  Committed(Older(s, t)) /\ UNCHANGED syncs
<1> DEFINE d0 == CloseCase(s)
           status == IF s.status = "done" THEN d0.status ELSE "done"
           d == [d0 EXCEPT !.status = status, !.resolved = TRUE]
<1>1. Write(Older(s, t), d)
  BY DEF Complete
<1>2. /\ d0 \in Database /\ d0.quotes = db.quotes /\ d0.supplement = db.supplement
      /\ d0.ready1 = db.ready1 /\ d0.supplementVersion = db.supplementVersion
      /\ d0.in2 = db.in2 /\ d0.status = db.status
      /\ d0.ready = db.ready /\ d0.awaiting = db.awaiting /\ d0.path = db.path
      /\ d0.completed
  <2>1. CASE CaseClosed(s)
    <3>1. d0 = db
      BY <2>1 DEF CloseCase
    <3>2. s.completed
      BY <2>1, ReadFacts DEF CaseClosed, ClosedCase
    <3> QED
      BY <3>1, <3>2, ReadFacts, DbFits
  <2>2. CASE ~CaseClosed(s)
    <3>1. d0 = [db EXCEPT !.stage = "closed", !.completed = TRUE]
      BY <2>2 DEF CloseCase
    <3> HIDE DEF d0
    <3> QED
      BY <3>1, DbFits, StageNames DEF Database
  <2> QED
    BY <2>1, <2>2
<1> HIDE DEF d0
<1>3. status \in {db.status, "done"} /\ status \in OrderStatuses
  BY <1>2 DEF Database, OrderStatuses
<1> HIDE DEF status
<1>4. /\ d \in Database /\ d.quotes = db.quotes /\ d.supplement = db.supplement
      /\ d.ready1 = db.ready1 /\ d.supplementVersion = db.supplementVersion
      /\ d.in2 = db.in2 /\ d.status = status
      /\ d.ready = db.ready /\ d.awaiting = db.awaiting /\ d.path = db.path
      /\ d.completed
  BY <1>2, <1>3 DEF Database
<1> HIDE DEF d
<1>5. Decided(d) => agreed
  BY <1>4, DbFits DEF Decided
<1>6. UnderRepair(d) => cleared
  BY <1>3, <1>4, DbFits DEF UnderRepair, Recorded
<1>7. Fits(d)
  BY <1>4, <1>5, <1>6, PlainFits DEF ClosedCase
<1> QED
  BY <1>1, <1>7 DEF Write, Committed

\* The following lemmas do the same for the operations of the case.
LEMMA AdvanceCommits ==
  ASSUME IInv, NEW s \in Snapshots, NEW stage \in Stages, Advance(s, stage)
  PROVE  Committed(s) /\ UNCHANGED syncs
<1> DEFINE completed == IF stage = "closed" THEN TRUE ELSE db.completed
           d == [db EXCEPT !.stage = stage, !.completed = completed]
<1>1. /\ completed \in BOOLEAN /\ (db.completed => completed)
      /\ stage = "closed" => completed
  BY DbFits DEF Database
<1>2. Write(s, d)
  BY DEF Advance
<1> HIDE DEF completed
<1>3. d \in Database /\ d.quotes = db.quotes /\ d.supplement = db.supplement
      /\ d.ready1 = db.ready1 /\ d.supplementVersion = db.supplementVersion
      /\ d.completed = completed /\ d.resolved = db.resolved /\ d.stage = stage /\ d.in2 = db.in2
      /\ d.ready = db.ready /\ d.awaiting = db.awaiting /\ d.path = db.path
      /\ d.status = db.status
  BY <1>1, DbFits DEF Database
<1> HIDE DEF d
<1>4. Decided(d) => agreed
  BY <1>3, DbFits DEF Decided
<1>5. UnderRepair(d) => cleared
  BY <1>3, DbFits DEF UnderRepair, Recorded
<1>6. ClosedCase(d)
  BY <1>1, <1>3, DbFits DEF ClosedCase
<1>7. Fits(d)
  BY <1>1, <1>3, <1>4, <1>5, <1>6, DbFits, PlainFits
<1> QED
  BY <1>2, <1>7 DEF Write, Committed

LEMMA ApplyPostApprovalCommits ==
  ASSUME IInv, NEW s \in Snapshots, NEW t \in Later(s),
         NEW path \in {"immediate", "reschedule"}, ApplyPostApproval(s, t, path)
  PROVE  Committed(Older(s, t)) /\ UNCHANGED syncs
<1> DEFINE stage == IF path = "immediate" THEN "work_order" ELSE "scheduled"
           d == [db EXCEPT !.awaiting = FALSE, !.path = path, !.stage = stage]
           starts == path = "immediate" /\ db.status \in {"sent", "waiting_parts"}
           e == IF starts THEN [d EXCEPT !.status = "in_progress"] ELSE d
<1>1. Write(Older(s, t), e) /\ s.awaiting /\ (path = "immediate" => GateOpen(s, t))
  BY DEF ApplyPostApproval, TakePath
<1>2. stage \in Stages /\ stage # "closed"
  BY StageNames
<1> HIDE DEF stage
<1>3. d \in Database /\ d.quotes = db.quotes /\ d.supplement = db.supplement
      /\ d.ready1 = db.ready1 /\ d.supplementVersion = db.supplementVersion
      /\ d.completed = db.completed /\ d.resolved = db.resolved /\ d.stage # "closed" /\ d.in2 = db.in2
      /\ d.status = db.status
  BY <1>2, DbFits DEF Database, Paths
<1> HIDE DEF d
<1>4. /\ e \in Database /\ e.quotes = db.quotes /\ e.supplement = db.supplement
      /\ e.ready1 = db.ready1 /\ e.supplementVersion = db.supplementVersion
      /\ e.completed = db.completed /\ e.resolved = db.resolved /\ e.stage # "closed" /\ e.in2 = db.in2
      /\ e.status = "in_progress" => db.status = "in_progress" \/ path = "immediate"
  BY <1>3 DEF Database, OrderStatuses
<1> HIDE DEF e
<1>5. agreed
  BY <1>1, ReadFacts DEF Decided
<1>6. UnderRepair(e) => cleared
  BY <1>1, <1>4, DbFits, TwoReads DEF UnderRepair, Recorded
<1>7. Fits(e)
  BY <1>4, <1>5, <1>6, DbFits, PlainFits DEF ClosedCase
<1> QED
  BY <1>1, <1>7 DEF Write, Committed

LEMMA CarFits ==
  ASSUME IInv, NEW status \in CarStatuses
  PROVE  Fits([db EXCEPT !.car = status])
<1> DEFINE d == [db EXCEPT !.car = status]
<1>1. d \in Database /\ d.quotes = db.quotes /\ d.supplement = db.supplement
      /\ d.ready1 = db.ready1 /\ d.supplementVersion = db.supplementVersion
      /\ d.completed = db.completed /\ d.resolved = db.resolved /\ d.stage = db.stage /\ d.in2 = db.in2
      /\ d.ready = db.ready /\ d.awaiting = db.awaiting /\ d.path = db.path
      /\ d.status = db.status
  BY DbFits DEF Database
<1> HIDE DEF d
<1>3. Decided(d) => agreed
  BY <1>1, DbFits DEF Decided
<1>4. UnderRepair(d) => cleared
  BY <1>1, DbFits DEF UnderRepair, Recorded
<1>5. Fits(d)
  BY <1>1, <1>3, <1>4, DbFits, PlainFits DEF ClosedCase
<1> QED
  BY <1>5 DEF d

LEMMA PatchMobilityCommits ==
  ASSUME IInv, NEW s \in Snapshots, NEW status \in CarStatuses, PatchMobility(s, status)
  PROVE  Committed(s) /\ UNCHANGED syncs
BY CarFits DEF PatchMobility, Write, Committed

LEMMA CreateMobilityCommits ==
  ASSUME IInv, NEW s \in Snapshots, NEW t \in Later(s), NEW status \in CarStatuses,
         CreateMobility(s, t, status)
  PROVE  Committed(Older(s, t)) /\ UNCHANGED syncs
BY CarFits DEF CreateMobility, Write, Committed

-----------------------------------------------------------------------------
(***************************************************************************)
(* The claim and its synchronisations, statement by statement.             *)
(***************************************************************************)

\* No synchronisation is one, and it carries nothing on.
LEMMA NoSyncFacts ==
  /\ NoSync \in Sync
  /\ NoSync.step = "idle" /\ ~NoSync.accepted
BY ConstantsAssumption DEF NoSync, Sync, Versions

\* The columns of the claim: the claim alone, or nothing, has changed.
LEMMA ClaimedFits ==
  ASSUME IInv, NEW s \in Snapshots, NEW d \in Claimed(s)
  PROVE  /\ Fits(d) /\ Due(d) \in Sync
         /\ Due(d).accepted => Approval(d)
         /\ Due(d).step \in {"idle", "due"}
<1>1. PICK p \in Pipeline, a \in BOOLEAN, r \in BOOLEAN :
        d = [db EXCEPT !.pipeline = p, !.agreedAt = a, !.repaired = r]
  <2>1. db.pipeline \in Pipeline /\ db.agreedAt \in BOOLEAN /\ db.repaired \in BOOLEAN
    BY DbFits DEF Database
  <2>2. "quote_ready" \in Pipeline /\ "payment_accepted" \in Pipeline
    BY DEF Pipeline
  <2>3. db \in Database
    BY DbFits
  <2>4. db = [db EXCEPT !.pipeline = db.pipeline, !.agreedAt = db.agreedAt,
                        !.repaired = db.repaired]
    BY <2>3 DEF Database
  <2>5. CASE \E p \in Pipeline :
               d = [db EXCEPT !.pipeline = p,
                      !.agreedAt = (@ \/ (p = "payment_accepted" /\ scene.payer = "insurer"))]
    <3> PICK p \in Pipeline :
               d = [db EXCEPT !.pipeline = p,
                      !.agreedAt = (@ \/ (p = "payment_accepted" /\ scene.payer = "insurer"))]
      BY <2>5
    <3> DEFINE a == db.agreedAt \/ (p = "payment_accepted" /\ scene.payer = "insurer")
    <3>1. a \in BOOLEAN
      OBVIOUS
    <3>2. d = [db EXCEPT !.pipeline = p, !.agreedAt = a]
      OBVIOUS
    <3> HIDE DEF a
    <3>3. d = [db EXCEPT !.pipeline = p, !.agreedAt = a, !.repaired = db.repaired]
      BY <2>3, <3>2 DEF Database
    <3> QED
      BY <2>1, <3>1, <3>3
  <2>6. CASE d = [db EXCEPT !.pipeline = IF s.pipeline = "payment_accepted" THEN @
                                         ELSE "quote_ready"]
    <3> DEFINE p == IF s.pipeline = "payment_accepted" THEN db.pipeline ELSE "quote_ready"
    <3>1. p \in Pipeline
      BY <2>1, <2>2
    <3>2. d = [db EXCEPT !.pipeline = p]
      BY <2>6
    <3> HIDE DEF p
    <3>3. d = [db EXCEPT !.pipeline = p, !.agreedAt = db.agreedAt, !.repaired = db.repaired]
      BY <2>3, <3>2 DEF Database
    <3> QED
      BY <2>1, <3>1, <3>3
  <2>7. CASE d = [db EXCEPT !.pipeline = "payment_accepted"]
    <3>1. d = [db EXCEPT !.pipeline = "payment_accepted", !.agreedAt = db.agreedAt,
                         !.repaired = db.repaired]
      BY <2>3, <2>7 DEF Database
    <3> QED
      BY <2>1, <2>2, <3>1
  <2>8. CASE d = [db EXCEPT !.agreedAt = TRUE]
    <3>1. d = [db EXCEPT !.pipeline = db.pipeline, !.agreedAt = TRUE, !.repaired = db.repaired]
      BY <2>3, <2>8 DEF Database
    <3> QED
      BY <2>1, <3>1
  <2>9. CASE d = [db EXCEPT !.repaired = TRUE]
    <3>1. d = [db EXCEPT !.pipeline = db.pipeline, !.agreedAt = db.agreedAt, !.repaired = TRUE]
      BY <2>3, <2>9 DEF Database
    <3> QED
      BY <2>1, <3>1
  <2> QED
    BY <2>1, <2>4, <2>5, <2>6, <2>7, <2>8, <2>9 DEF Claimed
<1>2. d \in Database /\ d.quotes = db.quotes /\ d.supplement = db.supplement
      /\ d.ready1 = db.ready1 /\ d.supplementVersion = db.supplementVersion
      /\ d.completed = db.completed /\ d.resolved = db.resolved /\ d.stage = db.stage /\ d.in2 = db.in2
      /\ d.ready = db.ready /\ d.awaiting = db.awaiting /\ d.path = db.path
      /\ d.status = db.status
  BY ZenonT(30), <1>1, DbFits DEF Database
<1>3. Decided(d) => agreed
  BY <1>2, DbFits DEF Decided
<1>4. UnderRepair(d) => cleared
  BY <1>2, DbFits DEF UnderRepair, Recorded
<1>5. Fits(d)
  BY <1>2, <1>3, <1>4, DbFits, PlainFits DEF ClosedCase
<1>6. /\ Due(d) \in Sync /\ Due(d).step \in {"idle", "due"}
      /\ Due(d).accepted => Approval(d)
  <2>1. /\ Quoted(d) \in BOOLEAN /\ InsurerReady(d) \in BOOLEAN /\ d.repaired \in BOOLEAN
    BY <1>2 DEF Quoted, InsurerReady, Database
  <2> QED
    BY <2>1, NoSyncFacts DEF Due, Approval, NoSync, Sync
<1> QED
  BY <1>5, <1>6

\* A step that leaves the database alone.
LEMMA StillKeeps ==
  ASSUME IInv, UNCHANGED <<scene, db, agreed, cleared>>, past' \in {past, <<>>},
         overlaps' \in Nat, syncs' \in [Syncs -> Sync], cut' \subseteq Versions,
         \A k \in Syncs :
            /\ syncs'[k].accepted => agreed
            /\ syncs'[k].step \in {"lines", "case", "ready"} => syncs'[k].accepted
  PROVE  IInv'
<1>1. TypeOK'
  <2>1. past' \in Seq(Database) /\ Len(past') <= MaxPast
    <3>1. CASE past' = past
      BY <3>1 DEF IInv, TypeOK
    <3>2. CASE past' = <<>>
      <4>1. MaxPast \in Nat
        BY ConstantsAssumption
      <4> QED
        BY <3>2, <4>1
    <3> QED
      BY <3>1, <3>2
  <2> QED
    BY <2>1 DEF IInv, TypeOK
<1>2. /\ Snapshots' \subseteq Snapshots
      /\ \A s \in Snapshots' : Later(s)' \subseteq Later(s)
  BY DEF Snapshots, Later
<1>3. \A s \in Snapshots' : Jobs(s) /\ ClosedCase(s) /\ Kept(s, db') /\ Recorded(s)'
  BY <1>2 DEF IInv, Recorded, UnderRepair, isDamage
<1>4. \A s \in Snapshots' : \A t \in Later(s)' : GateOpen(s, t)' => cleared'
  BY <1>2 DEF IInv, GateOpen, isDamage
<1>5. \A k \in Syncs : Carried(syncs[k])'
  BY DEF Carried
<1> QED
  BY <1>1, <1>3, <1>4, <1>5 DEF IInv

\* The same of a step that leaves the rows alone.
LEMMA NoRowKeeps ==
  ASSUME IInv, UNCHANGED rows, syncs' \in [Syncs -> Sync], cut' \subseteq Versions,
         \A k \in Syncs :
            /\ syncs'[k].accepted => agreed
            /\ syncs'[k].step \in {"lines", "case", "ready"} => syncs'[k].accepted
  PROVE  IInv'
<1>1. UNCHANGED <<scene, db, agreed, cleared>> /\ past' = past /\ overlaps' \in Nat
  BY DEF rows, IInv, TypeOK
<1> QED
  BY <1>1, StillKeeps

\* What a step leaves of one synchronisation.
LEMMA OneSync ==
  ASSUME IInv, NEW k \in Syncs, NEW c \in Sync, Proceed(k, c), NEW ok,
         c.accepted => ok, agreed => ok,
         c.step \in {"lines", "case", "ready"} => c.accepted
  PROVE  /\ syncs' \in [Syncs -> Sync]
         /\ \A j \in Syncs :
               /\ syncs'[j].accepted => ok
               /\ syncs'[j].step \in {"lines", "case", "ready"} => syncs'[j].accepted
<1>1. /\ syncs \in [Syncs -> Sync] /\ syncs' = [syncs EXCEPT ![k] = c]
      /\ \A j \in Syncs : Carried(syncs[j])
  BY DEF IInv, TypeOK, Proceed
<1>2. syncs' \in [Syncs -> Sync]
  BY <1>1
<1>3. \A j \in Syncs : syncs'[j] = IF j = k THEN c ELSE syncs[j]
  BY <1>1
<1> QED
  BY <1>1, <1>2, <1>3 DEF Carried

\* A statement that leaves a fitting database, perhaps the one it found.
LEMMA RewriteKeeps ==
  ASSUME IInv, NEW s \in Snapshots, NEW new, Fits(new), Rewrite(s, new),
         NEW k \in Syncs, NEW c \in Sync, Proceed(k, c),
         c.accepted => agreed \/ Approval(new),
         c.step \in {"lines", "case", "ready"} => c.accepted
  PROVE  IInv'
<1>1. CASE ~Commit(s, new)
  <2>1. /\ UNCHANGED <<scene, db, agreed, cleared>> /\ past' \in {past, <<>>}
        /\ overlaps' \in Nat /\ cut' \subseteq Versions /\ new = db
    BY <1>1 DEF Rewrite, Count, IInv, TypeOK
  <2>2. Approval(db) => agreed
    BY DbFits DEF Recorded
  <2>3. c.accepted => agreed
    BY <2>1, <2>2
  <2> QED
    BY <2>1, <2>3, OneSync, StillKeeps
<1>2. CASE Commit(s, new)
  <2>2. /\ syncs' \in [Syncs -> Sync]
        /\ \A j \in Syncs :
               /\ syncs'[j].accepted => agreed \/ Approval(new)
               /\ syncs'[j].step \in {"lines", "case", "ready"} => syncs'[j].accepted
    BY OneSync
  <2> QED
    BY <1>2, <2>2, FitsKeeps
<1> QED
  BY <1>1, <1>2

\* patchDamageClaim leaves a synchronisation to come; it holds what the claim says.
LEMMA PatchDamageClaimKeeps ==
  ASSUME IInv, NEW s \in Snapshots, PatchDamageClaim(s)
  PROVE  IInv'
<1>1. PICK k \in Syncs, d \in Claimed(s) : Rewrite(s, d) /\ Proceed(k, Due(d))
  BY DEF PatchDamageClaim, Proceed
<1> QED
  BY <1>1, ClaimedFits, RewriteKeeps

\* What follows the quote is carried on only for the insurer.
LEMMA AfterQuoteFacts ==
  ASSUME NEW c \in Sync, NEW s \in Database, NEW v \in Versions, NEW step \in {"lines", "case"}
  PROVE  /\ AfterQuote(c, s, v, step) \in Sync
         /\ AfterQuote(c, s, v, step).accepted => c.accepted
         /\ AfterQuote(c, s, v, step).step \in {"lines", "case", "ready"} =>
               AfterQuote(c, s, v, step).accepted
<1>1. CASE c.accepted
  <2> DEFINE repaired == c.repaired /\ ~s.ready
             a == [c EXCEPT !.step = step, !.version = v, !.repaired = repaired]
  <2>1. repaired \in BOOLEAN
    OBVIOUS
  <2>2. AfterQuote(c, s, v, step) = a
    BY <1>1 DEF AfterQuote
  <2> HIDE DEF repaired
  <2>3. a \in Sync /\ a.accepted = c.accepted
    BY <2>1 DEF Sync
  <2> QED
    BY <1>1, <2>2, <2>3
<1>2. CASE ~c.accepted
  BY <1>2, NoSyncFacts DEF AfterQuote
<1> QED
  BY <1>1, <1>2

\* The first statement, on the quote.
LEMMA SyncQuoteKeeps ==
  ASSUME IInv, NEW k \in Syncs, NEW s \in Snapshots,
         SyncCreates(k, s) \/ SyncDecides(k, s) \/ SyncPasses(k, s)
  PROVE  IInv'
<1> DEFINE c == syncs[k]
           v == NextVersion(s) - 1
<1>1. c \in Sync /\ (c.accepted => agreed) /\ s \in Database
  BY ReadFacts DEF IInv, TypeOK, Carried
<1>2. 1 \in Versions /\ (v # 0 => v \in Versions)
  BY NextVersionFacts, ConstantsAssumption DEF Versions
<1>3. Decision(c) \in QuoteStatuses
  BY DEF Decision, QuoteStatuses
<1>4. CASE SyncCreates(k, s)
  <2> DEFINE approved == IF c.accepted THEN {Ref} ELSE {}
             status == Decision(c)
             q == [NoQuote EXCEPT !.status = status, !.lines = {Ref}, !.approvedLines = approved]
             a == AfterQuote(c, s, 1, "case")
  <2>1. Commit(s, [db EXCEPT !.quotes[1] = q]) /\ Proceed(k, a)
    BY <1>4 DEF SyncCreates
  <2>2. /\ a \in Sync /\ (a.accepted => agreed)
        /\ a.step \in {"lines", "case", "ready"} => a.accepted
    BY <1>1, <1>2, AfterQuoteFacts
  <2>3. NoQuote \in Quote /\ NoQuote.lucrareIndex = 1
    BY DEF NoQuote, Quote, QuoteStatuses
  <2>4. approved \in SUBSET Lines /\ {Ref} \in SUBSET Lines
    BY ConstantsAssumption
  <2> HIDE DEF approved, a, status
  <2>5. q \in Quote /\ q.lucrareIndex = 1
    BY <1>3, <2>3, <2>4 DEF Quote, status
  <2> HIDE DEF q
  <2> DEFINE new == [db EXCEPT !.quotes[1] = q]
  <2>6. Fits(new)
    BY <1>2, <2>5, DbFits, QuoteFitsIn
  <2> HIDE DEF new
  <2>7. Rewrite(s, new)
    BY <2>1 DEF Rewrite, Commit, new
  <2> QED
    BY <2>1, <2>2, <2>6, <2>7, RewriteKeeps
<1>5. CASE SyncDecides(k, s)
  <2> DEFINE approved == IF c.accepted THEN Value(s.quotes[v].lines) ELSE s.quotes[v].approved
             status == Decision(c)
             q == [db.quotes[v] EXCEPT !.status = status, !.approved = approved]
             step == LinesNext(s.quotes[v])
             a == AfterQuote(c, s, v, step)
  <2>1. v \in Versions /\ Rewrite(s, [db EXCEPT !.quotes[v] = q]) /\ Proceed(k, a)
    BY <1>2, <1>5, DbFits DEF SyncDecides, Database
  <2>2. step \in {"lines", "case"}
    BY DEF LinesNext
  <2>3. approved \in SUBSET Lines
    BY <2>1, ReadFacts DEF Quote, Value
  <2> HIDE DEF step, v, c
  <2>4. /\ a \in Sync /\ (a.accepted => agreed)
        /\ a.step \in {"lines", "case", "ready"} => a.accepted
    BY <1>1, <2>1, <2>2, AfterQuoteFacts
  <2> HIDE DEF approved, a, status
  <2>5. q \in Quote /\ q.lucrareIndex = db.quotes[v].lucrareIndex
    BY <1>3, <2>1, <2>3, DbFits DEF Quote, status
  <2> HIDE DEF q
  <2> DEFINE new == [db EXCEPT !.quotes[v] = q]
  <2>6. Fits(new)
    BY <2>1, <2>5, DbFits, QuoteFitsIn DEF Jobs
  <2> HIDE DEF new
  <2>7. Rewrite(s, new)
    BY <2>1 DEF new
  <2> QED
    BY <2>1, <2>4, <2>6, <2>7, RewriteKeeps
<1>6. CASE SyncPasses(k, s)
  <2> DEFINE w == IF v = 0 THEN 1 ELSE v
             a == AfterQuote(c, s, w, "case")
  <2>1. Proceed(k, a) /\ UNCHANGED <<rows, cut>>
    BY <1>6 DEF SyncPasses
  <2>2. w \in Versions
    BY <1>2
  <2> HIDE DEF w, c
  <2>3. /\ a \in Sync /\ (a.accepted => agreed)
        /\ a.step \in {"lines", "case", "ready"} => a.accepted
    BY <1>1, <2>2, AfterQuoteFacts
  <2> HIDE DEF a
  <2>4. cut' \subseteq Versions
    BY <2>1 DEF IInv, TypeOK
  <2> QED
    BY <2>1, <2>3, <2>4, OneSync, NoRowKeeps
<1> QED
  BY <1>4, <1>5, <1>6

\* The statements after it, and their loss.
LEMMA SyncRestKeeps ==
  ASSUME IInv, NEW k \in Syncs,
         SyncLines(k) \/ SyncCase(k) \/ SyncReady(k) \/ LoseSync(k)
  PROVE  IInv'
<1> DEFINE c == syncs[k]
           v == c.version
<1>1. /\ c \in Sync /\ (c.accepted => agreed) /\ v \in Versions /\ db \in Snapshots
      /\ c.step \in {"lines", "case", "ready"} => c.accepted
  <2>1. TypeOK /\ Carried(c)
    BY DEF IInv
  <2>2. c \in Sync
    BY <2>1 DEF TypeOK
  <2> HIDE DEF c
  <2> QED
    BY <2>1, <2>2 DEF Carried, Sync, Snapshots
<1> HIDE DEF v
<1>2. CASE SyncLines(k)
  <2> DEFINE q == [db.quotes[v] EXCEPT !.approvedLines = db.quotes[v].lines]
             a == [c EXCEPT !.step = "case"]
  <2>1. c.step = "lines" /\ Rewrite(db, [db EXCEPT !.quotes[v] = q]) /\ Proceed(k, a)
    BY <1>1, <1>2, DbFits DEF SyncLines, v, Database
  <2>2. a \in Sync /\ a.accepted = c.accepted
    BY <1>1 DEF Sync
  <2>3. q \in Quote /\ q.lucrareIndex = db.quotes[v].lucrareIndex
    BY <1>1, DbFits DEF Quote
  <2> HIDE DEF q, a
  <2> DEFINE new == [db EXCEPT !.quotes[v] = q]
  <2>4. Fits(new)
    BY <1>1, <2>3, DbFits, QuoteFitsIn DEF Jobs
  <2> HIDE DEF new
  <2>5. Rewrite(db, new)
    BY <2>1 DEF new
  <2>6. /\ a.accepted => agreed \/ Approval(new)
        /\ a.step \in {"lines", "case", "ready"} => a.accepted
    BY <1>1, <2>1, <2>2
  <2> HIDE DEF c
  <2> QED
    BY <1>1, <2>1, <2>2, <2>4, <2>5, <2>6, RewriteKeeps
<1>3. CASE SyncCase(k)
  <2> DEFINE a == IF c.repaired THEN [c EXCEPT !.step = "ready"] ELSE NoSync
             new == [db EXCEPT !.awaiting = TRUE, !.stage = "approval"]
  <2>1. c.step = "case" /\ Rewrite(db, new) /\ Proceed(k, a)
    BY <1>3 DEF SyncCase
  <2>2. /\ a \in Sync /\ (a.accepted => c.accepted)
        /\ a.step \in {"lines", "case", "ready"} => a.accepted
    BY <1>1, <2>1, NoSyncFacts DEF Sync
  <2>3. /\ new \in Database /\ new.quotes = db.quotes /\ new.supplement = db.supplement
        /\ new.ready1 = db.ready1 /\ new.supplementVersion = db.supplementVersion
        /\ new.completed = db.completed /\ new.resolved = db.resolved
        /\ new.stage # "closed" /\ new.in2 = db.in2 /\ new.status = db.status
    BY DbFits, StageNames DEF Database
  <2> HIDE DEF a, new, c
  <2>4. UnderRepair(new) => cleared
    BY <2>3, DbFits DEF UnderRepair, Recorded
  <2>5. agreed
    BY <1>1, <2>1
  <2>6. Fits(new)
    BY <2>3, <2>4, <2>5, DbFits, PlainFits DEF ClosedCase
  <2> QED
    BY <1>1, <2>1, <2>2, <2>5, <2>6, RewriteKeeps
<1>4. CASE SyncReady(k)
  <2> DEFINE new == [db EXCEPT !.ready = TRUE]
  <2>1. c.step = "ready" /\ Rewrite(db, new) /\ Proceed(k, NoSync)
    BY <1>4 DEF SyncReady
  <2>2. /\ new \in Database /\ new.quotes = db.quotes /\ new.supplement = db.supplement
        /\ new.ready1 = db.ready1 /\ new.supplementVersion = db.supplementVersion
        /\ new.completed = db.completed /\ new.resolved = db.resolved
        /\ new.stage = db.stage /\ new.in2 = db.in2 /\ new.status = db.status
    BY DbFits DEF Database
  <2> HIDE DEF new, c
  <2>3. UnderRepair(new) => cleared
    BY <2>2, DbFits DEF UnderRepair, Recorded
  <2>4. agreed
    BY <1>1, <2>1
  <2>5. Fits(new)
    BY <2>2, <2>3, <2>4, DbFits, PlainFits DEF ClosedCase
  <2> QED
    BY <1>1, <2>1, <2>4, <2>5, NoSyncFacts, RewriteKeeps
<1>5. CASE LoseSync(k)
  <2>1. Proceed(k, NoSync) /\ UNCHANGED rows /\ cut' \subseteq Versions
    BY <1>1, <1>5 DEF LoseSync, IInv, TypeOK, v
  <2> QED
    BY <2>1, NoSyncFacts, OneSync, NoRowKeeps
<1> QED
  BY <1>2, <1>3, <1>4, <1>5

-----------------------------------------------------------------------------
(***************************************************************************)
(* The invariant, and the properties that follow from it.                  *)
(***************************************************************************)
LEMMA InitInv == Init => IInv
<1> SUFFICES ASSUME Init
             PROVE  IInv
  OBVIOUS
<1>1. Opened \in Database
  <2>1. NoQuote \in Quote
    BY DEF NoQuote, Quote, QuoteStatuses
  <2>2. [v \in Versions |-> NoQuote] \in [Versions -> Quote] /\ {} \in SUBSET CostEntry
        /\ 0 \in 0 .. MaxVersion
    BY <2>1, ConstantsAssumption
  <2> QED
    BY <2>2, StageNames DEF Opened, Database, Paths, Pipeline, OrderStatuses, CarStatuses
<1>2. /\ Opened.quotes = [v \in Versions |-> NoQuote]
      /\ ~Opened.supplement /\ ~Opened.ready1 /\ ~Opened.ready /\ ~Opened.awaiting
      /\ Opened.path = "none" /\ Opened.supplementVersion = 0 /\ ~Opened.in2
      /\ ~Opened.resolved /\ Opened.stage # "closed" /\ Opened.pipeline = "earlier" /\ ~Opened.agreedAt
      /\ Opened.status = "sent"
  BY DEF Opened
<1>3. ASSUME NEW w
      PROVE  /\ Received(w) \in Database
             /\ Received(w).quotes = Opened.quotes
             /\ ~Received(w).supplement /\ ~Received(w).ready1 /\ ~Received(w).ready
             /\ ~Received(w).awaiting
             /\ Received(w).path = "none" /\ Received(w).supplementVersion = 0
             /\ ~Received(w).in2
             /\ ~Received(w).resolved /\ Received(w).stage # "closed" /\ Received(w).pipeline = "earlier"
             /\ ~Received(w).agreedAt
             /\ Received(w).status = "in_progress" => w # "damage"
  <2> DEFINE status == IF w = "damage" THEN "sent" ELSE "in_progress"
             r == [Opened EXCEPT !.stage = "in_service", !.in1 = TRUE, !.est = "long",
                                 !.status = status]
  <2>1. status \in OrderStatuses /\ (status = "in_progress" => w # "damage")
    BY DEF OrderStatuses
  <2>2. Received(w) = r
    BY DEF Received
  <2> DEFINE r0 == [Opened EXCEPT !.stage = "in_service", !.in1 = TRUE]
  <2>3. /\ r0 \in Database /\ r0.quotes = Opened.quotes
        /\ ~r0.supplement /\ ~r0.ready1 /\ ~r0.ready /\ ~r0.awaiting
        /\ r0.path = "none" /\ r0.supplementVersion = 0 /\ ~r0.in2
        /\ ~r0.resolved /\ r0.stage # "closed" /\ r0.pipeline = "earlier" /\ ~r0.agreedAt
    BY <1>1, <1>2, StageNames DEF Database
  <2>4. r = [r0 EXCEPT !.est = "long", !.status = status]
    OBVIOUS
  <2> HIDE DEF status, r0, r
  <2>5. /\ r \in Database /\ r.quotes = r0.quotes /\ r.status = status
        /\ ~r.supplement /\ ~r.ready1 /\ ~r.ready /\ ~r.awaiting
        /\ r.path = "none" /\ r.supplementVersion = 0 /\ ~r.in2
        /\ ~r.resolved /\ r.stage # "closed" /\ r.pipeline = "earlier" /\ ~r.agreedAt
    BY <2>1, <2>3, <2>4 DEF Database
  <2> QED
    BY <2>1, <2>2, <2>3, <2>5
<1>4. /\ db \in Database /\ db.quotes = [v \in Versions |-> NoQuote]
      /\ ~db.supplement /\ ~db.ready1 /\ ~db.ready /\ ~db.awaiting
      /\ db.path = "none" /\ db.supplementVersion = 0 /\ ~db.in2
      /\ ~db.resolved /\ db.stage # "closed" /\ db.pipeline = "earlier" /\ ~db.agreedAt
      /\ isDamage => db.status # "in_progress"
  BY <1>1, <1>2, <1>3 DEF Init, isDamage
<1>5. /\ NoQuote.status = "absent" /\ NoQuote.lucrareIndex = 1
  BY DEF NoQuote
<1>6. past = <<>> /\ syncs = [k \in Syncs |-> NoSync] /\ overlaps = 0
      /\ agreed = FALSE /\ cleared = GateOpen(db, db) /\ cut = {}
      /\ scene \in Scenes
  BY DEF Init
<1>7. TypeOK
  <2>1. cleared \in BOOLEAN
    BY <1>6 DEF GateOpen
  <2>2. past \in Seq(Database) /\ Len(past) <= MaxPast
    BY <1>6, ConstantsAssumption
  <2>3. syncs \in [Syncs -> Sync]
    BY <1>6, NoSyncFacts
  <2> QED
    BY <1>4, <1>6, <2>1, <2>2, <2>3 DEF TypeOK
<1>8. Snapshots = {db} /\ Later(db) = {db}
  BY <1>6 DEF Snapshots, Later
<1>9. Jobs(db) /\ ClosedCase(db) /\ Kept(db, db)
  BY <1>4, <1>5 DEF Jobs, ClosedCase, Kept
<1>10. Recorded(db)
  <2>1. With(db, "approved") = {}
    BY <1>4, <1>5 DEF With
  <2>2. ~InsurerReady(db) /\ ~Decided(db) /\ ~UnderRepair(db)
    BY <1>4 DEF InsurerReady, Decided, UnderRepair
  <2> QED
    BY <1>6, <2>1, <2>2 DEF Recorded, Approval
<1>11. \A k \in Syncs : Carried(syncs[k])
  BY <1>6, NoSyncFacts DEF Carried
<1> QED
  BY <1>6, <1>7, <1>8, <1>9, <1>10, <1>11 DEF IInv

\* The inductive step of IInv.
LEMMA NextKeeps == IInv /\ [Next]_vars => IInv'
<1> SUFFICES ASSUME IInv, [Next]_vars
             PROVE  IInv'
  OBVIOUS
<1>1. ASSUME NEW s \in Snapshots, NEW e \in s.costs, DeleteCost(s, e)
      PROVE  IInv'
  BY <1>1, DeleteCostCommits, CommittedKeeps
<1>2. ASSUME NEW s \in Snapshots, NEW v \in Versions, QuoteStep(s, v)
      PROVE  IInv'
  <2>1. \A lines \in SUBSET (Lines \ {Ref}) : lines \in SUBSET Lines
    OBVIOUS
  <2> QED
    BY <1>2, <2>1, DeleteDraftCommits, SubmitCommits, RejectCommits, OrderPartsCommits,
       RecordInvoiceCommits, ResubmitCommits, MoveLucrareIndexCommits, ApproveCommits,
       UpdateDraftCommits, PostCostCommits, CommittedKeeps DEF QuoteStep
<1>3. ASSUME NEW s \in Snapshots, OrderStep(s)
      PROVE  IInv'
  BY <1>3, MarkReadyCommits, StartSupplementCommits, CompletionCommits, AdvanceCommits,
     PatchMobilityCommits, PatchDamageClaimKeeps, CommittedKeeps DEF OrderStep
<1>4. ASSUME NEW s \in Snapshots, NEW t \in Later(s), TwoReadStep(s, t)
      PROVE  IInv'
  <2>1. Older(s, t) \in Snapshots
    BY TwoReads
  <2>2. \A lines \in SUBSET (Lines \ {Ref}) : lines \in SUBSET Lines
    OBVIOUS
  <2>3. {"reserved", "active", "waived"} \subseteq CarStatuses
    BY DEF CarStatuses
  <2>4. Committed(Older(s, t)) /\ UNCHANGED syncs
    BY <1>4, <2>2, <2>3, CreateDraftCommits, CompleteCommits, PatchEstimateCommits,
       PatchStatusCommits, ServiceTimesCommits, ApplyPostApprovalCommits,
       CreateMobilityCommits DEF TwoReadStep
  <2> QED
    BY <2>1, <2>4, CommittedKeeps
<1>5. ASSUME NEW k \in Syncs, SyncStep(k)
      PROVE  IInv'
  BY <1>5, SyncQuoteKeeps, SyncRestKeeps DEF SyncStep
<1>6. CASE UNCHANGED vars
  BY <1>6, NoRowKeeps DEF vars, IInv, TypeOK, Carried
<1> QED
  BY <1>1, <1>2, <1>3, <1>4, <1>5, <1>6 DEF Next

\* The rows keep their types, and the states requests act on are as many as the
\* bound says.
THEOREM TypeCorrect == Spec => []TypeOK
<1>1. IInv => TypeOK
  BY DEF IInv
<1> QED
  BY <1>1, InitInv, NextKeeps, PTL DEF Spec

\* No repair is declared ready and no way of repairing decided on before a quote
\* is approved or the insurer has accepted, whatever requests overlap and
\* after whichever of its statements a synchronisation is late or lost.
THEOREM ApprovedBeforeRepair == Spec => []RepairIsApproved
<1>1. IInv => RepairIsApproved
  BY DbFits DEF RepairIsApproved, Recorded, Decided
<1> QED
  BY <1>1, InitInv, NextKeeps, PTL DEF Spec

\* The first job of a damaged vehicle is under way only once a request could find the
\* repair gate open, which takes two reads: the claim, and the replacement car then or
\* later.
THEOREM GateBeforeFirstJob == Spec => []FirstJobGated
<1>1. IInv => FirstJobGated
  BY DbFits DEF FirstJobGated, Recorded, UnderRepair
<1> QED
  BY <1>1, InitInv, NextKeeps, PTL DEF Spec

\* The second job exists exactly when the first has been finished; quotes are
\* filed under it only then.
THEOREM SecondJobFollows == Spec => []SecondJobAfterFirst
<1>1. IInv => SecondJobAfterFirst
  BY DbFits DEF SecondJobAfterFirst, Jobs
<1> QED
  BY <1>1, InitInv, NextKeeps, PTL DEF Spec

\* A resolved ticket, and a case at its last stage, are those of a completed case,
\* whoever closed what first and however stale the rows he had read.
THEOREM ClosedTogether == Spec => []ResolvedIsClosed
<1>1. IInv => ResolvedIsClosed
  BY DbFits DEF ResolvedIsClosed, ClosedCase
<1> QED
  BY <1>1, InitInv, NextKeeps, PTL DEF Spec


-----------------------------------------------------------------------------
(***************************************************************************)
(* Decisions, approved amounts and costs.  They last as long as every      *)
(* request has read as they are the quotes it changes, which is so while   *)
(* overlaps = 0, when it acts on the database as it is.                    *)
(***************************************************************************)

\* Quote q has become r: what has been decided on it is final, ...
Final(q, r) ==
    /\ q.status = "approved" => /\ r.status = "approved"
                                /\ r.lines = q.lines
                                /\ r.approved = q.approved
    /\ q.status = "rejected" => r.status = "rejected"

\* ... its lines are decided on with it, ...
Entire(q, r) ==
    /\ q.status = "approved" => r.approvedLines = q.approvedLines
    /\ q.approvedLines \subseteq q.lines =>
          /\ r.approvedLines \subseteq r.lines
          /\ q.status # "approved" /\ r.status = "approved" =>
                r.approved = Value(r.approvedLines)

\* ... and it keeps what its cost rests on.
Paid(q, r) ==
    /\ r.cost \in {q.cost, NoCost}
    /\ q.status = "approved" => r.cost = q.cost /\ (q.invoiced => r.invoiced)

Careful(s) ==
    /\ db'.costs = db.costs
    /\ \A w \in Versions : s.quotes[w] = db.quotes[w] =>
          /\ Final(db.quotes[w], db'.quotes[w])
          /\ Entire(db.quotes[w], db'.quotes[w])
          /\ Paid(db.quotes[w], db'.quotes[w])

\* A quote that only its cost changes.
Same(q, r) == /\ r.status = q.status /\ r.lines = q.lines
              /\ r.approvedLines = q.approvedLines /\ r.approved = q.approved
              /\ r.invoiced = q.invoiced

\* Synchronisation k has approved version w, and is to approve its lines.
Halved(k, w) ==
    /\ syncs'[k].step = "lines" /\ syncs'[k].version = w
    /\ db'.quotes[w].status = "approved"
    /\ db'.quotes[w].approved = Value(db'.quotes[w].lines)
    /\ db'.quotes[w].lines = db.quotes[w].lines
    /\ db'.quotes[w].approvedLines = db.quotes[w].approvedLines

\* A quote left alone.
LEMMA LeftAlone ==
  \A q : Final(q, q) /\ Entire(q, q) /\ Paid(q, q) /\ Same(q, q)
BY DEF Final, Entire, Paid, Same

\* Approving a quote changes the order and the case, and no other quote or cost.
LEMMA ApprovedOrderSame ==
  ASSUME TypeOK, NEW s \in Snapshots, NEW v \in Versions
  PROVE  /\ ApprovedOrder(s, v) \in Database
         /\ ApprovedOrder(s, v).quotes = db.quotes
         /\ ApprovedOrder(s, v).costs = db.costs
<1> DEFINE awaiting == s.path = "none" \/ OutUnreturned(s)
           d == [db EXCEPT !.awaiting = awaiting, !.stage = "approval"]
<1>1. awaiting \in BOOLEAN
  OBVIOUS
<1>2. v \in 0 .. MaxVersion
  BY ConstantsAssumption DEF Versions
<1> HIDE DEF awaiting
<1>3. d \in Database /\ d.quotes = db.quotes /\ d.costs = db.costs
  BY <1>1, StageNames DEF Database, TypeOK
<1> HIDE DEF d
<1>4. ApprovedOrder(s, v) \in {OpenSecondJob(d, v), [d EXCEPT !.supplementVersion = v], d}
  BY DEF ApprovedOrder, d, awaiting
<1>5. /\ OpenSecondJob(d, v) \in Database
      /\ OpenSecondJob(d, v).quotes = db.quotes /\ OpenSecondJob(d, v).costs = db.costs
  <2> DEFINE e == [d EXCEPT !.ready1 = TRUE, !.ready = FALSE]
  <2>1. e \in Database /\ e.quotes = d.quotes /\ e.costs = d.costs
    BY <1>3 DEF Database
  <2>2. OpenSecondJob(d, v) = [e EXCEPT !.status = "in_progress", !.supplement = TRUE,
                                        !.supplementVersion = v]
    BY DEF OpenSecondJob
  <2> HIDE DEF e
  <2> QED
    BY ZenonT(30), <1>2, <1>3, <2>1, <2>2 DEF Database, OrderStatuses
<1>6. LET e == [d EXCEPT !.supplementVersion = v]
      IN  e \in Database /\ e.quotes = db.quotes /\ e.costs = db.costs
  BY <1>2, <1>3 DEF Database
<1> QED
  BY <1>3, <1>4, <1>5, <1>6

\* Most requests write a quote they have read, keeping what is careful, ...
LEMMA OneQuoteCareful ==
  ASSUME TypeOK, NEW s, NEW v \in Versions, NEW d \in Database, NEW q \in Quote,
         d.quotes = db.quotes, d.costs = db.costs,
         db' = [d EXCEPT !.quotes[v] = q],
         s.quotes[v] = db.quotes[v] => /\ Final(db.quotes[v], q)
                                       /\ Entire(db.quotes[v], q)
                                       /\ Paid(db.quotes[v], q)
  PROVE  Careful(s)
<1>1. /\ db'.costs = db.costs
      /\ \A w \in Versions : db'.quotes[w] = IF w = v THEN q ELSE db.quotes[w]
  BY DEF Database
<1> QED
  BY <1>1, LeftAlone DEF Careful

\* ... or no quote.
LEMMA NoQuoteCareful ==
  ASSUME NEW s, db'.quotes = db.quotes, db'.costs = db.costs
  PROVE  Careful(s)
BY LeftAlone DEF Careful

\* A change of stage leaves the quotes and the cost entries alone.
LEMMA StageSame ==
  ASSUME NEW d \in Database, NEW stage \in Stages
  PROVE  /\ AtLeast(d, stage) \in Database
         /\ AtLeast(d, stage).quotes = d.quotes
         /\ AtLeast(d, stage).costs = d.costs
<1>1. PICK x \in Stages : AtLeast(d, stage) = [d EXCEPT !.stage = x]
  <2>1. d.stage \in Stages
    BY DEF Database
  <2> QED
    BY <2>1, AtLeastIsStage
<1> QED
  BY <1>1 DEF Database

\* An operation of a quote other than postCost is careful.
LEMMA QuoteStepCareful ==
  ASSUME TypeOK, NEW s \in Snapshots, NEW v \in Versions, QuoteStep(s, v),
         ~\E c \in CostIds : PostCost(s, v, c)
  PROVE  Careful(s)
<1> DEFINE p == db.quotes[v]
<1>1. db \in Database /\ p \in Quote
  BY DEF TypeOK, Database
<1>2. \A stage \in Stages : /\ AtLeast(db, stage) \in Database
                            /\ AtLeast(db, stage).quotes = db.quotes
                            /\ AtLeast(db, stage).costs = db.costs
  BY <1>1, StageSame
<1>3. CASE DeleteDraft(s, v)
  <2>1. NoQuote \in Quote /\ NoQuote.status = "absent" /\ NoQuote.cost = NoCost
        /\ NoQuote.approvedLines = {}
    BY DEF NoQuote, Quote, QuoteStatuses
  <2>2. db' = [db EXCEPT !.quotes[v] = NoQuote] /\ s.quotes[v].status = "draft"
    BY <1>3 DEF DeleteDraft, ChangeQuote, Commit
  <2>3. s.quotes[v] = p => Final(p, NoQuote) /\ Entire(p, NoQuote) /\ Paid(p, NoQuote)
    BY <2>1, <2>2 DEF Final, Entire, Paid
  <2> QED
    BY <1>1, <2>1, <2>2, <2>3, OneQuoteCareful
<1>4. CASE Submit(s, v)
  <2> DEFINE q == [p EXCEPT !.status = "submitted"]
             d == AtLeast(db, "approval")
  <2>1. /\ q \in Quote /\ q.status = "submitted" /\ q.cost = p.cost
        /\ q.lines = p.lines /\ q.approvedLines = p.approvedLines
    BY <1>1 DEF Quote, QuoteStatuses
  <2>2. db' = [d EXCEPT !.quotes[v] = q] /\ s.quotes[v].status = "draft"
    BY <1>4 DEF Submit, ChangeQuote, Commit
  <2> HIDE DEF q
  <2>3. s.quotes[v] = p => Final(p, q) /\ Entire(p, q) /\ Paid(p, q)
    BY <2>1, <2>2 DEF Final, Entire, Paid
  <2> QED
    BY <1>2, <2>1, <2>2, <2>3, StageNames, OneQuoteCareful
<1>5. CASE Reject(s, v)
  <2> DEFINE q == [p EXCEPT !.status = "rejected"]
  <2>1. /\ q \in Quote /\ q.status = "rejected" /\ q.cost = p.cost
        /\ q.lines = p.lines /\ q.approvedLines = p.approvedLines
    BY <1>1 DEF Quote, QuoteStatuses
  <2>2. db' = [db EXCEPT !.quotes[v] = q] /\ s.quotes[v].status = "submitted"
    BY <1>5 DEF Reject, ChangeQuote, Commit
  <2> HIDE DEF q
  <2>3. s.quotes[v] = p => Final(p, q) /\ Entire(p, q) /\ Paid(p, q)
    BY <2>1, <2>2 DEF Final, Entire, Paid
  <2> QED
    BY <1>1, <2>1, <2>2, <2>3, OneQuoteCareful
<1>6. CASE OrderParts(s, v)
  <2>1. db'.quotes = db.quotes /\ db'.costs = db.costs
    BY <1>1, <1>6 DEF OrderParts, Commit, Database
  <2> QED
    BY <2>1, NoQuoteCareful
<1>7. CASE RecordInvoice(s, v)
  <2> DEFINE q == [p EXCEPT !.invoiced = TRUE]
             d == AtLeast(db, "invoiced")
  <2>1. /\ q \in Quote /\ q.status = p.status /\ q.lines = p.lines /\ q.cost = p.cost
        /\ q.approvedLines = p.approvedLines /\ q.approved = p.approved /\ q.invoiced
    BY <1>1 DEF Quote
  <2>2. db' = [d EXCEPT !.quotes[v] = q]
    BY <1>7 DEF RecordInvoice, ChangeQuote, Commit
  <2> HIDE DEF q
  <2>3. Final(p, q) /\ Entire(p, q) /\ Paid(p, q)
    BY <2>1 DEF Final, Entire, Paid
  <2> QED
    BY <1>2, <2>1, <2>2, <2>3, StageNames, OneQuoteCareful
<1>8. ASSUME NEW est \in {"short", "long"}, Resubmit(s, v, est)
      PROVE  Careful(s)
  <2> DEFINE q == [p EXCEPT !.approvedLines = {}]
             e == [db EXCEPT !.est = est]
             d == AtLeast(e, "approval")
  <2>1. /\ q \in Quote /\ q.status = p.status /\ q.cost = p.cost
        /\ q.approvedLines = {}
    BY <1>1 DEF Quote
  <2>2. e \in Database /\ e.quotes = db.quotes /\ e.costs = db.costs
    BY <1>1 DEF Database
  <2>3. db' = [d EXCEPT !.quotes[v] = q] /\ s.quotes[v].status = "submitted"
    BY <1>8 DEF Resubmit, AskAgain, ChangeQuote, Commit
  <2> HIDE DEF q, e
  <2>4. d \in Database /\ d.quotes = db.quotes /\ d.costs = db.costs
    BY <2>2, StageSame, StageNames
  <2>5. s.quotes[v] = p => Final(p, q) /\ Entire(p, q) /\ Paid(p, q)
    BY <2>1, <2>3 DEF Final, Entire, Paid
  <2> QED
    BY <2>1, <2>3, <2>4, <2>5, OneQuoteCareful
<1>9. ASSUME NEW index \in {1, 2}, MoveLucrareIndex(s, v, index)
      PROVE  Careful(s)
  <2> DEFINE q == [p EXCEPT !.lucrareIndex = index]
  <2>1. /\ q \in Quote /\ q.status = p.status /\ q.lines = p.lines /\ q.cost = p.cost
        /\ q.approvedLines = p.approvedLines /\ q.approved = p.approved
        /\ q.invoiced = p.invoiced
    BY <1>1 DEF Quote
  <2>2. db' = [db EXCEPT !.quotes[v] = q]
    BY <1>9 DEF MoveLucrareIndex, ChangeQuote, Commit
  <2> HIDE DEF q
  <2>3. Final(p, q) /\ Entire(p, q) /\ Paid(p, q)
    BY <2>1 DEF Final, Entire, Paid
  <2> QED
    BY <1>1, <2>1, <2>2, <2>3, OneQuoteCareful
<1>10. ASSUME NEW lines \in SUBSET Lines, Approve(s, v, lines)
       PROVE  Careful(s)
  <2> DEFINE second == OpensSecondJob(s, v) \/ JoinsSecondJob(s)
             q == [p EXCEPT !.status = "approved", !.approvedLines = lines,
                            !.approved = Value(lines),
                            !.lucrareIndex = IF second THEN 2 ELSE @]
             d == ApprovedOrder(s, v)
  <2>1. /\ q \in Quote /\ q.status = "approved" /\ q.cost = p.cost
        /\ q.approved = Value(q.approvedLines) /\ q.approvedLines \subseteq q.lines
    <3>1. Value(lines) \in SUBSET Lines
      BY DEF Value
    <3>2. lines \subseteq p.lines
      BY <1>10 DEF Approve
    <3> QED
      BY <1>1, <3>1, <3>2 DEF Quote, QuoteStatuses
  <2>2. db' = [d EXCEPT !.quotes[v] = q] /\ s.quotes[v].status = "submitted"
    BY <1>10 DEF Approve, ChangeQuote, Commit
  <2> HIDE DEF q
  <2>3. d \in Database /\ d.quotes = db.quotes /\ d.costs = db.costs
    BY <1>1, ApprovedOrderSame
  <2> HIDE DEF d
  <2>4. s.quotes[v] = p => Final(p, q) /\ Entire(p, q) /\ Paid(p, q)
    BY <2>1, <2>2 DEF Final, Entire, Paid
  <2> QED
    BY <2>1, <2>2, <2>3, <2>4, OneQuoteCareful
<1>11. ASSUME NEW lines \in SUBSET Lines, UpdateDraft(s, v, lines)
       PROVE  Careful(s)
  <2> DEFINE q == [p EXCEPT !.lines = lines, !.approvedLines = {}]
  <2>1. /\ q \in Quote /\ q.status = p.status /\ q.cost = p.cost
        /\ q.approvedLines = {}
    BY <1>1 DEF Quote
  <2>2. db' = [db EXCEPT !.quotes[v] = q] /\ s.quotes[v].status = "draft"
    BY <1>11 DEF UpdateDraft, ChangeQuote, Commit
  <2> HIDE DEF q
  <2>3. s.quotes[v] = p => Final(p, q) /\ Entire(p, q) /\ Paid(p, q)
    BY <2>1, <2>2 DEF Final, Entire, Paid
  <2> QED
    BY <1>1, <2>1, <2>2, <2>3, OneQuoteCareful
<1>12. \A lines \in SUBSET (Lines \ {Ref}) : lines \in SUBSET Lines
  OBVIOUS
<1> QED
  BY <1>3, <1>4, <1>5, <1>6, <1>7, <1>8, <1>9, <1>10, <1>11, <1>12 DEF QuoteStep

\* The requests about the order touch no quote.
LEMMA OrderStepSame ==
  ASSUME IInv, NEW s \in Snapshots, OrderStep(s)
  PROVE  db'.quotes = db.quotes /\ db'.costs = db.costs
<1>1. db \in Database
  BY DEF IInv, TypeOK
<1>2. CASE \/ MarkReady(s) \/ StartSupplement(s) \/ CompleteByPartner(s) \/ Transform(s)
           \/ \E status \in CarStatuses \ {"none"} : PatchMobility(s, status)
           \/ \E stage \in Stages : Advance(s, stage)
  BY <1>1, <1>2 DEF MarkReady, StartSupplement, CompleteByPartner, Transform, PatchMobility,
                    Advance, Write, Commit, Database
<1>3. CASE PatchDamageClaim(s)
  <2>1. PICK d \in Claimed(s) : db' = d
    BY <1>3 DEF PatchDamageClaim, Rewrite, Commit
  <2>2. d.quotes = db.quotes /\ d.costs = db.costs
    BY <1>1 DEF Claimed, Database
  <2> QED
    BY <2>1, <2>2
<1> QED
  BY <1>2, <1>3 DEF OrderStep

\* Nor do those that read twice, except for the draft that createDraft adds.
LEMMA TwoReadSame ==
  ASSUME IInv, NEW s \in Snapshots, NEW t \in Later(s), TwoReadStep(s, t),
         ~\E lines \in SUBSET Lines : CreateDraft(s, t, lines)
  PROVE  db'.quotes = db.quotes /\ db'.costs = db.costs
<1>1. db \in Database
  BY DEF IInv, TypeOK
<1>2. CASE \/ \E est \in {"short", "long"} : PatchEstimate(s, t, est)
           \/ \E status \in OrderStatuses : PatchStatus(s, t, status)
           \/ \E status \in {"reserved", "active", "waived"} : CreateMobility(s, t, status)
  BY <1>1, <1>2 DEF PatchEstimate, PatchStatus, CreateMobility, Write, Commit, Database
<1>3. CASE Complete(s, t)
  <2> DEFINE status == IF s.status = "done" THEN CloseCase(s).status ELSE "done"
             d == [CloseCase(s) EXCEPT !.status = status, !.resolved = TRUE]
  <2>1. db' = d
    BY <1>3 DEF Complete, Write, Commit
  <2>2. /\ CloseCase(s) \in Database
        /\ CloseCase(s).quotes = db.quotes /\ CloseCase(s).costs = db.costs
    <3>1. CASE CaseClosed(s)
      BY <1>1, <3>1 DEF CloseCase
    <3>2. CASE ~CaseClosed(s)
      BY <1>1, <3>2, StageNames DEF CloseCase, Database
    <3> QED
      BY <3>1, <3>2
  <2> HIDE DEF status
  <2> QED
    BY <2>1, <2>2 DEF Database
<1>4. ASSUME NEW in \in {"keep", "set", "clear"}, NEW out \in {"keep", "set", "clear"},
             ServiceTimes(s, t, in, out)
      PROVE  db'.quotes = db.quotes /\ db'.costs = db.costs
  <2> DEFINE second == SecondVisit(s)
             starts == in = "set" /\ (second \/ ~isDamage)
                               /\ s.status \in {"sent", "waiting_parts"}
             d1 == IF second
                   THEN [db EXCEPT !.in2 = Stamp(@, in), !.out2 = Stamp(@, out)]
                   ELSE [db EXCEPT !.in1 = Stamp(@, in), !.out1 = Stamp(@, out)]
             d2 == IF starts THEN [d1 EXCEPT !.status = "in_progress"] ELSE d1
             d3 == IF in = "set" THEN AtLeast(d2, "in_service") ELSE d2
             d4 == IF out = "set" THEN AtLeast(d3, "out_service") ELSE d3
  <2>1. db' = d4
    BY <1>4 DEF ServiceTimes, Write, Commit
  <2>2. d1 \in Database /\ d1.quotes = db.quotes /\ d1.costs = db.costs
    <3>1. \A old \in BOOLEAN : Stamp(old, in) \in BOOLEAN /\ Stamp(old, out) \in BOOLEAN
      BY DEF Stamp
    <3>2. /\ db.in1 \in BOOLEAN /\ db.out1 \in BOOLEAN
          /\ db.in2 \in BOOLEAN /\ db.out2 \in BOOLEAN
      BY <1>1 DEF Database
    <3>3. /\ Stamp(db.in1, in) \in BOOLEAN /\ Stamp(db.out1, out) \in BOOLEAN
          /\ Stamp(db.in2, in) \in BOOLEAN /\ Stamp(db.out2, out) \in BOOLEAN
      BY <3>1, <3>2
    <3> QED
      BY ZenonT(30), <1>1, <3>3 DEF Database
  <2> HIDE DEF d1
  <2>3. d2 \in Database /\ d2.quotes = db.quotes /\ d2.costs = db.costs
    BY <2>2 DEF Database, OrderStatuses
  <2> HIDE DEF d2
  <2>4. d3 \in Database /\ d3.quotes = db.quotes /\ d3.costs = db.costs
    BY <2>3, StageSame, StageNames
  <2> HIDE DEF d3
  <2>5. d4.quotes = db.quotes /\ d4.costs = db.costs
    BY <2>4, StageSame, StageNames
  <2> QED
    BY <2>1, <2>5
<1>5. ASSUME NEW path \in {"immediate", "reschedule"}, ApplyPostApproval(s, t, path)
      PROVE  db'.quotes = db.quotes /\ db'.costs = db.costs
  <2> DEFINE d == [db EXCEPT !.awaiting = FALSE, !.path = path,
                       !.stage = IF path = "immediate" THEN "work_order" ELSE "scheduled"]
             starts == path = "immediate" /\ db.status \in {"sent", "waiting_parts"}
  <2>1. db' = IF starts THEN [d EXCEPT !.status = "in_progress"] ELSE d
    BY <1>5 DEF ApplyPostApproval, TakePath, Write, Commit
  <2>2. d \in Database /\ d.quotes = db.quotes /\ d.costs = db.costs
    BY ZenonT(30), <1>1, StageNames DEF Database, Paths
  <2> HIDE DEF d, starts
  <2> QED
    BY <2>1, <2>2 DEF Database
<1>6. \A lines \in SUBSET (Lines \ {Ref}) : lines \in SUBSET Lines
  OBVIOUS
<1> QED
  BY <1>2, <1>3, <1>4, <1>5, <1>6 DEF TwoReadStep

\* A draft is of a version that did not exist, whatever has been read.
LEMMA CreateDraftEffect ==
  ASSUME TypeOK, NEW s, NEW t, NEW lines \in SUBSET Lines, CreateDraft(s, t, lines)
  PROVE  /\ db'.costs = db.costs
         /\ \A w \in Versions : /\ Final(db.quotes[w], db'.quotes[w])
                                /\ Entire(db.quotes[w], db'.quotes[w])
                                /\ Paid(db.quotes[w], db'.quotes[w])
<1> DEFINE n == NextVersion(t)
           q == DraftOf(s, lines)
           d == [db EXCEPT !.quotes[n] = q]
<1>1. /\ n \in Versions /\ ~Exists(db, n)
      /\ db' = AtLeast(d, "quote")
  BY DEF CreateDraft, Commit
<1>2. /\ q \in Quote /\ q.status = "draft" /\ q.cost = NoCost
      /\ q.approvedLines = {}
  <2> DEFINE index == IF s.supplement THEN 2 ELSE 1
  <2>1. q = [NoQuote EXCEPT !.status = "draft", !.lines = lines, !.lucrareIndex = index]
    BY DEF DraftOf
  <2>2. index \in {1, 2}
    OBVIOUS
  <2>3. NoQuote \in Quote /\ NoQuote.cost = NoCost /\ NoQuote.approvedLines = {}
    BY DEF NoQuote, Quote, QuoteStatuses
  <2> HIDE DEF index, q
  <2> QED
    BY <2>1, <2>2, <2>3 DEF Quote, QuoteStatuses
<1> HIDE DEF n, q
<1>3. /\ d \in Database /\ d.costs = db.costs
      /\ \A w \in Versions : d.quotes[w] = IF w = n THEN q ELSE db.quotes[w]
  BY <1>1, <1>2 DEF TypeOK, Database
<1> HIDE DEF d
<1>4. db'.quotes = d.quotes /\ db'.costs = d.costs
  BY <1>1, <1>3, StageSame, StageNames
<1>5. Final(db.quotes[n], q) /\ Entire(db.quotes[n], q) /\ Paid(db.quotes[n], q)
  BY <1>1, <1>2 DEF Exists, Final, Entire, Paid
<1> QED
  BY <1>3, <1>4, <1>5, LeftAlone

\* What postCost requires of the quote it read, and what it writes.
LEMMA PostCostEffect ==
  ASSUME TypeOK, NEW s \in Snapshots, NEW v \in Versions, NEW c \in CostIds,
         PostCost(s, v, c)
  PROVE  /\ s.quotes[v].status = "approved" /\ s.quotes[v].invoiced
         /\ s.quotes[v].cost = NoCost
         /\ ~\E e \in db.costs : e.id = c
         /\ db'.costs = db.costs \cup {[id |-> c, quote |-> v,
                                        amount |-> s.quotes[v].approved]}
         /\ \A w \in Versions : db'.quotes[w] = IF w = v THEN [db.quotes[v] EXCEPT !.cost = c]
                                                ELSE db.quotes[w]
<1> DEFINE q == [db.quotes[v] EXCEPT !.cost = c]
           e == [id |-> c, quote |-> v, amount |-> s.quotes[v].approved]
           costs == db.costs \cup {e}
           d == [db EXCEPT !.costs = costs, !.linked = TRUE]
           dd == AtLeast(d, "cost")
<1>1. db' = [dd EXCEPT !.quotes[v] = q]
  BY DEF PostCost, AddCost, ChangeQuote, Commit
<1>2. db \in Database /\ s \in Database
  BY SnapshotsTyped DEF TypeOK
<1>3. s.quotes[v] \in Quote /\ q \in Quote
  BY SMTT(30), <1>2 DEF Database, Quote
<1>4. costs \in SUBSET CostEntry
  BY <1>2, <1>3 DEF CostEntry, Quote, Database
<1> HIDE DEF q, costs
<1>5. d \in Database /\ d.costs = costs /\ d.quotes = db.quotes
  BY <1>2, <1>4 DEF Database
<1> HIDE DEF d
<1>6. dd \in Database /\ dd.costs = costs /\ dd.quotes = db.quotes
  BY <1>5, StageSame, StageNames
<1> HIDE DEF dd
<1>7. /\ db'.costs = costs
      /\ \A w \in Versions : db'.quotes[w] = IF w = v THEN q ELSE db.quotes[w]
  BY <1>1, <1>2, <1>3, <1>6 DEF Database
<1>8. /\ s.quotes[v].status = "approved" /\ s.quotes[v].invoiced
      /\ s.quotes[v].cost = NoCost
      /\ ~\E f \in db.costs : f.id = c
  BY DEF PostCost, AddCost
<1> QED
  BY <1>7, <1>8 DEF q, costs

\* Deleting a cost entry takes it off every quote that names it.
LEMMA DeleteCostEffect ==
  ASSUME TypeOK, NEW s \in Snapshots, NEW e, DeleteCost(s, e)
  PROVE  /\ e \in db.costs
         /\ db'.costs = db.costs \ {e}
         /\ \A w \in Versions :
               db'.quotes[w] = IF db.quotes[w].cost = e.id
                               THEN [db.quotes[w] EXCEPT !.cost = NoCost]
                               ELSE db.quotes[w]
<1> DEFINE f == [w \in Versions |->
                    IF db.quotes[w].cost = e.id THEN [db.quotes[w] EXCEPT !.cost = NoCost]
                                                ELSE db.quotes[w]]
           costs == db.costs \ {e}
<1>1. db' = [db EXCEPT !.costs = costs, !.quotes = f] /\ e \in db.costs
  BY DEF DeleteCost, Commit
<1>2. db \in Database
  BY DEF TypeOK
<1> HIDE DEF f, costs
<1>3. db'.costs = costs /\ db'.quotes = f
  BY <1>1, <1>2 DEF Database
<1> QED
  BY <1>1, <1>3 DEF f, costs

\* What a step of postCost, or the deletion of a cost, does to a quote.
CostStep(s) ==
    \/ \E v \in Versions, c \in CostIds : PostCost(s, v, c)
    \/ \E e \in s.costs : DeleteCost(s, e)

LEMMA CostStepSame ==
  ASSUME TypeOK, NEW s \in Snapshots, CostStep(s)
  PROVE  \A w \in Versions : Same(db.quotes[w], db'.quotes[w])
<1>1. \A w \in Versions : db.quotes[w] \in Quote
  BY DEF TypeOK, Database
<1>2. \A w \in Versions, c \in CostIds \cup {NoCost} : Same(db.quotes[w], [db.quotes[w] EXCEPT !.cost = c])
  BY <1>1 DEF Same, Quote
<1>3. \A w \in Versions : \/ db'.quotes[w] = db.quotes[w]
                          \/ \E c \in CostIds \cup {NoCost} :
                                db'.quotes[w] = [db.quotes[w] EXCEPT !.cost = c]
  <2>1. ASSUME NEW v \in Versions, NEW c \in CostIds, PostCost(s, v, c), NEW w \in Versions
        PROVE  \/ db'.quotes[w] = db.quotes[w]
               \/ db'.quotes[w] = [db.quotes[w] EXCEPT !.cost = c]
    <3>1. db'.quotes[w] = IF w = v THEN [db.quotes[v] EXCEPT !.cost = c] ELSE db.quotes[w]
      BY <2>1, PostCostEffect
    <3> QED
      BY <3>1
  <2>2. ASSUME NEW e \in s.costs, DeleteCost(s, e), NEW w \in Versions
        PROVE  \/ db'.quotes[w] = db.quotes[w]
               \/ db'.quotes[w] = [db.quotes[w] EXCEPT !.cost = NoCost]
    BY <2>2, DeleteCostEffect
  <2> QED
    BY <2>1, <2>2 DEF CostStep
<1> QED
  BY <1>2, <1>3, LeftAlone

\* The statement on the quote: the first quote is made whole, ...
LEMMA SyncCreatesEffect ==
  ASSUME IInv, NEW k \in Syncs, NEW s \in Snapshots, SyncCreates(k, s)
  PROVE  Careful(s)
<1> DEFINE c == syncs[k]
           approved == IF c.accepted THEN {Ref} ELSE {}
           status == Decision(c)
           q == [NoQuote EXCEPT !.status = status, !.lines = {Ref}, !.approvedLines = approved]
<1>1. /\ db' = [db EXCEPT !.quotes[1] = q] /\ db.quotes[1].status = "absent"
      /\ 1 \in Versions
  BY ConstantsAssumption DEF SyncCreates, Commit, Exists, Versions
<1>2. /\ status \in QuoteStatuses \ {"absent"} /\ (status = "approved" => c.accepted)
  BY DEF Decision, QuoteStatuses
<1>3. /\ NoQuote \in Quote /\ NoQuote.cost = NoCost /\ NoQuote.approved = {}
  BY DEF NoQuote, Quote, QuoteStatuses
<1>4. approved \in SUBSET Lines /\ approved \subseteq {Ref} /\ {Ref} \in SUBSET Lines
      /\ Value(approved) = {}
  BY ConstantsAssumption DEF Value
<1> HIDE DEF approved, status, c
<1>5. /\ q \in Quote /\ q.cost = NoCost /\ q.approved = Value(q.approvedLines)
      /\ q.approvedLines \subseteq q.lines
  BY <1>2, <1>3, <1>4 DEF Quote
<1> HIDE DEF q
<1>6. Final(db.quotes[1], q) /\ Entire(db.quotes[1], q) /\ Paid(db.quotes[1], q)
  BY <1>1, <1>5 DEF Final, Entire, Paid
<1> QED
  BY <1>1, <1>5, <1>6, OneQuoteCareful DEF IInv, TypeOK

\* ... and the newest is approved with all its lines, which follow.
LEMMA SyncDecidesEffect ==
  ASSUME IInv, NEW k \in Syncs, NEW s \in Snapshots, SyncDecides(k, s)
  PROVE  LET v == NextVersion(s) - 1
         IN  /\ v \in Versions /\ db'.costs = db.costs
             /\ \A w \in Versions : w # v => db'.quotes[w] = db.quotes[w]
             /\ s.quotes[v] = db.quotes[v] =>
                  /\ Final(db.quotes[v], db'.quotes[v]) /\ Paid(db.quotes[v], db'.quotes[v])
                  /\ db.quotes[v].status # "approved"
                  /\ Entire(db.quotes[v], db'.quotes[v]) \/ Halved(k, v)
                  /\ syncs'[k].step = "lines" => Halved(k, v)
<1> DEFINE c == syncs[k]
           v == NextVersion(s) - 1
           approved == IF c.accepted THEN Value(s.quotes[v].lines) ELSE s.quotes[v].approved
           status == Decision(c)
           p == db.quotes[v]
           q == [p EXCEPT !.status = status, !.approved = approved]
           step == LinesNext(s.quotes[v])
           a == AfterQuote(c, s, v, step)
<1>1. v \in Versions
  BY NextVersionFacts DEF SyncDecides
<1>2. /\ c \in Sync /\ s \in Database /\ db \in Database /\ p \in Quote
      /\ s.quotes[v] \in Quote
  BY <1>1, ReadFacts, DbFits DEF IInv, TypeOK
<1>3. /\ db' = [db EXCEPT !.quotes[v] = q]
      /\ Decidable(c, s.quotes[v])
      /\ syncs' = [syncs EXCEPT ![k] = a]
  BY <1>1, <1>2 DEF SyncDecides, Rewrite, Commit, Proceed, Database
<1>4. approved \in SUBSET Lines
  BY <1>2 DEF Quote, Value
<1>5. status \in QuoteStatuses
  BY DEF Decision, QuoteStatuses
<1>6. syncs'[k] = a
  BY <1>3 DEF IInv, TypeOK
<1>7. CASE c.accepted
  <2>1. status = "approved" /\ approved = Value(s.quotes[v].lines)
    BY <1>7 DEF Decision
  <2>2. a.step = step /\ a.version = v
    BY <1>2, <1>7 DEF AfterQuote, Sync
  <2>3. step = IF s.quotes[v].lines # {} THEN "lines" ELSE "case"
    BY DEF LinesNext
  <2>4. s.quotes[v].status \in {"draft", "submitted"}
    BY <1>3 DEF Decidable
  <2> HIDE DEF c, v, approved, status, step, a, p
  <2>5. /\ q \in Quote /\ q.status = "approved" /\ q.approved = Value(s.quotes[v].lines)
        /\ q.lines = p.lines /\ q.approvedLines = p.approvedLines /\ q.cost = p.cost
    BY <1>2, <1>4, <1>5, <2>1 DEF Quote
  <2> HIDE DEF q
  <2>6. /\ db'.costs = db.costs
        /\ \A w \in Versions : db'.quotes[w] = IF w = v THEN q ELSE db.quotes[w]
    BY <1>1, <1>2, <1>3, <2>5 DEF Database
  <2>7. ASSUME s.quotes[v] = p
        PROVE  /\ Final(p, q) /\ Paid(p, q) /\ p.status # "approved"
               /\ Entire(p, q) \/ Halved(k, v)
               /\ step = "lines" => Halved(k, v)
    <3>1. p.status \in {"draft", "submitted"}
      BY <2>4, <2>7
    <3>2. Final(p, q) /\ Paid(p, q) /\ p.status # "approved"
      BY <2>5, <3>1 DEF Final, Paid
    <3>3. step = "lines" => Halved(k, v)
      BY <1>1, <1>6, <2>2, <2>5, <2>6, <2>7 DEF Halved, p
    <3>4. step # "lines" => Entire(p, q)
      <4> SUFFICES ASSUME step # "lines", p.approvedLines \subseteq p.lines
                   PROVE  /\ q.approvedLines \subseteq q.lines
                          /\ q.approved = Value(q.approvedLines)
        BY <3>1 DEF Entire
      <4>1. p.lines = {}
        BY <2>3, <2>7
      <4> QED
        BY <2>5, <2>7, <4>1
    <3> QED
      BY <3>2, <3>3, <3>4
  <2> QED
    BY <1>1, <1>6, <2>2, <2>6, <2>7 DEF v, p
<1>8. CASE ~c.accepted
  <2>1. status = "submitted"
    BY <1>8 DEF Decision
  <2>2. a.step = "idle"
    BY <1>8, NoSyncFacts DEF AfterQuote
  <2>3. s.quotes[v].status = "draft"
    BY <1>3, <1>8 DEF Decidable
  <2> HIDE DEF c, v, approved, status, step, a, p
  <2>4. /\ q \in Quote /\ q.status = "submitted"
        /\ q.lines = p.lines /\ q.approvedLines = p.approvedLines /\ q.cost = p.cost
    BY <1>2, <1>4, <1>5, <2>1 DEF Quote
  <2> HIDE DEF q
  <2>5. /\ db'.costs = db.costs
        /\ \A w \in Versions : db'.quotes[w] = IF w = v THEN q ELSE db.quotes[w]
    BY <1>1, <1>2, <1>3, <2>4 DEF Database
  <2>6. s.quotes[v] = p => /\ Final(p, q) /\ Paid(p, q) /\ Entire(p, q)
                           /\ p.status # "approved"
    BY <2>3, <2>4 DEF Final, Paid, Entire
  <2> QED
    BY <1>1, <1>6, <2>2, <2>5, <2>6 DEF v, p
<1> QED
  BY <1>7, <1>8

\* The statement on the lines.
LEMMA SyncLinesEffect ==
  ASSUME IInv, NEW k \in Syncs, SyncLines(k)
  PROVE  LET v == syncs[k].version
         IN  /\ v \in Versions /\ syncs[k].step = "lines" /\ db'.costs = db.costs
             /\ \A w \in Versions : w # v => db'.quotes[w] = db.quotes[w]
             /\ db'.quotes[v] = [db.quotes[v] EXCEPT !.approvedLines = db.quotes[v].lines]
<1> DEFINE v == syncs[k].version
           q == [db.quotes[v] EXCEPT !.approvedLines = db.quotes[v].lines]
<1>1. v \in Versions
  BY DEF IInv, TypeOK, Sync
<1> HIDE DEF v
<1>2. db' = [db EXCEPT !.quotes[v] = q] /\ syncs[k].step = "lines"
  BY <1>1, DbFits DEF SyncLines, Rewrite, Commit, v, Database
<1>3. /\ db'.costs = db.costs
      /\ \A w \in Versions : db'.quotes[w] = IF w = v THEN q ELSE db.quotes[w]
  BY <1>1, <1>2, DbFits DEF Database
<1> QED
  BY <1>1, <1>2, <1>3 DEF v

\* The last two statements, and their loss, touch no quote.
LEMMA SyncRestSame ==
  ASSUME IInv, NEW k \in Syncs, SyncCase(k) \/ SyncReady(k) \/ LoseSync(k)
  PROVE  db'.quotes = db.quotes /\ db'.costs = db.costs
BY DbFits DEF SyncCase, SyncReady, LoseSync, Rewrite, Commit, rows, Database

\* A step of a request that has read s, as Next has it, ...
RequestStep(s) ==
    \/ \E e \in s.costs : DeleteCost(s, e)
    \/ \E v \in Versions : QuoteStep(s, v)
    \/ OrderStep(s)

\* ... and the statement of a synchronisation on the quote it has read in s.
SyncQuote(k, s) == SyncCreates(k, s) \/ SyncDecides(k, s) \/ SyncPasses(k, s)

\* The quotes it changes are as it has read them; a draft is new, and the later
\* statements of a synchronisation have read nothing.
Current(s) == \A w \in Versions :
                 db'.quotes[w] # db.quotes[w] => s.quotes[w] = db.quotes[w]

Orderly ==
    \/ \E s \in Snapshots : RequestStep(s) /\ Current(s)
    \/ \E s \in Snapshots : \E t \in Later(s) : TwoReadStep(s, t)
    \/ \E k \in Syncs, s \in Snapshots : SyncQuote(k, s) /\ Current(s)
    \/ \E k \in Syncs : SyncLines(k) \/ SyncCase(k) \/ SyncReady(k) \/ LoseSync(k)

\* A request other than those of costs is careful, and one that acts on the
\* database as it is has read as they are the quotes it changes.
LEMMA RequestCareful ==
  ASSUME IInv, NEW s \in Snapshots, RequestStep(s), ~CostStep(s)
  PROVE  Careful(s)
<1>1. TypeOK
  BY DEF IInv
<1>2. CASE \E v \in Versions : QuoteStep(s, v)
  BY <1>1, <1>2, QuoteStepCareful DEF CostStep
<1>3. CASE OrderStep(s)
  BY <1>3, OrderStepSame, NoQuoteCareful
<1> QED
  BY <1>2, <1>3 DEF RequestStep, CostStep

\* A draft, and what else is written after two reads, is careful of every quote.
LEMMA TwoReadCareful ==
  ASSUME IInv, NEW s \in Snapshots, NEW t \in Later(s), TwoReadStep(s, t)
  PROVE  Careful(db)
<1>1. TypeOK
  BY DEF IInv
<1>2. CASE \E lines \in SUBSET Lines : CreateDraft(s, t, lines)
  BY <1>1, <1>2, CreateDraftEffect DEF Careful
<1>3. CASE ~\E lines \in SUBSET Lines : CreateDraft(s, t, lines)
  BY <1>3, TwoReadSame, NoQuoteCareful
<1> QED
  BY <1>2, <1>3

\* What requests count when they overlap.
LEMMA RequestCounts ==
  ASSUME IInv, NEW s \in Snapshots, RequestStep(s)
  PROVE  Count(s)
<1>1. ASSUME NEW v \in Versions, QuoteStep(s, v)
      PROVE  Count(s)
  BY <1>1 DEF QuoteStep, DeleteDraft, Submit, Reject, OrderParts, RecordInvoice, Resubmit,
              AskAgain, MoveLucrareIndex, Approve, UpdateDraft, PostCost, AddCost,
              ChangeQuote, Commit
<1>2. ASSUME OrderStep(s)
      PROVE  Count(s)
  BY <1>2 DEF OrderStep, MarkReady, StartSupplement, CompleteByPartner, Transform,
              PatchMobility, Advance, PatchDamageClaim, Write, Rewrite, Commit
<1> QED
  BY <1>1, <1>2 DEF RequestStep, DeleteCost, Commit

LEMMA TwoReadCounts ==
  ASSUME IInv, NEW s \in Snapshots, NEW t \in Later(s), TwoReadStep(s, t)
  PROVE  Count(Older(s, t))
<1>1. ASSUME NEW in, NEW out, ServiceTimes(s, t, in, out)
      PROVE  Count(Older(s, t))
  BY <1>1, Zenon DEF ServiceTimes, Write, Commit
<1>2. ASSUME NEW path, ApplyPostApproval(s, t, path)
      PROVE  Count(Older(s, t))
  BY <1>2, Zenon DEF ApplyPostApproval, TakePath, Write, Commit
<1> QED
  BY <1>1, <1>2, Zenon DEF TwoReadStep, CreateDraft, Complete, PatchEstimate, PatchStatus,
                           CreateMobility, Write, Commit

\* So while nobody has overlapped, everybody has read what they change.
LEMMA UnracedOrderly ==
  ASSUME IInv, Next, overlaps' = 0
  PROVE  overlaps = 0 /\ Orderly
<1>1. overlaps \in Nat
  BY DEF IInv, TypeOK
<1>2. ASSUME NEW s, Count(s)
      PROVE  overlaps = 0 /\ s = db
  BY <1>1, <1>2 DEF Count
<1>3. Current(db)
  BY DEF Current
<1>4. ASSUME NEW s \in Snapshots, RequestStep(s)
      PROVE  overlaps = 0 /\ Orderly
  BY <1>2, <1>3, <1>4, RequestCounts DEF Orderly
<1>5. ASSUME NEW s \in Snapshots, NEW t \in Later(s), TwoReadStep(s, t)
      PROVE  overlaps = 0 /\ Orderly
  BY <1>2, <1>5, TwoReadCounts DEF Orderly
<1>6. ASSUME NEW k \in Syncs, NEW s \in Snapshots, SyncQuote(k, s)
      PROVE  overlaps = 0 /\ Orderly
  <2>1. CASE SyncPasses(k, s)
    <3>1. overlaps = 0 /\ Current(s)
      BY <2>1 DEF SyncPasses, rows, Current
    <3> QED
      BY <1>6, <3>1 DEF Orderly
  <2>2. CASE SyncCreates(k, s) \/ SyncDecides(k, s)
    <3>1. Count(s)
      BY <2>2 DEF SyncCreates, SyncDecides, Rewrite, Commit
    <3> QED
      BY <1>2, <1>3, <1>6, <3>1 DEF Orderly
  <2> QED
    BY <1>6, <2>1, <2>2 DEF SyncQuote
<1>7. ASSUME NEW k \in Syncs, SyncLines(k) \/ SyncCase(k) \/ SyncReady(k) \/ LoseSync(k)
      PROVE  overlaps = 0 /\ Orderly
  BY <1>1, <1>7 DEF Orderly, SyncLines, SyncCase, SyncReady, LoseSync, Rewrite, Commit,
                    Count, rows
<1> QED
  BY <1>4, <1>5, <1>6, <1>7 DEF Next, RequestStep, SyncStep, SyncQuote

\* Orderly steps are mild, or about costs.
Mild == db'.costs = db.costs
        /\ \A w \in Versions : /\ Final(db.quotes[w], db'.quotes[w])
                               /\ Paid(db.quotes[w], db'.quotes[w])

\* Only the synchronisation that owes a version its lines approves them later.
KeepsLines == \A w \in Versions :
    LET q == db.quotes[w] r == db'.quotes[w]
    IN  q.status = "approved" =>
          r.approvedLines = q.approvedLines \/ (Owed(w) /\ r.approvedLines = q.lines)

LEMMA CarefulMild ==
  ASSUME NEW s, Careful(s), Current(s)
  PROVE  /\ Mild /\ KeepsLines
         /\ \A w \in Versions : Entire(db.quotes[w], db'.quotes[w])
<1>1. \A w \in Versions : db'.quotes[w] = db.quotes[w] \/ s.quotes[w] = db.quotes[w]
  BY DEF Current
<1>2. \A w \in Versions : /\ Final(db.quotes[w], db'.quotes[w])
                          /\ Entire(db.quotes[w], db'.quotes[w])
                          /\ Paid(db.quotes[w], db'.quotes[w])
  <2> TAKE w \in Versions
  <2>1. CASE db'.quotes[w] = db.quotes[w]
    BY <2>1, LeftAlone
  <2>2. CASE s.quotes[w] = db.quotes[w]
    BY <2>2 DEF Careful
  <2> QED
    BY <1>1, <2>1, <2>2
<1> QED
  BY <1>2 DEF Mild, KeepsLines, Entire, Careful

LEMMA SyncDecidesMild ==
  ASSUME IInv, NEW k \in Syncs, NEW s \in Snapshots, SyncDecides(k, s), Current(s)
  PROVE  Mild /\ KeepsLines
<1> DEFINE v == NextVersion(s) - 1
<1>1. /\ v \in Versions /\ db'.costs = db.costs
      /\ \A w \in Versions : w # v => db'.quotes[w] = db.quotes[w]
      /\ s.quotes[v] = db.quotes[v] =>
            /\ Final(db.quotes[v], db'.quotes[v]) /\ Paid(db.quotes[v], db'.quotes[v])
            /\ db.quotes[v].status # "approved"
  BY SyncDecidesEffect
<1> HIDE DEF v
<1>2. CASE db'.quotes[v] = db.quotes[v]
  <2>1. \A w \in Versions : db'.quotes[w] = db.quotes[w]
    BY <1>1, <1>2
  <2> QED
    BY <1>1, <2>1, LeftAlone DEF Mild, KeepsLines
<1>3. CASE s.quotes[v] = db.quotes[v]
  <2>1. \A w \in Versions : /\ Final(db.quotes[w], db'.quotes[w])
                            /\ Paid(db.quotes[w], db'.quotes[w])
    BY <1>1, <1>3, LeftAlone
  <2>2. KeepsLines
    BY <1>1, <1>3 DEF KeepsLines
  <2> QED
    BY <1>1, <2>1, <2>2 DEF Mild
<1> QED
  BY <1>1, <1>2, <1>3 DEF Current

LEMMA SyncLinesMild ==
  ASSUME IInv, NEW k \in Syncs, SyncLines(k)
  PROVE  Mild /\ KeepsLines
<1> DEFINE v == syncs[k].version
           q == [db.quotes[v] EXCEPT !.approvedLines = db.quotes[v].lines]
<1>1. /\ v \in Versions /\ syncs[k].step = "lines" /\ db'.costs = db.costs
      /\ \A w \in Versions : w # v => db'.quotes[w] = db.quotes[w]
      /\ db'.quotes[v] = q
  BY SyncLinesEffect
<1>2. Owed(v)
  BY <1>1 DEF Owed
<1> HIDE DEF v
<1>3. /\ q.status = db.quotes[v].status /\ q.lines = db.quotes[v].lines
      /\ q.approved = db.quotes[v].approved /\ q.cost = db.quotes[v].cost
      /\ q.invoiced = db.quotes[v].invoiced /\ q.approvedLines = db.quotes[v].lines
  BY <1>1, DbFits DEF Quote
<1> HIDE DEF q
<1>4. Final(db.quotes[v], q) /\ Paid(db.quotes[v], q)
  BY <1>3 DEF Final, Paid
<1>5. \A w \in Versions : /\ Final(db.quotes[w], db'.quotes[w])
                          /\ Paid(db.quotes[w], db'.quotes[w])
  BY <1>1, <1>4, LeftAlone
<1>6. KeepsLines
  BY <1>1, <1>2, <1>3 DEF KeepsLines
<1> QED
  BY <1>1, <1>5, <1>6 DEF Mild

LEMMA OrderlyCases ==
  ASSUME IInv, Orderly
  PROVE  /\ KeepsLines
         /\ Mild \/ \E s \in Snapshots : CostStep(s) /\ Current(s)
<1>1. Current(db)
  BY DEF Current
<1>2. ASSUME db'.quotes = db.quotes, db'.costs = db.costs
      PROVE  Mild /\ KeepsLines
  BY <1>1, <1>2, NoQuoteCareful, CarefulMild
<1>3. ASSUME NEW s \in Snapshots, RequestStep(s), Current(s)
      PROVE  KeepsLines /\ (Mild \/ CostStep(s))
  <2>1. CASE CostStep(s)
    BY <2>1, CostStepSame DEF Same, KeepsLines, IInv
  <2>2. CASE ~CostStep(s)
    BY <1>3, <2>2, RequestCareful, CarefulMild
  <2> QED
    BY <2>1, <2>2
<1>4. ASSUME NEW s \in Snapshots, NEW t \in Later(s), TwoReadStep(s, t)
      PROVE  Mild /\ KeepsLines
  BY <1>1, <1>4, TwoReadCareful, CarefulMild
<1>5. ASSUME NEW k \in Syncs, NEW s \in Snapshots, SyncQuote(k, s), Current(s)
      PROVE  Mild /\ KeepsLines
  <2>1. CASE SyncCreates(k, s)
    BY <1>5, <2>1, SyncCreatesEffect, CarefulMild
  <2>2. CASE SyncDecides(k, s)
    BY <1>5, <2>2, SyncDecidesMild
  <2>3. CASE SyncPasses(k, s)
    BY <1>2, <2>3 DEF SyncPasses, rows
  <2> QED
    BY <1>5, <2>1, <2>2, <2>3 DEF SyncQuote
<1>6. ASSUME NEW k \in Syncs, SyncLines(k) \/ SyncCase(k) \/ SyncReady(k) \/ LoseSync(k)
      PROVE  Mild /\ KeepsLines
  BY <1>2, <1>6, SyncLinesMild, SyncRestSame
<1> QED
  BY <1>3, <1>4, <1>5, <1>6 DEF Orderly

\* As long as requests have read what they change, what a quote says lasts.
LEMMA FinalStep ==
  ASSUME IInv, Orderly
  PROVE  KeepsLines /\ \A w \in Versions : Final(db.quotes[w], db'.quotes[w])
<1>1. TypeOK
  BY DEF IInv
<1>2. ASSUME NEW s \in Snapshots, CostStep(s)
      PROVE  \A w \in Versions : Final(db.quotes[w], db'.quotes[w])
  BY <1>1, <1>2, CostStepSame DEF Same, Final
<1> QED
  BY <1>2, OrderlyCases DEF Mild

\* What a decision is, as the two theorems below have it.
Decisions == \A v \in Versions :
    LET q == db.quotes[v] r == db'.quotes[v]
    IN  /\ q.status = "approved" =>
              /\ r.status = "approved"
              /\ r.lines = q.lines
              /\ r.approved = q.approved
              /\ \/ r.approvedLines = q.approvedLines
                 \/ Owed(v) /\ r.approvedLines = q.lines
        /\ q.status = "rejected" => r.status = "rejected"

LEMMA DecisionsStep ==
  ASSUME IInv, Orderly
  PROVE  Decisions
BY FinalStep DEF Final, KeepsLines, Decisions

\* A decision is final: whatever non-overlapping requests do, and whatever falls
\* between the statements of a synchronisation, an approved quote keeps its lines and
\* amounts, a rejected one stays so, and only lines still owed are approved later.
THEOREM FinalDecisions == Spec => DecisionsAreFinal
<1>1. IInv /\ [Next]_vars /\ ~UNCHANGED vars /\ overlaps' = 0 => Decisions
  BY UnracedOrderly, DecisionsStep
<1>2. IInv /\ [Next]_vars =>
        [overlaps' = 0 => \A v \in Versions :
           /\ db.quotes[v].status = "approved" =>
                 /\ db'.quotes[v].status = "approved"
                 /\ db'.quotes[v].lines = db.quotes[v].lines
                 /\ db'.quotes[v].approved = db.quotes[v].approved
                 /\ \/ db'.quotes[v].approvedLines = db.quotes[v].approvedLines
                    \/ Owed(v) /\ db'.quotes[v].approvedLines = db.quotes[v].lines
           /\ db.quotes[v].status = "rejected" => db'.quotes[v].status = "rejected"]_vars
  BY <1>1 DEF Decisions
<1> QED
  BY <1>2, InitInv, NextKeeps, PTL DEF Spec, DecisionsAreFinal

\* The costs of the database.
Costs(d) ==
    /\ \A e \in d.costs : /\ d.quotes[e.quote].status = "approved"
                          /\ d.quotes[e.quote].invoiced
                          /\ d.quotes[e.quote].cost = e.id
                          /\ e.amount = d.quotes[e.quote].approved
    /\ \A e, f \in d.costs : e.id = f.id => e = f
    /\ \A v \in Versions : d.quotes[v].cost # NoCost =>
                              \E e \in d.costs : e.id = d.quotes[v].cost

\* The amounts of the database: lines are approved with their quote, or owed.
Whole ==
    /\ \A v \in Versions : db.quotes[v].approvedLines \subseteq db.quotes[v].lines
    /\ \A v \in Versions \ cut : db.quotes[v].status = "approved" =>
          Owed(v) \/ db.quotes[v].approved = Value(db.quotes[v].approvedLines)
    /\ \A k \in Syncs : syncs[k].step = "lines" =>
          /\ db.quotes[syncs[k].version].status = "approved"
          /\ db.quotes[syncs[k].version].approved =
                Value(db.quotes[syncs[k].version].lines)

CostInv == overlaps = 0 => Costs(db)
WholeInv == overlaps = 0 => Whole

\* Both hold of a case that has just been opened.
LEMMA InitCostsAndLines == Init => Costs(db) /\ Whole
<1> SUFFICES ASSUME Init
             PROVE  Costs(db) /\ Whole
  OBVIOUS
<1>1. db.quotes = [v \in Versions |-> NoQuote] /\ db.costs = {}
  <2>1. /\ Opened.quotes = [v \in Versions |-> NoQuote] /\ Opened.costs = {}
    BY DEF Opened
  <2>2. \A w : Received(w).quotes = Opened.quotes /\ Received(w).costs = Opened.costs
    BY DEF Received, Opened
  <2> QED
    BY <2>1, <2>2 DEF Init
<1>2. NoQuote.status = "absent" /\ NoQuote.cost = NoCost /\ NoQuote.approvedLines = {}
  BY DEF NoQuote
<1>3. \A k \in Syncs : syncs[k].step # "lines"
  BY NoSyncFacts DEF Init
<1>4. Costs(db)
  BY <1>1, <1>2 DEF Costs
<1> QED
  BY <1>1, <1>2, <1>3, <1>4 DEF Whole

\* As long as requests have read what they change, costs are of approved quotes.
LEMMA CostsStep ==
  ASSUME IInv, Costs(db), Orderly
  PROVE  Costs(db')
<1>1. TypeOK /\ db \in Database
  BY DEF IInv, TypeOK
<1>2. /\ \A e \in db.costs : e.quote \in Versions /\ e.id \in CostIds /\ e.id # NoCost
      /\ \A v \in Versions : db.quotes[v] \in Quote
  BY <1>1, ConstantsAssumption DEF Database, CostEntry
<1>3. CASE Mild
  <2>1. db'.costs = db.costs
    BY <1>3 DEF Mild
  <2>2. \A w \in Versions : /\ Final(db.quotes[w], db'.quotes[w])
                            /\ Paid(db.quotes[w], db'.quotes[w])
    BY <1>3 DEF Mild
  <2>3. \A e \in db.costs : /\ db'.quotes[e.quote].status = "approved"
                            /\ db'.quotes[e.quote].invoiced
                            /\ db'.quotes[e.quote].cost = e.id
                            /\ e.amount = db'.quotes[e.quote].approved
    BY <1>2, <2>2 DEF Costs, Final, Paid
  <2>4. \A v \in Versions : db'.quotes[v].cost # NoCost =>
                              \E e \in db.costs : e.id = db'.quotes[v].cost
    BY <2>2 DEF Costs, Paid
  <2> QED
    BY <2>1, <2>3, <2>4 DEF Costs
<1>4. ASSUME NEW s \in Snapshots, NEW v \in Versions, NEW c \in CostIds,
             PostCost(s, v, c), Current(s)
      PROVE  Costs(db')
  <2> DEFINE q == [db.quotes[v] EXCEPT !.cost = c]
             e == [id |-> c, quote |-> v, amount |-> db.quotes[v].approved]
  <2>1. /\ q.status = db.quotes[v].status /\ q.invoiced = db.quotes[v].invoiced
        /\ q.approved = db.quotes[v].approved /\ q.cost = c
    BY <1>2 DEF Quote
  <2>2. /\ s.quotes[v].status = "approved" /\ s.quotes[v].invoiced
        /\ s.quotes[v].cost = NoCost
        /\ ~\E f \in db.costs : f.id = c
        /\ db'.costs = db.costs \cup {[id |-> c, quote |-> v,
                                       amount |-> s.quotes[v].approved]}
        /\ \A w \in Versions : db'.quotes[w] = IF w = v THEN q ELSE db.quotes[w]
    BY <1>1, <1>4, PostCostEffect
  <2>3. db'.quotes[v] = q
    BY <2>2
  <2>4. db.quotes[v].cost # c
    BY <2>2, ConstantsAssumption DEF Costs
  <2> HIDE DEF q
  <2>5. s.quotes[v] = db.quotes[v]
    BY <1>4, <2>1, <2>3, <2>4 DEF Current
  <2>6. e.id = c /\ e.quote = v /\ e.amount = db.quotes[v].approved
    BY <2>2, <2>5 DEF Costs
  <2>7. db'.costs = db.costs \cup {e}
    BY <2>2, <2>5
  <2> HIDE DEF e
  <2>8. \A f \in db.costs : f.quote # v
    BY <1>2, <2>2, <2>5 DEF Costs
  <2>9. \A f \in db'.costs : /\ db'.quotes[f.quote].status = "approved"
                             /\ db'.quotes[f.quote].invoiced
                             /\ db'.quotes[f.quote].cost = f.id
                             /\ f.amount = db'.quotes[f.quote].approved
    <3> TAKE f \in db'.costs
    <3>1. CASE f = e
      BY <2>1, <2>2, <2>3, <2>5, <2>6, <3>1
    <3>2. CASE f \in db.costs
      BY <1>2, <2>2, <2>8, <3>2 DEF Costs
    <3> QED
      BY <2>7, <3>1, <3>2
  <2>10. \A f, g \in db'.costs : f.id = g.id => f = g
    BY <2>2, <2>6, <2>7 DEF Costs
  <2>11. \A w \in Versions : db'.quotes[w].cost # NoCost =>
                               \E f \in db'.costs : f.id = db'.quotes[w].cost
    BY <2>1, <2>2, <2>6, <2>7 DEF Costs
  <2> QED
    BY <2>9, <2>10, <2>11 DEF Costs
<1>5. ASSUME NEW s \in Snapshots, NEW e \in s.costs, DeleteCost(s, e)
      PROVE  Costs(db')
  <2>1. /\ e \in db.costs /\ db'.costs = db.costs \ {e}
        /\ \A w \in Versions :
              db'.quotes[w] = IF db.quotes[w].cost = e.id
                              THEN [db.quotes[w] EXCEPT !.cost = NoCost]
                              ELSE db.quotes[w]
    BY <1>1, <1>5, DeleteCostEffect
  <2>2. \A f \in db'.costs : /\ f \in db.costs /\ f.id # e.id
                             /\ db'.quotes[f.quote] = db.quotes[f.quote]
    BY ZenonT(30), <1>2, <2>1 DEF Costs
  <2>3. \A w \in Versions : [db.quotes[w] EXCEPT !.cost = NoCost].cost = NoCost
    BY <1>2 DEF Quote
  <2>4. \A w \in Versions : db'.quotes[w].cost # NoCost =>
                              /\ db.quotes[w].cost # e.id
                              /\ db'.quotes[w].cost = db.quotes[w].cost
    BY <2>1, <2>3
  <2>5. \A w \in Versions : db'.quotes[w].cost # NoCost =>
                              \E f \in db'.costs : f.id = db'.quotes[w].cost
    BY <2>1, <2>4 DEF Costs
  <2> QED
    BY <2>1, <2>2, <2>5 DEF Costs
<1> QED
  BY <1>3, <1>4, <1>5, OrderlyCases DEF CostStep

\* A cost made of a quote is the only one of that quote and is for the amount that was
\* approved, however the quote was edited, resubmitted or decided on by requests that
\* do not overlap and by synchronisations at whichever of their statements.
THEOREM CostsFollowApproval == Spec => []CostIsApproved
<1>1. IInv /\ CostInv => CostIsApproved
  BY DEF CostInv, Costs, CostIsApproved
<1>2. IInv /\ CostInv /\ [Next]_vars => CostInv'
  <2> SUFFICES ASSUME IInv, CostInv, [Next]_vars, overlaps' = 0
               PROVE  Costs(db')
    BY DEF CostInv, Costs
  <2>1. CASE Next
    BY <2>1, UnracedOrderly, CostsStep DEF CostInv
  <2>2. CASE UNCHANGED vars
    BY <2>2 DEF vars, rows, CostInv
  <2> QED
    BY <2>1, <2>2
<1>3. Init => CostInv
  BY InitCostsAndLines DEF CostInv
<1> QED
  BY <1>1, <1>2, <1>3, InitInv, NextKeeps, PTL DEF Spec

\* A step that decides quotes with their lines, or hands the lines to the next
\* statement, ...
LEMMA WholeKeeps ==
  ASSUME IInv, Whole, cut' = cut,
         \A w \in Versions :
            /\ Final(db.quotes[w], db'.quotes[w])
            /\ Entire(db.quotes[w], db'.quotes[w]) \/ \E k \in Syncs : Halved(k, w),
         \A k \in Syncs :
            /\ syncs[k].step = "lines" => /\ syncs'[k].step = "lines"
                                          /\ syncs'[k].version = syncs[k].version
            /\ syncs'[k].step = "lines" =>
                  \/ syncs[k].step = "lines"
                  \/ Halved(k, syncs'[k].version)
  PROVE  Whole'
<1>1. \A k \in Syncs : syncs[k].step = "lines" => syncs[k].version \in Versions
  BY DEF IInv, TypeOK, Sync
<1>2. \A w \in Versions : db'.quotes[w].approvedLines \subseteq db'.quotes[w].lines
  <2> TAKE w \in Versions
  <2>1. db.quotes[w].approvedLines \subseteq db.quotes[w].lines
    BY DEF Whole
  <2>2. CASE Entire(db.quotes[w], db'.quotes[w])
    BY <2>1, <2>2 DEF Entire
  <2>3. CASE \E k \in Syncs : Halved(k, w)
    BY <2>1, <2>3 DEF Halved
  <2> QED
    BY <2>2, <2>3
<1>3. \A w \in Versions : Owed(w) => Owed(w)'
  BY DEF Owed
<1>4. \A w \in Versions : (\E k \in Syncs : Halved(k, w)) => Owed(w)'
  BY DEF Halved, Owed
<1>5. ASSUME NEW w \in Versions \ cut, db'.quotes[w].status = "approved"
      PROVE  Owed(w)' \/ db'.quotes[w].approved = Value(db'.quotes[w].approvedLines)
  <2>1. CASE \E k \in Syncs : Halved(k, w)
    BY <1>4, <2>1
  <2>2. CASE Entire(db.quotes[w], db'.quotes[w])
    <3>1. CASE db.quotes[w].status = "approved"
      BY <1>3, <2>2, <3>1 DEF Entire, Final, Whole
    <3>2. CASE db.quotes[w].status # "approved"
      BY <1>5, <2>2, <3>2 DEF Entire, Whole
    <3> QED
      BY <3>1, <3>2
  <2> QED
    BY <2>1, <2>2
<1>6. ASSUME NEW k \in Syncs, syncs'[k].step = "lines"
      PROVE  /\ db'.quotes[syncs'[k].version].status = "approved"
             /\ db'.quotes[syncs'[k].version].approved =
                   Value(db'.quotes[syncs'[k].version].lines)
  <2>1. CASE syncs[k].step = "lines"
    <3> DEFINE w == syncs[k].version
    <3>1. w \in Versions /\ syncs'[k].version = w
      BY <1>1, <2>1
    <3>2. db.quotes[w].status = "approved" /\ db.quotes[w].approved = Value(db.quotes[w].lines)
      BY <2>1 DEF Whole
    <3> HIDE DEF w
    <3> QED
      BY <3>1, <3>2 DEF Final
  <2>2. CASE Halved(k, syncs'[k].version)
    BY <2>2 DEF Halved
  <2> QED
    BY <1>6, <2>1, <2>2
<1> QED
  BY <1>2, <1>5, <1>6 DEF Whole

\* ... in particular one that is no statement of a synchronisation.
LEMMA WholeKeepsSyncs ==
  ASSUME IInv, Whole, cut' = cut,
         \A w \in Versions : /\ Final(db.quotes[w], db'.quotes[w])
                             /\ Entire(db.quotes[w], db'.quotes[w]),
         \A k \in Syncs : \/ syncs'[k] = syncs[k]
                          \/ syncs[k].step # "lines" /\ syncs'[k].step # "lines"
  PROVE  Whole'
BY WholeKeeps

\* Requests leave the synchronisations alone, or start one.
LEMMA RequestSyncs ==
  ASSUME IInv, NEW s \in Snapshots, RequestStep(s)
  PROVE  /\ cut' = cut
         /\ \A k \in Syncs : \/ syncs'[k] = syncs[k]
                             \/ syncs[k].step # "lines" /\ syncs'[k].step # "lines"
<1>1. ASSUME NEW v \in Versions, QuoteStep(s, v)
      PROVE  cut' = cut /\ syncs' = syncs
  BY <1>1 DEF QuoteStep, DeleteDraft, Submit, Reject, OrderParts, RecordInvoice, Resubmit,
              AskAgain, MoveLucrareIndex, Approve, UpdateDraft, PostCost, AddCost,
              ChangeQuote, Commit
<1>2. CASE OrderStep(s) /\ ~PatchDamageClaim(s)
  BY <1>2 DEF OrderStep, MarkReady, StartSupplement, CompleteByPartner, Transform,
              PatchMobility, Advance, Write, Commit
<1>3. CASE PatchDamageClaim(s)
  <2>1. PICK k \in Syncs, d \in Claimed(s) :
           /\ syncs[k].step = "idle"
           /\ Rewrite(s, d)
           /\ syncs' = [syncs EXCEPT ![k] = Due(d)]
    BY <1>3 DEF PatchDamageClaim
  <2>2. cut' = cut
    BY <2>1 DEF Rewrite, Commit
  <2>3. Due(d).step \in {"idle", "due"}
    BY NoSyncFacts DEF Due, NoSync
  <2>4. \A j \in Syncs : syncs'[j] = IF j = k THEN Due(d) ELSE syncs[j]
    BY <2>1 DEF IInv, TypeOK
  <2> QED
    BY <2>1, <2>2, <2>3, <2>4
<1>4. ASSUME NEW e \in s.costs, DeleteCost(s, e)
      PROVE  cut' = cut /\ syncs' = syncs
  BY <1>4 DEF DeleteCost, Commit
<1> QED
  BY <1>1, <1>2, <1>3, <1>4 DEF RequestStep

\* What synchronisation k leaves of the synchronisations.
LEMMA SyncSyncs ==
  ASSUME IInv, NEW k \in Syncs
  PROVE  /\ \A s : SyncQuote(k, s) => cut' = cut /\ syncs[k].step = "due"
         /\ \A s \in Snapshots : SyncCreates(k, s) \/ SyncPasses(k, s) =>
               syncs'[k].step # "lines"
         /\ \A s : SyncQuote(k, s) \/ SyncLines(k) \/ SyncCase(k) \/ SyncReady(k)
                   \/ LoseSync(k) =>
               \A j \in Syncs : j # k => syncs'[j] = syncs[j]
         /\ SyncLines(k) \/ SyncCase(k) \/ SyncReady(k) =>
               cut' = cut /\ syncs'[k].step # "lines"
<1>1. syncs \in [Syncs -> Sync] /\ syncs[k] \in Sync
  BY DEF IInv, TypeOK
<1>2. \A c : Proceed(k, c) => /\ syncs'[k] = c
                              /\ \A j \in Syncs : j # k => syncs'[j] = syncs[j]
  BY <1>1 DEF Proceed
<1>3. \A s, v : AfterQuote(syncs[k], s, v, "case").step # "lines"
  BY <1>1, NoSyncFacts DEF AfterQuote, Sync, NoSync
<1>4. /\ [syncs[k] EXCEPT !.step = "case"].step = "case"
      /\ [syncs[k] EXCEPT !.step = "ready"].step = "ready"
      /\ NoSync.step = "idle"
  BY <1>1 DEF Sync, NoSync
<1>5. \A s : SyncQuote(k, s) => cut' = cut /\ syncs[k].step = "due"
  BY DEF SyncQuote, SyncCreates, SyncDecides, SyncPasses, Rewrite, Commit
<1>6. \A s \in Snapshots : SyncCreates(k, s) \/ SyncPasses(k, s) => syncs'[k].step # "lines"
  BY <1>2, <1>3 DEF SyncCreates, SyncPasses
<1>7. \A s : SyncQuote(k, s) \/ SyncLines(k) \/ SyncCase(k) \/ SyncReady(k) \/ LoseSync(k) =>
         \A j \in Syncs : j # k => syncs'[j] = syncs[j]
  BY <1>2 DEF SyncQuote, SyncCreates, SyncDecides, SyncPasses, SyncLines, SyncCase,
              SyncReady, LoseSync
<1>8. SyncLines(k) \/ SyncCase(k) \/ SyncReady(k) => cut' = cut /\ syncs'[k].step # "lines"
  BY <1>2, <1>4 DEF SyncLines, SyncCase, SyncReady, Rewrite, Commit
<1> QED
  BY <1>5, <1>6, <1>7, <1>8

LEMMA CostStepEntire ==
  ASSUME TypeOK, NEW s \in Snapshots, CostStep(s)
  PROVE  \A w \in Versions : /\ Final(db.quotes[w], db'.quotes[w])
                             /\ Entire(db.quotes[w], db'.quotes[w])
BY CostStepSame DEF Same, Final, Entire

\* The approval of the lines completes what the approval of the quote has left.
LEMMA SyncLinesWhole ==
  ASSUME IInv, Whole, NEW k \in Syncs, SyncLines(k)
  PROVE  Whole'
<1> DEFINE v == syncs[k].version
           q == [db.quotes[v] EXCEPT !.approvedLines = db.quotes[v].lines]
<1>1. /\ v \in Versions /\ syncs[k].step = "lines"
      /\ \A w \in Versions : w # v => db'.quotes[w] = db.quotes[w]
      /\ db'.quotes[v] = q
  BY SyncLinesEffect
<1>2. /\ cut' = cut /\ syncs'[k].step # "lines"
      /\ \A j \in Syncs : j # k => syncs'[j] = syncs[j]
  BY SyncSyncs
<1>3. db.quotes[v].status = "approved" /\ db.quotes[v].approved = Value(db.quotes[v].lines)
  BY <1>1 DEF Whole
<1>4. \A j \in Syncs : syncs[j].step = "lines" => syncs[j].version \in Versions
  BY DEF IInv, TypeOK, Sync
<1>5. \A w \in Versions : w # v /\ Owed(w) => Owed(w)'
  <2> SUFFICES ASSUME NEW w \in Versions, w # v, NEW j \in Syncs,
                      syncs[j].step = "lines", syncs[j].version = w
               PROVE  Owed(w)'
    BY DEF Owed
  <2>1. j # k
    OBVIOUS
  <2> QED
    BY <1>2, <2>1 DEF Owed
<1> HIDE DEF v
<1>6. /\ q.status = db.quotes[v].status /\ q.lines = db.quotes[v].lines
      /\ q.approved = db.quotes[v].approved /\ q.approvedLines = db.quotes[v].lines
  BY <1>1, DbFits DEF Quote
<1> HIDE DEF q
<1>7. \A w \in Versions : db'.quotes[w].approvedLines \subseteq db'.quotes[w].lines
  BY <1>1, <1>6 DEF Whole
<1>8. \A w \in Versions \ cut' : db'.quotes[w].status = "approved" =>
         Owed(w)' \/ db'.quotes[w].approved = Value(db'.quotes[w].approvedLines)
  BY <1>1, <1>2, <1>3, <1>5, <1>6 DEF Whole
<1>9. \A j \in Syncs : syncs'[j].step = "lines" =>
          /\ db'.quotes[syncs'[j].version].status = "approved"
          /\ db'.quotes[syncs'[j].version].approved =
                Value(db'.quotes[syncs'[j].version].lines)
  <2> SUFFICES ASSUME NEW j \in Syncs, syncs'[j].step = "lines"
               PROVE  /\ db'.quotes[syncs'[j].version].status = "approved"
                      /\ db'.quotes[syncs'[j].version].approved =
                            Value(db'.quotes[syncs'[j].version].lines)
    OBVIOUS
  <2> DEFINE w == syncs[j].version
  <2>1. j # k /\ syncs'[j] = syncs[j] /\ w \in Versions
    BY <1>2, <1>4
  <2>2. db.quotes[w].status = "approved" /\ db.quotes[w].approved = Value(db.quotes[w].lines)
    BY <2>1 DEF Whole
  <2>3. /\ db'.quotes[w].status = db.quotes[w].status
        /\ db'.quotes[w].approved = db.quotes[w].approved
        /\ db'.quotes[w].lines = db.quotes[w].lines
    BY <1>1, <1>6, <2>1
  <2> QED
    BY <2>1, <2>2, <2>3
<1> QED
  BY <1>7, <1>8, <1>9 DEF Whole

\* A synchronisation that ends before the lines leaves its version cut.
LEMMA LoseSyncWhole ==
  ASSUME IInv, Whole, NEW k \in Syncs, LoseSync(k)
  PROVE  Whole'
<1>1. /\ db' = db /\ Proceed(k, NoSync)
      /\ cut' = IF syncs[k].step = "lines" THEN cut \cup {syncs[k].version} ELSE cut
  BY DEF LoseSync, rows
<1>2. \A j \in Syncs : syncs'[j] = IF j = k THEN NoSync ELSE syncs[j]
  BY <1>1 DEF IInv, TypeOK, Proceed
<1>3. \A w \in Versions \ cut' : Owed(w) => Owed(w)'
  <2> SUFFICES ASSUME NEW w \in Versions \ cut', NEW j \in Syncs,
                      syncs[j].step = "lines", syncs[j].version = w
               PROVE  Owed(w)'
    BY DEF Owed
  <2>1. j # k
    BY <1>1
  <2> QED
    BY <1>2, <2>1 DEF Owed
<1>4. cut \subseteq cut'
  BY <1>1
<1>5. \A j \in Syncs : syncs'[j].step = "lines" => syncs'[j] = syncs[j]
  BY <1>2, NoSyncFacts DEF NoSync
<1> QED
  BY <1>1, <1>3, <1>4, <1>5 DEF Whole

\* While nobody has overlapped, every step keeps the amounts whole.
LEMMA WholeStep ==
  ASSUME IInv, Whole, Next, overlaps' = 0
  PROVE  Whole'
<1>1. Current(db) /\ TypeOK
  BY DEF Current, IInv
<1>2. \A s : Count(s) => s = db
  BY <1>1 DEF Count, TypeOK
<1>3. ASSUME NEW s \in Snapshots, RequestStep(s)
      PROVE  Whole'
  <2>1. Current(s)
    BY <1>1, <1>3, <1>2, RequestCounts
  <2>2. \A w \in Versions : /\ Final(db.quotes[w], db'.quotes[w])
                            /\ Entire(db.quotes[w], db'.quotes[w])
    <3>1. CASE CostStep(s)
      BY <1>1, <3>1, CostStepEntire
    <3>2. CASE ~CostStep(s)
      BY <1>3, <2>1, <3>2, RequestCareful, CarefulMild DEF Mild
    <3> QED
      BY <3>1, <3>2
  <2> QED
    BY <1>3, <2>2, RequestSyncs, WholeKeepsSyncs
<1>4. ASSUME NEW s \in Snapshots, NEW t \in Later(s), TwoReadStep(s, t)
      PROVE  Whole'
  <2>1. \A w \in Versions : /\ Final(db.quotes[w], db'.quotes[w])
                            /\ Entire(db.quotes[w], db'.quotes[w])
    BY <1>1, <1>4, TwoReadCareful, CarefulMild DEF Mild
  <2>2. syncs' = syncs /\ cut' = cut
    <3>1. ASSUME NEW in, NEW out, ServiceTimes(s, t, in, out)
          PROVE  syncs' = syncs /\ cut' = cut
      BY <3>1, Zenon DEF ServiceTimes, Write, Commit
    <3>2. ASSUME NEW path, ApplyPostApproval(s, t, path)
          PROVE  syncs' = syncs /\ cut' = cut
      BY <3>2, Zenon DEF ApplyPostApproval, TakePath, Write, Commit
    <3> QED
      BY <1>4, <3>1, <3>2, Zenon DEF TwoReadStep, CreateDraft, Complete, PatchEstimate,
                                     PatchStatus, CreateMobility, Write, Commit
  <2> QED
    BY <2>1, <2>2, WholeKeepsSyncs
<1>5. ASSUME NEW k \in Syncs, NEW s \in Snapshots, SyncQuote(k, s)
      PROVE  Whole'
  <2>1. /\ cut' = cut /\ syncs[k].step = "due"
        /\ \A j \in Syncs : j # k => syncs'[j] = syncs[j]
    BY <1>5, SyncSyncs
  <2>2. CASE SyncCreates(k, s) \/ SyncPasses(k, s)
    <3>1. Careful(s)
      <4>1. ASSUME SyncPasses(k, s)
            PROVE  Careful(s)
        BY <4>1, NoQuoteCareful DEF SyncPasses, rows
      <4> QED
        BY <2>2, <4>1, SyncCreatesEffect
    <3>2. syncs'[k].step # "lines"
      BY <2>2, SyncSyncs
    <3>3. \A w \in Versions : /\ Final(db.quotes[w], db'.quotes[w])
                              /\ Entire(db.quotes[w], db'.quotes[w])
      <4>1. Current(s)
        BY <1>1, <1>2, <2>2 DEF SyncCreates, SyncPasses, Commit, rows, Current
      <4> QED
        BY <3>1, <4>1, CarefulMild DEF Mild
    <3>4. \A j \in Syncs : \/ syncs'[j] = syncs[j]
                           \/ syncs[j].step # "lines" /\ syncs'[j].step # "lines"
      BY <2>1, <3>2
    <3> QED
      BY <2>1, <3>3, <3>4, WholeKeepsSyncs
  <2>3. CASE SyncDecides(k, s)
    <3> DEFINE v == NextVersion(s) - 1
    <3>1. /\ v \in Versions
          /\ \A w \in Versions : w # v => db'.quotes[w] = db.quotes[w]
          /\ s.quotes[v] = db.quotes[v] =>
               /\ Final(db.quotes[v], db'.quotes[v])
               /\ Entire(db.quotes[v], db'.quotes[v]) \/ Halved(k, v)
               /\ syncs'[k].step = "lines" => Halved(k, v)
      BY <2>3, SyncDecidesEffect
    <3> HIDE DEF v
    <3>2. s.quotes[v] = db.quotes[v]
      BY <1>2, <2>3 DEF SyncDecides, Rewrite, Commit
    <3>3. syncs'[k].step = "lines" => Halved(k, syncs'[k].version)
      BY <3>1, <3>2 DEF Halved
    <3>4. \A w \in Versions :
             /\ Final(db.quotes[w], db'.quotes[w])
             /\ Entire(db.quotes[w], db'.quotes[w]) \/ \E j \in Syncs : Halved(j, w)
      BY <3>1, <3>2, LeftAlone
    <3> QED
      BY <2>1, <3>3, <3>4, WholeKeeps
  <2> QED
    BY <1>5, <2>2, <2>3 DEF SyncQuote
<1>6. ASSUME NEW k \in Syncs, SyncCase(k) \/ SyncReady(k)
      PROVE  Whole'
  <2>1. db'.quotes = db.quotes /\ cut' = cut /\ syncs'[k].step # "lines"
        /\ syncs[k].step # "lines"
        /\ \A j \in Syncs : j # k => syncs'[j] = syncs[j]
    BY <1>6, SyncRestSame, SyncSyncs DEF SyncCase, SyncReady
  <2>2. \A j \in Syncs : \/ syncs'[j] = syncs[j]
                         \/ syncs[j].step # "lines" /\ syncs'[j].step # "lines"
    BY <2>1
  <2> QED
    BY <2>1, <2>2, LeftAlone, WholeKeepsSyncs
<1>7. ASSUME NEW k \in Syncs, SyncLines(k) \/ LoseSync(k)
      PROVE  Whole'
  BY <1>7, SyncLinesWhole, LoseSyncWhole
<1> QED
  BY <1>3, <1>4, <1>5, <1>6, <1>7 DEF Next, RequestStep, SyncStep, SyncQuote

\* What an approved quote grants is the amount of its approved lines: while no requests
\* overlap, only the statement of a synchronisation that is still to come, or was lost
\* with it, is ever missing.
THEOREM ApprovalsAreWhole == Spec => []ApprovalIsWhole
<1>1. IInv /\ WholeInv => ApprovalIsWhole
  BY DEF WholeInv, Whole, ApprovalIsWhole
<1>2. IInv /\ WholeInv /\ [Next]_vars => WholeInv'
  <2> SUFFICES ASSUME IInv, WholeInv, [Next]_vars, overlaps' = 0
               PROVE  Whole'
    BY DEF WholeInv
  <2>1. CASE Next
    BY <2>1, UnracedOrderly, WholeStep DEF WholeInv
  <2>2. CASE UNCHANGED vars
    BY <2>2 DEF vars, rows, WholeInv, Whole, Owed
  <2> QED
    BY <2>1, <2>2
<1>3. Init => WholeInv
  BY InitCostsAndLines DEF WholeInv
<1> QED
  BY <1>1, <1>2, <1>3, InitInv, NextKeeps, PTL DEF Spec

(***************************************************************************)
(* The code checks the version of no row.  If every request had read as    *)
(* they are the quotes it changes, whatever else it read and however many  *)
(* overlap, decisions and costs would need no exception; the number of     *)
(* drafts is another matter, a draft changes no row that was read.         *)
(***************************************************************************)
ReadAsIs == [][Orderly]_vars

CostsOfApproved == \A e \in db.costs :
    LET q == db.quotes[e.quote]
    IN  /\ q.status = "approved" /\ q.invoiced
        /\ q.cost = e.id
        /\ e.amount = q.approved

\* Under that premise, and with any number of overlapping requests and
\* synchronisations, decisions are final, and a cost is the only one of an approved
\* quote and for the amount that was approved.
THEOREM RowVersionsSuffice ==
  Spec /\ ReadAsIs => [][Decisions]_vars /\ []CostsOfApproved
<1>1. Init => Costs(db)
  BY InitCostsAndLines
<1>2. IInv /\ Costs(db) /\ [Orderly]_vars => Costs(db)'
  BY CostsStep DEF vars, rows, Costs
<1>3. IInv /\ [Orderly]_vars => [Decisions]_vars
  BY DecisionsStep
<1>4. Costs(db) => CostsOfApproved
  BY DEF Costs, CostsOfApproved
<1> QED
  BY <1>1, <1>2, <1>3, <1>4, InitInv, NextKeeps, PTL DEF Spec, ReadAsIs
=============================================================================
