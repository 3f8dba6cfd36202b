---------------------------- MODULE SyncPullProofs ----------------------------
(****************************************************************************)
(* Proofs about SyncPull, for any rows, page size and bounds.               *)
(****************************************************************************)
EXTENDS SyncPull, FiniteSetTheorems, WellFoundedInduction, TLAPS

\* An open write carries the time of its save.
WriteInv == \A r \in Rows : writing[r] # NoWrite => writing[r].at # 0

\* The pull runs in the pull half of a round, from the cursor.
RoundInv ==
    /\ round = "pull" <=> pull.phase # "idle"
    /\ round = "pull" => pull.since = cursor
    /\ pull.phase = "idle" => pull = Idle

\* What a page holds in each phase, and that a pull begins with nothing.
PageInv ==
    /\ pull.phase \in {"idle", "sample", "customers", "advance"} => pull.page = NoPage
    /\ pull.phase # "apply" => pull.gone = {}
    /\ pull.phase \in {"idle", "sample"} /\ pull.first =>
          pull.c = Start /\ pull.d = Start /\ pull.dirty = {}
    /\ pull.phase = "advance" => pull.c = Exhausted /\ pull.d = Exhausted

\* A row that no write was committed of since the pull began: a page holds it as it is.
CleanInv ==
    \A r \in Rows \ pull.dirty :
        /\ pull.page[r] \in {0, rows[r].ver}
        /\ r \in pull.gone => ~rows[r].active

\* A write that committed under the pull and that the cursor has passed is overtaken.
DirtyInv == \A r \in pull.dirty : rows[r].at < cursor => r \in overtaken

\* The pages have gone by the row: it is on the device, or on the page under way.
Passed(r, position) == position # Start /\ (position = Exhausted \/ ~After(r, position))
PositionOf(r) == IF r \in Customers THEN pull.c ELSE pull.d
Held(r) == pull.page[r] = rows[r].ver \/ (pull.page[r] = 0 /\ cache[r] = rows[r].ver)
PassedInv ==
    \A r \in Rows \ pull.dirty :
        rows[r].active /\ rows[r].at >= pull.since /\ Passed(r, PositionOf(r)) => Held(r)

\* The inductive invariant.
IInv ==
    /\ TypeOK /\ WriteInv /\ RoundInv /\ PageInv
    /\ CleanInv /\ DirtyInv /\ PassedInv /\ NothingElseSkipped

----------------------------------------------------------------------------
(* Pages                                                                    *)

\* A set of naturals has a least member ...
LEMMA LeastOf ==
    ASSUME NEW T \in SUBSET Nat, T # {}
    PROVE  \E x \in T : \A y \in T : x <= y
  <1> DEFINE R == OpToRel(<, Nat)
  <1>1. PICK x \in T : \A y \in T : ~(<<y, x>> \in R)
    BY NatLessThanWellFounded, WFMin
  <1>2. \A y \in T : ~(y < x)
    BY <1>1 DEF OpToRel
  <1> QED BY <1>2

\* ... and, when it is bounded, a greatest.
LEMMA GreatestOf ==
    ASSUME NEW T \in SUBSET Nat, T # {}, NEW n \in Nat, \A x \in T : x <= n
    PROVE  \E x \in T : \A y \in T : y <= x
  <1> DEFINE U == {n - x : x \in T}
  <1>0. \A x \in T : n - x \in Nat
    OBVIOUS
  <1>1. U \in SUBSET Nat /\ U # {}
    BY <1>0
  <1>2. PICK u \in U : \A v \in U : u <= v
    BY <1>1, LeastOf
  <1>3. PICK x \in T : u = n - x
    OBVIOUS
  <1>4. \A y \in T : u <= n - y
    BY <1>2
  <1> QED BY <1>3, <1>4

\* How many of the rows found come before r.
Rank(found, r) == Cardinality({s \in found : Before(s, r)})

\* (updated_at, id) is a strict total order.
LEMMA KeysetOrder ==
    ASSUME TypeOK
    PROVE  /\ \A r \in Rows : ~Before(r, r)
           /\ \A r, s \in Rows : r # s => Before(r, s) \/ Before(s, r)
           /\ \A r, s, t \in Rows : Before(r, s) /\ Before(s, t) => Before(r, t)
  <1>1. \A r \in Rows : r \in Nat /\ rows[r].at \in Nat
    BY PullAssumption DEF TypeOK, Rows, Times
  <1> QED BY <1>1 DEF Before

\* A rank is a number, and a row found has one below the number of rows found.
LEMMA RankType ==
    ASSUME TypeOK, NEW found \in SUBSET Rows, NEW r \in Rows
    PROVE  /\ IsFiniteSet(found) /\ Cardinality(found) \in Nat
           /\ Rank(found, r) \in Nat /\ Rank(found, r) <= Cardinality(found)
           /\ r \in found => Rank(found, r) < Cardinality(found)
  <1> DEFINE B == {s \in found : Before(s, r)}
  <1>1. IsFiniteSet(found) /\ Cardinality(found) \in Nat
    BY PullAssumption, FS_Subset, FS_CardinalityType
  <1>2. B \in SUBSET found
    OBVIOUS
  <1>3. Cardinality(B) \in Nat /\ Cardinality(B) <= Cardinality(found)
    BY <1>1, <1>2, FS_Subset, FS_CardinalityType
  <1>4. r \in found => Cardinality(B) # Cardinality(found)
    BY <1>1, <1>2, FS_Subset, KeysetOrder
  <1> QED BY <1>1, <1>3, <1>4 DEF Rank

\* An earlier row has the smaller rank.
LEMMA RankOrder ==
    ASSUME TypeOK, NEW found \in SUBSET Rows, NEW s \in found, NEW r \in Rows, Before(s, r)
    PROVE  Rank(found, s) < Rank(found, r)
  <1> DEFINE A == {t \in found : Before(t, s)}
             B == {t \in found : Before(t, r)}
  <1>1. A \in SUBSET B /\ s \in B /\ s \notin A
    BY KeysetOrder
  <1>2. IsFiniteSet(B)
    BY RankType, FS_Subset
  <1>3. Cardinality(A) <= Cardinality(B) /\ Cardinality(A) # Cardinality(B)
    BY <1>1, <1>2, FS_Subset
  <1>4. Cardinality(A) \in Nat /\ Cardinality(B) \in Nat
    BY RankType DEF Rank
  <1> QED BY <1>3, <1>4 DEF Rank

\* A page that has room for all holds all.
LEMMA PageWhole ==
    ASSUME TypeOK, NEW found \in SUBSET Rows, Cardinality(found) <= PageSize
    PROVE  PageOf(found) = found
  <1>1. \A r \in found : Rank(found, r) < PageSize
    BY RankType, PullAssumption
  <1> QED BY <1>1 DEF PageOf, Rank

\* Something found is something on the page, ...
LEMMA PageNonempty ==
    ASSUME TypeOK, NEW found \in SUBSET Rows, found # {}
    PROVE  PageOf(found) # {}
  <1> DEFINE T == {Rank(found, r) : r \in found}
  <1>1. T \in SUBSET Nat /\ T # {}
    BY RankType
  <1>2. PICK x \in T : \A y \in T : x <= y
    BY <1>1, LeastOf
  <1>3. PICK r \in found : x = Rank(found, r)
    OBVIOUS
  <1>4. {s \in found : Before(s, r)} = {}
    <2> SUFFICES ASSUME NEW s \in found, Before(s, r) PROVE FALSE
      OBVIOUS
    <2>1. Rank(found, s) < Rank(found, r)
      BY RankOrder
    <2>2. x <= Rank(found, s)
      BY <1>2
    <2> QED BY <1>3, <2>1, <2>2, RankType
  <1>5. Rank(found, r) < PageSize
    BY <1>4, FS_EmptySet, PullAssumption DEF Rank
  <1> QED BY <1>5 DEF PageOf, Rank

\* ... and the page has a last row.
LEMMA LastExists ==
    ASSUME TypeOK, NEW found \in SUBSET Rows, found # {}
    PROVE  \E r \in PageOf(found) : \A s \in PageOf(found) : ~Before(r, s)
  <1> DEFINE T == {Rank(found, r) : r \in PageOf(found)}
  <1>1. PageOf(found) \in SUBSET found
    BY DEF PageOf
  <1>2. T \in SUBSET Nat /\ T # {}
    BY <1>1, RankType, PageNonempty
  <1>3. \A x \in T : x <= Cardinality(found)
    BY <1>1, RankType
  <1>4. Cardinality(found) \in Nat
    BY RankType
  <1>5. PICK x \in T : \A y \in T : y <= x
    BY <1>2, <1>3, <1>4, GreatestOf
  <1>6. PICK r \in PageOf(found) : x = Rank(found, r)
    OBVIOUS
  <1>7. ASSUME NEW s \in PageOf(found), Before(r, s) PROVE FALSE
    <2>1. Rank(found, r) < Rank(found, s)
      BY <1>1, <1>7, RankOrder
    <2>2. Rank(found, s) <= x
      BY <1>5
    <2> QED BY <1>1, <1>6, <2>1, <2>2, RankType
  <1> QED BY <1>7

\* _next_state: the position a page ends at has not gone by any row found that the page
\* left out. The device therefore meets each on a later page, for any page size.
LEMMA NextPositionFacts ==
    ASSUME TypeOK, NEW found \in SUBSET Rows
    PROVE  /\ NextPosition(found) \in Positions
           /\ NextPosition(found) # Start
           /\ \A r \in found : Passed(r, NextPosition(found)) => r \in PageOf(found)
  <1>1. CASE Cardinality(found) <= PageSize
    <2>1. NextPosition(found) = Exhausted
      BY <1>1 DEF NextPosition
    <2> QED BY <1>1, <2>1, PageWhole, PullAssumption DEF Exhausted, Start, Positions, Times
  <1>2. CASE ~(Cardinality(found) <= PageSize)
    <2>1. found # {}
      BY <1>2, FS_EmptySet, PullAssumption
    <2> DEFINE last == CHOOSE r \in PageOf(found) : \A s \in PageOf(found) : ~Before(r, s)
    <2>2. last \in PageOf(found) /\ PageOf(found) \in SUBSET found
      BY <2>1, LastExists DEF PageOf
    <2>3. NextPosition(found) = [kind |-> "after", at |-> rows[last].at, id |-> last]
      BY <1>2 DEF NextPosition
    <2> HIDE DEF last
    <2>4. NextPosition(found) \in Positions /\ NextPosition(found) \notin {Start, Exhausted}
      <3>1. last \in Rows /\ rows[last].at \in Times
        BY <2>2 DEF TypeOK
      <3> QED BY <2>3, <3>1 DEF Positions, Start, Exhausted
    <2>5. ASSUME NEW r \in found, r \notin PageOf(found) PROVE After(r, NextPosition(found))
      <3>1. Rank(found, last) < PageSize /\ ~(Rank(found, r) < PageSize)
        BY <2>2, <2>5 DEF PageOf, Rank
      <3>2. ~(Rank(found, r) < Rank(found, last))
        BY <2>2, <3>1, RankType, PullAssumption
      <3>3. r # last /\ ~Before(r, last)
        BY <2>2, <3>1, <3>2, RankOrder
      <3>4. Before(last, r)
        BY <2>2, <3>3, KeysetOrder
      <3>5. rows[last].at \in Nat /\ rows[r].at \in Nat /\ last \in Nat /\ r \in Nat
        <4>1. last \in Rows /\ r \in Rows
          BY <2>2
        <4>2. \A s \in Rows : s \in Nat /\ rows[s].at \in Nat
          BY PullAssumption DEF TypeOK, Rows, Times
        <4> QED BY <4>1, <4>2
      <3> QED BY <2>3, <3>4, <3>5 DEF Before, After
    <2> QED BY <2>4, <2>5 DEF Passed
  <1> QED BY <1>1, <1>2

----------------------------------------------------------------------------
(* Every action keeps the inductive invariant                               *)

\* What the invariants say depends on these only.
Unmoved == UNCHANGED <<rows, round, pull, cursor, cache, overtaken>>

\* A step that leaves them alone leaves the invariant.
LEMMA UnmovedKeeps ==
    ASSUME IInv, Unmoved, TypeOK', WriteInv'
    PROVE  IInv'
  BY DEF IInv, Unmoved, RoundInv, PageInv, CleanInv, DirtyInv, PassedInv, Passed, PositionOf, Held,
         After, NothingElseSkipped

\* The clock and an uncommitted write: no query sees them.
LEMMA ServerKeeps ==
    ASSUME IInv, ClockTicks \/ \E r \in Rows : \E active \in BOOLEAN : Save(r, active)
    PROVE  IInv'
  <1>1. CASE ClockTicks
    <2>1. Unmoved
      BY <1>1 DEF ClockTicks, Unmoved, device
    <2>2. TypeOK'
      BY <1>1, PullAssumption DEF ClockTicks, IInv, TypeOK, Times, device
    <2>3. WriteInv'
      BY <1>1 DEF ClockTicks, IInv, WriteInv
    <2> QED BY <2>1, <2>2, <2>3, UnmovedKeeps
  <1>2. ASSUME NEW r \in Rows, NEW active \in BOOLEAN, Save(r, active) PROVE IInv'
    <2>1. Unmoved
      BY <1>2 DEF Save, Unmoved, device
    <2>2. TypeOK'
      BY <1>2, PullAssumption DEF Save, IInv, TypeOK, Times, device
    <2>3. WriteInv'
      BY <1>2 DEF Save, IInv, WriteInv, TypeOK
    <2> QED BY <2>1, <2>2, <2>3, UnmovedKeeps
  <1> QED BY <1>1, <1>2

\* A commit: the row is dirty from here on, and overtaken if the cursor is already past it.
LEMMA CommitKeeps ==
    ASSUME IInv, NEW r \in Rows, Commit(r)
    PROVE  IInv'
  <1>1. PICK at \in Times, active \in BOOLEAN : at = writing[r].at /\ active = writing[r].active
    BY DEF IInv, TypeOK
  <1>2. /\ rows' = [rows EXCEPT ![r] = [at |-> at, ver |-> rows[r].ver + 1, active |-> active]]
        /\ pull' = IF pull.phase \in {"idle", "sample"} /\ pull.first
                     THEN pull ELSE [pull EXCEPT !.dirty = pull.dirty \cup {r}]
        /\ overtaken' = IF at < cursor THEN overtaken \cup {r} ELSE overtaken \ {r}
        /\ UNCHANGED <<now, writes, sched, round, cursor, cache, failures>>
    BY <1>1 DEF Commit, IInv, TypeOK
  <1>3. at # 0 /\ writing' = [writing EXCEPT ![r] = NoWrite]
    BY <1>1 DEF Commit, IInv, WriteInv
  <1>4. \A q \in Rows : q # r => rows'[q] = rows[q]
    BY <1>2 DEF IInv, TypeOK
  <1>5. rows'[r].at = at
    BY <1>2 DEF IInv, TypeOK
  <1>6. TypeOK'
    <2>1. [at |-> at, ver |-> rows[r].ver + 1, active |-> active]
              \in [at : Times \ {0}, ver : Nat \ {0}, active : BOOLEAN]
      BY <1>3 DEF IInv, TypeOK
    <2>2. rows' \in [Rows -> [at : Times \ {0}, ver : Nat \ {0}, active : BOOLEAN]]
      BY <1>2, <2>1 DEF IInv, TypeOK
    <2>3. writing' \in [Rows -> [at : Times, active : BOOLEAN]]
      BY <1>3, PullAssumption DEF IInv, TypeOK, NoWrite, Times
    <2>4. pull' \in Pulls
      BY <1>2 DEF IInv, TypeOK, Pulls
    <2> QED BY <1>2, <2>2, <2>3, <2>4 DEF IInv, TypeOK
  <1>7. WriteInv'
    BY <1>3 DEF IInv, WriteInv, TypeOK
  <1>8. CASE pull.phase \in {"idle", "sample"} /\ pull.first
    <2>1. pull' = pull
      BY <1>2, <1>8
    <2>2. pull.page = NoPage /\ pull.gone = {} /\ pull.c = Start /\ pull.d = Start /\ pull.dirty = {}
      BY <1>8 DEF IInv, PageInv
    <2>3. RoundInv' /\ PageInv'
      BY <1>2, <2>1 DEF IInv, RoundInv, PageInv
    <2>4. CleanInv' /\ DirtyInv' /\ PassedInv'
      BY <2>1, <2>2 DEF CleanInv, DirtyInv, PassedInv, Passed, PositionOf, NoPage
    <2>5. NothingElseSkipped'
      BY <1>2, <1>4, <1>5 DEF IInv, NothingElseSkipped
    <2> QED BY <1>6, <1>7, <2>3, <2>4, <2>5 DEF IInv
  <1>9. CASE ~(pull.phase \in {"idle", "sample"} /\ pull.first)
    <2>1. /\ pull'.dirty = pull.dirty \cup {r}
          /\ pull'.phase = pull.phase /\ pull'.since = pull.since /\ pull'.first = pull.first
          /\ pull'.c = pull.c /\ pull'.d = pull.d
          /\ pull'.page = pull.page /\ pull'.gone = pull.gone
      BY <1>2, <1>9 DEF IInv, TypeOK, Pulls
    <2>2. pull.phase # "idle"
      BY <1>9 DEF IInv, RoundInv, Idle
    <2>3. RoundInv' /\ PageInv'
      BY <1>2, <1>9, <2>1, <2>2 DEF IInv, RoundInv, PageInv
    <2>4. CleanInv'
      BY <1>4, <2>1 DEF IInv, CleanInv
    <2>5. DirtyInv'
      BY <1>2, <1>4, <1>5, <2>1 DEF IInv, DirtyInv, TypeOK, Pulls
    <2>6. PassedInv'
      BY <1>2, <1>4, <2>1 DEF IInv, PassedInv, Passed, After, PositionOf, Held
    <2>7. NothingElseSkipped'
      BY <1>2, <1>4, <1>5 DEF IInv, NothingElseSkipped
    <2> QED BY <1>6, <1>7, <2>3, <2>4, <2>5, <2>6, <2>7 DEF IInv
  <1> QED BY <1>8, <1>9

\* Between rounds the pull is the idle one.
LEMMA IdleFacts ==
    /\ Idle \in Pulls /\ Idle.phase = "idle" /\ Idle.page = NoPage /\ Idle.gone = {} /\ Idle.dirty = {}
    /\ Idle.c = Start /\ Idle.d = Start /\ Idle.first = TRUE
  BY PullAssumption DEF Idle, Pulls, Positions, Start, NoPage, Times

\* A round that ends: the pull and what it had collected are forgotten.
LEMMA ForgetKeeps ==
    ASSUME IInv, TypeOK', WriteInv', pull' = Idle, round' \in {"none", "push"},
           UNCHANGED <<rows, cursor, cache, overtaken>>
    PROVE  IInv'
  <1>1. RoundInv' /\ PageInv'
    BY IdleFacts DEF RoundInv, PageInv
  <1>2. CleanInv' /\ DirtyInv' /\ PassedInv'
    BY IdleFacts DEF CleanInv, DirtyInv, PassedInv, Passed, PositionOf, NoPage
  <1>3. NothingElseSkipped'
    BY DEF IInv, NothingElseSkipped
  <1> QED BY <1>1, <1>2, <1>3 DEF IInv

\* Starting a round, and ending one without an answer.
LEMMA RoundKeeps ==
    ASSUME IInv,
           \/ LaunchRound \/ Attempt \/ Relaunch
           \/ \E outcome \in {"failed", "unauthenticated"} : PullFails(outcome)
           \/ PushEnds("unauthenticated")
    PROVE  IInv'
  <1>1. CASE LaunchRound \/ Attempt
    <2>1. /\ pull' = pull /\ round' = "push" /\ round = "none" /\ sched' \in {"launch", "attempt"}
          /\ UNCHANGED <<server, cursor, cache, failures, overtaken>>
      BY <1>1 DEF LaunchRound, Attempt
    <2>2. pull = Idle
      BY <2>1 DEF IInv, RoundInv
    <2>3. TypeOK' /\ WriteInv'
      BY <2>1 DEF IInv, TypeOK, WriteInv, server
    <2> QED BY <2>1, <2>2, <2>3, ForgetKeeps DEF server
  <1>2. CASE \/ Relaunch \/ PushEnds("unauthenticated")
             \/ \E outcome \in {"failed", "unauthenticated"} : PullFails(outcome)
    <2>1. /\ pull' = Idle /\ round' = "none" /\ sched' \in {"launch", "armed", "stopped"}
          /\ UNCHANGED <<server, cursor, cache, overtaken>>
          /\ failures' = failures \/ (failures < MaxFailures /\ failures' = failures + 1)
      BY <1>2 DEF Relaunch, PushEnds, PullFails, EndRound
    <2>2. failures' \in 0..MaxFailures
      BY <2>1, PullAssumption DEF IInv, TypeOK
    <2>3. TypeOK' /\ WriteInv'
      BY <2>1, <2>2, IdleFacts DEF IInv, TypeOK, WriteInv, server
    <2> QED BY <2>1, <2>3, ForgetKeeps DEF server
  <1> QED BY <1>1, <1>2

\* A pull that begins, and every page of it: the sample moves no row, page or position.
LEMMA SampleKeeps ==
    ASSUME IInv, Sample \/ \E outcome \in {"ok", "failed"} : PushEnds(outcome)
    PROVE  IInv'
  <1>1. CASE Sample
    <2>1. /\ pull.phase = "sample" /\ pull' = [pull EXCEPT !.phase = "customers", !.time = now]
          /\ UNCHANGED <<server, sched, round, cursor, cache, failures, overtaken>>
      BY <1>1 DEF Sample
    <2>2. /\ pull'.phase = "customers" /\ pull'.since = pull.since /\ pull'.page = pull.page
          /\ pull'.gone = pull.gone /\ pull'.c = pull.c /\ pull'.d = pull.d
          /\ pull'.dirty = pull.dirty /\ pull' \in Pulls
      BY <2>1 DEF IInv, TypeOK, Pulls
    <2>3. TypeOK' /\ WriteInv'
      BY <2>1, <2>2 DEF IInv, TypeOK, WriteInv, server
    <2>4. RoundInv' /\ PageInv'
      BY <2>1, <2>2 DEF IInv, RoundInv, PageInv
    <2>5. CleanInv' /\ DirtyInv' /\ PassedInv' /\ NothingElseSkipped'
      BY <2>1, <2>2 DEF IInv, CleanInv, DirtyInv, PassedInv, Passed, PositionOf, Held, After,
                        NothingElseSkipped, server
    <2> QED BY <2>3, <2>4, <2>5 DEF IInv
  <1>2. ASSUME NEW outcome \in {"ok", "failed"}, PushEnds(outcome) PROVE IInv'
    <2>1. /\ pull' = [Idle EXCEPT !.phase = "sample", !.since = cursor] /\ round' = "pull"
          /\ UNCHANGED <<server, sched, cursor, cache, failures, overtaken>>
      BY <1>2 DEF PushEnds
    <2>2. /\ pull'.phase = "sample" /\ pull'.since = cursor /\ pull'.page = NoPage
          /\ pull'.gone = {} /\ pull'.c = Start /\ pull'.d = Start /\ pull'.dirty = {}
          /\ pull' \in Pulls
      BY <2>1, IdleFacts DEF Idle, Pulls, IInv, TypeOK
    <2>3. TypeOK' /\ WriteInv'
      BY <2>1, <2>2 DEF IInv, TypeOK, WriteInv, server
    <2>4. RoundInv' /\ PageInv'
      BY <2>1, <2>2 DEF RoundInv, PageInv
    <2>5. CleanInv' /\ DirtyInv' /\ PassedInv'
      BY <2>2 DEF CleanInv, DirtyInv, PassedInv, Passed, PositionOf, NoPage
    <2>6. NothingElseSkipped'
      BY <2>1 DEF IInv, NothingElseSkipped, server
    <2> QED BY <2>3, <2>4, <2>5, <2>6 DEF IInv
  <1> QED BY <1>1, <1>2

\* What a page collects: every row found that the new position has gone by, as it is.
LEMMA CollectedFacts ==
    ASSUME TypeOK, CleanInv, NEW found \in SUBSET Rows
    PROVE  /\ Collected(found) \in [Rows -> Nat]
           /\ \A r \in Rows \ pull.dirty : Collected(found)[r] \in {0, rows[r].ver}
           /\ \A r \in Rows : r \notin found => Collected(found)[r] = pull.page[r]
           /\ \A r \in found : Passed(r, NextPosition(found)) => Collected(found)[r] = rows[r].ver
  <1>1. PageOf(found) \in SUBSET found
    BY DEF PageOf
  <1>2. \A r \in Rows : Collected(found)[r] = IF r \in PageOf(found) THEN rows[r].ver ELSE pull.page[r]
    BY DEF Collected
  <1>3. \A r \in Rows : rows[r].ver \in Nat /\ pull.page[r] \in Nat
    BY DEF TypeOK, Pulls
  <1>4. Collected(found) \in [Rows -> Nat]
    BY <1>3 DEF Collected
  <1>5. \A r \in found : Passed(r, NextPosition(found)) => r \in PageOf(found)
    BY NextPositionFacts
  <1> QED BY <1>1, <1>2, <1>4, <1>5 DEF CleanInv

\* A page of one collection leaves no row of it behind that its position has gone by.
LEMMA CollectedPassed ==
    ASSUME IInv, NEW class \in SUBSET Rows, NEW position, NEW found,
           found = Matching(class, position),
           NEW r \in class, r \notin pull.dirty, rows[r].active, rows[r].at >= pull.since,
           Passed(r, position) => Held(r), Passed(r, NextPosition(found))
    PROVE  \/ Collected(found)[r] = rows[r].ver
           \/ Collected(found)[r] = 0 /\ cache[r] = rows[r].ver
  <1>1. found \in SUBSET Rows
    BY DEF Matching
  <1>2. CASE r \in found
    BY <1>1, <1>2, CollectedFacts DEF IInv
  <1>3. CASE r \notin found
    <2>1. Passed(r, position)
      BY <1>3 DEF Matching, Passed, Exhausted, Start
    <2>2. Collected(found)[r] = pull.page[r]
      BY <1>1, <1>3, CollectedFacts DEF IInv
    <2> QED BY <2>1, <2>2 DEF Held
  <1> QED BY <1>2, <1>3

\* The two queries of a page.
LEMMA CollectKeeps ==
    ASSUME IInv, CollectCustomers \/ CollectDeliveries
    PROVE  IInv'
  <1>1. ASSUME NEW class \in SUBSET Rows, NEW position, NEW found, found = Matching(class, position),
               pull.phase \in {"customers", "deliveries"},
               pull'.phase \in {"deliveries", "removed"}, pull'.since = pull.since,
               pull'.page = Collected(found), pull'.gone = pull.gone, pull'.dirty = pull.dirty,
               \A r \in Rows : PositionOf(r)' = IF r \in class THEN NextPosition(found) ELSE PositionOf(r),
               \A r \in class : PositionOf(r) = position,
               pull' \in Pulls,
               UNCHANGED <<server, sched, round, cursor, cache, failures, overtaken>>
        PROVE  IInv'
    <2>1. found \in SUBSET Rows
      BY <1>1 DEF Matching
    <2>2. TypeOK' /\ WriteInv'
      BY <1>1 DEF IInv, TypeOK, WriteInv, server
    <2>3. RoundInv' /\ PageInv'
      BY <1>1 DEF IInv, RoundInv, PageInv
    <2>4. CleanInv' /\ DirtyInv'
      BY <1>1, <2>1, CollectedFacts DEF IInv, CleanInv, DirtyInv, server
    <2>5. PassedInv'
      <3> SUFFICES ASSUME NEW r \in Rows, r \notin pull.dirty, rows[r].active, rows[r].at >= pull.since,
                          Passed(r, PositionOf(r)')
                   PROVE  \/ Collected(found)[r] = rows[r].ver
                          \/ Collected(found)[r] = 0 /\ cache[r] = rows[r].ver
        BY <1>1 DEF PassedInv, Held, Passed, After, server
      <3>1. Passed(r, PositionOf(r)) => Held(r)
        BY DEF IInv, PassedInv
      <3>2. CASE r \in class
        BY <1>1, <3>1, <3>2, CollectedPassed
      <3>3. CASE r \notin class
        <4>1. r \notin found
          BY <1>1, <3>3 DEF Matching
        <4>2. Collected(found)[r] = pull.page[r]
          BY <2>1, <4>1, CollectedFacts DEF IInv
        <4> QED BY <1>1, <3>1, <3>3, <4>2 DEF Held
      <3> QED BY <3>2, <3>3
    <2>6. NothingElseSkipped'
      BY <1>1 DEF IInv, NothingElseSkipped, server
    <2> QED BY <2>2, <2>3, <2>4, <2>5, <2>6 DEF IInv
  <1>2. CASE CollectCustomers
    <2> DEFINE found == Matching(Customers, pull.c)
    <2>1. /\ pull.phase = "customers"
          /\ pull' = [pull EXCEPT !.phase = "deliveries", !.page = Collected(found), !.c = NextPosition(found)]
          /\ UNCHANGED <<server, sched, round, cursor, cache, failures, overtaken>>
      BY <1>2 DEF CollectCustomers
    <2>2. found \in SUBSET Rows /\ Customers \in SUBSET Rows
      BY DEF Matching, Rows
    <2>3. NextPosition(found) \in Positions /\ Collected(found) \in [Rows -> Nat]
      BY <2>2, NextPositionFacts, CollectedFacts DEF IInv
    <2> HIDE DEF found
    <2>4. /\ pull'.phase = "deliveries" /\ pull'.since = pull.since /\ pull'.page = Collected(found)
          /\ pull'.gone = pull.gone /\ pull'.dirty = pull.dirty /\ pull'.c = NextPosition(found)
          /\ pull'.d = pull.d /\ pull' \in Pulls
      BY <2>1, <2>3 DEF IInv, TypeOK, Pulls
    <2>5. \A r \in Rows : /\ PositionOf(r)' = IF r \in Customers THEN NextPosition(found) ELSE PositionOf(r)
                          /\ r \in Customers => PositionOf(r) = pull.c
      BY <2>4 DEF PositionOf
    <2>6. found = Matching(Customers, pull.c)
      BY DEF found
    <2> QED BY <1>1, <2>1, <2>2, <2>4, <2>5, <2>6
  <1>3. CASE CollectDeliveries
    <2> DEFINE found == Matching(Deliveries, pull.d)
    <2>1. /\ pull.phase = "deliveries"
          /\ pull' = [pull EXCEPT !.phase = "removed", !.page = Collected(found), !.d = NextPosition(found)]
          /\ UNCHANGED <<server, sched, round, cursor, cache, failures, overtaken>>
      BY <1>3 DEF CollectDeliveries
    <2>2. found \in SUBSET Rows /\ Deliveries \in SUBSET Rows
      BY DEF Matching, Rows
    <2>3. NextPosition(found) \in Positions /\ Collected(found) \in [Rows -> Nat]
      BY <2>2, NextPositionFacts, CollectedFacts DEF IInv
    <2> HIDE DEF found
    <2>4. /\ pull'.phase = "removed" /\ pull'.since = pull.since /\ pull'.page = Collected(found)
          /\ pull'.gone = pull.gone /\ pull'.dirty = pull.dirty /\ pull'.d = NextPosition(found)
          /\ pull'.c = pull.c /\ pull' \in Pulls
      BY <2>1, <2>3 DEF IInv, TypeOK, Pulls
    <2>5. \A r \in Rows : /\ PositionOf(r)' = IF r \in Deliveries THEN NextPosition(found) ELSE PositionOf(r)
                          /\ r \in Deliveries => PositionOf(r) = pull.d
      BY <2>4, PullAssumption DEF PositionOf, Rows
    <2>6. found = Matching(Deliveries, pull.d)
      BY DEF found
    <2> QED BY <1>1, <2>1, <2>2, <2>4, <2>5, <2>6
  <1> QED BY <1>2, <1>3

\* The removals: a row named here is inactive, or is written again and dirty.
LEMMA CollectRemovedKeeps ==
    ASSUME IInv, CollectRemoved
    PROVE  IInv'
  <1> DEFINE gone == IF pull.first /\ pull.since # 0
                       THEN {r \in Customers : ~rows[r].active /\ rows[r].at >= pull.since} ELSE {}
  <1>1. /\ pull.phase = "removed" /\ pull' = [pull EXCEPT !.phase = "apply", !.gone = gone]
        /\ UNCHANGED <<server, sched, round, cursor, cache, failures, overtaken>>
    BY DEF CollectRemoved
  <1>2. gone \in SUBSET Customers /\ \A r \in gone : ~rows[r].active
    OBVIOUS
  <1> HIDE DEF gone
  <1>3. /\ pull'.phase = "apply" /\ pull'.since = pull.since /\ pull'.page = pull.page
        /\ pull'.gone = gone /\ pull'.c = pull.c /\ pull'.d = pull.d
        /\ pull'.dirty = pull.dirty /\ pull' \in Pulls
    BY <1>1, <1>2 DEF IInv, TypeOK, Pulls
  <1>4. TypeOK' /\ WriteInv'
    BY <1>1, <1>3 DEF IInv, TypeOK, WriteInv, server
  <1>5. RoundInv' /\ PageInv'
    BY <1>1, <1>3 DEF IInv, RoundInv, PageInv
  <1>6. CleanInv' /\ DirtyInv'
    BY <1>1, <1>2, <1>3 DEF IInv, CleanInv, DirtyInv, server
  <1>7. PassedInv' /\ NothingElseSkipped'
    BY <1>1, <1>3 DEF IInv, PassedInv, Passed, PositionOf, Held, After, NothingElseSkipped, server
  <1> QED BY <1>4, <1>5, <1>6, <1>7 DEF IInv

\* A page is written: a clean, active row that was held or up to date is on the device.
LEMMA ApplyPageKeeps ==
    ASSUME IInv, ApplyPage
    PROVE  IInv'
  <1>1. /\ pull.phase = "apply"
        /\ cache' = [r \in Rows |-> IF r \in Customers THEN CachedCustomer(r) ELSE CachedDelivery(r)]
        /\ pull' = [pull EXCEPT !.phase = IF HasMore THEN "sample" ELSE "advance",
                                !.first = FALSE, !.page = NoPage, !.gone = {}]
        /\ UNCHANGED <<server, sched, round, cursor, failures, overtaken>>
    BY DEF ApplyPage
  <1>2. /\ pull'.phase = (IF HasMore THEN "sample" ELSE "advance") /\ pull'.first = FALSE
        /\ pull'.since = pull.since /\ pull'.page = NoPage /\ pull'.gone = {}
        /\ pull'.c = pull.c /\ pull'.d = pull.d /\ pull'.dirty = pull.dirty
    BY <1>1 DEF IInv, TypeOK, Pulls
  <1>3. pull' \in Pulls
    BY <1>1 DEF IInv, TypeOK, Pulls, NoPage
  <1>4. \A r \in Rows : /\ pull.page[r] \in Nat /\ cache[r] \in Nat /\ rows[r].ver \in Nat \ {0}
    BY DEF IInv, TypeOK, Pulls
  <1>5. \A r \in Rows : /\ cache'[r] = IF r \in Customers /\ r \in pull.gone THEN 0
                                       ELSE IF pull.page[r] > 0 THEN pull.page[r] ELSE cache[r]
                        /\ cache'[r] \in Nat
    BY <1>1, <1>4 DEF CachedCustomer, CachedDelivery
  <1>6. TypeOK' /\ WriteInv'
    <2>1. cache' \in [Rows -> Nat]
      BY <1>1, <1>5
    <2> QED BY <1>1, <1>3, <2>1 DEF IInv, TypeOK, WriteInv, server
  <1>7. RoundInv' /\ PageInv'
    BY <1>1, <1>2 DEF IInv, RoundInv, PageInv, HasMore
  <1>8. CleanInv' /\ DirtyInv'
    BY <1>1, <1>2 DEF IInv, CleanInv, DirtyInv, NoPage, server
  <1>9. \A r \in Rows \ pull.dirty :
           rows[r].active /\ (Held(r) \/ cache[r] = rows[r].ver) => cache'[r] = rows[r].ver
    <2> SUFFICES ASSUME NEW r \in Rows, r \notin pull.dirty, rows[r].active,
                        Held(r) \/ cache[r] = rows[r].ver
                 PROVE  cache'[r] = rows[r].ver
      OBVIOUS
    <2>1. pull.page[r] \in {0, rows[r].ver} /\ r \notin pull.gone
      BY DEF IInv, CleanInv
    <2> QED BY <1>4, <1>5, <2>1 DEF Held
  <1>10. PassedInv'
    <2> SUFFICES ASSUME NEW r \in Rows, r \notin pull.dirty, rows[r].active, rows[r].at >= pull.since,
                        Passed(r, PositionOf(r))
                 PROVE  cache'[r] = rows[r].ver
      BY <1>1, <1>2 DEF PassedInv, Held, Passed, PositionOf, After, NoPage, server
    <2>1. Held(r)
      BY DEF IInv, PassedInv
    <2> QED BY <1>9, <2>1
  <1>11. NothingElseSkipped'
    BY <1>1, <1>9 DEF IInv, DirtyInv, NothingElseSkipped, server
  <1> QED BY <1>6, <1>7, <1>8, <1>10, <1>11 DEF IInv

\* The cursor moves: a row it passes was passed by the pages, or is overtaken.
LEMMA AdvanceCursorKeeps ==
    ASSUME IInv, AdvanceCursor
    PROVE  IInv'
  <1>1. /\ pull.phase = "advance" /\ cursor' = pull.time
        /\ overtaken' = overtaken \cup {r \in pull.dirty : rows[r].at < pull.time}
        /\ round' = "none" /\ sched' = "armed" /\ pull' = Idle
        /\ UNCHANGED <<server, cache, failures>>
    BY DEF AdvanceCursor, WriteCursor, EndRound
  <1>2. pull.dirty \subseteq Rows /\ pull.time \in Times
    BY DEF IInv, TypeOK, Pulls
  <1>3. TypeOK' /\ WriteInv'
    BY <1>1, <1>2, IdleFacts DEF IInv, TypeOK, WriteInv, server
  <1>4. RoundInv' /\ PageInv'
    BY <1>1, IdleFacts DEF RoundInv, PageInv
  <1>5. CleanInv' /\ DirtyInv' /\ PassedInv'
    BY <1>1, IdleFacts DEF CleanInv, DirtyInv, PassedInv, Passed, PositionOf, NoPage
  <1>6. NothingElseSkipped'
    <2> SUFFICES ASSUME NEW r \in Rows, rows[r].at < pull.time, rows[r].active, r \notin overtaken'
                 PROVE  cache[r] = rows[r].ver
      BY <1>1 DEF NothingElseSkipped, server
    <2>1. r \notin pull.dirty /\ r \notin overtaken
      BY <1>1
    <2>2. pull.since = cursor /\ cursor \in Nat /\ rows[r].at \in Nat
      BY <1>1, PullAssumption DEF IInv, RoundInv, TypeOK, Times
    <2>3. CASE rows[r].at < cursor
      BY <2>1, <2>3 DEF IInv, NothingElseSkipped
    <2>4. CASE rows[r].at >= pull.since
      <3>1. Passed(r, PositionOf(r))
        BY <1>1 DEF IInv, PageInv, Passed, PositionOf, Exhausted, Start
      <3>2. Held(r) /\ pull.page = NoPage
        BY <1>1, <2>1, <2>4, <3>1 DEF IInv, PassedInv, PageInv
      <3>3. rows[r].ver # 0
        BY DEF IInv, TypeOK
      <3> QED BY <3>2, <3>3 DEF Held, NoPage
    <2> QED BY <2>2, <2>3, <2>4
  <1> QED BY <1>3, <1>4, <1>5, <1>6 DEF IInv

----------------------------------------------------------------------------
(* The invariant, and the theorems                                          *)

\* A device before its first pull satisfies the invariant.
LEMMA InitIInv == Init => IInv
  <1> SUFFICES ASSUME Init PROVE IInv
    OBVIOUS
  <1>1. TypeOK
    BY PullAssumption, IdleFacts DEF Init, TypeOK, Times, NoWrite
  <1>2. WriteInv /\ RoundInv /\ PageInv
    BY IdleFacts DEF Init, WriteInv, RoundInv, PageInv
  <1>3. CleanInv /\ DirtyInv /\ PassedInv /\ NothingElseSkipped
    BY IdleFacts DEF Init, CleanInv, DirtyInv, PassedInv, Passed, PositionOf, NothingElseSkipped, NoPage
  <1> QED BY <1>1, <1>2, <1>3 DEF IInv

\* Every step keeps it.
LEMMA NextKeeps == IInv /\ [Next]_vars => IInv'
  <1> SUFFICES ASSUME IInv, [Next]_vars PROVE IInv'
    OBVIOUS
  <1>1. CASE ClockTicks \/ Writes
    BY <1>1, ServerKeeps, CommitKeeps
       DEF Writes, DeactivateCustomer, UpdateCustomer, UpdateDelivery, Rows
  <1>2. CASE Progress
    BY <1>2, RoundKeeps, SampleKeeps, CollectKeeps, CollectRemovedKeeps, ApplyPageKeeps,
       AdvanceCursorKeeps DEF Progress, Answers
  <1>3. CASE Failures \/ Relaunch
    BY <1>3, RoundKeeps DEF Failures
  <1>4. CASE \E outcome \in {"failed", "unauthenticated"} : PushEnds(outcome)
    BY <1>4, RoundKeeps, SampleKeeps
  <1>5. CASE UNCHANGED vars
    <2>1. Unmoved
      BY <1>5 DEF vars, Unmoved
    <2>2. TypeOK' /\ WriteInv'
      BY <1>5 DEF vars, IInv, TypeOK, WriteInv
    <2> QED BY <2>1, <2>2, UnmovedKeeps
  <1> QED BY <1>1, <1>2, <1>3, <1>4, <1>5 DEF Next

\* The inductive invariant holds throughout.
THEOREM Invariance == Spec => []IInv
  BY InitIInv, NextKeeps, PTL DEF Spec

\* Every variable of the server and the device keeps its type.
THEOREM TypeCorrect == Spec => []TypeOK
  <1>1. IInv => TypeOK
    BY DEF IInv
  <1> QED BY <1>1, Invariance, PTL

\* The cursor never passes a committed row the device does not have, for any number of
\* rows, any page size, ties of updated_at, failed pulls and restarts; the one exception
\* is a row that was committing while the cursor passed it.
THEOREM NothingElseSkippedHolds == Spec => []NothingElseSkipped
  <1>1. IInv => NothingElseSkipped
    BY DEF IInv
  <1> QED BY <1>1, Invariance, PTL
----------------------------------------------------------------------------
(* What the device has only moves forward                                   *)

\* The cursor is behind the server's clock, and the page it will be moved to is not
\* behind the cursor.
ClockInv ==
    /\ cursor <= now
    /\ pull.phase \notin {"idle", "sample"} => cursor <= pull.time /\ pull.time <= now

\* A row on a page under way is no older than the one it replaces.
Fresh(r) ==
    /\ cache[r] <= rows[r].ver
    /\ pull.page[r] # 0 => cache[r] <= pull.page[r] /\ pull.page[r] <= rows[r].ver

ForwardInv == ClockInv /\ \A r \in Rows : Fresh(r)

OnlyForward ==
    /\ cursor' >= cursor
    /\ \A r \in Rows : cache'[r] >= cache[r] \/ cache'[r] = 0

\* PullService.pull, CustomerCache and DeliveryCache: no page, retry or restart puts an
\* older version over a newer one, or the cursor back; a row is updated or removed.
DeviceForward == [][OnlyForward]_vars

\* The ranges that the comparisons are over.
LEMMA PullNumbers ==
    ASSUME TypeOK
    PROVE  /\ now \in Nat /\ cursor \in Nat /\ pull.time \in Nat
           /\ \A r \in Rows : cache[r] \in Nat /\ rows[r].ver \in Nat /\ pull.page[r] \in Nat
  BY PullAssumption DEF TypeOK, Pulls, Times

\* Nothing is written on the device, and a page, if there is one, is kept or dropped.
LEMMA DeviceStill ==
    ASSUME TypeOK, ForwardInv, cursor' = cursor, cache' = cache, now' \in Nat, now <= now',
           \A r \in Rows : rows'[r].ver \in Nat /\ rows[r].ver <= rows'[r].ver,
           pull'.page = pull.page \/ pull'.page = NoPage,
           pull'.phase \in {"idle", "sample"}
              \/ (pull.phase \notin {"idle", "sample"} /\ pull'.time = pull.time)
    PROVE  ForwardInv' /\ OnlyForward
  <1>0. /\ now \in Nat /\ cursor \in Nat /\ pull.time \in Nat
        /\ \A r \in Rows : cache[r] \in Nat /\ rows[r].ver \in Nat /\ pull.page[r] \in Nat
    BY PullNumbers
  <1>1. ClockInv'
    BY <1>0 DEF ForwardInv, ClockInv
  <1>2. ASSUME NEW r \in Rows PROVE Fresh(r)'
    <2>1. Fresh(r)
      BY DEF ForwardInv
    <2>2. cache'[r] <= rows'[r].ver
      BY <1>0, <2>1 DEF Fresh
    <2>3. pull'.page[r] = pull.page[r] \/ pull'.page[r] = 0
      BY DEF NoPage
    <2> QED BY <1>0, <2>1, <2>2, <2>3 DEF Fresh
  <1>3. OnlyForward
    BY <1>0 DEF OnlyForward
  <1> QED BY <1>1, <1>2, <1>3 DEF ForwardInv

\* The server's writes: a commit makes the row's version newer.
LEMMA ServerForward ==
    ASSUME IInv, ForwardInv, ClockTicks \/ Writes
    PROVE  ForwardInv' /\ OnlyForward
  <1>0. TypeOK /\ now \in Nat /\ \A r \in Rows : rows[r].ver \in Nat
    BY PullNumbers DEF IInv
  <1>1. CASE ClockTicks
    <2>1. now' = now + 1 /\ rows' = rows /\ cursor' = cursor /\ cache' = cache /\ pull' = pull
      BY <1>1 DEF ClockTicks, device
    <2> QED BY <1>0, <2>1, DeviceStill
  <1>2. ASSUME NEW r \in Rows, NEW active \in BOOLEAN, Save(r, active)
        PROVE  ForwardInv' /\ OnlyForward
    <2>1. now' = now /\ rows' = rows /\ cursor' = cursor /\ cache' = cache /\ pull' = pull
      BY <1>2 DEF Save, device
    <2> QED BY <1>0, <2>1, DeviceStill
  <1>3. ASSUME NEW r \in Rows, Commit(r) PROVE ForwardInv' /\ OnlyForward
    <2>1. /\ now' = now /\ cursor' = cursor /\ cache' = cache
          /\ rows' = [rows EXCEPT ![r] = [at |-> writing[r].at, ver |-> @.ver + 1,
                                          active |-> writing[r].active]]
      BY <1>3 DEF Commit
    <2>2. ASSUME NEW q \in Rows PROVE rows'[q].ver \in Nat /\ rows[q].ver <= rows'[q].ver
      <3>1. rows'[q] = rows[q] \/ rows'[q].ver = rows[q].ver + 1
        BY <1>0, <2>1 DEF TypeOK
      <3> QED BY <1>0, <3>1
    <2>3. pull'.page = pull.page /\ pull'.phase = pull.phase /\ pull'.time = pull.time
      BY <1>0, <1>3 DEF Commit, TypeOK, Pulls
    <2> QED BY <1>0, <2>1, <2>2, <2>3, DeviceStill
  <1> QED BY <1>1, <1>2, <1>3
          DEF Writes, DeactivateCustomer, UpdateCustomer, UpdateDelivery, Rows

\* The round begins, ends, fails or is killed: what was applied stays.
LEMMA RoundForward ==
    ASSUME IInv, ForwardInv,
           \/ LaunchRound \/ Attempt \/ Failures \/ Relaunch \/ CollectRemoved
           \/ \E outcome \in {"ok", "failed", "unauthenticated"} : PushEnds(outcome)
    PROVE  ForwardInv' /\ OnlyForward
  <1>0. TypeOK /\ now \in Nat /\ \A r \in Rows : rows[r].ver \in Nat
    BY PullNumbers DEF IInv
  <1>1. now' = now /\ rows' = rows /\ cursor' = cursor /\ cache' = cache
    BY DEF LaunchRound, Attempt, Failures, PullFails, Relaunch, CollectRemoved, PushEnds, server
  <1>2. CASE LaunchRound \/ Attempt
    <2>1. pull' = pull
      BY <1>2 DEF LaunchRound, Attempt
    <2> QED BY <1>0, <1>1, <2>1, DeviceStill
  <1>3. CASE CollectRemoved
    <2>1. /\ pull'.page = pull.page /\ pull'.time = pull.time
          /\ pull.phase \notin {"idle", "sample"}
      BY <1>0, <1>3 DEF CollectRemoved, TypeOK, Pulls
    <2> QED BY <1>0, <1>1, <2>1, DeviceStill
  <1>4. ASSUME pull'.page = NoPage, pull'.phase \in {"idle", "sample"}
        PROVE  ForwardInv' /\ OnlyForward
    BY <1>0, <1>1, <1>4, DeviceStill
  <1>5. CASE Failures \/ Relaunch
    <2>1. pull' = Idle
      BY <1>5 DEF Failures, PullFails, EndRound, Relaunch
    <2> QED BY <1>4, <2>1 DEF Idle
  <1>6. ASSUME NEW outcome \in {"ok", "failed", "unauthenticated"}, PushEnds(outcome)
        PROVE  ForwardInv' /\ OnlyForward
    <2>1. pull' = Idle \/ pull' = [Idle EXCEPT !.phase = "sample", !.since = cursor]
      BY <1>6 DEF PushEnds, EndRound
    <2>2. pull'.page = Idle.page /\ pull'.phase \in {Idle.phase, "sample"}
      BY <2>1, IdleFacts DEF Pulls
    <2> QED BY <1>4, <2>2, IdleFacts
  <1> QED BY <1>2, <1>3, <1>5, <1>6

\* server_time is sampled after the cursor was written.
LEMMA SampleForward ==
    ASSUME IInv, ForwardInv, Sample
    PROVE  ForwardInv' /\ OnlyForward
  <1>0. /\ TypeOK /\ now \in Nat /\ cursor \in Nat
        /\ \A r \in Rows : cache[r] \in Nat
    BY PullNumbers DEF IInv
  <1>1. now' = now /\ rows' = rows /\ cursor' = cursor /\ cache' = cache
    BY DEF Sample, server
  <1>2. pull'.page = pull.page /\ pull'.time = now
    BY <1>0 DEF Sample, TypeOK, Pulls
  <1>3. ClockInv'
    BY <1>0, <1>1, <1>2 DEF ForwardInv, ClockInv
  <1>4. \A r \in Rows : Fresh(r)'
    BY <1>1, <1>2 DEF ForwardInv, Fresh
  <1>5. OnlyForward
    BY <1>0, <1>1 DEF OnlyForward
  <1> QED BY <1>3, <1>4, <1>5 DEF ForwardInv

\* A page holds the rows as they are committed when its query runs.
LEMMA CollectForward ==
    ASSUME IInv, ForwardInv, CollectCustomers \/ CollectDeliveries
    PROVE  ForwardInv' /\ OnlyForward
  <1>0. /\ TypeOK /\ now \in Nat /\ cursor \in Nat
        /\ \A r \in Rows : cache[r] \in Nat /\ rows[r].ver \in Nat
    BY PullNumbers DEF IInv
  <1>1. now' = now /\ rows' = rows /\ cursor' = cursor /\ cache' = cache
    BY DEF CollectCustomers, CollectDeliveries, server
  <1>2. /\ pull'.time = pull.time /\ pull.phase \notin {"idle", "sample"}
        /\ \E found : pull'.page = Collected(found)
    <2>1. CASE CollectCustomers
      <3>1. PICK found : pull' = [pull EXCEPT !.phase = "deliveries", !.page = Collected(found),
                                              !.c = NextPosition(found)]
        BY <2>1 DEF CollectCustomers
      <3>2. pull'.time = pull.time /\ pull'.page = Collected(found)
        BY <1>0, <3>1 DEF TypeOK, Pulls
      <3> QED BY <2>1, <3>2 DEF CollectCustomers
    <2>2. CASE CollectDeliveries
      <3>1. PICK found : pull' = [pull EXCEPT !.phase = "removed", !.page = Collected(found),
                                              !.d = NextPosition(found)]
        BY <2>2 DEF CollectDeliveries
      <3>2. pull'.time = pull.time /\ pull'.page = Collected(found)
        BY <1>0, <3>1 DEF TypeOK, Pulls
      <3> QED BY <2>2, <3>2 DEF CollectDeliveries
    <2> QED BY <2>1, <2>2
  <1>3. ClockInv'
    BY <1>1, <1>2 DEF ForwardInv, ClockInv
  <1>4. ASSUME NEW r \in Rows PROVE Fresh(r)'
    <2>1. pull'.page[r] = rows[r].ver \/ pull'.page[r] = pull.page[r]
      BY <1>2 DEF Collected
    <2>2. Fresh(r)
      BY DEF ForwardInv
    <2> QED BY <1>0, <1>1, <2>1, <2>2 DEF Fresh
  <1>5. OnlyForward
    BY <1>0, <1>1 DEF OnlyForward
  <1> QED BY <1>3, <1>4, <1>5 DEF ForwardInv

\* The page is written over rows no newer than its own.
LEMMA ApplyForward ==
    ASSUME IInv, ForwardInv, ApplyPage
    PROVE  ForwardInv' /\ OnlyForward
  <1>0. /\ TypeOK /\ now \in Nat /\ cursor \in Nat
        /\ \A r \in Rows : cache[r] \in Nat /\ rows[r].ver \in Nat /\ pull.page[r] \in Nat
    BY PullNumbers DEF IInv
  <1>1. /\ now' = now /\ rows' = rows /\ cursor' = cursor /\ pull.phase = "apply"
        /\ cache' = [r \in Rows |-> IF r \in Customers THEN CachedCustomer(r) ELSE CachedDelivery(r)]
    BY DEF ApplyPage, server
  <1>2. pull'.time = pull.time /\ pull'.page = NoPage
    BY <1>0 DEF ApplyPage, TypeOK, Pulls
  <1>3. ClockInv'
    BY <1>1, <1>2 DEF ForwardInv, ClockInv
  <1>4. ASSUME NEW r \in Rows
        PROVE  Fresh(r)' /\ (cache'[r] >= cache[r] \/ cache'[r] = 0)
    <2>1. \/ cache'[r] = 0
          \/ pull.page[r] # 0 /\ cache'[r] = pull.page[r]
          \/ cache'[r] = cache[r]
      BY <1>0, <1>1 DEF CachedCustomer, CachedDelivery
    <2>2. Fresh(r)
      BY DEF ForwardInv
    <2>3. cache'[r] <= rows[r].ver /\ (cache'[r] >= cache[r] \/ cache'[r] = 0)
      BY <1>0, <2>1, <2>2 DEF Fresh
    <2>4. pull'.page[r] = 0
      BY <1>2 DEF NoPage
    <2> QED BY <1>1, <2>3, <2>4 DEF Fresh
  <1>5. OnlyForward
    BY <1>0, <1>1, <1>4 DEF OnlyForward
  <1> QED BY <1>3, <1>4, <1>5 DEF ForwardInv

\* The cursor moves to the time the last page was sampled at.
LEMMA AdvanceForward ==
    ASSUME IInv, ForwardInv, AdvanceCursor
    PROVE  ForwardInv' /\ OnlyForward
  <1>0. /\ TypeOK /\ now \in Nat /\ cursor \in Nat /\ pull.time \in Nat
        /\ \A r \in Rows : cache[r] \in Nat
    BY PullNumbers DEF IInv
  <1>1. /\ now' = now /\ rows' = rows /\ cache' = cache /\ cursor' = pull.time
        /\ pull' = Idle /\ pull.phase = "advance"
    BY DEF AdvanceCursor, WriteCursor, EndRound, server
  <1>2. cursor <= pull.time /\ pull.time <= now
    BY <1>1 DEF ForwardInv, ClockInv
  <1>3. ClockInv'
    BY <1>1, <1>2 DEF ClockInv, Idle
  <1>4. \A r \in Rows : Fresh(r)'
    BY <1>1 DEF ForwardInv, Fresh, Idle, NoPage
  <1>5. OnlyForward
    BY <1>0, <1>1, <1>2 DEF OnlyForward
  <1> QED BY <1>3, <1>4, <1>5 DEF ForwardInv

\* Every step keeps the device moving forward.
LEMMA ForwardStep == IInv /\ ForwardInv /\ [Next]_vars => ForwardInv' /\ OnlyForward
  <1> SUFFICES ASSUME IInv, ForwardInv, [Next]_vars PROVE ForwardInv' /\ OnlyForward
    OBVIOUS
  <1>1. CASE Progress
    BY <1>1, RoundForward, SampleForward, CollectForward, ApplyForward, AdvanceForward
       DEF Progress, Answers
  <1>2. CASE UNCHANGED vars
    <2>1. now' = now /\ rows' = rows /\ cursor' = cursor /\ cache' = cache /\ pull' = pull
      BY <1>2 DEF vars
    <2>2. TypeOK /\ now \in Nat /\ \A r \in Rows : rows[r].ver \in Nat
      BY PullNumbers DEF IInv
    <2> QED BY <2>1, <2>2, DeviceStill
  <1> QED BY <1>1, <1>2, ServerForward, RoundForward DEF Next

\* For any rows, page size, failures and restarts, what the device holds of a row is
\* replaced by nothing older, and its cursor never goes back.
THEOREM DeviceForwardHolds == Spec => DeviceForward
  <1>1. Init => ForwardInv
    BY DEF Init, ForwardInv, ClockInv, Fresh, Idle, NoPage
  <1>2. IInv /\ ForwardInv /\ [Next]_vars => ForwardInv' /\ [OnlyForward]_vars
    BY ForwardStep
  <1> QED BY <1>1, <1>2, Invariance, PTL DEF Spec, DeviceForward
=============================================================================
