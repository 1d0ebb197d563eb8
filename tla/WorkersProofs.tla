----------------------------- MODULE WorkersProofs ----------------------------
(***************************************************************************)
(* Proofs about what runs in the background of Admin and the Collector:    *)
(* the usage ledger (UsageLedger), that the books are right and that       *)
(* nobody is refused for requests that were not made; the quotas of the    *)
(* accounts (QuotaRefresh), what the write fence, held over several calls, *)
(* protects; the runtime jobs (RuntimeJobs); the notifications             *)
(* (Notifications); the plans of Failover and Admin (RouteFailover), that  *)
(* they are even and move nobody for nothing.  They hold for every set of  *)
(* users, accounts, requests, zones, operators, jobs and targets, and      *)
(* every sequence of failures, periods, operations and changes outside.    *)
(***************************************************************************)
EXTENDS UsageLedger, QuotaRefresh, RuntimeJobs, Notifications, RouteFailover,
        FiniteSetTheorems, FunctionTheorems, SequenceTheorems, WellFoundedInduction, TLAPS

(***************************************************************************)
(* Metering and the weekly quota.                                          *)
(***************************************************************************)

(* A set of numbers has a least one: the induction over batches, sums and  *)
(* sets below is by the least counterexample.                              *)
LEMMA LeastNumber ==
    ASSUME NEW T, T \subseteq Nat, T # {}
    PROVE  \E n \in T : \A m \in T : n <= m
<1> DEFINE R == OpToRel(<, Nat)
<1>1. IsWellFoundedOn(R, Nat) BY NatLessThanWellFounded
<1>2. ASSUME NEW x \in Nat, NEW y \in Nat, y < x PROVE <<y, x>> \in R
      BY <1>2 DEF OpToRel
<1> HIDE DEF R
<1>3. PICK n \in T : \A y \in T : ~ (<<y, n>> \in R)
      BY <1>1, WFMin
<1>4. ASSUME NEW m \in T PROVE n <= m
  <2>1. ~ (m < n) BY <1>2, <1>3
  <2> QED BY <2>1
<1> QED BY <1>4

(* A week begins at or before, and ends after, each of its moments. *)
LEMMA WeekSpan ==
    ASSUME NEW t \in Int, NEW z \in Int
    PROVE  /\ WeekStart(t, z) \in Int
           /\ WeekStart(t, z) <= t /\ t < WeekStart(t, z) + WeekLength
<1> DEFINE x == t + z
           q == x \div WeekLength
<1>1. WeekLength \in Int /\ WeekLength > 0 BY UsageLedgerAssumption
<1>2. x \in Int /\ q \in Int BY <1>1
<1>3. q * WeekLength <= x /\ x < q * WeekLength + WeekLength BY <1>1, <1>2
<1>4. q * WeekLength \in Int BY <1>1, <1>2
<1>5. WeekStart(t, z) = q * WeekLength - z BY DEF WeekStart
<1> DEFINE m == q * WeekLength
<1> HIDE DEF q, x
<1>6. m \in Int /\ m <= x /\ x < m + WeekLength BY <1>3, <1>4
<1>7. WeekStart(t, z) = m - z BY <1>5
<1>8. x = t + z BY DEF x
<1> HIDE DEF m
<1> QED BY <1>1, <1>6, <1>7, <1>8


(* What is added up when the elements of s are taken one by one. *)
OneOf(s) == CHOOSE x \in s : TRUE
AddedUp(s, it) == IF s = {} THEN 0 ELSE OneOf(s).amount + it[s \ {OneOf(s)}]
UpTo(S, n) == {s \in SUBSET S : Cardinality(s) <= n}

LEMMA SmallerBy ==
    ASSUME NEW S, IsFiniteSet(S), NEW s \in SUBSET S, s # {}
    PROVE  /\ OneOf(s) \in s
           /\ s \ {OneOf(s)} \in SUBSET S
           /\ Cardinality(s) \in Nat /\ Cardinality(s) >= 1
           /\ Cardinality(s \ {OneOf(s)}) = Cardinality(s) - 1
<1>1. OneOf(s) \in s BY DEF OneOf
<1>2. IsFiniteSet(s) BY FS_Subset
<1>3. Cardinality(s) \in Nat /\ Cardinality(s) # 0 BY <1>2, FS_CardinalityType, FS_EmptySet
<1>4. Cardinality(s \ {OneOf(s)}) = Cardinality(s) - 1 BY <1>1, <1>2, FS_RemoveElement
<1> QED BY <1>1, <1>3, <1>4

LEMMA SumsExist ==
    ASSUME NEW S, IsFiniteSet(S)
    PROVE  \E it : it = [s \in SUBSET S |-> AddedUp(s, it)]
<1> DEFINE P(n) == \E it : it = [s \in UpTo(S, n) |-> AddedUp(s, it)]
<1>1. P(0)
  <2> DEFINE it == [s \in UpTo(S, 0) |-> 0]
  <2>1. \A s \in UpTo(S, 0) : s = {}
    <3> SUFFICES ASSUME NEW s \in UpTo(S, 0), s # {} PROVE FALSE OBVIOUS
    <3>1. s \in SUBSET S /\ Cardinality(s) <= 0 BY DEF UpTo
    <3>2. Cardinality(s) \in Nat /\ Cardinality(s) >= 1 BY <3>1, SmallerBy
    <3> QED BY <3>1, <3>2
  <2>2. \A s \in UpTo(S, 0) : AddedUp(s, it) = 0 BY <2>1 DEF AddedUp
  <2>3. it = [s \in UpTo(S, 0) |-> AddedUp(s, it)] BY <2>2
  <2> QED BY <2>3
<1>2. ASSUME NEW n \in Nat, P(n) PROVE P(n + 1)
  <2>1. PICK it : it = [s \in UpTo(S, n) |-> AddedUp(s, it)] BY <1>2
  <2> DEFINE jt == [s \in UpTo(S, n + 1) |-> AddedUp(s, it)]
  <2>2. UpTo(S, n) \subseteq UpTo(S, n + 1)
    <3> SUFFICES ASSUME NEW s \in SUBSET S, Cardinality(s) <= n PROVE Cardinality(s) <= n + 1
        BY DEF UpTo
    <3>1. Cardinality(s) \in Nat BY FS_Subset, FS_CardinalityType
    <3> QED BY <3>1
  <2>3. ASSUME NEW s \in UpTo(S, n) PROVE jt[s] = it[s]
    <3>1. it[s] = AddedUp(s, it) BY <2>1
    <3>2. jt[s] = AddedUp(s, it) BY <2>2
    <3> QED BY <3>1, <3>2
  <2>4. ASSUME NEW s \in UpTo(S, n + 1), s # {} PROVE s \ {OneOf(s)} \in UpTo(S, n)
        BY <2>4, SmallerBy DEF UpTo
  <2>5. ASSUME NEW s \in UpTo(S, n + 1) PROVE AddedUp(s, it) = AddedUp(s, jt)
    <3>1. CASE s = {} BY <3>1 DEF AddedUp
    <3>2. CASE s # {}
      <4>1. s \ {OneOf(s)} \in UpTo(S, n) BY <2>4, <3>2
      <4>2. jt[s \ {OneOf(s)}] = it[s \ {OneOf(s)}] BY <2>3, <4>1
      <4> HIDE DEF jt
      <4> QED BY <3>2, <4>2 DEF AddedUp
    <3> QED BY <3>1, <3>2
  <2>6. jt = [s \in UpTo(S, n + 1) |-> AddedUp(s, jt)] BY <2>5
  <2> QED BY <2>6
<1> HIDE DEF P
<1>3. \A n \in Nat : P(n)
  <2> DEFINE T == {n \in Nat : ~ P(n)}
  <2> SUFFICES ASSUME T # {} PROVE FALSE OBVIOUS
  <2>1. PICK n \in T : \A m \in T : n <= m BY LeastNumber
  <2>2. n \in Nat /\ n # 0 /\ ~ P(n) BY <1>1, <2>1
  <2>3. n - 1 \in Nat /\ n - 1 \notin T BY <2>1, <2>2
  <2>4. P((n - 1) + 1) BY <1>2, <2>3
  <2> QED BY <2>2, <2>4
<1>4. Cardinality(S) \in Nat BY FS_CardinalityType
<1>5. UpTo(S, Cardinality(S)) = SUBSET S
  <2> SUFFICES ASSUME NEW s \in SUBSET S PROVE Cardinality(s) <= Cardinality(S) BY DEF UpTo
  <2> QED BY FS_Subset
<1>6. P(Cardinality(S)) BY <1>3, <1>4
<1>7. \E it : it = [s \in UpTo(S, Cardinality(S)) |-> AddedUp(s, it)] BY <1>6 DEF P
<1> QED BY <1>5, <1>7

LEMMA SumIsNat ==
    ASSUME NEW S, IsFiniteSet(S), \A a \in S : a.amount \in Nat,
           NEW it, it = [s \in SUBSET S |-> AddedUp(s, it)]
    PROVE  it[S] \in Nat
<1> DEFINE T == {n \in Nat : \E s \in SUBSET S : Cardinality(s) = n /\ it[s] \notin Nat}
<1>1. ASSUME it[S] \notin Nat PROVE T # {}
      BY <1>1, FS_CardinalityType
<1>2. ASSUME T # {} PROVE FALSE
  <2>1. PICK n \in T : \A m \in T : n <= m BY <1>2, LeastNumber
  <2>2. PICK s \in SUBSET S : Cardinality(s) = n /\ it[s] \notin Nat BY <2>1
  <2>3. it[s] = AddedUp(s, it) OBVIOUS
  <2>4. s # {} BY <2>2, <2>3 DEF AddedUp
  <2> DEFINE x == OneOf(s)  r == s \ {OneOf(s)}
  <2>5. x \in S /\ r \in SUBSET S /\ Cardinality(r) = n - 1 /\ n \in Nat /\ n >= 1
        BY <2>2, <2>4, SmallerBy
  <2>6. it[s] = x.amount + it[r] BY <2>3, <2>4 DEF AddedUp
  <2> HIDE DEF x, r
  <2>7. n - 1 \notin T
    <3> HIDE DEF T
    <3> QED BY <2>1, <2>5
  <2>8. it[r] \in Nat BY <2>5, <2>7
  <2>9. x.amount \in Nat BY <2>5
  <2> QED BY <2>2, <2>6, <2>8, <2>9
<1> QED BY <1>1, <1>2

LEMMA AdjustedNat ==
    ASSUME IsFiniteSet(adjustments), \A a \in adjustments : a.amount \in Nat,
           NEW u, NEW w, NEW action
    PROVE  Adjusted(u, w, action) \in Nat
<1> DEFINE S == {a \in adjustments : a.user = u /\ a.week = w /\ a.action = action}
           it == CHOOSE it : it = [s \in SUBSET S |-> AddedUp(s, it)]
<1>1. IsFiniteSet(S) /\ \A a \in S : a.amount \in Nat BY FS_Subset
<1>2. Adjusted(u, w, action) = it[S]
      BY DEF Adjusted, SumOf, MapThenSumSet, MapThenFoldSet, AddedUp, OneOf
<1>3. it = [s \in SUBSET S |-> AddedUp(s, it)]
  <2> HIDE DEF S
  <2> QED BY <1>1, SumsExist
<1> HIDE DEF it, S
<1>4. it[S] \in Nat BY <1>1, <1>3, SumIsNat
<1> QED BY <1>2, <1>4


Event == [meter : Meter, request : Request, user : Member, at : 1..LastTick]

LEMMA WeeklyType ==
    ASSUME NEW events, IsFiniteSet(events), NEW z
    PROVE  RebuiltWeekly(events, z) \in [Member -> [Weeks -> Nat]]
<1>1. ASSUME NEW u, NEW w
      PROVE  Cardinality({e \in events : e.user = u /\ WeekStart(e.at, z) = w}) \in Nat
      BY FS_Subset, FS_CardinalityType
<1> QED BY <1>1 DEF RebuiltWeekly

LEMMA WeekInWeeks ==
    ASSUME NEW t \in 1..LastTick, NEW z \in Int
    PROVE  WeekStart(t, z) \in Weeks
<1>1. WeekLength \in Nat /\ LastTick \in Nat BY UsageLedgerAssumption
<1>2. t \in Int BY <1>1
<1>3. /\ WeekStart(t, z) \in Int
      /\ WeekStart(t, z) <= t /\ t < WeekStart(t, z) + WeekLength BY <1>2, WeekSpan
<1> QED BY <1>1, <1>3 DEF Weeks

(* One more event is one more in its user's week and nowhere else. *)
LEMMA OneEventMore ==
    ASSUME NEW events, IsFiniteSet(events), NEW e \in Event, e \notin events,
           NEW z \in Int
    PROVE  RebuiltWeekly(events \cup {e}, z)
           = [RebuiltWeekly(events, z) EXCEPT ![e.user][WeekStart(e.at, z)] = @ + 1]
<1> DEFINE In(set, u, w) == {s \in set : s.user = u /\ WeekStart(s.at, z) = w}
           more == events \cup {e}
<1>1. ASSUME NEW u, NEW w, ~ (u = e.user /\ w = WeekStart(e.at, z))
      PROVE  In(more, u, w) = In(events, u, w)
      BY <1>1
<1>2. Cardinality(In(more, e.user, WeekStart(e.at, z)))
      = Cardinality(In(events, e.user, WeekStart(e.at, z))) + 1
  <2>1. In(more, e.user, WeekStart(e.at, z)) = In(events, e.user, WeekStart(e.at, z)) \cup {e}
        OBVIOUS
  <2>2. IsFiniteSet(In(events, e.user, WeekStart(e.at, z))) BY FS_Subset
  <2>3. e \notin In(events, e.user, WeekStart(e.at, z)) OBVIOUS
  <2> HIDE DEF In
  <2> QED BY <2>1, <2>2, <2>3, FS_AddElement
<1>3. \A set : RebuiltWeekly(set, z) = [u \in Member |-> [w \in Weeks |-> Cardinality(In(set, u, w))]]
      BY DEF RebuiltWeekly
<1> HIDE DEF In
<1> DEFINE f == RebuiltWeekly(events, z)
           g == [f EXCEPT ![e.user][WeekStart(e.at, z)] = @ + 1]
           h == RebuiltWeekly(more, z)
<1>4. ASSUME NEW u \in Member, NEW w \in Weeks PROVE h[u][w] = g[u][w]
  <2>1. h[u][w] = Cardinality(In(more, u, w)) /\ f[u][w] = Cardinality(In(events, u, w)) BY <1>3
  <2>2. g[u][w] = IF u = e.user /\ w = WeekStart(e.at, z) THEN f[u][w] + 1 ELSE f[u][w]
        BY <1>3
  <2> QED BY <1>1, <1>2, <2>1, <2>2
<1>5. h \in [Member -> [Weeks -> Nat]] /\ f \in [Member -> [Weeks -> Nat]]
  <2>1. IsFiniteSet(more) BY FS_AddElement
  <2> QED BY <2>1, WeeklyType
<1> HIDE DEF f, h, more
<1>6. g \in [Member -> [Weeks -> Nat]]
  <2>1. WeekStart(e.at, z) \in Weeks /\ e.user \in Member BY WeekInWeeks DEF Event
  <2> DEFINE w == WeekStart(e.at, z)
  <2> HIDE DEF w
  <2>2. f[e.user] \in [Weeks -> Nat] BY <1>5, <2>1
  <2>3. f[e.user][w] + 1 \in Nat BY <2>1, <2>2 DEF w
  <2>4. [f[e.user] EXCEPT ![w] = @ + 1] \in [Weeks -> Nat] BY <2>2, <2>3
  <2>5. g = [f EXCEPT ![e.user] = [f[e.user] EXCEPT ![w] = @ + 1]] BY DEF w
  <2> HIDE DEF g
  <2> QED BY <1>5, <2>1, <2>4, <2>5
<1> HIDE DEF g
<1>7. h = g
  <2>1. \A u \in Member : h[u] \in [Weeks -> Nat] /\ g[u] \in [Weeks -> Nat] BY <1>5, <1>6
  <2>2. \A u \in Member : h[u] = g[u] BY <1>4, <2>1
  <2> QED BY <1>5, <1>6, <2>2
<1> QED BY <1>7 DEF f, g, h, more

(* Nothing is stored twice. *)
Single(events) ==
    \A s, t \in events : s.meter = t.meter /\ s.request = t.request => s = t

Metered(db, from) ==
    /\ db.events \subseteq from
    /\ Single(db.events)
    /\ db.weekly = RebuiltWeekly(db.events, zone)

LEMMA EventIngested ==
    ASSUME NEW from, from \subseteq Event, IsFiniteSet(from), zone \in Int,
           NEW db, Metered(db, from), NEW e \in from
    PROVE  Metered(IngestEvent(db, e), from)
<1>1. CASE e.user \notin identified \/ Known(db.events, e)
      BY <1>1 DEF IngestEvent
<1>2. CASE ~ (e.user \notin identified \/ Known(db.events, e))
  <2> DEFINE more == [events |-> db.events \cup {e},
                      weekly |-> [db.weekly EXCEPT ![e.user][WeekStart(e.at, zone)] = @ + 1]]
  <2>1. IngestEvent(db, e) = more BY <1>2 DEF IngestEvent
  <2>2. e \notin db.events /\ \A s \in db.events : ~ (s.meter = e.meter /\ s.request = e.request)
        BY <1>2 DEF Known
  <2>3. IsFiniteSet(db.events) BY FS_Subset DEF Metered
  <2>4. more.weekly = RebuiltWeekly(db.events \cup {e}, zone)
        BY <2>2, <2>3, OneEventMore DEF Metered
  <2>5. Single(db.events \cup {e}) BY <2>2 DEF Metered, Single
  <2>6. db.events \cup {e} \subseteq from BY DEF Metered
  <2> QED BY <2>1, <2>4, <2>5, <2>6 DEF Metered
<1> QED BY <1>1, <1>2

Before == [events |-> stored, weekly |-> weekly]

(* The recursion over a batch is well defined. *)
LEMMA IngestionStep ==
    ASSUME NEW batch, Len(batch) \in Nat, NEW n \in 0..Len(batch)
    PROVE  Ingestion(batch)[n] = IF n = 0 THEN Before
                                 ELSE IngestEvent(Ingestion(batch)[n - 1], batch[n])
<1> DEFINE N == Len(batch)
           Next1(f, k) == IF k = 0 THEN Before ELSE IngestEvent(f[k - 1], batch[k])
           P(k) == \E f : f = [m \in 0..k |-> Next1(f, m)]
<1>1. P(0)
  <2> DEFINE f == [m \in 0..0 |-> Before]
  <2>1. f = [m \in 0..0 |-> Next1(f, m)] OBVIOUS
  <2> QED BY <2>1
<1>2. ASSUME NEW k \in Nat, P(k) PROVE P(k + 1)
  <2>1. PICK f : f = [m \in 0..k |-> Next1(f, m)] BY <1>2
  <2> DEFINE g == [m \in 0..(k + 1) |-> Next1(f, m)]
  <2>2. ASSUME NEW m \in 0..k PROVE g[m] = f[m] BY <2>1
  <2>3. ASSUME NEW m \in 0..(k + 1) PROVE Next1(f, m) = Next1(g, m)
    <3>1. CASE m = 0 BY <3>1
    <3>2. CASE m # 0
      <4>1. m - 1 \in 0..k BY <3>2
      <4>2. g[m - 1] = f[m - 1] BY <2>2, <4>1
      <4> HIDE DEF g
      <4> QED BY <3>2, <4>2
    <3> QED BY <3>1, <3>2
  <2> HIDE DEF Next1
  <2>4. g = [m \in 0..(k + 1) |-> Next1(g, m)] BY <2>3
  <2> QED BY <2>4
<1>3. \A k \in Nat : P(k)
  <2> HIDE DEF P
  <2> DEFINE T == {k \in Nat : ~ P(k)}
  <2> SUFFICES ASSUME T # {} PROVE FALSE OBVIOUS
  <2>1. PICK k \in T : \A m \in T : k <= m BY LeastNumber
  <2>2. k \in Nat /\ k # 0 /\ ~ P(k) BY <1>1, <2>1
  <2>3. k - 1 \in Nat /\ k - 1 \notin T BY <2>1, <2>2
  <2>4. P((k - 1) + 1) BY <1>2, <2>3
  <2> QED BY <2>2, <2>4
<1>4. Ingestion(batch) = CHOOSE f : f = [m \in 0..N |-> Next1(f, m)]
      BY DEF Ingestion, Before
<1>5. Ingestion(batch) = [m \in 0..N |-> Next1(Ingestion(batch), m)]
  <2> HIDE DEF Next1
  <2> QED BY <1>3, <1>4
<1> QED BY <1>5

LEMMA BatchIngested ==
    ASSUME NEW from, from \subseteq Event, IsFiniteSet(from), zone \in Int,
           Metered(Before, from),
           NEW batch, Len(batch) \in Nat, \A n \in 1..Len(batch) : batch[n] \in from
    PROVE  Metered(Ingestion(batch)[Len(batch)], from)
<1> DEFINE P(n) == n <= Len(batch) => Metered(Ingestion(batch)[n], from)
           T == {n \in Nat : ~ P(n)}
<1> SUFFICES ASSUME T # {} PROVE FALSE
  <2>1. P(Len(batch)) OBVIOUS
  <2> QED BY <2>1
<1>1. PICK n \in T : \A m \in T : n <= m BY LeastNumber
<1>2. n \in Nat /\ n <= Len(batch) /\ ~ Metered(Ingestion(batch)[n], from) BY <1>1
<1>3. n # 0 BY <1>2, IngestionStep
<1>4. Ingestion(batch)[n] = IngestEvent(Ingestion(batch)[n - 1], batch[n]) BY <1>2, <1>3, IngestionStep
<1>5. n - 1 \in Nat /\ n - 1 \notin T
  <2> HIDE DEF T
  <2> QED BY <1>1, <1>2, <1>3
<1>6. Metered(Ingestion(batch)[n - 1], from) BY <1>2, <1>5
<1>7. batch[n] \in from BY <1>2, <1>3
<1> QED BY <1>2, <1>4, <1>6, <1>7, EventIngested

(* The requests among the events that the week before end charges u with. *)
Requests(events, u, end) ==
    {<<e.meter, e.request>> : e \in
        {s \in events : s.user = u /\ s.at < end /\ s.at >= end - WeekLength}}

LEMMA RequestsFinite ==
    ASSUME NEW events, IsFiniteSet(events), NEW u, NEW end
    PROVE  /\ IsFiniteSet(Requests(events, u, end))
           /\ Cardinality(Requests(events, u, end)) \in Nat
<1> DEFINE S == {s \in events : s.user = u /\ s.at < end /\ s.at >= end - WeekLength}
           f == [s \in S |-> <<s.meter, s.request>>]
<1>1. IsFiniteSet(S) BY FS_Subset
<1>2. f \in Surjection(S, Requests(events, u, end)) BY DEF Requests, Surjection
<1>3. IsFiniteSet(Requests(events, u, end))
  <2> HIDE DEF f, S
  <2> QED BY <1>1, <1>2, FS_Surjection
<1> QED BY <1>3, FS_CardinalityType

(* With more events it is never fewer. *)
LEMMA RequestsGrow ==
    ASSUME NEW events, IsFiniteSet(events), NEW u, NEW end,
           NEW fewer, fewer \subseteq events
    PROVE  Cardinality(Requests(fewer, u, end)) <= Cardinality(Requests(events, u, end))
<1>1. Requests(fewer, u, end) \subseteq Requests(events, u, end) BY DEF Requests
<1> QED BY <1>1, RequestsFinite, FS_Subset

(* The usage of a week was reported, request by request, in that week. *)
LEMMA UsageCharged ==
    ASSUME reported \subseteq Event, IsFiniteSet(reported), zone \in Int,
           Metered(Before, reported), NEW u \in Member, NEW w \in Weeks
    PROVE  /\ weekly[u][w] \in Nat
           /\ weekly[u][w] <= Cardinality(Requests(reported, u, w + WeekLength))
<1> DEFINE S == {e \in stored : e.user = u /\ WeekStart(e.at, zone) = w}
           T == Requests(reported, u, w + WeekLength)
           f == [s \in S |-> <<s.meter, s.request>>]
<1>1. stored \subseteq reported /\ Single(stored) /\ weekly = RebuiltWeekly(stored, zone)
      BY DEF Metered, Before
<1>2. weekly[u][w] = Cardinality(S) BY <1>1 DEF RebuiltWeekly
<1>3. IsFiniteSet(S) BY <1>1, FS_Subset
<1>4. ASSUME NEW s \in S PROVE <<s.meter, s.request>> \in T
  <2>1. s \in reported /\ s.user = u /\ s.at \in Int /\ WeekStart(s.at, zone) = w
        BY <1>1, UsageLedgerAssumption DEF Event
  <2>2. w \in Int /\ w <= s.at /\ s.at < w + WeekLength BY <2>1, WeekSpan
  <2>3. WeekLength \in Nat BY UsageLedgerAssumption
  <2>4. s.at < w + WeekLength /\ s.at >= (w + WeekLength) - WeekLength BY <2>1, <2>2, <2>3
  <2> QED BY <2>1, <2>4 DEF Requests
<1>5. \A s, t \in S : f[s] = f[t] => s = t BY <1>1 DEF Single
<1>6. f \in Injection(S, T)
  <2>1. f \in [S -> T] BY <1>4
  <2> QED BY <1>5, <2>1 DEF Injection, IsInjective
<1>7. IsFiniteSet(T) BY RequestsFinite
<1>8. Cardinality(S) <= Cardinality(T) /\ Cardinality(S) \in Nat
  <2> HIDE DEF f, S, T
  <2> QED BY <1>3, <1>6, <1>7, FS_Injection, FS_CardinalityType
<1> QED BY <1>2, <1>8

---------------------------------------------------------------------------
QuotaRecord == [limit : Int, used : Nat, weekEnd : Int]
Policy == [limit : Int, reset : Int]
Adjustment ==
    [id : Nat, user : Member, created : 1..LastTick, week : Int,
     action : {"bonus", "usage_reset"}, amount : Nat]
RoundType ==
    [pc : {"idle", "zone", "sync", "rebuild", "reset", "drain", "publish", "heartbeat"},
     rebuild : BOOLEAN, known : SUBSET Member, changed : BOOLEAN, left : SUBSET Meter,
     from : Meter \cup {"none"}, batch : Seq(Event), failed : BOOLEAN,
     quotas : [Member -> QuotaRecord]]

LedgerTypes ==
    /\ clock \in 1..LastTick /\ joined \subseteq Member /\ enabledAccounts \subseteq Meter
    /\ reported \subseteq Event /\ IsFiniteSet(reported)
    /\ usageQueue \in [Meter -> Seq(Event)]
    /\ zone \in Zone /\ configured \in Zone
    /\ policies \in [Member -> Policy]
    /\ adjustments \subseteq Adjustment /\ IsFiniteSet(adjustments)
    /\ quotaFile \in [Member -> QuotaRecord] /\ heartbeat \in Int
    /\ round \in RoundType
    /\ gate \in [file : [Member -> QuotaRecord], at : Int, beat : Int]

(* What is on its way to the database was reported. *)
Underway ==
    /\ \A a \in Meter : \A n \in 1..Len(usageQueue[a]) : usageQueue[a][n] \in reported
    /\ \A n \in 1..Len(round.batch) : round.batch[n] \in reported

(* The database holds reported events, each once, and what follows from    *)
(* them and from the adjustments in its time zone.                         *)
Books ==
    /\ Metered(Before, reported)
    /\ \A a \in adjustments : a.week = WeekStart(a.created, zone)

(* A quota record charges nobody with a request that was not made.         *)
Backed(q, u) == q.used <= Cardinality(Requests(reported, u, q.weekEnd))
QuotasSound ==
    \A u \in Member : Backed(round.quotas[u], u) /\ Backed(quotaFile[u], u) /\ Backed(gate.file[u], u)

LedgerInv == LedgerTypes /\ Underway /\ Books /\ QuotasSound

LEMMA LedgerImplies == LedgerInv => UsageAgrees /\ RefusalJustified
<1> SUFFICES ASSUME LedgerInv PROVE UsageAgrees /\ RefusalJustified OBVIOUS
<1>1. UsageAgrees BY DEF LedgerInv, Books, Metered, Before, UsageAgrees
<1>2. RefusalJustified
  <2> SUFFICES ASSUME NEW u \in Member, Refused(u)
      PROVE  /\ clock < gate.file[u].weekEnd
             /\ Cardinality(Charged(u, gate.file[u].weekEnd)) >= gate.file[u].limit
      BY DEF RefusalJustified
  <2>1. gate.file[u] \in QuotaRecord BY DEF LedgerInv, LedgerTypes
  <2>2. gate.file[u].limit \in Int /\ gate.file[u].used \in Nat BY <2>1 DEF QuotaRecord
  <2> DEFINE charged == Requests(reported, u, gate.file[u].weekEnd)
  <2>3. gate.file[u].used <= Cardinality(charged)
        BY DEF LedgerInv, QuotasSound, Backed
  <2>4. Cardinality(charged) \in Nat
        BY RequestsFinite DEF LedgerInv, LedgerTypes
  <2>5. charged = Charged(u, gate.file[u].weekEnd) BY DEF Requests, Charged
  <2> HIDE DEF charged
  <2> QED BY <2>2, <2>3, <2>4, <2>5 DEF Refused, Enforced
<1> QED BY <1>1, <1>2

LEMMA LedgerInitially == LedgerInit => LedgerInv
<1> SUFFICES ASSUME LedgerInit PROVE LedgerInv OBVIOUS
<1> USE UsageLedgerAssumption
<1>1. NoRecord \in QuotaRecord /\ NoPolicy \in Policy BY DEF NoRecord, NoPolicy, QuotaRecord, Policy
<1>2. [u \in Member |-> NoRecord] \in [Member -> QuotaRecord] BY <1>1
<1>3. NoRound \in RoundType BY <1>2, EmptySeq DEF NoRound, RoundType
<1>4. LedgerTypes
  <2>1. IsFiniteSet({}) BY FS_EmptySet
  <2>2. [a \in Meter |-> <<>>] \in [Meter -> Seq(Event)] BY EmptySeq
  <2>3. [u \in Member |-> NoPolicy] \in [Member -> Policy] BY <1>1
  <2>4. clock \in 1..LastTick BY DEF LedgerInit
  <2> QED BY <1>2, <1>3, <2>1, <2>2, <2>3, <2>4 DEF LedgerInit, LedgerTypes
<1>5. Underway
  <2>1. round.batch = <<>> /\ Len(<<>>) = 0 BY EmptySeq DEF LedgerInit, NoRound
  <2>2. \A a \in Meter : usageQueue[a] = <<>> BY DEF LedgerInit
  <2> QED BY <2>1, <2>2 DEF Underway
<1>6. Books BY DEF LedgerInit, Books, Metered, Before, Single
<1>7. QuotasSound
  <2>1. \A u \in Member : round.quotas[u] = NoRecord /\ quotaFile[u] = NoRecord /\ gate.file[u] = NoRecord
        BY DEF LedgerInit, NoRound
  <2>2. IsFiniteSet(reported) BY <1>4 DEF LedgerTypes
  <2>3. \A u \in Member : Backed(NoRecord, u) BY <2>2, RequestsFinite DEF Backed, NoRecord
  <2> QED BY <2>1, <2>3 DEF QuotasSound
<1> QED BY <1>4, <1>5, <1>6, <1>7 DEF LedgerInv

LEMMA BooksSame ==
    ASSUME Books, UNCHANGED <<reported, stored, weekly, zone, adjustments>>
    PROVE  Books'
BY DEF Books, Metered, Before

LEMMA UnderwaySame ==
    ASSUME Underway, UNCHANGED <<reported, usageQueue>>, round'.batch \in {round.batch, <<>>}
    PROVE  Underway'
<1>1. Len(<<>>) = 0 OBVIOUS
<1>2. \A n \in 1..Len(round'.batch) : round'.batch[n] \in reported BY <1>1 DEF Underway
<1> QED BY <1>2 DEF Underway

(* Quota records are handed on as they are. *)
LEMMA QuotasHandedOn ==
    ASSUME LedgerInv, UNCHANGED reported,
           \A u \in Member :
              {round'.quotas[u], quotaFile'[u], gate'.file[u]}
              \subseteq {round.quotas[u], quotaFile[u], gate.file[u], NoRecord}
    PROVE  QuotasSound'
<1>1. ASSUME NEW u \in Member PROVE Backed(NoRecord, u)
      BY RequestsFinite DEF Backed, NoRecord, LedgerInv, LedgerTypes
<1> DEFINE Ok(q, u) == q.used <= Cardinality(Requests(reported, u, q.weekEnd))
<1>2. ASSUME NEW u \in Member
      PROVE  Ok(round'.quotas[u], u) /\ Ok(quotaFile'[u], u) /\ Ok(gate'.file[u], u)
  <2>1. Ok(round.quotas[u], u) /\ Ok(quotaFile[u], u) /\ Ok(gate.file[u], u) /\ Ok(NoRecord, u)
        BY <1>1 DEF LedgerInv, QuotasSound, Backed
  <2> HIDE DEF Ok
  <2> QED BY <2>1
<1> QED BY <1>2 DEF QuotasSound, Backed

(* More events are reported, the records stay. *)
LEMMA QuotasOutlast ==
    ASSUME LedgerInv, reported \subseteq reported', IsFiniteSet(reported'),
           UNCHANGED <<round, quotaFile, gate>>
    PROVE  QuotasSound'
<1> DEFINE Was(end, u) == Cardinality(Requests(reported, u, end))
           Is(end, u) == Cardinality(Requests(reported', u, end))
<1>1. \A u, end : Was(end, u) \in Nat /\ Is(end, u) \in Nat /\ Was(end, u) <= Is(end, u)
      BY RequestsGrow, RequestsFinite DEF LedgerInv, LedgerTypes
<1> HIDE DEF Was, Is
<1>2. ASSUME NEW u \in Member, NEW q \in QuotaRecord, q.used <= Was(q.weekEnd, u)
      PROVE  q.used <= Is(q.weekEnd, u)
  <2>1. q.used \in Nat BY DEF QuotaRecord
  <2> QED BY <1>1, <1>2, <2>1
<1>3. ASSUME NEW u \in Member
      PROVE  /\ round.quotas[u].used <= Is(round.quotas[u].weekEnd, u)
             /\ quotaFile[u].used <= Is(quotaFile[u].weekEnd, u)
             /\ gate.file[u].used <= Is(gate.file[u].weekEnd, u)
  <2>1. round.quotas[u] \in QuotaRecord /\ quotaFile[u] \in QuotaRecord /\ gate.file[u] \in QuotaRecord
        BY DEF LedgerInv, LedgerTypes, RoundType
  <2>2. /\ round.quotas[u].used <= Was(round.quotas[u].weekEnd, u)
        /\ quotaFile[u].used <= Was(quotaFile[u].weekEnd, u)
        /\ gate.file[u].used <= Was(gate.file[u].weekEnd, u)
        BY DEF LedgerInv, QuotasSound, Backed, Was
  <2> QED BY <1>2, <2>1, <2>2
<1> QED BY <1>3 DEF QuotasSound, Backed, Is

---------------------------------------------------------------------------
(* The Collector's round.                                                  *)

LEMMA WeekBounds ==
    ASSUME LedgerTypes
    PROVE  /\ zone \in Int /\ clock \in Int /\ clock \in 1..LastTick
           /\ WeekStart(clock, zone) \in Weeks /\ WeekStart(clock, zone) \in Int
           /\ WeekEnd(clock, zone) \in Int
           /\ WeekEnd(clock, zone) = WeekStart(clock, zone) + WeekLength
<1>1. zone \in Int /\ clock \in Int /\ WeekLength \in Int
      BY UsageLedgerAssumption DEF LedgerTypes
<1> QED BY <1>1, WeekInWeeks, WeekSpan DEF LedgerTypes, WeekEnd

LEMMA StartRoundKeeps ==
    ASSUME LedgerInv, NEW rebuild \in BOOLEAN, StartRound(rebuild) PROVE LedgerInv'
<1>1. /\ round' = [NoRound EXCEPT !.pc = IF rebuild THEN "zone" ELSE "sync",
                                  !.rebuild = rebuild, !.known = joined]
      /\ UNCHANGED <<outside, database, usageQueue, configured, quotaFile, heartbeat, gate, faults>>
      BY DEF StartRound
<1>2. /\ round'.batch = <<>> /\ round'.quotas = [u \in Member |-> NoRecord]
      /\ round' \in RoundType
  <2>1. [u \in Member |-> NoRecord] \in [Member -> QuotaRecord] BY DEF NoRecord, QuotaRecord
  <2>2. joined \subseteq Member BY DEF LedgerInv, LedgerTypes
  <2>3. <<>> \in Seq(Event) BY EmptySeq
  <2> QED BY <1>1, <2>1, <2>2, <2>3 DEF NoRound, RoundType
<1>3. LedgerTypes' BY <1>1, <1>2 DEF LedgerInv, LedgerTypes, outside, database
<1>4. Underway' BY <1>1, <1>2, UnderwaySame DEF LedgerInv, outside
<1>5. Books' BY <1>1, BooksSame DEF LedgerInv, outside, database
<1>6. QuotasSound' BY <1>1, <1>2, QuotasHandedOn DEF outside
<1> QED BY <1>3, <1>4, <1>5, <1>6 DEF LedgerInv

LEMMA SyncIdentitiesKeeps ==
    ASSUME LedgerInv, SyncIdentities PROVE LedgerInv'
<1>1. /\ round' = [round EXCEPT !.pc = "zone"]
      /\ UNCHANGED <<outside, usageQueue, stored, weekly, zone, configured,
                     policies, adjustments, quotaFile, heartbeat, gate, faults>>
      BY DEF SyncIdentities, RoundAt
<1>2. round' \in RoundType /\ round'.batch = round.batch /\ round'.quotas = round.quotas
      BY <1>1 DEF LedgerInv, LedgerTypes, RoundType
<1>3. LedgerTypes' BY <1>1, <1>2 DEF LedgerInv, LedgerTypes, outside
<1>4. Underway' BY <1>1, <1>2, UnderwaySame DEF LedgerInv, outside
<1>5. Books' BY <1>1, BooksSame DEF LedgerInv, outside
<1>6. QuotasSound' BY <1>1, <1>2, QuotasHandedOn DEF outside
<1> QED BY <1>3, <1>4, <1>5, <1>6 DEF LedgerInv

LEMMA EnsureWeekTimezoneKeeps ==
    ASSUME LedgerInv, EnsureWeekTimezone PROVE LedgerInv'
<1>1. /\ round' = [round EXCEPT !.pc = IF round.rebuild THEN "rebuild" ELSE "reset",
                                !.changed = configured # zone]
      /\ UNCHANGED <<outside, usageQueue, identified, stored, configured,
                     policies, quotaFile, heartbeat, gate, faults>>
      BY DEF EnsureWeekTimezone
<1>2. round' \in RoundType /\ round'.batch = round.batch /\ round'.quotas = round.quotas
      BY <1>1 DEF LedgerInv, LedgerTypes, RoundType
<1>3. zone' \in Zone /\ adjustments' \subseteq Adjustment /\ IsFiniteSet(adjustments') /\ Books'
  <2>1. CASE configured = zone
        BY <1>1, <2>1, BooksSame DEF LedgerInv, LedgerTypes, EnsureWeekTimezone, outside
  <2>2. CASE configured # zone
    <3>1. zone' = configured /\ weekly' = RebuiltWeekly(stored, configured)
          /\ adjustments' = Rebucketed(configured)
          BY <2>2 DEF EnsureWeekTimezone
    <3>2. zone' \in Zone /\ configured \in Int
          BY <3>1, UsageLedgerAssumption DEF LedgerInv, LedgerTypes
    <3>3. ASSUME NEW a \in adjustments
          PROVE  /\ [a EXCEPT !.week = WeekStart(a.created, configured)] \in Adjustment
                 /\ [a EXCEPT !.week = WeekStart(a.created, configured)].week
                    = WeekStart([a EXCEPT !.week = WeekStart(a.created, configured)].created, configured)
      <4>1. a \in Adjustment /\ a.created \in Int
            BY UsageLedgerAssumption DEF LedgerInv, LedgerTypes, Adjustment
      <4>2. WeekStart(a.created, configured) \in Int BY <3>2, <4>1, WeekSpan
      <4> QED BY <4>1, <4>2 DEF Adjustment
    <3>4. \A a \in adjustments' : a \in Adjustment /\ a.week = WeekStart(a.created, zone')
          BY <3>1, <3>3 DEF Rebucketed
    <3>5. IsFiniteSet(adjustments')
      <4> DEFINE f == [a \in adjustments |-> [a EXCEPT !.week = WeekStart(a.created, configured)]]
      <4>1. f \in Surjection(adjustments, adjustments') BY <3>1 DEF Rebucketed, Surjection
      <4> HIDE DEF f
      <4> QED BY <4>1, FS_Surjection DEF LedgerInv, LedgerTypes
    <3>6. Metered(Before, reported)'
          BY <1>1, <3>1 DEF LedgerInv, Books, Metered, Before, outside
    <3> QED BY <3>2, <3>4, <3>5, <3>6 DEF Books
  <2> QED BY <2>1, <2>2
<1>4. LedgerTypes' BY <1>1, <1>2, <1>3 DEF LedgerInv, LedgerTypes, outside
<1>5. Underway' BY <1>1, <1>2, UnderwaySame DEF LedgerInv, outside
<1>6. QuotasSound' BY <1>1, <1>2, QuotasHandedOn DEF outside
<1> QED BY <1>3, <1>4, <1>5, <1>6 DEF LedgerInv

LEMMA RebuildWeeklyUsageKeeps ==
    ASSUME LedgerInv, RebuildWeeklyUsage PROVE LedgerInv'
<1>1. /\ round' = [round EXCEPT !.pc = "reset"] /\ weekly' = RebuiltWeekly(stored, zone)
      /\ UNCHANGED <<outside, usageQueue, identified, stored, zone, configured,
                     policies, adjustments, quotaFile, heartbeat, gate, faults>>
      BY DEF RebuildWeeklyUsage, RoundAt
<1>2. round' \in RoundType /\ round'.batch = round.batch /\ round'.quotas = round.quotas
      BY <1>1 DEF LedgerInv, LedgerTypes, RoundType
<1>3. LedgerTypes' BY <1>1, <1>2 DEF LedgerInv, LedgerTypes, outside
<1>4. Underway' BY <1>1, <1>2, UnderwaySame DEF LedgerInv, outside
<1>5. Books' BY <1>1 DEF LedgerInv, Books, Metered, Before, outside
<1>6. QuotasSound' BY <1>1, <1>2, QuotasHandedOn DEF outside
<1> QED BY <1>3, <1>4, <1>5, <1>6 DEF LedgerInv

LEMMA ConfigurePersonalQuotaResetKeeps ==
    ASSUME LedgerInv, ConfigurePersonalQuotaReset PROVE LedgerInv'
<1>1. /\ round' = [round EXCEPT !.pc = "drain", !.left = Collected]
      /\ UNCHANGED <<outside, usageQueue, identified, stored, weekly, zone,
                     configured, adjustments, quotaFile, heartbeat, gate, faults>>
      BY DEF ConfigurePersonalQuotaReset
<1>2. round' \in RoundType /\ round'.batch = round.batch /\ round'.quotas = round.quotas
      BY <1>1 DEF LedgerInv, LedgerTypes, RoundType, Collected
<1>3. policies' \in [Member -> Policy]
  <2>1. WeekEnd(clock, zone) \in Int BY WeekBounds DEF LedgerInv
  <2>2. \A p \in Policy, n \in Int : [p EXCEPT !.reset = n] \in Policy BY DEF Policy
  <2>3. NoPolicy \in Policy BY DEF NoPolicy, Policy
  <2>4. \A u \in Member : policies[u] \in Policy BY DEF LedgerInv, LedgerTypes
  <2> QED BY <2>1, <2>2, <2>3, <2>4 DEF ConfigurePersonalQuotaReset
<1>4. LedgerTypes' BY <1>1, <1>2, <1>3 DEF LedgerInv, LedgerTypes, outside
<1>5. Underway' BY <1>1, <1>2, UnderwaySame DEF LedgerInv, outside
<1>6. Books' BY <1>1, BooksSame DEF LedgerInv, outside
<1>7. QuotasSound' BY <1>1, <1>2, QuotasHandedOn DEF outside
<1> QED BY <1>4, <1>5, <1>6, <1>7 DEF LedgerInv

LEMMA PopBatchKeeps ==
    ASSUME LedgerInv, NEW a \in Meter, PopBatch(a) PROVE LedgerInv'
<1> DEFINE q == usageQueue[a]
           n == Min({BatchSize, Len(q)})
<1>1. /\ UNCHANGED <<outside, database, configured, quotaFile, heartbeat, gate, faults>>
      /\ IF n = 0 THEN round' = [round EXCEPT !.left = @ \ {a}] /\ UNCHANGED usageQueue
         ELSE /\ round' = [round EXCEPT !.from = a, !.batch = SubSeq(q, 1, n)]
              /\ usageQueue' = [usageQueue EXCEPT ![a] = SubSeq(q, n + 1, Len(q))]
      BY DEF PopBatch
<1>2. q \in Seq(Event) /\ Len(q) \in Nat /\ \A i \in 1..Len(q) : q[i] \in Event /\ q[i] \in reported
  <2>1. q \in Seq(Event) BY DEF LedgerInv, LedgerTypes
  <2> QED BY <2>1, LenProperties, ElementOfSeq DEF LedgerInv, Underway
<1>3. n \in Nat /\ n <= Len(q)
  <2>1. BatchSize \in Nat BY UsageLedgerAssumption
  <2>2. n \in {BatchSize, Len(q)} /\ n <= BatchSize /\ n <= Len(q)
    <3>1. PICK m \in {BatchSize, Len(q)} : m <= BatchSize /\ m <= Len(q) BY <1>2, <2>1
    <3> QED BY <3>1 DEF Min
  <2> QED BY <1>2, <2>1, <2>2
<1>4. CASE n = 0
  <2> HIDE DEF n, q
  <2>0. round' = [round EXCEPT !.left = @ \ {a}] /\ UNCHANGED usageQueue BY <1>1, <1>4
  <2>1. round' \in RoundType /\ round'.batch = round.batch /\ round'.quotas = round.quotas
        BY <2>0 DEF LedgerInv, LedgerTypes, RoundType
  <2>2. LedgerTypes' BY <1>1, <2>0, <2>1 DEF LedgerInv, LedgerTypes, outside, database
  <2>3. Underway' BY <1>1, <2>0, <2>1, UnderwaySame DEF LedgerInv, outside
  <2>4. Books' BY <1>1, BooksSame DEF LedgerInv, outside, database
  <2>5. QuotasSound' BY <1>1, <2>1, QuotasHandedOn DEF outside
  <2> QED BY <2>2, <2>3, <2>4, <2>5 DEF LedgerInv
<1>5. CASE n # 0
  <2> DEFINE taken == SubSeq(q, 1, n)  rest == SubSeq(q, n + 1, Len(q))
  <2> HIDE DEF n, q
  <2>1. /\ taken \in Seq(Event) /\ Len(taken) = n
        /\ \A i \in 1..Len(taken) : taken[i] \in reported
    <3>1. \A i \in 1..n : q[i] \in Event BY <1>2, <1>3
    <3>2. taken \in Seq(Event) /\ Len(taken) = n /\ \A i \in 1..n : taken[i] = q[i]
          BY <1>2, <1>3, <1>5, <3>1, SubSeqProperties
    <3> QED BY <1>2, <1>3, <3>2
  <2>2. /\ rest \in Seq(Event) /\ Len(rest) = Len(q) - n
        /\ \A i \in 1..Len(rest) : rest[i] \in reported
    <3>1. \A i \in (n + 1)..Len(q) : q[i] \in Event BY <1>2, <1>3
    <3>2. /\ rest \in Seq(Event)
          /\ Len(rest) = IF n + 1 <= Len(q) THEN Len(q) - (n + 1) + 1 ELSE 0
          /\ \A i \in 1..(Len(q) - (n + 1) + 1) : rest[i] = q[n + 1 + i - 1]
          BY <1>2, <1>3, <3>1, SubSeqProperties
    <3>3. Len(rest) = Len(q) - n BY <1>2, <1>3, <3>2
    <3>4. ASSUME NEW i \in 1..Len(rest) PROVE rest[i] \in reported
      <4>1. i \in 1..(Len(q) - (n + 1) + 1) /\ n + 1 + i - 1 \in 1..Len(q) BY <1>2, <1>3, <3>3
      <4> QED BY <1>2, <3>2, <4>1
    <3> QED BY <3>2, <3>3, <3>4
  <2> HIDE DEF taken, rest
  <2>3. /\ round' = [round EXCEPT !.from = a, !.batch = taken]
        /\ usageQueue' = [usageQueue EXCEPT ![a] = rest]
        BY <1>1, <1>5 DEF taken, rest
  <2>4. round' \in RoundType /\ round'.batch = taken /\ round'.quotas = round.quotas
        BY <2>1, <2>3 DEF LedgerInv, LedgerTypes, RoundType
  <2>5. usageQueue' \in [Meter -> Seq(Event)]
        BY <2>2, <2>3 DEF LedgerInv, LedgerTypes
  <2>6. LedgerTypes' BY <1>1, <2>4, <2>5 DEF LedgerInv, LedgerTypes, outside, database
  <2>7. Underway'
    <3>1. ASSUME NEW b \in Meter, NEW i \in 1..Len(usageQueue'[b])
          PROVE  usageQueue'[b][i] \in reported
      <4>1. usageQueue'[b] = IF b = a THEN rest ELSE usageQueue[b]
            BY <2>3 DEF LedgerInv, LedgerTypes
      <4> QED BY <2>2, <4>1 DEF LedgerInv, Underway
    <3> QED BY <1>1, <2>1, <2>4, <3>1 DEF Underway, outside
  <2>8. Books' BY <1>1, BooksSame DEF LedgerInv, outside, database
  <2>9. QuotasSound' BY <1>1, <2>4, QuotasHandedOn DEF outside
  <2> QED BY <2>6, <2>7, <2>8, <2>9 DEF LedgerInv
<1> QED BY <1>4, <1>5

LEMMA IngestBatchKeeps ==
    ASSUME LedgerInv, IngestBatch PROVE LedgerInv'
<1>1. /\ UNCHANGED <<outside, usageQueue, identified, zone, configured, policies,
                     adjustments, quotaFile, heartbeat, gate, faults>>
      /\ stored' = Ingestion(round.batch)[Len(round.batch)].events
      /\ weekly' = Ingestion(round.batch)[Len(round.batch)].weekly
      BY DEF IngestBatch, IngestEvents
<1>2. round' = [round EXCEPT !.from = "none", !.batch = <<>>,
                   !.left = IF Len(round.batch) < BatchSize THEN @ \ {round.from} ELSE @]
      BY DEF IngestBatch
<1>3. round' \in RoundType /\ round'.batch = <<>> /\ round'.quotas = round.quotas
  <2>1. <<>> \in Seq(Event) BY EmptySeq
  <2> QED BY <1>2, <2>1 DEF LedgerInv, LedgerTypes, RoundType
<1>4. Metered(Ingestion(round.batch)[Len(round.batch)], reported)
  <2>1. round.batch \in Seq(Event) BY DEF LedgerInv, LedgerTypes, RoundType
  <2>2. Len(round.batch) \in Nat BY <2>1, LenProperties
  <2>3. zone \in Int BY WeekBounds DEF LedgerInv
  <2> QED BY <2>2, <2>3, BatchIngested DEF LedgerInv, LedgerTypes, Underway, Books
<1>5. LedgerTypes' BY <1>1, <1>3 DEF LedgerInv, LedgerTypes, outside
<1>6. Underway' BY <1>1, <1>3, UnderwaySame DEF LedgerInv, outside
<1>7. Books' BY <1>1, <1>4 DEF LedgerInv, Books, Metered, Before, outside
<1>8. QuotasSound' BY <1>1, <1>3, QuotasHandedOn DEF outside
<1> QED BY <1>5, <1>6, <1>7, <1>8 DEF LedgerInv

LEMMA DrainFailsKeeps ==
    ASSUME LedgerInv, NEW a \in Meter, DrainFails(a) PROVE LedgerInv'
<1>1. /\ round' = [round EXCEPT !.from = "none", !.batch = <<>>, !.left = @ \ {a}, !.failed = TRUE]
      /\ UNCHANGED <<outside, database, usageQueue, configured, quotaFile, heartbeat, gate>>
      BY DEF DrainFails
<1>2. round' \in RoundType /\ round'.batch = <<>> /\ round'.quotas = round.quotas
  <2>1. <<>> \in Seq(Event) BY EmptySeq
  <2> QED BY <1>1, <2>1 DEF LedgerInv, LedgerTypes, RoundType
<1>3. LedgerTypes' BY <1>1, <1>2 DEF LedgerInv, LedgerTypes, outside, database
<1>4. Underway' BY <1>1, <1>2, UnderwaySame DEF LedgerInv, outside
<1>5. Books' BY <1>1, BooksSame DEF LedgerInv, outside, database
<1>6. QuotasSound' BY <1>1, <1>2, QuotasHandedOn DEF outside
<1> QED BY <1>3, <1>4, <1>5, <1>6 DEF LedgerInv

(* What the round reads of a user is sound, in whatever zone it is read.   *)
LEMMA WeeklyQuotaSound ==
    ASSUME LedgerInv, NEW u \in Member
    PROVE  WeeklyQuota(u) \in QuotaRecord /\ Backed(WeeklyQuota(u), u)
<1> DEFINE w == WeekStart(clock, zone)
           x == weekly[u][w]
           y == Adjusted(u, w, "usage_reset")
           c == Cardinality(Requests(reported, u, w + WeekLength))
<1>1. w \in Weeks /\ w \in Int /\ zone \in Int /\ WeekEnd(clock, zone) = w + WeekLength
      /\ WeekEnd(clock, zone) \in Int
      BY WeekBounds DEF LedgerInv
<1>2. \A v, b : Adjusted(u, v, b) \in Nat
      BY AdjustedNat DEF LedgerInv, LedgerTypes, Adjustment
<1>3. x \in Nat /\ x <= c
  <2> HIDE DEF w
  <2> QED BY <1>1, UsageCharged DEF LedgerInv, LedgerTypes, Books
<1>4. c \in Nat BY RequestsFinite DEF LedgerInv, LedgerTypes
<1>5. EffectiveUsage(u) = Max({0, x - y}) BY DEF EffectiveUsage
<1>6. y \in Nat BY <1>2
<1> HIDE DEF x, y
<1>7. Max({0, x - y}) \in Nat /\ Max({0, x - y}) <= x
  <2>1. PICK m \in {0, x - y} : m >= 0 /\ m >= x - y BY <1>3, <1>6
  <2>2. /\ Max({0, x - y}) \in {0, x - y}
        /\ Max({0, x - y}) >= 0 /\ Max({0, x - y}) >= x - y
        BY <2>1 DEF Max
  <2> QED BY <1>3, <1>6, <2>2
<1>8. BaseLimit(u) \in Int
  <2>1. policies[u].limit \in Int BY DEF LedgerInv, LedgerTypes, Policy
  <2> QED BY <2>1, UsageLedgerAssumption DEF BaseLimit, Unlimited
<1>9. Adjusted(u, w, "bonus") \in Nat BY <1>2
<1>10. WeeklyQuota(u) \in QuotaRecord
  <2>1. BaseLimit(u) + Adjusted(u, w, "bonus") \in Int BY <1>8, <1>9
  <2>2. EffectiveUsage(u) \in Nat BY <1>5, <1>7
  <2> QED BY <1>1, <2>1, <2>2 DEF WeeklyQuota, QuotaRecord, Unlimited
<1>11. EffectiveUsage(u) <= c
  <2> HIDE DEF c
  <2> QED BY <1>3, <1>4, <1>5, <1>7
<1>12. WeeklyQuota(u).used = EffectiveUsage(u) /\ WeeklyQuota(u).weekEnd = w + WeekLength
       BY <1>1 DEF WeeklyQuota
<1> HIDE DEF w
<1> QED BY <1>10, <1>11, <1>12 DEF Backed

LEMMA ReadWeeklyQuotasKeeps ==
    ASSUME LedgerInv, ReadWeeklyQuotas PROVE LedgerInv'
<1> DEFINE read == [u \in Member |-> IF u \in round.known THEN WeeklyQuota(u) ELSE NoRecord]
<1>1. /\ round' = [round EXCEPT !.pc = "publish", !.quotas = read]
      /\ UNCHANGED <<outside, database, usageQueue, configured, quotaFile, heartbeat, gate, faults>>
      BY DEF ReadWeeklyQuotas
<1>2. NoRecord \in QuotaRecord /\ \A u \in Member : Backed(NoRecord, u)
      BY RequestsFinite DEF NoRecord, QuotaRecord, Backed, LedgerInv, LedgerTypes
<1>3. read \in [Member -> QuotaRecord] /\ \A u \in Member : Backed(read[u], u)
      BY <1>2, WeeklyQuotaSound
<1> HIDE DEF read
<1>4. round' \in RoundType /\ round'.batch = round.batch /\ round'.quotas = read
      BY <1>1, <1>3 DEF LedgerInv, LedgerTypes, RoundType
<1>5. LedgerTypes' BY <1>1, <1>4 DEF LedgerInv, LedgerTypes, outside, database
<1>6. Underway' BY <1>1, <1>4, UnderwaySame DEF LedgerInv, outside
<1>7. Books' BY <1>1, BooksSame DEF LedgerInv, outside, database
<1>8. QuotasSound' BY <1>1, <1>3, <1>4 DEF LedgerInv, QuotasSound, Backed, outside
<1> QED BY <1>5, <1>6, <1>7, <1>8 DEF LedgerInv

LEMMA PublishQuotaSnapshotKeeps ==
    ASSUME LedgerInv, PublishQuotaSnapshot PROVE LedgerInv'
<1>1. /\ round' = [round EXCEPT !.pc = "heartbeat"] /\ quotaFile' = round.quotas
      /\ UNCHANGED <<outside, database, usageQueue, configured, heartbeat, gate, faults>>
      BY DEF PublishQuotaSnapshot, RoundAt
<1>2. round' \in RoundType /\ round'.batch = round.batch /\ round'.quotas = round.quotas
      /\ round.quotas \in [Member -> QuotaRecord]
      BY <1>1 DEF LedgerInv, LedgerTypes, RoundType
<1>3. LedgerTypes' BY <1>1, <1>2 DEF LedgerInv, LedgerTypes, outside, database
<1>4. Underway' BY <1>1, <1>2, UnderwaySame DEF LedgerInv, outside
<1>5. Books' BY <1>1, BooksSame DEF LedgerInv, outside, database
<1>6. QuotasSound' BY <1>1, <1>2, QuotasHandedOn DEF outside
<1> QED BY <1>3, <1>4, <1>5, <1>6 DEF LedgerInv

LEMMA QuotaSnapshotFailsKeeps ==
    ASSUME LedgerInv, QuotaSnapshotFails PROVE LedgerInv'
<1>1. /\ round' = [round EXCEPT !.pc = "heartbeat", !.failed = TRUE]
      /\ UNCHANGED <<outside, database, usageQueue, configured, quotaFile, heartbeat, gate>>
      BY DEF QuotaSnapshotFails
<1>2. round' \in RoundType /\ round'.batch = round.batch /\ round'.quotas = round.quotas
      BY <1>1 DEF LedgerInv, LedgerTypes, RoundType
<1>3. LedgerTypes' BY <1>1, <1>2 DEF LedgerInv, LedgerTypes, outside, database
<1>4. Underway' BY <1>1, <1>2, UnderwaySame DEF LedgerInv, outside
<1>5. Books' BY <1>1, BooksSame DEF LedgerInv, outside, database
<1>6. QuotasSound' BY <1>1, <1>2, QuotasHandedOn DEF outside
<1> QED BY <1>3, <1>4, <1>5, <1>6 DEF LedgerInv

(* The heartbeat, and a round that ends.                                   *)
LEMMA RoundOverKeeps ==
    ASSUME LedgerInv, PublishQuotaHeartbeat \/ RoundEnds PROVE LedgerInv'
<1>1. /\ round' = NoRound /\ configured' \in Zone /\ heartbeat' \in Int
      /\ UNCHANGED <<outside, database, usageQueue, quotaFile, gate>>
      BY UsageLedgerAssumption DEF PublishQuotaHeartbeat, RoundEnds, LedgerInv, LedgerTypes
<1>2. round' \in RoundType /\ round'.batch = <<>> /\ round'.quotas = [u \in Member |-> NoRecord]
  <2>1. [u \in Member |-> NoRecord] \in [Member -> QuotaRecord] BY DEF NoRecord, QuotaRecord
  <2> QED BY <1>1, <2>1, EmptySeq DEF NoRound, RoundType
<1>3. LedgerTypes' BY <1>1, <1>2 DEF LedgerInv, LedgerTypes, outside, database
<1>4. Underway' BY <1>1, <1>2, UnderwaySame DEF LedgerInv, outside
<1>5. Books' BY <1>1, BooksSame DEF LedgerInv, outside, database
<1>6. QuotasSound' BY <1>1, <1>2, QuotasHandedOn DEF outside
<1> QED BY <1>3, <1>4, <1>5, <1>6 DEF LedgerInv

---------------------------------------------------------------------------
(* Admin.                                                                  *)

(* Its operations touch the policies, the adjustments and who has joined.  *)
LEMMA OperationKeeps ==
    ASSUME LedgerInv, UNCHANGED adminFrame, joined' \subseteq Member,
           enabledAccounts' \subseteq Meter, policies' \in [Member -> Policy],
           adjustments' \subseteq Adjustment, IsFiniteSet(adjustments'),
           \A a \in adjustments' : a.week = WeekStart(a.created, zone)
    PROVE  LedgerInv'
<1>1. LedgerTypes' BY DEF LedgerInv, LedgerTypes, adminFrame
<1>2. Underway' BY DEF LedgerInv, Underway, adminFrame
<1>3. Books' BY DEF LedgerInv, Books, Metered, Before, adminFrame
<1>4. QuotasSound' BY QuotasHandedOn DEF adminFrame
<1> QED BY <1>1, <1>2, <1>3, <1>4 DEF LedgerInv

LEMMA PolicyOperationKeeps ==
    ASSUME LedgerInv, NEW u \in Member,
           \/ SetQuotaPolicy(u) \/ Join(u) \/ Leave(u)
           \/ \E users \in SUBSET joined : ClearQuotaPolicies(users)
    PROVE  LedgerInv'
<1>1. UNCHANGED <<adminFrame, adjustments>>
      BY DEF SetQuotaPolicy, Join, Leave, ClearQuotaPolicies
<1>2. joined' \subseteq Member /\ enabledAccounts' \subseteq Meter
      BY DEF SetQuotaPolicy, Join, Leave, ClearQuotaPolicies, LedgerInv, LedgerTypes
<1>3. NoPolicy \in Policy /\ policies \in [Member -> Policy]
      BY DEF NoPolicy, Policy, LedgerInv, LedgerTypes
<1>4. policies' \in [Member -> Policy]
  <2>1. CASE SetQuotaPolicy(u)
    <3>1. PICK limit \in CustomTokens, resets \in BOOLEAN :
             policies' = [policies EXCEPT ![u] =
                [limit |-> limit, reset |-> IF resets THEN WeekEnd(clock, zone) ELSE 0]]
          BY <2>1 DEF SetQuotaPolicy
    <3>2. limit \in Int BY UsageLedgerAssumption DEF Unlimited
    <3>3. WeekEnd(clock, zone) \in Int BY WeekBounds DEF LedgerInv
    <3>4. [limit |-> limit, reset |-> IF resets THEN WeekEnd(clock, zone) ELSE 0] \in Policy
          BY <3>2, <3>3 DEF Policy
    <3> QED BY <1>3, <3>1, <3>4
  <2>2. CASE Join(u) \/ Leave(u) BY <1>3, <2>2 DEF Join, Leave
  <2>3. CASE \E users \in SUBSET joined : ClearQuotaPolicies(users)
        BY <1>3, <2>3 DEF ClearQuotaPolicies
  <2> QED BY <2>1, <2>2, <2>3
<1> QED BY <1>1, <1>2, <1>4, OperationKeeps DEF LedgerInv, LedgerTypes, Books

LEMMA UpdatePolicyKeeps ==
    ASSUME LedgerInv, NEW a \in Meter, UpdatePolicy(a) PROVE LedgerInv'
<1>1. UNCHANGED <<adminFrame, joined, policies, adjustments>> BY DEF UpdatePolicy
<1>2. enabledAccounts' \subseteq Meter BY DEF UpdatePolicy, LedgerInv, LedgerTypes
<1> QED BY <1>1, <1>2, OperationKeeps DEF LedgerInv, LedgerTypes, Books

LEMMA AdjustKeeps ==
    ASSUME LedgerInv, NEW users \in SUBSET Member, NEW amount \in [users -> Nat],
           NEW action \in {"bonus", "usage_reset"}, Adjust(amount, action)
    PROVE  LedgerInv'
<1> DEFINE made(u) == [id |-> Cardinality(adjustments) + 1, user |-> u, created |-> clock,
                       week |-> WeekStart(clock, zone), action |-> action,
                       amount |-> amount[u]]
           new == {made(u) : u \in users}
<1>1. /\ adjustments' = adjustments \cup new
      /\ UNCHANGED <<adminFrame, joined, enabledAccounts, policies>>
      BY DEF Adjust
<1>2. Cardinality(adjustments) + 1 \in Nat
      BY FS_CardinalityType DEF LedgerInv, LedgerTypes
<1>3. clock \in 1..LastTick /\ WeekStart(clock, zone) \in Int BY WeekBounds DEF LedgerInv
<1>4. ASSUME NEW u \in users
      PROVE  made(u) \in Adjustment /\ made(u).week = WeekStart(made(u).created, zone)
  <2>1. u \in Member /\ amount[u] \in Nat OBVIOUS
  <2> QED BY <1>2, <1>3, <2>1 DEF Adjustment
<1>5. IsFiniteSet(new)
  <2> DEFINE f == [u \in users |-> made(u)]
  <2>1. IsFiniteSet(users) BY FS_Subset, UsageLedgerAssumption
  <2>2. f \in Surjection(users, new) BY DEF Surjection
  <2> HIDE DEF f, new
  <2> QED BY <2>1, <2>2, FS_Surjection
<1>6. \A a \in new : a \in Adjustment /\ a.week = WeekStart(a.created, zone) BY <1>4
<1> HIDE DEF new
<1>7. IsFiniteSet(adjustments') BY <1>1, <1>5, FS_Union DEF LedgerInv, LedgerTypes
<1>8. adjustments' \subseteq Adjustment BY <1>1, <1>6 DEF LedgerInv, LedgerTypes
<1>9. \A a \in adjustments' : a.week = WeekStart(a.created, zone)
      BY <1>1, <1>6 DEF LedgerInv, Books
<1> QED BY <1>1, <1>7, <1>8, <1>9, OperationKeeps DEF LedgerInv, LedgerTypes

LEMMA QuotaActionKeeps ==
    ASSUME LedgerInv, ApplyUserQuotaAction PROVE LedgerInv'
<1>1. PICK users \in (SUBSET joined) \ {{}} :
         ClearQuotaPolicies(users) \/ AddQuotaBonus(users) \/ ResetQuotaUsage(users)
      BY DEF ApplyUserQuotaAction
<1>2. users \in SUBSET Member /\ \E u \in Member : u \in users
      BY <1>1 DEF LedgerInv, LedgerTypes
<1>3. CASE ClearQuotaPolicies(users)
      BY <1>1, <1>2, <1>3, PolicyOperationKeeps
<1>4. CASE AddQuotaBonus(users)
  <2>1. [u \in users |-> 1] \in [users -> Nat] OBVIOUS
  <2>2. Adjust([u \in users |-> 1], "bonus") BY <1>4 DEF AddQuotaBonus
  <2> QED BY <1>2, <2>1, <2>2, AdjustKeeps
<1>5. CASE ResetQuotaUsage(users)
  <2> DEFINE charged == {u \in users : EffectiveUsage(u) > 0}
             amount == [u \in charged |-> EffectiveUsage(u)]
  <2>1. Adjust(amount, "usage_reset") BY <1>5 DEF ResetQuotaUsage
  <2>2. \A u \in Member : EffectiveUsage(u) \in Nat
        BY WeeklyQuotaSound DEF WeeklyQuota, QuotaRecord
  <2>3. charged \in SUBSET Member BY <1>2
  <2>4. amount \in [charged -> Nat] BY <2>2, <2>3
  <2> HIDE DEF charged, amount
  <2> QED BY <2>1, <2>3, <2>4, AdjustKeeps
<1> QED BY <1>1, <1>3, <1>4, <1>5

---------------------------------------------------------------------------
(* The Gateway and the clock.                                              *)

LEMMA RefreshKeeps ==
    ASSUME LedgerInv, Refresh PROVE LedgerInv'
<1>1. /\ gate' = [gate EXCEPT !.file = quotaFile, !.at = clock]
         \/ gate' = [gate EXCEPT !.beat = heartbeat]
      /\ UNCHANGED gatewayFrame
      BY DEF Refresh, LoadQuotaSnapshot, LoadQuotaHeartbeat
<1>2. /\ gate' \in [file : [Member -> QuotaRecord], at : Int, beat : Int]
      /\ gate'.file \in {gate.file, quotaFile}
  <2>1. clock \in Int BY WeekBounds DEF LedgerInv
  <2> QED BY <1>1, <2>1 DEF LedgerInv, LedgerTypes
<1>3. LedgerTypes' BY <1>1, <1>2 DEF LedgerInv, LedgerTypes, gatewayFrame, outside, database
<1>4. Underway' BY <1>1, UnderwaySame DEF LedgerInv, gatewayFrame, outside
<1>5. Books' BY <1>1, BooksSame DEF LedgerInv, gatewayFrame, outside, database
<1>6. QuotasSound' BY <1>1, <1>2, QuotasHandedOn DEF gatewayFrame, outside
<1> QED BY <1>3, <1>4, <1>5, <1>6 DEF LedgerInv

LEMMA ServeKeeps ==
    ASSUME LedgerInv, NEW u \in Member, NEW a \in Meter, NEW r \in Request, Serve(u, a, r)
    PROVE  LedgerInv'
<1> DEFINE e == [meter |-> a, request |-> r, user |-> u, at |-> clock]
<1>1. /\ reported' = reported \cup {e}
      /\ usageQueue' = [usageQueue EXCEPT ![a] = Append(@, e)]
      /\ UNCHANGED <<clock, joined, enabledAccounts, operations, database, configured, quotaFile,
                     heartbeat, round, gate, faults>>
      BY DEF Serve
<1>2. e \in Event BY DEF Event, LedgerInv, LedgerTypes
<1>3. reported' \subseteq Event /\ IsFiniteSet(reported') /\ reported \subseteq reported'
  <2>1. IsFiniteSet(reported \cup {e}) BY FS_AddElement DEF LedgerInv, LedgerTypes
  <2> HIDE DEF e
  <2> QED BY <1>1, <1>2, <2>1 DEF LedgerInv, LedgerTypes
<1> HIDE DEF e
<1>4. ASSUME NEW b \in Meter
      PROVE  /\ usageQueue'[b] \in Seq(Event)
             /\ \A n \in 1..Len(usageQueue'[b]) : usageQueue'[b][n] \in reported'
  <2>1. usageQueue[b] \in Seq(Event) BY DEF LedgerInv, LedgerTypes
  <2>2. Len(usageQueue[b]) \in Nat BY <2>1, LenProperties
  <2>3. CASE b # a
        BY <1>1, <1>3, <2>1, <2>3 DEF LedgerInv, LedgerTypes, Underway
  <2>4. CASE b = a
    <3>1. usageQueue'[b] = Append(usageQueue[b], e) BY <1>1, <2>4 DEF LedgerInv, LedgerTypes
    <3>2. /\ Append(usageQueue[b], e) \in Seq(Event)
          /\ Len(Append(usageQueue[b], e)) = Len(usageQueue[b]) + 1
          /\ \A n \in 1..Len(usageQueue[b]) + 1 :
                Append(usageQueue[b], e)[n] = IF n <= Len(usageQueue[b]) THEN usageQueue[b][n] ELSE e
          BY <1>2, <2>1, AppendProperties
    <3>3. e \in reported' BY <1>1
    <3>4. ASSUME NEW n \in 1..Len(usageQueue'[b]) PROVE usageQueue'[b][n] \in reported'
      <4>1. CASE n <= Len(usageQueue[b])
        <5>1. n \in 1..Len(usageQueue[b]) BY <2>2, <3>1, <3>2, <4>1
        <5>2. usageQueue[b][n] \in reported BY <5>1 DEF LedgerInv, Underway
        <5> QED BY <1>3, <3>1, <3>2, <4>1, <5>2
      <4>2. CASE ~ (n <= Len(usageQueue[b])) BY <2>2, <3>1, <3>2, <3>3, <4>2
      <4> QED BY <4>1, <4>2
    <3> QED BY <3>1, <3>2, <3>4
  <2> QED BY <2>3, <2>4
<1>5. usageQueue' \in [Meter -> Seq(Event)]
  <2>1. usageQueue' = [b \in Meter |-> usageQueue'[b]] BY <1>1 DEF LedgerInv, LedgerTypes
  <2> QED BY <1>4, <2>1
<1>6. LedgerTypes' BY <1>1, <1>3, <1>5 DEF LedgerInv, LedgerTypes, database
<1>7. Underway' BY <1>1, <1>3, <1>4 DEF LedgerInv, Underway
<1>8. Books' BY <1>1, <1>3 DEF LedgerInv, Books, Metered, Before, database
<1>9. QuotasSound' BY <1>1, <1>3, QuotasOutlast
<1> QED BY <1>6, <1>7, <1>8, <1>9 DEF LedgerInv

LEMMA TickKeeps ==
    ASSUME LedgerInv, LedgerTick \/ UNCHANGED ledgerVars PROVE LedgerInv'
<1>1. /\ clock' \in 1..LastTick
      /\ UNCHANGED <<joined, enabledAccounts, reported, operations, usageQueue, database, configured,
                     quotaFile, heartbeat, round, gate, faults>>
  <2>1. LastTick \in Nat BY UsageLedgerAssumption
  <2> QED BY <2>1 DEF LedgerTick, ledgerVars, database, LedgerInv, LedgerTypes
<1>2. LedgerTypes' BY <1>1 DEF LedgerInv, LedgerTypes, database
<1>3. Underway' BY <1>1, UnderwaySame DEF LedgerInv
<1>4. Books' BY <1>1, BooksSame DEF LedgerInv, database
<1>5. QuotasSound' BY <1>1, QuotasHandedOn
<1> QED BY <1>2, <1>3, <1>4, <1>5 DEF LedgerInv

(* The invariant of metering and quotas, for every set of users, accounts, *)
(* requests and time zones and every sequence of faults and operations.    *)
THEOREM LedgerInductive == LedgerSpec => []LedgerInv
<1>1. LedgerInit => LedgerInv BY LedgerInitially
<1>2. LedgerInv /\ [LedgerNext]_ledgerVars => LedgerInv'
  <2> SUFFICES ASSUME LedgerInv, [LedgerNext]_ledgerVars PROVE LedgerInv' OBVIOUS
  <2>1. CASE RoundStep
        BY <2>1, StartRoundKeeps, SyncIdentitiesKeeps, EnsureWeekTimezoneKeeps,
           RebuildWeeklyUsageKeeps, ConfigurePersonalQuotaResetKeeps, PopBatchKeeps,
           IngestBatchKeeps, ReadWeeklyQuotasKeeps, PublishQuotaSnapshotKeeps, RoundOverKeeps
        DEF RoundStep
  <2>2. CASE RoundFailure
        BY <2>2, DrainFailsKeeps, QuotaSnapshotFailsKeeps, RoundOverKeeps DEF RoundFailure
  <2>3. CASE QuotaOperation
        BY <2>3, QuotaActionKeeps, PolicyOperationKeeps DEF QuotaOperation
  <2>4. CASE Refresh BY <2>4, RefreshKeeps
  <2>5. CASE LedgerTick \/ UNCHANGED ledgerVars BY <2>5, TickKeeps
  <2>6. CASE \E u \in Member : Join(u) \/ Leave(u) BY <2>6, PolicyOperationKeeps
  <2>7. CASE \E u \in Member, a \in Meter, r \in Request : Serve(u, a, r)
        BY <2>7, ServeKeeps
  <2>8. CASE \E a \in Meter : UpdatePolicy(a) BY <2>8, UpdatePolicyKeeps
  <2> QED BY <2>1, <2>2, <2>3, <2>4, <2>5, <2>6, <2>7, <2>8 DEF LedgerNext
<1> QED BY <1>1, <1>2, PTL DEF LedgerSpec

(* Ingest, duplicates, rebuilds and changes of the zone agree: the         *)
(* materialised usage is that of the stored events.                        *)
THEOREM UsageAlwaysAgrees == LedgerSpec => []UsageAgrees
BY LedgerInductive, LedgerImplies, PTL

(* The Gateway refuses nobody who did not make the requests.               *)
THEOREM RefusalsAreJustified == LedgerSpec => []RefusalJustified
BY LedgerInductive, LedgerImplies, PTL

(***************************************************************************)
(* The refresh of the accounts' own quotas.                                *)
(***************************************************************************)
Auth == [owner : Int, blocked : BOOLEAN, since : Nat]
Entry == [owner : Int, period : Nat, allowed : BOOLEAN]
WorkerType ==
    [pc : {"idle", "fetch", "recover", "recheck", "post", "complete"}, id : Nat, at : Nat,
     error : BOOLEAN, left : SUBSET Pool, accounts : [Pool -> Entry], auth : Auth,
     on : Pool \cup {"none"}]
Official == [period : 1..LastPeriod, exhausted : BOOLEAN, credits : Nat]
RequestType ==
    [id : Nat, requestedAt : Nat, started : Nat, completed : Nat, error : BOOLEAN]
StateType == [at : Nat, error : BOOLEAN, accounts : [Pool -> Entry]]
ResetType ==
    [pc : {"idle", "fetch", "consume"}, on : Pool \cup {"none"}, period : 0..LastPeriod]

QuotaTypes ==
    /\ second \in Nat /\ enabled \subseteq Pool
    /\ official \in [Pool -> Official]
    /\ native \in [Pool -> Auth]
    /\ request \in RequestType
    /\ quotaState \in StateType
    /\ worker \in WorkerType
    /\ resetter \in [Operator -> ResetType]
    /\ fence \in {"free", "worker"} \cup Operator
    /\ spent \in [Pool -> [0..LastPeriod -> Nat]]

(* Whoever works under the fence holds it. *)
Fenced ==
    /\ \A o \in Operator : resetter[o].pc # "idle" => fence = o /\ resetter[o].on \in Pool
    /\ worker.pc = "post" => fence = "worker"

(* A credit that was consumed ended the period it was meant for, and a     *)
(* reset that is about to consume one has seen a period nobody paid for.   *)
Paid ==
    /\ \A a \in Pool, p \in 1..LastPeriod - 1 :
           spent[a][p] = 0 \/ (spent[a][p] = 1 /\ p < official[a].period)
    /\ \A o \in Operator : resetter[o].pc = "consume" =>
           LET a == resetter[o].on
               p == resetter[o].period
           IN  p <= official[a].period /\ (p \in 1..LastPeriod - 1 => spent[a][p] = 0)

(* Rounds follow each other, and a round that has captured the pending     *)
(* request began after it.                                                 *)
Rounds ==
    /\ request.completed <= request.id /\ worker.id <= request.id
    /\ worker.at <= second /\ quotaState.at <= second /\ request.requestedAt <= second
    /\ worker.pc = "fetch" => quotaState.at <= worker.at
    /\ worker.pc \in {"fetch", "recover", "recheck", "post"} => ~worker.error
    /\ worker.pc \in {"recover", "recheck", "post"} => quotaState.at = worker.at
    /\ worker.pc = "complete" /\ ~worker.error => quotaState.at = worker.at
    /\ worker.pc # "idle" /\ worker.id > 0 /\ worker.id = request.id =>
           request.requestedAt <= worker.at

(* A credential that is about to be cleared is the queried one, and its    *)
(* block is older than the official period.                                *)
Superseded ==
    /\ \A a \in Pool : worker.accounts[a].period <= official[a].period
    /\ worker.pc \in {"recheck", "post"} =>
           worker.on \in Pool /\ Recoverable(worker.auth, worker.accounts[worker.on])
    /\ worker.pc = "post" =>
           worker.on \in enabled /\ native[worker.on].owner = worker.auth.owner

QuotaInv == QuotaTypes /\ Fenced /\ Paid /\ Rounds /\ CompletedRequestIsFresh /\ Superseded

-----------------------------------------------------------------------------
(* A worker at rest is well typed. *)
LEMMA RestingType ==
    /\ Resting \in WorkerType /\ Resting.pc = "idle" /\ Resting.id = 0 /\ Resting.at = 0
    /\ Resting.error = FALSE /\ \A a \in Pool : Resting.accounts[a].period = 0
BY DEF Resting, WorkerType, Unfetched, NoAuth, Entry, Auth

(* The numbers that are compared are numbers. *)
LEMMA NumberTypes ==
    ASSUME QuotaInv
    PROVE  /\ request.id \in Nat /\ request.requestedAt \in Nat /\ request.completed \in Nat
           /\ worker.id \in Nat /\ worker.at \in Nat /\ quotaState.at \in Nat /\ second \in Nat
           /\ LastPeriod \in Nat \ {0} /\ request \in RequestType /\ worker \in WorkerType
           /\ quotaState \in StateType
           /\ \A a \in Pool : /\ official[a] \in Official /\ official[a].period \in 1..LastPeriod
                               /\ native[a] \in Auth /\ worker.accounts[a] \in Entry
                               /\ worker.accounts[a].period \in Nat
<1>1. QuotaTypes
  BY DEF QuotaInv
<1>2. request.id \in Nat /\ request.requestedAt \in Nat /\ request.completed \in Nat
  BY <1>1 DEF QuotaTypes, RequestType
<1>3. worker.id \in Nat /\ worker.at \in Nat /\ worker.accounts \in [Pool -> Entry]
  BY <1>1 DEF QuotaTypes, WorkerType
<1>4. quotaState.at \in Nat
  BY <1>1 DEF QuotaTypes, StateType
<1>5. \A a \in Pool : official[a] \in Official /\ official[a].period \in 1..LastPeriod
  BY <1>1 DEF QuotaTypes, Official
<1>6. \A a \in Pool : worker.accounts[a] \in Entry /\ worker.accounts[a].period \in Nat
  BY <1>3 DEF Entry
<1> QED
  BY <1>1, <1>2, <1>3, <1>4, <1>5, <1>6, QuotaRefreshAssumption DEF QuotaTypes

(* What a reset does to its own record. *)
LEMMA ResetGivenUp ==
    ASSUME NEW r \in ResetType
    PROVE  /\ [r EXCEPT !.pc = "idle"] \in ResetType
           /\ [r EXCEPT !.pc = "idle"].pc = "idle"
BY DEF ResetType

LEMMA ResetGoesOn ==
    ASSUME NEW r \in ResetType, NEW p \in 0..LastPeriod
    PROVE  LET c == [r EXCEPT !.pc = "consume", !.period = p]
           IN  c \in ResetType /\ c.pc = "consume" /\ c.on = r.on /\ c.period = p
BY DEF ResetType

(* What the upstream does to the record of an account. *)
LEMMA RenewedType ==
    ASSUME NEW r \in Official
    PROVE  /\ Renewed(r) \in Official /\ Renewed(r).credits = r.credits
           /\ Renewed(r).period = IF r.period < LastPeriod THEN r.period + 1 ELSE r.period
<1> DEFINE q == IF r.period < LastPeriod THEN r.period + 1 ELSE r.period
<1>1. q \in 1..LastPeriod
  BY QuotaRefreshAssumption DEF Official
<1>2. Renewed(r) = [r EXCEPT !.period = q, !.exhausted = FALSE]
  BY DEF Renewed
<1> HIDE DEF q
<1>3. Renewed(r) \in Official /\ Renewed(r).credits = r.credits /\ Renewed(r).period = q
  BY <1>1, <1>2 DEF Official
<1> QED
  BY <1>3 DEF q

LEMMA CreditTaken ==
    ASSUME NEW r \in Official, r.credits > 0
    PROVE  LET n == [Renewed(r) EXCEPT !.credits = r.credits - 1]
           IN  n \in Official /\ n.period = Renewed(r).period
<1> DEFINE c == r.credits - 1
<1>1. c \in Nat
  BY DEF Official
<1> HIDE DEF c
<1>2. \A s \in Official : LET n == [s EXCEPT !.credits = c]
                         IN  n \in Official /\ n.period = s.period
  BY <1>1 DEF Official
<1> QED
  BY <1>2, RenewedType DEF c

(* One more credit is counted. *)
LEMMA CreditCounted ==
    ASSUME NEW f \in [Pool -> [0..LastPeriod -> Nat]], NEW b \in Pool, NEW p \in 0..LastPeriod
    PROVE  LET g == [f EXCEPT ![b][p] = @ + 1]
           IN  /\ g \in [Pool -> [0..LastPeriod -> Nat]] /\ g[b][p] = f[b][p] + 1
               /\ \A r \in 0..LastPeriod : r # p => g[b][r] = f[b][r]
               /\ \A d \in Pool \ {b} : g[d] = f[d]
<1> DEFINE h == f[b]
<1>1. h \in [0..LastPeriod -> Nat]
  OBVIOUS
<1> HIDE DEF h
<1> DEFINE k == h[p] + 1
<1>2. k \in Nat
  BY <1>1
<1> HIDE DEF k
<1> DEFINE t == [h EXCEPT ![p] = k]
<1>3. /\ t \in [0..LastPeriod -> Nat] /\ t[p] = k
      /\ \A r \in 0..LastPeriod : r # p => t[r] = h[r]
  BY <1>1, <1>2
<1> HIDE DEF t
<1>4. /\ [f EXCEPT ![b] = t] \in [Pool -> [0..LastPeriod -> Nat]] /\ [f EXCEPT ![b] = t][b] = t
      /\ \A d \in Pool \ {b} : [f EXCEPT ![b] = t][d] = f[d]
  BY <1>3
<1>5. [f EXCEPT ![b][p] = @ + 1] = [f EXCEPT ![b] = t]
  BY DEF t, k, h
<1>6. /\ t[p] = f[b][p] + 1
      /\ \A r \in 0..LastPeriod : r # p => t[r] = f[b][r]
  BY <1>3 DEF k, h
<1> QED
  BY <1>4, <1>5, <1>6

-----------------------------------------------------------------------------
(* The requests and the rounds. *)

(* Admin asks for a refresh. *)
LEMMA RequestKeeps == ASSUME QuotaInv, RequestRefresh PROVE QuotaInv'
<1>1. /\ UNCHANGED <<second, enabled, official, native, quotaState, worker, resetter, fence, spent>>
      /\ request' = [request EXCEPT !.id = @ + 1, !.requestedAt = second, !.error = FALSE]
      /\ ~Pending
  BY DEF RequestRefresh, outsideQuota
<1>2. /\ request' \in RequestType
      /\ request'.id = request.id + 1 /\ request'.requestedAt = second
      /\ request'.completed = request.completed /\ request.completed = request.id
      /\ request'.error = FALSE
  <2>1. request \in RequestType /\ second \in Nat /\ request.id \in Nat
    BY NumberTypes
  <2>2. request.id + 1 \in Nat /\ request.completed = request.id
    BY <1>1, <2>1 DEF Pending
  <2> QED
    BY <1>1, <2>1, <2>2 DEF RequestType
<1>3. QuotaTypes' /\ Fenced' /\ Paid' /\ Superseded'
  BY <1>1, <1>2 DEF QuotaInv, QuotaTypes, Fenced, Paid, Superseded, Recoverable
<1>4. Rounds' /\ CompletedRequestIsFresh'
  BY <1>1, <1>2, NumberTypes DEF QuotaInv, Rounds, CompletedRequestIsFresh, Pending
<1> QED
  BY <1>3, <1>4 DEF QuotaInv

(* A round begins. *)
LEMMA StartKeeps == ASSUME QuotaInv, StartRefreshRound PROVE QuotaInv'
<1>1. /\ UNCHANGED <<second, enabled, official, native, quotaState, resetter, fence, spent>>
      /\ worker' = [Resting EXCEPT !.pc = "fetch", !.at = second, !.left = Pool,
                                   !.id = IF Pending THEN request.id ELSE 0]
      /\ request' = IF Pending THEN [request EXCEPT !.started = request.id, !.error = FALSE]
                    ELSE request
  BY DEF StartRefreshRound, outsideQuota
<1>2. /\ request' \in RequestType
      /\ request'.id = request.id /\ request'.requestedAt = request.requestedAt
      /\ request'.completed = request.completed /\ (~Pending => request' = request)
  <2>1. request \in RequestType
    BY NumberTypes
  <2> QED
    BY <1>1, <2>1 DEF RequestType
<1>3. /\ worker' \in WorkerType /\ worker'.pc = "fetch" /\ worker'.at = second
      /\ worker'.id \in {0, request.id} /\ ~worker'.error
      /\ \A a \in Pool : worker'.accounts[a].period = 0
  <2> DEFINE captured == IF Pending THEN request.id ELSE 0
  <2>1. captured \in Nat /\ captured \in {0, request.id} /\ second \in Nat
    BY NumberTypes
  <2>2. worker' = [Resting EXCEPT !.pc = "fetch", !.at = second, !.left = Pool, !.id = captured]
    BY <1>1
  <2> HIDE DEF captured
  <2>3. Resting.error = FALSE /\ \A a \in Pool : Resting.accounts[a].period = 0
    BY RestingType
  <2>4. Resting \in WorkerType
    BY RestingType
  <2> QED
    BY <2>1, <2>2, <2>3, <2>4 DEF WorkerType
<1>4. QuotaTypes'
  BY <1>1, <1>2, <1>3 DEF QuotaInv, QuotaTypes
<1>5. Fenced' /\ Paid'
  BY <1>1, <1>3 DEF QuotaInv, Fenced, Paid
<1>7. Superseded'
  <2>1. \A a \in Pool : worker'.accounts[a].period <= official'[a].period
    BY <1>1, <1>3, NumberTypes
  <2> QED
    BY <1>3, <2>1 DEF Superseded
<1>6. Rounds' /\ CompletedRequestIsFresh'
  BY <1>1, <1>2, <1>3, NumberTypes DEF QuotaInv, Rounds, CompletedRequestIsFresh, Pending
<1> QED
  BY <1>4, <1>5, <1>6, <1>7 DEF QuotaInv

(* One account is fetched, or its status. *)
LEMMA FetchKeeps == ASSUME QuotaInv, NEW a \in Pool, FetchAccount(a) PROVE QuotaInv'
<1>1. /\ UNCHANGED <<second, enabled, official, native, request, quotaState, resetter, fence, spent>>
      /\ worker.pc = "fetch"
      /\ \/ worker' = [worker EXCEPT !.left = @ \ {a}, !.accounts[a] =
                 [owner |-> native[a].owner, period |-> official[a].period,
                  allowed |-> ~official[a].exhausted]]
         \/ worker' = [worker EXCEPT !.left = @ \ {a}]
  BY DEF FetchAccount, outsideQuota
<1>2. [owner |-> native[a].owner, period |-> official[a].period,
       allowed |-> ~official[a].exhausted] \in Entry
  BY NumberTypes DEF Auth, Entry, Official
<1>3. /\ worker' \in WorkerType /\ worker'.pc = "fetch" /\ worker'.at = worker.at
      /\ worker'.id = worker.id /\ worker'.error = worker.error
      /\ \A b \in Pool : worker'.accounts[b].period \in {worker.accounts[b].period, official[b].period}
  <2>1. CASE worker' = [worker EXCEPT !.left = @ \ {a}]
    BY <1>1, <2>1, NumberTypes DEF WorkerType
  <2>2. CASE worker' = [worker EXCEPT !.left = @ \ {a}, !.accounts[a] =
                 [owner |-> native[a].owner, period |-> official[a].period,
                  allowed |-> ~official[a].exhausted]]
    <3> DEFINE e == [owner |-> native[a].owner, period |-> official[a].period,
                     allowed |-> ~official[a].exhausted]
    <3>1. e.period = official[a].period /\ e \in Entry
      BY <1>2
    <3> HIDE DEF e
    <3>2. worker.accounts \in [Pool -> Entry] /\ worker.left \ {a} \in SUBSET Pool
      BY NumberTypes DEF WorkerType
    <3>3. /\ [worker.accounts EXCEPT ![a] = e] \in [Pool -> Entry]
          /\ \A b \in Pool : [worker.accounts EXCEPT ![a] = e][b].period
                               \in {worker.accounts[b].period, official[b].period}
      BY <3>1, <3>2
    <3> DEFINE all == [worker.accounts EXCEPT ![a] = e]
    <3>4. worker' = [worker EXCEPT !.left = @ \ {a}, !.accounts = all]
      BY <2>2 DEF e
    <3>5. all \in [Pool -> Entry] /\ \A b \in Pool : all[b].period \in {worker.accounts[b].period, official[b].period}
      BY <3>3
    <3> HIDE DEF all
    <3> QED
      BY <1>1, <3>2, <3>4, <3>5, NumberTypes DEF WorkerType
  <2> QED
    BY <1>1, <2>1, <2>2
<1>4. QuotaTypes' /\ Fenced' /\ Paid'
  BY <1>1, <1>3 DEF QuotaInv, QuotaTypes, Fenced, Paid
<1>5. Superseded'
  BY <1>1, <1>3, NumberTypes DEF QuotaInv, Superseded
<1>6. Rounds' /\ CompletedRequestIsFresh'
  BY <1>1, <1>3 DEF QuotaInv, Rounds, CompletedRequestIsFresh, Pending
<1> QED
  BY <1>4, <1>5, <1>6 DEF QuotaInv

(* The snapshot or the error of the round is written. *)
LEMMA WriteKeeps == ASSUME QuotaInv, WriteQuotaState \/ RefreshFails PROVE QuotaInv'
<1>1. /\ UNCHANGED <<second, enabled, official, native, request, resetter, fence, spent>>
      /\ worker.pc = "fetch"
      /\ \/ /\ quotaState' = [at |-> worker.at, error |-> FALSE, accounts |-> worker.accounts]
            /\ worker' = [worker EXCEPT !.pc = "recover", !.left = Pool]
         \/ /\ quotaState' = [quotaState EXCEPT !.error = TRUE]
            /\ worker' = [worker EXCEPT !.pc = "complete", !.error = TRUE]
  BY DEF WriteQuotaState, RefreshFails, outsideQuota
<1>2. /\ worker' \in WorkerType /\ worker'.at = worker.at /\ worker'.id = worker.id
      /\ worker'.accounts = worker.accounts
      /\ quotaState' \in StateType
      /\ \/ worker'.pc = "recover" /\ worker'.error = worker.error /\ quotaState'.at = worker.at
         \/ worker'.pc = "complete" /\ worker'.error = TRUE /\ quotaState'.at = quotaState.at
  <2>1. worker.accounts \in [Pool -> Entry]
    BY NumberTypes DEF WorkerType
  <2>2. CASE /\ quotaState' = [at |-> worker.at, error |-> FALSE, accounts |-> worker.accounts]
             /\ worker' = [worker EXCEPT !.pc = "recover", !.left = Pool]
    <3>1. quotaState' \in StateType /\ quotaState'.at = worker.at
      BY <2>1, <2>2, NumberTypes DEF StateType
    <3>2. /\ worker' \in WorkerType /\ worker'.at = worker.at /\ worker'.id = worker.id
          /\ worker'.accounts = worker.accounts
          /\ worker'.pc = "recover" /\ worker'.error = worker.error
      BY <2>2, NumberTypes DEF WorkerType
    <3> QED
      BY <3>1, <3>2
  <2>3. CASE /\ quotaState' = [quotaState EXCEPT !.error = TRUE]
             /\ worker' = [worker EXCEPT !.pc = "complete", !.error = TRUE]
    <3>1. quotaState' \in StateType /\ quotaState'.at = quotaState.at
      BY <2>3, NumberTypes DEF StateType
    <3>2. /\ worker' \in WorkerType /\ worker'.at = worker.at /\ worker'.id = worker.id
          /\ worker'.accounts = worker.accounts
          /\ worker'.pc = "complete" /\ worker'.error = TRUE
      BY <2>3, NumberTypes DEF WorkerType
    <3> QED
      BY <3>1, <3>2
  <2> QED
    BY <1>1, <2>2, <2>3
<1>3. QuotaTypes' /\ Fenced' /\ Paid'
  BY <1>1, <1>2 DEF QuotaInv, QuotaTypes, Fenced, Paid
<1>4. Superseded'
  BY <1>1, <1>2 DEF QuotaInv, Superseded
<1>5. Rounds' /\ CompletedRequestIsFresh'
  BY <1>1, <1>2, NumberTypes DEF QuotaInv, Rounds, CompletedRequestIsFresh, Pending
<1> QED
  BY <1>3, <1>4, <1>5 DEF QuotaInv

(* The captured request is completed. *)
LEMMA CompleteKeeps == ASSUME QuotaInv, MarkRefreshCompleted PROVE QuotaInv'
<1>1. /\ UNCHANGED <<second, enabled, official, native, quotaState, resetter, fence, spent>>
      /\ worker.pc = "complete" /\ worker' = Resting
      /\ request' = IF worker.id = 0 THEN request
                    ELSE [request EXCEPT !.completed = worker.id, !.error = worker.error]
  BY DEF MarkRefreshCompleted, outsideQuota
<1>2. /\ request' \in RequestType
      /\ request'.id = request.id /\ request'.requestedAt = request.requestedAt
      /\ \/ request' = request
         \/ worker.id > 0 /\ request'.completed = worker.id /\ request'.error = worker.error
  <2>1. worker.error \in BOOLEAN
    BY NumberTypes DEF WorkerType
  <2>2. CASE worker.id = 0
    BY <1>1, <2>2, NumberTypes
  <2>3. CASE worker.id # 0
    <3>1. request \in RequestType /\ worker.id \in Nat
      BY NumberTypes
    <3> QED
      <4> DEFINE k == worker.id
                 e == worker.error
      <4>1. request' = [request EXCEPT !.completed = k, !.error = e]
        BY <1>1, <2>3
      <4>2. k \in Nat /\ k > 0 /\ e \in BOOLEAN
        BY <2>1, <2>3, <3>1
      <4> HIDE DEF k, e
      <4>3. /\ request' \in RequestType /\ request'.id = request.id
            /\ request'.requestedAt = request.requestedAt
            /\ request'.completed = k /\ request'.error = e
        BY <3>1, <4>1, <4>2 DEF RequestType
      <4> QED
        BY <4>2, <4>3 DEF k, e
  <2> QED
    BY <2>2, <2>3
<1>3. QuotaTypes' /\ Fenced' /\ Paid' /\ Superseded'
  BY <1>1, <1>2, RestingType, NumberTypes DEF QuotaInv, QuotaTypes, Fenced, Paid, Superseded
<1>4. Rounds' /\ CompletedRequestIsFresh'
  BY <1>1, <1>2, RestingType, NumberTypes
  DEF QuotaInv, Rounds, CompletedRequestIsFresh, Pending
<1> QED
  BY <1>3, <1>4 DEF QuotaInv

(* The worker stops and gives a fence it holds back. *)
LEMMA StopKeeps == ASSUME QuotaInv, WorkerStops PROVE QuotaInv'
<1>1. /\ UNCHANGED <<second, enabled, official, native, request, quotaState, resetter, spent>>
      /\ worker' = Resting /\ fence' = IF fence = "worker" THEN "free" ELSE fence
  BY DEF WorkerStops, outsideQuota
<1>2. worker' \in WorkerType /\ worker'.pc = "idle"
  BY <1>1, RestingType
<1>3. QuotaTypes'
  BY <1>1, <1>2 DEF QuotaInv, QuotaTypes
<1>5. Fenced' /\ Paid'
  BY <1>1, <1>2, QuotaRefreshAssumption DEF QuotaInv, Fenced, Paid
<1>6. Superseded'
  <2>1. \A a \in Pool : worker'.accounts[a].period <= official'[a].period
    BY <1>1, RestingType, NumberTypes
  <2> QED
    BY <1>2, <2>1 DEF Superseded
<1>4. Rounds' /\ CompletedRequestIsFresh'
  BY <1>1, RestingType, NumberTypes DEF QuotaInv, Rounds, CompletedRequestIsFresh, Pending
<1> QED
  BY <1>3, <1>4, <1>5, <1>6 DEF QuotaInv

-----------------------------------------------------------------------------
(* The recovery of cooldowns: what each of its steps does to the worker.   *)
LEMMA RecoverKeeps ==
    ASSUME QuotaInv, RecheckInsideFence \/ RecoveryDone \/ \E a \in Pool : ReadNativeAuth(a)
    PROVE  QuotaInv'
<1>1. /\ UNCHANGED <<second, enabled, official, native, request, quotaState, resetter, spent>>
      /\ worker.pc \in {"recover", "recheck"}
  BY DEF RecheckInsideFence, RecoveryDone, ReadNativeAuth, outsideQuota
<1>2. /\ worker' \in WorkerType /\ worker'.at = worker.at /\ worker'.id = worker.id
      /\ worker'.error = worker.error /\ worker'.accounts = worker.accounts
      /\ worker'.pc \in {"recover", "recheck", "post", "complete"}
      /\ worker'.pc \in {"recheck", "post"} =>
             worker'.on \in Pool /\ Recoverable(worker'.auth, worker.accounts[worker'.on])
      /\ worker'.pc = "post" =>
             /\ worker'.on \in enabled /\ native[worker'.on].owner = worker'.auth.owner
             /\ fence = "free" /\ fence' = "worker"
      /\ worker'.pc # "post" => fence' = fence
  <2>1. CASE \E a \in Pool : ReadNativeAuth(a)
    <3>1. PICK a \in Pool : ReadNativeAuth(a)
      BY <2>1
    <3>2. CASE worker' = [worker EXCEPT !.left = @ \ {a}]
      BY <3>1, <3>2 DEF ReadNativeAuth, QuotaInv, QuotaTypes, WorkerType
    <3>3. CASE /\ worker' = [worker EXCEPT !.pc = "recheck", !.on = a, !.auth = native[a]]
               /\ Recoverable(native[a], worker.accounts[a])
      <4>1. native[a] \in Auth /\ worker \in WorkerType
        BY DEF QuotaInv, QuotaTypes
      <4>2. /\ worker' \in WorkerType /\ worker'.pc = "recheck" /\ worker'.on = a
            /\ worker'.auth = native[a] /\ worker'.at = worker.at /\ worker'.id = worker.id
            /\ worker'.error = worker.error /\ worker'.accounts = worker.accounts
        BY <3>3, <4>1 DEF WorkerType
      <4> QED
        BY <3>1, <3>3, <4>2 DEF ReadNativeAuth
    <3> QED
      BY <3>1, <3>2, <3>3 DEF ReadNativeAuth
  <2>2. CASE RecheckInsideFence
    <3>1. /\ worker.on \in Pool /\ Recoverable(worker.auth, worker.accounts[worker.on])
          /\ worker \in WorkerType
      BY <2>2 DEF RecheckInsideFence, QuotaInv, QuotaTypes, Superseded
    <3>2. CASE /\ worker.on \in enabled /\ native[worker.on] = worker.auth
               /\ fence' = "worker" /\ worker' = [worker EXCEPT !.pc = "post"]
      <4>1. /\ worker' \in WorkerType /\ worker'.pc = "post" /\ worker'.on = worker.on
            /\ worker'.auth = worker.auth /\ worker'.at = worker.at /\ worker'.id = worker.id
            /\ worker'.error = worker.error /\ worker'.accounts = worker.accounts
        BY <3>1, <3>2 DEF WorkerType
      <4> QED
        BY <2>2, <3>1, <3>2, <4>1 DEF RecheckInsideFence
    <3>3. CASE /\ fence' = "free"
               /\ worker' = [worker EXCEPT !.pc = "recover", !.left = @ \ {worker.on}]
      <4>1. /\ worker' \in WorkerType /\ worker'.pc = "recover"
            /\ worker'.at = worker.at /\ worker'.id = worker.id
            /\ worker'.error = worker.error /\ worker'.accounts = worker.accounts
        BY <3>1, <3>3 DEF WorkerType
      <4> QED
        BY <2>2, <3>3, <4>1 DEF RecheckInsideFence
    <3> QED
      BY <2>2, <3>2, <3>3 DEF RecheckInsideFence
  <2>3. CASE RecoveryDone
    BY <2>3 DEF RecoveryDone, QuotaInv, QuotaTypes, WorkerType
  <2> QED
    BY <2>1, <2>2, <2>3
<1>3. QuotaTypes'
  BY <1>1, <1>2 DEF QuotaInv, QuotaTypes
<1>4. Fenced'
  BY <1>1, <1>2, QuotaRefreshAssumption DEF QuotaInv, Fenced
<1>5. Paid'
  BY <1>1 DEF QuotaInv, Paid
<1>6. Superseded'
  BY <1>1, <1>2 DEF QuotaInv, Superseded
<1>7. Rounds' /\ CompletedRequestIsFresh'
  BY <1>1, <1>2 DEF QuotaInv, Rounds, CompletedRequestIsFresh, Pending
<1> QED
  BY <1>3, <1>4, <1>5, <1>6, <1>7 DEF QuotaInv

(* The POST that clears the cooldowns. *)
LEMMA PostKeeps == ASSUME QuotaInv, PostNativeReset PROVE QuotaInv'
<1>1. /\ UNCHANGED <<second, enabled, official, request, quotaState, resetter, spent>>
      /\ worker.pc = "post" /\ fence' = "free"
      /\ native' = [native EXCEPT ![worker.on].blocked = FALSE]
      /\ worker' = [worker EXCEPT !.pc = "recover", !.left = @ \ {worker.on}]
  BY DEF PostNativeReset
<1>2. /\ worker' \in WorkerType /\ worker'.pc = "recover" /\ worker'.at = worker.at
      /\ worker'.id = worker.id /\ worker'.error = worker.error
      /\ worker'.accounts = worker.accounts
  BY <1>1 DEF QuotaInv, QuotaTypes, WorkerType
<1>3. native' \in [Pool -> Auth]
  BY <1>1 DEF QuotaInv, QuotaTypes, Auth
<1>4. \A o \in Operator : resetter[o].pc = "idle"
  BY <1>1, QuotaRefreshAssumption DEF QuotaInv, Fenced
<1>5. QuotaTypes' /\ Fenced'
  BY <1>1, <1>2, <1>3, <1>4 DEF QuotaInv, QuotaTypes, Fenced
<1>6. Paid' /\ Superseded'
  BY <1>1, <1>2 DEF QuotaInv, Paid, Superseded
<1>7. Rounds' /\ CompletedRequestIsFresh'
  BY <1>1, <1>2 DEF QuotaInv, Rounds, CompletedRequestIsFresh, Pending
<1> QED
  BY <1>5, <1>6, <1>7 DEF QuotaInv

-----------------------------------------------------------------------------
(* A reset by a credit. *)

(* Nothing of a round depends on the resets. *)
LEMMA RoundsApart ==
    ASSUME QuotaInv, UNCHANGED <<second, request, quotaState, worker>>
    PROVE  Rounds' /\ CompletedRequestIsFresh'
BY DEF QuotaInv, Rounds, CompletedRequestIsFresh, Pending

(* Beginning, reading and failing only move the fence and the request.     *)
LEMMA ResetKeeps ==
    ASSUME QuotaInv, NEW o \in Operator,
           FetchForReset(o) \/ ResetFails(o) \/ \E a \in Pool : BeginReset(o, a)
    PROVE  QuotaInv'
<1>1. UNCHANGED <<second, enabled, native, request, quotaState, worker, official, spent>>
  BY DEF FetchForReset, ResetFails, BeginReset, resetFrame
<1>2. /\ resetter' \in [Operator -> ResetType]
      /\ \A q \in Operator \ {o} : resetter'[q] = resetter[q]
      /\ resetter'[o].pc # "idle" => fence' = o /\ resetter'[o].on \in Pool
      /\ resetter'[o].pc = "consume" =>
             /\ resetter[o].pc = "fetch" /\ resetter'[o].on = resetter[o].on
             /\ resetter'[o].period = official[resetter[o].on].period
      /\ fence' \in {"free", o} /\ fence \in {"free", o}
  <2>1. CASE \E a \in Pool : BeginReset(o, a)
    <3>1. PICK a \in Pool : BeginReset(o, a)
      BY <2>1
    <3>2. /\ resetter' = [resetter EXCEPT ![o] = [pc |-> "fetch", on |-> a, period |-> 0]]
          /\ fence = "free" /\ fence' = o
      BY <3>1 DEF BeginReset
    <3>3. [pc |-> "fetch", on |-> a, period |-> 0] \in ResetType
      BY QuotaRefreshAssumption DEF ResetType
    <3> QED
      BY <3>2, <3>3 DEF QuotaInv, QuotaTypes
  <2>2. CASE ResetFails(o)
    <3>1. resetter' = [resetter EXCEPT ![o].pc = "idle"] /\ fence' = "free" /\ fence = o
      BY <2>2 DEF ResetFails, QuotaInv, Fenced
    <3>2. resetter \in [Operator -> ResetType] /\ resetter[o] \in ResetType
      BY DEF QuotaInv, QuotaTypes
    <3>3. /\ resetter' \in [Operator -> ResetType] /\ resetter'[o].pc = "idle"
          /\ \A q \in Operator \ {o} : resetter'[q] = resetter[q]
      BY <3>1, <3>2, ResetGivenUp
    <3> QED
      BY <3>1, <3>3
  <2>3. CASE FetchForReset(o)
    <3>0. resetter \in [Operator -> ResetType] /\ resetter[o] \in ResetType
      BY DEF QuotaInv, QuotaTypes
    <3>1. resetter[o].pc = "fetch" /\ fence = o /\ resetter[o].on \in Pool
      BY <2>3 DEF FetchForReset, QuotaInv, Fenced
    <3>2. CASE resetter' = [resetter EXCEPT ![o].pc = "idle"] /\ fence' = "free"
      <4>1. /\ resetter' \in [Operator -> ResetType] /\ resetter'[o].pc = "idle"
            /\ \A q \in Operator \ {o} : resetter'[q] = resetter[q]
        BY <3>0, <3>2, ResetGivenUp
      <4> QED
        BY <3>1, <3>2, <4>1
    <3>3. CASE /\ resetter' = [resetter EXCEPT ![o] =
                      [@ EXCEPT !.pc = "consume", !.period = official[resetter[o].on].period]]
               /\ UNCHANGED fence
      <4>1. official[resetter[o].on].period \in 0..LastPeriod
        BY <3>1, NumberTypes
      <4> DEFINE c == [resetter[o] EXCEPT !.pc = "consume",
                                          !.period = official[resetter[o].on].period]
      <4>2. /\ c \in ResetType /\ c.pc = "consume" /\ c.on = resetter[o].on
            /\ c.period = official[resetter[o].on].period
        BY <3>0, <4>1, ResetGoesOn
      <4>3. resetter' = [resetter EXCEPT ![o] = c]
        BY <3>3
      <4> HIDE DEF c
      <4>4. /\ resetter' \in [Operator -> ResetType] /\ resetter'[o] = c
            /\ \A q \in Operator \ {o} : resetter'[q] = resetter[q]
        BY <3>0, <4>2, <4>3
      <4> QED
        BY <3>1, <3>3, <4>2, <4>4
    <3> QED
      BY <2>3, <3>2, <3>3 DEF FetchForReset
  <2> QED
    BY <2>1, <2>2, <2>3
<1>3. QuotaTypes'
  BY <1>1, <1>2 DEF QuotaInv, QuotaTypes
<1>4. Fenced'
  BY <1>1, <1>2, QuotaRefreshAssumption DEF QuotaInv, Fenced
<1>5. Paid'
  <2>1. ASSUME resetter'[o].pc = "consume"
        PROVE  LET a == resetter'[o].on
                   p == resetter'[o].period
               IN  p <= official[a].period /\ (p \in 1..LastPeriod - 1 => spent[a][p] = 0)
    <3>1. resetter[o].on \in Pool
      BY <1>2, <2>1 DEF QuotaInv, Fenced
    <3> QED
      BY <1>2, <2>1, <3>1, NumberTypes DEF QuotaInv, Paid
  <2> QED
    BY <1>1, <1>2, <2>1 DEF QuotaInv, Paid
<1>6. Superseded'
  BY <1>1 DEF QuotaInv, Superseded
<1> QED
  BY <1>1, <1>3, <1>4, <1>5, <1>6, RoundsApart DEF QuotaInv

(* The credit is consumed: the period ends, and nobody else resets.        *)
LEMMA ConsumeKeeps == ASSUME QuotaInv, NEW o \in Operator, ConsumeResetCredit(o) PROVE QuotaInv'
<1> DEFINE a == resetter[o].on
           p == resetter[o].period
<1>1. /\ UNCHANGED <<second, enabled, native, request, quotaState, worker>>
      /\ resetter[o].pc = "consume" /\ resetter' = [resetter EXCEPT ![o].pc = "idle"]
      /\ fence' = "free"
  BY DEF ConsumeResetCredit, resetFrame
<1>2. fence = o /\ a \in Pool /\ p \in 0..LastPeriod
  BY <1>1 DEF QuotaInv, QuotaTypes, ResetType, Fenced
<1>3. resetter' \in [Operator -> ResetType] /\ \A q \in Operator : resetter'[q].pc = "idle"
  <2>1. resetter \in [Operator -> ResetType]
    BY DEF QuotaInv, QuotaTypes
  <2>2. \A q \in Operator \ {o} : resetter[q].pc = "idle"
    BY <1>2 DEF QuotaInv, Fenced
  <2> QED
    BY <1>1, <2>1, <2>2, ResetGivenUp
<1>4. Fenced'
  BY <1>1, <1>2, <1>3, QuotaRefreshAssumption DEF QuotaInv, Fenced
<1>5. CASE UNCHANGED <<official, spent>>
  <2>1. QuotaTypes' /\ Paid' /\ Superseded'
    BY <1>1, <1>3, <1>5 DEF QuotaInv, QuotaTypes, Paid, Superseded
  <2> QED
    BY <1>1, <1>4, <2>1, RoundsApart DEF QuotaInv
<1>6. CASE /\ official[a].credits > 0
           /\ official' = [official EXCEPT ![a] =
                 [Renewed(official[a]) EXCEPT !.credits = official[a].credits - 1]]
           /\ spent' = [spent EXCEPT ![a][p] = @ + 1]
  <2>1. official[a] \in Official
    BY <1>2 DEF QuotaInv, QuotaTypes
  <2>2. /\ official' \in [Pool -> Official]
        /\ official'[a].period = IF official[a].period < LastPeriod
                                 THEN official[a].period + 1 ELSE official[a].period
        /\ \A b \in Pool \ {a} : official'[b] = official[b]
    <3> DEFINE n == [Renewed(official[a]) EXCEPT !.credits = official[a].credits - 1]
    <3>1. /\ n \in Official
          /\ n.period = IF official[a].period < LastPeriod
                        THEN official[a].period + 1 ELSE official[a].period
      BY <1>6, <2>1, CreditTaken, RenewedType
    <3>2. official' = [official EXCEPT ![a] = n]
      BY <1>6
    <3>3. official \in [Pool -> Official]
      BY DEF QuotaInv, QuotaTypes
    <3> HIDE DEF n
    <3> QED
      BY <1>2, <3>1, <3>2, <3>3
  <2>3. /\ spent' \in [Pool -> [0..LastPeriod -> Nat]]
        /\ spent'[a][p] = spent[a][p] + 1
        /\ \A r \in 0..LastPeriod : r # p => spent'[a][r] = spent[a][r]
        /\ \A b \in Pool \ {a} : spent'[b] = spent[b]
    <3>1. spent \in [Pool -> [0..LastPeriod -> Nat]]
      BY DEF QuotaInv, QuotaTypes
    <3>2. spent' = [spent EXCEPT ![a][p] = @ + 1]
      BY <1>6
    <3> HIDE DEF a, p
    <3> QED
      BY <1>2, <3>1, <3>2, CreditCounted
  <2>4. /\ p <= official[a].period /\ (p \in 1..LastPeriod - 1 => spent[a][p] = 0)
    BY <1>1 DEF QuotaInv, Paid
  <2>5. \A b \in Pool : /\ official[b].period \in 1..LastPeriod
                        /\ official'[b].period \in 1..LastPeriod
                        /\ official[b].period <= official'[b].period
    <3>1. \A b \in Pool : official'[b] \in Official
      BY <2>2
    <3>2. \A b \in Pool : official'[b].period \in 1..LastPeriod
      BY <3>1 DEF Official
    <3> QED
      BY <1>2, <2>2, <3>2, NumberTypes
  <2>6. QuotaTypes'
    BY <1>1, <1>3, <2>2, <2>3 DEF QuotaInv, QuotaTypes
  <2>7. Paid'
    <3>1. ASSUME NEW b \in Pool, NEW r \in 1..LastPeriod - 1
          PROVE  spent'[b][r] = 0 \/ (spent'[b][r] = 1 /\ r < official'[b].period)
      <4>1. CASE b = a /\ r = p
        <5>1. r < official'[b].period
          BY <2>2, <2>4, <2>5, <3>1, <4>1, QuotaRefreshAssumption
        <5>2. spent'[b][r] = 1
          BY <2>3, <2>4, <3>1, <4>1
        <5> QED
          BY <5>1, <5>2
      <4>2. CASE ~(b = a /\ r = p)
        <5>1. spent'[b][r] = spent[b][r]
          <6>1. r \in 0..LastPeriod
            BY <3>1, QuotaRefreshAssumption
          <6>2. CASE b # a
            BY <2>3, <3>1, <6>2
          <6>3. CASE b = a /\ r # p
            BY <2>3, <6>1, <6>3
          <6> QED
            BY <4>2, <6>2, <6>3
        <5> QED
          BY <2>5, <3>1, <5>1, QuotaRefreshAssumption DEF QuotaInv, Paid
      <4> QED
        BY <4>1, <4>2
    <3> QED
      BY <1>3, <3>1 DEF Paid
  <2>8. Superseded'
    <3>1. \A b \in Pool : worker.accounts[b].period <= official'[b].period
      BY <2>5, NumberTypes DEF QuotaInv, Superseded
    <3> QED
      BY <1>1, <3>1 DEF QuotaInv, Superseded
  <2> QED
    BY <1>1, <1>4, <2>6, <2>7, <2>8, RoundsApart DEF QuotaInv
<1> QED
  BY <1>5, <1>6 DEF ConsumeResetCredit

-----------------------------------------------------------------------------
(* The world outside: periods only grow, and what the fence protects does  *)
(* not change under it.                                                    *)
LEMMA OutsideKeeps ==
    ASSUME QuotaInv, NEW a \in Pool,
           Exhaust(a) \/ NextPeriod(a) \/ ReplaceLogin(a) \/ SwitchAccount(a)
    PROVE  QuotaInv'
<1>1. UNCHANGED <<second, request, quotaState, worker, resetter, fence, spent>>
  BY DEF Exhaust, NextPeriod, ReplaceLogin, SwitchAccount, elsewhere
<1>2. /\ official' \in [Pool -> Official]
      /\ \A b \in Pool : official[b].period <= official'[b].period
  <2>1. CASE UNCHANGED official
    BY <2>1, NumberTypes DEF QuotaInv, QuotaTypes
  <2>2. CASE official' = [official EXCEPT ![a].exhausted = TRUE]
    <3>1. /\ [official[a] EXCEPT !.exhausted = TRUE] \in Official
          /\ [official[a] EXCEPT !.exhausted = TRUE].period = official[a].period
      BY NumberTypes DEF Official
    <3>2. official \in [Pool -> Official]
      BY DEF QuotaInv, QuotaTypes
    <3> QED
      BY <2>2, <3>1, <3>2, NumberTypes
  <2>3. CASE /\ official[a].period < LastPeriod
             /\ official' = [official EXCEPT ![a] = Renewed(official[a])]
    <3> DEFINE n == Renewed(official[a])
    <3>1. n \in Official /\ n.period = official[a].period + 1
      BY <2>3, NumberTypes, RenewedType
    <3>2. official' = [official EXCEPT ![a] = n]
      BY <2>3
    <3>3. official \in [Pool -> Official]
      BY DEF QuotaInv, QuotaTypes
    <3> HIDE DEF n
    <3> QED
      BY <3>1, <3>2, <3>3, NumberTypes
  <2> QED
    BY <2>1, <2>2, <2>3 DEF Exhaust, NextPeriod, ReplaceLogin, SwitchAccount
<1>3. /\ native' \in [Pool -> Auth] /\ enabled' \subseteq Pool
      /\ \/ enabled' = enabled /\ \A b \in Pool : native'[b].owner = native[b].owner
         \/ fence = "free"
  <2>1. CASE Exhaust(a)
    <3>1. /\ native' = [native EXCEPT ![a] = [@ EXCEPT !.blocked = TRUE, !.since = official[a].period]]
          /\ enabled' = enabled /\ official[a].period \in Nat
      BY <2>1, NumberTypes DEF Exhaust
    <3> DEFINE n == [native[a] EXCEPT !.blocked = TRUE, !.since = official[a].period]
    <3>2. n \in Auth /\ n.owner = native[a].owner
      BY <3>1, NumberTypes DEF Auth
    <3>3. native \in [Pool -> Auth] /\ native' = [native EXCEPT ![a] = n]
      BY <3>1 DEF QuotaInv, QuotaTypes
    <3> HIDE DEF n
    <3> QED
      BY <3>1, <3>2, <3>3 DEF QuotaInv, QuotaTypes
  <2>2. CASE NextPeriod(a)
    BY <2>2 DEF NextPeriod, QuotaInv, QuotaTypes
  <2>3. CASE ReplaceLogin(a)
    <3>1. [NoAuth EXCEPT !.owner = 3 - native[a].owner] \in Auth
      <4>1. native[a].owner \in Int
        BY NumberTypes DEF Auth
      <4>2. 3 - native[a].owner \in Int
        BY <4>1
      <4> QED
        BY <4>2 DEF Auth, NoAuth
    <3> QED
      BY <2>3, <3>1 DEF ReplaceLogin, QuotaInv, QuotaTypes
  <2>4. CASE SwitchAccount(a)
    BY <2>4 DEF SwitchAccount, QuotaInv, QuotaTypes
  <2> QED
    BY <2>1, <2>2, <2>3, <2>4
<1>4. QuotaTypes' /\ Fenced'
  BY <1>1, <1>2, <1>3 DEF QuotaInv, QuotaTypes, Fenced
<1>5. \A b \in Pool : official[b].period \in 1..LastPeriod /\ official'[b].period \in 1..LastPeriod
  BY <1>2, NumberTypes DEF Official
<1>6. Paid'
  <2>1. \A b \in Pool, r \in 1..LastPeriod - 1 :
            spent[b][r] = 0 \/ (spent[b][r] = 1 /\ r < official'[b].period)
    BY <1>2, <1>5, QuotaRefreshAssumption DEF QuotaInv, Paid
  <2>2. ASSUME NEW o \in Operator, resetter[o].pc = "consume"
        PROVE  LET b == resetter[o].on
                   r == resetter[o].period
               IN  r <= official'[b].period /\ (r \in 1..LastPeriod - 1 => spent[b][r] = 0)
    <3>1. resetter[o].on \in Pool /\ resetter[o].period \in 0..LastPeriod
      BY <2>2 DEF QuotaInv, QuotaTypes, ResetType, Fenced
    <3> QED
      BY <1>2, <1>5, <2>2, <3>1, QuotaRefreshAssumption DEF QuotaInv, Paid
  <2> QED
    BY <1>1, <2>1, <2>2 DEF Paid
<1>7. Superseded'
  <2>2. \A b \in Pool : worker.accounts[b].period <= official'[b].period
    BY <1>2, <1>5, NumberTypes DEF QuotaInv, Superseded
  <2>3. worker.pc = "post" => worker.on \in enabled' /\ native'[worker.on].owner = worker.auth.owner
    BY <1>3, QuotaRefreshAssumption DEF QuotaInv, Fenced, Superseded
  <2> QED
    BY <1>1, <2>2, <2>3 DEF QuotaInv, Superseded
<1> QED
  BY <1>1, <1>4, <1>6, <1>7, RoundsApart DEF QuotaInv

-----------------------------------------------------------------------------
(* The inductive invariant of refresh, recovery and reset together.        *)
THEOREM QuotaInductive == QuotaSpec => []QuotaInv
<1>1. QuotaInit => QuotaInv
  <2> SUFFICES ASSUME QuotaInit PROVE QuotaInv
    OBVIOUS
  <2>1. QuotaTypes
    <3>1. [period |-> 1, exhausted |-> FALSE, credits |-> 2] \in Official
      <4>1. 1 \in 1..LastPeriod
        BY QuotaRefreshAssumption
      <4> QED
        BY <4>1 DEF Official
    <3>2. [NoAuth EXCEPT !.owner = 1] \in Auth
      <4> DEFINE first == 1
      <4>1. first \in Int
        OBVIOUS
      <4> HIDE DEF first
      <4>2. [NoAuth EXCEPT !.owner = first] \in Auth
        BY <4>1 DEF NoAuth, Auth
      <4> QED
        BY <4>2 DEF first
    <3>3. request \in RequestType
      BY DEF QuotaInit, RequestType
    <3>4. quotaState \in StateType
      BY DEF QuotaInit, NoRefresh, StateType, Unfetched, Entry
    <3>5. [pc |-> "idle", on |-> "none", period |-> 0] \in ResetType
      BY QuotaRefreshAssumption DEF ResetType
    <3>6. [p \in 0..LastPeriod |-> 0] \in [0..LastPeriod -> Nat]
      OBVIOUS
    <3> QED
      BY <3>1, <3>2, <3>3, <3>4, <3>5, <3>6, RestingType DEF QuotaInit, QuotaTypes
  <2>2. Fenced /\ Paid /\ Superseded
    BY RestingType, QuotaRefreshAssumption DEF QuotaInit, Fenced, Paid, Superseded
  <2>3. Rounds /\ CompletedRequestIsFresh
    BY RestingType DEF QuotaInit, Rounds, CompletedRequestIsFresh, Pending, NoRefresh
  <2> QED
    BY <2>1, <2>2, <2>3 DEF QuotaInv
<1>2. QuotaInv /\ [QuotaNext]_quotaVars => QuotaInv'
  <2> SUFFICES ASSUME QuotaInv, [QuotaNext]_quotaVars PROVE QuotaInv'
    OBVIOUS
  <2>1. CASE RequestRefresh \/ WorkerStep \/ RefreshFails \/ WorkerStops
    BY <2>1, RequestKeeps, StartKeeps, FetchKeeps, WriteKeeps, RecoverKeeps, PostKeeps,
       CompleteKeeps, StopKeeps DEF WorkerStep
  <2>2. CASE \E o \in Operator : ResetStep(o) \/ ResetFails(o) \/ \E a \in Pool : BeginReset(o, a)
    <3>1. PICK o \in Operator : ResetStep(o) \/ ResetFails(o) \/ \E a \in Pool : BeginReset(o, a)
      BY <2>2
    <3>2. CASE ConsumeResetCredit(o)
      BY <3>2, ConsumeKeeps
    <3>3. CASE FetchForReset(o) \/ ResetFails(o) \/ \E a \in Pool : BeginReset(o, a)
      BY <3>3, ResetKeeps
    <3> QED
      BY <3>1, <3>2, <3>3 DEF ResetStep
  <2>3. CASE \E a \in Pool : Exhaust(a) \/ NextPeriod(a) \/ ReplaceLogin(a) \/ SwitchAccount(a)
    BY <2>3, OutsideKeeps
  <2>4. CASE PassSecond
    <3>1. /\ UNCHANGED <<enabled, official, native, request, quotaState, worker, resetter,
                          fence, spent>>
          /\ second' = second + 1
      BY <2>4 DEF PassSecond, elsewhere
    <3>2. second' \in Nat /\ second <= second'
      BY <3>1, NumberTypes
    <3>3. QuotaTypes'
      BY <3>1, <3>2 DEF QuotaInv, QuotaTypes
    <3>4. Fenced' /\ Paid' /\ Superseded'
      BY <3>1 DEF QuotaInv, Fenced, Paid, Superseded, Recoverable
    <3>5. Rounds' /\ CompletedRequestIsFresh'
      BY <3>1, <3>2, NumberTypes DEF QuotaInv, Rounds, CompletedRequestIsFresh, Pending
    <3> QED
      BY <3>3, <3>4, <3>5 DEF QuotaInv
  <2>5. CASE UNCHANGED quotaVars
    BY <2>5 DEF quotaVars, QuotaInv, QuotaTypes, Fenced, Paid, Superseded, Recoverable,
                Rounds, CompletedRequestIsFresh, Pending
  <2> QED
    BY <2>1, <2>2, <2>3, <2>4, <2>5 DEF QuotaNext, ResetAccountQuota
<1> QED
  BY <1>1, <1>2, PTL DEF QuotaSpec

(* One exhaustion costs at most one credit, for any number of operators    *)
(* that press and retry (reset.go: Reset holds the fence from its first    *)
(* read to the consumption).                                               *)
THEOREM OneCredit == QuotaSpec => []OneCreditPerExhaustion
<1>1. QuotaInv => OneCreditPerExhaustion
  BY DEF QuotaInv, Paid, OneCreditPerExhaustion
<1> QED
  BY <1>1, QuotaInductive, PTL

(* A request that counts as completed is answered by a snapshot fetched    *)
(* after it was made (refresh_request.go: MarkRefreshCompleted completes   *)
(* the captured request, not the pending one).                             *)
THEOREM CompletedIsFresh == QuotaSpec => []CompletedRequestIsFresh
BY QuotaInductive, PTL DEF QuotaInv

(* A cooldown is only cleared for an enabled account, the queried login    *)
(* and a superseded block (cooldown_recovery.go: Reconcile reads catalog   *)
(* and credential again inside the fence).                                 *)
THEOREM OnlySupersededCleared == QuotaSpec => ClearedSuperseded
<1> DEFINE Sound(a) == /\ a \in enabled
                       /\ native[a].owner = worker.accounts[a].owner
                       /\ native[a].since < official[a].period \/ native[a] # worker.auth
<1>1. QuotaInv /\ [QuotaNext]_quotaVars => [\A a \in Pool : Cleared(a) => Sound(a)]_quotaVars
  <2> SUFFICES ASSUME QuotaInv, QuotaNext, NEW a \in Pool, Cleared(a) PROVE Sound(a)
    BY DEF Cleared, quotaVars
  <2>1. CASE PostNativeReset
    <3>1. a = worker.on /\ worker.pc = "post"
      BY <2>1 DEF PostNativeReset, Cleared, QuotaInv, QuotaTypes
    <3>2. /\ a \in enabled /\ native[a].owner = worker.auth.owner
          /\ Recoverable(worker.auth, worker.accounts[a])
          /\ worker.accounts[a].period <= official[a].period
      BY <3>1 DEF QuotaInv, Superseded
    <3>3. /\ worker.auth.since \in Nat /\ worker.accounts[a].period \in Nat
          /\ official[a].period \in 1..LastPeriod
      <4>1. worker.auth \in Auth
        BY NumberTypes DEF WorkerType
      <4> QED
        BY <3>1, <4>1, NumberTypes DEF Auth
    <3> QED
      BY <3>2, <3>3, QuotaRefreshAssumption DEF Recoverable
  <2>2. CASE \E b \in Pool : Exhaust(b) \/ NextPeriod(b) \/ ReplaceLogin(b) \/ SwitchAccount(b)
    <3>1. PICK b \in Pool : Exhaust(b) \/ ReplaceLogin(b) \/ UNCHANGED native
      BY <2>2 DEF NextPeriod, SwitchAccount
    <3>2. CASE Exhaust(b)
      BY <3>2 DEF Exhaust, Cleared, QuotaInv, QuotaTypes, Auth
    <3>3. CASE ReplaceLogin(b)
      <4>1. native[b].owner \in Int
        BY DEF QuotaInv, QuotaTypes, Auth
      <4>2. 3 - native[b].owner # native[b].owner
        BY <4>1
      <4> QED
        BY <3>3, <4>1, <4>2 DEF ReplaceLogin, Cleared, QuotaInv, QuotaTypes, Auth, NoAuth
    <3> QED
      BY <3>1, <3>2, <3>3 DEF Cleared
  <2>3. CASE native' = native
    BY <2>3 DEF Cleared
  <2> QED
    BY <2>1, <2>2, <2>3
    DEF QuotaNext, WorkerStep, RequestRefresh, RefreshFails, WorkerStops, PassSecond, ResetStep,
        ResetAccountQuota, FetchForReset, ConsumeResetCredit, ResetFails, BeginReset, StartRefreshRound, FetchAccount,
        WriteQuotaState, ReadNativeAuth, RecheckInsideFence, RecoveryDone, MarkRefreshCompleted,
        outsideQuota, resetFrame, elsewhere
<1> QED
  BY <1>1, QuotaInductive, PTL DEF QuotaSpec, ClearedSuperseded

(***************************************************************************)
(* Runtime jobs, for every number of jobs, targets, workers and queue      *)
(* places.  The proofs need nothing of the order of the jobs: whatever     *)
(* trimLocked chooses, it touches finished jobs only.                      *)
(***************************************************************************)

Job == [status : Status, target : Target]

(* What the manager's fields contain; the order of the jobs may be any.    *)
JobTypes ==
    /\ jobs \in [JobId -> Job]
    /\ pool \in Seq(JobId)
    /\ active \in [Target -> JobId \cup {NoJob}]
    /\ task \in [JobId -> {"none"} \cup AtWork \cup Outcome]

Queued(id) == \E n \in 1..Len(pool) : pool[n] = id

(* A task is in one place, and one that may still begin belongs to a job   *)
(* that is queued, or cancelled.                                           *)
TasksKnown ==
    /\ \A m, n \in 1..Len(pool) : pool[m] = pool[n] => m = n
    /\ \A id \in JobId :
        /\ Queued(id) => task[id] = "none"
        /\ jobs[id].status = "none" => task[id] = "none" /\ ~Queued(id)
        /\ Queued(id) \/ task[id] = "taken" =>
               id \in cancelled \/ jobs[id].status = "queued"
        /\ task[id] = "working" => jobs[id].status \in {"running", "cancelling"}

(* Targets belong to live jobs, and no two that are occupied conflict.     *)
TargetsKnown ==
    /\ \A t \in Target : active[t] # NoJob =>
           jobs[active[t]].status \in Live /\ jobs[active[t]].target = t
    /\ \A id \in JobId : jobs[id].status \in Live => active[jobs[id].target] = id
    /\ \A t, s \in Target :
           t # s /\ active[t] # NoJob /\ active[s] # NoJob => ~Conflict(t, s)

JobsInv == JobTypes /\ TasksKnown /\ TargetsKnown

-----------------------------------------------------------------------------
(* A status is changed and nothing else. *)
LEMMA MarkedFacts ==
    ASSUME JobTypes, NEW id \in JobId, NEW status \in Status
    PROVE  /\ Marked(id, status) \in [JobId -> Job]
           /\ Marked(id, status)[id] = [status |-> status, target |-> jobs[id].target]
           /\ \A j \in JobId \ {id} : Marked(id, status)[j] = jobs[j]
BY DEF JobTypes, Job, Marked

(* trimLocked leaves live jobs alone and every job its target.             *)
LEMMA TrimFacts ==
    ASSUME NEW js \in [JobId -> Job], NEW o, Trim(js, o)
    PROVE  /\ jobs' \in [JobId -> Job]
           /\ \A id \in JobId :
                  \/ jobs'[id] = js[id]
                  \/ /\ js[id].status \in Terminal
                     /\ jobs'[id] = [status |-> "trimmed", target |-> js[id].target]
<1>1. CASE Excess(o) <= 0
  BY <1>1 DEF Trim
<1>2. CASE ~(Excess(o) <= 0)
  <2>1. PICK S : jobs' = [id \in JobId |->
                   IF id \in S /\ Finished(js, id)
                     THEN [js[id] EXCEPT !.status = "trimmed"] ELSE js[id]]
    BY <1>2 DEF Trim
  <2> QED
    BY <2>1 DEF Finished, Job, Status
<1> QED
  BY <1>1, <1>2

(* The head of the pool leaves it; the others stay. *)
LEMMA PoolHead ==
    ASSUME JobTypes, TasksKnown, pool # <<>>, pool' = Tail(pool)
    PROVE  /\ Head(pool) \in JobId /\ Queued(Head(pool)) /\ pool' \in Seq(JobId)
           /\ \A id \in JobId : Queued(id)' <=> Queued(id) /\ id # Head(pool)
           /\ \A m, n \in 1..Len(pool') : pool'[m] = pool'[n] => m = n
<1>1. /\ Len(pool) \in Nat \ {0} /\ Head(pool) = pool[1] /\ Head(pool) \in JobId
      /\ pool' \in Seq(JobId) /\ Len(pool') = Len(pool) - 1
      /\ \A n \in 1..Len(pool') : pool'[n] = pool[n + 1]
  BY DEF JobTypes
<1>2. \A n \in 1..Len(pool') : n + 1 \in 1..Len(pool) /\ n + 1 # 1
  BY <1>1
<1>3. \A n \in 1..Len(pool) : n # 1 => n - 1 \in 1..Len(pool') /\ pool'[n - 1] = pool[n]
  BY <1>1
<1>4. \A m, n \in 1..Len(pool') : pool'[m] = pool'[n] => m = n
  BY <1>1, <1>2 DEF TasksKnown
<1>5. ASSUME NEW id \in JobId PROVE Queued(id)' <=> Queued(id) /\ id # Head(pool)
  <2>1. Queued(id)' => Queued(id) /\ id # Head(pool)
    BY <1>1, <1>2 DEF Queued, TasksKnown
  <2>2. Queued(id) /\ id # Head(pool) => Queued(id)'
    BY <1>1, <1>3 DEF Queued
  <2> QED
    BY <2>1, <2>2
<1>6. Queued(Head(pool))
  BY <1>1 DEF Queued
<1> QED
  BY <1>1, <1>4, <1>5, <1>6

-----------------------------------------------------------------------------
(* A job that holds its target gives it back together with its life: the   *)
(* step of Cancel and of Finish.                                           *)
LEMMA TargetFreed ==
    ASSUME JobsInv, NEW id \in JobId, jobs[id].status \in Live,
           NEW status \in Terminal, Trim(Marked(id, status), order),
           active' = [active EXCEPT ![jobs[id].target] = NoJob]
    PROVE  /\ jobs' \in [JobId -> Job] /\ active' \in [Target -> JobId \cup {NoJob}]
           /\ TargetsKnown'
           /\ jobs'[id].status \in Terminal \cup {"trimmed"}
           /\ \A j \in JobId \ {id} :
                  \/ jobs'[j] = jobs[j]
                  \/ jobs[j].status \in Terminal /\ jobs'[j].status = "trimmed"
<1> DEFINE js == Marked(id, status)
<1>1. /\ js \in [JobId -> Job]
      /\ js[id] = [status |-> status, target |-> jobs[id].target]
      /\ \A j \in JobId \ {id} : js[j] = jobs[j]
  BY MarkedFacts DEF JobsInv, Status
<1> HIDE DEF js
<1>2. /\ jobs' \in [JobId -> Job]
      /\ \A j \in JobId :
             \/ jobs'[j] = js[j]
             \/ /\ js[j].status \in Terminal
                /\ jobs'[j] = [status |-> "trimmed", target |-> js[j].target]
  BY <1>1, TrimFacts DEF js
<1>3. /\ jobs[id].target \in Target /\ active[jobs[id].target] = id
      /\ active' \in [Target -> JobId \cup {NoJob}] /\ active'[jobs[id].target] = NoJob
      /\ \A t \in Target \ {jobs[id].target} : active'[t] = active[t]
  BY DEF JobsInv, JobTypes, TargetsKnown, Job
<1>4. /\ jobs'[id].status \in Terminal \cup {"trimmed"}
      /\ \A j \in JobId \ {id} :
             \/ jobs'[j] = jobs[j]
             \/ jobs[j].status \in Terminal /\ jobs'[j].status = "trimmed"
  BY <1>1, <1>2
<1>5. ASSUME NEW t \in Target, active'[t] # NoJob
      PROVE  jobs'[active'[t]].status \in Live /\ jobs'[active'[t]].target = t
  <2>1. active'[t] = active[t] /\ active[t] \in JobId \ {id}
    BY <1>3, <1>5 DEF JobsInv, JobTypes, TargetsKnown
  <2>2. jobs[active[t]].status \in Live /\ jobs[active[t]].target = t
    BY <1>5, <2>1 DEF JobsInv, TargetsKnown
  <2>3. jobs'[active[t]] = jobs[active[t]]
    BY <1>4, <2>1, <2>2 DEF Live, Terminal
  <2> QED
    BY <2>1, <2>2, <2>3
<1>6. ASSUME NEW j \in JobId, jobs'[j].status \in Live
      PROVE  active'[jobs'[j].target] = j
  <2>1. j # id /\ jobs'[j] = jobs[j]
    BY <1>4, <1>6 DEF Live, Terminal
  <2>2. active[jobs[j].target] = j /\ jobs[j].target \in Target
    BY <1>6, <2>1 DEF JobsInv, JobTypes, TargetsKnown, Job
  <2> QED
    BY <1>3, <2>1, <2>2
<1>7. \A t, s \in Target : t # s /\ active'[t] # NoJob /\ active'[s] # NoJob => ~Conflict(t, s)
  BY <1>3 DEF JobsInv, TargetsKnown
<1> QED
  BY <1>2, <1>3, <1>4, <1>5, <1>6, <1>7 DEF TargetsKnown

(* Submit, whether the pool takes the task or refuses it. *)
LEMMA SubmitKeeps ==
    ASSUME JobsInv, NEW id \in JobId, NEW t \in Target, Submit(id, t)
    PROVE  JobsInv'
<1>1. /\ jobs[id].status = "none" /\ task[id] = "none" /\ ~Queued(id)
      /\ active[t] = NoJob /\ \A s \in Target : active[s] # NoJob => ~Conflict(t, s)
  BY DEF Submit, JobsInv, TasksKnown, Occupied, Conflict
<1>2. \A s \in Target : active[s] # id
  BY <1>1, RuntimeJobsAssumption DEF JobsInv, JobTypes, TargetsKnown, Live
<1>3. CASE Len(pool) < QueueSize
  <2>1. /\ jobs' = [jobs EXCEPT ![id] = [status |-> "queued", target |-> t]]
        /\ active' = [active EXCEPT ![t] = id]
        /\ pool' = Append(pool, id)
        /\ UNCHANGED <<task, cancelled, stopped>>
    BY <1>3 DEF Submit
  <2>2. JobTypes'
    BY <2>1 DEF JobsInv, JobTypes, Job, Status, Live
  <2>3. /\ Len(pool') = Len(pool) + 1 /\ Len(pool) \in Nat /\ pool'[Len(pool')] = id
        /\ \A n \in 1..Len(pool) : pool'[n] = pool[n]
    BY <2>1 DEF JobsInv, JobTypes
  <2>4. \A j \in JobId : Queued(j)' <=> Queued(j) \/ j = id
    BY <2>3 DEF Queued
  <2>5. \A m, n \in 1..Len(pool') : pool'[m] = pool'[n] => m = n
    <3>1. \A n \in 1..Len(pool') : n \in 1..Len(pool) \/ n = Len(pool')
      BY <2>3
    <3>2. \A n \in 1..Len(pool) : pool[n] # id
      BY <1>1 DEF Queued
    <3> QED
      BY <2>3, <3>1, <3>2 DEF JobsInv, TasksKnown
  <2>6. /\ jobs'[id].status = "queued" /\ jobs'[id].target = t
        /\ \A j \in JobId \ {id} : jobs'[j] = jobs[j]
        /\ active'[t] = id /\ \A s \in Target \ {t} : active'[s] = active[s]
    BY <2>1 DEF JobsInv, JobTypes
  <2>7. TasksKnown'
    BY <1>1, <2>1, <2>4, <2>5, <2>6 DEF JobsInv, TasksKnown
  <2>8. TargetsKnown'
    <3>1. \A s \in Target : active'[s] # NoJob =>
              jobs'[active'[s]].status \in Live /\ jobs'[active'[s]].target = s
      BY <1>2, <2>6 DEF JobsInv, JobTypes, TargetsKnown, Live
    <3>2. \A j \in JobId : jobs'[j].status \in Live => active'[jobs'[j].target] = j
      BY <1>1, <2>6, RuntimeJobsAssumption DEF JobsInv, JobTypes, TargetsKnown, Job
    <3>3. \A r, s \in Target :
              r # s /\ active'[r] # NoJob /\ active'[s] # NoJob => ~Conflict(r, s)
      BY <1>1, <2>6 DEF JobsInv, TargetsKnown, Conflict
    <3> QED
      BY <3>1, <3>2, <3>3 DEF TargetsKnown
  <2> QED
    BY <2>2, <2>7, <2>8 DEF JobsInv
<1>4. CASE ~(Len(pool) < QueueSize)
  <2>1. /\ jobs' = Marked(id, "trimmed") /\ cancelled' = cancelled \cup {id}
        /\ UNCHANGED <<active, pool, task>>
    BY <1>4 DEF Submit
  <2>2. /\ jobs' \in [JobId -> Job] /\ jobs'[id].status = "trimmed"
        /\ \A j \in JobId \ {id} : jobs'[j] = jobs[j]
    <3>1. "trimmed" \in Status
      BY DEF Status
    <3>2. /\ jobs' \in [JobId -> Job]
          /\ jobs'[id] = [status |-> "trimmed", target |-> jobs[id].target]
          /\ \A j \in JobId \ {id} : jobs'[j] = jobs[j]
      BY <2>1, <3>1, MarkedFacts DEF JobsInv
    <3> QED
      BY <3>2
  <2>3. JobTypes' /\ \A j \in JobId : Queued(j)' <=> Queued(j)
    BY <2>1, <2>2 DEF JobsInv, JobTypes, Queued
  <2>4. TasksKnown'
    BY <1>1, <2>1, <2>2, <2>3 DEF JobsInv, TasksKnown
  <2>5. TargetsKnown'
    BY <1>2, <2>1, <2>2 DEF JobsInv, JobTypes, TargetsKnown, Live
  <2> QED
    BY <2>3, <2>4, <2>5 DEF JobsInv
<1> QED
  BY <1>3, <1>4

(* The pool hands a task to a worker, or drops it. *)
LEMMA PoolKeeps ==
    ASSUME JobsInv, PoolTakes \/ PoolDrops
    PROVE  JobsInv'
<1>1. /\ pool # <<>> /\ pool' = Tail(pool) /\ UNCHANGED <<jobs, active, cancelled>>
      /\ \/ task' = [task EXCEPT ![Head(pool)] = "taken"]
         \/ task' = [task EXCEPT ![Head(pool)] = "context cancelled"]
  BY DEF PoolTakes, PoolDrops
<1>2. /\ Head(pool) \in JobId /\ Queued(Head(pool)) /\ pool' \in Seq(JobId)
      /\ \A id \in JobId : Queued(id)' <=> Queued(id) /\ id # Head(pool)
      /\ \A m, n \in 1..Len(pool') : pool'[m] = pool'[n] => m = n
  BY <1>1, PoolHead DEF JobsInv
<1>3. JobTypes'
  BY <1>1, <1>2 DEF JobsInv, JobTypes, AtWork, Outcome
<1>4. /\ task'[Head(pool)] \in {"taken", "context cancelled"}
      /\ \A id \in JobId \ {Head(pool)} : task'[id] = task[id]
  BY <1>1, <1>2 DEF JobsInv, JobTypes
<1>5. TasksKnown'
  BY <1>1, <1>2, <1>4 DEF JobsInv, TasksKnown
<1>6. TargetsKnown'
  BY <1>1 DEF JobsInv, TargetsKnown
<1> QED
  BY <1>3, <1>5, <1>6 DEF JobsInv

(* A worker begins a task, or its work ends. *)
LEMMA WorkKeeps ==
    ASSUME JobsInv, NEW id \in JobId, Execute(id) \/ WorkEnds(id)
    PROVE  JobsInv'
<1>1. /\ UNCHANGED <<active, pool, cancelled>> /\ task[id] \in {"taken", "working"}
      /\ \A j \in JobId : Queued(j)' <=> Queued(j)
  BY DEF Execute, WorkEnds, Queued
<1>2. \/ \E outcome \in Outcome : task' = [task EXCEPT ![id] = outcome] /\ jobs' = jobs
      \/ /\ task' = [task EXCEPT ![id] = "working"] /\ jobs' = Marked(id, "running")
         /\ task[id] = "taken" /\ id \notin cancelled
  BY DEF Execute, WorkEnds, Outcome
<1>3. CASE \E outcome \in Outcome : task' = [task EXCEPT ![id] = outcome] /\ jobs' = jobs
  <2>1. JobTypes' /\ task'[id] \in Outcome /\ \A j \in JobId \ {id} : task'[j] = task[j]
    BY <1>1, <1>3 DEF JobsInv, JobTypes
  <2>2. TasksKnown'
    BY <1>1, <1>3, <2>1 DEF JobsInv, TasksKnown, Outcome
  <2> QED
    BY <1>1, <1>3, <2>1, <2>2 DEF JobsInv, TargetsKnown
<1>4. CASE /\ task' = [task EXCEPT ![id] = "working"] /\ jobs' = Marked(id, "running")
           /\ task[id] = "taken" /\ id \notin cancelled
  <2>1. jobs[id].status = "queued"
    BY <1>4 DEF JobsInv, TasksKnown
  <2>2. /\ jobs' \in [JobId -> Job]
        /\ jobs'[id] = [status |-> "running", target |-> jobs[id].target]
        /\ \A j \in JobId \ {id} : jobs'[j] = jobs[j]
    BY <1>4, MarkedFacts DEF JobsInv, Status, Live
  <2>3. /\ JobTypes' /\ task'[id] = "working"
        /\ \A j \in JobId \ {id} : task'[j] = task[j]
    BY <1>1, <1>4, <2>2 DEF JobsInv, JobTypes, AtWork
  <2>4. TasksKnown'
    BY <1>1, <1>4, <2>2, <2>3 DEF JobsInv, TasksKnown
  <2>5. TargetsKnown'
    BY <1>1, <2>1, <2>2 DEF JobsInv, JobTypes, TargetsKnown, Live
  <2> QED
    BY <2>3, <2>4, <2>5 DEF JobsInv
<1> QED
  BY <1>2, <1>3, <1>4

(* The goroutine of a job calls finish. *)
LEMMA FinishKeeps ==
    ASSUME JobsInv, NEW id \in JobId, Finish(id)
    PROVE  JobsInv'
<1>1. /\ task[id] \in Outcome /\ task' = [task EXCEPT ![id] = "none"]
      /\ UNCHANGED <<pool, cancelled>> /\ \A j \in JobId : Queued(j)' <=> Queued(j)
  BY DEF Finish, Queued
<1>2. /\ task' \in [JobId -> {"none"} \cup AtWork \cup Outcome] /\ task'[id] = "none"
      /\ \A j \in JobId \ {id} : task'[j] = task[j]
  BY <1>1 DEF JobsInv, JobTypes
<1>3. ~Queued(id) /\ jobs[id].status # "none"
  BY <1>1 DEF JobsInv, TasksKnown, Outcome
<1>4. CASE jobs[id].status \notin Live
  <2>1. UNCHANGED <<jobs, active>>
    BY <1>4 DEF Finish
  <2>2. TasksKnown'
    BY <1>1, <1>2, <1>3, <2>1 DEF JobsInv, TasksKnown
  <2> QED
    BY <1>1, <1>2, <2>1, <2>2 DEF JobsInv, JobTypes, TargetsKnown
<1>5. CASE jobs[id].status \in Live
  <2>1. FinalStatus(task[id]) \in Terminal
    BY DEF FinalStatus, Terminal
  <2>2. /\ jobs' \in [JobId -> Job] /\ active' \in [Target -> JobId \cup {NoJob}]
        /\ TargetsKnown'
        /\ jobs'[id].status \in Terminal \cup {"trimmed"}
        /\ \A j \in JobId \ {id} :
               \/ jobs'[j] = jobs[j]
               \/ jobs[j].status \in Terminal /\ jobs'[j].status = "trimmed"
    <3>1. /\ Trim(Marked(id, FinalStatus(task[id])), order)
          /\ active' = [active EXCEPT ![jobs[id].target] = NoJob]
      BY <1>5 DEF Finish
    <3> QED
      BY <1>5, <2>1, <3>1, TargetFreed
  <2>3. TasksKnown'
    BY <1>1, <1>2, <1>3, <2>2 DEF JobsInv, TasksKnown, Terminal
  <2> QED
    BY <1>1, <1>2, <2>2, <2>3 DEF JobsInv, JobTypes
<1> QED
  BY <1>4, <1>5

(* Cancel ends a queued job at once and only marks a running one. *)
LEMMA CancelKeeps ==
    ASSUME JobsInv, NEW id \in JobId, Cancel(id)
    PROVE  JobsInv'
<1>1. /\ jobs[id].status \in {"queued", "running"} /\ cancelled' = cancelled \cup {id}
      /\ UNCHANGED <<pool, task>> /\ \A j \in JobId : Queued(j)' <=> Queued(j)
  BY DEF Cancel, Queued
<1>2. CASE jobs[id].status = "queued"
  <2>1. /\ jobs' \in [JobId -> Job] /\ active' \in [Target -> JobId \cup {NoJob}]
        /\ TargetsKnown'
        /\ jobs'[id].status \in Terminal \cup {"trimmed"}
        /\ \A j \in JobId \ {id} :
               \/ jobs'[j] = jobs[j]
               \/ jobs[j].status \in Terminal /\ jobs'[j].status = "trimmed"
    <3>1. /\ Trim(Marked(id, "cancelled"), order)
          /\ active' = [active EXCEPT ![jobs[id].target] = NoJob]
      BY <1>2 DEF Cancel
    <3> QED
      BY <1>2, <3>1, TargetFreed DEF Live, Terminal
  <2>2. TasksKnown'
    BY <1>1, <1>2, <2>1 DEF JobsInv, TasksKnown, Terminal
  <2> QED
    BY <1>1, <2>1, <2>2 DEF JobsInv, JobTypes
<1>3. CASE jobs[id].status = "running"
  <2>1. jobs' = Marked(id, "cancelling") /\ UNCHANGED active
    BY <1>3 DEF Cancel
  <2>2. /\ jobs' \in [JobId -> Job]
        /\ jobs'[id] = [status |-> "cancelling", target |-> jobs[id].target]
        /\ \A j \in JobId \ {id} : jobs'[j] = jobs[j]
    BY <2>1, MarkedFacts DEF JobsInv, Status, Live
  <2>3. TasksKnown'
    BY <1>1, <1>3, <2>1, <2>2 DEF JobsInv, TasksKnown
  <2>4. TargetsKnown'
    BY <1>3, <2>1, <2>2 DEF JobsInv, JobTypes, TargetsKnown, Live
  <2> QED
    BY <1>1, <2>1, <2>2, <2>3, <2>4 DEF JobsInv, JobTypes
<1> QED
  BY <1>1, <1>2, <1>3

-----------------------------------------------------------------------------
(* Jobs, tasks and targets stay together under every interleaving of       *)
(* submissions, workers, cancellations and Close: the inductive invariant. *)
THEOREM JobsInductive == JobsSpec => []JobsInv
<1>1. JobsInit => JobsInv
  <2> SUFFICES ASSUME JobsInit PROVE JobsInv
    OBVIOUS
  <2>1. JobTypes
    BY RuntimeJobsAssumption DEF JobsInit, JobTypes, Job, Status
  <2>2. /\ Len(pool) = 0 /\ \A t \in Target : active[t] = NoJob
        /\ \A id \in JobId : jobs[id].status = "none" /\ task[id] = "none" /\ ~Queued(id)
    BY DEF JobsInit, Queued
  <2>3. TasksKnown /\ TargetsKnown
    BY <2>2 DEF TasksKnown, TargetsKnown, Live
  <2> QED
    BY <2>1, <2>3 DEF JobsInv
<1>2. JobsInv /\ [JobsNext]_jobVars => JobsInv'
  <2> SUFFICES ASSUME JobsInv, [JobsNext]_jobVars PROVE JobsInv'
    OBVIOUS
  <2>1. CASE JobProgress
    BY <2>1, PoolKeeps, WorkKeeps, FinishKeeps DEF JobProgress
  <2>2. CASE CloseJobs
    BY <2>2 DEF CloseJobs, JobsInv, JobTypes, TasksKnown, TargetsKnown, Queued
  <2>3. CASE \E id \in JobId : Cancel(id) \/ \E t \in Target : Submit(id, t)
    BY <2>3, CancelKeeps, SubmitKeeps
  <2>4. CASE UNCHANGED jobVars
    BY <2>4 DEF jobVars, JobsInv, JobTypes, TasksKnown, TargetsKnown, Queued
  <2> QED
    BY <2>1, <2>2, <2>3, <2>4 DEF JobsNext
<1> QED
  BY <1>1, <1>2, PTL DEF JobsSpec

(* No refused, cancelled, finished or trimmed job holds a target, nobody   *)
(* frees another's, and no two jobs ever work on conflicting targets       *)
(* (jobs.go: Submit, Cancel, execute, finish).                             *)
THEOREM TargetsAreKept == JobsSpec => []TargetsKept
<1>1. JobsInv => TargetsKept
  <2> SUFFICES ASSUME JobsInv PROVE TargetsKept
    OBVIOUS
  <2>1. ASSUME NEW i \in JobId, NEW j \in JobId, i # j, task[i] = "working", task[j] = "working"
        PROVE  ~Conflict(jobs[i].target, jobs[j].target)
    <3>1. jobs[i].status \in Live /\ jobs[j].status \in Live
      BY <2>1 DEF JobsInv, TasksKnown, Live
    <3>2. /\ jobs[i].target \in Target /\ jobs[j].target \in Target
          /\ active[jobs[i].target] = i /\ active[jobs[j].target] = j
      BY <3>1 DEF JobsInv, JobTypes, TargetsKnown, Job
    <3> QED
      BY <2>1, <3>2, RuntimeJobsAssumption DEF JobsInv, TargetsKnown
  <2> QED
    BY <2>1 DEF JobsInv, TargetsKnown, TargetsKept
<1> QED
  BY <1>1, JobsInductive, PTL

-----------------------------------------------------------------------------
(***************************************************************************)
(* Notifications, for every set of accounts, every sequence of quota       *)
(* states and every number of failures: a message that tells nothing new   *)
(* is paid for by a failure of its own.                                    *)
(***************************************************************************)

State == [level : Levels, reset : Nat, version : Nat]

NoticeTypes ==
    /\ dayTick \in Nat /\ repeated \in Nat /\ slips \in Nat
    /\ gauge \in [Watched -> State]
    /\ saved \in [scheduled : SUBSET Nat, alerts : [Watched -> Levels],
                  windows : [Watched -> Nat]]
    /\ sending \in [pc : {"idle", "send", "save"}, seen : [Watched -> State],
                    events : SUBSET Watched, full : BOOLEAN, due : BOOLEAN, day : Nat]
    /\ told \in [Watched -> [level : Levels, version : Nat]]
    /\ reportDays \in SUBSET Nat

(* What the round has seen is not newer than the quota, what the receiver  *)
(* was told is not newer than what the round has seen.                     *)
Versions ==
    /\ \A a \in Watched : told[a].version <= gauge[a].version
    /\ sending.pc # "idle" => \A a \in Watched :
           /\ told[a].version <= sending.seen[a].version
           /\ sending.seen[a].version <= gauge[a].version
           /\ sending.seen[a].version = gauge[a].version => sending.seen[a] = gauge[a]

(* No report is of the future, and a round that may still record the       *)
(* report of its day will.                                                 *)
Days ==
    /\ \A d \in reportDays : 2 * d <= dayTick
    /\ sending.pc # "idle" => /\ sending.due => 2 * sending.day <= dayTick
                              /\ \A d \in reportDays : dayTick = 2 * d =>
                                     d \in saved.scheduled \/ (sending.due /\ sending.day = d)

(* What the receiver knows is what the state has saved. *)
Recorded(a) ==
    told[a].version = gauge[a].version /\ gauge[a].level \in Measured =>
        saved.alerts[a] = gauge[a].level /\ saved.windows[a] \in {0, gauge[a].reset}

Settled ==
    /\ \A a \in Watched : Recorded(a)
    /\ \A d \in reportDays : dayTick = 2 * d => d \in saved.scheduled

(* The message under way tells something new. *)
News == \/ \E a \in sending.events : told[a].version < sending.seen[a].version
        \/ sending.due /\ sending.day \notin reportDays

(* Unless everything is recorded, or the next message has news, there was  *)
(* a failure that no repetition has used up.                               *)
RepeatsPaid ==
    /\ repeated <= slips
    /\ sending.pc = "idle" => Settled \/ repeated < slips
    /\ sending.pc = "send" => News \/ repeated < slips

NoticesInv == NoticeTypes /\ Versions /\ Days /\ RepeatsPaid

-----------------------------------------------------------------------------
(* Versions are numbers. *)
LEMMA VersionTypes ==
    ASSUME NoticeTypes, NEW a \in Watched
    PROVE  /\ told[a].version \in Nat /\ gauge[a].version \in Nat /\ gauge[a].reset \in Nat
           /\ sending.seen[a].version \in Nat
BY DEF NoticeTypes, State

(* The idle round is well typed. *)
LEMMA NoNoticeType ==
    /\ NoNotice.pc = "idle"
    /\ NoNotice \in [pc : {"idle", "send", "save"}, seen : [Watched -> State],
                     events : SUBSET Watched, full : BOOLEAN, due : BOOLEAN, day : Nat]
BY DEF NoNotice, State, Levels, Measured

(* What is saved for known is well typed. *)
LEMMA UpdatedTypes ==
    ASSUME NoticeTypes
    PROVE  /\ UpdatedWindows(sending.seen) \in [Watched -> Nat]
           /\ UpdatedAlerts(sending.seen) \in [Watched -> Levels]
BY DEF NoticeTypes, State, UpdatedWindows, UpdatedAlerts, Levels, Measured

(* A round that begins with everything recorded has news if it sends.      *)
LEMMA CollectKeeps ==
    ASSUME NoticesInv, CollectNotices
    PROVE  NoticesInv'
<1>1. /\ UNCHANGED <<dayTick, gauge, checkDue, saved, told, reportDays, repeated, unknown, slips>>
      /\ sending.pc = "idle"
      /\ sending'.events = {a \in Watched : LevelChanged(a) \/ Refreshed(a)}
      /\ sending'.seen = gauge /\ sending'.due = ReportDue /\ sending'.day = Day(dayTick)
      /\ sending'.pc = IF ReportDue \/ sending'.events # {} THEN "send" ELSE "save"
      /\ sending' \in [pc : {"send", "save"}, seen : {gauge}, events : SUBSET Watched,
                       full : BOOLEAN, due : BOOLEAN, day : {Day(dayTick)}]
  BY DEF CollectNotices, ReportDue
<1>2. Day(dayTick) \in Nat /\ (ReportDue => dayTick = 2 * Day(dayTick))
      /\ \A d \in Nat : dayTick = 2 * d => Day(dayTick) = d /\ dayTick % 2 = 0
  BY DEF Day, ReportDue, NoticesInv, NoticeTypes
<1>3. NoticeTypes'
  BY <1>1, <1>2 DEF NoticesInv, NoticeTypes
<1>4. Versions'
  BY <1>1 DEF NoticesInv, NoticeTypes, State, Versions
<1>5. Days'
  <2>1. \A d \in reportDays : dayTick = 2 * d => d \in saved.scheduled \/ (ReportDue /\ Day(dayTick) = d)
    BY <1>2 DEF NoticesInv, NoticeTypes, ReportDue
  <2> QED
    BY <1>1, <1>2, <2>1 DEF NoticesInv, NoticeTypes, Days
<1>6. RepeatsPaid'
  <2>1. ASSUME Settled, sending'.pc = "send" PROVE News'
    <3>1. ASSUME NEW a \in sending'.events PROVE told[a].version < gauge[a].version
      <4>1. a \in Watched /\ (LevelChanged(a) \/ Refreshed(a))
        BY <1>1, <3>1
      <4>2. /\ gauge[a].version \in Nat /\ told[a].version \in Nat /\ gauge[a].reset \in Nat
            /\ told[a].version <= gauge[a].version /\ saved.windows[a] \in Nat /\ dayTick \in Nat
        BY <4>1 DEF NoticesInv, NoticeTypes, State, Versions
      <4>3. told[a].version # gauge[a].version
        BY <2>1, <4>1, <4>2 DEF Settled, Recorded, LevelChanged, Refreshed, Measured
      <4> QED
        BY <4>2, <4>3
    <3>2. CASE sending'.events # {}
      BY <1>1, <3>1, <3>2 DEF News
    <3>3. CASE sending'.events = {}
      <4>1. ReportDue
        BY <1>1, <2>1, <3>3
      <4>2. Day(dayTick) \notin reportDays
        BY <1>2, <2>1, <4>1 DEF Settled, ReportDue
      <4> QED
        BY <1>1, <4>1, <4>2 DEF News
    <3> QED
      BY <3>2, <3>3
  <2>2. Settled \/ repeated < slips
    BY <1>1 DEF NoticesInv, RepeatsPaid
  <2> QED
    BY <1>1, <2>1, <2>2 DEF NoticesInv, RepeatsPaid
<1> QED
  BY <1>3, <1>4, <1>5, <1>6 DEF NoticesInv

-----------------------------------------------------------------------------
(* What the receiver takes of a message. *)
LEMMA Delivered ==
    ASSUME NoticesInv, sending.pc = "send", Deliver
    PROVE  /\ told' \in [Watched -> [level : Levels, version : Nat]]
           /\ \A a \in Watched : told'[a] = told[a]
                                 \/ told'[a].version = sending.seen[a].version
           /\ reportDays' = IF sending.due THEN reportDays \cup {sending.day} ELSE reportDays
           /\ repeated' \in {repeated, repeated + 1}
           /\ repeated' <= slips
<1>1. /\ told' = [a \in Watched |-> IF a \in Subjects
                     THEN [level |-> sending.seen[a].level, version |-> sending.seen[a].version]
                     ELSE told[a]]
      /\ reportDays' = IF sending.due THEN reportDays \cup {sending.day} ELSE reportDays
      /\ repeated' = IF News THEN repeated ELSE repeated + 1
  BY DEF Deliver, News
<1>2. \A a \in Watched : sending.seen[a].level \in Levels /\ sending.seen[a].version \in Nat
                         /\ told[a] \in [level : Levels, version : Nat]
  BY DEF NoticesInv, NoticeTypes, State
<1>3. repeated' <= slips
  BY <1>1 DEF NoticesInv, NoticeTypes, RepeatsPaid
<1> QED
  BY <1>1, <1>2, <1>3

(* The message goes out, and the round goes on to save. *)
LEMMA SendKeeps ==
    ASSUME NoticesInv, SendNotice
    PROVE  NoticesInv'
<1>1. /\ UNCHANGED <<dayTick, gauge, saved, slips>> /\ sending.pc = "send" /\ Deliver
      /\ sending' = [sending EXCEPT !.pc = "save"]
  BY DEF SendNotice
<1>2. /\ told' \in [Watched -> [level : Levels, version : Nat]]
      /\ \A a \in Watched : told'[a] = told[a]
                            \/ told'[a].version = sending.seen[a].version
      /\ reportDays' = IF sending.due THEN reportDays \cup {sending.day} ELSE reportDays
      /\ repeated' \in {repeated, repeated + 1}
      /\ repeated' <= slips
  BY <1>1, Delivered
<1>3. /\ sending'.pc = "save" /\ sending'.seen = sending.seen
      /\ sending'.due = sending.due /\ sending'.day = sending.day
  BY <1>1 DEF NoticesInv, NoticeTypes
<1>4. NoticeTypes'
  BY <1>1, <1>2 DEF NoticesInv, NoticeTypes
<1>5. Versions'
  <2>1. ASSUME NEW a \in Watched
        PROVE  /\ told'[a].version <= sending.seen[a].version
               /\ sending.seen[a].version <= gauge[a].version
               /\ sending.seen[a].version = gauge[a].version => sending.seen[a] = gauge[a]
    BY <1>1, <1>2, VersionTypes DEF NoticesInv, Versions
  <2>2. \A a \in Watched : told'[a].version \in Nat
    BY <1>2
  <2>3. \A a \in Watched : told'[a].version <= gauge[a].version
    BY <2>1, <2>2, VersionTypes DEF NoticesInv
  <2> QED
    BY <1>1, <1>3, <2>1, <2>3 DEF Versions
<1>6. Days'
  BY <1>1, <1>2, <1>3 DEF NoticesInv, NoticeTypes, Days
<1>7. RepeatsPaid'
  BY <1>1, <1>2, <1>3 DEF NoticesInv, RepeatsPaid
<1> QED
  BY <1>4, <1>5, <1>6, <1>7 DEF NoticesInv

(* A failing send, a failing save or a death costs one failure. *)
LEMMA SlipKeeps ==
    ASSUME NoticesInv, SendFails \/ NoticeLost
    PROVE  NoticesInv'
<1>1. /\ slips' = slips + 1 /\ sending' = NoNotice /\ UNCHANGED <<dayTick, gauge>>
      /\ sending.pc # "idle"
  BY DEF SendFails, NoticeLost, Slip
<1>2. /\ saved' = saved \/ saved' = [saved EXCEPT !.windows = UpdatedWindows(sending.seen)]
      /\ \/ UNCHANGED <<told, reportDays, repeated>>
         \/ sending.pc = "send" /\ Deliver
  BY DEF SendFails, NoticeLost, RecordError
<1>3. /\ saved' \in [scheduled : SUBSET Nat, alerts : [Watched -> Levels],
                     windows : [Watched -> Nat]]
  BY <1>2, UpdatedTypes DEF NoticesInv, NoticeTypes
<1>4. /\ told' \in [Watched -> [level : Levels, version : Nat]]
      /\ \A a \in Watched : told'[a] = told[a]
                            \/ told'[a].version = sending.seen[a].version
      /\ \/ reportDays' = reportDays
         \/ sending.due /\ reportDays' = reportDays \cup {sending.day}
      /\ repeated' \in Nat /\ repeated' <= slips
  BY <1>2, Delivered DEF NoticesInv, NoticeTypes, RepeatsPaid
<1>5. NoticeTypes'
  <2>1. reportDays' \in SUBSET Nat
    BY <1>4 DEF NoticesInv, NoticeTypes
  <2>2. sending' \in [pc : {"idle", "send", "save"}, seen : [Watched -> State],
                      events : SUBSET Watched, full : BOOLEAN, due : BOOLEAN, day : Nat]
    BY <1>1, NoNoticeType
  <2> QED
    BY <1>1, <1>3, <1>4, <2>1, <2>2 DEF NoticesInv, NoticeTypes
<1>6. Versions'
  BY <1>1, <1>4, NoNoticeType DEF NoticesInv, NoticeTypes, State, Versions
<1>7. Days'
  BY <1>1, <1>4, NoNoticeType DEF NoticesInv, NoticeTypes, Days
<1>8. RepeatsPaid'
  BY <1>1, <1>4, NoNoticeType DEF NoticesInv, NoticeTypes, RepeatsPaid
<1> QED
  BY <1>5, <1>6, <1>7, <1>8 DEF NoticesInv

(* After a round is saved everything is recorded. *)
LEMMA SaveKeeps ==
    ASSUME NoticesInv, SaveNotices
    PROVE  NoticesInv'
<1>1. /\ UNCHANGED <<dayTick, gauge, told, reportDays, repeated, slips>>
      /\ sending.pc = "save" /\ sending' = NoNotice
      /\ saved'.scheduled = saved.scheduled \cup (IF sending.due THEN {sending.day} ELSE {})
      /\ saved'.alerts = UpdatedAlerts(sending.seen)
      /\ saved'.windows = UpdatedWindows(sending.seen)
  BY DEF SaveNotices
<1>2. NoticeTypes'
  <2>1. saved' = [scheduled |-> saved.scheduled \cup (IF sending.due THEN {sending.day} ELSE {}),
                  alerts |-> UpdatedAlerts(sending.seen),
                  windows |-> UpdatedWindows(sending.seen)]
    BY DEF SaveNotices
  <2> QED
    BY <1>1, <2>1, UpdatedTypes, NoNoticeType DEF NoticesInv, NoticeTypes
<1>3. Settled'
  <2>1. ASSUME NEW a \in Watched, told[a].version = gauge[a].version, gauge[a].level \in Measured
        PROVE  saved'.alerts[a] = gauge[a].level /\ saved'.windows[a] = gauge[a].reset
    <3>1. sending.seen[a] = gauge[a]
      BY <1>1, <2>1, VersionTypes DEF NoticesInv, Versions
    <3> QED
      BY <1>1, <2>1, <3>1 DEF UpdatedAlerts, UpdatedWindows, Measured
  <2>2. \A d \in reportDays : dayTick = 2 * d => d \in saved'.scheduled
    BY <1>1 DEF NoticesInv, Days
  <2> QED
    BY <1>1, <2>1, <2>2 DEF Settled, Recorded
<1>4. Versions' /\ Days' /\ RepeatsPaid'
  BY <1>1, <1>3, NoNoticeType DEF NoticesInv, Versions, Days, RepeatsPaid
<1> QED
  BY <1>2, <1>4 DEF NoticesInv

-----------------------------------------------------------------------------
(* The quota changes: nobody has been told of the new version. *)
LEMMA TurnKeeps ==
    ASSUME NoticesInv, NEW a \in Watched, Turn(a)
    PROVE  NoticesInv'
<1>1. /\ UNCHANGED <<dayTick, saved, sending, told, reportDays, repeated, slips>>
      /\ \E level \in Levels, reset \in Nat :
             gauge' = [gauge EXCEPT ![a] = [level |-> level, reset |-> reset,
                                            version |-> gauge[a].version + 1]]
  <2>1. gauge[a].reset \in Nat /\ dayTick + 2 \in Nat
    BY VersionTypes DEF NoticesInv, NoticeTypes
  <2> QED
    BY <2>1 DEF Turn
<1>2. /\ gauge' \in [Watched -> State] /\ gauge'[a].version = gauge[a].version + 1
      /\ \A b \in Watched \ {a} : gauge'[b] = gauge[b]
  BY <1>1 DEF NoticesInv, NoticeTypes, State
<1>3. \A b \in Watched : /\ gauge[b].version \in Nat /\ told[b].version \in Nat
                         /\ sending.seen[b].version \in Nat
  BY DEF NoticesInv, NoticeTypes, State
<1>4. NoticeTypes'
  BY <1>1, <1>2 DEF NoticesInv, NoticeTypes
<1>5. Versions'
  BY <1>1, <1>2, <1>3 DEF NoticesInv, Versions
<1>6. Days'
  BY <1>1 DEF NoticesInv, Days
<1>7. Settled => Settled'
  BY <1>1, <1>2, <1>3 DEF NoticesInv, Versions, Settled, Recorded
<1>8. RepeatsPaid'
  BY <1>1, <1>7 DEF NoticesInv, RepeatsPaid, News
<1> QED
  BY <1>4, <1>5, <1>6, <1>8 DEF NoticesInv

(* Time passes: the report of a new day has not been sent. *)
LEMMA DayTickKeeps ==
    ASSUME NoticesInv, DayTick
    PROVE  NoticesInv'
<1>1. /\ dayTick' = dayTick + 1
      /\ UNCHANGED <<gauge, saved, sending, told, reportDays, repeated, slips>>
  BY DEF DayTick
<1>2. NoticeTypes' /\ Versions'
  BY <1>1 DEF NoticesInv, NoticeTypes, Versions
<1>3. \A d \in reportDays : dayTick' # 2 * d
  BY <1>1 DEF NoticesInv, NoticeTypes, Days
<1>4. Days'
  BY <1>1, <1>3 DEF NoticesInv, NoticeTypes, Days
<1>5. RepeatsPaid'
  BY <1>1, <1>3 DEF NoticesInv, RepeatsPaid, News, Settled, Recorded
<1> QED
  BY <1>2, <1>4, <1>5 DEF NoticesInv

-----------------------------------------------------------------------------
(* The inductive invariant: every repetition uses up a failure that left   *)
(* something unrecorded, and a saved round leaves nothing unrecorded.      *)
THEOREM NoticesInductive == NoticeSpec => []NoticesInv
<1>1. NoticeInit => NoticesInv
  <2> SUFFICES ASSUME NoticeInit PROVE NoticesInv
    OBVIOUS
  <2>1. NoticeTypes
    BY NoNoticeType DEF NoticeInit, NoticeTypes, State, Levels, Measured
  <2>2. Versions /\ Days /\ RepeatsPaid
    BY NoNoticeType DEF NoticeInit, Versions, Days, RepeatsPaid, Settled, Recorded
  <2> QED
    BY <2>1, <2>2 DEF NoticesInv
<1>2. NoticesInv /\ [NoticeNext]_noticeVars => NoticesInv'
  <2> SUFFICES ASSUME NoticesInv, [NoticeNext]_noticeVars PROVE NoticesInv'
    OBVIOUS
  <2>1. CASE NoticeStep
    BY <2>1, CollectKeeps, SendKeeps, SaveKeeps DEF NoticeStep
  <2>2. CASE SendFails \/ NoticeLost
    BY <2>2, SlipKeeps
  <2>3. CASE CheckIntervalPasses \/ UNCHANGED noticeVars
    BY <2>3 DEF CheckIntervalPasses, noticeVars, NoticesInv, NoticeTypes, Versions, Days,
                RepeatsPaid,
                Settled, Recorded, News
  <2>4. CASE DayTick
    BY <2>4, DayTickKeeps
  <2>5. CASE \E a \in Watched : Turn(a)
    BY <2>5, TurnKeeps
  <2> QED
    BY <2>1, <2>2, <2>3, <2>4, <2>5 DEF NoticeNext
<1> QED
  BY <1>1, <1>2, PTL DEF NoticeSpec

(* A message that tells nothing new is the price of one lost answer, one   *)
(* failed save or one restart, whatever levels, windows and days do        *)
(* (worker.go: RunOnce, recordError, patchState).                          *)
THEOREM RepeatsArePaid == NoticeSpec => []RepeatNeedsFailure
BY NoticesInductive, PTL DEF NoticesInv, RepeatsPaid, RepeatNeedsFailure

(***************************************************************************)
(* The plans of Failover and of Admin.  The planners are loops over finite *)
(* sets of numbers; a set's last step is that of its largest number.       *)
(***************************************************************************)
NumberSet(S) == S \subseteq Nat /\ IsFiniteSet(S)

LEMMA LargestNumber ==
    ASSUME NEW S, NumberSet(S), S # {}
    PROVE  Max(S) \in S /\ \A y \in S : y <= Max(S)
<1> DEFINE Top(s) == \E x \in s : \A y \in s : y <= x
           T == {n \in Nat : \E s \in SUBSET S : s # {} /\ Cardinality(s) = n /\ ~Top(s)}
<1>1. ASSUME T # {} PROVE FALSE
  <2>1. PICK n \in T : \A m \in T : n <= m
    BY <1>1, LeastNumber
  <2>2. PICK s \in SUBSET S : s # {} /\ Cardinality(s) = n /\ ~Top(s)
    BY <2>1
  <2>3. PICK x \in s : TRUE
    BY <2>2
  <2> DEFINE r == s \ {x}
  <2>4. IsFiniteSet(s) /\ Cardinality(r) = n - 1
    BY <2>2, <2>3, FS_Subset, FS_RemoveElement DEF NumberSet
  <2>5. IsFiniteSet(r) /\ Cardinality(r) \in Nat /\ n \in Nat
    BY <2>1, <2>4, FS_RemoveElement, FS_CardinalityType
  <2>6. n - 1 \notin T
    <3> HIDE DEF T
    <3> QED
      BY <2>1, <2>4, <2>5
  <2>7. CASE r = {}
    <3>1. s = {x} /\ x \in Nat
      BY <2>3, <2>7 DEF NumberSet
    <3> QED
      BY <2>2, <3>1
  <2>8. CASE r # {}
    <3>1. Top(r)
      BY <2>4, <2>5, <2>6, <2>8
    <3>2. PICK z \in r : \A y \in r : y <= z
      BY <3>1
    <3>3. x \in Nat /\ z \in Nat /\ z \in s /\ \A y \in s : y = x \/ y \in r
      BY <2>3, <3>2 DEF NumberSet
    <3>4. CASE x <= z
      BY <2>2, <3>2, <3>3, <3>4
    <3>5. CASE z <= x
      <4>1. \A y \in r : y <= x
        BY <3>2, <3>3, <3>5 DEF NumberSet
      <4> QED
        BY <2>2, <2>3, <3>3, <4>1
    <3> QED
      BY <3>3, <3>4, <3>5
  <2> QED
    BY <2>7, <2>8
<1>2. Cardinality(S) \in Nat
  BY FS_CardinalityType DEF NumberSet
<1>3. Top(S)
  BY <1>1, <1>2
<1>4. PICK x \in S : \A y \in S : x >= y
  BY <1>3 DEF NumberSet
<1> QED
  BY <1>4 DEF Max, NumberSet

LEMMA WithoutLargest ==
    ASSUME NEW S, NumberSet(S), NEW s \in SUBSET S, s # {}
    PROVE  /\ Max(s) \in s /\ s \ {Max(s)} \in SUBSET S
           /\ Cardinality(s) \in Nat /\ Cardinality(s) >= 1
           /\ Cardinality(s \ {Max(s)}) = Cardinality(s) - 1
<1>1. NumberSet(s)
  BY FS_Subset DEF NumberSet
<1>2. Max(s) \in s
  BY <1>1, LargestNumber
<1>3. Cardinality(s) \in Nat /\ Cardinality(s) # 0
  BY <1>1, FS_CardinalityType, FS_EmptySet DEF NumberSet
<1>4. Cardinality(s \ {Max(s)}) = Cardinality(s) - 1
  BY <1>1, <1>2, FS_RemoveElement DEF NumberSet
<1> QED
  BY <1>2, <1>3, <1>4

(* What holds of the empty set, and of a set if it holds without its       *)
(* largest number, holds of every subset.                                  *)
LEMMA ByLargest ==
    ASSUME NEW S, NumberSet(S), NEW G, {} \in G,
           \A s \in SUBSET S : s # {} /\ s \ {Max(s)} \in G => s \in G
    PROVE  SUBSET S \subseteq G
<1> DEFINE T == {n \in Nat : \E s \in SUBSET S : Cardinality(s) = n /\ s \notin G}
<1>1. ASSUME T # {} PROVE FALSE
  <2>1. PICK n \in T : \A m \in T : n <= m
    BY <1>1, LeastNumber
  <2>2. PICK s \in SUBSET S : Cardinality(s) = n /\ s \notin G
    BY <2>1
  <2>3. s # {}
    BY <2>2
  <2> DEFINE r == s \ {Max(s)}
  <2>4. r \in SUBSET S /\ Cardinality(r) = n - 1 /\ n \in Nat /\ n >= 1
    BY <2>2, <2>3, WithoutLargest
  <2>5. r \notin G
    BY <2>2, <2>3
  <2> HIDE DEF r
  <2>6. n - 1 \in T
    BY <2>4, <2>5
  <2> HIDE DEF T
  <2> QED
    BY <2>1, <2>4, <2>6
<1>2. ASSUME NEW s \in SUBSET S PROVE Cardinality(s) \in Nat
  BY FS_Subset, FS_CardinalityType DEF NumberSet
<1> QED
  BY <1>1, <1>2

(* The bodies of the planners' loops.                                      *)
OneTurn(loop, states, candidates, i, x) ==
    IF loop = "assign" THEN Assign(states, candidates, i, x)
    ELSE IF loop = "count" THEN CountOne(states, candidates, x)
    ELSE FillFirst(candidates, i, x)
Turned(loop, states, candidates, start, s, it) ==
    IF s = {} THEN start
    ELSE OneTurn(loop, states, candidates, Max(s), it[s \ {Max(s)}])
NoMoreThan(S, n) == {s \in SUBSET S : Cardinality(s) <= n}

LEMMA LoopsEnd ==
    ASSUME NEW S, NumberSet(S), NEW loop, NEW states, NEW candidates, NEW start
    PROVE  \E it : it = [s \in SUBSET S |-> Turned(loop, states, candidates, start, s, it)]
<1> DEFINE F(s, it) == Turned(loop, states, candidates, start, s, it)
           P(n) == \E it : it = [s \in NoMoreThan(S, n) |-> F(s, it)]
<1>0. ASSUME NEW s, NEW it, NEW jt, s # {} => it[s \ {Max(s)}] = jt[s \ {Max(s)}]
      PROVE  F(s, it) = F(s, jt)
  BY <1>0 DEF Turned
<1>1. P(0)
  <2> DEFINE it == [s \in NoMoreThan(S, 0) |-> start]
  <2>1. ASSUME NEW s \in NoMoreThan(S, 0) PROVE s = {}
    <3>1. s \in SUBSET S /\ Cardinality(s) <= 0
      BY DEF NoMoreThan
    <3>2. s # {} => Cardinality(s) \in Nat /\ Cardinality(s) >= 1
      BY <3>1, WithoutLargest
    <3> QED
      BY <3>1, <3>2
  <2>2. \A s \in NoMoreThan(S, 0) : F(s, it) = start
    BY <2>1 DEF Turned
  <2> HIDE DEF F
  <2>3. it = [s \in NoMoreThan(S, 0) |-> F(s, it)]
    BY <2>2
  <2> QED
    BY <2>3
<1> HIDE DEF F
<1>2. ASSUME NEW n \in Nat, P(n) PROVE P(n + 1)
  <2>1. PICK it : it = [s \in NoMoreThan(S, n) |-> F(s, it)]
    BY <1>2
  <2> DEFINE jt == [s \in NoMoreThan(S, n + 1) |-> F(s, it)]
  <2>2. NoMoreThan(S, n) \subseteq NoMoreThan(S, n + 1)
    <3> SUFFICES ASSUME NEW s \in SUBSET S, Cardinality(s) <= n PROVE Cardinality(s) <= n + 1
      BY DEF NoMoreThan
    <3>1. Cardinality(s) \in Nat
      BY FS_Subset, FS_CardinalityType DEF NumberSet
    <3> QED
      BY <3>1
  <2>3. ASSUME NEW s \in NoMoreThan(S, n) PROVE jt[s] = it[s]
    <3>1. it[s] = F(s, it)
      BY <2>1
    <3>2. jt[s] = F(s, it)
      BY <2>2
    <3> QED
      BY <3>1, <3>2
  <2>4. ASSUME NEW s \in NoMoreThan(S, n + 1), s # {} PROVE s \ {Max(s)} \in NoMoreThan(S, n)
    <3>1. s \in SUBSET S /\ Cardinality(s) <= n + 1
      BY DEF NoMoreThan
    <3>2. /\ s \ {Max(s)} \in SUBSET S /\ Cardinality(s) \in Nat
          /\ Cardinality(s \ {Max(s)}) = Cardinality(s) - 1
      BY <2>4, <3>1, WithoutLargest
    <3> QED
      BY <3>1, <3>2 DEF NoMoreThan
  <2> HIDE DEF jt
  <2>5. ASSUME NEW s \in NoMoreThan(S, n + 1) PROVE F(s, it) = F(s, jt)
    BY <1>0, <2>3, <2>4
  <2>6. jt = [s \in NoMoreThan(S, n + 1) |-> F(s, jt)]
    BY <2>5 DEF jt
  <2> QED
    BY <2>6
<1> HIDE DEF P
<1>3. \A n \in Nat : P(n)
  <2> DEFINE T == {n \in Nat : ~P(n)}
  <2> SUFFICES ASSUME T # {} PROVE FALSE
    OBVIOUS
  <2>1. PICK n \in T : \A m \in T : n <= m
    BY LeastNumber
  <2>2. n \in Nat /\ n # 0 /\ ~P(n)
    BY <1>1, <2>1
  <2>3. n - 1 \in Nat /\ n - 1 \notin T
    BY <2>1, <2>2
  <2>4. P((n - 1) + 1)
    BY <1>2, <2>3
  <2> QED
    BY <2>2, <2>4
<1>4. Cardinality(S) \in Nat
  BY FS_CardinalityType DEF NumberSet
<1>5. NoMoreThan(S, Cardinality(S)) = SUBSET S
  BY FS_Subset DEF NoMoreThan, NumberSet
<1>6. \E it : it = [s \in NoMoreThan(S, Cardinality(S)) |-> F(s, it)]
  BY <1>3, <1>4 DEF P
<1> QED
  BY <1>5, <1>6 DEF F

(* The loop as TLA+ defines it, and its turns. *)
Loop(loop, states, candidates, start, S) ==
    CHOOSE it : it = [s \in SUBSET S |-> Turned(loop, states, candidates, start, s, it)]

LEMMA LoopTurns ==
    ASSUME NEW S, NumberSet(S), NEW loop, NEW states, NEW candidates, NEW start
    PROVE  LET it == Loop(loop, states, candidates, start, S)
           IN  /\ it[{}] = start
               /\ \A s \in SUBSET S : s # {} =>
                     it[s] = OneTurn(loop, states, candidates, Max(s), it[s \ {Max(s)}])
<1> DEFINE it == Loop(loop, states, candidates, start, S)
<1>1. it = [s \in SUBSET S |-> Turned(loop, states, candidates, start, s, it)]
  BY LoopsEnd DEF Loop
<1> HIDE DEF it
<1>2. \A s \in SUBSET S : it[s] = Turned(loop, states, candidates, start, s, it)
  BY <1>1
<1>3. it[{}] = start
  BY <1>2 DEF Turned
<1>4. ASSUME NEW s \in SUBSET S, s # {}
      PROVE  it[s] = OneTurn(loop, states, candidates, Max(s), it[s \ {Max(s)}])
  BY <1>2, <1>4 DEF Turned
<1> QED
  BY <1>3, <1>4 DEF it

LEMMA LoopsAreTheirs ==
    ASSUME NEW states, NEW sources
    PROVE  /\ PlanEvacuation(states, sources)
              = Loop("assign", states, Candidates(states, sources),
                     [to |-> NoMove, load |-> LoadOf(ActivePeople)],
                     Affected(sources) \cap Routable)[Affected(sources) \cap Routable].to
           /\ \A total : WeightedTargetCounts(total, states)
                 = Loop("count", states, Candidates(states, {}), [b \in Backend |-> 0],
                        1..total)[1..total]
<1>1. PlanEvacuation(states, sources)
      = Loop("assign", states, Candidates(states, sources),
             [to |-> NoMove, load |-> LoadOf(ActivePeople)],
             Affected(sources) \cap Routable)[Affected(sources) \cap Routable].to
  BY DEF PlanEvacuation, InOrder, MapThenFoldSet, Loop, Turned, OneTurn
<1>2. ASSUME NEW total
      PROVE  WeightedTargetCounts(total, states)
             = Loop("count", states, Candidates(states, {}), [b \in Backend |-> 0],
                    1..total)[1..total]
  BY DEF WeightedTargetCounts, InOrder, MapThenFoldSet, Loop, Turned, OneTurn
<1> QED
  BY <1>1, <1>2

---------------------------------------------------------------------------
(* The account with the least load in proportion to its headroom.          *)
Gauged == [eligible : BOOLEAN, exhausted : BOOLEAN, disallowed : BOOLEAN,
           headroom : Nat, used : Int]
Counts == [Backend -> Nat]
Open(states, C) == C \subseteq Backend /\ \A b \in C : states[b].headroom > 0

(* Fractions compared by cross multiplication. *)
LEMMA Cancelled ==
    ASSUME NEW x \in Nat, NEW y \in Nat, NEW n \in Nat, n > 0
    PROVE  /\ x * n <= y * n => x <= y
           /\ x * n < y * n => x < y
           /\ x <= y => x * n <= y * n
           /\ x < y => x * n < y * n
BY Z3

LEMMA FractionsCompare ==
    ASSUME NEW kb \in Nat, NEW kc \in Nat, NEW kd \in Nat,
           NEW hb \in Nat, NEW hc \in Nat, NEW hd \in Nat, hb > 0, hc > 0, hd > 0,
           kb * hc <= kc * hb, kc * hd <= kd * hc
    PROVE  /\ kb * hd <= kd * hb
           /\ kb * hc < kc * hb \/ kc * hd < kd * hc => kb * hd < kd * hb
<1> DEFINE p == kb * hc  q == kc * hb  r == kc * hd  s == kd * hc  v == kb * hd  w == kd * hb
<1>1. /\ p \in Nat /\ q \in Nat /\ r \in Nat /\ s \in Nat /\ v \in Nat /\ w \in Nat
  OBVIOUS
<1>2. v * hc = p * hd /\ q * hd = r * hb /\ s * hb = w * hc
  OBVIOUS
<1>3. p <= q /\ r <= s
  OBVIOUS
<1> SUFFICES v <= w /\ (p < q \/ r < s => v < w)
  OBVIOUS
<1> HIDE DEF p, q, r, s, v, w
<1>4. p * hd <= q * hd /\ r * hb <= s * hb
  BY <1>1, <1>3, Cancelled
<1>5. p * hd \in Nat /\ q * hd \in Nat /\ r * hb \in Nat /\ s * hb \in Nat
      /\ v * hc \in Nat /\ w * hc \in Nat
  BY <1>1
<1>6. v * hc <= w * hc
  BY <1>2, <1>4, <1>5
<1>7. v <= w
  BY <1>1, <1>6, Cancelled
<1>8. CASE p < q
  <2>1. p * hd < q * hd
    BY <1>1, <1>8, Cancelled
  <2>2. v * hc < w * hc
    BY <2>1, <1>2, <1>4, <1>5
  <2> QED
    BY <1>1, <1>7, <2>2, Cancelled
<1>9. CASE r < s
  <2>1. r * hb < s * hb
    BY <1>1, <1>9, Cancelled
  <2>2. v * hc < w * hc
    BY <2>1, <1>2, <1>4, <1>5
  <2> QED
    BY <1>1, <1>7, <2>2, Cancelled
<1> QED
  BY <1>7, <1>8, <1>9

LEMMA WeightedOrder ==
    ASSUME NEW states \in [Backend -> Gauged], NEW load \in Counts,
           NEW C, Open(states, C)
    PROVE  /\ \A b, c \in C : b # c =>
                 WeightedLess(states, load, b, c) \/ WeightedLess(states, load, c, b)
           /\ \A b, c, d \in C :
                 WeightedLess(states, load, b, c) /\ WeightedLess(states, load, c, d)
                 => WeightedLess(states, load, b, d)
<1>1. ASSUME NEW b \in C
      PROVE  /\ load[b] + 1 \in Nat /\ states[b].headroom \in Nat /\ states[b].headroom > 0
             /\ states[b].used \in Int /\ b \in Nat
  BY RouteFailoverAssumption DEF Open, Gauged, Counts
<1>2. ASSUME NEW b \in C, NEW c \in C, b # c
      PROVE  WeightedLess(states, load, b, c) \/ WeightedLess(states, load, c, b)
  <2> DEFINE x == (load[b] + 1) * states[c].headroom
             y == (load[c] + 1) * states[b].headroom
  <2>1. x \in Nat /\ y \in Nat
    BY <1>1
  <2> HIDE DEF x, y
  <2>2. x < y \/ x = y \/ y < x
    BY <2>1
  <2>3. states[b].used < states[c].used \/ states[b].used = states[c].used
        \/ states[c].used < states[b].used
    BY <1>1
  <2>4. b < c \/ c < b
    BY <1>1, <1>2
  <2> QED
    BY <2>2, <2>3, <2>4 DEF WeightedLess, x, y
<1>3. ASSUME NEW b \in C, NEW c \in C, NEW d \in C,
             WeightedLess(states, load, b, c), WeightedLess(states, load, c, d)
      PROVE  WeightedLess(states, load, b, d)
  <2> DEFINE kb == load[b] + 1  kc == load[c] + 1  kd == load[d] + 1
             hb == states[b].headroom  hc == states[c].headroom  hd == states[d].headroom
             ub == states[b].used  uc == states[c].used  ud == states[d].used
  <2>1. /\ kb \in Nat /\ kc \in Nat /\ kd \in Nat /\ hb \in Nat /\ hc \in Nat /\ hd \in Nat
        /\ hb > 0 /\ hc > 0 /\ hd > 0
        /\ ub \in Int /\ uc \in Int /\ ud \in Int /\ b \in Nat /\ c \in Nat /\ d \in Nat
    BY <1>1
  <2>2. /\ kb * hc < kc * hb \/ (kb * hc = kc * hb /\ (ub < uc \/ (ub = uc /\ b < c)))
        /\ kc * hd < kd * hc \/ (kc * hd = kd * hc /\ (uc < ud \/ (uc = ud /\ c < d)))
    BY <1>3 DEF WeightedLess
  <2>3. SUFFICES kb * hd < kd * hb \/ (kb * hd = kd * hb /\ (ub < ud \/ (ub = ud /\ b < d)))
    BY DEF WeightedLess
  <2> HIDE DEF kb, kc, kd, hb, hc, hd, ub, uc, ud
  <2> DEFINE p == kb * hc  q == kc * hb  r == kc * hd  s == kd * hc  v == kb * hd  w == kd * hb
  <2>4. /\ p \in Nat /\ q \in Nat /\ r \in Nat /\ s \in Nat /\ v \in Nat /\ w \in Nat
    BY <2>1
  <2>5. p <= q /\ r <= s
    BY <2>2, <2>4
  <2>6. v <= w /\ (p < q \/ r < s => v < w)
    BY <2>1, <2>5, FractionsCompare
  <2> HIDE DEF p, q, r, s, v, w
  <2>7. /\ p < q \/ (p = q /\ (ub < uc \/ (ub = uc /\ b < c)))
        /\ r < s \/ (r = s /\ (uc < ud \/ (uc = ud /\ c < d)))
    BY <2>2 DEF p, q, r, s
  <2>8. v < w \/ (v = w /\ (ub < ud \/ (ub = ud /\ b < d)))
    BY <2>1, <2>4, <2>6, <2>7
  <2> QED
    BY <2>8 DEF v, w
<1> QED
  BY <1>2, <1>3

LEMMA LeastChosen ==
    ASSUME NEW states \in [Backend -> Gauged], NEW load \in Counts,
           NEW C, Open(states, C), C # {}
    PROVE  LET b == LeastWeighted(states, load, C)
           IN  /\ b \in C
               /\ \A c \in C : load[b] * states[c].headroom <= (load[c] + 1) * states[b].headroom
               /\ \A c \in C \ {b} :
                     (load[b] + 1) * states[c].headroom <= (load[c] + 1) * states[b].headroom
<1> DEFINE Less(b, c) == WeightedLess(states, load, b, c)
           Least(s) == \E b \in s : \A c \in s \ {b} : Less(b, c)
           G == {s \in SUBSET C : s # {} => Least(s)}
<1>1. NumberSet(C)
  BY FS_Subset, RouteFailoverAssumption DEF NumberSet, Open
<1>2. {} \in G
  OBVIOUS
<1>3. ASSUME NEW s \in SUBSET C, s # {}, s \ {Max(s)} \in G PROVE s \in G
  <2> DEFINE x == Max(s)  r == s \ {x}
  <2>1. x \in s /\ r \in SUBSET C
    BY <1>1, <1>3, WithoutLargest
  <2>2. r # {} => Least(r)
    BY <1>3
  <2> HIDE DEF x, Less
  <2>3. CASE r = {}
    <3>1. \A c \in s \ {x} : FALSE
      BY <2>3
    <3> QED
      BY <2>1, <3>1
  <2>4. CASE r # {}
    <3>1. PICK m \in r : \A c \in r \ {m} : Less(m, c)
      BY <2>2, <2>4
    <3>2. m \in C /\ x \in C /\ m # x /\ m \in s /\ s = r \cup {x}
      BY <2>1, <3>1
    <3>3. CASE Less(m, x)
      <4>1. \A c \in s \ {m} : Less(m, c)
        BY <3>1, <3>2, <3>3
      <4> QED
        BY <3>2, <4>1
    <3>4. CASE Less(x, m)
      <4>1. ASSUME NEW c \in s \ {x} PROVE Less(x, c)
        <5>1. c = m \/ (Less(m, c) /\ c \in C)
          BY <2>1, <3>1
        <5> QED
          BY <3>2, <3>4, <5>1, WeightedOrder DEF Less
      <4> QED
        BY <2>1, <4>1
    <3> QED
      BY <3>2, <3>3, <3>4, WeightedOrder DEF Less
  <2> QED
    BY <2>3, <2>4
<1>4. Least(C)
  <2> HIDE DEF G
  <2>1. C \in G
    BY <1>1, <1>2, <1>3, ByLargest
  <2> QED
    BY <2>1 DEF G
<1> DEFINE b == LeastWeighted(states, load, C)
<1>5. b \in C /\ \A c \in C \ {b} : WeightedLess(states, load, b, c)
  BY <1>4 DEF LeastWeighted
<1> HIDE DEF b
<1>6. ASSUME NEW c \in C
      PROVE  load[c] \in Nat /\ states[c].headroom \in Nat /\ load[b] \in Nat
             /\ states[b].headroom \in Nat
  BY <1>5 DEF Open, Counts, Gauged
<1>7. ASSUME NEW c \in C
      PROVE  /\ load[b] * states[c].headroom <= (load[c] + 1) * states[b].headroom
             /\ c # b => (load[b] + 1) * states[c].headroom <= (load[c] + 1) * states[b].headroom
  <2> DEFINE x == (load[b] + 1) * states[c].headroom
             y == (load[c] + 1) * states[b].headroom
             z == load[b] * states[c].headroom
  <2>1. x \in Nat /\ y \in Nat /\ z \in Nat /\ x = z + states[c].headroom
    <3>1. \A l, h \in Nat : (l + 1) * h = l * h + h /\ (l + 1) * h \in Nat /\ l * h \in Nat
      OBVIOUS
    <3> QED
      BY <1>6, <3>1
  <2>2. CASE c # b
    <3>1. x < y \/ x = y
      BY <1>5, <2>2 DEF WeightedLess
    <3> HIDE DEF x, y, z
    <3>2. x <= y /\ z <= y
      BY <1>6, <2>1, <3>1
    <3> QED
      BY <3>2 DEF x, y, z
  <2>3. CASE c = b
    <3>1. x = y
      BY <2>3
    <3> HIDE DEF x, y, z
    <3>2. z <= y
      BY <1>6, <2>1, <3>1
    <3> QED
      BY <2>3, <3>2 DEF y, z
  <2> QED
    BY <2>2, <2>3
<1> QED
  BY <1>5, <1>7 DEF b
---------------------------------------------------------------------------
(* What an evacuation has spread after the users in s.                     *)
Ways == [Person -> Backend \cup {Nowhere}]
Heading(to, p) == IF to[p] = Nowhere THEN way[p] ELSE to[p]
Users(to, b) == {p \in ActivePeople : Heading(to, p) = b}

Spread(states, C, plan, s) ==
    /\ plan.to \in [Person -> C \cup {Nowhere}]
    /\ plan.load \in Counts
    /\ \A p \in Person : plan.to[p] # Nowhere <=> p \in s
    /\ \A b \in C : plan.load[b] = Cardinality(Users(plan.to, b))
    /\ \A p \in s, c \in C :
          plan.load[plan.to[p]] * states[c].headroom
          <= (plan.load[c] + 1) * states[plan.to[p]].headroom

LEMMA UsersCounted ==
    ASSUME NEW to, NEW b
    PROVE  IsFiniteSet(Users(to, b)) /\ Cardinality(Users(to, b)) \in Nat
<1>1. Users(to, b) \in SUBSET Person
  BY DEF Users, ActivePeople
<1> QED
  BY <1>1, FS_Subset, FS_CardinalityType, RouteFailoverAssumption

LEMMA AssignSpreads ==
    ASSUME NEW states \in [Backend -> Gauged], NEW C, Open(states, C), C # {},
           NEW plan, NEW s \in SUBSET Person, Spread(states, C, plan, s),
           NEW p \in ActivePeople \ s, way[p] \notin C
    PROVE  Spread(states, C, Assign(states, C, p, plan), s \cup {p})
<1> DEFINE b == LeastWeighted(states, plan.load, C)
           more == Assign(states, C, p, plan)
<1>1. /\ b \in C
      /\ \A c \in C : plan.load[b] * states[c].headroom <= (plan.load[c] + 1) * states[b].headroom
      /\ \A c \in C \ {b} :
            (plan.load[b] + 1) * states[c].headroom <= (plan.load[c] + 1) * states[b].headroom
  BY LeastChosen DEF Spread
<1>2. more.to = [plan.to EXCEPT ![p] = b] /\ more.load = [plan.load EXCEPT ![b] = @ + 1]
  BY DEF Assign
<1> HIDE DEF b, more
<1>3. p \in Person /\ C \subseteq Backend /\ b # Nowhere
  BY <1>1, RouteFailoverAssumption DEF ActivePeople, Open
<1>4. /\ more.to \in [Person -> C \cup {Nowhere}] /\ more.to[p] = b
      /\ \A q \in Person \ {p} : more.to[q] = plan.to[q]
  BY <1>1, <1>2, <1>3 DEF Spread
<1>5. plan.load \in [Backend -> Nat] /\ b \in Backend
  BY <1>1, <1>3 DEF Spread, Counts
<1>6. /\ more.load \in Counts /\ more.load[b] = plan.load[b] + 1
      /\ \A c \in Backend \ {b} : more.load[c] = plan.load[c]
  BY <1>2, <1>5 DEF Counts
<1>7. ASSUME NEW c \in C PROVE more.load[c] = Cardinality(Users(more.to, c))
  <2>1. \A q \in ActivePeople \ {p} : Heading(more.to, q) = Heading(plan.to, q)
    BY <1>4 DEF Heading, ActivePeople
  <2>2. Heading(more.to, p) = b /\ Heading(plan.to, p) = way[p]
    BY <1>3, <1>4 DEF Heading, Spread
  <2>3. Users(more.to, c) = IF c = b THEN Users(plan.to, c) \cup {p} ELSE Users(plan.to, c)
    BY <2>1, <2>2 DEF Users
  <2>4. p \notin Users(plan.to, c)
    BY <2>2 DEF Users
  <2>5. plan.load[c] = Cardinality(Users(plan.to, c))
    BY DEF Spread
  <2> QED
    BY <1>3, <1>6, <2>3, <2>4, <2>5, UsersCounted, FS_AddElement
<1>8. ASSUME NEW q \in s \cup {p}, NEW c \in C
      PROVE  more.load[more.to[q]] * states[c].headroom
             <= (more.load[c] + 1) * states[more.to[q]].headroom
  <2> DEFINE d == more.to[q]
  <2>1. d \in C /\ q \in Person /\ d = (IF q = p THEN b ELSE plan.to[q])
        /\ (q \in s => plan.to[q] \in C)
    <3>1. q \in Person
      BY <1>3, <1>8
    <3> QED
      BY <1>1, <1>3, <1>4, <1>8, <3>1 DEF Spread
  <2> HIDE DEF d
  <2>2. /\ plan.load[c] \in Nat /\ plan.load[d] \in Nat /\ plan.load[b] \in Nat
        /\ states[c].headroom \in Nat /\ states[d].headroom \in Nat /\ states[b].headroom \in Nat
    BY <1>1, <1>3, <1>5, <2>1 DEF Gauged
  <2>3. \A l, m, h \in Nat : l <= m => l * h <= m * h /\ l * h \in Nat /\ m * h \in Nat
    OBVIOUS
  <2>4. /\ (plan.load[c] + 1) * states[d].headroom <= (more.load[c] + 1) * states[d].headroom
        /\ (plan.load[c] + 1) * states[d].headroom \in Nat
        /\ (more.load[c] + 1) * states[d].headroom \in Nat
        /\ more.load[d] * states[c].headroom \in Nat
    <3>1. /\ plan.load[c] + 1 \in Nat /\ more.load[c] + 1 \in Nat
          /\ plan.load[c] + 1 <= more.load[c] + 1 /\ more.load[d] \in Nat
      BY <1>3, <1>6, <2>1, <2>2
    <3> QED
      BY <2>2, <2>3, <3>1
  <2>5. CASE d = c
    <3>1. \A l, h \in Nat : l * h <= (l + 1) * h
      OBVIOUS
    <3>2. more.load[c] \in Nat
      BY <1>3, <1>6 DEF Counts
    <3> QED
      BY <2>2, <2>5, <3>1, <3>2 DEF d
  <2>6. CASE d # c /\ d = b
    <3>1. more.load[d] = plan.load[b] + 1
      BY <1>6, <2>6
    <3>2. more.load[d] * states[c].headroom <= (plan.load[c] + 1) * states[d].headroom
      BY <1>1, <2>6, <3>1
    <3> QED
      BY <2>4, <3>2 DEF d
  <2>7. CASE d # c /\ d # b
    <3>1. q \in s /\ d = plan.to[q] /\ more.load[d] = plan.load[d]
      BY <1>3, <1>6, <1>8, <2>1, <2>7
    <3>2. plan.load[d] * states[c].headroom <= (plan.load[c] + 1) * states[d].headroom
      BY <3>1 DEF Spread
    <3>3. more.load[d] * states[c].headroom <= (plan.load[c] + 1) * states[d].headroom
      BY <3>1, <3>2
    <3> QED
      BY <2>4, <3>3 DEF d
  <2> QED
    BY <2>5, <2>6, <2>7
<1>9. \A q \in Person : more.to[q] # Nowhere <=> q \in s \cup {p}
  BY <1>3, <1>4 DEF Spread
<1> QED
  BY <1>4, <1>6, <1>7, <1>8, <1>9 DEF Spread, more

LEMMA EvacuationSpreads ==
    ASSUME way \in Ways, NEW states \in [Backend -> Gauged],
           NEW sources \in SUBSET Backend, EvacuationSafe(states, sources)
    PROVE  /\ PlanEvacuation(states, sources) \in Ways
           /\ EvenEvacuation(PlanEvacuation(states, sources), states, sources)
<1> DEFINE C == Candidates(states, sources)
           A == Affected(sources)
           start == [to |-> NoMove, load |-> LoadOf(ActivePeople)]
           it == Loop("assign", states, C, start, A)
           G == {s \in SUBSET A : Spread(states, C, it[s], s)}
<1>1. /\ C # {} /\ A \subseteq Routable /\ A \subseteq ActivePeople /\ A \subseteq Person
      /\ \A p \in A : way[p] \in sources
  BY DEF EvacuationSafe, Affected, ActivePeople
<1>2. C \subseteq Backend /\ C \cap sources = {} /\ Open(states, C)
  BY DEF Candidates, Open
<1>3. NumberSet(A)
  BY <1>1, FS_Subset, RouteFailoverAssumption DEF NumberSet
<1>4. PlanEvacuation(states, sources) = it[A].to
  <2>1. Affected(sources) \cap Routable = A
    BY <1>1
  <2> QED
    BY <2>1, LoopsAreTheirs
<1>5. /\ it[{}] = start
      /\ \A s \in SUBSET A : s # {} =>
            it[s] = Assign(states, C, Max(s), it[s \ {Max(s)}])
  <2> HIDE DEF C, A, start, G
  <2>1. it[{}] = start
    BY <1>3, LoopTurns
  <2>2. ASSUME NEW s \in SUBSET A, s # {}
        PROVE  it[s] = OneTurn("assign", states, C, Max(s), it[s \ {Max(s)}])
    BY <1>3, <2>2, LoopTurns
  <2> QED
    BY <2>1, <2>2 DEF OneTurn
<1> HIDE DEF C, A, it
<1>6. {} \in G
  <2>1. NoMove \in [Person -> C \cup {Nowhere}] /\ \A p \in Person : NoMove[p] = Nowhere
    BY DEF NoMove
  <2>2. ASSUME NEW b PROVE Users(NoMove, b) = {p \in ActivePeople : way[p] = b}
    BY <2>1 DEF Users, Heading, ActivePeople
  <2>3. LoadOf(ActivePeople) \in Counts
        /\ \A b \in Backend : LoadOf(ActivePeople)[b] = Cardinality(Users(NoMove, b))
    BY <2>2, UsersCounted DEF LoadOf, Counts
  <2> QED
    BY <1>2, <1>5, <2>1, <2>3 DEF Spread
<1>7. ASSUME NEW s \in SUBSET A, s # {}, s \ {Max(s)} \in G PROVE s \in G
  <2> DEFINE p == Max(s)  r == s \ {p}
  <2>1. p \in s /\ s = r \cup {p} /\ p \notin r /\ r \in SUBSET A
    <3>1. p \in s
      BY <1>3, <1>7, WithoutLargest
    <3> QED
      BY <3>1
  <2>2. it[s] = Assign(states, C, p, it[r]) /\ Spread(states, C, it[r], r)
    BY <1>5, <1>7
  <2> HIDE DEF p, r
  <2>3. p \in ActivePeople \ r /\ way[p] \notin C
    BY <1>1, <1>2, <2>1
  <2>4. Spread(states, C, it[s], s)
    BY <1>1, <1>2, <2>1, <2>2, <2>3, AssignSpreads
  <2> QED
    BY <2>4
<1>8. Spread(states, C, it[A], A)
  <2> HIDE DEF G
  <2>1. A \in G
    BY <1>3, <1>6, <1>7, ByLargest
  <2> QED
    BY <2>1 DEF G
<1> DEFINE plan == it[A].to
<1>9. plan \in [Person -> C \cup {Nowhere}] /\ \A p \in Person : plan[p] # Nowhere <=> p \in A
  BY <1>8 DEF Spread
<1>10. \A b \in Backend : After(plan)[b] = Cardinality(Users(plan, b))
  BY DEF After, Users, Heading
<1>11. ASSUME NEW b \in sources PROVE After(plan)[b] = 0
  <2>1. ASSUME NEW p \in Users(plan, b) PROVE FALSE
    <3>1. p \in Person /\ p \in ActivePeople /\ Heading(plan, p) = b
      BY <2>1 DEF Users, ActivePeople
    <3>2. CASE p \in A
      BY <1>2, <1>9, <3>1, <3>2 DEF Heading
    <3>3. CASE p \notin A
      BY <1>9, <3>1, <3>3 DEF Heading, A, Affected
    <3> QED
      BY <3>2, <3>3
  <2>2. Users(plan, b) = {}
    BY <2>1
  <2> QED
    BY <1>10, <2>2, FS_EmptySet
<1>12. ASSUME NEW b \in {plan[p] : p \in Person} \ {Nowhere}, NEW c \in C
       PROVE  b \in C /\ Even(states, After(plan), b, c)
  <2>1. PICK p \in Person : b = plan[p]
    OBVIOUS
  <2>2. p \in A /\ b \in C
    BY <1>9, <2>1
  <2>3. it[A].load[b] = After(plan)[b] /\ it[A].load[c] = After(plan)[c]
    BY <1>2, <1>8, <1>10, <2>2 DEF Spread
  <2>4. it[A].load[b] * states[c].headroom <= (it[A].load[c] + 1) * states[b].headroom
    BY <1>8, <2>1, <2>2 DEF Spread
  <2> QED
    BY <2>2, <2>3, <2>4 DEF Even
<1> HIDE DEF plan
<1>13. EvenEvacuation(plan, states, sources)
  <2>1. \A b \in {plan[p] : p \in Person} \ {Nowhere} : b \in C
    <3>1. \A b \in {plan[p] : p \in Person} : b \in C \cup {Nowhere}
      BY <1>9
    <3> QED
      BY <3>1
  <2> QED
    BY <1>11, <1>12, <2>1 DEF EvenEvacuation, C
<1> QED
  BY <1>2, <1>4, <1>9, <1>13 DEF plan, Ways

---------------------------------------------------------------------------
(* Places: the users an account has, or is to have, one by one.            *)
Slots(f, C) == {x \in C \X Nat : x[2] >= 1 /\ x[2] <= f[x[1]]}

LEMMA OneSlotMore ==
    ASSUME NEW C, C \subseteq Backend, NEW f \in Counts, NEW b \in C, NEW g \in Counts,
           \A c \in C : g[c] = IF c = b THEN f[c] + 1 ELSE f[c],
           IsFiniteSet(Slots(f, C))
    PROVE  IsFiniteSet(Slots(g, C)) /\ Cardinality(Slots(g, C)) = Cardinality(Slots(f, C)) + 1
<1>1. f[b] \in Nat /\ \A c \in C : f[c] \in Nat /\ g[c] \in Nat
  BY DEF Counts
<1>2. Slots(g, C) = Slots(f, C) \cup {<<b, f[b] + 1>>}
  <2>1. ASSUME NEW x \in C \X Nat
        PROVE  x \in Slots(g, C) <=> x \in Slots(f, C) \/ x = <<b, f[b] + 1>>
    <3>1. PICK c \in C, i \in Nat : x = <<c, i>>
      OBVIOUS
    <3>2. /\ x \in Slots(g, C) <=> i >= 1 /\ i <= g[c]
          /\ x \in Slots(f, C) <=> i >= 1 /\ i <= f[c]
          /\ x = <<b, f[b] + 1>> <=> c = b /\ i = f[b] + 1
      BY <3>1 DEF Slots
    <3> QED
      BY <1>1, <3>2
  <2>2. <<b, f[b] + 1>> \in C \X Nat
    BY <1>1
  <2>3. Slots(f, C) \subseteq C \X Nat /\ Slots(g, C) \subseteq C \X Nat
    BY DEF Slots
  <2> QED
    BY <2>1, <2>2, <2>3
<1>3. <<b, f[b] + 1>> \notin Slots(f, C)
  BY <1>1 DEF Slots
<1> QED
  BY <1>2, <1>3, FS_AddElement

LEMMA NoSlots ==
    ASSUME NEW C, NEW f, \A c \in C : f[c] = 0
    PROVE  IsFiniteSet(Slots(f, C)) /\ Cardinality(Slots(f, C)) = 0
<1>1. Slots(f, C) = {}
  BY DEF Slots
<1> QED
  BY <1>1, FS_EmptySet

Having(w, U, b) == {p \in U : w[p] = b}

(* As many places are taken as there are users. *)
LEMMA UsersTakeSlots ==
    ASSUME NEW C, C \subseteq Backend, NEW U, NumberSet(U), NEW w, \A p \in U : w[p] \in C,
           NEW f, \A b \in C : f[b] = Cardinality(Having(w, U, b))
    PROVE  IsFiniteSet(Slots(f, C)) /\ Cardinality(Slots(f, C)) = Cardinality(U)
<1> DEFINE Tally(s) == [b \in Backend |-> Cardinality({p \in s : w[p] = b})]
           G == {s \in SUBSET U : /\ IsFiniteSet(Slots(Tally(s), C))
                                  /\ Cardinality(Slots(Tally(s), C)) = Cardinality(s)}
<1>1. ASSUME NEW s \in SUBSET U, NEW b
      PROVE  /\ IsFiniteSet({p \in s : w[p] = b})
             /\ Cardinality({p \in s : w[p] = b}) \in Nat
  <2>1. {p \in s : w[p] = b} \in SUBSET U
    OBVIOUS
  <2> QED
    BY <2>1, FS_Subset, FS_CardinalityType DEF NumberSet
<1>2. ASSUME NEW s \in SUBSET U PROVE Tally(s) \in Counts
  BY <1>1 DEF Counts
<1>3. {} \in G
  <2>1. \A b \in C : Tally({})[b] = 0
    <3>1. \A b : {p \in {} : w[p] = b} = {}
      OBVIOUS
    <3> QED
      BY <3>1, FS_EmptySet
  <2> HIDE DEF Tally
  <2> QED
    BY <2>1, NoSlots, FS_EmptySet
<1>4. ASSUME NEW s \in SUBSET U, s # {}, s \ {Max(s)} \in G PROVE s \in G
  <2> DEFINE q == Max(s)  r == s \ {q}
  <2>1. q \in s /\ r \in SUBSET U /\ Cardinality(s) \in Nat /\ Cardinality(r) = Cardinality(s) - 1
    BY <1>4, WithoutLargest
  <2>2. q \notin r /\ s = r \cup {q} /\ w[q] \in C
    BY <2>1
  <2>3. IsFiniteSet(Slots(Tally(r), C)) /\ Cardinality(Slots(Tally(r), C)) = Cardinality(r)
    BY <1>4
  <2> HIDE DEF q, r
  <2>4. ASSUME NEW c \in C
        PROVE  Tally(s)[c] = IF c = w[q] THEN Tally(r)[c] + 1 ELSE Tally(r)[c]
    <3>1. {p \in s : w[p] = c} = IF c = w[q] THEN {p \in r : w[p] = c} \cup {q}
                                 ELSE {p \in r : w[p] = c}
      BY <2>2
    <3>2. q \notin {p \in r : w[p] = c} /\ IsFiniteSet({p \in r : w[p] = c})
      BY <1>1, <2>1, <2>2
    <3>3. Cardinality({p \in r : w[p] = c} \cup {q}) = Cardinality({p \in r : w[p] = c}) + 1
      BY <3>2, FS_AddElement
    <3> QED
      BY <3>1, <3>3
  <2>5. Tally(s) \in Counts /\ Tally(r) \in Counts
    BY <1>2, <2>1
  <2> HIDE DEF Tally
  <2>6. IsFiniteSet(Slots(Tally(s), C))
        /\ Cardinality(Slots(Tally(s), C)) = Cardinality(Slots(Tally(r), C)) + 1
    BY <2>2, <2>3, <2>4, <2>5, OneSlotMore
  <2> QED
    BY <2>1, <2>3, <2>6
<1>5. U \in G
  <2> HIDE DEF G
  <2> QED
    BY <1>3, <1>4, ByLargest
<1>6. Slots(f, C) = Slots(Tally(U), C)
  <2>1. \A b \in C : f[b] = Tally(U)[b]
    BY DEF Having
  <2> HIDE DEF Tally
  <2> QED
    BY <2>1 DEF Slots
<1> QED
  BY <1>5, <1>6

---------------------------------------------------------------------------
(* weightedTargetCounts gives every user a place, evenly.                  *)
Weighed(states, C, count, n) ==
    /\ count \in Counts
    /\ IsFiniteSet(Slots(count, C)) /\ Cardinality(Slots(count, C)) = n
    /\ \A b, c \in C : count[b] > 0 => Even(states, count, b, c)

LEMMA CountsOneMore ==
    ASSUME NEW states \in [Backend -> Gauged], NEW C, Open(states, C), C # {},
           NEW count, NEW n \in Nat, Weighed(states, C, count, n)
    PROVE  Weighed(states, C, CountOne(states, C, count), n + 1)
<1> DEFINE b == LeastWeighted(states, count, C)
           more == CountOne(states, C, count)
<1>1. count \in [Backend -> Nat] /\ C \subseteq Backend
  BY DEF Weighed, Counts, Open
<1>2. /\ b \in C
      /\ \A c \in C : count[b] * states[c].headroom <= (count[c] + 1) * states[b].headroom
      /\ \A c \in C \ {b} :
            (count[b] + 1) * states[c].headroom <= (count[c] + 1) * states[b].headroom
  BY LeastChosen DEF Weighed
<1>3. more = [count EXCEPT ![b] = @ + 1]
  BY DEF CountOne
<1> HIDE DEF b, more
<1>4. /\ more \in Counts /\ more[b] = count[b] + 1
      /\ \A c \in Backend \ {b} : more[c] = count[c]
  BY <1>1, <1>2, <1>3 DEF Counts
<1>5. IsFiniteSet(Slots(more, C)) /\ Cardinality(Slots(more, C)) = n + 1
  <2>1. \A c \in C : more[c] = IF c = b THEN count[c] + 1 ELSE count[c]
    BY <1>1, <1>4
  <2> QED
    BY <1>1, <1>2, <1>4, <2>1, OneSlotMore DEF Weighed
<1>6. ASSUME NEW d \in C, NEW c \in C, more[d] > 0
      PROVE  more[d] * states[c].headroom <= (more[c] + 1) * states[d].headroom
  <2>1. /\ count[c] \in Nat /\ count[d] \in Nat /\ more[c] \in Nat /\ more[d] \in Nat
        /\ states[c].headroom \in Nat /\ states[d].headroom \in Nat
    BY <1>1, <1>4 DEF Gauged, Counts
  <2>2. \A l, m, h \in Nat : l <= m => l * h <= m * h /\ l * h \in Nat /\ m * h \in Nat
    OBVIOUS
  <2>3. /\ (count[c] + 1) * states[d].headroom <= (more[c] + 1) * states[d].headroom
        /\ (count[c] + 1) * states[d].headroom \in Nat
        /\ (more[c] + 1) * states[d].headroom \in Nat
        /\ more[d] * states[c].headroom \in Nat
    <3>1. count[c] + 1 \in Nat /\ more[c] + 1 \in Nat /\ count[c] + 1 <= more[c] + 1
      BY <1>1, <1>4, <2>1
    <3> QED
      BY <2>1, <2>2, <3>1
  <2>4. CASE d = c
    <3>1. \A l, h \in Nat : l * h <= (l + 1) * h
      OBVIOUS
    <3> QED
      BY <2>1, <2>4, <3>1
  <2>5. CASE d # c /\ d = b
    <3>1. more[d] * states[c].headroom <= (count[c] + 1) * states[d].headroom
      BY <1>2, <1>4, <2>5
    <3> QED
      BY <2>3, <3>1
  <2>6. CASE d # c /\ d # b
    <3>1. more[d] = count[d]
      BY <1>1, <1>4, <2>6
    <3>2. count[d] > 0
      BY <1>6, <3>1
    <3>3. count[d] * states[c].headroom <= (count[c] + 1) * states[d].headroom
      BY <3>2 DEF Weighed, Even
    <3>4. more[d] * states[c].headroom <= (count[c] + 1) * states[d].headroom
      BY <3>1, <3>3
    <3> QED
      BY <2>3, <3>4
  <2> QED
    BY <2>4, <2>5, <2>6
<1> QED
  BY <1>4, <1>5, <1>6 DEF Weighed, Even, more

LEMMA TargetsWeighed ==
    ASSUME NEW states \in [Backend -> Gauged], Candidates(states, {}) # {},
           NEW total \in Nat
    PROVE  Weighed(states, Candidates(states, {}), WeightedTargetCounts(total, states), total)
<1> DEFINE C == Candidates(states, {})
           S == 1..total
           start == [b \in Backend |-> 0]
           it == Loop("count", states, C, start, S)
           G == {s \in SUBSET S : Weighed(states, C, it[s], Cardinality(s))}
<1>1. NumberSet(S) /\ Cardinality(S) = total
  BY FS_Interval DEF NumberSet
<1>2. Open(states, C)
  BY DEF Candidates, Open
<1>3. WeightedTargetCounts(total, states) = it[S]
  BY LoopsAreTheirs
<1> HIDE DEF S
<1>4. /\ it[{}] = start
      /\ \A s \in SUBSET S : s # {} => it[s] = CountOne(states, C, it[s \ {Max(s)}])
  BY <1>1, LoopTurns DEF OneTurn
<1> HIDE DEF C, it
<1>5. {} \in G
  <2>1. start \in Counts /\ \A c \in C : start[c] = 0
    BY <1>2 DEF Counts, Open
  <2> HIDE DEF start
  <2>2. Weighed(states, C, start, 0)
    BY <2>1, NoSlots DEF Weighed
  <2> QED
    BY <1>4, <2>2, FS_EmptySet
<1>6. ASSUME NEW s \in SUBSET S, s # {}, s \ {Max(s)} \in G PROVE s \in G
  <2>1. /\ Cardinality(s) \in Nat /\ Cardinality(s) >= 1
        /\ Cardinality(s \ {Max(s)}) = Cardinality(s) - 1
    BY <1>1, <1>6, WithoutLargest
  <2>2. Weighed(states, C, it[s \ {Max(s)}], Cardinality(s) - 1)
    BY <1>6, <2>1
  <2>3. Cardinality(s) - 1 \in Nat /\ (Cardinality(s) - 1) + 1 = Cardinality(s)
    BY <2>1
  <2>4. Weighed(states, C, it[s], Cardinality(s))
    <3>1. C # {}
      BY DEF C
    <3>2. it[s] = CountOne(states, C, it[s \ {Max(s)}])
      BY <1>4, <1>6
    <3>3. Weighed(states, C, CountOne(states, C, it[s \ {Max(s)}]), (Cardinality(s) - 1) + 1)
      BY <1>2, <2>2, <2>3, <3>1, CountsOneMore
    <3> QED
      BY <2>3, <3>2, <3>3
  <2> QED
    BY <2>4
<1>7. Weighed(states, C, it[S], Cardinality(S))
  <2> HIDE DEF G
  <2>1. S \in G
    BY <1>1, <1>5, <1>6, ByLargest
  <2> QED
    BY <2>1 DEF G
<1> QED
  BY <1>1, <1>3, <1>7 DEF C

(* The first k of a set in the order of the numbers. *)
LEMMA FirstCounted ==
    ASSUME NEW X, NumberSet(X), NEW k \in Nat
    PROVE  Cardinality({x \in X : Cardinality({o \in X : o < x}) < k})
           = IF k <= Cardinality(X) THEN k ELSE Cardinality(X)
<1> DEFINE Below(s, x) == {o \in s : o < x}
           First(s) == {x \in s : Cardinality(Below(s, x)) < k}
           Least(n) == IF k <= n THEN k ELSE n
           G == {s \in SUBSET X : Cardinality(First(s)) = Least(Cardinality(s))}
<1>1. {} \in G
  <2>1. First({}) = {} /\ Cardinality({}) = 0
    BY FS_EmptySet
  <2> QED
    BY <2>1
<1>2. ASSUME NEW s \in SUBSET X, s # {}, s \ {Max(s)} \in G PROVE s \in G
  <2> DEFINE m == Max(s)  r == s \ {m}
  <2>1. m \in s /\ r \in SUBSET X /\ Cardinality(s) \in Nat /\ Cardinality(r) = Cardinality(s) - 1
    BY <1>2, WithoutLargest
  <2>2. NumberSet(s)
    BY FS_Subset DEF NumberSet
  <2>3. \A o \in s : o <= m
    BY <1>2, <2>2, LargestNumber
  <2>4. Cardinality(First(r)) = Least(Cardinality(r))
    BY <1>2
  <2>5. s = r \cup {m} /\ m \notin r /\ IsFiniteSet(r) /\ Cardinality(r) \in Nat /\ s \subseteq Nat
    BY <2>1, <2>2, FS_RemoveElement, FS_CardinalityType DEF NumberSet
  <2> HIDE DEF m, r
  <2>6. Below(s, m) = r
    <3>1. \A o \in r : o < m
      BY <2>1, <2>3, <2>5
    <3>2. ~(m < m)
      BY <2>1, <2>5
    <3> QED
      BY <2>5, <3>1, <3>2
  <2>7. ASSUME NEW x \in r PROVE Below(s, x) = Below(r, x)
    <3>1. ~(m < x)
      BY <2>1, <2>3, <2>5
    <3> QED
      BY <2>5, <3>1
  <2>8. First(s) = IF Cardinality(r) < k THEN First(r) \cup {m} ELSE First(r)
    <3> HIDE DEF Below
    <3> QED
      BY <2>5, <2>6, <2>7
  <2>9. m \notin First(r) /\ IsFiniteSet(First(r))
    <3>1. First(r) \in SUBSET r
      OBVIOUS
    <3> QED
      BY <2>5, <3>1, FS_Subset
  <2> HIDE DEF First
  <2>10. Cardinality(First(s)) = IF Cardinality(r) < k THEN Cardinality(First(r)) + 1
                                 ELSE Cardinality(First(r))
    BY <2>8, <2>9, FS_AddElement
  <2>11. Cardinality(First(s)) = Least(Cardinality(s))
    BY <2>1, <2>4, <2>5, <2>10
  <2> QED
    BY <2>11
<1>3. X \in G
  <2> HIDE DEF G
  <2> QED
    BY <1>1, <1>2, ByLargest
<1> QED
  BY <1>3

---------------------------------------------------------------------------
(* PlanGlobalRebalance: who stays, who goes, and what is still missing     *)
(* after the users in s.                                                   *)
Going(targets, C) == {p \in ActivePeople : Surplus(p, targets, C)}
Missing(targets) == [b \in Backend |-> Max({0, targets[b] - LoadOf(ActivePeople)[b]})]
Placed(targets, C, s) == (ActivePeople \ Going(targets, C)) \cup s
At(to, U, b) == {p \in U : Heading(to, p) = b}

Filled(targets, C, plan, s) ==
    /\ plan.to \in [Person -> C \cup {Nowhere}]
    /\ plan.deficit \in Counts
    /\ \A p \in Person : plan.to[p] # Nowhere <=> p \in s
    /\ \A p \in s : Missing(targets)[plan.to[p]] > 0
    /\ \A b \in Backend : plan.deficit[b] <= Missing(targets)[b]
    /\ \A b \in C :
          Cardinality(At(plan.to, Placed(targets, C, s), b)) + plan.deficit[b] = targets[b]

LEMMA LoadCounted ==
    ASSUME NEW b \in Backend
    PROVE  /\ NumberSet(ActivePeople) /\ NumberSet({o \in ActivePeople : way[o] = b})
           /\ LoadOf(ActivePeople)[b] = Cardinality({o \in ActivePeople : way[o] = b})
           /\ LoadOf(ActivePeople)[b] \in Nat
<1>1. ActivePeople \in SUBSET Person /\ {o \in ActivePeople : way[o] = b} \in SUBSET Person
  BY DEF ActivePeople
<1> QED
  BY <1>1, FS_Subset, FS_CardinalityType, RouteFailoverAssumption DEF NumberSet, LoadOf

LEMMA MissingCounted ==
    ASSUME NEW targets \in Counts
    PROVE  /\ Missing(targets) \in Counts
           /\ \A b \in Backend :
                 Missing(targets)[b] = IF targets[b] > LoadOf(ActivePeople)[b]
                                       THEN targets[b] - LoadOf(ActivePeople)[b] ELSE 0
<1>1. ASSUME NEW x \in Int PROVE Max({0, x}) = IF x > 0 THEN x ELSE 0
  <2>1. PICK y \in {0, x} : y = (IF x > 0 THEN x ELSE 0)
    OBVIOUS
  <2>2. \A z \in {0, x} : y >= z
    BY <2>1
  <2>3. Max({0, x}) \in {0, x} /\ \A z \in {0, x} : Max({0, x}) >= z
    BY <2>2 DEF Max
  <2> QED
    BY <2>1, <2>2, <2>3
<1>2. ASSUME NEW b \in Backend
      PROVE  /\ Missing(targets)[b] = IF targets[b] > LoadOf(ActivePeople)[b]
                                      THEN targets[b] - LoadOf(ActivePeople)[b] ELSE 0
             /\ Missing(targets)[b] \in Nat
  <2> DEFINE n == LoadOf(ActivePeople)[b]
  <2>1. n \in Nat /\ targets[b] \in Nat
    BY LoadCounted DEF Counts
  <2>2. Missing(targets)[b] = Max({0, targets[b] - n})
    BY DEF Missing
  <2> HIDE DEF n
  <2> DEFINE x == targets[b] - n
  <2>3. x \in Int /\ (x > 0 <=> targets[b] > n)
    BY <2>1
  <2> HIDE DEF x
  <2>4. Max({0, x}) = IF x > 0 THEN x ELSE 0
    BY <1>1, <2>3
  <2>5. Missing(targets)[b] = IF targets[b] > n THEN targets[b] - n ELSE 0
    BY <2>2, <2>3, <2>4 DEF x
  <2> QED
    BY <2>1, <2>5 DEF n
<1> QED
  BY <1>2 DEF Missing, Counts

LEMMA StayersCounted ==
    ASSUME NEW targets \in Counts, NEW C, C \subseteq Backend, NEW b \in C
    PROVE  Cardinality({p \in ActivePeople \ Going(targets, C) : way[p] = b})
           + Missing(targets)[b] = targets[b]
<1> DEFINE X == {o \in ActivePeople : way[o] = b}
           k == targets[b]
<1>1. NumberSet(X) /\ LoadOf(ActivePeople)[b] = Cardinality(X) /\ Cardinality(X) \in Nat
  BY LoadCounted
<1>2. k \in Nat
  BY DEF Counts
<1>3. {p \in ActivePeople \ Going(targets, C) : way[p] = b}
      = {x \in X : Cardinality({o \in X : o < x}) < k}
  <2>1. ASSUME NEW x \in X
        PROVE  Surplus(x, targets, C) <=> ~(Cardinality({o \in X : o < x}) < k)
    <3>1. {o \in ActivePeople : way[o] = way[x] /\ o < x} = {o \in X : o < x}
      BY <2>1
    <3>2. {o \in X : o < x} \in SUBSET X
      OBVIOUS
    <3>3. Cardinality({o \in X : o < x}) \in Nat
      BY <1>1, <3>2, FS_Subset, FS_CardinalityType DEF NumberSet
    <3>4. way[x] = b
      OBVIOUS
    <3> QED
      BY <1>2, <3>1, <3>3, <3>4 DEF Surplus
  <2> QED
    BY <2>1 DEF Going
<1> HIDE DEF X, k
<1>4. Cardinality({p \in ActivePeople \ Going(targets, C) : way[p] = b})
      = IF k <= Cardinality(X) THEN k ELSE Cardinality(X)
  BY <1>1, <1>2, <1>3, FirstCounted
<1>5. Missing(targets)[b] = IF k > Cardinality(X) THEN k - Cardinality(X) ELSE 0
  BY <1>1, MissingCounted DEF k
<1> QED
  BY <1>1, <1>2, <1>4, <1>5 DEF k

(* While a user waits, a place is free: there are as many as users. *)
LEMMA PlaceLeft ==
    ASSUME way \in Ways, NEW targets \in Counts, NEW C, C \subseteq Backend,
           IsFiniteSet(Slots(targets, C)),
           Cardinality(Slots(targets, C)) = Cardinality(ActivePeople),
           NEW plan, NEW s \in SUBSET Going(targets, C), Filled(targets, C, plan, s)
    PROVE  /\ s # Going(targets, C) => \E b \in C : plan.deficit[b] > 0
           /\ s = Going(targets, C) => \A b \in C : plan.deficit[b] = 0
<1> DEFINE U == Placed(targets, C, s)
           w == [p \in Person |-> Heading(plan.to, p)]
           f == [b \in Backend |-> Cardinality(At(plan.to, U, b))]
<1>1. NumberSet(ActivePeople) /\ Cardinality(ActivePeople) \in Nat
  <2>1. ActivePeople \in SUBSET Person
    BY DEF ActivePeople
  <2> QED
    BY <2>1, FS_Subset, FS_CardinalityType, RouteFailoverAssumption DEF NumberSet
<1>2. /\ U \in SUBSET ActivePeople /\ NumberSet(U) /\ Cardinality(U) \in Nat
      /\ U = ActivePeople <=> s = Going(targets, C)
  <2>1. U \in SUBSET ActivePeople /\ (U = ActivePeople <=> s = Going(targets, C))
    BY DEF Placed, Going
  <2> QED
    BY <1>1, <2>1, FS_Subset, FS_CardinalityType DEF NumberSet
<1>3. ASSUME NEW p \in U PROVE w[p] \in C
  <2>1. p \in Person /\ plan.to[p] \in C \cup {Nowhere}
    BY <1>2 DEF ActivePeople, Filled
  <2>2. CASE p \in s
    BY <2>1, <2>2 DEF Filled, Heading
  <2>3. CASE p \notin s
    <3>1. plan.to[p] = Nowhere /\ way[p] \in C
      BY <2>1, <2>3 DEF Filled, Placed, Going, Surplus
    <3> QED
      BY <2>1, <3>1 DEF Heading
  <2> QED
    BY <2>2, <2>3
<1>4. \A b \in C : f[b] = Cardinality(Having(w, U, b))
  <2>1. \A b : At(plan.to, U, b) = Having(w, U, b)
    BY <1>2 DEF At, ActivePeople, Having
  <2> QED
    BY <2>1
<1>5. \A b \in C : /\ f[b] + plan.deficit[b] = targets[b] /\ plan.deficit[b] \in Nat
                   /\ targets[b] \in Nat /\ f[b] \in Nat
  <2>1. ASSUME NEW b \in C PROVE f[b] \in Nat
    <3>1. At(plan.to, U, b) \in SUBSET U
      BY DEF At
    <3>2. Cardinality(At(plan.to, U, b)) \in Nat
      BY <1>2, <3>1, FS_Subset, FS_CardinalityType DEF NumberSet
    <3> QED
      BY <3>2
  <2> QED
    BY <2>1 DEF Filled, Counts
<1> HIDE DEF U, w, f
<1>6. IsFiniteSet(Slots(f, C)) /\ Cardinality(Slots(f, C)) = Cardinality(U)
  BY <1>2, <1>3, <1>4, UsersTakeSlots
<1>7. ASSUME s # Going(targets, C), \A b \in C : ~(plan.deficit[b] > 0) PROVE FALSE
  <2>1. \A b \in C : f[b] = targets[b]
    BY <1>5, <1>7
  <2>2. Slots(f, C) = Slots(targets, C)
    BY <2>1 DEF Slots
  <2>3. Cardinality(U) = Cardinality(ActivePeople)
    BY <1>6, <2>2
  <2> QED
    BY <1>1, <1>2, <1>7, <2>3, FS_Subset DEF NumberSet
<1>8. ASSUME s = Going(targets, C), NEW b \in C, plan.deficit[b] # 0 PROVE FALSE
  <2>1. \A x \in C \X Nat : x[1] \in C /\ x[2] \in Nat
    OBVIOUS
  <2>2. Slots(f, C) \in SUBSET Slots(targets, C)
    BY <1>5, <2>1 DEF Slots
  <2>3. Slots(f, C) = Slots(targets, C)
    BY <1>2, <1>6, <1>8, <2>2, FS_Subset
  <2>4. f[b] \in Nat /\ targets[b] \in Nat /\ f[b] < targets[b]
    BY <1>5, <1>8
  <2>5. <<b, targets[b]>> \in Slots(targets, C) /\ <<b, targets[b]>> \notin Slots(f, C)
    BY <2>4 DEF Slots
  <2> QED
    BY <2>3, <2>5
<1> QED
  BY <1>7, <1>8

LEMMA SmallestNumber ==
    ASSUME NEW S, S \subseteq Nat, S # {}
    PROVE  Min(S) \in S
<1>1. PICK n \in S : \A m \in S : n <= m
  BY LeastNumber
<1> QED
  BY <1>1 DEF Min

LEMMA FillKeeps ==
    ASSUME way \in Ways, NEW targets \in Counts, NEW C, C \subseteq Backend,
           IsFiniteSet(Slots(targets, C)),
           Cardinality(Slots(targets, C)) = Cardinality(ActivePeople),
           NEW plan, NEW s \in SUBSET Going(targets, C), Filled(targets, C, plan, s),
           NEW p \in Going(targets, C) \ s
    PROVE  Filled(targets, C, FillFirst(C, p, plan), s \cup {p})
<1> DEFINE b == Min({c \in C : plan.deficit[c] > 0})
           more == FillFirst(C, p, plan)
<1>1. b \in C /\ plan.deficit[b] > 0
  <2>1. {c \in C : plan.deficit[c] > 0} # {}
    BY PlaceLeft
  <2>2. {c \in C : plan.deficit[c] > 0} \subseteq Nat
    BY RouteFailoverAssumption
  <2>3. b \in {c \in C : plan.deficit[c] > 0}
    BY <2>1, <2>2, SmallestNumber
  <2> QED
    BY <2>3
<1>2. more.to = [plan.to EXCEPT ![p] = b] /\ more.deficit = [plan.deficit EXCEPT ![b] = @ - 1]
  BY DEF FillFirst
<1> HIDE DEF b, more
<1>3. p \in Person /\ p \in ActivePeople /\ b # Nowhere /\ b \in Backend /\ s \subseteq Person
  BY <1>1, RouteFailoverAssumption DEF Going, ActivePeople
<1>4. /\ more.to \in [Person -> C \cup {Nowhere}] /\ more.to[p] = b
      /\ \A q \in Person \ {p} : more.to[q] = plan.to[q]
  BY <1>1, <1>2, <1>3 DEF Filled
<1>5. plan.deficit \in [Backend -> Nat] /\ Missing(targets) \in [Backend -> Nat]
  BY MissingCounted DEF Filled, Counts
<1>6. /\ more.deficit \in Counts /\ more.deficit[b] = plan.deficit[b] - 1
      /\ \A c \in Backend \ {b} : more.deficit[c] = plan.deficit[c]
  BY <1>1, <1>2, <1>3, <1>5 DEF Counts
<1>7. \A q \in Person : more.to[q] # Nowhere <=> q \in s \cup {p}
  BY <1>3, <1>4 DEF Filled
<1>8. /\ \A c \in Backend : plan.deficit[c] <= Missing(targets)[c]
      /\ \A c \in Backend : more.deficit[c] <= Missing(targets)[c]
  BY <1>3, <1>5, <1>6 DEF Filled
<1>9. ASSUME NEW q \in s \cup {p} PROVE Missing(targets)[more.to[q]] > 0
  <2>1. CASE q = p
    BY <1>1, <1>3, <1>4, <1>5, <1>8, <2>1
  <2>2. CASE q # p
    BY <1>3, <1>4, <1>9, <2>2 DEF Filled
  <2> QED
    BY <2>1, <2>2
<1>10. ASSUME NEW c \in C
       PROVE  Cardinality(At(more.to, Placed(targets, C, s \cup {p}), c)) + more.deficit[c]
              = targets[c]
  <2> DEFINE U == Placed(targets, C, s)
  <2>1. Placed(targets, C, s \cup {p}) = U \cup {p} /\ p \notin U /\ U \subseteq ActivePeople
    BY <1>3 DEF Placed, Going
  <2>2. \A q \in U : Heading(more.to, q) = Heading(plan.to, q)
    BY <1>4, <2>1 DEF Heading, ActivePeople
  <2>3. Heading(more.to, p) = b
    BY <1>3, <1>4 DEF Heading
  <2>4. Cardinality(At(plan.to, U, c)) + plan.deficit[c] = targets[c]
    BY DEF Filled
  <2> HIDE DEF U
  <2>5. At(more.to, U \cup {p}, c) = IF c = b THEN At(plan.to, U, c) \cup {p}
                                     ELSE At(plan.to, U, c)
    BY <2>2, <2>3 DEF At
  <2>6. p \notin At(plan.to, U, c) /\ At(plan.to, U, c) \in SUBSET Person
    BY <2>1 DEF At, ActivePeople
  <2>7. IsFiniteSet(At(plan.to, U, c)) /\ Cardinality(At(plan.to, U, c)) \in Nat
    BY <2>6, FS_Subset, FS_CardinalityType, RouteFailoverAssumption
  <2>8. Cardinality(At(more.to, U \cup {p}, c))
        = IF c = b THEN Cardinality(At(plan.to, U, c)) + 1 ELSE Cardinality(At(plan.to, U, c))
    <3>1. Cardinality(At(plan.to, U, c) \cup {p}) = Cardinality(At(plan.to, U, c)) + 1
      BY <2>6, <2>7, FS_AddElement
    <3> QED
      BY <2>5, <3>1
  <2>9. c \in Backend /\ plan.deficit[c] \in Nat
    BY <1>5
  <2>10. Cardinality(At(more.to, U \cup {p}, c)) + more.deficit[c] = targets[c]
    BY <1>6, <2>4, <2>7, <2>8, <2>9
  <2> QED
    BY <2>1, <2>10
<1> QED
  BY <1>4, <1>6, <1>7, <1>8, <1>9, <1>10 DEF Filled, more

LEMMA RebalanceExact ==
    ASSUME way \in Ways, NEW states \in [Backend -> Gauged], Candidates(states, {}) # {}
    PROVE  /\ PlanGlobalRebalance(states) \in Ways
           /\ ExactRebalance(PlanGlobalRebalance(states), states)
<1> DEFINE C == Candidates(states, {})
           total == Cardinality(ActivePeople)
           targets == WeightedTargetCounts(total, states)
           E == Going(targets, C)
           start == [to |-> NoMove, deficit |-> Missing(targets)]
           it == Loop("fill", states, C, start, E)
           G == {s \in SUBSET E : Filled(targets, C, it[s], s)}
<1>1. C \subseteq Backend /\ Open(states, C)
  BY DEF Candidates, Open
<1>2. total \in Nat /\ NumberSet(ActivePeople) /\ ActivePeople \subseteq Person
  <2>1. ActivePeople \in SUBSET Person
    BY DEF ActivePeople
  <2> QED
    BY <2>1, FS_Subset, FS_CardinalityType, RouteFailoverAssumption DEF NumberSet
<1>3. Weighed(states, C, targets, total)
  BY <1>2, TargetsWeighed
<1>4. PlanGlobalRebalance(states) = it[E].to
  BY DEF PlanGlobalRebalance, InOrder, MapThenFoldSet, Loop, Turned, OneTurn, Going, Missing
<1>5. NumberSet(E) /\ E \subseteq ActivePeople
  <2>1. E \in SUBSET ActivePeople
    BY DEF Going
  <2> QED
    BY <1>2, <2>1, FS_Subset DEF NumberSet
<1>6. /\ it[{}] = start
      /\ \A s \in SUBSET E : s # {} => it[s] = FillFirst(C, Max(s), it[s \ {Max(s)}])
  BY <1>5, LoopTurns DEF OneTurn
<1> HIDE DEF C, total, targets, it
<1>7. /\ targets \in Counts /\ IsFiniteSet(Slots(targets, C))
      /\ Cardinality(Slots(targets, C)) = Cardinality(ActivePeople)
  BY <1>3 DEF Weighed, total
<1>8. {} \in G
  <2>1. NoMove \in [Person -> C \cup {Nowhere}] /\ \A p \in Person : NoMove[p] = Nowhere
    BY DEF NoMove
  <2>2. ASSUME NEW b \in C
        PROVE  Cardinality(At(NoMove, Placed(targets, C, {}), b)) + Missing(targets)[b]
               = targets[b]
    <3>1. At(NoMove, Placed(targets, C, {}), b)
          = {p \in ActivePeople \ Going(targets, C) : way[p] = b}
      BY <1>2, <2>1 DEF At, Placed, Heading
    <3> QED
      BY <1>1, <1>7, <3>1, StayersCounted
  <2>3. /\ Missing(targets) \in Counts
        /\ \A b \in Backend : Missing(targets)[b] <= Missing(targets)[b]
    BY <1>7, MissingCounted DEF Counts
  <2> QED
    BY <1>6, <2>1, <2>2, <2>3 DEF Filled
<1>9. ASSUME NEW s \in SUBSET E, s # {}, s \ {Max(s)} \in G PROVE s \in G
  <2> DEFINE p == Max(s)  r == s \ {p}
  <2>1. p \in s /\ r \in SUBSET E
    BY <1>5, <1>9, WithoutLargest
  <2>2. s = r \cup {p} /\ p \in E \ r
    BY <2>1
  <2>3. it[s] = FillFirst(C, p, it[r]) /\ Filled(targets, C, it[r], r)
    BY <1>6, <1>9
  <2> HIDE DEF p, r
  <2>4. Filled(targets, C, it[s], s)
    BY <1>1, <1>7, <2>1, <2>2, <2>3, FillKeeps
  <2> QED
    BY <2>4
<1>10. Filled(targets, C, it[E], E)
  <2> HIDE DEF G
  <2>1. E \in G
    BY <1>5, <1>8, <1>9, ByLargest
  <2> QED
    BY <2>1 DEF G
<1> DEFINE plan == it[E].to
<1>11. /\ plan \in [Person -> C \cup {Nowhere}]
       /\ \A p \in Person : plan[p] # Nowhere <=> p \in E
  BY <1>10 DEF Filled
<1>12. ASSUME NEW b \in C PROVE After(plan)[b] = targets[b]
  <2>1. it[E].deficit[b] = 0
    BY <1>1, <1>7, <1>10, PlaceLeft
  <2>2. Placed(targets, C, E) = ActivePeople
    BY <1>5 DEF Placed
  <2>3. At(plan, ActivePeople, b) \in SUBSET Person
    BY <1>2 DEF At
  <2>4. Cardinality(At(plan, ActivePeople, b)) \in Nat
    BY <2>3, FS_Subset, FS_CardinalityType, RouteFailoverAssumption
  <2>5. Cardinality(At(plan, ActivePeople, b)) = targets[b]
    BY <1>10, <2>1, <2>2, <2>4 DEF Filled
  <2>6. After(plan)[b] = Cardinality(At(plan, ActivePeople, b))
    BY <1>1 DEF After, At, Heading
  <2> QED
    BY <2>5, <2>6
<1>13. ASSUME NEW b \in C, NEW c \in C, After(plan)[b] > 0 PROVE Even(states, After(plan), b, c)
  BY <1>3, <1>12, <1>13 DEF Weighed, Even
<1>14. ASSUME NEW p \in ActivePeople \ E PROVE way[p] \in C
  BY DEF Going, Surplus
<1>15. ASSUME NEW p \in E, NEW q \in E, plan[p] = way[q] PROVE FALSE
  <2> DEFINE b == plan[p]
  <2>1. b \in C /\ Missing(targets)[b] > 0
    BY <1>2, <1>5, <1>10, <1>11 DEF Filled
  <2>2. b \in Backend /\ targets[b] \in Nat
    BY <1>1, <1>7, <2>1 DEF Counts
  <2> HIDE DEF b
  <2>3. targets[b] > LoadOf(ActivePeople)[b]
    BY <1>7, <2>1, <2>2, MissingCounted
  <2>4. Cardinality({o \in ActivePeople : way[o] = way[q] /\ o < q}) >= targets[b] /\ way[q] = b
    BY <1>15, <2>1 DEF Going, Surplus, b
  <2> DEFINE X == {o \in ActivePeople : way[o] = b}
             Y == {o \in ActivePeople : way[o] = way[q] /\ o < q}
  <2>5. Y \in SUBSET X
    BY <2>4
  <2>6. NumberSet(X) /\ LoadOf(ActivePeople)[b] = Cardinality(X) /\ Cardinality(X) \in Nat
    BY <2>2, LoadCounted
  <2>7. Cardinality(Y) >= targets[b]
    BY <2>4
  <2> HIDE DEF X, Y
  <2>8. Cardinality(Y) <= Cardinality(X) /\ Cardinality(Y) \in Nat
    BY <2>5, <2>6, FS_Subset, FS_CardinalityType DEF NumberSet
  <2> QED
    BY <2>2, <2>3, <2>6, <2>7, <2>8
<1> HIDE DEF plan
<1>16. ExactRebalance(plan, states)
  <2>1. {p \in Person : plan[p] # Nowhere} = E
    BY <1>2, <1>5, <1>11
  <2>2. {plan[p] : p \in E} \cap {way[p] : p \in E} = {}
    BY <1>15
  <2> QED
    BY <1>13, <1>14, <2>1, <2>2 DEF ExactRebalance, C
<1> QED
  BY <1>1, <1>4, <1>11, <1>16 DEF plan, Ways

---------------------------------------------------------------------------
(* The states of the movers and what they work with.                       *)
MoverStates ==
    [pc : {"idle", "accounts", "probe", "plan", "apply", "publish"},
     quota : [Backend -> Quotas], fresh : BOOLEAN, enabled : SUBSET Backend,
     states : [Backend -> Gauged], by : {"none", "evacuation", "rebalance"},
     sources : SUBSET Backend, from : Ways, to : Ways]

RouteTypes ==
    /\ quotaOf \in [Backend -> Quotas] /\ trusted \in BOOLEAN
    /\ groupEnabled \in SUBSET Backend /\ up \in SUBSET Backend
    /\ keyed \in [Person -> SUBSET Backend] /\ way \in Ways
    /\ capacity \in [states : [Backend -> Gauged], error : BOOLEAN]
    /\ mover \in [Mover -> MoverStates]

LEMMA QuotaParts ==
    ASSUME NEW q \in Quotas
    PROVE  q.left \in Nat /\ Headroom(q) \in Nat /\ Full - q.left \in Int
<1>1. q.left \in Nat
  <2>1. CASE q \in [ok : {TRUE}, limited : BOOLEAN, allowed : BOOLEAN, left : 0..Full]
    BY <2>1, RouteFailoverAssumption
  <2>2. CASE q = Unread
    BY <2>2, RouteFailoverAssumption DEF Unread
  <2> QED
    BY <2>1, <2>2 DEF Quotas
<1>2. Full \in Int /\ Reserve \in Int
  BY RouteFailoverAssumption
<1> DEFINE x == q.left - Reserve
<1>3. x \in Int
  BY <1>1, <1>2
<1> HIDE DEF x
<1>4. PICK y \in {0, x} : y = (IF x > 0 THEN x ELSE 0)
  OBVIOUS
<1>5. \A z \in {0, x} : y >= z
  BY <1>3, <1>4
<1>6. Max({0, x}) \in {0, x} /\ \A z \in {0, x} : Max({0, x}) >= z
  BY <1>5 DEF Max
<1>7. Max({0, x}) \in Nat
  BY <1>3, <1>6
<1> QED
  BY <1>1, <1>2, <1>7 DEF Headroom, x

LEMMA StatesMeasured ==
    ASSUME NEW quotas \in [Backend -> Quotas], NEW fresh \in BOOLEAN, NEW switched, NEW running
    PROVE  BuildAccountStates(quotas, fresh, switched, running) \in [Backend -> Gauged]
<1>1. ASSUME NEW b \in Backend
      PROVE  BuildAccountStates(quotas, fresh, switched, running)[b] \in Gauged
  <2>1. quotas[b] \in Quotas
    OBVIOUS
  <2>2. Headroom(quotas[b]) \in Nat /\ Full - quotas[b].left \in Int
    BY <2>1, QuotaParts
  <2> DEFINE q == quotas[b]
             e == Exhausted(q, fresh)
             can == /\ b \in switched /\ b \in running /\ fresh /\ q.ok
                    /\ q.allowed /\ ~e /\ Headroom(q) > 0
             cannot == /\ b \in switched /\ b \in running /\ fresh /\ q.ok
                       /\ ~q.allowed /\ ~e
  <2>3. BuildAccountStates(quotas, fresh, switched, running)[b]
        = [eligible |-> can, exhausted |-> e, disallowed |-> cannot,
           headroom |-> Headroom(q), used |-> Full - q.left]
    BY DEF BuildAccountStates
  <2>4. can \in BOOLEAN /\ cannot \in BOOLEAN
    OBVIOUS
  <2>5. e \in BOOLEAN
    BY DEF Exhausted
  <2> HIDE DEF can, cannot, e
  <2> QED
    BY <2>2, <2>3, <2>4, <2>5 DEF Gauged
<1> QED
  BY <1>1 DEF BuildAccountStates

LEMMA UnavailableMeasured == Unavailable \in Gauged
BY DEF Unavailable, Gauged

LEMMA LiveMeasured ==
    ASSUME RouteTypes
    PROVE  LiveStates \in [Backend -> Gauged]
<1>1. ASSUME NEW b \in Backend PROVE LiveStates[b] \in Gauged
  <2> DEFINE s == IF capacity.error THEN Unavailable ELSE capacity.states[b]
  <2>1. s \in Gauged
    BY UnavailableMeasured DEF RouteTypes
  <2>2. LiveStates[b] = IF b \notin groupEnabled \/ b \notin up
                          THEN [s EXCEPT !.eligible = FALSE, !.exhausted = FALSE, !.headroom = 0]
                        ELSE IF s.exhausted \/ s.disallowed
                          THEN [s EXCEPT !.eligible = FALSE, !.exhausted = TRUE, !.headroom = 0]
                        ELSE IF ~trusted THEN [s EXCEPT !.eligible = FALSE, !.headroom = 0]
                        ELSE s
    BY DEF LiveStates
  <2> HIDE DEF s
  <2>3. ASSUME NEW e \in BOOLEAN
        PROVE  [s EXCEPT !.eligible = FALSE, !.exhausted = e, !.headroom = 0] \in Gauged
    BY <2>1 DEF Gauged
  <2>4. [s EXCEPT !.eligible = FALSE, !.headroom = 0] \in Gauged
    BY <2>1 DEF Gauged
  <2> QED
    BY <2>1, <2>2, <2>3, <2>4
<1> QED
  BY <1>1 DEF LiveStates

LEMMA RestTyped == AtRest \in MoverStates /\ AtRest.pc = "idle" /\ NoMove \in Ways
<1>1. Unread \in Quotas /\ NoMove \in Ways
  BY DEF Quotas, NoMove, Ways
<1> QED
  BY <1>1, UnavailableMeasured DEF AtRest, MoverStates

(* No mover takes up a plan. *)
NoPlanTaken == \A m \in Mover : mover'[m].pc # "apply" \/ mover'[m] = mover[m]

LEMMA EndsTyped ==
    ASSUME RouteTypes, NEW m \in Mover, NEW error \in BOOLEAN, Ends(m, error)
    PROVE  /\ capacity' \in [states : [Backend -> Gauged], error : BOOLEAN]
           /\ mover' \in [Mover -> MoverStates] /\ NoPlanTaken
<1>1. mover[m].states \in [Backend -> Gauged]
  BY DEF RouteTypes, MoverStates
<1>2. mover' = [mover EXCEPT ![m] = AtRest]
      /\ capacity' = IF m = "failover" THEN [states |-> mover[m].states, error |-> error]
                     ELSE capacity
  BY DEF Ends
<1> QED
  BY <1>1, <1>2, RestTyped DEF RouteTypes, NoPlanTaken

LEMMA AdoptsTyped ==
    ASSUME RouteTypes, NEW m \in Mover, NEW kind \in {"evacuation", "rebalance"},
           NEW states \in [Backend -> Gauged], NEW sources \in SUBSET Backend,
           NEW safe \in BOOLEAN, NEW plan, safe => plan \in Ways,
           Adopts(m, kind, states, sources, safe, plan)
    PROVE  /\ capacity' \in [states : [Backend -> Gauged], error : BOOLEAN]
           /\ mover' \in [Mover -> MoverStates]
           /\ \/ NoPlanTaken
              \/ /\ safe /\ \A n \in Mover \ {m} : mover'[n] = mover[n]
                 /\ mover'[m].by = kind /\ mover'[m].to = plan
                 /\ mover'[m].states = states /\ mover'[m].sources = sources
<1>1. CASE ~ (safe /\ plan # NoMove)
  <2>1. Ends(m, FALSE)
    BY <1>1 DEF Adopts
  <2> QED
    BY <2>1, EndsTyped
<1>2. CASE safe /\ plan # NoMove
  <2> DEFINE left == [p \in Person |-> IF plan[p] = Nowhere THEN Nowhere ELSE way[p]]
             taken == [mover[m] EXCEPT !.pc = "apply", !.by = kind, !.states = states,
                                       !.sources = sources, !.to = plan, !.from = left]
  <2>1. mover' = [mover EXCEPT ![m] = taken] /\ capacity' = capacity
    BY <1>2 DEF Adopts
  <2>2. left \in Ways
    BY DEF RouteTypes, Ways
  <2> HIDE DEF left
  <2>3. taken \in MoverStates /\ taken.by = kind /\ taken.to = plan /\ taken.states = states
        /\ taken.sources = sources
    <3>1. mover[m] \in MoverStates
      BY DEF RouteTypes
    <3>2. plan \in Ways
      BY <1>2
    <3> QED
      BY <2>2, <3>1, <3>2 DEF MoverStates
  <2> HIDE DEF taken
  <2>4. mover'[m] = taken /\ \A n \in Mover \ {m} : mover'[n] = mover[n]
    BY <2>1 DEF RouteTypes
  <2>5. mover' \in [Mover -> MoverStates]
    BY <2>1, <2>3 DEF RouteTypes
  <2> QED
    BY <1>2, <2>1, <2>3, <2>4, <2>5 DEF RouteTypes
<1> QED
  BY <1>1, <1>2

---------------------------------------------------------------------------
(* The planners' results, in the state and with the states they plan with. *)
EvenPlans ==
    /\ \A m \in Mover : Plans(m, "evacuation") =>
           EvenEvacuation(mover'[m].to, mover'[m].states, mover'[m].sources)
    /\ Plans("admin", "rebalance") =>
           ExactRebalance(mover'["admin"].to, mover'["admin"].states)

LEMMA NothingPlanned ==
    ASSUME NoPlanTaken
    PROVE  EvenPlans
BY DEF NoPlanTaken, EvenPlans, Plans, Mover

LEMMA EvacuationTaken ==
    ASSUME RouteTypes, NEW m \in Mover, NEW states \in [Backend -> Gauged],
           NEW sources \in SUBSET Backend, NEW plan,
           EvacuationSafe(states, sources) => plan = PlanEvacuation(states, sources),
           Adopts(m, "evacuation", states, sources, EvacuationSafe(states, sources), plan)
    PROVE  /\ capacity' \in [states : [Backend -> Gauged], error : BOOLEAN]
           /\ mover' \in [Mover -> MoverStates] /\ EvenPlans
<1> DEFINE safe == EvacuationSafe(states, sources)
<1>1. safe => plan \in Ways /\ EvenEvacuation(plan, states, sources)
  BY EvacuationSpreads DEF RouteTypes
<1>2. safe \in BOOLEAN
  BY DEF EvacuationSafe
<1>3. Adopts(m, "evacuation", states, sources, safe, plan)
  OBVIOUS
<1> HIDE DEF safe
<1>4. /\ capacity' \in [states : [Backend -> Gauged], error : BOOLEAN]
      /\ mover' \in [Mover -> MoverStates]
      /\ \/ NoPlanTaken
         \/ /\ safe /\ \A n \in Mover \ {m} : mover'[n] = mover[n]
            /\ mover'[m].by = "evacuation" /\ mover'[m].to = plan
            /\ mover'[m].states = states /\ mover'[m].sources = sources
  BY <1>1, <1>2, <1>3, AdoptsTyped
<1>5. CASE NoPlanTaken
  BY <1>4, <1>5, NothingPlanned
<1>6. CASE ~NoPlanTaken
  <2>1. ASSUME NEW n \in Mover, Plans(n, "evacuation")
        PROVE  EvenEvacuation(mover'[n].to, mover'[n].states, mover'[n].sources)
    <3>1. n = m
      BY <1>4, <1>6, <2>1 DEF Plans
    <3> QED
      BY <1>1, <1>4, <1>6, <3>1
  <2>2. ~Plans("admin", "rebalance")
    BY <1>4, <1>6 DEF Plans, Mover
  <2> QED
    BY <1>4, <2>1, <2>2 DEF EvenPlans
<1> QED
  BY <1>5, <1>6

LEMMA RebalanceTaken ==
    ASSUME RouteTypes, RebalanceAll
    PROVE  /\ capacity' \in [states : [Backend -> Gauged], error : BOOLEAN]
           /\ mover' \in [Mover -> MoverStates] /\ EvenPlans
<1> DEFINE states == LiveStates
           safe == Candidates(states, {}) # {} /\ ActivePeople \subseteq Routable
           plan == IF safe THEN PlanGlobalRebalance(states) ELSE NoMove
<1>1. Adopts("admin", "rebalance", states, {}, safe, plan)
  BY DEF RebalanceAll
<1>2. states \in [Backend -> Gauged]
  BY LiveMeasured
<1> HIDE DEF states
<1>3. safe => plan \in Ways /\ ExactRebalance(plan, states)
  BY <1>2, RebalanceExact DEF RouteTypes
<1>4. safe \in BOOLEAN
  OBVIOUS
<1> HIDE DEF safe, plan
<1>5. /\ capacity' \in [states : [Backend -> Gauged], error : BOOLEAN]
      /\ mover' \in [Mover -> MoverStates]
      /\ \/ NoPlanTaken
         \/ /\ safe /\ \A n \in Mover \ {"admin"} : mover'[n] = mover[n]
            /\ mover'["admin"].by = "rebalance" /\ mover'["admin"].to = plan
            /\ mover'["admin"].states = states
  BY <1>1, <1>2, <1>3, <1>4, AdoptsTyped DEF Mover
<1>6. CASE NoPlanTaken
  BY <1>5, <1>6, NothingPlanned
<1>7. CASE ~NoPlanTaken
  <2>1. ASSUME NEW n \in Mover PROVE ~Plans(n, "evacuation")
    BY <1>5, <1>7 DEF Plans
  <2>2. ExactRebalance(mover'["admin"].to, mover'["admin"].states)
    BY <1>3, <1>5, <1>7
  <2> QED
    BY <1>5, <2>1, <2>2 DEF EvenPlans
<1> QED
  BY <1>6, <1>7

(* What keeps the plans and the account states: only the routes and the    *)
(* phase of a mover, or what is around the movers, change.                 *)
LEMMA ApplyTyped ==
    ASSUME RouteTypes, NEW m \in Mover, ApplyRoutesExpected(m)
    PROVE  RouteTypes' /\ EvenPlans
<1>1. mover[m] \in MoverStates
  BY DEF RouteTypes
<1>2. CASE Ends(m, TRUE) /\ UNCHANGED way
  BY <1>2, EndsTyped, NothingPlanned DEF ApplyRoutesExpected, RouteTypes, inputs
<1>3. CASE ~ (Ends(m, TRUE) /\ UNCHANGED way)
  <2>1. /\ way' = [p \in Person |-> IF p \in Planned(m) THEN mover[m].to[p] ELSE way[p]]
        /\ mover' = [mover EXCEPT ![m].pc = "publish"] /\ UNCHANGED <<capacity, inputs>>
    BY <1>3 DEF ApplyRoutesExpected
  <2>2. way' \in Ways
    BY <1>1, <2>1 DEF RouteTypes, Ways, MoverStates
  <2>3. mover' \in [Mover -> MoverStates] /\ NoPlanTaken
    BY <1>1, <2>1 DEF RouteTypes, MoverStates, NoPlanTaken
  <2> QED
    BY <2>1, <2>2, <2>3, NothingPlanned DEF RouteTypes, inputs
<1> QED
  BY <1>2, <1>3

LEMMA PublishTyped ==
    ASSUME RouteTypes, NEW m \in Mover, PublishRoutes(m)
    PROVE  RouteTypes' /\ EvenPlans
BY EndsTyped, NothingPlanned DEF PublishRoutes, RouteTypes, inputs

LEMMA MishapTyped ==
    ASSUME RouteTypes, NEW m \in Mover, PublicationFails(m) \/ MoverDies(m)
    PROVE  RouteTypes' /\ EvenPlans
<1>1. CASE PublicationFails(m)
  <2>1. mover[m] \in MoverStates
    BY DEF RouteTypes
  <2>2. way' \in Ways
    <3>1. [p \in Person |-> IF p \in Planned(m) THEN mover[m].from[p] ELSE way[p]] \in Ways
      BY <2>1 DEF RouteTypes, Ways, MoverStates
    <3> QED
      BY <1>1, <3>1 DEF PublicationFails, RouteTypes
  <2> QED
    BY <1>1, <2>2, EndsTyped, NothingPlanned DEF PublicationFails, RouteTypes, inputs
<1>2. CASE MoverDies(m)
  <2>1. mover' = [mover EXCEPT ![m] = AtRest] /\ UNCHANGED <<inputs, way, capacity>>
    BY <1>2 DEF MoverDies
  <2>2. mover' \in [Mover -> MoverStates] /\ NoPlanTaken
    BY <2>1, RestTyped DEF RouteTypes, NoPlanTaken
  <2> QED
    BY <2>1, <2>2, NothingPlanned DEF RouteTypes, inputs
<1> QED
  BY <1>1, <1>2

LEMMA ReadsTyped ==
    ASSUME RouteTypes, ReadQuotaState \/ ReadAccounts \/ ProbeAccounts
    PROVE  RouteTypes' /\ EvenPlans
<1> DEFINE f == mover["failover"]
           states == BuildAccountStates(f.quota, f.fresh, f.enabled, up)
<1>1. f \in MoverStates /\ "failover" \in Mover
  BY DEF RouteTypes, Mover
<1>2. UNCHANGED <<inputs, way>>
  BY DEF ReadQuotaState, ReadAccounts, ProbeAccounts, controllerFrame
<1>3. states \in [Backend -> Gauged]
  <2>1. f.quota \in [Backend -> Quotas] /\ f.fresh \in BOOLEAN
    BY <1>1 DEF MoverStates
  <2> QED
    BY <2>1, StatesMeasured
<1>4. /\ mover' \in [Mover -> MoverStates] /\ NoPlanTaken
      /\ capacity' \in [states : [Backend -> Gauged], error : BOOLEAN]
  <2>1. CASE ReadQuotaState
    <3> DEFINE next == [f EXCEPT !.pc = "accounts", !.quota = quotaOf, !.fresh = trusted]
    <3>1. mover' = [mover EXCEPT !["failover"] = next] /\ capacity' = capacity
      BY <2>1 DEF ReadQuotaState
    <3>2. next \in MoverStates /\ next.pc # "apply"
      BY <1>1 DEF RouteTypes, MoverStates
    <3> HIDE DEF next
    <3> QED
      BY <3>1, <3>2 DEF RouteTypes, NoPlanTaken
  <2>2. CASE ReadAccounts
    <3> DEFINE next == [f EXCEPT !.pc = "probe", !.enabled = groupEnabled]
    <3>1. mover' = [mover EXCEPT !["failover"] = next] /\ capacity' = capacity
      BY <2>2 DEF ReadAccounts
    <3>2. next \in MoverStates /\ next.pc # "apply"
      BY <1>1 DEF RouteTypes, MoverStates
    <3> HIDE DEF next
    <3> QED
      BY <3>1, <3>2 DEF RouteTypes, NoPlanTaken
  <2>3. CASE ProbeAccounts
    <3> DEFINE next == IF ~f.fresh THEN AtRest ELSE [f EXCEPT !.pc = "plan", !.states = states]
    <3>1. /\ mover' = [mover EXCEPT !["failover"] = next]
          /\ capacity' = IF f.fresh THEN capacity ELSE [states |-> states, error |-> TRUE]
      BY <2>3 DEF ProbeAccounts
    <3> HIDE DEF states
    <3>2. next \in MoverStates /\ next.pc # "apply"
      BY <1>1, <1>3, RestTyped DEF MoverStates
    <3> HIDE DEF next
    <3> QED
      BY <1>3, <3>1, <3>2 DEF RouteTypes, NoPlanTaken
  <2> QED
    BY <2>1, <2>2, <2>3
<1> QED
  BY <1>2, <1>4, NothingPlanned DEF RouteTypes, inputs

LEMMA PlanTyped ==
    ASSUME RouteTypes, EvacuateExhausted \/ AdminAsks
    PROVE  RouteTypes' /\ EvenPlans
<1>1. UNCHANGED <<inputs, way>>
  BY DEF EvacuateExhausted, AdminAsks, RebalanceAll, EvacuateAccount, controllerFrame
<1>2. /\ capacity' \in [states : [Backend -> Gauged], error : BOOLEAN]
      /\ mover' \in [Mover -> MoverStates] /\ EvenPlans
  <2>1. CASE EvacuateExhausted
    <3> DEFINE states == mover["failover"].states
               sources == {b \in Backend : states[b].exhausted}
               plan == IF EvacuationSafe(states, sources)
                         THEN PlanEvacuation(states, sources) ELSE NoMove
    <3>1. Adopts("failover", "evacuation", states, sources, EvacuationSafe(states, sources), plan)
      BY <2>1 DEF EvacuateExhausted
    <3>2. EvacuationSafe(states, sources) => plan = PlanEvacuation(states, sources)
      OBVIOUS
    <3>3. states \in [Backend -> Gauged] /\ sources \in SUBSET Backend
          /\ "failover" \in Mover
      BY DEF RouteTypes, MoverStates, Mover
    <3> HIDE DEF states, sources, plan
    <3> QED
      BY <3>1, <3>2, <3>3, EvacuationTaken
  <2>2. CASE RebalanceAll
    BY <2>2, RebalanceTaken
  <2>3. ASSUME NEW b \in Backend, EvacuateAccount(b)
        PROVE  /\ capacity' \in [states : [Backend -> Gauged], error : BOOLEAN]
               /\ mover' \in [Mover -> MoverStates] /\ EvenPlans
    <3> DEFINE states == LiveStates
               sources == {b}
               plan == IF EvacuationSafe(states, sources)
                         THEN PlanEvacuation(states, sources) ELSE NoMove
    <3>1. Adopts("admin", "evacuation", states, sources, EvacuationSafe(states, sources), plan)
      BY <2>3 DEF EvacuateAccount
    <3>2. EvacuationSafe(states, sources) => plan = PlanEvacuation(states, sources)
      OBVIOUS
    <3>3. states \in [Backend -> Gauged] /\ sources \in SUBSET Backend /\ "admin" \in Mover
      BY LiveMeasured DEF Mover
    <3> HIDE DEF states, sources, plan
    <3> QED
      BY <3>1, <3>2, <3>3, EvacuationTaken
  <2> QED
    BY <2>1, <2>2, <2>3 DEF AdminAsks
<1> QED
  BY <1>1, <1>2 DEF RouteTypes, inputs

LEMMA AroundTyped ==
    ASSUME RouteTypes, Around
    PROVE  RouteTypes' /\ EvenPlans
<1>1. UNCHANGED <<capacity, mover>>
  BY DEF Around, QuotaWorkerStops, QuotaChanges, AccountSwitched, RecordsChange, MoveUser,
         aroundFrame
<1>2. EvenPlans
  BY <1>1, NothingPlanned DEF NoPlanTaken
<1>3. ASSUME QuotaWorkerStops PROVE RouteTypes'
  <2>1. trusted' = ~trusted
    BY <1>3 DEF QuotaWorkerStops
  <2>2. trusted' \in BOOLEAN
    BY <2>1
  <2>3. UNCHANGED <<quotaOf, groupEnabled, up, keyed, way>>
    BY <1>3 DEF QuotaWorkerStops
  <2> QED
    BY <1>1, <2>2, <2>3 DEF RouteTypes
<1>4. ASSUME NEW b \in Backend, QuotaChanges(b) PROVE RouteTypes'
  BY <1>1, <1>4 DEF QuotaChanges, RouteTypes
<1>5. ASSUME NEW b \in Backend, AccountSwitched(b) PROVE RouteTypes'
  BY <1>1, <1>5 DEF AccountSwitched, RouteTypes, SymDiff
<1>6. ASSUME NEW p \in Person, RecordsChange(p) PROVE RouteTypes'
  BY <1>1, <1>6 DEF RecordsChange, RouteTypes
<1>7. ASSUME NEW p \in Person, MoveUser(p) PROVE RouteTypes'
  <2>1. PICK b \in keyed[p] \ {way[p]} : way' = [way EXCEPT ![p] = b]
    BY <1>7 DEF MoveUser
  <2>2. b \in Backend
    BY <2>1 DEF RouteTypes
  <2>3. way' \in Ways
    BY <2>1, <2>2 DEF RouteTypes, Ways
  <2> QED
    BY <1>1, <1>7, <2>3 DEF MoveUser, RouteTypes
<1> QED
  BY <1>2, <1>3, <1>4, <1>5, <1>6, <1>7 DEF Around

LEMMA RouteStep ==
    ASSUME RouteTypes, [RouteNext]_routeVars
    PROVE  RouteTypes' /\ EvenPlans
<1>1. CASE ControllerStep
  BY <1>1, ReadsTyped, PlanTyped, ApplyTyped, PublishTyped DEF ControllerStep, Mover
<1>2. CASE AdminAsks
  BY <1>2, PlanTyped
<1>3. CASE AdminStep
  BY <1>3, ApplyTyped, PublishTyped DEF AdminStep, Mover
<1>4. CASE Around
  BY <1>4, AroundTyped
<1>5. CASE \E m \in Mover : PublicationFails(m) \/ MoverDies(m)
  BY <1>5, MishapTyped
<1>6. CASE UNCHANGED routeVars
  BY <1>6, NothingPlanned DEF routeVars, RouteTypes, NoPlanTaken
<1> QED
  BY <1>1, <1>2, <1>3, <1>4, <1>5, <1>6 DEF RouteNext

(* Every mover plans with states of the accounts, and every plan and every *)
(* route goes to an account or nowhere.                                    *)
THEOREM RouteTypesHold == RouteSpec => []RouteTypes
<1>1. RouteInit => RouteTypes
  <2> SUFFICES ASSUME RouteInit PROVE RouteTypes
    OBVIOUS
  <2>1. quotaOf \in [Backend -> Quotas] /\ way \in Ways /\ keyed \in [Person -> SUBSET Backend]
    BY DEF RouteInit, Ways
  <2>2. BuildAccountStates(quotaOf, TRUE, Backend, Backend) \in [Backend -> Gauged]
    BY <2>1, StatesMeasured
  <2>3. mover \in [Mover -> MoverStates]
    BY RestTyped DEF RouteInit
  <2> QED
    BY <2>1, <2>2, <2>3 DEF RouteInit, RouteTypes
<1>2. RouteTypes /\ [RouteNext]_routeVars => RouteTypes'
  BY RouteStep
<1> QED
  BY <1>1, <1>2, PTL DEF RouteSpec

(* For any number of users and accounts: an evacuation takes everybody off *)
(* the sources, and no user it moved would find a lighter account; after a *)
(* rebalance no account with users is heavier than that, and none both     *)
(* gains and gives users (PlanEvacuation, PlanGlobalRebalance).            *)
THEOREM PlansAlwaysEven == RouteSpec => PlansEven
<1>1. RouteTypes /\ [RouteNext]_routeVars => [EvenPlans]_routeVars
  BY RouteStep
<1>2. [EvenPlans]_routeVars
      => [/\ \A m \in Mover : Plans(m, "evacuation") =>
                EvenEvacuation(mover'[m].to, mover'[m].states, mover'[m].sources)
          /\ Plans("admin", "rebalance") =>
                ExactRebalance(mover'["admin"].to, mover'["admin"].states)]_routeVars
  BY DEF EvenPlans
<1> QED
  BY <1>1, <1>2, RouteTypesHold, PTL DEF RouteSpec, PlansEven
=============================================================================
