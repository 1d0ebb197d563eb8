----------------------------- MODULE UsageReports -----------------------------
(***************************************************************************)
(* What Admin and the User Portal report of the usage events: the catalogs *)
(* of users and accounts, breakdowns, token trends, the teams              *)
(* (internal/usage: store.go, trends.go, daily_trend.go, team_usage.go,    *)
(* report.go), the weekly report (internal/usagereport/report.go) and the  *)
(* windows their handlers ask for (internal/admin and internal/portal).    *)
(*                                                                         *)
(* Every view is a query of its own over the same rows.  An event is       *)
(* numbered by its row; it counts distinct tokens (Tokens), so two sets of *)
(* events never have the same sum.  Model stands for a model and a         *)
(* reasoning effort, which all views group by in the same way.  A view is  *)
(* a function of groups to metrics; its order is left out.                 *)
(*                                                                         *)
(* Calendar days follow time.Date and Time.AddDate of the Go library in a  *)
(* zone with at most one change of its offset.  A day has DayLength units, *)
(* a week WeekDays days; both are smaller here than in the world.          *)
(*                                                                         *)
(* Bounds: MaxEvents, LastInstant.  A definition marked "Deviation" is     *)
(* what the definition after it must not be.                               *)
(***************************************************************************)
EXTENDS Integers, Sequences, FiniteSets, FiniteSetsExt

CONSTANTS
    Consumer,       \* users the control database knows
    Unknown,        \* the user of a row that has none
    Channel,        \* CPA accounts
    Team, NoTeam,
    Shape,          \* [user, account, model, alias, failed, legacy] of events
    Zone,           \* [change, before, after]: offsets before and from an instant
    DayLength, WeekDays,
    StartedAt,      \* when the collection of models started, 0 for never
    Now,            \* the instants at which the views are asked for
    LastInstant, MaxEvents

ASSUME UsageReportsAssumption ==
    /\ {DayLength, WeekDays, LastInstant, MaxEvents} \subseteq Nat \ {0}
    /\ StartedAt \subseteq Nat /\ Now \subseteq 1..LastInstant

VARIABLES
    usageRows,      \* usage_events
    teamOf,         \* the current team of each user
    zone, started, now

reportVars == <<usageRows, teamOf, zone, started, now>>

ReportInit ==
    /\ usageRows = <<>>
    /\ teamOf = [u \in Consumer |-> NoTeam]
    /\ zone \in Zone /\ started \in StartedAt /\ now \in Now

(* The Collector inserts rows in any order of time. *)
InsertRow ==
    /\ Len(usageRows) < MaxEvents
    /\ \E s \in Shape, at \in 0..LastInstant :
        LET tokens == 2 ^ Len(usageRows)
            row == [shape |-> s, at |-> at, tokens |-> tokens,
                    weighted |-> IF s.legacy THEN 0 ELSE 3 * tokens]
        IN  /\ \A i \in DOMAIN usageRows : usageRows[i].at <= at
            /\ usageRows' = Append(usageRows, row)
    /\ UNCHANGED <<teamOf, zone, started, now>>

SetUserTeam(u) ==
    /\ \E t \in (Team \cup {NoTeam}) \ {teamOf[u]} : teamOf' = [teamOf EXCEPT ![u] = t]
    /\ UNCHANGED <<usageRows, zone, started, now>>

ReportNext == InsertRow \/ \E u \in Consumer : SetUserTeam(u)

ReportSpec == ReportInit /\ [][ReportNext]_reportVars

---------------------------------------------------------------------------
(* Metrics.                                                                *)

Row == DOMAIN usageRows
User(i) == usageRows[i].shape.user
Account(i) == usageRows[i].shape.account
Model(i) == usageRows[i].shape.model
Time(i) == usageRows[i].at
Failed(i) == usageRows[i].shape.failed
Aliased(i) == usageRows[i].shape.alias
Tokens(i) == usageRows[i].tokens
(* effectiveWeightedTokensSQL *)
Weighted(i) ==
    IF usageRows[i].shape.legacy /\ usageRows[i].weighted = 0 /\ Tokens(i) > 0
    THEN Tokens(i) ELSE usageRows[i].weighted

(* Rows from s on and before e; Open is an end that is not given. *)
Open == LastInstant + 1
Within(s, e) == {i \in Row : s <= Time(i) /\ Time(i) < e}

SumTokens(S) == MapThenSumSet(Tokens, S)
SumWeighted(S) == MapThenSumSet(Weighted, S)
Latest(S) == Max({0} \cup {Time(i) : i \in S})
Succeeded(S) == {i \in S : ~Failed(i)}

(* RawMetrics and WeightedMetrics of a query that sums all rows, and of    *)
(* one that sums only the tokens of successful requests.                   *)
Metrics(S) ==
    [requests |-> Cardinality(S), successes |-> Cardinality(Succeeded(S)),
     tokens |-> SumTokens(S), weighted |-> SumWeighted(S), last |-> Latest(S)]
SuccessMetrics(S) ==
    [requests |-> Cardinality(S), successes |-> Cardinality(Succeeded(S)),
     tokens |-> SumTokens(Succeeded(S)), weighted |-> SumWeighted(Succeeded(S)),
     last |-> Latest(Succeeded(S))]

Group(S, key(_), metrics(_)) ==
    [k \in {key(i) : i \in S} |-> metrics({i \in S : key(i) = k})]

(* addWeighted *)
AddWeighted(m, n) ==
    [requests |-> m.requests + n.requests, successes |-> m.successes + n.successes,
     tokens |-> m.tokens + n.tokens, weighted |-> m.weighted + n.weighted,
     last |-> Max({m.last, n.last})]
NoMetrics == [requests |-> 0, successes |-> 0, tokens |-> 0, weighted |-> 0, last |-> 0]
Added(view, keys) == FoldSet(LAMBDA k, sum : AddWeighted(view[k], sum), NoMetrics, keys)
Total(view) == Added(view, DOMAIN view)

---------------------------------------------------------------------------
(* Users and accounts (store.go).                                          *)

UserSummaries(s, e) ==
    Group({i \in Within(Max({s, 0}), e) : User(i) # Unknown}, User, Metrics)

UserSummariesForUsers(users, s, e) ==
    Group({i \in Within(Max({s, 0}), e) : User(i) # Unknown /\ User(i) \in users},
          User, Metrics)

UserAccounts(u, s, e) ==
    LET accounts == Group({i \in Within(Max({s, 0}), e) : User(i) = u}, Account, Metrics)
    IN  [accounts |-> accounts, totals |-> Total(accounts)]

(* Collection of models starts later than that of usage. *)
Collected(s, e) ==
    IF started = 0 THEN {} ELSE {i \in Within(Max({started, s}), e) : Aliased(i)}

(* Failed requests count, but a group of only failed ones is not listed.   *)
UserBreakdown(u, accounts, s, e) ==
    LET rows == {i \in Collected(s, e) : User(i) = u /\ Account(i) \in accounts}
        grouped == Group(rows, LAMBDA i : <<Account(i), Model(i)>>, SuccessMetrics)
        listed == {k \in DOMAIN grouped : grouped[k].successes > 0}
    IN  [totals |-> Total(grouped),
         combinations |-> [k \in listed |-> grouped[k]],
         models |-> [m \in {k[2] : k \in listed} |->
                        Added(grouped, {k \in listed : k[2] = m})]]

AccountBreakdown(a, s, e) ==
    LET rows == {i \in Collected(s, e) : Account(i) = a}
        grouped == Group(rows, Model, Metrics)
    IN  [totals |-> Total(grouped), models |-> grouped]

CountUsers(S) == Cardinality({User(i) : i \in S} \ {Unknown})

AccountSummariesByStart(starts, e) ==
    [a \in DOMAIN starts |->
        LET rows == {i \in Within(Max({starts[a], 0}), e) : Account(i) = a}
        IN  [users |-> CountUsers(rows), metrics |-> Metrics(rows)]]

AccountSummaries(accounts, s, e) ==
    LET rows(a) == {i \in Within(Max({s, 0}), e) : Account(i) = a}
        grouped == Group({i \in Within(Max({s, 0}), e) : Account(i) \in accounts},
                         Account, Metrics)
    IN  [a \in accounts |-> IF a \in DOMAIN grouped
                            THEN [users |-> CountUsers(rows(a)), metrics |-> grouped[a]]
                            ELSE [users |-> 0, metrics |-> NoMetrics]]

(* activeUserEmails; the window reaches to the present and beyond.         *)
ActiveUserEmails(window) ==
    Group({i \in Within(now - window, Open) : User(i) # Unknown}, Account,
          LAMBDA S : {User(i) : i \in S})

(* Rows without a user count as one key. *)
PublicGatewayUsage(accounts, s, e) ==
    [a \in accounts |->
        LET rows == {i \in Within(s, e) : Account(i) = a}
        IN  [keys |-> Cardinality({User(i) : i \in rows}), requests |-> Cardinality(rows)]]

---------------------------------------------------------------------------
(* Token trends (trends.go).                                               *)

BucketOf(t, seconds) == (t \div seconds) * seconds
Buckets(s, e, seconds) ==
    {b \in BucketOf(s, seconds)..BucketOf(e - 1, seconds) : b % seconds = 0}

(* buildTokenSeries: the sum of each bucket, in total and on average since *)
(* the bucket of the series' own start.                                    *)
TokenSeries(S, buckets, seconds, from) ==
    LET values == [b \in buckets |-> SumTokens({i \in S : BucketOf(Time(i), seconds) = b})]
        counted == {b \in buckets : b >= BucketOf(from, seconds)}
    IN  [values |-> values,
         total |-> MapThenSumSet(LAMBDA b : values[b], buckets),
         average |-> <<MapThenSumSet(LAMBDA b : values[b], counted), Cardinality(counted)>>]

(* The users with the most tokens, at most limit. *)
TopUsers(S, limit) ==
    LET used == {User(i) : i \in S}
        of(u) == SumTokens({i \in S : User(i) = u})
    IN  CHOOSE top \in SUBSET used :
            /\ Cardinality(top) = Min({limit, Cardinality(used)})
            /\ \A u \in top, w \in used \ top : of(u) >= of(w)

(* starts is the start of each account's own period, or the same for all.  *)
TokenTimeSeries(accounts, known, selected, starts, e, seconds, limit) ==
    LET s == Min({starts[a] : a \in accounts})
        buckets == Buckets(s, e, seconds)
        ranged == {i \in Row : Account(i) \in accounts /\ Time(i) < e
                               /\ Time(i) >= starts[Account(i)]}
        scope == IF selected = {} THEN known ELSE selected
        shown == IF selected = {}
                 THEN TopUsers({i \in ranged : User(i) \in known}, limit) ELSE selected
    IN  [accounts |-> [a \in accounts |->
            TokenSeries({i \in ranged : Account(i) = a /\ User(i) \in scope},
                        buckets, seconds, starts[a])],
         users |-> [u \in shown |->
            TokenSeries({i \in ranged : User(i) = u}, buckets, seconds, s)]]

---------------------------------------------------------------------------
(* Teams (team_usage.go): the history of a user belongs to the user's      *)
(* current team.                                                           *)

TeamUsage(s, e) ==
    LET grouped == Group({i \in Within(s, e) : User(i) \in Consumer}, User, Metrics)
        of(t) == {u \in DOMAIN grouped : teamOf[u] = t}
    IN  [t \in Team \cup {NoTeam} |->
            [users |-> Cardinality(of(t)), metrics |-> Added(grouped, of(t))]]

TeamBreakdown(users, s, e) ==
    LET scope == {i \in Within(s, e) : User(i) \in users}
    IN  [totals |-> Metrics(scope), users |-> Group(scope, User, Metrics),
         accounts |-> Group(scope, Account, Metrics), models |-> Group(scope, Model, Metrics)]

(* loadTeamSeries: a window without an end ends now, one without a start   *)
(* with the first event; the bucket follows the duration.                  *)
TeamSeriesSeconds(duration) == IF duration <= DayLength THEN 1 ELSE DayLength
TeamSeries(users, s, e) ==
    LET scope == {i \in Within(s, e) : User(i) \in users}
        first == IF s > 0 THEN s ELSE IF scope = {} THEN now ELSE Min({Time(i) : i \in scope})
        end == IF e = Open THEN now ELSE e
        seconds == TeamSeriesSeconds(Max({end - first, 1}))
    IN  [b \in Buckets(first, Max({first + 1, end}), seconds) |->
            SumWeighted({i \in scope : BucketOf(Time(i), seconds) = b})]

---------------------------------------------------------------------------
(* Calendar.  time.Date looks the offset up as if the local time were the  *)
(* instant, and once more if the result lies beyond the change.            *)

OffsetAt(t) == IF t < zone.change THEN zone.before ELSE zone.after
SameEra(t, w) == (t < zone.change) = (w < zone.change)
Local(t) == t + OffsetAt(t)

Date(day, clock) ==
    LET local == day * DayLength + clock
        guess == local - OffsetAt(local)
    IN  IF SameEra(guess, local) THEN guess ELSE local - OffsetAt(guess)

DayOf(t) == Local(t) \div DayLength
ClockOf(t) == Local(t) % DayLength
AddDays(t, days) == Date(DayOf(t) + days, ClockOf(t))

Today == Date(DayOf(now), 0)
Monday == AddDays(Today, -(DayOf(Today) % WeekDays))

(* parseUsageWindow of the Portal and of Admin, which leaves the end open. *)
PortalWindow(name) ==
    [start |-> CASE name = "today" -> Today
                 [] name = "current_week" -> Monday
                 [] OTHER -> now - DayLength,
     end |-> now]
AdminWindow(name) ==
    [start |-> CASE name = "today" -> Today
                 [] name = "week" -> Monday
                 [] name = "all" -> 0
                 [] OTHER -> now - DayLength,
     end |-> Open]

---------------------------------------------------------------------------
(* The daily trend of a user (daily_trend.go).                             *)

NaturalDays(days) ==
    LET first == AddDays(Today, 1 - days)
    IN  [i \in 1..days |->
            LET start == AddDays(first, i - 1)
            IN  [start |-> start, end |-> Min({AddDays(start, 1), now})]]

CollectionState(day) ==
    IF started = 0 \/ day.end <= started THEN "uncollected"
    ELSE IF day.start < started THEN "partial" ELSE "complete"

(* queryDailyTotals: a join of the days and the rows. *)
DailyTotals(u, bounds) ==
    LET from == Max({started, bounds[1].start})
    IN  [i \in DOMAIN bounds |->
            SuccessMetrics({r \in Collected(from, bounds[i].end) :
                                User(r) = u /\ Time(r) >= bounds[i].start})]

DayAfterEnd(t, bounds) ==         \* Deviation: an end belongs to its day
    Min({i \in 1..Len(bounds) + 1 : i > Len(bounds) \/ t <= bounds[i].end})

(* queryDailyCombinations walks the rows and the days in order of time; a  *)
(* row in no day is an error.                                              *)
DayOfRow(t, bounds) ==
    Min({i \in 1..Len(bounds) + 1 : i > Len(bounds) \/ t < bounds[i].end})

DailyCombinations(u, bounds) ==
    LET rows == {i \in Collected(bounds[1].start, now) : User(i) = u}
        days(i) == {r \in rows : DayOfRow(Time(r), bounds) = i}
    IN  [ok |-> \A r \in rows : LET i == DayOfRow(Time(r), bounds)
                                IN  i <= Len(bounds) /\ Time(r) >= bounds[i].start,
         totals |-> [i \in DOMAIN bounds |-> SuccessMetrics(days(i))],
         combinations |-> [i \in DOMAIN bounds |->
             Group({r \in days(i) : \E w \in Succeeded(days(i)) : Model(w) = Model(r)},
                   Model, SuccessMetrics)]]

---------------------------------------------------------------------------
(* The weekly report.                                                      *)

(* ResolvePeriod: the week asked for, and the same part of the week before *)
ResolvePeriod(start) ==
    LET end == AddDays(start, WeekDays)
        previous == AddDays(start, -WeekDays)
    IN  IF end > now
        THEN [current |-> [start |-> start, end |-> now],
              previous |-> [start |-> previous, end |-> AddDays(now, -WeekDays)]]
        ELSE [current |-> [start |-> start, end |-> end],
              previous |-> [start |-> previous, end |-> start]]
Weeks == {Monday, AddDays(Monday, -WeekDays)}

(* Period.days: a day begins where the day before ends. *)
ReportDays(span) ==
    LET begin[i \in 1..WeekDays] ==
            IF i = 1 THEN span.start ELSE AddDays(begin[i - 1], 1)
    IN  [i \in {j \in 1..WeekDays : begin[j] < span.end} |->
            [start |-> begin[i], end |-> Min({AddDays(begin[i], 1), span.end})]]

(* ReportUsage: one row of each day, account and user. *)
ReportUsage(days) ==
    LET in(i) == Within(days[i].start, days[i].end)
    IN  [k \in UNION {{<<i, Account(r), User(r)>> : r \in in(i)} : i \in DOMAIN days} |->
            Metrics({r \in in(k[1]) : Account(r) = k[2] /\ User(r) = k[3]})]

(* Build adds each row to its day, its team, its account and its user;     *)
(* accounts and users that are gone are listed under what they were.       *)
Build(span) ==
    LET rows == ReportUsage(ReportDays(span))
        by(key(_)) == [v \in {key(k) : k \in DOMAIN rows} |->
                          Added(rows, {k \in DOMAIN rows : key(k) = v})]
    IN  [totals |-> Total(rows), days |-> by(LAMBDA k : k[1]), accounts |-> by(LAMBDA k : k[2]),
         users |-> by(LAMBDA k : k[3]),
         teams |-> by(LAMBDA k : IF k[3] \in Consumer THEN teamOf[k[3]] ELSE NoTeam)]

---------------------------------------------------------------------------
Everyone == Consumer \cup {Unknown}
Uniform(s) == [a \in Channel |-> s]

(* The daily trend of a user, queried by totals or by combinations, adds   *)
(* up to the user's breakdown of the same window (UserDailyTrend:          *)
(* "aggregates the same successful Token and legacy weighted fallback      *)
(* semantics as UserBreakdown. It adds only natural-day buckets").         *)
DailyAddsUp ==
    \A u \in Consumer, n \in {1, 3} :
        LET bounds == NaturalDays(n)
            totals == DailyTotals(u, bounds)
            listed == DailyCombinations(u, bounds)
        IN  /\ listed.ok /\ listed.totals = totals
            /\ Total(totals) = UserBreakdown(u, Channel, bounds[1].start, now).totals
            /\ \A i \in 1..n :
                /\ CollectionState(bounds[i]) = "uncollected" => totals[i].requests = 0
                /\ Total(listed.combinations[i]).tokens = totals[i].tokens

(* The lists of users, of accounts and of teams show the same usage, each  *)
(* row in one place (UserSummaries, UserAccounts, AccountSummaries,        *)
(* TeamUsage, TeamBreakdown).                                              *)
ListsAgree ==
    \A name \in {"today", "week", "all", "hours"} :
        LET s == AdminWindow(name).start
            users == UserSummaries(s, Open)
            accounts == AccountSummaries(Channel, s, Open)
            teams == TeamUsage(s, Open)
            members(t) == {u \in Consumer : teamOf[u] = t}
        IN  /\ \A u \in DOMAIN users : UserAccounts(u, s, Open).totals = users[u]
            /\ accounts = AccountSummariesByStart(Uniform(s), Open)
            /\ AddWeighted(Total(users), Metrics({i \in Within(s, Open) : User(i) = Unknown}))
               = Total([a \in Channel |-> accounts[a].metrics])
            /\ \A t \in DOMAIN teams :
                LET detail == TeamBreakdown(members(t), s, Open)
                IN  /\ teams[t].metrics = detail.totals
                    /\ detail.totals = Total(detail.users)
                    /\ detail.users = UserSummariesForUsers(members(t), s, Open)
                    /\ detail.totals = Total(detail.accounts)
                    /\ detail.totals = Total(detail.models)
                    /\ teams[t].users = Cardinality(DOMAIN detail.users)

(* The series of a trend add up to the lists, also when each account has a *)
(* period of its own (TokenTimeSeries, loadTeamSeries).                    *)
TrendsAddUp ==
    \A seconds \in {1, DayLength}, own \in BOOLEAN :
        LET s == Max({PortalWindow("today").start - DayLength, 0})
            starts == [a \in Channel |-> IF own /\ a = CHOOSE c \in Channel : TRUE
                                         THEN s + 1 ELSE s]
            trend == TokenTimeSeries(Channel, Everyone, {}, starts, now, seconds,
                                     Cardinality(Everyone))
            lists == AccountSummariesByStart(starts, now)
            series == TeamSeries(Consumer, s, now)
        IN  /\ \A a \in Channel : /\ trend.accounts[a].total = lists[a].metrics.tokens
                                  /\ trend.accounts[a].average[1] = trend.accounts[a].total
            /\ MapThenSumSet(LAMBDA a : trend.accounts[a].total, Channel)
               = MapThenSumSet(LAMBDA u : trend.users[u].total, DOMAIN trend.users)
            /\ MapThenSumSet(LAMBDA b : series[b], DOMAIN series)
               = TeamBreakdown(Consumer, s, now).totals.weighted

(* The weekly report lists every row of both weeks once by day, by team,   *)
(* by account and by user (Build: "reconciles every row into all three     *)
(* dimensions, including unknown or removed users/accounts").              *)
WeeksAddUp ==
    \A week \in Weeks :
        LET period == ResolvePeriod(week)
        IN  \A span \in {period.current, period.previous} :
                LET report == Build(span)
                    rows == Within(span.start, span.end)
                IN  \A view \in {report.days, report.teams, report.accounts, report.users} :
                        Total(view) = Metrics(rows) /\ report.totals = Metrics(rows)

ViewsAgree == DailyAddsUp /\ ListsAgree /\ TrendsAddUp /\ WeeksAddUp
=============================================================================
