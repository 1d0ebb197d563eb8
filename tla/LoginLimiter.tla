---------------------------- MODULE LoginLimiter ----------------------------
(***************************************************************************)
(* The sign-in of the User Portal (internal/portal/login_limiter.go and    *)
(* createSession in server.go).  An attempt is charged to the bucket of    *)
(* its client and to the bucket of its account, or to none of them; a      *)
(* successful one forgets both; buckets that were idle are dropped.  The   *)
(* buckets are golang.org/x/time/rate: Burst tokens, one more per minute.  *)
(*                                                                         *)
(* Between the charge and the verdict the credential and the key records   *)
(* are read and the password is hashed; other attempts come in between.    *)
(*                                                                         *)
(* Bounds: LastMinute, MaxPending.  A definition marked "Deviation" is     *)
(* what the definition after it must not be.                               *)
(***************************************************************************)
EXTENDS Integers, FiniteSets

CONSTANTS
    Client, Mailbox,    \* keys "portal-ip:" and "portal-account:"
    Burst,              \* defaultLoginBurst
    IdleExpiry,         \* loginLimiterIdleExpiry, in minutes
    LastMinute, MaxPending

ASSUME LoginLimiterAssumption ==
    /\ Burst \in Nat \ {0}
    /\ IdleExpiry \in Nat /\ IdleExpiry >= Burst
    /\ Client \cap Mailbox = {}

VARIABLES
    minute,         \* time
    buckets,        \* entries: tokens at a time, time last seen; or none
    pending,        \* attempts between their charge and their verdict
    reference,      \* tokens of a bucket that is never dropped for idleness
    attempts,       \* attempts charged to a key since it was forgotten
    since           \* when that was

loginVars == <<minute, buckets, pending, reference, attempts, since>>

LimitKey == Client \cup Mailbox
NoBucket == [tokens |-> -1, at |-> 0, seen |-> 0]

Refilled(tokens, from) ==
    IF tokens + minute - from < Burst THEN tokens + minute - from ELSE Burst

TokensAt(b) == IF b = NoBucket THEN Burst ELSE Refilled(b.tokens, b.at)
ReferenceTokens(k) == Refilled(reference[k].tokens, reference[k].at)

-----------------------------------------------------------------------------
(* Deviation: every bucket that was not seen in this minute is dropped. *)
CleanEarly(entries) ==
    [k \in LimitKey |-> IF entries[k] # NoBucket /\ minute - entries[k].seen > 0
                          THEN NoBucket ELSE entries[k]]

(* clean, on every attempt *)
Clean(entries) ==
    [k \in LimitKey |-> IF entries[k] # NoBucket
                             /\ minute - entries[k].seen > IdleExpiry
                          THEN NoBucket ELSE entries[k]]

(* Deviation: the buckets with a token left are charged even if another    *)
(* bucket refuses.                                                         *)
ChargedAlone(entries, keys) ==
    [k \in LimitKey |-> IF k \notin keys THEN entries[k]
        ELSE [tokens |-> IF TokensAt(entries[k]) > 0 THEN TokensAt(entries[k]) - 1 ELSE 0,
              at |-> minute, seen |-> minute]]

(* Missing entries are created full; all are charged or, if one of them    *)
(* has no token, none is.                                                  *)
Charged(entries, keys) ==
    LET cost == IF \A k \in keys : TokensAt(entries[k]) >= 1 THEN 1 ELSE 0
    IN  [k \in LimitKey |-> IF k \notin keys THEN entries[k]
            ELSE [tokens |-> TokensAt(entries[k]) - cost, at |-> minute,
                  seen |-> minute]]

Allowed(keys) == \A k \in keys : TokensAt(Clean(buckets)[k]) >= 1

(* createSession: the attempt is charged, or refused with a retry time.    *)
Attempt(client, mailbox) ==
    LET keys == {client, mailbox}
    IN  /\ buckets' = Charged(Clean(buckets), keys)
        /\ IF Allowed(keys)
             THEN /\ Cardinality(pending) < MaxPending
                  /\ <<client, mailbox>> \notin pending
                  /\ pending' = pending \cup {<<client, mailbox>>}
                  /\ reference' = [k \in LimitKey |-> IF k \in keys
                        THEN [tokens |-> ReferenceTokens(k) - 1, at |-> minute]
                        ELSE reference[k]]
                  /\ attempts' = [k \in LimitKey |-> IF k \in keys
                        THEN attempts[k] + 1 ELSE attempts[k]]
             ELSE UNCHANGED <<pending, reference, attempts>>
        /\ UNCHANGED <<minute, since>>

(* A wrong password, an inactive user or an error.                         *)
Rejected ==
    /\ \E p \in pending : pending' = pending \ {p}
    /\ UNCHANGED <<minute, buckets, reference, attempts, since>>

(* Forget, then the session is created.                                    *)
SignedIn ==
    /\ \E p \in pending :
         LET keys == {p[1], p[2]}
         IN  /\ pending' = pending \ {p}
             /\ buckets' = [k \in LimitKey |-> IF k \in keys THEN NoBucket
                                                             ELSE buckets[k]]
             /\ reference' = [k \in LimitKey |-> IF k \in keys
                   THEN [tokens |-> Burst, at |-> minute] ELSE reference[k]]
             /\ attempts' = [k \in LimitKey |-> IF k \in keys THEN 0 ELSE attempts[k]]
             /\ since' = [k \in LimitKey |-> IF k \in keys THEN minute ELSE since[k]]
    /\ UNCHANGED minute

PassMinute ==
    /\ minute < LastMinute /\ minute' = minute + 1
    /\ UNCHANGED <<buckets, pending, reference, attempts, since>>

-----------------------------------------------------------------------------
LoginInit ==
    /\ minute = 0
    /\ buckets = [k \in LimitKey |-> NoBucket] /\ pending = {}
    /\ reference = [k \in LimitKey |-> [tokens |-> Burst, at |-> 0]]
    /\ attempts = [k \in LimitKey |-> 0] /\ since = [k \in LimitKey |-> 0]

LoginNext ==
    \/ \E client \in Client, mailbox \in Mailbox : Attempt(client, mailbox)
    \/ Rejected \/ SignedIn \/ PassMinute

LoginSpec == LoginInit /\ [][LoginNext]_loginVars

-----------------------------------------------------------------------------
(* Dropping idle buckets, refusing on one of two and forgetting in the     *)
(* middle of other attempts are unobservable: every bucket has exactly the *)
(* tokens of one that is never dropped and pays for charged attempts only. *)
BucketsMatchReference ==
    \A k \in LimitKey : TokensAt(buckets[k]) = ReferenceTokens(k)

(* Between two successes no key is tried more often than the burst and one *)
(* attempt per minute since.                                               *)
AttemptsBounded == \A k \in LimitKey : attempts[k] <= Burst + minute - since[k]
=============================================================================
