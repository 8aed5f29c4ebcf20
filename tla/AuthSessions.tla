---------------------------- MODULE AuthSessions ----------------------------
(***************************************************************************)
(* Who is logged in (src/backend/src/services/AuthSessionService.cpp).     *)
(* Sessions live in PostgreSQL; Redis caches them. A strict request asks   *)
(* PostgreSQL also when the cache has the session. A read-only request     *)
(* believes the cache, and joins the request that is already asking about  *)
(* its session when the cache has nothing; those that ask for readers need *)
(* a permit. A logout revokes the session before it deletes the cached     *)
(* record. Writes to Redis are sent and forgotten: they are executed late, *)
(* in any order, or never.                                                 *)
(***************************************************************************)
EXTENDS Naturals, FiniteSets

CONSTANTS
    Tokens,      \* the sessions, by the hash of their token
    Requests,    \* the requests that are authenticated
    Permits,     \* the permits of Resource::PostgresFallback
    MaxWaiters,  \* how many may wait for one answer
    MaxGroups,   \* how many sessions may be asked about at once
    MaxEnds,     \* bound on sessions that run out and accounts disabled
    NoOne        \* no request

ASSUME ConstantsAssumption ==
    /\ Permits \in Nat /\ MaxGroups \in Nat /\ MaxWaiters \in Nat \ {0}
    /\ MaxEnds \in Nat
    /\ NoOne \notin Requests

Kinds == {"strict", "read", "logout"}
(* Where a request is: before its GET, about to take a permit, asked       *)
(* isActive after a hit, asked findActiveByTokenHash, asked touch, among   *)
(* those that wait, allowed and about to revoke, answered.                 *)
Places == {"new", "get", "permit", "active", "find", "touch", "wait", "revoke", "over"}
Answers == {"none", "yes", "no", "unavailable", "overloaded"}

VARIABLES
    revoked,   \* the sessions that were revoked
    expired,   \* the sessions that have run out
    disabled,  \* the sessions whose account is disabled
    cache,     \* per session the request whose record Redis has, or NoOne
    kind,      \* what a request is
    token,     \* the session it names
    at,        \* where it is
    answer,    \* what it was told
    pending,   \* per session the requests that wait for one answer
    leads,     \* the requests that ask for the waiting ones
    permits,   \* the requests that hold a permit
    sends,     \* per request its writes to Redis that are under way
    began,     \* history: the session was valid when the request began
    source     \* history: the request whose questions gave the answer

request == <<kind, token, at, answer, began, source>>
readers == <<pending, leads, permits>>
session == <<revoked, expired, disabled>>
vars == <<session, cache, request, readers, sends>>

Active(t) == t \notin revoked \union expired
Valid(t) == Active(t) /\ t \notin disabled

TypeOK ==
    /\ revoked \subseteq Tokens /\ expired \subseteq Tokens /\ disabled \subseteq Tokens
    /\ cache \in [Tokens -> Requests \union {NoOne}]
    /\ kind \in [Requests -> Kinds] /\ token \in [Requests -> Tokens]
    /\ at \in [Requests -> Places] /\ answer \in [Requests -> Answers]
    /\ pending \in [Tokens -> SUBSET Requests]
    /\ leads \subseteq Requests /\ permits \subseteq leads
    /\ sends \in [Requests -> SUBSET {"put", "remove"}]
    /\ began \in [Requests -> BOOLEAN]
    /\ source \in [Requests -> Requests \union {NoOne}]

Init ==
    /\ revoked = {} /\ expired = {} /\ disabled = {}
    /\ cache = [t \in Tokens |-> NoOne]
    /\ kind \in [Requests -> Kinds] /\ token \in [Requests -> Tokens]
    /\ at = [q \in Requests |-> "new"] /\ answer = [q \in Requests |-> "none"]
    /\ pending = [t \in Tokens |-> {}] /\ leads = {} /\ permits = {}
    /\ sends = [q \in Requests |-> {}]
    /\ began = [q \in Requests |-> FALSE] /\ source = [q \in Requests |-> NoOne]

-----------------------------------------------------------------------------
(* Outside of the requests.                                                *)

(* The account is disabled, or the session runs out.                       *)
Ends == Cardinality(disabled) + Cardinality(expired)

Disable(t) ==
    /\ Ends < MaxEnds /\ disabled' = disabled \union {t}
    /\ UNCHANGED <<revoked, expired, cache, request, readers, sends>>

RunOut(t) ==
    /\ Ends < MaxEnds /\ expired' = expired \union {t}
    /\ UNCHANGED <<revoked, disabled, cache, request, readers, sends>>

(* The cached record expires, at the latest with its session_cache_ttl.    *)
CacheExpires(t) ==
    /\ cache[t] # NoOne /\ cache' = [cache EXCEPT ![t] = NoOne]
    /\ UNCHANGED <<session, request, readers, sends>>

(* Redis executes a SET or a DEL, or never gets it.                        *)
RedisExecutes(q) ==
    /\ \E w \in sends[q] :
          /\ \/ cache' = [cache EXCEPT ![token[q]] = IF w = "put" THEN q ELSE NoOne]
             \/ UNCHANGED cache
          /\ sends' = [sends EXCEPT ![q] = @ \ {w}]
    /\ UNCHANGED <<session, request, readers>>

-----------------------------------------------------------------------------
(* The answers. The one who asked for the waiting ones tells all of them,  *)
(* and gives its permit back.                                              *)

Mutant_Told(q) == {q}
Told(q) == IF q \in leads THEN pending[token[q]] ELSE {q}

Tell(q, what) ==
    LET next(r) == IF what = "yes" /\ kind[r] = "logout" THEN "revoke" ELSE "over" IN
    /\ answer' = [r \in Requests |-> IF r \in Told(q) THEN what ELSE answer[r]]
    /\ at' = [r \in Requests |-> IF r \in Told(q) THEN next(r) ELSE at[r]]
    /\ source' = [r \in Requests |-> IF r \in Told(q) THEN q ELSE source[r]]
    /\ UNCHANGED <<kind, token, began>>

Mutant_Release(q) ==
    /\ pending' = IF q \in leads THEN [pending EXCEPT ![token[q]] = {}] ELSE pending
    /\ leads' = leads \ {q}
    /\ UNCHANGED permits
Release(q) ==
    /\ pending' = IF q \in leads THEN [pending EXCEPT ![token[q]] = {}] ELSE pending
    /\ leads' = leads \ {q}
    /\ permits' = permits \ {q}

Finish(q, what) == Tell(q, what) /\ Release(q)

Move(q, place) ==
    /\ at' = [at EXCEPT ![q] = place]
    /\ UNCHANGED <<kind, token, answer, began, source>>

Send(q, write) == sends' = [sends EXCEPT ![q] = @ \union {write}]

-----------------------------------------------------------------------------
(* authenticate() and authenticateReadOnly().                              *)

Begin(q) ==
    /\ at[q] = "new"
    /\ at' = [at EXCEPT ![q] = "get"]
    /\ began' = [began EXCEPT ![q] = Valid(token[q])]
    /\ UNCHANGED <<session, cache, kind, token, answer, source, readers, sends>>

Strict(q) == kind[q] # "read" \/ q \in leads

(* A hit has to be confirmed, anything else is asked for.                  *)
Get(q) ==
    /\ at[q] = "get" /\ Strict(q)
    /\ \/ cache[token[q]] # NoOne /\ Move(q, "active")
       \/ Move(q, "find")     \* a miss, or Redis is not there
    /\ UNCHANGED <<session, cache, readers, sends>>

(* A reader takes a hit for the answer, unless the record has run out.     *)
ReadHit(q) ==
    /\ at[q] = "get" /\ ~Strict(q)
    /\ cache[token[q]] # NoOne /\ token[q] \notin expired
    /\ answer' = [answer EXCEPT ![q] = "yes"] /\ at' = [at EXCEPT ![q] = "over"]
    /\ source' = [source EXCEPT ![q] = cache[token[q]]]
    /\ UNCHANGED <<session, cache, kind, token, began, readers, sends>>

Groups == {t \in Tokens : pending[t] # {}}

(* Or it joins those that wait, as far as there is room.                   *)
ReadJoins(q) ==
    LET t == token[q] IN
    /\ at[q] = "get" /\ ~Strict(q) /\ t \in Groups
    /\ IF Cardinality(pending[t]) >= MaxWaiters
       THEN Tell(q, "unavailable") /\ UNCHANGED pending
       ELSE Move(q, "wait") /\ pending' = [pending EXCEPT ![t] = @ \union {q}]
    /\ UNCHANGED <<session, cache, leads, permits, sends>>

(* Or it is the first, and the one to ask.                                 *)
ReadLeads(q) ==
    LET t == token[q] IN
    /\ at[q] = "get" /\ ~Strict(q) /\ t \notin Groups
    /\ IF Cardinality(Groups) >= MaxGroups
       THEN Tell(q, "unavailable") /\ UNCHANGED readers
       ELSE /\ Move(q, "permit") /\ leads' = leads \union {q}
            /\ pending' = [pending EXCEPT ![t] = {q}] /\ UNCHANGED permits
    /\ UNCHANGED <<session, cache, sends>>

Acquire(q) ==
    /\ at[q] = "permit"
    /\ IF Cardinality(permits) < Permits
       THEN Move(q, "get") /\ permits' = permits \union {q} /\ UNCHANGED <<pending, leads>>
       ELSE Finish(q, "overloaded")
    /\ UNCHANGED <<session, cache, sends>>

Unavailable(q) ==
    /\ at[q] \in {"active", "find", "touch"}
    /\ Finish(q, "unavailable")
    /\ UNCHANGED <<session, cache, sends>>

(* validateCachedRecord: only a session that is still valid goes on.       *)
Mutant_Confirmed(q) == TRUE
Confirmed(q) == Valid(token[q])

(* finishRecord: the record is put into the cache, unless the time of the  *)
(* last visit is to be written first.                                      *)
FinishRecord(q) ==
    \/ Finish(q, "yes") /\ Send(q, "put")
    \/ Move(q, "touch") /\ UNCHANGED <<readers, sends>>

Validate(q) ==
    /\ at[q] = "active"
    /\ IF Confirmed(q) THEN FinishRecord(q) ELSE Finish(q, "no") /\ Send(q, "remove")
    /\ UNCHANGED <<session, cache>>

Load(q) ==
    /\ at[q] = "find"
    /\ IF Valid(token[q]) THEN FinishRecord(q) ELSE Finish(q, "no") /\ UNCHANGED sends
    /\ UNCHANGED <<session, cache>>

(* touch() does not look at the account.                                   *)
Touch(q) ==
    /\ at[q] = "touch"
    /\ IF Active(token[q])
       THEN Finish(q, "yes") /\ Send(q, "put")
       ELSE Finish(q, "no") /\ UNCHANGED sends
    /\ UNCHANGED <<session, cache>>

(* revoke(): the update, and then the DEL; or the update failed.           *)
Revoke(q) ==
    /\ at[q] = "revoke"
    /\ \/ revoked' = revoked \union {token[q]} /\ Send(q, "remove")
       \/ UNCHANGED <<revoked, sends>>
    /\ Move(q, "over")
    /\ UNCHANGED <<expired, disabled, cache, readers>>

-----------------------------------------------------------------------------
Step(q) ==
    \/ Get(q) \/ ReadHit(q) \/ ReadJoins(q) \/ ReadLeads(q) \/ Acquire(q)
    \/ Unavailable(q) \/ Validate(q) \/ Load(q) \/ Touch(q) \/ Revoke(q)

Next ==
    \/ \E q \in Requests : Begin(q) \/ Step(q) \/ RedisExecutes(q)
    \/ \E t \in Tokens : Disable(t) \/ RunOut(t) \/ CacheExpires(t)

(* What was sent to PostgreSQL or Redis is answered, or fails.             *)
Fairness == \A q \in Requests : WF_vars(Step(q)) /\ WF_vars(RedisExecutes(q))
Spec == Init /\ [][Next]_vars /\ Fairness

-----------------------------------------------------------------------------
(* A strict request is allowed only when its session was valid after it    *)
(* began; a read-only one at least hears from a request that began while   *)
(* the session was valid, through the record that it has left in the cache *)
(* or by having joined it (validateCachedRecord, finishRecord, remove).    *)
AllowedWhileValid ==
    \A q \in Requests : answer[q] = "yes" =>
        /\ source[q] \in Requests /\ began[source[q]]
        /\ kind[q] # "read" => source[q] = q

(* Whoever waits for an answer waits for a request that is at work, nobody *)
(* waits in two groups, and the groups keep to their permits               *)
(* (authenticateReadOnly).                                                 *)
WaitersAreLed ==
    /\ \A q \in Requests : at[q] = "wait" =>
        \E r \in leads : q \in pending[token[r]] /\ at[r] \notin {"wait", "over"}
    /\ \A q, r \in leads : token[q] = token[r] => q = r
    /\ Cardinality(permits) <= Permits
    /\ (\A q \in Requests : at[q] \in {"new", "over"}) => permits = {} /\ Groups = {}
=============================================================================
