---------------------------- MODULE AccessProofs ----------------------------
(***************************************************************************)
(* Whoever is let through was logged in, and whoever waits for the answer  *)
(* to another request is led by it, for any number of sessions, requests   *)
(* and permits.                                                            *)
(* In the end all of that, and what WaitingRoomProofs says of the waiting  *)
(* room, is carried over to MCAccess.                                      *)
(***************************************************************************)
EXTENDS MCAccess, TLAPS, FiniteSetTheorems

USE DEF Kinds, Places, Answers

(* What a request has seen: it began while its session was valid, as long  *)
(* as the session still is or the request has found it to be, and so did   *)
(* those whose record the cache has or will have.                          *)
SeenValid ==
    /\ \A q \in Requests : at[q] = "new" => ~began[q]
    /\ \A q \in Requests : at[q] # "new" /\ Valid(token[q]) => began[q]
    /\ \A q \in Requests : at[q] = "touch" => began[q]
    /\ \A q \in Requests : "put" \in sends[q] => began[q]
    /\ \A t \in Tokens : cache[t] # NoOne => began[cache[t]]

(* A group of waiting requests is of readers of one session: its leader,   *)
(* which is at work, and those that wait for it.                           *)
Working == {"get", "permit", "active", "find", "touch"}

GroupsAreLed ==
    /\ \A q \in leads :
          /\ kind[q] = "read" /\ at[q] \in Working
          /\ q \in pending[token[q]]
    /\ \A q, r \in leads : token[q] = token[r] => q = r
    /\ \A t \in Tokens : \A q \in pending[t] :
          /\ token[q] = t /\ kind[q] = "read"
          /\ q \notin leads => at[q] = "wait"
    /\ \A t \in Tokens : pending[t] # {} => \E r \in leads : token[r] = t
    /\ \A q \in Requests : at[q] = "wait" => q \in pending[token[q]]
    /\ \A q \in Requests : at[q] = "permit" => q \in leads

PermitsAreKept == IsFiniteSet(permits) /\ Cardinality(permits) <= Permits

IInv == TypeOK /\ SeenValid /\ AllowedWhileValid /\ GroupsAreLed /\ PermitsAreKept

-----------------------------------------------------------------------------
LEMMA InitInv == Init => IInv
<1> SUFFICES ASSUME Init PROVE IInv
  OBVIOUS
<1>1. TypeOK
  BY DEF Init, TypeOK
<1>2. SeenValid
  BY DEF Init, SeenValid
<1>3. AllowedWhileValid
  BY DEF Init, AllowedWhileValid
<1>4. GroupsAreLed
  BY DEF Init, GroupsAreLed
<1>5. PermitsAreKept
  BY FS_EmptySet, ConstantsAssumption DEF Init, PermitsAreKept
<1>6. QED
  BY <1>1, <1>2, <1>3, <1>4, <1>5 DEF IInv

-----------------------------------------------------------------------------
(* The answer of a request goes to itself, or to its group: all readers,   *)
(* which are over then; the permit comes back.                             *)
LEMMA FinishKeeps ==
    ASSUME IInv, NEW q \in Requests, NEW what \in Answers \ {"none"},
           at[q] \in Working, Finish(q, what),
           what = "yes" => began[q],
           UNCHANGED session, UNCHANGED cache,
           \/ UNCHANGED sends
           \/ Send(q, "put") /\ began[q]
           \/ Send(q, "remove")
    PROVE  IInv'
<1> USE DEF IInv
<1>1. Told(q) \subseteq Requests /\ q \in Told(q)
  BY DEF Told, TypeOK, GroupsAreLed
<1>2. \A r \in Told(q) : r # q => kind[r] = "read" /\ q \in leads
  BY DEF Told, TypeOK, GroupsAreLed
<1>3. TypeOK'
  <2>1. sends' \in [Requests -> SUBSET {"put", "remove"}]
    BY DEF TypeOK, Send
  <2>2. /\ at' \in [Requests -> Places] /\ answer' \in [Requests -> Answers]
        /\ source' \in [Requests -> Requests \union {NoOne}]
    BY DEF TypeOK, Finish, Tell
  <2>3. pending' \in [Tokens -> SUBSET Requests]
    BY DEF TypeOK, Finish, Release
  <2>4. leads' \subseteq Requests /\ permits' \subseteq leads'
    BY DEF TypeOK, Finish, Release
  <2>5. QED
    BY <2>1, <2>2, <2>3, <2>4 DEF TypeOK, Finish, Tell, session
<1>4. SeenValid'
  <2>1. \A r \in Requests : at[r] = "new" <=> at'[r] = "new"
    BY <1>1 DEF Finish, Tell, Told, GroupsAreLed, TypeOK, Working
  <2>2. \A r \in Requests : at'[r] = "touch" => at[r] = "touch"
    BY DEF Finish, Tell, TypeOK
  <2>3. \A r \in Requests : "put" \in sends'[r] => "put" \in sends[r] \/ (r = q /\ began[q])
    BY DEF Send, TypeOK
  <2>4. began' = began /\ token' = token /\ cache' = cache
    BY DEF Finish, Tell
  <2>5. \A t : Valid(t)' <=> Valid(t)
    BY DEF Valid, Active, session
  <2>6. QED
    BY <2>1, <2>2, <2>3, <2>4, <2>5 DEF SeenValid
<1>5. AllowedWhileValid'
  <2> SUFFICES ASSUME NEW r \in Requests, answer'[r] = "yes"
               PROVE  /\ source'[r] \in Requests /\ began'[source'[r]]
                      /\ kind'[r] # "read" => source'[r] = r
    BY DEF AllowedWhileValid
  <2>1. began' = began /\ kind' = kind
    BY DEF Finish, Tell
  <2>2. CASE r \in Told(q)
    BY <2>1, <2>2, <1>2 DEF Finish, Tell, TypeOK
  <2>3. CASE r \notin Told(q)
    BY <2>1, <2>3 DEF Finish, Tell, TypeOK, AllowedWhileValid
  <2>4. QED
    BY <2>2, <2>3
<1>6. GroupsAreLed'
  <2>1. CASE q \in leads
    <3>1. /\ pending' = [pending EXCEPT ![token[q]] = {}] /\ leads' = leads \ {q}
          /\ token' = token /\ kind' = kind
      BY <2>1 DEF Finish, Release, Tell
    <3>2. \A r \in Requests : r \in pending[token[q]] => at'[r] = "over"
      BY <2>1 DEF Finish, Tell, Told, TypeOK, GroupsAreLed
    <3>3. \A r \in Requests : r \notin pending[token[q]] => at'[r] = at[r]
      BY <2>1 DEF Finish, Tell, Told, TypeOK
    <3>4. token[q] \in Tokens
      BY DEF TypeOK
    <3>5. QED
      BY <2>1, <3>1, <3>2, <3>3, <3>4 DEF GroupsAreLed, TypeOK
  <2>2. CASE q \notin leads
    <3>1. /\ pending' = pending /\ leads' = leads
          /\ token' = token /\ kind' = kind
      BY <2>2 DEF Finish, Release, Tell, TypeOK
    <3>2. \A r \in Requests : r # q => at'[r] = at[r]
      BY <2>2 DEF Finish, Tell, Told, TypeOK
    <3>3. at'[q] \in {"over", "revoke"}
      BY <2>2 DEF Finish, Tell, Told, TypeOK
    <3>4. \A t \in Tokens : q \notin pending[t]
      BY <2>2 DEF GroupsAreLed, Working
    <3>5. \A r \in leads : /\ kind[r] = "read" /\ at'[r] \in Working
                           /\ r \in pending[token[r]]
      BY <2>2, <3>2 DEF GroupsAreLed, TypeOK
    <3>6. \A t \in Tokens : \A r \in pending[t] :
            /\ token[r] = t /\ kind[r] = "read"
            /\ r \notin leads => at'[r] = "wait"
      BY <3>2, <3>4 DEF GroupsAreLed, TypeOK
    <3>7. /\ \A r \in Requests : at'[r] = "wait" => r \in pending[token[r]]
          /\ \A r \in Requests : at'[r] = "permit" => r \in leads
      BY <3>2, <3>3 DEF GroupsAreLed
    <3>8. /\ \A r, u \in leads : token[r] = token[u] => r = u
          /\ \A t \in Tokens : pending[t] # {} => \E r \in leads : token[r] = t
      BY DEF GroupsAreLed
    <3>9. QED
      BY <3>1, <3>5, <3>6, <3>7, <3>8 DEF GroupsAreLed, Working
  <2>3. QED
    BY <2>1, <2>2
<1>7. PermitsAreKept'
  <2>1. permits' = permits \ {q}
    BY DEF Finish, Release
  <2>2. IsFiniteSet(permits') /\ Cardinality(permits') <= Cardinality(permits)
    BY <2>1, FS_Subset DEF PermitsAreKept
  <2>3. QED
    <3>1. Cardinality(permits) \in Nat /\ Cardinality(permits') \in Nat
      BY <2>2, FS_CardinalityType DEF PermitsAreKept
    <3>2. QED
      BY <2>2, <3>1, ConstantsAssumption DEF PermitsAreKept
<1>8. QED
  BY <1>3, <1>4, <1>5, <1>6, <1>7

-----------------------------------------------------------------------------
(* A step that only moves a request between the places of its work.        *)
LEMMA MoveKeeps ==
    ASSUME IInv, NEW q \in Requests, NEW place \in Working,
           at[q] \in Working, Move(q, place), place # "permit",
           place = "touch" => began[q],
           UNCHANGED <<session, cache, readers, sends>>
    PROVE  IInv'
<1> USE DEF IInv
<1>1. /\ at' = [at EXCEPT ![q] = place]
      /\ UNCHANGED <<kind, token, answer, began, source, revoked, expired, disabled,
                     cache, pending, leads, permits, sends>>
  BY DEF Move, session, readers
<1>2. TypeOK'
  BY <1>1 DEF TypeOK, Working
<1>3. SeenValid'
  BY <1>1 DEF SeenValid, Valid, Active, TypeOK, Working
<1>4. AllowedWhileValid'
  BY <1>1 DEF AllowedWhileValid
<1>5. GroupsAreLed'
  BY <1>1 DEF GroupsAreLed, Working, TypeOK
<1>6. PermitsAreKept'
  BY <1>1 DEF PermitsAreKept
<1>7. QED
  BY <1>2, <1>3, <1>4, <1>5, <1>6

(* finishRecord of a request whose session was found to be active.         *)
LEMMA FinishRecordKeeps ==
    ASSUME IInv, NEW q \in Requests, at[q] \in {"active", "find"}, began[q],
           FinishRecord(q), UNCHANGED <<session, cache>>
    PROVE  IInv'
<1>1. CASE Finish(q, "yes") /\ Send(q, "put")
  BY <1>1, FinishKeeps DEF Working
<1>2. CASE Move(q, "touch") /\ UNCHANGED <<readers, sends>>
  BY <1>2, MoveKeeps DEF Working
<1>3. QED
  BY <1>1, <1>2 DEF FinishRecord

-----------------------------------------------------------------------------
(* A session or an account ends: what is valid after it was valid before.  *)
LEMMA EndsKeep ==
    ASSUME IInv, NEW t \in Tokens,
           \/ Disable(t) \/ RunOut(t)
    PROVE  IInv'
<1> USE DEF IInv
<1>1. /\ UNCHANGED <<kind, token, at, answer, began, source, cache, pending, leads,
                     permits, sends, revoked>>
      /\ expired \subseteq expired' /\ expired' \subseteq Tokens
      /\ disabled \subseteq disabled' /\ disabled' \subseteq Tokens
  BY DEF Disable, RunOut, request, readers, TypeOK
<1>2. TypeOK'
  BY <1>1 DEF TypeOK
<1>3. SeenValid'
  BY <1>1 DEF SeenValid, Valid, Active
<1>4. AllowedWhileValid'
  BY <1>1 DEF AllowedWhileValid
<1>5. GroupsAreLed'
  BY <1>1 DEF GroupsAreLed
<1>6. PermitsAreKept'
  BY <1>1 DEF PermitsAreKept
<1>7. QED
  BY <1>2, <1>3, <1>4, <1>5, <1>6

(* What Redis does: a record that is there after it was sent by a request  *)
(* that had seen the session valid, or was there before.                   *)
LEMMA RedisKeeps ==
    ASSUME IInv,
           \/ \E t \in Tokens : CacheExpires(t)
           \/ \E q \in Requests : RedisExecutes(q)
    PROVE  IInv'
<1> USE DEF IInv
<1>1. UNCHANGED <<kind, token, at, answer, began, source, pending, leads, permits,
                  revoked, expired, disabled>>
  BY DEF CacheExpires, RedisExecutes, request, readers, session
<1>2. /\ sends' \in [Requests -> SUBSET {"put", "remove"}]
      /\ \A q \in Requests : sends'[q] \subseteq sends[q]
  BY DEF CacheExpires, RedisExecutes, TypeOK
<1>3. \/ UNCHANGED cache
      \/ \E t \in Tokens, r \in Requests \union {NoOne} :
            /\ r # NoOne => r \in Requests /\ "put" \in sends[r]
            /\ cache' = [cache EXCEPT ![t] = r]
  <2>1. CASE \E t \in Tokens : CacheExpires(t)
    BY <2>1 DEF CacheExpires
  <2>2. ASSUME NEW q \in Requests, NEW w \in sends[q],
               cache' = [cache EXCEPT ![token[q]] = IF w = "put" THEN q ELSE NoOne]
        PROVE  \E t \in Tokens, r \in Requests \union {NoOne} :
                  /\ r # NoOne => r \in Requests /\ "put" \in sends[r]
                  /\ cache' = [cache EXCEPT ![t] = r]
    <3>1. token[q] \in Tokens
      BY DEF TypeOK
    <3>2. CASE w = "put"
      BY <2>2, <3>1, <3>2
    <3>3. CASE w # "put"
      BY <2>2, <3>1, <3>3
    <3>4. QED
      BY <3>2, <3>3
  <2>3. QED
    BY <2>1, <2>2 DEF RedisExecutes
<1>4. /\ cache' \in [Tokens -> Requests \union {NoOne}]
      /\ \A t \in Tokens : cache'[t] # NoOne => began[cache'[t]]
  <2>1. CASE UNCHANGED cache
    BY <2>1 DEF TypeOK, SeenValid
  <2>2. ASSUME NEW t \in Tokens, NEW r \in Requests \union {NoOne},
               r # NoOne => r \in Requests /\ "put" \in sends[r],
               cache' = [cache EXCEPT ![t] = r]
        PROVE  /\ cache' \in [Tokens -> Requests \union {NoOne}]
               /\ \A u \in Tokens : cache'[u] # NoOne => began[cache'[u]]
    <3>1. r # NoOne => began[r]
      BY <2>2 DEF SeenValid
    <3>2. \A u \in Tokens : cache'[u] = IF u = t THEN r ELSE cache[u]
      BY <2>2 DEF TypeOK
    <3>3. cache' \in [Tokens -> Requests \union {NoOne}]
      BY <2>2 DEF TypeOK
    <3>4. QED
      BY <3>1, <3>2, <3>3 DEF SeenValid
  <2>3. QED
    BY <1>3, <2>1, <2>2
<1>5. TypeOK'
  BY <1>1, <1>2, <1>4 DEF TypeOK
<1>6. SeenValid'
  BY <1>1, <1>2, <1>4 DEF SeenValid, Valid, Active
<1>7. AllowedWhileValid'
  BY <1>1 DEF AllowedWhileValid
<1>8. GroupsAreLed'
  BY <1>1 DEF GroupsAreLed
<1>9. PermitsAreKept'
  BY <1>1 DEF PermitsAreKept
<1>10. QED
  BY <1>5, <1>6, <1>7, <1>8, <1>9

-----------------------------------------------------------------------------
(* The request begins: from now on it knows whether its session was valid. *)
LEMMA BeginKeeps ==
    ASSUME IInv, NEW q \in Requests, Begin(q)
    PROVE  IInv'
<1> USE DEF IInv
<1>1. /\ at[q] = "new" /\ at' = [at EXCEPT ![q] = "get"]
      /\ began' = [began EXCEPT ![q] = Valid(token[q])]
      /\ UNCHANGED <<revoked, expired, disabled, cache, kind, token, answer, source,
                     pending, leads, permits, sends>>
  BY DEF Begin, session, readers
<1>2. ~began[q]
  BY <1>1 DEF SeenValid
<1>3. \A r \in Requests : began[r] => began'[r] /\ r # q
  BY <1>1, <1>2 DEF TypeOK
<1>4. TypeOK'
  BY <1>1 DEF TypeOK, Valid, Active
<1>5. SeenValid'
  <2>1. \A t : Valid(t)' <=> Valid(t)
    BY <1>1 DEF Valid, Active
  <2>2. \A r \in Requests : r # q => at'[r] = at[r] /\ began'[r] = began[r]
    BY <1>1 DEF TypeOK
  <2>3. at'[q] = "get" /\ (began'[q] <=> Valid(token[q]))
    BY <1>1 DEF TypeOK
  <2>4. "put" \notin sends[q] /\ \A t \in Tokens : cache[t] # q
    BY <1>2, ConstantsAssumption DEF SeenValid, TypeOK
  <2>5. \A t \in Tokens : cache'[t] # NoOne => began'[cache'[t]]
    BY <1>1, <2>2, <2>4 DEF SeenValid, TypeOK
  <2>6. \A r \in Requests : "put" \in sends'[r] => began'[r]
    BY <1>1, <1>3 DEF SeenValid
  <2>7. \A r \in Requests : at'[r] = "new" => ~began'[r]
    BY <2>2, <2>3 DEF SeenValid
  <2>8. \A r \in Requests : at'[r] # "new" /\ Valid(token[r]) => began'[r]
    BY <1>1, <2>1, <2>2, <2>3 DEF SeenValid
  <2>9. \A r \in Requests : at'[r] = "touch" => began'[r]
    BY <2>2, <2>3 DEF SeenValid
  <2>10. QED
    <3>1. \A r \in Requests : Valid(token[r])' <=> Valid(token[r])
      BY <1>1 DEF Valid, Active
    <3>2. QED
      BY <1>1, <3>1, <2>5, <2>6, <2>7, <2>8, <2>9 DEF SeenValid
<1>6. AllowedWhileValid'
  BY <1>1, <1>3 DEF AllowedWhileValid
<1>7. GroupsAreLed'
  BY <1>1 DEF GroupsAreLed, Working, TypeOK
<1>8. PermitsAreKept'
  BY <1>1 DEF PermitsAreKept
<1>9. QED
  BY <1>4, <1>5, <1>6, <1>7, <1>8

LEMMA GetKeeps ==
    ASSUME IInv, NEW q \in Requests, Get(q)
    PROVE  IInv'
BY MoveKeeps DEF Get, Working

(* The record that a reader believes is of a request that saw the session  *)
(* valid.                                                                  *)
LEMMA ReadHitKeeps ==
    ASSUME IInv, NEW q \in Requests, ReadHit(q)
    PROVE  IInv'
<1> USE DEF IInv
<1>1. /\ at[q] = "get" /\ kind[q] = "read" /\ q \notin leads
      /\ cache[token[q]] \in Requests
      /\ at' = [at EXCEPT ![q] = "over"] /\ answer' = [answer EXCEPT ![q] = "yes"]
      /\ source' = [source EXCEPT ![q] = cache[token[q]]]
      /\ UNCHANGED <<revoked, expired, disabled, cache, kind, token, began,
                     pending, leads, permits, sends>>
  BY DEF ReadHit, Strict, TypeOK, session, readers
<1>2. TypeOK'
  BY <1>1 DEF TypeOK
<1>3. SeenValid'
  BY <1>1 DEF SeenValid, Valid, Active, TypeOK
<1>4. AllowedWhileValid'
  BY <1>1, ConstantsAssumption DEF AllowedWhileValid, SeenValid, TypeOK
<1>5. GroupsAreLed'
  <2>1. \A t \in Tokens : q \notin pending[t]
    BY <1>1 DEF GroupsAreLed
  <2>2. \A r \in Requests : r # q => at'[r] = at[r]
    BY <1>1 DEF TypeOK
  <2>3. at'[q] = "over"
    BY <1>1 DEF TypeOK
  <2>4. QED
    BY <1>1, <2>1, <2>2, <2>3 DEF GroupsAreLed, TypeOK
<1>6. PermitsAreKept'
  BY <1>1 DEF PermitsAreKept
<1>7. QED
  BY <1>2, <1>3, <1>4, <1>5, <1>6

(* A reader that is turned away is in no group.                            *)
LEMMA TurnedAwayKeeps ==
    ASSUME IInv, NEW q \in Requests, at[q] = "get", ~Strict(q),
           Tell(q, "unavailable"), UNCHANGED <<session, cache, readers, sends>>
    PROVE  IInv'
<1>1. q \notin leads /\ permits \subseteq leads
  BY DEF Strict, IInv, TypeOK
<1>2. Finish(q, "unavailable")
  BY <1>1 DEF Finish, Release, readers
<1>3. QED
  BY <1>2, FinishKeeps DEF Working

(* A reader joins the group of its session, or it is told to come back.    *)
LEMMA ReadJoinsKeeps ==
    ASSUME IInv, NEW q \in Requests, ReadJoins(q)
    PROVE  IInv'
<1> USE DEF IInv
<1>1. at[q] = "get" /\ kind[q] = "read" /\ q \notin leads /\ token[q] \in Tokens
      /\ pending[token[q]] # {} /\ \A t \in Tokens : q \notin pending[t]
  BY DEF ReadJoins, Strict, Groups, GroupsAreLed, TypeOK
<1>2. CASE Tell(q, "unavailable") /\ UNCHANGED pending
  BY <1>2, TurnedAwayKeeps DEF ReadJoins, readers
<1>3. CASE Move(q, "wait") /\ pending' = [pending EXCEPT ![token[q]] = @ \union {q}]
  <2>1. /\ at' = [at EXCEPT ![q] = "wait"]
        /\ UNCHANGED <<kind, token, answer, began, source, revoked, expired, disabled,
                       cache, leads, permits, sends>>
    BY <1>3 DEF ReadJoins, Move, session
  <2>2. TypeOK'
    BY <1>3, <2>1 DEF TypeOK
  <2>3. SeenValid'
    BY <1>1, <2>1 DEF SeenValid, Valid, Active, TypeOK
  <2>4. AllowedWhileValid'
    BY <2>1 DEF AllowedWhileValid
  <2>5. GroupsAreLed'
    BY <1>1, <1>3, <2>1 DEF GroupsAreLed, TypeOK, Working
  <2>6. PermitsAreKept'
    BY <2>1 DEF PermitsAreKept
  <2>7. QED
    BY <2>2, <2>3, <2>4, <2>5, <2>6
<1>4. QED
  BY <1>2, <1>3 DEF ReadJoins

(* The first reader of a session opens its group and leads it.             *)
LEMMA ReadLeadsKeeps ==
    ASSUME IInv, NEW q \in Requests, ReadLeads(q)
    PROVE  IInv'
<1> USE DEF IInv
<1>1. at[q] = "get" /\ kind[q] = "read" /\ q \notin leads /\ token[q] \in Tokens
      /\ pending[token[q]] = {}
  BY DEF ReadLeads, Strict, Groups, TypeOK
<1>2. CASE Tell(q, "unavailable") /\ UNCHANGED readers
  BY <1>2, TurnedAwayKeeps DEF ReadLeads
<1>3. CASE /\ Move(q, "permit") /\ leads' = leads \union {q}
           /\ pending' = [pending EXCEPT ![token[q]] = {q}] /\ UNCHANGED permits
  <2>1. /\ at' = [at EXCEPT ![q] = "permit"]
        /\ UNCHANGED <<kind, token, answer, began, source, revoked, expired, disabled,
                       cache, permits, sends>>
    BY <1>3 DEF ReadLeads, Move, session
  <2>2. TypeOK'
    BY <1>3, <2>1 DEF TypeOK
  <2>3. SeenValid'
    BY <1>1, <2>1 DEF SeenValid, Valid, Active, TypeOK
  <2>4. AllowedWhileValid'
    BY <2>1 DEF AllowedWhileValid
  <2>5. \A r \in leads : token[r] # token[q]
    BY <1>1 DEF GroupsAreLed, TypeOK
  <2>6. GroupsAreLed'
    BY <1>1, <1>3, <2>1, <2>5 DEF GroupsAreLed, TypeOK, Working
  <2>7. PermitsAreKept'
    BY <1>3 DEF PermitsAreKept
  <2>8. QED
    BY <2>2, <2>3, <2>4, <2>6, <2>7
<1>4. QED
  BY <1>2, <1>3 DEF ReadLeads

(* The leader takes a permit while there is one.                           *)
LEMMA AcquireKeeps ==
    ASSUME IInv, NEW q \in Requests, Acquire(q)
    PROVE  IInv'
<1> USE DEF IInv
<1>1. at[q] = "permit" /\ UNCHANGED <<session, cache, sends>>
  BY DEF Acquire
<1>2. CASE Finish(q, "overloaded")
  BY <1>1, <1>2, FinishKeeps DEF Working
<1>3. CASE /\ Cardinality(permits) < Permits /\ Move(q, "get")
           /\ permits' = permits \union {q} /\ UNCHANGED <<pending, leads>>
  <2>1. /\ at' = [at EXCEPT ![q] = "get"]
        /\ UNCHANGED <<kind, token, answer, began, source, revoked, expired, disabled,
                       cache, pending, leads, sends>>
    BY <1>1, <1>3 DEF Move, session
  <2>2. TypeOK'
    <3>1. q \in leads
      BY <1>1 DEF GroupsAreLed
    <3>2. QED
      BY <1>3, <2>1, <3>1 DEF TypeOK
  <2>3. SeenValid'
    BY <1>1, <2>1 DEF SeenValid, Valid, Active, TypeOK
  <2>4. AllowedWhileValid'
    BY <2>1 DEF AllowedWhileValid
  <2>5. GroupsAreLed'
    BY <1>1, <2>1 DEF GroupsAreLed, TypeOK, Working
  <2>6. PermitsAreKept'
    <3>1. Cardinality(permits) \in Nat
      BY FS_CardinalityType DEF PermitsAreKept
    <3>2. IsFiniteSet(permits') /\ Cardinality(permits') <= Cardinality(permits) + 1
      BY <1>3, <3>1, FS_AddElement DEF PermitsAreKept
    <3>3. Cardinality(permits') \in Nat
      BY <3>2, FS_CardinalityType
    <3>4. QED
      BY <1>3, <3>1, <3>2, <3>3, ConstantsAssumption DEF PermitsAreKept
  <2>7. QED
    BY <2>2, <2>3, <2>4, <2>5, <2>6
<1>4. QED
  BY <1>2, <1>3 DEF Acquire

LEMMA UnavailableKeeps ==
    ASSUME IInv, NEW q \in Requests, Unavailable(q)
    PROVE  IInv'
BY FinishKeeps DEF Unavailable, Working

(* What PostgreSQL says of a session that is valid counts for the request: *)
(* it began before it was asked.                                           *)
LEMMA ValidateKeeps ==
    ASSUME IInv, NEW q \in Requests, Validate(q)
    PROVE  IInv'
<1>1. CASE Valid(token[q]) /\ FinishRecord(q)
  <2>1. began[q]
    BY <1>1 DEF Validate, IInv, SeenValid
  <2>2. QED
    BY <1>1, <2>1, FinishRecordKeeps DEF Validate
<1>2. CASE Finish(q, "no") /\ Send(q, "remove")
  BY <1>2, FinishKeeps DEF Validate, Working
<1>3. QED
  BY <1>1, <1>2 DEF Validate, Confirmed

LEMMA LoadKeeps ==
    ASSUME IInv, NEW q \in Requests, Load(q)
    PROVE  IInv'
<1>1. CASE Valid(token[q]) /\ FinishRecord(q)
  <2>1. began[q]
    BY <1>1 DEF Load, IInv, SeenValid
  <2>2. QED
    BY <1>1, <2>1, FinishRecordKeeps DEF Load
<1>2. CASE Finish(q, "no") /\ UNCHANGED sends
  BY <1>2, FinishKeeps DEF Load, Working
<1>3. QED
  BY <1>1, <1>2 DEF Load

LEMMA TouchKeeps ==
    ASSUME IInv, NEW q \in Requests, Touch(q)
    PROVE  IInv'
<1>1. began[q] /\ at[q] \in Working
  BY DEF Touch, IInv, SeenValid, Working
<1>2. CASE Finish(q, "yes") /\ Send(q, "put")
  BY <1>1, <1>2, FinishKeeps DEF Touch
<1>3. CASE Finish(q, "no") /\ UNCHANGED sends
  BY <1>1, <1>3, FinishKeeps DEF Touch
<1>4. QED
  BY <1>2, <1>3 DEF Touch

(* A logout ends the session, and leaves no record behind by itself.       *)
LEMMA RevokeKeeps ==
    ASSUME IInv, NEW q \in Requests, Revoke(q)
    PROVE  IInv'
<1> USE DEF IInv
<1>1. /\ at[q] = "revoke" /\ at' = [at EXCEPT ![q] = "over"]
      /\ revoked \subseteq revoked' /\ revoked' \subseteq Tokens
      /\ UNCHANGED <<kind, token, answer, began, source, expired, disabled, cache,
                     pending, leads, permits>>
  BY DEF Revoke, Move, readers, TypeOK
<1>2. /\ sends' \in [Requests -> SUBSET {"put", "remove"}]
      /\ \A r \in Requests : "put" \in sends'[r] => "put" \in sends[r]
  BY DEF Revoke, Send, TypeOK
<1>3. TypeOK'
  BY <1>1, <1>2 DEF TypeOK
<1>4. SeenValid'
  BY <1>1, <1>2 DEF SeenValid, Valid, Active, TypeOK
<1>5. AllowedWhileValid'
  BY <1>1 DEF AllowedWhileValid
<1>6. GroupsAreLed'
  BY <1>1 DEF GroupsAreLed, TypeOK, Working
<1>7. PermitsAreKept'
  BY <1>1 DEF PermitsAreKept
<1>8. QED
  BY <1>3, <1>4, <1>5, <1>6, <1>7

-----------------------------------------------------------------------------
(* Every step of AuthSessionService keeps the invariant.                   *)
LEMMA NextKeeps == IInv /\ [Next]_vars => IInv'
<1> SUFFICES ASSUME IInv, [Next]_vars PROVE IInv'
  OBVIOUS
<1>1. ASSUME NEW q \in Requests, Begin(q) PROVE IInv'
  BY <1>1, BeginKeeps
<1>2. ASSUME NEW q \in Requests, Step(q) PROVE IInv'
  BY <1>2, GetKeeps, ReadHitKeeps, ReadJoinsKeeps, ReadLeadsKeeps, AcquireKeeps,
     UnavailableKeeps, ValidateKeeps, LoadKeeps, TouchKeeps, RevokeKeeps DEF Step
<1>3. CASE \E q \in Requests : RedisExecutes(q)
  BY <1>3, RedisKeeps
<1>4. CASE \E t \in Tokens : CacheExpires(t)
  BY <1>4, RedisKeeps
<1>5. ASSUME NEW t \in Tokens, Disable(t) \/ RunOut(t) PROVE IInv'
  BY <1>5, EndsKeep
<1>6. CASE UNCHANGED vars
  BY <1>6 DEF vars, session, request, readers, IInv, TypeOK, SeenValid, Valid, Active,
     AllowedWhileValid, GroupsAreLed, PermitsAreKept
<1>7. QED
  BY <1>1, <1>2, <1>3, <1>4, <1>5, <1>6 DEF Next

(* The variables keep their types, and with them all of the invariant.     *)
THEOREM InvCorrect == Spec => []IInv
<1>1. QED
  BY InitInv, NextKeeps, PTL DEF Spec

(* Nobody is let through on a session that was never valid while a request *)
(* asked about it, however late Redis executes the writes of others.       *)
THEOREM AllowedWhileValidCorrect == Spec => []AllowedWhileValid
<1>1. IInv => AllowedWhileValid
  BY DEF IInv
<1>2. QED
  BY <1>1, InvCorrect, PTL

(* No waiting reader is left without a leader at work, and no permit of    *)
(* Resource::PostgresFallback is lost or given twice.                      *)
THEOREM WaitersAreLedCorrect == Spec => []WaitersAreLed
<1>1. IInv => WaitersAreLed
  <2> SUFFICES ASSUME IInv PROVE WaitersAreLed
    OBVIOUS
  <2> USE DEF IInv
  <2>1. ASSUME NEW q \in Requests, at[q] = "wait"
        PROVE  \E r \in leads : q \in pending[token[r]] /\ at[r] \notin {"wait", "over"}
    BY <2>1 DEF GroupsAreLed, TypeOK, Working
  <2>2. \A q, r \in leads : token[q] = token[r] => q = r
    BY DEF GroupsAreLed
  <2>3. Cardinality(permits) <= Permits
    BY DEF PermitsAreKept
  <2>4. ASSUME \A q \in Requests : at[q] \in {"new", "over"}
        PROVE  permits = {} /\ Groups = {}
    <3>1. leads = {}
      BY <2>4 DEF GroupsAreLed, TypeOK, Working
    <3>2. QED
      BY <3>1 DEF GroupsAreLed, TypeOK, Groups
  <2>5. QED
    BY <2>1, <2>2, <2>3, <2>4 DEF WaitersAreLed
<1>2. QED
  BY <1>1, InvCorrect, PTL

-----------------------------------------------------------------------------
(* A behaviour of MCAccess is one of the sessions or of one waiting room.  *)
AccessInv ==
    /\ IInv
    /\ system = "pair" => Pair!IInv /\ Pair!QueueInv
    /\ system = "turns" => Turns!IInv /\ Turns!QueueInv
    /\ system = "queue" => Queue!IInv /\ Queue!QueueInv

LEMMA AccessStarts == AccessInit => AccessInv
<1> SUFFICES ASSUME AccessInit PROVE AccessInv
  OBVIOUS
<1>1. IInv
  BY InitInv DEF AccessInit
<1>2. CASE system = "turns"
  BY <1>1, <1>2, Turns!InitInv, Turns!InitQueue DEF AccessInit, AccessInv
<1>3. CASE system = "queue"
  BY <1>1, <1>3, Queue!InitInv, Queue!InitQueue DEF AccessInit, AccessInv
<1>4. CASE system \in {"auth", "pair"}
  <2>1. Pair!Init
    BY <1>4 DEF AccessInit
  <2>2. QED
    BY <1>1, <1>4, <2>1, Pair!InitInv, Pair!InitQueue DEF AccessInv
<1>5. QED
  BY <1>2, <1>3, <1>4 DEF AccessInit

LEMMA AccessSteps == AccessInv /\ [AccessNext]_everything => AccessInv'
<1> SUFFICES ASSUME AccessInv, [AccessNext]_everything PROVE AccessInv'
  OBVIOUS
<1>1. UNCHANGED system /\ [Next]_vars
  BY DEF AccessNext, everything
<1>2. IInv'
  BY <1>1, NextKeeps DEF AccessInv
<1>3. ASSUME system = "pair" PROVE Pair!IInv' /\ Pair!QueueInv'
  <2>1. [Pair!Next]_(Pair!vars)
    BY <1>3 DEF AccessNext, everything, roomVars, Pair!vars, Pair!redis, Pair!room, Pair!copies
  <2>2. QED
    BY <1>3, <2>1, Pair!NextKeeps, Pair!NextHasCause, Pair!NextIsOrderly
       DEF AccessInv, Pair!QueueInv
<1>4. ASSUME system = "turns" PROVE Turns!IInv' /\ Turns!QueueInv'
  <2>1. [Turns!Next]_(Turns!vars)
    BY <1>4 DEF AccessNext, everything, roomVars, Turns!vars, Turns!redis, Turns!room, Turns!copies
  <2>2. QED
    BY <1>4, <2>1, Turns!NextKeeps, Turns!NextHasCause, Turns!NextIsOrderly
       DEF AccessInv, Turns!QueueInv
<1>5. ASSUME system = "queue" PROVE Queue!IInv' /\ Queue!QueueInv'
  <2>1. [Queue!Next]_(Queue!vars)
    BY <1>5 DEF AccessNext, everything, roomVars, Queue!vars, Queue!redis, Queue!room, Queue!copies
  <2>2. QED
    BY <1>5, <2>1, Queue!NextKeeps, Queue!NextHasCause, Queue!NextIsOrderly
       DEF AccessInv, Queue!QueueInv
<1>6. QED
  BY <1>1, <1>2, <1>3, <1>4, <1>5 DEF AccessInv

LEMMA AccessInvCorrect == AccessSpec => []AccessInv
BY AccessStarts, AccessSteps, PTL DEF AccessSpec

(* In every waiting room of MCAccess places are good only in the namespace *)
(* they were taken in, and not any more when Redis has lost them           *)
(* (AdmissionPolicy.cpp, AdmissionRuntime.cpp).                            *)
THEOREM QualificationsStayApartCorrect == AccessSpec => []QualificationsStayApart
<1>1. AccessInv => QualificationsStayApart
  BY Pair!PlacesKeepTheirNamespace, Pair!LossesAreNoticed,
     Turns!PlacesKeepTheirNamespace, Turns!LossesAreNoticed,
     Queue!PlacesKeepTheirNamespace, Queue!LossesAreNoticed
     DEF AccessInv, QualificationsStayApart
<1>2. QED
  BY <1>1, AccessInvCorrect, PTL

(* Nobody who lives in one of the waiting rooms loses the place or is      *)
(* overtaken, and no lease is given beyond the capacity (waiting_room.lua).*)
THEOREM QueueIsInOrderCorrect == AccessSpec => QueueIsInOrder
<1>1. ASSUME AccessInv, [AccessNext]_everything, system = "pair"
      PROVE  Pair!KeepsPlaces /\ Pair!ReleasesInTurn
  <2>1. [Pair!Next]_(Pair!vars)
    BY <1>1 DEF AccessNext, everything, roomVars, Pair!vars, Pair!redis, Pair!room, Pair!copies
  <2>2. QED
    BY <1>1, <2>1, RoomsAreValid, Pair!PlacesAreKept, Pair!ReleasesAreInTurn
       DEF AccessInv, Pair!QueueInv
<1>2. ASSUME AccessInv, [AccessNext]_everything, system = "turns"
      PROVE  Turns!KeepsPlaces /\ Turns!ReleasesInTurn
  <2>1. [Turns!Next]_(Turns!vars)
    BY <1>2 DEF AccessNext, everything, roomVars, Turns!vars, Turns!redis, Turns!room, Turns!copies
  <2>2. QED
    BY <1>2, <2>1, RoomsAreValid, Turns!PlacesAreKept, Turns!ReleasesAreInTurn
       DEF AccessInv, Turns!QueueInv
<1>3. ASSUME AccessInv, [AccessNext]_everything, system = "queue"
      PROVE  Queue!KeepsPlaces /\ Queue!ReleasesInTurn
  <2>1. [Queue!Next]_(Queue!vars)
    BY <1>3 DEF AccessNext, everything, roomVars, Queue!vars, Queue!redis, Queue!room, Queue!copies
  <2>2. QED
    BY <1>3, <2>1, RoomsAreValid, Queue!PlacesAreKept, Queue!ReleasesAreInTurn
       DEF AccessInv, Queue!QueueInv
<1>4. QED
  BY <1>1, <1>2, <1>3, AccessInvCorrect, PTL DEF AccessSpec, QueueIsInOrder
=============================================================================
