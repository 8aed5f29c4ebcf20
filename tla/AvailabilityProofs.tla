-------------------------- MODULE AvailabilityProofs --------------------------
(***************************************************************************)
(* Proofs about the seat map that customers poll: no change of inventory   *)
(* is lost, counters and holds agree, no seat goes back to an earlier      *)
(* state, and a client that follows by deltas misses nothing; for any      *)
(* numbers of seats, clients, workers, versions and faults.                *)
(***************************************************************************)
EXTENDS AvailabilityReadModel, FiniteSetTheorems, TLAPS

\* The init lock is held only while there is no model.
LockMeansAbsent == lock # NoOne => model.state = "absent"

\* A generation ends by a fault only, and clients know generations and ids there were.
GenerationsAreCounted ==
    model.generation <= faults + (IF model.state = "ready" THEN 1 ELSE 0)

CursorsAreKnown ==
    \A p \in Polls :
        /\ sync[p].generation <= model.generation
        /\ sync[p].generation = model.generation /\ model.state = "ready" =>
              sync[p].cursor <= LastId(model)

\* A state that seat s has, or had at an earlier version.
Genuine(s, formal) == formal.version < inventory[s].version \/ formal = inventory[s]

FormalOf(e) == [status |-> e.status, version |-> e.version]

Known(e) == Genuine(e.seat, FormalOf(e))

NothingIsMadeUp ==
    /\ \A s \in Seats : /\ Genuine(s, Fresh) /\ Genuine(s, model.formal[s])
                       /\ \A p \in Polls : Genuine(s, poll[p].rows[s])
    /\ \A e \in queued : Known(e)
    /\ \A w \in Workers : (\A e \in todo[w] : Known(e)) /\ \A a \in answer[w] : Known(a.event)

Current(s) == [seat |-> s, status |-> inventory[s].status, version |-> inventory[s].version]

\* The request that is going to publish what it has read.
Publishes(p) == lock = p /\ poll[p].at = "publish"

\* What was read for a rebuild is no older than what customers saw last, and the change
\* of a seat since then is in the outbox.
RowsCarryOn ==
    \A p \in Polls : Publishes(p) =>
        \A s \in Seats :
            /\ poll[p].rows[s].version >= model.formal[s].version
            /\ poll[p].rows[s] # inventory[s] => Current(s) \in queued

\* An event is removed only when the model, and what may be published, have it.
RemovalsAreSafe ==
    \A w \in Workers : \A a \in answer[w] : a.remove =>
        /\ model.state = "ready" => model.formal[a.event.seat].version >= a.event.version
        /\ \A p \in Polls : Publishes(p) =>
              poll[p].rows[a.event.seat].version >= a.event.version

ModelIsSound ==
    /\ LockMeansAbsent /\ GenerationsAreCounted /\ CursorsAreKnown
    /\ HoldsAndCountsAgree /\ DeltasMissNothing

OutboxIsSound == NothingIsMadeUp /\ RowsCarryOn /\ RemovalsAreSafe /\ NoChangeIsLost

IInv == TypeOK /\ ModelIsSound /\ OutboxIsSound

-----------------------------------------------------------------------------
(* Sets and sequences. *)

\* SetToSeq lists exactly the members.
LEMMA SetToSeqLists ==
    ASSUME NEW S, IsFiniteSet(S)
    PROVE  SetToSeq(S) \in Seq(S) /\ \A s \in S : \E i \in 1..Len(SetToSeq(S)) : SetToSeq(S)[i] = s
<1> DEFINE n == Cardinality(S)
<1>1. n \in Nat /\ ExistsBijection(1..n, S)
  BY FS_CardinalityType
<1>2. PICK f \in [1..n -> S] : IsInjective(f)
  BY <1>1 DEF ExistsBijection, Bijection, Injection
<1>3. SetToSeq(S) \in [1..n -> S] /\ IsInjective(SetToSeq(S))
  BY <1>2 DEF SetToSeq
<1> DEFINE q == SetToSeq(S)
<1>4. IsFiniteSet(1..n) /\ Cardinality(1..n) = n
  BY <1>1, FS_Interval
<1>5. q \in Injection(1..n, S)
  BY <1>3 DEF Injection
<1>6. q \in Surjection(1..n, S)
  BY <1>4, <1>5, FS_Injection
<1> HIDE DEF q
<1>7. q \in [1..n -> S] /\ \A s \in S : \E i \in 1..n : q[i] = s
  BY <1>6 DEF Surjection
<1>8. q \in Seq(S) /\ Len(q) = n
  BY <1>1, <1>7
<1>9. QED
  BY <1>7, <1>8 DEF q

\* Counters that start as counts are counts again, if the seats that were not
\* recounted are counted as before.
LEMMA RecountedIsCounted ==
    ASSUME NEW m, NEW S \in SUBSET Seats, NEW formal, NEW holds,
           m.summary = Counted(m.formal, m.holds),
           \A s \in Seats \ S : Public(formal[s].status, holds[s])
                                   = Public(m.formal[s].status, m.holds[s])
    PROVE  Recounted(m, S, formal, holds) = Counted(formal, holds)
<1> DEFINE Was(s) == Public(m.formal[s].status, m.holds[s])
           Is(s) == Public(formal[s].status, holds[s])
<1> SUFFICES ASSUME NEW p \in Statuses
             PROVE  m.summary[p] + Cardinality({s \in S : Is(s) = p})
                                 - Cardinality({s \in S : Was(s) = p})
                       = Cardinality({s \in Seats : Is(s) = p})
  BY DEF Recounted, Counted
<1> DEFINE A == {s \in Seats : Was(s) = p}
           B == {s \in Seats : Is(s) = p}
<1>1. m.summary[p] = Cardinality(A)
  BY DEF Counted
<1> HIDE DEF Was, Is
<1>2. IsFiniteSet(A) /\ IsFiniteSet(B)
  BY FiniteSeats, FS_Subset
<1>3. A \ S = B \ S
  BY DEF Was, Is
<1>4. A \cap S = {s \in S : Was(s) = p} /\ B \cap S = {s \in S : Is(s) = p}
  OBVIOUS
<1>5. /\ Cardinality(A \ S) = Cardinality(A) - Cardinality(A \cap S)
      /\ Cardinality(B \ S) = Cardinality(B) - Cardinality(B \cap S)
  BY <1>2, FS_Difference
<1>6. IsFiniteSet(A \cap S) /\ IsFiniteSet(B \cap S)
  BY <1>2, FS_Intersection
<1>7. /\ Cardinality(A) \in Nat /\ Cardinality(B) \in Nat
      /\ Cardinality(A \cap S) \in Nat /\ Cardinality(B \cap S) \in Nat
  BY <1>2, <1>6, FS_CardinalityType
<1> HIDE DEF A, B
<1>8. Cardinality(A \ S) = Cardinality(B \ S)
  BY <1>3
<1>9. Cardinality(A) + Cardinality(B \cap S) - Cardinality(A \cap S) = Cardinality(B)
  BY <1>5, <1>7, <1>8
<1>10. QED
  BY <1>1, <1>4, <1>9 DEF A, B

LEMMA CountedType ==
    ASSUME NEW formal, NEW holds
    PROVE  Counted(formal, holds) \in [Statuses -> 0..Cardinality(Seats)]
<1>1. \A p \in Statuses :
         LET A == {s \in Seats : Public(formal[s].status, holds[s]) = p}
         IN  Cardinality(A) \in Nat /\ Cardinality(Seats) \in Nat /\ Cardinality(A) <= Cardinality(Seats)
  BY FiniteSeats, FS_Subset, FS_CardinalityType
<1>2. QED
  BY <1>1 DEF Counted

-----------------------------------------------------------------------------
(* The stream of changes. *)

Models == [state : {"absent", "ready", "damaged"}, generation : Generations,
           formal : [Seats -> Formal], holds : [Seats -> Owner],
           summary : [Statuses -> 0..Cardinality(Seats)],
           changes : Seq(Seats \cup {NoOne}), trimmed : Nat]

\* The seats that a client with this cursor is still going to hear of.
After(m, cursor) == {m.changes[i - m.trimmed] : i \in cursor + 1..LastId(m)} \ {NoOne}

LEMMA AppendedShape ==
    ASSUME NEW m \in Models, NEW n \in Models, NEW q \in Seq(Seats \cup {NoOne}),
           n.changes = m.changes \o q, n.trimmed = m.trimmed
    PROVE  /\ LastId(m) \in Nat /\ LastId(n) = LastId(m) + Len(q)
           /\ \A c \in Nat : m.trimmed < c /\ c <= LastId(m) =>
                 /\ After(m, c) \subseteq After(n, c)
                 /\ \A i \in 1..Len(q) : q[i] # NoOne => q[i] \in After(n, c)
<1>1. /\ m.changes \in Seq(Seats \cup {NoOne}) /\ m.trimmed \in Nat
      /\ Len(m.changes) \in Nat /\ Len(q) \in Nat
  BY DEF Models
<1> DEFINE ch == m.changes  t == m.trimmed
<1>2. Len(n.changes) = Len(ch) + Len(q)
  BY <1>1
<1>3. LastId(m) = t + Len(ch) /\ LastId(n) = LastId(m) + Len(q)
  BY <1>1, <1>2 DEF LastId
<1>4. /\ \A j \in 1..Len(ch) : n.changes[j] = ch[j]
      /\ \A i \in 1..Len(q) : n.changes[Len(ch) + i] = q[i]
  BY <1>1
<1>5. ASSUME NEW c \in Nat, t < c, c <= LastId(m) PROVE After(m, c) \subseteq After(n, c)
  <2> SUFFICES ASSUME NEW i \in c + 1..LastId(m), ch[i - t] # NoOne
               PROVE  \E j \in c + 1..LastId(n) : n.changes[j - t] = ch[i - t]
    BY <1>5 DEF After
  <2>1. i \in c + 1..LastId(n) /\ i - t \in 1..Len(ch)
    <3>1. /\ i \in Int /\ c + 1 <= i /\ i <= t + Len(ch) /\ t < c
          /\ LastId(n) = t + Len(ch) + Len(q)
          /\ t \in Nat /\ Len(ch) \in Nat /\ Len(q) \in Nat /\ c \in Nat
      BY <1>1, <1>3, <1>5
    <3>2. QED
      BY ONLY <3>1
  <2>2. \A j \in 1..Len(ch) : n.changes[j] = ch[j]
    BY ONLY <1>4
  <2>3. n.changes[i - t] = ch[i - t]
    BY ONLY <2>1, <2>2
  <2>4. QED
    BY <2>1, <2>3
<1>6. ASSUME NEW c \in Nat, t < c, c <= LastId(m), NEW i \in 1..Len(q), q[i] # NoOne
      PROVE  q[i] \in After(n, c)
  <2> DEFINE j == LastId(m) + i
  <2>1. j \in c + 1..LastId(n) /\ j - t = Len(ch) + i
    BY <1>1, <1>3, <1>6
  <2> HIDE DEF j
  <2>2. j - n.trimmed = Len(ch) + i
    BY <2>1
  <2>3. n.changes[j - n.trimmed] = q[i]
    BY <1>4, <2>2
  <2>4. QED
    BY <1>6, <2>1, <2>3 DEF After
<1>7. QED
  BY <1>1, <1>3, <1>5, <1>6

LEMMA TrimmedShape ==
    ASSUME NEW n \in Models, NEW k \in 0..Len(n.changes)
    PROVE  /\ Trimmed(n, k) \in Models
           /\ Trimmed(n, k).state = n.state /\ Trimmed(n, k).generation = n.generation
           /\ Trimmed(n, k).formal = n.formal /\ Trimmed(n, k).holds = n.holds
           /\ Trimmed(n, k).summary = n.summary /\ Trimmed(n, k).trimmed = n.trimmed + k
           /\ LastId(Trimmed(n, k)) = LastId(n)
           /\ \A c \in Nat : n.trimmed + k < c /\ c <= LastId(n) => After(Trimmed(n, k), c) = After(n, c)
<1> DEFINE m == Trimmed(n, k)
<1>1. /\ n.changes \in Seq(Seats \cup {NoOne}) /\ n.trimmed \in Nat
      /\ Len(n.changes) \in Nat /\ k \in Nat
  BY DEF Models
<1>2. /\ m.state = n.state /\ m.generation = n.generation /\ m.formal = n.formal
      /\ m.holds = n.holds /\ m.summary = n.summary
      /\ m.changes = SubSeq(n.changes, k + 1, Len(n.changes)) /\ m.trimmed = n.trimmed + k
  BY DEF Trimmed, Models
<1> DEFINE rest == SubSeq(n.changes, k + 1, Len(n.changes))
<1>3. /\ rest \in Seq(Seats \cup {NoOne}) /\ Len(rest) = Len(n.changes) - k
      /\ \A j \in 1..Len(n.changes) - k : rest[j] = n.changes[j + k]
  BY <1>1
<1> HIDE DEF m
<1>4. m.changes \in Seq(Seats \cup {NoOne}) /\ Len(m.changes) = Len(n.changes) - k
  BY <1>2, <1>3
<1>5. \A j \in 1..Len(n.changes) - k : m.changes[j] = n.changes[j + k]
  BY <1>2, <1>3
<1> HIDE DEF rest
<1>6. m \in Models
  <2>1. m = [n EXCEPT !.changes = rest, !.trimmed = @ + k]
    BY DEF m, Trimmed, rest
  <2>2. n.trimmed + k \in Nat
    BY <1>1
  <2>3. QED
    BY <1>3, <2>1, <2>2 DEF Models
<1>7. LastId(m) = LastId(n) /\ LastId(n) = n.trimmed + Len(n.changes)
  BY <1>1, <1>2, <1>4 DEF LastId
<1>8. ASSUME NEW c \in Nat, n.trimmed + k < c, c <= LastId(n) PROVE After(m, c) = After(n, c)
  <2>1. \A i \in c + 1..LastId(n) : m.changes[i - m.trimmed] = n.changes[i - n.trimmed]
    <3> TAKE i \in c + 1..LastId(n)
    <3>1. /\ i - m.trimmed \in 1..Len(n.changes) - k
          /\ (i - m.trimmed) + k = i - n.trimmed
      BY <1>1, <1>2, <1>7, <1>8
    <3>2. QED
      BY <1>5, <3>1
  <2>2. QED
    BY <1>7, <2>1 DEF After
<1>9. QED
  BY <1>2, <1>6, <1>7, <1>8 DEF m

\* What trimming leaves of a model that has grown.
LEMMA TrimsShape ==
    ASSUME NEW n \in Models, NEW m \in Trims(n)
    PROVE  /\ m \in Models
           /\ m.state = n.state /\ m.generation = n.generation
           /\ m.formal = n.formal /\ m.holds = n.holds /\ m.summary = n.summary
           /\ m.trimmed >= n.trimmed /\ LastId(m) = LastId(n)
           /\ \A c \in Nat : m.trimmed < c /\ c <= LastId(n) => After(m, c) = After(n, c)
<1>1. Len(n.changes) \in Nat /\ KeepEvents \in Nat /\ n.trimmed \in Nat
  BY Limits DEF Models
<1>2. PICK k \in 0..(IF Len(n.changes) > Len(model.changes) /\ Len(n.changes) - KeepEvents > 0
                     THEN Len(n.changes) - KeepEvents ELSE 0) : m = Trimmed(n, k)
  BY DEF Trims
<1>3. k \in 0..Len(n.changes)
  BY <1>1, <1>2
<1>4. QED
  BY <1>1, <1>2, <1>3, TrimmedShape

\* Of a model that is thrown away, generation and rows are kept to speak of.
LEMMA InvalidatedShape ==
    ASSUME model \in Models
    PROVE  /\ Invalidated \in Models /\ Invalidated.state = "absent"
           /\ Invalidated.generation = model.generation /\ Invalidated.formal = model.formal
<1>1. Cardinality(Seats) \in Nat
  BY FiniteSeats, FS_CardinalityType
<1>2. [p \in Statuses |-> 0] \in [Statuses -> 0..Cardinality(Seats)]
  BY <1>1
<1>3. [s \in Seats |-> NoOne] \in [Seats -> Owner]
  BY DEF Owner
<1>4. <<>> \in Seq(Seats \cup {NoOne}) /\ 0 \in Nat
  OBVIOUS
<1>5. QED
  BY <1>2, <1>3, <1>4 DEF Invalidated, Absent, Models

\* n continues the current model, in its generation: what customers would see of a seat
\* changes only with an announcement.
Continues(n) ==
    /\ n \in Models /\ n.state = "ready" /\ n.generation = model.generation
    /\ n.trimmed >= model.trimmed /\ LastId(n) >= LastId(model)
    /\ n.summary = Counted(n.formal, n.holds)
    /\ \A c \in Nat : n.trimmed < c /\ c <= LastId(model) =>
          /\ After(model, c) \subseteq After(n, c)
          /\ \A s \in Seats \ After(n, c) :
                /\ n.formal[s].status = model.formal[s].status
                /\ model.formal[s].status = "AVAILABLE" => n.holds[s] = model.holds[s]

LEMMA GrownContinues ==
    ASSUME model \in Models, NEW n \in Models, NEW m \in Trims(n),
           NEW q \in Seq(Seats \cup {NoOne}),
           n.changes = model.changes \o q, n.trimmed = model.trimmed,
           n.state = "ready", n.generation = model.generation,
           n.summary = Counted(n.formal, n.holds),
           \A s \in Seats : \/ \E i \in 1..Len(q) : q[i] = s
                           \/ /\ n.formal[s].status = model.formal[s].status
                              /\ model.formal[s].status = "AVAILABLE" => n.holds[s] = model.holds[s]
    PROVE  Continues(m)
<1> Len(q) \in Nat
  OBVIOUS
<1>1. /\ LastId(model) \in Nat /\ LastId(n) = LastId(model) + Len(q)
      /\ \A c \in Nat : model.trimmed < c /\ c <= LastId(model) =>
            /\ After(model, c) \subseteq After(n, c)
            /\ \A i \in 1..Len(q) : q[i] # NoOne => q[i] \in After(n, c)
  BY AppendedShape
<1>2. /\ m \in Models
      /\ m.state = n.state /\ m.generation = n.generation
      /\ m.formal = n.formal /\ m.holds = n.holds /\ m.summary = n.summary
      /\ m.trimmed >= n.trimmed /\ LastId(m) = LastId(n)
      /\ \A c \in Nat : m.trimmed < c /\ c <= LastId(n) => After(m, c) = After(n, c)
  BY TrimsShape
<1>3. m.trimmed \in Nat /\ model.trimmed \in Nat
  BY <1>2 DEF Models
<1>4. ASSUME NEW c \in Nat, m.trimmed < c, c <= LastId(model)
      PROVE  /\ After(model, c) \subseteq After(m, c)
             /\ \A s \in Seats \ After(m, c) :
                   /\ m.formal[s].status = model.formal[s].status
                   /\ model.formal[s].status = "AVAILABLE" => m.holds[s] = model.holds[s]
  <2>1. model.trimmed < c /\ c <= LastId(n)
    BY <1>1, <1>2, <1>3, <1>4
  <2>2. After(m, c) = After(n, c)
    BY <1>2, <1>4, <2>1
  <2>3. After(model, c) \subseteq After(n, c)
    BY <1>1, <1>4, <2>1
  <2>4. \A i \in 1..Len(q) : q[i] # NoOne => q[i] \in After(n, c)
    BY <1>1, <1>4, <2>1
  <2>5. NoOne \notin Seats
    BY Names
  <2>6. QED
    BY <1>2, <2>2, <2>3, <2>4, <2>5
<1>5. m.trimmed >= model.trimmed /\ LastId(m) >= LastId(model)
  BY <1>1, <1>2
<1>6. m.summary = Counted(m.formal, m.holds)
  BY <1>2
<1>7. QED
  BY <1>2, <1>4, <1>5, <1>6 DEF Continues

\* synchold keeps counters and announcements in step with the holds it changes.
LEMMA SyncedContinues ==
    ASSUME model \in Models, model.state = "ready", model.summary = Counted(model.formal, model.holds),
           NEW S \in SUBSET Seats, NEW h \in [Seats -> Owner], NEW m \in Trims(Synced(model, S, h))
    PROVE  /\ Continues(m) /\ m.formal = model.formal
           /\ \A s \in Seats : m.holds[s] = IF s \in S THEN h[s] ELSE model.holds[s]
<1> DEFINE holds == [s \in Seats |-> IF s \in S THEN h[s] ELSE model.holds[s]]
           moved == {s \in S : model.formal[s].status = "AVAILABLE" /\ model.holds[s] # h[s]}
           q == SetToSeq(moved)
           n == Synced(model, S, h)
<1>1. holds \in [Seats -> Owner]
  BY DEF Models
<1>2. IsFiniteSet(moved) /\ moved \subseteq Seats
  BY FiniteSeats, FS_Subset
<1>3. q \in Seq(moved) /\ \A s \in moved : \E i \in 1..Len(q) : q[i] = s
  BY <1>2, SetToSeqLists
<1>4. q \in Seq(Seats \cup {NoOne})
  BY <1>2, <1>3
<1>5. Recounted(model, S, model.formal, holds) = Counted(model.formal, holds)
  BY RecountedIsCounted
<1>6. Counted(model.formal, holds) \in [Statuses -> 0..Cardinality(Seats)]
  BY CountedType
<1>7. n = [model EXCEPT !.holds = holds, !.summary = Counted(model.formal, holds), !.changes = @ \o q]
  BY <1>5 DEF Synced
<1> HIDE DEF n, holds, q
<1>8. model.changes \o q \in Seq(Seats \cup {NoOne})
  BY <1>4 DEF Models
<1>9. n \in Models
  BY <1>1, <1>6, <1>7, <1>8 DEF Models
<1>10. /\ n.changes = model.changes \o q /\ n.trimmed = model.trimmed /\ n.state = "ready"
       /\ n.generation = model.generation /\ n.formal = model.formal /\ n.holds = holds
       /\ n.summary = Counted(n.formal, n.holds)
  BY <1>7 DEF Models
<1>11. \A s \in Seats : holds[s] = IF s \in S THEN h[s] ELSE model.holds[s]
  BY DEF holds
<1>12. m \in Trims(n)
  BY DEF n
<1>13. \A s \in Seats : \/ \E i \in 1..Len(q) : q[i] = s
                        \/ /\ n.formal[s].status = model.formal[s].status
                           /\ model.formal[s].status = "AVAILABLE" => n.holds[s] = model.holds[s]
  BY <1>3, <1>10, <1>11
<1>14. Continues(m)
  BY <1>4, <1>9, <1>10, <1>12, <1>13, GrownContinues
<1>15. m.formal = n.formal /\ m.holds = n.holds
  BY <1>9, <1>12, TrimsShape
<1>16. QED
  BY <1>10, <1>11, <1>14, <1>15

\* apply.lua changes one seat and announces it.
LEMMA ProjectedContinues ==
    ASSUME model \in Models, model.state = "ready", model.summary = Counted(model.formal, model.holds),
           NEW e \in Event, NEW m \in Trims(Projected(model, e))
    PROVE  /\ Continues(m) /\ m.holds = model.holds
           /\ \A s \in Seats : m.formal[s] = IF s = e.seat THEN FormalOf(e) ELSE model.formal[s]
<1> DEFINE formal == [model.formal EXCEPT ![e.seat] = [status |-> e.status, version |-> e.version]]
           q == <<e.seat>>
           n == Projected(model, e)
<1>1. e.seat \in Seats /\ FormalOf(e) \in Formal
  BY DEF Event, Formal, FormalOf
<1>2. /\ formal \in [Seats -> Formal]
      /\ \A s \in Seats : formal[s] = IF s = e.seat THEN FormalOf(e) ELSE model.formal[s]
  BY <1>1 DEF Models, FormalOf
<1> HIDE DEF formal
<1>3. Recounted(model, {e.seat}, formal, model.holds) = Counted(formal, model.holds)
  BY <1>1, <1>2, RecountedIsCounted
<1>4. Counted(formal, model.holds) \in [Statuses -> 0..Cardinality(Seats)]
  BY CountedType
<1>5. n = [[model EXCEPT !.formal = formal, !.summary = Counted(formal, model.holds)]
              EXCEPT !.changes = Append(@, e.seat)]
  BY <1>3 DEF Projected, Appended, formal
<1>6. /\ q \in Seq(Seats \cup {NoOne}) /\ Len(q) = 1 /\ q[1] = e.seat
      /\ model.changes \o q = Append(model.changes, e.seat)
      /\ Append(model.changes, e.seat) \in Seq(Seats \cup {NoOne})
  BY <1>1 DEF Models
<1> HIDE DEF n, q
<1>7. n \in Models
  BY <1>2, <1>4, <1>5, <1>6 DEF Models
<1>8. /\ n.changes = model.changes \o q /\ n.trimmed = model.trimmed /\ n.state = "ready"
      /\ n.generation = model.generation /\ n.formal = formal /\ n.holds = model.holds
      /\ n.summary = Counted(n.formal, n.holds)
  BY <1>5, <1>6 DEF Models
<1>9. m \in Trims(n)
  BY DEF n
<1>10. \A s \in Seats : \/ \E i \in 1..Len(q) : q[i] = s
                        \/ /\ n.formal[s].status = model.formal[s].status
                           /\ model.formal[s].status = "AVAILABLE" => n.holds[s] = model.holds[s]
  BY <1>2, <1>6, <1>8
<1>11. Continues(m)
  BY <1>6, <1>7, <1>8, <1>9, <1>10, GrownContinues
<1>12. m.formal = n.formal /\ m.holds = n.holds
  BY <1>7, <1>9, TrimsShape
<1>13. QED
  BY <1>2, <1>8, <1>11, <1>12

-----------------------------------------------------------------------------
(* What a step leaves of the read model and its clients. *)

LEMMA SettledShape ==
    \A p \in Polls : Settled(p) = IF model.state = "ready" /\ Follows(p)
                                 THEN Seats \ After(model, sync[p].cursor) ELSE {}
  BY DEF Settled, SeatsBetween, After

LEMMA SettledShapePrimed ==
    \A p \in Polls : Settled(p)' = IF model'.state = "ready" /\ Follows(p)'
                                  THEN Seats \ After(model', sync'[p].cursor) ELSE {}
  BY DEF Settled, SeatsBetween, After

\* The model is as it was; clients may have lost their cursor, and holds run out.
LEMMA SameModel ==
    ASSUME IInv, model' = model,
           \A p \in Polls : sync'[p] \in {sync[p], Unsynced},
           \A s \in Seats : raw'[s] \in {raw[s], NoOne},
           lock' \in {lock, NoOne} \/ model.state = "absent",
           faults' \in {faults, faults + 1}
    PROVE  ModelIsSound'
<1> USE DEF IInv, ModelIsSound
<1>1. /\ model.generation \in Nat /\ model.trimmed \in Nat /\ LastId(model) \in Nat /\ faults \in Nat
      /\ Unsynced.generation = 0 /\ Unsynced.cursor = 0
  <2>1. Len(model.changes) \in Nat
    BY DEF TypeOK
  <2>2. MaxFaults \in Nat
    BY Bounds
  <2>3. QED
    BY <2>1, <2>2 DEF TypeOK, LastId, Generations, Unsynced
<1>2. LockMeansAbsent' /\ GenerationsAreCounted'
  BY <1>1 DEF LockMeansAbsent, GenerationsAreCounted
<1>3. CursorsAreKnown'
  BY <1>1 DEF CursorsAreKnown
<1>4. HoldsAndCountsAgree'
  BY DEF HoldsAndCountsAgree
<1>5. DeltasMissNothing'
  <2> SUFFICES ASSUME NEW p \in Polls, NEW s \in Settled(p)'
               PROVE  Shows(p, s)' \/ sync'[p].view[s].hidden
    BY DEF DeltasMissNothing
  <2>1. sync'[p] = sync[p]
    BY <1>1, SettledShapePrimed DEF Follows
  <2>2. s \in Settled(p)
    BY <2>1, SettledShape, SettledShapePrimed DEF Follows
  <2>3. QED
    BY <2>1, <2>2 DEF DeltasMissNothing, Shows
<1>6. QED
  BY <1>2, <1>3, <1>4, <1>5

\* There is no usable model any more.
LEMMA NoModel ==
    ASSUME IInv, model'.state # "ready", model'.generation = model.generation,
           \A p \in Polls : sync'[p] \in {sync[p], Unsynced},
           lock' = NoOne \/ model'.state = "absent",
           faults' = faults + 1 \/ (faults' = faults /\ model.state # "ready")
    PROVE  ModelIsSound'
<1> USE DEF IInv, ModelIsSound
<1>1. model.generation \in Nat /\ faults \in Nat /\ Unsynced.generation = 0
  BY Bounds DEF TypeOK, Generations, Unsynced
<1>2. LockMeansAbsent'
  BY DEF LockMeansAbsent
<1>3. GenerationsAreCounted'
  BY <1>1 DEF GenerationsAreCounted
<1>4. CursorsAreKnown'
  BY <1>1 DEF CursorsAreKnown
<1>5. HoldsAndCountsAgree'
  BY DEF HoldsAndCountsAgree
<1>6. DeltasMissNothing'
  BY SettledShapePrimed DEF DeltasMissNothing
<1>7. QED
  BY <1>2, <1>3, <1>4, <1>5, <1>6

\* The model goes on in its generation, with the holds of Redis.
LEMMA SameGeneration ==
    ASSUME IInv, model.state = "ready", Continues(model'),
           UNCHANGED <<sync, lock, faults>>,
           \A s \in Seats : raw'[s] # NoOne => model'.holds[s] = raw'[s]
    PROVE  ModelIsSound'
<1> USE DEF IInv, ModelIsSound
<1>1. /\ model'.state = "ready" /\ model'.generation = model.generation
      /\ model'.trimmed >= model.trimmed /\ LastId(model') >= LastId(model)
      /\ model'.summary = Counted(model'.formal, model'.holds)
  BY DEF Continues
<1>2. /\ model.trimmed \in Nat /\ model'.trimmed \in Nat /\ LastId(model) \in Nat /\ LastId(model') \in Nat
      /\ \A p \in Polls : sync[p].cursor \in Nat
  BY DEF Continues, Models, TypeOK, LastId
<1>3. LockMeansAbsent' /\ GenerationsAreCounted'
  BY <1>1 DEF LockMeansAbsent, GenerationsAreCounted
<1>4. CursorsAreKnown'
  BY <1>1, <1>2 DEF CursorsAreKnown
<1>5. HoldsAndCountsAgree'
  BY <1>1 DEF HoldsAndCountsAgree, Counted
<1>6. DeltasMissNothing'
  <2> SUFFICES ASSUME NEW p \in Polls, NEW s \in Settled(p)'
               PROVE  Shows(p, s)' \/ sync'[p].view[s].hidden
    BY DEF DeltasMissNothing
  <2> DEFINE c == sync[p].cursor
  <2>1. /\ sync[p].generation = model.generation /\ model'.trimmed < c
        /\ s \in Seats \ After(model', c)
    BY <1>1, <1>2, SettledShapePrimed DEF Follows
  <2>2. model.trimmed < c /\ c <= LastId(model)
    BY <1>1, <1>2, <2>1 DEF CursorsAreKnown
  <2>3. /\ After(model, c) \subseteq After(model', c)
        /\ model'.formal[s].status = model.formal[s].status
        /\ model.formal[s].status = "AVAILABLE" => model'.holds[s] = model.holds[s]
    BY <1>2, <2>1, <2>2 DEF Continues
  <2>4. s \in Settled(p)
    BY <2>1, <2>2, <2>3, SettledShape DEF Follows
  <2>5. QED
    BY <2>3, <2>4 DEF DeltasMissNothing, Shows
<1>7. QED
  BY <1>3, <1>4, <1>5, <1>6

\* Nothing is new about inventory, events and rows that were read.
LEMMA OutboxKept ==
    ASSUME IInv, UNCHANGED <<inventory, queued>>, model'.formal = model.formal,
           model'.state = "ready" => model.state = "ready",
           \A w \in Workers : todo'[w] \subseteq todo[w] \cup queued /\ answer'[w] \subseteq answer[w],
           \A p \in Polls : \A s \in Seats : poll'[p].rows[s] \in {poll[p].rows[s], Fresh},
           \A p \in Polls : Publishes(p)' => Publishes(p) /\ poll'[p].rows = poll[p].rows
    PROVE  OutboxIsSound'
<1> USE DEF IInv, OutboxIsSound
<1>1. NothingIsMadeUp'
  BY DEF NothingIsMadeUp, Genuine, Known, Fresh
<1>2. RowsCarryOn'
  BY DEF RowsCarryOn, Current
<1>3. RemovalsAreSafe'
  BY DEF RemovalsAreSafe
<1>4. NoChangeIsLost'
  BY DEF NoChangeIsLost
<1>5. QED
  BY <1>1, <1>2, <1>3, <1>4

-----------------------------------------------------------------------------
(* PostgreSQL: the inventory and its outbox. *)

LEMMA ChangeStatusKeeps ==
    ASSUME IInv, NEW s \in Seats, NEW st \in Statuses, ChangeStatus(s, st)
    PROVE  IInv'
<1> USE DEF IInv
<1>0. PICK v \in Nat : v = inventory[s].version + 1
  BY DEF TypeOK, Formal
<1> DEFINE row == [status |-> st, version |-> v]
<1>1. /\ v <= MaxVersion /\ inventory' = [inventory EXCEPT ![s] = row]
      /\ queued' = queued \cup {[seat |-> s, status |-> st, version |-> v]}
      /\ UNCHANGED <<lease, todo, answer, model, raw, lock, poll, sync, faults>>
  BY <1>0 DEF ChangeStatus, clientVars
<1>2. inventory \in [Seats -> Formal] /\ inventory[s].version \in Nat
  BY DEF TypeOK, Formal
<1>3. row \in Formal /\ [seat |-> s, status |-> st, version |-> v] \in Event
  BY <1>1, <1>2, Bounds DEF Formal, Event
<1>4. /\ inventory'[s] = row /\ row.version = v /\ row.status = st
      /\ \A t \in Seats : t # s => inventory'[t] = inventory[t]
  BY <1>1, <1>2
<1>5. TypeOK'
  BY <1>1, <1>2, <1>3 DEF TypeOK
<1>6. ModelIsSound'
  BY <1>1, SameModel
<1>7. \A t \in Seats : \A f \in Formal : Genuine(t, f) => Genuine(t, f)'
  <2> SUFFICES ASSUME NEW t \in Seats, NEW f \in Formal, Genuine(t, f)
               PROVE  f.version < inventory'[t].version \/ f = inventory'[t]
    BY DEF Genuine
  <2>1. f.version \in Nat
    BY DEF Formal
  <2>2. QED
    BY <1>0, <1>2, <1>4, <2>1 DEF Genuine
<1>8. \A e \in Event : Known(e) => Known(e)'
  <2>1. \A e \in Event : e.seat \in Seats /\ FormalOf(e) \in Formal
    BY DEF Event, Formal, FormalOf
  <2>2. QED
    BY <1>7, <2>1 DEF Known
<1> DEFINE new == [seat |-> s, status |-> st, version |-> v]
<1>9. Known(new)'
  <2>1. new.seat = s /\ FormalOf(new) = row
    BY DEF FormalOf
  <2> HIDE DEF new, row
  <2>2. Genuine(new.seat, FormalOf(new))'
    BY <1>1, <1>4, <2>1 DEF Genuine
  <2>3. QED
    BY <2>2 DEF Known
<1>10. NothingIsMadeUp'
  <2>1. \A t \in Seats : /\ Genuine(t, Fresh)' /\ Genuine(t, model.formal[t])'
                        /\ \A p \in Polls : Genuine(t, poll[p].rows[t])'
    <3>1. /\ Fresh \in Formal /\ \A t \in Seats : model.formal[t] \in Formal
          /\ \A t \in Seats : \A p \in Polls : poll[p].rows[t] \in Formal
      BY Bounds DEF TypeOK, Fresh, Formal, Statuses
    <3>2. QED
      BY <1>1, <1>7, <3>1 DEF OutboxIsSound, NothingIsMadeUp, Fresh
  <2>2. \A e \in queued' : Known(e)'
    <3>1. \A e \in queued : e \in Event /\ Known(e)
      BY DEF OutboxIsSound, NothingIsMadeUp, TypeOK
    <3>2. queued' = queued \cup {new}
      BY <1>1
    <3> HIDE DEF new
    <3>3. QED
      BY <1>8, <1>9, <3>1, <3>2
  <2>3. \A w \in Workers : (\A e \in todo[w] : Known(e)') /\ \A a \in answer[w] : Known(a.event)'
    BY <1>1, <1>8 DEF OutboxIsSound, NothingIsMadeUp, TypeOK
  <2>4. QED
    BY <1>1, <2>1, <2>2, <2>3 DEF NothingIsMadeUp
<1>11. \A t \in Seats : Current(t)' \in queued' \/ (inventory'[t] = inventory[t] /\ Current(t)' = Current(t))
  BY <1>1, <1>4 DEF Current
<1>12. RowsCarryOn'
  <2> SUFFICES ASSUME NEW p \in Polls, Publishes(p), NEW t \in Seats
               PROVE  /\ poll[p].rows[t].version >= model.formal[t].version
                      /\ poll[p].rows[t] # inventory'[t] => Current(t)' \in queued'
    BY <1>1 DEF RowsCarryOn, Publishes
  <2>1. /\ poll[p].rows[t].version >= model.formal[t].version
        /\ poll[p].rows[t] # inventory[t] => Current(t) \in queued
    BY DEF OutboxIsSound, RowsCarryOn
  <2>2. QED
    BY <1>1, <1>11, <2>1
<1>13. RemovalsAreSafe'
  BY <1>1 DEF OutboxIsSound, RemovalsAreSafe, Publishes
<1>14. NoChangeIsLost'
  <2> SUFFICES ASSUME model.state = "ready", NEW t \in Seats, model.formal[t] # inventory'[t]
               PROVE  Current(t)' \in queued'
    BY <1>1 DEF NoChangeIsLost, Current
  <2>1. model.formal[t] # inventory[t] => Current(t) \in queued
    BY DEF OutboxIsSound, NoChangeIsLost, Current
  <2>2. QED
    BY <1>1, <1>11, <2>1
<1>15. QED
  BY <1>5, <1>6, <1>10, <1>12, <1>13, <1>14 DEF OutboxIsSound

\* The steps of workers that bring nothing to the model.
LEMMA WorkerKeeps ==
    ASSUME IInv, NEW w \in Workers,
           Claim(w) \/ WorkerCrashes(w) \/ \E e \in Event : Leave(w, e)
    PROVE  IInv'
<1> USE DEF IInv
<1>1. /\ UNCHANGED <<inventory, queued, model, raw, lock, poll, sync>>
      /\ faults' = faults \/ (faults < MaxFaults /\ faults' = faults + 1)
  BY DEF Claim, WorkerCrashes, Leave, Fault, clientVars
<1>2. /\ todo' \in [Workers -> SUBSET Event]
      /\ \A u \in Workers : todo'[u] \subseteq todo[u] \cup queued
  <2>1. CASE Claim(w)
    <3>1. PICK batch \in SUBSET Claimable : todo' = [todo EXCEPT ![w] = batch]
      BY <2>1 DEF Claim
    <3>2. batch \subseteq queued
      BY DEF Claimable
    <3>3. QED
      BY <3>1, <3>2 DEF TypeOK
  <2>2. CASE WorkerCrashes(w)
    BY <2>2 DEF WorkerCrashes, TypeOK
  <2>3. CASE \E e \in Event : Leave(w, e)
    BY <2>3 DEF Leave, TypeOK
  <2>4. QED
    BY <2>1, <2>2, <2>3
<1>3. /\ answer' \in [Workers -> SUBSET [event : Event, remove : BOOLEAN]]
      /\ \A u \in Workers : answer'[u] \subseteq answer[u]
  <2>1. CASE Claim(w)
    BY <2>1 DEF Claim, TypeOK
  <2>2. CASE WorkerCrashes(w)
    BY <2>2 DEF WorkerCrashes, TypeOK
  <2>3. CASE \E e \in Event : Leave(w, e)
    BY <2>3 DEF Leave, TypeOK
  <2>4. QED
    BY <2>1, <2>2, <2>3
<1>4. lease' \in [Event -> [by : Workers \cup {NoOne}, over : BOOLEAN]]
  <2>1. CASE Claim(w)
    <3>1. PICK batch : lease' = [e \in Event |-> IF e \in batch THEN [by |-> w, over |-> FALSE]
                                                              ELSE lease[e]]
      BY <2>1 DEF Claim
    <3>2. QED
      BY <3>1 DEF TypeOK
  <2>2. CASE lease' = lease
    BY <2>2 DEF TypeOK
  <2>3. QED
    BY <2>1, <2>2 DEF WorkerCrashes, Leave
<1>5. TypeOK'
  BY <1>1, <1>2, <1>3, <1>4, Bounds DEF TypeOK
<1>6. ModelIsSound'
  BY <1>1, SameModel
<1>7. OutboxIsSound'
  BY <1>1, <1>2, <1>3, OutboxKept DEF Publishes
<1>8. QED
  BY <1>5, <1>6, <1>7

LEMMA LeaseRunsOutKeeps ==
    ASSUME IInv, NEW e \in queued, LeaseRunsOut(e)
    PROVE  IInv'
<1> USE DEF IInv
<1>1. /\ UNCHANGED <<inventory, queued, todo, answer, model, raw, lock, poll, sync>>
      /\ faults' = faults \/ (faults < MaxFaults /\ faults' = faults + 1)
  BY DEF LeaseRunsOut, Fault, clientVars
<1>2. lease' \in [Event -> [by : Workers \cup {NoOne}, over : BOOLEAN]]
  <2>1. e \in Event /\ lease \in [Event -> [by : Workers \cup {NoOne}, over : BOOLEAN]]
    BY DEF TypeOK
  <2>2. lease' = [lease EXCEPT ![e] = [lease[e] EXCEPT !.over = TRUE]]
    BY DEF LeaseRunsOut
  <2>3. [lease[e] EXCEPT !.over = TRUE] \in [by : Workers \cup {NoOne}, over : BOOLEAN]
    BY <2>1
  <2>4. QED
    BY <2>1, <2>2, <2>3
<1>3. TypeOK'
  BY <1>1, <1>2, Bounds DEF TypeOK
<1>4. ModelIsSound'
  BY <1>1, SameModel
<1>5. OutboxIsSound'
  BY <1>1, OutboxKept DEF Publishes
<1>6. QED
  BY <1>3, <1>4, <1>5

\* An event leaves the outbox when what customers see, or will, is no older.
LEMMA FinishKeeps ==
    ASSUME IInv, NEW w \in Workers, Finish(w)
    PROVE  IInv'
<1> USE DEF IInv
<1>1. PICK a \in answer[w] :
         /\ answer' = [answer EXCEPT ![w] = {}]
         /\ \/ UNCHANGED <<lease, queued>>
            \/ /\ lease' = [lease EXCEPT ![a.event] = Unleased]
               /\ queued' = IF a.remove THEN queued \ {a.event} ELSE queued
         /\ UNCHANGED <<inventory, todo, model, raw, lock, clientVars, faults>>
  BY DEF Finish
<1>2. UNCHANGED <<poll, sync>>
  BY <1>1 DEF clientVars
<1>3. a.event \in Event /\ a.remove \in BOOLEAN
  BY DEF TypeOK
<1>4. /\ answer' \in [Workers -> SUBSET [event : Event, remove : BOOLEAN]]
      /\ \A u \in Workers : answer'[u] \subseteq answer[u]
  BY <1>1 DEF TypeOK
<1>5. TypeOK'
  <2>1. lease' \in [Event -> [by : Workers \cup {NoOne}, over : BOOLEAN]]
    <3>1. Unleased \in [by : Workers \cup {NoOne}, over : BOOLEAN]
      BY DEF Unleased
    <3>2. CASE lease' = [lease EXCEPT ![a.event] = Unleased]
      BY <1>3, <3>1, <3>2 DEF TypeOK
    <3>3. CASE lease' = lease
      BY <3>3 DEF TypeOK
    <3>4. QED
      BY <1>1, <3>2, <3>3
  <2>2. queued' \subseteq Event
    BY <1>1 DEF TypeOK
  <2>3. QED
    BY <1>1, <1>2, <1>4, <2>1, <2>2 DEF TypeOK
<1>6. ModelIsSound'
  BY <1>1, <1>2, SameModel
<1>7. queued' \subseteq queued /\ \A e \in queued \ queued' : e = a.event /\ a.remove
  BY <1>1
<1>8. /\ inventory \in [Seats -> Formal] /\ model.formal \in [Seats -> Formal]
      /\ \A p \in Polls : poll[p].rows \in [Seats -> Formal]
  BY DEF TypeOK
<1>9. ASSUME NEW s \in Seats, NEW f \in Formal, Genuine(s, f), f.version >= inventory[s].version
      PROVE  f = inventory[s]
  BY <1>8, <1>9, Bounds DEF Genuine, Formal
<1>10. NothingIsMadeUp'
  BY <1>1, <1>2, <1>4, <1>7 DEF OutboxIsSound, NothingIsMadeUp, Genuine, Known
<1>11. ASSUME NEW p \in Polls, Publishes(p), NEW s \in Seats, poll[p].rows[s] # inventory[s]
       PROVE  Current(s) \in queued'
  <2>1. Current(s) \in queued /\ Genuine(s, poll[p].rows[s])
    BY <1>11 DEF OutboxIsSound, RowsCarryOn, NothingIsMadeUp
  <2>2. Current(s).seat = s /\ Current(s).version = inventory[s].version
    BY DEF Current
  <2>3. ~(a.remove /\ a.event = Current(s))
    BY <1>8, <1>9, <1>11, <2>1, <2>2 DEF OutboxIsSound, RemovalsAreSafe
  <2>4. QED
    BY <1>7, <2>1, <2>3
<1>12. RowsCarryOn'
  <2> SUFFICES ASSUME NEW p \in Polls, Publishes(p), NEW s \in Seats
               PROVE  /\ poll[p].rows[s].version >= model.formal[s].version
                      /\ poll[p].rows[s] # inventory[s] => Current(s)' \in queued'
    BY <1>1, <1>2 DEF RowsCarryOn, Publishes
  <2>1. Current(s)' = Current(s)
    BY <1>1 DEF Current
  <2>2. QED
    BY <1>11, <2>1 DEF OutboxIsSound, RowsCarryOn
<1>13. RemovalsAreSafe'
  BY <1>1, <1>2, <1>4 DEF OutboxIsSound, RemovalsAreSafe, Publishes
<1>14. NoChangeIsLost'
  <2> SUFFICES ASSUME model.state = "ready", NEW s \in Seats, model.formal[s] # inventory[s]
               PROVE  Current(s) \in queued'
    BY <1>1 DEF NoChangeIsLost, Current
  <2>1. Current(s) \in queued /\ Genuine(s, model.formal[s])
    BY DEF OutboxIsSound, NoChangeIsLost, NothingIsMadeUp, Current
  <2>2. Current(s).seat = s /\ Current(s).version = inventory[s].version
    BY DEF Current
  <2>3. ~(a.remove /\ a.event = Current(s))
    BY <1>8, <1>9, <2>1, <2>2 DEF OutboxIsSound, RemovalsAreSafe
  <2>4. QED
    BY <1>7, <2>1, <2>3
<1>15. QED
  BY <1>5, <1>6, <1>10, <1>12, <1>13, <1>14 DEF OutboxIsSound

\* An answer that lets the event be removed is given when the model has it, or when there
\* is none and nobody has read the inventory for one.
LEMMA ApplyKeeps ==
    ASSUME IInv, NEW w \in Workers, NEW e \in todo[w], Apply(w, e)
    PROVE  IInv'
<1> USE DEF IInv
<1>1. /\ answer[w] = {} /\ todo' = [todo EXCEPT ![w] = @ \ {e}]
      /\ UNCHANGED <<inventory, queued, lease, raw, lock, poll, sync, faults>>
  BY DEF Apply, clientVars
<1>2. /\ e \in Event /\ Known(e) /\ e.seat \in Seats /\ e.version \in Nat
      /\ e.status \in Statuses /\ e.version \in 0..MaxVersion
  BY Bounds DEF TypeOK, OutboxIsSound, NothingIsMadeUp, Event
<1>3. /\ model \in Models /\ inventory \in [Seats -> Formal]
      /\ \A s \in Seats : model.formal[s].version \in Nat /\ inventory[s].version \in Nat
  BY DEF TypeOK, Models, Formal
<1>4. /\ todo' \in [Workers -> SUBSET Event]
      /\ \A u \in Workers : todo'[u] \subseteq todo[u]
  BY <1>1 DEF TypeOK
<1>5. ASSUME NEW b \in BOOLEAN, Answers(w, e, b)
      PROVE  /\ answer' \in [Workers -> SUBSET [event : Event, remove : BOOLEAN]]
             /\ \A u \in Workers : \A a \in answer'[u] :
                   a \in answer[u] \/ (a.event = e /\ a.remove = b)
  BY <1>2, <1>5 DEF Answers, TypeOK
<1>6. ASSUME model' \in Models,
             answer' \in [Workers -> SUBSET [event : Event, remove : BOOLEAN]]
      PROVE  TypeOK'
  BY <1>1, <1>4, <1>6 DEF TypeOK, Models
\* An answer is given and the model stays.
<1>7. ASSUME NEW b \in BOOLEAN, Answers(w, e, b), model' = model,
             b => (model.state = "ready" /\ ~Newer(e)) \/ (model.state = "absent" /\ lock = NoOne)
      PROVE  IInv'
  <2>1. TypeOK'
    BY <1>3, <1>5, <1>6, <1>7
  <2>2. ModelIsSound'
    BY <1>1, <1>7, SameModel
  <2>3. NothingIsMadeUp'
    <3>1. \A u \in Workers : (\A d \in todo'[u] : Known(d)) /\ \A a \in answer'[u] : Known(a.event)
      BY <1>2, <1>4, <1>5, <1>7 DEF OutboxIsSound, NothingIsMadeUp
    <3>2. QED
      BY <1>1, <1>7, <3>1 DEF OutboxIsSound, NothingIsMadeUp, Genuine, Known
  <2>4. RowsCarryOn' /\ NoChangeIsLost'
    BY <1>1, <1>7 DEF OutboxIsSound, RowsCarryOn, NoChangeIsLost, Publishes, Current
  <2>5. RemovalsAreSafe'
    <3> SUFFICES ASSUME NEW u \in Workers, NEW a \in answer'[u], a.remove
                 PROVE  /\ model.state = "ready" =>
                              model.formal[a.event.seat].version >= a.event.version
                        /\ \A p \in Polls : Publishes(p) =>
                              poll[p].rows[a.event.seat].version >= a.event.version
      BY <1>1, <1>7 DEF RemovalsAreSafe, Publishes
    <3>1. CASE a \in answer[u]
      BY <3>1 DEF OutboxIsSound, RemovalsAreSafe
    <3>2. CASE a.event = e /\ a.remove = b
      <4>1. NoOne \notin Polls
        BY Names
      <4>2. \A p \in Polls : ~Publishes(p)
        BY <1>7, <3>2, <4>1 DEF Publishes, ModelIsSound, LockMeansAbsent
      <4>3. model.state = "ready" => model.formal[e.seat].version >= e.version
        BY <1>2, <1>3, <1>7, <3>2 DEF Newer
      <4>4. QED
        BY <3>2, <4>2, <4>3
    <3>3. QED
      BY <1>5, <1>7, <3>1, <3>2
  <2>6. QED
    BY <2>1, <2>2, <2>3, <2>4, <2>5 DEF OutboxIsSound
<1>8. CASE model.state = "absent" /\ Answers(w, e, ~Deferred) /\ UNCHANGED model
  <2>1. ~Deferred => lock = NoOne
    BY DEF Deferred
  <2>2. PICK b \in BOOLEAN : b = ~Deferred
    BY DEF Deferred
  <2>3. QED
    BY <1>7, <1>8, <2>1, <2>2
<1>9. CASE model.state = "damaged" /\ model' = Invalidated /\ UNCHANGED answer
  <2>1. /\ model' \in Models /\ model'.state = "absent" /\ model'.generation = model.generation
        /\ model'.formal = model.formal
    BY <1>3, <1>9, InvalidatedShape
  <2>2. TypeOK'
    BY <1>6, <1>9, <2>1 DEF TypeOK
  <2>3. ModelIsSound'
    BY <1>1, <1>9, <2>1, NoModel
  <2>4. OutboxIsSound'
    BY <1>1, <1>4, <1>9, <2>1, OutboxKept DEF Publishes
  <2>5. QED
    BY <2>2, <2>3, <2>4
<1>10. CASE model.state = "ready" /\ ~Newer(e) /\ Answers(w, e, TRUE) /\ UNCHANGED model
  BY <1>7, <1>10
<1>11. CASE model.state = "ready" /\ Newer(e) /\ model' \in Trims(Projected(model, e))
            /\ Answers(w, e, TRUE)
  <2>1. /\ Continues(model') /\ model'.holds = model.holds
        /\ \A s \in Seats : model'.formal[s] = IF s = e.seat THEN FormalOf(e) ELSE model.formal[s]
    BY <1>2, <1>3, <1>11, ProjectedContinues DEF ModelIsSound, HoldsAndCountsAgree
  <2>2. TypeOK'
    BY <1>5, <1>6, <1>11, <2>1 DEF Continues
  <2>3. ModelIsSound'
    BY <1>1, <1>11, <2>1, SameGeneration DEF ModelIsSound, HoldsAndCountsAgree
  <2>4. FormalOf(e).version = e.version /\ model'.formal[e.seat].version = e.version
    BY <1>2, <2>1 DEF FormalOf
  <2>5. \A p \in Polls : ~Publishes(p)
    BY <1>11, Names DEF Publishes, ModelIsSound, LockMeansAbsent
  <2>6. NothingIsMadeUp'
    <3>1. \A u \in Workers : (\A d \in todo'[u] : Known(d)) /\ \A a \in answer'[u] : Known(a.event)
      BY <1>2, <1>4, <1>5, <1>11 DEF OutboxIsSound, NothingIsMadeUp
    <3>2. \A s \in Seats : Genuine(s, model'.formal[s])
      BY <1>2, <2>1 DEF OutboxIsSound, NothingIsMadeUp, Known
    <3>3. QED
      BY <1>1, <3>1, <3>2 DEF OutboxIsSound, NothingIsMadeUp, Genuine, Known
  <2>7. RowsCarryOn'
    BY <1>1, <2>5 DEF RowsCarryOn, Publishes
  <2>8. RemovalsAreSafe'
    <3> SUFFICES ASSUME NEW u \in Workers, NEW a \in answer'[u], a.remove
                 PROVE  model'.formal[a.event.seat].version >= a.event.version
      BY <1>1, <2>5 DEF RemovalsAreSafe, Publishes
    <3>1. CASE a.event = e
      BY <1>2, <2>4, <3>1
    <3>2. CASE a.event # e
      <4>1. a \in answer[u] /\ a.event \in Event
        <5>1. a \in answer[u]
          BY <1>5, <1>11, <3>2
        <5>2. answer[u] \subseteq [event : Event, remove : BOOLEAN]
          BY DEF TypeOK
        <5>3. QED
          BY <5>1, <5>2
      <4>2. /\ model.formal[a.event.seat].version >= a.event.version
            /\ a.event.seat \in Seats /\ a.event.version \in Nat
        BY <1>11, <4>1 DEF OutboxIsSound, RemovalsAreSafe, Event
      <4>3. CASE a.event.seat = e.seat
        BY <1>2, <1>3, <1>11, <2>4, <4>2, <4>3 DEF Newer
      <4>4. CASE a.event.seat # e.seat
        BY <2>1, <4>2, <4>4
      <4>5. QED
        BY <4>3, <4>4
    <3>3. QED
      BY <3>1, <3>2
  <2>9. NoChangeIsLost'
    <3> SUFFICES ASSUME NEW s \in Seats, model'.formal[s] # inventory[s] PROVE Current(s) \in queued
      BY <1>1 DEF NoChangeIsLost, Current
    <3>1. model.formal[s] # inventory[s] => Current(s) \in queued
      BY <1>11 DEF OutboxIsSound, NoChangeIsLost, Current
    <3>2. s = e.seat => model.formal[s] # inventory[s]
      BY <1>2, <1>3, <1>11 DEF Newer, Known, Genuine, FormalOf
    <3>3. QED
      BY <2>1, <3>1, <3>2
  <2>10. QED
    BY <2>2, <2>3, <2>6, <2>7, <2>8, <2>9 DEF OutboxIsSound
<1>12. QED
  BY <1>8, <1>9, <1>10, <1>11 DEF Apply

-----------------------------------------------------------------------------
(* Redis. *)

LEMMA HoldScriptKeeps ==
    ASSUME IInv, NEW o \in Owners, NEW S \in SUBSET Seats, HoldScript(o, S)
    PROVE  IInv'
<1> USE DEF IInv
<1>1. UNCHANGED <<inventory, queued, lease, todo, answer, lock, poll, sync, faults>>
  BY DEF HoldScript, outboxVars, clientVars
<1>2. model \in Models /\ raw \in [Seats -> Owner]
  BY DEF TypeOK, Models
<1>3. raw' \in [Seats -> Owner] /\ \A s \in Seats \ S : raw'[s] = raw[s]
  <2>1. CASE \E gone \in SUBSET S : raw' = [s \in Seats |-> IF s \in gone THEN NoOne ELSE raw[s]]
    BY <1>2, <2>1 DEF Owner
  <2>2. CASE raw' = [s \in Seats |-> IF s \in S THEN o ELSE raw[s]]
    BY <1>2, <2>2 DEF Owner
  <2>3. raw' \in HoldsAfter(o, S)
    BY DEF HoldScript
  <2>4. QED
    BY <2>1, <2>2, <2>3 DEF HoldsAfter
<1>4. CASE model.state = "ready" /\ model' \in Trims(Synced(model, S, raw'))
  <2>1. /\ Continues(model') /\ model'.formal = model.formal
        /\ \A s \in Seats : model'.holds[s] = IF s \in S THEN raw'[s] ELSE model.holds[s]
    BY <1>2, <1>3, <1>4, SyncedContinues DEF ModelIsSound, HoldsAndCountsAgree
  <2>2. \A s \in Seats : raw'[s] # NoOne => model'.holds[s] = raw'[s]
    BY <1>3, <1>4, <2>1 DEF ModelIsSound, HoldsAndCountsAgree
  <2>3. TypeOK'
    BY <1>1, <1>3, <2>1 DEF TypeOK, Continues, Models
  <2>4. ModelIsSound'
    BY <1>1, <1>4, <2>1, <2>2, SameGeneration
  <2>5. OutboxIsSound'
    BY <1>1, <1>4, <2>1, OutboxKept DEF Publishes
  <2>6. QED
    BY <2>3, <2>4, <2>5
<1>5. CASE model.state # "ready" /\ model' \in {model, Invalidated}
  <2>1. /\ model' \in Models /\ model'.state # "ready" /\ model'.generation = model.generation
        /\ model'.formal = model.formal /\ (model.state = "absent" => model'.state = "absent")
    BY <1>2, <1>5, InvalidatedShape
  <2>2. TypeOK'
    BY <1>1, <1>3, <2>1 DEF TypeOK, Models
  <2>3. lock = NoOne \/ model'.state = "absent"
    BY <1>5, <2>1 DEF ModelIsSound, LockMeansAbsent
  <2>4. ModelIsSound'
    BY <1>1, <1>5, <2>1, <2>3, NoModel
  <2>5. OutboxIsSound'
    BY <1>1, <2>1, OutboxKept DEF Publishes
  <2>6. QED
    BY <2>2, <2>4, <2>5
<1>6. QED
  BY <1>2, <1>4, <1>5 DEF HoldScript, Models

LEMMA HoldElapsesKeeps ==
    ASSUME IInv, NEW s \in Seats, HoldElapses(s)
    PROVE  IInv'
<1> USE DEF IInv
<1>1. /\ UNCHANGED <<inventory, queued, lease, todo, answer, model, lock, poll, sync, faults>>
      /\ raw' = [raw EXCEPT ![s] = NoOne]
  BY DEF HoldElapses, outboxVars, clientVars
<1>2. TypeOK'
  BY <1>1 DEF TypeOK, Owner
<1>3. \A t \in Seats : raw'[t] \in {raw[t], NoOne}
  BY <1>1 DEF TypeOK
<1>4. ModelIsSound'
  BY <1>1, <1>3, SameModel
<1>5. OutboxIsSound'
  BY <1>1, OutboxKept DEF Publishes
<1>6. QED
  BY <1>2, <1>4, <1>5

LEMMA LossKeeps ==
    ASSUME IInv, Flush \/ Damage
    PROVE  IInv'
<1> USE DEF IInv
<1>1. /\ UNCHANGED <<inventory, queued, lease, todo, answer, poll, sync>>
      /\ faults < MaxFaults /\ faults' = faults + 1
      /\ lock' \in {lock, NoOne}
  BY DEF Flush, Damage, Fault, outboxVars, clientVars
<1>2. model \in Models /\ Invalidated \in Models
  BY InvalidatedShape DEF TypeOK, Models
<1>3. /\ model' \in Models /\ model'.state # "ready" /\ model'.generation = model.generation
      /\ model'.formal = model.formal /\ (lock' = NoOne \/ model'.state = "absent")
  <2>1. CASE model' = Invalidated
    BY <1>2, <2>1, InvalidatedShape
  <2>2. CASE model.state = "ready" /\ model' = [model EXCEPT !.state = "damaged"] /\ lock' = lock
    <3>1. model' \in Models /\ model'.state = "damaged" /\ model'.generation = model.generation
          /\ model'.formal = model.formal
      BY <1>2, <2>2 DEF Models
    <3>2. lock = NoOne
      BY <2>2 DEF ModelIsSound, LockMeansAbsent
    <3>3. QED
      BY <2>2, <3>1, <3>2
  <2>3. QED
    BY <2>1, <2>2 DEF Flush, Damage
<1>4. raw' \in [Seats -> Owner]
  BY DEF Flush, Damage, TypeOK, Owner
<1>5. TypeOK'
  BY <1>1, <1>3, <1>4, Bounds DEF TypeOK, Models
<1>6. ModelIsSound'
  BY <1>1, <1>3, NoModel
<1>7. NoOne \notin Polls
  BY Names
<1>8. OutboxIsSound'
  BY <1>1, <1>3, <1>7, OutboxKept DEF Publishes
<1>9. QED
  BY <1>5, <1>6, <1>8
-----------------------------------------------------------------------------
(* Polls. *)

Places == {"idle", "acquire", "load", "publish", "expire", "read"}

Requests == [at : Places, rows : [Seats -> Formal], rebuilt : BOOLEAN]

Clients == [generation : Generations, cursor : Nat, view : [Seats -> Row]]

\* What the steps of a poll write are requests and clients.
LEMMA PollTypes == Asleep \in Requests /\ Unsynced \in Clients
<1>1. Fresh \in Formal /\ 0 \in Generations
  BY Bounds DEF Fresh, Formal, Statuses, Generations
<1>2. [s \in Seats |-> Fresh] \in [Seats -> Formal]
  BY <1>1
<1>3. Asleep \in Requests
  BY <1>2 DEF Asleep, Requests, Places
<1>4. [s \in Seats |-> [status |-> "AVAILABLE", owner |-> NoOne, hidden |-> FALSE]] \in [Seats -> Row]
  BY DEF Row, Statuses, Owner
<1>5. QED
  BY <1>1, <1>3, <1>4 DEF Unsynced, Clients

\* A request moves on, or ends: it keeps its rows or drops them.
LEMMA GoShape ==
    ASSUME TypeOK, NEW p \in Polls, NEW at \in Places, Go(p, at) \/ Done(p)
    PROVE  /\ poll' \in [Polls -> Requests]
           /\ \A q \in Polls : q # p => poll'[q] = poll[q]
           /\ poll'[p].at \in {at, "idle"}
           /\ \A q \in Polls : \A s \in Seats : poll'[q].rows[s] \in {poll[q].rows[s], Fresh}
<1>1. poll \in [Polls -> Requests]
  BY DEF TypeOK, Requests, Places
<1>2. CASE Done(p)
  <2>1. poll' = [poll EXCEPT ![p] = Asleep]
    BY <1>2 DEF Done
  <2>2. Asleep.at = "idle" /\ \A s \in Seats : Asleep.rows[s] = Fresh
    BY DEF Asleep
  <2>3. QED
    BY <1>1, <2>1, <2>2, PollTypes
<1>3. CASE Go(p, at)
  <2>1. poll' = [poll EXCEPT ![p] = [poll[p] EXCEPT !.at = at]]
    BY <1>3 DEF Go
  <2>2. /\ [poll[p] EXCEPT !.at = at] \in Requests
        /\ [poll[p] EXCEPT !.at = at].at = at
        /\ [poll[p] EXCEPT !.at = at].rows = poll[p].rows
    BY <1>1 DEF Requests
  <2>3. QED
    BY <1>1, <2>1, <2>2
<1>4. QED
  BY <1>2, <1>3

\* The steps of a poll, and of the init lock, that leave the model alone.
LEMMA WaitingKeeps ==
    ASSUME IInv, NEW p \in Polls, Acquire(p) \/ GiveUp(p) \/ Fails(p)
    PROVE  IInv'
<1> USE DEF IInv
<1>1. /\ UNCHANGED <<inventory, queued, lease, todo, answer, model, raw>>
      /\ faults' = faults \/ (faults < MaxFaults /\ faults' = faults + 1)
  BY DEF Acquire, GiveUp, Fails, Fault, outboxVars
<1>2. PICK at \in Places \ {"publish"} : Go(p, at) \/ Done(p)
  BY DEF Acquire, GiveUp, Fails, Places
<1>3. /\ poll' \in [Polls -> Requests]
      /\ \A q \in Polls : q # p => poll'[q] = poll[q]
      /\ poll'[p].at # "publish"
      /\ \A q \in Polls : \A s \in Seats : poll'[q].rows[s] \in {poll[q].rows[s], Fresh}
  BY <1>2, GoShape
<1>4. /\ sync' \in [Polls -> Clients]
      /\ \A q \in Polls : sync'[q] \in {sync[q], Unsynced}
  <2>1. sync \in [Polls -> Clients]
    BY DEF TypeOK, Clients
  <2>2. sync' = sync \/ sync' = [sync EXCEPT ![p] = Unsynced]
    BY DEF Acquire, GiveUp, Fails, Degraded
  <2>3. QED
    BY <2>1, <2>2, PollTypes
<1>5. lock' \in {lock, NoOne} \/ (model.state = "absent" /\ lock' = p)
  BY DEF Acquire, GiveUp, Fails
<1>6. TypeOK'
  <2>1. lock' \in Polls \cup {NoOne} /\ faults' \in 0..MaxFaults
    BY <1>1, <1>5, Bounds DEF TypeOK
  <2>2. QED
    BY <1>1, <1>3, <1>4, <2>1 DEF TypeOK, Clients, Requests, Places
<1>7. ModelIsSound'
  BY <1>1, <1>4, <1>5, SameModel
<1>8. \A q \in Polls : Publishes(q)' => Publishes(q) /\ poll'[q].rows = poll[q].rows
  BY <1>3, <1>5, Names DEF Publishes
<1>9. OutboxIsSound'
  BY <1>1, <1>3, <1>8, OutboxKept
<1>10. QED
  BY <1>6, <1>7, <1>9

LEMMA LockExpiresKeeps ==
    ASSUME IInv, LockExpires
    PROVE  IInv'
<1> USE DEF IInv
<1>1. /\ UNCHANGED <<inventory, queued, lease, todo, answer, model, raw, poll, sync>>
      /\ lock' = NoOne
      /\ faults' = faults \/ (faults < MaxFaults /\ faults' = faults + 1)
  BY DEF LockExpires, Fault, outboxVars, clientVars
<1>2. TypeOK'
  BY <1>1, Bounds DEF TypeOK
<1>3. ModelIsSound'
  BY <1>1, SameModel
<1>4. OutboxIsSound'
  BY <1>1, Names, OutboxKept DEF Publishes
<1>5. QED
  BY <1>2, <1>3, <1>4

\* The rows that a rebuild reads are those of the inventory at that moment.
LEMMA LoadKeeps ==
    ASSUME IInv, NEW p \in Polls, Load(p)
    PROVE  IInv'
<1> USE DEF IInv
<1>1. UNCHANGED <<inventory, queued, lease, todo, answer, model, raw, lock, sync, faults>>
  BY DEF Load, outboxVars
<1>2. /\ poll' \in [Polls -> Requests]
      /\ poll'[p].rows = inventory
      /\ \A q \in Polls : q # p => poll'[q] = poll[q]
  <2>1. poll \in [Polls -> Requests] /\ inventory \in [Seats -> Formal]
    BY DEF TypeOK, Requests, Places
  <2> DEFINE r == [poll[p] EXCEPT !.at = "publish", !.rows = inventory]
  <2>2. poll' = [poll EXCEPT ![p] = r]
    BY DEF Load
  <2>3. r \in Requests /\ r.rows = inventory
    BY <2>1 DEF Requests, Places
  <2> HIDE DEF r
  <2>4. QED
    BY <2>1, <2>2, <2>3
<1>3. TypeOK'
  BY <1>1, <1>2 DEF TypeOK, Requests, Places
<1>4. ModelIsSound'
  BY <1>1, SameModel
<1>5. \A s \in Seats : \A f \in Formal : Genuine(s, f) => inventory[s].version >= f.version
  BY Bounds DEF Genuine, Formal, TypeOK
<1>6. NothingIsMadeUp'
  <2>1. \A s \in Seats, q \in Polls : Genuine(s, poll'[q].rows[s])
    BY <1>2 DEF OutboxIsSound, NothingIsMadeUp, Genuine
  <2>2. QED
    BY <1>1, <2>1 DEF OutboxIsSound, NothingIsMadeUp, Genuine, Known, Fresh
<1>7. \A s \in Seats : inventory[s].version >= model.formal[s].version
  <2>1. \A s \in Seats : model.formal[s] \in Formal /\ Genuine(s, model.formal[s])
    BY DEF TypeOK, OutboxIsSound, NothingIsMadeUp
  <2>2. QED
    BY <1>5, <2>1
<1>8. RowsCarryOn'
  <2> SUFFICES ASSUME NEW q \in Polls, Publishes(q)', NEW s \in Seats
               PROVE  /\ poll'[q].rows[s].version >= model.formal[s].version
                      /\ poll'[q].rows[s] # inventory[s] => Current(s)' \in queued
    BY <1>1 DEF RowsCarryOn
  <2>1. CASE q = p
    BY <1>2, <1>7, <2>1
  <2>2. CASE q # p
    <3>1. Publishes(q) /\ Current(s)' = Current(s)
      BY <1>1, <1>2, <2>2 DEF Publishes, Current
    <3>2. QED
      BY <1>2, <2>2, <3>1 DEF OutboxIsSound, RowsCarryOn
  <2>3. QED
    BY <2>1, <2>2
<1>9. RemovalsAreSafe'
  <2> SUFFICES ASSUME NEW w \in Workers, NEW a \in answer[w], a.remove
               PROVE  /\ model.state = "ready" => model.formal[a.event.seat].version >= a.event.version
                      /\ \A q \in Polls : Publishes(q)' =>
                            poll'[q].rows[a.event.seat].version >= a.event.version
    BY <1>1 DEF RemovalsAreSafe
  <2>1. /\ model.state = "ready" => model.formal[a.event.seat].version >= a.event.version
        /\ \A q \in Polls : Publishes(q) =>
              poll[q].rows[a.event.seat].version >= a.event.version
    BY DEF OutboxIsSound, RemovalsAreSafe
  <2>2. inventory[a.event.seat].version >= a.event.version
    <3>1. a.event \in Event /\ Known(a.event)
      BY DEF TypeOK, OutboxIsSound, NothingIsMadeUp
    <3>2. a.event.seat \in Seats /\ FormalOf(a.event) \in Formal /\ FormalOf(a.event).version = a.event.version
      BY <3>1 DEF Event, Formal, FormalOf
    <3>3. QED
      BY <1>5, <3>1, <3>2 DEF Known
  <2>3. QED
    BY <1>1, <1>2, <2>1, <2>2 DEF Publishes
<1>10. NoChangeIsLost'
  BY <1>1 DEF OutboxIsSound, NoChangeIsLost
<1>11. QED
  BY <1>3, <1>4, <1>6, <1>8, <1>9, <1>10 DEF OutboxIsSound

\* A new model starts a new generation, which nobody follows yet, from rows that are no
\* older than what customers saw.
LEMMA PublishKeeps ==
    ASSUME IInv, NEW p \in Polls, Publish(p)
    PROVE  IInv'
<1> USE DEF IInv
<1>1. /\ UNCHANGED <<inventory, queued, lease, todo, answer, raw, sync, faults>>
      /\ poll[p].at = "publish"
  BY DEF Publish, outboxVars
<1>2. model \in Models /\ poll[p].rows \in [Seats -> Formal]
  BY DEF TypeOK, Models
<1>3. PICK at \in {"expire", "acquire"} :
         poll' = [poll EXCEPT ![p].at = at, ![p].rows = Asleep.rows]
  BY DEF Publish
<1>4. /\ poll' \in [Polls -> Requests]
      /\ poll'[p].at # "publish"
      /\ \A q \in Polls : q # p => poll'[q] = poll[q]
      /\ \A q \in Polls : \A s \in Seats : poll'[q].rows[s] \in {poll[q].rows[s], Fresh}
  <2>1. poll \in [Polls -> Requests]
    BY DEF TypeOK, Requests, Places
  <2> DEFINE r == [poll[p] EXCEPT !.at = at, !.rows = Asleep.rows]
  <2>2. poll' = [poll EXCEPT ![p] = r]
    BY <1>3
  <2>3. Asleep.rows \in [Seats -> Formal] /\ \A s \in Seats : Asleep.rows[s] = Fresh
    BY PollTypes DEF Requests, Asleep
  <2>4. r \in Requests /\ r.at = at /\ r.rows = Asleep.rows
    BY <2>1, <2>3 DEF Requests, Places
  <2> HIDE DEF r
  <2>5. QED
    BY <2>1, <2>2, <2>3, <2>4
<1>5. CASE lock # p
  <2>1. UNCHANGED <<model, lock>>
    BY <1>5 DEF Publish
  <2>2. TypeOK'
    BY <1>1, <1>4, <2>1 DEF TypeOK, Requests, Places
  <2>3. ModelIsSound'
    BY <1>1, <2>1, SameModel
  <2>4. OutboxIsSound'
    BY <1>1, <1>4, <2>1, OutboxKept DEF Publishes
  <2>5. QED
    BY <2>2, <2>3, <2>4
<1>6. CASE lock = p
  <2> DEFINE rows == poll[p].rows
  <2>1. PICK g \in Nat : g = model.generation + 1
    BY Bounds DEF TypeOK, Generations
  <2>2. /\ model' = [state |-> "ready", generation |-> g, formal |-> rows, holds |-> raw,
                     summary |-> Counted(rows, raw), changes |-> <<NoOne>>, trimmed |-> 0]
        /\ lock' = NoOne
    BY <1>6, <2>1 DEF Publish, Published
  <2>3. /\ model'.state = "ready" /\ model'.generation = g /\ model'.formal = rows
        /\ model'.holds = raw /\ model'.summary = Counted(rows, raw)
    BY <2>2
  <2>4. model.state = "absent" /\ Publishes(p)
    BY <1>1, <1>6, Names DEF ModelIsSound, LockMeansAbsent, Publishes
  <2>5. g <= faults + 1 /\ g \in Generations
    BY <2>1, <2>4, Bounds DEF ModelIsSound, GenerationsAreCounted, TypeOK, Generations
  <2>6. TypeOK'
    <3>1. Counted(rows, raw) \in [Statuses -> 0..Cardinality(Seats)]
      BY CountedType
    <3>2. raw \in [Seats -> Owner] /\ <<NoOne>> \in Seq(Seats \cup {NoOne}) /\ 0 \in Nat
      BY DEF TypeOK
    <3>3. model' \in Models
      BY <1>2, <2>2, <2>5, <3>1, <3>2 DEF Models
    <3>4. QED
      BY <1>1, <1>4, <2>2, <3>3 DEF TypeOK, Models, Requests, Places
  <2>7. ModelIsSound'
    <3>1. LockMeansAbsent' /\ GenerationsAreCounted'
      BY <1>1, <2>2, <2>3, <2>5 DEF LockMeansAbsent, GenerationsAreCounted
    <3>2. \A q \in Polls : sync[q].generation \in Nat /\ sync[q].generation < g
      BY <2>1, Bounds DEF ModelIsSound, CursorsAreKnown, TypeOK, Generations
    <3>3. CursorsAreKnown'
      BY <1>1, <2>3, <3>2 DEF CursorsAreKnown
    <3>4. HoldsAndCountsAgree'
      BY <1>1, <2>3 DEF HoldsAndCountsAgree, Counted
    <3>5. DeltasMissNothing'
      BY <1>1, <2>3, <3>2, SettledShapePrimed DEF DeltasMissNothing, Follows
    <3>6. QED
      BY <3>1, <3>3, <3>4, <3>5 DEF ModelIsSound
  <2>8. NothingIsMadeUp'
    BY <1>1, <1>4, <2>3 DEF OutboxIsSound, NothingIsMadeUp, Genuine, Known, Fresh
  <2>9. RowsCarryOn'
    BY <1>4, <2>2, Names DEF RowsCarryOn, Publishes
  <2>10. RemovalsAreSafe'
    BY <1>1, <1>4, <2>2, <2>3, <2>4, Names DEF OutboxIsSound, RemovalsAreSafe, Publishes
  <2>11. NoChangeIsLost'
    BY <1>1, <2>3, <2>4 DEF OutboxIsSound, RowsCarryOn, NoChangeIsLost, Current
  <2>12. QED
    BY <2>6, <2>7, <2>8, <2>9, <2>10, <2>11 DEF OutboxIsSound
<1>7. QED
  BY <1>5, <1>6

\* A sweep removes from the model only holds that Redis no longer has.
LEMMA ExpireKeeps ==
    ASSUME IInv, NEW p \in Polls, Expire(p)
    PROVE  IInv'
<1> USE DEF IInv
<1>1. /\ UNCHANGED <<inventory, queued, lease, todo, answer, raw, lock, faults>>
      /\ poll[p].at = "expire"
  BY DEF Expire, outboxVars
<1>2. model \in Models /\ raw \in [Seats -> Owner] /\ sync \in [Polls -> Clients]
  BY DEF TypeOK, Models, Clients
<1>3. CASE /\ model.state = "ready" /\ UNCHANGED sync
           /\ \E batch \in SUBSET Lapsed : /\ model' \in Trims(Synced(model, batch, raw))
                                           /\ Go(p, "read") \/ UNCHANGED poll
  <2>1. PICK batch \in SUBSET Lapsed : model' \in Trims(Synced(model, batch, raw))
    BY <1>3
  <2>2. batch \in SUBSET Seats /\ \A s \in batch : raw[s] = NoOne
    BY DEF Lapsed
  <2>3. /\ Continues(model') /\ model'.formal = model.formal
        /\ \A s \in Seats : model'.holds[s] = IF s \in batch THEN raw[s] ELSE model.holds[s]
    BY <1>2, <1>3, <2>1, <2>2, SyncedContinues DEF ModelIsSound, HoldsAndCountsAgree
  <2>4. \A s \in Seats : raw[s] # NoOne => model'.holds[s] = raw[s]
    BY <1>3, <2>3 DEF ModelIsSound, HoldsAndCountsAgree
  <2>5. /\ poll' \in [Polls -> Requests]
        /\ poll'[p].at # "publish"
        /\ \A q \in Polls : q # p => poll'[q] = poll[q]
        /\ \A q \in Polls : \A s \in Seats : poll'[q].rows[s] \in {poll[q].rows[s], Fresh}
    <3>1. CASE Go(p, "read")
      BY <3>1, GoShape DEF Places
    <3>2. CASE UNCHANGED poll
      BY <1>1, <3>2 DEF TypeOK, Requests, Places
    <3>3. QED
      BY <1>3, <3>1, <3>2
  <2>6. TypeOK'
    BY <1>1, <1>2, <1>3, <2>3, <2>5 DEF TypeOK, Continues, Models, Requests, Places, Clients
  <2>7. ModelIsSound'
    BY <1>1, <1>3, <2>3, <2>4, SameGeneration
  <2>8. OutboxIsSound'
    BY <1>1, <1>3, <2>3, <2>5, OutboxKept DEF Publishes
  <2>9. QED
    BY <2>6, <2>7, <2>8
<1>4. CASE /\ model.state # "ready" /\ model' = Invalidated
           /\ \/ /\ poll' = [poll EXCEPT ![p].at = "acquire", ![p].rebuilt = TRUE]
                 /\ UNCHANGED sync
              \/ Done(p) /\ Degraded(p)
  <2>1. /\ model' \in Models /\ model'.state = "absent" /\ model'.generation = model.generation
        /\ model'.formal = model.formal
    BY <1>2, <1>4, InvalidatedShape
  <2>2. /\ sync' \in [Polls -> Clients]
        /\ \A q \in Polls : sync'[q] \in {sync[q], Unsynced}
    <3>1. sync' = sync \/ sync' = [sync EXCEPT ![p] = Unsynced]
      BY <1>4 DEF Degraded
    <3>2. QED
      BY <1>2, <3>1, PollTypes
  <2>3. /\ poll' \in [Polls -> Requests]
        /\ poll'[p].at # "publish"
        /\ \A q \in Polls : q # p => poll'[q] = poll[q]
        /\ \A q \in Polls : \A s \in Seats : poll'[q].rows[s] \in {poll[q].rows[s], Fresh}
    <3>1. CASE Done(p)
      BY <3>1, GoShape DEF Places
    <3>2. CASE poll' = [poll EXCEPT ![p].at = "acquire", ![p].rebuilt = TRUE]
      <4>1. poll \in [Polls -> Requests]
        BY DEF TypeOK, Requests, Places
      <4> DEFINE r == [poll[p] EXCEPT !.at = "acquire", !.rebuilt = TRUE]
      <4>2. poll' = [poll EXCEPT ![p] = r]
        BY <3>2
      <4>3. r \in Requests /\ r.at = "acquire" /\ r.rows = poll[p].rows
        BY <4>1 DEF Requests, Places
      <4> HIDE DEF r
      <4>4. QED
        BY <4>1, <4>2, <4>3
    <3>3. QED
      BY <1>4, <3>1, <3>2
  <2>4. TypeOK'
    BY <1>1, <2>1, <2>2, <2>3 DEF TypeOK, Models, Requests, Places, Clients
  <2>5. ModelIsSound'
    BY <1>1, <1>4, <2>1, <2>2, NoModel
  <2>6. OutboxIsSound'
    BY <1>1, <2>1, <2>3, OutboxKept DEF Publishes
  <2>7. QED
    BY <2>4, <2>5, <2>6
<1>5. QED
  BY <1>3, <1>4 DEF Expire

\* The rows of an answer are those of the model, but for holds that await a sweep.
LEMMA RowShape ==
    ASSUME TypeOK, NEW s \in Seats
    PROVE  /\ RowOf(s) \in Row
           /\ \/ RowOf(s).hidden
              \/ /\ RowOf(s).status = model.formal[s].status
                 /\ RowOf(s).status = "AVAILABLE" => RowOf(s).owner = model.holds[s]
<1>1. model.formal[s].status \in Statuses /\ model.holds[s] \in Owner /\ NoOne \in Owner
  BY DEF TypeOK, Formal, Owner
<1> DEFINE status == model.formal[s].status
           sale == status = "AVAILABLE"
           owner == IF sale /\ s \notin Lapsed THEN model.holds[s] ELSE NoOne
           hidden == sale /\ s \in Lapsed
<1>2. RowOf(s) = [status |-> status, owner |-> owner, hidden |-> hidden]
  BY DEF RowOf
<1>3. owner \in Owner /\ hidden \in BOOLEAN
  BY <1>1
<1>4. sale => hidden \/ owner = model.holds[s]
  OBVIOUS
<1>5. RowOf(s).status = status /\ RowOf(s).owner = owner /\ RowOf(s).hidden = hidden
  BY <1>2
<1>6. RowOf(s) \in Row
  BY <1>1, <1>2, <1>3 DEF Row
<1> HIDE DEF owner, hidden
<1>7. QED
  BY <1>4, <1>5, <1>6

\* What a client has after an answer from a model: a cursor that exists, and every row
\* that nothing after the cursor names.
LEMMA AnswerShape ==
    ASSUME IInv, model.state = "ready", NEW p \in Polls,
           NEW c, c = IF Follows(p) THEN Delta(p) ELSE Snapshot
    PROVE  /\ c \in Clients /\ c.generation = model.generation /\ c.cursor <= LastId(model)
           /\ c.cursor > model.trimmed =>
                 \A s \in Seats \ After(model, c.cursor) :
                    \/ c.view[s].hidden
                    \/ /\ c.view[s].status = model.formal[s].status
                       /\ c.view[s].status = "AVAILABLE" => c.view[s].owner = model.holds[s]
<1> USE DEF IInv
<1>1. /\ model.generation \in Generations /\ LastId(model) \in Nat /\ model.trimmed \in Nat
      /\ sync[p].cursor \in Nat /\ sync[p].view \in [Seats -> Row]
  <2>1. Len(model.changes) \in Nat
    BY DEF TypeOK
  <2>2. QED
    BY <2>1 DEF TypeOK, LastId
<1>2. \A s \in Seats : RowOf(s) \in Row
  BY RowShape
<1>3. CASE ~Follows(p)
  <2>1. c = [generation |-> model.generation, cursor |-> LastId(model),
             view |-> [s \in Seats |-> RowOf(s)]]
    BY <1>3 DEF Snapshot
  <2>2. /\ c.generation = model.generation /\ c.cursor = LastId(model)
        /\ \A s \in Seats : c.view[s] = RowOf(s)
    BY <2>1
  <2>3. [s \in Seats |-> RowOf(s)] \in [Seats -> Row]
    BY <1>2
  <2>4. c \in Clients
    BY <1>1, <2>1, <2>3 DEF Clients
  <2>5. QED
    BY <1>1, <2>2, <2>4, RowShape
<1>4. CASE Follows(p)
  <2> DEFINE from == sync[p].cursor
  <2>1. PICK n \in Nat : n = DeltaLength(p) /\ from + n <= LastId(model)
    <3>1. from <= LastId(model)
      BY <1>4 DEF Follows, ModelIsSound, CursorsAreKnown
    <3>2. DeltaLimit \in Nat
      BY Limits
    <3>3. QED
      BY <1>1, <3>1, <3>2 DEF DeltaLength
  <2>2. PICK to \in Nat : to = from + n
    BY <1>1
  <2> DEFINE S == SeatsBetween(from, to)
             view == [s \in Seats |-> IF s \in S THEN RowOf(s) ELSE sync[p].view[s]]
  <2>3. c = [generation |-> model.generation, cursor |-> to, view |-> view]
    BY <1>4, <2>1, <2>2 DEF Delta
  <2>4. view \in [Seats -> Row]
    BY <1>1, <1>2
  <2>5. \A s \in Seats : view[s] = IF s \in S THEN RowOf(s) ELSE sync[p].view[s]
    OBVIOUS
  <2> HIDE DEF view
  <2>6. c.generation = model.generation /\ c.cursor = to /\ c.view = view
    BY <2>3
  <2>7. c \in Clients
    BY <1>1, <2>3, <2>4 DEF Clients
  <2>8. After(model, from) \subseteq S \cup After(model, to)
    <3>1. \A i \in from + 1..LastId(model) : i \in from + 1..to \/ i \in to + 1..LastId(model)
      BY <1>1
    <3>2. QED
      BY <3>1 DEF After, SeatsBetween
  <2>9. ASSUME NEW s \in Seats \ After(model, to)
        PROVE  \/ view[s].hidden
               \/ /\ view[s].status = model.formal[s].status
                  /\ view[s].status = "AVAILABLE" => view[s].owner = model.holds[s]
    <3>1. CASE s \in S
      BY <2>5, <3>1, RowShape
    <3>2. CASE s \notin S
      <4>1. s \in Settled(p)
        BY <1>4, <2>8, <3>2, SettledShape
      <4>2. Shows(p, s) \/ sync[p].view[s].hidden
        BY <4>1 DEF ModelIsSound, DeltasMissNothing
      <4>3. view[s] = sync[p].view[s]
        BY <2>5, <3>2
      <4>4. QED
        BY <4>2, <4>3 DEF Shows
    <3>3. QED
      BY <3>1, <3>2
  <2>10. QED
    BY <1>1, <2>1, <2>2, <2>6, <2>7, <2>9
<1>5. QED
  BY <1>3, <1>4

LEMMA ReadKeeps ==
    ASSUME IInv, NEW p \in Polls, Read(p)
    PROVE  IInv'
<1> USE DEF IInv
<1>1. /\ UNCHANGED <<inventory, queued, lease, todo, answer, raw, lock, faults>>
      /\ Done(p)
  BY DEF Read, outboxVars
<1>2. model \in Models /\ sync \in [Polls -> Clients]
  BY DEF TypeOK, Models, Clients
<1>3. /\ poll' \in [Polls -> Requests]
      /\ poll'[p].at = "idle"
      /\ \A q \in Polls : q # p => poll'[q] = poll[q]
      /\ \A q \in Polls : \A s \in Seats : poll'[q].rows[s] \in {poll[q].rows[s], Fresh}
  BY <1>1, GoShape DEF Places
<1>4. ASSUME model'.formal = model.formal, model'.state = "ready" => model.state = "ready"
      PROVE  OutboxIsSound'
  BY <1>1, <1>3, <1>4, OutboxKept DEF Publishes
<1>5. CASE model.state = "ready" /\ UNCHANGED <<model, sync>>
  <2>1. TypeOK'
    BY <1>1, <1>3, <1>5 DEF TypeOK, Requests, Places
  <2>2. ModelIsSound'
    BY <1>1, <1>5, SameModel
  <2>3. QED
    BY <1>4, <1>5, <2>1, <2>2
<1>6. CASE /\ model.state = "ready" /\ UNCHANGED model
           /\ sync' = [sync EXCEPT ![p] = IF Follows(p) THEN Delta(p) ELSE Snapshot]
  <2>1. PICK c : c = IF Follows(p) THEN Delta(p) ELSE Snapshot
    OBVIOUS
  <2>2. /\ c \in Clients /\ c.generation = model.generation /\ c.cursor <= LastId(model)
        /\ c.cursor > model.trimmed =>
              \A s \in Seats \ After(model, c.cursor) :
                 \/ c.view[s].hidden
                 \/ /\ c.view[s].status = model.formal[s].status
                    /\ c.view[s].status = "AVAILABLE" => c.view[s].owner = model.holds[s]
    BY <1>6, <2>1, AnswerShape
  <2>3. /\ sync' \in [Polls -> Clients] /\ sync'[p] = c
        /\ \A q \in Polls : q # p => sync'[q] = sync[q]
    BY <1>2, <1>6, <2>1, <2>2
  <2>4. TypeOK'
    BY <1>1, <1>3, <1>6, <2>3 DEF TypeOK, Requests, Places, Clients
  <2>5. CursorsAreKnown'
    <3>1. model.generation \in Nat
      BY Bounds DEF TypeOK, Generations
    <3>2. QED
      BY <1>6, <2>2, <2>3, <3>1 DEF ModelIsSound, CursorsAreKnown, LastId
  <2>6. DeltasMissNothing'
    <3> SUFFICES ASSUME NEW q \in Polls, NEW s \in Settled(q)'
                 PROVE  Shows(q, s)' \/ sync'[q].view[s].hidden
      BY DEF DeltasMissNothing
    <3>1. CASE q = p
      <4>1. c.cursor > model.trimmed /\ s \in Seats \ After(model, c.cursor)
        BY <1>6, <2>3, <3>1, SettledShapePrimed DEF Follows
      <4>2. QED
        BY <1>6, <2>2, <2>3, <3>1, <4>1 DEF Shows
    <3>2. CASE q # p
      <4>1. s \in Settled(q)
        BY <1>6, <2>3, <3>2, SettledShape, SettledShapePrimed DEF Follows
      <4>2. QED
        BY <1>6, <2>3, <3>2, <4>1 DEF ModelIsSound, DeltasMissNothing, Shows
    <3>3. QED
      BY <3>1, <3>2
  <2>7. LockMeansAbsent' /\ GenerationsAreCounted' /\ HoldsAndCountsAgree'
    BY <1>1, <1>6 DEF ModelIsSound, LockMeansAbsent, GenerationsAreCounted, HoldsAndCountsAgree
  <2>8. QED
    BY <1>4, <1>6, <2>4, <2>5, <2>6, <2>7 DEF ModelIsSound
<1>7. CASE model.state # "ready" /\ model' = Invalidated /\ Degraded(p)
  <2>1. /\ model' \in Models /\ model'.state = "absent" /\ model'.generation = model.generation
        /\ model'.formal = model.formal
    BY <1>2, <1>7, InvalidatedShape
  <2>2. /\ sync' \in [Polls -> Clients]
        /\ \A q \in Polls : sync'[q] \in {sync[q], Unsynced}
    BY <1>2, <1>7, PollTypes DEF Degraded
  <2>3. TypeOK'
    BY <1>1, <1>3, <2>1, <2>2 DEF TypeOK, Models, Requests, Places, Clients
  <2>4. ModelIsSound'
    BY <1>1, <1>7, <2>1, <2>2, NoModel
  <2>5. QED
    BY <1>4, <2>1, <2>3, <2>4
<1>8. QED
  BY <1>5, <1>6, <1>7 DEF Read

-----------------------------------------------------------------------------
(* The invariant. *)

LEMMA InitInv == Init => IInv
<1> SUFFICES ASSUME Init PROVE IInv
  OBVIOUS
<1>1. Fresh \in Formal /\ 0 \in Generations /\ 0 \in 0..MaxFaults
  BY Bounds DEF Fresh, Formal, Statuses, Generations
<1>2. [s \in Seats |-> Fresh] \in [Seats -> Formal]
  BY <1>1
<1>3. model \in Models
  <2>1. Cardinality(Seats) \in Nat
    BY FiniteSeats, FS_CardinalityType
  <2>2. [s \in Statuses |-> 0] \in [Statuses -> 0..Cardinality(Seats)]
    BY <2>1
  <2>3. [s \in Seats |-> NoOne] \in [Seats -> Owner] /\ <<>> \in Seq(Seats \cup {NoOne}) /\ 0 \in Nat
    BY DEF Owner
  <2>4. QED
    BY <1>1, <1>2, <2>2, <2>3 DEF Init, Absent, Models
<1>4. /\ model.state = "absent" /\ model.generation = 0
      /\ \A s \in Seats : model.formal[s] = Fresh
  BY DEF Init, Absent
<1>5. lease \in [Event -> [by : Workers \cup {NoOne}, over : BOOLEAN]]
  BY DEF Init, Unleased
<1>6. poll \in [Polls -> Requests] /\ sync \in [Polls -> Clients]
  BY PollTypes DEF Init
<1>7. \A p \in Polls : poll[p] = Asleep /\ sync[p] = Unsynced
  BY DEF Init
<1>8. TypeOK
  <2>1. /\ inventory \in [Seats -> Formal] /\ queued \subseteq Event
        /\ raw \in [Seats -> Owner] /\ lock \in Polls \cup {NoOne} /\ faults \in 0..MaxFaults
    BY <1>1, <1>2 DEF Init, Owner
  <2>2. /\ todo \in [Workers -> SUBSET Event]
        /\ answer \in [Workers -> SUBSET [event : Event, remove : BOOLEAN]]
    BY DEF Init
  <2>3. QED
    BY <1>3, <1>5, <1>6, <2>1, <2>2 DEF TypeOK, Models, Requests, Places, Clients
<1>9. LockMeansAbsent /\ GenerationsAreCounted /\ HoldsAndCountsAgree
  BY <1>4 DEF Init, LockMeansAbsent, GenerationsAreCounted, HoldsAndCountsAgree
<1>10. CursorsAreKnown /\ DeltasMissNothing
  BY <1>4, <1>7 DEF CursorsAreKnown, DeltasMissNothing, Settled, Unsynced
<1>11. NothingIsMadeUp
  BY <1>4, <1>7 DEF Init, NothingIsMadeUp, Genuine, Asleep
<1>12. RowsCarryOn /\ RemovalsAreSafe /\ NoChangeIsLost
  BY <1>4, <1>7 DEF Init, RowsCarryOn, RemovalsAreSafe, NoChangeIsLost, Publishes, Asleep
<1>13. QED
  BY <1>8, <1>9, <1>10, <1>11, <1>12 DEF IInv, ModelIsSound, OutboxIsSound

LEMMA NextKeeps == IInv /\ [Next]_vars => IInv'
<1> SUFFICES ASSUME IInv, [Next]_vars PROVE IInv'
  OBVIOUS
<1>1. CASE Projection
  <2>1. CASE \E s \in Traded, st \in Statuses : ChangeStatus(s, st)
    BY <2>1, TradedSeats, ChangeStatusKeeps
  <2>2. CASE \E w \in Workers : Claim(w) \/ WorkerCrashes(w) \/ \E e \in Event : Leave(w, e)
    BY <2>2, WorkerKeeps
  <2>3. CASE \E w \in Workers : Finish(w)
    BY <2>3, FinishKeeps
  <2>4. CASE \E w \in Workers : \E e \in todo[w] : Apply(w, e)
    BY <2>4, ApplyKeeps
  <2>5. CASE \E e \in queued : LeaseRunsOut(e)
    BY <2>5, LeaseRunsOutKeeps
  <2>6. QED
    BY <1>1, <2>1, <2>2, <2>3, <2>4, <2>5 DEF Projection
<1>2. CASE Redis
  BY <1>2, HoldScriptKeeps, HoldElapsesKeeps, LossKeeps, LockExpiresKeeps DEF Redis
<1>3. CASE Polling
  BY <1>3, WaitingKeeps, LoadKeeps, PublishKeeps, ExpireKeeps, ReadKeeps DEF Polling
<1>4. CASE UNCHANGED vars
  <2>1. UNCHANGED <<inventory, queued, lease, todo, answer, model, raw, lock, poll, sync, faults>>
    BY <1>4 DEF vars, outboxVars, clientVars
  <2>2. TypeOK'
    BY <2>1 DEF IInv, TypeOK
  <2>3. ModelIsSound'
    BY <2>1, SameModel
  <2>4. OutboxIsSound'
    BY <2>1, OutboxKept DEF Publishes
  <2>5. QED
    BY <2>2, <2>3, <2>4 DEF IInv
<1>5. QED
  BY <1>1, <1>2, <1>3, <1>4 DEF Next

\* The inductive invariant holds in every behaviour, for all numbers of seats, clients,
\* workers, owners, versions and faults, and all limits of streams and batches.
THEOREM InvCorrect == Spec => []IInv
  BY InitInv, NextKeeps, PTL DEF Spec

\* A row of the model that is out of date has its change in the outbox: publishing what
\* was read earlier, answers to workers that found no model, and workers that finish what
\* another one has taken over lose none.
THEOREM NoChangeIsLostCorrect == Spec => []NoChangeIsLost
<1>1. IInv => NoChangeIsLost
  BY DEF IInv, OutboxIsSound
<1>2. QED
  BY <1>1, InvCorrect, PTL

\* The counters that HINCRBY moves are the counts of the rows, and the model has every
\* hold that Redis has.
THEOREM HoldsAndCountsAgreeCorrect == Spec => []HoldsAndCountsAgree
<1>1. IInv => HoldsAndCountsAgree
  BY DEF IInv, ModelIsSound
<1>2. QED
  BY <1>1, InvCorrect, PTL

\* A client that patches its view by deltas sees in every row that no later change
\* names what a new snapshot would show it.
THEOREM DeltasMissNothingCorrect == Spec => []DeltasMissNothing
<1>1. IInv => DeltasMissNothing
  BY DEF IInv, ModelIsSound
<1>2. QED
  BY <1>1, InvCorrect, PTL

\* What a step does to the formal rows: init.lua replaces them by what was read,
\* apply.lua one of them by a newer one, and nothing else touches them.
LEMMA FormalRowsStep ==
    ASSUME IInv, [Next]_vars
    PROVE  \/ model'.formal = model.formal
           \/ \E p \in Polls : Publishes(p) /\ model'.formal = poll[p].rows
           \/ \E w \in Workers : \E e \in todo[w] :
                 /\ Newer(e)
                 /\ \A s \in Seats :
                       model'.formal[s] = IF s = e.seat THEN FormalOf(e) ELSE model.formal[s]
<1> USE DEF IInv
<1>1. /\ model \in Models /\ raw \in [Seats -> Owner]
      /\ model.state = "ready" => model.summary = Counted(model.formal, model.holds)
  BY DEF TypeOK, Models, ModelIsSound, HoldsAndCountsAgree
<1>2. Invalidated.formal = model.formal
  BY <1>1, InvalidatedShape
<1>3. ASSUME model.state = "ready", NEW S \in SUBSET Seats, NEW h \in [Seats -> Owner],
             model' \in Trims(Synced(model, S, h))
      PROVE  model'.formal = model.formal
  BY <1>1, <1>3, SyncedContinues
<1>4. CASE Projection
  <2>1. CASE UNCHANGED model
    BY <2>1
  <2>2. ASSUME NEW w \in Workers, NEW e \in todo[w], Apply(w, e)
        PROVE  \/ model'.formal = model.formal
               \/ /\ Newer(e)
                  /\ \A s \in Seats :
                        model'.formal[s] = IF s = e.seat THEN FormalOf(e) ELSE model.formal[s]
    <3>1. CASE model' = model \/ model' = Invalidated
      BY <1>2, <3>1
    <3>2. CASE model.state = "ready" /\ Newer(e) /\ model' \in Trims(Projected(model, e))
      <4>1. e \in Event
        BY DEF TypeOK
      <4>2. QED
        BY <1>1, <3>2, <4>1, ProjectedContinues
    <3>3. QED
      BY <2>2, <3>1, <3>2 DEF Apply
  <2>3. QED
    BY <1>4, <2>1, <2>2
       DEF Projection, ChangeStatus, Claim, Finish, WorkerCrashes, Leave, LeaseRunsOut
<1>5. CASE Redis
  <2>1. ASSUME NEW o \in Owners, NEW S \in SUBSET Seats, HoldScript(o, S)
        PROVE  model'.formal = model.formal
    <3>1. raw' \in [Seats -> Owner]
      <4>1. IInv'
        BY <2>1, HoldScriptKeeps
      <4>2. QED
        BY <4>1 DEF TypeOK
    <3>2. CASE model.state = "ready"
      BY <1>3, <2>1, <3>1, <3>2 DEF HoldScript
    <3>3. CASE model.state # "ready"
      BY <1>2, <2>1, <3>3 DEF HoldScript
    <3>4. QED
      BY <3>2, <3>3
  <2>2. ASSUME Flush \/ Damage PROVE model'.formal = model.formal
    <3>1. CASE model' = Invalidated
      BY <1>2, <3>1
    <3>2. CASE model' = [model EXCEPT !.state = "damaged"]
      BY <1>1, <3>2 DEF Models
    <3>3. QED
      BY <2>2, <3>1, <3>2 DEF Flush, Damage
  <2>3. QED
    BY <1>5, <2>1, <2>2 DEF Redis, HoldElapses, LockExpires
<1>6. CASE Polling
  <2> SUFFICES ASSUME NEW p \in Polls,
                      \/ Acquire(p) \/ GiveUp(p) \/ Load(p) \/ Publish(p)
                      \/ Fails(p) \/ Expire(p) \/ Read(p)
               PROVE  \/ model'.formal = model.formal
                      \/ Publishes(p) /\ model'.formal = poll[p].rows
    BY <1>6 DEF Polling
  <2>1. CASE Publish(p)
    BY <2>1 DEF Publish, Published, Publishes
  <2>2. CASE Expire(p)
    <3>1. CASE model.state = "ready"
      <4>1. PICK batch \in SUBSET Lapsed : model' \in Trims(Synced(model, batch, raw))
        BY <2>2, <3>1 DEF Expire
      <4>2. batch \in SUBSET Seats
        BY DEF Lapsed
      <4>3. QED
        BY <1>1, <1>3, <3>1, <4>1, <4>2
    <3>2. CASE model.state # "ready"
      BY <1>2, <2>2, <3>2 DEF Expire
    <3>3. QED
      BY <3>1, <3>2
  <2>3. CASE Read(p)
    BY <1>2, <2>3 DEF Read
  <2>4. QED
    BY <2>1, <2>2, <2>3 DEF Acquire, GiveUp, Load, Fails
<1>7. CASE UNCHANGED vars
  BY <1>7 DEF vars
<1>8. QED
  BY <1>4, <1>5, <1>6, <1>7 DEF Next

\* No seat goes back: not by events applied twice or out of order, nor by a rebuild from
\* rows read earlier, nor when a model is lost.
THEOREM NeverGoesBackCorrect == Spec => NeverGoesBack
<1>1. IInv /\ [Next]_vars => [\A s \in Seats : model'.formal[s].version >= model.formal[s].version]_vars
  <2> SUFFICES ASSUME IInv, [Next]_vars, NEW s \in Seats
               PROVE  model'.formal[s].version >= model.formal[s].version
    OBVIOUS
  <2>1. model.formal[s].version \in Nat
    BY DEF IInv, TypeOK, Formal
  <2>2. CASE model'.formal = model.formal
    BY <2>1, <2>2
  <2>3. CASE \E p \in Polls : Publishes(p) /\ model'.formal = poll[p].rows
    BY <2>3 DEF IInv, OutboxIsSound, RowsCarryOn
  <2>4. CASE \E w \in Workers : \E e \in todo[w] :
                /\ Newer(e)
                /\ \A t \in Seats :
                      model'.formal[t] = IF t = e.seat THEN FormalOf(e) ELSE model.formal[t]
    <3>1. PICK e \in UNION {todo[w] : w \in Workers} :
             /\ Newer(e)
             /\ \A t \in Seats :
                   model'.formal[t] = IF t = e.seat THEN FormalOf(e) ELSE model.formal[t]
      BY <2>4
    <3>2. e \in Event
      BY DEF IInv, TypeOK
    <3>3. e.version \in Nat /\ FormalOf(e).version = e.version
      BY <3>2 DEF Event, FormalOf
    <3>4. CASE s = e.seat
      BY <2>1, <3>1, <3>3, <3>4 DEF Newer
    <3>5. CASE s # e.seat
      BY <2>1, <3>1, <3>5
    <3>6. QED
      BY <3>4, <3>5
  <2>5. QED
    BY <2>2, <2>3, <2>4, FormalRowsStep
<1>2. QED
  BY <1>1, InvCorrect, PTL DEF Spec, NeverGoesBack
=============================================================================
