--------------------------- MODULE WaitingRoomProofs ---------------------------
(***************************************************************************)
(* Proofs about the waiting room: places and leases stay in the namespace  *)
(* they were taken in, a generation whose places Redis has lost is not     *)
(* served again once it was initialized for good, nobody who lives in the  *)
(* queue loses the place, and those in front are let in first; for any     *)
(* numbers of users, instances, versions and faults.                       *)
(***************************************************************************)
EXTENDS WaitingRoom, FiniteSetTheorems, WellFoundedInduction, TLAPS

Versions == 1 .. Latest

Policies == [mode : Modes, gen : Nat]

Losses == [gen : Versions, taken : BOOLEAN, settled : BOOLEAN]

\* The types of what the policies, their copies and the places refer to each other by.
VersionsAreKnown ==
    /\ log \in Seq(Policies)
    /\ marked \in 0 .. Latest /\ runtime \in 0 .. Latest
    /\ rows \in [Instances -> 0 .. Latest] /\ doing \in [Instances -> Places]
    /\ offered \subseteq Versions
    /\ since \in [Users -> 0 .. Latest]
    /\ lost \subseteq Losses

\* Generations are numbered by the version that began them, and one that is served has
\* not changed its namespace since.
GenerationsKeepTheirNamespace ==
    /\ \A v \in Versions : Gen(v) \in 1 .. v
    /\ \A v, w \in Versions : v <= w =>
          /\ Gen(v) <= Gen(w)
          /\ Gen(v) = Gen(w) /\ Namespace(Mode(w)) # "None" =>
                \A x \in v .. w : Namespace(Mode(x)) = Namespace(Mode(w))

Serves(v) == v \in Versions /\ Namespace(Mode(v)) # "None"

\* What Redis has, or is to have, is a policy that asks for a room.
RoomsAreServed ==
    /\ runtime # 0 => Serves(runtime)
    /\ \A i \in Instances :
          doing[i] \in {"sync", "bootstrap", "reset", "mark", "offer"} => Serves(rows[i])

\* What is initialized is at most the last generation.
MarksAreOld == marked <= Gen(Latest)

\* Places are of the generation that Redis has.
PlacesAreOfTheGeneration ==
    \A u \in Users : since[u] # 0 => since[u] <= runtime /\ Gen(since[u]) = Gen(runtime)

\* After a settled loss nothing brings the generation back: it stays marked, and only
\* later ones are served or initialized.
LossesAreOver ==
    \A l \in lost : l.settled =>
        /\ l.gen <= marked
        /\ runtime # 0 => l.gen < Gen(runtime)
        /\ \A i \in Instances : doing[i] = "bootstrap" => l.gen < Gen(rows[i])

IInv ==
    /\ VersionsAreKnown /\ GenerationsKeepTheirNamespace /\ RoomsAreServed
    /\ MarksAreOld /\ PlacesAreOfTheGeneration /\ LossesAreOver

-----------------------------------------------------------------------------
LEMMA InitInv == Init => IInv
<1> SUFFICES ASSUME Init PROVE IInv
  OBVIOUS
<1>1. log = <<>> /\ Latest = 0
  BY DEF Init, Latest
<1>2. VersionsAreKnown
  BY <1>1 DEF Init, VersionsAreKnown, Places
<1>3. GenerationsKeepTheirNamespace
  BY <1>1 DEF GenerationsKeepTheirNamespace, Versions
<1>4. RoomsAreServed /\ MarksAreOld /\ PlacesAreOfTheGeneration /\ LossesAreOver
  BY <1>1 DEF Init, RoomsAreServed, MarksAreOld, PlacesAreOfTheGeneration, LossesAreOver, Gen
<1>5. QED
  BY <1>2, <1>3, <1>4 DEF IInv

\* No generation has a number beyond that of its versions.
LEMMA GenerationsAreNumbered ==
    ASSUME IInv
    PROVE  /\ Latest \in Nat /\ log \in Seq(Policies)
           /\ \A v \in 0 .. Latest : Gen(v) \in 0 .. v
           /\ \A v \in Versions : Gen(v) \in Nat /\ v \in Nat
<1>1. log \in Seq(Policies) /\ Latest \in Nat
  BY DEF IInv, VersionsAreKnown, Latest
<1>2. \A v \in 0 .. Latest : Gen(v) \in 0 .. v
  BY <1>1 DEF IInv, GenerationsKeepTheirNamespace, Versions, Gen
<1>3. QED
  BY <1>1, <1>2 DEF Versions

\* Versions stay what they were, whatever is appended.
LEMMA VersionsStay ==
    ASSUME IInv, log' = log \/ \E p \in Policies : log' = Append(log, p)
    PROVE  /\ Latest \in Nat /\ Latest' \in Nat /\ Latest <= Latest'
           /\ \A v \in 0 .. Latest : Gen(v)' = Gen(v) /\ Mode(v)' = Mode(v) /\ Gen(v) \in 0 .. v
           /\ \A v \in Versions : log'[v] = log[v]
<1> USE DEF IInv
<1>1. log \in Seq(Policies) /\ Latest = Len(log) /\ Latest' = Len(log') /\ Latest \in Nat
  BY DEF VersionsAreKnown, Latest
<1>2. /\ Latest' \in Nat /\ Latest <= Latest'
      /\ \A v \in 1 .. Latest : log'[v] = log[v]
  BY <1>1
<1>3. \A v \in 0 .. Latest : Gen(v) \in 0 .. v
  BY <1>1 DEF GenerationsKeepTheirNamespace, Versions, Gen
<1>4. QED
  BY <1>1, <1>2, <1>3 DEF Gen, Mode, Versions

\* A step that brings nothing to Redis: handlers stay or go on with the row they have
\* read, or have nothing to do with it any more; places are given up or taken under the
\* policy that Redis has.
LEMMA QuietKeeps ==
    ASSUME IInv, UNCHANGED <<log, marked, runtime, lost>>,
           rows' \in [Instances -> 0 .. Latest], doing' \in [Instances -> Places],
           \A i \in Instances :
              \/ doing'[i] = doing[i] /\ rows'[i] = rows[i]
              \/ doing'[i] # "bootstrap" /\ rows'[i] = rows[i] /\ Serves(rows[i])
              \/ doing'[i] \in {"idle", "tick", "hide"},
           offered' \subseteq Versions,
           since' \in [Users -> 0 .. Latest],
           \A u \in Users : since'[u] \in {since[u], 0, runtime}
    PROVE  IInv'
<1> USE DEF IInv
<1>1. /\ \A v : Gen(v)' = Gen(v) /\ Mode(v)' = Mode(v) /\ Serves(v)' = Serves(v)
      /\ Latest' = Latest /\ Versions' = Versions
  BY DEF Gen, Mode, Serves, Latest, Versions
<1>2. Latest \in Nat /\ runtime \in Nat
  BY GenerationsAreNumbered DEF VersionsAreKnown
<1>3. VersionsAreKnown'
  BY <1>1 DEF VersionsAreKnown, Losses
<1>4. GenerationsKeepTheirNamespace'
  BY <1>1 DEF GenerationsKeepTheirNamespace
<1>5. RoomsAreServed'
  <2>1. runtime # 0 => Serves(runtime)
    BY DEF RoomsAreServed
  <2>2. \A i \in Instances :
           doing'[i] \in {"sync", "bootstrap", "reset", "mark", "offer"} => Serves(rows'[i])
    BY DEF RoomsAreServed
  <2>3. QED
    BY <1>1, <2>1, <2>2 DEF RoomsAreServed
<1>6. MarksAreOld'
  BY <1>1 DEF MarksAreOld, Gen
<1>7. PlacesAreOfTheGeneration'
  BY <1>2 DEF PlacesAreOfTheGeneration, Gen
<1>8. LossesAreOver'
  BY DEF LossesAreOver, Gen
<1>9. QED
  BY <1>3, <1>4, <1>5, <1>6, <1>7, <1>8

\* A refresh stands aside, or is to replace the generation.
LEMMA StandsAside ==
    ASSUME IInv, NEW i \in Instances, Serves(rows[i]),
           NEW place \in {"hide", "reset"}, doing' = [doing EXCEPT ![i] = place],
           UNCHANGED <<log, marked, redis, rows, offered, lost>>
    PROVE  IInv'
<1> USE DEF IInv
<1>1. UNCHANGED <<runtime, since>>
  BY DEF redis, room
<1>2. /\ rows \in [Instances -> 0 .. Latest] /\ doing \in [Instances -> Places]
      /\ since \in [Users -> 0 .. Latest] /\ offered \subseteq Versions
  BY DEF VersionsAreKnown
<1>3. /\ doing' \in [Instances -> Places] /\ doing'[i] = place
      /\ \A j \in Instances : j # i => doing'[j] = doing[j]
  BY <1>2 DEF Places
<1>4. \A j \in Instances :
         \/ doing'[j] = doing[j] /\ rows'[j] = rows[j]
         \/ doing'[j] # "bootstrap" /\ rows'[j] = rows[j] /\ Serves(rows[j])
         \/ doing'[j] \in {"idle", "tick", "hide"}
  BY <1>3
<1>5. QED
  BY <1>1, <1>2, <1>3, <1>4, QuietKeeps

\* A version is appended: in the generation before it, if that keeps its namespace, or
\* in one of its own.
LEMMA AppendKeeps ==
    ASSUME IInv, NEW p \in Policies, log' = Append(log, p),
           \/ p.gen = Latest + 1
           \/ /\ Latest # 0 /\ p.gen = Gen(Latest)
              /\ Namespace(p.mode) \in {"None", Namespace(Mode(Latest))},
           UNCHANGED <<marked, runtime, since, offered, lost, rows>>,
           doing' \in [Instances -> Places],
           \A i \in Instances : doing'[i] = doing[i] \/ doing'[i] = "hide"
    PROVE  IInv'
<1> USE DEF IInv
<1>1. /\ Latest \in Nat /\ Latest' = Latest + 1 /\ log \in Seq(Policies)
      /\ log' \in Seq(Policies) /\ log'[Latest'] = p
      /\ \A v \in 0 .. Latest : Gen(v)' = Gen(v) /\ Mode(v)' = Mode(v) /\ Gen(v) \in 0 .. v
  BY VersionsStay DEF VersionsAreKnown, Latest
<1>2. PICK n \in Nat : n = Latest + 1
  BY <1>1
<1>3. /\ Latest' = n /\ Versions' = Versions \cup {n} /\ n \notin Versions
      /\ \A v \in Versions : v < n /\ v \in Nat /\ v \in 1 .. Latest
  BY <1>1, <1>2 DEF Versions
<1>4. Gen(n)' = p.gen /\ Mode(n)' = p.mode
  <2>1. n # 0 /\ n = Latest'
    BY <1>1, <1>2
  <2>2. QED
    BY <1>1, <2>1 DEF Gen, Mode
<1>5. \A v \in Versions : /\ Gen(v)' = Gen(v) /\ Mode(v)' = Mode(v) /\ (Serves(v) => Serves(v)')
                          /\ Gen(v) \in Nat /\ Gen(v) < n
  BY <1>1, <1>2, <1>3 DEF Serves
<1>6. VersionsAreKnown'
  <2>1. /\ 0 .. Latest \subseteq 0 .. n /\ Losses \subseteq Losses'
    BY <1>1, <1>2, <1>3 DEF Losses
  <2>2. QED
    BY <1>1, <1>3, <2>1 DEF VersionsAreKnown
<1>7. p.gen \in 1 .. n /\ \A v \in Versions : Gen(v) <= p.gen
  <2>1. CASE p.gen = Latest + 1
    <3>1. p.gen = n /\ n >= 1
      BY <1>1, <1>2, <2>1
    <3>2. QED
      BY <1>5, <3>1
  <2>2. CASE Latest # 0 /\ p.gen = Gen(Latest)
    <3>1. Latest \in Versions
      BY <1>1, <2>2 DEF Versions
    <3>2. QED
      BY <1>1, <1>2, <1>3, <2>2, <3>1 DEF GenerationsKeepTheirNamespace
  <2>3. QED
    BY <2>1, <2>2
<1>8. ASSUME NEW v \in Versions, Gen(v) = p.gen, Namespace(p.mode) # "None"
      PROVE  \A x \in v .. n : Namespace(Mode(x)') = Namespace(p.mode)
  <2>1. /\ Latest # 0 /\ p.gen = Gen(Latest) /\ Namespace(Mode(Latest)) = Namespace(p.mode)
    BY <1>2, <1>5, <1>8
  <2>2. Latest \in Versions /\ v <= Latest
    BY <1>1, <1>3, <2>1 DEF Versions
  <2>3. \A x \in v .. Latest : Namespace(Mode(x)) = Namespace(Mode(Latest))
    BY <1>8, <2>1, <2>2 DEF GenerationsKeepTheirNamespace
  <2>4. \A x \in v .. n : x = n \/ (x \in v .. Latest /\ x \in Versions)
    BY <1>1, <1>2, <1>3 DEF Versions
  <2>5. QED
    BY <1>4, <1>5, <2>1, <2>3, <2>4
<1>9. GenerationsKeepTheirNamespace'
  <2>1. \A v \in Versions' : Gen(v)' \in 1 .. v
    BY <1>3, <1>4, <1>5, <1>7 DEF GenerationsKeepTheirNamespace
  <2>2. ASSUME NEW v \in Versions', NEW w \in Versions', v <= w
        PROVE  /\ Gen(v)' <= Gen(w)'
               /\ Gen(v)' = Gen(w)' /\ Namespace(Mode(w)') # "None" =>
                     \A x \in v .. w : Namespace(Mode(x)') = Namespace(Mode(w)')
    <3>1. CASE w \in Versions
      <4>1. v \in Versions /\ v .. w \subseteq Versions
        BY <1>1, <1>2, <1>3, <2>2, <3>1 DEF Versions
      <4>2. QED
        BY <1>5, <2>2, <3>1, <4>1 DEF GenerationsKeepTheirNamespace
    <3>2. CASE w = n /\ v = n
      <4>1. \A x \in n .. n : x = n
        OBVIOUS
      <4>2. QED
        BY <1>4, <1>7, <3>2, <4>1
    <3>3. CASE w = n /\ v \in Versions
      BY <1>4, <1>5, <1>7, <1>8, <3>3
    <3>4. QED
      BY <1>3, <3>1, <3>2, <3>3
  <2>3. QED
    BY <2>1, <2>2 DEF GenerationsKeepTheirNamespace, Namespace
<1>10. RoomsAreServed'
  <2>1. runtime # 0 => Serves(runtime)'
    BY <1>5 DEF RoomsAreServed, Serves
  <2>2. \A i \in Instances :
           doing'[i] \in {"sync", "bootstrap", "reset", "mark", "offer"} => Serves(rows[i])'
    BY <1>5 DEF RoomsAreServed, Serves
  <2>3. QED
    BY <2>1, <2>2 DEF RoomsAreServed
<1>11. MarksAreOld'
  <2>1. marked \in Nat /\ marked <= Gen(Latest)
    BY <1>1 DEF VersionsAreKnown, MarksAreOld
  <2>2. Gen(Latest) <= p.gen
    <3>1. CASE Latest = 0
      BY <1>1, <1>7, <3>1 DEF Gen
    <3>2. CASE Latest # 0
      BY <1>1, <1>7, <3>2 DEF Versions
    <3>3. QED
      BY <3>1, <3>2
  <2>3. Gen(Latest)' = p.gen
    BY <1>1 DEF Gen
  <2>4. Gen(Latest) \in Nat /\ p.gen \in Nat
    BY <1>1, <1>7
  <2>5. QED
    BY <2>1, <2>2, <2>3, <2>4 DEF MarksAreOld
<1>12. PlacesAreOfTheGeneration'
  <2>1. since \in [Users -> 0 .. Latest] /\ runtime \in 0 .. Latest
    BY DEF VersionsAreKnown
  <2>2. \A u \in Users : Gen(since[u])' = Gen(since[u]) /\ Gen(runtime)' = Gen(runtime)
    BY <1>1, <2>1 DEF Gen
  <2>3. QED
    BY <2>2 DEF PlacesAreOfTheGeneration
<1>13. LossesAreOver'
  <2>1. runtime \in 0 .. Latest /\ rows \in [Instances -> 0 .. Latest]
    BY DEF VersionsAreKnown
  <2>2. Gen(runtime)' = Gen(runtime) /\ \A i \in Instances : Gen(rows[i])' = Gen(rows[i])
    BY <1>1, <2>1 DEF Gen
  <2>3. QED
    BY <2>2 DEF LossesAreOver
<1>14. QED
  BY <1>6, <1>9, <1>10, <1>11, <1>12, <1>13

-----------------------------------------------------------------------------
(* The steps. *)

LEMMA UpdateKeeps ==
    ASSUME IInv, NEW i \in Instances, NEW mode \in Modes, Update(i, mode)
    PROVE  IInv'
<1> USE DEF IInv
<1>1. Latest \in Nat /\ Gen(Latest) \in Nat /\ doing \in [Instances -> Places]
  BY GenerationsAreNumbered DEF VersionsAreKnown
<1> DEFINE p == [mode |-> mode, gen |-> IF Latest = 0 \/ Rotates(Mode(Latest), mode)
                                        THEN Latest + 1 ELSE Gen(Latest)]
<1>2. log' = Append(log, p) /\ UNCHANGED <<marked, runtime, since, offered, lost, rows, doing>>
  BY DEF Update, redis, room
<1>3. p \in Policies
  BY <1>1 DEF Policies
<1>4. \/ p.gen = Latest + 1
      \/ /\ Latest # 0 /\ p.gen = Gen(Latest)
         /\ Namespace(p.mode) \in {"None", Namespace(Mode(Latest))}
  BY DEF Rotates
<1> HIDE DEF p
<1>5. QED
  BY <1>1, <1>2, <1>3, <1>4, AppendKeeps

\* reset() begins a generation of its own, if nobody has written since.
LEMMA ResetKeeps ==
    ASSUME IInv, NEW i \in Instances, Reset(i)
    PROVE  IInv'
<1> USE DEF IInv
<1>1. /\ UNCHANGED <<marked, runtime, since, offered, lost, rows>>
      /\ doing[i] = "reset" /\ doing' = [doing EXCEPT ![i] = "hide"]
  BY DEF Reset, Go, redis, room
<1>2. /\ doing' \in [Instances -> Places]
      /\ \A j \in Instances : doing'[j] = doing[j] \/ doing'[j] = "hide"
  BY <1>1 DEF VersionsAreKnown, Places
<1>3. CASE rows[i] = Latest
  <2> DEFINE p == [mode |-> Mode(Latest), gen |-> Latest + 1]
  <2>1. log' = Append(log, p)
    BY <1>3 DEF Reset
  <2>2. Latest \in Nat /\ Latest \in Versions
    <3>1. Serves(rows[i])
      BY <1>1 DEF RoomsAreServed
    <3>2. QED
      BY <1>3, <3>1, GenerationsAreNumbered DEF Serves
  <2>3. p \in Policies
    <3>1. log[Latest] \in Policies
      BY <2>2 DEF VersionsAreKnown, Latest, Versions
    <3>2. Mode(Latest) \in Modes
      BY <2>2, <3>1 DEF Mode, Versions, Policies
    <3>3. QED
      BY <2>2, <3>2 DEF Policies
  <2>4. p.gen = Latest + 1
    OBVIOUS
  <2> HIDE DEF p
  <2>5. QED
    BY <1>1, <1>2, <2>1, <2>3, <2>4, AppendKeeps
<1>4. CASE rows[i] # Latest
  <2>1. log' = log
    BY <1>4 DEF Reset
  <2>2. rows' \in [Instances -> 0 .. Latest] /\ offered' \subseteq Versions
        /\ since' \in [Users -> 0 .. Latest]
    BY <1>1 DEF VersionsAreKnown
  <2>3. QED
    BY <1>1, <1>2, <2>1, <2>2, QuietKeeps
<1>5. QED
  BY <1>3, <1>4

\* A refresh that finds its generation not initialized has read one that no settled
\* loss is of: those stay marked.
LEMMA ReadKeeps ==
    ASSUME IInv, NEW i \in Instances, Read(i)
    PROVE  IInv'
<1> USE DEF IInv
<1>1. /\ UNCHANGED <<log, marked, runtime, since, offered, lost>>
      /\ rows' = [rows EXCEPT ![i] = Latest]
  BY DEF Read, redis, room
<1> DEFINE place == IF Mode(Latest) = "OFF" \/ clock = "ended" THEN "hide"
                    ELSE IF marked # Gen(Latest) THEN "bootstrap" ELSE "sync"
<1>a. doing' = [doing EXCEPT ![i] = place]
  BY DEF Read, Go
<1>b. /\ place \in {"hide", "bootstrap", "sync"}
      /\ place # "hide" => Mode(Latest) # "OFF"
      /\ place = "bootstrap" => marked # Gen(Latest)
  OBVIOUS
<1> HIDE DEF place
<1>2. Latest \in Nat /\ rows \in [Instances -> 0 .. Latest] /\ doing \in [Instances -> Places]
  BY GenerationsAreNumbered DEF VersionsAreKnown
<1>3. /\ rows' \in [Instances -> 0 .. Latest] /\ doing' \in [Instances -> Places]
      /\ rows'[i] = Latest /\ doing'[i] = place
      /\ \A j \in Instances : j # i => rows'[j] = rows[j] /\ doing'[j] = doing[j]
  BY <1>1, <1>2, <1>a, <1>b DEF Places
<1>4. /\ \A v : Gen(v)' = Gen(v) /\ Mode(v)' = Mode(v) /\ Serves(v)' = Serves(v)
      /\ Latest' = Latest /\ Versions' = Versions
  BY <1>1 DEF Gen, Mode, Serves, Latest, Versions
<1>5. doing'[i] # "hide" => Serves(Latest)
  <2>1. doing'[i] # "hide" => Mode(Latest) # "OFF"
    BY <1>3, <1>b
  <2>2. Mode(Latest) # "OFF" => Latest # 0 /\ Namespace(Mode(Latest)) # "None"
    BY DEF Mode, Namespace
  <2>3. QED
    BY <1>2, <2>1, <2>2 DEF Serves, Versions
<1>6. doing'[i] = "bootstrap" => marked # Gen(Latest)
  BY <1>3, <1>b
<1>7. VersionsAreKnown'
  BY <1>1, <1>3, <1>4 DEF VersionsAreKnown, Losses
<1>8. GenerationsKeepTheirNamespace'
  BY <1>4 DEF GenerationsKeepTheirNamespace
<1>9. RoomsAreServed'
  <2>1. \A j \in Instances :
           doing'[j] \in {"sync", "bootstrap", "reset", "mark", "offer"} => Serves(rows'[j])
    BY <1>3, <1>5 DEF RoomsAreServed
  <2>2. QED
    BY <1>1, <1>4, <2>1 DEF RoomsAreServed
<1>10. MarksAreOld' /\ PlacesAreOfTheGeneration'
  BY <1>1, <1>4 DEF MarksAreOld, PlacesAreOfTheGeneration, Gen
<1>11. LossesAreOver'
  <2> SUFFICES ASSUME NEW l \in lost, l.settled
               PROVE  /\ l.gen <= marked
                      /\ runtime # 0 => l.gen < Gen(runtime)
                      /\ \A j \in Instances : doing'[j] = "bootstrap" => l.gen < Gen(rows'[j])
    BY <1>1, <1>4 DEF LossesAreOver, Gen
  <2>1. /\ l.gen <= marked
        /\ runtime # 0 => l.gen < Gen(runtime)
        /\ \A j \in Instances : doing[j] = "bootstrap" => l.gen < Gen(rows[j])
    BY DEF LossesAreOver
  <2>2. l.gen \in Nat /\ marked \in Nat /\ marked <= Gen(Latest)
    BY <1>2 DEF VersionsAreKnown, Losses, Versions, MarksAreOld
  <2>3. Gen(Latest) \in Nat
    BY <1>2, GenerationsAreNumbered
  <2>4. doing'[i] = "bootstrap" => l.gen < Gen(rows'[i])
    BY <1>3, <1>6, <2>1, <2>2, <2>3
  <2>5. QED
    BY <1>3, <2>1, <2>4
<1>12. QED
  BY <1>7, <1>8, <1>9, <1>10, <1>11

\* What is projected is no older than what Redis has, and of a generation that was
\* initialized or is being: no lost one.
LEMMA ProjectKeeps ==
    ASSUME IInv, NEW i \in Instances, doing[i] \in {"sync", "bootstrap"}, Project(i),
           UNCHANGED <<log, marked, rows, offered, lost>>,
           NEW place \in {"hide", "mark", "offer"}, doing' = [doing EXCEPT ![i] = place]
    PROVE  IInv'
<1> USE DEF IInv
<1>1. /\ \A v : Gen(v)' = Gen(v) /\ Mode(v)' = Mode(v) /\ Serves(v)' = Serves(v)
      /\ Latest' = Latest /\ Versions' = Versions
  BY DEF Gen, Mode, Serves, Latest, Versions
<1>2. /\ Latest \in Nat /\ runtime \in Nat /\ rows \in [Instances -> 0 .. Latest]
      /\ rows[i] \in Nat /\ doing \in [Instances -> Places] /\ since \in [Users -> 0 .. Latest]
  BY GenerationsAreNumbered DEF VersionsAreKnown
<1>3. /\ Serves(rows[i]) /\ rows[i] \in Versions /\ rows[i] # 0
      /\ runtime' = rows[i] /\ runtime <= rows[i]
      /\ runtime = 0 => doing[i] = "bootstrap"
  BY <1>2 DEF RoomsAreServed, Serves, Project, Stale, Missing, Versions
<1>4. /\ doing' \in [Instances -> Places]
      /\ doing'[i] = place
      /\ \A j \in Instances : j # i => doing'[j] = doing[j]
  BY <1>2 DEF Places
<1>5. \/ Gen(runtime) = Gen(rows[i]) /\ UNCHANGED since
      \/ since' = [u \in Users |-> 0]
  BY DEF Project, EmptyRoom, room
<1>6. VersionsAreKnown'
  <2>1. since' \in [Users -> 0 .. Latest]
    BY <1>2, <1>5
  <2>2. rows[i] \in 0 .. Latest
    BY <1>2
  <2>3. QED
    BY <1>1, <1>3, <1>4, <2>1, <2>2 DEF VersionsAreKnown, Losses
<1>7. GenerationsKeepTheirNamespace'
  BY <1>1 DEF GenerationsKeepTheirNamespace
<1>8. RoomsAreServed'
  <2>1. \A j \in Instances :
           doing'[j] \in {"sync", "bootstrap", "reset", "mark", "offer"} => Serves(rows[j])
    BY <1>3, <1>4 DEF RoomsAreServed
  <2>2. QED
    BY <1>1, <1>3, <2>1 DEF RoomsAreServed
<1>9. MarksAreOld'
  BY <1>1 DEF MarksAreOld, Gen
<1>10. PlacesAreOfTheGeneration'
  <2>1. \A u \in Users : since'[u] # 0 => since'[u] <= rows[i] /\ Gen(since'[u]) = Gen(rows[i])
    BY <1>2, <1>3, <1>5 DEF PlacesAreOfTheGeneration
  <2>2. \A u \in Users : Gen(since[u])' = Gen(since'[u]) /\ Gen(runtime)' = Gen(rows[i])
    BY <1>3 DEF Gen
  <2>3. QED
    BY <1>3, <2>1, <2>2 DEF PlacesAreOfTheGeneration
<1>11. LossesAreOver'
  <2> SUFFICES ASSUME NEW l \in lost, l.settled
               PROVE  /\ l.gen <= marked
                      /\ l.gen < Gen(rows[i])
                      /\ \A j \in Instances : doing'[j] = "bootstrap" => l.gen < Gen(rows[j])
    BY <1>3 DEF LossesAreOver, Gen
  <2>1. /\ l.gen <= marked
        /\ runtime # 0 => l.gen < Gen(runtime)
        /\ \A j \in Instances : doing[j] = "bootstrap" => l.gen < Gen(rows[j])
    BY DEF LossesAreOver
  <2>2. \A j \in Instances : doing'[j] = "bootstrap" => doing[j] = "bootstrap"
    BY <1>4
  <2>3. CASE runtime # 0
    <3>1. runtime \in Versions
      BY <2>3 DEF RoomsAreServed, Serves
    <3>2. Gen(runtime) <= Gen(rows[i])
      BY <1>3, <3>1 DEF GenerationsKeepTheirNamespace
    <3>3. l.gen \in Nat /\ Gen(runtime) \in Nat /\ Gen(rows[i]) \in Nat
      BY <1>3, <3>1 DEF VersionsAreKnown, Losses, Versions, GenerationsKeepTheirNamespace
    <3>4. QED
      BY <2>1, <2>2, <2>3, <3>2, <3>3
  <2>4. CASE runtime = 0
    BY <1>3, <2>1, <2>2, <2>4
  <2>5. QED
    BY <2>3, <2>4
<1>12. QED
  BY <1>6, <1>7, <1>8, <1>9, <1>10, <1>11

\* A refresh goes on with Redis: it gives up, replaces the generation, or projects it.
LEMMA SyncKeeps ==
    ASSUME IInv, NEW i \in Instances, Sync(i)
    PROVE  IInv'
<1> USE DEF IInv
<1>1. /\ doing[i] \in {"sync", "bootstrap"} /\ Serves(rows[i])
      /\ UNCHANGED <<log, marked, rows, offered, lost>>
  BY DEF Sync, Refreshing, RoomsAreServed
<1>2. CASE \/ Go(i, "hide") /\ UNCHANGED redis
           \/ Go(i, "reset") /\ UNCHANGED redis
  <2>1. PICK place \in {"hide", "reset"} : doing' = [doing EXCEPT ![i] = place]
    BY <1>2 DEF Go
  <2>2. QED
    BY <1>1, <1>2, <2>1, StandsAside
<1>3. CASE Project(i) /\ Go(i, IF doing[i] = "bootstrap" THEN "mark" ELSE "offer")
  <2>1. PICK place \in {"hide", "mark", "offer"} : doing' = [doing EXCEPT ![i] = place]
    BY <1>3 DEF Go
  <2>2. QED
    BY <1>1, <1>3, <2>1, ProjectKeeps
<1>4. QED
  BY <1>2, <1>3 DEF Sync

\* Whether the script ran or not, if its answer is not known.
LEMMA SyncUnansweredKeeps ==
    ASSUME IInv, NEW i \in Instances, SyncUnanswered(i)
    PROVE  IInv'
<1>1. /\ doing[i] \in {"sync", "bootstrap"} /\ doing' = [doing EXCEPT ![i] = "hide"]
      /\ UNCHANGED <<log, marked, rows, offered, lost>> /\ Serves(rows[i])
  BY DEF SyncUnanswered, Go, Refreshing, IInv, RoomsAreServed
<1>2. CASE Project(i)
  BY <1>1, <1>2, ProjectKeeps
<1>3. CASE UNCHANGED redis
  BY <1>1, <1>3, StandsAside
<1>4. QED
  BY <1>2, <1>3 DEF SyncUnanswered

\* What is initialized is the last generation, which is none before a lost one.
LEMMA MarkKeeps ==
    ASSUME IInv, NEW i \in Instances, Mark(i)
    PROVE  IInv'
<1> USE DEF IInv
<1>1. /\ doing[i] = "mark" /\ doing' = [doing EXCEPT ![i] = "offer"]
      /\ UNCHANGED <<log, runtime, since, rows, offered, lost>>
      /\ marked' \in {marked, Gen(Latest)}
  BY DEF Mark, Go, redis, room
<1>2. /\ \A v : Gen(v)' = Gen(v) /\ Mode(v)' = Mode(v) /\ Serves(v)' = Serves(v)
      /\ Latest' = Latest /\ Versions' = Versions
  BY <1>1 DEF Gen, Mode, Serves, Latest, Versions
<1>3. /\ Latest \in Nat /\ Gen(Latest) \in 0 .. Latest /\ marked \in 0 .. Latest
      /\ doing \in [Instances -> Places]
  BY GenerationsAreNumbered DEF VersionsAreKnown
<1>4. /\ marked' \in 0 .. Latest /\ marked <= marked' /\ marked' <= Gen(Latest)
      /\ marked \in Nat /\ marked' \in Nat
  BY <1>1, <1>3 DEF MarksAreOld
<1>5. /\ doing' \in [Instances -> Places]
      /\ doing'[i] = "offer" /\ \A j \in Instances : j # i => doing'[j] = doing[j]
  BY <1>1, <1>3 DEF Places
<1>6. VersionsAreKnown'
  BY <1>1, <1>2, <1>4, <1>5 DEF VersionsAreKnown, Losses
<1>7. GenerationsKeepTheirNamespace'
  BY <1>2 DEF GenerationsKeepTheirNamespace
<1>8. RoomsAreServed'
  <2>1. \A j \in Instances :
           doing'[j] \in {"sync", "bootstrap", "reset", "mark", "offer"} => Serves(rows[j])
    BY <1>1, <1>5 DEF RoomsAreServed
  <2>2. QED
    BY <1>1, <1>2, <2>1 DEF RoomsAreServed
<1>9. MarksAreOld'
  BY <1>1, <1>2, <1>4 DEF MarksAreOld, Gen
<1>10. PlacesAreOfTheGeneration'
  BY <1>1 DEF PlacesAreOfTheGeneration, Gen
<1>11. LossesAreOver'
  <2> SUFFICES ASSUME NEW l \in lost, l.settled
               PROVE  /\ l.gen <= marked'
                      /\ runtime # 0 => l.gen < Gen(runtime)
                      /\ \A j \in Instances : doing'[j] = "bootstrap" => l.gen < Gen(rows[j])
    BY <1>1 DEF LossesAreOver, Gen
  <2>1. l.gen \in Nat
    BY <1>3 DEF VersionsAreKnown, Losses, Versions
  <2>2. QED
    BY <1>4, <1>5, <2>1 DEF LossesAreOver
<1>12. QED
  BY <1>6, <1>7, <1>8, <1>9, <1>10, <1>11

\* A refresh ends, published or not, or with the instance.
LEMMA EndsKeep ==
    ASSUME IInv, NEW i \in Instances,
           doing' = [doing EXCEPT ![i] = "idle"], rows' = [rows EXCEPT ![i] = 0],
           UNCHANGED <<log, marked, runtime, since, lost>>,
           offered' \subseteq Versions
    PROVE  IInv'
<1> USE DEF IInv
<1>1. /\ Latest \in Nat /\ rows \in [Instances -> 0 .. Latest]
      /\ doing \in [Instances -> Places] /\ since \in [Users -> 0 .. Latest]
  BY GenerationsAreNumbered DEF VersionsAreKnown
<1>2. /\ rows' \in [Instances -> 0 .. Latest] /\ doing' \in [Instances -> Places]
      /\ \A j \in Instances :
            (doing'[j] = doing[j] /\ rows'[j] = rows[j]) \/ doing'[j] = "idle"
  BY <1>1 DEF Places
<1>3. QED
  BY <1>1, <1>2, QuietKeeps

LEMMA PublishKeeps ==
    ASSUME IInv, NEW i \in Instances, Publish(i)
    PROVE  IInv'
<1> USE DEF IInv
<1>1. /\ doing' = [doing EXCEPT ![i] = "idle"] /\ rows' = [rows EXCEPT ![i] = 0]
      /\ UNCHANGED <<log, marked, runtime, since, lost>>
      /\ offered' = offered \/ (doing[i] = "offer" /\ offered' = offered \cup {rows[i]})
  BY DEF Publish, RefreshEnds, Go, room
<1>2. doing[i] = "offer" => rows[i] \in Versions
  BY DEF RoomsAreServed, Serves
<1>3. offered' \subseteq Versions
  BY <1>1, <1>2 DEF VersionsAreKnown
<1>4. QED
  BY <1>1, <1>3, EndsKeep

\* Nothing but the places of users, or a tick, is concerned.
LEMMA PlacesKeep ==
    ASSUME IInv, UNCHANGED <<log, marked, runtime, rows, offered, lost>>,
           \/ UNCHANGED doing
           \/ \E i \in Instances : doing[i] \in {"idle", "tick"} /\
                 \E place \in {"idle", "tick"} : doing' = [doing EXCEPT ![i] = place],
           DOMAIN since' = Users /\ since' = [u \in Users |-> since'[u]],
           \A u \in Users : since'[u] \in {since[u], 0, runtime}
    PROVE  IInv'
<1> USE DEF IInv
<1>1. /\ Latest \in Nat /\ runtime \in 0 .. Latest /\ rows \in [Instances -> 0 .. Latest]
      /\ doing \in [Instances -> Places] /\ since \in [Users -> 0 .. Latest]
      /\ offered \subseteq Versions
  BY GenerationsAreNumbered DEF VersionsAreKnown
<1>2. /\ since' \in [Users -> 0 .. Latest]
      /\ \A u \in Users : since'[u] \in {since[u], 0, runtime}
  BY <1>1
<1>3. /\ doing' \in [Instances -> Places]
      /\ \A j \in Instances : doing'[j] = doing[j] \/ doing'[j] \in {"idle", "tick"}
  BY <1>1 DEF Places
<1>4. QED
  BY <1>1, <1>2, <1>3, QuietKeeps

\* The script of a tick gives up places, and makes none.
LEMMA ScriptGivesUp ==
    ASSUME NEW tokens, Script(tokens)
    PROVE  /\ since' = [u \in Users |-> since'[u]]
           /\ \A u \in Users : since'[u] \in {since[u], 0}
BY DEF Script

LEMMA TicksKeep ==
    ASSUME IInv, NEW i \in Instances,
           \/ TickBegins(i) \/ TickRefused(i) \/ TickFails(i) \/ \E n : Tick(i, n)
    PROVE  IInv'
<1> USE DEF IInv
<1>1. /\ UNCHANGED <<log, marked, runtime, rows, offered, lost>>
      /\ doing[i] \in {"idle", "tick"}
      /\ \E place \in {"idle", "tick"} : doing' = [doing EXCEPT ![i] = place]
  BY DEF TickBegins, TickRefused, TickFails, Tick, RedisUnavailable, Go, redis
<1>2. (\E tokens : Script(tokens)) \/ UNCHANGED since
  BY DEF TickBegins, TickRefused, TickFails, Tick, redis, room
<1>3. since \in [Users -> 0 .. Latest]
  BY DEF VersionsAreKnown
<1>4. /\ since' = [u \in Users |-> since'[u]]
      /\ \A u \in Users : since'[u] \in {since[u], 0, runtime}
  BY <1>2, <1>3, ScriptGivesUp
<1>5. QED
  BY <1>1, <1>4, PlacesKeep

\* Users join under the policy that Redis has, or leave.
LEMMA UsersKeep ==
    ASSUME IInv, NEW u \in Users, Join(u) \/ Leave(u) \/ Lapse(u)
    PROVE  IInv'
<1> USE DEF IInv
<1>1. UNCHANGED <<log, marked, runtime, rows, doing, offered, lost>>
  BY DEF Join, Leave, Lapse, copies
<1>2. since \in [Users -> 0 .. Latest]
  BY DEF VersionsAreKnown
<1>3. since' = since \/ \E v \in {0, runtime} : since' = [since EXCEPT ![u] = v]
  BY DEF Join, Leave, Lapse
<1>4. /\ since' = [w \in Users |-> since'[w]]
      /\ \A w \in Users : since'[w] \in {since[w], 0, runtime}
  BY <1>2, <1>3
<1>5. QED
  BY <1>1, <1>4, PlacesKeep

\* Steps that concern neither policies nor places.
LEMMA OthersKeep ==
    ASSUME IInv,
           \/ \E i \in Instances : Invalidate(i) \/ Unschedule(i) \/ Pause(i)
           \/ ClockTicks \/ PauseEnds
    PROVE  IInv'
<1>1. UNCHANGED <<log, marked, runtime, rows, doing, offered, lost, since>>
  BY DEF Invalidate, Unschedule, Pause, ClockTicks, PauseEnds, copies, redis, room
<1>2. since \in [Users -> 0 .. Latest]
  BY DEF IInv, VersionsAreKnown
<1>3. QED
  BY <1>1, <1>2, PlacesKeep

\* With the data of Redis all places are gone; if the loss is settled, the generation is
\* marked, and no refresh is to initialize it.
LEMMA LossKeeps ==
    ASSUME IInv, RedisLosesItsData
    PROVE  IInv'
<1> USE DEF IInv
<1> DEFINE l == [gen |-> Gen(runtime), settled |-> Settled,
                 taken |-> \E u \in Users : Joined(u) \/ Admitted(u)]
<1>1. /\ UNCHANGED <<log, marked, rows, doing, offered>>
      /\ runtime # 0 /\ runtime' = 0 /\ since' = [u \in Users |-> 0]
      /\ lost' = lost \cup {l}
  BY DEF RedisLosesItsData, EmptyRoom, copies
<1>2. Settled \in BOOLEAN /\ (\E u \in Users : Joined(u) \/ Admitted(u)) \in BOOLEAN
  BY DEF Settled
<1>3. /\ l.gen = Gen(runtime) /\ l.settled = Settled
      /\ l = [gen |-> l.gen, settled |-> l.settled, taken |-> l.taken]
      /\ l.settled \in BOOLEAN /\ l.taken \in BOOLEAN
  BY <1>2
<1> HIDE DEF l
<1>4. /\ \A v : Gen(v)' = Gen(v) /\ Mode(v)' = Mode(v) /\ Serves(v)' = Serves(v)
      /\ Latest' = Latest /\ Versions' = Versions
  BY <1>1 DEF Gen, Mode, Serves, Latest, Versions
<1>5. Latest \in Nat /\ runtime \in Versions /\ Gen(runtime) \in Versions
  <2>1. Latest \in Nat /\ runtime \in Versions
    BY <1>1, GenerationsAreNumbered DEF RoomsAreServed, Serves
  <2>2. QED
    BY <2>1 DEF GenerationsKeepTheirNamespace, Versions
<1>6. VersionsAreKnown'
  <2>1. l \in Losses
    BY <1>3, <1>5 DEF Losses
  <2>2. since' \in [Users -> 0 .. Latest] /\ runtime' \in 0 .. Latest
    BY <1>1, <1>5
  <2>3. QED
    BY <1>1, <1>4, <2>1, <2>2 DEF VersionsAreKnown, Losses
<1>7. GenerationsKeepTheirNamespace'
  BY <1>4 DEF GenerationsKeepTheirNamespace
<1>8. RoomsAreServed'
  BY <1>1, <1>4 DEF RoomsAreServed
<1>9. MarksAreOld' /\ PlacesAreOfTheGeneration'
  BY <1>1, <1>4 DEF MarksAreOld, PlacesAreOfTheGeneration, Gen
<1>10. LossesAreOver'
  <2> SUFFICES ASSUME NEW m \in lost', m.settled
               PROVE  /\ m.gen <= marked
                      /\ \A i \in Instances : doing[i] = "bootstrap" => m.gen < Gen(rows[i])
    BY <1>1 DEF LossesAreOver, Gen
  <2>1. CASE m \in lost
    BY <2>1 DEF LossesAreOver
  <2>2. CASE m = l
    <3>1. marked = m.gen /\ \A i \in Instances : doing[i] # "bootstrap"
      BY <1>3, <2>2 DEF Settled
    <3>2. m.gen \in Nat
      BY <1>3, <1>5, <2>2 DEF Versions
    <3>3. QED
      BY <3>1, <3>2
  <2>3. QED
    BY <1>1, <2>1, <2>2
<1>11. QED
  BY <1>6, <1>7, <1>8, <1>9, <1>10

LEMMA NextKeeps ==
    ASSUME IInv, [Next]_vars
    PROVE  IInv'
<1>1. CASE UNCHANGED vars
  <2>1. UNCHANGED <<log, marked, runtime, rows, doing, offered, lost, since>>
    BY <1>1 DEF vars, redis, room, copies
  <2>2. since \in [Users -> 0 .. Latest]
    BY DEF IInv, VersionsAreKnown
  <2>3. QED
    BY <2>1, <2>2, PlacesKeep
<1>2. ASSUME NEW i \in Instances, Read(i)
      PROVE  IInv'
  BY <1>2, ReadKeeps
<1>3. ASSUME NEW i \in Instances, GoesOn(i)
      PROVE  IInv'
  <2>1. CASE Sync(i)
    BY <2>1, SyncKeeps
  <2>2. CASE Reset(i)
    BY <2>2, ResetKeeps
  <2>3. CASE Mark(i)
    BY <2>3, MarkKeeps
  <2>4. CASE Publish(i)
    BY <2>4, PublishKeeps
  <2>5. CASE LetsIn(i) \/ Tick(i, 0) \/ TickRefused(i)
    <3>1. TickRefused(i) \/ \E n : Tick(i, n)
      BY <2>5 DEF LetsIn
    <3>2. QED
      BY <3>1, TicksKeep
  <2>6. QED
    BY <1>3, <2>1, <2>2, <2>3, <2>4, <2>5 DEF GoesOn
<1>4. ASSUME NEW i \in Instances, RefreshFails(i) \/ Crash(i)
      PROVE  IInv'
  <2>1. /\ doing' = [doing EXCEPT ![i] = "idle"] /\ rows' = [rows EXCEPT ![i] = 0]
        /\ UNCHANGED <<log, marked, runtime, since, lost, offered>>
    BY <1>4 DEF RefreshFails, Crash, RefreshEnds, Go, redis, room
  <2>2. offered' \subseteq Versions
    BY <2>1 DEF IInv, VersionsAreKnown
  <2>3. QED
    BY <2>1, <2>2, EndsKeep
<1>5. ASSUME NEW i \in Instances, SyncUnanswered(i)
      PROVE  IInv'
  BY <1>5, SyncUnansweredKeeps
<1>6. ASSUME NEW i \in Instances, TickBegins(i) \/ TickFails(i)
      PROVE  IInv'
  BY <1>6, TicksKeep
<1>7. ASSUME NEW i \in Instances, NEW mode \in Modes, Update(i, mode)
      PROVE  IInv'
  BY <1>7, UpdateKeeps
<1>8. ASSUME NEW i \in Instances, Invalidate(i) \/ Unschedule(i) \/ Pause(i)
      PROVE  IInv'
  BY <1>8, OthersKeep
<1>9. CASE ClockTicks \/ PauseEnds
  BY <1>9, OthersKeep
<1>10. ASSUME NEW u \in Users, Join(u) \/ Leave(u) \/ Lapse(u)
       PROVE  IInv'
  BY <1>10, UsersKeep
<1>11. CASE RedisLosesItsData
  BY <1>11, LossKeeps
<1>12. QED
  BY <1>1, <1>2, <1>3, <1>4, <1>5, <1>6, <1>7, <1>8, <1>9, <1>10, <1>11 DEF Next

-----------------------------------------------------------------------------
\* Places are never of another namespace than the one that is served: what Redis has is
\* of their generation, which has kept its namespace from the version they were taken
\* under (sync in waiting_room.lua, rotatesGeneration).
LEMMA PlacesKeepTheirNamespace == IInv => NamespacesApart
<1> SUFFICES ASSUME IInv, NEW u \in Users, since[u] # 0
             PROVE  \A v \in since[u] .. runtime : Namespace(Mode(v)) = Namespace(Mode(runtime))
  BY DEF NamespacesApart
<1> USE DEF IInv
<1>1. since[u] \in Versions /\ since[u] <= runtime /\ Gen(since[u]) = Gen(runtime)
  <2>1. since[u] \in 0 .. Latest /\ Latest \in Nat
    BY GenerationsAreNumbered DEF VersionsAreKnown
  <2>2. QED
    BY <2>1 DEF PlacesAreOfTheGeneration, Versions
<1>2. Serves(runtime)
  <2>1. runtime \in Nat
    BY GenerationsAreNumbered DEF VersionsAreKnown
  <2>2. runtime # 0
    BY <1>1, <2>1, GenerationsAreNumbered DEF Versions
  <2>3. QED
    BY <2>2 DEF RoomsAreServed
<1>3. QED
  BY <1>1, <1>2 DEF GenerationsKeepTheirNamespace, Serves

\* After a loss nobody is let in by the generation that was lost (Missing, reset).
LEMMA LossesAreNoticed == IInv => SettledLossIsNoticed
<1> SUFFICES ASSUME IInv, NEW l \in lost, runtime # 0, l.settled
             PROVE  Gen(runtime) # l.gen
  BY DEF SettledLossIsNoticed
<1>1. l.gen < Gen(runtime)
  BY DEF IInv, LossesAreOver
<1>2. l.gen \in Nat /\ Gen(runtime) \in Nat
  BY GenerationsAreNumbered DEF IInv, VersionsAreKnown, Losses, RoomsAreServed, Serves, Versions
<1>3. QED
  BY <1>1, <1>2

THEOREM InvCorrect == Spec => []IInv
<1>1. Init => IInv
  BY InitInv
<1>2. IInv /\ [Next]_vars => IInv'
  BY NextKeeps
<1>3. QED
  BY <1>1, <1>2, PTL DEF Spec

THEOREM NamespacesApartCorrect == Spec => []NamespacesApart
BY InvCorrect, PlacesKeepTheirNamespace, PTL

THEOREM SettledLossIsNoticedCorrect == Spec => []SettledLossIsNoticed
BY InvCorrect, LossesAreNoticed, PTL

-----------------------------------------------------------------------------
(* Ranks, and what they make of queues.                                    *)

\* A set of numbers has a least one.
LEMMA Least ==
    ASSUME NEW T, T \subseteq Nat, T # {}
    PROVE  \E x \in T : \A y \in T : x <= y
<1>1. IsWellFoundedOn(OpToRel(<, Nat), Nat)
  BY NatLessThanWellFounded, Zenon
<1>2. \A x, y \in Nat : x < y => <<x, y>> \in OpToRel(<, Nat)
  BY DEF OpToRel
<1>3. PICK R : /\ IsWellFoundedOn(R, Nat)
               /\ \A x, y \in Nat : x < y => <<x, y>> \in R
  BY <1>1, <1>2, Zenon
<1>4. PICK x \in T : \A y \in T : ~(<<y, x>> \in R)
  <2>1. IsWellFoundedOn(R, Nat)
    BY <1>3
  <2>2. QED
    BY <2>1, WFMin, Zenon
<1>5. ASSUME NEW y \in T PROVE x <= y
  <2>1. x \in Nat /\ y \in Nat
    OBVIOUS
  <2>2. ~(y < x)
    BY <1>3, <1>4, <2>1
  <2>3. QED
    BY <2>1, <2>2
<1>6. QED
  BY <1>5

\* And one that is bounded has a greatest.
LEMMA Greatest ==
    ASSUME NEW T, NEW n \in Nat, T \subseteq 0 .. n, T # {}
    PROVE  \E x \in T : \A y \in T : y <= x
<1> DEFINE U == {n - y : y \in T}
<1>1. \A y \in T : y \in Nat /\ n - y \in Nat
  OBVIOUS
<1>2. U \subseteq Nat
  BY <1>1
<1>3. U # {}
  OBVIOUS
<1>4. \A y \in T : n - y \in U
  OBVIOUS
<1>5. \A x \in U : \E y \in T : x = n - y
  OBVIOUS
<1> HIDE DEF U
<1>6. PICK x \in U : \A y \in U : x <= y
  BY <1>2, <1>3, Least
<1>7. PICK z \in T : x = n - z
  BY <1>5
<1>8. \A y \in T : n - z <= n - y
  BY <1>4, <1>6, <1>7
<1>9. \A y \in T : y <= z
  BY <1>1, <1>8
<1>10. QED
  BY <1>9

\* The ranks of a finite set of numbers count it up in its order.
LEMMA Ranked ==
    ASSUME NEW S, S \subseteq Nat, IsFiniteSet(S)
    PROVE  /\ Cardinality(S) \in Nat
           /\ \A n \in 1 .. Cardinality(S) : Nth(S, n) \in S
           /\ \A m, n \in 1 .. Cardinality(S) : m < n => Nth(S, m) < Nth(S, n)
           /\ \A x \in S : \E n \in 1 .. Cardinality(S) : x = Nth(S, n)
<1> DEFINE below(x) == {y \in S : y <= x}
           r == [x \in S |-> Cardinality(below(x))]
<1>1. Cardinality(S) \in Nat
  BY FS_CardinalityType
<1>2. PICK N \in Nat : N = Cardinality(S)
  BY <1>1
<1>3. ASSUME NEW x \in S
      PROVE  /\ below(x) \subseteq S /\ x \in below(x) /\ IsFiniteSet(below(x))
             /\ r[x] = Cardinality(below(x)) /\ r[x] \in 1 .. N
  <2>1. below(x) \subseteq S /\ x \in below(x)
    OBVIOUS
  <2>2. IsFiniteSet(below(x)) /\ Cardinality(below(x)) <= N
    BY <1>2, <2>1, FS_Subset
  <2>3. Cardinality(below(x)) \in Nat
    BY <2>2, FS_CardinalityType
  <2>4. Cardinality(below(x)) # 0
    BY <2>1, <2>2, FS_EmptySet
  <2>5. QED
    BY <2>1, <2>2, <2>3, <2>4
<1>4. ASSUME NEW x \in S, NEW y \in S, x < y
      PROVE  r[x] < r[y]
  <2>1. \A z \in S : z \in Nat
    OBVIOUS
  <2>2. x \in Nat /\ y \in Nat /\ ~(y <= x) /\ y <= y
    BY <1>4, <2>1
  <2>3. \A z \in S : z <= x => z <= y
    BY <1>4, <2>1
  <2>4. below(x) \subseteq below(y) /\ y \notin below(x) /\ y \in below(y)
    BY <2>2, <2>3
  <2>5. below(x) # below(y) /\ below(x) \in SUBSET below(y)
    BY <2>4
  <2>6. IsFiniteSet(below(y))
    BY <1>3
  <2>7. Cardinality(below(x)) <= Cardinality(below(y)) /\ Cardinality(below(x)) # Cardinality(below(y))
    BY <2>5, <2>6, FS_Subset
  <2>8. QED
    BY <1>3, <2>7
<1>5. r \in [S -> 1 .. N] /\ \A x, y \in S : r[x] = r[y] => x = y
  <2>1. r \in [S -> 1 .. N]
    BY <1>3
  <2>2. \A x, y \in S : x < y => r[x] < r[y]
    BY <1>4
  <2> HIDE DEF r
  <2>3. QED
    BY <2>1, <2>2
<1>6. \A n \in 1 .. N : \E x \in S : r[x] = n
  <2>1. r \in Injection(S, 1 .. N)
    BY <1>5 DEF Injection, IsInjective
  <2>2. IsFiniteSet(1 .. N) /\ Cardinality(1 .. N) = N
    BY FS_Interval
  <2>3. r \in Surjection(S, 1 .. N)
    BY <1>2, <2>1, <2>2, FS_Injection
  <2>4. QED
    BY <2>3 DEF Surjection
<1>7. ASSUME NEW n \in 1 .. N
      PROVE  Nth(S, n) \in S /\ r[Nth(S, n)] = n
  <2>1. \E x \in S : Cardinality(below(x)) = n
    BY <1>3, <1>6
  <2>2. Nth(S, n) \in S /\ Cardinality(below(Nth(S, n))) = n
    BY <2>1 DEF Nth
  <2>3. QED
    BY <1>3, <2>2
<1>8. \A x, y \in S : x < y => r[x] < r[y]
  BY <1>4
<1> HIDE DEF r
<1>9. \A m, n \in 1 .. N : m < n => Nth(S, m) < Nth(S, n)
  <2> SUFFICES ASSUME NEW m \in 1 .. N, NEW n \in 1 .. N, m < n, ~(Nth(S, m) < Nth(S, n))
               PROVE  FALSE
    OBVIOUS
  <2>1. Nth(S, m) \in S /\ Nth(S, n) \in S /\ r[Nth(S, m)] = m /\ r[Nth(S, n)] = n
    BY <1>7
  <2>2. PICK a \in S, b \in S : a = Nth(S, m) /\ b = Nth(S, n) /\ r[a] = m /\ r[b] = n
    BY <2>1
  <2>3. a \in Nat /\ b \in Nat /\ ~(a < b)
    BY <2>2
  <2>4. b < a \/ a = b
    BY <2>3
  <2>5. m \in Nat /\ n \in Nat /\ ~(n < m) /\ m # n
    BY <1>2
  <2>6. ~(b < a)
    BY <1>8, <2>2, <2>5
  <2>7. a # b
    BY <2>2, <2>5
  <2>8. QED
    BY <2>4, <2>6, <2>7
<1>10. \A x \in S : \E n \in 1 .. N : x = Nth(S, n)
  BY <1>5, <1>7
<1>11. QED
  BY <1>1, <1>2, <1>7, <1>9, <1>10

\* What is left of a queue is the queue, in its order, but for who is gone.
LEMMA WithoutKeepsOrder ==
    ASSUME NEW S, NEW q \in Seq(S), NEW gone, NEW w, w = Without(q, gone)
    PROVE  /\ w \in Seq(S)
           /\ \E h \in [1 .. Len(w) -> 1 .. Len(q)] :
                 /\ \A n \in 1 .. Len(w) : w[n] = q[h[n]] /\ q[h[n]] \notin gone
                 /\ \A m, n \in 1 .. Len(w) : m < n => h[m] < h[n]
                 /\ \A k \in 1 .. Len(q) : q[k] \notin gone => \E n \in 1 .. Len(w) : h[n] = k
<1> DEFINE kept == {m \in DOMAIN q : q[m] \notin gone}
           h == [n \in 1 .. Cardinality(kept) |-> Nth(kept, n)]
<1>1. DOMAIN q = 1 .. Len(q) /\ Len(q) \in Nat
  OBVIOUS
<1>2. kept \subseteq Nat /\ kept \subseteq 1 .. Len(q) /\ IsFiniteSet(kept)
  <2>1. kept \subseteq 1 .. Len(q)
    BY <1>1
  <2>2. IsFiniteSet(1 .. Len(q))
    BY <1>1, FS_Interval
  <2>3. QED
    BY <1>1, <2>1, <2>2, FS_Subset
<1>3. w = [n \in 1 .. Cardinality(kept) |-> q[Nth(kept, n)]]
  BY DEF Without
<1>4. /\ Cardinality(kept) \in Nat
      /\ \A n \in 1 .. Cardinality(kept) : Nth(kept, n) \in kept
      /\ \A m, n \in 1 .. Cardinality(kept) : m < n => Nth(kept, m) < Nth(kept, n)
      /\ \A x \in kept : \E n \in 1 .. Cardinality(kept) : x = Nth(kept, n)
  <2> HIDE DEF kept
  <2>1. QED
    BY <1>2, Ranked
<1>5. \A k \in 1 .. Len(q) : k \in kept <=> q[k] \notin gone
  BY <1>1
<1> HIDE DEF kept
<1>6. \A n \in 1 .. Cardinality(kept) : q[Nth(kept, n)] \in S
  <2>1. \A k \in 1 .. Len(q) : q[k] \in S
    BY <1>1
  <2>2. QED
    BY <1>2, <1>4, <2>1
<1>7. w \in Seq(S) /\ Len(w) = Cardinality(kept)
  BY <1>3, <1>4, <1>6
<1>8. h \in [1 .. Len(w) -> 1 .. Len(q)]
  BY <1>2, <1>4, <1>7
<1>9. /\ \A n \in 1 .. Len(w) : w[n] = q[h[n]] /\ q[h[n]] \notin gone
      /\ \A m, n \in 1 .. Len(w) : m < n => h[m] < h[n]
  BY <1>2, <1>3, <1>4, <1>5, <1>7
<1>10. \A k \in 1 .. Len(q) : q[k] \notin gone => \E n \in 1 .. Len(w) : h[n] = k
  BY <1>4, <1>5, <1>7
<1> HIDE DEF h
<1>11. QED
  BY <1>7, <1>8, <1>9, <1>10

-----------------------------------------------------------------------------
(* The inductive invariant of the queue.                                   *)

\* Nobody has two places, and the states of the users are such.
QueueIsKnown ==
    /\ prequeue \subseteq Users /\ waiting \in Seq(Users)
    /\ \A m, n \in DOMAIN waiting : waiting[m] = waiting[n] => m = n
    /\ \A m \in DOMAIN waiting : waiting[m] \notin prequeue
    /\ presence \in [Users -> States] /\ lease \in [Users -> States]

\* Whoever is in the queue is not let in, and was not.
QueuedHaveNoLease == \A u \in Users : Queued(u) => lease[u] = "none"

RoomIsOrderly == QueueIsKnown /\ QueuedHaveNoLease

\* Redis has, or has lost, a generation as late as this one.
Reached(g) == g <= Gen(runtime) \/ \E l \in lost : g <= l.gen

\* No loss is of a generation to come.
LossesAreOld == \A l \in lost : l.gen <= Gen(Latest)

\* What is initialized, or is about to be, was in Redis; a generation is replaced only
\* if one as late as that was lost.
MarksAreReached ==
    /\ Reached(marked)
    /\ \A i \in Instances :
          /\ doing[i] = "sync" => Gen(rows[i]) <= marked
          /\ doing[i] = "mark" => Reached(Gen(rows[i]))
          /\ doing[i] = "reset" => \E l \in lost : Gen(rows[i]) <= l.gen

\* A version begins a generation for its namespace, or for a loss.
GenerationsHaveACause ==
    \A v, w \in Versions : w = v + 1 =>
        \/ Gen(w) = Gen(v)
        \/ Namespace(Mode(w)) # Namespace(Mode(v))
        \/ \E l \in lost : l.gen = Gen(v)

CausesAreKnown == LossesAreOld /\ MarksAreReached /\ GenerationsHaveACause

QueueInv == RoomIsOrderly /\ CausesAreKnown

-----------------------------------------------------------------------------
(* The places of the users.                                                *)

\* What is left of a queue in which nobody has two places.
LEMMA WithoutKeepsMembers ==
    ASSUME NEW S, NEW q \in Seq(S), NEW gone,
           \A m, n \in DOMAIN q : q[m] = q[n] => m = n
    PROVE  /\ Without(q, gone) \in Seq(S)
           /\ \A m, n \in DOMAIN Without(q, gone) :
                 Without(q, gone)[m] = Without(q, gone)[n] => m = n
           /\ \A u : (\E m \in DOMAIN Without(q, gone) : Without(q, gone)[m] = u)
                     <=> u \notin gone /\ \E m \in DOMAIN q : q[m] = u
<1> DEFINE w == Without(q, gone)
<1> HIDE DEF w
<1>1. w \in Seq(S) /\ DOMAIN w = 1 .. Len(w) /\ DOMAIN q = 1 .. Len(q) /\ Len(w) \in Nat
  <2>1. w \in Seq(S)
    BY WithoutKeepsOrder DEF w
  <2>2. QED
    BY <2>1
<1>2. PICK h \in [1 .. Len(w) -> 1 .. Len(q)] :
         /\ \A n \in 1 .. Len(w) : w[n] = q[h[n]] /\ q[h[n]] \notin gone
         /\ \A m, n \in 1 .. Len(w) : m < n => h[m] < h[n]
         /\ \A k \in 1 .. Len(q) : q[k] \notin gone => \E n \in 1 .. Len(w) : h[n] = k
  BY WithoutKeepsOrder DEF w
<1>3. ASSUME NEW m \in 1 .. Len(w), NEW n \in 1 .. Len(w), w[m] = w[n]
      PROVE  m = n
  <2>1. h[m] \in 1 .. Len(q) /\ h[n] \in 1 .. Len(q)
    BY <1>2
  <2>2. h[m] = h[n]
    BY <1>1, <1>2, <1>3, <2>1
  <2>3. ~(h[m] < h[n]) /\ ~(h[n] < h[m])
    BY <2>1, <2>2
  <2>4. ~(m < n) /\ ~(n < m)
    BY <1>2, <2>3
  <2>5. QED
    BY <2>4
<1>4. ASSUME NEW u
      PROVE  (\E m \in 1 .. Len(w) : w[m] = u) <=> u \notin gone /\ \E m \in 1 .. Len(q) : q[m] = u
  <2>1. ASSUME NEW m \in 1 .. Len(w), w[m] = u
        PROVE  u \notin gone /\ \E k \in 1 .. Len(q) : q[k] = u
    BY <1>2, <2>1
  <2>2. ASSUME NEW k \in 1 .. Len(q), q[k] = u, u \notin gone
        PROVE  \E m \in 1 .. Len(w) : w[m] = u
    BY <1>2, <2>2
  <2>3. QED
    BY <2>1, <2>2
<1>5. QED
  BY <1>1, <1>3, <1>4 DEF w

LEMMA QueuedMeans ==
    ASSUME NEW u
    PROVE  Queued(u) <=> u \in prequeue \/ \E m \in DOMAIN waiting : waiting[m] = u
BY DEF Queued, ToSet

\* Those who are gone from the queue may have a lease, the others have none before or
\* after.
LEMMA DropKeeps ==
    ASSUME RoomIsOrderly, NEW gone, Drop(gone, prequeue, waiting),
           presence' \in [Users -> States], lease' \in [Users -> States],
           \A u \in Users : u \notin gone => lease'[u] = lease[u]
    PROVE  /\ RoomIsOrderly'
           /\ \A u \in Users : Queued(u)' <=> Queued(u) /\ u \notin gone
<1> USE DEF RoomIsOrderly, QueueIsKnown
<1>1. prequeue' = prequeue \ gone /\ waiting' = Without(waiting, gone)
  BY DEF Drop
<1>2. /\ waiting' \in Seq(Users)
      /\ \A m, n \in DOMAIN waiting' : waiting'[m] = waiting'[n] => m = n
      /\ \A u : (\E m \in DOMAIN waiting' : waiting'[m] = u)
                <=> u \notin gone /\ \E m \in DOMAIN waiting : waiting[m] = u
  <2>1. PICK q \in Seq(Users) : q = waiting
    OBVIOUS
  <2>2. \A m, n \in DOMAIN q : q[m] = q[n] => m = n
    BY <2>1
  <2>3. /\ Without(q, gone) \in Seq(Users)
        /\ \A m, n \in DOMAIN Without(q, gone) :
              Without(q, gone)[m] = Without(q, gone)[n] => m = n
        /\ \A u : (\E m \in DOMAIN Without(q, gone) : Without(q, gone)[m] = u)
                  <=> u \notin gone /\ \E m \in DOMAIN q : q[m] = u
    BY <2>2, WithoutKeepsMembers
  <2>4. waiting' = Without(q, gone)
    BY <1>1, <2>1
  <2>5. PICK w : w = waiting' /\ w = Without(q, gone)
    BY <2>4
  <2>6. /\ w \in Seq(Users)
        /\ \A m, n \in DOMAIN w : w[m] = w[n] => m = n
        /\ \A u : (\E m \in DOMAIN w : w[m] = u)
                  <=> u \notin gone /\ \E m \in DOMAIN q : q[m] = u
    BY ONLY <2>3, <2>5
  <2>7. QED
    BY ONLY <2>1, <2>5, <2>6
<1>3. \A m \in DOMAIN waiting' : waiting'[m] \notin prequeue'
  BY <1>1, <1>2
<1>4. \A u \in Users : Queued(u)' <=> Queued(u) /\ u \notin gone
  BY <1>1, <1>2 DEF Queued, ToSet
<1>5. QueuedHaveNoLease'
  BY <1>4 DEF QueuedHaveNoLease
<1>6. QED
  BY <1>1, <1>2, <1>3, <1>4, <1>5

LEMMA RoomStays == ASSUME RoomIsOrderly, UNCHANGED <<prequeue, waiting, presence, lease>>
                   PROVE  RoomIsOrderly'
BY DEF RoomIsOrderly, QueueIsKnown, QueuedHaveNoLease, Queued

LEMMA EmptyRoomIsOrderly == ASSUME EmptyRoom PROVE RoomIsOrderly'
<1>1. /\ prequeue' = {} /\ waiting' = <<>> /\ waiting' \in Seq(Users) /\ DOMAIN waiting' = {}
      /\ presence' \in [Users -> States] /\ lease' \in [Users -> States]
      /\ \A u \in Users : lease'[u] = "none"
  BY DEF EmptyRoom, States
<1>2. QueueIsKnown'
  BY <1>1 DEF QueueIsKnown
<1>3. QED
  BY <1>1, <1>2 DEF QueuedHaveNoLease, RoomIsOrderly

\* What the script of a tick does about those whose places have lapsed, those it looks
\* at, and those among them that it lets in.
Living(dead) == {u \in Users \ dead : presence[u] = "alive"}

Holding(dead) == {u \in Users \ dead : lease[u] # "none"}

Seen(dead, tokens) ==
    IF Releasing
    THEN LookedAt(Without(Line(prequeue, waiting), dead), Living(dead), Holding(dead), tokens)
    ELSE {}

LetIn(gone, in) ==
    /\ Drop(gone, prequeue, waiting)
    /\ presence' = [u \in Users |-> IF u \in gone THEN "none" ELSE presence[u]]
    /\ lease' = [u \in Users |-> CASE u \in in -> "alive"
                                   [] u \in gone \ in -> "none"
                                   [] OTHER -> lease[u]]

LEMMA ScriptMeans ==
    ASSUME NEW tokens, Script(tokens)
    PROVE  \E p \in Some(Lapsed(presence)), l \in Some(Lapsed(lease)) :
              LetIn((p \cup l) \cup Seen(p \cup l, tokens), Seen(p \cup l, tokens) \cap Living(p \cup l))
<1>1. PICK p \in Some(Lapsed(presence)), l \in Some(Lapsed(lease)) :
         LET dead == p \cup l
             line == Without(Line(prequeue, waiting), dead)
             alive == {u \in Users \ dead : presence[u] = "alive"}
             active == {u \in Users \ dead : lease[u] # "none"}
             seen == IF Releasing THEN LookedAt(line, alive, active, tokens) ELSE {}
             in == seen \cap alive
         IN /\ Drop(dead \cup seen, prequeue, waiting)
            /\ presence' = [u \in Users |-> IF u \in dead \cup seen THEN "none" ELSE presence[u]]
            /\ lease' = [u \in Users |-> CASE u \in in -> "alive"
                                           [] u \in (dead \cup seen) \ in -> "none"
                                           [] OTHER -> lease[u]]
  BY Zenon DEF Script
<1>2. LetIn((p \cup l) \cup Seen(p \cup l, tokens), Seen(p \cup l, tokens) \cap Living(p \cup l))
  BY <1>1, Zenon DEF LetIn, Seen, Living, Holding
<1>3. QED
  BY <1>2

\* What letting in makes of each user.
LEMMA LetInMeans ==
    ASSUME RoomIsOrderly, NEW gone, NEW in, in \subseteq gone, LetIn(gone, in)
    PROVE  /\ RoomIsOrderly'
           /\ \A u \in Users :
                 /\ Queued(u)' <=> Queued(u) /\ u \notin gone
                 /\ presence'[u] = IF u \in gone THEN "none" ELSE presence[u]
                 /\ lease'[u] = IF u \in in THEN "alive" ELSE IF u \in gone THEN "none" ELSE lease[u]
<1>1. presence \in [Users -> States] /\ lease \in [Users -> States]
  BY DEF RoomIsOrderly, QueueIsKnown
<1>2. /\ Drop(gone, prequeue, waiting)
      /\ presence' = [u \in Users |-> IF u \in gone THEN "none" ELSE presence[u]]
      /\ lease' = [u \in Users |-> CASE u \in in -> "alive" [] u \in gone \ in -> "none"
                                     [] OTHER -> lease[u]]
  BY DEF LetIn
<1>3. presence' \in [Users -> States]
  BY <1>1, <1>2 DEF States
<1>4. \A u \in Users :
         lease'[u] = IF u \in in THEN "alive" ELSE IF u \in gone THEN "none" ELSE lease[u]
  BY <1>2
<1>5. lease' = [u \in Users |-> lease'[u]]
  BY <1>2
<1>6. \A u \in Users : lease'[u] \in States
  BY <1>1, <1>4 DEF States
<1>7. lease' \in [Users -> States]
  BY <1>5, <1>6
<1>8. \A u \in Users : u \notin gone => lease'[u] = lease[u]
  BY <1>4
<1>9. QED
  BY <1>2, <1>3, <1>4, <1>7, <1>8, DropKeeps

LEMMA ScriptIsOrderly ==
    ASSUME RoomIsOrderly, NEW tokens, Script(tokens)
    PROVE  RoomIsOrderly'
<1>1. PICK p, l : LetIn((p \cup l) \cup Seen(p \cup l, tokens),
                        Seen(p \cup l, tokens) \cap Living(p \cup l))
  BY ScriptMeans
<1>2. QED
  BY <1>1, LetInMeans

LEMMA JoinIsOrderly ==
    ASSUME RoomIsOrderly, NEW u \in Users, Join(u)
    PROVE  /\ RoomIsOrderly'
           /\ \A w \in Users : w # u /\ Joined(w) => Joined(w)'
<1> USE DEF RoomIsOrderly, QueueIsKnown
<1> DEFINE wait == Without(waiting, {u})
<1> HIDE DEF wait
<1>1. /\ wait \in Seq(Users)
      /\ \A m, n \in DOMAIN wait : wait[m] = wait[n] => m = n
      /\ \A w : (\E m \in DOMAIN wait : wait[m] = w)
                <=> w \notin {u} /\ \E m \in DOMAIN waiting : waiting[m] = w
  BY WithoutKeepsMembers, Zenon DEF wait
<1>2. /\ \/ prequeue' = prequeue \cup {u} /\ waiting' = wait
         \/ prequeue' = prequeue \ {u} /\ waiting' = Append(wait, u)
      /\ presence' = [presence EXCEPT ![u] = "alive"]
      /\ lease' = [lease EXCEPT ![u] = "none"]
  BY DEF Join, wait
<1>3. Len(Append(wait, u)) = Len(wait) + 1 /\ Append(wait, u)[Len(wait) + 1] = u
  BY <1>1
<1>4. /\ DOMAIN Append(wait, u) = 1 .. Len(wait) + 1 /\ DOMAIN wait = 1 .. Len(wait)
      /\ Len(wait) \in Nat
      /\ \A m \in 1 .. Len(wait) : Append(wait, u)[m] = wait[m]
  BY <1>1
<1>5. \A m \in DOMAIN wait : wait[m] # u
  BY <1>1
<1>6. /\ waiting' \in Seq(Users)
      /\ \A m, n \in DOMAIN waiting' : waiting'[m] = waiting'[n] => m = n
  <2>1. CASE waiting' = wait
    BY <1>1, <2>1
  <2>2. CASE waiting' = Append(wait, u)
    <3>1. waiting' \in Seq(Users)
      BY <1>1, <2>2
    <3>2. ASSUME NEW m \in 1 .. Len(wait) + 1, NEW n \in 1 .. Len(wait) + 1,
                 Append(wait, u)[m] = Append(wait, u)[n]
          PROVE  m = n
      <4>1. (m \in 1 .. Len(wait) \/ m = Len(wait) + 1) /\ (n \in 1 .. Len(wait) \/ n = Len(wait) + 1)
        BY <1>4
      <4>2. QED
        BY <1>1, <1>3, <1>4, <1>5, <3>2, <4>1
    <3>3. QED
      BY <1>4, <2>2, <3>1, <3>2
  <2>3. QED
    BY <1>2, <2>1, <2>2
<1>7. \A w : (\E m \in DOMAIN Append(wait, u) : Append(wait, u)[m] = w)
             <=> w = u \/ \E m \in DOMAIN wait : wait[m] = w
  BY <1>3, <1>4
<1>8. \A w : w # u => (w \in prequeue' <=> w \in prequeue)
                      /\ ((\E m \in DOMAIN waiting' : waiting'[m] = w)
                          <=> (\E m \in DOMAIN waiting : waiting[m] = w))
  <2> SUFFICES ASSUME NEW w, w # u
               PROVE  /\ w \in prequeue' <=> w \in prequeue
                      /\ (\E m \in DOMAIN waiting' : waiting'[m] = w)
                         <=> (\E m \in DOMAIN waiting : waiting[m] = w)
    OBVIOUS
  <2>1. w \in prequeue' <=> w \in prequeue
    BY <1>2
  <2>2. (\E m \in DOMAIN wait : wait[m] = w) <=> (\E m \in DOMAIN waiting : waiting[m] = w)
    BY <1>1
  <2>3. (\E m \in DOMAIN Append(wait, u) : Append(wait, u)[m] = w)
        <=> (\E m \in DOMAIN wait : wait[m] = w)
    BY <1>7
  <2>4. (\E m \in DOMAIN waiting' : waiting'[m] = w) <=> (\E m \in DOMAIN wait : wait[m] = w)
    BY <1>2, <2>3
  <2>5. QED
    BY <2>1, <2>2, <2>4
<1>9. \A m \in DOMAIN waiting' : waiting'[m] \notin prequeue'
  <2> SUFFICES ASSUME NEW m \in DOMAIN waiting', waiting'[m] \in prequeue' PROVE FALSE
    OBVIOUS
  <2>1. CASE waiting'[m] = u
    BY <1>2, <1>5, <2>1
  <2>2. CASE waiting'[m] # u
    BY <1>8, <2>2
  <2>3. QED
    BY <2>1, <2>2
<1>10. /\ prequeue' \subseteq Users
       /\ presence' \in [Users -> States] /\ lease' \in [Users -> States]
       /\ lease'[u] = "none"
       /\ \A w \in Users : w # u => lease'[w] = lease[w] /\ presence'[w] = presence[w]
  BY <1>2 DEF States
<1>11. \A w \in Users : w # u => (Queued(w)' <=> Queued(w))
  BY <1>8 DEF Queued, ToSet
<1>12. QueuedHaveNoLease'
  BY <1>10, <1>11 DEF QueuedHaveNoLease
<1>13. QED
  BY <1>6, <1>9, <1>10, <1>11, <1>12 DEF Joined

LEMMA LeaveIsOrderly ==
    ASSUME RoomIsOrderly, NEW u \in Users, Leave(u)
    PROVE  /\ RoomIsOrderly'
           /\ \A w \in Users : w # u /\ Joined(w) => Joined(w)'
<1>1. /\ Drop({u}, prequeue, waiting)
      /\ presence' = [presence EXCEPT ![u] = "none"]
      /\ lease' = [lease EXCEPT ![u] = "none"]
  BY DEF Leave
<1>2. presence \in [Users -> States] /\ lease \in [Users -> States]
  BY DEF RoomIsOrderly, QueueIsKnown
<1>3. /\ presence' \in [Users -> States] /\ lease' \in [Users -> States]
      /\ \A w \in Users : w # u => lease'[w] = lease[w] /\ presence'[w] = presence[w]
  BY <1>1, <1>2 DEF States
<1>4. /\ RoomIsOrderly'
      /\ \A w \in Users : Queued(w)' <=> Queued(w) /\ w \notin {u}
  BY <1>1, <1>3, DropKeeps
<1>5. QED
  BY <1>3, <1>4 DEF Joined

LEMMA LapseIsOrderly ==
    ASSUME RoomIsOrderly, NEW u \in Users, Lapse(u)
    PROVE  RoomIsOrderly'
<1> USE DEF RoomIsOrderly, QueueIsKnown
<1>1. /\ UNCHANGED <<prequeue, waiting>>
      /\ presence' \in [Users -> States] /\ lease' \in [Users -> States]
      /\ \A w \in Users : lease[w] = "none" => lease'[w] = "none"
  BY DEF Lapse, States
<1>2. \A w \in Users : Queued(w)' <=> Queued(w)
  BY <1>1 DEF Queued
<1>3. QED
  BY <1>1, <1>2 DEF QueuedHaveNoLease

-----------------------------------------------------------------------------
(* The generations and their causes.                                       *)

\* Steps that concern neither policies nor what is in Redis.
LEMMA CausesStay ==
    ASSUME IInv, CausesAreKnown, UNCHANGED <<log, marked, runtime, lost>>,
           \A i \in Instances :
              \/ doing'[i] = doing[i] /\ rows'[i] = rows[i]
              \/ doing'[i] \in {"idle", "tick", "hide", "offer"}
    PROVE  CausesAreKnown'
<1>1. /\ \A v : Gen(v)' = Gen(v) /\ Mode(v)' = Mode(v)
      /\ Latest' = Latest /\ Versions' = Versions
  BY DEF Gen, Mode, Latest, Versions
<1>2. LossesAreOld'
  BY <1>1 DEF CausesAreKnown, LossesAreOld, Gen
<1>3. Reached(marked) /\ Reached(marked)'
  BY DEF CausesAreKnown, MarksAreReached, Reached, Gen
<1>4. ASSUME NEW i \in Instances
      PROVE  /\ doing'[i] = "sync" => Gen(rows[i])' <= marked
             /\ doing'[i] = "mark" => Reached(Gen(rows[i]))'
             /\ doing'[i] = "reset" => \E l \in lost : Gen(rows[i])' <= l.gen
  <2>1. CASE doing'[i] = doing[i] /\ rows'[i] = rows[i]
    <3>1. /\ doing[i] = "sync" => Gen(rows[i]) <= marked
          /\ doing[i] = "mark" => Reached(Gen(rows[i]))
          /\ doing[i] = "reset" => \E l \in lost : Gen(rows[i]) <= l.gen
      BY DEF CausesAreKnown, MarksAreReached
    <3>2. Gen(rows[i])' = Gen(rows[i]) /\ (Reached(Gen(rows[i]))' <=> Reached(Gen(rows[i])))
      BY <2>1 DEF Gen, Reached
    <3>3. QED
      BY <2>1, <3>1, <3>2
  <2>2. CASE doing'[i] \in {"idle", "tick", "hide", "offer"}
    BY <2>2
  <2>3. QED
    BY <2>1, <2>2
<1>5. MarksAreReached'
  BY <1>3, <1>4 DEF MarksAreReached
<1>6. GenerationsHaveACause'
  BY <1>1 DEF CausesAreKnown, GenerationsHaveACause
<1>7. QED
  BY <1>2, <1>5, <1>6 DEF CausesAreKnown

\* Whatever was reached is, if Redis goes on to a later version or is lost.
LEMMA ReachedStays ==
    ASSUME IInv, UNCHANGED log, runtime' \in 0 .. Latest,
           \/ runtime <= runtime' /\ lost \subseteq lost'
           \/ lost \subseteq lost' /\ \E l \in lost' : l.gen = Gen(runtime)
    PROVE  \A g \in Nat : Reached(g) => Reached(g)'
<1>1. /\ Latest \in Nat /\ runtime \in 0 .. Latest
      /\ \A v \in 0 .. Latest : Gen(v) \in Nat
      /\ Gen(0) = 0 /\ Gen(runtime)' = Gen(runtime')
  BY GenerationsAreNumbered DEF IInv, VersionsAreKnown, Gen
<1>2. runtime <= runtime' => Gen(runtime) <= Gen(runtime')
  BY <1>1 DEF IInv, GenerationsKeepTheirNamespace, Versions
<1>3. ASSUME NEW g \in Nat, Reached(g) PROVE g <= Gen(runtime') \/ \E l \in lost' : g <= l.gen
  <2>1. CASE \E l \in lost : g <= l.gen
    BY <2>1
  <2>2. CASE g <= Gen(runtime)
    BY <1>1, <1>2, <2>2
  <2>3. QED
    BY <1>3, <2>1, <2>2 DEF Reached
<1>4. QED
  BY <1>1, <1>3 DEF Reached

\* A refresh has projected its version: Redis has reached that.
LEMMA ProjectHasCause ==
    ASSUME IInv, CausesAreKnown, NEW i \in Instances, doing[i] \in {"sync", "bootstrap"},
           Project(i), UNCHANGED <<log, marked, rows, lost>>,
           NEW place \in {"hide", "mark", "offer"}, doing' = [doing EXCEPT ![i] = place]
    PROVE  CausesAreKnown'
<1>1. /\ Latest \in Nat /\ runtime \in Nat /\ rows \in [Instances -> 0 .. Latest]
      /\ rows[i] \in 0 .. Latest /\ doing \in [Instances -> Places] /\ marked \in Nat
      /\ \A v \in 0 .. Latest : Gen(v) \in Nat
  BY GenerationsAreNumbered DEF IInv, VersionsAreKnown
<1>2. runtime' = rows[i] /\ runtime <= runtime' /\ runtime' \in 0 .. Latest
  BY <1>1 DEF Project, Stale
<1>3. \A g \in Nat : Reached(g) => Reached(g)'
  BY <1>2, ReachedStays
<1>4. doing'[i] = place /\ \A j \in Instances : j # i => doing'[j] = doing[j]
  BY <1>1
<1>5. /\ \A v : Gen(v)' = Gen(v) /\ Mode(v)' = Mode(v)
      /\ Latest' = Latest /\ Versions' = Versions
  BY DEF Gen, Mode, Latest, Versions
<1>6. LossesAreOld' /\ GenerationsHaveACause'
  BY <1>5 DEF CausesAreKnown, LossesAreOld, GenerationsHaveACause, Gen
<1>7. Reached(marked) /\ marked' = marked
  BY DEF CausesAreKnown, MarksAreReached
<1>8. Reached(marked)'
  BY <1>1, <1>3, <1>7 DEF Reached
<1>9. ASSUME NEW j \in Instances
      PROVE  /\ doing'[j] = "sync" => Gen(rows[j]) <= marked
             /\ doing'[j] = "mark" => Reached(Gen(rows[j]))'
             /\ doing'[j] = "reset" => \E l \in lost : Gen(rows[j]) <= l.gen
  <2>1. CASE j = i
    <3>1. Gen(rows[i]) <= Gen(rows[i])
      BY <1>1
    <3>2. Reached(Gen(rows[i]))'
      BY <1>2, <1>5, <3>1 DEF Reached, Gen
    <3>3. QED
      BY <1>4, <2>1, <3>2
  <2>2. CASE j # i
    <3>1. doing'[j] = doing[j] /\ Gen(rows[j]) \in Nat
      BY <1>1, <1>4, <2>2
    <3>2. /\ doing[j] = "sync" => Gen(rows[j]) <= marked
          /\ doing[j] = "mark" => Reached(Gen(rows[j]))
          /\ doing[j] = "reset" => \E l \in lost : Gen(rows[j]) <= l.gen
      BY DEF CausesAreKnown, MarksAreReached
    <3>3. Reached(Gen(rows[j])) => Reached(Gen(rows[j]))'
      <4>1. PICK g \in Nat : g = Gen(rows[j])
        BY <3>1
      <4>2. Gen(rows[j])' = g
        BY <4>1 DEF Gen
      <4>3. Reached(g) => Reached(g)'
        BY <1>3
      <4>4. QED
        BY <4>1, <4>2, <4>3 DEF Reached
    <3>4. QED
      BY <3>1, <3>2, <3>3
  <2>3. QED
    BY <2>1, <2>2
<1>10. MarksAreReached'
  BY <1>8, <1>9 DEF MarksAreReached, Reached, Gen
<1>11. QED
  BY <1>6, <1>10 DEF CausesAreKnown

LEMMA SyncHasCause ==
    ASSUME IInv, CausesAreKnown, NEW i \in Instances, Sync(i)
    PROVE  CausesAreKnown'
<1>1. /\ doing[i] \in {"sync", "bootstrap"} /\ Serves(rows[i])
      /\ UNCHANGED <<log, marked, rows, lost>> /\ doing \in [Instances -> Places]
  BY DEF Sync, Refreshing, IInv, RoomsAreServed, VersionsAreKnown
<1>2. CASE Go(i, "hide") /\ UNCHANGED redis
  <2>1. UNCHANGED runtime /\ \A j \in Instances : doing'[j] = doing[j] \/ doing'[j] = "hide"
    BY <1>1, <1>2 DEF Go, redis
  <2>2. QED
    BY <1>1, <2>1, CausesStay
<1>3. CASE Missing(i) /\ Go(i, "reset") /\ UNCHANGED redis
  <2>1. UNCHANGED runtime /\ runtime = 0 /\ doing[i] = "sync"
    BY <1>1, <1>3 DEF Missing, redis
  <2>2. doing'[i] = "reset" /\ \A j \in Instances : j # i => doing'[j] = doing[j]
    BY <1>1, <1>3 DEF Go
  <2>3. /\ Gen(rows[i]) <= marked /\ marked \in Nat /\ Gen(rows[i]) \in Nat /\ Gen(rows[i]) >= 1
        /\ \A l \in lost : l.gen \in Nat
    <3>1. Gen(rows[i]) <= marked
      BY <2>1 DEF CausesAreKnown, MarksAreReached
    <3>2. marked \in Nat
      BY GenerationsAreNumbered DEF IInv, VersionsAreKnown
    <3>3. Gen(rows[i]) \in Nat /\ Gen(rows[i]) >= 1
      BY <1>1, GenerationsAreNumbered DEF Serves, IInv, GenerationsKeepTheirNamespace
    <3>4. \A l \in lost : l.gen \in Nat
      BY GenerationsAreNumbered DEF IInv, VersionsAreKnown, Losses, Versions
    <3>5. QED
      BY <3>1, <3>2, <3>3, <3>4
  <2>4. \E l \in lost : marked <= l.gen
    <3>1. marked <= Gen(runtime) \/ \E l \in lost : marked <= l.gen
      BY DEF CausesAreKnown, MarksAreReached, Reached
    <3>2. Gen(runtime) = 0
      BY <2>1 DEF Gen
    <3>3. QED
      BY <2>3, <3>1, <3>2
  <2>5. \E l \in lost : Gen(rows[i]) <= l.gen
    BY <2>3, <2>4
  <2>6. /\ \A v : Gen(v)' = Gen(v) /\ Mode(v)' = Mode(v)
        /\ Latest' = Latest /\ Versions' = Versions
    BY <1>1 DEF Gen, Mode, Latest, Versions
  <2>7. LossesAreOld' /\ GenerationsHaveACause'
    BY <1>1, <2>6 DEF CausesAreKnown, LossesAreOld, GenerationsHaveACause, Gen
  <2>8. Reached(marked)'
    BY <1>1, <2>1 DEF CausesAreKnown, MarksAreReached, Reached, Gen
  <2>9. ASSUME NEW j \in Instances
        PROVE  /\ doing'[j] = "sync" => Gen(rows[j]) <= marked
               /\ doing'[j] = "mark" => Reached(Gen(rows[j]))
               /\ doing'[j] = "reset" => \E l \in lost : Gen(rows[j]) <= l.gen
    BY <2>2, <2>5 DEF CausesAreKnown, MarksAreReached
  <2>10. MarksAreReached'
    BY <1>1, <2>1, <2>8, <2>9 DEF MarksAreReached, Reached, Gen
  <2>11. QED
    BY <2>7, <2>10 DEF CausesAreKnown
<1>4. CASE Project(i) /\ Go(i, IF doing[i] = "bootstrap" THEN "mark" ELSE "offer")
  <2>1. PICK place \in {"hide", "mark", "offer"} : doing' = [doing EXCEPT ![i] = place]
    BY <1>4 DEF Go
  <2>2. QED
    BY <1>1, <1>4, <2>1, ProjectHasCause
<1>5. QED
  BY <1>2, <1>3, <1>4 DEF Sync

LEMMA SyncUnansweredHasCause ==
    ASSUME IInv, CausesAreKnown, NEW i \in Instances, SyncUnanswered(i)
    PROVE  CausesAreKnown'
<1>1. /\ doing[i] \in {"sync", "bootstrap"} /\ doing' = [doing EXCEPT ![i] = "hide"]
      /\ UNCHANGED <<log, marked, rows, lost>> /\ doing \in [Instances -> Places]
  BY DEF SyncUnanswered, Refreshing, Go, IInv, VersionsAreKnown
<1>2. CASE Project(i)
  BY <1>1, <1>2, ProjectHasCause
<1>3. CASE UNCHANGED redis
  <2>1. UNCHANGED runtime /\ \A j \in Instances : doing'[j] = doing[j] \/ doing'[j] = "hide"
    BY <1>1, <1>3 DEF redis
  <2>2. QED
    BY <1>1, <2>1, CausesStay
<1>4. QED
  BY <1>2, <1>3 DEF SyncUnanswered

LEMMA ReadHasCause ==
    ASSUME IInv, CausesAreKnown, NEW i \in Instances, Read(i)
    PROVE  CausesAreKnown'
<1>1. /\ UNCHANGED <<log, marked, runtime, lost>> /\ rows' = [rows EXCEPT ![i] = Latest]
      /\ doing \in [Instances -> Places] /\ rows \in [Instances -> 0 .. Latest]
      /\ marked \in Nat
  BY GenerationsAreNumbered DEF Read, redis, IInv, VersionsAreKnown
<1> DEFINE place == IF Mode(Latest) = "OFF" \/ clock = "ended" THEN "hide"
                    ELSE IF marked # Gen(Latest) THEN "bootstrap" ELSE "sync"
<1>2. doing' = [doing EXCEPT ![i] = place]
  BY DEF Read, Go
<1>3. /\ place \in {"hide", "bootstrap", "sync"}
      /\ place = "sync" => marked = Gen(Latest)
  OBVIOUS
<1> HIDE DEF place
<1>4. /\ rows'[i] = Latest /\ doing'[i] = place
      /\ \A j \in Instances : j # i => rows'[j] = rows[j] /\ doing'[j] = doing[j]
  BY <1>1, <1>2
<1>5. /\ \A v : Gen(v)' = Gen(v) /\ Mode(v)' = Mode(v)
      /\ Latest' = Latest /\ Versions' = Versions
  BY <1>1 DEF Gen, Mode, Latest, Versions
<1>6. LossesAreOld' /\ GenerationsHaveACause'
  BY <1>1, <1>5 DEF CausesAreKnown, LossesAreOld, GenerationsHaveACause, Gen
<1>7. Reached(marked)'
  BY <1>1 DEF CausesAreKnown, MarksAreReached, Reached, Gen
<1>8. ASSUME NEW j \in Instances
      PROVE  /\ doing'[j] = "sync" => Gen(rows'[j]) <= marked
             /\ doing'[j] = "mark" => Reached(Gen(rows'[j]))
             /\ doing'[j] = "reset" => \E l \in lost : Gen(rows'[j]) <= l.gen
  <2>1. CASE j = i
    BY <1>1, <1>3, <1>4, <2>1
  <2>2. CASE j # i
    BY <1>4, <2>2 DEF CausesAreKnown, MarksAreReached
  <2>3. QED
    BY <2>1, <2>2
<1>9. MarksAreReached'
  BY <1>1, <1>7, <1>8 DEF MarksAreReached, Reached, Gen
<1>10. QED
  BY <1>6, <1>9 DEF CausesAreKnown

LEMMA MarkHasCause ==
    ASSUME IInv, CausesAreKnown, NEW i \in Instances, Mark(i)
    PROVE  CausesAreKnown'
<1>1. /\ doing[i] = "mark" /\ doing' = [doing EXCEPT ![i] = "offer"]
      /\ UNCHANGED <<log, runtime, rows, lost>> /\ doing \in [Instances -> Places]
      /\ \/ marked' = marked
         \/ rows[i] = Latest /\ marked' = Gen(Latest)
  BY DEF Mark, Go, redis, IInv, VersionsAreKnown
<1>2. /\ \A v : Gen(v)' = Gen(v) /\ Mode(v)' = Mode(v)
      /\ Latest' = Latest /\ Versions' = Versions
  BY <1>1 DEF Gen, Mode, Latest, Versions
<1>3. LossesAreOld' /\ GenerationsHaveACause'
  BY <1>1, <1>2 DEF CausesAreKnown, LossesAreOld, GenerationsHaveACause, Gen
<1>4. Reached(marked')
  BY <1>1 DEF CausesAreKnown, MarksAreReached
<1>5. /\ marked \in Nat /\ marked' \in Nat /\ marked <= marked'
      /\ \A v \in 0 .. Latest : Gen(v) \in Nat
  <2>1. /\ Latest \in Nat /\ marked \in Nat /\ Latest \in 0 .. Latest
        /\ \A v \in 0 .. Latest : Gen(v) \in Nat
    BY GenerationsAreNumbered DEF IInv, VersionsAreKnown
  <2>2. marked <= Gen(Latest) /\ Gen(Latest) \in Nat
    BY <2>1 DEF IInv, MarksAreOld
  <2>3. QED
    BY <1>1, <2>1, <2>2
<1>6. ASSUME NEW j \in Instances
      PROVE  /\ doing'[j] = "sync" => Gen(rows[j]) <= marked'
             /\ doing'[j] = "mark" => Reached(Gen(rows[j]))
             /\ doing'[j] = "reset" => \E l \in lost : Gen(rows[j]) <= l.gen
  <2>1. doing'[j] \in {doing[j], "offer"} /\ Gen(rows[j]) \in Nat
    BY <1>1, <1>5 DEF IInv, VersionsAreKnown
  <2>2. /\ doing[j] = "sync" => Gen(rows[j]) <= marked
        /\ doing[j] = "mark" => Reached(Gen(rows[j]))
        /\ doing[j] = "reset" => \E l \in lost : Gen(rows[j]) <= l.gen
    BY DEF CausesAreKnown, MarksAreReached
  <2>3. QED
    BY <1>5, <2>1, <2>2
<1>7. MarksAreReached'
  BY <1>1, <1>4, <1>6 DEF MarksAreReached, Reached, Gen
<1>8. QED
  BY <1>3, <1>7 DEF CausesAreKnown

\* Redis has lost what it had reached, which is remembered.
LEMMA LossHasCause ==
    ASSUME IInv, CausesAreKnown, RedisLosesItsData
    PROVE  CausesAreKnown'
<1> DEFINE m == [gen |-> Gen(runtime), settled |-> Settled,
                 taken |-> \E u \in Users : Joined(u) \/ Admitted(u)]
<1>1. /\ UNCHANGED <<log, marked, rows, doing>> /\ runtime # 0 /\ runtime' = 0
      /\ lost' = lost \cup {m} /\ m.gen = Gen(runtime)
  BY DEF RedisLosesItsData, copies
<1> HIDE DEF m
<1>2. /\ Latest \in Nat /\ \A v \in 0 .. Latest : Gen(v) \in Nat
      /\ runtime \in 0 .. Latest /\ marked \in Nat /\ rows \in [Instances -> 0 .. Latest]
  BY GenerationsAreNumbered DEF IInv, VersionsAreKnown
<1>3. \A g \in Nat : Reached(g) => Reached(g)'
  BY <1>1, <1>2, ReachedStays
<1>4. /\ \A v : Gen(v)' = Gen(v) /\ Mode(v)' = Mode(v)
      /\ Latest' = Latest /\ Versions' = Versions
  BY <1>1 DEF Gen, Mode, Latest, Versions
<1>5. GenerationsHaveACause'
  BY <1>1, <1>4 DEF CausesAreKnown, GenerationsHaveACause
<1>6. LossesAreOld'
  <2>1. Gen(runtime) <= Gen(Latest)
    BY <1>1, <1>2 DEF IInv, GenerationsKeepTheirNamespace, Versions
  <2>2. \A l \in lost' : l.gen <= Gen(Latest)
    BY <1>1, <2>1 DEF CausesAreKnown, LossesAreOld
  <2>3. QED
    BY <1>4, <2>2 DEF LossesAreOld
<1>7. Reached(marked)'
  BY <1>1, <1>2, <1>3 DEF CausesAreKnown, MarksAreReached, Reached
<1>8. ASSUME NEW j \in Instances
      PROVE  /\ doing[j] = "sync" => Gen(rows[j]) <= marked
             /\ doing[j] = "mark" => Reached(Gen(rows[j]))'
             /\ doing[j] = "reset" => \E l \in lost' : Gen(rows[j]) <= l.gen
  <2>1. /\ doing[j] = "sync" => Gen(rows[j]) <= marked
        /\ doing[j] = "mark" => Reached(Gen(rows[j]))
        /\ doing[j] = "reset" => \E l \in lost : Gen(rows[j]) <= l.gen
    BY DEF CausesAreKnown, MarksAreReached
  <2>2. PICK g \in Nat : g = Gen(rows[j])
    BY <1>2
  <2>3. Gen(rows[j])' = g
    BY <1>1, <2>2 DEF Gen
  <2>4. Reached(g) => Reached(g)'
    BY <1>3
  <2>5. Reached(Gen(rows[j])) => Reached(Gen(rows[j]))'
    BY <2>2, <2>3, <2>4 DEF Reached
  <2>6. QED
    BY <1>1, <2>1, <2>5
<1>9. MarksAreReached'
  BY <1>1, <1>4, <1>7, <1>8 DEF MarksAreReached, Gen
<1>10. QED
  BY <1>5, <1>6, <1>9 DEF CausesAreKnown

\* A version is appended that goes on with the last generation, or has a cause for one.
LEMMA AppendHasCause ==
    ASSUME IInv, CausesAreKnown, NEW p \in Policies, log' = Append(log, p),
           Gen(Latest) <= p.gen,
           \/ Latest = 0
           \/ p.gen = Gen(Latest)
           \/ Namespace(p.mode) # Namespace(Mode(Latest))
           \/ \E l \in lost : l.gen = Gen(Latest),
           UNCHANGED <<marked, runtime, lost, rows>>,
           \A j \in Instances : doing'[j] = doing[j] \/ doing'[j] = "hide"
    PROVE  CausesAreKnown'
<1>1. /\ Latest \in Nat /\ log \in Seq(Policies) /\ rows \in [Instances -> 0 .. Latest]
      /\ runtime \in 0 .. Latest
      /\ \A v \in 0 .. Latest : Gen(v)' = Gen(v) /\ Mode(v)' = Mode(v) /\ Gen(v) \in Nat
  BY VersionsStay DEF IInv, VersionsAreKnown
<1>2. Latest' = Latest + 1 /\ log'[Latest + 1] = p
  BY <1>1 DEF Latest
<1>3. PICK n \in Nat : n = Latest
  BY <1>1
<1>4. /\ Gen(n + 1)' = p.gen /\ Mode(n + 1)' = p.mode /\ p.gen \in Nat
      /\ Gen(n)' = Gen(n) /\ Mode(n)' = Mode(n)
  <2>1. log'[n + 1] = p /\ n + 1 # 0 /\ n \in 0 .. Latest
    <3>1. log'[n + 1] = p
      BY <1>2, <1>3
    <3>2. n + 1 # 0 /\ n \in 0 .. n
      BY <1>3
    <3>3. QED
      BY <1>3, <3>1, <3>2
  <2>2. Gen(n)' = Gen(n) /\ Mode(n)' = Mode(n)
    BY <1>1, <2>1
  <2>3. QED
    BY <2>1, <2>2 DEF Gen, Mode, Policies
<1>5. LossesAreOld'
  <2>1. log'[Len(log')].gen = p.gen /\ Len(log') # 0
    BY <1>1, <1>2 DEF Latest
  <2>2. (Gen(Latest))' = p.gen
    BY <2>1 DEF Gen, Latest
  <2>3. \A l \in lost : l.gen \in Nat
    BY GenerationsAreNumbered DEF IInv, VersionsAreKnown, Losses, Versions
  <2>4. \A l \in lost : l.gen <= p.gen
    <3>1. Gen(Latest) \in Nat /\ p.gen \in Nat
      BY <1>1, <1>4
    <3>2. \A l \in lost : l.gen <= Gen(Latest)
      BY DEF CausesAreKnown, LossesAreOld
    <3>3. QED
      BY <2>3, <3>1, <3>2
  <2>5. QED
    BY <2>2, <2>4 DEF LossesAreOld
<1>6. ASSUME NEW v \in 1 .. Latest + 1, NEW w \in 1 .. Latest + 1, w = v + 1
      PROVE  \/ Gen(w)' = Gen(v)'
             \/ Namespace(Mode(w)') # Namespace(Mode(v)')
             \/ \E l \in lost : l.gen = Gen(v)'
  <2>1. CASE w = Latest + 1
    <3>1. v = n /\ w = n + 1 /\ n # 0
      BY <1>1, <1>3, <1>6, <2>1
    <3>2. \/ p.gen = Gen(n)
          \/ Namespace(p.mode) # Namespace(Mode(n))
          \/ \E l \in lost : l.gen = Gen(n)
      BY <1>3, <3>1
    <3>3. /\ Gen(w)' = p.gen /\ Mode(w)' = p.mode
          /\ Gen(v)' = Gen(n) /\ Mode(v)' = Mode(n)
      BY <1>4, <3>1
    <3>4. QED
      BY <3>2, <3>3
  <2>2. CASE w # Latest + 1
    <3>1. v \in Versions /\ w \in Versions /\ v \in 0 .. Latest /\ w \in 0 .. Latest
      BY <1>1, <1>6, <2>2 DEF Versions
    <3>2. \/ Gen(w) = Gen(v)
          \/ Namespace(Mode(w)) # Namespace(Mode(v))
          \/ \E l \in lost : l.gen = Gen(v)
      BY <1>6, <3>1 DEF CausesAreKnown, GenerationsHaveACause
    <3>3. Gen(w)' = Gen(w) /\ Mode(w)' = Mode(w) /\ Gen(v)' = Gen(v) /\ Mode(v)' = Mode(v)
      BY <1>1, <3>1
    <3>4. QED
      BY <3>2, <3>3
  <2>3. QED
    BY <2>1, <2>2
<1>7. GenerationsHaveACause'
  <2>1. Versions' = 1 .. Latest + 1
    BY <1>2 DEF Versions
  <2>2. QED
    BY <1>6, <2>1 DEF GenerationsHaveACause, Namespace
<1>8. Gen(runtime)' = Gen(runtime) /\ \A j \in Instances : Gen(rows[j])' = Gen(rows[j])
  <2>1. Gen(runtime)' = Gen(runtime)
    <3>1. PICK v \in 0 .. Latest : v = runtime
      BY <1>1
    <3>2. QED
      BY <1>1, <3>1 DEF Gen
  <2>2. ASSUME NEW j \in Instances PROVE Gen(rows[j])' = Gen(rows[j])
    <3>1. PICK v \in 0 .. Latest : v = rows[j]
      BY <1>1
    <3>2. QED
      BY <1>1, <3>1 DEF Gen
  <2>3. QED
    BY <2>1, <2>2
<1>9. Reached(marked)'
  BY <1>8 DEF CausesAreKnown, MarksAreReached, Reached
<1>10. ASSUME NEW j \in Instances
      PROVE  /\ doing'[j] = "sync" => Gen(rows[j])' <= marked
             /\ doing'[j] = "mark" => Reached(Gen(rows[j]))'
             /\ doing'[j] = "reset" => \E l \in lost : Gen(rows[j])' <= l.gen
  <2>1. doing'[j] = doing[j] \/ doing'[j] = "hide"
    OBVIOUS
  <2>2. /\ doing[j] = "sync" => Gen(rows[j]) <= marked
        /\ doing[j] = "mark" => Reached(Gen(rows[j]))
        /\ doing[j] = "reset" => \E l \in lost : Gen(rows[j]) <= l.gen
    BY DEF CausesAreKnown, MarksAreReached
  <2>3. Reached(Gen(rows[j]))' <=> Reached(Gen(rows[j]))
    BY <1>8 DEF Reached
  <2>4. QED
    BY <1>8, <2>1, <2>2, <2>3
<1>11. MarksAreReached'
  BY <1>9, <1>10 DEF MarksAreReached
<1>12. QED
  BY <1>5, <1>7, <1>11 DEF CausesAreKnown

LEMMA UpdateHasCause ==
    ASSUME IInv, CausesAreKnown, NEW i \in Instances, NEW mode \in Modes, Update(i, mode)
    PROVE  CausesAreKnown'
<1>1. Latest \in Nat /\ Gen(Latest) \in 0 .. Latest
  BY GenerationsAreNumbered
<1> DEFINE p == [mode |-> mode, gen |-> IF Latest = 0 \/ Rotates(Mode(Latest), mode)
                                        THEN Latest + 1 ELSE Gen(Latest)]
<1>2. log' = Append(log, p) /\ UNCHANGED <<marked, runtime, lost, rows, doing>>
  BY DEF Update, redis
<1>3. p \in Policies /\ Gen(Latest) <= p.gen
  BY <1>1 DEF Policies
<1>4. Latest = 0 \/ p.gen = Gen(Latest) \/ Namespace(p.mode) # Namespace(Mode(Latest))
  BY DEF Rotates
<1> HIDE DEF p
<1>5. QED
  BY <1>2, <1>3, <1>4, AppendHasCause

LEMMA ResetHasCause ==
    ASSUME IInv, CausesAreKnown, NEW i \in Instances, Reset(i)
    PROVE  CausesAreKnown'
<1>1. /\ UNCHANGED <<marked, runtime, lost, rows>>
      /\ doing[i] = "reset" /\ doing \in [Instances -> Places]
      /\ doing' = [doing EXCEPT ![i] = "hide"]
      /\ \A j \in Instances : doing'[j] = doing[j] \/ doing'[j] = "hide"
  BY DEF Reset, Go, redis, IInv, VersionsAreKnown
<1>2. CASE rows[i] = Latest
  <2> DEFINE p == [mode |-> Mode(Latest), gen |-> Latest + 1]
  <2>1. log' = Append(log, p)
    BY <1>2 DEF Reset
  <2>2. Latest \in Nat /\ Latest \in Versions /\ Gen(Latest) \in 0 .. Latest
    <3>1. Serves(rows[i])
      BY <1>1 DEF IInv, RoomsAreServed
    <3>2. QED
      BY <1>2, <3>1, GenerationsAreNumbered DEF Serves
  <2>3. p \in Policies /\ Gen(Latest) <= p.gen
    <3>1. log[Latest] \in Policies
      BY <2>2 DEF IInv, VersionsAreKnown, Latest, Versions
    <3>2. Mode(Latest) \in Modes
      BY <2>2, <3>1 DEF Mode, Versions, Policies
    <3>3. QED
      BY <2>2, <3>2 DEF Policies
  <2> HIDE DEF p
  <2>4. \E l \in lost : l.gen = Gen(Latest)
    <3>1. PICK l \in lost : Gen(Latest) <= l.gen
      BY <1>1, <1>2 DEF CausesAreKnown, MarksAreReached
    <3>2. l.gen <= Gen(Latest) /\ l.gen \in Nat
      BY GenerationsAreNumbered DEF CausesAreKnown, LossesAreOld, IInv, VersionsAreKnown, Losses, Versions
    <3>3. QED
      BY <2>2, <3>1, <3>2
  <2>5. QED
    BY <1>1, <2>1, <2>3, <2>4, AppendHasCause
<1>3. CASE rows[i] # Latest
  <2>1. log' = log
    BY <1>3 DEF Reset
  <2>2. QED
    BY <1>1, <2>1, CausesStay
<1>4. QED
  BY <1>2, <1>3

\* A refresh ends.
LEMMA EndsHaveCause ==
    ASSUME IInv, CausesAreKnown, NEW i \in Instances,
           doing' = [doing EXCEPT ![i] = "idle"], rows' = [rows EXCEPT ![i] = 0],
           UNCHANGED <<log, marked, runtime, lost>>
    PROVE  CausesAreKnown'
<1>1. \A j \in Instances : (doing'[j] = doing[j] /\ rows'[j] = rows[j]) \/ doing'[j] = "idle"
  BY DEF IInv, VersionsAreKnown
<1>2. QED
  BY <1>1, CausesStay

\* Nothing but places, or whether an instance ticks.
LEMMA OthersHaveCause ==
    ASSUME IInv, CausesAreKnown, UNCHANGED <<log, marked, runtime, lost, rows>>,
           \/ UNCHANGED doing
           \/ \E i \in Instances, place \in {"idle", "tick"} : doing' = [doing EXCEPT ![i] = place]
    PROVE  CausesAreKnown'
<1>1. \A j \in Instances : (doing'[j] = doing[j] /\ rows'[j] = rows[j]) \/ doing'[j] \in {"idle", "tick"}
  BY DEF IInv, VersionsAreKnown
<1>2. QED
  BY <1>1, CausesStay

LEMMA NextHasCause ==
    ASSUME IInv, CausesAreKnown, [Next]_vars
    PROVE  CausesAreKnown'
<1>1. CASE UNCHANGED vars
  <2>1. UNCHANGED <<log, marked, runtime, lost, rows, doing>>
    BY <1>1 DEF vars, redis, copies
  <2>2. QED
    BY <2>1, OthersHaveCause
<1>2. ASSUME NEW i \in Instances, Sync(i) \/ Reset(i) \/ Mark(i) \/ Read(i) \/ SyncUnanswered(i)
      PROVE  CausesAreKnown'
  BY <1>2, SyncHasCause, ResetHasCause, MarkHasCause, ReadHasCause, SyncUnansweredHasCause
<1>3. ASSUME NEW i \in Instances, Publish(i) \/ RefreshFails(i) \/ Crash(i)
      PROVE  CausesAreKnown'
  <2>1. /\ doing' = [doing EXCEPT ![i] = "idle"] /\ rows' = [rows EXCEPT ![i] = 0]
        /\ UNCHANGED <<log, marked, runtime, lost>>
    BY <1>3 DEF Publish, RefreshFails, Crash, RefreshEnds, Go, redis
  <2>2. QED
    BY <2>1, EndsHaveCause
<1>4. ASSUME NEW i \in Instances,
             \/ TickBegins(i) \/ TickRefused(i) \/ TickFails(i) \/ \E n : Tick(i, n)
             \/ Invalidate(i) \/ Unschedule(i) \/ Pause(i)
      PROVE  CausesAreKnown'
  <2>1. /\ UNCHANGED <<log, marked, runtime, lost, rows>>
        /\ \/ UNCHANGED doing
           \/ \E place \in {"idle", "tick"} : doing' = [doing EXCEPT ![i] = place]
    BY <1>4 DEF TickBegins, TickRefused, TickFails, Tick, RedisUnavailable, Go, redis, Invalidate,
                Unschedule, Pause, copies
  <2>2. QED
    BY <2>1, OthersHaveCause
<1>5. ASSUME NEW i \in Instances, GoesOn(i)
      PROVE  CausesAreKnown'
  BY <1>2, <1>3, <1>4, <1>5 DEF GoesOn, LetsIn
<1>6. ASSUME NEW i \in Instances, NEW mode \in Modes, Update(i, mode)
      PROVE  CausesAreKnown'
  BY <1>6, UpdateHasCause
<1>7. ASSUME NEW u \in Users, Join(u) \/ Leave(u) \/ Lapse(u)
      PROVE  CausesAreKnown'
  <2>1. UNCHANGED <<log, marked, runtime, lost, rows, doing>>
    BY <1>7 DEF Join, Leave, Lapse, copies
  <2>2. QED
    BY <2>1, OthersHaveCause
<1>8. CASE ClockTicks \/ PauseEnds
  <2>1. UNCHANGED <<log, marked, runtime, lost, rows, doing>>
    BY <1>8 DEF ClockTicks, PauseEnds, copies, redis
  <2>2. QED
    BY <2>1, OthersHaveCause
<1>9. CASE RedisLosesItsData
  BY <1>9, LossHasCause
<1>10. QED
  BY <1>1, <1>2, <1>3, <1>4, <1>5, <1>6, <1>7, <1>8, <1>9 DEF Next

LEMMA NextIsOrderly ==
    ASSUME RoomIsOrderly, [Next]_vars
    PROVE  RoomIsOrderly'
<1>1. CASE UNCHANGED room
  BY <1>1, RoomStays DEF room
<1>2. CASE EmptyRoom
  BY <1>2, EmptyRoomIsOrderly
<1>3. ASSUME NEW tokens, Script(tokens) PROVE RoomIsOrderly'
  BY <1>3, ScriptIsOrderly
<1>4. ASSUME NEW i \in Instances, Project(i) PROVE RoomIsOrderly'
  BY <1>1, <1>2, <1>4 DEF Project
<1>5. ASSUME NEW i \in Instances, Sync(i) \/ SyncUnanswered(i) PROVE RoomIsOrderly'
  BY <1>1, <1>4, <1>5 DEF Sync, SyncUnanswered, redis
<1>6. ASSUME NEW i \in Instances, TickFails(i) \/ TickRefused(i) \/ \E n : Tick(i, n)
      PROVE  RoomIsOrderly'
  BY <1>1, <1>3, <1>6 DEF TickFails, TickRefused, Tick
<1>7. ASSUME NEW i \in Instances,
             \/ Read(i) \/ TickBegins(i) \/ Reset(i) \/ Mark(i) \/ Publish(i) \/ Invalidate(i)
             \/ RefreshFails(i) \/ Unschedule(i) \/ Pause(i) \/ Crash(i)
             \/ \E mode \in Modes : Update(i, mode)
      PROVE  RoomIsOrderly'
  <2>1. UNCHANGED room
    BY <1>7 DEF Read, TickBegins, Reset, Mark, Publish, Invalidate, RefreshFails, Unschedule, Pause,
                Crash, Update, redis
  <2>2. QED
    BY <1>1, <2>1
<1>8. ASSUME NEW i \in Instances, GoesOn(i) PROVE RoomIsOrderly'
  BY <1>5, <1>6, <1>7, <1>8 DEF GoesOn, LetsIn
<1>9. ASSUME NEW u \in Users, Join(u) \/ Leave(u) \/ Lapse(u) PROVE RoomIsOrderly'
  BY <1>9, JoinIsOrderly, LeaveIsOrderly, LapseIsOrderly
<1>10. CASE ClockTicks \/ PauseEnds
  BY <1>1, <1>10 DEF ClockTicks, PauseEnds, redis
<1>11. CASE RedisLosesItsData
  BY <1>2, <1>11 DEF RedisLosesItsData
<1>12. CASE UNCHANGED vars
  BY <1>1, <1>12 DEF vars, redis
<1>13. QED
  BY <1>5, <1>6, <1>7, <1>8, <1>9, <1>10, <1>11, <1>12 DEF Next

LEMMA InitQueue == Init => QueueInv
<1> SUFFICES ASSUME Init PROVE QueueInv
  OBVIOUS
<1>1. log = <<>> /\ Latest = 0
  BY DEF Init, Latest
<1>2. RoomIsOrderly
  <2>1. /\ prequeue = {} /\ waiting = <<>> /\ waiting \in Seq(Users) /\ DOMAIN waiting = {}
        /\ presence \in [Users -> States] /\ lease \in [Users -> States]
        /\ \A u \in Users : lease[u] = "none"
    BY DEF Init, States
  <2>2. QED
    BY <2>1 DEF RoomIsOrderly, QueueIsKnown, QueuedHaveNoLease
<1>3. CausesAreKnown
  BY <1>1 DEF Init, CausesAreKnown, LossesAreOld, MarksAreReached, Reached, GenerationsHaveACause,
              Gen, Versions
<1>4. QED
  BY <1>2, <1>3 DEF QueueInv

THEOREM QueueInvCorrect == Spec => [](IInv /\ QueueInv)
<1>1. Init => IInv /\ QueueInv
  BY InitInv, InitQueue
<1>2. IInv /\ QueueInv /\ [Next]_vars => (IInv /\ QueueInv)'
  BY NextKeeps, NextHasCause, NextIsOrderly DEF QueueInv
<1>3. QED
  BY <1>1, <1>2, PTL DEF Spec

-----------------------------------------------------------------------------
(* Whoever lives in the queue keeps the place.                             *)

\* From one generation to another there is a change of the namespace, unless one was lost.
LEMMA GenerationsChangeForACause ==
    ASSUME IInv, GenerationsHaveACause, NEW a \in 0 .. Latest, NEW b \in Versions, Serves(b),
           a <= b, Gen(a) # Gen(b)
    PROVE  \/ \E l \in lost : l.gen = Gen(a)
           \/ \E v \in a .. b : Namespace(Mode(v)) # Namespace(Mode(a))
<1>1. /\ Latest \in Nat /\ a \in Nat /\ b \in Nat /\ b <= Latest
      /\ \A v \in 0 .. Latest : Gen(v) \in Nat
  BY GenerationsAreNumbered DEF Versions
<1>2. CASE a = 0
  <2>1. Namespace(Mode(b)) # "None" /\ Namespace(Mode(a)) = "None"
    BY <1>2 DEF Serves, Mode, Namespace
  <2>2. b \in a .. b
    BY <1>1
  <2>3. QED
    BY <2>1, <2>2
<1>3. CASE a # 0
  <2> DEFINE T == {v \in a .. b : Gen(v) # Gen(a)}
  <2>1. T \subseteq Nat /\ b \in T
    BY <1>1
  <2>2. PICK v \in T : \A x \in T : v <= x
    BY <2>1, Least
  <2>3. v \in a .. b /\ v \in Nat /\ Gen(v) # Gen(a) /\ v # a
    BY <1>1, <2>2
  <2>4. v - 1 \in a .. b /\ v - 1 \in Versions /\ v \in Versions /\ v = (v - 1) + 1
    BY <1>1, <1>3, <2>3 DEF Versions
  <2>5. Gen(v - 1) = Gen(a)
    <3>1. ~(v <= v - 1)
      BY <2>3
    <3>2. v - 1 \notin T
      BY <2>2, <3>1
    <3>3. QED
      BY <2>4, <3>2
  <2>6. \/ Gen(v) = Gen(v - 1)
        \/ Namespace(Mode(v)) # Namespace(Mode(v - 1))
        \/ \E l \in lost : l.gen = Gen(v - 1)
    BY <2>4 DEF GenerationsHaveACause
  <2>7. CASE Namespace(Mode(v)) # Namespace(Mode(v - 1))
    BY <2>3, <2>4, <2>7
  <2>8. QED
    BY <2>3, <2>5, <2>6, <2>7
<1>4. QED
  BY <1>2, <1>3

\* Redis keeps the places of the generation that it has.
LEMMA ProjectKeepsPlaces ==
    ASSUME IInv, QueueInv, NEW i \in Instances, Project(i), doing[i] \in {"sync", "bootstrap"},
           UNCHANGED log
    PROVE  KeepsPlaces
<1> SUFFICES ASSUME NEW u \in Users, Joined(u), ~Joined(u)'
             PROVE  \/ \E l \in lost : l.gen = Gen(runtime)
                    \/ \E v \in runtime .. runtime' : Namespace(Mode(v)') # Namespace(Mode(runtime))
  BY DEF KeepsPlaces
<1>1. /\ runtime \in 0 .. Latest /\ runtime \in Nat /\ Latest \in Nat
      /\ rows[i] \in Versions /\ Serves(rows[i])
  BY GenerationsAreNumbered DEF IInv, VersionsAreKnown, RoomsAreServed, Serves
<1>2. runtime' = rows[i] /\ runtime <= rows[i]
  BY <1>1 DEF Project, Stale, Versions
<1>3. Gen(runtime) # Gen(rows[i])
  <2> SUFFICES ASSUME Gen(runtime) = Gen(rows[i]) PROVE FALSE
    OBVIOUS
  <2>1. UNCHANGED <<prequeue, waiting, presence>>
    BY DEF Project, room
  <2>2. QED
    BY <2>1 DEF Joined, Queued
<1>4. \/ \E l \in lost : l.gen = Gen(runtime)
      \/ \E v \in runtime .. rows[i] : Namespace(Mode(v)) # Namespace(Mode(runtime))
  BY <1>1, <1>2, <1>3, GenerationsChangeForACause DEF QueueInv, CausesAreKnown
<1>5. \A v : Mode(v)' = Mode(v)
  BY DEF Mode
<1>6. QED
  BY <1>2, <1>4, <1>5

\* The script takes nobody's place who lives, but for a lease.
LEMMA ScriptKeepsPlaces ==
    ASSUME RoomIsOrderly, NEW tokens, Script(tokens)
    PROVE  KeepsPlaces
<1> SUFFICES ASSUME NEW u \in Users, Joined(u), ~Joined(u)'
             PROVE  lease'[u] = "alive"
  BY DEF KeepsPlaces
<1>1. PICK p \in Some(Lapsed(presence)), l \in Some(Lapsed(lease)) :
         LetIn((p \cup l) \cup Seen(p \cup l, tokens), Seen(p \cup l, tokens) \cap Living(p \cup l))
  BY ScriptMeans
<1> DEFINE dead == p \cup l
           seen == Seen(dead, tokens)
           in == seen \cap Living(dead)
<1>2. p \subseteq Lapsed(presence) /\ l \subseteq Lapsed(lease)
  BY DEF Some
<1>3. LetIn(dead \cup seen, in) /\ in \subseteq dead \cup seen
  BY <1>1
<1> HIDE DEF seen, in
<1>4. /\ Queued(u)' <=> Queued(u) /\ u \notin dead \cup seen
      /\ presence'[u] = IF u \in dead \cup seen THEN "none" ELSE presence[u]
      /\ lease'[u] = IF u \in in THEN "alive" ELSE IF u \in dead \cup seen THEN "none" ELSE lease[u]
  BY <1>3, LetInMeans
<1>5. Queued(u) /\ presence[u] = "alive" /\ lease[u] = "none"
  BY DEF Joined, RoomIsOrderly, QueuedHaveNoLease
<1>6. u \notin dead
  BY <1>2, <1>5 DEF Lapsed
<1>7. u \in seen
  BY <1>4, <1>5, <1>6 DEF Joined
<1>8. u \in in
  BY <1>5, <1>6, <1>7 DEF in, Living
<1>9. QED
  BY <1>4, <1>8

LEMMA PlacesAreKept == IInv /\ QueueInv /\ [Next]_vars => KeepsPlaces
<1> SUFFICES ASSUME IInv, QueueInv, [Next]_vars PROVE KeepsPlaces
  OBVIOUS
<1>1. RoomIsOrderly
  BY DEF QueueInv
<1>2. CASE UNCHANGED room
  <2>1. \A u : Joined(u)' <=> Joined(u)
    BY <1>2 DEF room, Joined, Queued
  <2>2. QED
    BY <2>1 DEF KeepsPlaces
<1>3. ASSUME NEW i \in Instances, Sync(i) \/ SyncUnanswered(i)
      PROVE  KeepsPlaces
  <2>1. doing[i] \in {"sync", "bootstrap"} /\ UNCHANGED log
    BY <1>3 DEF Sync, SyncUnanswered, Refreshing
  <2>2. Project(i) \/ UNCHANGED room
    BY <1>3 DEF Sync, SyncUnanswered, redis
  <2>3. QED
    BY <1>2, <2>1, <2>2, ProjectKeepsPlaces
<1>4. ASSUME NEW i \in Instances, TickFails(i) \/ TickRefused(i) \/ \E n : Tick(i, n)
      PROVE  KeepsPlaces
  <2>1. UNCHANGED room \/ \E n : Script(n)
    BY <1>4 DEF TickFails, TickRefused, Tick
  <2>2. QED
    BY <1>1, <1>2, <2>1, ScriptKeepsPlaces
<1>5. ASSUME NEW i \in Instances,
             \/ Read(i) \/ TickBegins(i) \/ Reset(i) \/ Mark(i) \/ Publish(i) \/ Invalidate(i)
             \/ RefreshFails(i) \/ Unschedule(i) \/ Pause(i) \/ Crash(i)
             \/ \E mode \in Modes : Update(i, mode)
      PROVE  KeepsPlaces
  <2>1. UNCHANGED room
    BY <1>5 DEF Read, TickBegins, Reset, Mark, Publish, Invalidate, RefreshFails, Unschedule, Pause,
                Crash, Update, redis
  <2>2. QED
    BY <1>2, <2>1
<1>6. ASSUME NEW i \in Instances, GoesOn(i) PROVE KeepsPlaces
  BY <1>3, <1>4, <1>5, <1>6 DEF GoesOn, LetsIn
<1>7. ASSUME NEW w \in Users, Join(w) PROVE KeepsPlaces
  <2>1. ~Joined(w)
    BY <1>7 DEF Join
  <2>2. \A u \in Users : u # w /\ Joined(u) => Joined(u)'
    BY <1>1, <1>7, JoinIsOrderly
  <2>3. QED
    BY <2>1, <2>2 DEF KeepsPlaces
<1>8. ASSUME NEW w \in Users, Leave(w) PROVE KeepsPlaces
  <2>1. \A u \in Users : u # w /\ Joined(u) => Joined(u)'
    BY <1>1, <1>8, LeaveIsOrderly
  <2>2. QED
    BY <1>8, <2>1 DEF KeepsPlaces
<1>9. ASSUME NEW w \in Users, Lapse(w) PROVE KeepsPlaces
  <2>1. \A u \in Users : u # w => presence'[u] = presence[u]
    BY <1>1, <1>9 DEF Lapse, RoomIsOrderly, QueueIsKnown
  <2>2. \A u \in Users : u # w /\ Joined(u) => Joined(u)'
    BY <1>9, <2>1 DEF Lapse, Joined, Queued
  <2>3. QED
    BY <1>9, <2>2 DEF KeepsPlaces
<1>10. CASE ClockTicks \/ PauseEnds
  BY <1>2, <1>10 DEF ClockTicks, PauseEnds, redis
<1>11. CASE RedisLosesItsData
  BY <1>11 DEF RedisLosesItsData, KeepsPlaces
<1>12. CASE UNCHANGED vars
  BY <1>2, <1>12 DEF vars, redis
<1>13. QED
  BY <1>3, <1>4, <1>5, <1>6, <1>7, <1>8, <1>9, <1>10, <1>11, <1>12 DEF Next

-----------------------------------------------------------------------------
(* Users are let in in their turn.                                         *)

\* Whoever is not gone and was ahead of a position is ahead of what has become of it.
LEMMA WhoIsAheadStays ==
    ASSUME NEW S, NEW q \in Seq(S), NEW gone, NEW w, w = Without(q, gone),
           NEW n \in 1 .. Len(w)
    PROVE  /\ n \in Nat
           /\ \E b \in 1 .. Len(q) :
                 /\ q[b] = w[n]
                 /\ \A a \in 1 .. b - 1 : q[a] \notin gone => \E m \in 1 .. n - 1 : w[m] = q[a]
<1>1. w \in Seq(S) /\ Len(w) \in Nat /\ Len(q) \in Nat
  BY WithoutKeepsOrder
<1>2. PICK h \in [1 .. Len(w) -> 1 .. Len(q)] :
         /\ \A k \in 1 .. Len(w) : w[k] = q[h[k]] /\ q[h[k]] \notin gone
         /\ \A j, k \in 1 .. Len(w) : j < k => h[j] < h[k]
         /\ \A k \in 1 .. Len(q) : q[k] \notin gone => \E j \in 1 .. Len(w) : h[j] = k
  BY ONLY q \in Seq(S), w = Without(q, gone), WithoutKeepsOrder, SMTT(30)
<1>3. PICK b \in 1 .. Len(q) : b = h[n]
  OBVIOUS
<1>4. ASSUME NEW a \in 1 .. b - 1, q[a] \notin gone
      PROVE  \E m \in 1 .. n - 1 : w[m] = q[a]
  <2>1. a \in 1 .. Len(q) /\ a \in Nat /\ b \in Nat /\ a < b
    BY <1>1
  <2>2. PICK m \in 1 .. Len(w) : h[m] = a
    BY <1>2, <1>4, <2>1
  <2>3. ~(n < m) /\ m # n
    BY <1>2, <1>3, <2>1, <2>2
  <2>4. m \in 1 .. n - 1
    BY <1>1, <2>3
  <2>5. QED
    BY <1>2, <2>2, <2>4
<1>5. q[b] = w[n] /\ n \in Nat
  BY <1>1, <1>2, <1>3
<1>6. QED
  BY <1>4, <1>5, Zenon

LEMMA Concatenated ==
    ASSUME NEW S, NEW s \in Seq(S), NEW t \in Seq(S)
    PROVE  s \o t \in Seq(S) /\ Len(s \o t) = Len(s) + Len(t)
OBVIOUS

\* The line has everybody who is in the queue, those who joined before the sale in the
\* order of their numbers and ahead of the others; so it is when the dead are gone.
LEMMA LineIsInOrder ==
    ASSUME RoomIsOrderly, Users \subseteq Nat, IsFiniteSet(Users), NEW dead,
           NEW n \in 1 .. Len(Without(Line(prequeue, waiting), dead)),
           NEW u \in Users, u = Without(Line(prequeue, waiting), dead)[n],
           NEW w \in Users, Ahead(w, u), w \notin dead
    PROVE  \E m \in 1 .. n - 1 : Without(Line(prequeue, waiting), dead)[m] = w
<1> USE DEF RoomIsOrderly, QueueIsKnown
<1> DEFINE c == Cardinality(prequeue)
           pre == InOrder(prequeue)
           all == Line(prequeue, waiting)
           line == Without(all, dead)
<1>1. prequeue \subseteq Nat /\ IsFiniteSet(prequeue)
  BY FS_Subset
<1>2. /\ c \in Nat
      /\ \A k \in 1 .. c : Nth(prequeue, k) \in prequeue
      /\ \A j, k \in 1 .. c : j < k => Nth(prequeue, j) < Nth(prequeue, k)
      /\ \A x \in prequeue : \E k \in 1 .. c : x = Nth(prequeue, k)
  BY <1>1, Ranked
<1>3. pre = [k \in 1 .. c |-> Nth(prequeue, k)]
  BY DEF InOrder
<1> HIDE DEF c, pre
<1>4. pre \in Seq(Users) /\ Len(pre) = c /\ \A k \in 1 .. c : pre[k] = Nth(prequeue, k)
  <2>1. \A k \in 1 .. c : Nth(prequeue, k) \in Users
    BY <1>2
  <2>2. QED
    BY <1>2, <1>3, <2>1
<1>5. all = pre \o waiting
  BY DEF Line, pre
<1> HIDE DEF all, line
<1>6. /\ all \in Seq(Users) /\ Len(all) = c + Len(waiting) /\ Len(waiting) \in Nat
      /\ \A k \in 1 .. c : all[k] = Nth(prequeue, k)
  <2>1. waiting \in Seq(Users) /\ Len(waiting) \in Nat
    OBVIOUS
  <2>2. all \in Seq(Users) /\ Len(all) = c + Len(waiting)
    BY <1>4, <1>5, <2>1, Concatenated
  <2>3. \A k \in 1 .. c : all[k] = pre[k]
    BY <1>2, <1>4, <1>5, <2>1
  <2>4. QED
    BY <1>4, <2>1, <2>2, <2>3
<1>7. \A k \in 1 .. Len(waiting) : all[c + k] = waiting[k] /\ c + k \in 1 .. Len(all)
  BY <1>2, <1>4, <1>5, <1>6
<1>8. n \in 1 .. Len(line) /\ u = line[n] /\ line = Without(all, dead)
  BY DEF line, all
<1>9. PICK b \in 1 .. Len(all) :
         /\ all[b] = u
         /\ \A a \in 1 .. b - 1 : all[a] \notin dead => \E m \in 1 .. n - 1 : line[m] = all[a]
  <2>1. all \in Seq(Users)
    BY <1>6
  <2>2. line = Without(all, dead) /\ n \in 1 .. Len(line) /\ u = line[n]
    BY <1>8
  <2>3. \E b \in 1 .. Len(all) :
          /\ all[b] = line[n]
          /\ \A a \in 1 .. b - 1 : all[a] \notin dead => \E m \in 1 .. n - 1 : line[m] = all[a]
    BY ONLY <2>1, <2>2, WhoIsAheadStays
  <2>4. QED
    BY <2>2, <2>3
<1>10. all[b] = u /\ b \in Nat
  BY <1>6, <1>9
<1>11. \E a \in 1 .. Len(all) : all[a] = w /\ a < b
  <2>1. ASSUME w \in prequeue, u \in prequeue => w < u
        PROVE  \E a \in 1 .. Len(all) : all[a] = w /\ a < b
    <3>1. PICK a \in 1 .. c : w = Nth(prequeue, a)
      BY <1>2, <2>1
    <3>2. a \in 1 .. Len(all) /\ all[a] = w
      BY <1>2, <1>6, <3>1
    <3>3. a < b
      <4>1. CASE b \in 1 .. c
        <5>1. u = Nth(prequeue, b) /\ u \in prequeue
          BY <1>2, <1>6, <1>10, <4>1
        <5>2. w < u /\ w \in Nat /\ u \in Nat
          BY <2>1, <5>1
        <5>3. ~(b < a)
          BY <1>2, <3>1, <4>1, <5>1, <5>2
        <5>4. a # b
          BY <3>1, <5>1, <5>2
        <5>5. QED
          BY <1>2, <4>1, <5>3, <5>4
      <4>2. CASE b \notin 1 .. c
        BY <1>2, <1>6, <4>2
      <4>3. QED
        BY <4>1, <4>2
    <3>4. QED
      BY <3>2, <3>3
  <2>2. ASSUME NEW j \in DOMAIN waiting, NEW k \in DOMAIN waiting, j < k,
               waiting[j] = w, waiting[k] = u
        PROVE  \E a \in 1 .. Len(all) : all[a] = w /\ a < b
    <3>1. j \in 1 .. Len(waiting) /\ k \in 1 .. Len(waiting)
      OBVIOUS
    <3>2. all[c + j] = w /\ c + j \in 1 .. Len(all)
      BY <1>7, <2>2, <3>1
    <3>3. b \notin 1 .. c
      BY <1>2, <1>6, <1>10, <2>2
    <3>4. PICK x \in 1 .. Len(waiting) : b = c + x
      <4>1. b - c \in 1 .. Len(waiting) /\ b = c + (b - c)
        BY <1>2, <1>6, <3>3
      <4>2. QED
        BY <4>1
    <3>5. waiting[x] = u /\ x \in DOMAIN waiting
      BY <1>7, <1>10, <3>4
    <3>6. x = k
      BY <2>2, <3>5
    <3>7. c + j < b
      BY <1>2, <2>2, <3>1, <3>4, <3>6
    <3>8. QED
      BY <3>2, <3>7
  <2>3. QED
    BY <2>1, <2>2 DEF Ahead
<1>12. PICK a \in 1 .. Len(all) : all[a] = w /\ a < b
  BY <1>11
<1>13. a \in 1 .. b - 1
  BY <1>6, <1>10, <1>12
<1>14. QED
  BY <1>9, <1>12, <1>13 DEF line, all

\* The living whom the script comes to first, and whether it goes on to a position.
Before(line, alive, n) == {line[k] : k \in 1 .. n - 1} \cap alive

GoesOnTo(line, alive, active, tokens, n) ==
    /\ n <= Batch
    /\ Cardinality(Before(line, alive, n)) < tokens
    /\ Cardinality(active \cup Before(line, alive, n)) < Capacity

LEMMA LookedAtMeans ==
    ASSUME NEW line, NEW alive, NEW active, NEW tokens
    PROVE  \A u : u \in LookedAt(line, alive, active, tokens) <=>
              \E n \in 1 .. Len(line) : u = line[n] /\ GoesOnTo(line, alive, active, tokens, n)
<1>1. LookedAt(line, alive, active, tokens) =
         {line[m] : m \in {n \in 1 .. Len(line) : GoesOnTo(line, alive, active, tokens, n)}}
  BY DEF LookedAt, GoesOnTo, Before
<1>2. QED
  BY <1>1

\* Whoever is looked at, so is everybody ahead.
LEMMA TurnsAreTaken ==
    ASSUME NEW line, NEW alive, NEW active, NEW tokens \in Nat, NEW n \in Nat, NEW m \in 1 .. n,
           IsFiniteSet(alive), IsFiniteSet(active), ConstantsAssumption,
           GoesOnTo(line, alive, active, tokens, n)
    PROVE  GoesOnTo(line, alive, active, tokens, m)
<1> DEFINE before(k) == Before(line, alive, k)
<1>1. before(m) \subseteq before(n) /\ before(n) \subseteq alive
  <2>1. 1 .. m - 1 \subseteq 1 .. n - 1
    OBVIOUS
  <2>2. QED
    BY <2>1 DEF Before
<1>2. IsFiniteSet(before(n)) /\ IsFiniteSet(before(m))
  BY <1>1, FS_Subset
<1>3. IsFiniteSet(active \cup before(n)) /\ IsFiniteSet(active \cup before(m))
  BY <1>2, FS_Union
<1>4. Cardinality(before(m)) <= Cardinality(before(n))
  BY <1>1, <1>2, FS_Subset
<1>5. Cardinality(active \cup before(m)) <= Cardinality(active \cup before(n))
  <2>1. active \cup before(m) \in SUBSET (active \cup before(n))
    BY <1>1
  <2>2. QED
    BY <1>3, <2>1, FS_Subset
<1>6. /\ Cardinality(before(m)) \in Nat /\ Cardinality(before(n)) \in Nat
      /\ Cardinality(active \cup before(m)) \in Nat /\ Cardinality(active \cup before(n)) \in Nat
  BY <1>2, <1>3, FS_CardinalityType
<1>7. Capacity \in Nat /\ Batch \in Nat
  BY DEF ConstantsAssumption
<1> HIDE DEF before
<1>8. n <= Batch /\ Cardinality(before(n)) < tokens /\ Cardinality(active \cup before(n)) < Capacity
  BY DEF GoesOnTo, before
<1>9. m <= Batch /\ Cardinality(before(m)) < tokens /\ Cardinality(active \cup before(m)) < Capacity
  BY <1>4, <1>5, <1>6, <1>7, <1>8
<1>10. QED
  BY <1>9 DEF GoesOnTo, before

\* With those who are let in the capacity is at most reached: the last of them was looked
\* at while there was room for one more.
LEMMA CapacityIsKept ==
    ASSUME NEW line, Len(line) \in Nat, NEW alive, NEW active, NEW tokens,
           IsFiniteSet(alive), IsFiniteSet(active), ConstantsAssumption,
           NEW u \in LookedAt(line, alive, active, tokens) \cap alive
    PROVE  Cardinality(active \cup (LookedAt(line, alive, active, tokens) \cap alive)) <= Capacity
<1> DEFINE in == LookedAt(line, alive, active, tokens) \cap alive
           T == {n \in 1 .. Len(line) : line[n] \in alive /\ GoesOnTo(line, alive, active, tokens, n)}
<1>1. /\ T \subseteq 0 .. Len(line) /\ T # {}
      /\ \A w \in in : \E n \in T : w = line[n]
  BY LookedAtMeans
<1>2. PICK n \in T : \A k \in T : k <= n
  BY <1>1, Greatest
<1> DEFINE before == Before(line, alive, n)
           held == active \cup before
<1>3. Cardinality(held) < Capacity
  BY <1>2 DEF GoesOnTo
<1>4. in \subseteq before \cup {line[n]}
  <2> SUFFICES ASSUME NEW w \in in, w # line[n] PROVE w \in before
    OBVIOUS
  <2>1. PICK k \in T : w = line[k]
    BY <1>1
  <2>2. k \in 1 .. n - 1
    BY <1>2, <2>1
  <2>3. QED
    BY <2>1, <2>2 DEF Before
<1>5. IsFiniteSet(held) /\ Cardinality(held) \in Nat
  <2>1. before \subseteq alive
    BY DEF Before
  <2>2. IsFiniteSet(before)
    BY <2>1, FS_Subset
  <2>3. IsFiniteSet(held)
    BY <2>2, FS_Union
  <2>4. QED
    BY <2>3, FS_CardinalityType
<1>6. active \cup in \in SUBSET (held \cup {line[n]})
  BY <1>4
<1> HIDE DEF held, in, before
<1>7. /\ IsFiniteSet(held \cup {line[n]})
      /\ Cardinality(held \cup {line[n]}) \in {Cardinality(held), Cardinality(held) + 1}
  BY <1>5, FS_AddElement
<1>8. /\ Cardinality(active \cup in) <= Cardinality(held \cup {line[n]})
      /\ Cardinality(active \cup in) \in Nat
  BY <1>6, <1>7, FS_Subset, FS_CardinalityType
<1>9. Cardinality(active \cup in) <= Capacity
  BY <1>3, <1>5, <1>7, <1>8 DEF ConstantsAssumption
<1>10. QED
  BY <1>9 DEF in

LEMMA ScriptReleasesInTurn ==
    ASSUME RoomIsOrderly, ConstantsAssumption, NEW tokens \in Nat, Script(tokens)
    PROVE  ReleasesInTurn
<1>1. PICK p \in Some(Lapsed(presence)), l \in Some(Lapsed(lease)) :
         LetIn((p \cup l) \cup Seen(p \cup l, tokens), Seen(p \cup l, tokens) \cap Living(p \cup l))
  BY ScriptMeans
<1> DEFINE dead == p \cup l
           alive == Living(dead)
           active == Holding(dead)
           line == Without(Line(prequeue, waiting), dead)
           seen == Seen(dead, tokens)
           in == seen \cap alive
           gone == dead \cup seen
<1>2. LetIn(gone, in) /\ in \subseteq gone
  BY <1>1
<1>3. Users \subseteq Nat /\ IsFiniteSet(Users)
  BY DEF ConstantsAssumption
<1>4. IsFiniteSet(alive) /\ IsFiniteSet(active)
  <2>1. alive \subseteq Users /\ active \subseteq Users
    BY DEF Living, Holding
  <2>2. QED
    BY <1>3, <2>1, FS_Subset
<1>5. Len(line) \in Nat
  <2>1. prequeue \subseteq Nat /\ prequeue \subseteq Users /\ IsFiniteSet(prequeue)
        /\ waiting \in Seq(Users)
    BY <1>3, FS_Subset DEF RoomIsOrderly, QueueIsKnown
  <2>2. /\ Cardinality(prequeue) \in Nat
        /\ \A k \in 1 .. Cardinality(prequeue) : Nth(prequeue, k) \in Users
    BY <2>1, Ranked
  <2>3. InOrder(prequeue) \in Seq(Users)
    BY <2>2 DEF InOrder
  <2>4. Line(prequeue, waiting) \in Seq(Users)
    BY <2>1, <2>3, Concatenated DEF Line
  <2>5. line \in Seq(Users)
    BY <2>4, WithoutKeepsOrder
  <2>6. QED
    BY <2>5
<1>6. \A u \in in : seen = LookedAt(line, alive, active, tokens)
  BY DEF Seen
<1> HIDE DEF line, alive, active, seen
<1>7. /\ RoomIsOrderly'
      /\ \A u \in Users :
            /\ Queued(u)' <=> Queued(u) /\ u \notin gone
            /\ presence'[u] = IF u \in gone THEN "none" ELSE presence[u]
            /\ lease'[u] = IF u \in in THEN "alive" ELSE IF u \in gone THEN "none" ELSE lease[u]
  BY <1>2, LetInMeans
<1> SUFFICES ASSUME NEW u \in Users, lease[u] # "alive", lease'[u] = "alive"
             PROVE  /\ \A w \in Users : Joined(w) /\ Ahead(w, u) => ~Joined(w)'
                    /\ ~Joined(u)'
                    /\ Cardinality({w \in Users : lease'[w] # "none"}) <= Capacity
  BY DEF ReleasesInTurn
<1>8. u \in in /\ u \in seen /\ u \in gone
  BY <1>7
<1>9. seen = LookedAt(line, alive, active, tokens)
  BY <1>6, <1>8
<1>10. \A w \in Users : w \in gone => ~Joined(w)'
  BY <1>7 DEF Joined
<1>11. ASSUME NEW w \in Users, Ahead(w, u), w \notin dead
       PROVE  w \in seen
  <2>1. PICK n \in 1 .. Len(line) : u = line[n] /\ GoesOnTo(line, alive, active, tokens, n)
    BY <1>8, <1>9, LookedAtMeans
  <2>2. PICK m \in 1 .. n - 1 : line[m] = w
    BY <1>3, <1>11, <2>1, LineIsInOrder DEF line
  <2>3. n \in Nat /\ m \in 1 .. n /\ m \in 1 .. Len(line)
    BY <1>5
  <2>4. GoesOnTo(line, alive, active, tokens, m)
    BY <1>4, <2>1, <2>3, TurnsAreTaken
  <2>5. QED
    BY <1>9, <2>2, <2>3, <2>4, LookedAtMeans
<1>12. \A w \in Users : Ahead(w, u) => w \in gone
  BY <1>11
<1>13. Cardinality({w \in Users : lease'[w] # "none"}) <= Capacity
  <2> DEFINE held == {w \in Users : lease'[w] # "none"}
  <2>1. Cardinality(active \cup in) <= Capacity
    BY <1>4, <1>5, <1>8, <1>9, CapacityIsKept
  <2>2. held \subseteq active \cup in
    <3> SUFFICES ASSUME NEW w \in Users, lease'[w] # "none", w \notin in PROVE w \in active
      OBVIOUS
    <3>1. w \notin dead /\ lease[w] # "none"
      BY <1>7
    <3>2. QED
      BY <3>1 DEF active, Holding
  <2>3. IsFiniteSet(active \cup in)
    <3>1. IsFiniteSet(in)
      BY <1>4, FS_Subset
    <3>2. QED
      BY <1>4, <3>1, FS_Union
  <2>4. Cardinality(held) <= Cardinality(active \cup in) /\ IsFiniteSet(held)
    BY <2>2, <2>3, FS_Subset
  <2>5. Cardinality(held) \in Nat /\ Cardinality(active \cup in) \in Nat
    BY <2>3, <2>4, FS_CardinalityType
  <2>6. QED
    BY <2>1, <2>4, <2>5 DEF ConstantsAssumption
<1>14. QED
  BY <1>8, <1>10, <1>12, <1>13

LEMMA ReleasesAreInTurn == ConstantsAssumption /\ RoomIsOrderly /\ [Next]_vars => ReleasesInTurn
<1> SUFFICES ASSUME ConstantsAssumption, RoomIsOrderly, [Next]_vars PROVE ReleasesInTurn
  OBVIOUS
<1>1. CASE \A u \in Users : lease'[u] = "alive" => lease[u] = "alive"
  BY <1>1 DEF ReleasesInTurn
<1>2. CASE UNCHANGED lease \/ EmptyRoom
  BY <1>1, <1>2 DEF EmptyRoom
<1>3. ASSUME NEW i \in Instances, Sync(i) \/ SyncUnanswered(i) PROVE ReleasesInTurn
  BY <1>2, <1>3 DEF Sync, SyncUnanswered, Project, redis, room
<1>4. ASSUME NEW i \in Instances, TickFails(i) \/ TickRefused(i) \/ \E n \in Nat : Tick(i, n)
      PROVE  ReleasesInTurn
  <2>1. UNCHANGED lease \/ \E n \in Nat : Script(n)
    BY <1>4 DEF TickFails, TickRefused, Tick, room, ConstantsAssumption
  <2>2. QED
    BY <1>2, <2>1, ScriptReleasesInTurn
<1>5. ASSUME NEW i \in Instances,
             \/ Read(i) \/ TickBegins(i) \/ Reset(i) \/ Mark(i) \/ Publish(i) \/ Invalidate(i)
             \/ RefreshFails(i) \/ Unschedule(i) \/ Pause(i) \/ Crash(i)
             \/ \E mode \in Modes : Update(i, mode)
      PROVE  ReleasesInTurn
  <2>1. UNCHANGED lease
    BY <1>5 DEF Read, TickBegins, Reset, Mark, Publish, Invalidate, RefreshFails, Unschedule, Pause,
                Crash, Update, redis, room
  <2>2. QED
    BY <1>2, <2>1
<1>6. ASSUME NEW i \in Instances, GoesOn(i) PROVE ReleasesInTurn
  <2>1. MaxTokens \in Nat /\ 0 \in Nat /\ 1 .. MaxTokens \subseteq Nat
    BY DEF ConstantsAssumption
  <2>2. QED
    BY <1>3, <1>4, <1>5, <1>6, <2>1 DEF GoesOn, LetsIn
<1>7. ASSUME NEW u \in Users, Join(u) \/ Leave(u) \/ Lapse(u) PROVE ReleasesInTurn
  <2>1. lease \in [Users -> States]
    BY DEF RoomIsOrderly, QueueIsKnown
  <2>2. lease' = lease \/ \E s \in {"none", "lapsed"} : lease' = [lease EXCEPT ![u] = s]
    BY <1>7 DEF Join, Leave, Lapse
  <2>3. QED
    BY <1>1, <2>1, <2>2
<1>8. CASE ClockTicks \/ PauseEnds
  BY <1>2, <1>8 DEF ClockTicks, PauseEnds, redis, room
<1>9. CASE RedisLosesItsData
  BY <1>2, <1>9 DEF RedisLosesItsData
<1>10. CASE UNCHANGED vars
  BY <1>2, <1>10 DEF vars, redis, room
<1>11. QED
  BY <1>3, <1>4, <1>5, <1>6, <1>7, <1>8, <1>9, <1>10 DEF Next

\* Whoever lives in the queue keeps the place until it is let in, leaves or is late, or
\* until the room is lost or changes its namespace (sync and tick in waiting_room.lua).
THEOREM KeepsPlacesCorrect == Spec => [][KeepsPlaces]_vars
BY QueueInvCorrect, PlacesAreKept, PTL DEF Spec

\* A tick lets users in in the order of the queue, and none beyond the capacity.
THEOREM ReleasesInTurnCorrect == ConstantsAssumption /\ Spec => [][ReleasesInTurn]_vars
<1>1. IInv /\ QueueInv /\ ConstantsAssumption /\ [Next]_vars => ReleasesInTurn
  BY ReleasesAreInTurn DEF QueueInv
<1>2. CASE ConstantsAssumption
  BY <1>1, <1>2, QueueInvCorrect, PTL DEF Spec
<1>3. QED
  BY <1>2
================================================================================
