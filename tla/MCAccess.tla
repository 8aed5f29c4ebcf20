------------------------------ MODULE MCAccess ------------------------------
(***************************************************************************)
(* Instances of what stands before every request: the sessions of the      *)
(* users, and the waiting room of an event - with two instances of the     *)
(* backend (Pair), with one whose mode takes turns (Turns), and with three *)
(* users (Queue).  A behaviour is that of one of them, and the others stay *)
(* in their initial state.                                                 *)
(* The rooms are instances of WaitingRoom with its theorems.               *)
(***************************************************************************)
EXTENDS AuthSessions, Sequences

VARIABLES
    system, \* the one this behaviour is of
    clock, log, marked, runtime, scheduled, prequeue, waiting, presence, lease, paused,
    snapshot, ready, dirty, moved, doing, rows, owing, offered, faults, since, lost

Pair == INSTANCE WaitingRoomProofs WITH
    Users <- {3}, Instances <- {"a", "b"}, Modes <- {"ENFORCED"},
    Capacity <- 1, Batch <- 1, MaxTokens <- 1, MaxVersion <- 1, MaxFaults <- 1

Turns == INSTANCE WaitingRoomProofs WITH
    Users <- {3}, Instances <- {"a"}, Modes <- {"OFF", "OBSERVE", "PAUSED", "ENFORCED"},
    Capacity <- 1, Batch <- 1, MaxTokens <- 1, MaxVersion <- 2, MaxFaults <- 1

Queue == INSTANCE WaitingRoomProofs WITH
    Users <- {1, 2, 3}, Instances <- {"a"}, Modes <- {"PAUSED", "ENFORCED"},
    Capacity <- 1, Batch <- 2, MaxTokens <- 1, MaxVersion <- 1, MaxFaults <- 0

ASSUME RoomsAreValid ==
    Pair!ConstantsAssumption /\ Turns!ConstantsAssumption /\ Queue!ConstantsAssumption

roomVars == <<clock, log, marked, runtime, scheduled, prequeue, waiting, presence, lease,
    paused, snapshot, ready, dirty, moved, doing, rows, owing, offered, faults, since, lost>>

everything == <<system, vars, roomVars>>

(* Who asks: readers of one session, also with its logout (which begins as *)
(* a strict request), or with one of another session that needs the same   *)
(* permit.                                                                 *)
Callers == {
    <<<<"read", "t1">>, <<"read", "t1">>, <<"read", "t1">>>>,
    <<<<"read", "t1">>, <<"read", "t1">>, <<"logout", "t1">>>>,
    <<<<"read", "t1">>, <<"read", "t2">>, <<"logout", "t1">>>>}

AccessInit ==
    /\ system \in {"auth", "pair", "turns", "queue"}
    /\ Init
    /\ \E c \in Callers : kind = [q \in 1 .. 3 |-> c[q][1]] /\ token = [q \in 1 .. 3 |-> c[q][2]]
    /\ system = "auth" \/ (kind[3] = "read" /\ token[2] = "t1")
    /\ CASE system = "turns" -> Turns!Init /\ clock = "sale"
         [] system = "queue" -> Queue!Init /\ clock = "closed"
         [] OTHER -> Pair!Init /\ clock = "sale"

(* Only the sale that three users wait for also opens and ends, and in the *)
(* pair nobody is late and the only fault is that a place is lost.         *)
AccessNext ==
    \/ /\ system = "auth" /\ Next /\ UNCHANGED <<system, roomVars>>
       /\ disabled' \union expired' \subseteq {token[q] : q \in Requests}
    \/ /\ system = "pair" /\ UNCHANGED <<system, clock, vars>> /\ Pair!Next
       /\ \/ faults' = faults
          \/ since[3] # 0 /\ lost' # lost
       /\ presence'[3] # "lapsed" /\ lease'[3] # "lapsed"
    \/ system = "turns" /\ UNCHANGED <<system, clock, vars>> /\ Turns!Next
    \/ system = "queue" /\ Queue!Next /\ UNCHANGED <<system, vars>>

(* A step of the waiting room that is looked at.                           *)
Of(pair, turns, queue) ==
    /\ \/ system = "pair" /\ pair
       \/ system = "turns" /\ turns
       \/ system = "queue" /\ queue
    /\ UNCHANGED <<system, vars>>

One(i) == i = "a"

(* The fairness of AuthSessions and of WaitingRoom, as far as it is needed:*)
(* what happens only finitely often shares one condition.                  *)
AccessFairness ==
    /\ \A i \in {"a", "b"} :
          /\ WF_everything(Of(Pair!GoesOn(i), One(i) /\ Turns!GoesOn(i), One(i) /\ Queue!GoesOn(i)))
          /\ SF_everything(Of(Pair!Read(i), One(i) /\ Turns!Read(i), One(i) /\ Queue!Read(i)))
          /\ SF_everything(Of(Pair!TickBegins(i), One(i) /\ Turns!TickBegins(i),
                              One(i) /\ Queue!TickBegins(i)))
          /\ SF_everything(Of(Pair!LetsIn(i), One(i) /\ Turns!LetsIn(i), One(i) /\ Queue!LetsIn(i)))
    /\ WF_everything(
          \/ system = "auth" /\ (\E q \in Requests : Step(q)) /\ UNCHANGED <<system, roomVars>>
          \/ Of(Pair!PauseEnds \/ \E i \in {"a", "b"} : Pair!Invalidate(i),
                Turns!PauseEnds \/ Turns!Invalidate("a"),
                Queue!PauseEnds \/ Queue!Invalidate("a")))

AccessSpec == AccessInit /\ [][AccessNext]_everything /\ AccessFairness

-----------------------------------------------------------------------------
(* Places and leases of the waiting room are good only in the namespace    *)
(* that they were taken in, and those that Redis has lost are not taken for*)
(* kept (AdmissionPolicy.cpp, AdmissionRuntime.cpp).                       *)
QualificationsStayApart ==
    /\ system = "pair" => Pair!NamespacesApart /\ Pair!SettledLossIsNoticed
    /\ system = "turns" => Turns!NamespacesApart /\ Turns!SettledLossIsNoticed
    /\ system = "queue" => Queue!NamespacesApart /\ Queue!SettledLossIsNoticed

(* Nobody who lives in the waiting room loses the place, or is overtaken by*)
(* who is let in, and no more are let in than there may be                 *)
(* (waiting_room.lua).                                                     *)
QueueIsInOrder ==
    [][/\ system = "pair" => Pair!KeepsPlaces /\ Pair!ReleasesInTurn
       /\ system = "turns" => Turns!KeepsPlaces /\ Turns!ReleasesInTurn
       /\ system = "queue" => Queue!KeepsPlaces /\ Queue!ReleasesInTurn]_everything

(* Every request is authenticated or refused in the end, those that wait   *)
(* for the answer to another one included (authenticateReadOnly); whoever  *)
(* lives in the waiting room is let in if there is room for long enough    *)
(* (tick), the last user too; and every instance comes to know the stored  *)
(* policy (refresh).                                                       *)
Unserved ==
    \/ system = "auth" /\ \E q \in Requests : at[q] \notin {"new", "over"}
    \/ system = "pair" /\ Pair!Unserved(3)
    \/ system = "turns" /\ Turns!Unserved(3)
    \/ system = "queue" /\ Queue!Unserved(3)

EveryoneIsServed == Unserved ~> ~Unserved

-----------------------------------------------------------------------------
(* The pair alone, with every fault: a place that Redis has lost is not    *)
(* taken for kept (AdmissionRuntime.cpp).                                  *)
LossSpec ==
    /\ AccessInit /\ system = "pair"
    /\ [][Pair!Next /\ UNCHANGED <<system, clock, vars>>]_everything

LossIsNoticed == Pair!LossIsNoticed
=============================================================================
