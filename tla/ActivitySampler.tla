-------------------------- MODULE ActivitySampler --------------------------
(***************************************************************************)
(* Samples taken through one long-lived command: a psql that is asked      *)
(* again and again (scripts/phase14_pg_stream.py, ActivityConnection), by  *)
(* the thread that records PostgreSQL's activity during a case ("light",   *)
(* phase14_sampling.py, LightPostgresSampler) or for one reading of its    *)
(* clock ("clock", postgres_clock_sample), and a remote python that tells  *)
(* the time of its host ("host", phase14_topology.py, HostClock).          *)
(*                                                                         *)
(* Questions go into the command's stdin; a reader thread puts what the    *)
(* command prints into a queue. Nothing in an answer says which question   *)
(* it is to, and whoever waits for one gives up after ten seconds.         *)
(***************************************************************************)
EXTENDS Naturals, Sequences

CONSTANTS
    Users,      \* a subset of "light", "clock" and "host"
    MaxAsked    \* bound on the questions of "light"; what "host" asks for

ConstantsAssumption ==
    /\ Users \subseteq {"light", "clock", "host"}
    /\ MaxAsked \in Nat \ {0}

VARIABLES
    user,     \* who takes the samples
    pc,       \* where the owner of the connection is
    asked,    \* the last question, 0: the handshake
    known,    \* the handshake was answered
    pipe,     \* stdin: questions, or Quit, that the command has not read
    lines,    \* the queue: answers, each by its question, or EndOfLines
    command,  \* "none", "up", "down"
    samples,  \* what was recorded: a question and the answer to it
    failed,   \* an error was noted, or raised
    closed,   \* close() came to its end
    done,     \* stop() has told the thread to end
    report    \* "none", "clean", "errors"

(* What is told apart from a question and from an answer to one.           *)
Quit == MaxAsked + 1
EndOfLines == MaxAsked + 1

owner == <<pc, asked, known, samples, failed, closed>>
vars == <<user, owner, pipe, lines, command, done, report>>

Init ==
    /\ user \in Users
    /\ pc = "start" /\ asked = 0 /\ known = FALSE
    /\ pipe = <<>> /\ lines = <<>>
    /\ command = "none"
    /\ samples = <<>> /\ failed = FALSE /\ closed = FALSE
    /\ done = FALSE /\ report = "none"

-----------------------------------------------------------------------------
(* The command: it answers in order, for as long as it wants to take. An   *)
(* error ends psql (ON_ERROR_STOP), and so does a connection that is lost. *)

Answer ==
    /\ command = "up" /\ pipe # <<>> /\ Head(pipe) # Quit
    /\ pipe' = Tail(pipe) /\ lines' = Append(lines, Head(pipe))
    /\ UNCHANGED <<user, owner, command, done, report>>

CommandEnds ==
    /\ command = "up"
    /\ command' = "down" /\ lines' = Append(lines, EndOfLines)
    /\ UNCHANGED <<user, owner, pipe, done, report>>

-----------------------------------------------------------------------------
(* The owner of the connection.                                            *)

Waiting == pc \in {"handshake", "reading"}

Open ==
    /\ pc = "start"
    /\ command' = "up" /\ pipe' = <<asked>>
    /\ pc' = "handshake"
    /\ UNCHANGED <<user, asked, known, samples, failed, closed, lines, done, report>>

(* An exception ends the sampling: the connection is closed, except where  *)
(* HostClock() itself gets no answer, for nobody has it to close it.       *)
Fail ==
    /\ failed' = TRUE
    /\ pc' = IF user = "host" /\ pc = "handshake" /\ lines = <<>> THEN "ended" ELSE "close"

Receive ==
    /\ Waiting /\ lines # <<>>
    /\ lines' = Tail(lines)
    /\ IF Head(lines) = EndOfLines THEN Fail /\ UNCHANGED <<known, samples>>
       ELSE /\ pc' = "idle" /\ UNCHANGED failed
            /\ known' = TRUE
            /\ samples' = IF pc = "reading"
                          THEN Append(samples, [question |-> asked, answer |-> Head(lines)])
                          ELSE samples
    /\ UNCHANGED <<user, asked, closed, pipe, command, done, report>>

(* lines.get(timeout=10) raises. The answer may come after that.           *)
Mutant_AsksAgain ==
    /\ Waiting /\ lines = <<>>
    /\ IF pc = "handshake" THEN Fail ELSE pc' = "idle" /\ UNCHANGED failed
    /\ UNCHANGED <<user, asked, known, samples, closed, pipe, lines, command, done, report>>

GiveUp ==
    /\ Waiting /\ lines = <<>>
    /\ Fail
    /\ UNCHANGED <<user, asked, known, samples, closed, pipe, lines, command, done, report>>

(* How many samples are taken: until it is told to stop, one, or five.     *)
Enough == CASE user = "light" -> done
            [] user = "clock" -> Len(samples) = 1
            [] user = "host" -> Len(samples) = MaxAsked

Ask ==
    /\ pc = "idle" /\ ~Enough /\ asked < MaxAsked
    /\ IF command = "up"
       THEN asked' = asked + 1 /\ pipe' = Append(pipe, asked + 1) /\ pc' = "reading" /\ UNCHANGED failed
       ELSE Fail /\ UNCHANGED <<asked, pipe>>
    /\ UNCHANGED <<user, known, samples, closed, lines, command, done, report>>

Finish ==
    /\ pc = "idle" /\ Enough
    /\ pc' = "close"
    /\ UNCHANGED <<user, asked, known, samples, failed, closed, pipe, lines, command, done, report>>

(* close(): a command that still runs is told to quit; psql reads that     *)
(* only after it has answered what was asked before.                       *)
Close ==
    /\ pc = "close"
    /\ IF command = "up" THEN pipe' = Append(pipe, Quit) /\ pc' = "quitting"
                         ELSE pc' = "joining" /\ UNCHANGED pipe
    /\ UNCHANGED <<user, asked, known, samples, failed, closed, lines, command, done, report>>

Quits ==
    /\ command = "up" /\ pipe # <<>> /\ Head(pipe) = Quit
    /\ command' = "down" /\ pipe' = Tail(pipe) /\ lines' = Append(lines, EndOfLines)
    /\ UNCHANGED <<user, owner, done, report>>

(* It did not quit in time. psql is ended by terminating its backend, whose*)
(* identifier came with the handshake, and that may fail; the python of    *)
(* HostClock is sent a signal. Either may take effect at any time after.   *)
Force ==
    /\ pc = "quitting" /\ command = "up"
    /\ pc' = "forced"
    /\ UNCHANGED <<user, asked, known, samples, failed, closed, pipe, lines, command, done, report>>

ForceFails ==
    /\ pc = "quitting" /\ command = "up"
    /\ user # "host" /\ known
    /\ pc' = "ended" /\ failed' = TRUE
    /\ UNCHANGED <<user, asked, known, samples, closed, pipe, lines, command, done, report>>

Ended ==
    /\ pc \in {"quitting", "forced"} /\ command = "down"
    /\ pc' = "joining"
    /\ UNCHANGED <<user, asked, known, samples, failed, closed, pipe, lines, command, done, report>>

(* process.wait(timeout=10) raises, and the streams stay open.             *)
LeftBehind ==
    /\ pc = "forced" /\ command = "up"
    /\ pc' = "ended" /\ failed' = TRUE
    /\ UNCHANGED <<user, asked, known, samples, closed, pipe, lines, command, done, report>>

Join ==
    /\ pc = "joining"
    /\ pc' = "ended" /\ closed' = TRUE
    /\ UNCHANGED <<user, asked, known, samples, failed, pipe, lines, command, done, report>>

-----------------------------------------------------------------------------
(* Who wants the samples.                                                  *)

Stop ==
    /\ user = "light" /\ ~done
    /\ done' = TRUE
    /\ UNCHANGED <<user, owner, pipe, lines, command, report>>

Report(clean) == report' = IF clean THEN "clean" ELSE "errors"

(* The thread has ended; or the call returns or raises.                    *)
Return ==
    /\ report = "none" /\ pc = "ended"
    /\ user = "light" => done
    /\ Report(~failed)
    /\ UNCHANGED <<user, owner, pipe, lines, command, done>>

(* thread.join(timeout=15): the report says that the sampler did not stop. *)
JoinTimesOut ==
    /\ user = "light" /\ done /\ report = "none" /\ pc # "ended"
    /\ Report(FALSE)
    /\ UNCHANGED <<user, owner, pipe, lines, command, done>>

Owner == Open \/ Receive \/ GiveUp \/ Ask \/ Finish \/ Close \/ Force \/ ForceFails
         \/ Ended \/ LeftBehind \/ Join

Next == Answer \/ CommandEnds \/ Quits \/ Owner \/ Stop \/ Return \/ JoinTimesOut

(* Every wait of the owner is bounded; the command may hang for ever.      *)
Spec == Init /\ [][Next]_vars /\ WF_vars(Owner) /\ WF_vars(Return)

-----------------------------------------------------------------------------
(* A sample is the answer to its own question, though an answer may come   *)
(* after its question was given up (phase14_pg_stream.py, sql;             *)
(* phase14_topology.py, HostClock.sample).                                 *)
AnswersAreTheirs ==
    \A i \in 1..Len(samples) : samples[i].answer = samples[i].question /\ samples[i].question = i

(* A report without an error: nothing of the sampling is left, not the     *)
(* thread, not the command nor its connection to the database, and what    *)
(* was asked for was recorded (LightPostgresSampler.stop,                  *)
(* postgres_clock_sample, clock_check of phase14_campaign.py).             *)
CleanMeansClosed ==
    report = "clean" =>
        /\ pc = "ended" /\ closed /\ command = "down"
        /\ Len(samples) = asked
        /\ user = "clock" => asked = 1
        /\ user = "host" => asked = MaxAsked
=============================================================================
