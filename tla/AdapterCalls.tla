---------------------------- MODULE AdapterCalls ----------------------------
(***************************************************************************)
(* Calls through the adapters that change something on the other side, or  *)
(* that may answer from an old copy: holds, resumes and stage changes at   *)
(* shipyard, read receipts at taskstate, acknowledgements at memx, and     *)
(* workflow's evidence report.                                             *)
(*                                                                         *)
(* A call makes attempts.  Each sends a request; the other side acts on it *)
(* or not, and replies; replies are lost, and a call that waits too long   *)
(* times out, while its request may still be acted on.  The adapter turns  *)
(* the reply into a result.  A caller may try again after a result the     *)
(* adapter says is retryable; nothing in src/ does, and no request carries *)
(* a key that tells a repetition.                                          *)
(*                                                                         *)
(* The systems behind the adapters are external: shipyard resumes a hold   *)
(* that is active, moves a run that is in the stage named, and refuses     *)
(* otherwise; a reply other than success or a server's error means that    *)
(* nothing was done.                                                       *)
(***************************************************************************)
EXTENDS Adapters, FiniteSets

CONSTANTS Calls, MaxAttempts,
          Work(_),     \* the operations a call may be for
          MaxVersion   \* bound on the versions of the evidence

ASSUME CallsAssumptions == MaxAttempts \in Nat \ {0} /\ MaxVersion \in Nat

\* ack is ack_reads over HTTP, ack_cli the same through memx's command.
Commands  == {"receipt", "ack_cli", "report"}
Ops       == {"hold", "resume", "move", "review", "ack"} \cup Commands
Effectful == Ops \ {"report"}

\* A request is a call's attempt; a hold is named for the request that made it.
Requests == Calls \X (1..MaxAttempts)
None     == <<>>

VARIABLES
  op,        \* what a call does, "none" before it starts
  hold,      \* the hold a resume names
  attempt,   \* the number of the attempt a call is at
  inFlight,  \* requests sent that the other side may still act on
  done,      \* requests that had their effect
  result,    \* what the adapter made of the reply to a request, "none" before
  active,    \* the holds active at shipyard
  stage,     \* the run's stage at shipyard: "review", then "publish"
  version,   \* of the evidence
  file,      \* the state of the cache file
  cached,    \* the version in it, 0 when it cannot be read
  started,   \* of a report: the version when it began,
  got,       \* the one it returned,
  ran        \* and the reports whose command answered

shipyard == <<active, stage>>
evidence == <<version, file, cached>>
answers  == <<result, got, ran>>
vars == <<op, hold, attempt, inFlight, done, started, answers, shipyard, evidence>>

Waiting(r)  == r[2] <= attempt[r[1]] /\ result[r] = "none"
Told(o)     == {r \in Requests : op[r[1]] = o /\ result[r] = "ok"}

Init ==
  /\ op = [c \in Calls |-> "none"] /\ hold = [c \in Calls |-> None]
  /\ attempt = [c \in Calls |-> 0]
  /\ inFlight = {} /\ done = {}
  /\ result = [r \in Requests |-> "none"]
  /\ active = {} /\ stage = "review"
  /\ version = 0 /\ file \in FileStates /\ cached = 0
  /\ started = [c \in Calls |-> 0] /\ got = [c \in Calls |-> 0]
  /\ ran = {}
-----------------------------------------------------------------------------
\* What the adapter makes of a reply to each operation.
AdapterResult(o, rep) ==
  IF o \in {"hold", "move"} THEN ShipyardResult(rep, TRUE)
  ELSE IF o = "resume"  THEN ResumeResult(rep)
  ELSE IF o = "review"  THEN GatefieldResult(rep, FALSE)
  ELSE IF o = "receipt" THEN TaskstateResult(rep, FALSE)
  ELSE IF o = "ack"     THEN AckResult(rep, TRUE)
  ELSE IF o = "ack_cli" THEN AckResult(rep, FALSE)
  ELSE IF EvidenceSource(rep, file) = "none" THEN "not_found"
  ELSE IF EvidenceSource(rep, file) = "raw"  THEN "raw"
  ELSE "ok"

\* The version a report returns, when it returns one.
Returned(rep) == IF EvidenceSource(rep, file) = "file" THEN cached ELSE version

\* A reply that arrives while the call waits for it; a later one finds nobody.
Answer(r, rep) ==
  /\ result' = [result EXCEPT ![r] = AdapterResult(op[r[1]], rep)]
  /\ got' = IF op[r[1]] = "report" /\ EvidenceSource(rep, file) \in {"command", "file"}
            THEN [got EXCEPT ![r[1]] = Returned(rep)] ELSE got
  /\ ran' = IF op[r[1]] = "report" /\ rep = "ok" THEN ran \cup {r[1]} ELSE ran

NoAnswer == UNCHANGED answers

\* A call begins: a resume names a hold some caller was told of.
Begin(c, o) ==
  /\ op[c] = "none" /\ o \in Work(c)
  /\ op' = [op EXCEPT ![c] = o]
  /\ IF o = "resume" THEN \E h \in Told("hold") : hold' = [hold EXCEPT ![c] = h]
                     ELSE UNCHANGED hold
  /\ attempt' = [attempt EXCEPT ![c] = 1]
  /\ inFlight' = inFlight \cup {<<c, 1>>}
  /\ started' = [started EXCEPT ![c] = version]
  /\ UNCHANGED <<done, answers, shipyard, evidence>>

\* Another attempt, after a result the adapter calls retryable.
Again(c) ==
  /\ attempt[c] \in 1..(MaxAttempts - 1)
  /\ Retryable(result[<<c, attempt[c]>>])
  /\ attempt' = [attempt EXCEPT ![c] = @ + 1]
  /\ inFlight' = inFlight \cup {<<c, attempt[c] + 1>>}
  /\ UNCHANGED <<op, hold, done, started, answers, shipyard, evidence>>

\* The caller stops waiting, or the connection breaks. A command that takes too
\* long is killed; an HTTP request that was sent can still be acted on.
GiveUp(r) ==
  /\ Waiting(r)
  /\ \E rep \in IF op[r[1]] \in Commands THEN {"timeout"} ELSE {"timeout", "refused"} :
       Answer(r, rep)
  /\ inFlight' = IF op[r[1]] \in Commands THEN inFlight \ {r} ELSE inFlight
  /\ UNCHANGED <<op, hold, attempt, done, started, shipyard, evidence>>
-----------------------------------------------------------------------------
(* The other side.                                                         *)

\* Shipyard takes a resume of an active hold, and a move from the run's stage.
Possible(r) ==
  /\ op[r[1]] = "resume" => hold[r[1]] \in active
  /\ op[r[1]] = "move"   => stage = "review"

\* The other side does what it is asked. The reply can be lost, or be an error.
Act(r) ==
  /\ r \in inFlight /\ Possible(r)
  /\ inFlight' = inFlight \ {r} /\ done' = done \cup {r}
  /\ active' = IF op[r[1]] = "hold" THEN active \cup {r} ELSE active \ {hold[r[1]]}
  /\ stage' = IF op[r[1]] = "move" THEN "publish" ELSE stage
  /\ \/ NoAnswer
     \/ /\ Waiting(r)
        /\ \E rep \in {"ok", "garbled"} \cup
                      IF op[r[1]] \in Commands THEN {"failed", "undecodable"} ELSE {"500"} :
             Answer(r, rep)
  /\ UNCHANGED <<op, hold, attempt, started, evidence>>

\* What it may say when it does nothing. That a transition is not allowed it says of
\* resumes and moves only when that is so.
Declines(r) ==
  IF op[r[1]] = "receipt" THEN {"failed", "undecodable", "missing"}
  ELSE IF op[r[1]] \in Commands THEN {"failed", "undecodable", "missing", "unset"}
  ELSE {"400", "401", "403", "404", "429", "500", "503"} \cup
       IF op[r[1]] \in {"resume", "move"} /\ Possible(r) THEN {} ELSE {"409", "409g"}

\* It declines, or loses the request.
Decline(r) ==
  /\ r \in inFlight
  /\ inFlight' = inFlight \ {r}
  /\ \/ NoAnswer
     \/ Waiting(r) /\ \E rep \in Declines(r) : Answer(r, rep)
  /\ UNCHANGED <<op, hold, attempt, done, started, shipyard, evidence>>

\* Evidence is added; the cache file is written, removed or spoiled.
Publish ==
  /\ version < MaxVersion /\ version' = version + 1
  /\ UNCHANGED <<op, hold, attempt, inFlight, done, started, answers, shipyard, file, cached>>

WriteCache ==
  /\ file' \in FileStates
  /\ cached' = IF file' = "readable" THEN version ELSE 0
  /\ UNCHANGED <<op, hold, attempt, inFlight, done, started, answers, shipyard, version>>

Next ==
  \/ \E c \in Calls : (\E o \in Ops : Begin(c, o)) \/ Again(c)
  \/ \E r \in Requests : GiveUp(r) \/ Act(r) \/ Decline(r)
  \/ Publish \/ WriteCache

Spec == Init /\ [][Next]_vars
-----------------------------------------------------------------------------
(* Properties.                                                             *)

\* The results each operation can have.
Outcomes(o) ==
  IF o \in {"hold", "move"} THEN {"ok", "unavailable", "not_found", "not_allowed", "raw"}
  ELSE IF o = "resume"  THEN {"ok", "unavailable", "not_found", "not_resumed", "raw"}
  ELSE IF o = "review"  THEN {"ok", "unavailable", "contract", "raw"}
  ELSE IF o = "receipt" THEN {"ok", "unavailable", "raw"}
  ELSE IF o = "ack"     THEN {"ok", "ack_failed", "not_found", "raw"}
  ELSE IF o = "ack_cli" THEN {"ok", "ack_failed", "raw"}
  ELSE {"ok", "not_found", "raw"}

\* Types, and each call ends in an answer, an error of its operation or, of every
\* operation, an exception the adapter lets through: what a caller has to be ready for.
TypeOK ==
  /\ op \in [Calls -> Ops \cup {"none"}]
  /\ hold \in [Calls -> Requests \cup {None}]
  /\ attempt \in [Calls -> 0..MaxAttempts]
  /\ inFlight \subseteq Requests /\ done \subseteq Requests /\ active \subseteq Requests
  /\ result \in [Requests -> Results \cup {"none"}]
  /\ stage \in {"review", "publish"}
  /\ version \in 0..MaxVersion
  /\ file \in FileStates /\ cached \in 0..MaxVersion
  /\ started \in [Calls -> 0..MaxVersion] /\ got \in [Calls -> 0..MaxVersion]
  /\ ran \subseteq Calls
  /\ \A r \in Requests : result[r] # "none" => result[r] \in Outcomes(op[r[1]])

\* Which results say that nothing was done.
Refusals == {"not_found", "not_allowed", "not_resumed", "contract"}

\* An answer says that the request did what it asked. A refusal says that it did
\* not and, however late the request is handled, never will: what is left in
\* doubt is never told as a refusal.
AnswersAreTrue ==
  \A r \in Requests : op[r[1]] \in Effectful =>
    /\ result[r] = "ok" => r \in done
    /\ result[r] \in Refusals => r \notin done \cup inFlight

\* Of all the callers and all the attempts that resume one hold, or move the run
\* on, at most one is told that it did. Each of the others that is told it did
\* not is told so when that has happened, though possibly by its own earlier
\* attempt.
OneIsTold ==
  /\ \A r, s \in Told("resume") : hold[r[1]] = hold[s[1]] => r = s
  /\ \A r, s \in Told("move") : r = s
  /\ \A r \in Requests :
       /\ result[r] = "not_resumed" => hold[r[1]] \notin active
       /\ op[r[1]] = "move" /\ result[r] = "not_allowed" => stage = "publish"

\* A report older than the evidence was when it was asked for comes only after
\* the command has failed: the cache file never stands in for an answer.
OldEvidenceOnlyAfterFailure ==
  \A r \in Told("report") : got[r[1]] < started[r[1]] => r[1] \notin ran
=============================================================================
