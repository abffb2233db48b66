------------------------- MODULE AdapterCalls_proofs -------------------------
(***************************************************************************)
(* Proofs about AdapterCalls, for any number of calls and attempts: the    *)
(* results each operation can have, what an answer and a refusal say, and  *)
(* that one caller at most is told.                                        *)
(***************************************************************************)
EXTENDS AdapterCalls, TLAPS

USE DEF Requests, Effectful, Commands, Ops

Kinds ==
  /\ op \in [Calls -> Ops \cup {"none"}]
  /\ hold \in [Calls -> Requests \cup {None}]
  /\ attempt \in [Calls -> 0..MaxAttempts]
  /\ inFlight \subseteq Requests /\ done \subseteq Requests /\ active \subseteq Requests
  /\ result \in [Requests -> Results \cup {"none"}]
  /\ stage \in {"review", "publish"}
  /\ version \in 0..MaxVersion
  /\ file \in FileStates /\ cached \in 0..MaxVersion
  /\ started \in [Calls -> 0..MaxVersion] /\ got \in [Calls -> 0..MaxVersion]
  /\ ran \subseteq Calls

\* What is known of a request, was sent by a call that had begun.
Sent ==
  /\ \A c \in Calls : op[c] = "none" => attempt[c] = 0
  /\ \A r \in Requests :
       r \in inFlight \cup done \/ result[r] # "none" => r[2] <= attempt[r[1]]
  /\ inFlight \cap done = {}

Expected == \A r \in Requests : result[r] # "none" => result[r] \in Outcomes(op[r[1]])

\* A resume names a hold that was made; it ends when the hold does.
Resumes ==
  /\ \A c \in Calls : op[c] = "resume" => hold[c] \in done
  /\ \A r \in done : op[r[1]] = "resume" => hold[r[1]] \notin active
  /\ \A r, s \in done :
       op[r[1]] = "resume" /\ op[s[1]] = "resume" /\ hold[r[1]] = hold[s[1]] => r = s
  /\ \A r \in Requests : result[r] = "not_resumed" =>
       op[r[1]] = "resume" /\ hold[r[1]] \notin active

Moves ==
  /\ \A r \in done : op[r[1]] = "move" => stage = "publish"
  /\ \A r, s \in done : op[r[1]] = "move" /\ op[s[1]] = "move" => r = s
  /\ \A r \in Requests : op[r[1]] = "move" /\ result[r] = "not_allowed" => stage = "publish"

Reports ==
  /\ \A c \in Calls : started[c] <= version
  /\ \A c \in ran : got[c] >= started[c]
  /\ \A c \in Calls : op[c] = "report" => attempt[c] <= 1
  /\ \A c \in ran : op[c] = "report" /\ result[<<c, 1>>] # "none"
-----------------------------------------------------------------------------
(* The tables of Adapters.                                                 *)

\* Whatever comes back, an operation's result is one of those it documents.
LEMMA ResultExpected ==
  ASSUME NEW o \in Ops, NEW rep
  PROVE  AdapterResult(o, rep) \in Outcomes(o) /\ AdapterResult(o, rep) \in Results
BY DEF AdapterResult, Outcomes, Results, ShipyardResult, ResumeResult, GatefieldResult,
       TaskstateResult, AckResult, MemxResult

\* An operation with an effect has an answer only from a reply that is one.
LEMMA OkIsOk ==
  ASSUME NEW o \in Effectful, NEW rep, AdapterResult(o, rep) = "ok"
  PROVE  rep = "ok"
BY DEF AdapterResult, ShipyardResult, ResumeResult, GatefieldResult, TaskstateResult,
       AckResult, MemxResult

\* What is told as a refusal was refused by the other side.
LEMMA RefusedIsRefused ==
  ASSUME NEW o \in Effectful, NEW rep, AdapterResult(o, rep) \in Refusals
  PROVE  rep \in {"400", "401", "403", "404", "409"}
BY DEF AdapterResult, ShipyardResult, ResumeResult, GatefieldResult, TaskstateResult,
       AckResult, MemxResult, Refusals

\* A transition that is told as not allowed was answered with a conflict.
LEMMA NotAllowedIsConflict ==
  ASSUME NEW o \in Ops, NEW rep,
         \/ AdapterResult(o, rep) = "not_resumed"
         \/ AdapterResult(o, rep) = "not_allowed" /\ o = "move"
  PROVE  rep = "409" /\ (AdapterResult(o, rep) = "not_resumed" => o = "resume")
BY DEF AdapterResult, ShipyardResult, ResumeResult, GatefieldResult, TaskstateResult,
       AckResult, MemxResult

\* The version a report returns is one there was, the current one when its
\* command answered.
LEMMA ReturnedIsVersion ==
  ASSUME Kinds, NEW rep
  PROVE  Returned(rep) \in 0..MaxVersion /\ (rep = "ok" => Returned(rep) = version)
BY DEF Kinds, Returned, EvidenceSource, WorkflowResult

\* An answer changes the result of its request and of no other.
LEMMA AnswerResult ==
  ASSUME Kinds, NEW r \in Requests, NEW rep, Answer(r, rep)
  PROVE  /\ result'[r] = AdapterResult(op[r[1]], rep)
         /\ \A s \in Requests : s # r => result'[s] = result[s]
BY DEF Answer, Kinds

\* ... and it keeps the types.
LEMMA AnswerKinds ==
  ASSUME Kinds, NEW r \in Requests, NEW rep, Answer(r, rep), op[r[1]] \in Ops
  PROVE  /\ result' \in [Requests -> Results \cup {"none"}]
         /\ got' \in [Calls -> 0..MaxVersion] /\ ran' \subseteq Calls
         /\ result'[r] \in Outcomes(op[r[1]])
<1>1. AdapterResult(op[r[1]], rep) \in Outcomes(op[r[1]]) \cap Results
  BY ResultExpected
<1>2. result' \in [Requests -> Results \cup {"none"}] /\ result'[r] \in Outcomes(op[r[1]])
  BY <1>1 DEF Answer, Kinds
<1>3. got' \in [Calls -> 0..MaxVersion]
  BY ReturnedIsVersion DEF Answer, Kinds
<1>4. ran' \subseteq Calls
  BY DEF Answer, Kinds
<1> QED BY <1>2, <1>3, <1>4
-----------------------------------------------------------------------------
(* The types, and what is sent.                                            *)

\* Initially no call has begun.
LEMMA CallsInit ==
  Init => Kinds /\ Sent /\ Expected /\ AnswersAreTrue /\ Resumes /\ Moves /\ Reports
<1> SUFFICES ASSUME Init
             PROVE  Kinds /\ Sent /\ Expected /\ AnswersAreTrue /\ Resumes /\ Moves /\ Reports
  OBVIOUS
<1> USE CallsAssumptions
<1>1. Kinds
  BY DEF Init, Kinds
<1>2. Sent /\ Expected /\ Resumes /\ Moves /\ Reports
  BY DEF Init, Sent, Expected, Resumes, Moves, Reports
<1>3. AnswersAreTrue
  BY DEF Init, AnswersAreTrue, Refusals
<1> QED BY <1>1, <1>2, <1>3

\* A request that waits or is in flight is of a call that has begun.
LEMMA Begun ==
  ASSUME Kinds, Sent, NEW r \in Requests, Waiting(r) \/ r \in inFlight
  PROVE  op[r[1]] \in Ops
BY DEF Kinds, Sent, Waiting

\* Types are kept by every step.
LEMMA KindsStep == Kinds /\ Sent /\ [Next]_vars => Kinds'
<1> SUFFICES ASSUME Kinds, Sent, [Next]_vars PROVE Kinds'
  OBVIOUS
<1> USE CallsAssumptions
<1>1. ASSUME NEW c \in Calls, NEW o \in Ops, Begin(c, o) PROVE Kinds'
  <2>1. hold' \in [Calls -> Requests \cup {None}]
    BY <1>1 DEF Begin, Kinds, Told
  <2>2. <<c, 1>> \in Requests
    OBVIOUS
  <2>3. /\ op' \in [Calls -> Ops \cup {"none"}] /\ attempt' \in [Calls -> 0..MaxAttempts]
        /\ started' \in [Calls -> 0..MaxVersion]
    BY <1>1 DEF Begin, Kinds
  <2>4. inFlight' \subseteq Requests
    BY <1>1, <2>2 DEF Begin, Kinds
  <2> QED BY <1>1, <2>1, <2>3, <2>4 DEF Begin, Kinds, answers, shipyard, evidence
<1>2. ASSUME NEW c \in Calls, Again(c) PROVE Kinds'
  <2>1. attempt[c] + 1 \in 1..MaxAttempts /\ <<c, attempt[c] + 1>> \in Requests
    BY <1>2 DEF Again
  <2> QED BY <1>2, <2>1 DEF Again, Kinds, answers, shipyard, evidence
<1>3. ASSUME NEW r \in Requests, GiveUp(r) PROVE Kinds'
  <2>1. PICK rep : Answer(r, rep)
    BY <1>3 DEF GiveUp
  <2>2. op[r[1]] \in Ops
    BY <1>3, Begun DEF GiveUp
  <2>3. /\ result' \in [Requests -> Results \cup {"none"}]
        /\ got' \in [Calls -> 0..MaxVersion] /\ ran' \subseteq Calls
    BY <2>1, <2>2, AnswerKinds
  <2> QED BY <1>3, <2>3 DEF GiveUp, Kinds, shipyard, evidence
<1>4. ASSUME NEW r \in Requests, Act(r) PROVE Kinds'
  <2>1. op[r[1]] \in Ops
    BY <1>4, Begun DEF Act
  <2>2. /\ result' \in [Requests -> Results \cup {"none"}]
        /\ got' \in [Calls -> 0..MaxVersion] /\ ran' \subseteq Calls
    <3>1. CASE NoAnswer
      BY <3>1 DEF NoAnswer, answers, Kinds
    <3>2. CASE \E rep : Answer(r, rep)
      BY <3>2, <2>1, AnswerKinds
    <3> QED BY <1>4, <3>1, <3>2 DEF Act
  <2>3. active' \subseteq Requests /\ stage' \in {"review", "publish"}
    BY <1>4 DEF Act, Kinds
  <2> QED BY <1>4, <2>2, <2>3 DEF Act, Kinds, evidence
<1>5. ASSUME NEW r \in Requests, Decline(r) PROVE Kinds'
  <2>1. op[r[1]] \in Ops
    BY <1>5, Begun DEF Decline
  <2>2. /\ result' \in [Requests -> Results \cup {"none"}]
        /\ got' \in [Calls -> 0..MaxVersion] /\ ran' \subseteq Calls
    <3>1. CASE NoAnswer
      BY <3>1 DEF NoAnswer, answers, Kinds
    <3>2. CASE \E rep : Answer(r, rep)
      BY <3>2, <2>1, AnswerKinds
    <3> QED BY <1>5, <3>1, <3>2 DEF Decline
  <2> QED BY <1>5, <2>2 DEF Decline, Kinds, shipyard, evidence
<1>6. CASE Publish
  BY <1>6 DEF Publish, Kinds, answers, shipyard
<1>7. CASE WriteCache
  BY <1>7 DEF WriteCache, Kinds, answers, shipyard
<1>8. CASE UNCHANGED vars
  BY <1>8 DEF vars, answers, shipyard, evidence, Kinds
<1> QED BY <1>1, <1>2, <1>3, <1>4, <1>5, <1>6, <1>7, <1>8 DEF Next


\* Nothing but the two of a call sends, and a request is handled once.
LEMMA SentStep == Kinds /\ Sent /\ [Next]_vars => Sent'
<1> SUFFICES ASSUME Kinds, Sent, [Next]_vars PROVE Sent'
  OBVIOUS
<1> USE CallsAssumptions
<1>1. ASSUME NEW c \in Calls, NEW o \in Ops, Begin(c, o) PROVE Sent'
  <2>1. attempt[c] = 0 /\ op'[c] = o /\ attempt'[c] = 1 /\ result' = result /\ done' = done
    BY <1>1 DEF Begin, Kinds, Sent, answers
  <2>2. \A d \in Calls : d # c => op'[d] = op[d] /\ attempt'[d] = attempt[d]
    BY <1>1 DEF Begin, Kinds
  <2>3. <<c, 1>> \notin done
    BY <2>1 DEF Sent
  <2>4. inFlight' = inFlight \cup {<<c, 1>>}
    BY <1>1 DEF Begin
  <2>5. \A r \in Requests : r \in inFlight' \cup done' \/ result'[r] # "none"
                              => r[2] <= attempt'[r[1]]
    <3> TAKE r \in Requests
    <3>1. CASE r[1] = c
      BY <2>1, <2>4, <3>1 DEF Sent
    <3>2. CASE r[1] # c
      BY <2>1, <2>2, <2>4, <3>2 DEF Sent
    <3> QED BY <3>1, <3>2
  <2>6. \A d \in Calls : op'[d] = "none" => attempt'[d] = 0
    BY <2>1, <2>2 DEF Sent
  <2> QED BY <2>1, <2>3, <2>4, <2>5, <2>6 DEF Sent
<1>2. ASSUME NEW c \in Calls, Again(c) PROVE Sent'
  <2>1. /\ attempt'[c] = attempt[c] + 1 /\ op' = op /\ result' = result /\ done' = done
        /\ attempt[c] \in 1..(MaxAttempts - 1)
    BY <1>2 DEF Again, Kinds, answers
  <2>2. \A d \in Calls : d # c => attempt'[d] = attempt[d]
    BY <1>2 DEF Again, Kinds
  <2>3. <<c, attempt[c] + 1>> \in Requests /\ <<c, attempt[c] + 1>> \notin done
    BY <2>1 DEF Sent, Kinds
  <2>4. inFlight' = inFlight \cup {<<c, attempt[c] + 1>>}
    BY <1>2 DEF Again
  <2>5. \A r \in Requests : r \in inFlight' \cup done' \/ result'[r] # "none"
                              => r[2] <= attempt'[r[1]]
    <3> TAKE r \in Requests
    <3>1. CASE r[1] = c
      BY <2>1, <2>4, <3>1 DEF Sent
    <3>2. CASE r[1] # c
      BY <2>1, <2>2, <2>4, <3>2 DEF Sent
    <3> QED BY <3>1, <3>2
  <2>6. \A d \in Calls : op'[d] = "none" => attempt'[d] = 0
    BY <2>1, <2>2 DEF Sent
  <2> QED BY <2>1, <2>3, <2>4, <2>5, <2>6 DEF Sent
<1>3. ASSUME NEW r \in Requests, GiveUp(r) PROVE Sent'
  <2>1. PICK rep : Answer(r, rep)
    BY <1>3 DEF GiveUp
  <2>2. inFlight' \subseteq inFlight /\ done' = done /\ op' = op /\ attempt' = attempt
    BY <1>3 DEF GiveUp
  <2>3. r[2] <= attempt[r[1]]
    BY <1>3 DEF GiveUp, Waiting
  <2> QED BY <2>1, <2>2, <2>3, AnswerResult DEF Sent
<1>4. ASSUME NEW r \in Requests, Act(r) PROVE Sent'
  <2>1. r[2] <= attempt[r[1]]
    BY <1>4 DEF Act, Sent
  <2>2. /\ inFlight' = inFlight \ {r} /\ done' = done \cup {r}
        /\ op' = op /\ attempt' = attempt
    BY <1>4 DEF Act
  <2>3. \A s \in Requests : s # r => result'[s] = result[s]
    BY <1>4, AnswerResult DEF Act, NoAnswer, answers
  <2> QED BY <2>1, <2>2, <2>3 DEF Sent
<1>5. ASSUME NEW r \in Requests, Decline(r) PROVE Sent'
  <2>1. r[2] <= attempt[r[1]]
    BY <1>5 DEF Decline, Sent
  <2>2. inFlight' = inFlight \ {r} /\ done' = done /\ op' = op /\ attempt' = attempt
    BY <1>5 DEF Decline
  <2>3. \A s \in Requests : s # r => result'[s] = result[s]
    BY <1>5, AnswerResult DEF Decline, NoAnswer, answers
  <2> QED BY <2>1, <2>2, <2>3 DEF Sent
<1>6. CASE Publish \/ WriteCache \/ UNCHANGED vars
  BY <1>6 DEF Publish, WriteCache, vars, Sent, answers
<1> QED BY <1>1, <1>2, <1>3, <1>4, <1>5, <1>6 DEF Next

\* A call that begins has sent nothing.
LEMMA NothingSent ==
  ASSUME Kinds, Sent, NEW c \in Calls, op[c] = "none", NEW r \in Requests, r[1] = c
  PROVE  result[r] = "none" /\ r \notin done /\ r \notin inFlight
BY DEF Kinds, Sent

\* Every result is one its operation documents.
LEMMA ExpectedStep == Kinds /\ Sent /\ Expected /\ [Next]_vars => Expected'
<1> SUFFICES ASSUME Kinds, Sent, Expected, [Next]_vars PROVE Expected'
  OBVIOUS
<1>1. ASSUME NEW c \in Calls, NEW o \in Ops, Begin(c, o) PROVE Expected'
  <2>1. result' = result /\ op[c] = "none" /\ \A d \in Calls : d # c => op'[d] = op[d]
    BY <1>1 DEF Begin, Kinds, answers
  <2> QED BY <2>1, NothingSent DEF Expected
<1>2. ASSUME NEW c \in Calls, Again(c) PROVE Expected'
  BY <1>2 DEF Again, Expected, answers
<1>3. ASSUME NEW r \in Requests, GiveUp(r) \/ Act(r) \/ Decline(r) PROVE Expected'
  <2>1. op[r[1]] \in Ops /\ op' = op
    BY <1>3, Begun DEF GiveUp, Act, Decline
  <2>2. NoAnswer \/ \E rep : Answer(r, rep)
    BY <1>3 DEF GiveUp, Act, Decline
  <2>3. CASE NoAnswer
    BY <2>1, <2>3 DEF NoAnswer, answers, Expected
  <2>4. ASSUME NEW rep, Answer(r, rep) PROVE Expected'
    BY <2>1, <2>4, AnswerKinds, AnswerResult DEF Expected
  <2> QED BY <2>2, <2>3, <2>4
<1>4. CASE Publish \/ WriteCache \/ UNCHANGED vars
  BY <1>4 DEF Publish, WriteCache, vars, Expected, answers
<1> QED BY <1>1, <1>2, <1>3, <1>4 DEF Next

\* In every reachable state the state is well typed, and each call ends in an answer
\* or an error of its operation.
THEOREM AdapterTypeCorrect == Spec => []TypeOK
<1>1. Kinds /\ Expected => TypeOK
  BY DEF Kinds, Expected, TypeOK
<1> QED BY <1>1, CallsInit, KindsStep, SentStep, ExpectedStep, PTL DEF Spec
-----------------------------------------------------------------------------
(* What answers and refusals say.                                          *)

\* Every step keeps answers and refusals true.
LEMMA AnswersStep == Kinds /\ Sent /\ AnswersAreTrue /\ [Next]_vars => AnswersAreTrue'
<1> SUFFICES ASSUME Kinds, Sent, AnswersAreTrue, [Next]_vars,
                    NEW s \in Requests, op'[s[1]] \in Effectful
             PROVE  /\ result'[s] = "ok" => s \in done'
                    /\ result'[s] \in Refusals => s \notin done' \cup inFlight'
  BY DEF AnswersAreTrue
<1>1. ASSUME NEW c \in Calls, NEW o \in Ops, Begin(c, o)
      PROVE  /\ result'[s] = "ok" => s \in done'
             /\ result'[s] \in Refusals => s \notin done' \cup inFlight'
  <2>1. /\ result' = result /\ done' = done /\ inFlight' = inFlight \cup {<<c, 1>>}
        /\ op[c] = "none" /\ \A d \in Calls : d # c => op'[d] = op[d]
    BY <1>1 DEF Begin, Kinds, answers
  <2>2. CASE s[1] = c
    BY <2>1, <2>2, NothingSent DEF Refusals
  <2>3. CASE s[1] # c
    BY <2>1, <2>3 DEF AnswersAreTrue
  <2> QED BY <2>2, <2>3
<1>2. ASSUME NEW c \in Calls, Again(c)
      PROVE  /\ result'[s] = "ok" => s \in done'
             /\ result'[s] \in Refusals => s \notin done' \cup inFlight'
  <2>1. /\ result' = result /\ done' = done /\ op' = op
        /\ inFlight' = inFlight \cup {<<c, attempt[c] + 1>>}
    BY <1>2 DEF Again, answers
  <2>2. s = <<c, attempt[c] + 1>> => result[s] = "none"
    BY DEF Sent, Kinds
  <2> QED BY <2>1, <2>2 DEF AnswersAreTrue, Refusals
<1>3. ASSUME NEW r \in Requests, GiveUp(r)
      PROVE  /\ result'[s] = "ok" => s \in done'
             /\ result'[s] \in Refusals => s \notin done' \cup inFlight'
  <2>1. PICK rep \in {"timeout", "refused"} : Answer(r, rep)
    BY <1>3 DEF GiveUp
  <2>2. inFlight' \subseteq inFlight /\ done' = done /\ op' = op
    BY <1>3 DEF GiveUp
  <2>3. CASE s = r
    BY <2>1, <2>2, <2>3, AnswerResult, OkIsOk, RefusedIsRefused
  <2>4. CASE s # r
    BY <2>1, <2>2, <2>4, AnswerResult DEF AnswersAreTrue
  <2> QED BY <2>3, <2>4
<1>4. ASSUME NEW r \in Requests, Act(r)
      PROVE  /\ result'[s] = "ok" => s \in done'
             /\ result'[s] \in Refusals => s \notin done' \cup inFlight'
  <2>1. r \in inFlight /\ inFlight' = inFlight \ {r} /\ done' = done \cup {r} /\ op' = op
    BY <1>4 DEF Act
  <2>2. CASE NoAnswer
    BY <2>1, <2>2 DEF NoAnswer, answers, AnswersAreTrue
  <2>3. ASSUME NEW rep \in {"ok", "garbled", "500", "failed", "undecodable"}, Answer(r, rep)
        PROVE  /\ result'[s] = "ok" => s \in done'
               /\ result'[s] \in Refusals => s \notin done' \cup inFlight'
    <3>1. CASE s = r
      BY <2>1, <2>3, <3>1, AnswerResult, RefusedIsRefused
    <3>2. CASE s # r
      BY <2>1, <2>3, <3>2, AnswerResult DEF AnswersAreTrue
    <3> QED BY <3>1, <3>2
  <2> QED BY <1>4, <2>2, <2>3 DEF Act
<1>5. ASSUME NEW r \in Requests, Decline(r)
      PROVE  /\ result'[s] = "ok" => s \in done'
             /\ result'[s] \in Refusals => s \notin done' \cup inFlight'
  <2>1. /\ r \in inFlight /\ inFlight' = inFlight \ {r} /\ done' = done /\ op' = op
        /\ r \notin done
    BY <1>5 DEF Decline, Sent
  <2>2. CASE NoAnswer
    BY <2>1, <2>2 DEF NoAnswer, answers, AnswersAreTrue
  <2>3. ASSUME NEW rep \in Declines(r), Answer(r, rep)
        PROVE  /\ result'[s] = "ok" => s \in done'
               /\ result'[s] \in Refusals => s \notin done' \cup inFlight'
    <3>1. CASE s = r
      <4>1. rep # "ok"
        BY DEF Declines
      <4> QED BY <2>1, <2>3, <3>1, <4>1, AnswerResult, OkIsOk
    <3>2. CASE s # r
      BY <2>1, <2>3, <3>2, AnswerResult DEF AnswersAreTrue
    <3> QED BY <3>1, <3>2
  <2> QED BY <1>5, <2>2, <2>3 DEF Decline
<1>6. CASE Publish \/ WriteCache \/ UNCHANGED vars
  BY <1>6 DEF Publish, WriteCache, vars, AnswersAreTrue, answers
<1> QED BY <1>1, <1>2, <1>3, <1>4, <1>5, <1>6 DEF Next

\* An answer says that the request did what it asked, a refusal that it never will.
THEOREM AnswersAreTrueCorrect == Spec => []AnswersAreTrue
  BY CallsInit, KindsStep, SentStep, AnswersStep, PTL DEF Spec
-----------------------------------------------------------------------------
(* Who is told.                                                            *)

\* What a step of request r does to the results: nothing, or an answer from a
\* reply of its kind. "not_resumed" is only told of a hold that is not active.
LEMMA ToldNotResumed ==
  ASSUME Kinds, Sent, NEW r \in Requests, GiveUp(r) \/ Act(r) \/ Decline(r)
  PROVE  /\ op' = op /\ hold' = hold
         /\ \A s \in Requests : s # r => result'[s] = result[s]
         /\ \/ result'[r] = result[r]
            \/ /\ result'[r] = "not_resumed" => op[r[1]] = "resume" /\ ~Possible(r)
               /\ op[r[1]] = "move" /\ result'[r] = "not_allowed" => ~Possible(r)
         /\ (Act(r) \/ (done' = done /\ active' = active /\ stage' = stage))
<1>1. op[r[1]] \in Ops /\ op' = op /\ hold' = hold
  BY Begun DEF GiveUp, Act, Decline
<1>2. Act(r) \/ (done' = done /\ active' = active /\ stage' = stage)
  <2>1. CASE GiveUp(r)
    BY <2>1 DEF GiveUp, shipyard
  <2>2. CASE Decline(r)
    BY <2>2 DEF Decline, shipyard
  <2> QED BY <2>1, <2>2
<1>3. CASE NoAnswer
  BY <1>1, <1>2, <1>3 DEF NoAnswer, answers
<1>4. ASSUME NEW rep, Answer(r, rep), rep = "409" => ~Possible(r) \/ op[r[1]] \notin {"resume", "move"}
      PROVE  /\ \A s \in Requests : s # r => result'[s] = result[s]
             /\ result'[r] = "not_resumed" => op[r[1]] = "resume" /\ ~Possible(r)
             /\ op[r[1]] = "move" /\ result'[r] = "not_allowed" => ~Possible(r)
  BY <1>1, <1>4, AnswerResult, NotAllowedIsConflict
<1>5. NoAnswer \/ \E rep : /\ Answer(r, rep)
                           /\ rep = "409" => ~Possible(r) \/ op[r[1]] \notin {"resume", "move"}
  BY DEF GiveUp, Act, Decline, Declines
<1> QED BY <1>1, <1>2, <1>3, <1>4, <1>5

\* Every step keeps what is known of resumes.
LEMMA ResumesStep ==
  Kinds /\ Sent /\ AnswersAreTrue /\ Resumes /\ [Next]_vars => Resumes'
<1> SUFFICES ASSUME Kinds, Sent, AnswersAreTrue, Resumes, [Next]_vars PROVE Resumes'
  OBVIOUS
<1>1. ASSUME NEW c \in Calls, NEW o \in Ops, Begin(c, o) PROVE Resumes'
  <2>1. /\ result' = result /\ done' = done /\ active' = active /\ op[c] = "none" /\ op'[c] = o
        /\ \A d \in Calls : d # c => op'[d] = op[d] /\ hold'[d] = hold[d]
    BY <1>1 DEF Begin, Kinds, answers, shipyard
  <2>2. o = "resume" => hold'[c] \in done
    <3> SUFFICES ASSUME o = "resume" PROVE hold'[c] \in done
      OBVIOUS
    <3>1. PICK h \in Told("hold") : hold' = [hold EXCEPT ![c] = h]
      BY <1>1 DEF Begin
    <3>2. h \in done
      BY <3>1 DEF Told, AnswersAreTrue
    <3> QED BY <3>1, <3>2 DEF Kinds
  <2>3. \A r \in Requests : r[1] = c => r \notin done /\ result[r] = "none"
    BY <2>1, NothingSent
  <2>4. \A r \in done : op'[r[1]] = op[r[1]] /\ hold'[r[1]] = hold[r[1]]
    BY <2>1, <2>3 DEF Kinds
  <2>5. \A d \in Calls : op'[d] = "resume" => hold'[d] \in done
    BY <2>1, <2>2 DEF Resumes
  <2>6. \A r \in Requests : result[r] = "not_resumed" =>
          op'[r[1]] = "resume" /\ hold'[r[1]] \notin active
    BY <2>1, <2>3 DEF Resumes
  <2> QED BY <2>1, <2>4, <2>5, <2>6 DEF Resumes
<1>2. ASSUME NEW c \in Calls, Again(c) PROVE Resumes'
  BY <1>2 DEF Again, Resumes, answers, shipyard
<1>3. ASSUME NEW r \in Requests, GiveUp(r) \/ Decline(r) PROVE Resumes'
  <2>1. done' = done /\ active' = active /\ op' = op /\ hold' = hold
    BY <1>3 DEF GiveUp, Decline, shipyard
  <2>2. \A s \in Requests : result'[s] = "not_resumed" =>
          op[s[1]] = "resume" /\ hold[s[1]] \notin active
    BY <1>3, ToldNotResumed DEF Resumes, Possible
  <2> QED BY <2>1, <2>2 DEF Resumes
<1>4. ASSUME NEW r \in Requests, Act(r) PROVE Resumes'
  <2>1. /\ op' = op /\ hold' = hold /\ done' = done \cup {r}
        /\ r \notin done /\ Possible(r)
        /\ active' = IF op[r[1]] = "hold" THEN active \cup {r} ELSE active \ {hold[r[1]]}
    BY <1>4 DEF Act, Sent
  <2>2. \A c \in Calls : op[c] = "resume" => hold[c] \in done /\ hold[c] # r
    BY <2>1 DEF Resumes
  <2>3. \A c \in Calls : op[c] = "resume" /\ hold[c] \notin active => hold[c] \notin active'
    BY <2>1, <2>2
  <2>4. \A s \in done' : op[s[1]] = "resume" => hold[s[1]] \notin active'
    <3> TAKE s \in done'
    <3>1. s[1] \in Calls
      BY <2>1 DEF Kinds
    <3>2. CASE s = r
      BY <2>1, <3>2
    <3>3. CASE s # r
      BY <2>1, <2>3, <3>1, <3>3 DEF Resumes
    <3> QED BY <3>2, <3>3
  <2>5. op[r[1]] = "resume" => \A s \in done : op[s[1]] = "resume" => hold[s[1]] # hold[r[1]]
    BY <2>1 DEF Possible, Resumes
  <2>6. \A s, t \in done' : op[s[1]] = "resume" /\ op[t[1]] = "resume"
                            /\ hold[s[1]] = hold[t[1]] => s = t
    BY <2>1, <2>5 DEF Resumes
  <2>7. \A s \in Requests : result'[s] = "not_resumed" =>
          op[s[1]] = "resume" /\ hold[s[1]] \notin active
    BY <1>4, ToldNotResumed DEF Resumes, Possible
  <2>8. \A s \in Requests : result'[s] = "not_resumed" =>
          op[s[1]] = "resume" /\ hold[s[1]] \notin active'
    BY <2>3, <2>7
  <2>9. \A c \in Calls : op'[c] = "resume" => hold'[c] \in done'
    BY <2>1, <2>2
  <2>10. /\ \A s \in done' : op'[s[1]] = "resume" => hold'[s[1]] \notin active'
         /\ \A s \in Requests : result'[s] = "not_resumed" =>
              op'[s[1]] = "resume" /\ hold'[s[1]] \notin active'
    BY <2>1, <2>4, <2>8
  <2>11. \A s, t \in done' : op'[s[1]] = "resume" /\ op'[t[1]] = "resume"
                             /\ hold'[s[1]] = hold'[t[1]] => s = t
    BY <2>1, <2>6
  <2> QED BY <2>9, <2>10, <2>11 DEF Resumes
<1>5. CASE Publish \/ WriteCache \/ UNCHANGED vars
  BY <1>5 DEF Publish, WriteCache, vars, Resumes, answers, shipyard
<1> QED BY <1>1, <1>2, <1>3, <1>4, <1>5 DEF Next

\* Every step keeps what is known of moves.
LEMMA MovesStep == Kinds /\ Sent /\ Moves /\ [Next]_vars => Moves'
<1> SUFFICES ASSUME Kinds, Sent, Moves, [Next]_vars PROVE Moves'
  OBVIOUS
<1>1. ASSUME NEW c \in Calls, NEW o \in Ops, Begin(c, o) PROVE Moves'
  <2>1. /\ result' = result /\ done' = done /\ stage' = stage /\ op[c] = "none"
        /\ \A d \in Calls : d # c => op'[d] = op[d]
    BY <1>1 DEF Begin, Kinds, answers, shipyard
  <2>2. \A r \in Requests : r[1] = c => r \notin done /\ result[r] = "none"
    BY <2>1, NothingSent
  <2>3. \A r \in done : op'[r[1]] = op[r[1]]
    BY <2>1, <2>2 DEF Kinds
  <2> QED BY <2>1, <2>2, <2>3 DEF Moves
<1>2. ASSUME NEW c \in Calls, Again(c) PROVE Moves'
  BY <1>2 DEF Again, Moves, answers, shipyard
<1>3. ASSUME NEW r \in Requests, GiveUp(r) \/ Decline(r) PROVE Moves'
  <2>1. done' = done /\ stage' = stage /\ op' = op
    BY <1>3 DEF GiveUp, Decline, shipyard
  <2>2. \A s \in Requests : op[s[1]] = "move" /\ result'[s] = "not_allowed" => stage = "publish"
    BY <1>3, ToldNotResumed DEF Moves, Possible, Kinds
  <2> QED BY <2>1, <2>2 DEF Moves
<1>4. ASSUME NEW r \in Requests, Act(r) PROVE Moves'
  <2>1. /\ op' = op /\ done' = done \cup {r} /\ Possible(r)
        /\ stage' = IF op[r[1]] = "move" THEN "publish" ELSE stage
    BY <1>4 DEF Act
  <2>2. \A s \in Requests : op[s[1]] = "move" /\ result'[s] = "not_allowed" => stage = "publish"
    BY <1>4, ToldNotResumed DEF Moves, Possible, Kinds
  <2>3. op[r[1]] = "move" => \A s \in done : op[s[1]] # "move"
    BY <2>1 DEF Possible, Moves
  <2>4. \A s, t \in done' : op[s[1]] = "move" /\ op[t[1]] = "move" => s = t
    BY <2>1, <2>3 DEF Moves
  <2>5. \A s \in done' : op[s[1]] = "move" => stage' = "publish"
    BY <2>1 DEF Moves
  <2> QED BY <2>1, <2>2, <2>4, <2>5 DEF Moves
<1>5. CASE Publish \/ WriteCache \/ UNCHANGED vars
  BY <1>5 DEF Publish, WriteCache, vars, Moves, answers, shipyard
<1> QED BY <1>1, <1>2, <1>3, <1>4, <1>5 DEF Next

\* Of those who resume a hold or move the run on, one at most is told that it did,
\* and who is told that it did not is told so when that has happened.
THEOREM OneIsToldCorrect == Spec => []OneIsTold
<1>1. Kinds /\ AnswersAreTrue /\ Resumes /\ Moves => OneIsTold
  <2> SUFFICES ASSUME Kinds, AnswersAreTrue, Resumes, Moves PROVE OneIsTold
    OBVIOUS
  <2>1. \A r \in Told("resume") : r \in done /\ op[r[1]] = "resume"
    BY DEF Told, AnswersAreTrue
  <2>2. \A r \in Told("move") : r \in done /\ op[r[1]] = "move"
    BY DEF Told, AnswersAreTrue
  <2> QED BY <2>1, <2>2 DEF OneIsTold, Resumes, Moves
<1> QED BY <1>1, CallsInit, KindsStep, SentStep, AnswersStep, ResumesStep, MovesStep, PTL DEF Spec
-----------------------------------------------------------------------------
(* Old evidence.                                                           *)

\* Every step keeps what a report whose command answered returned no older than
\* its start.
LEMMA ReportsStep == Kinds /\ Sent /\ Expected /\ Reports /\ [Next]_vars => Reports'
<1> SUFFICES ASSUME Kinds, Sent, Expected, Reports, [Next]_vars PROVE Reports'
  OBVIOUS
<1>1. ASSUME NEW c \in Calls, NEW o \in Ops, Begin(c, o) PROVE Reports'
  <2>1. /\ result' = result /\ got' = got /\ ran' = ran /\ version' = version
        /\ op[c] = "none" /\ started'[c] = version
        /\ \A d \in Calls : d # c => started'[d] = started[d]
        /\ attempt'[c] = 1
        /\ \A d \in Calls : d # c => op'[d] = op[d] /\ attempt'[d] = attempt[d]
    BY <1>1 DEF Begin, Kinds, answers, evidence
  <2>2. c \notin ran
    BY <2>1 DEF Reports
  <2>3. \A d \in Calls : started'[d] <= version
    BY <2>1 DEF Reports, Kinds
  <2>4. \A d \in ran : got[d] >= started'[d]
    BY <2>1, <2>2 DEF Reports, Kinds
  <2>5. \A d \in ran : op'[d] = "report" /\ result[<<d, 1>>] # "none"
    BY <2>1, <2>2 DEF Reports, Kinds
  <2>6. \A d \in Calls : op'[d] = "report" => attempt'[d] <= 1
    BY <2>1 DEF Reports
  <2> QED BY <2>1, <2>3, <2>4, <2>5, <2>6 DEF Reports
<1>2. ASSUME NEW c \in Calls, Again(c) PROVE Reports'
  <2>1. op[c] # "report"
    <3> SUFFICES ASSUME op[c] = "report" PROVE FALSE
      OBVIOUS
    <3>1. attempt[c] = 1
      BY <1>2 DEF Again, Reports, Kinds
    <3>2. <<c, 1>> \in Requests /\ Retryable(result[<<c, 1>>])
      BY <1>2, <3>1, CallsAssumptions DEF Again
    <3> QED BY <3>2 DEF Expected, Outcomes, Retryable
  <2>2. \A d \in Calls : d # c => attempt'[d] = attempt[d]
    BY <1>2 DEF Again, Kinds
  <2> QED BY <1>2, <2>1, <2>2 DEF Again, Reports, answers, evidence
<1>3. ASSUME NEW r \in Requests, GiveUp(r) \/ Act(r) \/ Decline(r) PROVE Reports'
  <2>1. /\ version' = version /\ started' = started /\ op[r[1]] \in Ops
        /\ op' = op /\ attempt' = attempt
    BY <1>3, Begun DEF GiveUp, Act, Decline, evidence
  <2>2. NoAnswer \/ \E rep : Waiting(r) /\ Answer(r, rep)
    BY <1>3 DEF GiveUp, Act, Decline
  <2>3. CASE NoAnswer
    BY <2>1, <2>3 DEF NoAnswer, answers, Reports
  <2>4. ASSUME NEW rep, Waiting(r), Answer(r, rep) PROVE Reports'
    <3>1. result'[r] # "none" /\ \A s \in Requests : s # r => result'[s] = result[s]
      BY <2>1, <2>4, AnswerKinds, AnswerResult DEF Outcomes
    <3>2. \A d \in Calls : d # r[1] => got'[d] = got[d]
      BY <2>4 DEF Answer, Kinds
    <3>3. ran' \subseteq ran \cup {r[1]}
      BY <2>4 DEF Answer
    <3>4. op[r[1]] = "report" => r = <<r[1], 1>> /\ r[1] \notin ran
      <4> SUFFICES ASSUME op[r[1]] = "report" PROVE r = <<r[1], 1>> /\ r[1] \notin ran
        OBVIOUS
      <4>1. r[2] = 1
        <5>1. r[1] \in Calls /\ r[2] \in 1..MaxAttempts
          OBVIOUS
        <5>2. attempt[r[1]] <= 1 /\ attempt[r[1]] \in Int
          BY <5>1, CallsAssumptions DEF Reports, Kinds
        <5> QED BY <2>4, <5>1, <5>2, CallsAssumptions DEF Waiting
      <4>2. r = <<r[1], 1>>
        BY <4>1
      <4> QED BY <2>4, <4>2 DEF Waiting, Reports
    <3>5. \A c \in ran' : op[c] = "report" /\ result'[<<c, 1>>] # "none"
      <4> TAKE c \in ran'
      <4>1. CASE c \in ran
        <5>1. <<c, 1>> \in Requests
          BY <4>1, CallsAssumptions DEF Kinds
        <5> QED BY <3>1, <4>1, <5>1 DEF Reports
      <4>2. CASE c \notin ran
        BY <2>4, <3>1, <3>4, <4>2 DEF Answer
      <4> QED BY <4>1, <4>2
    <3>6. \A c \in ran' : got'[c] >= started[c]
      <4> SUFFICES ASSUME NEW c \in ran', c = r[1] PROVE got'[c] >= started[c]
        BY <3>2, <3>3 DEF Reports, Kinds
      <4>1. CASE op[r[1]] = "report" /\ rep = "ok"
        <5>1. EvidenceSource(rep, file) = "command"
          BY <4>1 DEF EvidenceSource, WorkflowResult
        <5>2. Returned(rep) = version
          BY <4>1, <5>1, ReturnedIsVersion
        <5>3. got'[c] = version
          BY <2>4, <4>1, <5>1, <5>2 DEF Answer, Kinds
        <5> QED BY <5>3 DEF Reports, Kinds
      <4>2. CASE op[r[1]] = "report" /\ rep # "ok"
        BY <2>4, <3>4, <4>2 DEF Answer
      <4>3. CASE op[r[1]] # "report"
        BY <2>4, <4>3 DEF Answer, Reports, Kinds
      <4> QED BY <2>4, <4>1, <4>2, <4>3 DEF Answer
    <3> QED BY <2>1, <3>5, <3>6 DEF Reports
  <2> QED BY <2>2, <2>3, <2>4
<1>4. CASE Publish
  BY <1>4 DEF Publish, Reports, Kinds, answers
<1>5. CASE WriteCache \/ UNCHANGED vars
  BY <1>5 DEF WriteCache, vars, Reports, answers, evidence
<1> QED BY <1>1, <1>2, <1>3, <1>4, <1>5 DEF Next
\* A report older than the evidence was when it was asked for comes only after the
\* command has failed.
THEOREM OldEvidenceOnlyAfterFailureCorrect == Spec => []OldEvidenceOnlyAfterFailure
<1>1. Kinds /\ Reports => OldEvidenceOnlyAfterFailure
  BY DEF Kinds, Reports, OldEvidenceOnlyAfterFailure, Told
<1> QED BY <1>1, CallsInit, KindsStep, SentStep, ExpectedStep, ReportsStep, PTL DEF Spec
-----------------------------------------------------------------------------
(* The pure surfaces of Adapters, for every input.                         *)

\* More capabilities never need fewer approvers.
THEOREM CapabilitiesOnlyAddApprovalCorrect == CapabilitiesOnlyAddApproval
BY DEF CapabilitiesOnlyAddApproval, RequiredApprovals, AutoApproved, RiskLevel

\* assess_state sends to a person what evaluate would for the packet, whatever the
\* number of corrections.
THEOREM AssessStateQueuesEnoughCorrect ==
  ASSUME NEW policies PROVE AssessStateQueuesEnough(PacketType(policies))
<1> DEFINE verdict(p, required, missing, admin, slaTimeout) ==
             ResolveVerdict(p, TRUE, Fulfilled, required, missing, 100, admin, slaTimeout)
<1> SUFFICES ASSUME NEW packet \in PacketType(policies),
                    NEW required \in SUBSET {"lead", "security"},
                    NEW missing \in SUBSET {"lead", "security"},
                    NEW admin \in BOOLEAN, NEW slaTimeout \in BOOLEAN,
                    NEW at \in {"implement", "publish"}
             PROVE  /\ verdict(packet, required, missing, admin, slaTimeout)
                           \in {"needs_approval", "require_human"}
                         => HumanQueueRequired(FALSE, packet)
                    /\ verdict(packet, required, missing, admin, slaTimeout) = "deny"
                         => Recommendation(FALSE, packet, at) \in {"block", "hold_for_review"}
                    /\ Recommendation(FALSE, packet, at) = "continue"
                         <=> verdict(packet, required, missing, admin, slaTimeout) = "allow"
  BY Zenon DEF AssessStateQueuesEnough
<1>1. packet.decision \in Decisions /\ packet.corrections \in Nat
  BY DEF PacketType
<1>2. CASE packet.decision = "pass"
  BY <1>2 DEF ResolveVerdict, PassVerdict, Fulfilled, MinStrength, Recommendation
<1>3. CASE packet.decision = "warn"
  BY <1>1, <1>3 DEF ResolveVerdict, WarnVerdict, Recommendation, HumanQueueRequired
<1>4. CASE packet.decision = "hold"
  BY <1>4 DEF ResolveVerdict, HoldVerdict, Recommendation, HumanQueueRequired
<1>5. CASE packet.decision = "block"
  BY <1>5 DEF ResolveVerdict, Recommendation
<1> QED BY <1>1, <1>2, <1>3, <1>4, <1>5 DEF Decisions

\* An accepted production configuration is ready exactly when all it needs is up.
THEOREM ReadyIsCompleteCorrect == ReadyIsComplete(Configs)
BY DEF ReadyIsComplete, Configs, Accepted, Ready, Production
=============================================================================
