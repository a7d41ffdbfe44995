-------------------------- MODULE ProviderAdapter --------------------------
(***************************************************************************)
(* OpenAICompatibleProvider over UrllibAsyncTransport (openai_compatible.py) *)
(* under the executor of ResilientExecution: an attempt hands its request to *)
(* a worker thread (asyncio.to_thread) and awaits it.  A task that times out *)
(* or is cancelled leaves its request to the thread; one that no thread has   *)
(* taken yet is withdrawn.  The runtime may be closed at any time.            *)
(***************************************************************************)
EXTENDS ResilientExecution

CONSTANTS
    Replies,   \* HTTP responses: records of status, retry_after, body and tokens
    Broken,    \* _send_sync raised HTTPTransportError
    Garbled,   \* _send_sync raised an exception it does not catch
    NoResult,  \* the thread has not ended
    Workers    \* threads of the pool of to_thread

VARIABLES
    closing,   \* ProductionAIRuntime.close: "open", "closing", "closed", "interrupted"
    request,   \* the request of each attempt of each call, as the pool sees it
    result,    \* what the thread of the attempt that is awaited ended with
    ending     \* history: how each attempt ended

adapterVars == <<closing, request, result, ending>>
providerVars == <<resilientVars, adapterVars>>

Attempts == 1..MaxAttempts
Results == Replies \cup {Broken, Garbled}

\* The bodies of a 2xx response: a response within the contract, one with another
\* model, JSON of a wrong shape or no JSON, and a list or a null "usage".
Bodies == {"response", "other_model", "invalid", "no_mapping"}

ASSUME AdapterAssumption ==
    /\ Workers \in Nat \ {0}
    /\ NoResult \notin Results
    /\ {Broken, Garbled} \cap Replies = {}
    /\ Replies \subseteq [status : 100..599, retry_after : Nat \cup {None}, body : Bodies,
                          tokens : Nat]
    /\ \A r \in Replies : \A c \in Calls : r.tokens <= Need[c] + Excess
    /\ None \in RetryAfter
    /\ \A r \in Replies : r.retry_after \in 0..300 => r.retry_after \in RetryAfter

----------------------------------------------------------------------------
Success(status) == status \in 200..299

\* _http_error: the statuses after which a request may be sent again.
Retryable(status) == status \in {408, 429} \cup 500..599

\* _retry_after_seconds: a number between 0 and 300, or nothing.
RetryAfterSeconds(r) == IF r.retry_after \in 0..300 THEN r.retry_after ELSE None

\* What provider.generate makes of the end of its thread.  The AttributeError of
\* .get on what is no mapping is not among the exceptions _decode_response catches.
Outcome(r) ==
    CASE r = Broken -> "retryable"
      [] r = Garbled -> "exception"
      [] r \in Replies /\ ~Success(r.status) ->
           IF Retryable(r.status) THEN "retryable" ELSE "final"
      [] OTHER -> CASE r.body = "response" -> "response"
                    [] r.body = "other_model" -> "off_contract"
                    [] r.body = "invalid" -> "final"
                    [] OTHER -> "exception"

\* The task of c is between its provider call and the await of the thread: no
\* other coroutine runs.
Unsent(c) == pc[c] = "calling" /\ ending[c][attempt[c]] = "none" /\ request[c][attempt[c]] = "none"
Quiet == \A c \in Calls : ~Unsent(c)

Running == {t \in Calls \X Attempts : request[t[1]][t[2]] = "running"}

SetRequest(c, i, state) == request' = [request EXCEPT ![c] = [@ EXCEPT ![i] = state]]
EndAttempt(c, how) == ending' = [ending EXCEPT ![c] = [@ EXCEPT ![attempt[c]] = how]]

AdapterInit ==
    /\ Init
    /\ closing = "open"
    /\ request = [c \in Calls |-> [i \in Attempts |-> "none"]]
    /\ result = [c \in Calls |-> NoResult]
    /\ ending = [c \in Calls |-> [i \in Attempts |-> "none"]]

----------------------------------------------------------------------------
\* The call begins, or its sleep ends: an iteration of the executor's loop.
Begin(c) ==
    /\ Quiet
    /\ Generate(c) \/ Retry(c)
    /\ UNCHANGED adapterVars

\* Mutant: only the transport knows that the runtime is closed.
SendUnlessTransportClosed(c) ==
    /\ Unsent(c)
    /\ IF closing = "closed"
       THEN /\ FailFinally(c)
            /\ EndAttempt(c, "final")
            /\ UNCHANGED <<closing, request, result>>
       ELSE /\ SetRequest(c, attempt[c], "queued")
            /\ UNCHANGED <<resilientVars, closing, result, ending>>

\* provider.generate up to its await.  The transport's own test of closed is never
\* met: the provider is closed before its transport.  (A request that needs a
\* capability the provider lacks fails at the same place in the same way.)
Send(c) ==
    /\ Unsent(c)
    /\ IF closing # "open"
       THEN /\ FailFinally(c)
            /\ EndAttempt(c, "final")
            /\ UNCHANGED <<closing, request, result>>
       ELSE /\ SetRequest(c, attempt[c], "queued")
            /\ UNCHANGED <<resilientVars, closing, result, ending>>

\* A thread of the pool takes a request and sends it.
StartRequest(c, i) ==
    /\ request[c][i] = "queued"
    /\ Cardinality(Running) < Workers
    /\ SetRequest(c, i, "running")
    /\ UNCHANGED <<resilientVars, closing, result, ending>>

\* _send_sync ends.  Nobody sees the result of an attempt that was given up.
FinishRequest(c, i, r) ==
    /\ request[c][i] = "running"
    /\ SetRequest(c, i, "over")
    /\ result' = IF pc[c] = "calling" /\ attempt[c] = i THEN [result EXCEPT ![c] = r] ELSE result
    /\ UNCHANGED <<resilientVars, closing, ending>>

\* The task of c resumes with the end of its thread: the errors of _http_error and
\* _decode_response, or a response that the executor validates and records.
Receive(c) ==
    LET r == result[c]
    IN  /\ Quiet
        /\ pc[c] = "calling"
        /\ r # NoResult
        /\ CASE Outcome(r) = "response" -> Respond(c, r.tokens)
             [] Outcome(r) = "off_contract" -> RespondOffContract(c)
             [] Outcome(r) = "retryable" ->
                  FailRetryably(c, IF r = Broken THEN None ELSE RetryAfterSeconds(r))
             [] OTHER -> FailFinally(c)
        /\ EndAttempt(c, Outcome(r))
        /\ result' = [result EXCEPT ![c] = NoResult]
        /\ UNCHANGED <<closing, request>>

\* Mutant: a request still queued is sent though its task has left.
LeaveRequestQueued(c, how) ==
    /\ EndAttempt(c, how)
    /\ result' = [result EXCEPT ![c] = NoResult]
    /\ UNCHANGED <<closing, request>>

\* The task stops to await its thread: the request is withdrawn from the queue of
\* the pool, or goes on in its thread.
LeaveRequest(c, how) ==
    /\ EndAttempt(c, how)
    /\ result' = [result EXCEPT ![c] = NoResult]
    /\ IF request[c][attempt[c]] = "queued" THEN SetRequest(c, attempt[c], "over")
                                            ELSE UNCHANGED request
    /\ UNCHANGED closing

GiveUp(c) ==
    /\ Quiet
    /\ TimeOut(c)
    /\ LeaveRequest(c, "timeout")

CancelTask(c) ==
    /\ Quiet
    /\ Cancel(c)
    /\ IF pc[c] = "calling" THEN LeaveRequest(c, "cancelled") ELSE UNCHANGED adapterVars

\* ProductionAIRuntime.close and OpenAICompatibleProvider.close up to the await of
\* the transport; whoever closes a second time returns at once.
Close ==
    /\ Quiet
    /\ closing = "open"
    /\ closing' = "closing"
    /\ UNCHANGED <<resilientVars, request, result, ending>>

\* The transport's close returns; or fails, or is cancelled, for good.
EndClose(how) ==
    /\ Quiet
    /\ closing = "closing"
    /\ closing' = how
    /\ UNCHANGED <<resilientVars, request, result, ending>>

PassTime == Quiet /\ Tick /\ UNCHANGED adapterVars

AdapterNext ==
    \/ PassTime
    \/ Close
    \/ \E how \in {"closed", "interrupted"} : EndClose(how)
    \/ \E c \in Calls :
          \/ Begin(c) \/ Send(c) \/ Receive(c) \/ GiveUp(c) \/ CancelTask(c)
          \/ \E i \in Attempts :
                StartRequest(c, i) \/ \E r \in Results : FinishRequest(c, i, r)

\* The coroutine of a call that has not awaited yet goes on, and timers are served.
Advance(c) == Send(c) \/ GiveUp(c) \/ (pc[c] = "sleeping" /\ Begin(c))

AdapterSpec == AdapterInit /\ [][AdapterNext]_providerVars

----------------------------------------------------------------------------
AdapterTypeOK ==
    /\ closing \in {"open", "closing", "closed", "interrupted"}
    /\ request \in [Calls -> [Attempts -> {"none", "queued", "running", "over"}]]
    /\ result \in [Calls -> Results \cup {NoResult}]
    /\ ending \in [Calls -> [Attempts -> {"none", "response", "off_contract", "retryable",
                                           "final", "exception", "timeout", "cancelled"}]]

\* A request is sent for a provider call of the ledger and once; it is sent again
\* only when its answer was not heard, or asked for it; and what waits for a
\* thread is awaited by its task, so a call that ended sends nothing more.
RequestsAreJustified ==
    /\ AdapterTypeOK
    /\ \A c \in Calls, i \in Attempts :
          /\ request[c][i] # "none" => i <= attempt[c]
          /\ i < attempt[c] => ending[c][i] \in {"retryable", "timeout"}
          /\ request[c][i] = "queued" => pc[c] = "calling" /\ attempt[c] = i
    /\ \A c \in Calls : pc[c] = "returned" => ending[c][attempt[c]] = "response"

\* Once the runtime is being closed no request is handed to a thread, be it a first
\* attempt or a retry; those in their threads go on.
NothingSentOnceClosed ==
    [][closing # "open" =>
         \A c \in Calls, i \in Attempts :
             request[c][i] = "none" => request'[c][i] = "none"]_providerVars

\* Over the adapter, with its threads, the executor takes the steps of
\* ResilientExecution and no other.
ImplementsExecutor == Spec

\* "The adapter owns protocol translation and error normalization": every failure
\* of provider.generate is a ProviderError, invalid JSON ("JSON invalide ... unknown")
\* among them.
FailuresAreNormalised ==
    \A c \in Calls, i \in Attempts : ending[c][i] # "exception"
============================================================================
