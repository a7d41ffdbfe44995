---------------------------- MODULE MCCallPath -----------------------------
(* What a call passes on its way to a provider: the selection of the provider *)
(* when the runtime is made, the authentication of the token, the governed    *)
(* boundary, and the retries under the shared budget over the adapter with    *)
(* its threads.  They share nothing here; a behaviour runs one, the others     *)
(* rest.                                                                      *)
EXTENDS ProviderAdapter, TokenAuthentication, ProviderSelection

CONSTANTS c1, c2, k1, k2, text, tools, deterministicV1, m1, r1, r2, i1, p1, p2

VARIABLES step, wall_clock, usage, reservation, caller, readAt, estimate, charged, stage,
          events, used, answer, stuck

boundaryVars == <<wall_clock, usage, reservation, caller, readAt, estimate, charged, stage,
                  events, used, answer, stuck>>

----------------------------------------------------------------------------
TwoTokensEach == [c \in Calls |-> 2]
TwoTicksEach == [c \in Calls |-> 2]
NoneOrSome == {None, 0}
OneKey == {k1}
TextAndTools == {text, tools}
TwoModels == {deterministicV1, m1}

Reply(status, retry_after, body, tokens) ==
    [status |-> status, retry_after |-> retry_after, body |-> body, tokens |-> tokens]

\* Answers within the estimate and over it, off the contract, and not understood; a
\* conflict, and two busy servers: one may be asked again at once, the other says a
\* retry_after that is out of range.
AllReplies ==
    {Reply(200, None, b, 2) : b \in {"response", "other_model", "invalid", "no_mapping"}}
    \cup {Reply(200, None, "response", 3), Reply(409, None, "invalid", 0),
          Reply(429, 0, "invalid", 0), Reply(503, 301, "invalid", 0)}

Good == [shape |-> "ok", alg |-> "HS256", typ |-> NoClaim, kid |-> k1, crit |-> FALSE,
         signed_with |-> k1, exp |-> 4, nbf |-> NoClaim, iat |-> 1, iss |-> "issuer",
         aud |-> <<"api">>, azp |-> NoClaim, nonce |-> "n", sub |-> "alice",
         tenant |-> "acme", roles |-> {"execute"}]

\* Every way to claim the times ...
Timed == {[Good EXCEPT !.exp = e, !.nbf = b, !.iat = i] :
            e \in {NoClaim, BadClaim, 0, 2, 4, 9}, b \in {NoClaim, BadClaim, 1, 3},
            i \in {NoClaim, BadClaim, 0, 2, 4}}

\* ... every way to sign, at times that are wrong as well ...
Signed == {[t EXCEPT !.alg = a, !.kid = k, !.signed_with = s] :
             t \in {Good, [Good EXCEPT !.exp = BadClaim], [Good EXCEPT !.exp = 0]},
             a \in {NoClaim, "none", "HS256", "RS256"}, k \in {NoClaim, BadClaim, k1, k2},
             s \in {k1, "nobody"}}

\* ... every form, and every other claim.
Formed == {[Good EXCEPT !.shape = f] : f \in {"segments", "header", "claims", "signature"}}
          \cup {[Good EXCEPT !.crit = TRUE], [Good EXCEPT !.typ = BadClaim]}

Claimed == {[Good EXCEPT !.iss = s, !.aud = d, !.azp = z] :
              s \in {NoClaim, "issuer", "other"},
              d \in {NoClaim, BadClaim, <<"api">>, <<"elsewhere">>, <<"elsewhere", "api">>},
              z \in {NoClaim, BadClaim, "api", "elsewhere"}}
           \cup {[Good EXCEPT !.nonce = o, !.sub = u, !.tenant = w, !.roles = r] :
              o \in {NoClaim, "n"}, u \in {NoClaim, BadClaim, "alice"},
              w \in {NoClaim, BadClaim, "acme"}, r \in {NoClaim, BadClaim, {"execute"}, {"read"}}}

AllTokens == Timed \cup Signed \cup Formed \cup Claimed

Strict == [issuer |-> "issuer", audiences |-> {"api"}, algorithms |-> {"HS256", "RS256"},
           method |-> "oidc", required_roles |-> {"execute"}, nonce |-> "n", leeway |-> 1,
           max_age |-> 3, require_expiration |-> TRUE]

AllPolicies == {Strict,
                [Strict EXCEPT !.max_age = NoLimit, !.method = "jwt", !.nonce = NoClaim],
                [Strict EXCEPT !.require_expiration = FALSE, !.leeway = 0]}
----------------------------------------------------------------------------
\* Two calls of one identity, one in each process, over a backend that serves them.
Boundary == INSTANCE GovernedExecution WITH
    Requests <- {r1, r2}, Identities <- {i1}, Identity <- [r \in {r1, r2} |-> i1],
    MaxRequests <- 2, MaxTokens <- 3, MaxConcurrent <- 1, TTL <- 1, MaxEstimate <- 1,
    Excess <- 0, MaxClock <- 1, Processes <- {p1, p2},
    Process <- [r \in {r1, r2} |-> IF r = r1 THEN p1 ELSE p2], Authorized <- {r1, r2},
    BackendFails <- FALSE, LeakyCancel <- FALSE, pc <- caller, clock <- wall_clock

\* One value of each, while another step of the path is looked at.
NoToken ==
    /\ policy = Strict /\ token = Good /\ clock = 0
    /\ outcome = "none" /\ first = 8 /\ last = -1

NoSelection ==
    /\ settings = [provider_id |-> "deterministic", model |-> deterministicV1,
                   auth_mode |-> "none", api_key |-> FALSE, base_url |-> FALSE]
    /\ required = {text} /\ custom = "absent" /\ composer = "production"
    /\ report = "none" /\ selection = [code |-> "none"]

PathInit ==
    /\ AdapterInit
    /\ Boundary!ExecutionInit
    /\ \/ step \in {"provide", "govern"} /\ NoToken /\ NoSelection
       \/ step = "authenticate" /\ AuthenticationInit /\ NoSelection
       \/ step = "select" /\ SelectionInit /\ NoToken

PathNext ==
    \/ /\ step = "provide"
       /\ AdapterNext
       /\ UNCHANGED <<tokenVars, selectionVars, boundaryVars>>
    \/ /\ step = "authenticate"
       /\ AuthenticationNext
       /\ UNCHANGED <<providerVars, selectionVars, boundaryVars>>
    \/ /\ step = "select"
       /\ SelectionNext
       /\ UNCHANGED <<providerVars, tokenVars, boundaryVars>>
    \/ /\ step = "govern"
       /\ Boundary!ExecutionNext
       /\ UNCHANGED <<providerVars, tokenVars, selectionVars>>

pathVars == <<providerVars, tokenVars, selectionVars, boundaryVars, step>>

Rest == UNCHANGED <<tokenVars, selectionVars, boundaryVars, step>>

TimePasses == step = "provide" /\ PassTime /\ Rest

\* What is done for the call c of the executor, or for the request r of the boundary.
Serve(c, r) ==
    \/ step = "provide" /\ Advance(c) /\ Rest
    \/ /\ step = "govern"
       /\ Boundary!Handle(r)
       /\ UNCHANGED <<providerVars, tokenVars, selectionVars, step>>

\* The clock of the executor advances and its event loop serves the timers and the
\* coroutines that can go on; the boundary's backend serves its transactions.
\* Nothing is assumed of a provider or of its threads.
FairPathSpec ==
    /\ PathInit
    /\ [][PathNext /\ UNCHANGED step]_pathVars
    /\ WF_pathVars(TimePasses)
    /\ WF_pathVars(Serve(c1, r1))
    /\ WF_pathVars(Serve(c2, r2))

----------------------------------------------------------------------------
\* A call of the boundary that was started, did not crash, and left its slot taken.
SlotKept(r) ==
    stage[r] = "done" /\ events[r] # <<>> /\ caller[r] = "holding"
        /\ reservation[r].expires_at # 0

Waits(c, r) == Pending(c) \/ stage[r] \notin {"idle", "done", "crashed"} \/ SlotKept(r)

\* Every call ends, of the executor over its adapter and of the boundary, which gives
\* its slot back: retries, sleeps, silent servers, refusals and cancellations hold
\* none for ever.
EveryCallEnds ==
    /\ Waits(c1, r1) ~> ~Waits(c1, r1)
    /\ Waits(c2, r2) ~> ~Waits(c2, r2)
============================================================================
