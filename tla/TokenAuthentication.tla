------------------------ MODULE TokenAuthentication ------------------------
(***************************************************************************)
(* JwtOidcAuthenticator (authentication.py): one compact token, presented      *)
(* over and over while the wall clock goes on, to an authenticator of one      *)
(* policy and one set of HMAC keys. The checks are those of authenticate, in   *)
(* the order of the code; claims are abstracted to what the checks tell apart. *)
(***************************************************************************)
EXTENDS Integers, FiniteSets, FiniteSetsExt, Sequences

CONSTANTS
    Policies,   \* the TokenValidationPolicies
    Tokens,     \* the compact tokens
    Keys,       \* key_ids of the verifier
    DefaultKey, \* default_key_id, or NoClaim
    NoClaim,    \* a member that is absent or null
    BadClaim,   \* a member of the wrong type or form
    NoLimit,    \* max_token_age_seconds is None
    MaxTime     \* bound on the clock

ASSUME AuthenticationAssumption ==
    /\ DefaultKey \in Keys \cup {NoClaim}
    /\ {NoClaim, BadClaim} \cap Keys = {}
    /\ MaxTime \in Nat \ {0}
    /\ \A p \in Policies : p.leeway \in Nat /\ p.max_age \in Nat \cup {NoLimit}
    /\ \A t \in Tokens : {t.exp, t.nbf, t.iat} \subseteq Int \cup {NoClaim, BadClaim}

VARIABLES
    policy,    \* of the authenticator; never changes
    token,     \* what the caller holds; never changes
    clock,       \* the clock
    outcome,   \* what authenticate made of it the last time
    first,     \* history: when it was first accepted, MaxTime + 1 if never
    last       \* history: when it was last accepted, -1 if never

tokenVars == <<policy, token, clock, outcome, first, last>>

----------------------------------------------------------------------------
Numeric(claim) == claim \notin {NoClaim, BadClaim}

\* HmacSha256Verifier.verify
Verified(t) ==
    LET selected == IF t.kid = NoClaim THEN DefaultKey ELSE t.kid
    IN  t.alg = "HS256" /\ selected \in Keys /\ t.signed_with = selected

\* _segments, _json_object, _validate_header and the verifier; a verifier that
\* raises refuses.
HeaderTests(p, t, raises) == <<
    [fails |-> t.shape \in {"segments", "claims"}, code |-> "malformed_token"],
    [fails |-> t.shape = "header" \/ t.alg = NoClaim, code |-> "invalid_header"],
    [fails |-> t.alg \notin p.algorithms, code |-> "unsupported_algorithm"],
    [fails |-> t.typ = BadClaim \/ t.kid = BadClaim \/ t.crit, code |-> "invalid_header"],
    [fails |-> t.shape = "signature", code |-> "malformed_token"],
    [fails |-> raises \/ ~Verified(t), code |-> "signature_invalid"] >>

\* Mutant: nbf is compared the wrong way round.
TimeTestsReversed(p, t, n) == <<
    [fails |-> t.exp = NoClaim /\ p.require_expiration, code |-> "required_claim_missing"],
    [fails |-> t.exp = BadClaim, code |-> "claim_type_invalid"],
    [fails |-> Numeric(t.exp) /\ n - p.leeway >= t.exp, code |-> "token_expired"],
    [fails |-> Numeric(t.nbf) /\ n + p.leeway > t.nbf, code |-> "token_not_yet_valid"] >>

\* _validate_time_claims
TimeTests(p, t, n) == <<
    [fails |-> t.exp = NoClaim /\ p.require_expiration, code |-> "required_claim_missing"],
    [fails |-> t.exp = BadClaim, code |-> "claim_type_invalid"],
    [fails |-> Numeric(t.exp) /\ n - p.leeway >= t.exp, code |-> "token_expired"],
    [fails |-> t.nbf = BadClaim, code |-> "claim_type_invalid"],
    [fails |-> Numeric(t.nbf) /\ n + p.leeway < t.nbf, code |-> "token_not_yet_valid"],
    [fails |-> t.iat = NoClaim /\ p.max_age # NoLimit, code |-> "required_claim_missing"],
    [fails |-> t.iat = BadClaim, code |-> "claim_type_invalid"],
    [fails |-> Numeric(t.iat) /\ t.iat > n + p.leeway, code |-> "token_issued_in_future"],
    [fails |-> Numeric(t.iat) /\ p.max_age # NoLimit /\ n - t.iat > p.max_age + p.leeway,
     code |-> "token_too_old"] >>

\* _validate_issuer, _validate_audience; aud is a tuple of audiences.
PartyTests(p, t) ==
    LET named == Numeric(t.aud)
        oidc == p.method = "oidc"
    IN  << [fails |-> ~Numeric(t.iss), code |-> "required_claim_missing"],
           [fails |-> t.iss # p.issuer, code |-> "issuer_mismatch"],
           [fails |-> t.aud = NoClaim, code |-> "required_claim_missing"],
           [fails |-> t.aud = BadClaim, code |-> "claim_type_invalid"],
           [fails |-> named /\ {t.aud[k] : k \in DOMAIN t.aud} \cap p.audiences = {},
            code |-> "audience_mismatch"],
           [fails |-> named /\ oidc /\ Len(t.aud) > 1 /\ ~Numeric(t.azp),
            code |-> "required_claim_missing"],
           [fails |-> named /\ oidc /\ t.azp # NoClaim /\ t.azp \notin p.audiences,
            code |-> "authorized_party_mismatch"] >>

\* _validate_nonce, _principal
IdentityTests(p, t) == <<
    [fails |-> p.nonce # NoClaim /\ t.nonce # p.nonce, code |-> "nonce_mismatch"],
    [fails |-> t.sub = NoClaim, code |-> "required_claim_missing"],
    [fails |-> t.sub = BadClaim, code |-> "identity_invalid"],
    [fails |-> t.tenant = NoClaim, code |-> "required_claim_missing"],
    [fails |-> t.tenant = BadClaim, code |-> "identity_invalid"],
    [fails |-> ~Numeric(t.roles), code |-> "roles_invalid"],
    [fails |-> Numeric(t.roles) /\ ~(p.required_roles \subseteq t.roles),
     code |-> "roles_invalid"] >>

\* Mutant: the claims are looked at before the signature.
TestsClaimsFirst(p, t, n, raises) ==
    TimeTests(p, t, n) \o HeaderTests(p, t, raises) \o PartyTests(p, t) \o IdentityTests(p, t)

Tests(p, t, n, raises) ==
    HeaderTests(p, t, raises) \o TimeTests(p, t, n) \o PartyTests(p, t) \o IdentityTests(p, t)

\* authenticate: the code of the first test that fails, or a principal.
Authenticate(p, t, n, raises) ==
    LET tests == Tests(p, t, n, raises)
        failed == {k \in DOMAIN tests : tests[k].fails}
    IN  IF failed = {} THEN "accepted" ELSE tests[Min(failed)].code

AuthenticationInit ==
    /\ policy \in Policies
    /\ token \in Tokens
    /\ clock \in 0..1
    /\ outcome = "none"
    /\ first = MaxTime + 1
    /\ last = -1

\* The clock of the process goes on.
ClockAdvances ==
    /\ clock < MaxTime
    /\ clock' = clock + 1
    /\ UNCHANGED <<policy, token, outcome, first, last>>

Present(raises) ==
    LET result == Authenticate(policy, token, clock, raises)
    IN  /\ outcome' = result
        /\ first' = IF result = "accepted" /\ first > clock THEN clock ELSE first
        /\ last' = IF result = "accepted" THEN clock ELSE last
        /\ UNCHANGED <<policy, token, clock>>

AuthenticationNext == ClockAdvances \/ \E raises \in BOOLEAN : Present(raises)

AuthenticationSpec == AuthenticationInit /\ [][AuthenticationNext]_tokenVars

----------------------------------------------------------------------------
Early == {"token_not_yet_valid", "token_issued_in_future"}
Late == {"token_expired", "token_too_old"}
HeaderCodes == {"malformed_token", "invalid_header", "unsupported_algorithm", "signature_invalid"}

\* The shape of the authenticator's state; the token is never changed.
AuthenticationTypes ==
    /\ policy \in Policies
    /\ clock \in 0..MaxTime
    /\ outcome \in {"none", "accepted", "required_claim_missing", "claim_type_invalid",
                    "issuer_mismatch", "audience_mismatch", "authorized_party_mismatch",
                    "nonce_mismatch", "identity_invalid", "roles_invalid"}
                   \cup Early \cup Late \cup HeaderCodes
    /\ first \in 0..MaxTime + 1
    /\ last \in -1..MaxTime

\* A token is good for one stretch of time: once it was refused as expired or too
\* old it is never accepted, nor taken for a future one, again; once it was
\* accepted, it is never refused as one of the future.
OneStretchOfTime ==
    [][/\ outcome \in Late => outcome' \notin Early \cup {"accepted"}
       /\ first <= clock => outcome' \notin Early]_tokenVars

\* However far apart issuer and clock are within the leeway, and whatever a token
\* claims as its expiration, it is accepted for no longer than the maximum age and
\* twice the leeway ("durée maximale du jeton et tolérance d'horloge bornées"), and
\* never from its expiration plus the leeway on.
LifetimeIsBounded ==
    last >= 0 =>
        /\ policy.max_age # NoLimit => last - first <= policy.max_age + 2 * policy.leeway
        /\ Numeric(token.exp) => last < token.exp + policy.leeway
        /\ policy.require_expiration => Numeric(token.exp)

\* Nothing is learnt from a token the verifier has not accepted: the answer does
\* not depend on its claims ("validation de la signature avant toute utilisation
\* des claims").
UnsignedClaimsAreSilent ==
    (outcome # "none" /\ ~Verified(token)) => outcome \in HeaderCodes

\* What is accepted is bounded in time and signed.
AcceptanceIsBounded ==
    AuthenticationTypes /\ LifetimeIsBounded /\ UnsignedClaimsAreSilent
============================================================================
