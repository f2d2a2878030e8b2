-------------------------------- MODULE Auth --------------------------------
(***************************************************************************)
(* Authentication on the server (server/src/auth.rs): connections verify   *)
(* the tokens of their Hello side by side, sharing one cache of the        *)
(* issuer's keys under a mutex that is held across the fetch, while the    *)
(* issuer publishes new signing keys and retires old ones.                 *)
(*                                                                         *)
(* Keys are numbered in the order the issuer publishes them in its         *)
(* document.  A token says which flow minted it, with which key, and       *)
(* whether its header names the key.                                       *)
(***************************************************************************)
EXTENDS Integers, FiniteSets, FiniteSetsExt

CONSTANTS
    Conns,               \* connections, numbered from 1
    MaxKey               \* bound on the keys the issuer ever publishes

ASSUME AuthAssumption == Conns \subseteq Nat \ {0} /\ MaxKey \in Nat \ {0}

VARIABLES
    allowed_sub,         \* OidcConfig.allowed_sub
    token,               \* the token of each connection's Hello
    verdict,             \* how far its verification is
    jwks,                \* the cached keys, {} before the first fetch
    mutex,               \* the connection that holds jwks across a fetch, or 0
    published            \* the keys of the issuer's document

authVars == <<allowed_sub, token, verdict, jwks, mutex, published>>

None == "none"
ClientId == "herdr-eternal"      \* OidcConfig.client_id
User == "user"

\* The claims of the tokens a daemon may be shown: an aud is a set, empty when
\* the claim is missing or an empty list.
Claims(sub, client_id, aud, expired) ==
    [sub |-> sub, client_id |-> client_id, aud |-> aud, expired |-> expired]

Minted == [
    standard    |-> Claims(User, None, {ClientId}, FALSE),
    shared      |-> Claims(User, None, {ClientId, "other"}, FALSE),
    device      |-> Claims(User, ClientId, {}, FALSE),
    credentials |-> Claims(None, ClientId, {ClientId}, FALSE),
    expired     |-> Claims(User, None, {ClientId}, TRUE),
    other_sub   |-> Claims("other", None, {ClientId}, FALSE),
    other_aud   |-> Claims(User, None, {"other"}, FALSE),
    other_app   |-> Claims(User, "other", {}, FALSE),
    nobody      |-> Claims(None, None, {ClientId}, FALSE)]

\* foreign: minted by another issuer.  garbage: not a JWT.
Flows == DOMAIN Minted \cup {"static", "foreign", "garbage"}
ForeignKey == 0
Token(flow, key, kid) == [flow |-> flow, key |-> key, kid |-> kid]
NoToken == Token("garbage", ForeignKey, FALSE)

Tokens(flow) ==
    CASE flow \in DOMAIN Minted -> {Token(flow, key, kid) : key \in published, kid \in BOOLEAN}
      [] flow = "foreign" -> {Token(flow, ForeignKey, kid) : kid \in BOOLEAN}
      [] OTHER -> {Token(flow, ForeignKey, FALSE)}

AuthInit ==
    /\ allowed_sub \in {User, ClientId}
    /\ token = [c \in Conns |-> NoToken]
    /\ verdict = [c \in Conns |-> "none"]
    /\ jwks = {} /\ mutex = 0 /\ published = {1}

\* A client gets itself a token for its Hello.
Present(c, flow) ==
    /\ verdict[c] = "none"
    /\ \E t \in Tokens(flow) : token' = [token EXCEPT ![c] = t]
    /\ UNCHANGED <<allowed_sub, verdict, jwks, mutex, published>>

-----------------------------------------------------------------------------
\* Audience.accepts and the checks of Oidc.verify after the signature.
Accepts(aud) == aud = {} \/ ClientId \in aud

\* Faulty: tokens issued to another OAuth client pass.
ClaimsAcceptedOfAnyone(claims) ==
    /\ ~claims.expired
    /\ Accepts(claims.aud)
    /\ (IF claims.sub # None THEN claims.sub ELSE claims.client_id) = allowed_sub

ClaimsAccepted(claims) ==
    /\ ~claims.expired
    /\ Accepts(claims.aud)
    /\ claims.client_id \in {None, ClientId}
    /\ (IF claims.sub # None THEN claims.sub ELSE claims.client_id) = allowed_sub

\* Oidc.verify with the key it was given: the signature must be that key's.
Checked(t, key) ==
    IF t.key = key /\ t.flow \in DOMAIN Minted /\ ClaimsAccepted(Minted[t.flow])
    THEN "accepted" ELSE "rejected"

\* The key of a set that a token's header selects; without a key id, the first.
First(set) == Min(set)
Selected(t, set) == IF t.kid THEN set \cap {t.key} ELSE {First(set)}

\* Auth.verify up to the mutex.
Verify(c) ==
    /\ verdict[c] = "none"
    /\ verdict' = [verdict EXCEPT ![c] =
          CASE token[c].flow = "static" -> "accepted"
            [] token[c].flow = "garbage" -> "rejected"
            [] OTHER -> "queued"]
    /\ UNCHANGED <<allowed_sub, token, jwks, mutex, published>>

\* Faulty: keys are fetched once and never again.
DecodingKeyOnce(c) ==
    /\ verdict[c] = "queued" /\ mutex = 0
    /\ \/ /\ jwks = {}
          /\ verdict' = [verdict EXCEPT ![c] = "fetch"]
          /\ mutex' = c
       \/ /\ jwks # {}
          /\ verdict' = [verdict EXCEPT ![c] =
                IF token[c].key \in jwks THEN Checked(token[c], token[c].key) ELSE "rejected"]
          /\ UNCHANGED mutex
    /\ UNCHANGED <<allowed_sub, token, jwks, published>>

\* decoding_key with the mutex taken: the cached key, or the start of a fetch,
\* the first of two when nothing is cached yet.
DecodingKey(c) ==
    /\ verdict[c] = "queued" /\ mutex = 0
    /\ \/ /\ jwks = {}
          /\ verdict' = [verdict EXCEPT ![c] = "fetch"]
          /\ mutex' = c
       \/ /\ jwks # {} /\ Selected(token[c], jwks) = {}
          /\ verdict' = [verdict EXCEPT ![c] = "refetch"]
          /\ mutex' = c
       \/ /\ jwks # {}
          /\ \E key \in Selected(token[c], jwks) :
               verdict' = [verdict EXCEPT ![c] = Checked(token[c], key)]
          /\ UNCHANGED mutex
    /\ UNCHANGED <<allowed_sub, token, jwks, published>>

\* Faulty: the key a token names is cached whether it is published or not.
FetchJwksTrusting(c) ==
    /\ verdict[c] \in {"fetch", "refetch"}
    /\ jwks' = published \cup {token[c].key}
    /\ verdict' = [verdict EXCEPT ![c] = Checked(token[c], token[c].key)]
    /\ mutex' = 0
    /\ UNCHANGED <<allowed_sub, token, published>>

\* fetch_jwks answers: the cache is replaced and searched again.
FetchJwks(c) ==
    /\ verdict[c] \in {"fetch", "refetch"}
    /\ jwks' = published
    /\ \/ /\ Selected(token[c], published) = {} /\ verdict[c] = "fetch"
          /\ verdict' = [verdict EXCEPT ![c] = "refetch"]
          /\ UNCHANGED mutex
       \/ /\ Selected(token[c], published) = {} /\ verdict[c] = "refetch"
          /\ verdict' = [verdict EXCEPT ![c] = "rejected"]
          /\ mutex' = 0
       \/ /\ \E key \in Selected(token[c], published) :
               verdict' = [verdict EXCEPT ![c] = Checked(token[c], key)]
          /\ mutex' = 0
    /\ UNCHANGED <<allowed_sub, token, published>>

\* Faulty: an error leaves the mutex locked.
FetchFailsLocked(c) ==
    /\ verdict[c] \in {"fetch", "refetch"}
    /\ verdict' = [verdict EXCEPT ![c] = "unreachable"]
    /\ UNCHANGED <<allowed_sub, token, jwks, mutex, published>>

\* fetch_jwks fails: the connection is refused, the cache left as it is.
FetchFails(c) ==
    /\ verdict[c] \in {"fetch", "refetch"}
    /\ verdict' = [verdict EXCEPT ![c] = "unreachable"]
    /\ mutex' = 0
    /\ UNCHANGED <<allowed_sub, token, jwks, published>>

\* The issuer publishes a new key, or retires its oldest.
PublishKey ==
    /\ \E key \in 1 .. MaxKey :
         /\ \A k \in published : k < key
         /\ published' = published \cup {key}
    /\ UNCHANGED <<allowed_sub, token, verdict, jwks, mutex>>

RetireKey ==
    /\ \E key \in published :
         /\ published # {key} /\ \A k \in published : key <= k
         /\ published' = published \ {key}
    /\ UNCHANGED <<allowed_sub, token, verdict, jwks, mutex>>

AuthNext ==
    \/ \E c \in Conns :
         \/ \E flow \in Flows : Present(c, flow)
         \/ Verify(c) \/ DecodingKey(c) \/ FetchJwks(c) \/ FetchFails(c)
    \/ PublishKey \/ RetireKey

AuthSpec == AuthInit /\ [][AuthNext]_authVars
-----------------------------------------------------------------------------
AuthTypeOK ==
    /\ allowed_sub \in {User, ClientId}
    /\ token \in [Conns -> [flow : Flows, key : 0 .. MaxKey, kid : BOOLEAN]]
    /\ verdict \in [Conns -> {"none", "queued", "fetch", "refetch", "accepted", "rejected",
                              "unreachable"}]
    /\ jwks \subseteq 1 .. MaxKey /\ published \subseteq 1 .. MaxKey
    /\ mutex \in Conns \cup {0}

\* Who a flow's tokens stand for, if they are meant for this daemon at all.
Owner(flow) ==
    CASE flow \in {"standard", "shared", "device"} -> {User}
      [] flow = "credentials" -> {ClientId}
      [] flow = "static" -> {User, ClientId}
      [] OTHER -> {}

\* Whatever keys are cached and whoever fetched them, only the static token and
\* valid tokens of the allowed subject, issued to this client, are accepted; and
\* such a token that names its key is refused only if the key has been retired or
\* the issuer could not be reached: a key published after the cache was filled is
\* found (the second round of decoding_key).
TokensJudged ==
    \A c \in Conns :
        /\ verdict[c] = "accepted" => allowed_sub \in Owner(token[c].flow)
        /\ verdict[c] = "rejected" /\ allowed_sub \in Owner(token[c].flow) /\ token[c].kid
              => token[c].key \notin published
=============================================================================
