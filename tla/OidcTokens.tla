----------------------------- MODULE OidcTokens -----------------------------
(***************************************************************************)
(* The OIDC token cache of one target (client/src/oidc.rs): the processes  *)
(* and tasks that call access_token or log in, the file they share, its    *)
(* lock, and the identity provider.                                        *)
(*                                                                         *)
(* A caller is                                                             *)
(*   idle       in no call                                                 *)
(*   lock       waiting in lock_token_cache                                *)
(*   request    holding the lock, its refresh request on the way           *)
(*   answered   the provider has answered it                               *)
(*   poll       logging in, about to ask for the device-code tokens        *)
(*   sleep      logging in, waiting for the next poll                      *)
(*   open, write, rename   inside store_tokens                             *)
(*                                                                         *)
(* Times are remaining times, so the model needs no clock.                 *)
(***************************************************************************)
EXTENDS Integers, FiniteSets, FiniteSetsExt

CONSTANTS
    Clients,             \* callers sharing one token cache
    Ttys,                \* those that can prompt for a login
    EXPIRY_MARGIN,       \* EXPIRY_MARGIN_SECS
    ExpiresIn,           \* lifetime of an access token
    MaxLatency,          \* how long an answer may take to reach the cache
    DeviceExpiresIn,     \* lifetime of a device code
    Interval,            \* device.interval
    SlowDown,            \* the 5 seconds slow_down adds
    RetryAfters,         \* Retry-After values the provider sends
    MaxFaults,           \* bound on the events that lose tokens
    Grants               \* refresh tokens; recycled once nobody knows them

None == 0                \* no grant, no lock holder

\* Grants never run out: a caller knows at most two, the cache and the temporary
\* file one each.
ASSUME OidcAssumption ==
    /\ IsFiniteSet(Clients) /\ None \notin Clients /\ Ttys \subseteq Clients
    /\ RetryAfters \subseteq Nat
    /\ EXPIRY_MARGIN \in Nat /\ ExpiresIn \in Nat /\ MaxLatency \in Nat
    /\ MaxLatency <= EXPIRY_MARGIN /\ MaxLatency < ExpiresIn
    /\ DeviceExpiresIn \in Nat /\ Interval \in Nat /\ SlowDown \in Nat /\ MaxFaults \in Nat
    /\ Grants \subseteq Nat \ {None}
    /\ IsFiniteSet(Grants) => Cardinality(Grants) > 2 * Cardinality(Clients) + 2

VARIABLES
    pc,                  \* where each caller is
    held,                \* the refresh token it presents
    got,                 \* the answer it received
    fd,                  \* where the file is now that store_tokens opened
    wait,                \* remaining sleep of a login
    interval,            \* its polling interval
    deadline,            \* remaining life of its device code
    lock,                \* who holds <name>.lock
    cache, tmp,          \* <name>.json and <name>.json.tmp
    live,                \* grants the provider accepts
    out,                 \* how the call ended that the last step ended, if it did
    faults,              \* how many events outside this code lost tokens
    collided             \* whether a login's store overlapped another store

polling == <<wait, interval, deadline>>
calls == <<held, got, fd, polling>>
files == <<lock, cache, tmp>>
history == <<faults, collided>>
vars == <<pc, calls, files, live, out, history>>

\* A file: absent, empty, tokens, or what two writers left.
NoFile == [kind |-> "absent", grant |-> None, left |-> 0, expires |-> 0]
Empty == [NoFile EXCEPT !.kind = "empty"]
Mixed == [NoFile EXCEPT !.kind = "mixed"]
\* Faulty: the margins are subtracted when the tokens are stored.
CachedTokensLessMargins(grant, left) ==
    [kind |-> "tokens", grant |-> grant, left |-> left,
     expires |-> left - EXPIRY_MARGIN - MaxLatency]
CachedTokens(grant, left) ==
    [kind |-> "tokens", grant |-> grant, left |-> left, expires |-> ExpiresIn]

NoAnswer == [kind |-> "none", grant |-> None, left |-> 0]
Answer(kind) == [NoAnswer EXCEPT !.kind = kind]
TokenResponse(grant) == [kind |-> "tokens", grant |-> grant, left |-> ExpiresIn]

Storing == {"open", "write", "rename"}

Init ==
    /\ pc = [c \in Clients |-> "idle"]
    /\ held = [c \in Clients |-> None] /\ got = [c \in Clients |-> NoAnswer]
    /\ fd = [c \in Clients |-> "none"] /\ wait = [c \in Clients |-> 0]
    /\ interval = [c \in Clients |-> Interval] /\ deadline = [c \in Clients |-> 0]
    /\ lock = None /\ cache = NoFile /\ tmp = NoFile
    /\ live = {} /\ out = "none" /\ faults = 0 /\ collided = FALSE

Goto(c, to) == pc' = [pc EXCEPT ![c] = to] /\ out' = "none"

\* Leaving a call: its future is dropped, and with it the lock and the file.
EndWith(c, result, open) ==
    /\ pc' = [pc EXCEPT ![c] = "idle"] /\ out' = result
    /\ held' = [held EXCEPT ![c] = None] /\ got' = [got EXCEPT ![c] = NoAnswer]
    /\ fd' = [open EXCEPT ![c] = "none"] /\ wait' = [wait EXCEPT ![c] = 0]
    /\ interval' = [interval EXCEPT ![c] = Interval]
    /\ deadline' = [deadline EXCEPT ![c] = 0]
    /\ lock' = IF lock = c THEN None ELSE lock

End(c, result) == EndWith(c, result, fd)

\* Returning an access token: "expired" if the provider no longer honours it.
Handed(left) == IF left > 0 THEN "token" ELSE "expired"

\* An event that loses tokens through no fault of this code.
Lose(lost) == faults' = faults + (IF lost THEN 1 ELSE 0) /\ faults' <= MaxFaults

-----------------------------------------------------------------------------
\* load_tokens: a file that is absent or does not parse counts as no tokens.
Loaded == cache.kind = "tokens"
\* Faulty: no margin.
FreshToTheEnd == 0 < cache.expires

Fresh == EXPIRY_MARGIN < cache.expires

\* access_token up to the lock.
AccessToken(c) ==
    /\ pc[c] = "idle"
    /\ \/ ~Loaded /\ End(c, "login")
       \/ Loaded /\ Fresh /\ End(c, Handed(cache.left))
       \/ Loaded /\ ~Fresh /\ Goto(c, "lock") /\ UNCHANGED <<calls, lock>>
    /\ UNCHANGED <<cache, tmp, live, history>>

\* Faulty: the lock is dropped before the refresh.
LockTokenCacheBriefly(c) ==
    /\ pc[c] = "lock" /\ lock = None
    /\ Loaded /\ ~Fresh /\ cache.grant # None
    /\ Goto(c, "request")
    /\ held' = [held EXCEPT ![c] = cache.grant]
    /\ UNCHANGED <<got, fd, polling, files, live, history>>

\* lock_token_cache returns; the cache is read and checked again.
LockTokenCache(c) ==
    /\ pc[c] = "lock" /\ lock = None
    /\ \/ (~Loaded \/ (~Fresh /\ cache.grant = None)) /\ End(c, "login")
       \/ Loaded /\ Fresh /\ End(c, Handed(cache.left))
       \/ /\ Loaded /\ ~Fresh /\ cache.grant # None
          /\ Goto(c, "request")
          /\ held' = [held EXCEPT ![c] = cache.grant] /\ lock' = c
          /\ UNCHANGED <<got, fd, polling>>
    /\ UNCHANGED <<cache, tmp, live, history>>

-----------------------------------------------------------------------------
\* Grants somebody knows, and the provider's next one.
Known == {held[c] : c \in Clients} \cup {got[c].grant : c \in Clients}
         \cup {cache.grant, tmp.grant}
NewGrant == Min(Grants \ Known)

\* The provider answers a refresh: too many requests, an error when it does not
\* accept the grant, or tokens: without a refresh token, the old one staying
\* good, or with a new one that replaces it.
Refresh(c) ==
    /\ pc[c] = "request"
    /\ \/ /\ got' = [got EXCEPT ![c] = Answer("rate_limited")]
          /\ UNCHANGED live
       \/ /\ held[c] \notin live
          /\ got' = [got EXCEPT ![c] = Answer("error")]
          /\ UNCHANGED live
       \/ /\ held[c] \in live
          /\ got' = [got EXCEPT ![c] = TokenResponse(None)]
          /\ UNCHANGED live
       \/ /\ held[c] \in live
          /\ got' = [got EXCEPT ![c] = TokenResponse(NewGrant)]
          /\ live' = ((live \cap Known) \ {held[c]}) \cup {NewGrant}
    /\ Goto(c, "answered")
    /\ UNCHANGED <<held, fd, polling, files, history>>

\* Faulty forms: the old refresh token is dropped; too many requests count as an
\* OAuth error.
RefreshAnsweredForgetful(c) ==
    /\ pc[c] = "answered" /\ got[c].kind = "tokens"
    /\ Goto(c, "open")
    /\ UNCHANGED <<calls, files, live, history>>

RefreshAnsweredHasty(c) ==
    /\ pc[c] = "answered" /\ got[c].kind # "tokens"
    /\ End(c, "login")
    /\ UNCHANGED <<cache, tmp, live, history>>

\* The rest of access_token up to store_tokens.
RefreshAnswered(c) ==
    /\ pc[c] = "answered"
    /\ \/ got[c].kind = "rate_limited" /\ End(c, "failed")
       \/ got[c].kind = "error" /\ End(c, "login")
       \/ /\ got[c].kind = "tokens"
          /\ Goto(c, "open")
          /\ got' = [got EXCEPT ![c].grant = IF @ = None THEN held[c] ELSE @]
          /\ UNCHANGED <<held, fd, polling, lock>>
    /\ UNCHANGED <<cache, tmp, live, history>>

\* discover or token_request fails before the provider handled the refresh.
RequestFails(c) ==
    /\ pc[c] = "request"
    /\ End(c, "failed")
    /\ UNCHANGED <<cache, tmp, live, history>>

-----------------------------------------------------------------------------
\* login_with_prompt up to its first poll; discovery or the device
\* authorization may fail.
Login(c) ==
    /\ pc[c] = "idle" /\ c \in Ttys
    /\ \/ /\ Goto(c, "poll")
          /\ deadline' = [deadline EXCEPT ![c] = DeviceExpiresIn]
          /\ UNCHANGED <<held, got, fd, wait, interval, lock>>
       \/ End(c, "failed")
    /\ UNCHANGED <<cache, tmp, live, history>>

\* Faulty: the expiry of the device code is not checked.
WaitForever(c, delay, pace) ==
    /\ Goto(c, "sleep")
    /\ wait' = [wait EXCEPT ![c] = delay]
    /\ interval' = [interval EXCEPT ![c] = pace]
    /\ UNCHANGED <<held, got, fd, deadline, lock>>

\* Not authorised yet: sleep, unless the device code would expire meanwhile.
Wait(c, delay, pace) ==
    \/ delay > deadline[c] /\ End(c, "failed")
    \/ /\ delay <= deadline[c]
       /\ Goto(c, "sleep")
       /\ wait' = [wait EXCEPT ![c] = delay]
       /\ interval' = [interval EXCEPT ![c] = pace]
       /\ UNCHANGED <<held, got, fd, deadline, lock>>

\* One poll of the token endpoint and what the login makes of the answer:
\* tokens, with or without a refresh token; authorization_pending; slow_down;
\* too many requests; any other error.
Poll(c) ==
    /\ pc[c] = "poll"
    /\ \/ \E grant \in {NewGrant, None} :
            /\ Goto(c, "open")
            /\ got' = [got EXCEPT ![c] = TokenResponse(grant)]
            /\ live' = (live \cap Known) \cup ({grant} \ {None})
            /\ Lose(grant = None)
            /\ interval' = [interval EXCEPT ![c] = Interval]
            /\ deadline' = [deadline EXCEPT ![c] = 0]
            /\ UNCHANGED <<held, fd, wait, lock>>
       \/ /\ \/ Wait(c, interval[c], interval[c])
             \/ Wait(c, interval[c] + SlowDown, interval[c] + SlowDown)
             \/ \E after \in RetryAfters : Wait(c, Max({after, interval[c]}), interval[c])
             \/ End(c, "failed")
          /\ UNCHANGED <<live, faults>>
    /\ UNCHANGED <<cache, tmp, collided>>

Wake(c) ==
    /\ pc[c] = "sleep" /\ wait[c] = 0
    /\ Goto(c, "poll")
    /\ UNCHANGED <<calls, files, live, history>>

-----------------------------------------------------------------------------
\* store_tokens: <name>.json.tmp is opened and truncated, whoever created it.
Open(c) ==
    /\ pc[c] = "open"
    /\ Goto(c, "write")
    /\ tmp' = Empty
    /\ fd' = [fd EXCEPT ![c] = "tmp"]
    /\ collided' = (collided \/ \E d \in Clients \ {c} :
                       pc[d] \in {"write", "rename"} /\ None \in {held[c], held[d]})
    /\ UNCHANGED <<held, got, polling, lock, cache, live, faults>>

\* write_all, from offset 0: what another writer left in the file and this one
\* does not cover stays behind it.  expires_at counts from when store_tokens was
\* called, at the latest from now, not from when the provider issued the token.
Written(c, file) ==
    {CachedTokens(got[c].grant, got[c].left)} \cup (IF file = Empty THEN {} ELSE {Mixed})

Write(c) ==
    /\ pc[c] = "write"
    /\ Goto(c, "rename")
    /\ \/ fd[c] = "tmp" /\ tmp' \in Written(c, tmp) /\ UNCHANGED cache
       \/ fd[c] = "cache" /\ cache' \in Written(c, cache) /\ UNCHANGED tmp
       \/ fd[c] = "unlinked" /\ UNCHANGED <<cache, tmp>>
    /\ UNCHANGED <<calls, lock, live, history>>

\* Open files follow their inode through a rename.
Renamed(f) == CASE f = "tmp" -> "cache" [] f = "cache" -> "unlinked" [] OTHER -> f

\* rename, which fails when another writer has already renamed the file.  The
\* grant it overwrites may be forgotten.
Rename(c) ==
    /\ pc[c] = "rename"
    /\ \/ /\ tmp = NoFile
          /\ End(c, "failed")
          /\ UNCHANGED <<cache, tmp>>
       \/ /\ tmp # NoFile
          /\ EndWith(c, IF held[c] = None THEN "none" ELSE Handed(got[c].left),
                     [d \in Clients |-> Renamed(fd[d])])
          /\ cache' = tmp /\ tmp' = NoFile
    /\ UNCHANGED <<history>>
    /\ live' = live \cap Known'

\* What a store that did not finish leaves in <name>.json.tmp: nothing reads it
\* before the next Open truncates it, unless another writer has it open too.
Unfinished(c) ==
    IF fd[c] # "tmp" THEN {tmp}
    ELSE IF \E d \in Clients \ {c} : fd[d] = "tmp" THEN {tmp, Mixed} ELSE {Empty}

\* A full disk or a missing directory: an error inside store_tokens.
StoreFails(c) ==
    /\ pc[c] \in Storing
    /\ End(c, "failed")
    /\ Lose(TRUE)
    /\ tmp' \in Unfinished(c)
    /\ UNCHANGED <<cache, live, collided>>

-----------------------------------------------------------------------------
\* The call is given up: connect_timeout drops its future at an await, the
\* answer never arrives, or the process is killed.  A request may still reach the
\* provider, and whenever that is, the grant is gone for the next to present it.
\* A wait for the lock given up ends in taking it and dropping it at once.
Abandon(c) ==
    /\ pc[c] # "idle"
    /\ End(c, "failed")
    /\ \/ UNCHANGED live
       \/ pc[c] = "request" /\ live' = live \ {held[c]}
    /\ Lose(pc[c] \in {"request", "answered"} \cup Storing)
    /\ tmp' \in Unfinished(c)
    /\ UNCHANGED <<cache, collided>>

\* The provider ends a grant: it expired or was revoked.
Revoke(grant) ==
    /\ grant \in live
    /\ live' = live \ {grant} /\ Lose(TRUE)
    /\ out' = "none"
    /\ UNCHANGED <<pc, calls, files, collided>>

Less(n) == IF n = 0 THEN 0 ELSE n - 1

\* A unit of time passes.  An answer is stored within MaxLatency.
Tick ==
    /\ \A c \in Clients : got[c].kind = "tokens" => got[c].left > ExpiresIn - MaxLatency
    /\ got' = [c \in Clients |-> [got[c] EXCEPT !.left = Less(@)]]
    /\ wait' = [c \in Clients |-> Less(wait[c])]
    /\ deadline' = [c \in Clients |-> Less(deadline[c])]
    /\ cache' = [cache EXCEPT !.left = Less(@), !.expires = Less(@)]
    /\ tmp' = [tmp EXCEPT !.left = Less(@), !.expires = Less(@)]
    /\ out' = "none"
    /\ UNCHANGED <<pc, held, fd, interval, lock, live, history>>

Next ==
    \/ \E c \in Clients :
         \/ AccessToken(c) \/ LockTokenCache(c) \/ Refresh(c) \/ RefreshAnswered(c)
         \/ RequestFails(c) \/ Login(c) \/ Poll(c) \/ Wake(c)
         \/ Open(c) \/ Write(c) \/ Rename(c) \/ StoreFails(c) \/ Abandon(c)
    \/ \E grant \in Grants : Revoke(grant)
    \/ Tick

Spec == Init /\ [][Next]_vars

\* Time passes, the provider answers or the connection breaks, and code that is
\* ready to run runs.
FairSpec ==
    /\ Spec /\ WF_vars(Tick)
    /\ \A c \in Clients :
         /\ WF_vars(Refresh(c) \/ RequestFails(c))
         /\ WF_vars(RefreshAnswered(c) \/ Poll(c) \/ Wake(c))
         /\ WF_vars(Open(c) \/ Write(c) \/ Rename(c))
-----------------------------------------------------------------------------
TypeOK ==
    /\ pc \in [Clients -> {"idle", "lock", "request", "answered", "poll", "sleep"} \cup Storing]
    /\ held \in [Clients -> Grants \cup {None}]
    /\ got \in [Clients -> [kind : {"none", "rate_limited", "error", "tokens"},
                            grant : Grants \cup {None}, left : Nat]]
    /\ fd \in [Clients -> {"none", "tmp", "cache", "unlinked"}]
    /\ wait \in [Clients -> Nat] /\ interval \in [Clients -> Nat] /\ deadline \in [Clients -> Nat]
    /\ lock \in Clients \cup {None}
    /\ {cache, tmp} \subseteq [kind : {"absent", "empty", "mixed", "tokens"},
                               grant : Grants \cup {None}, left : Nat, expires : Nat]
    /\ live \subseteq Grants
    /\ out \in {"none", "token", "expired", "login", "failed"}
    /\ faults \in Nat /\ collided \in BOOLEAN

\* The cached refresh token is one the provider still accepts, or the holder of
\* the lock already has its successor (the re-check under the lock, and the old
\* token kept when the answer has none).
CacheUsable ==
    cache # NoFile /\ faults = 0 /\ ~collided =>
        \/ cache.grant \in live
        \/ \E c \in Clients : lock = c /\ held[c] = cache.grant /\ got[c].grant \in live

\* A reader finds the cache unparsable only if a login, which takes no lock,
\* stored its tokens while another caller was storing.
TornOnlyByLogin == cache # NoFile /\ ~Loaded => collided

\* access_token sends its caller to log in again only if nobody has logged in
\* yet or something outside the code lost the tokens.
NoNeedlessLogin == out = "login" => cache = NoFile \/ faults > 0 \/ collided

\* access_token never returns a token that has expired.
TokenValid == out # "expired"

\* A call that is not waiting for the lock ends, and the lock is free again.
CallsEnd == \A c \in Clients : []<>(pc[c] \in {"idle", "lock"})
=============================================================================
