----------------------------- MODULE OidcProofs -----------------------------
(***************************************************************************)
(* Proofs about the token cache, for any number of callers and any times.  *)
(***************************************************************************)
EXTENDS OidcTokens, FiniteSetTheorems, WellFoundedInduction, TLAPS

\* A leaf that names no prover is Zenon's; what needs arithmetic goes to SMT.
USE ZenonT(60)

Stages == {"idle", "lock", "request", "answered", "poll", "sleep"} \cup Storing

\* The callers' state, as far as the proofs look at it.
CallsOK ==
    /\ pc \in [Clients -> Stages]
    /\ DOMAIN held = Clients /\ DOMAIN got = Clients /\ DOMAIN fd = Clients

\* A file says of its token no more than MaxLatency above what is left of it.
FileValid(f) ==
    /\ DOMAIN f = {"kind", "grant", "left", "expires"}
    /\ f.left \in Nat /\ f.expires \in Nat
    /\ f.expires <= f.left + MaxLatency

\* An answer on its way to the cache has lost at most MaxLatency.
AnswerValid(a) ==
    /\ DOMAIN a = {"kind", "grant", "left"} /\ a.left \in Nat
    /\ a.kind = "tokens" => a.left >= ExpiresIn - MaxLatency

\* Strengthens TokenValid: what is cached, about to be, or being handed over is
\* good for as long as it claims to be, up to MaxLatency.
ValidInv ==
    /\ CallsOK
    /\ FileValid(cache) /\ FileValid(tmp)
    /\ \A c \in Clients : AnswerValid(got[c])
    /\ \A c \in Clients : pc[c] \in Storing => got[c].kind = "tokens"
    /\ TokenValid

-----------------------------------------------------------------------------
\* What Init and EndWith put into a call that is over.
LEMMA NothingValid == AnswerValid(NoAnswer) /\ NoAnswer.kind # "tokens" /\ FileValid(NoFile)
                      /\ FileValid(Empty) /\ FileValid(Mixed)
  BY OidcAssumption, SMTT(60) DEF AnswerValid, NoAnswer, FileValid, NoFile, Empty, Mixed

LEMMA ValidInit == Init => ValidInv
<1> SUFFICES ASSUME Init PROVE ValidInv
  OBVIOUS
<1>1. CallsOK /\ TokenValid
  BY DEF Init, CallsOK, Stages, TokenValid
<1>2. \A c \in Clients : got[c] = NoAnswer /\ pc[c] = "idle"
  BY DEF Init
<1>3. cache = NoFile /\ tmp = NoFile
  BY DEF Init
<1> QED
  BY <1>1, <1>2, <1>3, NothingValid DEF ValidInv, Storing

\* A call that ends leaves nothing behind; its result decides.
LEMMA EndValid ==
    ASSUME ValidInv, NEW c \in Clients, NEW result, NEW open, DOMAIN open = Clients,
           EndWith(c, result, open), FileValid(cache)', FileValid(tmp)', result # "expired"
    PROVE  ValidInv'
<1>1. /\ pc' = [pc EXCEPT ![c] = "idle"] /\ got' = [got EXCEPT ![c] = NoAnswer]
      /\ held' = [held EXCEPT ![c] = None] /\ fd' = [open EXCEPT ![c] = "none"]
      /\ out' = result
  BY DEF EndWith
<1>2. CallsOK'
  BY <1>1 DEF ValidInv, CallsOK, Stages
<1>3. \A d \in Clients : got'[d] = (IF d = c THEN NoAnswer ELSE got[d])
                         /\ pc'[d] = (IF d = c THEN "idle" ELSE pc[d])
  BY <1>1 DEF ValidInv, CallsOK
<1>4. (\A d \in Clients : AnswerValid(got[d]))'
  <2> SUFFICES ASSUME NEW d \in Clients PROVE AnswerValid(got'[d])
    BY DEF AnswerValid
  <2> QED
    BY <1>3, NothingValid DEF ValidInv
<1>5. (\A d \in Clients : pc[d] \in Storing => got[d].kind = "tokens")'
  BY <1>3 DEF ValidInv, Storing
<1>6. TokenValid'
  BY <1>1 DEF TokenValid
<1> QED
  BY <1>2, <1>4, <1>5, <1>6 DEF ValidInv

\* A call that goes on, with the answer it has by then.
LEMMA MoveValid ==
    ASSUME ValidInv, NEW c \in Clients, NEW to \in Stages, NEW answer, AnswerValid(answer),
           Goto(c, to), got' = [got EXCEPT ![c] = answer],
           DOMAIN held' = Clients, DOMAIN fd' = Clients,
           FileValid(cache)', FileValid(tmp)', to \in Storing => answer.kind = "tokens"
    PROVE  ValidInv'
<1>1. pc' = [pc EXCEPT ![c] = to] /\ out' = "none"
  BY DEF Goto
<1>2. CallsOK' /\ TokenValid'
  BY <1>1 DEF ValidInv, CallsOK, TokenValid
<1>3. \A d \in Clients : got'[d] = (IF d = c THEN answer ELSE got[d])
                         /\ pc'[d] = (IF d = c THEN to ELSE pc[d])
  BY <1>1 DEF ValidInv, CallsOK
<1>4. (\A d \in Clients : AnswerValid(got[d]))'
  <2> SUFFICES ASSUME NEW d \in Clients PROVE AnswerValid(got'[d])
    BY DEF AnswerValid
  <2> QED
    BY <1>3 DEF ValidInv
<1>5. (\A d \in Clients : pc[d] \in Storing => got[d].kind = "tokens")'
  BY <1>3 DEF ValidInv
<1> QED
  BY <1>2, <1>4, <1>5 DEF ValidInv

\* The same when the answer stays as it was.
LEMMA StayValid ==
    ASSUME ValidInv, NEW c \in Clients, NEW to \in Stages, Goto(c, to), UNCHANGED got,
           DOMAIN held' = Clients, DOMAIN fd' = Clients,
           FileValid(cache)', FileValid(tmp)', to \in Storing => got[c].kind = "tokens"
    PROVE  ValidInv'
<1>1. pc' = [pc EXCEPT ![c] = to] /\ out' = "none"
  BY DEF Goto
<1>2. CallsOK' /\ TokenValid'
  BY <1>1 DEF ValidInv, CallsOK, TokenValid
<1>3. \A d \in Clients : pc'[d] = (IF d = c THEN to ELSE pc[d])
  BY <1>1 DEF ValidInv, CallsOK
<1>4. (\A d \in Clients : AnswerValid(got[d]))'
  BY DEF ValidInv, AnswerValid
<1>5. (\A d \in Clients : pc[d] \in Storing => got[d].kind = "tokens")'
  BY <1>3 DEF ValidInv
<1> QED
  BY <1>2, <1>4, <1>5 DEF ValidInv

\* The margin covers what the cached time may be off by.
LEMMA FreshHanded == ASSUME ValidInv, Fresh PROVE Handed(cache.left) = "token"
  BY OidcAssumption, SMTT(60) DEF ValidInv, FileValid, Fresh, Handed

LEMMA AnswerHanded ==
    ASSUME ValidInv, NEW c \in Clients, got[c].kind = "tokens"
    PROVE  Handed(got[c].left) = "token"
  BY OidcAssumption, SMTT(60) DEF ValidInv, AnswerValid, Handed

LEMMA ResponseValid ==
    ASSUME NEW grant
    PROVE  AnswerValid(TokenResponse(grant)) /\ TokenResponse(grant).kind = "tokens"
  BY OidcAssumption, SMTT(60) DEF AnswerValid, TokenResponse

LEMMA RefusalValid ==
    ASSUME NEW kind, kind # "tokens"
    PROVE  AnswerValid(Answer(kind))
  BY OidcAssumption DEF AnswerValid, Answer, NoAnswer

-----------------------------------------------------------------------------
LEMMA AccessValid ==
    ASSUME ValidInv, NEW c \in Clients, AccessToken(c) \/ LockTokenCache(c)
    PROVE  ValidInv'
<1>1. FileValid(cache)' /\ FileValid(tmp)' /\ DOMAIN fd = Clients
  BY DEF AccessToken, LockTokenCache, ValidInv, FileValid, CallsOK
<1>2. CASE End(c, "login")
  BY <1>1, <1>2, EndValid DEF End
<1>3. CASE Fresh /\ End(c, Handed(cache.left))
  BY <1>1, <1>3, EndValid, FreshHanded DEF End
<1>4. CASE Goto(c, "lock") /\ UNCHANGED <<calls, lock>>
  BY <1>1, <1>4, StayValid DEF calls, ValidInv, CallsOK, Stages, Storing
<1>5. CASE /\ Goto(c, "request") /\ held' = [held EXCEPT ![c] = cache.grant]
           /\ UNCHANGED <<got, fd, polling>>
  BY <1>1, <1>5, StayValid DEF ValidInv, CallsOK, Stages, Storing
<1> QED
  BY <1>2, <1>3, <1>4, <1>5 DEF AccessToken, LockTokenCache

LEMMA RefreshValid ==
    ASSUME ValidInv, NEW c \in Clients, Refresh(c) \/ RefreshAnswered(c) \/ RequestFails(c)
    PROVE  ValidInv'
<1>1. FileValid(cache)' /\ FileValid(tmp)' /\ DOMAIN fd = Clients
  BY DEF Refresh, RefreshAnswered, RequestFails, files, ValidInv, FileValid, CallsOK
<1>2. CASE \E result \in {"failed", "login"} : End(c, result)
  BY <1>1, <1>2, EndValid DEF End
<1>3. CASE Refresh(c)
  <2>1. /\ Goto(c, "answered") /\ "answered" \in Stages /\ "answered" \notin Storing
        /\ DOMAIN held' = Clients /\ DOMAIN fd' = Clients
    BY <1>3 DEF Refresh, Stages, Storing, ValidInv, CallsOK
  <2>2. PICK answer \in {Answer("rate_limited"), Answer("error"), TokenResponse(None),
                         TokenResponse(NewGrant)} : got' = [got EXCEPT ![c] = answer]
    BY <1>3 DEF Refresh
  <2>3. AnswerValid(answer)
    BY <2>2, RefusalValid, ResponseValid
  <2> QED
    BY <1>1, <2>1, <2>2, <2>3, MoveValid
<1>4. CASE /\ got[c].kind = "tokens" /\ Goto(c, "open")
           /\ got' = [got EXCEPT ![c].grant = IF @ = None THEN held[c] ELSE @]
           /\ UNCHANGED <<held, fd, polling, lock>>
  <2> DEFINE answer == [got[c] EXCEPT !.grant = IF @ = None THEN held[c] ELSE @]
  <2>1. got' = [got EXCEPT ![c] = answer]
    BY <1>4
  <2>2. AnswerValid(answer) /\ answer.kind = "tokens"
    BY <1>4 DEF ValidInv, AnswerValid
  <2> HIDE DEF answer
  <2> QED
    BY <1>1, <1>4, <2>1, <2>2, MoveValid DEF Stages, Storing, ValidInv, CallsOK
<1> QED
  BY <1>2, <1>3, <1>4 DEF RefreshAnswered, RequestFails

LEMMA LoginValid ==
    ASSUME ValidInv, NEW c \in Clients, Login(c) \/ Poll(c) \/ Wake(c)
    PROVE  ValidInv'
<1>1. FileValid(cache)' /\ FileValid(tmp)' /\ DOMAIN fd = Clients
  BY DEF Login, Poll, Wake, files, ValidInv, FileValid, CallsOK
<1>2. CASE End(c, "failed")
  BY <1>1, <1>2, EndValid DEF End
<1>3. CASE (Goto(c, "poll") \/ Goto(c, "sleep")) /\ UNCHANGED <<held, got, fd>>
  BY <1>1, <1>3, StayValid DEF Stages, Storing, ValidInv, CallsOK
<1>4. CASE /\ Goto(c, "open") /\ UNCHANGED <<held, fd>>
           /\ \E grant \in {NewGrant, None} : got' = [got EXCEPT ![c] = TokenResponse(grant)]
  BY <1>1, <1>4, ResponseValid, MoveValid DEF Stages, Storing, ValidInv, CallsOK
<1> QED
  BY <1>2, <1>3, <1>4 DEF Login, Poll, Wake, Wait, calls

\* What store_tokens may leave in a file, whole or mixed up.
LEMMA WrittenValid ==
    ASSUME ValidInv, NEW c \in Clients, got[c].kind = "tokens", NEW file, NEW f \in Written(c, file)
    PROVE  FileValid(f)
<1>1. FileValid(CachedTokens(got[c].grant, got[c].left))
  BY OidcAssumption, SMTT(60) DEF ValidInv, AnswerValid, FileValid, CachedTokens
<1> QED
  BY <1>1, NothingValid DEF Written

LEMMA StoreValid ==
    ASSUME ValidInv, NEW c \in Clients, Open(c) \/ Write(c) \/ Rename(c)
    PROVE  ValidInv'
<1>1. /\ FileValid(cache) /\ FileValid(tmp) /\ got[c].kind = "tokens"
      /\ DOMAIN fd = Clients /\ DOMAIN held = Clients
  BY DEF Open, Write, Rename, ValidInv, CallsOK, Storing
<1>2. CASE Open(c)
  <2>1. FileValid(cache)' /\ FileValid(tmp)'
    BY <1>1, <1>2, NothingValid DEF Open, FileValid
  <2>2. Goto(c, "write") /\ UNCHANGED <<held, got>> /\ DOMAIN fd' = Clients
    BY <1>1, <1>2 DEF Open
  <2> QED
    BY <1>1, <2>1, <2>2, StayValid DEF Stages, Storing
<1>3. CASE Write(c)
  <2>1. FileValid(cache') /\ FileValid(tmp')
    BY <1>1, <1>3, WrittenValid DEF Write
  <2>2. FileValid(cache)' /\ FileValid(tmp)'
    BY <2>1 DEF FileValid
  <2>3. Goto(c, "rename") /\ UNCHANGED <<held, got, fd>>
    BY <1>3 DEF Write, calls
  <2> QED
    BY <1>1, <2>2, <2>3, StayValid DEF Stages, Storing
<1>4. CASE Rename(c)
  <2>1. FileValid(cache') /\ FileValid(tmp')
    BY <1>1, <1>4, NothingValid DEF Rename
  <2>2. FileValid(cache)' /\ FileValid(tmp)'
    BY <2>1 DEF FileValid
  <2>3. CASE End(c, "failed")
    BY <1>1, <2>2, <2>3, EndValid DEF End
  <2>4. CASE EndWith(c, IF held[c] = None THEN "none" ELSE Handed(got[c].left),
                     [d \in Clients |-> Renamed(fd[d])])
    <3> DEFINE result == IF held[c] = None THEN "none" ELSE Handed(got[c].left)
               open == [d \in Clients |-> Renamed(fd[d])]
    <3>1. result # "expired"
      BY <1>1, AnswerHanded
    <3>2. DOMAIN open = Clients
      OBVIOUS
    <3>3. EndWith(c, result, open)
      BY <2>4
    <3> HIDE DEF result, open
    <3> QED
      BY <2>2, <3>1, <3>2, <3>3, EndValid
  <2> QED
    BY <1>4, <2>3, <2>4 DEF Rename
<1> QED
  BY <1>2, <1>3, <1>4

LEMMA LeaveValid ==
    ASSUME ValidInv, NEW c \in Clients, StoreFails(c) \/ Abandon(c)
    PROVE  ValidInv'
<1>1. FileValid(cache) /\ FileValid(tmp) /\ DOMAIN fd = Clients
  BY DEF ValidInv, CallsOK
<1>2. FileValid(cache') /\ FileValid(tmp')
  BY <1>1, NothingValid DEF StoreFails, Abandon, Unfinished
<1>3. FileValid(cache)' /\ FileValid(tmp)'
  BY <1>2 DEF FileValid
<1>4. EndWith(c, "failed", fd)
  BY DEF StoreFails, Abandon, End
<1> QED
  BY <1>1, <1>3, <1>4, EndValid

LEMMA RevokeValid ==
    ASSUME ValidInv, NEW grant \in Grants, Revoke(grant)
    PROVE  ValidInv'
  BY DEF ValidInv, Revoke, calls, files, CallsOK, FileValid, AnswerValid, TokenValid

LEMMA LessFacts ==
    ASSUME NEW n \in Nat
    PROVE  Less(n) \in Nat /\ Less(n) <= n /\ n <= Less(n) + 1 /\ (n > 0 => Less(n) = n - 1)
  BY SMTT(60) DEF Less

\* Time passes for the token and for what the file says of it alike.
LEMMA AgedFileValid ==
    ASSUME NEW f, FileValid(f), NEW g, g = [f EXCEPT !.left = Less(@), !.expires = Less(@)]
    PROVE  FileValid(g)
<1>1. /\ DOMAIN g = {"kind", "grant", "left", "expires"}
      /\ g.left = Less(f.left) /\ g.expires = Less(f.expires)
  BY DEF FileValid
<1>2. f.left \in Nat /\ f.expires \in Nat /\ f.expires <= f.left + MaxLatency /\ MaxLatency \in Nat
  BY OidcAssumption DEF FileValid
<1>3. Less(f.left) \in Nat /\ Less(f.expires) \in Nat
  BY <1>2, LessFacts
<1>4. Less(f.expires) <= Less(f.left) + MaxLatency
  BY <1>2, SMTT(60) DEF Less
<1> QED
  BY <1>1, <1>3, <1>4 DEF FileValid

LEMMA TickValid ==
    ASSUME ValidInv, Tick
    PROVE  ValidInv'
<1>1. FileValid(cache') /\ FileValid(tmp')
  BY AgedFileValid DEF Tick, ValidInv
<1>2. FileValid(cache)' /\ FileValid(tmp)'
  BY <1>1 DEF FileValid
<1>3. \A c \in Clients : got'[c] = [got[c] EXCEPT !.left = Less(@)]
  BY DEF Tick
<1>4. \A c \in Clients : AnswerValid(got'[c]) /\ got'[c].kind = got[c].kind
  <2> SUFFICES ASSUME NEW c \in Clients
               PROVE  AnswerValid(got'[c]) /\ got'[c].kind = got[c].kind
    OBVIOUS
  <2>1. AnswerValid(got[c])
    BY DEF ValidInv
  <2>2. /\ DOMAIN got'[c] = {"kind", "grant", "left"} /\ got'[c].kind = got[c].kind
        /\ got'[c].left = Less(got[c].left)
    BY <1>3, <2>1 DEF AnswerValid
  <2>3. got[c].left \in Nat /\ ExpiresIn \in Nat /\ MaxLatency \in Nat
    BY <2>1, OidcAssumption DEF AnswerValid
  <2>4. got[c].kind = "tokens" => got[c].left > ExpiresIn - MaxLatency
    BY DEF Tick
  <2>5. got[c].kind = "tokens" => Less(got[c].left) >= ExpiresIn - MaxLatency
    BY <2>3, <2>4, OidcAssumption, SMTT(60) DEF Less
  <2>6. Less(got[c].left) \in Nat
    BY <2>3, LessFacts
  <2> QED
    BY <2>2, <2>5, <2>6 DEF AnswerValid
<1>5. (\A c \in Clients : AnswerValid(got[c]))'
  BY <1>4 DEF AnswerValid
<1>6. CallsOK' /\ TokenValid'
  BY DEF Tick, ValidInv, CallsOK, TokenValid
<1>7. (\A c \in Clients : pc[c] \in Storing => got[c].kind = "tokens")'
  BY <1>4 DEF Tick, ValidInv
<1> QED
  BY <1>2, <1>5, <1>6, <1>7 DEF ValidInv

LEMMA ValidNext == ValidInv /\ [Next]_vars => ValidInv'
<1> SUFFICES ASSUME ValidInv, [Next]_vars PROVE ValidInv'
  OBVIOUS
<1>1. CASE UNCHANGED vars
  BY <1>1 DEF vars, calls, files, ValidInv, CallsOK, FileValid, AnswerValid, TokenValid
<1>2. CASE Next
  BY <1>2, AccessValid, RefreshValid, LoginValid, StoreValid, LeaveValid, RevokeValid, TickValid
     DEF Next
<1> QED
  BY <1>1, <1>2

\* access_token never returns a token that has expired, for any number of callers
\* and any lifetimes, as long as an answer is stored within MaxLatency and the
\* margin of EXPIRY_MARGIN_SECS is no less than that.
THEOREM TokensAlwaysValid == Spec => []TokenValid
<1>1. ValidInv => TokenValid
  BY DEF ValidInv
<1> QED
  BY ValidInit, ValidNext, <1>1, PTL DEF Spec

-----------------------------------------------------------------------------
Busy == {"write", "rename"}

\* Without a login overlapping it, a store has the temporary file to itself, and
\* what it renames into place is what it wrote.
StoresAlone ==
    /\ \A c, d \in Clients : pc[c] \in Busy /\ pc[d] \in Busy => c = d
    /\ \A c \in Clients : pc[c] \in Busy => fd[c] = "tmp"
    /\ \A c \in Clients : pc[c] = "write" => tmp = Empty
    /\ \A c \in Clients : pc[c] = "rename" => tmp.kind = "tokens"
    /\ cache = NoFile \/ cache.kind = "tokens"

\* Strengthens TornOnlyByLogin: who refreshes holds the lock, and who has the
\* file open is storing.
TornInv ==
    /\ ValidInv
    /\ \A c \in Clients : held[c] # None => lock = c
    /\ \A c \in Clients : fd[c] # "none" => pc[c] \in Busy
    /\ ~collided => StoresAlone

LEMMA TornInit == Init => TornInv
<1> SUFFICES ASSUME Init PROVE TornInv
  OBVIOUS
<1>1. \A c \in Clients : pc[c] = "idle" /\ held[c] = None /\ fd[c] = "none"
  BY DEF Init
<1>2. cache = NoFile
  BY DEF Init
<1> QED
  BY <1>1, <1>2, ValidInit DEF TornInv, StoresAlone, Busy

\* A call that ends: whoever else is storing goes on with the file as it is.
LEMMA EndTorn ==
    ASSUME TornInv, ValidInv', NEW c \in Clients, NEW result, NEW open, DOMAIN open = Clients,
           EndWith(c, result, open), UNCHANGED collided,
           \A d \in Clients \ {c} : fd[d] = "none" => open[d] = "none",
           ~collided => /\ \A d \in Clients \ {c} :
                             pc[d] \in Busy => open[d] = "tmp" /\ UNCHANGED tmp
                        /\ cache' = NoFile \/ cache'.kind = "tokens"
    PROVE  TornInv'
<1>1. /\ pc' = [pc EXCEPT ![c] = "idle"] /\ held' = [held EXCEPT ![c] = None]
      /\ fd' = [open EXCEPT ![c] = "none"] /\ lock' = IF lock = c THEN None ELSE lock
  BY DEF EndWith
<1>2. pc \in [Clients -> Stages] /\ DOMAIN held = Clients
  BY DEF TornInv, ValidInv, CallsOK
<1>3. \A d \in Clients : /\ pc'[d] = (IF d = c THEN "idle" ELSE pc[d])
                         /\ held'[d] = (IF d = c THEN None ELSE held[d])
                         /\ fd'[d] = (IF d = c THEN "none" ELSE open[d])
  BY <1>1, <1>2
<1>4. (\A d \in Clients : held[d] # None => lock = d)'
  BY <1>1, <1>3 DEF TornInv
<1>5. (\A d \in Clients : fd[d] # "none" => pc[d] \in Busy)'
  BY <1>3, SMTT(60) DEF TornInv, Busy
<1>6. ASSUME ~collided PROVE StoresAlone'
  <2>1. \A d \in Clients : pc'[d] \in Busy => d # c /\ pc[d] \in Busy /\ pc'[d] = pc[d]
    BY <1>3 DEF Busy
  <2>2. StoresAlone
    BY <1>6 DEF TornInv
  <2>3. (\A d, e \in Clients : pc[d] \in Busy /\ pc[e] \in Busy => d = e)'
    BY <2>1, <2>2 DEF StoresAlone
  <2>4. (\A d \in Clients : pc[d] \in Busy => fd[d] = "tmp")'
    BY <1>3, <1>6, <2>1
  <2>5. \A d \in Clients : pc'[d] \in Busy => UNCHANGED tmp
    BY <1>6, <2>1
  <2>6. (\A d \in Clients : pc[d] = "write" => tmp = Empty)'
    BY <2>1, <2>2, <2>5 DEF StoresAlone, Busy, Empty, NoFile, None
  <2>7. (\A d \in Clients : pc[d] = "rename" => tmp.kind = "tokens")'
    BY <2>1, <2>2, <2>5 DEF StoresAlone, Busy
  <2> QED
    BY <1>6, <2>3, <2>4, <2>6, <2>7 DEF StoresAlone, NoFile, None
<1> QED
  BY <1>4, <1>5, <1>6 DEF TornInv

\* A step of a call that is not inside store_tokens and touches no file.
LEMMA MoveTorn ==
    ASSUME TornInv, ValidInv', NEW c \in Clients, NEW to, Goto(c, to), to \notin Busy,
           pc[c] \notin Busy, UNCHANGED <<fd, cache, tmp, collided>>,
           \/ UNCHANGED <<held, lock>>
           \/ lock = None /\ lock' = c /\ \E g : held' = [held EXCEPT ![c] = g]
    PROVE  TornInv'
<1>1. pc' = [pc EXCEPT ![c] = to] /\ pc \in [Clients -> Stages] /\ DOMAIN held = Clients
  BY DEF Goto, TornInv, ValidInv, CallsOK
<1>2. \A d \in Clients : /\ pc[d] \in Busy => pc'[d] = pc[d]
                         /\ pc'[d] \in Busy => pc[d] \in Busy /\ pc'[d] = pc[d]
  <2> SUFFICES ASSUME NEW d \in Clients
               PROVE  /\ pc[d] \in Busy => pc'[d] = pc[d]
                      /\ pc'[d] \in Busy => pc[d] \in Busy /\ pc'[d] = pc[d]
    OBVIOUS
  <2>1. CASE d = c
    BY <1>1, <2>1
  <2>2. CASE d # c
    BY <1>1, <2>2
  <2> QED
    BY <2>1, <2>2
<1>3. (\A d \in Clients : held[d] # None => lock = d)'
  BY <1>1, OidcAssumption DEF TornInv
<1>4. (\A d \in Clients : fd[d] # "none" => pc[d] \in Busy)'
  BY <1>2 DEF TornInv
<1>5. ASSUME ~collided PROVE StoresAlone'
  <2>1. StoresAlone
    BY <1>5 DEF TornInv
  <2>2. (\A d, e \in Clients : pc[d] \in Busy /\ pc[e] \in Busy => d = e)'
    BY <1>2, <2>1 DEF StoresAlone
  <2>3. (\A d \in Clients : pc[d] \in Busy => fd[d] = "tmp")'
    BY <1>2, <2>1 DEF StoresAlone
  <2>4. (\A d \in Clients : pc[d] = "write" => tmp = Empty)'
    BY <1>2, <2>1 DEF StoresAlone, Busy, Empty, NoFile, None
  <2>5. (\A d \in Clients : pc[d] = "rename" => tmp.kind = "tokens")'
    BY <1>2, <2>1 DEF StoresAlone, Busy
  <2>6. (cache = NoFile \/ cache.kind = "tokens")'
    BY <2>1 DEF StoresAlone, NoFile, None
  <2> QED
    BY <2>2, <2>3, <2>4, <2>5, <2>6 DEF StoresAlone
<1> QED
  BY <1>3, <1>4, <1>5 DEF TornInv

\* A call that ends without touching a file.
LEMMA QuitTorn ==
    ASSUME TornInv, ValidInv', NEW c \in Clients, NEW result, End(c, result),
           UNCHANGED <<cache, tmp, collided>>
    PROVE  TornInv'
<1>1. EndWith(c, result, fd) /\ DOMAIN fd = Clients
  BY DEF End, TornInv, ValidInv, CallsOK
<1>2. ~collided => /\ \A d \in Clients \ {c} : pc[d] \in Busy => fd[d] = "tmp" /\ UNCHANGED tmp
                   /\ cache' = NoFile \/ cache'.kind = "tokens"
  BY DEF TornInv, StoresAlone
<1> QED
  BY <1>1, <1>2, EndTorn

LEMMA CallTorn ==
    ASSUME TornInv, ValidInv', NEW c \in Clients,
           \/ AccessToken(c) \/ LockTokenCache(c) \/ Refresh(c) \/ RefreshAnswered(c)
           \/ RequestFails(c) \/ Login(c) \/ Poll(c) \/ Wake(c)
    PROVE  TornInv'
<1>1. UNCHANGED <<cache, tmp, collided>> /\ pc[c] \notin Busy
  BY DEF AccessToken, LockTokenCache, Refresh, RefreshAnswered, RequestFails, Login, Poll, Wake,
         files, history, Busy
<1>2. CASE \E result : End(c, result)
  BY <1>1, <1>2, QuitTorn
<1>3. CASE \E to \in {"lock", "answered", "open", "poll", "sleep"} :
             Goto(c, to) /\ UNCHANGED <<held, fd, lock>>
  BY <1>1, <1>3, MoveTorn DEF Busy
<1>4. CASE /\ Goto(c, "request") /\ lock = None /\ lock' = c /\ UNCHANGED fd
           /\ held' = [held EXCEPT ![c] = cache.grant]
  BY <1>1, <1>4, MoveTorn DEF Busy
<1>5. CASE AccessToken(c) \/ LockTokenCache(c)
  BY <1>2, <1>3, <1>4, <1>5 DEF AccessToken, LockTokenCache, calls
<1>6. CASE Refresh(c) \/ RefreshAnswered(c) \/ RequestFails(c)
  BY <1>2, <1>3, <1>6 DEF Refresh, RefreshAnswered, RequestFails, files
<1>7. CASE Login(c) \/ Poll(c) \/ Wake(c)
  BY <1>2, <1>3, <1>7 DEF Login, Poll, Wait, Wake, calls, files
<1> QED
  BY <1>5, <1>6, <1>7

-----------------------------------------------------------------------------
\* Two refreshes would both hold the lock; a login would have been noticed.
LEMMA OpenTorn ==
    ASSUME TornInv, ValidInv', NEW c \in Clients, Open(c)
    PROVE  TornInv'
<1>1. /\ pc[c] = "open" /\ pc' = [pc EXCEPT ![c] = "write"] /\ fd' = [fd EXCEPT ![c] = "tmp"]
      /\ tmp' = Empty /\ UNCHANGED <<held, lock, cache>>
  BY DEF Open, Goto
<1>2. pc \in [Clients -> Stages] /\ DOMAIN fd = Clients
  BY DEF TornInv, ValidInv, CallsOK
<1>3. \A d \in Clients : /\ pc'[d] = (IF d = c THEN "write" ELSE pc[d])
                         /\ fd'[d] = (IF d = c THEN "tmp" ELSE fd[d])
  BY <1>1, <1>2
<1>4. (\A d \in Clients : held[d] # None => lock = d)'
  BY <1>1 DEF TornInv
<1>5. (\A d \in Clients : fd[d] # "none" => pc[d] \in Busy)'
  BY <1>3 DEF TornInv, Busy
<1>6. ASSUME ~collided' PROVE StoresAlone'
  <2>1. ~collided /\ \A d \in Clients \ {c} : pc[d] \in Busy => None \notin {held[c], held[d]}
    BY <1>6 DEF Open, Busy
  <2>2. \A d \in Clients \ {c} : pc[d] \notin Busy
    BY <2>1 DEF TornInv
  <2>3. \A d \in Clients : pc'[d] \in Busy => d = c
    BY <1>3, <2>2
  <2>4. pc'[c] = "write" /\ fd'[c] = "tmp"
    BY <1>3
  <2>5. (cache = NoFile \/ cache.kind = "tokens")'
    BY <1>1, <2>1 DEF TornInv, StoresAlone, NoFile, None
  <2>6. (\A d \in Clients : pc[d] = "write" => tmp = Empty)'
    BY <1>1 DEF Empty, NoFile, None
  <2>7. (\A d \in Clients : pc[d] = "rename" => tmp.kind = "tokens")'
    BY <2>3, <2>4 DEF Busy
  <2> QED
    BY <2>3, <2>4, <2>5, <2>6, <2>7 DEF StoresAlone
<1> QED
  BY <1>4, <1>5, <1>6 DEF TornInv

LEMMA WriteTorn ==
    ASSUME TornInv, ValidInv', NEW c \in Clients, Write(c)
    PROVE  TornInv'
<1>1. /\ pc[c] = "write" /\ pc' = [pc EXCEPT ![c] = "rename"]
      /\ UNCHANGED <<held, fd, lock, collided>>
  BY DEF Write, Goto, calls, history
<1>2. pc \in [Clients -> Stages]
  BY DEF TornInv, ValidInv, CallsOK
<1>3. \A d \in Clients : pc'[d] = (IF d = c THEN "rename" ELSE pc[d])
  BY <1>1, <1>2
<1>4. (\A d \in Clients : held[d] # None => lock = d)'
  BY <1>1 DEF TornInv
<1>5. (\A d \in Clients : fd[d] # "none" => pc[d] \in Busy)'
  BY <1>1, <1>3 DEF TornInv, Busy
<1>6. ASSUME ~collided PROVE StoresAlone'
  <2>1. StoresAlone
    BY <1>6 DEF TornInv
  <2>2. fd[c] = "tmp" /\ tmp = Empty
    BY <1>1, <2>1 DEF StoresAlone, Busy
  <2>3. tmp'.kind = "tokens" /\ UNCHANGED cache
    BY <2>2, SMTT(60) DEF Write, Written, CachedTokens
  <2>4. \A d \in Clients : pc'[d] \in Busy => d = c
    BY <1>1, <1>3, <2>1 DEF StoresAlone, Busy
  <2>5. pc'[c] = "rename" /\ fd'[c] = "tmp"
    BY <1>1, <1>3, <2>2
  <2>6. (cache = NoFile \/ cache.kind = "tokens")'
    BY <2>1, <2>3 DEF StoresAlone, NoFile, None
  <2>7. (\A d \in Clients : pc[d] = "write" => tmp = Empty)'
    BY <2>4, <2>5 DEF Busy
  <2>8. (\A d \in Clients : pc[d] = "rename" => tmp.kind = "tokens")'
    BY <2>3
  <2> QED
    BY <2>4, <2>5, <2>6, <2>7, <2>8 DEF StoresAlone
<1> QED
  BY <1>1, <1>4, <1>5, <1>6 DEF TornInv

\* What is renamed into place is what this store wrote; nobody else has it open.
LEMMA RenameTorn ==
    ASSUME TornInv, ValidInv', NEW c \in Clients, Rename(c)
    PROVE  TornInv'
<1>1. pc[c] = "rename" /\ UNCHANGED collided
  BY DEF Rename, history
<1>2. CASE End(c, "failed") /\ UNCHANGED <<cache, tmp>>
  BY <1>1, <1>2, QuitTorn
<1>3. CASE /\ EndWith(c, IF held[c] = None THEN "none" ELSE Handed(got[c].left),
                       [d \in Clients |-> Renamed(fd[d])])
           /\ cache' = tmp
  <2> DEFINE result == IF held[c] = None THEN "none" ELSE Handed(got[c].left)
             open == [d \in Clients |-> Renamed(fd[d])]
  <2>1. EndWith(c, result, open)
    BY <1>3
  <2>2. \A d \in Clients \ {c} : fd[d] = "none" => open[d] = "none"
    <3>1. Renamed("none") = "none"
      BY DEF Renamed
    <3> QED
      BY <3>1
  <2>3. ASSUME ~collided
        PROVE  /\ \A d \in Clients \ {c} : pc[d] \notin Busy
               /\ cache'.kind = "tokens"
    BY <1>1, <1>3, <2>3 DEF TornInv, StoresAlone, Busy
  <2>4. DOMAIN open = Clients
    OBVIOUS
  <2> HIDE DEF result, open
  <2> QED
    BY <1>1, <2>1, <2>2, <2>3, <2>4, EndTorn
<1> QED
  BY <1>2, <1>3 DEF Rename

\* A store that does not finish leaves the file of another alone.
LEMMA LeaveTorn ==
    ASSUME TornInv, ValidInv', NEW c \in Clients, StoreFails(c) \/ Abandon(c)
    PROVE  TornInv'
<1>1. /\ EndWith(c, "failed", fd) /\ tmp' \in Unfinished(c) /\ UNCHANGED <<cache, collided>>
      /\ DOMAIN fd = Clients
  BY DEF StoreFails, Abandon, End, TornInv, ValidInv, CallsOK
<1>2. ASSUME ~collided
      PROVE  /\ \A d \in Clients \ {c} : pc[d] \in Busy => fd[d] = "tmp" /\ UNCHANGED tmp
             /\ cache' = NoFile \/ cache'.kind = "tokens"
  <2>1. StoresAlone
    BY <1>2 DEF TornInv
  <2>2. ASSUME NEW d \in Clients \ {c}, pc[d] \in Busy
        PROVE  fd[d] = "tmp" /\ UNCHANGED tmp
    <3>1. fd[d] = "tmp" /\ pc[c] \notin Busy
      BY <2>1, <2>2 DEF StoresAlone
    <3>2. fd[c] = "none"
      BY <3>1 DEF TornInv
    <3> QED
      BY <1>1, <3>1, <3>2 DEF Unfinished
  <2> QED
    BY <1>1, <2>1, <2>2 DEF StoresAlone
<1> QED
  BY <1>1, <1>2, EndTorn

LEMMA AgedFile ==
    ASSUME NEW f, FileValid(f), NEW g, g = [f EXCEPT !.left = Less(@), !.expires = Less(@)]
    PROVE  g.kind = f.kind /\ (f \in {NoFile, Empty} => g = f)
<1>1. g.kind = f.kind
  BY DEF FileValid
<1>2. CASE f \in {NoFile, Empty}
  <2>1. f.left = 0 /\ f.expires = 0 /\ Less(0) = 0
    BY <1>2, SMTT(60) DEF NoFile, Empty, Less
  <2>2. g = [f EXCEPT !.left = f.left, !.expires = f.expires]
    BY <2>1
  <2>3. f = [x \in DOMAIN f |-> f[x]]
    BY <1>2 DEF NoFile, Empty
  <2> QED
    BY <2>2, <2>3 DEF FileValid
<1> QED
  BY <1>1, <1>2

LEMMA TickTorn ==
    ASSUME TornInv, ValidInv', Tick
    PROVE  TornInv'
<1>1. UNCHANGED <<pc, held, fd, lock, collided>>
  BY DEF Tick, history
<1>2. FileValid(cache) /\ FileValid(tmp)
  BY DEF TornInv, ValidInv
<1>3. /\ cache'.kind = cache.kind /\ (cache = NoFile => cache' = NoFile)
      /\ tmp'.kind = tmp.kind /\ (tmp = Empty => tmp' = Empty)
  BY <1>2, AgedFile DEF Tick
<1>4. StoresAlone => StoresAlone'
  BY <1>1, <1>3 DEF StoresAlone, Empty, NoFile, None
<1> QED
  BY <1>1, <1>4 DEF TornInv

LEMMA TornNext == TornInv /\ [Next]_vars => TornInv'
<1> SUFFICES ASSUME TornInv, [Next]_vars PROVE TornInv'
  OBVIOUS
<1>1. ValidInv'
  BY ValidNext DEF TornInv
<1>2. CASE UNCHANGED vars
  BY <1>1, <1>2 DEF vars, calls, files, history, TornInv, StoresAlone, Empty, NoFile, None
<1>3. CASE \E grant \in Grants : Revoke(grant)
  BY <1>1, <1>3, SMTT(60) DEF Revoke, calls, files, TornInv, StoresAlone, Empty, NoFile, None
<1>4. CASE Next
  BY <1>1, <1>3, <1>4, CallTorn, OpenTorn, WriteTorn, RenameTorn, LeaveTorn, TickTorn DEF Next
<1> QED
  BY <1>2, <1>4

\* A reader finds the cache unparsable only if a login, which takes no lock, stored
\* its tokens while another caller was storing: whatever fails inside store_tokens
\* and whoever is killed there, for any number of callers.
THEOREM TornAlwaysByLogin == Spec => []TornOnlyByLogin
<1>1. TornInv => TornOnlyByLogin
  BY DEF TornInv, StoresAlone, TornOnlyByLogin, Loaded
<1> QED
  BY TornInit, TornNext, <1>1, PTL DEF Spec

-----------------------------------------------------------------------------
(* The provider always has a grant that nobody knows                        *)

LEMMA LeastChosen ==
    ASSUME NEW S, NEW x \in S, \A y \in S : x <= y
    PROVE  Min(S) \in S
  BY DEF Min

LEMMA LeastNumber ==
    ASSUME NEW S, S \subseteq Nat, S # {}
    PROVE  Min(S) \in S
<1>1. PICK x \in S : \A y \in S : ~(<<y, x>> \in OpToRel(<, Nat))
  BY NatLessThanWellFounded, WFMin
<1>2. \A y \in S : ~(y < x)
  BY <1>1 DEF OpToRel
<1>3. \A y \in S : x <= y
  BY <1>2, SMTT(60)
<1> QED
  BY <1>3, LeastChosen

LEMMA UnionSmall ==
    ASSUME NEW S, NEW T, IsFiniteSet(S), IsFiniteSet(T)
    PROVE  /\ IsFiniteSet(S \cup T) /\ Cardinality(S \cup T) \in Nat
           /\ Cardinality(S \cup T) <= Cardinality(S) + Cardinality(T)
<1>1. /\ IsFiniteSet(S \cup T)
      /\ Cardinality(S \cup T) = Cardinality(S) + Cardinality(T) - Cardinality(S \cap T)
  BY FS_Union
<1>2. S \cap T \in SUBSET S
  OBVIOUS
<1>3. IsFiniteSet(S \cap T)
  BY <1>2, FS_Subset
<1>4. /\ Cardinality(S) \in Nat /\ Cardinality(T) \in Nat /\ Cardinality(S \cap T) \in Nat
      /\ Cardinality(S \cup T) \in Nat
  BY <1>1, <1>3, FS_CardinalityType
<1> QED
  BY <1>1, <1>4, SMTT(60)

\* At most every caller's two, the cache's and the temporary file's are known.
LEMMA KnownFew ==
    ASSUME DOMAIN held = Clients
    PROVE  IsFiniteSet(Known) /\ Cardinality(Known) <= 2 * Cardinality(Clients) + 2
<1> DEFINE A == {held[c] : c \in Clients}
           B == {got[c].grant : c \in Clients}
           C == {cache.grant, tmp.grant}
<1>1. IsFiniteSet(Clients) /\ Cardinality(Clients) \in Nat
  BY OidcAssumption, FS_CardinalityType
<1>2. IsFiniteSet(A) /\ Cardinality(A) \in Nat /\ Cardinality(A) <= Cardinality(Clients)
  <2>1. [c \in Clients |-> held[c]] \in Surjection(Clients, A)
    BY DEF Surjection
  <2> QED
    BY <1>1, <2>1, FS_Surjection, FS_CardinalityType
<1>3. IsFiniteSet(B) /\ Cardinality(B) \in Nat /\ Cardinality(B) <= Cardinality(Clients)
  <2>1. [c \in Clients |-> got[c].grant] \in Surjection(Clients, B)
    BY DEF Surjection
  <2> QED
    BY <1>1, <2>1, FS_Surjection, FS_CardinalityType
<1>4. IsFiniteSet(C) /\ Cardinality(C) \in Nat /\ Cardinality(C) <= 2
  <2>1. IsFiniteSet({cache.grant}) /\ Cardinality({cache.grant}) = 1
    BY FS_Singleton
  <2>2. C = {cache.grant} \cup {tmp.grant}
    OBVIOUS
  <2>3. /\ IsFiniteSet({cache.grant} \cup {tmp.grant})
        /\ Cardinality({cache.grant} \cup {tmp.grant}) \in {1, 2}
    BY <2>1, FS_AddElement, SMTT(60)
  <2> HIDE DEF C
  <2> QED
    BY <2>2, <2>3, SMTT(60)
<1>5. Known = A \cup B \cup C
  BY DEF Known
<1> HIDE DEF A, B, C
<1>6. IsFiniteSet(A \cup B) /\ Cardinality(A \cup B) \in Nat
      /\ Cardinality(A \cup B) <= Cardinality(A) + Cardinality(B)
  BY <1>2, <1>3, UnionSmall
<1>7. IsFiniteSet((A \cup B) \cup C) /\ Cardinality((A \cup B) \cup C) \in Nat
      /\ Cardinality((A \cup B) \cup C) <= Cardinality(A \cup B) + Cardinality(C)
  BY <1>4, <1>6, UnionSmall
<1> QED
  BY <1>1, <1>2, <1>3, <1>4, <1>5, <1>6, <1>7, SMTT(60)

LEMMA NewGrantUnknown ==
    ASSUME DOMAIN held = Clients
    PROVE  NewGrant \in Grants /\ NewGrant \notin Known /\ NewGrant # None
<1>1. Grants \ Known # {}
  <2> SUFFICES ASSUME Grants \ Known = {} PROVE FALSE
    OBVIOUS
  <2>1. Grants \in SUBSET Known
    OBVIOUS
  <2>2. IsFiniteSet(Known) /\ Cardinality(Known) <= 2 * Cardinality(Clients) + 2
    BY KnownFew
  <2>3. IsFiniteSet(Grants) /\ Cardinality(Grants) <= Cardinality(Known)
    BY <2>1, <2>2, FS_Subset
  <2>4. Cardinality(Grants) > 2 * Cardinality(Clients) + 2
    BY <2>3, OidcAssumption
  <2>5. Cardinality(Grants) \in Nat /\ Cardinality(Known) \in Nat /\ Cardinality(Clients) \in Nat
    BY <2>2, <2>3, OidcAssumption, FS_CardinalityType
  <2> QED
    BY <2>2, <2>3, <2>4, <2>5, SMTT(60)
<1>2. Grants \ Known \subseteq Nat
  BY OidcAssumption
<1>3. NewGrant \in Grants \ Known
  BY <1>1, <1>2, LeastNumber DEF NewGrant
<1> QED
  BY <1>3, OidcAssumption

-----------------------------------------------------------------------------
(* Types                                                                    *)

Ends == {"none", "tmp", "cache", "unlinked"}
Results == {"none", "token", "expired", "login", "failed"}
Answers == [kind : {"none", "rate_limited", "error", "tokens"}, grant : Grants \cup {None}, left : Nat]
Files == [kind : {"absent", "empty", "mixed", "tokens"}, grant : Grants \cup {None},
          left : Nat, expires : Nat]

LEMMA TypeParts ==
    TypeOK <=> /\ pc \in [Clients -> Stages] /\ held \in [Clients -> Grants \cup {None}]
               /\ got \in [Clients -> Answers] /\ fd \in [Clients -> Ends]
               /\ wait \in [Clients -> Nat] /\ interval \in [Clients -> Nat]
               /\ deadline \in [Clients -> Nat] /\ lock \in Clients \cup {None}
               /\ cache \in Files /\ tmp \in Files /\ live \subseteq Grants
               /\ out \in Results /\ faults \in Nat /\ collided \in BOOLEAN
  BY DEF TypeOK, Stages, Answers, Ends, Files, Results

LEMMA PrimedParts ==
    ASSUME pc' \in [Clients -> Stages], held' \in [Clients -> Grants \cup {None}],
           got' \in [Clients -> Answers], fd' \in [Clients -> Ends],
           wait' \in [Clients -> Nat], interval' \in [Clients -> Nat],
           deadline' \in [Clients -> Nat], lock' \in Clients \cup {None},
           cache' \in Files, tmp' \in Files, live' \subseteq Grants,
           out' \in Results, faults' \in Nat, collided' \in BOOLEAN
    PROVE  TypeOK'
  BY DEF TypeOK, Stages, Answers, Ends, Files, Results, None

LEMMA NothingTyped ==
    /\ NoAnswer \in Answers /\ NoFile \in Files /\ Empty \in Files /\ Mixed \in Files
    /\ Answer("rate_limited") \in Answers /\ Answer("error") \in Answers
    /\ \A grant \in Grants \cup {None} : TokenResponse(grant) \in Answers
    /\ \A grant \in Grants \cup {None}, left \in Nat : CachedTokens(grant, left) \in Files
  BY OidcAssumption, SMTT(60)
     DEF NoAnswer, NoFile, Empty, Mixed, Answer, TokenResponse, CachedTokens, Answers, Files, None

LEMMA HandedTyped == \A left : Handed(left) \in Results
  BY DEF Handed, Results

LEMMA HandedOther == \A left : Handed(left) # "login"
  BY DEF Handed

\* A call that ends.
LEMMA EndType ==
    ASSUME TypeOK, NEW c \in Clients, NEW result \in Results, NEW open \in [Clients -> Ends],
           EndWith(c, result, open), cache' \in Files, tmp' \in Files, live' \subseteq Grants,
           faults' \in Nat, collided' \in BOOLEAN
    PROVE  TypeOK'
<1>1. /\ pc' = [pc EXCEPT ![c] = "idle"] /\ out' = result
      /\ held' = [held EXCEPT ![c] = None] /\ got' = [got EXCEPT ![c] = NoAnswer]
      /\ fd' = [open EXCEPT ![c] = "none"] /\ wait' = [wait EXCEPT ![c] = 0]
      /\ interval' = [interval EXCEPT ![c] = Interval]
      /\ deadline' = [deadline EXCEPT ![c] = 0]
      /\ lock' = IF lock = c THEN None ELSE lock
  BY DEF EndWith
<1>2. pc' \in [Clients -> Stages] /\ fd' \in [Clients -> Ends]
  BY <1>1, TypeParts DEF Stages, Ends
<1>3. held' \in [Clients -> Grants \cup {None}] /\ got' \in [Clients -> Answers]
  BY <1>1, TypeParts, NothingTyped
<1>4. wait' \in [Clients -> Nat] /\ interval' \in [Clients -> Nat] /\ deadline' \in [Clients -> Nat]
  <2>1. 0 \in Nat /\ Interval \in Nat
    BY OidcAssumption
  <2> QED
    BY <1>1, <2>1, TypeParts
<1>5. lock' \in Clients \cup {None}
  BY <1>1, TypeParts
<1> QED
  BY <1>1, <1>2, <1>3, <1>4, <1>5, TypeParts, PrimedParts

\* A call that goes on.
LEMMA GotoType ==
    ASSUME TypeOK, NEW c \in Clients, NEW to \in Stages, Goto(c, to),
           held' \in [Clients -> Grants \cup {None}], got' \in [Clients -> Answers],
           fd' \in [Clients -> Ends], wait' \in [Clients -> Nat], interval' \in [Clients -> Nat],
           deadline' \in [Clients -> Nat], lock' \in Clients \cup {None},
           cache' \in Files, tmp' \in Files, live' \subseteq Grants, faults' \in Nat,
           collided' \in BOOLEAN
    PROVE  TypeOK'
<1>1. pc' \in [Clients -> Stages] /\ out' \in Results
  BY TypeParts DEF Goto, Results
<1> QED
  BY <1>1, PrimedParts

LEMMA AccessType ==
    ASSUME TypeOK, NEW c \in Clients, AccessToken(c) \/ LockTokenCache(c) \/ RequestFails(c)
    PROVE  TypeOK'
<1>1. /\ cache' \in Files /\ tmp' \in Files /\ live' \subseteq Grants
      /\ faults' \in Nat /\ collided' \in BOOLEAN
  BY TypeParts DEF AccessToken, LockTokenCache, RequestFails, history
<1>2. fd \in [Clients -> Ends] /\ cache.grant \in Grants \cup {None}
  BY TypeParts DEF Files
<1>3. CASE \E result \in {"login", "failed", Handed(cache.left)} : End(c, result)
  <2>1. PICK result \in {"login", "failed", Handed(cache.left)} : EndWith(c, result, fd)
    BY <1>3 DEF End
  <2>2. result \in Results
    BY <2>1, HandedTyped DEF Results
  <2> QED
    BY <1>1, <1>2, <2>1, <2>2, EndType
<1>4. CASE Goto(c, "lock") /\ UNCHANGED <<calls, lock>>
  BY <1>1, <1>4, GotoType, TypeParts DEF calls, polling, Stages
<1>5. CASE /\ Goto(c, "request") /\ held' = [held EXCEPT ![c] = cache.grant] /\ lock' = c
           /\ UNCHANGED <<got, fd, polling>>
  <2>1. held' \in [Clients -> Grants \cup {None}]
    BY <1>2, <1>5, TypeParts
  <2> QED
    BY <1>1, <1>5, <2>1, GotoType, TypeParts DEF polling, Stages
<1> QED
  BY <1>3, <1>4, <1>5 DEF AccessToken, LockTokenCache, RequestFails

LEMMA RefreshType ==
    ASSUME TypeOK, NEW c \in Clients, Refresh(c)
    PROVE  TypeOK'
<1>1. NewGrant \in Grants
  BY NewGrantUnknown, TypeParts
<1>2. PICK answer \in {Answer("rate_limited"), Answer("error"), TokenResponse(None),
                       TokenResponse(NewGrant)} : got' = [got EXCEPT ![c] = answer]
  BY DEF Refresh
<1>3. answer \in Answers
  BY <1>1, <1>2, NothingTyped
<1>4. got' \in [Clients -> Answers]
  BY <1>2, <1>3, TypeParts
<1>5. live' \subseteq Grants
  BY <1>1, TypeParts DEF Refresh
<1>6. Goto(c, "answered") /\ UNCHANGED <<held, fd, polling, files, history>>
  BY DEF Refresh
<1> QED
  BY <1>4, <1>5, <1>6, GotoType, TypeParts DEF polling, files, history, Stages

LEMMA RefreshAnsweredType ==
    ASSUME TypeOK, NEW c \in Clients, RefreshAnswered(c)
    PROVE  TypeOK'
<1>1. /\ cache' \in Files /\ tmp' \in Files /\ live' \subseteq Grants
      /\ faults' \in Nat /\ collided' \in BOOLEAN /\ fd \in [Clients -> Ends]
  BY TypeParts DEF RefreshAnswered, history
<1>2. CASE \E result \in {"login", "failed"} : End(c, result)
  BY <1>1, <1>2, EndType DEF End, Results
<1>3. CASE /\ Goto(c, "open") /\ got' = [got EXCEPT ![c].grant = IF @ = None THEN held[c] ELSE @]
           /\ UNCHANGED <<held, fd, polling, lock>>
  <2> DEFINE grant == IF got[c].grant = None THEN held[c] ELSE got[c].grant
             answer == [got[c] EXCEPT !.grant = grant]
  <2>1. got' = [got EXCEPT ![c] = answer]
    BY <1>3
  <2>2. got[c] \in Answers /\ grant \in Grants \cup {None}
    <3>1. got[c] \in Answers /\ held[c] \in Grants \cup {None}
      BY TypeParts
    <3> QED
      BY <3>1 DEF Answers
  <2> HIDE DEF grant
  <2>3. answer \in Answers
    BY <2>2 DEF Answers
  <2> HIDE DEF answer
  <2>4. got' \in [Clients -> Answers]
    BY <2>1, <2>3, TypeParts
  <2> QED
    BY <1>1, <1>3, <2>4, GotoType, TypeParts DEF polling, Stages, Storing
<1> QED
  BY <1>2, <1>3 DEF RefreshAnswered

LEMMA LargerNumber == ASSUME NEW m \in Nat, NEW n \in Nat PROVE Max({m, n}) \in Nat
<1>1. \E x \in {m, n} : \A y \in {m, n} : x >= y
  BY SMTT(60)
<1>2. Max({m, n}) \in {m, n}
  BY <1>1 DEF Max
<1> QED
  BY <1>2

LEMMA WaitType ==
    ASSUME TypeOK, NEW c \in Clients, NEW delay \in Nat, NEW pace \in Nat, Wait(c, delay, pace),
           UNCHANGED <<cache, tmp, live, history>>
    PROVE  TypeOK'
<1>1. /\ cache' \in Files /\ tmp' \in Files /\ live' \subseteq Grants
      /\ faults' \in Nat /\ collided' \in BOOLEAN /\ fd \in [Clients -> Ends]
  BY TypeParts DEF history
<1>2. CASE End(c, "failed")
  BY <1>1, <1>2, EndType DEF End, Results
<1>3. CASE /\ Goto(c, "sleep") /\ wait' = [wait EXCEPT ![c] = delay]
           /\ interval' = [interval EXCEPT ![c] = pace] /\ UNCHANGED <<held, got, fd, deadline, lock>>
  <2>1. wait' \in [Clients -> Nat] /\ interval' \in [Clients -> Nat]
    BY <1>3, TypeParts
  <2> QED
    BY <1>1, <1>3, <2>1, GotoType, TypeParts DEF Stages
<1> QED
  BY <1>2, <1>3 DEF Wait

LEMMA PollType ==
    ASSUME TypeOK, NEW c \in Clients, Poll(c)
    PROVE  TypeOK'
<1>1. cache' \in Files /\ tmp' \in Files /\ collided' \in BOOLEAN /\ fd \in [Clients -> Ends]
  BY TypeParts DEF Poll
<1>2. ASSUME NEW grant \in {NewGrant, None}, Goto(c, "open"),
             got' = [got EXCEPT ![c] = TokenResponse(grant)],
             live' = (live \cap Known) \cup ({grant} \ {None}), Lose(grant = None),
             interval' = [interval EXCEPT ![c] = Interval], deadline' = [deadline EXCEPT ![c] = 0],
             UNCHANGED <<held, fd, wait, lock>>
      PROVE  TypeOK'
  <2>1. NewGrant \in Grants
    BY NewGrantUnknown, TypeParts
  <2>2. TokenResponse(grant) \in Answers
    BY <1>2, <2>1, NothingTyped
  <2>3. got' \in [Clients -> Answers] /\ live' \subseteq Grants
    BY <1>2, <2>1, <2>2, TypeParts
  <2>4. faults \in Nat /\ Interval \in Nat /\ 0 \in Nat
    BY TypeParts, OidcAssumption
  <2>5. faults' \in Nat
    BY <1>2, <2>4, SMTT(60) DEF Lose
  <2>6. interval' \in [Clients -> Nat] /\ deadline' \in [Clients -> Nat]
    BY <1>2, <2>4, TypeParts
  <2> QED
    BY <1>1, <1>2, <2>3, <2>5, <2>6, GotoType, TypeParts DEF Stages, Storing
<1>3. CASE End(c, "failed") /\ UNCHANGED <<live, faults>>
  BY <1>1, <1>3, EndType, TypeParts DEF End, Results
<1>4. interval[c] \in Nat /\ SlowDown \in Nat /\ RetryAfters \subseteq Nat
  BY TypeParts, OidcAssumption
<1>5. interval[c] + SlowDown \in Nat
  BY <1>4, SMTT(60)
<1>6. \A after \in RetryAfters : Max({after, interval[c]}) \in Nat
  BY <1>4, LargerNumber
<1>7. CASE /\ \/ Wait(c, interval[c], interval[c])
              \/ Wait(c, interval[c] + SlowDown, interval[c] + SlowDown)
              \/ \E after \in RetryAfters : Wait(c, Max({after, interval[c]}), interval[c])
           /\ UNCHANGED <<live, faults>>
  <2>1. UNCHANGED <<cache, tmp, live, history>>
    BY <1>7 DEF Poll, history
  <2> QED
    BY <1>4, <1>5, <1>6, <1>7, <2>1, WaitType
<1> QED
  BY <1>2, <1>3, <1>7 DEF Poll

LEMMA LoginType ==
    ASSUME TypeOK, NEW c \in Clients, Login(c) \/ Wake(c)
    PROVE  TypeOK'
<1>1. /\ cache' \in Files /\ tmp' \in Files /\ live' \subseteq Grants
      /\ faults' \in Nat /\ collided' \in BOOLEAN /\ fd \in [Clients -> Ends]
  BY TypeParts DEF Login, Wake, files, history
<1>2. CASE End(c, "failed")
  BY <1>1, <1>2, EndType DEF End, Results
<1>3. CASE /\ Goto(c, "poll") /\ deadline' = [deadline EXCEPT ![c] = DeviceExpiresIn]
           /\ UNCHANGED <<held, got, fd, wait, interval, lock>>
  <2>1. deadline' \in [Clients -> Nat]
    BY <1>3, OidcAssumption, TypeParts
  <2> QED
    BY <1>1, <1>3, <2>1, GotoType, TypeParts DEF Stages
<1>4. CASE Wake(c)
  BY <1>1, <1>4, GotoType, TypeParts DEF Wake, calls, polling, files, Stages
<1> QED
  BY <1>2, <1>3, <1>4 DEF Login

LEMMA OpenType ==
    ASSUME TypeOK, NEW c \in Clients, Open(c)
    PROVE  TypeOK'
<1>1. fd' \in [Clients -> Ends] /\ tmp' \in Files
  BY TypeParts, NothingTyped DEF Open, Ends
<1>2. collided' \in BOOLEAN
  BY DEF Open
<1>3. Goto(c, "write") /\ UNCHANGED <<held, got, polling, lock, cache, live, faults>>
  BY DEF Open
<1> QED
  BY <1>1, <1>2, <1>3, GotoType, TypeParts DEF polling, Stages, Storing

LEMMA WriteType ==
    ASSUME TypeOK, NEW c \in Clients, Write(c)
    PROVE  TypeOK'
<1>1. got[c].grant \in Grants \cup {None} /\ got[c].left \in Nat
  <2>1. got[c] \in Answers
    BY TypeParts
  <2> QED
    BY <2>1 DEF Answers
<1>2. \A file : Written(c, file) \subseteq Files
  BY <1>1, NothingTyped DEF Written
<1>3. cache' \in Files /\ tmp' \in Files
  BY <1>2, TypeParts DEF Write
<1>4. Goto(c, "rename") /\ UNCHANGED <<calls, lock, live, history>>
  BY DEF Write
<1> QED
  BY <1>3, <1>4, GotoType, TypeParts DEF calls, polling, history, Stages, Storing

LEMMA RenameType ==
    ASSUME TypeOK, NEW c \in Clients, Rename(c)
    PROVE  TypeOK'
<1>1. cache' \in Files /\ tmp' \in Files /\ live' \subseteq Grants
  BY TypeParts, NothingTyped DEF Rename
<1>2. faults' \in Nat /\ collided' \in BOOLEAN /\ fd \in [Clients -> Ends]
  BY TypeParts DEF Rename, history
<1>3. CASE End(c, "failed")
  BY <1>1, <1>2, <1>3, EndType DEF End, Results
<1>4. CASE EndWith(c, IF held[c] = None THEN "none" ELSE Handed(got[c].left),
                   [d \in Clients |-> Renamed(fd[d])])
  <2> DEFINE result == IF held[c] = None THEN "none" ELSE Handed(got[c].left)
             open == [d \in Clients |-> Renamed(fd[d])]
  <2>1. result \in Results
    BY HandedTyped DEF Results
  <2>2. \A f \in Ends : Renamed(f) \in Ends
    BY DEF Renamed, Ends
  <2>3. open \in [Clients -> Ends]
    BY <1>2, <2>2
  <2>4. EndWith(c, result, open)
    BY <1>4
  <2> HIDE DEF result, open
  <2> QED
    BY <1>1, <1>2, <2>1, <2>3, <2>4, EndType
<1> QED
  BY <1>3, <1>4 DEF Rename

LEMMA LeaveType ==
    ASSUME TypeOK, NEW c \in Clients, StoreFails(c) \/ Abandon(c)
    PROVE  TypeOK'
<1>1. EndWith(c, "failed", fd) /\ UNCHANGED <<cache, collided>> /\ tmp' \in Unfinished(c)
  BY DEF StoreFails, Abandon, End
<1>2. tmp' \in Files /\ cache' \in Files
  BY <1>1, TypeParts, NothingTyped DEF Unfinished
<1>3. live' \subseteq Grants
  BY TypeParts DEF StoreFails, Abandon
<1>4. faults \in Nat
  BY TypeParts
<1>5. faults' \in Nat
  <2>1. \E lost : faults' = faults + (IF lost THEN 1 ELSE 0)
    BY DEF StoreFails, Abandon, Lose
  <2> QED
    BY <1>4, <2>1, SMTT(60)
<1>6. collided' \in BOOLEAN /\ fd \in [Clients -> Ends]
  BY <1>1, TypeParts
<1> QED
  BY <1>1, <1>2, <1>3, <1>5, <1>6, EndType DEF Results

LEMMA RevokeType ==
    ASSUME TypeOK, NEW grant \in Grants, Revoke(grant)
    PROVE  TypeOK'
<1>1. faults \in Nat
  BY TypeParts
<1>2. faults' \in Nat
  BY <1>1, SMTT(60) DEF Revoke, Lose
<1>3. live' \subseteq Grants /\ out' \in Results
  BY TypeParts DEF Revoke, Results
<1>4. UNCHANGED <<pc, calls, files, collided>>
  BY DEF Revoke
<1> QED
  BY <1>2, <1>3, <1>4, TypeParts, PrimedParts DEF calls, polling, files

LEMMA TickType ==
    ASSUME TypeOK, Tick
    PROVE  TypeOK'
<1>1. \A f \in Files : [f EXCEPT !.left = Less(@), !.expires = Less(@)] \in Files
  <2> SUFFICES ASSUME NEW f \in Files
               PROVE  [f EXCEPT !.left = Less(@), !.expires = Less(@)] \in Files
    OBVIOUS
  <2>1. Less(f.left) \in Nat /\ Less(f.expires) \in Nat
    BY LessFacts DEF Files
  <2> QED
    BY <2>1 DEF Files
<1>2. \A a \in Answers : [a EXCEPT !.left = Less(@)] \in Answers
  <2> SUFFICES ASSUME NEW a \in Answers PROVE [a EXCEPT !.left = Less(@)] \in Answers
    OBVIOUS
  <2>1. Less(a.left) \in Nat
    BY LessFacts DEF Answers
  <2> QED
    BY <2>1 DEF Answers
<1>3. cache' \in Files /\ tmp' \in Files
  BY <1>1, TypeParts DEF Tick
<1>4. got' \in [Clients -> Answers]
  BY <1>2, TypeParts DEF Tick
<1>5. wait' \in [Clients -> Nat] /\ deadline' \in [Clients -> Nat]
  BY LessFacts, TypeParts DEF Tick
<1>6. UNCHANGED <<pc, held, fd, interval, lock, live, history>> /\ out' \in Results
  BY DEF Tick, Results
<1> QED
  BY <1>3, <1>4, <1>5, <1>6, TypeParts, PrimedParts DEF history

LEMMA TypeInit == Init => TypeOK
<1> SUFFICES ASSUME Init PROVE TypeOK
  OBVIOUS
<1>1. Interval \in Nat /\ 0 \in Nat
  BY OidcAssumption
<1>2. pc \in [Clients -> Stages] /\ fd \in [Clients -> Ends] /\ out \in Results
  BY DEF Init, Stages, Ends, Results
<1>3. held \in [Clients -> Grants \cup {None}] /\ got \in [Clients -> Answers]
  BY NothingTyped DEF Init
<1>4. wait \in [Clients -> Nat] /\ interval \in [Clients -> Nat] /\ deadline \in [Clients -> Nat]
  BY <1>1 DEF Init
<1>5. /\ lock \in Clients \cup {None} /\ cache \in Files /\ tmp \in Files /\ live \subseteq Grants
      /\ faults \in Nat /\ collided \in BOOLEAN
  BY <1>1, NothingTyped DEF Init
<1> QED
  BY <1>2, <1>3, <1>4, <1>5, TypeParts

LEMMA TypeNext == TypeOK /\ [Next]_vars => TypeOK'
<1> SUFFICES ASSUME TypeOK, [Next]_vars PROVE TypeOK'
  OBVIOUS
<1>1. CASE UNCHANGED vars
  BY <1>1, TypeParts, PrimedParts DEF vars, calls, polling, files, history
<1>2. CASE Next
  BY <1>2, AccessType, RefreshType, RefreshAnsweredType, LoginType, PollType, OpenType, WriteType,
     RenameType, LeaveType, RevokeType, TickType DEF Next
<1> QED
  BY <1>1, <1>2

\* Every variable of the token cache keeps its type, and the provider never runs out
\* of refresh tokens nobody knows.
THEOREM TokenTypeCorrect == Spec => []TypeOK
  BY TypeInit, TypeNext, PTL DEF Spec

-----------------------------------------------------------------------------
(* The cached refresh token                                                 *)

\* What a caller presents, is answered or stores is a grant the provider accepts.
CallerUsable(c) ==
    /\ pc[c] = "request" => held[c] \in live
    /\ pc[c] = "answered" =>
         /\ got[c].kind # "error"
         /\ got[c].kind = "tokens" => (IF got[c].grant = None THEN held[c] ELSE got[c].grant) \in live
    /\ pc[c] \in Storing => got[c].grant \in live
    /\ pc[c] = "rename" => tmp.grant = got[c].grant

\* A grant just issued to a caller is known to nobody else.
GrantOwn(c) ==
    got[c].grant \notin {None, held[c]} =>
        /\ cache.grant # got[c].grant
        /\ \A d \in Clients \ {c} : got[c].grant \notin {held[d], got[d].grant}

CacheInUse ==
    cache # NoFile =>
        \/ cache.grant \in live
        \/ \E c \in Clients : lock = c /\ held[c] = cache.grant /\ got[c].grant \in live

GrantsUsable == CacheInUse /\ \A c \in Clients : CallerUsable(c) /\ GrantOwn(c)

\* Only an answer with tokens brings a grant.
GrantAnswered ==
    \A c \in Clients : got[c].grant # None =>
        pc[c] \in {"answered"} \cup Storing /\ got[c].kind = "tokens"

\* Strengthens CacheUsable and NoNeedlessLogin.
UsableInv ==
    /\ TornInv /\ TypeOK /\ NoNeedlessLogin /\ GrantAnswered
    /\ faults = 0 /\ ~collided => GrantsUsable

\* A caller the step is not about.
Stays(d) ==
    /\ pc'[d] = pc[d] /\ held'[d] = held[d]
    /\ got'[d].kind = got[d].kind /\ got'[d].grant = got[d].grant

LEMMA CallerKept ==
    ASSUME NEW d \in Clients, CallerUsable(d), Stays(d), held[d] \in live => held[d] \in live',
           got[d].grant \in live => got[d].grant \in live',
           pc[d] = "rename" => tmp'.grant = tmp.grant
    PROVE  CallerUsable(d)'
<1>1. pc'[d] = "request" => held'[d] \in live'
  BY DEF CallerUsable, Stays
<1>2. pc'[d] = "answered" => got'[d].kind # "error"
  BY DEF CallerUsable, Stays
<1>3. pc'[d] = "answered" /\ got'[d].kind = "tokens" =>
        (IF got'[d].grant = None THEN held'[d] ELSE got'[d].grant) \in live'
  BY DEF CallerUsable, Stays
<1>4. pc'[d] \in Storing => got'[d].grant \in live'
  BY DEF CallerUsable, Stays
<1>5. pc'[d] = "rename" => tmp'.grant = got'[d].grant
  BY DEF CallerUsable, Stays
<1> QED
  BY <1>1, <1>2, <1>3, <1>4, <1>5 DEF CallerUsable, None

LEMMA CallersMove ==
    ASSUME \A d \in Clients : CallerUsable(d), NEW c \in Clients, CallerUsable(c)',
           \A d \in Clients \ {c} :
              /\ Stays(d) /\ (held[d] \in live => held[d] \in live')
              /\ (got[d].grant \in live => got[d].grant \in live')
              /\ (pc[d] = "rename" => tmp'.grant = tmp.grant)
    PROVE  (\A d \in Clients : CallerUsable(d))'
<1> SUFFICES ASSUME NEW d \in Clients, d # c PROVE CallerUsable(d)'
  OBVIOUS
<1> QED
  BY CallerKept

\* Grants are passed on or forgotten.
LEMMA OwnKept ==
    ASSUME \A d \in Clients : GrantOwn(d), cache'.grant = cache.grant,
           \A d \in Clients : \/ held'[d] = held[d] /\ got'[d].grant = got[d].grant
                              \/ held'[d] = None /\ got'[d].grant = None
    PROVE  (\A d \in Clients : GrantOwn(d))'
<1> SUFFICES ASSUME NEW d \in Clients, got'[d].grant \notin {None, held'[d]}
             PROVE  /\ cache'.grant # got'[d].grant
                    /\ \A e \in Clients \ {d} : got'[d].grant \notin {held'[e], got'[e].grant}
  BY DEF GrantOwn, None
<1>1. held'[d] = held[d] /\ got'[d].grant = got[d].grant
  OBVIOUS
<1>2. /\ cache.grant # got[d].grant
      /\ \A e \in Clients \ {d} : got[d].grant \notin {held[e], got[e].grant}
  BY <1>1 DEF GrantOwn
<1> QED
  BY <1>1, <1>2

LEMMA UsableFacts ==
    ASSUME UsableInv, NEW c \in Clients
    PROVE  /\ DOMAIN pc = Clients /\ DOMAIN held = Clients /\ DOMAIN got = Clients
           /\ DOMAIN fd = Clients /\ live \subseteq Grants /\ None \notin live /\ c # None
           /\ (held[c] # None => lock = c) /\ (fd[c] # "none" => pc[c] \in Busy)
           /\ DOMAIN got[c] = {"kind", "grant", "left"}
<1>1. TypeOK /\ TornInv
  BY DEF UsableInv
<1>2. got[c] \in Answers
  BY <1>1, TypeParts
<1>3. DOMAIN got[c] = {"kind", "grant", "left"}
  BY <1>2 DEF Answers
<1>4. None \notin Grants /\ c # None
  BY OidcAssumption
<1> QED
  BY <1>1, <1>3, <1>4, TypeParts DEF TornInv

LEMMA RecordParts ==
    /\ NoAnswer.grant = None /\ NoAnswer.kind = "none" /\ NoFile.kind = "absent"
    /\ \A kind : Answer(kind).grant = None /\ Answer(kind).kind = kind
    /\ \A grant : TokenResponse(grant).grant = grant /\ TokenResponse(grant).kind = "tokens"
    /\ \A grant, left : CachedTokens(grant, left).grant = grant
  BY DEF NoAnswer, NoFile, Answer, TokenResponse, CachedTokens

LEMMA OneMoves ==
    ASSUME UsableInv, NEW c \in Clients, NEW to, pc' = [pc EXCEPT ![c] = to],
           NEW grant, held' = [held EXCEPT ![c] = grant],
           NEW answer, got' = [got EXCEPT ![c] = answer]
    PROVE  /\ pc'[c] = to /\ held'[c] = grant /\ got'[c] = answer
           /\ \A d \in Clients \ {c} : Stays(d)
  BY UsableFacts DEF Stays

LEMMA OneGoes ==
    ASSUME UsableInv, NEW c \in Clients, NEW to, Goto(c, to), UNCHANGED <<held, got>>
    PROVE  /\ pc'[c] = to /\ held'[c] = held[c] /\ got'[c] = got[c]
           /\ \A d \in Clients \ {c} : Stays(d)
  BY UsableFacts DEF Stays, Goto

\* A call that ends takes nothing with it that the cache needs.
LEMMA QuitUsable ==
    ASSUME UsableInv, GrantsUsable, NEW c \in Clients, NEW result, End(c, result),
           UNCHANGED <<cache, tmp, live>>, got[c].grant \notin live
    PROVE  GrantsUsable'
<1>1. /\ pc'[c] = "idle" /\ held'[c] = None /\ got'[c] = NoAnswer
      /\ \A d \in Clients \ {c} : Stays(d)
  BY OneMoves DEF End, EndWith
<1>2. got'[c].grant = None
  BY <1>1, RecordParts
<1>3. CallerUsable(c)'
  BY <1>1 DEF CallerUsable, Storing
<1>4. (\A d \in Clients : CallerUsable(d))'
  BY <1>1, <1>3, CallersMove DEF GrantsUsable
<1>5. (\A d \in Clients : GrantOwn(d))'
  <2>1. \A d \in Clients : \/ held'[d] = held[d] /\ got'[d].grant = got[d].grant
                           \/ held'[d] = None /\ got'[d].grant = None
    BY <1>1, <1>2 DEF Stays
  <2> QED
    BY <2>1, OwnKept DEF GrantsUsable
<1>6. CacheInUse'
  <2> SUFFICES ASSUME cache' # NoFile, cache'.grant \notin live'
               PROVE  \E d \in Clients : lock' = d /\ held'[d] = cache'.grant /\ got'[d].grant \in live'
    BY DEF CacheInUse, NoFile, None
  <2>1. PICK d \in Clients : lock = d /\ held[d] = cache.grant /\ got[d].grant \in live
    BY DEF GrantsUsable, CacheInUse
  <2>2. d # c /\ lock' = lock
    BY <2>1 DEF End, EndWith
  <2> QED
    BY <1>1, <2>1, <2>2 DEF Stays
<1> QED
  BY <1>4, <1>5, <1>6 DEF GrantsUsable

\* A call that goes on outside a refresh.
LEMMA GoUsable ==
    ASSUME UsableInv, GrantsUsable, NEW c \in Clients, NEW to \in {"lock", "poll", "sleep"},
           Goto(c, to), UNCHANGED <<held, got, lock, cache, tmp, live>>
    PROVE  GrantsUsable'
<1>1. pc'[c] = to /\ \A d \in Clients \ {c} : Stays(d)
  BY OneGoes
<1>2. CallerUsable(c)'
  BY <1>1 DEF CallerUsable, Storing
<1>3. (\A d \in Clients : CallerUsable(d))'
  BY <1>1, <1>2, CallersMove DEF GrantsUsable
<1>4. (\A d \in Clients : GrantOwn(d))'
  BY OwnKept DEF GrantsUsable
<1>5. CacheInUse'
  BY DEF GrantsUsable, CacheInUse, NoFile, None
<1> QED
  BY <1>3, <1>4, <1>5 DEF GrantsUsable

\* Whoever takes the lock finds a refresh token that is still good.
LEMMA CacheLive ==
    ASSUME UsableInv, GrantsUsable, lock = None, cache # NoFile
    PROVE  cache.grant \in live /\ cache.grant # None
<1>1. \A c \in Clients : lock # c
  BY OidcAssumption
<1>2. cache.grant \in live
  BY <1>1 DEF GrantsUsable, CacheInUse
<1>3. None \notin live
  BY OidcAssumption, TypeParts DEF UsableInv
<1> QED
  BY <1>2, <1>3

LEMMA LockUsable ==
    ASSUME UsableInv, GrantsUsable, NEW c \in Clients, lock = None, Loaded, Goto(c, "request"),
           held' = [held EXCEPT ![c] = cache.grant], lock' = c, UNCHANGED <<got, cache, tmp, live>>
    PROVE  GrantsUsable'
<1>1. cache.grant \in live
  BY CacheLive, RecordParts DEF Loaded
<1>2. pc'[c] = "request" /\ held'[c] = cache.grant /\ \A d \in Clients \ {c} : Stays(d)
  BY UsableFacts DEF Stays, Goto
<1>3. CallerUsable(c)'
  <2>1. held'[c] \in live'
    BY <1>1, <1>2, SMTT(60)
  <2> QED
    BY <1>2, <2>1 DEF CallerUsable, Storing
<1>4. (\A d \in Clients : CallerUsable(d))'
  BY <1>2, <1>3, CallersMove DEF GrantsUsable
<1>5. (\A d \in Clients : GrantOwn(d))'
  <2> SUFFICES ASSUME NEW d \in Clients, got'[d].grant \notin {None, held'[d]}
               PROVE  /\ cache'.grant # got'[d].grant
                      /\ \A e \in Clients \ {d} : got'[d].grant \notin {held'[e], got'[e].grant}
    BY DEF GrantOwn, None
  <2>1. got[d].grant \notin {None, held[d]}
    <3>1. held[d] = None
      BY UsableFacts
    <3> QED
      BY <3>1
  <2>2. /\ cache.grant # got[d].grant
        /\ \A e \in Clients \ {d} : got[d].grant \notin {held[e], got[e].grant}
    BY <2>1 DEF GrantsUsable, GrantOwn
  <2> QED
    BY <1>2, <2>2 DEF Stays
<1>6. CacheInUse'
  BY <1>1 DEF CacheInUse
<1> QED
  BY <1>4, <1>5, <1>6 DEF GrantsUsable

\* An answer without a new grant: too many requests, or the old one stays good.
LEMMA SameGrantUsable ==
    ASSUME UsableInv, GrantsUsable, NEW c \in Clients, pc[c] = "request", Goto(c, "answered"),
           NEW answer \in {Answer("rate_limited"), TokenResponse(None)},
           got' = [got EXCEPT ![c] = answer], UNCHANGED <<held, lock, cache, tmp, live>>
    PROVE  GrantsUsable'
<1>1. /\ pc'[c] = "answered" /\ held'[c] = held[c] /\ got'[c] = answer
      /\ \A d \in Clients \ {c} : Stays(d)
  BY UsableFacts DEF Stays, Goto
<1>2. answer.grant = None /\ answer.kind \in {"rate_limited", "tokens"}
  BY RecordParts
<1>3. held[c] \in live /\ got[c].grant = None
  BY DEF GrantsUsable, CallerUsable, UsableInv, GrantAnswered, Storing
<1>4. got'[c].grant = None /\ got'[c].kind # "error" /\ held'[c] \in live'
  BY <1>1, <1>2, <1>3, SMTT(60)
<1>5. CallerUsable(c)'
  <2>1. None' = None
    BY DEF None
  <2> QED
    BY <1>1, <1>4, <2>1 DEF CallerUsable, Storing
<1>6. (\A d \in Clients : CallerUsable(d))'
  BY <1>1, <1>5, CallersMove DEF GrantsUsable
<1>7. (\A d \in Clients : GrantOwn(d))'
  <2>1. \A d \in Clients : held'[d] = held[d] /\ got'[d].grant = got[d].grant
    BY <1>1, <1>3, <1>4 DEF Stays
  <2> QED
    BY <2>1, OwnKept DEF GrantsUsable
<1>8. CacheInUse'
  <2> SUFFICES ASSUME cache' # NoFile, cache'.grant \notin live'
               PROVE  \E d \in Clients : lock' = d /\ held'[d] = cache'.grant /\ got'[d].grant \in live'
    BY DEF CacheInUse, NoFile, None
  <2>1. PICK d \in Clients : lock = d /\ held[d] = cache.grant /\ got[d].grant \in live
    BY DEF GrantsUsable, CacheInUse
  <2>2. d # c
    BY <1>3, <2>1, UsableFacts
  <2>3. held'[d] = held[d] /\ got'[d].grant = got[d].grant /\ lock' = lock
    BY <1>1, <2>2 DEF Stays
  <2>4. got'[d].grant \in live' /\ held'[d] = cache'.grant
    BY <2>1, <2>3, SMTT(60)
  <2> QED
    BY <2>1, <2>3, <2>4
<1> QED
  BY <1>6, <1>7, <1>8 DEF GrantsUsable

\* A grant nobody knew is the own grant of the caller it is issued to.
LEMMA IssuedOwn ==
    ASSUME UsableInv, \A d \in Clients : GrantOwn(d), NEW c \in Clients,
           got' = [got EXCEPT ![c] = TokenResponse(NewGrant)], UNCHANGED <<held, cache>>
    PROVE  (\A d \in Clients : GrantOwn(d))'
<1> DEFINE new == NewGrant
<1>1. new \notin Known /\ new # None
  BY NewGrantUnknown, UsableFacts
<1>2. \A d \in Clients : new # held[d] /\ new # got[d].grant /\ new # cache.grant
  BY <1>1 DEF Known
<1>3. \A d \in Clients : got'[d].grant = IF d = c THEN new ELSE got[d].grant
  BY UsableFacts, RecordParts
<1> HIDE DEF new
<1> SUFFICES ASSUME NEW d \in Clients, got'[d].grant \notin {None, held'[d]}
             PROVE  /\ cache'.grant # got'[d].grant
                    /\ \A e \in Clients \ {d} : got'[d].grant \notin {held'[e], got'[e].grant}
  BY DEF GrantOwn, None
<1>4. CASE d = c
  BY <1>2, <1>3, <1>4
<1>5. CASE d # c
  <2>1. got[d].grant \notin {None, held[d]}
    BY <1>3, <1>5
  <2>2. /\ cache.grant # got[d].grant
        /\ \A e \in Clients \ {d} : got[d].grant \notin {held[e], got[e].grant}
    BY <2>1 DEF GrantOwn
  <2> QED
    BY <1>2, <1>3, <1>5, <2>2
<1> QED
  BY <1>4, <1>5

\* The old grant is gone for everybody, but only its holder had it.
LEMMA NewGrantUsable ==
    ASSUME UsableInv, GrantsUsable, NEW c \in Clients, pc[c] = "request", Goto(c, "answered"),
           got' = [got EXCEPT ![c] = TokenResponse(NewGrant)],
           live' = ((live \cap Known) \ {held[c]}) \cup {NewGrant},
           UNCHANGED <<held, lock, cache, tmp>>
    PROVE  GrantsUsable'
<1>1. /\ pc'[c] = "answered" /\ got'[c] = TokenResponse(NewGrant)
      /\ \A d \in Clients \ {c} : Stays(d)
  BY UsableFacts DEF Stays, Goto
<1>2. held[c] \in live /\ got[c].grant = None
  BY DEF GrantsUsable, CallerUsable, UsableInv, GrantAnswered, Storing
<1>3. held[c] # None /\ lock = c /\ None \notin live
  BY <1>2, UsableFacts
<1>4. NewGrant # None /\ NewGrant \in live' /\ got'[c].grant = NewGrant /\ got'[c].kind = "tokens"
  BY <1>1, NewGrantUnknown, UsableFacts, RecordParts
<1>5. ASSUME NEW d \in Clients \ {c}
      PROVE  held[d] \notin live /\ (got[d].grant \in live => got[d].grant \in live')
  <2>1. held[d] = None
    BY <1>3, UsableFacts
  <2>2. got[d].grant \in Known
    BY DEF Known
  <2>3. got[d].grant \in live => got[d].grant # held[c]
    BY <1>3, <2>1 DEF GrantsUsable, GrantOwn
  <2> QED
    BY <1>3, <2>1, <2>2, <2>3
<1>6. CallerUsable(c)'
  <2> DEFINE new == NewGrant
  <2>1. got'[c].grant \in live' /\ got'[c].grant # None /\ got'[c].kind = "tokens"
    BY <1>4
  <2> QED
    BY <1>1, <2>1 DEF CallerUsable, Storing, None
<1>7. (\A d \in Clients : CallerUsable(d))'
  BY <1>1, <1>5, <1>6, CallersMove DEF GrantsUsable
<1>8. (\A d \in Clients : GrantOwn(d))'
  BY IssuedOwn DEF GrantsUsable
<1>9. CacheInUse'
  <2> SUFFICES ASSUME cache' # NoFile, cache'.grant \notin live'
               PROVE  \E d \in Clients : lock' = d /\ held'[d] = cache'.grant /\ got'[d].grant \in live'
    BY DEF CacheInUse, NoFile, None
  <2>1. cache.grant \in live
    BY <1>2, <1>3 DEF GrantsUsable, CacheInUse
  <2>2. cache.grant \in Known
    BY DEF Known
  <2>3. cache.grant = held[c]
    BY <2>1, <2>2
  <2> QED
    BY <1>3, <1>4, <2>3
<1> QED
  BY <1>7, <1>8, <1>9 DEF GrantsUsable

\* The answered grant, or the old one where the answer brought none, is to be stored.
LEMMA AnsweredUsable ==
    ASSUME UsableInv, GrantsUsable, NEW c \in Clients, pc[c] = "answered", got[c].kind = "tokens",
           Goto(c, "open"), got' = [got EXCEPT ![c].grant = IF @ = None THEN held[c] ELSE @],
           UNCHANGED <<held, lock, cache, tmp, live>>
    PROVE  GrantsUsable'
<1> DEFINE grant == IF got[c].grant = None THEN held[c] ELSE got[c].grant
<1>1. pc'[c] = "open" /\ got'[c].grant = grant /\ \A d \in Clients \ {c} : Stays(d)
  BY UsableFacts DEF Stays, Goto
<1>2. grant \in live
  BY DEF GrantsUsable, CallerUsable
<1>3. got[c].grant # None => got'[c].grant = got[c].grant
  BY <1>1
<1>4. got[c].grant = None => got'[c].grant = held[c]
  BY <1>1
<1> HIDE DEF grant
<1>5. CallerUsable(c)'
  <2>1. got'[c].grant \in live'
    BY <1>1, <1>2, SMTT(60)
  <2> QED
    BY <1>1, <2>1 DEF CallerUsable
<1>6. (\A d \in Clients : CallerUsable(d))'
  BY <1>1, <1>5, CallersMove DEF GrantsUsable
<1>7. (\A d \in Clients : GrantOwn(d))'
  <2>1. CASE got[c].grant # None
    <3>1. \A d \in Clients : held'[d] = held[d] /\ got'[d].grant = got[d].grant
      BY <1>1, <1>3, <2>1 DEF Stays
    <3> QED
      BY <3>1, OwnKept DEF GrantsUsable
  <2>2. CASE got[c].grant = None
    <3> SUFFICES ASSUME NEW d \in Clients, got'[d].grant \notin {None, held'[d]}
                 PROVE  /\ cache'.grant # got'[d].grant
                        /\ \A e \in Clients \ {d} : got'[d].grant \notin {held'[e], got'[e].grant}
      BY DEF GrantOwn, None
    <3>1. d # c
      BY <1>4, <2>2
    <3>2. got'[d].grant = got[d].grant /\ got[d].grant \notin {None, held[d]}
      BY <1>1, <3>1 DEF Stays
    <3>3. /\ cache.grant # got[d].grant
          /\ \A e \in Clients \ {d} : got[d].grant \notin {held[e], got[e].grant}
      BY <3>2 DEF GrantsUsable, GrantOwn
    <3>4. \A e \in Clients \ {d} : got'[e].grant \in {got[e].grant, held[e]}
      BY <1>1, <1>4, <2>2 DEF Stays
    <3> QED
      BY <3>2, <3>3, <3>4
  <2> QED
    BY <2>1, <2>2
<1>8. CacheInUse'
  <2> SUFFICES ASSUME cache' # NoFile, cache'.grant \notin live'
               PROVE  \E d \in Clients : lock' = d /\ held'[d] = cache'.grant /\ got'[d].grant \in live'
    BY DEF CacheInUse, NoFile, None
  <2>1. PICK d \in Clients : lock = d /\ held[d] = cache.grant /\ got[d].grant \in live
    BY DEF GrantsUsable, CacheInUse
  <2>2. got[d].grant # None
    BY <2>1, UsableFacts
  <2>3. got'[d].grant = got[d].grant
    BY <1>1, <1>3, <2>2 DEF Stays
  <2>4. got'[d].grant \in live' /\ held'[d] = cache'.grant /\ lock' = d
    BY <2>1, <2>3, SMTT(60)
  <2> QED
    BY <2>4
<1> QED
  BY <1>6, <1>7, <1>8 DEF GrantsUsable

\* A login ends with a grant of its own; nobody else loses theirs.
LEMMA PolledUsable ==
    ASSUME UsableInv, GrantsUsable, NEW c \in Clients, pc[c] = "poll", Goto(c, "open"),
           got' = [got EXCEPT ![c] = TokenResponse(NewGrant)],
           live' = (live \cap Known) \cup ({NewGrant} \ {None}), UNCHANGED <<held, lock, cache, tmp>>
    PROVE  GrantsUsable'
<1>1. /\ pc'[c] = "open" /\ got'[c] = TokenResponse(NewGrant)
      /\ \A d \in Clients \ {c} : Stays(d)
  BY UsableFacts DEF Stays, Goto
<1>2. got[c].grant = None /\ None \notin live
  BY UsableFacts DEF UsableInv, GrantAnswered, Storing
<1>3. NewGrant \in live' /\ got'[c].grant = NewGrant
  BY <1>1, NewGrantUnknown, UsableFacts, RecordParts
<1>4. \A d \in Clients : held[d] \in Known /\ got[d].grant \in Known /\ cache.grant \in Known
  BY DEF Known
<1>5. CallerUsable(c)'
  <2>1. got'[c].grant \in live'
    BY <1>3
  <2> QED
    BY <1>1, <2>1 DEF CallerUsable
<1>6. (\A d \in Clients : CallerUsable(d))'
  BY <1>1, <1>4, <1>5, CallersMove DEF GrantsUsable
<1>7. (\A d \in Clients : GrantOwn(d))'
  BY IssuedOwn DEF GrantsUsable
<1>8. CacheInUse'
  <2> SUFFICES ASSUME cache' # NoFile, cache'.grant \notin live'
               PROVE  \E d \in Clients : lock' = d /\ held'[d] = cache'.grant /\ got'[d].grant \in live'
    BY DEF CacheInUse, NoFile, None
  <2>1. PICK d \in Clients : lock = d /\ held[d] = cache.grant /\ got[d].grant \in live
    BY <1>4 DEF GrantsUsable, CacheInUse
  <2>2. got'[d].grant = got[d].grant
    BY <1>1, <1>2, <2>1 DEF Stays
  <2>3. got[d].grant \in live'
    BY <1>4, <2>1
  <2> QED
    BY <2>1, <2>2, <2>3
<1> QED
  BY <1>6, <1>7, <1>8 DEF GrantsUsable

\* store_tokens writes what was answered.
LEMMA OpenUsable ==
    ASSUME UsableInv, GrantsUsable, NEW c \in Clients, Open(c), StoresAlone'
    PROVE  GrantsUsable'
<1>1. Goto(c, "write") /\ UNCHANGED <<held, got, lock, cache, live>> /\ pc[c] = "open"
  BY DEF Open
<1>2. pc'[c] = "write" /\ got'[c] = got[c] /\ \A d \in Clients \ {c} : Stays(d)
  BY <1>1, OneGoes
<1>3. \A d \in Clients \ {c} : pc[d] # "rename"
  BY <1>2 DEF StoresAlone, Busy, Stays
<1>4. CallerUsable(c)'
  BY <1>1, <1>2 DEF GrantsUsable, CallerUsable, Storing
<1>5. (\A d \in Clients : CallerUsable(d))'
  BY <1>1, <1>2, <1>3, <1>4, CallersMove DEF GrantsUsable
<1>6. (\A d \in Clients : GrantOwn(d))'
  BY <1>1, OwnKept DEF GrantsUsable
<1>7. CacheInUse'
  BY <1>1 DEF GrantsUsable, CacheInUse, NoFile, None
<1> QED
  BY <1>5, <1>6, <1>7 DEF GrantsUsable

LEMMA WriteUsable ==
    ASSUME UsableInv, GrantsUsable, StoresAlone, NEW c \in Clients, Write(c)
    PROVE  GrantsUsable'
<1>1. Goto(c, "rename") /\ UNCHANGED <<held, got, lock, live>> /\ pc[c] = "write"
  BY DEF Write, calls
<1>2. pc'[c] = "rename" /\ got'[c] = got[c] /\ \A d \in Clients \ {c} : Stays(d)
  BY <1>1, OneGoes
<1>3. fd[c] = "tmp" /\ tmp = Empty /\ \A d \in Clients \ {c} : pc[d] # "rename"
  BY <1>1 DEF StoresAlone, Busy
<1>4. tmp' = CachedTokens(got[c].grant, got[c].left) /\ UNCHANGED cache
  BY <1>3, SMTT(60) DEF Write, Written
<1>5. tmp'.grant = got[c].grant
  BY <1>4, RecordParts
<1>6. got[c].grant \in live
  BY <1>1 DEF GrantsUsable, CallerUsable, Storing
<1>7. CallerUsable(c)'
  <2>1. got'[c].grant \in live' /\ tmp'.grant = got'[c].grant
    BY <1>1, <1>2, <1>5, <1>6, SMTT(60)
  <2> QED
    BY <1>2, <2>1 DEF CallerUsable
<1>8. (\A d \in Clients : CallerUsable(d))'
  BY <1>1, <1>2, <1>3, <1>7, CallersMove DEF GrantsUsable
<1>9. (\A d \in Clients : GrantOwn(d))'
  BY <1>1, <1>4, OwnKept DEF GrantsUsable
<1>10. CacheInUse'
  BY <1>1, <1>4 DEF GrantsUsable, CacheInUse, NoFile, None
<1> QED
  BY <1>8, <1>9, <1>10 DEF GrantsUsable

\* What is renamed into place is a grant in use; what it overwrites nobody presents.
LEMMA RenameUsable ==
    ASSUME UsableInv, GrantsUsable, StoresAlone, NEW c \in Clients, Rename(c)
    PROVE  GrantsUsable'
<1>1. pc[c] = "rename" /\ live' = live \cap Known'
  BY DEF Rename
<1>2. tmp.kind = "tokens" /\ \A d \in Clients \ {c} : pc[d] # "rename"
  BY <1>1 DEF StoresAlone, Busy
<1>3. tmp # NoFile
  BY <1>2, RecordParts
<1>4. PICK result, open : EndWith(c, result, open) /\ cache' = tmp /\ tmp' = NoFile
  BY <1>3 DEF Rename
<1>5. /\ pc'[c] = "idle" /\ held'[c] = None /\ got'[c] = NoAnswer
      /\ \A d \in Clients \ {c} : Stays(d)
  BY <1>4, OneMoves DEF EndWith
<1>6. got'[c].grant = None
  BY <1>5, RecordParts
<1>7. tmp.grant = got[c].grant /\ got[c].grant \in live
  BY <1>1 DEF GrantsUsable, CallerUsable, Storing
<1>8. CallerUsable(c)'
  BY <1>5 DEF CallerUsable, Storing
<1>9. \A d \in Clients : held'[d] \in Known' /\ got'[d].grant \in Known' /\ cache'.grant \in Known'
  BY DEF Known
<1>10. (\A d \in Clients : CallerUsable(d))'
  <2>1. \A d \in Clients \ {c} : held[d] \in Known' /\ got[d].grant \in Known'
    BY <1>5, <1>9 DEF Stays
  <2> QED
    BY <1>1, <1>2, <1>5, <1>8, <2>1, CallersMove DEF GrantsUsable
<1>11. (\A d \in Clients : GrantOwn(d))'
  <2> SUFFICES ASSUME NEW d \in Clients, got'[d].grant \notin {None, held'[d]}
               PROVE  /\ cache'.grant # got'[d].grant
                      /\ \A e \in Clients \ {d} : got'[d].grant \notin {held'[e], got'[e].grant}
    BY DEF GrantOwn, None
  <2>1. d # c
    BY <1>6
  <2>2. got'[d].grant = got[d].grant /\ got[d].grant \notin {None, held[d]}
    BY <1>5, <2>1 DEF Stays
  <2>3. \A e \in Clients \ {d} : got[d].grant \notin {held[e], got[e].grant}
    BY <2>2 DEF GrantsUsable, GrantOwn
  <2>4. cache'.grant # got[d].grant
    BY <1>4, <1>7, <2>1, <2>3
  <2>5. \A e \in Clients \ {d} : held'[e] \in {None, held[e]} /\ got'[e].grant \in {None, got[e].grant}
    BY <1>5, <1>6 DEF Stays
  <2> QED
    BY <2>2, <2>3, <2>4, <2>5
<1>12. CacheInUse'
  <2>1. cache'.grant = got[c].grant
    BY <1>4, <1>7
  <2>2. cache'.grant \in live'
    BY <1>1, <1>7, <1>9, <2>1
  <2> QED
    BY <2>2 DEF CacheInUse
<1> QED
  BY <1>10, <1>11, <1>12 DEF GrantsUsable

\* Time takes no grant away.
LEMMA TickUsable ==
    ASSUME UsableInv, GrantsUsable, Tick
    PROVE  GrantsUsable'
<1>1. \A c \in Clients : Stays(c)
  <2> SUFFICES ASSUME NEW c \in Clients PROVE Stays(c)
    OBVIOUS
  <2>1. got'[c] = [got[c] EXCEPT !.left = Less(@)] /\ UNCHANGED <<pc, held>>
    BY DEF Tick
  <2>2. got'[c].kind = got[c].kind /\ got'[c].grant = got[c].grant
    BY <2>1, UsableFacts
  <2> QED
    BY <2>1, <2>2 DEF Stays
<1>2. FileValid(cache) /\ FileValid(tmp)
  BY DEF UsableInv, TornInv, ValidInv
<1>3. cache'.grant = cache.grant /\ tmp'.grant = tmp.grant
  BY <1>2 DEF Tick, FileValid
<1>4. cache = NoFile => cache' = NoFile
  BY <1>2, AgedFile DEF Tick
<1>5. UNCHANGED <<live, lock, held>>
  BY DEF Tick
<1>6. (\A c \in Clients : CallerUsable(c))'
  BY <1>1, <1>3, <1>5, CallerKept DEF GrantsUsable
<1>7. (\A c \in Clients : GrantOwn(c))'
  <2>1. \A c \in Clients : held'[c] = held[c] /\ got'[c].grant = got[c].grant
    BY <1>1 DEF Stays
  <2> QED
    BY <1>3, <2>1, OwnKept DEF GrantsUsable
<1>8. CacheInUse'
  <2> SUFFICES ASSUME cache' # NoFile, cache'.grant \notin live'
               PROVE  \E d \in Clients : lock' = d /\ held'[d] = cache'.grant /\ got'[d].grant \in live'
    BY DEF CacheInUse, NoFile, None
  <2>1. cache.grant \notin live
    BY <1>3, <1>5
  <2>2. PICK d \in Clients : lock = d /\ held[d] = cache.grant /\ got[d].grant \in live
    BY <1>4, <2>1 DEF GrantsUsable, CacheInUse
  <2>3. got'[d].grant \in live' /\ held'[d] = cache'.grant /\ lock' = d
    BY <1>1, <1>3, <1>5, <2>2 DEF Stays
  <2> QED
    BY <2>3
<1> QED
  BY <1>6, <1>7, <1>8 DEF GrantsUsable

\* Before anything is lost and before logins overlap, every step keeps the grants usable.
LEMMA UsableStep ==
    ASSUME UsableInv, TornInv', [Next]_vars, faults' = 0, ~collided'
    PROVE  GrantsUsable'
<1>1. faults \in Nat
  BY TypeParts DEF UsableInv
<1>2. UNCHANGED faults \/ \E lost : Lose(lost)
  BY DEF Next, vars, history, AccessToken, LockTokenCache, Refresh, RefreshAnswered, RequestFails,
         Login, Poll, Wake, Open, Write, Rename, StoreFails, Abandon, Revoke, Tick
<1>3. faults = 0 /\ \A lost \in BOOLEAN : Lose(lost) => ~lost
  BY <1>1, <1>2, SMTT(60) DEF Lose
<1>4. ~collided
  BY DEF Next, vars, history, AccessToken, LockTokenCache, Refresh, RefreshAnswered, RequestFails,
         Login, Poll, Wake, Open, Write, Rename, StoreFails, Abandon, Revoke, Tick
<1>5. GrantsUsable /\ StoresAlone /\ StoresAlone'
  BY <1>3, <1>4 DEF UsableInv, TornInv
<1>6. ASSUME NEW c \in Clients, AccessToken(c) \/ LockTokenCache(c) \/ RequestFails(c) PROVE GrantsUsable'
  <2>1. got[c].grant \notin live /\ UNCHANGED <<cache, tmp, live>>
    <3>1. pc[c] \in {"idle", "lock", "request"} /\ None \notin live
      BY <1>6, UsableFacts DEF AccessToken, LockTokenCache, RequestFails
    <3>2. got[c].grant = None
      BY <3>1 DEF UsableInv, GrantAnswered, Storing
    <3> QED
      BY <1>6, <3>1, <3>2 DEF AccessToken, LockTokenCache, RequestFails
  <2>2. CASE \E result : End(c, result)
    BY <1>5, <2>1, <2>2, QuitUsable
  <2>3. CASE Goto(c, "lock") /\ UNCHANGED <<calls, lock>>
    BY <1>5, <2>1, <2>3, GoUsable DEF calls
  <2>4. CASE /\ lock = None /\ Loaded /\ Goto(c, "request") /\ lock' = c
             /\ held' = [held EXCEPT ![c] = cache.grant] /\ UNCHANGED got
    BY <1>5, <2>1, <2>4, LockUsable
  <2> QED
    BY <1>6, <2>2, <2>3, <2>4 DEF AccessToken, LockTokenCache, RequestFails
<1>7. ASSUME NEW c \in Clients, Refresh(c) PROVE GrantsUsable'
  <2>1. pc[c] = "request" /\ Goto(c, "answered") /\ UNCHANGED <<held, lock, cache, tmp>>
    BY <1>7 DEF Refresh, files
  <2>2. held[c] \in live
    BY <1>5, <2>1 DEF GrantsUsable, CallerUsable
  <2>3. CASE /\ UNCHANGED live
             /\ \E answer \in {Answer("rate_limited"), TokenResponse(None)} :
                  got' = [got EXCEPT ![c] = answer]
    BY <1>5, <2>1, <2>3, SameGrantUsable
  <2>4. CASE /\ got' = [got EXCEPT ![c] = TokenResponse(NewGrant)]
             /\ live' = ((live \cap Known) \ {held[c]}) \cup {NewGrant}
    BY <1>5, <2>1, <2>4, NewGrantUsable
  <2> QED
    BY <1>7, <2>2, <2>3, <2>4 DEF Refresh
<1>8. ASSUME NEW c \in Clients, RefreshAnswered(c) PROVE GrantsUsable'
  <2>1. pc[c] = "answered" /\ UNCHANGED <<cache, tmp, live>>
    BY <1>8 DEF RefreshAnswered
  <2>2. CASE got[c].kind # "tokens" /\ \E result : End(c, result)
    <3>1. got[c].grant \notin live
      BY <2>2, UsableFacts DEF UsableInv, GrantAnswered
    <3> QED
      BY <1>5, <2>1, <2>2, <3>1, QuitUsable
  <2>3. CASE /\ got[c].kind = "tokens" /\ Goto(c, "open") /\ UNCHANGED <<held, lock>>
             /\ got' = [got EXCEPT ![c].grant = IF @ = None THEN held[c] ELSE @]
    BY <1>5, <2>1, <2>3, AnsweredUsable
  <2> QED
    BY <1>8, <2>2, <2>3 DEF RefreshAnswered
<1>9. ASSUME NEW c \in Clients, Login(c) \/ Wake(c) \/ Poll(c) PROVE GrantsUsable'
  <2>1. pc[c] \in {"idle", "sleep", "poll"} /\ UNCHANGED <<cache, tmp>>
    BY <1>9 DEF Login, Wake, Poll, files
  <2>2. got[c].grant \notin live
    BY <2>1, UsableFacts DEF UsableInv, GrantAnswered, Storing
  <2>3. CASE UNCHANGED live /\ \E result : End(c, result)
    BY <1>5, <2>1, <2>2, <2>3, QuitUsable
  <2>4. CASE (Goto(c, "poll") \/ Goto(c, "sleep")) /\ UNCHANGED <<held, got, lock, live>>
    BY <1>5, <2>1, <2>4, GoUsable
  <2>5. CASE /\ pc[c] = "poll"
             /\ \E grant \in {NewGrant, None} :
                  /\ Goto(c, "open") /\ got' = [got EXCEPT ![c] = TokenResponse(grant)]
                  /\ live' = (live \cap Known) \cup ({grant} \ {None}) /\ Lose(grant = None)
                  /\ UNCHANGED <<held, lock>>
    <3>1. PICK grant \in {NewGrant, None} :
             /\ Goto(c, "open") /\ got' = [got EXCEPT ![c] = TokenResponse(grant)]
             /\ live' = (live \cap Known) \cup ({grant} \ {None}) /\ Lose(grant = None)
             /\ UNCHANGED <<held, lock>>
      BY <2>5
    <3>2. grant # None
      BY <1>3, <3>1
    <3>3. grant = NewGrant
      BY <3>1, <3>2
    <3> QED
      BY <1>5, <2>1, <2>5, <3>1, <3>3, PolledUsable
  <2> QED
    BY <1>9, <2>3, <2>4, <2>5 DEF Login, Wake, Poll, Wait, calls, files
<1>10. ASSUME NEW c \in Clients, StoreFails(c) \/ Abandon(c) PROVE GrantsUsable'
  <2>1. pc[c] \notin {"request", "answered"} \cup Storing
    BY <1>3, <1>10 DEF StoreFails, Abandon
  <2>2. End(c, "failed") /\ UNCHANGED <<cache, live>> /\ tmp' \in Unfinished(c)
    BY <1>10, <2>1 DEF StoreFails, Abandon
  <2>3. UNCHANGED tmp
    <3>1. fd[c] = "none"
      BY <2>1, UsableFacts DEF Busy, Storing
    <3> QED
      BY <2>2, <3>1 DEF Unfinished
  <2>4. got[c].grant \notin live
    BY <2>1, UsableFacts DEF UsableInv, GrantAnswered
  <2> QED
    BY <1>5, <2>2, <2>3, <2>4, QuitUsable
<1>11. ASSUME NEW grant \in Grants, Revoke(grant) PROVE GrantsUsable'
  BY <1>3, <1>11 DEF Revoke
<1>12. CASE UNCHANGED vars
  <2>1. UNCHANGED <<pc, held, got, lock, cache, tmp, live>>
    BY <1>12 DEF vars, calls, files
  <2> QED
    BY <1>5, <2>1 DEF GrantsUsable, CacheInUse, CallerUsable, GrantOwn, NoFile, None
<1> QED
  BY <1>5, <1>6, <1>7, <1>8, <1>9, <1>10, <1>11, <1>12, OpenUsable, WriteUsable, RenameUsable, TickUsable
     DEF Next

LEMMA AnsweredStep ==
    ASSUME UsableInv, [Next]_vars
    PROVE  GrantAnswered'
<1>1. GrantAnswered
  BY DEF UsableInv
<1>2. ASSUME NEW c \in Clients, pc'[c] \in {"answered"} \cup Storing, got'[c].kind = "tokens",
             \A d \in Clients \ {c} : Stays(d)
      PROVE  GrantAnswered'
  BY <1>1, <1>2 DEF GrantAnswered, Stays, None
<1>3. ASSUME NEW c \in Clients, got'[c].grant = None, \A d \in Clients \ {c} : Stays(d)
      PROVE  GrantAnswered'
  BY <1>1, <1>3 DEF GrantAnswered, Stays, None
<1>4. ASSUME NEW c \in Clients, NEW result, NEW open, EndWith(c, result, open) PROVE GrantAnswered'
  <2>1. got'[c] = NoAnswer /\ \A d \in Clients \ {c} : Stays(d)
    BY <1>4, OneMoves DEF EndWith
  <2>2. got'[c].grant = None
    BY <2>1, RecordParts
  <2> QED
    BY <1>3, <2>1, <2>2
<1>5. ASSUME NEW c \in Clients, NEW to, Goto(c, to), UNCHANGED got,
             got[c].grant = None \/ (to \in Storing /\ pc[c] \in Storing),
             \A d \in Clients \ {c} : held'[d] = held[d]
      PROVE  GrantAnswered'
  <2>1. pc'[c] = to /\ \A d \in Clients \ {c} : Stays(d)
    BY <1>5, UsableFacts DEF Stays, Goto
  <2>2. got[c].grant # None => to \in Storing /\ got[c].kind = "tokens"
    BY <1>1, <1>5 DEF GrantAnswered
  <2> QED
    BY <1>2, <1>3, <1>5, <2>1, <2>2
<1>6. \A c \in Clients : pc[c] \in {"idle", "lock", "request", "poll", "sleep"} => got[c].grant = None
  BY <1>1 DEF GrantAnswered, Storing
<1>7. ASSUME NEW c \in Clients, AccessToken(c) \/ LockTokenCache(c) \/ RequestFails(c) PROVE GrantAnswered'
  <2>1. got[c].grant = None
    BY <1>6, <1>7 DEF AccessToken, LockTokenCache, RequestFails
  <2>2. CASE \E result : End(c, result)
    BY <1>4, <2>2 DEF End
  <2>3. CASE Goto(c, "lock") /\ UNCHANGED <<calls, lock>>
    BY <1>5, <2>1, <2>3 DEF calls
  <2>4. CASE Goto(c, "request") /\ held' = [held EXCEPT ![c] = cache.grant] /\ UNCHANGED got
    <3>1. \A d \in Clients \ {c} : held'[d] = held[d]
      BY <2>4, UsableFacts
    <3> QED
      BY <1>5, <2>1, <2>4, <3>1
  <2> QED
    BY <1>7, <2>2, <2>3, <2>4 DEF AccessToken, LockTokenCache, RequestFails
<1>8. ASSUME NEW c \in Clients, NEW to \in {"answered", "open"}, Goto(c, to), NEW answer,
             got' = [got EXCEPT ![c] = answer], answer.grant = None \/ answer.kind = "tokens",
             UNCHANGED held
      PROVE  GrantAnswered'
  <2>1. pc'[c] = to /\ got'[c] = answer /\ \A d \in Clients \ {c} : Stays(d)
    BY <1>8, UsableFacts DEF Stays, Goto
  <2>2. got'[c].grant = None \/ got'[c].kind = "tokens"
    BY <1>8, <2>1
  <2>3. pc'[c] \in {"answered"} \cup Storing
    BY <2>1 DEF Storing
  <2> QED
    BY <1>2, <1>3, <2>1, <2>2, <2>3
<1>9. ASSUME NEW c \in Clients, Refresh(c) PROVE GrantAnswered'
  <2>1. PICK answer \in {Answer("rate_limited"), Answer("error"), TokenResponse(None),
                         TokenResponse(NewGrant)} : got' = [got EXCEPT ![c] = answer]
    BY <1>9 DEF Refresh
  <2>2. answer.grant = None \/ answer.kind = "tokens"
    BY <2>1, RecordParts
  <2> QED
    BY <1>8, <1>9, <2>1, <2>2 DEF Refresh
<1>10. ASSUME NEW c \in Clients, RefreshAnswered(c) PROVE GrantAnswered'
  <2>1. CASE \E result : End(c, result)
    BY <1>4, <2>1 DEF End
  <2>2. CASE /\ got[c].kind = "tokens" /\ Goto(c, "open") /\ UNCHANGED held
             /\ got' = [got EXCEPT ![c].grant = IF @ = None THEN held[c] ELSE @]
    <3> DEFINE answer == [got[c] EXCEPT !.grant = IF @ = None THEN held[c] ELSE @]
    <3>1. got' = [got EXCEPT ![c] = answer] /\ answer.kind = "tokens"
      BY <2>2, UsableFacts
    <3> HIDE DEF answer
    <3> QED
      BY <1>8, <2>2, <3>1
  <2> QED
    BY <1>10, <2>1, <2>2 DEF RefreshAnswered
<1>11. ASSUME NEW c \in Clients, Login(c) \/ Wake(c) \/ Poll(c) PROVE GrantAnswered'
  <2>1. got[c].grant = None
    BY <1>6, <1>11 DEF Login, Wake, Poll
  <2>2. CASE \E result : End(c, result)
    BY <1>4, <2>2 DEF End
  <2>3. CASE (Goto(c, "poll") \/ Goto(c, "sleep")) /\ UNCHANGED <<held, got>>
    BY <1>5, <2>1, <2>3
  <2>4. CASE /\ Goto(c, "open") /\ UNCHANGED held
             /\ \E grant \in {NewGrant, None} : got' = [got EXCEPT ![c] = TokenResponse(grant)]
    BY <1>8, <2>4, RecordParts
  <2> QED
    BY <1>11, <2>2, <2>3, <2>4 DEF Login, Wake, Poll, Wait, calls
<1>12. ASSUME NEW c \in Clients, Open(c) \/ Write(c) PROVE GrantAnswered'
  BY <1>5, <1>12 DEF Open, Write, calls, Storing
<1>13. ASSUME NEW c \in Clients, Rename(c) \/ StoreFails(c) \/ Abandon(c) PROVE GrantAnswered'
  BY <1>4, <1>13 DEF Rename, StoreFails, Abandon, End
<1>14. CASE Tick
  <2>1. ASSUME NEW c \in Clients
        PROVE  UNCHANGED pc /\ got'[c].kind = got[c].kind /\ got'[c].grant = got[c].grant
    <3>1. got'[c] = [got[c] EXCEPT !.left = Less(@)] /\ UNCHANGED pc
      BY <1>14 DEF Tick
    <3> QED
      BY <3>1, UsableFacts
  <2> QED
    BY <1>1, <2>1 DEF GrantAnswered, None
<1>15. CASE (\E grant \in Grants : Revoke(grant)) \/ UNCHANGED vars
  <2>1. UNCHANGED <<pc, got>>
    BY <1>15 DEF Revoke, vars, calls
  <2> QED
    BY <1>1, <2>1 DEF GrantAnswered, None
<1> QED
  BY <1>7, <1>9, <1>10, <1>11, <1>12, <1>13, <1>14, <1>15 DEF Next

\* A login is asked for only where the cache holds nothing.
LEMMA NeedlessStep ==
    ASSUME UsableInv, [Next]_vars, TypeOK'
    PROVE  NoNeedlessLogin'
<1>1. faults \in Nat /\ faults' \in Nat
  BY TypeParts DEF UsableInv, TypeOK
<1>2. SUFFICES ASSUME out' = "login", faults' = 0, ~collided'
               PROVE  cache' = NoFile
  <2>1. faults' > 0 \/ faults' = 0
    BY <1>1, SMTT(60)
  <2> QED
    BY <2>1 DEF NoNeedlessLogin, NoFile, None
<1>3. CASE UNCHANGED vars
  <2>1. out = "login" /\ faults = 0 /\ ~collided /\ UNCHANGED cache
    BY <1>2, <1>3 DEF vars, files, history
  <2>2. ~(faults > 0)
    BY <2>1, SMTT(60)
  <2> QED
    BY <2>1, <2>2 DEF UsableInv, NoNeedlessLogin
<1>4. CASE Next
  <2>1. PICK c \in Clients : AccessToken(c) \/ LockTokenCache(c) \/ RefreshAnswered(c)
    BY <1>2, <1>4, HandedOther DEF Next, Refresh, RequestFails, Login, Poll, Wait, Wake, Open, Write,
       Rename, StoreFails, Abandon, Revoke, Tick, Goto, End, EndWith
  <2>2. faults = 0 /\ ~collided /\ UNCHANGED cache
    <3>1. UNCHANGED <<cache, history>>
      BY <2>1 DEF AccessToken, LockTokenCache, RefreshAnswered
    <3> QED
      BY <1>2, <3>1 DEF history
  <2>3. GrantsUsable /\ (cache = NoFile \/ Loaded)
    BY <2>2 DEF UsableInv, TornInv, StoresAlone, Loaded
  <2>4. CASE AccessToken(c)
    BY <1>2, <2>2, <2>3, <2>4, HandedOther DEF AccessToken, Goto, End, EndWith
  <2>5. CASE LockTokenCache(c)
    <3>1. lock = None /\ (~Loaded \/ cache.grant = None)
      BY <1>2, <2>5, HandedOther DEF LockTokenCache, Goto, End, EndWith
    <3> QED
      BY <2>2, <2>3, <3>1, CacheLive
  <2>6. CASE RefreshAnswered(c)
    <3>1. pc[c] = "answered" /\ got[c].kind = "error"
      BY <1>2, <2>6 DEF RefreshAnswered, Goto, End, EndWith
    <3> QED
      BY <2>3, <3>1 DEF GrantsUsable, CallerUsable
  <2> QED
    BY <2>1, <2>4, <2>5, <2>6
<1> QED
  BY <1>3, <1>4

LEMMA UsableInit == Init => UsableInv
<1> SUFFICES ASSUME Init PROVE UsableInv
  OBVIOUS
<1>1. \A c \in Clients : pc[c] = "idle" /\ got[c] = NoAnswer
  BY DEF Init
<1>2. \A c \in Clients : got[c].grant = None
  BY <1>1, RecordParts
<1>3. cache = NoFile /\ out = "none"
  BY DEF Init
<1>4. NoNeedlessLogin /\ GrantAnswered
  BY <1>2, <1>3 DEF NoNeedlessLogin, GrantAnswered
<1>5. GrantsUsable
  BY <1>1, <1>2, <1>3 DEF GrantsUsable, CacheInUse, CallerUsable, GrantOwn, Storing
<1> QED
  BY <1>4, <1>5, TornInit, TypeInit DEF UsableInv

LEMMA UsableNext == UsableInv /\ [Next]_vars => UsableInv'
<1> SUFFICES ASSUME UsableInv, [Next]_vars PROVE UsableInv'
  OBVIOUS
<1>1. TornInv' /\ TypeOK'
  BY TornNext, TypeNext DEF UsableInv
<1> QED
  BY <1>1, AnsweredStep, NeedlessStep, UsableStep DEF UsableInv

\* Until something outside the code loses tokens or a login overlaps another store,
\* the cached refresh token is one the provider accepts, or the holder of the lock
\* already has its successor: for any number of callers refreshing and logging in.
THEOREM CacheAlwaysUsable == Spec => []CacheUsable
<1>1. UsableInv => CacheUsable
  BY DEF UsableInv, GrantsUsable, CacheInUse, CacheUsable
<1> QED
  BY UsableInit, UsableNext, <1>1, PTL DEF Spec

\* access_token sends its caller to log in again only if nobody has logged in yet or
\* something outside the code lost the tokens: for any number of callers that race
\* for the lock, are refused or are given up.
THEOREM LoginNeverNeedless == Spec => []NoNeedlessLogin
<1>1. UsableInv => NoNeedlessLogin
  BY DEF UsableInv
<1> QED
  BY UsableInit, UsableNext, <1>1, PTL DEF Spec
=============================================================================
