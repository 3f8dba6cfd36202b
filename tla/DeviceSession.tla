----------------------------- MODULE DeviceSession -----------------------------
(****************************************************************************)
(* The credential of one device: SecureTokenStore, AuthInterceptor,         *)
(* RefreshInterceptor, SessionRestorer, AuthService and                     *)
(* TokenSessionRepository (mobile/lib/data), against the token endpoints    *)
(* (backend/api/v1/auth_views.py).                                          *)
(*                                                                          *)
(* Every sign-in mints a chain of refresh tokens, and the chain stands for  *)
(* its user. The last token of a chain is fresh; a rotation mints the next  *)
(* one and makes the others stale, because the server blacklists what it    *)
(* was shown. A stale token whose successor did not reach the device is     *)
(* orphaned. Of an access token only its presence is kept: it may expire,   *)
(* or its account be deactivated, at any time. Dart runs one callback at a  *)
(* time, and the keystore completes its calls in order: a call takes effect *)
(* in memory when it completes. Writing the cached identity and publishing  *)
(* the session that goes with it is one step.                               *)
(****************************************************************************)
EXTENDS Naturals

CONSTANTS Callers,    \* requests the app can have under way: the sync round, a screen
          Sync,       \* the caller that stands for the sync round, which outlives a sign-out
          Restorer,   \* the caller that stands for SessionRestorer's GET /auth/me
          MaxSignIns  \* bound: sign-ins of this device

Chains == 1..MaxSignIns
All == Callers \cup {Restorer}

ASSUME SessionAssumption ==
    MaxSignIns \in Nat \ {0} /\ Restorer \notin Callers /\ Sync \in Callers

VARIABLES
    chain,     \* the server's view of each chain
    disk,      \* the refresh token in the keystore
    mem,       \* the refresh token in memory
    access,    \* whether there is an access token, in memory only
    req,       \* the requests under way
    flight,    \* the refresh under way: RefreshInterceptor._inFlight
    launch,    \* how far the launch chain is: restore, then sync
    app,       \* what the user is doing about the session: signing in or out
    session,   \* the published session: its chain, 0 for none
    identity,  \* the cached identity: its chain, 0 for none
    crossed    \* history: a change of user was cut short or overtaken (see SaveTokens,
               \* SignOut and Relaunch)

vars == <<chain, disk, mem, access, req, flight, launch, app, session, identity, crossed>>
store == <<disk, mem, access>>

NoToken == [chain |-> 0, is |-> "stale"]
Token(k) == [chain |-> k, is |-> "fresh"]
Tokens == [chain : {0} \cup Chains, is : {"fresh", "stale", "orphaned"}]

Requests == [phase : {"idle", "sent", "expired", "invalid", "waiting", "refreshed", "refused", "lost"},
             of : {0} \cup Chains, as : {0} \cup Chains, retried : BOOLEAN,
             outcome : {"none", "ok", "failed", "unauthenticated"}]

NoFlight == [phase |-> "none", token |-> NoToken]
Idle == [phase |-> "idle", of |-> 0, as |-> 0, retried |-> FALSE, outcome |-> "none"]
Ready == [phase |-> "ready", chain |-> 0]

TypeOK ==
    /\ chain \in [Chains -> {"unused", "live", "expired"}]
    /\ disk \in Tokens /\ mem \in Tokens
    /\ access \in BOOLEAN
    /\ req \in [All -> Requests]
    /\ flight \in [phase : {"none", "empty", "posted", "rotated", "denied"}, token : Tokens]
    /\ launch \in {"launch", "cache", "me", "refused", "cadence", "over"}
    /\ app \in [phase : {"ready", "signing", "signed", "saved", "leaving"},
                chain : {0} \cup Chains]
    /\ session \in {0} \cup Chains /\ identity \in {0} \cup Chains
    /\ crossed \in BOOLEAN

Init ==
    /\ chain = [k \in Chains |-> "unused"]
    /\ disk = NoToken /\ mem = NoToken /\ access = FALSE
    /\ req = [c \in All |-> Idle]
    /\ flight = NoFlight
    /\ launch = "launch" /\ app = Ready
    /\ session = 0 /\ identity = 0
    /\ crossed = FALSE

\* The refresh would succeed: the token is the chain's last and has not expired.
Live(token) == token.is = "fresh" /\ chain[token.chain] = "live"

Save(token) == disk' = token /\ mem' = token /\ access' = TRUE
Clear == disk' = NoToken /\ mem' = NoToken /\ access' = FALSE

----------------------------------------------------------------------------
(* Requests: AuthInterceptor and ApiClient                                  *)

\* AuthInterceptor attaches the access token there is: it speaks as that token's user,
\* or for nobody. A history field keeps the session a request was first sent under.
Sent(c, of, retried) ==
    req' = [req EXCEPT ![c] = [phase |-> "sent", of |-> of, as |-> IF access THEN mem.chain ELSE 0,
                               retried |-> retried, outcome |-> "none"]]

Bare(c) == req[c].as = 0

\* The result goes to its caller: the restorer decides on it, and the sync cadence ends
\* for good when it is Unauthenticated.
Ends(c, outcome) ==
    /\ req' = [req EXCEPT ![c] = IF c = Restorer
                                  THEN [Idle EXCEPT !.as = req[c].as, !.outcome = outcome]
                                  ELSE Idle]
    /\ launch' = IF c = Sync /\ outcome = "unauthenticated" THEN "over" ELSE launch

\* A screen of a signed-in app sends a request; the cadence goes on after a sign-out.
Send(c) ==
    /\ req[c].phase = "idle"
    /\ IF c = Sync THEN launch = "cadence" ELSE session # 0
    /\ Sent(c, session, FALSE)
    /\ UNCHANGED <<chain, store, flight, launch, app, session, identity, crossed>>

\* The server handles the request, or the connection fails. The access token it carries
\* is accepted, is TOKEN_EXPIRED, or is TOKEN_INVALID, as a bare request always is.
Answered(c) ==
    /\ req[c].phase = "sent"
    /\ \/ ~Bare(c) /\ Ends(c, "ok")
       \/ ~Bare(c) /\ req' = [req EXCEPT ![c].phase = "expired"] /\ UNCHANGED launch
       \/ req' = [req EXCEPT ![c].phase = "invalid"] /\ UNCHANGED launch
       \/ Ends(c, "failed")
    /\ UNCHANGED <<chain, store, flight, app, session, identity, crossed>>

----------------------------------------------------------------------------
(* RefreshInterceptor                                                       *)

\* _isRecoverable: an expired token, or nothing was sent.
Mut_Recoverable_ExpiredOnly(c) == req[c].phase = "expired"
Recoverable(c) == req[c].phase = "expired" \/ (req[c].phase = "invalid" /\ Bare(c))

Failure(c) == IF req[c].phase = "invalid" THEN "unauthenticated" ELSE "failed"

NotRecoverable(c) ==
    /\ req[c].phase \in {"expired", "invalid"} /\ ~Recoverable(c)
    /\ Ends(c, Failure(c))
    /\ UNCHANGED <<chain, store, flight, app, session, identity, crossed>>

\* Refreshed, retried, refused again: the credentials go.
SecondRefusal(c) ==
    /\ Recoverable(c) /\ req[c].retried
    /\ Clear
    /\ Ends(c, Failure(c))
    /\ UNCHANGED <<chain, flight, app, session, identity, crossed>>

Mut_MayRefresh_Again(c) == Recoverable(c)
MayRefresh(c) == Recoverable(c) /\ ~req[c].retried

\* The callers waiting for the flight resume when it lands; each keeps the refusal
\* it met, which is what a failed refresh gives back.
Waiting(c) == req[c].phase = "waiting"
Lands(how) ==
    /\ flight' = NoFlight
    /\ req' = [c \in All |-> IF Waiting(c) THEN [req[c] EXCEPT !.phase = how] ELSE req[c]]

\* The flight that posts a refresh token.
Carrying == flight.phase \in {"posted", "rotated", "denied"}

\* _sharedRefresh: the flight under way is joined ...
Join(c) ==
    /\ MayRefresh(c) /\ flight.phase # "none"
    /\ req' = [req EXCEPT ![c].phase = "waiting"]
    /\ UNCHANGED <<chain, store, flight, launch, app, session, identity, crossed>>

\* ... or one is started with the refresh token in memory.
Mut_StartRefresh_Unshared(c) ==
    /\ MayRefresh(c) /\ mem # NoToken
    /\ flight' = [phase |-> "posted", token |-> mem]
    /\ req' = [req EXCEPT ![c].phase = "waiting"]
    /\ UNCHANGED <<chain, store, launch, app, session, identity, crossed>>

StartRefresh(c) ==
    /\ MayRefresh(c) /\ flight.phase = "none" /\ mem # NoToken
    /\ flight' = [phase |-> "posted", token |-> mem]
    /\ req' = [req EXCEPT ![c].phase = "waiting"]
    /\ UNCHANGED <<chain, store, launch, app, session, identity, crossed>>

\* With none in memory the flight has only the store to clear.
NothingToRefresh(c) ==
    /\ MayRefresh(c) /\ flight.phase = "none" /\ mem = NoToken
    /\ flight' = [phase |-> "empty", token |-> NoToken]
    /\ req' = [req EXCEPT ![c].phase = "waiting"]
    /\ UNCHANGED <<chain, store, launch, app, session, identity, crossed>>

EmptyCleared ==
    /\ flight.phase = "empty"
    /\ Clear
    /\ Lands("refused")
    /\ UNCHANGED <<chain, launch, app, session, identity, crossed>>

\* RefreshView: the token shown is blacklisted and a fresh one minted, or it is refused.
Becomes(token, k, before, after) ==
    IF token = [chain |-> k, is |-> before] THEN [token EXCEPT !.is = after] ELSE token

Rotate ==
    /\ flight.phase = "posted"
    /\ \/ /\ Live(flight.token)
          /\ flight' = [flight EXCEPT !.phase = "rotated"]
          /\ disk' = Becomes(disk, flight.token.chain, "fresh", "stale")
          /\ mem' = Becomes(mem, flight.token.chain, "fresh", "stale")
       \/ /\ ~Live(flight.token)
          /\ flight' = [flight EXCEPT !.phase = "denied"]
          /\ UNCHANGED <<disk, mem>>
    /\ UNCHANGED <<chain, access, req, launch, app, session, identity, crossed>>

\* The rotated pair is saved, whatever happened to the session meanwhile.
RefreshSaved ==
    /\ flight.phase = "rotated"
    /\ Save(flight.token)
    /\ Lands("refreshed")
    /\ UNCHANGED <<chain, launch, app, session, identity, crossed>>

\* The server says that the credential is finished.
RefreshDenied ==
    /\ flight.phase = "denied"
    /\ Clear
    /\ Lands("refused")
    /\ UNCHANGED <<chain, launch, app, session, identity, crossed>>

\* A rotated token that is dropped orphans the one it replaced.
AfterDrop(token) ==
    IF flight.phase = "rotated" THEN Becomes(token, flight.token.chain, "stale", "orphaned")
                                ELSE token

\* The refresh or its answer does not arrive. Being offline signs nobody out.
Mut_RefreshOffline_Clears ==
    /\ Carrying
    /\ Clear
    /\ Lands("lost")
    /\ UNCHANGED <<chain, launch, app, session, identity, crossed>>

RefreshOffline ==
    /\ Carrying
    /\ disk' = AfterDrop(disk) /\ mem' = AfterDrop(mem)
    /\ Lands("lost")
    /\ UNCHANGED <<chain, access, launch, app, session, identity, crossed>>

\* The original request is replayed once, with the token now in memory.
Retry(c) ==
    /\ req[c].phase = "refreshed"
    /\ Sent(c, req[c].of, TRUE)
    /\ UNCHANGED <<chain, store, flight, launch, app, session, identity, crossed>>

GiveUp(c) ==
    /\ req[c].phase \in {"refused", "lost"}
    /\ Ends(c, IF Bare(c) THEN "unauthenticated" ELSE "failed")
    /\ UNCHANGED <<chain, store, flight, app, session, identity, crossed>>

----------------------------------------------------------------------------
(* Restoring a session, signing in and signing out                          *)

\* OfflineWindow.permits, asked of the device's clock: open or not, with any token.
WindowOpen == BOOLEAN

\* SessionRestorer.restore: nothing is stored; or the window is open and the cached
\* identity is read; or the server is asked. The login screen is shown meanwhile.
AskServer == launch' = "me" /\ Sent(Restorer, 0, FALSE)

Restore ==
    /\ launch = "launch"
    /\ \/ mem = NoToken /\ launch' = "over" /\ UNCHANGED req
       \/ mem # NoToken /\ \E open \in WindowOpen :
            IF open THEN launch' = "cache" /\ UNCHANGED req ELSE AskServer
    /\ UNCHANGED <<chain, store, flight, app, session, identity, crossed>>

\* TokenSessionRepository.restore publishes what the restorer found, whoever has signed
\* in meanwhile; a session that is found starts the cadence.
CacheRead ==
    /\ launch = "cache"
    /\ \/ identity # 0 /\ session' = identity /\ launch' = "cadence" /\ UNCHANGED req
       \/ identity = 0 /\ AskServer /\ UNCHANGED session
    /\ UNCHANGED <<chain, store, flight, app, identity, crossed>>

\* The answer to /auth/me: its user is cached and published, or, when there is none,
\* nobody is, and the identity goes with the credentials if the refresh emptied the store.
Restored ==
    /\ launch = "me" /\ req[Restorer].phase = "idle"
    /\ \/ /\ req[Restorer].outcome = "ok"
          /\ identity' = req[Restorer].as /\ session' = req[Restorer].as
          /\ launch' = "cadence"
       \/ /\ req[Restorer].outcome = "failed"
          /\ identity' = (IF mem = NoToken THEN 0 ELSE identity) /\ session' = 0
          /\ launch' = "over"
    /\ req' = [req EXCEPT ![Restorer] = Idle]
    /\ UNCHANGED <<chain, store, flight, app, crossed>>

\* A refusal ends the session: the tokens go, then the identity.
RestoreRefused ==
    /\ launch = "me" /\ req[Restorer].phase = "idle" /\ req[Restorer].outcome = "unauthenticated"
    /\ Clear
    /\ launch' = "refused"
    /\ req' = [req EXCEPT ![Restorer] = Idle]
    /\ UNCHANGED <<chain, flight, app, session, identity, crossed>>

RestoreEnded ==
    /\ launch = "refused"
    /\ identity' = 0 /\ session' = 0
    /\ launch' = "over"
    /\ UNCHANGED <<chain, store, req, flight, app, crossed>>

Restoring == launch \in {"cache", "me", "refused"}

\* AuthService._authenticate from the login screen, which is there whenever no session is
\* published, and the token view that answers.
SignIn ==
    /\ app.phase = "ready" /\ session = 0 /\ launch # "launch"
    /\ app' = [app EXCEPT !.phase = "signing"]
    /\ UNCHANGED <<chain, store, req, flight, launch, session, identity, crossed>>

IssueTokens(k) ==
    /\ app.phase = "signing"
    /\ chain[k] = "unused" /\ \A j \in Chains : j < k => chain[j] # "unused"
    /\ chain' = [chain EXCEPT ![k] = "live"]
    /\ app' = [phase |-> "signed", chain |-> k]
    /\ UNCHANGED <<store, req, flight, launch, session, identity, crossed>>

SignInFails ==
    /\ app.phase \in {"signing", "signed"}
    /\ app' = Ready
    /\ UNCHANGED <<chain, store, req, flight, launch, session, identity, crossed>>

\* The tokens are stored before the session is published. A restoration still under way,
\* or the session it has published, is of whoever was signed in before; a refresh under
\* way will clear the store.
SaveTokens ==
    /\ app.phase = "signed"
    /\ Save(Token(app.chain))
    /\ app' = [app EXCEPT !.phase = "saved"]
    /\ crossed' = (crossed \/ Restoring \/ session # 0 \/ flight.phase # "none")
    /\ UNCHANGED <<chain, req, flight, launch, session, identity>>

Mut_Adopt_NotCached ==
    /\ app.phase = "saved"
    /\ session' = app.chain
    /\ app' = Ready
    /\ UNCHANGED <<chain, store, req, flight, launch, identity, crossed>>

Adopt ==
    /\ app.phase = "saved"
    /\ identity' = app.chain /\ session' = app.chain
    /\ app' = Ready
    /\ UNCHANGED <<chain, store, req, flight, launch, crossed>>

\* signOut: the tokens, then the identity and the session. The server is not told, and
\* a refresh under way will store its answer.
SignOut ==
    /\ app.phase = "ready" /\ session # 0
    /\ Clear
    /\ app' = [app EXCEPT !.phase = "leaving"]
    /\ crossed' = (crossed \/ Carrying)
    /\ UNCHANGED <<chain, req, flight, launch, session, identity>>

SignedOut ==
    /\ app.phase = "leaving"
    /\ identity' = 0 /\ session' = 0
    /\ app' = Ready
    /\ UNCHANGED <<chain, store, req, flight, launch, crossed>>

\* The process ends: memory, requests and the flight are gone, and the store is opened.
\* A sign-in cut short here leaves its tokens beside the identity cached before it.
Relaunch ==
    /\ launch # "launch"
    /\ disk' = AfterDrop(disk) /\ mem' = AfterDrop(disk) /\ access' = FALSE
    /\ req' = [c \in All |-> Idle]
    /\ flight' = NoFlight
    /\ launch' = "launch" /\ app' = Ready
    /\ session' = 0
    /\ crossed' = (crossed \/ (app.phase = "saved" /\ identity \notin {0, app.chain}))
    /\ UNCHANGED <<chain, identity>>

\* The last refresh token of a chain the device still has to do with runs out.
ChainExpires(k) ==
    /\ k \in {disk.chain, mem.chain, flight.token.chain}
    /\ chain[k] = "live"
    /\ chain' = [chain EXCEPT ![k] = "expired"]
    /\ UNCHANGED <<store, req, flight, launch, app, session, identity, crossed>>

RequestStep(c) ==
    \/ Answered(c) \/ NotRecoverable(c) \/ SecondRefusal(c) \/ Join(c) \/ StartRefresh(c)
    \/ NothingToRefresh(c) \/ Retry(c) \/ GiveUp(c)
FlightStep == EmptyCleared \/ Rotate \/ RefreshSaved \/ RefreshDenied \/ RefreshOffline
RestoreStep == Restore \/ CacheRead \/ Restored \/ RestoreRefused \/ RestoreEnded

Next ==
    \/ \E c \in Callers : Send(c)
    \/ \E c \in All : RequestStep(c)
    \/ FlightStep \/ RestoreStep
    \/ SignIn \/ SignInFails \/ SaveTokens \/ Adopt
    \/ SignOut \/ SignedOut \/ Relaunch
    \/ \E k \in Chains : IssueTokens(k) \/ ChainExpires(k)

Spec == Init /\ [][Next]_vars

\* Every request and every refresh ends, by an answer or by its timeout.
FairSpec == Spec /\ (\A c \in All : WF_vars(RequestStep(c))) /\ WF_vars(FlightStep)

----------------------------------------------------------------------------
(* Properties                                                               *)

\* D-B1: the device shows the server a blacklisted token only when the answer that
\* carried the next one was lost. Its own concurrency never does it: callers refused
\* together, across sign-outs, sign-ins and restarts, share one rotation.
NoSelfLockout == flight.phase = "posted" => flight.token.is # "stale"

\* C-7: a request is refreshed and replayed at most once, so it ends, however often
\* access tokens expire under it.
RequestsEnd == \A c \in All : req[c].phase # "idle" ~> req[c].phase = "idle"

\* FR-IAM-016: a refresh token the server would still accept leaves the keystore only
\* when the user signs out, a replayed request is refused again, or /auth/me is
\* refused. It never does because the server could not be reached; nor because a refresh
\* was denied, unless a user signed out under that refresh, or signed in while it, or the
\* restoration of an earlier session, was under way.
LiveTokenKept ==
    [][Live(disk) /\ disk' = NoToken /\ ~crossed
        => SignOut \/ RestoreRefused \/ \E c \in All : SecondRefusal(c)]_vars

OfSession(c) == req[c].of = session /\ (session # 0 \/ c = Restorer)
EndsUnauthenticated(c) ==
    \/ (NotRecoverable(c) \/ SecondRefusal(c)) /\ Failure(c) = "unauthenticated"
    \/ GiveUp(c) /\ Bare(c)

\* Unauthenticated stops the sync scheduler for good. Within one session, or while one is
\* restored, a request ends so while the stored token is still good only if the access token it presented
\* was refused, the answer to the refresh it waited for was lost, or it was a replay:
\* a device restored offline, whose first requests go out bare, is not stopped by them.
FinishedMeansFinished ==
    [][\A c \in All :
        EndsUnauthenticated(c) /\ OfSession(c) /\ Live(disk) /\ ~crossed
            => \/ req[c].phase = "invalid" /\ ~Bare(c)
               \/ req[c].phase = "lost" \/ req[c].retried]_vars

\* The stored token is the published session's, through refreshes, failed sign-ins,
\* restarts and offline unlocks, unless a user signed out under a refresh, signed in
\* while an earlier session was restored or a refresh was under way, or the process ended
\* between the two writes of a sign-in.
TokenIsTheSessions ==
    session # 0 /\ mem # NoToken /\ ~crossed => mem.chain = session
=============================================================================
