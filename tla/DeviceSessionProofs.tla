-------------------------- MODULE DeviceSessionProofs --------------------------
(****************************************************************************)
(* Proofs about DeviceSession, for any callers and any number of sign-ins,  *)
(* and about Identity, the server's side of signing in.                     *)
(****************************************************************************)
EXTENDS DeviceSession, Identity, FiniteSetTheorems, SequenceTheorems, TLAPS

\* The keystore and memory agree, and a blacklisted token is stored only while the
\* answer that replaces it is on its way.
Stored ==
    /\ disk = mem
    /\ disk.chain = 0 => disk = NoToken
    /\ disk # NoToken /\ disk.is = "stale"
        => flight.phase = "rotated" /\ flight.token.chain = disk.chain

\* What a flight carries: a token the device had no newer one for when it was posted,
\* the newest once rotated, one the server has no use for once denied.
Flying ==
    Carrying =>
        /\ flight.token.chain \in Chains
        /\ flight.phase = "posted" => flight.token.is # "stale"
        /\ flight.phase = "rotated" => flight.token.is = "fresh"
        /\ flight.phase = "denied" => ~Live(flight.token)

\* What each phase of the launch chain and of a sign-in allows.
AppInv ==
    /\ launch # "me" => req[Restorer].phase = "idle"
    /\ launch # "cadence" => req[Sync].phase = "idle"
    /\ launch = "launch" => /\ flight.phase = "none" /\ session = 0 /\ app = Ready
                            /\ \A c \in All : req[c].phase = "idle"
    /\ session # 0 => identity = session
    /\ app.phase \in {"signed", "saved"} => app.chain \in Chains
    /\ app.phase = "signed" =>
            /\ app.chain \notin {session, identity, disk.chain, flight.token.chain}
            /\ \A c \in All : req[c].of # app.chain /\ req[c].as # app.chain
    /\ \A c \in Callers \ {Sync} : req[c].phase # "idle" => req[c].of # 0
    /\ req[Restorer].of = 0
    /\ req[Restorer].outcome = "ok" => req[Restorer].as # 0

\* Nothing on the device has to do with a chain the server has not minted.
UnusedInv ==
    \A k \in Chains : chain[k] = "unused" =>
        /\ disk.chain # k /\ flight.token.chain # k /\ session # k /\ identity # k
        /\ app.chain # k
        /\ \A c \in All : req[c].of # k /\ req[c].as # k

\* The launch chain has not settled whose device this is.
Unsettled == launch \in {"launch", "cache", "me", "refused"}

\* One user at a time: unless a change of user was cut short or overtaken, the flight, the
\* store, the session, the restorer's request and the cached identity are of one chain.
CrossInv ==
    ~crossed =>
        /\ Carrying =>
            /\ mem # NoToken => mem.chain = flight.token.chain
            /\ flight.phase \in {"posted", "denied"} => disk \in {flight.token, NoToken}
            /\ session # 0 => flight.token.chain = session
            /\ session = 0 => app.phase = "saved" \/ launch = "me"
            /\ app.phase = "saved" => flight.token.chain = app.chain
            /\ Unsettled => launch = "me" /\ req[Restorer].phase = "waiting" /\ mem # NoToken
        /\ flight.phase = "empty" => mem = NoToken
        /\ Unsettled => /\ session = 0 /\ app.phase \notin {"saved", "leaving"}
                        /\ \A c \in Callers : req[c].phase = "idle"
        /\ launch = "me" /\ mem # NoToken /\ req[Restorer].as # 0 => req[Restorer].as = mem.chain
        /\ app.phase = "saved" =>
            /\ mem # NoToken => mem.chain = app.chain
            /\ session = 0
            /\ \A c \in All : req[c].of # app.chain
        /\ session # 0 /\ mem # NoToken => mem.chain = session
        /\ app.phase \in {"ready", "signing", "signed"} /\ session = 0 /\ mem # NoToken
            => launch # "cadence" /\ \A c \in Callers : req[c].phase = "idle"
        /\ app.phase = "leaving" => mem = NoToken /\ ~Carrying
        /\ identity # 0 /\ disk # NoToken /\ app.phase # "saved" => identity = disk.chain
        /\ \A c \in All : req[c].phase = "refused" /\ OfSession(c) => disk = NoToken /\ ~Carrying

\* The inductive invariant.
IInv == TypeOK /\ Stored /\ Flying /\ AppInv /\ UnusedInv /\ CrossInv

----------------------------------------------------------------------------
(* Types of the requests                                                    *)

\* An idle request is a request.
LEMMA IdleTyped == Idle \in Requests
  BY DEF Idle, Requests

\* A request that is sent is a request, and speaks for the token in memory or for nobody.
LEMMA SentTyped ==
    ASSUME TypeOK, NEW c \in All, NEW of \in {0} \cup Chains, NEW retried \in BOOLEAN,
           Sent(c, of, retried)
    PROVE  /\ req' \in [All -> Requests]
           /\ \A d \in All : d # c => req'[d] = req[d]
           /\ req'[c].phase = "sent" /\ req'[c].of = of /\ req'[c].outcome = "none"
           /\ req'[c].as \in {0, mem.chain}
  <1> DEFINE r(k) == [phase |-> "sent", of |-> of, as |-> k, retried |-> retried, outcome |-> "none"]
             k0 == IF access THEN mem.chain ELSE 0
  <1>1. k0 \in {0, mem.chain} /\ k0 \in {0} \cup Chains
    BY DEF TypeOK, Tokens
  <1>2. \A k \in {0} \cup Chains : r(k) \in Requests
    BY DEF Requests
  <1>3. req' = [req EXCEPT ![c] = r(k0)]
    BY DEF Sent
  <1>4. r(k0).phase = "sent" /\ r(k0).of = of /\ r(k0).outcome = "none" /\ r(k0).as = k0
    OBVIOUS
  <1>5. r(k0) \in Requests
    BY <1>1, <1>2
  <1> HIDE DEF r, k0
  <1>6. req'[c] = r(k0) /\ \A d \in All : d # c => req'[d] = req[d]
    BY <1>3 DEF TypeOK
  <1>7. req' \in [All -> Requests]
    BY <1>3, <1>5 DEF TypeOK
  <1> QED BY <1>1, <1>4, <1>6, <1>7

\* A request that ends is idle, and the launch chain goes on unless it was the cadence's.
LEMMA EndsTyped ==
    ASSUME TypeOK, NEW c \in All, NEW outcome \in {"ok", "failed", "unauthenticated"}, Ends(c, outcome)
    PROVE  /\ req' \in [All -> Requests]
           /\ \A d \in All : d # c => req'[d] = req[d]
           /\ req'[c].phase = "idle" /\ req'[c].of = 0 /\ req'[c].as \in {0, req[c].as}
           /\ req'[c].outcome = "ok" => outcome = "ok" /\ req'[c].as = req[c].as
           /\ launch' = launch \/ (c = Sync /\ launch' = "over")
  <1> DEFINE r == IF c = Restorer THEN [Idle EXCEPT !.as = req[c].as, !.outcome = outcome] ELSE Idle
  <1>1. r \in Requests /\ r.phase = "idle" /\ r.of = 0 /\ r.as \in {0, req[c].as}
    BY IdleTyped DEF TypeOK, Requests, Idle
  <1>2. r.outcome = "ok" => outcome = "ok" /\ r.as = req[c].as
    BY DEF Idle
  <1>3. req' = [req EXCEPT ![c] = r]
    BY DEF Ends
  <1> HIDE DEF r
  <1>4. req'[c] = r /\ \A d \in All : d # c => req'[d] = req[d]
    BY <1>3 DEF TypeOK
  <1>5. req' \in [All -> Requests]
    BY <1>1, <1>3 DEF TypeOK
  <1>6. launch' = launch \/ (c = Sync /\ launch' = "over")
    BY DEF Ends
  <1> QED BY <1>1, <1>2, <1>4, <1>5, <1>6

\* So is one that changes phase ...
LEMMA PhaseTyped ==
    ASSUME TypeOK, NEW c \in All, NEW phase \in {"expired", "invalid", "waiting", "refused"},
           req' = [req EXCEPT ![c].phase = phase]
    PROVE  req' \in [All -> Requests]
  BY DEF TypeOK, Requests

\* ... and all those a flight that lands lets go on.
LEMMA LandsTyped ==
    ASSUME TypeOK, NEW how \in {"refreshed", "refused", "lost"}, Lands(how)
    PROVE  req' \in [All -> Requests]
  BY DEF TypeOK, Requests, Lands

----------------------------------------------------------------------------
(* Every action keeps the inductive invariant                               *)

\* A request moves on to a phase that asks nothing of the rest, under the session it was
\* first sent under; nothing else changes.
LEMMA MoveKeeps ==
    ASSUME IInv, NEW c \in All,
           req' \in [All -> Requests], \A d \in All : d # c => req'[d] = req[d],
           req'[c].phase \in {"sent", "expired", "invalid", "waiting"},
           req'[c].of = req[c].of, req'[c].as \in {0, mem.chain, req[c].as},
           req'[c].outcome = "none" \/ (req'[c].outcome = req[c].outcome /\ req'[c].as = req[c].as),
           req[c].phase \notin {"idle", "waiting"},
           UNCHANGED <<chain, disk, mem, access, flight, launch, app, session, identity, crossed>>
    PROVE  IInv'
  <1> USE SessionAssumption DEF IInv, Tokens, NoToken, Chains, All, Carrying, Unsettled
  <1>1. TypeOK'
    BY DEF TypeOK
  <1>2. Stored' /\ Flying'
    BY DEF Stored, Flying, Live
  <1>3. req'[c].as # 0 => req'[c].as \in {mem.chain, req[c].as}
    OBVIOUS
  <1>4. AppInv'
    <2>1. app.phase = "signed" =>
            \A d \in All : req'[d].of # app.chain /\ req'[d].as # app.chain
      BY <1>3 DEF AppInv, Stored, TypeOK
    <2>2. /\ launch # "me" => req'[Restorer].phase = "idle"
          /\ launch # "cadence" => req'[Sync].phase = "idle"
          /\ launch = "launch" => \A d \in All : req'[d].phase = "idle"
      BY DEF AppInv
    <2>3. /\ \A d \in Callers \ {Sync} : req'[d].phase # "idle" => req'[d].of # 0
          /\ req'[Restorer].of = 0
          /\ req'[Restorer].outcome = "ok" => req'[Restorer].as # 0
      BY DEF AppInv
    <2> QED BY <2>1, <2>2, <2>3 DEF AppInv
  <1>5. UnusedInv'
    <2>1. \A k \in Chains : chain[k] = "unused" =>
            \A d \in All : req'[d].of # k /\ req'[d].as # k
      BY <1>3 DEF UnusedInv, Stored, TypeOK
    <2> QED BY <2>1 DEF UnusedInv
  <1>6. ASSUME ~crossed PROVE CrossInv'
    <2>1. Carrying /\ Unsettled => req'[Restorer] = req[Restorer]
      BY <1>6 DEF CrossInv
    <2>2. Unsettled => \A d \in Callers : req'[d].phase = "idle"
      BY <1>6 DEF CrossInv
    <2>3. launch = "me" /\ mem # NoToken /\ req'[Restorer].as # 0 => req'[Restorer].as = mem.chain
      BY <1>3, <1>6 DEF CrossInv
    <2>4. app.phase = "saved" => \A d \in All : req'[d].of # app.chain
      BY <1>6 DEF CrossInv
    <2>5. app.phase \in {"ready", "signing", "signed"} /\ session = 0 /\ mem # NoToken
            => \A d \in Callers : req'[d].phase = "idle"
      BY <1>6 DEF CrossInv
    <2>6. \A d \in All : req'[d].phase = "refused" /\ OfSession(d)' => disk = NoToken /\ ~Carrying
      BY <1>6 DEF CrossInv, OfSession
    <2> QED BY <1>6, <2>1, <2>2, <2>3, <2>4, <2>5, <2>6 DEF CrossInv
  <1>7. CrossInv'
    BY <1>6 DEF CrossInv
  <1> QED BY <1>1, <1>2, <1>4, <1>5, <1>7

\* A request ends and the rest, the launch chain apart, stays.
LEMMA EndKeeps ==
    ASSUME IInv, NEW c \in All, NEW outcome \in {"ok", "failed", "unauthenticated"},
           Ends(c, outcome), outcome = "ok" => ~Bare(c), req[c].phase \notin {"idle", "waiting"},
           UNCHANGED <<chain, flight, app, session, identity, crossed>>,
           UNCHANGED <<disk, mem, access>> \/ Clear
    PROVE  IInv'
  <1> USE SessionAssumption DEF IInv, Tokens, NoToken, Chains, All, Carrying, Unsettled
  <1>0. /\ req' \in [All -> Requests]
        /\ \A d \in All : d # c => req'[d] = req[d]
        /\ req'[c].phase = "idle" /\ req'[c].of = 0 /\ req'[c].as \in {0, req[c].as}
        /\ req'[c].outcome = "ok" => outcome = "ok" /\ req'[c].as = req[c].as
        /\ launch' = launch \/ (c = Sync /\ launch' = "over")
    BY EndsTyped
  <1>s. /\ disk' = mem' /\ (mem' = mem \/ mem' = NoToken)
        /\ mem' # NoToken => mem' = mem
        /\ disk' # NoToken => disk' = disk
    BY DEF Clear, Stored
  <1>l. launch' # launch => launch = "cadence" /\ launch' = "over" /\ c = Sync
    BY <1>0 DEF AppInv
  <1>1. TypeOK'
    <2>1. disk' \in Tokens /\ mem' \in Tokens
      BY DEF TypeOK, Clear
    <2>2. access' \in BOOLEAN
      BY DEF TypeOK, Clear
    <2>3. launch' \in {"launch", "cache", "me", "refused", "cadence", "over"}
      BY <1>0 DEF TypeOK
    <2> QED BY <1>0, <2>1, <2>2, <2>3 DEF TypeOK
  <1>2. Stored'
    BY <1>s DEF Stored
  <1>3. Flying'
    BY DEF Flying, Live
  <1>4. AppInv'
    <2>1. app.phase = "signed" =>
            /\ app.chain # disk'.chain
            /\ \A d \in All : req'[d].of # app.chain /\ req'[d].as # app.chain
      BY <1>0, <1>s DEF AppInv, TypeOK
    <2>2. /\ launch' # "me" => req'[Restorer].phase = "idle"
          /\ launch' # "cadence" => req'[Sync].phase = "idle"
          /\ launch' = "launch" => launch = "launch" /\ \A d \in All : req'[d].phase = "idle"
      BY <1>0, <1>l DEF AppInv
    <2>3. /\ \A d \in Callers \ {Sync} : req'[d].phase # "idle" => req'[d].of # 0
          /\ req'[Restorer].of = 0
          /\ req'[Restorer].outcome = "ok" => req'[Restorer].as # 0
      BY <1>0 DEF AppInv, Bare
    <2> QED BY <2>1, <2>2, <2>3 DEF AppInv
  <1>5. UnusedInv'
    <2>1. \A k \in Chains : chain[k] = "unused" =>
            disk'.chain # k /\ \A d \in All : req'[d].of # k /\ req'[d].as # k
      BY <1>0, <1>s DEF UnusedInv
    <2> QED BY <2>1 DEF UnusedInv
  <1>6. ASSUME ~crossed PROVE CrossInv'
    <2>0. Unsettled' <=> Unsettled
      BY <1>l
    <2>1. Carrying /\ Unsettled => req'[Restorer] = req[Restorer] /\ c # Restorer /\ c \notin Callers
      BY <1>0, <1>6 DEF CrossInv
    <2>2. Unsettled => \A d \in Callers : req'[d].phase = "idle"
      BY <1>0, <1>6 DEF CrossInv
    <2>3. launch' = "me" /\ mem' # NoToken /\ req'[Restorer].as # 0 => req'[Restorer].as = mem'.chain
      BY <1>0, <1>s, <1>l, <1>6 DEF CrossInv
    <2>4. app.phase = "saved" => \A d \in All : req'[d].of # app.chain
      BY <1>0, <1>6 DEF CrossInv, AppInv
    <2>5. app.phase \in {"ready", "signing", "signed"} /\ session = 0 /\ mem' # NoToken
            => launch' # "cadence" /\ \A d \in Callers : req'[d].phase = "idle"
      BY <1>0, <1>s, <1>l, <1>6 DEF CrossInv
    <2>6. \A d \in All : req'[d].phase = "refused" /\ OfSession(d)' => disk' = NoToken /\ ~Carrying
      BY <1>0, <1>s, <1>6 DEF CrossInv, OfSession, Stored
    <2>7. Carrying' =>
            /\ mem' # NoToken => mem'.chain = flight.token.chain
            /\ flight.phase \in {"posted", "denied"} => disk' \in {flight.token, NoToken}
            /\ session # 0 => flight.token.chain = session
            /\ session = 0 => app.phase = "saved" \/ launch' = "me"
            /\ app.phase = "saved" => flight.token.chain = app.chain
            /\ ~Unsettled'
      BY <1>s, <1>l, <1>6, <2>0, <2>1 DEF CrossInv
    <2>8. /\ flight.phase = "empty" => mem' = NoToken
          /\ Unsettled' => session = 0 /\ app.phase \notin {"saved", "leaving"}
          /\ app.phase = "saved" => session = 0 /\ (mem' # NoToken => mem'.chain = app.chain)
          /\ session # 0 /\ mem' # NoToken => mem'.chain = session
          /\ app.phase = "leaving" => mem' = NoToken /\ ~Carrying
          /\ identity # 0 /\ disk' # NoToken /\ app.phase # "saved" => identity = disk'.chain
      BY <1>s, <1>6, <2>0 DEF CrossInv
    <2> QED BY <1>6, <2>0, <2>2, <2>3, <2>4, <2>5, <2>6, <2>7, <2>8 DEF CrossInv
  <1>7. CrossInv'
    BY <1>6 DEF CrossInv
  <1> QED BY <1>1, <1>2, <1>3, <1>4, <1>5, <1>7

\* Send: a request under the published session, or the cadence's under none.
LEMMA SendKeeps ==
    ASSUME NEW c \in Callers, IInv, Send(c)
    PROVE  IInv'
  <1> USE SessionAssumption DEF IInv, Tokens, NoToken, Chains, All, Carrying, Unsettled
  <1>0. /\ req' \in [All -> Requests]
        /\ \A d \in All : d # c => req'[d] = req[d]
        /\ req'[c].phase = "sent" /\ req'[c].of = session /\ req'[c].outcome = "none"
        /\ req'[c].as \in {0, mem.chain}
    BY SentTyped DEF Send, TypeOK
  <1>b. UNCHANGED <<chain, disk, mem, access, flight, launch, app, session, identity, crossed>>
    BY DEF Send, store
  <1>c. (c = Sync /\ launch = "cadence") \/ (c # Sync /\ session # 0)
    BY DEF Send
  <1>1. TypeOK'
    BY <1>0, <1>b DEF TypeOK
  <1>2. Stored' /\ Flying'
    BY <1>b DEF Stored, Flying, Live
  <1>3. req'[c].as # 0 => req'[c].as = mem.chain
    BY <1>0
  <1>4. AppInv'
    <2>1. app.phase = "signed" =>
            \A d \in All : req'[d].of # app.chain /\ req'[d].as # app.chain
      BY <1>0, <1>3 DEF AppInv, Stored, TypeOK
    <2>2. /\ launch # "me" => req'[Restorer].phase = "idle"
          /\ launch # "cadence" => req'[Sync].phase = "idle"
          /\ launch # "launch"
      BY <1>0, <1>c DEF AppInv
    <2>3. /\ \A d \in Callers \ {Sync} : req'[d].phase # "idle" => req'[d].of # 0
          /\ req'[Restorer].of = 0
          /\ req'[Restorer].outcome = "ok" => req'[Restorer].as # 0
      BY <1>0, <1>c DEF AppInv
    <2> QED BY <1>b, <2>1, <2>2, <2>3 DEF AppInv
  <1>5. UnusedInv'
    <2>0. \A k \in Chains : chain[k] = "unused" => session # k /\ mem.chain # k /\ k # 0
      BY DEF UnusedInv, Stored
    <2>1. \A k \in Chains : chain[k] = "unused" =>
            \A d \in All : req'[d].of # k /\ req'[d].as # k
      BY <1>0, <1>3, <2>0 DEF UnusedInv
    <2> QED BY <1>b, <2>1 DEF UnusedInv
  <1>6. ASSUME ~crossed PROVE CrossInv'
    <2>1. ~Unsettled /\ req'[Restorer] = req[Restorer]
      BY <1>0, <1>c, <1>6 DEF CrossInv
    <2>2. app.phase = "saved" => \A d \in All : req'[d].of # app.chain
      BY <1>0, <1>6 DEF CrossInv, AppInv
    <2>3. app.phase \in {"ready", "signing", "signed"} /\ session = 0 => mem = NoToken
      BY <1>c, <1>6 DEF CrossInv
    <2>4. \A d \in All : req'[d].phase = "refused" /\ OfSession(d)' => disk = NoToken /\ ~Carrying
      BY <1>0, <1>b, <1>6 DEF CrossInv, OfSession
    <2> QED BY <1>b, <1>6, <2>1, <2>2, <2>3, <2>4 DEF CrossInv
  <1>7. CrossInv'
    BY <1>6, <1>b DEF CrossInv
  <1> QED BY <1>1, <1>2, <1>4, <1>5, <1>7

\* Answered: the request is refused, or ends.
LEMMA AnsweredKeeps ==
    ASSUME NEW c \in All, IInv, Answered(c)
    PROVE  IInv'
  <1>1. req[c].phase = "sent"
        /\ UNCHANGED <<chain, disk, mem, access, flight, app, session, identity, crossed>>
    BY DEF Answered, store
  <1>2. ASSUME NEW p \in {"expired", "invalid"}, req' = [req EXCEPT ![c].phase = p], UNCHANGED launch
        PROVE  IInv'
    <2>1. /\ req' \in [All -> Requests]
          /\ req'[c].phase = p /\ req'[c].of = req[c].of
          /\ req'[c].as = req[c].as /\ req'[c].outcome = req[c].outcome
          /\ \A d \in All : d # c => req'[d] = req[d]
      BY <1>2, PhaseTyped DEF IInv, TypeOK, Requests
    <2> QED BY <1>1, <1>2, <2>1, MoveKeeps
  <1>3. ASSUME ~Bare(c), Ends(c, "ok") PROVE IInv'
    BY <1>1, <1>3, EndKeeps
  <1>4. ASSUME Ends(c, "failed") PROVE IInv'
    BY <1>1, <1>4, EndKeeps
  <1> QED BY <1>2, <1>3, <1>4 DEF Answered

\* NotRecoverable: the request ends.
LEMMA NotRecoverableKeeps ==
    ASSUME NEW c \in All, IInv, NotRecoverable(c)
    PROVE  IInv'
  <1>1. /\ Failure(c) \in {"failed", "unauthenticated"}
        /\ Ends(c, Failure(c)) /\ req[c].phase \notin {"idle", "waiting"}
        /\ UNCHANGED <<chain, disk, mem, access, flight, app, session, identity, crossed>>
    BY DEF NotRecoverable, Failure, store
  <1> QED BY <1>1, EndKeeps

\* SecondRefusal: the store is emptied; a flight may still be under way.
LEMMA SecondRefusalKeeps ==
    ASSUME NEW c \in All, IInv, SecondRefusal(c)
    PROVE  IInv'
  <1>1. /\ Failure(c) \in {"failed", "unauthenticated"}
        /\ Ends(c, Failure(c)) /\ req[c].phase \notin {"idle", "waiting"}
        /\ Clear
        /\ UNCHANGED <<chain, flight, app, session, identity, crossed>>
    BY DEF SecondRefusal, Recoverable, Failure
  <1> QED BY <1>1, EndKeeps

\* GiveUp: the request ends.
LEMMA GiveUpKeeps ==
    ASSUME NEW c \in All, IInv, GiveUp(c)
    PROVE  IInv'
  <1> DEFINE outcome == IF Bare(c) THEN "unauthenticated" ELSE "failed"
  <1>1. /\ outcome \in {"failed", "unauthenticated"}
        /\ Ends(c, outcome) /\ req[c].phase \notin {"idle", "waiting"}
        /\ UNCHANGED <<chain, disk, mem, access, flight, app, session, identity, crossed>>
    BY DEF GiveUp, store
  <1> QED BY <1>1, EndKeeps

\* Retry: the request keeps the session it was first sent under.
LEMMA RetryKeeps ==
    ASSUME NEW c \in All, IInv, Retry(c)
    PROVE  IInv'
  <1>1. req[c].of \in {0} \cup Chains /\ req[c].phase = "refreshed"
    BY DEF IInv, TypeOK, Requests, Retry
  <1>2. /\ req' \in [All -> Requests]
        /\ \A d \in All : d # c => req'[d] = req[d]
        /\ req'[c].phase = "sent" /\ req'[c].of = req[c].of /\ req'[c].outcome = "none"
        /\ req'[c].as \in {0, mem.chain}
    BY <1>1, SentTyped DEF IInv, Retry
  <1>3. UNCHANGED <<chain, disk, mem, access, flight, launch, app, session, identity, crossed>>
    BY DEF Retry, store
  <1> QED BY <1>1, <1>2, <1>3, MoveKeeps

\* Join: the request waits for the flight under way.
LEMMA JoinKeeps ==
    ASSUME NEW c \in All, IInv, Join(c)
    PROVE  IInv'
  <1>1. /\ req' = [req EXCEPT ![c].phase = "waiting"] /\ req[c].phase \in {"expired", "invalid"}
        /\ UNCHANGED <<chain, disk, mem, access, flight, launch, app, session, identity, crossed>>
    BY DEF Join, MayRefresh, Recoverable, store
  <1>2. /\ req' \in [All -> Requests]
        /\ req'[c].phase = "waiting" /\ req'[c].of = req[c].of
        /\ req'[c].as = req[c].as /\ req'[c].outcome = req[c].outcome
        /\ \A d \in All : d # c => req'[d] = req[d]
    BY <1>1, PhaseTyped DEF IInv, TypeOK, Requests
  <1> QED BY <1>1, <1>2, MoveKeeps

\* What a flight that lands does to the requests.
LEMMA LandsOnly ==
    ASSUME TypeOK, NEW how \in {"refreshed", "refused", "lost"}, Lands(how)
    PROVE  /\ flight' = NoFlight
           /\ req' \in [All -> Requests]
           /\ \A d \in All :
                /\ req'[d].of = req[d].of /\ req'[d].as = req[d].as
                /\ req'[d].outcome = req[d].outcome
                /\ req[d].phase = "waiting" => req'[d].phase = how
                /\ req[d].phase # "waiting" => req'[d].phase = req[d].phase
  <1>1. \A d \in All : req'[d] = IF Waiting(d) THEN [req[d] EXCEPT !.phase = how] ELSE req[d]
    BY DEF Lands
  <1>2. \A d \in All : req[d] \in Requests
    BY DEF TypeOK
  <1>3. \A d \in All : /\ req'[d].of = req[d].of /\ req'[d].as = req[d].as
                       /\ req'[d].outcome = req[d].outcome
    BY <1>1, <1>2 DEF Requests
  <1>4. \A d \in All : /\ req[d].phase = "waiting" => req'[d].phase = how
                       /\ req[d].phase # "waiting" => req'[d].phase = req[d].phase
    BY <1>1, <1>2 DEF Requests, Waiting
  <1> QED BY <1>3, <1>4, LandsTyped DEF Lands

\* A flight that lands on a store it has emptied.
LEMMA ClearedLanding ==
    ASSUME IInv, Lands("refused"), Clear, UNCHANGED <<chain, launch, app, session, identity, crossed>>
    PROVE  IInv'
  <1> USE SessionAssumption DEF IInv, Tokens, NoToken, Chains, All, Carrying, Unsettled
  <1>0. /\ flight'.phase = "none" /\ flight'.token = NoToken
        /\ req' \in [All -> Requests] /\ flight' = NoFlight
    BY LandsOnly DEF NoFlight
  <1>a. \A d \in All : /\ req'[d].of = req[d].of /\ req'[d].as = req[d].as
                       /\ req'[d].outcome = req[d].outcome
                       /\ req'[d].phase \in {req[d].phase, "refused"}
                       /\ req[d].phase = "idle" => req'[d].phase = "idle"
                       /\ req'[d].phase = "idle" => req[d].phase = "idle"
    BY LandsOnly
  <1>b. disk' = NoToken /\ mem' = NoToken /\ access' = FALSE
    BY DEF Clear
  <1>1. TypeOK'
    BY <1>b, <1>0 DEF TypeOK, NoFlight
  <1>2. Stored' /\ Flying'
    BY <1>0, <1>b DEF Stored, Flying
  <1>4. AppInv'
    <2>1. app.phase = "signed" => app.chain \notin {session, identity, disk'.chain, flight'.token.chain}
      BY <1>0, <1>a, <1>b DEF AppInv
    <2>2. \A d \in All : req[d].phase # "idle" <=> req'[d].phase # "idle"
      BY <1>a
    <2> QED BY <1>0, <1>a, <1>b, <2>1, <2>2 DEF AppInv
  <1>5. UnusedInv'
    BY <1>0, <1>a, <1>b DEF UnusedInv
  <1>6. CrossInv'
    BY <1>0, <1>a, <1>b DEF CrossInv
  <1> QED BY <1>1, <1>2, <1>4, <1>5, <1>6

\* StartRefresh: the token in memory is the one on disk, and is not stale while no flight is.
LEMMA StartRefreshKeeps ==
    ASSUME NEW c \in All, IInv, StartRefresh(c)
    PROVE  IInv'
  <1> USE SessionAssumption DEF IInv, Tokens, NoToken, Chains, All, Carrying, Unsettled
  <1>0. /\ req' \in [All -> Requests]
        /\ req'[c].phase = "waiting" /\ req'[c].of = req[c].of
        /\ req'[c].as = req[c].as /\ req'[c].outcome = req[c].outcome
        /\ \A d \in All : d # c => req'[d] = req[d]
        /\ req[c].phase \in {"expired", "invalid"}
    <2>1. req' = [req EXCEPT ![c].phase = "waiting"]
      BY DEF StartRefresh
    <2>2. req' \in [All -> Requests]
      BY <2>1, PhaseTyped
    <2>3. req[c].phase \in {"expired", "invalid"}
      BY DEF StartRefresh, MayRefresh, Recoverable
    <2> QED BY <2>1, <2>2, <2>3 DEF TypeOK, Requests
  <1>b. /\ mem # NoToken /\ flight.phase = "none" /\ flight' = [phase |-> "posted", token |-> mem]
        /\ UNCHANGED <<chain, disk, mem, access, launch, app, session, identity, crossed>>
    BY DEF StartRefresh, store
  <1>1. TypeOK'
    BY <1>0, <1>b DEF TypeOK
  <1>2. Stored' /\ Flying'
    BY <1>b DEF TypeOK, Stored, Flying
  <1>4. AppInv'
    BY <1>0, <1>b DEF AppInv, Stored
  <1>5. UnusedInv'
    BY <1>0, <1>b DEF Stored, UnusedInv
  <1>6. ASSUME ~crossed PROVE CrossInv'
    <2>1. /\ session = 0 => app.phase = "saved" \/ launch = "me"
          /\ Unsettled => launch = "me" /\ c = Restorer
          /\ app.phase # "leaving"
      BY <1>0, <1>b, <1>6 DEF CrossInv, AppInv, TypeOK
    <2>2. \A d \in All : ~(req'[d].phase = "refused" /\ OfSession(d)')
      BY <1>0, <1>b, <1>6 DEF CrossInv, OfSession, Stored
    <2>3. /\ Unsettled => \A d \in Callers : req'[d].phase = "idle"
          /\ app.phase \in {"ready", "signing", "signed"} /\ session = 0 
                => launch # "cadence" /\ \A d \in Callers : req'[d].phase = "idle"
          /\ app.phase = "saved" => \A d \in All : req'[d].of # app.chain
      BY <1>0, <1>b, <1>6 DEF CrossInv
    <2>4. launch = "me" /\ req'[Restorer].as # 0 => req'[Restorer].as = mem.chain
      BY <1>0, <1>b, <1>6 DEF CrossInv
    <2> QED BY <1>0, <1>b, <1>6, <2>1, <2>2, <2>3, <2>4 DEF CrossInv, Stored
  <1>7. CrossInv'
    BY <1>6, <1>b DEF CrossInv
  <1> QED BY <1>1, <1>2, <1>4, <1>5, <1>7

\* NothingToRefresh: the store is empty, and the flight will leave it so.
LEMMA NothingToRefreshKeeps ==
    ASSUME NEW c \in All, IInv, NothingToRefresh(c)
    PROVE  IInv'
  <1> USE SessionAssumption DEF IInv, Tokens, NoToken, Chains, All, Carrying, Unsettled
  <1>0. /\ req' \in [All -> Requests]
        /\ req'[c].phase = "waiting" /\ req'[c].of = req[c].of
        /\ req'[c].as = req[c].as /\ req'[c].outcome = req[c].outcome
        /\ \A d \in All : d # c => req'[d] = req[d]
        /\ req[c].phase \in {"expired", "invalid"}
    <2>1. req' = [req EXCEPT ![c].phase = "waiting"]
      BY DEF NothingToRefresh
    <2>2. req' \in [All -> Requests]
      BY <2>1, PhaseTyped
    <2>3. req[c].phase \in {"expired", "invalid"}
      BY DEF NothingToRefresh, MayRefresh, Recoverable
    <2> QED BY <2>1, <2>2, <2>3 DEF TypeOK, Requests
  <1>b. /\ mem = NoToken /\ flight.phase = "none"
        /\ flight' = [phase |-> "empty", token |-> NoToken]
        /\ UNCHANGED <<chain, disk, mem, access, launch, app, session, identity, crossed>>
    BY DEF NothingToRefresh, store
  <1>1. TypeOK'
    BY <1>0, <1>b DEF TypeOK
  <1>2. Stored' /\ Flying'
    BY <1>b DEF Stored, Flying
  <1>4. AppInv'
    <2>1. app.phase = "signed" => app.chain # flight'.token.chain
      BY <1>b DEF AppInv, TypeOK
    <2> QED BY <1>0, <1>b, <2>1 DEF AppInv
  <1>5. UnusedInv'
    BY <1>0, <1>b DEF UnusedInv
  <1>6. CrossInv'
    BY <1>0, <1>b DEF CrossInv, OfSession, AppInv
  <1> QED BY <1>1, <1>2, <1>4, <1>5, <1>6

\* EmptyCleared: the store is emptied before the waiting callers resume.
LEMMA EmptyClearedKeeps ==
    ASSUME IInv, EmptyCleared
    PROVE  IInv'
  <1> USE SessionAssumption DEF IInv, Tokens, NoToken, Chains, All, Carrying, Unsettled
  <1>1. Lands("refused") /\ Clear /\ UNCHANGED <<chain, launch, app, session, identity, crossed>>
    BY DEF EmptyCleared
  <1> QED BY <1>1, ClearedLanding

\* Rotate: a stored token that goes stale is the rotated flight's predecessor.
LEMMA RotateKeeps ==
    ASSUME IInv, Rotate
    PROVE  IInv'
  <1> USE SessionAssumption DEF IInv, Tokens, NoToken, Chains, All, Carrying, Unsettled
  <1>0. /\ flight.phase = "posted" /\ flight'.token = flight.token
        /\ flight'.phase \in {"rotated", "denied"}
        /\ UNCHANGED <<chain, access, req, launch, app, session, identity, crossed>>
    BY DEF TypeOK, Rotate
  <1>a. /\ disk' \in Tokens /\ disk'.chain = disk.chain
        /\ mem' \in Tokens /\ mem'.chain = mem.chain
    BY DEF TypeOK, Rotate, Becomes
  <1>b. /\ disk' = mem' /\ (disk' = NoToken <=> disk = NoToken)
        /\ disk' # disk => /\ disk = [chain |-> flight.token.chain, is |-> "fresh"]
                           /\ flight'.phase = "rotated"
    BY DEF TypeOK, Stored, Flying, Rotate, Becomes
  <1>c. /\ flight'.phase = "rotated" => Live(flight.token)
        /\ flight'.phase = "denied" => ~Live(flight.token) /\ disk' = disk
    BY DEF TypeOK, Rotate
  <1>1. TypeOK'
    <2>1. flight' \in [phase : {"none", "empty", "posted", "rotated", "denied"}, token : Tokens]
      BY DEF TypeOK, Rotate
    <2> QED BY <1>0, <1>a, <2>1 DEF TypeOK
  <1>2. Stored'
    BY DEF TypeOK, Stored, Rotate, Becomes
  <1>3. Flying'
    BY DEF TypeOK, Flying, Rotate, Becomes, Live
  <1>4. AppInv'
    BY <1>0, <1>a DEF AppInv
  <1>5. UnusedInv'
    BY <1>0, <1>a DEF UnusedInv
  <1>6. CrossInv'
    BY <1>0, <1>a, <1>b, <1>c DEF CrossInv, OfSession, Stored
  <1> QED BY <1>1, <1>2, <1>3, <1>4, <1>5, <1>6

\* RefreshSaved: the successor replaces the stale token, on disk and in memory.
LEMMA RefreshSavedKeeps ==
    ASSUME IInv, RefreshSaved
    PROVE  IInv'
  <1> USE SessionAssumption DEF IInv, Tokens, NoToken, Chains, All, Carrying, Unsettled
  <1>l. Lands("refreshed")
    BY DEF RefreshSaved
  <1>0. /\ flight'.phase = "none" /\ flight'.token = NoToken
        /\ req' \in [All -> Requests] /\ flight' = NoFlight
    BY <1>l, LandsOnly DEF NoFlight
  <1>a. \A d \in All : /\ req'[d].of = req[d].of /\ req'[d].as = req[d].as
                       /\ req'[d].outcome = req[d].outcome
                       /\ req'[d].phase \in {req[d].phase, "refreshed"}
                       /\ req[d].phase = "idle" => req'[d].phase = "idle"
                       /\ req'[d].phase = "idle" => req[d].phase = "idle"
    BY <1>l, LandsOnly
  <1>b. /\ flight.phase = "rotated" /\ flight.token.chain \in Chains /\ flight.token.is = "fresh"
        /\ disk' = flight.token /\ mem' = flight.token /\ access' = TRUE
        /\ UNCHANGED <<chain, launch, app, session, identity, crossed>>
    BY DEF RefreshSaved, Save, Flying
  <1>c. flight.token # NoToken /\ flight.token \in Tokens
    BY <1>b DEF TypeOK
  <1>1. TypeOK'
    BY <1>0, <1>b, <1>c DEF TypeOK, NoFlight
  <1>2. Stored' /\ Flying'
    BY <1>0, <1>b, <1>c DEF Stored, Flying
  <1>4. AppInv'
    <2>1. app.phase = "signed" => app.chain \notin {session, identity, disk'.chain, flight'.token.chain}
      BY <1>0, <1>a, <1>b DEF AppInv
    <2>2. \A d \in All : req[d].phase # "idle" <=> req'[d].phase # "idle"
      BY <1>a
    <2> QED BY <1>0, <1>a, <1>b, <2>1, <2>2 DEF AppInv
  <1>5. UnusedInv'
    BY <1>0, <1>a, <1>b DEF UnusedInv
  <1>6. ASSUME ~crossed PROVE CrossInv'
    <2>1. /\ session # 0 => flight.token.chain = session
          /\ session = 0 => app.phase = "saved" \/ launch = "me"
          /\ app.phase = "saved" => flight.token.chain = app.chain
          /\ app.phase # "leaving"
      BY <1>b, <1>6 DEF CrossInv
    <2>2. \A d \in All : ~(req'[d].phase = "refused" /\ OfSession(d)')
      BY <1>a, <1>b, <1>6 DEF CrossInv, OfSession
    <2>3. /\ Unsettled => \A d \in Callers : req'[d].phase = "idle"
          /\ app.phase \in {"ready", "signing", "signed"} /\ session = 0 
                => launch # "cadence" /\ \A d \in Callers : req'[d].phase = "idle"
          /\ app.phase = "saved" => \A d \in All : req'[d].of # app.chain
      BY <1>a, <1>6, <2>1 DEF CrossInv
    <2>4. launch = "me" /\ req'[Restorer].as # 0 => req'[Restorer].as = flight.token.chain
      BY <1>a, <1>b, <1>6 DEF CrossInv
    <2>5. identity # 0 /\ app.phase # "saved" => identity = flight.token.chain
      <3>1. CASE session # 0
        BY <2>1, <3>1 DEF AppInv
      <3>2. CASE session = 0
        BY <1>b, <1>6, <2>1, <3>2 DEF CrossInv, Stored
      <3> QED BY <3>1, <3>2
    <2> QED BY <1>0, <1>b, <1>6, <2>1, <2>2, <2>3, <2>4, <2>5 DEF CrossInv
  <1>7. CrossInv'
    BY <1>6, <1>b DEF CrossInv
  <1> QED BY <1>1, <1>2, <1>4, <1>5, <1>7

\* RefreshDenied: the store is emptied before the waiting callers resume.
LEMMA RefreshDeniedKeeps ==
    ASSUME IInv, RefreshDenied
    PROVE  IInv'
  <1>1. Lands("refused") /\ Clear /\ UNCHANGED <<chain, launch, app, session, identity, crossed>>
    BY DEF RefreshDenied
  <1> QED BY <1>1, ClearedLanding

\* RefreshOffline: a stale token whose successor is dropped becomes an orphan.
LEMMA RefreshOfflineKeeps ==
    ASSUME IInv, RefreshOffline
    PROVE  IInv'
  <1> USE SessionAssumption DEF IInv, Tokens, NoToken, Chains, All, Carrying, Unsettled
  <1>l. Lands("lost")
    BY DEF RefreshOffline
  <1>0. /\ flight'.phase = "none" /\ flight'.token = NoToken
        /\ req' \in [All -> Requests] /\ flight' = NoFlight
    BY <1>l, LandsOnly DEF NoFlight
  <1>a. \A d \in All : /\ req'[d].of = req[d].of /\ req'[d].as = req[d].as
                       /\ req'[d].outcome = req[d].outcome
                       /\ req'[d].phase \in {req[d].phase, "lost"}
                       /\ req[d].phase = "idle" => req'[d].phase = "idle"
                       /\ req'[d].phase = "idle" => req[d].phase = "idle"
    BY <1>l, LandsOnly
  <1>b. UNCHANGED <<chain, access, launch, app, session, identity, crossed>> /\ Carrying
    BY DEF RefreshOffline
  <1>c. /\ disk' \in Tokens /\ disk'.chain = disk.chain
        /\ mem' \in Tokens /\ mem'.chain = mem.chain
    BY DEF TypeOK, RefreshOffline, AfterDrop, Becomes
  <1>d. disk' = mem' /\ (disk' = NoToken <=> disk = NoToken)
    BY DEF TypeOK, Stored, Flying, RefreshOffline, AfterDrop, Becomes
  <1>1. TypeOK'
    BY <1>0, <1>b, <1>c DEF TypeOK, NoFlight
  <1>2. Stored'
    BY DEF TypeOK, Stored, Flying, RefreshOffline, AfterDrop, Becomes, Lands, Waiting, NoFlight
  <1>3. Flying'
    BY <1>0 DEF Flying
  <1>4. AppInv'
    <2>1. app.phase = "signed" => app.chain \notin {session, identity, disk'.chain, flight'.token.chain}
      BY <1>0, <1>a, <1>b, <1>c DEF AppInv
    <2>2. \A d \in All : req[d].phase # "idle" <=> req'[d].phase # "idle"
      BY <1>a
    <2> QED BY <1>0, <1>a, <1>b, <1>c, <2>1, <2>2 DEF AppInv
  <1>5. UnusedInv'
    BY <1>0, <1>a, <1>b, <1>c DEF UnusedInv
  <1>6. CrossInv'
    BY <1>0, <1>a, <1>b, <1>c, <1>d DEF CrossInv, OfSession, Stored
  <1> QED BY <1>1, <1>2, <1>3, <1>4, <1>5, <1>6

\* The restorer's request goes out: it is the only one, and no session is published.
LEMMA AskKeeps ==
    ASSUME IInv, launch \in {"launch", "cache"}, AskServer,
           UNCHANGED <<chain, disk, mem, access, flight, app, session, identity, crossed>>
    PROVE  IInv'
  <1> USE SessionAssumption DEF IInv, Tokens, NoToken, Chains, All, Carrying, Unsettled
  <1>0. /\ req' \in [All -> Requests]
        /\ \A d \in All : d # Restorer => req'[d] = req[d]
        /\ req'[Restorer].phase = "sent" /\ req'[Restorer].of = 0 /\ req'[Restorer].outcome = "none"
        /\ req'[Restorer].as \in {0, mem.chain}
    BY SentTyped DEF AskServer
  <1>b. launch' = "me"
    BY DEF AskServer
  <1>1. TypeOK'
    BY <1>0, <1>b DEF TypeOK
  <1>2. Stored' /\ Flying'
    BY DEF Stored, Flying, Live
  <1>3. req'[Restorer].as # 0 => req'[Restorer].as = mem.chain
    BY <1>0
  <1>4. AppInv'
    <2>1. app.phase = "signed" =>
            \A d \in All : req'[d].of # app.chain /\ req'[d].as # app.chain
      BY <1>0, <1>3 DEF AppInv, Stored, TypeOK
    <2> QED BY <1>0, <1>b, <2>1 DEF AppInv
  <1>5. UnusedInv'
    BY <1>0, <1>3 DEF UnusedInv, Stored
  <1>6. CrossInv'
    BY <1>0, <1>b, <1>3 DEF CrossInv, OfSession
  <1> QED BY <1>1, <1>2, <1>4, <1>5, <1>6

\* Restore: nothing is under way at launch, so each of its three outcomes starts clean.
LEMMA RestoreKeeps ==
    ASSUME IInv, Restore
    PROVE  IInv'
  <1> USE SessionAssumption DEF IInv, Tokens, NoToken, Chains, All, Carrying, Unsettled
  <1>1. /\ launch = "launch"
        /\ UNCHANGED <<chain, disk, mem, access, flight, app, session, identity, crossed>>
    BY DEF Restore, store
  <1>2. \/ mem = NoToken /\ launch' = "over" /\ UNCHANGED req
        \/ launch' = "cache" /\ UNCHANGED req
        \/ AskServer
    BY DEF Restore, WindowOpen
  <1>3. CASE launch' \in {"over", "cache"} /\ (launch' = "over" => mem = NoToken) /\ UNCHANGED req
    BY <1>1, <1>3 DEF TypeOK, Stored, Flying, AppInv, UnusedInv, CrossInv, Live, OfSession
  <1> QED BY <1>1, <1>2, <1>3, AskKeeps

\* CacheRead: the cached identity is the stored token's.
LEMMA CacheReadKeeps ==
    ASSUME IInv, CacheRead
    PROVE  IInv'
  <1> USE SessionAssumption DEF IInv, Tokens, NoToken, Chains, All, Carrying, Unsettled
  <1>1. /\ launch = "cache"
        /\ UNCHANGED <<chain, disk, mem, access, flight, app, identity, crossed>>
    BY DEF CacheRead, store
  <1>2. \/ identity # 0 /\ session' = identity /\ launch' = "cadence" /\ UNCHANGED req
        \/ AskServer /\ UNCHANGED session
    BY DEF CacheRead
  <1>3. CASE identity # 0 /\ session' = identity /\ launch' = "cadence" /\ UNCHANGED req
    <2>1. TypeOK' /\ Stored' /\ Flying'
      BY <1>1, <1>3 DEF TypeOK, Stored, Flying, Live
    <2>2. AppInv' /\ UnusedInv'
      BY <1>1, <1>3 DEF AppInv, UnusedInv
    <2>3. CrossInv'
      BY <1>1, <1>3 DEF CrossInv, AppInv, Stored, OfSession
    <2> QED BY <2>1, <2>2, <2>3
  <1> QED BY <1>1, <1>2, <1>3, AskKeeps

\* The restorer has read its answer.
LEMMA AnswerRead ==
    ASSUME TypeOK, req' = [req EXCEPT ![Restorer] = Idle]
    PROVE  /\ req' \in [All -> Requests]
           /\ \A d \in All : d # Restorer => req'[d] = req[d]
           /\ req'[Restorer].phase = "idle" /\ req'[Restorer].of = 0 /\ req'[Restorer].as = 0
           /\ req'[Restorer].outcome = "none"
  <1>1. Restorer \in All
    BY DEF All
  <1>2. req'[Restorer] = Idle /\ \A d \in All : d # Restorer => req'[d] = req[d]
    BY <1>1 DEF TypeOK
  <1>3. req' \in [All -> Requests]
    BY <1>1, IdleTyped DEF TypeOK
  <1> QED BY <1>2, <1>3 DEF Idle

\* Restored: the restorer's request has ended, so its flight has landed, and the user it
\* names is the stored token's.
LEMMA RestoredKeeps ==
    ASSUME IInv, Restored
    PROVE  IInv'
  <1> USE SessionAssumption DEF IInv, Tokens, NoToken, Chains, All, Carrying, Unsettled
  <1>0. /\ req' \in [All -> Requests]
        /\ \A d \in All : d # Restorer => req'[d] = req[d]
        /\ req'[Restorer].phase = "idle" /\ req'[Restorer].of = 0 /\ req'[Restorer].as = 0
        /\ req'[Restorer].outcome = "none"
    BY AnswerRead DEF Restored
  <1>1. /\ launch = "me" /\ req[Restorer].phase = "idle"
        /\ UNCHANGED <<chain, disk, mem, access, flight, app, crossed>>
    BY DEF Restored, store
  <1>2. \/ /\ req[Restorer].outcome = "ok" /\ launch' = "cadence"
           /\ identity' = req[Restorer].as /\ session' = req[Restorer].as
        \/ launch' = "over" /\ session' = 0 /\ identity' \in {0, identity}
    BY DEF Restored
  <1>3. CASE /\ req[Restorer].outcome = "ok" /\ launch' = "cadence"
             /\ identity' = req[Restorer].as /\ session' = req[Restorer].as
    <2>0. session' # 0 /\ session' \in Chains
      BY <1>3 DEF AppInv, TypeOK, Requests
    <2>1. TypeOK' /\ Stored' /\ Flying'
      BY <1>0, <1>1, <1>3, <2>0 DEF TypeOK, Stored, Flying, Live
    <2>2. AppInv' /\ UnusedInv'
      BY <1>0, <1>1, <1>3, <2>0 DEF AppInv, UnusedInv
    <2>3. CrossInv'
      BY <1>0, <1>1, <1>3, <2>0 DEF CrossInv, AppInv, Stored, OfSession
    <2> QED BY <2>1, <2>2, <2>3
  <1>4. CASE launch' = "over" /\ session' = 0 /\ identity' \in {0, identity}
    <2>1. TypeOK' /\ Stored' /\ Flying'
      BY <1>0, <1>1, <1>4 DEF TypeOK, Stored, Flying, Live
    <2>2. AppInv' /\ UnusedInv'
      BY <1>0, <1>1, <1>4 DEF AppInv, UnusedInv, TypeOK
    <2>3. CrossInv'
      BY <1>0, <1>1, <1>4 DEF CrossInv, AppInv, Stored, OfSession
    <2> QED BY <2>1, <2>2, <2>3
  <1> QED BY <1>2, <1>3, <1>4

\* RestoreRefused: the store is emptied; nothing else is under way.
LEMMA RestoreRefusedKeeps ==
    ASSUME IInv, RestoreRefused
    PROVE  IInv'
  <1> USE SessionAssumption DEF IInv, Tokens, NoToken, Chains, All, Carrying, Unsettled
  <1>0. /\ req' \in [All -> Requests]
        /\ \A d \in All : d # Restorer => req'[d] = req[d]
        /\ req'[Restorer].phase = "idle" /\ req'[Restorer].of = 0 /\ req'[Restorer].as = 0
        /\ req'[Restorer].outcome = "none"
    BY AnswerRead DEF RestoreRefused
  <1>1. /\ launch = "me" /\ req[Restorer].phase = "idle" /\ launch' = "refused"
        /\ disk' = NoToken /\ mem' = NoToken /\ access' = FALSE
        /\ UNCHANGED <<chain, flight, app, session, identity, crossed>>
    BY DEF RestoreRefused, Clear
  <1>a. TypeOK'
    <2>1. disk' \in Tokens /\ mem' \in Tokens /\ access' \in BOOLEAN
      BY <1>1
    <2>2. launch' \in {"launch", "cache", "me", "refused", "cadence", "over"}
      BY <1>1
    <2> QED BY <1>0, <1>1, <2>1, <2>2 DEF TypeOK
  <1>2. Stored' /\ Flying'
    BY <1>1 DEF Stored, Flying, Live
  <1>3. AppInv' /\ UnusedInv'
    BY <1>0, <1>1 DEF AppInv, UnusedInv, TypeOK
  <1>4. CrossInv'
    BY <1>0, <1>1 DEF CrossInv, OfSession
  <1> QED BY <1>a, <1>2, <1>3, <1>4

\* RestoreEnded: the identity follows the tokens.
LEMMA RestoreEndedKeeps ==
    ASSUME IInv, RestoreEnded
    PROVE  IInv'
  <1> USE SessionAssumption DEF IInv, Tokens, NoToken, Chains, All, Carrying, Unsettled
  <1>1. /\ launch = "refused" /\ launch' = "over" /\ identity' = 0 /\ session' = 0
        /\ UNCHANGED <<chain, disk, mem, access, req, flight, app, crossed>>
    BY DEF RestoreEnded, store
  <1>2. TypeOK' /\ Stored' /\ Flying'
    BY <1>1 DEF TypeOK, Stored, Flying, Live
  <1>3. AppInv' /\ UnusedInv'
    BY <1>1 DEF AppInv, UnusedInv, TypeOK
  <1>4. CrossInv'
    BY <1>1 DEF CrossInv, OfSession
  <1> QED BY <1>2, <1>3, <1>4

\* SaveTokens: unless the sign-in is overtaken, nothing is under way when it is stored.
LEMMA SaveTokensKeeps ==
    ASSUME IInv, SaveTokens
    PROVE  IInv'
  <1> USE SessionAssumption DEF IInv, Tokens, NoToken, Chains, All, Carrying, Unsettled
  <1>0. /\ app.phase = "signed" /\ app'.phase = "saved" /\ app'.chain = app.chain
        /\ disk' = Token(app.chain) /\ mem' = Token(app.chain) /\ access' = TRUE
        /\ UNCHANGED <<chain, req, flight, launch, session, identity>>
    BY DEF TypeOK, SaveTokens, Save
  <1>a. /\ app.chain \in Chains
        /\ Token(app.chain) # NoToken /\ Token(app.chain).chain = app.chain
        /\ Token(app.chain).is = "fresh" /\ Token(app.chain) \in Tokens
    BY <1>0 DEF AppInv, Token
  <1>b. ~crossed' => ~crossed /\ ~Restoring /\ session = 0 /\ flight.phase = "none"
    BY DEF SaveTokens, TypeOK
  <1>c. launch # "launch"
    BY <1>0 DEF AppInv, Ready
  <1>1. TypeOK'
    BY DEF TypeOK, SaveTokens, Save, Token
  <1>2. Stored'
    BY <1>0, <1>a DEF Stored
  <1>3. Flying'
    BY <1>0 DEF Flying, Live
  <1>4. AppInv'
    BY <1>0, <1>a, <1>c DEF AppInv
  <1>5. UnusedInv'
    BY <1>0, <1>a DEF UnusedInv
  <1>6. ASSUME ~crossed' PROVE CrossInv'
    <2>1. ~Unsettled /\ ~Unsettled' /\ launch # "me" /\ req[Restorer].phase = "idle"
      BY <1>b, <1>c, <1>0, <1>6 DEF Restoring, AppInv, TypeOK
    <2>2. \A d \in All : req[d].of # app.chain /\ ~(req'[d].phase = "refused" /\ OfSession(d)')
      BY <1>0, <1>b, <1>6, <2>1 DEF AppInv, OfSession
    <2> QED BY <1>0, <1>a, <1>b, <1>6, <2>1, <2>2 DEF CrossInv
  <1>7. CrossInv'
    BY <1>6 DEF CrossInv
  <1> QED BY <1>1, <1>2, <1>3, <1>4, <1>5, <1>7

\* Adopt: no request under way was sent under the chain just minted.
LEMMA AdoptKeeps ==
    ASSUME IInv, Adopt
    PROVE  IInv'
  <1> USE SessionAssumption DEF IInv, Tokens, NoToken, Chains, All, Carrying, Unsettled
  <1>1. TypeOK'
    BY DEF TypeOK, Adopt, Ready, store
  <1>2. Stored'
    BY DEF Stored, Adopt, Ready, store
  <1>3. Flying'
    BY DEF Flying, Adopt, Ready, store, Live
  <1>4. AppInv'
    BY DEF AppInv, Adopt, Ready, store
  <1>5. UnusedInv'
    BY DEF UnusedInv, Adopt, Ready, store
  <1>6. CrossInv'
    BY DEF TypeOK, Stored, AppInv, CrossInv, OfSession, Adopt, Ready, store
  <1> QED BY <1>1, <1>2, <1>3, <1>4, <1>5, <1>6 DEF IInv

\* SignedOut: requests still under way belong to the session that ends.
LEMMA SignedOutKeeps ==
    ASSUME IInv, SignedOut
    PROVE  IInv'
  <1> USE SessionAssumption DEF IInv, Tokens, NoToken, Chains, All, Carrying, Unsettled
  <1>1. TypeOK'
    BY DEF TypeOK, SignedOut, Ready, store
  <1>2. Stored'
    BY DEF Stored, SignedOut, Ready, store
  <1>3. Flying'
    BY DEF Flying, SignedOut, Ready, store, Live
  <1>4. AppInv'
    BY DEF AppInv, SignedOut, Ready, store
  <1>5. UnusedInv'
    BY DEF UnusedInv, SignedOut, Ready, store
  <1>6. CrossInv'
    BY DEF CrossInv, OfSession, AppInv, Stored, SignedOut, Ready, store
  <1> QED BY <1>1, <1>2, <1>3, <1>4, <1>5, <1>6 DEF IInv

\* SignIn: no session is published.
LEMMA SignInKeeps ==
    ASSUME IInv, SignIn
    PROVE  IInv'
  <1> USE SessionAssumption DEF IInv, Tokens, NoToken, Chains, All, Carrying, Unsettled
  <1>1. TypeOK'
    BY DEF TypeOK, SignIn, store
  <1>2. Stored'
    BY DEF Stored, SignIn, store
  <1>3. Flying'
    BY DEF Flying, SignIn, store, Live
  <1>4. AppInv'
    BY DEF AppInv, SignIn, store
  <1>5. UnusedInv'
    BY DEF UnusedInv, SignIn, store
  <1>6. CrossInv'
    BY DEF CrossInv, OfSession, AppInv, Stored, SignIn, store
  <1> QED BY <1>1, <1>2, <1>3, <1>4, <1>5, <1>6 DEF IInv

\* SignInFails: the minted chain, if any, is dropped.
LEMMA SignInFailsKeeps ==
    ASSUME IInv, SignInFails
    PROVE  IInv'
  <1> USE SessionAssumption DEF IInv, Tokens, NoToken, Chains, All, Carrying, Unsettled
  <1>1. TypeOK'
    BY DEF TypeOK, SignInFails, Ready, store
  <1>2. Stored'
    BY DEF Stored, SignInFails, Ready, store
  <1>3. Flying'
    BY DEF Flying, SignInFails, Ready, store, Live
  <1>4. AppInv'
    BY DEF AppInv, SignInFails, Ready, store
  <1>5. UnusedInv'
    BY DEF UnusedInv, SignInFails, Ready, store
  <1>6. CrossInv'
    BY DEF CrossInv, OfSession, AppInv, Stored, SignInFails, Ready, store
  <1> QED BY <1>1, <1>2, <1>3, <1>4, <1>5, <1>6 DEF IInv

\* SignOut: with no flight under way the store stays empty.
LEMMA SignOutKeeps ==
    ASSUME IInv, SignOut
    PROVE  IInv'
  <1> USE SessionAssumption DEF IInv, Tokens, NoToken, Chains, All, Carrying, Unsettled
  <1>1. TypeOK'
    BY DEF TypeOK, SignOut, Clear
  <1>2. Stored'
    BY DEF Stored, SignOut, Clear
  <1>3. Flying'
    BY DEF Flying, SignOut, Clear, Live
  <1>4. AppInv'
    BY DEF AppInv, SignOut, Clear
  <1>5. UnusedInv'
    BY DEF UnusedInv, SignOut, Clear
  <1>6. CrossInv'
    <2>1. /\ session # 0 /\ app.phase = "ready" /\ app'.phase = "leaving"
          /\ disk' = NoToken /\ mem' = NoToken
          /\ UNCHANGED <<req, flight, launch, session, identity>>
      BY DEF SignOut, Clear, TypeOK
    <2>2. ~crossed' => ~crossed /\ ~Carrying
      BY DEF SignOut, TypeOK
    <2> QED BY <2>1, <2>2 DEF CrossInv, OfSession
  <1> QED BY <1>1, <1>2, <1>3, <1>4, <1>5, <1>6 DEF IInv

\* Relaunch: only the disk, the identity and the server survive.
LEMMA RelaunchKeeps ==
    ASSUME IInv, Relaunch
    PROVE  IInv'
  <1> USE SessionAssumption DEF IInv, Tokens, NoToken, Chains, All, Carrying, Unsettled
  <1>0. /\ flight' = NoFlight /\ flight'.phase = "none" /\ flight'.token = NoToken
        /\ launch' = "launch" /\ app' = Ready /\ app'.phase = "ready" /\ app'.chain = 0
        /\ session' = 0 /\ access' = FALSE /\ UNCHANGED <<chain, identity>>
    BY DEF Relaunch, NoFlight, Ready
  <1>a. /\ req' \in [All -> Requests]
        /\ \A c \in All : /\ req'[c].phase = "idle" /\ req'[c].of = 0 /\ req'[c].as = 0
                          /\ req'[c].outcome = "none"
    BY IdleTyped DEF Relaunch, Idle
  <1>b. /\ disk' \in Tokens /\ disk'.chain = disk.chain /\ mem' = disk'
        /\ (disk' = NoToken <=> disk = NoToken)
    BY DEF Relaunch, AfterDrop, Becomes, TypeOK, Stored, Flying
  <1>c. ~crossed' => ~crossed /\ (app.phase = "saved" => identity \in {0, app.chain})
    BY DEF Relaunch, TypeOK
  <1>1. TypeOK'
    <2>1. crossed' \in BOOLEAN
      BY DEF Relaunch
    <2> QED BY <1>0, <1>a, <1>b, <2>1 DEF TypeOK, NoFlight, Ready
  <1>2. Stored'
    BY DEF TypeOK, Stored, Flying, Relaunch, AfterDrop, Becomes, Idle, NoFlight
  <1>3. Flying'
    BY <1>0 DEF Flying
  <1>4. AppInv'
    BY <1>0, <1>a DEF AppInv
  <1>5. UnusedInv'
    BY <1>0, <1>a, <1>b DEF UnusedInv
  <1>6. CrossInv'
    <2>1. ~crossed' /\ identity # 0 /\ disk # NoToken => identity = disk.chain
      BY <1>c DEF CrossInv, Stored
    <2> QED BY <1>0, <1>a, <1>b, <2>1 DEF CrossInv
  <1> QED BY <1>1, <1>2, <1>3, <1>4, <1>5, <1>6

\* IssueTokens: the device has nothing to do with an unused chain.
LEMMA IssueTokensKeeps ==
    ASSUME NEW k \in Chains, IInv, IssueTokens(k)
    PROVE  IInv'
  <1> USE SessionAssumption DEF IInv, Tokens, NoToken, Chains, All, Carrying, Unsettled
  <1>1. TypeOK'
    BY DEF TypeOK, IssueTokens, store
  <1>2. Stored'
    BY DEF Stored, IssueTokens, store
  <1>3. Flying'
    BY DEF TypeOK, Flying, UnusedInv, IssueTokens, store, Live
  <1>4. AppInv'
    BY DEF TypeOK, AppInv, UnusedInv, IssueTokens, store, Ready
  <1>5. UnusedInv'
    BY DEF TypeOK, UnusedInv, IssueTokens, store
  <1>6. CrossInv'
    BY DEF CrossInv, OfSession, AppInv, Stored, IssueTokens, store
  <1> QED BY <1>1, <1>2, <1>3, <1>4, <1>5, <1>6 DEF IInv

\* ChainExpires: an expiry can only make a token less acceptable.
LEMMA ChainExpiresKeeps ==
    ASSUME NEW k \in Chains, IInv, ChainExpires(k)
    PROVE  IInv'
  <1> USE SessionAssumption DEF IInv, Tokens, NoToken, Chains, All, Carrying, Unsettled
  <1>1. TypeOK'
    BY DEF TypeOK, ChainExpires, store
  <1>2. Stored'
    BY DEF Stored, ChainExpires, store
  <1>3. Flying'
    BY DEF Flying, ChainExpires, store, Live
  <1>4. AppInv'
    BY DEF AppInv, ChainExpires, store
  <1>5. UnusedInv'
    BY DEF UnusedInv, ChainExpires, store
  <1>6. CrossInv'
    BY DEF CrossInv, OfSession, AppInv, Stored, ChainExpires, store
  <1> QED BY <1>1, <1>2, <1>3, <1>4, <1>5, <1>6 DEF IInv

----------------------------------------------------------------------------
(* The invariant, and the theorems                                          *)

\* The first launch satisfies the invariant.
LEMMA InitIInv == Init => IInv
  <1> SUFFICES ASSUME Init PROVE IInv
    OBVIOUS
  <1> USE SessionAssumption DEF Init, Idle, Requests, Tokens, NoToken, NoFlight, Ready, All, Chains,
                                Carrying, Unsettled
  <1>1. TypeOK
    BY DEF TypeOK
  <1>2. Stored /\ Flying
    BY DEF Stored, Flying
  <1>3. AppInv /\ UnusedInv /\ CrossInv
    BY DEF AppInv, UnusedInv, CrossInv
  <1> QED BY <1>1, <1>2, <1>3 DEF IInv

\* Every step keeps it.
LEMMA NextKeeps == IInv /\ [Next]_vars => IInv'
  <1> SUFFICES ASSUME IInv, [Next]_vars PROVE IInv'
    OBVIOUS
  <1>1. ASSUME NEW c \in Callers, Send(c) PROVE IInv'
    BY <1>1, SendKeeps
  <1>2. ASSUME NEW c \in All, RequestStep(c) PROVE IInv'
    BY <1>2, AnsweredKeeps, NotRecoverableKeeps, SecondRefusalKeeps, JoinKeeps, StartRefreshKeeps,
       NothingToRefreshKeeps, RetryKeeps, GiveUpKeeps DEF RequestStep
  <1>3. CASE FlightStep
    BY <1>3, EmptyClearedKeeps, RotateKeeps, RefreshSavedKeeps, RefreshDeniedKeeps,
       RefreshOfflineKeeps DEF FlightStep
  <1>4. CASE RestoreStep
    BY <1>4, RestoreKeeps, CacheReadKeeps, RestoredKeeps, RestoreRefusedKeeps, RestoreEndedKeeps
       DEF RestoreStep
  <1>5. CASE SignIn \/ SignInFails \/ SaveTokens \/ Adopt \/ SignOut \/ SignedOut \/ Relaunch
    BY <1>5, SignInKeeps, SignInFailsKeeps, SaveTokensKeeps, AdoptKeeps, SignOutKeeps,
       SignedOutKeeps, RelaunchKeeps
  <1>6. ASSUME NEW k \in Chains, IssueTokens(k) \/ ChainExpires(k) PROVE IInv'
    BY <1>6, IssueTokensKeeps, ChainExpiresKeeps
  <1>7. CASE UNCHANGED vars
    BY <1>7 DEF vars, IInv, TypeOK, Stored, Flying, Live, AppInv, UnusedInv, CrossInv, Carrying,
       Unsettled, OfSession
  <1> QED BY <1>1, <1>2, <1>3, <1>4, <1>5, <1>6, <1>7 DEF Next

\* The inductive invariant holds throughout.
THEOREM Invariance == Spec => []IInv
  BY InitIInv, NextKeeps, PTL DEF Spec

\* Every variable of the device and of the server keeps its type.
THEOREM TypeCorrect == Spec => []TypeOK
  <1>1. IInv => TypeOK
    BY DEF IInv
  <1> QED BY <1>1, Invariance, PTL

\* RefreshInterceptor shares one rotation, for any number of callers: it never shows the
\* server a token it has a successor for.
THEOREM NoSelfLockoutHolds == Spec => []NoSelfLockout
  <1>1. IInv => NoSelfLockout
    BY DEF IInv, Flying, Carrying, NoSelfLockout
  <1> QED BY <1>1, Invariance, PTL

\* The stored token is the published session's, for any number of users one after the
\* other, unless a change of user was cut short or overtaken.
THEOREM TokenIsTheSessionsHolds == Spec => []TokenIsTheSessions
  <1>1. IInv => TokenIsTheSessions
    BY DEF IInv, CrossInv, TokenIsTheSessions
  <1> QED BY <1>1, Invariance, PTL

\* What may empty the keystore of a token the server would still accept.
LEMMA KeptStep ==
    ASSUME IInv, [Next]_vars, Live(disk), disk' = NoToken, ~crossed
    PROVE  SignOut \/ RestoreRefused \/ \E c \in All : SecondRefusal(c)
  <1>1. disk.is = "fresh" /\ disk.chain \in Chains /\ disk = mem /\ disk # NoToken
    BY DEF IInv, TypeOK, Stored, Live, Tokens, NoToken
  <1>2. ASSUME disk' = disk PROVE FALSE
    BY <1>1, <1>2
  <1>3. ASSUME NEW c \in All, RequestStep(c) PROVE SecondRefusal(c)
    BY <1>1, <1>2, <1>3 DEF RequestStep, Answered, NotRecoverable, Join, StartRefresh,
       NothingToRefresh, Retry, GiveUp, store
  <1>4. ~FlightStep
    <2>1. ~Rotate
      BY <1>1 DEF Rotate, Becomes, NoToken, IInv, TypeOK, Tokens, Chains
    <2>2. ~RefreshSaved
      BY DEF RefreshSaved, Save, NoToken, IInv, Flying, Carrying, Chains
    <2>3. ~RefreshDenied
      BY <1>1 DEF RefreshDenied, IInv, Flying, CrossInv, Carrying
    <2>4. ~RefreshOffline
      BY <1>1 DEF RefreshOffline, AfterDrop, Becomes, NoToken, IInv, TypeOK, Tokens, Chains
    <2>5. ~EmptyCleared
      BY <1>1 DEF EmptyCleared, IInv, CrossInv
    <2> QED BY <2>1, <2>2, <2>3, <2>4, <2>5 DEF FlightStep
  <1>5. RestoreStep => RestoreRefused
    BY <1>2 DEF RestoreStep, Restore, CacheRead, Restored, RestoreEnded, store
  <1>6. ~Relaunch
    BY <1>1 DEF Relaunch, AfterDrop, Becomes, NoToken, IInv, TypeOK, Tokens, Chains
  <1>7. ~SignIn /\ ~SignInFails /\ ~Adopt /\ ~SignedOut
        /\ \A k \in Chains : ~IssueTokens(k) /\ ~ChainExpires(k)
    BY <1>2 DEF SignIn, SignInFails, Adopt, SignedOut, IssueTokens, ChainExpires, store
  <1>8. ~SaveTokens
    BY DEF SaveTokens, Save, Token, NoToken
  <1>9. \A c \in Callers : ~Send(c)
    BY <1>2 DEF Send, store
  <1>10. ~UNCHANGED vars
    BY <1>2 DEF vars
  <1> QED BY <1>3, <1>4, <1>5, <1>6, <1>7, <1>8, <1>9, <1>10 DEF Next

\* A token the server would still accept leaves the keystore only by a sign-out, a second
\* refusal or a refused /auth/me: never because the server could not be reached, and not
\* because of a refresh that was denied, unless a change of user was overtaken.
THEOREM LiveTokenKeptHolds == Spec => LiveTokenKept
  <1>1. IInv /\ [Next]_vars
           => [Live(disk) /\ disk' = NoToken /\ ~crossed
                => SignOut \/ RestoreRefused \/ \E c \in All : SecondRefusal(c)]_vars
    BY KeptStep
  <1> QED BY <1>1, Invariance, PTL DEF Spec, LiveTokenKept

\* Within one session a request ends unauthenticated while the stored token is still good
\* only for a reason of its own: the scheduler is not stopped by a request that went out
\* bare, or by waiting for a refresh that was denied.
THEOREM FinishedMeansFinishedHolds == Spec => FinishedMeansFinished
  <1>1. ASSUME IInv, NEW c \in All, EndsUnauthenticated(c), OfSession(c), Live(disk), ~crossed
        PROVE  \/ req[c].phase = "invalid" /\ ~Bare(c)
               \/ req[c].phase = "lost" \/ req[c].retried
    <2>1. disk # NoToken
      BY <1>1 DEF Live, NoToken
    <2>2. req[c].phase # "refused"
      BY <1>1, <2>1 DEF IInv, CrossInv
    <2> QED BY <1>1, <2>2 DEF EndsUnauthenticated, NotRecoverable, SecondRefusal, GiveUp, Failure,
               Recoverable
  <1>2. IInv /\ [Next]_vars
           => [\A c \in All :
                 EndsUnauthenticated(c) /\ OfSession(c) /\ Live(disk) /\ ~crossed
                   => \/ req[c].phase = "invalid" /\ ~Bare(c)
                      \/ req[c].phase = "lost" \/ req[c].retried]_vars
    BY <1>1
  <1> QED BY <1>2, Invariance, PTL DEF Spec, FinishedMeansFinished

----------------------------------------------------------------------------
(* Identity: one-time codes, role links and the bootstrap, for any phones,  *)
(* workers, limits and row bounds.                                          *)

\* A code that a verification may still decide.
Guessable(c) == ~c.consumed /\ c.attempts < OtpMaxAttempts

\* What a worker in the middle of a transaction knows.
HolderOK(w) ==
    /\ tx[w].phase \in {"counted", "scanned", "locked", "booting"} => tx[w].phone \in Phones
    /\ tx[w].phase = "scanned" => tx[w].seen \subseteq DOMAIN codes[tx[w].phone]
    /\ tx[w].phase = "locked" => /\ tx[w].row \in DOMAIN codes[tx[w].phone]
                                 /\ Guessable(codes[tx[w].phone][tx[w].row])
    /\ tx[w].phase = "revoking" => tx[w].row \in granted

\* A code's row lock has one holder.
OneLock ==
    \A v, w \in Workers :
        /\ tx[v].phase = "locked" /\ tx[w].phase = "locked"
        /\ tx[v].phone = tx[w].phone /\ tx[v].row = tx[w].row
        => v = w

\* The requests past the rate limit's count that have not inserted yet.
Pending(p) == {w \in Workers : tx[w].phase = "counted" /\ tx[w].phone = p}

WindowInv ==
    \A p \in Phones :
        Cardinality(InWindow(p)) + Cardinality(Pending(p)) < MaxOtpPerWindow + Cardinality(Workers)

\* One bootstrap at a time, and while it runs nobody reigns; who reigns is an owner.
BootInv ==
    /\ \A v, w \in Workers : tx[v].phase = "booting" /\ tx[w].phase = "booting" => v = w
    /\ \A w \in Workers : tx[w].phase = "booting" => reigns = {}
    /\ reigns \subseteq ActiveOwners
    /\ BootstrapsExclude

RolesInv == RolesAudited /\ revoked \subseteq granted

CodesInv ==
    /\ \A w \in Workers : HolderOK(w)
    /\ OneLock
    /\ CodeSpentOnce
    /\ WindowInv

IdentityInv == IdentityTypeOK /\ CodesInv /\ BootInv /\ RolesInv

\* The worker of a step, and the codes of a step, leave the rest alone.
OthersIdle(w) == \A v \in Workers : v # w => tx'[v] = tx[v]

----------------------------------------------------------------------------
(* Initial states                                                           *)

LEMMA IdentityInitInv == IdentityInit => IdentityInv
  <1> SUFFICES ASSUME IdentityInit PROVE IdentityInv
    OBVIOUS
  <1> USE IdentityAssumption
  <1>0. \A w \in Workers : tx[w] = IdleTx
    BY DEF IdentityInit
  <1>1. IdentityTypeOK
    <2>1. IdleTx \in WorkerTx
      BY DEF IdleTx, WorkerTx, IdentityPhases
    <2>2. QED
      BY <2>1 DEF IdentityInit, IdentityTypeOK
  <1>2. \A w \in Workers : HolderOK(w)
    BY <1>0 DEF HolderOK, IdleTx
  <1>3. OneLock
    BY <1>0 DEF OneLock, IdleTx
  <1>4. \A p \in Phones : DOMAIN codes[p] = {}
    BY DEF IdentityInit
  <1>5. CodeSpentOnce
    BY <1>4 DEF CodeSpentOnce
  <1>6. WindowInv
    <2> SUFFICES ASSUME NEW p \in Phones
                 PROVE  Cardinality(InWindow(p)) + Cardinality(Pending(p))
                          < MaxOtpPerWindow + Cardinality(Workers)
      BY DEF WindowInv
    <2>1. InWindow(p) = {}
      BY <1>4 DEF InWindow
    <2>2. Pending(p) = {}
      BY <1>0 DEF Pending, IdleTx
    <2>3. Cardinality({}) = 0 /\ Cardinality(Workers) \in Nat
      BY FS_EmptySet, FS_CardinalityType
    <2>4. MaxOtpPerWindow \in Nat /\ MaxOtpPerWindow > 0
      OBVIOUS
    <2>5. QED
      BY <2>1, <2>2, <2>3, <2>4
  <1>7. BootInv
    BY <1>0 DEF BootInv, IdentityInit, IdleTx, BootstrapsExclude
  <1>8. RolesInv
    BY DEF RolesInv, RolesAudited, IdentityInit
  <1>9. QED
    BY <1>1, <1>2, <1>3, <1>5, <1>6, <1>7, <1>8 DEF IdentityInv, CodesInv

----------------------------------------------------------------------------
(* Writing a worker's transaction and a code                                *)

\* Starting, ending or moving one worker's transaction keeps the type.
LEMMA TxWritten ==
    ASSUME IdentityTypeOK, NEW w \in Workers, NEW t \in WorkerTx,
           tx' = [tx EXCEPT ![w] = t]
    PROVE  tx' \in [Workers -> WorkerTx] /\ tx'[w] = t /\ OthersIdle(w)
  BY DEF IdentityTypeOK, OthersIdle

LEMMA DoneWrites ==
    ASSUME IdentityTypeOK, NEW w \in Workers, Done(w)
    PROVE  tx' \in [Workers -> WorkerTx] /\ tx'[w] = IdleTx /\ OthersIdle(w)
  <1>1. IdleTx \in WorkerTx
    BY DEF IdleTx, WorkerTx, IdentityPhases
  <1>2. QED
    BY <1>1, TxWritten DEF Done

LEMMA StartsWrites ==
    ASSUME IdentityTypeOK, NEW w \in Workers, NEW phase \in IdentityPhases,
           NEW p \in Phones, NEW seen \in SUBSET Nat, Starts(w, phase, p, seen)
    PROVE  /\ tx' \in [Workers -> WorkerTx]
           /\ tx'[w] = [phase |-> phase, phone |-> p, seen |-> seen, row |-> 0]
           /\ OthersIdle(w)
           /\ tx[w].phase = "idle"
  <1>1. [phase |-> phase, phone |-> p, seen |-> seen, row |-> 0] \in WorkerTx
    BY DEF WorkerTx
  <1>2. QED
    BY <1>1, TxWritten DEF Starts

\* Writing one code changes no other and creates none.
LEMMA CodeWritten ==
    ASSUME IdentityTypeOK, NEW p \in Phones, NEW i \in DOMAIN codes[p], NEW c \in Codes,
           WriteCode(p, i, c)
    PROVE  /\ codes' \in [Phones -> Seq(Codes)]
           /\ codes'[p][i] = c
           /\ \A q \in Phones : DOMAIN codes'[q] = DOMAIN codes[q]
           /\ \A q \in Phones : \A j \in DOMAIN codes[q] :
                 <<q, j>> # <<p, i>> => codes'[q][j] = codes[q][j]
  <1> DEFINE s == codes[p]
  <1>1. s \in Seq(Codes) /\ i \in 1..Len(s)
    BY DEF IdentityTypeOK
  <1>2. PICK t : t = [s EXCEPT ![i] = c]
    OBVIOUS
  <1>3. t \in Seq(Codes) /\ Len(t) = Len(s)
        /\ \A j \in 1..Len(s) : t[j] = IF j = i THEN c ELSE s[j]
    BY <1>1, <1>2, ExceptSeq
  <1>4. codes' = [codes EXCEPT ![p] = t]
    BY <1>2 DEF WriteCode, IdentityTypeOK
  <1>5. codes \in [Phones -> Seq(Codes)]
    BY DEF IdentityTypeOK
  <1>6. codes'[p] = t /\ \A q \in Phones : q # p => codes'[q] = codes[q]
    BY <1>4, <1>5
  <1>7. codes' \in [Phones -> Seq(Codes)]
    BY <1>3, <1>4, <1>5
  <1>8. DOMAIN t = DOMAIN s /\ DOMAIN s = 1..Len(s)
    BY <1>1, <1>3
  <1>9. codes'[p][i] = c
    BY <1>1, <1>3, <1>6
  <1>10. ASSUME NEW q \in Phones
         PROVE  DOMAIN codes'[q] = DOMAIN codes[q]
    BY <1>6, <1>8
  <1>11. ASSUME NEW q \in Phones, NEW j \in DOMAIN codes[q], <<q, j>> # <<p, i>>
         PROVE  codes'[q][j] = codes[q][j]
    <2>1. CASE q # p
      BY <1>6, <2>1
    <2>2. CASE q = p
      BY <1>3, <1>6, <1>8, <1>11, <2>2
    <2>3. QED
      BY <2>1, <2>2
  <1>12. QED
    BY <1>7, <1>9, <1>10, <1>11

----------------------------------------------------------------------------
(* Codes, locks and the window                                              *)

\* What a worker holds is not disturbed by another's step.
CodesKept(v) ==
    \A q \in Phones : \A j \in DOMAIN codes[q] :
        /\ j \in DOMAIN codes'[q]
        /\ tx[v].phase = "locked" /\ tx[v].phone = q /\ tx[v].row = j
              => (Guessable(codes[q][j]) => Guessable(codes'[q][j]))

LEMMA HolderKept ==
    ASSUME NEW v \in Workers, HolderOK(v), tx'[v] = tx[v], CodesKept(v), granted \subseteq granted'
    PROVE  HolderOK(v)'
  <1>1. CASE tx[v].phase = "scanned"
    BY <1>1 DEF HolderOK, CodesKept
  <1>2. CASE tx[v].phase = "locked"
    <2>1. tx[v].phone \in Phones /\ tx[v].row \in DOMAIN codes[tx[v].phone]
          /\ Guessable(codes[tx[v].phone][tx[v].row])
      BY <1>2 DEF HolderOK
    <2>2. tx[v].row \in DOMAIN codes'[tx[v].phone]
          /\ Guessable(codes'[tx[v].phone][tx[v].row])
      BY <1>2, <2>1 DEF CodesKept
    <2>3. Guessable(codes[tx[v].phone][tx[v].row])'
      BY <2>2 DEF Guessable
    <2>4. QED
      BY <1>2, <2>1, <2>2, <2>3 DEF HolderOK
  <1>3. CASE tx[v].phase \notin {"scanned", "locked"}
    BY <1>3 DEF HolderOK
  <1>4. QED
    BY <1>1, <1>2, <1>3

\* A step that locks nothing new adds no second holder.
LEMMA LockKept ==
    ASSUME OneLock, NEW w \in Workers, OthersIdle(w), tx'[w].phase # "locked"
    PROVE  OneLock'
  BY DEF OneLock, OthersIdle

\* Window and pending requests are finite sets.
LEMMA WindowFinite ==
    ASSUME IdentityTypeOK, NEW p \in Phones
    PROVE  /\ IsFiniteSet(InWindow(p)) /\ Cardinality(InWindow(p)) \in Nat
           /\ IsFiniteSet(Pending(p)) /\ Cardinality(Pending(p)) \in Nat
           /\ Cardinality(Pending(p)) <= Cardinality(Workers)
           /\ Cardinality(Workers) \in Nat
  <1>1. codes[p] \in Seq(Codes)
    BY DEF IdentityTypeOK
  <1>2. Len(codes[p]) \in Nat /\ DOMAIN codes[p] = 1..Len(codes[p])
    BY <1>1
  <1>3. IsFiniteSet(1..Len(codes[p]))
    BY <1>2, FS_Interval
  <1>4. InWindow(p) \subseteq 1..Len(codes[p])
    BY <1>2 DEF InWindow
  <1>5. IsFiniteSet(InWindow(p))
    BY <1>3, <1>4, FS_Subset
  <1>6. Pending(p) \subseteq Workers /\ IsFiniteSet(Workers)
    BY IdentityAssumption DEF Pending
  <1>7. IsFiniteSet(Pending(p)) /\ Cardinality(Pending(p)) <= Cardinality(Workers)
    BY <1>6, FS_Subset
  <1>8. QED
    BY <1>5, <1>6, <1>7, FS_CardinalityType

\* The window bound survives when neither the window nor the pending requests grow.
LEMMA WindowShrinks ==
    ASSUME IdentityTypeOK, IdentityTypeOK', NEW p \in Phones,
           Cardinality(InWindow(p)) + Cardinality(Pending(p))
             < MaxOtpPerWindow + Cardinality(Workers),
           InWindow(p)' \subseteq InWindow(p), Pending(p)' \subseteq Pending(p)
    PROVE  (Cardinality(InWindow(p)) + Cardinality(Pending(p))
             < MaxOtpPerWindow + Cardinality(Workers))'
  <1>1. PICK A, B, C, D : A = InWindow(p) /\ B = Pending(p) /\ C = InWindow(p)' /\ D = Pending(p)'
    OBVIOUS
  <1>2. IsFiniteSet(A) /\ IsFiniteSet(B) /\ Cardinality(A) \in Nat /\ Cardinality(B) \in Nat
    BY <1>1, WindowFinite
  <1>3. C \subseteq A /\ D \subseteq B
    BY <1>1
  <1>4. Cardinality(C) <= Cardinality(A) /\ Cardinality(D) <= Cardinality(B)
    BY <1>2, <1>3, FS_Subset
  <1>5. IsFiniteSet(C) /\ IsFiniteSet(D)
    BY <1>2, <1>3, FS_Subset
  <1>6. Cardinality(C) \in Nat /\ Cardinality(D) \in Nat
    BY <1>5, FS_CardinalityType
  <1>7. MaxOtpPerWindow \in Nat /\ Cardinality(Workers) \in Nat
    BY IdentityAssumption, FS_CardinalityType
  <1>8. Cardinality(A) + Cardinality(B) < MaxOtpPerWindow + Cardinality(Workers)
    BY <1>1
  <1>9. Cardinality(C) + Cardinality(D) < MaxOtpPerWindow + Cardinality(Workers)
    BY <1>2, <1>4, <1>6, <1>7, <1>8
  <1>10. QED
    BY <1>1, <1>9

\* A step of one worker that touches no code, counts nothing and locks nothing.
LEMMA QuietStep ==
    ASSUME IdentityTypeOK, IdentityTypeOK', CodesInv, NEW w \in Workers, OthersIdle(w),
           UNCHANGED codes, tx'[w].phase \notin {"counted", "locked"}, HolderOK(w)',
           granted \subseteq granted'
    PROVE  CodesInv'
  <1>1. ASSUME NEW v \in Workers PROVE HolderOK(v)'
    <2>1. CASE v # w
      <3>1. tx'[v] = tx[v] /\ HolderOK(v)
        BY <2>1 DEF OthersIdle, CodesInv
      <3>2. CodesKept(v)
        BY DEF CodesKept
      <3>3. QED
        BY <3>1, <3>2, HolderKept
    <2>2. QED
      BY <2>1
  <1>2. OneLock'
    BY LockKept DEF CodesInv
  <1>3. CodeSpentOnce'
    BY DEF CodesInv, CodeSpentOnce
  <1>4. WindowInv'
    <2> SUFFICES ASSUME NEW p \in Phones
                 PROVE  (Cardinality(InWindow(p)) + Cardinality(Pending(p))
                           < MaxOtpPerWindow + Cardinality(Workers))'
      BY DEF WindowInv
    <2>1. InWindow(p)' = InWindow(p)
      BY DEF InWindow
    <2>2. Pending(p)' \subseteq Pending(p)
      BY DEF Pending, OthersIdle
    <2>3. Cardinality(InWindow(p)) + Cardinality(Pending(p))
            < MaxOtpPerWindow + Cardinality(Workers)
      BY DEF CodesInv, WindowInv
    <2>4. QED
      BY <2>1, <2>2, <2>3, WindowShrinks
  <1>5. QED
    BY <1>1, <1>2, <1>3, <1>4 DEF CodesInv

\* request_otp past its count: the window was below the limit, and no more workers
\* than there are can be past it.
LEMMA CountStep ==
    ASSUME IdentityTypeOK, IdentityTypeOK', CodesInv, NEW w \in Workers, NEW p \in Phones,
           RequestCount(w, p)
    PROVE  CodesInv'
  <1>0. {} \in SUBSET Nat /\ "counted" \in IdentityPhases
    BY DEF IdentityPhases
  <1>1. tx'[w] = [phase |-> "counted", phone |-> p, seen |-> {}, row |-> 0] /\ OthersIdle(w)
    BY <1>0, StartsWrites DEF RequestCount
  <1>2. UNCHANGED codes /\ UNCHANGED granted
    BY DEF RequestCount
  <1>3. ASSUME NEW v \in Workers PROVE HolderOK(v)'
    <2>1. CASE v # w
      <3>1. tx'[v] = tx[v] /\ HolderOK(v) /\ CodesKept(v)
        BY <1>1, <1>2, <2>1 DEF OthersIdle, CodesInv, CodesKept
      <3>2. QED
        BY <1>2, <3>1, HolderKept
    <2>2. CASE v = w
      BY <1>1, <2>2 DEF HolderOK
    <2>3. QED
      BY <2>1, <2>2
  <1>4. OneLock'
    <2>1. tx'[w].phase # "locked"
      BY <1>1
    <2>2. QED
      BY <1>1, <2>1, LockKept DEF CodesInv
  <1>5. CodeSpentOnce'
    BY <1>2 DEF CodesInv, CodeSpentOnce
  <1>6. WindowInv'
    <2> SUFFICES ASSUME NEW q \in Phones
                 PROVE  (Cardinality(InWindow(q)) + Cardinality(Pending(q))
                           < MaxOtpPerWindow + Cardinality(Workers))'
      BY DEF WindowInv
    <2>1. InWindow(q)' = InWindow(q)
      BY <1>2 DEF InWindow
    <2>2. CASE q # p
      <3>1. Pending(q)' \subseteq Pending(q)
        BY <1>1, <2>2 DEF Pending, OthersIdle
      <3>2. Cardinality(InWindow(q)) + Cardinality(Pending(q))
              < MaxOtpPerWindow + Cardinality(Workers)
        BY DEF CodesInv, WindowInv
      <3>3. QED
        BY <2>1, <3>1, <3>2, WindowShrinks
    <2>3. CASE q = p
      <3>1. PICK n, m, k : n = Cardinality(InWindow(q)) /\ m = Cardinality(Pending(q)')
                           /\ k = Cardinality(Workers)
        OBVIOUS
      <3>2. n \in Nat /\ k \in Nat
        BY <3>1, WindowFinite
      <3>3. n < MaxOtpPerWindow
        BY <2>3, <3>1 DEF RequestCount, UnderLimit
      <3>4. Pending(q)' \subseteq Workers /\ IsFiniteSet(Workers)
        BY IdentityAssumption DEF Pending
      <3>5. IsFiniteSet(Pending(q)') /\ m <= k
        BY <3>1, <3>4, FS_Subset
      <3>6. m \in Nat
        BY <3>1, <3>5, FS_CardinalityType
      <3>7. n + m < MaxOtpPerWindow + k
        BY <3>2, <3>3, <3>5, <3>6, IdentityAssumption
      <3>8. QED
        BY <2>1, <3>1, <3>7
    <2>4. QED
      BY <2>2, <2>3
  <1>7. QED
    BY <1>3, <1>4, <1>5, <1>6 DEF CodesInv

\* A new code leaves every code and every holder as it was.
LEMMA InsertWrites ==
    ASSUME IdentityTypeOK, NEW p \in Phones,
           codes' = [codes EXCEPT ![p] = Append(@, NewCode)]
    PROVE  /\ codes' \in [Phones -> Seq(Codes)]
           /\ \A q \in Phones : \A j \in DOMAIN codes[q] :
                 j \in DOMAIN codes'[q] /\ codes'[q][j] = codes[q][j]
           /\ \A q \in Phones : q # p => codes'[q] = codes[q]
           /\ Len(codes[p]) + 1 \notin DOMAIN codes[p]
           /\ DOMAIN codes'[p] = DOMAIN codes[p] \cup {Len(codes[p]) + 1}
           /\ codes'[p][Len(codes[p]) + 1] = NewCode
  <1>1. codes[p] \in Seq(Codes) /\ NewCode \in Codes
    BY DEF IdentityTypeOK, NewCode, Codes
  <1>2. PICK t : t = Append(codes[p], NewCode)
    OBVIOUS
  <1>3. /\ t \in Seq(Codes) /\ Len(t) = Len(codes[p]) + 1
        /\ \A j \in 1..Len(codes[p]) : t[j] = codes[p][j]
        /\ t[Len(codes[p]) + 1] = NewCode
    BY <1>1, <1>2, AppendProperties
  <1>4. codes'[p] = t /\ \A q \in Phones : q # p => codes'[q] = codes[q]
    BY <1>2 DEF IdentityTypeOK
  <1>5. codes' \in [Phones -> Seq(Codes)]
    BY <1>2, <1>3 DEF IdentityTypeOK
  <1>6. DOMAIN codes[p] = 1..Len(codes[p]) /\ DOMAIN t = 1..(Len(codes[p]) + 1)
        /\ Len(codes[p]) \in Nat
    BY <1>1, <1>3
  <1>7. DOMAIN codes'[p] = DOMAIN codes[p] \cup {Len(codes[p]) + 1}
        /\ Len(codes[p]) + 1 \notin DOMAIN codes[p]
    BY <1>4, <1>6
  <1>8. ASSUME NEW q \in Phones, NEW j \in DOMAIN codes[q]
        PROVE  j \in DOMAIN codes'[q] /\ codes'[q][j] = codes[q][j]
    <2>1. CASE q # p
      BY <1>4, <2>1
    <2>2. CASE q = p
      BY <1>3, <1>4, <1>6, <1>7, <2>2
    <2>3. QED
      BY <2>1, <2>2
  <1>9. QED
    BY <1>3, <1>4, <1>5, <1>7, <1>8

\* request_otp's row: the window grows by the code a pending request stood for.
LEMMA InsertStep ==
    ASSUME IdentityTypeOK, IdentityTypeOK', CodesInv, NEW w \in Workers, RequestInsert(w)
    PROVE  CodesInv'
  <1>0. PICK p \in Phones : p = tx[w].phone
    BY DEF RequestInsert, CodesInv, HolderOK
  <1>1. tx'[w] = IdleTx /\ OthersIdle(w)
    BY DoneWrites DEF RequestInsert
  <1>2. codes' = [codes EXCEPT ![p] = Append(@, NewCode)] /\ UNCHANGED granted
    BY <1>0 DEF RequestInsert
  <1>3. PICK n : n = Len(codes[p]) + 1
    OBVIOUS
  <1>4. /\ \A q \in Phones : \A j \in DOMAIN codes[q] :
                 j \in DOMAIN codes'[q] /\ codes'[q][j] = codes[q][j]
        /\ \A q \in Phones : q # p => codes'[q] = codes[q]
        /\ n \notin DOMAIN codes[p]
        /\ DOMAIN codes'[p] = DOMAIN codes[p] \cup {n}
        /\ codes'[p][n] = NewCode
    BY <1>2, <1>3, InsertWrites
  <1>5. ASSUME NEW v \in Workers PROVE HolderOK(v)'
    <2>1. CASE v # w
      <3>1. tx'[v] = tx[v] /\ HolderOK(v)
        BY <1>1, <2>1 DEF OthersIdle, CodesInv
      <3>2. CodesKept(v)
        BY <1>4 DEF CodesKept
      <3>3. QED
        BY <1>2, <3>1, <3>2, HolderKept
    <2>2. CASE v = w
      BY <1>1, <2>2 DEF HolderOK, IdleTx
    <2>3. QED
      BY <2>1, <2>2
  <1>6. OneLock'
    <2>1. tx'[w].phase # "locked"
      BY <1>1 DEF IdleTx
    <2>2. QED
      BY <1>1, <2>1, LockKept DEF CodesInv
  <1>7. CodeSpentOnce'
    <2> SUFFICES ASSUME NEW q \in Phones, NEW j \in DOMAIN codes'[q]
                 PROVE  LET c == codes'[q][j] IN
                        /\ c.accepted = IF c.consumed THEN 1 ELSE 0
                        /\ c.wrong = c.attempts /\ c.attempts <= OtpMaxAttempts
      BY DEF CodeSpentOnce
    <2>1. CASE j \in DOMAIN codes[q]
      BY <1>4, <2>1 DEF CodesInv, CodeSpentOnce
    <2>2. CASE j \notin DOMAIN codes[q]
      <3>1. codes'[q][j] = NewCode
        BY <1>4, <2>2
      <3>2. QED
        BY <3>1, IdentityAssumption DEF NewCode
    <2>3. QED
      BY <2>1, <2>2
  <1>8. WindowInv'
    <2> SUFFICES ASSUME NEW q \in Phones
                 PROVE  (Cardinality(InWindow(q)) + Cardinality(Pending(q))
                           < MaxOtpPerWindow + Cardinality(Workers))'
      BY DEF WindowInv
    <2>0. Cardinality(InWindow(q)) + Cardinality(Pending(q))
            < MaxOtpPerWindow + Cardinality(Workers)
      BY DEF CodesInv, WindowInv
    <2>1. CASE q # p
      <3>1. InWindow(q)' = InWindow(q)
        BY <1>4, <2>1 DEF InWindow
      <3>2. Pending(q)' \subseteq Pending(q)
        BY <1>1 DEF Pending, OthersIdle, IdleTx
      <3>3. QED
        BY <2>0, <3>1, <3>2, WindowShrinks
    <2>2. CASE q = p
      <3>1. PICK A, B, C, D : /\ A = InWindow(q) /\ B = Pending(q)
                              /\ C = InWindow(q)' /\ D = Pending(q)'
        OBVIOUS
      <3>2. NewCode.recent
        BY DEF NewCode
      <3>3. C = A \cup {n} /\ n \notin A
        BY <1>4, <2>2, <3>1, <3>2 DEF InWindow
      <3>4. D = B \ {w} /\ w \in B
        BY <1>0, <1>1, <2>2, <3>1 DEF Pending, OthersIdle, IdleTx, RequestInsert
      <3>5. IsFiniteSet(A) /\ IsFiniteSet(B) /\ Cardinality(A) \in Nat /\ Cardinality(B) \in Nat
        BY <3>1, WindowFinite
      <3>6. Cardinality(C) = Cardinality(A) + 1
        BY <3>3, <3>5, FS_AddElement
      <3>7. Cardinality(D) = Cardinality(B) - 1
        BY <3>4, <3>5, FS_RemoveElement
      <3>8. Cardinality(C) + Cardinality(D) = Cardinality(A) + Cardinality(B)
        BY <3>5, <3>6, <3>7
      <3>9. QED
        BY <2>0, <3>1, <3>8
    <2>3. QED
      BY <2>1, <2>2
  <1>9. QED
    BY <1>5, <1>6, <1>7, <1>8 DEF CodesInv

\* verify_otp takes a code's lock: the code is still undecided and nobody else has it.
LEMMA LockStep ==
    ASSUME IdentityTypeOK, IdentityTypeOK', CodesInv, NEW w \in Workers, VerifyLock(w)
    PROVE  CodesInv'
  <1>0. PICK p \in Phones : p = tx[w].phone
    BY DEF VerifyLock, CodesInv, HolderOK
  <1>1. PICK i \in tx[w].seen \cap Unconsumed(p) :
            /\ CodeFree(p, i)
            /\ codes[p][i].attempts < OtpMaxAttempts
            /\ tx' = [tx EXCEPT ![w].phase = "locked", ![w].seen = {}, ![w].row = i]
    BY <1>0 DEF VerifyLock
  <1>2. tx'[w].phase = "locked" /\ tx'[w].phone = p /\ tx'[w].row = i /\ OthersIdle(w)
    BY <1>0, <1>1 DEF IdentityTypeOK, WorkerTx, OthersIdle
  <1>3. UNCHANGED codes /\ UNCHANGED granted
    BY DEF VerifyLock
  <1>4. i \in DOMAIN codes[p] /\ Guessable(codes[p][i])
    BY <1>1 DEF Unconsumed, Guessable
  <1>5. ASSUME NEW v \in Workers PROVE HolderOK(v)'
    <2>1. CASE v # w
      <3>1. tx'[v] = tx[v] /\ HolderOK(v) /\ CodesKept(v)
        BY <1>2, <1>3, <2>1 DEF OthersIdle, CodesInv, CodesKept
      <3>2. QED
        BY <1>3, <3>1, HolderKept
    <2>2. CASE v = w
      <3>1. Guessable(codes[p][i])'
        BY <1>3, <1>4 DEF Guessable
      <3>2. i \in DOMAIN codes'[p] /\ Guessable(codes'[p][i])
        BY <1>3, <1>4 DEF Guessable
      <3>3. QED
        BY <1>2, <2>2, <3>2 DEF HolderOK, Guessable
    <2>3. QED
      BY <2>1, <2>2
  <1>6. OneLock'
    <2>1. \A v \in Workers : ~(tx[v].phase = "locked" /\ tx[v].phone = p /\ tx[v].row = i)
      BY <1>1 DEF CodeFree
    <2>2. QED
      BY <1>2, <2>1 DEF OneLock, OthersIdle, CodesInv
  <1>7. CodeSpentOnce'
    BY <1>3 DEF CodesInv, CodeSpentOnce
  <1>8. WindowInv'
    <2> SUFFICES ASSUME NEW q \in Phones
                 PROVE  (Cardinality(InWindow(q)) + Cardinality(Pending(q))
                           < MaxOtpPerWindow + Cardinality(Workers))'
      BY DEF WindowInv
    <2>1. InWindow(q)' = InWindow(q)
      BY <1>3 DEF InWindow
    <2>2. Pending(q)' \subseteq Pending(q)
      BY <1>2 DEF Pending, OthersIdle
    <2>3. Cardinality(InWindow(q)) + Cardinality(Pending(q))
            < MaxOtpPerWindow + Cardinality(Workers)
      BY DEF CodesInv, WindowInv
    <2>4. QED
      BY <2>1, <2>2, <2>3, WindowShrinks
  <1>9. QED
    BY <1>5, <1>6, <1>7, <1>8 DEF CodesInv

\* One code is overwritten: what has to be shown of it, and of the lock's holder.
LEMMA WriteStep ==
    ASSUME IdentityTypeOK, IdentityTypeOK', CodesInv,
           NEW p \in Phones, NEW i \in DOMAIN codes[p], NEW c \in Codes, WriteCode(p, i, c),
           c.accepted = IF c.consumed THEN 1 ELSE 0,
           c.wrong = c.attempts, c.attempts <= OtpMaxAttempts,
           c.recent => codes[p][i].recent, UNCHANGED granted,
           \A v \in Workers :
              \/ tx'[v] = IdleTx
              \/ /\ tx'[v] = tx[v]
                 /\ tx[v].phase = "locked" /\ tx[v].phone = p /\ tx[v].row = i
                       => (Guessable(codes[p][i]) => Guessable(c))
    PROVE  CodesInv'
  <1>1. /\ codes'[p][i] = c
        /\ \A q \in Phones : DOMAIN codes'[q] = DOMAIN codes[q]
        /\ \A q \in Phones : \A j \in DOMAIN codes[q] :
              <<q, j>> # <<p, i>> => codes'[q][j] = codes[q][j]
    BY CodeWritten
  <1>2. ASSUME NEW v \in Workers PROVE HolderOK(v)'
    <2>1. CASE tx'[v] = IdleTx
      BY <2>1 DEF HolderOK, IdleTx
    <2>2. CASE /\ tx'[v] = tx[v]
               /\ tx[v].phase = "locked" /\ tx[v].phone = p /\ tx[v].row = i
                    => (Guessable(codes[p][i]) => Guessable(c))
      <3>1. CodesKept(v)
        <4> SUFFICES ASSUME NEW q \in Phones, NEW j \in DOMAIN codes[q]
                     PROVE  /\ j \in DOMAIN codes'[q]
                            /\ tx[v].phase = "locked" /\ tx[v].phone = q /\ tx[v].row = j
                                  => (Guessable(codes[q][j]) => Guessable(codes'[q][j]))
          BY DEF CodesKept
        <4>1. CASE <<q, j>> # <<p, i>>
          BY <1>1, <4>1
        <4>2. CASE q = p /\ j = i
          BY <1>1, <2>2, <4>2
        <4>3. QED
          BY <4>1, <4>2
      <3>2. HolderOK(v) /\ granted \subseteq granted'
        BY DEF CodesInv
      <3>3. QED
        BY <2>2, <3>1, <3>2, HolderKept
    <2>3. QED
      BY <2>1, <2>2
  <1>3. OneLock'
    <2>1. \A v \in Workers : tx'[v].phase = "locked" => tx'[v] = tx[v]
      BY DEF IdleTx
    <2>2. QED
      BY <2>1 DEF OneLock, CodesInv
  <1>4. CodeSpentOnce'
    <2> SUFFICES ASSUME NEW q \in Phones, NEW j \in DOMAIN codes'[q]
                 PROVE  LET d == codes'[q][j] IN
                        /\ d.accepted = IF d.consumed THEN 1 ELSE 0
                        /\ d.wrong = d.attempts /\ d.attempts <= OtpMaxAttempts
      BY DEF CodeSpentOnce
    <2>1. CASE <<q, j>> # <<p, i>>
      <3>1. codes'[q][j] = codes[q][j] /\ j \in DOMAIN codes[q]
        BY <1>1, <2>1
      <3>2. QED
        BY <3>1 DEF CodesInv, CodeSpentOnce
    <2>2. CASE q = p /\ j = i
      BY <1>1, <2>2
    <2>3. QED
      BY <2>1, <2>2
  <1>5. WindowInv'
    <2> SUFFICES ASSUME NEW q \in Phones
                 PROVE  (Cardinality(InWindow(q)) + Cardinality(Pending(q))
                           < MaxOtpPerWindow + Cardinality(Workers))'
      BY DEF WindowInv
    <2>1. InWindow(q)' \subseteq InWindow(q)
      <3> SUFFICES ASSUME NEW j \in DOMAIN codes'[q], codes'[q][j].recent
                   PROVE  j \in DOMAIN codes[q] /\ codes[q][j].recent
        BY DEF InWindow
      <3>1. CASE <<q, j>> # <<p, i>>
        BY <1>1, <3>1
      <3>2. CASE q = p /\ j = i
        BY <1>1, <3>2
      <3>3. QED
        BY <3>1, <3>2
    <2>2. Pending(q)' \subseteq Pending(q)
      BY DEF Pending, IdleTx
    <2>3. Cardinality(InWindow(q)) + Cardinality(Pending(q))
            < MaxOtpPerWindow + Cardinality(Workers)
      BY DEF CodesInv, WindowInv
    <2>4. QED
      BY <2>1, <2>2, <2>3, WindowShrinks
  <1>6. QED
    BY <1>2, <1>3, <1>4, <1>5 DEF CodesInv

\* verify_otp decides: the holder of the lock spends the code or counts the miss.
LEMMA VerdictStep ==
    ASSUME IdentityTypeOK, IdentityTypeOK', CodesInv, NEW w \in Workers, VerifyCommit(w)
    PROVE  CodesInv'
  <1>0a. PICK p \in Phones : p = tx[w].phone
    BY DEF VerifyCommit, CodesInv, HolderOK
  <1>0. PICK i : p = tx[w].phone /\ i = tx[w].row
    BY <1>0a
  <1>1. i \in DOMAIN codes[p] /\ Guessable(codes[p][i])
    BY <1>0 DEF VerifyCommit, CodesInv, HolderOK
  <1>2. tx'[w] = IdleTx /\ OthersIdle(w) /\ UNCHANGED granted
    BY DoneWrites DEF VerifyCommit
  <1>3. PICK b : b = codes[p][i]
    OBVIOUS
  <1>4. b \in Codes
    BY <1>1, <1>3 DEF IdentityTypeOK
  <1>5. b.accepted = 0 /\ ~b.consumed /\ b.wrong = b.attempts /\ b.attempts < OtpMaxAttempts
    BY <1>1, <1>3 DEF CodesInv, CodeSpentOnce, Guessable
  <1>6. PICK c : (c = Spent(b) \/ c = Missed(b)) /\ WriteCode(p, i, c)
    BY <1>0, <1>3 DEF VerifyCommit
  <1>7. /\ c \in Codes
        /\ c.accepted = IF c.consumed THEN 1 ELSE 0
        /\ c.wrong = c.attempts /\ c.attempts <= OtpMaxAttempts
        /\ c.recent = b.recent
    <2>1. CASE c = Spent(b)
      <3>1. /\ c.accepted = b.accepted + 1 /\ c.consumed = TRUE
            /\ c.wrong = b.wrong /\ c.attempts = b.attempts /\ c.recent = b.recent
        BY <1>4, <2>1 DEF Spent, Codes
      <3>2. b.accepted + 1 = 1 /\ b.attempts <= OtpMaxAttempts
        BY <1>4, <1>5, IdentityAssumption DEF Codes
      <3>3. c \in Codes
        <4>1. PICK n \in Nat : n = b.accepted + 1
          BY <1>4 DEF Codes
        <4>2. c = [b EXCEPT !.consumed = TRUE, !.accepted = n]
          BY <2>1, <4>1 DEF Spent
        <4>3. QED
          BY <1>4, <4>2 DEF Codes
      <3>4. QED
        BY <1>5, <3>1, <3>2, <3>3
    <2>2. CASE c = Missed(b)
      <3>1. /\ c.accepted = b.accepted /\ c.consumed = b.consumed
            /\ c.wrong = b.wrong + 1 /\ c.attempts = b.attempts + 1 /\ c.recent = b.recent
        BY <1>4, <2>2 DEF Missed, Codes
      <3>2. b.attempts + 1 <= OtpMaxAttempts
        BY <1>4, <1>5, IdentityAssumption DEF Codes
      <3>3. c \in Codes
        <4>1. PICK n \in Nat, m \in Nat : n = b.attempts + 1 /\ m = b.wrong + 1
          BY <1>4 DEF Codes
        <4>2. c = [b EXCEPT !.attempts = n, !.wrong = m]
          BY <2>2, <4>1 DEF Missed
        <4>3. QED
          BY <1>4, <4>2 DEF Codes
      <3>4. QED
        BY <1>5, <3>1, <3>2, <3>3
    <2>3. QED
      BY <1>6, <2>1, <2>2
  <1>8. ASSUME NEW v \in Workers, v # w
        PROVE  tx'[v] = tx[v] /\ ~(tx[v].phase = "locked" /\ tx[v].phone = p /\ tx[v].row = i)
    BY <1>0, <1>2, <1>8 DEF OthersIdle, CodesInv, OneLock, VerifyCommit
  <1>9. QED
    BY <1>1, <1>2, <1>3, <1>6, <1>7, <1>8, WriteStep

\* Time passes for a code: it expires or leaves the window.
LEMMA ClockStep ==
    ASSUME IdentityTypeOK, IdentityTypeOK', CodesInv, NEW p \in Phones, NEW i \in DOMAIN codes[p],
           CodeExpires(p, i) \/ LeavesWindow(p, i)
    PROVE  CodesInv'
  <1>1. PICK b : b = codes[p][i]
    OBVIOUS
  <1>2. b \in Codes
    BY <1>1 DEF IdentityTypeOK
  <1>3. PICK c : /\ c = [b EXCEPT !.expired = TRUE] \/ c = [b EXCEPT !.recent = FALSE]
                 /\ WriteCode(p, i, c)
    BY <1>1 DEF CodeExpires, LeavesWindow
  <1>4. /\ b.accepted = IF b.consumed THEN 1 ELSE 0
        /\ b.wrong = b.attempts /\ b.attempts <= OtpMaxAttempts
    BY <1>1 DEF CodesInv, CodeSpentOnce
  <1>5. /\ c \in Codes
        /\ c.accepted = b.accepted /\ c.consumed = b.consumed
        /\ c.wrong = b.wrong /\ c.attempts = b.attempts
        /\ c.recent => b.recent
    <2>1. CASE c = [b EXCEPT !.expired = TRUE]
      BY <1>2, <2>1 DEF Codes
    <2>2. CASE c = [b EXCEPT !.recent = FALSE]
      BY <1>2, <2>2 DEF Codes
    <2>3. QED
      BY <1>3, <2>1, <2>2
  <1>6. Guessable(codes[p][i]) => Guessable(c)
    BY <1>1, <1>5 DEF Guessable
  <1>7. UNCHANGED tx /\ UNCHANGED granted
    BY DEF CodeExpires, LeavesWindow
  <1>8. \A v \in Workers : tx'[v] = tx[v]
    BY <1>7
  <1>9. QED
    BY <1>1, <1>3, <1>4, <1>5, <1>6, <1>7, <1>8, WriteStep

----------------------------------------------------------------------------
(* Links, owners and the bootstrap                                          *)

\* A fresh key is a key no audit row names.
LEMMA NewIdFresh ==
    ASSUME granted \subseteq LinkIds, granted # LinkIds
    PROVE  NewId \in LinkIds /\ NewId \notin granted
  <1>1. \E n \in LinkIds : n \notin granted
    OBVIOUS
  <1>2. QED
    BY <1>1 DEF NewId

\* A created link is audited under a key of its own, and the pair was free.
LEMMA LinkCreatedKeeps ==
    ASSUME IdentityTypeOK, RolesInv, NEW p \in Phones, NEW r \in AllRoles,
           LinkCreated(p, r), UNCHANGED revoked
    PROVE  /\ links' \subseteq Links /\ granted' \subseteq LinkIds
           /\ RolesInv' /\ links \subseteq links' /\ granted \subseteq granted'
           /\ \E l \in links' : l.phone = p /\ l.role = r
  <1>1. PICK n : n = NewId
    OBVIOUS
  <1>2. n \in LinkIds /\ n \notin granted
    BY <1>1, NewIdFresh DEF LinkCreated, IdentityTypeOK
  <1>3. PICK k : k = [id |-> n, phone |-> p, role |-> r]
    OBVIOUS
  <1>4. k \in Links /\ k.id = n /\ k.phone = p /\ k.role = r
    BY <1>2, <1>3 DEF Links
  <1>5. links' = links \cup {k} /\ granted' = granted \cup {n}
    BY <1>1, <1>3 DEF LinkCreated
  <1>6. {l.id : l \in links'} = {l.id : l \in links} \cup {n}
    BY <1>4, <1>5
  <1>7. n \notin revoked
    BY <1>2 DEF RolesInv
  <1>8. {l.id : l \in links'} = granted' \ revoked'
    BY <1>5, <1>6, <1>7 DEF RolesInv, RolesAudited
  <1>9. ASSUME NEW a \in links', NEW b \in links', a.phone = b.phone, a.role = b.role
        PROVE  a = b
    <2>1. \A l \in links : ~(l.phone = p /\ l.role = r)
      BY DEF LinkCreated, LinkOf
    <2>2. QED
      BY <1>4, <1>5, <1>9, <2>1 DEF RolesInv, RolesAudited
  <1>10. RolesInv'
    BY <1>5, <1>8, <1>9 DEF RolesInv, RolesAudited
  <1>11. QED
    BY <1>2, <1>4, <1>5, <1>10 DEF IdentityTypeOK

\* A deletion by primary key removes what its audit row names and nothing else.
LEMMA RevokeKeeps ==
    ASSUME IdentityTypeOK, CodesInv, RolesInv, NEW w \in Workers, RevokeDelete(w)
    PROVE  links' \subseteq Links /\ revoked' \subseteq LinkIds /\ RolesInv'
  <1>1. PICK n : n = tx[w].row
    OBVIOUS
  <1>2. n \in granted
    BY <1>1 DEF RevokeDelete, CodesInv, HolderOK
  <1>3. links' = {l \in links : l.id # n} /\ revoked' = revoked \cup {n} /\ granted' = granted
    BY <1>1 DEF RevokeDelete
  <1>4. {l.id : l \in links'} = {l.id : l \in links} \ {n}
    BY <1>3
  <1>5. {l.id : l \in links'} = granted' \ revoked'
    BY <1>3, <1>4 DEF RolesInv, RolesAudited
  <1>6. \A a, b \in links' : a.phone = b.phone /\ a.role = b.role => a = b
    BY <1>3 DEF RolesInv, RolesAudited
  <1>7. QED
    BY <1>2, <1>3, <1>5, <1>6 DEF RolesInv, RolesAudited, IdentityTypeOK

\* An active owner is an active account with a link to OWNER.
LEMMA OwnerMeans ==
    ASSUME NEW p \in Phones
    PROVE  p \in ActiveOwners <=>
              account[p] = "active" /\ \E l \in links : l.phone = p /\ l.role = "OWNER"
  BY DEF ActiveOwners, HasRole, RolesOf

\* Owners survive when no account and no link is lost.
LEMMA OwnersKept ==
    ASSUME NEW p \in Phones, p \in ActiveOwners, account'[p] = account[p], links \subseteq links'
    PROVE  p \in ActiveOwners'
  <1>1. account[p] = "active" /\ \E l \in links : l.phone = p /\ l.role = "OWNER"
    BY OwnerMeans
  <1>2. account'[p] = "active" /\ \E l \in links' : l.phone = p /\ l.role = "OWNER"
    BY <1>1
  <1>3. QED
    BY <1>2 DEF ActiveOwners, HasRole, RolesOf

\* A step that starts no bootstrap and crowns nobody.
LEMMA BootKept ==
    ASSUME BootInv, reigns' \subseteq reigns, reigns' \subseteq ActiveOwners',
           \A v \in Workers : tx'[v].phase = "booting" => tx[v].phase = "booting"
    PROVE  BootInv'
  BY DEF BootInv, BootstrapsExclude

\* The same, when accounts and links are not touched.
LEMMA BootUntouched ==
    ASSUME IdentityTypeOK, BootInv, UNCHANGED <<reigns, account>>, links \subseteq links',
           \A v \in Workers : tx'[v].phase = "booting" => tx[v].phase = "booting"
    PROVE  BootInv'
  <1>1. \A p \in reigns : p \in Phones /\ p \in ActiveOwners
    BY DEF BootInv, IdentityTypeOK
  <1>2. \A p \in reigns : account'[p] = account[p]
    OBVIOUS
  <1>3. reigns \subseteq ActiveOwners'
    BY <1>1, <1>2, OwnersKept
  <1>4. reigns' \subseteq ActiveOwners' /\ reigns' \subseteq reigns
    BY <1>3
  <1>5. QED
    BY <1>4, BootKept

\* Of the worker of a step, and of the others, nobody new is bootstrapping.
LEMMA NotBooting ==
    ASSUME NEW w \in Workers, OthersIdle(w), tx'[w].phase # "booting"
    PROVE  \A v \in Workers : tx'[v].phase = "booting" => tx[v].phase = "booting"
  BY DEF OthersIdle

LEMMA RevokeBoot ==
    ASSUME IdentityTypeOK, BootInv, NEW w \in Workers, RevokeDelete(w)
    PROVE  BootInv'
  <1>1. PICK n : n = tx[w].row
    OBVIOUS
  <1>2. /\ links' = {l \in links : l.id # n}
        /\ reigns' = {p \in reigns : [id |-> n, phone |-> p, role |-> "OWNER"] \notin links}
        /\ account' = account
    BY <1>1 DEF RevokeDelete
  <1>3. ASSUME NEW p \in reigns' PROVE p \in ActiveOwners'
    <2>1. p \in reigns /\ p \in Phones /\ p \in ActiveOwners
          /\ [id |-> n, phone |-> p, role |-> "OWNER"] \notin links
      BY <1>2 DEF BootInv, IdentityTypeOK
    <2>2. account[p] = "active" /\ \E k \in links : k.phone = p /\ k.role = "OWNER"
      BY <2>1, OwnerMeans
    <2>3. PICK l \in links : l.phone = p /\ l.role = "OWNER"
      BY <2>2
    <2>4. l \in Links
      BY DEF IdentityTypeOK
    <2>5. l = [id |-> l.id, phone |-> p, role |-> "OWNER"]
      BY <2>3, <2>4 DEF Links
    <2>6. l.id # n
      BY <2>1, <2>5
    <2>7. l \in links'
      BY <1>2, <2>6
    <2>8. QED
      BY <1>2, <2>1, <2>2, <2>3, <2>7 DEF ActiveOwners, HasRole, RolesOf
  <1>4. tx'[w] = IdleTx /\ OthersIdle(w)
    BY DoneWrites DEF RevokeDelete
  <1>5. \A v \in Workers : tx'[v].phase = "booting" => tx[v].phase = "booting"
    BY <1>4, NotBooting DEF IdleTx
  <1>6. reigns' \subseteq reigns /\ reigns' \subseteq ActiveOwners'
    BY <1>2, <1>3
  <1>7. QED
    BY <1>5, <1>6, BootKept

\* A bootstrap starts only when nobody else's is running and no owner is active.
LEMMA BootLockStep ==
    ASSUME IdentityTypeOK, BootInv, NEW w \in Workers, NEW p \in Phones, BootstrapLock(w, p)
    PROVE  BootInv'
  <1>1. {} \in SUBSET Nat /\ "booting" \in IdentityPhases
    BY DEF IdentityPhases
  <1>2. OthersIdle(w)
    BY <1>1, StartsWrites DEF BootstrapLock
  <1>3. reigns = {} /\ reigns' = {}
    BY DEF BootstrapLock, BootInv
  <1>4. \A v \in Workers : tx'[v].phase = "booting" => v = w
    BY <1>2 DEF BootstrapLock, RoleRowFree, OthersIdle
  <1>5. QED
    BY <1>3, <1>4 DEF BootInv, BootstrapsExclude

\* A bootstrap ends with its phone as the only one that reigns.
LEMMA BootCommitStep ==
    ASSUME IdentityTypeOK, CodesInv, BootInv, RolesInv, NEW w \in Workers, BootstrapCommit(w)
    PROVE  /\ BootInv' /\ RolesInv'
           /\ links' \subseteq Links /\ granted' \subseteq LinkIds /\ granted \subseteq granted'
  <1>0. PICK p \in Phones : p = tx[w].phone
    BY DEF BootstrapCommit, CodesInv, HolderOK
  <1>1. LinkCreated(p, "OWNER") \/ LinkFound(p, "OWNER")
    BY <1>0 DEF BootstrapCommit
  <1>2. UNCHANGED revoked /\ account' = [account EXCEPT ![p] = "active"]
        /\ reigns' = reigns \cup {p}
    BY <1>0 DEF BootstrapCommit
  <1>3. /\ links' \subseteq Links /\ granted' \subseteq LinkIds
        /\ RolesInv' /\ granted \subseteq granted'
        /\ \E l \in links' : l.phone = p /\ l.role = "OWNER"
    <2>1. CASE LinkCreated(p, "OWNER")
      BY <1>2, <2>1, LinkCreatedKeeps DEF AllRoles
    <2>2. CASE LinkFound(p, "OWNER")
      BY <1>2, <2>2 DEF LinkFound, LinkOf, IdentityTypeOK, RolesInv, RolesAudited
    <2>3. QED
      BY <1>1, <2>1, <2>2
  <1>4. account'[p] = "active"
    BY <1>2 DEF IdentityTypeOK
  <1>5. p \in ActiveOwners'
    BY <1>3, <1>4 DEF ActiveOwners, HasRole, RolesOf
  <1>6. reigns' = {p}
    BY <1>2 DEF BootInv, BootstrapCommit
  <1>7. tx'[w] = IdleTx /\ OthersIdle(w)
    BY DoneWrites DEF BootstrapCommit
  <1>8. \A v \in Workers : tx'[v].phase # "booting"
    BY <1>7 DEF OthersIdle, IdleTx, BootInv, BootstrapCommit
  <1>9. QED
    BY <1>3, <1>5, <1>6, <1>8 DEF BootInv, BootstrapsExclude

----------------------------------------------------------------------------
(* Every step                                                               *)

\* Steps of a worker that end or begin a request and write nothing else.
LEMMA TxOnlyStep ==
    ASSUME IdentityInv, NEW w \in Workers, OthersIdle(w), tx' \in [Workers -> WorkerTx],
           UNCHANGED <<account, codes, links, granted, revoked, sessions, reigns>>,
           tx'[w].phase \notin {"counted", "locked", "booting"}, HolderOK(w)'
    PROVE  IdentityInv'
  <1>1. IdentityTypeOK'
    BY DEF IdentityInv, IdentityTypeOK
  <1>2. CodesInv'
    BY <1>1, QuietStep DEF IdentityInv
  <1>3. BootInv'
    BY NotBooting, BootUntouched DEF IdentityInv
  <1>4. RolesInv'
    BY DEF IdentityInv, RolesInv, RolesAudited
  <1>5. QED
    BY <1>1, <1>2, <1>3, <1>4 DEF IdentityInv

LEMMA GivesUpStep ==
    ASSUME IdentityInv, NEW w \in Workers, GivesUp(w)
    PROVE  IdentityInv'
  <1>1. tx' \in [Workers -> WorkerTx] /\ tx'[w] = IdleTx /\ OthersIdle(w)
    BY DoneWrites DEF GivesUp, IdentityInv
  <1>2. HolderOK(w)' /\ tx'[w].phase = "idle"
    BY <1>1 DEF HolderOK, IdleTx
  <1>3. QED
    BY <1>1, <1>2, TxOnlyStep DEF GivesUp

LEMMA OtpStep ==
    ASSUME IdentityInv, NEW w \in Workers, OtpRequestView(w) \/ OtpVerifyView(w)
    PROVE  IdentityInv'
  <1> USE DEF IdentityInv
  <1>0. /\ {} \in SUBSET Nat /\ "counted" \in IdentityPhases /\ "scanned" \in IdentityPhases
    BY DEF IdentityPhases
  <1>1. ASSUME NEW p \in Phones, RequestCount(w, p) PROVE IdentityInv'
    <2>1. tx' \in [Workers -> WorkerTx] /\ OthersIdle(w)
          /\ tx'[w] = [phase |-> "counted", phone |-> p, seen |-> {}, row |-> 0]
      BY <1>0, <1>1, StartsWrites DEF RequestCount
    <2>2. IdentityTypeOK'
      BY <1>1, <2>1 DEF RequestCount, IdentityTypeOK
    <2>3. CodesInv'
      BY <1>1, <2>2, CountStep
    <2>4. tx'[w].phase # "booting"
      BY <2>1
    <2>5. BootInv'
      BY <1>1, <2>1, <2>4, NotBooting, BootUntouched DEF RequestCount
    <2>6. RolesInv'
      BY <1>1 DEF RequestCount, RolesInv, RolesAudited
    <2>7. QED
      BY <2>2, <2>3, <2>5, <2>6
  <1>2. CASE RequestInsert(w)
    <2>1. tx' \in [Workers -> WorkerTx] /\ tx'[w] = IdleTx /\ OthersIdle(w)
      BY <1>2, DoneWrites DEF RequestInsert
    <2>2. PICK p \in Phones : p = tx[w].phone
      BY <1>2 DEF RequestInsert, CodesInv, HolderOK
    <2>3. codes' = [codes EXCEPT ![p] = Append(@, NewCode)]
      BY <1>2, <2>2 DEF RequestInsert
    <2>4. codes' \in [Phones -> Seq(Codes)]
      BY <2>3, InsertWrites
    <2>5. IdentityTypeOK'
      BY <1>2, <2>1, <2>4 DEF RequestInsert, IdentityTypeOK
    <2>6. CodesInv'
      BY <1>2, <2>5, InsertStep
    <2>7. tx'[w].phase # "booting"
      BY <2>1 DEF IdleTx
    <2>8. BootInv'
      BY <1>2, <2>1, <2>7, NotBooting, BootUntouched DEF RequestInsert
    <2>9. RolesInv'
      BY <1>2 DEF RequestInsert, RolesInv, RolesAudited
    <2>10. QED
      BY <2>5, <2>6, <2>8, <2>9
  <1>3. ASSUME NEW p \in Phones, VerifyScan(w, p) PROVE IdentityInv'
    <2>1. PICK seen : seen = Unconsumed(p)
      OBVIOUS
    <2>2. seen \subseteq DOMAIN codes[p] /\ seen \in SUBSET Nat
      BY <2>1 DEF Unconsumed, IdentityTypeOK
    <2>3. Starts(w, "scanned", p, seen)
      BY <1>3, <2>1 DEF VerifyScan
    <2>4. tx' \in [Workers -> WorkerTx] /\ OthersIdle(w)
          /\ tx'[w] = [phase |-> "scanned", phone |-> p, seen |-> seen, row |-> 0]
      BY <1>0, <2>2, <2>3, StartsWrites
    <2>5. HolderOK(w)' /\ tx'[w].phase = "scanned"
      BY <1>3, <2>2, <2>4 DEF VerifyScan, HolderOK
    <2>6. QED
      BY <1>3, <2>4, <2>5, TxOnlyStep DEF VerifyScan
  <1>4. CASE VerifyLock(w)
    <2>1. PICK i \in tx[w].seen :
             tx' = [tx EXCEPT ![w].phase = "locked", ![w].seen = {}, ![w].row = i]
      BY <1>4 DEF VerifyLock
    <2>2. i \in Nat
      BY DEF IdentityTypeOK, WorkerTx
    <2>3. tx' \in [Workers -> WorkerTx] /\ OthersIdle(w) /\ tx'[w].phase = "locked"
      BY <2>1, <2>2 DEF IdentityTypeOK, WorkerTx, IdentityPhases, OthersIdle
    <2>4. IdentityTypeOK'
      BY <1>4, <2>3 DEF VerifyLock, IdentityTypeOK
    <2>5. CodesInv'
      BY <1>4, <2>4, LockStep
    <2>6. BootInv'
      BY <1>4, <2>3, NotBooting, BootUntouched DEF VerifyLock
    <2>7. RolesInv'
      BY <1>4 DEF VerifyLock, RolesInv, RolesAudited
    <2>8. QED
      BY <2>4, <2>5, <2>6, <2>7
  <1>5. CASE VerifyCommit(w)
    <2>1. tx' \in [Workers -> WorkerTx] /\ tx'[w] = IdleTx /\ OthersIdle(w)
      BY <1>5, DoneWrites DEF VerifyCommit
    <2>2a. PICK p \in Phones : p = tx[w].phone
      BY <1>5 DEF VerifyCommit, CodesInv, HolderOK
    <2>2. PICK i : p = tx[w].phone /\ i = tx[w].row
      BY <2>2a
    <2>3. i \in DOMAIN codes[p]
      BY <1>5, <2>2 DEF VerifyCommit, CodesInv, HolderOK
    <2>4. PICK b : b = codes[p][i]
      OBVIOUS
    <2>5. b \in Codes
      BY <2>3, <2>4 DEF IdentityTypeOK
    <2>6. Spent(b) \in Codes
      <3>1. PICK n \in Nat : n = b.accepted + 1
        BY <2>5 DEF Codes
      <3>2. Spent(b) = [b EXCEPT !.consumed = TRUE, !.accepted = n]
        BY <3>1 DEF Spent
      <3>3. QED
        BY <2>5, <3>2 DEF Codes
    <2>7. Missed(b) \in Codes
      <3>1. PICK n \in Nat, m \in Nat : n = b.attempts + 1 /\ m = b.wrong + 1
        BY <2>5 DEF Codes
      <3>2. Missed(b) = [b EXCEPT !.attempts = n, !.wrong = m]
        BY <3>1 DEF Missed
      <3>3. QED
        BY <2>5, <3>2 DEF Codes
    <2>8. PICK c \in Codes : WriteCode(p, i, c)
      BY <1>5, <2>2, <2>4, <2>6, <2>7 DEF VerifyCommit
    <2>9. codes' \in [Phones -> Seq(Codes)]
      BY <2>3, <2>8, CodeWritten
    <2>10. IdentityTypeOK'
      BY <1>5, <2>1, <2>9 DEF VerifyCommit, IdentityTypeOK
    <2>11. CodesInv'
      BY <1>5, <2>10, VerdictStep
    <2>12. tx'[w].phase # "booting"
      BY <2>1 DEF IdleTx
    <2>13. BootInv'
      BY <1>5, <2>1, <2>12, NotBooting, BootUntouched DEF VerifyCommit
    <2>14. RolesInv'
      BY <1>5 DEF VerifyCommit, RolesInv, RolesAudited
    <2>15. QED
      BY <2>10, <2>11, <2>13, <2>14
  <1>6. QED
    BY <1>1, <1>2, <1>3, <1>4, <1>5 DEF OtpRequestView, OtpVerifyView

LEMMA OfficeStepInv ==
    ASSUME IdentityInv, NEW w \in Workers, OfficeStep(w)
    PROVE  IdentityInv'
  <1> USE DEF IdentityInv
  <1>1. ASSUME NEW p \in Phones, OwnerRequest(w, p) PROVE IdentityInv'
    <2>0. {} \in SUBSET Nat /\ "acting" \in IdentityPhases
      BY DEF IdentityPhases
    <2>1. tx' \in [Workers -> WorkerTx] /\ OthersIdle(w)
          /\ tx'[w] = [phase |-> "acting", phone |-> p, seen |-> {}, row |-> 0]
      BY <1>1, <2>0, StartsWrites DEF OwnerRequest
    <2>2. HolderOK(w)' /\ tx'[w].phase = "acting"
      BY <2>1 DEF HolderOK
    <2>3. QED
      BY <1>1, <2>1, <2>2, TxOnlyStep DEF OwnerRequest
  <1>2. ASSUME NEW p \in Phones, NEW r \in GrantedRoles, GrantRole(w, p, r) PROVE IdentityInv'
    <2>0. r \in AllRoles
      BY IdentityAssumption
    <2>1. tx' \in [Workers -> WorkerTx] /\ tx'[w] = IdleTx /\ OthersIdle(w)
      BY <1>2, DoneWrites DEF GrantRole
    <2>2. LinkCreated(p, r) /\ UNCHANGED revoked
      BY <1>2 DEF GrantRole
    <2>3. /\ links' \subseteq Links /\ granted' \subseteq LinkIds
          /\ RolesInv' /\ links \subseteq links' /\ granted \subseteq granted'
      BY <2>0, <2>2, LinkCreatedKeeps
    <2>4. IdentityTypeOK'
      BY <1>2, <2>1, <2>3 DEF GrantRole, IdentityTypeOK
    <2>5. HolderOK(w)' /\ tx'[w].phase = "idle"
      BY <2>1 DEF HolderOK, IdleTx
    <2>6. CodesInv'
      BY <1>2, <2>1, <2>3, <2>4, <2>5, QuietStep DEF GrantRole
    <2>7. BootInv'
      BY <1>2, <2>1, <2>3, <2>5, NotBooting, BootUntouched DEF GrantRole
    <2>8. QED
      BY <2>3, <2>4, <2>6, <2>7
  <1>3. ASSUME NEW p \in Phones, NEW r \in GrantedRoles, RevokeFind(w, p, r) PROVE IdentityInv'
    <2>1. PICK l \in links :
             tx' = [tx EXCEPT ![w].phase = "revoking", ![w].phone = p, ![w].row = l.id]
      BY <1>3 DEF RevokeFind, LinkOf
    <2>2. l.id \in Nat /\ l.id \in granted
      BY IdentityAssumption DEF IdentityTypeOK, Links, RolesInv, RolesAudited
    <2>a. tx \in [Workers -> WorkerTx] /\ tx[w] \in WorkerTx
      BY DEF IdentityTypeOK
    <2>b. [tx[w] EXCEPT !.phase = "revoking", !.phone = p, !.row = l.id] \in WorkerTx
      BY <2>2, <2>a DEF WorkerTx, IdentityPhases
    <2>c. tx'[w].phase = "revoking" /\ tx'[w].row = l.id
      BY <2>1, <2>a DEF WorkerTx
    <2>d. OthersIdle(w)
      BY <2>1, <2>a DEF OthersIdle
    <2>3. tx' \in [Workers -> WorkerTx] /\ OthersIdle(w)
          /\ tx'[w].phase = "revoking" /\ tx'[w].row = l.id
      BY <2>1, <2>a, <2>b, <2>c, <2>d
    <2>4. HolderOK(w)'
      BY <1>3, <2>2, <2>3 DEF HolderOK, RevokeFind
    <2>5. QED
      BY <1>3, <2>3, <2>4, TxOnlyStep DEF RevokeFind
  <1>4. CASE RevokeDelete(w)
    <2>1. tx' \in [Workers -> WorkerTx] /\ tx'[w] = IdleTx /\ OthersIdle(w)
      BY <1>4, DoneWrites DEF RevokeDelete
    <2>2. links' \subseteq Links /\ revoked' \subseteq LinkIds /\ RolesInv'
      BY <1>4, RevokeKeeps
    <2>3. IdentityTypeOK'
      BY <1>4, <2>1, <2>2 DEF RevokeDelete, IdentityTypeOK
    <2>4. HolderOK(w)' /\ tx'[w].phase = "idle"
      BY <2>1 DEF HolderOK, IdleTx
    <2>5. CodesInv'
      BY <1>4, <2>1, <2>3, <2>4, QuietStep DEF RevokeDelete
    <2>6. QED
      BY <1>4, <2>2, <2>3, <2>5, RevokeBoot
  <1>5. QED
    BY <1>1, <1>2, <1>3, <1>4 DEF OfficeStep

LEMMA BootstrapStep ==
    ASSUME IdentityInv, NEW w \in Workers, BootstrapCommand(w)
    PROVE  IdentityInv'
  <1> USE DEF IdentityInv
  <1>1. ASSUME NEW p \in Phones, BootstrapLock(w, p) PROVE IdentityInv'
    <2>0. {} \in SUBSET Nat /\ "booting" \in IdentityPhases
      BY DEF IdentityPhases
    <2>1. tx' \in [Workers -> WorkerTx] /\ OthersIdle(w)
          /\ tx'[w] = [phase |-> "booting", phone |-> p, seen |-> {}, row |-> 0]
      BY <1>1, <2>0, StartsWrites DEF BootstrapLock
    <2>2. IdentityTypeOK'
      BY <1>1, <2>1 DEF BootstrapLock, IdentityTypeOK
    <2>3. HolderOK(w)' /\ tx'[w].phase = "booting"
      BY <2>1 DEF HolderOK
    <2>4. CodesInv'
      BY <1>1, <2>1, <2>2, <2>3, QuietStep DEF BootstrapLock
    <2>5. RolesInv'
      BY <1>1 DEF BootstrapLock, RolesInv, RolesAudited
    <2>6. QED
      BY <1>1, <2>2, <2>4, <2>5, BootLockStep
  <1>2. CASE BootstrapCommit(w)
    <2>1. tx' \in [Workers -> WorkerTx] /\ tx'[w] = IdleTx /\ OthersIdle(w)
      BY <1>2, DoneWrites DEF BootstrapCommit
    <2>2. PICK p \in Phones : p = tx[w].phone
      BY <1>2 DEF BootstrapCommit, CodesInv, HolderOK
    <2>3. /\ BootInv' /\ RolesInv'
          /\ links' \subseteq Links /\ granted' \subseteq LinkIds /\ granted \subseteq granted'
      BY <1>2, BootCommitStep
    <2>4. IdentityTypeOK'
      BY <1>2, <2>1, <2>2, <2>3 DEF BootstrapCommit, IdentityTypeOK
    <2>5. HolderOK(w)' /\ tx'[w].phase = "idle"
      BY <2>1 DEF HolderOK, IdleTx
    <2>6. CodesInv'
      BY <1>2, <2>1, <2>3, <2>4, <2>5, QuietStep DEF BootstrapCommit
    <2>7. QED
      BY <2>3, <2>4, <2>6
  <1>3. QED
    BY <1>1, <1>2 DEF BootstrapCommand

\* Steps of nobody's request: time, accounts, sessions.
LEMMA ClockStepInv ==
    ASSUME IdentityInv, Clock
    PROVE  IdentityInv'
  <1> USE DEF IdentityInv
  <1>0. PICK p \in Phones : \E i \in DOMAIN codes[p] : CodeExpires(p, i) \/ LeavesWindow(p, i)
    BY DEF Clock
  <1>1. PICK i \in DOMAIN codes[p] : CodeExpires(p, i) \/ LeavesWindow(p, i)
    BY <1>0
  <1>2. PICK b : b = codes[p][i]
    OBVIOUS
  <1>3. b \in Codes
    BY <1>2 DEF IdentityTypeOK
  <1>4. [b EXCEPT !.expired = TRUE] \in Codes /\ [b EXCEPT !.recent = FALSE] \in Codes
    BY <1>3 DEF Codes
  <1>5. PICK c \in Codes : WriteCode(p, i, c)
    BY <1>1, <1>2, <1>4 DEF CodeExpires, LeavesWindow
  <1>6. codes' \in [Phones -> Seq(Codes)]
    BY <1>5, CodeWritten
  <1>7. UNCHANGED <<account, links, granted, revoked, sessions, reigns, tx>>
    BY <1>1 DEF CodeExpires, LeavesWindow
  <1>8. IdentityTypeOK'
    BY <1>6, <1>7 DEF IdentityTypeOK
  <1>9. CodesInv'
    BY <1>1, <1>8, ClockStep
  <1>10. BootInv'
    BY <1>7, BootUntouched
  <1>11. RolesInv'
    BY <1>7 DEF RolesInv, RolesAudited
  <1>12. QED
    BY <1>8, <1>9, <1>10, <1>11

LEMMA AccountStepInv ==
    ASSUME IdentityInv, AccountStep
    PROVE  IdentityInv'
  <1> USE DEF IdentityInv
  <1>1. PICK p \in Phones : CreateUser(p) \/ SetActive(p) \/ LoginView(p) \/ LogoutView(p)
    BY DEF AccountStep
  <1>2. UNCHANGED <<codes, links, granted, revoked, tx>>
    BY <1>1 DEF CreateUser, SetActive, LoginView, LogoutView
  <1>3. IdentityTypeOK'
    BY <1>1, <1>2 DEF CreateUser, SetActive, LoginView, LogoutView, IdentityTypeOK
  <1>4. CodesInv'
    BY <1>2 DEF CodesInv, HolderOK, Guessable, OneLock, CodeSpentOnce, WindowInv, InWindow, Pending
  <1>5. RolesInv'
    BY <1>2 DEF RolesInv, RolesAudited
  <1>6. /\ reigns' \subseteq reigns
        /\ \A q \in reigns' : account'[q] = account[q]
    <2>1. \A q \in reigns : q \in Phones /\ account[q] = "active"
      BY OwnerMeans DEF BootInv, IdentityTypeOK
    <2>2. QED
      BY <1>1, <2>1 DEF CreateUser, SetActive, LoginView, LogoutView, IdentityTypeOK
  <1>7. ASSUME NEW q \in reigns' PROVE q \in ActiveOwners'
    <2>1. q \in Phones /\ q \in ActiveOwners /\ account'[q] = account[q]
      BY <1>6 DEF BootInv, IdentityTypeOK
    <2>2. QED
      BY <1>2, <2>1, OwnersKept
  <1>8. reigns' \subseteq ActiveOwners'
    BY <1>7
  <1>9. BootInv'
    BY <1>2, <1>6, <1>8, BootKept
  <1>10. QED
    BY <1>3, <1>4, <1>5, <1>9

LEMMA IdentityNextInv == IdentityInv /\ [IdentityNext]_identityVars => IdentityInv'
  <1> SUFFICES ASSUME IdentityInv, [IdentityNext]_identityVars PROVE IdentityInv'
    OBVIOUS
  <1>1. CASE UNCHANGED identityVars
    BY <1>1 DEF identityVars, IdentityInv, IdentityTypeOK, CodesInv, HolderOK, Guessable, OneLock,
                CodeSpentOnce, WindowInv, InWindow, Pending, BootInv, BootstrapsExclude,
                ActiveOwners, HasRole, RolesOf, RolesInv, RolesAudited
  <1>2. CASE IdentityNext
    BY <1>2, OtpStep, OfficeStepInv, BootstrapStep, GivesUpStep, ClockStepInv, AccountStepInv
       DEF IdentityNext
  <1>3. QED
    BY <1>1, <1>2

\* The inductive invariant of codes, role links and the bootstrap holds throughout.
THEOREM IdentityInvariance == IdentitySpec => []IdentityInv
  BY IdentityInitInv, IdentityNextInv, PTL DEF IdentitySpec

\* verify_otp: a code is accepted once, every wrong guess is counted and the count is
\* bounded, for any number of workers and codes.
THEOREM CodeSpentOnceHolds == IdentitySpec => []CodeSpentOnce
  <1>1. IdentityInv => CodeSpentOnce
    BY DEF IdentityInv, CodesInv
  <1>2. QED
    BY <1>1, IdentityInvariance, PTL

\* request_otp: the window holds fewer codes than the limit and the workers together.
THEOREM WindowBoundedHolds == IdentitySpec => []WindowBounded
  <1>1. IdentityInv => WindowBounded
    <2> SUFFICES ASSUME IdentityInv, NEW p \in Phones
                 PROVE  Cardinality(InWindow(p)) < MaxOtpPerWindow + Cardinality(Workers)
      BY DEF WindowBounded
    <2>1. Cardinality(InWindow(p)) + Cardinality(Pending(p))
            < MaxOtpPerWindow + Cardinality(Workers)
      BY DEF IdentityInv, CodesInv, WindowInv
    <2>2. /\ Cardinality(InWindow(p)) \in Nat /\ Cardinality(Pending(p)) \in Nat
          /\ Cardinality(Workers) \in Nat
      BY WindowFinite DEF IdentityInv
    <2>3. QED
      BY <2>1, <2>2, IdentityAssumption
  <1>2. QED
    BY <1>1, IdentityInvariance, PTL

\* bootstrap_owner: two bootstraps never leave two owners that have both reigned since.
THEOREM BootstrapsExcludeHolds == IdentitySpec => []BootstrapsExclude
  <1>1. IdentityInv => BootstrapsExclude
    BY DEF IdentityInv, BootInv
  <1>2. QED
    BY <1>1, IdentityInvariance, PTL

\* grant_role, revoke_role and bootstrap_owner: the audit trail accounts for the links.
THEOREM RolesAuditedHolds == IdentitySpec => []RolesAudited
  <1>1. IdentityInv => RolesAudited
    BY DEF IdentityInv, RolesInv
  <1>2. QED
    BY <1>1, IdentityInvariance, PTL
===============================================================================
