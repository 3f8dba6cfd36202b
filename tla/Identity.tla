------------------------------- MODULE Identity -------------------------------
(****************************************************************************)
(* Who may sign in and who may act: the one-time codes, the role links and  *)
(* the break-glass bootstrap of identity/services.py, with the views that   *)
(* call them.                                                               *)
(*                                                                          *)
(* request_otp counts and then inserts in two autocommit statements.        *)
(* verify_otp is one READ COMMITTED transaction: the statement's snapshot   *)
(* finds the unconsumed codes, the row lock may have to wait, and a row     *)
(* that was consumed meanwhile is skipped for the next one of the snapshot. *)
(* The role services are handed an actor whose roles were cached when the   *)
(* request began. Phones are in the canonical form of normalise_phone,      *)
(* which every entry point applies before it reads or writes.               *)
(****************************************************************************)
EXTENDS Naturals, Sequences, FiniteSets

CONSTANTS Phones,           \* canonical phone numbers, the login identity
          NoPhone,          \* the phone of a worker that is not at work
          Workers,          \* the processes that serve requests and commands
          GrantedRoles,     \* bound: the roles that requests ask for
          MaxOtpPerWindow,  \* _MAX_OTP_PER_WINDOW
          OtpMaxAttempts,   \* OTP_MAX_ATTEMPTS
          LinkIds,          \* bound: the primary keys user_role may use
          MaxRows           \* bound: codes and links ever created

\* core/permissions.py: the four seeded roles.
AllRoles == {"OWNER", "SALESMAN", "DELIVERY", "RETAILER"}
Internal == {"OWNER", "SALESMAN", "DELIVERY"}

ASSUME IdentityAssumption ==
    /\ NoPhone \notin Phones
    /\ IsFiniteSet(Workers)
    /\ GrantedRoles \subseteq AllRoles
    /\ MaxOtpPerWindow \in Nat \ {0}
    /\ OtpMaxAttempts \in Nat
    /\ LinkIds \subseteq Nat /\ IsFiniteSet(LinkIds)

VARIABLES
    account,   \* app_user by phone: no row, or is_active
    codes,     \* otp_request by phone, oldest first
    links,     \* the rows of user_role
    granted,   \* the links that ROLE_GRANT and OWNER_BOOTSTRAP audit rows name
    revoked,   \* the links that ROLE_REVOKE audit rows name
    sessions,  \* the phones with an open web session
    reigns,    \* history: bootstrapped, and an active owner ever since
    tx         \* what each worker is in the middle of

identityVars == <<account, codes, links, granted, revoked, sessions, reigns, tx>>

\* A code: whether the 15-minute window still counts it, whether it has expired,
\* its attempt_count and consumed_at, and (history) how often it was accepted and
\* how often a wrong guess was answered.
Codes == [recent : BOOLEAN, expired : BOOLEAN, attempts : Nat, consumed : BOOLEAN,
          accepted : Nat, wrong : Nat]
NewCode == [recent |-> TRUE, expired |-> FALSE, attempts |-> 0, consumed |-> FALSE,
            accepted |-> 0, wrong |-> 0]

Links == [id : LinkIds, phone : Phones, role : AllRoles]

IdentityPhases == {"idle", "counted", "scanned", "locked", "acting", "revoking", "booting"}

\* A request at work: on which phone, with the codes its statement's snapshot saw,
\* and the row (a code's position or a link's key) it holds.
WorkerTx == [phase : IdentityPhases, phone : Phones \cup {NoPhone}, seen : SUBSET Nat, row : Nat]
IdleTx == [phase |-> "idle", phone |-> NoPhone, seen |-> {}, row |-> 0]

IdentityTypeOK ==
    /\ account \in [Phones -> {"none", "active", "inactive"}]
    /\ codes \in [Phones -> Seq(Codes)]
    /\ links \subseteq Links
    /\ granted \subseteq LinkIds /\ revoked \subseteq LinkIds
    /\ sessions \subseteq Phones
    /\ reigns \subseteq Phones
    /\ tx \in [Workers -> WorkerTx]

IdentityInit ==
    /\ account \in [Phones -> {"none", "active"}]
    /\ codes = [p \in Phones |-> <<>>]
    /\ links = {} /\ granted = {} /\ revoked = {}
    /\ sessions = {}
    /\ reigns = {}
    /\ tx = [w \in Workers |-> IdleTx]

----------------------------------------------------------------------------
(* A worker and its transaction                                             *)

Starts(w, phase, p, seen) ==
    /\ tx[w].phase = "idle"
    /\ tx' = [tx EXCEPT ![w] = [phase |-> phase, phone |-> p, seen |-> seen, row |-> 0]]

Done(w) == tx' = [tx EXCEPT ![w] = IdleTx]

\* A refusal, a request that has nothing to do, or a process that dies: what was not
\* committed leaves no trace.
GivesUp(w) ==
    /\ tx[w].phase # "idle"
    /\ Done(w)
    /\ UNCHANGED <<account, codes, links, granted, revoked, sessions, reigns>>

RowsMade == Cardinality(granted) + Cardinality(UNION {{p} \X DOMAIN codes[p] : p \in Phones})

----------------------------------------------------------------------------
(* One-time codes                                                           *)

InWindow(p) == {i \in DOMAIN codes[p] : codes[p][i].recent}
Unconsumed(p) == {i \in DOMAIN codes[p] : ~codes[p][i].consumed}

\* request_otp, the rate limit: a count, outside any transaction.
Mut_UnderLimit_OffByOne(p) == Cardinality(InWindow(p)) <= MaxOtpPerWindow

UnderLimit(p) == Cardinality(InWindow(p)) < MaxOtpPerWindow

RequestCount(w, p) ==
    /\ UnderLimit(p)
    /\ Starts(w, "counted", p, {})
    /\ UNCHANGED <<account, codes, links, granted, revoked, sessions, reigns>>

\* request_otp, the row. The message is sent after it, to an active account only, and
\* a provider that fails is reported with the row in place.
RequestInsert(w) ==
    /\ tx[w].phase = "counted"
    /\ RowsMade < MaxRows
    /\ codes' = [codes EXCEPT ![tx[w].phone] = Append(@, NewCode)]
    /\ Done(w)
    /\ UNCHANGED <<account, links, granted, revoked, sessions, reigns>>

OtpRequestView(w) == (\E p \in Phones : RequestCount(w, p)) \/ RequestInsert(w)

\* verify_otp: the snapshot of its SELECT ... FOR UPDATE.
VerifyScan(w, p) ==
    /\ Starts(w, "scanned", p, Unconsumed(p))
    /\ UNCHANGED <<account, codes, links, granted, revoked, sessions, reigns>>

\* Nobody else holds the lock of the code in position i.
Mut_CodeFree_NoLock(p, i) == TRUE

CodeFree(p, i) == \A w \in Workers :
    ~(tx[w].phase = "locked" /\ tx[w].phone = p /\ tx[w].row = i)

\* The newest code of the snapshot that is still unconsumed is locked, re-read, and
\* refused when it has no attempts left or has expired.
VerifyLock(w) ==
    LET p == tx[w].phone IN
    /\ tx[w].phase = "scanned"
    /\ \E i \in tx[w].seen \cap Unconsumed(p) :
         /\ \A j \in tx[w].seen \cap Unconsumed(p) : j <= i
         /\ CodeFree(p, i)
         /\ codes[p][i].attempts < OtpMaxAttempts
         /\ ~codes[p][i].expired
         /\ tx' = [tx EXCEPT ![w].phase = "locked", ![w].seen = {}, ![w].row = i]
    /\ UNCHANGED <<account, codes, links, granted, revoked, sessions, reigns>>

\* The right code is consumed before the account is looked at; the sign-in, or the
\* refusal of an unknown or inactive account, comes after.
Spent(c) == [c EXCEPT !.consumed = TRUE, !.accepted = @ + 1]

\* A wrong code: the attempt is committed, and the refusal raised after the commit.
Missed(c) == [c EXCEPT !.attempts = @ + 1, !.wrong = @ + 1]

WriteCode(p, i, c) == codes' = [codes EXCEPT ![p][i] = c]

VerifyCommit(w) ==
    LET p == tx[w].phone  i == tx[w].row IN
    /\ tx[w].phase = "locked"
    /\ WriteCode(p, i, Spent(codes[p][i])) \/ WriteCode(p, i, Missed(codes[p][i]))
    /\ Done(w)
    /\ UNCHANGED <<account, links, granted, revoked, sessions, reigns>>

OtpVerifyView(w) ==
    \/ \E p \in Phones : VerifyScan(w, p)
    \/ VerifyLock(w)
    \/ VerifyCommit(w)

\* Time: a code expires (its minutes are the owner's to edit, so before or after it
\* leaves the window), and the oldest code of the window leaves it.
CodeExpires(p, i) ==
    /\ ~codes[p][i].expired
    /\ WriteCode(p, i, [codes[p][i] EXCEPT !.expired = TRUE])
    /\ UNCHANGED <<account, links, granted, revoked, sessions, reigns, tx>>

LeavesWindow(p, i) ==
    /\ i \in InWindow(p) /\ \A j \in InWindow(p) : i <= j
    /\ WriteCode(p, i, [codes[p][i] EXCEPT !.recent = FALSE])
    /\ UNCHANGED <<account, links, granted, revoked, sessions, reigns, tx>>

Clock == \E p \in Phones : \E i \in DOMAIN codes[p] : CodeExpires(p, i) \/ LeavesWindow(p, i)

----------------------------------------------------------------------------
(* Accounts, sessions and roles                                             *)

RolesOf(p) == {l.role : l \in {k \in links : k.phone = p}}

\* has_role and require_roles: an active account with one of the roles.
HasRole(p, roles) == account[p] = "active" /\ RolesOf(p) \cap roles # {}

ActiveOwners == {p \in Phones : HasRole(p, {"OWNER"})}

\* UserManager._create.
CreateUser(p) ==
    /\ account[p] = "none"
    /\ account' = [account EXCEPT ![p] = "active"]
    /\ UNCHANGED <<codes, links, granted, revoked, sessions, reigns, tx>>

\* is_active is written outside the application (FR-IAM-011 has no service yet).
SetActive(p) ==
    /\ account[p] # "none"
    /\ account' = [account EXCEPT ![p] = IF @ = "active" THEN "inactive" ELSE "active"]
    /\ reigns' = reigns \ {p}
    /\ UNCHANGED <<codes, links, granted, revoked, sessions, tx>>

\* authenticate_password: a wrong password, like an inactive account, is refused.
PasswordAccepted(p) == account[p] = "active"

LoginView(p) ==
    /\ p \notin sessions
    /\ PasswordAccepted(p)
    /\ HasRole(p, Internal)
    /\ sessions' = sessions \cup {p}
    /\ UNCHANGED <<account, codes, links, granted, revoked, reigns, tx>>

LogoutView(p) ==
    /\ p \in sessions
    /\ sessions' = sessions \ {p}
    /\ UNCHANGED <<account, codes, links, granted, revoked, reigns, tx>>

\* A request of a signed-in owner. PhoneBackend.get_user finds only active accounts,
\* and role_codes caches the roles for as long as the request lasts.
OwnerRequest(w, actor) ==
    /\ actor \in sessions
    /\ HasRole(actor, {"OWNER"})
    /\ Starts(w, "acting", actor, {})
    /\ UNCHANGED <<account, codes, links, granted, revoked, sessions, reigns>>

LinkOf(p, r) == {l \in links : l.phone = p /\ l.role = r}

NewId == CHOOSE n \in LinkIds : n \notin granted

\* UserRole.objects.get_or_create and the audit row that names the link.
LinkCreated(p, r) ==
    /\ RowsMade < MaxRows /\ granted # LinkIds
    /\ LinkOf(p, r) = {}
    /\ links' = links \cup {[id |-> NewId, phone |-> p, role |-> r]}
    /\ granted' = granted \cup {NewId}

LinkFound(p, r) == LinkOf(p, r) # {} /\ UNCHANGED <<links, granted>>

GrantRole(w, p, r) ==
    /\ tx[w].phase = "acting"
    /\ account[p] # "none"
    /\ LinkCreated(p, r)
    /\ Done(w)
    /\ UNCHANGED <<account, codes, revoked, sessions, reigns>>

\* revoke_role reads the link and then deletes the row it read, by primary key.
RevokeFind(w, p, r) ==
    /\ tx[w].phase = "acting"
    /\ \E l \in LinkOf(p, r) :
         tx' = [tx EXCEPT ![w].phase = "revoking", ![w].phone = p, ![w].row = l.id]
    /\ UNCHANGED <<account, codes, links, granted, revoked, sessions, reigns>>

Mut_RevokeDelete_ByUser(w) ==
    /\ tx[w].phase = "revoking"
    /\ links' = {l \in links : l.phone # tx[w].phone}
    /\ revoked' = revoked \cup {tx[w].row}
    /\ reigns' = reigns \ {tx[w].phone}
    /\ Done(w)
    /\ UNCHANGED <<account, codes, granted, sessions>>

RevokeDelete(w) ==
    /\ tx[w].phase = "revoking"
    /\ links' = {l \in links : l.id # tx[w].row}
    /\ revoked' = revoked \cup {tx[w].row}
    /\ reigns' = {p \in reigns : [id |-> tx[w].row, phone |-> p, role |-> "OWNER"] \notin links}
    /\ Done(w)
    /\ UNCHANGED <<account, codes, granted, sessions>>

----------------------------------------------------------------------------
(* bootstrap_owner                                                          *)

\* The OWNER role row serialises bootstraps; readers and grant_role do not take it.
Mut_RoleRowFree_NoLock == TRUE

RoleRowFree == \A w \in Workers : tx[w].phase # "booting"

BootstrapLock(w, p) ==
    /\ RoleRowFree
    /\ ActiveOwners = {}
    /\ Starts(w, "booting", p, {})
    /\ UNCHANGED <<account, codes, links, granted, revoked, sessions, reigns>>

\* The account is read after the check: created when there is none, refused when it
\* is inactive. The audit row names the link, found or created.
BootstrapCommit(w) ==
    LET p == tx[w].phone IN
    /\ tx[w].phase = "booting"
    /\ account[p] # "inactive"
    /\ account' = [account EXCEPT ![p] = "active"]
    /\ LinkCreated(p, "OWNER") \/ LinkFound(p, "OWNER")
    /\ reigns' = reigns \cup {p}
    /\ Done(w)
    /\ UNCHANGED <<codes, revoked, sessions>>

----------------------------------------------------------------------------
OfficeStep(w) ==
    \/ \E p \in Phones : OwnerRequest(w, p)
    \/ \E p \in Phones, r \in GrantedRoles : GrantRole(w, p, r) \/ RevokeFind(w, p, r)
    \/ RevokeDelete(w)

BootstrapCommand(w) == (\E p \in Phones : BootstrapLock(w, p)) \/ BootstrapCommit(w)

AccountStep == \E p \in Phones : CreateUser(p) \/ SetActive(p) \/ LoginView(p) \/ LogoutView(p)

IdentityNext ==
    \/ \E w \in Workers : \/ OtpRequestView(w) \/ OtpVerifyView(w)
                          \/ OfficeStep(w) \/ BootstrapCommand(w) \/ GivesUp(w)
    \/ Clock
    \/ AccountStep

IdentitySpec == IdentityInit /\ [][IdentityNext]_identityVars

----------------------------------------------------------------------------
(* What holds whatever the workers do                                       *)

\* A code signs in once and is guessed at a bounded number of times (verify_otp,
\* FR-IAM-004): however verifications overlap, a code is accepted at most once, and
\* only then is it consumed; every wrong guess that was answered has been counted,
\* and no more than OTP_MAX_ATTEMPTS are.
CodeSpentOnce ==
    \A p \in Phones : \A i \in DOMAIN codes[p] :
        LET c == codes[p][i] IN
        /\ c.accepted = IF c.consumed THEN 1 ELSE 0
        /\ c.wrong = c.attempts /\ c.attempts <= OtpMaxAttempts

\* The rate limit holds up to the requests in flight (request_otp counts before it
\* inserts and locks nothing): a window never holds more codes than the limit and the
\* workers together allow.
WindowBounded ==
    \A p \in Phones : Cardinality(InWindow(p)) < MaxOtpPerWindow + Cardinality(Workers)

\* "It refuses while any active OWNER exists" (bootstrap_owner): two bootstraps never
\* leave two owners, unless the first one's account or link was lost in between.
BootstrapsExclude == \A p, q \in reigns : p = q

\* The audit trail accounts for the role links (BR-002): the links that exist are
\* exactly the ones some grant names and no revocation does, although revocations
\* race each other, grants and bootstraps, and a user holds a role once.
RolesAudited ==
    /\ {l.id : l \in links} = granted \ revoked
    /\ \A k, l \in links : k.phone = l.phone /\ k.role = l.role => k = l
=============================================================================
