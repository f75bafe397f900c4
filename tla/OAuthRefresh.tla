---------------------------- MODULE OAuthRefresh ----------------------------
(***************************************************************************)
(* The refresh of one account's OAuth credentials by the refreshers of     *)
(* several gateway instances (the background cycle and the request path),  *)
(* under a mutex of the process and a lock in Redis, and by requests of    *)
(* administrators under neither.  A refresh rotates the refresh token: the *)
(* provider accepts only the newest of a grant.                            *)
(* Every step is one Redis command, SQL statement or provider call.        *)
(***************************************************************************)
EXTENDS Naturals, FiniteSets

CONSTANTS
    Refreshers,   \* goroutines that may refresh the account
    Home,         \* Home[w] is the process of refresher w
    Admins,       \* administrators' requests that write the account's row
    MaxRotations, \* bound: rotations of one grant
    MaxGrants,    \* bound: authorizations after the first
    Parties       \* who may take part in a behaviour, and the rotations bounded again

ASSUME BoundsAssumption == MaxRotations \in Nat /\ MaxGrants \in Nat
ASSUME NoOneAssumption == "no one" \notin Refreshers
ASSUME PartiesAssumption ==
    Parties \subseteq [members : SUBSET (Refreshers \cup Admins), rotations : 0..MaxRotations]

VARIABLES
    party,        \* who takes part, never changed
    conditional,  \* the platform writes credentials by compare and set (Grok)
    cred,         \* the credentials of the row: a grant and the rotation of its token
    active,       \* accounts.status is active
    due,          \* the access token of the row is about to expire
    newest,       \* the last grant the user authorized
    upstream,     \* provider: the rotation of each grant it accepts
    lock,         \* who set the Redis lock last, while it exists
    mutex,        \* local mutexes: the refresher inside, by process
    pc,           \* where each refresher is
    locked,       \* refreshers that will release the Redis lock
    snap,         \* the credentials each refresher read under the lock
    desk,         \* each administrator's request: where it is and what it read
    failed        \* history: the faults so far

rowVars == <<cred, active, due>>
vars == <<party, conditional, cred, active, due, newest, upstream, lock, mutex, pc, locked, snap,
          desk, failed>>
fixed == <<party, conditional>>
refreshVars == <<fixed, upstream, lock, mutex, pc, locked, snap>>

Processes == {Home[w] : w \in Refreshers}
Credentials == [grant : 0..MaxGrants, rotation : 0..MaxRotations]
FirstCredentials == [grant |-> 0, rotation |-> 0]
NoOne == "no one"
Labels == {"idle", "lock", "reread", "upstream", "persist", "recover", "release",
           "release_invalid", "quarantine"}
Faults == {"late",  \* an attempt outlasted the Redis lock
           "lock",  \* Redis did not answer a request for the lock
           "lost",  \* a call that rotates or writes failed, or a process died
           "over",  \* a request wrote credentials over others stored since it read the row
           "error"} \* a request put back, or did not clear, the error of a disabled account

DeskLabels == {"idle", "refresh", "reload", "store", "edit", "authorize", "clear"}
Desks == [at : DeskLabels, cred : Credentials, status : BOOLEAN]
AtRest == [at |-> "idle", cred |-> FirstCredentials, status |-> TRUE]

Init ==
    /\ party \in Parties /\ conditional \in BOOLEAN
    /\ cred = FirstCredentials /\ active = TRUE /\ due = FALSE
    /\ newest = 0 /\ upstream = [g \in 0..MaxGrants |-> 0]
    /\ lock = NoOne /\ mutex = [p \in Processes |-> NoOne]
    /\ pc = [w \in Refreshers |-> "idle"]
    /\ locked = {} /\ snap = [w \in Refreshers |-> FirstCredentials]
    /\ desk = [a \in Admins |-> AtRest] /\ failed = {}

Goto(w, l) == pc' = [pc EXCEPT ![w] = l]
Fault(kind) == failed' = failed \cup {kind}
NoFault == UNCHANGED failed
Forget(w) == snap' = [snap EXCEPT ![w] = FirstCredentials]

\* The provider still accepts the refresh token of credentials c.
Alive(c) == upstream[c.grant] = c.rotation
\* What a refresh gives back: its new refresh token replaces the old one.
Rotated_not(c) == c
Rotated(c) == [c EXCEPT !.rotation = @ + 1]

-----------------------------------------------------------------------------
\* Time brings the access token near its expiry.
Due ==
    /\ ~due /\ cred.rotation < party.rotations
    /\ due' = TRUE
    /\ UNCHANGED <<fixed, cred, active, newest, upstream, lock, mutex, pc, locked,
                   snap, desk, failed>>

\* The lock expires.  Attempts of the background cycle and on Grok accounts end before
\* that; the request path of the other platforms has no such deadline.
ExpireLock ==
    /\ lock # NoOne
    /\ \/ lock \notin locked /\ NoFault
       \/ lock \in locked /\ ~conditional /\ Fault("late")
    /\ lock' = NoOne
    /\ UNCHANGED <<fixed, rowVars, newest, upstream, mutex, pc, locked, snap, desk>>

-----------------------------------------------------------------------------
\* RefreshIfNeeded: the mutex of the process,
LockLocal(w) ==
    /\ w \in party.members /\ pc[w] = "idle" /\ due
    /\ mutex[Home[w]] = NoOne
    /\ mutex' = [mutex EXCEPT ![Home[w]] = w]
    /\ Goto(w, "lock")
    /\ UNCHANGED <<fixed, rowVars, newest, upstream, lock, locked, snap, desk, failed>>

\* the Redis lock, SET NX: without Redis the refresh goes on without it.
Free_ignored == TRUE
Free == lock = NoOne

AcquireRefreshLock(w) ==
    /\ pc[w] = "lock"
    /\ \/ /\ Free /\ NoFault
          /\ lock' = w /\ locked' = locked \cup {w} /\ Goto(w, "reread") /\ UNCHANGED mutex
       \/ /\ ~Free /\ NoFault
          /\ Goto(w, "idle") /\ mutex' = [mutex EXCEPT ![Home[w]] = NoOne]
          /\ UNCHANGED <<lock, locked>>
       \/ /\ Fault("lock")
          /\ lock' \in {lock, IF Free THEN w ELSE lock} /\ Goto(w, "reread")
          /\ UNCHANGED <<mutex, locked>>
    /\ UNCHANGED <<fixed, rowVars, newest, upstream, snap, desk>>

NeedsRefresh_unchecked == active
NeedsRefresh == active /\ due

\* The row is read again under the lock.
Reread(w) ==
    /\ pc[w] = "reread"
    /\ \/ NeedsRefresh /\ snap' = [snap EXCEPT ![w] = cred] /\ Goto(w, "upstream")
       \/ UNCHANGED snap /\ Goto(w, "release")  \* not needed, or not read
    /\ UNCHANGED <<fixed, rowVars, newest, upstream, lock, mutex, locked, desk, failed>>

\* The provider rotates the token, or answers invalid_grant; any other failure, after
\* which it may have rotated, is tried again later.
Refresh(w) ==
    /\ pc[w] = "upstream"
    /\ \/ /\ Alive(snap[w])
          /\ upstream' = [upstream EXCEPT ![snap[w].grant] = @ + 1]
          /\ \/ NoFault /\ Goto(w, "persist")
             \/ Fault("lost") /\ Goto(w, "release")
       \/ ~Alive(snap[w]) /\ NoFault /\ Goto(w, "recover") /\ UNCHANGED upstream
       \/ Fault("lost") /\ Goto(w, "release") /\ UNCHANGED upstream
    /\ UNCHANGED <<fixed, rowVars, newest, lock, mutex, locked, snap, desk>>

\* UPDATE ... WHERE credentials = $5, for Grok; by id for the other platforms.
MayPersist_by_id(w) == TRUE
MayPersist(w) == conditional => cred = snap[w]

Persist(w) ==
    /\ pc[w] = "persist"
    /\ \/ /\ MayPersist(w)
          /\ cred' = Rotated(snap[w]) /\ due' = FALSE
          /\ NoFault \/ Fault("lost")
       \/ ~MayPersist(w) /\ NoFault /\ UNCHANGED <<cred, due>>
       \/ Fault("lost") /\ UNCHANGED <<cred, due>>
    /\ Goto(w, "release")
    /\ UNCHANGED <<fixed, active, newest, upstream, lock, mutex, locked, snap, desk>>

\* invalid_grant: another refresh may have rotated the token and written it.
Recovered_never(w) == FALSE
Recovered(w) == cred # snap[w]

TryRecover(w) ==
    /\ pc[w] = "recover"
    /\ \/ Recovered(w) /\ Goto(w, "release")
       \/ Goto(w, "release_invalid")  \* the same token, or not read
    /\ UNCHANGED <<fixed, rowVars, newest, upstream, lock, mutex, locked, snap, desk, failed>>

\* Both locks are left on return; the Redis lock by DEL, whoever set it.  The background
\* cycle then deals with an invalid grant; the request path only reports it.
ReleaseRefreshLock(w) ==
    /\ pc[w] \in {"release", "release_invalid"}
    /\ locked' = locked \ {w}
    /\ mutex' = [mutex EXCEPT ![Home[w]] = NoOne]
    /\ \/ lock' = IF w \in locked THEN NoOne ELSE lock
       \/ w \in locked /\ UNCHANGED lock  \* the DEL failed
    /\ \/ Goto(w, "idle") /\ Forget(w)
       \/ pc[w] = "release_invalid" /\ Goto(w, "quarantine") /\ UNCHANGED snap
    /\ UNCHANGED <<fixed, rowVars, newest, upstream, desk, failed>>

MayQuarantine_by_id(w) == TRUE
MayQuarantine(w) == conditional => cred = snap[w]

\* SetError, or its conditional form for Grok.
SetError(w) ==
    /\ pc[w] = "quarantine"
    /\ \/ MayQuarantine(w) /\ active' = FALSE
       \/ UNCHANGED active  \* the comparison or the statement failed
    /\ Goto(w, "idle") /\ Forget(w)
    /\ UNCHANGED <<fixed, cred, due, newest, upstream, lock, mutex, locked, desk, failed>>

\* A process dies: its mutex is gone with it, the Redis lock stays until it expires.
Crash(p) ==
    /\ \E w \in Refreshers : Home[w] = p /\ pc[w] # "idle"
    /\ Fault("lost")
    /\ pc' = [w \in Refreshers |-> IF Home[w] = p THEN "idle" ELSE pc[w]]
    /\ mutex' = [mutex EXCEPT ![p] = NoOne]
    /\ locked' = {w \in locked : Home[w] # p}
    /\ snap' = [w \in Refreshers |-> IF Home[w] = p THEN FirstCredentials ELSE snap[w]]
    /\ UNCHANGED <<fixed, rowVars, newest, upstream, lock, desk>>

-----------------------------------------------------------------------------
Desk(a, d) == desk' = [desk EXCEPT ![a] = d]
Leave(a) == Desk(a, AtRest)

\* An administrator refreshes the account himself, edits it or stores a new authorization.
GetAccount(a) ==
    /\ a \in party.members /\ desk[a].at = "idle"
    /\ \/ /\ cred.rotation < party.rotations
          /\ Desk(a, [at |-> "refresh", cred |-> cred, status |-> TRUE])
       \/ Desk(a, [at |-> "edit", cred |-> cred, status |-> active])
       \/ /\ newest < MaxGrants
          /\ Desk(a, [at |-> "authorize", cred |-> FirstCredentials, status |-> active])
    /\ UNCHANGED <<refreshVars, rowVars, newest, failed>>

\* refreshSingleAccount: the provider is asked under no lock.
RefreshSingleAccount(a) ==
    /\ desk[a].at = "refresh"
    /\ \/ /\ Alive(desk[a].cred)
          /\ upstream' = [upstream EXCEPT ![desk[a].cred.grant] = @ + 1]
          /\ \/ NoFault /\ Desk(a, [desk[a] EXCEPT !.at = "reload"])
             \/ Fault("lost") /\ Leave(a)
       \/ Leave(a) /\ NoFault /\ UNCHANGED upstream  \* refused, or not asked
    /\ UNCHANGED <<fixed, rowVars, newest, lock, mutex, pc, locked, snap>>

\* UpdateAccount reads the row again; of this only the status is kept.
ReloadAccount(a) ==
    /\ desk[a].at = "reload"
    /\ Desk(a, [desk[a] EXCEPT !.at = "store", !.status = active])
    /\ UNCHANGED <<refreshVars, rowVars, newest, failed>>

\* The update of the row: credentials and status, by id.
Update(a, c, s) ==
    /\ cred' = c /\ active' = s
    /\ due' = (due /\ c = cred)
    /\ failed' = failed \cup {f \in {"over", "error"} :
                               \/ f = "over" /\ cred # desk[a].cred
                               \/ f = "error" /\ ~s /\ <<c, s>> # <<cred, active>>}

StoreRefreshed(a) ==
    /\ desk[a].at = "store"
    /\ Update(a, Rotated(desk[a].cred), desk[a].status)
    /\ Leave(a)
    /\ UNCHANGED <<refreshVars, newest>>

\* An edit keeps the tokens it read, and may set the status to active.
StoreEdited(a) ==
    /\ desk[a].at = "edit"
    /\ \E s \in {desk[a].status, TRUE} : Update(a, desk[a].cred, s)
    /\ Leave(a)
    /\ UNCHANGED <<refreshVars, newest>>

\* ApplyOAuthCredentials: the user has authorized the account again, a new grant unrelated
\* to the old one.  The error is cleared by a later statement.
Reauthorize(a) ==
    /\ desk[a].at = "authorize" /\ newest < MaxGrants
    /\ newest' = newest + 1
    /\ cred' = [grant |-> newest + 1, rotation |-> 0] /\ due' = FALSE
    /\ active' = desk[a].status
    /\ Desk(a, [AtRest EXCEPT !.at = "clear"])
    /\ UNCHANGED <<refreshVars, failed>>

ClearAccountError(a) ==
    /\ desk[a].at = "clear"
    /\ active' = TRUE
    /\ Leave(a)
    /\ UNCHANGED <<refreshVars, cred, due, newest, failed>>

\* A statement fails or the process dies: the request ends where it is.
AdminFails(a) ==
    /\ desk[a].at \in {"reload", "store", "clear"}
    /\ \/ desk[a].at # "clear" /\ Fault("lost")
       \/ desk[a].at = "clear" /\ ~active /\ Fault("error")
       \/ desk[a].at = "clear" /\ active /\ NoFault
    /\ Leave(a)
    /\ UNCHANGED <<refreshVars, rowVars, newest>>

-----------------------------------------------------------------------------
Attempt(w) ==
    \/ LockLocal(w) \/ AcquireRefreshLock(w) \/ Reread(w) \/ Refresh(w) \/ Persist(w)
    \/ TryRecover(w) \/ ReleaseRefreshLock(w) \/ SetError(w)

Administrate(a) ==
    \/ GetAccount(a) \/ RefreshSingleAccount(a) \/ ReloadAccount(a) \/ StoreRefreshed(a)
    \/ StoreEdited(a) \/ Reauthorize(a) \/ ClearAccountError(a) \/ AdminFails(a)

Next ==
    \/ Due \/ ExpireLock
    \/ \E w \in Refreshers : Attempt(w)
    \/ \E p \in Processes : Crash(p)
    \/ \E a \in Admins : Administrate(a)

Spec == Init /\ [][Next]_vars

-----------------------------------------------------------------------------
\* Every variable holds a value of its kind.
TypeOK ==
    /\ party \in Parties /\ conditional \in BOOLEAN /\ cred \in Credentials
    /\ active \in BOOLEAN /\ due \in BOOLEAN
    /\ newest \in 0..MaxGrants /\ upstream \in [0..MaxGrants -> 0..MaxRotations]
    /\ lock \in Refreshers \cup {NoOne}
    /\ mutex \in [Processes -> Refreshers \cup {NoOne}]
    /\ pc \in [Refreshers -> Labels] /\ locked \subseteq Refreshers
    /\ snap \in [Refreshers -> Credentials]
    /\ desk \in [Admins -> Desks] /\ failed \subseteq Faults

Inside == {w \in Refreshers : pc[w] \in {"reread", "upstream", "persist", "recover"}}

\* Two refreshers are never inside at once: in one process whatever fails, and over all
\* processes as long as Redis answered and no attempt outlasted the lock.
OneRefresher ==
    \A v, w \in Inside : v # w => Home[v] # Home[w] /\ failed \cap {"lock", "late"} # {}

\* The newest refresh token is never lost between the provider and the row: it is in the
\* row or in the hands of the refresher or administrator that is about to write it, unless
\* that call or that write failed, a process died, or a request beside the locks wrote its
\* own credentials over newer ones.  A lock that fails or expires does not lose it.
TokenKept ==
    failed \cap {"lost", "over"} = {} =>
        \/ Alive(cred)
        \/ \E w \in Refreshers : pc[w] = "persist" /\ cred = snap[w]
        \/ \E a \in Admins : desk[a].at \in {"reload", "store"} /\ cred = desk[a].cred

\* A platform that compares before it writes never disables an account whose token the
\* provider still accepts, as long as Redis answered: not for the failure of an older
\* grant, nor for that of a token another refresher has replaced.  Only an administrator's
\* request leaves one disabled: it writes the error back that it read, or does not clear it.
QuarantineDeserved ==
    conditional /\ failed \cap {"lock", "error"} = {} =>
        active \/ ~Alive(cred) \/ \E a \in Admins : desk[a].at = "clear"

\* With compare and set, a late refresh of an old grant never overwrites a new one, unless
\* an administrator's request that read the old one does.
ReauthorizationKept == conditional /\ "over" \notin failed => cred.grant = newest
=============================================================================
