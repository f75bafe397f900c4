------------------------- MODULE OAuthRefresh_proofs -------------------------
(***************************************************************************)
(* The properties of OAuthRefresh hold for any refreshers, processes,      *)
(* administrators and bounds.  The inductive invariant says who may hold   *)
(* the mutexes and the Redis lock, and how the tokens in the row and in    *)
(* everybody's hands relate to those of the provider.                      *)
(***************************************************************************)
EXTENDS OAuthRefresh, TLAPS

InsideLabels == {"reread", "upstream", "persist", "recover"}
LeavingLabels == {"release", "release_invalid"}
StoringLabels == {"reload", "store"}

\* A refresher that has passed the mutex of its process holds it.
MutexHeld ==
    \A w \in Refreshers :
        pc[w] \in {"lock"} \cup InsideLabels \cup LeavingLabels => mutex[Home[w]] = w

\* While Redis answered and no attempt was late, the lock is held by who is inside.
LockHeld ==
    failed \cap {"lock", "late"} = {} =>
        /\ \A w \in Refreshers : pc[w] \in InsideLabels \cup LeavingLabels => w \in locked
        /\ \A w \in locked : lock = w

\* Only platforms without compare and set have attempts that outlast the lock.
LateOnly == conditional => "late" \notin failed

\* Only a token that can be rotated is refreshed.
Rotatable ==
    /\ due => cred.rotation < MaxRotations
    /\ \A w \in Refreshers :
          pc[w] \in {"upstream", "persist"} => snap[w].rotation < MaxRotations
    /\ \A a \in Admins :
          desk[a].at \in {"refresh"} \cup StoringLabels => desk[a].cred.rotation < MaxRotations

\* The credentials in the row and in anybody's hands,
Known == {cred} \cup {snap[w] : w \in Refreshers} \cup {desk[a].cred : a \in Admins}

\* and the hands in which a rotated token is about to be written.
Writers == {w \in Refreshers : pc[w] = "persist"}
Storers == {a \in Admins : desk[a].at \in StoringLabels}
Hands == {<<"refresher", w>> : w \in Writers} \cup {<<"admin", a>> : a \in Storers}
Of(h) == IF h[1] = "refresher" THEN snap[h[2]] ELSE desk[h[2]].cred

\* Nobody knows a grant the user has not given,
GrantsGiven ==
    /\ \A c \in Known : c.grant <= newest
    /\ \A g \in 0..MaxGrants : g > newest => upstream[g] = 0

\* nobody knows a token the provider has not issued,
NotAhead == \A c \in Known : c.rotation <= upstream[c.grant]

\* and one that is about to be written is newer than all others known of its grant.
NewestKnown(c) ==
    /\ upstream[c.grant] = c.rotation + 1
    /\ \A d \in Known : d.grant = c.grant => d.rotation <= c.rotation
OnlyWriter ==
    /\ \A h \in Hands : NewestKnown(Of(h))
    /\ \A h, i \in Hands : h # i => Of(h).grant # Of(i).grant

\* The platform compares before it writes, and Redis answered every request for the lock.
Guarded == conditional /\ "lock" \notin failed

\* A refresher that was refused holds a token that is dead and, if guarded, one that
\* no refresher is about to replace.
RefusedIsDead ==
    \A w \in Refreshers : pc[w] \in {"recover", "release_invalid", "quarantine"} =>
        /\ ~Alive(snap[w])
        /\ Guarded => \A v \in Refreshers : pc[v] = "persist" => snap[v] # snap[w]

\* A disabled account's token is dead, and no refresher is about to replace it, unless a
\* request has authorized it again and is about to clear the error.
DeadCred == ~Alive(cred) /\ \A v \in Refreshers : pc[v] = "persist" => snap[v] # cred
DisabledIsDead ==
    Guarded /\ "error" \notin failed =>
        active \/ DeadCred \/ \E a \in Admins : desk[a].at = "clear"

Locks == MutexHeld /\ LockHeld /\ LateOnly
Tokens == Rotatable /\ GrantsGiven /\ NotAhead /\ OnlyWriter
Inv ==
    /\ TypeOK /\ Locks /\ Tokens
    /\ RefusedIsDead /\ DisabledIsDead /\ TokenKept /\ ReauthorizationKept

-----------------------------------------------------------------------------
\* The parts of credentials, and credentials from their parts.
LEMMA CredentialParts ==
    ASSUME NEW c \in Credentials
    PROVE  c.grant \in 0..MaxGrants /\ c.rotation \in 0..MaxRotations
<1> QED
  BY DEF Credentials

LEMMA CredentialEquality ==
    ASSUME NEW c \in Credentials, NEW d \in Credentials,
           c.grant = d.grant, c.rotation = d.rotation
    PROVE  c = d
<1> QED
  BY DEF Credentials

LEMMA FirstParts ==
    /\ FirstCredentials \in Credentials
    /\ FirstCredentials.grant = 0 /\ FirstCredentials.rotation = 0
<1> QED
  BY BoundsAssumption DEF Credentials, FirstCredentials

LEMMA RotatedParts ==
    ASSUME NEW c \in Credentials, c.rotation < MaxRotations
    PROVE  /\ Rotated(c) \in Credentials
           /\ Rotated(c).grant = c.grant /\ Rotated(c).rotation = c.rotation + 1
<1> c.rotation + 1 \in 0..MaxRotations
  BY CredentialParts, BoundsAssumption
<1> Rotated(c) = [grant |-> c.grant, rotation |-> c.rotation + 1]
  BY DEF Rotated, Credentials
<1> QED
  BY CredentialParts DEF Credentials
\* Desks from their parts.
LEMMA DeskMade ==
    ASSUME NEW l \in DeskLabels, NEW c \in Credentials, NEW s \in BOOLEAN
    PROVE  LET d == [at |-> l, cred |-> c, status |-> s]
           IN  d \in Desks /\ d.at = l /\ d.cred = c
<1> QED
  BY DEF Desks

LEMMA DeskMoved ==
    ASSUME NEW d \in Desks, NEW l \in DeskLabels
    PROVE  /\ [d EXCEPT !.at = l] \in Desks
           /\ [d EXCEPT !.at = l].at = l /\ [d EXCEPT !.at = l].cred = d.cred
<1> QED
  BY DEF Desks

LEMMA AtRestParts == AtRest \in Desks /\ AtRest.at = "idle" /\ AtRest.cred = FirstCredentials
<1> QED
  BY FirstParts DEF AtRest, Desks, DeskLabels

\* Administrator a comes to l with credentials c; the others stay where they are.
Sits(a, l, c) ==
    /\ desk' \in [Admins -> Desks] /\ desk'[a].at = l /\ desk'[a].cred = c
    /\ \A b \in Admins : b # a => desk'[b] = desk[b]

LEMMA Sitting ==
    ASSUME desk \in [Admins -> Desks], NEW a \in Admins, NEW d \in Desks, Desk(a, d)
    PROVE  Sits(a, d.at, d.cred)
<1> QED
  BY DEF Sits, Desk

\* Where each step of an administrator leads.
LEMMA AdminSits ==
    ASSUME TypeOK, NEW a \in Admins
    PROVE  /\ GetAccount(a) =>
                \/ Sits(a, "refresh", cred) /\ cred.rotation < MaxRotations
                \/ Sits(a, "edit", cred)
                \/ Sits(a, "authorize", FirstCredentials)
           /\ RefreshSingleAccount(a) =>
                \/ /\ Alive(desk[a].cred) /\ Sits(a, "reload", desk[a].cred) /\ failed' = failed
                   /\ upstream' = [upstream EXCEPT ![desk[a].cred.grant] = @ + 1]
                \/ /\ Alive(desk[a].cred) /\ Sits(a, "idle", FirstCredentials)
                   /\ failed' = failed \cup {"lost"}
                   /\ upstream' = [upstream EXCEPT ![desk[a].cred.grant] = @ + 1]
                \/ /\ Sits(a, "idle", FirstCredentials) /\ failed' = failed
                   /\ upstream' = upstream
           /\ ReloadAccount(a) => Sits(a, "store", desk[a].cred)
           /\ StoreRefreshed(a) \/ StoreEdited(a) \/ ClearAccountError(a) \/ AdminFails(a) =>
                Sits(a, "idle", FirstCredentials)
           /\ Reauthorize(a) => Sits(a, "clear", FirstCredentials)
<1>0. /\ desk \in [Admins -> Desks] /\ cred \in Credentials /\ active \in BOOLEAN
      /\ desk[a] \in Desks /\ FirstCredentials \in Credentials
  BY FirstParts DEF TypeOK
<1>1. Leave(a) => Sits(a, "idle", FirstCredentials)
  BY <1>0, AtRestParts, Sitting DEF Leave
<1>2. ASSUME GetAccount(a)
      PROVE  \/ Sits(a, "refresh", cred) /\ cred.rotation < MaxRotations
             \/ Sits(a, "edit", cred)
             \/ Sits(a, "authorize", FirstCredentials)
  <2>1. \/ /\ cred.rotation < party.rotations
           /\ Desk(a, [at |-> "refresh", cred |-> cred, status |-> TRUE])
        \/ Desk(a, [at |-> "edit", cred |-> cred, status |-> active])
        \/ Desk(a, [at |-> "authorize", cred |-> FirstCredentials, status |-> active])
    BY <1>2 DEF GetAccount
  <2>2. ASSUME NEW l \in DeskLabels, NEW c \in Credentials, NEW s \in BOOLEAN,
               Desk(a, [at |-> l, cred |-> c, status |-> s])
        PROVE  Sits(a, l, c)
    <3> DEFINE d == [at |-> l, cred |-> c, status |-> s]
    <3>1. d \in Desks /\ d.at = l /\ d.cred = c
      BY DeskMade
    <3>2. Desk(a, d)
      BY <2>2
    <3> HIDE DEF d
    <3> QED
      BY <1>0, <3>1, <3>2, Sitting
  <2>3. cred.rotation < party.rotations => cred.rotation < MaxRotations
    <3>1. party.rotations \in 0..MaxRotations
      BY PartiesAssumption DEF TypeOK
    <3> QED
      BY <1>0, <3>1, CredentialParts, BoundsAssumption
  <2>4. {"refresh", "edit", "authorize"} \subseteq DeskLabels
    BY DEF DeskLabels
  <2> QED
    BY <1>0, <2>1, <2>2, <2>3, <2>4, Zenon
<1>3. ASSUME RefreshSingleAccount(a)
      PROVE  \/ /\ Alive(desk[a].cred) /\ Sits(a, "reload", desk[a].cred) /\ failed' = failed
                /\ upstream' = [upstream EXCEPT ![desk[a].cred.grant] = @ + 1]
             \/ /\ Alive(desk[a].cred) /\ Sits(a, "idle", FirstCredentials)
                /\ failed' = failed \cup {"lost"}
                /\ upstream' = [upstream EXCEPT ![desk[a].cred.grant] = @ + 1]
             \/ /\ Sits(a, "idle", FirstCredentials) /\ failed' = failed
                /\ upstream' = upstream
  <2>1. Desk(a, [desk[a] EXCEPT !.at = "reload"]) => Sits(a, "reload", desk[a].cred)
    <3> DEFINE d == [desk[a] EXCEPT !.at = "reload"]
    <3>1. d \in Desks /\ d.at = "reload" /\ d.cred = desk[a].cred
      BY <1>0, DeskMoved DEF DeskLabels
    <3> HIDE DEF d
    <3>2. Desk(a, d) => Sits(a, "reload", desk[a].cred)
      BY <1>0, <3>1, Sitting
    <3> QED
      BY <3>2 DEF d
  <2> QED
    BY <1>1, <1>3, <2>1 DEF RefreshSingleAccount, Fault, NoFault
<1>4. ReloadAccount(a) => Sits(a, "store", desk[a].cred)
  <2> DEFINE d == [desk[a] EXCEPT !.at = "store", !.status = active]
  <2>1. d \in Desks /\ d.at = "store" /\ d.cred = desk[a].cred
    BY <1>0 DEF Desks, DeskLabels
  <2>2. ReloadAccount(a) => Desk(a, d)
    BY DEF ReloadAccount
  <2> HIDE DEF d
  <2> QED
    BY <1>0, <2>1, <2>2, Sitting
<1>5. Reauthorize(a) => Sits(a, "clear", FirstCredentials)
  <2> DEFINE d == [AtRest EXCEPT !.at = "clear"]
  <2>1. d \in Desks /\ d.at = "clear" /\ d.cred = FirstCredentials
    BY AtRestParts, DeskMoved DEF DeskLabels
  <2>2. Reauthorize(a) => Desk(a, d)
    BY DEF Reauthorize
  <2> HIDE DEF d
  <2> QED
    BY <1>0, <2>1, <2>2, Sitting
<1> QED
  BY <1>1, <1>2, <1>3, <1>4, <1>5 DEF StoreRefreshed, StoreEdited, ClearAccountError, AdminFails

\* What no step of an administrator touches.
LEMMA AdminBeside ==
    ASSUME NEW a \in Admins, Administrate(a)
    PROVE  /\ UNCHANGED <<party, conditional, lock, mutex, pc, locked, snap>>
           /\ failed \subseteq failed'
           /\ \A f \in {"lock", "late"} : f \in failed' => f \in failed
<1> QED
  BY DEF Administrate, GetAccount, RefreshSingleAccount, ReloadAccount, StoreRefreshed,
         StoreEdited, Reauthorize, ClearAccountError, AdminFails, Update, refreshVars, fixed,
         Fault, NoFault

\* What the numbers of a state are.
TokenTypes ==
    /\ cred.grant \in 0..MaxGrants /\ cred.rotation \in 0..MaxRotations
    /\ newest \in 0..MaxGrants
    /\ \A c \in Known :
          c \in Credentials /\ c.grant \in 0..MaxGrants /\ c.rotation \in 0..MaxRotations
    /\ \A w \in Refreshers : snap[w] \in Known
    /\ \A a \in Admins : desk[a].cred \in Known
    /\ \A g \in 0..MaxGrants : upstream[g] \in 0..MaxRotations

LEMMA TypeOK_TokenTypes == TypeOK => TokenTypes
<1> SUFFICES ASSUME TypeOK PROVE TokenTypes
  OBVIOUS
<1>1. cred \in Credentials /\ \A w \in Refreshers : snap[w] \in Credentials
  BY DEF TypeOK
<1>2. newest \in 0..MaxGrants /\ \A g \in 0..MaxGrants : upstream[g] \in 0..MaxRotations
  BY DEF TypeOK
<1>3. \A a \in Admins : desk[a].cred \in Credentials
  BY DEF TypeOK, Desks
<1>4. \A c \in Known : c \in Credentials
  BY <1>1, <1>3 DEF Known
<1> QED
  BY <1>1, <1>2, <1>4, CredentialParts DEF TokenTypes, Known

\* The kinds of values after a step of an administrator.
LEMMA AdminTypes ==
    ASSUME TypeOK, Rotatable, NEW a \in Admins, Administrate(a)
    PROVE  TypeOK'
<1>0. /\ TokenTypes /\ MaxGrants \in Nat /\ MaxRotations \in Nat
      /\ cred \in Credentials /\ desk[a].cred \in Credentials
      /\ desk[a].status \in BOOLEAN /\ active \in BOOLEAN /\ due \in BOOLEAN
      /\ upstream \in [0..MaxGrants -> 0..MaxRotations] /\ newest \in 0..MaxGrants
      /\ failed \subseteq Faults
  BY TypeOK_TokenTypes, BoundsAssumption DEF TypeOK, Desks
<1>1. desk' \in [Admins -> Desks]
  BY AdminSits DEF Administrate, Sits
<1>2. /\ party' \in Parties /\ conditional' \in BOOLEAN /\ lock' \in Refreshers \cup {NoOne}
      /\ mutex' \in [Processes -> Refreshers \cup {NoOne}] /\ pc' \in [Refreshers -> Labels]
      /\ locked' \subseteq Refreshers /\ snap' \in [Refreshers -> Credentials]
  BY AdminBeside DEF TypeOK
<1>3. failed' \subseteq Faults
  BY <1>0 DEF Administrate, GetAccount, RefreshSingleAccount, ReloadAccount, StoreRefreshed,
         StoreEdited, Reauthorize, ClearAccountError, AdminFails, Update, Faults, Fault, NoFault
<1>4. upstream' \in [0..MaxGrants -> 0..MaxRotations]
  <2>1. ASSUME RefreshSingleAccount(a), Alive(desk[a].cred),
               upstream' = [upstream EXCEPT ![desk[a].cred.grant] = @ + 1]
        PROVE  upstream' \in [0..MaxGrants -> 0..MaxRotations]
    <3>1. desk[a].cred.rotation < MaxRotations /\ desk[a].cred.grant \in 0..MaxGrants
      BY <1>0, <2>1, CredentialParts DEF RefreshSingleAccount, Rotatable
    <3>2. upstream[desk[a].cred.grant] + 1 \in 0..MaxRotations
      BY <1>0, <2>1, <3>1, CredentialParts DEF Alive
    <3> QED
      BY <1>0, <2>1, <3>1, <3>2
  <2>2. RefreshSingleAccount(a) \/ UNCHANGED upstream
    BY DEF Administrate, GetAccount, ReloadAccount, StoreRefreshed, StoreEdited, Reauthorize,
           ClearAccountError, AdminFails, refreshVars
  <2> QED
    BY <1>0, <2>1, <2>2 DEF RefreshSingleAccount
<1>5. cred' \in Credentials /\ active' \in BOOLEAN /\ due' \in BOOLEAN /\ newest' \in 0..MaxGrants
  <2>1. CASE StoreRefreshed(a)
    <3>1. Rotated(desk[a].cred) \in Credentials
      BY <1>0, <2>1, RotatedParts DEF StoreRefreshed, Rotatable, StoringLabels
    <3>2. cred' \in Credentials /\ newest' = newest
      BY <2>1, <3>1 DEF StoreRefreshed, Update
    <3>3. active' = desk[a].status /\ due' = (due /\ Rotated(desk[a].cred) = cred)
      BY <2>1 DEF StoreRefreshed, Update
    <3> QED
      BY <1>0, <3>2, <3>3
  <2>2. CASE StoreEdited(a)
    <3>1. cred' = desk[a].cred /\ newest' = newest /\ active' \in {desk[a].status, TRUE}
          /\ due' = (due /\ desk[a].cred = cred)
      BY <2>2 DEF StoreEdited, Update
    <3> QED
      BY <1>0, <3>1
  <2>3. CASE Reauthorize(a)
    <3>1. newest + 1 \in 0..MaxGrants
      BY <1>0, <2>3 DEF Reauthorize
    <3>2. cred' \in Credentials /\ active' = desk[a].status /\ due' = FALSE
      BY <1>0, <2>3, <3>1 DEF Reauthorize, Credentials
    <3> QED
      BY <1>0, <2>3, <3>1, <3>2 DEF Reauthorize
  <2>4. CASE ClearAccountError(a)
    BY <1>0, <2>4 DEF ClearAccountError
  <2>5. CASE GetAccount(a) \/ RefreshSingleAccount(a) \/ ReloadAccount(a) \/ AdminFails(a)
    BY <1>0, <2>5 DEF GetAccount, RefreshSingleAccount, ReloadAccount, AdminFails, rowVars
  <2> QED
    BY <2>1, <2>2, <2>3, <2>4, <2>5 DEF Administrate
<1> QED
  BY <1>1, <1>2, <1>3, <1>4, <1>5 DEF TypeOK

\* A token the provider accepts, and that is not the last of its grant, can be rotated.
LEMMA TypeStep ==
    ASSUME TypeOK, Rotatable, [Next]_vars
    PROVE  TypeOK'
<1> USE DEF TypeOK, Goto, Fault, NoFault, Labels, Faults, rowVars, fixed
<1>0. TokenTypes /\ MaxGrants \in Nat /\ MaxRotations \in Nat
  BY TypeOK_TokenTypes, BoundsAssumption
<1>a. FirstCredentials \in Credentials
  BY FirstParts
<1>1. CASE Due
  BY <1>1 DEF Due
<1>3. CASE ExpireLock
  BY <1>3 DEF ExpireLock
<1>4. ASSUME NEW w \in Refreshers, LockLocal(w) PROVE TypeOK'
  BY <1>4 DEF LockLocal
<1>5. ASSUME NEW w \in Refreshers, AcquireRefreshLock(w) PROVE TypeOK'
  BY <1>5 DEF AcquireRefreshLock
<1>6. ASSUME NEW w \in Refreshers, Reread(w) PROVE TypeOK'
  BY <1>6 DEF Reread
<1>7. ASSUME NEW w \in Refreshers, Refresh(w) PROVE TypeOK'
  <2>1. ASSUME Alive(snap[w]), upstream' = [upstream EXCEPT ![snap[w].grant] = @ + 1]
        PROVE  upstream' \in [0..MaxGrants -> 0..MaxRotations]
    <3>1. upstream[snap[w].grant] < MaxRotations
      BY <1>7, <2>1 DEF Refresh, Alive, Rotatable
    <3>2. upstream[snap[w].grant] + 1 \in 0..MaxRotations
      BY <3>1, <1>0 DEF TokenTypes
    <3> QED
      BY <2>1, <3>2
  <2>2. upstream' \in [0..MaxGrants -> 0..MaxRotations]
    BY <1>7, <2>1 DEF Refresh
  <2> QED
    BY <1>7, <2>2 DEF Refresh
<1>8. ASSUME NEW w \in Refreshers, Persist(w) PROVE TypeOK'
  <2>1. Rotated(snap[w]) \in Credentials
    BY <1>8, RotatedParts DEF Persist, Rotatable
  <2> QED
    BY <1>8, <2>1 DEF Persist
<1>9. ASSUME NEW w \in Refreshers, TryRecover(w) PROVE TypeOK'
  BY <1>9 DEF TryRecover
<1>10. ASSUME NEW w \in Refreshers, ReleaseRefreshLock(w) PROVE TypeOK'
  BY <1>10, <1>a DEF ReleaseRefreshLock, Forget
<1>11. ASSUME NEW w \in Refreshers, SetError(w) PROVE TypeOK'
  BY <1>11, <1>a DEF SetError, Forget
<1>12. ASSUME NEW p \in Processes, Crash(p) PROVE TypeOK'
  BY <1>12, <1>a DEF Crash
<1>13. CASE UNCHANGED vars
  BY <1>13 DEF vars
<1>14. ASSUME NEW a \in Admins, Administrate(a) PROVE TypeOK'
  BY <1>14, AdminTypes
<1> QED
  BY <1>1, <1>3, <1>4, <1>5, <1>6, <1>7, <1>8, <1>9, <1>10, <1>11, <1>12, <1>13,
     <1>14
  DEF Next, Attempt

-----------------------------------------------------------------------------
\* Who holds the mutexes and the lock.
LEMMA MutexStep ==
    ASSUME TypeOK, MutexHeld, [Next]_vars
    PROVE  MutexHeld'
<1> USE NoOneAssumption DEF MutexHeld, InsideLabels, LeavingLabels, Goto, NoOne
<1>0. /\ pc \in [Refreshers -> Labels] /\ mutex \in [Processes -> Refreshers \cup {NoOne}]
      /\ \A v \in Refreshers : Home[v] \in Processes
  BY DEF TypeOK, Processes
<1>1. CASE UNCHANGED <<pc, mutex>>
  BY <1>1
<1>2. ASSUME NEW w \in Refreshers, pc[w] = "idle", mutex[Home[w]] = NoOne,
             mutex' = [mutex EXCEPT ![Home[w]] = w], pc' = [pc EXCEPT ![w] = "lock"]
      PROVE  MutexHeld'
  <2> SUFFICES ASSUME NEW v \in Refreshers,
                      pc'[v] \in {"lock"} \cup InsideLabels \cup LeavingLabels
               PROVE  mutex'[Home[v]] = v
    OBVIOUS
  <2>1. CASE v = w
    BY <1>0, <1>2, <2>1
  <2>2. CASE v # w
    <3>1. mutex[Home[v]] = v
      BY <1>0, <1>2, <2>2
    <3>2. Home[v] # Home[w]
      BY <1>2, <3>1
    <3> QED
      BY <1>0, <1>2, <3>1, <3>2
  <2> QED
    BY <2>1, <2>2
<1>3. ASSUME NEW w \in Refreshers, pc[w] \in {"lock"} \cup InsideLabels \cup LeavingLabels,
             mutex' = [mutex EXCEPT ![Home[w]] = NoOne],
             pc' = [pc EXCEPT ![w] = "idle"] \/ pc' = [pc EXCEPT ![w] = "quarantine"]
      PROVE  MutexHeld'
  <2> SUFFICES ASSUME NEW v \in Refreshers,
                      pc'[v] \in {"lock"} \cup InsideLabels \cup LeavingLabels
               PROVE  mutex'[Home[v]] = v
    OBVIOUS
  <2>1. v # w /\ pc'[v] = pc[v]
    BY <1>0, <1>3
  <2>2. mutex[Home[v]] = v /\ mutex[Home[w]] = w
    BY <1>3, <2>1
  <2>3. Home[v] # Home[w]
    BY <2>1, <2>2
  <2> QED
    BY <1>0, <1>3, <2>2, <2>3
<1>4. ASSUME NEW w \in Refreshers, NEW l \in Labels, UNCHANGED mutex,
             pc' = [pc EXCEPT ![w] = l],
             pc[w] \in {"lock"} \cup InsideLabels \/ l = "idle"
      PROVE  MutexHeld'
  BY <1>0, <1>4
<1>5. ASSUME NEW p \in Processes, Crash(p) PROVE MutexHeld'
  <2>1. /\ mutex' = [mutex EXCEPT ![p] = NoOne]
        /\ pc' = [v \in Refreshers |-> IF Home[v] = p THEN "idle" ELSE pc[v]]
    BY <1>5 DEF Crash
  <2> QED
    BY <1>0, <2>1
<1>6. ASSUME NEW w \in Refreshers, AcquireRefreshLock(w) PROVE MutexHeld'
  BY <1>3, <1>4, <1>6 DEF AcquireRefreshLock, Labels
<1>7. ASSUME NEW w \in Refreshers, Reread(w) \/ Refresh(w) \/ Persist(w) \/ TryRecover(w)
      PROVE  MutexHeld'
  BY <1>4, <1>7 DEF Reread, Refresh, Persist, TryRecover, Labels
<1>8. ASSUME NEW w \in Refreshers, ReleaseRefreshLock(w) PROVE MutexHeld'
  BY <1>3, <1>8 DEF ReleaseRefreshLock
<1>9. ASSUME NEW w \in Refreshers, SetError(w) PROVE MutexHeld'
  BY <1>4, <1>9 DEF SetError, Labels
<1>10. ASSUME NEW w \in Refreshers, LockLocal(w) PROVE MutexHeld'
  BY <1>2, <1>10 DEF LockLocal
<1>11. CASE Due \/ ExpireLock \/ UNCHANGED vars
  BY <1>1, <1>11 DEF Due, ExpireLock, vars
<1>12. ASSUME NEW a \in Admins, Administrate(a) PROVE MutexHeld'
  BY <1>1, <1>12, AdminBeside
<1> QED
  BY <1>5, <1>6, <1>7, <1>8, <1>9, <1>10, <1>11, <1>12 DEF Next, Attempt

\* What every step does to the history of faults.
LEMMA FaultsStep ==
    ASSUME [Next]_vars
    PROVE  /\ conditional' = conditional /\ failed \subseteq failed'
           /\ "late" \in failed' => "late" \in failed \/ ~conditional
<1>1. CASE \E a \in Admins : Administrate(a)
  BY <1>1, AdminBeside
<1>2. CASE ~\E a \in Admins : Administrate(a)
  <2>1. conditional' = conditional
    BY <1>2 DEF Next, Attempt, vars, Due, ExpireLock, LockLocal, AcquireRefreshLock,
           Reread, Refresh, Persist, TryRecover, ReleaseRefreshLock, SetError, Crash, fixed
  <2>2. \/ failed' = failed \/ failed' = failed \cup {"lock"} \/ failed' = failed \cup {"lost"}
        \/ failed' = failed \cup {"late"} /\ ~conditional
    BY <1>2 DEF Next, Attempt, vars, Due, ExpireLock, LockLocal, AcquireRefreshLock,
           Reread, Refresh, Persist, TryRecover, ReleaseRefreshLock, SetError, Crash,
           Fault, NoFault
  <2> QED
    BY <2>1, <2>2
<1> QED
  BY <1>1, <1>2

LEMMA LateStep ==
    ASSUME LateOnly, [Next]_vars
    PROVE  LateOnly'
<1> QED
  BY FaultsStep DEF LateOnly

LEMMA LockStep ==
    ASSUME TypeOK, LockHeld, [Next]_vars
    PROVE  LockHeld'
<1> USE NoOneAssumption DEF LockHeld, InsideLabels, LeavingLabels, Goto, NoOne, Fault, NoFault
<1>0. /\ pc \in [Refreshers -> Labels] /\ locked \subseteq Refreshers
      /\ failed \subseteq Faults
  BY DEF TypeOK
<1>1. CASE Due \/ UNCHANGED vars
  <2>1. UNCHANGED <<lock, locked, pc, failed>>
    BY <1>1 DEF Due, vars
  <2> QED
    BY <1>0, <2>1
<1>2. CASE ExpireLock
  BY <1>0, <1>2 DEF ExpireLock
<1>3. ASSUME NEW w \in Refreshers, LockLocal(w) PROVE LockHeld'
  BY <1>0, <1>3 DEF LockLocal
<1>4. ASSUME NEW w \in Refreshers, AcquireRefreshLock(w) PROVE LockHeld'
  <2>1. CASE Free /\ failed' = failed /\ lock' = w /\ locked' = locked \cup {w}
             /\ pc' = [pc EXCEPT ![w] = "reread"]
    <3>1. ASSUME failed \cap {"lock", "late"} = {} PROVE locked = {}
      BY <1>0, <2>1, <3>1 DEF Free
    <3> QED
      BY <1>0, <2>1, <3>1
  <2>2. CASE failed' = failed /\ pc' = [pc EXCEPT ![w] = "idle"] /\ UNCHANGED <<lock, locked>>
    BY <1>0, <1>4, <2>2 DEF AcquireRefreshLock
  <2>3. CASE failed' = failed \cup {"lock"}
    BY <1>4, <2>3 DEF AcquireRefreshLock
  <2> QED
    BY <1>4, <2>1, <2>2, <2>3 DEF AcquireRefreshLock
<1>5. ASSUME NEW w \in Refreshers, Reread(w) \/ Refresh(w) \/ Persist(w) \/ TryRecover(w)
      PROVE  LockHeld'
  <2>1. UNCHANGED <<lock, locked>> /\ pc[w] \in InsideLabels
    BY <1>5 DEF Reread, Refresh, Persist, TryRecover
  <2>2. failed \subseteq failed'
    BY <1>5 DEF Reread, Refresh, Persist, TryRecover
  <2>3. \/ pc' = [pc EXCEPT ![w] = "upstream"] \/ pc' = [pc EXCEPT ![w] = "release"]
        \/ pc' = [pc EXCEPT ![w] = "persist"] \/ pc' = [pc EXCEPT ![w] = "recover"]
        \/ pc' = [pc EXCEPT ![w] = "release_invalid"]
    BY <1>5 DEF Reread, Refresh, Persist, TryRecover
  <2> QED
    BY <1>0, <2>1, <2>2, <2>3
<1>6. ASSUME NEW w \in Refreshers, ReleaseRefreshLock(w) PROVE LockHeld'
  BY <1>0, <1>6 DEF ReleaseRefreshLock
<1>7. ASSUME NEW w \in Refreshers, SetError(w) PROVE LockHeld'
  BY <1>0, <1>7 DEF SetError
<1>8. ASSUME NEW p \in Processes, Crash(p) PROVE LockHeld'
  BY <1>0, <1>8 DEF Crash
<1>9. ASSUME NEW a \in Admins, Administrate(a) PROVE LockHeld'
  BY <1>0, <1>9, AdminBeside
<1> QED
  BY <1>1, <1>2, <1>3, <1>4, <1>5, <1>6, <1>7, <1>8, <1>9 DEF Next, Attempt

LEMMA LocksExclude == TypeOK /\ MutexHeld /\ LockHeld => OneRefresher
<1> SUFFICES ASSUME TypeOK, MutexHeld, LockHeld, NEW v \in Inside, NEW w \in Inside, v # w
             PROVE  Home[v] # Home[w] /\ failed \cap {"lock", "late"} # {}
  BY DEF OneRefresher
<1>1. v \in Refreshers /\ w \in Refreshers /\ pc[v] \in InsideLabels /\ pc[w] \in InsideLabels
  BY DEF Inside, InsideLabels
<1>2. mutex[Home[v]] = v /\ mutex[Home[w]] = w
  BY <1>1 DEF MutexHeld
<1>3. failed \cap {"lock", "late"} = {} => lock = v /\ lock = w
  BY <1>1 DEF LockHeld
<1> QED
  BY <1>2, <1>3

-----------------------------------------------------------------------------
\* Steps that leave the row's token, the provider and those about to write alone.
Quiet ==
    /\ UNCHANGED <<conditional, cred, newest, upstream, desk>>
    /\ failed \subseteq failed'
    /\ \A v \in Refreshers : snap'[v] = snap[v] \/ snap'[v] = FirstCredentials
    /\ \A v \in Refreshers :
          pc'[v] \in {"upstream", "persist", "recover", "release_invalid", "quarantine"} =>
              /\ snap'[v] = snap[v]
              /\ pc'[v] \in {"upstream", "persist"} => pc'[v] = pc[v]
              /\ pc'[v] \notin {"upstream", "persist"} =>
                    pc[v] \in {"recover", "release_invalid", "quarantine"}
    /\ \/ "lost" \in failed'
       \/ \A v \in Refreshers : pc[v] = "persist" => pc'[v] = "persist"

LEMMA QuietSteps ==
    ASSUME TypeOK,
           \/ Due \/ ExpireLock \/ UNCHANGED vars
           \/ \E w \in Refreshers :
                 \/ LockLocal(w) \/ AcquireRefreshLock(w) \/ TryRecover(w)
                 \/ ReleaseRefreshLock(w) \/ SetError(w)
           \/ \E p \in Processes : Crash(p)
    PROVE  Quiet
<1> USE DEF Quiet, Goto, Fault, NoFault, rowVars, fixed
<1>0. pc \in [Refreshers -> Labels] /\ snap \in [Refreshers -> Credentials]
  BY DEF TypeOK
<1>1. CASE Due
  BY <1>0, <1>1 DEF Due
<1>2. CASE ExpireLock
  BY <1>0, <1>2 DEF ExpireLock
<1>3. CASE UNCHANGED vars
  BY <1>0, <1>3 DEF vars
<1>4. ASSUME NEW w \in Refreshers, LockLocal(w) PROVE Quiet
  BY <1>0, <1>4 DEF LockLocal
<1>5. ASSUME NEW w \in Refreshers, AcquireRefreshLock(w) PROVE Quiet
  BY <1>0, <1>5 DEF AcquireRefreshLock
<1>6. ASSUME NEW w \in Refreshers, TryRecover(w) PROVE Quiet
  BY <1>0, <1>6 DEF TryRecover
<1>7. ASSUME NEW w \in Refreshers, ReleaseRefreshLock(w) PROVE Quiet
  BY <1>0, <1>7 DEF ReleaseRefreshLock, Forget
<1>8. ASSUME NEW w \in Refreshers, SetError(w) PROVE Quiet
  BY <1>0, <1>8 DEF SetError, Forget
<1>9. ASSUME NEW p \in Processes, Crash(p) PROVE Quiet
  BY <1>0, <1>9 DEF Crash
<1> QED
  BY <1>1, <1>2, <1>3, <1>4, <1>5, <1>6, <1>7, <1>8, <1>9

\* No step but a rotation and a write lets anybody know or hold more than before.
Kept ==
    /\ UNCHANGED <<newest, upstream>>
    /\ Known' \subseteq Known \cup {FirstCredentials}
    /\ Hands' \subseteq Hands /\ \A h \in Hands' : Of(h)' = Of(h)

LEMMA KeptTokens ==
    ASSUME TypeOK, Tokens, Kept
    PROVE  GrantsGiven' /\ NotAhead' /\ OnlyWriter'
<1>0. TokenTypes /\ FirstCredentials.grant = 0 /\ FirstCredentials.rotation = 0
  BY TypeOK_TokenTypes, FirstParts
<1>1. UNCHANGED <<newest, upstream>> /\ \A c \in Known' : c \in Known \/ c = FirstCredentials
  BY DEF Kept
<1> USE BoundsAssumption
<1>2. GrantsGiven'
  BY <1>0, <1>1 DEF Tokens, GrantsGiven, TokenTypes
<1>3. NotAhead'
  BY <1>0, <1>1 DEF Tokens, NotAhead, TokenTypes
<1>4. OnlyWriter'
  <2>1. ASSUME NEW h \in Hands' PROVE NewestKnown(Of(h))'
    <3>1. Of(h)' = Of(h) /\ h \in Hands
      BY <2>1 DEF Kept
    <3>2. NewestKnown(Of(h)) /\ Of(h) \in Known
      BY <1>0, <3>1 DEF Tokens, OnlyWriter, Hands, Of, Writers, Storers, TokenTypes
    <3> DEFINE c == Of(h)
    <3> HIDE DEF c
    <3>3. upstream[c.grant] = c.rotation + 1 /\ c \in Known
          /\ \A d \in Known : d.grant = c.grant => d.rotation <= c.rotation
      BY <3>2 DEF NewestKnown, c
    <3>4. c.rotation \in Nat
      BY <1>0, <3>3 DEF TokenTypes
    <3>5. \A d \in Known' : d.grant = c.grant => d.rotation <= c.rotation
      BY <1>0, <1>1, <3>3, <3>4
    <3> QED
      BY <1>1, <3>1, <3>3, <3>5 DEF NewestKnown, c
  <2>2. \A h, i \in Hands' : h # i => Of(h)'.grant # Of(i)'.grant
    BY DEF Kept, Tokens, OnlyWriter
  <2> QED
    BY <2>1, <2>2 DEF OnlyWriter
<1> QED
  BY <1>2, <1>3, <1>4

\* The provider rotates a token that nobody was about to replace.
LEMMA RotatedTokens ==
    ASSUME TypeOK, Tokens, NEW c \in Known, Alive(c), newest' = newest,
           upstream' = [upstream EXCEPT ![c.grant] = @ + 1],
           Known' \subseteq Known \cup {FirstCredentials}, NEW k,
           \A h \in Hands' : (h = k /\ Of(h)' = c) \/ (h \in Hands /\ Of(h)' = Of(h))
    PROVE  GrantsGiven' /\ NotAhead' /\ OnlyWriter'
<1>0. /\ TokenTypes /\ FirstCredentials.grant = 0 /\ FirstCredentials.rotation = 0
      /\ upstream \in [0..MaxGrants -> 0..MaxRotations]
  BY TypeOK_TokenTypes, FirstParts DEF TypeOK
<1> DEFINE g == c.grant
           n == c.rotation
<1>1. /\ g \in 0..MaxGrants /\ n \in Nat /\ upstream[g] = n /\ g <= newest
      /\ c.grant = g /\ c.rotation = n
  BY <1>0, BoundsAssumption DEF TokenTypes, Alive, Tokens, GrantsGiven
<1>2. upstream'[g] = n + 1 /\ \A f \in 0..MaxGrants : f # g => upstream'[f] = upstream[f]
  BY <1>0, <1>1
<1>3. \A d \in Known' : d \in Known \/ d = FirstCredentials
  OBVIOUS
<1>4. \A f \in 0..MaxGrants :
        upstream[f] \in Nat /\ upstream'[f] \in Nat /\ upstream'[f] >= upstream[f]
  BY <1>0, <1>1, <1>2, BoundsAssumption DEF TokenTypes
<1>5. \A d \in Known : /\ d.grant \in 0..MaxGrants /\ d.rotation \in Nat /\ d.grant <= newest
                       /\ d.rotation <= upstream[d.grant]
  BY <1>0, BoundsAssumption DEF TokenTypes, Tokens, GrantsGiven, NotAhead
<1>6. newest \in Nat /\ 0 \in 0..MaxGrants
  BY <1>0, BoundsAssumption DEF TokenTypes
<1> HIDE DEF g, n
<1>7. GrantsGiven'
  <2>1. \A f \in 0..MaxGrants : f > newest => upstream'[f] = 0
    BY <1>1, <1>2, <1>6 DEF Tokens, GrantsGiven
  <2> QED
    BY <1>0, <1>3, <1>5, <1>6, <2>1 DEF GrantsGiven
<1>8. NotAhead'
  BY <1>0, <1>3, <1>4, <1>5, <1>6 DEF NotAhead
<1>9. ASSUME NEW h \in Hands
      PROVE  /\ Of(h) \in Known /\ Of(h).grant # g /\ upstream[Of(h).grant] = Of(h).rotation + 1
             /\ \A d \in Known : d.grant = Of(h).grant => d.rotation <= Of(h).rotation
  <2>1. NewestKnown(Of(h)) /\ Of(h) \in Known
    BY <1>0 DEF Tokens, OnlyWriter, Hands, Of, Writers, Storers, TokenTypes
  <2> DEFINE e == Of(h)
  <2>2. /\ upstream[e.grant] = e.rotation + 1 /\ e \in Known
        /\ \A d \in Known : d.grant = e.grant => d.rotation <= e.rotation
    BY <2>1 DEF NewestKnown
  <2> HIDE DEF e
  <2>3. e.grant # g
    BY <1>1, <1>5, <2>2
  <2> QED
    BY <2>2, <2>3 DEF e
<1>10. OnlyWriter'
  <2>1. ASSUME NEW h \in Hands' PROVE NewestKnown(Of(h))'
    <3>1. CASE Of(h)' = c
      <4>1. \A d \in Known' : d.grant = g => d.rotation <= n
        BY <1>0, <1>1, <1>3, <1>5
      <4> QED
        BY <1>1, <1>2, <3>1, <4>1 DEF NewestKnown
    <3>2. CASE h \in Hands /\ Of(h)' = Of(h)
      <4> DEFINE e == Of(h)
      <4>1. /\ e \in Known /\ e.grant # g /\ upstream[e.grant] = e.rotation + 1
            /\ \A d \in Known : d.grant = e.grant => d.rotation <= e.rotation
        BY <1>9, <3>2
      <4>2. Of(h)' = e
        BY <3>2
      <4> HIDE DEF e
      <4>3. upstream'[e.grant] = e.rotation + 1 /\ e.rotation \in Nat
        BY <1>2, <1>5, <4>1
      <4>4. \A d \in Known' : d.grant = e.grant => d.rotation <= e.rotation
        BY <1>0, <1>3, <4>1, <4>3
      <4> QED
        BY <4>2, <4>3, <4>4 DEF NewestKnown
    <3> QED
      BY <3>1, <3>2
  <2>2. \A h, i \in Hands' : h # i => Of(h)'.grant # Of(i)'.grant
    BY <1>1, <1>9 DEF Tokens, OnlyWriter
  <2> QED
    BY <2>1, <2>2 DEF OnlyWriter
<1> QED
  BY <1>7, <1>8, <1>10

\* The token written is the newest of its grant, and nobody else is about to write one
\* of that grant.
LEMMA WrittenTokens ==
    ASSUME TypeOK, Tokens, NEW k \in Hands, Of(k).rotation < MaxRotations,
           UNCHANGED <<newest, upstream>>,
           Known' \subseteq Known \cup {FirstCredentials, Rotated(Of(k))},
           Hands' \subseteq Hands \ {k}, \A h \in Hands' : Of(h)' = Of(h)
    PROVE  GrantsGiven' /\ NotAhead' /\ OnlyWriter'
<1>0. TokenTypes /\ FirstCredentials.grant = 0 /\ FirstCredentials.rotation = 0
  BY TypeOK_TokenTypes, FirstParts
<1>1. \A h \in Hands : Of(h) \in Known /\ NewestKnown(Of(h))
  BY <1>0 DEF Tokens, OnlyWriter, Hands, Of, Writers, Storers, TokenTypes
<1> DEFINE c == Of(k)
           r == Rotated(c)
<1>2. c \in Known /\ c.rotation < MaxRotations /\ upstream[c.grant] = c.rotation + 1
  BY <1>1 DEF NewestKnown
<1>3. \A h \in Hands' : h \in Hands /\ Of(h)' = Of(h) /\ Of(h).grant # c.grant
  BY DEF Tokens, OnlyWriter
<1>4. \A d \in Known' : d \in Known \/ d = FirstCredentials \/ d = r
  OBVIOUS
<1> HIDE DEF c
<1>5. r.grant = c.grant /\ r.rotation = c.rotation + 1
  BY <1>0, <1>2, RotatedParts DEF TokenTypes
<1> HIDE DEF r
<1>6. \A d \in Known : /\ d.grant \in 0..MaxGrants /\ d.rotation \in Nat /\ d.grant <= newest
                       /\ d.rotation <= upstream[d.grant]
  BY <1>0, BoundsAssumption DEF TokenTypes, Tokens, GrantsGiven, NotAhead
<1>7. newest \in Nat /\ 0 \in 0..MaxGrants /\ \A f \in 0..MaxGrants : upstream[f] \in Nat
  BY <1>0, BoundsAssumption DEF TokenTypes
<1>8. GrantsGiven'
  BY <1>0, <1>2, <1>4, <1>5, <1>6, <1>7 DEF Tokens, GrantsGiven
<1>9. NotAhead'
  BY <1>0, <1>2, <1>4, <1>5, <1>6, <1>7 DEF NotAhead
<1>10. OnlyWriter'
  <2>1. ASSUME NEW h \in Hands' PROVE NewestKnown(Of(h))'
    <3> DEFINE e == Of(h)
    <3>1. e \in Known /\ NewestKnown(e) /\ e.grant # c.grant /\ Of(h)' = e
      BY <1>1, <1>3
    <3> HIDE DEF e
    <3>2. \A d \in Known' : d.grant = e.grant => d.rotation <= e.rotation
      BY <1>0, <1>4, <1>5, <1>6, <3>1 DEF NewestKnown
    <3> QED
      BY <3>1, <3>2 DEF NewestKnown
  <2>2. \A h, i \in Hands' : h # i => Of(h)'.grant # Of(i)'.grant
    BY <1>3 DEF Tokens, OnlyWriter
  <2> QED
    BY <2>1, <2>2 DEF OnlyWriter
<1> QED
  BY <1>8, <1>9, <1>10

\* A new grant is fresh at the provider.
LEMMA ReauthorizeTokens ==
    ASSUME TypeOK, Tokens, NEW a \in Admins, Reauthorize(a)
    PROVE  GrantsGiven' /\ NotAhead' /\ OnlyWriter'
<1>0. TokenTypes /\ FirstCredentials.grant = 0 /\ FirstCredentials.rotation = 0
  BY TypeOK_TokenTypes, FirstParts
<1>1. /\ newest < MaxGrants /\ newest' = newest + 1
      /\ cred'.grant = newest + 1 /\ cred'.rotation = 0
      /\ UNCHANGED <<upstream, pc, snap>> /\ Sits(a, "clear", FirstCredentials)
  BY AdminSits DEF Reauthorize, refreshVars
<1>2. \A d \in Known' : d \in Known \/ d = FirstCredentials \/ d = cred'
  BY <1>1 DEF Known, Sits
<1>3. Hands' \subseteq Hands /\ \A h \in Hands' : Of(h)' = Of(h)
  BY <1>1 DEF Hands, Of, Writers, Storers, StoringLabels, Sits
<1>4. /\ newest \in Nat /\ newest + 1 \in 0..MaxGrants /\ 0 \in 0..MaxGrants
      /\ \A f \in 0..MaxGrants : upstream[f] \in Nat
      /\ \A d \in Known : /\ d.grant \in 0..MaxGrants /\ d.rotation \in Nat /\ d.grant <= newest
                          /\ d.rotation <= upstream[d.grant]
  BY <1>0, <1>1, BoundsAssumption DEF TokenTypes, Tokens, GrantsGiven, NotAhead
<1>5. GrantsGiven'
  BY <1>0, <1>1, <1>2, <1>4 DEF Tokens, GrantsGiven
<1>6. NotAhead'
  BY <1>0, <1>1, <1>2, <1>4 DEF NotAhead
<1>7. OnlyWriter'
  <2>1. ASSUME NEW h \in Hands' PROVE NewestKnown(Of(h))'
    <3> DEFINE e == Of(h)
    <3>1. e \in Known /\ NewestKnown(e) /\ Of(h)' = e
      BY <1>0, <1>3 DEF Tokens, OnlyWriter, Hands, Of, Writers, Storers, TokenTypes
    <3> HIDE DEF e
    <3>2. \A d \in Known' : d.grant = e.grant => d.rotation <= e.rotation
      BY <1>0, <1>1, <1>2, <1>4, <3>1 DEF NewestKnown
    <3> QED
      BY <1>1, <3>1, <3>2 DEF NewestKnown
  <2>2. \A h, i \in Hands' : h # i => Of(h)'.grant # Of(i)'.grant
    BY <1>3 DEF Tokens, OnlyWriter
  <2> QED
    BY <2>1, <2>2 DEF OnlyWriter
<1> QED
  BY <1>5, <1>6, <1>7

LEMMA RotatableStep ==
    ASSUME TypeOK, Rotatable, [Next]_vars
    PROVE  Rotatable'
<1> USE DEF Rotatable, Goto, rowVars, StoringLabels
<1>0. pc \in [Refreshers -> Labels] /\ snap \in [Refreshers -> Credentials]
  BY DEF TypeOK
<1>1. ASSUME Quiet, due' = due \/ Due PROVE Rotatable'
  <2>1. cred.rotation < party.rotations => cred.rotation < MaxRotations
    <3>1. party.rotations \in 0..MaxRotations /\ cred.rotation \in 0..MaxRotations
      BY PartiesAssumption, TypeOK_TokenTypes DEF TypeOK, TokenTypes
    <3> QED
      BY <3>1, BoundsAssumption
  <2> QED
    BY <1>1, <2>1 DEF Quiet, Due
<1>2. CASE Due \/ ExpireLock \/ UNCHANGED vars
  <2>1. Quiet
    BY <1>2, QuietSteps
  <2> QED
    BY <1>1, <1>2, <2>1 DEF ExpireLock, vars
<1>3. ASSUME NEW w \in Refreshers,
             \/ LockLocal(w) \/ AcquireRefreshLock(w) \/ TryRecover(w)
             \/ ReleaseRefreshLock(w) \/ SetError(w)
      PROVE  Rotatable'
  <2>1. Quiet
    BY <1>3, QuietSteps
  <2>2. due' = due
    BY <1>3 DEF LockLocal, AcquireRefreshLock, TryRecover, ReleaseRefreshLock, SetError
  <2> QED
    BY <1>1, <2>1, <2>2
<1>4. ASSUME NEW p \in Processes, Crash(p) PROVE Rotatable'
  <2>1. Quiet
    BY <1>4, QuietSteps
  <2> QED
    BY <1>1, <1>4, <2>1 DEF Crash
<1>5. ASSUME NEW a \in Admins, Administrate(a) PROVE Rotatable'
  <2>1. UNCHANGED <<pc, snap>>
    BY <1>5, AdminBeside
  <2>2. due' => cred'.rotation < MaxRotations
    <3>1. CASE StoreRefreshed(a) \/ StoreEdited(a)
      BY <3>1 DEF StoreRefreshed, StoreEdited, Update
    <3>2. CASE Reauthorize(a)
      BY <3>2 DEF Reauthorize
    <3>3. CASE UNCHANGED <<cred, due>>
      BY <3>3
    <3> QED
      BY <1>5, <3>1, <3>2, <3>3 DEF Administrate, GetAccount, RefreshSingleAccount,
         ReloadAccount, ClearAccountError, AdminFails
  <2>3. ASSUME NEW b \in Admins, desk'[b].at \in {"refresh"} \cup StoringLabels
        PROVE  desk'[b].cred.rotation < MaxRotations
    <3>1. CASE b # a
      <4>1. desk'[b] = desk[b]
        BY <1>5, <3>1, AdminSits DEF Administrate, Sits
      <4> QED
        BY <2>3, <4>1
    <3>2. CASE b = a
      <4>1. \/ desk'[a].cred = cred /\ cred.rotation < MaxRotations
            \/ desk'[a].cred = desk[a].cred /\ (RefreshSingleAccount(a) \/ ReloadAccount(a))
        BY <1>5, <2>3, <3>2, AdminSits DEF Administrate, Sits
      <4> QED
        BY <3>2, <4>1 DEF RefreshSingleAccount, ReloadAccount
    <3> QED
      BY <3>1, <3>2
  <2> QED
    BY <2>1, <2>2, <2>3
<1>6. ASSUME NEW w \in Refreshers, Reread(w) PROVE Rotatable'
  BY <1>0, <1>6 DEF Reread, NeedsRefresh
<1>7. ASSUME NEW w \in Refreshers, Refresh(w) PROVE Rotatable'
  BY <1>0, <1>7 DEF Refresh
<1>8. ASSUME NEW w \in Refreshers, Persist(w) PROVE Rotatable'
  <2>1. /\ UNCHANGED <<snap, desk>> /\ pc' = [pc EXCEPT ![w] = "release"]
        /\ due' = FALSE \/ (due' = due /\ cred' = cred)
    BY <1>8 DEF Persist
  <2> QED
    BY <1>0, <2>1
<1> QED
  BY <1>2, <1>3, <1>4, <1>5, <1>6, <1>7, <1>8 DEF Next, Attempt
\* A step that is neither a rotation nor a write of a token keeps them.
LEMMA QuietKept == ASSUME TypeOK, Quiet PROVE Kept
<1>1. /\ Known' \subseteq Known \cup {FirstCredentials}
      /\ Hands' \subseteq Hands /\ \A h \in Hands' : Of(h)' = Of(h)
  BY DEF Quiet, Known, Hands, Of, Writers, Storers
<1> QED
  BY <1>1 DEF Quiet, Kept

LEMMA RereadKept == ASSUME TypeOK, NEW w \in Refreshers, Reread(w) PROVE Kept
<1>0. pc \in [Refreshers -> Labels] /\ snap \in [Refreshers -> Credentials]
  BY DEF TypeOK
<1>1. /\ UNCHANGED <<cred, newest, upstream, desk>> /\ pc[w] = "reread"
      /\ \/ snap' = [snap EXCEPT ![w] = cred] /\ pc' = [pc EXCEPT ![w] = "upstream"]
         \/ snap' = snap /\ pc' = [pc EXCEPT ![w] = "release"]
  BY DEF Reread, Goto, rowVars
<1>2. /\ Known' \subseteq Known
      /\ Hands' \subseteq Hands /\ \A h \in Hands' : Of(h)' = Of(h)
  BY <1>0, <1>1 DEF Known, Hands, Of, Writers, Storers
<1> QED
  BY <1>1, <1>2 DEF Kept

LEMMA RefreshTokens ==
    ASSUME TypeOK, Tokens, NEW w \in Refreshers, Refresh(w)
    PROVE  GrantsGiven' /\ NotAhead' /\ OnlyWriter'
<1>0. pc \in [Refreshers -> Labels]
  BY DEF TypeOK
<1>1. UNCHANGED <<cred, newest, snap, desk>> /\ pc[w] = "upstream" /\ Known' = Known
  BY DEF Refresh, rowVars, Known
<1>2. CASE upstream' = upstream /\ (\/ pc' = [pc EXCEPT ![w] = "release"]
                                   \/ pc' = [pc EXCEPT ![w] = "recover"])
  <2>1. Hands' \subseteq Hands /\ \A h \in Hands' : Of(h)' = Of(h)
    BY <1>0, <1>1, <1>2 DEF Hands, Of, Writers, Storers
  <2> QED
    BY <1>1, <1>2, <2>1, KeptTokens DEF Kept
<1>3. ASSUME Alive(snap[w]), upstream' = [upstream EXCEPT ![snap[w].grant] = @ + 1],
             \/ pc' = [pc EXCEPT ![w] = "persist"] \/ pc' = [pc EXCEPT ![w] = "release"]
      PROVE  GrantsGiven' /\ NotAhead' /\ OnlyWriter'
  <2> DEFINE c == snap[w]
             k == <<"refresher", w>>
  <2>1. c \in Known
    BY DEF Known
  <2>2. \A h \in Hands' : (h = k /\ Of(h)' = c) \/ (h \in Hands /\ Of(h)' = Of(h))
    BY <1>0, <1>1, <1>3 DEF Hands, Of, Writers, Storers
  <2>3. Alive(c) /\ upstream' = [upstream EXCEPT ![c.grant] = @ + 1]
    BY <1>3
  <2> HIDE DEF c, k
  <2> QED
    BY <1>1, <2>1, <2>2, <2>3, RotatedTokens
<1> QED
  BY <1>2, <1>3 DEF Refresh, Goto

LEMMA PersistTokens ==
    ASSUME TypeOK, Tokens, NEW w \in Refreshers, Persist(w)
    PROVE  GrantsGiven' /\ NotAhead' /\ OnlyWriter'
<1>0. pc \in [Refreshers -> Labels]
  BY DEF TypeOK
<1>1. /\ UNCHANGED <<newest, upstream, snap, desk>> /\ pc[w] = "persist"
      /\ pc' = [pc EXCEPT ![w] = "release"]
      /\ cred' = cred \/ cred' = Rotated(snap[w])
  BY DEF Persist, Goto
<1> DEFINE k == <<"refresher", w>>
<1>2. k \in Hands /\ Of(k) = snap[w] /\ Of(k).rotation < MaxRotations
  BY <1>1 DEF Hands, Of, Writers, Tokens, Rotatable
<1>3. Hands' \subseteq Hands \ {k} /\ \A h \in Hands' : Of(h)' = Of(h)
  BY <1>0, <1>1 DEF Hands, Of, Writers, Storers
<1>4. Known' \subseteq Known \cup {FirstCredentials, Rotated(Of(k))}
  BY <1>1, <1>2 DEF Known
<1> HIDE DEF k
<1> QED
  BY <1>1, <1>2, <1>3, <1>4, WrittenTokens

\* A request learns the row's credentials, and may put back the ones it read.
LEMMA AdminKept ==
    ASSUME TypeOK, NEW a \in Admins,
           \/ GetAccount(a) \/ ReloadAccount(a) \/ StoreEdited(a) \/ ClearAccountError(a)
           \/ AdminFails(a)
    PROVE  Kept
<1>1. UNCHANGED <<newest, upstream, pc, snap>> /\ (cred' = cred \/ cred' = desk[a].cred)
  BY DEF GetAccount, ReloadAccount, StoreEdited, ClearAccountError, AdminFails, Update,
         refreshVars, rowVars
<1>2. /\ desk'[a].cred \in {cred, FirstCredentials, desk[a].cred}
      /\ desk'[a].at \in StoringLabels =>
            desk[a].at \in StoringLabels /\ desk'[a].cred = desk[a].cred
      /\ \A b \in Admins : b # a => desk'[b] = desk[b]
  BY AdminSits DEF Sits, StoringLabels, ReloadAccount
<1>3. Known' \subseteq Known \cup {FirstCredentials}
  BY <1>1, <1>2 DEF Known
<1>4. Hands' \subseteq Hands /\ \A h \in Hands' : Of(h)' = Of(h)
  BY <1>1, <1>2 DEF Hands, Of, Writers, Storers
<1> QED
  BY <1>1, <1>3, <1>4 DEF Kept

LEMMA RefreshSingleTokens ==
    ASSUME TypeOK, Tokens, NEW a \in Admins, RefreshSingleAccount(a)
    PROVE  GrantsGiven' /\ NotAhead' /\ OnlyWriter'
<1>1. UNCHANGED <<cred, newest, pc, snap>> /\ desk[a].at = "refresh"
  BY DEF RefreshSingleAccount, rowVars
<1>2. CASE upstream' = upstream /\ Sits(a, "idle", FirstCredentials)
  <2>1. /\ Known' \subseteq Known \cup {FirstCredentials}
        /\ Hands' \subseteq Hands /\ \A h \in Hands' : Of(h)' = Of(h)
    BY <1>1, <1>2 DEF Known, Hands, Of, Writers, Storers, Sits, StoringLabels
  <2> QED
    BY <1>1, <1>2, <2>1, KeptTokens DEF Kept
<1>3. ASSUME Alive(desk[a].cred), upstream' = [upstream EXCEPT ![desk[a].cred.grant] = @ + 1],
             Sits(a, "reload", desk[a].cred) \/ Sits(a, "idle", FirstCredentials)
      PROVE  GrantsGiven' /\ NotAhead' /\ OnlyWriter'
  <2> DEFINE c == desk[a].cred
             k == <<"admin", a>>
  <2>1. c \in Known
    BY DEF Known
  <2>2. Known' \subseteq Known \cup {FirstCredentials}
    BY <1>1, <1>3 DEF Known, Sits
  <2>3. \A h \in Hands' : (h = k /\ Of(h)' = c) \/ (h \in Hands /\ Of(h)' = Of(h))
    BY <1>1, <1>3 DEF Hands, Of, Writers, Storers, Sits, StoringLabels
  <2>4. Alive(c) /\ upstream' = [upstream EXCEPT ![c.grant] = @ + 1]
    BY <1>3
  <2> HIDE DEF c, k
  <2> QED
    BY <1>1, <2>1, <2>2, <2>3, <2>4, RotatedTokens
<1> QED
  BY <1>2, <1>3, AdminSits

LEMMA StoreRefreshedTokens ==
    ASSUME TypeOK, Tokens, NEW a \in Admins, StoreRefreshed(a)
    PROVE  GrantsGiven' /\ NotAhead' /\ OnlyWriter'
<1>1. /\ UNCHANGED <<newest, upstream, pc, snap>> /\ desk[a].at = "store"
      /\ cred' = Rotated(desk[a].cred) /\ Sits(a, "idle", FirstCredentials)
  BY AdminSits DEF StoreRefreshed, Update, refreshVars
<1> DEFINE k == <<"admin", a>>
<1>2. k \in Hands /\ Of(k) = desk[a].cred /\ Of(k).rotation < MaxRotations
  BY <1>1 DEF Hands, Of, Storers, StoringLabels, Tokens, Rotatable
<1>3. Hands' \subseteq Hands \ {k} /\ \A h \in Hands' : Of(h)' = Of(h)
  BY <1>1 DEF Hands, Of, Writers, Storers, StoringLabels, Sits
<1>4. Known' \subseteq Known \cup {FirstCredentials, Rotated(Of(k))}
  BY <1>1, <1>2 DEF Known, Sits
<1> HIDE DEF k
<1> QED
  BY <1>1, <1>2, <1>3, <1>4, WrittenTokens

LEMMA TokensStep ==
    ASSUME TypeOK, Tokens, [Next]_vars
    PROVE  Tokens'
<1>1. Rotatable'
  BY RotatableStep DEF Tokens
<1>2. GrantsGiven' /\ NotAhead' /\ OnlyWriter'
  <2>1. ASSUME NEW a \in Admins, Administrate(a) PROVE GrantsGiven' /\ NotAhead' /\ OnlyWriter'
    BY <2>1, AdminKept, KeptTokens, RefreshSingleTokens, StoreRefreshedTokens, ReauthorizeTokens
    DEF Administrate
  <2>2. ASSUME NEW w \in Refreshers, Reread(w) \/ Refresh(w) \/ Persist(w)
        PROVE  GrantsGiven' /\ NotAhead' /\ OnlyWriter'
    BY <2>2, RereadKept, KeptTokens, RefreshTokens, PersistTokens
  <2>3. CASE Quiet
    BY <2>3, QuietKept, KeptTokens
  <2> QED
    BY <2>1, <2>2, <2>3, QuietSteps DEF Next, Attempt
<1> QED
  BY <1>1, <1>2 DEF Tokens

-----------------------------------------------------------------------------
\* A token in the hands of one about to write it is the last but one of its grant.
LEMMA WriterNewest ==
    ASSUME Tokens
    PROVE  /\ \A w \in Refreshers :
                pc[w] = "persist" => upstream[snap[w].grant] = snap[w].rotation + 1
           /\ \A a \in Admins :
                desk[a].at \in StoringLabels =>
                    upstream[desk[a].cred.grant] = desk[a].cred.rotation + 1
<1>1. \A h \in Hands : upstream[Of(h).grant] = Of(h).rotation + 1
  BY DEF Tokens, OnlyWriter, NewestKnown
<1>2. ASSUME NEW w \in Refreshers, pc[w] = "persist"
      PROVE  upstream[snap[w].grant] = snap[w].rotation + 1
  <2>1. <<"refresher", w>> \in Hands /\ Of(<<"refresher", w>>) = snap[w]
    BY <1>2 DEF Hands, Writers, Of
  <2> QED
    BY <1>1, <2>1
<1>3. ASSUME NEW a \in Admins, desk[a].at \in StoringLabels
      PROVE  upstream[desk[a].cred.grant] = desk[a].cred.rotation + 1
  <2>1. <<"admin", a>> \in Hands /\ Of(<<"admin", a>>) = desk[a].cred
    BY <1>3 DEF Hands, Storers, Of
  <2> QED
    BY <1>1, <2>1
<1> QED
  BY <1>2, <1>3

\* An administrator's request loses no token but by a fault.
LEMMA AdminTokenKept ==
    ASSUME TypeOK, Tokens, TokenKept, NEW a \in Admins, Administrate(a)
    PROVE  TokenKept'
<1>0. /\ TokenTypes /\ cred \in Credentials /\ desk[a].cred \in Credentials
      /\ upstream \in [0..MaxGrants -> 0..MaxRotations]
  BY TypeOK_TokenTypes DEF TypeOK, Desks
<1>1. UNCHANGED <<pc, snap>> /\ failed \subseteq failed'
  BY AdminBeside
<1>2. \A b \in Admins : b # a => desk'[b] = desk[b]
  BY AdminSits DEF Administrate, Sits
<1>3. CASE GetAccount(a) \/ ReloadAccount(a) \/ ClearAccountError(a)
  <2>1. UNCHANGED <<cred, upstream>>
    BY <1>3 DEF GetAccount, ReloadAccount, ClearAccountError, refreshVars, rowVars
  <2>2. desk[a].at \in {"reload", "store"} =>
          desk'[a].at \in {"reload", "store"} /\ desk'[a].cred = desk[a].cred
    BY <1>3, AdminSits DEF GetAccount, ReloadAccount, ClearAccountError, Sits
  <2> QED
    BY <1>1, <1>2, <2>1, <2>2 DEF TokenKept, Alive
<1>4. CASE RefreshSingleAccount(a)
  <2>1. desk[a].at = "refresh" /\ cred' = cred
    BY <1>4 DEF RefreshSingleAccount, rowVars
  <2>2. CASE /\ Alive(desk[a].cred) /\ Sits(a, "reload", desk[a].cred)
             /\ upstream' = [upstream EXCEPT ![desk[a].cred.grant] = @ + 1]
    <3>1. ASSUME Alive(cred) PROVE TokenKept'
      <4>1. CASE cred.grant = desk[a].cred.grant
        <5>1. cred.rotation = desk[a].cred.rotation
          BY <2>2, <3>1, <4>1 DEF Alive
        <5>2. cred = desk[a].cred
          BY <1>0, <4>1, <5>1, CredentialEquality
        <5> QED
          BY <2>1, <2>2, <5>2 DEF TokenKept, Sits
      <4>2. CASE cred.grant # desk[a].cred.grant
        <5>1. upstream'[cred.grant] = upstream[cred.grant]
          BY <1>0, <2>2, <4>2 DEF TokenTypes
        <5> QED
          BY <2>1, <3>1, <5>1 DEF TokenKept, Alive
      <4> QED
        BY <4>1, <4>2
    <3> QED
      BY <1>1, <1>2, <2>1, <2>2, <3>1 DEF TokenKept
  <2>3. CASE "lost" \in failed'
    BY <2>3 DEF TokenKept
  <2>4. CASE upstream' = upstream
    BY <1>1, <1>2, <2>1, <2>4 DEF TokenKept, Alive
  <2> QED
    BY <1>4, <2>2, <2>3, <2>4, AdminSits
<1>5. CASE StoreRefreshed(a)
  <2>1. desk[a].at = "store" /\ cred' = Rotated(desk[a].cred) /\ upstream' = upstream
    BY <1>5 DEF StoreRefreshed, Update, refreshVars
  <2>2. /\ desk[a].cred.rotation < MaxRotations
        /\ upstream[desk[a].cred.grant] = desk[a].cred.rotation + 1
    BY <2>1, WriterNewest DEF Tokens, Rotatable, StoringLabels
  <2>3. cred'.grant = desk[a].cred.grant /\ cred'.rotation = desk[a].cred.rotation + 1
    BY <1>0, <2>1, <2>2, RotatedParts
  <2> QED
    BY <2>1, <2>2, <2>3 DEF TokenKept, Alive
<1>6. CASE StoreEdited(a)
  <2>1. /\ desk[a].at = "edit" /\ cred' = desk[a].cred /\ upstream' = upstream
        /\ cred # desk[a].cred => "over" \in failed'
    BY <1>6 DEF StoreEdited, Update, refreshVars
  <2> QED
    BY <1>1, <1>2, <2>1 DEF TokenKept, Alive
<1>7. CASE Reauthorize(a)
  <2>1. /\ cred'.grant = newest + 1 /\ cred'.rotation = 0 /\ newest + 1 \in 0..MaxGrants
        /\ newest + 1 > newest /\ upstream' = upstream
    BY <1>0, <1>7, BoundsAssumption DEF Reauthorize, TokenTypes, refreshVars
  <2>2. upstream[newest + 1] = 0
    BY <2>1 DEF Tokens, GrantsGiven
  <2> QED
    BY <2>1, <2>2 DEF TokenKept, Alive
<1>8. CASE AdminFails(a)
  <2>1. UNCHANGED <<cred, upstream>> /\ ("lost" \in failed' \/ desk[a].at = "clear")
    BY <1>8 DEF AdminFails, Fault, refreshVars, rowVars
  <2> QED
    BY <1>1, <1>2, <2>1 DEF TokenKept, Alive
<1> QED
  BY <1>3, <1>4, <1>5, <1>6, <1>7, <1>8 DEF Administrate

\* The newest token is in the row or about to be written.
LEMMA TokenKeptStep ==
    ASSUME TypeOK, Tokens, TokenKept, [Next]_vars
    PROVE  TokenKept'
<1>0. /\ pc \in [Refreshers -> Labels] /\ TokenTypes
      /\ cred \in Credentials /\ snap \in [Refreshers -> Credentials]
      /\ upstream \in [0..MaxGrants -> 0..MaxRotations]
  BY TypeOK_TokenTypes DEF TypeOK
<1>1. CASE Quiet
  BY <1>1 DEF Quiet, TokenKept, Alive
<1>2. ASSUME NEW a \in Admins, Administrate(a) PROVE TokenKept'
  BY <1>2, AdminTokenKept
<1>3. ASSUME NEW w \in Refreshers, Reread(w) PROVE TokenKept'
  <2>1. UNCHANGED <<cred, upstream, failed, desk>>
    BY <1>3 DEF Reread, rowVars
  <2>2. \A v \in Refreshers : pc[v] = "persist" => pc'[v] = "persist" /\ snap'[v] = snap[v]
    BY <1>0, <1>3 DEF Reread, Goto
  <2> QED
    BY <2>1, <2>2 DEF TokenKept, Alive
<1>4. ASSUME NEW w \in Refreshers, Refresh(w) PROVE TokenKept'
  <2>1. pc[w] = "upstream" /\ UNCHANGED <<cred, snap, desk>>
    BY <1>4 DEF Refresh, rowVars
  <2>2. CASE "lost" \in failed'
    BY <2>2 DEF TokenKept
  <2>3. CASE upstream' = upstream /\ failed' = failed /\ pc' = [pc EXCEPT ![w] = "recover"]
    <3>1. \A v \in Refreshers : pc[v] = "persist" => pc'[v] = "persist"
      BY <1>0, <2>1, <2>3
    <3> QED
      BY <2>1, <2>3, <3>1 DEF TokenKept, Alive
  <2>4. CASE /\ Alive(snap[w]) /\ failed' = failed
             /\ upstream' = [upstream EXCEPT ![snap[w].grant] = @ + 1]
             /\ pc' = [pc EXCEPT ![w] = "persist"]
    <3>1. pc'[w] = "persist" /\ \A v \in Refreshers : pc[v] = "persist" => pc'[v] = "persist"
      BY <1>0, <2>4
    <3>2. ASSUME Alive(cred) PROVE TokenKept'
      <4>1. CASE cred.grant = snap[w].grant
        <5>1. cred.rotation = snap[w].rotation
          BY <2>4, <3>2, <4>1 DEF Alive
        <5>2. cred = snap[w]
          BY <1>0, <4>1, <5>1, CredentialEquality
        <5> QED
          BY <2>1, <3>1, <5>2 DEF TokenKept
      <4>2. CASE cred.grant # snap[w].grant
        <5>1. upstream'[cred.grant] = upstream[cred.grant]
          BY <1>0, <2>4, <4>2 DEF TokenTypes
        <5> QED
          BY <2>1, <3>2, <5>1 DEF TokenKept, Alive
      <4> QED
        BY <4>1, <4>2
    <3> QED
      BY <2>1, <2>4, <3>1, <3>2 DEF TokenKept
  <2> QED
    BY <1>4, <2>2, <2>3, <2>4 DEF Refresh, Fault, NoFault, Goto
<1>5. ASSUME NEW w \in Refreshers, Persist(w) PROVE TokenKept'
  <2>1. pc[w] = "persist" /\ UNCHANGED <<upstream, snap, desk>>
    BY <1>5 DEF Persist
  <2>2. CASE "lost" \in failed'
    BY <2>2 DEF TokenKept
  <2>3. CASE cred' = Rotated(snap[w])
    <3>1. snap[w].rotation < MaxRotations /\ upstream[snap[w].grant] = snap[w].rotation + 1
      BY <2>1, WriterNewest DEF Tokens, Rotatable
    <3>2. cred'.grant = snap[w].grant /\ cred'.rotation = snap[w].rotation + 1
      BY <1>0, <2>3, <3>1, RotatedParts
    <3> QED
      BY <2>1, <3>1, <3>2 DEF TokenKept, Alive
  <2>4. CASE ~MayPersist(w) /\ failed' = failed /\ cred' = cred
    <3>1. cred # snap[w]
      BY <2>4 DEF MayPersist
    <3>2. \A v \in Refreshers : pc[v] = "persist" /\ v # w => pc'[v] = "persist"
      BY <1>0, <1>5 DEF Persist, Goto
    <3> QED
      BY <2>1, <2>4, <3>1, <3>2 DEF TokenKept, Alive
  <2> QED
    BY <1>5, <2>2, <2>3, <2>4 DEF Persist, Fault, NoFault
<1> QED
  BY <1>1, <1>2, <1>3, <1>4, <1>5, QuietSteps DEF Next, Attempt

\* A conditional write keeps the grant of the row.
LEMMA ReauthorizationStep ==
    ASSUME TypeOK, Tokens, ReauthorizationKept, [Next]_vars
    PROVE  ReauthorizationKept'
<1>1. CASE Quiet
  BY <1>1 DEF Quiet, ReauthorizationKept
<1>2. ASSUME NEW a \in Admins, Administrate(a) PROVE ReauthorizationKept'
  <2>1. conditional' = conditional /\ failed \subseteq failed'
    BY <1>2, AdminBeside
  <2>2. CASE Reauthorize(a)
    BY <2>2 DEF Reauthorize, ReauthorizationKept
  <2>3. CASE UNCHANGED <<cred, newest>>
    BY <2>1, <2>3 DEF ReauthorizationKept
  <2>4. CASE StoreRefreshed(a) \/ StoreEdited(a)
    <3>1. /\ newest' = newest /\ (cred # desk[a].cred => "over" \in failed')
          /\ cred' = desk[a].cred \/ (cred' = Rotated(desk[a].cred) /\ desk[a].at = "store")
      BY <2>4 DEF StoreRefreshed, StoreEdited, Update
    <3>2. desk[a].cred \in Credentials
      BY DEF TypeOK, Desks
    <3>3. cred'.grant = desk[a].cred.grant
      BY <3>1, <3>2, RotatedParts DEF Tokens, Rotatable, StoringLabels
    <3> QED
      BY <2>1, <3>1, <3>3 DEF ReauthorizationKept
  <2> QED
    BY <1>2, <2>2, <2>3, <2>4 DEF Administrate, GetAccount, RefreshSingleAccount, ReloadAccount,
       ClearAccountError, AdminFails, rowVars
<1>3. ASSUME NEW w \in Refreshers, Reread(w) \/ Refresh(w) PROVE ReauthorizationKept'
  <2>1. UNCHANGED <<conditional, cred, newest>>
    BY <1>3 DEF Reread, Refresh, rowVars, fixed
  <2> QED
    BY <2>1, FaultsStep DEF ReauthorizationKept
<1>4. ASSUME NEW w \in Refreshers, Persist(w) PROVE ReauthorizationKept'
  <2>1. /\ UNCHANGED <<conditional, newest>> /\ pc[w] = "persist" /\ failed \subseteq failed'
        /\ cred' = cred \/ (cred' = Rotated(snap[w]) /\ MayPersist(w))
    BY <1>4, FaultsStep DEF Persist, fixed
  <2>2. CASE cred' = Rotated(snap[w]) /\ MayPersist(w)
    <3>1. snap[w] \in Credentials /\ snap[w].rotation < MaxRotations
      BY <2>1 DEF Tokens, Rotatable, TypeOK
    <3>2. cred'.grant = snap[w].grant
      BY <2>2, <3>1, RotatedParts
    <3>3. conditional /\ "over" \notin failed => snap[w].grant = newest
      BY <2>2 DEF MayPersist, ReauthorizationKept
    <3>4. conditional' /\ "over" \notin failed' => cred'.grant = newest'
      BY <2>1, <3>2, <3>3
    <3> QED
      BY <3>4 DEF ReauthorizationKept
  <2> QED
    BY <2>1, <2>2 DEF ReauthorizationKept
<1> QED
  BY <1>1, <1>2, <1>3, <1>4, QuietSteps DEF Next, Attempt

-----------------------------------------------------------------------------
\* Which tokens the provider refuses.
LEMMA GuardedStep ==
    ASSUME [Next]_vars, Guarded'
    PROVE  Guarded
<1> QED
  BY FaultsStep DEF Guarded

\* A refused token stays refused.
LEMMA DeadStaysDead ==
    ASSUME TypeOK, NEW d \in Credentials, NEW c \in Credentials,
           \/ upstream' = upstream
           \/ upstream' = [upstream EXCEPT ![d.grant] = @ + 1],
           ~Alive(c), c.rotation <= upstream[c.grant]
    PROVE  upstream'[c.grant] # c.rotation
<1>0. /\ c.grant \in 0..MaxGrants /\ c.rotation \in Nat /\ upstream[c.grant] \in Nat
      /\ upstream \in [0..MaxGrants -> 0..MaxRotations]
  BY CredentialParts, TypeOK_TokenTypes, BoundsAssumption DEF TypeOK, TokenTypes
<1>1. c.rotation < upstream[c.grant]
  BY <1>0 DEF Alive
<1>2. upstream'[c.grant] \in {upstream[c.grant], upstream[c.grant] + 1}
  BY <1>0
<1> QED
  BY <1>0, <1>1, <1>2

LEMMA AdminUpstream ==
    ASSUME NEW a \in Admins, Administrate(a)
    PROVE  \/ upstream' = upstream
           \/ upstream' = [upstream EXCEPT ![desk[a].cred.grant] = @ + 1]
<1> QED
  BY DEF Administrate, GetAccount, RefreshSingleAccount, ReloadAccount, StoreRefreshed,
         StoreEdited, Reauthorize, ClearAccountError, AdminFails, refreshVars

LEMMA RefusedStep ==
    ASSUME TypeOK, Locks, Tokens, RefusedIsDead, [Next]_vars
    PROVE  RefusedIsDead'
<1> DEFINE refused == {"recover", "release_invalid", "quarantine"}
<1>0. pc \in [Refreshers -> Labels] /\ snap \in [Refreshers -> Credentials]
  BY DEF TypeOK
<1> SUFFICES ASSUME NEW x \in Refreshers, pc'[x] \in refused
             PROVE  /\ upstream'[snap'[x].grant] # snap'[x].rotation
                    /\ Guarded' => \A v \in Refreshers : pc'[v] = "persist" => snap'[v] # snap'[x]
  BY DEF RefusedIsDead, Alive
<1>1. ASSUME pc[x] \in refused, snap'[x] = snap[x], upstream' = upstream,
             \A v \in Refreshers : pc'[v] = "persist" => pc[v] = "persist" /\ snap'[v] = snap[v]
      PROVE  /\ upstream'[snap'[x].grant] # snap'[x].rotation
             /\ Guarded' => \A v \in Refreshers : pc'[v] = "persist" => snap'[v] # snap'[x]
  <2>1. upstream[snap[x].grant] # snap[x].rotation
    BY <1>1 DEF RefusedIsDead, Alive
  <2>2. Guarded' => \A v \in Refreshers : pc[v] = "persist" => snap[v] # snap[x]
    BY <1>1, GuardedStep DEF RefusedIsDead
  <2> QED
    BY <1>1, <2>1, <2>2
<1>2. CASE Quiet
  BY <1>1, <1>2 DEF Quiet
<1>3. ASSUME NEW a \in Admins, Administrate(a)
      PROVE  /\ upstream'[snap'[x].grant] # snap'[x].rotation
             /\ Guarded' => \A v \in Refreshers : pc'[v] = "persist" => snap'[v] # snap'[x]
  <2>1. UNCHANGED <<pc, snap>>
    BY <1>3, AdminBeside
  <2>2. ~Alive(snap[x]) /\ snap[x].rotation <= upstream[snap[x].grant]
    BY <2>1 DEF RefusedIsDead, Tokens, NotAhead, Known
  <2>3. desk[a].cred \in Credentials
    BY DEF TypeOK, Desks
  <2>4. \/ upstream' = upstream
        \/ upstream' = [upstream EXCEPT ![desk[a].cred.grant] = @ + 1]
    BY <1>3, AdminUpstream
  <2>5. upstream'[snap[x].grant] # snap[x].rotation
    BY <1>0, <2>2, <2>3, <2>4, DeadStaysDead
  <2>6. Guarded' => \A v \in Refreshers : pc[v] = "persist" => snap[v] # snap[x]
    BY <2>1, GuardedStep DEF RefusedIsDead
  <2> QED
    BY <2>1, <2>5, <2>6
<1>4. ASSUME NEW w \in Refreshers, Reread(w)
      PROVE  /\ upstream'[snap'[x].grant] # snap'[x].rotation
             /\ Guarded' => \A v \in Refreshers : pc'[v] = "persist" => snap'[v] # snap'[x]
  <2>1. /\ upstream' = upstream
        /\ \A v \in Refreshers : v # w => pc'[v] = pc[v] /\ snap'[v] = snap[v]
        /\ pc'[w] \in {"upstream", "release"}
    BY <1>0, <1>4 DEF Reread, Goto
  <2> QED
    BY <1>1, <2>1
<1>5. ASSUME NEW w \in Refreshers, Persist(w)
      PROVE  /\ upstream'[snap'[x].grant] # snap'[x].rotation
             /\ Guarded' => \A v \in Refreshers : pc'[v] = "persist" => snap'[v] # snap'[x]
  <2>1. /\ upstream' = upstream /\ snap' = snap
        /\ \A v \in Refreshers : v # w => pc'[v] = pc[v]
        /\ pc'[w] = "release"
    BY <1>0, <1>5 DEF Persist, Goto
  <2> QED
    BY <1>1, <2>1
<1>6. ASSUME NEW w \in Refreshers, Refresh(w)
      PROVE  /\ upstream'[snap'[x].grant] # snap'[x].rotation
             /\ Guarded' => \A v \in Refreshers : pc'[v] = "persist" => snap'[v] # snap'[x]
  <2>1. /\ snap' = snap /\ pc[w] = "upstream" /\ pc'[w] \in {"persist", "recover", "release"}
        /\ \A v \in Refreshers : v # w => pc'[v] = pc[v]
    BY <1>0, <1>6 DEF Refresh, Goto
  <2>2. CASE x # w
    <3>1. pc[x] \in refused
      BY <2>1, <2>2
    <3>2. ~Alive(snap[x]) /\ snap[x].rotation <= upstream[snap[x].grant]
      BY <3>1 DEF RefusedIsDead, Tokens, NotAhead, Known
    <3>3. upstream'[snap[x].grant] # snap[x].rotation
      BY <1>0, <1>6, <3>2, DeadStaysDead DEF Refresh
    <3>4. pc'[w] = "persist" => Alive(snap[w])
      BY <1>0, <1>6 DEF Refresh, Goto
    <3>5. Guarded' => \A v \in Refreshers : pc[v] = "persist" => snap[v] # snap[x]
      BY <3>1, GuardedStep DEF RefusedIsDead
    <3> QED
      BY <2>1, <3>2, <3>3, <3>4, <3>5
  <2>3. CASE x = w
    <3>1. ~Alive(snap[w]) /\ upstream' = upstream
      BY <1>0, <1>6, <2>3 DEF Refresh, Goto
    <3>2. ASSUME Guarded', NEW v \in Refreshers, pc'[v] = "persist" PROVE FALSE
      <4>1. v # w /\ pc[v] = "persist"
        BY <2>1, <2>3, <3>2
      <4>2. v \in Inside /\ w \in Inside
        BY <2>1, <4>1 DEF Inside
      <4>3. failed \cap {"lock", "late"} # {}
        BY <4>1, <4>2, LocksExclude DEF OneRefresher, Locks
      <4>4. "lock" \notin failed /\ "late" \notin failed
        BY <3>2, GuardedStep DEF Guarded, Locks, LateOnly
      <4> QED
        BY <4>3, <4>4
    <3> QED
      BY <2>1, <2>3, <3>1, <3>2 DEF Alive
  <2> QED
    BY <2>2, <2>3
<1> QED
  BY <1>2, <1>3, <1>4, <1>5, <1>6, QuietSteps DEF Next, Attempt

LEMMA DisabledStep ==
    ASSUME TypeOK, Tokens, RefusedIsDead, DisabledIsDead, [Next]_vars
    PROVE  DisabledIsDead'
<1>0. /\ pc \in [Refreshers -> Labels] /\ cred \in Credentials
      /\ snap \in [Refreshers -> Credentials]
  BY DEF TypeOK
<1> SUFFICES ASSUME Guarded', "error" \notin failed', ~active',
                    \A a \in Admins : desk'[a].at # "clear"
             PROVE  /\ upstream'[cred'.grant] # cred'.rotation
                    /\ \A v \in Refreshers : pc'[v] = "persist" => snap'[v] # cred'
  BY DEF DisabledIsDead, DeadCred, Alive
<1>1. Guarded /\ "error" \notin failed
  BY GuardedStep, FaultsStep
<1>2. ASSUME active' = active, \A a \in Admins : desk[a].at = "clear" => desk'[a].at = "clear"
      PROVE  ~Alive(cred) /\ \A v \in Refreshers : pc[v] = "persist" => snap[v] # cred
  BY <1>1, <1>2 DEF DisabledIsDead, DeadCred
<1>3. CASE Quiet /\ active' = active
  BY <1>2, <1>3 DEF Quiet, Alive
<1>4. CASE Due \/ ExpireLock \/ UNCHANGED vars
  <2>1. active' = active
    BY <1>4 DEF Due, ExpireLock, vars, rowVars
  <2> QED
    BY <1>3, <1>4, <2>1, QuietSteps
<1>5. ASSUME NEW w \in Refreshers,
             \/ LockLocal(w) \/ AcquireRefreshLock(w) \/ TryRecover(w) \/ ReleaseRefreshLock(w)
      PROVE  /\ upstream'[cred'.grant] # cred'.rotation
             /\ \A v \in Refreshers : pc'[v] = "persist" => snap'[v] # cred'
  <2>1. active' = active
    BY <1>5 DEF LockLocal, AcquireRefreshLock, TryRecover, ReleaseRefreshLock, rowVars
  <2> QED
    BY <1>3, <1>5, <2>1, QuietSteps
<1>6. ASSUME NEW p \in Processes, Crash(p)
      PROVE  /\ upstream'[cred'.grant] # cred'.rotation
             /\ \A v \in Refreshers : pc'[v] = "persist" => snap'[v] # cred'
  <2>1. active' = active
    BY <1>6 DEF Crash, rowVars
  <2> QED
    BY <1>3, <1>6, <2>1, QuietSteps
<1>7. ASSUME NEW a \in Admins, Administrate(a)
      PROVE  /\ upstream'[cred'.grant] # cred'.rotation
             /\ \A v \in Refreshers : pc'[v] = "persist" => snap'[v] # cred'
  <2>1. UNCHANGED <<pc, snap>>
    BY <1>7, AdminBeside
  <2>2. /\ \A b \in Admins : b # a => desk'[b] = desk[b]
        /\ ~Reauthorize(a)
    BY <1>7, AdminSits DEF Administrate, Sits
  <2>3. ~ClearAccountError(a) /\ (desk[a].at = "clear" => ~AdminFails(a))
    BY DEF ClearAccountError, AdminFails, Fault, rowVars
  <2>4. UNCHANGED <<active, cred>>
    <3>1. ASSUME NEW c, NEW s, Update(a, c, s) PROVE UNCHANGED <<active, cred>>
      <4>1. cred' = c /\ active' = s /\ ~s
        BY <3>1 DEF Update
      <4>2. "error" \in {"over", "error"}
        OBVIOUS
      <4>3. <<c, s>> = <<cred, active>>
        BY <3>1, <4>1, <4>2 DEF Update
      <4> QED
        BY <4>1, <4>3
    <3>2. StoreRefreshed(a) \/ StoreEdited(a) => UNCHANGED <<active, cred>>
      BY <3>1 DEF StoreRefreshed, StoreEdited
    <3> QED
      BY <1>7, <2>2, <2>3, <3>2 DEF Administrate, GetAccount, RefreshSingleAccount,
         ReloadAccount, AdminFails, rowVars
  <2>5. desk[a].at # "clear"
    BY <1>7, <2>2, <2>3 DEF Administrate, GetAccount, RefreshSingleAccount, ReloadAccount,
       StoreRefreshed, StoreEdited
  <2>6. ~Alive(cred) /\ \A v \in Refreshers : pc[v] = "persist" => snap[v] # cred
    BY <1>2, <2>2, <2>4, <2>5
  <2>7. desk[a].cred \in Credentials
    BY DEF TypeOK, Desks
  <2>8. upstream'[cred.grant] # cred.rotation
    BY <1>0, <1>7, <2>6, <2>7, AdminUpstream, DeadStaysDead DEF Tokens, NotAhead, Known
  <2> QED
    BY <2>1, <2>4, <2>6, <2>8
<1>8. ASSUME NEW w \in Refreshers, SetError(w)
      PROVE  /\ upstream'[cred'.grant] # cred'.rotation
             /\ \A v \in Refreshers : pc'[v] = "persist" => snap'[v] # cred'
  <2>1. Quiet
    BY <1>8, QuietSteps
  <2>2. CASE active' = active
    BY <1>3, <2>1, <2>2
  <2>3. CASE MayQuarantine(w)
    <3>1. cred = snap[w] /\ pc[w] = "quarantine"
      BY <1>1, <1>8, <2>3 DEF MayQuarantine, Guarded, SetError
    <3>2. ~Alive(cred) /\ \A v \in Refreshers : pc[v] = "persist" => snap[v] # cred
      BY <1>1, <3>1 DEF RefusedIsDead
    <3> QED
      BY <2>1, <3>2 DEF Quiet, Alive
  <2> QED
    BY <1>8, <2>2, <2>3 DEF SetError
<1>9. ASSUME NEW w \in Refreshers, Reread(w)
      PROVE  /\ upstream'[cred'.grant] # cred'.rotation
             /\ \A v \in Refreshers : pc'[v] = "persist" => snap'[v] # cred'
  <2>1. /\ UNCHANGED <<cred, active, upstream, desk>>
        /\ \A v \in Refreshers : v # w => pc'[v] = pc[v] /\ snap'[v] = snap[v]
        /\ pc'[w] \in {"upstream", "release"}
    BY <1>0, <1>9 DEF Reread, Goto, rowVars
  <2> QED
    BY <1>2, <2>1 DEF Alive
<1>10. ASSUME NEW w \in Refreshers, Refresh(w)
       PROVE  /\ upstream'[cred'.grant] # cred'.rotation
              /\ \A v \in Refreshers : pc'[v] = "persist" => snap'[v] # cred'
  <2>1. /\ UNCHANGED <<cred, active, snap, desk>>
        /\ \A v \in Refreshers : v # w => pc'[v] = pc[v]
        /\ pc'[w] = "persist" => Alive(snap[w])
    BY <1>0, <1>10 DEF Refresh, Goto, rowVars
  <2>2. upstream'[cred.grant] # cred.rotation
    BY <1>0, <1>2, <1>10, <2>1, DeadStaysDead DEF Tokens, NotAhead, Known, Refresh
  <2> QED
    BY <1>2, <2>1, <2>2
<1>11. ASSUME NEW w \in Refreshers, Persist(w)
       PROVE  /\ upstream'[cred'.grant] # cred'.rotation
              /\ \A v \in Refreshers : pc'[v] = "persist" => snap'[v] # cred'
  <2>1. /\ UNCHANGED <<active, upstream, snap, desk>> /\ pc[w] = "persist" /\ pc'[w] = "release"
        /\ \A v \in Refreshers : v # w => pc'[v] = pc[v]
        /\ cred' = cred \/ MayPersist(w)
    BY <1>0, <1>11 DEF Persist, Goto
  <2>2. ~MayPersist(w)
    BY <1>1, <1>2, <2>1 DEF MayPersist, Guarded
  <2> QED
    BY <1>2, <2>1, <2>2 DEF Alive
<1> QED
  BY <1>4, <1>5, <1>6, <1>7, <1>8, <1>9, <1>10, <1>11 DEF Next, Attempt

-----------------------------------------------------------------------------
\* The invariant holds at the start,
LEMMA InvInit == Init => Inv
<1> SUFFICES ASSUME Init PROVE Inv
  OBVIOUS
<1>0. /\ FirstCredentials \in Credentials
      /\ FirstCredentials.grant = 0 /\ FirstCredentials.rotation = 0
  BY FirstParts
<1> USE BoundsAssumption DEF Init
<1>1. TypeOK
  <2>1. party \in Parties /\ conditional \in BOOLEAN /\ active \in BOOLEAN /\ due \in BOOLEAN
    BY Zenon
  <2>2. newest \in 0..MaxGrants /\ upstream \in [0..MaxGrants -> 0..MaxRotations]
    OBVIOUS
  <2>3. /\ lock \in Refreshers \cup {NoOne} /\ mutex \in [Processes -> Refreshers \cup {NoOne}]
        /\ pc \in [Refreshers -> Labels] /\ locked \subseteq Refreshers /\ failed \subseteq Faults
    BY DEF Labels
  <2>4. cred \in Credentials /\ snap \in [Refreshers -> Credentials]
    BY <1>0
  <2>5. desk \in [Admins -> Desks]
    BY AtRestParts
  <2> QED
    BY <2>1, <2>2, <2>3, <2>4, <2>5 DEF TypeOK
<1>2. Locks
  BY DEF Locks, MutexHeld, LockHeld, LateOnly, InsideLabels, LeavingLabels
<1>3. Tokens
  <2>1. /\ \A c \in Known : c = FirstCredentials
        /\ \A a \in Admins : desk[a].at = "idle" /\ \A w \in Refreshers : pc[w] = "idle"
        /\ Hands = {}
    BY AtRestParts DEF Known, Hands, Writers, Storers, StoringLabels
  <2> QED
    BY <1>0, <2>1 DEF Tokens, Rotatable, StoringLabels, GrantsGiven, NotAhead, OnlyWriter
<1>4. RefusedIsDead /\ DisabledIsDead /\ ReauthorizationKept
  BY <1>0 DEF RefusedIsDead, DisabledIsDead, ReauthorizationKept
<1>5. TokenKept
  BY <1>0 DEF TokenKept, Alive
<1> QED
  BY <1>1, <1>2, <1>3, <1>4, <1>5 DEF Inv

\* and every step keeps it.
LEMMA InvStep == Inv /\ [Next]_vars => Inv'
<1> SUFFICES ASSUME Inv, [Next]_vars PROVE Inv'
  OBVIOUS
<1>1. TypeOK /\ Locks /\ Tokens /\ Rotatable
  BY DEF Inv, Tokens
<1>2. TypeOK'
  BY <1>1, TypeStep
<1>3. Locks'
  BY <1>1, MutexStep, LockStep, LateStep DEF Locks
<1>4. Tokens'
  BY <1>1, TokensStep
<1>5. RefusedIsDead' /\ DisabledIsDead'
  BY <1>1, RefusedStep, DisabledStep DEF Inv
<1>6. TokenKept' /\ ReauthorizationKept'
  BY <1>1, TokenKeptStep, ReauthorizationStep DEF Inv
<1> QED
  BY <1>2, <1>3, <1>4, <1>5, <1>6 DEF Inv

LEMMA InvHolds == Spec => []Inv
<1> QED
  BY InvInit, InvStep, PTL DEF Spec

\* Every variable of RefreshIfNeeded's model keeps to its kind: no rotation runs past the
\* bound, no lock is set by someone unknown.
THEOREM TypeCorrect == Spec => []TypeOK
<1>1. Inv => TypeOK
  BY DEF Inv
<1> QED
  BY <1>1, InvHolds, PTL

\* The mutex of the process keeps the refreshers of one process apart whatever fails, and
\* the Redis lock those of different processes, unless Redis failed or an attempt was late.
THEOREM RefreshersExclude == Spec => []OneRefresher
<1>1. Inv => OneRefresher
  BY LocksExclude DEF Inv, Locks
<1> QED
  BY <1>1, InvHolds, PTL

\* However many refreshers and administrators race, and whether the locks work or not, the
\* newest token is in the row or about to be written, unless a call or a write failed, a
\* process died, or a request beside the locks wrote its credentials over newer ones.
THEOREM NewestTokenKept == Spec => []TokenKept
<1>1. Inv => TokenKept
  BY DEF Inv
<1> QED
  BY <1>1, InvHolds, PTL

\* With the conditional SetError no account is disabled whose token still works, unless
\* Redis failed to answer or an administrator's request put an error back or left it.
THEOREM QuarantineIsDeserved == Spec => []QuarantineDeserved
<1>1. Inv => QuarantineDeserved
  BY DEF Inv, DisabledIsDead, DeadCred, QuarantineDeserved, Guarded
<1> QED
  BY <1>1, InvHolds, PTL

\* With the conditional UPDATE no refresh of an old grant overwrites a new one, unless an
\* administrator's request wrote what it had read over what was stored since.
THEOREM NewGrantKept == Spec => []ReauthorizationKept
<1>1. Inv => ReauthorizationKept
  BY DEF Inv
<1> QED
  BY <1>1, InvHolds, PTL
=============================================================================
