---------------------------- MODULE IngressLease ----------------------------
(***************************************************************************)
(* The leases that bound the open client WebSockets of one API key over    *)
(* all gateway instances: a Redis sorted set of leases, and for every      *)
(* connection a loop that refreshes its lease and ends the connection when *)
(* the lease is lost.  Time is a number of units since an event, kept up   *)
(* to the bound at which it no longer matters.                             *)
(***************************************************************************)
EXTENDS Integers, FiniteSets

CONSTANTS
    Connections,     \* client WebSockets of the key, each with a lease of its own
    MaxConnections,  \* the cap
    TTL,             \* openAIWSIngressLeaseTTL
    Interval,        \* openAIWSIngressLeaseRefreshInterval
    Timeout          \* openAIWSIngressLeaseOperationTO

ASSUME TimesAssumption ==
    /\ TTL \in Nat /\ Interval \in Nat /\ Timeout \in Nat
    /\ 0 < Timeout /\ Timeout < Interval /\ Interval < TTL
ASSUME CapAssumption == MaxConnections \in Nat /\ IsFiniteSet(Connections)

VARIABLES
    members,    \* leases in the sorted set
    score,      \* time since a member was added or refreshed, at Redis
    pc,         \* closed, acquiring, open, calling (a refresh is under way), cancelled
    confirmed,  \* time since lastConfirmedAt
    ticker,     \* time since the last tick of the refresh loop
    call,       \* time since the refresh was sent
    reply,      \* what Redis did with the refresh: none, owned or missing
    late        \* a refresh its caller gave up may still reach Redis

clientVars == <<pc, confirmed, ticker, call, reply>>
vars == <<members, score, pc, confirmed, ticker, call, reply, late>>

\* Nothing is unconfirmed for longer than this.
Horizon == TTL + Interval + Timeout

Init ==
    /\ members = {} /\ score = [c \in Connections |-> 0]
    /\ pc = [c \in Connections |-> "closed"]
    /\ confirmed = [c \in Connections |-> 0] /\ ticker = [c \in Connections |-> 0]
    /\ call = [c \in Connections |-> 0] /\ reply = [c \in Connections |-> "none"]
    /\ late = {}

\* Connections that are served.
Live == {c \in Connections : pc[c] \in {"open", "calling", "cancelled"}}

-----------------------------------------------------------------------------
\* ZREMRANGEBYSCORE key -inf now-ttl
Unexpired_short == {c \in members : score[c] + Interval < TTL}
Unexpired_all == members
Unexpired == {c \in members : score[c] < TTL}

BelowCap_or_at == Cardinality(Unexpired) <= MaxConnections
BelowCap == Cardinality(Unexpired) < MaxConnections

\* The handler acquires a lease with a fresh id;
Acquire(c) ==
    /\ pc[c] = "closed" /\ c \notin members \cup late
    /\ \/ /\ BelowCap
          /\ members' = Unexpired \cup {c} /\ score' = [score EXCEPT ![c] = 0]
          /\ pc' = [pc EXCEPT ![c] = "acquiring"] /\ call' = [call EXCEPT ![c] = 0]
       \/ /\ ~BelowCap
          /\ members' = Unexpired /\ UNCHANGED <<score, pc, call>>
    /\ UNCHANGED <<confirmed, ticker, reply, late>>

\* the reply starts the refresh loop, or does not come: the client gets a 503 and the
\* member is left to expire.
Acquired(c) ==
    /\ pc[c] = "acquiring"
    /\ \/ /\ pc' = [pc EXCEPT ![c] = "open"]
          /\ confirmed' = [confirmed EXCEPT ![c] = 0] /\ ticker' = [ticker EXCEPT ![c] = 0]
       \/ pc' = [pc EXCEPT ![c] = "closed"] /\ UNCHANGED <<confirmed, ticker>>
    /\ call' = [call EXCEPT ![c] = 0]
    /\ UNCHANGED <<members, score, reply, late>>

\* A tick of the loop: the refresh is sent.
SendRefresh(c) ==
    /\ pc[c] = "open" /\ ticker[c] >= Interval
    /\ pc' = [pc EXCEPT ![c] = "calling"]
    /\ ticker' = [ticker EXCEPT ![c] = 0] /\ call' = [call EXCEPT ![c] = 0]
    /\ reply' = [reply EXCEPT ![c] = "none"]
    /\ UNCHANGED <<members, score, confirmed, late>>

\* The refresh script does not add a member that is missing.
Refreshed_anyway(c) == Unexpired \cup {c}
Refreshed(c) == Unexpired

\* Redis runs the script of a refresh under way, or of one that timed out at its caller.
RunRefresh(c) ==
    /\ members' = Refreshed(c)
    /\ score' = IF c \in members' THEN [score EXCEPT ![c] = 0] ELSE score
    /\ \/ /\ pc[c] = "calling" /\ reply[c] = "none"
          /\ reply' = [reply EXCEPT ![c] = IF c \in members' THEN "owned" ELSE "missing"]
          /\ UNCHANGED late
       \/ c \in late /\ late' = late \ {c} /\ UNCHANGED reply
    /\ UNCHANGED <<pc, confirmed, ticker, call>>

Owned_any_reply(c) == reply[c] # "none"
Owned(c) == reply[c] = "owned"

\* The reply comes: the lease is confirmed from now on, or lost.
Reply(c) ==
    /\ pc[c] = "calling" /\ reply[c] # "none"
    /\ \/ /\ Owned(c)
          /\ pc' = [pc EXCEPT ![c] = "open"] /\ confirmed' = [confirmed EXCEPT ![c] = 0]
       \/ /\ ~Owned(c)
          /\ pc' = [pc EXCEPT ![c] = "cancelled"] /\ UNCHANGED confirmed
    /\ reply' = [reply EXCEPT ![c] = "none"] /\ call' = [call EXCEPT ![c] = 0]
    /\ UNCHANGED <<members, score, ticker, late>>

TooLong_never(c) == FALSE
TooLong(c) == confirmed[c] >= TTL

\* The refresh fails: that is tolerated until the lease is unconfirmed for its lifetime.
RefreshFails(c) ==
    /\ pc[c] = "calling"
    /\ pc' = [pc EXCEPT ![c] = IF TooLong(c) THEN "cancelled" ELSE "open"]
    /\ late' = IF reply[c] = "none" THEN late \cup {c} ELSE late
    /\ reply' = [reply EXCEPT ![c] = "none"] /\ call' = [call EXCEPT ![c] = 0]
    /\ UNCHANGED <<members, score, confirmed, ticker>>

\* The handler ends, because the client is gone or the context was cancelled.  Release
\* waits for a refresh under way, then removes the member, if Redis answers.
Release(c) ==
    /\ pc[c] \in {"open", "cancelled"}
    /\ pc' = [pc EXCEPT ![c] = "closed"]
    /\ members' \in {members, members \ {c}}
    /\ UNCHANGED <<score, confirmed, ticker, call, reply, late>>

\* The process of a connection dies.
Crash(c) ==
    /\ pc[c] # "closed"
    /\ pc' = [pc EXCEPT ![c] = "closed"]
    /\ late' = IF pc[c] = "calling" /\ reply[c] = "none" THEN late \cup {c} ELSE late
    /\ reply' = [reply EXCEPT ![c] = "none"] /\ call' = [call EXCEPT ![c] = 0]
    /\ UNCHANGED <<members, score, confirmed, ticker>>

LateLost(c) ==
    /\ c \in late /\ late' = late \ {c}
    /\ UNCHANGED <<members, score, clientVars>>

\* Time passes.  A tick is not served late, a call ends within Timeout, and a handler
\* whose context is cancelled ends at once.
Tick ==
    /\ \A c \in Connections :
          /\ pc[c] = "open" => ticker[c] < Interval
          /\ pc[c] \in {"acquiring", "calling"} => call[c] < Timeout
          /\ pc[c] # "cancelled"
    /\ score' = [c \in Connections |-> IF c \notin members THEN 0
                                       ELSE IF score[c] < TTL THEN score[c] + 1 ELSE TTL]
    /\ confirmed' = [c \in Connections |-> IF c \in Live THEN confirmed[c] + 1 ELSE 0]
    /\ ticker' = [c \in Connections |-> IF c \in Live THEN ticker[c] + 1 ELSE 0]
    /\ call' = [c \in Connections |-> IF pc[c] \in {"acquiring", "calling"} THEN call[c] + 1
                                      ELSE 0]
    /\ UNCHANGED <<members, pc, reply, late>>

-----------------------------------------------------------------------------
Next ==
    \/ \E c \in Connections :
          \/ Acquire(c) \/ Acquired(c) \/ SendRefresh(c) \/ RunRefresh(c) \/ Reply(c) \/ RefreshFails(c)
          \/ Release(c) \/ Crash(c) \/ LateLost(c)
    \/ Tick

Spec == Init /\ [][Next]_vars

\* Time passes; a loop ticks, a call is answered or times out, a cancelled handler ends.
Fairness ==
    /\ WF_vars(Tick)
    /\ \A c \in Connections :
          /\ WF_vars(Acquired(c)) /\ WF_vars(SendRefresh(c))
          /\ WF_vars(Reply(c) \/ RefreshFails(c))
          /\ WF_vars(pc[c] = "cancelled" /\ Release(c))

FairSpec == Spec /\ Fairness

-----------------------------------------------------------------------------
\* Every variable holds a value of its kind; no clock passes the bound kept for it.
TypeOK ==
    /\ members \subseteq Connections /\ score \in [Connections -> 0..TTL]
    /\ pc \in [Connections -> {"closed", "acquiring", "open", "calling", "cancelled"}]
    /\ confirmed \in [Connections -> 0..Horizon]
    /\ ticker \in [Connections -> 0..Interval + Timeout]
    /\ call \in [Connections -> 0..Timeout]
    /\ reply \in [Connections -> {"none", "owned", "missing"}]
    /\ late \subseteq Connections

\* Over all instances, no more connections than the cap are served whose lease was
\* confirmed within its lifetime, less the time a Redis call may take: whatever replies
\* are lost, refreshes arrive late and processes die.
ConfirmedWithinCap ==
    Cardinality({c \in Live : confirmed[c] + Timeout < TTL}) <= MaxConnections

\* No connection is served beyond the next refresh after its lease's lifetime without
\* a confirmation.
UnconfirmedBounded == \A c \in Live : confirmed[c] < Horizon

\* A connection whose lease is lost is ended: it never goes on beside those that took
\* its place.
LostIsEnded == \A c \in Connections : c \in Live /\ c \notin members ~> c \notin Live

\* The place of a connection that is gone, with its process or without a reply, is free
\* again in the end, though a late refresh may prolong it.
PlaceReturns ==
    \A c \in Connections : c \in Unexpired /\ c \notin Live ~> c \notin Unexpired \/ c \in Live
=============================================================================
